----------------------------- MODULE TracerSlot -----------------------------
(***************************************************************************)
(* What the global tracer of opentracing-c promises to its users, with the *)
(* memory accesses taken away: one tracer is current, a vendor tracer that *)
(* was replaced is retired for good, and one step replaces the current     *)
(* tracer and retires it.  The no-op tracer the process starts with is     *)
(* static and is never retired (its destroy does nothing), so it can be    *)
(* installed again.                                                        *)
(***************************************************************************)
CONSTANTS Tracers,   \* vendor tracers that may be installed
          Noop       \* the no-op tracer singleton

VARIABLES current,   \* the tracer opentracing_global_tracer() returns
          retired    \* vendor tracers whose life has ended

vars == <<current, retired>>

Init == /\ current = Noop
        /\ retired = {}

\* Make t current.  Only a tracer that is still alive can be made current.
Replace(t) == /\ t # current
              /\ t \notin retired
              /\ current' = t
              /\ retired' = retired \cup ({current} \ {Noop})

Next == \E t \in Tracers \cup {Noop} : Replace(t)

Spec == Init /\ [][Next]_vars
=============================================================================
