---------------------------- MODULE GlobalTracer ----------------------------
(***************************************************************************)
(* The process-wide tracer: opentracing_global_tracer() and                *)
(* opentracing_init_global_tracer(), called by any number of threads.      *)
(*                                                                         *)
(* The slot is an ordinary C pointer, read and written without a lock or   *)
(* an atomic.  A step of a thread is one access to it; between the call of *)
(* the old tracer's destroy and the assignment every other thread may run. *)
(* A racing read may also return a value that has already been             *)
(* overwritten (a cached register, a store not yet visible): "stale" holds *)
(* those values for each thread.  What makes a thread see the latest value *)
(* (pthread_once, a lock) is not in this code; the modules that extend     *)
(* this one add it and say how the application calls the two functions.    *)
(***************************************************************************)
EXTENDS Naturals

CONSTANTS Threads,   \* threads of the application
          Tracers,   \* vendor tracers, each with a destroy that ends its life
          Noop,      \* noop_tracer_singleton, whose destroy does nothing
          None       \* no tracer

ASSUME GlobalTracerAssumption ==
  /\ Noop \notin Tracers
  /\ None \notin Tracers \cup {Noop}
  /\ None \notin Threads

Instances == Tracers \cup {Noop}

VARIABLES
  global_tracer,  \* the slot
  stale,          \* stale[th]: overwritten values th may still read
  pc,             \* where th is inside opentracing_init_global_tracer
  tracer,         \* the argument of that call
  destroys,       \* destroys[t]: vendor destroy calls that were run on t
  installed,      \* history: every tracer ever assigned to the slot
  held            \* the pointer th got from opentracing_global_tracer

callVars == <<pc, tracer>>
vars == <<global_tracer, stale, callVars, destroys, installed, held>>

Dead(t) == destroys[t] > 0

\* The values a read of the slot by th can return.
Readable(th) == {global_tracer} \cup stale[th]

\* th's view once it has read the values vs: having read the latest value
\* it never returns to an older one.
ViewAfterReading(th, vs) ==
  IF global_tracer \in vs THEN [stale EXCEPT ![th] = {}] ELSE stale

-----------------------------------------------------------------------------
Init ==
  /\ global_tracer = Noop
  /\ stale = [th \in Threads |-> {}]
  /\ pc = [th \in Threads |-> "idle"]
  /\ tracer = [th \in Threads |-> None]
  /\ destroys = [t \in Instances |-> 0]
  /\ installed = {Noop}
  /\ held = [th \in Threads |-> None]

\* th calls opentracing_init_global_tracer(t) with a tracer that is alive.
InitCall(th, t) ==
  /\ pc[th] = "idle"
  /\ ~Dead(t)
  /\ pc' = [pc EXCEPT ![th] = "compare"]
  /\ tracer' = [tracer EXCEPT ![th] = t]
  /\ UNCHANGED <<global_tracer, stale, destroys, installed, held>>

\* Mutant: the comparison is inverted.
InitCompare_Inverted(th) ==
  /\ pc[th] = "compare"
  /\ \E v \in Readable(th) :
       /\ pc' = [pc EXCEPT ![th] = IF v # tracer[th] THEN "idle" ELSE "destroy"]
       /\ stale' = ViewAfterReading(th, {v})
  /\ UNCHANGED <<global_tracer, tracer, destroys, installed, held>>

\* if (global_tracer == tracer) return;
InitCompare(th) ==
  /\ pc[th] = "compare"
  /\ \E v \in Readable(th) :
       /\ pc' = [pc EXCEPT ![th] = IF v = tracer[th] THEN "idle" ELSE "destroy"]
       /\ stale' = ViewAfterReading(th, {v})
  /\ UNCHANGED <<global_tracer, tracer, destroys, installed, held>>

\* Mutant: the no-op tracer's destroy ends its life too.
RunDestroy_NoopDies(f, v) == destroys' = [destroys EXCEPT ![v] = @ + 1]

\* Mutant: the replaced tracer is not destroyed.
RunDestroy_Never(f, v) == UNCHANGED destroys

\* Running f's destroy on v: noop_destroy ignores its argument, a vendor's
\* destroy ends the life of the object it is given.
RunDestroy(f, v) ==
  destroys' = IF f = Noop THEN destroys ELSE [destroys EXCEPT ![v] = @ + 1]

\* Mutant: destroy is given the new tracer.
InitDestroyOld_NewTracer(th) ==
  /\ pc[th] = "destroy"
  /\ \E f \in Readable(th) :
       /\ RunDestroy(f, tracer[th])
       /\ stale' = ViewAfterReading(th, {f})
  /\ pc' = [pc EXCEPT ![th] = "assign"]
  /\ UNCHANGED <<global_tracer, tracer, installed, held>>

\* Mutant: the slot is set to NULL once its tracer is destroyed.
InitDestroyOld_NullsSlot(th) ==
  /\ pc[th] = "destroy"
  /\ \E f, v \in Readable(th) : RunDestroy(f, v)
  /\ global_tracer' = None
  /\ stale' = [o \in Threads |->
                 IF o = th THEN {} ELSE stale[o] \cup {global_tracer}]
  /\ pc' = [pc EXCEPT ![th] = "assign"]
  /\ UNCHANGED <<tracer, installed, held>>

\* global_tracer->destroy(global_tracer): the slot is read once for the
\* function and once for its argument.
InitDestroyOld(th) ==
  /\ pc[th] = "destroy"
  /\ \E f, v \in Readable(th) :
       /\ RunDestroy(f, v)
       /\ stale' = ViewAfterReading(th, {f, v})
  /\ pc' = [pc EXCEPT ![th] = "assign"]
  /\ UNCHANGED <<global_tracer, tracer, installed, held>>

\* Mutant: the assignment has been left out.
InitAssign_NoStore(th) ==
  /\ pc[th] = "assign"
  /\ pc' = [pc EXCEPT ![th] = "idle"]
  /\ UNCHANGED <<global_tracer, stale, tracer, destroys, installed, held>>

\* global_tracer = tracer;
InitAssign(th) ==
  /\ pc[th] = "assign"
  /\ global_tracer' = tracer[th]
  /\ stale' = [o \in Threads |->
                 IF o = th THEN {} ELSE stale[o] \cup {global_tracer}]
  /\ installed' = installed \cup {tracer[th]}
  /\ pc' = [pc EXCEPT ![th] = "idle"]
  /\ UNCHANGED <<tracer, destroys, held>>

\* The part of a call that runs without waiting for another thread.
InitStep(th) == InitCompare(th) \/ InitDestroyOld(th) \/ InitAssign(th)

\* held = opentracing_global_tracer();
GetGlobalTracer(th) ==
  /\ pc[th] = "idle"
  /\ held[th] = None
  /\ \E v \in Readable(th) :
       /\ held' = [held EXCEPT ![th] = v]
       /\ stale' = ViewAfterReading(th, {v})
  /\ UNCHANGED <<global_tracer, callVars, destroys, installed>>

\* th makes its last use of the pointer.
Release(th) ==
  /\ held[th] # None
  /\ held' = [held EXCEPT ![th] = None]
  /\ UNCHANGED <<global_tracer, stale, callVars, destroys, installed>>

-----------------------------------------------------------------------------
(* Threads that do not synchronise at all. *)

Next ==
  \E th \in Threads :
    \/ \E t \in Instances : InitCall(th, t)
    \/ InitStep(th)
    \/ GetGlobalTracer(th)
    \/ Release(th)

Spec == Init /\ [][Next]_vars

TypeOK ==
  /\ global_tracer \in Instances
  /\ stale \in [Threads -> SUBSET Instances]
  /\ pc \in [Threads -> {"idle", "compare", "destroy", "assign"}]
  /\ tracer \in [Threads -> Instances \cup {None}]
  /\ destroys \in [Instances -> Nat]
  /\ installed \subseteq Instances
  /\ held \in [Threads -> Instances \cup {None}]
  /\ \A th \in Threads : pc[th] # "idle" => tracer[th] # None

\* However the threads race, opentracing_init_global_tracer runs a vendor's
\* destroy only on a tracer that has been in the slot: a tracer that is
\* still being handed over is never torn down by its own installation.
OnlyInstalledDestroyed == \A t \in Tracers : Dead(t) => t \in installed

=============================================================================
