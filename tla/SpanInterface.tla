--------------------------- MODULE SpanInterface ---------------------------
(***************************************************************************)
(* What opentracing_span promises whoever holds one: the holder's span     *)
(* goes from open to finished to gone by the holder's own calls, only its  *)
(* context and its destruction come after finish, and it always tells the  *)
(* tracer that made it.  Nothing another holder does shows.                *)
(*                                                                         *)
(* The operation name, tags, logs and baggage are data a holder adds to    *)
(* its open span; what this module speaks of is not touched by them, and   *)
(* their calls are steps that change nothing here.                         *)
(***************************************************************************)
CONSTANTS Holders,   \* who may hold a span
          Tracers,   \* tracers that make spans
          Alike,     \* Alike[t]: the tracers a span of t may name
          None       \* no tracer

VARIABLES life,     \* life[o]: "none", "starting", "open" or "finished"
          maker,    \* the tracer of o's span
          told,     \* what span->tracer(span) returned to o, None before
          context   \* the holders of a span context

ifVars == <<life, maker, told, context>>

Init ==
  /\ life = [o \in Holders |-> "none"]
  /\ maker = [o \in Holders |-> None]
  /\ told = [o \in Holders |-> None]
  /\ context = {}

\* start_span or start_span_with_options is called on t ...
Start(o, t) ==
  /\ life[o] = "none"
  /\ life' = [life EXCEPT ![o] = "starting"]
  /\ maker' = [maker EXCEPT ![o] = t]
  /\ UNCHANGED <<told, context>>

\* ... and returns a span, or NULL.
Started(o) ==
  /\ life[o] = "starting"
  /\ \/ life' = [life EXCEPT ![o] = "open"] /\ UNCHANGED maker
     \/ life' = [life EXCEPT ![o] = "none"] /\ maker' = [maker EXCEPT ![o] = None]
  /\ UNCHANGED <<told, context>>

\* span->tracer(span)
Tell(o) ==
  /\ life[o] = "open"
  /\ \E t \in Alike[maker[o]] : told' = [told EXCEPT ![o] = t]
  /\ UNCHANGED <<life, maker, context>>

\* span->finish(span), span->finish_with_options(span, options)
Finish(o) ==
  /\ life[o] = "open"
  /\ life' = [life EXCEPT ![o] = "finished"]
  /\ UNCHANGED <<maker, told, context>>

\* span->span_context(span), also after finish
Context(o) ==
  /\ life[o] \in {"open", "finished"}
  /\ context' = context \cup {o}
  /\ UNCHANGED <<life, maker, told>>

\* The span's destroy: the context is not the span's to destroy.
Destroy(o) ==
  /\ life[o] \in {"open", "finished"}
  /\ life' = [life EXCEPT ![o] = "none"]
  /\ maker' = [maker EXCEPT ![o] = None]
  /\ told' = [told EXCEPT ![o] = None]
  /\ UNCHANGED context

\* tracer->extract_*(tracer, carrier, &span_context), which may fail, and the
\* context's own destroy.
Extract(o) ==
  /\ context' = context \cup {o}
  /\ UNCHANGED <<life, maker, told>>

DestroyContext(o) ==
  /\ o \in context
  /\ context' = context \ {o}
  /\ UNCHANGED <<life, maker, told>>

Next ==
  \E o \in Holders :
    \/ \E t \in Tracers : Start(o, t)
    \/ Started(o)
    \/ Tell(o)
    \/ Finish(o)
    \/ Context(o)
    \/ Destroy(o)
    \/ Extract(o)
    \/ DestroyContext(o)

Spec == Init /\ [][Next]_ifVars
=============================================================================
