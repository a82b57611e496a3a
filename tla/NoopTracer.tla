----------------------------- MODULE NoopTracer -----------------------------
(***************************************************************************)
(* Spans of the no-op tracer.  All of them are one static object,          *)
(* noop_span_singleton, whose only state is the tracer it was last started *)
(* on, and their contexts are another, noop_span_context_singleton.        *)
(* Threads start, use, finish and destroy spans at the same time and reach *)
(* every operation through a function pointer of the object they hold.     *)
(* The operations that only ignore their arguments (the setters, log,      *)
(* baggage, inject, close) change no state and are no actions.             *)
(*                                                                         *)
(* A tracer of the application may be a copy of the no-op tracer with some *)
(* members replaced.  It keeps the no-op start_span, which calls its own   *)
(* start_span_with_options: that one is the no-op function too, or one of  *)
(* the application's that makes spans of its own.                          *)
(***************************************************************************)
CONSTANTS Threads,      \* threads of the application
          Copies,       \* copies of the no-op tracer that replace other members
          Overriders,   \* copies that replace start_span_with_options
          Noop,         \* the no-op tracer itself
          None          \* the null pointer

ASSUME NoopTracerAssumption ==
  /\ Noop \notin Copies \cup Overriders
  /\ Copies \cap Overriders = {}
  /\ None \notin Copies \cup Overriders \cup {Noop}

Tracers == {Noop} \cup Copies \cup Overriders

\* Mutant: start_span calls the no-op function itself, not the member.
StartWithOptions_Direct(t) == "noop"

\* The functions that can be in a tracer's start_span_with_options member.
StartWithOptions(t) == IF t \in Overriders THEN "own" ELSE "noop"

\* Spans: the singleton, the spans an overrider makes, and the null pointer.
NoopSpan == [kind |-> "noop", maker |-> None]
OwnSpan(t) == [kind |-> "own", maker |-> t]
NullSpan == [kind |-> "null", maker |-> None]
Spans == {NoopSpan, NullSpan} \cup {OwnSpan(t) : t \in Overriders}

VARIABLES
  tracer_ptr,   \* noop_span_singleton.tracer_ptr
  stale,        \* stale[th]: overwritten values of it th may still read
  pc,           \* where th is inside a start function
  tracer,       \* the tracer of th's call, and of the span it started
  span,         \* the span th holds
  finished,     \* threads that have finished the span they hold
  answer,       \* what span->tracer(span) last returned to th
  context       \* threads that hold a span context

spanVars == <<span, finished, answer>>
vars == <<tracer_ptr, stale, pc, tracer, spanVars, context>>

Readable(th) == {tracer_ptr} \cup stale[th]

\* th's view once it has read v: it never returns to a value older than the
\* one it read, and None, which is never stored, is the oldest of all.
ViewAfterReading(th, v) ==
  [stale EXCEPT ![th] = IF v = tracer_ptr THEN {} ELSE IF v = None THEN @ ELSE @ \ {None}]

\* th is outside the start functions and holds a span it has not finished.
Open(th) == pc[th] = "idle" /\ span[th] # NullSpan /\ th \notin finished

Init ==
  /\ tracer_ptr = None
  /\ stale = [th \in Threads |-> {}]
  /\ pc = [th \in Threads |-> "idle"]
  /\ tracer = [th \in Threads |-> None]
  /\ span = [th \in Threads |-> NullSpan]
  /\ finished = {}
  /\ answer = [th \in Threads |-> None]
  /\ context = {}

\* th calls t->start_span(t, name), which is noop_tracer_start_span and calls
\* t->start_span_with_options, or makes that call itself: the function that
\* runs is the one in the member.
StartSpan(th, t) ==
  /\ pc[th] = "idle"
  /\ span[th] = NullSpan
  /\ tracer' = [tracer EXCEPT ![th] = t]
  /\ pc' = [pc EXCEPT ![th] = StartWithOptions(t)]
  /\ UNCHANGED <<tracer_ptr, stale, spanVars, context>>

\* The application's start_span_with_options: a new span, or NULL.
OwnStart(th) ==
  /\ pc[th] = "own"
  /\ \E s \in {OwnSpan(tracer[th]), NullSpan} : span' = [span EXCEPT ![th] = s]
  /\ pc' = [pc EXCEPT ![th] = "idle"]
  /\ UNCHANGED <<tracer_ptr, stale, tracer, finished, answer, context>>

\* if (span->tracer_ptr != tracer), and return span when it is not.
NoopCompare(th) ==
  /\ pc[th] = "noop"
  /\ \E v \in Readable(th) :
       /\ stale' = ViewAfterReading(th, v)
       /\ \/ /\ v = tracer[th]
             /\ span' = [span EXCEPT ![th] = NoopSpan]
             /\ pc' = [pc EXCEPT ![th] = "idle"]
          \/ /\ v # tracer[th]
             /\ pc' = [pc EXCEPT ![th] = "store"]
             /\ UNCHANGED span
  /\ UNCHANGED <<tracer_ptr, tracer, finished, answer, context>>

\* Mutant: the store has been left out.
NoopStore_NoStore(th) ==
  /\ pc[th] = "store"
  /\ span' = [span EXCEPT ![th] = NoopSpan]
  /\ pc' = [pc EXCEPT ![th] = "idle"]
  /\ UNCHANGED <<tracer_ptr, stale, tracer, finished, answer, context>>

\* span->tracer_ptr = tracer; return span;
NoopStore(th) ==
  /\ pc[th] = "store"
  /\ tracer_ptr' = tracer[th]
  /\ stale' = [o \in Threads |-> IF o = th THEN {} ELSE stale[o] \cup {tracer_ptr}]
  /\ span' = [span EXCEPT ![th] = NoopSpan]
  /\ pc' = [pc EXCEPT ![th] = "idle"]
  /\ UNCHANGED <<tracer, finished, answer, context>>

\* answer = span->tracer(span)
AskTracer(th) ==
  /\ Open(th)
  /\ \/ /\ span[th] = NoopSpan
        /\ \E v \in Readable(th) : /\ answer' = [answer EXCEPT ![th] = v]
                                   /\ stale' = ViewAfterReading(th, v)
     \/ /\ span[th] # NoopSpan
        /\ answer' = [answer EXCEPT ![th] = span[th].maker]
        /\ UNCHANGED stale
  /\ UNCHANGED <<tracer_ptr, pc, tracer, span, finished, context>>

\* Mutant: finishing the shared span clears its tracer.
Finish_Clears(th) ==
  /\ Open(th)
  /\ finished' = finished \cup {th}
  /\ tracer_ptr' = IF span[th] = NoopSpan THEN None ELSE tracer_ptr
  /\ UNCHANGED <<stale, pc, tracer, span, answer, context>>

\* span->finish(span), which calls the span's own finish_with_options, or
\* that call: neither touches the shared object.
Finish(th) ==
  /\ Open(th)
  /\ finished' = finished \cup {th}
  /\ UNCHANGED <<tracer_ptr, stale, pc, tracer, span, answer, context>>

\* context = span->span_context(span), allowed after finish too
SpanContext(th) ==
  /\ span[th] # NullSpan
  /\ context' = context \cup {th}
  /\ UNCHANGED <<tracer_ptr, stale, pc, tracer, spanVars>>

\* tracer->extract_*(tracer, carrier, &context) yields the static context.
Extract(th) ==
  /\ context' = context \cup {th}
  /\ UNCHANGED <<tracer_ptr, stale, pc, tracer, spanVars>>

\* Mutant: destroying the span frees the shared object.
DestroySpan_Frees(th) ==
  /\ span[th] # NullSpan
  /\ tracer_ptr' = IF span[th] = NoopSpan THEN "freed" ELSE tracer_ptr
  /\ span' = [span EXCEPT ![th] = NullSpan]
  /\ finished' = finished \ {th}
  /\ answer' = [answer EXCEPT ![th] = None]
  /\ UNCHANGED <<stale, pc, tracer, context>>

\* The span's destroy, finished or not: noop_destroy does nothing to the
\* singleton, which other threads may hold; th drops its pointer.
DestroySpan(th) ==
  /\ span[th] # NullSpan
  /\ span' = [span EXCEPT ![th] = NullSpan]
  /\ finished' = finished \ {th}
  /\ answer' = [answer EXCEPT ![th] = None]
  /\ UNCHANGED <<tracer_ptr, stale, pc, tracer, context>>

\* The context's destroy, noop_destroy again.
DestroyContext(th) ==
  /\ th \in context
  /\ context' = context \ {th}
  /\ UNCHANGED <<tracer_ptr, stale, pc, tracer, spanVars>>

Next ==
  \E th \in Threads :
    \/ \E t \in Tracers : StartSpan(th, t)
    \/ OwnStart(th)
    \/ NoopCompare(th)
    \/ NoopStore(th)
    \/ AskTracer(th)
    \/ Finish(th)
    \/ SpanContext(th)
    \/ Extract(th)
    \/ DestroySpan(th)
    \/ DestroyContext(th)

Spec == Init /\ [][Next]_vars

-----------------------------------------------------------------------------
TypeOK ==
  /\ tracer_ptr \in Tracers \cup {None}
  /\ stale \in [Threads -> SUBSET (Tracers \cup {None})]
  /\ pc \in [Threads -> {"idle", "own", "noop", "store"}]
  /\ tracer \in [Threads -> Tracers \cup {None}]
  /\ span \in [Threads -> Spans]
  /\ finished \subseteq Threads
  /\ answer \in [Threads -> Tracers \cup {None}]
  /\ context \subseteq Threads

\* Tracers whose spans are the shared object cannot be told apart by it: all
\* those that use the no-op start function.  Without Copies that is one.
Alike == [t \in Tracers |-> IF t \in Overriders THEN {t} ELSE {Noop} \cup Copies]

\* span.h: span->tracer "provides access to the tracer that created this
\* span".  Whoever else starts, finishes or destroys spans meanwhile, a thread
\* is never told NULL or a tracer that makes other spans than its own does.
SpanKnowsItsTracer ==
  \A th \in Threads : answer[th] # None => answer[th] \in Alike[tracer[th]]

\* While a thread holds the shared span, its tracer member is set: asking a
\* live span for its tracer never yields NULL, from the first start on.
LiveSpanHasTracer ==
  \A th \in Threads : span[th] = NoopSpan => None \notin Readable(th)

\* Each thread's span behaves like one of its own, although all are one
\* object: it follows the life that span.h gives a span.
Life(th) ==
  CASE pc[th] # "idle" -> "starting"
    [] pc[th] = "idle" /\ span[th] = NullSpan -> "none"
    [] pc[th] = "idle" /\ span[th] # NullSpan ->
         IF th \in finished THEN "finished" ELSE "open"

Interface ==
  INSTANCE SpanInterface WITH
    Holders <- Threads,
    life <- [th \in Threads |-> Life(th)],
    maker <- [th \in Threads |-> IF Life(th) = "none" THEN None ELSE tracer[th]],
    told <- answer

ImplementsSpans == Interface!Spec
=============================================================================
