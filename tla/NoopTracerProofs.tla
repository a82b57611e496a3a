-------------------------- MODULE NoopTracerProofs --------------------------
(***************************************************************************)
(* For any threads and tracers: a thread that holds the shared span is     *)
(* never told NULL or another kind of tracer, whatever the others do with  *)
(* the same object, and every thread's span behaves as SpanInterface says. *)
(***************************************************************************)
EXTENDS NoopTracer, TLAPS

\* The tracers whose spans are the shared object.
Shared == {Noop} \cup Copies

\* Only they are ever stored in it, and None is gone with the first store.
MemberOfShared ==
  /\ tracer_ptr \in Shared \cup {None}
  /\ \A th \in Threads : stale[th] \subseteq Shared \cup {None}
  /\ tracer_ptr = None => \A th \in Threads : stale[th] = {}

\* What a thread's place in the start functions says of its span.
Holding(th) ==
  /\ pc[th] # "idle" => span[th] = NullSpan /\ tracer[th] \in Tracers
  /\ pc[th] = "own" => tracer[th] \in Overriders
  /\ pc[th] \in {"noop", "store"} => tracer[th] \in Shared
  /\ span[th] = NoopSpan => tracer[th] \in Shared /\ None \notin Readable(th)
  /\ span[th] \notin {NoopSpan, NullSpan} =>
       tracer[th] \in Overriders /\ span[th] = OwnSpan(tracer[th])
  /\ span[th] = NullSpan => th \notin finished /\ answer[th] = None

\* The inductive invariant.
NoopIInv ==
  /\ TypeOK
  /\ MemberOfShared
  /\ SpanKnowsItsTracer
  /\ \A th \in Threads : Holding(th)

\* The three kinds of span are told apart.
LEMMA SpanKinds ==
  /\ NoopSpan # NullSpan
  /\ \A t \in Overriders : OwnSpan(t) # NullSpan /\ OwnSpan(t) # NoopSpan /\ OwnSpan(t).maker = t
  /\ NoopSpan \in Spans /\ NullSpan \in Spans /\ \A t \in Overriders : OwnSpan(t) \in Spans
BY DEF NoopSpan, NullSpan, OwnSpan, Spans

\* The invariant holds at the start.
LEMMA NoopInvInitially == Init => NoopIInv
BY SpanKinds, NoopTracerAssumption
   DEF Init, NoopIInv, TypeOK, MemberOfShared, SpanKnowsItsTracer, Holding

\* A span other than the shared one is an overrider's.
LEMMA SpanCases ==
  ASSUME TypeOK, NEW th \in Threads
  PROVE  span[th] \in {NoopSpan, NullSpan} \/ \E t \in Overriders : span[th] = OwnSpan(t)
BY DEF TypeOK, Spans

-----------------------------------------------------------------------------
(* Each action preserves the invariant. *)

\* Calling a start function.
LEMMA StartSpanKeepsInv ==
  ASSUME NoopIInv, NEW th \in Threads, NEW t \in Tracers, StartSpan(th, t)
  PROVE  NoopIInv'
<1>. USE NoopTracerAssumption, SpanKinds DEF NoopIInv
<1>1. TypeOK'
  BY DEF StartSpan, StartWithOptions, TypeOK, spanVars
<1>2. MemberOfShared'
  BY DEF StartSpan, MemberOfShared
<1>3. answer[th] = None
  BY DEF StartSpan, Holding
<1>4. SpanKnowsItsTracer'
  BY <1>3 DEF StartSpan, spanVars, SpanKnowsItsTracer, TypeOK
<1>5. \A o \in Threads : Holding(o)'
  BY DEF StartSpan, StartWithOptions, spanVars, Holding, Readable, TypeOK, Tracers, Shared
<1>. QED
  BY <1>1, <1>2, <1>4, <1>5

\* The application's own start function.
LEMMA OwnStartKeepsInv ==
  ASSUME NoopIInv, NEW th \in Threads, OwnStart(th)
  PROVE  NoopIInv'
<1>. USE NoopTracerAssumption, SpanKinds DEF NoopIInv
<1>1. TypeOK'
  BY DEF OwnStart, TypeOK, Holding
<1>2. MemberOfShared' /\ SpanKnowsItsTracer'
  BY DEF OwnStart, MemberOfShared, SpanKnowsItsTracer
<1>3. \A o \in Threads : Holding(o)'
  BY DEF OwnStart, Holding, Readable, TypeOK
<1>. QED
  BY <1>1, <1>2, <1>3

\* Reading the shared member leaves it and nothing older to be read.
LEMMA ReadingKeepsShared ==
  ASSUME NoopIInv, NEW th \in Threads, NEW v \in Readable(th),
         tracer_ptr' = tracer_ptr, stale' = ViewAfterReading(th, v)
  PROVE  /\ stale' \in [Threads -> SUBSET (Tracers \cup {None})]
         /\ MemberOfShared'
         /\ v \in Shared \cup {None}
         /\ v # None => None \notin Readable(th)'
         /\ \A o \in Threads : None \notin Readable(o) => None \notin Readable(o)'
<1>1. stale' \in [Threads -> SUBSET (Tracers \cup {None})]
  BY DEF NoopIInv, TypeOK, ViewAfterReading
<1>2. \A o \in Threads : stale'[o] \subseteq stale[o]
  BY DEF NoopIInv, TypeOK, ViewAfterReading
<1>3. v # None => None \notin stale'[th]
  BY DEF NoopIInv, TypeOK, ViewAfterReading
<1>4. v # None => tracer_ptr # None
  BY DEF Readable, NoopIInv, MemberOfShared
<1>. QED
  BY <1>1, <1>2, <1>3, <1>4 DEF NoopIInv, MemberOfShared, Readable

\* The comparison in the no-op start function.
LEMMA NoopCompareKeepsInv ==
  ASSUME NoopIInv, NEW th \in Threads, NoopCompare(th)
  PROVE  NoopIInv'
<1>. USE NoopTracerAssumption, SpanKinds DEF NoopIInv
<1>1. PICK v \in Readable(th) :
        /\ stale' = ViewAfterReading(th, v)
        /\ \/ /\ v = tracer[th]
              /\ span' = [span EXCEPT ![th] = NoopSpan]
              /\ pc' = [pc EXCEPT ![th] = "idle"]
           \/ /\ v # tracer[th]
              /\ pc' = [pc EXCEPT ![th] = "store"]
              /\ UNCHANGED span
  BY DEF NoopCompare
<1>2. UNCHANGED <<tracer_ptr, tracer, finished, answer, context>> /\ pc[th] = "noop"
  BY DEF NoopCompare
<1>3. /\ stale' \in [Threads -> SUBSET (Tracers \cup {None})]
      /\ MemberOfShared'
      /\ v # None => None \notin Readable(th)'
      /\ \A o \in Threads : None \notin Readable(o) => None \notin Readable(o)'
  BY <1>1, <1>2, ReadingKeepsShared
<1>4. TypeOK' /\ SpanKnowsItsTracer'
  BY <1>1, <1>2, <1>3 DEF TypeOK, SpanKnowsItsTracer
<1>5. tracer[th] \in Shared /\ tracer[th] # None /\ span[th] = NullSpan
  BY <1>2 DEF Holding, Shared
<1>6. \A o \in Threads : Holding(o)'
  BY <1>1, <1>2, <1>3, <1>5 DEF Holding, TypeOK, Tracers, Shared
<1>. QED
  BY <1>3, <1>4, <1>6

\* The store in it.
LEMMA NoopStoreKeepsInv ==
  ASSUME NoopIInv, NEW th \in Threads, NoopStore(th)
  PROVE  NoopIInv'
<1>. USE NoopTracerAssumption, SpanKinds DEF NoopIInv
<1>1. tracer[th] \in Shared /\ tracer[th] # None /\ span[th] = NullSpan
  BY DEF NoopStore, Holding, Shared
<1>2. TypeOK'
  BY <1>1 DEF NoopStore, TypeOK, Tracers, Shared
<1>3. MemberOfShared'
  BY <1>1 DEF NoopStore, MemberOfShared
<1>4. SpanKnowsItsTracer'
  BY DEF NoopStore, SpanKnowsItsTracer
<1>5. Readable(th)' = {tracer[th]}
  BY DEF NoopStore, Readable
<1>6. \A o \in Threads \ {th} : None \notin Readable(o) => None \notin Readable(o)'
  BY <1>1 DEF NoopStore, Readable
<1>7. \A o \in Threads : Holding(o)'
  BY <1>1, <1>5, <1>6 DEF NoopStore, Holding, TypeOK
<1>. QED
  BY <1>2, <1>3, <1>4, <1>7

\* Asking for the tracer.
LEMMA AskTracerKeepsInv ==
  ASSUME NoopIInv, NEW th \in Threads, AskTracer(th)
  PROVE  NoopIInv' /\ answer'[th] \in Alike[tracer[th]]
<1>. USE NoopTracerAssumption, SpanKinds DEF NoopIInv
<1>1. /\ Open(th) /\ span[th] # NullSpan
      /\ UNCHANGED <<tracer_ptr, pc, tracer, span, finished, context>>
  BY DEF AskTracer, Open
<1>2. CASE span[th] = NoopSpan
  <2>1. PICK v \in Readable(th) :
          answer' = [answer EXCEPT ![th] = v] /\ stale' = ViewAfterReading(th, v)
    BY <1>2 DEF AskTracer
  <2>2. v # None /\ tracer[th] \in Shared
    BY <1>2 DEF Holding
  <2>3. /\ stale' \in [Threads -> SUBSET (Tracers \cup {None})]
        /\ MemberOfShared'
        /\ v \in Shared \cup {None}
        /\ \A o \in Threads : None \notin Readable(o) => None \notin Readable(o)'
    BY <1>1, <2>1, ReadingKeepsShared
  <2>4. v \in Alike[tracer[th]] /\ v \in Tracers
    BY <2>2, <2>3 DEF Alike, Shared, Tracers
  <2>5. TypeOK' /\ SpanKnowsItsTracer'
    BY <1>1, <2>1, <2>3, <2>4 DEF TypeOK, SpanKnowsItsTracer
  <2>6. \A o \in Threads : Holding(o)'
    BY <1>1, <2>1, <2>3 DEF Holding, TypeOK
  <2>. QED
    BY <2>1, <2>3, <2>4, <2>5, <2>6 DEF TypeOK
<1>3. CASE span[th] # NoopSpan
  <2>1. answer' = [answer EXCEPT ![th] = span[th].maker] /\ UNCHANGED stale
    BY <1>3 DEF AskTracer
  <2>2. tracer[th] \in Overriders /\ span[th].maker = tracer[th]
    BY <1>1, <1>3 DEF Holding
  <2>3. tracer[th] \in Alike[tracer[th]] /\ tracer[th] \in Tracers
    BY <2>2 DEF Alike, Tracers
  <2>4. TypeOK' /\ SpanKnowsItsTracer' /\ MemberOfShared'
    BY <1>1, <2>1, <2>2, <2>3 DEF TypeOK, SpanKnowsItsTracer, MemberOfShared
  <2>5. \A o \in Threads : Holding(o)'
    BY <1>1, <2>1 DEF Holding, Readable, TypeOK
  <2>. QED
    BY <2>1, <2>2, <2>3, <2>4, <2>5 DEF TypeOK
<1>. QED
  BY <1>2, <1>3

\* Finishing and destroying.
LEMMA EndKeepsInv ==
  ASSUME NoopIInv, NEW th \in Threads, Finish(th) \/ DestroySpan(th)
  PROVE  NoopIInv'
<1>. USE NoopTracerAssumption, SpanKinds DEF NoopIInv
<1>1. CASE Finish(th)
  BY <1>1 DEF Finish, Open, TypeOK, MemberOfShared, SpanKnowsItsTracer, Holding, Readable
<1>2. CASE DestroySpan(th)
  <2>1. TypeOK' /\ MemberOfShared' /\ SpanKnowsItsTracer'
    BY <1>2 DEF DestroySpan, TypeOK, MemberOfShared, SpanKnowsItsTracer
  <2>2. \A o \in Threads : Holding(o)'
    BY <1>2 DEF DestroySpan, TypeOK, Holding, Readable
  <2>. QED
    BY <2>1, <2>2
<1>. QED
  BY <1>1, <1>2

\* So does every step.
LEMMA NoopInvIsInductive == NoopIInv /\ [Next]_vars => NoopIInv'
<1>. SUFFICES ASSUME NoopIInv, [Next]_vars PROVE NoopIInv'
  OBVIOUS
<1>1. ASSUME NEW th \in Threads, SpanContext(th) \/ Extract(th) \/ DestroyContext(th)
      PROVE  NoopIInv'
  BY <1>1 DEF SpanContext, Extract, DestroyContext, spanVars, NoopIInv, TypeOK,
              MemberOfShared, SpanKnowsItsTracer, Holding, Readable
<1>2. CASE UNCHANGED vars
  BY <1>2 DEF vars, spanVars, NoopIInv, TypeOK, MemberOfShared, SpanKnowsItsTracer,
              Holding, Readable
<1>. QED
  BY <1>1, <1>2, StartSpanKeepsInv, OwnStartKeepsInv, NoopCompareKeepsInv,
     NoopStoreKeepsInv, AskTracerKeepsInv, EndKeepsInv DEF Next

LEMMA NoopInvariant == Spec => []NoopIInv
BY NoopInvInitially, NoopInvIsInductive, PTL DEF Spec

-----------------------------------------------------------------------------
\* The types hold.
THEOREM NoopTypeCorrect == Spec => []TypeOK
BY NoopInvariant, PTL DEF NoopIInv

\* A thread is told a tracer that makes the spans it holds, whatever others do
\* with the one object behind all of them; without copies of the no-op tracer
\* that is the tracer it started its span on.
THEOREM SpanKnowsTracer == Spec => []SpanKnowsItsTracer
BY NoopInvariant, PTL DEF NoopIInv

\* A thread with a live span is never told NULL.
THEOREM LiveSpanKeepsTracer == Spec => []LiveSpanHasTracer
<1>1. NoopIInv => LiveSpanHasTracer
  BY DEF NoopIInv, Holding, LiveSpanHasTracer
<1>. QED
  BY <1>1, NoopInvariant, PTL

-----------------------------------------------------------------------------
(* The refinement. *)

life == [th \in Threads |-> Life(th)]
maker == [th \in Threads |-> IF Life(th) = "none" THEN None ELSE tracer[th]]

\* One thread's step shows in one component of each function only.
LEMMA LifeOfOthers ==
  ASSUME NEW th \in Threads,
         \A o \in Threads \ {th} : /\ pc'[o] = pc[o] /\ span'[o] = span[o]
                                   /\ tracer'[o] = tracer[o]
                                   /\ o \in finished' <=> o \in finished
  PROVE  /\ life' = [life EXCEPT ![th] = Life(th)']
         /\ maker' = [maker EXCEPT ![th] = IF Life(th)' = "none" THEN None ELSE tracer'[th]]
<1>1. \A o \in Threads \ {th} : Life(o)' = Life(o)
  BY DEF Life
<1>. QED
  BY <1>1 DEF life, maker

\* Every step is a step of the interface, or none.
LEMMA NoopStepIsSpanStep == NoopIInv /\ [Next]_vars => [Interface!Next]_Interface!ifVars
<1>. SUFFICES ASSUME NoopIInv, [Next]_vars
              PROVE  Interface!Next \/ UNCHANGED <<life, maker, answer, context>>
  BY DEF Interface!ifVars, life, maker
<1>. USE SpanKinds DEF NoopIInv
<1>1. ASSUME NEW th \in Threads, NEW t \in Tracers, StartSpan(th, t)
      PROVE  Interface!Start(th, t)
  <2>1. Life(th) = "none" /\ Life(th)' = "starting"
    BY <1>1 DEF StartSpan, StartWithOptions, Life, TypeOK
  <2>2. life' = [life EXCEPT ![th] = "starting"] /\ maker' = [maker EXCEPT ![th] = t]
    BY <1>1, <2>1, LifeOfOthers DEF StartSpan, spanVars, TypeOK
  <2>. QED
    BY <1>1, <2>1, <2>2 DEF StartSpan, spanVars, Interface!Start, life, maker
<1>2. ASSUME NEW th \in Threads,
             OwnStart(th) \/ NoopStore(th) \/ (NoopCompare(th) /\ pc'[th] = "idle")
      PROVE  Interface!Started(th)
  <2>1. Life(th) = "starting" /\ Life(th)' \in {"open", "none"}
    BY <1>2 DEF OwnStart, NoopStore, NoopCompare, Life, TypeOK, Holding
  <2>2. /\ life' = [life EXCEPT ![th] = Life(th)']
        /\ maker' = [maker EXCEPT ![th] = IF Life(th)' = "none" THEN None ELSE tracer[th]]
    BY <1>2, LifeOfOthers DEF OwnStart, NoopStore, NoopCompare, TypeOK
  <2>3. maker[th] = tracer[th] /\ DOMAIN maker = Threads
    BY <2>1 DEF maker
  <2>4. Life(th)' = "open" => maker' = maker
    BY <2>2, <2>3 DEF maker
  <2>. QED
    BY <1>2, <2>1, <2>2, <2>4
       DEF OwnStart, NoopStore, NoopCompare, Interface!Started, life, maker
<1>3. ASSUME NEW th \in Threads, NoopCompare(th), pc'[th] # "idle"
      PROVE  UNCHANGED <<life, maker, answer, context>>
  <2>1. Life(th)' = "starting" /\ Life(th) = "starting"
    BY <1>3 DEF NoopCompare, Life
  <2>2. \A o \in Threads : Life(o)' = Life(o)
    BY <1>3, <2>1 DEF NoopCompare, Life, TypeOK
  <2>. QED
    BY <1>3, <2>2 DEF NoopCompare, life, maker
<1>4. ASSUME NEW th \in Threads, AskTracer(th) PROVE Interface!Tell(th)
  <2>1. answer'[th] \in Alike[tracer[th]]
    BY <1>4, AskTracerKeepsInv
  <2>2. Life(th) = "open"
    BY <1>4 DEF AskTracer, Open, Life
  <2>3. UNCHANGED <<life, maker>>
    BY <1>4 DEF AskTracer, Life, life, maker
  <2>4. answer' = [answer EXCEPT ![th] = answer'[th]]
    BY <1>4 DEF AskTracer, TypeOK
  <2>5. life[th] = "open" /\ maker[th] = tracer[th] /\ UNCHANGED context
    BY <1>4, <2>2 DEF AskTracer, life, maker
  <2>6. answer'[th] \in Alike[maker[th]]
    BY <2>1, <2>5
  <2>. QED
    BY <2>3, <2>4, <2>5, <2>6 DEF Interface!Tell, life, maker
<1>5. ASSUME NEW th \in Threads, Finish(th) PROVE Interface!Finish(th)
  <2>1. Life(th) = "open" /\ Life(th)' = "finished"
    BY <1>5 DEF Finish, Open, Life
  <2>2. life' = [life EXCEPT ![th] = "finished"] /\ maker' = [maker EXCEPT ![th] = tracer[th]]
    BY <1>5, <2>1, LifeOfOthers DEF Finish
  <2>3. maker' = maker
    BY <2>1, <2>2 DEF maker
  <2>. QED
    BY <1>5, <2>1, <2>2, <2>3 DEF Finish, Interface!Finish, life, maker
<1>6. ASSUME NEW th \in Threads, DestroySpan(th) PROVE Interface!Destroy(th)
  <2>1. Life(th) \in {"open", "finished"} /\ Life(th)' = "none"
    BY <1>6 DEF DestroySpan, Life, TypeOK, Holding
  <2>2. life' = [life EXCEPT ![th] = "none"] /\ maker' = [maker EXCEPT ![th] = None]
    BY <1>6, <2>1, LifeOfOthers DEF DestroySpan, TypeOK
  <2>. QED
    BY <1>6, <2>1, <2>2 DEF DestroySpan, Interface!Destroy, life, maker
<1>7. ASSUME NEW th \in Threads, SpanContext(th) \/ Extract(th) \/ DestroyContext(th)
      PROVE  Interface!Context(th) \/ Interface!Extract(th) \/ Interface!DestroyContext(th)
  <2>1. UNCHANGED <<life, maker, answer>>
    BY <1>7 DEF SpanContext, Extract, DestroyContext, spanVars, Life, life, maker
  <2>2. CASE SpanContext(th) \/ Extract(th)
    BY <2>1, <2>2 DEF SpanContext, Extract, Interface!Extract, life, maker
  <2>3. CASE DestroyContext(th)
    BY <2>1, <2>3 DEF DestroyContext, Interface!DestroyContext, life, maker
  <2>. QED
    BY <1>7, <2>2, <2>3
<1>8. CASE UNCHANGED vars
  BY <1>8 DEF vars, spanVars, Life, life, maker
<1>. QED
  BY <1>1, <1>2, <1>3, <1>4, <1>5, <1>6, <1>7, <1>8 DEF Next, Interface!Next

\* Every thread's span lives the life that span.h gives one, although all of
\* them are one static object.
THEOREM NoopImplementsSpans == Spec => ImplementsSpans
<1>1. Init => Interface!Init
  <2>. SUFFICES ASSUME Init PROVE Interface!Init
    OBVIOUS
  <2>1. \A th \in Threads : Life(th) = "none"
    BY DEF Init, Life
  <2>. QED
    BY <2>1 DEF Init, Interface!Init
<1>. QED
  BY <1>1, NoopInvariant, NoopStepIsSpanStep, PTL DEF Spec, ImplementsSpans, Interface!Spec
=============================================================================
