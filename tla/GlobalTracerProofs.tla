------------------------- MODULE GlobalTracerProofs -------------------------
(***************************************************************************)
(* Theorems about the global tracer slot when threads do not synchronise,  *)
(* for any threads and tracers, and the lemmas about the steps of the code *)
(* that the proofs of OnceInstall and LockedInstall rest on.               *)
(***************************************************************************)
EXTENDS GlobalTracer, TLAPS

\* A step of a call in progress keeps the types.
LEMMA InitStepKeepsType ==
  ASSUME NEW th \in Threads, TypeOK, InitStep(th)
  PROVE  TypeOK'
<1>. USE GlobalTracerAssumption DEF TypeOK, Instances, callVars
<1>1. CASE InitCompare(th)
  BY <1>1 DEF InitCompare, Readable, ViewAfterReading
<1>2. CASE InitDestroyOld(th)
  <2>1. PICK f \in Readable(th), v \in Readable(th) :
          RunDestroy(f, v) /\ stale' = ViewAfterReading(th, {f, v})
    BY <1>2 DEF InitDestroyOld
  <2>2. v \in Instances
    BY DEF Readable
  <2>3. destroys' \in [Instances -> Nat]
    BY <2>1, <2>2 DEF RunDestroy
  <2>4. stale' \in [Threads -> SUBSET Instances]
    BY <2>1 DEF ViewAfterReading
  <2>. QED
    BY <1>2, <2>3, <2>4 DEF InitDestroyOld
<1>3. CASE InitAssign(th)
  <2>1. tracer[th] \in Instances
    BY <1>3 DEF InitAssign
  <2>. QED
    BY <1>3, <2>1 DEF InitAssign
<1>. QED
  BY <1>1, <1>2, <1>3 DEF InitStep

\* So does every other step of a thread.
LEMMA CallStepKeepsType ==
  ASSUME NEW th \in Threads, TypeOK,
         \/ \E t \in Instances : InitCall(th, t)
         \/ GetGlobalTracer(th)
         \/ Release(th)
  PROVE  TypeOK'
<1>. USE GlobalTracerAssumption DEF TypeOK, Instances, callVars
<1>1. CASE \E t \in Instances : InitCall(th, t)
  BY <1>1 DEF InitCall
<1>2. CASE GetGlobalTracer(th)
  BY <1>2 DEF GetGlobalTracer, Readable, ViewAfterReading
<1>3. CASE Release(th)
  BY <1>3 DEF Release
<1>. QED
  BY <1>1, <1>2, <1>3

\* Everything a thread may read from the slot has been installed.
ReadsInstalled ==
  /\ global_tracer \in installed
  /\ \A th \in Threads : stale[th] \subseteq installed

\* The inductive invariant: what is destroyed is a value that was read, and
\* what is read has been installed.
IInv ==
  /\ TypeOK
  /\ ReadsInstalled
  /\ OnlyInstalledDestroyed

\* The invariant holds at the start.
LEMMA InvHoldsInitially == Init => IInv
BY GlobalTracerAssumption
   DEF Init, IInv, TypeOK, Instances, ReadsInstalled,
       OnlyInstalledDestroyed, Dead

\* Every step of every thread preserves the invariant.
LEMMA InvIsInductive == IInv /\ [Next]_vars => IInv'
<1>. SUFFICES ASSUME IInv, [Next]_vars PROVE IInv'
  OBVIOUS
<1>. USE DEF IInv
<1>1. ASSUME NEW th \in Threads, NEW t \in Instances, InitCall(th, t)
      PROVE  IInv'
  <2>1. TypeOK'
    BY <1>1, CallStepKeepsType
  <2>. QED
    BY <1>1, <2>1
       DEF InitCall, ReadsInstalled, OnlyInstalledDestroyed, Dead
<1>2. ASSUME NEW th \in Threads, InitCompare(th)
      PROVE  IInv'
  <2>1. TypeOK'
    BY <1>2, InitStepKeepsType DEF InitStep
  <2>. QED
    BY <1>2, <2>1
       DEF InitCompare, ViewAfterReading, TypeOK,
           ReadsInstalled, OnlyInstalledDestroyed, Dead
<1>3. ASSUME NEW th \in Threads, InitDestroyOld(th)
      PROVE  IInv'
  <2>1. TypeOK'
    BY <1>3, InitStepKeepsType DEF InitStep
  <2>2. PICK f \in Readable(th), v \in Readable(th) :
          RunDestroy(f, v) /\ stale' = ViewAfterReading(th, {f, v})
    BY <1>3 DEF InitDestroyOld
  <2>3. v \in installed
    BY DEF Readable, ReadsInstalled
  <2>4. OnlyInstalledDestroyed'
    BY <1>3, <2>2, <2>3
       DEF InitDestroyOld, RunDestroy, OnlyInstalledDestroyed, Dead, TypeOK, Instances
  <2>5. ReadsInstalled'
    BY <1>3, <2>2 DEF InitDestroyOld, ViewAfterReading, ReadsInstalled, TypeOK
  <2>. QED
    BY <1>3, <2>1, <2>4, <2>5 DEF InitDestroyOld
<1>4. ASSUME NEW th \in Threads, InitAssign(th)
      PROVE  IInv'
  <2>1. TypeOK'
    BY <1>4, InitStepKeepsType DEF InitStep
  <2>. QED
    BY <1>4, <2>1
       DEF InitAssign, ReadsInstalled, OnlyInstalledDestroyed,
           Dead, TypeOK
<1>5. ASSUME NEW th \in Threads, GetGlobalTracer(th)
      PROVE  IInv'
  <2>1. TypeOK'
    BY <1>5, CallStepKeepsType
  <2>2. Readable(th) \subseteq installed
    BY DEF Readable, ReadsInstalled
  <2>. QED
    BY <1>5, <2>1, <2>2
       DEF GetGlobalTracer, callVars, ViewAfterReading, ReadsInstalled, OnlyInstalledDestroyed, Dead, TypeOK
<1>6. ASSUME NEW th \in Threads, Release(th)
      PROVE  IInv'
  <2>1. TypeOK'
    BY <1>6, CallStepKeepsType
  <2>. QED
    BY <1>6, <2>1
       DEF Release, callVars, ReadsInstalled, OnlyInstalledDestroyed,
           Dead, TypeOK
<1>7. CASE UNCHANGED vars
  BY <1>7 DEF vars, callVars, TypeOK, Instances, ReadsInstalled, OnlyInstalledDestroyed, Dead
<1>. QED
  BY <1>1, <1>2, <1>3, <1>4, <1>5, <1>6, <1>7 DEF Next, InitStep

\* The inductive invariant holds in every state of the racing threads.
THEOREM InvAlways == Spec => []IInv
BY InvHoldsInitially, InvIsInductive, PTL DEF Spec

\* Types are respected whatever the threads do.
THEOREM TypeCorrect == Spec => []TypeOK
<1>1. IInv => TypeOK
  BY DEF IInv
<1>. QED
  BY <1>1, InvAlways, PTL

\* However many threads race, opentracing_init_global_tracer never tears down
\* a tracer that has not been in the slot.
THEOREM DestroysOnlyInstalled == Spec => []OnlyInstalledDestroyed
<1>1. IInv => OnlyInstalledDestroyed
  BY DEF IInv
<1>. QED
  BY <1>1, InvAlways, PTL
=============================================================================
