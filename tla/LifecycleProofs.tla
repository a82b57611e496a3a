-------------------------- MODULE LifecycleProofs ---------------------------
(***************************************************************************)
(* The global tracer replaced under a lock (LockedInstall), and its life   *)
(* cycle with the libraries that tracers come from, for any threads,       *)
(* tracers, handles and libraries: the code of a tracer that is in use is  *)
(* in memory.  The reason is that a live tracer's handle owns its library: *)
(* the handle it was made through cannot be loaded over or destroyed while *)
(* it lives, and no other handle's load or destroy gives back a reference  *)
(* that is not its own.  Both parts behave in the composition as they do   *)
(* alone, so that what is proved of LockedInstall and of DynamicLoad holds *)
(* of it.                                                                  *)
(***************************************************************************)
EXTENDS Lifecycle, GlobalTracerProofs

-----------------------------------------------------------------------------
(***************************************************************************)
(* LockedInstall: no thread uses a destroyed tracer, none is destroyed     *)
(* twice, none that was installed is lost, and the slot implements         *)
(* TracerSlot.  The reason is that the only thread inside                  *)
(* opentracing_init_global_tracer holds the lock exclusively and reads the *)
(* latest value of the slot, so that what it destroys is what it then      *)
(* overwrites, and that a vendor tracer is held only under the shared lock.*)
(***************************************************************************)

\* The lock excludes, and a call is made only under the exclusive lock.
Exclusion ==
  /\ writer # None => readers = {}
  /\ \A th \in Threads : pc[th] # "idle" => writer = th

\* A thread that holds the lock sees the latest value of the slot.
HoldersSynchronised ==
  \A th \in Threads : (writer = th \/ th \in readers) => stale[th] = {}

\* A vendor tracer is held only under the shared lock, and is the current one.
HeldIsCurrent ==
  \A th \in Threads :
    held[th] \in Tracers => th \in readers /\ held[th] = global_tracer

\* The new tracer of a call is alive until the call ends and, once compared,
\* is not the one that is being replaced.
NewTracerAlive ==
  \A th \in Threads :
    /\ pc[th] # "idle" => ~Dead(tracer[th])
    /\ pc[th] \in {"destroy", "assign"} => tracer[th] # global_tracer

\* Only the current vendor tracer is destroyed, just before it is replaced.
Lives ==
  /\ destroys[Noop] = 0
  /\ \A t \in Tracers : destroys[t] <= 1
  /\ \A t \in installed \cap Tracers : t = global_tracer \/ Dead(t)
  /\ (\A th \in Threads : pc[th] # "assign") => ~Dead(global_tracer)
  /\ \A th \in Threads :
       pc[th] = "assign" => global_tracer = Noop \/ Dead(global_tracer)

\* The inductive invariant.
LockedIInv ==
  /\ LockedTypeOK
  /\ Exclusion
  /\ HoldersSynchronised
  /\ HeldIsCurrent
  /\ NewTracerAlive
  /\ Lives

\* The invariant holds at the start.
LEMMA LockedInvInitially == LockedInit => LockedIInv
BY GlobalTracerAssumption
   DEF LockedInit, Init, LockedIInv, LockedTypeOK, TypeOK, Instances, Exclusion,
       HoldersSynchronised, HeldIsCurrent, NewTracerAlive, Lives, Dead

-----------------------------------------------------------------------------
(* Each step preserves the invariant. *)

\* Taking and giving back the lock.
LEMMA LockStepKeepsInv ==
  ASSUME LockedIInv, NEW th \in Threads,
         WriteLock(th) \/ WriteUnlock(th) \/ ReadLock(th) \/ ReadUnlock(th)
  PROVE  LockedIInv'
<1>. USE GlobalTracerAssumption DEF LockedIInv
<1>1. UNCHANGED <<global_tracer, callVars, destroys, installed, held>>
  BY DEF WriteLock, WriteUnlock, ReadLock, ReadUnlock, vars
<1>2. stale' = stale \/ stale' = [stale EXCEPT ![th] = {}]
  BY DEF WriteLock, WriteUnlock, ReadLock, ReadUnlock, vars
<1>3. LockedTypeOK'
  BY <1>1, <1>2
     DEF WriteLock, WriteUnlock, ReadLock, ReadUnlock, LockedTypeOK, TypeOK,
         Instances, callVars
<1>4. NewTracerAlive' /\ Lives'
  BY <1>1 DEF NewTracerAlive, Lives, Dead, callVars
<1>5. Exclusion'
  BY <1>1 DEF WriteLock, WriteUnlock, ReadLock, ReadUnlock, Exclusion, callVars,
              LockedTypeOK, TypeOK
<1>6. HoldersSynchronised'
  BY <1>1, <1>2
     DEF WriteLock, WriteUnlock, ReadLock, ReadUnlock, HoldersSynchronised, vars,
         LockedTypeOK, TypeOK
<1>7. HeldIsCurrent'
  BY <1>1 DEF WriteLock, WriteUnlock, ReadLock, ReadUnlock, HeldIsCurrent
<1>. QED
  BY <1>3, <1>4, <1>5, <1>6, <1>7

\* Calling opentracing_init_global_tracer, reading the slot and dropping the
\* pointer.
LEMMA CallOrReadKeepsInv ==
  ASSUME LockedIInv, NEW th \in Threads, UNCHANGED lockVars,
         \/ \E t \in Instances : LockedCall(th, t)
         \/ LockedGet(th)
         \/ Release(th)
  PROVE  LockedIInv'
<1>. USE GlobalTracerAssumption DEF LockedIInv
<1>1. LockedTypeOK'
  BY CallStepKeepsType DEF LockedTypeOK, LockedCall, LockedGet, lockVars
<1>2. CASE \E t \in Instances : LockedCall(th, t)
  <2>1. PICK t \in Instances : LockedCall(th, t)
    BY <1>2
  <2>2. Exclusion' /\ HoldersSynchronised' /\ HeldIsCurrent'
    BY <2>1 DEF LockedCall, InitCall, Exclusion, HoldersSynchronised, HeldIsCurrent,
                lockVars, LockedTypeOK, TypeOK
  <2>3. NewTracerAlive'
    BY <2>1 DEF LockedCall, InitCall, NewTracerAlive, Dead, LockedTypeOK, TypeOK
  <2>4. Lives'
    BY <2>1 DEF LockedCall, InitCall, Lives, Dead, LockedTypeOK, TypeOK
  <2>. QED
    BY <1>1, <2>2, <2>3, <2>4
<1>3. CASE LockedGet(th)
  <2>1. stale[th] = {} /\ th \in readers
    BY <1>3 DEF LockedGet, HoldersSynchronised
  <2>2. held' = [held EXCEPT ![th] = global_tracer]
    BY <1>3, <2>1 DEF LockedGet, GetGlobalTracer, Readable
  <2>3. UNCHANGED <<global_tracer, callVars, destroys, installed>>
    BY <1>3 DEF LockedGet, GetGlobalTracer
  <2>4. HoldersSynchronised'
    BY <1>3 DEF LockedGet, GetGlobalTracer, ViewAfterReading, HoldersSynchronised,
                lockVars, LockedTypeOK, TypeOK
  <2>5. HeldIsCurrent'
    BY <2>1, <2>2, <2>3 DEF HeldIsCurrent, lockVars, LockedTypeOK, TypeOK
  <2>. QED
    BY <1>1, <2>3, <2>4, <2>5
       DEF Exclusion, NewTracerAlive, Lives, Dead, lockVars, callVars
<1>4. CASE Release(th)
  BY <1>1, <1>4
     DEF Release, Exclusion, HoldersSynchronised, HeldIsCurrent, NewTracerAlive,
         Lives, Dead, lockVars, callVars, LockedTypeOK, TypeOK
<1>. QED
  BY <1>2, <1>3, <1>4

\* What a thread inside a call knows: it is alone, and reads only the latest
\* value of the slot.
LEMMA CallerIsAlone ==
  ASSUME LockedIInv, NEW th \in Threads, pc[th] # "idle"
  PROVE  /\ writer = th /\ readers = {}
         /\ Readable(th) = {global_tracer}
         /\ \A o \in Threads : o # th => pc[o] = "idle"
         /\ \A o \in Threads : held[o] \notin Tracers
<1>1. writer = th /\ readers = {}
  BY GlobalTracerAssumption DEF LockedIInv, Exclusion
<1>2. Readable(th) = {global_tracer}
  BY <1>1 DEF LockedIInv, HoldersSynchronised, Readable
<1>3. \A o \in Threads : o # th => pc[o] = "idle"
  BY <1>1 DEF LockedIInv, Exclusion
<1>4. \A o \in Threads : held[o] \notin Tracers
  BY <1>1 DEF LockedIInv, HeldIsCurrent
<1>. QED
  BY <1>1, <1>2, <1>3, <1>4

\* if (global_tracer == tracer) return;
LEMMA CompareKeepsInv ==
  ASSUME LockedIInv, NEW th \in Threads, InitCompare(th), UNCHANGED lockVars
  PROVE  LockedIInv'
<1>. USE DEF LockedIInv
<1>1. LockedTypeOK'
  BY InitStepKeepsType DEF InitStep, LockedTypeOK, lockVars
<1>2. pc[th] = "compare"
  BY DEF InitCompare
<1>3. writer = th /\ readers = {} /\ Readable(th) = {global_tracer}
  BY <1>2, CallerIsAlone
<1>4. /\ pc' = [pc EXCEPT ![th] = IF global_tracer = tracer[th] THEN "idle" ELSE "destroy"]
      /\ stale' = [stale EXCEPT ![th] = {}]
      /\ UNCHANGED <<global_tracer, tracer, destroys, installed, held>>
  BY <1>3 DEF InitCompare, ViewAfterReading
<1>5. Exclusion' /\ HoldersSynchronised' /\ HeldIsCurrent'
  BY <1>3, <1>4 DEF Exclusion, HoldersSynchronised, HeldIsCurrent, lockVars,
                    LockedTypeOK, TypeOK
<1>6. NewTracerAlive'
  BY <1>2, <1>4 DEF NewTracerAlive, Dead, LockedTypeOK, TypeOK
<1>7. Lives'
  BY <1>2, <1>4 DEF Lives, Dead, LockedTypeOK, TypeOK
<1>. QED
  BY <1>1, <1>5, <1>6, <1>7

\* global_tracer->destroy(global_tracer) destroys the current vendor tracer.
LEMMA DestroyOldStep ==
  ASSUME LockedIInv, NEW th \in Threads, InitDestroyOld(th)
  PROVE  /\ pc[th] = "destroy"
         /\ pc' = [pc EXCEPT ![th] = "assign"]
         /\ stale' = [stale EXCEPT ![th] = {}]
         /\ destroys' = IF global_tracer = Noop THEN destroys
                        ELSE [destroys EXCEPT ![global_tracer] = @ + 1]
         /\ UNCHANGED <<global_tracer, tracer, installed, held>>
<1>1. pc[th] = "destroy"
  BY DEF InitDestroyOld
<1>2. Readable(th) = {global_tracer}
  BY <1>1, CallerIsAlone
<1>. QED
  BY <1>1, <1>2 DEF InitDestroyOld, RunDestroy, ViewAfterReading

\* It preserves the invariant.
LEMMA DestroyOldKeepsInv ==
  ASSUME LockedIInv, NEW th \in Threads, InitDestroyOld(th), UNCHANGED lockVars
  PROVE  LockedIInv'
<1>. USE DEF LockedIInv
<1>1. LockedTypeOK'
  BY InitStepKeepsType DEF InitStep, LockedTypeOK, lockVars
<1>2. /\ pc[th] = "destroy"
      /\ pc' = [pc EXCEPT ![th] = "assign"]
      /\ stale' = [stale EXCEPT ![th] = {}]
      /\ destroys' = IF global_tracer = Noop THEN destroys
                     ELSE [destroys EXCEPT ![global_tracer] = @ + 1]
      /\ UNCHANGED <<global_tracer, tracer, installed, held>>
  BY DestroyOldStep
<1>3. /\ writer = th
      /\ \A o \in Threads : o # th => pc[o] = "idle"
      /\ \A o \in Threads : held[o] \notin Tracers
  BY <1>2, CallerIsAlone
<1>4. Exclusion' /\ HoldersSynchronised' /\ HeldIsCurrent'
  BY <1>2, <1>3 DEF Exclusion, HoldersSynchronised, HeldIsCurrent, lockVars,
                    LockedTypeOK, TypeOK
<1>5. ~Dead(global_tracer) /\ ~Dead(tracer[th]) /\ tracer[th] # global_tracer
  BY <1>2, <1>3 DEF Lives, NewTracerAlive
<1>6. destroys[global_tracer] = 0
  BY <1>5 DEF Dead, LockedTypeOK, TypeOK
<1>7. \A t \in Instances : t # global_tracer => destroys'[t] = destroys[t]
  BY <1>2 DEF LockedTypeOK, TypeOK
<1>8. IF global_tracer = Noop THEN destroys'[Noop] = 0 ELSE destroys'[global_tracer] = 1
  BY <1>2, <1>6 DEF LockedTypeOK, TypeOK
<1>9. NewTracerAlive'
  <2>1. tracer[th] \in Instances
    BY <1>2 DEF LockedTypeOK, TypeOK
  <2>. QED
    BY <1>2, <1>3, <1>5, <1>7, <2>1 DEF NewTracerAlive, Dead, LockedTypeOK, TypeOK
<1>10. Lives'
  BY <1>2, <1>3, <1>7, <1>8
     DEF Lives, Dead, LockedTypeOK, TypeOK, Instances
<1>. QED
  BY <1>1, <1>4, <1>9, <1>10

\* global_tracer = tracer;
LEMMA AssignKeepsInv ==
  ASSUME LockedIInv, NEW th \in Threads, InitAssign(th), UNCHANGED lockVars
  PROVE  LockedIInv'
<1>. USE DEF LockedIInv
<1>1. LockedTypeOK'
  BY InitStepKeepsType DEF InitStep, LockedTypeOK, lockVars
<1>2. pc[th] = "assign"
  BY DEF InitAssign
<1>3. /\ writer = th /\ readers = {}
      /\ \A o \in Threads : o # th => pc[o] = "idle"
      /\ \A o \in Threads : held[o] \notin Tracers
  BY <1>2, CallerIsAlone
<1>4. \A o \in Threads : pc'[o] = "idle"
  BY <1>3 DEF InitAssign, LockedTypeOK, TypeOK
<1>5. Exclusion' /\ HoldersSynchronised' /\ HeldIsCurrent' /\ NewTracerAlive'
  BY <1>3, <1>4 DEF InitAssign, Exclusion, HoldersSynchronised, HeldIsCurrent,
                    NewTracerAlive, lockVars, LockedTypeOK, TypeOK
<1>6. Lives'
  <2>1. ~Dead(tracer[th]) /\ (global_tracer = Noop \/ Dead(global_tracer))
    BY <1>2 DEF NewTracerAlive, Lives
  <2>. QED
    BY <1>4, <2>1, GlobalTracerAssumption DEF InitAssign, Lives, Dead
<1>. QED
  BY <1>1, <1>5, <1>6

\* So every step preserves it.
LEMMA LockedInvIsInductive == LockedIInv /\ [LockedNext]_allVars => LockedIInv'
<1>. SUFFICES ASSUME LockedIInv, [LockedNext]_allVars PROVE LockedIInv'
  OBVIOUS
<1>1. CASE LockedNext
  <2>. SUFFICES ASSUME NEW th \in Threads,
                       \/ WriteLock(th) \/ WriteUnlock(th)
                       \/ ReadLock(th) \/ ReadUnlock(th)
                       \/ \E t \in Instances : LockedCall(th, t)
                       \/ InitStep(th) /\ UNCHANGED lockVars
                       \/ LockedGet(th)
                       \/ Release(th) /\ UNCHANGED lockVars
                PROVE  LockedIInv'
    BY <1>1 DEF LockedNext
  <2>1. CASE WriteLock(th) \/ WriteUnlock(th) \/ ReadLock(th) \/ ReadUnlock(th)
    BY <2>1, LockStepKeepsInv
  <2>2. CASE \/ \E t \in Instances : LockedCall(th, t)
             \/ LockedGet(th)
             \/ Release(th) /\ UNCHANGED lockVars
    <3>1. UNCHANGED lockVars
      BY <2>2 DEF LockedCall, LockedGet
    <3>. QED
      BY <2>2, <3>1, CallOrReadKeepsInv
  <2>3. CASE InitStep(th) /\ UNCHANGED lockVars
    BY <2>3, CompareKeepsInv, DestroyOldKeepsInv, AssignKeepsInv DEF InitStep
  <2>. QED
    BY <2>1, <2>2, <2>3
<1>2. CASE UNCHANGED allVars
  BY <1>2
     DEF allVars, vars, callVars, lockVars, LockedIInv, LockedTypeOK, TypeOK, Instances,
         Exclusion, HoldersSynchronised, HeldIsCurrent, NewTracerAlive, Lives, Dead
<1>. QED
  BY <1>1, <1>2

\* The inductive invariant holds in every state of the program.
THEOREM LockedInvAlways == LockedSpec => []LockedIInv
BY LockedInvInitially, LockedInvIsInductive, PTL DEF LockedSpec

-----------------------------------------------------------------------------
\* With the lock around the two functions the types are respected.
THEOREM LockedTypeCorrect == LockedSpec => []LockedTypeOK
<1>1. LockedIInv => LockedTypeOK
  BY DEF LockedIInv
<1>. QED
  BY <1>1, LockedInvAlways, PTL

\* With the lock around the two functions no thread ever uses a tracer that
\* has been destroyed.
THEOREM LockedNoUseAfterDestroy == LockedSpec => []NoUseAfterDestroy
<1>1. LockedIInv => NoUseAfterDestroy
  <2>. SUFFICES ASSUME LockedIInv, NEW th \in Threads, held[th] # None
                PROVE  ~Dead(held[th])
    BY DEF NoUseAfterDestroy
  <2>. USE DEF LockedIInv
  <2>1. CASE held[th] = Noop
    BY <2>1 DEF Lives, Dead
  <2>2. CASE held[th] \in Tracers
    <3>1. th \in readers /\ held[th] = global_tracer
      BY <2>2 DEF HeldIsCurrent
    <3>2. \A o \in Threads : pc[o] = "idle"
      BY <3>1, GlobalTracerAssumption DEF Exclusion
    <3>. QED
      BY <3>1, <3>2 DEF Lives
  <2>. QED
    BY <2>1, <2>2 DEF LockedTypeOK, TypeOK, Instances
<1>. QED
  BY <1>1, LockedInvAlways, PTL

\* No tracer is destroyed twice, and between calls every vendor tracer that was
\* installed is current and alive or has been destroyed once.
THEOREM LockedReplacedDestroyedOnce == LockedSpec => []ReplacedDestroyedOnce
<1>1. LockedIInv => ReplacedDestroyedOnce
  <2>. SUFFICES ASSUME LockedIInv PROVE ReplacedDestroyedOnce
    OBVIOUS
  <2>. USE DEF LockedIInv
  <2>1. \A t \in Instances : destroys[t] \in Nat /\ destroys[t] <= 1
    BY DEF Lives, LockedTypeOK, TypeOK, Instances
  <2>2. ASSUME \A th \in Threads : pc[th] = "idle", NEW t \in installed
        PROVE  destroys[t] = IF t \in {Noop, global_tracer} THEN 0 ELSE 1
    <3>1. t \in Instances /\ destroys[t] \in {0, 1}
      BY <2>1 DEF LockedTypeOK, TypeOK
    <3>2. ~Dead(global_tracer) /\ destroys[Noop] = 0
      BY <2>2 DEF Lives
    <3>3. t \notin {Noop, global_tracer} => Dead(t)
      BY <3>1 DEF Lives, Instances
    <3>. QED
      BY <3>1, <3>2, <3>3 DEF Dead
  <2>. QED
    BY <2>1, <2>2 DEF ReplacedDestroyedOnce
<1>. QED
  BY <1>1, LockedInvAlways, PTL

-----------------------------------------------------------------------------
(* The slot implements TracerSlot. *)

Retired == {t \in Tracers : Dead(t)} \ Replaced

\* Nothing has been retired at the start.
LEMMA SlotInitially == LockedInit => Slot!Init
BY GlobalTracerAssumption DEF LockedInit, Init, Slot!Init, Instances, Replaced, Dead

\* The assignment is the abstract replacement.
LEMMA AssignReplaces ==
  ASSUME LockedIInv, NEW th \in Threads, InitAssign(th)
  PROVE  Slot!Replace(tracer[th])
<1>. USE DEF LockedIInv
<1>1. pc[th] = "assign" /\ ~Dead(tracer[th]) /\ tracer[th] # global_tracer
  BY DEF InitAssign, NewTracerAlive
<1>2. \A o \in Threads : pc'[o] = "idle"
  <2>1. \A o \in Threads : o # th => pc[o] = "idle"
    BY <1>1, CallerIsAlone
  <2>. QED
    BY <2>1 DEF InitAssign, LockedTypeOK, TypeOK
<1>3. Replaced = {global_tracer} /\ Replaced' = {}
  BY <1>1, <1>2 DEF Replaced
<1>4. global_tracer = Noop \/ Dead(global_tracer)
  BY <1>1 DEF Lives
<1>5. global_tracer' = tracer[th] /\ destroys' = destroys
  BY DEF InitAssign
<1>6. Retired' = Retired \cup ({global_tracer} \ {Noop})
  BY <1>3, <1>4, <1>5, GlobalTracerAssumption
     DEF Retired, Dead, LockedTypeOK, TypeOK, Instances
<1>. QED
  BY <1>1, <1>5, <1>6 DEF Slot!Replace, Retired

\* Destroying the old tracer is not yet its retirement.
LEMMA DestroyStutters ==
  ASSUME LockedIInv, NEW th \in Threads, InitDestroyOld(th)
  PROVE  UNCHANGED Slot!vars
<1>. USE DEF LockedIInv
<1>1. /\ pc[th] = "destroy"
      /\ pc' = [pc EXCEPT ![th] = "assign"]
      /\ destroys' = IF global_tracer = Noop THEN destroys
                     ELSE [destroys EXCEPT ![global_tracer] = @ + 1]
      /\ UNCHANGED global_tracer
  BY DestroyOldStep
<1>2. \A o \in Threads : o # th => pc[o] = "idle"
  BY <1>1, CallerIsAlone
<1>3. Replaced = {} /\ Replaced' = {global_tracer}
  BY <1>1, <1>2 DEF Replaced, LockedTypeOK, TypeOK
<1>4. ~Dead(global_tracer)
  BY <1>1, <1>2 DEF Lives
<1>5. \A t \in Instances : t # global_tracer => destroys'[t] = destroys[t]
  BY <1>1 DEF LockedTypeOK, TypeOK
<1>6. Retired' = Retired
  BY <1>3, <1>4, <1>5 DEF Retired, Dead, Instances
<1>. QED
  BY <1>1, <1>6 DEF Slot!vars, Retired

\* No other step changes the slot or retires a tracer.
LEMMA OthersStutter ==
  ASSUME LockedIInv, UNCHANGED <<global_tracer, destroys>>,
         {o \in Threads : pc'[o] = "assign"} = {o \in Threads : pc[o] = "assign"}
  PROVE  UNCHANGED Slot!vars
BY DEF Slot!vars, Replaced, Dead

\* Every step of the program replaces the abstract tracer or leaves it.
LEMMA StepImplementsSlot ==
  LockedIInv /\ [LockedNext]_allVars => [Slot!Next]_Slot!vars
<1>. SUFFICES ASSUME LockedIInv, [LockedNext]_allVars PROVE [Slot!Next]_Slot!vars
  OBVIOUS
<1>1. CASE \E th \in Threads : InitAssign(th)
  <2>1. PICK th \in Threads : InitAssign(th)
    BY <1>1
  <2>2. tracer[th] \in Tracers \cup {Noop}
    BY <2>1 DEF InitAssign, LockedIInv, LockedTypeOK, TypeOK, Instances
  <2>. QED
    BY <2>1, <2>2, AssignReplaces DEF Slot!Next
<1>2. CASE \E th \in Threads : InitDestroyOld(th)
  BY <1>2, DestroyStutters
<1>3. CASE ~\E th \in Threads : InitAssign(th) \/ InitDestroyOld(th)
  <2>1. UNCHANGED <<global_tracer, destroys>>
    BY <1>3 DEF LockedNext, WriteLock, WriteUnlock, ReadLock, ReadUnlock, LockedCall,
                InitCall, InitStep, InitCompare, LockedGet, GetGlobalTracer, Release,
                allVars, vars
  <2>2. \/ pc' = pc
        \/ \E th \in Threads, l \in {"idle", "compare", "destroy"} :
             pc[th] # "assign" /\ pc' = [pc EXCEPT ![th] = l]
    BY <1>3 DEF LockedNext, WriteLock, WriteUnlock, ReadLock, ReadUnlock, LockedCall,
                InitCall, InitStep, InitCompare, LockedGet, GetGlobalTracer, Release,
                allVars, vars, callVars
  <2>3. {o \in Threads : pc'[o] = "assign"} = {o \in Threads : pc[o] = "assign"}
    BY <2>2 DEF LockedIInv, LockedTypeOK, TypeOK
  <2>. QED
    BY <2>1, <2>3, OthersStutter
<1>. QED
  BY <1>1, <1>2, <1>3

\* Under the lock the three-step installation implements the one-step slot of
\* TracerSlot: no reader can tell that it is not atomic.
THEOREM LockedImplementsSlot == LockedSpec => ImplementsSlot
BY SlotInitially, StepImplementsSlot, LockedInvAlways, PTL
   DEF LockedSpec, ImplementsSlot, Slot!Spec

-----------------------------------------------------------------------------
(* Lifecycle: the two parts of the system composed.                        *)

DLP == INSTANCE DynamicLoadProofs WITH
         Trusted <- Libs, Uninitialised <- {}, MaxLost <- 0

\* What DynamicLoad assumes of its constants.
LEMMA LoadAssumption ==
  /\ Libs \subseteq Libs /\ {} \subseteq Handles
  /\ 0 \in Nat
  /\ None \notin Libs \cup Handles /\ Garbage \notin Libs /\ Garbage # None
  /\ DLP!IsFiniteSet(Handles)
BY LifecycleAssumption DEF IsFiniteSet, DLP!IsFiniteSet

\* Its two instances, with and without the proofs, are the same.
LEMMA SameLoad ==
  /\ DL!Init <=> DLP!Init
  /\ DL!Next <=> DLP!Next
  /\ DL!vars = DLP!vars
  /\ DL!TypeOK <=> DLP!TypeOK
<1>1. DL!Init <=> DLP!Init
  BY DEF DL!Init, DL!Null, DL!Idle, DL!Frame, DLP!Init, DLP!Null, DLP!Idle, DLP!Frame
<1>2. DL!Next <=> DLP!Next
  BY DEF DL!Next, DL!AppDlFailure, DL!LoadCall, DL!DestroyHandle, DL!LoadStep,
         DL!NotSupported, DL!DlOpen, DL!DlSym, DL!CallHook, DL!CopyError,
         DL!CloseLibrary, DL!Return, DL!At, DL!Free, DL!Idle, DL!Frame, DL!Null,
         DL!CopiedError, DL!ReturnCodes, DL!Failures,
         DLP!Next, DLP!AppDlFailure, DLP!LoadCall, DLP!DestroyHandle, DLP!LoadStep,
         DLP!NotSupported, DLP!DlOpen, DLP!DlSym, DLP!CallHook, DLP!CopyError,
         DLP!CloseLibrary, DLP!Return, DLP!At, DLP!Free, DLP!Idle, DLP!Frame, DLP!Null,
         DLP!CopiedError, DLP!ReturnCodes, DLP!Failures
<1>3. DL!TypeOK <=> DLP!TypeOK
  BY DEF DL!TypeOK, DL!Members, DL!Pointers, DL!Frames, DL!Labels, DL!ReturnCodes,
         DL!Failures, DL!Messages, DL!Buffers,
         DLP!TypeOK, DLP!Members, DLP!Pointers, DLP!Frames, DLP!Labels,
         DLP!ReturnCodes, DLP!Failures, DLP!Messages, DLP!Buffers
<1>. QED
  BY <1>1, <1>2, <1>3 DEF DL!vars, DLP!vars

-----------------------------------------------------------------------------
(* Both parts behave as they do alone. *)

\* The slot under its lock.
THEOREM LifecycleIsLocked == LifeSpec => LockedSpec
<1>1. LifeInit => LockedInit
  BY DEF LifeInit
<1>2. [LifeNext]_lifeVars => [LockedNext]_allVars
  BY DEF LifeNext, lifeVars, LockedNext, Load, LoadStep, MakeTracer, Install, Discard,
         Unload, SlotStep
<1>. QED
  BY <1>1, <1>2, PTL DEF LifeSpec, LockedSpec

\* Dynamic loading by a careful caller.
LEMMA LifecycleLoads == LifeSpec => DLP!Spec
<1>1. LifeInit => DLP!Init
  BY SameLoad DEF LifeInit
<1>2. [LifeNext]_lifeVars => [DL!Next]_DL!vars
  BY DEF LifeNext, lifeVars, loadVars, DL!Next, DL!vars, Load, LoadStep, MakeTracer,
         Install, Discard, Unload, SlotStep
<1>3. [LifeNext]_lifeVars => [DLP!Next]_DLP!vars
  BY <1>2, SameLoad DEF DL!vars, DLP!vars
<1>. QED
  BY <1>1, <1>3, PTL DEF LifeSpec, DLP!Spec

\* So their invariants hold.
LEMMA PartsInvariant == LifeSpec => [](LockedIInv /\ DLP!LoadIInv)
<1>1. DLP!Spec => []DLP!LoadIInv
  BY LoadAssumption, DLP!LoadInvariant, PTL
<1>. QED
  BY <1>1, LifecycleIsLocked, LifecycleLoads, LockedInvAlways, PTL

-----------------------------------------------------------------------------
(* What connects them. *)

MadeTypes ==
  /\ made \in [Tracers -> [h : Handles, lib : Libs] \cup {None}]
  /\ discarded \subseteq Tracers

\* Every handle was zeroed and none is loaded over: no reference is lost.
CallerIsCareful ==
  /\ \A h \in Handles : handle[h].factory # Garbage
  /\ \A l \in Libs : lost[l] = 0
  /\ \A th \in Threads : call[th].pc = "dlopen" =>
       handle[call[th].h].lib_handle \notin Libs

\* A live tracer's handle owns its library, and no load is filling it.
LiveIsOwned ==
  \A t \in Tracers : Live(t) =>
    /\ handle[made[t].h].lib_handle = made[t].lib
    /\ \A th \in Threads : call[th].h # made[t].h

\* What is or will be in the slot has been made and not been discarded.
SlotIsMade ==
  /\ global_tracer \in installed
  /\ \A t \in Tracers :
       t \in installed \/ (\E th \in Threads : pc[th] # "idle" /\ tracer[th] = t) =>
         made[t] # None /\ t \notin discarded

\* The inductive invariant, given those of the parts.
LifeIInv == MadeTypes /\ CallerIsCareful /\ LiveIsOwned /\ SlotIsMade

\* It holds at the start.
LEMMA LifeInvInitially == LifeInit => LifeIInv
<1>. SUFFICES ASSUME LifeInit PROVE LifeIInv
  OBVIOUS
<1>1. MadeTypes /\ LiveIsOwned
  BY DEF LifeInit, MadeTypes, LiveIsOwned, Live
<1>2. CallerIsCareful
  BY LifecycleAssumption
     DEF LifeInit, DL!Init, DL!Null, DL!Idle, DL!Frame, CallerIsCareful
<1>3. SlotIsMade
  BY GlobalTracerAssumption DEF LifeInit, LockedInit, Init, SlotIsMade
<1>. QED
  BY <1>1, <1>2, <1>3 DEF LifeIInv

-----------------------------------------------------------------------------
(* Each step preserves it. *)

\* What is known of a load in progress.
LEMMA LoadFacts ==
  ASSUME DLP!LoadIInv
  PROVE  /\ lost \in [Libs -> Nat]
         /\ DOMAIN handle = Handles /\ DOMAIN call = Threads
         /\ \A h \in Handles : DOMAIN handle[h] = {"factory", "lib_handle"}
         /\ \A th \in Threads : DOMAIN call[th] =
              {"pc", "h", "lib", "before", "return_code", "error", "error_buffer"}
         /\ \A h \in Handles : /\ handle[h].factory \in Libs \cup {None, Garbage}
                               /\ handle[h].lib_handle \in Libs \cup {None, Garbage}
         /\ \A th \in Threads : /\ call[th].pc = "idle" => call[th].h = None
                                /\ call[th].pc # "idle" =>
                                     call[th].h \in Handles /\ call[th].lib \in Libs
         /\ \A th, o \in Threads : call[th].h = call[o].h /\ call[th].h # None => th = o
         /\ \A h \in Handles : handle[h].factory \in Libs =>
              handle[h].lib_handle = handle[h].factory \/ lost[handle[h].factory] > 0
BY DEF DLP!LoadIInv, DLP!TypeOK, DLP!Members, DLP!Pointers, DLP!Frames, DLP!Phase,
       DLP!Exclusive, DLP!FactoryOwned

\* Calling opentracing_dynamically_load_tracing_library.
LEMMA LoadKeepsInv ==
  ASSUME LifeIInv, DLP!LoadIInv, NEW th \in Threads, NEW lib \in Libs,
         NEW h \in Handles, Load(th, lib, h)
  PROVE  LifeIInv'
<1>1. /\ UNCHANGED <<allVars, handle, lost, made, discarded>>
      /\ handle[h].lib_handle \in Libs => lost[handle[h].lib_handle] < 0
  BY DEF Load, DL!LoadCall
<1>2. handle[h].lib_handle \notin Libs
  BY <1>1, LoadFacts
<1>3. call'[th].h = h /\ \A o \in Threads \ {th} : call'[o] = call[o]
  BY LoadFacts DEF Load, DL!LoadCall, DL!Frame
<1>4. UNCHANGED <<global_tracer, pc, tracer, installed, destroys>>
  BY <1>1 DEF allVars, vars, callVars
<1>5. CallerIsCareful'
  BY <1>1, <1>2, <1>3 DEF LifeIInv, CallerIsCareful
<1>6. LiveIsOwned'
  <2>. SUFFICES ASSUME NEW t \in Tracers, Live(t)'
                PROVE  /\ handle[made[t].h].lib_handle = made[t].lib
                       /\ \A o \in Threads : call'[o].h # made[t].h
    BY <1>1 DEF LiveIsOwned
  <2>1. Live(t)
    BY <1>1, <1>4 DEF Live, Dead
  <2>2. made[t].lib \in Libs
    BY <2>1 DEF LifeIInv, MadeTypes, Live
  <2>3. made[t].h # h
    BY <1>2, <2>1, <2>2 DEF LifeIInv, LiveIsOwned
  <2>. QED
    BY <1>3, <2>1, <2>3 DEF LifeIInv, LiveIsOwned
<1>. QED
  BY <1>1, <1>4, <1>5, <1>6 DEF LifeIInv, MadeTypes, SlotIsMade

\* A step of a load touches the handle it fills, and no other.
LEMMA LoadStepIsLocal ==
  ASSUME LifeIInv, DLP!LoadIInv, NEW th \in Threads, DL!LoadStep(th)
  PROVE  /\ call[th].pc # "idle"
         /\ \A k \in Handles \ {call[th].h} : handle'[k] = handle[k]
         /\ handle'[call[th].h].factory # Garbage
         /\ \A o \in Threads \ {th} : call'[o] = call[o]
         /\ call'[th].h \in {call[th].h, None}
         /\ call'[th].pc # "dlopen"
         /\ lost' = lost
<1>. USE LoadFacts
<1>1. handle[call[th].h].factory # Garbage \/ call[th].pc = "idle"
  BY DEF LifeIInv, CallerIsCareful
<1>2. CASE DL!NotSupported(th)
  BY <1>1, <1>2 DEF DL!NotSupported, DL!At
<1>3. CASE DL!DlOpen(th)
  <2>1. call[th].pc = "dlopen" /\ handle[call[th].h].lib_handle \notin Libs
    BY <1>3 DEF DL!DlOpen, DL!At, LifeIInv, CallerIsCareful
  <2>. QED
    BY <1>1, <1>3, <2>1 DEF DL!DlOpen
<1>4. CASE DL!DlSym(th)
  BY <1>1, <1>4 DEF DL!DlSym, DL!At
<1>5. CASE DL!CallHook(th)
  <2>1. call[th].pc = "hook"
    BY <1>5 DEF DL!CallHook, DL!At
  <2>. QED
    BY <1>5, <2>1, LifecycleAssumption DEF DL!CallHook
<1>6. CASE DL!CopyError(th)
  BY <1>1, <1>6 DEF DL!CopyError, DL!At
<1>7. CASE DL!CloseLibrary(th)
  BY <1>1, <1>7 DEF DL!CloseLibrary, DL!At
<1>8. CASE DL!Return(th)
  BY <1>1, <1>8 DEF DL!Return, DL!At, DL!Idle, DL!Frame
<1>. QED
  BY <1>2, <1>3, <1>4, <1>5, <1>6, <1>7, <1>8 DEF DL!LoadStep

\* So it leaves the handles of live tracers alone.
LEMMA LoadStepKeepsInv ==
  ASSUME LifeIInv, DLP!LoadIInv, NEW th \in Threads, LoadStep(th)
  PROVE  LifeIInv'
<1>1. /\ UNCHANGED <<allVars, made, discarded>>
      /\ call[th].pc # "idle"
      /\ \A k \in Handles \ {call[th].h} : handle'[k] = handle[k]
      /\ handle'[call[th].h].factory # Garbage
      /\ \A o \in Threads \ {th} : call'[o] = call[o]
      /\ call'[th].h \in {call[th].h, None}
      /\ call'[th].pc # "dlopen"
      /\ lost' = lost
  BY LoadStepIsLocal DEF LoadStep
<1>2. UNCHANGED <<global_tracer, pc, tracer, installed, destroys>>
  BY <1>1 DEF allVars, vars, callVars
<1>3. CallerIsCareful'
  <2>1. \A k \in Handles : handle'[k].factory # Garbage
    BY <1>1 DEF LifeIInv, CallerIsCareful
  <2>2. ASSUME NEW o \in Threads, call'[o].pc = "dlopen"
        PROVE  handle'[call'[o].h].lib_handle \notin Libs
    <3>1. o # th /\ call'[o] = call[o]
      BY <1>1, <2>2
    <3>2. call[o].h \in Handles /\ call[o].h # call[th].h
      BY <1>1, <2>2, <3>1, LoadFacts, LifecycleAssumption
    <3>. QED
      BY <1>1, <2>2, <3>1, <3>2 DEF LifeIInv, CallerIsCareful
  <2>. QED
    BY <1>1, <2>1, <2>2 DEF LifeIInv, CallerIsCareful
<1>4. LiveIsOwned'
  <2>. SUFFICES ASSUME NEW t \in Tracers, Live(t)'
                PROVE  /\ handle'[made[t].h].lib_handle = made[t].lib
                       /\ \A o \in Threads : call'[o].h # made[t].h
    BY <1>1 DEF LiveIsOwned
  <2>1. Live(t)
    BY <1>1, <1>2 DEF Live, Dead
  <2>2. made[t].h \in Handles /\ made[t].h # None
    BY <2>1, LifecycleAssumption DEF LifeIInv, MadeTypes, Live
  <2>3. \A o \in Threads : call[o].h # made[t].h
    BY <2>1 DEF LifeIInv, LiveIsOwned
  <2>. QED
    BY <1>1, <2>1, <2>2, <2>3 DEF LifeIInv, LiveIsOwned
<1>. QED
  BY <1>1, <1>2, <1>3, <1>4 DEF LifeIInv, MadeTypes, SlotIsMade

\* A factory makes a tracer.
LEMMA MakeTracerKeepsInv ==
  ASSUME LifeIInv, DLP!LoadIInv, NEW th \in Threads, NEW h \in Handles, NEW t \in Tracers,
         MakeTracer(th, h, t)
  PROVE  LifeIInv'
<1>1. /\ UNCHANGED <<allVars, loadVars, discarded>>
      /\ made[t] = None
      /\ made' = [made EXCEPT ![t] = [h |-> h, lib |-> handle[h].factory]]
      /\ \A o \in Threads : call[o].h # h
      /\ handle[h].factory # None
  BY DEF MakeTracer, DL!Free
<1>2. handle[h].factory \in Libs /\ handle[h].lib_handle = handle[h].factory
  BY <1>1, LoadFacts DEF LifeIInv, CallerIsCareful
<1>3. UNCHANGED <<global_tracer, pc, tracer, installed, destroys, handle, call, lost>>
  BY <1>1 DEF allVars, vars, callVars, loadVars
<1>4. MadeTypes'
  BY <1>1, <1>2 DEF LifeIInv, MadeTypes
<1>5. LiveIsOwned'
  BY <1>1, <1>2, <1>3 DEF LifeIInv, MadeTypes, LiveIsOwned, Live, Dead
<1>6. SlotIsMade'
  BY <1>1, <1>3 DEF LifeIInv, MadeTypes, SlotIsMade
<1>. QED
  BY <1>3, <1>4, <1>5, <1>6 DEF LifeIInv, CallerIsCareful

\* A tracer is handed to opentracing_init_global_tracer or destroyed unused.
LEMMA HandOverKeepsInv ==
  ASSUME LifeIInv, LockedIInv, NEW th \in Threads,
         \/ \E t \in Instances : Install(th, t)
         \/ \E t \in Tracers : Discard(th, t)
  PROVE  LifeIInv'
<1>1. CASE \E t \in Instances : Install(th, t)
  <2>1. PICK t \in Instances : Install(th, t)
    BY <1>1
  <2>2. UNCHANGED <<global_tracer, installed, destroys, made, discarded, handle, call, lost>>
    BY <2>1 DEF Install, LockedCall, InitCall, loadVars
  <2>3. /\ pc' = [pc EXCEPT ![th] = "compare"] /\ tracer' = [tracer EXCEPT ![th] = t]
        /\ t \in Tracers => made[t] # None /\ t \notin discarded
    BY <2>1 DEF Install, LockedCall, InitCall, Live
  <2>4. SlotIsMade'
    BY <2>2, <2>3 DEF LifeIInv, SlotIsMade, LockedIInv, LockedTypeOK, TypeOK
  <2>. QED
    BY <2>2, <2>4 DEF LifeIInv, MadeTypes, CallerIsCareful, LiveIsOwned, Live, Dead
<1>2. CASE \E t \in Tracers : Discard(th, t)
  <2>1. PICK t \in Tracers : Discard(th, t)
    BY <1>2
  <2>2. UNCHANGED <<global_tracer, pc, tracer, installed, destroys, made, handle, call, lost>>
    BY <2>1 DEF Discard, allVars, vars, callVars, loadVars
  <2>3. discarded' = discarded \cup {t} /\ t \notin installed
        /\ \A o \in Threads : pc[o] = "idle" \/ tracer[o] # t
    BY <2>1 DEF Discard
  <2>. QED
    BY <2>2, <2>3
       DEF LifeIInv, MadeTypes, CallerIsCareful, LiveIsOwned, SlotIsMade, Live, Dead
<1>. QED
  BY <1>1, <1>2

\* A handle is destroyed when its tracers are gone.
LEMMA UnloadKeepsInv ==
  ASSUME LifeIInv, DLP!LoadIInv, NEW th \in Threads, NEW h \in Handles, Unload(th, h)
  PROVE  LifeIInv'
<1>1. /\ UNCHANGED <<allVars, call, lost, made, discarded>>
      /\ \A t \in Tracers : Live(t) => made[t].h # h
      /\ \A o \in Threads : call[o].h # h
      /\ handle' = handle \/ handle' = [handle EXCEPT ![h] = DL!Null]
  BY DEF Unload, DL!DestroyHandle, DL!Free
<1>2. UNCHANGED <<global_tracer, pc, tracer, installed, destroys>>
  BY <1>1 DEF allVars, vars, callVars
<1>3. \A k \in Handles \ {h} : handle'[k] = handle[k]
  BY <1>1, LoadFacts
<1>4. CallerIsCareful'
  <2>1. \A k \in Handles : handle'[k].factory # Garbage
    BY <1>1, LoadFacts, LifecycleAssumption DEF DL!Null, LifeIInv, CallerIsCareful
  <2>2. \A o \in Threads : call[o].pc = "dlopen" => call[o].h \in Handles \ {h}
    BY <1>1, LoadFacts
  <2>. QED
    BY <1>1, <1>3, <2>1, <2>2 DEF LifeIInv, CallerIsCareful
<1>5. LiveIsOwned'
  <2>. SUFFICES ASSUME NEW t \in Tracers, Live(t)'
                PROVE  /\ handle'[made[t].h].lib_handle = made[t].lib
                       /\ \A o \in Threads : call[o].h # made[t].h
    BY <1>1 DEF LiveIsOwned
  <2>1. Live(t)
    BY <1>1, <1>2 DEF Live, Dead
  <2>2. made[t].h \in Handles \ {h}
    BY <1>1, <2>1 DEF LifeIInv, MadeTypes, Live
  <2>. QED
    BY <1>3, <2>1, <2>2 DEF LifeIInv, LiveIsOwned
<1>. QED
  BY <1>1, <1>2, <1>4, <1>5 DEF LifeIInv, MadeTypes, SlotIsMade

\* The steps on the lock and the slot.
LEMMA SlotStepKeepsInv ==
  ASSUME LifeIInv, LockedIInv, NEW th \in Threads, SlotStep(th)
  PROVE  LifeIInv'
<1>1. UNCHANGED <<handle, call, lost, made, discarded>>
  BY DEF SlotStep, loadVars
<1>2. \A t \in Tracers : Dead(t) => Dead(t)'
  <2>1. CASE InitDestroyOld(th)
    BY <2>1, DestroyOldStep DEF LockedIInv, LockedTypeOK, TypeOK, Instances, Dead
  <2>2. CASE ~InitDestroyOld(th)
    BY <2>2
       DEF SlotStep, WriteLock, WriteUnlock, ReadLock, ReadUnlock, InitStep, InitCompare,
           InitAssign, LockedGet, GetGlobalTracer, Release, vars, Dead
  <2>. QED
    BY <2>1, <2>2
<1>3. \A t \in Tracers : Live(t)' => Live(t)
  BY <1>1, <1>2 DEF Live
<1>4. LiveIsOwned'
  BY <1>1, <1>3 DEF LifeIInv, LiveIsOwned
<1>5. SlotIsMade'
  <2>1. CASE InitAssign(th)
    BY <1>1, <2>1
       DEF InitAssign, LifeIInv, SlotIsMade, LockedIInv, LockedTypeOK, TypeOK
  <2>2. CASE ~InitAssign(th)
    <3>1. UNCHANGED <<global_tracer, tracer, installed>>
      BY <2>2
         DEF SlotStep, WriteLock, WriteUnlock, ReadLock, ReadUnlock, InitStep, InitCompare,
             InitDestroyOld, LockedGet, GetGlobalTracer, Release, vars, callVars
    <3>2. \A o \in Threads : pc'[o] # "idle" => pc[o] # "idle"
      BY <2>2
         DEF SlotStep, WriteLock, WriteUnlock, ReadLock, ReadUnlock, InitStep, InitCompare,
             InitDestroyOld, LockedGet, GetGlobalTracer, Release, vars, callVars,
             LockedIInv, LockedTypeOK, TypeOK
    <3>. QED
      BY <1>1, <3>1, <3>2 DEF LifeIInv, SlotIsMade
  <2>. QED
    BY <2>1, <2>2
<1>. QED
  BY <1>1, <1>4, <1>5 DEF LifeIInv, MadeTypes, CallerIsCareful

\* So every step preserves it.
LEMMA LifeInvStep == LifeIInv /\ LockedIInv /\ DLP!LoadIInv /\ [LifeNext]_lifeVars => LifeIInv'
<1>. SUFFICES ASSUME LifeIInv, LockedIInv, DLP!LoadIInv, [LifeNext]_lifeVars
              PROVE  LifeIInv'
  OBVIOUS
<1>1. CASE UNCHANGED lifeVars
  BY <1>1
     DEF lifeVars, allVars, vars, callVars, loadVars, LifeIInv, MadeTypes, CallerIsCareful,
         LiveIsOwned, SlotIsMade, Live, Dead
<1>2. CASE LifeNext
  BY <1>2, LoadKeepsInv, LoadStepKeepsInv, MakeTracerKeepsInv, HandOverKeepsInv,
     UnloadKeepsInv, SlotStepKeepsInv DEF LifeNext
<1>. QED
  BY <1>1, <1>2

LEMMA LifeInvariant == LifeSpec => [](LifeIInv /\ LockedIInv /\ DLP!LoadIInv)
BY LifeInvInitially, LifeInvStep, PartsInvariant, PTL DEF LifeSpec

-----------------------------------------------------------------------------
\* The types hold in the composition.
THEOREM LifeTypeCorrect == LifeSpec => []LifeTypeOK
<1>1. LifeIInv /\ LockedIInv /\ DLP!LoadIInv => LifeTypeOK
  BY SameLoad DEF LifeIInv, MadeTypes, LockedIInv, DLP!LoadIInv, LifeTypeOK
<1>. QED
  BY <1>1, LifeInvariant, PTL

\* The code of a tracer that a thread holds, installs or destroys, or will
\* find in the slot, is in memory.
THEOREM UsedCodeStaysLoaded == LifeSpec => []UsedCodeIsLoaded
<1>1. LifeIInv /\ LockedIInv /\ DLP!LoadIInv => UsedCodeIsLoaded
  <2>. SUFFICES ASSUME LifeIInv, LockedIInv, DLP!LoadIInv, NEW t \in Tracers, Used(t)
                PROVE  made[t] # None /\ refs[made[t].lib] > 0
    BY DEF UsedCodeIsLoaded
  <2>1. Live(t)
    <3>1. CASE \E th \in Threads : pc[th] # "idle" /\ tracer[th] = t
      BY <3>1 DEF Live, LifeIInv, SlotIsMade, LockedIInv, NewTracerAlive
    <3>2. CASE global_tracer = t /\ \A th \in Threads : pc[th] # "assign"
      BY <3>2 DEF Live, LifeIInv, SlotIsMade, LockedIInv, Lives
    <3>3. CASE \E th \in Threads : held[th] = t
      <4>1. PICK th \in Threads : th \in readers /\ global_tracer = t
        BY <3>3 DEF LockedIInv, HeldIsCurrent
      <4>2. \A o \in Threads : pc[o] = "idle"
        BY <4>1, GlobalTracerAssumption DEF LockedIInv, Exclusion
      <4>. QED
        BY <3>2, <4>1, <4>2
    <3>. QED
      BY <3>1, <3>2, <3>3 DEF Used
  <2>2. made[t] \in [h : Handles, lib : Libs]
    BY <2>1 DEF Live, LifeIInv, MadeTypes
  <2>3. handle[made[t].h].lib_handle = made[t].lib
    BY <2>1 DEF LifeIInv, LiveIsOwned
  <2>4. refs[handle[made[t].h].lib_handle] > 0
    BY <2>2, <2>3, LoadAssumption, DLP!OwnedIsLoaded
  <2>. QED
    BY <2>1, <2>3, <2>4 DEF Live
<1>. QED
  BY <1>1, LifeInvariant, PTL

\* The promise is the same to both instances.
LEMMA SameHandles ==
  /\ DL!Interface!Init <=> DLP!Interface!Init
  /\ [DL!Interface!Next]_DL!Interface!vars <=> [DLP!Interface!Next]_DLP!Interface!vars
<1>1. DL!Interface!Init <=> DLP!Interface!Init
  BY DEF DL!Interface!Init, DL!Interface!Both, DL!Interface!Nothing,
         DLP!Interface!Init, DLP!Interface!Both, DLP!Interface!Nothing, DL!Seen,
         DL!Told, DL!Fills, DL!At, DLP!Seen, DLP!Told, DLP!Fills, DLP!At
<1>2. DL!Interface!Next <=> DLP!Interface!Next
  BY DEF DL!Interface!Next, DL!Interface!Load, DL!Interface!Succeed,
         DL!Interface!Fail, DL!Interface!Refuse, DL!Interface!Tell,
         DL!Interface!GoOn, DL!Interface!Destroy, DL!Interface!Settled,
         DL!Interface!Nothing, DL!Interface!Both, DL!Interface!Errors,
         DLP!Interface!Next, DLP!Interface!Load, DLP!Interface!Succeed,
         DLP!Interface!Fail, DLP!Interface!Refuse, DLP!Interface!Tell,
         DLP!Interface!GoOn, DLP!Interface!Destroy, DLP!Interface!Settled,
         DLP!Interface!Nothing, DLP!Interface!Both, DLP!Interface!Errors, DL!Seen,
         DL!Told, DL!Fills, DL!At, DLP!Seen, DLP!Told, DLP!Fills, DLP!At
<1>3. UNCHANGED DL!Interface!vars <=> UNCHANGED DLP!Interface!vars
  BY DEF DL!Interface!vars, DLP!Interface!vars, DL!Seen, DL!Told, DL!Fills, DL!At,
         DLP!Seen, DLP!Told, DLP!Fills, DLP!At
<1>. QED
  BY <1>1, <1>2, <1>3

\* To the owner of a handle a load is one step in the composition too.
THEOREM LifecycleLoadsAtomically == LifeSpec => LoadsAreOneStep
<1>1. DLP!Spec => DLP!ImplementsHandles
  BY LoadAssumption, DLP!LoadsAreAtomic
<1>. QED
  BY <1>1, LifecycleLoads, SameHandles, PTL
     DEF LoadsAreOneStep, DL!ImplementsHandles, DLP!ImplementsHandles,
         DL!Interface!Spec, DLP!Interface!Spec
=============================================================================
