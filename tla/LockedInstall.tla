---------------------------- MODULE LockedInstall ---------------------------
(***************************************************************************)
(* The global tracer replaced while the program runs.  tracer.h only says  *)
(* "ideally, only called once", and test/tracer_test.c installs three      *)
(* times.  The code has no lock, so the application brings one: a          *)
(* reader-writer lock held exclusively around                              *)
(* opentracing_init_global_tracer() and shared for as long as a vendor     *)
(* tracer got from opentracing_global_tracer() is used.  Under that use    *)
(* the slot implements TracerSlot.                                         *)
(***************************************************************************)
EXTENDS GlobalTracer

VARIABLES
  writer,   \* the thread that holds the lock exclusively, or None
  readers   \* the threads that hold it shared

lockVars == <<writer, readers>>
allVars == <<vars, lockVars>>

LockedInit ==
  /\ Init
  /\ writer = None
  /\ readers = {}

\* Acquiring the lock makes every write of earlier holders visible.
WriteLock(th) ==
  /\ writer = None
  /\ readers = {}
  /\ writer' = th
  /\ stale' = [stale EXCEPT ![th] = {}]
  /\ UNCHANGED <<global_tracer, callVars, destroys, installed, held, readers>>

WriteUnlock(th) ==
  /\ writer = th
  /\ pc[th] = "idle"
  /\ writer' = None
  /\ UNCHANGED <<vars, readers>>

ReadLock(th) ==
  /\ writer = None
  /\ th \notin readers
  /\ readers' = readers \cup {th}
  /\ stale' = [stale EXCEPT ![th] = {}]
  /\ UNCHANGED <<global_tracer, callVars, destroys, installed, held, writer>>

\* A vendor tracer is given back before the shared lock is.  The no-op tracer
\* may be kept: test/tracer_test.c holds it across two installations.
ReadUnlock(th) ==
  /\ th \in readers
  /\ held[th] \notin Tracers
  /\ readers' = readers \ {th}
  /\ UNCHANGED <<vars, writer>>

LockedCall(th, t) == writer = th /\ InitCall(th, t) /\ UNCHANGED lockVars

LockedGet(th) == th \in readers /\ GetGlobalTracer(th) /\ UNCHANGED lockVars

LockedNext ==
  \E th \in Threads :
    \/ WriteLock(th)
    \/ WriteUnlock(th)
    \/ ReadLock(th)
    \/ ReadUnlock(th)
    \/ \E t \in Instances : LockedCall(th, t)
    \/ InitStep(th) /\ UNCHANGED lockVars
    \/ LockedGet(th)
    \/ Release(th) /\ UNCHANGED lockVars

\* Threads are scheduled and a vendor's destroy returns, so a call that was
\* made runs to its end.  Nobody has to take or give back the lock.
LockedFairness ==
  \A th \in Threads : WF_allVars(InitStep(th) /\ UNCHANGED lockVars)

LockedSpec == LockedInit /\ [][LockedNext]_allVars
FairLockedSpec == LockedSpec /\ LockedFairness

-----------------------------------------------------------------------------
LockedTypeOK ==
  /\ TypeOK
  /\ writer \in Threads \cup {None}
  /\ readers \subseteq Threads

\* The tracer in the slot whose destroy has been called but that is not yet
\* overwritten, while a call is between the two.
Replaced == {global_tracer : th \in {o \in Threads : pc[o] = "assign"}}

\* A thread never holds a tracer whose destroy has been called.
NoUseAfterDestroy ==
  \A th \in Threads : held[th] # None => ~Dead(held[th])

\* Destroy is never called on a tracer twice, however often and by whichever
\* threads the global tracer is replaced; and between calls every vendor
\* tracer that was ever installed is the current one, which is alive, or has
\* been destroyed: replacing a tracer loses none.
ReplacedDestroyedOnce ==
  /\ \A t \in Instances : destroys[t] <= 1
  /\ (\A th \in Threads : pc[th] = "idle") =>
       \A t \in installed : destroys[t] = IF t \in {Noop, global_tracer} THEN 0 ELSE 1

\* The slot with its three-step installation implements the one-step slot:
\* the installation takes place at the assignment.
Slot == INSTANCE TracerSlot WITH
          current <- global_tracer,
          retired <- {t \in Tracers : Dead(t)} \ Replaced

ImplementsSlot == Slot!Spec

\* A call that has been made puts its argument into the slot.
CallTakesEffect ==
  \A th \in Threads, t \in Instances :
    (pc[th] = "compare" /\ tracer[th] = t) ~> (pc[th] = "idle" /\ global_tracer = t)
=============================================================================
