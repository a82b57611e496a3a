----------------------------- MODULE Lifecycle ------------------------------
(***************************************************************************)
(* A vendor tracer from dlopen to dlclose: a library is loaded into a      *)
(* handle (DynamicLoad), its factory makes tracers, one of them becomes    *)
(* the global tracer and is replaced by another (LockedInstall), and the   *)
(* handle is destroyed.  A tracer's functions, its destroy among them, are *)
(* code of its library.  Neither part of the repository knows the other,   *)
(* and dynamic_load.h leaves it to the caller "to avoid undefined          *)
(* behavior" that no tracer of a library outlives its handle: here the     *)
(* caller waits for destroy to have been called on every tracer it made    *)
(* through the handle it destroys.                                         *)
(***************************************************************************)
EXTENDS LockedInstall, FiniteSets

CONSTANTS Handles,   \* opentracing_library_handle objects, all zeroed first
          Libs,      \* tracing libraries, which keep the hook's contract
          Garbage    \* what an uninitialised member would hold

ASSUME LifecycleAssumption ==
  /\ None \notin Libs \cup Handles
  /\ Garbage \notin Libs \cup {None}
  /\ IsFiniteSet(Handles)

VARIABLES
  weak, refs, pending, handle, call, lost,   \* those of DynamicLoad
  made,        \* the handle and the library t was made through, or None
  discarded    \* tracers destroyed by their owner without being installed

DL == INSTANCE DynamicLoad WITH
        Trusted <- Libs, Uninitialised <- {}, MaxLost <- 0

loadVars == <<weak, refs, pending, handle, call, lost>>
lifeVars == <<allVars, loadVars, made, discarded>>

\* t can be used: it has been made and its destroy has not been called.
Live(t) == made[t] # None /\ ~Dead(t) /\ t \notin discarded

\* th is in neither part's functions.
Outside(th) == pc[th] = "idle" /\ DL!At(th, "idle")

LifeInit ==
  /\ LockedInit
  /\ DL!Init
  /\ made = [t \in Tracers |-> None]
  /\ discarded = {}

\* opentracing_dynamically_load_tracing_library(lib, &h, NULL, 0)
Load(th, lib, h) ==
  /\ Outside(th)
  /\ DL!LoadCall(th, lib, h, FALSE)
  /\ UNCHANGED <<allVars, made, discarded>>

LoadStep(th) ==
  /\ DL!LoadStep(th)
  /\ UNCHANGED <<allVars, made, discarded>>

\* (*h.factory)(config, &t, error_buffer, error_buffer_length) returns true:
\* a tracer has been made.  When it returns false there is none.
MakeTracer(th, h, t) ==
  /\ Outside(th)
  /\ DL!Free(h)
  /\ handle[h].factory # None
  /\ made[t] = None
  /\ made' = [made EXCEPT ![t] = [h |-> h, lib |-> handle[h].factory]]
  /\ UNCHANGED <<allVars, loadVars, discarded>>

\* opentracing_init_global_tracer(t), t one's own tracer or the no-op one
Install(th, t) ==
  /\ DL!At(th, "idle")
  /\ t \in Tracers => Live(t)
  /\ LockedCall(th, t)
  /\ UNCHANGED <<loadVars, made, discarded>>

\* A tracer that is not given to the slot is destroyed by its owner.
Discard(th, t) ==
  /\ Outside(th)
  /\ Live(t)
  /\ t \notin installed
  /\ \A o \in Threads : pc[o] = "idle" \/ tracer[o] # t
  /\ discarded' = discarded \cup {t}
  /\ UNCHANGED <<allVars, loadVars, made>>

\* opentracing_library_handle_destroy(&h), "until all tracers loaded from
\* this library are also destroyed" kept by the caller
Unload(th, h) ==
  /\ Outside(th)
  /\ \A t \in Tracers : Live(t) => made[t].h # h
  /\ DL!DestroyHandle(th, h)
  /\ UNCHANGED <<allVars, made, discarded>>

\* Everything else that threads do with the lock and the slot.
SlotStep(th) ==
  /\ DL!At(th, "idle")
  /\ \/ WriteLock(th)
     \/ WriteUnlock(th)
     \/ ReadLock(th)
     \/ ReadUnlock(th)
     \/ InitStep(th) /\ UNCHANGED lockVars
     \/ LockedGet(th)
     \/ Release(th) /\ UNCHANGED lockVars
  /\ UNCHANGED <<loadVars, made, discarded>>

LifeNext ==
  \E th \in Threads :
    \/ \E lib \in Libs, h \in Handles : Load(th, lib, h)
    \/ LoadStep(th)
    \/ \E h \in Handles, t \in Tracers : MakeTracer(th, h, t)
    \/ \E t \in Instances : Install(th, t)
    \/ \E t \in Tracers : Discard(th, t)
    \/ \E h \in Handles : Unload(th, h)
    \/ SlotStep(th)

LifeSpec == LifeInit /\ [][LifeNext]_lifeVars

-----------------------------------------------------------------------------
LifeTypeOK ==
  /\ LockedTypeOK
  /\ DL!TypeOK
  /\ made \in [Tracers -> [h : Handles, lib : Libs] \cup {None}]
  /\ discarded \subseteq Tracers

\* A thread runs t's code now or may do so next: it holds t, is about to call
\* its destroy, is installing it, or will find it in the slot.
Used(t) ==
  \/ \E th \in Threads : held[th] = t
  \/ \E th \in Threads : pc[th] # "idle" /\ tracer[th] = t
  \/ global_tracer = t /\ \A th \in Threads : pc[th] # "assign"

\* The code of a tracer in use is in memory, although handles of the same
\* library come and go, loads of it fail and are cleaned up, and the tracer
\* may be replaced and destroyed by a thread that did not load it.
UsedCodeIsLoaded ==
  \A t \in Tracers : Used(t) => made[t] # None /\ refs[made[t].lib] > 0

\* To the owner of a handle a load stays one step, of the outcome it is told,
\* while threads install, use and destroy tracers of the library between the
\* steps of it.
LoadsAreOneStep == DL!ImplementsHandles
=============================================================================
