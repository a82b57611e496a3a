-------------------------- MODULE ReentrantDestroy -------------------------
(***************************************************************************)
(* opentracing_init_global_tracer() and the callback it makes: destroy is  *)
(* a vendor's function, and what runs inside it may use the two functions  *)
(* of the global tracer too, say to flush through opentracing_global_      *)
(* tracer(), or to put the no-op tracer back.  The slot still holds the    *)
(* tracer whose destroy is running, so an installation from inside it      *)
(* calls that destroy once more.                                           *)
(*                                                                         *)
(* One thread; its calls are a stack.  A destroy that is entered again     *)
(* while it runs returns at once (another would end its tracer twice).     *)
(* Callers install no tracer whose life has ended; they may install one    *)
(* that a call in progress is installing already.  Every call but the      *)
(* innermost is inside the destroy of a tracer of its own, which bounds    *)
(* the depth of the stack.                                                 *)
(***************************************************************************)
EXTENDS SequencesExt

CONSTANTS Tracers,    \* vendor tracers
          Noop        \* noop_tracer_singleton

Instances == Tracers \cup {Noop}

VARIABLES
  global_tracer,   \* the slot
  calls,           \* the calls in progress, the innermost last
  life,            \* "alive", "dying" while its destroy runs, then "dead"
  installed,       \* history: tracers that were put into the slot
  nested,          \* history: those last put there from inside a destroy
  repeated         \* history: those passed to a call while one in progress
                   \* was installing them, until it ends or, for the one it
                   \* leaves in the slot, until the next one does

vars == <<global_tracer, calls, life, installed, nested, repeated>>

At(label) == calls # <<>> /\ Last(calls).pc = label

\* The application's code runs, or that of a vendor's destroy: what comes
\* next is not one of the steps of opentracing_init_global_tracer.
UserCode == calls = <<>> \/ At("destroying")

Goto(label) == [calls EXCEPT ![Len(calls)].pc = label]

Init ==
  /\ global_tracer = Noop
  /\ calls = <<>>
  /\ life = [t \in Instances |-> "alive"]
  /\ installed = {Noop}
  /\ nested = {}
  /\ repeated = {}

\* opentracing_init_global_tracer(t), from the application or a destroy
InitCall(t) ==
  /\ UserCode
  /\ life[t] # "dead"
  /\ calls' = Append(calls, [tracer |-> t, pc |-> "compare", old |-> t])
  /\ repeated' = IF \E i \in DOMAIN calls : calls[i].tracer = t
                 THEN repeated \cup {t} ELSE repeated
  /\ UNCHANGED <<global_tracer, life, installed, nested>>

\* Mutant: the comparison has been left out.
InitCompare_NoCheck ==
  /\ At("compare")
  /\ calls' = Goto("destroy")
  /\ UNCHANGED <<global_tracer, life, installed, nested, repeated>>

\* if (global_tracer == tracer) return;
InitCompare ==
  /\ At("compare")
  /\ calls' = IF global_tracer = Last(calls).tracer THEN Front(calls) ELSE Goto("destroy")
  /\ UNCHANGED <<global_tracer, life, installed, nested, repeated>>

\* Mutant: the slot is cleared while the old tracer's destroy runs.
InitDestroyOld_ClearsSlot ==
  /\ At("destroy")
  /\ IF global_tracer = Noop \/ life[global_tracer] # "alive"
     THEN calls' = Goto("assign") /\ UNCHANGED <<global_tracer, life>>
     ELSE /\ calls' = [Goto("destroying") EXCEPT ![Len(calls)].old = global_tracer]
          /\ life' = [life EXCEPT ![global_tracer] = "dying"]
          /\ global_tracer' = "NULL"
  /\ UNCHANGED <<installed, nested, repeated>>

\* global_tracer->destroy(global_tracer): the no-op tracer's does nothing, nor
\* does a vendor's that is running already.  (What it does to a tracer whose
\* life has ended is undefined; here it returns.)
InitDestroyOld ==
  /\ At("destroy")
  /\ IF global_tracer = Noop \/ life[global_tracer] # "alive"
     THEN calls' = Goto("assign") /\ UNCHANGED life
     ELSE /\ calls' = [Goto("destroying") EXCEPT ![Len(calls)].old = global_tracer]
          /\ life' = [life EXCEPT ![global_tracer] = "dying"]
  /\ UNCHANGED <<global_tracer, installed, nested, repeated>>

\* Mutant: the tracer destroyed is the one in the slot when destroy returns.
DestroyReturns_EndsCurrent ==
  /\ At("destroying")
  /\ calls' = Goto("assign")
  /\ life' = [life EXCEPT ![global_tracer] = IF global_tracer = Noop THEN @ ELSE "dead"]
  /\ UNCHANGED <<global_tracer, installed, nested, repeated>>

\* The vendor's destroy returns: the life of the tracer it was given ends.
DestroyReturns ==
  /\ At("destroying")
  /\ calls' = Goto("assign")
  /\ life' = [life EXCEPT ![Last(calls).old] = "dead"]
  /\ UNCHANGED <<global_tracer, installed, nested, repeated>>

\* Mutant: an installation made from inside the destroy is kept.
InitAssign_KeepsNested ==
  LET t == IF global_tracer \in nested THEN global_tracer ELSE Last(calls).tracer IN
  /\ At("assign")
  /\ global_tracer' = t
  /\ installed' = installed \cup {t}
  /\ nested' = IF Len(calls) > 1 THEN nested \cup {t} ELSE nested \ {t}
  /\ repeated' = IF Len(calls) > 1 THEN repeated ELSE repeated \cap {t}
  /\ calls' = Front(calls)
  /\ UNCHANGED life

\* global_tracer = tracer; whatever has been put there meanwhile
InitAssign ==
  LET t == Last(calls).tracer IN
  /\ At("assign")
  /\ global_tracer' = t
  /\ installed' = installed \cup {t}
  /\ nested' = IF Len(calls) > 1 THEN nested \cup {t} ELSE nested \ {t}
  /\ repeated' = IF Len(calls) > 1 THEN repeated ELSE repeated \cap {t}
  /\ calls' = Front(calls)
  /\ UNCHANGED life

Next ==
  \/ \E t \in Instances : InitCall(t)
  \/ InitCompare
  \/ InitDestroyOld
  \/ DestroyReturns
  \/ InitAssign

Spec == Init /\ [][Next]_vars

\* The code runs on, and a vendor's destroy returns in the end, after
\* finitely many calls of its own.
FairSpec ==
  /\ Spec
  /\ WF_vars(InitCompare \/ InitDestroyOld \/ InitAssign)
  /\ SF_vars(DestroyReturns)

-----------------------------------------------------------------------------
\* The types; the slot is never NULL (the assertion at tracer.c:235), inside a
\* destroy either.
TypeOK ==
  /\ global_tracer \in Instances
  /\ calls \in Seq([tracer : Instances, old : Instances,
                    pc : {"compare", "destroy", "destroying", "assign"}])
  /\ life \in [Instances -> {"alive", "dying", "dead"}]
  /\ nested \subseteq installed /\ installed \subseteq Instances
  /\ repeated \subseteq Instances

\* Whoever calls opentracing_global_tracer(), inside a destroy too, gets a
\* tracer whose life has not ended, and destroy is never called on one whose
\* life has: installations from inside a destroy, at whatever depth, do not
\* make the outer one put a destroyed tracer into the slot.  There is one
\* exception: a destroy that installs the very tracer an outer call is about
\* to assign may replace it too, and the outer call assigns it all the same.
SlotIsUsable ==
  UserCode \/ At("destroy") =>
    life[global_tracer] # "dead" \/ global_tracer \in repeated

\* A tracer that was installed and is not current has been destroyed, unless
\* it was installed from inside a destroy: the outer installation overwrites
\* it and nothing will destroy it.  An installation by the application itself
\* is never lost, whatever the destroy it causes installs.
LostOnlyByNesting ==
  calls = <<>> =>
    \A t \in installed \ {Noop, global_tracer} : life[t] = "dead" \/ t \in nested

\* The application's own call keeps its argument through whatever the destroy
\* does, and when it ends that tracer is in the slot.
OutermostIsAssigned ==
  [][calls # <<>> =>
       IF calls' = <<>> THEN global_tracer' = calls[1].tracer
                        ELSE calls'[1].tracer = calls[1].tracer]_vars

\* Installing from inside a destroy ends, however the vendors' tracers set
\* each other off, and the application's own call has its way.
OutermostWins ==
  \A t \in Instances :
    (calls # <<>> /\ calls[1].tracer = t) ~> (calls = <<>> /\ global_tracer = t)
=============================================================================
