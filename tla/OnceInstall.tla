----------------------------- MODULE OnceInstall ----------------------------
(***************************************************************************)
(* The use tracer.h recommends: "Ideally, only called once.  Good          *)
(* candidate for use of pthread_once."  Every thread that needs the tracer *)
(* may call pthread_once with a routine that makes a vendor tracer and     *)
(* installs it (snippets/main_snippet.c); the first call runs the routine  *)
(* and the others wait for it.  opentracing_global_tracer() may be called  *)
(* at any time, by threads that have not been through pthread_once too.    *)
(***************************************************************************)
EXTENDS GlobalTracer

VARIABLES
  once,     \* the pthread_once_t: "new", "running" or "done"
  runner,   \* the thread that runs the routine
  passed    \* threads whose call of pthread_once has returned

onceVars == <<once, runner, passed>>
allVars == <<vars, onceVars>>

OnceInit ==
  /\ Init
  /\ once = "new"
  /\ runner = None
  /\ passed = {}

\* The first pthread_once runs the routine: a new tracer t is installed.
OnceRun(th, t) ==
  /\ once = "new"
  /\ once' = "running"
  /\ runner' = th
  /\ InitCall(th, t)
  /\ UNCHANGED passed

\* The routine has returned.
OnceFinish(th) ==
  /\ once = "running"
  /\ runner = th
  /\ pc[th] = "idle"
  /\ once' = "done"
  /\ passed' = passed \cup {th}
  /\ UNCHANGED <<vars, runner>>

\* A later pthread_once returns when the routine is done, and its caller
\* then sees everything the routine wrote.
OnceSkip(th) ==
  /\ once = "done"
  /\ th \notin passed
  /\ passed' = passed \cup {th}
  /\ stale' = [stale EXCEPT ![th] = {}]
  /\ UNCHANGED <<global_tracer, callVars, destroys, installed, held, once, runner>>

OnceNext ==
  \E th \in Threads :
    \/ \E t \in Tracers : OnceRun(th, t)
    \/ OnceFinish(th)
    \/ OnceSkip(th)
    \/ InitStep(th) /\ UNCHANGED onceVars
    \/ GetGlobalTracer(th) /\ UNCHANGED onceVars
    \/ Release(th) /\ UNCHANGED onceVars

\* Threads are scheduled: a routine that was started runs on to its end.
OnceFairness ==
  \A th \in Threads :
    WF_allVars((InitStep(th) /\ UNCHANGED onceVars) \/ OnceFinish(th))

OnceSpec == OnceInit /\ [][OnceNext]_allVars
FairOnceSpec == OnceSpec /\ OnceFairness

-----------------------------------------------------------------------------
OnceTypeOK ==
  /\ TypeOK
  /\ once \in {"new", "running", "done"}
  /\ runner \in Threads \cup {None}
  /\ passed \subseteq Threads

\* No thread ever holds a tracer whose destroy has been called, whenever it
\* fetched the pointer and however long it keeps it: the only tracer that is
\* ever replaced is the no-op one, and noop_destroy leaves it usable.
NoUseAfterDestroy ==
  \A th \in Threads : held[th] # None => ~Dead(held[th])

\* A thread that has been through pthread_once reads the installed tracer
\* and nothing else, although the slot has no synchronisation of its own.
PassedReadsInstalled ==
  \A th \in passed : Readable(th) \subseteq Tracers

\* The slot is written once: after the no-op tracer it holds one vendor
\* tracer for good, whichever threads race to install theirs.
InstalledForGood == [][global_tracer = Noop]_global_tracer

\* Once one thread has started the routine, pthread_once comes to be done
\* and the slot then holds the tracer that routine made.
RoutineTakesEffect ==
  once = "running" ~> (once = "done" /\ global_tracer = tracer[runner])
=============================================================================
