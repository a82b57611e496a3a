-------------------------- MODULE SpanClientsProofs -------------------------
(***************************************************************************)
(* The global tracer installed inside pthread_once (OnceInstall), and the  *)
(* clients of the snippets, which use it so: what the first part proves of *)
(* OnceInstall holds of them too, for any threads, tracers and nesting.    *)
(***************************************************************************)
EXTENDS SpanClients, GlobalTracerProofs, SequenceTheorems

-----------------------------------------------------------------------------
(***************************************************************************)
(* OnceInstall: no thread ever uses a destroyed tracer, the slot is        *)
(* written once, and a thread that has been through pthread_once reads the *)
(* installed tracer.  The reason is that the one tracer that is ever       *)
(* replaced is the no-op one, whose destroy does nothing, and that the     *)
(* routine's thread is the only one inside opentracing_init_global_tracer. *)
(***************************************************************************)

\* The only value of the slot that is ever overwritten is the no-op tracer.
StaleIsNoop == \A th \in Threads : stale[th] \subseteq {Noop}

NothingDestroyed == \A t \in Instances : ~Dead(t)

\* Where the routine is, and what that says of the slot.
RoutinePhase ==
  /\ once = "new" =>
       global_tracer = Noop /\ \A th \in Threads : pc[th] = "idle"
  /\ once # "new" =>
       /\ runner \in Threads
       /\ tracer[runner] \in Tracers
       /\ \A th \in Threads \ {runner} : pc[th] = "idle"
       /\ pc[runner] # "idle" => global_tracer = Noop
       /\ pc[runner] = "idle" => global_tracer = tracer[runner] /\ stale[runner] = {}
  /\ once = "done" => pc[runner] = "idle"

PassedAreSynchronised ==
  \A th \in passed : once = "done" /\ stale[th] = {}

\* The inductive invariant.
OnceIInv ==
  /\ OnceTypeOK
  /\ StaleIsNoop
  /\ NothingDestroyed
  /\ RoutinePhase
  /\ PassedAreSynchronised

\* The invariant holds at the start.
LEMMA OnceInvInitially == OnceInit => OnceIInv
BY GlobalTracerAssumption
   DEF OnceInit, Init, OnceIInv, OnceTypeOK, TypeOK, Instances, StaleIsNoop,
       NothingDestroyed, RoutinePhase, PassedAreSynchronised, Dead

-----------------------------------------------------------------------------
(* Each step preserves the invariant. *)

\* Starting the routine preserves it.
LEMMA OnceRunKeepsInv ==
  ASSUME OnceIInv, NEW th \in Threads, NEW t \in Tracers, OnceRun(th, t)
  PROVE  OnceIInv'
<1>. USE DEF OnceIInv
<1>1. TypeOK'
  BY CallStepKeepsType DEF OnceTypeOK, OnceRun, Instances
<1>2. OnceTypeOK'
  BY <1>1 DEF OnceTypeOK, OnceRun
<1>3. RoutinePhase'
  BY GlobalTracerAssumption
     DEF OnceRun, InitCall, RoutinePhase, OnceTypeOK, TypeOK, Instances
<1>. QED
  BY <1>2, <1>3
     DEF OnceRun, InitCall, StaleIsNoop, NothingDestroyed, PassedAreSynchronised, Dead

\* A step of the installation inside the routine preserves it.
LEMMA RoutineStepKeepsInv ==
  ASSUME OnceIInv, NEW th \in Threads, InitStep(th), UNCHANGED onceVars
  PROVE  OnceIInv'
<1>. USE DEF OnceIInv
<1>1. OnceTypeOK'
  BY InitStepKeepsType DEF OnceTypeOK, onceVars
<1>2. pc[th] # "idle"
  BY DEF InitStep, InitCompare, InitDestroyOld, InitAssign
<1>3. once = "running" /\ th = runner /\ global_tracer = Noop /\ tracer[th] \in Tracers
  BY <1>2 DEF RoutinePhase, OnceTypeOK
<1>4. Readable(th) = {Noop}
  BY <1>3 DEF Readable, StaleIsNoop
<1>5. passed = {}
  BY <1>3 DEF PassedAreSynchronised, OnceTypeOK
<1>6. CASE InitCompare(th)
  <2>1. pc' = [pc EXCEPT ![th] = "destroy"]
    BY <1>3, <1>4, <1>6, GlobalTracerAssumption DEF InitCompare
  <2>2. StaleIsNoop'
    BY <1>6 DEF InitCompare, ViewAfterReading, StaleIsNoop, OnceTypeOK, TypeOK
  <2>. QED
    BY <1>1, <1>3, <1>5, <1>6, <2>1, <2>2
       DEF InitCompare, RoutinePhase, NothingDestroyed, PassedAreSynchronised, Dead,
           onceVars, OnceTypeOK, TypeOK
<1>7. CASE InitDestroyOld(th)
  <2>1. destroys' = destroys
    BY <1>4, <1>7 DEF InitDestroyOld, RunDestroy
  <2>2. StaleIsNoop'
    BY <1>7 DEF InitDestroyOld, ViewAfterReading, StaleIsNoop, OnceTypeOK, TypeOK
  <2>. QED
    BY <1>1, <1>3, <1>5, <1>7, <2>1, <2>2
       DEF InitDestroyOld, RoutinePhase, NothingDestroyed, PassedAreSynchronised, Dead,
           onceVars, OnceTypeOK, TypeOK
<1>8. CASE InitAssign(th)
  <2>1. StaleIsNoop'
    BY <1>3, <1>8 DEF InitAssign, StaleIsNoop
  <2>2. RoutinePhase'
    BY <1>3, <1>8 DEF InitAssign, RoutinePhase, onceVars, OnceTypeOK, TypeOK
  <2>. QED
    BY <1>1, <1>5, <1>8, <2>1, <2>2
       DEF InitAssign, NothingDestroyed, PassedAreSynchronised, Dead, onceVars
<1>. QED
  BY <1>6, <1>7, <1>8 DEF InitStep

\* Returning from pthread_once preserves it.
LEMMA FinishOrSkipKeepsInv ==
  ASSUME OnceIInv, NEW th \in Threads, OnceFinish(th) \/ OnceSkip(th)
  PROVE  OnceIInv'
<1>. USE DEF OnceIInv
<1>1. CASE OnceFinish(th)
  BY <1>1, GlobalTracerAssumption
     DEF OnceFinish, OnceTypeOK, TypeOK, Instances, StaleIsNoop, NothingDestroyed,
         RoutinePhase, PassedAreSynchronised, Dead, vars, callVars
<1>2. CASE OnceSkip(th)
  <2>1. OnceTypeOK'
    BY <1>2 DEF OnceSkip, OnceTypeOK, TypeOK, Instances, callVars
  <2>. QED
    BY <1>2, <2>1
       DEF OnceSkip, OnceTypeOK, TypeOK, StaleIsNoop, NothingDestroyed,
           RoutinePhase, PassedAreSynchronised, Dead, callVars
<1>. QED
  BY <1>1, <1>2

\* Reading the slot and dropping the pointer preserve it.
LEMMA ReaderStepKeepsInv ==
  ASSUME OnceIInv, NEW th \in Threads, UNCHANGED onceVars,
         GetGlobalTracer(th) \/ Release(th)
  PROVE  OnceIInv'
<1>. USE DEF OnceIInv
<1>1. OnceTypeOK'
  BY CallStepKeepsType DEF OnceTypeOK, onceVars
<1>2. /\ UNCHANGED <<global_tracer, callVars, destroys>>
      /\ stale' = stale \/ stale' = [stale EXCEPT ![th] = {}]
  BY DEF GetGlobalTracer, Release, ViewAfterReading
<1>. QED
  BY <1>1, <1>2
     DEF OnceTypeOK, TypeOK, StaleIsNoop, NothingDestroyed, RoutinePhase,
         PassedAreSynchronised, Dead, callVars, onceVars

\* So every step preserves it.
LEMMA OnceInvIsInductive == OnceIInv /\ [OnceNext]_allVars => OnceIInv'
<1>. SUFFICES ASSUME OnceIInv, [OnceNext]_allVars PROVE OnceIInv'
  OBVIOUS
<1>1. CASE OnceNext
  BY <1>1, OnceRunKeepsInv, RoutineStepKeepsInv, FinishOrSkipKeepsInv, ReaderStepKeepsInv
     DEF OnceNext
<1>2. CASE UNCHANGED allVars
  BY <1>2
     DEF allVars, vars, callVars, onceVars, OnceIInv, OnceTypeOK, TypeOK, Instances,
         StaleIsNoop, NothingDestroyed, RoutinePhase, PassedAreSynchronised, Dead
<1>. QED
  BY <1>1, <1>2

\* The inductive invariant holds in every state of the program.
THEOREM OnceInvAlways == OnceSpec => []OnceIInv
BY OnceInvInitially, OnceInvIsInductive, PTL DEF OnceSpec

-----------------------------------------------------------------------------
\* With pthread_once around the installation the types are respected.
THEOREM OnceTypeCorrect == OnceSpec => []OnceTypeOK
<1>1. OnceIInv => OnceTypeOK
  BY DEF OnceIInv
<1>. QED
  BY <1>1, OnceInvAlways, PTL

\* With pthread_once around the installation no thread ever uses a destroyed
\* tracer, whenever it called opentracing_global_tracer and however long it
\* keeps the pointer.
THEOREM OnceNoUseAfterDestroy == OnceSpec => []NoUseAfterDestroy
<1>1. OnceIInv => NoUseAfterDestroy
  BY DEF OnceIInv, OnceTypeOK, TypeOK, NothingDestroyed, NoUseAfterDestroy
<1>. QED
  BY <1>1, OnceInvAlways, PTL

\* A thread whose pthread_once has returned reads the installed tracer from
\* the slot, and never the no-op tracer again.
THEOREM OncePassedReadsInstalled == OnceSpec => []PassedReadsInstalled
<1>1. OnceIInv => PassedReadsInstalled
  BY DEF OnceIInv, OnceTypeOK, PassedAreSynchronised, RoutinePhase,
         PassedReadsInstalled, Readable
<1>. QED
  BY <1>1, OnceInvAlways, PTL

\* The slot is written at most once.
THEOREM OnceInstalledForGood == OnceSpec => InstalledForGood
<1>1. OnceIInv /\ [OnceNext]_allVars => [global_tracer = Noop]_global_tracer
  <2>. SUFFICES ASSUME OnceIInv, [OnceNext]_allVars, global_tracer' # global_tracer
                PROVE  global_tracer = Noop
    OBVIOUS
  <2>1. PICK th \in Threads : InitAssign(th)
    BY DEF OnceNext, OnceRun, InitCall, OnceFinish, OnceSkip, InitStep, InitCompare,
           InitDestroyOld, GetGlobalTracer, Release, allVars, vars, callVars
  <2>. QED
    BY <2>1 DEF InitAssign, OnceIInv, OnceTypeOK, RoutinePhase
<1>. QED
  BY <1>1, OnceInvAlways, PTL DEF OnceSpec, InstalledForGood

-----------------------------------------------------------------------------
(* SpanClients: its clients use the slot as OnceInstall allows.            *)

\* A client's step is a read of the slot, a last use of the pointer, or
\* nothing that OnceInstall sees.
LEMMA ClientStepIsOnceStep ==
  ASSUME NEW th \in Threads, Client(th)
  PROVE  [OnceNext]_allVars
BY DEF Client, Enter, EnterChild, ParentContext, NewMap, Fetch, Start, InjectContext,
       ExtractContext, Finish, DestroySpan, OnceNext, allVars

\* So is a step of the installation.
LEMMA InstallStepIsOnceStep ==
  ASSUME NEW th \in Threads, Install(th)
  PROVE  OnceNext
BY DEF Install, OnceNext

\* Every behaviour of the clients is one of OnceInstall.
THEOREM ClientsImplementOnce == ClientSpec => ImplementsOnce
<1>1. ClientInit => OnceInit
  BY DEF ClientInit
<1>2. [ClientNext]_clientVars => [OnceNext]_allVars
  BY ClientStepIsOnceStep, InstallStepIsOnceStep DEF ClientNext, clientVars, allVars
<1>. QED
  BY <1>1, <1>2, PTL DEF ClientSpec, OnceSpec, ImplementsOnce

\* Every span of every client in progress belongs to a tracer that is alive.
THEOREM ClientSpansOfLiveTracers == ClientSpec => []SpansOfLiveTracers
<1>1. OnceIInv => SpansOfLiveTracers
  BY DEF OnceIInv, NothingDestroyed, SpansOfLiveTracers
<1>. QED
  BY <1>1, ClientsImplementOnce, OnceInvAlways, PTL DEF ImplementsOnce

-----------------------------------------------------------------------------
(* Sequences of frames. *)

LEMMA AppendFacts ==
  ASSUME NEW S, NEW s \in Seq(S), NEW e \in S
  PROVE  /\ Append(s, e) \in Seq(S) /\ Len(Append(s, e)) = Len(s) + 1
         /\ \A i \in 1..Len(s) : Append(s, e)[i] = s[i]
         /\ Append(s, e)[Len(s) + 1] = e
OBVIOUS

LEMMA FrontFacts ==
  ASSUME NEW S, NEW s \in Seq(S), s # <<>>
  PROVE  /\ Front(s) \in Seq(S) /\ Len(Front(s)) = Len(s) - 1
         /\ \A i \in 1..(Len(s) - 1) : Front(s)[i] = s[i]
<1>1. Len(s) \in Nat /\ Len(s) # 0 /\ \A i \in 1..Len(s) : s[i] \in S
  BY EmptySeq, LenProperties
<1>. DEFINE n == Len(s) - 1
<1>2. n \in Nat /\ n <= Len(s)
  BY <1>1
<1>3. \A i \in 1..n : s[i] \in S
  BY <1>1, <1>2
<1>4. /\ SubSeq(s, 1, n) \in Seq(S)
      /\ Len(SubSeq(s, 1, n)) = IF 1 <= n THEN n - 1 + 1 ELSE 0
      /\ \A i \in 1..(n - 1 + 1) : SubSeq(s, 1, n)[i] = s[1 + i - 1]
  BY <1>2, <1>3, SubSeqProperties
<1>. HIDE DEF n
<1>5. Len(SubSeq(s, 1, n)) = n /\ \A i \in 1..n : SubSeq(s, 1, n)[i] = s[i]
  BY <1>2, <1>4
<1>. QED
  BY <1>4, <1>5 DEF Front, n

LEMMA ExceptFacts ==
  ASSUME NEW S, NEW s \in Seq(S), s # <<>>, NEW e \in S
  PROVE  LET t == [s EXCEPT ![Len(s)] = e] IN
         /\ t \in Seq(S) /\ Len(t) = Len(s) /\ t[Len(s)] = e
         /\ \A i \in 1..(Len(s) - 1) : t[i] = s[i]
OBVIOUS

LEMMA NotEmpty ==
  ASSUME NEW s, Len(s) \in {1, 2} PROVE s # <<>>
<1>. SUFFICES ASSUME s = <<>> PROVE FALSE
  OBVIOUS
<1>1. Len(s) = 0
  BY EmptySeq
<1>. QED
  BY <1>1

LEMMA SmallRanges == 1..0 = {} /\ 1..1 = {1} /\ 1..2 = {1, 2}
OBVIOUS

-----------------------------------------------------------------------------
(* The inductive invariant of the clients. *)

FrameSet ==
  [fn : {"abc", "inject", "extract", "xyz"},
   span : Instances \cup {None, NullSpan}, at : Labels]

\* How a thread's calls nest, and when it has the pointer.
Nested(s, h) ==
  /\ Len(s) <= 2
  /\ Len(s) >= 1 => s[1].fn # "xyz"
  /\ Len(s) = 2 => s[2].fn = "xyz" /\ s[1].at = "work"
  /\ h # None <=> s # <<>> /\ s[Len(s)].at \in {"start", "inject", "extract"}

\* A vendor tracer that a thread has, or has a span of, is the current one,
\* and the thread can read nothing else.
Current(th, x) == x \in Tracers => global_tracer = x /\ stale[th] = {}

Pinned(th) ==
  /\ Current(th, held[th])
  /\ \A i \in 1..Len(frames[th]) : Current(th, frames[th][i].span)

\* What a thread makes within a vendor's span is that vendor's.
Unbroken(s, h) ==
  Len(s) = 2 /\ s[1].span \in Tracers =>
    /\ h \in {None, s[1].span}
    /\ s[2].span \in {None, NullSpan, s[1].span}

ClientIInv ==
  /\ OnceIInv
  /\ frames \in [Threads -> Seq(FrameSet)]
  /\ \A th \in Threads :
       Nested(frames[th], held[th]) /\ Pinned(th) /\ Unbroken(frames[th], held[th])

LEMMA ClientInvInitially == ClientInit => ClientIInv
<1>. SUFFICES ASSUME ClientInit PROVE ClientIInv
  OBVIOUS
<1>1. OnceIInv
  BY OnceInvInitially DEF ClientInit
<1>2. \A th \in Threads : frames[th] = <<>> /\ held[th] = None
  BY DEF ClientInit, OnceInit, Init
<1>3. frames \in [Threads -> Seq(FrameSet)]
  BY DEF ClientInit
<1>. QED
  BY <1>1, <1>2, <1>3, GlobalTracerAssumption
     DEF ClientIInv, Nested, Pinned, Current, Unbroken

\* A step of one client, which leaves the slot alone.
LEMMA ClientStepKeepsInv ==
  ASSUME ClientIInv, OnceIInv', NEW th \in Threads, NEW s \in Seq(FrameSet),
         frames' = [frames EXCEPT ![th] = s],
         global_tracer' = global_tracer,
         \A o \in Threads \ {th} : held'[o] = held[o] /\ stale'[o] = stale[o],
         Nested(s, held'[th]), Unbroken(s, held'[th]),
         Current(th, held[th])' ,
         \A i \in 1..Len(s) : s[i].span \in Tracers => global_tracer = s[i].span /\ stale'[th] = {}
  PROVE  ClientIInv'
<1>1. frames' \in [Threads -> Seq(FrameSet)]
  BY DEF ClientIInv
<1>2. frames'[th] = s /\ \A o \in Threads \ {th} : frames'[o] = frames[o]
  BY DEF ClientIInv
<1>3. \A o \in Threads \ {th} :
        (Nested(frames[o], held[o]) /\ Pinned(o) /\ Unbroken(frames[o], held[o]))'
  BY <1>2 DEF ClientIInv, Pinned, Current
<1>4. Pinned(th)'
  BY <1>2 DEF Pinned, Current
<1>. QED
  BY <1>1, <1>2, <1>3, <1>4 DEF ClientIInv

\* The last frame of a thread and what a step makes of its frames.
LEMMA Shapes ==
  ASSUME ClientIInv, NEW th \in Threads, frames[th] # <<>>
  PROVE  /\ frames[th] \in Seq(FrameSet) /\ Len(frames[th]) \in {1, 2}
         /\ Last(frames[th]) = frames[th][Len(frames[th])]
         /\ Last(frames[th]) \in FrameSet
<1>1. frames[th] \in Seq(FrameSet) /\ Len(frames[th]) <= 2
  BY DEF ClientIInv, Nested
<1>2. Len(frames[th]) \in Nat /\ Len(frames[th]) # 0
  BY <1>1, EmptySeq, LenProperties
<1>3. frames[th][Len(frames[th])] \in FrameSet
  BY <1>1, <1>2, ElementOfSeq
<1>4. Len(frames[th]) \in {1, 2}
  <2>. DEFINE n == Len(frames[th])
  <2>1. n \in Nat /\ n # 0 /\ n <= 2
    BY <1>1, <1>2
  <2>. HIDE DEF n
  <2>2. n \in {1, 2}
    BY <2>1
  <2>. QED
    BY <2>2 DEF n
<1>5. Last(frames[th]) = frames[th][Len(frames[th])]
  BY DEF Last
<1>. QED
  BY <1>1, <1>3, <1>4, <1>5

\* Only the last frame's label changes.
LEMMA GotoShape ==
  ASSUME ClientIInv, NEW th \in Threads, frames[th] # <<>>, NEW label \in Labels,
         Goto(th, label)
  PROVE  \E s \in Seq(FrameSet) :
           /\ frames' = [frames EXCEPT ![th] = s]
           /\ Len(s) = Len(frames[th])
           /\ s[Len(s)] = [Last(frames[th]) EXCEPT !.at = label]
           /\ Len(s) = 2 => s[1] = frames[th][1]
<1>. DEFINE old == frames[th]
            top == [Last(old) EXCEPT !.at = label]
            s == [old EXCEPT ![Len(old)] = top]
<1>1. /\ old \in Seq(FrameSet) /\ Len(old) \in {1, 2} /\ Last(old) = old[Len(old)]
      /\ Last(old) \in FrameSet
  BY Shapes
<1>2. top \in FrameSet
  BY <1>1 DEF FrameSet
<1>3. /\ s \in Seq(FrameSet) /\ Len(s) = Len(old) /\ s[Len(old)] = top
      /\ \A i \in 1..(Len(old) - 1) : s[i] = old[i]
  BY <1>1, <1>2, ExceptFacts
<1>4. frames' = [frames EXCEPT ![th] = s]
  BY <1>1 DEF Goto, ClientIInv
<1>5. Len(s) = 2 => s[1] = old[1]
  <2>. SUFFICES ASSUME Len(s) = 2 PROVE s[1] = old[1]
    OBVIOUS
  <2>1. Len(old) = 2
    BY <1>3
  <2>2. 1 \in 1..(Len(old) - 1)
    BY <2>1
  <2>. QED
    BY <1>3, <2>2
<1>. QED
  BY <1>3, <1>4, <1>5

\* The last frame is gone.
LEMMA LeaveShape ==
  ASSUME ClientIInv, NEW th \in Threads, frames[th] # <<>>, Leave(th)
  PROVE  \E s \in Seq(FrameSet) :
           /\ frames' = [frames EXCEPT ![th] = s]
           /\ \/ Len(frames[th]) = 1 /\ Len(s) = 0 /\ s = <<>>
              \/ Len(frames[th]) = 2 /\ Len(s) = 1 /\ s # <<>> /\ s[1] = frames[th][1]
<1>. DEFINE old == frames[th]
            s == Front(old)
<1>1. old \in Seq(FrameSet) /\ Len(old) \in {1, 2}
  BY Shapes
<1>2. /\ s \in Seq(FrameSet) /\ Len(s) = Len(old) - 1
      /\ \A i \in 1..(Len(old) - 1) : s[i] = old[i]
  BY <1>1, FrontFacts
<1>3. frames' = [frames EXCEPT ![th] = s]
  BY DEF Leave
<1>4. CASE Len(old) = 1
  <2>1. Len(s) = 0
    BY <1>2, <1>4
  <2>2. s = <<>>
    BY <1>2, <2>1, EmptySeq
  <2>. QED
    BY <1>2, <1>3, <1>4, <2>1, <2>2
<1>5. CASE Len(old) = 2
  <2>1. Len(s) = 1 /\ s[1] = old[1]
    BY <1>2, <1>5
  <2>2. s # <<>>
    BY <2>1, EmptySeq
  <2>. QED
    BY <1>2, <1>3, <1>5, <2>1, <2>2
<1>. QED
  BY <1>1, <1>4, <1>5

\* Only the label of the last frame changes, and the pointer stays with it.
LEMMA GotoKeepsInv ==
  ASSUME ClientIInv, OnceIInv', NEW th \in Threads, frames[th] # <<>>,
         NEW label \in Labels, Goto(th, label), UNCHANGED allVars,
         held[th] = None, label \notin {"start", "inject", "extract"}
  PROVE  ClientIInv'
<1>. PICK s \in Seq(FrameSet) :
           /\ frames' = [frames EXCEPT ![th] = s]
           /\ Len(s) = Len(frames[th])
           /\ s[Len(s)] = [Last(frames[th]) EXCEPT !.at = label]
           /\ Len(s) = 2 => s[1] = frames[th][1]
  BY GotoShape
<1>1. /\ Len(frames[th]) \in {1, 2} /\ Last(frames[th]) = frames[th][Len(frames[th])]
      /\ Last(frames[th]) \in FrameSet
  BY Shapes
<1>2. UNCHANGED <<global_tracer, stale, held>>
  BY DEF allVars, vars
<1>3. Nested(frames[th], held[th]) /\ Pinned(th) /\ Unbroken(frames[th], held[th])
  BY DEF ClientIInv
<1>4. /\ s[Len(s)].at = label /\ s[Len(s)].fn = Last(frames[th]).fn
      /\ s[Len(s)].span = Last(frames[th]).span
  BY <1>1 DEF FrameSet
<1>5. Nested(s, held'[th])
  BY <1>1, <1>2, <1>3, <1>4, EmptySeq DEF Nested
<1>6. Unbroken(s, held'[th])
  BY <1>1, <1>2, <1>3, <1>4 DEF Unbroken
<1>7. \A i \in 1..Len(s) : s[i].span = frames[th][i].span
  <2>1. CASE Len(s) = 1
    <3>1. s[1].span = frames[th][1].span
      BY <1>1, <1>4, <2>1
    <3>. QED
      BY <2>1, <3>1, SmallRanges
  <2>2. CASE Len(s) = 2
    <3>1. s[2].span = frames[th][2].span
      BY <1>1, <1>4, <2>2
    <3>2. s[1].span = frames[th][1].span
      BY <2>2
    <3>. QED
      BY <2>2, <3>1, <3>2, SmallRanges
  <2>. QED
    BY <1>1, <2>1, <2>2
<1>8. \A i \in 1..Len(s) : s[i].span \in Tracers => global_tracer = s[i].span /\ stale'[th] = {}
  BY <1>2, <1>3, <1>7 DEF Pinned, Current
<1>9. Current(th, held[th])'
  BY <1>2, <1>3 DEF Pinned, Current
<1>. QED
  BY <1>2, <1>5, <1>6, <1>8, <1>9, ClientStepKeepsInv

\* A call returns, with the pointer let go of.
LEMMA LeaveKeepsInv ==
  ASSUME ClientIInv, OnceIInv', NEW th \in Threads, frames[th] # <<>>, Leave(th),
         UNCHANGED <<global_tracer, stale>>, held' = [held EXCEPT ![th] = None]
  PROVE  ClientIInv'
<1>. PICK s \in Seq(FrameSet) :
           /\ frames' = [frames EXCEPT ![th] = s]
           /\ \/ Len(frames[th]) = 1 /\ Len(s) = 0 /\ s = <<>>
              \/ Len(frames[th]) = 2 /\ Len(s) = 1 /\ s # <<>> /\ s[1] = frames[th][1]
  BY LeaveShape
<1>1. held'[th] = None /\ \A o \in Threads \ {th} : held'[o] = held[o] /\ stale'[o] = stale[o]
  BY DEF ClientIInv, OnceIInv, OnceTypeOK, TypeOK
<1>2. Nested(frames[th], held[th]) /\ Pinned(th)
  BY DEF ClientIInv
<1>3. Nested(s, held'[th])
  BY <1>1, <1>2 DEF Nested
<1>4. Unbroken(s, held'[th])
  BY DEF Unbroken
<1>5. \A i \in 1..Len(s) : s[i].span \in Tracers => global_tracer = s[i].span /\ stale'[th] = {}
  BY <1>2 DEF Pinned, Current
<1>6. Current(th, held[th])'
  BY <1>1, GlobalTracerAssumption DEF Current
<1>. QED
  BY <1>1, <1>3, <1>4, <1>5, <1>6, ClientStepKeepsInv

\* Outside the calls of a tracer a thread has no pointer.
LEMMA NoPointer ==
  ASSUME ClientIInv, NEW th \in Threads, NEW label, At(th, label),
         label \notin {"start", "inject", "extract"}
  PROVE  held[th] = None /\ frames[th] # <<>>
BY Shapes DEF ClientIInv, Nested, At

\* Entering abc, inject or extract preserves it.
LEMMA EnterKeepsInv ==
  ASSUME ClientIInv, OnceIInv', NEW th \in Threads,
         NEW fn \in {"abc", "inject", "extract"}, Enter(th, fn)
  PROVE  ClientIInv'
<1>. DEFINE s == <<Frame(fn)>>
<1>1. frames[th] = <<>> /\ frames' = [frames EXCEPT ![th] = s]
      /\ UNCHANGED <<global_tracer, stale, held>>
  BY DEF Enter, allVars, vars
<1>2. Frame(fn) \in FrameSet /\ Frame(fn).span = None /\ Frame(fn).fn = fn
      /\ Frame(fn).at \in {"fetch", "map"}
  BY DEF Frame, FrameSet, Labels
<1>3. s \in Seq(FrameSet) /\ Len(s) = 1 /\ s[1] = Frame(fn) /\ s # <<>>
  BY <1>2
<1>4. held[th] = None
  BY <1>1 DEF ClientIInv, Nested
<1>. HIDE DEF s
<1>5. Nested(s, held'[th])
  BY <1>1, <1>2, <1>3, <1>4 DEF Nested
<1>6. Unbroken(s, held'[th])
  BY <1>3 DEF Unbroken
<1>7. \A i \in 1..Len(s) : s[i].span \notin Tracers
  BY <1>2, <1>3, SmallRanges, GlobalTracerAssumption
<1>8. Current(th, held[th])'
  BY <1>1, <1>4, GlobalTracerAssumption DEF Current
<1>. QED
  BY <1>1, <1>3, <1>5, <1>6, <1>7, <1>8, ClientStepKeepsInv

\* So does calling xyz within the span of abc.
LEMMA EnterChildKeepsInv ==
  ASSUME ClientIInv, OnceIInv', NEW th \in Threads, EnterChild(th)
  PROVE  ClientIInv'
<1>. DEFINE child == Frame("xyz")
            s == Append(frames[th], child)
<1>1. /\ frames' = [frames EXCEPT ![th] = s]
      /\ UNCHANGED <<global_tracer, stale, held>>
      /\ At(th, "work") /\ Last(frames[th]).fn = "abc"
  BY DEF EnterChild, allVars, vars, ClientIInv
<1>2. /\ child \in FrameSet /\ child.span = None /\ child.fn = "xyz"
      /\ child.at = "context"
  BY DEF Frame, FrameSet, Labels
<1>3. held[th] = None /\ frames[th] # <<>>
  BY <1>1, NoPointer
<1>4. /\ Nested(frames[th], held[th]) /\ Pinned(th)
      /\ frames[th] \in Seq(FrameSet) /\ Len(frames[th]) \in {1, 2}
      /\ Last(frames[th]) = frames[th][Len(frames[th])]
  BY <1>3, Shapes DEF ClientIInv
<1>5. Len(frames[th]) = 1 /\ frames[th][1].at = "work" /\ frames[th][1].fn # "xyz"
  BY <1>1, <1>4 DEF Nested, At
<1>6. /\ s \in Seq(FrameSet) /\ Len(s) = 2 /\ s # <<>>
      /\ s[1] = frames[th][1] /\ s[2] = child
  <2>1. /\ s \in Seq(FrameSet) /\ Len(s) = Len(frames[th]) + 1
        /\ \A i \in 1..Len(frames[th]) : s[i] = frames[th][i]
        /\ s[Len(frames[th]) + 1] = child
    BY <1>2, <1>4, AppendFacts
  <2>. HIDE DEF s, child
  <2>2. Len(s) = 2 /\ s[1] = frames[th][1] /\ s[2] = child
    BY <1>5, <2>1
  <2>3. s # <<>>
    BY <2>2, NotEmpty
  <2>. QED
    BY <2>1, <2>2, <2>3
<1>. HIDE DEF s, child
<1>7. Nested(s, held'[th])
  BY <1>1, <1>2, <1>3, <1>5, <1>6 DEF Nested
<1>8. Unbroken(s, held'[th])
  BY <1>1, <1>2, <1>3, <1>6 DEF Unbroken
<1>9. \A i \in 1..Len(s) : s[i].span \in Tracers => global_tracer = s[i].span /\ stale'[th] = {}
  BY <1>1, <1>2, <1>4, <1>5, <1>6, SmallRanges, GlobalTracerAssumption DEF Pinned, Current
<1>10. Current(th, held[th])'
  BY <1>1, <1>3, GlobalTracerAssumption DEF Current
<1>. QED
  BY <1>1, <1>6, <1>7, <1>8, <1>9, <1>10, ClientStepKeepsInv

\* A tracer that a thread reads is the current one, unless it is the no-op
\* tracer: no other value is ever overwritten.
LEMMA FetchKeepsInv ==
  ASSUME ClientIInv, OnceIInv', NEW th \in Threads, Fetch(th) PROVE ClientIInv'
<1>. DEFINE label == IF Last(frames[th]).fn = "extract" THEN "extract" ELSE "start"
<1>1. /\ At(th, "fetch") /\ Goto(th, label) /\ label \in Labels /\ frames[th] # <<>>
      /\ held[th] = None
  BY NoPointer DEF Fetch, GetGlobalTracer, Labels, At
<1>2. PICK v \in Readable(th) : held' = [held EXCEPT ![th] = v] /\ stale' = ViewAfterReading(th, {v})
  BY DEF Fetch, GetGlobalTracer
<1>3. global_tracer' = global_tracer
  BY DEF Fetch, GetGlobalTracer
<1>4. /\ v \in Instances /\ v # None /\ held'[th] = v
      /\ v \in Tracers => v = global_tracer /\ stale'[th] = {}
      /\ stale[th] = {} => v = global_tracer /\ stale'[th] = {}
      /\ \A o \in Threads \ {th} : held'[o] = held[o] /\ stale'[o] = stale[o]
  BY <1>2, GlobalTracerAssumption
     DEF ClientIInv, OnceIInv, OnceTypeOK, TypeOK, StaleIsNoop, Readable, ViewAfterReading,
         Instances
<1>5. PICK s \in Seq(FrameSet) :
           /\ frames' = [frames EXCEPT ![th] = s]
           /\ Len(s) = Len(frames[th])
           /\ s[Len(s)] = [Last(frames[th]) EXCEPT !.at = label]
           /\ Len(s) = 2 => s[1] = frames[th][1]
  BY <1>1, GotoShape
<1>6. /\ Nested(frames[th], held[th]) /\ Pinned(th) /\ Unbroken(frames[th], held[th])
      /\ Len(frames[th]) \in {1, 2} /\ Last(frames[th]) = frames[th][Len(frames[th])]
      /\ Last(frames[th]) \in FrameSet
  BY <1>1, Shapes DEF ClientIInv
<1>7. /\ s[Len(s)].at \in {"start", "extract"} /\ s[Len(s)].fn = Last(frames[th]).fn
      /\ s[Len(s)].span = Last(frames[th]).span /\ s # <<>>
  <2>1. [Last(frames[th]) EXCEPT !.at = label].at = label
    BY <1>6 DEF FrameSet
  <2>2. /\ [Last(frames[th]) EXCEPT !.at = label].fn = Last(frames[th]).fn
        /\ [Last(frames[th]) EXCEPT !.at = label].span = Last(frames[th]).span
    BY <1>6 DEF FrameSet
  <2>3. s # <<>>
    BY <1>5, <1>6, NotEmpty
  <2>. QED
    BY <1>5, <2>1, <2>2, <2>3
<1>8. Len(s) = 2 => s[1].span = frames[th][1].span /\ s[2].span = frames[th][2].span
                    /\ s[2].fn = frames[th][2].fn
  BY <1>5, <1>6, <1>7
<1>9. Len(s) = 1 => s[1].span = frames[th][1].span /\ s[1].fn = frames[th][1].fn
  BY <1>5, <1>6, <1>7
<1>10. Nested(s, held'[th])
  BY <1>4, <1>5, <1>6, <1>7, <1>8, <1>9 DEF Nested
<1>11. \A i \in 1..Len(s) : s[i].span \in Tracers => global_tracer = s[i].span /\ stale'[th] = {}
  <2>1. \A i \in 1..Len(s) : s[i].span = frames[th][i].span
    BY <1>5, <1>6, <1>8, <1>9, SmallRanges
  <2>. QED
    BY <1>4, <1>5, <1>6, <2>1 DEF Pinned, Current
<1>12. Unbroken(s, held'[th])
  <2>. SUFFICES ASSUME Len(s) = 2, s[1].span \in Tracers
                PROVE  /\ held'[th] \in {None, s[1].span}
                       /\ s[2].span \in {None, NullSpan, s[1].span}
    BY DEF Unbroken
  <2>1. 1 \in 1..Len(frames[th]) /\ frames[th][1].span = s[1].span
    BY <1>5, <1>8, SmallRanges
  <2>2. stale[th] = {} /\ global_tracer = s[1].span
    BY <1>6, <2>1 DEF Pinned, Current
  <2>. QED
    BY <1>4, <1>5, <1>6, <1>8, <2>2 DEF Unbroken
<1>13. Current(th, held[th])'
  BY <1>3, <1>4 DEF Current
<1>. QED
  BY <1>3, <1>4, <1>5, <1>10, <1>11, <1>12, <1>13, ClientStepKeepsInv

\* The span of a tracer that is pinned is pinned.
LEMMA StartKeepsInv ==
  ASSUME ClientIInv, OnceIInv', NEW th \in Threads, Start(th) PROVE ClientIInv'
<1>. DEFINE old == frames[th]
            frame == Last(old)
<1>1. At(th, "start") /\ old # <<>>
  BY DEF Start, At
<1>2. /\ old \in Seq(FrameSet) /\ Len(old) \in {1, 2} /\ frame = old[Len(old)]
      /\ frame \in FrameSet /\ frame.at = "start"
      /\ Nested(old, held[th]) /\ Pinned(th) /\ Unbroken(old, held[th])
  BY <1>1, Shapes DEF ClientIInv, At
<1>3. held[th] \in Instances /\ held[th] # None
  BY <1>1, <1>2 DEF Nested, ClientIInv, OnceIInv, OnceTypeOK, TypeOK
<1>4. PICK made \in Started(held[th]) :
       \/ /\ frame.fn = "inject"
          /\ frames' = [frames EXCEPT ![th] = <<[frame EXCEPT !.span = made, !.at = "inject"]>>]
          /\ UNCHANGED vars
       \/ /\ frame.fn # "inject"
          /\ frames' = [frames EXCEPT
               ![th] = Append(Front(old), [frame EXCEPT !.span = made, !.at = "work"])]
          /\ Release(th)
  BY DEF Start, ClientIInv
<1>5. made \in {held[th], NullSpan} /\ NullSpan \notin Instances
  BY SpanClientsAssumption DEF Started
<1>6. /\ UNCHANGED <<global_tracer, stale>>
      /\ \A o \in Threads \ {th} : held'[o] = held[o] /\ stale'[o] = stale[o]
  BY <1>4 DEF vars, Release, ClientIInv, OnceIInv, OnceTypeOK, TypeOK
<1>7. made \in Tracers => global_tracer = made /\ stale[th] = {}
  BY <1>2, <1>5 DEF Pinned, Current, Instances
<1>8. CASE frame.fn = "inject"
  <2>. DEFINE e == [frame EXCEPT !.span = made, !.at = "inject"]
              s == <<e>>
  <2>1. e \in FrameSet /\ e.fn = "inject" /\ e.span = made /\ e.at = "inject"
    BY <1>2, <1>3, <1>5, <1>8 DEF FrameSet, Labels
  <2>. HIDE DEF e
  <2>2. s \in Seq(FrameSet) /\ Len(s) = 1 /\ s[1] = e
    BY <2>1
  <2>3. frames' = [frames EXCEPT ![th] = s] /\ held' = held
    BY <1>4, <1>8 DEF e, vars
  <2>. HIDE DEF s
  <2>4. s # <<>>
    BY <2>2, NotEmpty
  <2>5. Nested(s, held'[th])
    BY <1>3, <2>1, <2>2, <2>3, <2>4 DEF Nested
  <2>6. Unbroken(s, held'[th])
    <3>1. Len(s) # 2
      BY <2>2
    <3>. QED
      BY <3>1 DEF Unbroken
  <2>7. \A i \in 1..Len(s) : s[i].span \in Tracers => global_tracer = s[i].span /\ stale'[th] = {}
    BY <1>6, <1>7, <2>1, <2>2, SmallRanges
  <2>8. Current(th, held[th])'
    BY <1>2, <1>6, <2>3 DEF Pinned, Current
  <2>. QED
    BY <1>6, <2>2, <2>3, <2>5, <2>6, <2>7, <2>8, ClientStepKeepsInv
<1>9. CASE frame.fn # "inject"
  <2>. DEFINE e == [frame EXCEPT !.span = made, !.at = "work"]
              s == Append(Front(old), e)
  <2>1. e \in FrameSet /\ e.fn = frame.fn /\ e.span = made /\ e.at = "work"
    BY <1>2, <1>3, <1>5 DEF FrameSet, Labels
  <2>2. frames' = [frames EXCEPT ![th] = s] /\ Release(th)
    BY <1>4, <1>9
  <2>3. held'[th] = None
    BY <2>2 DEF Release, ClientIInv, OnceIInv, OnceTypeOK, TypeOK
  <2>4. /\ Front(old) \in Seq(FrameSet) /\ Len(Front(old)) = Len(old) - 1
        /\ \A i \in 1..(Len(old) - 1) : Front(old)[i] = old[i]
    BY <1>1, <1>2, FrontFacts
  <2>. HIDE DEF e
  <2>5. /\ s \in Seq(FrameSet) /\ Len(s) = Len(Front(old)) + 1
        /\ \A i \in 1..Len(Front(old)) : s[i] = Front(old)[i]
        /\ s[Len(Front(old)) + 1] = e
    BY <2>1, <2>4, AppendFacts
  <2>. HIDE DEF s
  <2>6. Len(old) = 1 => Len(s) = 1 /\ s[1] = e
    BY <2>4, <2>5
  <2>7. Len(old) = 2 => Len(s) = 2 /\ s[1] = old[1] /\ s[2] = e
    <3>. SUFFICES ASSUME Len(old) = 2 PROVE Len(s) = 2 /\ s[1] = old[1] /\ s[2] = e
      OBVIOUS
    <3>1. Len(Front(old)) = 1
      BY <2>4
    <3>2. 1 \in 1..(Len(old) - 1) /\ 1 \in 1..Len(Front(old))
      BY <3>1, SmallRanges
    <3>. QED
      BY <2>4, <2>5, <3>1, <3>2
  <2>8. s # <<>> /\ s[Len(s)] = e
    BY <1>2, <2>6, <2>7, NotEmpty
  <2>9. Nested(s, held'[th])
    BY <1>2, <2>1, <2>3, <2>6, <2>7, <2>8 DEF Nested
  <2>10. Unbroken(s, held'[th])
    BY <1>2, <1>3, <1>5, <2>1, <2>3, <2>6, <2>7 DEF Unbroken
  <2>11. \A i \in 1..Len(s) : s[i].span \in Tracers => global_tracer = s[i].span /\ stale'[th] = {}
    <3>1. CASE Len(old) = 1
      BY <1>6, <1>7, <2>1, <2>6, <3>1, SmallRanges
    <3>2. CASE Len(old) = 2
      <4>1. old[1].span \in Tracers => global_tracer = old[1].span /\ stale[th] = {}
        BY <1>2, <3>2, SmallRanges DEF Pinned, Current
      <4>2. s[1].span = old[1].span /\ s[2].span = made /\ Len(s) = 2
        BY <2>1, <2>7, <3>2
      <4>3. \A i \in {1, 2} :
              s[i].span \in Tracers => global_tracer = s[i].span /\ stale'[th] = {}
        BY <1>6, <1>7, <4>1, <4>2
      <4>. QED
        BY <4>2, <4>3, SmallRanges
    <3>. QED
      BY <1>2, <3>1, <3>2
  <2>12. Current(th, held[th])'
    BY <2>3, GlobalTracerAssumption DEF Current
  <2>. QED
    BY <1>6, <2>2, <2>5, <2>9, <2>10, <2>11, <2>12, ClientStepKeepsInv
<1>. QED
  BY <1>8, <1>9

\* Every step of a client preserves it.
LEMMA ClientKeepsInv ==
  ASSUME ClientIInv, NEW th \in Threads, Client(th) PROVE ClientIInv'
<1>1. OnceIInv'
  BY ClientStepIsOnceStep, OnceInvIsInductive DEF ClientIInv
<1>2. CASE \E fn \in {"abc", "inject", "extract"} : Enter(th, fn)
  BY <1>1, <1>2, EnterKeepsInv
<1>3. CASE EnterChild(th)
  BY <1>1, <1>3, EnterChildKeepsInv
<1>4. CASE ParentContext(th)
  <2>1. At(th, "context") /\ Goto(th, "fetch") /\ UNCHANGED allVars /\ "fetch" \in Labels
    BY <1>4 DEF ParentContext, Labels
  <2>2. held[th] = None /\ frames[th] # <<>>
    BY <2>1, NoPointer
  <2>. QED
    BY <1>1, <2>1, <2>2, GotoKeepsInv
<1>5. CASE NewMap(th)
  <2>1. At(th, "map") /\ UNCHANGED allVars /\ "fetch" \in Labels
    BY <1>5 DEF NewMap, Labels
  <2>2. held[th] = None /\ frames[th] # <<>>
    BY <2>1, NoPointer
  <2>3. CASE Goto(th, "fetch")
    BY <1>1, <2>1, <2>2, <2>3, GotoKeepsInv
  <2>4. CASE Leave(th)
    <3>1. UNCHANGED <<global_tracer, stale>> /\ held' = [held EXCEPT ![th] = None]
      BY <2>1, <2>2 DEF allVars, vars, ClientIInv, OnceIInv, OnceTypeOK, TypeOK
    <3>. QED
      BY <1>1, <2>2, <2>4, <3>1, LeaveKeepsInv
  <2>. QED
    BY <1>5, <2>3, <2>4 DEF NewMap
<1>6. CASE Fetch(th)
  BY <1>1, <1>6, FetchKeepsInv
<1>7. CASE Start(th)
  BY <1>1, <1>7, StartKeepsInv
<1>8. CASE InjectContext(th) \/ ExtractContext(th)
  <2>1. frames[th] # <<>> /\ Leave(th) /\ Release(th)
    BY <1>8 DEF InjectContext, ExtractContext, At
  <2>. QED
    BY <1>1, <2>1, LeaveKeepsInv DEF Release
<1>9. CASE Finish(th)
  <2>1. At(th, "work") /\ Goto(th, "destroy") /\ UNCHANGED allVars /\ "destroy" \in Labels
    BY <1>9 DEF Finish, Labels
  <2>2. held[th] = None /\ frames[th] # <<>>
    BY <2>1, NoPointer
  <2>. QED
    BY <1>1, <2>1, <2>2, GotoKeepsInv
<1>10. CASE DestroySpan(th)
  <2>1. At(th, "destroy") /\ Leave(th) /\ UNCHANGED allVars
    BY <1>10 DEF DestroySpan
  <2>2. held[th] = None /\ frames[th] # <<>>
    BY <2>1, NoPointer
  <2>3. UNCHANGED <<global_tracer, stale>> /\ held' = [held EXCEPT ![th] = None]
    BY <2>1, <2>2 DEF allVars, vars, ClientIInv, OnceIInv, OnceTypeOK, TypeOK
  <2>. QED
    BY <1>1, <2>1, <2>2, <2>3, LeaveKeepsInv
<1>. QED
  BY <1>2, <1>3, <1>4, <1>5, <1>6, <1>7, <1>8, <1>9, <1>10 DEF Client

\* So does every step of the installation: what it overwrites is the no-op
\* tracer, which nobody is pinned to.
LEMMA InstallKeepsInv ==
  ASSUME ClientIInv, NEW th \in Threads, Install(th) PROVE ClientIInv'
<1>1. OnceIInv'
  BY InstallStepIsOnceStep, OnceInvIsInductive DEF ClientIInv
<1>2. UNCHANGED <<frames, held>>
  BY DEF Install, OnceRun, OnceSkip, OnceFinish, InitStep, InitCall, InitCompare,
         InitDestroyOld, InitAssign, vars
<1>3. CASE InitAssign(th)
  <2>1. global_tracer = Noop
    BY <1>3 DEF InitAssign, ClientIInv, OnceIInv, OnceTypeOK, RoutinePhase
  <2>2. \A o \in Threads : /\ held[o] \notin Tracers
                           /\ \A i \in 1..Len(frames[o]) : frames[o][i].span \notin Tracers
    BY <2>1, GlobalTracerAssumption DEF ClientIInv, Pinned, Current
  <2>. QED
    BY <1>1, <1>2, <2>2 DEF ClientIInv, Pinned, Current
<1>4. CASE ~InitAssign(th)
  <2>1. /\ global_tracer' = global_tracer
        /\ stale' = stale \/ stale' = [stale EXCEPT ![th] = {}]
    BY <1>4 DEF Install, OnceRun, OnceSkip, OnceFinish, InitStep, InitCall, InitCompare,
                InitDestroyOld, ViewAfterReading, vars
  <2>2. \A o \in Threads : stale[o] = {} => stale'[o] = {}
    BY <2>1 DEF ClientIInv, OnceIInv, OnceTypeOK, TypeOK
  <2>. QED
    BY <1>1, <1>2, <2>1, <2>2 DEF ClientIInv, Pinned, Current
<1>. QED
  BY <1>3, <1>4

LEMMA ClientInvariant == ClientSpec => []ClientIInv
<1>1. ClientIInv /\ [ClientNext]_clientVars => ClientIInv'
  <2>1. ASSUME ClientIInv, UNCHANGED clientVars PROVE ClientIInv'
    <3>1. OnceIInv'
      BY <2>1, OnceInvIsInductive DEF ClientIInv, clientVars
    <3>. QED
      BY <2>1, <3>1 DEF clientVars, allVars, vars, ClientIInv, Pinned, Current
  <2>. QED
    BY <2>1, ClientKeepsInv, InstallKeepsInv DEF ClientNext
<1>. QED
  BY <1>1, ClientInvInitially, PTL DEF ClientSpec

\* The clients' frames and pointers are well-formed, and calls nest as the
\* snippets write them.
THEOREM ClientTypeCorrect == ClientSpec => []ClientTypeOK
<1>1. ClientIInv => ClientTypeOK
  <2>. SUFFICES ASSUME ClientIInv, NEW th \in Threads
                PROVE  /\ Len(frames[th]) <= 2
                       /\ \A i \in 1..Len(frames[th]) :
                            /\ frames[th][i].fn \in
                                 (IF i = 1 THEN {"abc", "inject", "extract"} ELSE {"xyz"})
                            /\ frames[th][i].at \in Labels
                            /\ frames[th][i].span \in Instances \cup {None, NullSpan}
                       /\ held[th] # None <=>
                            At(th, "start") \/ At(th, "inject") \/ At(th, "extract")
    BY DEF ClientTypeOK, ClientIInv, OnceIInv
  <2>1. frames[th] \in Seq(FrameSet) /\ Nested(frames[th], held[th])
    BY DEF ClientIInv
  <2>2. held[th] # None <=> At(th, "start") \/ At(th, "inject") \/ At(th, "extract")
    BY <2>1 DEF Nested, At, Last
  <2>3. \A i \in 1..Len(frames[th]) : frames[th][i] \in FrameSet
    BY <2>1, ElementOfSeq
  <2>4. CASE frames[th] = <<>>
    <3>1. Len(frames[th]) = 0
      BY <2>4, EmptySeq
    <3>. QED
      BY <2>2, <3>1, SmallRanges
  <2>5. CASE frames[th] # <<>>
    <3>1. Len(frames[th]) \in {1, 2}
      BY <2>5, Shapes
    <3>2. \A i \in 1..Len(frames[th]) :
            frames[th][i].fn \in (IF i = 1 THEN {"abc", "inject", "extract"} ELSE {"xyz"})
      BY <2>1, <2>3, <3>1, SmallRanges DEF Nested, FrameSet
    <3>. QED
      BY <2>2, <2>3, <3>1, <3>2 DEF FrameSet
  <2>. QED
    BY <2>4, <2>5
<1>. QED
  BY <1>1, ClientInvariant, PTL

\* A child started within a vendor's span is made by the same tracer.
THEOREM TraceStaysUnbroken == ClientSpec => []TraceUnbroken
<1>1. ClientIInv => TraceUnbroken
  BY DEF ClientIInv, Unbroken, TraceUnbroken
<1>. QED
  BY <1>1, ClientInvariant, PTL
=============================================================================
