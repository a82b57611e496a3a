----------------------- MODULE ReentrantDestroyProofs ----------------------
(***************************************************************************)
(* Installations from inside a destroy, for any tracers and any depth: the *)
(* slot is usable whenever a vendor's or the application's code runs,      *)
(* unless a call was passed what another in progress was installing; only  *)
(* what a destroy installed can be lost, and the outermost call has its    *)
(* way.  The reason is that every call on the stack but the innermost is   *)
(* inside a destroy, and that each one's argument, unless it was passed to *)
(* a call within it as well, is alive and not in the slot until the call   *)
(* itself assigns it.                                                      *)
(***************************************************************************)
EXTENDS ReentrantDestroy, SequenceTheorems, TLAPS

CallSet ==
  [tracer : Instances, old : Instances,
   pc : {"compare", "destroy", "destroying", "assign"}]

-----------------------------------------------------------------------------
(* The stack of calls: pushing, popping and changing the innermost.        *)

LEMMA PushFacts ==
  ASSUME NEW S, NEW s \in Seq(S), NEW e \in S
  PROVE  /\ Append(s, e) \in Seq(S) /\ Len(Append(s, e)) = Len(s) + 1
         /\ \A i \in 1..Len(s) : Append(s, e)[i] = s[i]
         /\ Append(s, e)[Len(s) + 1] = e
OBVIOUS

LEMMA PopFacts ==
  ASSUME NEW S, NEW s \in Seq(S), s # <<>>
  PROVE  /\ Front(s) \in Seq(S) /\ Len(Front(s)) = Len(s) - 1
         /\ \A i \in 1..(Len(s) - 1) : Front(s)[i] = s[i]
<1>1. Len(s) \in Nat /\ Len(s) # 0 /\ \A i \in 1..Len(s) : s[i] \in S
  BY EmptySeq, LenProperties
<1>. DEFINE n == Len(s) - 1
<1>2. n \in Nat /\ n <= Len(s)
  BY <1>1
<1>3. \A i \in 1..n : s[i] \in S
  BY <1>1, <1>2
<1>4. /\ SubSeq(s, 1, n) \in Seq(S)
      /\ Len(SubSeq(s, 1, n)) = IF 1 <= n THEN n - 1 + 1 ELSE 0
      /\ \A i \in 1..(n - 1 + 1) : SubSeq(s, 1, n)[i] = s[1 + i - 1]
  BY <1>2, <1>3, SubSeqProperties
<1>. HIDE DEF n
<1>5. Len(SubSeq(s, 1, n)) = n /\ \A i \in 1..n : SubSeq(s, 1, n)[i] = s[i]
  BY <1>2, <1>4
<1>. QED
  BY <1>4, <1>5 DEF Front, n

\* A sequence is empty exactly when its length is 0.
LEMMA StackLength ==
  ASSUME NEW S, NEW s \in Seq(S)
  PROVE  /\ Len(s) \in Nat /\ DOMAIN s = 1..Len(s)
         /\ s # <<>> <=> Len(s) # 0
         /\ \A i \in 1..Len(s) : s[i] \in S
BY EmptySeq, LenProperties

\* The outermost call is the innermost or below it.
LEMMA BottomOrBelow == \A n \in Nat : n # 0 => n = 1 \/ (n > 1 /\ 1 \in 1..(n - 1))
OBVIOUS

\* There is a call below the innermost only if there are two.
LEMMA BelowInnermost == \A n \in Nat : \A i \in 1..(n - 1) : n > 1 /\ i # n
OBVIOUS

LEMMA TopFacts ==
  ASSUME NEW S, NEW s \in Seq(S), s # <<>>, NEW e \in S
  PROVE  LET t == [s EXCEPT ![Len(s)] = e] IN
         /\ t \in Seq(S) /\ Len(t) = Len(s) /\ t[Len(s)] = e
         /\ \A i \in 1..(Len(s) - 1) : t[i] = s[i]
OBVIOUS

\* Moving the innermost call to a label changes nothing else of the stack.
LEMMA GotoFacts ==
  ASSUME calls \in Seq(CallSet), calls # <<>>,
         NEW l \in {"compare", "destroy", "destroying", "assign"}
  PROVE  /\ Goto(l) \in Seq(CallSet) /\ Len(Goto(l)) = Len(calls)
         /\ Goto(l)[Len(calls)] = [calls[Len(calls)] EXCEPT !.pc = l]
         /\ \A i \in 1..(Len(calls) - 1) : Goto(l)[i] = calls[i]
<1>1. calls[Len(calls)] \in CallSet
  BY StackLength
<1>2. [calls[Len(calls)] EXCEPT !.pc = l] \in CallSet
  BY <1>1 DEF CallSet
<1>. QED
  BY <1>2, TopFacts DEF Goto

\* Nor does it when the call also remembers the tracer that it destroys.
LEMMA DestroyFacts ==
  ASSUME calls \in Seq(CallSet), calls # <<>>, NEW o \in Instances
  PROVE  LET t == [Goto("destroying") EXCEPT ![Len(calls)].old = o] IN
         /\ t \in Seq(CallSet) /\ Len(t) = Len(calls)
         /\ t[Len(calls)].tracer = calls[Len(calls)].tracer
         /\ t[Len(calls)].pc = "destroying" /\ t[Len(calls)].old = o
         /\ \A i \in 1..(Len(calls) - 1) : t[i] = calls[i]
<1>1. /\ Goto("destroying") \in Seq(CallSet) /\ Len(Goto("destroying")) = Len(calls)
      /\ Goto("destroying")[Len(calls)] = [calls[Len(calls)] EXCEPT !.pc = "destroying"]
      /\ \A i \in 1..(Len(calls) - 1) : Goto("destroying")[i] = calls[i]
  BY GotoFacts
<1>. DEFINE g == Goto("destroying")
            e == [g[Len(g)] EXCEPT !.old = o]
            t == [g EXCEPT ![Len(g)] = e]
<1>2. calls[Len(calls)] \in CallSet /\ g # <<>>
  BY <1>1, StackLength
<1>3. e \in CallSet /\ e.tracer = calls[Len(calls)].tracer
      /\ e.pc = "destroying" /\ e.old = o
  BY <1>1, <1>2 DEF CallSet
<1>4. t = [Goto("destroying") EXCEPT ![Len(calls)].old = o]
  BY <1>1
<1>. HIDE DEF g, e
<1>5. /\ t \in Seq(CallSet) /\ Len(t) = Len(g) /\ t[Len(g)] = e
      /\ \A i \in 1..(Len(g) - 1) : t[i] = g[i]
  BY <1>1, <1>2, <1>3, TopFacts DEF g
<1>. QED
  BY <1>1, <1>3, <1>4, <1>5 DEF g

-----------------------------------------------------------------------------
(* The inductive invariant. *)

Active == 1..Len(calls)
Destroying(i) == calls[i].pc = "destroying"

\* The call's argument was not passed to another while it was in progress.
Once(i) == calls[i].tracer \notin repeated

\* Every call but the innermost is inside a destroy, and no two calls install
\* the same tracer unless it was repeated.
Stack ==
  /\ \A i \in Active : i < Len(calls) => Destroying(i)
  /\ \A i, j \in Active : i # j /\ Once(i) => calls[i].tracer # calls[j].tracer

\* What the calls install is alive, not in the slot once they have compared,
\* and not what a call within them destroys, unless it was repeated.
Arguments ==
  \A i \in Active :
    /\ Once(i) =>
         /\ life[calls[i].tracer] # "dead"
         /\ calls[i].pc # "compare" => calls[i].tracer # global_tracer
    /\ Destroying(i) => \A j \in 1..i : Once(j) => calls[j].tracer # calls[i].old

\* The slot holds a dead tracer that was not repeated only until the next step,
\* an assignment; and while a call runs a destroy it holds what is destroyed, or what the destroy
\* has installed.
Slot ==
  /\ ~At("assign") => life[global_tracer] # "dead" \/ global_tracer \in repeated
  /\ At("assign") =>
       global_tracer = Noop \/ global_tracer \in nested \/ life[global_tracer] # "alive"
  /\ \A i \in Active :
       Destroying(i) => global_tracer = calls[i].old \/ global_tracer \in nested

\* A tracer is dying only while a call runs its destroy, and no tracer that a
\* call of the application's replaced is left alive.
Lives ==
  /\ \A t \in Instances :
       life[t] = "dying" => \E i \in Active : Destroying(i) /\ calls[i].old = t
  /\ \A t \in installed \ {Noop, global_tracer} : life[t] # "alive" \/ t \in nested

IInv == TypeOK /\ Stack /\ Arguments /\ Slot /\ Lives

LEMMA TypeUnfolded ==
  ASSUME TypeOK
  PROVE  /\ global_tracer \in Instances
         /\ calls \in Seq(CallSet)
         /\ life \in [Instances -> {"alive", "dying", "dead"}]
         /\ nested \subseteq installed /\ installed \subseteq Instances
         /\ repeated \subseteq Instances
BY DEF TypeOK, CallSet

\* The invariant holds at the start.
LEMMA InitInv == Init => IInv
<1>. SUFFICES ASSUME Init PROVE IInv
  OBVIOUS
<1>1. calls = <<>> /\ calls \in Seq(CallSet) /\ Len(calls) = 0 /\ Active = {}
  BY DEF Init, Active
<1>2. ~At("assign")
  BY <1>1 DEF At
<1>. QED
  BY <1>1, <1>2
     DEF Init, IInv, TypeOK, CallSet, Instances, Stack, Arguments, Slot, Lives

-----------------------------------------------------------------------------
(* Each step preserves the invariant. *)

LEMMA InitCallKeepsInv ==
  ASSUME IInv, NEW t \in Instances, InitCall(t)
  PROVE  IInv'
<1>. DEFINE e == [tracer |-> t, pc |-> "compare", old |-> t]
            n == Len(calls)
<1>. USE TypeUnfolded DEF IInv
<1>1. e \in CallSet
  BY DEF CallSet
<1>2. n \in Nat /\ DOMAIN calls = 1..n
  BY StackLength
<1>3. /\ calls' \in Seq(CallSet) /\ Len(calls') = n + 1
      /\ \A i \in 1..n : calls'[i] = calls[i]
      /\ calls'[n + 1] = e
  BY <1>1, PushFacts DEF InitCall
<1>4. Active' = 1..n \cup {n + 1} /\ Active = 1..n
  BY <1>2, <1>3 DEF Active
<1>5. /\ repeated \subseteq repeated' /\ repeated' \subseteq Instances
      /\ \A i \in 1..n : Destroying(i) /\ (calls[i].tracer = t => t \in repeated')
  <2>1. /\ repeated \subseteq repeated' /\ repeated' \subseteq Instances
        /\ \A i \in 1..n : calls[i].tracer = t => t \in repeated'
    BY <1>2 DEF InitCall
  <2>2. n # 0 => Destroying(n)
    BY <1>2, StackLength DEF InitCall, UserCode, At, Last, Destroying
  <2>. QED
    BY <1>2, <1>4, <2>1, <2>2 DEF Stack
<1>6. TypeOK'
  BY <1>3, <1>5 DEF InitCall, TypeOK, CallSet
<1>7. ~At("assign")' /\ ~At("assign")
  <2>1. ~At("assign")'
    BY <1>3 DEF At, Last
  <2>2. ~At("assign")
    BY DEF InitCall, UserCode, At
  <2>. QED
    BY <2>1, <2>2
<1>. HIDE DEF n
<1>8. Stack'
  <2>1. \A i \in Active' : i < Len(calls') => Destroying(i)'
    BY <1>2, <1>3, <1>4, <1>5 DEF Destroying
  <2>2. ASSUME NEW i \in Active', NEW j \in Active', i # j, Once(i)'
        PROVE  calls'[i].tracer # calls'[j].tracer
    <3>1. CASE i \in 1..n /\ j \in 1..n
      BY <1>3, <1>4, <1>5, <2>2, <3>1 DEF Stack, Once
    <3>2. CASE i \notin 1..n \/ j \notin 1..n
      BY <1>3, <1>4, <1>5, <2>2, <3>2 DEF Once
    <3>. QED
      BY <3>1, <3>2
  <2>. QED
    BY <2>1, <2>2 DEF Stack
<1>9. Arguments'
  <2>1. life' = life /\ global_tracer' = global_tracer /\ life[t] # "dead"
    BY DEF InitCall
  <2>2. \A i \in 1..n : 1..i \subseteq 1..n
    BY <1>2
  <2>. QED
    BY <1>2, <1>3, <1>4, <1>5, <2>1, <2>2 DEF Arguments, Destroying, Once
<1>10. Slot'
  <2>1. UNCHANGED <<global_tracer, life, nested>>
    BY DEF InitCall
  <2>2. ASSUME NEW i \in Active', Destroying(i)'
        PROVE  global_tracer = calls'[i].old \/ global_tracer \in nested
    <3>1. i \in Active /\ calls'[i] = calls[i] /\ Destroying(i)
      BY <1>3, <1>4, <2>2 DEF Destroying
    <3>. QED
      BY <3>1 DEF Slot
  <2>. QED
    BY <1>5, <1>7, <2>1, <2>2 DEF Slot
<1>11. Lives'
  <2>1. \A i \in Active : i \in Active' /\ calls'[i] = calls[i]
    BY <1>3, <1>4
  <2>2. UNCHANGED <<global_tracer, life, installed, nested>>
    BY DEF InitCall
  <2>3. ASSUME NEW o \in Instances, life[o] = "dying"
        PROVE  \E i \in Active' : Destroying(i)' /\ calls'[i].old = o
    <3>1. PICK i \in Active : Destroying(i) /\ calls[i].old = o
      BY <2>3 DEF Lives
    <3>. QED
      BY <2>1, <3>1 DEF Destroying
  <2>. QED
    BY <2>2, <2>3 DEF Lives
<1>. QED
  BY <1>6, <1>8, <1>9, <1>10, <1>11

\* What the innermost call is, and that those below it are inside a destroy.
LEMMA Innermost ==
  ASSUME IInv, NEW l, At(l)
  PROVE  /\ calls \in Seq(CallSet) /\ calls # <<>>
         /\ Len(calls) \in Nat /\ Len(calls) # 0 /\ Len(calls) \in Active
         /\ Active = 1..(Len(calls) - 1) \cup {Len(calls)}
         /\ Last(calls) = calls[Len(calls)]
         /\ calls[Len(calls)] \in CallSet
         /\ calls[Len(calls)].pc = l
         /\ \A i \in 1..(Len(calls) - 1) : Destroying(i) /\ i \in Active /\ i # Len(calls)
<1>1. calls \in Seq(CallSet) /\ calls # <<>>
  BY TypeUnfolded DEF IInv, At
<1>2. /\ Len(calls) \in Nat /\ Len(calls) # 0
      /\ \A i \in 1..Len(calls) : calls[i] \in CallSet
  BY <1>1, StackLength
<1>. QED
  BY <1>1, <1>2 DEF IInv, Stack, Active, At, Last

\* A step that changes the innermost call only: the rest of the stack, and
\* what the call installs, stay.
LEMMA TopChanges ==
  ASSUME IInv, calls # <<>>, calls' \in Seq(CallSet), Len(calls') = Len(calls),
         \A i \in 1..(Len(calls) - 1) : calls'[i] = calls[i],
         calls'[Len(calls)].tracer = calls[Len(calls)].tracer, repeated' = repeated
  PROVE  /\ Active' = Active /\ Stack'
         /\ \A i \in Active : calls'[i].tracer = calls[i].tracer
<1>. USE TypeUnfolded DEF IInv
<1>1. Len(calls) \in Nat /\ Len(calls) # 0
  BY StackLength
<1>2. \A i \in Active : i = Len(calls) \/ i \in 1..(Len(calls) - 1)
  BY <1>1 DEF Active
<1>3. \A i \in Active : calls'[i].tracer = calls[i].tracer
  BY <1>2
<1>4. Stack'
  BY <1>1, <1>2, <1>3 DEF Stack, Active, Destroying, Once
<1>. QED
  BY <1>3, <1>4 DEF Active

\* The innermost call returns: the calls that stay are inside a destroy.
LEMMA InnermostReturns ==
  ASSUME IInv, calls # <<>>, calls' = Front(calls),
         repeated' = repeated \/ Len(calls) = 1
  PROVE  /\ calls' \in Seq(CallSet)
         /\ Active' = 1..(Len(calls) - 1) /\ Active' \subseteq Active
         /\ \A i \in Active' : calls'[i] = calls[i] /\ Destroying(i) /\ i < Len(calls)
         /\ Stack' /\ ~At("assign")'
<1>. USE TypeUnfolded DEF IInv
<1>1. Len(calls) \in Nat /\ Len(calls) # 0
  BY StackLength
<1>2. /\ calls' \in Seq(CallSet) /\ Len(calls') = Len(calls) - 1
      /\ \A i \in 1..(Len(calls) - 1) : calls'[i] = calls[i]
  BY PopFacts
<1>3. /\ Active' = 1..(Len(calls) - 1) /\ Active' \subseteq Active
      /\ \A i \in Active' : i < Len(calls)
  BY <1>1, <1>2 DEF Active
<1>4. \A i \in Active' : calls'[i] = calls[i] /\ Destroying(i)
  BY <1>2, <1>3 DEF Stack
<1>5. Stack'
  <2>1. \A i \in Active' : Destroying(i)'
    BY <1>4 DEF Destroying
  <2>2. ASSUME NEW i \in Active', NEW j \in Active', i # j, Once(i)'
        PROVE  calls'[i].tracer # calls'[j].tracer
    <3>1. repeated' = repeated
      <4>1. Len(calls) = 1 => Active' = {}
        BY <1>3
      <4>. QED
        BY <2>2, <4>1
    <3>. QED
      BY <1>3, <1>4, <2>2, <3>1 DEF Stack, Once
  <2>. QED
    BY <2>1, <2>2 DEF Stack
<1>6. ~At("assign")'
  <2>. SUFFICES ASSUME calls' # <<>> PROVE calls'[Len(calls')].pc # "assign"
    BY DEF At, Last
  <2>1. Len(calls') \in Active'
    BY <1>2, StackLength DEF Active
  <2>. QED
    BY <1>4, <2>1 DEF Destroying
<1>. QED
  BY <1>2, <1>3, <1>4, <1>5, <1>6

LEMMA InitCompareKeepsInv ==
  ASSUME IInv, InitCompare
  PROVE  IInv'
<1>. USE DEF IInv
<1>1. At("compare")
  BY DEF InitCompare
<1>. DEFINE n == Len(calls)
<1>2. UNCHANGED <<global_tracer, life, installed, nested, repeated>>
  BY DEF InitCompare
<1>3. ~At("assign")
  BY <1>1 DEF At
<1>4. CASE global_tracer = Last(calls).tracer
  <2>1. calls' = Front(calls)
    BY <1>4 DEF InitCompare
  <2>2. TypeOK'
    BY <1>1, <1>2, <2>1, Innermost, InnermostReturns, TypeUnfolded DEF TypeOK, CallSet
  <2>3. \A i \in Active : Destroying(i) => i \in Active' /\ calls'[i] = calls[i]
    BY <1>1, <1>2, <2>1, Innermost, InnermostReturns DEF Destroying
  <2>4. Lives'
    BY <1>2, <2>3 DEF Lives, Destroying
  <2>5. /\ Active' \subseteq Active /\ ~At("assign")'
        /\ \A i \in Active' : calls'[i] = calls[i]
    BY <1>1, <1>2, <2>1, Innermost, InnermostReturns
  <2>6. Slot'
    BY <1>2, <1>3, <2>5 DEF Slot, Destroying
  <2>7. Arguments'
    <3>1. \A i \in Active' : 1..i \subseteq Active'
      BY <1>1, <1>2, <2>1, Innermost, InnermostReturns
    <3>. QED
      BY <1>2, <2>5, <3>1 DEF Arguments, Destroying, Once
  <2>. QED
    BY <1>1, <1>2, <2>1, <2>2, <2>4, <2>6, <2>7, Innermost, InnermostReturns
<1>5. CASE global_tracer # Last(calls).tracer
  <2>1. calls' = Goto("destroy")
    BY <1>5 DEF InitCompare
  <2>2. /\ calls' \in Seq(CallSet) /\ Len(calls') = n
        /\ calls'[n].tracer = calls[n].tracer /\ calls'[n].pc = "destroy"
        /\ \A i \in 1..(n - 1) : calls'[i] = calls[i]
    BY <1>1, <2>1, Innermost, GotoFacts DEF CallSet
  <2>3. Active' = Active /\ Stack' /\ \A i \in Active : calls'[i].tracer = calls[i].tracer
    BY <1>1, <1>2, <2>2, Innermost, TopChanges
  <2>4. TypeOK'
    BY <1>2, <2>2, TypeUnfolded DEF TypeOK, CallSet
  <2>5. ~At("assign")'
    BY <2>2 DEF At, Last
  <2>6. /\ \A i \in Active : i = n \/ calls'[i] = calls[i]
        /\ calls[n].pc # "destroying" /\ calls'[n].pc # "destroying"
        /\ calls[n].tracer # global_tracer
    <3>1. Last(calls) = calls[n] /\ calls[n].pc = "compare" /\ Active = 1..(n - 1) \cup {n}
      BY <1>1, Innermost
    <3>. QED
      BY <1>5, <2>2, <3>1
  <2>7. Lives'
    BY <1>2, <2>3, <2>6 DEF Lives, Destroying
  <2>8. Slot'
    <3>1. ASSUME NEW i \in Active', Destroying(i)'
          PROVE  global_tracer' = calls'[i].old \/ global_tracer' \in nested'
      <4>1. i \in Active /\ calls'[i] = calls[i] /\ Destroying(i)
        BY <2>3, <2>6, <3>1 DEF Destroying
      <4>. QED
        BY <1>2, <4>1 DEF Slot
    <3>. QED
      BY <1>2, <1>3, <2>5, <3>1 DEF Slot
  <2>9. Arguments'
    <3>. SUFFICES ASSUME NEW i \in Active'
                  PROVE  /\ Once(i) =>
                              /\ life[calls'[i].tracer] # "dead"
                              /\ calls'[i].pc # "compare" => calls'[i].tracer # global_tracer
                         /\ Destroying(i)' =>
                              \A j \in 1..i : Once(j) => calls'[j].tracer # calls'[i].old
      <4>1. \A i \in Active : \A j \in 1..i : j \in Active
        BY <1>1, Innermost DEF Active
      <4>. QED
        BY <1>2, <2>3, <4>1 DEF Arguments, Once
    <3>1. i \in Active /\ \A j \in 1..i : calls'[j].tracer = calls[j].tracer
      BY <1>1, <2>3, Innermost DEF Active
    <3>2. CASE i = n
      BY <2>3, <2>6, <3>1, <3>2 DEF Arguments, Destroying
    <3>3. CASE i # n
      BY <2>6, <3>1, <3>3 DEF Arguments, Destroying
    <3>. QED
      BY <3>2, <3>3
  <2>. QED
    BY <2>3, <2>4, <2>7, <2>8, <2>9
<1>. QED
  BY <1>4, <1>5

\* The same for a call at a label, with what the inductive invariant says of
\* the calls below it.
LEMMA TopStep ==
  ASSUME IInv, NEW l, At(l), calls' \in Seq(CallSet), Len(calls') = Len(calls),
         \A i \in 1..(Len(calls) - 1) : calls'[i] = calls[i],
         calls'[Len(calls)].tracer = calls[Len(calls)].tracer, repeated' = repeated
  PROVE  /\ Active' = Active /\ Stack' /\ Len(calls) \in Active
         /\ calls[Len(calls)].pc = l /\ Last(calls) = calls[Len(calls)]
         /\ \A i \in Active :
              /\ calls'[i].tracer = calls[i].tracer
              /\ \A j \in 1..i : j \in Active /\ calls'[j].tracer = calls[j].tracer
              /\ i # Len(calls) => calls'[i] = calls[i] /\ Destroying(i)
<1>1. /\ Active' = Active /\ Stack'
      /\ \A i \in Active : calls'[i].tracer = calls[i].tracer
  BY Innermost, TopChanges
<1>2. /\ Len(calls) \in Active /\ Active = 1..(Len(calls) - 1) \cup {Len(calls)}
      /\ calls[Len(calls)].pc = l /\ Last(calls) = calls[Len(calls)]
      /\ \A i \in 1..(Len(calls) - 1) : Destroying(i)
  BY Innermost
<1>3. \A i \in Active : \A j \in 1..i : j \in Active
  BY Innermost DEF Active
<1>. QED
  BY <1>1, <1>2, <1>3

LEMMA InitDestroyOldKeepsInv ==
  ASSUME IInv, InitDestroyOld
  PROVE  IInv'
<1>. USE TypeUnfolded DEF IInv
<1>1. At("destroy") /\ ~At("assign") /\ UNCHANGED <<global_tracer, installed, nested, repeated>>
  BY DEF InitDestroyOld, At
<1>2. life \in [Instances -> {"alive", "dying", "dead"}]
  BY DEF TypeOK
<1>3. /\ Len(calls) \in Nat /\ Len(calls) # 0 /\ calls # <<>>
      /\ calls[Len(calls)] \in CallSet
  BY <1>1, Innermost
<1>4. CASE global_tracer = Noop \/ life[global_tracer] # "alive"
  <2>1. calls' = Goto("assign") /\ life' = life
    BY <1>4 DEF InitDestroyOld
  <2>2. /\ calls' \in Seq(CallSet) /\ Len(calls') = Len(calls)
        /\ calls'[Len(calls)].tracer = calls[Len(calls)].tracer
        /\ calls'[Len(calls)].pc = "assign"
        /\ \A i \in 1..(Len(calls) - 1) : calls'[i] = calls[i]
    BY <1>3, <2>1, GotoFacts DEF CallSet
  <2>3. /\ Active' = Active /\ Stack' /\ Len(calls) \in Active
        /\ calls[Len(calls)].pc = "destroy"
        /\ \A i \in Active :
             /\ calls'[i].tracer = calls[i].tracer
             /\ \A j \in 1..i : j \in Active /\ calls'[j].tracer = calls[j].tracer
             /\ i # Len(calls) => calls'[i] = calls[i] /\ Destroying(i)
    BY <1>1, <2>2, TopStep
  <2>4. TypeOK'
    BY <1>1, <2>1, <2>2 DEF TypeOK, CallSet
  <2>5. At("assign")'
    BY <1>3, <2>2, StackLength DEF At, Last
  <2>6. Arguments'
    <3>. SUFFICES ASSUME NEW i \in Active
                  PROVE  /\ Once(i) =>
                              /\ life[calls'[i].tracer] # "dead"
                              /\ calls'[i].pc # "compare" => calls'[i].tracer # global_tracer
                         /\ Destroying(i)' =>
                              \A j \in 1..i : Once(j) => calls'[j].tracer # calls'[i].old
      BY <1>1, <2>1, <2>3 DEF Arguments, Once
    <3>1. CASE i = Len(calls)
      BY <2>2, <2>3, <3>1 DEF Arguments, Destroying
    <3>2. CASE i # Len(calls)
      BY <2>3, <3>2 DEF Arguments, Destroying
    <3>. QED
      BY <3>1, <3>2
  <2>7. Slot'
    <3>1. ASSUME NEW i \in Active, Destroying(i)'
          PROVE  global_tracer = calls'[i].old \/ global_tracer \in nested
      <4>1. i # Len(calls)
        BY <2>2, <3>1 DEF Destroying
      <4>. QED
        BY <2>3, <4>1 DEF Slot
    <3>. QED
      BY <1>1, <1>4, <2>1, <2>3, <2>5, <3>1 DEF Slot
  <2>8. Lives'
    <3>1. ASSUME NEW t \in Instances, life[t] = "dying"
          PROVE  \E i \in Active : Destroying(i)' /\ calls'[i].old = t
      <4>1. PICK i \in Active : Destroying(i) /\ calls[i].old = t
        BY <3>1 DEF Lives
      <4>2. i # Len(calls)
        BY <2>3, <4>1 DEF Destroying
      <4>. QED
        BY <2>3, <4>1, <4>2 DEF Destroying
    <3>. QED
      BY <1>1, <2>1, <2>3, <3>1 DEF Lives
  <2>. QED
    BY <2>3, <2>4, <2>6, <2>7, <2>8
<1>5. CASE ~(global_tracer = Noop \/ life[global_tracer] # "alive")
  <2>1. /\ calls' = [Goto("destroying") EXCEPT ![Len(calls)].old = global_tracer]
        /\ life' = [life EXCEPT ![global_tracer] = "dying"]
    BY <1>5 DEF InitDestroyOld
  <2>2. /\ calls' \in Seq(CallSet) /\ Len(calls') = Len(calls)
        /\ calls'[Len(calls)].tracer = calls[Len(calls)].tracer
        /\ calls'[Len(calls)].pc = "destroying" /\ calls'[Len(calls)].old = global_tracer
        /\ \A i \in 1..(Len(calls) - 1) : calls'[i] = calls[i]
    BY <1>3, <2>1, DestroyFacts
  <2>3. /\ Active' = Active /\ Stack' /\ Len(calls) \in Active
        /\ calls[Len(calls)].pc = "destroy"
        /\ \A i \in Active :
             /\ calls'[i].tracer = calls[i].tracer
             /\ \A j \in 1..i : j \in Active /\ calls'[j].tracer = calls[j].tracer
             /\ i # Len(calls) => calls'[i] = calls[i] /\ Destroying(i)
    BY <1>1, <2>2, TopStep
  <2>4. TypeOK'
    BY <1>1, <2>1, <2>2 DEF TypeOK, CallSet
  <2>5. ~At("assign")'
    BY <2>2 DEF At, Last
  <2>6. /\ life'[global_tracer] = "dying"
        /\ \A t \in Instances : t # global_tracer => life'[t] = life[t]
    BY <2>1
  <2>7. \A i \in Active : Once(i) => calls[i].tracer # global_tracer
    BY <2>3 DEF Arguments, Destroying
  <2>8. Arguments'
    <3>. SUFFICES ASSUME NEW i \in Active
                  PROVE  /\ Once(i) =>
                              /\ life'[calls'[i].tracer] # "dead"
                              /\ calls'[i].pc # "compare" => calls'[i].tracer # global_tracer
                         /\ Destroying(i)' =>
                              \A j \in 1..i : Once(j) => calls'[j].tracer # calls'[i].old
      BY <1>1, <2>3 DEF Arguments, Once
    <3>1. Once(i) => life'[calls'[i].tracer] # "dead" /\ calls'[i].tracer # global_tracer
      <4>1. calls[i] \in CallSet
        BY StackLength DEF Active
      <4>. QED
        BY <2>3, <2>6, <2>7, <4>1 DEF Arguments, CallSet
    <3>2. CASE i = Len(calls)
      BY <2>2, <2>3, <2>7, <3>1, <3>2
    <3>3. CASE i # Len(calls)
      BY <2>3, <3>1, <3>3 DEF Arguments, Destroying
    <3>. QED
      BY <3>2, <3>3
  <2>9. Slot'
    <3>1. ASSUME NEW i \in Active, Destroying(i)'
          PROVE  global_tracer = calls'[i].old \/ global_tracer \in nested
      <4>1. CASE i = Len(calls)
        BY <2>2, <4>1
      <4>2. CASE i # Len(calls)
        BY <2>3, <4>2 DEF Slot
      <4>. QED
        BY <4>1, <4>2
    <3>. QED
      BY <1>1, <2>3, <2>5, <2>6, <3>1 DEF Slot
  <2>10. Lives'
    <3>1. ASSUME NEW t \in Instances, life'[t] = "dying"
          PROVE  \E i \in Active : Destroying(i)' /\ calls'[i].old = t
      <4>1. CASE t = global_tracer
        BY <2>2, <2>3, <4>1 DEF Destroying
      <4>2. CASE t # global_tracer
        <5>1. PICK i \in Active : Destroying(i) /\ calls[i].old = t
          BY <2>6, <3>1, <4>2 DEF Lives
        <5>2. i # Len(calls)
          BY <2>3, <5>1 DEF Destroying
        <5>. QED
          BY <2>3, <5>1, <5>2 DEF Destroying
      <4>. QED
        BY <4>1, <4>2
    <3>. QED
      BY <1>1, <2>3, <2>6, <3>1 DEF Lives
  <2>. QED
    BY <2>3, <2>4, <2>8, <2>9, <2>10
<1>. QED
  BY <1>4, <1>5

LEMMA DestroyReturnsKeepsInv ==
  ASSUME IInv, DestroyReturns
  PROVE  IInv'
<1>. USE TypeUnfolded DEF IInv
<1>1. At("destroying") /\ ~At("assign") /\ UNCHANGED <<global_tracer, installed, nested, repeated>>
  BY DEF DestroyReturns, At
<1>2. /\ Len(calls) \in Nat /\ Len(calls) # 0 /\ calls # <<>>
      /\ calls[Len(calls)] \in CallSet /\ Last(calls) = calls[Len(calls)]
  BY <1>1, Innermost
<1>. DEFINE o == calls[Len(calls)].old
<1>3. calls' = Goto("assign") /\ life' = [life EXCEPT ![o] = "dead"] /\ o \in Instances
  BY <1>2 DEF DestroyReturns, CallSet
<1>4. /\ life'[o] = "dead" /\ life' \in [Instances -> {"alive", "dying", "dead"}]
      /\ \A t \in Instances : t # o => life'[t] = life[t]
  BY <1>3
<1>5. /\ calls' \in Seq(CallSet) /\ Len(calls') = Len(calls)
      /\ calls'[Len(calls)].tracer = calls[Len(calls)].tracer
      /\ calls'[Len(calls)].pc = "assign"
      /\ \A i \in 1..(Len(calls) - 1) : calls'[i] = calls[i]
  BY <1>2, <1>3, GotoFacts DEF CallSet
<1>6. /\ Active' = Active /\ Stack' /\ Len(calls) \in Active
      /\ calls[Len(calls)].pc = "destroying"
      /\ \A i \in Active :
           /\ calls'[i].tracer = calls[i].tracer
           /\ \A j \in 1..i : j \in Active /\ calls'[j].tracer = calls[j].tracer
           /\ i # Len(calls) => calls'[i] = calls[i] /\ Destroying(i)
  BY <1>1, <1>5, TopStep
<1>7. TypeOK'
  BY <1>1, <1>4, <1>5 DEF TypeOK, CallSet
<1>8. At("assign")'
  BY <1>2, <1>5, StackLength DEF At, Last
<1>9. \A i \in Active : Once(i) => calls[i].tracer # o
  BY <1>6 DEF Arguments, Destroying, Active
<1>. HIDE DEF o
<1>10. Arguments'
  <2>. SUFFICES ASSUME NEW i \in Active
                PROVE  /\ Once(i) =>
                            /\ life'[calls'[i].tracer] # "dead"
                            /\ calls'[i].pc # "compare" => calls'[i].tracer # global_tracer
                       /\ Destroying(i)' =>
                            \A j \in 1..i : Once(j) => calls'[j].tracer # calls'[i].old
    BY <1>1, <1>6 DEF Arguments, Once
  <2>1. Once(i) => life'[calls'[i].tracer] # "dead"
    <3>1. calls[i] \in CallSet
      BY StackLength DEF Active
    <3>. QED
      BY <1>4, <1>6, <1>9, <3>1 DEF Arguments, CallSet
  <2>2. CASE i = Len(calls)
    BY <1>5, <1>6, <2>1, <2>2 DEF Arguments, Destroying
  <2>3. CASE i # Len(calls)
    BY <1>6, <2>1, <2>3 DEF Arguments, Destroying
  <2>. QED
    BY <2>2, <2>3
<1>11. Slot'
  <2>1. ASSUME NEW i \in Active, Destroying(i)'
        PROVE  global_tracer = calls'[i].old \/ global_tracer \in nested
    <3>1. i # Len(calls)
      BY <1>5, <2>1 DEF Destroying
    <3>. QED
      BY <1>6, <3>1 DEF Slot
  <2>2. global_tracer \in nested \/ life'[global_tracer] # "alive"
    BY <1>4, <1>6 DEF Slot, Destroying, o
  <2>. QED
    BY <1>1, <1>6, <1>8, <2>1, <2>2 DEF Slot
<1>12. Lives'
  <2>1. ASSUME NEW t \in Instances, life'[t] = "dying"
        PROVE  \E i \in Active : Destroying(i)' /\ calls'[i].old = t
    <3>1. t # o /\ life[t] = "dying"
      BY <1>4, <2>1
    <3>2. PICK i \in Active : Destroying(i) /\ calls[i].old = t
      BY <3>1 DEF Lives
    <3>3. i # Len(calls)
      BY <3>1, <3>2 DEF o
    <3>. QED
      BY <1>6, <3>2, <3>3 DEF Destroying
  <2>2. \A t \in installed \ {Noop, global_tracer} : life'[t] # "alive" \/ t \in nested
    <3>1. \A t \in installed : life'[t] = "alive" => life[t] = "alive"
      BY <1>4
    <3>. QED
      BY <3>1 DEF Lives
  <2>. QED
    BY <1>1, <1>6, <2>1, <2>2 DEF Lives
<1>. QED
  BY <1>6, <1>7, <1>10, <1>11, <1>12

LEMMA InitAssignKeepsInv ==
  ASSUME IInv, InitAssign
  PROVE  IInv'
<1>. USE TypeUnfolded DEF IInv
<1>. DEFINE n == Len(calls)
            t == calls[n].tracer
<1>1. At("assign") /\ calls' = Front(calls) /\ life' = life
  BY DEF InitAssign
<1>2. /\ n \in Nat /\ n # 0 /\ n \in Active /\ calls # <<>>
      /\ calls[n] \in CallSet /\ Last(calls) = calls[n] /\ calls[n].pc = "assign"
  BY <1>1, Innermost
<1>3. /\ global_tracer' = t /\ installed' = installed \cup {t}
      /\ nested' = IF n > 1 THEN nested \cup {t} ELSE nested \ {t}
      /\ repeated' = IF n > 1 THEN repeated ELSE repeated \cap {t}
      /\ t \in Instances
  BY <1>2 DEF InitAssign, CallSet
<1>4. /\ calls' \in Seq(CallSet)
      /\ Active' = 1..(n - 1) /\ Active' \subseteq Active
      /\ \A i \in Active' : calls'[i] = calls[i] /\ Destroying(i) /\ i < n
      /\ Stack' /\ ~At("assign")'
  <2>1. repeated' = repeated \/ Len(calls) = 1
    <3>1. n > 1 \/ n = 1
      BY <1>2, BottomOrBelow
    <3>. QED
      BY <1>3, <3>1
  <2>2. calls # <<>> /\ calls' = Front(calls)
    BY <1>1, <1>2
  <2>. QED
    BY <2>1, <2>2, InnermostReturns
<1>5. TypeOK'
  BY <1>1, <1>3, <1>4 DEF TypeOK, CallSet
<1>6. \A i \in Active' : repeated' = repeated /\ (Once(i) => calls[i].tracer # t)
  <2>. SUFFICES ASSUME NEW i \in Active'
                PROVE  repeated' = repeated /\ (Once(i) => calls[i].tracer # t)
    OBVIOUS
  <2>1. n > 1 /\ i # n /\ i \in Active
    BY <1>2, <1>4, BelowInnermost
  <2>. QED
    BY <1>2, <1>3, <2>1 DEF Stack
<1>7. Arguments'
  <2>. SUFFICES ASSUME NEW i \in Active'
                PROVE  /\ Once(i) => life[calls[i].tracer] # "dead" /\ calls[i].tracer # t
                       /\ \A j \in 1..i : Once(j)' => calls'[j].tracer # calls[i].old
    BY <1>1, <1>3, <1>4, <1>6 DEF Arguments, Once
  <2>1. \A j \in 1..i : calls'[j] = calls[j] /\ (Once(j)' => Once(j))
    BY <1>2, <1>4, <1>6 DEF Once
  <2>. QED
    BY <1>4, <1>6, <2>1 DEF Arguments
<1>8. life[t] # "dead" \/ t \in repeated'
  BY <1>2, <1>3 DEF Arguments, Once
<1>9. \A i \in Active' : t \in nested'
  BY <1>2, <1>3, <1>4
<1>10. Slot'
  BY <1>1, <1>3, <1>4, <1>8, <1>9 DEF Slot
<1>11. Lives'
  <2>1. ASSUME NEW u \in Instances, life[u] = "dying"
        PROVE  \E i \in Active' : Destroying(i)' /\ calls'[i].old = u
    <3>1. PICK i \in Active : Destroying(i) /\ calls[i].old = u
      BY <2>1 DEF Lives
    <3>2. i # n
      BY <1>2, <3>1 DEF Destroying
    <3>3. i \in Active'
      BY <1>2, <1>4, <3>2 DEF Active
    <3>. QED
      BY <1>4, <3>1, <3>3 DEF Destroying
  <2>2. ASSUME NEW u \in installed', u # Noop, u # t
        PROVE  life[u] # "alive" \/ u \in nested'
    <3>1. u \in installed /\ (u \in nested => u \in nested')
      BY <1>3, <2>2
    <3>2. CASE u = global_tracer
      BY <1>1, <2>2, <3>1, <3>2 DEF Slot
    <3>3. CASE u # global_tracer
      BY <2>2, <3>1, <3>3 DEF Lives
    <3>. QED
      BY <3>2, <3>3
  <2>. QED
    BY <1>1, <1>3, <2>1, <2>2 DEF Lives
<1>. QED
  BY <1>4, <1>5, <1>7, <1>10, <1>11

\* So every step preserves it.
LEMMA InvIsInductive == IInv /\ [Next]_vars => IInv'
<1>. SUFFICES ASSUME IInv, [Next]_vars PROVE IInv'
  OBVIOUS
<1>1. CASE Next
  BY <1>1, InitCallKeepsInv, InitCompareKeepsInv, InitDestroyOldKeepsInv,
     DestroyReturnsKeepsInv, InitAssignKeepsInv
     DEF Next
<1>2. CASE UNCHANGED vars
  BY <1>2
     DEF vars, IInv, TypeOK, Stack, Arguments, Slot, Lives, Active, Destroying, Once, At
<1>. QED
  BY <1>1, <1>2

\* The inductive invariant holds in every state of the program.
THEOREM InvAlways == Spec => []IInv
BY InitInv, InvIsInductive, PTL DEF Spec

-----------------------------------------------------------------------------
\* The types are respected, however deep installations from destroys nest.
THEOREM TypeCorrect == Spec => []TypeOK
<1>1. IInv => TypeOK
  BY DEF IInv
<1>. QED
  BY <1>1, InvAlways, PTL

\* The application and a running destroy read a tracer whose life has not
\* ended from the slot, and destroy is never called on one whose life has,
\* for any number of tracers that install each other from their destroys,
\* but for a tracer that a call was passed while one in progress installed it.
THEOREM SlotAlwaysUsable == Spec => []SlotIsUsable
<1>1. IInv => SlotIsUsable
  <2>. SUFFICES ASSUME IInv, UserCode \/ At("destroy")
                PROVE  life[global_tracer] # "dead" \/ global_tracer \in repeated
    BY DEF SlotIsUsable
  <2>1. ~At("assign")
    BY DEF UserCode, At
  <2>. QED
    BY <2>1 DEF IInv, Slot
<1>. QED
  BY <1>1, InvAlways, PTL

\* A replaced tracer that was not destroyed was installed by a destroy.
THEOREM OnlyNestedIsLost == Spec => []LostOnlyByNesting
<1>1. IInv => LostOnlyByNesting
  <2>. SUFFICES ASSUME IInv, calls = <<>>, NEW t \in installed \ {Noop, global_tracer},
                       t \notin nested
                PROVE  life[t] = "dead"
    BY DEF LostOnlyByNesting
  <2>1. t \in Instances /\ life[t] \in {"alive", "dying", "dead"}
    BY TypeUnfolded DEF IInv
  <2>2. Active = {}
    BY DEF Active
  <2>3. life[t] # "dying" /\ life[t] # "alive"
    BY <2>1, <2>2 DEF IInv, Lives
  <2>. QED
    BY <2>1, <2>3
<1>. QED
  BY <1>1, InvAlways, PTL

\* The application's own call keeps its argument, and when it ends that tracer
\* is in the slot, whatever the destroy it ran has installed.
THEOREM OutermostAssigns == Spec => OutermostIsAssigned
<1>. DEFINE Kept ==
       calls # <<>> =>
         IF calls' = <<>> THEN global_tracer' = calls[1].tracer
                          ELSE calls'[1].tracer = calls[1].tracer
<1>1. IInv /\ [Next]_vars => [Kept]_vars
  <2>. SUFFICES ASSUME IInv, Next, calls # <<>> PROVE Kept
    BY DEF vars
  <2>. USE TypeUnfolded DEF IInv
  <2>1. /\ Len(calls) \in Nat /\ Len(calls) # 0
        /\ calls[Len(calls)] \in CallSet
    BY StackLength
  <2>2. ASSUME NEW t \in Instances, InitCall(t) PROVE Kept
    <3>1. [tracer |-> t, pc |-> "compare", old |-> t] \in CallSet
      BY DEF CallSet
    <3>2. calls'[1] = calls[1] /\ calls' \in Seq(CallSet) /\ Len(calls') = Len(calls) + 1
      BY <2>1, <2>2, <3>1, PushFacts DEF InitCall
    <3>3. calls' # <<>>
      BY <2>1, <3>2, StackLength
    <3>. QED
      BY <3>2, <3>3
  <2>3. ASSUME calls' = Front(calls), global_tracer' = Last(calls).tracer PROVE Kept
    <3>1. /\ calls' \in Seq(CallSet) /\ Len(calls') = Len(calls) - 1
          /\ \A i \in 1..(Len(calls) - 1) : calls'[i] = calls[i]
      BY <2>3, PopFacts
    <3>2. calls' = <<>> => Len(calls) = 1
      BY <2>1, <3>1, StackLength
    <3>3. calls' # <<>> => 1 \in 1..(Len(calls) - 1)
      BY <2>1, <3>1, StackLength
    <3>. QED
      BY <2>3, <3>1, <3>2, <3>3 DEF Last
  <2>4. ASSUME calls' \in Seq(CallSet), Len(calls') = Len(calls),
               calls'[Len(calls)].tracer = calls[Len(calls)].tracer,
               \A i \in 1..(Len(calls) - 1) : calls'[i] = calls[i]
        PROVE  Kept
    <3>1. calls' # <<>>
      BY <2>1, <2>4, StackLength
    <3>2. Len(calls) = 1 \/ 1 \in 1..(Len(calls) - 1)
      BY <2>1, BottomOrBelow
    <3>. QED
      BY <2>4, <3>1, <3>2
  <2>5. ASSUME NEW l \in {"compare", "destroy", "destroying", "assign"}, calls' = Goto(l)
        PROVE  Kept
    BY <2>1, <2>4, <2>5, GotoFacts DEF CallSet
  <2>6. CASE InitCompare
    <3>1. CASE global_tracer = Last(calls).tracer
      BY <2>3, <2>6, <3>1 DEF InitCompare
    <3>2. CASE global_tracer # Last(calls).tracer
      BY <2>5, <2>6, <3>2 DEF InitCompare
    <3>. QED
      BY <3>1, <3>2
  <2>7. CASE InitDestroyOld
    <3>1. CASE calls' = Goto("assign")
      BY <2>5, <3>1
    <3>2. CASE calls' = [Goto("destroying") EXCEPT ![Len(calls)].old = global_tracer]
      BY <2>4, <3>2, DestroyFacts
    <3>. QED
      BY <2>7, <3>1, <3>2 DEF InitDestroyOld
  <2>8. CASE DestroyReturns
    BY <2>5, <2>8 DEF DestroyReturns
  <2>9. CASE InitAssign
    BY <2>3, <2>9 DEF InitAssign
  <2>. QED
    BY <2>2, <2>6, <2>7, <2>8, <2>9 DEF Next
<1>. QED
  BY <1>1, InvAlways, PTL DEF Spec, OutermostIsAssigned
=============================================================================
