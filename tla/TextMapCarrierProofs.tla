------------------------ MODULE TextMapCarrierProofs -----------------------
(***************************************************************************)
(* The text map carrier, for any keys and values: the map keeps what was   *)
(* set and has no key twice, however long it grows, and each foreach_key   *)
(* gives the handler the pairs in order, stops at the handler's first      *)
(* error and destroys its iterator.  The reason is that the handler's      *)
(* calls and what the iterator has yet to yield divide the map between     *)
(* them at every step of the loop, and that the map does not change there. *)
(***************************************************************************)
EXTENDS TextMapCarrier, SequenceTheorems, FiniteSetTheorems, TLAPS

CallSet == [entry : Pairs \cup {Garbage}, code : Codes]

-----------------------------------------------------------------------------
(* Sequences. *)

LEMMA AppendFacts ==
  ASSUME NEW S, NEW s \in Seq(S), NEW e \in S
  PROVE  /\ Append(s, e) \in Seq(S) /\ Len(Append(s, e)) = Len(s) + 1
         /\ \A i \in 1..Len(s) : Append(s, e)[i] = s[i]
         /\ Append(s, e)[Len(s) + 1] = e
OBVIOUS

LEMMA SequenceFacts ==
  ASSUME NEW S, NEW s \in Seq(S)
  PROVE  /\ Len(s) \in Nat /\ DOMAIN s = 1..Len(s)
         /\ s = <<>> <=> Len(s) = 0
         /\ \A i \in 1..Len(s) : s[i] \in S
BY EmptySeq, LenProperties

LEMMA TailFacts ==
  ASSUME NEW S, NEW s \in Seq(S), s # <<>>
  PROVE  /\ Head(s) = s[1] /\ Head(s) \in S
         /\ Tail(s) \in Seq(S) /\ Len(Tail(s)) = Len(s) - 1
         /\ \A i \in 1..(Len(s) - 1) : Tail(s)[i] = s[i + 1]
BY HeadTailProperties

\* Growing a range by one.
LEMMA RangeGrows == \A n \in Nat : 1..(n + 1) = 1..n \cup {n + 1}
OBVIOUS

\* The pairs of a map to which one is appended, and its keys.
LEMMA AppendedPairs ==
  ASSUME NEW m \in Seq(Pairs), NEW p \in Pairs
  PROVE  /\ ToSet(Append(m, p)) = ToSet(m) \cup {p}
         /\ KeysOf(Append(m, p)) = KeysOf(m) \cup {p[1]}
<1>1. /\ DOMAIN m = 1..Len(m) /\ Len(m) \in Nat
      /\ DOMAIN Append(m, p) = 1..(Len(m) + 1)
      /\ \A i \in 1..Len(m) : Append(m, p)[i] = m[i]
      /\ Append(m, p)[Len(m) + 1] = p
  BY AppendFacts, SequenceFacts
<1>2. ToSet(Append(m, p)) = ToSet(m) \cup {p}
  BY <1>1, RangeGrows DEF ToSet
<1>. QED
  BY <1>2 DEF KeysOf

LEMMA KeysAreKeys ==
  ASSUME NEW m \in Seq(Pairs)
  PROVE  ToSet(m) \subseteq Pairs /\ KeysOf(m) \subseteq Keys /\ IsFiniteSet(KeysOf(m))
<1>1. ToSet(m) \subseteq Pairs
  BY SequenceFacts DEF ToSet
<1>2. \A p \in Pairs : p[1] \in Keys
  BY DEF Pairs
<1>3. KeysOf(m) \subseteq Keys
  BY <1>1, <1>2 DEF KeysOf
<1>. QED
  BY <1>1, <1>3, TextMapAssumption, FS_Subset

-----------------------------------------------------------------------------
(* The inductive invariant. *)

\* No injection is under way while foreach_key runs.
OneAtATime == at # "idle" => inject_code # "running"

\* The iterator has yet to yield the pairs of the map after the first k.
Rest(k) == Len(map) = k + Len(it) /\ \A i \in 1..Len(it) : it[i] = map[k + i]

\* The calls made and the pairs left make up the map, and the variables hold
\* the pair before those that are left.
Progress ==
  /\ at \in {"has_next", "call"} =>
       Rest(Len(calls)) /\ entry = IF calls = <<>> THEN Garbage ELSE map[Len(calls)]
  /\ at = "next" => calls # <<>> /\ Rest(Len(calls) - 1)
  /\ at \in {"call", "next"} => it # <<>>
  /\ at \in {"cleanup", "returned"} =>
       Len(calls) <= Len(map) /\ (return_code = "success" => Len(calls) = Len(map))

\* The first call got what the variables held at the start, each later one the
\* next pair of the map.
Delivered ==
  at # "idle" =>
    \A i \in 1..Len(calls) : calls[i].entry = IF i = 1 THEN Garbage ELSE map[i - 1]

\* Only the last call of the handler may have returned an error.
Errors ==
  /\ at \in {"has_next", "call", "next"} =>
       \A i \in 1..Len(calls) : calls[i].code = "success"
  /\ at \in {"cleanup", "returned"} =>
       /\ \A i \in 1..Len(calls) - 1 : calls[i].code = "success"
       /\ calls # <<>> => return_code = calls[Len(calls)].code

Loop == OneAtATime /\ Progress /\ Delivered /\ Errors

IInv == TypeOK /\ InjectedIsInMap /\ IteratorsBalanced /\ Loop

\* The invariant holds at the start.
LEMMA InitInv == Init => IInv
<1>. SUFFICES ASSUME Init PROVE IInv
  OBVIOUS
<1>1. ToSet(map) = {} /\ KeysOf(map) = {}
  BY DEF Init, KeysOf, ToSet
<1>2. TypeOK
  <2>1. Cardinality(KeysOf(map)) = 0 /\ Len(map) = 0
    BY <1>1, FS_EmptySet DEF Init
  <2>2. reader \in [foreach_key : {Garbage, "set"}, map : {Garbage, "set"}]
    BY DEF Init, RawReader, ReadyReader
  <2>. QED
    BY <2>1, <2>2 DEF Init, TypeOK, Codes
<1>. QED
  BY <1>1, <1>2
     DEF Init, IInv, InjectedIsInMap, IteratorsBalanced, Loop, OneAtATime, Progress,
         Delivered, Errors

-----------------------------------------------------------------------------
(* Each step preserves the invariant. *)

\* While foreach_key does not run there is nothing to say of its loop.
LEMMA IdleLoop == ASSUME at' = "idle" PROVE Loop'
BY DEF Loop, OneAtATime, Progress, Delivered, Errors

LEMMA InjectKeepsInv ==
  ASSUME IInv, NEW ks \in SUBSET Keys, Inject(ks)
  PROVE  IInv'
<1>1. at' = "idle"
  BY DEF Inject, readVars
<1>2. Loop'
  BY <1>1, IdleLoop
<1>. QED
  BY <1>2 DEF IInv, Inject, TypeOK, Codes, KeysOf, InjectedIsInMap, IteratorsBalanced, readVars

LEMMA SetKeepsInv ==
  ASSUME IInv, NEW k \in Keys, NEW v \in Values, Set(k, v)
  PROVE  IInv'
<1>. USE DEF IInv
<1>1. at = "idle" /\ UNCHANGED <<reader, readVars>>
  BY DEF Set, Loop, OneAtATime
<1>2. Loop'
  <2>1. at' = "idle"
    BY <1>1 DEF readVars
  <2>. QED
    BY <2>1, IdleLoop
<1>3. IteratorsBalanced'
  BY <1>1 DEF IteratorsBalanced, readVars
<1>4. CASE inject_code' = "unknown" /\ UNCHANGED <<map, todo, set_pairs>>
  <2>1. TypeOK' /\ InjectedIsInMap'
    BY <1>1, <1>4 DEF TypeOK, Codes, KeysOf, InjectedIsInMap, readVars
  <2>. QED
    BY <1>2, <1>3, <2>1
<1>5. CASE /\ k \notin KeysOf(map)
           /\ map' = Append(map, <<k, v>>)
           /\ set_pairs' = set_pairs \cup {<<k, v>>}
           /\ todo' = todo \ {k}
           /\ inject_code' = IF todo' = {} THEN "success" ELSE "running"
  <2>1. <<k, v>> \in Pairs /\ <<k, v>>[1] = k /\ map \in Seq(Pairs)
    BY DEF Pairs, TypeOK
  <2>2. /\ ToSet(map') = ToSet(map) \cup {<<k, v>>}
        /\ KeysOf(map') = KeysOf(map) \cup {k}
        /\ map' \in Seq(Pairs) /\ Len(map') = Len(map) + 1
    BY <1>5, <2>1, AppendedPairs, AppendFacts
  <2>3. Cardinality(KeysOf(map')) = Len(map')
    <3>1. Cardinality(KeysOf(map) \cup {k}) = Cardinality(KeysOf(map)) + 1
      BY <1>5, <2>1, KeysAreKeys, FS_AddElement
    <3>. QED
      BY <2>2, <3>1 DEF TypeOK
  <2>4. InjectedIsInMap'
    BY <1>5, <2>2 DEF InjectedIsInMap
  <2>5. TypeOK'
    <3>1. todo' \subseteq Keys /\ set_pairs' \subseteq Pairs /\ inject_code' \in Codes \cup {"running"}
      BY <1>5, <2>1 DEF TypeOK, Codes
    <3>. QED
      BY <1>1, <2>2, <2>3, <3>1 DEF TypeOK, KeysOf, readVars
  <2>. QED
    BY <1>2, <1>3, <2>4, <2>5
<1>. QED
  BY <1>4, <1>5 DEF Set

LEMMA ReaderInitKeepsInv ==
  ASSUME IInv, ReaderInit
  PROVE  IInv'
<1>1. reader' \in [foreach_key : {Garbage, "set"}, map : {Garbage, "set"}]
  BY DEF ReaderInit, RawReader
<1>. QED
  BY <1>1
     DEF ReaderInit, IInv, TypeOK, KeysOf, InjectedIsInMap, IteratorsBalanced, Loop,
         OneAtATime, Progress, Rest, Delivered, Errors, readVars, writeVars

\* The steps of foreach_key leave the writer alone; the rest of the types and
\* what they say of the loop is left to prove.
LEMMA ReaderStepKeepsInv ==
  ASSUME IInv, UNCHANGED <<writeVars, reader>>,
         at' \in {"idle", "has_next", "call", "next", "cleanup", "returned"},
         it' \in Seq(Pairs), entry' \in Pairs \cup {Garbage},
         calls' \in Seq(CallSet), return_code' \in Codes,
         IteratorsBalanced', Loop'
  PROVE  IInv'
<1>1. iterators' \in Nat
  BY DEF IteratorsBalanced
<1>2. TypeOK' /\ InjectedIsInMap'
  BY <1>1 DEF IInv, TypeOK, KeysOf, InjectedIsInMap, writeVars, CallSet
<1>. QED
  BY <1>2 DEF IInv

\* The types of what foreach_key uses, and the writer at rest.
LEMMA ReaderTypes ==
  ASSUME IInv
  PROVE  /\ map \in Seq(Pairs) /\ it \in Seq(Pairs) /\ calls \in Seq(CallSet)
         /\ entry \in Pairs \cup {Garbage} /\ return_code \in Codes
         /\ iterators = IF at \in {"has_next", "call", "next", "cleanup"} THEN 1 ELSE 0
         /\ Len(map) \in Nat /\ Len(it) \in Nat /\ Len(calls) \in Nat
         /\ it = <<>> <=> Len(it) = 0
         /\ calls = <<>> <=> Len(calls) = 0
         /\ \A i \in 1..Len(it) : it[i] \in Pairs
BY SequenceFacts DEF IInv, TypeOK, CallSet, IteratorsBalanced

LEMMA ForeachKeyKeepsInv ==
  ASSUME IInv, ForeachKey
  PROVE  IInv'
<1>. USE ReaderTypes
<1>1. /\ at = "idle" /\ inject_code' # "running" /\ map' = map
      /\ UNCHANGED <<writeVars, reader>>
      /\ calls' = <<>> /\ Len(calls') = 0 /\ entry' = Garbage
      /\ calls' \in Seq(CallSet)
  BY DEF ForeachKey, writeVars
<1>2. CASE /\ it' = map /\ iterators' = iterators + 1 /\ at' = "has_next"
           /\ UNCHANGED return_code
  <2>1. Loop'
    BY <1>1, <1>2 DEF Loop, OneAtATime, Progress, Rest, Delivered, Errors
  <2>2. IteratorsBalanced'
    BY <1>1, <1>2 DEF IteratorsBalanced
  <2>. QED
    BY <1>1, <1>2, <2>1, <2>2, ReaderStepKeepsInv
<1>3. CASE /\ return_code' = "unknown" /\ at' = "returned" /\ UNCHANGED <<it, iterators>>
  <2>1. Loop'
    BY <1>1, <1>3 DEF Loop, OneAtATime, Progress, Rest, Delivered, Errors
  <2>2. IteratorsBalanced'
    BY <1>1, <1>3 DEF IteratorsBalanced
  <2>3. return_code' \in Codes
    BY <1>3 DEF Codes
  <2>. QED
    BY <1>1, <1>3, <2>1, <2>2, <2>3, ReaderStepKeepsInv
<1>. QED
  BY <1>2, <1>3 DEF ForeachKey

LEMMA HasNextKeepsInv ==
  ASSUME IInv, HasNext
  PROVE  IInv'
<1>. USE ReaderTypes
<1>1. /\ at = "has_next" /\ UNCHANGED <<writeVars, reader, it, entry, calls, iterators>>
      /\ map' = map /\ inject_code' = inject_code
  BY DEF HasNext, writeVars
<1>2. OneAtATime' /\ Delivered'
  BY <1>1 DEF IInv, Loop, OneAtATime, Delivered, HasNext
<1>3. CASE it = <<>>
  <2>1. at' = "cleanup" /\ return_code' = "success"
    BY <1>3 DEF HasNext
  <2>2. Progress'
    BY <1>1, <1>3, <2>1 DEF IInv, Loop, Progress, Rest
  <2>3. Errors'
    BY <1>1, <2>1 DEF IInv, Loop, Errors
  <2>4. IteratorsBalanced' /\ return_code' \in Codes
    BY <1>1, <2>1 DEF IteratorsBalanced, Codes
  <2>. QED
    BY <1>1, <1>2, <2>1, <2>2, <2>3, <2>4, ReaderStepKeepsInv DEF Loop
<1>4. CASE it # <<>>
  <2>1. at' = "call" /\ return_code' = return_code
    BY <1>4 DEF HasNext
  <2>2. Progress'
    BY <1>1, <1>4, <2>1 DEF IInv, Loop, Progress, Rest
  <2>3. Errors' /\ IteratorsBalanced'
    BY <1>1, <2>1 DEF IInv, Loop, Errors, IteratorsBalanced
  <2>. QED
    BY <1>1, <1>2, <2>1, <2>2, <2>3, ReaderStepKeepsInv DEF Loop
<1>. QED
  BY <1>3, <1>4

LEMMA CallHandlerKeepsInv ==
  ASSUME IInv, CallHandler
  PROVE  IInv'
<1>. USE ReaderTypes
<1>. DEFINE n == Len(calls)
<1>1. /\ at = "call" /\ UNCHANGED <<writeVars, reader, it, entry, iterators>>
      /\ map' = map /\ inject_code' = inject_code
  BY DEF CallHandler, writeVars
<1>2. PICK rc \in Codes :
        /\ calls' = Append(calls, [entry |-> entry, code |-> rc])
        /\ return_code' = rc
        /\ at' = IF rc = "success" THEN "next" ELSE "cleanup"
  BY DEF CallHandler
<1>3. /\ calls' \in Seq(CallSet) /\ Len(calls') = n + 1
      /\ \A i \in 1..n : calls'[i] = calls[i]
      /\ calls'[n + 1].entry = entry /\ calls'[n + 1].code = rc
  <2>1. [entry |-> entry, code |-> rc] \in CallSet
    BY DEF CallSet
  <2>. QED
    BY <1>2, <2>1, AppendFacts
<1>4. 1..Len(calls') = 1..n \cup {n + 1} /\ n \in Nat
  BY <1>3, RangeGrows
<1>5. /\ Rest(n) /\ it # <<>>
      /\ entry = IF n = 0 THEN Garbage ELSE map[n]
      /\ \A i \in 1..n : calls[i].code = "success"
      /\ \A i \in 1..n : calls[i].entry = IF i = 1 THEN Garbage ELSE map[i - 1]
      /\ inject_code # "running"
  BY <1>1 DEF IInv, Loop, OneAtATime, Progress, Delivered, Errors
<1>6. calls' # <<>>
  BY <1>3, <1>4, SequenceFacts
<1>. HIDE DEF n
<1>7. OneAtATime'
  BY <1>1, <1>5 DEF OneAtATime
<1>8. Delivered'
  <2>1. calls'[n + 1].entry = IF n + 1 = 1 THEN Garbage ELSE map[(n + 1) - 1]
    BY <1>3, <1>4, <1>5
  <2>2. \A i \in 1..n : calls'[i].entry = IF i = 1 THEN Garbage ELSE map[i - 1]
    BY <1>3, <1>5
  <2>. QED
    BY <1>1, <1>4, <2>1, <2>2 DEF Delivered
<1>9. Errors'
  <2>1. 1..(Len(calls') - 1) = 1..n
    BY <1>3, <1>4
  <2>2. \A i \in 1..n : calls'[i].code = "success"
    BY <1>3, <1>5
  <2>. QED
    BY <1>2, <1>3, <1>4, <2>1, <2>2 DEF Errors
<1>10. Progress'
  <2>1. Rest(Len(calls) - 1)'
    <3>1. Len(calls') - 1 = n
      BY <1>3, <1>4
    <3>. QED
      BY <1>1, <1>5, <3>1 DEF Rest
  <2>2. Len(calls') <= Len(map) /\ (rc = "success" => at' = "next")
    BY <1>2, <1>3, <1>4, <1>5, ReaderTypes DEF Rest
  <2>. QED
    BY <1>1, <1>2, <1>5, <1>6, <2>1, <2>2 DEF Progress
<1>11. IteratorsBalanced'
  BY <1>1, <1>2 DEF IteratorsBalanced
<1>. QED
  BY <1>1, <1>2, <1>3, <1>7, <1>8, <1>9, <1>10, <1>11, ReaderStepKeepsInv DEF Loop

LEMMA NextEntryKeepsInv ==
  ASSUME IInv, NextEntry
  PROVE  IInv'
<1>. USE ReaderTypes
<1>1. /\ at = "next" /\ at' = "has_next" /\ entry' = Head(it) /\ it' = Tail(it)
      /\ UNCHANGED <<writeVars, reader, calls, return_code, iterators>>
      /\ map' = map /\ inject_code' = inject_code
  BY DEF NextEntry, writeVars
<1>. DEFINE n == Len(calls)
<1>2. /\ n \in Nat /\ n # 0 /\ it # <<>>
      /\ Len(map) = (n - 1) + Len(it) /\ \A i \in 1..Len(it) : it[i] = map[(n - 1) + i]
  BY <1>1 DEF IInv, Loop, Progress, Rest
<1>3. /\ entry' = it[1] /\ entry' \in Pairs
      /\ it' \in Seq(Pairs) /\ Len(it') = Len(it) - 1
      /\ \A i \in 1..(Len(it) - 1) : it'[i] = it[i + 1]
  BY <1>1, <1>2, TailFacts
<1>. HIDE DEF n
<1>4. Progress'
  <2>1. entry' = map[n]
    <3>1. 1 \in 1..Len(it) /\ (n - 1) + 1 = n
      BY <1>2
    <3>. QED
      BY <1>2, <1>3, <3>1
  <2>2. Len(map) = n + Len(it')
    BY <1>2, <1>3
  <2>3. ASSUME NEW i \in 1..Len(it')
        PROVE  it'[i] = map[n + i]
    <3>1. i + 1 \in 1..Len(it) /\ (n - 1) + (i + 1) = n + i /\ i \in 1..(Len(it) - 1)
      BY <1>2, <1>3
    <3>2. it'[i] = it[i + 1] /\ it[i + 1] = map[(n - 1) + (i + 1)]
      BY <1>2, <1>3, <3>1
    <3>. QED
      BY <3>1, <3>2
  <2>. QED
    BY <1>1, <1>2, <2>1, <2>2, <2>3 DEF Progress, Rest, n
<1>5. OneAtATime' /\ Delivered' /\ Errors' /\ IteratorsBalanced'
  BY <1>1 DEF IInv, Loop, OneAtATime, Delivered, Errors, IteratorsBalanced
<1>. QED
  BY <1>1, <1>3, <1>4, <1>5, ReaderStepKeepsInv DEF Loop

LEMMA EndKeepsInv ==
  ASSUME IInv, Cleanup \/ Return
  PROVE  IInv'
<1>. USE ReaderTypes
<1>1. /\ UNCHANGED <<writeVars, reader, it, entry, calls, return_code>>
      /\ map' = map /\ inject_code' = inject_code
  BY DEF Cleanup, Return, writeVars
<1>2. CASE Cleanup
  <2>1. at = "cleanup" /\ at' = "returned" /\ iterators' = iterators - 1
    BY <1>2 DEF Cleanup
  <2>2. Loop' /\ IteratorsBalanced'
    BY <1>1, <2>1
       DEF IInv, Loop, OneAtATime, Progress, Delivered, Errors, IteratorsBalanced
  <2>. QED
    BY <1>1, <2>1, <2>2, ReaderStepKeepsInv
<1>3. CASE Return
  <2>1. at = "returned" /\ at' = "idle" /\ iterators' = iterators
    BY <1>3 DEF Return
  <2>2. Loop' /\ IteratorsBalanced'
    BY <2>1, IdleLoop DEF IteratorsBalanced
  <2>. QED
    BY <1>1, <2>1, <2>2, ReaderStepKeepsInv
<1>. QED
  BY <1>2, <1>3

\* So every step preserves it.
LEMMA InvIsInductive == IInv /\ [Next]_vars => IInv'
<1>. SUFFICES ASSUME IInv, [Next]_vars PROVE IInv'
  OBVIOUS
<1>1. CASE Next
  BY <1>1, InjectKeepsInv, SetKeepsInv, ReaderInitKeepsInv, ForeachKeyKeepsInv,
     HasNextKeepsInv, CallHandlerKeepsInv, NextEntryKeepsInv, EndKeepsInv
     DEF Next, ForeachStep
<1>2. CASE UNCHANGED vars
  BY <1>2
     DEF vars, writeVars, readVars, IInv, TypeOK, KeysOf, InjectedIsInMap,
         IteratorsBalanced, Loop, OneAtATime, Progress, Rest, Delivered, Errors
<1>. QED
  BY <1>1, <1>2

\* The inductive invariant holds in every state of the program.
THEOREM InvAlways == Spec => []IInv
BY InitInv, InvIsInductive, PTL DEF Spec

-----------------------------------------------------------------------------
\* The types are respected, and the map never has a key twice.
THEOREM TypeCorrect == Spec => []TypeOK
<1>1. IInv => TypeOK
  BY DEF IInv
<1>. QED
  BY <1>1, InvAlways, PTL

\* What any injection was told is set is in the map with the value it set,
\* however many injections come later and whichever keys they set.
THEOREM InjectedStays == Spec => []InjectedIsInMap
<1>1. IInv => InjectedIsInMap
  BY DEF IInv
<1>. QED
  BY <1>1, InvAlways, PTL

\* Every path through foreach_key destroys its iterator, once.
THEOREM IteratorsAreBalanced == Spec => []IteratorsBalanced
<1>1. IInv => IteratorsBalanced
  BY DEF IInv
<1>. QED
  BY <1>1, InvAlways, PTL

\* foreach_key stops at the handler's first error and returns it.
THEOREM FirstErrorIsReturned == Spec => []FirstErrorReturned
<1>1. IInv => FirstErrorReturned
  BY DEF IInv, Loop, Errors, FirstErrorReturned, Last
<1>. QED
  BY <1>1, InvAlways, PTL

\* The pairs that the handler gets are the first of the map, in order, and a
\* foreach_key that succeeds has called it as often as the map has pairs, for
\* maps of any size.
THEOREM PairsDeliveredInOrder == Spec => []DeliversInOrder
<1>1. IInv => DeliversInOrder
  <2>. SUFFICES ASSUME IInv, at = "returned"
                PROVE  /\ \E skipped \in {0, 1} :
                            /\ skipped <= Len(calls) /\ Len(calls) - skipped <= Len(map)
                            /\ \A i \in 1..Len(calls) :
                                 calls[i].entry = IF i <= skipped THEN Garbage
                                                                  ELSE map[i - skipped]
                       /\ return_code = "success" => Len(calls) = Len(map)
    BY DEF DeliversInOrder
  <2>. USE ReaderTypes
  <2>1. /\ Len(calls) <= Len(map)
        /\ return_code = "success" => Len(calls) = Len(map)
        /\ \A i \in 1..Len(calls) :
             calls[i].entry = IF i = 1 THEN Garbage ELSE map[i - 1]
    BY DEF IInv, Loop, Progress, Delivered
  <2>2. CASE calls = <<>>
    <3>1. Len(calls) = 0 /\ Len(calls) - 0 <= Len(map)
      BY <2>1, <2>2
    <3>. QED
      BY <2>1, <3>1
  <2>3. CASE calls # <<>>
    <3>1. 1 <= Len(calls) /\ Len(calls) - 1 <= Len(map)
      BY <2>1, <2>3
    <3>2. \A i \in 1..Len(calls) : i <= 1 <=> i = 1
      OBVIOUS
    <3>. QED
      BY <2>1, <3>1, <3>2
  <2>. QED
    BY <2>2, <2>3
<1>. QED
  BY <1>1, InvAlways, PTL
=============================================================================
