--------------------------- MODULE TextMapCarrier ---------------------------
(***************************************************************************)
(* The text map carrier of snippets/inject_snippet.c and extract_snippet.c:*)
(* a writer whose set inserts a pair, and a reader whose foreach_key gives *)
(* every pair to a handler of the tracer.                                  *)
(*                                                                         *)
(* The map and its iterator are the application's (text_map.h,             *)
(* text_map_iterator.h): the map is modelled by its pairs in the order in  *)
(* which the iterator yields them.  The tracer's inject sets some keys one *)
(* after the other and stops at the first error.  Carriers are used by one *)
(* thread at a time.                                                       *)
(***************************************************************************)
EXTENDS Naturals, Sequences, FiniteSets, SequencesExt

CONSTANTS Keys,      \* keys of the map
          Values,    \* their values
          Garbage    \* the indeterminate content of an uninitialised variable

ASSUME TextMapAssumption == IsFiniteSet(Keys) /\ Garbage \notin Keys \X Values

Codes == {"success", "unknown", "span_context_corrupted"}
Pairs == Keys \X Values

VARIABLES
  map,           \* the pairs of the map
  todo,          \* the keys inject has yet to set
  set_pairs,     \* history: the pairs that all injections have set
  inject_code,   \* its return code, or "running"
  reader,        \* the members of the reader: Garbage or "set"
  at,            \* where foreach_key is
  it,            \* the pairs its iterator has yet to yield
  entry,         \* its variables key and value
  calls,         \* the calls of the handler: what it got and what it returned
  return_code,   \* foreach_key's
  iterators      \* iterators that are allocated

writeVars == <<map, todo, set_pairs, inject_code>>
readVars == <<at, it, entry, calls, return_code, iterators>>
vars == <<writeVars, reader, readVars>>

\* The memory of a local text_map_reader, and one that was initialised by
\* code other than the snippet's.
RawReader == [foreach_key |-> Garbage, map |-> Garbage]
ReadyReader == [foreach_key |-> "set", map |-> "set"]

KeysOf(m) == {p[1] : p \in ToSet(m)}

\* text_map_writer_init has made an empty map.
Init ==
  /\ map = <<>> /\ todo = {} /\ set_pairs = {} /\ inject_code = "success"
  /\ reader \in {RawReader, ReadyReader}
  /\ at = "idle" /\ it = <<>> /\ entry = Garbage /\ calls = <<>>
  /\ return_code = "success" /\ iterators = 0

-----------------------------------------------------------------------------
(* The writer. *)

\* A tracer injects a span context that it encodes with the keys ks.
Inject(ks) ==
  /\ at = "idle"
  /\ inject_code # "running"
  /\ ks # {}
  /\ inject_code' = "running"
  /\ todo' = ks
  /\ UNCHANGED <<map, set_pairs, reader, readVars>>

\* Mutant: set does not ask for the key first.
Set_NoCheck(k, v) ==
  /\ inject_code = "running" /\ k \in todo
  /\ \/ /\ map' = Append(map, <<k, v>>)
        /\ set_pairs' = set_pairs \cup {<<k, v>>}
        /\ todo' = todo \ {k}
        /\ inject_code' = IF todo' = {} THEN "success" ELSE "running"
     \/ /\ inject_code' = "unknown" /\ UNCHANGED <<map, todo, set_pairs>>
  /\ UNCHANGED <<reader, readVars>>

\* Mutant: set replaces the value of a key that the map has.
Set_Overwrites(k, v) ==
  /\ inject_code = "running" /\ k \in todo
  /\ \/ /\ map' = IF k \in KeysOf(map)
                   THEN [i \in DOMAIN map |-> IF map[i][1] = k THEN <<k, v>> ELSE map[i]]
                   ELSE Append(map, <<k, v>>)
        /\ set_pairs' = set_pairs \cup {<<k, v>>}
        /\ todo' = todo \ {k}
        /\ inject_code' = IF todo' = {} THEN "success" ELSE "running"
     \/ /\ inject_code' = "unknown" /\ UNCHANGED <<map, todo, set_pairs>>
  /\ UNCHANGED <<reader, readVars>>

\* text_map_writer_set: refuses a key the map has, and fails when the map
\* cannot insert.  The tracer gives up at an error and is done after its last
\* key.
Set(k, v) ==
  /\ inject_code = "running"
  /\ k \in todo
  /\ \/ /\ k \notin KeysOf(map)
        /\ map' = Append(map, <<k, v>>)
        /\ set_pairs' = set_pairs \cup {<<k, v>>}
        /\ todo' = todo \ {k}
        /\ inject_code' = IF todo' = {} THEN "success" ELSE "running"
     \/ /\ inject_code' = "unknown"
        /\ UNCHANGED <<map, todo, set_pairs>>
  /\ UNCHANGED <<reader, readVars>>

-----------------------------------------------------------------------------
(* The reader. *)

\* text_map_reader_init stores the functions at the address of its own
\* parameter, not of the reader.  They overwrite the parameter, so the last
\* store reaches the reader only if the compiler has kept the pointer.  (The
\* outcome that crashes the program is left out: nothing follows it.)
ReaderInit ==
  /\ reader = RawReader
  /\ reader' \in {RawReader, [RawReader EXCEPT !.map = "set"]}
  /\ UNCHANGED <<writeVars, readVars>>

\* The tracer's extract calls foreach_key of a reader that has one.
ForeachKey ==
  /\ at = "idle"
  /\ inject_code # "running"
  /\ reader.foreach_key # Garbage
  /\ calls' = <<>>
  /\ entry' = Garbage
  /\ \/ /\ it' = map
        /\ iterators' = iterators + 1
        /\ at' = "has_next"
        /\ UNCHANGED return_code
     \/ /\ return_code' = "unknown"
        /\ at' = "returned"
        /\ UNCHANGED <<it, iterators>>
  /\ UNCHANGED <<writeVars, reader>>

\* Mutant: the loop ends with the iterator's last pair.
HasNext_StopsEarly ==
  /\ at = "has_next"
  /\ IF Len(it) <= 1
     THEN at' = "cleanup" /\ return_code' = "success"
     ELSE at' = "call" /\ UNCHANGED return_code
  /\ UNCHANGED <<writeVars, reader, it, entry, calls, iterators>>

\* text_map_iterator_has_next(it)
HasNext ==
  /\ at = "has_next"
  /\ IF it = <<>>
     THEN at' = "cleanup" /\ return_code' = "success"
     ELSE at' = "call" /\ UNCHANGED return_code
  /\ UNCHANGED <<writeVars, reader, it, entry, calls, iterators>>

\* Mutant: the handler's error does not end the loop.
CallHandler_GoesOn ==
  /\ at = "call"
  /\ \E rc \in Codes :
       /\ calls' = Append(calls, [entry |-> entry, code |-> rc])
       /\ return_code' = rc
  /\ at' = "next"
  /\ UNCHANGED <<writeVars, reader, it, entry, iterators>>

\* Mutant: the handler's error is returned at once, without the cleanup.
CallHandler_Returns ==
  /\ at = "call"
  /\ \E rc \in Codes :
       /\ calls' = Append(calls, [entry |-> entry, code |-> rc])
       /\ return_code' = rc
       /\ at' = IF rc = "success" THEN "next" ELSE "returned"
  /\ UNCHANGED <<writeVars, reader, it, entry, iterators>>

\* Mutant: an entry that is not set is skipped by a continue that also skips
\* the call of next, as in a while loop that moves the iterator at its end.
CallHandler_SkipsUnset ==
  /\ at = "call"
  /\ IF entry = Garbage
     THEN at' = "has_next" /\ UNCHANGED <<calls, return_code>>
     ELSE \E rc \in Codes :
            /\ calls' = Append(calls, [entry |-> entry, code |-> rc])
            /\ return_code' = rc
            /\ at' = IF rc = "success" THEN "next" ELSE "cleanup"
  /\ UNCHANGED <<writeVars, reader, it, entry, iterators>>

\* return_code = f(arg, key, value), with whatever the variables hold.
CallHandler ==
  /\ at = "call"
  /\ \E rc \in Codes :
       /\ calls' = Append(calls, [entry |-> entry, code |-> rc])
       /\ return_code' = rc
       /\ at' = IF rc = "success" THEN "next" ELSE "cleanup"
  /\ UNCHANGED <<writeVars, reader, it, entry, iterators>>

\* text_map_iterator_next(it, &key, &value), after the loop's body.
NextEntry ==
  /\ at = "next"
  /\ entry' = Head(it)
  /\ it' = Tail(it)
  /\ at' = "has_next"
  /\ UNCHANGED <<writeVars, reader, calls, return_code, iterators>>

\* cleanup: text_map_iterator_destroy(it)
Cleanup ==
  /\ at = "cleanup"
  /\ iterators' = iterators - 1
  /\ at' = "returned"
  /\ UNCHANGED <<writeVars, reader, it, entry, calls, return_code>>

\* The tracer goes on with the code it was returned.
Return ==
  /\ at = "returned"
  /\ at' = "idle"
  /\ UNCHANGED <<writeVars, reader, it, entry, calls, return_code, iterators>>

ForeachStep == HasNext \/ CallHandler \/ NextEntry \/ Cleanup \/ Return

Next ==
  \/ \E ks \in SUBSET Keys : Inject(ks)
  \/ \E k \in Keys, v \in Values : Set(k, v)
  \/ ReaderInit
  \/ ForeachKey
  \/ ForeachStep

\* foreach_key waits for nobody: once called it goes on.
Spec == Init /\ [][Next]_vars /\ WF_vars(ForeachStep)

-----------------------------------------------------------------------------
\* The types; the map has no key twice, although injections repeat keys.
TypeOK ==
  /\ map \in Seq(Pairs) /\ Cardinality(KeysOf(map)) = Len(map)
  /\ todo \subseteq Keys /\ set_pairs \subseteq Pairs
  /\ inject_code \in Codes \cup {"running"}
  /\ reader \in [foreach_key : {Garbage, "set"}, map : {Garbage, "set"}]
  /\ at \in {"idle", "has_next", "call", "next", "cleanup", "returned"}
  /\ it \in Seq(Pairs)
  /\ entry \in Pairs \cup {Garbage}
  /\ calls \in Seq([entry : Pairs \cup {Garbage}, code : Codes])
  /\ return_code \in Codes
  /\ iterators \in Nat

\* What an injection was told is set is in the map with the value it set,
\* also when later injections set the same key: set neither loses a pair nor
\* overwrites one.
InjectedIsInMap == set_pairs \subseteq ToSet(map)

\* The handler is not called again after it has returned an error, and
\* foreach_key returns that error, or success when there was none.
FirstErrorReturned ==
  (at = "returned" /\ calls # <<>>) =>
    /\ \A i \in 1..Len(calls) - 1 : calls[i].code = "success"
    /\ return_code = Last(calls).code

\* Every path through foreach_key destroys the iterator it got.
IteratorsBalanced ==
  iterators = IF at \in {"has_next", "call", "next", "cleanup"} THEN 1 ELSE 0

\* The pairs that the handler gets are the first of the map, in the map's
\* order, none left out and none twice, and a foreach_key that succeeds calls
\* it as often as the map has pairs.  At most one call, the first, may come
\* without a pair: that one is DeliversContents's.
DeliversInOrder ==
  at = "returned" =>
    /\ \E skipped \in {0, 1} :
         /\ skipped <= Len(calls) /\ Len(calls) - skipped <= Len(map)
         /\ \A i \in 1..Len(calls) :
              calls[i].entry = IF i <= skipped THEN Garbage ELSE map[i - skipped]
    /\ return_code = "success" => Len(calls) = Len(map)

\* A call of foreach_key ends.
ForeachEnds == at = "has_next" ~> at = "returned"

\* propagation.h: foreach_key "returns text map contents via repeated calls to
\* the handler function".  When it succeeds the handler has got the pairs of
\* the map, each once, and nothing else.
DeliversContents ==
  (at = "returned" /\ return_code = "success") =>
    [i \in 1..Len(calls) |-> calls[i].entry] = map
=============================================================================
