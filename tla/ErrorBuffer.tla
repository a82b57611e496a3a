----------------------------- MODULE ErrorBuffer ----------------------------
(***************************************************************************)
(* COPY_ERROR of dynamic_load.c: copying a message into the caller's       *)
(* error_buffer, byte for byte and with C's integer conversions.  The      *)
(* buffer outlives the call: the caller passes it to several loads, so a   *)
(* short message is copied over what a longer one left.                    *)
(*                                                                         *)
(* A message is represented by its strlen: byte i of the message of length *)
(* n is <<n, i>>.  Memory is the function "buffer"; a write outside the    *)
(* caller's buffer enlarges its domain.                                    *)
(***************************************************************************)
EXTENDS Integers

CONSTANTS MinLength, MaxLength,   \* lengths of the buffers that callers have
          MaxStrlen,              \* the longest message
          IntMax, SizeMax         \* the largest int and the largest size_t

ASSUME ErrorBufferAssumption ==
  /\ MinLength \in Nat /\ MaxLength \in Nat /\ MaxStrlen \in Nat
  /\ IntMax \in Nat /\ SizeMax \in Nat
  /\ MaxLength <= IntMax /\ MaxStrlen < IntMax /\ IntMax < SizeMax

\* A message is never longer than an int can count: the loader's messages
\* and the literals of dynamic_load.c are a few hundred bytes.
Lengths == 0..MaxStrlen

Nul    == <<-1, 0>>   \* '\0'
Old    == <<-1, 1>>   \* what the buffer held before its first use
Beyond == <<-1, 2>>   \* what lies in memory after a message
Bytes  == {Nul, Old} \cup (Lengths \X Lengths)
None   == -1          \* no message

VARIABLES
  given,                 \* error_buffer is not NULL
  error_buffer_length,
  buffer,                \* the bytes from error_buffer on
  message                \* history: the message last copied

vars == <<given, error_buffer_length, buffer, message>>

\* Conversions: size_t to int keeps the low bits, a negative int to size_t
\* becomes a large one.
ToInt(n) == LET low == n % (2 * (IntMax + 1))
            IN  IF low > IntMax THEN low - 2 * (IntMax + 1) ELSE low
ToSize(n) == IF n < 0 THEN n + SizeMax + 1 ELSE n

Source(n, i) == IF i < n THEN <<n, i>> ELSE IF i = n THEN Nul ELSE Beyond

memcpy(n, size) ==
  [i \in DOMAIN buffer \cup 0..size - 1 |-> IF i < size THEN Source(n, i) ELSE buffer[i]]

\* A store of c at index k of the memory m.
Store(m, k, c) == [i \in DOMAIN m \cup {k} |-> IF i = k THEN c ELSE m[i]]

\* Mutant: the terminator is not counted.
Copied_NoTerminator(n) ==
  IF ToInt(n) > error_buffer_length
  THEN Store(memcpy(n, ToSize(error_buffer_length - 1)), error_buffer_length - 1, Nul)
  ELSE memcpy(n, ToSize(ToInt(n)))

\* Mutant: the terminator is written one past the end.
Copied_OffByOne(n) ==
  IF ToInt(n + 1) > error_buffer_length
  THEN Store(memcpy(n, ToSize(error_buffer_length)), error_buffer_length, Nul)
  ELSE memcpy(n, ToSize(ToInt(n + 1)))

\* The memory after the message of length n has been copied.
Copied(n) ==
  LET error_len == ToInt(n + 1) IN
  IF error_len > error_buffer_length
  THEN Store(memcpy(n, ToSize(error_buffer_length - 1)), error_buffer_length - 1, Nul)
  ELSE memcpy(n, ToSize(error_len))

-----------------------------------------------------------------------------
\* assert(error_buffer != NULL || error_buffer_length == 0)
Init ==
  /\ given \in BOOLEAN
  /\ error_buffer_length \in IF given THEN MinLength..MaxLength ELSE {0}
  /\ buffer = [i \in 0..error_buffer_length - 1 |-> Old]
  /\ message = None

\* COPY_ERROR() with error set.  With error NULL it does nothing.
CopyError(n) ==
  /\ given
  /\ buffer' = Copied(n)
  /\ message' = n
  /\ UNCHANGED <<given, error_buffer_length>>

\* COPY_ERROR() without a buffer.
NoBuffer == ~given /\ UNCHANGED vars

Next == (\E n \in Lengths : CopyError(n)) \/ NoBuffer

Spec == Init /\ [][Next]_vars

-----------------------------------------------------------------------------
\* Nothing is written outside error_buffer[0..error_buffer_length-1], and
\* nothing is read past the end of a message (the module's type invariant).
WritesInBounds == buffer \in [0..error_buffer_length - 1 -> Bytes]

\* The message the buffer has room for.
Shown == IF message < error_buffer_length THEN message ELSE error_buffer_length - 1

\* As a C string the buffer holds the last message, cut only when it and its
\* terminator do not fit, and shows nothing of a longer message before it.
HoldsMessage ==
  message # None =>
    /\ \A i \in 0..Shown - 1 : buffer[i] = <<message, i>>
    /\ buffer[Shown] = Nul
=============================================================================
