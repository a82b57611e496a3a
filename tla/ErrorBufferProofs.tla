-------------------------- MODULE ErrorBufferProofs -------------------------
(***************************************************************************)
(* For every buffer of at least one byte, every int and size_t and every   *)
(* message an int can count, COPY_ERROR stays inside the buffer and leaves *)
(* the message in it, cut to fit and terminated.  MinLength >= 1, that     *)
(* every caller's buffer has room for the terminator, is a hypothesis of   *)
(* the theorems: ErrorBufferZero.cfg shows what happens without it.        *)
(***************************************************************************)
EXTENDS ErrorBuffer, TLAPS

\* The conversions change nothing when the value fits.
LEMMA ToIntFits == ASSUME NEW n \in 0..IntMax PROVE ToInt(n) = n
<1>1. n % (2 * (IntMax + 1)) = n
  BY ErrorBufferAssumption
<1>. QED
  BY <1>1, ErrorBufferAssumption DEF ToInt

\* The domain of the memory: that of the caller's buffer.
LEMMA CopyStaysInside ==
  ASSUME error_buffer_length \in 1..IntMax,
         DOMAIN buffer = 0..error_buffer_length - 1,
         NEW n \in Lengths
  PROVE  DOMAIN Copied(n) = 0..error_buffer_length - 1
<1>. DEFINE L == error_buffer_length
<1>1. ToInt(n + 1) = n + 1
  BY ToIntFits, ErrorBufferAssumption DEF Lengths
<1>2. ToSize(L - 1) = L - 1 /\ ToSize(n + 1) = n + 1
  BY DEF ToSize, Lengths
<1>3. CASE n + 1 > L
  <2>1. Copied(n) = Store(memcpy(n, L - 1), L - 1, Nul)
    BY <1>1, <1>2, <1>3 DEF Copied
  <2>2. DOMAIN memcpy(n, L - 1) = 0..L - 1
    BY DEF memcpy
  <2>3. DOMAIN Copied(n) = DOMAIN memcpy(n, L - 1) \cup {L - 1}
    BY <2>1 DEF Store
  <2>. QED
    BY <2>2, <2>3
<1>4. CASE ~(n + 1 > L)
  <2>1. Copied(n) = memcpy(n, n + 1)
    BY <1>1, <1>2, <1>4 DEF Copied
  <2>. QED
    BY <1>4, <2>1 DEF memcpy, Lengths
<1>. QED
  BY <1>3, <1>4

\* Each byte after the copy: the message as far as it fits, its terminator,
\* and what was there before.
LEMMA CopiedBytes ==
  ASSUME error_buffer_length \in 1..IntMax,
         DOMAIN buffer = 0..error_buffer_length - 1,
         NEW n \in Lengths, NEW i \in 0..error_buffer_length - 1
  PROVE  LET last == IF n < error_buffer_length THEN n ELSE error_buffer_length - 1
         IN  Copied(n)[i] = IF i < last THEN <<n, i>> ELSE IF i = last THEN Nul ELSE buffer[i]
<1>. DEFINE L == error_buffer_length
<1>1. ToInt(n + 1) = n + 1
  BY ToIntFits, ErrorBufferAssumption DEF Lengths
<1>2. ToSize(L - 1) = L - 1 /\ ToSize(n + 1) = n + 1
  BY DEF ToSize, Lengths
<1>3. CASE n + 1 > L
  <2>1. Copied(n) = Store(memcpy(n, L - 1), L - 1, Nul)
    BY <1>1, <1>2, <1>3 DEF Copied
  <2>2. DOMAIN memcpy(n, L - 1) = 0..L - 1
    BY DEF memcpy
  <2>3. Copied(n)[i] = IF i = L - 1 THEN Nul ELSE memcpy(n, L - 1)[i]
    BY <2>1, <2>2 DEF Store
  <2>4. i < L - 1 => memcpy(n, L - 1)[i] = <<n, i>>
    BY <1>3 DEF memcpy, Source, Lengths
  <2>. QED
    BY <1>3, <2>3, <2>4 DEF Lengths
<1>4. CASE ~(n + 1 > L)
  <2>1. Copied(n) = memcpy(n, n + 1)
    BY <1>1, <1>2, <1>4 DEF Copied
  <2>2. memcpy(n, n + 1)[i] = IF i < n + 1 THEN Source(n, i) ELSE buffer[i]
    BY DEF memcpy
  <2>. QED
    BY <1>4, <2>1, <2>2 DEF Source, Lengths
<1>. QED
  BY <1>3, <1>4

-----------------------------------------------------------------------------
LengthOK ==
  /\ given \in BOOLEAN
  /\ error_buffer_length \in Nat
  /\ error_buffer_length <= IntMax
  /\ given => error_buffer_length >= 1

\* The inductive invariant: a buffer that is written has room for a byte.
IInv ==
  /\ LengthOK
  /\ WritesInBounds
  /\ message \in Lengths \cup {None}
  /\ ~given => message = None
  /\ HoldsMessage

\* The invariant holds at the start.
LEMMA InvHoldsInitially == ASSUME MinLength >= 1 PROVE Init => IInv
BY ErrorBufferAssumption
   DEF Init, IInv, LengthOK, WritesInBounds, HoldsMessage, Bytes

\* Copying any message preserves it.
LEMMA CopyKeepsInv ==
  ASSUME IInv, NEW n \in Lengths, CopyError(n)
  PROVE  IInv'
<1>. DEFINE L == error_buffer_length
            last == IF n < L THEN n ELSE L - 1
<1>1. given /\ L \in 1..IntMax /\ n \in Nat
  BY ErrorBufferAssumption DEF IInv, LengthOK, CopyError, Lengths
<1>2. DOMAIN buffer = 0..L - 1 /\ \A i \in 0..L - 1 : buffer[i] \in Bytes
  BY DEF IInv, WritesInBounds
<1>3. UNCHANGED <<given, error_buffer_length>> /\ message' = n /\ buffer' = Copied(n)
  BY DEF CopyError
<1>4. DOMAIN Copied(n) = 0..L - 1
  BY <1>1, <1>2, CopyStaysInside
<1>5. \A i \in 0..L - 1 :
        Copied(n)[i] = IF i < last THEN <<n, i>> ELSE IF i = last THEN Nul ELSE buffer[i]
  BY <1>1, <1>2, CopiedBytes
<1>6. \A i \in 0..L - 1 : Copied(n)[i] \in Bytes
  <2>. SUFFICES ASSUME NEW i \in 0..L - 1 PROVE Copied(n)[i] \in Bytes
    OBVIOUS
  <2>1. ASSUME i < last PROVE <<n, i>> \in Bytes
    <3>1. i \in Lengths
      BY <1>1, <2>1, ErrorBufferAssumption DEF Lengths
    <3>2. <<n, i>> \in Lengths \X Lengths
      BY <3>1
    <3>. QED
      BY <3>2 DEF Bytes
  <2>2. Nul \in Bytes
    BY DEF Bytes
  <2>. QED
    BY <1>2, <1>5, <2>1, <2>2
<1>7. WritesInBounds'
  <2>1. Copied(n) = [i \in 0..L - 1 |-> Copied(n)[i]]
    BY <1>4 DEF Copied, Store, memcpy
  <2>. QED
    BY <1>3, <1>6, <2>1 DEF WritesInBounds
<1>8. Shown' = last /\ last \in 0..L - 1
  BY <1>1, <1>3 DEF Shown
<1>9. HoldsMessage'
  <2>. HIDE DEF last, L
  <2>1. ASSUME NEW i \in 0..last - 1 PROVE Copied(n)[i] = <<n, i>>
    <3>1. i \in 0..L - 1 /\ i < last
      BY <1>1, <1>8, <2>1
    <3>. QED
      BY <1>5, <3>1
  <2>2. Copied(n)[last] = Nul
    <3>1. ~(last < last)
      BY <1>1, <1>8
    <3>. QED
      BY <1>5, <1>8, <3>1
  <2>. QED
    BY <1>3, <1>8, <2>1, <2>2 DEF HoldsMessage
<1>. QED
  BY <1>1, <1>3, <1>7, <1>9 DEF IInv, LengthOK

\* So does every step.
LEMMA InvIsInductive == IInv /\ [Next]_vars => IInv'
<1>. SUFFICES ASSUME IInv, [Next]_vars PROVE IInv'
  OBVIOUS
<1>1. CASE \E n \in Lengths : CopyError(n)
  BY <1>1, CopyKeepsInv
<1>2. CASE UNCHANGED vars
  BY <1>2 DEF vars, IInv, LengthOK, WritesInBounds, HoldsMessage, Shown
<1>. QED
  BY <1>1, <1>2 DEF Next, NoBuffer

\* The inductive invariant holds in every state.
THEOREM InvAlways == ASSUME MinLength >= 1 PROVE Spec => []IInv
BY InvHoldsInitially, InvIsInductive, PTL DEF Spec

\* COPY_ERROR writes nothing outside a buffer of at least one byte and reads
\* nothing past the end of the message, however long either is.
THEOREM StaysInBounds == ASSUME MinLength >= 1 PROVE Spec => []WritesInBounds
<1>1. IInv => WritesInBounds
  BY DEF IInv
<1>. QED
  BY <1>1, InvAlways, PTL

\* After each copy the buffer holds the message, cut to fit and terminated,
\* whatever messages were copied before.
THEOREM ShowsLastMessage == ASSUME MinLength >= 1 PROVE Spec => []HoldsMessage
<1>1. IInv => HoldsMessage
  BY DEF IInv
<1>. QED
  BY <1>1, InvAlways, PTL
=============================================================================
