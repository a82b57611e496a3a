-------------------------- MODULE DynamicLoadProofs -------------------------
(***************************************************************************)
(* For any threads, handles and libraries, trusted or not, and any caller  *)
(* that keeps its handles to one load at a time: the loader's references   *)
(* balance, a trusted factory is in memory, a failed load leaves nothing   *)
(* of its own in the handle, the message is about this load, and to the    *)
(* owner of the handle the load is one step.                               *)
(***************************************************************************)
EXTENDS DynamicLoad, FiniteSetTheorems, TLAPS

\* Two loads in progress are on two handles.
Exclusive ==
  \A th, o \in Threads : call[th].h = call[o].h /\ call[th].h # None => th = o

\* What a thread's load has done so far, by its place in the function.
Phase(th) ==
  LET c == call[th]
      m == handle[c.h]
  IN
  /\ c.pc = "idle" => c.h = None
  /\ c.pc # "idle" => c.h \in Handles /\ c.lib \in Libs
  /\ c.pc \in {"dlopen", "dlsym", "hook", "copy", "close"} => weak
  /\ c.pc = "unsupported" => ~weak
  /\ c.pc \in {"dlopen", "unsupported"} => m = c.before
  /\ c.pc \in {"dlsym", "hook"} => m.lib_handle = c.lib /\ m.factory = c.before.factory
  /\ c.pc \in {"copy", "close"} =>
       /\ m.lib_handle \in {None, c.lib}
       /\ m.factory \in Trusted \cup {Garbage} => m.factory = c.before.factory
       /\ c.return_code # "success"
  /\ c.pc \in {"dlsym", "hook", "copy", "close"} =>
       (c.before.factory \in Trusted => lost[c.before.factory] > 0)

\* What a failed load leaves in its handle.
Outcome(th) ==
  (call[th].pc = "returned" /\ call[th].return_code # "success") =>
    LET m == handle[call[th].h] IN
    /\ m.lib_handle = IF weak THEN None ELSE call[th].before.lib_handle
    /\ m.factory \in Trusted \cup {Garbage} => m.factory = call[th].before.factory

\* What is in the caller's buffer, and the message on its way there.
Message(th) ==
  LET c == call[th] IN
  /\ c.error # "earlier" /\ c.error_buffer # "earlier"
  /\ (c.pc \in {"dlopen", "dlsym", "hook"} \/ (c.pc = "returned" /\ c.return_code = "success")) =>
       c.error_buffer \in {"absent", "untouched", "hook"}

FactoryOwned ==
  \A h \in Handles : handle[h].factory \in Trusted =>
    handle[h].lib_handle = handle[h].factory \/ lost[handle[h].factory] > 0

\* The inductive invariant.
LoadIInv ==
  /\ TypeOK
  /\ Exclusive
  /\ \A th \in Threads : Phase(th) /\ Outcome(th) /\ Message(th)
  /\ FactoryOwned
  /\ ReferencesOwned

-----------------------------------------------------------------------------
(* Counting owners. *)

\* Before and after a step.
LEMMA OwnersAreFinite ==
  ASSUME NEW l
  PROVE  /\ Cardinality(Owners(l)) \in Nat
         /\ Cardinality(Owners(l))' \in Nat
<1>1. IsFiniteSet(Owners(l))
  BY DynamicLoadAssumption, FS_Subset DEF Owners
<1>2. IsFiniteSet(Owners(l)')
  BY DynamicLoadAssumption, FS_Subset DEF Owners
<1>. QED
  BY <1>1, <1>2, FS_CardinalityType

One(b) == IF b THEN 1 ELSE 0

\* When one handle's lib_handle changes, so do the counts of the library it
\* had and of the one it has, by one.
LEMMA OwnersAfterStore ==
  ASSUME NEW h \in Handles,
         \A k \in Handles \ {h} : handle'[k].lib_handle = handle[k].lib_handle,
         NEW l
  PROVE  Cardinality(Owners(l))' =
           Cardinality(Owners(l)) + One(handle'[h].lib_handle = l)
                                  - One(handle[h].lib_handle = l)
<1>. DEFINE Others == {k \in Handles \ {h} : handle[k].lib_handle = l}
<1>1. IsFiniteSet(Others) /\ Cardinality(Others) \in Nat /\ h \notin Others
  BY DynamicLoadAssumption, FS_Subset, FS_CardinalityType
<1>2. Cardinality(Others \cup {h}) = Cardinality(Others) + 1
  BY <1>1, FS_AddElement
<1>3. Cardinality(Owners(l)) = Cardinality(Others) + One(handle[h].lib_handle = l)
  <2>1. Owners(l) = IF handle[h].lib_handle = l THEN Others \cup {h} ELSE Others
    BY DEF Owners
  <2>. QED
    BY <2>1, <1>1, <1>2 DEF One
<1>4. Cardinality(Owners(l))' = Cardinality(Others) + One(handle'[h].lib_handle = l)
  <2>1. Owners(l)' = IF handle'[h].lib_handle = l THEN Others \cup {h} ELSE Others
    BY DEF Owners
  <2>. QED
    BY <2>1, <1>1, <1>2 DEF One
<1>. QED
  BY <1>1, <1>3, <1>4 DEF One

\* Nothing changes for the counts when no lib_handle does.
LEMMA OwnersSame ==
  ASSUME \A k \in Handles : handle'[k].lib_handle = handle[k].lib_handle, NEW l
  PROVE  Cardinality(Owners(l))' = Cardinality(Owners(l))
BY DEF Owners

-----------------------------------------------------------------------------
(* A step of one thread on one handle that no other load is filling. *)

\* It leaves what is known of the other threads and of the other handles.
LEMMA StepKeepsOthers ==
  ASSUME LoadIInv, TypeOK', NEW th \in Threads, NEW h,
         \A o \in Threads \ {th} : call'[o] = call[o],
         \A o \in Threads \ {th} : call[o].pc # "idle" => call[o].h # h,
         \A o \in Threads \ {th} : call'[th].h # None => call[o].h # call'[th].h,
         \A k \in Handles : k # h => handle'[k] = handle[k],
         weak' = weak, \A l \in Libs : lost'[l] >= lost[l],
         Phase(th)', Outcome(th)', Message(th)',
         h \in Handles /\ handle'[h].factory \in Trusted =>
           handle'[h].lib_handle = handle'[h].factory \/ lost'[handle'[h].factory] > 0,
         ReferencesOwned'
  PROVE  LoadIInv'
<1>1. Exclusive'
  BY DEF LoadIInv, Exclusive
<1>2. ASSUME NEW o \in Threads \ {th} PROVE (Phase(o) /\ Outcome(o) /\ Message(o))'
  <2>1. Phase(o) /\ Outcome(o) /\ Message(o) /\ call'[o] = call[o]
    BY DEF LoadIInv
  <2>2. call[o].pc # "idle" => handle'[call[o].h] = handle[call[o].h]
    BY <2>1 DEF Phase
  <2>3. call[o].before.factory \in Trusted /\ lost[call[o].before.factory] > 0 =>
          lost'[call[o].before.factory] > 0
    BY DynamicLoadAssumption DEF LoadIInv, TypeOK
  <2>4. Phase(o)'
    BY <2>1, <2>2, <2>3 DEF Phase
  <2>5. Outcome(o)'
    BY <2>1, <2>2 DEF Outcome
  <2>. QED
    BY <2>1, <2>4, <2>5 DEF Message
<1>3. FactoryOwned'
  <2>. SUFFICES ASSUME NEW k \in Handles, k # h, handle'[k].factory \in Trusted
                PROVE  handle'[k].lib_handle = handle'[k].factory
                         \/ lost'[handle'[k].factory] > 0
    BY DEF FactoryOwned
  <2>1. handle[k].lib_handle = handle[k].factory \/ lost[handle[k].factory] > 0
    BY DEF LoadIInv, FactoryOwned
  <2>2. handle[k].factory \in Libs
    BY DynamicLoadAssumption
  <2>. QED
    BY <2>1, <2>2 DEF LoadIInv, TypeOK
<1>. QED
  BY <1>1, <1>2, <1>3 DEF LoadIInv

\* When no lib_handle, count or lost reference changes, the counts stay right.
LEMMA CountsSame ==
  ASSUME ReferencesOwned, UNCHANGED <<refs, lost>>,
         \A k \in Handles : handle'[k].lib_handle = handle[k].lib_handle
  PROVE  ReferencesOwned'
BY OwnersSame DEF ReferencesOwned

\* A handle that takes no library in, and the count of the one it had goes
\* down, keeps the counts right, and that count was not zero.
LEMMA CountsAfterClose ==
  ASSUME LoadIInv, NEW h \in Handles, handle[h].lib_handle \in Libs \cup {None},
         handle'[h].lib_handle = None, UNCHANGED lost,
         \A k \in Handles \ {h} : handle'[k] = handle[k],
         refs' = IF handle[h].lib_handle = None THEN refs
                 ELSE [refs EXCEPT ![handle[h].lib_handle] = @ - 1]
  PROVE  ReferencesOwned' /\ refs' \in [Libs -> Nat]
<1>1. refs \in [Libs -> Nat] /\ lost \in [Libs -> Nat] /\ ReferencesOwned
  BY DEF LoadIInv, TypeOK
<1>2. \A l \in Libs : /\ Cardinality(Owners(l)) \in Nat
                      /\ Cardinality(Owners(l))' \in Nat
  BY OwnersAreFinite
<1>3. \A l \in Libs : Cardinality(Owners(l))' =
          Cardinality(Owners(l)) - One(handle[h].lib_handle = l)
  <2>. SUFFICES ASSUME NEW l \in Libs
                PROVE  Cardinality(Owners(l))' =
                         Cardinality(Owners(l)) - One(handle[h].lib_handle = l)
    OBVIOUS
  <2>1. handle'[h].lib_handle # l
    BY DynamicLoadAssumption
  <2>. QED
    BY <2>1, <1>2, OwnersAfterStore DEF One
<1>4. \A l \in Libs : refs'[l] = refs[l] - One(handle[h].lib_handle = l)
  BY <1>1, DynamicLoadAssumption DEF One
<1>5. ReferencesOwned'
  BY <1>1, <1>2, <1>3, <1>4 DEF ReferencesOwned, One
<1>6. \A l \in Libs : refs'[l] \in Nat
  BY <1>1, <1>2, <1>5 DEF ReferencesOwned
<1>7. DOMAIN refs' = Libs /\ refs' = [l \in Libs |-> refs'[l]]
  BY <1>1
<1>. QED
  BY <1>5, <1>6, <1>7

\* No other load is filling the handle of this one.
LEMMA OwnHandle ==
  ASSUME LoadIInv, NEW th \in Threads, NEW o \in Threads \ {th},
         call[th].pc # "idle", call[o].pc # "idle"
  PROVE  call[o].h # call[th].h
BY DynamicLoadAssumption DEF LoadIInv, Exclusive, Phase

-----------------------------------------------------------------------------
(* One lemma per action. *)

LEMMA LoadInvInitially == Init => LoadIInv
<1>. SUFFICES ASSUME Init PROVE LoadIInv
  OBVIOUS
<1>1. TypeOK
  BY DynamicLoadAssumption DEF Init, TypeOK, Members, Pointers, Null, Frames, Frame,
    Idle, Labels, ReturnCodes, Buffers, Messages
<1>2. Exclusive /\ \A th \in Threads : Phase(th) /\ Outcome(th) /\ Message(th)
  BY DEF Init, Idle, Frame, Exclusive, Phase, Outcome, Message
<1>3. FactoryOwned
  BY DynamicLoadAssumption DEF Init, FactoryOwned, Null
<1>4. ReferencesOwned
  <2>. SUFFICES ASSUME NEW l \in Libs PROVE refs[l] = Cardinality(Owners(l)) + lost[l]
    BY DEF ReferencesOwned
  <2>1. Owners(l) = {}
    BY DynamicLoadAssumption DEF Owners, Init, Null
  <2>. QED
    BY <2>1, FS_EmptySet DEF Init
<1>. QED
  BY <1>1, <1>2, <1>3, <1>4 DEF LoadIInv

LEMMA AppDlFailurePreserves ==
  ASSUME LoadIInv, NEW th \in Threads, AppDlFailure(th) PROVE LoadIInv'
<1>1. UNCHANGED <<weak, refs, handle, call, lost>> /\ ReferencesOwned /\ TypeOK
  BY DEF AppDlFailure, LoadIInv
<1>2. TypeOK'
  BY DEF AppDlFailure, LoadIInv, TypeOK
<1>3. ReferencesOwned'
  BY <1>1, CountsSame
<1>. QED
  BY <1>1, <1>2, <1>3 DEF LoadIInv, Exclusive, Phase, Outcome, Message, FactoryOwned

LEMMA LoadCallPreserves ==
  ASSUME LoadIInv, NEW th \in Threads, NEW lib \in Libs, NEW h \in Handles,
         NEW b \in BOOLEAN, LoadCall(th, lib, h, b)
  PROVE  LoadIInv'
<1>. DEFINE frame == Frame(IF weak THEN "dlopen" ELSE "unsupported", h, lib, handle[h],
                           IF b THEN "untouched" ELSE "absent")
<1>1. /\ TypeOK /\ ReferencesOwned
      /\ UNCHANGED <<weak, refs, pending, handle, lost>>
      /\ call' = [call EXCEPT ![th] = frame]
      /\ \A o \in Threads : call[o].h # h
  BY DEF LoadCall, LoadIInv, Free
<1>2. frame \in Frames
  BY <1>1 DEF TypeOK, Frames, Frame, Labels, ReturnCodes, Buffers, Messages
<1>3. call'[th] = frame /\ \A o \in Threads \ {th} : call'[o] = call[o]
  BY <1>1 DEF TypeOK
<1>4. TypeOK'
  BY <1>1, <1>2 DEF TypeOK
<1>5. Phase(th)' /\ Outcome(th)' /\ Message(th)'
  BY <1>1, <1>3 DEF Phase, Outcome, Message, Frame, TypeOK
<1>6. ReferencesOwned'
  BY <1>1, CountsSame
<1>7. handle[h].factory \in Trusted =>
        handle[h].lib_handle = handle[h].factory \/ lost[handle[h].factory] > 0
  BY DEF LoadIInv, FactoryOwned
<1>8. frame.h = h
  BY DEF Frame
<1>9. \A l \in Libs : lost'[l] >= lost[l]
  BY <1>1 DEF TypeOK
<1>. HIDE DEF frame
<1>. QED
  BY <1>1, <1>3, <1>4, <1>5, <1>6, <1>7, <1>8, <1>9, StepKeepsOthers

\* A step that changes nothing but its own frame, and not whose handle it is.
LEMMA FrameStepPreserves ==
  ASSUME LoadIInv, NEW th \in Threads, NEW frame \in Frames, call[th].pc # "idle",
         call' = [call EXCEPT ![th] = frame], frame.h \in {call[th].h, None},
         UNCHANGED <<weak, refs, handle, lost>>, pending' \in [Threads -> {"none", "earlier"}],
         Phase(th)', Outcome(th)', Message(th)'
  PROVE  LoadIInv'
<1>1. TypeOK /\ ReferencesOwned /\ FactoryOwned
  BY DEF LoadIInv
<1>2. TypeOK'
  BY <1>1 DEF TypeOK
<1>3. call'[th] = frame /\ \A o \in Threads \ {th} : call'[o] = call[o]
  BY <1>1 DEF TypeOK
<1>4. ReferencesOwned'
  BY <1>1, CountsSame
<1>5. \A o \in Threads \ {th} : call[o].pc # "idle" => call[o].h # call[th].h
  BY OwnHandle
<1>6. \A o \in Threads \ {th} : frame.h # None => call[o].h # frame.h
  BY <1>5 DEF LoadIInv, Phase
<1>7. \A l \in Libs : lost'[l] >= lost[l]
  BY <1>1 DEF TypeOK
<1>. QED
  BY <1>1, <1>2, <1>3, <1>4, <1>5, <1>6, <1>7, StepKeepsOthers DEF FactoryOwned

LEMMA NotSupportedPreserves ==
  ASSUME LoadIInv, NEW th \in Threads, NotSupported(th) PROVE LoadIInv'
<1>. DEFINE frame == call'[th]
<1>1. TypeOK /\ call[th] \in Frames /\ Phase(th) /\ Outcome(th) /\ Message(th)
  BY DEF LoadIInv, TypeOK
<1>2. call[th].pc = "unsupported" /\ UNCHANGED <<weak, refs, pending, handle, lost>>
  BY DEF NotSupported, At
<1>3. /\ frame = [call[th] EXCEPT !.error_buffer = CopiedError(call[th], "literal"),
                                  !.return_code = "not_supported", !.pc = "returned"]
      /\ call' = [call EXCEPT ![th] = frame]
  BY <1>1 DEF NotSupported, TypeOK
<1>4. frame \in Frames /\ frame.h = call[th].h
  BY <1>1, <1>3 DEF Frames, Labels, ReturnCodes, Failures, CopiedError, Buffers, Messages
<1>5. Phase(th)' /\ Outcome(th)' /\ Message(th)'
  BY <1>1, <1>2, <1>3 DEF Phase, Outcome, Message, CopiedError, Frames
<1>. HIDE DEF frame
<1>. QED
  BY <1>1, <1>2, <1>3, <1>4, <1>5, FrameStepPreserves DEF TypeOK

LEMMA DlSymPreserves ==
  ASSUME LoadIInv, NEW th \in Threads, DlSym(th) PROVE LoadIInv'
<1>. DEFINE frame == call'[th]
<1>1. TypeOK /\ call[th] \in Frames /\ Phase(th) /\ Outcome(th) /\ Message(th)
  BY DEF LoadIInv, TypeOK
<1>2. /\ call[th].pc = "dlsym" /\ UNCHANGED <<weak, refs, handle, lost>>
      /\ pending' \in [Threads -> {"none", "earlier"}]
  BY <1>1 DEF DlSym, At, TypeOK
<1>3. /\ \/ frame = [call[th] EXCEPT !.pc = "hook"]
         \/ \E msg \in {"dlsym", "none"} :
              frame = [call[th] EXCEPT !.pc = "copy", !.error = msg,
                                       !.return_code = "failure"]
      /\ call' = [call EXCEPT ![th] = frame]
  BY <1>1 DEF DlSym, TypeOK
<1>4. frame \in Frames /\ frame.h = call[th].h
  BY <1>1, <1>3 DEF Frames, Labels, ReturnCodes, Failures, Messages
<1>5. Phase(th)' /\ Outcome(th)' /\ Message(th)'
  BY <1>1, <1>2, <1>3 DEF Phase, Outcome, Message, Frames
<1>. HIDE DEF frame
<1>. QED
  BY <1>1, <1>2, <1>3, <1>4, <1>5, FrameStepPreserves

LEMMA CopyErrorPreserves ==
  ASSUME LoadIInv, NEW th \in Threads, CopyError(th) PROVE LoadIInv'
<1>. DEFINE frame == call'[th]
<1>1. TypeOK /\ call[th] \in Frames /\ Phase(th) /\ Outcome(th) /\ Message(th)
  BY DEF LoadIInv, TypeOK
<1>2. call[th].pc = "copy" /\ UNCHANGED <<weak, refs, pending, handle, lost>>
  BY DEF CopyError, At
<1>3. /\ frame = [call[th] EXCEPT !.error_buffer = CopiedError(call[th], call[th].error),
                                  !.pc = "close"]
      /\ call' = [call EXCEPT ![th] = frame]
  BY <1>1 DEF CopyError, TypeOK
<1>4. frame \in Frames /\ frame.h = call[th].h
  BY <1>1, <1>3 DEF Frames, Labels, CopiedError, Buffers
<1>5. Phase(th)' /\ Outcome(th)' /\ Message(th)'
  BY <1>1, <1>2, <1>3 DEF Phase, Outcome, Message, CopiedError, Frames
<1>. HIDE DEF frame
<1>. QED
  BY <1>1, <1>2, <1>3, <1>4, <1>5, FrameStepPreserves DEF TypeOK

LEMMA ReturnPreserves ==
  ASSUME LoadIInv, NEW th \in Threads, Return(th) PROVE LoadIInv'
<1>1. TypeOK /\ call[th] \in Frames
  BY DEF LoadIInv, TypeOK
<1>2. /\ call[th].pc = "returned" /\ UNCHANGED <<weak, refs, pending, handle, lost>>
      /\ call' = [call EXCEPT ![th] = Idle]
  BY DEF Return, At
<1>3. Idle \in Frames /\ Idle.h = None
  BY DEF Idle, Frame, Frames, Labels, Members, Null, Pointers, ReturnCodes, Buffers, Messages
<1>4. Phase(th)' /\ Outcome(th)' /\ Message(th)'
  BY <1>1, <1>2 DEF Phase, Outcome, Message, Idle, Frame, TypeOK
<1>. QED
  BY <1>1, <1>2, <1>3, <1>4, FrameStepPreserves DEF TypeOK

\* A step of a load that writes to its handle.
LEMMA HandleStepPreserves ==
  ASSUME LoadIInv, NEW th \in Threads, NEW frame \in Frames, NEW m \in Members,
         call[th].pc # "idle", frame.h = call[th].h,
         call' = [call EXCEPT ![th] = frame],
         handle' = [handle EXCEPT ![call[th].h] = m],
         weak' = weak, pending' \in [Threads -> {"none", "earlier"}],
         refs' \in [Libs -> Nat], lost' \in [Libs -> Nat],
         \A l \in Libs : lost'[l] >= lost[l],
         Phase(th)', Outcome(th)', Message(th)', ReferencesOwned',
         m.factory \in Trusted => m.lib_handle = m.factory \/ lost'[m.factory] > 0
  PROVE  LoadIInv'
<1>1. TypeOK /\ call[th].h \in Handles
  BY DEF LoadIInv, Phase
<1>2. TypeOK'
  BY <1>1 DEF TypeOK
<1>3. /\ call'[th] = frame /\ \A o \in Threads \ {th} : call'[o] = call[o]
      /\ handle'[call[th].h] = m
      /\ \A k \in Handles : k # call[th].h => handle'[k] = handle[k]
  BY <1>1 DEF TypeOK
<1>4. \A o \in Threads \ {th} : call[o].pc # "idle" => call[o].h # call[th].h
  BY OwnHandle
<1>5. \A o \in Threads \ {th} : frame.h # None => call[o].h # frame.h
  BY <1>4 DEF LoadIInv, Phase
<1>. QED
  BY <1>1, <1>2, <1>3, <1>4, <1>5, StepKeepsOthers

LEMMA CallHookPreserves ==
  ASSUME LoadIInv, NEW th \in Threads, CallHook(th) PROVE LoadIInv'
<1>. DEFINE frame == call'[th]
            h == call[th].h
            m == handle'[h]
<1>1. /\ TypeOK /\ call[th] \in Frames /\ Phase(th) /\ Outcome(th) /\ Message(th)
      /\ call[th].pc = "hook" /\ FactoryOwned
  BY DEF LoadIInv, TypeOK, CallHook, At
<1>2. h \in Handles /\ call[th].lib \in Libs /\ handle[h] \in Members
  BY <1>1 DEF Phase, TypeOK
<1>3. UNCHANGED <<weak, refs, pending, lost>>
  BY DEF CallHook
<1>4. PICK f \in {call[th].lib, None}, rc \in ReturnCodes, writes \in BOOLEAN :
        /\ call[th].lib \in Trusted /\ rc # "success" => f = None
        /\ writes => call[th].error_buffer # "absent"
        /\ handle' = [handle EXCEPT ![h].factory = f]
        /\ call' = [call EXCEPT
             ![th].pc = IF rc = "success" /\ f # None THEN "returned" ELSE "copy",
             ![th].return_code = IF rc = "success" /\ f = None THEN "failure" ELSE rc,
             ![th].error = IF rc = "success" /\ f = None THEN "literal" ELSE "none",
             ![th].error_buffer = IF writes THEN "hook" ELSE @]
  BY DEF CallHook
<1>5. m = [handle[h] EXCEPT !.factory = f] /\ handle' = [handle EXCEPT ![h] = m]
  BY <1>1, <1>2, <1>4 DEF TypeOK
<1>6. /\ frame = [call[th] EXCEPT
             !.pc = IF rc = "success" /\ f # None THEN "returned" ELSE "copy",
             !.return_code = IF rc = "success" /\ f = None THEN "failure" ELSE rc,
             !.error = IF rc = "success" /\ f = None THEN "literal" ELSE "none",
             !.error_buffer = IF writes THEN "hook" ELSE @]
      /\ call' = [call EXCEPT ![th] = frame]
  BY <1>1, <1>4 DEF TypeOK
<1>7. frame \in Frames /\ frame.h = h
  BY <1>1, <1>6 DEF Frames, Labels, ReturnCodes, Failures, Messages, Buffers
<1>8. m \in Members /\ m.lib_handle = handle[h].lib_handle /\ m.factory = f
  BY <1>2, <1>5 DEF Members, Pointers
<1>9. /\ frame.lib = call[th].lib /\ frame.before = call[th].before
      /\ frame.pc = IF rc = "success" /\ f # None THEN "returned" ELSE "copy"
      /\ frame.return_code = IF rc = "success" /\ f = None THEN "failure" ELSE rc
      /\ frame.error \in {"literal", "none"}
      /\ frame.error_buffer \in {"hook", call[th].error_buffer}
  BY <1>1, <1>6 DEF Frames
<1>10. m.factory \in Trusted \cup {Garbage} => rc = "success" /\ f # None
  BY <1>2, <1>4, <1>8, DynamicLoadAssumption
<1>11. Phase(th)' /\ Outcome(th)' /\ Message(th)'
  <2>1. Phase(th)'
    BY <1>1, <1>2, <1>3, <1>7, <1>8, <1>9, <1>10 DEF Phase
  <2>2. Outcome(th)'
    BY <1>9 DEF Outcome
  <2>3. Message(th)'
    BY <1>1, <1>9 DEF Message
  <2>. QED
    BY <2>1, <2>2, <2>3
<1>12. ReferencesOwned'
  BY <1>2, <1>3, <1>5, <1>8, CountsSame DEF LoadIInv, TypeOK
<1>13. m.factory \in Trusted => m.lib_handle = m.factory \/ lost'[m.factory] > 0
  BY <1>1, <1>4, <1>8, DynamicLoadAssumption DEF Phase
<1>14. \A l \in Libs : lost'[l] >= lost[l]
  BY <1>1, <1>3 DEF TypeOK
<1>. HIDE DEF frame, m
<1>. QED
  BY <1>1, <1>2, <1>3, <1>5, <1>6, <1>7, <1>8, <1>11, <1>12, <1>13, <1>14,
     HandleStepPreserves DEF TypeOK

LEMMA CloseLibraryPreserves ==
  ASSUME LoadIInv, NEW th \in Threads, CloseLibrary(th) PROVE LoadIInv'
<1>. DEFINE frame == call'[th]
            h == call[th].h
            m == handle'[h]
<1>1. /\ TypeOK /\ call[th] \in Frames /\ Phase(th) /\ Outcome(th) /\ Message(th)
      /\ call[th].pc = "close"
  BY DEF LoadIInv, TypeOK, CloseLibrary, At
<1>2. h \in Handles /\ call[th].lib \in Libs /\ handle[h] \in Members
  BY <1>1 DEF Phase, TypeOK
<1>3. UNCHANGED <<weak, pending, lost>> /\ handle[h].lib_handle \in Libs \cup {None}
  BY <1>1, <1>2 DEF CloseLibrary, Phase
<1>4. /\ m = [handle[h] EXCEPT !.lib_handle = None]
      /\ handle' = [handle EXCEPT ![h] = m]
      /\ frame = [call[th] EXCEPT !.pc = "returned"]
      /\ call' = [call EXCEPT ![th] = frame]
      /\ refs' = IF handle[h].lib_handle = None THEN refs
                 ELSE [refs EXCEPT ![handle[h].lib_handle] = @ - 1]
  BY <1>1, <1>2 DEF CloseLibrary, TypeOK
<1>5. frame \in Frames /\ frame.h = h
  BY <1>1, <1>4 DEF Frames, Labels
<1>6. m \in Members /\ m.lib_handle = None /\ m.factory = handle[h].factory
  BY <1>2, <1>4 DEF Members, Pointers
<1>7. ReferencesOwned' /\ refs' \in [Libs -> Nat]
  BY <1>1, <1>2, <1>3, <1>4, <1>6, CountsAfterClose DEF TypeOK
<1>8. Phase(th)' /\ Outcome(th)' /\ Message(th)'
  <2>1. /\ frame.pc = "returned" /\ frame.lib = call[th].lib
        /\ frame.before = call[th].before /\ frame.return_code = call[th].return_code
        /\ frame.error = call[th].error /\ frame.error_buffer = call[th].error_buffer
    BY <1>1, <1>4 DEF Frames
  <2>2. Phase(th)'
    BY <1>2, <1>5, <2>1 DEF Phase
  <2>3. Outcome(th)'
    BY <1>1, <1>3, <1>5, <1>6, <2>1 DEF Phase, Outcome
  <2>4. Message(th)'
    BY <1>1, <2>1 DEF Phase, Message
  <2>. QED
    BY <2>2, <2>3, <2>4
<1>9. m.factory \in Trusted => lost'[m.factory] > 0
  BY <1>1, <1>3, <1>6 DEF Phase
<1>10. \A l \in Libs : lost'[l] >= lost[l]
  BY <1>1, <1>3 DEF TypeOK
<1>. HIDE DEF frame, m
<1>. QED
  BY <1>1, <1>2, <1>3, <1>4, <1>5, <1>6, <1>7, <1>8, <1>9, <1>10, HandleStepPreserves
     DEF TypeOK

LEMMA DlOpenPreserves ==
  ASSUME LoadIInv, NEW th \in Threads, DlOpen(th) PROVE LoadIInv'
<1>. DEFINE frame == call'[th]
            h == call[th].h
            lib == call[th].lib
            old == handle[h].lib_handle
            m == handle'[h]
<1>1. /\ TypeOK /\ call[th] \in Frames /\ Phase(th) /\ Outcome(th) /\ Message(th)
      /\ call[th].pc = "dlopen" /\ FactoryOwned /\ ReferencesOwned
  BY DEF LoadIInv, TypeOK, DlOpen, At
<1>2. /\ h \in Handles /\ lib \in Libs /\ handle[h] \in Members
      /\ refs \in [Libs -> Nat] /\ lost \in [Libs -> Nat]
  BY <1>1 DEF Phase, TypeOK
<1>3. weak' = weak /\ lost' = IF old \in Libs THEN [lost EXCEPT ![old] = @ + 1] ELSE lost
  BY DEF DlOpen
<1>4. lost' \in [Libs -> Nat] /\ \A l \in Libs : lost'[l] = lost[l] + One(old = l)
  BY <1>2, <1>3 DEF One
<1>5. handle[h].factory \in Trusted => lost'[handle[h].factory] > 0
  <2>. SUFFICES ASSUME handle[h].factory \in Trusted PROVE lost'[handle[h].factory] > 0
    OBVIOUS
  <2>1. handle[h].factory \in Libs
    BY DynamicLoadAssumption
  <2>2. old = handle[h].factory \/ lost[handle[h].factory] > 0
    BY <1>1, <1>2 DEF FactoryOwned
  <2>. QED
    BY <1>2, <1>4, <2>1, <2>2 DEF One
<1>6. \A l \in Libs : lost'[l] >= lost[l]
  BY <1>2, <1>4 DEF One
<1>7. CASE /\ handle' = [handle EXCEPT ![h].lib_handle = lib]
           /\ refs' = [refs EXCEPT ![lib] = @ + 1]
           /\ call' = [call EXCEPT ![th].pc = "dlsym"]
           /\ UNCHANGED pending
  <2>1. /\ frame = [call[th] EXCEPT !.pc = "dlsym"] /\ call' = [call EXCEPT ![th] = frame]
        /\ m = [handle[h] EXCEPT !.lib_handle = lib] /\ handle' = [handle EXCEPT ![h] = m]
    BY <1>1, <1>2, <1>7 DEF TypeOK
  <2>2. frame \in Frames /\ frame.h = h /\ frame.pc = "dlsym" /\ frame.lib = lib
        /\ frame.before = call[th].before /\ frame.return_code = call[th].return_code
        /\ frame.error = call[th].error /\ frame.error_buffer = call[th].error_buffer
    BY <1>1, <2>1 DEF Frames, Labels
  <2>3. m \in Members /\ m.lib_handle = lib /\ m.factory = handle[h].factory
    BY <1>2, <2>1 DEF Members, Pointers
  <2>4. refs' \in [Libs -> Nat] /\ \A l \in Libs : refs'[l] = refs[l] + One(lib = l)
    BY <1>2, <1>7 DEF One
  <2>5. ReferencesOwned'
    <3>1. \A k \in Handles \ {h} : handle'[k].lib_handle = handle[k].lib_handle
      BY <1>1, <1>2, <2>1 DEF TypeOK
    <3>2. \A l \in Libs : Cardinality(Owners(l))' =
            Cardinality(Owners(l)) + One(lib = l) - One(old = l)
      BY <1>2, <2>3, <3>1, OwnersAfterStore
    <3>. SUFFICES ASSUME NEW l \in Libs
                  PROVE  refs'[l] = Cardinality(Owners(l))' + lost'[l]
      BY DEF ReferencesOwned
    <3>3. /\ Cardinality(Owners(l)) \in Nat /\ Cardinality(Owners(l))' \in Nat
          /\ refs[l] = Cardinality(Owners(l)) + lost[l] /\ lost[l] \in Nat
      BY <1>1, <1>2, OwnersAreFinite DEF ReferencesOwned
    <3>4. One(lib = l) \in Nat /\ One(old = l) \in Nat
      BY DEF One
    <3>. QED
      BY <1>4, <2>4, <3>2, <3>3, <3>4
  <2>6. Phase(th)'
    BY <1>1, <1>2, <1>3, <1>5, <2>2, <2>3 DEF Phase
  <2>7. Outcome(th)' /\ Message(th)'
    BY <1>1, <2>2 DEF Outcome, Message
  <2>8. pending' \in [Threads -> {"none", "earlier"}] /\ call[th].pc # "idle"
    BY <1>1, <1>7 DEF TypeOK
  <2>9. m.factory \in Trusted => m.lib_handle = m.factory \/ lost'[m.factory] > 0
    BY <1>5, <2>3
  <2>. HIDE DEF frame, m
  <2>. QED
    BY <1>3, <1>4, <1>6, <2>1, <2>2, <2>3, <2>4, <2>5, <2>6, <2>7, <2>8, <2>9,
       HandleStepPreserves
<1>8. CASE /\ handle' = [handle EXCEPT ![h].lib_handle = None]
           /\ call' = [call EXCEPT ![th].pc = "copy", ![th].error = "dlopen",
                                   ![th].return_code = "failure"]
           /\ pending' = [pending EXCEPT ![th] = "none"]
           /\ UNCHANGED refs
  <2>1. /\ frame = [call[th] EXCEPT !.pc = "copy", !.error = "dlopen",
                                    !.return_code = "failure"]
        /\ call' = [call EXCEPT ![th] = frame]
        /\ m = [handle[h] EXCEPT !.lib_handle = None] /\ handle' = [handle EXCEPT ![h] = m]
    BY <1>1, <1>2, <1>8 DEF TypeOK
  <2>2. frame \in Frames /\ frame.h = h /\ frame.pc = "copy" /\ frame.lib = lib
        /\ frame.before = call[th].before /\ frame.return_code = "failure"
        /\ frame.error = "dlopen" /\ frame.error_buffer = call[th].error_buffer
    BY <1>1, <2>1 DEF Frames, Labels, ReturnCodes, Failures, Messages
  <2>3. m \in Members /\ m.lib_handle = None /\ m.factory = handle[h].factory
    BY <1>2, <2>1 DEF Members, Pointers
  <2>4. pending' \in [Threads -> {"none", "earlier"}]
    BY <1>1, <1>8 DEF TypeOK
  <2>5. ReferencesOwned'
    <3>1. \A k \in Handles \ {h} : handle'[k].lib_handle = handle[k].lib_handle
      BY <1>1, <1>2, <2>1 DEF TypeOK
    <3>2. \A l \in Libs : Cardinality(Owners(l))' =
            Cardinality(Owners(l)) + One(None = l) - One(old = l)
      BY <1>2, <2>3, <3>1, OwnersAfterStore
    <3>. SUFFICES ASSUME NEW l \in Libs
                  PROVE  refs'[l] = Cardinality(Owners(l))' + lost'[l]
      BY DEF ReferencesOwned
    <3>3. /\ Cardinality(Owners(l)) \in Nat /\ Cardinality(Owners(l))' \in Nat
          /\ refs[l] = Cardinality(Owners(l)) + lost[l] /\ lost[l] \in Nat
      BY <1>1, <1>2, OwnersAreFinite DEF ReferencesOwned
    <3>4. One(None = l) = 0 /\ One(old = l) \in Nat
      BY DynamicLoadAssumption DEF One
    <3>. QED
      BY <1>4, <1>8, <3>2, <3>3, <3>4
  <2>6. Phase(th)'
    BY <1>1, <1>2, <1>3, <1>5, <2>2, <2>3 DEF Phase
  <2>7. Outcome(th)' /\ Message(th)'
    BY <1>1, <2>2 DEF Outcome, Message
  <2>8. refs' \in [Libs -> Nat] /\ call[th].pc # "idle"
    BY <1>1, <1>2, <1>8
  <2>9. m.factory \in Trusted => m.lib_handle = m.factory \/ lost'[m.factory] > 0
    BY <1>5, <2>3
  <2>. HIDE DEF frame, m
  <2>. QED
    BY <1>3, <1>4, <1>6, <2>1, <2>2, <2>3, <2>4, <2>5, <2>6, <2>7, <2>8, <2>9,
       HandleStepPreserves
<1>. QED
  BY <1>7, <1>8 DEF DlOpen

LEMMA DestroyHandlePreserves ==
  ASSUME LoadIInv, NEW th \in Threads, NEW h \in Handles, DestroyHandle(th, h)
  PROVE  LoadIInv'
<1>1. /\ TypeOK /\ UNCHANGED <<weak, pending, call, lost>>
      /\ \A o \in Threads : call[o].h # h
      /\ handle[h] \in Members /\ handle[h].lib_handle # Garbage
  BY DEF LoadIInv, TypeOK, DestroyHandle, Free
<1>2. CASE handle[h].lib_handle = None
  <2>. UNCHANGED <<refs, handle>>
    BY <1>2 DEF DestroyHandle
  <2>1. ReferencesOwned'
    BY <1>1, CountsSame DEF LoadIInv
  <2>. QED
    BY <1>1, <2>1 DEF LoadIInv, TypeOK, Exclusive, Phase, Outcome, Message, FactoryOwned
<1>3. CASE handle[h].lib_handle # None
  <2>1. /\ handle[h].lib_handle \in Libs
        /\ refs' = [refs EXCEPT ![handle[h].lib_handle] = @ - 1]
        /\ handle' = [handle EXCEPT ![h] = Null]
    BY <1>1, <1>3 DEF DestroyHandle, Members, Pointers
  <2>2. handle'[h] = Null /\ \A k \in Handles : k # h => handle'[k] = handle[k]
    BY <1>1, <2>1 DEF TypeOK
  <2>3. ReferencesOwned' /\ refs' \in [Libs -> Nat]
    <3>1. handle'[h].lib_handle = None
      BY <2>2 DEF Null
    <3>2. refs' = IF handle[h].lib_handle = None THEN refs
                  ELSE [refs EXCEPT ![handle[h].lib_handle] = @ - 1]
      BY <1>3, <2>1
    <3>. QED
      BY <1>1, <2>1, <2>2, <3>1, <3>2, CountsAfterClose
  <2>4. TypeOK'
    BY <1>1, <2>1, <2>3 DEF TypeOK, Members, Pointers, Null
  <2>5. Phase(th)' /\ Outcome(th)' /\ Message(th)'
    <3>1. Phase(th) /\ Outcome(th) /\ Message(th) /\ call[th].pc = "idle"
      BY DEF LoadIInv, DestroyHandle, At
    <3>. QED
      BY <1>1, <3>1 DEF Phase, Outcome, Message
  <2>6. call[th].h = None
    BY DEF LoadIInv, DestroyHandle, At, Phase
  <2>7. \A l \in Libs : lost'[l] >= lost[l]
    BY <1>1 DEF TypeOK
  <2>8. Null.factory \notin Trusted
    BY DynamicLoadAssumption DEF Null
  <2>. QED
    BY <1>1, <2>2, <2>3, <2>4, <2>5, <2>6, <2>7, <2>8, StepKeepsOthers
<1>. QED
  BY <1>2, <1>3

LEMMA LoadInvStep == LoadIInv /\ [Next]_vars => LoadIInv'
<1>. SUFFICES ASSUME LoadIInv, [Next]_vars PROVE LoadIInv'
  OBVIOUS
<1>1. CASE UNCHANGED vars
  <2>. UNCHANGED <<weak, refs, pending, handle, call, lost>>
    BY <1>1 DEF vars
  <2>1. ReferencesOwned'
    BY CountsSame DEF LoadIInv
  <2>. QED
    BY <2>1 DEF LoadIInv, TypeOK, Exclusive, Phase, Outcome, Message, FactoryOwned
<1>2. ASSUME NEW th \in Threads, AppDlFailure(th) PROVE LoadIInv'
  BY <1>2, AppDlFailurePreserves
<1>3. ASSUME NEW th \in Threads, NEW lib \in Libs, NEW h \in Handles, NEW b \in BOOLEAN,
             LoadCall(th, lib, h, b)
      PROVE  LoadIInv'
  BY <1>3, LoadCallPreserves
<1>4. ASSUME NEW th \in Threads, NEW h \in Handles, DestroyHandle(th, h) PROVE LoadIInv'
  BY <1>4, DestroyHandlePreserves
<1>5. ASSUME NEW th \in Threads, LoadStep(th) PROVE LoadIInv'
  BY <1>5, NotSupportedPreserves, DlOpenPreserves, DlSymPreserves, CallHookPreserves,
     CopyErrorPreserves, CloseLibraryPreserves, ReturnPreserves DEF LoadStep
<1>. QED
  BY <1>1, <1>2, <1>3, <1>4, <1>5 DEF Next

LEMMA LoadInvariant == Spec => []LoadIInv
BY LoadInvInitially, LoadInvStep, PTL DEF Spec

-----------------------------------------------------------------------------
\* The types hold; in particular no count of the loader goes below zero.
THEOREM LoadTypeCorrect == Spec => []TypeOK
BY LoadInvariant, PTL DEF LoadIInv

\* Every reference the loader counts is owned by a handle or was lost by a
\* caller who loaded over it: opentracing_dynamically_load_tracing_library and
\* opentracing_library_handle_destroy leak none and give none back twice.
THEOREM ReferencesBalance == Spec => []ReferencesOwned
BY LoadInvariant, PTL DEF LoadIInv

\* A library that a handle owns is in memory.
LEMMA OwnedIsLoaded ==
  ASSUME LoadIInv, NEW h \in Handles, handle[h].lib_handle \in Libs
  PROVE  refs[handle[h].lib_handle] > 0
<1>. DEFINE l == handle[h].lib_handle
<1>1. refs[l] = Cardinality(Owners(l)) + lost[l] /\ lost[l] \in Nat
  BY DEF LoadIInv, TypeOK, ReferencesOwned
<1>2. IsFiniteSet(Owners(l)) /\ Owners(l) # {}
  BY DynamicLoadAssumption, FS_Subset DEF Owners
<1>3. Cardinality(Owners(l)) \in Nat /\ Cardinality(Owners(l)) # 0
  BY <1>2, OwnersAreFinite, FS_EmptySet
<1>. QED
  BY <1>1, <1>3

\* A factory of a trusted library in a handle can be called.
THEOREM FactoryStaysLoaded == Spec => []FactoryIsLoaded
<1>1. LoadIInv => FactoryIsLoaded
  <2>. SUFFICES ASSUME LoadIInv, NEW h \in Handles, handle[h].factory \in Trusted
                PROVE  /\ handle[h].lib_handle = handle[h].factory
                            \/ lost[handle[h].factory] > 0
                       /\ refs[handle[h].factory] > 0
    BY DEF FactoryIsLoaded
  <2>. DEFINE f == handle[h].factory
  <2>1. f \in Libs /\ lost[f] \in Nat /\ refs[f] = Cardinality(Owners(f)) + lost[f]
    BY DynamicLoadAssumption DEF LoadIInv, TypeOK, ReferencesOwned
  <2>2. handle[h].lib_handle = f \/ lost[f] > 0
    BY DEF LoadIInv, FactoryOwned
  <2>3. Cardinality(Owners(f)) \in Nat
    BY OwnersAreFinite
  <2>4. handle[h].lib_handle = f => refs[f] > 0
    BY <2>1, OwnedIsLoaded
  <2>. QED
    BY <2>1, <2>2, <2>3, <2>4
<1>. QED
  BY <1>1, LoadInvariant, PTL

\* A load that fails, on whichever path, leaves nothing of its own in the
\* handle.
THEOREM FailedLoadClears == Spec => []FailedLoadClearsHandle
<1>1. LoadIInv => FailedLoadClearsHandle
  BY DEF LoadIInv, Outcome, FailedLoadClearsHandle, At
<1>. QED
  BY <1>1, LoadInvariant, PTL

\* A caller is never given a message of an earlier failure.
THEOREM MessageIsCurrent == Spec => []MessageIsOfThisLoad
<1>1. LoadIInv => MessageIsOfThisLoad
  BY DEF LoadIInv, Message, MessageIsOfThisLoad, At
<1>. QED
  BY <1>1, LoadInvariant, PTL

-----------------------------------------------------------------------------
(* To the owner of a handle a load is one step. *)

InProgress == {"dlopen", "dlsym", "hook", "copy", "close", "unsupported"}

\* While th fills a handle, its owner knows it as it was at the call: before
\* and after a step.
LEMMA SeenFilling ==
  ASSUME LoadIInv, LoadIInv', NEW th \in Threads, NEW h
  PROVE  /\ call[th].pc \in InProgress /\ call[th].h = h => Seen(h) = call[th].before
         /\ call'[th].pc \in InProgress /\ call'[th].h = h => Seen(h)' = call'[th].before
<1>1. ASSUME call[th].pc \in InProgress, call[th].h = h PROVE Seen(h) = call[th].before
  <2>1. Fills(th, h) /\ h # None
    BY <1>1, DynamicLoadAssumption DEF Fills, At, InProgress, LoadIInv, Phase
  <2>2. \A o \in Threads : Fills(o, h) => o = th
    BY <2>1 DEF Fills, LoadIInv, Exclusive
  <2>3. (CHOOSE o \in Threads : Fills(o, h)) = th
    BY <2>1, <2>2
  <2>. QED
    BY <2>1, <2>3 DEF Seen
<1>2. ASSUME call'[th].pc \in InProgress, call'[th].h = h
      PROVE  Seen(h)' = call'[th].before
  <2>1. Fills(th, h)' /\ h # None
    BY <1>2, DynamicLoadAssumption DEF Fills, At, InProgress, LoadIInv, Phase
  <2>2. \A o \in Threads : Fills(o, h)' => o = th
    BY <2>1 DEF Fills, LoadIInv, Exclusive
  <2>3. (CHOOSE o \in Threads : Fills(o, h)') = th
    BY <2>1, <2>2
  <2>. QED
    BY <2>1, <2>3 DEF Seen
<1>. QED
  BY <1>1, <1>2

\* A step of th on k changes for nobody what another handle is, nor what
\* another thread is told.
LEMMA OthersSeeNothing ==
  ASSUME LoadIInv, LoadIInv', NEW th \in Threads, NEW k,
         call[th].h \in {k, None}, call'[th].h \in {k, None},
         \A o \in Threads \ {th} : call'[o] = call[o],
         \A h \in Handles : h # k => handle'[h] = handle[h]
  PROVE  /\ \A h \in Handles \ {k} : Seen(h)' = Seen(h)
         /\ \A o \in Threads \ {th} : Told(o)' = Told(o)
<1>1. ASSUME NEW h \in Handles \ {k} PROVE Seen(h)' = Seen(h)
  <2>1. \A o \in Threads : Fills(o, h)' <=> Fills(o, h)
    BY DynamicLoadAssumption DEF Fills, At
  <2>2. CASE \A o \in Threads : ~Fills(o, h)
    BY <2>1, <2>2 DEF Seen
  <2>3. ASSUME NEW o \in Threads, Fills(o, h) PROVE Seen(h)' = Seen(h)
    <3>1. o # th /\ call'[o] = call[o] /\ call[o].h = h
      BY <2>3, DynamicLoadAssumption DEF Fills
    <3>2. call[o].pc \in InProgress
      BY <2>3, <3>1, DynamicLoadAssumption
         DEF Fills, At, InProgress, LoadIInv, TypeOK, Frames, Labels, Phase
    <3>. QED
      BY <3>1, <3>2, SeenFilling
  <2>. QED
    BY <2>2, <2>3
<1>. QED
  BY <1>1 DEF Told, At

\* Nobody is told about a handle that no load has, or only th's, which has
\* not ended.
LEMMA NobodyIsTold ==
  ASSUME LoadIInv, NEW h \in Handles,
         \A o \in Threads : call[o].h = h => call[o].pc # "returned"
  PROVE  \A o \in Threads : Told(o).h # h
BY DynamicLoadAssumption DEF Told, At

\* A step in which th's load goes on, or begins, stutters.
LEMMA QuietStep ==
  ASSUME LoadIInv, LoadIInv', NEW th \in Threads, NEW k \in Handles,
         call[th].h \in {k, None}, call'[th].h = k,
         call[th].pc # "returned", call'[th].pc \in InProgress,
         \A o \in Threads \ {th} : call'[o] = call[o],
         \A h \in Handles : h # k => handle'[h] = handle[h],
         Seen(k) = call'[th].before, weak' = weak
  PROVE  UNCHANGED Interface!vars
<1>1. Seen(k)' = Seen(k)
  BY SeenFilling
<1>2. Told(th)' = Told(th)
  BY DEF Told, At, InProgress
<1>3. /\ \A h \in Handles : Seen(h)' = Seen(h)
      /\ \A o \in Threads : Told(o)' = Told(o)
  BY <1>1, <1>2, OthersSeeNothing
<1>. QED
  BY <1>3 DEF Interface!vars

\* When th's load into h ends, its owner sees the handle as it then is, and
\* th is told.
LEMMA EndStep ==
  ASSUME LoadIInv, LoadIInv', NEW th \in Threads, NEW h \in Handles,
         call[th].h = h, call'[th].h = h,
         call[th].pc \in InProgress, call'[th].pc = "returned",
         \A o \in Threads \ {th} : call'[o] = call[o],
         \A k \in Handles : k # h => handle'[k] = handle[k], weak' = weak
  PROVE  /\ Interface!Tell(th, h, call'[th].return_code)
         /\ [k \in Handles |-> Seen(k)]' =
              [[k \in Handles |-> Seen(k)] EXCEPT ![h] = handle'[h]]
         /\ Told(th)' # Told(th)
<1>1. \A o \in Threads \ {th} : call[o].h # h
  BY OwnHandle, DynamicLoadAssumption DEF InProgress, LoadIInv, Phase
<1>2. Seen(h)' = handle'[h]
  <2>1. \A o \in Threads : ~Fills(o, h)'
    BY <1>1 DEF Fills, At
  <2>. QED
    BY <2>1 DEF Seen
<1>3. /\ \A k \in Handles \ {h} : Seen(k)' = Seen(k)
      /\ \A o \in Threads \ {th} : Told(o)' = Told(o)
  BY OthersSeeNothing
<1>4. /\ Told(th) = Interface!Nothing
      /\ Told(th)' = [h |-> h, code |-> call'[th].return_code]
      /\ Told(th)' # Told(th)
  BY DynamicLoadAssumption DEF Told, At, InProgress, Interface!Nothing
<1>5. \A o \in Threads : Told(o).h # h
  BY <1>1, NobodyIsTold DEF InProgress
<1>6. [o \in Threads |-> Told(o)]' =
        [[o \in Threads |-> Told(o)] EXCEPT ![th] = [h |-> h, code |-> call'[th].return_code]]
  BY <1>3, <1>4
<1>7. Interface!Tell(th, h, call'[th].return_code)
  BY <1>4, <1>5, <1>6 DEF Interface!Tell, Interface!Settled
<1>. QED
  BY <1>2, <1>3, <1>4, <1>7

\* One lemma per action, or per kind of them.
LEMMA LoadCallIsQuiet ==
  ASSUME LoadIInv, LoadIInv', NEW th \in Threads, NEW lib \in Libs, NEW h \in Handles,
         NEW b \in BOOLEAN, LoadCall(th, lib, h, b)
  PROVE  UNCHANGED Interface!vars
<1>1. /\ TypeOK /\ UNCHANGED <<weak, handle>>
      /\ \A o \in Threads : call[o].h # h
      /\ call' = [call EXCEPT ![th] =
           Frame(IF weak THEN "dlopen" ELSE "unsupported", h, lib, handle[h],
                 IF b THEN "untouched" ELSE "absent")]
      /\ call[th].pc = "idle" /\ call[th].h = None
  BY DEF LoadCall, Free, LoadIInv, Phase, At
<1>2. /\ call'[th].h = h /\ call'[th].before = handle[h] /\ call'[th].pc \in InProgress
      /\ \A o \in Threads \ {th} : call'[o] = call[o]
  BY <1>1 DEF TypeOK, Frame, InProgress
<1>3. Seen(h) = handle[h]
  BY <1>1 DEF Seen, Fills
<1>. QED
  BY <1>1, <1>2, <1>3, QuietStep

\* A step of a load that does not end it.
LEMMA LoadStepIsQuiet ==
  ASSUME LoadIInv, LoadIInv', NEW th \in Threads,
         DlOpen(th) \/ DlSym(th) \/ CopyError(th)
  PROVE  UNCHANGED Interface!vars
<1>1. /\ TypeOK /\ call[th] \in Frames /\ Phase(th)
      /\ call[th].pc \in {"dlopen", "dlsym", "copy"} /\ weak' = weak
  BY DEF LoadIInv, TypeOK, DlOpen, DlSym, CopyError, At
<1>2. call[th].h \in Handles
  BY <1>1 DEF Phase
<1>3. \A h \in Handles : h # call[th].h => handle'[h] = handle[h]
  BY <1>1, <1>2 DEF TypeOK, DlOpen, DlSym, CopyError
<1>4. /\ call'[th].h = call[th].h /\ call'[th].before = call[th].before
      /\ call'[th].pc \in InProgress
      /\ \A o \in Threads \ {th} : call'[o] = call[o]
  BY <1>1 DEF TypeOK, Frames, DlOpen, DlSym, CopyError, InProgress
<1>5. Seen(call[th].h) = call[th].before
  BY <1>1, SeenFilling DEF InProgress
<1>. QED
  BY <1>1, <1>2, <1>3, <1>4, <1>5, QuietStep

\* The hook ends the load with the library and its factory, or the load goes
\* on to its cleanup.
LEMMA CallHookStep ==
  ASSUME LoadIInv, LoadIInv', NEW th \in Threads, CallHook(th)
  PROVE  [Interface!Next]_Interface!vars
<1>1. PICK h \in Handles, lib \in Libs : call[th].h = h /\ call[th].lib = lib
  BY DEF LoadIInv, Phase, CallHook, At
<1>2. /\ TypeOK /\ call[th] \in Frames /\ Phase(th)
      /\ call[th].pc = "hook" /\ weak' = weak
  BY DEF LoadIInv, TypeOK, CallHook, At
<1>3. handle[h] \in Members /\ weak
  BY <1>2 DEF Phase, TypeOK
<1>4. PICK f \in {call[th].lib, None}, rc \in ReturnCodes, writes \in BOOLEAN :
        /\ call[th].lib \in Trusted /\ rc # "success" => f = None
        /\ writes => call[th].error_buffer # "absent"
        /\ handle' = [handle EXCEPT ![call[th].h].factory = f]
        /\ call' = [call EXCEPT
             ![th].pc = IF rc = "success" /\ f # None THEN "returned" ELSE "copy",
             ![th].return_code = IF rc = "success" /\ f = None THEN "failure" ELSE rc,
             ![th].error = IF rc = "success" /\ f = None THEN "literal" ELSE "none",
             ![th].error_buffer = IF writes THEN "hook" ELSE @]
  BY DEF CallHook
<1>5. /\ call'[th].h = h /\ call'[th].before = call[th].before
      /\ call'[th].pc = IF rc = "success" /\ f # None THEN "returned" ELSE "copy"
      /\ call'[th].return_code = IF rc = "success" /\ f = None THEN "failure" ELSE rc
      /\ \A o \in Threads \ {th} : call'[o] = call[o]
      /\ \A k \in Handles : k # h => handle'[k] = handle[k]
  BY <1>1, <1>2, <1>3, <1>4 DEF TypeOK, Frames
<1>6. CASE rc = "success" /\ f # None
  <2>1. handle'[h] = Interface!Both(lib)
    BY <1>1, <1>2, <1>3, <1>4, <1>6 DEF TypeOK, Phase, Members, Interface!Both
  <2>2. /\ Interface!Tell(th, h, "success")
        /\ [k \in Handles |-> Seen(k)]' =
             [[k \in Handles |-> Seen(k)] EXCEPT ![h] = handle'[h]]
        /\ Told(th)' # Told(th)
    BY <1>1, <1>2, <1>3, <1>5, <1>6, EndStep DEF InProgress
  <2>3. Interface!Succeed(th, h)
    BY <1>3, <2>1, <2>2 DEF Interface!Succeed
  <2>. QED
    BY <1>3, <2>2, <2>3 DEF Interface!Next, Interface!Load
<1>7. CASE ~(rc = "success" /\ f # None)
  <2>1. Seen(h) = call[th].before
    BY <1>1, <1>2, SeenFilling DEF InProgress
  <2>. QED
    BY <1>1, <1>2, <1>3, <1>5, <1>7, <2>1, QuietStep DEF InProgress
<1>. QED
  BY <1>6, <1>7

\* The cleanup ends a load that failed.
LEMMA CloseLibraryStep ==
  ASSUME LoadIInv, LoadIInv', NEW th \in Threads, CloseLibrary(th)
  PROVE  Interface!Next
<1>. DEFINE code == call[th].return_code
<1>. PICK h \in Handles : call[th].h = h
  BY DEF LoadIInv, Phase, CloseLibrary, At
<1>1. /\ TypeOK /\ call[th] \in Frames /\ Phase(th)
      /\ call[th].pc = "close" /\ weak' = weak
  BY DEF LoadIInv, TypeOK, CloseLibrary, At
<1>2. /\ handle[h] \in Members /\ weak
      /\ code \in Interface!Errors
  BY <1>1 DEF Phase, TypeOK, Frames, ReturnCodes, Failures, Interface!Errors
<1>3. /\ handle'[h] = [handle[h] EXCEPT !.lib_handle = None]
      /\ \A k \in Handles : k # h => handle'[k] = handle[k]
      /\ call'[th].h = h /\ call'[th].pc = "returned" /\ call'[th].return_code = code
      /\ \A o \in Threads \ {th} : call'[o] = call[o]
  BY <1>1, <1>2 DEF CloseLibrary, TypeOK, Frames
<1>4. handle'[h] = [factory |-> handle[h].factory, lib_handle |-> None]
  BY <1>2, <1>3 DEF Members
<1>5. Seen(h) = call[th].before
  BY <1>1, SeenFilling DEF InProgress
<1>6. handle[h].factory \in {Seen(h).factory, None} \cup (Libs \ Trusted)
  BY <1>1, <1>2, <1>5 DEF Phase, Members, Pointers
<1>7. /\ Interface!Tell(th, h, code)
      /\ [k \in Handles |-> Seen(k)]' =
           [[k \in Handles |-> Seen(k)] EXCEPT ![h] = handle'[h]]
      /\ Told(th)' # Told(th)
  BY <1>1, <1>2, <1>3, EndStep DEF InProgress
<1>8. Interface!Fail(th, h)
  BY <1>2, <1>4, <1>6, <1>7 DEF Interface!Fail
<1>. QED
  BY <1>2, <1>7, <1>8 DEF Interface!Next, Interface!Load

\* The build that cannot load refuses.
LEMMA NotSupportedStep ==
  ASSUME LoadIInv, LoadIInv', NEW th \in Threads, NotSupported(th)
  PROVE  Interface!Next
<1>. PICK h \in Handles : call[th].h = h
  BY DEF LoadIInv, Phase, NotSupported, At
<1>1. /\ TypeOK /\ call[th] \in Frames /\ Phase(th)
      /\ call[th].pc = "unsupported" /\ UNCHANGED <<weak, handle>>
  BY DEF LoadIInv, TypeOK, NotSupported, At
<1>2. ~weak /\ handle[h] = call[th].before
  BY <1>1 DEF Phase
<1>3. /\ call'[th].h = h /\ call'[th].pc = "returned"
      /\ call'[th].return_code = "not_supported"
      /\ \A o \in Threads \ {th} : call'[o] = call[o]
  BY <1>1 DEF NotSupported, TypeOK, Frames
<1>4. Seen(h) = handle'[h]
  BY <1>1, <1>2, SeenFilling DEF InProgress
<1>5. /\ Interface!Tell(th, h, "not_supported")
      /\ [k \in Handles |-> Seen(k)]' =
           [[k \in Handles |-> Seen(k)] EXCEPT ![h] = handle'[h]]
      /\ Told(th)' # Told(th)
  BY <1>1, <1>2, <1>3, EndStep DEF InProgress
<1>6. Interface!Refuse(th, h)
  BY <1>2, <1>4, <1>5 DEF Interface!Refuse
<1>. QED
  BY <1>2, <1>5, <1>6 DEF Interface!Next, Interface!Load

LEMMA ReturnStep ==
  ASSUME LoadIInv, LoadIInv', NEW th \in Threads, Return(th)
  PROVE  Interface!Next
<1>. PICK h \in Handles : call[th].h = h
  BY DEF LoadIInv, Phase, Return, At
<1>1. /\ TypeOK /\ call[th] \in Frames /\ call[th].pc = "returned"
      /\ UNCHANGED <<weak, handle>> /\ call' = [call EXCEPT ![th] = Idle]
  BY DEF LoadIInv, TypeOK, Return, At
<1>2. /\ call'[th].pc = "idle" /\ call'[th].h = None
      /\ \A o \in Threads \ {th} : call'[o] = call[o]
  BY <1>1 DEF TypeOK, Idle, Frame
<1>3. /\ \A k \in Handles \ {h} : Seen(k)' = Seen(k)
      /\ \A o \in Threads \ {th} : Told(o)' = Told(o)
  BY <1>1, <1>2, OthersSeeNothing
<1>4. Seen(h)' = Seen(h)
  <2>1. \A o \in Threads \ {th} : call[o].h # h
    BY <1>1, DynamicLoadAssumption DEF LoadIInv, Exclusive
  <2>2. \A o \in Threads : ~Fills(o, h) /\ ~Fills(o, h)'
    BY <1>1, <1>2, <2>1, DynamicLoadAssumption DEF Fills, At
  <2>. QED
    BY <1>1, <2>2 DEF Seen
<1>5. /\ Told(th) = [h |-> h, code |-> call[th].return_code]
      /\ Told(th)' = Interface!Nothing
      /\ Told(th) # Interface!Nothing
  BY <1>1, <1>2, DynamicLoadAssumption DEF Told, At, Interface!Nothing
<1>6. Interface!GoOn(th)
  <2>1. [o \in Threads |-> Told(o)]' =
          [[o \in Threads |-> Told(o)] EXCEPT ![th] = Interface!Nothing]
    BY <1>3, <1>5 DEF Interface!Nothing
  <2>2. \A k \in Handles : Seen(k)' = Seen(k)
    BY <1>3, <1>4
  <2>. QED
    BY <1>1, <1>5, <2>1, <2>2 DEF Interface!GoOn
<1>. QED
  BY <1>5, <1>6 DEF Interface!Next

\* A handle that no load has is destroyed in one step, or has no library.
LEMMA DestroyHandleStep ==
  ASSUME LoadIInv, LoadIInv', NEW th \in Threads, NEW h \in Handles, DestroyHandle(th, h)
  PROVE  [Interface!Next]_Interface!vars
<1>1. /\ TypeOK /\ UNCHANGED <<weak, call>>
      /\ \A o \in Threads : call[o].h # h
      /\ handle[h] \in Members /\ handle[h].lib_handle # Garbage
  BY DEF LoadIInv, TypeOK, DestroyHandle, Free
<1>2. \A o \in Threads : Told(o)' = Told(o)
  BY <1>1 DEF Told, At
<1>3. CASE handle[h].lib_handle = None
  <2>1. UNCHANGED handle
    BY <1>3 DEF DestroyHandle
  <2>2. \A k \in Handles : Seen(k)' = Seen(k)
    BY <1>1, <2>1 DEF Seen, Fills, At
  <2>. QED
    BY <1>1, <1>2, <2>2 DEF Interface!vars
<1>4. CASE handle[h].lib_handle # None
  <2>1. /\ handle[h].lib_handle \in Libs
        /\ handle' = [handle EXCEPT ![h] = Null]
    BY <1>1, <1>4 DEF DestroyHandle, Members, Pointers
  <2>2. /\ handle'[h] = Interface!Both(None)
        /\ \A k \in Handles : k # h => handle'[k] = handle[k]
    BY <1>1, <2>1 DEF TypeOK, Null, Interface!Both
  <2>3. Seen(h) = handle[h] /\ Seen(h)' = handle'[h]
    BY <1>1 DEF Seen, Fills
  <2>4. \A k \in Handles : k # h => Seen(k)' = Seen(k)
    BY <1>1, <2>2 DEF Seen, Fills, At
  <2>5. handle'[h] # handle[h]
    BY <2>1, <2>2, DynamicLoadAssumption DEF Interface!Both
  <2>6. Interface!Settled(h)
    BY <1>1, NobodyIsTold DEF Interface!Settled
  <2>7. Interface!Destroy(h)
    BY <1>1, <1>2, <2>1, <2>2, <2>3, <2>4, <2>5, <2>6 DEF Interface!Destroy
  <2>. QED
    BY <2>7 DEF Interface!Next
<1>. QED
  BY <1>3, <1>4

LEMMA HandlesInitially == LoadIInv /\ Init => Interface!Init
<1>. SUFFICES ASSUME LoadIInv, Init PROVE Interface!Init
  OBVIOUS
<1>1. \A th \in Threads : call[th].pc = "idle" /\ call[th].h = None
  BY DEF Init, Idle, Frame
<1>2. \A h \in Handles : Seen(h) = handle[h]
  BY <1>1, DynamicLoadAssumption DEF Seen, Fills
<1>3. \A th \in Threads : Told(th) = Interface!Nothing
  BY <1>1 DEF Told, At, Interface!Nothing
<1>. QED
  BY <1>2, <1>3 DEF Init, Null, Interface!Init, Interface!Both

LEMMA HandlesStep ==
  LoadIInv /\ LoadIInv' /\ [Next]_vars => [Interface!Next]_Interface!vars
<1>. SUFFICES ASSUME LoadIInv, LoadIInv', [Next]_vars
              PROVE  [Interface!Next]_Interface!vars
  OBVIOUS
<1>1. ASSUME UNCHANGED <<weak, handle, call>> PROVE UNCHANGED Interface!vars
  BY <1>1 DEF Interface!vars, Seen, Told, Fills, At
<1>2. CASE UNCHANGED vars
  BY <1>1, <1>2 DEF vars
<1>3. ASSUME NEW th \in Threads, AppDlFailure(th) PROVE UNCHANGED Interface!vars
  BY <1>1, <1>3 DEF AppDlFailure
<1>4. ASSUME NEW th \in Threads, NEW lib \in Libs, NEW h \in Handles, NEW b \in BOOLEAN,
             LoadCall(th, lib, h, b)
      PROVE  UNCHANGED Interface!vars
  BY <1>4, LoadCallIsQuiet
<1>5. ASSUME NEW th \in Threads, NEW h \in Handles, DestroyHandle(th, h)
      PROVE  [Interface!Next]_Interface!vars
  BY <1>5, DestroyHandleStep
<1>6. ASSUME NEW th \in Threads, LoadStep(th) PROVE [Interface!Next]_Interface!vars
  BY <1>6, NotSupportedStep, LoadStepIsQuiet, CallHookStep, CloseLibraryStep, ReturnStep
     DEF LoadStep
<1>. QED
  BY <1>2, <1>3, <1>4, <1>5, <1>6 DEF Next

\* Loading and destroying implement LibraryHandles: to the owner of a handle
\* a load is one step, which gives it the library and the factory or an error
\* and no library, and it is told which.
THEOREM LoadsAreAtomic == Spec => ImplementsHandles
<1>1. Spec => []LoadIInv /\ Init /\ [][Next]_vars
  BY LoadInvariant, PTL DEF Spec
<1>. QED
  BY <1>1, HandlesInitially, HandlesStep, PTL DEF ImplementsHandles, Interface!Spec
=============================================================================
