----------------------------- MODULE DynamicLoad ----------------------------
(***************************************************************************)
(* opentracing_dynamically_load_tracing_library() and                      *)
(* opentracing_library_handle_destroy(), called by several threads on      *)
(* handles of their own for libraries they share.                          *)
(*                                                                         *)
(* The dynamic loader is external: it counts the references to a library   *)
(* and keeps, per thread, the message of the last failure until dlerror()  *)
(* fetches it.  So is the library: its hook returns a factory or an error  *)
(* code.  A trusted library does as dynamic_load.h says, NULL on failure;  *)
(* any other may return both.  A factory, being code of its library, is    *)
(* represented by that library.  dlopen and dlsym may fail at any time;    *)
(* what dlclose returns is ignored by the code and left out.               *)
(*                                                                         *)
(* The caller owns its handles.  It may load into one again although it    *)
(* still owns a library, whose reference is then lost, and need not have   *)
(* zeroed it, but then it destroys it only after a load that wrote to it.  *)
(***************************************************************************)
EXTENDS Naturals, FiniteSets

CONSTANTS Threads,         \* threads of the application
          Handles,         \* opentracing_library_handle objects
          Libs,            \* tracing libraries
          Trusted,         \* those whose hook keeps its contract
          Uninitialised,   \* handles the caller does not zero first
          MaxLost,         \* bound: references of one library a caller may lose
          None,            \* the null pointer
          Garbage          \* what an uninitialised member holds

ASSUME DynamicLoadAssumption ==
  /\ Trusted \subseteq Libs /\ Uninitialised \subseteq Handles
  /\ MaxLost \in Nat
  /\ None \notin Libs \cup Handles /\ Garbage \notin Libs /\ Garbage # None
  /\ IsFiniteSet(Handles)

Failures == {"failure", "not_supported", "incompatible_library_versions"}
ReturnCodes == {"success"} \cup Failures

\* Messages: none, what dlopen and dlsym report, the literal strings of
\* dynamic_load.c, what the hook writes; and a message of an earlier failure
\* of the application's own, which is not about this call.
Messages == {"none", "dlopen", "dlsym", "literal", "earlier"}

\* The caller's error_buffer: not given, not written, or holding a message.
Buffers == {"absent", "untouched", "hook"} \cup Messages

Pointers == Libs \cup {None, Garbage}
Members == [factory : Pointers, lib_handle : Pointers]
Null == [factory |-> None, lib_handle |-> None]

VARIABLES
  weak,      \* the build has weak symbols (OPENTRACINGC_HAVE_WEAK_SYMBOLS)
  refs,      \* the loader's reference count of each library
  pending,   \* the loader's unfetched message, per thread
  handle,    \* the members of each handle
  call,      \* the frame of each thread's load call
  lost       \* history: references whose handle was loaded over

vars == <<weak, refs, pending, handle, call, lost>>

Labels == {"idle", "dlopen", "dlsym", "hook", "copy", "close", "returned", "unsupported"}

Frames ==
  [pc : Labels, h : Handles \cup {None}, lib : Libs \cup {None},
   before : Members,  \* history: the members of the handle at the call
   return_code : ReturnCodes, error : Messages, error_buffer : Buffers]

\* A frame at its start; Idle is that of a thread outside the function.
Frame(label, h, lib, before, buffer) ==
  [pc |-> label, h |-> h, lib |-> lib, before |-> before,
   return_code |-> "success", error |-> "none", error_buffer |-> buffer]

Idle == Frame("idle", None, None, Null, "absent")

At(th, label) == call[th].pc = label

\* The handle is not in use by a load call of any thread.
Free(h) == \A th \in Threads : call[th].h # h

Init ==
  /\ weak \in BOOLEAN
  /\ refs = [l \in Libs |-> 0]
  /\ pending = [th \in Threads |-> "none"]
  /\ handle = [h \in Handles |->
                 IF h \in Uninitialised
                 THEN [factory |-> Garbage, lib_handle |-> Garbage] ELSE Null]
  /\ call = [th \in Threads |-> Idle]
  /\ lost = [l \in Libs |-> 0]

\* The application's own use of the loader leaves a message behind.
AppDlFailure(th) ==
  /\ At(th, "idle")
  /\ pending' = [pending EXCEPT ![th] = "earlier"]
  /\ UNCHANGED <<weak, refs, handle, call, lost>>

\* A thread loads lib into a handle that no other load is filling.
LoadCall(th, lib, h, hasBuffer) ==
  /\ At(th, "idle")
  /\ Free(h)
  /\ handle[h].lib_handle \in Libs => lost[handle[h].lib_handle] < MaxLost
  /\ call' = [call EXCEPT ![th] =
       Frame(IF weak THEN "dlopen" ELSE "unsupported", h, lib, handle[h],
             IF hasBuffer THEN "untouched" ELSE "absent")]
  /\ UNCHANGED <<weak, refs, pending, handle, lost>>

\* COPY_ERROR on a given frame and message.
CopiedError(frame, error) ==
  IF error = "none" \/ frame.error_buffer = "absent"
  THEN frame.error_buffer ELSE error

\* The build without weak symbols only reports that it cannot load.
NotSupported(th) ==
  /\ At(th, "unsupported")
  /\ call' = [call EXCEPT ![th].error_buffer = CopiedError(call[th], "literal"),
                          ![th].return_code = "not_supported",
                          ![th].pc = "returned"]
  /\ UNCHANGED <<weak, refs, pending, handle, lost>>

\* handle->lib_handle = dlopen(lib, flags), over whatever the member held;
\* on failure the message is fetched, which clears it.
DlOpen(th) ==
  LET h == call[th].h
      lib == call[th].lib
      old == handle[h].lib_handle
  IN
  /\ At(th, "dlopen")
  /\ lost' = IF old \in Libs THEN [lost EXCEPT ![old] = @ + 1] ELSE lost
  /\ \/ /\ handle' = [handle EXCEPT ![h].lib_handle = lib]
        /\ refs' = [refs EXCEPT ![lib] = @ + 1]
        /\ call' = [call EXCEPT ![th].pc = "dlsym"]
        /\ UNCHANGED pending
     \/ /\ handle' = [handle EXCEPT ![h].lib_handle = None]
        /\ call' = [call EXCEPT ![th].pc = "copy",
                                ![th].error = "dlopen",
                                ![th].return_code = "failure"]
        /\ pending' = [pending EXCEPT ![th] = "none"]
        /\ UNCHANGED refs
  /\ UNCHANGED weak

\* Mutant: dlerror() is not called before dlsym.
DlSym_NotCleared(th) ==
  /\ At(th, "dlsym")
  /\ pending' = [pending EXCEPT ![th] = "none"]
  /\ \/ call' = [call EXCEPT ![th].pc = "hook"]
     \/ \E msg \in {"dlsym", pending[th]} :
          call' = [call EXCEPT ![th].pc = "copy",
                               ![th].error = msg,
                               ![th].return_code = "failure"]
  /\ UNCHANGED <<weak, refs, handle, lost>>

\* dlerror() fetches and so clears what was pending; then dlsym finds the
\* hook, or fails with a message, or returns a null symbol without one.
DlSym(th) ==
  LET cleared == "none" IN
  /\ At(th, "dlsym")
  /\ pending' = [pending EXCEPT ![th] = "none"]
  /\ \/ call' = [call EXCEPT ![th].pc = "hook"]
     \/ \E msg \in {"dlsym", cleared} :
          call' = [call EXCEPT ![th].pc = "copy",
                               ![th].error = msg,
                               ![th].return_code = "failure"]
  /\ UNCHANGED <<weak, refs, handle, lost>>

\* The hook returns a factory or NULL, sets return_code or leaves it at
\* success, and may have written a message of its own.  Its error code comes
\* before its factory, and neither of them is an error too.
CallHook(th) ==
  LET h == call[th].h
      lib == call[th].lib
  IN
  /\ At(th, "hook")
  /\ \E f \in {lib, None}, rc \in ReturnCodes, writes \in BOOLEAN :
       /\ lib \in Trusted /\ rc # "success" => f = None
       /\ writes => call[th].error_buffer # "absent"
       /\ handle' = [handle EXCEPT ![h].factory = f]
       /\ call' = [call EXCEPT
            ![th].pc = IF rc = "success" /\ f # None THEN "returned" ELSE "copy",
            ![th].return_code = IF rc = "success" /\ f = None THEN "failure" ELSE rc,
            ![th].error = IF rc = "success" /\ f = None THEN "literal" ELSE "none",
            ![th].error_buffer = IF writes THEN "hook" ELSE @]
  /\ UNCHANGED <<weak, refs, pending, lost>>

\* cleanup: COPY_ERROR();
CopyError(th) ==
  /\ At(th, "copy")
  /\ call' = [call EXCEPT ![th].error_buffer = CopiedError(call[th], call[th].error),
                          ![th].pc = "close"]
  /\ UNCHANGED <<weak, refs, pending, handle, lost>>

\* Mutant: lib_handle is set to NULL without dlclose.
CloseLibrary_Leaks(th) ==
  /\ At(th, "close")
  /\ call' = [call EXCEPT ![th].pc = "returned"]
  /\ handle' = [handle EXCEPT ![call[th].h].lib_handle = None]
  /\ UNCHANGED <<weak, refs, pending, lost>>

\* Mutant: lib_handle is not reset after dlclose.
CloseLibrary_KeepsPointer(th) ==
  LET lib == handle[call[th].h].lib_handle IN
  /\ At(th, "close")
  /\ call' = [call EXCEPT ![th].pc = "returned"]
  /\ refs' = IF lib = None THEN refs ELSE [refs EXCEPT ![lib] = @ - 1]
  /\ UNCHANGED <<weak, pending, handle, lost>>

\* if (handle->lib_handle != NULL) { dlclose; handle->lib_handle = NULL; }
CloseLibrary(th) ==
  LET h == call[th].h
      lib == handle[h].lib_handle
  IN
  /\ At(th, "close")
  /\ call' = [call EXCEPT ![th].pc = "returned"]
  /\ handle' = [handle EXCEPT ![h].lib_handle = None]
  /\ refs' = IF lib = None THEN refs ELSE [refs EXCEPT ![lib] = @ - 1]
  /\ UNCHANGED <<weak, pending, lost>>

Return(th) ==
  /\ At(th, "returned")
  /\ call' = [call EXCEPT ![th] = Idle]
  /\ UNCHANGED <<weak, refs, pending, handle, lost>>

\* Mutant: the factory pointer is left in the handle.
DestroyHandle_KeepsFactory(th, h) ==
  LET lib == handle[h].lib_handle IN
  /\ At(th, "idle") /\ Free(h) /\ lib \in Libs
  /\ refs' = [refs EXCEPT ![lib] = @ - 1]
  /\ handle' = [handle EXCEPT ![h].lib_handle = None]
  /\ UNCHANGED <<weak, pending, call, lost>>

\* Mutant: lib_handle is left in the handle, so a second destroy closes again.
DestroyHandle_KeepsLibrary(th, h) ==
  LET lib == handle[h].lib_handle IN
  /\ At(th, "idle") /\ Free(h) /\ lib \in Libs
  /\ refs' = [refs EXCEPT ![lib] = @ - 1]
  /\ handle' = [handle EXCEPT ![h].factory = None]
  /\ UNCHANGED <<weak, pending, call, lost>>

\* opentracing_library_handle_destroy, which does nothing to a handle that
\* owns no library.
DestroyHandle(th, h) ==
  LET lib == handle[h].lib_handle IN
  /\ At(th, "idle")
  /\ Free(h)
  /\ lib # Garbage
  /\ IF lib = None
     THEN UNCHANGED <<refs, handle>>
     ELSE /\ refs' = [refs EXCEPT ![lib] = @ - 1]
          /\ handle' = [handle EXCEPT ![h] = Null]
  /\ UNCHANGED <<weak, pending, call, lost>>

LoadStep(th) ==
  \/ NotSupported(th)
  \/ DlOpen(th)
  \/ DlSym(th)
  \/ CallHook(th)
  \/ CopyError(th)
  \/ CloseLibrary(th)
  \/ Return(th)

Next ==
  \E th \in Threads :
    \/ AppDlFailure(th)
    \/ \E lib \in Libs, h \in Handles, b \in BOOLEAN : LoadCall(th, lib, h, b)
    \/ \E h \in Handles : DestroyHandle(th, h)
    \/ LoadStep(th)

Spec == Init /\ [][Next]_vars

-----------------------------------------------------------------------------
TypeOK ==
  /\ weak \in BOOLEAN
  /\ refs \in [Libs -> Nat]
  /\ pending \in [Threads -> {"none", "earlier"}]
  /\ handle \in [Handles -> Members]
  /\ call \in [Threads -> Frames]
  /\ lost \in [Libs -> Nat]

Owners(l) == {h \in Handles : handle[h].lib_handle = l}

\* The loader's count of a library is the number of handles that own it, and
\* of references a careless caller has lost, at every step of every load and
\* destroy: no failure path leaks a reference and none gives one back twice.
ReferencesOwned == \A l \in Libs : refs[l] = Cardinality(Owners(l)) + lost[l]

\* A factory of a trusted library that can be called is in memory: its handle
\* keeps the library loaded, or a reference to it was lost for good.  It
\* stays so when the handle is loaded again and the load fails on any path.
FactoryIsLoaded ==
  \A h \in Handles : handle[h].factory \in Trusted =>
    LET f == handle[h].factory IN
    /\ handle[h].lib_handle = f \/ lost[f] > 0
    /\ refs[f] > 0

\* A load that returns an error leaves lib_handle null, so that destroying
\* the handle is harmless although it was never zeroed, and no factory of its
\* own: of a zeroed handle both members are null, as dynamic_load_test.c
\* asserts after each failing load.  A build without weak symbols leaves the
\* handle alone.
FailedLoadClearsHandle ==
  \A th \in Threads :
    (At(th, "returned") /\ call[th].return_code # "success") =>
      LET m == handle[call[th].h] IN
      /\ m.lib_handle = IF weak THEN None ELSE call[th].before.lib_handle
      /\ m.factory \in Trusted \cup {Garbage} => m.factory = call[th].before.factory

\* The message a caller is given is about this load, never one the loader
\* still had from an earlier failure; and a call that succeeds leaves no
\* message of the loader or of dynamic_load.c.
MessageIsOfThisLoad ==
  \A th \in Threads : At(th, "returned") =>
    /\ call[th].error_buffer # "earlier"
    /\ call[th].return_code = "success" =>
         call[th].error_buffer \in {"absent", "untouched", "hook"}

-----------------------------------------------------------------------------
\* A load of th's into h has not come to its end.
Fills(th, h) == call[th].h = h /\ ~At(th, "returned")

\* The members of h as its owner knows them: until the load into it ends,
\* what they were at the call.
Seen(h) ==
  IF \E th \in Threads : Fills(th, h)
  THEN call[CHOOSE th \in Threads : Fills(th, h)].before
  ELSE handle[h]

\* What a thread's load has returned.
Told(th) ==
  IF At(th, "returned") THEN [h |-> call[th].h, code |-> call[th].return_code]
                        ELSE [h |-> None, code |-> "none"]

Interface == INSTANCE LibraryHandles WITH
               handle <- [h \in Handles |-> Seen(h)],
               told <- [th \in Threads |-> Told(th)]

\* A load is one step to the owner of the handle, wherever it fails and
\* whatever other threads load and destroy meanwhile: the outcome it is told
\* is what the handle has.
ImplementsHandles == Interface!Spec
=============================================================================
