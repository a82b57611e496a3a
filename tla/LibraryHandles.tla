--------------------------- MODULE LibraryHandles --------------------------
(***************************************************************************)
(* What loading and destroying come to for the owner of a library handle,  *)
(* with the calls of the dynamic loader and of the hook taken away: a load *)
(* is one step on one handle.  It gives the handle a library and its       *)
(* factory, or returns an error and leaves it without a library; a build   *)
(* that cannot load leaves it alone.  Whoever is told the outcome finds    *)
(* the handle so.                                                          *)
(***************************************************************************)
CONSTANTS Threads,         \* threads of the application
          Handles,         \* opentracing_library_handle objects
          Libs,            \* tracing libraries
          Trusted,         \* those whose hook keeps its contract
          Uninitialised,   \* handles the caller does not zero first
          None,            \* the null pointer
          Garbage          \* what an uninitialised member holds

VARIABLES weak,     \* the build can load libraries
          handle,   \* the members of each handle
          told      \* what a thread's load has returned, until it goes on

vars == <<weak, handle, told>>

Errors == {"failure", "not_supported", "incompatible_library_versions"}

\* A library that a handle owns is in both of its members; so is NULL when it
\* has none, and what was in memory when the caller did not zero it.
Both(p) == [factory |-> p, lib_handle |-> p]

Nothing == [h |-> None, code |-> "none"]

Init ==
  /\ weak \in BOOLEAN
  /\ handle = [h \in Handles |-> IF h \in Uninitialised THEN Both(Garbage) ELSE Both(None)]
  /\ told = [th \in Threads |-> Nothing]

\* Nobody is being told about the handle.
Settled(h) == \A th \in Threads : told[th].h # h

\* A load of th's into h ends with code.
Tell(th, h, code) ==
  /\ told[th] = Nothing
  /\ Settled(h)
  /\ told' = [told EXCEPT ![th] = [h |-> h, code |-> code]]
  /\ UNCHANGED weak

Succeed(th, h) ==
  /\ weak
  /\ Tell(th, h, "success")
  /\ \E lib \in Libs : handle' = [handle EXCEPT ![h] = Both(lib)]

\* The factory that the handle had stays in it unless the hook has replaced
\* it: by NULL, or by its own if the library breaks the contract.
Fail(th, h) ==
  /\ weak
  /\ \E code \in Errors : Tell(th, h, code)
  /\ \E f \in {handle[h].factory, None} \cup (Libs \ Trusted) :
       handle' = [handle EXCEPT ![h] = [factory |-> f, lib_handle |-> None]]

Refuse(th, h) ==
  /\ ~weak
  /\ Tell(th, h, "not_supported")
  /\ UNCHANGED handle

GoOn(th) ==
  /\ told[th] # Nothing
  /\ told' = [told EXCEPT ![th] = Nothing]
  /\ UNCHANGED <<weak, handle>>

Destroy(h) ==
  /\ handle'[h] # handle[h]
  /\ Settled(h)
  /\ handle[h].lib_handle \in Libs
  /\ handle' = [handle EXCEPT ![h] = Both(None)]
  /\ UNCHANGED <<weak, told>>

Load(th, h) == Succeed(th, h) \/ Fail(th, h) \/ Refuse(th, h)

\* That something is told or changes is stated first: to tell by it that a
\* step is none of these is quick.
Next ==
  \/ \E h \in Handles : Destroy(h)
  \/ \E th \in Threads :
       /\ told'[th] # told[th]
       /\ GoOn(th) \/ \E h \in Handles : Load(th, h)

Spec == Init /\ [][Next]_vars
=============================================================================
