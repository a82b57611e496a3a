# A TLA+ development of opentracing-c

opentracing-c is a small C library: interfaces (structs of function pointers) for
tracers, spans and carriers, a no-op implementation of them, one process-wide
tracer, and a loader for tracing libraries of vendors. The logic is in two files,
`src/src/opentracing-c/tracer.c` and `dynamic_load.c`; the headers say what an
implementation and an application may rely on, and `src/snippets/` shows the
intended use. Paths below are relative to `src/` (so `src/opentracing-c/tracer.c`
is `src/src/opentracing-c/tracer.c` in `PROJECT.json`).

## Inventory

| Part | State | Operations | What is hard | What makes it correct |
|---|---|---|---|---|
| Global tracer slot (`tracer.c` 224-242) | the pointer `global_tracer`, plain and shared by all threads | `opentracing_global_tracer`, `opentracing_init_global_tracer` (compare, destroy the old, assign) | threads interleave between the three accesses; stale reads; pointers kept by callers; reinstallation; `destroy` is a callback that may call both functions | no thread uses a destroyed tracer, none is destroyed twice or lost, a call takes effect |
| No-op tracer and spans (`tracer.c` 5-222) | `noop_span_singleton.tracer_ptr` | start (two forms, dispatched through members), `tracer`, finish, destroy, context, extract; setters and inject do nothing | every span is the same object, written by every start on every thread | each holder's span has the life `span.h` describes, as if it were its own; a live span has a tracer |
| Dynamic loading (`dynamic_load.c`) | the handle's two members, the loader's reference counts and sticky message, the frame of the call | load, destroy a handle | any of dlopen, dlsym, the hook may fail; libraries are shared; messages of earlier failures; handles that were not zeroed or are loaded over; a hook that breaks its contract | references balance, a factory's library is loaded, a failed load leaves a null handle, the message is the right one |
| Error buffer (`COPY_ERROR`, `dynamic_load.c` 26-38) | the caller's bytes | copy a message, cut to fit | int and size_t, lengths 0 and 1, exact fit, old contents | writes stay in bounds; the buffer is the message as a C string |
| Propagation carriers (`propagation.h`, `extract_snippet.c`, `inject_snippet.c`, text map stubs) | a map and an iterator of the application | writer `set`, reader `foreach_key` | callbacks, an iterator with a first and a last element | every pair is delivered once, none before it was read |
| Span clients (`*_snippet.c`) | a span and contexts | start, finish, destroy, inject, extract | a start that returns NULL, contexts of another tracer | no call through NULL, finish is the last call |
| Tracer life cycle (`tracer_factory.h`, both `.c` files) | library, factory, tracer, slot | load, make, install, replace, unload | order of unload and destroy | no code runs from a library that was closed |
| Values, macros, build, tests | - | - | - | data and tooling; the tests are read as statements about the parts above |

Interaction: the application installs a tracer (its own, or one made by a factory
that `opentracing_dynamically_load_tracing_library` returned) in the slot. Every
other thread fetches the pointer and calls through it. The slot calls back into the
tracer once, at `destroy`. The library itself has no thread, lock or atomic.

`PROJECT.json` lists the hazards with their lines, and the properties that cover each.

## Modules

```
TracerSlot        what the slot promises, one step per replacement
   ^ refinement
LockedInstall --EXTENDS--+
OnceInstall   --EXTENDS--+--> GlobalTracer      the two functions, access by access
   ^ EXTENDS, and refinement
SpanClients       the snippets' clients, fetching the tracer of OnceInstall

Lifecycle --EXTENDS--> LockedInstall            libraries, their tracers and the slot
          --INSTANCE-> DynamicLoad              load and destroy of library handles
                          v refinement
                       LibraryHandles           a load as one step on its handle
ReentrantDestroy  the installation as seen by the destroy it calls

SpanInterface     what a span promises its holder
   ^ refinement
NoopTracer        the shared no-op span and context
TextMapCarrier    the snippets' text map writer and reader
ErrorBuffer       COPY_ERROR, byte by byte

MCDynamicLoad, MCLifecycle       symmetry sets for TLC
GlobalTracerProofs
SpanClientsProofs                first OnceInstall, then its clients
LifecycleProofs                  first LockedInstall, then the life cycle
ReentrantDestroyProofs, NoopTracerProofs, TextMapCarrierProofs,
DynamicLoadProofs, ErrorBufferProofs
```

### GlobalTracer

`global_tracer` is the C variable. A call of `opentracing_init_global_tracer` by
thread `th` is the sequence `InitCall`, `InitCompare` (236-238), `InitDestroyOld`
(239-240), `InitAssign` (241); `pc[th]` is the place in it and `tracer[th]` the
argument. `GetGlobalTracer` is `opentracing_global_tracer`, and `held[th]` is the
pointer until the thread's last use of it, `Release`. `destroys[t]` counts the vendor
destroy calls on `t`; the no-op tracer's destroy does nothing, so it is not counted.
`installed` is a history variable.

The variable is plain, so a racing access is a data race. It is modelled by
`stale[th]`: the values already overwritten that th may still read. A read returns
any of them or the latest one (`Readable`); after reading the latest one a thread
does not go back (`ViewAfterReading`); a write adds the old value to the stale
values of all other threads; acquiring a lock or returning from `pthread_once`
empties them. `global_tracer->destroy(global_tracer)` reads the variable twice, so
function and argument may differ. What the model does not have is the publication of
the tracer's own members: an unsynchronised reader that sees the new pointer is taken
to see a complete tracer. Torn pointers are not modelled either.

Precondition: a tracer passed to `opentracing_init_global_tracer` is alive at the
time of the call (`tracer.h` 72-75). One that a racing thread destroys during the
call is modelled.

`GlobalTracer` has a specification for threads that do not synchronise at all. Little
holds there, which is why the two ways of using it have modules of their own:

- `OnceInstall`: `tracer.h` 243, "Ideally, only called once. Good candidate for use of
  pthread_once". The once routine makes a vendor tracer and installs it
  (`snippets/main_snippet.c`). Readers may fetch the pointer at any time, without
  going through `pthread_once`.
- `LockedInstall`: the tracer is replaced while the program runs, as
  `test/tracer_test.c` 150-158 does in one thread. The application holds a
  reader-writer lock exclusively around the installation and shared while it uses a
  vendor tracer. The no-op tracer may be kept beyond the lock.

### TracerSlot

The slot without memory accesses: `current`, `retired`, and `Replace`. `LockedInstall`
implements it with `current <- global_tracer` and `retired <-` the tracers whose
destroy was called, less the one that is still in the slot between `destroy` and the
assignment (`Replaced`): the replacement takes place at the assignment.

### ReentrantDestroy

`global_tracer->destroy(global_tracer)` (239-240) runs a vendor's code while the slot
still holds the tracer that is being destroyed. The other modules take it as one step
that calls nothing back; here it may use `opentracing_global_tracer` and
`opentracing_init_global_tracer`. One thread's calls are a stack `calls`, whose
entries have the argument, the place, and the tracer whose destroy was called;
`UserCode` is when the application or the innermost destroy runs. An installation
from inside a destroy finds the tracer that is being destroyed still in the slot and
calls its destroy again: a vendor whose destroy can be entered again must return at
once (`life` "dying"), which is assumed, since a destroy that ends its tracer twice
has no defined outcome. When the outer destroy returns, the assignment overwrites
what was installed meanwhile; that tracer is never destroyed. `LostOnlyByNesting` says
that this is the only way to lose one.

A destroy may also install the very tracer that a call around it is installing. When it
replaces that tracer at once, the tracer is destroyed, and the outer call assigns it all
the same: from then on the slot has a destroyed tracer, and the next installation calls
its destroy again. Neither the code nor a document rules this out. `repeated` is the
history of such arguments, and `SlotIsUsable` says that nothing else that nested
installations do puts a destroyed tracer into the slot. The one precondition on callers
is that a tracer whose life has ended is not installed (`tracer.h` 72-75). What a destroy
does to such a tracer is undefined; the model lets it return. Every call but the
innermost is inside the destroy of a tracer of its own, so the number of vendor tracers
bounds the depth, without a bound in the guards.

### NoopTracer and SpanInterface

All no-op spans are `noop_span_singleton`; `tracer_ptr` is its member, with stale
reads as above. `NoopCompare` and `NoopStore` are lines 136-139. A tracer of the
application may be a copy of the no-op one: `StartSpan` goes through the member, so
an overrider's own function runs (`noop_tracer_start_span`, 142-146). `AskTracer` is
`span->tracer(span)`, `Finish` both forms of finish, `SpanContext` and `Extract` the
two ways to the static context, `DestroySpan` and `DestroyContext` `noop_destroy`.
`span[th]`, `finished` and `context` are what the threads hold, which the code does not
record. The other functions ignore their arguments and are no actions.

`SpanInterface` is `span.h`: a holder's span is open, finished and gone by the holder's
own calls, only context and destruction come after finish, `tracer` names the maker,
and no other holder's calls show. `NoopTracer` implements it with every thread a
holder (`ImplementsSpans`), although all spans are one object. `Alike` is what the
shared object cannot tell apart: the tracers that use the no-op start function.
Without copies of the no-op tracer that is the no-op tracer alone, and the answer is
exact. With a copy, a later start on one overwrites `tracer_ptr` under the spans of
the other, so `span.h` 265, "provides access to the tracer that created this span",
holds only up to `Alike`.

### SpanClients

`abc`, `xyz`, `inject` and `extract` of the snippets, on every thread, while one thread
installs a vendor tracer as `OnceInstall` says. `frames[th]` is the thread's stack of client
calls, at most `abc` with an `xyz` inside it; a frame has its place and its span, and a
span is represented by the tracer that made it. `Fetch` is the read of the slot,
`Start` the last use of the pointer for `abc` and `xyz`, `InjectContext` for `inject`,
which returns with its span neither finished nor destroyed, as the code does, and
`ExtractContext` for `extract`, which is taken with a reader that works (see
`TextMapCarrier`). A thread that is inside the installation runs no client. The tracers in `MayFail` may
return NULL from a start function.

### TextMapCarrier

The writer's `set` and the reader's `foreach_key` over a map, which is the sequence of
its pairs in the order in which the iterator yields them. The map and its iterator are
the application's; the stub of `snippets/text_map.c` is always empty, so their
behaviour is what `text_map.h` and `text_map_iterator.h` declare: an insertion may
fail, an iterator may not be allocated. `it` is what the iterator has yet to yield and
`entry` the variables `key` and `value`, indeterminate before the first `next`. The
tracer on the other side is external: its inject sets some keys and stops at the
first error, its extract passes a handler that may return any code. The assertions on
`key` and `value` (36-37) are not modelled: what they do to an indeterminate pointer
is not determined, and a build with NDEBUG has none. `ReaderInit` is
`text_map_reader_init`, which stores the functions at the address of its parameter;
since a reader so initialised cannot be called, `foreach_key` is modelled for readers
that some other code initialised. Carriers are used by one thread.

### DynamicLoad

`call[th]` is the frame of a load: its place, handle, library, `return_code`, `error`
and what is in the caller's buffer. The actions follow lines 58-98 in order;
`NotSupported` is the build without weak symbols (variable `weak`). The dynamic
loader is external: `refs` counts the references of each library, `pending` is the
message dlerror would return. dlopen, dlsym and the hook may fail at any call;
the code ignores what dlclose returns, and so does the model. Destroying a handle is one
step: its owner is the only one to see the handle between the stores. The
hook of a library in `Trusted` keeps its contract (`dynamic_load.h` 47: NULL on
failure); another may return a factory with an error code. The caller does not share
a handle that a load is filling (`Free`). It need not zero a handle in
`Uninitialised` (`dynamic_load.h` 81 calls it `[out]`), but then it does not destroy it
before a load has written `lib_handle`. It may load into a handle that owns a library,
which the code does not notice: `lost` counts the references that are gone with it.
Messages are kinds ("dlopen", "literal", "earlier", ...); their bytes are
`ErrorBuffer`.

### LibraryHandles

Loading and destroying as the owner of a handle sees them: `Succeed` gives the handle a
library and its factory, `Fail` leaves it without a library (and its factory as it was,
or NULL, or one that an untrusted hook returned with its error), `Refuse` is the build
without weak symbols, and `told[th]` is the outcome that a load has returned. `DynamicLoad`
implements it (`ImplementsHandles`): until a load ends, its handle maps to what it was at
the call (`Seen`), although the code may have written both members by then. A failure
after `lib_handle` was written, the cleanup of another thread's load of the same
library, or a load over a handle in use could each break it.

### Lifecycle

The composition: `DynamicLoad` is instantiated next to the variables of
`LockedInstall`. A thread is in one of the two parts at a time (`Outside`).
`MakeTracer` calls a handle's factory; `made[t]` is the handle and the library. `Install`
gives a live tracer to the slot, `Discard` is its owner's own call of destroy (as in
`test/dynamic_load_test.c` 62). `Unload` has the precondition that `dynamic_load.h`
70-72 puts on the caller: destroy has been called on every tracer made through the
handle. Nothing in the code knows about it. `UsedCodeIsLoaded` asks whether that is
enough, given that the slot calls destroy on its own, that another handle for the same
library comes and goes, and that loads of it fail: a tracer that a thread holds,
installs, destroys or can find in the slot has its library in memory. The libraries
are trusted and the handles zeroed and never loaded over (`MaxLost` 0). `LifeSpec` implies
`LockedSpec`, so the theorems about the slot hold here too. `LoadsAreOneStep` is
`ImplementsHandles` in the composition.

### ErrorBuffer

A message is its length, its bytes are `<<length, index>>`. `Copied` is the macro's
body, with `ToInt` the conversion of `strlen(error) + 1` to `int` and `ToSize` that of
the size argument of `memcpy`. Memory is a function whose domain grows when something
is written outside the buffer. The buffer is used again and again, so that a short
message lies over a longer one.

The operators named `<Action>_<What>` and commented as mutants are faulty variants
of an action; each shows that a property depends on that line of the code, and none
is used by a specification.

## Runs

| Run | Module, cfg | Question and bounds |
|---|---|---|
| racing | GlobalTracer | Two threads, two vendor tracers, no synchronisation. Only that destroy is never run on a tracer that was not installed. Two threads meet in every pair of places of the call, two vendor tracers are enough for one to replace the other while the no-op tracer is stale. 417 thousand states. `destroys` is bounded because a dead tracer is not passed again. |
| locked | LockedInstall | Two threads, two tracers, any number of installations; safety, the refinement of TracerSlot and that a call takes effect. |
| noop_spans | NoopTracer | Two threads, the no-op tracer, a copy and an overrider, so that each of two starts can hit the shared member between the other's compare, store and use; safety and the refinement of SpanInterface. 22 thousand states. |
| loading | MCDynamicLoad | Two threads, handles and libraries, so that a library is loaded twice, by one thread or by two, and closed by either. One library is trusted and one is not, one handle is zeroed and one is not. A caller loses at most one reference of each library (`MaxLost`): one is enough for a factory to outlive its handle's reference. Threads are symmetric. 3.9 million states. |
| error_buffer | ErrorBuffer | Lengths 1 to 5, messages of 0 to 7 characters: shorter than the buffer, exact fit, one too long, much too long; int of 5 bits, size_t of 6. |
| error_buffer_zero | ErrorBuffer | Finding: length 0 with a buffer. |
| clients | SpanClients | Three threads (one runs the once routine, one waits for it, one only reads), two tracers they compete to install; nesting of depth two, as in the snippets. No start function returns NULL (`MayFail` is empty): what the clients do after that is the next run. Checks that the clients refine OnceInstall, that module's own properties, and under its fairness that the routine takes effect. 660 thousand states. |
| client_null_span | SpanClients | Finding: one tracer may return NULL. |
| text_map | TextMapCarrier | Three keys, two values, any number of injections and reads: a map of up to three pairs, repeated keys, an injection cut short, a handler that fails at the first, a middle or the last pair. `InjectedIsInMap` speaks of the pairs of all injections (`set_pairs` is never emptied). `DeliversInOrder` is what holds of the handler's calls in spite of the third finding, and a reader that fetches each pair before it calls the handler satisfies it too: the pairs it gets are the first of the map, in order, apart from a first call that may come without one. The map is finite because a key is inserted once. |
| text_map_contents | TextMapCarrier | Finding: two keys are enough for a map with one pair. |
| lifecycle | MCLifecycle | Two threads, two tracers, two handles of one library: both handles own it, or one does while a load into the other fails; the two tracers replace each other. Also checks the refinement of LibraryHandles, which on the larger instance of `loading` takes too long. Threads, tracers and handles are symmetric. 1.15 million states. |
| reentrant | ReentrantDestroy | Three vendor tracers and the no-op tracer as arguments: up to four calls inside one another, three of them with their destroy running. Three are enough for the exception of `SlotIsUsable`: one in the slot, the one being installed, and the one its destroy replaces that with. 67 thousand states. |

Symmetry is used in two runs, `loading` and `lifecycle`, which check safety only; none
of the definitions distinguishes among the symmetric values, and the one that chooses
among them (`Seen`) has one value to choose.

None of the passing runs disables the deadlock check: in each system some thread can
always go on. (`NoBuffer` stutters for a caller without a buffer.)

Fairness is assumed in four places. `OnceFairness` (also in `FairClientSpec`) and
`LockedFairness` say that a thread that is inside `opentracing_init_global_tracer` (and,
for `pthread_once`, at the end of its routine) goes on. The function has no loop and no
wait, and a vendor's destroy is taken to return. `TextMapCarrier` says the same of
`foreach_key` (`ForeachStep`): its loop waits for nobody and the handler is taken to
return. `ReentrantDestroy` has weak fairness for the steps of the code and strong
fairness for `DestroyReturns`: a destroy that calls back is at a place where it could
return again and again, and it does so in the end, after finitely many calls of its
own. No thread is assumed to call anything, to take a lock or to give it back.

What the properties say is in the comment before each. `InstalledForGood` and
`OutermostIsAssigned` are the action properties; `ImplementsSlot`, `ImplementsOnce`,
`ImplementsSpans` and `LoadsAreOneStep` the refinements;
`RoutineTakesEffect`, `CallTakesEffect`, `ForeachEnds` and `OutermostWins` the liveness
properties.

## Findings

1. The assertion in `dynamic_load.c` 52 admits a buffer that is not NULL with length
   0. The copy then has size -1 converted to size_t (`error_buffer_zero`). For every
   length of at least 1 the copy is right, which is proved.
2. `abc` and `xyz` notice that their span is NULL (`snippets/new_span_snippet.c` 12), print
   so, and go on to call `span->finish(span)`; `inject` does not look. `tracer.h` 85 says
   that a start function may return NULL (`client_null_span`).
3. `text_map_reader_foreach_key` calls the handler before the first
   `text_map_iterator_next` and leaves after the last one: the handler is given
   indeterminate pointers first and never the last pair, against `propagation.h` 100
   (`text_map_contents`).

More that a user should know of, without a statement of the repository that it refutes
in a run: the shared no-op span cannot tell copies
of the no-op tracer apart (`Alike`, above), against the letter of `span.h` 265; a
tracer installed from inside a destroy is overwritten without being destroyed
(`LostOnlyByNesting`); a destroy that installs and replaces what an outer call is
installing makes that call put a destroyed tracer into the slot (`SlotIsUsable`); and
`text_map_reader_init` of `extract_snippet.c` initialises its own parameter instead of the
reader (`ReaderInit`), so that the snippet's `extract` calls through an uninitialised
member.

## Proofs

TLAPS checks the theorems for every set of threads, tracers, handles and libraries,
and every buffer and message length, from the assumptions named in the modules
(`GlobalTracerAssumption`, `NoopTracerAssumption`, `SpanClientsAssumption`,
`DynamicLoadAssumption`, `LifecycleAssumption`: null values and the no-op tracer are
distinct from vendor tracers, spans and libraries, the set of handles is finite so that
owners can be counted; `ErrorBufferAssumption`: a message can be counted by an int, an
int is narrower than a size_t; `TextMapAssumption`: the set of keys is finite so that
those of a map can be counted, and an indeterminate content is not a pair).
`ReentrantDestroy` needs none.

- `GlobalTracerProofs`, racing threads: `TypeCorrect` and `DestroysOnlyInstalled`. The
  invariant adds that everything that can be read has been installed. It also has
  the lemmas about a step of the code that the next two parts use.
- `SpanClientsProofs`, first part, about `OnceInstall`: `OnceNoUseAfterDestroy`, `OncePassedReadsInstalled`,
  `OnceInstalledForGood`. The strengthening (`OnceIInv`) says where the routine is and
  what follows for the slot (`RoutinePhase`), that the only stale value is the no-op
  tracer, that nothing has been destroyed, and that a thread that has passed is
  synchronised. Without the stale values the routine's thread could be reading, and
  so destroying, something else.
- `LifecycleProofs`, first part, about `LockedInstall`: `LockedNoUseAfterDestroy`,
  `LockedReplacedDestroyedOnce`, and `LockedImplementsSlot`, the
  refinement. The strengthening (`LockedIInv`) has the lock's exclusion, that who
  holds the lock reads the latest value, that a held vendor tracer is the current one
  and held under the shared lock, and the life of the tracers at each place of the
  call. `CallerIsAlone` turns it into the fact each step uses: a thread inside the
  function reads only the latest value and no other thread holds a vendor tracer.
- `SpanClientsProofs`, second part: `ClientsImplementOnce`: each client step is a step of
  `OnceInstall` or leaves its state alone. So its theorems hold of the clients, and
  `ClientSpansOfLiveTracers` follows from its invariant. `ClientTypeCorrect` needs the
  shape of the frames (how deep they nest, which place belongs to which client), since
  a step replaces the last frame of a sequence. `TraceStaysUnbroken` needs more than
  the shape: a thread that has a vendor's span, or holds a vendor tracer inside one,
  no longer has the no-op tracer to read, because a thread's view never goes back and
  the slot is written once.
- `NoopTracerProofs`: `NoopTypeCorrect`, `SpanKnowsTracer`, `LiveSpanKeepsTracer` and
  `NoopImplementsSpans`. The strengthening says that the member, and every stale value
  of it, is NULL or a tracer that uses the no-op start function, that a thread which
  holds the shared span can no longer read NULL, and which place of the call goes with
  which span. From it each action of the shared object is one action of the holder's
  own span in `SpanInterface`, or none.
- `DynamicLoadProofs`: `LoadTypeCorrect`, `ReferencesBalance`, `FactoryStaysLoaded`,
  `FailedLoadClears`, `MessageIsCurrent` and `LoadsAreAtomic`, the refinement of
  `LibraryHandles`, which also covers what its run does not: untrusted libraries and
  handles that were not zeroed or are loaded over. The invariant has, for every place of a
  load, what is in its handle and what the frame has (the frame owns its handle alone,
  so no other thread's step disturbs it), and the balance of each library's count with
  the set of owning handles, whose cardinality changes by one with a member. The
  refinement follows from the same invariant: a load takes effect where the hook
  returns a factory, at the end of the cleanup, or in the refusal, and all its other
  steps change nothing that the owners of handles see.
- `LifecycleProofs`, second part: `LifecycleIsLocked` (a step of the composition is a step of
  `LockedInstall` or a stutter), `LifeTypeCorrect`, `LifecycleLoadsAtomically` and
  `UsedCodeStaysLoaded`. The last uses the invariants of both parts. What joins them is
  that every live tracer's handle owns its library, so that its count is positive, and
  that a used tracer is live, by the lock.
- `ErrorBufferProofs`: `StaysInBounds` and `ShowsLastMessage`, with the hypothesis that
  buffers have at least one byte. `CopiedBytes` says what each byte is after a copy.
- `ReentrantDestroyProofs`: `TypeCorrect`, `SlotAlwaysUsable`, `OnlyNestedIsLost` and
  `OutermostAssigns`, the safety half of `OutermostWins`, for any depth of nesting. The
  strengthening is about the whole stack: every call but the innermost is inside a
  destroy (`Stack`); each call's argument, unless it is repeated, is alive, differs from the
  other calls' arguments, and is neither in the slot after the comparison nor what a call
  within it destroys (`Arguments`); a dying tracer is one that some call destroys, and a replaced
  one is dying, dead or nested (`Lives`); while a call is inside a destroy the slot has
  what is destroyed or what was installed from there (`Slot`). `SlotIsUsable` alone is
  not inductive: a deeper call's destroy could end what an outer one goes on to assign.
- `TextMapCarrierProofs`: `TypeCorrect`, `InjectedStays`, `IteratorsAreBalanced`,
  `FirstErrorIsReturned` and `PairsDeliveredInOrder`, for maps of any size. The
  strengthening (`Progress`) is the loop invariant of `foreach_key`: the calls made and
  the pairs the iterator has left make up the map, one pair being out of step between
  the handler's call and `next`; `Delivered` and `Errors` say what each call got and
  returned. None of it survives a `set` during the loop, so the invariant also says that
  no injection is under way then (`OneAtATime`).

Every safety invariant, action property and refinement that a passing run checks is
also a theorem. Model-checked only are the four liveness properties (`RoutineTakesEffect`,
`CallTakesEffect`, `ForeachEnds`, `OutermostWins`): fairness is out of the prover's reach.

## Not modelled

- Values and tags, macros, build and configuration files: data and tooling without
  behaviour. The one switch that changes behaviour, weak symbols, is `weak`.
- The setters, getters, inject and close functions of the no-op tracer, which ignore
  their arguments and have no state.
- HTTP headers carriers have the interface of text map carriers; binary and custom
  carriers have no code here beyond their interface.
- The publication of a tracer's own members to unsynchronised readers: the memory of
  the models is the slot and the shared span's member.
- Vendor tracers beyond their interface; destroys that call back from several threads at
  once (`ReentrantDestroy` has one thread, the other modules have destroys that call
  nothing back).
- What follows a call through an uninitialised pointer (the reader of
  `extract_snippet.c`), since it has no outcome to go on from.
