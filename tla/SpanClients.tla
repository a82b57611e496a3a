----------------------------- MODULE SpanClients ----------------------------
(***************************************************************************)
(* The clients of snippets/: abc starts a span on the global tracer,       *)
(* xyz starts a child of a span it is given, inject starts a span and      *)
(* injects its context, extract asks the tracer for a context.  They run   *)
(* on any thread while the installation of OnceInstall happens on one of   *)
(* them.  (extract is taken with a reader that was initialised, which      *)
(* TextMapCarrier says of text_map_reader_init.)                           *)
(*                                                                         *)
(* A thread's frames are its client calls in progress, the innermost last. *)
(* A span is represented by the tracer that made it.  The pointer to the   *)
(* tracer is held from opentracing_global_tracer() to its last use.        *)
(***************************************************************************)
EXTENDS OnceInstall, Sequences, SequencesExt

CONSTANTS MayFail,   \* vendor tracers whose start_span may return NULL
          NullSpan   \* the NULL they return

ASSUME SpanClientsAssumption ==
  MayFail \subseteq Tracers /\ NullSpan \notin Instances \cup {None}

VARIABLE frames   \* frames[th]: [fn, at, span] of each call in progress

clientVars == <<allVars, frames>>

Frame(fn) ==
  [fn |-> fn, span |-> None,
   at |-> CASE fn = "xyz" -> "context" [] fn = "inject" -> "map" [] OTHER -> "fetch"]

At(th, label) == frames[th] # <<>> /\ Last(frames[th]).at = label

Goto(th, label) == frames' = [frames EXCEPT ![th][Len(frames[th])].at = label]

Leave(th) == frames' = [frames EXCEPT ![th] = Front(@)]

ClientInit == OnceInit /\ frames = [th \in Threads |-> <<>>]

\* A thread calls abc, inject or extract.
Enter(th, fn) ==
  /\ frames[th] = <<>>
  /\ frames' = [frames EXCEPT ![th] = <<Frame(fn)>>]
  /\ UNCHANGED allVars

\* Within the span of abc, the thread calls xyz(span).
EnterChild(th) ==
  /\ At(th, "work")
  /\ Last(frames[th]).fn = "abc"
  /\ frames' = [frames EXCEPT ![th] = Append(@, Frame("xyz"))]
  /\ UNCHANGED allVars

\* parent_context = parent_span->span_context(parent_span);
ParentContext(th) ==
  /\ At(th, "context")
  /\ Goto(th, "fetch")
  /\ UNCHANGED allVars

\* text_map_writer_init(&writer): inject returns when there is no memory.
NewMap(th) ==
  /\ At(th, "map")
  /\ Goto(th, "fetch") \/ Leave(th)
  /\ UNCHANGED allVars

\* Mutant: xyz uses a pointer it read at the start of the program.
Fetch_Cached(th) ==
  /\ At(th, "fetch")
  /\ IF Last(frames[th]).fn = "xyz"
     THEN /\ pc[th] = "idle" /\ held[th] = None
          /\ held' = [held EXCEPT ![th] = Noop]
          /\ UNCHANGED <<global_tracer, stale, callVars, destroys, installed>>
     ELSE GetGlobalTracer(th)
  /\ Goto(th, IF Last(frames[th]).fn = "extract" THEN "extract" ELSE "start")
  /\ UNCHANGED onceVars

\* tracer = opentracing_global_tracer();
Fetch(th) ==
  /\ At(th, "fetch")
  /\ GetGlobalTracer(th)
  /\ Goto(th, IF Last(frames[th]).fn = "extract" THEN "extract" ELSE "start")
  /\ UNCHANGED onceVars

\* The spans that t's start functions return.
Started(t) == IF t \in MayFail THEN {t, NullSpan} ELSE {t}

\* span = tracer->start_span(...) or tracer->start_span_with_options(...).
\* inject needs the tracer once more.
Start(th) ==
  /\ At(th, "start")
  /\ \E s \in Started(held[th]) :
       LET frame == Last(frames[th]) IN
       \/ /\ frame.fn = "inject"
          /\ frames' = [frames EXCEPT ![th] = <<[frame EXCEPT !.span = s, !.at = "inject"]>>]
          /\ UNCHANGED vars
       \/ /\ frame.fn # "inject"
          /\ frames' = [frames EXCEPT
               ![th] = Append(Front(@), [frame EXCEPT !.span = s, !.at = "work"])]
          /\ Release(th)
  /\ UNCHANGED onceVars

\* tracer->inject_text_map(tracer, &writer, span->span_context(span)); inject
\* returns without finishing the span or destroying it and the map.
InjectContext(th) ==
  /\ At(th, "inject")
  /\ Release(th)
  /\ Leave(th)
  /\ UNCHANGED onceVars

\* tracer->extract_text_map(tracer, &reader, &span_context); extract returns
\* without destroying what it was given.
ExtractContext(th) ==
  /\ At(th, "extract")
  /\ Release(th)
  /\ Leave(th)
  /\ UNCHANGED onceVars

\* span->finish(span);
Finish(th) ==
  /\ At(th, "work")
  /\ Goto(th, "destroy")
  /\ UNCHANGED allVars

\* ((opentracing_destructible*) span)->destroy(...);
DestroySpan(th) ==
  /\ At(th, "destroy")
  /\ Leave(th)
  /\ UNCHANGED allVars

\* A thread calls pthread_once outside the clients or in the part of one that
\* is left to the application.
MayInstall(th) == frames[th] = <<>> \/ At(th, "work")

\* Everything of OnceInstall but the reads, which the clients make.
Install(th) ==
  /\ \/ MayInstall(th) /\ \E t \in Tracers : OnceRun(th, t)
     \/ MayInstall(th) /\ OnceSkip(th)
     \/ OnceFinish(th)
     \/ InitStep(th) /\ UNCHANGED onceVars
  /\ UNCHANGED frames

\* A thread that is inside the installation runs nothing else.
Client(th) ==
  /\ ~(once = "running" /\ runner = th)
  /\ \/ \E fn \in {"abc", "inject", "extract"} : Enter(th, fn)
     \/ EnterChild(th)
     \/ ParentContext(th)
     \/ NewMap(th)
     \/ Fetch(th)
     \/ Start(th)
     \/ InjectContext(th)
     \/ ExtractContext(th)
     \/ Finish(th)
     \/ DestroySpan(th)

ClientNext == \E th \in Threads : Install(th) \/ Client(th)

ClientSpec == ClientInit /\ [][ClientNext]_clientVars

\* A routine that was started runs on, as in OnceInstall; a client may stay in
\* the part that is left to the application for ever.
FairClientSpec == ClientSpec /\ OnceFairness

-----------------------------------------------------------------------------
Labels == {"context", "map", "fetch", "start", "work", "inject", "extract", "destroy"}

\* Types, and how clients nest: xyz only inside abc, and a tracer is held
\* exactly between the read of the slot and its last use.
ClientTypeOK ==
  /\ OnceTypeOK
  /\ \A th \in Threads :
       /\ Len(frames[th]) <= 2
       /\ \A i \in 1..Len(frames[th]) :
            /\ frames[th][i].fn \in (IF i = 1 THEN {"abc", "inject", "extract"} ELSE {"xyz"})
            /\ frames[th][i].at \in Labels
            /\ frames[th][i].span \in Instances \cup {None, NullSpan}
       /\ held[th] # None <=>
            At(th, "start") \/ At(th, "inject") \/ At(th, "extract")

\* Every span in use belongs to a tracer whose destroy has not been called,
\* although the client lets go of the tracer as soon as it has the span.
SpansOfLiveTracers ==
  \A th \in Threads : \A i \in 1..Len(frames[th]) :
    frames[th][i].span \in Instances => ~Dead(frames[th][i].span)

\* A child started within a vendor's span is made by the same tracer: once a
\* thread has a real span its trace is not broken by a later read of the slot,
\* although the reads are not synchronised.
TraceUnbroken ==
  \A th \in Threads :
    Len(frames[th]) = 2 /\ frames[th][1].span \in Tracers
      => frames[th][2].span \in {None, NullSpan, frames[th][1].span}

\* The clients use the slot as OnceInstall allows, so what is proved of it
\* holds for them.
ImplementsOnce == OnceSpec

\* span.h declares the argument of finish and of span_context non-null: no
\* client is about to call a member of a NULL span.
NoCallOnNull ==
  \A th \in Threads : \A label \in {"work", "inject"} :
    At(th, label) => Last(frames[th]).span # NullSpan
=============================================================================
