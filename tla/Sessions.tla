------------------------------ MODULE Sessions ------------------------------
(***************************************************************************)
(* A Pipeline of the JavaScript package and what runs on it (pipeline.ts): *)
(* batch calls on the engine it was built with, and live sessions and lazy *)
(* runs, each on an engine compiled for it, on its own copies of the       *)
(* operators, which are part of the engine here: compile makes them.       *)
(* Also the functions that make a Pipeline for one use:                    *)
(* runOnce and runIterators (combinators.ts), forecastPairs                *)
(* (supervised.ts), and loads of a session's file (serial.ts), whose       *)
(* session owns the Pipeline.                                              *)
(*                                                                         *)
(* An engine lives in WASM: it must be released exactly once, by whichever *)
(* comes first of dispose() of its session, the end of its run, dispose()  *)
(* of its Pipeline, and the finalizers.  JavaScript has one thread, but a  *)
(* call runs code of the user in its middle (a source's next(), a value's  *)
(* conversion), which may make any other call: "calls" is the stack of the *)
(* calls in progress.  The garbage collector is external: it may finalize  *)
(* an object from when nothing reaches it, between two calls.              *)
(***************************************************************************)
EXTENDS Naturals, Sequences

CONSTANTS MaxRuns,    \* bound on the model: sessions and lazy runs
          MaxEvents,  \* bound on the model: the events of a run
          MaxDepth,   \* bound on the model: calls within calls
          Kinds,      \* subset of {"pipeline", "once", "iterators", "loaded"}
          Faulty      \* whether compiling, events and loads may fail

BoundAssumption == MaxRuns \in Nat \ {0} /\ MaxEvents \in Nat /\ MaxDepth \in Nat
KindAssumption == Kinds \subseteq {"pipeline", "once", "iterators", "loaded"} /\ Faulty \in BOOLEAN

Runs == 1 .. MaxRuns
Batch == 0                \* the Pipeline's engine for batch calls
Engines == {Batch} \union Runs
Callable == Batch         \* the handle of the callable Pipeline; a run is its own

VARIABLES kind,      \* how the Pipeline is made
          pipe,      \* "none", "open", "disposed" or "collected"
          run,       \* where each session or lazy run is
          engine,    \* "none", "open" or "released"
          deletes,   \* how often each engine was deleted
          sessions,  \* the Pipeline's set of session engines
          close,     \* held.close: the lazy run's finalizer has work
          fed,       \* how many events each engine took, since its start or reset
          kept,      \* the handles the user holds: Callable and runs
          calls      \* the runs whose call runs the user's code

engineVars == <<engine, deletes, sessions>>
vars == <<kind, pipe, run, engineVars, close, fed, kept, calls>>

Lazy == {"created", "running", "yielding", "flushed"}

Init ==
  /\ kind \in Kinds
  /\ pipe = "none"
  /\ run = [e \in Runs |-> "none"]
  /\ engine = [e \in Engines |-> "none"]
  /\ deletes = [e \in Engines |-> 0]
  /\ sessions = {}
  /\ close = [e \in Runs |-> FALSE]
  /\ fed = [e \in Engines |-> 0]
  /\ kept = {}
  /\ calls = <<>>

Enter(e) == Len(calls) < MaxDepth /\ calls' = <<e>> \o calls
Leave(e) == calls # <<>> /\ Head(calls) = e /\ calls' = Tail(calls)
InCall(e) == \E i \in DOMAIN calls : calls[i] = e

-----------------------------------------------------------------------------
(* Engines *)

\* Engine.release: only the first one deletes.
ToRelease(es) == {e \in es : engine[e] = "open"}

Release(es) ==
  /\ engine' = [e \in Engines |-> IF e \in ToRelease(es) THEN "released" ELSE engine[e]]
  /\ deletes' = [e \in Engines |-> IF e \in ToRelease(es) THEN deletes[e] + 1 ELSE deletes[e]]
  /\ sessions' = sessions \ ToRelease(es)

\* compile: all the engines of es are made, or the last one of them fails and
\* is released again with the copies made so far.
Compiled(es) ==
  /\ engine' = [e \in Engines |-> IF e \in es THEN "open" ELSE engine[e]]
  /\ sessions' = sessions \union (es \ {Batch})
  /\ UNCHANGED deletes
CompileFails(es, e) ==
  /\ Faulty
  /\ engine' = [d \in Engines |-> IF d = e THEN "released" ELSE IF d \in es THEN "open" ELSE engine[d]]
  /\ deletes' = [deletes EXCEPT ![e] = @ + 1]
  /\ UNCHANGED sessions

\* PipelineImpl.release
OfPipe == {Batch} \union sessions

-----------------------------------------------------------------------------
(* Making a Pipeline *)

Construct ==
  /\ kind = "pipeline" /\ pipe = "none"
  /\ \/ pipe' = "open" /\ kept' = {Callable} /\ Compiled({Batch})
     \/ pipe' = "disposed" /\ UNCHANGED kept /\ CompileFails({}, Batch)
  /\ UNCHANGED <<kind, run, close, fed, calls>>

\* runOnce and forecastPairs: make it, call it, and dispose it in any case.
RunOnce ==
  /\ kind = "once" /\ pipe = "none"
  /\ pipe' = "disposed"
  /\ engine' = [engine EXCEPT ![Batch] = "released"]
  /\ deletes' = [deletes EXCEPT ![Batch] = @ + 1]
  /\ fed' = [fed EXCEPT ![Batch] = 1]
  /\ UNCHANGED <<kind, run, sessions, close, kept, calls>>

\* runIterators: the user gets a generator around the lazy run, the only one
\* of its Pipeline.
RunIterators ==
  /\ kind = "iterators" /\ pipe = "none"
  /\ \/ /\ pipe' = "open" /\ kept' = {1} /\ Compiled({Batch})
        /\ run' = [run EXCEPT ![1] = "created"]
     \/ pipe' = "disposed" /\ UNCHANGED <<kept, run>> /\ CompileFails({}, Batch)
  /\ UNCHANGED <<kind, close, fed, calls>>

\* loads of a session's file: the Pipeline, a session, then its state.  A
\* state that does not fit ends both, or with onMismatch "fresh" neither.
Loads ==
  /\ kind = "loaded" /\ pipe = "none"
  /\ \/ /\ pipe' = "open" /\ kept' = {1} /\ Compiled({Batch, 1})
        /\ run' = [run EXCEPT ![1] = "live"]
        /\ \/ fed' = [fed EXCEPT ![1] = 1]
           \/ Faulty /\ UNCHANGED fed
     \/ pipe' = "disposed" /\ UNCHANGED <<kept, run, fed>> /\ CompileFails({}, Batch)
     \/ pipe' = "open" /\ UNCHANGED <<kept, run, fed>> /\ CompileFails({Batch}, 1)
     \/ /\ Faulty /\ pipe' = "disposed"
        /\ engine' = [e \in Engines |-> IF e \in {Batch, 1} THEN "released" ELSE engine[e]]
        /\ deletes' = [e \in Engines |-> IF e \in {Batch, 1} THEN deletes[e] + 1 ELSE deletes[e]]
        /\ UNCHANGED <<kept, run, fed, sessions>>
  /\ UNCHANGED <<kind, close, calls>>

-----------------------------------------------------------------------------
(* Batch calls *)

\* call: the feeds are read and converted, then the engine must still be there.
BeginCall ==
  /\ Callable \in kept /\ pipe = "open"
  /\ Enter(Batch)
  /\ UNCHANGED <<kind, pipe, run, engineVars, close, fed, kept>>

\* runBatchStore resets every node first.
EndCall ==
  /\ Leave(Batch)
  /\ \/ /\ engine[Batch] = "open"
        /\ \E n \in 1 .. MaxEvents : fed' = [fed EXCEPT ![Batch] = n]
     \/ engine[Batch] # "open" /\ UNCHANGED fed
  /\ UNCHANGED <<kind, pipe, run, engineVars, close, kept>>

\* Event of run e, through its engine.
Take(e) ==
  /\ fed[e] < MaxEvents
  /\ fed' = [fed EXCEPT ![e] = @ + 1]

Unused(e) == run[e] = "none" /\ \A d \in Runs : d < e => run[d] # "none"

-----------------------------------------------------------------------------
(* Live sessions *)

Live(e) ==
  /\ Callable \in kept /\ pipe = "open" /\ Unused(e)
  /\ \/ /\ run' = [run EXCEPT ![e] = "live"]
        /\ kept' = kept \union {e}
        /\ Compiled({e})
     \/ /\ run' = [run EXCEPT ![e] = "over"]
        /\ UNCHANGED kept
        /\ CompileFails({}, e)
  /\ UNCHANGED <<kind, pipe, close, fed, calls>>

\* push and pushWide: the session is checked, then the values are converted.
BeginPush(e) ==
  /\ e \in kept /\ run[e] = "live" /\ pipe = "open" /\ engine[e] = "open"
  /\ Enter(e)
  /\ UNCHANGED <<kind, pipe, run, engineVars, close, fed, kept>>

\* Bug: the address of the graph is not read again after the conversion.
EndPush_NotAgain(e) ==
  /\ run[e] \in {"live", "disposed"} /\ Leave(e)
  /\ \/ Take(e)
     \/ UNCHANGED fed
  /\ UNCHANGED <<kind, pipe, run, engineVars, close, kept>>

\* The engine takes the event, or refuses it; or the session is gone.
EndPush(e) ==
  /\ run[e] \in {"live", "disposed"} /\ Leave(e)
  /\ \/ engine[e] = "open" /\ Take(e)
     \/ UNCHANGED fed
  /\ UNCHANGED <<kind, pipe, run, engineVars, close, kept>>

\* dispose of the driver; a loaded one disposes its Pipeline too.
DisposeSession(e) ==
  /\ e \in kept /\ run[e] = "live"
  /\ run' = [run EXCEPT ![e] = "disposed"]
  /\ IF kind = "loaded" /\ pipe = "open"
       THEN pipe' = "disposed" /\ Release(OfPipe \union {e})
       ELSE UNCHANGED pipe /\ Release({e})
  /\ UNCHANGED <<kind, close, fed, kept, calls>>

-----------------------------------------------------------------------------
(* Lazy runs *)

MakeLazy(e) ==
  /\ Callable \in kept /\ pipe = "open" /\ Unused(e)
  /\ run' = [run EXCEPT ![e] = "created"]
  /\ kept' = kept \union {e}
  /\ UNCHANGED <<kind, pipe, engineVars, close, fed, calls>>

\* The generator of run e is over: its finally block releases the engine, and
\* then the one around it, in runIterators, disposes the Pipeline.
End(e) ==
  /\ run' = [run EXCEPT ![e] = "over"]
  /\ close' = [close EXCEPT ![e] = FALSE]
  /\ IF kind = "iterators" /\ pipe = "open"
       THEN pipe' = "disposed" /\ Release(OfPipe \union {e})
       ELSE UNCHANGED pipe /\ Release({e})

Started(e) ==
  /\ Compiled({e})
  /\ run' = [run EXCEPT ![e] = "running"]
  /\ close' = [close EXCEPT ![e] = TRUE]
  /\ Enter(e)
  /\ UNCHANGED pipe

\* Bug: the first next() does not look whether the Pipeline was disposed.
Start_Unchecked(e) ==
  /\ e \in kept /\ run[e] = "created"
  /\ Started(e)
  /\ UNCHANGED <<kind, fed, kept>>

\* The first next(): compile, or raise when the Pipeline is gone.
Start(e) ==
  /\ e \in kept /\ run[e] = "created"
  /\ \/ pipe = "open" /\ Started(e)
     \/ /\ pipe = "open" /\ kind # "iterators"
        /\ run' = [run EXCEPT ![e] = "over"]
        /\ CompileFails({}, e)
        /\ UNCHANGED <<close, pipe, calls>>
     \/ /\ pipe = "open" /\ kind = "iterators" /\ Faulty
        /\ run' = [run EXCEPT ![e] = "over"] /\ pipe' = "disposed"
        /\ engine' = [engine EXCEPT ![e] = "released", ![Batch] = "released"]
        /\ deletes' = [deletes EXCEPT ![e] = @ + 1, ![Batch] = @ + 1]
        /\ UNCHANGED <<close, sessions, calls>>
     \/ pipe # "open" /\ End(e) /\ UNCHANGED calls
  /\ UNCHANGED <<kind, fed, kept>>

\* next() on a run that has yielded: the remaining rows of the last event
\* come first; then the source is asked for the next event.
Next_(e) ==
  /\ e \in kept
  /\ \/ run[e] \in {"yielding", "flushed"} /\ UNCHANGED <<pipe, run, engineVars, close, calls>>
     \/ /\ run[e] = "yielding"
        /\ run' = [run EXCEPT ![e] = "running"]
        /\ Enter(e)
        /\ UNCHANGED <<pipe, engineVars, close>>
     \/ run[e] = "flushed" /\ End(e) /\ UNCHANGED calls
  /\ UNCHANGED <<kind, fed, kept>>

\* The source gave an event, which goes through the engine.  Rows are
\* yielded; without any, the source is asked again.
Pulled(e) ==
  /\ run[e] = "running" /\ engine[e] = "open"
  /\ Take(e)
  /\ \/ Leave(e) /\ run' = [run EXCEPT ![e] = "yielding"]
     \/ InCall(e) /\ Head(calls) = e /\ UNCHANGED <<run, calls>>
  /\ UNCHANGED <<kind, pipe, engineVars, close, kept>>

\* The source is at its end: the graph is flushed, and its rows yielded.
Flushed(e) ==
  /\ run[e] = "running" /\ engine[e] = "open"
  /\ Leave(e)
  /\ run' = [run EXCEPT ![e] = "flushed"]
  /\ UNCHANGED <<kind, pipe, engineVars, close, fed, kept>>

\* The source or an event is in error, or the engine is gone.
Broken(e) ==
  /\ run[e] = "running" /\ (Faulty \/ engine[e] # "open")
  /\ Leave(e)
  /\ End(e)
  /\ UNCHANGED <<kind, fed, kept>>

\* return() of the generator. One that has not started runs no finally block.
Return(e) ==
  /\ e \in kept
  /\ \/ run[e] \in {"yielding", "flushed"} /\ End(e)
     \/ /\ run[e] = "created"
        /\ run' = [run EXCEPT ![e] = "over"]
        /\ UNCHANGED <<pipe, engineVars, close>>
  /\ UNCHANGED <<kind, fed, kept, calls>>

-----------------------------------------------------------------------------
(* Dispose and the finalizers *)

DisposePipe ==
  /\ Callable \in kept /\ pipe = "open"
  /\ pipe' = "disposed"
  /\ Release(OfPipe)
  /\ UNCHANGED <<kind, run, close, fed, kept, calls>>

Drop(h) ==
  /\ h \in kept
  /\ kept' = kept \ {h}
  /\ UNCHANGED <<kind, pipe, run, engineVars, close, fed, calls>>

\* Bug: what the registry holds for the engine reaches the driver.
RunReachable_ByEngine(e) == e \in kept \/ InCall(e) \/ engine[e] = "open"

RunReachable(e) == e \in kept \/ InCall(e)

\* Bug: a driver and a generator do not hold the callable Pipeline.
PipeReachable_ByName == Callable \in kept \/ InCall(Batch)

\* A driver holds the callable Pipeline ("owner"), a generator until its end.
PipeReachable ==
  \/ Callable \in kept \/ InCall(Batch)
  \/ \E e \in Runs : RunReachable(e) /\ run[e] \in Lazy \union {"live", "disposed"}

FinalizePipe ==
  /\ pipe = "open" /\ calls = <<>> /\ ~PipeReachable
  /\ pipe' = "collected"
  /\ Release(OfPipe)
  /\ UNCHANGED <<kind, run, close, fed, kept, calls>>

\* releaseWith(driver, engine), and trackStream(gen, held).
FinalizeRun(e) ==
  /\ calls = <<>> /\ ~RunReachable(e)
  /\ \/ run[e] = "live" /\ engine[e] = "open" /\ UNCHANGED close
     \/ close[e] /\ close' = [close EXCEPT ![e] = FALSE]
  /\ Release({e})
  /\ UNCHANGED <<kind, pipe, run, fed, kept, calls>>

Next ==
  \/ Construct \/ RunOnce \/ RunIterators \/ Loads \/ BeginCall \/ EndCall
  \/ \E e \in Runs :
       \/ Live(e) \/ BeginPush(e) \/ EndPush(e) \/ DisposeSession(e)
       \/ MakeLazy(e) \/ Start(e) \/ Next_(e) \/ Pulled(e) \/ Flushed(e) \/ Broken(e) \/ Return(e)
       \/ FinalizeRun(e)
  \/ DisposePipe \/ FinalizePipe \/ \E h \in kept : Drop(h)

\* What nothing reaches is finalized at last.
Spec == Init /\ [][Next]_vars /\ WF_vars(FinalizePipe) /\ \A e \in Runs : WF_vars(FinalizeRun(e))

-----------------------------------------------------------------------------
(* Properties *)

\* No engine is deleted twice or lost: the Pipeline's set holds the open ones
\* of its runs, and when it is disposed or collected none is open.
ReleasedOnce ==
  /\ sessions = {e \in Runs : engine[e] = "open"}
  /\ pipe \notin {"none", "open"} => \A e \in Engines : engine[e] # "open"
  /\ \A e \in Engines : deletes[e] = IF engine[e] = "released" THEN 1 ELSE 0

\* What the user holds stays open: the finalizers take no engine of a session
\* or a run that is held and not over, also when the Pipeline itself is not
\* held any more.
HeldStaysOpen ==
  \A e \in Runs : e \in kept /\ run[e] \in {"live", "running", "yielding", "flushed"}
                    => engine[e] = "open" \/ pipe = "disposed"

\* An event never reaches an engine that is released, also when the code that
\* a call runs in its middle has disposed the session or the Pipeline.
FedOpen == \A e \in Engines : fed'[e] # fed[e] => engine[e] = "open" \/ engine[e] = "none"
NoUseAfterRelease == [][FedOpen]_vars

\* When the user holds nothing any more, all engines are released in the end.
Unheld == kept = {} /\ calls = <<>>
AllReleased == \A e \in Engines : engine[e] # "open"
Collected == Unheld ~> AllReleased

=============================================================================
