---------------------------- MODULE PullStreams ----------------------------
(***************************************************************************)
(* The lazy streams of the JavaScript package that pull several sources:   *)
(* merge (merge.ts), the as-of join and the positional join of             *)
(* combineLatest (combine.ts), and the sources of an operator's stream     *)
(* (zipSources in runtime.ts: "feed").  Each is a generator: a request of  *)
(* the consumer, next(), return() or throw(), makes it pull its sources    *)
(* until a row is ready or it ends.  When it ends, for whatever reason, it *)
(* closes the sources that have not ended and frees what it holds in WASM. *)
(*                                                                         *)
(* An async generator queues the requests that come while it awaits a      *)
(* source, and closes its sources all at once; a sync one runs a request   *)
(* to its end before its consumer can make the next, and closes them one   *)
(* by one.  The queue of a generator and the finalizers are those of the   *)
(* JavaScript engine.                                                      *)
(***************************************************************************)
EXTENDS Integers, Sequences, FiniteSets, SequencesExt

CONSTANTS N,             \* the number of sources
          kMin,          \* indexes lie in kMin .. kMax
          kMax,
          Indexes,       \* the indexes of events
          WhenAll,       \* emit "when_all": rows wait for every source
          Forms,         \* subset of {"merge", "join", "zip", "feed"}
          MaxEvents,     \* bound on the model: the events of a source
          MaxRequests,   \* bound on the model: the requests of the consumer
          Faulty         \* whether sources and events may be in error

ASSUME SourceAssumption == N \in Nat \ {0} /\ kMin \in Int /\ kMax \in Int /\ kMin < kMax
ASSUME FormAssumption == Forms \subseteq {"merge", "join", "zip", "feed"} /\ WhenAll \in BOOLEAN
ASSUME EventAssumption == Indexes \subseteq kMin .. kMax /\ MaxEvents \in Nat /\ Faulty \in BOOLEAN

VARIABLES form,      \* which of the four streams
          async,     \* whether its sources are async iterables
          src,       \* what each source does or did last
          returns,   \* how often return() was called on each source
          given,     \* the indexes of the events each source gave
          heads,     \* each source's event that was read and not yet used
          latest,    \* the join's latest event of each source
          due,       \* the join's held row, if any
          rows,      \* the rows that are computed and not yet asked for
          round,     \* the sources to pull before the next row
          out,       \* the rows the consumer got
          at,        \* where the generator is
          cause,     \* why it ended: the first error, "end" or "return"
          closing,   \* the sources that it still has to close
          closeErr,  \* the return() of some source failed
          requests,  \* the consumer's requests that are not answered yet
          asked,     \* how many requests it made
          dropped,   \* the consumer holds the generator no more
          answer,    \* the answer to the last request
          wasm,      \* the stream's object in WASM: none, open or freed
          deletes,   \* how often it was deleted
          held       \* held.close: the finalizer has something to free

kindVars == <<form, async>>
sourceVars == <<src, returns, given>>
rowVars == <<heads, latest, due, rows, round>>
endVars == <<cause, closing, closeErr>>
consumerVars == <<requests, asked, dropped, answer>>
heldVars == <<wasm, deletes, held>>
vars == <<kindVars, sourceVars, rowVars, out, at, endVars, consumerVars, heldVars>>

Sources == 0 .. N - 1
Errors == {"opening", "source", "event", "row", "out of step", "consumer"}

EventOf(p, t) == [index |-> t, port |-> p, nth |-> Len(given[p])]

Heads == UNION {heads[p] : p \in Sources}

\* MergeOrder's heap: the lowest index first, then the lowest source.
Before(a, b) == a.index < b.index \/ (a.index = b.index /\ a.port < b.port)

\* Bug: at one index the last source comes first.
IsTop_Ties(e) == e \in Heads /\ \A d \in Heads \ {e} :
                   e.index < d.index \/ (e.index = d.index /\ d.port < e.port)

IsTop(e) == e \in Heads /\ \A d \in Heads \ {e} : Before(e, d)

Ended == {p \in Sources : src[p] = "ended"}
-----------------------------------------------------------------------------
(* The consumer.                                                           *)

\* A consumer of a sync stream has one request at a time.
Request(r) ==
  /\ ~dropped /\ asked < MaxRequests
  /\ async \/ requests = <<>>
  /\ requests' = Append(requests, r)
  /\ asked' = asked + 1
  /\ UNCHANGED <<kindVars, sourceVars, rowVars, out, at, endVars, dropped, answer, heldVars>>

Drop ==
  /\ ~dropped /\ requests = <<>>
  /\ dropped' = TRUE
  /\ UNCHANGED <<kindVars, sourceVars, rowVars, out, at, endVars, requests, asked, answer, heldVars>>

Reply(a) == answer' = a /\ requests' = Tail(requests) /\ UNCHANGED <<asked, dropped>>

\* The object in WASM is deleted, if there is one.
Free ==
  /\ wasm' = IF wasm = "open" THEN "freed" ELSE wasm
  /\ deletes' = IF wasm = "open" THEN deletes + 1 ELSE deletes

\* The finalizer of a generator that was dropped while it waits for a request:
\* its finally block never runs, so held.close frees what it holds.
Collect ==
  /\ dropped /\ at \in {"start", "yield", "done"}
  /\ at' = "collected"
  /\ IF held THEN Free ELSE UNCHANGED <<wasm, deletes>>
  /\ held' = FALSE
  /\ UNCHANGED <<kindVars, sourceVars, rowVars, out, endVars, consumerVars>>
-----------------------------------------------------------------------------
(* How a stream ends.                                                      *)

\* Bug: a source whose next() failed is not closed.
ToClose_NotFailed(s) == {p \in Sources : s[p] \notin {"ended", "threw"}}

\* The sources that the finally block closes: those that did not end, also one
\* whose next() failed.  zipSources leaves out the one that failed.
ToClose(s) == {p \in Sources : s[p] # "ended" /\ (form = "feed" => s[p] # "threw")}

\* The finalizer's part is taken away, then the object in WASM is deleted.
Release == held' = FALSE /\ Free

\* The finally block: the object in WASM first, then the sources.  An
\* operator's stream closes its sources first (its loop ends the inner
\* generator), then its stepper.
Leave(why) ==
  /\ at' = "closing"
  /\ cause' = why
  /\ closing' = ToClose(src')
  /\ IF form = "feed" THEN UNCHANGED heldVars ELSE Release
  /\ rows' = <<>>
  /\ UNCHANGED <<kindVars, returns, given, heads, latest, due, round, out, closeErr, consumerVars>>

\* Bug: a sync stream stops closing its sources when one of them fails.
Turn_Stops(p) == closeErr = FALSE /\ \A q \in closing : async \/ p <= q

\* A sync stream closes its sources in order.
Turn(p) == async \/ \A q \in Sources : src[q] # "returning" /\ (q \in closing => p <= q)

\* return() is called on a source.
CloseSource(p) ==
  /\ at = "closing" /\ p \in closing /\ Turn(p)
  /\ closing' = closing \ {p}
  /\ src' = [src EXCEPT ![p] = "returning"]
  /\ returns' = [returns EXCEPT ![p] = returns[p] + 1]
  /\ UNCHANGED <<kindVars, given, rowVars, out, at, cause, closeErr, consumerVars, heldVars>>

\* A source's return() settles.
Returned(p, ok) ==
  /\ at = "closing" /\ src[p] = "returning"
  /\ ok \/ Faulty
  /\ src' = [src EXCEPT ![p] = "returned"]
  /\ closeErr' = (closeErr \/ ~ok)
  /\ UNCHANGED <<kindVars, returns, given, rowVars, out, at, cause, closing, consumerVars, heldVars>>

\* The first error is the one the consumer sees.
Outcome == IF cause \in Errors THEN cause ELSE IF closeErr THEN "close" ELSE "done"

\* The end of the finally block.
Left ==
  /\ at = "closing" /\ closing = {} /\ \A p \in Sources : src[p] # "returning"
  /\ at' = "done"
  /\ IF form = "feed" THEN Release ELSE UNCHANGED heldVars
  /\ Reply(Outcome)
  /\ UNCHANGED <<kindVars, sourceVars, rowVars, out, endVars>>

\* A generator that has ended answers at once.
AfterEnd ==
  /\ at = "done" /\ requests # <<>>
  /\ Reply(IF Head(requests) = "throw" THEN "consumer" ELSE "done")
  /\ UNCHANGED <<kindVars, sourceVars, rowVars, out, at, endVars, heldVars>>
-----------------------------------------------------------------------------
(* A request starts or resumes the generator.                              *)

\* The first next(): the sources' iterators are made, and the object in WASM;
\* a join makes that once it has an event of each source.
Begin ==
  /\ at = "start" /\ requests # <<>> /\ Head(requests) = "next"
  /\ src' = [p \in Sources |-> "open"]
  /\ round' = Sources
  /\ at' = "run"
  /\ IF form \in {"merge", "feed"}
     THEN wasm' = "open" /\ held' = TRUE /\ UNCHANGED deletes
     ELSE UNCHANGED heldVars
  /\ UNCHANGED <<kindVars, returns, given, heads, latest, due, rows, out, endVars, consumerVars>>

\* The object in WASM cannot be made: a merge closes its sources, an operator's
\* stream has not made their iterators yet.
BeginFails ==
  /\ at = "start" /\ requests # <<>> /\ Head(requests) = "next"
  /\ Faulty /\ form \in {"merge", "feed"}
  /\ src' = [p \in Sources |-> IF form = "feed" THEN "new" ELSE "open"]
  /\ closing' = IF form = "feed" THEN {} ELSE Sources
  /\ at' = "closing" /\ cause' = "opening"
  /\ UNCHANGED <<kindVars, returns, given, rowVars, out, closeErr, consumerVars, heldVars>>

\* return() or throw() before the first next() runs nothing of the generator.
BeginEnds ==
  /\ at = "start" /\ requests # <<>> /\ Head(requests) # "next"
  /\ at' = "done"
  /\ Reply(IF Head(requests) = "throw" THEN "consumer" ELSE "done")
  /\ UNCHANGED <<kindVars, sourceVars, rowVars, out, endVars, heldVars>>

Resume ==
  /\ at = "yield" /\ requests # <<>> /\ Head(requests) = "next"
  /\ at' = "run"
  /\ UNCHANGED <<kindVars, sourceVars, rowVars, out, endVars, consumerVars, heldVars>>

\* return() or throw() at a yield runs the finally block.
ResumeEnds ==
  /\ at = "yield" /\ requests # <<>> /\ Head(requests) # "next"
  /\ UNCHANGED src
  /\ Leave(IF Head(requests) = "throw" THEN "consumer" ELSE "return")
-----------------------------------------------------------------------------
(* Pulling the sources.                                                    *)

Running == at = "run" /\ rows = <<>>

\* next() of the lowest source of the round.
Pull(p) ==
  /\ Running /\ p \in round /\ \A q \in round : p <= q
  /\ src' = [src EXCEPT ![p] = "asked"]
  /\ round' = round \ {p}
  /\ at' = "await"
  /\ UNCHANGED <<kindVars, returns, given, heads, latest, due, rows, out, endVars, consumerVars, heldVars>>

Awaited(p) == at = "await" /\ src[p] = "asked"

\* A source answers with its next event.  Merge and join take its index, which
\* may not be below that of the source's last event.
Give(p, t) ==
  /\ Awaited(p) /\ Len(given[p]) < MaxEvents
  /\ form \in {"merge", "join"} /\ given[p] # <<>> => Last(given[p]) <= t
  /\ src' = [src EXCEPT ![p] = "open"]
  /\ given' = [given EXCEPT ![p] = Append(given[p], t)]
  /\ heads' = [heads EXCEPT ![p] = {EventOf(p, t)}]
  /\ at' = "run"
  /\ UNCHANGED <<kindVars, returns, latest, due, rows, round, out, endVars, consumerVars, heldVars>>

\* offer() refuses the event: its index is below the last one, or it is of the
\* wrong kind or width.
GiveWrong(p) ==
  /\ Awaited(p) /\ Faulty /\ wasm = "open" /\ form \in {"merge", "join"}
  /\ src' = [src EXCEPT ![p] = "open"]
  /\ Leave("event")

\* A source has no more events.  zipSources ends with the first one.
EndSource(p) ==
  /\ Awaited(p)
  /\ src' = [src EXCEPT ![p] = "ended"]
  /\ \/ form = "feed" /\ Leave("end")
     \/ /\ form # "feed"
        /\ at' = "run"
        /\ UNCHANGED <<kindVars, returns, given, rowVars, out, endVars, consumerVars, heldVars>>

\* A source's next() fails.
Throw(p) ==
  /\ Awaited(p) /\ Faulty
  /\ src' = [src EXCEPT ![p] = "threw"]
  /\ Leave("source")
-----------------------------------------------------------------------------
(* The rows.                                                               *)

\* The round is over: the stream computes its next row or ends.
Ready == Running /\ round = {}

\* The join's object in WASM is made of the first event of each source.
MakeJoiner ==
  /\ Ready /\ form \in {"join", "zip"} /\ wasm = "none" /\ Ended # Sources
  /\ wasm' = "open" /\ held' = TRUE
  /\ UNCHANGED <<kindVars, sourceVars, rowVars, out, at, endVars, consumerVars, deletes>>

\* The first events of a join do not go together, the events of a step are of a
\* wrong kind or width, or the operator refuses its event.
RowFails ==
  /\ Ready /\ Faulty /\ Heads # {}
  /\ form = "zip" \/ form = "feed" \/ (form = "join" /\ wasm = "none")
  /\ UNCHANGED src
  /\ Leave("row")

\* A source owes its next event once its last one is out.
Owed(e) == {e.port}

MergeRow ==
  /\ Ready /\ form = "merge"
  /\ \E e \in Heads :
       /\ IsTop(e)
       /\ rows' = <<e>>
       /\ heads' = [heads EXCEPT ![e.port] = {}]
       /\ round' = Owed(e)
  /\ UNCHANGED <<kindVars, sourceVars, latest, due, out, at, endVars, consumerVars, heldVars>>

\* Bug: every event settles the row before it.
Settled_First(e) == due

\* The held row is settled once an event comes at another index; the last event
\* at one index wins.
Settled(e) == {r \in due : r.index # e.index}

\* One step of the join: the first event becomes the latest of its source; the
\* row of its index is held back, and that of the index before goes out.
JoinRow ==
  /\ Ready /\ form = "join" /\ wasm = "open"
  /\ \E e \in Heads :
       /\ IsTop(e)
       /\ heads' = [heads EXCEPT ![e.port] = {}]
       /\ latest' = [latest EXCEPT ![e.port] = {e}]
       /\ round' = Owed(e)
       /\ IF WhenAll /\ \E p \in Sources : latest'[p] = {}
          THEN UNCHANGED <<rows, due>>
          ELSE /\ rows' = SetToSeq(Settled(e))
               /\ due' = {[index |-> e.index, latest |-> latest']}
  /\ UNCHANGED <<kindVars, sourceVars, out, at, endVars, consumerVars, heldVars>>

\* Every source has ended: the held row goes out.
JoinLast ==
  /\ Ready /\ form = "join" /\ Heads = {} /\ due # {}
  /\ rows' = SetToSeq(due)
  /\ due' = {}
  /\ UNCHANGED <<kindVars, sourceVars, heads, latest, round, out, at, endVars, consumerVars, heldVars>>

\* Bug: a positional join goes on with the sources that are left.
InStep_Any == Heads # {}

\* Every source has an event.
InStep == \A p \in Sources : heads[p] # {}

\* The events of one round make one row.
ZipRow ==
  /\ Ready /\ form \in {"zip", "feed"} /\ wasm = "open" /\ InStep
  /\ rows' = <<heads>>
  /\ heads' = [p \in Sources |-> {}]
  /\ round' = Sources \ Ended
  /\ UNCHANGED <<kindVars, sourceVars, latest, due, out, at, endVars, consumerVars, heldVars>>

\* Positional sources must end together.
ZipOutOfStep ==
  /\ Ready /\ form = "zip" /\ wasm = "open" /\ Heads # {} /\ ~InStep
  /\ UNCHANGED src
  /\ Leave("out of step")

\* Every source has ended and every row is out.
NoMore ==
  /\ Ready /\ Ended = Sources /\ Heads = {} /\ due = {}
  /\ UNCHANGED src
  /\ Leave("end")

Yield ==
  /\ at = "run" /\ rows # <<>>
  /\ out' = Append(out, Head(rows))
  /\ rows' = Tail(rows)
  /\ at' = "yield"
  /\ Reply("row")
  /\ UNCHANGED <<kindVars, sourceVars, heads, latest, due, round, endVars, heldVars>>
-----------------------------------------------------------------------------
Init ==
  /\ form \in Forms /\ async \in BOOLEAN
  /\ src = [p \in Sources |-> "new"]
  /\ returns = [p \in Sources |-> 0]
  /\ given = [p \in Sources |-> <<>>]
  /\ heads = [p \in Sources |-> {}]
  /\ latest = [p \in Sources |-> {}]
  /\ due = {} /\ rows = <<>> /\ out = <<>> /\ round = {}
  /\ at = "start"
  /\ requests = <<>> /\ asked = 0 /\ dropped = FALSE /\ answer = "none"
  /\ cause = "none" /\ closing = {} /\ closeErr = FALSE
  /\ wasm = "none" /\ deletes = 0 /\ held = FALSE

Consumer == Drop \/ Collect \/ \E r \in {"next", "return", "throw"} : Request(r)

\* What the generator does by itself.
Generator ==
  \/ Begin \/ BeginFails \/ BeginEnds \/ Resume \/ ResumeEnds \/ AfterEnd
  \/ \E p \in Sources : Pull(p) \/ CloseSource(p)
  \/ MakeJoiner \/ RowFails \/ MergeRow \/ JoinRow \/ JoinLast \/ ZipRow \/ ZipOutOfStep
  \/ NoMore \/ Yield \/ Left

\* What the sources do.
Answer(p) ==
  \/ \E t \in Indexes : Give(p, t)
  \/ GiveWrong(p) \/ EndSource(p) \/ Throw(p)
  \/ \E ok \in BOOLEAN : Returned(p, ok)

Next == Consumer \/ Generator \/ \E p \in Sources : Answer(p)

\* The generator runs as long as it can, and a source answers in the end.
Spec == Init /\ [][Next]_vars /\ WF_vars(Generator) /\ WF_vars(\E p \in Sources : Answer(p))
-----------------------------------------------------------------------------
(* What the streams promise.                                               *)

Given == UNION {{[index |-> given[p][i], port |-> p, nth |-> i - 1] : i \in 1 .. Len(given[p])} : p \in Sources}

Floor == [p \in Sources |-> IF p \in Ended THEN kMax ELSE IF given[p] = <<>> THEN kMin ELSE Last(given[p])]

\* The merge of iterators delivers what a node with several producers does; a
\* source sends nothing below its last event.
Merged == INSTANCE MergedStream WITH
            taken <- IF form = "merge" THEN Given ELSE {},
            out <- IF form = "merge" THEN out ELSE <<>>,
            floor <- IF form = "merge" THEN Floor ELSE [p \in Sources |-> kMin],
            ended <- IF form = "merge" THEN Ended ELSE {}

MergeImplements == Merged!MergedSpec

WithVal(e) == [index |-> e.index, port |-> e.port, nth |-> e.nth, val |-> 0]
RowWithVal(r) == [index |-> r.index, latest |-> [p \in Sources |-> {WithVal(e) : e \in r.latest[p]}]]

\* The join of indexed iterators delivers the rows of the as-of join, the ones
\* that CombineLatestNode emits.
Aligned == INSTANCE AlignedRows WITH
             Vals <- {0}, Gated <- FALSE, Passing <- {},
             taken <- IF form = "join" THEN {WithVal(e) : e \in Given} ELSE {},
             out <- IF form = "join" THEN [i \in 1 .. Len(out) |-> RowWithVal(out[i])] ELSE <<>>,
             floor <- IF form = "join" THEN Floor ELSE [p \in Sources |-> kMin],
             ended <- IF form = "join" THEN Ended ELSE {}

JoinImplements == Aligned!AlignedSpec

\* The k-th row of positional sources holds the k-th event of each, and no source
\* is read further than one event ahead of the rows.
RowsPaired ==
  form \in {"zip", "feed"} =>
    /\ \A k \in 1 .. Len(out) : \A p \in Sources : {e.nth : e \in out[k][p]} = {k - 1}
    /\ \A p \in Sources : Len(given[p]) <= Len(out) + 1

\* A stream that has ended, or was collected, has freed its object in WASM, once;
\* one that has ended after it was started has called return() once on every
\* source that did not end, and never on one that did.
LeavesNothing ==
  /\ deletes <= 1 /\ (held => wasm = "open")
  /\ at \in {"done", "collected"} => wasm # "open"
  /\ \A p \in Sources :
       /\ src[p] = "ended" => returns[p] = 0
       /\ at = "done" /\ src[p] # "new" =>
            src[p] = "ended" \/ (form = "feed" /\ src[p] = "threw") \/ returns[p] = 1

\* Every request is answered, also those queued behind one that ends the stream.
Answered == <>[](requests = <<>>)
=============================================================================
