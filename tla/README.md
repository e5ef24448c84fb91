# screamer: a TLA+ verification

screamer computes indicators over streams of indexed events. Two parts of it are verified here.

**The C++ engine** (`src/include/screamer/dag/`) runs a graph of nodes over several inputs, in two
ways: a **batch run** merges recorded inputs by index and pushes them through the graph, and a
**live session** takes events as they come, in any order across inputs, with `advance(now)` for
the passing of time and `flush()` for the end. Both must give the same rows: nothing a node emits
may depend on which input happened to be pushed first.

**The JavaScript package** (`src/js/src/`) runs the same engine in WebAssembly. It adds what C++
has not got: generators that pull iterators, sync and async, and must close them; objects in WASM
that no garbage collector frees; a heap that moves under the views of it; calls of user code in
the middle of a call, which may call anything; files that are written and read again.

The numerical operators are sequential functions with reference tests; the order, the ownership,
the buffers and the error paths are what tests hardly reach, and what these modules are about.

## 1. Inventory

| Component | State | Operations | Interacts with | What makes it correct |
|---|---|---|---|---|
| `OrderedMergeNode` (`dag/ordered_merge_node.h`, `reorder_heap.h`) | a front per port, a heap of waiting events with their values, widths, flushed ports, the merge's front, the last watermark | port `push`, `on_watermark`, `flush`; `reset`, `set_merge_order`, `state` | its producers call the ports, it calls the node below synchronously; overflow and width errors unwind through both | one stream in the order (index, port, arrival); no event lost; watermarks kept; everything out at the end |
| `CombineLatestNode` (`dag/combine_latest_node.h`, `streams/combine_latest.h`) | a watermark per port, the heap, latest events, the row due, learned columns | the same | the same | the rows of the as-of join, each as soon as its index is final, once |
| `FilterNode` (`dag/filter_node.h`) | the same with a data and a mask port | the same | the same | a row passes by the mask in force at its index; watermarks do not stop at dropped rows |
| `OutputJoin`, `GatherSink` (`dag/output_join.h`, `compiled_graph.h`) | output buffers, their watermarks; queues, bounds and latest rows kept between drains | `push`, `on_watermark`, `drain_aligned`, `take`, `reset` | nodes push rows into the buffers, the caller drains at any time | the rows of all drains are those of one alignment |
| `ResampleNode` (`dag/resample_node.h`, `resample_params.h`) | clock mode: ticks, waiting values, the open bar, frontiers; index mode: the open bucket; count and threshold modes: a counter | values, ticks, watermarks, `flush`, `reset`, `state` | below any node; raises `FillLimitError` into its callers | each bar once, complete, never below a watermark; no bucket skipped by fill |
| `CompiledGraph`, the session (`dag/compiled_graph.h`) | floor, last index and width per input, `poisoned_`, `flushed_`, output buffers | `push_event`, `advance`, `flush`, `drain`, `reset`, save and load, `run_batch` | calls the input sinks one after the other; catches what they raise | a rejected call leaves a state that is valid, or a session that says it is not |
| `GenericResampleNode` | as the index and count modes, with a functor as reducer | as Resample | as Resample | the same bars as Resample |
| `ForwardAsOfNode` | waiting rows, y events not used yet, the last y, the frontiers of X and y | `push`, `on_watermark`, `flush` of an X and a y port; `reset`, `set_merge_order`, `state` | as a join, over a delayed y | each row with the last y its index allows, once no other can come; NaN if y ended before |
| `LeadRowsNode` | a ring of the rows owed, the events without partner, a bound per port | the same | as a join, over two inputs of one clock | the target n rows later; an error for an index of one input, and only for that; watermarks that stay below the rows owed |
| `LagRowsNode`, `DelayNode`, `forecast_pairs.h` | the last n rows; none | push, watermark, flush | one producer | the row n earlier, the index moved |
| Functor, Select, Dropna nodes, wiring (`graph.h`) | the operator's state | push, flush | pass each event on at once | same order out as in |
| C++ lazy drivers (`streams/`, `dag/driver.h`, `combine_stream.h`) | a cursor per source | pull | feed a graph smallest head first | the batch order |
| Save and load (`serial/`, `session_file.h`, `node_state.h`) | the undo log of a load | write, validate, read, undo | walks every node | a failed load changes nothing |
| Operators, window structures, backtest engines, validation | windows, orders, accounts | one value in, one out | inside functor nodes | their definitions |
| JS lazy streams (`merge.ts`, `combine.ts`, `zipSources` in `runtime.ts`) | heads, latest events, the row held back, a merge order in WASM | `next`, `return`, `throw` | pull and close the user's iterators | the rows of the merge and the join of the graph; every source closed once, every request answered |
| JS operators (`runtime.ts`) | the WASM object, scratch buffers, a pool of copies, open streams | live call, batch, `resume`, streams, `reset`, `dispose`, finalizers | run the user's iterators between their steps | each stream a run of its own; every object freed once, none used after |
| JS Pipelines (`pipeline.ts`, `combinators.ts`, `supervised.ts`) | an engine for batch calls, one per session and lazy run, copies of operators | call, `live`, `push`, lazy runs, `dispose`, finalizers | user code runs in conversions and sources | runs apart; an engine released once, not while held, never used after |
| JS calls into C++ (`errors.ts`, `loader.ts`, `split.ts`, `validation.ts`, `backtest.ts`) | heap blocks, views, the WASM stack, callbacks | alloc, view, call, free; callbacks of strategies and metrics | C++ drivers call JavaScript, which calls C++ | no stale view, no leak, the stack kept, also after errors |
| JS save files (`writeSaveFile` in `errors.ts`) | a temporary file, its handle, the target | the steps of a save, one await each | other saves of the process, crashes | a name holds a whole dump; modes and links kept; no litter |
| JS factories, settings (`generated/ops.ts`, `pipeline_io.ts`, `serial.ts`) | the settings given and the ones used | construct, copy, describe, rebuild, load | a user who changes an array | every copy has the settings that were asked for |
| JS session files (`pipeline_io.ts`, `serial.ts`, with `session_file.h`, `archive.h`) | a description, the state by node and field | `dumps`, `loads` | a user who edits the file | a state loads into its own graph only, whole or not at all |
| Python package and the bindings | none of their own | conversion | own a `CompiledGraph` | what the engine promises |

Hard behaviours: the inputs of a live session lag each other; rows wait in bounded buffers; a
batch run proves more from its order than a live session can; outputs are drained between any
two rows; a node below may raise in the middle of a handler above it, and the session goes on
after some of those errors; a session is saved between any two calls and loaded elsewhere; the
last index of the range doubles as "this port has ended". There are no threads: one
session is called by one thread, so interleaving means the order of calls, and the calls within
one. In JavaScript it also means the awaits of async streams and saves, user code that calls back
into the package, C++ that calls back into JavaScript, and finalizers.

`PROJECT.json` has every component with its status (`components`) and every hazard with its
line (`hazards`).

## 2. The modules

| Module | Models | Remarks |
|---|---|---|
| `MergedStream` | what a node with several producers promises | abstract specification: offer, promise, end, deliver the first *final* event |
| `OrderedMerge` | `OrderedMergeNode` | implements `MergedStream` (`MergedSpec`) |
| `AlignedRows` | what an as-of join promises | abstract specification: a row is a function of the events alone |
| `AsOfMerge` | the reorder buffer that `CombineLatestNode` and `FilterNode` share line by line | operators over its variables, no specification of its own |
| `CombineLatest` | `CombineLatestNode` | extends `AsOfMerge`; implements `AlignedRows` |
| `CombineLatestProofs` | – | its properties and that it implements `AlignedRows`, proved |
| `Filter` | `FilterNode` | extends `AsOfMerge`; implements `AlignedRows` with a gate |
| `OutputJoin` | `GatherSink`, the drains and `OutputJoin` | implements `AlignedRows`: the outputs are its inputs |
| `ResampleClock` | `ResampleNode` by clock | states its bars as a function of the events sent |
| `ResampleClockProofs` | – | that its bars are those, in time and all, proved |
| `PairPorts` | the two ports of `ForwardAsOfNode` and `LeadRowsNode`, live and under a merge | operators over their variables, no specification of its own |
| `ForwardAsOf` | `ForwardAsOfNode` | extends `PairPorts`; states each target as a function of the events |
| `LeadRows` | `LeadRowsNode` | extends `PairPorts`; states each target, and when the clocks differ |
| `MCNodes` | `CombineLatest`, `Filter`, `OutputJoin`, `ResampleClock`, `ForwardAsOf`, `LeadRows` for TLC | a behaviour is one node's; the joins implement one `AlignedRows` |
| `MCNodesProofs` | – | the safety properties of all six, proved: the filter, the join of the outputs, the forward join and the lead here, the joins and resamples by the lemmas of `CombineLatestProofs` and `ResampleClockProofs` |
| `LiveSession` | `CompiledGraph` over a merge and a fill Resample by index | composes `OrderedMerge` with a Resample and the session's calls |
| `LiveSessionProofs` | – | the properties of `OrderedMerge`, that it implements `MergedStream`, and the three of the session, proved |
| `PullStreams` | the generators of `merge.ts`, `combine.ts` and `zipSources`, with their consumer and sources | implements `MergedStream` and `AlignedRows`, as the engine's nodes do |
| `PullStreamsProofs` | – | its safety properties and both refinements, proved |
| `OpStreams` | one operator and its streams (`runtime.ts`) | the pool of copies, `dispose`, finalizers |
| `Sessions` | a Pipeline, its sessions and lazy runs (`pipeline.ts`) | engines, who releases them, calls within calls |
| `MCRuntime` | `OpStreams` or `Sessions`, for TLC | |
| `RuntimeProofs` | – | the safety properties of both, proved |
| `HeapCalls` | every function that uses the WASM heap, as a script of its steps | allocations, views, errors at each step, callbacks, the stack; the discipline of the scripts is an assumption that TLC evaluates |
| `HeapCallsProofs` | – | that calls which keep the discipline are safe, or leak just what an allocation before their `try` loses, proved for any nesting |
| `SaveFile` | `writeSaveFile`, with crashes | |
| `SettingKinds`, `WindowFactories`, `Factories` | the 276 factories of `generated/ops.ts` with their settings | constant definitions |
| `OperatorSettings` | what an operator keeps of its settings, and is rebuilt from | |
| `SessionFiles` | checks and description of a Pipeline, a session's file, the passes of a load | a graph is walked by recursive functions |
| `MCSaving` | `SaveFile`, `OperatorSettings` or `SessionFiles`, for TLC | |
| `MCSavingProofs` | – | the properties of all three, proved |

**A handler is several steps.** A call of a node runs to its end before the next one, but it
calls the node below for every event it releases, and that node may raise. So each module has a
variable `call` (the handler that runs): the action named after the entry point (`PushWaiting`,
`OnWatermark`, `FlushPort`, ...) does what the handler does before its loop, `ReleaseTop`,
`ApplyTop` or `EmitTick` is one round of the loop, and `EndPush`, `EndWatermark`, `EndFlush` the
rest of it. While `call` is not "idle" no producer may call. `LiveSession` uses this: an
exception can leave between any two of the steps.

**Events.** An event is its index, its port and its position among the port's events (`nth`),
which stands for its values, so that losing, doubling or swapping values shows; a number of
columns or a value from a small set where the code looks at one (`width`, `val`). The heap is
the set of its entries with the order of `PendGreater`; the value slots are left out, an entry
keeps its `nth`. Indexes are an interval `kMin .. kMax` for the int64 range, whose ends are
special in the code: `kMin` is "not known yet" and `kMax` the front of an ended port.

**Producers** are the guards `MayPromise` and `MaySend`: an index never decreases and is never
below the producer's own watermark (`check_order`; the watermark contract of `frame.h`), while a
watermark may repeat or fall. With `merge_order` a ghost `clock` is the index the merge of a
batch run has reached, and the bits of `merge_relation` restrict what a port sends: one *in
order* sends nothing below the clock, one *never ahead* nothing above it.

**In JavaScript** a step is what runs between two points where other code may run: an `await`, a
`yield`, a call of the user's `next()`, conversion, strategy or metric. `PullStreams` keeps the
queue of requests that an async generator has by the language, and answers of sources that come
in any order. `OpStreams` keeps, for each operator copy, the sequence of the events
it took in; what a stream's rows depend on shows there. In `Sessions` each run has an engine of its
own, and the copies of the operators that `compile` makes for it (`ownCopy`) are part of that engine:
`compile` is one synchronous step, and nothing else in the package has a copy. `Sessions` and `HeapCalls` have the stack of
the calls in progress, so that user code within a call may make any other. The garbage collector
is external: a finalizer may run from when nothing reaches its object, which the code's references
decide (`Reachable`, `PipeReachable`, `RunReachable`).

`HeapCalls` writes each function as a sequence of steps with the heap, in the order of the code; a
`try` marks from where a `finally` frees. An allocation or a call always moves the heap, so that a
view made before it and used after it is caught whatever the sizes. A step reads or fills a block
either in one expression (`Touch`) or through a view that is kept (`View`, `Use`); arrays of the user
that are read in between are taken to run no code of the user (no getters, no proxies).

In `SaveFile` a rename is atomic, a crash may undo renames since the last crash (the directory is
not synced; one that replaced a link is not undone) and cut content that was not synced. Each step may
fail; a `readlink` or `stat` that fails is taken, as in the code, for a path that is no link or a file
that does not exist. In `SessionFiles` a node's state is the number of
events that came to it; an edit of the file gives it the description of another graph, renumbers
its nodes, or breaks a field of the state.

**Names** of variables are the code's (`pending`, `wm`, `last_forwarded`, `gfront`, ...). An
operator whose name ends in `_Something` and whose comment starts with "Bug:" is a mutated form
of the operator after it, used in place of it to see that a property can fail; it is no part of
a specification.

## 3. The runs

Each takes between a second and a minute and a half. Deadlock is checked in the runs of the engine
(`reset()` is always possible between two calls); the other runs have behaviours that end: all
requests are made, everything is collected, all saves are over.

| Run | Instance | Shows |
|---|---|---|
| `om_live` | 2 ports, 2 events each on 3 of 4 indexes, 2 widths, 2 may wait; live and batch mode, port 0 in order with the merge, both never ahead | order, nothing lost, watermarks kept, nothing waits in vain and an overflow only when stalled (`NothingWaitsInVain`), every state loads, refines `MergedStream`, the end delivers (liveness) |
| `nodes` | CombineLatest "any" and "when_all", Filter, OutputJoin with 2 inputs of 2 events; clock Resample with 3 values and 3 ticks, with `max_age` 1 and fill skip, or every bar; a forward join and a lead of 1 row with 3 events a port; live and batch | `RowsAlign`: the joins refine `AlignedRows`, a forward join and a lead give each X event the target that all events give it, a lead raises only for inputs off one clock, and no row or bar goes below a watermark; rows and bars are prompt (`RowsPrompt`), complete at the end (`EndEmitsAll`), right (`BarsRight`); drains settle what they can (`SettledPrompt`); one layout; states load; the end flushes once (`EndFlushes`, liveness) |
| `ls_live` | 2 inputs, events at 0, 1, 5, bars of width 1, `max_fill` 1 | contiguous bars, what an advance closes, the rows of a flushed session |
| `streams` | all 4 forms, sync and async, 2 sources of 2 events, 5 requests, errors anywhere | the merge and the join refine `MergedStream` and `AlignedRows` (`MergeImplements`, `JoinImplements`); rows of positional sources are in step (`RowsPaired`); sources closed and WASM freed once, in every ending (`LeavesNothing`); every request answered (`Answered`, liveness) |
| `runtime` | an operator of each wrapper with 2 streams of 2 columns; or a Pipeline made in each of 4 ways with 2 runs of 2 events, 2 calls deep | streams apart (`StreamsAlone`), copies and engines freed once (`CopiesFreedOnce`, `ReleasedOnce`), nothing used after (`NoUseAfterRelease`), what is held stays open (`HeldStaysOpen`), what is let go is freed (`Collected`, liveness) |
| `heap_calls` | 23 functions, 5 of them also within user code, 4 frames deep; allocations fail in all that allocate but `reducerEvent` and `rowEvent`, until a block is lost | views fresh (`UsesFresh`); a block is lost only by an allocation that fails before the `try` of its call (`NothingLeaks`); the stack kept (`StackKept`) |
| `saving` | 2 saves, 2 names, links up to 2 deep, 1 crash, all 10 steps may fail; all 276 operators with one optional setting given, one change of an array, one rebuild; 12 graphs with a session of at most 1 event, edited files | save files whole, no litter; links and modes kept unless a `readlink` or `stat` missed them (`LinksAndModesKept`); settings kept; a loaded session continues; a failed load changes nothing |
| `om_last_index` | 2 ports, events also at the highest index | finding 1 |
| `ls_rejected_advance`, `ls_failed_flush` | as `ls_live` | findings 2 and 3 |
| `hc_out_of_memory` | a reducer's event whose buffer cannot grow | finding 4 |
| `changed_array` | `MovingAverage` with an array | finding 5 |

**Why these bounds.** A node's decisions compare an index with the front of another port: below,
equal or above, with the other port lower or higher. Two ports with two events at three indexes
already give every such comparison with an event before and one after it. A buffer limit of 1 or 2
with four events overflows. The index 5 after 1 with `MaxFill` 1 is a gap that is refused, 0 to 1
one that is not. Two sources are enough for one that ended, failed or waits beside one that did
not; five requests are two rows, the end, and two requests behind it. Two streams share a pool of
copies, two columns make a stream take copies beside its first; two runs and two calls are what it
takes to dispose one from within the other. Four frames are a driver, its callback, a call of user
code in it, and a second driver's callback. Two saves of one name overlap; one crash between any
two steps leaves what a second one finds. No two operators' settings meet, so one operator at a
time is enough; one optional setting at a time, because the settings are checked apart.

`MaxEvents`, `MaxRows`, `MaxPending`, `MaxRequests`, `MaxLive`, `MaxRuns`, `MaxDepth`,
`MaxFrames`, `MaxLost`, `MaxCrashes`, `MaxGiven`, `MaxChanges`, `MaxOps`, `MaxCopies` and `MaxTaken` are the
only bounds on counters (`MaxLost` 0: once a block is lost no further allocation fails, which would
only lose another); `next_seq`, `rows` and `out` are bounded by them (a save renumbers).
`MaxHops` stands for the code's 40. No symmetry is used: the tie rules tell ports and sources
apart.

**Fairness.** `OrderedMerge`, and the joins and pairs in `MCNodes`, assume that a handler that was called runs
to its end (`WF`), because it is a loop over a finite heap in one synchronous call; nothing is
assumed of producers. `PullStreams` assumes that a generator runs on as long as it can and that a
source that was asked answers in the end: without it `Answered` is not the package's to promise.
`MCRuntime` assumes that finalizers of unreachable objects run in the end, which the language does
not promise but engines do while the program lives; `Collected` says that the code's references
let them. The other runs check safety only.

## 4. What the proofs show

The first part of `LiveSessionProofs` is about `OrderedMerge` alone. It proves, for every number of ports, every range of indexes, every relation of the ports to the merge, and both modes:

| Theorem | Statement | What it says |
|---|---|---|
| `TypeCorrect` | `Spec => []TypeOK` | the types |
| `OrderKept` | `Spec => []OutputOrdered` | the events go on in the order of index, port and arrival |
| `WatermarkPromise` | `Spec => WatermarkKept` | no event goes on below a watermark sent down |
| `Lossless` | `Spec => []NothingLost` | the events accepted and not passed on are the ones the node holds |
| `BufferMerges` | `Spec => MergedSpec` | every step is one of the merged stream, or stutters: an event goes on only when it is the first waiting one and final |
| `StateLoads` | `Spec => []SavedStateLoads` | every state passes the checks of its own load |
| `WaitsForCause` | `kMax \notin Indexes` gives `Spec => []NothingWaitsInVain` | an event waits only because another port's front has not passed it |
| `FlushComesLast` | `kMax \notin Indexes` gives `Spec => []FlushReleasesAll` | the flush goes down when nothing waits |

The assumptions are those of the modules (`NAssumption`, `IndexAssumption`, `OMAssumption`): at
least one port, an interval of indexes, and that the indexes and widths used are in range. None
restricts the order of calls. The proofs cover `Spec` with its producers' guards.

`OutputOrdered` is not inductive: that the next event comes after all those before it depends on
what may still be in the heap. The invariant is `IInv`, with the parts

* `TypeInv`: the types, and that the sets counted are finite;
* `Known`: a front is a promise, `front[q]` and (for a port in order with the merge) `gfront`
  are at or below what the producer will send;
* `Numbered`: the sequence numbers and `nth` of one port's waiting events agree, so that the
  heap's order is the stream's;
* `Low`: the last watermark is at or below what any producer may still send and every event that
  waits;
* `Ordered`: every event passed on comes before every one that waits and every one that a
  producer may still send, and those passed on are in order.

`Known` gives that a *ready* event is preceded by nothing still to come (`ReadyPassed`), the heap
that it is preceded by nothing waiting (`HeapOrder`), and so `Ordered` holds again after it goes
on (`PassOnInv`). A save and load renumbers, and keeps the order (`SaveAndLoadInv`).

`NothingLost` is inductive with `IInv` (`LInv`): that one event leaves the held ones when one goes
out needs that two entries never stand for one event, which `Numbered` gives. With it a delivery
of the code is one of `MergedStream`: the waiting events are the held ones, the heap's first is
the first of them, and `Known` turns *ready* into *final* (`PassOnIsDeliver`). `SavedStateLoads` is
inductive with the types (`SInv`). `NothingWaitsInVain` needs `PInv`: the fronts the
node knows are all its producers have said (`LiveFronts`, `EndedFronts`), and between two calls the
event on top of the heap is not ready (`Settled`). An event at the highest index is never ready once its port is not the first (finding 1): that is where
the hypothesis `kMax \notin Indexes` of `WaitsForCause` and `FlushComesLast` comes from, and
`om_last_index` shows that it cannot be left out.

`CombineLatestProofs` proves, for every number of inputs, range of indexes and number of columns, and
both values of `emit`:

| Theorem | Statement | What it says |
|---|---|---|
| `TypeCorrect` | `Spec => []TypeOK` | the types |
| `Refinement` | `Spec => AlignedSpec` | every step is one of `AlignedRows`, or stutters: a row holds the last event of each input at or before its index, and comes when no event at its index can |
| `RowsLeaveInTime` | `Spec => []RowsPrompt` | a row below every watermark is out |
| `LastRowGoesOut` | `Spec => []FlushEmitsAll` | the last input's end leaves no row |
| `OneLayout` | `Spec => []RowsOneLayout` | all rows have one layout |
| `SavedLoads` | `Spec => []SavedStateLoads` | every state loads |
| `PromiseKept` | `Spec => [][RowsAbove]_vars` | no row below a watermark sent down |

All seven assume `ColumnAssumption`: the join is no Filter, and columns are counted by natural
numbers. What a row holds is stated by `AlignedRows` over all events, while the
node has only the latest of each input; so the invariant `IInv` is about the events *applied* (taken
and not waiting): `Joined` says that `latest` is the last applied event of each input, `RowsOut` that
each index with an applied event has its row out, or due if it is the last, `Known` and `Numbered`
that an event that waits comes after the applied ones, `Columns` that an input learned its columns
before the first row, `Between` that between two calls all up to the lowest watermark is applied,
and `Ends` counts the inputs that ended. An event moves from waiting to applied in one step
(`ApplyTopInv`) and may make the row due go out: the only step where all the parts meet.

The reorder buffer is shared with the filter (`AsOfMerge`). What the proofs say of it alone is a part
of its own, `BInv` (`BufferTypes`, `Known`, `Numbered`), with a lemma for each operator
of `AsOfMerge`; `MCNodesProofs` uses it for the filter.

`ResampleClockProofs` proves, for every range of indexes and number of events, with and without
`max_age`, with fill "skip" or a bar for every tick, and for every relation of the two ports to the
merge, lemmas about `ResampleClock` (`InvBars`, `InvEnd`, `InvWaits`, `StepPromised`); the theorems
of `MCNodesProofs` about its two resamples follow from them. `BarsRight` compares the bars with a function of *all* the
ticks and values that were ever sent, so the invariant has to say what becomes of each of them.
`TicksKept`: the pending ticks are those above the last one that made its bar; `ValuesKept`: a value
above that tick is in the current bar, waits, or is in hand, and the current bar has no value above
a pending tick; `Fronts`: each front is a promise of its port, and the merge's front one of every
port that is in order with it; `BarsOut`: the bars up to the last tick are out and are right; `Live`:
in a live session nothing waits that could go on. A tick makes its bar only when `Fronts` says that
no value can still come at or below it: that is why no bar changes later, although in a live session
the values may lag behind the ticks and the other way round.

`MCNodesProofs` proves, for every number of inputs, range of indexes and number of events, of the
six nodes in `MCNodes`:

| Theorem | Statement | What it says |
|---|---|---|
| `NodesAlign` | `Spec => RowsAlign` | the two joins, the filter and the join of the outputs implement `AlignedRows`; a forward join and a lead give each X event the target all events give it; no row or bar goes below a watermark sent down |
| `NodesEmitAll` | `Spec => []EndEmitsAll` | once its inputs have ended a node has every row and bar out |
| `NodesInTime` | `DelayedY`, `kMin \notin TickIndexes` give `Spec => []RowsPrompt` | what no event can change any more is out |
| `SavedNodesLoad` | `Spec => []SavedStateLoads` | a load refuses no state between two calls |
| `DrainsSettle` | `Spec => SettledPrompt` | a drain settles each index that all outputs have passed |
| `JoinsOneLayout` | `Spec => []RowsOneLayout` | all rows of a join have one layout |
| `BarsFromEvents` | `Spec => []BarsRight` | the bars of a resample are those of its ticks and values, and stay so |

They are put together from one theorem per node: `JoinsAlign`, `JoinsInTime`, `BarsAllOut`,
`FilterRowsRight`, `DrainsAlign`, `ForwardRowsRight`, `LeadTargetsRight` and `PairsWaitForCause`. A
behaviour is one node's, and the variables of the others rest. The joins and resamples are instances
of modules with proofs: `AnySteps`, `AllSteps`, `BarsSteps` and `EverySteps` show that they take the
steps those proofs are about, and `AnyMeans`, ... that they mean the same by their properties. The
other four have an invariant here.

* `ForwardInv`: the rows that wait are the X events after those that are out (`ForwardRows`), the y
  events that wait are the newest, and those dropped are at or below every row to come, so that the
  newest of them is all that has to be kept (`ForwardPassed`, `base`). `IsOut` is stronger than
  `RowsRight`: when a row leaves, y has ended, or an event at or above the row has come and no further one can come at
  or below its index. Without that, a y event that comes late could change the target
  of a row that is out, and `RowsRight` would not be inductive.
* `LeadInv`: the pairs made are in the rows and in the ring, in this order (`LeadRing`, `Made`), the queue has the
  events after them (`LeadQueue`), and a row without target comes only while the ring is drained
  (`LeadOut`). `LeadMatched` says that between two calls nothing is left to pair, and that an
  error was raised for two inputs that differ at the next pair. `LeadAhead` bounds the watermark:
  what was sent down is below the kept rows and below the events of *one* of the ports; the rows to
  come need an event of both.
* `FilterInv`: beside `BInv`, the row due is the row of the events applied (`FilterDue`), no event
  can come at the index of an earlier one (`FilterPast`), an earlier row is out if and only if the
  mask in force at its index keeps it (`FilterRows`), and between two calls all up to the lowest
  watermark is applied and that watermark was sent down (`FilterBetween`), though no row may have
  been.
* `GatherInv`: what a drain says of an output is how far it has come (`GatherBounds`), the rows
  settled are below those that wait and those to come (`GatherSettled`), and the rows out are those
  of the settled ones (`GatherRows`). The join of the outputs gets its inputs in pieces, one drain at
  a time; `GatherSettled` is what makes the alignment of the pieces that of the whole.

The assumptions are those of the modules. `NodesInTime` has two more. `DelayedY` says that the y of
the forward join is delayed, as in the run: then no y event is kept in a batch run, as
`WaitsForCause` says, while a y that is an input itself may run ahead of X. `kMin \notin TickIndexes`: the floor of a port that was not called yet is
`kMin`, so a value *at* `kMin` waits for a first tick there, rightly, while `WaitsForCause` reads the
floor as a promise. The instance of `nodes` satisfies both.

`LiveSessionProofs` proves, for every number of inputs, range of indexes, bar width and fill limit,
over a merge whose lemmas are those above:

| Theorem | Statement | What it says |
|---|---|---|
| `NoGap` | `kMax \notin Indexes` gives `SessionSpec => []RowsContiguous` | the bars leave none out and repeat none, until a flush was rejected |
| `AdvanceIsKept` | `SessionSpec => []AdvanceCloses` | after an advance the events before its time are in bars that are out |
| `FlushIsBatch` | `kMax \notin Indexes` gives `SessionSpec => []FlushedRows` | a flushed session that rejected nothing has the bars of a batch run |

A call of the session may be rejected between any two steps of the merge, and what holds after
that is less than what holds before. The invariant has three parts: `Base` holds always (the types,
what the merge holds, and that a front is at most what the session checked: `Fronts`); `Going` until
a flush was rejected (`Level`: no event that still comes is before the open bar; `Chain`: the bars up
to the open one are out); `Clean` until anything was (the merge's own invariants, what the inputs
promised, and `Barred`: each event passed on is in a bar, and each bar is there for an event or an
advance). `Fronts` is the part that makes `Level` inductive: the session's floor bounds the fronts
also of the inputs that a rejected advance never reached. With an event at the highest index the end
of the inputs closes nothing above it, and both theorems with the hypothesis fail (TLC finds it).

`PullStreamsProofs` proves, for any number of sources, events and requests, and any range of indexes:

| Theorem | Statement | What it says |
|---|---|---|
| `ReadInStep` | `Spec => []RowsPaired` | the k-th row of positional sources has the k-th event of each, and none is read further ahead |
| `EndsClean` | `Spec => []LeavesNothing` | however a stream ends, its object in WASM is freed once, and each source that did not end is closed once |
| `MergesInOrder` | `Spec => MergeImplements` | a merge of iterators implements `MergedStream` |
| `JoinsAsOf` | `Spec => JoinImplements` | an as-of join of iterators implements `AlignedRows` |

The properties are about what the consumer got, while a step sees the heads it holds. `Pulling` ties
the two: a source that goes on is owed a `next()` in this round, or its newest event is the head and
waits to be used. For `EndsClean`, `Life` says in which state each source is at each point of the
generator, and `Freed` how often the object was freed. For the refinements, `Merging` says that the
rows out are the events given but for the heads and the row under way, and that this row precedes
every head; `Joining` does the same for the latest events and the row due. That a delivered event is
*final* follows since a source whose head is in is past every index below it: a row leaves only in
a round in which every source that goes on has its head.

`RuntimeProofs` proves, for any number of runs, streams, copies and depth of calls:

| Theorem | Statement | What it says |
|---|---|---|
| `DeletedOnce` | `MCSpec => []ReleasedOnce` | an engine is released once, and the set of open ones is right |
| `FinalizersSpareTheHeld` | `MCSpec => []HeldStaysOpen` | no finalizer closes what a holder can use |
| `FedWhileOpen` | `MCSpec => NoUseAfterRelease` | no engine is used after its release |
| `IndependentRuns` | `MCSpec => []StreamsAlone` | a stream's copies were reset when lent and are fed by it alone |
| `CopiesAccounted` | `MCSpec => []CopiesFreedOnce` | a copy is pooled, lent to one stream, or freed once |

For a Pipeline the properties are inductive with the types and `Made` (an engine is made once, when
its run starts; the callable one is the user's only if the user made it). For an operator they need
`OpInv`: `Life` says how far each stream and the operator are (no stream runs, and none will, once
what the operator owns is freed), `Lending` adds to the account of the copies that a stream holds
none twice, and `Columns` says that the copies of an open stream have run its events, except the one
under way; `RunsAlone` says, for each copy lent, what it took in since its reset.

`HeapCallsProofs` proves, for any nesting of calls, user code and callbacks:

| Theorem | Statement | What it says |
|---|---|---|
| `StackHoldsDrivers` | `Spec => []StackKept` | the WASM stack holds the frames of the C++ that runs |
| `CallsLeaveNothing` | `Spec => NothingLeaks` | no step leaves a block without an owner, but an allocation that fails before the `try` of its call: it loses the blocks made before it |
| `ViewsStayFresh` | `GrowsSafely` gives `Spec => []UsesFresh` | no stale view, no freed block |
| `BuffersStay` | `GrowsSafely` gives `Spec => []OwnedLive` | what an operator points to is allocated |

The proofs know nothing of the single functions: `ScriptAssumption` states the discipline they keep
(each step that may raise comes in the `try` or before the first block, a view is used before the
heap grows again, what is used was made, a callback makes nothing), TLC evaluates it for every
script, and the theorems hold for any scripts that keep it. A new function needs its script only.
`GrowsSafely` says where an allocation may fail: not while a buffer of an operator is made anew. The
instance of `heap_calls` satisfies it; without it `OwnedLive` is false (finding 4). `NothingLeaks` needs
no such assumption: any allocation may fail. It says exactly what the code frees and what it does not:
the steps it excepts are the leak described at the end of section 5. `StackInv` counts the frames of C++ below each frame: the base of a
callback is the count when it was entered, so that it can be put back. `HeapInv` says that a call owns
what its script made up to its step, is in its `try` if the script entered it, and has the views made
since the heap last grew; what is owned is allocated if `GrowsSafely`. What a step loses is then what it
frees too little: `Freed` differs from the blocks of the call only before its `try` (`ErrorSafe`).

`MCSavingProofs` proves, for any number of saves, names, links, modes, crashes and failing steps:

| Theorem | Statement | What it says |
|---|---|---|
| `AlwaysWhole` | `Spec => []TargetWhole` | a name holds a whole dump of a save that resolved, or what was there before |
| `NothingLeft` | `Spec => []NoLitter` | only a crash or a failing removal leaves a temporary file |
| `TargetKept` | `Spec => LinksAndModesKept` | no link is replaced, and no mode changes, but where a save whose `readlink` or `stat` missed them has replaced the name |

`TargetWhole` is not inductive: it says nothing of a temporary file that is about to be renamed,
nor of the older files a crash may bring back. `IInv` adds, for each save, what is known of its
temporary file at each step (`TmpInv`: whole once written, on the disk once synced, with the
target's mode from `chmod` on) and of its target (`TargetInv`: for a save that is `Sighted`, that is
one that missed nothing and whose path no save that did has replaced, it is no link, and has the mode
that was read or was not there); and that every file a name held since the last crash is whole and
synced (`FileInv`). A step of a save touches no name but in `rename`, so all others go by one lemma
(`Local`); two saves of one target meet only there. The assumptions are that names, saves and modes
are distinct from the values that stand for none; any step may fail.

It also proves the properties of the other two parts of `MCSaving`:

| Theorem | Statement | What it says |
|---|---|---|
| `FailedLoadsUndone` | `MCSpec => []FailedLoadKeeps` | a load that fails, in either pass and at any field, leaves the session as it was |
| `SessionsContinue` | `MCSpec => []LoadedContinues` | a loaded session has the saved one's graph and state, and an unedited file is refused by no pass |
| `SettingsSurvive` | `MCSpec => []SettingsKept` | every copy of an operator works with the settings of its call, and its record can be built again |

`FailedLoadKeeps` speaks of the state after the undo only; `LoadInv` says what holds at every step of
a pass: the undo log, applied to the fields as they are now, gives the session as it was built
(`Undone = Built(target.graph)`). A field that is assigned twice (`width`, by `input_widths` and by
its own entry) is why the order matters: `Undone` gives a field the value of its first entry in the
log, as `UndoLog::undo` does by going backwards, and `TakeUndone` shows that a later entry changes no
earlier one. The theorem holds for any graphs and any fields: nothing of a graph is used but
that the session's stays the same; `LeastPlace` gives the first entry (`WFMin` of the library).

`LoadedContinues` speaks of the end of a load. `ContinueInv` says what it rests on: what is dumped is
the session's own state and description, and an edit changes only the description and breaks a field
(`SavedRight`); and every field that the Read pass came past was found equal to the recorded one and
holds the saved value (`PassRight`, with `Passed` for the order of the fields). At the end all entries
were passed (`AllTaken`): the compared parts make the two descriptions equal, equal descriptions have
the same fields (`SameFields`), so the states are equal too. `WrittenFits` shows that a field of an
unedited file always fits. Only what the recursive walk computes is assumed, of the constant `Graphs`:
`GraphAssumption` says that a walk comes to its end and that a graph built from a description has that
description again. TLC evaluates it for the graphs of the run; for every graph it would need an
induction over graphs.

`SettingsKept` is not inductive: it says nothing of what a copy will be made with. `SettingsInv` adds
it for each op: every value it works with is accepted by the factory and is no array of the user
(`OpRight`), it is what the call meant, and so is the value the factory would make of what is
recorded, unless that is the user's array (`OpSame`). The lemmas `RecordedSame` and `TextSame` say so
of one setting through a description and through a file, `AddOp` of the op that is added. The
theorem holds for any table of factories with `DefaultAssumption` (no default is `null`, an array or
another value a caller gives but NaN, and only a number has NaN), which TLC evaluates for all 276.

Only model-checked: all liveness (`EndDelivers`, `EndFlushes`, `Answered`, `Collected`: temporal
reasoning under fairness is beyond the prover), `GraphAssumption`, and the properties that the
findings refute.

## 5. Findings

1. **An event at the highest index is dropped by a flush** (`om_last_index`). An ended port's
   front is the highest int64, and a lower port must be strictly above an event to release it, so
   at that index an event on port 1 or above is never ready; `flush_port` flushes the node below
   with the event waiting, against its comment. The other runs of `OrderedMerge` leave `kMax` out
   of `Indexes`.
   `LeadRowsNode` has the same edge: nothing is above that index, so an event there that has no
   partner is dropped at the end without the error (`WaitsForCause` of `LeadRows` names it).
2. **A rejected `advance` can lose an event** (`ls_rejected_advance`). The advance releases an
   event that waits, the fill Resample below refuses it with `FillLimitError`, and the merge has
   taken it off the heap already. The comment of `advance` says that the nodes hold valid state
   and the session goes on.
3. **A rejected `flush` leaves the session open** (`ls_failed_flush`). `flush()` catches nothing:
   inputs that were called have ended, the Resample emitted its last bar, but the session is
   neither closed nor poisoned. A later event on an input behind the others then opens a bar below
   one already emitted (in the run bars 0 and 5, and then 0 again), and the rows of the output are
   no longer sorted by index, as `output_join.h` says they are.
4. **A reducer or row operator points to freed memory after an allocation fails**
   (`hc_out_of_memory`). Its event buffer is freed before a larger one is made. If that fails, a
   `RangeError` says so, but the operator keeps the old address and size: the next event that fits
   writes there, and `dispose()` frees it again.
5. **A changed array goes into a description** (`changed_array`). `MovingAverage(taps)` copies
   its array for the operator but records the caller's own; the array is copied only when a
   Pipeline is described. A file saved after the array was changed is loaded with other taps than
   the running operator has.

Two more weaknesses of the code are no violation runs: two properties state them as the exceptions
they make, and hold with them.

- **An allocation that fails leaks those before it** (`NothingLeaks`, `LeftByAllocation`). `batch()`
  of a reducer (`runtime.ts:952`), the batch calls of a row operator (`runtime.ts:1285` and `:1309`)
  and the batch call of a Pipeline (`pipeline.ts:534`) allocate their blocks before the `try` whose
  `finally` frees them. When a later allocation is out of memory, the earlier blocks stay on the heap
  and nothing knows of them. `surrogates` (`validation.ts:52`) allocates within the `try` instead.
- **A `stat` or `readlink` that fails loses the permissions or the link** (`LinksAndModesKept`,
  `missed`). `errors.ts:187` and `:209` take every error for a path that is no link, a file that does
  not exist: an I/O error on an existing file gives the new file the default mode. The comment at
  `errors.ts:199` promises both without condition.

## 6. Not modelled

* Values, reducers and floating point: a bar is the set of its values, a row its events.
* Operators and window structures (numerical; sequential, with reference tests), what validation,
  statistics and backtest engines compute; of these, only their use of the heap is modelled.
* The wiring of arbitrary graphs and the width checks of a compile: static.
* The text of a saved state, conversions, wording and documentation of the packages; how a
  JavaScript call tells a number, an array and a stream apart, and the shapes of its result.
* The Python package, and the WebAssembly binding.
* Exceptions of the allocator in C++, the undo log's own among them.
* The copies of operators within an engine, and what two copies might share.

Assumed of what is outside: the random part of a temporary file's name is unique; arrays of numbers
neither throw nor run code of the user when they are read or a typed array is set from them; in
`heap_calls` the buffers of `reducerEvent` and `rowEvent` can be made anew (`hc_out_of_memory` is the
run where they cannot); a setting's name in JavaScript and in Python is one
name; the C++ constructors refuse the same settings each time.

## 7. Plan

In this order; each step has its run, and its theorem where one is named.

1. `ResampleIndex`: the index, count and threshold modes, label right, origin, all three fills,
   and labels near the ends of a small wrapped integer range; `GenericResampleNode` as a second
   implementation of one abstract Resample, and `BarsRight` of both as a theorem.
2. `MergeRelation`: that the nodes whose bits `merge_relation` sets (inputs, delays, lags, row
   nodes) keep what the bits say; `OrderedMerge`, `ResampleClock` and `PairPorts` assume it today.
3. The C++ source merge feeds a graph in the order `MergeTo` assumes.
4. Window structures as functions (monotonic queue, ring sum) against their definitions; the
   order state machines of the backtest engines.
