------------------------------ MODULE MCNodes ------------------------------
(***************************************************************************)
(* The nodes that put several inputs together, for TLC: a behaviour is one *)
(* of CombineLatest, Filter, OutputJoin, ResampleClock, ForwardAsOf and    *)
(* LeadRows, as "node" says.  The first three implement one specification, *)
(* AlignedRows, and all make the same promises: rows leave in time, and    *)
(* none stays behind at the end.  The nodes share the variables that have  *)
(* one name; those of the other nodes keep their initial value.            *)
(***************************************************************************)
EXTENDS AsOfMerge

CONSTANTS Columns,      \* CombineLatest: the columns an event may have
          TickMax,      \* ResampleClock: its highest index,
          TickIndexes,  \* the indexes of its values and ticks,
          MaxAge, InOrder, NeverAhead, Modes,
          Count,        \* LeadRows: how far a target lies ahead
          RowIndexes    \* OutputJoin: the indexes of its rows

VARIABLES node,
          width, learned, emitted_any, layouts,           \* CombineLatest
          buffered,                                       \* Filter
          buffer, watermark, queue, bound, limit,         \* OutputJoin
          ticked, sent, front, gfront, fwd, ticks,        \* ResampleClock
          waiting, bar, last_tick, last_finite, merge_order, clock, hand,
          rows, events, base, y_last, y_wm, x_floor,      \* ForwardAsOf
          ring, lo                                        \* LeadRows

combineOwn == <<width, learned, emitted_any, layouts>>
joinOwn == <<buffer, watermark, bound, limit>>
clockOwn == <<ticked, sent, front, gfront, fwd, ticks, waiting, bar, last_tick, last_finite, hand>>
forwardOwn == <<rows, events, base, y_last, y_wm, x_floor>>
leadOwn == <<ring, lo>>
mergeOwn == <<merge_order, clock>>      \* ResampleClock, ForwardAsOf and LeadRows
OneColumn == [p \in Ports |-> 1]

\* emit "any" and "when_all"
C == INSTANCE CombineLatest WITH Vals <- Columns, WhenAll <- FALSE, Gated <- FALSE, Passing <- {},
                                 Declared <- OneColumn
A == INSTANCE CombineLatest WITH Vals <- {1}, WhenAll <- TRUE, Gated <- FALSE, Passing <- {},
                                 Declared <- OneColumn
F == INSTANCE Filter
J == INSTANCE OutputJoin WITH Vals <- {0}, Gated <- FALSE, Passing <- {}, Indexes <- RowIndexes,
                              MaxRows <- MaxEvents
\* fill "skip" with max_age, and every tick its bar
R == INSTANCE ResampleClock WITH kMax <- TickMax, Indexes <- TickIndexes, MaxEvents <- MaxEvents + 1,
                                 Skip <- TRUE
E == INSTANCE ResampleClock WITH kMax <- TickMax, Indexes <- TickIndexes, MaxEvents <- MaxEvents + 1,
                                 Skip <- FALSE, MaxAge <- {}
\* y is delayed, so only X is in order; the ports of a lead are both inputs
P == INSTANCE ForwardAsOf WITH Vals <- {1}, Gated <- FALSE, Passing <- {}, MaxEvents <- MaxEvents + 1
L == INSTANCE LeadRows WITH Vals <- {1}, Gated <- FALSE, Passing <- {}, InOrder <- Ports,
                            MaxEvents <- MaxEvents + 1

ASSUME JoinAssumptions ==
  C!ColumnAssumption /\ A!ColumnAssumption /\ F!FilterAssumption /\ J!JoinAssumption
ASSUME ClockAssumptions == R!ClockAssumption /\ E!ClockAssumption
ASSUME PairAssumptions == P!PairAssumption /\ L!PairAssumption /\ L!LeadAssumption

-----------------------------------------------------------------------------
Combine == {"any", "all"}
Resample == {"bars", "every bar"}
Pairs == {"forward", "lead"}

\* The initial values of what a node does not have.
NoCombine == width = OneColumn /\ learned = {} /\ emitted_any = FALSE /\ layouts = {}
NoFilter == buffered = F!NoRow
NoJoin ==
  /\ buffer = {} /\ limit = kMin
  /\ watermark = [p \in Ports |-> {}] /\ bound = [p \in Ports |-> {}]
NoQueue == queue = {}
NoClock ==
  /\ ticked = {} /\ sent = [p \in R!Ports |-> 0]
  /\ front = [p \in R!Ports |-> R!None] /\ gfront = R!None /\ fwd = R!None
  /\ ticks = {} /\ waiting = {} /\ bar = {} /\ last_tick = R!None /\ last_finite = R!None
  /\ hand = {}
NoMerge == merge_order = FALSE /\ clock = kMin
NoHeap == wm = [p \in Ports |-> kMin] /\ pending = {} /\ next_seq = 0 /\ due = {}
NoLatest == latest = [p \in Ports |-> {}]
NoForward == rows = {} /\ events = {} /\ base = {} /\ y_last = {} /\ y_wm = kMin /\ x_floor = kMin
NoLead == ring = <<>> /\ lo = [p \in Ports |-> kMin]

Init ==
  \/ /\ node \in Combine /\ C!Init
     /\ NoFilter /\ NoJoin /\ NoQueue /\ NoClock /\ NoMerge /\ NoForward /\ NoLead
  \/ /\ node = "filter" /\ F!Init
     /\ NoCombine /\ NoJoin /\ NoQueue /\ NoClock /\ NoMerge /\ NoForward /\ NoLead
  \/ /\ node = "join" /\ J!Init /\ BufferInit
     /\ NoCombine /\ NoFilter /\ NoClock /\ NoMerge /\ NoForward /\ NoLead
  \/ /\ node \in Resample /\ R!Init /\ BufferInit
     /\ NoCombine /\ NoFilter /\ NoJoin /\ NoQueue /\ NoForward /\ NoLead
  \/ /\ node = "forward" /\ P!Init
     /\ NoHeap /\ NoLatest /\ NoCombine /\ NoFilter /\ NoJoin /\ NoQueue /\ NoClock /\ NoLead
  \/ /\ node = "lead" /\ L!Init
     /\ NoHeap /\ NoLatest /\ NoCombine /\ NoFilter /\ NoJoin /\ NoClock /\ NoForward

\* What AsOfMerge and the pairs keep of a handler, and what only AsOfMerge keeps.
handlerOwn == <<flushed, last_forwarded, error, flushes>>
heapOwn == <<wm, pending, next_seq, due>>

Next ==
  /\ UNCHANGED node
  /\ \/ /\ node = "any" /\ C!Next
        /\ UNCHANGED <<buffered, joinOwn, queue, clockOwn, mergeOwn, forwardOwn, leadOwn>>
     \/ /\ node = "all" /\ A!Next
        /\ UNCHANGED <<buffered, joinOwn, queue, clockOwn, mergeOwn, forwardOwn, leadOwn>>
     \/ /\ node = "filter" /\ F!Next
        /\ UNCHANGED <<combineOwn, joinOwn, queue, clockOwn, mergeOwn, forwardOwn, leadOwn>>
     \/ /\ node = "join" /\ J!Next
        /\ UNCHANGED <<heapOwn, handlerOwn, combineOwn, buffered, clockOwn, mergeOwn, forwardOwn, leadOwn>>
     \/ /\ node = "bars" /\ R!Next
        /\ UNCHANGED <<heapOwn, handlerOwn, latest, combineOwn, buffered, joinOwn, queue, forwardOwn, leadOwn>>
     \/ /\ node = "every bar" /\ E!Next
        /\ UNCHANGED <<heapOwn, handlerOwn, latest, combineOwn, buffered, joinOwn, queue, forwardOwn, leadOwn>>
     \/ /\ node = "forward" /\ P!Next
        /\ UNCHANGED <<heapOwn, latest, combineOwn, buffered, joinOwn, queue, clockOwn, leadOwn>>
     \/ /\ node = "lead" /\ L!Next
        /\ UNCHANGED <<heapOwn, latest, combineOwn, buffered, joinOwn, clockOwn, forwardOwn>>

allVars == <<node, streamVars, bufferVars, callVars, combineOwn, buffered, joinOwn, queue, clockOwn,
             mergeOwn, forwardOwn, leadOwn>>

\* A handler of a join or a pair that was called runs to its end.
Handler ==
  /\ UNCHANGED node
  /\ \/ /\ node = "any" /\ C!Handler
        /\ UNCHANGED <<buffered, joinOwn, queue, clockOwn, mergeOwn, forwardOwn, leadOwn>>
     \/ /\ node = "all" /\ A!Handler
        /\ UNCHANGED <<buffered, joinOwn, queue, clockOwn, mergeOwn, forwardOwn, leadOwn>>
     \/ /\ node = "forward" /\ P!Handler
        /\ UNCHANGED <<heapOwn, latest, combineOwn, buffered, joinOwn, queue, clockOwn, leadOwn>>
     \/ /\ node = "lead" /\ L!Handler
        /\ UNCHANGED <<heapOwn, latest, combineOwn, buffered, joinOwn, clockOwn, forwardOwn>>

Spec == Init /\ [][Next]_allVars /\ WF_allVars(Handler)

-----------------------------------------------------------------------------
(* Properties *)

\* A watermark that was sent down is a promise: no row or bar goes below it.
WatermarkKept ==
  Len(out') > Len(out) =>
    (IF node \in Resample THEN fwd ELSE last_forwarded) <= out'[Len(out')].index

\* The three joins implement AlignedRows: in every run, live or batch, the rows
\* are those of one alignment of the events, each once, in order, and not
\* before it is final, whatever order the ports are called in.  A forward join
\* and a lead give each X event the target that all events together give it.
\* No row, and no bar of a resample, goes below a watermark that was sent down.
RowsAlign ==
  /\ node \notin Resample => SInit
  /\ [](node = "forward" => P!RowsRight)
  /\ [](node = "lead" => L!RowsRight /\ L!ErrorRight)
  /\ [][/\ node = "any" => [C!SNext]_streamVars
        /\ node = "all" => [A!SNext]_streamVars
        /\ node = "filter" => [F!SNext]_streamVars
        /\ node = "join" => [J!SNext]_streamVars]_streamVars
  /\ [][WatermarkKept]_allVars

\* Nothing waits in vain between two calls: a row that no event can change is
\* out, a filter that drops every row still tells the nodes below the time, and
\* a tick or a value of a resample, a row of a forward join and a pair of a lead
\* wait only for an event that may come.
RowsPrompt ==
  /\ node = "any" => C!RowsPrompt
  /\ node = "all" => A!RowsPrompt
  /\ node = "filter" => F!RowsPrompt /\ F!TimeAdvances
  /\ node \in Resample => R!WaitsForCause
  /\ node = "forward" => P!WaitsForCause
  /\ node = "lead" => L!WaitsForCause

\* A drain settles every index that all outputs have passed.
SettledPrompt == [][node = "join" => J!Settles]_allVars

\* Once all inputs have ended, every row and every bar is out, once.
EndEmitsAll ==
  /\ node = "any" => C!FlushEmitsAll
  /\ node = "all" => A!FlushEmitsAll
  /\ node = "filter" => F!FlushEmitsAll
  /\ node = "join" => J!EndComplete
  /\ node = "bars" => R!EndEmitsAll
  /\ node = "every bar" => E!EndEmitsAll
  /\ node = "forward" => P!EndEmitsAll
  /\ node = "lead" => L!EndEmitsAll

\* All rows of a join have the same columns, though a port learns its columns.
RowsOneLayout == node \in Combine => C!RowsOneLayout

\* What a load requires of a saved state holds between the calls of a session.
SavedStateLoads ==
  /\ node \in Combine => C!SavedStateLoads
  /\ node = "forward" => P!SavedStateLoads
  /\ node = "lead" => L!SavedStateLoads

\* The bars of a clock resample are those of the ticks and values, and stay so.
BarsRight ==
  /\ node = "bars" => R!BarsRight
  /\ node = "every bar" => E!BarsRight

\* Once every input of a join or a pair has ended, it flushes the node below; a
\* lead may raise instead, when its inputs are not on one clock.
EndFlushes == node \in Combine \cup Pairs /\ ended = Ports ~> flushes = 1 \/ error = "one clock"
=============================================================================
