----------------------------- MODULE OutputJoin -----------------------------
(***************************************************************************)
(* The outputs of a graph, gathered in buffers, drained now and then, and  *)
(* aligned on one index (GatherSink, drain_into and drain_aligned of       *)
(* dag/compiled_graph.h; dag/output_join.h).  The join carries each        *)
(* output's latest row from one drain to the next and settles an index     *)
(* once every output is past it, so that the rows of all drains, put after *)
(* each other, are those of one drain of the whole run.                    *)
(*                                                                         *)
(* The ports are the graph's outputs: `taken` holds the rows they emitted, *)
(* `out` the aligned rows, floor[j] how far output j has come and `ended`  *)
(* every output once flush() ended the input.  Widths are left out.        *)
(***************************************************************************)
EXTENDS AlignedRows

CONSTANTS Indexes,       \* the indexes rows have
          MaxRows        \* bound on the model: the rows an output emits

\* What the constants must be; MCNodes assumes it of its instance.
JoinAssumption == ~Gated /\ WhenAll /\ Indexes \subseteq Index /\ MaxRows \in Nat

VARIABLES buffer,        \* outputs_: the rows not drained yet
          watermark,     \* {outputs_[j].watermark} if has_watermark, else {}
          queue,         \* q_: the rows that wait in the join
          bound,         \* {q_[j].bound} if bounded, else {}
          latest,        \* row_: each output's latest row, if any
          limit,         \* the take that runs settles the indexes below this
          call           \* "idle" or "take"

joinVars == <<queue, bound, latest>>
vars == <<streamVars, buffer, watermark, joinVars, limit, call>>

Larger(a, b) == IF a < b THEN b ELSE a
Top(S) == CHOOSE x \in S : \A y \in S : y <= x

\* The graph is open for events: flush() has not ended the input.
Open == ended = {} /\ call = "idle"

-----------------------------------------------------------------------------
\* GatherSink::push: output j emits a row.
Emit(j, t, v) ==
  /\ Open
  /\ floor[j] <= t
  /\ Sent(j) < MaxRows
  /\ LET e == [index |-> t, port |-> j, nth |-> Sent(j), val |-> v]
     IN  taken' = taken \cup {e} /\ buffer' = buffer \cup {e}
  /\ floor' = [floor EXCEPT ![j] = t]
  /\ UNCHANGED <<out, ended, watermark, joinVars, limit, call>>

\* GatherSink::on_watermark: output j will emit no row below w.
OnWatermark(j, w) ==
  /\ Open
  /\ watermark' = [watermark EXCEPT ![j] = IF \E b \in @ : w <= b THEN @ ELSE {w}]
  /\ floor' = [floor EXCEPT ![j] = Larger(@, w)]
  /\ UNCHANGED <<taken, out, ended, buffer, joinVars, limit, call>>

\* flush() ends the input: no output emits a row after it.
Flush == Open /\ End(Ports) /\ UNCHANGED <<buffer, watermark, joinVars, limit, call>>

\* Bug: a watermark that came with an earlier drain is forgotten.
Bounds_Rows(j) == bound[j] \cup {e.index : e \in {d \in buffer : d.port = j}}

\* What a drain says of output j: its rows, its watermark, and what was known.
Bounds(j) == bound[j] \cup watermark[j] \cup {e.index : e \in {d \in buffer : d.port = j}}

\* The indexes below this are settled, the outputs' bounds being b: all of them
\* at the end, else those below every bound.
Settled(b) ==
  IF ended # {} THEN kMax + 1
  ELSE IF \E j \in Ports : b[j] = {} THEN kMin
  ELSE CHOOSE x \in UNION {b[j] : j \in Ports} : \A j \in Ports : \A y \in b[j] : x <= y

\* Bug: the take that ends the run aligns its own rows only.
Take_EndAlone ==
  /\ call = "idle"
  /\ buffer' = {}
  /\ queue' = IF ended # {} THEN buffer ELSE queue \cup buffer
  /\ bound' = [j \in Ports |-> IF Bounds(j) = {} THEN {} ELSE {Top(Bounds(j))}]
  /\ limit' = Settled(bound')
  /\ call' = "take"
  /\ UNCHANGED <<streamVars, watermark, latest>>

\* drain_aligned: the buffered rows are taken into the queues, up to settle().
\* The first take of a run that ends with it is align_outputs of the buffers,
\* which gives the same rows and leaves the same state.
Take ==
  /\ call = "idle"
  /\ buffer' = {}
  /\ queue' = queue \cup buffer
  /\ bound' = [j \in Ports |-> IF Bounds(j) = {} THEN {} ELSE {Top(Bounds(j))}]
  /\ limit' = Settled(bound')
  /\ call' = "take"
  /\ UNCHANGED <<streamVars, watermark, latest>>

\* The rows of output j at index k in the queue.
RowsAt(j, k) == {e \in queue : e.port = j /\ e.index = k}

\* The last row of an output at an index wins.
Wins(e, S) == \A d \in S : d.nth <= e.nth

\* One round of merge_rows: the lowest index in the queues is settled.
MergeIndex ==
  /\ call = "take"
  /\ \E k \in {e.index : e \in queue} :
       /\ k < limit
       /\ \A e \in queue : k <= e.index
       /\ latest' = [j \in Ports |-> IF RowsAt(j, k) = {} THEN latest[j]
                                     ELSE {e \in RowsAt(j, k) : Wins(e, RowsAt(j, k))}]
       /\ queue' = {e \in queue : e.index # k}
       /\ out' = IF \A j \in Ports : latest'[j] # {}
                 THEN Append(out, [index |-> k, latest |-> latest'])
                 ELSE out
  /\ UNCHANGED <<taken, floor, ended, buffer, watermark, bound, limit, call>>

EndTake ==
  /\ call = "take"
  /\ \A e \in queue : limit <= e.index
  /\ call' = "idle"
  /\ limit' = kMin
  /\ UNCHANGED <<streamVars, buffer, watermark, joinVars>>

Reset ==
  /\ call = "idle"
  /\ Restart
  /\ buffer' = {}
  /\ watermark' = [j \in Ports |-> {}]
  /\ queue' = {}
  /\ bound' = [j \in Ports |-> {}]
  /\ latest' = [j \in Ports |-> {}]
  /\ UNCHANGED <<limit, call>>

-----------------------------------------------------------------------------
Init ==
  /\ SInit
  /\ buffer = {}
  /\ watermark = [j \in Ports |-> {}]
  /\ queue = {}
  /\ bound = [j \in Ports |-> {}]
  /\ latest = [j \in Ports |-> {}]
  /\ limit = kMin
  /\ call = "idle"

Next ==
  \/ \E j \in Ports, t \in Indexes, v \in Vals : Emit(j, t, v)
  \/ \E j \in Ports, w \in Index : OnWatermark(j, w)
  \/ Flush
  \/ Take
  \/ MergeIndex
  \/ EndTake
  \/ Reset

Spec == Init /\ [][Next]_vars
-----------------------------------------------------------------------------
(* Properties.                                                             *)

\* A drain settles every index that all outputs have passed, by a row or by a
\* watermark: a row waits only for an output that may still emit at its index.
Settles ==
  call = "take" /\ call' = "idle" =>
    \A e \in queue : ended = {} /\ \E j \in Ports : floor[j] <= e.index
SettledPrompt == [][Settles]_vars

\* The drains of a run whose input has ended, put after each other, are the
\* aligned rows of the whole run, whenever the drains came.
EndComplete ==
  call = "idle" /\ ended # {} /\ buffer = {} /\ queue = {} =>
    \A t \in Index : IsRow(t) => t \in Emitted
=============================================================================
