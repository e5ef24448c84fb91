----------------------------- MODULE AsOfMerge -----------------------------
(***************************************************************************)
(* The reorder buffer that dag/combine_latest_node.h and dag/filter_node.h *)
(* share line by line: one watermark per port and a heap of the events     *)
(* that wait until no port can send below them.  PROJECT.json maps it to   *)
(* the lines of combine_latest_node.h.                                     *)
(*                                                                         *)
(* An event may be applied once every port's watermark has reached its     *)
(* index.  Then only events at that index can still come, and the row of   *)
(* an index is kept back (it is `due`) until the watermarks pass it.       *)
(*                                                                         *)
(* A handler of a port runs to its end before the next one starts; it      *)
(* takes one step per event it applies, and `call` is the handler that     *)
(* runs.                                                                   *)
(***************************************************************************)
EXTENDS AlignedRows

CONSTANTS Indexes,      \* the indexes events have
          MaxEvents,    \* bound on the model: the events a port sends
          MaxPending    \* max_pending: the events that may wait

ASSUME BufferAssumption ==
  /\ Indexes \subseteq Index
  /\ MaxEvents \in Nat
  /\ MaxPending \in Nat \ {0}

VARIABLES wm,               \* wm_: each port's watermark
          flushed,          \* the ports with flushed_ set (flushed_count_ of them)
          pending,          \* pending_: the waiting events
          next_seq,         \* next_seq_
          due,              \* {buffered_index_} while has_buffered_, else {}
          latest,           \* cl_: each port's last applied event, if any
          last_forwarded,   \* last_forwarded_wm_
          call,             \* the handler that runs, or "idle"
          error,            \* the error the last handler raised, or "none"
          flushes           \* how often the node flushed the node below

bufferVars == <<wm, flushed, pending, next_seq, due, latest, last_forwarded>>
callVars == <<call, error, flushes>>

Larger(a, b) == IF a < b THEN b ELSE a

\* What the node keeps of a waiting event, and the event it stands for.
Entry == [index : Index, port : Ports, nth : Nat, val : Vals, seq : Nat]
EventOf(e) == [index |-> e.index, port |-> e.port, nth |-> e.nth, val |-> e.val]

\* PendGreater, the order of the heap.
HeapBefore(a, b) ==
  \/ a.index < b.index
  \/ a.index = b.index /\ a.port < b.port
  \/ a.index = b.index /\ a.port = b.port /\ a.seq < b.seq

IsTop(e) == e \in pending /\ \A d \in pending \ {e} : HeapBefore(e, d)

\* Bug: the highest watermark bounds the events instead of the lowest.
IsLow_High(w) == w \in {wm[p] : p \in Ports} /\ \A p \in Ports : wm[p] <= w

\* The lowest watermark of the ports.
IsLow(w) == w \in {wm[p] : p \in Ports} /\ \A p \in Ports : w <= wm[p]

\* An input whose event or watermark the node takes next.
Idle == call = "idle" /\ error = "none"
MaySend(p, t) == Idle /\ p \notin ended /\ floor[p] <= t

\* on_port, once the event's columns fit: the event waits, then release().
Enqueue(p, t, v) ==
  /\ MaySend(p, t)
  /\ Sent(p) < MaxEvents
  /\ floor' = [floor EXCEPT ![p] = t]
  /\ wm' = [wm EXCEPT ![p] = Larger(@, t)]
  /\ LET e == [index |-> t, port |-> p, nth |-> Sent(p), val |-> v, seq |-> next_seq]
     IN  taken' = taken \cup {EventOf(e)} /\ pending' = pending \cup {e}
  /\ next_seq' = next_seq + 1
  /\ call' = "push"
  /\ UNCHANGED <<out, ended, flushed, due, latest, last_forwarded, error, flushes>>

\* on_port_watermark, then release().
OnWatermark(p, w) ==
  /\ Idle /\ p \notin ended
  /\ floor' = [floor EXCEPT ![p] = Larger(@, w)]
  /\ wm' = [wm EXCEPT ![p] = Larger(@, w)]
  /\ call' = "watermark"
  /\ UNCHANGED <<taken, out, ended, flushed, pending, next_seq, due, latest, last_forwarded,
                 error, flushes>>

\* flush_downstream, up to release().
FlushPort(p) ==
  /\ Idle
  /\ p \notin ended
  /\ ended' = ended \cup {p}
  /\ floor' = [floor EXCEPT ![p] = kMax]
  /\ wm' = [wm EXCEPT ![p] = kMax]
  /\ flushed' = flushed \cup {p}
  /\ call' = "flush"
  /\ UNCHANGED <<taken, out, pending, next_seq, due, latest, last_forwarded, error, flushes>>

\* The first waiting event, which release() applies next.
Applicable(e) == IsTop(e) /\ \E low \in Index : IsLow(low) /\ e.index <= low

Released == ~\E e \in pending : Applicable(e)

\* The node's reset().
ResetBuffer ==
  /\ wm' = [p \in Ports |-> kMin]
  /\ flushed' = {}
  /\ pending' = {}
  /\ next_seq' = 0
  /\ due' = {}
  /\ latest' = [p \in Ports |-> {}]
  /\ last_forwarded' = kMin
  /\ error' = "none"
  /\ flushes' = 0

\* assign_waiting() after a save: stored in the order of the heap, numbered again.
Renumbered(e) == [e EXCEPT !.seq = Cardinality({d \in pending : HeapBefore(d, e)})]

BufferInit ==
  /\ wm = [p \in Ports |-> kMin]
  /\ flushed = {}
  /\ pending = {}
  /\ next_seq = 0
  /\ due = {}
  /\ latest = [p \in Ports |-> {}]
  /\ last_forwarded = kMin
  /\ call = "idle"
  /\ error = "none"
  /\ flushes = 0
=============================================================================
