------------------------------ MODULE PairPorts ------------------------------
(***************************************************************************)
(* The two ports of the nodes that forecast_pairs builds: port 0 takes the *)
(* rows of X, port 1 the events of y (dag/forward_asof_node.h and          *)
(* dag/lead_rows_node.h, which extend this module as ForwardAsOf and       *)
(* LeadRows).  A row pairs an X event with a later y event: `latest` of a  *)
(* row holds the X event and, unless the target is NaN, the y event.       *)
(*                                                                         *)
(* In a live session the ports come in any order.  In a batch run one      *)
(* merge feeds the graph in index order: a port in order never comes below *)
(* an index the merge has passed, one that is never ahead never above it.  *)
(*                                                                         *)
(* A handler takes one step per row it emits; `call` is the one that runs. *)
(***************************************************************************)
EXTENDS AlignedRows

CONSTANTS Indexes,      \* the indexes events have
          MaxEvents,    \* bound on the model: the events a port sends
          MaxPending,   \* max_pending: the events that may wait
          InOrder,      \* ports in order with the merge of the inputs
          NeverAhead,   \* ports never ahead of it
          Modes         \* the values of merge_order_ a run starts with

X == 0
Y == 1

\* What the constants must be; MCNodes assumes it of its instances.
PairAssumption ==
  /\ N = 2 /\ Vals = {1} /\ Indexes \subseteq Index
  /\ MaxEvents \in Nat /\ MaxPending \in Nat \ {0}
  /\ InOrder \subseteq Ports /\ NeverAhead \subseteq Ports /\ Modes \subseteq BOOLEAN

VARIABLES clock,            \* the index the graph's merge has reached
          merge_order,      \* merge_order_
          flushed,          \* the ports with flushed_ set
          last_forwarded,   \* last_wm_
          call,             \* the handler that runs, or "idle"
          error,            \* the error the last handler raised, or "none"
          flushes           \* how often the node flushed the node below

pairVars == <<clock, merge_order, flushed, last_forwarded, call, error, flushes>>

Larger(a, b) == IF a < b THEN b ELSE a

\* The event sent first, and last, of some events of a port.
IsOldest(e, S) == e \in S /\ \A d \in S : e.nth <= d.nth
IsNewest(e, S) == e \in S /\ \A d \in S : d.nth <= e.nth

\* One port bounds the other in a batch run: q is in order, p never ahead.
Bounds(p, q) == merge_order /\ q \in InOrder /\ p \in NeverAhead

\* The row of an X event with its target, {} for NaN.
PairOf(x, target) == [index |-> x.index, latest |-> [p \in Ports |-> IF p = X THEN {x} ELSE target]]

-----------------------------------------------------------------------------
(* The producers, as the node may meet them.                               *)

Idle == call = "idle" /\ error = "none"

MayPromise(p, w) ==
  /\ Idle /\ p \notin ended
  /\ merge_order /\ p \in NeverAhead => w <= clock

MaySend(p, t) == MayPromise(p, t) /\ floor[p] <= t /\ Sent(p) < MaxEvents

NewEvent(p, t) == [index |-> t, port |-> p, nth |-> Sent(p), val |-> 1]

MergeMoves(t) ==
  /\ Idle /\ merge_order
  /\ clock < t
  /\ clock' = t
  /\ floor' = [p \in Ports |-> IF p \in InOrder THEN Larger(floor[p], t) ELSE floor[p]]
  /\ UNCHANGED <<taken, out, ended, merge_order, flushed, last_forwarded, call, error, flushes>>

\* Port p sends an event; its handler runs.
Arrives(p, t) ==
  /\ MaySend(p, t)
  /\ taken' = taken \cup {NewEvent(p, t)}
  /\ floor' = [floor EXCEPT ![p] = t]
  /\ call' = IF p = X THEN "x" ELSE "y"
  /\ UNCHANGED <<out, ended, clock, merge_order, flushed, last_forwarded, error, flushes>>

Promises(p, w) ==
  /\ MayPromise(p, w)
  /\ floor' = [floor EXCEPT ![p] = Larger(@, w)]
  /\ call' = "watermark"
  /\ UNCHANGED <<taken, out, ended, clock, merge_order, flushed, last_forwarded, error, flushes>>

Ends(p) ==
  /\ Idle /\ p \notin ended
  /\ merge_order => clock = kMax
  /\ ended' = ended \cup {p}
  /\ floor' = [floor EXCEPT ![p] = kMax]
  /\ flushed' = flushed \cup {p}
  /\ call' = "flush"
  /\ UNCHANGED <<taken, out, clock, merge_order, last_forwarded, error, flushes>>

-----------------------------------------------------------------------------
(* The ends of a handler.                                                  *)

Return(err) ==
  /\ call' = "idle" /\ error' = err
  /\ UNCHANGED <<streamVars, clock, merge_order>>

\* The watermark sent down, if it says more than the last one.
Forward(w) == last_forwarded' = Larger(last_forwarded, w)

\* The rows still waiting are drained, once both ports have ended.
BeginDrain ==
  /\ call = "flush" /\ flushed = Ports
  /\ call' = "drain"
  /\ UNCHANGED <<streamVars, clock, merge_order, flushed, last_forwarded, error, flushes>>

\* The flush goes down and the ports are re-armed.
FlushDown ==
  /\ call = "drain"
  /\ flushed' = {} /\ flushes' = flushes + 1
  /\ Return(error)
  /\ UNCHANGED last_forwarded

\* reset(), and set_merge_order() for the next run.
ResetPorts(m) ==
  /\ call = "idle"
  /\ Restart
  /\ clock' = kMin /\ merge_order' = m
  /\ flushed' = {} /\ last_forwarded' = kMin
  /\ error' = "none" /\ flushes' = 0
  /\ UNCHANGED call

PortsInit ==
  /\ SInit
  /\ clock = kMin /\ merge_order \in Modes
  /\ flushed = {} /\ last_forwarded = kMin
  /\ call = "idle" /\ error = "none" /\ flushes = 0
=============================================================================
