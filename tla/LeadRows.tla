------------------------------ MODULE LeadRows ------------------------------
(***************************************************************************)
(* The row lead (dag/lead_rows_node.h): the row of an X event holds the y  *)
(* event `Count` rows later.  X and y are on one clock: the k-th event of  *)
(* each has the same index, and an index that only one of them has raises  *)
(* as soon as it is known.                                                 *)
(*                                                                         *)
(* Values, widths and the storage of the ring are left out.  A save holds  *)
(* all of the state below, so a load gives it back: it is no step, but     *)
(* what it requires is checked.                                            *)
(***************************************************************************)
EXTENDS PairPorts

CONSTANT Count          \* count_: the rows a target lies ahead

\* MCNodes assumes it and PairAssumption of its instance.
LeadAssumption == Count \in Nat \ {0}

VARIABLES queue,        \* xqi_, yqi_: the events that wait for their partner
          ring,         \* ring_: the kept X events, oldest first
          lo            \* lo_: port p sends nothing below lo[p] any more

leadVars == <<queue, ring, lo>>
vars == <<streamVars, pairVars, leadVars>>

Queued(p) == {e \in queue : e.port = p}
Head1(e) == IsOldest(e, Queued(e.port))

-----------------------------------------------------------------------------
(* The handlers of the ports.                                              *)

\* bound: an event on one port, and in a batch run on the other one too.
NoteBound(p, t) ==
  lo' = [q \in Ports |-> IF q = p \/ Bounds(p, q) THEN Larger(lo[q], t) ELSE lo[q]]

\* on_x and on_y, up to match().
Push(p, t) ==
  /\ Arrives(p, t)
  /\ queue' = queue \cup {NewEvent(p, t)}
  /\ NoteBound(p, t)
  /\ UNCHANGED ring

\* on_watermark and on_flush, up to match().
OnWatermark(p, w) ==
  /\ Promises(p, w)
  /\ lo' = [lo EXCEPT ![p] = Larger(@, w)]
  /\ UNCHANGED <<queue, ring>>

FlushPort(p) ==
  /\ Ends(p)
  /\ lo' = [lo EXCEPT ![p] = kMax]
  /\ UNCHANGED <<queue, ring>>

-----------------------------------------------------------------------------
(* match: the events that wait are paired, oldest first.                   *)

Running == call \notin {"idle", "drain"}
Paired(x, y) == x.port = X /\ y.port = Y /\ Head1(x) /\ Head1(y)

\* pair: the oldest row goes out with this target once the ring is full.
Pair ==
  /\ Running
  /\ \E x, y \in queue :
       /\ Paired(x, y) /\ x.index = y.index
       /\ queue' = queue \ {x, y}
       /\ IF Len(ring) = Count
          THEN /\ out' = Append(out, PairOf(Head(ring), {y}))
               /\ ring' = Append(Tail(ring), x)
          ELSE /\ ring' = Append(ring, x)
               /\ UNCHANGED out
  /\ UNCHANGED <<taken, floor, ended, pairVars, lo>>

\* Two events at two indexes, or one whose partner cannot come any more.
OffClock ==
  \/ \E x, y \in queue : Paired(x, y) /\ x.index # y.index
  \/ \E e \in queue : Head1(e) /\ Queued(1 - e.port) = {} /\ e.index < lo[1 - e.port]

\* throw_one_clock.
ThrowOneClock ==
  /\ Running /\ OffClock
  /\ Return("one clock")
  /\ UNCHANGED <<flushed, last_forwarded, flushes, leadVars>>

Matched == ~OffClock /\ ~\E x, y \in queue : Paired(x, y)
TooMany == \E p \in Ports : Cardinality(Queued(p)) > MaxPending

Overflow ==
  /\ Running /\ Matched /\ TooMany
  /\ Return("overflow")
  /\ UNCHANGED <<flushed, last_forwarded, flushes, leadVars>>

EndPush ==
  /\ call \in {"x", "y"} /\ Matched /\ ~TooMany
  /\ Return(error)
  /\ UNCHANGED <<flushed, last_forwarded, flushes, leadVars>>

\* The lowest index the next event of port p to be paired can have.
NextOf(p) == IF Queued(p) = {} THEN lo[p] ELSE (CHOOSE e \in Queued(p) : Head1(e)).index

\* The lowest index a row may still have goes down: that of the oldest kept
\* row, else of the next pair.
EndWatermark ==
  /\ call = "watermark" /\ Matched /\ ~TooMany
  /\ Forward(IF ring # <<>> THEN Head(ring).index ELSE Larger(NextOf(X), NextOf(Y)))
  /\ Return(error)
  /\ UNCHANGED <<flushed, flushes, leadVars>>

EndFlushFirst ==
  /\ call = "flush" /\ flushed # Ports /\ Matched /\ ~TooMany
  /\ Return(error)
  /\ UNCHANGED <<flushed, last_forwarded, flushes, leadVars>>

\* Both ports have ended: the kept rows go out with a NaN target, then the flush.
EndFlush == Matched /\ ~TooMany /\ BeginDrain /\ UNCHANGED leadVars

DrainRow ==
  /\ call = "drain" /\ ring # <<>>
  /\ out' = Append(out, PairOf(Head(ring), {}))
  /\ ring' = Tail(ring)
  /\ UNCHANGED <<taken, floor, ended, pairVars, queue, lo>>

EndDrain == ring = <<>> /\ FlushDown /\ UNCHANGED leadVars

Reset(m) ==
  /\ ResetPorts(m)
  /\ queue' = {} /\ ring' = <<>> /\ lo' = [p \in Ports |-> kMin]

-----------------------------------------------------------------------------
Init ==
  /\ PortsInit
  /\ queue = {} /\ ring = <<>> /\ lo = [p \in Ports |-> kMin]

Handler == \/ Pair \/ ThrowOneClock \/ Overflow \/ EndPush \/ EndWatermark
           \/ EndFlushFirst \/ EndFlush \/ DrainRow \/ EndDrain

Next ==
  \/ \E p \in Ports, t \in Indexes : Push(p, t)
  \/ \E p \in Ports, w \in Index : OnWatermark(p, w)
  \/ \E p \in Ports : FlushPort(p)
  \/ Handler
  \/ \E t \in Index : MergeMoves(t) /\ UNCHANGED leadVars
  \/ \E m \in Modes : Reset(m)

Spec == Init /\ [][Next]_vars
-----------------------------------------------------------------------------
(* Properties.                                                             *)

\* The k-th event of port p, if it was sent.
Nth(p, k) == {e \in taken : e.port = p /\ e.nth = k}

\* The target of the k-th X event: the y event Count rows later, on the clock.
TargetOf(k) == {y \in Nth(Y, k + Count) : \E x \in Nth(X, k + Count) : x.index = y.index}

\* The rows are the first X events, in order, each with the y event Count rows
\* later; a row that goes out without one is a row of the end, and stays right.
RowsRight ==
  \A i \in 1 .. Len(out) :
    /\ \E x \in Nth(X, i - 1) : out[i] = PairOf(x, TargetOf(i - 1))
    /\ TargetOf(i - 1) = {} => ended = Ports

\* Port q cannot send an event at t any more.
Past(q, t) == q \in ended \/ t < floor[q]

\* The clocks differ at the k-th event: both are there, at two indexes, or one
\* is and the other cannot come to its index.
Differ(k) ==
  \/ \E x \in Nth(X, k), y \in Nth(Y, k) : x.index # y.index
  \/ \E p \in Ports : \E e \in Nth(p, k) : Nth(1 - p, k) = {} /\ Past(1 - p, e.index)

\* An index that only one of X and y has raises, and only that does.
ErrorRight == error = "one clock" => \E k \in 0 .. MaxEvents - 1 : Differ(k)

\* In a live session it raises with the call that shows it, and no pair waits;
\* an event at the highest index that has no partner is lost without an error.
WaitsForCause ==
  Idle /\ ~merge_order =>
    /\ \A k \in 0 .. MaxEvents - 1 : Differ(k) => \E e \in taken : e.nth = k /\ e.index = kMax
    /\ \A e \in queue : Nth(1 - e.port, e.nth) = {}

\* Once both ports have ended on one clock, every X event has its row.
EndEmitsAll ==
  flushes > 0 => flushes = 1 /\ \A e \in taken : e.index < kMax /\ e.port = X => e.nth < Len(out)

\* What a load requires of a saved state holds between the calls of a session.
SavedStateLoads == Idle => Len(ring) <= Count /\ (Queued(X) = {} \/ Queued(Y) = {})
=============================================================================
