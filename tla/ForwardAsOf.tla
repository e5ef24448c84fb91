----------------------------- MODULE ForwardAsOf -----------------------------
(***************************************************************************)
(* The forward as-of join (dag/forward_asof_node.h): the row of an X event *)
(* at t holds the last y event at or before t, and waits until y has       *)
(* passed t, so that no y event can change it.  At the end of the input a  *)
(* row whose t no y event has reached gets a NaN target.                   *)
(*                                                                         *)
(* y is delayed by a negative duration (forecast_pairs), so it is never    *)
(* ahead of the merge but not in order with it.  Values, widths and the    *)
(* storage of the ring are left out.  A save holds all of the state below, *)
(* so a load gives it back: it is no step, but what it requires is checked.*)
(***************************************************************************)
EXTENDS PairPorts

VARIABLES rows,       \* stamp_, rows_: the X rows that wait
          events,     \* yev_: the y events that no row has passed
          base,       \* base_: {the last y event taken}, {} for NaN
          y_last,     \* {y_last_} if have_y_, else {}
          y_wm,       \* y_wm_
          x_floor     \* x_floor_

joinVars == <<rows, events, base, y_last, y_wm, x_floor>>
vars == <<streamVars, pairVars, joinVars>>

-----------------------------------------------------------------------------
(* What a row waits for.                                                   *)

\* settle: no y event at or below t can still come, and one at or above came.
Known(t) == \E l \in y_last : t < l \/ (l = t /\ t < y_wm)

Oldest(x) == IsOldest(x, rows)
Settled == ~\E x \in rows : Oldest(x) /\ Known(x.index)

\* The y events at or before t, and the last y once they are taken.
UpToIndex(t) == {e \in events : e.index <= t}
BaseAt(t) == IF UpToIndex(t) = {} THEN base ELSE {e \in UpToIndex(t) : IsNewest(e, UpToIndex(t))}

\* take_y.
TakeY(t) == events' = events \ UpToIndex(t) /\ base' = BaseAt(t)

-----------------------------------------------------------------------------
(* The handlers of the ports.                                              *)

\* on_x, up to settle().
PushX(t) ==
  /\ Arrives(X, t)
  /\ rows' = rows \cup {NewEvent(X, t)}
  /\ x_floor' = Larger(x_floor, t)
  /\ UNCHANGED <<events, base, y_last, y_wm>>

\* on_y, up to settle(): in a batch run X comes to no index below it.
PushY(t) ==
  /\ Arrives(Y, t)
  /\ events' = events \cup {NewEvent(Y, t)}
  /\ y_last' = {t}
  /\ x_floor' = IF Bounds(Y, X) THEN Larger(x_floor, t) ELSE x_floor
  /\ UNCHANGED <<rows, base, y_wm>>

\* on_watermark, and on_flush of one port, up to settle().
Reaches(p, w) ==
  /\ x_floor' = IF p = X THEN Larger(x_floor, w) ELSE x_floor
  /\ y_wm' = IF p = Y THEN Larger(y_wm, w) ELSE y_wm
  /\ UNCHANGED <<rows, events, base, y_last>>

OnWatermark(p, w) == Promises(p, w) /\ Reaches(p, w)
FlushPort(p) == Ends(p) /\ Reaches(p, kMax)

\* emit: the oldest row goes out, with the y event it takes or with none.
Emit(x, target) ==
  /\ TakeY(x.index)
  /\ rows' = rows \ {x}
  /\ out' = Append(out, PairOf(x, target))
  /\ UNCHANGED <<taken, floor, ended, pairVars, y_last, y_wm, x_floor>>

\* The loop of settle().
EmitKnown ==
  /\ call \notin {"idle", "drain"}
  /\ \E x \in rows : Oldest(x) /\ Known(x.index) /\ Emit(x, BaseAt(x.index))

\* The end of settle(): the y events that no row needs any more are dropped.
EndSettle ==
  /\ Settled
  /\ IF rows = {} THEN TakeY(x_floor) ELSE \E x \in rows : Oldest(x) /\ TakeY(x.index)
  /\ UNCHANGED <<rows, y_last, y_wm, x_floor>>

EndPush ==
  /\ call \in {"x", "y"} /\ EndSettle
  /\ Return(IF call = "y" /\ Cardinality(events') > MaxPending THEN "overflow" ELSE error)
  /\ UNCHANGED <<flushed, last_forwarded, flushes>>

\* The lowest index a row may still have goes down.
EndWatermark ==
  /\ call = "watermark" /\ EndSettle
  /\ IF rows = {} THEN Forward(x_floor) ELSE \E x \in rows : Oldest(x) /\ Forward(x.index)
  /\ Return(error)
  /\ UNCHANGED <<flushed, flushes>>

EndFlushFirst ==
  /\ call = "flush" /\ flushed # Ports /\ EndSettle
  /\ Return(error)
  /\ UNCHANGED <<flushed, last_forwarded, flushes>>

\* Both ports have ended: the rows that wait are drained, then the flush goes down.
EndFlush == EndSettle /\ BeginDrain

DrainRow ==
  /\ call = "drain"
  /\ \E x \in rows :
       /\ Oldest(x)
       /\ Emit(x, IF \E l \in y_last : x.index <= l THEN BaseAt(x.index) ELSE {})

EndDrain == rows = {} /\ FlushDown /\ UNCHANGED joinVars

Reset(m) ==
  /\ ResetPorts(m)
  /\ rows' = {} /\ events' = {} /\ base' = {} /\ y_last' = {}
  /\ y_wm' = kMin /\ x_floor' = kMin

-----------------------------------------------------------------------------
Init ==
  /\ PortsInit
  /\ rows = {} /\ events = {} /\ base = {} /\ y_last = {}
  /\ y_wm = kMin /\ x_floor = kMin

Handler == EmitKnown \/ EndPush \/ EndWatermark \/ EndFlushFirst \/ EndFlush \/ DrainRow \/ EndDrain

Next ==
  \/ \E t \in Indexes : PushX(t) \/ PushY(t)
  \/ \E p \in Ports, w \in Index : OnWatermark(p, w)
  \/ \E p \in Ports : FlushPort(p)
  \/ Handler
  \/ \E t \in Index : MergeMoves(t) /\ UNCHANGED joinVars
  \/ \E m \in Modes : Reset(m)

Spec == Init /\ [][Next]_vars
-----------------------------------------------------------------------------
(* Properties.                                                             *)

\* The target of an X event, given the events: the last y at or before it,
\* unless y ended before it.
TargetOf(x) == IF \E e \in taken : e.port = Y /\ x.index <= e.index THEN Latest(Y, x.index) ELSE {}

\* The rows are the first X events, in order, each with the target that the
\* events give it: it does not change by an event that came after the row, in
\* a live session or a batch run, whichever port lags.
RowsRight ==
  \A i \in 1 .. Len(out) :
    \E x \in taken : x.port = X /\ x.nth = i - 1 /\ out[i] = PairOf(x, TargetOf(x))

\* Between two calls a row waits only for a y event at its index or above: if
\* one came, y may still send another at the index.  A y event is kept only
\* above every X event that may still come, and none is in a batch run: the
\* limit on them tells a stalled X, never a late y.
WaitsForCause ==
  Idle /\ ended = {} =>
    /\ \A x \in rows : \A e \in taken :
         e.port = Y /\ x.index <= e.index => e.index = x.index /\ floor[Y] <= x.index
    /\ \A e \in events : floor[X] < e.index /\ ~merge_order

\* Once both ports have ended every X event has its row, and the flush went down once.
EndEmitsAll == flushes > 0 => flushes = 1 /\ rows = {} /\ Len(out) = Sent(X)

Ordered(S) == \A d, e \in S : d.nth < e.nth => d.index <= e.index

\* What a load requires of a saved state holds between the calls of a session.
SavedStateLoads == Idle => Ordered(rows) /\ Ordered(events)
=============================================================================
