---------------------------- MODULE OrderedMerge ----------------------------
(***************************************************************************)
(* The input of a node with several producers (dag/ordered_merge_node.h).  *)
(* Each producer feeds a port; the node passes their events on as one      *)
(* stream, in the order of index, then port, then arrival, whatever the    *)
(* order in which the ports call it.                                       *)
(*                                                                         *)
(* A handler (push, on_watermark, flush of a port) runs to its end before  *)
(* the next one starts, but it calls the node below once per event it      *)
(* releases, so here it takes one step per such call: `call` is the        *)
(* handler that runs, `hand` the event it is about to pass on without      *)
(* queueing it.  An event's values are abstracted to its position `nth`    *)
(* among its port's events and its number of columns `width`.              *)
(*                                                                         *)
(* A definition named X_... for a definition X after it is X with a bug:   *)
(* PROJECT.json lists which property fails when it takes X's place.        *)
(***************************************************************************)
EXTENDS MergedStream

CONSTANTS Indexes,      \* the indexes events have
          Widths,       \* the numbers of columns they have
          MaxEvents,    \* bound on the model: the events a port sends
          MaxPending,   \* max_pending: the events that may wait
          InOrder,      \* ports whose producer is in order with the merge
          NeverAhead,   \* ports whose producer is never ahead of the merge
          Modes         \* the values of merge_order_ a run starts with

Unset == -1             \* kUnset

ASSUME OMAssumption ==
  /\ Indexes \subseteq Index
  /\ Widths \subseteq Nat
  /\ MaxEvents \in Nat
  /\ MaxPending \in Nat \ {0}
  /\ InOrder \subseteq Ports
  /\ NeverAhead \subseteq Ports
  /\ Modes \subseteq BOOLEAN

VARIABLES front,            \* front_: every later event of the port is at or above it
          flushed,          \* the ports with flushed_ set (flushed_count_ of them)
          merge_order,      \* merge_order_: one merge feeds the graph in index order
          gfront,           \* gfront_: the highest index on a never-ahead port
          width,            \* width_, kUnset until an event of the port waits
          pending,          \* pending_: the waiting events
          next_seq,         \* next_seq_
          last_forwarded,   \* last_forwarded_: the last watermark sent down
          call,             \* the handler that runs, or "idle"
          hand,             \* the event the handler passes on without queueing it
          error,            \* the error the last handler raised, or "none"
          flushes,          \* how often the node flushed the node below
          clock             \* the index the graph's merge has reached

nodeVars == <<front, flushed, merge_order, gfront, width, pending, next_seq, last_forwarded>>
callVars == <<call, hand, error, flushes>>
vars == <<streamVars, nodeVars, callVars, clock>>

Larger(a, b) == IF a < b THEN b ELSE a

\* What the node keeps of a waiting event, and the event it stands for.
Entry == [index : Index, port : Ports, nth : Nat, seq : Nat, width : Nat]
EventOf(e) == [index |-> e.index, port |-> e.port, nth |-> e.nth]
Sent(p) == Cardinality({e \in taken : e.port = p})

-----------------------------------------------------------------------------
(* The node's helpers.                                                     *)

\* PendGreater, the order of the heap.
HeapBefore(a, b) ==
  \/ a.index < b.index
  \/ a.index = b.index /\ a.port < b.port
  \/ a.index = b.index /\ a.port = b.port /\ a.seq < b.seq

IsTop(e) == e \in pending /\ \A d \in pending \ {e} : HeapBefore(e, d)

\* Bug: a never-ahead port bounds every port, in order with it or not.
Front_AnyPort(q) == IF merge_order THEN Larger(front[q], gfront) ELSE front[q]

\* front(q): every later event on port q has an index at or above this.
Front(q) == IF merge_order /\ q \in InOrder THEN Larger(front[q], gfront) ELSE front[q]

\* Bug: a lower port that may still send at t does not hold t back.
Ready_AnyTie(t, p) == \A q \in Ports \ {p} : t <= Front(q)

\* ready(t, p): no event can still come before (t, port p).
Ready(t, p) ==
  \A q \in Ports \ {p} : IF q < p THEN t < Front(q) ELSE t <= Front(q)

TopReady == \E e \in pending : IsTop(e) /\ Ready(e.index, e.port)

\* note(i, k): what an event says of the indexes still to come.
Note(p, t) ==
  /\ front' = [front EXCEPT ![p] = Larger(@, t)]
  /\ gfront' = IF merge_order /\ p \in NeverAhead THEN Larger(gfront, t) ELSE gfront

\* Bug: the highest front is sent down instead of the lowest.
IsLow_High(w) ==
  LET bounds == {Front(q) : q \in Ports} \cup {e.index : e \in pending}
  IN  w \in bounds /\ \A b \in bounds : b <= w

\* The lowest index the node may still emit.
IsLow(w) ==
  LET bounds == {Front(q) : q \in Ports} \cup {e.index : e \in pending}
  IN  w \in bounds /\ \A b \in bounds : w <= b

\* forward_watermark(), at the end of every handler.
ForwardWatermark ==
  \E low \in Index :
    /\ IsLow(low)
    /\ last_forwarded' = IF low # kMin /\ low > last_forwarded THEN low ELSE last_forwarded

-----------------------------------------------------------------------------
(* The producers.  A producer's indexes never decrease and never fall      *)
(* below its own watermarks; a watermark may, and then says nothing new.   *)
(* When one merge feeds the graph in index order, an in-order producer     *)
(* sends nothing below the merge's index and a never-ahead one nothing     *)
(* above it (CompiledGraph::merge_relation).                               *)

Idle == call = "idle" /\ error = "none"

MayPromise(p, w) ==
  /\ Idle
  /\ p \notin ended
  /\ merge_order /\ p \in NeverAhead => w <= clock

MaySend(p, t) == MayPromise(p, t) /\ floor[p] <= t

\* The merge that feeds the graph reaches index t (kMax: it is exhausted).
MergeTo(t) ==
  /\ Idle
  /\ merge_order
  /\ clock < t
  /\ clock' = t
  /\ floor' = [p \in Ports |-> IF p \in InOrder THEN Larger(floor[p], t) ELSE floor[p]]
  /\ UNCHANGED <<taken, out, ended, nodeVars, callVars>>

-----------------------------------------------------------------------------
(* Port::push.                                                             *)

NewEntry(p, t, w) ==
  [index |-> t, port |-> p, nth |-> Sent(p), seq |-> next_seq, width |-> w]

\* The producer's event reaches the node, which notes its index.
Arrive(p, t) ==
  /\ MaySend(p, t)
  /\ Sent(p) < MaxEvents
  /\ floor' = [floor EXCEPT ![p] = t]
  /\ Note(p, t)
  /\ UNCHANGED <<out, ended, flushed, merge_order, last_forwarded, flushes, clock>>

Accept(e) ==
  /\ taken' = taken \cup {EventOf(e)}
  /\ call' = "push"
  /\ UNCHANGED error

\* Nothing waits and the event is ready: it goes on without a copy.
PushDirect(p, t, w) ==
  /\ Arrive(p, t)
  /\ pending = {} /\ Ready(t, p)'
  /\ LET e == NewEntry(p, t, w) IN Accept(e) /\ hand' = {e}
  /\ UNCHANGED <<width, pending, next_seq>>

\* Bug: the buffer is checked before the event releases what it can.
PushWaiting_CheckFirst(p, t, w) ==
  /\ Arrive(p, t)
  /\ ~(pending = {} /\ Ready(t, p)')
  /\ width[p] \in {Unset, w}
  /\ width' = [width EXCEPT ![p] = w]
  /\ LET e == NewEntry(p, t, w)
     IN  taken' = taken \cup {EventOf(e)} /\ pending' = pending \cup {e}
  /\ next_seq' = next_seq + 1
  /\ IF Cardinality(pending') > MaxPending
     THEN error' = "overflow" /\ UNCHANGED call
     ELSE call' = "push" /\ UNCHANGED error
  /\ UNCHANGED hand

\* Bug: the port's width is not learnt from its first waiting event.
PushWaiting_NoWidth(p, t, w) ==
  /\ Arrive(p, t)
  /\ ~(pending = {} /\ Ready(t, p)')
  /\ width[p] \in {Unset, w}
  /\ LET e == NewEntry(p, t, w) IN Accept(e) /\ pending' = pending \cup {e}
  /\ next_seq' = next_seq + 1
  /\ UNCHANGED <<width, hand>>

PushWaiting(p, t, w) ==
  /\ Arrive(p, t)
  /\ ~(pending = {} /\ Ready(t, p)')
  /\ width[p] \in {Unset, w}
  /\ width' = [width EXCEPT ![p] = w]
  /\ LET e == NewEntry(p, t, w) IN Accept(e) /\ pending' = pending \cup {e}
  /\ next_seq' = next_seq + 1
  /\ UNCHANGED hand

\* The port changed its number of columns: the event is refused after its
\* index was noted.
PushRefused(p, t, w) ==
  /\ Arrive(p, t)
  /\ ~(pending = {} /\ Ready(t, p)')
  /\ width[p] \notin {Unset, w}
  /\ error' = "width"
  /\ UNCHANGED <<taken, width, pending, next_seq, call, hand>>

-----------------------------------------------------------------------------
(* Port::on_watermark and Port::flush.                                     *)

OnWatermark(p, w) ==
  /\ MayPromise(p, w)
  /\ floor' = [floor EXCEPT ![p] = Larger(@, w)]
  /\ front' = [front EXCEPT ![p] = Larger(@, w)]
  /\ call' = "watermark"
  /\ UNCHANGED <<taken, out, ended, flushed, merge_order, gfront, width, pending, next_seq,
                 last_forwarded, hand, error, flushes, clock>>

\* Bug: the end of a port leaves its front where it was.
FlushPort_KeepFront(p) ==
  /\ Idle
  /\ p \notin ended
  /\ merge_order => clock = kMax
  /\ ended' = ended \cup {p}
  /\ floor' = [floor EXCEPT ![p] = kMax]
  /\ flushed' = flushed \cup {p}
  /\ call' = "flush"
  /\ UNCHANGED <<taken, out, front, merge_order, gfront, width, pending, next_seq,
                 last_forwarded, hand, error, flushes, clock>>

FlushPort(p) ==
  /\ Idle
  /\ p \notin ended
  /\ merge_order => clock = kMax
  /\ ended' = ended \cup {p}
  /\ floor' = [floor EXCEPT ![p] = kMax]
  /\ front' = [front EXCEPT ![p] = kMax]
  /\ flushed' = flushed \cup {p}
  /\ call' = "flush"
  /\ UNCHANGED <<taken, out, merge_order, gfront, width, pending, next_seq, last_forwarded,
                 hand, error, flushes, clock>>

-----------------------------------------------------------------------------
(* The rest of a handler: release(), then what the handler does after it.  *)

PassOn(e) ==
  /\ out' = Append(out, EventOf(e))
  /\ UNCHANGED <<taken, floor, ended, front, flushed, merge_order, gfront, width, next_seq,
                 last_forwarded, call, error, flushes, clock>>

PassHand ==
  \E e \in hand : PassOn(e) /\ hand' = {} /\ UNCHANGED pending

\* One round of release(): the top of the heap goes on once it is ready.
ReleaseTop ==
  /\ call # "idle" /\ hand = {}
  /\ \E e \in pending :
       /\ IsTop(e)
       /\ Ready(e.index, e.port)
       /\ PassOn(e)
       /\ pending' = pending \ {e}
  /\ UNCHANGED hand

\* The handler returns, having sent the watermark down.
Return ==
  /\ hand = {} /\ ~TopReady
  /\ ForwardWatermark
  /\ call' = "idle"
  /\ UNCHANGED <<streamVars, front, merge_order, gfront, width, pending, next_seq, hand, clock>>

EndPush ==
  /\ call = "push"
  /\ Return
  /\ error' = IF Cardinality(pending) > MaxPending THEN "overflow" ELSE error
  /\ UNCHANGED <<flushed, flushes>>

EndWatermark ==
  /\ call = "watermark"
  /\ Return
  /\ UNCHANGED <<error, flushed, flushes>>

\* The last port to end flushes the node below and re-arms the ports.
EndFlush ==
  /\ call = "flush"
  /\ Return
  /\ IF flushed = Ports
     THEN flushed' = {} /\ flushes' = flushes + 1
     ELSE UNCHANGED <<flushed, flushes>>
  /\ UNCHANGED error

-----------------------------------------------------------------------------
(* reset(), followed by set_merge_order() for a batch run; and a save of   *)
(* the state with a load of it (state(), assign_waiting()), which a live   *)
(* session does: the waiting events are stored in the order of the heap    *)
(* and numbered again.                                                     *)

Reset(m) ==
  /\ call = "idle"
  /\ Restart
  /\ front' = [p \in Ports |-> kMin]
  /\ flushed' = {}
  /\ merge_order' = m
  /\ gfront' = kMin
  /\ width' = [p \in Ports |-> Unset]
  /\ pending' = {}
  /\ next_seq' = 0
  /\ last_forwarded' = kMin
  /\ error' = "none"
  /\ flushes' = 0
  /\ clock' = kMin
  /\ UNCHANGED <<call, hand>>

\* Bug: the numbering starts below 0.
Renumbered_Below(e) == [e EXCEPT !.seq = Cardinality({d \in pending : HeapBefore(d, e)}) - 1]

\* Bug: a load reads every waiting event's values from the first slot.
Renumbered_FirstSlot(e) ==
  [e EXCEPT !.seq = Cardinality({d \in pending : HeapBefore(d, e)}), !.nth = 0]

Renumbered(e) == [e EXCEPT !.seq = Cardinality({d \in pending : HeapBefore(d, e)})]

SaveAndLoad ==
  /\ Idle
  /\ ~merge_order
  /\ pending' = {Renumbered(e) : e \in pending}
  /\ next_seq' = Cardinality(pending)
  /\ UNCHANGED <<streamVars, front, flushed, merge_order, gfront, width, last_forwarded,
                 callVars, clock>>

-----------------------------------------------------------------------------
Init ==
  /\ SInit
  /\ front = [p \in Ports |-> kMin]
  /\ flushed = {}
  /\ merge_order \in Modes
  /\ gfront = kMin
  /\ width = [p \in Ports |-> Unset]
  /\ pending = {}
  /\ next_seq = 0
  /\ last_forwarded = kMin
  /\ call = "idle"
  /\ hand = {}
  /\ error = "none"
  /\ flushes = 0
  /\ clock = kMin

Handler == PassHand \/ ReleaseTop \/ EndPush \/ EndWatermark \/ EndFlush

Next ==
  \/ \E p \in Ports, t \in Indexes, w \in Widths :
       PushDirect(p, t, w) \/ PushWaiting(p, t, w) \/ PushRefused(p, t, w)
  \/ \E p \in Ports, w \in Index : OnWatermark(p, w)
  \/ \E p \in Ports : FlushPort(p)
  \/ Handler
  \/ \E t \in Index : MergeTo(t)
  \/ \E m \in Modes : Reset(m)
  \/ SaveAndLoad

\* A handler that was called runs to its end.
Spec == Init /\ [][Next]_vars /\ WF_vars(Handler)
-----------------------------------------------------------------------------
(* Properties.                                                             *)

\* The types of the state.
TypeOK ==
  /\ taken \subseteq Event /\ out \in Seq(Event)
  /\ floor \in [Ports -> Index] /\ ended \subseteq Ports
  /\ front \in [Ports -> Index] /\ flushed \subseteq Ports
  /\ merge_order \in BOOLEAN /\ gfront \in Index
  /\ width \in [Ports -> Widths \cup {Unset}]
  /\ pending \subseteq Entry /\ next_seq \in Nat /\ last_forwarded \in Index
  /\ call \in {"idle", "push", "watermark", "flush"} /\ hand \subseteq Entry
  /\ error \in {"none", "width", "overflow"} /\ flushes \in Nat
  /\ clock \in Index

\* The events go on in the order of index, port and arrival, whatever the order
\* in which the ports called the node: the node below sees the same stream in a
\* batch run and in a live session whose inputs run ahead of each other.
OutputOrdered ==
  \A i, j \in 1 .. Len(out) : i < j => Before(out[i], out[j])

\* A watermark is a promise: no event goes on below one that was sent down, so
\* a bar the node below closed on it stays closed.
WatermarkKept ==
  [][Len(out') > Len(out) => last_forwarded <= out'[Len(out')].index]_vars

\* The events accepted and not passed on are the ones the node holds: none is
\* lost, passed on twice or mixed up with another, through releases and loads.
NothingLost == Waiting = {EventOf(e) : e \in pending \cup hand}

\* Once every port has ended, every waiting event goes on before the flush goes
\* down, once (the comment of flush_port).
FlushReleasesAll == flushes > 0 => flushes = 1 /\ Waiting = {}

\* Between two calls of a live session the first waiting event waits for a
\* producer that may still send an earlier one: nothing waits in vain.  Also
\* after an overflow: the error says that a stream is stalled, and the event
\* that releases the others does not raise it.
NothingWaitsInVain ==
  call = "idle" /\ error # "width" /\ ~merge_order =>
    \A e \in pending : IsTop(e) => ~Final(e)

\* What a load requires of the waiting events of a saved state holds of every
\* state a live session can save, so a saved session always loads.
SavedStateLoads ==
  \A e \in pending : e.width = width[e.port] /\ e.index <= front[e.port]

\* Once every producer has ended, every event the node accepted goes on.
EndDelivers == ended = Ports ~> Waiting = {}
=============================================================================
