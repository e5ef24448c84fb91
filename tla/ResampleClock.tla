--------------------------- MODULE ResampleClock ---------------------------
(***************************************************************************)
(* A Resample driven by a clock stream (ResampleMode::ByClock of           *)
(* dag/resample_node.h).  Port 0 brings values, port 1 ticks; the bar of a *)
(* tick t holds the values above the tick before it, up to and with t.     *)
(* The ports may lag each other, so the node proves each step from how far *)
(* the ports have come, never from the order of arrival.                   *)
(*                                                                         *)
(* A handler takes one step per bar it emits: `call` is the handler that   *)
(* runs, `hand` the value it has yet to place.  A bar is the set of its    *)
(* values; the reducers, the columns and NaN values are left out.          *)
(***************************************************************************)
EXTENDS Integers, Sequences, FiniteSets

CONSTANTS kMin, kMax,    \* the lowest and the highest index
          Indexes,       \* the indexes that values and ticks have
          MaxEvents,     \* bound on the model: the values, and the ticks, sent
          Skip,          \* whether an empty bar is left out (fill "skip")
          MaxAge,        \* {max_age}, or {} without one (-1 in the code)
          InOrder,       \* ports in order with the merge of the inputs
          NeverAhead,    \* ports never ahead of it
          Modes          \* the values of merge_order_ a run starts with

Value == 0
Tick == 1
Ports == {Value, Tick}
Index == kMin .. kMax
None == kMin - 1         \* a frontier not known yet (has_..._ is false)

\* What the constants must be; MCNodes assumes it of its instance.
ClockAssumption ==
  /\ kMin \in Int /\ kMax \in Int /\ kMin < kMax
  /\ Indexes \subseteq Index /\ MaxEvents \in Nat
  /\ Skip \in BOOLEAN /\ MaxAge \subseteq Nat
  /\ InOrder \subseteq Ports /\ NeverAhead \subseteq Ports
  /\ Modes \subseteq BOOLEAN

VARIABLES taken,          \* the values sent
          ticked,         \* the indexes of the ticks sent
          sent,           \* how many events each port sent
          out,            \* the bars emitted
          floor,          \* floor[p]: port p sends nothing below this any more
          ended,          \* the ports that sent their flush
          front,          \* vfront_ and cfront_
          gfront,         \* gfront_
          fwd,            \* fwd_, the last watermark sent down
          ticks,          \* ticks_: the pending ticks
          waiting,        \* buf_idx_, buf_vals_: the values that wait for the clock
          bar,            \* accums_: the values of the current bar
          last_tick,      \* last_tick_
          last_finite,    \* last_finite_index_
          merge_order,    \* merge_order_
          clock,          \* the index the graph's merge has reached
          call,           \* the handler that runs, or "idle"
          hand            \* the value the handler has yet to place

streamVars == <<taken, ticked, sent, floor, ended, clock>>
barVars == <<ticks, waiting, bar, last_tick, last_finite>>
vars == <<streamVars, out, front, gfront, fwd, barVars, merge_order, call, hand>>

ValueEvent == [index : Index, nth : Nat]
Larger(a, b) == IF a < b THEN b ELSE a
First(S) == CHOOSE x \in S : \A y \in S : x <= y
Last(S) == CHOOSE x \in S : \A y \in S : y <= x
UpTo(S, t) == {v \in S : v.index <= t}

-----------------------------------------------------------------------------
(* The frontiers.                                                          *)

\* note_front.
Note(p, k) ==
  /\ front' = [front EXCEPT ![p] = Larger(@, k)]
  /\ gfront' = IF p \in NeverAhead THEN Larger(gfront, k) ELSE gfront

\* How far port p has come: its front or, when one merge feeds the graph in
\* index order and p is in order with it, that of the merge.
Reach(p) == IF merge_order /\ p \in InOrder THEN Larger(front[p], gfront) ELSE front[p]

\* Bug: a value at the tick may still come.
ValuePast_At(t) == t <= Reach(Value)

\* value_past: no value at or below t can still come.
ValuePast(t) == t < Reach(Value)

\* clock_reaches: every tick still to come is at or above k.
ClockReaches(k) == k <= Reach(Tick)

\* joins_now.
JoinsNow(k) == IF ticks = {} THEN ClockReaches(k) ELSE k <= First(ticks)

ReadyTick(t) == t \in ticks /\ t = First(ticks) /\ ValuePast(t)

-----------------------------------------------------------------------------
(* The producers, as the node may meet them.                               *)

Idle == call = "idle"

MayPromise(p, w) ==
  /\ Idle
  /\ p \notin ended
  /\ merge_order /\ p \in NeverAhead => w <= clock

MaySend(p, t) == MayPromise(p, t) /\ floor[p] <= t

MergeTo(t) ==
  /\ Idle /\ merge_order
  /\ clock < t
  /\ clock' = t
  /\ floor' = [p \in Ports |-> IF p \in InOrder THEN Larger(floor[p], t) ELSE floor[p]]
  /\ UNCHANGED <<taken, ticked, sent, ended, out, front, gfront, fwd, barVars, merge_order, call, hand>>

Arrive(p, t) ==
  /\ MaySend(p, t)
  /\ sent[p] < MaxEvents
  /\ sent' = [sent EXCEPT ![p] = @ + 1]
  /\ floor' = [floor EXCEPT ![p] = t]
  /\ Note(p, t)
  /\ UNCHANGED <<out, ended, fwd, bar, waiting, last_tick, last_finite, merge_order, clock>>

-----------------------------------------------------------------------------
(* The handlers of the ports.                                              *)

\* push_by_clock_value, up to settle_clock().
PushValue(t) ==
  /\ Arrive(Value, t)
  /\ LET v == [index |-> t, nth |-> sent[Value]]
     IN  taken' = taken \cup {v} /\ hand' = {v}
  /\ call' = "value"
  /\ UNCHANGED <<ticked, ticks>>

\* push_by_clock_tick: a tick at or below the last one makes no bar.
PushTick(t) ==
  /\ Arrive(Tick, t)
  /\ ticked' = ticked \cup {t}
  /\ ticks' = IF (ticks = {} /\ last_tick < t) \/ (ticks # {} /\ Last(ticks) < t)
              THEN ticks \cup {t} ELSE ticks
  /\ call' = "tick"
  /\ UNCHANGED <<taken, hand>>

\* on_clock_watermark.
OnWatermark(p, w) ==
  /\ MayPromise(p, w)
  /\ floor' = [floor EXCEPT ![p] = Larger(@, w)]
  /\ Note(p, w)
  /\ call' = "watermark"
  /\ UNCHANGED <<taken, ticked, sent, ended, clock, out, fwd, barVars, merge_order, hand>>

\* ClockPort::flush: the second one flushes the node.
FlushPort(p) ==
  /\ Idle
  /\ p \notin ended
  /\ merge_order => clock = kMax
  /\ ended' = ended \cup {p}
  /\ floor' = [floor EXCEPT ![p] = kMax]
  /\ call' = IF ended' = Ports THEN "flush" ELSE call
  /\ UNCHANGED <<taken, ticked, sent, clock, out, front, gfront, fwd, barVars, merge_order, hand>>

-----------------------------------------------------------------------------
(* settle_clock and emit_clock_bar.                                        *)

\* The newest value added to a bar, which max_age measures from.
Freshest(S) == Last({last_finite} \cup {v.index : v \in S})

\* A bar whose newest value is too old holds no value.
Stale(t, S) == Freshest(S) # None /\ \E a \in MaxAge : t - Freshest(S) > a

\* The bar of tick t: the values S, unless they are too old.
EmitBar(t, S) ==
  out' = IF Stale(t, S) THEN Append(out, [index |-> t, values |-> {}, stale |-> TRUE])
         ELSE IF S = {} /\ Skip THEN out
         ELSE Append(out, [index |-> t, values |-> S, stale |-> FALSE])

\* A tick emits its bar, with the values that waited up to it: once it is
\* proven complete or, at the end of the input, in any case.
EmitTick ==
  /\ call # "idle"
  /\ \E t \in ticks :
       /\ t = First(ticks)
       /\ ValuePast(t) \/ call = "flush"
       /\ EmitBar(t, bar \cup UpTo(waiting, t))
       /\ last_finite' = Freshest(bar \cup UpTo(waiting, t))
       /\ waiting' = waiting \ UpTo(waiting, t)
       /\ bar' = {}
       /\ ticks' = ticks \ {t}
       /\ last_tick' = t
  /\ UNCHANGED <<streamVars, front, gfront, fwd, merge_order, call, hand>>

\* The values that may join the current bar once no tick is ready.
Joining == {v \in waiting : JoinsNow(v.index)}

Settled == ~\E t \in ticks : ReadyTick(t)

\* The rest of push_by_clock_value: the value joins the current bar, or waits.
EndValue ==
  /\ call = "value" /\ Settled
  /\ \E v \in hand :
       IF waiting \subseteq Joining /\ JoinsNow(v.index)
       THEN bar' = bar \cup Joining \cup {v} /\ waiting' = waiting \ Joining
       ELSE bar' = bar \cup Joining /\ waiting' = (waiting \ Joining) \cup {v}
  /\ last_finite' = Freshest(bar')
  /\ hand' = {}
  /\ call' = "idle"
  /\ UNCHANGED <<streamVars, out, front, gfront, fwd, ticks, last_tick, merge_order>>

Settle ==
  /\ Settled
  /\ bar' = bar \cup Joining
  /\ waiting' = waiting \ Joining
  /\ last_finite' = Freshest(bar')
  /\ call' = "idle"
  /\ UNCHANGED <<streamVars, out, front, gfront, ticks, last_tick, merge_order, hand>>

EndTick == call = "tick" /\ Settle /\ UNCHANGED fwd

\* The lowest index a bar may still have goes down: the first pending tick, or
\* how far the clock has come.
EndWatermark ==
  /\ call = "watermark" /\ Settle
  /\ fwd' = Larger(fwd, IF ticks # {} THEN First(ticks) ELSE Reach(Tick))

\* The end of flush(): the values after the last tick are dropped.
EndFlush ==
  /\ call = "flush" /\ ticks = {}
  /\ waiting' = {} /\ bar' = {}
  /\ call' = "idle"
  /\ UNCHANGED <<streamVars, out, front, gfront, fwd, ticks, last_tick, last_finite, merge_order, hand>>

\* reset(), and set_merge_order() for a batch run.
Reset(m) ==
  /\ Idle
  /\ taken' = {} /\ ticked' = {} /\ sent' = [p \in Ports |-> 0]
  /\ floor' = [p \in Ports |-> kMin] /\ ended' = {} /\ clock' = kMin
  /\ out' = <<>>
  /\ front' = [p \in Ports |-> None] /\ gfront' = None /\ fwd' = None
  /\ ticks' = {} /\ waiting' = {} /\ bar' = {}
  /\ last_tick' = None /\ last_finite' = None
  /\ merge_order' = m
  /\ UNCHANGED <<call, hand>>

-----------------------------------------------------------------------------
Init ==
  /\ taken = {} /\ ticked = {} /\ sent = [p \in Ports |-> 0]
  /\ floor = [p \in Ports |-> kMin] /\ ended = {} /\ clock = kMin
  /\ out = <<>>
  /\ front = [p \in Ports |-> None] /\ gfront = None /\ fwd = None
  /\ ticks = {} /\ waiting = {} /\ bar = {}
  /\ last_tick = None /\ last_finite = None
  /\ merge_order \in Modes
  /\ call = "idle" /\ hand = {}

Handler == EmitTick \/ EndValue \/ EndTick \/ EndWatermark \/ EndFlush

Next ==
  \/ \E t \in Indexes : PushValue(t) \/ PushTick(t)
  \/ \E p \in Ports, w \in Index : OnWatermark(p, w)
  \/ \E p \in Ports : FlushPort(p)
  \/ Handler
  \/ \E t \in Index : MergeTo(t)
  \/ \E m \in Modes : Reset(m)

Spec == Init /\ [][Next]_vars
-----------------------------------------------------------------------------
(* Properties.                                                             *)

\* What the bar of tick t holds, whatever the order of arrival.
BarValues(t) == {v \in taken : v.index <= t /\ \A u \in ticked : u < t => u < v.index}
BarStale(t) ==
  /\ \E v \in taken : v.index <= t
  /\ \E a \in MaxAge : \A v \in taken : v.index <= t => t - v.index > a
HasBar(t) == t \in ticked /\ (~Skip \/ BarValues(t) # {} \/ BarStale(t))

\* The bars are those of the ticks and values sent so far and stay so: a value
\* in the bar of a later tick, in no bar, in two, or a bar that came too early
\* would differ from the batch run's.
BarsRight ==
  \A i \in 1 .. Len(out) :
    /\ HasBar(out[i].index)
    /\ out[i].stale = BarStale(out[i].index)
    /\ out[i].values = IF out[i].stale THEN {} ELSE BarValues(out[i].index)
    /\ \A t \in Index : HasBar(t) /\ t < out[i].index => \E j \in 1 .. i - 1 : out[j].index = t
    /\ \A j \in 1 .. i - 1 : out[j].index < out[i].index

\* Once both ports have ended, every tick has had its bar.
EndEmitsAll ==
  ended = Ports /\ call = "idle" =>
    \A t \in Index : HasBar(t) => \E i \in 1 .. Len(out) : out[i].index = t

\* Between two calls of a live session a tick waits only while its bar may
\* still get a value, and a value only while a tick below it may come.
WaitsForCause ==
  Idle /\ ~merge_order /\ ended = {} =>
    /\ \A t \in ticks : floor[Value] <= First(ticks)
    /\ \A v \in waiting : (ticks = {} /\ floor[Tick] < v.index) \/ \E t \in ticks : t < v.index

=============================================================================
