------------------------ MODULE ResampleClockProofs ------------------------
(***************************************************************************)
(* Proofs about ResampleClock, for every range of indexes, every number of *)
(* events, with and without max_age, and every arrangement of the ports:   *)
(* the bars are those of the ticks and values alone, none goes below a     *)
(* watermark, all are out at the end, and nothing waits in vain.           *)
(***************************************************************************)
EXTENDS ResampleClock, WellFoundedInduction, TLAPS

-----------------------------------------------------------------------------
(* The invariant.                                                          *)

Known == Index \cup {None}
BarRow == [index : Index, values : SUBSET ValueEvent, stale : BOOLEAN]

TypeOK ==
  /\ taken \subseteq ValueEvent /\ ticked \subseteq Index
  /\ sent \in [Ports -> Nat] /\ floor \in [Ports -> Index]
  /\ ended \subseteq Ports /\ clock \in Index
  /\ out \in Seq(BarRow)
  /\ front \in [Ports -> Known] /\ gfront \in Known /\ fwd \in Known
  /\ ticks \subseteq Index /\ waiting \subseteq ValueEvent /\ bar \subseteq ValueEvent
  /\ last_tick \in Known /\ last_finite \in Known
  /\ merge_order \in BOOLEAN
  /\ call \in {"idle", "value", "tick", "watermark", "flush"}
  /\ hand \subseteq ValueEvent
  /\ \A v \in taken : v.index \in Indexes

\* What a call knows: a port that has ended makes no calls, the node flushes
\* once both have, and only a value is carried through a call.
Calls ==
  /\ call \in {"value", "tick", "watermark"} => ended # Ports
  /\ call = "flush" => ended = Ports
  /\ call # "value" => hand = {}
  /\ \A v \in hand : v.index = floor[Value] /\ \A u \in hand : u = v

\* A front is a promise of its port; in a batch run the merge's front is one
\* of every port that is in order with it.
Fronts ==
  /\ \A p \in Ports : front[p] <= floor[p]
  /\ merge_order => gfront <= clock /\ \A p \in InOrder : clock <= floor[p]
  /\ fwd <= floor[Tick]

\* The pending ticks are those above the last one that made its bar.
TicksKept ==
  /\ \A t \in ticked : t <= floor[Tick]
  /\ ticks = {t \in ticked : last_tick < t}
  /\ last_tick = None \/ last_tick \in ticked
  /\ \A t \in ticks : fwd <= t

\* k is the highest index of S, None if S is empty.
Newest(k, S) ==
  /\ \A v \in S : v.index <= k
  /\ k = None \/ \E v \in S : v.index = k

\* The values above the last tick are in the current bar, wait, or are in hand,
\* until the last call drops them; the current bar has no value above a tick.
ValuesKept ==
  /\ \A v \in taken : v.index <= floor[Value]
  /\ ended # Ports => last_tick < floor[Value]
  /\ ended = Ports /\ call = "idle" => ticks = {} /\ waiting = {} /\ bar = {}
  /\ ended # Ports \/ call # "idle" =>
       /\ {v \in taken : last_tick < v.index} = bar \cup waiting \cup hand
       /\ Newest(last_finite, {v \in taken : v.index <= last_tick \/ v \in bar})
       /\ \A v \in bar : v.index <= floor[Tick] /\ \A t \in ticks : v.index <= t

\* The bars up to the last tick are out.
BarsOut ==
  /\ \A i \in 1 .. Len(out) :
       /\ out[i].index <= last_tick
       /\ HasBar(out[i].index)
       /\ out[i].stale = BarStale(out[i].index)
       /\ out[i].values = IF out[i].stale THEN {} ELSE BarValues(out[i].index)
  /\ \A i \in 1 .. Len(out) : \A j \in 1 .. i - 1 : out[j].index < out[i].index
  /\ \A t \in Index : HasBar(t) /\ t <= last_tick => \E i \in 1 .. Len(out) : out[i].index = t

\* In a live session a front is all that its port has promised, and no value
\* waits that could join the current bar.
Live ==
  ~merge_order =>
    /\ \A p \in Ports \ ended : front[p] = floor[p] \/ (front[p] = None /\ floor[p] = kMin)
    /\ Idle /\ ended = {} =>
         /\ \A t \in ticks : ~ReadyTick(t)
         /\ \A v \in waiting : ~JoinsNow(v.index)

IInv ==
  /\ ClockAssumption /\ TypeOK
  /\ Calls /\ Fronts /\ TicksKept /\ ValuesKept /\ BarsOut /\ Live

-----------------------------------------------------------------------------
(* Indexes, and the lowest and the highest of a set of them.               *)

LEMMA Indices ==
  ASSUME ClockAssumption
  PROVE  /\ kMin \in Index /\ kMax \in Index /\ None \in Known /\ None \notin Index
         /\ \A k \in Known : k \in Int /\ None <= k /\ k <= kMax
         /\ \A k \in Index : k \in Known /\ kMin <= k /\ None < k
         /\ Value \in Ports /\ Tick \in Ports /\ Value # Tick /\ \A p \in Ports : p = Value \/ p = Tick
BY DEF ClockAssumption, Index, None, Known, Ports, Value, Tick

LEMMA LeastNatural ==
  ASSUME NEW S, S \subseteq Nat, S # {}
  PROVE  \E m \in S : \A k \in S : m <= k
<1> DEFINE R == OpToRel(<, Nat)
<1>1. IsWellFoundedOn(R, Nat)
  BY NatLessThanWellFounded
<1>2. \A x, y \in Nat : <<x, y>> \in R <=> x < y
  BY DEF OpToRel
<1> HIDE DEF R
<1>3. PICK m \in S : \A k \in S : <<k, m>> \notin R
  BY <1>1, WFMin
<1>4. \A k \in S : k \in Nat /\ m \in Nat /\ ~(k < m)
  BY <1>2, <1>3
<1> QED BY <1>4

LEMMA FirstIs ==
  ASSUME ClockAssumption, NEW S, S \subseteq Known, S # {}
  PROVE  First(S) \in S /\ \A y \in S : First(S) <= y
<1> DEFINE D == {x - None : x \in S}
<1>1. None \in Int /\ \A x \in S : x \in Int /\ x - None \in Nat
  BY Indices
<1>2. D \subseteq Nat /\ D # {}
  BY <1>1
<1>3. PICK m \in D : \A k \in D : m <= k
  BY <1>2, LeastNatural
<1>4. PICK x \in S : m = x - None
  BY <1>3
<1>5. \A y \in S : x - None <= y - None
  BY <1>3, <1>4
<1>6. \A y \in S : x <= y
  BY <1>1, <1>5
<1> QED BY <1>6 DEF First

LEMMA LastIs ==
  ASSUME ClockAssumption, NEW S, S \subseteq Known, S # {}
  PROVE  Last(S) \in S /\ \A y \in S : y <= Last(S)
<1> DEFINE D == {kMax - x : x \in S}
<1>1. kMax \in Int /\ \A x \in S : x \in Int /\ kMax - x \in Nat
  BY Indices
<1>2. D \subseteq Nat /\ D # {}
  BY <1>1
<1>3. PICK m \in D : \A k \in D : m <= k
  BY <1>2, LeastNatural
<1>4. PICK x \in S : m = kMax - x
  BY <1>3
<1>5. \A y \in S : kMax - x <= kMax - y
  BY <1>3, <1>4
<1>6. \A y \in S : y <= x
  BY <1>1, <1>5
<1> QED BY <1>6 DEF Last

LEMMA TicksFirst ==
  ASSUME IInv, ticks # {}
  PROVE  First(ticks) \in ticks /\ \A t \in ticks : First(ticks) <= t
<1>1. ClockAssumption /\ ticks \subseteq Known
  BY Indices DEF IInv, TypeOK
<1> QED BY <1>1, FirstIs

\* A port has come no further than it promised.
LEMMA ReachKept ==
  ASSUME IInv, NEW p \in Ports
  PROVE  Reach(p) \in Known /\ Reach(p) <= floor[p]
<1>1. /\ front[p] \in Known /\ gfront \in Known /\ clock \in Known /\ floor[p] \in Known
      /\ front[p] <= floor[p] /\ (merge_order /\ p \in InOrder => gfront <= clock /\ clock <= floor[p])
  BY Indices DEF IInv, TypeOK, Fronts
<1>2. ClockAssumption
  BY DEF IInv
<1> QED BY <1>1, <1>2, Indices DEF Reach, Larger

\* What the newest value of a bar adds to what was known.
LEMMA FreshestIs ==
  ASSUME ClockAssumption, last_finite \in Known, NEW T, T \subseteq ValueEvent,
         NEW S, S \subseteq ValueEvent, Newest(last_finite, T)
  PROVE  Freshest(S) \in Known /\ Newest(Freshest(S), T \cup S)
<1> DEFINE K == {last_finite} \cup {v.index : v \in S}
           f == Last(K)
<1>1. \A v \in ValueEvent : v.index \in Index
  BY DEF ValueEvent
<1>2. K \subseteq Known /\ K # {}
  BY <1>1, Indices
<1>3. f \in K /\ \A y \in K : y <= f
  BY <1>2, LastIs
<1>4. f = Freshest(S)
  BY DEF Freshest
<1> HIDE DEF f
<1>5. f \in Known /\ last_finite <= f /\ \A v \in S : v.index <= f
  BY <1>2, <1>3
<1>6. \A k \in Known : k \in Int
  BY Indices
<1>7. ASSUME NEW v \in T \cup S PROVE v.index <= f
  <2>1. CASE v \in T
    <3>1. v.index <= last_finite /\ v.index \in Int
      BY <2>1, <1>1, <1>6, Indices DEF Newest
    <3> QED BY <3>1, <1>5, <1>6
  <2> QED BY <2>1, <1>5, <1>7
<1>8. f = None \/ \E v \in T \cup S : v.index = f
  BY <1>3 DEF Newest
<1> QED BY <1>4, <1>5, <1>7, <1>8 DEF Newest

-----------------------------------------------------------------------------
(* Events above the last tick change no bar up to it.                      *)

LEMMA BarStable ==
  ASSUME IInv, taken \subseteq taken', taken' \subseteq ValueEvent,
         \A v \in taken' : v \in taken \/ last_tick < v.index,
         ticked \subseteq ticked', ticked' \subseteq Index,
         \A u \in ticked' : u \in ticked \/ last_tick < u,
         NEW t \in Index, t <= last_tick
  PROVE  /\ BarValues(t)' = BarValues(t) /\ BarStale(t)' = BarStale(t) /\ HasBar(t)' = HasBar(t)
<1>1. /\ last_tick \in Int /\ t \in Int /\ \A u \in ticked' : u \in Int
      /\ \A v \in taken' : v.index \in Int
  <2>1. ClockAssumption /\ last_tick \in Known
    BY DEF IInv, TypeOK
  <2>2. \A v \in taken' : v.index \in Index
    BY DEF ValueEvent
  <2> QED BY <2>1, <2>2, Indices
<1>2. /\ \A v \in taken' : v.index <= t => v \in taken
      /\ \A u \in ticked' : u <= t => u \in ticked
  BY <1>1
<1>3. BarValues(t)' = {v \in taken' : v.index <= t /\ \A u \in ticked' : u < t => u < v.index}
  BY DEF BarValues
<1>4. BarValues(t)' = BarValues(t)
  BY <1>1, <1>2, <1>3 DEF BarValues
<1>5. BarStale(t)' = BarStale(t)
  <2>1. BarStale(t)' <=> /\ \E v \in taken' : v.index <= t
                         /\ \E a \in MaxAge : \A v \in taken' : v.index <= t => t - v.index > a
    BY DEF BarStale
  <2>2. BarStale(t) <=> /\ \E v \in taken : v.index <= t
                        /\ \E a \in MaxAge : \A v \in taken : v.index <= t => t - v.index > a
    BY DEF BarStale
  <2>3. BarStale(t)' <=> BarStale(t)
    BY <2>1, <2>2, <1>2, Zenon
  <2>4. BarStale(t)' \in BOOLEAN /\ BarStale(t) \in BOOLEAN
    BY Zenon DEF BarStale
  <2> QED BY <2>3, <2>4
<1>6. HasBar(t)' = HasBar(t)
  <2>1. HasBar(t)' <=> t \in ticked' /\ (~Skip \/ BarValues(t)' # {} \/ BarStale(t)')
    BY DEF HasBar
  <2>2. HasBar(t)' <=> HasBar(t)
    BY <2>1, <1>1, <1>2, <1>4, <1>5 DEF HasBar
  <2>3. HasBar(t)' \in BOOLEAN /\ HasBar(t) \in BOOLEAN
    BY Zenon DEF HasBar
  <2> QED BY <2>2, <2>3
<1> QED BY <1>4, <1>5, <1>6

LEMMA OutKept ==
  ASSUME IInv, taken \subseteq taken', taken' \subseteq ValueEvent,
         \A v \in taken' : v \in taken \/ last_tick < v.index,
         ticked \subseteq ticked', ticked' \subseteq Index,
         \A u \in ticked' : u \in ticked \/ last_tick < u,
         UNCHANGED <<out, last_tick>>
  PROVE  BarsOut'
<1>1. \A t \in Index : t <= last_tick =>
        BarValues(t)' = BarValues(t) /\ BarStale(t)' = BarStale(t) /\ HasBar(t)' = HasBar(t)
  BY BarStable
<1>2. /\ BarsOut /\ \A i \in 1 .. Len(out) : out[i].index \in Index
  <2>1. BarsOut /\ out \in Seq(BarRow)
    BY DEF IInv, TypeOK
  <2>2. ASSUME NEW i \in 1 .. Len(out) PROVE out[i] \in BarRow
    BY <2>1
  <2>3. \A r \in BarRow : r.index \in Index
    BY DEF BarRow
  <2> QED BY <2>1, <2>2, <2>3
<1>3. ASSUME NEW i \in 1 .. Len(out)
      PROVE  /\ out[i].index <= last_tick
             /\ HasBar(out[i].index)'
             /\ out[i].stale = BarStale(out[i].index)'
             /\ out[i].values = IF out[i].stale THEN {} ELSE BarValues(out[i].index)'
  <2> DEFINE t == out[i].index
  <2>1. t' = t
    OBVIOUS
  <2>2. /\ t \in Index /\ t <= last_tick /\ HasBar(t) /\ out[i].stale = BarStale(t)
        /\ out[i].values = IF out[i].stale THEN {} ELSE BarValues(t)
    BY <1>2 DEF BarsOut
  <2> HIDE DEF t
  <2>3. BarValues(t)' = BarValues(t) /\ BarStale(t)' = BarStale(t) /\ HasBar(t)' = HasBar(t)
    BY <1>1, <2>1, <2>2 DEF BarValues, BarStale, HasBar
  <2> QED BY <2>1, <2>2, <2>3 DEF t
<1>4. \A i \in 1 .. Len(out) : \A j \in 1 .. i - 1 : out[j].index < out[i].index
  BY <1>2 DEF BarsOut
<1>5. \A t \in Index : HasBar(t)' /\ t <= last_tick => \E i \in 1 .. Len(out) : out[i].index = t
  BY <1>1, <1>2 DEF BarsOut
<1>6. BarsOut' <=> 
        /\ \A i \in 1 .. Len(out)' :
             /\ out'[i].index <= last_tick'
             /\ HasBar(out[i].index)'
             /\ out'[i].stale = BarStale(out[i].index)'
             /\ out'[i].values = IF out'[i].stale THEN {} ELSE BarValues(out[i].index)'
        /\ \A i \in 1 .. Len(out)' : \A j \in 1 .. i - 1 : out'[j].index < out'[i].index
        /\ \A t \in Index : HasBar(t)' /\ t <= last_tick' => \E i \in 1 .. Len(out)' : out'[i].index = t
  BY Zenon DEF BarsOut
<1> QED BY <1>3, <1>4, <1>5, <1>6

-----------------------------------------------------------------------------
(* The calls that bring an event, a watermark or an end.                   *)

LEMMA InitInv ==
  ASSUME ClockAssumption, Init
  PROVE  IInv
<1>1. TypeOK
  <2>1. \A p \in Ports : None \in Known /\ kMin \in Index /\ 0 \in Nat
    BY Indices
  <2>2. out \in Seq(BarRow) /\ Len(out) = 0
    BY DEF Init
  <2> QED BY <2>1, <2>2, Indices DEF Init, TypeOK, ClockAssumption
<1>2. Calls /\ Fronts /\ TicksKept /\ ValuesKept
  BY Indices DEF Init, Calls, Fronts, TicksKept, ValuesKept, Newest, ClockAssumption
<1>3. BarsOut
  <2>1. Len(out) = 0 /\ ticked = {}
    BY DEF Init
  <2> QED BY <2>1 DEF BarsOut, HasBar
<1>4. Live
  BY DEF Init, Live, ReadyTick
<1> QED BY <1>1, <1>2, <1>3, <1>4 DEF IInv

\* The parts of the invariant that a step leaves alone.
LEMMA NoteFacts ==
  ASSUME IInv, NEW p \in Ports, NEW k \in Index, MayPromise(p, k), Note(p, k)
  PROVE  /\ front' \in [Ports -> Known] /\ gfront' \in Known
         /\ front'[p] = Larger(front[p], k) /\ \A q \in Ports \ {p} : front'[q] = front[q]
         /\ merge_order => gfront' <= clock
<1>1. front \in [Ports -> Known] /\ gfront \in Known /\ k \in Known /\ clock \in Known
  BY Indices DEF IInv, TypeOK
<1>2. Larger(front[p], k) \in Known /\ Larger(gfront, k) \in Known
  BY <1>1 DEF Larger
<1>3. merge_order => gfront <= clock /\ (p \in NeverAhead => k <= clock)
  BY DEF IInv, Fronts, MayPromise
<1> QED BY <1>1, <1>2, <1>3 DEF Note, Larger

LEMMA PushValueKeeps ==
  ASSUME IInv, NEW t \in Indexes, PushValue(t)
  PROVE  IInv'
<1> DEFINE v == [index |-> t, nth |-> sent[Value]]
<1>1. /\ ClockAssumption /\ t \in Index /\ t \in Known /\ TypeOK
  BY Indices DEF IInv, ClockAssumption
<1>2. /\ v \in ValueEvent /\ v.index = t
  BY <1>1, Indices DEF TypeOK, ValueEvent
<1>3. /\ taken' = taken \cup {v} /\ hand' = {v} /\ call' = "value"
      /\ UNCHANGED <<ticked, ticks, out, ended, fwd, bar, waiting, last_tick, last_finite, merge_order, clock>>
      /\ floor' = [floor EXCEPT ![Value] = t] /\ sent' = [sent EXCEPT ![Value] = @ + 1]
      /\ MayPromise(Value, t) /\ Note(Value, t) /\ floor[Value] <= t
      /\ call = "idle" /\ Value \notin ended
  BY DEF PushValue, Arrive, MaySend, MayPromise, Idle
<1> HIDE DEF v
<1>4. /\ front' \in [Ports -> Known] /\ gfront' \in Known
      /\ front'[Value] = Larger(front[Value], t) /\ front'[Tick] = front[Tick]
      /\ merge_order => gfront' <= clock
  BY <1>1, <1>3, Indices, NoteFacts
<1>5. /\ floor' \in [Ports -> Index] /\ floor'[Value] = t /\ floor'[Tick] = floor[Tick]
      /\ floor[Value] \in Int /\ t \in Int /\ floor[Tick] \in Int
      /\ front[Value] \in Int /\ clock \in Int /\ last_tick \in Int
  BY <1>1, <1>3, Indices DEF TypeOK
<1>6. TypeOK'
  <2>1. sent' \in [Ports -> Nat]
    <3>1. sent \in [Ports -> Nat] /\ sent[Value] + 1 \in Nat
      BY <1>1, Indices DEF TypeOK
    <3>2. sent' = [sent EXCEPT ![Value] = sent[Value] + 1]
      BY <1>3
    <3> QED BY <3>1, <3>2
  <2>2. taken' \subseteq ValueEvent /\ \A u \in taken' : u.index \in Indexes
    BY <1>1, <1>2, <1>3 DEF TypeOK
  <2> QED BY <1>1, <1>2, <1>3, <1>4, <1>5, <2>1, <2>2 DEF TypeOK
<1>7. Calls'
  BY <1>2, <1>3, <1>5, Indices DEF Calls
<1>8. Fronts'
  <2>1. /\ \A p \in Ports : front[p] <= floor[p] /\ fwd <= floor[Tick]
        /\ merge_order => \A p \in InOrder : clock <= floor[p]
        /\ InOrder \subseteq Ports
    BY <1>1, Indices DEF IInv, Fronts, ClockAssumption
  <2>2. \A p \in Ports : front'[p] <= floor'[p]
    BY <2>1, <1>3, <1>4, <1>5, Indices, <1>1 DEF Larger
  <2>3. merge_order => \A p \in InOrder : clock <= floor'[p]
    BY <2>1, <1>3, <1>5, Indices, <1>1
  <2> QED BY <2>1, <2>2, <2>3, <1>3, <1>4, <1>5 DEF Fronts
<1>9. TicksKept'
  BY <1>3, <1>5 DEF IInv, TicksKept
<1>10. ended # Ports /\ last_tick < floor[Value] /\ last_tick < t
  BY <1>3, <1>5, Indices, <1>1 DEF IInv, ValuesKept
<1>11. ValuesKept'
  <2>1. /\ {u \in taken : last_tick < u.index} = bar \cup waiting \cup hand /\ hand = {}
        /\ Newest(last_finite, {u \in taken : u.index <= last_tick \/ u \in bar})
        /\ \A u \in bar : u.index <= floor[Tick] /\ \A s \in ticks : u.index <= s
        /\ \A u \in taken : u.index <= floor[Value]
    BY <1>3, <1>10 DEF IInv, ValuesKept, Calls
  <2>2. \A u \in taken : u.index \in Int
    BY <1>1, Indices DEF TypeOK, ClockAssumption
  <2>3. {u \in taken' : last_tick < u.index} = bar \cup waiting \cup hand'
    BY <2>1, <1>2, <1>3, <1>10
  <2>4. ~(v.index <= last_tick) /\ (v \in bar => v \in taken)
    BY <2>1, <1>2, <1>5, <1>10
  <2>5. {u \in taken' : u.index <= last_tick \/ u \in bar} = {u \in taken : u.index <= last_tick \/ u \in bar}
    BY <2>4, <1>3
  <2>6. \A u \in taken' : u.index <= floor'[Value]
    BY <2>1, <2>2, <1>2, <1>3, <1>5
  <2> QED BY <2>1, <2>3, <2>5, <2>6, <1>3, <1>5, <1>10 DEF ValuesKept
<1>12. BarsOut'
  BY <1>2, <1>3, <1>6, <1>10, OutKept DEF TypeOK
<1>13. Live'
  BY <1>1, <1>3, <1>4, <1>5, Indices DEF IInv, Live, Idle, Larger
<1> QED BY <1>1, <1>6, <1>7, <1>8, <1>9, <1>11, <1>12, <1>13 DEF IInv

LEMMA PushTickKeeps ==
  ASSUME IInv, NEW t \in Indexes, PushTick(t)
  PROVE  IInv'
<1>1. /\ ClockAssumption /\ t \in Index /\ t \in Known /\ TypeOK
  BY Indices DEF IInv, ClockAssumption
<1>2. /\ ticked' = ticked \cup {t} /\ call' = "tick" /\ hand = {}
      /\ ticks' = IF (ticks = {} /\ last_tick < t) \/ (ticks # {} /\ Last(ticks) < t)
                  THEN ticks \cup {t} ELSE ticks
      /\ UNCHANGED <<taken, hand, out, ended, fwd, bar, waiting, last_tick, last_finite, merge_order, clock>>
      /\ floor' = [floor EXCEPT ![Tick] = t] /\ sent' = [sent EXCEPT ![Tick] = @ + 1]
      /\ MayPromise(Tick, t) /\ Note(Tick, t) /\ floor[Tick] <= t
      /\ call = "idle" /\ Tick \notin ended
  BY DEF PushTick, Arrive, MaySend, MayPromise, Idle, IInv, Calls
<1>3. /\ front' \in [Ports -> Known] /\ gfront' \in Known
      /\ front'[Tick] = Larger(front[Tick], t) /\ front'[Value] = front[Value]
      /\ merge_order => gfront' <= clock
  BY <1>1, <1>2, Indices, NoteFacts
<1>4. /\ floor' \in [Ports -> Index] /\ floor'[Tick] = t /\ floor'[Value] = floor[Value]
      /\ floor[Value] \in Int /\ t \in Int /\ floor[Tick] \in Int
      /\ front[Tick] \in Int /\ clock \in Int /\ last_tick \in Int /\ fwd \in Int
      /\ \A s \in ticked : s \in Int
  BY <1>1, <1>2, Indices DEF TypeOK
<1>5. ticks' \subseteq ticks \cup {t}
  BY <1>2
<1>6. TypeOK'
  <2>1. sent' \in [Ports -> Nat]
    <3>1. sent \in [Ports -> Nat] /\ sent[Tick] + 1 \in Nat
      BY <1>1, Indices DEF TypeOK
    <3>2. sent' = [sent EXCEPT ![Tick] = sent[Tick] + 1]
      BY <1>2
    <3> QED BY <3>1, <3>2
  <2> QED BY <1>1, <1>2, <1>3, <1>4, <1>5, <2>1 DEF TypeOK
<1>7. Calls'
  BY <1>1, <1>2, Indices DEF Calls
<1>8. Fronts'
  <2>1. /\ \A p \in Ports : front[p] <= floor[p] /\ fwd <= floor[Tick]
        /\ merge_order => \A p \in InOrder : clock <= floor[p]
        /\ InOrder \subseteq Ports
    BY <1>1, Indices DEF IInv, Fronts, ClockAssumption
  <2>2. \A p \in Ports : front'[p] <= floor'[p]
    BY <2>1, <1>2, <1>3, <1>4, Indices, <1>1 DEF Larger
  <2>3. merge_order => \A p \in InOrder : clock <= floor'[p]
    BY <2>1, <1>2, <1>4, Indices, <1>1
  <2>4. fwd <= t
    BY <2>1, <1>2, <1>4
  <2> QED BY <2>2, <2>3, <2>4, <1>2, <1>3, <1>4 DEF Fronts
<1>9. TicksKept /\ fwd <= floor[Tick]
  BY DEF IInv, Fronts
<1>10. \A s \in ticked : s <= t
  BY <1>2, <1>4, <1>9 DEF TicksKept
<1>11. ticks' = {s \in ticked' : last_tick < s}
  <2>1. ticks = {s \in ticked : last_tick < s}
    BY <1>9 DEF TicksKept
  <2>2. CASE ticks = {}
    BY <2>1, <2>2, <1>2
  <2>3. CASE ticks # {}
    <3>1. Last(ticks) \in ticks /\ \A s \in ticks : s <= Last(ticks)
      BY <2>3, <1>1, LastIs, Indices DEF TypeOK
    <3>2. Last(ticks) \in Int /\ last_tick < Last(ticks) /\ Last(ticks) <= t
      BY <3>1, <2>1, <1>4, <1>10
    <3>3. last_tick < t
      BY <3>2, <1>4
    <3>4. CASE Last(ticks) < t
      BY <3>3, <3>4, <2>1, <2>3, <1>2
    <3>5. CASE ~(Last(ticks) < t)
      <4>1. t = Last(ticks)
        BY <3>2, <3>5, <1>4
      <4> QED BY <4>1, <3>1, <3>5, <2>1, <2>3, <1>2
    <3> QED BY <3>4, <3>5
  <2> QED BY <2>2, <2>3
<1>12. TicksKept'
  <2>1. \A s \in ticked' : s <= t
    BY <1>2, <1>4, <1>10
  <2>2. last_tick = None \/ last_tick \in ticked'
    BY <1>2, <1>9 DEF TicksKept
  <2>3. \A s \in ticks' : fwd <= s
    BY <1>2, <1>4, <1>5, <1>9 DEF TicksKept
  <2> QED BY <1>2, <1>4, <1>11, <2>1, <2>2, <2>3 DEF TicksKept
<1>13. ended # Ports
  BY <1>1, <1>2, Indices
<1>14. ValuesKept'
  <2>1. \A u \in bar : u.index <= floor[Tick] /\ u.index \in Int /\ \A s \in ticks : u.index <= s
    <3>1. \A u \in bar : u.index \in Int
      BY <1>1, Indices DEF TypeOK, ValueEvent
    <3> QED BY <3>1, <1>13 DEF IInv, ValuesKept
  <2>2. \A u \in bar : u.index <= t /\ \A s \in ticks' : u.index <= s
    BY <2>1, <1>2, <1>4, <1>5
  <2> QED BY <2>2, <1>2, <1>4, <1>13 DEF IInv, ValuesKept
<1>15. BarsOut'
  <2>1. t \in ticked \/ last_tick < t
    BY <1>4, <1>9, <1>10, Indices, <1>1 DEF TicksKept
  <2> QED BY <2>1, <1>2, <1>6, OutKept DEF TypeOK
<1>16. Live'
  BY <1>1, <1>2, <1>3, <1>4, Indices DEF IInv, Live, Idle, Larger
<1> QED BY <1>1, <1>6, <1>7, <1>8, <1>12, <1>14, <1>15, <1>16 DEF IInv

LEMMA OnWatermarkKeeps ==
  ASSUME IInv, NEW p \in Ports, NEW w \in Index, OnWatermark(p, w)
  PROVE  IInv'
<1>1. ClockAssumption /\ TypeOK
  BY DEF IInv
<1>2. /\ call' = "watermark" /\ call = "idle" /\ p \notin ended /\ hand = {} /\ ended # Ports
      /\ UNCHANGED <<taken, ticked, sent, ended, clock, out, fwd, barVars, merge_order, hand>>
      /\ floor' = [floor EXCEPT ![p] = Larger(floor[p], w)]
      /\ MayPromise(p, w) /\ Note(p, w)
  BY DEF OnWatermark, MayPromise, Idle, IInv, Calls
<1>3. /\ front' \in [Ports -> Known] /\ gfront' \in Known
      /\ front'[p] = Larger(front[p], w) /\ \A q \in Ports \ {p} : front'[q] = front[q]
      /\ merge_order => gfront' <= clock
  BY <1>1, <1>2, NoteFacts
<1>4. /\ \A q \in Ports : floor[q] \in Int /\ floor[q] \in Index /\ front[q] \in Known /\ front[q] \in Int
      /\ w \in Int /\ w \in Known /\ clock \in Int /\ last_tick \in Int /\ fwd \in Int
  BY <1>1, Indices DEF TypeOK
<1>5. /\ floor' \in [Ports -> Index]
      /\ floor'[p] = Larger(floor[p], w) /\ \A q \in Ports \ {p} : floor'[q] = floor[q]
      /\ \A q \in Ports : floor[q] <= floor'[q] /\ floor'[q] \in Int
  <2>1. Larger(floor[p], w) \in Index
    BY <1>4 DEF Larger
  <2>2. floor' \in [Ports -> Index]
    BY <2>1, <1>1, <1>2 DEF TypeOK
  <2>3. floor'[p] = Larger(floor[p], w) /\ \A q \in Ports \ {p} : floor'[q] = floor[q]
    BY <1>1, <1>2 DEF TypeOK
  <2>4. \A q \in Ports : floor[q] <= floor'[q] /\ floor'[q] \in Int
    BY <2>3, <1>4 DEF Larger
  <2> QED BY <2>2, <2>3, <2>4
<1>6. TypeOK'
  BY <1>1, <1>2, <1>3, <1>5 DEF TypeOK, barVars
<1>7. Calls'
  BY <1>2 DEF Calls
<1>8. Fronts'
  <2>1. /\ \A q \in Ports : front[q] <= floor[q]
        /\ fwd <= floor[Tick] /\ InOrder \subseteq Ports /\ Tick \in Ports
        /\ merge_order => \A q \in InOrder : clock <= floor[q]
    BY <1>1, Indices DEF IInv, Fronts, ClockAssumption
  <2>2. \A q \in Ports : front'[q] <= floor'[q]
    BY <2>1, <1>3, <1>4, <1>5 DEF Larger
  <2>3. merge_order => \A q \in InOrder : clock <= floor'[q]
    BY <2>1, <1>4, <1>5
  <2>4. fwd <= floor'[Tick]
    BY <2>1, <1>4, <1>5
  <2> QED BY <2>2, <2>3, <2>4, <1>2, <1>3 DEF Fronts
<1>9. TicksKept'
  <2>1. \A t \in ticked : t <= floor[Tick] /\ t \in Int
    BY <1>1, Indices DEF IInv, TicksKept, TypeOK
  <2>2. \A t \in ticked : t <= floor'[Tick]
    BY <2>1, <1>1, <1>4, <1>5, Indices
  <2> QED BY <2>2, <1>2 DEF IInv, TicksKept, barVars
<1>10. ValuesKept'
  <2>1. /\ \A u \in taken : u.index <= floor[Value] /\ u.index \in Int
        /\ \A u \in bar : u.index <= floor[Tick] /\ u.index \in Int /\ \A s \in ticks : u.index <= s
        /\ last_tick < floor[Value]
    <3>1. \A u \in ValueEvent : u.index \in Int
      BY <1>1, Indices DEF ValueEvent
    <3> QED BY <3>1, <1>2, <1>1 DEF IInv, ValuesKept, TypeOK
  <2>2. /\ \A u \in taken : u.index <= floor'[Value]
        /\ \A u \in bar : u.index <= floor'[Tick]
        /\ last_tick < floor'[Value]
    BY <2>1, <1>1, <1>4, <1>5, Indices
  <2> QED BY <2>1, <2>2, <1>2 DEF IInv, ValuesKept, barVars
<1>11. BarsOut'
  BY <1>2, <1>6, OutKept DEF TypeOK, barVars
<1>12. Live'
  <2>1. ASSUME ~merge_order, NEW q \in Ports \ ended
        PROVE  front'[q] = floor'[q] \/ (front'[q] = None /\ floor'[q] = kMin)
    <3>1. /\ front[q] = floor[q] \/ (front[q] = None /\ floor[q] = kMin)
          /\ kMin \in Int /\ None \in Int /\ None < kMin /\ kMin <= w
      BY <2>1, <1>1, Indices DEF IInv, Live
    <3> QED BY <3>1, <1>3, <1>4, <1>5 DEF Larger
  <2> QED BY <2>1, <1>2 DEF Live, Idle
<1> QED BY <1>1, <1>6, <1>7, <1>8, <1>9, <1>10, <1>11, <1>12 DEF IInv

\* A port ends, or the merge moves on: the floors rise.
LEMMA FloorsRise ==
  ASSUME IInv, Idle, floor' \in [Ports -> Index], \A q \in Ports : floor[q] <= floor'[q],
         UNCHANGED <<taken, ticked, sent, out, front, gfront, fwd, barVars, merge_order, hand>>,
         clock' \in Index, call' \in {"idle", "flush"}, ended \subseteq ended', ended' \subseteq Ports,
         call' = "flush" <=> ended' = Ports /\ ended # Ports,
         merge_order => clock <= clock' /\ \A q \in InOrder : clock' <= floor'[q],
         ~merge_order => \A q \in Ports \ ended' : floor'[q] = floor[q]
  PROVE  IInv'
<1>1. ClockAssumption /\ TypeOK /\ hand = {} /\ call = "idle"
  BY DEF IInv, Idle, Calls
<1>2. /\ \A q \in Ports : floor[q] \in Int /\ floor'[q] \in Int /\ front[q] \in Int
      /\ clock \in Int /\ clock' \in Int /\ last_tick \in Int /\ fwd \in Int /\ gfront \in Int
  BY <1>1, Indices DEF TypeOK
<1>3. TypeOK'
  BY <1>1 DEF TypeOK, barVars
<1>4. Calls'
  BY <1>1 DEF Calls
<1>5. Fronts'
  <2>1. \A q \in Ports : front'[q] <= floor'[q]
    BY <1>2 DEF IInv, Fronts
  <2>2. fwd' <= floor'[Tick]
    BY <1>1, <1>2, Indices DEF IInv, Fronts
  <2>3. merge_order => gfront <= clock'
    BY <1>2 DEF IInv, Fronts
  <2> QED BY <2>1, <2>2, <2>3 DEF Fronts
<1>6. TicksKept'
  <2>1. \A t \in ticked : t <= floor[Tick] /\ t \in Int
    BY <1>1, Indices DEF IInv, TicksKept, TypeOK
  <2>2. \A t \in ticked : t <= floor'[Tick]
    BY <2>1, <1>1, <1>2, Indices
  <2> QED BY <2>2 DEF IInv, TicksKept, barVars
<1>7. ValuesKept'
  <2>1. \A u \in ValueEvent : u.index \in Int
    BY <1>1, Indices DEF ValueEvent
  <2>2. \A u \in taken : u.index <= floor'[Value]
    BY <2>1, <1>1, <1>2, Indices DEF IInv, ValuesKept, TypeOK
  <2>3. ASSUME ended # Ports
        PROVE  /\ last_tick < floor'[Value]
               /\ {v \in taken : last_tick < v.index} = bar \cup waiting \cup hand
               /\ Newest(last_finite, {v \in taken : v.index <= last_tick \/ v \in bar})
               /\ \A v \in bar : v.index <= floor'[Tick] /\ \A t \in ticks : v.index <= t
    <3>1. /\ last_tick < floor[Value]
          /\ {v \in taken : last_tick < v.index} = bar \cup waiting \cup hand
          /\ Newest(last_finite, {v \in taken : v.index <= last_tick \/ v \in bar})
          /\ \A v \in bar : v.index <= floor[Tick] /\ \A t \in ticks : v.index <= t
      BY <2>3 DEF IInv, ValuesKept
    <3>2. \A v \in bar : v.index \in Int
      BY <2>1, <1>1 DEF TypeOK
    <3> QED BY <3>1, <3>2, <1>1, <1>2, Indices
  <2>4. ended = Ports => ended' = Ports /\ call' = "idle" /\ ticks = {} /\ waiting = {} /\ bar = {}
    BY <1>1 DEF IInv, ValuesKept
  <2>5. ended' # Ports \/ call' # "idle" => ended # Ports
    BY <2>4
  <2>6. ended' = Ports /\ call' = "idle" => ended = Ports
    OBVIOUS
  <2>7. UNCHANGED <<taken, ticks, waiting, bar, last_tick, last_finite, hand>>
    BY DEF barVars
  <2> QED BY <2>2, <2>3, <2>4, <2>5, <2>6, <2>7 DEF ValuesKept
<1>8. BarsOut'
  BY <1>1, <1>3, OutKept DEF TypeOK, barVars
<1>9. Live'
  <2>1. ASSUME ~merge_order
        PROVE  /\ \A q \in Ports \ ended' : front[q] = floor'[q] \/ (front[q] = None /\ floor'[q] = kMin)
               /\ ended' = {} =>
                    /\ \A t \in ticks : ~ReadyTick(t)
                    /\ \A v \in waiting : ~JoinsNow(v.index)
    BY <2>1, <1>1 DEF IInv, Live, Idle
  <2>2. UNCHANGED <<ticks, waiting, front, merge_order>> /\ call' = "flush" => ended' # {}
    BY <1>1, Indices DEF barVars
  <2>3. \A t : ReadyTick(t)' = ReadyTick(t) /\ JoinsNow(t)' = JoinsNow(t)
    BY DEF ReadyTick, JoinsNow, ClockReaches, ValuePast, Reach, barVars
  <2>4. UNCHANGED <<ticks, waiting, front, merge_order>>
    BY DEF barVars
  <2>5. (\A t \in ticks : ~ReadyTick(t)) => \A t \in ticks' : ~ReadyTick(t)'
    BY <2>3, <2>4
  <2>6. (\A v \in waiting : ~JoinsNow(v.index)) => \A v \in waiting' : ~JoinsNow(v.index)'
    <3>1. \A v \in waiting : JoinsNow(v.index)' = JoinsNow(v.index)
      BY <2>4 DEF JoinsNow, ClockReaches, Reach
    <3> QED BY <3>1, <2>4
  <2> QED BY <2>1, <2>4, <2>5, <2>6 DEF Live, Idle
<1> QED BY <1>1, <1>3, <1>4, <1>5, <1>6, <1>7, <1>8, <1>9 DEF IInv

LEMMA FlushPortKeeps ==
  ASSUME IInv, NEW p \in Ports, FlushPort(p)
  PROVE  IInv'
<1>1. /\ ClockAssumption /\ TypeOK /\ Idle /\ call = "idle" /\ p \notin ended
      /\ UNCHANGED <<taken, ticked, sent, clock, out, front, gfront, fwd, barVars, merge_order, hand>>
      /\ floor' = [floor EXCEPT ![p] = kMax] /\ ended' = ended \cup {p}
      /\ call' = IF ended' = Ports THEN "flush" ELSE call
  BY DEF IInv, FlushPort, Idle
<1>2. /\ floor' \in [Ports -> Index] /\ floor'[p] = kMax
      /\ \A q \in Ports \ {p} : floor'[q] = floor[q]
  BY <1>1, Indices DEF TypeOK
<1>3. \A q \in Ports : floor[q] \in Int /\ floor[q] <= kMax /\ kMax \in Int
  BY <1>1, Indices DEF TypeOK
<1>4. \A q \in Ports : floor[q] <= floor'[q]
  BY <1>2, <1>3
<1>5. merge_order => clock <= clock' /\ \A q \in InOrder : clock' <= floor'[q]
  <2>1. clock \in Int /\ InOrder \subseteq Ports /\ (merge_order => \A q \in InOrder : clock <= floor[q])
    BY <1>1, Indices DEF TypeOK, ClockAssumption, IInv, Fronts
  <2>2. \A q \in InOrder : floor'[q] \in Int
    BY <2>1, <1>2, <1>3
  <2> QED BY <2>1, <2>2, <1>1, <1>3, <1>4
<1>6. clock' \in Index /\ ended' \subseteq Ports /\ ended # Ports /\ ended \subseteq ended'
  BY <1>1 DEF TypeOK
<1>7. ~merge_order => \A q \in Ports \ ended' : floor'[q] = floor[q]
  BY <1>1, <1>2
<1> QED BY <1>1, <1>2, <1>4, <1>5, <1>6, <1>7, FloorsRise

LEMMA MergeToKeeps ==
  ASSUME IInv, NEW t \in Index, MergeTo(t)
  PROVE  IInv'
<1>1. /\ ClockAssumption /\ TypeOK /\ Idle /\ call = "idle" /\ merge_order /\ clock < t /\ clock' = t
      /\ floor' = [p \in Ports |-> IF p \in InOrder THEN Larger(floor[p], t) ELSE floor[p]]
      /\ UNCHANGED <<taken, ticked, sent, ended, out, front, gfront, fwd, barVars, merge_order, call, hand>>
  BY DEF IInv, MergeTo, Idle
<1>2. /\ t \in Int /\ clock \in Int /\ InOrder \subseteq Ports
      /\ \A q \in Ports : floor[q] \in Int /\ floor[q] \in Index
  BY <1>1, Indices DEF TypeOK, ClockAssumption
<1>3. \A q \in Ports : floor'[q] \in Index /\ floor[q] <= floor'[q] /\ (q \in InOrder => t <= floor'[q])
  BY <1>1, <1>2 DEF Larger
<1>4. floor' \in [Ports -> Index]
  BY <1>1, <1>3
<1>5. ended' \subseteq Ports
  BY <1>1 DEF TypeOK
<1> QED BY <1>1, <1>2, <1>3, <1>4, <1>5, FloorsRise

LEMMA ResetKeeps ==
  ASSUME IInv, NEW m \in Modes, Reset(m)
  PROVE  IInv'
<1>1. /\ ClockAssumption /\ call' = "idle" /\ hand' = {}
      /\ taken' = {} /\ ticked' = {} /\ sent' = [p \in Ports |-> 0]
      /\ floor' = [p \in Ports |-> kMin] /\ ended' = {} /\ clock' = kMin /\ out' = <<>>
      /\ front' = [p \in Ports |-> None] /\ gfront' = None /\ fwd' = None
      /\ ticks' = {} /\ waiting' = {} /\ bar' = {} /\ last_tick' = None /\ last_finite' = None
      /\ merge_order' \in BOOLEAN
  BY DEF IInv, Reset, Idle, Calls, ClockAssumption
<1>2. TypeOK'
  BY <1>1, Indices DEF TypeOK
<1>3. Calls' /\ Fronts' /\ TicksKept' /\ ValuesKept'
  BY <1>1, Indices DEF Calls, Fronts, TicksKept, ValuesKept, Newest, ClockAssumption
<1>4. BarsOut'
  <2>1. Len(out)' = 0 /\ \A t : ~HasBar(t)'
    BY <1>1 DEF HasBar
  <2>2. 1 .. 0 = {}
    OBVIOUS
  <2> QED BY <2>1, <2>2 DEF BarsOut
<1>5. Live'
  BY <1>1 DEF Live
<1> QED BY <1>1, <1>2, <1>3, <1>4, <1>5 DEF IInv

-----------------------------------------------------------------------------
(* A tick emits its bar.                                                   *)

\* What the step that emits the bar of tick t knows.
LEMMA TickFacts ==
  ASSUME IInv, call # "idle", NEW t \in ticks, t = First(ticks), ValuePast(t) \/ call = "flush"
  PROVE  /\ t \in ticked /\ t \in Index /\ last_tick < t /\ fwd <= t
         /\ \A u \in ticked : u <= last_tick \/ t <= u
         /\ \A v \in hand : t < v.index
         /\ \A v \in bar : v.index <= t
         /\ ended # Ports => t < floor[Value]
         /\ bar \cup UpTo(waiting, t) \subseteq taken /\ hand \subseteq taken
         /\ {v \in taken : last_tick < v.index /\ v.index <= t} = bar \cup UpTo(waiting, t)
         /\ {v \in taken : t < v.index} = (waiting \ UpTo(waiting, t)) \cup hand
<1>1. ClockAssumption /\ TypeOK
  BY DEF IInv
<1>2. /\ t \in ticked /\ t \in Index /\ last_tick < t /\ fwd <= t
      /\ (\A s \in ticks : t <= s) /\ ticks = {u \in ticked : last_tick < u}
  BY <1>1, TicksFirst DEF IInv, TicksKept, TypeOK
<1>3. /\ t \in Int /\ last_tick \in Int /\ \A u \in ticked : u \in Int
      /\ floor[Value] \in Int /\ Reach(Value) \in Int /\ Reach(Value) <= floor[Value]
      /\ \A v \in ValueEvent : v.index \in Int
  BY <1>1, <1>2, ReachKept, Indices DEF TypeOK, ValueEvent
<1>4. \A u \in ticked : u <= last_tick \/ t <= u
  BY <1>2, <1>3
<1>5. ValuePast(t) => t < floor[Value]
  BY <1>3 DEF ValuePast
<1>6. ended # Ports => t < floor[Value]
  BY <1>5 DEF IInv, Calls
<1>7. \A v \in hand : t < v.index
  <2>1. ASSUME NEW v \in hand PROVE call = "value" /\ v.index = floor[Value]
    BY DEF IInv, Calls
  <2> QED BY <2>1, <1>5
<1>8. /\ {v \in taken : last_tick < v.index} = bar \cup waiting \cup hand
      /\ \A v \in bar : \A s \in ticks : v.index <= s
  BY DEF IInv, ValuesKept
<1>9. \A v \in bar : v.index <= t
  BY <1>8
<1>10. bar \subseteq taken /\ waiting \subseteq taken /\ hand \subseteq taken
  BY <1>8
<1>11. \A v \in taken : v.index \in Int
  BY <1>1, <1>3 DEF TypeOK
<1>12. {v \in taken : last_tick < v.index /\ v.index <= t} = bar \cup UpTo(waiting, t)
  <2>1. ASSUME NEW v \in taken, last_tick < v.index, v.index <= t PROVE v \in bar \cup UpTo(waiting, t)
    <3>1. v \in bar \cup waiting \cup hand
      BY <2>1, <1>8
    <3>2. v \notin hand
      BY <2>1, <1>3, <1>7, <1>11
    <3> QED BY <2>1, <3>1, <3>2 DEF UpTo
  <2>2. ASSUME NEW v \in bar \cup UpTo(waiting, t) PROVE v \in taken /\ last_tick < v.index /\ v.index <= t
    BY <2>2, <1>8, <1>9, <1>10 DEF UpTo
  <2> QED BY <2>1, <2>2
<1>13. {v \in taken : t < v.index} = (waiting \ UpTo(waiting, t)) \cup hand
  <2>1. ASSUME NEW v \in taken, t < v.index PROVE v \in (waiting \ UpTo(waiting, t)) \cup hand
    <3>1. last_tick < v.index /\ ~(v.index <= t)
      BY <2>1, <1>2, <1>3, <1>11
    <3>2. v \in bar \cup waiting \cup hand
      BY <3>1, <1>8
    <3> QED BY <3>1, <3>2, <1>9 DEF UpTo
  <2>2. ASSUME NEW v \in (waiting \ UpTo(waiting, t)) \cup hand PROVE v \in taken /\ t < v.index
    <3>1. CASE v \in hand
      BY <3>1, <1>7, <1>10
    <3>2. CASE v \in waiting /\ ~(v.index <= t)
      BY <3>2, <1>3, <1>10, <1>11
    <3> QED BY <2>2, <3>1, <3>2 DEF UpTo
  <2> QED BY <2>1, <2>2
<1>14. bar \cup UpTo(waiting, t) \subseteq taken
  BY <1>10 DEF UpTo
<1> QED BY <1>2, <1>4, <1>6, <1>7, <1>9, <1>10, <1>12, <1>13, <1>14

\* It is the bar that the ticks and values give, and the newest value up to the
\* tick is known.
LEMMA BarIs ==
  ASSUME IInv, call # "idle", NEW t \in ticks, t = First(ticks), ValuePast(t) \/ call = "flush"
  PROVE  LET S == bar \cup UpTo(waiting, t)
         IN  /\ BarValues(t) = S
             /\ Stale(t, S) <=> BarStale(t)
             /\ Freshest(S) \in Known /\ Newest(Freshest(S), {v \in taken : v.index <= t})
<1> DEFINE S == bar \cup UpTo(waiting, t)
           T == {v \in taken : v.index <= last_tick \/ v \in bar}
           U == {v \in taken : v.index <= t}
<1>1. ClockAssumption /\ TypeOK
  BY DEF IInv
<1>2. /\ t \in ticked /\ t \in Index /\ last_tick < t
      /\ \A u \in ticked : u <= last_tick \/ t <= u
      /\ \A v \in bar : v.index <= t
      /\ S \subseteq taken
      /\ {v \in taken : last_tick < v.index /\ v.index <= t} = S
  BY TickFacts
<1>3. /\ t \in Int /\ last_tick \in Int /\ \A u \in ticked : u \in Int
      /\ \A v \in taken : v.index \in Int /\ v.index \in Index
      /\ \A a \in MaxAge : a \in Int
  <2>1. \A v \in ValueEvent : v.index \in Index
    BY DEF ValueEvent
  <2>2. \A v \in taken : v.index \in Index
    BY <2>1, <1>1 DEF TypeOK
  <2> QED BY <2>2, <1>1, <1>2, Indices DEF TypeOK, ClockAssumption
<1> HIDE DEF S
<1>4. BarValues(t) = S
  <2>1. ASSUME NEW v \in taken, v.index <= t
        PROVE  (\A u \in ticked : u < t => u < v.index) <=> last_tick < v.index
    <3>1. ASSUME last_tick < v.index, NEW u \in ticked, u < t PROVE u < v.index
      BY <3>1, <1>2, <1>3
    <3>2. ASSUME \A u \in ticked : u < t => u < v.index PROVE last_tick < v.index
      <4>1. CASE last_tick \in ticked
        BY <3>2, <4>1, <1>2
      <4>2. CASE last_tick = None
        BY <4>2, <1>1, <1>3, Indices
      <4> QED BY <4>1, <4>2 DEF IInv, TicksKept
    <3> QED BY <3>1, <3>2
  <2>2. BarValues(t) = {v \in taken : last_tick < v.index /\ v.index <= t}
    BY <2>1 DEF BarValues
  <2> QED BY <2>2, <1>2
<1>5. S \subseteq ValueEvent /\ T \subseteq ValueEvent /\ Newest(last_finite, T)
  BY <1>1, <1>2 DEF TypeOK, IInv, ValuesKept
<1>6. T \cup S = U
  <2>1. ASSUME NEW v \in taken PROVE v \in T \cup S <=> v.index <= t
    <3>1. v \in S <=> last_tick < v.index /\ v.index <= t
      BY <1>2
    <3>2. v \in T => v.index <= t
      BY <1>2, <1>3
    <3>3. ~(last_tick < v.index) => v \in T
      BY <1>3
    <3> QED BY <3>1, <3>2, <3>3
  <2> QED BY <2>1, <1>2
<1>7. Freshest(S) \in Known /\ Newest(Freshest(S), T \cup S)
  BY <1>1, <1>5, FreshestIs DEF TypeOK
<1> HIDE DEF T
<1>8. Freshest(S) \in Known /\ Newest(Freshest(S), U)
  BY <1>6, <1>7
<1>9. Stale(t, S) <=> BarStale(t)
  <2> DEFINE f == Freshest(S)
  <2>1. f \in Known /\ f \in Int /\ Newest(f, U)
    BY <1>1, <1>8, Indices
  <2>2. Stale(t, S) <=> f # None /\ \E a \in MaxAge : t - f > a
    BY DEF Stale
  <2> HIDE DEF f
  <2>3. CASE f = None
    <3>1. U = {}
      BY <2>1, <2>3, <1>1, <1>3, Indices DEF Newest
    <3> QED BY <2>2, <2>3, <3>1 DEF BarStale
  <2>4. CASE f # None
    <3>1. PICK n \in U : n.index = f
      BY <2>1, <2>4 DEF Newest
    <3>2. \A v \in U : v.index <= f /\ v.index \in Int
      BY <2>1, <1>3 DEF Newest
    <3>3. ASSUME NEW a \in MaxAge PROVE t - f > a <=> \A v \in taken : v.index <= t => t - v.index > a
      <4>1. ASSUME t - f > a, NEW v \in taken, v.index <= t PROVE t - v.index > a
        BY <4>1, <3>2, <2>1, <1>3, <3>3
      <4>2. ASSUME \A v \in taken : v.index <= t => t - v.index > a PROVE t - f > a
        BY <4>2, <3>1
      <4> QED BY <4>1, <4>2
    <3>4. \E v \in taken : v.index <= t
      BY <3>1
    <3> QED BY <2>2, <2>4, <3>3, <3>4 DEF BarStale
  <2> QED BY <2>3, <2>4
<1> QED BY <1>4, <1>8, <1>9 DEF S

\* The bars up to t are out once the bar of t is, or t has none.
LEMMA BarsGrow ==
  ASSUME IInv, NEW t \in ticks, t \in Index, last_tick < t,
         \A u \in ticked : u <= last_tick \/ t <= u,
         UNCHANGED <<taken, ticked>>, last_tick' = t,
         \/ out' = out /\ ~HasBar(t)
         \/ \E r \in BarRow :
              /\ out' = Append(out, r) /\ r.index = t /\ HasBar(t)
              /\ r.stale = BarStale(t) /\ r.values = IF r.stale THEN {} ELSE BarValues(t)
  PROVE  BarsOut'
<1>1. /\ BarsOut /\ out \in Seq(BarRow) /\ Len(out) \in Nat /\ ClockAssumption
      /\ last_tick \in Int /\ t \in Int
      /\ \A k \in Index : k \in Int
      /\ \A i \in 1 .. Len(out) : out[i].index \in Index
  <2>1. BarsOut /\ out \in Seq(BarRow) /\ ClockAssumption /\ last_tick \in Known
    BY DEF IInv, TypeOK
  <2>2. ASSUME NEW i \in 1 .. Len(out) PROVE out[i] \in BarRow
    BY <2>1
  <2>3. \A r \in BarRow : r.index \in Index
    BY DEF BarRow
  <2> QED BY <2>1, <2>2, <2>3, Indices
<1>2. BarsOut' <=>
        /\ \A i \in 1 .. Len(out') :
             /\ out'[i].index <= t
             /\ HasBar(out'[i].index)
             /\ out'[i].stale = BarStale(out'[i].index)
             /\ out'[i].values = IF out'[i].stale THEN {} ELSE BarValues(out'[i].index)
        /\ \A i \in 1 .. Len(out') : \A j \in 1 .. i - 1 : out'[j].index < out'[i].index
        /\ \A u \in Index : HasBar(u) /\ u <= t => \E i \in 1 .. Len(out') : out'[i].index = u
  BY DEF BarsOut, HasBar, BarValues, BarStale
<1>3. \A i \in 1 .. Len(out) :
        /\ out[i].index <= last_tick
        /\ HasBar(out[i].index)
        /\ out[i].stale = BarStale(out[i].index)
        /\ out[i].values = IF out[i].stale THEN {} ELSE BarValues(out[i].index)
  BY <1>1 DEF BarsOut
<1>4. ASSUME NEW i \in 1 .. Len(out) PROVE out[i].index < t /\ out[i].index <= t
  <2>1. out[i].index \in Int /\ out[i].index <= last_tick
    BY <1>1, <1>3
  <2> QED BY <2>1, <1>1
<1>5. \A i \in 1 .. Len(out) : \A j \in 1 .. i - 1 : out[j].index < out[i].index
  BY <1>1 DEF BarsOut
<1>6. \A u \in Index : HasBar(u) /\ u <= last_tick => \E i \in 1 .. Len(out) : out[i].index = u
  BY <1>1 DEF BarsOut
<1>7. \A u \in Index : HasBar(u) /\ u <= t => u <= last_tick \/ u = t
  BY <1>1 DEF HasBar
<1>8. CASE out' = out /\ ~HasBar(t)
  <2>1. \A u \in Index : HasBar(u) /\ u <= t => \E i \in 1 .. Len(out) : out[i].index = u
    BY <1>6, <1>7, <1>8
  <2> QED BY <1>2, <1>3, <1>4, <1>5, <2>1, <1>8
<1>9. ASSUME NEW r \in BarRow, out' = Append(out, r), r.index = t, HasBar(t),
             r.stale = BarStale(t), r.values = IF r.stale THEN {} ELSE BarValues(t)
      PROVE  BarsOut'
  <2> DEFINE n == Len(out) + 1
  <2>1. /\ Len(out') = n /\ out'[n] = r /\ n \in 1 .. n /\ 1 .. n = (1 .. Len(out)) \cup {n}
        /\ \A i \in 1 .. Len(out) : out'[i] = out[i]
    BY <1>1, <1>9
  <2>2. \A i \in 1 .. n : \A j \in 1 .. i - 1 : j \in 1 .. Len(out)
    BY <1>1
  <2> HIDE DEF n
  <2>3. ASSUME NEW i \in 1 .. Len(out')
        PROVE  /\ out'[i].index <= t
               /\ HasBar(out'[i].index)
               /\ out'[i].stale = BarStale(out'[i].index)
               /\ out'[i].values = IF out'[i].stale THEN {} ELSE BarValues(out'[i].index)
    <3>1. CASE i = n
      BY <3>1, <2>1, <1>1, <1>9
    <3>2. CASE i \in 1 .. Len(out)
      <4>1. out'[i] = out[i]
        BY <2>1, <3>2
      <4> QED BY <4>1, <3>2, <1>3, <1>4
    <3> QED BY <3>1, <3>2, <2>1
  <2>4. ASSUME NEW i \in 1 .. Len(out'), NEW j \in 1 .. i - 1 PROVE out'[j].index < out'[i].index
    <3>1. j \in 1 .. Len(out) /\ out'[j] = out[j]
      BY <2>1, <2>2
    <3>2. CASE i = n
      BY <3>1, <3>2, <2>1, <1>4, <1>9
    <3>3. CASE i \in 1 .. Len(out)
      BY <3>1, <3>3, <2>1, <1>5
    <3> QED BY <3>2, <3>3, <2>1
  <2>5. ASSUME NEW u \in Index, HasBar(u), u <= t PROVE \E i \in 1 .. Len(out') : out'[i].index = u
    <3>1. CASE u = t
      BY <3>1, <2>1, <1>9
    <3>2. CASE u <= last_tick
      <4>1. PICK i \in 1 .. Len(out) : out[i].index = u
        BY <1>6, <2>5, <3>2
      <4> QED BY <4>1, <2>1
    <3> QED BY <2>5, <3>1, <3>2, <1>7
  <2> QED BY <1>2, <2>3, <2>4, <2>5
<1> QED BY <1>8, <1>9

LEMMA EmitTickKeeps ==
  ASSUME IInv, EmitTick
  PROVE  IInv'
<1>1. PICK t \in ticks :
        /\ t = First(ticks)
        /\ ValuePast(t) \/ call = "flush"
        /\ EmitBar(t, bar \cup UpTo(waiting, t))
        /\ last_finite' = Freshest(bar \cup UpTo(waiting, t))
        /\ waiting' = waiting \ UpTo(waiting, t)
        /\ bar' = {}
        /\ ticks' = ticks \ {t}
        /\ last_tick' = t
  BY DEF EmitTick
<1> DEFINE S == bar \cup UpTo(waiting, t)
<1>2. /\ ClockAssumption /\ TypeOK /\ call # "idle"
      /\ UNCHANGED <<streamVars, front, gfront, fwd, merge_order, call, hand>>
  BY DEF IInv, EmitTick
<1>3. /\ t \in ticked /\ t \in Index /\ last_tick < t /\ fwd <= t
      /\ \A u \in ticked : u <= last_tick \/ t <= u
      /\ ended # Ports => t < floor[Value]
      /\ S \subseteq taken
      /\ {v \in taken : t < v.index} = (waiting \ UpTo(waiting, t)) \cup hand
  BY <1>1, <1>2, TickFacts
<1>4. /\ BarValues(t) = S
      /\ Stale(t, S) <=> BarStale(t)
      /\ Freshest(S) \in Known /\ Newest(Freshest(S), {v \in taken : v.index <= t})
  BY <1>1, <1>2, BarIs
<1>5. /\ S \subseteq ValueEvent /\ t \in Int /\ t \in Known /\ last_tick \in Int
      /\ \A u \in ticked : u \in Int
  BY <1>2, <1>3, Indices DEF TypeOK
<1>6. EmitBar(t, S) /\ last_finite' = Freshest(S)
  BY <1>1
<1> HIDE DEF S
<1>7. \/ out' = out /\ ~HasBar(t)
      \/ \E r \in BarRow :
           /\ out' = Append(out, r) /\ r.index = t /\ HasBar(t)
           /\ r.stale = BarStale(t) /\ r.values = IF r.stale THEN {} ELSE BarValues(t)
  <2>1. CASE Stale(t, S)
    <3> DEFINE r == [index |-> t, values |-> {}, stale |-> TRUE]
    <3>1. r \in BarRow
      BY <1>3 DEF BarRow
    <3>2. BarStale(t) = TRUE /\ HasBar(t)
      <4>1. BarStale(t) \in BOOLEAN
        BY Zenon DEF BarStale
      <4> QED BY <4>1, <2>1, <1>3, <1>4 DEF HasBar
    <3>3. out' = Append(out, r)
      BY <2>1, <1>6 DEF EmitBar
    <3>4. r.index = t /\ r.stale = TRUE /\ r.values = {}
      OBVIOUS
    <3> HIDE DEF r
    <3> QED BY <3>1, <3>2, <3>3, <3>4
  <2>2. CASE ~Stale(t, S) /\ S = {} /\ Skip
    BY <2>2, <1>4, <1>6 DEF EmitBar, HasBar
  <2>3. CASE ~Stale(t, S) /\ ~(S = {} /\ Skip)
    <3> DEFINE r == [index |-> t, values |-> S, stale |-> FALSE]
    <3>1. r \in BarRow
      BY <1>3, <1>5 DEF BarRow
    <3>2. BarStale(t) = FALSE /\ HasBar(t)
      <4>1. BarStale(t) \in BOOLEAN
        BY Zenon DEF BarStale
      <4> QED BY <4>1, <2>3, <1>3, <1>4 DEF HasBar
    <3>3. out' = Append(out, r)
      BY <2>3, <1>6 DEF EmitBar
    <3>4. r.index = t /\ r.stale = FALSE /\ r.values = BarValues(t)
      BY <1>4
    <3> HIDE DEF r
    <3> QED BY <3>1, <3>2, <3>3, <3>4
  <2> QED BY <2>1, <2>2, <2>3
<1>8. UNCHANGED <<taken, ticked, sent, floor, ended, clock>>
  BY <1>2 DEF streamVars
<1>9. BarsOut'
  BY <1>1, <1>3, <1>7, <1>8, BarsGrow
<1>10. TypeOK'
  <2>1. out' \in Seq(BarRow)
    <3>1. out \in Seq(BarRow)
      BY <1>2 DEF TypeOK
    <3>2. out' = out \/ \E r \in BarRow : out' = Append(out, r)
      BY <1>7
    <3> QED BY <3>1, <3>2
  <2> QED BY <2>1, <1>1, <1>2, <1>4, <1>5, <1>6, <1>8 DEF TypeOK
<1>11. Calls' /\ Fronts'
  BY <1>2, <1>8 DEF IInv, Calls, Fronts
<1>12. TicksKept'
  <2>1. ticks = {u \in ticked : last_tick < u} /\ \A u \in ticks : fwd <= u
    BY DEF IInv, TicksKept
  <2>2. \A u \in ticked : u # t /\ last_tick < u <=> t < u
    BY <1>3, <1>5
  <2>3. ticks' = {u \in ticked : t < u}
    BY <2>1, <2>2, <1>1
  <2> QED BY <2>1, <2>3, <1>1, <1>2, <1>3, <1>8 DEF IInv, TicksKept
<1>13. ValuesKept'
  <2>1. {v \in taken' : v.index <= last_tick' \/ v \in bar'} = {v \in taken : v.index <= t}
    BY <1>1, <1>8
  <2>2. Newest(last_finite', {v \in taken' : v.index <= last_tick' \/ v \in bar'})
    BY <2>1, <1>4, <1>6
  <2>3. {v \in taken' : last_tick' < v.index} = bar' \cup waiting' \cup hand'
    BY <1>1, <1>2, <1>3, <1>8
  <2>4. (ended' # Ports => last_tick' < floor'[Value]) /\ \A v \in taken' : v.index <= floor'[Value]
    BY <1>1, <1>3, <1>8 DEF IInv, ValuesKept
  <2>5. \A v \in bar' : v.index <= floor'[Tick] /\ \A u \in ticks' : v.index <= u
    BY <1>1
  <2>6. call' # "idle"
    BY <1>2
  <2>7. Newest(last_finite, {v \in taken : v.index <= last_tick \/ v \in bar})' <=>
        Newest(last_finite', {v \in taken' : v.index <= last_tick' \/ v \in bar'})
    BY DEF Newest
  <2> QED BY <2>2, <2>3, <2>4, <2>5, <2>6, <2>7 DEF ValuesKept
<1>14. Live'
  BY <1>2, <1>8 DEF IInv, Live, Idle
<1> QED BY <1>2, <1>9, <1>10, <1>11, <1>12, <1>13, <1>14 DEF IInv

-----------------------------------------------------------------------------
(* The end of a handler: the values that may join the current bar do.      *)

\* A value may join when no tick can come below it.
LEMMA JoinsBelow ==
  ASSUME IInv, NEW k \in Index, JoinsNow(k)
  PROVE  k <= floor[Tick] /\ \A t \in ticks : k <= t
<1>1. ClockAssumption /\ TypeOK
  BY DEF IInv
<1>2. Tick \in Ports /\ floor[Tick] \in Int /\ k \in Int /\ \A t \in ticks : t \in Int
  BY <1>1, Indices DEF TypeOK
<1>3. CASE ticks = {}
  <2>1. Reach(Tick) \in Int /\ Reach(Tick) <= floor[Tick]
    BY <1>1, <1>2, ReachKept, Indices
  <2> QED BY <2>1, <1>2, <1>3 DEF JoinsNow, ClockReaches
<1>4. CASE ticks # {}
  <2>1. First(ticks) \in ticks /\ \A t \in ticks : First(ticks) <= t
    BY <1>4, TicksFirst
  <2>2. First(ticks) <= floor[Tick] /\ k <= First(ticks)
    BY <2>1, <1>4 DEF IInv, TicksKept, JoinsNow
  <2> QED BY <2>1, <2>2, <1>2
<1> QED BY <1>3, <1>4

LEMMA JoinsLower ==
  ASSUME IInv, NEW k \in Index, NEW m \in Index, JoinsNow(k), m <= k
  PROVE  JoinsNow(m)
<1>1. ClockAssumption /\ TypeOK /\ k \in Int /\ m \in Int
  BY Indices DEF IInv
<1>2. Reach(Tick) \in Int
  BY <1>1, ReachKept, Indices
<1>3. ticks # {} => First(ticks) \in Int
  BY <1>1, TicksFirst, Indices DEF TypeOK
<1> QED BY <1>1, <1>2, <1>3 DEF JoinsNow, ClockReaches

\* A handler that ends keeps the invariant when each value it took from those
\* that waited, or from its hand, could join the bar.
LEMMA SettleKeeps ==
  ASSUME IInv, call \in {"value", "tick", "watermark"}, call' = "idle", hand' = {}, Settled,
         UNCHANGED <<streamVars, out, front, gfront, ticks, last_tick, merge_order>>,
         bar \subseteq bar', bar \cup waiting \cup hand = bar' \cup waiting',
         \A v \in bar' : v \in bar \/ JoinsNow(v.index),
         \A v \in waiting' : ~JoinsNow(v.index),
         last_finite' = Freshest(bar'),
         fwd' \in Known, fwd' <= floor[Tick], \A t \in ticks : fwd' <= t
  PROVE  IInv'
<1>1. ClockAssumption /\ TypeOK /\ ended # Ports
  BY DEF IInv, Calls
<1>2. UNCHANGED <<taken, ticked, sent, floor, ended, clock>>
  BY DEF streamVars
<1>3. /\ {v \in taken : last_tick < v.index} = bar \cup waiting \cup hand
      /\ Newest(last_finite, {v \in taken : v.index <= last_tick \/ v \in bar})
      /\ \A v \in bar : v.index <= floor[Tick] /\ \A t \in ticks : v.index <= t
      /\ last_tick < floor[Value] /\ \A v \in taken : v.index <= floor[Value]
  BY <1>1 DEF IInv, ValuesKept
<1>4. bar' \subseteq taken /\ waiting' \subseteq taken /\ taken \subseteq ValueEvent
  BY <1>1, <1>3 DEF TypeOK
<1>5. \A v \in ValueEvent : v.index \in Index
  BY DEF ValueEvent
<1> DEFINE T == {v \in taken : v.index <= last_tick \/ v \in bar}
           U == {v \in taken : v.index <= last_tick \/ v \in bar'}
<1>6. T \cup bar' = U
  BY <1>4
<1>7. last_finite' \in Known /\ Newest(last_finite', U)
  <2>1. bar' \subseteq ValueEvent /\ T \subseteq ValueEvent /\ last_finite \in Known /\ Newest(last_finite, T)
    BY <1>1, <1>3, <1>4 DEF TypeOK
  <2> HIDE DEF T, U
  <2>2. \A S \in SUBSET ValueEvent : Freshest(S) \in Known /\ Newest(Freshest(S), T \cup S)
    BY <2>1, <1>1, FreshestIs
  <2> QED BY <2>1, <2>2, <1>6
<1>8. TypeOK'
  BY <1>1, <1>2, <1>4, <1>7 DEF TypeOK
<1>9. Calls' /\ Fronts' /\ TicksKept'
  BY <1>2 DEF IInv, Calls, Fronts, TicksKept
<1>10. ValuesKept'
  <2>1. \A v \in bar' : v.index <= floor[Tick] /\ \A t \in ticks : v.index <= t
    BY <1>3, <1>4, <1>5, JoinsBelow
  <2>2. {v \in taken : last_tick < v.index} = bar' \cup waiting' \cup hand'
    BY <1>3
  <2>3. Newest(last_finite, {v \in taken : v.index <= last_tick \/ v \in bar})' <=>
        Newest(last_finite', {v \in taken' : v.index <= last_tick' \/ v \in bar'})
    BY DEF Newest
  <2> QED BY <2>1, <2>2, <2>3, <1>1, <1>2, <1>3, <1>7 DEF ValuesKept
<1>11. BarsOut'
  BY <1>1, <1>2, <1>4, OutKept DEF TypeOK
<1>12. Live'
  <2>1. \A k : ReadyTick(k)' = ReadyTick(k) /\ JoinsNow(k)' = JoinsNow(k)
    BY <1>2 DEF ReadyTick, JoinsNow, ClockReaches, ValuePast, Reach
  <2>2. \A v \in waiting' : JoinsNow(v.index)' = JoinsNow(v.index)
    BY DEF JoinsNow, ClockReaches, Reach
  <2>3. \A t \in ticks' : ~ReadyTick(t)'
    BY <2>1 DEF Settled
  <2> QED BY <2>2, <2>3, <1>2 DEF IInv, Live, Idle
<1> QED BY <1>1, <1>8, <1>9, <1>10, <1>11, <1>12 DEF IInv

LEMMA EndValueKeeps ==
  ASSUME IInv, EndValue
  PROVE  IInv'
<1>1. PICK v \in hand :
        IF waiting \subseteq Joining /\ JoinsNow(v.index)
        THEN bar' = bar \cup Joining \cup {v} /\ waiting' = waiting \ Joining
        ELSE bar' = bar \cup Joining /\ waiting' = (waiting \ Joining) \cup {v}
  BY DEF EndValue
<1>2. /\ call = "value" /\ Settled /\ last_finite' = Freshest(bar') /\ hand' = {} /\ call' = "idle"
      /\ UNCHANGED <<streamVars, out, front, gfront, fwd, ticks, last_tick, merge_order>>
  BY DEF EndValue
<1>3. /\ TypeOK /\ hand \subseteq taken /\ waiting \subseteq taken /\ \A u \in hand : u.index = floor[Value]
      /\ \A u \in taken : u.index <= floor[Value]
  <2>1. {u \in taken : last_tick < u.index} = bar \cup waiting \cup hand
    BY <1>2 DEF IInv, ValuesKept
  <2> QED BY <2>1 DEF IInv, Calls, ValuesKept
<1>4. hand = {v}
  <2>1. \A u \in hand : u = v
    BY <1>1 DEF IInv, Calls
  <2> QED BY <2>1
<1>5. \A u \in waiting : u \notin Joining => ~JoinsNow(u.index)
  BY DEF Joining
<1>6. \A u \in Joining : u \in waiting /\ JoinsNow(u.index)
  BY DEF Joining
<1>7. ~(waiting \subseteq Joining /\ JoinsNow(v.index)) => ~JoinsNow(v.index)
  <2>1. ASSUME JoinsNow(v.index), NEW u \in waiting PROVE u \in Joining
    <3>1. u.index \in Index /\ v.index \in Index /\ u.index <= v.index
      BY <1>1, <1>3 DEF TypeOK, ValueEvent
    <3> QED BY <2>1, <3>1, JoinsLower DEF Joining
  <2> QED BY <2>1
<1>8. /\ bar \subseteq bar' /\ bar \cup waiting \cup hand = bar' \cup waiting'
      /\ \A u \in bar' : u \in bar \/ JoinsNow(u.index)
      /\ \A u \in waiting' : ~JoinsNow(u.index)
  <2>1. CASE waiting \subseteq Joining /\ JoinsNow(v.index)
    BY <2>1, <1>1, <1>4, <1>5, <1>6
  <2>2. CASE ~(waiting \subseteq Joining /\ JoinsNow(v.index))
    BY <2>2, <1>1, <1>4, <1>5, <1>6, <1>7
  <2> QED BY <2>1, <2>2
<1>9. fwd' \in Known /\ fwd' <= floor[Tick] /\ \A t \in ticks : fwd' <= t
  BY <1>2, <1>3 DEF IInv, TypeOK, Fronts, TicksKept
<1> QED BY <1>2, <1>8, <1>9, SettleKeeps

LEMMA EndKeeps ==
  ASSUME IInv, EndTick \/ EndWatermark
  PROVE  IInv'
<1>1. /\ ClockAssumption /\ TypeOK /\ call \in {"tick", "watermark"} /\ hand = {}
      /\ Settle
  BY DEF EndTick, EndWatermark, IInv, Calls
<1>2. /\ Settled /\ bar' = bar \cup Joining /\ waiting' = waiting \ Joining
      /\ last_finite' = Freshest(bar') /\ call' = "idle"
      /\ UNCHANGED <<streamVars, out, front, gfront, ticks, last_tick, merge_order, hand>>
  BY <1>1 DEF Settle
<1>3. /\ bar \subseteq bar' /\ bar \cup waiting \cup hand = bar' \cup waiting'
      /\ \A u \in bar' : u \in bar \/ JoinsNow(u.index)
      /\ \A u \in waiting' : ~JoinsNow(u.index)
  BY <1>1, <1>2 DEF Joining
<1>4. /\ fwd \in Known /\ fwd \in Int /\ fwd <= floor[Tick] /\ \A t \in ticks : fwd <= t
      /\ \A t \in ticks : t \in Int /\ t <= floor[Tick]
      /\ Reach(Tick) \in Known /\ Reach(Tick) <= floor[Tick]
  BY <1>1, ReachKept, Indices DEF IInv, TypeOK, Fronts, TicksKept
<1>5. fwd' \in Known /\ fwd' <= floor[Tick] /\ \A t \in ticks : fwd' <= t
  <2>1. CASE EndTick
    BY <2>1, <1>4 DEF EndTick
  <2>2. CASE EndWatermark /\ ticks = {}
    BY <2>2, <1>4 DEF EndWatermark, Larger
  <2>3. CASE EndWatermark /\ ticks # {}
    <3>1. First(ticks) \in ticks /\ \A t \in ticks : First(ticks) <= t
      BY <2>3, TicksFirst
    <3>2. First(ticks) \in Known
      BY <3>1, <1>1, Indices DEF TypeOK
    <3>3. fwd' = Larger(fwd, First(ticks))
      BY <2>3 DEF EndWatermark
    <3> QED BY <3>1, <3>2, <3>3, <1>4 DEF Larger
  <2> QED BY <2>1, <2>2, <2>3
<1>6. call \in {"value", "tick", "watermark"} /\ hand' = {}
  BY <1>1, <1>2
<1> QED BY <1>2, <1>3, <1>5, <1>6, SettleKeeps

LEMMA EndFlushKeeps ==
  ASSUME IInv, EndFlush
  PROVE  IInv'
<1>1. /\ ClockAssumption /\ TypeOK /\ ended = Ports /\ ticks = {} /\ call' = "idle"
      /\ waiting' = {} /\ bar' = {} /\ hand = {}
      /\ UNCHANGED <<streamVars, out, front, gfront, fwd, ticks, last_tick, last_finite, merge_order, hand>>
  BY DEF IInv, EndFlush, Calls
<1>2. UNCHANGED <<taken, ticked, sent, floor, ended, clock>>
  BY <1>1 DEF streamVars
<1>3. TypeOK'
  BY <1>1, <1>2 DEF TypeOK
<1>4. Calls' /\ Fronts' /\ TicksKept'
  BY <1>1, <1>2 DEF IInv, Calls, Fronts, TicksKept
<1>5. ValuesKept'
  BY <1>1, <1>2 DEF IInv, ValuesKept
<1>6. BarsOut'
  BY <1>1, <1>2, <1>3, OutKept DEF TypeOK
<1>7. Live'
  <2>1. ended' # {}
    BY <1>1, <1>2, Indices
  <2> QED BY <2>1, <1>1, <1>2 DEF IInv, Live, Idle
<1> QED BY <1>1, <1>3, <1>4, <1>5, <1>6, <1>7 DEF IInv

LEMMA NextInv ==
  ASSUME IInv, [Next]_vars
  PROVE  IInv'
<1>1. ASSUME NEW t \in Indexes, PushValue(t) \/ PushTick(t) PROVE IInv'
  BY <1>1, PushValueKeeps, PushTickKeeps
<1>2. ASSUME NEW p \in Ports, NEW w \in Index, OnWatermark(p, w) PROVE IInv'
  BY <1>2, OnWatermarkKeeps
<1>3. ASSUME NEW p \in Ports, FlushPort(p) PROVE IInv'
  BY <1>3, FlushPortKeeps
<1>4. CASE Handler
  BY <1>4, EmitTickKeeps, EndValueKeeps, EndKeeps, EndFlushKeeps DEF Handler
<1>5. ASSUME NEW t \in Index, MergeTo(t) PROVE IInv'
  BY <1>5, MergeToKeeps
<1>6. ASSUME NEW m \in Modes, Reset(m) PROVE IInv'
  BY <1>6, ResetKeeps
<1>7. CASE UNCHANGED vars
  <2>1. UNCHANGED <<taken, ticked, sent, floor, ended, clock, out, front, gfront, fwd, ticks, waiting, bar,
                    last_tick, last_finite, merge_order, call, hand>>
    BY <1>7 DEF vars, streamVars, barVars
  <2>2. TypeOK' /\ Calls' /\ Fronts' /\ TicksKept'
    BY <2>1 DEF IInv, TypeOK, Calls, Fronts, TicksKept
  <2>3. ValuesKept'
    BY <2>1 DEF IInv, ValuesKept, Newest
  <2>4. BarsOut'
    BY <2>1, <2>2, OutKept DEF TypeOK
  <2>5. Live'
    BY <2>1 DEF IInv, Live, Idle, ReadyTick, ValuePast, JoinsNow, ClockReaches, Reach
  <2> QED BY <2>2, <2>3, <2>4, <2>5 DEF IInv
<1> QED BY <1>1, <1>2, <1>3, <1>4, <1>5, <1>6, <1>7 DEF Next

-----------------------------------------------------------------------------
(* What the invariant says of the properties.                              *)

LEMMA InvBars ==
  ASSUME IInv
  PROVE  BarsRight
<1>1. /\ BarsOut /\ \A i \in 1 .. Len(out) : out[i].index \in Int
      /\ \A t \in Index : t \in Int /\ last_tick \in Int
  <2>1. BarsOut /\ out \in Seq(BarRow) /\ ClockAssumption /\ last_tick \in Known
    BY DEF IInv, TypeOK
  <2>2. ASSUME NEW i \in 1 .. Len(out) PROVE out[i] \in BarRow
    BY <2>1
  <2>3. \A r \in BarRow : r.index \in Index
    BY DEF BarRow
  <2> QED BY <2>1, <2>2, <2>3, Indices
<1>2. \A i, j \in 1 .. Len(out) : j < i => out[j].index < out[i].index
  <2>1. ASSUME NEW i \in 1 .. Len(out), NEW j \in 1 .. Len(out), j < i PROVE j \in 1 .. i - 1
    BY <2>1
  <2> QED BY <2>1, <1>1 DEF BarsOut
<1>3. ASSUME NEW i \in 1 .. Len(out), NEW t \in Index, HasBar(t), t < out[i].index
      PROVE  \E j \in 1 .. i - 1 : out[j].index = t
  <2>1. out[i].index <= last_tick
    BY <1>1 DEF BarsOut
  <2>2. t <= last_tick
    BY <1>1, <1>3, <2>1
  <2>3. PICK j \in 1 .. Len(out) : out[j].index = t
    BY <1>1, <1>3, <2>2 DEF BarsOut
  <2>4. j < i
    <3>1. CASE i < j
      BY <3>1, <2>3, <1>1, <1>2, <1>3
    <3>2. CASE i = j
      BY <3>2, <2>3, <1>1, <1>3
    <3> QED BY <3>1, <3>2
  <2>5. j \in 1 .. i - 1
    BY <2>4
  <2> QED BY <2>3, <2>5
<1> QED BY <1>1, <1>3 DEF BarsRight, BarsOut

LEMMA InvEnd ==
  ASSUME IInv
  PROVE  EndEmitsAll
<1>1. ASSUME ended = Ports, call = "idle", NEW t \in Index, HasBar(t)
      PROVE  \E i \in 1 .. Len(out) : out[i].index = t
  <2>1. t \in ticked /\ ticks = {} /\ ticks = {u \in ticked : last_tick < u}
    BY <1>1 DEF IInv, ValuesKept, TicksKept, HasBar
  <2>2. t \in Int /\ last_tick \in Int
    BY Indices DEF IInv, TypeOK
  <2>3. t <= last_tick
    BY <2>1, <2>2
  <2> QED BY <1>1, <2>3 DEF IInv, BarsOut
<1> QED BY <1>1 DEF EndEmitsAll

\* No index of an event is the lowest of all, which a port has promised before
\* it sends anything.
LEMMA InvWaits ==
  ASSUME IInv, kMin \notin Indexes
  PROVE  WaitsForCause
<1>1. SUFFICES ASSUME Idle, ~merge_order, ended = {}
      PROVE  /\ \A t \in ticks : floor[Value] <= First(ticks)
             /\ \A v \in waiting : (ticks = {} /\ floor[Tick] < v.index) \/ \E t \in ticks : t < v.index
  BY DEF WaitsForCause
<1>2. ClockAssumption /\ TypeOK
  BY DEF IInv
<1>3. /\ \A p \in Ports : front[p] = floor[p] \/ (front[p] = None /\ floor[p] = kMin)
      /\ \A t \in ticks : ~ReadyTick(t)
      /\ \A v \in waiting : ~JoinsNow(v.index)
  BY <1>1 DEF IInv, Live
<1>4. \A p \in Ports : Reach(p) = front[p] /\ Reach(p) \in Int /\ floor[p] \in Int
  BY <1>1, <1>2, ReachKept, Indices DEF Reach, TypeOK
<1>5. ASSUME NEW t \in ticks PROVE floor[Value] <= First(ticks)
  <2>1. First(ticks) \in ticks /\ First(ticks) \in Int /\ kMin <= First(ticks)
    BY <1>2, TicksFirst, Indices DEF TypeOK
  <2>2. ~(First(ticks) < Reach(Value))
    BY <2>1, <1>3 DEF ReadyTick, ValuePast
  <2> QED BY <2>1, <2>2, <1>2, <1>3, <1>4, Indices
<1>6. ASSUME NEW v \in waiting PROVE (ticks = {} /\ floor[Tick] < v.index) \/ \E t \in ticks : t < v.index
  <2>1. v \in taken /\ v.index \in Indexes
    <3>1. ended # Ports
      BY <1>1, <1>2, Indices
    <3>2. {u \in taken : last_tick < u.index} = bar \cup waiting \cup hand
      BY <3>1 DEF IInv, ValuesKept
    <3> QED BY <3>2, <1>2 DEF TypeOK
  <2>2. v.index \in Int /\ kMin < v.index /\ v.index \in Index
    <3>1. v.index \in Index /\ v.index # kMin
      BY <2>1, <1>2 DEF ClockAssumption
    <3> QED BY <3>1, <1>2, Indices
  <2>3. CASE ticks = {}
    <3>1. Reach(Tick) < v.index
      BY <2>2, <2>3, <1>2, <1>3, <1>4, Indices DEF JoinsNow, ClockReaches
    <3> QED BY <3>1, <2>2, <2>3, <1>2, <1>3, <1>4, Indices
  <2>4. CASE ticks # {}
    <3>1. First(ticks) \in ticks /\ First(ticks) \in Int
      BY <2>4, <1>2, TicksFirst, Indices DEF TypeOK
    <3>2. First(ticks) < v.index
      BY <2>2, <2>4, <3>1, <1>3 DEF JoinsNow
    <3> QED BY <3>1, <3>2
  <2> QED BY <2>3, <2>4
<1> QED BY <1>5, <1>6

\* No bar goes below a watermark that was sent down.
LEMMA StepPromised ==
  ASSUME IInv, [Next]_vars, Len(out') > Len(out)
  PROVE  fwd <= out'[Len(out')].index
<1>1. ClockAssumption /\ out \in Seq(BarRow)
  BY DEF IInv, TypeOK
<1>2. CASE EmitTick
  <2>1. PICK t \in ticks : EmitBar(t, bar \cup UpTo(waiting, t))
    BY <1>2 DEF EmitTick
  <2>2. fwd <= t
    BY DEF IInv, TicksKept
  <2>3. out' = out \/ \E r \in [index : {t}, values : SUBSET (bar \cup UpTo(waiting, t)), stale : BOOLEAN] :
                        out' = Append(out, r)
    BY <2>1 DEF EmitBar
  <2>4. \E r : r.index = t /\ out' = Append(out, r)
    BY <2>3, <1>1
  <2>5. out'[Len(out')].index = t
    BY <2>4, <1>1
  <2> QED BY <2>2, <2>5
<1>3. CASE \E m \in Modes : Reset(m)
  BY <1>3, <1>1 DEF Reset
<1>4. CASE out' = out
  BY <1>4, <1>1
<1>5. EmitTick \/ (\E m \in Modes : Reset(m)) \/ out' = out
  BY DEF Next, Handler, PushValue, PushTick, Arrive, OnWatermark, FlushPort, EndValue, EndTick,
     EndWatermark, Settle, EndFlush, MergeTo, vars
<1> QED BY <1>2, <1>3, <1>4, <1>5
=============================================================================
