--------------------------- MODULE MCNodesProofs ---------------------------
(***************************************************************************)
(* Proofs about the nodes of MCNodes, each beside the variables of the     *)
(* others.  The forward join, the lead, the filter and the join of the     *)
(* outputs have their invariant here.  An aligning join is a CombineLatest *)
(* and a resample a ResampleClock, so that what CombineLatestProofs and    *)
(* ResampleClockProofs prove of every instance holds of those here; so does, *)
(* of a filter, what CombineLatestProofs proves of the reorder buffer.     *)
(***************************************************************************)
EXTENDS MCNodes, FiniteSetTheorems, WellFoundedInduction, TLAPS

-----------------------------------------------------------------------------
(* The events of the ports.                                                *)

\* The events of a port are numbered without a gap in the order in which it
\* sent them, which is that of their indexes, and none is above its floor.
Numbered ==
  /\ IsFiniteSet(taken)
  /\ \A d \in taken : d.port \in Ports /\ d.index \in Index /\ d.nth \in Nat
  /\ \A d \in taken : d.nth < Sent(d.port) /\ d.index <= floor[d.port]
  /\ \A a, b \in taken : a.port = b.port =>
       /\ a.nth = b.nth => a = b
       /\ a.nth < b.nth => a.index <= b.index
  /\ \A p \in Ports : \A k \in Nat : k < Sent(p) => \E d \in taken : d.port = p /\ d.nth = k

LEMMA SentIsNat ==
  ASSUME IsFiniteSet(taken)
  PROVE  \A p : Sent(p) \in Nat
<1>1. ASSUME NEW p PROVE Sent(p) \in Nat
  <2>1. {e \in taken : e.port = p} \subseteq taken
    OBVIOUS
  <2>2. IsFiniteSet({e \in taken : e.port = p})
    BY <2>1, FS_Subset
  <2> QED BY <2>2, FS_CardinalityType DEF Sent
<1> QED BY <1>1

LEMMA OneMoreSent ==
  ASSUME IsFiniteSet(taken), NEW e, e \notin taken, taken' = taken \cup {e}
  PROVE  /\ IsFiniteSet(taken')
         /\ Sent(e.port)' = Sent(e.port) + 1
         /\ \A q : q # e.port => Sent(q)' = Sent(q)
<1> DEFINE S == {d \in taken : d.port = e.port}
<1>1. {d \in taken' : d.port = e.port} = S \cup {e}
  OBVIOUS
<1>2. IsFiniteSet(S) /\ e \notin S
  BY FS_Subset
<1>3. Cardinality(S \cup {e}) = Cardinality(S) + 1
  BY <1>2, FS_AddElement
<1>4. Sent(e.port)' = Cardinality({d \in taken' : d.port = e.port})
  BY DEF Sent
<1>5. ASSUME NEW q, q # e.port PROVE Sent(q)' = Sent(q)
  <2>1. {d \in taken' : d.port = q} = {d \in taken : d.port = q}
    BY <1>5
  <2>2. Sent(q)' = Cardinality({d \in taken' : d.port = q})
    BY DEF Sent
  <2> QED BY <2>1, <2>2 DEF Sent
<1>6. IsFiniteSet(taken')
  BY FS_AddElement
<1> QED BY <1>1, <1>3, <1>4, <1>5, <1>6 DEF Sent

\* A port sends its next event.
LEMMA EventAdded ==
  ASSUME Numbered, floor \in [Ports -> Index], NEW e, e.port \in Ports, e.index \in Index,
         e.nth = Sent(e.port), floor[e.port] <= e.index,
         taken' = taken \cup {e}, floor' = [floor EXCEPT ![e.port] = e.index]
  PROVE  /\ Numbered' /\ e \notin taken
         /\ Sent(e.port)' = Sent(e.port) + 1
         /\ \A q : q # e.port => Sent(q)' = Sent(q)
<1>1. \A p : Sent(p) \in Nat
  BY SentIsNat DEF Numbered
<1>2. e \notin taken
  BY <1>1 DEF Numbered
<1>3. /\ IsFiniteSet(taken') /\ Sent(e.port)' = Sent(e.port) + 1
      /\ \A q : q # e.port => Sent(q)' = Sent(q)
  BY <1>2, OneMoreSent DEF Numbered
<1>4. floor'[e.port] = e.index /\ \A p \in Ports : p # e.port => floor'[p] = floor[p]
  OBVIOUS
<1>5. e.index \in Int /\ \A d \in taken : d.index \in Int
  BY IndexAssumption DEF Numbered, Index
<1>6. \A p \in Ports : floor[p] \in Int
  BY IndexAssumption DEF Index
<1>7. \A d \in taken' : d.port \in Ports /\ d.index \in Index /\ d.nth \in Nat
  BY <1>1 DEF Numbered
<1>8. ASSUME NEW d \in taken' PROVE d.nth < Sent(d.port)' /\ d.index <= floor'[d.port]
  <2>1. CASE d = e
    BY <2>1, <1>1, <1>3, <1>4, <1>5
  <2>2. CASE d \in taken /\ d.port = e.port
    <3>1. d.nth < Sent(e.port) /\ d.nth \in Nat /\ d.index <= floor[e.port] /\ d.index \in Int
      BY <2>2, <1>5 DEF Numbered
    <3>2. Sent(d.port)' = Sent(e.port) + 1
      BY <2>2, <1>3 DEF Sent
    <3> QED BY <3>1, <3>2, <2>2, <1>1, <1>4, <1>5, <1>6
  <2>3. CASE d \in taken /\ d.port # e.port
    <3>1. d.nth < Sent(d.port) /\ d.index <= floor[d.port] /\ d.port \in Ports
      BY <2>3 DEF Numbered
    <3>2. Sent(d.port)' = Sent(d.port)
      <4> DEFINE q == d.port
      <4>1. \A r : r # e.port => Sent(r)' = Cardinality({c \in taken' : c.port = r}) /\ Sent(r)' = Sent(r)
        BY <1>3 DEF Sent
      <4>2. Sent(d.port)' = Cardinality({c \in taken' : c.port = d.port})
        BY DEF Sent
      <4> QED BY <4>1, <4>2, <2>3
    <3> QED BY <3>1, <3>2, <2>3, <1>4
  <2> QED BY <2>1, <2>2, <2>3
<1>9. ASSUME NEW a \in taken', NEW b \in taken', a.port = b.port
      PROVE  (a.nth = b.nth => a = b) /\ (a.nth < b.nth => a.index <= b.index)
  <2>1. \A d \in taken : d.port = e.port => d.nth < e.nth /\ d.nth \in Nat /\ d.index <= e.index
    BY <1>5, <1>6 DEF Numbered
  <2>2. e.nth \in Nat /\ e.index <= e.index
    BY <1>1, <1>5
  <2>3. CASE a \in taken /\ b \in taken
    BY <2>3, <1>9 DEF Numbered
  <2>4. CASE a = e /\ b = e
    BY <2>4, <2>2
  <2>5. CASE a = e /\ b \in taken
    BY <2>5, <2>1, <2>2, <1>9
  <2>6. CASE a \in taken /\ b = e
    BY <2>6, <2>1, <2>2, <1>9
  <2> QED BY <2>3, <2>4, <2>5, <2>6
<1>10. ASSUME NEW p \in Ports, NEW k \in Nat, k < Sent(p)' PROVE \E d \in taken' : d.port = p /\ d.nth = k
  <2>1. CASE p = e.port /\ k = Sent(e.port)
    BY <2>1
  <2>2. CASE p = e.port /\ k # Sent(e.port)
    <3>1. Sent(p)' = Sent(e.port) + 1
      BY <2>2, <1>3 DEF Sent
    <3>2. k < Sent(p)
      BY <3>1, <2>2, <1>1, <1>10
    <3> QED BY <3>2 DEF Numbered
  <2>3. CASE p # e.port
    BY <2>3, <1>3, <1>10 DEF Numbered
  <2> QED BY <2>1, <2>2, <2>3
<1> QED BY <1>2, <1>3, <1>7, <1>8, <1>9, <1>10 DEF Numbered

LEMMA FloorsUp ==
  ASSUME Numbered, taken' = taken, floor \in [Ports -> Index], floor' \in [Ports -> Index],
         \A p \in Ports : floor[p] <= floor'[p]
  PROVE  Numbered' /\ \A p : Sent(p)' = Sent(p)
<1>1. \A p : Sent(p)' = Sent(p)
  BY DEF Sent
<1>2. ASSUME NEW d \in taken PROVE d.index <= floor'[d.port]
  <2>1. d.port \in Ports /\ d.index \in Index /\ d.index <= floor[d.port]
    BY DEF Numbered
  <2> QED BY <2>1, IndexAssumption DEF Index
<1>3. \A d \in taken : d.nth < Sent(d.port)'
  BY <1>1 DEF Numbered, Sent
<1> QED BY <1>1, <1>2, <1>3 DEF Numbered

LEMMA NoEvents ==
  ASSUME taken' = {}
  PROVE  Numbered' /\ \A p : Sent(p)' = 0
<1>1. IsFiniteSet({}) /\ Cardinality({}) = 0
  BY FS_EmptySet
<1>2. ASSUME NEW p PROVE Sent(p)' = 0
  <2>1. Sent(p)' = Cardinality({d \in taken' : d.port = p})
    BY DEF Sent
  <2>2. {d \in taken' : d.port = p} = {}
    OBVIOUS
  <2> QED BY <1>1, <2>1, <2>2
<1> QED BY <1>1, <1>2 DEF Numbered

LEMMA NoneSent ==
  ASSUME taken = {}
  PROVE  Numbered /\ \A p : Sent(p) = 0
<1>1. IsFiniteSet({}) /\ Cardinality({}) = 0
  BY FS_EmptySet
<1>2. ASSUME NEW p PROVE Sent(p) = 0
  <2>1. {d \in taken : d.port = p} = {}
    OBVIOUS
  <2> QED BY <1>1, <2>1 DEF Sent
<1> QED BY <1>1, <1>2 DEF Numbered

-----------------------------------------------------------------------------
(* The forward join.                                                       *)

\* The y events that a row or the end of a handler has passed.
PassedY == {e \in taken : e.port = P!Y} \ events
YEvents == {e \in taken : e.port = P!Y}

ForwardTypes ==
  /\ Numbered /\ taken \subseteq P!Event
  /\ floor \in [Ports -> Index] /\ ended \subseteq Ports /\ out \in Seq(P!Row)
  /\ clock \in Index /\ merge_order \in BOOLEAN /\ flushed \subseteq Ports
  /\ last_forwarded \in Index /\ flushes \in Nat
  /\ call \in {"idle", "x", "y", "watermark", "flush", "drain"}
  /\ error \in {"none", "overflow"}
  /\ y_last \subseteq Index /\ y_wm \in Index /\ x_floor \in Index

\* A node that flushed has no row and makes no call.
ForwardCalls ==
  /\ flushes = 0 \/ (flushes = 1 /\ ended = Ports /\ call = "idle" /\ rows = {})
  /\ flushes = 0 => flushed = ended
  /\ call = "drain" => ended = Ports

\* What the node knows of its ports is what they promised, and all of it in a
\* live session.
ForwardFloors ==
  /\ x_floor <= floor[P!X] /\ y_wm <= floor[P!Y] /\ last_forwarded <= floor[P!X]
  /\ merge_order => \A p \in InOrder : clock <= floor[p]
  /\ ~merge_order => x_floor = floor[P!X]
  /\ (merge_order /\ P!Y \in InOrder) \/ floor[P!Y] = y_wm \/ floor[P!Y] \in y_last
  /\ P!Bounds(P!Y, P!X) => \A e \in YEvents : e.index <= x_floor

\* The rows that wait are the X events after the rows that are out.
ForwardRows ==
  /\ rows = {x \in taken : x.port = P!X /\ Len(out) <= x.nth}
  /\ Len(out) <= Sent(P!X)
  /\ \A x \in rows : last_forwarded <= x.index

\* The y events that wait are the last ones, and those passed bound every row
\* to come.
Newest(S) == {a \in S : \A b \in S : b.nth <= a.nth}
ForwardPassed ==
  /\ events \subseteq YEvents
  /\ \A a \in PassedY, b \in events : a.nth < b.nth
  /\ base = Newest(PassedY)
  /\ \A a \in PassedY : a.index <= floor[P!X] /\ \A x \in rows : a.index <= x.index

ForwardLast ==
  /\ \A e \in YEvents : \E l \in y_last : e.index <= l
  /\ \A l \in y_last : (\E e \in YEvents : e.index = l) /\ \A m \in y_last : l = m

\* The row of x is out: no y event can change its target.
IsOut(i, x) ==
  /\ x.port = P!X /\ x.nth = i - 1 /\ out[i] = P!PairOf(x, P!TargetOf(x))
  /\ \/ P!Y \in ended
     \/ x.index < floor[P!Y] /\ \E e \in YEvents : x.index <= e.index
ForwardOut == \A i \in 1 .. Len(out) : \E x \in taken : IsOut(i, x)

\* Between two calls no row waits in vain, and no y event does.
ForwardIdle ==
  call = "idle" /\ error = "none" /\ ended = {} =>
    /\ P!Settled
    /\ rows = {} => \A e \in events : x_floor < e.index
    /\ rows # {} => events = {}

ForwardInv ==
  /\ ForwardTypes /\ ForwardCalls /\ ForwardFloors
  /\ ForwardRows /\ ForwardPassed /\ ForwardLast /\ ForwardOut /\ ForwardIdle

LEMMA PairFacts ==
  /\ P!X \in Ports /\ P!Y \in Ports /\ P!X # P!Y /\ \A p \in Ports : p = P!X \/ p = P!Y
  /\ P!Ports = Ports /\ P!Index = Index /\ \A p : P!Sent(p) = Sent(p)
  /\ Indexes \subseteq Index /\ InOrder \subseteq Ports /\ NeverAhead \subseteq Ports /\ Modes \subseteq BOOLEAN
  /\ kMin \in Index /\ kMax \in Index /\ \A k \in Index : k \in Int /\ kMin <= k /\ k <= kMax
<1>1. P!Ports = Ports /\ P!Index = Index
  BY DEF P!Ports, Ports, P!Index, Index
<1>2. \A p : P!Sent(p) = Sent(p)
  BY Zenon DEF P!Sent, Sent, P!Cardinality, Cardinality
<1>3. N = 2 /\ Indexes \subseteq Index /\ InOrder \subseteq Ports /\ NeverAhead \subseteq Ports /\ Modes \subseteq BOOLEAN
  BY <1>1, PairAssumptions DEF P!PairAssumption
<1>4. P!X \in Ports /\ P!Y \in Ports /\ P!X # P!Y /\ \A p \in Ports : p = P!X \/ p = P!Y
  BY <1>3 DEF Ports, P!X, P!Y
<1>5. kMin \in Index /\ kMax \in Index /\ \A k \in Index : k \in Int /\ kMin <= k /\ k <= kMax
  BY IndexAssumption DEF Index
<1> QED BY <1>1, <1>2, <1>3, <1>4, <1>5

LEMMA LargerIs ==
  ASSUME NEW a \in Index, NEW b \in Index
  PROVE  /\ P!Larger(a, b) \in Index /\ a <= P!Larger(a, b) /\ b <= P!Larger(a, b)
         /\ P!Larger(a, b) = a \/ P!Larger(a, b) = b
         /\ \A c \in Int : a <= c /\ b <= c => P!Larger(a, b) <= c
         /\ a <= b => P!Larger(a, b) = b
         /\ b <= a => P!Larger(a, b) = a
BY PairFacts DEF P!Larger

\* The y events that are passed once those up to t are taken, of which the base
\* is the last.
LEMMA TakeYIs ==
  ASSUME ForwardTypes, ForwardPassed, NEW t \in Index
  PROVE  LET rest == events \ P!UpToIndex(t)
         IN  /\ P!BaseAt(t) = Newest(YEvents \ rest)
             /\ \A a \in YEvents \ rest : a \in PassedY \/ a.index <= t
             /\ \A a \in YEvents \ rest, b \in rest : a.nth < b.nth
             /\ \A b \in rest : b \in events /\ t < b.index
             /\ (\A a \in PassedY : a.index <= t) => P!BaseAt(t) = P!Latest(P!Y, t)
<1> DEFINE up == P!UpToIndex(t)
           rest == events \ up
           Q == YEvents \ rest
<1>1. /\ up = {e \in events : e.index <= t} /\ events \subseteq YEvents
      /\ \A e \in YEvents : e \in taken /\ e.port = P!Y /\ e.index \in Int /\ e.nth \in Nat
      /\ \A a \in PassedY, b \in events : a.nth < b.nth
      /\ PassedY = YEvents \ events
  BY PairFacts DEF ForwardTypes, ForwardPassed, P!UpToIndex, YEvents, Numbered, PassedY
<1>2. Q = PassedY \cup up
  BY <1>1
<1>3. P!Upto(P!Y, t) = {e \in YEvents : e.index <= t}
  BY DEF P!Upto, YEvents
<1>6. P!BaseAt(t) = Newest(Q)
  <2>1. CASE up = {}
    BY <2>1, <1>2 DEF P!BaseAt, ForwardPassed
  <2>2. CASE up # {}
    <3>1. P!BaseAt(t) = {e \in up : \A d \in up : d.nth <= e.nth}
      BY <2>2 DEF P!BaseAt, P!IsNewest
    <3>2. ASSUME NEW e \in up, \A d \in up : d.nth <= e.nth PROVE e \in Newest(Q)
      <4>1. \A d \in PassedY : d.nth <= e.nth
        <5>1. \A d \in PassedY : d.nth \in Nat /\ e.nth \in Nat /\ d.nth < e.nth
          BY <1>1
        <5> QED BY <5>1
      <4> QED BY <3>2, <4>1, <1>2 DEF Newest
    <3>3. ASSUME NEW e \in Newest(Q) PROVE e \in up /\ \A d \in up : d.nth <= e.nth
      <4>1. e \in Q /\ \A d \in Q : d.nth <= e.nth
        BY DEF Newest
      <4>2. PICK u \in up : TRUE
        BY <2>2
      <4>3. e \notin PassedY
        <5>1. ASSUME e \in PassedY PROVE FALSE
          <6>1. e.nth < u.nth /\ u.nth <= e.nth /\ e.nth \in Nat /\ u.nth \in Nat
            BY <5>1, <4>1, <4>2, <1>1, <1>2
          <6> QED BY <6>1
        <5> QED BY <5>1
      <4> QED BY <4>1, <4>3, <1>2
    <3> QED BY <3>1, <3>2, <3>3
  <2> QED BY <2>1, <2>2
<1>7. (\A a \in PassedY : a.index <= t) => P!BaseAt(t) = P!Latest(P!Y, t)
  <2>1. ASSUME \A a \in PassedY : a.index <= t PROVE Q = P!Upto(P!Y, t)
    BY <2>1, <1>1, <1>2, <1>3
  <2> QED BY <2>1, <1>6 DEF P!Latest, Newest
<1>8. ASSUME NEW a \in Q, NEW b \in rest PROVE a.nth < b.nth
  <2>1. CASE a \in PassedY
    BY <2>1, <1>1
  <2>2. CASE a \in up
    <3>1. a \in taken /\ b \in taken /\ a.port = b.port /\ a.index < b.index /\ a.nth \in Nat /\ b.nth \in Nat
          /\ a.index \in Int /\ b.index \in Int
      BY <2>2, <1>1, PairFacts
    <3>2. /\ a.nth = b.nth => a = b
          /\ b.nth < a.nth => b.index <= a.index
      BY <3>1 DEF ForwardTypes, Numbered
    <3> QED BY <3>1, <3>2
  <2> QED BY <1>2, <2>1, <2>2
<1>9. \A b \in rest : b \in events /\ t < b.index
  BY <1>1, PairFacts
<1> QED BY <1>1, <1>2, <1>6, <1>7, <1>8, <1>9

\* Y events that come later change no target of a row that is out.
LEMMA OutStable ==
  ASSUME ForwardTypes, ForwardOut, taken \subseteq taken', ended \subseteq ended',
         \A e \in taken' : e \in taken \/ e.port # P!Y \/ (P!Y \notin ended /\ floor[P!Y] <= e.index /\ e.index \in Int),
         floor' \in [Ports -> Index], floor[P!Y] <= floor'[P!Y], out' = out
  PROVE  ForwardOut'
<1>1. ASSUME NEW i \in 1 .. Len(out), NEW x \in taken, IsOut(i, x)
      PROVE  IsOut(i, x)'
  <2>1. /\ x.port = P!X /\ x.nth = i - 1 /\ out[i] = P!PairOf(x, P!TargetOf(x))
        /\ \/ P!Y \in ended
           \/ x.index < floor[P!Y] /\ \E e \in taken : e.port = P!Y /\ x.index <= e.index
    BY <1>1 DEF IsOut, YEvents
  <2>2. /\ x.index \in Int /\ floor[P!Y] \in Int /\ floor'[P!Y] \in Int
        /\ \A e \in taken : e.index \in Int
    BY PairFacts DEF ForwardTypes, Numbered
  <2>3. \/ P!Y \in ended'
        \/ x.index < floor'[P!Y] /\ \E e \in taken' : e.port = P!Y /\ x.index <= e.index
    BY <2>1, <2>2
  <2>4. \A e \in taken' : e.port = P!Y /\ e.index <= x.index => e \in taken
    BY <2>1, <2>2
  <2>5. P!Upto(P!Y, x.index)' = P!Upto(P!Y, x.index)
    <3>1. P!Upto(P!Y, x.index)' = {e \in taken' : e.port = P!Y /\ e.index <= x.index}
      BY DEF P!Upto
    <3> QED BY <3>1, <2>4 DEF P!Upto
  <2>6. P!Latest(P!Y, x.index)' = P!Latest(P!Y, x.index)
    BY <2>5 DEF P!Latest
  <2>7. (\E e \in taken' : e.port = P!Y /\ x.index <= e.index) <=> (\E e \in taken : e.port = P!Y /\ x.index <= e.index)
    BY <2>1
  <2>8. P!TargetOf(x)' = P!TargetOf(x)
    BY <2>6, <2>7 DEF P!TargetOf
  <2>9. P!PairOf(x, P!TargetOf(x))' = P!PairOf(x, P!TargetOf(x)')
    BY DEF P!PairOf
  <2> QED BY <2>1, <2>3, <2>8, <2>9 DEF IsOut, YEvents
<1> QED BY <1>1 DEF ForwardOut

\* The row of the oldest X event is the next one.
LEMMA OldestRow ==
  ASSUME ForwardTypes, ForwardRows, NEW x \in rows, P!Oldest(x)
  PROVE  /\ x \in taken /\ x.port = P!X /\ x.nth = Len(out) /\ Len(out) < Sent(P!X)
         /\ x.index \in Index /\ x.index <= floor[P!X] /\ last_forwarded <= x.index
         /\ \A d \in rows : x.index <= d.index /\ (d # x => Len(out) + 1 <= d.nth)
<1>1. /\ \A d \in rows : d \in taken /\ d.port = P!X /\ Len(out) <= d.nth /\ d.nth \in Nat /\ d.index \in Int
      /\ Len(out) \in Nat /\ \A p : Sent(p) \in Nat
  BY SentIsNat, PairFacts DEF ForwardTypes, ForwardRows, Numbered
<1>2. /\ \A d \in rows : x.nth <= d.nth
      /\ x.nth < Sent(P!X) /\ x.index \in Index /\ x.index <= floor[P!X] /\ last_forwarded <= x.index
  BY <1>1 DEF ForwardTypes, ForwardRows, Numbered, P!Oldest, P!IsOldest
<1>3. Len(out) < Sent(P!X)
  BY <1>1, <1>2
<1>4. PICK d \in taken : d.port = P!X /\ d.nth = Len(out)
  BY <1>1, <1>3, PairFacts DEF ForwardTypes, Numbered
<1>5. d \in rows
  BY <1>1, <1>4 DEF ForwardRows
<1>6. x.nth = Len(out)
  BY <1>1, <1>2, <1>4, <1>5
<1>7. ASSUME NEW c \in rows PROVE x.index <= c.index /\ (c # x => Len(out) + 1 <= c.nth)
  <2>1. /\ x.nth = c.nth => x = c
        /\ x.nth < c.nth => x.index <= c.index
    BY <1>1 DEF ForwardTypes, Numbered
  <2>2. x.nth <= c.nth /\ x.index \in Int /\ x.nth \in Nat /\ c.nth \in Nat
    BY <1>1, <1>2
  <2> QED BY <2>1, <2>2, <1>6
<1> QED BY <1>1, <1>2, <1>3, <1>6, <1>7

\* The events passed do not change while no event is passed and no y event comes.
LEMMA PassedKept ==
  ASSUME ForwardInv, YEvents' = YEvents, events' = events, base' = base,
         rows' \subseteq taken',
         \A x \in rows' : x \in rows \/ (floor[P!X] <= x.index /\ x.index \in Int),
         floor' \in [Ports -> Index], floor[P!X] <= floor'[P!X]
  PROVE  ForwardPassed' /\ PassedY' = PassedY
<1>1. PassedY = YEvents \ events
  BY DEF PassedY, YEvents
<1>2. PassedY' = YEvents' \ events'
  BY DEF PassedY, YEvents
<1>3. PassedY' = PassedY
  BY <1>1, <1>2
<1>4. ASSUME NEW a \in PassedY
      PROVE  a.index <= floor'[P!X] /\ \A x \in rows' : a.index <= x.index
  <2>1. a.index \in Int /\ a.index <= floor[P!X] /\ \A x \in rows : a.index <= x.index
    BY PairFacts DEF ForwardInv, ForwardTypes, ForwardPassed, Numbered, PassedY
  <2>2. floor[P!X] \in Int /\ floor'[P!X] \in Int
    BY PairFacts DEF ForwardInv, ForwardTypes
  <2> QED BY <2>1, <2>2
<1>5. Newest(PassedY)' = Newest(PassedY)
  BY <1>3 DEF Newest
<1> QED BY <1>3, <1>4, <1>5 DEF ForwardInv, ForwardPassed

LEMMA ArrivesFacts ==
  ASSUME ForwardInv, NEW p \in Ports, NEW t \in Indexes, P!Arrives(p, t)
  PROVE  LET e == P!NewEvent(p, t)
         IN  /\ e.index = t /\ e.port = p /\ e.nth = Sent(p) /\ e.nth \in Nat /\ e \in P!Event
             /\ e \notin taken /\ taken' = taken \cup {e} /\ taken' \subseteq P!Event
             /\ Numbered' /\ Sent(p)' = Sent(p) + 1 /\ \A q : q # p => Sent(q)' = Sent(q)
             /\ t \in Index /\ floor[p] <= t /\ p \notin ended
             /\ floor' = [floor EXCEPT ![p] = t] /\ floor' \in [Ports -> Index]
             /\ \A q \in Ports : floor[q] <= floor'[q]
             /\ (merge_order /\ p \in NeverAhead => t <= clock)
<1> DEFINE e == P!NewEvent(p, t)
<1>1. /\ P!MaySend(p, t) /\ taken' = taken \cup {e} /\ floor' = [floor EXCEPT ![p] = t]
      /\ t \in Index /\ floor \in [Ports -> Index] /\ Numbered
  BY PairFacts DEF P!Arrives, ForwardInv, ForwardTypes
<1>2. \A q : Sent(q) \in Nat
  BY <1>1, SentIsNat DEF Numbered
<1>3. e.index = t /\ e.port = p /\ e.nth = Sent(p)
  BY PairFacts DEF P!NewEvent
<1>4. e \in P!Event
  BY <1>1, <1>2, PairFacts DEF P!NewEvent, P!Event
<1>5. floor[p] <= t /\ p \notin ended /\ (merge_order /\ p \in NeverAhead => t <= clock)
  BY <1>1 DEF P!MaySend, P!MayPromise
<1>6. PICK d : d = e
  OBVIOUS
<1>7. Numbered' /\ e \notin taken /\ Sent(p)' = Sent(p) + 1 /\ \A q : q # p => Sent(q)' = Sent(q)
  <2>1. /\ d.port = p /\ d.index = t /\ d.nth = Sent(d.port) /\ floor[d.port] <= d.index
        /\ taken' = taken \cup {d} /\ floor' = [floor EXCEPT ![d.port] = d.index]
    BY <1>1, <1>3, <1>5, <1>6
  <2>2. /\ Numbered' /\ d \notin taken /\ Sent(d.port)' = Sent(d.port) + 1
        /\ \A q : q # d.port => Sent(q)' = Sent(q)
    BY <2>1, <1>1, EventAdded
  <2> QED BY <2>1, <2>2, <1>6
<1>8. floor' \in [Ports -> Index] /\ \A q \in Ports : floor[q] <= floor'[q]
  BY <1>1, <1>5, PairFacts
<1>9. taken' \subseteq P!Event
  BY <1>1, <1>4 DEF ForwardInv, ForwardTypes
<1> QED BY <1>1, <1>2, <1>3, <1>4, <1>5, <1>6, <1>7, <1>8, <1>9

LEMMA PushXInv ==
  ASSUME ForwardInv, NEW t \in Indexes, P!PushX(t)
  PROVE  ForwardInv'
<1> DEFINE e == P!NewEvent(P!X, t)
<1> USE DEF ForwardInv
<1>1. P!Arrives(P!X, t)
  BY DEF P!PushX
<1>2. /\ e.index = t /\ e.port = P!X /\ e.nth = Sent(P!X) /\ e.nth \in Nat
      /\ e \notin taken /\ taken' = taken \cup {e} /\ taken' \subseteq P!Event
      /\ Numbered' /\ Sent(P!X)' = Sent(P!X) + 1
      /\ t \in Index /\ floor[P!X] <= t /\ P!X \notin ended
      /\ floor' = [floor EXCEPT ![P!X] = t] /\ floor' \in [Ports -> Index]
      /\ \A q \in Ports : floor[q] <= floor'[q]
  BY <1>1, ArrivesFacts, PairFacts
<1>3. /\ rows' = rows \cup {e} /\ x_floor' = P!Larger(x_floor, t)
      /\ UNCHANGED <<events, base, y_last, y_wm, out, ended, clock, merge_order, flushed, last_forwarded, error, flushes>>
      /\ call' = "x"
  BY <1>1 DEF P!PushX, P!Arrives
<1>4. YEvents' = YEvents
  BY <1>2, PairFacts DEF YEvents
<1>5. x_floor \in Index /\ floor[P!X] \in Index /\ floor[P!Y] \in Index /\ clock \in Index /\ last_forwarded \in Index
  BY PairFacts DEF ForwardTypes
<1>6. floor'[P!X] = t /\ floor'[P!Y] = floor[P!Y]
  BY <1>2, PairFacts DEF ForwardTypes
<1>7. x_floor' = t /\ x_floor <= t
  BY <1>2, <1>3, <1>5, LargerIs, PairFacts DEF ForwardFloors
<1>8. ForwardTypes'
  BY <1>2, <1>3, <1>7 DEF ForwardTypes
<1>9. ForwardCalls'
  BY <1>2, <1>3, PairFacts DEF ForwardCalls
<1>10. ForwardFloors'
  <2>1. x_floor' <= floor'[P!X] /\ y_wm' <= floor'[P!Y] /\ last_forwarded' <= floor'[P!X]
    BY <1>2, <1>3, <1>5, <1>6, <1>7, PairFacts DEF ForwardFloors
  <2>2. merge_order' => \A p \in InOrder : clock' <= floor'[p]
    BY <1>2, <1>3, <1>5, PairFacts DEF ForwardFloors, ForwardTypes
  <2>3. P!Bounds(P!Y, P!X)' => \A d \in YEvents' : d.index <= x_floor'
    <3>1. P!Bounds(P!Y, P!X)' = P!Bounds(P!Y, P!X)
      BY <1>3 DEF P!Bounds
    <3>2. ASSUME NEW d \in YEvents, d.index <= x_floor PROVE d.index <= x_floor'
      <4>1. d.index \in Int
        BY PairFacts DEF YEvents, ForwardTypes, Numbered
      <4> QED BY <4>1, <3>2, <1>2, <1>5, <1>7, PairFacts
    <3> QED BY <3>1, <3>2, <1>4 DEF ForwardFloors
  <2> QED BY <2>1, <2>2, <2>3, <1>3, <1>6, <1>7 DEF ForwardFloors
<1>11. ForwardRows'
  <2>1. Len(out) \in Nat /\ Len(out) <= Sent(P!X) /\ Sent(P!X) \in Nat
    BY SentIsNat DEF ForwardTypes, ForwardRows, Numbered
  <2>2. rows' = {x \in taken' : x.port = P!X /\ Len(out') <= x.nth}
    BY <2>1, <1>2, <1>3 DEF ForwardRows
  <2>3. \A x \in rows' : last_forwarded' <= x.index
    BY <1>2, <1>3, <1>5, PairFacts DEF ForwardRows, ForwardFloors
  <2> QED BY <2>1, <2>2, <2>3, <1>2, <1>3 DEF ForwardRows, Sent
<1>12. ForwardPassed'
  <2>1. rows' \subseteq taken'
    BY <1>2, <1>3 DEF ForwardRows
  <2>2. \A x \in rows' : x \in rows \/ (floor[P!X] <= x.index /\ x.index \in Int)
    BY <1>2, <1>3, PairFacts
  <2> QED BY <2>1, <2>2, <1>2, <1>3, <1>4, PassedKept, PairFacts
<1>13. ForwardLast'
  BY <1>3, <1>4 DEF ForwardLast
<1>14. ForwardOut'
  <2>1. \A d \in taken' : d \in taken \/ d.port # P!Y
    BY <1>2, PairFacts
  <2> QED BY <2>1, <1>2, <1>3, OutStable, PairFacts
<1>15. ForwardIdle'
  BY <1>3 DEF ForwardIdle
<1> QED BY <1>8, <1>9, <1>10, <1>11, <1>12, <1>13, <1>14, <1>15

LEMMA PushYInv ==
  ASSUME ForwardInv, NEW t \in Indexes, P!PushY(t)
  PROVE  ForwardInv'
<1> DEFINE e == P!NewEvent(P!Y, t)
<1> USE DEF ForwardInv
<1>1. P!Arrives(P!Y, t)
  BY DEF P!PushY
<1>2. /\ e.index = t /\ e.port = P!Y /\ e.nth = Sent(P!Y) /\ e.nth \in Nat
      /\ e \notin taken /\ taken' = taken \cup {e} /\ taken' \subseteq P!Event
      /\ Numbered' /\ \A q : q # P!Y => Sent(q)' = Sent(q)
      /\ t \in Index /\ floor[P!Y] <= t /\ P!Y \notin ended
      /\ floor' = [floor EXCEPT ![P!Y] = t] /\ floor' \in [Ports -> Index]
      /\ \A q \in Ports : floor[q] <= floor'[q]
      /\ (merge_order /\ P!Y \in NeverAhead => t <= clock)
  BY <1>1, ArrivesFacts, PairFacts
<1>3. /\ events' = events \cup {e} /\ y_last' = {t}
      /\ x_floor' = IF P!Bounds(P!Y, P!X) THEN P!Larger(x_floor, t) ELSE x_floor
      /\ UNCHANGED <<rows, base, y_wm, out, ended, clock, merge_order, flushed, last_forwarded, error, flushes>>
      /\ call' = "y"
  BY <1>1, PairFacts DEF P!PushY, P!Arrives
<1>4. YEvents' = YEvents \cup {e} /\ e \notin YEvents
  BY <1>2, PairFacts DEF YEvents
<1>5. /\ x_floor \in Index /\ floor[P!X] \in Index /\ floor[P!Y] \in Index /\ clock \in Index /\ last_forwarded \in Index
      /\ y_wm \in Index
      /\ \A d \in YEvents : d \in taken /\ d.port = P!Y /\ d.index \in Int /\ d.index <= floor[P!Y] /\ d.nth < Sent(P!Y)
      /\ \A k \in Index : k \in Int
  BY PairFacts DEF ForwardTypes, YEvents, Numbered
<1>6. floor'[P!Y] = t /\ floor'[P!X] = floor[P!X]
  BY <1>2, PairFacts DEF ForwardTypes
<1>7. x_floor' \in Index /\ x_floor <= x_floor' /\ (P!Bounds(P!Y, P!X) => t <= x_floor')
  BY <1>2, <1>3, <1>5, LargerIs
<1>8. ForwardTypes'
  BY <1>2, <1>3, <1>7 DEF ForwardTypes
<1>9. ForwardCalls'
  BY <1>2, <1>3, PairFacts DEF ForwardCalls
<1>10. ForwardFloors'
  <2>1. x_floor' <= floor'[P!X]
    <3>1. CASE P!Bounds(P!Y, P!X)
      <4>1. merge_order /\ P!X \in InOrder /\ P!Y \in NeverAhead
        BY <3>1 DEF P!Bounds
      <4>2. t <= clock /\ clock <= floor[P!X] /\ x_floor <= floor[P!X]
        BY <4>1, <1>2 DEF ForwardFloors
      <4> QED BY <4>2, <3>1, <1>2, <1>3, <1>5, <1>6, LargerIs
    <3>2. CASE ~P!Bounds(P!Y, P!X)
      BY <3>2, <1>3, <1>6 DEF ForwardFloors
    <3> QED BY <3>1, <3>2
  <2>2. y_wm' <= floor'[P!Y] /\ last_forwarded' <= floor'[P!X]
    BY <1>2, <1>3, <1>5, <1>6 DEF ForwardFloors
  <2>3. merge_order' => \A p \in InOrder : clock' <= floor'[p]
    BY <1>2, <1>3, <1>5, PairFacts DEF ForwardFloors, ForwardTypes
  <2>4. ~merge_order' => x_floor' = floor'[P!X]
    BY <1>3, <1>6 DEF ForwardFloors, P!Bounds
  <2>5. P!Bounds(P!Y, P!X)' => \A d \in YEvents' : d.index <= x_floor'
    <3>1. P!Bounds(P!Y, P!X)' = P!Bounds(P!Y, P!X)
      BY <1>3 DEF P!Bounds
    <3>2. ASSUME NEW d \in YEvents, d.index <= x_floor PROVE d.index <= x_floor'
      BY <3>2, <1>5, <1>7
    <3> QED BY <3>1, <3>2, <1>2, <1>4, <1>7 DEF ForwardFloors
  <2>6. floor'[P!Y] \in y_last'
    BY <1>3, <1>6
  <2> QED BY <2>1, <2>2, <2>3, <2>4, <2>5, <2>6 DEF ForwardFloors
<1>11. ForwardRows'
  <2>1. Sent(P!X)' = Sent(P!X)
    BY <1>2, PairFacts
  <2>2. rows' = {x \in taken' : x.port = P!X /\ Len(out') <= x.nth}
    BY <1>2, <1>3, PairFacts DEF ForwardRows
  <2> QED BY <2>1, <2>2, <1>3 DEF ForwardRows, Sent
<1>12. ForwardPassed'
  <2>1. PassedY = YEvents \ events
    BY DEF PassedY, YEvents
  <2>2. PassedY' = YEvents' \ events'
    BY DEF PassedY, YEvents
  <2>3. PassedY' = PassedY
    BY <2>1, <2>2, <1>3, <1>4 DEF ForwardPassed
  <2>4. \A a \in PassedY : a.nth < e.nth
    BY <2>1, <1>2, <1>5
  <2>5. Newest(PassedY)' = Newest(PassedY)
    BY <2>3 DEF Newest
  <2> QED BY <2>3, <2>4, <2>5, <1>3, <1>4, <1>6 DEF ForwardPassed
<1>13. ForwardLast'
  <2>1. \A d \in YEvents' : d.index <= t
    BY <1>2, <1>4, <1>5
  <2> QED BY <2>1, <1>2, <1>3, <1>4 DEF ForwardLast
<1>14. ForwardOut'
  <2>1. \A d \in taken' : d \in taken \/ (P!Y \notin ended /\ floor[P!Y] <= d.index /\ d.index \in Int)
    BY <1>2, PairFacts
  <2> QED BY <2>1, <1>2, <1>3, OutStable, PairFacts
<1>15. ForwardIdle'
  BY <1>3 DEF ForwardIdle
<1> QED BY <1>8, <1>9, <1>10, <1>11, <1>12, <1>13, <1>14, <1>15

\* Promises change nothing of the rows and the events.
LEMMA FloorsForward ==
  ASSUME ForwardInv, floor' \in [Ports -> Index], \A p \in Ports : floor[p] <= floor'[p],
         ended \subseteq ended',
         UNCHANGED <<taken, out, rows, events, base, y_last, last_forwarded>>
  PROVE  Numbered' /\ ForwardRows' /\ ForwardPassed' /\ ForwardLast' /\ ForwardOut'
<1> USE DEF ForwardInv
<1>1. Numbered' /\ \A p : Sent(p)' = Sent(p)
  BY FloorsUp DEF ForwardTypes
<1>2. YEvents' = YEvents
  BY DEF YEvents
<1>3. ForwardRows'
  <2>1. Sent(P!X)' = Sent(P!X)
    BY <1>1
  <2> QED BY <2>1 DEF ForwardRows, Sent
<1>4. ForwardPassed'
  <2>1. rows' \subseteq taken'
    BY DEF ForwardRows
  <2> QED BY <2>1, <1>2, PassedKept, PairFacts
<1>5. ForwardLast'
  BY <1>2 DEF ForwardLast
<1>6. ForwardOut'
  BY OutStable, PairFacts
<1> QED BY <1>1, <1>3, <1>4, <1>5, <1>6

\* A port's promise to w, or its end with w = kMax.
LEMMA ReachesInv ==
  ASSUME ForwardInv, NEW p \in Ports, NEW w \in Index, P!Reaches(p, w),
         p \notin ended, ended \subseteq ended', ended' \subseteq Ports, flushed' \subseteq Ports,
         flushed = ended => flushed' = ended',
         floor' = [floor EXCEPT ![p] = P!Larger(floor[p], w)],
         call' \in {"watermark", "flush"},
         UNCHANGED <<taken, out, clock, merge_order, last_forwarded, error, flushes>>
  PROVE  ForwardInv'
<1> USE DEF ForwardInv
<1>1. /\ x_floor' = IF p = P!X THEN P!Larger(x_floor, w) ELSE x_floor
      /\ y_wm' = IF p = P!Y THEN P!Larger(y_wm, w) ELSE y_wm
      /\ UNCHANGED <<rows, events, base, y_last>>
  BY DEF P!Reaches
<1>2. /\ x_floor \in Index /\ y_wm \in Index /\ clock \in Index /\ last_forwarded \in Index
      /\ floor[P!X] \in Index /\ floor[P!Y] \in Index /\ floor \in [Ports -> Index]
      /\ \A k \in Index : k \in Int
  BY PairFacts DEF ForwardTypes
<1>3. /\ floor' \in [Ports -> Index]
      /\ \A q \in Ports : floor[q] <= floor'[q]
  BY <1>2, LargerIs, PairFacts
<1>4. /\ p = P!X => floor'[P!X] = P!Larger(floor[P!X], w) /\ floor'[P!Y] = floor[P!Y]
      /\ p = P!Y => floor'[P!Y] = P!Larger(floor[P!Y], w) /\ floor'[P!X] = floor[P!X]
  BY <1>2, PairFacts
<1>5. /\ x_floor' \in Index /\ y_wm' \in Index /\ x_floor <= x_floor'
      /\ x_floor' <= floor'[P!X] /\ y_wm' <= floor'[P!Y] /\ last_forwarded' <= floor'[P!X]
      /\ ~merge_order' => x_floor' = floor'[P!X]
  <2>1. x_floor <= floor[P!X] /\ y_wm <= floor[P!Y] /\ last_forwarded <= floor[P!X]
        /\ (~merge_order => x_floor = floor[P!X])
    BY DEF ForwardFloors
  <2>2. CASE p = P!X
    <3>1. /\ x_floor' = P!Larger(x_floor, w) /\ floor'[P!X] = P!Larger(floor[P!X], w)
          /\ y_wm' = y_wm /\ floor'[P!Y] = floor[P!Y]
      BY <2>2, <1>1, <1>4, PairFacts
    <3>2. x_floor' <= floor'[P!X]
      BY <3>1, <2>1, <1>2, LargerIs
    <3> QED BY <3>1, <3>2, <2>1, <1>2, LargerIs
  <2>3. CASE p = P!Y
    <3>1. /\ y_wm' = P!Larger(y_wm, w) /\ floor'[P!Y] = P!Larger(floor[P!Y], w)
          /\ x_floor' = x_floor /\ floor'[P!X] = floor[P!X]
      BY <2>3, <1>1, <1>4, PairFacts
    <3>2. y_wm' <= floor'[P!Y]
      BY <3>1, <2>1, <1>2, LargerIs
    <3> QED BY <3>1, <3>2, <2>1, <1>2, LargerIs
  <2> QED BY <2>2, <2>3, PairFacts
<1>6. /\ Numbered' /\ ForwardRows' /\ ForwardPassed' /\ ForwardLast' /\ ForwardOut'
  BY <1>1, <1>3, FloorsForward
<1>7. ForwardTypes'
  BY <1>1, <1>3, <1>5, <1>6 DEF ForwardTypes
<1>8. ForwardCalls'
  BY PairFacts DEF ForwardCalls
<1>9. ForwardFloors'
  <2>1. merge_order' => \A q \in InOrder : clock' <= floor'[q]
    BY <1>2, <1>3, PairFacts DEF ForwardFloors
  <2>2. \/ merge_order' /\ P!Y \in InOrder
        \/ floor'[P!Y] = y_wm'
        \/ floor'[P!Y] \in y_last'
    <3>1. CASE merge_order /\ P!Y \in InOrder
      BY <3>1
    <3>2. CASE p = P!X /\ (floor[P!Y] = y_wm \/ floor[P!Y] \in y_last)
      BY <3>2, <1>1, <1>4, PairFacts
    <3>3. CASE p = P!Y /\ floor[P!Y] = y_wm
      BY <3>3, <1>1, <1>4, PairFacts
    <3>4. CASE p = P!Y /\ floor[P!Y] \in y_last
      <4>1. y_wm' = P!Larger(y_wm, w) /\ floor'[P!Y] = P!Larger(floor[P!Y], w) /\ y_wm <= floor[P!Y]
        BY <3>4, <1>1, <1>4 DEF ForwardFloors
      <4>2. CASE w <= floor[P!Y]
        BY <4>1, <4>2, <3>4, <1>1, <1>2, LargerIs
      <4>3. CASE floor[P!Y] <= w
        <5>1. y_wm <= w
          BY <4>1, <4>3, <1>2
        <5> QED BY <4>1, <4>3, <5>1, <1>2, LargerIs
      <4> QED BY <4>2, <4>3, <1>2
    <3> QED BY <3>1, <3>2, <3>3, <3>4, PairFacts DEF ForwardFloors
  <2>3. P!Bounds(P!Y, P!X)' => \A d \in YEvents' : d.index <= x_floor'
    <3>1. P!Bounds(P!Y, P!X)' = P!Bounds(P!Y, P!X) /\ YEvents' = YEvents
      BY DEF P!Bounds, YEvents
    <3>2. ASSUME NEW d \in YEvents, d.index <= x_floor PROVE d.index <= x_floor'
      <4>1. d.index \in Int
        BY <1>2 DEF YEvents, ForwardTypes, Numbered
      <4> QED BY <4>1, <3>2, <1>2, <1>5
    <3> QED BY <3>1, <3>2 DEF ForwardFloors
  <2> QED BY <2>1, <2>2, <2>3, <1>5 DEF ForwardFloors
<1>10. ForwardIdle'
  BY DEF ForwardIdle
<1> QED BY <1>6, <1>7, <1>8, <1>9, <1>10

LEMMA WatermarkForward ==
  ASSUME ForwardInv, NEW p \in Ports, NEW w \in Index, P!OnWatermark(p, w)
  PROVE  ForwardInv'
<1>1. /\ P!Reaches(p, w) /\ p \notin ended
      /\ floor' = [floor EXCEPT ![p] = P!Larger(floor[p], w)]
      /\ call' = "watermark"
      /\ UNCHANGED <<taken, out, ended, clock, merge_order, flushed, last_forwarded, error, flushes>>
  BY DEF P!OnWatermark, P!Promises, P!MayPromise
<1>2. ended \subseteq Ports /\ flushed \subseteq Ports
  BY DEF ForwardInv, ForwardTypes
<1> QED BY <1>1, <1>2, ReachesInv

LEMMA FlushForward ==
  ASSUME ForwardInv, NEW p \in Ports, P!FlushPort(p)
  PROVE  ForwardInv'
<1>1. /\ P!Reaches(p, kMax) /\ p \notin ended
      /\ floor' = [floor EXCEPT ![p] = kMax]
      /\ ended' = ended \cup {p} /\ flushed' = flushed \cup {p}
      /\ call' = "flush"
      /\ UNCHANGED <<taken, out, clock, merge_order, last_forwarded, error, flushes>>
  BY DEF P!FlushPort, P!Ends
<1>2. ended \subseteq Ports /\ flushed \subseteq Ports
  BY DEF ForwardInv, ForwardTypes
<1>3. P!Larger(floor[p], kMax) = kMax /\ kMax \in Index
  BY LargerIs, PairFacts DEF ForwardInv, ForwardTypes
<1> QED BY <1>1, <1>2, <1>3, ReachesInv

LEMMA MergeMovesForward ==
  ASSUME ForwardInv, NEW t \in Index, P!MergeMoves(t), UNCHANGED P!joinVars
  PROVE  ForwardInv'
<1> USE DEF ForwardInv
<1>1. /\ merge_order /\ call = "idle" /\ error = "none"
      /\ clock' = t /\ clock < t
      /\ floor' = [q \in Ports |-> IF q \in InOrder THEN P!Larger(floor[q], t) ELSE floor[q]]
      /\ UNCHANGED <<taken, out, ended, merge_order, flushed, last_forwarded, call, error, flushes>>
      /\ UNCHANGED <<rows, events, base, y_last, y_wm, x_floor>>
  BY PairFacts DEF P!MergeMoves, P!Idle, P!joinVars
<1>2. /\ floor' \in [Ports -> Index] /\ \A q \in Ports : floor[q] <= floor'[q]
      /\ \A q \in InOrder : t <= floor'[q]
      /\ P!Y \notin InOrder => floor'[P!Y] = floor[P!Y]
  BY <1>1, LargerIs, PairFacts DEF ForwardTypes
<1>3. /\ Numbered' /\ ForwardRows' /\ ForwardPassed' /\ ForwardLast' /\ ForwardOut'
  BY <1>1, <1>2, FloorsForward
<1>4. ForwardTypes'
  BY <1>1, <1>2, <1>3 DEF ForwardTypes
<1>5. ForwardCalls'
  BY <1>1 DEF ForwardCalls
<1>6. ForwardFloors'
  <2>1. P!Bounds(P!Y, P!X)' = P!Bounds(P!Y, P!X) /\ YEvents' = YEvents
    BY <1>1 DEF P!Bounds, YEvents
  <2>2. x_floor' <= floor'[P!X] /\ y_wm' <= floor'[P!Y] /\ last_forwarded' <= floor'[P!X]
    <3>1. /\ x_floor \in Int /\ y_wm \in Int /\ last_forwarded \in Int
          /\ floor[P!X] \in Int /\ floor[P!Y] \in Int /\ floor'[P!X] \in Int /\ floor'[P!Y] \in Int
      BY <1>2, PairFacts DEF ForwardTypes
    <3> QED BY <3>1, <1>1, <1>2, PairFacts DEF ForwardFloors
  <2> QED BY <2>1, <2>2, <1>1, <1>2 DEF ForwardFloors
<1>7. ForwardIdle'
  BY <1>1 DEF ForwardIdle, P!Settled, P!Oldest, P!IsOldest, P!Known
<1> QED BY <1>3, <1>4, <1>5, <1>6, <1>7

\* The y events up to t are passed: t bounds the rows that stay.
LEMMA TakesForward ==
  ASSUME ForwardInv, NEW t \in Index, P!TakeY(t), t <= floor[P!X],
         rows' \subseteq rows, \A x \in rows' : t <= x.index,
         UNCHANGED <<taken, floor>>
  PROVE  ForwardPassed'
<1> USE DEF ForwardInv
<1> DEFINE rest == events \ P!UpToIndex(t)
<1>1. events' = rest /\ base' = P!BaseAt(t)
  BY DEF P!TakeY
<1>2. /\ P!BaseAt(t) = Newest(YEvents \ rest)
      /\ \A a \in YEvents \ rest : a \in PassedY \/ a.index <= t
      /\ \A a \in YEvents \ rest, b \in rest : a.nth < b.nth
      /\ \A b \in rest : b \in events
  BY TakeYIs
<1>3. YEvents' = YEvents
  BY DEF YEvents
<1>4. PassedY' = YEvents \ rest
  BY <1>1, <1>3 DEF PassedY, YEvents
<1>5. Newest(PassedY)' = Newest(YEvents \ rest)
  BY <1>4 DEF Newest
<1>6. ASSUME NEW a \in YEvents \ rest
      PROVE  a.index <= floor[P!X] /\ \A x \in rows' : a.index <= x.index
  <2>1. a.index \in Int /\ t \in Int /\ floor[P!X] \in Int /\ \A x \in rows : x.index \in Int
    BY PairFacts DEF YEvents, ForwardTypes, Numbered, ForwardRows
  <2>2. CASE a \in PassedY
    BY <2>2 DEF ForwardPassed
  <2>3. CASE a.index <= t
    BY <2>1, <2>3
  <2> QED BY <1>2, <2>2, <2>3
<1> QED BY <1>1, <1>2, <1>3, <1>4, <1>5, <1>6 DEF ForwardPassed

LEMMA EmitForward ==
  ASSUME ForwardInv, NEW x \in rows, P!Oldest(x), NEW target, P!Emit(x, target), target \subseteq taken,
         target = P!TargetOf(x),
         \/ P!Y \in ended
         \/ x.index < floor[P!Y] /\ \E e \in YEvents : x.index <= e.index,
         call # "idle"
  PROVE  ForwardInv'
<1> USE DEF ForwardInv
<1>1. /\ P!TakeY(x.index) /\ rows' = rows \ {x} /\ out' = Append(out, P!PairOf(x, target))
      /\ UNCHANGED <<taken, floor, ended, y_last, y_wm, x_floor>>
      /\ UNCHANGED <<clock, merge_order, flushed, last_forwarded, call, error, flushes>>
  BY DEF P!Emit, P!pairVars
<1>2. /\ x \in taken /\ x.port = P!X /\ x.nth = Len(out) /\ Len(out) < Sent(P!X)
      /\ x.index \in Index /\ x.index <= floor[P!X] /\ last_forwarded <= x.index
      /\ \A d \in rows : x.index <= d.index /\ (d # x => Len(out) + 1 <= d.nth)
  BY OldestRow
<1> DEFINE row == P!PairOf(x, target)
<1>3. row \in P!Row
  <2>1. x \in P!Event /\ target \subseteq P!Event
    BY <1>2 DEF ForwardTypes
  <2> QED BY <2>1, <1>2, PairFacts DEF P!PairOf, P!Row
<1>4. PICK r \in P!Row : r = row
  BY <1>3
<1>5. /\ out' \in Seq(P!Row) /\ Len(out') = Len(out) + 1 /\ Len(out) \in Nat
      /\ \A i \in 1 .. Len(out) : out'[i] = out[i]
      /\ out'[Len(out) + 1] = r
  BY <1>1, <1>4 DEF ForwardTypes
<1>6. Numbered' /\ YEvents' = YEvents /\ \A p : Sent(p)' = Sent(p)
  BY <1>1, FloorsUp, PairFacts DEF YEvents, ForwardTypes
<1>7. ForwardTypes'
  BY <1>1, <1>5, <1>6 DEF ForwardTypes
<1>8. ForwardCalls'
  BY <1>1 DEF ForwardCalls
<1>9. ForwardFloors'
  BY <1>1, <1>6 DEF ForwardFloors, P!Bounds
<1>10. ForwardRows'
  <2>1. Sent(P!X)' = Sent(P!X)
    BY <1>6
  <2>2. \A d \in taken : d.nth \in Nat
    BY DEF ForwardTypes, Numbered
  <2>3. rows' = {d \in taken : d.port = P!X /\ Len(out) + 1 <= d.nth}
    <3>1. \A d \in rows' : Len(out) + 1 <= d.nth
      BY <1>1, <1>2
    <3>2. \A d \in taken : Len(out) + 1 <= d.nth => Len(out) <= d.nth /\ d.nth # Len(out)
      BY <1>5, <2>2
    <3> QED BY <3>1, <3>2, <1>1, <1>2 DEF ForwardRows
  <2>4. Len(out) + 1 <= Sent(P!X)
    BY <1>2, <1>5, SentIsNat DEF ForwardTypes, Numbered
  <2> QED BY <2>1, <2>3, <2>4, <1>1, <1>5 DEF ForwardRows, Sent
<1>11. ForwardPassed'
  BY <1>1, <1>2, TakesForward
<1>12. ForwardLast'
  BY <1>1, <1>6 DEF ForwardLast
<1>13. ForwardOut'
  <2>1. ASSUME NEW i \in 1 .. Len(out), NEW c \in taken, IsOut(i, c) PROVE IsOut(i, c)'
    <3>1. P!PairOf(c, P!TargetOf(c))' = P!PairOf(c, P!TargetOf(c))
      BY <1>1 DEF P!PairOf, P!TargetOf, P!Latest, P!Upto
    <3> QED BY <2>1, <3>1, <1>1, <1>5, <1>6 DEF IsOut
  <2>2. ASSUME NEW k, k = Len(out) + 1 PROVE IsOut(k, x)'
    <3>1. P!PairOf(x, P!TargetOf(x))' = P!PairOf(x, P!TargetOf(x))
      BY <1>1 DEF P!PairOf, P!TargetOf, P!Latest, P!Upto
    <3>2. out'[k] = P!PairOf(x, P!TargetOf(x))
      BY <2>2, <1>4, <1>5
    <3>3. x.nth = k - 1
      BY <2>2, <1>2, <1>5
    <3> QED BY <3>1, <3>2, <3>3, <1>1, <1>2, <1>6 DEF IsOut
  <2>3. \A i \in 1 .. Len(out') : i \in 1 .. Len(out) \/ i = Len(out) + 1
    BY <1>5
  <2>4. ASSUME NEW i \in 1 .. Len(out') PROVE \E c \in taken' : IsOut(i, c)'
    <3>1. CASE i \in 1 .. Len(out)
      BY <3>1, <2>1, <1>1 DEF ForwardOut
    <3>2. CASE i = Len(out) + 1
      BY <3>2, <2>2, <1>1, <1>2 DEF IsOut
    <3> QED BY <2>3, <3>1, <3>2
  <2> QED BY <2>4 DEF ForwardOut
<1>14. ForwardIdle'
  BY <1>1 DEF ForwardIdle
<1> QED BY <1>7, <1>8, <1>9, <1>10, <1>11, <1>12, <1>13, <1>14

\* The base at an index that bounds the y events passed is the last y event at or
\* below it.
LEMMA BaseIsLatest ==
  ASSUME ForwardInv, NEW x \in rows
  PROVE  P!BaseAt(x.index) = P!Latest(P!Y, x.index) /\ P!Latest(P!Y, x.index) \subseteq taken
<1>1. \A a \in PassedY : a.index <= x.index
  BY DEF ForwardInv, ForwardPassed
<1>2. x.index \in Index
  BY DEF ForwardInv, ForwardTypes, ForwardRows, Numbered
<1> QED BY <1>1, <1>2, TakeYIs DEF ForwardInv, P!Latest, P!Upto

LEMMA EmitKnownForward ==
  ASSUME ForwardInv, P!EmitKnown
  PROVE  ForwardInv'
<1>1. PICK x \in rows : P!Oldest(x) /\ P!Known(x.index) /\ P!Emit(x, P!BaseAt(x.index))
  BY DEF P!EmitKnown
<1>2. PICK l \in y_last : x.index < l \/ (l = x.index /\ x.index < y_wm)
  BY <1>1 DEF P!Known
<1>3. PICK e \in YEvents : e.index = l
  BY <1>2 DEF ForwardInv, ForwardLast
<1>4. x.index \in Int /\ l \in Int /\ y_wm \in Int /\ floor[P!Y] \in Int /\ l <= floor[P!Y] /\ y_wm <= floor[P!Y]
      /\ e \in taken /\ e.port = P!Y
  BY <1>3, PairFacts DEF ForwardInv, ForwardTypes, ForwardFloors, ForwardRows, Numbered, YEvents
<1>5. x.index < floor[P!Y] /\ x.index <= e.index
  BY <1>2, <1>3, <1>4
<1>6. PICK target : target = P!BaseAt(x.index)
  OBVIOUS
<1>7. target = P!TargetOf(x) /\ target \subseteq taken
  BY <1>4, <1>5, <1>6, BaseIsLatest DEF P!TargetOf
<1>8. P!Emit(x, target)
  BY <1>1, <1>6 DEF P!Emit
<1>9. call # "idle"
  BY DEF P!EmitKnown
<1> QED BY <1>1, <1>5, <1>7, <1>8, <1>9, EmitForward

LEMMA DrainForward ==
  ASSUME ForwardInv, P!DrainRow
  PROVE  ForwardInv'
<1> DEFINE Drained(x) == IF \E l \in y_last : x.index <= l THEN P!BaseAt(x.index) ELSE {}
<1>1. PICK x \in rows : P!Oldest(x) /\ P!Emit(x, Drained(x))
  BY DEF P!DrainRow
<1>2. PICK target : target = Drained(x)
  OBVIOUS
<1>3. P!Emit(x, target)
  BY <1>1, <1>2 DEF P!Emit
<1>4. x.index \in Int /\ (\A l \in y_last : l \in Int) /\ \A e \in YEvents : e \in taken /\ e.port = P!Y /\ e.index \in Int
  BY PairFacts DEF ForwardInv, ForwardTypes, ForwardRows, Numbered, YEvents
<1>5. (\E l \in y_last : x.index <= l) <=> (\E e \in taken : e.port = P!Y /\ x.index <= e.index)
  <2>1. ASSUME NEW l \in y_last, x.index <= l PROVE \E e \in taken : e.port = P!Y /\ x.index <= e.index
    BY <2>1, <1>4 DEF ForwardInv, ForwardLast
  <2>2. ASSUME NEW e \in taken, e.port = P!Y, x.index <= e.index PROVE \E l \in y_last : x.index <= l
    <3>1. e \in YEvents
      BY <2>2 DEF YEvents
    <3>2. PICK l \in y_last : e.index <= l
      BY <3>1 DEF ForwardInv, ForwardLast
    <3> QED BY <2>2, <3>1, <3>2, <1>4
  <2> QED BY <2>1, <2>2
<1>6. target = P!TargetOf(x) /\ target \subseteq taken
  BY <1>2, <1>5, BaseIsLatest DEF P!TargetOf
<1>7. call = "drain" /\ P!Y \in ended
  BY PairFacts DEF P!DrainRow, ForwardInv, ForwardCalls
<1> QED BY <1>1, <1>3, <1>6, <1>7, EmitForward

\* The end of a handler but for its return: nothing waits in vain any more.
LEMMA SettledForward ==
  ASSUME ForwardInv, P!EndSettle, UNCHANGED <<taken, out, floor, ended, clock, merge_order>>
  PROVE  /\ Numbered' /\ ForwardPassed' /\ ForwardLast' /\ ForwardOut'
         /\ P!Settled'
         /\ rows' = {} => \A e \in events' : x_floor' < e.index
         /\ rows' # {} => events' = {}
         /\ UNCHANGED <<rows, y_last, y_wm, x_floor>>
<1> USE DEF ForwardInv
<1>1. P!Settled /\ UNCHANGED <<rows, y_last, y_wm, x_floor>>
  BY DEF P!EndSettle
<1>2. Numbered' /\ YEvents' = YEvents /\ \A p : Sent(p)' = Sent(p)
  BY FloorsUp, PairFacts DEF YEvents, ForwardTypes
<1>3. PICK t \in Index : /\ P!TakeY(t) /\ t <= floor[P!X] /\ \A x \in rows : t <= x.index
                         /\ rows = {} => t = x_floor
                         /\ rows # {} => \E x \in rows : P!Oldest(x) /\ t = x.index
  <2>1. CASE rows = {}
    <3>1. P!TakeY(x_floor) /\ x_floor \in Index /\ x_floor <= floor[P!X]
      BY <2>1 DEF P!EndSettle, ForwardTypes, ForwardFloors
    <3>2. PICK t \in Index : t = x_floor
      BY <3>1
    <3>3. P!TakeY(t)
      BY <3>1, <3>2 DEF P!TakeY
    <3> QED BY <2>1, <3>1, <3>2, <3>3
  <2>2. CASE rows # {}
    <3>1. PICK x \in rows : P!Oldest(x) /\ P!TakeY(x.index)
      BY <2>2 DEF P!EndSettle
    <3>2. x.index \in Index /\ x.index <= floor[P!X] /\ \A d \in rows : x.index <= d.index
      BY <3>1, OldestRow
    <3> QED BY <2>2, <3>1, <3>2
  <2> QED BY <2>1, <2>2
<1>4. ForwardPassed'
  BY <1>1, <1>3, TakesForward
<1>5. ForwardOut'
  BY OutStable, PairFacts DEF ForwardTypes
<1>6. ForwardLast'
  BY <1>1, <1>2 DEF ForwardLast
<1>7. P!Settled'
  BY <1>1 DEF P!Settled, P!Oldest, P!IsOldest, P!Known
<1>8. events' = events \ P!UpToIndex(t) /\ \A b \in events' : b \in YEvents /\ t < b.index
  BY <1>3, TakeYIs DEF P!TakeY, ForwardPassed
<1>9. rows' = {} => \A e \in events' : x_floor' < e.index
  BY <1>1, <1>3, <1>8
<1>10. rows' # {} => events' = {}
  <2>1. ASSUME rows # {}, NEW b \in events' PROVE FALSE
    <3>1. PICK x \in rows : P!Oldest(x) /\ t = x.index
      BY <1>3, <2>1
    <3>2. ~P!Known(t)
      BY <1>1, <3>1 DEF P!Settled
    <3>3. b \in YEvents /\ t < b.index
      BY <1>8
    <3>4. PICK l \in y_last : b.index <= l
      BY <3>3 DEF ForwardLast
    <3>5. t < l
      <4>1. t \in Int /\ b.index \in Int /\ l \in Int
        BY <3>3, <3>4, PairFacts DEF ForwardTypes, Numbered, YEvents
      <4> QED BY <4>1, <3>3, <3>4
    <3> QED BY <3>2, <3>4, <3>5 DEF P!Known
  <2> QED BY <2>1, <1>1
<1> QED BY <1>1, <1>2, <1>4, <1>5, <1>6, <1>7, <1>9, <1>10

\* The ends of the handlers.
LEMMA ReturnForward ==
  ASSUME ForwardInv, P!EndSettle, P!EndPush \/ P!EndWatermark \/ P!EndFlushFirst \/ P!EndFlush
  PROVE  ForwardInv'
<1> USE DEF ForwardInv
<1>1. UNCHANGED <<taken, out, floor, ended, clock, merge_order>>
  BY DEF P!EndPush, P!EndWatermark, P!EndFlushFirst, P!EndFlush, P!Return, P!BeginDrain, P!streamVars
<1>2. /\ Numbered' /\ ForwardPassed' /\ ForwardLast' /\ ForwardOut'
      /\ P!Settled' /\ (rows' = {} => \A e \in events' : x_floor' < e.index) /\ (rows' # {} => events' = {})
      /\ UNCHANGED <<rows, y_last, y_wm, x_floor>>
  BY <1>1, SettledForward
<1>3. /\ call' = "idle" \/ (call' = "drain" /\ flushed = Ports)
      /\ flushes' = flushes /\ flushed' = flushed /\ call # "idle"
      /\ error' \in {"none", "overflow"}
  BY PairFacts DEF P!EndPush, P!EndWatermark, P!EndFlushFirst, P!EndFlush, P!Return, P!BeginDrain, ForwardTypes
<1>4. /\ last_forwarded' \in Index /\ last_forwarded' <= floor[P!X]
      /\ \A x \in rows : last_forwarded' <= x.index
  <2>1. CASE P!EndWatermark
    <3>1. PICK t \in Index : /\ last_forwarded' = P!Larger(last_forwarded, t)
                             /\ t <= floor[P!X] /\ \A x \in rows : t <= x.index
      <4>1. CASE rows = {}
        BY <4>1, <2>1 DEF P!EndWatermark, P!Forward, ForwardTypes, ForwardFloors
      <4>2. CASE rows # {}
        <5>1. PICK x \in rows : P!Oldest(x) /\ P!Forward(x.index)
          BY <4>2, <2>1 DEF P!EndWatermark
        <5> QED BY <5>1, OldestRow DEF P!Forward
      <4> QED BY <4>1, <4>2
    <3>2. last_forwarded \in Index /\ last_forwarded <= floor[P!X] /\ \A x \in rows : last_forwarded <= x.index
      BY DEF ForwardTypes, ForwardFloors, ForwardRows
    <3> QED BY <3>1, <3>2, LargerIs
  <2>2. CASE last_forwarded' = last_forwarded
    BY <2>2 DEF ForwardTypes, ForwardFloors, ForwardRows
  <2>3. P!EndWatermark \/ last_forwarded' = last_forwarded
    BY DEF P!EndPush, P!EndFlushFirst, P!EndFlush, P!BeginDrain
  <2> QED BY <2>1, <2>2, <2>3
<1>5. ForwardTypes'
  BY <1>1, <1>2, <1>3, <1>4 DEF ForwardTypes
<1>6. ForwardCalls'
  BY <1>1, <1>2, <1>3 DEF ForwardCalls
<1>7. ForwardFloors'
  <2>1. P!Bounds(P!Y, P!X)' = P!Bounds(P!Y, P!X) /\ YEvents' = YEvents
    BY <1>1 DEF P!Bounds, YEvents
  <2> QED BY <2>1, <1>1, <1>2, <1>4 DEF ForwardFloors
<1>8. ForwardRows'
  <2>1. Sent(P!X)' = Sent(P!X)
    BY <1>1 DEF Sent
  <2> QED BY <2>1, <1>1, <1>2, <1>4 DEF ForwardRows, Sent
<1>9. ForwardIdle'
  BY <1>2 DEF ForwardIdle
<1> QED BY <1>2, <1>5, <1>6, <1>7, <1>8, <1>9

LEMMA EndDrainForward ==
  ASSUME ForwardInv, P!EndDrain
  PROVE  ForwardInv'
<1> USE DEF ForwardInv
<1>1. /\ rows = {} /\ call = "drain" /\ flushed' = {} /\ flushes' = flushes + 1 /\ call' = "idle" /\ error' = error
      /\ UNCHANGED <<taken, out, floor, ended, clock, merge_order, last_forwarded>>
      /\ UNCHANGED <<rows, events, base, y_last, y_wm, x_floor>>
  BY DEF P!EndDrain, P!FlushDown, P!Return, P!joinVars, P!streamVars
<1>2. flushes = 0 /\ ended = Ports
  BY <1>1 DEF ForwardCalls
<1>3. Numbered' /\ ForwardRows' /\ ForwardPassed' /\ ForwardLast' /\ ForwardOut'
  BY <1>1, FloorsForward, PairFacts DEF ForwardTypes
<1>4. ForwardTypes'
  BY <1>1, <1>3 DEF ForwardTypes
<1>5. ForwardCalls'
  BY <1>1, <1>2 DEF ForwardCalls
<1>6. ForwardFloors'
  <2>1. P!Bounds(P!Y, P!X)' = P!Bounds(P!Y, P!X) /\ YEvents' = YEvents
    BY <1>1 DEF P!Bounds, YEvents
  <2> QED BY <2>1, <1>1 DEF ForwardFloors
<1>7. ForwardIdle'
  BY <1>1, <1>2, PairFacts DEF ForwardIdle
<1> QED BY <1>3, <1>4, <1>5, <1>6, <1>7

LEMMA InitForward ==
  P!Init => ForwardInv
<1> SUFFICES ASSUME P!Init PROVE ForwardInv
  OBVIOUS
<1>1. /\ taken = {} /\ out = <<>> /\ floor = [p \in Ports |-> kMin] /\ ended = {}
      /\ clock = kMin /\ merge_order \in Modes /\ flushed = {} /\ last_forwarded = kMin
      /\ call = "idle" /\ error = "none" /\ flushes = 0
      /\ rows = {} /\ events = {} /\ base = {} /\ y_last = {} /\ y_wm = kMin /\ x_floor = kMin
  BY PairFacts DEF P!Init, P!PortsInit, P!SInit
<1>2. Numbered /\ \A p : Sent(p) = 0
  BY <1>1, NoneSent
<1>3. YEvents = {} /\ PassedY = {} /\ Newest(PassedY) = {}
  BY <1>1 DEF YEvents, PassedY, Newest
<1>4. floor[P!X] = kMin /\ floor[P!Y] = kMin /\ kMin \in Int /\ (\A p \in InOrder : floor[p] = kMin)
  BY <1>1, PairFacts
<1>5. ForwardTypes
  BY <1>1, <1>2, PairFacts DEF ForwardTypes
<1>6. ForwardCalls /\ ForwardLast /\ ForwardIdle
  BY <1>1, <1>3 DEF ForwardCalls, ForwardLast, ForwardIdle, P!Settled
<1>7. ForwardFloors
  BY <1>1, <1>3, <1>4 DEF ForwardFloors
<1>8. ForwardRows /\ ForwardPassed /\ ForwardOut
  BY <1>1, <1>2, <1>3 DEF ForwardRows, ForwardPassed, ForwardOut
<1> QED BY <1>5, <1>6, <1>7, <1>8 DEF ForwardInv

LEMMA ResetForward ==
  ASSUME ForwardInv, NEW m \in Modes, P!Reset(m)
  PROVE  ForwardInv'
<1>1. /\ taken' = {} /\ out' = <<>> /\ floor' = [p \in Ports |-> kMin] /\ ended' = {}
      /\ clock' = kMin /\ merge_order' \in Modes /\ flushed' = {} /\ last_forwarded' = kMin
      /\ call' = "idle" /\ error' = "none" /\ flushes' = 0
      /\ rows' = {} /\ events' = {} /\ base' = {} /\ y_last' = {} /\ y_wm' = kMin /\ x_floor' = kMin
  BY PairFacts DEF P!Reset, P!ResetPorts, P!Restart
<1>2. Numbered' /\ \A p : Sent(p)' = 0
  BY <1>1, NoEvents
<1>3. YEvents' = {} /\ PassedY' = {} /\ Newest(PassedY)' = {}
  BY <1>1 DEF YEvents, PassedY, Newest
<1>4. floor'[P!X] = kMin /\ floor'[P!Y] = kMin /\ kMin \in Int /\ (\A p \in InOrder : floor'[p] = kMin)
  BY <1>1, PairFacts
<1>5. ForwardTypes'
  BY <1>1, <1>2, PairFacts DEF ForwardTypes
<1>6. ForwardCalls' /\ ForwardLast' /\ ForwardIdle'
  BY <1>1, <1>3 DEF ForwardCalls, ForwardLast, ForwardIdle, P!Settled
<1>7. ForwardFloors'
  BY <1>1, <1>3, <1>4 DEF ForwardFloors
<1>8. ForwardRows' /\ ForwardPassed' /\ ForwardOut'
  <2>1. Sent(P!X)' = 0
    BY <1>2
  <2>2. ForwardRows'
    BY <2>1, <1>1 DEF ForwardRows, Sent
  <2> QED BY <2>2, <1>1, <1>3 DEF ForwardPassed, ForwardOut
<1> QED BY <1>5, <1>6, <1>7, <1>8 DEF ForwardInv

LEMMA NextForward ==
  ASSUME ForwardInv, P!Next
  PROVE  ForwardInv'
<1>1. CASE \E t \in Indexes : P!PushX(t) \/ P!PushY(t)
  BY <1>1, PushXInv, PushYInv
<1>2. CASE \E p \in Ports, w \in Index : P!OnWatermark(p, w)
  BY <1>2, WatermarkForward
<1>3. CASE \E p \in Ports : P!FlushPort(p)
  BY <1>3, FlushForward
<1>4. CASE P!Handler
  <2>1. CASE P!EmitKnown
    BY <2>1, EmitKnownForward
  <2>2. CASE P!DrainRow
    BY <2>2, DrainForward
  <2>3. CASE P!EndDrain
    BY <2>3, EndDrainForward
  <2>4. CASE P!EndPush \/ P!EndWatermark \/ P!EndFlushFirst \/ P!EndFlush
    BY <2>4, ReturnForward DEF P!EndPush, P!EndWatermark, P!EndFlushFirst, P!EndFlush
  <2> QED BY <1>4, <2>1, <2>2, <2>3, <2>4 DEF P!Handler
<1>5. CASE \E t \in Index : P!MergeMoves(t) /\ UNCHANGED P!joinVars
  BY <1>5, MergeMovesForward
<1>6. CASE \E m \in Modes : P!Reset(m)
  BY <1>6, ResetForward
<1> QED BY <1>1, <1>2, <1>3, <1>4, <1>5, <1>6, PairFacts DEF P!Next

LEMMA ForwardRight ==
  ForwardInv => P!RowsRight /\ P!EndEmitsAll /\ P!SavedStateLoads
<1> SUFFICES ASSUME ForwardInv PROVE P!RowsRight /\ P!EndEmitsAll /\ P!SavedStateLoads
  OBVIOUS
<1>1. P!RowsRight
  BY DEF ForwardInv, ForwardOut, IsOut, P!RowsRight
<1>2. ASSUME flushes > 0 PROVE flushes = 1 /\ rows = {} /\ Len(out) = P!Sent(P!X)
  <2>1. flushes = 1 /\ rows = {}
    BY <1>2 DEF ForwardInv, ForwardCalls
  <2>2. Len(out) \in Nat /\ Sent(P!X) \in Nat /\ Len(out) <= Sent(P!X)
    BY SentIsNat DEF ForwardInv, ForwardTypes, ForwardRows, Numbered
  <2>3. ~ Len(out) < Sent(P!X)
    <3>1. ASSUME Len(out) < Sent(P!X) PROVE FALSE
      <4>1. PICK d \in taken : d.port = P!X /\ d.nth = Len(out)
        BY <3>1, <2>2, PairFacts DEF ForwardInv, ForwardTypes, Numbered
      <4> QED BY <4>1, <2>1, <2>2 DEF ForwardInv, ForwardRows
    <3> QED BY <3>1
  <2> QED BY <2>1, <2>2, <2>3, PairFacts
<1>3. P!SavedStateLoads
  <2>1. \A d, e \in taken : d.port = e.port => (d.nth < e.nth => d.index <= e.index)
    BY DEF ForwardInv, ForwardTypes, Numbered
  <2>2. (\A d \in rows : d \in taken /\ d.port = P!X) /\ (\A d \in events : d \in taken /\ d.port = P!Y)
    BY DEF ForwardInv, ForwardRows, ForwardPassed, YEvents
  <2> QED BY <2>1, <2>2 DEF P!SavedStateLoads, P!Ordered
<1> QED BY <1>1, <1>2, <1>3 DEF P!EndEmitsAll

\* A delayed y: never ahead of the merge, but not in order with it.
DelayedY == P!X \in InOrder /\ P!Y \notin InOrder /\ P!Y \in NeverAhead

LEMMA ForwardWaits ==
  ASSUME ForwardInv, DelayedY
  PROVE  P!WaitsForCause
<1> USE DEF ForwardInv
<1> SUFFICES ASSUME P!Idle, ended = {}
             PROVE  /\ \A x \in rows : \A e \in taken :
                         e.port = P!Y /\ x.index <= e.index => e.index = x.index /\ floor[P!Y] <= x.index
                    /\ \A e \in events : floor[P!X] < e.index /\ ~merge_order
  BY DEF P!WaitsForCause
<1>1. /\ P!Settled
      /\ rows = {} => \A e \in events : x_floor < e.index
      /\ rows # {} => events = {}
  BY DEF ForwardIdle, P!Idle
<1>2. ASSUME NEW e \in events PROVE floor[P!X] < e.index /\ ~merge_order
  <2>1. x_floor < e.index /\ e \in YEvents
    BY <1>1, <1>2 DEF ForwardPassed
  <2>2. e.index \in Int /\ x_floor \in Int
    BY <2>1, PairFacts DEF ForwardTypes, YEvents, Numbered
  <2>3. ~merge_order
    BY <2>1, <2>2 DEF ForwardFloors, P!Bounds, DelayedY
  <2> QED BY <2>1, <2>3 DEF ForwardFloors
<1>3. ASSUME NEW x \in rows, NEW e \in taken, e.port = P!Y, x.index <= e.index
      PROVE  e.index = x.index /\ floor[P!Y] <= x.index
  <2>1. \A d \in rows : d \in taken /\ d.port = P!X /\ Len(out) <= d.nth /\ d.nth \in Nat /\ d.nth < Sent(P!X)
    BY DEF ForwardRows, ForwardTypes, Numbered
  <2>2. Len(out) \in Nat /\ Sent(P!X) \in Nat
    BY SentIsNat DEF ForwardTypes, Numbered
  <2>3. PICK d \in taken : d.port = P!X /\ d.nth = Len(out)
    BY <2>1, <2>2, PairFacts DEF ForwardTypes, Numbered
  <2>4. d \in rows /\ P!Oldest(d)
    BY <2>1, <2>2, <2>3 DEF ForwardRows, P!Oldest, P!IsOldest
  <2>5. d.index <= x.index
    BY <2>4, OldestRow
  <2>6. ~P!Known(d.index)
    BY <1>1, <2>4 DEF P!Settled
  <2>7. PICK l \in y_last : e.index <= l /\ \A m \in y_last : l = m
    BY <1>3 DEF ForwardLast, YEvents
  <2>8. ~(d.index < l) /\ ~(l = d.index /\ d.index < y_wm)
    BY <2>6, <2>7 DEF P!Known
  <2>9. d.index \in Int /\ x.index \in Int /\ e.index \in Int /\ l \in Int /\ y_wm \in Int
    BY <2>1, <2>3, <2>7, PairFacts DEF ForwardTypes, Numbered
  <2>10. e.index = x.index /\ l = x.index /\ y_wm <= x.index /\ l = d.index
    BY <1>3, <2>5, <2>7, <2>8, <2>9
  <2>11. floor[P!Y] = y_wm \/ floor[P!Y] = l
    BY <2>7 DEF ForwardFloors, DelayedY
  <2> QED BY <2>9, <2>10, <2>11
<1> QED BY <1>2, <1>3

\* A row is at no index below a watermark that was sent down.
LEMMA ForwardPromise ==
  ASSUME ForwardInv, P!Next, Len(out') > Len(out)
  PROVE  last_forwarded <= out'[Len(out')].index
<1> USE DEF ForwardInv
<1>1. P!EmitKnown \/ P!DrainRow
  <2>1. ASSUME out' = out PROVE FALSE
    BY <2>1 DEF ForwardTypes
  <2>2. ASSUME out' = <<>> PROVE FALSE
    BY <2>2 DEF ForwardTypes
  <2> QED BY <2>1, <2>2 DEF P!Next, P!PushX, P!PushY, P!Arrives, P!OnWatermark, P!Promises, P!FlushPort, P!Ends,
       P!Handler, P!EndPush, P!EndWatermark, P!EndFlushFirst, P!EndFlush, P!BeginDrain, P!EndDrain, P!FlushDown,
       P!Return, P!streamVars, P!MergeMoves, P!Reset, P!ResetPorts, P!Restart
<1>2. PICK x \in rows : P!Oldest(x) /\ \E target : P!Emit(x, target)
  BY <1>1 DEF P!EmitKnown, P!DrainRow
<1>3. PICK target : out' = Append(out, P!PairOf(x, target))
  BY <1>2 DEF P!Emit
<1>4. PICK r : r = P!PairOf(x, target)
  OBVIOUS
<1>5. out'[Len(out')] = r
  BY <1>3, <1>4 DEF ForwardTypes
<1> QED BY <1>2, <1>4, <1>5, OldestRow DEF P!PairOf

-----------------------------------------------------------------------------
(* The lead.                                                               *)

\* The pairs made so far.
Made == Len(out) + Len(ring)

LeadTypes ==
  /\ Numbered /\ taken \subseteq L!Event
  /\ floor \in [Ports -> Index] /\ ended \subseteq Ports /\ out \in Seq(L!Row)
  /\ clock \in Index /\ merge_order \in BOOLEAN /\ flushed \subseteq Ports
  /\ last_forwarded \in Index /\ flushes \in Nat
  /\ call \in {"idle", "x", "y", "watermark", "flush", "drain"}
  /\ error \in {"none", "overflow", "one clock"}
  /\ queue \subseteq taken /\ ring \in Seq(L!Event) /\ lo \in [Ports -> Index]

\* The rows that wait are drained, or all of them are out.
Drained == call = "drain" \/ flushes = 1

LeadCalls ==
  /\ flushes = 0 \/ (flushes = 1 /\ call = "idle" /\ ring = <<>>)
  /\ Drained => ended = Ports /\ error = "none"
  /\ flushes = 0 => flushed = ended
  /\ call # "idle" => error = "none"

LeadFloors ==
  /\ \A p \in Ports : lo[p] <= floor[p] /\ Sent(p) <= MaxEvents + 1
  /\ \A p \in ended : lo[p] = kMax
  /\ merge_order => \A p \in Ports : clock <= floor[p]
  /\ ~merge_order => lo = floor

\* What waits are the events after the pairs, and the pairs are on one clock.
LeadQueue ==
  /\ queue = {e \in taken : Made <= e.nth}
  /\ \A p \in Ports : Made <= Sent(p)
  /\ \A a, b \in taken : a.nth = b.nth /\ a.nth < Made => a.index = b.index

\* The ring keeps the X events of the last pairs, and is full once a row is out.
LeadRing ==
  /\ \A i \in 1 .. Len(ring) : ring[i] \in taken /\ ring[i].port = L!X /\ ring[i].nth = Len(out) + i - 1
  /\ Len(ring) <= Count
  /\ Len(ring) < Count => out = <<>> \/ Drained

\* A row has its target, the y event of a later pair, or none is to come.
HasTarget(i, x) ==
  /\ x.port = L!X /\ x.nth = i - 1
  /\ \/ i - 1 + Count < Made /\ \E y \in taken : y.port = L!Y /\ y.nth = i - 1 + Count /\ out[i] = L!PairOf(x, {y})
     \/ Made <= i - 1 + Count /\ Drained /\ out[i] = L!PairOf(x, {})
LeadOut == \A i \in 1 .. Len(out) : \E x \in taken : HasTarget(i, x)

\* Between two calls, and while it drains, the node has paired what it can; if
\* it raised, X and y are not on one clock.
LeadMatched ==
  /\ call \in {"idle", "drain"} /\ error = "none" => L!Matched
  /\ error = "one clock" => L!Differ(Made) /\ Made <= MaxEvents

\* What was sent down bounds the kept rows, and the events of one port to come.
Ahead(p) == last_forwarded <= floor[p] /\ \A e \in queue : e.port = p => last_forwarded <= e.index
LeadAhead ==
  /\ \A i \in 1 .. Len(ring) : last_forwarded <= ring[i].index
  /\ Ahead(L!X) \/ Ahead(L!Y)

LeadInv ==
  /\ LeadTypes /\ LeadCalls /\ LeadFloors /\ LeadQueue /\ LeadRing /\ LeadOut /\ LeadMatched /\ LeadAhead

LEMMA LeadFacts ==
  /\ L!X \in Ports /\ L!Y \in Ports /\ L!X # L!Y /\ \A p \in Ports : p = L!X \/ p = L!Y
  /\ \A p \in Ports : 1 - p \in Ports /\ 1 - p # p /\ \A q \in Ports : q = p \/ q = 1 - p
  /\ 1 - L!X = L!Y /\ 1 - L!Y = L!X
  /\ L!Ports = Ports /\ L!Index = Index /\ \A p : L!Sent(p) = Sent(p)
  /\ Indexes \subseteq Index /\ NeverAhead \subseteq Ports /\ Modes \subseteq BOOLEAN
  /\ Count \in Nat /\ Count > 0 /\ MaxEvents + 1 \in Nat /\ MaxEvents \in Nat
  /\ kMin \in Index /\ kMax \in Index /\ \A k \in Index : k \in Int /\ kMin <= k /\ k <= kMax
<1>1. L!Ports = Ports /\ L!Index = Index
  BY DEF L!Ports, Ports, L!Index, Index
<1>2. \A p : L!Sent(p) = Sent(p)
  BY Zenon DEF L!Sent, Sent, L!Cardinality, Cardinality
<1>3. /\ N = 2 /\ Indexes \subseteq Index /\ NeverAhead \subseteq Ports /\ Modes \subseteq BOOLEAN
      /\ MaxEvents + 1 \in Nat
  BY <1>1, PairAssumptions DEF L!PairAssumption
<1>4. Count \in Nat /\ Count > 0
  BY PairAssumptions DEF L!LeadAssumption
<1>5. MaxEvents \in Nat
  BY JoinAssumptions DEF J!JoinAssumption
<1>6. Ports = {0, 1} /\ L!X = 0 /\ L!Y = 1
  BY <1>3 DEF Ports, L!X, L!Y
<1>7. kMin \in Index /\ kMax \in Index /\ \A k \in Index : k \in Int /\ kMin <= k /\ k <= kMax
  BY IndexAssumption DEF Index
<1> QED BY <1>1, <1>2, <1>3, <1>4, <1>5, <1>6, <1>7

LEMMA LargerOf ==
  ASSUME NEW a \in Index, NEW b \in Index
  PROVE  /\ L!Larger(a, b) \in Index /\ a <= L!Larger(a, b) /\ b <= L!Larger(a, b)
         /\ L!Larger(a, b) = a \/ L!Larger(a, b) = b
         /\ \A c \in Int : a <= c /\ b <= c => L!Larger(a, b) <= c
         /\ a <= b => L!Larger(a, b) = b
         /\ b <= a => L!Larger(a, b) = a
BY LeadFacts DEF L!Larger

LEMMA MadeIsNat ==
  ASSUME LeadTypes
  PROVE  Made \in Nat /\ Len(out) \in Nat /\ Len(ring) \in Nat /\ Made = Len(out) + Len(ring)
         /\ \A p : Sent(p) \in Nat
<1>1. Len(out) \in Nat /\ Len(ring) \in Nat
  <2>1. out \in Seq(L!Row) /\ ring \in Seq(L!Event)
    BY DEF LeadTypes
  <2>2. Len(out) \in Nat
    BY <2>1
  <2>3. Len(ring) \in Nat
    BY <2>1
  <2> QED BY <2>2, <2>3
<1>2. Made = Len(out) + Len(ring) /\ Made \in Nat
  BY <1>1 DEF Made
<1>3. \A p : Sent(p) \in Nat
  BY SentIsNat DEF LeadTypes, Numbered
<1> QED BY <1>1, <1>2, <1>3

\* The events that wait of a port are those after the pairs; the first is next.
LEMMA QueuedIs ==
  ASSUME LeadTypes, LeadQueue, NEW p \in Ports
  PROVE  /\ \A e \in L!Queued(p) : e \in taken /\ e.port = p /\ Made <= e.nth /\ e.nth < Sent(p)
                                   /\ e.nth \in Nat /\ e.index \in Index /\ e.index <= floor[p]
         /\ L!Queued(p) = {} <=> Sent(p) = Made
         /\ \A e \in L!Queued(p) : L!Head1(e) <=> e.nth = Made
         /\ L!Queued(p) # {} => \E e \in L!Queued(p) : e.nth = Made /\ L!Head1(e)
         /\ \A d, e \in L!Queued(p) : L!Head1(d) => d.index <= e.index
<1> DEFINE S == L!Queued(p)
<1>1. /\ Made \in Nat /\ Sent(p) \in Nat /\ Made <= Sent(p)
      /\ \A k \in Nat : k < Sent(p) => \E d \in taken : d.port = p /\ d.nth = k
  BY MadeIsNat DEF LeadTypes, LeadQueue, Numbered
<1>2. S = {e \in taken : e.port = p /\ Made <= e.nth}
  BY DEF L!Queued, LeadQueue
<1>3. \A e \in S : e \in taken /\ e.port = p /\ Made <= e.nth /\ e.nth < Sent(p)
                   /\ e.nth \in Nat /\ e.index \in Index /\ e.index <= floor[p]
  BY <1>2 DEF LeadTypes, Numbered
<1>4. S = {} \/ \E e \in S : e.nth = Made
  <2>1. ASSUME NEW d \in S PROVE \E e \in S : e.nth = Made
    <3>1. Made < Sent(p)
      BY <1>1, <1>3
    <3>2. PICK e \in taken : e.port = p /\ e.nth = Made
      BY <1>1, <3>1
    <3> QED BY <3>2, <1>1, <1>2
  <2> QED BY <2>1
<1>5. S = {} <=> Sent(p) = Made
  <2>1. ASSUME S = {}, Sent(p) # Made PROVE FALSE
    <3>1. Made < Sent(p)
      BY <2>1, <1>1
    <3>2. PICK e \in taken : e.port = p /\ e.nth = Made
      BY <1>1, <3>1
    <3> QED BY <3>2, <2>1, <1>1, <1>2
  <2>2. ASSUME Sent(p) = Made, NEW e \in S PROVE FALSE
    BY <2>2, <1>1, <1>3
  <2> QED BY <2>1, <2>2
<1>6. ASSUME NEW e \in S PROVE L!Head1(e) <=> e.nth = Made
  <2>1. L!Head1(e) <=> \A d \in S : e.nth <= d.nth
    BY <1>3 DEF L!Head1, L!IsOldest
  <2>2. PICK h \in S : h.nth = Made
    BY <1>4
  <2> QED BY <2>1, <2>2, <1>1, <1>3
<1>7. ASSUME NEW d \in S, NEW e \in S, L!Head1(d) PROVE d.index <= e.index
  <2>1. d.nth <= e.nth /\ d.nth \in Nat /\ e.nth \in Nat /\ d.port = e.port /\ d \in taken /\ e \in taken
        /\ d.index \in Int
    BY <1>1, <1>3, <1>6, <1>7, LeadFacts
  <2>2. /\ d.nth = e.nth => d = e
        /\ d.nth < e.nth => d.index <= e.index
    BY <2>1 DEF LeadTypes, Numbered
  <2> QED BY <2>1, <2>2
<1> QED BY <1>3, <1>4, <1>5, <1>6, <1>7

\* No two events can be paired once one of the queues is empty.
LEMMA MatchedIs ==
  ASSUME LeadTypes, LeadQueue, L!Matched
  PROVE  /\ L!Queued(L!X) = {} \/ L!Queued(L!Y) = {}
         /\ Sent(L!X) = Made \/ Sent(L!Y) = Made
         /\ \A e \in queue : Sent(1 - e.port) = Made /\ lo[1 - e.port] <= e.index
<1>1. L!Queued(L!X) = {} \/ L!Queued(L!Y) = {}
  <2>1. ASSUME L!Queued(L!X) # {}, L!Queued(L!Y) # {} PROVE FALSE
    <3>1. PICK x \in L!Queued(L!X) : L!Head1(x)
      BY <2>1, QueuedIs, LeadFacts
    <3>2. PICK y \in L!Queued(L!Y) : L!Head1(y)
      BY <2>1, QueuedIs, LeadFacts
    <3> QED BY <3>1, <3>2 DEF L!Queued, L!Paired, L!Matched
  <2> QED BY <2>1
<1>2. ASSUME NEW e \in queue PROVE Sent(1 - e.port) = Made /\ lo[1 - e.port] <= e.index
  <2>1. e.port \in Ports /\ e \in L!Queued(e.port)
    BY DEF LeadTypes, Numbered, L!Queued
  <2>2. L!Queued(1 - e.port) = {}
    BY <1>1, <2>1, LeadFacts
  <2>3. PICK h \in L!Queued(e.port) : h.nth = Made /\ L!Head1(h)
    BY <2>1, QueuedIs
  <2>4. h \in queue /\ h.port = e.port /\ h.index <= e.index
    BY <2>1, <2>3, QueuedIs DEF L!Queued
  <2>5. ~(h.index < lo[1 - e.port])
    BY <2>2, <2>3, <2>4 DEF L!Matched, L!OffClock
  <2>6. h.index \in Int /\ e.index \in Int /\ lo[1 - e.port] \in Int
    BY <2>1, <2>4, LeadFacts DEF LeadTypes, Numbered
  <2> QED BY <2>1, <2>2, <2>4, <2>5, <2>6, QueuedIs, LeadFacts
<1> QED BY <1>1, <1>2, QueuedIs, LeadFacts

LEMMA LeadArrives ==
  ASSUME LeadInv, NEW p \in Ports, NEW t \in Indexes, L!Arrives(p, t)
  PROVE  LET e == L!NewEvent(p, t)
         IN  /\ e.index = t /\ e.port = p /\ e.nth = Sent(p) /\ e.nth \in Nat /\ e \in L!Event
             /\ e \notin taken /\ taken' = taken \cup {e} /\ taken' \subseteq L!Event
             /\ Numbered' /\ Sent(p)' = Sent(p) + 1 /\ \A q : q # p => Sent(q)' = Sent(q)
             /\ t \in Index /\ floor[p] <= t /\ p \notin ended /\ Sent(p) < MaxEvents + 1
             /\ floor' = [floor EXCEPT ![p] = t] /\ floor' \in [Ports -> Index]
             /\ \A q \in Ports : floor[q] <= floor'[q]
             /\ (merge_order /\ p \in NeverAhead => t <= clock)
<1> DEFINE e == L!NewEvent(p, t)
<1>1. /\ L!MaySend(p, t) /\ taken' = taken \cup {e} /\ floor' = [floor EXCEPT ![p] = t]
      /\ t \in Index /\ floor \in [Ports -> Index] /\ Numbered
  BY LeadFacts DEF L!Arrives, LeadInv, LeadTypes
<1>2. \A q : Sent(q) \in Nat
  BY <1>1, SentIsNat DEF Numbered
<1>3. e.index = t /\ e.port = p /\ e.nth = Sent(p)
  BY LeadFacts DEF L!NewEvent
<1>4. e \in L!Event
  BY <1>1, <1>2, LeadFacts DEF L!NewEvent, L!Event
<1>5. floor[p] <= t /\ p \notin ended /\ (merge_order /\ p \in NeverAhead => t <= clock) /\ Sent(p) < MaxEvents + 1
  BY <1>1, LeadFacts DEF L!MaySend, L!MayPromise
<1>6. PICK d : d = e
  OBVIOUS
<1>7. Numbered' /\ e \notin taken /\ Sent(p)' = Sent(p) + 1 /\ \A q : q # p => Sent(q)' = Sent(q)
  <2>1. /\ d.port = p /\ d.index = t /\ d.nth = Sent(d.port) /\ floor[d.port] <= d.index
        /\ taken' = taken \cup {d} /\ floor' = [floor EXCEPT ![d.port] = d.index]
    BY <1>1, <1>3, <1>5, <1>6
  <2>2. /\ Numbered' /\ d \notin taken /\ Sent(d.port)' = Sent(d.port) + 1
        /\ \A q : q # d.port => Sent(q)' = Sent(q)
    BY <2>1, <1>1, EventAdded
  <2> QED BY <2>1, <2>2, <1>6
<1>8. floor' \in [Ports -> Index] /\ \A q \in Ports : floor[q] <= floor'[q]
  BY <1>1, <1>5, LeadFacts
<1>9. taken' \subseteq L!Event
  BY <1>1, <1>4 DEF LeadInv, LeadTypes
<1> QED BY <1>1, <1>2, <1>3, <1>4, <1>5, <1>6, <1>7, <1>8, <1>9

\* While the ring and the rows stay, new events change neither.
LEMMA RowsStay ==
  ASSUME LeadInv, UNCHANGED <<out, ring>>, taken \subseteq taken', Drained => Drained'
  PROVE  Made' = Made /\ LeadRing' /\ LeadOut'
<1> USE DEF LeadInv
<1>1. Made' = Made
  BY DEF Made
<1>2. LeadRing'
  BY DEF LeadRing
<1>3. ASSUME NEW i \in 1 .. Len(out), NEW x \in taken, HasTarget(i, x) PROVE HasTarget(i, x)'
  <2>1. \A y : L!PairOf(x, {y})' = L!PairOf(x, {y})
    BY DEF L!PairOf
  <2>2. L!PairOf(x, {})' = L!PairOf(x, {})
    BY DEF L!PairOf
  <2> QED BY <1>1, <1>3, <2>1, <2>2 DEF HasTarget
<1> QED BY <1>1, <1>2, <1>3 DEF LeadOut

LEMMA PushLead ==
  ASSUME LeadInv, NEW p \in Ports, NEW t \in Indexes, L!Push(p, t)
  PROVE  LeadInv'
<1> DEFINE e == L!NewEvent(p, t)
<1> USE DEF LeadInv
<1>1. L!Arrives(p, t)
  BY DEF L!Push
<1>2. /\ e.index = t /\ e.port = p /\ e.nth = Sent(p) /\ e.nth \in Nat
      /\ e \notin taken /\ taken' = taken \cup {e} /\ taken' \subseteq L!Event
      /\ Numbered' /\ Sent(p)' = Sent(p) + 1 /\ \A q : q # p => Sent(q)' = Sent(q)
      /\ t \in Index /\ floor[p] <= t /\ p \notin ended /\ Sent(p) < MaxEvents + 1
      /\ floor' = [floor EXCEPT ![p] = t] /\ floor' \in [Ports -> Index]
      /\ \A q \in Ports : floor[q] <= floor'[q]
      /\ (merge_order /\ p \in NeverAhead => t <= clock)
  BY <1>1, LeadArrives
<1>3. /\ queue' = queue \cup {e}
      /\ lo' = [q \in Ports |-> IF q = p \/ L!Bounds(p, q) THEN L!Larger(lo[q], t) ELSE lo[q]]
      /\ UNCHANGED <<ring, out, ended, clock, merge_order, flushed, last_forwarded, error, flushes>>
      /\ call' \in {"x", "y"} /\ call = "idle" /\ error = "none"
  BY <1>1, LeadFacts DEF L!Push, L!NoteBound, L!Arrives, L!MaySend, L!MayPromise, L!Idle
<1>4. /\ floor \in [Ports -> Index] /\ lo \in [Ports -> Index] /\ clock \in Index /\ last_forwarded \in Index
      /\ \A k \in Index : k \in Int
  BY LeadFacts DEF LeadTypes
<1>5. flushes = 0 /\ ~Drained /\ ~Drained'
  BY <1>2, <1>3, LeadFacts DEF LeadCalls, Drained
<1>6. lo' \in [Ports -> Index]
  BY <1>2, <1>3, <1>4, LargerOf
<1>7. Made' = Made /\ LeadRing' /\ LeadOut'
  BY <1>2, <1>3, <1>5, RowsStay
<1>8. LeadTypes'
  BY <1>2, <1>3, <1>6 DEF LeadTypes
<1>9. LeadCalls'
  BY <1>3, <1>5 DEF LeadCalls
<1>10. LeadFloors'
  <2>1. ASSUME NEW q \in Ports PROVE lo'[q] <= floor'[q] /\ Sent(q)' <= MaxEvents + 1
    <3>1. lo[q] <= floor[q] /\ floor[q] <= floor'[q] /\ Sent(q) <= MaxEvents + 1
      BY <1>2 DEF LeadFloors
    <3>2. Sent(q)' <= MaxEvents + 1
      <4>1. Sent(q) \in Nat /\ Sent(p) \in Nat
        BY MadeIsNat
      <4>2. CASE q = p
        <5>1. Sent(q)' = Sent(p) + 1
          BY <4>2, <1>2 DEF Sent
        <5> QED BY <5>1, <4>1, <1>2, LeadFacts
      <4>3. CASE q # p
        BY <4>3, <3>1, <1>2
      <4> QED BY <4>2, <4>3
    <3>3. t <= floor'[q] \/ ~(q = p \/ L!Bounds(p, q))
      <4>1. CASE q = p
        BY <4>1, <1>2, <1>4
      <4>2. CASE L!Bounds(p, q)
        <5>1. t <= clock /\ clock <= floor[q]
          BY <4>2, <1>2 DEF L!Bounds, LeadFloors
        <5> QED BY <5>1, <3>1, <1>2, <1>4
      <4> QED BY <4>1, <4>2
    <3>4. lo'[q] = lo[q] \/ (lo'[q] = L!Larger(lo[q], t) /\ t <= floor'[q])
      BY <1>3, <3>3
    <3>5. lo[q] \in Index /\ floor[q] \in Index /\ floor'[q] \in Index
      BY <1>2, <1>4
    <3> QED BY <3>1, <3>2, <3>4, <3>5, <1>2, <1>4, LargerOf
  <2>2. ASSUME NEW q \in ended PROVE lo'[q] = kMax
    <3>1. q \in Ports /\ lo[q] = kMax
      BY DEF LeadFloors, LeadTypes
    <3>2. L!Larger(kMax, t) = kMax
      BY <1>2, LargerOf, LeadFacts
    <3> QED BY <3>1, <3>2, <1>3
  <2>3. merge_order => \A q \in Ports : clock <= floor'[q]
    BY <1>2, <1>4, LeadFacts DEF LeadFloors
  <2>4. ~merge_order => lo' = floor'
    <3>1. ASSUME ~merge_order PROVE lo' = floor'
      <4>1. lo = floor /\ \A q : ~L!Bounds(p, q)
        BY <3>1 DEF LeadFloors, L!Bounds
      <4>2. L!Larger(floor[p], t) = t
        BY <1>2, <1>4, LargerOf
      <4>3. \A q \in Ports : lo'[q] = floor'[q]
        BY <4>1, <4>2, <1>2, <1>3, <1>4
      <4> QED BY <4>3, <1>2, <1>6
    <3> QED BY <3>1
  <2> QED BY <2>1, <2>2, <2>3, <2>4, <1>3 DEF LeadFloors, Sent
<1>11. LeadQueue'
  <2>1. Made \in Nat /\ Made <= Sent(p) /\ Sent(p) \in Nat
    BY MadeIsNat DEF LeadQueue
  <2>2. queue' = {d \in taken' : Made' <= d.nth}
    BY <2>1, <1>2, <1>3, <1>7 DEF LeadQueue
  <2>3. ASSUME NEW q \in Ports PROVE Made <= Sent(q)'
    <3>1. Sent(q) \in Nat /\ Made <= Sent(q)
      BY MadeIsNat DEF LeadQueue
    <3>2. Sent(q)' = Sent(q) \/ Sent(q)' = Sent(q) + 1
      <4>1. CASE q = p
        BY <4>1, <1>2 DEF Sent
      <4>2. CASE q # p
        BY <4>2, <1>2
      <4> QED BY <4>1, <4>2
    <3> QED BY <3>1, <3>2, <2>1
  <2>4. ASSUME NEW a \in taken', NEW b \in taken', a.nth = b.nth, a.nth < Made PROVE a.index = b.index
    <3>1. a # e /\ b # e
      BY <2>1, <2>4, <1>2
    <3> QED BY <3>1, <2>4, <1>2 DEF LeadQueue
  <2> QED BY <2>2, <2>3, <2>4, <1>7 DEF LeadQueue, Sent
<1>12. LeadMatched'
  BY <1>3 DEF LeadMatched
<1>13. LeadAhead'
  <2>1. \A i \in 1 .. Len(ring') : last_forwarded' <= ring'[i].index
    BY <1>3 DEF LeadAhead
  <2>2. ASSUME NEW q \in Ports, Ahead(q) PROVE Ahead(q)'
    <3>1. last_forwarded <= floor'[q]
      BY <2>2, <1>2, <1>4 DEF Ahead
    <3>2. e.port = q => last_forwarded <= e.index
      BY <2>2, <1>2, <1>4 DEF Ahead
    <3> QED BY <2>2, <3>1, <3>2, <1>3 DEF Ahead
  <2> QED BY <2>1, <2>2, LeadFacts DEF LeadAhead
<1> QED BY <1>7, <1>8, <1>9, <1>10, <1>11, <1>12, <1>13

\* Promises change nothing of the pairs and the queues.
LEMMA FloorsLead ==
  ASSUME LeadInv, floor' \in [Ports -> Index], \A p \in Ports : floor[p] <= floor'[p],
         UNCHANGED <<taken, out, ring, queue, last_forwarded>>, Drained => Drained'
  PROVE  /\ Numbered' /\ Made' = Made /\ \A p : Sent(p)' = Sent(p)
         /\ LeadQueue' /\ LeadRing' /\ LeadOut' /\ LeadAhead'
<1> USE DEF LeadInv
<1>1. Numbered' /\ \A p : Sent(p)' = Sent(p)
  BY FloorsUp DEF LeadTypes
<1>2. Made' = Made /\ LeadRing' /\ LeadOut'
  BY RowsStay
<1>3. LeadQueue'
  BY <1>1, <1>2 DEF LeadQueue, Sent
<1>4. ASSUME NEW p \in Ports, Ahead(p) PROVE Ahead(p)'
  <2>1. last_forwarded \in Int /\ floor[p] \in Int /\ floor'[p] \in Int
    BY LeadFacts DEF LeadTypes
  <2> QED BY <1>4, <2>1 DEF Ahead
<1>5. LeadAhead'
  BY <1>4, LeadFacts DEF LeadAhead
<1> QED BY <1>1, <1>2, <1>3, <1>5

\* A port's promise to w, or its end with w = kMax.
LEMMA PromiseLead ==
  ASSUME LeadInv, NEW p \in Ports, NEW w \in Index,
         p \notin ended, ended' = ended \/ (ended' = ended \cup {p} /\ w = kMax),
         flushed' \subseteq Ports, flushed = ended => flushed' = ended', call = "idle", error = "none",
         floor' = [floor EXCEPT ![p] = L!Larger(floor[p], w)],
         lo' = [lo EXCEPT ![p] = L!Larger(lo[p], w)],
         call' \in {"watermark", "flush"},
         UNCHANGED <<taken, out, clock, merge_order, last_forwarded, error, flushes, queue, ring>>
  PROVE  LeadInv'
<1> USE DEF LeadInv
<1>1. /\ clock \in Index /\ floor \in [Ports -> Index] /\ lo \in [Ports -> Index] /\ ended \subseteq Ports
      /\ \A k \in Index : k \in Int
  BY LeadFacts DEF LeadTypes
<1>2. /\ floor' \in [Ports -> Index] /\ lo' \in [Ports -> Index]
      /\ \A q \in Ports : floor[q] <= floor'[q]
  BY <1>1, LargerOf, LeadFacts
<1>3. flushes = 0 /\ ~Drained /\ ~Drained'
  BY <1>1, LeadFacts DEF LeadCalls, Drained
<1>4. /\ Numbered' /\ Made' = Made /\ \A q : Sent(q)' = Sent(q)
      /\ LeadQueue' /\ LeadRing' /\ LeadOut' /\ LeadAhead'
  BY <1>2, <1>3, FloorsLead
<1>5. LeadTypes'
  BY <1>1, <1>2, <1>4 DEF LeadTypes
<1>6. LeadCalls'
  BY <1>3 DEF LeadCalls
<1>7. LeadFloors'
  <2>1. ASSUME NEW q \in Ports PROVE lo'[q] <= floor'[q] /\ Sent(q)' <= MaxEvents + 1
    <3>1. lo[q] <= floor[q] /\ Sent(q)' <= MaxEvents + 1
      BY <1>4 DEF LeadFloors
    <3>2. CASE q = p
      <4>1. lo'[q] = L!Larger(lo[q], w) /\ floor'[q] = L!Larger(floor[q], w)
        BY <3>2, <1>1
      <4> QED BY <4>1, <3>1, <1>1, LargerOf
    <3>3. CASE q # p
      BY <3>1, <3>3, <1>1
    <3> QED BY <3>2, <3>3
  <2>2. ASSUME NEW q \in ended' PROVE lo'[q] = kMax
    <3>1. CASE q \in ended
      BY <3>1, <1>1 DEF LeadFloors
    <3>2. CASE q = p /\ w = kMax
      <4>1. lo'[q] = L!Larger(lo[q], kMax)
        BY <3>2, <1>1
      <4>2. L!Larger(lo[q], kMax) = kMax
        <5>1. lo[q] \in Index /\ kMax \in Index /\ lo[q] <= kMax
          BY <3>2, <1>1, LeadFacts
        <5> QED BY <5>1, LargerOf
      <4> QED BY <4>1, <4>2
    <3> QED BY <3>1, <3>2
  <2>3. merge_order => \A q \in Ports : clock <= floor'[q]
    BY <1>1, <1>2 DEF LeadFloors
  <2>4. ~merge_order => lo' = floor'
    BY DEF LeadFloors
  <2> QED BY <2>1, <2>2, <2>3, <2>4 DEF LeadFloors, Sent
<1>8. LeadMatched'
  BY DEF LeadMatched
<1> QED BY <1>4, <1>5, <1>6, <1>7, <1>8

LEMMA WatermarkLead ==
  ASSUME LeadInv, NEW p \in Ports, NEW w \in Index, L!OnWatermark(p, w)
  PROVE  LeadInv'
<1>1. /\ p \notin ended /\ call = "idle" /\ error = "none"
      /\ floor' = [floor EXCEPT ![p] = L!Larger(floor[p], w)]
      /\ lo' = [lo EXCEPT ![p] = L!Larger(lo[p], w)]
      /\ call' = "watermark"
      /\ UNCHANGED <<taken, out, ended, clock, merge_order, flushed, last_forwarded, error, flushes, queue, ring>>
  BY DEF L!OnWatermark, L!Promises, L!MayPromise, L!Idle
<1>2. flushed \subseteq Ports
  BY DEF LeadInv, LeadTypes
<1> QED BY <1>1, <1>2, PromiseLead

LEMMA FlushLead ==
  ASSUME LeadInv, NEW p \in Ports, L!FlushPort(p)
  PROVE  LeadInv'
<1>1. /\ p \notin ended /\ call = "idle" /\ error = "none"
      /\ floor' = [floor EXCEPT ![p] = kMax]
      /\ lo' = [lo EXCEPT ![p] = kMax]
      /\ ended' = ended \cup {p} /\ flushed' = flushed \cup {p}
      /\ call' = "flush"
      /\ UNCHANGED <<taken, out, clock, merge_order, last_forwarded, error, flushes, queue, ring>>
  BY DEF L!FlushPort, L!Ends, L!Idle
<1>2. ended \subseteq Ports /\ flushed \subseteq Ports
  BY DEF LeadInv, LeadTypes
<1>3. floor[p] \in Index /\ lo[p] \in Index /\ kMax \in Index /\ floor[p] <= kMax /\ lo[p] <= kMax
  BY LeadFacts DEF LeadInv, LeadTypes
<1>4. L!Larger(floor[p], kMax) = kMax /\ L!Larger(lo[p], kMax) = kMax
  BY <1>3, LargerOf
<1> QED BY <1>1, <1>2, <1>3, <1>4, PromiseLead

LEMMA MergeMovesLead ==
  ASSUME LeadInv, NEW t \in Index, L!MergeMoves(t), UNCHANGED L!leadVars
  PROVE  LeadInv'
<1> USE DEF LeadInv
<1>1. /\ merge_order /\ call = "idle" /\ error = "none"
      /\ clock' = t /\ clock < t
      /\ floor' = [q \in Ports |-> IF q \in Ports THEN L!Larger(floor[q], t) ELSE floor[q]]
      /\ UNCHANGED <<taken, out, ended, merge_order, flushed, last_forwarded, call, error, flushes>>
      /\ UNCHANGED <<queue, ring, lo>>
  BY LeadFacts DEF L!MergeMoves, L!Idle, L!leadVars
<1>2. /\ floor' \in [Ports -> Index] /\ \A q \in Ports : floor[q] <= floor'[q] /\ t <= floor'[q]
  BY <1>1, LargerOf, LeadFacts DEF LeadTypes
<1>3. /\ Numbered' /\ Made' = Made /\ \A q : Sent(q)' = Sent(q)
      /\ LeadQueue' /\ LeadRing' /\ LeadOut' /\ LeadAhead'
  BY <1>1, <1>2, FloorsLead DEF Drained
<1>4. LeadTypes'
  BY <1>1, <1>2, <1>3 DEF LeadTypes
<1>5. LeadCalls'
  BY <1>1 DEF LeadCalls, Drained
<1>6. LeadFloors'
  <2>1. ASSUME NEW q \in Ports PROVE lo[q] <= floor'[q]
    <3>1. lo[q] \in Int /\ floor[q] \in Int /\ floor'[q] \in Int /\ lo[q] <= floor[q] /\ floor[q] <= floor'[q]
      BY <1>2, LeadFacts DEF LeadTypes, LeadFloors
    <3> QED BY <3>1
  <2>2. \A q \in Ports : Sent(q)' <= MaxEvents + 1
    BY <1>3 DEF LeadFloors
  <2> QED BY <2>1, <2>2, <1>1, <1>2 DEF LeadFloors, Sent
<1>7. LeadMatched'
  BY <1>1 DEF LeadMatched, L!Matched, L!OffClock, L!Paired, L!Head1, L!IsOldest, L!Queued
<1> QED BY <1>3, <1>4, <1>5, <1>6, <1>7

\* A ring that moves on by one, and rows that get one more.
LEMMA RingMoves ==
  ASSUME LeadTypes, NEW x \in L!Event, ring # <<>>
  PROVE  LET moved == Append(Tail(ring), x)
         IN  /\ moved \in Seq(L!Event) /\ Len(moved) = Len(ring)
             /\ \A i \in 1 .. Len(ring) : moved[i] = IF i = Len(ring) THEN x ELSE ring[i + 1]
             /\ Tail(ring) \in Seq(L!Event) /\ Len(Tail(ring)) = Len(ring) - 1
             /\ \A i \in 1 .. Len(ring) - 1 : Tail(ring)[i] = ring[i + 1]
             /\ Head(ring) = ring[1] /\ 1 \in 1 .. Len(ring)
<1>1. ring \in Seq(L!Event) /\ Len(ring) \in Nat
  BY MadeIsNat DEF LeadTypes
<1>2. Len(ring) # 0
  BY <1>1
<1>3. Tail(ring) \in Seq(L!Event) /\ Len(Tail(ring)) = Len(ring) - 1
      /\ \A i \in 1 .. Len(ring) - 1 : Tail(ring)[i] = ring[i + 1]
  BY <1>1, <1>2
<1>4. PICK rest \in Seq(L!Event) : rest = Tail(ring)
  BY <1>3
<1>5. /\ Append(rest, x) \in Seq(L!Event) /\ Len(Append(rest, x)) = Len(rest) + 1
      /\ \A i \in 1 .. Len(rest) : Append(rest, x)[i] = rest[i]
      /\ Append(rest, x)[Len(rest) + 1] = x
  OBVIOUS
<1>6. Head(ring) = ring[1] /\ 1 \in 1 .. Len(ring)
  BY <1>1, <1>2
<1>7. ASSUME NEW i \in 1 .. Len(ring)
      PROVE  Append(rest, x)[i] = IF i = Len(ring) THEN x ELSE ring[i + 1]
  <2>1. CASE i = Len(ring)
    BY <2>1, <1>1, <1>2, <1>3, <1>4, <1>5
  <2>2. CASE i # Len(ring)
    <3>1. Len(rest) = Len(ring) - 1
      BY <1>3, <1>4
    <3>2. i \in 1 .. Len(rest) /\ i \in 1 .. Len(ring) - 1
      BY <3>1, <2>2, <1>1
    <3> QED BY <3>2, <2>2, <1>3, <1>4, <1>5
  <2> QED BY <2>1, <2>2
<1>8. Len(Append(rest, x)) = Len(ring)
  <2>1. Len(rest) = Len(ring) - 1
    BY <1>3, <1>4
  <2> QED BY <2>1, <1>1, <1>5
<1>9. Append(rest, x) = Append(Tail(ring), x)
  BY <1>4
<1> QED BY <1>3, <1>5, <1>6, <1>7, <1>8, <1>9

LEMMA OneMoreRow ==
  ASSUME LeadTypes, NEW r \in L!Row
  PROVE  /\ Append(out, r) \in Seq(L!Row) /\ Len(Append(out, r)) = Len(out) + 1
         /\ \A i \in 1 .. Len(out) : Append(out, r)[i] = out[i]
         /\ Append(out, r)[Len(out) + 1] = r
<1>1. out \in Seq(L!Row)
  BY DEF LeadTypes
<1> QED BY <1>1

LEMMA RowType ==
  ASSUME LeadTypes, NEW x \in taken, NEW S, S \subseteq taken
  PROVE  L!PairOf(x, S) \in L!Row
<1>1. x \in L!Event /\ S \subseteq L!Event /\ x.index \in Index
  BY DEF LeadTypes, Numbered
<1> QED BY <1>1, LeadFacts DEF L!PairOf, L!Row

LEMMA PairLead ==
  ASSUME LeadInv, L!Pair
  PROVE  LeadInv'
<1> USE DEF LeadInv
<1>1. PICK x \in queue, y \in queue :
        /\ L!Paired(x, y) /\ x.index = y.index /\ queue' = queue \ {x, y}
        /\ IF Len(ring) = Count
           THEN out' = Append(out, L!PairOf(Head(ring), {y})) /\ ring' = Append(Tail(ring), x)
           ELSE ring' = Append(ring, x) /\ UNCHANGED out
  BY DEF L!Pair
<1>2. /\ UNCHANGED <<taken, floor, ended, lo>>
      /\ UNCHANGED <<clock, merge_order, flushed, last_forwarded, call, error, flushes>>
      /\ call \notin {"idle", "drain"}
  BY DEF L!Pair, L!Running, L!pairVars
<1>3. x.port = L!X /\ y.port = L!Y /\ x \in L!Queued(L!X) /\ y \in L!Queued(L!Y) /\ L!Head1(x) /\ L!Head1(y)
  BY <1>1 DEF L!Paired, L!Queued
<1>4. x \in taken /\ y \in taken /\ x.nth = Made /\ y.nth = Made /\ Made < Sent(L!X) /\ Made < Sent(L!Y)
  BY <1>3, QueuedIs, LeadFacts
<1>5. error = "none" /\ ~Drained /\ ~Drained'
  BY <1>2 DEF LeadCalls, Drained
<1>6. /\ Made \in Nat /\ Len(out) \in Nat /\ Len(ring) \in Nat /\ Made = Len(out) + Len(ring)
      /\ \A p : Sent(p) \in Nat
  BY MadeIsNat
<1>7. x \in L!Event /\ x.index \in Index
  BY <1>4 DEF LeadTypes, Numbered
<1>8. PICK row : row = IF Len(ring) = Count THEN L!PairOf(Head(ring), {y}) ELSE <<>>
  OBVIOUS
<1> DEFINE Grown ==
      /\ ring' \in Seq(L!Event) /\ out' \in Seq(L!Row) /\ Made' = Made + 1 /\ LeadRing' /\ LeadOut'
      /\ \A i \in 1 .. Len(ring') : ring'[i] = x \/ \E j \in 1 .. Len(ring) : ring'[i] = ring[j]
<1>9. ASSUME Len(ring) = Count PROVE Grown
  <2>1. ring # <<>>
    BY <1>9, LeadFacts
  <2>2. /\ ring' \in Seq(L!Event) /\ Len(ring') = Count
        /\ \A i \in 1 .. Count : ring'[i] = IF i = Count THEN x ELSE ring[i + 1]
        /\ Head(ring) = ring[1] /\ 1 \in 1 .. Count
    BY <2>1, <1>1, <1>7, <1>9, RingMoves
  <2>3. PICK h \in taken : h = ring[1] /\ h.port = L!X /\ h.nth = Len(out)
    BY <2>2, <1>6, <1>9 DEF LeadRing
  <2>4. row = L!PairOf(h, {y}) /\ row \in L!Row
    BY <2>2, <2>3, <1>4, <1>8, <1>9, RowType
  <2>5. /\ out' \in Seq(L!Row) /\ Len(out') = Len(out) + 1
        /\ \A i \in 1 .. Len(out) : out'[i] = out[i]
        /\ out'[Len(out) + 1] = row
    <3>1. out' = Append(out, row)
      BY <1>1, <1>8, <1>9
    <3> QED BY <3>1, <2>4, OneMoreRow
  <2>6. Made' = Made + 1
    <3>1. Made' = Len(out') + Len(ring')
      BY DEF Made
    <3> QED BY <3>1, <2>2, <2>5, <1>6, <1>9
  <2>7. LeadRing'
    <3>1. ASSUME NEW i \in 1 .. Count
          PROVE  ring'[i] \in taken /\ ring'[i].port = L!X /\ ring'[i].nth = Len(out') + i - 1
      <4>1. CASE i = Count
        BY <4>1, <2>2, <2>5, <1>3, <1>4, <1>6, <1>9
      <4>2. CASE i # Count
        <5>1. i + 1 \in 1 .. Len(ring) /\ ring'[i] = ring[i + 1]
          BY <4>2, <2>2, <1>6, <1>9
        <5>2. ring[i + 1].nth = Len(out) + (i + 1) - 1 /\ ring[i + 1].port = L!X /\ ring[i + 1] \in taken
          BY <5>1 DEF LeadRing
        <5> QED BY <5>1, <5>2, <2>5, <1>6
      <4> QED BY <4>1, <4>2
    <3> QED BY <3>1, <2>2, <1>2 DEF LeadRing
  <2>8. LeadOut'
    <3>1. ASSUME NEW i \in 1 .. Len(out), NEW c \in taken, HasTarget(i, c) PROVE HasTarget(i, c)'
      <4>1. \A d : L!PairOf(c, {d})' = L!PairOf(c, {d})
        BY DEF L!PairOf
      <4>2. i - 1 + Count < Made /\ c.port = L!X /\ c.nth = i - 1
            /\ \E d \in taken : d.port = L!Y /\ d.nth = i - 1 + Count /\ out[i] = L!PairOf(c, {d})
        BY <3>1, <1>5 DEF HasTarget
      <4>3. i - 1 + Count < Made'
        BY <4>2, <2>6, <1>6, LeadFacts
      <4> QED BY <4>1, <4>2, <4>3, <2>5, <1>2 DEF HasTarget
    <3>2. ASSUME NEW i, i = Len(out) + 1 PROVE HasTarget(i, h)'
      <4>1. L!PairOf(h, {y})' = L!PairOf(h, {y})
        BY DEF L!PairOf
      <4>2. i - 1 + Count = Made /\ h.nth = i - 1 /\ i - 1 + Count < Made'
        BY <3>2, <2>3, <2>6, <1>6, <1>9
      <4> QED BY <4>1, <4>2, <3>2, <2>3, <2>4, <2>5, <1>2, <1>3, <1>4 DEF HasTarget
    <3>3. ASSUME NEW i \in 1 .. Len(out') PROVE \E c \in taken' : HasTarget(i, c)'
      <4>1. i \in 1 .. Len(out) \/ i = Len(out) + 1
        BY <2>5, <1>6
      <4> QED BY <4>1, <3>1, <3>2, <2>3, <1>2 DEF LeadOut
    <3> QED BY <3>3 DEF LeadOut
  <2>9. \A i \in 1 .. Count : i = Count \/ i + 1 \in 1 .. Count
    BY LeadFacts
  <2> QED BY <2>2, <2>5, <2>6, <2>7, <2>8, <2>9, <1>9
<1>10. ASSUME Len(ring) # Count PROVE Grown
  <2>1. ring' = Append(ring, x) /\ out' = out /\ Len(ring) < Count
    BY <1>1, <1>6, <1>10, LeadFacts DEF LeadRing
  <2>2. out = <<>> /\ Len(out) = 0
    BY <2>1, <1>5 DEF LeadRing
  <2>3. /\ ring' \in Seq(L!Event) /\ Len(ring') = Len(ring) + 1
        /\ \A i \in 1 .. Len(ring) : ring'[i] = ring[i]
        /\ ring'[Len(ring) + 1] = x
    <3>1. ring \in Seq(L!Event)
      BY DEF LeadTypes
    <3> QED BY <3>1, <2>1, <1>7
  <2>4. Made' = Made + 1
    <3>1. Made' = Len(out') + Len(ring')
      BY DEF Made
    <3> QED BY <3>1, <2>1, <2>3, <1>6
  <2>5. \A i \in 1 .. Len(ring') : i \in 1 .. Len(ring) \/ i = Len(ring) + 1
    BY <2>3, <1>6
  <2>6. ASSUME NEW i \in 1 .. Len(ring')
        PROVE  ring'[i] \in taken /\ ring'[i].port = L!X /\ ring'[i].nth = Len(out') + i - 1
    <3>1. CASE i \in 1 .. Len(ring)
      BY <3>1, <2>1, <2>3 DEF LeadRing
    <3>2. CASE i = Len(ring) + 1
      BY <3>2, <2>1, <2>2, <2>3, <1>3, <1>4, <1>6
    <3> QED BY <2>5, <3>1, <3>2
  <2>7. LeadRing'
    <3>1. Len(ring') <= Count
      BY <2>1, <2>3, <1>6, LeadFacts
    <3> QED BY <3>1, <2>1, <2>2, <2>6, <1>2 DEF LeadRing
  <2>8. LeadOut'
    BY <2>1, <2>2 DEF LeadOut
  <2>9. out' \in Seq(L!Row)
    BY <2>1 DEF LeadTypes
  <2> QED BY <2>3, <2>4, <2>5, <2>7, <2>8, <2>9
<1>11. Grown
  BY <1>9, <1>10
<1>12. Numbered' /\ \A p : Sent(p)' = Sent(p)
  <2>1. Numbered /\ floor \in [Ports -> Index] /\ floor' = floor /\ taken' = taken
    BY <1>2 DEF LeadTypes
  <2>2. \A p \in Ports : floor[p] <= floor'[p]
    BY <2>1, LeadFacts
  <2> QED BY <2>1, <2>2, FloorsUp
<1>13. LeadTypes'
  BY <1>1, <1>2, <1>11, <1>12 DEF LeadTypes
<1>14. LeadCalls'
  BY <1>2, <1>5 DEF LeadCalls, Drained
<1>15. LeadFloors'
  BY <1>2, <1>12 DEF LeadFloors, Sent
<1>16. LeadQueue'
  <2>1. ASSUME NEW e \in taken, e.nth = Made PROVE e = x \/ e = y
    <3>1. e.port = x.port \/ e.port = y.port
      BY <1>3, LeadFacts DEF LeadTypes, Numbered
    <3>2. \A d \in taken : e.port = d.port /\ e.nth = d.nth => e = d
      BY DEF LeadTypes, Numbered
    <3> QED BY <2>1, <3>1, <3>2, <1>4
  <2>2. queue' = {e \in taken : Made + 1 <= e.nth}
    <3>1. \A e \in taken : e.nth \in Nat
      BY DEF LeadTypes, Numbered
    <3>2. \A e \in taken : Made + 1 <= e.nth <=> Made <= e.nth /\ e.nth # Made
      BY <3>1, <1>6
    <3> QED BY <2>1, <3>2, <1>1, <1>4 DEF LeadQueue
  <2>3. \A p \in Ports : Made + 1 <= Sent(p)'
    BY <1>4, <1>6, <1>12, LeadFacts
  <2>4. ASSUME NEW a \in taken, NEW b \in taken, a.nth = b.nth, a.nth < Made + 1 PROVE a.index = b.index
    <3>1. a.nth \in Nat
      BY DEF LeadTypes, Numbered
    <3>2. CASE a.nth = Made
      BY <3>2, <2>1, <2>4, <1>1
    <3>3. CASE a.nth # Made
      <4>1. a.nth < Made
        BY <3>1, <3>3, <2>4, <1>6
      <4> QED BY <4>1, <2>4 DEF LeadQueue
    <3> QED BY <3>2, <3>3
  <2> QED BY <2>2, <2>3, <2>4, <1>2, <1>11 DEF LeadQueue, Sent
<1>17. LeadMatched'
  BY <1>2, <1>5 DEF LeadMatched
<1>18. LeadAhead'
  <2>1. last_forwarded <= x.index
    <3>1. Ahead(L!X) => last_forwarded <= x.index
      BY <1>3 DEF Ahead, L!Queued
    <3>2. Ahead(L!Y) => last_forwarded <= y.index
      BY <1>3 DEF Ahead, L!Queued
    <3> QED BY <3>1, <3>2, <1>1 DEF LeadAhead
  <2>2. \A i \in 1 .. Len(ring') : last_forwarded <= ring'[i].index
    BY <2>1, <1>11 DEF LeadAhead
  <2>3. \A p : Ahead(p) => Ahead(p)'
    BY <1>1, <1>2 DEF Ahead
  <2> QED BY <2>2, <2>3, <1>2 DEF LeadAhead
<1> QED BY <1>11, <1>13, <1>14, <1>15, <1>16, <1>17, <1>18

\* The events of X, and those after the kept rows, are in order behind the
\* oldest kept row.
LEMMA OldestKept ==
  ASSUME LeadTypes, LeadQueue, LeadRing, ring # <<>>
  PROVE  /\ Head(ring) = ring[1] /\ ring[1] \in taken /\ ring[1].index \in Index
         /\ ring[1].port = L!X /\ ring[1].nth = Len(out)
         /\ ring[1].index <= floor[L!X]
         /\ \A i \in 1 .. Len(ring) : ring[1].index <= ring[i].index
         /\ \A e \in queue : e.port = L!X => ring[1].index <= e.index
<1>1. /\ Made \in Nat /\ Len(out) \in Nat /\ Len(ring) \in Nat /\ Made = Len(out) + Len(ring)
  BY MadeIsNat
<1>2. Head(ring) = ring[1] /\ 1 \in 1 .. Len(ring)
  <2>1. ring \in Seq(L!Event)
    BY DEF LeadTypes
  <2>2. Len(ring) # 0
    BY <2>1
  <2> QED BY <2>1, <2>2, <1>1
<1>3. PICK h \in taken : h = ring[1] /\ h.port = L!X /\ h.nth = Len(out)
  BY <1>1, <1>2 DEF LeadRing
<1>4. h.index \in Index /\ h.index <= floor[L!X] /\ h.index \in Int
  BY <1>3, LeadFacts DEF LeadTypes, Numbered
<1>5. ASSUME NEW d \in taken, d.port = L!X, Len(out) <= d.nth PROVE h.index <= d.index
  <2>1. d.nth \in Nat
    BY DEF LeadTypes, Numbered
  <2>2. /\ h.nth = d.nth => h = d
        /\ h.nth < d.nth => h.index <= d.index
    <3>1. h.port = d.port
      BY <1>3, <1>5
    <3> QED BY <3>1 DEF LeadTypes, Numbered
  <2> QED BY <2>1, <2>2, <1>1, <1>3, <1>4, <1>5
<1>6. ASSUME NEW i \in 1 .. Len(ring) PROVE h.index <= ring[i].index
  <2>1. ring[i] \in taken /\ ring[i].port = L!X /\ ring[i].nth = Len(out) + i - 1
    BY DEF LeadRing
  <2>2. Len(out) <= ring[i].nth
    BY <2>1, <1>1
  <2> QED BY <2>1, <2>2, <1>5
<1>7. ASSUME NEW e \in queue, e.port = L!X PROVE h.index <= e.index
  <2>1. e \in taken /\ Made <= e.nth /\ e.nth \in Nat
    BY DEF LeadQueue, LeadTypes, Numbered
  <2>2. Len(out) <= e.nth
    BY <2>1, <1>1
  <2> QED BY <2>1, <2>2, <1>5, <1>7
<1> QED BY <1>2, <1>3, <1>4, <1>6, <1>7

\* The next event of a port to be paired bounds all that wait and that come.
LEMMA NextBounds ==
  ASSUME LeadTypes, LeadFloors, LeadQueue, NEW p \in Ports
  PROVE  /\ L!NextOf(p) \in Index /\ L!NextOf(p) <= floor[p]
         /\ \A e \in queue : e.port = p => L!NextOf(p) <= e.index
<1>1. CASE L!Queued(p) = {}
  <2>1. L!NextOf(p) = lo[p]
    BY <1>1 DEF L!NextOf
  <2> QED BY <2>1, <1>1 DEF LeadTypes, LeadFloors, L!Queued
<1>2. CASE L!Queued(p) # {}
  <2>1. PICK h \in L!Queued(p) : h = CHOOSE e \in L!Queued(p) : L!Head1(e)
    BY <1>2, QueuedIs
  <2>2. L!Head1(h)
    BY <1>2, <2>1, QueuedIs
  <2>3. L!NextOf(p) = h.index
    BY <1>2, <2>1 DEF L!NextOf
  <2>4. h.index \in Index /\ h.index <= floor[p] /\ \A e \in L!Queued(p) : h.index <= e.index
    BY <2>2, QueuedIs
  <2> QED BY <2>3, <2>4 DEF L!Queued
<1> QED BY <1>1, <1>2

\* What the node raises on is a difference of the clocks at the next pair.
LEMMA OffClockDiffers ==
  ASSUME LeadInv, L!OffClock
  PROVE  L!Differ(Made) /\ Made <= MaxEvents
<1> USE DEF LeadInv
<1>1. /\ Made \in Nat /\ \A p : Sent(p) \in Nat
  BY MadeIsNat
<1>2. ASSUME NEW x \in queue, NEW y \in queue, L!Paired(x, y), x.index # y.index
      PROVE  L!Differ(Made) /\ Made <= MaxEvents
  <2>1. x \in L!Queued(L!X) /\ y \in L!Queued(L!Y) /\ x.port = L!X /\ y.port = L!Y
    BY <1>2 DEF L!Paired, L!Queued
  <2>2. x \in taken /\ y \in taken /\ x.nth = Made /\ y.nth = Made /\ Made < Sent(L!X)
    BY <2>1, <1>2, QueuedIs, LeadFacts DEF L!Paired
  <2>3. x \in L!Nth(L!X, Made) /\ y \in L!Nth(L!Y, Made)
    BY <2>1, <2>2 DEF L!Nth
  <2>4. Made <= MaxEvents
    BY <2>2, <1>1, LeadFacts DEF LeadFloors
  <2> QED BY <2>3, <2>4, <1>2 DEF L!Differ
<1>3. ASSUME NEW e \in queue, L!Head1(e), L!Queued(1 - e.port) = {}, e.index < lo[1 - e.port]
      PROVE  L!Differ(Made) /\ Made <= MaxEvents
  <2>1. e.port \in Ports /\ e \in L!Queued(e.port) /\ 1 - e.port \in Ports
    BY LeadFacts DEF LeadTypes, Numbered, L!Queued
  <2>2. e \in taken /\ e.nth = Made /\ Made < Sent(e.port)
    BY <2>1, <1>3, QueuedIs
  <2>3. Sent(1 - e.port) = Made
    BY <2>1, <1>3, QueuedIs
  <2>4. L!Nth(1 - e.port, Made) = {}
    <3>1. ASSUME NEW d \in taken, d.port = 1 - e.port, d.nth = Made PROVE FALSE
      <4>1. d.nth < Sent(d.port) /\ d.nth \in Nat
        BY DEF LeadTypes, Numbered
      <4>2. Sent(d.port) = Made
        BY <3>1, <2>3
      <4> QED BY <4>1, <4>2, <3>1
    <3> QED BY <3>1 DEF L!Nth
  <2>5. L!Past(1 - e.port, e.index)
    <3>1. /\ lo[1 - e.port] \in Int /\ floor[1 - e.port] \in Int /\ e.index \in Int
          /\ lo[1 - e.port] <= floor[1 - e.port]
      BY <2>1, <2>2, LeadFacts DEF LeadTypes, Numbered, LeadFloors
    <3> QED BY <3>1, <1>3 DEF L!Past
  <2>6. e \in L!Nth(e.port, Made)
    BY <2>2 DEF L!Nth
  <2>7. L!Differ(Made)
    BY <2>1, <2>4, <2>5, <2>6, LeadFacts DEF L!Differ
  <2>8. Made <= MaxEvents
    <3>1. Sent(e.port) <= MaxEvents + 1 /\ Sent(e.port) \in Nat
      BY <2>1, <1>1 DEF LeadFloors
    <3> QED BY <3>1, <2>2, <1>1, LeadFacts
  <2> QED BY <2>7, <2>8
<1> QED BY <1>2, <1>3 DEF L!OffClock

LEMMA ReturnLead ==
  ASSUME LeadInv,
         L!ThrowOneClock \/ L!Overflow \/ L!EndPush \/ L!EndWatermark \/ L!EndFlushFirst \/ L!EndFlush
  PROVE  LeadInv'
<1> USE DEF LeadInv
<1>1. /\ UNCHANGED <<taken, out, floor, ended, clock, merge_order>>
      /\ UNCHANGED <<queue, ring, lo, flushed, flushes>>
      /\ call # "idle" /\ call # "drain" /\ call' \in {"idle", "drain"}
      /\ error' \in {"none", "overflow", "one clock"}
      /\ call' = "drain" => flushed = Ports /\ error' = error
      /\ error' = "one clock" => L!OffClock \/ error = "one clock"
      /\ error' = "none" => L!Matched
  BY LeadFacts DEF L!ThrowOneClock, L!Overflow, L!EndPush, L!EndWatermark, L!EndFlushFirst, L!EndFlush, L!Running,
     L!Return, L!BeginDrain, L!streamVars, L!leadVars, LeadTypes
<1>2. flushes = 0 /\ error = "none" /\ flushed = ended
  BY <1>1 DEF LeadCalls
<1>3. ~Drained
  <2>1. flushes # 1
    BY <1>2
  <2>2. call # "drain"
    BY <1>1
  <2> QED BY <2>1, <2>2 DEF Drained
<1>4. Made' = Made /\ LeadRing' /\ LeadOut'
  BY <1>1, <1>3, RowsStay
<1>5. Numbered' /\ \A p : Sent(p)' = Sent(p)
  <2>1. Numbered /\ floor \in [Ports -> Index] /\ floor' = floor /\ taken' = taken
    BY <1>1 DEF LeadTypes
  <2>2. \A p \in Ports : floor[p] <= floor'[p]
    BY <2>1, LeadFacts
  <2> QED BY <2>1, <2>2, FloorsUp
<1>6. LeadAhead' /\ last_forwarded' \in Index
  <2>1. CASE UNCHANGED last_forwarded
    BY <2>1, <1>1 DEF LeadAhead, Ahead, LeadTypes
  <2>2. CASE L!EndWatermark
    <3>1. PICK w : w = (IF ring # <<>> THEN Head(ring).index ELSE L!Larger(L!NextOf(L!X), L!NextOf(L!Y)))
      OBVIOUS
    <3>2. last_forwarded' = L!Larger(last_forwarded, w)
      BY <2>2, <3>1 DEF L!EndWatermark, L!Forward
    <3>3. /\ w \in Index
          /\ \A i \in 1 .. Len(ring) : w <= ring[i].index
          /\ \E p \in {L!X, L!Y} : w <= floor[p] /\ \A e \in queue : e.port = p => w <= e.index
      <4>1. CASE ring # <<>>
        BY <4>1, <3>1, OldestKept
      <4>2. CASE ring = <<>>
        <5>1. w = L!NextOf(L!X) \/ w = L!NextOf(L!Y)
          BY <4>2, <3>1, NextBounds, LargerOf, LeadFacts
        <5> QED BY <5>1, <4>2, NextBounds, LeadFacts
      <4> QED BY <4>1, <4>2
    <3>4. last_forwarded \in Index
      BY DEF LeadTypes
    <3>5. last_forwarded' \in Index /\ (last_forwarded' = last_forwarded \/ last_forwarded' = w)
      BY <3>2, <3>3, <3>4, LargerOf
    <3>6. CASE last_forwarded' = last_forwarded
      BY <3>4, <3>6, <1>1 DEF LeadAhead, Ahead
    <3>7. CASE last_forwarded' = w
      BY <3>3, <3>7, <1>1 DEF LeadAhead, Ahead
    <3> QED BY <3>5, <3>6, <3>7
  <2> QED BY <2>1, <2>2 DEF L!ThrowOneClock, L!Overflow, L!EndPush, L!EndFlushFirst, L!EndFlush, L!BeginDrain
<1>7. LeadTypes'
  BY <1>1, <1>5, <1>6 DEF LeadTypes
<1>8. LeadCalls'
  <2>1. flushes' = 0 /\ flushed' = ended'
    BY <1>1, <1>2
  <2>2. call' = "drain" => ended' = Ports /\ error' = "none"
    BY <1>1, <1>2
  <2>3. Drained' <=> call' = "drain"
    BY <2>1 DEF Drained
  <2>4. call' # "idle" => error' = "none"
    BY <1>1, <2>2
  <2> QED BY <2>1, <2>2, <2>3, <2>4 DEF LeadCalls
<1>9. LeadFloors'
  BY <1>1, <1>5 DEF LeadFloors, Sent
<1>10. LeadQueue'
  BY <1>1, <1>4, <1>5 DEF LeadQueue, Sent
<1>11. LeadMatched'
  <2>1. L!Matched => L!Matched'
    BY <1>1 DEF L!Matched, L!OffClock, L!Paired, L!Head1, L!IsOldest, L!Queued
  <2>2. ASSUME error' = "one clock" PROVE L!Differ(Made)' /\ Made' <= MaxEvents
    <3>1. L!Differ(Made) /\ Made <= MaxEvents
      BY <2>2, <1>1, <1>2, OffClockDiffers
    <3>2. L!Differ(Made)' <=> L!Differ(Made)
      BY <1>1, <1>4 DEF L!Differ, L!Nth, L!Past
    <3> QED BY <3>1, <3>2, <1>4
  <2> QED BY <2>1, <2>2, <1>1 DEF LeadMatched
<1> QED BY <1>4, <1>6, <1>7, <1>8, <1>9, <1>10, <1>11

LEMMA DrainLead ==
  ASSUME LeadInv, L!DrainRow
  PROVE  LeadInv'
<1> USE DEF LeadInv
<1>1. /\ call = "drain" /\ ring # <<>>
      /\ out' = Append(out, L!PairOf(Head(ring), {})) /\ ring' = Tail(ring)
      /\ UNCHANGED <<taken, floor, ended, queue, lo>>
      /\ UNCHANGED <<clock, merge_order, flushed, last_forwarded, call, error, flushes>>
  BY DEF L!DrainRow, L!pairVars
<1>2. /\ Made \in Nat /\ Len(out) \in Nat /\ Len(ring) \in Nat /\ Made = Len(out) + Len(ring)
  BY MadeIsNat
<1>3. Drained /\ Drained'
  BY <1>1 DEF Drained
<1>4. PICK h \in taken : h = ring[1] /\ h = Head(ring) /\ h.port = L!X /\ h.nth = Len(out)
  BY <1>1, OldestKept
<1>5. PICK row \in L!Row : row = L!PairOf(h, {})
  BY RowType
<1>6. /\ out' \in Seq(L!Row) /\ Len(out') = Len(out) + 1
      /\ \A i \in 1 .. Len(out) : out'[i] = out[i]
      /\ out'[Len(out) + 1] = row
  <2>1. out' = Append(out, row)
    BY <1>1, <1>4, <1>5
  <2> QED BY <2>1, OneMoreRow
<1>7. /\ ring' \in Seq(L!Event) /\ Len(ring') = Len(ring) - 1
      /\ \A i \in 1 .. Len(ring) - 1 : ring'[i] = ring[i + 1]
  <2>1. h \in L!Event
    BY DEF LeadTypes
  <2> QED BY <2>1, <1>1, RingMoves
<1>8. Made' = Made
  <2>1. Made' = Len(out') + Len(ring')
    BY DEF Made
  <2> QED BY <2>1, <1>2, <1>6, <1>7
<1>9. Numbered' /\ \A p : Sent(p)' = Sent(p)
  <2>1. Numbered /\ floor \in [Ports -> Index] /\ floor' = floor /\ taken' = taken
    BY <1>1 DEF LeadTypes
  <2>2. \A p \in Ports : floor[p] <= floor'[p]
    BY <2>1, LeadFacts
  <2> QED BY <2>1, <2>2, FloorsUp
<1>10. \A i \in 1 .. Len(ring') : i + 1 \in 1 .. Len(ring) /\ ring'[i] = ring[i + 1]
  BY <1>2, <1>7
<1>11. LeadTypes'
  BY <1>1, <1>6, <1>7, <1>9 DEF LeadTypes
<1>12. LeadCalls'
  <2>1. flushes = 0
    BY <1>1 DEF LeadCalls
  <2> QED BY <2>1, <1>1, <1>3 DEF LeadCalls
<1>13. LeadFloors'
  BY <1>1, <1>9 DEF LeadFloors, Sent
<1>14. LeadQueue'
  BY <1>1, <1>8, <1>9 DEF LeadQueue, Sent
<1>15. LeadRing'
  <2>1. ASSUME NEW i \in 1 .. Len(ring')
        PROVE  ring'[i] \in taken /\ ring'[i].port = L!X /\ ring'[i].nth = Len(out') + i - 1
    <3>1. ring[i + 1] \in taken /\ ring[i + 1].port = L!X /\ ring[i + 1].nth = Len(out) + (i + 1) - 1
      BY <1>10 DEF LeadRing
    <3> QED BY <3>1, <1>2, <1>6, <1>10
  <2>2. Len(ring') <= Count
    BY <1>2, <1>7, LeadFacts DEF LeadRing
  <2> QED BY <2>1, <2>2, <1>1, <1>3 DEF LeadRing
<1>16. LeadOut'
  <2>1. ASSUME NEW i \in 1 .. Len(out), NEW c \in taken, HasTarget(i, c) PROVE HasTarget(i, c)'
    <3>1. \A d : L!PairOf(c, {d})' = L!PairOf(c, {d})
      BY DEF L!PairOf
    <3>2. L!PairOf(c, {})' = L!PairOf(c, {})
      BY DEF L!PairOf
    <3> QED BY <2>1, <3>1, <3>2, <1>1, <1>3, <1>6, <1>8 DEF HasTarget
  <2>2. ASSUME NEW i, i = Len(out) + 1 PROVE HasTarget(i, h)'
    <3>1. L!PairOf(h, {})' = L!PairOf(h, {})
      BY DEF L!PairOf
    <3>2. Len(ring) <= Count
      BY DEF LeadRing
    <3>3. Made' <= i - 1 + Count /\ h.nth = i - 1
      BY <2>2, <3>2, <1>2, <1>4, <1>8, LeadFacts
    <3> QED BY <3>1, <3>3, <2>2, <1>1, <1>3, <1>4, <1>5, <1>6 DEF HasTarget
  <2>3. ASSUME NEW i \in 1 .. Len(out') PROVE \E c \in taken' : HasTarget(i, c)'
    <3>1. i \in 1 .. Len(out) \/ i = Len(out) + 1
      BY <1>2, <1>6
    <3> QED BY <3>1, <2>1, <2>2, <1>1 DEF LeadOut
  <2> QED BY <2>3 DEF LeadOut
<1>17. LeadMatched'
  <2>1. L!Matched' <=> L!Matched
    BY <1>1 DEF L!Matched, L!OffClock, L!Paired, L!Head1, L!IsOldest, L!Queued
  <2>2. error = "none"
    BY <1>3 DEF LeadCalls
  <2> QED BY <2>1, <2>2, <1>1 DEF LeadMatched
<1>18. LeadAhead'
  <2>1. \A i \in 1 .. Len(ring') : last_forwarded <= ring'[i].index
    BY <1>10 DEF LeadAhead
  <2> QED BY <2>1, <1>1 DEF LeadAhead, Ahead
<1> QED BY <1>11, <1>12, <1>13, <1>14, <1>15, <1>16, <1>17, <1>18

LEMMA EndDrainLead ==
  ASSUME LeadInv, L!EndDrain
  PROVE  LeadInv'
<1> USE DEF LeadInv
<1>1. /\ ring = <<>> /\ call = "drain" /\ flushed' = {} /\ flushes' = flushes + 1 /\ call' = "idle" /\ error' = error
      /\ UNCHANGED <<taken, out, floor, ended, clock, merge_order, last_forwarded>>
      /\ UNCHANGED <<queue, ring, lo>>
  BY DEF L!EndDrain, L!FlushDown, L!Return, L!leadVars, L!streamVars
<1>2. flushes = 0 /\ flushes' = 1 /\ ended = Ports /\ error = "none"
  <2>1. Drained
    BY <1>1 DEF Drained
  <2>2. flushes = 0
    BY <1>1 DEF LeadCalls
  <2> QED BY <2>1, <2>2, <1>1 DEF LeadCalls
<1>3. Drained'
  BY <1>2 DEF Drained
<1>4. floor \in [Ports -> Index] /\ floor' \in [Ports -> Index] /\ floor' = floor
  BY <1>1 DEF LeadTypes
<1>5. \A p \in Ports : floor[p] <= floor'[p]
  BY <1>4, LeadFacts
<1>6. /\ Numbered' /\ Made' = Made /\ \A p : Sent(p)' = Sent(p)
      /\ LeadQueue' /\ LeadRing' /\ LeadOut' /\ LeadAhead'
  BY <1>1, <1>3, <1>4, <1>5, FloorsLead
<1>7. LeadTypes'
  BY <1>1, <1>2, <1>6 DEF LeadTypes
<1>8. LeadCalls'
  BY <1>1, <1>2 DEF LeadCalls
<1>9. LeadFloors'
  BY <1>1, <1>6 DEF LeadFloors, Sent
<1>10. LeadMatched'
  <2>1. L!Matched' <=> L!Matched
    BY <1>1 DEF L!Matched, L!OffClock, L!Paired, L!Head1, L!IsOldest, L!Queued
  <2> QED BY <2>1, <1>1, <1>2 DEF LeadMatched
<1> QED BY <1>6, <1>7, <1>8, <1>9, <1>10

LEMMA NothingQueued ==
  ASSUME queue = {}
  PROVE  L!Matched
BY DEF L!Matched, L!OffClock

LEMMA InitLead ==
  L!Init => LeadInv
<1> SUFFICES ASSUME L!Init PROVE LeadInv
  OBVIOUS
<1>1. /\ taken = {} /\ out = <<>> /\ floor = [p \in Ports |-> kMin] /\ ended = {}
      /\ clock = kMin /\ merge_order \in Modes /\ flushed = {} /\ last_forwarded = kMin
      /\ call = "idle" /\ error = "none" /\ flushes = 0
      /\ queue = {} /\ ring = <<>> /\ lo = [p \in Ports |-> kMin]
  BY LeadFacts DEF L!Init, L!PortsInit, L!SInit
<1>2. Numbered /\ \A p : Sent(p) = 0
  BY <1>1, NoneSent
<1>3. Made = 0
  BY <1>1 DEF Made
<1>4. floor[L!X] = kMin /\ kMin \in Int /\ \A p \in Ports : floor[p] = kMin /\ lo[p] = kMin
  BY <1>1, LeadFacts
<1>5. LeadTypes
  BY <1>1, <1>2, LeadFacts DEF LeadTypes
<1>6. LeadCalls
  BY <1>1 DEF LeadCalls, Drained
<1>7. LeadFloors
  BY <1>1, <1>2, <1>4, LeadFacts DEF LeadFloors
<1>8. LeadQueue /\ LeadRing /\ LeadOut
  BY <1>1, <1>2, <1>3, LeadFacts DEF LeadQueue, LeadRing, LeadOut
<1>9. LeadMatched /\ LeadAhead
  BY <1>1, <1>4, NothingQueued DEF LeadMatched, LeadAhead, Ahead
<1> QED BY <1>5, <1>6, <1>7, <1>8, <1>9 DEF LeadInv

LEMMA ResetLead ==
  ASSUME LeadInv, NEW m \in Modes, L!Reset(m)
  PROVE  LeadInv'
<1>1. /\ taken' = {} /\ out' = <<>> /\ floor' = [p \in Ports |-> kMin] /\ ended' = {}
      /\ clock' = kMin /\ merge_order' \in Modes /\ flushed' = {} /\ last_forwarded' = kMin
      /\ call' = "idle" /\ error' = "none" /\ flushes' = 0
      /\ queue' = {} /\ ring' = <<>> /\ lo' = [p \in Ports |-> kMin]
  BY LeadFacts DEF L!Reset, L!ResetPorts, L!Restart
<1>2. Numbered' /\ \A p : Sent(p)' = 0
  BY <1>1, NoEvents
<1>3. Made' = 0
  BY <1>1 DEF Made
<1>4. floor'[L!X] = kMin /\ kMin \in Int /\ \A p \in Ports : floor'[p] = kMin /\ lo'[p] = kMin
  BY <1>1, LeadFacts
<1>5. LeadTypes'
  BY <1>1, <1>2, LeadFacts DEF LeadTypes
<1>6. LeadCalls'
  BY <1>1 DEF LeadCalls, Drained
<1>7. LeadFloors'
  <2>1. \A p \in Ports : Sent(p)' <= MaxEvents + 1
    BY <1>2, LeadFacts
  <2> QED BY <2>1, <1>1, <1>4, LeadFacts DEF LeadFloors, Sent
<1>8. LeadQueue'
  <2>1. \A p \in Ports : Made' <= Sent(p)'
    BY <1>2, <1>3
  <2> QED BY <2>1, <1>1, <1>3 DEF LeadQueue, Sent
<1>9. LeadRing' /\ LeadOut'
  BY <1>1, LeadFacts DEF LeadRing, LeadOut
<1>10. LeadMatched'
  BY <1>1 DEF LeadMatched, L!Matched, L!OffClock
<1>11. LeadAhead'
  BY <1>1, <1>4 DEF LeadAhead, Ahead
<1> QED BY <1>5, <1>6, <1>7, <1>8, <1>9, <1>10, <1>11 DEF LeadInv

LEMMA NextLead ==
  ASSUME LeadInv, L!Next
  PROVE  LeadInv'
<1>1. CASE \E p \in Ports, t \in Indexes : L!Push(p, t)
  BY <1>1, PushLead
<1>2. CASE \E p \in Ports, w \in Index : L!OnWatermark(p, w)
  BY <1>2, WatermarkLead
<1>3. CASE \E p \in Ports : L!FlushPort(p)
  BY <1>3, FlushLead
<1>4. CASE L!Handler
  BY <1>4, PairLead, DrainLead, EndDrainLead, ReturnLead DEF L!Handler
<1>5. CASE \E t \in Index : L!MergeMoves(t) /\ UNCHANGED L!leadVars
  BY <1>5, MergeMovesLead
<1>6. CASE \E m \in Modes : L!Reset(m)
  BY <1>6, ResetLead
<1> QED BY <1>1, <1>2, <1>3, <1>4, <1>5, <1>6, LeadFacts DEF L!Next

\* The pairs made are pairs of the k-th events, on one clock.
LEMMA MadePairs ==
  ASSUME LeadInv, NEW k \in Nat, k < Made
  PROVE  /\ \E x \in L!Nth(L!X, k), y \in L!Nth(L!Y, k) : TRUE
         /\ \A x \in L!Nth(L!X, k), y \in L!Nth(L!Y, k) : x.index = y.index
<1> USE DEF LeadInv
<1>1. ASSUME NEW p \in Ports PROVE \E d \in taken : d.port = p /\ d.nth = k
  <2>1. Made \in Nat /\ Sent(p) \in Nat /\ Made <= Sent(p)
    BY MadeIsNat DEF LeadQueue
  <2>2. k < Sent(p)
    BY <2>1
  <2> QED BY <2>2 DEF LeadTypes, Numbered
<1>2. \A x \in L!Nth(L!X, k), y \in L!Nth(L!Y, k) : x.index = y.index
  BY DEF LeadQueue, L!Nth
<1> QED BY <1>1, <1>2, LeadFacts DEF L!Nth

LEMMA LeadRowsRight ==
  LeadInv => L!RowsRight /\ L!ErrorRight
<1> SUFFICES ASSUME LeadInv PROVE L!RowsRight /\ L!ErrorRight
  OBVIOUS
<1> USE DEF LeadInv
<1>1. /\ Made \in Nat /\ Len(out) \in Nat
  BY MadeIsNat
<1>2. ASSUME NEW i \in 1 .. Len(out)
      PROVE  /\ \E x \in L!Nth(L!X, i - 1) : out[i] = L!PairOf(x, L!TargetOf(i - 1))
             /\ L!TargetOf(i - 1) = {} => ended = Ports
  <2>1. PICK x \in taken : HasTarget(i, x)
    BY DEF LeadOut
  <2>2. x \in L!Nth(L!X, i - 1)
    BY <2>1 DEF HasTarget, L!Nth
  <2>3. i - 1 \in Nat /\ i - 1 + Count \in Nat
    BY <1>1, LeadFacts
  <2>4. CASE i - 1 + Count < Made
    <3>1. ~ Made <= i - 1 + Count
      BY <2>3, <2>4, <1>1
    <3>2. PICK y \in taken : y.port = L!Y /\ y.nth = i - 1 + Count /\ out[i] = L!PairOf(x, {y})
      BY <2>1, <3>1 DEF HasTarget
    <3>3. y \in L!Nth(L!Y, i - 1 + Count) /\ \A d \in L!Nth(L!Y, i - 1 + Count) : d = y
      <4>1. \A a, b \in taken : a.port = b.port /\ a.nth = b.nth => a = b
        BY DEF LeadTypes, Numbered
      <4> QED BY <3>2, <4>1 DEF L!Nth
    <3>4. PICK c \in L!Nth(L!X, i - 1 + Count) : c.index = y.index
      BY <2>3, <2>4, <3>3, MadePairs
    <3>5. L!TargetOf(i - 1) = {y}
      BY <3>3, <3>4 DEF L!TargetOf
    <3> QED BY <2>2, <3>2, <3>5
  <2>5. CASE ~ (i - 1 + Count < Made)
    <3>1. Made <= i - 1 + Count /\ Drained /\ out[i] = L!PairOf(x, {})
      BY <2>1, <2>5 DEF HasTarget
    <3>2. ended = Ports /\ error = "none"
      BY <3>1 DEF LeadCalls
    <3>3. L!Matched
      BY <3>1, <3>2 DEF LeadMatched, LeadCalls, Drained
    <3>4. PICK p \in Ports : Sent(p) = Made
      BY <3>3, MatchedIs, LeadFacts
    <3>5. L!Nth(p, i - 1 + Count) = {}
      <4>1. ASSUME NEW d \in taken, d.port = p, d.nth = i - 1 + Count PROVE FALSE
        <5>1. d.nth < Sent(d.port) /\ d.nth \in Nat
          BY DEF LeadTypes, Numbered
        <5>2. Sent(d.port) = Made
          BY <4>1, <3>4
        <5> QED BY <5>1, <5>2, <4>1, <3>1, <1>1
      <4> QED BY <4>1 DEF L!Nth
    <3>6. L!TargetOf(i - 1) = {}
      BY <3>5, LeadFacts DEF L!TargetOf
    <3> QED BY <2>2, <3>1, <3>2, <3>6
  <2> QED BY <2>4, <2>5
<1>3. L!ErrorRight
  <2>1. ASSUME error = "one clock" PROVE \E k \in 0 .. (MaxEvents + 1) - 1 : L!Differ(k)
    <3>1. L!Differ(Made) /\ Made <= MaxEvents
      BY <2>1 DEF LeadMatched
    <3>2. Made \in 0 .. (MaxEvents + 1) - 1
      BY <3>1, <1>1, LeadFacts
    <3> QED BY <3>1, <3>2
  <2> QED BY <2>1 DEF L!ErrorRight
<1> QED BY <1>2, <1>3, LeadFacts DEF L!RowsRight

LEMMA LeadWaits ==
  LeadInv => L!WaitsForCause /\ L!SavedStateLoads
<1> SUFFICES ASSUME LeadInv, L!Idle PROVE L!WaitsForCause /\ L!SavedStateLoads
  BY DEF L!WaitsForCause, L!SavedStateLoads
<1> USE DEF LeadInv
<1>1. L!Matched
  BY DEF L!Idle, LeadMatched
<1>2. L!Queued(L!X) = {} \/ L!Queued(L!Y) = {}
  BY <1>1, MatchedIs
<1>3. Len(ring) <= Count
  BY DEF LeadRing
<1>4. Made \in Nat /\ \A p : Sent(p) \in Nat
  BY MadeIsNat
<1>5. ASSUME NEW p \in Ports, NEW k \in Nat, Made <= k, Sent(p) = Made PROVE L!Nth(p, k) = {}
  <2>1. ASSUME NEW d \in taken, d.port = p, d.nth = k PROVE FALSE
    <3>1. d.nth < Sent(d.port) /\ d.nth \in Nat
      BY DEF LeadTypes, Numbered
    <3>2. Sent(d.port) = Made
      BY <2>1, <1>5
    <3> QED BY <3>1, <3>2, <2>1, <1>4, <1>5
  <2> QED BY <2>1 DEF L!Nth
<1>6. ASSUME NEW e \in queue PROVE L!Nth(1 - e.port, e.nth) = {}
  <2>1. e.nth \in Nat /\ Made <= e.nth /\ 1 - e.port \in Ports
    BY LeadFacts DEF LeadQueue, LeadTypes, Numbered
  <2>2. Sent(1 - e.port) = Made
    BY <1>1, MatchedIs
  <2> QED BY <2>1, <2>2, <1>5
<1>7. ASSUME ~merge_order, NEW k \in Nat, L!Differ(k) PROVE \E e \in taken : e.nth = k /\ e.index = kMax
  <2>1. ~ k < Made
    <3>1. ASSUME k < Made PROVE FALSE
      <4>1. \A x \in L!Nth(L!X, k), y \in L!Nth(L!Y, k) : x.index = y.index
        BY <3>1, MadePairs
      <4>2. \A p \in Ports : L!Nth(1 - p, k) # {}
        BY <3>1, MadePairs, LeadFacts
      <4> QED BY <4>1, <4>2, <1>7, LeadFacts DEF L!Differ
    <3> QED BY <3>1
  <2>2. Made <= k
    BY <2>1, <1>4
  <2>3. L!Nth(L!X, k) = {} \/ L!Nth(L!Y, k) = {}
    BY <2>2, <1>1, <1>5, MatchedIs, LeadFacts
  <2>4. PICK p \in Ports : \E e \in L!Nth(p, k) : L!Past(1 - p, e.index)
    BY <2>3, <1>7, LeadFacts DEF L!Differ
  <2>20. PICK e \in L!Nth(p, k) : L!Past(1 - p, e.index)
    BY <2>4
  <2>5. e \in taken /\ e.nth = k /\ e.port = p /\ e \in queue
    BY <2>2, <2>20 DEF L!Nth, LeadQueue
  <2>6. lo[1 - p] <= e.index
    BY <2>5, <1>1, MatchedIs
  <2>7. 1 - p \in Ports /\ e.index \in Index /\ lo[1 - p] \in Index /\ lo = floor
    BY <2>5, <1>7, LeadFacts DEF LeadTypes, Numbered, LeadFloors
  <2>8. 1 - p \in ended
    BY <2>20, <2>6, <2>7, LeadFacts DEF L!Past
  <2>9. lo[1 - p] = kMax
    BY <2>8 DEF LeadFloors
  <2>10. e.index = kMax
    BY <2>6, <2>7, <2>9, LeadFacts
  <2> QED BY <2>5, <2>10
<1>8. L!WaitsForCause
  <2>1. \A k \in 0 .. (MaxEvents + 1) - 1 : k \in Nat
    OBVIOUS
  <2> QED BY <2>1, <1>6, <1>7 DEF L!WaitsForCause
<1> QED BY <1>2, <1>3, <1>8 DEF L!SavedStateLoads

LEMMA LeadEnds ==
  LeadInv => L!EndEmitsAll
<1> SUFFICES ASSUME LeadInv, flushes > 0
             PROVE  flushes = 1 /\ \A e \in taken : e.index < kMax /\ e.port = L!X => e.nth < Len(out)
  BY DEF L!EndEmitsAll
<1> USE DEF LeadInv
<1>1. flushes = 1 /\ call = "idle" /\ ring = <<>>
  BY DEF LeadCalls
<1>2. Drained
  BY <1>1 DEF Drained
<1>3. ended = Ports /\ error = "none"
  BY <1>2 DEF LeadCalls
<1>4. L!Matched
  BY <1>1, <1>3 DEF LeadMatched
<1>5. Made = Len(out) /\ Len(out) \in Nat
  BY <1>1, MadeIsNat DEF Made
<1>6. ASSUME NEW e \in taken, e.index < kMax, e.port = L!X, ~ e.nth < Len(out) PROVE FALSE
  <2>1. e \in queue
    <3>1. e.nth \in Nat
      BY <1>6 DEF LeadTypes, Numbered
    <3>2. Made <= e.nth
      BY <3>1, <1>5, <1>6
    <3> QED BY <3>2, <1>6 DEF LeadQueue
  <2>2. lo[1 - e.port] <= e.index
    BY <2>1, <1>4, MatchedIs
  <2>3. lo[1 - e.port] = kMax
    BY <1>3, <1>6, LeadFacts DEF LeadFloors
  <2>4. e.index \in Int /\ kMax \in Int
    BY LeadFacts DEF LeadTypes, Numbered
  <2> QED BY <2>2, <2>3, <2>4, <1>6
<1> QED BY <1>1, <1>6

LEMMA LeadPromise ==
  ASSUME LeadInv, L!Next, Len(out') > Len(out)
  PROVE  last_forwarded <= out'[Len(out')].index
<1> USE DEF LeadInv
<1>1. Len(out) \in Nat /\ Len(ring) \in Nat
  BY MadeIsNat
<1>2. PICK S : out' = Append(out, L!PairOf(Head(ring), S)) /\ ring # <<>>
  <2>1. ASSUME out' = out PROVE FALSE
    BY <2>1, <1>1
  <2>2. ASSUME out' = <<>> PROVE FALSE
    BY <2>2, <1>1
  <2>3. L!Pair \/ L!DrainRow
    BY <2>1, <2>2 DEF L!Next, L!Push, L!Arrives, L!OnWatermark, L!Promises, L!FlushPort, L!Ends, L!Handler,
       L!ThrowOneClock, L!Overflow, L!EndPush, L!EndWatermark, L!EndFlushFirst, L!EndFlush, L!BeginDrain, L!EndDrain,
       L!FlushDown, L!Return, L!streamVars, L!MergeMoves, L!Reset, L!ResetPorts, L!Restart
  <2>4. CASE L!Pair
    <3>1. Len(ring) = Count /\ \E y : out' = Append(out, L!PairOf(Head(ring), {y}))
      BY <2>1, <2>4 DEF L!Pair
    <3>2. ring # <<>>
      BY <3>1, LeadFacts
    <3> QED BY <3>1, <3>2
  <2>5. CASE L!DrainRow
    BY <2>5 DEF L!DrainRow
  <2> QED BY <2>3, <2>4, <2>5
<1>3. PICK r : r = L!PairOf(Head(ring), S)
  OBVIOUS
<1>4. r.index = ring[1].index /\ last_forwarded <= ring[1].index
  <2>1. Head(ring) = ring[1]
    BY <1>2, OldestKept
  <2>2. 1 \in 1 .. Len(ring)
    <3>1. ring \in Seq(L!Event)
      BY DEF LeadTypes
    <3> QED BY <3>1, <1>1, <1>2
  <2> QED BY <2>1, <2>2, <1>3 DEF L!PairOf, LeadAhead
<1>5. out'[Len(out')] = r
  <2>1. out \in Seq(L!Row) /\ out' = Append(out, r)
    BY <1>2, <1>3 DEF LeadTypes
  <2> QED BY <2>1
<1> QED BY <1>4, <1>5

-----------------------------------------------------------------------------
(* The filter.                                                             *)

\* Its reorder buffer is that of an aligning join.
FP == INSTANCE CombineLatestProofs WITH Declared <- OneColumn

\* The mask in force at t among the applied events keeps the row there.
Keeps(t) ==
  \E d \in FP!AppliedOf(1) :
    d.index <= t /\ d.val \in Passing /\ \A c \in FP!AppliedOf(1) : c.index <= t => c.nth <= d.nth

FilterTypes ==
  /\ out \in Seq(FP!Row) /\ flushed \subseteq FP!Ports /\ flushes \in Nat
  /\ call \in {"idle", "push", "watermark", "flush"}

\* The row due is the row of the applied events, and the last of them.
FilterDue ==
  \A i \in due : buffered = latest /\ FP!AppliedRow(i) /\ \A d \in FP!Applied : d.index <= i

\* No event can come at the index of an earlier row,
FilterPast ==
  \A t \in FP!Index : FP!AppliedRow(t) /\ t \notin due =>
    /\ (\A p \in FP!Ports : t < wm[p]) \/ ended = FP!Ports
    /\ \A e \in pending : t < e.index

\* which is out if its mask keeps it, and only then.
FilterRows ==
  /\ FP!Emitted \subseteq FP!Index
  /\ \A t \in FP!Index : t \in FP!Emitted <=> FP!AppliedRow(t) /\ t \notin due /\ Keeps(t)

\* The watermark sent down is a promise about the rows that are left.
FilterLow ==
  /\ \A p \in FP!Ports : last_forwarded <= wm[p]
  /\ \A e \in pending : last_forwarded <= e.index
  /\ \A i \in due : last_forwarded <= i

\* Between two calls all up to the lowest watermark is applied, and it was sent down.
FilterBetween ==
  call = "idle" =>
    \A low \in FP!Index : FP!IsLow(low) =>
      /\ \A e \in pending : low < e.index
      /\ \A i \in due : low <= i
      /\ low <= last_forwarded

\* The filter flushes the node below once both ports have ended.
FilterEnds ==
  /\ flushes = 0 => flushed = ended
  /\ flushes > 0 => flushes = 1 /\ ended = FP!Ports /\ call = "idle" /\ pending = {} /\ due = {}

FilterKept == FP!Joined /\ FilterDue /\ FilterPast /\ FilterRows /\ FilterLow
FilterInv == FP!BInv /\ FilterTypes /\ FilterKept /\ FilterBetween /\ FilterEnds

LEMMA FilterFacts ==
  /\ FP!NAssumption /\ FP!IndexAssumption /\ FP!GateAssumption /\ FP!BufferAssumption
  /\ Gated /\ WhenAll /\ 0 \in FP!Ports /\ 1 \in FP!Ports /\ \A p \in FP!Ports : p = 0 \/ p = 1
  /\ kMin \in FP!Index /\ kMax \in FP!Index
  /\ \A k \in FP!Index : k \in Int /\ kMin <= k /\ k <= kMax
<1>1. FP!NAssumption /\ FP!IndexAssumption /\ FP!GateAssumption
  BY NAssumption, IndexAssumption, GateAssumption
<1>2. FP!BufferAssumption
  BY BufferAssumption DEF Index, FP!Index
<1>3. Gated /\ WhenAll /\ N = 2
  BY JoinAssumptions DEF F!FilterAssumption
<1>4. 0 \in FP!Ports /\ 1 \in FP!Ports /\ \A p \in FP!Ports : p = 0 \/ p = 1
  BY <1>3 DEF FP!Ports
<1>5. kMin \in FP!Index /\ kMax \in FP!Index /\ \A k \in FP!Index : k \in Int /\ kMin <= k /\ k <= kMax
  BY IndexAssumption DEF FP!Index
<1> QED BY <1>1, <1>2, <1>3, <1>4, <1>5

\* The filter has the buffer's definitions, and the stream's.
LEMMA FilterMeans ==
  /\ F!Ports = FP!Ports /\ F!Index = FP!Index
  /\ \A e : F!EventOf(e) = FP!EventOf(e)
  /\ \A a, b : F!Larger(a, b) = FP!Larger(a, b)
  /\ \A w : F!IsLow(w) <=> FP!IsLow(w)
  /\ \A e : F!Applicable(e) <=> FP!Applicable(e)
  /\ \A e : F!Renumbered(e) = FP!Renumbered(e)
  /\ F!Cardinality(pending) = FP!Cardinality(pending)
  /\ F!Released <=> FP!Released
  /\ \A l : F!Pass(l) <=> FP!Passes(l)
<1>1. F!Ports = FP!Ports /\ F!Index = FP!Index
  BY Zenon DEF F!Ports, FP!Ports, F!Index, FP!Index
<1>2. /\ \A e : F!EventOf(e) = FP!EventOf(e)
      /\ \A a, b : F!Larger(a, b) = FP!Larger(a, b)
      /\ \A l : F!Pass(l) <=> FP!Passes(l)
  BY Zenon DEF F!EventOf, FP!EventOf, F!Larger, FP!Larger, F!Pass, F!Passes, FP!Passes
<1>3. \A w : F!IsLow(w) <=> FP!IsLow(w)
  BY <1>1, Zenon DEF F!IsLow, FP!IsLow
<1>4. \A e : F!Applicable(e) <=> FP!Applicable(e)
  BY <1>1, <1>3, Zenon DEF F!Applicable, FP!Applicable, F!IsTop, FP!IsTop, F!HeapBefore, FP!HeapBefore
<1>5. /\ \A e : F!Renumbered(e) = FP!Renumbered(e)
      /\ F!Cardinality(pending) = FP!Cardinality(pending)
  BY Zenon DEF F!Renumbered, FP!Renumbered, F!HeapBefore, FP!HeapBefore, F!Cardinality, FP!Cardinality
<1>6. F!Released <=> FP!Released
  BY <1>4, Zenon DEF F!Released, FP!Released
<1> QED BY <1>1, <1>2, <1>3, <1>4, <1>5, <1>6

LEMMA FilterStreams ==
  /\ \A t : F!IsRow(t) <=> FP!IsRow(t)
  /\ F!RowsPrompt <=> FP!RowsPrompt
  /\ F!FlushEmitsAll <=> FP!FlushEmitsAll
  /\ F!SNext <=> FP!SNext
<1>1. /\ F!Ports = FP!Ports /\ F!Index = FP!Index /\ F!Emitted = FP!Emitted
      /\ \A p : F!Sent(p) = FP!Sent(p)
  BY Zenon DEF F!Ports, FP!Ports, F!Index, FP!Index, F!Emitted, FP!Emitted, F!Sent, FP!Sent,
     F!Cardinality, FP!Cardinality
<1>2. \A p, t : F!Latest(p, t) = FP!Latest(p, t)
  BY Zenon DEF F!Latest, FP!Latest, F!Upto, FP!Upto
<1>3. \A t : F!RowAt(t) = FP!RowAt(t)
  BY <1>1, <1>2, Zenon DEF F!RowAt, FP!RowAt
<1>4. \A t : F!IsRow(t) <=> FP!IsRow(t)
  BY <1>1, <1>2, <1>3, Zenon DEF F!IsRow, FP!IsRow, F!Passes, FP!Passes
<1>5. \A t : F!Final(t) <=> FP!Final(t)
  BY <1>1, Zenon DEF F!Final, FP!Final
<1>6. (F!RowsPrompt <=> FP!RowsPrompt) /\ (F!FlushEmitsAll <=> FP!FlushEmitsAll)
  BY <1>1, <1>4, FilterMeans, Zenon DEF F!RowsPrompt, FP!RowsPrompt, F!FlushEmitsAll, FP!FlushEmitsAll
<1>7. F!SNext <=> FP!SNext
  <2>1. F!Promise <=> FP!Promise
    BY <1>1, Zenon DEF F!Promise, FP!Promise
  <2>2. \A p : F!Offer(p) <=> FP!Offer(p)
    BY <1>1, Zenon DEF F!Offer, FP!Offer
  <2>3. \A S : F!End(S) <=> FP!End(S)
    BY <1>1, Zenon DEF F!End, FP!End
  <2>4. F!Deliver <=> FP!Deliver
    BY <1>1, <1>3, <1>4, <1>5, Zenon DEF F!Deliver, FP!Deliver
  <2>5. F!Restart <=> FP!Restart
    BY <1>1, Zenon DEF F!Restart, FP!Restart
  <2> QED BY <1>1, <2>1, <2>2, <2>3, <2>4, <2>5, Zenon DEF F!SNext, FP!SNext
<1> QED BY <1>4, <1>6, <1>7

LEMMA FilterInputs ==
  /\ \A p, t, v : F!Push(p, t, v) <=> FP!Enqueue(p, t, v) /\ UNCHANGED buffered
  /\ \A p, w : F!OnWatermark(p, w) <=> FP!OnWatermark(p, w)
  /\ \A p : F!FlushPort(p) <=> FP!FlushPort(p)
  /\ F!Restart <=> FP!Restart
  /\ F!ResetBuffer <=> FP!ResetBuffer
<1>1. \A p : F!Sent(p) = FP!Sent(p)
  BY Zenon DEF F!Sent, FP!Sent, F!Cardinality, FP!Cardinality
<1>2. \A p, t, v : F!Push(p, t, v) <=> FP!Enqueue(p, t, v) /\ UNCHANGED buffered
  BY <1>1, FilterMeans DEF F!Push, F!Enqueue, FP!Enqueue, F!MaySend, FP!MaySend, F!Idle, FP!Idle
<1>3. /\ \A p, w : F!OnWatermark(p, w) <=> FP!OnWatermark(p, w)
      /\ \A p : F!FlushPort(p) <=> FP!FlushPort(p)
  BY FilterMeans DEF F!OnWatermark, FP!OnWatermark, F!FlushPort, FP!FlushPort, F!Idle, FP!Idle
<1>4. (F!Restart <=> FP!Restart) /\ (F!ResetBuffer <=> FP!ResetBuffer)
  BY FilterMeans, Zenon DEF F!Restart, FP!Restart, F!ResetBuffer, FP!ResetBuffer
<1> QED BY <1>2, <1>3, <1>4

LEMMA FilterInts ==
  ASSUME FP!BInv
  PROVE  /\ \A p \in FP!Ports : wm[p] \in FP!Index /\ floor[p] \in FP!Index /\ wm[p] \in Int /\ floor[p] \in Int
         /\ \A d \in taken : d \in FP!Event /\ d.index \in FP!Index /\ d.index \in Int
                             /\ d.port \in FP!Ports /\ d.nth \in Nat
         /\ \A e \in pending : e \in FP!Entry /\ e.index \in Int /\ e.index \in FP!Index /\ e.port \in FP!Ports
         /\ \A i \in due : i \in FP!Index /\ i \in Int
         /\ last_forwarded \in Int /\ FP!Applied \subseteq taken
         /\ \A p : FP!AppliedOf(p) \subseteq FP!Applied
<1>1. /\ FP!Applied \subseteq taken
      /\ \A p : FP!AppliedOf(p) \subseteq FP!Applied
      /\ \A d \in taken : d \in FP!Event /\ d.index \in Int /\ d.index \in FP!Index
                             /\ d.port \in FP!Ports /\ d.nth \in Nat
      /\ \A e \in pending : e \in FP!Entry /\ e.index \in Int /\ e.port \in FP!Ports
      /\ \A i \in due : i \in Int /\ i \in FP!Index
      /\ \A p \in FP!Ports : wm[p] \in Int /\ floor[p] \in Int
  BY FP!AppliedEvents, FilterFacts
<1>2. /\ wm \in [FP!Ports -> FP!Index] /\ floor \in [FP!Ports -> FP!Index] /\ last_forwarded \in Int
      /\ \A e \in pending : e.index \in FP!Index
  BY <1>1, FilterFacts DEF FP!BInv, FP!BufferTypes, FP!Entry
<1> QED BY <1>1, <1>2

\* Where all is applied, the mask in force is that of all events.
LEMMA KeepsMeans ==
  ASSUME FP!BInv, NEW t \in FP!Index, \A e \in pending : t < e.index
  PROVE  /\ FP!Passes(FP!RowAt(t).latest) <=> Keeps(t)
         /\ FP!IsRow(t) <=> FP!AppliedRow(t) /\ Keeps(t)
<1>1. /\ FP!Upto(1, t) = {d \in FP!AppliedOf(1) : d.index <= t}
      /\ FP!IsRow(t) <=> FP!AppliedRow(t) /\ FP!Passes(FP!RowAt(t).latest)
  BY FP!AppliedRows, FilterFacts
<1>2. FP!RowAt(t).latest[1] = FP!Latest(1, t)
  BY FilterFacts DEF FP!RowAt
<1>3. FP!Latest(1, t) = {d \in FP!AppliedOf(1) :
                           d.index <= t /\ \A c \in FP!AppliedOf(1) : c.index <= t => c.nth <= d.nth}
  BY <1>1 DEF FP!Latest
<1>4. FP!Passes(FP!RowAt(t).latest) <=> \E d \in FP!Latest(1, t) : d.val \in Passing
  BY <1>2, FilterFacts DEF FP!Passes
<1>5. FP!Passes(FP!RowAt(t).latest) <=> Keeps(t)
  BY <1>3, <1>4 DEF Keeps
<1> QED BY <1>1, <1>5

\* The row due is the join's row at its index, and its mask is the one in force.
LEMMA FilterRowDue ==
  ASSUME FP!BInv, FilterTypes, FilterKept, NEW i \in due, \A e \in pending : i < e.index
  PROVE  /\ FP!RowAt(i) = [index |-> i, latest |-> buffered]
         /\ FP!Passes(buffered) <=> Keeps(i)
         /\ FP!Passes(buffered) => FP!IsRow(i)
         /\ \A u \in FP!Emitted : u < i
         /\ \A u \in FP!Index : u < i /\ FP!IsRow(u) => u \in FP!Emitted
<1>1. i \in FP!Index /\ i \in Int
  BY FilterInts
<1>2. FP!AppliedRow(i) /\ buffered = latest /\ \A d \in FP!Applied : d.index <= i
  BY DEF FilterKept, FilterDue
<1>3. FP!RowAt(i) = [index |-> i, latest |-> latest]
  BY <1>1, <1>2, FP!LatestRow, FilterFacts DEF FilterKept
<1>4. FP!RowAt(i).latest = buffered
  BY <1>2, <1>3
<1>5. /\ FP!Passes(buffered) <=> Keeps(i)
      /\ FP!Passes(buffered) => FP!IsRow(i)
  BY <1>1, <1>2, <1>4, KeepsMeans
<1>6. ASSUME NEW u \in FP!Emitted PROVE u < i
  <2>1. u \in FP!Index /\ FP!AppliedRow(u) /\ u # i
    BY DEF FilterKept, FilterRows
  <2>2. PICK d \in FP!Applied : d.index = u
    BY <2>1 DEF FP!AppliedRow
  <2>3. u <= i /\ u \in Int
    BY <1>2, <2>1, <2>2, FilterFacts
  <2> QED BY <1>1, <2>1, <2>3
<1>7. ASSUME NEW u \in FP!Index, u < i, FP!IsRow(u) PROVE u \in FP!Emitted
  <2>1. u \in Int /\ u \notin due
    BY <1>1, <1>7, FilterFacts DEF FP!BInv, FP!BufferTypes
  <2>2. \A e \in pending : u < e.index
    BY <1>1, <1>7, <2>1, FilterInts
  <2>3. FP!AppliedRow(u) /\ Keeps(u)
    BY <1>7, <2>2, KeepsMeans
  <2> QED BY <2>1, <2>3 DEF FilterKept, FilterRows
<1> QED BY <1>2, <1>3, <1>5, <1>6, <1>7

\* The row due goes out, or is dropped.
LEMMA FilterLeaves ==
  ASSUME FP!BInv, FilterTypes, FilterKept, NEW i \in due, \A e \in pending : i < e.index,
         IF FP!Passes(buffered) THEN out' = Append(out, [index |-> i, latest |-> buffered]) ELSE out' = out
  PROVE  /\ out' \in Seq(FP!Row)
         /\ FP!Emitted' \subseteq FP!Index
         /\ \A t : t \in FP!Emitted' <=> t \in FP!Emitted \/ (t = i /\ Keeps(i))
         /\ Len(out') > Len(out) => last_forwarded <= out'[Len(out')].index
         /\ FP!Final(i) /\ UNCHANGED <<taken, floor, ended>> => [FP!SNext]_streamVars
<1>1. i \in FP!Index /\ i \in Int /\ out \in Seq(FP!Row) /\ FP!Emitted \subseteq FP!Index
  BY FilterInts DEF FilterTypes, FilterKept, FilterRows
<1>2. CASE FP!Passes(buffered)
  <2> PICK r : r = [index |-> i, latest |-> buffered]
    OBVIOUS
  <2>1. out' = Append(out, r) /\ Keeps(i) /\ FP!IsRow(i) /\ FP!RowAt(i) = r
    BY <1>2, FilterRowDue
  <2>2. r \in FP!Row
    BY <1>1 DEF FilterKept, FilterDue, FP!BInv, FP!BufferTypes, FP!Row
  <2>3. out' \in Seq(FP!Row) /\ Len(out') = Len(out) + 1 /\ out'[Len(out')] = r
    BY <1>1, <2>1, <2>2
  <2>4. FP!Emitted' = FP!Emitted \cup {r.index}
    <3>1. out \in Seq(FP!Row) /\ out' = Append(out, r)
      BY <1>1, <2>1
    <3> QED BY <3>1, FP!AppendEmitted, FilterFacts
  <2>5. r.index = i /\ last_forwarded <= i
    BY DEF FilterKept, FilterLow
  <2>6. ASSUME FP!Final(i), UNCHANGED <<taken, floor, ended>> PROVE FP!Deliver
    BY <1>1, <2>1, <2>6, FilterRowDue DEF FP!Deliver
  <2> QED BY <1>1, <2>1, <2>3, <2>4, <2>5, <2>6 DEF FP!SNext
<1>3. CASE ~FP!Passes(buffered)
  <2>1. out' = out /\ ~Keeps(i)
    BY <1>3, FilterRowDue
  <2>2. FP!Emitted' = FP!Emitted
    BY <2>1 DEF FP!Emitted
  <2>3. Len(out) \in Nat
    BY <1>1
  <2> QED BY <1>1, <2>1, <2>2, <2>3 DEF streamVars
<1> QED BY <1>2, <1>3
-----------------------------------------------------------------------------
(* The filter's steps.                                                     *)

\* A call that applies nothing and takes no row keeps the rows.
LEMMA FilterQuiet ==
  ASSUME FP!BInv, FilterKept, FP!BInv', FP!Applied' = FP!Applied,
         \A p : FP!AppliedOf(p)' = FP!AppliedOf(p),
         UNCHANGED <<out, due, latest, buffered, last_forwarded>>,
         \A p \in FP!Ports : wm[p] <= wm'[p],
         ended = FP!Ports => ended' = FP!Ports,
         \A e \in pending' : (\E f \in pending : f.index = e.index)
                             \/ (ended # FP!Ports /\ \E p \in FP!Ports : wm[p] <= e.index)
  PROVE  FilterKept'
<1>1. /\ \A p \in FP!Ports : wm[p] \in Int /\ wm'[p] \in Int
      /\ \A e \in pending' : e.index \in Int
      /\ last_forwarded \in Int
  <2>1. wm' \in [FP!Ports -> FP!Index] /\ pending' \subseteq FP!Entry
    BY DEF FP!BInv, FP!BufferTypes
  <2> QED BY <2>1, FilterInts, FilterFacts DEF FP!Entry
<1>2. FP!Joined'
  BY DEF FilterKept, FP!Joined
<1>3. (\A t : FP!AppliedRow(t)' <=> FP!AppliedRow(t)) /\ (\A t : Keeps(t)' <=> Keeps(t)) /\ FP!Emitted' = FP!Emitted
  <2>1. \A t : FP!AppliedRow(t)' <=> FP!AppliedRow(t)
    BY DEF FP!AppliedRow
  <2>2. \A t : Keeps(t)' <=> Keeps(t)
    BY DEF Keeps
  <2> QED BY <2>1, <2>2 DEF FP!Emitted
<1>4. FilterDue' /\ FilterRows'
  BY <1>3 DEF FilterKept, FilterDue, FilterRows
<1>5. FilterPast'
  <2> SUFFICES ASSUME NEW t \in FP!Index, FP!AppliedRow(t), t \notin due
               PROVE  /\ (\A p \in FP!Ports : t < wm'[p]) \/ ended' = FP!Ports
                      /\ \A e \in pending' : t < e.index
    BY <1>3 DEF FilterPast
  <2>1. /\ (\A p \in FP!Ports : t < wm[p]) \/ ended = FP!Ports
        /\ \A e \in pending : t < e.index
    BY DEF FilterKept, FilterPast
  <2>2. t \in Int
    BY FilterFacts
  <2> QED BY <1>1, <2>1, <2>2
<1>6. FilterLow'
  <2>1. \A p \in FP!Ports : last_forwarded <= wm'[p]
    BY <1>1 DEF FilterKept, FilterLow
  <2>2. \A e \in pending' : last_forwarded <= e.index
    BY <1>1 DEF FilterKept, FilterLow
  <2> QED BY <2>1, <2>2 DEF FilterKept, FilterLow
<1> QED BY <1>2, <1>4, <1>5, <1>6 DEF FilterKept

LEMMA FilterPush ==
  ASSUME FilterInv, NEW p \in FP!Ports, NEW t \in Indexes, NEW v \in Vals,
         FP!Enqueue(p, t, v), UNCHANGED buffered
  PROVE  FilterInv'
<1>1. FP!BInv' /\ FP!Applied' = FP!Applied /\ \A q : FP!AppliedOf(q)' = FP!AppliedOf(q)
  BY FP!EnqueueBuffer, FilterFacts DEF FilterInv
<1>2. PICK e \in FP!Entry : e.index = t /\ pending' = pending \cup {e}
  BY FP!EnqueueAdds, FilterFacts DEF FilterInv, FP!BInv
<1>3. /\ p \notin ended /\ floor[p] <= t /\ call = "idle" /\ call' = "push"
      /\ wm' = [wm EXCEPT ![p] = FP!Larger(wm[p], t)]
      /\ UNCHANGED <<out, ended, flushed, due, latest, last_forwarded, flushes>>
  BY DEF FP!Enqueue, FP!MaySend, FP!Idle
<1>4. /\ t \in Int /\ \A q \in FP!Ports : wm[q] \in Int /\ floor[q] \in Int
      /\ wm \in [FP!Ports -> FP!Index] /\ wm[p] <= floor[p]
  BY FilterFacts, FilterInts, BufferAssumption DEF FilterInv, FP!BInv, FP!BufferTypes, FP!Known, FP!Index, Index
<1>5. wm[p] <= e.index /\ \A q \in FP!Ports : wm[q] <= wm'[q]
  BY <1>2, <1>3, <1>4 DEF FP!Larger
<1>6. FilterKept'
  <2>1. ended # FP!Ports
    BY <1>3
  <2>2. \A f \in pending' : (\E g \in pending : g.index = f.index)
                            \/ (ended # FP!Ports /\ \E q \in FP!Ports : wm[q] <= f.index)
    BY <1>2, <1>5, <2>1
  <2> QED BY <1>1, <1>3, <1>5, <2>1, <2>2, FilterQuiet DEF FilterInv
<1>7. FilterTypes' /\ FilterBetween' /\ FilterEnds'
  BY <1>3 DEF FilterInv, FilterTypes, FilterBetween, FilterEnds
<1> QED BY <1>1, <1>6, <1>7 DEF FilterInv

LEMMA FilterWatermark ==
  ASSUME FilterInv, NEW p \in FP!Ports, NEW w \in FP!Index, FP!OnWatermark(p, w), UNCHANGED buffered
  PROVE  FilterInv'
<1>1. /\ FP!BInv' /\ FP!Applied' = FP!Applied /\ \A q : FP!AppliedOf(q)' = FP!AppliedOf(q)
      /\ \A q \in FP!Ports : wm[q] <= wm'[q]
  BY FP!OnWatermarkBuffer, FilterFacts DEF FilterInv
<1>2. /\ p \notin ended /\ call = "idle" /\ call' = "watermark"
      /\ UNCHANGED <<out, ended, flushed, pending, due, latest, last_forwarded, flushes>>
  BY DEF FP!OnWatermark, FP!Idle
<1>3. FilterKept'
  BY <1>1, <1>2, FilterQuiet DEF FilterInv
<1>4. FilterTypes' /\ FilterBetween' /\ FilterEnds'
  BY <1>2 DEF FilterInv, FilterTypes, FilterBetween, FilterEnds
<1> QED BY <1>1, <1>3, <1>4 DEF FilterInv

LEMMA FilterFlush ==
  ASSUME FilterInv, NEW p \in FP!Ports, FP!FlushPort(p), UNCHANGED buffered
  PROVE  FilterInv'
<1>1. /\ FP!BInv' /\ FP!Applied' = FP!Applied /\ \A q : FP!AppliedOf(q)' = FP!AppliedOf(q)
      /\ \A q \in FP!Ports : wm[q] <= wm'[q]
  BY FP!FlushPortBuffer, FilterFacts DEF FilterInv
<1>2. /\ p \notin ended /\ call = "idle" /\ call' = "flush"
      /\ ended' = ended \cup {p} /\ flushed' = flushed \cup {p}
      /\ UNCHANGED <<out, pending, due, latest, last_forwarded, flushes>>
  BY DEF FP!FlushPort, FP!Idle
<1>3. FilterKept'
  BY <1>1, <1>2, FilterQuiet DEF FilterInv
<1>4. flushes = 0
  BY <1>2 DEF FilterInv, FilterTypes, FilterEnds
<1>5. FilterTypes' /\ FilterBetween' /\ FilterEnds'
  BY <1>2, <1>4 DEF FilterInv, FilterTypes, FilterBetween, FilterEnds
<1> QED BY <1>1, <1>3, <1>5 DEF FilterInv

\* An event is applied; the row due leaves when the index moves on.
LEMMA FilterApplies ==
  ASSUME FilterInv, F!ApplyTop
  PROVE  \E e \in pending :
           /\ FP!Applicable(e) /\ pending' = pending \ {e}
           /\ latest' = [latest EXCEPT ![e.port] = {FP!EventOf(e)}]
           /\ UNCHANGED <<taken, floor, ended, wm, flushed, next_seq, call, flushes>> /\ call # "idle"
           /\ \/ /\ \E p \in FP!Ports : latest'[p] = {}
                 /\ UNCHANGED <<out, last_forwarded, due, buffered>>
              \/ /\ \A p \in FP!Ports : latest'[p] # {}
                 /\ due' = {e.index} /\ buffered' = latest'
                 /\ \/ due \subseteq {e.index} /\ UNCHANGED <<out, last_forwarded>>
                    \/ \E i \in due :
                         /\ i # e.index /\ last_forwarded' \in {last_forwarded, FP!Larger(last_forwarded, i)}
                         /\ IF FP!Passes(buffered)
                            THEN out' = Append(out, [index |-> i, latest |-> buffered]) ELSE out' = out
<1>1. PICK e \in pending :
        /\ FP!Applicable(e) /\ pending' = pending \ {e}
        /\ latest' = [latest EXCEPT ![e.port] = {FP!EventOf(e)}]
        /\ IF \E p \in FP!Ports : latest'[p] = {}
           THEN UNCHANGED <<out, last_forwarded, due, buffered>>
           ELSE /\ IF due \subseteq {e.index}
                   THEN UNCHANGED <<out, last_forwarded>>
                   ELSE \E i \in due : F!EmitBuffered(i)
                /\ due' = {e.index}
                /\ buffered' = latest'
  BY FilterMeans, Zenon DEF F!ApplyTop
<1>2. UNCHANGED <<taken, floor, ended, wm, flushed, next_seq, call, flushes>> /\ call # "idle"
  BY DEF F!ApplyTop, F!callVars
<1>3. ASSUME NEW i \in due, F!EmitBuffered(i)
      PROVE  /\ last_forwarded' \in {last_forwarded, FP!Larger(last_forwarded, i)}
             /\ IF FP!Passes(buffered)
                THEN out' = Append(out, [index |-> i, latest |-> buffered]) ELSE out' = out
  BY <1>3, FilterMeans DEF F!EmitBuffered
<1>4. \A i, j \in due : i = j
  BY DEF FilterInv, FP!BInv, FP!BufferTypes
<1>5. CASE \E p \in FP!Ports : latest'[p] = {}
  BY <1>1, <1>2, <1>5
<1>6. CASE (\A p \in FP!Ports : latest'[p] # {}) /\ due \subseteq {e.index}
  BY <1>1, <1>2, <1>6
<1>7. CASE (\A p \in FP!Ports : latest'[p] # {}) /\ ~(due \subseteq {e.index})
  <2>1. PICK i \in due : F!EmitBuffered(i)
    BY <1>1, <1>7
  <2>2. i # e.index
    BY <1>4, <1>7
  <2> QED BY <1>1, <1>2, <1>3, <1>7, <2>1, <2>2
<1> QED BY <1>5, <1>6, <1>7

\* What applying the first waiting event does to the rows of the applied events.
LEMMA FilterGrows ==
  ASSUME FP!BInv, FilterKept, NEW e \in pending, FP!Applicable(e), pending' = pending \ {e},
         latest' = [latest EXCEPT ![e.port] = {FP!EventOf(e)}], UNCHANGED taken
  PROVE  /\ FP!Joined'
         /\ \A p \in FP!Ports : e.index <= wm[p]
         /\ \A d \in FP!Applied' : d.index <= e.index
         /\ \A f \in pending' : f \in pending /\ e.index <= f.index
         /\ FP!AppliedRow(e.index)' <=> \A p \in FP!Ports : latest'[p] # {}
         /\ \A t \in FP!Index : t < e.index => (FP!AppliedRow(t)' <=> FP!AppliedRow(t)) /\ (Keeps(t)' <=> Keeps(t))
         /\ \A t \in FP!Index : FP!AppliedRow(t) \/ FP!AppliedRow(t)' => t <= e.index
         /\ FP!AppliedRow(e.index) => FP!AppliedRow(e.index)'
         /\ \A i \in due : i <= e.index /\ \A p \in FP!Ports : latest[p] # {}
<1> DEFINE v == FP!EventOf(e)
<1>1. /\ v \in taken /\ v \notin FP!Applied /\ FP!Applied' = FP!Applied \cup {v}
      /\ \A f \in pending' : e.index <= f.index /\ (e.port = f.port => e.nth < f.nth)
  BY FP!TopApplied, FilterFacts DEF FP!Applicable
<1>2. e \in FP!Entry /\ v.index = e.index /\ v.port = e.port /\ v.nth = e.nth
  BY FP!EntryEvent, FilterFacts, FilterInts
<1> HIDE DEF v
<1>3. /\ e.index \in FP!Index /\ e.index \in Int /\ e.port \in FP!Ports
      /\ \A d \in FP!Applied : d.index \in Int /\ d.index \in FP!Index /\ d.port \in FP!Ports /\ d.nth \in Nat
      /\ v.nth \in Nat
  BY <1>1, FilterInts
<1>4. \A d \in FP!Applied : d.index <= e.index /\ (d.port = e.port => d.nth < v.nth)
  BY <1>2 DEF FP!BInv, FP!Numbered
<1>5. \A p \in FP!Ports : e.index <= wm[p]
  <2>1. PICK low \in FP!Index : FP!IsLow(low) /\ e.index <= low
    BY DEF FP!Applicable
  <2> QED BY <1>3, <2>1, FilterInts, FilterFacts DEF FP!IsLow
<1>6. /\ FP!AppliedOf(e.port)' = FP!AppliedOf(e.port) \cup {v}
      /\ \A p : p # e.port => FP!AppliedOf(p)' = FP!AppliedOf(p)
  <2>1. \A p : FP!AppliedOf(p)' = {d \in FP!Applied' : d.port = p}
    BY DEF FP!AppliedOf
  <2> QED BY <1>1, <1>2, <2>1 DEF FP!AppliedOf
<1>7. FP!Joined'
  <2> SUFFICES ASSUME NEW p \in FP!Ports
               PROVE  latest'[p] = {d \in FP!AppliedOf(p)' : \A c \in FP!AppliedOf(p)' : c.nth <= d.nth}
    BY DEF FP!Joined
  <2>1. CASE p = e.port
    <3>1. latest'[p] = {v}
      BY <2>1 DEF v, FP!BInv, FP!BufferTypes
    <3>2. \A d \in FP!AppliedOf(p) : d.nth < v.nth /\ d.nth \in Nat
      BY <1>3, <1>4, <2>1 DEF FP!AppliedOf
    <3>3. FP!AppliedOf(p)' = FP!AppliedOf(p) \cup {v}
      BY <1>6, <2>1
    <3> QED BY <1>3, <3>1, <3>2, <3>3
  <2>2. CASE p # e.port
    <3>1. latest'[p] = latest[p] /\ FP!AppliedOf(p)' = FP!AppliedOf(p)
      BY <1>6, <2>2 DEF FP!BInv, FP!BufferTypes
    <3> QED BY <3>1 DEF FilterKept, FP!Joined
  <2> QED BY <2>1, <2>2
<1>8. \A d \in FP!Applied' : d.index <= e.index
  BY <1>1, <1>2, <1>3, <1>4
<1>9. \A p \in FP!Ports : latest'[p] # {} <=> \E d \in FP!AppliedOf(p)' : d.index <= e.index
  <2> SUFFICES ASSUME NEW p \in FP!Ports
               PROVE  latest'[p] # {} <=> \E d \in FP!AppliedOf(p)' : d.index <= e.index
    OBVIOUS
  <2>1. CASE p = e.port
    <3>1. latest'[p] = {v}
      BY <2>1 DEF v, FP!BInv, FP!BufferTypes
    <3> QED BY <1>2, <1>3, <1>6, <2>1, <3>1
  <2>2. CASE p # e.port
    <3>1. latest'[p] = latest[p] /\ FP!AppliedOf(p)' = FP!AppliedOf(p)
      BY <1>6, <2>2 DEF FP!BInv, FP!BufferTypes
    <3>2. latest[p] = {} <=> FP!AppliedOf(p) = {}
      BY FP!LatestExists, FilterFacts DEF FilterKept
    <3>3. \A d \in FP!AppliedOf(p) : d.index <= e.index
      BY <1>4, FilterInts
    <3> QED BY <3>1, <3>2, <3>3
  <2> QED BY <2>1, <2>2
<1>10. FP!AppliedRow(e.index)' <=> \A p \in FP!Ports : latest'[p] # {}
  BY <1>1, <1>2, <1>9, FilterFacts DEF FP!AppliedRow
<1>11. ASSUME NEW t \in FP!Index, t < e.index
       PROVE  (FP!AppliedRow(t)' <=> FP!AppliedRow(t)) /\ (Keeps(t)' <=> Keeps(t))
  <2>1. ~(v.index <= t) /\ v.index # t
    BY <1>2, <1>3, <1>11, FilterFacts
  <2>2. \A p \in FP!Ports : (\E d \in FP!AppliedOf(p)' : d.index <= t) <=> \E d \in FP!AppliedOf(p) : d.index <= t
    BY <1>6, <2>1
  <2>3. (\E d \in FP!Applied' : d.index = t) <=> \E d \in FP!Applied : d.index = t
    BY <1>1, <2>1
  <2>4. FP!AppliedRow(t)' <=> FP!AppliedRow(t)
    BY <2>2, <2>3 DEF FP!AppliedRow
  <2>5. Keeps(t)' <=> Keeps(t)
    <3>1. FP!AppliedOf(1)' = FP!AppliedOf(1) \/ FP!AppliedOf(1)' = FP!AppliedOf(1) \cup {v}
      BY <1>6
    <3> QED BY <2>1, <3>1 DEF Keeps
  <2> QED BY <2>4, <2>5
<1>12. ASSUME NEW t \in FP!Index, FP!AppliedRow(t) \/ FP!AppliedRow(t)' PROVE t <= e.index
  <2>1. \E d \in FP!Applied' : d.index = t
    BY <1>1, <1>12 DEF FP!AppliedRow
  <2> QED BY <1>8, <2>1
<1>13. FP!AppliedRow(e.index) => FP!AppliedRow(e.index)'
  BY <1>1, <1>6 DEF FP!AppliedRow
<1>14. ASSUME NEW i \in due PROVE i <= e.index /\ \A p \in FP!Ports : latest[p] # {}
  <2>1. i \in FP!Index /\ FP!AppliedRow(i)
    BY FilterInts DEF FilterKept, FilterDue
  <2>2. \A p \in FP!Ports : FP!AppliedOf(p) # {}
    BY <2>1, FilterFacts DEF FP!AppliedRow
  <2> QED BY <1>12, <2>1, <2>2, FP!LatestExists, FilterFacts DEF FilterKept
<1> QED BY <1>1, <1>5, <1>7, <1>8, <1>10, <1>11, <1>12, <1>13, <1>14

LEMMA FilterApply ==
  ASSUME FilterInv, F!ApplyTop
  PROVE  /\ FilterInv' /\ [FP!SNext]_streamVars
         /\ Len(out') > Len(out) => last_forwarded <= out'[Len(out')].index
<1>1. PICK e \in pending :
        /\ FP!Applicable(e) /\ pending' = pending \ {e}
        /\ latest' = [latest EXCEPT ![e.port] = {FP!EventOf(e)}]
        /\ UNCHANGED <<taken, floor, ended, wm, flushed, next_seq, call, flushes>> /\ call # "idle"
        /\ \/ /\ \E p \in FP!Ports : latest'[p] = {}
              /\ UNCHANGED <<out, last_forwarded, due, buffered>>
           \/ /\ \A p \in FP!Ports : latest'[p] # {}
              /\ due' = {e.index} /\ buffered' = latest'
              /\ \/ due \subseteq {e.index} /\ UNCHANGED <<out, last_forwarded>>
                 \/ \E i \in due :
                      /\ i # e.index /\ last_forwarded' \in {last_forwarded, FP!Larger(last_forwarded, i)}
                      /\ IF FP!Passes(buffered)
                         THEN out' = Append(out, [index |-> i, latest |-> buffered]) ELSE out' = out
  BY FilterApplies
<1> DEFINE full == \A p \in FP!Ports : latest'[p] # {}
           v == FP!EventOf(e)
<1>2. /\ FP!Joined'
      /\ \A p \in FP!Ports : e.index <= wm[p]
      /\ \A d \in FP!Applied' : d.index <= e.index
      /\ \A f \in pending' : f \in pending /\ e.index <= f.index
      /\ FP!AppliedRow(e.index)' <=> full
      /\ \A t \in FP!Index : t < e.index => (FP!AppliedRow(t)' <=> FP!AppliedRow(t)) /\ (Keeps(t)' <=> Keeps(t))
      /\ \A t \in FP!Index : FP!AppliedRow(t) \/ FP!AppliedRow(t)' => t <= e.index
      /\ FP!AppliedRow(e.index) => FP!AppliedRow(e.index)'
      /\ \A i \in due : i <= e.index /\ \A p \in FP!Ports : latest[p] # {}
  BY <1>1, FilterGrows DEF FilterInv
<1> HIDE DEF full
<1>3. /\ e.index \in FP!Index /\ e.index \in Int /\ e.port \in FP!Ports /\ e \in FP!Entry
      /\ v \in FP!Event /\ last_forwarded \in Int
      /\ \A p \in FP!Ports : wm[p] \in Int /\ floor[p] \in Int /\ wm[p] <= floor[p]
      /\ \A f \in pending : f.index \in Int
      /\ \A i \in due : i \in FP!Index /\ i \in Int
      /\ \A i, j \in due : i = j
  BY FilterInts, FP!EntryEvent, FilterFacts DEF FilterInv, FP!BInv, FP!Known, FP!BufferTypes
<1>4. /\ ~full => due = {} /\ UNCHANGED <<out, last_forwarded, due, buffered>>
      /\ full => due' = {e.index} /\ buffered' = latest'
  <2>1. due # {} => full
    <3>1. ASSUME NEW i \in due, NEW p \in FP!Ports PROVE latest'[p] # {}
      BY <1>1, <1>2 DEF FilterInv, FP!BInv, FP!BufferTypes
    <3> QED BY <3>1 DEF full
  <2> QED BY <1>1, <2>1 DEF full
\* What left, if anything did.
<1> DEFINE left == {i \in due : i # e.index}
<1>5. /\ out' \in Seq(FP!Row) /\ FP!Emitted' \subseteq FP!Index
      /\ \A t : t \in FP!Emitted' <=> t \in FP!Emitted \/ (t \in left /\ Keeps(t))
      /\ Len(out') > Len(out) => last_forwarded <= out'[Len(out')].index
      /\ [FP!SNext]_streamVars
      /\ \A p \in FP!Ports : last_forwarded' <= wm[p]
      /\ \A f \in pending' : last_forwarded' <= f.index
      /\ last_forwarded' <= e.index
  <2>0. /\ \A p \in FP!Ports : last_forwarded <= wm[p]
        /\ \A f \in pending : last_forwarded <= f.index
    BY DEF FilterInv, FilterKept, FilterLow
  <2>1. CASE left = {}
    <3>1. UNCHANGED <<out, last_forwarded, taken, floor, ended>>
      BY <1>1, <2>1
    <3>2. FP!Emitted' = FP!Emitted /\ out \in Seq(FP!Row) /\ FP!Emitted \subseteq FP!Index
      BY <3>1 DEF FP!Emitted, FilterInv, FilterKept, FilterTypes, FilterRows
    <3>3. Len(out) \in Nat
      BY <3>2
    <3> QED BY <1>2, <2>0, <2>1, <3>1, <3>2, <3>3 DEF streamVars
  <2>2. CASE left # {}
    <3>1. full
      BY <1>4, <2>2
    <3>2. ~(due \subseteq {e.index})
      BY <2>2
    <3>3. PICK i \in due :
            /\ i # e.index /\ last_forwarded' \in {last_forwarded, FP!Larger(last_forwarded, i)}
            /\ IF FP!Passes(buffered)
               THEN out' = Append(out, [index |-> i, latest |-> buffered]) ELSE out' = out
      BY <1>1, <3>1, <3>2 DEF full
    <3>4. left = {i} /\ i < e.index
      BY <1>2, <1>3, <3>3
    <3>5. \A f \in pending : i < f.index
      BY <1>1, <1>2, <1>3, <3>4
    <3>6. FP!Final(i)
      BY <1>2, <1>3, <3>4 DEF FP!Final
    <3>7. /\ out' \in Seq(FP!Row) /\ FP!Emitted' \subseteq FP!Index
          /\ \A t : t \in FP!Emitted' <=> t \in FP!Emitted \/ (t = i /\ Keeps(i))
          /\ Len(out') > Len(out) => last_forwarded <= out'[Len(out')].index
          /\ [FP!SNext]_streamVars
      BY <1>1, <3>3, <3>5, <3>6, FilterLeaves DEF FilterInv
    <3>8. \A t : t \in FP!Emitted' <=> t \in FP!Emitted \/ (t \in left /\ Keeps(t))
      BY <3>4, <3>7
    <3>9. last_forwarded' <= e.index /\ last_forwarded' \in Int
      BY <1>3, <2>0, <3>3, <3>4 DEF FP!Larger
    <3> QED BY <1>2, <1>3, <3>7, <3>8, <3>9
  <2> QED BY <2>1, <2>2
<1>6. FP!BInv'
  <2>1. FP!BufferTypes'
    <3>1. last_forwarded' \in FP!Index
      <4>1. \A i \in due : FP!Larger(last_forwarded, i) \in FP!Index
        BY <1>3, FilterFacts, FP!LargerType DEF FilterInv, FP!BInv, FP!BufferTypes
      <4> QED BY <1>1, <4>1 DEF FilterInv, FP!BInv, FP!BufferTypes
    <3>2. FP!IsFiniteSet(pending')
      BY <1>1, FP!FS_RemoveElement, FilterFacts DEF FilterInv, FP!BInv, FP!BufferTypes
    <3>3. latest' \in [FP!Ports -> SUBSET FP!Event]
      BY <1>1, <1>3 DEF FilterInv, FP!BInv, FP!BufferTypes
    <3>4. due' \subseteq FP!Index /\ \A i, j \in due' : i = j
      BY <1>3, <1>4
    <3> QED BY <1>1, <3>1, <3>2, <3>3, <3>4 DEF FilterInv, FP!BInv, FP!BufferTypes
  <2> QED BY <1>1, <2>1, FP!AppliedBuffer, FilterFacts DEF FilterInv
<1>7. FilterDue'
  BY <1>2, <1>4 DEF FilterDue
\* The rows of the applied events that are past.
<1>8. ASSUME NEW t \in FP!Index, FP!AppliedRow(t)', t \notin due'
      PROVE  t < e.index /\ FP!AppliedRow(t) /\ (Keeps(t)' <=> Keeps(t))
  <2>1. t # e.index
    BY <1>2, <1>4, <1>8
  <2>2. t < e.index
    BY <1>2, <1>3, <1>8, <2>1, FilterFacts
  <2> QED BY <1>2, <1>8, <2>2
<1>9. FilterPast'
  <2> SUFFICES ASSUME NEW t \in FP!Index, FP!AppliedRow(t)', t \notin due'
               PROVE  /\ \A p \in FP!Ports : t < wm'[p]
                      /\ \A f \in pending' : t < f.index
    BY DEF FilterPast
  <2>1. t < e.index /\ t \in Int
    BY <1>8, FilterFacts
  <2> QED BY <1>1, <1>2, <1>3, <2>1
<1>10. FilterRows'
  <2> SUFFICES ASSUME NEW t \in FP!Index
               PROVE  t \in FP!Emitted' <=> FP!AppliedRow(t)' /\ t \notin due' /\ Keeps(t)'
    BY <1>5 DEF FilterRows
  <2>1. t \in FP!Emitted <=> FP!AppliedRow(t) /\ t \notin due /\ Keeps(t)
    BY DEF FilterInv, FilterKept, FilterRows
  <2>2. ASSUME t \in FP!Emitted' PROVE FP!AppliedRow(t)' /\ t \notin due' /\ Keeps(t)'
    <3>1. FP!AppliedRow(t) /\ Keeps(t)
      <4>1. CASE t \in FP!Emitted
        BY <2>1, <4>1
      <4>2. CASE t \in left /\ Keeps(t)
        BY <4>2 DEF FilterInv, FilterKept, FilterDue
      <4> QED BY <1>5, <2>2, <4>1, <4>2
    <3>2. t < e.index
      <4>1. CASE t \in FP!Emitted
        BY <2>1, <4>1 DEF FilterInv, FilterKept, FilterPast
      <4>2. CASE t \in left
        BY <1>2, <1>3, <4>2
      <4> QED BY <1>5, <2>2, <4>1, <4>2
    <3>3. t \notin due'
      BY <1>3, <1>4, <3>2
    <3> QED BY <1>2, <3>1, <3>2, <3>3
  <2>3. ASSUME FP!AppliedRow(t)', t \notin due', Keeps(t)' PROVE t \in FP!Emitted'
    <3>1. t < e.index /\ FP!AppliedRow(t) /\ Keeps(t)
      BY <1>8, <2>3
    <3>2. t \in due => t \in left
      BY <1>3, <3>1
    <3> QED BY <1>5, <2>1, <3>1, <3>2
  <2> QED BY <2>2, <2>3
<1>11. FilterLow'
  BY <1>1, <1>4, <1>5 DEF FilterLow
<1>12. FilterTypes' /\ FilterBetween' /\ FilterEnds'
  BY <1>1, <1>5 DEF FilterInv, FilterTypes, FilterBetween, FilterEnds
<1> QED BY <1>2, <1>5, <1>6, <1>7, <1>9, <1>10, <1>11, <1>12 DEF FilterInv, FilterKept

\* A handler that returns leaves nothing waiting up to the lowest watermark; the
\* row due leaves if it is below, or if all ports have ended.
LEMMA FilterReturns ==
  ASSUME FilterInv, NEW low \in FP!Index, FP!IsLow(low), FP!Released,
         NEW all \in BOOLEAN, all => ended = FP!Ports,
         UNCHANGED <<taken, floor, ended, wm, pending, next_seq, latest>>,
         IF due # {} /\ (all \/ \E i \in due : i < low)
         THEN /\ due' = {}
              /\ \E i \in due : IF FP!Passes(buffered)
                                THEN out' = Append(out, [index |-> i, latest |-> buffered]) ELSE out' = out
         ELSE UNCHANGED <<out, due>>,
         due' # {} => buffered' = buffered,
         last_forwarded' \in FP!Index, low <= last_forwarded', all \/ last_forwarded' \in {last_forwarded, low},
         all => low = kMax
  PROVE  /\ FP!BInv' /\ FilterKept' /\ out' \in Seq(FP!Row) /\ [FP!SNext]_streamVars
         /\ Len(out') > Len(out) => last_forwarded <= out'[Len(out')].index
         /\ \A w \in FP!Index : FP!IsLow(w)' =>
              /\ \A e \in pending' : w < e.index
              /\ \A i \in due' : w <= i
              /\ w <= last_forwarded'
         /\ all => pending' = {} /\ due' = {}
<1>1. /\ \A e \in pending : low < e.index
      /\ low \in Int /\ last_forwarded \in Int /\ last_forwarded' \in Int
      /\ \A p \in FP!Ports : wm[p] \in Int /\ floor[p] \in Int /\ wm[p] <= floor[p] /\ low <= wm[p]
      /\ \A e \in pending : e.index \in Int
      /\ \A i \in due : i \in FP!Index /\ i \in Int
      /\ \A i, j \in due : i = j
  BY FP!ReleasedAbove, FilterInts, FilterFacts DEF FilterInv, FP!BInv, FP!Known, FP!BufferTypes, FP!IsLow
<1>2. FP!Applied' = FP!Applied /\ \A p : FP!AppliedOf(p)' = FP!AppliedOf(p)
  BY DEF FP!Applied, FP!AppliedOf
<1>3. /\ \A t : FP!AppliedRow(t)' <=> FP!AppliedRow(t)
      /\ \A t : Keeps(t)' <=> Keeps(t)
  <2>1. \A t : FP!AppliedRow(t)' <=> FP!AppliedRow(t)
    BY <1>2 DEF FP!AppliedRow
  <2>2. \A t : Keeps(t)' <=> Keeps(t)
    BY <1>2 DEF Keeps
  <2> QED BY <2>1, <2>2
<1>4. due' \subseteq due
  OBVIOUS
<1>5. FP!BInv'
  <2>1. FP!BufferTypes'
    BY <1>4 DEF FilterInv, FP!BInv, FP!BufferTypes
  <2>2. /\ \A p \in FP!Ports : floor[p] <= floor'[p] /\ wm[p] <= wm'[p] /\ wm'[p] <= floor'[p]
        /\ \A p \in ended' : wm'[p] = kMax
    BY <1>1 DEF FilterInv, FP!BInv, FP!Known
  <2> QED BY <2>1, <2>2, FP!QuietBuffer, FilterFacts DEF FilterInv
<1>6. all => pending = {}
  <2>1. \A e \in pending : e.index \in FP!Index
    BY FilterInts DEF FilterInv
  <2> QED BY <1>1, <2>1, FilterFacts
\* What left, if anything did.
<1> DEFINE left == due \ due'
<1>7. ASSUME NEW i \in left
      PROVE  i < low \/ (all /\ pending = {} /\ ended = FP!Ports)
  BY <1>1, <1>6
<1>8. /\ out' \in Seq(FP!Row) /\ FP!Emitted' \subseteq FP!Index
      /\ \A t : t \in FP!Emitted' <=> t \in FP!Emitted \/ (t \in left /\ Keeps(t))
      /\ Len(out') > Len(out) => last_forwarded <= out'[Len(out')].index
      /\ [FP!SNext]_streamVars
  <2>1. CASE left = {}
    <3>1. UNCHANGED <<out, taken, floor, ended>>
      BY <2>1
    <3>2. FP!Emitted' = FP!Emitted /\ out \in Seq(FP!Row) /\ FP!Emitted \subseteq FP!Index
      BY <3>1 DEF FP!Emitted, FilterInv, FilterKept, FilterTypes, FilterRows
    <3>3. Len(out) \in Nat
      BY <3>2
    <3> QED BY <2>1, <3>1, <3>2, <3>3 DEF streamVars
  <2>2. CASE left # {}
    <3>1. PICK i \in due :
            IF FP!Passes(buffered)
            THEN out' = Append(out, [index |-> i, latest |-> buffered]) ELSE out' = out
      BY <2>2
    <3>2. left = {i}
      BY <1>1, <2>2
    <3>3. i < low \/ (all /\ pending = {} /\ ended = FP!Ports)
      BY <1>7, <3>2
    <3>4. \A e \in pending : i < e.index
      BY <1>1, <3>3
    <3>5. FP!Final(i)
      BY <1>1, <3>3 DEF FP!Final
    <3>6. /\ out' \in Seq(FP!Row) /\ FP!Emitted' \subseteq FP!Index
          /\ \A t : t \in FP!Emitted' <=> t \in FP!Emitted \/ (t = i /\ Keeps(i))
          /\ Len(out') > Len(out) => last_forwarded <= out'[Len(out')].index
          /\ [FP!SNext]_streamVars
      BY <3>1, <3>4, <3>5, FilterLeaves DEF FilterInv
    <3>7. \A t : t \in FP!Emitted' <=> t \in FP!Emitted \/ (t \in left /\ Keeps(t))
      BY <3>2, <3>6
    <3> QED BY <3>6, <3>7
  <2> QED BY <2>1, <2>2
<1>9. FP!Joined'
  BY <1>2 DEF FilterInv, FilterKept, FP!Joined
<1>10. FilterDue'
  BY <1>2, <1>3, <1>4 DEF FilterInv, FilterKept, FilterDue
<1>11. FilterPast'
  <2> SUFFICES ASSUME NEW t \in FP!Index, FP!AppliedRow(t), t \notin due'
               PROVE  /\ (\A p \in FP!Ports : t < wm'[p]) \/ ended' = FP!Ports
                      /\ \A e \in pending' : t < e.index
    BY <1>3 DEF FilterPast
  <2>1. CASE t \notin due
    BY <2>1 DEF FilterInv, FilterKept, FilterPast
  <2>2. CASE t \in due
    <3>1. t < low \/ (pending = {} /\ ended = FP!Ports)
      BY <1>7, <2>2
    <3> QED BY <1>1, <2>2, <3>1
  <2> QED BY <2>1, <2>2
<1>12. FilterRows'
  <2> SUFFICES ASSUME NEW t \in FP!Index
               PROVE  t \in FP!Emitted' <=> FP!AppliedRow(t) /\ t \notin due' /\ Keeps(t)
    BY <1>3, <1>8 DEF FilterRows
  <2>1. t \in FP!Emitted <=> FP!AppliedRow(t) /\ t \notin due /\ Keeps(t)
    BY DEF FilterInv, FilterKept, FilterRows
  <2>2. t \in left => FP!AppliedRow(t)
    BY DEF FilterInv, FilterKept, FilterDue
  <2> QED BY <1>4, <1>8, <2>1, <2>2
<1>13. \A i \in due' : low <= i
  BY <1>1
<1>14. FilterLow'
  <2>1. CASE all
    <3>1. \A p \in FP!Ports : last_forwarded' <= wm[p]
      BY <1>1, <2>1, FilterFacts
    <3> QED BY <1>6, <2>1, <3>1 DEF FilterLow
  <2>2. CASE ~all
    BY <1>1, <1>4, <1>13, <2>2 DEF FilterInv, FilterKept, FilterLow
  <2> QED BY <2>1, <2>2
<1>15. ASSUME NEW w \in FP!Index, FP!IsLow(w)' PROVE w = low
  <2>1. FP!IsLow(w)
    BY <1>15 DEF FP!IsLow
  <2> QED BY <2>1, FP!LowUnique, FilterFacts DEF FilterInv, FP!BInv, FP!BufferTypes
<1> QED BY <1>1, <1>5, <1>6, <1>8, <1>9, <1>10, <1>11, <1>12, <1>13, <1>14, <1>15 DEF FilterKept

LEMMA FilterSettles ==
  ASSUME FilterInv, F!EndPush \/ F!EndWatermark \/ F!EndFlushFirst
  PROVE  /\ FilterInv' /\ [FP!SNext]_streamVars
         /\ Len(out') > Len(out) => last_forwarded <= out'[Len(out')].index
<1>1. /\ FP!Released /\ call # "idle" /\ call' = "idle" /\ F!Settle
      /\ UNCHANGED <<taken, floor, ended, wm, pending, next_seq, latest, flushed, flushes>>
  BY FilterMeans DEF F!EndPush, F!EndWatermark, F!EndFlushFirst, F!Return
<1>2. PICK low \in FP!Index :
        /\ FP!IsLow(low)
        /\ IF \E i \in due : i < low
           THEN /\ due' = {}
                /\ \E i \in due :
                     out' = IF F!Pass(buffered) THEN Append(out, [index |-> i, latest |-> buffered]) ELSE out
           ELSE UNCHANGED <<out, due, buffered>>
        /\ last_forwarded' = IF low # kMin THEN FP!Larger(last_forwarded, low) ELSE last_forwarded
  BY <1>1, FilterMeans DEF F!Settle
<1>3. IF due # {} /\ (FALSE \/ \E i \in due : i < low)
      THEN /\ due' = {}
           /\ \E i \in due : IF FP!Passes(buffered)
                             THEN out' = Append(out, [index |-> i, latest |-> buffered]) ELSE out' = out
      ELSE UNCHANGED <<out, due>>
  BY <1>2, FilterMeans
<1>4. last_forwarded' \in FP!Index /\ low <= last_forwarded' /\ last_forwarded' \in {last_forwarded, low}
  <2>1. last_forwarded \in FP!Index
    BY DEF FilterInv, FP!BInv, FP!BufferTypes
  <2> QED BY <1>2, <2>1, FilterFacts DEF FP!Larger
<1>5. /\ FP!BInv' /\ FilterKept' /\ out' \in Seq(FP!Row) /\ [FP!SNext]_streamVars
      /\ Len(out') > Len(out) => last_forwarded <= out'[Len(out')].index
      /\ FilterBetween'
  <2>1. \E all \in BOOLEAN :
          /\ ~all
          /\ IF due # {} /\ (all \/ \E i \in due : i < low)
             THEN /\ due' = {}
                  /\ \E i \in due : IF FP!Passes(buffered)
                                    THEN out' = Append(out, [index |-> i, latest |-> buffered]) ELSE out' = out
             ELSE UNCHANGED <<out, due>>
    BY <1>3
  <2>2. due' # {} => buffered' = buffered
    BY <1>2
  <2> QED BY <1>1, <1>2, <1>4, <2>1, <2>2, FilterReturns DEF FilterBetween
<1>6. FilterTypes' /\ FilterEnds'
  BY <1>1, <1>5 DEF FilterInv, FilterTypes, FilterEnds
<1> QED BY <1>5, <1>6 DEF FilterInv

LEMMA FilterLast ==
  ASSUME FilterInv, F!EndFlush
  PROVE  /\ FilterInv' /\ [FP!SNext]_streamVars
         /\ Len(out') > Len(out) => last_forwarded <= out'[Len(out')].index
<1>1. /\ FP!Released /\ call = "flush" /\ call' = "idle" /\ flushed = FP!Ports /\ flushed' = {}
      /\ flushes' = flushes + 1 /\ last_forwarded' = kMax /\ due' = {}
      /\ UNCHANGED <<taken, floor, ended, wm, pending, next_seq, latest>>
  BY FilterMeans DEF F!EndFlush, F!Return
<1>2. flushes = 0 /\ ended = FP!Ports
  BY <1>1 DEF FilterInv, FilterTypes, FilterEnds
<1>3. \A p \in FP!Ports : wm[p] = kMax
  BY <1>2 DEF FilterInv, FP!BInv, FP!Known
<1>4. FP!IsLow(kMax)
  BY <1>3, FilterFacts DEF FP!IsLow
<1>5. \E all \in BOOLEAN, low \in FP!Index :
        /\ all /\ low = kMax
        /\ IF due # {} /\ (all \/ \E i \in due : i < low)
           THEN /\ due' = {}
                /\ \E i \in due : IF FP!Passes(buffered)
                                  THEN out' = Append(out, [index |-> i, latest |-> buffered]) ELSE out' = out
           ELSE UNCHANGED <<out, due>>
  <2>1. IF due # {}
        THEN \E i \in due : IF FP!Passes(buffered)
                            THEN out' = Append(out, [index |-> i, latest |-> buffered]) ELSE out' = out
        ELSE UNCHANGED out
    BY FilterMeans DEF F!EndFlush
  <2> QED BY <1>1, <2>1, FilterFacts
<1>6. /\ FP!BInv' /\ FilterKept' /\ out' \in Seq(FP!Row) /\ [FP!SNext]_streamVars
      /\ Len(out') > Len(out) => last_forwarded <= out'[Len(out')].index
      /\ FilterBetween' /\ pending' = {} /\ due' = {}
  <2>1. last_forwarded' \in FP!Index /\ kMax <= last_forwarded'
    BY <1>1, FilterFacts
  <2> QED BY <1>1, <1>2, <1>4, <1>5, <2>1, FilterReturns DEF FilterBetween
<1>7. FilterTypes' /\ FilterEnds'
  BY <1>1, <1>2, <1>6 DEF FilterInv, FilterTypes, FilterEnds
<1> QED BY <1>6, <1>7 DEF FilterInv

LEMMA FilterStarts ==
  ASSUME F!Init
  PROVE  FilterInv
<1>1. /\ taken = {} /\ out = <<>> /\ floor = [p \in FP!Ports |-> kMin] /\ ended = {}
      /\ wm = [p \in FP!Ports |-> kMin] /\ flushed = {} /\ pending = {} /\ next_seq = 0 /\ due = {}
      /\ latest = [p \in FP!Ports |-> {}] /\ last_forwarded = kMin /\ call = "idle" /\ flushes = 0
  BY FilterMeans DEF F!Init, F!SInit, F!BufferInit
<1>2. FP!Applied = {} /\ (\A p : FP!AppliedOf(p) = {}) /\ FP!Emitted = {}
  BY <1>1 DEF FP!Applied, FP!AppliedOf, FP!Emitted
<1>3. FP!BInv
  <2>1. FP!IsFiniteSet(taken) /\ FP!IsFiniteSet(pending)
    BY <1>1, FP!FS_EmptySet, FilterFacts
  <2>2. FP!BufferTypes
    BY <1>1, <2>1, FilterFacts DEF FP!BufferTypes
  <2> QED BY <1>1, <1>2, <2>2, FilterFacts DEF FP!BInv, FP!Known, FP!Numbered
<1>4. FilterTypes
  BY <1>1 DEF FilterTypes
<1>5. \A t : ~FP!AppliedRow(t)
  BY <1>2 DEF FP!AppliedRow
<1>6. FilterKept
  BY <1>1, <1>2, <1>5, FilterFacts
     DEF FilterKept, FP!Joined, FilterDue, FilterPast, FilterRows, FilterLow
<1>7. FilterBetween /\ FilterEnds
  BY <1>1, FilterFacts DEF FilterBetween, FilterEnds, FP!IsLow
<1> QED BY <1>3, <1>4, <1>6, <1>7 DEF FilterInv

LEMMA FilterReset ==
  ASSUME FilterInv, F!Reset
  PROVE  FilterInv' /\ FP!Restart /\ out' = <<>>
<1>1. /\ FP!Restart /\ FP!ResetBuffer /\ call' = "idle"
      /\ taken' = {} /\ out' = <<>> /\ floor' = [p \in FP!Ports |-> kMin] /\ ended' = {}
      /\ wm' = [p \in FP!Ports |-> kMin] /\ flushed' = {} /\ pending' = {} /\ next_seq' = 0 /\ due' = {}
      /\ latest' = [p \in FP!Ports |-> {}] /\ last_forwarded' = kMin /\ flushes' = 0
  BY FilterInputs DEF F!Reset, FP!Restart, FP!ResetBuffer
<1>2. FP!Applied' = {} /\ (\A p : FP!AppliedOf(p)' = {}) /\ FP!Emitted' = {}
  BY <1>1 DEF FP!Applied, FP!AppliedOf, FP!Emitted
<1>3. FP!BInv'
  <2>1. FP!BufferTypes'
    BY <1>1, FP!ResetTypes, FilterFacts
  <2> QED BY <1>1, <1>2, <2>1, FilterFacts DEF FP!BInv, FP!Known, FP!Numbered
<1>4. FilterTypes'
  BY <1>1 DEF FilterTypes
<1>5. \A t : ~FP!AppliedRow(t)'
  BY <1>2 DEF FP!AppliedRow
<1>6. FilterKept'
  BY <1>1, <1>2, <1>5, FilterFacts
     DEF FilterKept, FP!Joined, FilterDue, FilterPast, FilterRows, FilterLow
<1>7. FilterBetween' /\ FilterEnds'
  BY <1>1, FilterFacts DEF FilterBetween, FilterEnds, FP!IsLow
<1> QED BY <1>1, <1>3, <1>4, <1>6, <1>7 DEF FilterInv

\* A save and a load number the waiting events again; a stutter does less.
LEMMA FilterSaves ==
  ASSUME FilterInv, F!SaveAndLoad
  PROVE  FilterInv' /\ UNCHANGED streamVars
<1>1. /\ FP!Renumber /\ pending' = {FP!Renumbered(e) : e \in pending}
      /\ UNCHANGED <<streamVars, wm, flushed, due, latest, last_forwarded, call, flushes, buffered>>
  BY FilterMeans DEF F!SaveAndLoad, FP!Renumber, F!streamVars, FP!streamVars, streamVars, F!callVars
<1>2. FP!BInv' /\ FP!Applied' = FP!Applied /\ \A p : FP!AppliedOf(p)' = FP!AppliedOf(p)
  BY <1>1, FP!RenumberBuffer, FilterFacts DEF FilterInv
<1>3. \A r \in pending' : \E e \in pending : e.index = r.index
  BY <1>1, FP!RenumberedEvent, FilterFacts DEF FilterInv, FP!BInv
<1>4. \A p \in FP!Ports : wm[p] <= wm'[p]
  BY <1>1, FilterInts DEF FilterInv
<1>5. FilterKept'
  BY <1>1, <1>2, <1>3, <1>4, FilterQuiet DEF FilterInv, streamVars
<1>6. FilterTypes' /\ FilterBetween'
  BY <1>1, <1>3 DEF FilterInv, FilterTypes, FilterBetween, FP!IsLow, streamVars
<1>7. FilterEnds'
  <2>1. pending = {} => pending' = {}
    BY <1>1
  <2> QED BY <1>1, <2>1 DEF FilterInv, FilterEnds, streamVars
<1> QED BY <1>1, <1>2, <1>5, <1>6, <1>7 DEF FilterInv

LEMMA FilterStutter ==
  ASSUME FilterInv, UNCHANGED allVars
  PROVE  FilterInv' /\ UNCHANGED streamVars
<1>1. /\ UNCHANGED streamVars
      /\ UNCHANGED <<taken, out, floor, ended, wm, flushed, pending, next_seq, due, latest, last_forwarded>>
      /\ UNCHANGED <<call, flushes, buffered>>
  BY DEF allVars, streamVars, bufferVars, callVars
<1>2. FP!BufferTypes'
  BY <1>1 DEF FilterInv, FP!BInv, FP!BufferTypes
<1>3. /\ \A p \in FP!Ports : floor[p] <= floor'[p] /\ wm[p] <= wm'[p] /\ wm'[p] <= floor'[p]
      /\ \A p \in ended' : wm'[p] = kMax
  BY <1>1, FilterInts DEF FilterInv, FP!BInv, FP!Known
<1>4. FP!BInv' /\ FP!Applied' = FP!Applied /\ \A p : FP!AppliedOf(p)' = FP!AppliedOf(p)
  BY <1>1, <1>2, <1>3, FP!QuietBuffer, FilterFacts DEF FilterInv
<1>5. FilterKept'
  BY <1>1, <1>3, <1>4, FilterQuiet DEF FilterInv
<1>6. FilterTypes' /\ FilterBetween' /\ FilterEnds'
  BY <1>1 DEF FilterInv, FilterTypes, FilterBetween, FilterEnds, FP!IsLow
<1> QED BY <1>1, <1>4, <1>5, <1>6 DEF FilterInv

\* Every step keeps the invariant, aligns the rows, and keeps the watermark that
\* was sent down.
LEMMA FilterNext ==
  ASSUME FilterInv, F!Next \/ UNCHANGED allVars
  PROVE  /\ FilterInv' /\ [F!SNext]_streamVars
         /\ Len(out') > Len(out) => last_forwarded <= out'[Len(out')].index
<1>0. out \in Seq(FP!Row) /\ Len(out) \in Nat
  BY DEF FilterInv, FilterTypes
<1>1. ASSUME NEW p \in FP!Ports, NEW t \in Indexes, NEW v \in Vals, F!Push(p, t, v)
      PROVE  FilterInv' /\ FP!SNext /\ out' = out
  <2>1. FP!Enqueue(p, t, v) /\ UNCHANGED buffered
    BY <1>1, FilterInputs
  <2>2. FilterInv'
    BY <2>1, FilterPush
  <2>3. FP!Offer(p)
    BY <2>1, BufferAssumption, Zenon
       DEF FP!Enqueue, FP!MaySend, FP!Offer, FP!EventOf, Index, FP!Index
  <2> QED BY <2>1, <2>2, <2>3 DEF FP!SNext, FP!Enqueue
<1>2. ASSUME NEW p \in FP!Ports, NEW w \in FP!Index, F!OnWatermark(p, w), UNCHANGED buffered
      PROVE  FilterInv' /\ FP!SNext /\ out' = out
  <2>1. FP!OnWatermark(p, w)
    BY <1>2, FilterInputs
  <2>2. FilterInv' /\ \A q \in FP!Ports : floor[q] <= floor'[q]
    BY <1>2, <2>1, FilterWatermark, FP!OnWatermarkBuffer, FilterFacts DEF FilterInv
  <2>3. FP!Promise
    BY <2>1, <2>2 DEF FP!OnWatermark, FP!Promise, FilterInv, FP!BInv, FP!BufferTypes
  <2> QED BY <2>1, <2>2, <2>3 DEF FP!SNext, FP!OnWatermark
<1>3. ASSUME NEW p \in FP!Ports, F!FlushPort(p), UNCHANGED buffered
      PROVE  FilterInv' /\ FP!SNext /\ out' = out
  <2>1. FP!FlushPort(p)
    BY <1>3, FilterInputs
  <2>2. FilterInv'
    BY <1>3, <2>1, FilterFlush
  <2>3. FP!End({p})
    BY <2>1 DEF FP!FlushPort, FP!End, FilterInv, FP!BInv, FP!BufferTypes
  <2> QED BY <2>1, <2>2, <2>3 DEF FP!SNext, FP!FlushPort
<1>4. ASSUME F!Handler
      PROVE  /\ FilterInv' /\ [FP!SNext]_streamVars
             /\ Len(out') > Len(out) => last_forwarded <= out'[Len(out')].index
  BY <1>4, FilterApply, FilterSettles, FilterLast DEF F!Handler
<1>5. ASSUME F!Reset PROVE FilterInv' /\ FP!SNext /\ out' = <<>>
  BY <1>5, FilterReset DEF FP!SNext
<1>6. ASSUME F!SaveAndLoad \/ UNCHANGED allVars PROVE FilterInv' /\ UNCHANGED streamVars
  BY <1>6, FilterSaves, FilterStutter
<1>7. out' = out \/ out' = <<>> => (Len(out') > Len(out) => last_forwarded <= out'[Len(out')].index)
  BY <1>0
<1>8. UNCHANGED streamVars => out' = out
  BY DEF streamVars
<1>9. CASE F!Next
  BY <1>1, <1>2, <1>3, <1>4, <1>5, <1>6, <1>7, <1>8, <1>9, FilterMeans, FilterStreams DEF F!Next
<1>10. CASE UNCHANGED allVars
  BY <1>6, <1>7, <1>8, <1>10
<1> QED BY <1>9, <1>10

\* Between two calls what is settled is out, and the nodes below know the time;
\* all rows are out when the filter flushes the node below.
LEMMA FilterInTime ==
  ASSUME FilterInv
  PROVE  F!RowsPrompt /\ F!TimeAdvances /\ F!FlushEmitsAll
<1>1. ASSUME NEW t \in FP!Index, FP!IsRow(t), t \notin due, \A e \in pending : t < e.index
      PROVE  t \in FP!Emitted
  BY <1>1, KeepsMeans DEF FilterInv, FilterKept, FilterRows
<1>2. ASSUME call = "idle", NEW low \in FP!Index, FP!IsLow(low), NEW t \in FP!Index, t < low, FP!IsRow(t)
      PROVE  t \in FP!Emitted
  <2>1. (\A e \in pending : low < e.index) /\ (\A i \in due : low <= i)
    BY <1>2 DEF FilterInv, FilterBetween
  <2>2. \A e \in pending : t < e.index
    BY <1>2, <2>1, FilterInts, FilterFacts DEF FilterInv
  <2>3. t \notin due
    BY <1>2, <2>1, FilterFacts
  <2> QED BY <1>1, <1>2, <2>2, <2>3
<1>3. FP!RowsPrompt
  BY <1>2 DEF FP!RowsPrompt
<1>4. F!TimeAdvances
  <2>1. ASSUME NEW low \in FP!Index, low <= last_forwarded PROVE last_forwarded >= low
    BY <2>1, FilterInts, FilterFacts DEF FilterInv
  <2> QED BY <2>1, FilterMeans DEF F!TimeAdvances, FilterInv, FilterBetween
<1>5. FP!FlushEmitsAll
  BY <1>1 DEF FP!FlushEmitsAll, FilterInv, FilterEnds
<1> QED BY <1>3, <1>4, <1>5, FilterStreams
-----------------------------------------------------------------------------
(* The join of the outputs.                                                *)

\* The rows that wait, in a buffer or in the join, and those that are settled.
Unsettled == buffer \cup queue
SettledRows == taken \ Unsettled
SettledOf(j) == {d \in SettledRows : d.port = j}

GatherTypes ==
  /\ Numbered /\ taken \subseteq J!Event
  /\ floor \in [Ports -> Index] /\ ended \in {{}, Ports} /\ out \in Seq(J!Row)
  /\ buffer \subseteq taken /\ queue \subseteq taken
  /\ watermark \in [Ports -> SUBSET Index] /\ bound \in [Ports -> SUBSET Index]
  /\ latest \in [Ports -> SUBSET J!Event]
  /\ limit \in Int /\ call \in {"idle", "take"}

\* What a drain says of an output is how far the output has come.
GatherBounds ==
  \A j \in Ports :
    /\ \A b \in J!Bounds(j) : b <= floor[j]
    /\ ended = {} => floor[j] = kMin \/ floor[j] \in J!Bounds(j)

\* A take settles what is below the output that is least far, or everything.
GatherLimit ==
  call = "take" =>
    /\ buffer = {}
    /\ ended # {} => limit = kMax + 1
    /\ ended = {} => (\A j \in Ports : limit <= floor[j]) /\ \E j \in Ports : floor[j] <= limit

\* The settled rows are below those that wait and those to come.
GatherSettled ==
  /\ \A d \in SettledRows, e \in Unsettled : d.index < e.index
  /\ ended = {} => \A d \in SettledRows, j \in Ports : d.index < floor[j]

\* The join carries each output's last settled row, and has a row out for
\* each settled index at which all outputs have one.
GatherRows ==
  /\ \A j \in Ports : latest[j] = {d \in SettledOf(j) : \A c \in SettledOf(j) : c.nth <= d.nth}
  /\ \A t \in Index : t \in Emitted <=>
       (\E d \in SettledRows : d.index = t) /\ \A j \in Ports : \E d \in SettledOf(j) : d.index <= t
  /\ Emitted \subseteq Index

GatherInv == GatherTypes /\ GatherBounds /\ GatherLimit /\ GatherSettled /\ GatherRows

LEMMA GatherFacts ==
  /\ J!Ports = Ports /\ J!Index = Index /\ (\A p : J!Sent(p) = Sent(p)) /\ J!Emitted = Emitted
  /\ RowIndexes \subseteq Index /\ WhenAll /\ Ports # {}
  /\ kMin \in Index /\ kMax \in Index /\ \A k \in Index : k \in Int /\ kMin <= k /\ k <= kMax
<1>1. J!Ports = Ports /\ J!Index = Index
  BY DEF J!Ports, Ports, J!Index, Index
<1>2. \A p : J!Sent(p) = Sent(p)
  BY Zenon DEF J!Sent, Sent, J!Cardinality, Cardinality
<1>3. J!Emitted = Emitted
  BY Zenon DEF J!Emitted, Emitted
<1>4. RowIndexes \subseteq Index /\ WhenAll
  BY <1>1, JoinAssumptions DEF J!JoinAssumption
<1>5. 0 \in Ports
  BY NAssumption DEF Ports
<1>6. kMin \in Index /\ kMax \in Index /\ \A k \in Index : k \in Int /\ kMin <= k /\ k <= kMax
  BY IndexAssumption DEF Index
<1> QED BY <1>1, <1>2, <1>3, <1>4, <1>5, <1>6

LEMMA GatherInts ==
  ASSUME GatherTypes
  PROVE  /\ \A j \in Ports : floor[j] \in Index /\ floor[j] \in Int
         /\ \A d \in taken : d.index \in Index /\ d.index \in Int /\ d.port \in Ports /\ d.nth \in Nat
         /\ SettledRows \subseteq taken /\ Unsettled \subseteq taken /\ \A j : SettledOf(j) \subseteq SettledRows
BY GatherFacts DEF GatherTypes, Numbered, SettledRows, Unsettled, SettledOf

\* The highest and the lowest of some numbers.
LEMMA TopIs ==
  ASSUME NEW S, NEW t \in S, S \subseteq Index, \A b \in S : b <= t
  PROVE  J!Top(S) = t
<1>1. \A x \in S : (\A y \in S : y <= x) => x = t
  BY GatherFacts
<1> QED BY <1>1, Zenon DEF J!Top

LEMMA LeastIs ==
  ASSUME NEW S, S \subseteq Index, S # {}
  PROVE  \E m \in S : \A k \in S : m <= k
<1> DEFINE T == {k - kMin : k \in S}
           Less == OpToRel(<, Nat)
<1>1. \A k \in S : k \in Int /\ k - kMin \in Nat /\ kMin \in Int
  BY GatherFacts
<1>2. T \subseteq Nat /\ T # {}
  BY <1>1
<1>3. IsWellFoundedOn(Less, Nat)
  BY NatLessThanWellFounded
<1>4. \A x, y \in Nat : <<x, y>> \in Less <=> x < y
  BY DEF OpToRel
<1> HIDE DEF Less, T
<1>5. PICK m \in T : \A k \in T : <<k, m>> \notin Less
  BY <1>2, <1>3, WFMin
<1>6. \A k \in T : k \in Nat /\ m \in Nat /\ ~(k < m)
  BY <1>2, <1>4, <1>5
<1>7. PICK l \in S : m = l - kMin
  BY DEF T
<1>8. ASSUME NEW k \in S PROVE l <= k
  <2>1. k - kMin \in T
    BY DEF T
  <2>2. ~(k - kMin < l - kMin)
    BY <2>1, <1>6, <1>7
  <2> QED BY <1>1, <2>2
<1> QED BY <1>8

LEMMA GreatestIs ==
  ASSUME NEW S, S \subseteq Index, S # {}
  PROVE  \E m \in S : \A k \in S : k <= m
<1> DEFINE T == {kMax - k : k \in S}
           Less == OpToRel(<, Nat)
<1>1. \A k \in S : k \in Int /\ kMax - k \in Nat /\ kMax \in Int
  BY GatherFacts
<1>2. T \subseteq Nat /\ T # {}
  BY <1>1
<1>3. IsWellFoundedOn(Less, Nat)
  BY NatLessThanWellFounded
<1>4. \A x, y \in Nat : <<x, y>> \in Less <=> x < y
  BY DEF OpToRel
<1> HIDE DEF Less, T
<1>5. PICK m \in T : \A k \in T : <<k, m>> \notin Less
  BY <1>2, <1>3, WFMin
<1>6. \A k \in T : k \in Nat /\ m \in Nat /\ ~(k < m)
  BY <1>2, <1>4, <1>5
<1>7. PICK l \in S : m = kMax - l
  BY DEF T
<1>8. ASSUME NEW k \in S PROVE k <= l
  <2>1. kMax - k \in T
    BY DEF T
  <2>2. ~(kMax - k < kMax - l)
    BY <2>1, <1>6, <1>7
  <2> QED BY <1>1, <2>2
<1> QED BY <1>8

\* Some rows of an output have a last one.
LEMMA LastRow ==
  ASSUME GatherTypes, NEW j \in Ports, NEW S, S \subseteq taken, S # {}, \A d \in S : d.port = j
  PROVE  \E e \in S : \A d \in S : d.nth <= e.nth
<1> DEFINE M == {Sent(j) - d.nth : d \in S}
           Less == OpToRel(<, Nat)
<1>1. Sent(j) \in Nat
  BY SentIsNat DEF GatherTypes, Numbered
<1>2. \A d \in S : d.nth \in Nat /\ d.nth < Sent(j)
  BY DEF GatherTypes, Numbered
<1>3. M \subseteq Nat /\ M # {}
  BY <1>1, <1>2
<1>4. IsWellFoundedOn(Less, Nat)
  BY NatLessThanWellFounded
<1>5. \A x, y \in Nat : <<x, y>> \in Less <=> x < y
  BY DEF OpToRel
<1> HIDE DEF Less, M
<1>6. PICK m \in M : \A k \in M : <<k, m>> \notin Less
  BY <1>3, <1>4, WFMin
<1>7. \A k \in M : k \in Nat /\ m \in Nat /\ ~(k < m)
  BY <1>3, <1>5, <1>6
<1>8. PICK e \in S : m = Sent(j) - e.nth
  BY DEF M
<1>9. ASSUME NEW d \in S PROVE d.nth <= e.nth
  <2>1. Sent(j) - d.nth \in M
    BY DEF M
  <2>2. ~(Sent(j) - d.nth < Sent(j) - e.nth)
    BY <2>1, <1>7, <1>8
  <2> QED BY <1>1, <1>2, <2>2
<1> QED BY <1>9

LEMMA LatestRow ==
  ASSUME GatherTypes, GatherRows, NEW j \in Ports
  PROVE  latest[j] = {} <=> SettledOf(j) = {}
<1>1. SettledOf(j) # {} => \E e \in SettledOf(j) : \A d \in SettledOf(j) : d.nth <= e.nth
  <2>1. SettledOf(j) \subseteq taken /\ \A d \in SettledOf(j) : d.port = j
    BY DEF SettledOf, SettledRows
  <2> QED BY <2>1, LastRow
<1> QED BY <1>1 DEF GatherRows

\* A step that settles nothing keeps the rows.
LEMMA RowsKept ==
  ASSUME GatherRows, SettledRows' = SettledRows, UNCHANGED <<out, latest>>
  PROVE  GatherRows'
<1>1. \A j : SettledOf(j)' = SettledOf(j)
  BY DEF SettledOf
<1>2. Emitted' = Emitted
  BY DEF Emitted
<1> QED BY <1>1, <1>2 DEF GatherRows

LEMMA InitGather ==
  ASSUME J!Init
  PROVE  GatherInv
<1>1. /\ taken = {} /\ out = <<>> /\ floor = [p \in Ports |-> kMin] /\ ended = {}
      /\ buffer = {} /\ queue = {} /\ limit = kMin /\ call = "idle"
      /\ watermark = [j \in Ports |-> {}] /\ bound = [j \in Ports |-> {}] /\ latest = [j \in Ports |-> {}]
  BY GatherFacts DEF J!Init, J!SInit
<1>2. Numbered
  BY <1>1, NoneSent
<1>3. GatherTypes
  BY <1>1, <1>2, GatherFacts DEF GatherTypes
<1>4. SettledRows = {} /\ Unsettled = {} /\ (\A j : SettledOf(j) = {}) /\ Emitted = {}
  BY <1>1 DEF SettledRows, Unsettled, SettledOf, Emitted
<1>5. GatherBounds
  BY <1>1 DEF GatherBounds, J!Bounds
<1>6. GatherLimit /\ GatherSettled /\ GatherRows
  BY <1>1, <1>4 DEF GatherLimit, GatherSettled, GatherRows
<1> QED BY <1>3, <1>5, <1>6 DEF GatherInv

LEMMA ResetGather ==
  ASSUME GatherInv, J!Reset
  PROVE  GatherInv'
<1>1. /\ taken' = {} /\ out' = <<>> /\ floor' = [p \in Ports |-> kMin] /\ ended' = {}
      /\ buffer' = {} /\ queue' = {} /\ limit' = limit /\ call' = "idle"
      /\ watermark' = [j \in Ports |-> {}] /\ bound' = [j \in Ports |-> {}] /\ latest' = [j \in Ports |-> {}]
  BY GatherFacts DEF J!Reset, J!Restart
<1>2. Numbered'
  BY <1>1, NoEvents
<1>3. GatherTypes'
  BY <1>1, <1>2, GatherFacts DEF GatherTypes, GatherInv
<1>4. SettledRows' = {} /\ Unsettled' = {} /\ (\A j : SettledOf(j)' = {}) /\ Emitted' = {}
  BY <1>1 DEF SettledRows, Unsettled, SettledOf, Emitted
<1>5. GatherBounds'
  BY <1>1 DEF GatherBounds, J!Bounds
<1>6. GatherLimit' /\ GatherSettled' /\ GatherRows'
  BY <1>1, <1>4 DEF GatherLimit, GatherSettled, GatherRows
<1> QED BY <1>3, <1>5, <1>6 DEF GatherInv

\* An output emits a row, which waits.
LEMMA EmitGather ==
  ASSUME GatherInv, NEW j \in Ports, NEW t \in RowIndexes, NEW v \in {0}, J!Emit(j, t, v)
  PROVE  GatherInv' /\ J!Offer(j)
<1> USE DEF GatherInv
<1> DEFINE e == [index |-> t, port |-> j, nth |-> Sent(j), val |-> v]
<1>1. /\ ended = {} /\ call = "idle" /\ floor[j] <= t /\ t \in Index
      /\ taken' = taken \cup {e} /\ buffer' = buffer \cup {e}
      /\ floor' = [floor EXCEPT ![j] = t]
      /\ UNCHANGED <<out, ended, watermark, queue, bound, latest, limit, call>>
  BY GatherFacts DEF J!Emit, J!Open, J!joinVars
<1>2. e.index = t /\ e.port = j /\ e.nth = Sent(j) /\ e.val = v
  OBVIOUS
<1>3. e \in J!Event
  BY <1>1, SentIsNat, GatherFacts DEF J!Event, GatherTypes, Numbered
<1>4. J!Offer(j)
  BY <1>1, GatherFacts DEF J!Offer
<1> HIDE DEF e
<1>5. Numbered' /\ e \notin taken
  BY <1>1, <1>2, EventAdded DEF GatherTypes
<1>6. floor' \in [Ports -> Index] /\ floor'[j] = t /\ \A q \in Ports : q # j => floor'[q] = floor[q]
  BY <1>1 DEF GatherTypes
<1>7. GatherTypes'
  BY <1>1, <1>3, <1>5, <1>6 DEF GatherTypes
<1>8. GatherBounds'
  <2>1. J!Bounds(j)' = J!Bounds(j) \cup {t}
    BY <1>1, <1>2 DEF J!Bounds
  <2>2. \A q : q # j => J!Bounds(q)' = J!Bounds(q)
    BY <1>1, <1>2 DEF J!Bounds
  <2>3. t \in Int /\ floor[j] \in Int /\ \A b \in J!Bounds(j) : b \in Int /\ b <= t
    <3>1. \A b \in J!Bounds(j) : b \in Index
      BY GatherInts DEF J!Bounds, GatherTypes
    <3> QED BY <3>1, <1>1, GatherInts, GatherFacts DEF GatherBounds
  <2>4. \A b \in J!Bounds(j)' : b <= floor'[j]
    BY <2>1, <2>3, <1>6
  <2>5. floor'[j] \in J!Bounds(j)'
    BY <2>1, <1>6
  <2> QED BY <2>2, <2>4, <2>5, <1>1, <1>6 DEF GatherBounds
<1>9. SettledRows' = SettledRows /\ Unsettled' = Unsettled \cup {e}
  BY <1>1, <1>5 DEF SettledRows, Unsettled
<1>10. GatherSettled'
  <2>1. \A d \in SettledRows : d.index < e.index
    BY <1>1, <1>2, GatherInts, GatherFacts DEF GatherSettled
  <2>2. \A d \in SettledRows, q \in Ports : d.index < floor'[q]
    BY <2>1, <1>1, <1>2, <1>6 DEF GatherSettled
  <2> QED BY <2>1, <2>2, <1>1, <1>9 DEF GatherSettled
<1>11. GatherRows'
  BY <1>1, <1>9, RowsKept
<1>12. GatherLimit'
  BY <1>1 DEF GatherLimit
<1> QED BY <1>4, <1>7, <1>8, <1>10, <1>11, <1>12

\* An output sends a watermark down.
LEMMA WatermarkGather ==
  ASSUME GatherInv, NEW j \in Ports, NEW w \in Index, J!OnWatermark(j, w)
  PROVE  GatherInv' /\ J!Promise
<1> USE DEF GatherInv
<1>1. /\ ended = {} /\ call = "idle"
      /\ watermark' = [watermark EXCEPT ![j] = IF \E b \in watermark[j] : w <= b THEN watermark[j] ELSE {w}]
      /\ floor' = [floor EXCEPT ![j] = J!Larger(floor[j], w)]
      /\ UNCHANGED <<taken, out, ended, buffer, queue, bound, latest, limit, call>>
  BY DEF J!OnWatermark, J!Open, J!joinVars
<1>2. PICK f : f = J!Larger(floor[j], w)
  OBVIOUS
<1>3. /\ f \in Index /\ f \in Int /\ floor[j] <= f /\ w <= f /\ w \in Int /\ (f = w \/ f = floor[j])
      /\ w < floor[j] => f = floor[j]
  BY <1>2, GatherInts, GatherFacts DEF J!Larger
<1>4. floor' \in [Ports -> Index] /\ floor'[j] = f /\ (\A q \in Ports : q # j => floor'[q] = floor[q])
      /\ \A q \in Ports : floor[q] <= floor'[q]
  BY <1>1, <1>2, <1>3, GatherInts DEF GatherTypes
<1>5. J!Promise
  BY <1>1, <1>4, GatherFacts DEF J!Promise
<1>6. Numbered'
  BY <1>1, <1>4, FloorsUp DEF GatherTypes
<1>7. GatherTypes'
  BY <1>1, <1>4, <1>6 DEF GatherTypes
<1>8. GatherBounds'
  <2>1. \A q : q # j /\ q \in Ports => J!Bounds(q)' = J!Bounds(q)
    BY <1>1 DEF J!Bounds, GatherTypes
  <2>2. \A b \in J!Bounds(j)' : b \in J!Bounds(j) \/ b = w
    BY <1>1 DEF J!Bounds, GatherTypes
  <2>3. \A b \in J!Bounds(j) : b \in Int /\ b <= floor[j]
    <3>1. \A b \in J!Bounds(j) : b \in Index
      BY GatherInts DEF J!Bounds, GatherTypes
    <3> QED BY <3>1, GatherFacts DEF GatherBounds
  <2>4. \A b \in J!Bounds(j)' : b <= floor'[j]
    BY <2>2, <2>3, <1>3, <1>4, GatherInts
  <2>5. floor'[j] = kMin \/ floor'[j] \in J!Bounds(j)'
    <3>1. watermark'[j] = (IF \E b \in watermark[j] : w <= b THEN watermark[j] ELSE {w})
      BY <1>1 DEF GatherTypes
    <3>2. CASE \E b \in watermark[j] : w <= b
      <4>1. PICK b \in watermark[j] : w <= b
        BY <3>2
      <4>2. b \in J!Bounds(j)
        BY DEF J!Bounds
      <4>3. f = floor[j]
        BY <4>1, <4>2, <2>3, <1>3, GatherInts
      <4>4. J!Bounds(j)' = J!Bounds(j)
        BY <3>1, <3>2, <1>1 DEF J!Bounds
      <4> QED BY <4>3, <4>4, <1>1, <1>4 DEF GatherBounds
    <3>3. CASE ~ \E b \in watermark[j] : w <= b
      <4>1. watermark'[j] = {w}
        BY <3>1, <3>3
      <4>2. w \in J!Bounds(j)'
        BY <4>1 DEF J!Bounds
      <4>3. CASE f = w
        BY <4>2, <4>3, <1>4
      <4>4. CASE f # w
        <5>1. f = floor[j] /\ w < floor[j]
          BY <4>4, <1>3, GatherInts
        <5>2. floor[j] = kMin \/ floor[j] \in J!Bounds(j)
          BY <1>1 DEF GatherBounds
        <5>3. floor[j] \in J!Bounds(j) => floor[j] \in J!Bounds(j)'
          <6>1. \A b \in watermark[j] : b \in Int /\ b < w
            BY <3>3, GatherFacts, <1>3 DEF GatherTypes
          <6>2. floor[j] \notin watermark[j]
            BY <6>1, <5>1, <1>3, GatherInts
          <6>3. bound'[j] = bound[j] /\ {d \in buffer' : d.port = j} = {d \in buffer : d.port = j}
            BY <1>1
          <6> QED BY <6>2, <6>3 DEF J!Bounds
        <5> QED BY <5>1, <5>2, <5>3, <1>4
      <4> QED BY <4>3, <4>4
    <3> QED BY <3>2, <3>3
  <2> QED BY <2>1, <2>4, <2>5, <1>1, <1>4 DEF GatherBounds
<1>9. SettledRows' = SettledRows /\ Unsettled' = Unsettled
  BY <1>1 DEF SettledRows, Unsettled
<1>10. GatherSettled'
  <2>1. \A d \in SettledRows, q \in Ports : d.index < floor'[q]
    <3> SUFFICES ASSUME NEW d \in SettledRows, NEW q \in Ports PROVE d.index < floor'[q]
      OBVIOUS
    <3>1. d.index < floor[q] /\ d.index \in Int /\ floor[q] \in Int
      BY <1>1, GatherInts DEF GatherSettled
    <3>2. floor[q] <= floor'[q] /\ floor'[q] \in Int
      BY <1>4, GatherFacts
    <3> QED BY <3>1, <3>2
  <2> QED BY <2>1, <1>9 DEF GatherSettled
<1>11. GatherRows' /\ GatherLimit'
  BY <1>1, <1>9, RowsKept DEF GatherLimit
<1> QED BY <1>5, <1>7, <1>8, <1>10, <1>11

\* flush() ends the input.
LEMMA FlushGather ==
  ASSUME GatherInv, J!Flush
  PROVE  GatherInv' /\ J!End(Ports)
<1> USE DEF GatherInv
<1>1. /\ ended = {} /\ call = "idle" /\ ended' = Ports
      /\ floor' = [p \in Ports |-> kMax]
      /\ UNCHANGED <<taken, out, buffer, watermark, queue, bound, latest, limit, call>>
  BY GatherFacts DEF J!Flush, J!Open, J!End, J!joinVars
<1>2. J!End(Ports)
  BY GatherFacts DEF J!Flush
<1>3. floor' \in [Ports -> Index] /\ \A q \in Ports : floor[q] <= floor'[q]
  BY <1>1, GatherInts, GatherFacts
<1>4. Numbered'
  BY <1>1, <1>3, FloorsUp DEF GatherTypes
<1>5. GatherTypes'
  BY <1>1, <1>3, <1>4 DEF GatherTypes
<1>6. SettledRows' = SettledRows /\ Unsettled' = Unsettled
  BY <1>1 DEF SettledRows, Unsettled
<1>7. GatherBounds'
  <2>1. \A j \in Ports : J!Bounds(j)' = J!Bounds(j)
    BY <1>1 DEF J!Bounds
  <2>2. \A j \in Ports : \A b \in J!Bounds(j) : b \in Index
    BY GatherInts DEF J!Bounds, GatherTypes
  <2>3. \A j \in Ports : \A b \in J!Bounds(j) : b <= kMax
    BY <2>2, GatherFacts
  <2> QED BY <1>1, <2>1, <2>3, GatherFacts DEF GatherBounds
<1>8. GatherSettled' /\ GatherRows' /\ GatherLimit'
  BY <1>1, <1>6, RowsKept, GatherFacts DEF GatherSettled, GatherLimit
<1> QED BY <1>2, <1>5, <1>7, <1>8

\* A take hands the rows over, and settles what is below the least output.
LEMMA TakeGather ==
  ASSUME GatherInv, J!Take
  PROVE  GatherInv' /\ UNCHANGED streamVars
<1> USE DEF GatherInv
<1>1. /\ call = "idle" /\ buffer' = {} /\ queue' = queue \cup buffer /\ call' = "take"
      /\ bound' = [j \in Ports |-> IF J!Bounds(j) = {} THEN {} ELSE {J!Top(J!Bounds(j))}]
      /\ limit' = J!Settled(bound')
      /\ UNCHANGED <<taken, out, floor, ended, watermark, latest>>
  BY GatherFacts DEF J!Take, J!streamVars
<1>2. \A j \in Ports : J!Bounds(j) \subseteq Index /\ \A b \in J!Bounds(j) : b \in Int /\ b <= floor[j]
  <2>1. \A j \in Ports : \A b \in J!Bounds(j) : b \in Index
    BY GatherInts DEF J!Bounds, GatherTypes
  <2> QED BY <2>1, GatherFacts DEF GatherBounds
<1>3. ASSUME NEW j \in Ports, J!Bounds(j) # {}
      PROVE  bound'[j] \subseteq J!Bounds(j) /\ (ended = {} => bound'[j] = {floor[j]})
  <2>1. PICK m \in J!Bounds(j) : \A b \in J!Bounds(j) : b <= m
    BY <1>2, <1>3, GreatestIs
  <2>2. J!Top(J!Bounds(j)) = m
    BY <2>1, <1>2, TopIs
  <2>3. bound'[j] = {m}
    BY <1>1, <1>3, <2>2
  <2>4. ended = {} => m = floor[j]
    BY <2>1, <1>2, GatherInts, GatherFacts DEF GatherBounds
  <2> QED BY <2>3, <2>4
<1>4. ASSUME NEW j \in Ports, J!Bounds(j) = {} PROVE bound'[j] = {} /\ (ended = {} => floor[j] = kMin)
  BY <1>1, <1>4 DEF GatherBounds
<1>5. bound' \in [Ports -> SUBSET Index]
  BY <1>1, <1>2, <1>3, <1>4
<1>6. /\ ended # {} => limit' = kMax + 1
      /\ ended = {} => /\ limit' \in Int /\ \A j \in Ports : limit' <= floor[j]
                       /\ \E j \in Ports : floor[j] <= limit'
  <2>1. PICK b : b = bound'
    OBVIOUS
  <2>2. limit' = J!Settled(b)
    BY <1>1, <2>1
  <2>3. CASE ended # {}
    BY <2>2, <2>3 DEF J!Settled
  <2>4. CASE ended = {} /\ \E j \in Ports : b[j] = {}
    <3>1. limit' = kMin
      BY <2>2, <2>4, GatherFacts DEF J!Settled
    <3>2. PICK j \in Ports : b[j] = {}
      BY <2>4
    <3>3. floor[j] = kMin
      BY <3>2, <2>1, <2>4, <1>3, <1>4
    <3> QED BY <3>1, <3>3, <2>4, GatherInts, GatherFacts
  <2>5. CASE ended = {} /\ \A j \in Ports : b[j] # {}
    <3>1. \A j \in Ports : b[j] = {floor[j]}
      BY <2>1, <2>5, <1>3, <1>4
    <3> DEFINE S == UNION {b[j] : j \in Ports}
               Least(x) == \A j \in Ports : \A y \in b[j] : x <= y
    <3>2. S = {floor[j] : j \in Ports}
      BY <3>1
    <3>3. S \subseteq Index /\ S # {}
      BY <3>2, GatherInts, GatherFacts
    <3>4. PICK m \in S : \A k \in S : m <= k
      BY <3>3, LeastIs
    <3>5. \A x : Least(x) <=> \A j \in Ports : x <= floor[j]
      BY <3>1
    <3>6. Least(m)
      BY <3>4, <3>5, <3>2
    <3>7. limit' = CHOOSE x \in S : Least(x)
      BY <2>2, <2>5, GatherFacts DEF J!Settled
    <3> HIDE DEF Least
    <3>8. limit' \in S /\ Least(limit')
      BY <3>6, <3>7
    <3> QED BY <3>8, <3>5, <3>2, <2>5, GatherInts
  <2> QED BY <2>3, <2>4, <2>5
<1>7. GatherTypes'
  <2>1. Numbered'
    BY <1>1, FloorsUp, GatherInts DEF GatherTypes
  <2>2. limit' \in Int
    BY <1>6, GatherFacts
  <2> QED BY <2>1, <2>2, <1>1, <1>5 DEF GatherTypes
<1>8. GatherBounds'
  <2> SUFFICES ASSUME NEW j \in Ports
               PROVE  (\A b \in J!Bounds(j)' : b <= floor[j])
                      /\ (ended = {} => floor[j] = kMin \/ floor[j] \in J!Bounds(j)')
    BY <1>1 DEF GatherBounds
  <2>1. J!Bounds(j)' = bound'[j] \cup watermark[j]
    BY <1>1 DEF J!Bounds
  <2>2. watermark[j] \subseteq J!Bounds(j)
    BY DEF J!Bounds
  <2> QED BY <2>1, <2>2, <1>2, <1>3, <1>4
<1>9. GatherLimit'
  BY <1>1, <1>6 DEF GatherLimit
<1>10. SettledRows' = SettledRows /\ Unsettled' = Unsettled
  BY <1>1 DEF SettledRows, Unsettled
<1>11. GatherSettled' /\ GatherRows'
  BY <1>1, <1>10, RowsKept DEF GatherSettled
<1> QED BY <1>1, <1>7, <1>8, <1>9, <1>11 DEF streamVars

\* The join settles the lowest index in its queues.
LEMMA MergeIndexGather ==
  ASSUME GatherInv, J!MergeIndex
  PROVE  GatherInv' /\ (J!Deliver \/ UNCHANGED streamVars)
<1> USE DEF GatherInv
<1>1. PICK k \in {e.index : e \in queue} :
        /\ call = "take" /\ k < limit /\ (\A e \in queue : k <= e.index)
        /\ latest' = [j \in Ports |-> IF J!RowsAt(j, k) = {} THEN latest[j]
                                      ELSE {e \in J!RowsAt(j, k) : J!Wins(e, J!RowsAt(j, k))}]
        /\ queue' = {e \in queue : e.index # k}
        /\ out' = IF \A j \in Ports : latest'[j] # {}
                  THEN Append(out, [index |-> k, latest |-> latest'])
                  ELSE out
        /\ UNCHANGED <<taken, floor, ended, buffer, watermark, bound, limit, call>>
  BY GatherFacts DEF J!MergeIndex
<1> DEFINE Q == {e \in queue : e.index = k}
           At(j) == J!RowsAt(j, k)
<1>2. buffer = {} /\ buffer' = {}
  BY <1>1 DEF GatherLimit
<1>3. Q # {} /\ k \in Index /\ k \in Int /\ Q \subseteq taken /\ queue \subseteq taken
  BY <1>1, GatherInts DEF GatherTypes
<1>4. /\ SettledRows' = SettledRows \cup Q
      /\ \A d \in SettledRows : d.index < k
      /\ \A e \in Unsettled' : e \in queue /\ k < e.index
      /\ \A e \in Unsettled : k <= e.index
  <2>1. SettledRows' = SettledRows \cup Q
    BY <1>1, <1>2, <1>3 DEF SettledRows, Unsettled
  <2>2. \A d \in SettledRows : d.index < k
    BY <1>3 DEF GatherSettled, Unsettled
  <2>3. \A e \in Unsettled' : e \in queue /\ k < e.index
    BY <1>1, <1>2, <1>3, GatherInts DEF Unsettled
  <2> QED BY <2>1, <2>2, <2>3, <1>1, <1>2 DEF Unsettled
<1>5. \A j \in Ports : /\ SettledOf(j)' = SettledOf(j) \cup At(j)
                       /\ At(j) \subseteq Q /\ \A d \in At(j) : d.port = j
  BY <1>4 DEF SettledOf, J!RowsAt
<1>6. /\ \A d \in SettledRows' : d \in taken /\ d.index \in Int /\ d.index <= k
      /\ \A d \in taken : d.index < k => d \in SettledRows
      /\ \A d \in taken : d.index <= k => d \in SettledRows'
  <2>1. \A d \in SettledRows' : d \in taken /\ d.index \in Int /\ d.index <= k
    BY <1>3, <1>4, GatherInts
  <2>2. \A d \in taken : d.index < k => d \in SettledRows
    BY <1>3, <1>4, GatherInts DEF SettledRows
  <2>3. \A d \in taken : d.index <= k => d \in SettledRows'
    BY <1>1, <1>3, <1>4, GatherInts DEF SettledRows
  <2> QED BY <2>1, <2>2, <2>3
<1> HIDE DEF Q
<1>7. k < limit /\ limit \in Int /\ (ended # {} => ended = Ports) /\ (ended = {} => \A j \in Ports : k < floor[j])
  <2>1. limit \in Int /\ (ended # {} => ended = Ports) /\ (ended = {} => \A j \in Ports : limit <= floor[j])
    BY <1>1 DEF GatherTypes, GatherLimit
  <2> QED BY <2>1, <1>1, <1>3, GatherInts
<1>8. ASSUME NEW j \in Ports
      PROVE  /\ latest'[j] = {d \in SettledOf(j)' : \A c \in SettledOf(j)' : c.nth <= d.nth}
             /\ latest'[j] = {} <=> SettledOf(j)' = {}
  <2>1. CASE At(j) = {}
    BY <2>1, <1>1, <1>5, LatestRow DEF GatherRows
  <2>2. CASE At(j) # {}
    <3>1. latest'[j] = {e \in At(j) : \A d \in At(j) : d.nth <= e.nth}
      BY <2>2, <1>1 DEF J!Wins
    <3>2. At(j) \subseteq taken
      BY <1>3, <1>5
    <3>3. ASSUME NEW d \in SettledOf(j), NEW r \in At(j) PROVE d.nth < r.nth /\ d.nth \in Nat /\ r.nth \in Nat
      <4>1. d \in taken /\ r \in taken /\ d.port = r.port /\ d.index < k /\ r.index = k
        BY <1>4, <1>5, <3>2, GatherInts DEF SettledOf, J!RowsAt
      <4>2. d.nth \in Nat /\ r.nth \in Nat /\ d.index \in Int
        BY <4>1, GatherInts
      <4>3. ~(r.nth < d.nth) /\ r.nth # d.nth
        BY <4>1, <4>2, <1>3 DEF GatherTypes, Numbered
      <4> QED BY <4>2, <4>3
    <3>4. PICK e \in At(j) : \A d \in At(j) : d.nth <= e.nth
      BY <2>2, <3>2, <1>5, LastRow
    <3>5. ASSUME NEW d \in SettledOf(j)'
          PROVE  (\A c \in SettledOf(j)' : c.nth <= d.nth) <=> d \in latest'[j]
      <4>1. CASE d \in At(j)
        BY <4>1, <3>1, <3>3, <1>5
      <4>2. CASE d \in SettledOf(j) /\ d \notin At(j)
        BY <4>2, <3>1, <3>3, <3>4, <1>5
      <4> QED BY <4>1, <4>2, <1>5
    <3>6. latest'[j] \subseteq SettledOf(j)'
      BY <3>1, <1>5
    <3> QED BY <3>1, <3>4, <3>5, <3>6
  <2> QED BY <2>1, <2>2
<1>9. latest' \in [Ports -> SUBSET J!Event] /\ latest' = [j \in Ports |-> latest'[j]]
  <2>1. \A j \in Ports : latest'[j] \subseteq J!Event
    BY <1>1, <1>8, <1>6 DEF GatherTypes, SettledOf
  <2> QED BY <2>1, <1>1
<1> DEFINE All == \A j \in Ports : latest'[j] # {}
           row == [index |-> k, latest |-> latest']
<1>10. row \in J!Row /\ row.index = k
  BY <1>3, <1>9, GatherFacts DEF J!Row
<1>11. \A t : t \in Emitted' <=> t \in Emitted \/ (t = k /\ All)
  <2>1. CASE All
    <3>1. out' = Append(out, row)
      BY <2>1, <1>1
    <3> HIDE DEF row
    <3>2. Len(out') = Len(out) + 1 /\ out'[Len(out')] = row /\ (\A i \in 1 .. Len(out) : out'[i] = out[i])
          /\ Len(out) \in Nat
      BY <3>1, <1>10 DEF GatherTypes
    <3>3. \A t : t \in Emitted' <=> \E i \in 1 .. Len(out') : t = out'[i].index
      BY DEF Emitted
    <3>4. \A t : t \in Emitted <=> \E i \in 1 .. Len(out) : t = out[i].index
      BY DEF Emitted
    <3> QED BY <3>2, <3>3, <3>4, <2>1, <1>10
  <2>2. CASE ~All
    <3>1. out' = out
      BY <2>2, <1>1
    <3> QED BY <3>1, <2>2 DEF Emitted
  <2> QED BY <2>1, <2>2
<1>12. ASSUME NEW j \in Ports, NEW t \in Int, t < k
       PROVE  (\E d \in SettledOf(j)' : d.index <= t) <=> \E d \in SettledOf(j) : d.index <= t
  <2>1. \A d \in At(j) : d.index = k
    BY DEF J!RowsAt
  <2> QED BY <2>1, <1>5, <1>12, <1>3
<1>13. GatherRows'
  <2>1. \A j \in Ports : latest'[j] = {d \in SettledOf(j)' : \A c \in SettledOf(j)' : c.nth <= d.nth}
    BY <1>8
  <2>2. ASSUME NEW t \in Index
        PROVE  t \in Emitted' <=> (\E d \in SettledRows' : d.index = t) /\ \A j \in Ports : \E d \in SettledOf(j)' : d.index <= t
    <3>1. CASE t = k
      <4>1. k \notin Emitted
        <5>1. k \in Emitted => \E d \in SettledRows : d.index = k
          BY <1>3 DEF GatherRows
        <5> QED BY <5>1, <1>4, <1>3
      <4>2. \E d \in SettledRows' : d.index = k
        BY <1>3, <1>4 DEF Q
      <4>3. \A j \in Ports : (\E d \in SettledOf(j)' : d.index <= k) <=> SettledOf(j)' # {}
        <5>1. \A j \in Ports : SettledOf(j)' \subseteq SettledRows'
          BY <1>4, <1>5 DEF SettledOf
        <5> QED BY <5>1, <1>6
      <4> QED BY <3>1, <4>1, <4>2, <4>3, <1>8, <1>11
    <3>2. CASE t # k /\ ~(\E d \in SettledRows : d.index = t)
      <4>1. ~ \E d \in SettledRows' : d.index = t
        BY <3>2, <1>4 DEF Q
      <4> QED BY <4>1, <3>2, <1>11 DEF GatherRows
    <3>3. CASE t # k /\ \E d \in SettledRows : d.index = t
      <4>1. t < k /\ t \in Int
        BY <3>3, <1>4, GatherFacts
      <4>2. \E d \in SettledRows' : d.index = t
        BY <3>3, <1>4
      <4> QED BY <4>1, <4>2, <3>3, <1>11, <1>12 DEF GatherRows
    <3> QED BY <3>1, <3>2, <3>3
  <2>3. Emitted' \subseteq Index
    BY <1>3, <1>11 DEF GatherRows
  <2> QED BY <2>1, <2>2, <2>3 DEF GatherRows
<1>14. GatherTypes'
  <2>1. Numbered'
    BY <1>1, FloorsUp, GatherInts DEF GatherTypes
  <2>2. out' \in Seq(J!Row)
    BY <1>1, <1>10 DEF GatherTypes
  <2>3. queue' \subseteq taken'
    BY <1>1, <1>3
  <2> QED BY <2>1, <2>2, <2>3, <1>1, <1>9 DEF GatherTypes
<1>15. GatherBounds' /\ GatherLimit'
  <2>1. \A j : J!Bounds(j)' = J!Bounds(j)
    BY <1>1 DEF J!Bounds
  <2> QED BY <2>1, <1>1, <1>2 DEF GatherBounds, GatherLimit
<1>16. GatherSettled'
  <2>1. ASSUME NEW d \in SettledRows', NEW e \in Unsettled' PROVE d.index < e.index
    BY <2>1, <1>3, <1>4, <1>6, GatherInts DEF GatherTypes
  <2>2. ASSUME ended = {}, NEW d \in SettledRows', NEW j \in Ports PROVE d.index < floor[j]
    BY <2>2, <1>3, <1>6, <1>7, GatherInts
  <2> QED BY <2>1, <2>2, <1>1 DEF GatherSettled
<1>17. CASE ~All
  <2>1. UNCHANGED streamVars
    BY <1>17, <1>1 DEF streamVars
  <2> QED BY <2>1, <1>13, <1>14, <1>15, <1>16
<1>18. CASE All
  <2>1. \A p \in Ports : J!Upto(p, k) = SettledOf(p)'
    BY <1>5, <1>6 DEF J!Upto, SettledOf
  <2>2. \A p \in Ports : J!Latest(p, k) = latest'[p]
    BY <2>1, <1>8 DEF J!Latest
  <2>3. J!RowAt(k) = row
    <3>1. [p \in Ports |-> J!Latest(p, k)] = [p \in Ports |-> latest'[p]]
      BY <2>2
    <3> QED BY <3>1, <1>9, GatherFacts DEF J!RowAt
  <2>4. J!IsRow(k)
    <3>1. \E e \in taken : e.index = k
      BY <1>3 DEF Q
    <3> QED BY <3>1, <2>2, <1>18, GatherFacts DEF J!IsRow, J!Passes
  <2>5. J!Final(k)
    BY <1>7, GatherFacts DEF J!Final
  <2>6. \A u \in Emitted : u < k
    <3>1. \A u \in Emitted : \E d \in SettledRows : d.index = u
      BY DEF GatherRows
    <3> QED BY <3>1, <1>4
  <2>7. ASSUME NEW u \in Index, u < k, J!IsRow(u) PROVE u \in Emitted
    <3>1. PICK e \in taken : e.index = u
      BY <2>7 DEF J!IsRow
    <3>2. e \in SettledRows
      BY <3>1, <2>7, <1>6
    <3>3. \A p \in Ports : \E d \in SettledOf(p) : d.index <= u
      <4> SUFFICES ASSUME NEW p \in Ports PROVE \E d \in SettledOf(p) : d.index <= u
        OBVIOUS
      <4>1. PICK d : d \in J!Latest(p, u)
        BY <2>7, GatherFacts DEF J!IsRow
      <4>2. d \in taken /\ d.port = p /\ d.index <= u
        BY <4>1 DEF J!Latest, J!Upto
      <4>3. d.index < k
        BY <4>2, <2>7, <1>3, GatherInts, GatherFacts
      <4> QED BY <4>2, <4>3, <1>6 DEF SettledOf
    <3> QED BY <3>1, <3>2, <3>3 DEF GatherRows
  <2>8. out' = Append(out, J!RowAt(k))
    BY <1>18, <1>1, <2>3
  <2>9. J!Deliver
    BY <2>4, <2>5, <2>6, <2>7, <2>8, <1>1, <1>3, GatherFacts DEF J!Deliver
  <2> QED BY <2>9, <1>13, <1>14, <1>15, <1>16
<1> QED BY <1>17, <1>18

LEMMA EndTakeGather ==
  ASSUME GatherInv, J!EndTake
  PROVE  GatherInv' /\ UNCHANGED streamVars
<1> USE DEF GatherInv
<1>1. /\ call' = "idle" /\ limit' = kMin
      /\ UNCHANGED <<taken, out, floor, ended, buffer, watermark, queue, bound, latest>>
  BY DEF J!EndTake, J!streamVars, J!joinVars
<1>2. GatherTypes'
  <2>1. Numbered'
    BY <1>1, FloorsUp, GatherInts DEF GatherTypes
  <2> QED BY <2>1, <1>1, GatherFacts DEF GatherTypes
<1>3. (\A j : J!Bounds(j)' = J!Bounds(j)) /\ SettledRows' = SettledRows /\ Unsettled' = Unsettled
  BY <1>1 DEF J!Bounds, SettledRows, Unsettled
<1>4. GatherBounds' /\ GatherLimit' /\ GatherSettled' /\ GatherRows'
  BY <1>1, <1>3, RowsKept DEF GatherBounds, GatherLimit, GatherSettled
<1> QED BY <1>1, <1>2, <1>4 DEF streamVars

\* The step that ends a take has settled every index that all outputs passed.
LEMMA TakeSettles ==
  ASSUME GatherInv, J!Next
  PROVE  J!Settles
<1>1. CASE J!EndTake
  <2> SUFFICES ASSUME call = "take", NEW e \in queue
               PROVE  ended = {} /\ \E j \in Ports : floor[j] <= e.index
    BY GatherFacts DEF J!Settles
  <2>1. limit <= e.index /\ e \in taken /\ limit \in Int
    BY <1>1 DEF J!EndTake, GatherInv, GatherTypes
  <2>2. e.index \in Int /\ e.index <= kMax /\ kMax \in Int
    BY <2>1, GatherInts, GatherFacts DEF GatherInv
  <2>3. ended = {}
    BY <2>1, <2>2 DEF GatherInv, GatherLimit
  <2>4. PICK j \in Ports : floor[j] <= limit
    BY <2>3 DEF GatherInv, GatherLimit
  <2>5. floor[j] \in Int
    BY GatherInts DEF GatherInv
  <2> QED BY <2>1, <2>2, <2>3, <2>4, <2>5
<1>2. CASE ~J!EndTake
  <2>1. call = "take" => call' # "idle"
    <3>1. CASE J!MergeIndex
      BY <3>1 DEF J!MergeIndex
    <3> QED BY <1>2, <3>1 DEF J!Next, J!Emit, J!OnWatermark, J!Flush, J!Take, J!Reset, J!Open
  <2> QED BY <2>1 DEF J!Settles
<1> QED BY <1>1, <1>2

LEMMA GatherEnd ==
  ASSUME GatherInv
  PROVE  J!EndComplete
<1> USE DEF GatherInv
<1> SUFFICES ASSUME buffer = {}, queue = {}, NEW t \in Index, J!IsRow(t)
             PROVE  t \in Emitted
  BY GatherFacts DEF J!EndComplete
<1>1. SettledRows = taken
  BY DEF SettledRows, Unsettled
<1>2. \E d \in SettledRows : d.index = t
  BY <1>1 DEF J!IsRow
<1>3. ASSUME NEW p \in Ports PROVE \E d \in SettledOf(p) : d.index <= t
  <2>1. PICK d : d \in J!Latest(p, t)
    BY GatherFacts DEF J!IsRow
  <2> QED BY <2>1, <1>1 DEF SettledOf, J!Latest, J!Upto
<1> QED BY <1>2, <1>3 DEF GatherRows

\* A step of the join keeps the invariant and is one of AlignedRows.
LEMMA NextGather ==
  ASSUME GatherInv, J!Next
  PROVE  GatherInv' /\ [J!SNext]_streamVars
<1>1. CASE \E j \in J!Ports, t \in RowIndexes, v \in {0} : J!Emit(j, t, v)
  BY <1>1, EmitGather, GatherFacts DEF J!SNext
<1>2. CASE \E j \in J!Ports, w \in J!Index : J!OnWatermark(j, w)
  BY <1>2, WatermarkGather, GatherFacts DEF J!SNext
<1>3. CASE J!Flush
  <2>1. GatherInv' /\ J!End(J!Ports)
    BY <1>3, FlushGather, GatherFacts
  <2> QED BY <2>1 DEF J!SNext
<1>4. CASE J!Take
  BY <1>4, TakeGather
<1>5. CASE J!MergeIndex
  BY <1>5, MergeIndexGather DEF J!SNext
<1>6. CASE J!EndTake
  BY <1>6, EndTakeGather
<1>7. CASE J!Reset
  BY <1>7, ResetGather DEF J!Reset, J!SNext
<1> QED BY <1>1, <1>2, <1>3, <1>4, <1>5, <1>6, <1>7 DEF J!Next

LEMMA StutterGather ==
  ASSUME GatherInv, UNCHANGED allVars
  PROVE  GatherInv'
<1> USE DEF GatherInv
<1>1. UNCHANGED <<taken, out, floor, ended, call, buffer, watermark, queue, bound, latest, limit>>
  BY DEF allVars, streamVars, bufferVars, callVars, joinOwn
<1>2. GatherTypes'
  <2>1. Numbered'
    BY <1>1, FloorsUp, GatherInts DEF GatherTypes
  <2> QED BY <2>1, <1>1 DEF GatherTypes
<1>3. (\A j : J!Bounds(j)' = J!Bounds(j)) /\ SettledRows' = SettledRows /\ Unsettled' = Unsettled
  BY <1>1 DEF J!Bounds, SettledRows, Unsettled
<1>4. GatherBounds' /\ GatherLimit' /\ GatherSettled' /\ GatherRows'
  BY <1>1, <1>3, RowsKept DEF GatherBounds, GatherLimit, GatherSettled
<1> QED BY <1>2, <1>4
-----------------------------------------------------------------------------
(* The pairs, the filter and the join of the outputs beside the other nodes. *)

\* A forward join keeps ForwardInv, a lead LeadInv, a filter FilterInv, and the
\* join of the outputs GatherInv; that one sends no watermark down.
PairInv ==
  /\ node = "forward" => ForwardInv
  /\ node = "lead" => LeadInv
  /\ node = "filter" => FilterInv
  /\ node = "join" => GatherInv /\ last_forwarded = kMin

LEMMA StutterForward ==
  ASSUME ForwardInv, UNCHANGED allVars
  PROVE  ForwardInv'
<1>1. /\ UNCHANGED <<taken, out, floor, ended, clock, merge_order, flushed, last_forwarded, call, error, flushes>>
      /\ UNCHANGED <<rows, events, base, y_last, y_wm, x_floor>>
  BY DEF allVars, streamVars, bufferVars, callVars, mergeOwn, forwardOwn
<1>2. (\A p : Sent(p)' = Sent(p)) /\ YEvents' = YEvents /\ PassedY' = PassedY
  BY <1>1 DEF Sent, YEvents, PassedY
<1>3. ForwardTypes' /\ ForwardCalls' /\ ForwardLast'
  <2>1. Numbered'
    BY <1>1, <1>2 DEF ForwardInv, ForwardTypes, Numbered
  <2> QED BY <1>1, <1>2, <2>1 DEF ForwardInv, ForwardTypes, ForwardCalls, ForwardLast
<1>4. ForwardFloors' /\ ForwardRows'
  BY <1>1, <1>2 DEF ForwardInv, ForwardFloors, ForwardRows, P!Bounds
<1>5. ForwardPassed'
  BY <1>1, <1>2 DEF ForwardInv, ForwardPassed
<1>6. ForwardOut'
  <2>1. \A x : P!TargetOf(x)' = P!TargetOf(x)
    BY <1>1 DEF P!TargetOf, P!Latest, P!Upto
  <2>2. \A i, x : IsOut(i, x)' <=> IsOut(i, x)
    BY <1>1, <1>2, <2>1 DEF IsOut
  <2> QED BY <1>1, <2>2 DEF ForwardInv, ForwardOut
<1>7. ForwardIdle'
  BY <1>1 DEF ForwardInv, ForwardIdle, P!Settled, P!Oldest, P!Known
<1> QED BY <1>3, <1>4, <1>5, <1>6, <1>7 DEF ForwardInv

LEMMA StutterLead ==
  ASSUME LeadInv, UNCHANGED allVars
  PROVE  LeadInv'
<1>1. UNCHANGED <<taken, out, floor, ended, clock, merge_order, flushed, last_forwarded, call, error, flushes,
                  queue, ring, lo>>
  BY DEF allVars, streamVars, bufferVars, callVars, mergeOwn, leadOwn
<1>2. (\A p : Sent(p)' = Sent(p)) /\ Made' = Made /\ (Drained' <=> Drained)
  BY <1>1 DEF Sent, Made, Drained
<1>3. LeadTypes'
  <2>1. Numbered'
    BY <1>1, <1>2 DEF LeadInv, LeadTypes, Numbered
  <2> QED BY <1>1, <2>1 DEF LeadInv, LeadTypes
<1>4. LeadCalls' /\ LeadFloors' /\ LeadQueue' /\ LeadRing'
  BY <1>1, <1>2 DEF LeadInv, LeadCalls, LeadFloors, LeadQueue, LeadRing
<1>5. LeadOut'
  BY <1>1, <1>2 DEF LeadInv, LeadOut, HasTarget
<1>6. LeadMatched'
  <2>1. L!Matched' <=> L!Matched
    BY <1>1 DEF L!Matched, L!OffClock, L!Paired, L!Head1, L!Queued
  <2>2. L!Differ(Made)' <=> L!Differ(Made)
    BY <1>1, <1>2 DEF L!Differ, L!Nth, L!Past
  <2> QED BY <1>1, <1>2, <2>1, <2>2 DEF LeadInv, LeadMatched
<1>7. LeadAhead'
  BY <1>1 DEF LeadInv, LeadAhead, Ahead
<1> QED BY <1>3, <1>4, <1>5, <1>6, <1>7 DEF LeadInv

LEMMA PairStarts ==
  Init => PairInv
<1> SUFFICES ASSUME Init PROVE PairInv
  OBVIOUS
<1>1. ASSUME node = "forward" PROVE ForwardInv
  BY <1>1, InitForward DEF Init, Combine, Resample
<1>2. ASSUME node = "lead" PROVE LeadInv
  BY <1>2, InitLead DEF Init, Combine, Resample
<1>3. ASSUME node = "join" PROVE GatherInv /\ last_forwarded = kMin
  BY <1>3, InitGather DEF Init, Combine, Resample, BufferInit
<1>4. ASSUME node = "filter" PROVE FilterInv
  BY <1>4, FilterStarts DEF Init, Combine, Resample
<1> QED BY <1>1, <1>2, <1>3, <1>4 DEF PairInv

LEMMA PairSteps ==
  ASSUME [Next]_allVars
  PROVE  /\ UNCHANGED node
         /\ node = "forward" => P!Next \/ UNCHANGED allVars
         /\ node = "lead" => L!Next \/ UNCHANGED allVars
         /\ node = "filter" => F!Next \/ UNCHANGED allVars
         /\ node = "join" => (J!Next /\ UNCHANGED last_forwarded) \/ UNCHANGED allVars
<1>1. CASE Next
  BY <1>1 DEF Next, handlerOwn
<1>2. CASE UNCHANGED allVars
  BY <1>2 DEF allVars
<1> QED BY <1>1, <1>2

LEMMA PairInductive == Spec => []PairInv
<1>1. ASSUME PairInv, [Next]_allVars PROVE PairInv'
  <2>1. ASSUME node = "forward" PROVE ForwardInv'
    BY <1>1, <2>1, PairSteps, NextForward, StutterForward DEF PairInv
  <2>2. ASSUME node = "lead" PROVE LeadInv'
    BY <1>1, <2>2, PairSteps, NextLead, StutterLead DEF PairInv
  <2>3. ASSUME node = "join" PROVE GatherInv' /\ last_forwarded' = kMin
    <3>1. CASE J!Next /\ UNCHANGED last_forwarded
      BY <1>1, <2>3, <3>1, NextGather DEF PairInv
    <3>2. CASE UNCHANGED allVars
      BY <1>1, <2>3, <3>2, StutterGather DEF PairInv, allVars, bufferVars
    <3> QED BY <1>1, <2>3, <3>1, <3>2, PairSteps
  <2>4. ASSUME node = "filter" PROVE FilterInv'
    BY <1>1, <2>4, PairSteps, FilterNext DEF PairInv
  <2>5. UNCHANGED node
    BY <1>1, PairSteps
  <2> QED BY <2>1, <2>2, <2>3, <2>4, <2>5 DEF PairInv
<1>2. PairInv /\ [Next]_allVars => PairInv'
  BY <1>1
<1> QED BY <1>2, PairStarts, PTL DEF Spec

-----------------------------------------------------------------------------
(* The joins and the resamples, and the modules with their proofs.        *)

CP == INSTANCE CombineLatestProofs WITH
        Vals <- Columns, WhenAll <- FALSE, Gated <- FALSE, Passing <- {}, Declared <- OneColumn
AP == INSTANCE CombineLatestProofs WITH
        Vals <- {1}, WhenAll <- TRUE, Gated <- FALSE, Passing <- {}, Declared <- OneColumn

RP == INSTANCE ResampleClockProofs WITH
        kMax <- TickMax, Indexes <- TickIndexes, MaxEvents <- MaxEvents + 1, Skip <- TRUE
EP == INSTANCE ResampleClockProofs WITH
        kMax <- TickMax, Indexes <- TickIndexes, MaxEvents <- MaxEvents + 1, Skip <- FALSE, MaxAge <- {}

Nodes == {"any", "all", "filter", "join", "bars", "every bar", "forward", "lead"}

\* An aligning join keeps the invariant of CombineLatest, with either emit.
JoinInv ==
  /\ node \in Nodes
  /\ node = "any" => CP!IInv /\ CP!Low
  /\ node = "all" => AP!IInv /\ AP!Low

\* The model's joins take the steps of those the proofs are about.
LEMMA AnySteps == (C!Init <=> CP!Init) /\ (C!Next <=> CP!Next)
<1>1. /\ C!Ports = CP!Ports /\ C!Index = CP!Index
      /\ \A p : C!Sent(p) = CP!Sent(p)
      /\ C!Cardinality(pending) = CP!Cardinality(pending)
      /\ \A e : C!Renumbered(e) = CP!Renumbered(e)
  BY Zenon DEF C!Ports, CP!Ports, C!Index, CP!Index, C!Sent, CP!Sent, C!Cardinality, CP!Cardinality,
     C!Renumbered, CP!Renumbered, C!HeapBefore, CP!HeapBefore
<1>2. \A p, t : C!MaySend(p, t) <=> CP!MaySend(p, t)
  BY Zenon DEF C!MaySend, CP!MaySend, C!Idle, CP!Idle
<1>3. /\ \A a, b : C!Larger(a, b) = CP!Larger(a, b)
      /\ \A e : C!EventOf(e) = CP!EventOf(e)
      /\ \A p, w : C!Fits(p, w) <=> CP!Fits(p, w)
  BY Zenon DEF C!Larger, CP!Larger, C!EventOf, CP!EventOf, C!Fits, CP!Fits
<1>4. \A p, t, w : C!Push(p, t, w) <=> CP!Push(p, t, w)
  BY <1>1, <1>2, <1>3 DEF C!Enqueue, CP!Enqueue, C!Push, CP!Push
<1>5. \A p, t, w : C!PushRefused(p, t, w) <=> CP!PushRefused(p, t, w)
  BY <1>1, <1>2, <1>3 DEF C!PushRefused, CP!PushRefused, C!bufferVars, CP!bufferVars
<1>6. \A p, w : C!MarkWatermark(p, w) <=> CP!MarkWatermark(p, w)
  BY <1>3 DEF C!MarkWatermark, CP!MarkWatermark, C!OnWatermark, CP!OnWatermark, C!Idle, CP!Idle,
     C!columnVars, CP!columnVars
<1>7. \A p : C!MarkFlush(p) <=> CP!MarkFlush(p)
  BY DEF C!MarkFlush, CP!MarkFlush, C!FlushPort, CP!FlushPort, C!Idle, CP!Idle, C!columnVars, CP!columnVars
<1>8. /\ \A w : C!IsLow(w) <=> CP!IsLow(w)
      /\ \A e : C!Applicable(e) <=> CP!Applicable(e)
  BY Zenon DEF C!IsLow, CP!IsLow, C!Applicable, CP!Applicable, C!IsTop, CP!IsTop, C!HeapBefore, CP!HeapBefore,
     C!Ports, CP!Ports, C!Index, CP!Index
<1>9. C!ApplyTop <=> CP!ApplyTop
  BY <1>1, <1>3, <1>8, Zenon DEF C!ApplyTop, CP!ApplyTop, C!EmitBuffered, CP!EmitBuffered,
     C!KeepRows, CP!KeepRows, C!callVars, CP!callVars
<1>10. \A all : C!Return(all) <=> CP!Return(all)
  BY <1>1, <1>3, <1>8, Zenon DEF C!Return, CP!Return, C!Released, CP!Released, C!Settle, CP!Settle,
     C!EmitBuffered, CP!EmitBuffered, C!KeepRows, CP!KeepRows
<1>11. (C!EndPush <=> CP!EndPush) /\ (C!EndWatermark <=> CP!EndWatermark) /\ (C!EndFlush <=> CP!EndFlush)
  BY <1>1, <1>10, Zenon DEF C!EndPush, CP!EndPush, C!EndWatermark, CP!EndWatermark, C!EndFlush, CP!EndFlush
<1>12. C!Reset <=> CP!Reset
  BY <1>1, Zenon DEF C!Reset, CP!Reset, C!Restart, CP!Restart, C!ResetBuffer, CP!ResetBuffer
<1>13. C!SaveAndLoad <=> CP!SaveAndLoad
  BY <1>1, Zenon DEF C!SaveAndLoad, CP!SaveAndLoad, C!Idle, CP!Idle, C!streamVars, CP!streamVars,
     C!callVars, CP!callVars, C!columnVars, CP!columnVars
<1>14. C!Next <=> CP!Next
  BY <1>1, <1>4, <1>5, <1>6, <1>7, <1>9, <1>11, <1>12, <1>13, Zenon DEF C!Next, CP!Next, C!Handler, CP!Handler
<1>15. C!Init <=> CP!Init
  BY <1>1, Zenon DEF C!Init, CP!Init, C!SInit, CP!SInit, C!BufferInit, CP!BufferInit
<1> QED BY <1>14, <1>15

LEMMA AllSteps == (A!Init <=> AP!Init) /\ (A!Next <=> AP!Next)
<1>1. /\ A!Ports = AP!Ports /\ A!Index = AP!Index
      /\ \A p : A!Sent(p) = AP!Sent(p)
      /\ A!Cardinality(pending) = AP!Cardinality(pending)
      /\ \A e : A!Renumbered(e) = AP!Renumbered(e)
  BY Zenon DEF A!Ports, AP!Ports, A!Index, AP!Index, A!Sent, AP!Sent, A!Cardinality, AP!Cardinality,
     A!Renumbered, AP!Renumbered, A!HeapBefore, AP!HeapBefore
<1>2. \A p, t : A!MaySend(p, t) <=> AP!MaySend(p, t)
  BY Zenon DEF A!MaySend, AP!MaySend, A!Idle, AP!Idle
<1>3. /\ \A a, b : A!Larger(a, b) = AP!Larger(a, b)
      /\ \A e : A!EventOf(e) = AP!EventOf(e)
      /\ \A p, w : A!Fits(p, w) <=> AP!Fits(p, w)
  BY Zenon DEF A!Larger, AP!Larger, A!EventOf, AP!EventOf, A!Fits, AP!Fits
<1>4. \A p, t, w : A!Push(p, t, w) <=> AP!Push(p, t, w)
  BY <1>1, <1>2, <1>3 DEF A!Enqueue, AP!Enqueue, A!Push, AP!Push
<1>5. \A p, t, w : A!PushRefused(p, t, w) <=> AP!PushRefused(p, t, w)
  BY <1>1, <1>2, <1>3 DEF A!PushRefused, AP!PushRefused, A!bufferVars, AP!bufferVars
<1>6. \A p, w : A!MarkWatermark(p, w) <=> AP!MarkWatermark(p, w)
  BY <1>3 DEF A!MarkWatermark, AP!MarkWatermark, A!OnWatermark, AP!OnWatermark, A!Idle, AP!Idle,
     A!columnVars, AP!columnVars
<1>7. \A p : A!MarkFlush(p) <=> AP!MarkFlush(p)
  BY DEF A!MarkFlush, AP!MarkFlush, A!FlushPort, AP!FlushPort, A!Idle, AP!Idle, A!columnVars, AP!columnVars
<1>8. /\ \A w : A!IsLow(w) <=> AP!IsLow(w)
      /\ \A e : A!Applicable(e) <=> AP!Applicable(e)
  BY Zenon DEF A!IsLow, AP!IsLow, A!Applicable, AP!Applicable, A!IsTop, AP!IsTop, A!HeapBefore, AP!HeapBefore,
     A!Ports, AP!Ports, A!Index, AP!Index
<1>9. A!ApplyTop <=> AP!ApplyTop
  BY <1>1, <1>3, <1>8, Zenon DEF A!ApplyTop, AP!ApplyTop, A!EmitBuffered, AP!EmitBuffered,
     A!KeepRows, AP!KeepRows, A!callVars, AP!callVars
<1>10. \A all : A!Return(all) <=> AP!Return(all)
  BY <1>1, <1>3, <1>8, Zenon DEF A!Return, AP!Return, A!Released, AP!Released, A!Settle, AP!Settle,
     A!EmitBuffered, AP!EmitBuffered, A!KeepRows, AP!KeepRows
<1>11. (A!EndPush <=> AP!EndPush) /\ (A!EndWatermark <=> AP!EndWatermark) /\ (A!EndFlush <=> AP!EndFlush)
  BY <1>1, <1>10, Zenon DEF A!EndPush, AP!EndPush, A!EndWatermark, AP!EndWatermark, A!EndFlush, AP!EndFlush
<1>12. A!Reset <=> AP!Reset
  BY <1>1, Zenon DEF A!Reset, AP!Reset, A!Restart, AP!Restart, A!ResetBuffer, AP!ResetBuffer
<1>13. A!SaveAndLoad <=> AP!SaveAndLoad
  BY <1>1, Zenon DEF A!SaveAndLoad, AP!SaveAndLoad, A!Idle, AP!Idle, A!streamVars, AP!streamVars,
     A!callVars, AP!callVars, A!columnVars, AP!columnVars
<1>14. A!Next <=> AP!Next
  BY <1>1, <1>4, <1>5, <1>6, <1>7, <1>9, <1>11, <1>12, <1>13, Zenon DEF A!Next, AP!Next, A!Handler, AP!Handler
<1>15. A!Init <=> AP!Init
  BY <1>1, Zenon DEF A!Init, AP!Init, A!SInit, AP!SInit, A!BufferInit, AP!BufferInit
<1> QED BY <1>14, <1>15

\* And they mean the same by their properties.
LEMMA AnyMeans ==
  /\ C!RowsPrompt <=> CP!RowsPrompt
  /\ C!FlushEmitsAll <=> CP!FlushEmitsAll
  /\ C!SavedStateLoads <=> CP!SavedStateLoads
  /\ C!RowsOneLayout <=> CP!RowsOneLayout
  /\ C!SNext <=> CP!SNext
<1>1. /\ C!Ports = CP!Ports /\ C!Index = CP!Index /\ C!Emitted = CP!Emitted
      /\ \A p : C!Sent(p) = CP!Sent(p)
      /\ C!Cardinality(layouts) = CP!Cardinality(layouts)
  BY Zenon DEF C!Ports, CP!Ports, C!Index, CP!Index, C!Emitted, CP!Emitted, C!Sent, CP!Sent,
     C!Cardinality, CP!Cardinality
<1>2. \A p, t : C!Latest(p, t) = CP!Latest(p, t)
  BY Zenon DEF C!Latest, CP!Latest, C!Upto, CP!Upto
<1>3. \A t : C!RowAt(t) = CP!RowAt(t)
  BY <1>1, <1>2, Zenon DEF C!RowAt, CP!RowAt
<1>4. \A l : C!Passes(l) <=> CP!Passes(l)
  BY Zenon DEF C!Passes, CP!Passes
<1>5. \A t : C!IsRow(t) <=> CP!IsRow(t)
  BY <1>1, <1>2, <1>3, <1>4, Zenon DEF C!IsRow, CP!IsRow
<1>6. \A w : C!IsLow(w) <=> CP!IsLow(w)
  BY <1>1, Zenon DEF C!IsLow, CP!IsLow
<1>7. /\ C!RowsPrompt <=> CP!RowsPrompt
      /\ C!FlushEmitsAll <=> CP!FlushEmitsAll
      /\ C!RowsOneLayout <=> CP!RowsOneLayout
      /\ C!SavedStateLoads <=> CP!SavedStateLoads
  BY <1>1, <1>5, <1>6, Zenon DEF C!RowsPrompt, CP!RowsPrompt, C!FlushEmitsAll, CP!FlushEmitsAll,
     C!RowsOneLayout, CP!RowsOneLayout, C!SavedStateLoads, CP!SavedStateLoads
<1>8. \A t : C!Final(t) <=> CP!Final(t)
  BY <1>1, Zenon DEF C!Final, CP!Final
<1>9. C!SNext <=> CP!SNext
  <2>1. C!Promise <=> CP!Promise
    BY <1>1, Zenon DEF C!Promise, CP!Promise
  <2>2. \A p : C!Offer(p) <=> CP!Offer(p)
    BY <1>1, Zenon DEF C!Offer, CP!Offer
  <2>3. \A S : C!End(S) <=> CP!End(S)
    BY <1>1, Zenon DEF C!End, CP!End
  <2>4. C!Deliver <=> CP!Deliver
    BY <1>1, <1>3, <1>5, <1>8, Zenon DEF C!Deliver, CP!Deliver
  <2>5. C!Restart <=> CP!Restart
    BY <1>1, Zenon DEF C!Restart, CP!Restart
  <2> QED BY <1>1, <2>1, <2>2, <2>3, <2>4, <2>5, Zenon DEF C!SNext, CP!SNext
<1> QED BY <1>7, <1>9

LEMMA AllMeans ==
  /\ A!RowsPrompt <=> AP!RowsPrompt
  /\ A!FlushEmitsAll <=> AP!FlushEmitsAll
  /\ A!SavedStateLoads <=> AP!SavedStateLoads
  /\ A!RowsOneLayout <=> AP!RowsOneLayout
  /\ A!SNext <=> AP!SNext
<1>1. /\ A!Ports = AP!Ports /\ A!Index = AP!Index /\ A!Emitted = AP!Emitted
      /\ \A p : A!Sent(p) = AP!Sent(p)
      /\ A!Cardinality(layouts) = AP!Cardinality(layouts)
  BY Zenon DEF A!Ports, AP!Ports, A!Index, AP!Index, A!Emitted, AP!Emitted, A!Sent, AP!Sent,
     A!Cardinality, AP!Cardinality
<1>2. \A p, t : A!Latest(p, t) = AP!Latest(p, t)
  BY Zenon DEF A!Latest, AP!Latest, A!Upto, AP!Upto
<1>3. \A t : A!RowAt(t) = AP!RowAt(t)
  BY <1>1, <1>2, Zenon DEF A!RowAt, AP!RowAt
<1>4. \A l : A!Passes(l) <=> AP!Passes(l)
  BY Zenon DEF A!Passes, AP!Passes
<1>5. \A t : A!IsRow(t) <=> AP!IsRow(t)
  BY <1>1, <1>2, <1>3, <1>4, Zenon DEF A!IsRow, AP!IsRow
<1>6. \A w : A!IsLow(w) <=> AP!IsLow(w)
  BY <1>1, Zenon DEF A!IsLow, AP!IsLow
<1>7. /\ A!RowsPrompt <=> AP!RowsPrompt
      /\ A!FlushEmitsAll <=> AP!FlushEmitsAll
      /\ A!RowsOneLayout <=> AP!RowsOneLayout
      /\ A!SavedStateLoads <=> AP!SavedStateLoads
  BY <1>1, <1>5, <1>6, Zenon DEF A!RowsPrompt, AP!RowsPrompt, A!FlushEmitsAll, AP!FlushEmitsAll,
     A!RowsOneLayout, AP!RowsOneLayout, A!SavedStateLoads, AP!SavedStateLoads
<1>8. \A t : A!Final(t) <=> AP!Final(t)
  BY <1>1, Zenon DEF A!Final, AP!Final
<1>9. A!SNext <=> AP!SNext
  <2>1. A!Promise <=> AP!Promise
    BY <1>1, Zenon DEF A!Promise, AP!Promise
  <2>2. \A p : A!Offer(p) <=> AP!Offer(p)
    BY <1>1, Zenon DEF A!Offer, AP!Offer
  <2>3. \A S : A!End(S) <=> AP!End(S)
    BY <1>1, Zenon DEF A!End, AP!End
  <2>4. A!Deliver <=> AP!Deliver
    BY <1>1, <1>3, <1>5, <1>8, Zenon DEF A!Deliver, AP!Deliver
  <2>5. A!Restart <=> AP!Restart
    BY <1>1, Zenon DEF A!Restart, AP!Restart
  <2> QED BY <1>1, <2>1, <2>2, <2>3, <2>4, <2>5, Zenon DEF A!SNext, AP!SNext
<1> QED BY <1>7, <1>9

-----------------------------------------------------------------------------
(* The same of the clock resamples.                                        *)

LEMMA BarsSteps ==
  /\ R!ClockAssumption <=> RP!ClockAssumption
  /\ R!Next <=> RP!Next
  /\ R!Init <=> RP!Init
<1>1. /\ R!Ports = RP!Ports /\ R!Index = RP!Index /\ R!None = RP!None
      /\ R!Value = RP!Value /\ R!Tick = RP!Tick
      /\ R!Idle <=> RP!Idle
  BY Zenon DEF R!Ports, RP!Ports, R!Index, RP!Index, R!None, RP!None, R!Value, RP!Value, R!Tick, RP!Tick,
     R!Idle, RP!Idle
<1>2. /\ \A a, b : R!Larger(a, b) = RP!Larger(a, b)
      /\ \A S : R!First(S) = RP!First(S) /\ R!Last(S) = RP!Last(S)
      /\ \A S, t : R!UpTo(S, t) = RP!UpTo(S, t)
      /\ R!streamVars = RP!streamVars /\ R!barVars = RP!barVars
  BY Zenon DEF R!Larger, RP!Larger, R!First, RP!First, R!Last, RP!Last, R!UpTo, RP!UpTo,
     R!streamVars, RP!streamVars, R!barVars, RP!barVars
<1>3. R!ClockAssumption <=> RP!ClockAssumption
  BY <1>1, Zenon DEF R!ClockAssumption, RP!ClockAssumption
<1>4. /\ \A p : R!Reach(p) = RP!Reach(p)
      /\ \A p, k : R!Note(p, k) <=> RP!Note(p, k)
  BY <1>1, <1>2, Zenon DEF R!Reach, RP!Reach, R!Note, RP!Note
<1>5. /\ \A t : R!ValuePast(t) <=> RP!ValuePast(t)
      /\ \A k : R!ClockReaches(k) <=> RP!ClockReaches(k)
  BY <1>1, <1>4, Zenon DEF R!ValuePast, RP!ValuePast, R!ClockReaches, RP!ClockReaches
<1>6. /\ \A k : R!JoinsNow(k) <=> RP!JoinsNow(k)
      /\ \A t : R!ReadyTick(t) <=> RP!ReadyTick(t)
  <2>1. ASSUME NEW k PROVE R!JoinsNow(k) <=> RP!JoinsNow(k)
    <3>1. CASE ticks = {}
      BY <3>1, <1>5, Zenon DEF R!JoinsNow, RP!JoinsNow
    <3>2. CASE ticks # {}
      <4>1. R!First(ticks) = RP!First(ticks)
        BY <1>2, Zenon
      <4> QED BY <3>2, <4>1, Zenon DEF R!JoinsNow, RP!JoinsNow
    <3> QED BY <3>1, <3>2
  <2>2. \A t : R!ReadyTick(t) <=> RP!ReadyTick(t)
    BY <1>2, <1>5, Zenon DEF R!ReadyTick, RP!ReadyTick
  <2> QED BY <2>1, <2>2
<1>7. /\ R!Joining = RP!Joining
      /\ R!Settled <=> RP!Settled
      /\ \A S : R!Freshest(S) = RP!Freshest(S)
  <2>1. R!Joining = RP!Joining
    BY <1>6 DEF R!Joining, RP!Joining
  <2> QED BY <2>1, <1>2, <1>6, Zenon DEF R!Settled, RP!Settled, R!Freshest, RP!Freshest
<1>8. \A t, S : R!EmitBar(t, S) <=> RP!EmitBar(t, S)
  <2>1. \A t, S : R!Stale(t, S) <=> RP!Stale(t, S)
    BY <1>1, <1>7, Zenon DEF R!Stale, RP!Stale
  <2> QED BY <2>1 DEF R!EmitBar, RP!EmitBar
<1>9. /\ \A p, w : R!MayPromise(p, w) <=> RP!MayPromise(p, w)
      /\ \A p, t : R!Arrive(p, t) <=> RP!Arrive(p, t)
  <2>1. \A p, w : R!MayPromise(p, w) <=> RP!MayPromise(p, w)
    BY <1>1, Zenon DEF R!MayPromise, RP!MayPromise
  <2> QED BY <2>1, <1>4, Zenon DEF R!Arrive, RP!Arrive, R!MaySend, RP!MaySend
<1>10. \A t : (R!PushValue(t) <=> RP!PushValue(t)) /\ (R!PushTick(t) <=> RP!PushTick(t))
  BY <1>1, <1>2, <1>9 DEF R!PushValue, RP!PushValue, R!PushTick, RP!PushTick
<1>11. /\ \A p, w : R!OnWatermark(p, w) <=> RP!OnWatermark(p, w)
       /\ \A p : R!FlushPort(p) <=> RP!FlushPort(p)
       /\ \A t : R!MergeTo(t) <=> RP!MergeTo(t)
       /\ \A m : R!Reset(m) <=> RP!Reset(m)
  BY <1>1, <1>2, <1>4, <1>9, Zenon DEF R!OnWatermark, RP!OnWatermark, R!FlushPort, RP!FlushPort,
     R!MergeTo, RP!MergeTo, R!Reset, RP!Reset, R!barVars, RP!barVars
<1>12. R!EmitTick <=> RP!EmitTick
  BY <1>2, <1>5, <1>7, <1>8, Zenon DEF R!EmitTick, RP!EmitTick,
     R!streamVars, RP!streamVars
<1>13. R!EndValue <=> RP!EndValue
  BY <1>2, <1>6, <1>7 DEF R!EndValue, RP!EndValue, R!streamVars, RP!streamVars
<1>14. R!Settle <=> RP!Settle
  BY <1>2, <1>7, Zenon DEF R!Settle, RP!Settle, R!streamVars, RP!streamVars
<1>15. (R!EndTick <=> RP!EndTick) /\ (R!EndWatermark <=> RP!EndWatermark) /\ (R!EndFlush <=> RP!EndFlush)
  BY <1>1, <1>2, <1>4, <1>14 DEF R!EndTick, RP!EndTick, R!EndWatermark, RP!EndWatermark, R!EndFlush, RP!EndFlush,
     R!streamVars, RP!streamVars
<1>16. R!Next <=> RP!Next
  BY <1>1, <1>10, <1>11, <1>12, <1>13, <1>15, Zenon DEF R!Next, RP!Next, R!Handler, RP!Handler
<1>17. R!Init <=> RP!Init
  BY <1>1, Zenon DEF R!Init, RP!Init
<1> QED BY <1>3, <1>16, <1>17

LEMMA EverySteps ==
  /\ E!ClockAssumption <=> EP!ClockAssumption
  /\ E!Next <=> EP!Next
  /\ E!Init <=> EP!Init
<1>1. /\ E!Ports = EP!Ports /\ E!Index = EP!Index /\ E!None = EP!None
      /\ E!Value = EP!Value /\ E!Tick = EP!Tick
      /\ E!Idle <=> EP!Idle
  BY Zenon DEF E!Ports, EP!Ports, E!Index, EP!Index, E!None, EP!None, E!Value, EP!Value, E!Tick, EP!Tick,
     E!Idle, EP!Idle
<1>2. /\ \A a, b : E!Larger(a, b) = EP!Larger(a, b)
      /\ \A S : E!First(S) = EP!First(S) /\ E!Last(S) = EP!Last(S)
      /\ \A S, t : E!UpTo(S, t) = EP!UpTo(S, t)
      /\ E!streamVars = EP!streamVars /\ E!barVars = EP!barVars
  BY Zenon DEF E!Larger, EP!Larger, E!First, EP!First, E!Last, EP!Last, E!UpTo, EP!UpTo,
     E!streamVars, EP!streamVars, E!barVars, EP!barVars
<1>3. E!ClockAssumption <=> EP!ClockAssumption
  BY <1>1, Zenon DEF E!ClockAssumption, EP!ClockAssumption
<1>4. /\ \A p : E!Reach(p) = EP!Reach(p)
      /\ \A p, k : E!Note(p, k) <=> EP!Note(p, k)
  BY <1>1, <1>2, Zenon DEF E!Reach, EP!Reach, E!Note, EP!Note
<1>5. /\ \A t : E!ValuePast(t) <=> EP!ValuePast(t)
      /\ \A k : E!ClockReaches(k) <=> EP!ClockReaches(k)
  BY <1>1, <1>4, Zenon DEF E!ValuePast, EP!ValuePast, E!ClockReaches, EP!ClockReaches
<1>6. /\ \A k : E!JoinsNow(k) <=> EP!JoinsNow(k)
      /\ \A t : E!ReadyTick(t) <=> EP!ReadyTick(t)
  <2>1. ASSUME NEW k PROVE E!JoinsNow(k) <=> EP!JoinsNow(k)
    <3>1. CASE ticks = {}
      BY <3>1, <1>5, Zenon DEF E!JoinsNow, EP!JoinsNow
    <3>2. CASE ticks # {}
      <4>1. E!First(ticks) = EP!First(ticks)
        BY <1>2, Zenon
      <4> QED BY <3>2, <4>1, Zenon DEF E!JoinsNow, EP!JoinsNow
    <3> QED BY <3>1, <3>2
  <2>2. \A t : E!ReadyTick(t) <=> EP!ReadyTick(t)
    BY <1>2, <1>5, Zenon DEF E!ReadyTick, EP!ReadyTick
  <2> QED BY <2>1, <2>2
<1>7. /\ E!Joining = EP!Joining
      /\ E!Settled <=> EP!Settled
      /\ \A S : E!Freshest(S) = EP!Freshest(S)
  <2>1. E!Joining = EP!Joining
    BY <1>6 DEF E!Joining, EP!Joining
  <2> QED BY <2>1, <1>2, <1>6, Zenon DEF E!Settled, EP!Settled, E!Freshest, EP!Freshest
<1>8. \A t, S : E!EmitBar(t, S) <=> EP!EmitBar(t, S)
  <2>1. \A t, S : E!Stale(t, S) <=> EP!Stale(t, S)
    BY <1>1, <1>7, Zenon DEF E!Stale, EP!Stale
  <2> QED BY <2>1 DEF E!EmitBar, EP!EmitBar
<1>9. /\ \A p, w : E!MayPromise(p, w) <=> EP!MayPromise(p, w)
      /\ \A p, t : E!Arrive(p, t) <=> EP!Arrive(p, t)
  <2>1. \A p, w : E!MayPromise(p, w) <=> EP!MayPromise(p, w)
    BY <1>1, Zenon DEF E!MayPromise, EP!MayPromise
  <2> QED BY <2>1, <1>4, Zenon DEF E!Arrive, EP!Arrive, E!MaySend, EP!MaySend
<1>10. \A t : (E!PushValue(t) <=> EP!PushValue(t)) /\ (E!PushTick(t) <=> EP!PushTick(t))
  BY <1>1, <1>2, <1>9 DEF E!PushValue, EP!PushValue, E!PushTick, EP!PushTick
<1>11. /\ \A p, w : E!OnWatermark(p, w) <=> EP!OnWatermark(p, w)
       /\ \A p : E!FlushPort(p) <=> EP!FlushPort(p)
       /\ \A t : E!MergeTo(t) <=> EP!MergeTo(t)
       /\ \A m : E!Reset(m) <=> EP!Reset(m)
  BY <1>1, <1>2, <1>4, <1>9, Zenon DEF E!OnWatermark, EP!OnWatermark, E!FlushPort, EP!FlushPort,
     E!MergeTo, EP!MergeTo, E!Reset, EP!Reset, E!barVars, EP!barVars
<1>12. E!EmitTick <=> EP!EmitTick
  BY <1>2, <1>5, <1>7, <1>8, Zenon DEF E!EmitTick, EP!EmitTick,
     E!streamVars, EP!streamVars
<1>13. E!EndValue <=> EP!EndValue
  BY <1>2, <1>6, <1>7 DEF E!EndValue, EP!EndValue, E!streamVars, EP!streamVars
<1>14. E!Settle <=> EP!Settle
  BY <1>2, <1>7, Zenon DEF E!Settle, EP!Settle, E!streamVars, EP!streamVars
<1>15. (E!EndTick <=> EP!EndTick) /\ (E!EndWatermark <=> EP!EndWatermark) /\ (E!EndFlush <=> EP!EndFlush)
  BY <1>1, <1>2, <1>4, <1>14 DEF E!EndTick, EP!EndTick, E!EndWatermark, EP!EndWatermark, E!EndFlush, EP!EndFlush,
     E!streamVars, EP!streamVars
<1>16. E!Next <=> EP!Next
  BY <1>1, <1>10, <1>11, <1>12, <1>13, <1>15, Zenon DEF E!Next, EP!Next, E!Handler, EP!Handler
<1>17. E!Init <=> EP!Init
  BY <1>1, Zenon DEF E!Init, EP!Init
<1> QED BY <1>3, <1>16, <1>17

LEMMA BarsMean ==
  /\ R!BarsRight <=> RP!BarsRight
  /\ R!EndEmitsAll <=> RP!EndEmitsAll
  /\ R!WaitsForCause <=> RP!WaitsForCause
<1>1. /\ R!Ports = RP!Ports /\ R!Index = RP!Index
      /\ R!Value = RP!Value /\ R!Tick = RP!Tick
      /\ R!Idle <=> RP!Idle
      /\ \A S : R!First(S) = RP!First(S)
  BY Zenon DEF R!Ports, RP!Ports, R!Index, RP!Index, R!Value, RP!Value, R!Tick, RP!Tick, R!Idle, RP!Idle,
     R!First, RP!First
<1>2. /\ \A t : R!BarValues(t) = RP!BarValues(t)
      /\ \A t : R!BarStale(t) = RP!BarStale(t)
  BY Zenon DEF R!BarValues, RP!BarValues, R!BarStale, RP!BarStale
<1>3. \A t : R!HasBar(t) <=> RP!HasBar(t)
  BY <1>2, Zenon DEF R!HasBar, RP!HasBar
<1>4. R!BarsRight <=> RP!BarsRight
  BY <1>1, <1>2, <1>3 DEF R!BarsRight, RP!BarsRight
<1>5. R!EndEmitsAll <=> RP!EndEmitsAll
  BY <1>1, <1>3, Zenon DEF R!EndEmitsAll, RP!EndEmitsAll
<1>6. R!WaitsForCause <=> RP!WaitsForCause
  BY <1>1, Zenon DEF R!WaitsForCause, RP!WaitsForCause
<1> QED BY <1>4, <1>5, <1>6

LEMMA EveryMeans ==
  /\ E!BarsRight <=> EP!BarsRight
  /\ E!EndEmitsAll <=> EP!EndEmitsAll
  /\ E!WaitsForCause <=> EP!WaitsForCause
<1>1. /\ E!Ports = EP!Ports /\ E!Index = EP!Index
      /\ E!Value = EP!Value /\ E!Tick = EP!Tick
      /\ E!Idle <=> EP!Idle
      /\ \A S : E!First(S) = EP!First(S)
  BY Zenon DEF E!Ports, EP!Ports, E!Index, EP!Index, E!Value, EP!Value, E!Tick, EP!Tick, E!Idle, EP!Idle,
     E!First, EP!First
<1>2. /\ \A t : E!BarValues(t) = EP!BarValues(t)
      /\ \A t : E!BarStale(t) = EP!BarStale(t)
  BY Zenon DEF E!BarValues, EP!BarValues, E!BarStale, EP!BarStale
<1>3. \A t : E!HasBar(t) <=> EP!HasBar(t)
  BY <1>2, Zenon DEF E!HasBar, EP!HasBar
<1>4. E!BarsRight <=> EP!BarsRight
  BY <1>1, <1>2, <1>3 DEF E!BarsRight, EP!BarsRight
<1>5. E!EndEmitsAll <=> EP!EndEmitsAll
  BY <1>1, <1>3, Zenon DEF E!EndEmitsAll, EP!EndEmitsAll
<1>6. E!WaitsForCause <=> EP!WaitsForCause
  BY <1>1, Zenon DEF E!WaitsForCause, EP!WaitsForCause
<1> QED BY <1>4, <1>5, <1>6

-----------------------------------------------------------------------------
(* The invariant is inductive.                                             *)

LEMMA InstanceFacts ==
  /\ CP!ColumnAssumption /\ AP!ColumnAssumption
  /\ CP!NAssumption /\ CP!IndexAssumption /\ CP!GateAssumption /\ CP!BufferAssumption
  /\ AP!NAssumption /\ AP!IndexAssumption /\ AP!GateAssumption /\ AP!BufferAssumption
BY JoinAssumptions, NAssumption, IndexAssumption, BufferAssumption
   DEF C!ColumnAssumption, A!ColumnAssumption, CP!ColumnAssumption, AP!ColumnAssumption,
       C!Ports, A!Ports, CP!Ports, AP!Ports, Index, CP!Index, AP!Index

LEMMA InitJoin ==
  ASSUME Init
  PROVE  JoinInv
<1>1. node \in Nodes
  BY DEF Init, Nodes, Combine, Resample
<1>2. ASSUME node \in Combine PROVE C!Init /\ A!Init
  BY <1>2 DEF Init, Combine, Resample, C!Init, A!Init, C!SInit, A!SInit, C!BufferInit, A!BufferInit,
     C!Ports, A!Ports
<1>3. ASSUME node \in Combine PROVE CP!IInv /\ AP!IInv
  BY <1>2, <1>3, InstanceFacts, AnySteps, AllSteps, CP!InitInv, AP!InitInv
<1>4. ASSUME node \in Combine PROVE CP!Low /\ AP!Low
  BY <1>2, <1>4, InstanceFacts, AnySteps, AllSteps, CP!InitLow, AP!InitLow
<1> QED BY <1>1, <1>3, <1>4 DEF JoinInv, Combine

LEMMA JoinSteps ==
  ASSUME [Next]_allVars
  PROVE  /\ UNCHANGED node
         /\ node = "any" => [CP!Next]_(CP!vars)
         /\ node = "all" => [AP!Next]_(AP!vars)
<1>1. CASE Next
  BY <1>1, AnySteps, AllSteps DEF Next
<1>2. CASE UNCHANGED allVars
  BY <1>2 DEF allVars, combineOwn, streamVars, bufferVars, callVars, CP!vars, AP!vars,
     CP!streamVars, AP!streamVars, CP!bufferVars, AP!bufferVars, CP!callVars, AP!callVars, CP!columnVars, AP!columnVars
<1> QED BY <1>1, <1>2

LEMMA NextJoin ==
  ASSUME JoinInv, [Next]_allVars
  PROVE  JoinInv'
<1>1. /\ UNCHANGED node
      /\ node = "any" => CP!IInv' /\ CP!Low'
      /\ node = "all" => AP!IInv' /\ AP!Low'
  BY JoinSteps, InstanceFacts, CP!NextInv, AP!NextInv, CP!NextLow, AP!NextLow DEF JoinInv
<1> QED BY <1>1 DEF JoinInv

\* A resample keeps ResampleClock's invariant.
ResampleInv ==
  /\ node = "bars" => RP!IInv
  /\ node = "every bar" => EP!IInv

LEMMA ResampleFacts == RP!ClockAssumption /\ EP!ClockAssumption
BY ClockAssumptions, BarsSteps, EverySteps

LEMMA InitResample ==
  ASSUME Init
  PROVE  ResampleInv
<1>1. ASSUME node \in Resample PROVE R!Init /\ E!Init
  <2>1. R!Init
    BY <1>1 DEF Init, Combine, Resample
  <2>2. R!Ports = E!Ports /\ R!None = E!None
    BY Zenon DEF R!Ports, E!Ports, R!None, E!None, R!Value, E!Value, R!Tick, E!Tick
  <2>3. R!Init => E!Init
    BY <2>2, Zenon DEF R!Init, E!Init
  <2> QED BY <2>1, <2>3
<1>2. ASSUME node \in Resample PROVE RP!IInv /\ EP!IInv
  BY <1>1, <1>2, ResampleFacts, BarsSteps, EverySteps, RP!InitInv, EP!InitInv
<1> QED BY <1>2 DEF ResampleInv, Resample

LEMMA ResampleSteps ==
  ASSUME [Next]_allVars
  PROVE  /\ UNCHANGED node
         /\ node = "bars" => [RP!Next]_(RP!vars)
         /\ node = "every bar" => [EP!Next]_(EP!vars)
<1>1. CASE Next
  BY <1>1, BarsSteps, EverySteps DEF Next
<1>2. CASE UNCHANGED allVars
  BY <1>2 DEF allVars, clockOwn, mergeOwn, streamVars, callVars, RP!vars, EP!vars,
     RP!streamVars, EP!streamVars, RP!barVars, EP!barVars
<1> QED BY <1>1, <1>2

LEMMA NextResample ==
  ASSUME ResampleInv, [Next]_allVars
  PROVE  ResampleInv'
<1>1. /\ UNCHANGED node
      /\ node = "bars" => RP!IInv'
      /\ node = "every bar" => EP!IInv'
  BY ResampleSteps, RP!NextInv, EP!NextInv DEF ResampleInv
<1> QED BY <1>1 DEF ResampleInv

LEMMA ResampleInductive == Spec => []ResampleInv
<1>1. Init => ResampleInv
  BY InitResample
<1>2. ResampleInv /\ [Next]_allVars => ResampleInv'
  BY NextResample
<1> QED BY <1>1, <1>2, PTL DEF Spec

LEMMA JoinInductive == Spec => []JoinInv
<1>1. Init => JoinInv
  BY InitJoin
<1>2. JoinInv /\ [Next]_allVars => JoinInv'
  BY NextJoin
<1> QED BY <1>1, <1>2, PTL DEF Spec

-----------------------------------------------------------------------------
(* Theorems.                                                               *)

\* All rows of a join have the same columns, with either kind of emit, though
\* a port learns its columns from its first event.
THEOREM JoinsOneLayout == Spec => []RowsOneLayout
<1>1. ASSUME JoinInv PROVE RowsOneLayout
  <2>1. CASE node = "any"
    BY <1>1, <2>1, InstanceFacts, CP!InvLayout, AnyMeans DEF JoinInv, RowsOneLayout
  <2>2. CASE node = "all"
    <3>1. A!RowsOneLayout
      BY <1>1, <2>2, InstanceFacts, AP!InvLayout, AllMeans DEF JoinInv
    <3>2. C!Ports = A!Ports /\ C!Cardinality(layouts) = A!Cardinality(layouts)
      BY Zenon DEF C!Ports, A!Ports, C!Cardinality, A!Cardinality
    <3> QED BY <3>1, <3>2 DEF RowsOneLayout, C!RowsOneLayout, A!RowsOneLayout
  <2> QED BY <1>1, <2>1, <2>2 DEF RowsOneLayout, Combine
<1>2. JoinInv => RowsOneLayout
  BY <1>1
<1> QED BY <1>2, JoinInductive, PTL

\* A join's row leaves as soon as no event can come at its index, its last row
\* goes out before it flushes the node below, once, and a session that was
\* saved between two calls loads.
THEOREM JoinsInTime ==
  Spec => [](/\ node = "any" => C!RowsPrompt /\ C!FlushEmitsAll /\ C!SavedStateLoads
             /\ node = "all" => A!RowsPrompt /\ A!FlushEmitsAll /\ A!SavedStateLoads)
<1> DEFINE Kept ==
      /\ node = "any" => C!RowsPrompt /\ C!FlushEmitsAll /\ C!SavedStateLoads
      /\ node = "all" => A!RowsPrompt /\ A!FlushEmitsAll /\ A!SavedStateLoads
<1>1. ASSUME JoinInv PROVE Kept
  <2>1. ASSUME node = "any" PROVE C!RowsPrompt /\ C!FlushEmitsAll /\ C!SavedStateLoads
    BY <1>1, <2>1, InstanceFacts, CP!InvPrompt, CP!InvFlush, CP!InvLoads, AnyMeans DEF JoinInv
  <2>2. ASSUME node = "all" PROVE A!RowsPrompt /\ A!FlushEmitsAll /\ A!SavedStateLoads
    BY <1>1, <2>2, InstanceFacts, AP!InvPrompt, AP!InvFlush, AP!InvLoads, AllMeans DEF JoinInv
  <2> QED BY <2>1, <2>2
<1>2. JoinInv => Kept
  BY <1>1
<1> HIDE DEF Kept
<1>3. Spec => []Kept
  BY <1>2, JoinInductive, PTL
<1> QED BY <1>3 DEF Kept

\* In every run, live or batch, a join's rows are those of one alignment of the
\* events, each once, in order, and not before it is final; none goes below a
\* watermark that was sent down.
THEOREM JoinsAlign ==
  Spec => [][/\ node = "any" => [C!SNext]_streamVars
             /\ node = "all" => [A!SNext]_streamVars
             /\ node \in Combine => WatermarkKept]_allVars
<1>1. ASSUME JoinInv, [Next]_allVars
      PROVE  /\ node = "any" => [C!SNext]_streamVars
             /\ node = "all" => [A!SNext]_streamVars
  BY <1>1, JoinSteps, InstanceFacts, CP!StepRefines, AP!StepRefines, AnyMeans, AllMeans
     DEF JoinInv, streamVars, CP!streamVars, AP!streamVars
<1>2. ASSUME JoinInv, [Next]_allVars PROVE node \in Combine => WatermarkKept
  <2>1. node \in Combine => out' = out \/ (Len(out') > Len(out) => last_forwarded <= out'[Len(out')].index)
    BY <1>2, JoinSteps, InstanceFacts, CP!NextLow, AP!NextLow
       DEF JoinInv, Combine, CP!RowsAbove, AP!RowsAbove, CP!vars, AP!vars, CP!streamVars, AP!streamVars
  <2>2. node \in Combine => Len(out) \in Nat
    <3>1. node = "any" => out \in Seq(CP!Row)
      BY <1>2 DEF JoinInv, CP!IInv, CP!TypeInv, CP!TypeOK
    <3>2. node = "all" => out \in Seq(AP!Row)
      BY <1>2 DEF JoinInv, AP!IInv, AP!TypeInv, AP!TypeOK
    <3> QED BY <3>1, <3>2 DEF Combine
  <2>3. node \in Combine => node \notin Resample
    BY DEF Combine, Resample
  <2>4. out' = out /\ Len(out) \in Nat => ~ (Len(out') > Len(out))
    OBVIOUS
  <2> QED BY <2>1, <2>2, <2>3, <2>4 DEF WatermarkKept
<1> QED BY <1>1, <1>2, JoinInductive, PTL DEF Spec

\* The bars of a clock resample are those of the ticks and values alone, each
\* once and in order, whichever port is ahead and however far: none comes early.
THEOREM BarsFromEvents == Spec => []BarsRight
<1>1. ASSUME ResampleInv PROVE BarsRight
  BY <1>1, RP!InvBars, EP!InvBars, BarsMean, EveryMeans DEF ResampleInv, BarsRight
<1>2. ResampleInv => BarsRight
  BY <1>1
<1> QED BY <1>2, ResampleInductive, PTL

\* Every tick has its bar at the end, and no bar goes below a watermark that
\* the resample sent down.
THEOREM BarsAllOut ==
  Spec => /\ [](/\ node = "bars" => R!EndEmitsAll
                /\ node = "every bar" => E!EndEmitsAll)
          /\ [][/\ node \in Resample => WatermarkKept]_allVars
<1> DEFINE AllOut == /\ node = "bars" => R!EndEmitsAll
                     /\ node = "every bar" => E!EndEmitsAll
           Promised == /\ node \in Resample => WatermarkKept
<1>1. ASSUME ResampleInv PROVE AllOut
  BY <1>1, RP!InvEnd, EP!InvEnd, BarsMean, EveryMeans DEF ResampleInv
<1>2. ResampleInv => AllOut
  BY <1>1
<1>3. ASSUME ResampleInv, [Next]_allVars PROVE Promised
  BY <1>3, ResampleSteps, RP!StepPromised, EP!StepPromised DEF ResampleInv, Resample, WatermarkKept
<1>4. ResampleInv /\ [Next]_allVars => Promised
  BY <1>3
<1> HIDE DEF AllOut, Promised
<1>5. Spec => []AllOut /\ [][Promised]_allVars
  BY <1>2, <1>4, ResampleInductive, PTL DEF Spec
<1> QED BY <1>5 DEF AllOut, Promised

\* What a load requires of a saved node holds between the calls of every
\* session: a load never refuses what a save wrote.
THEOREM SavedNodesLoad == Spec => []SavedStateLoads
<1>1. ASSUME JoinInv, PairInv PROVE SavedStateLoads
  <2>1. ASSUME node = "any" PROVE C!SavedStateLoads
    BY <1>1, <2>1, InstanceFacts, CP!InvLoads, AnyMeans DEF JoinInv
  <2>2. ASSUME node = "all" PROVE C!SavedStateLoads
    <3>1. A!SavedStateLoads
      BY <1>1, <2>2, InstanceFacts, AP!InvLoads, AllMeans DEF JoinInv
    <3>2. C!Ports = A!Ports /\ C!Index = A!Index /\ \A w : C!IsLow(w) <=> A!IsLow(w)
      BY Zenon DEF C!Ports, A!Ports, C!Index, A!Index, C!IsLow, A!IsLow
    <3> QED BY <3>1, <3>2, Zenon DEF C!SavedStateLoads, A!SavedStateLoads
  <2>3. ASSUME node = "forward" PROVE P!SavedStateLoads
    BY <1>1, <2>3, ForwardRight DEF PairInv
  <2>4. ASSUME node = "lead" PROVE L!SavedStateLoads
    BY <1>1, <2>4, LeadWaits DEF PairInv
  <2> QED BY <2>1, <2>2, <2>3, <2>4 DEF SavedStateLoads, Combine
<1>2. JoinInv /\ PairInv => SavedStateLoads
  BY <1>1
<1> QED BY <1>2, JoinInductive, PairInductive, PTL

\* A forward join gives each X event the target that all events together give
\* it, in the order of X, and all X events have their row at the end; no row
\* goes below a watermark that was sent down.
THEOREM ForwardRowsRight ==
  Spec => /\ [](node = "forward" => P!RowsRight /\ P!EndEmitsAll)
          /\ [][node = "forward" => WatermarkKept]_allVars
<1> DEFINE Right == node = "forward" => P!RowsRight /\ P!EndEmitsAll
           Promised == node = "forward" => WatermarkKept
<1>1. PairInv => Right
  BY ForwardRight DEF PairInv
<1>2. ASSUME PairInv, [Next]_allVars PROVE Promised
  <2>1. CASE P!Next
    BY <1>2, <2>1, ForwardPromise DEF PairInv, WatermarkKept, Resample
  <2>2. CASE UNCHANGED allVars
    <3>1. out' = out
      BY <2>2 DEF allVars, streamVars
    <3>2. node = "forward" => Len(out) \in Nat
      BY <1>2 DEF PairInv, ForwardInv, ForwardTypes
    <3> QED BY <3>1, <3>2 DEF WatermarkKept
  <2> QED BY <1>2, <2>1, <2>2, PairSteps
<1>3. PairInv /\ [Next]_allVars => Promised
  BY <1>2
<1> HIDE DEF Right, Promised
<1>4. Spec => []Right /\ [][Promised]_allVars
  BY <1>1, <1>3, PairInductive, PTL DEF Spec
<1> QED BY <1>4 DEF Right, Promised

\* Each row of a lead has the target that all events together give it, and a
\* row without one leaves only when both ports have ended; an error is raised
\* only for ports that differ; all X events have their row at the end; no row
\* goes below a watermark that was sent down.
THEOREM LeadTargetsRight ==
  Spec => /\ [](node = "lead" => L!RowsRight /\ L!ErrorRight /\ L!EndEmitsAll)
          /\ [][node = "lead" => WatermarkKept]_allVars
<1> DEFINE Right == node = "lead" => L!RowsRight /\ L!ErrorRight /\ L!EndEmitsAll
           Promised == node = "lead" => WatermarkKept
<1>1. PairInv => Right
  BY LeadRowsRight, LeadEnds DEF PairInv
<1>2. ASSUME PairInv, [Next]_allVars PROVE Promised
  <2>1. CASE L!Next
    BY <1>2, <2>1, LeadPromise DEF PairInv, WatermarkKept, Resample
  <2>2. CASE UNCHANGED allVars
    <3>1. out' = out
      BY <2>2 DEF allVars, streamVars
    <3>2. node = "lead" => Len(out) \in Nat
      BY <1>2, MadeIsNat DEF PairInv, LeadInv
    <3> QED BY <3>1, <3>2 DEF WatermarkKept
  <2> QED BY <1>2, <2>1, <2>2, PairSteps
<1>3. PairInv /\ [Next]_allVars => Promised
  BY <1>2
<1> HIDE DEF Right, Promised
<1>4. Spec => []Right /\ [][Promised]_allVars
  BY <1>1, <1>3, PairInductive, PTL DEF Spec
<1> QED BY <1>4 DEF Right, Promised

\* Between two calls a row of a forward join whose y is delayed, and a pair of
\* a lead, wait only for an event that may come.
THEOREM PairsWaitForCause ==
  ASSUME DelayedY
  PROVE  Spec => [](/\ node = "forward" => P!WaitsForCause
                    /\ node = "lead" => L!WaitsForCause)
<1>1. PairInv => (node = "forward" => P!WaitsForCause) /\ (node = "lead" => L!WaitsForCause)
  BY ForwardWaits, LeadWaits DEF PairInv
<1> QED BY <1>1, PairInductive, PTL

\* A drain of the outputs settles every index that all outputs have passed: a
\* row waits only for an output that may still emit at its index.
THEOREM DrainsSettle == Spec => SettledPrompt
<1> DEFINE Settled == node = "join" => J!Settles
<1>1. ASSUME PairInv, [Next]_allVars PROVE [Settled]_allVars
  BY <1>1, PairSteps, TakeSettles DEF PairInv
<1>2. PairInv /\ [Next]_allVars => [Settled]_allVars
  BY <1>1
<1> HIDE DEF Settled
<1>3. Spec => [][Settled]_allVars
  BY <1>2, PairInductive, PTL DEF Spec
<1> QED BY <1>3 DEF Settled, SettledPrompt

\* The drains of a run, put after each other, are the aligned rows of the whole
\* run, each once, in order and not before it is final, whenever they come, and
\* all of them once the input has ended.
THEOREM DrainsAlign ==
  Spec => /\ [](node = "join" => J!EndComplete)
          /\ [][node = "join" => [J!SNext]_streamVars /\ WatermarkKept]_allVars
<1> DEFINE Complete == node = "join" => J!EndComplete
           Aligned == node = "join" => [J!SNext]_streamVars /\ WatermarkKept
<1>1. PairInv => Complete
  BY GatherEnd DEF PairInv
<1>2. ASSUME PairInv, [Next]_allVars PROVE Aligned
  <2> SUFFICES ASSUME node = "join" PROVE [J!SNext]_streamVars /\ WatermarkKept
    OBVIOUS
  <2>1. [J!SNext]_streamVars /\ GatherInv'
    <3>1. CASE J!Next
      BY <1>2, <3>1, NextGather DEF PairInv
    <3>2. CASE UNCHANGED allVars
      BY <1>2, <3>2, StutterGather DEF PairInv, allVars
    <3> QED BY <1>2, <3>1, <3>2, PairSteps
  <2>2. Len(out) \in Nat /\ out' \in Seq(J!Row)
    BY <1>2, <2>1 DEF PairInv, GatherInv, GatherTypes
  <2>3. Len(out') > Len(out) => out'[Len(out')] \in J!Row
    BY <2>2
  <2>4. \A r \in J!Row : kMin <= r.index
    BY GatherFacts DEF J!Row
  <2>5. WatermarkKept
    BY <1>2, <2>3, <2>4 DEF PairInv, WatermarkKept, Resample
  <2> QED BY <2>1, <2>5
<1>3. PairInv /\ [Next]_allVars => Aligned
  BY <1>2
<1> HIDE DEF Complete, Aligned
<1>4. Spec => []Complete /\ [][Aligned]_allVars
  BY <1>1, <1>3, PairInductive, PTL DEF Spec
<1> QED BY <1>4 DEF Complete, Aligned

\* A filter's rows are those of the alignment whose mask passes, each once, in
\* order and not before it is final; what is settled is out between two calls
\* and all at the end, the nodes below learn how far both ports have come
\* though every row may be dropped, and no row goes below what they were told.
THEOREM FilterRowsRight ==
  Spec => /\ [](node = "filter" => F!RowsPrompt /\ F!TimeAdvances /\ F!FlushEmitsAll)
          /\ [][node = "filter" => [F!SNext]_streamVars /\ WatermarkKept]_allVars
<1> DEFINE Timely == node = "filter" => F!RowsPrompt /\ F!TimeAdvances /\ F!FlushEmitsAll
           Aligned == node = "filter" => [F!SNext]_streamVars /\ WatermarkKept
<1>1. PairInv => Timely
  BY FilterInTime DEF PairInv
<1>2. ASSUME PairInv, [Next]_allVars PROVE Aligned
  BY <1>2, PairSteps, FilterNext DEF PairInv, WatermarkKept, Resample
<1>3. PairInv /\ [Next]_allVars => Aligned
  BY <1>2
<1> HIDE DEF Timely, Aligned
<1>4. Spec => []Timely /\ [][Aligned]_allVars
  BY <1>1, <1>3, PairInductive, PTL DEF Spec
<1> QED BY <1>4 DEF Timely, Aligned

\* Whatever the node: in every run, live or batch, its rows are those of one
\* alignment of the events, or the targets and bars that all events together
\* give, and no row goes below a watermark that was sent down.
THEOREM NodesAlign == Spec => RowsAlign
<1> DEFINE Starts == node \notin Resample => SInit
           Matches == node = "forward" => P!RowsRight
           Leads == node = "lead" => L!RowsRight /\ L!ErrorRight
           Aligns == /\ node = "any" => [C!SNext]_streamVars
                     /\ node = "all" => [A!SNext]_streamVars
                     /\ node = "filter" => [F!SNext]_streamVars
                     /\ node = "join" => [J!SNext]_streamVars
           JoinStep == /\ node = "any" => [C!SNext]_streamVars
                       /\ node = "all" => [A!SNext]_streamVars
                       /\ node \in Combine => WatermarkKept
           FilterStep == node = "filter" => [F!SNext]_streamVars /\ WatermarkKept
           GatherStep == node = "join" => [J!SNext]_streamVars /\ WatermarkKept
           ForwardStep == node = "forward" => WatermarkKept
           LeadStep == node = "lead" => WatermarkKept
           BarStep == node \in Resample => WatermarkKept
<1>1. Init => Starts
  BY DEF Init, Combine, Resample, SInit, Ports, C!Init, C!SInit, C!Ports, F!Init, F!SInit, F!Ports,
         J!Init, J!SInit, J!Ports, P!Init, P!PortsInit, P!SInit, P!Ports, L!Init, L!PortsInit, L!SInit, L!Ports
<1>2. ASSUME JoinStep, FilterStep, GatherStep PROVE [Aligns]_streamVars
  BY <1>2
<1>3. ASSUME JoinInv, JoinStep, FilterStep, GatherStep, ForwardStep, LeadStep, BarStep
      PROVE  WatermarkKept
  BY <1>3 DEF JoinInv, Nodes, Combine, Resample
<1>4. JoinStep /\ FilterStep /\ GatherStep => [Aligns]_streamVars
  BY <1>2
<1>5. JoinInv /\ JoinStep /\ FilterStep /\ GatherStep /\ ForwardStep /\ LeadStep /\ BarStep => WatermarkKept
  BY <1>3
<1>6. UNCHANGED allVars => UNCHANGED streamVars
  BY DEF allVars
<1>7. Spec => []Matches /\ [][ForwardStep]_allVars
  BY ForwardRowsRight, PTL
<1>8. Spec => []Leads /\ [][LeadStep]_allVars
  BY LeadTargetsRight, PTL
<1>9. Spec => [][JoinStep]_allVars /\ [][FilterStep]_allVars /\ [][GatherStep]_allVars /\ [][BarStep]_allVars
  BY JoinsAlign, FilterRowsRight, DrainsAlign, BarsAllOut, PTL
<1> HIDE DEF Starts, Matches, Leads, Aligns, JoinStep, FilterStep, GatherStep, ForwardStep, LeadStep, BarStep
<1>10. Spec => Starts
  BY <1>1, PTL DEF Spec
<1>11. Spec => [][Aligns]_streamVars
  BY <1>4, <1>6, <1>9, PTL
<1>12. Spec => [][WatermarkKept]_allVars
  BY <1>5, <1>7, <1>8, <1>9, JoinInductive, PTL
<1>13. Spec => Starts /\ []Matches /\ []Leads /\ [][Aligns]_streamVars /\ [][WatermarkKept]_allVars
  BY <1>7, <1>8, <1>10, <1>11, <1>12, PTL
<1> QED BY <1>13 DEF Starts, Matches, Leads, Aligns, RowsAlign

\* Whatever the node: once its inputs have ended, every row and every bar is
\* out, none twice, though the last ones waited for the end.
THEOREM NodesEmitAll == Spec => []EndEmitsAll
<1>1. ASSUME JoinInv, ResampleInv, PairInv PROVE EndEmitsAll
  <2>1. /\ node = "any" => C!FlushEmitsAll
        /\ node = "all" => A!FlushEmitsAll
    BY <1>1, InstanceFacts, CP!InvFlush, AP!InvFlush, AnyMeans, AllMeans DEF JoinInv
  <2>2. /\ node = "filter" => F!FlushEmitsAll
        /\ node = "join" => J!EndComplete
    BY <1>1, FilterInTime, GatherEnd DEF PairInv
  <2>3. /\ node = "bars" => R!EndEmitsAll
        /\ node = "every bar" => E!EndEmitsAll
    BY <1>1, RP!InvEnd, EP!InvEnd, BarsMean, EveryMeans DEF ResampleInv
  <2>4. /\ node = "forward" => P!EndEmitsAll
        /\ node = "lead" => L!EndEmitsAll
    BY <1>1, ForwardRight, LeadEnds DEF PairInv
  <2> QED BY <2>1, <2>2, <2>3, <2>4 DEF EndEmitsAll
<1>2. JoinInv /\ ResampleInv /\ PairInv => EndEmitsAll
  BY <1>1
<1> QED BY <1>2, JoinInductive, ResampleInductive, PairInductive, PTL

\* Whatever the node: what no event can change any more is out between two
\* calls of a session.  A forward join waits only for a cause if its y is
\* delayed, as the run has it.  The floor of a port that was not called yet is
\* the least index, so a value of a resample at that index may wait for a tick
\* there although the floor is no lower: the values and ticks are above it.
THEOREM NodesInTime ==
  ASSUME DelayedY, kMin \notin TickIndexes
  PROVE  Spec => []RowsPrompt
<1>1. ASSUME JoinInv, ResampleInv, PairInv PROVE RowsPrompt
  <2>1. /\ node = "any" => C!RowsPrompt
        /\ node = "all" => A!RowsPrompt
    BY <1>1, InstanceFacts, CP!InvPrompt, AP!InvPrompt, AnyMeans, AllMeans DEF JoinInv
  <2>2. node = "filter" => F!RowsPrompt /\ F!TimeAdvances
    BY <1>1, FilterInTime DEF PairInv
  <2>3. node = "bars" => R!WaitsForCause
    BY <1>1, RP!InvWaits, BarsMean DEF ResampleInv
  <2>4. ASSUME node = "every bar" PROVE R!WaitsForCause
    <3>1. E!WaitsForCause
      BY <1>1, <2>4, EP!InvWaits, EveryMeans DEF ResampleInv
    <3>2. /\ R!Value = E!Value /\ R!Tick = E!Tick
          /\ R!Idle <=> E!Idle
          /\ \A S : R!First(S) = E!First(S)
      BY Zenon DEF R!Value, E!Value, R!Tick, E!Tick, R!Idle, E!Idle, R!First, E!First
    <3> QED BY <3>1, <3>2 DEF R!WaitsForCause, E!WaitsForCause
  <2>5. /\ node = "forward" => P!WaitsForCause
        /\ node = "lead" => L!WaitsForCause
    BY <1>1, ForwardWaits, LeadWaits DEF PairInv
  <2> QED BY <2>1, <2>2, <2>3, <2>4, <2>5 DEF RowsPrompt, Resample
<1>2. JoinInv /\ ResampleInv /\ PairInv => RowsPrompt
  BY <1>1
<1> QED BY <1>2, JoinInductive, ResampleInductive, PairInductive, PTL
=============================================================================
