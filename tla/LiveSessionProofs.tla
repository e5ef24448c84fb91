------------------------- MODULE LiveSessionProofs -------------------------
(***************************************************************************)
(* Proofs about LiveSession and the reorder buffer it extends.             *)
(*                                                                         *)
(* First about OrderedMerge, for every number of ports, every range of     *)
(* indexes, every bound and every relation of the ports to the merge: what *)
(* its buffer holds, and that it loses nothing, that its saved states      *)
(* load, that it implements the merged stream, that no event waits in vain *)
(* in it, and that it flushes after its last event.  Its variables map to  *)
(* those of MergedStream of the same name: a handler's step that passes an *)
(* event on is a delivery of the first waiting event, which is final, a    *)
(* call of a port is an offer, a promise or an end, and the other steps    *)
(* stutter.                                                                *)
(*                                                                         *)
(* Then about a session, for every bar width and every fill limit too: the *)
(* rows of the Resample have no gap and no bar twice, whatever advances    *)
(* the session rejected in between; an advance that returned has closed    *)
(* the bars before its time; and the rows of a flushed session are those   *)
(* of a batch run.                                                         *)
(***************************************************************************)
EXTENDS LiveSession, FiniteSetTheorems, SequenceTheorems, WellFoundedInduction, TLAPS

LEMMA LargerType ==
  ASSUME NEW a \in Index, NEW b \in Index
  PROVE  Larger(a, b) \in Index /\ a <= Larger(a, b) /\ b <= Larger(a, b)
BY IndexAssumption DEF Larger, Index

\* What an entry of the heap says of its event.
LEMMA EntryEvent ==
  ASSUME NEW e \in Entry
  PROVE  /\ EventOf(e) \in Event
         /\ EventOf(e).index = e.index
         /\ EventOf(e).port = e.port
         /\ EventOf(e).nth = e.nth
BY DEF Entry, EventOf, Event

LEMMA EntryInts ==
  ASSUME NEW e \in Entry
  PROVE  e.index \in Int /\ e.port \in Int /\ e.nth \in Int /\ e.seq \in Int
BY IndexAssumption, NAssumption DEF Entry, Index, Ports

-----------------------------------------------------------------------------
(* Types.  Counting events needs finite sets.                              *)

Finite == IsFiniteSet(taken) /\ IsFiniteSet(pending)

TypeInv == TypeOK /\ Finite

LEMMA SentType ==
  ASSUME Finite, NEW p
  PROVE  Sent(p) \in Nat
<1>1. {e \in taken : e.port = p} \subseteq taken
  OBVIOUS
<1>2. IsFiniteSet({e \in taken : e.port = p})
  BY <1>1, FS_Subset DEF Finite
<1> QED BY <1>2, FS_CardinalityType DEF Sent

\* A port's new event is the first with its number: one more event was sent.
LEMMA SentNext ==
  ASSUME Finite, NEW e, NEW p, e.port = p, e \notin taken
  PROVE  /\ Cardinality({d \in taken \cup {e} : d.port = p}) = Sent(p) + 1
         /\ \A q : q # p => {d \in taken \cup {e} : d.port = q} = {d \in taken : d.port = q}
<1> DEFINE S == {d \in taken : d.port = p}
<1>1. {d \in taken \cup {e} : d.port = p} = S \cup {e}
  OBVIOUS
<1>2. IsFiniteSet(S)
  BY FS_Subset DEF Finite
<1>3. e \notin S
  OBVIOUS
<1>4. Cardinality(S \cup {e}) = Cardinality(S) + 1
  BY <1>2, <1>3, FS_AddElement
<1> QED BY <1>1, <1>4 DEF Sent

LEMMA InitType == Init => TypeInv
BY FS_EmptySet, IndexAssumption, OMAssumption
   DEF Init, SInit, TypeInv, TypeOK, Finite, Index, Unset

LEMMA NewEntryType ==
  ASSUME TypeInv, NEW p \in Ports, NEW t \in Indexes, NEW w \in Widths
  PROVE  NewEntry(p, t, w) \in Entry /\ EventOf(NewEntry(p, t, w)) \in Event
<1>1. Sent(p) \in Nat
  BY SentType DEF TypeInv
<1>2. t \in Index /\ w \in Nat
  BY OMAssumption
<1>3. NewEntry(p, t, w) \in Entry
  BY <1>1, <1>2 DEF NewEntry, Entry, TypeInv, TypeOK
<1> QED BY <1>3, EntryEvent

LEMMA RenumberedType ==
  ASSUME TypeInv, NEW e \in pending
  PROVE  Renumbered(e) \in Entry
<1>1. {d \in pending : HeapBefore(d, e)} \subseteq pending
  OBVIOUS
<1>2. Cardinality({d \in pending : HeapBefore(d, e)}) \in Nat
  BY <1>1, FS_Subset, FS_CardinalityType DEF TypeInv, Finite
<1>3. e \in Entry
  BY DEF TypeInv, TypeOK
<1> QED BY <1>2, <1>3 DEF Renumbered, Entry

LEMMA RenumberedFinite ==
  ASSUME IsFiniteSet(pending)
  PROVE  IsFiniteSet({Renumbered(e) : e \in pending})
<1> DEFINE T == {Renumbered(e) : e \in pending}
           f == [e \in pending |-> Renumbered(e)]
<1>1. f \in [pending -> T]
  OBVIOUS
<1>2. \A y \in T : \E e \in pending : f[e] = y
  OBVIOUS
<1>3. f \in Surjection(pending, T)
  BY <1>1, <1>2 DEF Surjection
<1> QED BY <1>3, FS_Surjection

\* What an arriving event leaves typed.
LEMMA ArriveType ==
  ASSUME TypeInv, NEW p \in Ports, NEW t \in Indexes, Arrive(p, t)
  PROVE  /\ floor' \in [Ports -> Index] /\ front' \in [Ports -> Index] /\ gfront' \in Index
         /\ UNCHANGED <<out, ended, flushed, merge_order, last_forwarded, flushes, clock>>
         /\ call = "idle" /\ error = "none"
<1>1. t \in Index
  BY OMAssumption
<1>2. Larger(front[p], t) \in Index /\ Larger(gfront, t) \in Index
  BY <1>1, LargerType DEF TypeInv, TypeOK
<1> QED BY <1>1, <1>2 DEF Arrive, MaySend, MayPromise, Idle, Note, TypeInv, TypeOK

LEMMA PushDirectType ==
  ASSUME TypeInv, NEW p \in Ports, NEW t \in Indexes, NEW w \in Widths, PushDirect(p, t, w)
  PROVE  TypeInv'
<1> DEFINE e == NewEntry(p, t, w)
<1>1. e \in Entry /\ EventOf(e) \in Event
  BY NewEntryType
<1>2. taken' = taken \cup {EventOf(e)} /\ hand' = {e} /\ call' = "push"
      /\ UNCHANGED <<width, pending, next_seq, error>>
  BY DEF PushDirect, Accept
<1>3. Arrive(p, t)
  BY DEF PushDirect
<1>4. IsFiniteSet(taken')
  BY <1>2, FS_AddElement DEF TypeInv, Finite
<1> HIDE DEF e
<1>5. TypeOK'
  BY <1>1, <1>2, <1>3, ArriveType DEF TypeInv, TypeOK
<1> QED BY <1>2, <1>4, <1>5 DEF TypeInv, Finite

LEMMA PushWaitingType ==
  ASSUME TypeInv, NEW p \in Ports, NEW t \in Indexes, NEW w \in Widths, PushWaiting(p, t, w)
  PROVE  TypeInv'
<1> DEFINE e == NewEntry(p, t, w)
<1>1. e \in Entry /\ EventOf(e) \in Event
  BY NewEntryType
<1>2. /\ taken' = taken \cup {EventOf(e)} /\ pending' = pending \cup {e} /\ call' = "push"
      /\ width' = [width EXCEPT ![p] = w] /\ next_seq' = next_seq + 1
      /\ UNCHANGED <<hand, error>>
  BY DEF PushWaiting, Accept
<1>3. Arrive(p, t)
  BY DEF PushWaiting
<1>4. IsFiniteSet(taken') /\ IsFiniteSet(pending')
  BY <1>2, FS_AddElement DEF TypeInv, Finite
<1> HIDE DEF e
<1>5. width' \in [Ports -> Widths \cup {Unset}]
  BY <1>2 DEF TypeInv, TypeOK
<1>6. TypeOK'
  BY <1>1, <1>2, <1>3, <1>5, ArriveType DEF TypeInv, TypeOK
<1> QED BY <1>4, <1>6 DEF TypeInv, Finite

LEMMA PushRefusedType ==
  ASSUME TypeInv, NEW p \in Ports, NEW t \in Indexes, NEW w \in Widths, PushRefused(p, t, w)
  PROVE  TypeInv'
BY ArriveType DEF PushRefused, TypeInv, TypeOK, Finite

LEMMA OnWatermarkType ==
  ASSUME TypeInv, NEW p \in Ports, NEW w \in Index, OnWatermark(p, w)
  PROVE  TypeInv'
<1>1. Larger(front[p], w) \in Index /\ Larger(floor[p], w) \in Index
  BY LargerType DEF TypeInv, TypeOK
<1> QED BY <1>1 DEF OnWatermark, TypeInv, TypeOK, Finite

LEMMA FlushPortType ==
  ASSUME TypeInv, NEW p \in Ports, FlushPort(p)
  PROVE  TypeInv'
<1>1. kMax \in Index
  BY IndexAssumption DEF Index
<1> QED BY <1>1 DEF FlushPort, TypeInv, TypeOK, Finite

LEMMA PassOnType ==
  ASSUME TypeInv, NEW e \in Entry, PassOn(e)
  PROVE  out' \in Seq(Event)
BY EntryEvent DEF PassOn, TypeInv, TypeOK

LEMMA PassHandType ==
  ASSUME TypeInv, PassHand
  PROVE  TypeInv'
<1>1. PICK e \in hand : PassOn(e) /\ hand' = {} /\ UNCHANGED pending
  BY DEF PassHand
<1>2. out' \in Seq(Event)
  BY <1>1, PassOnType DEF TypeInv, TypeOK
<1> QED BY <1>1, <1>2 DEF PassOn, TypeInv, TypeOK, Finite

LEMMA ReleaseTopType ==
  ASSUME TypeInv, ReleaseTop
  PROVE  TypeInv'
<1>1. PICK e \in pending : PassOn(e) /\ pending' = pending \ {e}
  BY DEF ReleaseTop
<1>2. out' \in Seq(Event)
  BY <1>1, PassOnType DEF TypeInv, TypeOK
<1>3. IsFiniteSet(pending')
  BY <1>1, FS_RemoveElement DEF TypeInv, Finite
<1>4. TypeOK'
  BY <1>1, <1>2 DEF ReleaseTop, PassOn, TypeInv, TypeOK
<1> QED BY <1>1, <1>3, <1>4 DEF PassOn, TypeInv, Finite

LEMMA ReturnType ==
  ASSUME TypeInv, Return
  PROVE  /\ last_forwarded' \in Index /\ call' = "idle"
         /\ UNCHANGED <<streamVars, front, merge_order, gfront, width, pending, next_seq, hand,
                        clock>>
BY DEF Return, ForwardWatermark, TypeInv, TypeOK

LEMMA EndType ==
  ASSUME TypeInv, EndPush \/ EndWatermark \/ EndFlush
  PROVE  TypeInv'
<1>1. Return
  BY DEF EndPush, EndWatermark, EndFlush
<1>2. error' \in {"none", "width", "overflow"}
  BY DEF EndPush, EndWatermark, EndFlush, TypeInv, TypeOK
<1>3. flushed' \subseteq Ports /\ flushes' \in Nat
  BY DEF EndPush, EndWatermark, EndFlush, TypeInv, TypeOK
<1> QED BY <1>1, <1>2, <1>3, ReturnType DEF streamVars, TypeInv, TypeOK, Finite

LEMMA MergeToType ==
  ASSUME TypeInv, NEW t \in Index, MergeTo(t)
  PROVE  TypeInv'
<1>1. \A p \in Ports : Larger(floor[p], t) \in Index
  BY LargerType DEF TypeInv, TypeOK
<1>2. floor' \in [Ports -> Index]
  BY <1>1 DEF MergeTo, TypeInv, TypeOK
<1> QED BY <1>2 DEF MergeTo, nodeVars, callVars, TypeInv, TypeOK, Finite

LEMMA ResetType ==
  ASSUME TypeInv, NEW m \in Modes, Reset(m)
  PROVE  TypeInv'
<1>1. kMin \in Index /\ m \in BOOLEAN
  BY IndexAssumption, OMAssumption DEF Index
<1> QED BY <1>1, FS_EmptySet DEF Reset, Restart, Unset, TypeInv, TypeOK, Finite

LEMMA SaveAndLoadType ==
  ASSUME TypeInv, SaveAndLoad
  PROVE  TypeInv'
<1>1. pending' \subseteq Entry
  BY RenumberedType DEF SaveAndLoad
<1>2. IsFiniteSet(pending')
  BY RenumberedFinite DEF SaveAndLoad, TypeInv, Finite
<1>3. next_seq' \in Nat
  BY FS_CardinalityType DEF SaveAndLoad, TypeInv, Finite
<1> QED BY <1>1, <1>2, <1>3 DEF SaveAndLoad, streamVars, callVars, TypeInv, TypeOK, Finite

\* The state keeps its types: the indexes stay in the range of the index, the
\* counters do not fall below 0, an error is one of the two the node raises.
THEOREM TypeCorrect == Spec => []TypeOK
<1>1. Init => TypeInv
  BY InitType
<1>2. TypeInv /\ [Next]_vars => TypeInv'
  <2> SUFFICES ASSUME TypeInv, [Next]_vars PROVE TypeInv'
    OBVIOUS
  <2>1. CASE \E p \in Ports, t \in Indexes, w \in Widths :
               PushDirect(p, t, w) \/ PushWaiting(p, t, w) \/ PushRefused(p, t, w)
    BY <2>1, PushDirectType, PushWaitingType, PushRefusedType
  <2>2. CASE \E p \in Ports, w \in Index : OnWatermark(p, w)
    BY <2>2, OnWatermarkType
  <2>3. CASE \E p \in Ports : FlushPort(p)
    BY <2>3, FlushPortType
  <2>4. CASE Handler
    BY <2>4, PassHandType, ReleaseTopType, EndType DEF Handler
  <2>5. CASE \E t \in Index : MergeTo(t)
    BY <2>5, MergeToType
  <2>6. CASE \E m \in Modes : Reset(m)
    BY <2>6, ResetType
  <2>7. CASE SaveAndLoad
    BY <2>7, SaveAndLoadType
  <2>8. CASE UNCHANGED vars
    BY <2>8 DEF vars, streamVars, nodeVars, callVars, TypeInv, TypeOK, Finite
  <2> QED BY <2>1, <2>2, <2>3, <2>4, <2>5, <2>6, <2>7, <2>8 DEF Next
<1>3. TypeInv => TypeOK
  BY DEF TypeInv
<1> QED BY <1>1, <1>2, <1>3, PTL DEF Spec

-----------------------------------------------------------------------------
(* The inductive invariant.  OutputOrdered is not inductive: that the next *)
(* event comes after the ones passed on follows from what the ports still  *)
(* promise (Passed), from what the node knows of those promises (Known)    *)
(* and from the numbers that order the events of one port (Numbered).      *)

\* Port q sends nothing below f any more, so nothing that belongs before o.
Passed(o, q, f) == IF q < o.port THEN o.index < f ELSE o.index <= f

\* What the node knows of a port was promised by its producer.
Known ==
  /\ \A q \in Ports \ ended : front[q] <= floor[q]
  /\ merge_order => gfront <= clock /\ \A q \in InOrder : clock <= floor[q]
  /\ \A e \in pending \cup hand : e.index <= floor[e.port]
  /\ \A e \in hand : Ready(e.index, e.port)
  /\ hand # {} => pending = {} /\ call = "push"
  /\ \A a, b \in hand : a = b

\* The events of a port are numbered in the order of their arrival, and the
\* heap's numbers agree.
Numbered ==
  /\ \A e \in taken : e.nth < Sent(e.port)
  /\ \A e \in pending \cup hand : EventOf(e) \in taken
  /\ \A i \in 1 .. Len(out) : out[i] \in taken
  /\ \A e \in pending : e.seq < next_seq
  /\ \A a, b \in pending : a.port = b.port =>
       /\ a.nth < b.nth <=> a.seq < b.seq
       /\ a.nth = b.nth => a = b
       /\ a.nth < b.nth => a.index <= b.index

\* The watermark sent down is below everything still to come.
Low ==
  /\ \A q \in Ports \ ended : last_forwarded <= floor[q]
  /\ \A e \in pending \cup hand : last_forwarded <= e.index

\* What was passed on comes before what the node holds and what may still come.
Ordered ==
  /\ OutputOrdered
  /\ \A i \in 1 .. Len(out) : \A e \in pending \cup hand : Before(out[i], EventOf(e))
  /\ \A i \in 1 .. Len(out) : \A q \in Ports \ ended : Passed(out[i], q, floor[q])

IInv == TypeInv /\ Known /\ Numbered /\ Low /\ Ordered

LEMMA InitInv == Init => IInv
<1> SUFFICES ASSUME Init PROVE IInv
  OBVIOUS
<1>1. TypeInv
  BY InitType
<1>2. /\ taken = {} /\ out = <<>> /\ floor = [p \in Ports |-> kMin] /\ ended = {}
      /\ front = [p \in Ports |-> kMin] /\ gfront = kMin /\ pending = {} /\ hand = {}
      /\ last_forwarded = kMin /\ clock = kMin
  BY DEF Init, SInit
<1>3. Known
  BY <1>2, IndexAssumption, OMAssumption DEF Known
<1>4. Numbered
  BY <1>2 DEF Numbered
<1>5. Low
  BY <1>2, IndexAssumption DEF Low
<1>6. Ordered
  BY <1>2 DEF Ordered, OutputOrdered
<1> QED BY <1>1, <1>3, <1>4, <1>5, <1>6 DEF IInv

\* front(q) never exceeds what the producer of an open port promised.
LEMMA FrontPromised ==
  ASSUME TypeInv, Known, NEW q \in Ports \ ended
  PROVE  Front(q) \in Index /\ Front(q) <= floor[q]
<1>1. front[q] \in Index /\ floor[q] \in Index /\ gfront \in Index /\ clock \in Index
  BY DEF TypeInv, TypeOK
<1> QED BY <1>1, IndexAssumption DEF Known, Front, Larger, Index

\* A ready event is passed, seen from every open port.
LEMMA ReadyPassed ==
  ASSUME TypeInv, Known, NEW e \in pending \cup hand, Ready(e.index, e.port),
         NEW q \in Ports \ ended
  PROVE  Passed(EventOf(e), q, floor[q])
<1>1. e \in Entry
  BY DEF TypeInv, TypeOK
<1>2. e.index \in Int /\ e.port \in Int /\ q \in Int /\ floor[q] \in Int
  BY <1>1, IndexAssumption, NAssumption DEF Entry, Index, Ports, TypeInv, TypeOK
<1>3. CASE q = e.port
  <2>1. e.index <= floor[q]
    BY <1>3 DEF Known
  <2> QED BY <1>1, <1>2, <1>3, <2>1, EntryEvent DEF Passed
<1>4. CASE q # e.port
  <2>1. Front(q) \in Int /\ Front(q) <= floor[q]
    BY FrontPromised, IndexAssumption DEF Index
  <2>2. IF q < e.port THEN e.index < Front(q) ELSE e.index <= Front(q)
    BY <1>4 DEF Ready
  <2> QED BY <1>1, <1>2, <2>1, <2>2, EntryEvent DEF Passed
<1> QED BY <1>3, <1>4

-----------------------------------------------------------------------------
(* An event arrives.                                                       *)

LEMMA ArriveKnown ==
  ASSUME IInv, NEW p \in Ports, NEW t \in Indexes, Arrive(p, t), TypeInv'
  PROVE  /\ \A q \in Ports : floor[q] <= floor'[q]
         /\ floor'[p] = t /\ floor[p] <= t /\ p \notin ended
         /\ \A q \in Ports \ ended' : front'[q] <= floor'[q]
         /\ merge_order' => gfront' <= clock' /\ \A q \in InOrder : clock' <= floor'[q]
         /\ UNCHANGED <<out, ended, merge_order, last_forwarded, clock>>
<1>1. /\ floor' = [floor EXCEPT ![p] = t] /\ floor[p] <= t /\ p \notin ended
      /\ merge_order /\ p \in NeverAhead => t <= clock
      /\ front' = [front EXCEPT ![p] = Larger(front[p], t)]
      /\ gfront' = IF merge_order /\ p \in NeverAhead THEN Larger(gfront, t) ELSE gfront
      /\ UNCHANGED <<out, ended, merge_order, last_forwarded, clock>>
  BY DEF Arrive, MaySend, MayPromise, Note
<1>2. /\ floor \in [Ports -> Int] /\ front \in [Ports -> Int] /\ t \in Int /\ gfront \in Int
      /\ clock \in Int /\ InOrder \subseteq Ports
  BY OMAssumption, IndexAssumption DEF IInv, TypeInv, TypeOK, Index
<1>3. \A q \in Ports : floor[q] <= floor'[q]
  BY <1>1, <1>2
<1>4. \A q \in Ports \ ended' : front'[q] <= floor'[q]
  BY <1>1, <1>2 DEF IInv, Known, Larger
<1>5. merge_order' => gfront' <= clock' /\ \A q \in InOrder : clock' <= floor'[q]
  BY <1>1, <1>2, <1>3 DEF IInv, Known, Larger
<1> QED BY <1>1, <1>2, <1>3, <1>4, <1>5

\* An event at or above its port's floor comes after o if o is passed.
LEMMA PassedBefore ==
  ASSUME TypeInv, NEW o \in Event, NEW e \in Event, Passed(o, e.port, floor[e.port]),
         floor[e.port] <= e.index, o.port = e.port => o.nth < e.nth
  PROVE  Before(o, e)
<1>1. o.index \in Int /\ o.port \in Int /\ e.index \in Int /\ e.port \in Int
  BY IndexAssumption, NAssumption DEF Event, Index, Ports
<1>2. floor[e.port] \in Int
  BY IndexAssumption DEF Event, Index, TypeInv, TypeOK
<1>3. CASE e.port < o.port
  BY <1>1, <1>2, <1>3 DEF Passed, Before
<1>4. CASE e.port = o.port
  BY <1>1, <1>2, <1>4 DEF Passed, Before
<1>5. CASE o.port < e.port
  BY <1>1, <1>2, <1>5 DEF Passed, Before
<1> QED BY <1>1, <1>3, <1>4, <1>5

\* What was passed on comes before a new event.
LEMMA ArriveOrdered ==
  ASSUME IInv, NEW p \in Ports, NEW t \in Indexes, NEW w \in Widths, Arrive(p, t),
         NEW i \in 1 .. Len(out)
  PROVE  Before(out[i], EventOf(NewEntry(p, t, w)))
<1>1. EventOf(NewEntry(p, t, w)) = [index |-> t, port |-> p, nth |-> Sent(p)]
  BY DEF EventOf, NewEntry
<1>2. floor[p] <= t /\ p \notin ended
  BY DEF Arrive, MaySend, MayPromise
<1>3. Passed(out[i], p, floor[p])
  BY <1>2 DEF IInv, Ordered
<1>4. out[i] \in Event /\ out[i].nth < Sent(out[i].port)
  BY DEF IInv, TypeInv, TypeOK, Numbered
<1>5. EventOf(NewEntry(p, t, w)) \in Event
  BY NewEntryType DEF IInv
<1> QED BY <1>1, <1>2, <1>3, <1>4, <1>5, PassedBefore DEF IInv

\* A new event gets its port's next number.
LEMMA ArriveNumbered ==
  ASSUME IInv, NEW p \in Ports, NEW t \in Indexes, NEW w \in Widths,
         taken' = taken \cup {EventOf(NewEntry(p, t, w))}
  PROVE  \A d \in taken' : d.nth < Sent(d.port)'
<1> DEFINE e == EventOf(NewEntry(p, t, w))
<1>1. e \in Event /\ e.port = p /\ e.nth = Sent(p)
  BY NewEntryType DEF IInv, EventOf, NewEntry
<1>2. Sent(p) \in Nat
  BY SentType DEF IInv, TypeInv
<1>3. e \notin taken
  BY <1>1, <1>2 DEF IInv, Numbered
<1> HIDE DEF e
<1>4. Sent(p)' = Sent(p) + 1 /\ \A q : q # p => Sent(q)' = Sent(q)
  <2>1. taken' = taken \cup {e}
    BY DEF e
  <2>2. Finite
    BY DEF IInv, TypeInv
  <2>3. /\ Cardinality({d \in taken' : d.port = p}) = Sent(p) + 1
        /\ \A q : q # p => {d \in taken' : d.port = q} = {d \in taken : d.port = q}
    BY <1>1, <1>3, <2>1, <2>2, SentNext
  <2> QED BY <2>3 DEF Sent
<1>5. ASSUME NEW d \in taken' PROVE d.nth < Sent(d.port)'
  <2>1. CASE d = e
    BY <2>1, <1>1, <1>2, <1>4
  <2>2. CASE d \in taken
    <3>1. d.nth < Sent(d.port) /\ d.nth \in Nat
      BY <2>2 DEF IInv, Numbered, TypeInv, TypeOK, Event
    <3>2. CASE d.port = p
      BY <3>1, <3>2, <1>2, <1>4
    <3>3. CASE d.port # p
      BY <3>1, <3>3, <1>4
    <3> QED BY <3>2, <3>3
  <2> QED BY <2>1, <2>2 DEF e
<1> QED BY <1>5

\* What was passed stays passed when the floors rise.
LEMMA PassedStays ==
  ASSUME TypeInv, TypeInv', \A q \in Ports : floor[q] <= floor'[q],
         NEW o \in Event, NEW q \in Ports, Passed(o, q, floor[q])
  PROVE  Passed(o, q, floor'[q])
<1>1. /\ floor[q] \in Int /\ floor'[q] \in Int /\ o.index \in Int
      /\ o.port \in Int /\ q \in Int /\ floor[q] <= floor'[q]
  BY IndexAssumption, NAssumption DEF TypeInv, TypeOK, Index, Event, Ports
<1> QED BY <1>1 DEF Passed

LEMMA PushDirectInv ==
  ASSUME IInv, NEW p \in Ports, NEW t \in Indexes, NEW w \in Widths, PushDirect(p, t, w)
  PROVE  IInv'
<1>0. PICK e : e = NewEntry(p, t, w)
  OBVIOUS
<1>1. TypeInv'
  BY PushDirectType DEF IInv
<1>2. Arrive(p, t) /\ pending = {} /\ Ready(t, p)'
      /\ taken' = taken \cup {EventOf(e)} /\ hand' = {e} /\ call' = "push"
      /\ UNCHANGED <<width, pending, next_seq>>
  BY <1>0 DEF PushDirect, Accept
<1>3. e.index = t /\ e.port = p /\ EventOf(e).index = t
  BY <1>0 DEF NewEntry, EventOf
<1>4. /\ \A q \in Ports : floor[q] <= floor'[q]
      /\ floor'[p] = t /\ floor[p] <= t /\ p \notin ended
      /\ \A q \in Ports \ ended' : front'[q] <= floor'[q]
      /\ merge_order' => gfront' <= clock' /\ \A q \in InOrder : clock' <= floor'[q]
      /\ UNCHANGED <<out, ended, merge_order, last_forwarded, clock>>
  BY <1>1, <1>2, ArriveKnown
<1>5. t \in Int /\ floor \in [Ports -> Int] /\ floor' \in [Ports -> Int] /\ last_forwarded \in Int
  BY <1>1, OMAssumption, IndexAssumption DEF IInv, TypeInv, TypeOK, Index
<1>6. \A d \in taken' : d.nth < Sent(d.port)'
  BY <1>0, <1>2, ArriveNumbered
<1>7. \A i \in 1 .. Len(out) : Before(out[i], EventOf(e))
  BY <1>0, <1>2, ArriveOrdered
<1>8. Ready(e.index, e.port)'
  BY <1>2, <1>3
<1>9. Known'
  BY <1>2, <1>3, <1>4, <1>5, <1>8 DEF Known
<1>10. Numbered'
  BY <1>2, <1>4, <1>6 DEF IInv, Numbered
<1>11. Low'
  BY <1>2, <1>3, <1>4, <1>5 DEF IInv, Low
<1>12. Ordered'
  <2>1. OutputOrdered'
    BY <1>4 DEF IInv, Ordered, OutputOrdered
  <2>2. \A i \in 1 .. Len(out') : \A d \in pending' \cup hand' : Before(out'[i], EventOf(d))
    BY <1>2, <1>4, <1>7
  <2>3. \A i \in 1 .. Len(out') : \A q \in Ports \ ended' : Passed(out'[i], q, floor'[q])
    BY <1>1, <1>4, PassedStays DEF IInv, Ordered, TypeInv, TypeOK
  <2> QED BY <2>1, <2>2, <2>3 DEF Ordered
<1> QED BY <1>1, <1>9, <1>10, <1>11, <1>12 DEF IInv

LEMMA PushWaitingInv ==
  ASSUME IInv, NEW p \in Ports, NEW t \in Indexes, NEW w \in Widths, PushWaiting(p, t, w)
  PROVE  IInv'
<1>0. PICK e : e = NewEntry(p, t, w)
  OBVIOUS
<1>1. TypeInv'
  BY PushWaitingType DEF IInv
<1>2. /\ Arrive(p, t) /\ taken' = taken \cup {EventOf(e)} /\ pending' = pending \cup {e}
      /\ call' = "push" /\ next_seq' = next_seq + 1 /\ UNCHANGED hand
  BY <1>0 DEF PushWaiting, Accept
<1>3. /\ e.index = t /\ e.port = p /\ e.nth = Sent(p) /\ e.seq = next_seq
      /\ EventOf(e).index = t
  BY <1>0 DEF NewEntry, EventOf
<1>4. /\ \A q \in Ports : floor[q] <= floor'[q]
      /\ floor'[p] = t /\ floor[p] <= t /\ p \notin ended
      /\ \A q \in Ports \ ended' : front'[q] <= floor'[q]
      /\ merge_order' => gfront' <= clock' /\ \A q \in InOrder : clock' <= floor'[q]
      /\ UNCHANGED <<out, ended, merge_order, last_forwarded, clock>>
  BY <1>1, <1>2, ArriveKnown
<1>5. /\ t \in Int /\ floor \in [Ports -> Int] /\ floor' \in [Ports -> Int]
      /\ last_forwarded \in Int
  BY <1>1, OMAssumption, IndexAssumption DEF IInv, TypeInv, TypeOK, Index
<1>6. \A d \in taken' : d.nth < Sent(d.port)'
  BY <1>0, <1>2, ArriveNumbered
<1>7. \A i \in 1 .. Len(out) : Before(out[i], EventOf(e))
  BY <1>0, <1>2, ArriveOrdered
<1>8. hand = {}
  BY <1>2 DEF Arrive, MaySend, MayPromise, Idle, IInv, Known
<1>9. \A d \in pending : d.port \in Ports /\ d.index \in Int
  BY IndexAssumption DEF IInv, TypeInv, TypeOK, Entry, Index
<1>10. Known'
  <2>1. \A d \in pending' : d.index <= floor'[d.port]
    BY <1>2, <1>3, <1>4, <1>5, <1>9 DEF IInv, Known
  <2> QED BY <1>2, <1>4, <1>8, <2>1 DEF Known
<1>11. Numbered'
  <2>1. \A d \in pending : d.nth \in Nat /\ d.seq \in Nat /\ (d.port = p => d.nth < e.nth)
    BY <1>3, EntryEvent DEF IInv, TypeInv, TypeOK, Entry, Numbered
  <2>2. e.nth \in Nat /\ e.seq \in Nat
    BY <1>1, <1>2 DEF TypeInv, TypeOK, Entry
  <2>3. \A d \in pending : d.seq < e.seq
    BY <1>3 DEF IInv, Numbered
  <2>4. \A d \in pending' : d.seq < next_seq'
    BY <1>2, <1>3, <2>1, <2>2, <2>3
  <2>a. \A d \in pending : d.port = p => d.index <= e.index
    BY <1>3, <1>4, <1>5, <1>9 DEF IInv, Known
  <2>5. \A a, b \in pending' : a.port = b.port =>
          /\ a.nth < b.nth <=> a.seq < b.seq
          /\ a.nth = b.nth => a = b
          /\ a.nth < b.nth => a.index <= b.index
    BY <1>2, <1>3, <2>1, <2>2, <2>3, <2>a DEF IInv, Numbered
  <2>6. \A d \in pending' \cup hand' : EventOf(d) \in taken'
    BY <1>2 DEF IInv, Numbered
  <2>7. \A i \in 1 .. Len(out') : out'[i] \in taken'
    BY <1>2, <1>4 DEF IInv, Numbered
  <2> QED BY <1>6, <2>4, <2>5, <2>6, <2>7 DEF Numbered
<1>12. Low'
  BY <1>2, <1>3, <1>4, <1>5, <1>8 DEF IInv, Low
<1>13. Ordered'
  <2>1. OutputOrdered'
    BY <1>4 DEF IInv, Ordered, OutputOrdered
  <2>2. \A i \in 1 .. Len(out') : \A d \in pending' \cup hand' : Before(out'[i], EventOf(d))
    BY <1>2, <1>4, <1>7 DEF IInv, Ordered
  <2>3. \A i \in 1 .. Len(out') : \A q \in Ports \ ended' : Passed(out'[i], q, floor'[q])
    BY <1>1, <1>4, PassedStays DEF IInv, Ordered, TypeInv, TypeOK
  <2> QED BY <2>1, <2>2, <2>3 DEF Ordered
<1> QED BY <1>1, <1>10, <1>11, <1>12, <1>13 DEF IInv

\* A call that brings no event and raises floors and fronts keeps the invariant.
LEMMA PromiseInv ==
  ASSUME IInv, TypeInv', \A q \in Ports : floor[q] <= floor'[q],
         \A q \in Ports \ ended' : front'[q] <= floor'[q],
         ended \subseteq ended', hand = {},
         merge_order' => gfront' <= clock' /\ \A q \in InOrder : clock' <= floor'[q],
         UNCHANGED <<taken, out, pending, next_seq, last_forwarded, hand>>
  PROVE  IInv'
<1>1. /\ floor \in [Ports -> Int] /\ floor' \in [Ports -> Int] /\ last_forwarded \in Int
      /\ \A d \in pending : d.port \in Ports /\ d.index \in Int
  BY IndexAssumption DEF IInv, TypeInv, TypeOK, Index, Entry
<1>2. Known'
  <2>1. \A d \in pending' : d.index <= floor'[d.port]
    BY <1>1 DEF IInv, Known
  <2> QED BY <2>1 DEF Known
<1>3. Numbered'
  BY DEF IInv, Numbered, Sent
<1>4. Low'
  BY <1>1 DEF IInv, Low
<1>5. Ordered'
  <2>1. OutputOrdered'
    BY DEF IInv, Ordered, OutputOrdered
  <2>2. \A i \in 1 .. Len(out') : \A d \in pending' \cup hand' : Before(out'[i], EventOf(d))
    BY DEF IInv, Ordered
  <2>3. \A i \in 1 .. Len(out') : \A q \in Ports \ ended' : Passed(out'[i], q, floor'[q])
    BY PassedStays DEF IInv, Ordered, TypeInv, TypeOK
  <2> QED BY <2>1, <2>2, <2>3 DEF Ordered
<1> QED BY <1>2, <1>3, <1>4, <1>5 DEF IInv

LEMMA IdleHand == ASSUME IInv, call = "idle" PROVE hand = {}
BY DEF IInv, Known

LEMMA PushRefusedInv ==
  ASSUME IInv, NEW p \in Ports, NEW t \in Indexes, NEW w \in Widths, PushRefused(p, t, w)
  PROVE  IInv'
<1>1. TypeInv'
  BY PushRefusedType DEF IInv
<1>2. Arrive(p, t) /\ UNCHANGED <<taken, pending, next_seq, hand>>
  BY DEF PushRefused
<1>3. hand = {}
  BY <1>2, IdleHand DEF Arrive, MaySend, MayPromise, Idle
<1> QED BY <1>1, <1>2, <1>3, ArriveKnown, PromiseInv

LEMMA OnWatermarkInv ==
  ASSUME IInv, NEW p \in Ports, NEW w \in Index, OnWatermark(p, w)
  PROVE  IInv'
<1>1. TypeInv'
  BY OnWatermarkType DEF IInv
<1>2. /\ hand = {}
      /\ floor' = [floor EXCEPT ![p] = Larger(floor[p], w)]
      /\ front' = [front EXCEPT ![p] = Larger(front[p], w)]
      /\ UNCHANGED <<taken, out, ended, merge_order, gfront, pending, next_seq, last_forwarded,
                     hand, clock>>
  BY IdleHand DEF OnWatermark, MayPromise, Idle
<1>3. /\ floor \in [Ports -> Int] /\ front \in [Ports -> Int] /\ w \in Int
      /\ clock \in Int /\ InOrder \subseteq Ports
  BY OMAssumption, IndexAssumption DEF IInv, TypeInv, TypeOK, Index
<1>4. \A q \in Ports : floor[q] <= floor'[q]
  BY <1>2, <1>3 DEF Larger
<1>5. \A q \in Ports \ ended' : front'[q] <= floor'[q]
  <2>1. SUFFICES ASSUME NEW q \in Ports \ ended PROVE front'[q] <= floor'[q]
    BY <1>2
  <2>2. front[q] <= floor[q] /\ front[q] \in Int /\ floor[q] \in Int
    BY <1>3 DEF IInv, Known
  <2>3. /\ front'[q] = IF q = p THEN Larger(front[q], w) ELSE front[q]
        /\ floor'[q] = IF q = p THEN Larger(floor[q], w) ELSE floor[q]
    BY <1>2, <1>3
  <2> QED BY <1>3, <2>2, <2>3 DEF Larger
<1>6. merge_order' => gfront' <= clock' /\ \A q \in InOrder : clock' <= floor'[q]
  <2>1. \A q \in Ports : floor[q] \in Int /\ floor'[q] \in Int
    BY <1>2, <1>3 DEF Larger
  <2>2. merge_order => gfront <= clock /\ \A q \in InOrder : clock <= floor[q]
    BY DEF IInv, Known
  <2> QED BY <1>2, <1>3, <1>4, <2>1, <2>2
<1> QED BY <1>1, <1>2, <1>4, <1>5, <1>6, PromiseInv

LEMMA FlushPortInv ==
  ASSUME IInv, NEW p \in Ports, FlushPort(p)
  PROVE  IInv'
<1>1. TypeInv'
  BY FlushPortType DEF IInv
<1>2. /\ hand = {} /\ ended' = ended \cup {p}
      /\ floor' = [floor EXCEPT ![p] = kMax] /\ front' = [front EXCEPT ![p] = kMax]
      /\ UNCHANGED <<taken, out, merge_order, gfront, pending, next_seq, last_forwarded, hand,
                     clock>>
  BY IdleHand DEF FlushPort, Idle
<1>3. /\ floor \in [Ports -> kMin .. kMax] /\ front \in [Ports -> Int] /\ kMax \in Int
      /\ kMin \in Int /\ clock \in kMin .. kMax /\ InOrder \subseteq Ports
  BY OMAssumption, IndexAssumption DEF IInv, TypeInv, TypeOK, Index
<1>4. \A q \in Ports : floor[q] <= floor'[q]
  BY <1>2, <1>3
<1>5. \A q \in Ports \ ended' : front'[q] <= floor'[q]
  BY <1>2, <1>3 DEF IInv, Known
<1>6. merge_order' => gfront' <= clock' /\ \A q \in InOrder : clock' <= floor'[q]
  BY <1>2, <1>3 DEF IInv, Known
<1> QED BY <1>1, <1>2, <1>4, <1>5, <1>6, PromiseInv

LEMMA MergeToInv ==
  ASSUME IInv, NEW t \in Index, MergeTo(t)
  PROVE  IInv'
<1>1. TypeInv'
  BY MergeToType DEF IInv
<1>2. /\ clock < t /\ clock' = t /\ hand = {}
      /\ floor' = [q \in Ports |-> IF q \in InOrder THEN Larger(floor[q], t) ELSE floor[q]]
      /\ UNCHANGED <<taken, out, ended, front, merge_order, gfront, pending, next_seq,
                     last_forwarded, hand>>
  BY IdleHand DEF MergeTo, Idle, nodeVars, callVars
<1>3. /\ floor \in [Ports -> Int] /\ front \in [Ports -> Int] /\ t \in Int
      /\ clock \in Int /\ gfront \in Int /\ InOrder \subseteq Ports
  BY OMAssumption, IndexAssumption DEF IInv, TypeInv, TypeOK, Index
<1>4. \A q \in Ports : floor[q] <= floor'[q]
  BY <1>2, <1>3 DEF Larger
<1>5. \A q \in Ports \ ended' : front'[q] <= floor'[q]
  <2>1. \A q \in Ports : front[q] \in Int /\ floor[q] \in Int /\ floor'[q] \in Int
    BY <1>2, <1>3 DEF Larger
  <2>2. \A q \in Ports \ ended : front[q] <= floor[q]
    BY DEF IInv, Known
  <2> QED BY <1>2, <1>4, <2>1, <2>2
<1>6. merge_order' => gfront' <= clock' /\ \A q \in InOrder : clock' <= floor'[q]
  BY <1>2, <1>3 DEF IInv, Known, Larger
<1> QED BY <1>1, <1>2, <1>4, <1>5, <1>6, PromiseInv

-----------------------------------------------------------------------------
(* The rest of a handler.                                                  *)

\* The heap's order of two waiting events is the order of the stream.
LEMMA HeapOrder ==
  ASSUME IInv, NEW a \in pending, NEW b \in pending, HeapBefore(a, b)
  PROVE  Before(EventOf(a), EventOf(b))
<1>1. a \in Entry /\ b \in Entry
  BY DEF IInv, TypeInv, TypeOK
<1>2. a.port = b.port => (a.nth < b.nth <=> a.seq < b.seq)
  BY DEF IInv, Numbered
<1> QED BY <1>1, <1>2, EntryEvent DEF HeapBefore, Before

\* What PassOn needs to keep the invariant: the event is in the node, is ready,
\* and comes before the rest.
LEMMA PassOnInv ==
  ASSUME IInv, TypeInv', NEW e \in pending \cup hand, PassOn(e),
         Ready(e.index, e.port),
         pending' \subseteq pending, hand' = {}, e \notin pending',
         \A d \in pending' : Before(EventOf(e), EventOf(d))
  PROVE  IInv'
<1>1. /\ out' = Append(out, EventOf(e))
      /\ UNCHANGED <<taken, floor, ended, front, merge_order, gfront, next_seq,
                     last_forwarded, call, clock>>
  BY DEF PassOn
<1>2. e \in Entry /\ EventOf(e) \in Event /\ out \in Seq(Event)
  BY EntryEvent DEF IInv, TypeInv, TypeOK
<1>3. /\ Len(out') = Len(out) + 1 /\ out'[Len(out) + 1] = EventOf(e)
      /\ \A i \in 1 .. Len(out) : out'[i] = out[i]
      /\ Len(out) \in Nat
  BY <1>1, <1>2
<1>4. Known'
  BY <1>1 DEF IInv, Known
<1>5. Numbered'
  <2>1. EventOf(e) \in taken
    BY DEF IInv, Numbered
  <2>2. \A i \in 1 .. Len(out') : out'[i] \in taken
    <3>1. SUFFICES ASSUME NEW i \in 1 .. Len(out') PROVE out'[i] \in taken
      OBVIOUS
    <3>2. CASE i = Len(out) + 1
      BY <3>2, <1>3, <2>1
    <3>3. CASE i \in 1 .. Len(out)
      BY <3>3, <1>3 DEF IInv, Numbered
    <3> QED BY <3>2, <3>3, <1>3
  <2>3. \A d \in taken : d.nth < Sent(d.port)'
    BY <1>1 DEF IInv, Numbered, Sent
  <2> QED BY <1>1, <2>2, <2>3 DEF IInv, Numbered
<1>6. Low'
  BY <1>1 DEF IInv, Low
<1>7. Ordered'
  <2>1. \A i \in 1 .. Len(out) : Before(out[i], EventOf(e))
    BY DEF IInv, Ordered
  <2>2. OutputOrdered'
    <3>1. SUFFICES ASSUME NEW i \in 1 .. Len(out'), NEW j \in 1 .. Len(out'), i < j
                   PROVE  Before(out'[i], out'[j])
      BY DEF OutputOrdered
    <3>2. i \in 1 .. Len(out)
      BY <3>1, <1>3
    <3>3. CASE j = Len(out) + 1
      BY <3>2, <3>3, <1>3, <2>1
    <3>4. CASE j \in 1 .. Len(out)
      BY <3>1, <3>2, <3>4, <1>3 DEF IInv, Ordered, OutputOrdered
    <3> QED BY <3>3, <3>4, <1>3
  <2>3. \A i \in 1 .. Len(out') : \A d \in pending' \cup hand' : Before(out'[i], EventOf(d))
    <3>1. SUFFICES ASSUME NEW i \in 1 .. Len(out'), NEW d \in pending'
                   PROVE  Before(out'[i], EventOf(d))
      OBVIOUS
    <3>2. CASE i = Len(out) + 1
      BY <3>2, <1>3
    <3>3. CASE i \in 1 .. Len(out)
      BY <3>3, <1>3 DEF IInv, Ordered
    <3> QED BY <3>2, <3>3, <1>3
  <2>4. \A i \in 1 .. Len(out') : \A q \in Ports \ ended' : Passed(out'[i], q, floor'[q])
    <3>1. SUFFICES ASSUME NEW i \in 1 .. Len(out'), NEW q \in Ports \ ended
                   PROVE  Passed(out'[i], q, floor[q])
      BY <1>1
    <3>2. CASE i = Len(out) + 1
      <4>1. Passed(EventOf(e), q, floor[q])
        BY ReadyPassed DEF IInv
      <4> QED BY <3>2, <4>1, <1>3
    <3>3. CASE i \in 1 .. Len(out)
      BY <3>3, <1>3 DEF IInv, Ordered
    <3> QED BY <3>2, <3>3, <1>3
  <2> QED BY <2>2, <2>3, <2>4 DEF Ordered
<1> QED BY <1>4, <1>5, <1>6, <1>7 DEF IInv

LEMMA PassHandInv == ASSUME IInv, PassHand PROVE IInv'
<1>1. PICK e \in hand : PassOn(e) /\ hand' = {} /\ UNCHANGED pending
  BY DEF PassHand
<1>2. Ready(e.index, e.port) /\ pending = {}
  BY DEF IInv, Known
<1>3. TypeInv'
  BY PassHandType DEF IInv
<1> QED BY <1>1, <1>2, <1>3, PassOnInv

LEMMA ReleaseTopInv == ASSUME IInv, ReleaseTop PROVE IInv'
<1>1. PICK e \in pending :
        IsTop(e) /\ Ready(e.index, e.port) /\ PassOn(e) /\ pending' = pending \ {e}
  BY DEF ReleaseTop
<1>2. hand = {} /\ hand' = {}
  BY DEF ReleaseTop
<1>3. \A d \in pending' : Before(EventOf(e), EventOf(d))
  BY <1>1, HeapOrder DEF IsTop
<1>4. TypeInv'
  BY ReleaseTopType DEF IInv
<1> QED BY <1>1, <1>2, <1>3, <1>4, PassOnInv

LEMMA EndInv ==
  ASSUME IInv, EndPush \/ EndWatermark \/ EndFlush
  PROVE  IInv'
<1>1. Return
  BY DEF EndPush, EndWatermark, EndFlush
<1>2. TypeInv'
  BY EndType DEF IInv
<1>3. PICK low \in Index : IsLow(low) /\
        last_forwarded' = IF low # kMin /\ low > last_forwarded THEN low ELSE last_forwarded
  BY <1>1 DEF Return, ForwardWatermark
<1>4. hand = {} /\ UNCHANGED <<taken, out, floor, ended, front, merge_order, gfront, pending,
                              next_seq, hand, clock>>
  BY <1>1 DEF Return, streamVars
<1>5. Low'
  <2>1. \A q \in Ports \ ended : low <= floor[q]
    <3>1. SUFFICES ASSUME NEW q \in Ports \ ended PROVE low <= floor[q]
      OBVIOUS
    <3>2. low <= Front(q)
      BY <1>3 DEF IsLow
    <3>3. Front(q) \in Index /\ Front(q) <= floor[q] /\ floor[q] \in Index
      BY FrontPromised DEF IInv, TypeInv, TypeOK
    <3> QED BY <3>2, <3>3, IndexAssumption DEF Index
  <2>2. \A e \in pending : low <= e.index
    BY <1>3 DEF IsLow
  <2> QED BY <1>3, <1>4, <2>1, <2>2 DEF IInv, Low
<1>6. Known'
  BY <1>4 DEF IInv, Known
<1>7. Numbered'
  BY <1>4 DEF IInv, Numbered, Sent
<1>8. Ordered'
  BY <1>4 DEF IInv, Ordered, OutputOrdered
<1> QED BY <1>2, <1>5, <1>6, <1>7, <1>8 DEF IInv

-----------------------------------------------------------------------------
(* reset, and a save with a load.                                          *)

LEMMA ResetInv ==
  ASSUME IInv, NEW m \in Modes, Reset(m)
  PROVE  IInv'
<1>1. TypeInv'
  BY ResetType DEF IInv
<1>2. /\ taken' = {} /\ out' = <<>> /\ floor' = [p \in Ports |-> kMin] /\ ended' = {}
      /\ front' = [p \in Ports |-> kMin] /\ gfront' = kMin /\ pending' = {} /\ hand' = {}
      /\ last_forwarded' = kMin /\ clock' = kMin
  BY IdleHand DEF Reset, Restart
<1>3. Known'
  BY <1>2, IndexAssumption, OMAssumption DEF Known
<1>4. Numbered'
  BY <1>2 DEF Numbered
<1>5. Low'
  BY <1>2, IndexAssumption DEF Low
<1>6. Ordered'
  BY <1>2 DEF Ordered, OutputOrdered
<1> QED BY <1>1, <1>3, <1>4, <1>5, <1>6 DEF IInv

\* The waiting events before e in the heap: its number after a load.
Preceding(e) == {d \in pending : HeapBefore(d, e)}

LEMMA PrecedingCount ==
  ASSUME TypeInv, NEW e \in pending
  PROVE  /\ IsFiniteSet(Preceding(e)) /\ Cardinality(Preceding(e)) \in Nat
         /\ Cardinality(Preceding(e)) < Cardinality(pending)
<1>1. IsFiniteSet(pending) /\ e \in Entry
  BY DEF TypeInv, TypeOK, Finite
<1>2. e \notin Preceding(e)
  BY <1>1, IndexAssumption, NAssumption DEF Preceding, HeapBefore, Entry, Index, Ports
<1>3. Preceding(e) \subseteq pending
  BY DEF Preceding
<1>4. Preceding(e) # pending
  BY <1>2
<1> QED BY <1>1, <1>3, <1>4, FS_Subset, FS_CardinalityType

LEMMA PrecedingGrows ==
  ASSUME TypeInv, NEW a \in pending, NEW b \in pending, HeapBefore(a, b)
  PROVE  Cardinality(Preceding(a)) < Cardinality(Preceding(b))
<1>1. \A d \in pending : d.index \in Int /\ d.port \in Int /\ d.seq \in Int
  BY EntryInts DEF TypeInv, TypeOK
<1>2. Preceding(a) \subseteq Preceding(b)
  BY <1>1 DEF Preceding, HeapBefore
<1>3. a \in Preceding(b) /\ a \notin Preceding(a)
  BY <1>1 DEF Preceding, HeapBefore
<1>4. /\ IsFiniteSet(Preceding(b))
      /\ Cardinality(Preceding(a)) \in Nat /\ Cardinality(Preceding(b)) \in Nat
  BY PrecedingCount
<1>5. Preceding(a) # Preceding(b)
  BY <1>3
<1> QED BY <1>2, <1>4, <1>5, FS_Subset

LEMMA RenumberedEvent ==
  ASSUME TypeInv, NEW e \in pending
  PROVE  /\ EventOf(Renumbered(e)) = EventOf(e)
         /\ Renumbered(e).index = e.index /\ Renumbered(e).port = e.port
         /\ Renumbered(e).nth = e.nth /\ Renumbered(e).width = e.width
         /\ Renumbered(e).seq = Cardinality(Preceding(e))
<1>1. e \in Entry
  BY DEF TypeInv, TypeOK
<1> QED BY <1>1 DEF Renumbered, EventOf, Preceding, Entry

LEMMA SaveAndLoadInv == ASSUME IInv, SaveAndLoad PROVE IInv'
<1>1. TypeInv'
  BY SaveAndLoadType DEF IInv
<1>2. /\ pending' = {Renumbered(e) : e \in pending} /\ next_seq' = Cardinality(pending)
      /\ hand = {} /\ hand' = {} /\ ~merge_order
      /\ UNCHANGED <<taken, out, floor, ended, front, merge_order, gfront, last_forwarded,
                     clock, call>>
  BY IdleHand DEF SaveAndLoad, Idle, streamVars, callVars
<1>3. ASSUME NEW d \in pending'
      PROVE  \E e \in pending : d = Renumbered(e)
  BY <1>2
<1>4. \A d \in pending' : \E e \in pending :
        /\ EventOf(d) = EventOf(e) /\ d.index = e.index /\ d.port = e.port
        /\ d = Renumbered(e)
  BY <1>3, RenumberedEvent DEF IInv
<1>5. Known'
  <2>1. \A d \in pending' : d.index <= floor'[d.port]
    BY <1>2, <1>4 DEF IInv, Known
  <2> QED BY <1>2, <2>1 DEF IInv, Known
<1>6. Numbered'
  <2>1. \A d \in pending' : EventOf(d) \in taken'
    BY <1>2, <1>4 DEF IInv, Numbered
  <2>2. \A d \in pending' : d.seq < next_seq'
    BY <1>2, <1>3, RenumberedEvent, PrecedingCount DEF IInv
  <2>3. ASSUME NEW x \in pending', NEW y \in pending', x.port = y.port
        PROVE  /\ x.nth < y.nth <=> x.seq < y.seq
               /\ x.nth = y.nth => x = y
               /\ x.nth < y.nth => x.index <= y.index
    <3>1. PICK a \in pending : x = Renumbered(a)
      BY <1>3
    <3>2. PICK b \in pending : y = Renumbered(b)
      BY <1>3
    <3>3. /\ x.index = a.index /\ x.port = a.port /\ x.nth = a.nth
          /\ x.seq = Cardinality(Preceding(a))
          /\ y.index = b.index /\ y.port = b.port /\ y.nth = b.nth
          /\ y.seq = Cardinality(Preceding(b))
      BY <3>1, <3>2, RenumberedEvent DEF IInv
    <3>4. /\ (a.nth < b.nth) <=> (a.seq < b.seq)
          /\ (b.nth < a.nth) <=> (b.seq < a.seq)
          /\ a.nth = b.nth => a = b
          /\ a.nth < b.nth => a.index <= b.index
          /\ b.nth < a.nth => b.index <= a.index
      BY <2>3, <3>3 DEF IInv, Numbered
    <3>5. /\ a.nth \in Int /\ b.nth \in Int /\ a.seq \in Int /\ b.seq \in Int
          /\ a.index \in Int /\ b.index \in Int
      BY IndexAssumption DEF IInv, TypeInv, TypeOK, Entry, Index
    <3>6. Cardinality(Preceding(a)) \in Nat /\ Cardinality(Preceding(b)) \in Nat
      BY PrecedingCount DEF IInv
    <3>a. a.port = b.port
      BY <2>3, <3>3
    <3>7. CASE a.nth < b.nth
      <4>a. a.seq < b.seq /\ a.index <= b.index
        BY <3>4, <3>7
      <4>1. HeapBefore(a, b)
        BY <4>a, <3>a, <3>5 DEF HeapBefore
      <4> QED BY <4>1, <3>3, <3>4, <3>5, <3>7, PrecedingGrows DEF IInv
    <3>8. CASE b.nth < a.nth
      <4>a. b.seq < a.seq /\ b.index <= a.index
        BY <3>4, <3>8
      <4>1. HeapBefore(b, a)
        BY <4>a, <3>a, <3>5 DEF HeapBefore
      <4>2. Cardinality(Preceding(b)) < Cardinality(Preceding(a))
        BY <4>1, PrecedingGrows DEF IInv
      <4> QED BY <4>2, <3>3, <3>5, <3>6, <3>8
    <3>9. CASE a.nth = b.nth
      <4>1. a = b
        BY <3>4, <3>9
      <4> QED BY <3>1, <3>2, <3>3, <3>5, <3>6, <4>1
    <3> QED BY <3>5, <3>7, <3>8, <3>9
  <2>4. \A d \in taken : d.nth < Sent(d.port)'
    BY <1>2 DEF IInv, Numbered, Sent
  <2> QED BY <1>2, <2>1, <2>2, <2>3, <2>4 DEF IInv, Numbered
<1>7. Low'
  BY <1>2, <1>4 DEF IInv, Low
<1>8. Ordered'
  <2>1. \A i \in 1 .. Len(out) : \A d \in pending' : Before(out[i], EventOf(d))
    BY <1>4 DEF IInv, Ordered
  <2> QED BY <1>2, <2>1 DEF IInv, Ordered, OutputOrdered
<1> QED BY <1>1, <1>5, <1>6, <1>7, <1>8 DEF IInv

-----------------------------------------------------------------------------
LEMMA NextInv == IInv /\ [Next]_vars => IInv'
<1> SUFFICES ASSUME IInv, [Next]_vars PROVE IInv'
  OBVIOUS
<1>1. CASE \E p \in Ports, t \in Indexes, w \in Widths :
             PushDirect(p, t, w) \/ PushWaiting(p, t, w) \/ PushRefused(p, t, w)
  BY <1>1, PushDirectInv, PushWaitingInv, PushRefusedInv
<1>2. CASE \E p \in Ports, w \in Index : OnWatermark(p, w)
  BY <1>2, OnWatermarkInv
<1>3. CASE \E p \in Ports : FlushPort(p)
  BY <1>3, FlushPortInv
<1>4. CASE Handler
  BY <1>4, PassHandInv, ReleaseTopInv, EndInv DEF Handler
<1>5. CASE \E t \in Index : MergeTo(t)
  BY <1>5, MergeToInv
<1>6. CASE \E m \in Modes : Reset(m)
  BY <1>6, ResetInv
<1>7. CASE SaveAndLoad
  BY <1>7, SaveAndLoadInv
<1>8. CASE UNCHANGED vars
  BY <1>8 DEF vars, streamVars, nodeVars, callVars, IInv, TypeInv, TypeOK, Finite, Known,
     Numbered, Low, Ordered, OutputOrdered, Ready, Front, Sent
<1> QED BY <1>1, <1>2, <1>3, <1>4, <1>5, <1>6, <1>7, <1>8 DEF Next

\* The events go on in the order of index, port and arrival, however the calls
\* of the ports interleave, in batch and live, through resets, saves and loads.
THEOREM OrderKept == Spec => []OutputOrdered
<1>1. IInv => OutputOrdered
  BY DEF IInv, Ordered
<1> QED BY <1>1, InitInv, NextInv, PTL DEF Spec

\* An event that goes on is at or above every watermark sent down before it.
THEOREM WatermarkPromise == Spec => WatermarkKept
<1>1. IInv /\ [Next]_vars =>
        [Len(out') > Len(out) => last_forwarded <= out'[Len(out')].index]_vars
  <2> SUFFICES ASSUME IInv, Next, Len(out') > Len(out)
               PROVE  last_forwarded <= out'[Len(out')].index
    OBVIOUS
  <2>1. PICK e \in pending \cup hand : PassOn(e)
    <3>1. ASSUME UNCHANGED out PROVE FALSE
      <4>1. Len(out) \in Nat
        BY DEF IInv, TypeInv, TypeOK
      <4> QED BY <3>1, <4>1
    <3>2. ASSUME NEW m \in Modes, Reset(m) PROVE FALSE
      <4>1. out' = <<>> /\ Len(out) \in Nat
        BY <3>2 DEF Reset, Restart, IInv, TypeInv, TypeOK
      <4> QED BY <4>1
    <3> QED BY <3>1, <3>2
        DEF Next, PushDirect, PushWaiting, PushRefused, Arrive, OnWatermark, FlushPort, Handler,
            PassHand, ReleaseTop, EndPush, EndWatermark, EndFlush, Return, MergeTo, SaveAndLoad,
            streamVars
  <2>2. out' = Append(out, EventOf(e)) /\ out \in Seq(Event) /\ e \in Entry
    BY <2>1 DEF PassOn, IInv, TypeInv, TypeOK
  <2>3. out'[Len(out')] = EventOf(e)
    BY <2>2, EntryEvent
  <2> QED BY <2>2, <2>3, EntryEvent DEF IInv, Low
<1> QED BY <1>1, InitInv, NextInv, PTL DEF Spec, WatermarkKept

-----------------------------------------------------------------------------
(* What waits, and why.                                                    *)

Held == pending \cup hand

LInv == IInv /\ NothingLost

-----------------------------------------------------------------------------
(* Nothing is lost.                                                        *)

LEMMA HeldType ==
  ASSUME IInv
  PROVE  /\ \A e \in Held : e \in Entry /\ EventOf(e) \in taken
         /\ \A a, b \in Held : EventOf(a) = EventOf(b) => a = b
<1>1. \A e \in Held : e \in Entry /\ EventOf(e) \in taken
  BY DEF Held, IInv, TypeInv, TypeOK, Numbered
<1>2. ASSUME NEW a \in Held, NEW b \in Held, EventOf(a) = EventOf(b)
      PROVE  a = b
  <2>1. a.port = b.port /\ a.nth = b.nth
    BY <1>1, <1>2, EntryEvent
  <2>2. (a \in pending /\ b \in pending) \/ (a \in hand /\ b \in hand)
    BY DEF Held, IInv, Known
  <2>3. CASE a \in pending /\ b \in pending
    BY <2>1, <2>3 DEF IInv, Numbered
  <2>4. CASE a \in hand /\ b \in hand
    BY <2>4 DEF IInv, Known
  <2> QED BY <2>2, <2>3, <2>4
<1> QED BY <1>1, <1>2

\* An event that arrives was not passed on before.
LEMMA NewEvent ==
  ASSUME IInv, NEW p \in Ports, NEW t \in Indexes, NEW w \in Widths
  PROVE  EventOf(NewEntry(p, t, w)) \notin Delivered
<1>1. /\ EventOf(NewEntry(p, t, w)).nth = Sent(p)
      /\ EventOf(NewEntry(p, t, w)).port = p
  BY DEF NewEntry, EventOf
<1>2. \A i \in 1 .. Len(out) : out[i].nth < Sent(out[i].port)
  BY DEF IInv, Numbered
<1>3. Sent(p) \in Nat
  BY SentType DEF IInv, TypeInv
<1> QED BY <1>1, <1>2, <1>3 DEF Delivered

LEMMA AcceptLossless ==
  ASSUME LInv, NEW p \in Ports, NEW t \in Indexes, NEW w \in Widths,
         taken' = taken \cup {EventOf(NewEntry(p, t, w))}, UNCHANGED out,
         Held' = Held \cup {NewEntry(p, t, w)}
  PROVE  NothingLost'
<1> DEFINE e == NewEntry(p, t, w)
<1>1. EventOf(e) \notin Delivered
  BY NewEvent DEF LInv
<1>2. Delivered' = Delivered
  BY DEF Delivered
<1> HIDE DEF e
<1>3. Waiting' = Waiting \cup {EventOf(e)}
  BY <1>1, <1>2 DEF Waiting, e
<1>4. {EventOf(d) : d \in Held'} = {EventOf(d) : d \in Held} \cup {EventOf(e)}
  BY DEF e
<1> QED BY <1>3, <1>4 DEF LInv, NothingLost, Held

LEMMA PassOnLossless ==
  ASSUME LInv, NEW e \in Held, PassOn(e), Held' = Held \ {e}
  PROVE  NothingLost'
<1>1. out' = Append(out, EventOf(e)) /\ taken' = taken /\ out \in Seq(Event)
  BY DEF PassOn, LInv, IInv, TypeInv, TypeOK
<1>2. EventOf(e) \in Event
  BY HeldType, EntryEvent DEF LInv
<1>3. Delivered' = Delivered \cup {EventOf(e)}
  <2>1. /\ Len(out') = Len(out) + 1 /\ Len(out) \in Nat /\ out'[Len(out) + 1] = EventOf(e)
        /\ \A i \in 1 .. Len(out) : out'[i] = out[i]
    BY <1>1, <1>2
  <2>2. 1 .. Len(out') = 1 .. Len(out) \cup {Len(out) + 1}
    BY <2>1
  <2> QED BY <2>1, <2>2 DEF Delivered
<1>4. Waiting' = Waiting \ {EventOf(e)}
  BY <1>1, <1>3 DEF Waiting
<1>5. {EventOf(d) : d \in Held'} = {EventOf(d) : d \in Held} \ {EventOf(e)}
  BY HeldType DEF LInv
<1> QED BY <1>4, <1>5 DEF LInv, NothingLost, Held

LEMMA LoadLossless ==
  ASSUME LInv, SaveAndLoad
  PROVE  NothingLost'
<1>1. /\ pending' = {Renumbered(e) : e \in pending} /\ hand' = hand /\ hand = {}
      /\ UNCHANGED <<taken, out>>
  BY IdleHand DEF SaveAndLoad, Idle, streamVars, callVars, LInv
<1>2. \A e \in pending : EventOf(Renumbered(e)) = EventOf(e)
  BY RenumberedEvent DEF LInv, IInv
<1>3. {EventOf(d) : d \in pending'} = {EventOf(d) : d \in pending}
  BY <1>1, <1>2
<1>4. Waiting' = Waiting
  BY <1>1 DEF Waiting, Delivered
<1>5. /\ pending \cup hand = pending
      /\ pending' \cup hand' = pending'
  BY <1>1
<1>6. Waiting = {EventOf(e) : e \in pending}
  BY <1>5 DEF LInv, NothingLost
<1>7. Waiting' = {EventOf(e) : e \in pending'}
  BY <1>3, <1>4, <1>6
<1> QED BY <1>5, <1>7 DEF NothingLost

LEMMA LInvInit == Init => LInv
<1> SUFFICES ASSUME Init PROVE LInv
  OBVIOUS
<1>1. taken = {} /\ out = <<>> /\ pending = {} /\ hand = {}
  BY DEF Init, SInit
<1>2. NothingLost
  BY <1>1 DEF NothingLost, Waiting
<1> QED BY <1>2, InitInv DEF LInv

LEMMA LInvNext == LInv /\ [Next]_vars => LInv'
<1> SUFFICES ASSUME LInv, [Next]_vars PROVE NothingLost'
  BY NextInv DEF LInv
<1> USE DEF Held
<1>1. ASSUME NEW p \in Ports, NEW t \in Indexes, NEW w \in Widths, PushDirect(p, t, w)
      PROVE  NothingLost'
  <2>1. hand = {}
    BY <1>1, IdleHand DEF PushDirect, Arrive, MaySend, MayPromise, Idle, LInv
  <2>2. /\ taken' = taken \cup {EventOf(NewEntry(p, t, w))} /\ UNCHANGED <<out, pending>>
        /\ hand' = {NewEntry(p, t, w)}
    BY <1>1 DEF PushDirect, Arrive, Accept
  <2> QED BY <2>1, <2>2, AcceptLossless
<1>2. ASSUME NEW p \in Ports, NEW t \in Indexes, NEW w \in Widths, PushWaiting(p, t, w)
      PROVE  NothingLost'
  <2>1. /\ taken' = taken \cup {EventOf(NewEntry(p, t, w))} /\ UNCHANGED <<out, hand>>
        /\ pending' = pending \cup {NewEntry(p, t, w)}
    BY <1>2 DEF PushWaiting, Arrive, Accept
  <2>2. Held' = Held \cup {NewEntry(p, t, w)}
    BY <2>1
  <2> QED BY <2>1, <2>2, AcceptLossless
<1>3. CASE PassHand
  <2>1. PICK e \in hand : PassOn(e) /\ hand' = {} /\ UNCHANGED pending
    BY <1>3 DEF PassHand
  <2>2. Held' = Held \ {e}
    BY <2>1 DEF LInv, IInv, Known
  <2> QED BY <2>1, <2>2, PassOnLossless
<1>4. CASE ReleaseTop
  <2>1. PICK e \in pending : PassOn(e) /\ pending' = pending \ {e} /\ hand = {} /\ hand' = {}
    BY <1>4 DEF ReleaseTop
  <2>2. Held' = Held \ {e}
    BY <2>1
  <2> QED BY <2>1, <2>2, PassOnLossless
<1>5. CASE SaveAndLoad
  BY <1>5, LoadLossless
<1>6. ASSUME NEW m \in Modes, Reset(m)
      PROVE  NothingLost'
  <2>1. taken' = {} /\ out' = <<>> /\ pending' = {} /\ hand' = {}
    BY <1>6, IdleHand DEF Reset, Restart, LInv
  <2> QED BY <2>1 DEF NothingLost, Waiting
<1>7. ASSUME UNCHANGED <<taken, out, pending, hand>>
      PROVE  NothingLost'
  BY <1>7 DEF LInv, NothingLost, Waiting, Delivered
<1>8. CASE \E p \in Ports, t \in Indexes, w \in Widths : PushRefused(p, t, w)
  BY <1>7, <1>8 DEF PushRefused, Arrive
<1>9. CASE \E p \in Ports, w \in Index : OnWatermark(p, w)
  BY <1>7, <1>9 DEF OnWatermark
<1>10. CASE \E p \in Ports : FlushPort(p)
  BY <1>7, <1>10 DEF FlushPort
<1>11. CASE EndPush \/ EndWatermark \/ EndFlush
  BY <1>7, <1>11 DEF EndPush, EndWatermark, EndFlush, Return, streamVars
<1>12. CASE \E t \in Index : MergeTo(t)
  BY <1>7, <1>12 DEF MergeTo, nodeVars, callVars
<1>13. CASE UNCHANGED vars
  BY <1>7, <1>13 DEF vars, streamVars, nodeVars, callVars
<1> QED BY <1>1, <1>2, <1>3, <1>4, <1>5, <1>6, <1>8, <1>9, <1>10, <1>11, <1>12, <1>13
        DEF Next, Handler

\* The events accepted and not passed on are exactly the ones the node holds:
\* releases, resets, saves and loads lose, double or mix up none.
THEOREM Lossless == Spec => []NothingLost
<1>1. LInv => NothingLost
  BY DEF LInv
<1> QED BY <1>1, LInvInit, LInvNext, PTL DEF Spec

-----------------------------------------------------------------------------
(* The steps of the buffer as steps of the merged stream.                  *)

LEMMA FloorType ==
  ASSUME IInv, NEW p \in Ports, NEW t \in Index
  PROVE  /\ floor \in [Ports -> Index] /\ floor[p] \in Int /\ t \in Int
         /\ [floor EXCEPT ![p] = Larger(floor[p], t)] \in [Ports -> Index]
         /\ \A q \in Ports : floor[q] <= [floor EXCEPT ![p] = Larger(floor[p], t)][q]
<1>1. floor \in [Ports -> Index]
  BY DEF IInv, TypeInv, TypeOK
<1>2. Larger(floor[p], t) \in Index /\ floor[p] <= Larger(floor[p], t)
  BY <1>1, LargerType
<1>3. \A q \in Ports : floor[q] \in Int
  BY <1>1, IndexAssumption DEF Index
<1> QED BY <1>1, <1>2, <1>3, IndexAssumption DEF Index

\* An accepted event is offered; a refused one is a promise, its index noted.
LEMMA ArriveIsPromise ==
  ASSUME IInv, NEW p \in Ports, NEW t \in Indexes, Arrive(p, t)
  PROVE  /\ p \notin ended /\ t \in Index /\ floor[p] <= t
         /\ floor' = [floor EXCEPT ![p] = t] /\ UNCHANGED <<out, ended>>
         /\ taken' = taken => Promise
<1>1. /\ p \notin ended /\ floor[p] <= t
      /\ floor' = [floor EXCEPT ![p] = t] /\ UNCHANGED <<out, ended>>
  BY DEF Arrive, MaySend, MayPromise
<1>2. t \in Index /\ floor \in [Ports -> Index]
  BY OMAssumption DEF IInv, TypeInv, TypeOK
<1>3. floor' \in [Ports -> Index] /\ \A q \in Ports : floor[q] <= floor'[q]
  BY <1>1, <1>2, IndexAssumption DEF Index
<1> QED BY <1>1, <1>2, <1>3 DEF Promise

LEMMA AcceptIsOffer ==
  ASSUME IInv, NEW p \in Ports, NEW t \in Indexes, NEW w \in Widths, Arrive(p, t),
         taken' = taken \cup {EventOf(NewEntry(p, t, w))}
  PROVE  Offer(p)
<1>1. EventOf(NewEntry(p, t, w)) =
        [index |-> t, port |-> p, nth |-> Cardinality({e \in taken : e.port = p})]
  BY DEF EventOf, NewEntry, Sent
<1> QED BY <1>1, ArriveIsPromise DEF Offer

\* The event that goes on is the first of the waiting ones, and final.
LEMMA PassOnIsDeliver ==
  ASSUME LInv, NEW e \in Held, PassOn(e), Ready(e.index, e.port),
         \A d \in Held \ {e} : Before(EventOf(e), EventOf(d))
  PROVE  Deliver
<1>1. Waiting = {EventOf(d) : d \in Held}
  BY DEF LInv, NothingLost, Held
<1>2. EventOf(e) \in Waiting
  BY <1>1
<1>3. \A d \in Waiting \ {EventOf(e)} : Before(EventOf(e), d)
  BY <1>1
<1>4. Final(EventOf(e))
  <2>1. SUFFICES ASSUME NEW q \in Ports, q \notin ended PROVE ~MayPrecede(q, EventOf(e))
    BY DEF Final, MayPrecede
  <2>2. Passed(EventOf(e), q, floor[q])
    BY <2>1, ReadyPassed DEF LInv, IInv, Held
  <2>3. EventOf(e) \in Event
    BY HeldType, EntryEvent DEF LInv
  <2>4. EventOf(e).index \in Int /\ EventOf(e).port \in Int /\ q \in Int
    BY <2>3, IndexAssumption, NAssumption DEF Event, Index, Ports
  <2>5. floor[q] \in Int
    BY IndexAssumption DEF LInv, IInv, TypeInv, TypeOK, Index
  <2> QED BY <2>2, <2>4, <2>5 DEF Passed, MayPrecede
<1>5. out' = Append(out, EventOf(e)) /\ UNCHANGED <<taken, floor, ended>>
  BY DEF PassOn
<1> QED BY <1>2, <1>3, <1>4, <1>5 DEF Deliver

LEMMA StepIsStep == LInv /\ [Next]_vars => [SNext]_streamVars
<1> SUFFICES ASSUME LInv, [Next]_vars PROVE [SNext]_streamVars
  OBVIOUS
<1>0. IInv
  BY DEF LInv
<1>1. ASSUME NEW p \in Ports, NEW t \in Indexes, NEW w \in Widths,
             PushDirect(p, t, w) \/ PushWaiting(p, t, w)
      PROVE  Offer(p)
  BY <1>0, <1>1, AcceptIsOffer DEF PushDirect, PushWaiting, Accept
<1>2. ASSUME NEW p \in Ports, NEW t \in Indexes, NEW w \in Widths, PushRefused(p, t, w)
      PROVE  Promise
  BY <1>0, <1>2, ArriveIsPromise DEF PushRefused
<1>3. ASSUME NEW p \in Ports, NEW w \in Index, OnWatermark(p, w)
      PROVE  Promise
  <2>1. floor' = [floor EXCEPT ![p] = Larger(floor[p], w)] /\ UNCHANGED <<taken, out, ended>>
    BY <1>3 DEF OnWatermark
  <2> QED BY <1>0, <2>1, FloorType DEF Promise
<1>4. ASSUME NEW p \in Ports, FlushPort(p)
      PROVE  End(p)
  BY <1>4 DEF FlushPort, End
<1>5. CASE PassHand
  <2>1. PICK e \in hand : PassOn(e)
    BY <1>5 DEF PassHand
  <2>2. Ready(e.index, e.port) /\ \A d \in Held \ {e} : FALSE
    BY <1>0 DEF IInv, Known, Held
  <2>3. e \in Held
    BY DEF Held
  <2> QED BY <2>1, <2>2, <2>3, PassOnIsDeliver DEF SNext
<1>6. CASE ReleaseTop
  <2>1. PICK e \in pending : IsTop(e) /\ Ready(e.index, e.port) /\ PassOn(e) /\ hand = {}
    BY <1>6 DEF ReleaseTop
  <2>2. \A d \in Held \ {e} : Before(EventOf(e), EventOf(d))
    BY <1>0, <2>1, HeapOrder DEF IsTop, Held
  <2>3. e \in Held
    BY DEF Held
  <2> QED BY <2>1, <2>2, <2>3, PassOnIsDeliver DEF SNext
<1>7. ASSUME NEW t \in Index, MergeTo(t)
      PROVE  Promise
  <2>1. /\ floor' = [p \in Ports |-> IF p \in InOrder THEN Larger(floor[p], t) ELSE floor[p]]
        /\ UNCHANGED <<taken, out, ended>>
    BY <1>7 DEF MergeTo
  <2>2. \A p \in Ports : floor[p] \in Index /\ floor[p] <= floor[p]
    BY <1>0, IndexAssumption DEF IInv, TypeInv, TypeOK, Index
  <2>3. \A p \in Ports : Larger(floor[p], t) \in Index /\ floor[p] <= Larger(floor[p], t)
    BY <2>2, LargerType
  <2> QED BY <2>1, <2>2, <2>3 DEF Promise
<1>8. ASSUME NEW m \in Modes, Reset(m)
      PROVE  Restart
  BY <1>8 DEF Reset
<1>9. CASE EndPush \/ EndWatermark \/ EndFlush \/ SaveAndLoad
  BY <1>9 DEF EndPush, EndWatermark, EndFlush, Return, SaveAndLoad
<1>10. CASE UNCHANGED vars
  BY <1>10 DEF vars
<1> QED BY <1>1, <1>2, <1>3, <1>4, <1>5, <1>6, <1>7, <1>8, <1>9, <1>10
        DEF Next, SNext, Handler

\* The reorder buffer implements the merged stream: whatever the calls of its
\* ports, the node below sees each event once, in order, and only when final.
THEOREM BufferMerges == Spec => MergedSpec
<1>1. Init => SInit
  BY DEF Init
<1> QED BY <1>1, LInvInit, LInvNext, StepIsStep, PTL DEF Spec, MergedSpec

-----------------------------------------------------------------------------
(* Every state a session saves passes the checks of its load.              *)

SInv == IInv /\ SavedStateLoads

\* An event that arrives leaves the waiting ones at or below their fronts.
LEMMA ArriveFronts ==
  ASSUME SInv, NEW p \in Ports, NEW t \in Indexes, Arrive(p, t)
  PROVE  /\ \A e \in pending : e.width = width[e.port] /\ e.index <= front'[e.port]
         /\ t <= front'[p]
<1>1. /\ front' = [front EXCEPT ![p] = Larger(front[p], t)]
      /\ front \in [Ports -> Int] /\ t \in Int
  BY OMAssumption, IndexAssumption DEF Arrive, Note, SInv, IInv, TypeInv, TypeOK, Index
<1>2. \A q \in Ports : front[q] <= front'[q]
  BY <1>1 DEF Larger
<1>3. \A e \in pending : e.index \in Int /\ e.port \in Ports
  BY EntryInts DEF SInv, IInv, TypeInv, TypeOK, Entry
<1>4. front' \in [Ports -> Int]
  BY <1>1 DEF Larger
<1>5. \A e \in pending : e.width = width[e.port] /\ e.index <= front[e.port]
  BY DEF SInv, SavedStateLoads
<1>6. ASSUME NEW e \in pending PROVE e.index <= front'[e.port]
  BY <1>1, <1>2, <1>3, <1>4, <1>5
<1>7. t <= front'[p]
  BY <1>1 DEF Larger
<1> QED BY <1>5, <1>6, <1>7

LEMMA WaitingLoads ==
  ASSUME SInv, NEW p \in Ports, NEW t \in Indexes, NEW w \in Widths, PushWaiting(p, t, w)
  PROVE  SavedStateLoads'
<1> DEFINE n == NewEntry(p, t, w)
<1>1. /\ Arrive(p, t) /\ pending' = pending \cup {n}
      /\ width[p] \in {Unset, w} /\ width' = [width EXCEPT ![p] = w]
  BY DEF PushWaiting, Accept
<1>2. n.width = w /\ n.port = p /\ n.index = t
  BY DEF NewEntry
<1>3. width \in [Ports -> Widths \cup {Unset}] /\ \A e \in pending : e.width \in Nat /\ e.port \in Ports
  BY DEF SInv, IInv, TypeInv, TypeOK, Entry
<1> HIDE DEF n
<1>4. ASSUME NEW e \in pending' PROVE e.width = width'[e.port] /\ e.index <= front'[e.port]
  <2>1. CASE e = n
    BY <1>1, <1>2, <1>3, <2>1, ArriveFronts
  <2>2. CASE e \in pending
    <3>1. e.width = width[e.port] /\ e.index <= front'[e.port]
      BY <1>1, <2>2, ArriveFronts
    <3>2. e.port = p => width[p] = w
      BY <1>1, <1>3, <2>2, <3>1 DEF Unset
    <3> QED BY <1>1, <1>3, <2>2, <3>1, <3>2
  <2> QED BY <1>1, <2>1, <2>2
<1> QED BY <1>4 DEF SavedStateLoads

\* A higher front, as of a watermark or an end, keeps what a load requires.
LEMMA FrontLoads ==
  ASSUME SInv, NEW p \in Ports, NEW w \in Index,
         front' = [front EXCEPT ![p] = Larger(front[p], w)], UNCHANGED <<pending, width>>
  PROVE  SavedStateLoads'
<1>1. front \in [Ports -> Int] /\ w \in Int
  BY IndexAssumption DEF SInv, IInv, TypeInv, TypeOK, Index
<1>2. \A q \in Ports : front[q] <= front'[q] /\ front'[q] \in Int
  BY <1>1 DEF Larger
<1>3. \A e \in pending : e.index \in Int /\ e.port \in Ports
  BY EntryInts DEF SInv, IInv, TypeInv, TypeOK, Entry
<1>4. ASSUME NEW e \in pending PROVE e.width = width[e.port] /\ e.index <= front'[e.port]
  BY <1>1, <1>2, <1>3 DEF SInv, SavedStateLoads
<1> QED BY <1>4 DEF SavedStateLoads

LEMMA EndLoads ==
  ASSUME SInv, NEW p \in Ports, FlushPort(p)
  PROVE  SavedStateLoads'
<1>1. front' = [front EXCEPT ![p] = kMax] /\ UNCHANGED <<pending, width>>
  BY DEF FlushPort
<1>2. front[p] \in Index /\ kMax \in Index
  BY IndexAssumption DEF SInv, IInv, TypeInv, TypeOK, Index
<1>3. Larger(front[p], kMax) = kMax
  BY <1>2, IndexAssumption DEF Larger, Index
<1> QED BY <1>1, <1>2, <1>3, FrontLoads

LEMMA LoadLoads ==
  ASSUME SInv, SaveAndLoad
  PROVE  SavedStateLoads'
<1>1. /\ pending' = {Renumbered(e) : e \in pending} /\ UNCHANGED <<front, width>>
  BY DEF SaveAndLoad
<1>2. ASSUME NEW e \in pending
      PROVE  /\ Renumbered(e).width = width[Renumbered(e).port]
             /\ Renumbered(e).index <= front[Renumbered(e).port]
  BY RenumberedEvent DEF SInv, SavedStateLoads, IInv
<1> QED BY <1>1, <1>2 DEF SavedStateLoads

LEMMA SInvNext == SInv /\ [Next]_vars => SInv'
<1> SUFFICES ASSUME SInv, [Next]_vars PROVE SavedStateLoads'
  BY NextInv DEF SInv
<1>1. ASSUME NEW p \in Ports, NEW t \in Indexes, NEW w \in Widths,
             PushDirect(p, t, w) \/ PushRefused(p, t, w)
      PROVE  SavedStateLoads'
  <2>1. Arrive(p, t) /\ UNCHANGED <<pending, width>>
    BY <1>1 DEF PushDirect, PushRefused
  <2> QED BY <2>1, ArriveFronts DEF SavedStateLoads
<1>2. ASSUME NEW p \in Ports, NEW t \in Indexes, NEW w \in Widths, PushWaiting(p, t, w)
      PROVE  SavedStateLoads'
  BY <1>2, WaitingLoads
<1>3. ASSUME NEW p \in Ports, NEW w \in Index, OnWatermark(p, w)
      PROVE  SavedStateLoads'
  BY <1>3, FrontLoads DEF OnWatermark
<1>4. ASSUME NEW p \in Ports, FlushPort(p)
      PROVE  SavedStateLoads'
  BY <1>4, EndLoads
<1>5. CASE SaveAndLoad
  BY <1>5, LoadLoads
<1>6. CASE \E m \in Modes : Reset(m)
  BY <1>6 DEF Reset, SavedStateLoads
<1>7. ASSUME pending' \subseteq pending, UNCHANGED <<front, width>>
      PROVE  SavedStateLoads'
  BY <1>7 DEF SInv, SavedStateLoads
<1>8. CASE Handler
  <2>1. pending' \subseteq pending /\ UNCHANGED <<front, width>>
    BY <1>8 DEF Handler, PassHand, ReleaseTop, PassOn, EndPush, EndWatermark, EndFlush, Return
  <2> QED BY <1>7, <2>1
<1>9. CASE (\E t \in Index : MergeTo(t)) \/ UNCHANGED vars
  BY <1>7, <1>9 DEF MergeTo, vars, nodeVars
<1> QED BY <1>1, <1>2, <1>3, <1>4, <1>5, <1>6, <1>8, <1>9 DEF Next

\* The waiting events of every state a session reaches have their port's number
\* of columns and are at or below its front, as a load of them requires.
THEOREM StateLoads == Spec => []SavedStateLoads
<1>1. Init => SavedStateLoads
  BY DEF Init, SavedStateLoads
<1>2. Init => SInv
  BY <1>1, InitInv DEF SInv
<1>3. SInv => SavedStateLoads
  BY DEF SInv
<1> QED BY <1>2, <1>3, SInvNext, PTL DEF Spec

-----------------------------------------------------------------------------
(* Nothing waits in vain.  That an event waits only for one that may come  *)
(* needs the converse of Known: the fronts of a live session are all that  *)
(* its producers promised (LiveFronts), and no ready event stays behind    *)
(* when a handler returns (Settled).  An event at the end of the index is  *)
(* the exception: it is final once the ports below have ended, but their   *)
(* fronts do not pass it, so Indexes must stop short of kMax.              *)

LiveFronts == ~merge_order => front = floor

EndedFronts == \A q \in ended : front[q] = kMax

\* A handler that returned left no event that was ready.
Settled == call = "idle" /\ error # "width" => ~TopReady

OnIndexes == \A e \in pending \cup hand : e.index \in Indexes

PInv == IInv /\ LiveFronts /\ EndedFronts /\ Settled /\ OnIndexes

LEMMA LargerOfFloor ==
  ASSUME NEW a \in Index, NEW b \in Index, a <= b
  PROVE  Larger(a, b) = b
BY IndexAssumption DEF Larger, Index

\* Whatever may come before a final event is ended or past it, and the node
\* knows it.
LEMMA FinalReady ==
  ASSUME PInv, kMax \notin Indexes, ~merge_order, NEW e \in pending, Final(e)
  PROVE  Ready(e.index, e.port)
<1>1. front = floor
  BY DEF PInv, LiveFronts
<1>2. e.index \in Int /\ e.port \in Int /\ e.index < kMax
  BY EntryInts, OMAssumption, IndexAssumption DEF PInv, OnIndexes, IInv, TypeInv, TypeOK, Index
<1>3. SUFFICES ASSUME NEW q \in Ports \ {e.port}
               PROVE  IF q < e.port THEN e.index < Front(q) ELSE e.index <= Front(q)
  BY DEF Ready
<1>4. Front(q) = front[q] /\ front[q] \in Int /\ q \in Int
  BY IndexAssumption, NAssumption DEF Front, PInv, IInv, TypeInv, TypeOK, Index, Ports
<1>5. CASE q \in ended
  BY <1>2, <1>4, <1>5, IndexAssumption DEF PInv, EndedFronts
<1>6. CASE q \notin ended
  <2>1. ~(IF q < e.port THEN floor[q] <= e.index ELSE floor[q] < e.index)
    BY <1>6 DEF Final, MayPrecede
  <2> QED BY <1>1, <1>2, <1>4, <2>1
<1> QED BY <1>5, <1>6

\* The arriving event's index becomes its port's front, as it becomes its floor.
LEMMA ArriveFront ==
  ASSUME PInv, NEW p \in Ports, NEW t \in Indexes, Arrive(p, t)
  PROVE  LiveFronts' /\ EndedFronts'
<1>1. /\ floor' = [floor EXCEPT ![p] = t] /\ front' = [front EXCEPT ![p] = Larger(front[p], t)]
      /\ floor[p] <= t /\ p \notin ended /\ UNCHANGED <<merge_order, ended>>
  BY DEF Arrive, MaySend, MayPromise, Note
<1>2. front \in [Ports -> Index] /\ floor \in [Ports -> Index] /\ t \in Index /\ ended \subseteq Ports
  BY OMAssumption DEF PInv, IInv, TypeInv, TypeOK
<1>3. ASSUME ~merge_order PROVE front' = floor'
  <2>1. front = floor
    BY <1>3 DEF PInv, LiveFronts
  <2>2. Larger(front[p], t) = t
    BY <1>1, <1>2, <2>1, LargerOfFloor
  <2> QED BY <1>1, <2>1, <2>2
<1>4. EndedFronts'
  BY <1>1, <1>2 DEF PInv, EndedFronts
<1> QED BY <1>1, <1>3, <1>4 DEF LiveFronts

\* A load renumbers the waiting events in their order: the first stays first.
LEMMA LoadTop ==
  ASSUME IInv, SaveAndLoad, NEW x, IsTop(x)'
  PROVE  \E e \in pending : IsTop(e) /\ e.index = x.index /\ e.port = x.port
<1>1. /\ pending' = {Renumbered(d) : d \in pending} /\ x \in pending'
      /\ \A y \in pending' \ {x} : HeapBefore(x, y)
  BY DEF SaveAndLoad, IsTop, HeapBefore
<1>2. PICK e \in pending : x = Renumbered(e)
  BY <1>1
<1>3. x.index = e.index /\ x.port = e.port /\ x.seq = Cardinality(Preceding(e))
  BY <1>2, RenumberedEvent DEF IInv
<1>4. ASSUME NEW d \in pending \ {e} PROVE HeapBefore(e, d)
  <2>1. /\ e.index \in Int /\ e.port \in Int /\ e.seq \in Int /\ e.nth \in Int
        /\ d.index \in Int /\ d.port \in Int /\ d.seq \in Int /\ d.nth \in Int
    BY EntryInts DEF IInv, TypeInv, TypeOK
  <2>2. HeapBefore(e, d) \/ HeapBefore(d, e)
    BY <2>1 DEF HeapBefore, IInv, Numbered
  <2>3. ASSUME HeapBefore(d, e) PROVE FALSE
    <3>1. Cardinality(Preceding(d)) < Cardinality(Preceding(e))
      BY <2>3, PrecedingGrows DEF IInv
    <3>2. Cardinality(Preceding(d)) \in Nat /\ Cardinality(Preceding(e)) \in Nat
      BY PrecedingCount DEF IInv
    <3>3. /\ Renumbered(d).seq = Cardinality(Preceding(d))
          /\ Renumbered(d).index = d.index /\ Renumbered(d).port = d.port
      BY RenumberedEvent DEF IInv
    <3>4. Renumbered(d) # x
      BY <1>3, <3>1, <3>2, <3>3
    <3>5. HeapBefore(x, Renumbered(d))
      BY <1>1, <3>4
    <3> QED BY <1>3, <2>1, <2>3, <3>1, <3>2, <3>3, <3>5 DEF HeapBefore
  <2> QED BY <2>2, <2>3
<1>5. IsTop(e)
  BY <1>4 DEF IsTop
<1> QED BY <1>3, <1>5

LEMMA PInvInit == Init => PInv
<1> SUFFICES ASSUME Init PROVE PInv
  OBVIOUS
<1>1. front = floor /\ ended = {} /\ pending = {} /\ hand = {}
  BY DEF Init, SInit
<1>2. ~TopReady
  BY <1>1 DEF TopReady
<1> QED BY <1>1, <1>2, InitInv DEF PInv, LiveFronts, EndedFronts, Settled, OnIndexes

LEMMA PInvNext == PInv /\ [Next]_vars => PInv'
<1> SUFFICES ASSUME PInv, [Next]_vars
             PROVE  LiveFronts' /\ EndedFronts' /\ Settled' /\ OnIndexes'
  BY NextInv DEF PInv
<1>0. hand # {} => call = "push"
  BY DEF PInv, IInv, Known
<1>1. ASSUME NEW p \in Ports, NEW t \in Indexes, NEW w \in Widths,
             PushDirect(p, t, w) \/ PushWaiting(p, t, w) \/ PushRefused(p, t, w)
      PROVE  LiveFronts' /\ EndedFronts' /\ Settled' /\ OnIndexes'
  <2>1. LiveFronts' /\ EndedFronts'
    BY <1>1, ArriveFront DEF PushDirect, PushWaiting, PushRefused
  <2>2. Settled'
    BY <1>1 DEF PushDirect, PushWaiting, PushRefused, Accept, Settled
  <2>3. OnIndexes'
    <3>1. pending' \cup hand' \subseteq pending \cup hand \cup {NewEntry(p, t, w)}
      BY <1>1 DEF PushDirect, PushWaiting, PushRefused, Accept
    <3>2. NewEntry(p, t, w).index \in Indexes
      BY DEF NewEntry
    <3> QED BY <3>1, <3>2 DEF PInv, OnIndexes
  <2> QED BY <2>1, <2>2, <2>3
<1>2. ASSUME NEW p \in Ports, NEW w \in Index, OnWatermark(p, w)
      PROVE  LiveFronts' /\ EndedFronts' /\ Settled' /\ OnIndexes'
  <2>1. /\ floor' = [floor EXCEPT ![p] = Larger(floor[p], w)]
        /\ front' = [front EXCEPT ![p] = Larger(front[p], w)]
        /\ p \notin ended /\ call' = "watermark"
        /\ UNCHANGED <<ended, merge_order, pending, hand>>
    BY <1>2 DEF OnWatermark, MayPromise
  <2>2. ended \subseteq Ports /\ front \in [Ports -> Index]
    BY DEF PInv, IInv, TypeInv, TypeOK
  <2> QED BY <2>1, <2>2 DEF PInv, LiveFronts, EndedFronts, Settled, OnIndexes
<1>3. ASSUME NEW p \in Ports, FlushPort(p)
      PROVE  LiveFronts' /\ EndedFronts' /\ Settled' /\ OnIndexes'
  <2>1. /\ floor' = [floor EXCEPT ![p] = kMax] /\ front' = [front EXCEPT ![p] = kMax]
        /\ ended' = ended \cup {p} /\ call' = "flush"
        /\ UNCHANGED <<merge_order, pending, hand>>
    BY <1>3 DEF FlushPort
  <2>2. ended \subseteq Ports /\ front \in [Ports -> Index]
    BY DEF PInv, IInv, TypeInv, TypeOK
  <2> QED BY <2>1, <2>2 DEF PInv, LiveFronts, EndedFronts, Settled, OnIndexes
<1>4. CASE PassHand \/ ReleaseTop
  <2>1. /\ pending' \subseteq pending /\ hand' \subseteq hand /\ call # "idle"
        /\ UNCHANGED <<floor, ended, front, merge_order, call>>
    BY <1>0, <1>4 DEF PassHand, ReleaseTop, PassOn
  <2> QED BY <2>1 DEF PInv, LiveFronts, EndedFronts, Settled, OnIndexes
<1>5. CASE EndPush \/ EndWatermark \/ EndFlush
  <2>1. /\ ~TopReady
        /\ UNCHANGED <<floor, ended, front, merge_order, gfront, pending, hand>>
    BY <1>5 DEF EndPush, EndWatermark, EndFlush, Return, streamVars
  <2>2. ~TopReady'
    BY <2>1 DEF TopReady, IsTop, Ready, Front, HeapBefore
  <2> QED BY <2>1, <2>2 DEF PInv, LiveFronts, EndedFronts, Settled, OnIndexes
<1>6. ASSUME NEW t \in Index, MergeTo(t)
      PROVE  LiveFronts' /\ EndedFronts' /\ Settled' /\ OnIndexes'
  <2>1. /\ merge_order
        /\ UNCHANGED <<ended, front, merge_order, gfront, pending, hand, call, error>>
    BY <1>6 DEF MergeTo, nodeVars, callVars
  <2>2. TopReady' <=> TopReady
    BY <2>1 DEF TopReady, IsTop, Ready, Front, HeapBefore
  <2> QED BY <2>1, <2>2 DEF PInv, LiveFronts, EndedFronts, Settled, OnIndexes
<1>7. ASSUME NEW m \in Modes, Reset(m)
      PROVE  LiveFronts' /\ EndedFronts' /\ Settled' /\ OnIndexes'
  <2>1. front' = floor' /\ ended' = {} /\ pending' = {} /\ hand' = {}
    BY <1>7, IdleHand DEF Reset, Restart, PInv
  <2>2. ~TopReady'
    BY <2>1 DEF TopReady
  <2> QED BY <2>1, <2>2 DEF LiveFronts, EndedFronts, Settled, OnIndexes
<1>8. CASE SaveAndLoad
  <2>1. /\ pending' = {Renumbered(e) : e \in pending}
        /\ UNCHANGED <<floor, ended, front, merge_order, gfront, hand, call, error>>
    BY <1>8 DEF SaveAndLoad, streamVars, callVars
  <2>2. TopReady' => TopReady
    <3>1. SUFFICES ASSUME TopReady' PROVE TopReady
      OBVIOUS
    <3>2. PICK x : IsTop(x)' /\ Ready(x.index, x.port)'
      BY <3>1 DEF TopReady
    <3>3. PICK e \in pending : IsTop(e) /\ e.index = x.index /\ e.port = x.port
      BY <1>8, <3>2, LoadTop DEF PInv
    <3>4. Ready(e.index, e.port)
      BY <2>1, <3>2, <3>3 DEF Ready, Front
    <3> QED BY <3>3, <3>4 DEF TopReady
  <2>3. OnIndexes'
    BY <2>1, RenumberedEvent DEF PInv, IInv, OnIndexes
  <2> QED BY <2>1, <2>2, <2>3 DEF PInv, LiveFronts, EndedFronts, Settled
<1>9. CASE UNCHANGED vars
  <2>1. TopReady' <=> TopReady
    BY <1>9 DEF vars, nodeVars, TopReady, IsTop, Ready, Front, HeapBefore
  <2> QED BY <1>9, <2>1 DEF vars, streamVars, nodeVars, callVars, PInv, LiveFronts, EndedFronts,
                            Settled, OnIndexes
<1> QED BY <1>1, <1>2, <1>3, <1>4, <1>5, <1>6, <1>7, <1>8, <1>9 DEF Next, Handler

\* Between two calls of a live session an event waits only for a producer that
\* may still send an earlier one.  The hypothesis is needed: an event at kMax,
\* the end of the index, stays behind the ends of the ports (the run om_last_index).
THEOREM WaitsForCause ==
  ASSUME kMax \notin Indexes
  PROVE  Spec => []NothingWaitsInVain
<1>1. PInv => NothingWaitsInVain
  <2> SUFFICES ASSUME PInv, call = "idle", error # "width", ~merge_order,
                      NEW e \in pending, IsTop(e), Final(e)
               PROVE  FALSE
    BY DEF NothingWaitsInVain
  <2>1. Ready(e.index, e.port)
    BY FinalReady
  <2> QED BY <2>1 DEF PInv, Settled, TopReady
<1> QED BY <1>1, PInvInit, PInvNext, PTL DEF Spec

-----------------------------------------------------------------------------
(* The flush comes last.  When the last port has ended every front is at   *)
(* the end of the index, so release() empties the heap before the node     *)
(* below is flushed; what it rests on is that a heap which is not empty    *)
(* has a first event.                                                      *)

LEMMA LeastNatural ==
  ASSUME NEW S, S \subseteq Nat, S # {}
  PROVE  \E m \in S : \A k \in S : m <= k
<1> DEFINE R == OpToRel(<, Nat)
<1>1. IsWellFoundedOn(R, Nat)
  BY NatLessThanWellFounded
<1>2. \A x, y \in Nat : <<x, y>> \in R <=> x < y
  BY DEF OpToRel
<1> HIDE DEF R
<1>3. PICK m \in S : \A k \in S : <<k, m>> \notin R
  BY <1>1, WFMin
<1>4. \A k \in S : k \in Nat /\ m \in Nat /\ ~(k < m)
  BY <1>2, <1>3
<1> QED BY <1>4

\* The numbers of the waiting events of a port tell them apart.
Distinct == \A a, b \in pending : a.port = b.port /\ a.seq = b.seq => a = b

LEMMA IInvDistinct == IInv => Distinct
<1> SUFFICES ASSUME IInv, NEW a \in pending, NEW b \in pending, a.port = b.port, a.seq = b.seq
             PROVE  a = b
  BY DEF Distinct
<1>1. a.nth \in Int /\ b.nth \in Int /\ a.seq \in Int
  BY EntryInts DEF IInv, TypeInv, TypeOK
<1> QED BY <1>1 DEF IInv, Numbered

\* The waiting event that the fewest come before is the first.
LEMMA HeapHasTop ==
  ASSUME TypeInv, pending # {}, Distinct
  PROVE  \E e \in pending : IsTop(e)
<1> DEFINE S == {Cardinality(Preceding(e)) : e \in pending}
<1>1. S \subseteq Nat /\ S # {}
  BY PrecedingCount
<1>2. PICK m \in S : \A k \in S : m <= k
  BY <1>1, LeastNatural
<1>3. PICK e \in pending : m = Cardinality(Preceding(e))
  OBVIOUS
<1>4. ASSUME NEW d \in pending \ {e} PROVE HeapBefore(e, d)
  <2>1. /\ e.index \in Int /\ e.port \in Int /\ e.seq \in Int /\ e.nth \in Int
        /\ d.index \in Int /\ d.port \in Int /\ d.seq \in Int /\ d.nth \in Int
    BY EntryInts DEF TypeInv, TypeOK
  <2>2. HeapBefore(e, d) \/ HeapBefore(d, e)
    BY <2>1 DEF HeapBefore, Distinct
  <2>3. Cardinality(Preceding(e)) <= Cardinality(Preceding(d))
    BY <1>2, <1>3
  <2>4. HeapBefore(d, e) => Cardinality(Preceding(d)) < Cardinality(Preceding(e))
    BY PrecedingGrows
  <2>5. Cardinality(Preceding(d)) \in Nat /\ Cardinality(Preceding(e)) \in Nat
    BY PrecedingCount
  <2> QED BY <2>2, <2>3, <2>4, <2>5
<1> QED BY <1>4 DEF IsTop

\* Ports end one by one, and the node below is flushed once, with nothing held.
Ends ==
  /\ flushes = 0 => flushed = ended
  /\ flushes > 0 => flushes = 1 /\ ended = Ports /\ call = "idle" /\ pending = {} /\ hand = {}

FInv == PInv /\ Ends

\* With every port at the end of the index, every event is ready.
LEMMA EndReady ==
  ASSUME PInv, kMax \notin Indexes, ended = Ports, NEW e \in pending
  PROVE  Ready(e.index, e.port)
<1>1. e.index \in Int /\ e.index < kMax
  <2>1. e.index \in Indexes
    BY DEF PInv, OnIndexes
  <2>2. e.index \in Index /\ e.index # kMax
    BY <2>1, OMAssumption
  <2> QED BY <2>2, IndexAssumption DEF Index
<1>2. ASSUME NEW q \in Ports PROVE Front(q) = kMax
  <2>1. front[q] = kMax /\ gfront \in Index
    BY DEF PInv, EndedFronts, IInv, TypeInv, TypeOK
  <2> QED BY <2>1, IndexAssumption DEF Front, Larger, Index
<1> QED BY <1>1, <1>2, IndexAssumption DEF Ready

LEMMA FlushEmpty ==
  ASSUME PInv, kMax \notin Indexes, ended = Ports, hand = {}, ~TopReady
  PROVE  pending = {}
BY HeapHasTop, IInvDistinct, EndReady DEF PInv, IInv, TopReady

LEMMA FInvNext ==
  ASSUME kMax \notin Indexes
  PROVE  FInv /\ [Next]_vars => FInv'
<1> SUFFICES ASSUME FInv, [Next]_vars PROVE Ends'
  BY PInvNext DEF FInv
<1>0. /\ flushes \in Nat /\ (hand # {} => call = "push")
      /\ ended \subseteq Ports /\ flushed \subseteq Ports
  BY DEF FInv, PInv, IInv, Known, TypeInv, TypeOK
<1>1. ASSUME NEW p \in Ports, p \notin ended PROVE flushes = 0
  BY <1>0, <1>1 DEF FInv, Ends
<1>2. CASE \E p \in Ports, t \in Indexes, w \in Widths :
             PushDirect(p, t, w) \/ PushWaiting(p, t, w) \/ PushRefused(p, t, w)
  <2>1. UNCHANGED <<flushes, flushed, ended>> /\ flushes = 0
    BY <1>1, <1>2 DEF PushDirect, PushWaiting, PushRefused, Arrive, MaySend, MayPromise
  <2> QED BY <2>1 DEF FInv, Ends
<1>3. CASE \E p \in Ports, w \in Index : OnWatermark(p, w)
  <2>1. UNCHANGED <<flushes, flushed, ended>> /\ flushes = 0
    BY <1>1, <1>3 DEF OnWatermark, MayPromise
  <2> QED BY <2>1 DEF FInv, Ends
<1>4. CASE \E p \in Ports : FlushPort(p)
  <2>1. PICK p \in Ports : /\ flushed' = flushed \cup {p} /\ ended' = ended \cup {p}
                           /\ flushes = 0 /\ UNCHANGED flushes
    BY <1>1, <1>4 DEF FlushPort
  <2> QED BY <2>1 DEF FInv, Ends
<1>5. CASE PassHand \/ ReleaseTop
  <2>1. UNCHANGED <<flushes, flushed, ended>> /\ call # "idle"
    BY <1>0, <1>5 DEF PassHand, ReleaseTop, PassOn
  <2> QED BY <1>0, <2>1 DEF FInv, Ends
<1>6. CASE EndPush \/ EndWatermark
  <2>1. UNCHANGED <<flushes, flushed, ended>> /\ call # "idle"
    BY <1>6 DEF EndPush, EndWatermark, Return, streamVars
  <2> QED BY <1>0, <2>1 DEF FInv, Ends
<1>7. CASE EndFlush
  <2>1. /\ call = "flush" /\ call' = "idle" /\ hand = {} /\ ~TopReady
        /\ UNCHANGED <<ended, pending, hand>>
    BY <1>7 DEF EndFlush, Return, streamVars
  <2>2. flushes = 0 /\ flushed = ended
    BY <1>0, <2>1 DEF FInv, Ends
  <2>3. CASE flushed = Ports
    <3>1. pending = {}
      BY <2>1, <2>2, <2>3, FlushEmpty DEF FInv
    <3>2. flushes' = 1
      BY <1>7, <2>2, <2>3 DEF EndFlush
    <3> QED BY <2>1, <2>2, <2>3, <3>1, <3>2 DEF Ends
  <2>4. CASE flushed # Ports
    BY <1>7, <2>1, <2>2, <2>4 DEF EndFlush, Ends
  <2> QED BY <2>3, <2>4
<1>8. CASE \E t \in Index : MergeTo(t)
  BY <1>8 DEF MergeTo, nodeVars, callVars, FInv, Ends
<1>9. CASE \E m \in Modes : Reset(m)
  BY <1>9 DEF Reset, Restart, Ends
<1>10. CASE SaveAndLoad
  <2>1. UNCHANGED <<flushes, flushed, ended, call, hand>> /\ (pending = {} => pending' = {})
    BY <1>10 DEF SaveAndLoad, streamVars, callVars
  <2> QED BY <2>1 DEF FInv, Ends
<1>11. CASE UNCHANGED vars
  BY <1>11 DEF vars, streamVars, nodeVars, callVars, FInv, Ends
<1> QED BY <1>2, <1>3, <1>4, <1>5, <1>6, <1>7, <1>8, <1>9, <1>10, <1>11 DEF Next, Handler

\* Once every port has ended every waiting event goes on before the flush goes
\* down, which it does once, if no event is at the end of the index; with one
\* that is, the run om_last_index shows it left behind.
THEOREM FlushComesLast ==
  ASSUME kMax \notin Indexes
  PROVE  Spec => []FlushReleasesAll
<1>1. Init => FInv
  BY PInvInit DEF Init, SInit, FInv, Ends
<1>2. LInv /\ FInv => FlushReleasesAll
  BY DEF LInv, FInv, Ends, NothingLost, FlushReleasesAll
<1> QED BY <1>1, <1>2, FInvNext, LInvInit, LInvNext, PTL DEF Spec

-----------------------------------------------------------------------------
(* A session: the merge, the Resample and the calls that drive them.       *)

-----------------------------------------------------------------------------
(* The invariant.  Base holds in every state, Going until a flush was      *)
(* rejected, Clean until any call was.  An event at the end of the index   *)
(* has no place before the end of the inputs, so what is said of that end  *)
(* needs Indexes to stop short of kMax.                                    *)

SessionType ==
  /\ session \in {"idle", "advance", "flush"} /\ input \in 0 .. N
  /\ now \in Index /\ advanced \in Index /\ settled \in Index
  /\ in_last \in [Ports -> Index] /\ closed \in BOOLEAN
  /\ bucket \in Nat \cup {None} /\ has_any \in BOOLEAN
  /\ rows \in Seq(Nat)

\* The session calls the merge in one of its calls.
Calls ==
  /\ call = "push" => session = "idle"
  /\ call = "watermark" => session = "advance"
  /\ call = "flush" => session = "flush"
  /\ closed => session = "idle" /\ call = "idle"
  /\ session = "advance" => now <= advanced
  /\ ~merge_order

\* What the merge holds, also after a call that was rejected.
Heap ==
  /\ \A e \in pending : e.seq < next_seq
  /\ \A a, b \in pending : a.seq = b.seq => a = b
  /\ hand # {} => call = "push" /\ pending = {}
  /\ \A a, b \in hand : a = b
  /\ \A e \in hand : Ready(e.index, e.port)
  /\ \A e \in Held : e.index \in Indexes /\ e.index <= front[e.port]

\* The merge expects of an input no more than the session checks of it.
Fronts ==
  \A p \in Ports :
    \/ front[p] <= Larger(in_last[p], advanced)
    \/ front[p] = kMax /\ (session = "flush" \/ closed \/ "flush" \in rejected)

Base == TypeInv /\ SessionType /\ Calls /\ Heap /\ Fronts

\* No event that still comes to the Resample is before its open bucket, and
\* after the end of the inputs none comes.
Level ==
  /\ bucket # None =>
       /\ \A p \in Ports : bucket <= Bucket(front[p])
       /\ \A e \in Held : bucket <= Bucket(e.index)
  /\ kMax \notin Indexes /\ bucket = None /\ rows # <<>> =>
       Held = {} /\ \A p \in Ports : front[p] = kMax

\* The bars up to the open bucket are out.
Chain ==
  kMax \notin Indexes =>
    /\ \A i \in 1 .. Len(rows) - 1 : rows[i + 1] = rows[i] + 1
    /\ bucket # None /\ rows # <<>> => rows[Len(rows)] + 1 = bucket

Going == "flush" \notin rejected => Level /\ Chain

\* What the inputs promised in the calls that returned, and in the one that runs.
Promised ==
  /\ \A p \in Ports : settled <= front[p]
  /\ \A p \in Ports : p < input =>
       /\ session = "advance" => now <= front[p]
       /\ session = "flush" => front[p] = kMax
  /\ closed => \A p \in Ports : front[p] = kMax

\* The Resample has closed what the merge's watermark closes.
Sunk ==
  /\ call = "idle" => \E low \in Index : IsLow(low) /\ low <= last_forwarded
  /\ bucket # None => Bucket(last_forwarded) <= bucket
  /\ kMax \notin Indexes /\ last_forwarded = kMax => bucket = None

\* The bars are those of the events that were passed on, up to the last event
\* or advance.
Barred ==
  /\ \A d \in Delivered : HasBar(Bucket(d.index)) \/ (bucket = Bucket(d.index) /\ has_any)
  /\ has_any => bucket # None /\ \E e \in taken : Bucket(e.index) = bucket
  /\ bucket # None => \E e \in taken : Bucket(e.index) <= bucket
  /\ \A i \in 1 .. Len(rows) :
       /\ \E e \in taken : Bucket(e.index) <= rows[i]
       /\ (\E e \in taken : rows[i] <= Bucket(e.index)) \/ rows[i] < Bucket(advanced)
  /\ \A p \in Ports : in_last[p] = kMin \/ \E e \in taken : e.index = in_last[p]

Clean == rejected = {} => LInv /\ PInv /\ error = "none" /\ Promised /\ Sunk /\ Barred

SessionInv == Base /\ Going /\ Clean

-----------------------------------------------------------------------------
(* Buckets.                                                                *)

LEMMA BucketType ==
  ASSUME NEW t \in Index
  PROVE  Bucket(t) \in Nat
BY SessionAssumption, IndexAssumption DEF Bucket, Index

LEMMA BucketGrows ==
  ASSUME NEW s \in Index, NEW t \in Index, s <= t
  PROVE  Bucket(s) <= Bucket(t)
<1> DEFINE a == s \div BarWidth
           b == t \div BarWidth
<1>1. BarWidth \in Nat /\ BarWidth > 0 /\ s \in Nat /\ t \in Nat
  BY SessionAssumption, IndexAssumption DEF Index
<1>2. a \in Nat /\ b \in Nat
  BY <1>1
<1>3. BarWidth * a <= s /\ t < BarWidth * b + BarWidth
  BY <1>1
<1>4. SUFFICES ASSUME b + 1 <= a PROVE FALSE
  BY <1>2 DEF Bucket
<1> HIDE DEF a, b
<1>5. BarWidth * (b + 1) <= BarWidth * a
  BY <1>1, <1>2, <1>4
<1>6. BarWidth * (b + 1) = BarWidth * b + BarWidth /\ BarWidth * b \in Int /\ BarWidth * a \in Int
  BY <1>1, <1>2
<1> QED BY <1>1, <1>3, <1>5, <1>6

\* Without merge order a front is what its own port said.
LEMMA LiveFront ==
  ASSUME Base, NEW q \in Ports
  PROVE  Front(q) = front[q] /\ front[q] \in Index /\ front[q] \in Int
BY IndexAssumption DEF Base, Calls, Front, TypeInv, TypeOK, Index

LEMMA LargerInts ==
  ASSUME NEW a \in Index, NEW b \in Index
  PROVE  /\ Larger(a, b) \in Index /\ a \in Int /\ b \in Int /\ Larger(a, b) \in Int
         /\ a <= Larger(a, b) /\ b <= Larger(a, b)
         /\ \A c \in Int : a <= c /\ b <= c => Larger(a, b) <= c
BY IndexAssumption DEF Larger, Index

\* Events come before the end of the index, if Indexes does.
LEMMA BeforeEnd ==
  ASSUME NEW t \in Indexes
  PROVE  t \in Index /\ t \in Int /\ kMax \in Int /\ t <= kMax /\ (kMax \notin Indexes => t < kMax)
BY OMAssumption, IndexAssumption DEF Index

\* A step that leaves the merge alone.
LEMMA SameMerge ==
  ASSUME UNCHANGED vars
  PROVE  /\ TypeInv => TypeInv'
         /\ Heap => Heap'
         /\ Held' = Held /\ Delivered' = Delivered
         /\ \A low : IsLow(low)' <=> IsLow(low)
<1>1. UNCHANGED <<taken, out, floor, ended, front, flushed, merge_order, gfront, width, pending,
                  next_seq, last_forwarded, call, hand, error, flushes, clock>>
  BY DEF vars, streamVars, nodeVars, callVars
<1>2. TypeInv => TypeInv'
  BY <1>1 DEF TypeInv, TypeOK, Finite
<1>3. \A q : Front(q)' = Front(q)
  BY <1>1 DEF Front
<1>4. Held' = Held /\ Delivered' = Delivered
  BY <1>1 DEF Held, Delivered
<1>5. \A t, p : Ready(t, p)' <=> Ready(t, p)
  BY <1>3 DEF Ready
<1>6. Heap => Heap'
  BY <1>1, <1>4, <1>5 DEF Heap
<1>7. \A low : IsLow(low)' <=> IsLow(low)
  BY <1>1, <1>3 DEF IsLow
<1> QED BY <1>2, <1>4, <1>6, <1>7

LEMMA MergeStep ==
  ASSUME LInv, PInv, [Next]_vars
  PROVE  LInv' /\ PInv'
BY LInvNext, PInvNext

\* The step by step growth of what the bars are compared with.
LEMMA BarredGrows ==
  ASSUME Barred, SessionType, SessionType', taken \subseteq taken', advanced <= advanced',
         UNCHANGED <<out, resampleVars>>,
         \A p \in Ports : in_last'[p] # in_last[p] => \E e \in taken' : e.index = in_last'[p]
  PROVE  Barred'
<1>1. Delivered' = Delivered /\ UNCHANGED <<rows, bucket, has_any>>
  BY DEF Delivered, resampleVars
<1>2. \A b : HasBar(b)' <=> HasBar(b)
  BY <1>1 DEF HasBar
<1>3. /\ \A d \in Delivered' : HasBar(Bucket(d.index))' \/ (bucket' = Bucket(d.index) /\ has_any')
      /\ has_any' => bucket' # None /\ \E e \in taken' : Bucket(e.index) = bucket'
      /\ bucket' # None => \E e \in taken' : Bucket(e.index) <= bucket'
  BY <1>1, <1>2 DEF Barred
<1>4. ASSUME NEW i \in 1 .. Len(rows)
      PROVE  /\ \E e \in taken' : Bucket(e.index) <= rows[i]
             /\ (\E e \in taken' : rows[i] <= Bucket(e.index)) \/ rows[i] < Bucket(advanced')
  <2>1. rows[i] \in Nat /\ Bucket(advanced) \in Nat /\ Bucket(advanced') \in Nat
    BY BucketType DEF SessionType
  <2>2. Bucket(advanced) <= Bucket(advanced')
    BY BucketGrows DEF SessionType
  <2> QED BY <2>1, <2>2 DEF Barred
<1>5. \A p \in Ports : in_last'[p] = kMin \/ \E e \in taken' : e.index = in_last'[p]
  BY DEF Barred
<1> QED BY <1>1, <1>3, <1>4, <1>5 DEF Barred

-----------------------------------------------------------------------------
(* The calls of the session.                                               *)

LEMMA PushFacts ==
  ASSUME Base, NEW p \in Ports, NEW t \in Indexes, SessionPush(p, t)
  PROVE  /\ TypeInv'
         /\ NewEntry(p, t, 1) \in Entry /\ NewEntry(p, t, 1).index = t /\ NewEntry(p, t, 1).port = p
         /\ NewEntry(p, t, 1).seq = next_seq
         /\ front' = [front EXCEPT ![p] = Larger(front[p], t)]
         /\ taken' = taken \cup {EventOf(NewEntry(p, t, 1))} /\ Held' = Held \cup {NewEntry(p, t, 1)}
         /\ call = "idle" /\ call' = "push" /\ error = "none" /\ hand = {}
         /\ UNCHANGED <<out, merge_order, last_forwarded, error>>
<1> DEFINE e == NewEntry(p, t, 1)
<1>1. 1 \in Widths
  BY SessionAssumption
<1>2. PushDirect(p, t, 1) \/ PushWaiting(p, t, 1)
  BY DEF SessionPush
<1>3. Arrive(p, t)
  BY <1>2 DEF PushDirect, PushWaiting
<1>4. e \in Entry
  BY <1>1, NewEntryType DEF Base
<1>5. e.index = t /\ e.port = p /\ e.seq = next_seq
  BY DEF NewEntry
<1>6. TypeInv'
  BY <1>1, <1>2, PushDirectType, PushWaitingType DEF Base
<1>7. /\ front' = [front EXCEPT ![p] = Larger(front[p], t)]
      /\ UNCHANGED <<out, merge_order, last_forwarded>>
      /\ call = "idle" /\ error = "none"
  BY <1>3 DEF Arrive, Note, MaySend, MayPromise, Idle
<1>8. hand = {}
  BY <1>7 DEF Base, Heap
<1>9. taken' = taken \cup {EventOf(e)} /\ call' = "push" /\ UNCHANGED error
  BY <1>2 DEF PushDirect, PushWaiting, Accept
<1>10. pending' \cup hand' = pending \cup hand \cup {e}
  BY <1>2, <1>8 DEF PushDirect, PushWaiting
<1> QED BY <1>4, <1>5, <1>6, <1>7, <1>8, <1>9, <1>10 DEF Held

LEMMA PushInv ==
  ASSUME SessionInv, NEW p \in Ports, NEW t \in Indexes, SessionPush(p, t)
  PROVE  SessionInv'
<1>0. PICK e : e = NewEntry(p, t, 1)
  OBVIOUS
<1>1. Base /\ Going /\ Clean
  BY DEF SessionInv
<1>2. /\ TypeInv' /\ e \in Entry /\ e.index = t /\ e.port = p /\ e.seq = next_seq
      /\ front' = [front EXCEPT ![p] = Larger(front[p], t)]
      /\ taken' = taken \cup {EventOf(e)} /\ Held' = Held \cup {e}
      /\ call = "idle" /\ call' = "push" /\ error = "none" /\ hand = {}
      /\ UNCHANGED <<out, merge_order, last_forwarded, error>>
  BY <1>0, <1>1, PushFacts
<1>3. /\ session = "idle" /\ ~closed /\ in_last[p] <= t /\ advanced <= t
      /\ in_last' = [in_last EXCEPT ![p] = t]
      /\ UNCHANGED <<session, input, now, advanced, closed, rejected, settled, bucket, has_any, rows>>
  BY DEF SessionPush, Quiet, resampleVars
<1>4. t \in Index /\ t \in Int /\ in_last[p] \in Index /\ advanced \in Index /\ front[p] \in Index
      /\ front \in [Ports -> Index] /\ in_last \in [Ports -> Index]
  BY <1>1, BeforeEnd DEF Base, SessionType, TypeInv, TypeOK
<1>5. t <= Larger(front[p], t) /\ front[p] <= Larger(front[p], t)
  BY <1>4, LargerInts
<1>6. SessionType' /\ Calls'
  BY <1>1, <1>2, <1>3, <1>4 DEF Base, SessionType, Calls
<1>7. Heap'
  <2>1. \A d \in Held' : d.index \in Indexes /\ d.index <= front'[d.port]
    <3>1. ASSUME NEW d \in Held PROVE d.index \in Indexes /\ d.index <= front'[d.port]
      <4>1. d.index \in Indexes /\ d.index <= front[d.port] /\ d.port \in Ports
        BY <1>1, <3>1 DEF Base, Heap, TypeInv, TypeOK, Entry, Held
      <4>2. d.index \in Int /\ front[d.port] \in Int /\ front[p] \in Int /\ Larger(front[p], t) \in Int
        BY <1>4, <4>1, BeforeEnd, LargerInts
      <4> QED BY <1>2, <1>4, <1>5, <4>1, <4>2
    <3>2. e.index \in Indexes /\ e.index <= front'[e.port]
      BY <1>2, <1>4, <1>5
    <3> QED BY <1>2, <3>1, <3>2
  <2>2. CASE PushDirect(p, t, 1)
    <3>1. hand' = {e} /\ pending = {} /\ pending' = {} /\ next_seq' = next_seq /\ Ready(t, p)'
      BY <1>0, <2>2 DEF PushDirect, Accept
    <3>2. Ready(e.index, e.port)'
      <4>1. e.index = t /\ e.port = p
        BY <1>2
      <4> QED BY <3>1, <4>1 DEF Ready, Front
    <3> QED BY <1>2, <2>1, <3>1, <3>2 DEF Heap
  <2>3. CASE PushWaiting(p, t, 1)
    <3>1. hand' = {} /\ pending' = pending \cup {e} /\ next_seq' = next_seq + 1
      BY <1>0, <1>2, <2>3 DEF PushWaiting, Accept
    <3>2. /\ next_seq \in Nat
          /\ \A d \in pending : d.seq \in Int /\ d.seq < next_seq
          /\ \A a, b \in pending : a.seq = b.seq => a = b
      BY <1>1, EntryInts DEF Base, TypeInv, TypeOK, Heap
    <3> QED BY <1>2, <2>1, <3>1, <3>2 DEF Heap
  <2> QED BY <2>2, <2>3 DEF SessionPush
<1>8. Fronts'
  <2>1. Larger(t, advanced) = t
    BY <1>3, <1>4, IndexAssumption DEF Larger, Index
  <2>2. ASSUME NEW q \in Ports, q # p
        PROVE  front'[q] = front[q] /\ in_last'[q] = in_last[q]
    BY <1>2, <1>3, <1>4, <2>2
  <2>3. in_last'[p] = t /\ front'[p] = Larger(front[p], t)
    BY <1>2, <1>3, <1>4
  <2>4. front'[p] = t \/ (front'[p] = front[p] /\ t < front[p])
    BY <1>4, <2>3, IndexAssumption DEF Larger, Index
  <2>5. front[p] <= Larger(in_last[p], advanced) => front[p] <= t
    BY <1>3, <1>4, IndexAssumption DEF Larger, Index
  <2>6. front[p] <= t => front'[p] = t
    BY <1>4, <2>4, IndexAssumption DEF Index
  <2>7. front'[p] = t => front'[p] <= t
    BY <1>4
  <2>8. \/ front'[p] <= Larger(in_last'[p], advanced')
        \/ front'[p] = kMax /\ (session' = "flush" \/ closed' \/ "flush" \in rejected')
    BY <1>1, <1>3, <2>1, <2>3, <2>4, <2>5, <2>6, <2>7 DEF Base, Fronts
  <2>9. \A q \in Ports : q # p =>
          \/ front'[q] <= Larger(in_last'[q], advanced')
          \/ front'[q] = kMax /\ (session' = "flush" \/ closed' \/ "flush" \in rejected')
    BY <1>1, <1>3, <2>2 DEF Base, Fronts
  <2> QED BY <2>8, <2>9 DEF Fronts
<1>9. Going'
  <2>1. SUFFICES ASSUME "flush" \notin rejected PROVE Level' /\ Chain'
    BY <1>3 DEF Going
  <2>2. Level /\ Chain
    BY <1>1, <2>1 DEF Going
  <2>3. front[p] <= t
    <3>1. front[p] <= Larger(in_last[p], advanced)
      BY <1>1, <1>3, <2>1 DEF Base, Fronts
    <3> QED BY <1>3, <1>4, <3>1, IndexAssumption DEF Larger, Index
  <2>4. bucket # None => bucket \in Nat /\ bucket <= Bucket(t) /\ Bucket(front[p]) \in Nat /\ Bucket(t) \in Nat
    <3>1. Bucket(front[p]) \in Nat /\ Bucket(t) \in Nat /\ Bucket(front[p]) <= Bucket(t)
      BY <1>4, <2>3, BucketGrows, BucketType
    <3>2. bucket # None => bucket \in Nat /\ bucket <= Bucket(front[p])
      BY <1>1, <2>2 DEF Level, Base, SessionType
    <3> QED BY <3>1, <3>2
  <2>5. front' = [front EXCEPT ![p] = t]
    BY <1>2, <1>4, <2>3, LargerOfFloor
  <2>6. kMax \notin Indexes => front[p] # kMax
    BY <1>4, <2>3, BeforeEnd
  <2>7. Level'
    BY <1>2, <1>3, <1>4, <2>2, <2>4, <2>5, <2>6 DEF Level
  <2>8. Chain'
    BY <1>3, <2>2 DEF Chain
  <2> QED BY <2>7, <2>8
<1>10. Clean'
  <2>1. SUFFICES ASSUME rejected = {}
                 PROVE  LInv' /\ PInv' /\ error' = "none" /\ Promised' /\ Sunk' /\ Barred'
    BY <1>3 DEF Clean
  <2>2. LInv /\ PInv /\ Promised /\ Sunk /\ Barred
    BY <1>1, <2>1 DEF Clean
  <2>3. Next
    <3>1. 1 \in Widths
      BY SessionAssumption
    <3> QED BY <3>1 DEF Next, SessionPush
  <2>4. LInv' /\ PInv'
    BY <2>2, <2>3, MergeStep
  <2>5. Promised'
    <3>1. ASSUME NEW q \in Ports PROVE settled' <= front'[q]
      <4>1. settled <= front[q] /\ settled \in Int /\ front[q] \in Int /\ Larger(front[p], t) \in Int
        BY <1>1, <1>4, <2>2, LargerInts, IndexAssumption DEF Promised, Base, SessionType, Index
      <4> QED BY <1>2, <1>3, <1>4, <1>5, <4>1
    <3> QED BY <1>3, <3>1 DEF Promised
  <2>6. Sunk'
    BY <1>2, <1>3, <2>2 DEF Sunk
  <2>7. Barred'
    <3>1. advanced <= advanced' /\ UNCHANGED resampleVars
      BY <1>3, <1>4, IndexAssumption DEF resampleVars, Index
    <3>2. EventOf(e).index = t
      BY <1>2, EntryEvent
    <3>3. \A q \in Ports : in_last'[q] # in_last[q] => \E d \in taken' : d.index = in_last'[q]
      BY <1>2, <1>3, <1>4, <3>2
    <3> QED BY <1>1, <1>2, <1>6, <2>2, <3>1, <3>3, BarredGrows DEF Base
  <2> QED BY <1>2, <2>4, <2>5, <2>6, <2>7
<1> QED BY <1>2, <1>6, <1>7, <1>8, <1>9, <1>10 DEF SessionInv, Base

\* advance(w) moves the floor before it calls the first input.
LEMMA AdvanceInv ==
  ASSUME SessionInv, NEW w \in Index, SessionAdvance(w)
  PROVE  SessionInv'
<1>1. Base /\ Going /\ Clean
  BY DEF SessionInv
<1>2. /\ session = "idle" /\ call = "idle" /\ ~closed
      /\ session' = "advance" /\ input' = 0 /\ now' = w /\ advanced' = Larger(advanced, w)
      /\ UNCHANGED vars
      /\ UNCHANGED <<in_last, closed, rejected, settled>>
      /\ UNCHANGED resampleVars
  BY DEF SessionAdvance, Quiet
<1>3. UNCHANGED <<front, merge_order, call, last_forwarded, error, taken, out, bucket, has_any, rows>>
  BY <1>2 DEF vars, streamVars, nodeVars, callVars, resampleVars
<1>4. TypeInv' /\ Heap' /\ Held' = Held /\ Delivered' = Delivered /\ \A low : IsLow(low)' <=> IsLow(low)
  BY <1>1, <1>2, SameMerge DEF Base
<1>5. advanced' \in Index /\ advanced <= advanced' /\ w <= advanced' /\ advanced \in Int /\ advanced' \in Int
  BY <1>1, <1>2, LargerInts DEF Base, SessionType
<1>6. SessionType' /\ Calls'
  <2>1. 0 \in 0 .. N
    BY NAssumption
  <2> QED BY <1>1, <1>2, <1>3, <1>5, <2>1 DEF Base, SessionType, Calls
<1>7. Fronts'
  <2>1. SUFFICES ASSUME NEW q \in Ports, front[q] <= Larger(in_last[q], advanced)
                 PROVE  front[q] <= Larger(in_last[q], advanced')
    BY <1>1, <1>2, <1>3 DEF Base, Fronts
  <2>2. in_last[q] \in Index /\ front[q] \in Int /\ in_last[q] \in Int /\ advanced \in Index
    BY <1>1, LiveFront, LargerInts DEF Base, SessionType
  <2> QED BY <1>5, <2>1, <2>2 DEF Larger
<1>8. Going'
  BY <1>1, <1>2, <1>3, <1>4 DEF Going, Level, Chain
<1>9. Clean'
  <2>1. SUFFICES ASSUME rejected = {}
                 PROVE  LInv' /\ PInv' /\ error' = "none" /\ Promised' /\ Sunk' /\ Barred'
    BY <1>2 DEF Clean
  <2>2. LInv /\ PInv /\ error = "none" /\ Promised /\ Sunk /\ Barred
    BY <1>1, <2>1 DEF Clean
  <2>3. LInv' /\ PInv'
    BY <1>2, <2>2, MergeStep
  <2>4. Promised'
    BY <1>2, <1>3, <2>2, NAssumption DEF Promised, Ports
  <2>5. Sunk'
    BY <1>3, <1>4, <2>2 DEF Sunk
  <2>6. Barred'
    BY <1>1, <1>2, <1>3, <1>5, <1>6, <2>2, BarredGrows DEF Base
  <2> QED BY <1>3, <2>2, <2>3, <2>4, <2>5, <2>6
<1> QED BY <1>4, <1>6, <1>7, <1>8, <1>9 DEF SessionInv, Base

LEMMA FlushInv ==
  ASSUME SessionInv, SessionFlush
  PROVE  SessionInv'
<1>1. Base /\ Going /\ Clean
  BY DEF SessionInv
<1>2. /\ session = "idle" /\ call = "idle" /\ ~closed
      /\ session' = "flush" /\ input' = 0
      /\ UNCHANGED vars
      /\ UNCHANGED <<now, advanced, in_last, closed, rejected, settled>>
      /\ UNCHANGED resampleVars
  BY DEF SessionFlush, Quiet
<1>3. UNCHANGED <<front, merge_order, call, last_forwarded, error, taken, out, bucket, has_any, rows>>
  BY <1>2 DEF vars, streamVars, nodeVars, callVars, resampleVars
<1>4. TypeInv' /\ Heap' /\ Held' = Held /\ Delivered' = Delivered /\ \A low : IsLow(low)' <=> IsLow(low)
  BY <1>1, <1>2, SameMerge DEF Base
<1>5. SessionType' /\ Calls'
  <2>1. 0 \in 0 .. N
    BY NAssumption
  <2> QED BY <1>1, <1>2, <1>3, <2>1 DEF Base, SessionType, Calls
<1>6. Fronts'
  BY <1>1, <1>2, <1>3 DEF Base, Fronts
<1>7. Going'
  BY <1>1, <1>2, <1>3, <1>4 DEF Going, Level, Chain
<1>8. Clean'
  <2>1. SUFFICES ASSUME rejected = {}
                 PROVE  LInv' /\ PInv' /\ error' = "none" /\ Promised' /\ Sunk' /\ Barred'
    BY <1>2 DEF Clean
  <2>2. LInv /\ PInv /\ error = "none" /\ Promised /\ Sunk /\ Barred
    BY <1>1, <2>1 DEF Clean
  <2>3. LInv' /\ PInv'
    BY <1>2, <2>2, MergeStep
  <2>4. Promised'
    BY <1>2, <1>3, <2>2, NAssumption DEF Promised, Ports
  <2>5. Sunk'
    BY <1>3, <1>4, <2>2 DEF Sunk
  <2>6. advanced <= advanced'
    BY <1>1, <1>2, IndexAssumption DEF Base, SessionType, Index
  <2>7. Barred'
    BY <1>1, <1>2, <1>3, <1>5, <2>2, <2>6, BarredGrows DEF Base
  <2> QED BY <1>3, <2>2, <2>3, <2>4, <2>5, <2>7
<1> QED BY <1>4, <1>5, <1>6, <1>7, <1>8 DEF SessionInv, Base

\* An input takes the session's watermark, or its end.
LEMMA NextInputInv ==
  ASSUME SessionInv, NextInput
  PROVE  SessionInv'
<1>1. Base /\ Going /\ Clean
  BY DEF SessionInv
<1>2. /\ call = "idle" /\ session # "idle" /\ input \in Ports
      /\ \/ session = "advance" /\ OnWatermark(input, now)
         \/ session = "flush" /\ FlushPort(input)
      /\ input' = input + 1
      /\ UNCHANGED <<session, now, advanced, in_last, closed, rejected, settled>>
      /\ UNCHANGED resampleVars
  BY DEF NextInput
<1>3. UNCHANGED <<bucket, has_any, rows>>
  BY <1>2 DEF resampleVars
<1>4. /\ now \in Index /\ kMax \in Index /\ front \in [Ports -> Index] /\ front[input] \in Index
      /\ in_last \in [Ports -> Index] /\ advanced \in Index
  BY <1>1, <1>2, IndexAssumption DEF Base, SessionType, TypeInv, TypeOK, Index
<1>5. PICK f \in Index :
        /\ front' = [front EXCEPT ![input] = f] /\ front[input] <= f
        /\ session = "advance" => f = Larger(front[input], now)
        /\ session = "flush" => f = kMax
  <2>1. CASE session = "advance"
    BY <1>2, <1>4, <2>1, LargerInts DEF OnWatermark
  <2>2. CASE session = "flush"
    BY <1>2, <1>4, <2>2, IndexAssumption DEF FlushPort, Index
  <2> QED BY <1>2, <2>1, <2>2
<1>6. /\ call' \in {"watermark", "flush"}
      /\ call' = "watermark" => session = "advance"
      /\ call' = "flush" => session = "flush"
      /\ UNCHANGED <<taken, out, merge_order, pending, next_seq, last_forwarded, hand, error>>
  BY <1>2 DEF OnWatermark, FlushPort
<1>7. TypeInv'
  BY <1>1, <1>2, <1>4, OnWatermarkType, FlushPortType DEF Base
<1>8. \A q \in Ports : front[q] <= front'[q] /\ front[q] \in Int /\ front'[q] \in Index
  BY <1>4, <1>5, IndexAssumption DEF Index
<1>9. SessionType' /\ Calls'
  <2>1. input + 1 \in 0 .. N
    BY <1>2, NAssumption DEF Ports
  <2>2. ~closed
    BY <1>1, <1>2 DEF Base, Calls
  <2> QED BY <1>1, <1>2, <1>3, <1>6, <2>1, <2>2 DEF Base, SessionType, Calls
<1>10. Held' = Held /\ hand = {} /\ Delivered' = Delivered
  BY <1>1, <1>2, <1>6 DEF Held, Base, Heap, Delivered
<1>11. Heap'
  <2>1. ASSUME NEW e \in Held PROVE e.index \in Indexes /\ e.index <= front'[e.port]
    <3>1. e.index \in Indexes /\ e.index <= front[e.port] /\ e.port \in Ports
      BY <1>1 DEF Base, Heap, TypeInv, TypeOK, Entry, Held
    <3> QED BY <1>8, <3>1, BeforeEnd, IndexAssumption DEF Index
  <2> QED BY <1>1, <1>6, <1>10, <2>1 DEF Base, Heap
<1>12. Fronts'
  <2>1. ASSUME NEW q \in Ports, q # input
        PROVE  front'[q] = front[q]
    BY <1>4, <1>5, <2>1
  <2>2. front'[input] = f
    BY <1>2, <1>4, <1>5
  <2>3. CASE session = "advance"
    <3>1. now <= advanced
      BY <1>1, <2>3 DEF Base, Calls
    <3>2. in_last[input] \in Index
      BY <1>2, <1>4
    <3>3. front[input] <= Larger(in_last[input], advanced) => f <= Larger(in_last[input], advanced)
      BY <1>4, <1>5, <2>3, <3>1, <3>2, IndexAssumption DEF Larger, Index
    <3>4. front[input] = kMax => f = kMax
      BY <1>4, <1>5, IndexAssumption DEF Index
    <3> QED BY <1>1, <1>2, <2>1, <2>2, <3>3, <3>4 DEF Base, Fronts
  <2>4. CASE session = "flush"
    BY <1>1, <1>2, <1>5, <2>1, <2>2, <2>4 DEF Base, Fronts
  <2> QED BY <1>2, <2>3, <2>4
<1>13. Going'
  <2>1. SUFFICES ASSUME Level, Chain PROVE Level' /\ Chain'
    BY <1>1, <1>2 DEF Going
  <2>2. ASSUME bucket # None, NEW q \in Ports PROVE bucket <= Bucket(front'[q])
    <3>1. bucket <= Bucket(front[q]) /\ bucket \in Int
      BY <1>1, <2>1, <2>2 DEF Level, Base, SessionType
    <3>2. front[q] \in Index
      BY <1>4
    <3>3. Bucket(front[q]) <= Bucket(front'[q]) /\ Bucket(front[q]) \in Nat /\ Bucket(front'[q]) \in Nat
      BY <1>8, <3>2, BucketGrows, BucketType
    <3> QED BY <3>1, <3>3
  <2>3. \A q \in Ports : front[q] = kMax => front'[q] = kMax
    BY <1>8, IndexAssumption DEF Index
  <2>4. Level'
    BY <1>3, <1>10, <2>1, <2>2, <2>3 DEF Level
  <2> QED BY <1>3, <2>1, <2>4 DEF Chain
<1>14. Clean'
  <2>1. SUFFICES ASSUME rejected = {}
                 PROVE  LInv' /\ PInv' /\ error' = "none" /\ Promised' /\ Sunk' /\ Barred'
    BY <1>2 DEF Clean
  <2>2. LInv /\ PInv /\ error = "none" /\ Promised /\ Sunk /\ Barred
    BY <1>1, <2>1 DEF Clean
  <2>3. Next
    BY <1>2, <1>4 DEF Next
  <2>4. LInv' /\ PInv'
    BY <2>2, <2>3, MergeStep
  <2>5. Promised'
    <3>1. \A q \in Ports : settled' <= front'[q]
      BY <1>1, <1>2, <1>8, <2>2, IndexAssumption DEF Promised, Base, SessionType, Index
    <3>2. ASSUME NEW q \in Ports, q < input'
          PROVE  /\ session' = "advance" => now' <= front'[q]
                 /\ session' = "flush" => front'[q] = kMax
      <4>1. CASE q = input
        BY <1>2, <1>4, <1>5, <4>1, LargerInts
      <4>2. CASE q # input
        <5>1. q < input
          BY <1>2, <3>2, <4>2 DEF Ports
        <5> QED BY <1>2, <1>4, <1>5, <2>2, <4>2, <5>1 DEF Promised
      <4> QED BY <4>1, <4>2
    <3>3. ~closed
      BY <1>1, <1>2 DEF Base, Calls
    <3> QED BY <1>2, <3>1, <3>2, <3>3 DEF Promised
  <2>6. Sunk'
    BY <1>3, <1>6, <2>2 DEF Sunk
  <2>7. advanced <= advanced'
    BY <1>1, <1>2, LargerInts DEF Base, SessionType
  <2>8. Barred'
    BY <1>1, <1>2, <1>6, <1>9, <2>2, <2>7, BarredGrows DEF Base
  <2> QED BY <1>6, <2>2, <2>4, <2>5, <2>6, <2>8
<1> QED BY <1>7, <1>9, <1>11, <1>12, <1>13, <1>14 DEF SessionInv, Base

LEMMA FinishInv ==
  ASSUME SessionInv, Finish
  PROVE  SessionInv'
<1>1. Base /\ Going /\ Clean
  BY DEF SessionInv
<1>2. /\ call = "idle" /\ session # "idle" /\ input \notin Ports
      /\ session' = "idle" /\ input' = 0 /\ now' = kMin
      /\ closed' = (session = "flush")
      /\ settled' = IF session = "advance" THEN Larger(settled, now) ELSE settled
      /\ UNCHANGED vars
      /\ UNCHANGED <<advanced, in_last, rejected>>
      /\ UNCHANGED resampleVars
  BY DEF Finish
<1>3. UNCHANGED <<front, merge_order, call, last_forwarded, error, taken, out, bucket, has_any, rows>>
  BY <1>2 DEF vars, streamVars, nodeVars, callVars, resampleVars
<1>4. TypeInv' /\ Heap' /\ Held' = Held /\ Delivered' = Delivered /\ \A low : IsLow(low)' <=> IsLow(low)
  BY <1>1, <1>2, SameMerge DEF Base
<1>5. /\ ~closed /\ session \in {"advance", "flush"} /\ settled \in Index /\ now \in Index
      /\ kMin \in Index /\ 0 \in 0 .. N
  BY <1>1, <1>2, NAssumption, IndexAssumption DEF Base, Calls, SessionType, Index
<1>6. SessionType' /\ Calls'
  <2>1. settled' \in Index
    BY <1>2, <1>5, LargerInts
  <2> QED BY <1>1, <1>2, <1>3, <1>5, <2>1 DEF Base, SessionType, Calls
<1>7. Fronts'
  BY <1>1, <1>2, <1>3, <1>5 DEF Base, Fronts
<1>8. Going'
  BY <1>1, <1>2, <1>3, <1>4 DEF Going, Level, Chain
<1>9. Clean'
  <2>1. SUFFICES ASSUME rejected = {}
                 PROVE  LInv' /\ PInv' /\ error' = "none" /\ Promised' /\ Sunk' /\ Barred'
    BY <1>2 DEF Clean
  <2>2. LInv /\ PInv /\ error = "none" /\ Promised /\ Sunk /\ Barred
    BY <1>1, <2>1 DEF Clean
  <2>3. LInv' /\ PInv'
    BY <1>2, <2>2, MergeStep
  <2>4. \A q \in Ports : q < input
    BY <1>1, <1>2, NAssumption DEF Base, SessionType, Ports
  <2>5. Promised'
    <3>1. ASSUME NEW q \in Ports PROVE settled' <= front[q] /\ (session = "flush" => front[q] = kMax)
      <4>1. /\ settled <= front[q] /\ (session = "advance" => now <= front[q])
            /\ (session = "flush" => front[q] = kMax)
        BY <2>2, <2>4 DEF Promised
      <4> QED BY <1>1, <1>2, <1>5, <4>1, LiveFront, LargerInts
    <3> QED BY <1>2, <1>3, <3>1 DEF Promised
  <2>6. Sunk'
    BY <1>3, <1>4, <2>2 DEF Sunk
  <2>7. advanced <= advanced'
    BY <1>1, <1>2, LargerInts DEF Base, SessionType
  <2>8. Barred'
    BY <1>1, <1>2, <1>3, <1>6, <2>2, <2>7, BarredGrows DEF Base
  <2> QED BY <1>3, <2>2, <2>3, <2>5, <2>6, <2>8
<1> QED BY <1>4, <1>6, <1>7, <1>8, <1>9 DEF SessionInv, Base

-----------------------------------------------------------------------------
(* The Resample moves to a later bucket.                                   *)

LEMMA BarsOf ==
  ASSUME bucket \in Nat, NEW to \in Nat, bucket < to
  PROVE  /\ Bars(to) \in Seq(Nat) /\ Len(Bars(to)) = to - bucket
         /\ \A i \in 1 .. to - bucket : Bars(to)[i] = bucket + i - 1
<1>1. Bars(to) = [i \in 1 .. to - bucket |-> bucket + i - 1]
  BY DEF Bars
<1>2. to - bucket \in Nat
  OBVIOUS
<1>3. \A i \in 1 .. to - bucket : bucket + i - 1 \in Nat
  OBVIOUS
<1> QED BY <1>1, <1>2, <1>3

LEMMA MovedRows ==
  ASSUME bucket \in Nat, rows \in Seq(Nat), NEW to \in Nat, bucket < to, rows' = rows \o Bars(to)
  PROVE  /\ rows' \in Seq(Nat) /\ rows' # <<>>
         /\ \A i \in 1 .. Len(rows) : rows'[i] = rows[i]
         /\ \A i \in 1 .. Len(rows') : i \in 1 .. Len(rows) \/ (bucket <= rows'[i] /\ rows'[i] < to)
         /\ \A b : HasBar(b) => HasBar(b)'
         /\ \A b : b = bucket => HasBar(b)'
         /\ Chain /\ kMax \notin Indexes =>
              /\ \A i \in 1 .. Len(rows') - 1 : rows'[i + 1] = rows'[i] + 1
              /\ rows'[Len(rows')] + 1 = to
<1> DEFINE more == Bars(to)
           n == Len(rows)
<1>1. /\ more \in Seq(Nat) /\ Len(more) = to - bucket
      /\ \A i \in 1 .. to - bucket : more[i] = bucket + i - 1
  BY BarsOf
<1> HIDE DEF more
<1>2. rows' = rows \o more
  BY DEF more
<1>3. n \in Nat
  OBVIOUS
<1> HIDE DEF n
<1>4. rows' \in Seq(Nat) /\ Len(rows') = n + (to - bucket)
  <2>1. rows \o more \in Seq(Nat) /\ Len(rows \o more) = Len(rows) + Len(more)
    BY <1>1, ConcatProperties
  <2> QED BY <1>1, <1>2, <2>1 DEF n
<1>5. ASSUME NEW i \in 1 .. n PROVE rows'[i] = rows[i]
  <2>1. (rows \o more)[i] = rows[i]
    BY <1>1, <1>3, <1>5 DEF n
  <2> QED BY <1>2, <2>1
<1>6. ASSUME NEW j \in 1 .. to - bucket
      PROVE  n + j \in 1 .. Len(rows') /\ rows'[n + j] = more[j]
  BY <1>1, <1>2, <1>3, <1>4, <1>6 DEF n
<1>7. ASSUME NEW i \in 1 .. Len(rows'), i > n
      PROVE  rows'[i] = bucket + (i - n) - 1
  <2>1. i - n \in 1 .. to - bucket /\ n + (i - n) = i
    BY <1>3, <1>4, <1>7
  <2>2. rows'[i] = more[i - n]
    BY <1>6, <2>1
  <2> QED BY <1>1, <2>1, <2>2
<1>8. \A i \in 1 .. Len(rows') : i \in 1 .. n \/ (bucket <= rows'[i] /\ rows'[i] < to)
  BY <1>3, <1>4, <1>7
<1>9. \A b : HasBar(b) => HasBar(b)'
  <2>1. 1 .. n \subseteq 1 .. Len(rows')
    BY <1>3, <1>4
  <2> QED BY <1>5, <2>1 DEF HasBar, n
<1>10. \A b : b = bucket => HasBar(b)'
  <2>1. n + 1 \in 1 .. Len(rows') /\ rows'[n + 1] = bucket
    <3>1. 1 \in 1 .. to - bucket
      OBVIOUS
    <3> QED BY <1>1, <1>6, <3>1
  <2> QED BY <2>1 DEF HasBar
<1>11. ASSUME Chain, kMax \notin Indexes
       PROVE  /\ \A i \in 1 .. Len(rows') - 1 : rows'[i + 1] = rows'[i] + 1
              /\ rows'[Len(rows')] + 1 = to
  <2>1. rows'[Len(rows')] + 1 = to
    <3>1. Len(rows') \in 1 .. Len(rows') /\ Len(rows') > n
      BY <1>3, <1>4
    <3>2. rows'[Len(rows')] = bucket + (Len(rows') - n) - 1
      BY <1>7, <3>1
    <3> QED BY <1>3, <1>4, <3>2
  <2>2. ASSUME NEW i \in 1 .. Len(rows') - 1 PROVE rows'[i + 1] = rows'[i] + 1
    <3>1. CASE i > n
      <4>1. i \in 1 .. Len(rows') /\ i + 1 \in 1 .. Len(rows') /\ i + 1 > n /\ i \in Int
        BY <1>3, <1>4, <3>1
      <4>2. rows'[i] = bucket + (i - n) - 1
        BY <1>7, <3>1, <4>1
      <4>3. rows'[i + 1] = bucket + (i + 1 - n) - 1
        <5>1. PICK k : k = i + 1
          OBVIOUS
        <5>2. rows'[k] = bucket + (k - n) - 1
          BY <1>7, <4>1, <5>1
        <5> QED BY <1>3, <1>4, <4>1, <5>1, <5>2
      <4> QED BY <1>3, <4>1, <4>2, <4>3
    <3>2. CASE i = n
      <4>1. n \in 1 .. n /\ n # 0 /\ i + 1 = n + 1
        BY <1>3, <3>2, <2>2
      <4>2. rows[n] + 1 = bucket
        BY <1>11, <4>1 DEF Chain, n, None
      <4>3. rows'[n + 1] = bucket
        <5>1. 1 \in 1 .. to - bucket
          OBVIOUS
        <5> QED BY <1>1, <1>6, <5>1
      <4> QED BY <1>5, <3>2, <4>1, <4>2, <4>3
    <3>3. CASE i < n
      <4>1. i \in 1 .. n - 1 /\ i \in 1 .. n /\ i + 1 \in 1 .. n
        BY <1>3, <2>2, <3>3
      <4> QED BY <1>5, <1>11, <4>1 DEF Chain, n
    <3> QED BY <1>3, <2>2, <3>1, <3>2, <3>3
  <2> QED BY <2>1, <2>2
<1>12. rows' # <<>>
  BY <1>3, <1>4
<1> QED BY <1>4, <1>5, <1>8, <1>9, <1>10, <1>11, <1>12 DEF n

LEMMA BarsType ==
  ASSUME bucket \in Nat, rows \in Seq(Nat), NEW to \in Nat
  PROVE  rows \o Bars(to) \in Seq(Nat)
<1>1. Bars(to) \in Seq(Nat)
  <2>1. CASE bucket < to
    BY <2>1, BarsOf
  <2>2. CASE ~(bucket < to)
    BY <2>2 DEF Bars
  <2> QED BY <2>1, <2>2
<1> QED BY <1>1, ConcatProperties

\* The bars that a move emits close those of the events that were passed on.
LEMMA BarredMoves ==
  ASSUME TypeInv, Barred, SessionType, bucket # None, NEW to \in Nat, bucket < to,
         rows' = rows \o Bars(to),
         \A r \in Nat : r < to => (\E e \in taken : r <= Bucket(e.index)) \/ r < Bucket(advanced)
  PROVE  /\ \A d \in Delivered : HasBar(Bucket(d.index))'
         /\ \A i \in 1 .. Len(rows') :
              /\ \E e \in taken : Bucket(e.index) <= rows'[i]
              /\ (\E e \in taken : rows'[i] <= Bucket(e.index)) \/ rows'[i] < Bucket(advanced)
<1>1. bucket \in Nat /\ rows \in Seq(Nat)
  BY DEF SessionType
<1>2. /\ rows' \in Seq(Nat)
      /\ \A i \in 1 .. Len(rows) : rows'[i] = rows[i]
      /\ \A i \in 1 .. Len(rows') : i \in 1 .. Len(rows) \/ (bucket <= rows'[i] /\ rows'[i] < to)
      /\ \A b : HasBar(b) => HasBar(b)'
      /\ \A b : b = bucket => HasBar(b)'
  BY <1>1, MovedRows
<1>3. ASSUME NEW d \in Delivered PROVE HasBar(Bucket(d.index))'
  <2>1. CASE HasBar(Bucket(d.index))
    <3>1. PICK b : b = Bucket(d.index)
      OBVIOUS
    <3>2. HasBar(b)'
      BY <1>2, <2>1, <3>1
    <3> QED BY <3>1, <3>2 DEF HasBar, Bucket
  <2>2. CASE bucket = Bucket(d.index)
    <3>1. PICK b : b = Bucket(d.index)
      OBVIOUS
    <3>2. HasBar(b)'
      BY <1>2, <2>2, <3>1
    <3> QED BY <3>1, <3>2 DEF HasBar, Bucket
  <2> QED BY <2>1, <2>2 DEF Barred
<1>4. ASSUME NEW i \in 1 .. Len(rows')
      PROVE  /\ \E e \in taken : Bucket(e.index) <= rows'[i]
             /\ (\E e \in taken : rows'[i] <= Bucket(e.index)) \/ rows'[i] < Bucket(advanced)
  <2>1. CASE i \in 1 .. Len(rows)
    BY <1>2, <2>1 DEF Barred
  <2>2. CASE bucket <= rows'[i] /\ rows'[i] < to
    <3>1. rows'[i] \in Nat
      BY <1>2
    <3>2. PICK e \in taken : Bucket(e.index) <= bucket
      BY DEF Barred
    <3>3. Bucket(e.index) \in Nat
      BY BucketType DEF TypeInv, TypeOK, Event
    <3>4. Bucket(e.index) <= rows'[i]
      BY <1>1, <2>2, <3>1, <3>2, <3>3
    <3> QED BY <2>2, <3>1, <3>4
  <2> QED BY <1>2, <2>1, <2>2
<1> QED BY <1>3, <1>4

-----------------------------------------------------------------------------
(* The merge passes an event on, and the Resample takes it.                *)

LEMMA PassFacts ==
  ASSUME Base, PassEvent
  PROVE  \E e \in Held :
           /\ Take(e.index) /\ e \in Entry /\ e.index \in Indexes
           /\ Held' = Held \ {e} /\ Delivered' = Delivered \cup {EventOf(e)}
           /\ \A q \in Ports : e.index <= front[q]
           /\ \A d \in Held : e.index <= d.index
           /\ call # "idle" /\ pending' \subseteq pending /\ hand' = {}
           /\ UNCHANGED <<taken, front, merge_order, gfront, next_seq, last_forwarded, call, error>>
<1>1. ASSUME NEW e \in Held, PassOn(e), Ready(e.index, e.port)
      PROVE  /\ Delivered' = Delivered \cup {EventOf(e)} /\ e \in Entry /\ e.index \in Indexes
             /\ \A q \in Ports : e.index <= front[q]
             /\ UNCHANGED <<taken, front, merge_order, gfront, next_seq, last_forwarded, call, error>>
  <2>1. e \in Entry /\ e.index \in Indexes /\ e.index <= front[e.port]
    BY DEF Base, Heap, TypeInv, TypeOK, Held
  <2>2. out' = Append(out, EventOf(e)) /\ out \in Seq(Event)
    BY <1>1 DEF PassOn, Base, TypeInv, TypeOK
  <2>3. Delivered' = Delivered \cup {EventOf(e)}
    <3>1. Len(out') = Len(out) + 1 /\ Len(out) \in Nat
      BY <2>2
    <3>2. \A i \in 1 .. Len(out) : out'[i] = out[i]
      BY <2>2
    <3>3. out'[Len(out) + 1] = EventOf(e)
      BY <2>2
    <3>4. 1 .. Len(out') = 1 .. Len(out) \cup {Len(out) + 1}
      BY <3>1
    <3> QED BY <3>2, <3>3, <3>4 DEF Delivered
  <2>4. ASSUME NEW q \in Ports PROVE e.index <= front[q]
    <3>1. Front(q) = front[q] /\ front[q] \in Int /\ e.index \in Int
      BY <2>1, LiveFront, BeforeEnd
    <3> QED BY <1>1, <2>1, <3>1 DEF Ready
  <2> QED BY <1>1, <2>1, <2>3, <2>4 DEF PassOn
<1>2. CASE PassHand
  <2>1. PICK e \in hand : PassOn(e) /\ hand' = {} /\ UNCHANGED pending
    BY <1>2 DEF PassHand
  <2>2. /\ Ready(e.index, e.port) /\ pending = {} /\ call = "push" /\ \A d \in hand : d = e
        /\ e \in Held
    BY <2>1 DEF Base, Heap, Held
  <2>3. Take(e.index)
    BY <2>1, <2>2 DEF PassEvent, Passing
  <2>4. e.index \in Int
    BY <2>1, EntryInts DEF Base, TypeInv, TypeOK
  <2> QED BY <1>1, <2>1, <2>2, <2>3, <2>4 DEF Held
<1>3. CASE ReleaseTop
  <2>1. PICK e \in pending : /\ IsTop(e) /\ Ready(e.index, e.port) /\ PassOn(e)
                             /\ pending' = pending \ {e}
    BY <1>3 DEF ReleaseTop
  <2>2. hand = {} /\ hand' = {} /\ call # "idle" /\ e \in Held
    BY <1>3 DEF ReleaseTop, Held
  <2>3. \A d \in pending : d.index \in Int /\ d.port \in Int /\ d.seq \in Int
    BY EntryInts DEF Base, TypeInv, TypeOK
  <2>4. \A d \in pending : e.index <= d.index
    BY <2>1, <2>3 DEF IsTop, HeapBefore
  <2>5. Take(e.index)
    <3>1. PICK d \in Passing : Take(d.index)
      BY DEF PassEvent
    <3>2. d \in pending /\ IsTop(d)
      BY <2>2, <3>1 DEF Passing
    <3>3. d = e
      BY <2>1, <2>3, <3>2 DEF IsTop, HeapBefore
    <3> QED BY <3>1, <3>3
  <2> QED BY <1>1, <2>1, <2>2, <2>4, <2>5 DEF Held
<1> QED BY <1>2, <1>3 DEF PassEvent

LEMMA PassEventInv ==
  ASSUME SessionInv, PassEvent
  PROVE  SessionInv'
<1>1. Base /\ Going /\ Clean
  BY DEF SessionInv
<1>2. PICK e \in Held :
        /\ Take(e.index) /\ e \in Entry /\ e.index \in Indexes
        /\ Held' = Held \ {e} /\ Delivered' = Delivered \cup {EventOf(e)}
        /\ \A q \in Ports : e.index <= front[q]
        /\ \A d \in Held : e.index <= d.index
        /\ call # "idle" /\ pending' \subseteq pending /\ hand' = {}
        /\ UNCHANGED <<taken, front, merge_order, gfront, next_seq, last_forwarded, call, error>>
  BY <1>1, PassFacts
<1>3. UNCHANGED <<session, input, now, advanced, in_last, poisoned, closed, rejected, settled>>
  BY DEF PassEvent, controlVars
<1>4. PICK to \in Nat :
        /\ to = Bucket(e.index) /\ bucket' = to /\ has_any' = TRUE /\ to # None
        /\ rows' = IF bucket \in {None, to} THEN rows ELSE rows \o Bars(to)
  <2>1. Bucket(e.index) \in Nat
    BY <1>2, BucketType, BeforeEnd
  <2> QED BY <1>2, <2>1 DEF Take, None
<1>5. bucket \in Nat \cup {None} /\ rows \in Seq(Nat) /\ None \notin Nat
  BY <1>1 DEF Base, SessionType, None
<1>6. TypeInv'
  BY <1>1, PassHandType, ReleaseTopType DEF Base, PassEvent
<1>7. SessionType' /\ Calls'
  <2>1. rows' \in Seq(Nat)
    BY <1>4, <1>5, BarsType
  <2> QED BY <1>1, <1>2, <1>3, <1>4, <2>1 DEF Base, SessionType, Calls
<1>8. Heap'
  BY <1>1, <1>2 DEF Base, Heap
<1>9. Fronts'
  BY <1>1, <1>2, <1>3 DEF Base, Fronts
<1>10. EventOf(e).index = e.index
  BY <1>2, EntryEvent
<1>11. ASSUME Level PROVE bucket # None => bucket <= to
  BY <1>2, <1>4, <1>11 DEF Level
<1>12. Going'
  <2>1. SUFFICES ASSUME Level, Chain PROVE Level' /\ Chain'
    BY <1>1, <1>3 DEF Going
  <2>2. \A q \in Ports : to <= Bucket(front[q])
    BY <1>1, <1>2, <1>4, BucketGrows, BeforeEnd, LiveFront
  <2>3. \A d \in Held' : to <= Bucket(d.index)
    <3>1. \A d \in Held : d.index \in Indexes
      BY <1>1 DEF Base, Heap
    <3> QED BY <1>2, <1>4, <3>1, BucketGrows, BeforeEnd
  <2>4. Level'
    BY <1>2, <1>4, <2>2, <2>3 DEF Level
  <2>5. ASSUME kMax \notin Indexes
        PROVE  /\ \A i \in 1 .. Len(rows') - 1 : rows'[i + 1] = rows'[i] + 1
               /\ rows' # <<>> => rows'[Len(rows')] + 1 = to
    <3>1. CASE bucket = None
      <4>1. rows = <<>>
        BY <1>2, <2>1, <2>5, <3>1 DEF Level
      <4> QED BY <1>4, <3>1, <4>1
    <3>2. CASE bucket = to
      BY <1>4, <2>1, <2>5, <3>2 DEF Chain
    <3>3. CASE bucket \notin {None, to}
      <4>1. bucket \in Nat /\ bucket < to /\ rows' = rows \o Bars(to)
        BY <1>4, <1>5, <1>11, <2>1, <3>3
      <4> QED BY <1>5, <2>1, <2>5, <4>1, MovedRows
    <3> QED BY <3>1, <3>2, <3>3
  <2>6. Chain'
    BY <1>4, <2>5 DEF Chain
  <2> QED BY <2>4, <2>6
<1>13. Clean'
  <2>1. SUFFICES ASSUME rejected = {}
                 PROVE  LInv' /\ PInv' /\ error' = "none" /\ Promised' /\ Sunk' /\ Barred'
    BY <1>3 DEF Clean
  <2>2. LInv /\ PInv /\ error = "none" /\ Promised /\ Sunk /\ Barred
    BY <1>1, <2>1 DEF Clean
  <2>3. LInv' /\ PInv'
    BY <2>2, MergeStep DEF PassEvent, Next, Handler
  <2>4. Promised'
    BY <1>2, <1>3, <2>2 DEF Promised
  <2>5. last_forwarded \in Index /\ last_forwarded <= e.index
    BY <1>2, <2>2 DEF LInv, IInv, TypeInv, TypeOK, Low, Held
  <2>6. Sunk'
    <3>1. Bucket(last_forwarded) <= to
      BY <1>2, <1>4, <2>5, BucketGrows, BeforeEnd
    <3>2. kMax \notin Indexes => last_forwarded # kMax
      BY <1>2, <2>5, BeforeEnd
    <3> QED BY <1>2, <1>4, <3>1, <3>2 DEF Sunk
  <2>7. EventOf(e) \in taken
    BY <1>2, <2>2 DEF LInv, IInv, Numbered, Held
  <2>8. Barred'
    <3>1. ASSUME NEW d \in Delivered
          PROVE  HasBar(Bucket(d.index))' \/ (to = Bucket(d.index) /\ has_any')
      <4>1. CASE bucket \in {None, to}
        BY <1>4, <1>5, <2>2, <4>1 DEF Barred, HasBar
      <4>2. CASE bucket \notin {None, to}
        <5>1. bucket < to
          BY <1>1, <1>4, <1>5, <1>11, <2>1, <4>2 DEF Going
        <5>2. \A r \in Nat : r < to => (\E d2 \in taken : r <= Bucket(d2.index)) \/ r < Bucket(advanced)
          BY <1>4, <1>10, <2>7
        <5> QED BY <1>1, <1>4, <2>2, <4>2, <5>1, <5>2, BarredMoves DEF Base
      <4> QED BY <4>1, <4>2
    <3>2. \A i \in 1 .. Len(rows') :
            /\ \E d \in taken : Bucket(d.index) <= rows'[i]
            /\ (\E d \in taken : rows'[i] <= Bucket(d.index)) \/ rows'[i] < Bucket(advanced)
      <4>1. CASE bucket \in {None, to}
        BY <1>4, <2>2, <4>1 DEF Barred
      <4>2. CASE bucket \notin {None, to}
        <5>1. bucket < to
          BY <1>1, <1>4, <1>5, <1>11, <2>1, <4>2 DEF Going
        <5>2. \A r \in Nat : r < to => (\E d2 \in taken : r <= Bucket(d2.index)) \/ r < Bucket(advanced)
          BY <1>4, <1>10, <2>7
        <5> QED BY <1>1, <1>4, <2>2, <4>2, <5>1, <5>2, BarredMoves DEF Base
      <4> QED BY <4>1, <4>2
    <3>3. \E d \in taken : Bucket(d.index) = to
      BY <1>4, <1>10, <2>7
    <3>4. \E d \in taken : Bucket(d.index) <= to
      BY <1>4, <3>3
    <3>5. \A d \in Delivered' : HasBar(Bucket(d.index))' \/ (bucket' = Bucket(d.index) /\ has_any')
      BY <1>2, <1>4, <1>10, <3>1
    <3> QED BY <1>2, <1>3, <1>4, <2>2, <3>2, <3>3, <3>4, <3>5 DEF Barred
  <2> QED BY <1>2, <2>2, <2>3, <2>4, <2>6, <2>8
<1> QED BY <1>6, <1>7, <1>8, <1>9, <1>12, <1>13 DEF SessionInv, Base

-----------------------------------------------------------------------------
(* The handler returns: the watermark, and the flush, reach the Resample.  *)

\* The inputs whose end the merge still counts are at the end of the index.
EndsCounted == \A p \in flushed : front[p] = kMax

LEMMA LowBound ==
  ASSUME Base, NEW w, IsLow(w)
  PROVE  /\ \A q \in Ports : w <= front[q]
         /\ \A e \in pending : w <= e.index
         /\ (\E q \in Ports : w = front[q]) \/ (\E e \in pending : w = e.index)
<1>1. \A q \in Ports : Front(q) = front[q]
  BY LiveFront
<1> QED BY <1>1 DEF IsLow

\* With every input at the end of the index the merge holds nothing back.
LEMMA EndHoldsNothing ==
  ASSUME Base, hand = {}, ~TopReady, kMax \notin Indexes, \A q \in Ports : front[q] = kMax
  PROVE  Held = {}
<1>1. SUFFICES ASSUME pending # {} PROVE FALSE
  BY DEF Held
<1>2. Distinct
  BY DEF Base, Heap, Distinct
<1>3. PICK e \in pending : IsTop(e)
  BY <1>1, <1>2, HeapHasTop DEF Base
<1>4. e.index \in Indexes
  BY DEF Base, Heap, Held
<1>5. \A q \in Ports : Front(q) = kMax
  BY LiveFront
<1>6. Ready(e.index, e.port)
  BY <1>4, <1>5, BeforeEnd DEF Ready
<1> QED BY <1>3, <1>6 DEF TopReady

\* What the end of a handler closes the bars with, if with anything.
Closing(w) ==
  /\ Close(w)
  /\ w = kMax /\ kMax \notin Indexes => Held = {} /\ \A q \in Ports : front[q] = kMax
  /\ w # kMax => IsLow(w) /\ w = last_forwarded' /\ last_forwarded < w

LEMMA EndFacts ==
  ASSUME Base, EndsCounted, EndCall
  PROVE  /\ TypeInv' /\ Next
         /\ call # "idle" /\ call' = "idle" /\ hand = {} /\ Held' = Held /\ Delivered' = Delivered
         /\ UNCHANGED <<taken, out, front, merge_order, pending, next_seq, hand>>
         /\ UNCHANGED <<session, input, now, advanced, in_last, closed, settled>>
         /\ \E low \in Index :
              /\ IsLow(low) /\ IsLow(low)'
              /\ last_forwarded' = IF low # kMin /\ low > last_forwarded THEN low ELSE last_forwarded
         /\ \/ \E w \in Index : Closing(w)
            \/ UNCHANGED resampleVars /\ last_forwarded' = last_forwarded
         /\ rejected' = {} => rejected = {} /\ error' = "none"
         /\ "flush" \in rejected' => "flush" \in rejected
<1>1. /\ EndPush \/ EndWatermark \/ EndFlush
      /\ Return
      /\ UNCHANGED <<session, input, now, advanced, in_last, closed, settled>>
  BY DEF EndCall, EndPush, EndWatermark, EndFlush
<1>2. TypeInv' /\ Next
  BY <1>1, EndType DEF Base, Next, Handler
<1>3. /\ call # "idle" /\ call' = "idle" /\ hand = {} /\ ~TopReady
      /\ UNCHANGED <<taken, out, front, merge_order, gfront, pending, next_seq, hand>>
  BY <1>1 DEF Return, streamVars, EndPush, EndWatermark, EndFlush
<1>4. Held' = Held /\ Delivered' = Delivered
  BY <1>3 DEF Held, Delivered
<1>5. PICK low \in Index :
        /\ IsLow(low)
        /\ last_forwarded' = IF low # kMin /\ low > last_forwarded THEN low ELSE last_forwarded
  BY <1>1 DEF Return, ForwardWatermark
<1>6. IsLow(low)'
  BY <1>3, <1>5 DEF IsLow, Front
<1>7. last_forwarded \in Int /\ last_forwarded' \in Index /\ kMax \in Index
  BY <1>1, ReturnType, IndexAssumption DEF Base, TypeInv, TypeOK, Index
<1>8. kMax \notin Indexes /\ (\A q \in Ports : front[q] = kMax) => Held = {}
  BY <1>3, EndHoldsNothing
<1>9. /\ rejected' = {} => rejected = {} /\ error' = "none"
      /\ "flush" \in rejected' => "flush" \in rejected
  BY DEF EndCall
<1>10. CASE flushes' > flushes
  <2>1. flushed = Ports
    BY <1>1, <1>10 DEF EndPush, EndWatermark, EndFlush, Base, TypeInv, TypeOK
  <2>2. \A q \in Ports : front[q] = kMax
    BY <2>1 DEF EndsCounted
  <2>3. Close(kMax)
    BY <1>10 DEF EndCall
  <2>4. Closing(kMax)
    BY <1>8, <2>2, <2>3 DEF Closing
  <2> QED BY <1>1, <1>2, <1>3, <1>4, <1>5, <1>6, <1>7, <1>9, <2>4
<1>11. CASE ~(flushes' > flushes) /\ last_forwarded' > last_forwarded
  <2>1. Close(last_forwarded') /\ last_forwarded' = low /\ last_forwarded < low
    BY <1>5, <1>7, <1>11 DEF EndCall
  <2>2. ASSUME low = kMax, NEW q \in Ports PROVE front[q] = kMax
    BY <1>5, <2>2, LowBound, LiveFront, IndexAssumption DEF Index
  <2>3. Closing(low)
    BY <1>5, <1>8, <2>1, <2>2 DEF Closing
  <2> QED BY <1>1, <1>2, <1>3, <1>4, <1>5, <1>6, <1>9, <2>3
<1>12. CASE ~(flushes' > flushes) /\ ~(last_forwarded' > last_forwarded)
  <2>1. UNCHANGED resampleVars
    BY <1>12 DEF EndCall
  <2>2. last_forwarded' = last_forwarded
    BY <1>5, <1>7, <1>12
  <2> QED BY <1>1, <1>2, <1>3, <1>4, <1>5, <1>6, <1>9, <2>1, <2>2
<1> QED BY <1>10, <1>11, <1>12

\* What the Resample has open after it closed the bars before w.
LEMMA CloseFacts ==
  ASSUME SessionType, NEW w \in Index, Close(w)
  PROVE  \/ /\ ~Beyond(w) /\ UNCHANGED <<bucket, has_any, rows>>
         \/ /\ w # kMax /\ bucket \in Nat /\ Bucket(w) \in Nat /\ bucket < Bucket(w)
            /\ rows' = rows \o Bars(Bucket(w)) /\ bucket' = Bucket(w) /\ ~has_any'
         \/ /\ w = kMax /\ bucket \in Nat /\ bucket' = None /\ ~has_any'
            /\ rows' = IF has_any THEN Append(rows, bucket) ELSE rows
<1>1. Bucket(w) \in Nat
  BY BucketType
<1>2. CASE ~Beyond(w)
  BY <1>2 DEF Close, SessionType
<1>3. CASE Beyond(w) /\ w # kMax
  BY <1>1, <1>3 DEF Close, Beyond, SessionType
<1>4. CASE Beyond(w) /\ w = kMax
  BY <1>4 DEF Close, Beyond, SessionType
<1> QED BY <1>2, <1>3, <1>4

\* The last bar leaves.
LEMMA LastBar ==
  ASSUME rows \in Seq(Nat), bucket \in Nat, rows' = Append(rows, bucket)
  PROVE  /\ rows' \in Seq(Nat) /\ Len(rows') = Len(rows) + 1
         /\ \A i \in 1 .. Len(rows') : i \in 1 .. Len(rows) \/ rows'[i] = bucket
         /\ \A i \in 1 .. Len(rows) : rows'[i] = rows[i]
         /\ \A b : HasBar(b) => HasBar(b)'
         /\ \A b : b = bucket => HasBar(b)'
         /\ Chain /\ kMax \notin Indexes =>
              \A i \in 1 .. Len(rows') - 1 : rows'[i + 1] = rows'[i] + 1
<1> DEFINE n == Len(rows)
<1>1. n \in Nat /\ rows' \in Seq(Nat) /\ Len(rows') = n + 1
  OBVIOUS
<1>2. rows'[n + 1] = bucket
  OBVIOUS
<1>3. \A i \in 1 .. n : rows'[i] = rows[i]
  OBVIOUS
<1> HIDE DEF n
<1>4. \A b : HasBar(b) => HasBar(b)'
  <2>1. 1 .. n \subseteq 1 .. Len(rows')
    BY <1>1
  <2> QED BY <1>3, <2>1 DEF HasBar, n
<1>5. \A b : b = bucket => HasBar(b)'
  <2>1. n + 1 \in 1 .. Len(rows')
    BY <1>1
  <2> QED BY <1>2, <2>1 DEF HasBar
<1>6. ASSUME Chain, kMax \notin Indexes, NEW i \in 1 .. Len(rows') - 1
      PROVE  rows'[i + 1] = rows'[i] + 1
  <2>1. CASE i = n
    <3>1. n # 0 /\ n \in 1 .. n
      BY <1>1, <1>6, <2>1
    <3>2. rows[n] + 1 = bucket
      BY <1>6, <3>1 DEF Chain, n, None
    <3> QED BY <1>2, <1>3, <2>1, <3>1, <3>2
  <2>2. CASE i # n
    <3>1. i \in 1 .. n - 1 /\ i \in 1 .. n /\ i + 1 \in 1 .. n
      BY <1>1, <1>6, <2>2
    <3> QED BY <1>3, <1>6, <3>1 DEF Chain, n
  <2> QED BY <2>1, <2>2
<1>7. \A i \in 1 .. Len(rows') : i \in 1 .. n \/ rows'[i] = bucket
  BY <1>1, <1>2
<1> QED BY <1>1, <1>3, <1>4, <1>5, <1>6, <1>7 DEF n

\* The bars that close before w are those of the events, or of an advance.
LEMMA ClosedReach ==
  ASSUME Base, NothingLost, Barred, NEW w \in Index, Closing(w), w # kMax, last_forwarded \in Index,
         NEW r \in Nat, r < Bucket(w)
  PROVE  (\E e \in taken : r <= Bucket(e.index)) \/ r < Bucket(advanced)
<1>1. /\ IsLow(w) /\ last_forwarded < w /\ w \in Int /\ Bucket(w) \in Nat /\ w # kMin
  BY BucketType, IndexAssumption DEF Closing, Index
<1>2. CASE \E e \in pending : w = e.index
  <2>1. PICK e \in pending : w = e.index
    BY <1>2
  <2>2. EventOf(e) \in taken /\ EventOf(e).index = w
    BY <2>1, EntryEvent DEF NothingLost, Waiting, Base, TypeInv, TypeOK
  <2> QED BY <1>1, <2>2
<1>3. CASE \E q \in Ports : w = front[q]
  <2>1. PICK q \in Ports : w = front[q]
    BY <1>3
  <2>2. in_last[q] \in Index /\ advanced \in Index
    BY <2>1 DEF Base, SessionType
  <2>3. w <= Larger(in_last[q], advanced)
    BY <2>1 DEF Base, Fronts
  <2>4. CASE w <= advanced
    <3>1. Bucket(w) <= Bucket(advanced) /\ Bucket(advanced) \in Nat
      BY <2>2, <2>4, BucketGrows, BucketType
    <3> QED BY <1>1, <3>1
  <2>5. CASE w <= in_last[q]
    <3>1. Bucket(w) <= Bucket(in_last[q]) /\ Bucket(in_last[q]) \in Nat
      BY <2>2, <2>5, BucketGrows, BucketType
    <3>2. in_last[q] # kMin
      BY <1>1, <2>5, IndexAssumption DEF Index
    <3>3. PICK e \in taken : e.index = in_last[q]
      BY <2>1, <3>2 DEF Barred
    <3> QED BY <1>1, <3>1, <3>3
  <2> QED BY <2>2, <2>3, <2>4, <2>5 DEF Larger
<1> QED BY <1>1, <1>2, <1>3, LowBound

LEMMA ClosingGoing ==
  ASSUME Base, Level, Chain, NEW w \in Index, Closing(w), hand = {}, Held' = Held,
         UNCHANGED front
  PROVE  Level' /\ Chain'
<1>1. SessionType /\ Close(w) /\ rows \in Seq(Nat)
  BY DEF Base, SessionType, Closing
<1>2. CASE ~Beyond(w) /\ UNCHANGED <<bucket, has_any, rows>>
  BY <1>2 DEF Level, Chain
<1>3. CASE /\ w # kMax /\ bucket \in Nat /\ Bucket(w) \in Nat /\ bucket < Bucket(w)
           /\ rows' = rows \o Bars(Bucket(w)) /\ bucket' = Bucket(w) /\ ~has_any'
  <2>1. (\A q \in Ports : w <= front[q]) /\ \A e \in Held : w <= e.index
    BY <1>3, LowBound DEF Closing, Held
  <2>2. \A q \in Ports : Bucket(w) <= Bucket(front[q])
    BY <2>1, BucketGrows, LiveFront
  <2>3. \A e \in Held : Bucket(w) <= Bucket(e.index)
    BY <2>1, BucketGrows, BeforeEnd DEF Base, Heap
  <2>4. Level'
    BY <1>3, <2>2, <2>3 DEF Level, None
  <2>5. Chain'
    BY <1>1, <1>3, MovedRows DEF Chain
  <2> QED BY <2>4, <2>5
<1>4. CASE /\ w = kMax /\ bucket \in Nat /\ bucket' = None /\ ~has_any'
           /\ rows' = IF has_any THEN Append(rows, bucket) ELSE rows
  <2>1. Level'
    BY <1>4 DEF Level, Closing
  <2>2. Chain'
    <3>1. CASE has_any
      BY <1>1, <1>4, <3>1, LastBar DEF Chain
    <3>2. CASE ~has_any
      BY <1>4, <3>2 DEF Chain
    <3> QED BY <3>1, <3>2
  <2> QED BY <2>1, <2>2
<1> QED BY <1>1, <1>2, <1>3, <1>4, CloseFacts

LEMMA ClosingBarred ==
  ASSUME Base, NothingLost, Barred, NEW w \in Index, Closing(w), last_forwarded \in Index,
         Delivered' = Delivered, UNCHANGED <<taken, in_last, advanced>>
  PROVE  Barred'
<1>1. SessionType /\ Close(w) /\ rows \in Seq(Nat) /\ TypeInv /\ None \notin Nat
  BY DEF Base, SessionType, Closing, None
<1>2. CASE ~Beyond(w) /\ UNCHANGED <<bucket, has_any, rows>>
  BY <1>2 DEF Barred, HasBar
<1>3. CASE /\ w # kMax /\ bucket \in Nat /\ Bucket(w) \in Nat /\ bucket < Bucket(w)
           /\ rows' = rows \o Bars(Bucket(w)) /\ bucket' = Bucket(w) /\ ~has_any'
  <2>1. \A r \in Nat : r < Bucket(w) =>
          (\E e \in taken : r <= Bucket(e.index)) \/ r < Bucket(advanced)
    BY <1>3, ClosedReach
  <2>2. /\ \A d \in Delivered : HasBar(Bucket(d.index))'
        /\ \A i \in 1 .. Len(rows') :
             /\ \E e \in taken : Bucket(e.index) <= rows'[i]
             /\ (\E e \in taken : rows'[i] <= Bucket(e.index)) \/ rows'[i] < Bucket(advanced)
    BY <1>1, <1>3, <2>1, BarredMoves
  <2>3. \E e \in taken : Bucket(e.index) <= bucket'
    <3>1. PICK e \in taken : Bucket(e.index) <= bucket
      BY <1>1, <1>3 DEF Barred
    <3>2. Bucket(e.index) \in Nat
      BY <1>1, BucketType DEF TypeInv, TypeOK, Event
    <3> QED BY <1>3, <3>1, <3>2
  <2> QED BY <1>3, <2>2, <2>3 DEF Barred
<1>4. CASE /\ w = kMax /\ bucket \in Nat /\ bucket' = None /\ ~has_any'
           /\ rows' = IF has_any THEN Append(rows, bucket) ELSE rows
  <2>1. CASE has_any
    <3>1. /\ \A i \in 1 .. Len(rows') : i \in 1 .. Len(rows) \/ rows'[i] = bucket
          /\ \A i \in 1 .. Len(rows) : rows'[i] = rows[i]
          /\ \A b : HasBar(b) => HasBar(b)'
          /\ \A b : b = bucket => HasBar(b)'
      BY <1>1, <1>4, <2>1, LastBar
    <3>2. ASSUME NEW d \in Delivered PROVE HasBar(Bucket(d.index))'
      <4>1. PICK b : b = Bucket(d.index)
        OBVIOUS
      <4>2. HasBar(b) \/ b = bucket
        BY <4>1 DEF Barred
      <4>3. HasBar(b)'
        BY <3>1, <4>2
      <4> QED BY <4>1, <4>3 DEF HasBar, Bucket
    <3>3. PICK e \in taken : Bucket(e.index) = bucket
      BY <2>1 DEF Barred
    <3>4. \A i \in 1 .. Len(rows') :
            /\ \E d \in taken : Bucket(d.index) <= rows'[i]
            /\ (\E d \in taken : rows'[i] <= Bucket(d.index)) \/ rows'[i] < Bucket(advanced)
      <4>1. bucket <= bucket
        BY <1>4
      <4> QED BY <3>1, <3>3, <4>1 DEF Barred
    <3> QED BY <1>4, <3>2, <3>4 DEF Barred
  <2>2. CASE ~has_any
    BY <1>1, <1>4, <2>2 DEF Barred, HasBar
  <2> QED BY <2>1, <2>2
<1> QED BY <1>1, <1>2, <1>3, <1>4, CloseFacts

LEMMA EndCallInv ==
  ASSUME SessionInv, EndsCounted, EndCall
  PROVE  SessionInv'
<1>1. Base /\ Going /\ Clean
  BY DEF SessionInv
<1>2. /\ TypeInv' /\ Next
      /\ call # "idle" /\ call' = "idle" /\ hand = {} /\ Held' = Held /\ Delivered' = Delivered
      /\ UNCHANGED <<taken, out, front, merge_order, pending, next_seq, hand>>
      /\ UNCHANGED <<session, input, now, advanced, in_last, closed, settled>>
      /\ rejected' = {} => rejected = {} /\ error' = "none"
      /\ "flush" \in rejected' => "flush" \in rejected
  BY <1>1, EndFacts
<1>3. PICK low \in Index :
        /\ IsLow(low) /\ IsLow(low)'
        /\ last_forwarded' = IF low # kMin /\ low > last_forwarded THEN low ELSE last_forwarded
  BY <1>1, EndFacts
<1>4. \/ \E w \in Index : Closing(w)
      \/ UNCHANGED resampleVars /\ last_forwarded' = last_forwarded
  BY <1>1, EndFacts
<1>5. /\ SessionType /\ TypeInv /\ rows \in Seq(Nat) /\ None \notin Nat
      /\ last_forwarded \in Index /\ last_forwarded' \in Index
  BY <1>1, <1>2 DEF Base, SessionType, TypeInv, TypeOK, None
<1>6. SessionType' /\ Calls'
  <2>1. bucket' \in Nat \cup {None} /\ has_any' \in BOOLEAN /\ rows' \in Seq(Nat)
    <3>1. ASSUME NEW w \in Index, Closing(w)
          PROVE  bucket' \in Nat \cup {None} /\ has_any' \in BOOLEAN /\ rows' \in Seq(Nat)
      <4>1. Close(w)
        BY <3>1 DEF Closing
      <4>2. has_any' \in BOOLEAN
        BY <4>1 DEF Close
      <4>3. bucket \in Nat /\ Bucket(w) \in Nat => rows \o Bars(Bucket(w)) \in Seq(Nat)
        BY <1>5, BarsType
      <4>4. bucket \in Nat => Append(rows, bucket) \in Seq(Nat)
        BY <1>5
      <4> QED BY <1>5, <4>1, <4>2, <4>3, <4>4, CloseFacts DEF SessionType
    <3> QED BY <1>4, <1>5, <3>1 DEF SessionType, resampleVars
  <2> QED BY <1>1, <1>2, <2>1 DEF Base, SessionType, Calls
<1>7. Heap'
  <2>1. \A t, p : Ready(t, p)' <=> Ready(t, p)
    BY <1>1, <1>2 DEF Ready, Front, Base, Calls
  <2> QED BY <1>1, <1>2, <2>1 DEF Base, Heap
<1>8. Fronts'
  <2>1. "flush" \in rejected => "flush" \in rejected'
    BY DEF EndCall
  <2> QED BY <1>1, <1>2, <2>1 DEF Base, Fronts
<1>9. Going'
  <2>1. SUFFICES ASSUME Level, Chain PROVE Level' /\ Chain'
    BY <1>1, <1>2 DEF Going, EndCall
  <2>2. CASE UNCHANGED resampleVars
    BY <1>2, <2>1, <2>2 DEF Level, Chain, resampleVars
  <2> QED BY <1>1, <1>2, <1>4, <2>1, <2>2, ClosingGoing
<1>10. Clean'
  <2>1. SUFFICES ASSUME rejected = {}, error' = "none"
                 PROVE  LInv' /\ PInv' /\ error' = "none" /\ Promised' /\ Sunk' /\ Barred'
    BY <1>2 DEF Clean
  <2>2. LInv /\ PInv /\ Promised /\ Sunk /\ Barred
    BY <1>1, <2>1 DEF Clean
  <2>3. LInv' /\ PInv'
    BY <1>2, <2>2, MergeStep
  <2>4. Promised'
    BY <1>2, <2>2 DEF Promised
  <2>5. Sunk'
    <3>1. low <= last_forwarded'
      BY <1>3, <1>5, IndexAssumption DEF Index
    <3>2. CASE UNCHANGED resampleVars /\ last_forwarded' = last_forwarded
      BY <1>3, <2>2, <3>1, <3>2 DEF Sunk, resampleVars
    <3>3. ASSUME NEW w \in Index, Closing(w)
          PROVE  /\ bucket' # None => Bucket(last_forwarded') <= bucket'
                 /\ kMax \notin Indexes /\ last_forwarded' = kMax => bucket' = None
      <4>1. Close(w) /\ (w # kMax => w = last_forwarded') /\ Bucket(w) \in Nat
        BY <3>3, BucketType DEF Closing
      <4>2. CASE w = kMax
        BY <4>1, <4>2 DEF Close, Beyond
      <4>3. CASE w # kMax
        BY <1>5, <4>1, <4>3 DEF Close, Beyond, SessionType
      <4> QED BY <4>2, <4>3
    <3> QED BY <1>3, <1>4, <3>1, <3>2, <3>3 DEF Sunk
  <2>6. Barred'
    <3>1. CASE UNCHANGED resampleVars
      BY <1>2, <2>2, <3>1 DEF Barred, HasBar, resampleVars
    <3>2. NothingLost
      BY <2>2 DEF LInv
    <3> QED BY <1>1, <1>2, <1>4, <1>5, <2>2, <3>1, <3>2, ClosingBarred
  <2> QED BY <2>1, <2>3, <2>4, <2>5, <2>6
<1> QED BY <1>2, <1>6, <1>7, <1>8, <1>9, <1>10 DEF SessionInv, Base

-----------------------------------------------------------------------------
(* A call that is rejected, a save, a reset.                               *)

\* FillLimitError leaves what the merge expects, and the bars, as they were.
LEMMA RejectInv ==
  ASSUME SessionInv, call # "idle", Reject, pending' \subseteq pending, hand' = {},
         last_forwarded' \in Index
  PROVE  SessionInv'
<1>1. Base /\ Going /\ Clean
  BY DEF SessionInv
<1>2. /\ call' = "idle" /\ session' = "idle" /\ input' = 0 /\ now' = kMin
      /\ rejected' = rejected \cup {IF call = "push" THEN "push" ELSE session}
      /\ ended' = {} /\ floor' = [p \in Ports |-> Larger(in_last[p], advanced)]
      /\ UNCHANGED <<taken, out, front, flushed, merge_order, gfront, width, next_seq, error, flushes,
                     clock, advanced, in_last, closed, settled, bucket, has_any, rows>>
  BY DEF Reject, resampleVars
<1>3. TypeInv'
  <2>1. floor' \in [Ports -> Index]
    <3>1. \A p \in Ports : in_last[p] \in Index /\ advanced \in Index
      BY <1>1 DEF Base, SessionType
    <3>2. \A p \in Ports : Larger(in_last[p], advanced) \in Index
      BY <3>1, LargerInts
    <3> QED BY <1>2, <3>2
  <2>2. IsFiniteSet(pending')
    BY <1>1, FS_Subset DEF Base, TypeInv, Finite
  <2> QED BY <1>1, <1>2, <2>1, <2>2 DEF Base, TypeInv, TypeOK, Finite
<1>4. SessionType' /\ Calls'
  <2>1. 0 \in 0 .. N /\ kMin \in Index
    BY NAssumption, IndexAssumption DEF Index
  <2> QED BY <1>1, <1>2, <2>1 DEF Base, SessionType, Calls
<1>5. Held' \subseteq Held
  BY DEF Held
<1>6. Heap'
  BY <1>1, <1>2, <1>5 DEF Base, Heap
<1>7. Fronts'
  <2>1. session = "flush" => "flush" \in rejected'
    BY <1>1, <1>2 DEF Base, Calls
  <2> QED BY <1>1, <1>2, <2>1 DEF Base, Fronts
<1>8. Going'
  BY <1>1, <1>2, <1>5 DEF Going, Level, Chain
<1>9. rejected' # {}
  BY <1>2
<1> QED BY <1>3, <1>4, <1>6, <1>7, <1>8, <1>9 DEF SessionInv, Base, Clean

LEMMA FailEventInv ==
  ASSUME SessionInv, FailEvent
  PROVE  SessionInv'
<1>1. PICK e \in Passing : hand' = hand \ {e} /\ pending' = pending \ {e}
  BY DEF FailEvent
<1>2. \A a, b \in hand : a = b
  BY DEF SessionInv, Base, Heap
<1>3. hand' = {}
  BY <1>1, <1>2 DEF Passing
<1>4. last_forwarded' \in Index
  BY DEF FailEvent, SessionInv, Base, TypeInv, TypeOK
<1> QED BY <1>1, <1>3, <1>4, RejectInv DEF FailEvent

LEMMA FailWatermarkInv ==
  ASSUME SessionInv, FailWatermark
  PROVE  SessionInv'
<1>1. last_forwarded' \in Index
  BY DEF FailWatermark, ForwardWatermark, SessionInv, Base, TypeInv, TypeOK
<1> QED BY <1>1, RejectInv DEF FailWatermark

LEMMA SessionSaveInv ==
  ASSUME SessionInv, SessionSave
  PROVE  SessionInv'
<1>1. Base /\ Going /\ Clean
  BY DEF SessionInv
<1>2. /\ SaveAndLoad /\ call = "idle"
      /\ pending' = {Renumbered(e) : e \in pending} /\ next_seq' = Cardinality(pending)
      /\ UNCHANGED <<taken, out, front, flushed, merge_order, gfront, last_forwarded, call, hand, error>>
      /\ UNCHANGED <<session, input, now, advanced, in_last, closed, rejected, settled>>
      /\ UNCHANGED <<bucket, has_any, rows>>
  BY DEF SessionSave, SaveAndLoad, Idle, streamVars, callVars, controlVars, resampleVars
<1>3. TypeInv' /\ TypeInv
  BY <1>1, <1>2, SaveAndLoadType DEF Base
<1>4. SessionType' /\ Calls'
  BY <1>1, <1>2 DEF Base, SessionType, Calls
<1>5. \A e \in pending : Renumbered(e).index = e.index /\ Renumbered(e).port = e.port
  BY <1>3, RenumberedEvent
<1>6. /\ \A a \in Held' : \E e \in Held : a.index = e.index /\ a.port = e.port
      /\ Held = {} => Held' = {}
      /\ Delivered' = Delivered
  BY <1>2, <1>5 DEF Held, Delivered
<1>7. Heap'
  <2>1. ASSUME NEW e \in pending PROVE Renumbered(e).seq < Cardinality(pending)
    BY <1>3, RenumberedEvent, PrecedingCount
  <2>2. ASSUME NEW a \in pending, NEW b \in pending, Renumbered(a).seq = Renumbered(b).seq
        PROVE  a = b
    <3>1. SUFFICES ASSUME a # b PROVE FALSE
      OBVIOUS
    <3>2. /\ a.index \in Int /\ a.port \in Int /\ a.seq \in Int
          /\ b.index \in Int /\ b.port \in Int /\ b.seq \in Int
      BY <1>3, EntryInts DEF TypeInv, TypeOK
    <3>3. a.seq # b.seq
      BY <1>1, <3>1 DEF Base, Heap
    <3>4. HeapBefore(a, b) \/ HeapBefore(b, a)
      BY <3>2, <3>3 DEF HeapBefore
    <3>5. Cardinality(Preceding(a)) = Cardinality(Preceding(b))
      BY <1>3, <2>2, RenumberedEvent
    <3>6. Cardinality(Preceding(a)) \in Nat /\ Cardinality(Preceding(b)) \in Nat
      BY <1>3, PrecedingCount
    <3> QED BY <1>3, <3>4, <3>5, <3>6, PrecedingGrows
  <2>3. hand' = {}
    BY <1>1, <1>2 DEF Base, Heap
  <2>4. ASSUME NEW a \in Held' PROVE a.index \in Indexes /\ a.index <= front'[a.port]
    <3>1. PICK e \in Held : a.index = e.index /\ a.port = e.port
      BY <1>6
    <3> QED BY <1>1, <1>2, <3>1 DEF Base, Heap
  <2> QED BY <1>2, <2>1, <2>2, <2>3, <2>4 DEF Heap
<1>8. Fronts'
  BY <1>1, <1>2 DEF Base, Fronts
<1>9. Going'
  BY <1>1, <1>2, <1>6 DEF Going, Level, Chain
<1>10. Clean'
  <2>1. SUFFICES ASSUME rejected = {}
                 PROVE  LInv' /\ PInv' /\ error' = "none" /\ Promised' /\ Sunk' /\ Barred'
    BY <1>2 DEF Clean
  <2>2. LInv /\ PInv /\ error = "none" /\ Promised /\ Sunk /\ Barred
    BY <1>1, <2>1 DEF Clean
  <2>3. LInv' /\ PInv'
    BY <1>2, <2>2, MergeStep DEF Next
  <2>4. Promised'
    BY <1>2, <2>2 DEF Promised
  <2>5. Sunk'
    <3>1. {e.index : e \in pending'} = {e.index : e \in pending}
      BY <1>2, <1>5
    <3>2. \A low : IsLow(low)' <=> IsLow(low)
      BY <1>2, <3>1 DEF IsLow, Front
    <3> QED BY <1>2, <2>2, <3>2 DEF Sunk
  <2>6. Barred'
    BY <1>2, <1>6, <2>2 DEF Barred, HasBar
  <2> QED BY <1>2, <2>2, <2>3, <2>4, <2>5, <2>6
<1> QED BY <1>3, <1>4, <1>7, <1>8, <1>9, <1>10 DEF SessionInv, Base

LEMMA SessionInitInv == SessionInit => SessionInv /\ EndsCounted
<1> SUFFICES ASSUME SessionInit PROVE SessionInv /\ EndsCounted
  OBVIOUS
<1>1. /\ Init /\ session = "idle" /\ input = 0 /\ now = kMin /\ advanced = kMin
      /\ in_last = [p \in Ports |-> kMin] /\ closed = FALSE /\ rejected = {} /\ settled = kMin
      /\ bucket = None /\ has_any = FALSE /\ rows = <<>>
  BY DEF SessionInit
<1>2. /\ front = [p \in Ports |-> kMin] /\ flushed = {} /\ merge_order \in {FALSE} /\ pending = {}
      /\ hand = {} /\ call = "idle" /\ error = "none" /\ last_forwarded = kMin /\ out = <<>>
  BY <1>1, SessionAssumption DEF Init, SInit
<1>3. LInv /\ PInv /\ TypeInv
  BY <1>1, LInvInit, PInvInit, InitType
<1>4. kMin \in Index /\ kMin \in Int /\ 0 \in Ports /\ 0 \in 0 .. N /\ kMin <= kMin
  BY NAssumption, IndexAssumption DEF Ports, Index
<1>5. Held = {} /\ Delivered = {}
  BY <1>2 DEF Held, Delivered
<1>6. SessionType
  BY <1>1, <1>4 DEF SessionType
<1>7. Calls /\ Heap
  BY <1>1, <1>2, <1>5 DEF Calls, Heap
<1>8. Fronts
  BY <1>1, <1>2, <1>4 DEF Fronts, Larger
<1>9. Level /\ Chain
  BY <1>1, <1>5 DEF Level, Chain
<1>10. Promised
  BY <1>1, <1>2, <1>4, NAssumption DEF Promised, Ports
<1>11. Sunk
  <2>1. IsLow(kMin)
    BY <1>2, <1>4 DEF IsLow, Front
  <2>2. kMin # kMax
    BY IndexAssumption
  <2> QED BY <1>1, <1>2, <1>4, <2>1, <2>2 DEF Sunk
<1>12. Barred
  BY <1>1, <1>5 DEF Barred
<1> QED BY <1>2, <1>3, <1>6, <1>7, <1>8, <1>9, <1>10, <1>11, <1>12
        DEF SessionInv, Base, Going, Clean, EndsCounted

LEMMA SessionResetInit ==
  ASSUME SessionInv, SessionReset
  PROVE  SessionInit'
<1>1. /\ Reset(FALSE) /\ session = "idle" /\ call = "idle" /\ FALSE \in Modes
      /\ input' = 0 /\ now' = kMin /\ advanced' = kMin /\ in_last' = [p \in Ports |-> kMin]
      /\ poisoned' = FALSE /\ closed' = FALSE /\ rejected' = {} /\ settled' = kMin
      /\ bucket' = None /\ has_any' = FALSE /\ rows' = <<>> /\ session' = session
  BY SessionAssumption DEF SessionReset, Quiet
<1>2. hand = {}
  BY <1>1 DEF SessionInv, Base, Heap
<1>3. Init'
  BY <1>1, <1>2 DEF Reset, Restart, Init, SInit
<1> QED BY <1>1, <1>3 DEF SessionInit

LEMMA SessionStutterInv ==
  ASSUME SessionInv, UNCHANGED sessionVars
  PROVE  SessionInv'
<1>1. Base /\ Going /\ Clean
  BY DEF SessionInv
<1>2. /\ UNCHANGED vars
      /\ UNCHANGED <<session, input, now, advanced, in_last, closed, rejected, settled>>
      /\ UNCHANGED <<bucket, has_any, rows>>
  BY DEF sessionVars, controlVars, resampleVars
<1>3. UNCHANGED <<taken, front, merge_order, call, last_forwarded, error>>
  BY <1>2 DEF vars, streamVars, nodeVars, callVars
<1>4. /\ TypeInv' /\ Heap' /\ Held' = Held /\ Delivered' = Delivered
      /\ \A low : IsLow(low)' <=> IsLow(low)
  BY <1>1, <1>2, SameMerge DEF Base
<1>5. SessionType' /\ Calls' /\ Fronts'
  BY <1>1, <1>2, <1>3 DEF Base, SessionType, Calls, Fronts
<1>6. Going'
  BY <1>1, <1>2, <1>3, <1>4 DEF Going, Level, Chain
<1>7. Clean'
  <2>1. LInv /\ PInv => LInv' /\ PInv'
    BY <1>2, MergeStep
  <2>2. Promised => Promised'
    BY <1>2, <1>3 DEF Promised
  <2>3. Sunk => Sunk'
    BY <1>2, <1>3, <1>4 DEF Sunk
  <2>4. Barred => Barred'
    BY <1>2, <1>3, <1>4 DEF Barred, HasBar
  <2> QED BY <1>1, <1>2, <1>3, <2>1, <2>2, <2>3, <2>4 DEF Clean
<1> QED BY <1>4, <1>5, <1>6, <1>7 DEF SessionInv, Base

LEMMA EndsCountedNext ==
  ASSUME SessionInv, EndsCounted, [SessionNext]_sessionVars
  PROVE  EndsCounted'
<1>1. front \in [Ports -> Index] /\ flushed \subseteq Ports /\ kMax \in Index
  BY IndexAssumption DEF SessionInv, Base, TypeInv, TypeOK, Index
<1>2. ASSUME NEW w \in Index PROVE Larger(kMax, w) = kMax
  BY IndexAssumption DEF Larger, Index
<1>3. ASSUME NEW p \in Ports, NEW t \in Indexes, SessionPush(p, t)
      PROVE  EndsCounted'
  <2>1. front' = [front EXCEPT ![p] = Larger(front[p], t)] /\ flushed' = flushed /\ t \in Index
    BY <1>3, BeforeEnd DEF SessionPush, PushDirect, PushWaiting, Arrive, Note
  <2> QED BY <1>1, <1>2, <2>1 DEF EndsCounted
<1>4. CASE NextInput
  <2>1. CASE OnWatermark(input, now)
    <3>1. /\ front' = [front EXCEPT ![input] = Larger(front[input], now)] /\ flushed' = flushed
          /\ now \in Index
      BY <2>1 DEF OnWatermark, SessionInv, Base, SessionType
    <3> QED BY <1>1, <1>2, <3>1 DEF EndsCounted
  <2>2. CASE FlushPort(input)
    <3>1. front' = [front EXCEPT ![input] = kMax] /\ flushed' = flushed \cup {input}
      BY <2>2 DEF FlushPort
    <3>2. input \in Ports
      BY <1>4 DEF NextInput
    <3> QED BY <1>1, <3>1, <3>2 DEF EndsCounted
  <2> QED BY <1>4, <2>1, <2>2 DEF NextInput
<1>5. CASE EndCall
  <2>1. front' = front /\ flushed' \subseteq flushed
    BY <1>5 DEF EndCall, EndPush, EndWatermark, EndFlush, Return
  <2> QED BY <2>1 DEF EndsCounted
<1>6. CASE SessionReset
  BY <1>6 DEF SessionReset, Reset, EndsCounted
<1>7. CASE \/ \E w \in Index : SessionAdvance(w)
           \/ SessionFlush \/ Finish \/ PassEvent \/ FailEvent \/ FailWatermark \/ SessionSave
           \/ UNCHANGED sessionVars
  <2>1. UNCHANGED <<front, flushed>>
    BY <1>7 DEF SessionAdvance, SessionFlush, Finish, PassEvent, PassHand, ReleaseTop, PassOn, FailEvent,
                FailWatermark, Reject, SessionSave, SaveAndLoad, vars, nodeVars, sessionVars
  <2> QED BY <2>1 DEF EndsCounted
<1> QED BY <1>3, <1>4, <1>5, <1>6, <1>7 DEF SessionNext

LEMMA SessionInvNext ==
  SessionInv /\ EndsCounted /\ [SessionNext]_sessionVars => SessionInv' /\ EndsCounted'
<1> SUFFICES ASSUME SessionInv, EndsCounted, [SessionNext]_sessionVars PROVE SessionInv'
  BY EndsCountedNext
<1>1. CASE \E p \in Ports, t \in Indexes : SessionPush(p, t)
  BY <1>1, PushInv
<1>2. CASE \E w \in Index : SessionAdvance(w)
  BY <1>2, AdvanceInv
<1>3. CASE SessionFlush
  BY <1>3, FlushInv
<1>4. CASE NextInput
  BY <1>4, NextInputInv
<1>5. CASE Finish
  BY <1>5, FinishInv
<1>6. CASE PassEvent
  BY <1>6, PassEventInv
<1>7. CASE EndCall
  BY <1>7, EndCallInv
<1>8. CASE FailEvent
  BY <1>8, FailEventInv
<1>9. CASE FailWatermark
  BY <1>9, FailWatermarkInv
<1>10. CASE SessionSave
  BY <1>10, SessionSaveInv
<1>11. CASE SessionReset
  <2>1. SessionInit'
    BY <1>11, SessionResetInit
  <2>2. SessionInit' => SessionInv'
    BY SessionInitInv, PTL
  <2> QED BY <2>1, <2>2
<1>12. CASE UNCHANGED sessionVars
  BY <1>12, SessionStutterInv
<1> QED BY <1>1, <1>2, <1>3, <1>4, <1>5, <1>6, <1>7, <1>8, <1>9, <1>10, <1>11, <1>12 DEF SessionNext

LEMMA SessionInvariant == SessionSpec => [](SessionInv /\ EndsCounted)
BY SessionInitInv, SessionInvNext, PTL DEF SessionSpec

-----------------------------------------------------------------------------
(* The theorems.                                                           *)

\* The Resample leaves no bar out and repeats none, whatever advances the session
\* rejected, in whatever part of a handler, until a flush is rejected.
THEOREM NoGap ==
  ASSUME kMax \notin Indexes
  PROVE  SessionSpec => []RowsContiguous
<1>1. SessionInv => RowsContiguous
  BY DEF SessionInv, Going, Chain, RowsContiguous
<1> QED BY <1>1, SessionInvariant, PTL

\* Whatever waits is at or after the times the session has closed.
LEMMA SettledBound ==
  ASSUME SessionInv, Quiet, rejected = {}
  PROVE  /\ settled <= last_forwarded
         /\ \A e \in Held : settled <= e.index
<1>1. Base /\ LInv /\ PInv /\ error = "none" /\ Promised /\ Sunk
  BY DEF SessionInv, Clean
<1>2. /\ settled \in Int /\ last_forwarded \in Int /\ hand = {}
      /\ \A e \in pending : e.index \in Int /\ e.port \in Int /\ e.seq \in Int
      /\ \A q \in Ports : Front(q) \in Int /\ settled <= Front(q)
  <2>1. \A q \in Ports : Front(q) = front[q] /\ front[q] \in Int
    BY <1>1, LiveFront
  <2>2. \A e \in pending : e.index \in Int /\ e.port \in Int /\ e.seq \in Int
    BY <1>1, EntryInts DEF Base, TypeInv, TypeOK
  <2>3. hand = {}
    BY <1>1 DEF Quiet, Base, Heap
  <2>4. settled \in Int /\ last_forwarded \in Int
    BY <1>1, IndexAssumption DEF Base, SessionType, TypeInv, TypeOK, Index
  <2> QED BY <1>1, <2>1, <2>2, <2>3, <2>4 DEF Promised
<1>3. ASSUME NEW e \in pending PROVE settled <= e.index
  <2>1. PICK x \in pending : IsTop(x)
    BY <1>1, HeapHasTop, IInvDistinct DEF LInv, Base
  <2>2. ~Ready(x.index, x.port)
    BY <1>1, <2>1 DEF PInv, Settled, TopReady, Quiet
  <2>3. settled <= x.index
    BY <1>2, <2>2 DEF Ready
  <2>4. x.index <= e.index
    BY <1>2, <2>1 DEF IsTop, HeapBefore
  <2> QED BY <1>2, <2>3, <2>4
<1>4. PICK low \in Index : IsLow(low) /\ low <= last_forwarded
  BY <1>1 DEF Sunk, Quiet
<1>5. settled <= low
  BY <1>2, <1>3, <1>4 DEF IsLow
<1>6. low \in Int
  BY IndexAssumption DEF Index
<1> QED BY <1>2, <1>3, <1>4, <1>5, <1>6 DEF Held

\* Once an advance returned, every event before its time is passed on, and the bars
\* before it are out.
THEOREM AdvanceIsKept == SessionSpec => []AdvanceCloses
<1>1. SessionInv => AdvanceCloses
  <2>1. SUFFICES ASSUME SessionInv, Quiet, rejected = {}, NEW e \in taken,
                        Bucket(e.index) < Bucket(settled)
                 PROVE  e \in Delivered /\ HasBar(Bucket(e.index))
    BY DEF AdvanceCloses
  <2>2. Base /\ LInv /\ Sunk /\ Barred
    BY <2>1 DEF SessionInv, Clean
  <2>3. settled <= last_forwarded /\ \A d \in Held : settled <= d.index
    BY <2>1, SettledBound
  <2>4. /\ e.index \in Index /\ settled \in Index /\ last_forwarded \in Index
        /\ Bucket(e.index) \in Nat /\ Bucket(settled) \in Nat /\ Bucket(last_forwarded) \in Nat
    BY <2>2, BucketType DEF Base, SessionType, TypeInv, TypeOK, Event
  <2>5. e \in Delivered
    <3>1. SUFFICES ASSUME e \in Waiting PROVE FALSE
      BY DEF Waiting
    <3>2. PICK d \in Held : e = EventOf(d)
      BY <2>2, <3>1 DEF LInv, NothingLost, Held
    <3>3. d.index = e.index
      BY <3>2, EntryEvent DEF EventOf
    <3>4. Bucket(settled) <= Bucket(e.index)
      BY <2>3, <2>4, <3>2, <3>3, BucketGrows
    <3> QED BY <2>1, <2>4, <3>4
  <2>6. HasBar(Bucket(e.index)) \/ bucket = Bucket(e.index)
    BY <2>2, <2>5 DEF Barred
  <2>7. bucket # Bucket(e.index)
    <3>1. SUFFICES ASSUME bucket = Bucket(e.index) PROVE FALSE
      OBVIOUS
    <3>2. Bucket(last_forwarded) <= bucket
      BY <2>2, <2>4, <3>1 DEF Sunk, None
    <3>3. Bucket(settled) <= Bucket(last_forwarded)
      BY <2>3, <2>4, BucketGrows
    <3> QED BY <2>1, <2>4, <3>1, <3>2, <3>3
  <2> QED BY <2>5, <2>6, <2>7
<1> QED BY <1>1, SessionInvariant, PTL

\* The rows of a session that was flushed, and rejected nothing, are the bars a
\* batch run of its events gives.
THEOREM FlushIsBatch ==
  ASSUME kMax \notin Indexes
  PROVE  SessionSpec => []FlushedRows
<1>1. SessionInv => FlushedRows
  <2>1. SUFFICES ASSUME SessionInv, closed, rejected = {}
                 PROVE  /\ \A e \in taken : HasBar(Bucket(e.index))
                        /\ \A i \in 1 .. Len(rows) :
                             /\ \E e \in taken : Bucket(e.index) <= rows[i]
                             /\ (\E e \in taken : rows[i] <= Bucket(e.index)) \/ rows[i] < Bucket(advanced)
    BY DEF FlushedRows
  <2>2. Base /\ LInv /\ PInv /\ error = "none" /\ Promised /\ Sunk /\ Barred
    BY <2>1 DEF SessionInv, Clean
  <2>3. call = "idle" /\ hand = {} /\ ~TopReady
    BY <2>1, <2>2 DEF Base, Calls, Heap, PInv, Settled
  <2>4. \A q \in Ports : front[q] = kMax
    BY <2>1, <2>2 DEF Promised
  <2>5. Held = {}
    BY <2>2, <2>3, <2>4, EndHoldsNothing
  <2>6. bucket = None
    <3>1. PICK low \in Index : IsLow(low) /\ low <= last_forwarded
      BY <2>2, <2>3 DEF Sunk
    <3>2. low = kMax
      BY <2>2, <2>4, <2>5, <3>1, LowBound DEF Held
    <3>3. last_forwarded = kMax
      BY <2>2, <3>1, <3>2, IndexAssumption DEF Base, TypeInv, TypeOK, Index
    <3> QED BY <2>2, <3>3 DEF Sunk
  <2>7. taken \subseteq Delivered
    BY <2>2, <2>5 DEF LInv, NothingLost, Waiting, Held
  <2>8. \A e \in taken : HasBar(Bucket(e.index))
    BY <2>2, <2>6, <2>7 DEF Barred
  <2> QED BY <2>2, <2>8 DEF Barred
<1> QED BY <1>1, SessionInvariant, PTL

=============================================================================
