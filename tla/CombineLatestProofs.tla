------------------------ MODULE CombineLatestProofs ------------------------
(***************************************************************************)
(* Proofs about CombineLatest, for every number of ports, every range of   *)
(* indexes, every number of columns and both kinds of emit: the rows are   *)
(* those of AlignedRows, whatever the order of the calls, they leave in    *)
(* time, they have one layout, and a saved session loads.                  *)
(***************************************************************************)
EXTENDS CombineLatest, FiniteSetTheorems, WellFoundedInduction, TLAPS

-----------------------------------------------------------------------------
(* The invariant.  It is about the events the node applied: those it took  *)
(* that do not wait any more.                                              *)

Applied == taken \ {EventOf(e) : e \in pending}
AppliedOf(p) == {d \in Applied : d.port = p}

\* The types of the reorder buffer, which Filter shares.
BufferTypes ==
  /\ taken \subseteq Event /\ floor \in [Ports -> Index] /\ ended \subseteq Ports
  /\ wm \in [Ports -> Index] /\ pending \subseteq Entry /\ next_seq \in Nat
  /\ due \subseteq Index /\ \A i, j \in due : i = j
  /\ latest \in [Ports -> SUBSET Event] /\ last_forwarded \in Index
  /\ IsFiniteSet(taken) /\ IsFiniteSet(pending)

\* The types of the state; the assumption on the columns is kept with them.
TypeOK ==
  /\ BufferTypes
  /\ out \in Seq(Row) /\ flushed \subseteq Ports
  /\ call \in {"idle", "push", "watermark", "flush"}
  /\ error \in {"none", "width", "overflow"} /\ flushes \in Nat
  /\ width \in [Ports -> Nat] /\ learned \subseteq Ports /\ emitted_any \in BOOLEAN
  /\ layouts \subseteq [Ports -> Nat]

TypeInv == ColumnAssumption /\ TypeOK

\* A watermark of the node is a promise of its port, the events that wait are
\* not above it, and an event was applied once no port could send below it.
Known ==
  /\ \A p \in Ports : wm[p] <= floor[p]
  /\ \A p \in ended : wm[p] = kMax
  /\ \A e \in pending : e.index <= wm[e.port]
  /\ \A d \in Applied, p \in Ports : d.index <= wm[p]

\* The events of a port are numbered in the order of their arrival, which is
\* that of their indexes, of the heap, and of their application.
Numbered ==
  /\ \A d \in taken : d.nth < Sent(d.port) /\ d.index <= floor[d.port]
  /\ \A a, b \in taken : a.port = b.port =>
       /\ a.nth = b.nth => a = b
       /\ a.nth < b.nth => a.index <= b.index
  /\ \A e \in pending : EventOf(e) \in taken /\ e.seq < next_seq
  /\ \A a, b \in pending : a.port = b.port =>
       /\ a.nth < b.nth <=> a.seq < b.seq
       /\ a.nth = b.nth => a = b
  /\ \A d \in Applied, e \in pending : d.index <= e.index /\ (d.port = e.port => d.nth < e.nth)

\* What the node keeps of a port is its last applied event.
Joined ==
  \A p \in Ports : latest[p] = {d \in AppliedOf(p) : \A c \in AppliedOf(p) : c.nth <= d.nth}

\* The applied events make a row at t.
AppliedRow(t) ==
  /\ \E d \in Applied : d.index = t
  /\ WhenAll => \A p \in Ports : \E d \in AppliedOf(p) : d.index <= t

\* Every row of the applied events is out or due; the one that is due is the
\* last, and no event can come at one that is out.
RowsOut ==
  /\ \A t \in Index : AppliedRow(t) <=> t \in Emitted \cup due
  /\ \A i \in due : i \notin Emitted /\ \A d \in Applied : d.index <= i
  /\ \A u \in Emitted, p \in Ports : u < wm[p] \/ ended = Ports
  /\ \A u \in Emitted, e \in pending : u < e.index

\* A port keeps the columns it learned, and it learns them before the first row.
Columns ==
  /\ \A d \in taken : d.port \in learned /\ d.val = width[d.port]
  /\ \A p \in Ports \ learned : width[p] = Declared[p]
  /\ due # {} => emitted_any
  /\ layouts # {} => emitted_any
  /\ layouts \subseteq {width}
  /\ \A i \in 1 .. Len(out), p \in Ports : out[i].latest[p] \subseteq {d \in taken : d.port = p}

\* Between two calls everything up to the lowest watermark is applied, and the
\* row due is not below it.
Between ==
  call = "idle" =>
    \A low \in Index : IsLow(low) =>
      /\ \A e \in pending : low < e.index
      /\ \A i \in due : low <= i

\* The node counts the ports that have ended, and flushes once they all have.
Ends ==
  /\ flushes = 0 => flushed = ended
  /\ flushes > 0 => flushes = 1 /\ ended = Ports /\ call = "idle" /\ pending = {} /\ due = {}

\* What holds of the buffer alone, in Filter too, and what holds of the node.
BInv == BufferTypes /\ Known /\ Numbered
IInv == TypeInv /\ BInv /\ Joined /\ RowsOut /\ Columns /\ Between /\ Ends

-----------------------------------------------------------------------------
(* Helpers.                                                                *)

LEMMA LargerType ==
  ASSUME NEW a \in Index, NEW b \in Index
  PROVE  Larger(a, b) \in Index /\ a <= Larger(a, b) /\ b <= Larger(a, b)
BY IndexAssumption DEF Larger, Index

LEMMA EntryEvent ==
  ASSUME NEW e \in Entry
  PROVE  /\ EventOf(e) \in Event
         /\ EventOf(e).index = e.index /\ EventOf(e).port = e.port
         /\ EventOf(e).nth = e.nth /\ EventOf(e).val = e.val
BY DEF Entry, EventOf, Event

LEMMA EntryInts ==
  ASSUME NEW e \in Entry
  PROVE  e.index \in Int /\ e.port \in Int /\ e.port \in Ports /\ e.nth \in Nat /\ e.seq \in Nat
BY IndexAssumption, NAssumption DEF Entry, Index, Ports

LEMMA EventInts ==
  ASSUME NEW d \in Event
  PROVE  d.index \in Int /\ d.index \in Index /\ d.port \in Ports /\ d.nth \in Nat
BY IndexAssumption DEF Event, Index

LEMMA SentType ==
  ASSUME IsFiniteSet(taken), NEW p
  PROVE  Sent(p) \in Nat
<1>1. {e \in taken : e.port = p} \subseteq taken
  OBVIOUS
<1>2. IsFiniteSet({e \in taken : e.port = p})
  BY <1>1, FS_Subset
<1> QED BY <1>2, FS_CardinalityType DEF Sent

\* A port's new event is the first with its number: one more event was sent.
LEMMA SentNext ==
  ASSUME IsFiniteSet(taken), NEW e, e \notin taken, taken' = taken \cup {e}
  PROVE  Sent(e.port)' = Sent(e.port) + 1 /\ \A q : q # e.port => Sent(q)' = Sent(q)
<1> DEFINE S == {d \in taken : d.port = e.port}
<1>1. {d \in taken' : d.port = e.port} = S \cup {e}
  OBVIOUS
<1>2. IsFiniteSet(S) /\ e \notin S
  BY FS_Subset
<1>3. Cardinality(S \cup {e}) = Cardinality(S) + 1
  BY <1>2, FS_AddElement
<1>4. \A q : q # e.port => {d \in taken' : d.port = q} = {d \in taken : d.port = q}
  OBVIOUS
<1>5. e.port' = e.port
  OBVIOUS
<1> QED BY <1>1, <1>3, <1>4, <1>5 DEF Sent

-----------------------------------------------------------------------------
(* The heap.                                                               *)

LEMMA LeastNatural ==
  ASSUME NEW S, S \subseteq Nat, S # {}
  PROVE  \E m \in S : \A k \in S : m <= k
<1> DEFINE R == OpToRel(<, Nat)
<1>1. IsWellFoundedOn(R, Nat)
  BY NatLessThanWellFounded
<1>2. \A x, y \in Nat : <<x, y>> \in R <=> x < y
  BY DEF OpToRel
<1> HIDE DEF R
<1>3. PICK m \in S : \A k \in S : <<k, m>> \notin R
  BY <1>1, WFMin
<1>4. \A k \in S : k \in Nat /\ m \in Nat /\ ~(k < m)
  BY <1>2, <1>3
<1> QED BY <1>4

\* The lowest watermark of the ports exists and is one.
LEMMA LowExists ==
  ASSUME wm \in [Ports -> Index]
  PROVE  \E low \in Index : IsLow(low)
<1> DEFINE S == {wm[p] - kMin : p \in Ports}
<1>1. \A p \in Ports : wm[p] \in Int /\ wm[p] - kMin \in Nat
  BY IndexAssumption DEF Index
<1>2. 0 \in Ports
  BY NAssumption DEF Ports
<1>3. S \subseteq Nat /\ S # {}
  BY <1>1, <1>2
<1>4. PICK m \in S : \A k \in S : m <= k
  BY <1>3, LeastNatural
<1>5. PICK p \in Ports : m = wm[p] - kMin
  BY <1>4
<1>6. ASSUME NEW q \in Ports PROVE wm[p] <= wm[q]
  <2>1. wm[p] - kMin <= wm[q] - kMin
    BY <1>4, <1>5
  <2> QED BY <1>1, <2>1, IndexAssumption
<1> QED BY <1>6 DEF IsLow

LEMMA LowUnique ==
  ASSUME wm \in [Ports -> Index], NEW a, NEW b, IsLow(a), IsLow(b)
  PROVE  a = b
<1>1. /\ a \in {wm[p] : p \in Ports} /\ b \in {wm[p] : p \in Ports}
      /\ \A p \in Ports : wm[p] \in Int /\ a <= wm[p] /\ b <= wm[p]
  BY IndexAssumption DEF IsLow, Index
<1> QED BY <1>1

LEMMA HeapTotal ==
  ASSUME BInv, NEW a \in pending, NEW b \in pending, a # b
  PROVE  HeapBefore(a, b) \/ HeapBefore(b, a)
<1>1. /\ a.index \in Int /\ a.port \in Int /\ a.seq \in Int /\ a.nth \in Int
      /\ b.index \in Int /\ b.port \in Int /\ b.seq \in Int /\ b.nth \in Int
  BY EntryInts, NAssumption DEF BInv, BufferTypes, Ports
<1> QED BY <1>1 DEF HeapBefore, BInv, Numbered

Preceding(e) == {d \in pending : HeapBefore(d, e)}

LEMMA PrecedingCount ==
  ASSUME BufferTypes, NEW e \in pending
  PROVE  /\ IsFiniteSet(Preceding(e)) /\ Cardinality(Preceding(e)) \in Nat
         /\ Cardinality(Preceding(e)) < Cardinality(pending)
<1>1. IsFiniteSet(pending) /\ e \in Entry
  BY DEF BufferTypes
<1>2. e \notin Preceding(e)
  BY <1>1, EntryInts, NAssumption DEF Preceding, HeapBefore, Ports
<1>3. Preceding(e) \subseteq pending
  BY DEF Preceding
<1>4. Preceding(e) # pending
  BY <1>2
<1> QED BY <1>1, <1>3, <1>4, FS_Subset, FS_CardinalityType

LEMMA PrecedingGrows ==
  ASSUME BufferTypes, NEW a \in pending, NEW b \in pending, HeapBefore(a, b)
  PROVE  Cardinality(Preceding(a)) < Cardinality(Preceding(b))
<1>1. \A d \in pending : d.index \in Int /\ d.port \in Int /\ d.seq \in Int
  BY EntryInts, NAssumption DEF BufferTypes, Ports
<1>2. Preceding(a) \subseteq Preceding(b)
  BY <1>1 DEF Preceding, HeapBefore
<1>3. a \in Preceding(b) /\ a \notin Preceding(a)
  BY <1>1 DEF Preceding, HeapBefore
<1>4. /\ IsFiniteSet(Preceding(b))
      /\ Cardinality(Preceding(a)) \in Nat /\ Cardinality(Preceding(b)) \in Nat
  BY PrecedingCount
<1>5. Preceding(a) # Preceding(b)
  BY <1>3
<1> QED BY <1>2, <1>4, <1>5, FS_Subset

\* The waiting event that the fewest come before is the first.
LEMMA HeapHasTop ==
  ASSUME BInv, pending # {}
  PROVE  \E e \in pending : IsTop(e)
<1> DEFINE S == {Cardinality(Preceding(e)) : e \in pending}
<1>1. S \subseteq Nat /\ S # {}
  BY PrecedingCount DEF BInv
<1>2. PICK m \in S : \A k \in S : m <= k
  BY <1>1, LeastNatural
<1>3. PICK e \in pending : m = Cardinality(Preceding(e))
  OBVIOUS
<1>4. ASSUME NEW d \in pending \ {e} PROVE HeapBefore(e, d)
  <2>1. HeapBefore(e, d) \/ HeapBefore(d, e)
    BY HeapTotal
  <2>2. Cardinality(Preceding(e)) <= Cardinality(Preceding(d))
    BY <1>2, <1>3
  <2>3. HeapBefore(d, e) => Cardinality(Preceding(d)) < Cardinality(Preceding(e))
    BY PrecedingGrows DEF BInv
  <2>4. Cardinality(Preceding(d)) \in Nat /\ Cardinality(Preceding(e)) \in Nat
    BY PrecedingCount DEF BInv
  <2> QED BY <2>1, <2>2, <2>3, <2>4
<1> QED BY <1>4 DEF IsTop

\* When release() has nothing to apply, what waits is above every watermark's low.
LEMMA ReleasedAbove ==
  ASSUME BInv, Released, NEW low \in Index, IsLow(low), NEW e \in pending
  PROVE  low < e.index
<1>1. PICK t \in pending : IsTop(t)
  BY HeapHasTop
<1>2. ~(t.index <= low)
  BY <1>1 DEF Released, Applicable
<1>3. t.index \in Int /\ e.index \in Int /\ low \in Int
  BY EntryInts, IndexAssumption DEF BInv, BufferTypes, Index
<1>4. t.index <= e.index
  <2>1. e = t \/ HeapBefore(t, e)
    BY <1>1 DEF IsTop
  <2> QED BY <1>3, <2>1 DEF HeapBefore
<1> QED BY <1>2, <1>3, <1>4

LEMMA RenumberedEvent ==
  ASSUME BufferTypes, NEW e \in pending
  PROVE  /\ Renumbered(e) \in Entry /\ EventOf(Renumbered(e)) = EventOf(e)
         /\ Renumbered(e).index = e.index /\ Renumbered(e).port = e.port
         /\ Renumbered(e).nth = e.nth /\ Renumbered(e).val = e.val
         /\ Renumbered(e).seq = Cardinality(Preceding(e))
<1>1. e \in Entry
  BY DEF BufferTypes
<1>2. Renumbered(e) = [e EXCEPT !.seq = Cardinality(Preceding(e))]
  BY DEF Renumbered, Preceding
<1>3. Cardinality(Preceding(e)) \in Nat
  BY PrecedingCount
<1> QED BY <1>1, <1>2, <1>3 DEF EventOf, Entry

LEMMA RenumberedFinite ==
  ASSUME IsFiniteSet(pending)
  PROVE  IsFiniteSet({Renumbered(e) : e \in pending})
<1> DEFINE T == {Renumbered(e) : e \in pending}
           f == [e \in pending |-> Renumbered(e)]
<1>1. f \in [pending -> T] /\ \A y \in T : \E e \in pending : f[e] = y
  OBVIOUS
<1>2. f \in Surjection(pending, T)
  BY <1>1 DEF Surjection
<1> QED BY <1>2, FS_Surjection

-----------------------------------------------------------------------------
(* Types.                                                                  *)

LEMMA InitType == ASSUME ColumnAssumption, Init PROVE TypeInv
<1>1. kMin \in Index
  BY IndexAssumption DEF Index
<1>2. taken = {} /\ pending = {} /\ IsFiniteSet({})
  BY FS_EmptySet DEF Init, SInit, BufferInit
<1>3. out = <<>> /\ out \in Seq(Row)
  BY DEF Init, SInit
<1>4. TypeOK
  BY <1>1, <1>2, <1>3 DEF Init, SInit, BufferInit, TypeOK, BufferTypes, ColumnAssumption
<1> QED BY <1>4 DEF TypeInv

\* A push adds one event, and the entry of the heap that stands for it.
LEMMA EnqueueAdds ==
  ASSUME BufferTypes, NEW p \in Ports, NEW t \in Indexes, NEW w \in Vals, Enqueue(p, t, w)
  PROVE  \E e \in Entry :
           /\ e.index = t /\ e.port = p /\ e.nth = Sent(p) /\ e.val = w /\ e.seq = next_seq
           /\ EventOf(e) \in Event
           /\ taken' = taken \cup {EventOf(e)} /\ pending' = pending \cup {e}
<1> DEFINE e == [index |-> t, port |-> p, nth |-> Sent(p), val |-> w, seq |-> next_seq]
<1>1. e \in Entry
  BY SentType, BufferAssumption DEF Entry, BufferTypes
<1>2. taken' = taken \cup {EventOf(e)} /\ pending' = pending \cup {e}
  BY DEF Enqueue
<1> QED BY <1>1, <1>2, EntryEvent

LEMMA EnqueueTypes ==
  ASSUME BufferTypes, NEW p \in Ports, NEW t \in Indexes, NEW w \in Vals, Enqueue(p, t, w)
  PROVE  BufferTypes'
<1>1. PICK e \in Entry : /\ EventOf(e) \in Event
                         /\ taken' = taken \cup {EventOf(e)} /\ pending' = pending \cup {e}
  BY EnqueueAdds
<1>2. t \in Index /\ Larger(wm[p], t) \in Index
  BY BufferAssumption, LargerType DEF BufferTypes
<1>3. IsFiniteSet(taken') /\ IsFiniteSet(pending')
  BY <1>1, FS_AddElement DEF BufferTypes
<1> QED BY <1>1, <1>2, <1>3 DEF Enqueue, BufferTypes

LEMMA OnWatermarkTypes ==
  ASSUME BufferTypes, NEW p \in Ports, NEW w \in Index, OnWatermark(p, w)
  PROVE  BufferTypes'
<1>1. Larger(floor[p], w) \in Index /\ Larger(wm[p], w) \in Index
  BY LargerType DEF BufferTypes
<1> QED BY <1>1 DEF OnWatermark, BufferTypes

LEMMA FlushPortTypes ==
  ASSUME BufferTypes, NEW p \in Ports, FlushPort(p)
  PROVE  BufferTypes'
<1>1. kMax \in Index
  BY IndexAssumption DEF Index
<1> QED BY <1>1 DEF FlushPort, BufferTypes

LEMMA ResetTypes ==
  ASSUME Restart, ResetBuffer
  PROVE  BufferTypes'
<1>1. kMin \in Index
  BY IndexAssumption DEF Index
<1>2. taken' = {} /\ pending' = {} /\ IsFiniteSet({})
  BY FS_EmptySet DEF Restart, ResetBuffer
<1> QED BY <1>1, <1>2 DEF Restart, ResetBuffer, BufferTypes

\* A save numbers the waiting events again.
Renumber ==
  /\ pending' = {Renumbered(e) : e \in pending} /\ next_seq' = Cardinality(pending)
  /\ UNCHANGED <<streamVars, wm, due, latest, last_forwarded>>

LEMMA RenumberTypes ==
  ASSUME BufferTypes, Renumber
  PROVE  BufferTypes'
<1>1. pending' \subseteq Entry
  BY RenumberedEvent DEF Renumber
<1>2. IsFiniteSet(pending')
  BY RenumberedFinite DEF Renumber, BufferTypes
<1>3. next_seq' \in Nat
  BY FS_CardinalityType DEF Renumber, BufferTypes
<1> QED BY <1>1, <1>2, <1>3 DEF Renumber, streamVars, BufferTypes

LEMMA PushType ==
  ASSUME TypeInv, NEW p \in Ports, NEW t \in Indexes, NEW w \in Vals, Push(p, t, w)
  PROVE  TypeInv'
<1>1. BufferTypes' /\ w \in Nat
  BY EnqueueTypes DEF Push, TypeInv, TypeOK, ColumnAssumption
<1> QED BY <1>1 DEF Push, Enqueue, TypeInv, TypeOK, ColumnAssumption

LEMMA PushRefusedType ==
  ASSUME TypeInv, NEW p \in Ports, NEW t \in Indexes, NEW w \in Vals, PushRefused(p, t, w)
  PROVE  TypeInv'
BY BufferAssumption DEF PushRefused, bufferVars, TypeInv, TypeOK, BufferTypes, ColumnAssumption

LEMMA MarkWatermarkType ==
  ASSUME TypeInv, NEW p \in Ports, NEW w \in Index, MarkWatermark(p, w)
  PROVE  TypeInv'
<1>1. BufferTypes'
  BY OnWatermarkTypes DEF MarkWatermark, TypeInv, TypeOK
<1> QED BY <1>1 DEF MarkWatermark, OnWatermark, columnVars, TypeInv, TypeOK, ColumnAssumption

LEMMA MarkFlushType ==
  ASSUME TypeInv, NEW p \in Ports, MarkFlush(p)
  PROVE  TypeInv'
<1>1. BufferTypes'
  BY FlushPortTypes DEF MarkFlush, TypeInv, TypeOK
<1> QED BY <1>1 DEF MarkFlush, FlushPort, columnVars, TypeInv, TypeOK, ColumnAssumption

LEMMA EmitType ==
  ASSUME TypeInv, EmitBuffered \/ KeepRows
  PROVE  out' \in Seq(Row) /\ layouts' \subseteq [Ports -> Nat]
<1>1. CASE KeepRows
  BY <1>1 DEF KeepRows, TypeInv, TypeOK, BufferTypes
<1>2. CASE EmitBuffered
  <2>1. PICK i \in due : out' = Append(out, [index |-> i, latest |-> latest])
    BY <1>2 DEF EmitBuffered
  <2>2. [index |-> i, latest |-> latest] \in Row
    BY DEF Row, TypeInv, TypeOK, BufferTypes
  <2>3. out' \in Seq(Row)
    BY <2>1, <2>2 DEF TypeInv, TypeOK, BufferTypes
  <2> QED BY <1>2, <2>3 DEF EmitBuffered, TypeInv, TypeOK, BufferTypes
<1> QED BY <1>1, <1>2

LEMMA ApplyTopType ==
  ASSUME TypeInv, ApplyTop
  PROVE  TypeInv'
<1>1. PICK e \in pending :
        /\ pending' = pending \ {e}
        /\ latest' = [latest EXCEPT ![e.port] = {EventOf(e)}]
        /\ due' \subseteq {e.index}
        /\ emitted_any' = (emitted_any \/ due' # {})
        /\ EmitBuffered \/ KeepRows
  BY DEF ApplyTop
<1>2. e \in Entry /\ EventOf(e) \in Event /\ e.index \in Index
  BY EntryEvent DEF TypeInv, TypeOK, BufferTypes, Entry
<1>3. out' \in Seq(Row) /\ layouts' \subseteq [Ports -> Nat]
  BY <1>1, EmitType
<1>4. IsFiniteSet(pending')
  BY <1>1, FS_RemoveElement DEF TypeInv, TypeOK, BufferTypes
<1>5. latest' \in [Ports -> SUBSET Event] /\ due' \subseteq Index /\ \A i, j \in due' : i = j
  BY <1>1, <1>2 DEF TypeInv, TypeOK, BufferTypes
<1>6. UNCHANGED <<taken, floor, ended, wm, flushed, next_seq, last_forwarded, callVars, width,
                  learned>>
  BY DEF ApplyTop
<1>7. emitted_any' \in BOOLEAN
  BY <1>1
<1>8. TypeOK'
  BY <1>1, <1>3, <1>4, <1>5, <1>6, <1>7 DEF callVars, TypeInv, TypeOK, BufferTypes
<1> QED BY <1>8 DEF TypeInv, ColumnAssumption

LEMMA EndType ==
  ASSUME TypeInv, EndPush \/ EndWatermark \/ EndFlush
  PROVE  TypeInv'
<1>1. PICK all \in BOOLEAN : Return(all)
  BY DEF EndPush, EndWatermark, EndFlush
<1>2. PICK low \in Index :
        /\ Settle(low, all)
        /\ last_forwarded' = IF low # kMin THEN Larger(last_forwarded, low) ELSE last_forwarded
  BY <1>1 DEF Return
<1>3. out' \in Seq(Row) /\ layouts' \subseteq [Ports -> Nat]
  BY <1>2, EmitType DEF Settle
<1>4. due' \in {due, {}}
  BY <1>2 DEF Settle
<1>5. last_forwarded' \in Index
  BY <1>2, LargerType DEF TypeInv, TypeOK, BufferTypes
<1>6. error' \in {"none", "width", "overflow"} /\ flushed' \subseteq Ports /\ flushes' \in Nat
  <2>1. CASE EndPush
    BY <2>1 DEF EndPush, TypeInv, TypeOK, BufferTypes
  <2>2. CASE EndWatermark
    BY <2>2 DEF EndWatermark, TypeInv, TypeOK, BufferTypes
  <2>3. CASE EndFlush
    BY <2>3 DEF EndFlush, TypeInv, TypeOK, BufferTypes
  <2> QED BY <2>1, <2>2, <2>3
<1> QED BY <1>1, <1>3, <1>4, <1>5, <1>6 DEF Return, TypeInv, TypeOK, BufferTypes, ColumnAssumption

LEMMA ResetType ==
  ASSUME TypeInv, Reset
  PROVE  TypeInv'
<1>1. BufferTypes'
  BY ResetTypes DEF Reset
<1>2. out' = <<>> /\ out' \in Seq(Row)
  BY DEF Reset, Restart
<1>3. TypeOK'
  BY <1>1, <1>2 DEF Reset, ResetBuffer, TypeInv, TypeOK, ColumnAssumption
<1> QED BY <1>3 DEF TypeInv, ColumnAssumption

LEMMA SaveAndLoadType ==
  ASSUME TypeInv, SaveAndLoad
  PROVE  TypeInv' /\ Renumber
<1>1. Renumber
  BY DEF SaveAndLoad, Renumber
<1>2. BufferTypes'
  BY <1>1, RenumberTypes DEF TypeInv, TypeOK
<1> QED BY <1>1, <1>2 DEF SaveAndLoad, streamVars, callVars, columnVars, TypeInv, TypeOK, ColumnAssumption

-----------------------------------------------------------------------------
(* The events that wait and the events that were applied.                  *)

\* A call that brings no event only raises watermarks.
LEMMA QuietBuffer ==
  ASSUME BInv, BufferTypes', UNCHANGED <<taken, pending, next_seq>>,
         \A p \in Ports : floor[p] <= floor'[p] /\ wm[p] <= wm'[p] /\ wm'[p] <= floor'[p],
         \A p \in ended' : wm'[p] = kMax
  PROVE  BInv' /\ Applied' = Applied /\ \A p : AppliedOf(p)' = AppliedOf(p)
<1>1. Applied' = Applied /\ \A p : AppliedOf(p)' = AppliedOf(p)
  BY DEF Applied, AppliedOf
<1>2. \A p : Sent(p)' = Sent(p)
  BY DEF Sent
<1>3. /\ \A p \in Ports : /\ floor[p] \in Int /\ floor'[p] \in Int
                          /\ wm[p] \in Int /\ wm'[p] \in Int
      /\ \A d \in taken : d.index \in Int /\ d.port \in Ports
      /\ \A e \in pending : e.index \in Int /\ e.port \in Ports
      /\ \A d \in Applied : d \in taken
  BY EventInts, EntryInts, IndexAssumption DEF BInv, BufferTypes, Index, Applied
<1>4. Known'
  BY <1>1, <1>3 DEF BInv, Known
<1>5. Numbered'
  <2>1. \A d \in taken' : d.nth < Sent(d.port)' /\ d.index <= floor'[d.port]
    BY <1>2, <1>3 DEF BInv, Numbered
  <2> QED BY <1>1, <2>1 DEF BInv, Numbered
<1> QED BY <1>1, <1>4, <1>5 DEF BInv

\* A watermark, and the end of a port.
LEMMA OnWatermarkBuffer ==
  ASSUME BInv, NEW p \in Ports, NEW w \in Index, OnWatermark(p, w)
  PROVE  /\ BInv' /\ Applied' = Applied /\ \A q : AppliedOf(q)' = AppliedOf(q)
         /\ \A q \in Ports : wm[q] <= wm'[q] /\ floor[q] <= floor'[q]
<1>1. BufferTypes'
  BY OnWatermarkTypes DEF BInv
<1>2. /\ p \notin ended
      /\ floor' = [floor EXCEPT ![p] = Larger(floor[p], w)]
      /\ wm' = [wm EXCEPT ![p] = Larger(wm[p], w)]
      /\ UNCHANGED <<taken, ended, pending, next_seq>>
  BY DEF OnWatermark
<1>3. /\ \A q \in Ports : wm[q] \in Int /\ floor[q] \in Int /\ wm[q] <= floor[q]
      /\ w \in Int /\ floor \in [Ports -> Index] /\ wm \in [Ports -> Index]
  BY IndexAssumption DEF BInv, Known, BufferTypes, Index
<1>4. \A q \in Ports : floor[q] <= floor'[q] /\ wm[q] <= wm'[q] /\ wm'[q] <= floor'[q]
  BY <1>2, <1>3 DEF Larger
<1>5. \A q \in ended' : wm'[q] = kMax
  BY <1>2, <1>3 DEF BInv, Known, BufferTypes
<1> QED BY <1>1, <1>2, <1>4, <1>5, QuietBuffer

LEMMA FlushPortBuffer ==
  ASSUME BInv, NEW p \in Ports, FlushPort(p)
  PROVE  /\ BInv' /\ Applied' = Applied /\ \A q : AppliedOf(q)' = AppliedOf(q)
         /\ \A q \in Ports : wm[q] <= wm'[q] /\ floor[q] <= floor'[q]
<1>1. BufferTypes'
  BY FlushPortTypes DEF BInv
<1>2. /\ ended' = ended \cup {p}
      /\ floor' = [floor EXCEPT ![p] = kMax]
      /\ wm' = [wm EXCEPT ![p] = kMax]
      /\ UNCHANGED <<taken, pending, next_seq>>
  BY DEF FlushPort
<1>3. /\ \A q \in Ports : wm[q] \in kMin .. kMax /\ floor[q] \in kMin .. kMax /\ wm[q] <= floor[q]
      /\ kMin \in Int /\ kMax \in Int /\ floor \in [Ports -> Index] /\ wm \in [Ports -> Index]
  BY IndexAssumption DEF BInv, Known, BufferTypes, Index
<1>4. \A q \in Ports : floor[q] <= floor'[q] /\ wm[q] <= wm'[q] /\ wm'[q] <= floor'[q]
  BY <1>2, <1>3
<1>5. \A q \in ended' : wm'[q] = kMax
  BY <1>2, <1>3 DEF BInv, Known, BufferTypes
<1> QED BY <1>1, <1>2, <1>4, <1>5, QuietBuffer

LEMMA EnqueueBuffer ==
  ASSUME BInv, NEW p \in Ports, NEW t \in Indexes, NEW w \in Vals, Enqueue(p, t, w)
  PROVE  BInv' /\ Applied' = Applied /\ \A q : AppliedOf(q)' = AppliedOf(q)
<1>1. BufferTypes'
  BY EnqueueTypes DEF BInv
<1>2. PICK e \in Entry :
        /\ e.index = t /\ e.port = p /\ e.nth = Sent(p) /\ e.seq = next_seq
        /\ EventOf(e) \in Event
        /\ taken' = taken \cup {EventOf(e)} /\ pending' = pending \cup {e}
  BY EnqueueAdds DEF BInv
<1> DEFINE v == EventOf(e)
<1>3. v.index = t /\ v.port = p /\ v.nth = Sent(p)
  BY <1>2, EntryEvent
<1>4. Sent(p) \in Nat /\ next_seq \in Nat
  BY SentType DEF BInv, BufferTypes
<1>5. v \notin taken
  BY <1>3, <1>4 DEF BInv, Numbered
<1>6. Applied' = Applied /\ \A q : AppliedOf(q)' = AppliedOf(q)
  BY <1>2, <1>5 DEF Applied, AppliedOf
<1> HIDE DEF v
<1>7. taken' = taken \cup {v}
  BY <1>2 DEF v
<1>8. Sent(p)' = Sent(p) + 1 /\ \A q : q # p => Sent(q)' = Sent(q)
  BY <1>3, <1>5, <1>7, SentNext DEF BInv, BufferTypes
<1>9. /\ p \notin ended /\ floor[p] <= t /\ floor' = [floor EXCEPT ![p] = t]
      /\ wm' = [wm EXCEPT ![p] = Larger(wm[p], t)] /\ next_seq' = next_seq + 1
      /\ UNCHANGED ended
  BY DEF Enqueue, MaySend
<1>10. /\ floor \in [Ports -> Int] /\ wm \in [Ports -> Int] /\ t \in Int
       /\ \A d \in taken : d.index \in Int /\ d.port \in Ports /\ d.nth \in Nat
       /\ \A d \in pending : d.index \in Int /\ d.port \in Ports /\ d.nth \in Nat /\ d.seq \in Nat
       /\ \A d \in Applied : d \in taken
  BY EventInts, EntryInts, IndexAssumption, BufferAssumption
     DEF BInv, BufferTypes, Index, Applied
<1>11. \A q \in Ports : floor[q] <= floor'[q] /\ wm[q] <= wm'[q]
  BY <1>9, <1>10 DEF Larger
<1>12. Known'
  <2>1. \A q \in Ports : wm'[q] <= floor'[q]
    BY <1>9, <1>10 DEF Larger, BInv, Known
  <2>2. \A q \in ended' : wm'[q] = kMax
    BY <1>9 DEF BInv, Known, BufferTypes
  <2>3. \A d \in pending' : d.index <= wm'[d.port]
    <3>1. e.index <= wm'[e.port]
      BY <1>2, <1>9, <1>10 DEF Larger
    <3>2. ASSUME NEW d \in pending PROVE d.index <= wm'[d.port]
      <4>1. d.index <= wm[d.port] /\ wm[d.port] <= wm'[d.port]
        BY <1>10, <1>11 DEF BInv, Known
      <4>2. wm'[d.port] \in Int
        BY <1>9, <1>10 DEF Larger
      <4> QED BY <1>10, <4>1, <4>2
    <3> QED BY <1>2, <3>1, <3>2
  <2>4. ASSUME NEW d \in Applied', NEW q \in Ports PROVE d.index <= wm'[q]
    <3>1. d.index <= wm[q] /\ wm[q] <= wm'[q] /\ wm'[q] \in Int /\ d.index \in Int
      BY <1>6, <1>9, <1>10, <1>11 DEF Larger, BInv, Known
    <3> QED BY <1>10, <3>1
  <2> QED BY <2>1, <2>2, <2>3, <2>4 DEF Known
<1>13. Numbered'
  <2>1. ASSUME NEW d \in taken' PROVE d.nth < Sent(d.port)' /\ d.index <= floor'[d.port]
    <3>1. CASE d = v
      BY <1>3, <1>4, <1>8, <1>9, <1>10, <3>1
    <3>2. CASE d \in taken
      <4>1. d.nth < Sent(d.port) /\ d.nth \in Nat /\ d.port \in Ports /\ d.index <= floor[d.port]
        BY <1>10, <3>2 DEF BInv, Numbered
      <4>2. d.index \in Int /\ floor'[d.port] \in Int /\ floor[d.port] <= floor'[d.port]
        BY <1>9, <1>10, <1>11, <3>2
      <4>3. d.nth < Sent(d.port)'
        BY <1>4, <1>8, <4>1
      <4> QED BY <1>10, <4>1, <4>2, <4>3
    <3> QED BY <1>7, <3>1, <3>2
  <2>2. \A d \in taken : d.port = p => d.nth < v.nth /\ d.index <= v.index
    <3>1. SUFFICES ASSUME NEW d \in taken, d.port = p PROVE d.nth < v.nth /\ d.index <= v.index
      OBVIOUS
    <3>2. d.nth < Sent(p) /\ d.index <= floor[p]
      BY <3>1 DEF BInv, Numbered
    <3> QED BY <1>3, <1>9, <1>10, <3>2
  <2>3. \A a, b \in taken' : a.port = b.port =>
          /\ a.nth = b.nth => a = b
          /\ a.nth < b.nth => a.index <= b.index
    BY <1>3, <1>4, <1>7, <1>10, <2>2 DEF BInv, Numbered
  <2>4. \A d \in pending' : EventOf(d) \in taken' /\ d.seq < next_seq'
    BY <1>2, <1>4, <1>9, <1>10 DEF BInv, Numbered
  <2>5. \A d \in pending : d.seq < e.seq /\ (d.port = p => d.nth < e.nth)
    <3>1. SUFFICES ASSUME NEW d \in pending PROVE d.seq < e.seq /\ (d.port = p => d.nth < e.nth)
      OBVIOUS
    <3>2. EventOf(d) \in taken /\ d.seq < next_seq
      BY DEF BInv, Numbered
    <3>3. EventOf(d).port = d.port /\ EventOf(d).nth = d.nth
      BY EntryEvent DEF BInv, BufferTypes
    <3> QED BY <1>2, <1>3, <2>2, <3>2, <3>3
  <2>6. \A a, b \in pending' : a.port = b.port =>
          /\ a.nth < b.nth <=> a.seq < b.seq
          /\ a.nth = b.nth => a = b
    BY <1>2, <1>4, <1>10, <2>5 DEF BInv, Numbered
  <2>7. \A d \in Applied', f \in pending' : d.index <= f.index /\ (d.port = f.port => d.nth < f.nth)
    <3>1. ASSUME NEW d \in Applied PROVE d.index <= e.index /\ (d.port = e.port => d.nth < e.nth)
      <4>1. d.index <= wm[p] /\ wm[p] <= floor[p]
        BY DEF BInv, Known
      <4>2. d.index <= e.index
        BY <1>2, <1>9, <1>10, <4>1
      <4> QED BY <1>2, <1>3, <1>10, <2>2, <4>2
    <3> QED BY <1>2, <1>6, <3>1 DEF BInv, Numbered
  <2> QED BY <2>1, <2>3, <2>4, <2>6, <2>7 DEF Numbered
<1> QED BY <1>1, <1>6, <1>12, <1>13 DEF BInv

\* The first waiting event comes after all that were applied, and before all
\* that go on waiting.
LEMMA TopApplied ==
  ASSUME BInv, NEW e \in pending, IsTop(e), UNCHANGED taken, pending' = pending \ {e}
  PROVE  /\ EventOf(e) \in taken /\ EventOf(e) \notin Applied
         /\ Applied' = Applied \cup {EventOf(e)}
         /\ \A f \in pending' : e.index <= f.index /\ (e.port = f.port => e.nth < f.nth)
<1>1. e \in Entry /\ \A f \in pending : f \in Entry
  BY DEF BInv, BufferTypes
<1>2. EventOf(e) \in taken /\ EventOf(e) \notin Applied
  BY DEF BInv, Numbered, Applied
<1>3. \A f \in pending : EventOf(f) = EventOf(e) => f = e
  <2>1. \A f \in pending : EventOf(f) = EventOf(e) => f.port = e.port /\ f.nth = e.nth
    BY <1>1, EntryEvent
  <2> QED BY <2>1 DEF BInv, Numbered
<1>4. Applied' = Applied \cup {EventOf(e)}
  BY <1>2, <1>3 DEF Applied
<1>5. ASSUME NEW f \in pending' PROVE e.index <= f.index /\ (e.port = f.port => e.nth < f.nth)
  <2>1. f \in pending /\ f # e /\ HeapBefore(e, f)
    BY DEF IsTop
  <2>2. /\ e.index \in Int /\ e.port \in Int /\ e.nth \in Nat /\ e.seq \in Nat
        /\ f.index \in Int /\ f.port \in Int /\ f.nth \in Nat /\ f.seq \in Nat
    BY <1>1, <2>1, EntryInts
  <2>3. e.index <= f.index
    BY <2>1, <2>2 DEF HeapBefore
  <2>4. ASSUME e.port = f.port PROVE e.nth < f.nth
    <3>1. e.nth # f.nth
      BY <2>1, <2>4 DEF BInv, Numbered
    <3>2. f.nth < e.nth => f.seq < e.seq
      BY <2>1, <2>4 DEF BInv, Numbered
    <3>3. f.nth < e.nth => f.index <= e.index
      <4>1. EventOf(f) \in taken /\ EventOf(e) \in taken
        BY <2>1 DEF BInv, Numbered
      <4> QED BY <1>1, <2>1, <2>4, <4>1, EntryEvent DEF BInv, Numbered
    <3> QED BY <2>1, <2>2, <2>4, <3>1, <3>2, <3>3 DEF HeapBefore
  <2> QED BY <2>3, <2>4
<1> QED BY <1>2, <1>4, <1>5

LEMMA AppliedBuffer ==
  ASSUME BInv, BufferTypes', NEW e \in pending, Applicable(e), pending' = pending \ {e},
         UNCHANGED <<taken, floor, ended, wm, next_seq>>
  PROVE  BInv'
<1>4. PICK low \in Index : IsLow(low) /\ e.index <= low
  BY DEF Applicable
<1> DEFINE v == EventOf(e)
<1>5. /\ v \in taken /\ Applied' = Applied \cup {v}
      /\ \A f \in pending' : e.index <= f.index /\ (e.port = f.port => e.nth < f.nth)
  BY TopApplied DEF Applicable
<1>6. v.index = e.index /\ v.port = e.port /\ v.nth = e.nth
  BY EntryEvent DEF BInv, BufferTypes
<1> HIDE DEF v
<1>7. Known'
  <2>1. ASSUME NEW q \in Ports PROVE v.index <= wm[q]
    BY <1>4, <1>6, IndexAssumption, EntryInts DEF IsLow, BInv, BufferTypes, Index
  <2> QED BY <1>5, <2>1 DEF BInv, Known
<1>8. Numbered'
  <2>1. \A d \in taken' : d.nth < Sent(d.port)' /\ d.index <= floor'[d.port]
    BY DEF BInv, Numbered, Sent
  <2>2. \A d \in Applied', f \in pending' : d.index <= f.index /\ (d.port = f.port => d.nth < f.nth)
    BY <1>5, <1>6 DEF BInv, Numbered
  <2> QED BY <2>1, <2>2 DEF BInv, Numbered
<1> QED BY <1>7, <1>8 DEF BInv

LEMMA RenumberBuffer ==
  ASSUME BInv, Renumber
  PROVE  BInv' /\ Applied' = Applied /\ \A p : AppliedOf(p)' = AppliedOf(p)
<1>1. BufferTypes'
  BY RenumberTypes DEF BInv
<1>2. /\ pending' = {Renumbered(e) : e \in pending} /\ next_seq' = Cardinality(pending)
      /\ UNCHANGED <<streamVars, wm>>
  BY DEF Renumber
<1>3. ASSUME NEW r \in pending'
      PROVE  \E e \in pending :
               /\ EventOf(r) = EventOf(e) /\ r.index = e.index /\ r.port = e.port
               /\ r.nth = e.nth /\ r.seq = Cardinality(Preceding(e)) /\ r = Renumbered(e)
  BY <1>2, RenumberedEvent DEF BInv
<1>4. {EventOf(r) : r \in pending'} = {EventOf(e) : e \in pending}
  BY <1>2, RenumberedEvent DEF BInv
<1>5. Applied' = Applied /\ \A p : AppliedOf(p)' = AppliedOf(p)
  BY <1>2, <1>4 DEF Applied, AppliedOf, streamVars
<1>6. Known'
  BY <1>2, <1>3, <1>5 DEF BInv, Known, streamVars
<1>7. Numbered'
  <2>1. \A d \in taken' : d.nth < Sent(d.port)' /\ d.index <= floor'[d.port]
    BY <1>2 DEF BInv, Numbered, Sent, streamVars
  <2>2. \A r \in pending' : EventOf(r) \in taken' /\ r.seq < next_seq'
    BY <1>2, <1>3, PrecedingCount DEF BInv, Numbered, streamVars
  <2>3. ASSUME NEW a \in pending, NEW b \in pending, a.port = b.port
        PROVE  a.nth < b.nth <=> Cardinality(Preceding(a)) < Cardinality(Preceding(b))
    <3>1. /\ Cardinality(Preceding(a)) \in Nat /\ Cardinality(Preceding(b)) \in Nat
      BY PrecedingCount DEF BInv
    <3>2. ASSUME NEW c \in pending, NEW d \in pending, c.port = d.port, c.nth < d.nth
          PROVE  HeapBefore(c, d)
      <4>1. c.seq < d.seq /\ EventOf(c) \in taken /\ EventOf(d) \in taken
        BY <3>2 DEF BInv, Numbered
      <4>2. c \in Entry /\ d \in Entry
        BY DEF BInv, BufferTypes
      <4>3. c.index <= d.index
        BY <3>2, <4>1, <4>2, EntryEvent DEF BInv, Numbered
      <4> QED BY <3>2, <4>1, <4>2, <4>3, EntryInts DEF HeapBefore
    <3>3. a.nth < b.nth => Cardinality(Preceding(a)) < Cardinality(Preceding(b))
      BY <2>3, <3>2, PrecedingGrows DEF BInv
    <3>4. b.nth < a.nth => Cardinality(Preceding(b)) < Cardinality(Preceding(a))
      BY <2>3, <3>2, PrecedingGrows DEF BInv
    <3>5. a.nth = b.nth => a = b
      BY <2>3 DEF BInv, Numbered
    <3>6. a.nth \in Nat /\ b.nth \in Nat
      BY EntryInts DEF BInv, BufferTypes
    <3> QED BY <3>1, <3>3, <3>4, <3>5, <3>6
  <2>4. ASSUME NEW r \in pending', NEW u \in pending', r.port = u.port
        PROVE  (r.nth < u.nth <=> r.seq < u.seq) /\ (r.nth = u.nth => r = u)
    <3>1. PICK a \in pending : r.port = a.port /\ r.nth = a.nth /\ r.seq = Cardinality(Preceding(a))
                               /\ r = Renumbered(a)
      BY <1>3
    <3>2. PICK b \in pending : u.port = b.port /\ u.nth = b.nth /\ u.seq = Cardinality(Preceding(b))
                               /\ u = Renumbered(b)
      BY <1>3
    <3>3. r.nth = u.nth => a = b
      BY <2>4, <3>1, <3>2 DEF BInv, Numbered
    <3> QED BY <2>3, <2>4, <3>1, <3>2, <3>3
  <2>5. \A d \in Applied', r \in pending' : d.index <= r.index /\ (d.port = r.port => d.nth < r.nth)
    BY <1>3, <1>5 DEF BInv, Numbered
  <2>6. \A a, b \in taken' : a.port = b.port =>
          /\ a.nth = b.nth => a = b
          /\ a.nth < b.nth => a.index <= b.index
    BY <1>2 DEF BInv, Numbered, streamVars
  <2> QED BY <2>1, <2>2, <2>4, <2>5, <2>6 DEF Numbered
<1> QED BY <1>1, <1>5, <1>6, <1>7 DEF BInv

-----------------------------------------------------------------------------
(* The rows of the applied events.                                         *)

LEMMA AppliedEvents ==
  ASSUME BInv
  PROVE  /\ Applied \subseteq taken
         /\ \A p : AppliedOf(p) \subseteq Applied
         /\ \A d \in taken : d \in Event /\ d.index \in Int /\ d.index \in Index
                             /\ d.port \in Ports /\ d.nth \in Nat
         /\ \A e \in pending : e \in Entry /\ e.index \in Int /\ e.port \in Ports
         /\ \A i \in due : i \in Int /\ i \in Index
         /\ \A p \in Ports : wm[p] \in Int /\ floor[p] \in Int
BY EventInts, EntryInts, IndexAssumption
   DEF Applied, AppliedOf, BInv, BufferTypes, Index

LEMMA EmittedIndex ==
  ASSUME out \in Seq(Row)
  PROVE  Emitted \subseteq Index /\ \A u \in Emitted : u \in Int
<1>2. \A i \in 1 .. Len(out) : out[i] \in Row
  OBVIOUS
<1>3. Emitted \subseteq Index
  BY <1>2 DEF Emitted, Row
<1> QED BY <1>3, IndexAssumption DEF Index

\* Some events of a port have a last one: their numbers are below Sent.
LEMMA LastExists ==
  ASSUME BInv, NEW p \in Ports, NEW S, S \subseteq taken, S # {}, \A d \in S : d.port = p
  PROVE  \E e \in S : \A d \in S : d.nth <= e.nth
<1> DEFINE M == {Sent(p) - d.nth : d \in S}
<1>1. Sent(p) \in Nat
  BY SentType DEF BInv, BufferTypes
<1>2. \A d \in S : d.nth \in Nat /\ d.nth < Sent(p)
  <2>1. \A d \in S : d \in taken
    OBVIOUS
  <2> QED BY <2>1, AppliedEvents DEF BInv, Numbered
<1>3. M \subseteq Nat /\ M # {}
  BY <1>1, <1>2
<1>4. PICK m \in M : \A k \in M : m <= k
  BY <1>3, LeastNatural
<1>5. PICK e \in S : m = Sent(p) - e.nth
  BY <1>4
<1>6. ASSUME NEW d \in S PROVE d.nth <= e.nth
  <2>1. Sent(p) - e.nth <= Sent(p) - d.nth
    BY <1>4, <1>5
  <2> QED BY <1>1, <1>2, <2>1
<1> QED BY <1>6

\* A port has a latest event once an event of it was applied.
LEMMA LatestExists ==
  ASSUME BInv, Joined, NEW p \in Ports
  PROVE  latest[p] = {} <=> AppliedOf(p) = {}
<1>1. AppliedOf(p) # {} => \E e \in AppliedOf(p) : \A d \in AppliedOf(p) : d.nth <= e.nth
  <2>1. AppliedOf(p) \subseteq taken /\ \A d \in AppliedOf(p) : d.port = p
    BY DEF AppliedOf, Applied
  <2> QED BY <2>1, LastExists
<1> QED BY <1>1 DEF Joined

\* Where nothing waits, the applied events are all there are.
LEMMA AppliedRows ==
  ASSUME BInv, NEW t \in Index, \A e \in pending : t < e.index
  PROVE  /\ \A p \in Ports : Upto(p, t) = {d \in AppliedOf(p) : d.index <= t}
         /\ IsRow(t) <=> AppliedRow(t) /\ Passes(RowAt(t).latest)
<1>1. \A d \in taken : d.index <= t => d \in Applied
  <2>1. SUFFICES ASSUME NEW d \in taken, d \notin Applied PROVE ~(d.index <= t)
    OBVIOUS
  <2>2. PICK e \in pending : d = EventOf(e)
    BY <2>1 DEF Applied
  <2>3. d.index = e.index /\ e.index \in Int
    BY <2>2, EntryEvent, AppliedEvents
  <2> QED BY <2>3, IndexAssumption DEF Index
<1>2. \A p \in Ports : Upto(p, t) = {d \in AppliedOf(p) : d.index <= t}
  BY <1>1, AppliedEvents DEF Upto, AppliedOf
<1>3. (\E d \in taken : d.index = t) <=> \E d \in Applied : d.index = t
  BY <1>1, AppliedEvents, IndexAssumption DEF Index
<1>4. ASSUME NEW p \in Ports
      PROVE  Latest(p, t) # {} <=> \E d \in AppliedOf(p) : d.index <= t
  <2>1. Upto(p, t) # {} => Latest(p, t) # {}
    <3>1. Upto(p, t) \subseteq taken /\ \A d \in Upto(p, t) : d.port = p
      BY DEF Upto
    <3> QED BY <3>1, LastExists DEF Latest
  <2> QED BY <1>2, <2>1 DEF Latest
<1> QED BY <1>2, <1>3, <1>4 DEF IsRow, AppliedRow

\* The latest events are the row of an index at which, and below which, all is
\* applied.
LEMMA LatestRow ==
  ASSUME BInv, Joined, NEW i \in Index, \A d \in Applied : d.index <= i, \A e \in pending : i < e.index
  PROVE  RowAt(i) = [index |-> i, latest |-> latest]
<1>1. i \in Int
  BY IndexAssumption DEF Index
<1>3. ASSUME NEW p \in Ports PROVE Latest(p, i) = latest[p]
  <2>1. Upto(p, i) = AppliedOf(p)
    BY <1>1, AppliedRows DEF AppliedOf
  <2> QED BY <2>1 DEF Latest, Joined
<1>4. latest = [p \in Ports |-> latest[p]]
  BY DEF BInv, BufferTypes
<1> QED BY <1>3, <1>4 DEF RowAt

\* The row due holds the latest events at its index.
LEMMA RowDue ==
  ASSUME TypeInv, BInv, Joined, RowsOut, NEW i \in due, \A e \in pending : i < e.index
  PROVE  /\ RowAt(i) = [index |-> i, latest |-> latest]
         /\ IsRow(i)
         /\ \A u \in Emitted : u < i
         /\ \A u \in Index : u < i /\ IsRow(u) => u \in Emitted
<1>1. i \in Index /\ i \in Int
  BY AppliedEvents
<1>2. \A d \in Applied : d.index <= i
  BY DEF RowsOut
<1>4. \A u : Passes(RowAt(u).latest)
  BY DEF Passes, TypeInv, ColumnAssumption
<1>5. RowAt(i) = [index |-> i, latest |-> latest]
  BY <1>1, <1>2, LatestRow
<1>6. IsRow(i)
  BY <1>1, <1>4, AppliedRows DEF RowsOut
<1>7. Emitted \subseteq Index
  BY EmittedIndex DEF TypeInv, TypeOK
<1>8. ASSUME NEW u \in Emitted PROVE u < i
  <2>1. u # i /\ AppliedRow(u)
    BY <1>7 DEF RowsOut
  <2>2. u <= i
    BY <1>2, <2>1 DEF AppliedRow
  <2> QED BY <1>1, <1>7, <2>1, <2>2, IndexAssumption DEF Index
<1>9. ASSUME NEW u \in Index, u < i, IsRow(u) PROVE u \in Emitted
  <2>1. \A e \in pending : u < e.index
    BY <1>1, <1>9, AppliedEvents, IndexAssumption DEF Index
  <2>2. AppliedRow(u)
    BY <1>9, <2>1, AppliedRows
  <2>3. u \notin due
    BY <1>1, <1>9, IndexAssumption DEF Index, BInv, TypeInv, TypeOK, BufferTypes
  <2> QED BY <2>2, <2>3 DEF RowsOut
<1> QED BY <1>5, <1>6, <1>8, <1>9

LEMMA AppendEmitted ==
  ASSUME out \in Seq(Row), NEW r, out' = Append(out, r)
  PROVE  /\ Emitted' = Emitted \cup {r.index}
         /\ \A i \in 1 .. Len(out') : out'[i] = r \/ (i \in 1 .. Len(out) /\ out'[i] = out[i])
<1>1. /\ Len(out') = Len(out) + 1 /\ out'[Len(out) + 1] = r /\ Len(out) \in Nat
      /\ \A i \in 1 .. Len(out) : out'[i] = out[i]
  OBVIOUS
<1>2. 1 .. Len(out') = (1 .. Len(out)) \cup {Len(out) + 1}
  BY <1>1
<1> QED BY <1>1, <1>2 DEF Emitted

\* A step that takes no row and applies nothing keeps the rows of the join.
LEMMA QuietRows ==
  ASSUME IInv, BInv', Applied' = Applied, \A p : AppliedOf(p)' = AppliedOf(p),
         UNCHANGED <<out, due, latest>>,
         \A p \in Ports : wm[p] <= wm'[p],
         ended = Ports => ended' = Ports,
         \A e \in pending' : (\E f \in pending : f.index = e.index)
                             \/ (ended # Ports /\ \E p \in Ports : wm[p] <= e.index)
  PROVE  Joined' /\ RowsOut'
<1>1. Joined'
  BY DEF IInv, Joined
<1>2. \A t : AppliedRow(t)' <=> AppliedRow(t)
  BY DEF AppliedRow
<1>3. Emitted' = Emitted
  BY DEF Emitted
<1>4. \A u \in Emitted : u \in Int
  BY EmittedIndex DEF IInv, TypeInv, TypeOK
<1>5. \A p \in Ports : wm[p] \in Int /\ wm'[p] \in Int
  BY IndexAssumption DEF IInv, BInv, TypeInv, TypeOK, BufferTypes, Index
<1>6. \A e \in pending' : e.index \in Int
  BY EntryInts DEF BInv, TypeInv, TypeOK, BufferTypes
<1>7. \A u \in Emitted', p \in Ports : u < wm'[p] \/ ended' = Ports
  BY <1>3, <1>4, <1>5 DEF IInv, RowsOut
<1>8. \A u \in Emitted', e \in pending' : u < e.index
  <2> SUFFICES ASSUME NEW u \in Emitted, NEW e \in pending' PROVE u < e.index
    BY <1>3
  <2>1. CASE \E f \in pending : f.index = e.index
    BY <2>1 DEF IInv, RowsOut
  <2>2. CASE ended # Ports /\ \E p \in Ports : wm[p] <= e.index
    <3>1. PICK p \in Ports : wm[p] <= e.index
      BY <2>2
    <3>2. u < wm[p]
      BY <2>2 DEF IInv, RowsOut
    <3> QED BY <1>4, <1>5, <1>6, <3>1, <3>2
  <2> QED BY <2>1, <2>2
<1>9. RowsOut'
  BY <1>2, <1>3, <1>7, <1>8 DEF IInv, RowsOut
<1> QED BY <1>1, <1>9

-----------------------------------------------------------------------------
(* The invariant holds.                                                    *)

LEMMA InitInv == ASSUME ColumnAssumption, Init PROVE IInv
<1>1. TypeInv
  BY InitType
<1>2. /\ taken = {} /\ out = <<>> /\ floor = [p \in Ports |-> kMin] /\ ended = {}
      /\ wm = [p \in Ports |-> kMin] /\ flushed = {} /\ pending = {} /\ due = {}
      /\ latest = [p \in Ports |-> {}] /\ call = "idle" /\ flushes = 0
      /\ width = Declared /\ layouts = {}
  BY DEF Init, SInit, BufferInit
<1>3. Applied = {} /\ Emitted = {}
  BY <1>2 DEF Applied, Emitted
<1>4. Known
  BY <1>2, <1>3, IndexAssumption DEF Known
<1>5. Numbered
  BY <1>2, <1>3 DEF Numbered
<1>6. Joined
  BY <1>2, <1>3 DEF Joined, AppliedOf
<1>7. RowsOut
  BY <1>2, <1>3 DEF RowsOut, AppliedRow
<1>8. Columns
  BY <1>2 DEF Columns
<1>9. Between /\ Ends
  BY <1>2 DEF Between, Ends
<1> QED BY <1>1, <1>4, <1>5, <1>6, <1>7, <1>8, <1>9 DEF IInv, BInv, TypeInv, TypeOK

LEMMA PushInv ==
  ASSUME IInv, NEW p \in Ports, NEW t \in Indexes, NEW w \in Vals, Push(p, t, w)
  PROVE  IInv'
<1>1. TypeInv' /\ BInv' /\ Applied' = Applied /\ \A q : AppliedOf(q)' = AppliedOf(q)
  <2>1. TypeInv'
    BY PushType DEF IInv
  <2> QED BY <2>1, EnqueueBuffer DEF Push, IInv
<1>2. PICK e \in Entry :
        /\ e.index = t /\ e.port = p /\ e.val = w
        /\ taken' = taken \cup {EventOf(e)} /\ pending' = pending \cup {e}
  BY EnqueueAdds DEF Push, IInv, BInv
<1>3. /\ Fits(p, w) /\ p \notin ended /\ floor[p] <= t
      /\ wm' = [wm EXCEPT ![p] = Larger(wm[p], t)]
      /\ learned' = learned \cup {p} /\ width' = [width EXCEPT ![p] = w]
      /\ call' = "push"
      /\ UNCHANGED <<out, ended, flushed, due, latest, emitted_any, layouts, flushes>>
  BY DEF Push, Enqueue, MaySend
<1>4. /\ \A q \in Ports : wm[q] \in Int /\ floor[q] \in Int
      /\ \A q \in Ports : wm[q] <= wm'[q]
      /\ t \in Int /\ wm[p] <= t
  <2>1. t \in Int /\ \A q \in Ports : wm[q] \in Int /\ floor[q] \in Int
    BY IndexAssumption, BufferAssumption DEF IInv, BInv, TypeInv, TypeOK, BufferTypes, Index
  <2>2. wm[p] <= floor[p] /\ wm \in [Ports -> Index]
    BY DEF IInv, BInv, Known, TypeInv, TypeOK, BufferTypes
  <2> QED BY <1>3, <2>1, <2>2 DEF Larger
<1>5. Joined' /\ RowsOut'
  <2>1. ended # Ports
    BY <1>3
  <2>2. \A d \in pending' : (\E f \in pending : f.index = d.index)
                            \/ (ended # Ports /\ \E q \in Ports : wm[q] <= d.index)
    BY <1>2, <1>4, <2>1
  <2> QED BY <1>1, <1>3, <1>4, <2>2, QuietRows
<1>6. Columns'
  <2>1. width' = width \/ (p \notin learned /\ layouts = {})
    <3>1. width[p] = w => width' = width
      BY <1>3 DEF IInv, BInv, TypeInv, TypeOK, BufferTypes
    <3> QED BY <1>3, <3>1 DEF Fits, IInv, Columns
  <2>2. EventOf(e).port = p /\ EventOf(e).val = w
    BY <1>2, EntryEvent
  <2>3. width'[p] = w /\ \A q \in Ports : q # p => width'[q] = width[q]
    BY <1>3 DEF IInv, BInv, TypeInv, TypeOK, BufferTypes
  <2>4. \A d \in taken : d.port \in Ports
    BY AppliedEvents DEF IInv
  <2>5. \A d \in taken' : d.port \in learned' /\ d.val = width'[d.port]
    BY <1>2, <1>3, <2>1, <2>2, <2>3, <2>4 DEF IInv, Columns
  <2>6. layouts' \subseteq {width'}
    BY <1>3, <2>1 DEF IInv, Columns
  <2>7. \A q \in Ports \ learned' : width'[q] = Declared[q]
    BY <1>3, <2>3 DEF IInv, Columns
  <2>8. \A i \in 1 .. Len(out'), q \in Ports :
          out'[i].latest[q] \subseteq {d \in taken' : d.port = q}
    BY <1>2, <1>3 DEF IInv, Columns
  <2> QED BY <1>3, <2>5, <2>6, <2>7, <2>8 DEF IInv, Columns
<1>7. Between'
  BY <1>3 DEF Between
<1>8. Ends'
  BY <1>3 DEF IInv, Ends
<1> QED BY <1>1, <1>5, <1>6, <1>7, <1>8 DEF IInv

LEMMA PushRefusedInv ==
  ASSUME IInv, NEW p \in Ports, NEW t \in Indexes, NEW w \in Vals, PushRefused(p, t, w)
  PROVE  IInv'
<1>1. TypeInv'
  BY PushRefusedType DEF IInv, BInv
<1>2. /\ p \notin ended /\ floor[p] <= t /\ floor' = [floor EXCEPT ![p] = t]
      /\ learned' = learned \cup {p}
      /\ UNCHANGED <<taken, out, ended, bufferVars, call, flushes, width, emitted_any, layouts>>
  BY DEF PushRefused, MaySend
<1>3. /\ \A q \in Ports : wm[q] \in Int /\ floor[q] \in Int /\ wm[q] <= floor[q]
      /\ t \in Int /\ floor \in [Ports -> Index]
  BY IndexAssumption, BufferAssumption DEF IInv, BInv, Known, TypeInv, TypeOK, BufferTypes, Index
<1>4. \A q \in Ports : floor[q] <= floor'[q] /\ wm[q] <= wm'[q] /\ wm'[q] <= floor'[q]
  BY <1>2, <1>3 DEF bufferVars
<1>5. BInv' /\ Applied' = Applied /\ \A q : AppliedOf(q)' = AppliedOf(q)
  BY <1>1, <1>2, <1>4, QuietBuffer DEF bufferVars, IInv, BInv, Known, TypeInv, TypeOK
<1>6. Joined' /\ RowsOut'
  BY <1>2, <1>4, <1>5, QuietRows DEF bufferVars
<1>7. Columns'
  BY <1>2 DEF bufferVars, IInv, Columns
<1>8. Between' /\ Ends'
  BY <1>2 DEF bufferVars, IInv, Between, Ends, IsLow
<1> QED BY <1>1, <1>5, <1>6, <1>7, <1>8 DEF IInv

LEMMA MarkWatermarkInv ==
  ASSUME IInv, NEW p \in Ports, NEW w \in Index, MarkWatermark(p, w)
  PROVE  IInv'
<1>1. TypeInv'
  BY MarkWatermarkType DEF IInv, BInv
<1>2. /\ p \notin ended /\ call' = "watermark"
      /\ UNCHANGED <<taken, out, ended, flushed, pending, next_seq, due, latest, flushes, columnVars>>
  BY DEF MarkWatermark, OnWatermark
<1>3. /\ BInv' /\ Applied' = Applied /\ \A q : AppliedOf(q)' = AppliedOf(q)
      /\ \A q \in Ports : wm[q] <= wm'[q]
  BY OnWatermarkBuffer DEF MarkWatermark, IInv
<1>4. Joined' /\ RowsOut'
  BY <1>2, <1>3, QuietRows
<1>5. Columns'
  BY <1>2 DEF columnVars, IInv, Columns
<1>6. Between' /\ Ends'
  BY <1>2 DEF IInv, Between, Ends
<1> QED BY <1>1, <1>3, <1>4, <1>5, <1>6 DEF IInv

LEMMA MarkFlushInv ==
  ASSUME IInv, NEW p \in Ports, MarkFlush(p)
  PROVE  IInv'
<1>1. TypeInv'
  BY MarkFlushType DEF IInv, BInv
<1>2. /\ p \notin ended /\ ended' = ended \cup {p} /\ call' = "flush"
      /\ flushed' = flushed \cup {p}
      /\ UNCHANGED <<taken, out, pending, next_seq, due, latest, flushes, columnVars>>
  BY DEF MarkFlush, FlushPort
<1>3. /\ BInv' /\ Applied' = Applied /\ \A q : AppliedOf(q)' = AppliedOf(q)
      /\ \A q \in Ports : wm[q] <= wm'[q]
  BY FlushPortBuffer DEF MarkFlush, IInv
<1>4. Joined' /\ RowsOut'
  <2>1. ended = Ports => ended' = Ports
    BY <1>2
  <2> QED BY <1>2, <1>3, <2>1, QuietRows
<1>5. Columns'
  BY <1>2 DEF columnVars, IInv, Columns
<1>6. Between'
  BY <1>2 DEF Between
<1>7. Ends'
  <2>1. flushes \in Nat
    BY DEF IInv, TypeInv, TypeOK
  <2>2. flushes = 0
    BY <1>2, <2>1 DEF IInv, Ends
  <2> QED BY <1>2, <2>2 DEF IInv, Ends
<1> QED BY <1>1, <1>3, <1>4, <1>5, <1>6, <1>7 DEF IInv

LEMMA ResetInv ==
  ASSUME IInv, Reset
  PROVE  IInv'
<1>1. TypeInv'
  BY ResetType DEF IInv, BInv
<1>2. /\ taken' = {} /\ out' = <<>> /\ floor' = [p \in Ports |-> kMin] /\ ended' = {}
      /\ wm' = [p \in Ports |-> kMin] /\ flushed' = {} /\ pending' = {} /\ due' = {}
      /\ latest' = [p \in Ports |-> {}] /\ flushes' = 0
      /\ width' = Declared /\ layouts' = {}
  BY DEF Reset, Restart, ResetBuffer
<1>3. Applied' = {} /\ Emitted' = {}
  BY <1>2 DEF Applied, Emitted
<1>4. Known'
  BY <1>2, <1>3, IndexAssumption DEF Known
<1>5. Numbered'
  BY <1>2, <1>3 DEF Numbered
<1>6. Joined'
  BY <1>2, <1>3 DEF Joined, AppliedOf
<1>7. RowsOut'
  BY <1>2, <1>3 DEF RowsOut, AppliedRow
<1>8. Columns'
  BY <1>2 DEF Columns
<1>9. Between' /\ Ends'
  BY <1>2 DEF Between, Ends
<1> QED BY <1>1, <1>4, <1>5, <1>6, <1>7, <1>8, <1>9 DEF IInv, BInv, TypeInv, TypeOK

LEMMA SaveAndLoadInv ==
  ASSUME IInv, SaveAndLoad
  PROVE  IInv'
<1>0. TypeInv' /\ Renumber
  BY SaveAndLoadType DEF IInv
<1>1. BInv' /\ Applied' = Applied /\ \A q : AppliedOf(q)' = AppliedOf(q)
  BY <1>0, RenumberBuffer DEF IInv
<1>2. /\ pending' = {Renumbered(e) : e \in pending}
      /\ UNCHANGED <<streamVars, wm, flushed, due, latest, callVars, columnVars>>
  BY DEF SaveAndLoad
<1>3. \A r \in pending' : \E e \in pending : r.index = e.index
  BY <1>2, RenumberedEvent DEF IInv, BInv
<1>4. \A q \in Ports : wm[q] <= wm'[q]
  BY <1>2, IndexAssumption DEF IInv, BInv, TypeInv, TypeOK, BufferTypes, Index
<1>5. Joined' /\ RowsOut'
  BY <1>1, <1>2, <1>3, <1>4, QuietRows DEF streamVars
<1>6. Columns'
  BY <1>2 DEF streamVars, columnVars, IInv, Columns
<1>7. Between'
  BY <1>2, <1>3 DEF callVars, IInv, Between, IsLow
<1>8. Ends'
  BY <1>2 DEF streamVars, callVars, IInv, Ends
<1> QED BY <1>0, <1>1, <1>5, <1>6, <1>7, <1>8 DEF IInv

-----------------------------------------------------------------------------
(* The steps that emit rows.                                               *)

\* A row due goes out once nothing waits at its index and no port can send one.
LEMMA Delivers ==
  ASSUME IInv, EmitBuffered, NEW i \in due, \A e \in pending : i < e.index,
         (\A p \in Ports : i < wm[p]) \/ ended = Ports,
         UNCHANGED <<taken, floor, ended>>
  PROVE  /\ Deliver
         /\ Emitted' = Emitted \cup due
         /\ \A j \in 1 .. Len(out'), p \in Ports :
              out'[j].latest[p] \subseteq {d \in taken : d.port = p}
         /\ layouts' = layouts \cup {width}
<1>1. out' = Append(out, [index |-> i, latest |-> latest]) /\ layouts' = layouts \cup {width}
  BY DEF EmitBuffered, IInv, BInv, TypeInv, TypeOK, BufferTypes
<1>2. /\ RowAt(i) = [index |-> i, latest |-> latest] /\ IsRow(i)
      /\ \A u \in Emitted : u < i
      /\ \A u \in Index : u < i /\ IsRow(u) => u \in Emitted
  BY RowDue DEF IInv
<1>3. Final(i)
  <2>1. \A p \in Ports : i \in Int /\ i \in Index /\ wm[p] \in Int /\ floor[p] \in Int /\ wm[p] <= floor[p]
    BY AppliedEvents DEF IInv, BInv, Known
  <2> QED BY <2>1 DEF Final
<1>4. Deliver
  <2>1. i \in Index
    BY AppliedEvents DEF IInv
  <2> QED BY <1>1, <1>2, <1>3, <2>1 DEF Deliver
<1>5. Emitted' = Emitted \cup {i} /\ due = {i}
  <2>1. out \in Seq(Row)
    BY DEF IInv, BInv, TypeInv, TypeOK, BufferTypes
  <2> QED BY <1>1, <2>1, AppendEmitted DEF IInv, BInv, TypeInv, TypeOK, BufferTypes
<1>6. \A j \in 1 .. Len(out'), p \in Ports :
        out'[j].latest[p] \subseteq {d \in taken : d.port = p}
  <2>1. out \in Seq(Row)
    BY DEF IInv, BInv, TypeInv, TypeOK, BufferTypes
  <2>2. \A p \in Ports : latest[p] \subseteq {d \in taken : d.port = p}
    BY DEF IInv, Joined, AppliedOf, Applied
  <2>3. \A j \in 1 .. Len(out) : \A p \in Ports : out[j].latest[p] \subseteq {d \in taken : d.port = p}
    BY DEF IInv, Columns
  <2>4. \A j \in 1 .. Len(out') : out'[j] = [index |-> i, latest |-> latest]
                                  \/ (j \in 1 .. Len(out) /\ out'[j] = out[j])
    BY <1>1, <2>1, AppendEmitted
  <2> QED BY <2>2, <2>3, <2>4
<1> QED BY <1>1, <1>4, <1>5, <1>6

\* What a step of the handler finds when it applies the first event.
LEMMA ApplyTopFacts ==
  ASSUME IInv, ApplyTop
  PROVE  \E e \in pending :
           /\ pending' = pending \ {e}
           /\ EventOf(e) \in taken
           /\ EventOf(e).index = e.index /\ EventOf(e).port = e.port
           /\ e.index \in Int /\ e.index \in Index /\ e.port \in Ports
           /\ Applied' = Applied \cup {EventOf(e)}
           /\ \A f \in pending : e.index <= f.index
           /\ \A d \in Applied : d.index <= e.index /\ (d.port = e.port => d.nth < e.nth)
           /\ \A p \in Ports : e.index <= wm[p]
           /\ latest' = [latest EXCEPT ![e.port] = {EventOf(e)}]
           /\ IF \E i \in due : i # e.index THEN EmitBuffered ELSE KeepRows
           /\ due' = IF WhenAll /\ \E p \in Ports : latest'[p] = {}
                     THEN due \cap {e.index} ELSE {e.index}
           /\ emitted_any' = (emitted_any \/ due' # {})
<1>1. PICK e \in pending :
        /\ Applicable(e) /\ pending' = pending \ {e}
        /\ IF \E i \in due : i # e.index THEN EmitBuffered ELSE KeepRows
        /\ latest' = [latest EXCEPT ![e.port] = {EventOf(e)}]
        /\ due' = IF WhenAll /\ \E p \in Ports : latest'[p] = {}
                  THEN due \cap {e.index} ELSE {e.index}
        /\ emitted_any' = (emitted_any \/ due' # {})
  BY DEF ApplyTop
<1>2. UNCHANGED taken
  BY DEF ApplyTop
<1>3. /\ EventOf(e) \in taken /\ Applied' = Applied \cup {EventOf(e)}
      /\ \A f \in pending' : e.index <= f.index
  BY <1>1, <1>2, TopApplied DEF Applicable, IInv
<1>4. e \in Entry /\ e.index \in Int /\ e.index \in Index /\ e.port \in Ports
  BY EntryInts DEF IInv, BInv, TypeInv, TypeOK, BufferTypes, Entry
<1>5. \A p \in Ports : e.index <= wm[p]
  <2>1. PICK low \in Index : IsLow(low) /\ e.index <= low
    BY <1>1 DEF Applicable
  <2>2. \A p \in Ports : low <= wm[p] /\ wm[p] \in Int /\ low \in Int
    BY <2>1, AppliedEvents, IndexAssumption DEF IsLow, IInv, Index
  <2> QED BY <1>4, <2>1, <2>2
<1>6. \A f \in pending : e.index <= f.index
  BY <1>1, <1>3, <1>4
<1>7. \A d \in Applied : d.index <= e.index /\ (d.port = e.port => d.nth < e.nth)
  BY DEF IInv, BInv, Numbered
<1> QED BY <1>1, <1>3, <1>4, <1>5, <1>6, <1>7, EntryEvent

LEMMA ApplyTopEmits ==
  ASSUME IInv, ApplyTop, NEW e \in pending,
         IF \E i \in due : i # e.index THEN EmitBuffered ELSE KeepRows,
         e.index \in Int, \A f \in pending : e.index <= f.index,
         \A p \in Ports : e.index <= wm[p],
         \A d \in Applied : d.index <= e.index
  PROVE  /\ Deliver \/ UNCHANGED streamVars
         /\ Emitted' = Emitted \cup {i \in due : i # e.index}
         /\ \A i \in due : i <= e.index
         /\ \A j \in 1 .. Len(out'), p \in Ports :
              out'[j].latest[p] \subseteq {d \in taken : d.port = p}
         /\ layouts' = layouts \/ (layouts' = layouts \cup {width} /\ due # {})
<1>1. UNCHANGED <<taken, floor, ended>>
  BY DEF ApplyTop
<1>2. /\ \A i \in due : i \in Int
      /\ \A f \in pending : f.index \in Int
      /\ \A p \in Ports : wm[p] \in Int
  BY AppliedEvents DEF IInv
<1>3. ASSUME NEW i \in due PROVE i <= e.index
  <2>1. AppliedRow(i)
    BY AppliedEvents DEF IInv, RowsOut
  <2> QED BY <2>1 DEF AppliedRow
<1>4. CASE \E i \in due : i # e.index
  <2>1. PICK i \in due : i # e.index
    BY <1>4
  <2>2. due = {i}
    BY DEF IInv, BInv, TypeInv, TypeOK, BufferTypes
  <2>3. i < e.index
    BY <1>2, <1>3, <2>1
  <2>4. \A f \in pending : i < f.index
    BY <1>2, <2>3
  <2>5. \A p \in Ports : i < wm[p]
    BY <1>2, <2>3
  <2>6. EmitBuffered
    BY <1>4
  <2>7. /\ Deliver /\ Emitted' = Emitted \cup due
        /\ \A j \in 1 .. Len(out'), p \in Ports :
             out'[j].latest[p] \subseteq {d \in taken : d.port = p}
        /\ layouts' = layouts \cup {width}
    BY <1>1, <2>4, <2>5, <2>6, Delivers
  <2> QED BY <1>3, <2>1, <2>2, <2>7
<1>5. CASE ~\E i \in due : i # e.index
  <2>1. UNCHANGED <<out, layouts>>
    BY <1>5 DEF KeepRows
  <2>2. Emitted' = Emitted
    BY <2>1 DEF Emitted
  <2>3. \A j \in 1 .. Len(out'), p \in Ports :
          out'[j].latest[p] \subseteq {d \in taken : d.port = p}
    BY <2>1 DEF IInv, Columns
  <2> QED BY <1>1, <1>3, <1>5, <2>1, <2>2, <2>3 DEF streamVars
<1> QED BY <1>4, <1>5

\* Applying an event keeps the rows, and emits at most the one that was due.
LEMMA ApplyTopInv ==
  ASSUME IInv, ApplyTop
  PROVE  IInv' /\ (Deliver \/ UNCHANGED streamVars)
<1>1. PICK e \in pending :
           /\ pending' = pending \ {e}
           /\ EventOf(e) \in taken
           /\ EventOf(e).index = e.index /\ EventOf(e).port = e.port
           /\ e.index \in Int /\ e.index \in Index /\ e.port \in Ports
           /\ Applied' = Applied \cup {EventOf(e)}
           /\ \A f \in pending : e.index <= f.index
           /\ \A d \in Applied : d.index <= e.index /\ (d.port = e.port => d.nth < e.nth)
           /\ \A p \in Ports : e.index <= wm[p]
           /\ latest' = [latest EXCEPT ![e.port] = {EventOf(e)}]
           /\ IF \E i \in due : i # e.index THEN EmitBuffered ELSE KeepRows
           /\ due' = IF WhenAll /\ \E p \in Ports : latest'[p] = {}
                     THEN due \cap {e.index} ELSE {e.index}
           /\ emitted_any' = (emitted_any \/ due' # {})
  BY ApplyTopFacts
<1>2. UNCHANGED <<taken, floor, ended, wm, flushed, callVars, width, learned>> /\ call # "idle"
  BY DEF ApplyTop
<1>3. TypeInv' /\ BInv'
  <2>1. PICK f \in pending : Applicable(f) /\ pending' = pending \ {f}
    BY DEF ApplyTop
  <2>2. TypeInv' /\ UNCHANGED next_seq
    BY ApplyTopType DEF ApplyTop, IInv
  <2> QED BY <1>2, <2>1, <2>2, AppliedBuffer DEF IInv, TypeInv, TypeOK
<1> DEFINE v == EventOf(e)
<1>4. v.index = e.index /\ v.port = e.port /\ v.nth = e.nth
  BY <1>1 DEF EventOf
<1>5. /\ Deliver \/ UNCHANGED streamVars
      /\ Emitted' = Emitted \cup {i \in due : i # e.index}
      /\ \A i \in due : i <= e.index
      /\ \A j \in 1 .. Len(out'), p \in Ports :
           out'[j].latest[p] \subseteq {d \in taken : d.port = p}
      /\ layouts' = layouts \/ (layouts' = layouts \cup {width} /\ due # {})
  BY <1>1, ApplyTopEmits
<1> HIDE DEF v
<1>6. /\ Applied' = Applied \cup {v}
      /\ AppliedOf(e.port)' = AppliedOf(e.port) \cup {v}
      /\ \A p : p # e.port => AppliedOf(p)' = AppliedOf(p)
  <2>1. Applied' = Applied \cup {v}
    BY <1>1 DEF v
  <2>2. \A p : AppliedOf(p)' = {d \in Applied' : d.port = p}
    BY DEF AppliedOf
  <2> QED BY <1>4, <2>1, <2>2 DEF AppliedOf
<1>7. Joined'
  <2>1. latest' = [latest EXCEPT ![e.port] = {v}] /\ latest \in [Ports -> SUBSET Event]
    BY <1>1 DEF v, IInv, BInv, TypeInv, TypeOK, BufferTypes
  <2>2. ASSUME NEW p \in Ports
        PROVE  latest'[p] = {d \in AppliedOf(p)' : \A c \in AppliedOf(p)' : c.nth <= d.nth}
    <3>1. CASE p = e.port
      <4>1. \A d \in AppliedOf(p) : d.nth < v.nth /\ d.nth \in Nat /\ v.nth \in Nat
        <5>1. v \in taken /\ \A d \in AppliedOf(p) : d \in Applied /\ d \in taken /\ d.port = e.port
          BY <1>1, <3>1 DEF v, AppliedOf, Applied
        <5> QED BY <1>1, <1>4, <5>1, AppliedEvents DEF IInv
      <4>2. v.nth \in Nat
        BY <1>1, AppliedEvents DEF v, IInv
      <4>3. AppliedOf(p)' = AppliedOf(p) \cup {v}
        BY <1>6, <3>1
      <4>4. latest'[p] = {v}
        BY <1>1, <2>1, <3>1
      <4>5. \A d \in AppliedOf(p) : ~(v.nth <= d.nth) /\ d.nth <= v.nth
        BY <4>1
      <4>6. v.nth <= v.nth
        BY <4>2
      <4> QED BY <4>3, <4>4, <4>5, <4>6
    <3>2. CASE p # e.port
      <4>1. latest'[p] = latest[p] /\ AppliedOf(p)' = AppliedOf(p)
        BY <1>6, <2>1, <3>2
      <4> QED BY <4>1 DEF IInv, Joined
    <3> QED BY <3>1, <3>2
  <2>3. \A p : AppliedOf(p)' = {d \in Applied' : d.port = p}
    BY DEF AppliedOf
  <2> QED BY <2>2 DEF Joined
<1> DEFINE complete == WhenAll => \A p \in Ports : latest'[p] # {}
<1>8. due' = IF complete THEN {e.index} ELSE due \cap {e.index}
  BY <1>1
<1>9. \A d \in Applied \cup {v} : d.index <= e.index /\ d.index \in Int
  <2>1. \A d \in Applied : d.index \in Int
    BY AppliedEvents DEF IInv
  <2> QED BY <1>1, <1>4, <2>1
<1>10. ASSUME NEW t \in Index, t # e.index PROVE AppliedRow(t)' <=> AppliedRow(t)
  <2>1. t \in Int
    BY IndexAssumption DEF Index
  <2>2. (\E d \in Applied' : d.index = t) <=> \E d \in Applied : d.index = t
    BY <1>4, <1>6, <1>10
  <2>3. CASE \E d \in Applied : d.index = t
    <3>1. t < e.index
      BY <1>1, <1>10, <2>1, <2>3
    <3>2. ~(v.index <= t)
      BY <1>1, <1>4, <2>1, <3>1
    <3>3. \A p : (\E d \in AppliedOf(p)' : d.index <= t) <=> \E d \in AppliedOf(p) : d.index <= t
      BY <1>6, <3>2
    <3> QED BY <2>2, <3>3 DEF AppliedRow
  <2>4. CASE ~\E d \in Applied : d.index = t
    BY <2>2, <2>4 DEF AppliedRow
  <2> QED BY <2>3, <2>4
<1>11. AppliedRow(e.index)' <=> complete
  <2>1. \E d \in Applied' : d.index = e.index
    BY <1>4, <1>6
  <2>2. \A p \in Ports : latest'[p] = {} <=> AppliedOf(p)' = {}
    <3>1. ASSUME BInv', Joined' PROVE \A p \in Ports : latest'[p] = {} <=> AppliedOf(p)' = {}
      <4>1. \A p \in Ports : AppliedOf(p) # {} => latest[p] # {}
        BY LatestExists DEF IInv
      <4>2. ASSUME NEW p \in Ports, latest'[p] = {} PROVE AppliedOf(p)' = {}
        <5>1. latest'[e.port] = {v}
          BY <1>1 DEF v, IInv, BInv, TypeInv, TypeOK, BufferTypes
        <5>2. p # e.port
          BY <4>2, <5>1
        <5>3. latest'[p] = latest[p]
          BY <1>1, <5>2 DEF IInv, BInv, TypeInv, TypeOK, BufferTypes
        <5> QED BY <1>6, <4>1, <4>2, <5>2, <5>3
      <4>3. ASSUME NEW p \in Ports, AppliedOf(p)' = {} PROVE latest'[p] = {}
        BY <1>7, <4>3 DEF Joined
      <4> QED BY <4>2, <4>3
    <3> QED BY <1>3, <1>7, <3>1
  <2>3. \A p \in Ports : AppliedOf(p)' # {} <=> \E d \in AppliedOf(p)' : d.index <= e.index
    <3>1. \A p : \A d \in AppliedOf(p)' : d \in Applied \cup {v}
      BY <1>6 DEF AppliedOf
    <3> QED BY <1>9, <3>1
  <2> QED BY <2>1, <2>2, <2>3 DEF AppliedRow
<1>12. AppliedRow(e.index) => AppliedRow(e.index)'
  <2>1. \A p : \A d \in AppliedOf(p) : d \in AppliedOf(p)'
    BY <1>6
  <2> QED BY <1>6, <2>1 DEF AppliedRow
<1>13. e.index \notin Emitted /\ \A u \in Emitted : u < e.index /\ u \in Int
  BY <1>1, EmittedIndex DEF IInv, TypeInv, TypeOK, RowsOut
<1>14. RowsOut'
  <2>1. ASSUME NEW t \in Index PROVE AppliedRow(t)' <=> t \in Emitted' \cup due'
    <3>1. CASE t = e.index
      <4>1. t \in Emitted' \cup due' <=> t \in due'
        BY <1>5, <1>13, <3>1
      <4>2. t \in due' <=> complete \/ t \in due
        BY <1>8, <3>1
      <4>3. t \in due => complete
        BY <1>11, <1>12, <3>1 DEF IInv, RowsOut
      <4> QED BY <1>11, <3>1, <4>1, <4>2, <4>3
    <3>2. CASE t # e.index
      <4>1. t \in Emitted' \cup due' <=> t \in Emitted \cup due
        BY <1>5, <1>8, <3>2
      <4> QED BY <1>10, <3>2, <4>1 DEF IInv, RowsOut
    <3> QED BY <3>1, <3>2
  <2>2. \A i \in due' : i \notin Emitted' /\ \A d \in Applied' : d.index <= i
    BY <1>5, <1>6, <1>8, <1>9, <1>13
  <2>3. \A i \in due : i # e.index => i < e.index /\ i \in Int
    BY <1>1, <1>5, AppliedEvents DEF IInv
  <2>4. \A u \in Emitted', p \in Ports : u < wm'[p] \/ ended' = Ports
    <3>1. \A p \in Ports : wm[p] \in Int
      BY AppliedEvents DEF IInv
    <3>2. \A i \in due, p \in Ports : i # e.index => i < wm[p]
      BY <1>1, <2>3, <3>1
    <3> QED BY <1>2, <1>5, <3>2 DEF IInv, RowsOut
  <2>5. \A u \in Emitted', f \in pending' : u < f.index
    <3>1. \A f \in pending : f.index \in Int
      BY AppliedEvents DEF IInv
    <3>2. \A u \in Emitted' : u < e.index /\ u \in Int
      BY <1>5, <1>13, <2>3
    <3> QED BY <1>1, <3>1, <3>2
  <2> QED BY <2>1, <2>2, <2>4, <2>5 DEF RowsOut
<1>15. Columns'
  <2>1. emitted_any => emitted_any'
    BY <1>1
  <2>2. due' # {} => emitted_any'
    BY <1>1
  <2>3. layouts' # {} => emitted_any'
    BY <1>5, <2>1 DEF IInv, Columns
  <2>4. layouts' \subseteq {width'}
    BY <1>2, <1>5 DEF IInv, Columns
  <2> QED BY <1>2, <1>5, <2>2, <2>3, <2>4 DEF IInv, Columns
<1>16. Between' /\ Ends'
  BY <1>2 DEF callVars, IInv, Between, Ends
<1> QED BY <1>3, <1>5, <1>7, <1>14, <1>15, <1>16 DEF IInv

\* Once all ports have ended, nothing waits when a handler returns.
LEMMA EndedEmpty ==
  ASSUME BInv, Released, ended = Ports
  PROVE  pending = {}
<1>1. PICK low \in Index : IsLow(low)
  BY LowExists DEF BInv, TypeInv, TypeOK, BufferTypes
<1>2. low = kMax
  BY <1>1 DEF IsLow, BInv, Known
<1>3. ASSUME NEW e \in pending PROVE FALSE
  <2>1. low < e.index /\ e.index \in kMin .. kMax
    BY <1>1, ReleasedAbove DEF BInv, TypeInv, TypeOK, BufferTypes, Entry, Index
  <2> QED BY <1>2, <2>1, IndexAssumption
<1> QED BY <1>3

\* A handler that returns emits at most the row that was due.
LEMMA ReturnInv ==
  ASSUME IInv, TypeInv', NEW all \in BOOLEAN, Return(all), all => ended = Ports,
         call # "idle"
  PROVE  /\ BInv' /\ Joined' /\ RowsOut' /\ Columns' /\ Between'
         /\ Deliver \/ UNCHANGED streamVars
         /\ all => due' = {}
<1>1. PICK low \in Index : IsLow(low) /\ Settle(low, all)
  BY DEF Return
<1>2. /\ UNCHANGED <<taken, floor, ended, wm, pending, next_seq, latest, width, learned, emitted_any>>
      /\ Released
  BY DEF Return
<1>3. /\ low \in Int
      /\ \A p \in Ports : wm[p] \in Int /\ floor[p] \in Int /\ low <= wm[p]
      /\ \A e \in pending : low < e.index /\ e.index \in Int
      /\ \A i \in due : i \in Int
  <2>1. low \in Int
    BY IndexAssumption DEF Index
  <2> QED BY <1>1, <1>2, <2>1, ReleasedAbove, AppliedEvents DEF IsLow, IInv
<1>4. BInv' /\ Applied' = Applied /\ \A q : AppliedOf(q)' = AppliedOf(q)
  <2>1. \A p \in Ports : floor[p] <= floor'[p] /\ wm[p] <= wm'[p] /\ wm'[p] <= floor'[p]
    BY <1>2, <1>3 DEF IInv, BInv, Known
  <2>2. \A p \in ended' : wm'[p] = kMax
    BY <1>2 DEF IInv, BInv, Known
  <2> QED BY <1>2, <2>1, <2>2, QuietBuffer DEF IInv, TypeInv, TypeOK
<1>5. \A t : AppliedRow(t)' <=> AppliedRow(t)
  BY <1>4 DEF AppliedRow
<1>6. Joined'
  BY <1>2, <1>4 DEF IInv, Joined
<1>7. CASE EmitBuffered /\ due' = {} /\ \E i \in due : i < low \/ all
  <2>1. PICK i \in due : i < low \/ all
    BY <1>7
  <2>2. \A e \in pending : i < e.index
    <3>1. CASE i < low
      BY <1>3, <3>1
    <3>2. CASE all
      BY <1>2, <3>2, EndedEmpty DEF IInv
    <3> QED BY <2>1, <3>1, <3>2
  <2>3. (\A p \in Ports : i < wm[p]) \/ ended = Ports
    BY <1>3, <2>1
  <2>4. /\ Deliver /\ Emitted' = Emitted \cup due
        /\ \A j \in 1 .. Len(out'), p \in Ports :
             out'[j].latest[p] \subseteq {d \in taken : d.port = p}
        /\ layouts' = layouts \cup {width}
    BY <1>2, <1>7, <2>2, <2>3, Delivers
  <2>5. due = {i}
    BY DEF IInv, BInv, TypeInv, TypeOK, BufferTypes
  <2>6. RowsOut'
    <3>1. \A u \in Emitted', p \in Ports : u < wm'[p] \/ ended' = Ports
      BY <1>2, <2>3, <2>4, <2>5 DEF IInv, RowsOut
    <3>2. \A u \in Emitted', e \in pending' : u < e.index
      BY <1>2, <2>2, <2>4, <2>5 DEF IInv, RowsOut
    <3> QED BY <1>5, <1>7, <2>4, <3>1, <3>2 DEF IInv, RowsOut
  <2>7. Columns'
    BY <1>2, <1>7, <2>4 DEF IInv, Columns
  <2>8. Between'
    BY <1>2, <1>7, ReleasedAbove DEF IInv, Between, IsLow
  <2> QED BY <1>4, <1>6, <1>7, <2>4, <2>6, <2>7, <2>8
<1>8. CASE KeepRows /\ UNCHANGED due /\ ~\E i \in due : i < low \/ all
  <2>1. UNCHANGED <<out, due, layouts>>
    BY <1>8 DEF KeepRows
  <2>2. Emitted' = Emitted
    BY <2>1 DEF Emitted
  <2>3. RowsOut'
    BY <1>2, <1>4, <1>5, <2>1, <2>2 DEF IInv, RowsOut
  <2>4. Columns'
    BY <1>2, <2>1 DEF IInv, Columns
  <2>5. Between'
    <3>1. SUFFICES ASSUME NEW w \in Index, IsLow(w)
                   PROVE  (\A e \in pending : w < e.index) /\ (\A i \in due : w <= i)
      BY <1>2, <2>1 DEF Between, IsLow
    <3>2. w = low
      BY <1>1, <3>1, LowUnique DEF IInv, BInv, TypeInv, TypeOK, BufferTypes
    <3> QED BY <1>3, <1>8, <3>2
  <2>6. all => due' = {}
    BY <1>8
  <2> QED BY <1>2, <1>4, <1>6, <2>1, <2>3, <2>4, <2>5, <2>6 DEF streamVars
<1> QED BY <1>1, <1>7, <1>8 DEF Settle

LEMMA EndInv ==
  ASSUME IInv, EndPush \/ EndWatermark \/ EndFlush
  PROVE  IInv' /\ (Deliver \/ UNCHANGED streamVars)
<1>1. TypeInv'
  BY EndType DEF IInv, BInv
<1>2. call # "idle" /\ flushes = 0 /\ flushed = ended
  <2>1. call # "idle"
    BY DEF EndPush, EndWatermark, EndFlush
  <2> QED BY <2>1 DEF IInv, BInv, TypeInv, TypeOK, BufferTypes, Ends
<1>3. CASE EndPush \/ EndWatermark
  <2>1. Return(FALSE) /\ UNCHANGED <<flushed, flushes>>
    BY <1>3 DEF EndPush, EndWatermark
  <2>2. /\ BInv' /\ Joined' /\ RowsOut' /\ Columns' /\ Between'
        /\ Deliver \/ UNCHANGED streamVars
    BY <1>1, <1>2, <2>1, ReturnInv
  <2>3. Ends'
    BY <1>2, <2>1 DEF Ends, Return
  <2> QED BY <1>1, <2>2, <2>3 DEF IInv
<1>4. CASE EndFlush
  <2>1. Return(flushed = Ports) /\ Released
    BY <1>4 DEF EndFlush, Return
  <2>2. /\ BInv' /\ Joined' /\ RowsOut' /\ Columns' /\ Between'
        /\ Deliver \/ UNCHANGED streamVars
        /\ flushed = Ports => due' = {}
    BY <1>1, <1>2, <2>1, ReturnInv
  <2>3. Ends'
    <3>1. UNCHANGED <<ended, pending>> /\ call' = "idle"
      BY <2>1 DEF Return
    <3>2. CASE flushed = Ports
      <4>1. flushes' = 1 /\ flushed' = {}
        BY <1>2, <1>4, <3>2 DEF EndFlush
      <4>2. pending = {}
        BY <1>2, <2>1, <3>2, EndedEmpty DEF IInv
      <4> QED BY <1>2, <2>2, <3>1, <3>2, <4>1, <4>2 DEF Ends
    <3>3. CASE flushed # Ports
      BY <1>2, <1>4, <3>1, <3>3 DEF EndFlush, Ends
    <3> QED BY <3>2, <3>3
  <2> QED BY <1>1, <2>2, <2>3 DEF IInv
<1> QED BY <1>3, <1>4

-----------------------------------------------------------------------------
(* The theorems.                                                           *)

LEMMA StutterInv ==
  ASSUME IInv, UNCHANGED vars
  PROVE  IInv'
<1>1. TypeInv'
  BY DEF vars, streamVars, bufferVars, callVars, columnVars, IInv, BInv, TypeInv, TypeOK, BufferTypes,
         ColumnAssumption
<1>2. UNCHANGED <<taken, out, floor, ended, wm, pending, next_seq, due, latest>>
  BY DEF vars, streamVars, bufferVars
<1>3. \A p \in Ports : wm[p] <= wm'[p] /\ floor[p] <= floor'[p] /\ wm'[p] <= floor'[p]
  <2>1. \A p \in Ports : wm[p] \in Int /\ floor[p] \in Int
    BY AppliedEvents DEF IInv
  <2> QED BY <1>2, <2>1 DEF IInv, BInv, Known
<1>4. BInv' /\ Applied' = Applied /\ \A p : AppliedOf(p)' = AppliedOf(p)
  BY <1>1, <1>2, <1>3, QuietBuffer DEF IInv, BInv, Known, TypeInv, TypeOK
<1>5. Joined' /\ RowsOut'
  BY <1>2, <1>3, <1>4, QuietRows
<1>6. Columns'
  BY DEF vars, streamVars, bufferVars, columnVars, IInv, Columns
<1>7. Between' /\ Ends'
  BY DEF vars, streamVars, bufferVars, callVars, IInv, Between, Ends, IsLow
<1> QED BY <1>1, <1>4, <1>5, <1>6, <1>7 DEF IInv

LEMMA NextInv ==
  ASSUME IInv, [Next]_vars
  PROVE  IInv'
<1>1. CASE \E p \in Ports, t \in Indexes, w \in Vals : Push(p, t, w) \/ PushRefused(p, t, w)
  BY <1>1, PushInv, PushRefusedInv
<1>2. CASE \E p \in Ports, w \in Index : MarkWatermark(p, w)
  BY <1>2, MarkWatermarkInv
<1>3. CASE \E p \in Ports : MarkFlush(p)
  BY <1>3, MarkFlushInv
<1>4. CASE Handler
  BY <1>4, ApplyTopInv, EndInv DEF Handler
<1>5. CASE Reset
  BY <1>5, ResetInv
<1>6. CASE SaveAndLoad
  BY <1>6, SaveAndLoadInv
<1>7. CASE UNCHANGED vars
  BY <1>7, StutterInv
<1> QED BY <1>1, <1>2, <1>3, <1>4, <1>5, <1>6, <1>7 DEF Next

LEMMA Inductive == ASSUME ColumnAssumption PROVE Spec => []IInv
<1>1. Init => IInv
  BY InitInv
<1>2. IInv /\ [Next]_vars => IInv'
  BY NextInv
<1> QED BY <1>1, <1>2, PTL DEF Spec

\* The state keeps its types, and at most one row is due.
THEOREM TypeCorrect == ASSUME ColumnAssumption PROVE Spec => []TypeOK
<1>1. IInv => TypeOK
  BY DEF IInv, BInv, TypeInv
<1> QED BY <1>1, Inductive, PTL

LEMMA InvPrompt ==
  ASSUME IInv
  PROVE  RowsPrompt
<1>1. SUFFICES ASSUME call = "idle", NEW low \in Index, IsLow(low),
                      NEW t \in Index, t < low, IsRow(t)
               PROVE  t \in Emitted
  BY DEF RowsPrompt
<1>2. /\ \A e \in pending : low < e.index
      /\ \A i \in due : low <= i
  BY <1>1 DEF IInv, Between
<1>3. /\ t \in Int /\ low \in Int
      /\ \A e \in pending : e.index \in Int
      /\ \A i \in due : i \in Int
  BY AppliedEvents, IndexAssumption DEF IInv, Index
<1>4. AppliedRow(t)
  <2>1. \A e \in pending : t < e.index
    BY <1>1, <1>2, <1>3
  <2> QED BY <1>1, <2>1, AppliedRows DEF IInv
<1>5. t \notin due
  BY <1>1, <1>2, <1>3
<1> QED BY <1>4, <1>5 DEF IInv, RowsOut

\* A row is out as soon as no event can come at its index, in a live session
\* as in a batch run: on_port, on_port_watermark and flush_downstream leave no
\* settled row in the node.
THEOREM RowsLeaveInTime == ASSUME ColumnAssumption PROVE Spec => []RowsPrompt
<1>1. IInv => RowsPrompt
  BY InvPrompt
<1> QED BY <1>1, Inductive, PTL

LEMMA InvFlush ==
  ASSUME IInv
  PROVE  FlushEmitsAll
<1>1. SUFFICES ASSUME flushes > 0 PROVE flushes = 1 /\ \A t \in Index : IsRow(t) => t \in Emitted
  BY DEF FlushEmitsAll
<1>2. flushes = 1 /\ pending = {} /\ due = {}
  BY <1>1 DEF IInv, Ends
<1>3. \A t \in Index : IsRow(t) => AppliedRow(t)
  BY <1>2, AppliedRows DEF IInv
<1> QED BY <1>2, <1>3 DEF IInv, RowsOut

\* The node flushes the node below once, after its last row.
THEOREM LastRowGoesOut == ASSUME ColumnAssumption PROVE Spec => []FlushEmitsAll
<1>1. IInv => FlushEmitsAll
  BY InvFlush
<1> QED BY <1>1, Inductive, PTL

LEMMA InvLayout ==
  ASSUME IInv
  PROVE  RowsOneLayout
<1>1. Cardinality(layouts) <= 1
  <2>1. layouts = {} \/ layouts = {width}
    BY DEF IInv, Columns
  <2>2. Cardinality({}) = 0 /\ Cardinality({width}) = 1
    BY FS_EmptySet, FS_Singleton
  <2> QED BY <2>1, <2>2
<1>2. \A i \in 1 .. Len(out), p \in Ports : \A e \in out[i].latest[p] : e.val = width[p]
  BY DEF IInv, Columns
<1> QED BY <1>1, <1>2 DEF RowsOneLayout

\* The rows of a run have one layout: no event is accepted whose columns would
\* change those of a row that is out.
THEOREM OneLayout == ASSUME ColumnAssumption PROVE Spec => []RowsOneLayout
<1>1. IInv => RowsOneLayout
  BY InvLayout
<1> QED BY <1>1, Inductive, PTL

LEMMA InvLoads ==
  ASSUME IInv
  PROVE  SavedStateLoads
<1>1. SUFFICES ASSUME call = "idle", NEW low \in Index, IsLow(low), NEW e \in pending
               PROVE  low < e.index /\ e.index <= wm[e.port] /\ e.val = width[e.port]
  BY DEF SavedStateLoads, IInv, Columns, Between
<1>2. EventOf(e) \in taken /\ EventOf(e).port = e.port /\ EventOf(e).val = e.val
  BY EntryEvent DEF IInv, BInv, Numbered, TypeInv, TypeOK, BufferTypes
<1> QED BY <1>1, <1>2 DEF IInv, BInv, Known, Between, Columns

\* What set_state() demands of a saved state holds whenever state() may be
\* called, so that a saved session always loads.
THEOREM SavedLoads == ASSUME ColumnAssumption PROVE Spec => []SavedStateLoads
<1>1. IInv => SavedStateLoads
  BY InvLoads
<1> QED BY <1>1, Inductive, PTL

-----------------------------------------------------------------------------
(* The node implements AlignedRows.                                        *)

LEMMA StepRefines ==
  ASSUME IInv, [Next]_vars
  PROVE  [SNext]_streamVars
<1>1. ASSUME NEW p \in Ports, NEW t \in Indexes, NEW w \in Vals, Push(p, t, w)
      PROVE  Offer(p)
  <2>1. /\ p \notin ended /\ floor[p] <= t /\ t \in Index
        /\ taken' = taken \cup {[index |-> t, port |-> p, nth |-> Sent(p), val |-> w]}
        /\ floor' = [floor EXCEPT ![p] = t]
        /\ UNCHANGED <<out, ended>>
    BY <1>1, BufferAssumption DEF Push, Enqueue, MaySend, EventOf
  <2> QED BY <2>1 DEF Offer
<1>2. ASSUME NEW f \in [Ports -> Index], \A q \in Ports : floor[q] <= f[q], floor' = f,
             UNCHANGED <<taken, out, ended>>
      PROVE  Promise
  BY <1>2 DEF Promise
<1>3. floor \in [Ports -> Index] /\ \A q \in Ports : floor[q] \in Int
  BY AppliedEvents DEF IInv, BInv, TypeInv, TypeOK, BufferTypes
<1>4. ASSUME NEW p \in Ports, NEW t \in Indexes, NEW w \in Vals, PushRefused(p, t, w)
      PROVE  Promise
  <2>1. t \in Index /\ floor[p] <= t /\ floor' = [floor EXCEPT ![p] = t]
        /\ UNCHANGED <<taken, out, ended>>
    BY <1>4, BufferAssumption DEF PushRefused, MaySend
  <2>2. floor' \in [Ports -> Index] /\ \A q \in Ports : floor[q] <= floor'[q]
    BY <1>3, <2>1
  <2> QED BY <2>1, <2>2 DEF Promise
<1>5. ASSUME NEW p \in Ports, NEW w \in Index, MarkWatermark(p, w)
      PROVE  Promise
  <2>1. floor' = [floor EXCEPT ![p] = Larger(floor[p], w)] /\ UNCHANGED <<taken, out, ended>>
    BY <1>5 DEF MarkWatermark, OnWatermark
  <2>2. Larger(floor[p], w) \in Index /\ floor[p] <= Larger(floor[p], w)
    BY <1>3, LargerType
  <2>3. floor' \in [Ports -> Index] /\ \A q \in Ports : floor[q] <= floor'[q]
    BY <1>3, <2>1, <2>2
  <2> QED BY <2>1, <2>3 DEF Promise
<1>6. ASSUME NEW p \in Ports, MarkFlush(p)
      PROVE  \E S \in SUBSET Ports : End(S)
  <2>1. ended' = ended \cup {p} /\ floor' = [floor EXCEPT ![p] = kMax] /\ UNCHANGED <<taken, out>>
    BY <1>6 DEF MarkFlush, FlushPort
  <2>2. floor' = [q \in Ports |-> IF q \in {p} THEN kMax ELSE floor[q]]
    BY <1>3, <2>1
  <2>3. {p} \in SUBSET Ports
    OBVIOUS
  <2> QED BY <2>1, <2>2, <2>3 DEF End
<1>7. ASSUME Handler PROVE Deliver \/ UNCHANGED streamVars
  BY <1>7, ApplyTopInv, EndInv DEF Handler
<1>8. ASSUME Reset PROVE Restart
  BY <1>8 DEF Reset
<1>9. ASSUME SaveAndLoad \/ UNCHANGED vars PROVE UNCHANGED streamVars
  BY <1>9 DEF SaveAndLoad, vars
<1> QED BY <1>1, <1>4, <1>5, <1>6, <1>7, <1>8, <1>9 DEF Next, SNext

\* Every run of the node is one of the alignment: its rows are those of the
\* events alone, each once, in the order of their indexes and not before it is
\* final, whatever the order in which the ports call the node, across saves and
\* resets.
THEOREM Refinement == ASSUME ColumnAssumption PROVE Spec => AlignedSpec
<1>1. Init => SInit
  BY DEF Init
<1>2. IInv /\ [Next]_vars => [SNext]_streamVars
  BY StepRefines
<1> QED BY <1>1, <1>2, Inductive, PTL DEF Spec, AlignedSpec

-----------------------------------------------------------------------------
(* A watermark the node sent down is a promise.                            *)

\* What was promised is below everything the node holds and may still take.
Low ==
  /\ \A p \in Ports : last_forwarded <= wm[p]
  /\ \A e \in pending : last_forwarded <= e.index
  /\ \A i \in due : last_forwarded <= i

\* No row goes below a watermark that was sent down before.
RowsAbove == Len(out') > Len(out) => last_forwarded <= out'[Len(out')].index

LEMMA LowInts ==
  ASSUME IInv
  PROVE  /\ last_forwarded \in Int /\ last_forwarded \in Index
         /\ \A p \in Ports : wm[p] \in Int /\ floor[p] \in Int /\ wm[p] <= floor[p]
         /\ \A e \in pending : e.index \in Int
         /\ \A i \in due : i \in Int
BY AppliedEvents, IndexAssumption DEF IInv, BInv, Known, TypeInv, TypeOK, BufferTypes, Index

LEMMA RaisedLow ==
  ASSUME IInv, IInv', Low, UNCHANGED <<due, last_forwarded>>,
         \A p \in Ports : wm[p] <= wm'[p],
         \A e \in pending' : (\E f \in pending : f.index = e.index)
                             \/ \E p \in Ports : wm[p] <= e.index
  PROVE  Low'
<1>1. /\ last_forwarded \in Int
      /\ \A p \in Ports : wm[p] \in Int /\ wm'[p] \in Int
      /\ \A e \in pending' : e.index \in Int
  BY EntryInts, IndexAssumption DEF IInv, BInv, TypeInv, TypeOK, BufferTypes, Index
<1> QED BY <1>1 DEF Low

LEMMA PushLow ==
  ASSUME IInv, IInv', Low, NEW p \in Ports, NEW t \in Indexes, NEW w \in Vals, Push(p, t, w)
  PROVE  Low'
<1>1. PICK e \in Entry : e.index = t /\ pending' = pending \cup {e}
  BY EnqueueAdds DEF Push, IInv, BInv
<1>2. /\ floor[p] <= t /\ wm' = [wm EXCEPT ![p] = Larger(wm[p], t)]
      /\ UNCHANGED <<due, last_forwarded>>
  BY DEF Push, Enqueue, MaySend
<1>3. t \in Int /\ wm \in [Ports -> Index]
  BY BufferAssumption, IndexAssumption DEF IInv, BInv, TypeInv, TypeOK, BufferTypes, Index
<1>4. \A q \in Ports : wm[q] <= wm'[q]
  BY <1>2, <1>3, LowInts DEF Larger
<1>5. wm[p] <= e.index
  BY <1>1, <1>2, <1>3, LowInts
<1> QED BY <1>1, <1>2, <1>4, <1>5, RaisedLow

LEMMA ApplyTopLow ==
  ASSUME IInv, IInv', Low, ApplyTop
  PROVE  Low' /\ RowsAbove
<1>1. PICK e \in pending :
        /\ pending' = pending \ {e}
        /\ IF \E i \in due : i # e.index THEN EmitBuffered ELSE KeepRows
        /\ due' \subseteq {e.index}
  BY DEF ApplyTop
<1>2. UNCHANGED <<wm, last_forwarded>>
  BY DEF ApplyTop
<1>3. Low'
  BY <1>1, <1>2 DEF Low
<1>4. RowsAbove
  <2>1. out \in Seq(Row)
    BY DEF IInv, BInv, TypeInv, TypeOK, BufferTypes
  <2>2. CASE EmitBuffered
    BY <2>1, <2>2 DEF EmitBuffered, RowsAbove, Low
  <2>3. CASE KeepRows
    BY <2>1, <2>3 DEF KeepRows, RowsAbove
  <2> QED BY <1>1, <2>2, <2>3
<1> QED BY <1>3, <1>4

LEMMA ReturnLow ==
  ASSUME IInv, IInv', Low, NEW all \in BOOLEAN, Return(all)
  PROVE  Low' /\ RowsAbove
<1>1. PICK low \in Index :
        /\ IsLow(low) /\ Settle(low, all)
        /\ last_forwarded' = IF low # kMin THEN Larger(last_forwarded, low) ELSE last_forwarded
  BY DEF Return
<1>2. Released /\ UNCHANGED <<wm, pending>>
  BY DEF Return
<1>3. /\ low \in Int /\ \A p \in Ports : low <= wm[p]
      /\ \A e \in pending : low < e.index
  BY <1>1, <1>2, ReleasedAbove, IndexAssumption DEF IsLow, Index, IInv
<1>4. last_forwarded' \in {last_forwarded, low}
  BY <1>1 DEF Larger
<1>5. \A i \in due' : i \in due /\ low <= i
  <2>1. CASE \E i \in due : i < low \/ all
    BY <1>1, <2>1 DEF Settle
  <2>2. CASE ~\E i \in due : i < low \/ all
    BY <1>1, <1>3, <2>2, LowInts DEF Settle
  <2> QED BY <2>1, <2>2
<1>6. Low'
  BY <1>2, <1>3, <1>4, <1>5, LowInts DEF Low
<1>7. RowsAbove
  <2>1. out \in Seq(Row)
    BY DEF IInv, BInv, TypeInv, TypeOK, BufferTypes
  <2>2. CASE EmitBuffered
    BY <2>1, <2>2 DEF EmitBuffered, RowsAbove, Low
  <2>3. CASE KeepRows
    BY <2>1, <2>3 DEF KeepRows, RowsAbove
  <2> QED BY <1>1, <2>2, <2>3 DEF Settle
<1> QED BY <1>6, <1>7

LEMMA NextLow ==
  ASSUME IInv, Low, [Next]_vars
  PROVE  Low' /\ [RowsAbove]_vars
<1>1. IInv'
  BY NextInv
<1>2. out \in Seq(Row)
  BY DEF IInv, BInv, TypeInv, TypeOK, BufferTypes
<1>3. CASE \E p \in Ports, t \in Indexes, w \in Vals : Push(p, t, w)
  <2>1. UNCHANGED out
    BY <1>3 DEF Push, Enqueue
  <2> QED BY <1>1, <1>2, <1>3, <2>1, PushLow DEF RowsAbove
<1>4. CASE (\E p \in Ports, t \in Indexes, w \in Vals : PushRefused(p, t, w)) \/ UNCHANGED vars
  <2>1. UNCHANGED <<out, wm, due, pending, last_forwarded>>
    BY <1>4 DEF PushRefused, bufferVars, vars, streamVars
  <2>2. \A q \in Ports : wm[q] <= wm'[q]
    BY <2>1, LowInts
  <2> QED BY <1>1, <1>2, <2>1, <2>2, RaisedLow DEF RowsAbove
<1>5. CASE \E p \in Ports, w \in Index : MarkWatermark(p, w)
  <2>1. PICK p \in Ports, w \in Index : wm' = [wm EXCEPT ![p] = Larger(wm[p], w)]
    BY <1>5 DEF MarkWatermark, OnWatermark
  <2>2. UNCHANGED <<out, due, pending, last_forwarded>>
    BY <1>5 DEF MarkWatermark, OnWatermark
  <2>3. \A q \in Ports : wm[q] <= wm'[q]
    <3>1. wm \in [Ports -> Index]
      BY DEF IInv, BInv, TypeInv, TypeOK, BufferTypes
    <3>2. wm[p] <= Larger(wm[p], w)
      BY <3>1, LargerType
    <3> QED BY <2>1, <3>1, <3>2, LowInts
  <2> QED BY <1>1, <1>2, <2>2, <2>3, RaisedLow DEF RowsAbove
<1>6. CASE \E p \in Ports : MarkFlush(p)
  <2>1. PICK p \in Ports : wm' = [wm EXCEPT ![p] = kMax]
    BY <1>6 DEF MarkFlush, FlushPort
  <2>2. UNCHANGED <<out, due, pending, last_forwarded>>
    BY <1>6 DEF MarkFlush, FlushPort
  <2>3. \A q \in Ports : wm[q] <= wm'[q]
    BY <2>1, IndexAssumption DEF IInv, BInv, TypeInv, TypeOK, BufferTypes, Index
  <2> QED BY <1>1, <1>2, <2>2, <2>3, RaisedLow DEF RowsAbove
<1>7. CASE ApplyTop
  BY <1>1, <1>7, ApplyTopLow
<1>8. CASE EndPush \/ EndWatermark \/ EndFlush
  <2>1. PICK all \in BOOLEAN : Return(all)
    BY <1>8 DEF EndPush, EndWatermark, EndFlush
  <2> QED BY <1>1, <2>1, ReturnLow
<1>9. CASE Reset
  <2>1. /\ wm' = [p \in Ports |-> kMin] /\ pending' = {} /\ due' = {} /\ last_forwarded' = kMin
        /\ out' = <<>>
    BY <1>9 DEF Reset, ResetBuffer, Restart
  <2> QED BY <1>2, <2>1, IndexAssumption DEF Low, RowsAbove
<1>10. CASE SaveAndLoad
  <2>1. UNCHANGED <<out, wm, due, last_forwarded>>
    BY <1>10 DEF SaveAndLoad, streamVars
  <2>2. \A r \in pending' : \E e \in pending : e.index = r.index
    BY <1>10, RenumberedEvent DEF SaveAndLoad, IInv, BInv
  <2>3. \A q \in Ports : wm[q] <= wm'[q]
    BY <2>1, LowInts
  <2> QED BY <1>1, <1>2, <2>1, <2>2, <2>3, RaisedLow DEF RowsAbove
<1> QED BY <1>3, <1>4, <1>5, <1>6, <1>7, <1>8, <1>9, <1>10 DEF Next, Handler

LEMMA InitLow == ASSUME Init PROVE Low
BY IndexAssumption DEF Init, BufferInit, Low

\* No row goes below a watermark that forward_watermark sent down: what the
\* nodes below take for final stays final.
THEOREM PromiseKept == ASSUME ColumnAssumption PROVE Spec => [][RowsAbove]_vars
<1>1. Init => Low
  BY InitLow
<1>2. IInv /\ Low /\ [Next]_vars => Low' /\ [RowsAbove]_vars
  BY NextLow
<1> QED BY <1>1, <1>2, Inductive, PTL DEF Spec
====
