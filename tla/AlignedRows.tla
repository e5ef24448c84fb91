---------------------------- MODULE AlignedRows ----------------------------
(***************************************************************************)
(* What an as-of join promises: one row per index at which some input has  *)
(* an event, holding every input's last event at or below that index, in   *)
(* index order, and each row once its index is final.  Rows start once     *)
(* every input has an event (WhenAll), and a gated join drops the rows     *)
(* whose mask, the last event of input 1, does not pass.                   *)
(*                                                                         *)
(* A row is a function of the events alone, not of the order in which the  *)
(* inputs deliver them: a batch run and a live session agree.              *)
(* CombineLatest, Filter and OutputJoin implement this specification.      *)
(***************************************************************************)
EXTENDS Integers, Sequences, FiniteSets

CONSTANTS N,         \* the number of inputs
          kMin,      \* the lowest and the highest index (int64 in the code)
          kMax,
          Vals,      \* what a row reads of an event: its columns, or a mask
          WhenAll,   \* whether rows wait for every input
          Gated,     \* whether input 1 masks the rows
          Passing    \* the mask values that keep a row

ASSUME NAssumption == N \in Nat \ {0}
ASSUME IndexAssumption == kMin \in Int /\ kMax \in Int /\ kMin < kMax
ASSUME GateAssumption ==
  /\ WhenAll \in BOOLEAN /\ Gated \in BOOLEAN
  /\ Passing \subseteq Vals
  /\ Gated => N = 2

VARIABLES taken,     \* the events the join accepted
          out,       \* the rows it emitted
          floor,     \* floor[p]: input p sends nothing below this any more
          ended      \* the inputs that send nothing any more

streamVars == <<taken, out, floor, ended>>

Ports == 0 .. N - 1
Index == kMin .. kMax

\* An event is known by its port and its position among the port's events.
Event == [index : Index, port : Ports, nth : Nat, val : Vals]
Row == [index : Index, latest : [Ports -> SUBSET Event]]

Sent(p) == Cardinality({e \in taken : e.port = p})

Upto(p, t) == {e \in taken : e.port = p /\ e.index <= t}

\* The last event of input p at or below t, if it has one.
Latest(p, t) == {e \in Upto(p, t) : \A d \in Upto(p, t) : d.nth <= e.nth}

RowAt(t) == [index |-> t, latest |-> [p \in Ports |-> Latest(p, t)]]

\* The mask, input 1's latest event, lets a row through.
Passes(latest) == ~Gated \/ \E e \in latest[1] : e.val \in Passing

IsRow(t) ==
  /\ \E e \in taken : e.index = t
  /\ WhenAll => \A p \in Ports : Latest(p, t) # {}
  /\ Passes(RowAt(t).latest)

\* No input may still send an event at or below t.
Final(t) == \A p \in Ports : p \in ended \/ t < floor[p]

Emitted == {out[i].index : i \in 1 .. Len(out)}

SInit ==
  /\ taken = {}
  /\ out = <<>>
  /\ floor = [p \in Ports |-> kMin]
  /\ ended = {}

Promise ==
  /\ floor' \in [Ports -> Index]
  /\ \A p \in Ports : floor[p] <= floor'[p]
  /\ UNCHANGED <<taken, out, ended>>

Offer(p) ==
  /\ p \notin ended
  /\ \E t \in Index, v \in Vals :
       /\ floor[p] <= t
       /\ taken' = taken \cup {[index |-> t, port |-> p, nth |-> Sent(p), val |-> v]}
       /\ floor' = [floor EXCEPT ![p] = t]
  /\ UNCHANGED <<out, ended>>

\* Some inputs end.
End(S) ==
  /\ ended' = ended \cup S
  /\ floor' = [p \in Ports |-> IF p \in S THEN kMax ELSE floor[p]]
  /\ UNCHANGED <<taken, out>>

\* The next row goes out, its index being final.
Deliver ==
  /\ \E t \in Index :
       /\ IsRow(t) /\ Final(t)
       /\ \A u \in Emitted : u < t
       /\ \A u \in Index : u < t /\ IsRow(u) => u \in Emitted
       /\ out' = Append(out, RowAt(t))
  /\ UNCHANGED <<taken, floor, ended>>

Restart ==
  /\ taken' = {}
  /\ out' = <<>>
  /\ floor' = [p \in Ports |-> kMin]
  /\ ended' = {}

SNext ==
  \/ Promise
  \/ \E p \in Ports : Offer(p)
  \/ \E S \in SUBSET Ports : End(S)
  \/ Deliver
  \/ Restart

AlignedSpec == SInit /\ [][SNext]_streamVars
=============================================================================
