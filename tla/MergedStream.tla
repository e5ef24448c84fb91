---------------------------- MODULE MergedStream ----------------------------
(***************************************************************************)
(* What a node with several producers promises of its input: the           *)
(* producers' streams come out as one stream, in the order of index, then  *)
(* of port, then of arrival, an event as soon as it is final and never     *)
(* before.  An event is final once no producer may still send one that     *)
(* belongs before it.                                                      *)
(*                                                                         *)
(* OrderedMerge (the code's OrderedMergeNode) implements this              *)
(* specification under the identity mapping of its variables.              *)
(***************************************************************************)
EXTENDS Integers, Sequences, FiniteSets

CONSTANTS N,         \* the number of ports: the inputs of the node
          kMin,      \* the lowest and the highest index (int64 in the code)
          kMax

ASSUME NAssumption == N \in Nat \ {0}
ASSUME IndexAssumption == kMin \in Int /\ kMax \in Int /\ kMin < kMax

VARIABLES taken,     \* the events the node accepted
          out,       \* the events it passed on, in order
          floor,     \* floor[p]: producer p sends nothing below this any more
          ended      \* the ports whose producer sends nothing any more

streamVars == <<taken, out, floor, ended>>

Ports == 0 .. N - 1
Index == kMin .. kMax

\* An event is known by its port and its position among the port's events.
Event == [index : Index, port : Ports, nth : Nat]

\* The order of the merged stream.
Before(a, b) ==
  \/ a.index < b.index
  \/ a.index = b.index /\ a.port < b.port
  \/ a.index = b.index /\ a.port = b.port /\ a.nth < b.nth

Delivered == {out[i] : i \in 1 .. Len(out)}
Waiting == taken \ Delivered

\* Producer q may still send an event that belongs before e.
MayPrecede(q, e) ==
  /\ q \notin ended
  /\ IF q < e.port THEN floor[q] <= e.index ELSE floor[q] < e.index

Final(e) == \A q \in Ports \ {e.port} : ~MayPrecede(q, e)

SInit ==
  /\ taken = {}
  /\ out = <<>>
  /\ floor = [p \in Ports |-> kMin]
  /\ ended = {}

\* A producer promises to send nothing below a higher index.
Promise ==
  /\ floor' \in [Ports -> Index]
  /\ \A p \in Ports : floor[p] <= floor'[p]
  /\ UNCHANGED <<taken, out, ended>>

\* A producer sends its next event, and the node accepts it.
Offer(p) ==
  /\ p \notin ended
  /\ \E t \in Index :
       /\ floor[p] <= t
       /\ taken' = taken \cup {[index |-> t, port |-> p,
                                nth |-> Cardinality({e \in taken : e.port = p})]}
       /\ floor' = [floor EXCEPT ![p] = t]
  /\ UNCHANGED <<out, ended>>

\* A producer ends.
End(p) ==
  /\ ended' = ended \cup {p}
  /\ floor' = [floor EXCEPT ![p] = kMax]
  /\ UNCHANGED <<taken, out>>

\* The node passes on the first waiting event, which must be final.
Deliver ==
  /\ \E e \in Waiting :
       /\ \A d \in Waiting \ {e} : Before(e, d)
       /\ Final(e)
       /\ out' = Append(out, e)
  /\ UNCHANGED <<taken, floor, ended>>

Restart ==
  /\ taken' = {}
  /\ out' = <<>>
  /\ floor' = [p \in Ports |-> kMin]
  /\ ended' = {}

SNext ==
  \/ Promise
  \/ \E p \in Ports : Offer(p) \/ End(p)
  \/ Deliver
  \/ Restart

MergedSpec == SInit /\ [][SNext]_streamVars
=============================================================================
