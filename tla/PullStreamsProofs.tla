-------------------------- MODULE PullStreamsProofs --------------------------
(***************************************************************************)
(* Proofs about PullStreams, for any number of sources, any range of       *)
(* indexes, any events and any requests: what a stream reads, what its     *)
(* rows hold, and what it leaves behind.                                   *)
(***************************************************************************)
EXTENDS PullStreams, FiniteSetTheorems, SequenceTheorems, TLAPS

-----------------------------------------------------------------------------
(* The invariant.                                                          *)

Times == kMin .. kMax
PEvent == [index : Times, port : Sources, nth : Nat]
PerSource == [Sources -> SUBSET PEvent]
HeldRow == [index : Times, latest : PerSource]
SourceStates == {"new", "open", "asked", "ended", "threw", "returning", "returned"}
Phases == {"start", "run", "await", "yield", "closing", "done", "collected"}

TypeInv ==
  /\ form \in Forms /\ async \in BOOLEAN
  /\ src \in [Sources -> SourceStates] /\ returns \in [Sources -> Nat]
  /\ given \in [Sources -> Seq(Times)]
  /\ heads \in PerSource /\ latest \in PerSource
  /\ due \in SUBSET HeldRow
  /\ rows \in Seq(PEvent \cup HeldRow \cup PerSource) /\ out \in Seq(PEvent \cup HeldRow \cup PerSource)
  /\ round \in SUBSET Sources /\ closing \in SUBSET Sources
  /\ at \in Phases
  /\ wasm \in {"none", "open", "freed"} /\ deletes \in Nat /\ held \in BOOLEAN

\* The generator has begun and has not ended.
Begun == at \in {"run", "await", "yield"}

\* What the sources do, by how far the generator is.
Life ==
  /\ at = "start" => \A p \in Sources : src[p] = "new"
  /\ Begun => \A p \in Sources :
       /\ src[p] \in {"open", "asked", "ended"}
       /\ src[p] = "asked" => at = "await" /\ \A q \in Sources : src[q] = "asked" => p = q
  /\ at = "closing" => \A p \in Sources :
       p \in closing <=> /\ src[p] \notin {"ended", "returning", "returned"}
                         /\ form = "feed" => src[p] \notin {"threw", "new"}
  /\ at = "done" => \A p \in Sources :
       src[p] \in {"new", "ended", "returned"} \/ (form = "feed" /\ src[p] = "threw")
  /\ \A p \in Sources : returns[p] = IF src[p] \in {"returning", "returned"} THEN 1 ELSE 0

\* What becomes of the stream's object in WASM.
Freed ==
  /\ deletes = IF wasm = "freed" THEN 1 ELSE 0
  /\ held <=> wasm = "open"
  /\ at = "start" => wasm = "none"
  /\ at = "closing" /\ form # "feed" => wasm # "open"
  /\ at \in {"done", "collected"} => wasm # "open"

\* The event a source gave last.
Newest(p) == [index |-> given[p][Len(given[p])], port |-> p, nth |-> Len(given[p]) - 1]

\* A source that goes on is owed a next(), or its event waits to be used.
Pulling ==
  /\ at = "start" =>
       /\ out = <<>> /\ due = {}
       /\ \A p \in Sources : given[p] = <<>> /\ heads[p] = {} /\ latest[p] = {}
  /\ at # "run" => rows = <<>>
  /\ Len(rows) <= 1
  /\ \A d, e \in due : d = e
  /\ Begun => \A p \in Sources :
       /\ p \in round => src[p] = "open" /\ heads[p] = {}
       /\ src[p] = "open" => p \in round \/ heads[p] # {}
       /\ heads[p] # {} => src[p] = "open" /\ given[p] # <<>> /\ heads[p] = {Newest(p)}

\* The rows of positional sources, those out and the one under way.
Paired ==
  form \in {"zip", "feed"} =>
    /\ \A k \in 1 .. Len(out) : \A p \in Sources : {e.nth : e \in out[k][p]} = {k - 1}
    /\ \A p \in Sources : Len(given[p]) <= Len(out) + 1
    /\ rows # <<>> => \A p \in Sources : {e.nth : e \in rows[1][p]} = {Len(out)}
    /\ Begun => \A p \in Sources :
         Len(given[p]) = Len(out) + Len(rows) + (IF heads[p] = {} THEN 0 ELSE 1)

IInv == TypeInv /\ Life /\ Freed /\ Pulling /\ Paired

\* All but the consumer's variables.
engineVars == <<kindVars, sourceVars, rowVars, out, at, closing, heldVars>>

-----------------------------------------------------------------------------
(* The invariant is inductive.                                             *)

LEMMA InitInv == Init => IInv
<1> SUFFICES ASSUME Init PROVE IInv
  OBVIOUS
<1>1. TypeInv
  <2>1. \A f : f = [p \in Sources |-> {}] => f \in PerSource
    BY DEF PerSource
  <2>2. \A f : f = [p \in Sources |-> <<>>] => f \in [Sources -> Seq(Times)]
    OBVIOUS
  <2>3. /\ form \in Forms /\ async \in BOOLEAN /\ at \in Phases /\ deletes \in Nat /\ held \in BOOLEAN
        /\ wasm \in {"none", "open", "freed"}
    BY DEF Init, Phases
  <2>4. src \in [Sources -> SourceStates] /\ returns \in [Sources -> Nat]
    BY DEF Init, SourceStates
  <2>5. heads \in PerSource /\ latest \in PerSource /\ given \in [Sources -> Seq(Times)]
    BY <2>1, <2>2 DEF Init
  <2>6. /\ due \in SUBSET HeldRow /\ round \in SUBSET Sources /\ closing \in SUBSET Sources
        /\ rows \in Seq(PEvent \cup HeldRow \cup PerSource) /\ out \in Seq(PEvent \cup HeldRow \cup PerSource)
    BY DEF Init
  <2> QED BY <2>3, <2>4, <2>5, <2>6 DEF TypeInv
<1>2. Life /\ Freed /\ Pulling /\ Paired
  BY DEF Init, Life, Begun, Freed, Pulling, Paired
<1> QED BY <1>1, <1>2 DEF IInv

LEMMA SameInv ==
  ASSUME IInv, UNCHANGED engineVars
  PROVE  IInv'
<1> USE DEF engineVars, kindVars, sourceVars, rowVars, heldVars
<1>1. TypeInv'
  BY DEF IInv, TypeInv
<1>2. Life' /\ Freed'
  BY DEF IInv, Life, Begun, Freed
<1>3. Pulling'
  BY DEF IInv, Pulling, Begun, Newest
<1>4. Paired'
  BY DEF IInv, Paired, Begun
<1> QED BY <1>1, <1>2, <1>3, <1>4 DEF IInv

LEMMA FreeFacts ==
  ASSUME TypeInv, Freed, Release
  PROVE  /\ wasm' = (IF wasm = "open" THEN "freed" ELSE wasm)
         /\ deletes' = (IF wasm' = "freed" THEN 1 ELSE 0)
         /\ held' = FALSE
         /\ wasm' \in {"none", "freed"} /\ deletes' \in Nat
BY DEF TypeInv, Freed, Release, Free

\* Every way into the finally block.
LEMMA LeaveInv ==
  ASSUME IInv, Begun, rows = <<>>, NEW why, Leave(why),
         src' \in [Sources -> {"open", "asked", "ended", "threw"}]
  PROVE  IInv'
<1> USE DEF Leave, kindVars
<1>1. /\ form = "feed" => UNCHANGED heldVars
      /\ form # "feed" => Release
  OBVIOUS
<1>2. /\ wasm' \in {"none", "open", "freed"} /\ deletes' \in Nat /\ held' \in BOOLEAN
      /\ Freed'
  <2>1. CASE form = "feed"
    BY <1>1, <2>1 DEF IInv, TypeInv, Freed, heldVars
  <2>2. CASE form # "feed"
    BY <1>1, <2>2, FreeFacts DEF IInv, Freed
  <2> QED BY <2>1, <2>2
<1>3. TypeInv'
  <2>1. src' \in [Sources -> SourceStates] /\ closing' \in SUBSET Sources
    BY DEF SourceStates, ToClose
  <2>2. rows' \in Seq(PEvent \cup HeldRow \cup PerSource) /\ at' \in Phases
    BY DEF Phases
  <2> QED BY <1>2, <2>1, <2>2 DEF IInv, TypeInv
<1>4. Life'
  <2>1. \A p \in Sources : returns[p] = 0
    BY DEF IInv, Life, Begun, TypeInv
  <2> QED BY <2>1 DEF IInv, Life, Begun, ToClose, TypeInv
<1>5. Pulling' /\ Paired'
  BY DEF IInv, Pulling, Paired, Begun
<1> QED BY <1>2, <1>3, <1>4, <1>5 DEF IInv

\* A step that leaves the rows and what was given as they are.
stillVars == <<form, given, heads, latest, due, rows, out>>

LEMMA StillTypes ==
  ASSUME TypeInv, UNCHANGED <<stillVars, async>>, at' \in Phases,
         src' \in [Sources -> SourceStates], returns' \in [Sources -> Nat],
         round' \in SUBSET Sources, closing' \in SUBSET Sources,
         wasm' \in {"none", "open", "freed"}, deletes' \in Nat, held' \in BOOLEAN
  PROVE  TypeInv'
BY DEF TypeInv, stillVars

\* The rows stay right in a step that gives and makes none.
LEMMA StillPaired ==
  ASSUME Paired, UNCHANGED stillVars, Begun' => Begun
  PROVE  Paired'
BY DEF Paired, Begun, stillVars

\* After the generator has ended nothing is pulled.
LEMMA StillPulling ==
  ASSUME Pulling, UNCHANGED stillVars, at # "run", at' \in {"closing", "done", "collected"}
  PROVE  Pulling'
BY DEF Pulling, Begun, stillVars

LEMMA CollectInv == ASSUME IInv, Collect PROVE IInv'
<1> USE DEF Collect, kindVars, sourceVars, rowVars, endVars
<1>1. /\ wasm' \in {"none", "freed"} /\ held' \in BOOLEAN
      /\ deletes' \in Nat /\ deletes' = IF wasm' = "freed" THEN 1 ELSE 0
  <2>1. CASE held
    <3>1. wasm = "open" /\ deletes = 0
      BY <2>1 DEF IInv, Freed
    <3>2. Free /\ held' = FALSE
      BY <2>1, Zenon
    <3>3. wasm' = "freed" /\ deletes' = 1
      BY <3>1, <3>2 DEF Free
    <3> QED BY <3>2, <3>3
  <2>2. CASE ~held
    BY <2>2 DEF IInv, TypeInv, Freed
  <2> QED BY <2>1, <2>2
<1>2. TypeInv'
  BY <1>1, StillTypes DEF IInv, stillVars, Phases, TypeInv
<1>3. Life' /\ Freed'
  BY <1>1 DEF IInv, Life, Begun, Freed
<1>4. Pulling' /\ Paired'
  BY StillPaired, StillPulling DEF IInv, stillVars, Begun
<1> QED BY <1>2, <1>3, <1>4 DEF IInv

LEMMA CloseSourceInv ==
  ASSUME IInv, NEW p \in Sources, CloseSource(p)
  PROVE  IInv'
<1> USE DEF CloseSource, kindVars, rowVars, heldVars
<1>1. /\ returns[p] = 0 /\ src \in [Sources -> SourceStates] /\ returns \in [Sources -> Nat]
      /\ src[p] \notin {"ended", "returning", "returned"}
  BY DEF IInv, Life, TypeInv
<1>2. TypeInv'
  <2>1. src' \in [Sources -> SourceStates] /\ returns' \in [Sources -> Nat] /\ closing' \in SUBSET Sources
    BY <1>1 DEF SourceStates, IInv, TypeInv
  <2> QED BY <2>1, StillTypes DEF IInv, stillVars, TypeInv
<1>3. Life'
  BY <1>1 DEF IInv, Life, Begun
<1>4. Freed'
  BY DEF IInv, Freed
<1>5. Pulling' /\ Paired'
  BY StillPaired, StillPulling DEF IInv, stillVars, Begun
<1> QED BY <1>2, <1>3, <1>4, <1>5 DEF IInv

LEMMA ReturnedInv ==
  ASSUME IInv, NEW p \in Sources, NEW ok, Returned(p, ok)
  PROVE  IInv'
<1> USE DEF Returned, kindVars, rowVars, heldVars
<1>1. src \in [Sources -> SourceStates] /\ returns \in [Sources -> Nat]
  BY DEF IInv, TypeInv
<1>2. TypeInv'
  <2>1. src' \in [Sources -> SourceStates]
    BY <1>1 DEF SourceStates
  <2> QED BY <2>1, StillTypes DEF IInv, stillVars, TypeInv
<1>3. Life'
  BY <1>1 DEF IInv, Life, Begun
<1>4. Freed'
  BY DEF IInv, Freed
<1>5. Pulling' /\ Paired'
  BY StillPaired, StillPulling DEF IInv, stillVars, Begun
<1> QED BY <1>2, <1>3, <1>4, <1>5 DEF IInv

LEMMA LeftInv == ASSUME IInv, Left PROVE IInv'
<1> USE DEF Left, kindVars, sourceVars, rowVars, endVars
<1>1. /\ wasm' \in {"none", "freed"} /\ deletes' \in Nat /\ held' \in BOOLEAN
      /\ Freed'
  <2>1. CASE form = "feed"
    BY <2>1, FreeFacts DEF IInv, Freed
  <2>2. CASE form # "feed"
    BY <2>2 DEF IInv, TypeInv, Freed, heldVars
  <2> QED BY <2>1, <2>2
<1>2. TypeInv'
  BY <1>1, StillTypes DEF IInv, stillVars, Phases, TypeInv
<1>3. Life'
  BY DEF IInv, Life, Begun, TypeInv, SourceStates
<1>4. Pulling' /\ Paired'
  BY StillPaired, StillPulling DEF IInv, stillVars, Begun
<1> QED BY <1>1, <1>2, <1>3, <1>4 DEF IInv

LEMMA AfterEndInv == ASSUME IInv, AfterEnd PROVE IInv'
BY SameInv DEF AfterEnd, engineVars, endVars

LEMMA BeginInv == ASSUME IInv, Begin PROVE IInv'
<1> USE DEF Begin, kindVars, endVars
<1>1. src' \in [Sources -> SourceStates] /\ round' \in SUBSET Sources
  BY DEF SourceStates
<1>2. /\ wasm' \in {"none", "open"} /\ deletes' \in Nat /\ held' \in BOOLEAN
      /\ Freed'
  BY DEF IInv, TypeInv, Freed, heldVars
<1>3. TypeInv'
  BY <1>1, <1>2, StillTypes DEF IInv, stillVars, Phases, TypeInv
<1>4. Life'
  BY DEF IInv, Life, Begun
<1>5. Pulling'
  BY DEF IInv, Pulling, Begun
<1>6. Paired'
  BY DEF IInv, Paired, Pulling, Begun
<1> QED BY <1>2, <1>3, <1>4, <1>5, <1>6 DEF IInv

LEMMA BeginFailsInv == ASSUME IInv, BeginFails PROVE IInv'
<1> USE DEF BeginFails, kindVars, rowVars, heldVars
<1>1. src' \in [Sources -> SourceStates] /\ closing' \in SUBSET Sources
  BY DEF SourceStates
<1>2. TypeInv'
  BY <1>1, StillTypes DEF IInv, stillVars, Phases, TypeInv
<1>3. Life' /\ Freed'
  BY DEF IInv, Life, Begun, Freed
<1>4. Pulling' /\ Paired'
  BY StillPaired, StillPulling DEF IInv, stillVars, Begun
<1> QED BY <1>2, <1>3, <1>4 DEF IInv

LEMMA BeginEndsInv == ASSUME IInv, BeginEnds PROVE IInv'
<1> USE DEF BeginEnds, kindVars, sourceVars, rowVars, endVars, heldVars
<1>1. TypeInv'
  BY StillTypes DEF IInv, stillVars, Phases, TypeInv
<1>2. Life' /\ Freed'
  BY DEF IInv, Life, Begun, Freed
<1>3. Pulling' /\ Paired'
  BY StillPaired, StillPulling DEF IInv, stillVars, Begun
<1> QED BY <1>1, <1>2, <1>3 DEF IInv

LEMMA ResumeInv == ASSUME IInv, Resume PROVE IInv'
<1> USE DEF Resume, kindVars, sourceVars, rowVars, endVars, heldVars
<1>1. TypeInv'
  BY StillTypes DEF IInv, stillVars, Phases, TypeInv
<1>2. Life' /\ Freed'
  BY DEF IInv, Life, Begun, Freed
<1>3. Pulling'
  BY DEF IInv, Pulling, Begun, Newest
<1>4. Paired'
  BY StillPaired DEF IInv, stillVars, Begun
<1> QED BY <1>1, <1>2, <1>3, <1>4 DEF IInv

LEMMA ResumeEndsInv == ASSUME IInv, ResumeEnds PROVE IInv'
<1>1. src' \in [Sources -> {"open", "asked", "ended", "threw"}] /\ Begun /\ rows = <<>>
  BY DEF ResumeEnds, IInv, TypeInv, Life, Begun, Pulling
<1>2. PICK why : Leave(why)
  BY DEF ResumeEnds
<1> QED BY <1>1, <1>2, LeaveInv

LEMMA PullInv ==
  ASSUME IInv, NEW p \in Sources, Pull(p)
  PROVE  IInv'
<1> USE DEF Pull, Running, kindVars, endVars, heldVars
<1>1. src \in [Sources -> SourceStates]
  BY DEF IInv, TypeInv
<1>2. src' \in [Sources -> SourceStates] /\ round' \in SUBSET Sources
  BY <1>1 DEF SourceStates, IInv, TypeInv
<1>3. TypeInv'
  BY <1>2, StillTypes DEF IInv, stillVars, Phases, TypeInv
<1>4. Life' /\ Freed'
  BY <1>1 DEF IInv, Life, Begun, Freed, Pulling
<1>5. Pulling'
  BY <1>1 DEF IInv, Pulling, Begun, Newest
<1>6. Paired'
  BY StillPaired DEF IInv, stillVars, Begun
<1> QED BY <1>3, <1>4, <1>5, <1>6 DEF IInv

LEMMA GiveInv ==
  ASSUME IInv, NEW p \in Sources, NEW t \in Indexes, Give(p, t)
  PROVE  IInv'
<1> USE DEF Give, Awaited, kindVars, endVars, heldVars
<1>1. /\ src \in [Sources -> SourceStates] /\ given \in [Sources -> Seq(Times)] /\ heads \in PerSource
      /\ t \in Times /\ Len(given[p]) \in Nat
  BY EventAssumption DEF IInv, TypeInv, Times
<1>2. /\ src' \in [Sources -> SourceStates] /\ given' \in [Sources -> Seq(Times)] /\ heads' \in PerSource
  BY <1>1 DEF SourceStates, PerSource, EventOf, PEvent
<1>3. TypeInv'
  BY <1>2 DEF IInv, TypeInv, Phases
<1>4. Life' /\ Freed'
  BY <1>1 DEF IInv, Life, Begun, Freed
<1>5. given'[p] = Append(given[p], t) /\ Len(given'[p]) = Len(given[p]) + 1 /\ given'[p][Len(given[p]) + 1] = t
  BY <1>1
<1>6. \A q \in Sources : q # p => given'[q] = given[q] /\ heads'[q] = heads[q] /\ src'[q] = src[q]
  BY <1>1
<1>7. heads[p] = {} /\ p \notin round /\ rows = <<>>
  BY <1>1 DEF IInv, Pulling, Begun
<1>8. heads'[p] = {Newest(p)'} /\ heads'[p] # {} /\ given'[p] # <<>> /\ src'[p] = "open"
  <2>1. heads'[p] = {EventOf(p, t)} /\ src'[p] = "open"
    BY <1>1 DEF PerSource
  <2>2. Newest(p)' = EventOf(p, t)
    BY <1>5, <1>1 DEF Newest, EventOf
  <2>3. given'[p] # <<>>
    BY <1>1, <1>5
  <2> QED BY <2>1, <2>2, <2>3
<1>9. Pulling'
  BY <1>6, <1>7, <1>8 DEF IInv, Pulling, Begun, Newest
<1>10. Paired'
  <2>1. ASSUME form \in {"zip", "feed"}, NEW q \in Sources
        PROVE  /\ Len(given'[q]) = Len(out') + Len(rows') + (IF heads'[q] = {} THEN 0 ELSE 1)
               /\ Len(given'[q]) <= Len(out') + 1
    <3>1. Len(given[q]) = Len(out) + Len(rows) + (IF heads[q] = {} THEN 0 ELSE 1) /\ Len(given[q]) <= Len(out) + 1
      BY <2>1 DEF IInv, Paired, Begun
    <3>2. Len(rows) = 0 /\ Len(out) \in Nat /\ UNCHANGED <<rows, out>>
      BY <1>7 DEF IInv, TypeInv
    <3>3. CASE q = p
      BY <1>1, <1>5, <1>7, <1>8, <3>1, <3>2, <3>3
    <3>4. CASE q # p
      BY <1>6, <3>1, <3>2, <3>4
    <3> QED BY <3>3, <3>4
  <2> QED BY <1>7, <2>1 DEF IInv, Paired
<1> QED BY <1>3, <1>4, <1>9, <1>10 DEF IInv

\* A source's answer that ends the stream.
LEMMA AnswerEndsInv ==
  ASSUME IInv, NEW p \in Sources, Awaited(p), NEW s \in {"open", "ended", "threw"},
         src' = [src EXCEPT ![p] = s], NEW why, Leave(why)
  PROVE  IInv'
<1>1. src' \in [Sources -> {"open", "asked", "ended", "threw"}] /\ Begun /\ rows = <<>>
  BY DEF Awaited, IInv, TypeInv, Life, Begun, Pulling
<1> QED BY <1>1, LeaveInv

LEMMA EndSourceInv ==
  ASSUME IInv, NEW p \in Sources, EndSource(p)
  PROVE  IInv'
<1>1. CASE form = "feed"
  BY <1>1, AnswerEndsInv DEF EndSource
<1>2. CASE form # "feed"
  <2> USE <1>2 DEF EndSource, Awaited, kindVars, rowVars, endVars, heldVars
  <2>1. src \in [Sources -> SourceStates] /\ src' \in [Sources -> SourceStates]
    BY DEF IInv, TypeInv, SourceStates
  <2>2. TypeInv'
    BY <2>1, StillTypes DEF IInv, stillVars, Phases, TypeInv
  <2>3. Life' /\ Freed'
    BY <2>1 DEF IInv, Life, Begun, Freed
  <2>4. Pulling'
    BY <2>1 DEF IInv, Pulling, Begun, Newest
  <2>5. Paired'
    BY StillPaired DEF IInv, stillVars, Begun
  <2> QED BY <2>2, <2>3, <2>4, <2>5 DEF IInv
<1> QED BY <1>1, <1>2

\* The generator ends in a step of its own.
LEMMA GeneratorEndsInv ==
  ASSUME IInv, Running, UNCHANGED src, NEW why, Leave(why)
  PROVE  IInv'
<1>1. src' \in [Sources -> {"open", "asked", "ended", "threw"}] /\ Begun /\ rows = <<>>
  BY DEF Running, IInv, TypeInv, Life, Begun, Pulling
<1> QED BY <1>1, LeaveInv

LEMMA MakeJoinerInv == ASSUME IInv, MakeJoiner PROVE IInv'
<1> USE DEF MakeJoiner, Ready, Running, kindVars, sourceVars, rowVars, endVars
<1>1. TypeInv'
  BY StillTypes DEF IInv, stillVars, TypeInv
<1>2. Life' /\ Freed'
  BY DEF IInv, Life, Begun, Freed
<1>3. Pulling'
  BY DEF IInv, Pulling, Begun, Newest
<1>4. Paired'
  BY StillPaired DEF IInv, stillVars, Begun
<1> QED BY <1>1, <1>2, <1>3, <1>4 DEF IInv

\* What a head that is used next is.
LEMMA TopFacts ==
  ASSUME IInv, Ready, NEW e \in Heads
  PROVE  /\ e.port \in Sources /\ e \in PEvent
         /\ heads[e.port] = {e} /\ e = Newest(e.port) /\ src[e.port] = "open"
<1>1. PICK p \in Sources : e \in heads[p]
  BY DEF Heads
<1>2. heads[p] = {Newest(p)} /\ src[p] = "open" /\ e \in PEvent
  BY <1>1 DEF IInv, Pulling, Ready, Running, Begun, TypeInv, PerSource
<1>3. e = Newest(p) /\ e.port = p
  BY <1>1, <1>2 DEF Newest
<1> QED BY <1>1, <1>2, <1>3

\* A step that uses one head, and owes its source a next().
LEMMA UseHeadInv ==
  ASSUME IInv, Ready, NEW e \in Heads, form \notin {"zip", "feed"},
         heads' = [heads EXCEPT ![e.port] = {}], round' = Owed(e),
         rows' \in Seq(PEvent \cup HeldRow \cup PerSource), Len(rows') <= 1,
         latest' \in PerSource, due' \in SUBSET HeldRow, \A c, d \in due' : c = d,
         UNCHANGED <<kindVars, sourceVars, out, at, endVars, consumerVars, heldVars>>
  PROVE  IInv'
<1> USE DEF Ready, Running, kindVars, sourceVars, endVars, heldVars
<1>1. e.port \in Sources /\ heads[e.port] = {e} /\ src[e.port] = "open"
  BY TopFacts
<1>2. heads \in PerSource /\ heads' \in PerSource /\ round' = {e.port} /\ round' \in SUBSET Sources
  BY <1>1 DEF IInv, TypeInv, PerSource, Owed
<1>3. TypeInv'
  BY <1>2 DEF IInv, TypeInv
<1>4. Life' /\ Freed'
  BY DEF IInv, Life, Begun, Freed
<1>5. Pulling'
  BY <1>1, <1>2 DEF IInv, Pulling, Begun, Newest, PerSource
<1>6. Paired'
  BY DEF Paired
<1> QED BY <1>3, <1>4, <1>5, <1>6 DEF IInv

LEMMA MergeRowInv == ASSUME IInv, MergeRow PROVE IInv'
<1>1. PICK e \in Heads : /\ rows' = <<e>> /\ heads' = [heads EXCEPT ![e.port] = {}] /\ round' = Owed(e)
  BY DEF MergeRow, IsTop
<1>2. e \in PEvent
  BY TopFacts DEF MergeRow
<1>3. rows' \in Seq(PEvent \cup HeldRow \cup PerSource) /\ Len(rows') <= 1
  BY <1>1, <1>2
<1>4. latest' \in PerSource /\ due' \in SUBSET HeldRow /\ \A c, d \in due' : c = d
  BY DEF MergeRow, IInv, TypeInv, Pulling
<1> QED BY <1>1, <1>3, <1>4, UseHeadInv DEF MergeRow

\* SetToSeq of the row held back, if there is one.
LEMMA SeqOfNone == SetToSeq({}) = <<>>
<1>1. Cardinality({}) = 0
  BY FS_EmptySet
<1>2. <<>> \in [1 .. 0 -> {}] /\ IsInjective(<<>>)
  BY DEF IsInjective
<1>3. \A f \in [1 .. 0 -> {}] : f = <<>>
  OBVIOUS
<1> QED BY <1>1, <1>2, <1>3 DEF SetToSeq

LEMMA SeqOfOne == ASSUME NEW r PROVE SetToSeq({r}) = <<r>>
<1>1. Cardinality({r}) = 1
  BY FS_Singleton
<1>2. <<r>> \in [1 .. 1 -> {r}] /\ IsInjective(<<r>>)
  BY DEF IsInjective
<1>3. \A f \in [1 .. 1 -> {r}] : f = <<r>>
  OBVIOUS
<1> QED BY <1>1, <1>2, <1>3 DEF SetToSeq

LEMMA SeqOfRow ==
  ASSUME NEW S, NEW T, S \subseteq T, \A c, d \in S : c = d
  PROVE  /\ SetToSeq(S) \in Seq(T) /\ Len(SetToSeq(S)) <= 1
         /\ S = {} => SetToSeq(S) = <<>>
         /\ \A r \in S : SetToSeq(S) = <<r>>
<1>1. CASE S = {}
  <2>1. SetToSeq(S) = <<>>
    BY <1>1, SeqOfNone, Zenon
  <2>2. <<>> \in Seq(T) /\ Len(<<>>) <= 1
    OBVIOUS
  <2> QED BY <1>1, <2>1, <2>2, Zenon
<1>2. CASE S # {}
  <2>1. PICK r \in S : S = {r}
    BY <1>2
  <2>2. SetToSeq(S) = <<r>>
    BY <2>1, SeqOfOne, Zenon
  <2>3. <<r>> \in Seq(T) /\ Len(<<r>>) <= 1
    OBVIOUS
  <2> QED BY <1>2, <2>2, <2>3, Zenon
<1> QED BY <1>1, <1>2

LEMMA JoinRowInv == ASSUME IInv, JoinRow PROVE IInv'
<1>1. PICK e \in Heads :
        /\ IsTop(e)
        /\ heads' = [heads EXCEPT ![e.port] = {}]
        /\ latest' = [latest EXCEPT ![e.port] = {e}]
        /\ round' = Owed(e)
        /\ IF WhenAll /\ \E p \in Sources : latest'[p] = {}
           THEN UNCHANGED <<rows, due>>
           ELSE /\ rows' = SetToSeq(Settled(e))
                /\ due' = {[index |-> e.index, latest |-> latest']}
  BY DEF JoinRow, IsTop
<1>2. e \in PEvent /\ e.port \in Sources
  BY TopFacts DEF JoinRow
<1>3. latest' \in PerSource
  BY <1>1, <1>2 DEF IInv, TypeInv, PerSource
<1>4. Settled(e) \subseteq HeldRow /\ \A c, d \in Settled(e) : c = d
  BY DEF Settled, IInv, TypeInv, Pulling
<1>5. /\ rows' \in Seq(PEvent \cup HeldRow \cup PerSource) /\ Len(rows') <= 1
      /\ due' \in SUBSET HeldRow /\ \A c, d \in due' : c = d
  <2>1. CASE UNCHANGED <<rows, due>>
    BY <2>1 DEF IInv, TypeInv, Pulling
  <2>2. CASE rows' = SetToSeq(Settled(e)) /\ due' = {[index |-> e.index, latest |-> latest']}
    <3>1. SetToSeq(Settled(e)) \in Seq(PEvent \cup HeldRow \cup PerSource) /\ Len(SetToSeq(Settled(e))) <= 1
      BY <1>4, SeqOfRow
    <3>2. [index |-> e.index, latest |-> latest'] \in HeldRow
      BY <1>2, <1>3 DEF HeldRow, PEvent
    <3> QED BY <2>2, <3>1, <3>2
  <2> QED BY <1>1, <2>1, <2>2
<1> QED BY <1>1, <1>3, <1>5, UseHeadInv DEF JoinRow

LEMMA JoinLastInv == ASSUME IInv, JoinLast PROVE IInv'
<1> USE DEF JoinLast, Ready, Running, kindVars, sourceVars, endVars, heldVars
<1>1. rows' \in Seq(PEvent \cup HeldRow \cup PerSource) /\ Len(rows') <= 1
  BY SeqOfRow DEF IInv, TypeInv, Pulling
<1>2. TypeInv'
  BY <1>1 DEF IInv, TypeInv
<1>3. Life' /\ Freed'
  BY DEF IInv, Life, Begun, Freed
<1>4. Pulling'
  BY <1>1 DEF IInv, Pulling, Begun, Newest
<1>5. Paired'
  BY DEF Paired
<1> QED BY <1>2, <1>3, <1>4, <1>5 DEF IInv

LEMMA ZipRowInv == ASSUME IInv, ZipRow PROVE IInv'
<1> USE DEF ZipRow, Ready, Running, InStep, kindVars, sourceVars, endVars, heldVars
<1>1. /\ heads \in PerSource /\ heads' \in PerSource
      /\ \A p \in Sources : heads'[p] = {}
  BY DEF IInv, TypeInv, PerSource
<1>2. rows' = <<heads>> /\ rows' \in Seq(PEvent \cup HeldRow \cup PerSource) /\ Len(rows') = 1 /\ rows'[1] = heads
  BY <1>1
<1>3. TypeInv'
  BY <1>1, <1>2 DEF IInv, TypeInv
<1>4. Life' /\ Freed'
  BY DEF IInv, Life, Begun, Freed
<1>5. \A p \in Sources : src[p] \in {"open", "ended"}
  BY DEF IInv, Life, Begun
<1>6. Pulling'
  BY <1>1, <1>2, <1>5 DEF IInv, Pulling, Begun, Ended
<1>7. Len(out) \in Nat /\ Len(rows) = 0 /\ \A p \in Sources : Len(given[p]) \in Nat
  BY DEF IInv, TypeInv
<1>8. \A p \in Sources : Len(given[p]) = Len(out) + 1 /\ heads[p] = {Newest(p)}
  BY <1>7 DEF IInv, Paired, Pulling, Begun
<1>9. ASSUME NEW p \in Sources PROVE {e.nth : e \in heads[p]} = {Len(out)}
  BY <1>7, <1>8 DEF Newest
<1>10. Paired'
  <2>1. ASSUME NEW p \in Sources
        PROVE  /\ Len(given[p]) = Len(out) + Len(rows') + (IF heads'[p] = {} THEN 0 ELSE 1)
               /\ {e.nth : e \in rows'[1][p]} = {Len(out)}
    BY <1>1, <1>2, <1>7, <1>8, <1>9
  <2>2. \A k \in 1 .. Len(out) : \A p \in Sources : {e.nth : e \in out[k][p]} = {k - 1}
    BY DEF IInv, Paired
  <2>3. \A p \in Sources : Len(given[p]) <= Len(out) + 1
    BY <1>7, <1>8
  <2> QED BY <2>1, <2>2, <2>3 DEF Paired
<1> QED BY <1>3, <1>4, <1>6, <1>10 DEF IInv

LEMMA OneRow ==
  ASSUME NEW T, NEW s \in Seq(T), s # <<>>, Len(s) <= 1
  PROVE  Len(s) = 1 /\ s[1] \in T /\ Head(s) = s[1] /\ Tail(s) = <<>>
<1>1. Len(s) = 1
  BY EmptySeq, LenProperties
<1>2. s[1] \in T /\ Head(s) = s[1]
  BY <1>1
<1>3. Tail(s) \in Seq(T) /\ Len(Tail(s)) = 0
  BY <1>1, HeadTailProperties
<1> QED BY <1>1, <1>2, <1>3, EmptySeq

LEMMA YieldInv == ASSUME IInv, Yield PROVE IInv'
<1> USE DEF Yield, kindVars, sourceVars, endVars, heldVars
<1>1. /\ rows \in Seq(PEvent \cup HeldRow \cup PerSource) /\ Len(rows) = 1 /\ rows' = <<>>
      /\ out \in Seq(PEvent \cup HeldRow \cup PerSource) /\ Head(rows) = rows[1]
      /\ rows[1] \in PEvent \cup HeldRow \cup PerSource
  <2> DEFINE T == PEvent \cup HeldRow \cup PerSource
  <2>1. rows \in Seq(T) /\ out \in Seq(T) /\ rows # <<>> /\ Len(rows) <= 1
    BY DEF IInv, TypeInv, Pulling
  <2> HIDE DEF T
  <2>2. Len(rows) = 1 /\ rows[1] \in T /\ Head(rows) = rows[1] /\ Tail(rows) = <<>>
    BY ONLY <2>1, OneRow
  <2> QED BY <2>1, <2>2 DEF T
<1>2. /\ out' \in Seq(PEvent \cup HeldRow \cup PerSource) /\ Len(out') = Len(out) + 1 /\ Len(out) \in Nat
      /\ out'[Len(out) + 1] = rows[1] /\ \A k \in 1 .. Len(out) : out'[k] = out[k]
  BY <1>1
<1>3. TypeInv'
  BY <1>1, <1>2 DEF IInv, TypeInv, Phases
<1>4. Life' /\ Freed'
  BY DEF IInv, Life, Begun, Freed
<1>5. Pulling'
  BY <1>1 DEF IInv, Pulling, Begun, Newest
<1>6. Paired'
  <2>1. ASSUME form \in {"zip", "feed"}
        PROVE  \A k \in 1 .. Len(out') : \A p \in Sources : {e.nth : e \in out'[k][p]} = {k - 1}
    <3>1. \A p \in Sources : {e.nth : e \in rows[1][p]} = {Len(out)}
      BY <1>1, <2>1 DEF IInv, Paired
    <3>2. ASSUME NEW k \in 1 .. Len(out'), NEW p \in Sources
          PROVE  {e.nth : e \in out'[k][p]} = {k - 1}
      <4>1. CASE k = Len(out) + 1
        BY <1>2, <3>1, <4>1
      <4>2. CASE k \in 1 .. Len(out)
        BY <1>2, <2>1, <4>2 DEF IInv, Paired
      <4>3. k = Len(out) + 1 \/ k \in 1 .. Len(out)
        BY <1>2
      <4> QED BY <4>1, <4>2, <4>3
    <3> QED BY <3>2
  <2>2. ASSUME form \in {"zip", "feed"}, NEW p \in Sources
        PROVE  /\ Len(given[p]) <= Len(out') + 1
               /\ Len(given[p]) = Len(out') + 0 + (IF heads[p] = {} THEN 0 ELSE 1)
    BY <1>1, <1>2, <2>2 DEF IInv, Paired, Begun
  <2> QED BY <1>1, <2>1, <2>2 DEF Paired
<1> QED BY <1>3, <1>4, <1>5, <1>6 DEF IInv

LEMMA NextInv == IInv /\ [Next]_vars => IInv'
<1> SUFFICES ASSUME IInv, [Next]_vars PROVE IInv'
  OBVIOUS
<1>1. CASE Consumer
  <2>1. CASE Drop \/ \E r \in {"next", "return", "throw"} : Request(r)
    BY <2>1, SameInv DEF Drop, Request, engineVars, endVars
  <2>2. CASE Collect
    BY <2>2, CollectInv
  <2> QED BY <1>1, <2>1, <2>2 DEF Consumer
<1>2. CASE Generator
  <2>1. CASE Begin \/ BeginFails \/ BeginEnds \/ Resume \/ ResumeEnds \/ AfterEnd
    BY <2>1, BeginInv, BeginFailsInv, BeginEndsInv, ResumeInv, ResumeEndsInv, AfterEndInv
  <2>2. CASE \E p \in Sources : Pull(p) \/ CloseSource(p)
    BY <2>2, PullInv, CloseSourceInv
  <2>3. CASE RowFails \/ ZipOutOfStep \/ NoMore
    BY <2>3, GeneratorEndsInv DEF RowFails, ZipOutOfStep, NoMore, Ready
  <2>4. CASE MakeJoiner \/ MergeRow \/ JoinRow \/ JoinLast \/ ZipRow \/ Yield \/ Left
    BY <2>4, MakeJoinerInv, MergeRowInv, JoinRowInv, JoinLastInv, ZipRowInv, YieldInv, LeftInv
  <2> QED BY <1>2, <2>1, <2>2, <2>3, <2>4 DEF Generator
<1>3. ASSUME NEW p \in Sources, Answer(p) PROVE IInv'
  <2>1. CASE \E t \in Indexes : Give(p, t)
    BY <2>1, GiveInv
  <2>2. CASE GiveWrong(p) \/ Throw(p)
    BY <2>2, AnswerEndsInv DEF GiveWrong, Throw
  <2>3. CASE EndSource(p)
    BY <2>3, EndSourceInv
  <2>4. CASE \E ok \in BOOLEAN : Returned(p, ok)
    BY <2>4, ReturnedInv
  <2> QED BY <1>3, <2>1, <2>2, <2>3, <2>4 DEF Answer
<1>4. CASE UNCHANGED vars
  BY <1>4, SameInv DEF vars, engineVars, endVars
<1> QED BY <1>1, <1>2, <1>3, <1>4 DEF Next

LEMMA Inductive == Spec => []IInv
BY InitInv, NextInv, PTL DEF Spec

-----------------------------------------------------------------------------
(* Theorems.                                                               *)

\* Positional sources are read in step: the k-th row holds the k-th event of
\* each, and none is read more than one event ahead of the rows, whatever
\* answers when and however the stream ends.
THEOREM ReadInStep == Spec => []RowsPaired
<1>1. IInv => RowsPaired
  BY DEF IInv, Paired, RowsPaired
<1> QED BY <1>1, Inductive, PTL

\* However a stream ends, by its end, an error, the consumer or the garbage
\* collector, its object in WASM is freed once and every source that did not
\* end is closed once.
THEOREM EndsClean == Spec => []LeavesNothing
<1>1. IInv => LeavesNothing
  BY DEF IInv, Life, Freed, TypeInv, LeavesNothing
<1> QED BY <1>1, Inductive, PTL

-----------------------------------------------------------------------------
(* The events a source gave.                                               *)

\* The i-th event of a source, and how many were used.
Ev(p, i) == [index |-> given[p][i], port |-> p, nth |-> i - 1]
UsedCount(p) == IF heads[p] = {} THEN Len(given[p]) ELSE Len(given[p]) - 1
Used == Given \ Heads
Rng(s) == {s[i] : i \in 1 .. Len(s)}

\* What has gone out of a merge, and the row under way.
Merging ==
  form = "merge" /\ Begun =>
    /\ Rng(out) = Given \ (Heads \cup Rng(rows))
    /\ rows # <<>> =>
         /\ rows[1] \in Given /\ rows[1] \notin Heads /\ round = {rows[1].port}
         /\ rows[1].port \in Sources /\ rows[1] = Newest(rows[1].port)
         /\ \A d \in Heads : Before(rows[1], d)

\* The last of the events of a source at or below an index.
LastAt(p, t) ==
  {e \in Given : /\ e.port = p /\ e.index <= t
                 /\ \A d \in Given : d.port = p /\ d.index <= t => d.nth <= e.nth}
IsShown(t) ==
  /\ \E u \in Used : u.index = t
  /\ WhenAll => \A p \in Sources : \E u \in Used : u.port = p /\ u.index <= t

\* What a join makes are rows.
RowTypes == Rng(out) \cup Rng(rows) \subseteq HeldRow

\* The latest of a source is its last event that was used.
LatestUsed == \A p \in Sources : latest[p] = IF UsedCount(p) = 0 THEN {} ELSE {Ev(p, UsedCount(p))}

\* A source that goes on gives nothing below an event that was used.
UsedBelow ==
  \A p \in Sources : src[p] # "ended" =>
    \A u \in Used : given[p] # <<>> /\ u.index <= given[p][Len(given[p])]

\* The row held back is that of the last index used.
DueRight ==
  \A d \in due :
    /\ d.latest = latest /\ \E u \in Used : u.index = d.index
    /\ \A u \in Used : u.index <= d.index
    /\ WhenAll => \A p \in Sources : latest[p] # {}

\* The rows that are out, the one under way and the one held back are those of
\* the indexes used, in their order.
RowsShown ==
  \A t \in Times : IsShown(t) <=>
    \/ \E i \in 1 .. Len(out) : out[i].index = t
    \/ \E r \in Rng(rows) \cup due : r.index = t
RowsInOrder ==
  /\ \A i \in 1 .. Len(out) : \A r \in Rng(rows) \cup due : out[i].index < r.index
  /\ \A r \in Rng(rows), d \in due : r.index < d.index

\* The row under way holds every source's last event, and is final.
RowRight ==
  \A r \in Rng(rows) : \A p \in Sources :
    /\ r.latest[p] = LastAt(p, r.index)
    /\ WhenAll => r.latest[p] # {}
    /\ src[p] # "ended" => r.index < given[p][Len(given[p])]

\* Once a row is held there is always one, until the sources have ended.
NoneDue == due = {} => (out = <<>> /\ rows = <<>>) \/ (Ended = Sources /\ Heads = {})

JoinParts ==
  RowTypes /\ LatestUsed /\ UsedBelow /\ DueRight /\ RowsShown /\ RowsInOrder /\ RowRight /\ NoneDue

\* What a join holds, the row under way, and the rows that are out.
Joining == form = "join" /\ Begun => JoinParts

\* What a step does to the rows and to what was given.
LEMMA DataSteps ==
  ASSUME IInv, [Next]_vars
  PROVE  /\ form' = form
         /\ \/ ~Begun'
            \/ Begin
            \/ Begun /\ UNCHANGED stillVars /\ UNCHANGED round
            \/ \E p \in Sources : Pull(p)
            \/ \E p \in Sources, t \in Indexes : Give(p, t)
            \/ MergeRow
            \/ JoinRow
            \/ JoinLast
            \/ ZipRow
            \/ Yield
<1> USE DEF kindVars
<1>1. CASE Consumer
  BY <1>1 DEF Consumer, Drop, Collect, Request, Begun, stillVars, sourceVars, rowVars
<1>2. CASE Generator
  <2>1. CASE BeginFails \/ BeginEnds \/ Resume \/ ResumeEnds \/ AfterEnd
    BY <2>1 DEF BeginFails, BeginEnds, Resume, ResumeEnds, AfterEnd, Leave, Begun, stillVars, sourceVars, rowVars
  <2>2. CASE \E p \in Sources : CloseSource(p)
    BY <2>2 DEF CloseSource, Begun
  <2>3. CASE RowFails \/ ZipOutOfStep \/ NoMore \/ Left
    BY <2>3 DEF RowFails, ZipOutOfStep, NoMore, Leave, Left, Begun
  <2>4. CASE MakeJoiner
    BY <2>4 DEF MakeJoiner, Ready, Running, Begun, stillVars, sourceVars, rowVars
  <2>5. CASE Begin \/ \E p \in Sources : Pull(p)
    BY <2>5 DEF Begin, Pull
  <2>6. CASE MergeRow \/ JoinRow \/ JoinLast \/ ZipRow \/ Yield
    BY <2>6 DEF MergeRow, JoinRow, JoinLast, ZipRow, Yield
  <2> QED BY <1>2, <2>1, <2>2, <2>3, <2>4, <2>5, <2>6 DEF Generator
<1>3. ASSUME NEW p \in Sources, Answer(p)
      PROVE  /\ form' = form
             /\ \/ ~Begun'
                \/ Begun /\ UNCHANGED stillVars /\ UNCHANGED round
                \/ \E t \in Indexes : Give(p, t)
  BY <1>3 DEF Answer, Give, GiveWrong, EndSource, Throw, Returned, Leave, Awaited, Begun, stillVars, rowVars
<1>4. CASE UNCHANGED vars
  BY <1>4 DEF vars, Begun, stillVars, sourceVars, rowVars
<1> QED BY <1>1, <1>2, <1>3, <1>4 DEF Next

\* What a step says of the events: it gives one, ends a source, puts a row out,
\* or none of these.
LEMMA StreamSteps ==
  ASSUME IInv, [Next]_vars
  PROVE  \/ UNCHANGED <<given, out>> /\ Ended' = Ended
         \/ \E p \in Sources, t \in Indexes : Give(p, t)
         \/ \E p \in Sources : EndSource(p)
         \/ Yield
<1> USE DEF kindVars, sourceVars, rowVars
<1>1. src \in [Sources -> SourceStates]
  BY DEF IInv, TypeInv
<1>2. CASE Consumer
  BY <1>2 DEF Consumer, Drop, Collect, Request, Ended
<1>3. CASE Generator
  <2>1. CASE Begin \/ BeginFails
    BY <2>1 DEF Begin, BeginFails, Ended, IInv, Life
  <2>2. CASE BeginEnds \/ Resume \/ ResumeEnds \/ AfterEnd \/ Left
    BY <2>2 DEF BeginEnds, Resume, ResumeEnds, AfterEnd, Left, Leave, Ended
  <2>3. ASSUME NEW p \in Sources, CloseSource(p) PROVE UNCHANGED <<given, out>> /\ Ended' = Ended
    BY <1>1, <2>3 DEF CloseSource, Ended, IInv, Life
  <2>4. ASSUME NEW p \in Sources, Pull(p) PROVE UNCHANGED <<given, out>> /\ Ended' = Ended
    BY <1>1, <2>4 DEF Pull, Ended, IInv, Pulling, Begun, Running
  <2>5. CASE RowFails \/ ZipOutOfStep \/ NoMore
    BY <2>5 DEF RowFails, ZipOutOfStep, NoMore, Leave, Ended
  <2>6. CASE MakeJoiner \/ MergeRow \/ JoinRow \/ JoinLast \/ ZipRow
    BY <2>6 DEF MakeJoiner, MergeRow, JoinRow, JoinLast, ZipRow, Ended
  <2> QED BY <1>3, <2>1, <2>2, <2>3, <2>4, <2>5, <2>6 DEF Generator
<1>4. ASSUME NEW p \in Sources, Answer(p)
      PROVE  \/ UNCHANGED <<given, out>> /\ Ended' = Ended
             \/ \E t \in Indexes : Give(p, t)
             \/ EndSource(p)
  <2>1. CASE GiveWrong(p) \/ Throw(p)
    BY <1>1, <2>1 DEF GiveWrong, Throw, Awaited, Leave, Ended
  <2>2. CASE \E ok \in BOOLEAN : Returned(p, ok)
    BY <1>1, <2>2 DEF Returned, Ended
  <2> QED BY <1>4, <2>1, <2>2 DEF Answer
<1>5. CASE UNCHANGED vars
  BY <1>5 DEF vars, Ended
<1> QED BY <1>2, <1>3, <1>4, <1>5 DEF Next

LEMMA GivenMember == \A e : e \in Given <=> \E p \in Sources : \E i \in 1 .. Len(given[p]) : e = Ev(p, i)
BY DEF Given, Ev

LEMMA GivenCount ==
  ASSUME TypeInv, NEW p \in Sources
  PROVE  /\ IsFiniteSet({e \in Given : e.port = p})
         /\ Cardinality({e \in Given : e.port = p}) = Len(given[p])
<1> DEFINE S == {e \in Given : e.port = p}
           n == Len(given[p])
           f == [i \in 1 .. n |-> Ev(p, i)]
<1>1. n \in Nat
  BY DEF TypeInv
<1>2. \A q \in Sources : \A i \in 1 .. Len(given[q]) : Ev(q, i).port = q
  BY DEF Ev
<1>3. \A i \in 1 .. n : Ev(p, i) \in S
  BY <1>2, GivenMember
<1>4. \A e \in S : \E i \in 1 .. n : e = Ev(p, i)
  BY <1>2, GivenMember
<1>5. \A i, j \in 1 .. n : Ev(p, i) = Ev(p, j) => i = j
  BY DEF Ev
<1> HIDE DEF S, n
<1>6. f \in Bijection(1 .. n, S)
  <2>1. f \in [1 .. n -> S]
    BY <1>3
  <2>2. f \in Injection(1 .. n, S)
    BY <2>1, <1>5 DEF Injection, IsInjective
  <2>3. f \in Surjection(1 .. n, S)
    BY <2>1, <1>4 DEF Surjection
  <2> QED BY <2>2, <2>3 DEF Bijection
<1>7. IsFiniteSet(1 .. n) /\ Cardinality(1 .. n) = n
  BY <1>1, FS_Interval
<1>8. IsFiniteSet(S) /\ Cardinality(S) = Cardinality(1 .. n)
  BY <1>6, <1>7, FS_Bijection DEF ExistsBijection
<1> QED BY <1>7, <1>8 DEF S, n

LEMMA NewGiven ==
  ASSUME TypeInv, NEW p \in Sources, NEW t \in Indexes, Give(p, t)
  PROVE  /\ Given' = Given \cup {EventOf(p, t)}
         /\ EventOf(p, t) \notin Given
         /\ \A q \in Sources : q # p => given'[q] = given[q] /\ heads'[q] = heads[q]
         /\ given'[p] = Append(given[p], t)
         /\ Len(given[p]) \in Nat /\ Len(given'[p]) = Len(given[p]) + 1 /\ given'[p][Len(given[p]) + 1] = t
         /\ \A i \in 1 .. Len(given[p]) : given'[p][i] = given[p][i]
         /\ heads'[p] = {EventOf(p, t)}
<1>1. /\ given \in [Sources -> Seq(Times)] /\ heads \in PerSource /\ t \in Times /\ Len(given[p]) \in Nat
  BY EventAssumption DEF TypeInv, Times
<1>2. given'[p] = Append(given[p], t) /\ heads'[p] = {EventOf(p, t)}
  BY <1>1 DEF Give, PerSource
<1>3. /\ Len(given'[p]) = Len(given[p]) + 1 /\ given'[p][Len(given[p]) + 1] = t
      /\ \A i \in 1 .. Len(given[p]) : given'[p][i] = given[p][i]
  BY <1>1, <1>2
<1>4. \A q \in Sources : q # p => given'[q] = given[q] /\ heads'[q] = heads[q]
  BY <1>1 DEF Give, PerSource
<1>5. \A i : i = Len(given[p]) + 1 => Ev(p, i)' = EventOf(p, t)
  BY <1>1, <1>3 DEF Ev, EventOf
<1>6. \A q \in Sources : \A i \in 1 .. Len(given[q]) : Ev(q, i)' = Ev(q, i)
  BY <1>3, <1>4 DEF Ev
<1>7. EventOf(p, t) \notin Given
  BY <1>1, GivenMember DEF EventOf, Ev
<1>8. ASSUME NEW e PROVE e \in Given' <=> e \in Given \cup {EventOf(p, t)}
  <2>1. e \in Given' <=> \E q \in Sources : \E i \in 1 .. Len(given'[q]) : e = Ev(q, i)'
    BY DEF Given, Ev
  <2>2. ASSUME NEW q \in Sources, NEW i \in 1 .. Len(given'[q]), e = Ev(q, i)'
        PROVE  e \in Given \cup {EventOf(p, t)}
    <3>1. CASE q = p /\ i = Len(given[p]) + 1
      BY <1>5, <2>2, <3>1
    <3>2. CASE ~(q = p /\ i = Len(given[p]) + 1)
      <4>1. i \in 1 .. Len(given[q])
        BY <1>1, <1>3, <1>4, <3>2
      <4> QED BY <1>6, <2>2, <4>1, GivenMember
    <3> QED BY <3>1, <3>2
  <2>3. ASSUME e \in Given PROVE e \in Given'
    <3>1. PICK q \in Sources : \E i \in 1 .. Len(given[q]) : e = Ev(q, i)
      BY <2>3, GivenMember
    <3>2. PICK i \in 1 .. Len(given[q]) : e = Ev(q, i)
      BY <3>1
    <3>3. i \in 1 .. Len(given'[q])
      BY <1>1, <1>3, <1>4
    <3> QED BY <1>6, <2>1, <3>2, <3>3
  <2>4. ASSUME e = EventOf(p, t) PROVE e \in Given'
    <3>1. Len(given[p]) + 1 \in 1 .. Len(given'[p])
      BY <1>1, <1>3
    <3> QED BY <1>5, <2>1, <2>4, <3>1
  <2> QED BY <2>1, <2>2, <2>3, <2>4
<1> QED BY <1>1, <1>2, <1>3, <1>4, <1>7, <1>8

LEMMA RngFacts ==
  /\ Rng(<<>>) = {}
  /\ \A e : Rng(<<e>>) = {e}
  /\ \A T : \A s \in Seq(T), e \in T : Rng(Append(s, e)) = Rng(s) \cup {e}
<1>1. Rng(<<>>) = {} /\ \A e : Rng(<<e>>) = {e}
  BY DEF Rng
<1>2. ASSUME NEW T, NEW s \in Seq(T), NEW e \in T
      PROVE  Rng(Append(s, e)) = Rng(s) \cup {e}
  <2>1. /\ Len(s) \in Nat /\ Len(Append(s, e)) = Len(s) + 1 /\ Append(s, e)[Len(s) + 1] = e
        /\ \A i \in 1 .. Len(s) : Append(s, e)[i] = s[i]
    OBVIOUS
  <2>2. \A i \in 1 .. Len(s) + 1 : i \in 1 .. Len(s) \/ i = Len(s) + 1
    BY <2>1
  <2>3. 1 .. Len(s) \subseteq 1 .. Len(s) + 1 /\ Len(s) + 1 \in 1 .. Len(s) + 1
    BY <2>1
  <2> QED BY <2>1, <2>2, <2>3 DEF Rng
<1> QED BY <1>1, <1>2

\* An event that is held is the newest of its source.
LEMMA HeadsNewest ==
  ASSUME IInv, Begun
  PROVE  /\ \A e : e \in Heads <=> \E p \in Sources : heads[p] # {} /\ e = Newest(p)
         /\ \A p \in Sources : heads[p] # {} =>
              Newest(p) \in Given /\ Newest(p) = Ev(p, Len(given[p])) /\ heads[p] = {Newest(p)}
         /\ \A p \in Sources : Newest(p).port = p
<1>1. \A p \in Sources : heads[p] # {} => given[p] # <<>> /\ heads[p] = {Newest(p)}
  BY DEF IInv, Pulling
<1>2. ASSUME NEW p \in Sources, heads[p] # {} PROVE Newest(p) \in Given /\ Newest(p) = Ev(p, Len(given[p]))
  <2>1. given[p] \in Seq(Times) /\ given[p] # <<>>
    BY <1>1, <1>2 DEF IInv, TypeInv
  <2>2. Len(given[p]) \in 1 .. Len(given[p]) /\ Newest(p) = Ev(p, Len(given[p]))
    BY <2>1 DEF Newest, Ev
  <2> QED BY <2>2, GivenMember
<1>3. \A e : e \in Heads <=> \E p \in Sources : e \in heads[p]
  BY DEF Heads
<1>4. \A p \in Sources : Newest(p).port = p
  BY DEF Newest
<1> QED BY <1>1, <1>2, <1>3, <1>4

\* The row of a merge is the first of the events that are held.
LEMMA MergeRowFacts ==
  ASSUME IInv, MergeRow
  PROVE  \E e \in Heads :
           /\ rows' = <<e>> /\ round' = {e.port} /\ e.port \in Sources /\ e = Newest(e.port) /\ e \in Given
           /\ Heads' = Heads \ {e}
           /\ \A d \in Heads \ {e} : Before(e, d)
<1>1. PICK e \in Heads :
        IsTop(e) /\ rows' = <<e>> /\ heads' = [heads EXCEPT ![e.port] = {}] /\ round' = {e.port}
  BY DEF MergeRow, Owed
<1>2. Begun /\ heads \in PerSource
  BY DEF MergeRow, Ready, Running, Begun, IInv, TypeInv
<1>3. PICK p \in Sources : heads[p] # {} /\ e = Newest(p)
  BY <1>1, <1>2, HeadsNewest
<1>4. e.port = p /\ heads[p] = {e} /\ e \in Given
  BY <1>2, <1>3, HeadsNewest
<1>5. \A q \in Sources : q # p => e \notin heads[q]
  BY <1>2, <1>4, HeadsNewest
<1>6. \A q \in Sources : heads'[q] = IF q = p THEN {} ELSE heads[q]
  BY <1>1, <1>2, <1>4 DEF PerSource
<1>7. Heads' = Heads \ {e}
  <2>1. Heads' = UNION {heads'[q] : q \in Sources}
    BY DEF Heads
  <2>2. ASSUME NEW d PROVE d \in Heads' <=> d \in Heads \ {e}
    BY <1>4, <1>5, <1>6, <2>1 DEF Heads
  <2> QED BY <2>2
<1> QED BY <1>1, <1>3, <1>4, <1>7 DEF IsTop

\* Giving an event makes it the one that is held.
LEMMA GiveHeads ==
  ASSUME IInv, NEW p \in Sources, NEW t \in Indexes, Give(p, t)
  PROVE  /\ Heads' = Heads \cup {EventOf(p, t)} /\ EventOf(p, t) \notin Given
         /\ heads[p] = {} /\ rows = <<>> /\ rows' = <<>> /\ Begun
<1>1. heads[p] = {} /\ rows = <<>> /\ rows' = <<>> /\ Begun
  BY DEF Give, Awaited, IInv, Pulling, Begun
<1>2. heads'[p] = {EventOf(p, t)} /\ EventOf(p, t) \notin Given /\ \A q \in Sources : q # p => heads'[q] = heads[q]
  BY NewGiven DEF IInv
<1>3. Heads' = UNION {heads'[q] : q \in Sources}
  BY DEF Heads
<1>4. ASSUME NEW d PROVE d \in Heads' <=> d \in Heads \cup {EventOf(p, t)}
  BY <1>1, <1>2, <1>3 DEF Heads
<1> QED BY <1>1, <1>2, <1>4

\* A row that goes out is the one under way.
LEMMA YieldRow ==
  ASSUME IInv, Yield
  PROVE  /\ Begun /\ rows # <<>> /\ rows' = <<>> /\ Rng(rows) = {rows[1]}
         /\ out' = Append(out, rows[1]) /\ Rng(out') = Rng(out) \cup {rows[1]}
         /\ out \in Seq(PEvent \cup HeldRow \cup PerSource) /\ rows[1] \in PEvent \cup HeldRow \cup PerSource
<1> DEFINE T == PEvent \cup HeldRow \cup PerSource
<1>1. rows \in Seq(T) /\ out \in Seq(T) /\ rows # <<>> /\ Len(rows) <= 1
  BY DEF IInv, TypeInv, Pulling, Yield
<1>2. /\ Begun /\ rows' = Tail(rows) /\ out' = Append(out, Head(rows))
  BY DEF Yield, Begun
<1> HIDE DEF T
<1>3. Len(rows) = 1 /\ rows[1] \in T /\ Head(rows) = rows[1] /\ Tail(rows) = <<>>
  BY ONLY <1>1, OneRow
<1>4. Rng(rows) = {rows[1]}
  BY <1>3 DEF Rng
<1>5. Rng(out') = Rng(out) \cup {rows[1]}
  BY <1>1, <1>2, <1>3, RngFacts
<1> QED BY <1>1, <1>2, <1>3, <1>4, <1>5 DEF T

LEMMA MergingInv ==
  ASSUME IInv, Merging, [Next]_vars
  PROVE  Merging'
<1> SUFFICES ASSUME form = "merge", Begun'
             PROVE  /\ Rng(out)' = (Given \ (Heads \cup Rng(rows)))'
                    /\ (rows # <<>> =>
                         /\ rows[1] \in Given /\ rows[1] \notin Heads /\ round = {rows[1].port}
                         /\ rows[1].port \in Sources /\ rows[1] = Newest(rows[1].port)
                         /\ \A d \in Heads : Before(rows[1], d))'
  BY DataSteps DEF Merging
<1>1. CASE Begin
  <2>1. /\ out = <<>> /\ rows = <<>> /\ \A p \in Sources : given[p] = <<>> /\ heads[p] = {}
        /\ UNCHANGED <<given, heads, rows, out>>
    BY <1>1 DEF Begin, IInv, Pulling
  <2>2. Given = {} /\ Heads = {}
    BY <2>1, GivenMember DEF Heads
  <2>3. Given' = Given /\ Heads' = Heads
    BY <2>1 DEF Given, Heads
  <2> QED BY <2>1, <2>2, <2>3, RngFacts DEF Rng
<1>2. CASE Begun /\ UNCHANGED stillVars /\ UNCHANGED round
  <2>1. /\ Rng(out)' = Rng(out) /\ Rng(rows)' = Rng(rows) /\ Given' = Given /\ Heads' = Heads
        /\ UNCHANGED <<rows, round, given>>
    BY <1>2 DEF stillVars, Rng, Given, Heads
  <2> QED BY <1>2, <2>1 DEF Merging, Newest
<1>3. ASSUME NEW p \in Sources, Pull(p)
      PROVE  Rng(out)' = (Given \ (Heads \cup Rng(rows)))' /\ rows' = <<>>
  <2>1. Begun /\ rows = <<>> /\ UNCHANGED <<given, heads, rows, out>>
    BY <1>3 DEF Pull, Running, Begun
  <2>2. Rng(out)' = Rng(out) /\ Rng(rows)' = Rng(rows) /\ Given' = Given /\ Heads' = Heads
    BY <2>1 DEF Rng, Given, Heads
  <2> QED BY <2>1, <2>2 DEF Merging
<1>4. ASSUME NEW p \in Sources, NEW t \in Indexes, Give(p, t)
      PROVE  Rng(out)' = (Given \ (Heads \cup Rng(rows)))' /\ rows' = <<>>
  <2>1. Given' = Given \cup {EventOf(p, t)} /\ Heads' = Heads \cup {EventOf(p, t)} /\ EventOf(p, t) \notin Given
    BY <1>4, NewGiven, GiveHeads DEF IInv
  <2>2. Begun /\ rows = <<>> /\ rows' = <<>> /\ out' = out
    BY <1>4, GiveHeads DEF Give
  <2>3. Rng(out) = Given \ Heads /\ Rng(out)' = Rng(out) /\ Rng(rows)' = {}
    BY <2>2, RngFacts DEF Merging, Rng
  <2> QED BY <2>1, <2>2, <2>3
<1>5. CASE MergeRow
  <2>1. Begun /\ rows = <<>> /\ UNCHANGED <<given, out>>
    BY <1>5 DEF MergeRow, Ready, Running, Begun, sourceVars
  <2>2. PICK e \in Heads :
           /\ rows' = <<e>> /\ round' = {e.port} /\ e.port \in Sources /\ e = Newest(e.port) /\ e \in Given
           /\ Heads' = Heads \ {e}
           /\ \A d \in Heads \ {e} : Before(e, d)
    BY <1>5, MergeRowFacts
  <2>3. Rng(out) = Given \ Heads /\ Rng(out)' = Rng(out) /\ Given' = Given
    BY <2>1, RngFacts DEF Merging, Rng, Given
  <2>4. Rng(rows)' = {e} /\ rows'[1] = e
    BY <2>2, RngFacts DEF Rng
  <2>5. Newest(e.port)' = Newest(e.port)
    BY <2>1 DEF Newest
  <2> QED BY <2>2, <2>3, <2>4, <2>5 DEF Before
<1>6. CASE Yield
  <2>1. UNCHANGED <<given, heads>>
    BY <1>6 DEF Yield, sourceVars
  <2>2. Given' = Given /\ Heads' = Heads
    BY <2>1 DEF Given, Heads
  <2>3. Begun /\ rows # <<>> /\ rows' = <<>> /\ Rng(rows) = {rows[1]} /\ Rng(out') = Rng(out) \cup {rows[1]}
    BY <1>6, YieldRow
  <2>4. Rng(out)' = Rng(out') /\ Rng(rows)' = {}
    BY <2>3, RngFacts DEF Rng
  <2> QED BY <2>2, <2>3, <2>4 DEF Merging
<1>7. ~JoinRow /\ ~JoinLast /\ ~ZipRow
  BY DEF JoinRow, JoinLast, ZipRow
<1> QED BY <1>1, <1>2, <1>3, <1>4, <1>5, <1>6, <1>7, DataSteps

-----------------------------------------------------------------------------
(* The merge of iterators implements the merged stream.                    *)

\* What a source may still send: nothing below its newest event.
LEMMA FloorFacts ==
  ASSUME IInv
  PROVE  /\ Floor \in [Sources -> Times]
         /\ \A p \in Ended : Floor[p] = kMax
         /\ \A p \in Sources \ Ended : given[p] # <<>> =>
              Floor[p] = given[p][Len(given[p])] /\ Floor[p] = Newest(p).index
         /\ \A p \in Sources \ Ended : given[p] = <<>> => Floor[p] = kMin
<1>1. \A p \in Sources : given[p] \in Seq(Times)
  BY DEF IInv, TypeInv
<1>2. \A p \in Sources : given[p] # <<>> => given[p][Len(given[p])] \in Times /\ Last(given[p]) = given[p][Len(given[p])]
  BY <1>1 DEF Last
<1>3. kMin \in Times /\ kMax \in Times
  BY SourceAssumption DEF Times
<1> QED BY <1>2, <1>3 DEF Floor, Ended, Newest

\* A given event comes after what its source gave.
LEMMA GiveFloor ==
  ASSUME IInv, form \in {"merge", "join"}, NEW p \in Sources, NEW t \in Indexes, Give(p, t)
  PROVE  /\ p \notin Ended /\ Ended' = Ended /\ t \in Times
         /\ Floor[p] <= t /\ Floor' = [Floor EXCEPT ![p] = t]
         /\ UNCHANGED <<out, form>>
<1>1. /\ src \in [Sources -> SourceStates] /\ t \in Times /\ \A q \in Sources : given[q] \in Seq(Times)
  BY EventAssumption DEF IInv, TypeInv, Times
<1>2. p \notin Ended /\ Ended' = Ended
  BY <1>1 DEF Give, Awaited, Ended
<1>3. Floor[p] <= t
  <2>1. CASE given[p] = <<>>
    BY <1>1, <1>2, <2>1, FloorFacts, SourceAssumption DEF Times
  <2>2. CASE given[p] # <<>>
    BY <1>1, <1>2, <2>2, FloorFacts DEF Give, Last
  <2> QED BY <2>1, <2>2
<1>4. given'[p] = Append(given[p], t) /\ \A q \in Sources : q # p => given'[q] = given[q]
  BY NewGiven DEF IInv
<1>5. given'[p] # <<>> /\ Last(given'[p]) = t
  BY <1>1, <1>4 DEF Last
<1>6. Floor' = [q \in Sources |-> IF q = p THEN t ELSE Floor[q]]
  BY <1>2, <1>4, <1>5 DEF Floor
<1>7. Floor' = [Floor EXCEPT ![p] = t]
  BY <1>6 DEF Floor
<1> QED BY <1>1, <1>2, <1>3, <1>7 DEF Give, kindVars

LEMMA EndFloor ==
  ASSUME IInv, NEW p \in Sources, EndSource(p)
  PROVE  /\ Ended' = Ended \cup {p} /\ UNCHANGED <<given, out, form>>
         /\ Floor' = [q \in Sources |-> IF q = p THEN kMax ELSE Floor[q]]
         /\ Floor' = [Floor EXCEPT ![p] = kMax]
<1>1. src \in [Sources -> SourceStates]
  BY DEF IInv, TypeInv
<1>2. src' = [src EXCEPT ![p] = "ended"] /\ UNCHANGED <<given, out, form>>
  BY DEF EndSource, Leave, rowVars, kindVars
<1>3. Ended' = Ended \cup {p}
  BY <1>1, <1>2 DEF Ended
<1>4. Floor' = [q \in Sources |-> IF q = p THEN kMax ELSE Floor[q]]
  BY <1>2, <1>3 DEF Floor
<1>5. Floor' = [Floor EXCEPT ![p] = kMax]
  BY <1>4 DEF Floor
<1> QED BY <1>2, <1>3, <1>4, <1>5

\* Of a merge's row no other source may still send an event before it.
LEMMA MergeFinal ==
  ASSUME IInv, Merging, form = "merge", at = "run", rows # <<>>,
         NEW q \in Sources \ Ended, q # rows[1].port
  PROVE  IF q < rows[1].port THEN rows[1].index < Floor[q] ELSE rows[1].index <= Floor[q]
<1>1. /\ Begun /\ rows[1] \in Given /\ round = {rows[1].port} /\ rows[1].port \in Sources
      /\ \A d \in Heads : Before(rows[1], d) /\ rows[1] = Newest(rows[1].port)
  BY DEF Merging, Begun
<1>2. src[q] = "open" /\ q \notin round
  BY <1>1 DEF IInv, Life, Ended
<1>3. heads[q] # {} /\ given[q] # <<>>
  BY <1>1, <1>2 DEF IInv, Pulling
<1>4. Newest(q) \in Heads /\ Newest(q).port = q /\ Floor[q] = Newest(q).index
  BY <1>1, <1>3, HeadsNewest, FloorFacts
<1>5. Before(rows[1], Newest(q))
  BY <1>1, <1>4
<1>6. Floor[q] \in Int /\ rows[1].index \in Int /\ q \in Int /\ rows[1].port \in Int
  <2>1. rows[1].index \in Times
    <3>1. PICK p \in Sources : \E i \in 1 .. Len(given[p]) : rows[1] = Ev(p, i)
      BY <1>1, GivenMember
    <3>2. given[p] \in Seq(Times)
      BY DEF IInv, TypeInv
    <3> QED BY <3>1, <3>2 DEF Ev
  <2> QED BY <1>1, <2>1, FloorFacts DEF Times, Sources
<1> QED BY <1>4, <1>5, <1>6 DEF Before

LEMMA MergedInit == Init => Merged!SInit
<1> SUFFICES ASSUME Init PROVE Merged!SInit
  OBVIOUS
<1>1. Given = {} /\ out = <<>> /\ Ended = {}
  BY GivenMember DEF Init, Ended
<1>2. Floor = [p \in Sources |-> kMin]
  BY <1>1 DEF Init, Floor
<1> QED BY <1>1, <1>2 DEF Merged!SInit, Merged!Ports, Sources

LEMMA MergedNext ==
  ASSUME IInv, Merging, [Next]_vars
  PROVE  [Merged!SNext]_Merged!streamVars
<1>1. form' = form
  BY DataSteps
<1>2. CASE form # "merge"
  BY <1>1, <1>2 DEF Merged!streamVars
<1>3. ASSUME form = "merge", UNCHANGED <<given, out>>, Ended' = Ended
      PROVE  UNCHANGED Merged!streamVars
  <2>1. Given' = Given /\ Floor' = Floor
    BY <1>3 DEF Given, Floor
  <2> QED BY <1>1, <1>3, <2>1 DEF Merged!streamVars
<1>4. ASSUME form = "merge", NEW p \in Sources, NEW t \in Indexes, Give(p, t)
      PROVE  Merged!Offer(p)
  <2>1. /\ p \notin Ended /\ Ended' = Ended /\ t \in Merged!Index /\ Floor[p] <= t
        /\ Floor' = [Floor EXCEPT ![p] = t] /\ out' = out
    BY <1>4, GiveFloor DEF Merged!Index, Times
  <2>2. Given' = Given \cup {[index |-> t, port |-> p, nth |-> Cardinality({e \in Given : e.port = p})]}
    BY <1>4, NewGiven, GivenCount DEF IInv, EventOf
  <2>3. Merged!Cardinality({e \in Given : e.port = p}) = Cardinality({e \in Given : e.port = p})
    BY Zenon DEF Merged!Cardinality, Cardinality
  <2> QED BY <1>1, <1>4, <2>1, <2>2, <2>3 DEF Merged!Offer
<1>5. ASSUME form = "merge", NEW p \in Sources, EndSource(p)
      PROVE  Merged!End(p)
  <2>1. Given' = Given
    BY <1>5, EndFloor DEF Given
  <2> QED BY <1>1, <1>5, <2>1, EndFloor DEF Merged!End
<1>6. ASSUME form = "merge", Yield
      PROVE  Merged!Deliver
  <2>1. at = "run" /\ Begun /\ rows # <<>> /\ Rng(rows) = {rows[1]} /\ out' = Append(out, rows[1])
    BY <1>6, YieldRow DEF Yield
  <2>2. Rng(out) = Given \ (Heads \cup {rows[1]}) /\ rows[1] \in Given /\ \A d \in Heads : Before(rows[1], d)
    BY <1>6, <2>1 DEF Merging
  <2>3. Heads \subseteq Given
    BY <2>1, HeadsNewest
  <2>4. Merged!Waiting = Heads \cup {rows[1]}
    BY <1>6, <2>2, <2>3 DEF Merged!Waiting, Merged!Delivered, Rng
  <2>5. \A d \in Merged!Waiting \ {rows[1]} : Merged!Before(rows[1], d)
    BY <2>2, <2>4 DEF Before, Merged!Before
  <2>6. Merged!Final(rows[1])
    <3>1. ASSUME NEW q \in Sources \ {rows[1].port} PROVE ~Merged!MayPrecede(q, rows[1])
      <4>1. CASE q \in Ended
        BY <1>6, <4>1 DEF Merged!MayPrecede
      <4>2. CASE q \notin Ended
        <5>1. IF q < rows[1].port THEN rows[1].index < Floor[q] ELSE rows[1].index <= Floor[q]
          BY <1>6, <2>1, <4>2, MergeFinal
        <5>2. Floor[q] \in Int /\ rows[1].index \in Int
          <6>1. PICK p \in Sources : \E i \in 1 .. Len(given[p]) : rows[1] = Ev(p, i)
            BY <2>2, GivenMember
          <6>2. given[p] \in Seq(Times)
            BY DEF IInv, TypeInv
          <6>3. rows[1].index \in Times
            BY <6>1, <6>2 DEF Ev
          <6> QED BY <6>3, FloorFacts DEF Times
        <5> QED BY <1>6, <5>1, <5>2 DEF Merged!MayPrecede
      <4> QED BY <4>1, <4>2
    <3> QED BY <3>1 DEF Merged!Final, Merged!Ports, Sources
  <2>7. UNCHANGED <<given, src>>
    BY <1>6 DEF Yield, sourceVars
  <2>8. Given' = Given /\ Ended' = Ended /\ Floor' = Floor
    BY <2>7 DEF Given, Ended, Floor
  <2> QED BY <1>1, <1>6, <2>1, <2>4, <2>5, <2>6, <2>8 DEF Merged!Deliver
<1> QED
  <2>1. Merged!Ports = Sources
    BY DEF Merged!Ports, Sources
  <2> QED BY <1>2, <1>3, <1>4, <1>5, <1>6, <2>1, StreamSteps DEF Merged!SNext

LEMMA MergingInit == Init => Merging
BY DEF Init, Merging, Begun

\* The merge of iterators delivers what a node with several producers does:
\* the events in order, each once no source may still send one before it.
THEOREM MergesInOrder == Spec => MergeImplements
<1>1. IInv /\ Merging /\ [Next]_vars => IInv' /\ Merging'
  BY NextInv, MergingInv
<1>2. Init => IInv /\ Merging
  BY InitInv, MergingInit
<1>3. IInv /\ Merging /\ [Next]_vars => [Merged!SNext]_Merged!streamVars
  BY MergedNext
<1> QED BY <1>1, <1>2, <1>3, MergedInit, PTL DEF Spec, MergeImplements, Merged!MergedSpec

-----------------------------------------------------------------------------
(* The join of iterators implements the rows of the as-of join.            *)

\* The events that were used are all those of a source but the one held.
LEMMA UsedFacts ==
  ASSUME IInv, Begun
  PROVE  /\ \A p \in Sources :
              /\ Len(given[p]) \in Nat /\ UsedCount(p) \in Nat /\ given[p] \in Seq(Times)
              /\ heads[p] = {} => UsedCount(p) = Len(given[p])
              /\ heads[p] # {} => UsedCount(p) = Len(given[p]) - 1
         /\ \A u : u \in Used <=> \E p \in Sources : \E i \in 1 .. UsedCount(p) : u = Ev(p, i)
         /\ \A u \in Given : u.port \in Sources /\ u.index \in Times
         /\ Used \subseteq Given /\ Heads \subseteq Given
<1>1. \A p \in Sources : given[p] \in Seq(Times) /\ Len(given[p]) \in Nat
  BY DEF IInv, TypeInv
<1>2. \A p \in Sources : heads[p] # {} => Len(given[p]) # 0 /\ given[p] # <<>>
  BY <1>1 DEF IInv, Pulling
<1>3. ASSUME NEW p \in Sources
      PROVE  /\ UsedCount(p) \in Nat
             /\ heads[p] = {} => UsedCount(p) = Len(given[p])
             /\ heads[p] # {} => UsedCount(p) = Len(given[p]) - 1
  BY <1>1, <1>2 DEF UsedCount
<1>4. ASSUME NEW u
      PROVE  u \in Used <=> \E p \in Sources : \E i \in 1 .. UsedCount(p) : u = Ev(p, i)
  <2>1. ASSUME u \in Used PROVE \E p \in Sources : \E i \in 1 .. UsedCount(p) : u = Ev(p, i)
    <3>1. PICK p \in Sources : \E i \in 1 .. Len(given[p]) : u = Ev(p, i)
      BY <2>1, GivenMember DEF Used
    <3>2. PICK i \in 1 .. Len(given[p]) : u = Ev(p, i)
      BY <3>1
    <3>3. CASE heads[p] = {}
      BY <1>3, <3>2, <3>3
    <3>4. CASE heads[p] # {}
      <4>1. Newest(p) \in Heads /\ Newest(p) = Ev(p, Len(given[p]))
        BY <3>4, HeadsNewest
      <4>2. i # Len(given[p])
        BY <2>1, <3>2, <4>1 DEF Used
      <4> QED BY <1>1, <1>3, <3>2, <3>4, <4>2
    <3> QED BY <3>3, <3>4
  <2>2. ASSUME NEW p \in Sources, NEW i \in 1 .. UsedCount(p), u = Ev(p, i) PROVE u \in Used
    <3>1. i \in 1 .. Len(given[p])
      BY <1>1, <1>3
    <3>2. u \in Given /\ u.port = p
      BY <2>2, <3>1, GivenMember DEF Ev
    <3>3. u \notin Heads
      <4>1. SUFFICES ASSUME u \in Heads PROVE FALSE
        OBVIOUS
      <4>2. heads[p] # {} /\ u = Ev(p, Len(given[p]))
        BY <3>2, <4>1, HeadsNewest
      <4>3. i - 1 = Len(given[p]) - 1
        BY <2>2, <4>2 DEF Ev
      <4> QED BY <1>1, <1>3, <4>2, <4>3
    <3> QED BY <3>2, <3>3 DEF Used
  <2> QED BY <2>1, <2>2
<1>5. ASSUME NEW u \in Given PROVE u.port \in Sources /\ u.index \in Times
  <2>1. PICK p \in Sources : \E i \in 1 .. Len(given[p]) : u = Ev(p, i)
    BY GivenMember
  <2> QED BY <1>1, <2>1 DEF Ev
<1>6. Used \subseteq Given /\ Heads \subseteq Given
  BY HeadsNewest DEF Used
<1> QED BY <1>1, <1>3, <1>4, <1>5, <1>6

\* A step that leaves the rows and the events as they are, and may end a source.
LEMMA JoinStill ==
  ASSUME IInv, JoinParts, UNCHANGED stillVars, Ended \subseteq Ended'
  PROVE  JoinParts'
<1> USE DEF stillVars
<1>1. /\ Given' = Given /\ Heads' = Heads /\ Rng(rows)' = Rng(rows) /\ UNCHANGED <<rows, out, due, latest, given>>
      /\ \A p \in Sources : src'[p] # "ended" => src[p] # "ended"
  BY DEF Given, Heads, Rng, Ended
<1>2. Used' = Used /\ \A p \in Sources : UsedCount(p)' = UsedCount(p) /\ \A i : Ev(p, i)' = Ev(p, i)
  BY <1>1 DEF Used, UsedCount, Ev
<1>3. \A t : IsShown(t)' = IsShown(t)
  BY <1>2 DEF IsShown
<1>4. \A p, t : LastAt(p, t)' = LastAt(p, t)
  BY <1>1 DEF LastAt
<1>5. LatestUsed'
  <2>1. ASSUME NEW p \in Sources
        PROVE  latest'[p] = IF UsedCount(p)' = 0 THEN {} ELSE {[index |-> given'[p][UsedCount(p)'], port |-> p, nth |-> UsedCount(p)' - 1]}
    BY <1>1, <1>2 DEF JoinParts, LatestUsed, Ev
  <2> QED BY <2>1 DEF LatestUsed, Ev
<1>6. UsedBelow' /\ DueRight'
  BY <1>1, <1>2 DEF JoinParts, UsedBelow, DueRight
<1>7. RowsShown' /\ RowsInOrder'
  BY <1>1, <1>3 DEF JoinParts, RowsShown, RowsInOrder
<1>8. RowRight'
  BY <1>1, <1>4 DEF JoinParts, RowRight
<1>9. NoneDue' /\ RowTypes'
  BY <1>1 DEF JoinParts, NoneDue, Ended, RowTypes, Rng
<1> QED BY <1>5, <1>6, <1>7, <1>8, <1>9 DEF JoinParts

LEMMA JoinBegin ==
  ASSUME IInv, Begin
  PROVE  JoinParts'
<1>1. /\ out' = <<>> /\ rows' = <<>> /\ due' = {}
      /\ \A p \in Sources : given'[p] = <<>> /\ heads'[p] = {} /\ latest'[p] = {}
  BY DEF Begin, IInv, Pulling
<1>2. Rng(rows)' = {}
  BY <1>1, RngFacts DEF Rng
<1>3. Used' = {}
  <2>1. Given' = {}
    BY <1>1 DEF Given
  <2> QED BY <2>1 DEF Used
<1>4. LatestUsed'
  <2>1. \A p \in Sources : UsedCount(p)' = 0
    BY <1>1 DEF UsedCount
  <2> QED BY <1>1, <2>1 DEF LatestUsed
<1>5. RowTypes' /\ UsedBelow' /\ DueRight' /\ RowRight' /\ NoneDue'
  BY <1>1, <1>2, <1>3, RngFacts DEF RowTypes, Rng, UsedBelow, DueRight, RowRight, NoneDue
<1>6. RowsShown' /\ RowsInOrder'
  BY <1>1, <1>2, <1>3 DEF RowsShown, RowsInOrder, IsShown
<1> QED BY <1>4, <1>5, <1>6 DEF JoinParts

LEMMA JoinGive ==
  ASSUME IInv, JoinParts, form = "join", NEW p \in Sources, NEW t \in Indexes, Give(p, t)
  PROVE  JoinParts'
<1> DEFINE n == Len(given[p])
<1>1. /\ Heads' = Heads \cup {EventOf(p, t)} /\ Given' = Given \cup {EventOf(p, t)}
      /\ EventOf(p, t) \notin Given /\ heads[p] = {} /\ rows = <<>> /\ rows' = <<>> /\ Begun
      /\ \A q \in Sources : q # p => given'[q] = given[q] /\ heads'[q] = heads[q]
      /\ n \in Nat /\ Len(given'[p]) = n + 1 /\ given'[p][n + 1] = t /\ heads'[p] # {}
      /\ \A i \in 1 .. n : given'[p][i] = given[p][i]
  BY GiveHeads, NewGiven DEF IInv
<1>2. Rng(rows)' = {} /\ Rng(rows) = {}
  BY <1>1, RngFacts DEF Rng
<1>3. Used' = Used
  BY <1>1, UsedFacts DEF Used
<1>4. UNCHANGED <<out, due, latest, form>> /\ src[p] = "asked" /\ src' = [src EXCEPT ![p] = "open"]
  BY DEF Give, Awaited, kindVars
<1>5. src \in [Sources -> SourceStates] /\ p \notin Ended
  BY <1>4 DEF IInv, TypeInv, Ended
<1>6. LatestUsed'
  <2>1. ASSUME NEW q \in Sources PROVE UsedCount(q)' = UsedCount(q)
    BY <1>1 DEF UsedCount
  <2>2. ASSUME NEW q \in Sources, UsedCount(q) # 0 PROVE given'[q][UsedCount(q)] = given[q][UsedCount(q)]
    <3>1. UsedCount(q) \in Nat /\ (q = p => UsedCount(q) = n)
      BY <1>1, UsedFacts
    <3> QED BY <1>1, <2>2, <3>1
  <2>3. ASSUME NEW q \in Sources
        PROVE  latest'[q] = IF UsedCount(q)' = 0 THEN {} ELSE {[index |-> given'[q][UsedCount(q)'], port |-> q, nth |-> UsedCount(q)' - 1]}
    BY <1>4, <2>1, <2>2 DEF JoinParts, LatestUsed, Ev
  <2> QED BY <2>3 DEF LatestUsed, Ev
<1>7. UsedBelow'
  <2>1. ASSUME NEW q \in Sources, src'[q] # "ended", NEW u \in Used
        PROVE  given'[q] # <<>> /\ u.index <= given'[q][Len(given'[q])]
    <3>1. given[q] # <<>> /\ u.index <= given[q][Len(given[q])] /\ src[q] # "ended"
      BY <1>4, <1>5, <2>1 DEF JoinParts, UsedBelow
    <3>2. CASE q # p
      BY <1>1, <3>1, <3>2
    <3>3. CASE q = p
      <4>1. given[p] \in Seq(Times) /\ t \in Times /\ u.index \in Times
        BY <1>1, UsedFacts, EventAssumption DEF Times
      <4>2. given[p][n] <= t /\ given[p][n] \in Times
        BY <3>1, <3>3, <4>1 DEF Give, Last
      <4>3. given'[p] # <<>>
        BY <1>1
      <4>4. u.index <= t
        BY <3>1, <3>3, <4>1, <4>2 DEF Times
      <4> QED BY <1>1, <3>3, <4>3, <4>4
    <3> QED BY <3>2, <3>3
  <2> QED BY <1>3, <2>1 DEF UsedBelow
<1>8. DueRight'
  BY <1>3, <1>4 DEF JoinParts, DueRight
<1>9. RowsShown' /\ RowsInOrder' /\ RowRight'
  BY <1>2, <1>3, <1>4 DEF JoinParts, RowsShown, RowsInOrder, RowRight, IsShown
<1>10. NoneDue' /\ RowTypes'
  BY <1>1, <1>2, <1>4, <1>5 DEF JoinParts, NoneDue, RowTypes, Rng
<1> QED BY <1>6, <1>7, <1>8, <1>9, <1>10 DEF JoinParts

\* At an index that no event used is above and every event held is, the latest
\* of a source is its last event.
LEMMA LatestLast ==
  ASSUME IInv, Begun, LatestUsed, NEW t \in Times, NEW p \in Sources,
         \A u \in Used : u.index <= t,
         \A e \in Heads : t < e.index
  PROVE  latest[p] = LastAt(p, t)
<1>1. UsedCount(p) \in Nat
  BY UsedFacts
<1>2. ASSUME NEW e \in Given, e.port = p, e.index <= t
      PROVE  \E i \in 1 .. UsedCount(p) : e = Ev(p, i)
  <2>1. e \in Used
    <3>1. e.index \in Int /\ t \in Int /\ ~ t < e.index
      BY <1>2, UsedFacts DEF Times
    <3> QED BY <3>1 DEF Used
  <2>2. PICK q \in Sources : \E i \in 1 .. UsedCount(q) : e = Ev(q, i)
    BY <2>1, UsedFacts
  <2>3. q = p
    BY <1>2, <2>2 DEF Ev
  <2> QED BY <2>2, <2>3
<1>3. CASE UsedCount(p) = 0
  <2>1. latest[p] = {}
    BY <1>3 DEF LatestUsed
  <2>2. ASSUME NEW e \in LastAt(p, t) PROVE FALSE
    <3>1. \E i \in 1 .. UsedCount(p) : e = Ev(p, i)
      BY <1>2 DEF LastAt
    <3>2. \E i \in 1 .. 0 : e = Ev(p, i)
      BY <1>3, <3>1
    <3> QED BY <3>2
  <2> QED BY <2>1, <2>2
<1>4. CASE UsedCount(p) # 0
  <2> DEFINE e == Ev(p, UsedCount(p))
  <2>1. UsedCount(p) \in 1 .. UsedCount(p)
    BY <1>1, <1>4
  <2>2. e \in Given /\ e.port = p /\ e.index <= t /\ e.nth = UsedCount(p) - 1
    BY <2>1, UsedFacts DEF Ev
  <2>3. \A d \in Given : d.port = p /\ d.index <= t => d.nth <= e.nth /\ (d # e => d.nth < e.nth)
    <3>1. ASSUME NEW d \in Given, d.port = p, d.index <= t
          PROVE  d.nth <= e.nth /\ (d # e => d.nth < e.nth)
      <4>1. PICK i \in 1 .. UsedCount(p) : d = Ev(p, i)
        BY <1>2, <3>1
      <4>2. d.nth = i - 1
        BY <4>1 DEF Ev
      <4>3. d # e => i # UsedCount(p)
        BY <4>1
      <4> QED BY <1>1, <2>2, <4>2, <4>3
    <3> QED BY <3>1
  <2>4. latest[p] = {e}
    BY <1>4 DEF LatestUsed
  <2> HIDE DEF e
  <2>5. e.nth \in Int /\ \A d \in Given : d.port = p /\ d.index <= t => d.nth \in Int
    <3>1. \A d \in Given : d.port = p /\ d.index <= t => d.nth \in Int
      BY <1>2 DEF Ev
    <3> QED BY <2>2, <3>1
  <2>6. \A d \in LastAt(p, t) : d = e
    BY <2>2, <2>3, <2>5 DEF LastAt
  <2>7. e \in LastAt(p, t)
    BY <2>2, <2>3 DEF LastAt
  <2> QED BY <2>4, <2>6, <2>7
<1> QED BY <1>3, <1>4

\* One step of a join.
LEMMA JoinRowFacts ==
  ASSUME IInv, JoinParts, JoinRow
  PROVE  \E e \in Heads :
           /\ e \in Given /\ e.port \in Sources /\ e.index \in Times
           /\ latest' = [latest EXCEPT ![e.port] = {e}]
           /\ IF WhenAll /\ \E p \in Sources : latest'[p] = {}
              THEN UNCHANGED <<rows, due>>
              ELSE /\ rows' = SetToSeq(Settled(e))
                   /\ due' = {[index |-> e.index, latest |-> latest']}
           /\ Given' = Given /\ Used' = Used \cup {e} /\ LatestUsed'
           /\ \A u \in Used' : u.index <= e.index
           /\ \A q \in Sources : latest'[q] # {} <=> \E u \in Used' : u.port = q
           /\ \A d \in Heads : e.index <= d.index
           /\ \A q \in Sources : src[q] # "ended" =>
                given[q] # <<>> /\ e.index <= given[q][Len(given[q])] /\ Newest(q) \in Heads
<1>1. PICK e \in Heads :
        /\ IsTop(e)
        /\ heads' = [heads EXCEPT ![e.port] = {}]
        /\ latest' = [latest EXCEPT ![e.port] = {e}]
        /\ IF WhenAll /\ \E p \in Sources : latest'[p] = {}
           THEN UNCHANGED <<rows, due>>
           ELSE /\ rows' = SetToSeq(Settled(e))
                /\ due' = {[index |-> e.index, latest |-> latest']}
  BY DEF JoinRow, IsTop
<1>2. Begun /\ Ready /\ round = {} /\ UNCHANGED <<given, src>>
  BY DEF JoinRow, Ready, Running, Begun, sourceVars
<1>3. e \in Given /\ e.port \in Sources /\ e.index \in Times
  BY <1>2, UsedFacts
<1>4. heads[e.port] = {e} /\ e = Newest(e.port) /\ src[e.port] = "open" /\ heads[e.port] # {}
  BY <1>2, TopFacts
<1>5. heads \in PerSource /\ latest \in PerSource
  BY DEF IInv, TypeInv
<1>6. \A q \in Sources : heads'[q] = IF q = e.port THEN {} ELSE heads[q]
  BY <1>1, <1>5 DEF PerSource
<1>7. Given' = Given /\ Heads' = Heads \ {e}
  <2>1. Given' = Given
    BY <1>2 DEF Given
  <2>2. Heads' = UNION {heads'[q] : q \in Sources}
    BY DEF Heads
  <2>3. \A q \in Sources : q # e.port => e \notin heads[q]
    BY <1>2, <1>4, HeadsNewest
  <2>4. ASSUME NEW d PROVE d \in Heads' <=> d \in Heads \ {e}
    BY <1>3, <1>4, <1>6, <2>2, <2>3 DEF Heads
  <2> QED BY <2>1, <2>4
<1>8. Used' = Used \cup {e}
  BY <1>3, <1>7 DEF Used
<1>9. \A d \in Heads : e.index <= d.index
  <2>1. ASSUME NEW d \in Heads PROVE e.index <= d.index
    <3>1. e.index \in Int /\ d.index \in Int
      BY <1>2, UsedFacts DEF Times
    <3>2. d = e \/ Before(e, d)
      BY <1>1 DEF IsTop
    <3> QED BY <3>1, <3>2 DEF Before
  <2> QED BY <2>1
<1>10. ASSUME NEW q \in Sources, src[q] # "ended"
       PROVE  given[q] # <<>> /\ e.index <= given[q][Len(given[q])] /\ Newest(q) \in Heads
  <2>1. src[q] = "open" /\ heads[q] # {} /\ given[q] # <<>>
    BY <1>2, <1>10 DEF IInv, Life, Pulling, Ready, Running, Begun
  <2>2. Newest(q) \in Heads
    BY <1>2, <2>1, HeadsNewest
  <2>3. e.index <= Newest(q).index
    BY <1>9, <2>2
  <2> QED BY <2>1, <2>2, <2>3 DEF Newest
<1>11. \A u \in Used' : u.index <= e.index
  <2>1. \A u \in Used : u.index <= given[e.port][Len(given[e.port])]
    BY <1>3, <1>4 DEF JoinParts, UsedBelow
  <2>2. given[e.port][Len(given[e.port])] = e.index
    BY <1>3, <1>4 DEF Newest
  <2>3. e.index <= e.index
    BY <1>3 DEF Times
  <2> QED BY <1>8, <2>1, <2>2, <2>3
<1>12. \A q \in Sources : latest'[q] = IF q = e.port THEN {e} ELSE latest[q]
  BY <1>1, <1>5 DEF PerSource
<1>13. LatestUsed'
  <2>1. ASSUME NEW q \in Sources
        PROVE  latest'[q] = IF UsedCount(q)' = 0 THEN {} ELSE {[index |-> given'[q][UsedCount(q)'], port |-> q, nth |-> UsedCount(q)' - 1]}
    <3>1. CASE q = e.port
      <4>1. UsedCount(q)' = Len(given[q]) /\ given'[q] = given[q] /\ Len(given[q]) \in Nat /\ Len(given[q]) # 0
        BY <1>2, <1>4, <1>6, <3>1, UsedFacts DEF UsedCount
      <4>2. e = [index |-> given[q][Len(given[q])], port |-> q, nth |-> Len(given[q]) - 1]
        BY <1>4, <3>1 DEF Newest
      <4> QED BY <1>12, <3>1, <4>1, <4>2
    <3>2. CASE q # e.port
      <4>1. UsedCount(q)' = UsedCount(q) /\ given'[q] = given[q]
        BY <1>2, <1>6, <3>2 DEF UsedCount
      <4> QED BY <1>12, <3>2, <4>1 DEF JoinParts, LatestUsed, Ev
    <3> QED BY <3>1, <3>2
  <2> QED BY <2>1 DEF LatestUsed, Ev
<1>14. ASSUME NEW q \in Sources PROVE latest'[q] # {} <=> \E u \in Used' : u.port = q
  <2>1. CASE q = e.port
    BY <1>8, <1>12, <2>1
  <2>2. CASE q # e.port
    <3>1. UsedCount(q) \in Nat
      BY <1>2, UsedFacts
    <3>2. latest[q] # {} <=> UsedCount(q) # 0
      BY DEF JoinParts, LatestUsed
    <3>3. ASSUME UsedCount(q) # 0 PROVE \E u \in Used : u.port = q
      <4>1. UsedCount(q) \in 1 .. UsedCount(q)
        BY <3>1, <3>3
      <4>2. Ev(q, UsedCount(q)) \in Used
        BY <1>2, <4>1, UsedFacts
      <4> QED BY <4>2 DEF Ev
    <3>4. ASSUME NEW u \in Used, u.port = q PROVE UsedCount(q) # 0
      <4>1. PICK p \in Sources : \E i \in 1 .. UsedCount(p) : u = Ev(p, i)
        BY <1>2, UsedFacts
      <4>2. p = q
        BY <3>4, <4>1 DEF Ev
      <4> QED BY <3>1, <4>1, <4>2
    <3> QED BY <1>12, <1>8, <2>2, <3>2, <3>3, <3>4
  <2> QED BY <2>1, <2>2
<1> QED BY <1>1, <1>3, <1>7, <1>8, <1>9, <1>10, <1>11, <1>13, <1>14

\* A step that makes no row yet: some source has given nothing.
LEMMA JoinRowWaits ==
  ASSUME IInv, JoinParts, JoinRow, UNCHANGED <<rows, due>>, NEW p \in Sources, latest'[p] = {}, WhenAll
  PROVE  JoinParts'
<1>1. PICK e \in Heads :
        /\ latest' = [latest EXCEPT ![e.port] = {e}] /\ e.port \in Sources
        /\ Used' = Used \cup {e} /\ LatestUsed'
        /\ \A u \in Used' : u.index <= e.index
        /\ \A q \in Sources : latest'[q] # {} <=> \E u \in Used' : u.port = q
        /\ \A q \in Sources : src[q] # "ended" => given[q] # <<>> /\ e.index <= given[q][Len(given[q])]
  BY JoinRowFacts
<1>2. Begun /\ rows = <<>> /\ rows' = <<>> /\ UNCHANGED <<given, src, out>>
  BY DEF JoinRow, Ready, Running, Begun, sourceVars
<1>3. Rng(rows) = {} /\ Rng(rows)' = {}
  BY <1>2, RngFacts DEF Rng
<1>4. due = {} /\ due' = {}
  <2>1. latest \in PerSource
    BY DEF IInv, TypeInv
  <2>2. latest[p] = {}
    BY <1>1, <2>1 DEF PerSource
  <2> QED BY <2>2 DEF JoinParts, DueRight
<1>5. out = <<>> /\ out' = <<>>
  BY <1>1, <1>2, <1>4 DEF JoinParts, NoneDue
<1>6. UsedBelow'
  BY <1>1, <1>2 DEF JoinParts, UsedBelow
<1>7. RowTypes' /\ DueRight' /\ RowsInOrder' /\ RowRight' /\ NoneDue'
  BY <1>2, <1>3, <1>4, <1>5, RngFacts DEF RowTypes, Rng, DueRight, RowsInOrder, RowRight, NoneDue
<1>8. RowsShown'
  <2>1. \A t : ~IsShown(t)'
    BY <1>1 DEF IsShown
  <2> QED BY <1>3, <1>4, <1>5, <2>1 DEF RowsShown
<1> QED BY <1>1, <1>6, <1>7, <1>8 DEF JoinParts

\* A step that holds back a row, and settles the one before it.
LEMMA JoinRowHolds ==
  ASSUME IInv, JoinParts, JoinRow, WhenAll => \A p \in Sources : latest'[p] # {}
  PROVE  JoinParts'
<1>1. PICK e \in Heads :
        /\ e \in Given /\ e.port \in Sources /\ e.index \in Times
        /\ latest' = [latest EXCEPT ![e.port] = {e}]
        /\ rows' = SetToSeq(Settled(e))
        /\ due' = {[index |-> e.index, latest |-> latest']}
        /\ Given' = Given /\ Used' = Used \cup {e} /\ LatestUsed'
        /\ \A u \in Used' : u.index <= e.index
        /\ \A q \in Sources : latest'[q] # {} <=> \E u \in Used' : u.port = q
        /\ \A d \in Heads : e.index <= d.index
        /\ \A q \in Sources : src[q] # "ended" => given[q] # <<>> /\ e.index <= given[q][Len(given[q])]
                                                 /\ Newest(q) \in Heads
  BY JoinRowFacts
<1>2. Begun /\ rows = <<>> /\ UNCHANGED <<given, src, out>>
  BY DEF JoinRow, Ready, Running, Begun, sourceVars
<1>3. Rng(rows)' = Settled(e) /\ Settled(e) \subseteq due /\ due \subseteq HeldRow
  <2>1. Settled(e) \subseteq HeldRow /\ \A c, d \in Settled(e) : c = d
    BY DEF Settled, IInv, TypeInv, Pulling
  <2>2. CASE Settled(e) = {}
    <3>1. rows' = <<>>
      BY <1>1, <2>1, <2>2, SeqOfRow
    <3> QED BY <2>2, <3>1, RngFacts DEF Rng, IInv, TypeInv, Settled
  <2>3. CASE Settled(e) # {}
    <3>1. PICK r \in Settled(e) : rows' = <<r>>
      BY <1>1, <2>1, <2>3, SeqOfRow
    <3>2. Settled(e) = {r} /\ Rng(rows)' = {r}
      BY <2>1, <3>1, RngFacts DEF Rng
    <3> QED BY <3>2 DEF IInv, TypeInv, Settled
  <2> QED BY <2>2, <2>3
<1>4. Rng(rows) = {}
  BY <1>2, RngFacts
<1>5. \A d \in due : d.index \in Times /\ d.index <= e.index /\ (d \in Settled(e) <=> d.index < e.index)
  <2>1. ASSUME NEW d \in due
        PROVE  d.index \in Times /\ d.index <= e.index /\ (d \in Settled(e) <=> d.index < e.index)
    <3>1. d.index \in Times
      BY <1>3 DEF HeldRow
    <3>2. d.index <= e.index
      BY <1>1 DEF JoinParts, DueRight
    <3> QED BY <1>1, <3>1, <3>2 DEF Settled, Times
  <2> QED BY <2>1
<1>6. UsedBelow'
  BY <1>1, <1>2 DEF JoinParts, UsedBelow
<1>7. DueRight'
  <2>1. e \in Used'
    BY <1>1
  <2> QED BY <1>1, <2>1 DEF DueRight
<1>8. \A t \in Times : IsShown(t)' <=> IsShown(t) \/ t = e.index
  <2>1. ASSUME NEW t \in Times, t = e.index PROVE IsShown(t)'
    <3>1. \E u \in Used' : u.index = t
      BY <1>1, <2>1
    <3>2. ASSUME WhenAll, NEW q \in Sources PROVE \E u \in Used' : u.port = q /\ u.index <= t
      BY <1>1, <2>1, <3>2
    <3> QED BY <3>1, <3>2 DEF IsShown
  <2>2. ASSUME NEW t \in Times, t # e.index, IsShown(t)' PROVE IsShown(t)
    <3>1. PICK u \in Used : u.index = t
      BY <1>1, <2>2 DEF IsShown
    <3>2. t < e.index
      BY <1>1, <2>2, <3>1 DEF Times
    <3>3. ~ e.index <= t
      BY <1>1, <3>2 DEF Times
    <3>4. ASSUME WhenAll, NEW q \in Sources PROVE \E v \in Used : v.port = q /\ v.index <= t
      BY <1>1, <2>2, <3>3, <3>4 DEF IsShown
    <3> QED BY <3>1, <3>4 DEF IsShown
  <2>3. ASSUME NEW t \in Times, IsShown(t) PROVE IsShown(t)'
    BY <1>1, <2>3 DEF IsShown
  <2> QED BY <2>1, <2>2, <2>3
<1>9. RowsShown'
  <2>1. ASSUME NEW t \in Times
        PROVE  IsShown(t)' <=> \/ \E i \in 1 .. Len(out) : out[i].index = t
                               \/ \E r \in Settled(e) \cup due' : r.index = t
    <3>1. (\E r \in Settled(e) \cup due' : r.index = t) <=> (\E d \in due : d.index = t) \/ t = e.index
      <4>1. \A d \in due : d \in Settled(e) \/ d.index = e.index
        BY DEF Settled
      <4>2. \A r \in due' : r.index = e.index
        BY <1>1
      <4>3. \E r \in due' : r.index = e.index
        BY <1>1
      <4> QED BY <1>3, <4>1, <4>2, <4>3
    <3>2. IsShown(t) <=> \/ \E i \in 1 .. Len(out) : out[i].index = t
                         \/ \E r \in due : r.index = t
      BY <1>4 DEF JoinParts, RowsShown
    <3> QED BY <1>8, <3>1, <3>2
  <2> QED BY <1>2, <1>3, <2>1 DEF RowsShown
<1>10. RowsInOrder'
  <2>1. ASSUME NEW i \in 1 .. Len(out) PROVE out[i].index < e.index /\ \A d \in Settled(e) : out[i].index < d.index
    <3>1. due # {}
      BY <1>1, <2>1 DEF JoinParts, NoneDue
    <3>2. PICK d \in due : TRUE
      BY <3>1
    <3>3. \A c \in due : out[i].index < c.index
      BY DEF JoinParts, RowsInOrder
    <3>4. out[i].index \in Int
      <4>1. out[i] \in HeldRow
        BY DEF JoinParts, RowTypes, Rng
      <4> QED BY <4>1 DEF HeldRow, Times
    <3> QED BY <1>1, <1>3, <1>5, <3>2, <3>3, <3>4 DEF Times
  <2> QED BY <1>1, <1>2, <1>3, <1>5, <2>1 DEF RowsInOrder
<1>11. RowRight'
  <2>1. ASSUME NEW d \in Settled(e), NEW q \in Sources
        PROVE  /\ d.latest[q] = LastAt(q, d.index)
               /\ WhenAll => d.latest[q] # {}
               /\ src[q] # "ended" => d.index < given[q][Len(given[q])]
    <3>1. d.index \in Times /\ d.index < e.index /\ d.latest = latest
      BY <1>3, <1>5 DEF JoinParts, DueRight
    <3>2. \A c \in Heads : d.index < c.index
      BY <1>1, <1>2, <3>1, UsedFacts DEF Times
    <3>3. \A u \in Used : u.index <= d.index
      BY <1>3 DEF JoinParts, DueRight
    <3>4. latest[q] = LastAt(q, d.index)
      BY <1>2, <3>1, <3>2, <3>3, LatestLast DEF JoinParts
    <3>5. ASSUME src[q] # "ended" PROVE d.index < given[q][Len(given[q])]
      <4>1. Newest(q) \in Heads
        BY <1>1, <3>5
      <4> QED BY <3>2, <4>1 DEF Newest
    <3> QED BY <1>3, <3>1, <3>4, <3>5 DEF JoinParts, DueRight
  <2>2. \A q, t : LastAt(q, t)' = LastAt(q, t)
    BY <1>1 DEF LastAt
  <2> QED BY <1>2, <1>3, <2>1, <2>2 DEF RowRight
<1>12. NoneDue' /\ RowTypes'
  <2>1. due' # {}
    BY <1>1
  <2>2. Rng(out)' = Rng(out) /\ Rng(out) \subseteq HeldRow
    BY <1>2 DEF JoinParts, RowTypes, Rng
  <2> QED BY <1>3, <2>1, <2>2 DEF NoneDue, RowTypes
<1> QED BY <1>1, <1>6, <1>7, <1>9, <1>10, <1>11, <1>12 DEF JoinParts

\* The sources have ended: the row held back is settled.
LEMMA JoinEnds ==
  ASSUME IInv, JoinParts, JoinLast
  PROVE  JoinParts'
<1>1. /\ Begun /\ Ready /\ Heads = {} /\ rows = <<>> /\ round = {} /\ due # {} /\ due' = {}
      /\ rows' = SetToSeq(due) /\ UNCHANGED <<given, src, heads, latest, out>>
  BY DEF JoinLast, Ready, Running, Begun, sourceVars
<1>2. PICK d \in due : due = {d} /\ rows' = <<d>> /\ d \in HeldRow
  <2>1. due \subseteq HeldRow /\ \A c, d \in due : c = d
    BY DEF IInv, TypeInv, Pulling
  <2>2. PICK d \in due : TRUE
    BY <1>1
  <2>3. due = {d} /\ d \in HeldRow
    BY <2>1
  <2>4. SetToSeq(due) = <<d>>
    BY <2>1, SeqOfRow
  <2> QED BY <1>1, <2>3, <2>4
<1>3. Rng(rows)' = {d} /\ Rng(rows) = {} /\ Rng(out)' = Rng(out)
  BY <1>1, <1>2, RngFacts DEF Rng
<1>4. Ended = Sources /\ Ended' = Sources /\ Heads' = {}
  <2>1. \A p \in Sources : heads[p] = {}
    BY <1>1 DEF Heads
  <2>2. \A p \in Sources : src[p] = "ended"
    BY <1>1, <2>1 DEF IInv, Life, Pulling, Ready, Running, Begun
  <2>3. Heads' = Heads
    BY <1>1 DEF Heads
  <2> QED BY <1>1, <2>2, <2>3 DEF Ended
<1>5. /\ Given' = Given /\ Used' = Used
      /\ \A p : UsedCount(p)' = UsedCount(p) /\ \A i : Ev(p, i)' = Ev(p, i)
  BY <1>1, <1>4 DEF Given, Used, UsedCount, Ev
<1>6. LatestUsed'
  <2>1. ASSUME NEW p \in Sources
        PROVE  latest'[p] = IF UsedCount(p)' = 0 THEN {} ELSE {[index |-> given'[p][UsedCount(p)'], port |-> p, nth |-> UsedCount(p)' - 1]}
    BY <1>1, <1>5 DEF JoinParts, LatestUsed, Ev
  <2> QED BY <2>1 DEF LatestUsed, Ev
<1>7. UsedBelow' /\ DueRight'
  BY <1>1, <1>5 DEF JoinParts, UsedBelow, DueRight
<1>8. RowsShown'
  <2>1. \A t : IsShown(t)' = IsShown(t)
    BY <1>5 DEF IsShown
  <2> QED BY <1>1, <1>2, <1>3, <2>1 DEF JoinParts, RowsShown
<1>9. RowsInOrder' /\ RowTypes' /\ NoneDue'
  BY <1>1, <1>2, <1>3, <1>4 DEF JoinParts, RowsInOrder, RowTypes, NoneDue
<1>10. RowRight'
  <2>1. ASSUME NEW p \in Sources
        PROVE  d.latest[p] = LastAt(p, d.index) /\ (WhenAll => d.latest[p] # {})
    <3>1. d.latest = latest /\ d.index \in Times /\ \A u \in Used : u.index <= d.index
      BY <1>2 DEF JoinParts, DueRight, HeldRow
    <3>2. \A c \in Heads : d.index < c.index
      BY <1>1
    <3>3. latest[p] = LastAt(p, d.index)
      BY <1>1, <3>1, <3>2, LatestLast DEF JoinParts
    <3> QED BY <3>1, <3>3 DEF JoinParts, DueRight
  <2>2. \A q, t : LastAt(q, t)' = LastAt(q, t)
    BY <1>5 DEF LastAt
  <2>3. \A p \in Sources : src'[p] = "ended"
    BY <1>4 DEF Ended
  <2> QED BY <1>3, <2>1, <2>2, <2>3 DEF RowRight
<1> QED BY <1>6, <1>7, <1>8, <1>9, <1>10 DEF JoinParts

LEMMA JoinYield ==
  ASSUME IInv, JoinParts, Yield
  PROVE  JoinParts'
<1> DEFINE r == rows[1]
<1>1. /\ Begun /\ Rng(rows) = {r} /\ rows' = <<>> /\ out' = Append(out, r) /\ Rng(out') = Rng(out) \cup {r}
      /\ out \in Seq(PEvent \cup HeldRow \cup PerSource) /\ rows # <<>>
      /\ UNCHANGED <<given, src, heads, latest, due>>
  BY YieldRow DEF Yield, sourceVars
<1> HIDE DEF r
<1>2. /\ Len(out) \in Nat /\ Len(out') = Len(out) + 1 /\ out'[Len(out) + 1] = r
      /\ \A i \in 1 .. Len(out) : out'[i] = out[i]
  BY <1>1
<1>3. \A i \in 1 .. Len(out') : i \in 1 .. Len(out) \/ i = Len(out) + 1
  BY <1>2
<1>4. Rng(rows)' = {} /\ Rng(out)' = Rng(out')
  BY <1>1, RngFacts DEF Rng
<1>5. /\ Given' = Given /\ Heads' = Heads /\ Used' = Used
      /\ \A p : UsedCount(p)' = UsedCount(p) /\ \A i : Ev(p, i)' = Ev(p, i)
  BY <1>1 DEF Given, Heads, Used, UsedCount, Ev
<1>6. LatestUsed'
  <2>1. ASSUME NEW p \in Sources
        PROVE  latest'[p] = IF UsedCount(p)' = 0 THEN {} ELSE {[index |-> given'[p][UsedCount(p)'], port |-> p, nth |-> UsedCount(p)' - 1]}
    BY <1>1, <1>5 DEF JoinParts, LatestUsed, Ev
  <2> QED BY <2>1 DEF LatestUsed, Ev
<1>7. UsedBelow' /\ DueRight' /\ RowRight'
  BY <1>1, <1>4, <1>5 DEF JoinParts, UsedBelow, DueRight, RowRight
<1>8. RowsShown'
  <2>1. ASSUME NEW t \in Times
        PROVE  IsShown(t) <=> \/ \E i \in 1 .. Len(out') : out'[i].index = t
                              \/ \E d \in due : d.index = t
    <3>1. IsShown(t) <=> \/ \E i \in 1 .. Len(out) : out[i].index = t
                         \/ r.index = t \/ \E d \in due : d.index = t
      BY <1>1 DEF JoinParts, RowsShown
    <3>2. (\E i \in 1 .. Len(out') : out'[i].index = t) <=> (\E i \in 1 .. Len(out) : out[i].index = t) \/ r.index = t
      <4>1. Len(out) + 1 \in 1 .. Len(out') /\ 1 .. Len(out) \subseteq 1 .. Len(out')
        BY <1>2
      <4> QED BY <1>2, <1>3, <4>1
    <3> QED BY <3>1, <3>2
  <2>2. \A t : IsShown(t)' = IsShown(t)
    BY <1>5 DEF IsShown
  <2> QED BY <1>1, <1>4, <2>1, <2>2 DEF RowsShown
<1>9. RowsInOrder' /\ RowTypes'
  BY <1>1, <1>2, <1>3, <1>4 DEF JoinParts, RowsInOrder, RowTypes
<1>10. NoneDue'
  BY <1>1, <1>5 DEF JoinParts, NoneDue, Ended
<1> QED BY <1>6, <1>7, <1>8, <1>9, <1>10 DEF JoinParts

LEMMA JoiningInv ==
  ASSUME IInv, Joining, [Next]_vars
  PROVE  Joining'
<1> SUFFICES ASSUME form = "join", Begun' PROVE JoinParts'
  BY DataSteps DEF Joining
<1>1. CASE Begin
  BY <1>1, JoinBegin
<1>2. CASE ~Begin
  <2>1. Begun /\ JoinParts
    <3>1. CASE Begun
      BY <3>1 DEF Joining
    <3>2. CASE ~Begun
      BY <1>2, <3>2, DataSteps DEF Pull, Give, MergeRow, JoinRow, JoinLast, ZipRow, Yield, Awaited, Ready, Running, Begun
    <3> QED BY <3>1, <3>2
  <2>2. CASE UNCHANGED stillVars
    <3>1. Ended \subseteq Ended'
      <4>1. \A p \in Sources, t \in Indexes : Give(p, t) => Ended' = Ended
        BY GiveFloor
      <4>2. \A p \in Sources : EndSource(p) => Ended \subseteq Ended'
        BY EndFloor
      <4>3. Yield => Ended' = Ended
        BY DEF Yield, sourceVars, Ended
      <4> QED BY <4>1, <4>2, <4>3, StreamSteps
    <3> QED BY <2>1, <2>2, <3>1, JoinStill
  <2>3. ASSUME NEW p \in Sources, Pull(p) PROVE UNCHANGED stillVars
    BY <2>3 DEF Pull, stillVars, kindVars
  <2>4. ASSUME NEW p \in Sources, NEW t \in Indexes, Give(p, t) PROVE JoinParts'
    BY <2>1, <2>4, JoinGive
  <2>5. CASE JoinRow
    <3>1. CASE \E p \in Sources : WhenAll /\ latest'[p] = {}
      <4>1. UNCHANGED <<rows, due>>
        BY <2>1, <2>5, <3>1, JoinRowFacts
      <4> QED BY <2>1, <2>5, <3>1, <4>1, JoinRowWaits
    <3>2. CASE ~ \E p \in Sources : WhenAll /\ latest'[p] = {}
      BY <2>1, <2>5, <3>2, JoinRowHolds
    <3> QED BY <3>1, <3>2
  <2>6. CASE JoinLast \/ Yield
    BY <2>1, <2>6, JoinEnds, JoinYield
  <2>7. ~MergeRow /\ ~ZipRow
    BY DEF MergeRow, ZipRow
  <2> QED BY <1>2, <2>2, <2>3, <2>4, <2>5, <2>6, <2>7, DataSteps
<1> QED BY <1>1, <1>2

\* The join's streams as the abstract specification sees them.
Taken == {WithVal(e) : e \in Given}
Shown(s) == [i \in 1 .. Len(s) |-> RowWithVal(s[i])]

LEMMA TakenCount ==
  ASSUME TypeInv, NEW p \in Sources
  PROVE  Cardinality({e \in Taken : e.port = p}) = Len(given[p])
<1> DEFINE S == {e \in Taken : e.port = p}
           n == Len(given[p])
           f == [i \in 1 .. n |-> WithVal(Ev(p, i))]
<1>1. n \in Nat
  BY DEF TypeInv
<1>2. \A q \in Sources : \A i \in 1 .. Len(given[q]) : WithVal(Ev(q, i)).port = q
  BY DEF Ev, WithVal
<1>3. \A i \in 1 .. n : WithVal(Ev(p, i)) \in S
  BY <1>2, GivenMember DEF Taken
<1>4. \A e \in S : \E i \in 1 .. n : e = WithVal(Ev(p, i))
  BY <1>2, GivenMember DEF Taken
<1>5. \A i, j \in 1 .. n : WithVal(Ev(p, i)) = WithVal(Ev(p, j)) => i = j
  BY DEF Ev, WithVal
<1> HIDE DEF S, n
<1>6. f \in Bijection(1 .. n, S)
  <2>1. f \in [1 .. n -> S]
    BY <1>3
  <2>2. f \in Injection(1 .. n, S)
    BY <2>1, <1>5 DEF Injection, IsInjective
  <2>3. f \in Surjection(1 .. n, S)
    BY <2>1, <1>4 DEF Surjection
  <2> QED BY <2>2, <2>3 DEF Bijection
<1>7. IsFiniteSet(1 .. n) /\ Cardinality(1 .. n) = n
  BY <1>1, FS_Interval
<1>8. Cardinality(S) = Cardinality(1 .. n)
  BY <1>6, <1>7, FS_Bijection DEF ExistsBijection
<1> QED BY <1>7, <1>8 DEF S, n

\* A source's last event is the same in both.
LEMMA LatestTaken ==
  ASSUME form = "join", NEW p, NEW t
  PROVE  Aligned!Latest(p, t) = {WithVal(e) : e \in LastAt(p, t)}
<1>1. Aligned!Upto(p, t) = {x \in Taken : x.port = p /\ x.index <= t}
  BY DEF Aligned!Upto, Taken
<1>2. \A e : WithVal(e).port = e.port /\ WithVal(e).index = e.index /\ WithVal(e).nth = e.nth
  BY DEF WithVal
<1>3. \A x \in Taken : \E e \in Given : x = WithVal(e)
  BY DEF Taken
<1>4. \A e \in Given : WithVal(e) \in Taken
  BY DEF Taken
<1> QED BY <1>1, <1>2, <1>3, <1>4 DEF Aligned!Latest, LastAt

\* Below the row that goes out every event was used.
LEMMA UsedUpto ==
  ASSUME IInv, JoinParts, at = "run", NEW r \in Rng(rows), r.index \in Times,
         NEW e \in Given, e.index <= r.index
  PROVE  e \in Used
<1>1. Begun
  BY DEF Begun
<1>2. SUFFICES ASSUME e \in Heads PROVE FALSE
  BY DEF Used
<1>3. PICK p \in Sources : heads[p] # {} /\ e = Newest(p)
  BY <1>1, <1>2, HeadsNewest
<1>4. src[p] = "open"
  BY <1>1, <1>3 DEF IInv, Pulling
<1>5. r.index < e.index
  BY <1>3, <1>4 DEF JoinParts, RowRight, Newest
<1>6. e.index \in Times
  BY <1>1, UsedFacts
<1> QED BY <1>5, <1>6 DEF Times

\* A row that goes out is the next of the join, and final.
LEMMA JoinDelivers ==
  ASSUME IInv, Joining, form = "join", Yield
  PROVE  \E t \in Times :
           /\ Aligned!IsRow(t) /\ Aligned!Final(t)
           /\ \A i \in 1 .. Len(out) : out[i].index < t
           /\ \A u \in Times : u < t /\ Aligned!IsRow(u) => \E i \in 1 .. Len(out) : out[i].index = u
           /\ Shown(out') = Append(Shown(out), Aligned!RowAt(t))
<1> DEFINE r == rows[1]
<1>1. /\ Begun /\ at = "run" /\ Rng(rows) = {r} /\ out' = Append(out, r)
      /\ out \in Seq(PEvent \cup HeldRow \cup PerSource)
  BY YieldRow DEF Yield
<1> HIDE DEF r
<1>2. JoinParts /\ r \in HeldRow
  BY <1>1 DEF Joining, JoinParts, RowTypes
<1>3. r.index \in Times
  BY <1>2 DEF HeldRow
<1>4. IsShown(r.index)
  BY <1>1, <1>2, <1>3 DEF JoinParts, RowsShown
<1>5. Aligned!Ports = Sources
  BY DEF Aligned!Ports, Sources
<1>6. PICK u \in Used : u.index = r.index
  BY <1>4 DEF IsShown
<1>7. Aligned!IsRow(r.index)
  <2>1. \E e \in Taken : e.index = r.index
    <3>1. WithVal(u) \in Taken /\ WithVal(u).index = r.index
      BY <1>1, <1>6, UsedFacts DEF Taken, WithVal
    <3> QED BY <3>1
  <2>2. ASSUME WhenAll, NEW p \in Sources PROVE Aligned!Latest(p, r.index) # {}
    <3>1. LastAt(p, r.index) # {}
      BY <1>1, <1>2, <2>2 DEF JoinParts, RowRight
    <3>2. Aligned!Latest(p, r.index) = {WithVal(e) : e \in LastAt(p, r.index)}
      BY LatestTaken
    <3> QED BY <3>1, <3>2
  <2> QED BY <1>5, <2>1, <2>2 DEF Aligned!IsRow, Aligned!Passes, Taken
<1>8. Aligned!Final(r.index)
  <2>1. ASSUME NEW p \in Sources, p \notin Ended PROVE r.index < Floor[p]
    <3>1. src[p] # "ended"
      BY <2>1 DEF Ended
    <3>2. given[p] # <<>> /\ r.index < given[p][Len(given[p])]
      BY <1>1, <1>2, <1>6, <3>1 DEF JoinParts, RowRight, UsedBelow
    <3> QED BY <2>1, <3>2, FloorFacts
  <2> QED BY <1>5, <2>1 DEF Aligned!Final
<1>9. \A i \in 1 .. Len(out) : out[i].index < r.index
  BY <1>1, <1>2 DEF JoinParts, RowsInOrder
<1>10. ASSUME NEW t \in Times, t < r.index, Aligned!IsRow(t)
       PROVE  \E i \in 1 .. Len(out) : out[i].index = t
  <2>1. \A e \in Given : e.index <= t => e \in Used
    <3>1. ASSUME NEW e \in Given, e.index <= t PROVE e \in Used
      <4>1. e.index \in Times
        BY <1>1, UsedFacts
      <4>2. e.index <= r.index
        BY <1>3, <1>10, <3>1, <4>1 DEF Times
      <4> QED BY <1>1, <1>2, <1>3, <4>2, UsedUpto
    <3> QED BY <3>1
  <2>2. IsShown(t)
    <3>1. \E v \in Used : v.index = t
      <4>1. PICK x \in Taken : x.index = t
        BY <1>10 DEF Aligned!IsRow, Taken
      <4>2. PICK e \in Given : x = WithVal(e)
        BY DEF Taken
      <4>3. e.index = t /\ t <= t
        BY <4>1, <4>2 DEF WithVal, Times
      <4> QED BY <2>1, <4>3
    <3>2. ASSUME WhenAll, NEW p \in Sources PROVE \E v \in Used : v.port = p /\ v.index <= t
      <4>1. Aligned!Latest(p, t) # {}
        BY <1>5, <1>10, <3>2 DEF Aligned!IsRow
      <4>2. LastAt(p, t) # {}
        BY <4>1, LatestTaken
      <4> QED BY <2>1, <4>2 DEF LastAt
    <3> QED BY <3>1, <3>2 DEF IsShown
  <2>3. ~ t = r.index /\ \A d \in due : d.index # t
    <3>1. \A d \in due : r.index < d.index /\ d.index \in Times
      BY <1>1, <1>2 DEF JoinParts, RowsInOrder, IInv, TypeInv, HeldRow
    <3> QED BY <1>3, <1>10, <3>1 DEF Times
  <2> QED BY <1>1, <1>2, <2>2, <2>3 DEF JoinParts, RowsShown
<1>11. Shown(out') = Append(Shown(out), Aligned!RowAt(r.index))
  <2>1. RowWithVal(r) = Aligned!RowAt(r.index)
    <3>1. ASSUME NEW p \in Sources PROVE {WithVal(e) : e \in r.latest[p]} = Aligned!Latest(p, r.index)
      <4>1. r.latest[p] = LastAt(p, r.index)
        BY <1>1, <1>2 DEF JoinParts, RowRight
      <4> QED BY <4>1, LatestTaken
    <3> QED BY <1>5, <3>1 DEF RowWithVal, Aligned!RowAt
  <2>2. /\ Len(out) \in Nat /\ Len(out') = Len(out) + 1 /\ out'[Len(out) + 1] = r
        /\ \A i \in 1 .. Len(out) : out'[i] = out[i]
    BY <1>1
  <2>3. Append(Shown(out), RowWithVal(r)) =
          [i \in 1 .. Len(out) + 1 |-> IF i = Len(out) + 1 THEN RowWithVal(r) ELSE RowWithVal(out[i])]
    <3> DEFINE n == Len(out)
    <3> HIDE DEF n
    <3>1. n \in Nat
      BY <2>2 DEF n
    <3>2. ASSUME NEW f, f = [i \in 1 .. n |-> RowWithVal(out[i])], NEW x
          PROVE  Append(f, x) = [i \in 1 .. n + 1 |-> IF i = n + 1 THEN x ELSE RowWithVal(out[i])]
      <4>1. Len(f) = n
        BY <3>1, <3>2
      <4> QED BY <3>1, <3>2, <4>1
    <3> QED BY <3>2 DEF n, Shown
  <2>4. Shown(out') = [i \in 1 .. Len(out) + 1 |-> IF i = Len(out) + 1 THEN RowWithVal(r) ELSE RowWithVal(out[i])]
    BY <2>2 DEF Shown
  <2> QED BY <2>1, <2>3, <2>4
<1> QED BY <1>3, <1>7, <1>8, <1>9, <1>10, <1>11

LEMMA AlignedInit == Init => Aligned!SInit
<1> SUFFICES ASSUME Init PROVE Aligned!SInit
  OBVIOUS
<1>1. Given = {} /\ out = <<>> /\ Ended = {}
  BY GivenMember DEF Init, Ended
<1>2. Floor = [p \in Sources |-> kMin]
  BY <1>1 DEF Init, Floor
<1>3. {WithVal(e) : e \in Given} = {} /\ [i \in 1 .. Len(out) |-> RowWithVal(out[i])] = <<>>
  BY <1>1
<1> QED BY <1>1, <1>2, <1>3 DEF Aligned!SInit, Aligned!Ports, Sources

LEMMA AlignedNext ==
  ASSUME IInv, Joining, [Next]_vars
  PROVE  [Aligned!SNext]_Aligned!streamVars
<1>1. form' = form
  BY DataSteps
<1>2. CASE form # "join"
  BY <1>1, <1>2 DEF Aligned!streamVars
<1>3. ASSUME form = "join", UNCHANGED <<given, out>>, Ended' = Ended
      PROVE  UNCHANGED Aligned!streamVars
  <2>1. Given' = Given /\ Floor' = Floor
    BY <1>3 DEF Given, Floor
  <2>2. Taken' = Taken /\ Shown(out)' = Shown(out)
    BY <1>3, <2>1 DEF Taken, Shown, WithVal, RowWithVal
  <2> QED BY <1>1, <1>3, <2>1, <2>2 DEF Aligned!streamVars, Taken, Shown
<1>4. ASSUME form = "join", NEW p \in Sources, NEW t \in Indexes, Give(p, t)
      PROVE  Aligned!Offer(p)
  <2>1. /\ p \notin Ended /\ Ended' = Ended /\ t \in Aligned!Index /\ Floor[p] <= t
        /\ Floor' = [Floor EXCEPT ![p] = t] /\ out' = out
    BY <1>4, GiveFloor DEF Aligned!Index, Times
  <2>2. Taken' = Taken \cup {[index |-> t, port |-> p, nth |-> Aligned!Sent(p), val |-> 0]}
    <3>1. Given' = Given \cup {EventOf(p, t)}
      BY <1>4, NewGiven DEF IInv
    <3>2. Taken' = Taken \cup {WithVal(EventOf(p, t))}
      BY <3>1 DEF Taken, WithVal
    <3>3. Cardinality({e \in Taken : e.port = p}) = Len(given[p])
      BY TakenCount DEF IInv
    <3>4. Aligned!Cardinality({e \in Taken : e.port = p}) = Cardinality({e \in Taken : e.port = p})
      BY Zenon DEF Aligned!Cardinality, Cardinality
    <3>5. Aligned!Sent(p) = Len(given[p])
      BY <1>4, <3>3, <3>4 DEF Aligned!Sent, Taken
    <3> QED BY <3>2, <3>5 DEF WithVal, EventOf
  <2>3. Shown(out)' = Shown(out)
    BY <2>1 DEF Shown, RowWithVal, WithVal
  <2> QED BY <1>1, <1>4, <2>1, <2>2, <2>3 DEF Aligned!Offer, Taken, Shown
<1>5. ASSUME form = "join", NEW p \in Sources, EndSource(p)
      PROVE  Aligned!End({p})
  <2>1. /\ Ended' = Ended \cup {p} /\ UNCHANGED <<given, out>>
        /\ Floor' = [q \in Sources |-> IF q = p THEN kMax ELSE Floor[q]]
    BY <1>5, EndFloor
  <2>2. Taken' = Taken /\ Shown(out)' = Shown(out)
    BY <2>1 DEF Taken, Shown, WithVal, RowWithVal, Given
  <2> QED BY <1>1, <1>5, <2>1, <2>2 DEF Aligned!End, Aligned!Ports, Sources, Taken, Shown
<1>6. ASSUME form = "join", Yield
      PROVE  Aligned!Deliver
  <2>1. PICK t \in Times :
          /\ Aligned!IsRow(t) /\ Aligned!Final(t)
          /\ \A i \in 1 .. Len(out) : out[i].index < t
          /\ \A u \in Times : u < t /\ Aligned!IsRow(u) => \E i \in 1 .. Len(out) : out[i].index = u
          /\ Shown(out') = Append(Shown(out), Aligned!RowAt(t))
    BY <1>6, JoinDelivers
  <2>2. Len(out) \in Nat
    BY DEF IInv, TypeInv
  <2>3. Len(Shown(out)) = Len(out) /\ \A i \in 1 .. Len(out) : Shown(out)[i].index = out[i].index
    <3>1. Len(Shown(out)) = Len(out)
      BY <2>2 DEF Shown
    <3> QED BY <3>1 DEF Shown, RowWithVal
  <2>4. Aligned!Emitted = {Shown(out)[i].index : i \in 1 .. Len(Shown(out))}
    BY <1>6 DEF Aligned!Emitted, Shown
  <2>5. UNCHANGED <<given, src>>
    BY <1>6 DEF Yield, sourceVars
  <2>6. Taken' = Taken /\ Ended' = Ended /\ Floor' = Floor
    BY <2>5 DEF Given, Taken, WithVal, Ended, Floor
  <2>7. Shown(out)' = Shown(out')
    BY DEF Shown, RowWithVal, WithVal
  <2>8. Aligned!Index = Times
    BY DEF Aligned!Index, Times
  <2>9. Aligned!IsRow(t) /\ Aligned!Final(t) /\ t \in Aligned!Index
    BY <2>1, <2>8
  <2>10. /\ \A u \in Aligned!Emitted : u < t
         /\ \A u \in Aligned!Index : u < t /\ Aligned!IsRow(u) => u \in Aligned!Emitted
    BY <2>1, <2>3, <2>4, <2>8
  <2>11. Shown(out)' = Append(Shown(out), Aligned!RowAt(t))
    BY <2>1, <2>7
  <2> QED BY <1>1, <1>6, <2>6, <2>9, <2>10, <2>11 DEF Aligned!Deliver, Taken, Shown
<1> QED
  <2>1. Aligned!Ports = Sources
    BY DEF Aligned!Ports, Sources
  <2>2. \A p \in Sources : {p} \in SUBSET Aligned!Ports
    BY <2>1
  <2> QED BY <1>2, <1>3, <1>4, <1>5, <1>6, <2>1, <2>2, StreamSteps DEF Aligned!SNext

LEMMA JoiningInit == Init => Joining
BY DEF Init, Joining, Begun

\* The join of indexed iterators delivers the rows of the as-of join, those that
\* the join in C++ emits: one row per index, of every source's last event, once
\* no source may still send one at or below it.
THEOREM JoinsAsOf == Spec => JoinImplements
<1>1. IInv /\ Joining /\ [Next]_vars => IInv' /\ Joining'
  BY NextInv, JoiningInv
<1>2. Init => IInv /\ Joining
  BY InitInv, JoiningInit
<1>3. IInv /\ Joining /\ [Next]_vars => [Aligned!SNext]_Aligned!streamVars
  BY AlignedNext
<1> QED BY <1>1, <1>2, <1>3, AlignedInit, PTL DEF Spec, JoinImplements, Aligned!AlignedSpec

=============================================================================
