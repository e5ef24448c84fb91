---------------------------- MODULE RuntimeProofs ----------------------------
(***************************************************************************)
(* Proofs about what runs on WASM objects in the JavaScript package, for   *)
(* every number of sessions, lazy runs and streams, every depth of calls   *)
(* within calls and every bound on the events.                             *)
(***************************************************************************)
EXTENDS MCRuntime, WellFoundedInduction, TLAPS

-----------------------------------------------------------------------------
(* A Pipeline and its runs: the types of the state.                        *)

Stages == {"none", "created", "running", "yielding", "flushed", "live", "disposed", "over"}

PipeType ==
  /\ kind \in PipeKinds
  /\ pipe \in {"none", "open", "disposed", "collected"}
  /\ run \in [P!Runs -> Stages]
  /\ engine \in [P!Engines -> {"none", "open", "released"}]
  /\ deletes \in [P!Engines -> Nat]
  /\ sessions \subseteq P!Runs
  /\ close \in [P!Runs -> BOOLEAN]
  /\ DOMAIN fed = P!Engines
  /\ kept \subseteq P!Engines

\* An engine is made once, when its run starts: before that the run has none.
\* The callable Pipeline is the user's only if the user made it.
Made ==
  /\ pipe = "none" =>
       /\ kept = {} /\ \A e \in P!Engines : engine[e] = "none"
       /\ \A e \in P!Runs : run[e] = "none"
  /\ pipe = "open" => engine[P!Batch] = "open"
  /\ \A e \in P!Runs : run[e] = "created" => engine[e] = "none"
  /\ P!Callable \in kept => kind = "pipeline" /\ \A e \in P!Runs : run[e] = "none" => engine[e] = "none"
  /\ kind = "iterators" => \A e \in P!Runs \ {1} : engine[e] = "none" /\ run[e] = "none"

PipeInv == PipeType /\ Made /\ P!ReleasedOnce /\ P!HeldStaysOpen

LEMMA PipeConstants ==
  /\ P!Batch \in P!Engines /\ P!Batch \notin P!Runs
  /\ P!Runs \subseteq P!Engines /\ 1 \in P!Runs /\ P!Engines = {P!Batch} \cup P!Runs
  /\ P!Callable = P!Batch
BY SessionAssumption DEF P!BoundAssumption, P!Batch, P!Engines, P!Runs, P!Callable

\* What an invariant needs of a step that keeps the account of the engines.
Accounted ==
  /\ engine' \in [P!Engines -> {"none", "open", "released"}]
  /\ deletes' \in [P!Engines -> Nat] /\ sessions' \subseteq P!Runs
  /\ sessions' = {d \in P!Runs : engine'[d] = "open"}
  /\ \A d \in P!Engines : deletes'[d] = IF engine'[d] = "released" THEN 1 ELSE 0

\* Engine.release: what was open is deleted, once, and leaves the set.
LEMMA Released ==
  ASSUME PipeType, P!ReleasedOnce, NEW es \in SUBSET P!Engines, P!Release(es)
  PROVE  /\ engine' \in [P!Engines -> {"none", "open", "released"}]
         /\ deletes' \in [P!Engines -> Nat] /\ sessions' \subseteq P!Runs
         /\ sessions' = {e \in P!Runs : engine'[e] = "open"}
         /\ \A e \in P!Engines : deletes'[e] = IF engine'[e] = "released" THEN 1 ELSE 0
         /\ \A e \in P!Engines :
              engine'[e] = IF engine[e] = "open" /\ e \in es THEN "released" ELSE engine[e]
<1>1. \A e \in P!Engines : e \in P!ToRelease(es) <=> e \in es /\ engine[e] = "open"
  BY DEF P!ToRelease
<1>2. \A e \in P!Engines :
        engine'[e] = IF engine[e] = "open" /\ e \in es THEN "released" ELSE engine[e]
  BY <1>1 DEF P!Release
<1>3. engine' \in [P!Engines -> {"none", "open", "released"}] /\ deletes' \in [P!Engines -> Nat]
  BY DEF P!Release, PipeType
<1>4. \A e \in P!Engines : deletes'[e] = IF engine'[e] = "released" THEN 1 ELSE 0
  BY <1>1, <1>2 DEF P!Release, P!ReleasedOnce
<1>5. sessions' = sessions \ P!ToRelease(es)
  BY DEF P!Release
<1>6. \A e \in P!Runs : e \in sessions' <=> engine'[e] = "open"
  BY <1>1, <1>2, <1>5, PipeConstants DEF P!ReleasedOnce
<1> QED BY <1>2, <1>3, <1>4, <1>5, <1>6 DEF PipeType

\* compile: the engines that are made had not been made before.
LEMMA CompiledOnce ==
  ASSUME PipeType, P!ReleasedOnce, NEW es \in SUBSET P!Engines, P!Compiled(es),
         \A e \in es : engine[e] = "none"
  PROVE  /\ engine' \in [P!Engines -> {"none", "open", "released"}]
         /\ deletes' \in [P!Engines -> Nat] /\ sessions' \subseteq P!Runs
         /\ sessions' = {e \in P!Runs : engine'[e] = "open"}
         /\ \A e \in P!Engines : deletes'[e] = IF engine'[e] = "released" THEN 1 ELSE 0
         /\ \A e \in P!Engines : engine'[e] = IF e \in es THEN "open" ELSE engine[e]
<1>1. /\ engine' = [e \in P!Engines |-> IF e \in es THEN "open" ELSE engine[e]]
      /\ sessions' = sessions \cup (es \ {P!Batch}) /\ deletes' = deletes
  BY DEF P!Compiled
<1>2. \A e \in P!Engines : deletes'[e] = IF engine'[e] = "released" THEN 1 ELSE 0
  BY <1>1 DEF P!ReleasedOnce
<1>3. sessions' \subseteq P!Runs /\ \A e \in P!Runs : e \in sessions' <=> engine'[e] = "open"
  BY <1>1, PipeConstants DEF PipeType, P!ReleasedOnce
<1> QED BY <1>1, <1>2, <1>3 DEF PipeType

LEMMA CompileFailsOnce ==
  ASSUME PipeType, P!ReleasedOnce, NEW es \in SUBSET {P!Batch}, NEW e \in P!Engines, e \notin es,
         P!CompileFails(es, e), \A d \in P!Engines : d = e \/ d \in es => engine[d] = "none"
  PROVE  /\ Accounted
         /\ \A d \in P!Engines :
              engine'[d] = IF d = e THEN "released" ELSE IF d \in es THEN "open" ELSE engine[d]
<1>1. /\ engine' = [d \in P!Engines |->
                      IF d = e THEN "released" ELSE IF d \in es THEN "open" ELSE engine[d]]
      /\ deletes' = [deletes EXCEPT ![e] = @ + 1] /\ sessions' = sessions
  BY DEF P!CompileFails
<1>2. deletes[e] = 0
  BY DEF P!ReleasedOnce
<1>3. \A d \in P!Engines : deletes'[d] = IF engine'[d] = "released" THEN 1 ELSE 0
  BY <1>1, <1>2 DEF P!ReleasedOnce, PipeType
<1>4. \A d \in P!Runs : d \in sessions' <=> engine'[d] = "open"
  BY <1>1, PipeConstants DEF P!ReleasedOnce
<1> QED BY <1>1, <1>2, <1>3, <1>4 DEF PipeType, Accounted

LEMMA CompileFailsAlone ==
  ASSUME PipeType, P!ReleasedOnce, NEW e \in P!Engines, P!CompileFails({}, e), engine[e] = "none"
  PROVE  /\ Accounted
         /\ \A d \in P!Engines : engine'[d] = IF d = e THEN "released" ELSE engine[d]
<1>1. /\ {} \in SUBSET {P!Batch} /\ e \notin {}
      /\ \A d \in P!Engines : d = e \/ d \in {} => engine[d] = "none"
  OBVIOUS
<1>2. /\ Accounted
      /\ \A d \in P!Engines :
           engine'[d] = IF d = e THEN "released" ELSE IF d \in {} THEN "open" ELSE engine[d]
  BY <1>1, CompileFailsOnce, Zenon
<1> QED BY <1>2

\* When the Pipeline lets go of all engines, none is open any more.
LEMMA AllReleased ==
  ASSUME PipeType, P!ReleasedOnce, NEW es \in SUBSET P!Engines, P!Release(P!OfPipe \cup es)
  PROVE  \A e \in P!Engines : engine'[e] # "open"
<1>1. P!OfPipe \cup es \in SUBSET P!Engines
  BY PipeConstants DEF P!OfPipe, PipeType
<1>2. \A e \in P!Engines : engine[e] = "open" => e \in P!OfPipe
  BY PipeConstants DEF P!OfPipe, P!ReleasedOnce
<1> QED BY <1>1, <1>2, Released DEF PipeType

-----------------------------------------------------------------------------
(* The calls that end runs and release engines.                            *)

\* The generator of a run is over.
LEMMA EndPipe ==
  ASSUME PipeInv, NEW e \in P!Runs, run[e] # "none", P!End(e), UNCHANGED <<kind, fed, kept>>
  PROVE  PipeInv'
<1>1. /\ run' = [run EXCEPT ![e] = "over"] /\ close' = [close EXCEPT ![e] = FALSE]
      /\ IF kind = "iterators" /\ pipe = "open"
           THEN pipe' = "disposed" /\ P!Release(P!OfPipe \cup {e})
           ELSE pipe' = pipe /\ P!Release({e})
  BY DEF P!End
<1>2. {e} \in SUBSET P!Engines /\ P!OfPipe \cup {e} \in SUBSET P!Engines /\ e # P!Batch
  BY PipeConstants DEF P!OfPipe, PipeInv, PipeType
<1>3. PICK es \in SUBSET P!Engines : P!Release(es)
  BY <1>1, <1>2
<1>4. /\ engine' \in [P!Engines -> {"none", "open", "released"}]
      /\ deletes' \in [P!Engines -> Nat] /\ sessions' \subseteq P!Runs
      /\ sessions' = {d \in P!Runs : engine'[d] = "open"}
      /\ \A d \in P!Engines : deletes'[d] = IF engine'[d] = "released" THEN 1 ELSE 0
      /\ \A d \in P!Engines : engine'[d] = engine[d] \/ (engine[d] = "open" /\ engine'[d] = "released")
  BY <1>3, Released DEF PipeInv
<1>5. PipeType'
  BY <1>1, <1>4 DEF PipeInv, PipeType, Stages
<1>6. CASE kind = "iterators" /\ pipe = "open"
  <2>1. \A d \in P!Engines : engine'[d] # "open"
    BY <1>1, <1>2, <1>6, AllReleased DEF PipeInv
  <2>2. P!ReleasedOnce' /\ P!HeldStaysOpen'
    BY <1>1, <1>4, <1>6, <2>1 DEF P!ReleasedOnce, P!HeldStaysOpen
  <2>3. Made'
    BY <1>1, <1>4, <1>6, PipeConstants DEF PipeInv, PipeType, Made
  <2> QED BY <1>5, <2>2, <2>3 DEF PipeInv
<1>7. CASE ~(kind = "iterators" /\ pipe = "open")
  <2>1. /\ pipe' = pipe
        /\ \A d \in P!Engines : engine'[d] = IF engine[d] = "open" /\ d \in {e} THEN "released" ELSE engine[d]
    BY <1>1, <1>2, <1>7, Released DEF PipeInv
  <2>2. P!ReleasedOnce'
    BY <1>4, <2>1 DEF PipeInv, P!ReleasedOnce
  <2>3. P!HeldStaysOpen'
    BY <1>1, <2>1, PipeConstants DEF PipeInv, PipeType, P!HeldStaysOpen
  <2>4. Made'
    BY <1>1, <1>2, <2>1, PipeConstants DEF PipeInv, PipeType, Made
  <2> QED BY <1>5, <2>2, <2>3, <2>4 DEF PipeInv
<1> QED BY <1>6, <1>7

LEMMA DisposeSessionPipe ==
  ASSUME PipeInv, NEW e \in P!Runs, P!DisposeSession(e)
  PROVE  PipeInv'
<1>1. /\ run[e] = "live" /\ run' = [run EXCEPT ![e] = "disposed"]
      /\ IF kind = "loaded" /\ pipe = "open"
           THEN pipe' = "disposed" /\ P!Release(P!OfPipe \cup {e})
           ELSE pipe' = pipe /\ P!Release({e})
      /\ UNCHANGED <<kind, close, fed, kept>>
  BY DEF P!DisposeSession
<1>2. {e} \in SUBSET P!Engines /\ P!OfPipe \cup {e} \in SUBSET P!Engines /\ e # P!Batch
  BY PipeConstants DEF P!OfPipe, PipeInv, PipeType
<1>3. PICK es \in SUBSET P!Engines : P!Release(es)
  BY <1>1, <1>2
<1>4. /\ engine' \in [P!Engines -> {"none", "open", "released"}]
      /\ deletes' \in [P!Engines -> Nat] /\ sessions' \subseteq P!Runs
      /\ sessions' = {d \in P!Runs : engine'[d] = "open"}
      /\ \A d \in P!Engines : deletes'[d] = IF engine'[d] = "released" THEN 1 ELSE 0
      /\ \A d \in P!Engines : engine'[d] = engine[d] \/ (engine[d] = "open" /\ engine'[d] = "released")
  BY <1>3, Released DEF PipeInv
<1>5. PipeType'
  BY <1>1, <1>4 DEF PipeInv, PipeType, Stages
<1>6. CASE kind = "loaded" /\ pipe = "open"
  <2>1. \A d \in P!Engines : engine'[d] # "open"
    BY <1>1, <1>2, <1>6, AllReleased DEF PipeInv
  <2>2. P!ReleasedOnce' /\ P!HeldStaysOpen'
    BY <1>1, <1>4, <1>6, <2>1 DEF P!ReleasedOnce, P!HeldStaysOpen
  <2>3. Made'
    BY <1>1, <1>4, <1>6, PipeConstants DEF PipeInv, PipeType, Made
  <2> QED BY <1>1, <1>5, <2>2, <2>3 DEF PipeInv
<1>7. CASE ~(kind = "loaded" /\ pipe = "open")
  <2>1. /\ pipe' = pipe
        /\ \A d \in P!Engines : engine'[d] = IF engine[d] = "open" /\ d \in {e} THEN "released" ELSE engine[d]
    BY <1>1, <1>2, <1>7, Released DEF PipeInv
  <2>2. P!ReleasedOnce'
    BY <1>4, <2>1 DEF PipeInv, P!ReleasedOnce
  <2>3. P!HeldStaysOpen'
    BY <1>1, <2>1, PipeConstants DEF PipeInv, PipeType, P!HeldStaysOpen
  <2>4. Made'
    BY <1>1, <1>2, <2>1, PipeConstants DEF PipeInv, PipeType, Made
  <2> QED BY <1>1, <1>5, <2>2, <2>3, <2>4 DEF PipeInv
<1> QED BY <1>6, <1>7

\* dispose() of the Pipeline, and its finalizer: no driver that the user holds
\* is left when it runs.
LEMMA ReleasePipe ==
  ASSUME PipeInv, P!DisposePipe \/ P!FinalizePipe
  PROVE  PipeInv'
<1>1. /\ pipe = "open" /\ pipe' \in {"disposed", "collected"} /\ P!Release(P!OfPipe)
      /\ UNCHANGED <<kind, run, close, fed, kept>>
  BY DEF P!DisposePipe, P!FinalizePipe
<1>2. P!OfPipe \in SUBSET P!Engines /\ P!OfPipe = P!OfPipe \cup {}
  BY PipeConstants DEF P!OfPipe, PipeInv, PipeType
<1>3. /\ engine' \in [P!Engines -> {"none", "open", "released"}]
      /\ deletes' \in [P!Engines -> Nat] /\ sessions' \subseteq P!Runs
      /\ sessions' = {d \in P!Runs : engine'[d] = "open"}
      /\ \A d \in P!Engines : deletes'[d] = IF engine'[d] = "released" THEN 1 ELSE 0
      /\ \A d \in P!Engines : engine'[d] = engine[d] \/ (engine[d] = "open" /\ engine'[d] = "released")
  BY <1>1, <1>2, Released DEF PipeInv
<1>4. \A d \in P!Engines : engine'[d] # "open"
  <2>1. {} \in SUBSET P!Engines
    OBVIOUS
  <2> QED BY <1>1, <1>2, <2>1, AllReleased DEF PipeInv
<1>5. PipeType'
  BY <1>1, <1>3 DEF PipeInv, PipeType
<1>6. P!ReleasedOnce'
  BY <1>3, <1>4 DEF P!ReleasedOnce
<1>7. P!HeldStaysOpen'
  <2>1. CASE P!DisposePipe
    BY <1>1, <2>1 DEF P!DisposePipe, P!HeldStaysOpen
  <2>2. CASE P!FinalizePipe
    <3>1. \A e \in P!Runs : e \in kept => run[e] \notin {"live", "running", "yielding", "flushed"}
      BY <2>2 DEF P!FinalizePipe, P!PipeReachable, P!RunReachable, P!Lazy
    <3> QED BY <1>1, <3>1 DEF P!HeldStaysOpen
  <2> QED BY <2>1, <2>2
<1>8. Made'
  BY <1>1, <1>3, PipeConstants DEF PipeInv, PipeType, Made
<1> QED BY <1>1, <1>5, <1>6, <1>7, <1>8 DEF PipeInv

LEMMA FinalizeRunPipe ==
  ASSUME PipeInv, NEW e \in P!Runs, P!FinalizeRun(e)
  PROVE  PipeInv'
<1>1. /\ e \notin kept /\ close' \in {close, [close EXCEPT ![e] = FALSE]} /\ P!Release({e})
      /\ UNCHANGED <<kind, pipe, run, fed, kept>>
  BY DEF P!FinalizeRun, P!RunReachable
<1>2. {e} \in SUBSET P!Engines /\ e # P!Batch
  BY PipeConstants
<1>3. /\ engine' \in [P!Engines -> {"none", "open", "released"}]
      /\ deletes' \in [P!Engines -> Nat] /\ sessions' \subseteq P!Runs
      /\ sessions' = {d \in P!Runs : engine'[d] = "open"}
      /\ \A d \in P!Engines : deletes'[d] = IF engine'[d] = "released" THEN 1 ELSE 0
      /\ \A d \in P!Engines : engine'[d] = IF engine[d] = "open" /\ d \in {e} THEN "released" ELSE engine[d]
  BY <1>1, <1>2, Released DEF PipeInv
<1>4. PipeType'
  BY <1>1, <1>3 DEF PipeInv, PipeType
<1>5. P!ReleasedOnce'
  BY <1>1, <1>3 DEF PipeInv, P!ReleasedOnce
<1>6. P!HeldStaysOpen'
  BY <1>1, <1>3, PipeConstants DEF PipeInv, P!HeldStaysOpen
<1>7. Made'
  BY <1>1, <1>2, <1>3, PipeConstants DEF PipeInv, PipeType, Made
<1> QED BY <1>1, <1>4, <1>5, <1>6, <1>7 DEF PipeInv

-----------------------------------------------------------------------------
(* The calls that make engines, and those that run on them.                *)

\* A Pipeline is made once: before that there is nothing.
LEMMA MakePipe ==
  ASSUME PipeInv, P!Construct \/ P!RunOnce \/ P!RunIterators
  PROVE  PipeInv' /\ P!FedOpen
<1>1. /\ pipe = "none" /\ kept = {} /\ sessions = {}
      /\ \A e \in P!Engines : engine[e] = "none" /\ deletes[e] = 0
      /\ \A e \in P!Runs : run[e] = "none"
      /\ UNCHANGED <<kind, close>>
  <2>1. pipe = "none" /\ UNCHANGED <<kind, close>>
    BY DEF P!Construct, P!RunOnce, P!RunIterators
  <2> QED BY <2>1, PipeConstants DEF PipeInv, PipeType, Made, P!ReleasedOnce
<1>2. {P!Batch} \in SUBSET P!Engines /\ {} \in SUBSET {P!Batch} /\ P!Batch \in P!Engines
  BY PipeConstants
<1>3. CASE P!Construct
  <2>1. kind = "pipeline" /\ UNCHANGED <<run, fed>>
    BY <1>3 DEF P!Construct
  <2>2. CASE pipe' = "open" /\ kept' = {P!Callable} /\ P!Compiled({P!Batch})
    <3>1. Accounted /\ \A e \in P!Engines : engine'[e] = IF e \in {P!Batch} THEN "open" ELSE "none"
      BY <1>1, <1>2, <2>2, CompiledOnce DEF PipeInv, Accounted
    <3>2. PipeType'
      BY <1>1, <2>1, <2>2, <3>1, PipeConstants DEF PipeInv, PipeType, Accounted
    <3>3. Made' /\ P!ReleasedOnce' /\ P!HeldStaysOpen'
      BY <1>1, <2>1, <2>2, <3>1, PipeConstants DEF Made, Accounted, P!ReleasedOnce, P!HeldStaysOpen
    <3> QED BY <2>1, <3>2, <3>3 DEF PipeInv, P!FedOpen
  <2>3. CASE pipe' = "disposed" /\ kept' = kept /\ P!CompileFails({}, P!Batch)
    <3>1. /\ Accounted
          /\ \A e \in P!Engines : engine'[e] = IF e = P!Batch THEN "released" ELSE "none"
      BY <1>1, <1>2, <2>3, CompileFailsAlone DEF PipeInv
    <3>2. PipeType'
      BY <1>1, <2>1, <2>3, <3>1, PipeConstants DEF PipeInv, PipeType, Accounted
    <3>3. Made' /\ P!ReleasedOnce' /\ P!HeldStaysOpen'
      BY <1>1, <2>1, <2>3, <3>1, PipeConstants DEF Made, Accounted, P!ReleasedOnce, P!HeldStaysOpen
    <3> QED BY <2>1, <3>2, <3>3 DEF PipeInv, P!FedOpen
  <2> QED BY <1>3, <2>2, <2>3 DEF P!Construct
<1>4. CASE P!RunOnce
  <2>1. /\ pipe' = "disposed" /\ engine' = [engine EXCEPT ![P!Batch] = "released"]
        /\ deletes' = [deletes EXCEPT ![P!Batch] = @ + 1] /\ kind = "once"
        /\ fed' = [fed EXCEPT ![P!Batch] = 1]
        /\ UNCHANGED <<run, sessions, kept>>
    BY <1>4 DEF P!RunOnce
  <2>2. PipeType'
    BY <1>1, <2>1, PipeConstants DEF PipeInv, PipeType
  <2>3. P!FedOpen
    BY <1>1, <2>1, PipeConstants DEF PipeInv, PipeType, P!FedOpen
  <2>4. Made' /\ P!ReleasedOnce' /\ P!HeldStaysOpen'
    BY <1>1, <2>1, PipeConstants
       DEF PipeInv, PipeType, Made, P!ReleasedOnce, P!HeldStaysOpen
  <2> QED BY <2>2, <2>3, <2>4 DEF PipeInv
<1>5. CASE P!RunIterators
  <2>1. kind = "iterators" /\ UNCHANGED fed
    BY <1>5 DEF P!RunIterators
  <2>2. CASE /\ pipe' = "open" /\ kept' = {1} /\ P!Compiled({P!Batch})
             /\ run' = [run EXCEPT ![1] = "created"]
    <3>1. Accounted /\ \A e \in P!Engines : engine'[e] = IF e \in {P!Batch} THEN "open" ELSE "none"
      BY <1>1, <1>2, <2>2, CompiledOnce DEF PipeInv, Accounted
    <3>2. PipeType'
      <4>1. run' \in [P!Runs -> Stages]
        BY <2>2, PipeConstants DEF PipeInv, PipeType, Stages
      <4>2. kept' \subseteq P!Engines /\ pipe' \in {"none", "open", "disposed", "collected"}
        BY <2>2, PipeConstants
      <4> QED BY <1>1, <2>1, <3>1, <4>1, <4>2 DEF PipeInv, PipeType, Accounted
    <3>3. Made' /\ P!ReleasedOnce' /\ P!HeldStaysOpen'
      BY <1>1, <2>1, <2>2, <3>1, PipeConstants
         DEF PipeInv, PipeType, Made, Accounted, P!ReleasedOnce, P!HeldStaysOpen
    <3> QED BY <2>1, <3>2, <3>3 DEF PipeInv, P!FedOpen
  <2>3. CASE pipe' = "disposed" /\ kept' = kept /\ run' = run /\ P!CompileFails({}, P!Batch)
    <3>1. /\ Accounted
          /\ \A e \in P!Engines : engine'[e] = IF e = P!Batch THEN "released" ELSE "none"
      BY <1>1, <1>2, <2>3, CompileFailsAlone DEF PipeInv
    <3>2. PipeType'
      BY <1>1, <2>1, <2>3, <3>1, PipeConstants DEF PipeInv, PipeType, Accounted
    <3>3. Made' /\ P!ReleasedOnce' /\ P!HeldStaysOpen'
      BY <1>1, <2>1, <2>3, <3>1, PipeConstants DEF Made, Accounted, P!ReleasedOnce, P!HeldStaysOpen
    <3> QED BY <2>1, <3>2, <3>3 DEF PipeInv, P!FedOpen
  <2> QED BY <1>5, <2>2, <2>3 DEF P!RunIterators
<1> QED BY <1>3, <1>4, <1>5

LEMMA LoadsPipe ==
  ASSUME PipeInv, P!Loads
  PROVE  PipeInv' /\ P!FedOpen
<1>1. /\ pipe = "none" /\ kept = {} /\ sessions = {} /\ kind = "loaded"
      /\ \A e \in P!Engines : engine[e] = "none" /\ deletes[e] = 0
      /\ \A e \in P!Runs : run[e] = "none"
      /\ UNCHANGED <<kind, close>>
  <2>1. pipe = "none" /\ kind = "loaded" /\ UNCHANGED <<kind, close>>
    BY DEF P!Loads
  <2> QED BY <2>1, PipeConstants DEF PipeInv, PipeType, Made, P!ReleasedOnce
<1>2. /\ {P!Batch, 1} \in SUBSET P!Engines /\ {} \in SUBSET {P!Batch}
      /\ {P!Batch} \in SUBSET {P!Batch} /\ 1 \in P!Engines /\ 1 # P!Batch /\ P!Batch \in P!Engines
  BY PipeConstants
<1>3. CASE /\ pipe' = "open" /\ kept' = {1} /\ P!Compiled({P!Batch, 1})
           /\ run' = [run EXCEPT ![1] = "live"]
           /\ fed' \in {fed, [fed EXCEPT ![1] = 1]}
  <2>1. Accounted /\ \A e \in P!Engines : engine'[e] = IF e \in {P!Batch, 1} THEN "open" ELSE "none"
    BY <1>1, <1>2, <1>3, CompiledOnce DEF PipeInv, Accounted
  <2>2. PipeType'
    <3>1. run' \in [P!Runs -> Stages]
      BY <1>3, PipeConstants DEF PipeInv, PipeType, Stages
    <3>2. kept' \subseteq P!Engines /\ pipe' \in {"none", "open", "disposed", "collected"}
      BY <1>3, PipeConstants
    <3>3. DOMAIN fed' = P!Engines
      BY <1>3 DEF PipeInv, PipeType
    <3> QED BY <1>1, <2>1, <3>1, <3>2, <3>3 DEF PipeInv, PipeType, Accounted
  <2>3. P!FedOpen
    BY <1>1, <1>3, PipeConstants DEF PipeInv, PipeType, P!FedOpen
  <2>4. Made' /\ P!ReleasedOnce' /\ P!HeldStaysOpen'
    BY <1>1, <1>3, <2>1, PipeConstants
       DEF PipeInv, PipeType, Made, Accounted, P!ReleasedOnce, P!HeldStaysOpen
  <2> QED BY <2>2, <2>3, <2>4 DEF PipeInv
<1>4. CASE pipe' = "disposed" /\ UNCHANGED <<kept, run, fed>> /\ P!CompileFails({}, P!Batch)
  <2>1. /\ Accounted
        /\ \A e \in P!Engines : engine'[e] = IF e = P!Batch THEN "released" ELSE "none"
    BY <1>1, <1>2, <1>4, CompileFailsAlone DEF PipeInv
  <2>2. PipeType'
    BY <1>1, <1>4, <2>1 DEF PipeInv, PipeType, Accounted
  <2>3. Made' /\ P!ReleasedOnce' /\ P!HeldStaysOpen'
    BY <1>1, <1>4, <2>1, PipeConstants DEF Made, Accounted, P!ReleasedOnce, P!HeldStaysOpen
  <2> QED BY <1>4, <2>2, <2>3 DEF PipeInv, P!FedOpen
<1>5. CASE pipe' = "open" /\ UNCHANGED <<kept, run, fed>> /\ P!CompileFails({P!Batch}, 1)
  <2>1. /\ Accounted
        /\ \A e \in P!Engines : engine'[e] = IF e = 1 THEN "released"
                                             ELSE IF e \in {P!Batch} THEN "open" ELSE "none"
    <3>1. PICK es \in SUBSET {P!Batch} : es = {P!Batch}
      OBVIOUS
    <3>2. /\ PipeType /\ P!ReleasedOnce /\ P!CompileFails(es, 1) /\ 1 \in P!Engines /\ 1 \notin es
          /\ \A d \in P!Engines : d = 1 \/ d \in es => engine[d] = "none"
      BY <1>1, <1>2, <1>5, <3>1 DEF PipeInv
    <3>3. /\ Accounted
          /\ \A d \in P!Engines :
               engine'[d] = IF d = 1 THEN "released" ELSE IF d \in es THEN "open" ELSE engine[d]
      BY <3>2, CompileFailsOnce
    <3> QED BY <1>1, <3>1, <3>3
  <2>2. PipeType'
    BY <1>1, <1>5, <2>1 DEF PipeInv, PipeType, Accounted
  <2>3. Made' /\ P!ReleasedOnce' /\ P!HeldStaysOpen'
    BY <1>1, <1>5, <2>1, PipeConstants DEF Made, Accounted, P!ReleasedOnce, P!HeldStaysOpen
  <2> QED BY <1>5, <2>2, <2>3 DEF PipeInv, P!FedOpen
<1>6. CASE /\ pipe' = "disposed" /\ UNCHANGED <<kept, run, fed, sessions>>
           /\ engine' = [e \in P!Engines |-> IF e \in {P!Batch, 1} THEN "released" ELSE engine[e]]
           /\ deletes' = [e \in P!Engines |-> IF e \in {P!Batch, 1} THEN deletes[e] + 1 ELSE deletes[e]]
  <2>1. PipeType'
    BY <1>1, <1>6 DEF PipeInv, PipeType
  <2>2. Made' /\ P!ReleasedOnce' /\ P!HeldStaysOpen'
    BY <1>1, <1>6, PipeConstants DEF Made, P!ReleasedOnce, P!HeldStaysOpen
  <2> QED BY <1>6, <2>1, <2>2 DEF PipeInv, P!FedOpen
<1> QED BY <1>3, <1>4, <1>5, <1>6 DEF P!Loads

\* Calls that make and delete no engine: an event goes to an open one.
LEMMA DataPipe ==
  ASSUME PipeInv,
         \/ P!BeginCall \/ P!EndCall \/ \E h \in kept : P!Drop(h)
         \/ \E e \in P!Runs : P!BeginPush(e) \/ P!EndPush(e)
  PROVE  PipeInv' /\ P!FedOpen
<1>1. /\ UNCHANGED <<kind, pipe, run, engine, deletes, sessions, close>> /\ kept' \subseteq kept
  BY DEF P!BeginCall, P!EndCall, P!Drop, P!BeginPush, P!EndPush, P!engineVars
<1>2. \/ UNCHANGED fed
      \/ \E e \in P!Engines : engine[e] = "open" /\ \E x : fed' = [fed EXCEPT ![e] = x]
  <2>1. CASE P!BeginCall \/ (\E h \in kept : P!Drop(h)) \/ \E e \in P!Runs : P!BeginPush(e)
    BY <2>1 DEF P!BeginCall, P!Drop, P!BeginPush
  <2>2. CASE P!EndCall
    BY <2>2, PipeConstants DEF P!EndCall
  <2>3. CASE \E e \in P!Runs : P!EndPush(e)
    BY <2>3, PipeConstants DEF P!EndPush, P!Take
  <2> QED BY <2>1, <2>2, <2>3
<1>3. PipeType'
  BY <1>1, <1>2 DEF PipeInv, PipeType
<1>4. P!FedOpen
  <2>1. \A e \in P!Engines : fed'[e] # fed[e] => engine[e] = "open"
    BY <1>2 DEF PipeInv, PipeType
  <2> QED BY <2>1 DEF P!FedOpen
<1>5. Made' /\ P!ReleasedOnce' /\ P!HeldStaysOpen'
  BY <1>1 DEF PipeInv, Made, P!ReleasedOnce, P!HeldStaysOpen
<1> QED BY <1>3, <1>4, <1>5 DEF PipeInv

\* A session or lazy run moves on without touching an engine.
LEMMA StagePipe ==
  ASSUME PipeInv, NEW e \in P!Runs, NEW to \in Stages \ {"none", "created"},
         run[e] # "none", run' = [run EXCEPT ![e] = to],
         to \in {"disposed", "over"} \/ (run[e] \in {"live", "running", "yielding", "flushed"}),
         UNCHANGED <<kind, pipe, engine, deletes, sessions, close, kept>>,
         UNCHANGED fed \/ (engine[e] = "open" /\ fed' = [fed EXCEPT ![e] = @ + 1])
  PROVE  PipeInv' /\ P!FedOpen
<1>1. PipeType'
  BY DEF PipeInv, PipeType
<1>2. P!FedOpen
  <2>1. \A d \in P!Engines : fed'[d] # fed[d] => engine[d] = "open"
    BY DEF PipeInv, PipeType
  <2> QED BY <2>1 DEF P!FedOpen
<1>3. P!ReleasedOnce' /\ P!HeldStaysOpen'
  BY DEF PipeInv, PipeType, P!ReleasedOnce, P!HeldStaysOpen
<1>4. Made'
  BY DEF PipeInv, PipeType, Made
<1> QED BY <1>1, <1>2, <1>3, <1>4 DEF PipeInv

LEMMA LivePipe ==
  ASSUME PipeInv, NEW e \in P!Runs, P!Live(e) \/ P!MakeLazy(e)
  PROVE  PipeInv' /\ P!FedOpen
<1>1. /\ P!Callable \in kept /\ pipe = "open" /\ run[e] = "none" /\ pipe' = "open"
      /\ UNCHANGED <<kind, close, fed>>
  BY DEF P!Live, P!MakeLazy, P!Unused
<1>2. kind = "pipeline" /\ engine[e] = "none" /\ engine[P!Batch] = "open" /\ e # P!Batch
  BY <1>1, PipeConstants DEF PipeInv, Made
<1>3. CASE /\ run' = [run EXCEPT ![e] = "live"] /\ kept' = kept \cup {e} /\ P!Compiled({e})
  <2>1. {e} \in SUBSET P!Engines
    BY PipeConstants
  <2>2. Accounted /\ \A d \in P!Engines : engine'[d] = IF d \in {e} THEN "open" ELSE engine[d]
    BY <1>2, <1>3, <2>1, CompiledOnce DEF PipeInv, Accounted
  <2>3. PipeType'
    BY <1>1, <1>3, <2>1, <2>2 DEF PipeInv, PipeType, Accounted, Stages
  <2>4. P!ReleasedOnce' /\ P!HeldStaysOpen'
    BY <1>1, <1>3, <2>2, PipeConstants
       DEF PipeInv, PipeType, Accounted, P!ReleasedOnce, P!HeldStaysOpen
  <2>5. Made'
    BY <1>1, <1>2, <1>3, <2>2, PipeConstants DEF PipeInv, PipeType, Made
  <2> QED BY <1>1, <2>3, <2>4, <2>5 DEF PipeInv, P!FedOpen
<1>4. CASE run' = [run EXCEPT ![e] = "over"] /\ kept' = kept /\ P!CompileFails({}, e)
  <2>1. e \in P!Engines
    BY PipeConstants
  <2>2. Accounted /\ \A d \in P!Engines : engine'[d] = IF d = e THEN "released" ELSE engine[d]
    BY <1>2, <1>4, <2>1, CompileFailsAlone DEF PipeInv, Accounted
  <2>3. PipeType'
    BY <1>1, <1>4, <2>2 DEF PipeInv, PipeType, Accounted, Stages
  <2>4. P!ReleasedOnce' /\ P!HeldStaysOpen'
    BY <1>1, <1>4, <2>2, PipeConstants
       DEF PipeInv, PipeType, Accounted, P!ReleasedOnce, P!HeldStaysOpen
  <2>5. Made'
    BY <1>1, <1>2, <1>4, <2>2, PipeConstants DEF PipeInv, PipeType, Made
  <2> QED BY <1>1, <2>3, <2>4, <2>5 DEF PipeInv, P!FedOpen
<1>5. CASE P!MakeLazy(e)
  <2>1. /\ run' = [run EXCEPT ![e] = "created"] /\ kept' = kept \cup {e}
        /\ UNCHANGED <<engine, deletes, sessions>>
    BY <1>5 DEF P!MakeLazy, P!engineVars
  <2>2. PipeType'
    BY <1>1, <2>1, PipeConstants DEF PipeInv, PipeType, Stages
  <2>3. P!ReleasedOnce' /\ P!HeldStaysOpen'
    BY <1>1, <2>1, PipeConstants DEF PipeInv, PipeType, P!ReleasedOnce, P!HeldStaysOpen
  <2>4. Made'
    BY <1>1, <1>2, <2>1, PipeConstants DEF PipeInv, PipeType, Made
  <2> QED BY <1>1, <2>2, <2>3, <2>4 DEF PipeInv, P!FedOpen
<1> QED BY <1>3, <1>4, <1>5 DEF P!Live

\* The first next() of a lazy run.
LEMMA StartPipe ==
  ASSUME PipeInv, NEW e \in P!Runs, P!Start(e)
  PROVE  PipeInv' /\ P!FedOpen
<1>1. run[e] = "created" /\ e \in kept /\ UNCHANGED <<kind, fed, kept>>
  BY DEF P!Start
<1>2. engine[e] = "none" /\ e # P!Batch
  BY <1>1, PipeConstants DEF PipeInv, Made
<1>3. P!FedOpen
  BY <1>1 DEF P!FedOpen
<1>4. CASE pipe = "open" /\ P!Started(e)
  <2>1. /\ P!Compiled({e}) /\ run' = [run EXCEPT ![e] = "running"]
        /\ close' = [close EXCEPT ![e] = TRUE] /\ pipe' = pipe
    BY <1>4 DEF P!Started
  <2>2. {e} \in SUBSET P!Engines
    BY PipeConstants
  <2>3. Accounted /\ \A d \in P!Engines : engine'[d] = IF d \in {e} THEN "open" ELSE engine[d]
    BY <1>2, <2>1, <2>2, CompiledOnce DEF PipeInv, Accounted
  <2>4. PipeType'
    BY <1>1, <2>1, <2>3 DEF PipeInv, PipeType, Accounted, Stages
  <2>5. P!ReleasedOnce' /\ P!HeldStaysOpen'
    BY <1>1, <1>4, <2>1, <2>3, PipeConstants
       DEF PipeInv, PipeType, Accounted, P!ReleasedOnce, P!HeldStaysOpen
  <2>6. Made'
    BY <1>1, <1>2, <1>4, <2>1, <2>3, PipeConstants DEF PipeInv, PipeType, Made
  <2> QED BY <1>1, <1>3, <2>4, <2>5, <2>6 DEF PipeInv
<1>5. CASE /\ pipe = "open" /\ run' = [run EXCEPT ![e] = "over"] /\ P!CompileFails({}, e)
           /\ UNCHANGED <<close, pipe>>
  <2>1. e \in P!Engines
    BY PipeConstants
  <2>2. Accounted /\ \A d \in P!Engines : engine'[d] = IF d = e THEN "released" ELSE engine[d]
    BY <1>2, <1>5, <2>1, CompileFailsAlone DEF PipeInv, Accounted
  <2>3. PipeType'
    BY <1>1, <1>5, <2>2 DEF PipeInv, PipeType, Accounted, Stages
  <2>4. P!ReleasedOnce' /\ P!HeldStaysOpen'
    BY <1>1, <1>5, <2>2, PipeConstants
       DEF PipeInv, PipeType, Accounted, P!ReleasedOnce, P!HeldStaysOpen
  <2>5. Made'
    BY <1>1, <1>2, <1>5, <2>2, PipeConstants DEF PipeInv, PipeType, Made
  <2> QED BY <1>1, <1>3, <2>3, <2>4, <2>5 DEF PipeInv
<1>6. CASE /\ pipe = "open" /\ kind = "iterators"
           /\ run' = [run EXCEPT ![e] = "over"] /\ pipe' = "disposed"
           /\ engine' = [engine EXCEPT ![e] = "released", ![P!Batch] = "released"]
           /\ deletes' = [deletes EXCEPT ![e] = @ + 1, ![P!Batch] = @ + 1]
           /\ UNCHANGED <<close, sessions>>
  <2>1. engine[P!Batch] = "open" /\ e = 1 /\ \A d \in P!Runs : engine[d] = "none"
    BY <1>1, <1>2, <1>6 DEF PipeInv, Made
  <2>2. deletes[e] = 0 /\ deletes[P!Batch] = 0 /\ sessions = {}
    BY <1>2, <2>1, PipeConstants DEF PipeInv, P!ReleasedOnce
  <2>3. PipeType'
    BY <1>1, <1>2, <1>6, <2>2, PipeConstants DEF PipeInv, PipeType, Stages
  <2>4. \A d \in P!Engines : engine'[d] = IF d \in {e, P!Batch} THEN "released" ELSE "none"
    BY <1>6, <2>1, PipeConstants DEF PipeInv, PipeType
  <2>5. \A d \in P!Engines : deletes'[d] = IF d \in {e, P!Batch} THEN 1 ELSE 0
    <3>1. \A d \in P!Engines : deletes[d] = 0
      BY <2>1, PipeConstants DEF PipeInv, P!ReleasedOnce
    <3>2. \A d \in P!Engines : deletes'[d] = IF d = P!Batch THEN deletes[d] + 1
                                             ELSE IF d = e THEN deletes[d] + 1 ELSE deletes[d]
      BY <1>2, <1>6 DEF PipeInv, PipeType
    <3> QED BY <3>1, <3>2
  <2>6. P!ReleasedOnce' /\ P!HeldStaysOpen'
    <3>1. sessions' = {} /\ pipe' = "disposed" /\ \A d \in P!Runs : d \in P!Engines
      BY <1>6, <2>2, PipeConstants
    <3>2. \A d \in P!Engines : engine'[d] # "open"
      BY <2>4
    <3>3. \A d \in P!Engines : deletes'[d] = IF engine'[d] = "released" THEN 1 ELSE 0
      BY <2>4, <2>5
    <3> QED BY <3>1, <3>2, <3>3 DEF P!ReleasedOnce, P!HeldStaysOpen
  <2>7. Made'
    BY <1>1, <1>6, <2>1, <2>4, PipeConstants DEF PipeInv, PipeType, Made
  <2> QED BY <1>1, <1>3, <2>3, <2>6, <2>7 DEF PipeInv
<1>7. CASE pipe # "open" /\ P!End(e)
  BY <1>1, <1>3, <1>7, EndPipe
<1> QED BY <1>4, <1>5, <1>6, <1>7 DEF P!Start

\* A lazy run goes on, and ends.
LEMMA LazyPipe ==
  ASSUME PipeInv, NEW e \in P!Runs, P!Next_(e) \/ P!Pulled(e) \/ P!Flushed(e) \/ P!Broken(e) \/ P!Return(e)
  PROVE  PipeInv' /\ P!FedOpen
<1>1. PipeType /\ e \in P!Engines
  BY PipeConstants DEF PipeInv
<1>2. CASE P!Next_(e)
  <2>1. CASE run[e] \in {"yielding", "flushed"} /\ UNCHANGED <<pipe, run, engine, deletes, sessions, close>>
    <3>1. /\ run' = [run EXCEPT ![e] = run[e]] /\ run[e] \in Stages \ {"none", "created"} /\ run[e] # "none"
          /\ UNCHANGED <<kind, pipe, engine, deletes, sessions, close, kept, fed>>
      BY <1>1, <1>2, <2>1 DEF PipeType, Stages, P!Next_
    <3> QED BY <2>1, <3>1, StagePipe
  <2>2. CASE /\ run[e] = "yielding" /\ run' = [run EXCEPT ![e] = "running"]
             /\ UNCHANGED <<pipe, engine, deletes, sessions, close>>
    <3>1. "running" \in Stages \ {"none", "created"} /\ UNCHANGED <<kind, kept, fed>>
      BY <1>2 DEF Stages, P!Next_
    <3> QED BY <2>2, <3>1, StagePipe
  <2>3. CASE run[e] = "flushed" /\ P!End(e)
    <3>1. UNCHANGED <<kind, fed, kept>>
      BY <1>2 DEF P!Next_
    <3> QED BY <2>3, <3>1, EndPipe DEF P!FedOpen
  <2> QED BY <1>2, <2>1, <2>2, <2>3 DEF P!Next_, P!engineVars
<1>3. CASE P!Pulled(e)
  <2>1. PICK to \in {"running", "yielding"} : run' = [run EXCEPT ![e] = to]
    <3>1. run[e] = "running" /\ (run' = [run EXCEPT ![e] = "yielding"] \/ run' = run)
      BY <1>3 DEF P!Pulled
    <3>2. run = [run EXCEPT ![e] = run[e]]
      BY <1>1 DEF PipeType
    <3> QED BY <3>1, <3>2
  <2>2. /\ to \in Stages \ {"none", "created"} /\ run[e] = "running" /\ engine[e] = "open"
        /\ fed' = [fed EXCEPT ![e] = @ + 1]
        /\ UNCHANGED <<kind, pipe, engine, deletes, sessions, close, kept>>
    BY <1>3 DEF Stages, P!Pulled, P!Take, P!engineVars
  <2> QED BY <2>1, <2>2, StagePipe
<1>4. CASE P!Flushed(e)
  <2>1. /\ "flushed" \in Stages \ {"none", "created"} /\ run[e] = "running"
        /\ run' = [run EXCEPT ![e] = "flushed"]
        /\ UNCHANGED <<kind, pipe, engine, deletes, sessions, close, kept, fed>>
    BY <1>4 DEF Stages, P!Flushed, P!engineVars
  <2> QED BY <2>1, StagePipe
<1>5. CASE P!Broken(e)
  <2>1. run[e] = "running" /\ P!End(e) /\ UNCHANGED <<kind, fed, kept>>
    BY <1>5 DEF P!Broken
  <2> QED BY <2>1, EndPipe DEF P!FedOpen
<1>6. CASE P!Return(e)
  <2>1. UNCHANGED <<kind, fed, kept>>
    BY <1>6 DEF P!Return
  <2>2. CASE run[e] \in {"yielding", "flushed"} /\ P!End(e)
    BY <2>1, <2>2, EndPipe DEF P!FedOpen
  <2>3. CASE /\ run[e] = "created" /\ run' = [run EXCEPT ![e] = "over"]
             /\ UNCHANGED <<pipe, engine, deletes, sessions, close>>
    <3>1. "over" \in Stages \ {"none", "created"}
      BY DEF Stages
    <3> QED BY <2>1, <2>3, <3>1, StagePipe
  <2> QED BY <1>6, <2>2, <2>3 DEF P!Return, P!engineVars
<1> QED BY <1>2, <1>3, <1>4, <1>5, <1>6

\* Every step of a Pipeline and its runs.
LEMMA PipeNext ==
  ASSUME PipeInv, P!Next
  PROVE  PipeInv' /\ P!FedOpen
<1>1. CASE P!Construct \/ P!RunOnce \/ P!RunIterators
  BY <1>1, MakePipe
<1>2. CASE P!Loads
  BY <1>2, LoadsPipe
<1>3. CASE \/ P!BeginCall \/ P!EndCall \/ \E h \in kept : P!Drop(h)
           \/ \E e \in P!Runs : P!BeginPush(e) \/ P!EndPush(e)
  BY <1>3, DataPipe
<1>4. CASE \E e \in P!Runs : P!Live(e) \/ P!MakeLazy(e)
  BY <1>4, LivePipe
<1>5. CASE \E e \in P!Runs : P!Start(e)
  BY <1>5, StartPipe
<1>6. CASE \E e \in P!Runs : P!Next_(e) \/ P!Pulled(e) \/ P!Flushed(e) \/ P!Broken(e) \/ P!Return(e)
  BY <1>6, LazyPipe
<1>7. CASE P!DisposePipe \/ P!FinalizePipe
  <2>1. fed' = fed
    BY <1>7 DEF P!DisposePipe, P!FinalizePipe
  <2> QED BY <1>7, <2>1, ReleasePipe DEF P!FedOpen
<1>8. CASE \E e \in P!Runs : P!DisposeSession(e) \/ P!FinalizeRun(e)
  <2>1. PICK e \in P!Runs : P!DisposeSession(e) \/ P!FinalizeRun(e)
    BY <1>8
  <2>2. fed' = fed
    BY <2>1 DEF P!DisposeSession, P!FinalizeRun
  <2> QED BY <2>1, <2>2, DisposeSessionPipe, FinalizeRunPipe DEF P!FedOpen
<1> QED BY <1>1, <1>2, <1>3, <1>4, <1>5, <1>6, <1>7, <1>8 DEF P!Next

LEMMA PipeInit ==
  ASSUME P!Init
  PROVE  PipeInv
<1>1. /\ kind \in PipeKinds /\ pipe = "none" /\ run = [e \in P!Runs |-> "none"]
      /\ engine = [e \in P!Engines |-> "none"] /\ deletes = [e \in P!Engines |-> 0]
      /\ sessions = {} /\ close = [e \in P!Runs |-> FALSE]
      /\ fed = [e \in P!Engines |-> 0] /\ kept = {}
  BY DEF P!Init
<1>2. PipeType
  BY <1>1 DEF PipeType, Stages
<1>3. Made
  BY <1>1, PipeConstants DEF Made
<1>4. P!ReleasedOnce /\ P!HeldStaysOpen
  BY <1>1, PipeConstants DEF P!ReleasedOnce, P!HeldStaysOpen
<1> QED BY <1>2, <1>3, <1>4 DEF PipeInv

-----------------------------------------------------------------------------
(* The theorems about Pipelines.                                           *)

PipelineInv == part = "pipeline" => PipeInv

LEMMA PipelineInductive ==
  MCSpec => []PipelineInv
<1>1. MCInit => PipelineInv
  BY PipeInit DEF MCInit, PipelineInv
<1>2. ASSUME PipelineInv, [MCNext]_mcVars
      PROVE  PipelineInv'
  <2>1. CASE MCNext
    <3>1. part' = part /\ (part = "pipeline" => P!Next)
      BY <2>1 DEF MCNext
    <3> QED BY <1>2, <3>1, PipeNext DEF PipelineInv
  <2>2. CASE UNCHANGED mcVars
    <3>1. UNCHANGED <<part, kind, pipe, run, engine, deletes, sessions, close, fed, kept>>
      BY <2>2 DEF mcVars, vars, objectVars, pipeOwn
    <3>2. PipeType' = PipeType /\ Made' = Made
      BY <3>1 DEF PipeType, Made
    <3>3. PipeInv' = PipeInv
      BY <3>1, <3>2 DEF PipeInv, P!ReleasedOnce, P!HeldStaysOpen
    <3> QED BY <1>2, <3>1, <3>3 DEF PipelineInv
  <2> QED BY <1>2, <2>1, <2>2
<1> QED BY <1>1, <1>2, PTL DEF MCSpec

\* No engine is deleted twice, and none is lost: the Pipeline's set of session
\* engines is the set of those that are open, and a Pipeline that is disposed
\* or collected leaves none open.
THEOREM DeletedOnce == MCSpec => []ReleasedOnce
<1>1. PipelineInv => ReleasedOnce
  BY DEF PipelineInv, PipeInv, ReleasedOnce
<1> QED BY <1>1, PipelineInductive, PTL

\* No finalizer takes the engine of a session or lazy run that the user holds
\* and that is not over.
THEOREM FinalizersSpareTheHeld == MCSpec => []HeldStaysOpen
<1>1. PipelineInv => HeldStaysOpen
  BY DEF PipelineInv, PipeInv, HeldStaysOpen
<1> QED BY <1>1, PipelineInductive, PTL

\* An event never goes to an engine that is released, whatever the code that a
\* call runs in its middle has disposed.
THEOREM FedWhileOpen == MCSpec => NoUseAfterRelease
<1>1. ASSUME PipelineInv, [MCNext]_mcVars
      PROVE  [part = "pipeline" => P!FedOpen]_mcVars
  <2>1. CASE MCNext /\ part = "pipeline"
    <3>1. P!Next
      BY <2>1 DEF MCNext
    <3> QED BY <1>1, <2>1, <3>1, PipeNext DEF PipelineInv
  <2> QED BY <1>1, <2>1
<1> QED BY <1>1, PipelineInductive, PTL DEF MCSpec, NoUseAfterRelease

-----------------------------------------------------------------------------
(* An operator and its streams.                                            *)

\* A set of numbers that is not empty has a least one.
LEMMA LeastNatural ==
  ASSUME NEW S, S \subseteq Nat, S # {}
  PROVE  \E m \in S : \A k \in S : m <= k
<1> DEFINE R == OpToRel(<, Nat)
<1>1. IsWellFoundedOn(R, Nat)
  BY NatLessThanWellFounded
<1>2. \A x, y \in Nat : <<x, y>> \in R <=> x < y
  BY DEF OpToRel
<1> HIDE DEF R
<1>3. PICK m \in S : \A k \in S : <<k, m>> \notin R
  BY <1>1, WFMin
<1>4. \A k \in S : k \in Nat /\ m \in Nat /\ ~(k < m)
  BY <1>2, <1>3
<1> QED BY <1>4

\* What is lent comes back in its order: all of it, or nothing when the pool
\* lends nothing any more.
LEMMA LentBack ==
  ASSUME NEW S, NEW cs \in Seq(S)
  PROVE  /\ ToSet(cs) \subseteq used => Lent(cs) = cs
         /\ used = {} => Lent(cs) = <<>>
<1> DEFINE Step(f, n) == IF n = 0 THEN <<>>
                         ELSE IF cs[n] \in used THEN Append(f[n - 1], cs[n]) ELSE f[n - 1]
           Is(f) == f = [n \in 0 .. Len(cs) |-> Step(f, n)]
           lent == CHOOSE f : Is(f)
<1>1. Lent(cs) = lent[Len(cs)] /\ Len(cs) \in Nat
  BY DEF Lent
<1>2. ASSUME NEW g, Is(g)
      PROVE  lent[Len(cs)] = g[Len(cs)]
  <2>1. Is(lent)
    BY <1>2
  <2>2. \A n \in 0 .. Len(cs) : lent[n] = Step(lent, n) /\ g[n] = Step(g, n)
    BY <1>2, <2>1
  <2> HIDE DEF lent, Is
  <2> DEFINE Apart == {n \in 0 .. Len(cs) : lent[n] # g[n]}
  <2>3. SUFFICES ASSUME Apart # {}
                 PROVE  FALSE
    BY <1>1
  <2>4. PICK m \in Apart : \A k \in Apart : m <= k
    <3>1. Apart \subseteq Nat
      BY <1>1
    <3> HIDE DEF Apart
    <3> QED BY <2>3, <3>1, LeastNatural
  <2>5. m # 0 /\ m - 1 \in 0 .. Len(cs) /\ lent[m - 1] = g[m - 1]
    BY <1>1, <2>2, <2>4
  <2> QED BY <2>2, <2>4, <2>5
<1>3. ASSUME ToSet(cs) \subseteq used
      PROVE  Lent(cs) = cs
  <2> DEFINE g == [n \in 0 .. Len(cs) |-> SubSeq(cs, 1, n)]
  <2>1. \A n \in 0 .. Len(cs) : g[n] = Step(g, n)
    <3> SUFFICES ASSUME NEW n \in 0 .. Len(cs)
                 PROVE  g[n] = Step(g, n)
      OBVIOUS
    <3>1. CASE n = 0
      BY <3>1
    <3>2. CASE n # 0
      <4>1. n \in 1 .. Len(cs) /\ n - 1 \in 0 .. Len(cs) /\ cs[n] \in used
        BY <1>1, <1>3, <3>2 DEF ToSet
      <4>2. SubSeq(cs, 1, n) = Append(SubSeq(cs, 1, n - 1), cs[n])
        BY <1>1, <4>1
      <4> QED BY <3>2, <4>1, <4>2
    <3> QED BY <3>1, <3>2
  <2>2. Is(g)
    BY <2>1
  <2>3. SubSeq(cs, 1, Len(cs)) = cs
    BY <1>1
  <2>4. g[Len(cs)] = cs
    BY <1>1, <2>3
  <2> HIDE DEF lent, Is, g
  <2> QED BY <1>1, <1>2, <2>2, <2>4
<1>4. ASSUME used = {}
      PROVE  Lent(cs) = <<>>
  <2> DEFINE g == [n \in 0 .. Len(cs) |-> <<>>]
  <2>1. Is(g)
    BY <1>1, <1>4
  <2>2. g[Len(cs)] = <<>>
    BY <1>1
  <2> HIDE DEF lent, Is, g
  <2> QED BY <1>1, <1>2, <2>1, <2>2
<1> QED BY <1>3, <1>4

\* Sequences without repetitions.
LEMMA Sets ==
  ASSUME NEW S, NEW cs \in Seq(S)
  PROVE  /\ ToSet(cs) \subseteq S /\ ToSet(<<>>) = {} /\ IsInjective(<<>>)
         /\ cs # <<>> <=> Len(cs) > 0
         /\ \A i \in 1 .. Len(cs) : cs[i] \in ToSet(cs)
         /\ \A c \in ToSet(cs) : \E i \in 1 .. Len(cs) : cs[i] = c
BY DEF ToSet, IsInjective

LEMMA SetAppend ==
  ASSUME NEW S, NEW cs \in Seq(S), NEW c \in S
  PROVE  /\ Append(cs, c) \in Seq(S) /\ Len(Append(cs, c)) = Len(cs) + 1
         /\ ToSet(Append(cs, c)) = ToSet(cs) \cup {c}
         /\ IsInjective(cs) /\ c \notin ToSet(cs) => IsInjective(Append(cs, c))
<1>1. /\ Append(cs, c) \in Seq(S) /\ Len(Append(cs, c)) = Len(cs) + 1 /\ Len(cs) \in Nat
      /\ DOMAIN cs = 1 .. Len(cs) /\ DOMAIN Append(cs, c) = 1 .. (Len(cs) + 1)
      /\ \A i \in 1 .. Len(cs) : Append(cs, c)[i] = cs[i]
      /\ Append(cs, c)[Len(cs) + 1] = c
  OBVIOUS
<1>2. \A i \in 1 .. (Len(cs) + 1) : i \in 1 .. Len(cs) \/ i = Len(cs) + 1
  BY <1>1
<1>3. ToSet(Append(cs, c)) = ToSet(cs) \cup {c}
  <2> DEFINE d == Append(cs, c)
  <2>1. \A x : x \in ToSet(d) <=> \E i \in 1 .. (Len(cs) + 1) : d[i] = x
    BY <1>1 DEF ToSet
  <2>2. \A x : x \in ToSet(cs) <=> \E i \in 1 .. Len(cs) : cs[i] = x
    BY <1>1 DEF ToSet
  <2>3. 1 .. Len(cs) \subseteq 1 .. (Len(cs) + 1) /\ Len(cs) + 1 \in 1 .. (Len(cs) + 1)
    BY <1>1
  <2> HIDE DEF d
  <2>4. /\ \A i \in 1 .. Len(cs) : d[i] = cs[i]
        /\ d[Len(cs) + 1] = c
    BY <1>1 DEF d
  <2> QED BY <1>2, <2>1, <2>2, <2>3, <2>4 DEF d
<1>4. ASSUME IsInjective(cs), c \notin ToSet(cs)
      PROVE  IsInjective(Append(cs, c))
  BY <1>1, <1>2, <1>4 DEF IsInjective, ToSet
<1> QED BY <1>1, <1>3, <1>4

LEMMA SetConcat ==
  ASSUME NEW S, NEW cs \in Seq(S), NEW ds \in Seq(S)
  PROVE  /\ cs \o ds \in Seq(S)
         /\ ToSet(cs \o ds) = ToSet(cs) \cup ToSet(ds)
         /\ IsInjective(cs) /\ IsInjective(ds) /\ ToSet(cs) \cap ToSet(ds) = {} => IsInjective(cs \o ds)
<1> DEFINE m == Len(cs)
           n == Len(ds)
           e == cs \o ds
<1>1. /\ e \in Seq(S) /\ m \in Nat /\ n \in Nat
      /\ DOMAIN cs = 1 .. m /\ DOMAIN ds = 1 .. n /\ DOMAIN e = 1 .. (m + n)
      /\ \A i \in 1 .. m : e[i] = cs[i]
      /\ \A i \in (m + 1) .. (m + n) : e[i] = ds[i - m]
      /\ \A i \in 1 .. n : e[m + i] = ds[i]
  OBVIOUS
<1> HIDE DEF e
<1>2. \A i \in 1 .. (m + n) : i \in 1 .. m \/ (i \in (m + 1) .. (m + n) /\ i - m \in 1 .. n)
  BY <1>1
<1>3. ToSet(e) = ToSet(cs) \cup ToSet(ds)
  <2>1. \A x : x \in ToSet(e) <=> \E i \in 1 .. (m + n) : e[i] = x
    BY <1>1 DEF ToSet
  <2>2. \A x : x \in ToSet(cs) <=> \E i \in 1 .. m : cs[i] = x
    BY <1>1 DEF ToSet
  <2>3. \A x : x \in ToSet(ds) <=> \E i \in 1 .. n : ds[i] = x
    BY <1>1 DEF ToSet
  <2>4. ASSUME NEW x \in ToSet(e)
        PROVE  x \in ToSet(cs) \cup ToSet(ds)
    BY <1>1, <1>2, <2>1, <2>2, <2>3
  <2>5. ASSUME NEW x \in ToSet(cs)
        PROVE  x \in ToSet(e)
    <3>1. PICK i \in 1 .. m : cs[i] = x
      BY <2>2
    <3>2. i \in 1 .. (m + n)
      BY <1>1
    <3> QED BY <1>1, <2>1, <3>1, <3>2
  <2>6. ASSUME NEW x \in ToSet(ds)
        PROVE  x \in ToSet(e)
    <3>1. PICK i \in 1 .. n : ds[i] = x
      BY <2>3
    <3>2. m + i \in 1 .. (m + n)
      BY <1>1
    <3> QED BY <1>1, <2>1, <3>1, <3>2
  <2> QED BY <2>4, <2>5, <2>6
<1>4. ASSUME IsInjective(cs), IsInjective(ds), ToSet(cs) \cap ToSet(ds) = {}
      PROVE  IsInjective(e)
  <2> SUFFICES ASSUME NEW i \in 1 .. (m + n), NEW j \in 1 .. (m + n), e[i] = e[j]
               PROVE  i = j
    BY <1>1 DEF IsInjective
  <2>1. \A k \in 1 .. m, l \in 1 .. n : cs[k] # ds[l]
    BY <1>1, <1>4 DEF ToSet
  <2>2. CASE i \in 1 .. m /\ j \in 1 .. m
    BY <1>1, <1>4, <2>2 DEF IsInjective
  <2>3. CASE i \in (m + 1) .. (m + n) /\ j \in (m + 1) .. (m + n)
    <3>1. i - m \in 1 .. n /\ j - m \in 1 .. n /\ ds[i - m] = ds[j - m]
      BY <1>1, <2>3
    <3>2. i - m = j - m
      BY <1>1, <1>4, <3>1 DEF IsInjective
    <3> QED BY <1>1, <3>2
  <2>4. CASE i \in 1 .. m /\ j \in (m + 1) .. (m + n)
    BY <1>1, <2>1, <2>4
  <2>5. CASE i \in (m + 1) .. (m + n) /\ j \in 1 .. m
    BY <1>1, <2>1, <2>5
  <2> QED BY <1>2, <2>2, <2>3, <2>4, <2>5
<1> QED BY <1>1, <1>3, <1>4 DEF e

LEMMA SetFront ==
  ASSUME NEW S, NEW cs \in Seq(S), cs # <<>>
  PROVE  /\ Last(cs) \in S /\ Last(cs) \in ToSet(cs) /\ Front(cs) \in Seq(S)
         /\ ToSet(Front(cs)) \subseteq ToSet(cs) /\ ToSet(cs) = ToSet(Front(cs)) \cup {Last(cs)}
         /\ IsInjective(cs) => IsInjective(Front(cs)) /\ Last(cs) \notin ToSet(Front(cs))
<1> DEFINE n == Len(cs)
           f == Front(cs)
<1>1. /\ n \in Nat \ {0} /\ DOMAIN cs = 1 .. n /\ Last(cs) = cs[n]
      /\ f \in Seq(S) /\ DOMAIN f = 1 .. (n - 1) /\ \A i \in 1 .. (n - 1) : f[i] = cs[i]
  BY DEF Front, Last
<1> HIDE DEF f
<1>2. \A x : x \in ToSet(cs) <=> \E i \in 1 .. n : cs[i] = x
  BY <1>1 DEF ToSet
<1>3. \A x : x \in ToSet(f) <=> \E i \in 1 .. (n - 1) : cs[i] = x
  BY <1>1 DEF ToSet
<1>4. /\ 1 .. (n - 1) \subseteq 1 .. n /\ n \in 1 .. n /\ n \notin 1 .. (n - 1)
      /\ \A i \in 1 .. n : i = n \/ i \in 1 .. (n - 1)
  <2>1. n \in Nat \ {0}
    BY <1>1
  <2> HIDE DEF n
  <2> QED BY <2>1
<1> HIDE DEF n
<1>5. ToSet(cs) = ToSet(f) \cup {Last(cs)} /\ Last(cs) \in S
  <2>1. Last(cs) = cs[n] /\ cs[n] \in S
    BY <1>1, <1>4
  <2> QED BY <1>2, <1>3, <1>4, <2>1
<1>6. ASSUME IsInjective(cs)
      PROVE  IsInjective(f) /\ Last(cs) \notin ToSet(f)
  BY <1>1, <1>3, <1>4, <1>6 DEF IsInjective
<1> QED BY <1>1, <1>5, <1>6 DEF f

LEMMA SeqGrows ==
  ASSUME NEW S, NEW T, S \subseteq T, NEW cs \in Seq(S)
  PROVE  cs \in Seq(T)
OBVIOUS

\* The first n events of a stream, each with the run it comes from.
Upto(s, n) == [i \in 1 .. n |-> Event(s, i)]
Events == [run : Streams \cup {ofLive}, n : Nat]

LEMMA UptoNext ==
  ASSUME NEW s \in Streams, NEW n \in Nat, n > 0
  PROVE  /\ Upto(s, 0) = <<>> /\ Upto(s, n) \in Seq(Events)
         /\ Append(Upto(s, n - 1), Event(s, n)) = Upto(s, n)
<1>1. Event(s, n) \in Events /\ \A i \in 1 .. n : Event(s, i) \in Events
  BY DEF Event, Events
<1>2. /\ Upto(s, n) \in Seq(Events) /\ Len(Upto(s, n)) = n
      /\ Upto(s, n - 1) \in Seq(Events) /\ Len(Upto(s, n - 1)) = n - 1
      /\ \A i \in 1 .. n : Upto(s, n)[i] = Event(s, i)
      /\ \A i \in 1 .. (n - 1) : Upto(s, n - 1)[i] = Event(s, i)
  BY <1>1 DEF Upto
<1>3. Upto(s, 0) = <<>>
  BY DEF Upto
<1> DEFINE a == Append(Upto(s, n - 1), Event(s, n))
<1>4. /\ a \in Seq(Events) /\ Len(a) = n
      /\ \A i \in 1 .. n : a[i] = Event(s, i)
  BY <1>1, <1>2
<1>5. a = Upto(s, n)
  BY <1>2, <1>4
<1> QED BY <1>2, <1>3, <1>5

StreamStages == {"none", "made", "open", "done", "collected"}
Opened == {s \in Streams : st[s] = "open"}
Copies == 2 .. Len(hist)

StreamType ==
  /\ kind \in {"op", "reducer", "row"}
  /\ hist \in Seq(Seq(Events)) /\ Len(hist) > 0
  /\ deletes \in Seq(Nat) /\ Len(deletes) = Len(hist)
  /\ idle \in Seq(Copies) /\ used \subseteq Copies /\ live \subseteq Streams
  /\ st \in [Streams -> StreamStages]
  /\ DOMAIN ops = Streams /\ \A s \in Streams : ops[s] \in Seq(Copies)
  /\ armed \in [Streams -> BOOLEAN] /\ forgot \in [Streams -> BOOLEAN]
  /\ blocks \in [Streams -> BOOLEAN] /\ nEv \in [Streams -> Nat] /\ DOMAIN row = Streams
  /\ running \subseteq Streams /\ want \in Nat
  /\ disposed \in BOOLEAN /\ done \in BOOLEAN /\ holds \in BOOLEAN

\* How far a stream and the operator are.  What a stream's finalizer has to do
\* it has while the stream is open; no stream runs, and none will, when what
\* the operator owns is freed.
Life ==
  /\ \A s \in Streams : armed[s] <=> st[s] = "open"
  /\ \A s, r \in running : s = r
  /\ \A s \in running : st[s] = "open" /\ ~forgot[s] /\ ~done
  /\ disposed => done
  /\ done => disposed \/ ~Reachable
  /\ live = IF kind = "op" /\ ~done THEN Opened ELSE {}
  /\ \A s \in Streams : blocks[s] => s \in live

\* The account of the copies, with no copy twice in a stream.
Lending ==
  /\ ~done => \A s \in Opened : IsInjective(ops[s])
  /\ FreedOnce

\* The copies of an open stream have run its events, except the one under way.
Columns ==
  /\ \A s \in Streams : st[s] \in {"none", "made"} => nEv[s] = 0 /\ ops[s] = <<>>
  /\ \A s \in running :
       /\ row[s] = <<>> /\ nEv[s] > 0 /\ want > 0 /\ (kind # "op" => want = 1)
       /\ Len(ops[s]) = want \/ (Len(ops[s]) < want /\ nEv[s] = 1)
  /\ ~done => \A s \in Opened :
       /\ kind # "op" => Len(ops[s]) = 1
       /\ s \notin running => (ops[s] = <<>> <=> nEv[s] = 0 /\ kind = "op")
       /\ \A c \in Held(s) : hist[c] = Upto(s, IF s \in running THEN nEv[s] - 1 ELSE nEv[s])

OpInv == StreamType /\ Life /\ Lending /\ Columns /\ RunsAlone

\* acquire(): a stream takes a copy that nobody has, reset.
LEMMA Taken ==
  ASSUME StreamType, Lending, ~done, NEW s \in Streams, Acquire(s)
  PROVE  \E c \in 2 .. Len(hist') :
           /\ c \notin used /\ used' = used \cup {c}
           /\ ops' = [ops EXCEPT ![s] = Append(ops[s], c)]
           /\ hist' \in Seq(Seq(Events)) /\ Len(hist') >= Len(hist) /\ hist'[c] = <<>>
           /\ \A o \in Objects : o # c => hist'[o] = hist[o]
           /\ deletes' \in Seq(Nat) /\ Len(deletes') = Len(hist')
           /\ \A o \in 1 .. Len(hist') : deletes'[o] = 0
           /\ idle' \in Seq(2 .. Len(hist')) /\ IsInjective(idle')
           /\ ToSet(idle') \cap used' = {} /\ ToSet(idle') \cup used' = 2 .. Len(hist')
<1>1. /\ IsInjective(idle) /\ ToSet(idle) \cap used = {} /\ ToSet(idle) \cup used = Copies
      /\ \A o \in 1 .. Len(hist) : deletes[o] = 0
  <2>1. Objects \ {raw} = Copies /\ Objects = 1 .. Len(hist)
    BY DEF StreamType, Objects, raw, Copies
  <2> QED BY <2>1 DEF Lending, FreedOnce, OwnCopies, Idle
<1>2. Len(hist) \in Nat \ {0} /\ Objects = 1 .. Len(hist)
  BY DEF StreamType, Objects
<1>3. CASE idle # <<>>
  <2>1. /\ Last(idle) \in Copies /\ Last(idle) \in ToSet(idle) /\ Front(idle) \in Seq(Copies)
        /\ ToSet(idle) = ToSet(Front(idle)) \cup {Last(idle)}
        /\ IsInjective(Front(idle)) /\ Last(idle) \notin ToSet(Front(idle))
    BY <1>1, <1>3, SetFront DEF StreamType
  <2>2. /\ idle' = Front(idle) /\ hist' = [hist EXCEPT ![Last(idle)] = <<>>] /\ deletes' = deletes
        /\ used' = used \cup {Last(idle)} /\ ops' = [ops EXCEPT ![s] = Append(ops[s], Last(idle))]
    BY <1>3 DEF Acquire, Reset
  <2>3. <<>> \in Seq(Events)
    OBVIOUS
  <2>4. /\ hist' \in Seq(Seq(Events)) /\ Len(hist') = Len(hist) /\ hist'[Last(idle)] = <<>>
        /\ \A o \in Objects : o # Last(idle) => hist'[o] = hist[o]
    BY <1>2, <2>1, <2>2, <2>3 DEF StreamType, Copies
  <2>5. /\ Last(idle) \in 2 .. Len(hist') /\ idle' \in Seq(2 .. Len(hist'))
        /\ ToSet(idle') \cap used' = {} /\ ToSet(idle') \cup used' = 2 .. Len(hist')
        /\ IsInjective(idle') /\ Last(idle) \notin used
    BY <1>1, <2>1, <2>2, <2>4 DEF Copies
  <2>6. /\ deletes' \in Seq(Nat) /\ Len(deletes') = Len(hist') /\ Len(hist') >= Len(hist)
        /\ \A o \in 1 .. Len(hist') : deletes'[o] = 0
    <3>1. deletes \in Seq(Nat) /\ Len(deletes) = Len(hist) /\ deletes' = deletes
      BY <2>2 DEF StreamType
    <3> QED BY <1>1, <1>2, <2>4, <3>1
  <2> QED BY <1>2, <2>2, <2>4, <2>5, <2>6
<1>4. CASE idle = <<>>
  <2> DEFINE c == Len(hist) + 1
  <2>1. /\ idle' = idle /\ hist' = Append(hist, <<>>) /\ deletes' = Append(deletes, 0)
        /\ used' = used \cup {c} /\ ops' = [ops EXCEPT ![s] = Append(ops[s], c)]
    BY <1>4 DEF Acquire
  <2>2. <<>> \in Seq(Events)
    OBVIOUS
  <2>3. /\ hist' \in Seq(Seq(Events)) /\ Len(hist') = c /\ hist'[c] = <<>>
        /\ \A o \in Objects : hist'[o] = hist[o]
    BY <1>2, <2>1, <2>2 DEF StreamType
  <2>4. deletes' \in Seq(Nat) /\ Len(deletes') = c /\ \A o \in 1 .. c : deletes'[o] = 0
    <3>1. deletes \in Seq(Nat) /\ Len(deletes) = Len(hist) /\ deletes' = Append(deletes, 0)
      BY <2>1 DEF StreamType
    <3>2. /\ deletes' \in Seq(Nat) /\ Len(deletes') = c /\ deletes'[c] = 0
          /\ \A o \in 1 .. Len(hist) : deletes'[o] = deletes[o]
      BY <1>2, <3>1
    <3>3. \A o \in 1 .. c : o = c \/ o \in 1 .. Len(hist)
      BY <1>2
    <3> QED BY <1>1, <3>2, <3>3
  <2>5. ToSet(idle') = {} /\ IsInjective(idle') /\ idle' \in Seq(2 .. Len(hist'))
    <3>1. idle' = <<>> /\ <<>> \in Seq(2 .. Len(hist'))
      BY <1>4, <2>1
    <3>2. <<>> \in Seq(Nat)
      OBVIOUS
    <3>3. ToSet(<<>>) = {} /\ IsInjective(<<>>)
      BY <3>2, Sets
    <3> QED BY <3>1, <3>3
  <2>6. used = Copies
    BY <1>1, <2>1, <2>5
  <2>7. c \in 2 .. Len(hist') /\ c \notin used /\ used' = 2 .. Len(hist') /\ Len(hist') >= Len(hist)
    BY <1>2, <2>1, <2>3, <2>6 DEF Copies
  <2> QED BY <2>1, <2>3, <2>4, <2>5, <2>7
<1> QED BY <1>3, <1>4

\* What a stream that is open holds, in terms of the account.
LEMMA HeldUsed ==
  ASSUME StreamType, Lending, ~done
  PROVE  /\ \A s \in Opened : Held(s) \subseteq used /\ Held(s) \subseteq Copies /\ IsInjective(ops[s])
         /\ \A s, r \in Opened : s # r => Held(s) \cap Held(r) = {}
         /\ IsInjective(idle) /\ Idle \cap used = {} /\ Idle \cup used = Copies
         /\ \A c \in used : \E s \in Opened : c \in Held(s)
         /\ \A o \in Objects : deletes[o] = 0
<1>1. Objects \ {raw} = Copies
  BY DEF StreamType, Objects, raw, Copies
<1>2. /\ IsInjective(idle) /\ Idle \cap used = {} /\ Idle \cup used = Copies
      /\ \A o \in Objects : deletes[o] = 0
  BY <1>1 DEF Lending, FreedOnce, OwnCopies
<1>3. used = UNION {Held(s) : s \in Opened}
  BY DEF Lending, FreedOnce, OwnCopies, Opened
<1>4. \A s, r \in Opened : s # r => Held(s) \cap Held(r) = {}
  BY DEF Lending, FreedOnce, OwnCopies, Opened
<1> QED BY <1>2, <1>3, <1>4 DEF Lending, StreamType

\* close(): the stream's copies are idle again; once the pool is gone, nothing.
LEMMA ClosesPool ==
  ASSUME StreamType, Life, Lending, NEW s \in Opened, Close(s)
  PROVE  /\ idle' \in Seq(Copies) /\ used' \subseteq Copies
         /\ ~done => used' = used \ Held(s) /\ ToSet(idle') = Idle \cup Held(s) /\ IsInjective(idle')
         /\ done => idle' = <<>> /\ used' = {}
         /\ live' = live \ {s} /\ ops' \in {ops, [ops EXCEPT ![s] = <<>>]}
         /\ blocks' \in [Streams -> BOOLEAN] /\ \A r \in Streams : blocks'[r] => blocks[r] /\ r # s
<1>1. s \in Streams /\ ops[s] \in Seq(Copies)
  BY DEF Opened, StreamType
<1>2. ASSUME ~done, GiveBack(ops[s])
      PROVE  /\ idle' \in Seq(Copies) /\ used' \subseteq Copies
             /\ used' = used \ Held(s) /\ ToSet(idle') = Idle \cup Held(s) /\ IsInjective(idle')
  <2>1. /\ Held(s) \subseteq used /\ IsInjective(ops[s]) /\ IsInjective(idle) /\ Idle \cap used = {}
    BY <1>2, HeldUsed
  <2>2. Lent(ops[s]) = ops[s]
    BY <1>1, <2>1, LentBack DEF Held
  <2>3. idle' = idle \o ops[s] /\ used' = used \ ToSet(ops[s])
    BY <1>2, <2>2 DEF GiveBack
  <2>4. idle \in Seq(Copies) /\ ToSet(idle) \cap ToSet(ops[s]) = {}
    BY <2>1 DEF StreamType, Idle, Held
  <2>5. idle' \in Seq(Copies) /\ ToSet(idle') = ToSet(idle) \cup ToSet(ops[s]) /\ IsInjective(idle')
    BY <1>1, <2>1, <2>3, <2>4, SetConcat
  <2> QED BY <2>3, <2>5 DEF StreamType, Held, Idle
<1>3. ASSUME done
      PROVE  idle = <<>> /\ used = {} /\ live = {} /\ (GiveBack(ops[s]) => idle' = <<>> /\ used' = {})
  <2>1. idle = <<>> /\ used = {} /\ live = {}
    BY <1>3 DEF Lending, FreedOnce
  <2>2. Lent(ops[s]) = <<>>
    BY <1>1, <2>1, LentBack
  <2> QED BY <2>1, <2>2 DEF GiveBack
<1>4. <<>> \in Seq(Copies)
  OBVIOUS
<1>5. CASE /\ kind = "op" /\ s \in live
           /\ live' = live \ {s} /\ blocks' = [blocks EXCEPT ![s] = FALSE]
           /\ GiveBack(ops[s]) /\ ops' = [ops EXCEPT ![s] = <<>>]
  <2>1. ~done
    BY <1>3, <1>5
  <2> QED BY <1>1, <1>2, <1>5, <2>1 DEF StreamType
<1>6. CASE kind = "op" /\ s \notin live /\ UNCHANGED <<live, blocks, ops, idle, used>>
  <2>1. done
    BY <1>6 DEF Life
  <2>2. \A r \in Streams : ~blocks[r]
    BY <2>1 DEF Lending, FreedOnce
  <2> QED BY <1>3, <1>4, <1>6, <2>1, <2>2 DEF StreamType
<1>7. CASE kind # "op" /\ GiveBack(ops[s]) /\ UNCHANGED <<live, blocks, ops>>
  <2>1. live = {} /\ \A r \in Streams : ~blocks[r]
    BY <1>7 DEF Life
  <2> QED BY <1>2, <1>3, <1>4, <1>7, <2>1 DEF StreamType
<1> QED BY <1>5, <1>6, <1>7 DEF Close, poolVars

\* A stream that was open is over: after its last event or another's, and when
\* it is collected.
LEMMA Over ==
  ASSUME OpInv, NEW s \in Opened, Close(s), NEW to \in {"done", "collected"},
         st' = [st EXCEPT ![s] = to], armed' = [armed EXCEPT ![s] = FALSE],
         running' = {}, want' \in Nat, running \subseteq {s},
         hist' \in Seq(Seq(Events)), Len(hist') = Len(hist), hist'[raw] = hist[raw],
         \A o \in Objects : hist'[o] = hist[o] \/ o \in Held(s),
         hist' = hist \/ ~done,
         UNCHANGED <<kind, deletes, nEv, row, forgot, disposed, done, holds>>
  PROVE  OpInv'
<1>1. /\ idle' \in Seq(Copies) /\ used' \subseteq Copies
      /\ ~done => used' = used \ Held(s) /\ ToSet(idle') = Idle \cup Held(s) /\ IsInjective(idle')
      /\ done => idle' = <<>> /\ used' = {}
      /\ live' = live \ {s} /\ ops' \in {ops, [ops EXCEPT ![s] = <<>>]}
      /\ blocks' \in [Streams -> BOOLEAN] /\ \A r \in Streams : blocks'[r] => blocks[r] /\ r # s
  BY ClosesPool DEF OpInv
<1>2. /\ s \in Streams /\ Copies' = Copies /\ Objects' = Objects /\ Objects = 1 .. Len(hist)
      /\ Opened' = Opened \ {s} /\ \A r \in Opened' : r # s /\ ops'[r] = ops[r]
      /\ Len(hist) \in Nat \ {0}
  <2>1. s \in Streams /\ Len(hist) \in Nat \ {0} /\ Objects = 1 .. Len(hist)
    BY DEF OpInv, StreamType, Opened, Objects
  <2>2. Copies' = Copies /\ Objects' = Objects
    BY <2>1 DEF Copies, Objects
  <2>3. Opened' = Opened \ {s}
    BY <2>1 DEF OpInv, StreamType, Opened
  <2>4. \A r \in Streams : r # s => ops'[r] = ops[r]
    BY <1>1, <2>1 DEF OpInv, StreamType
  <2> QED BY <2>1, <2>2, <2>3, <2>4 DEF Opened
<1>3. StreamType'
  <2>1. \A r \in Streams : ops'[r] \in Seq(Copies)
    <3>1. <<>> \in Seq(Copies)
      OBVIOUS
    <3> QED BY <1>1, <3>1 DEF OpInv, StreamType
  <2>2. DOMAIN ops' = Streams
    BY <1>1 DEF OpInv, StreamType
  <2>3. st' \in [Streams -> StreamStages] /\ armed' \in [Streams -> BOOLEAN]
    BY DEF OpInv, StreamType, StreamStages
  <2> QED BY <1>1, <1>2, <2>1, <2>2, <2>3 DEF OpInv, StreamType
<1>4. Life'
  <2>1. \A r \in Streams : armed'[r] <=> st'[r] = "open"
    BY <1>2 DEF OpInv, StreamType, Life
  <2>2. Reachable' => Reachable
    BY <1>2 DEF OpInv, StreamType, Reachable
  <2>3. live' = IF kind' = "op" /\ ~done' THEN Opened' ELSE {}
    BY <1>1, <1>2 DEF OpInv, Life
  <2>4. \A r \in Streams : blocks'[r] => r \in live'
    BY <1>1 DEF OpInv, Life
  <2> QED BY <2>1, <2>2, <2>3, <2>4 DEF OpInv, Life
<1>5. Lending'
  <2>1. ASSUME ~done
        PROVE  OwnCopies' /\ \A r \in Opened' : IsInjective(ops'[r])
    <3>1. /\ \A r \in Opened : Held(r) \subseteq used /\ IsInjective(ops[r])
          /\ \A q, r \in Opened : q # r => Held(q) \cap Held(r) = {}
          /\ Idle \cap used = {} /\ Idle \cup used = Copies
          /\ \A c \in used : \E r \in Opened : c \in Held(r)
      BY <2>1, HeldUsed DEF OpInv
    <3>2. \A r \in Opened' : Held(r)' = Held(r) /\ r \in Opened /\ r # s
      BY <1>2 DEF Held
    <3>3. Objects' \ {raw} = Copies
      BY <1>2 DEF Copies, raw
    <3>4. IsInjective(idle') /\ Idle' \cap used' = {} /\ Idle' \cup used' = Objects' \ {raw}
      BY <1>1, <2>1, <3>1, <3>3 DEF Idle
    <3>5. \A q, r \in Opened' : q # r => Held(q)' \cap Held(r)' = {}
      BY <3>1, <3>2
    <3>6. used' = UNION {Held(r)' : r \in Opened'}
      <4>1. \A c \in used' : \E r \in Opened' : c \in Held(r)
        BY <1>1, <1>2, <2>1, <3>1
      <4>2. \A r \in Opened' : Held(r) \subseteq used'
        BY <1>1, <2>1, <3>1, <3>2
      <4> QED BY <3>2, <4>1, <4>2
    <3> QED BY <1>2, <3>1, <3>2, <3>4, <3>5, <3>6 DEF OwnCopies, Opened
  <2>2. \A o \in Objects' : deletes'[o] = IF done' THEN 1 ELSE 0
    BY <1>2 DEF OpInv, Lending, FreedOnce
  <2>3. done' => live' = {} /\ idle' = <<>> /\ used' = {} /\ running' = {} /\ \A r \in Streams : ~blocks'[r]
    BY <1>1 DEF OpInv, Lending, FreedOnce
  <2>4. done => OwnCopies'
    BY DEF OwnCopies
  <2> QED BY <2>1, <2>2, <2>3, <2>4 DEF Lending, FreedOnce
<1>6. Columns'
  <2>1. \A r \in Streams : st'[r] \in {"none", "made"} => nEv'[r] = 0 /\ ops'[r] = <<>>
    BY <1>1, <1>2 DEF OpInv, StreamType, Columns
  <2>2. ASSUME ~done, NEW r \in Opened'
        PROVE  /\ kind' # "op" => Len(ops'[r]) = 1
               /\ ops'[r] = <<>> <=> nEv'[r] = 0 /\ kind' = "op"
               /\ \A c \in Held(r)' : hist'[c] = Upto(r, nEv'[r])
    <3>1. r \in Opened /\ r # s /\ ops'[r] = ops[r] /\ r \notin running /\ Held(r)' = Held(r)
      BY <1>2 DEF Held
    <3>2. \A c \in Held(r) : c \in Objects /\ hist'[c] = hist[c]
      BY <1>2, <2>2, <3>1, HeldUsed DEF OpInv, Copies
    <3> QED BY <2>2, <3>1, <3>2 DEF OpInv, Columns
  <2> QED BY <2>1, <2>2 DEF Columns, Upto
<1>7. RunsAlone'
  BY DEF OpInv, RunsAlone
<1> QED BY <1>3, <1>4, <1>5, <1>6, <1>7 DEF OpInv

\* A step that opens and closes no stream and runs no object but the operator's
\* own.
LEMMA Aside ==
  ASSUME OpInv, Quiet, hist' \in Seq(Seq(Events)), Len(hist') = Len(hist),
         \A o \in Copies : hist'[o] = hist[o], \A e \in ToSet(hist'[raw]) : e.run = ofLive,
         st' \in [Streams -> StreamStages], \A r \in Streams : st'[r] = "open" <=> st[r] = "open",
         \A r \in Streams : st'[r] \in {"none", "made"} => st[r] \in {"none", "made"},
         forgot' \in [Streams -> BOOLEAN], holds' \in BOOLEAN, done /\ Reachable' => Reachable,
         UNCHANGED <<kind, deletes, idle, used, live, ops, blocks, armed, runVars, disposed, done>>
  PROVE  OpInv'
<1>1. /\ UNCHANGED <<kind, deletes, idle, used, live, ops, blocks, armed, nEv, row, running, want,
                     disposed, done>>
      /\ running = {}
  BY DEF runVars, Quiet
<1>2. /\ Copies' = Copies /\ Objects' = Objects /\ Objects = 1 .. Len(hist) /\ Opened' = Opened
  BY DEF OpInv, StreamType, Opened, Copies, Objects
<1>3. StreamType'
  BY <1>1, <1>2 DEF OpInv, StreamType
<1>4. Life'
  BY <1>1, <1>2 DEF OpInv, Life
<1>5. Lending'
  <2>1. OwnCopies' = OwnCopies
    <3>1. {r \in Streams : st'[r] = "open"} = {r \in Streams : st[r] = "open"}
      OBVIOUS
    <3>2. \A r \in Streams : Held(r)' = Held(r)
      BY <1>1 DEF Held
    <3> QED BY <1>1, <1>2, <3>1, <3>2 DEF OwnCopies, Idle
  <2> QED BY <1>1, <1>2, <2>1 DEF OpInv, Lending, FreedOnce
<1>6. Columns'
  <2>1. \A r \in Streams : st'[r] \in {"none", "made"} => nEv'[r] = 0 /\ ops'[r] = <<>>
    BY <1>1 DEF OpInv, Columns
  <2>2. ASSUME ~done, NEW r \in Opened
        PROVE  /\ kind # "op" => Len(ops[r]) = 1
               /\ ops[r] = <<>> <=> nEv[r] = 0 /\ kind = "op"
               /\ \A c \in Held(r) : hist'[c] = Upto(r, nEv[r])
    <3>1. Held(r) \subseteq Copies
      BY <2>2, HeldUsed DEF OpInv
    <3> QED BY <1>1, <2>2, <3>1 DEF OpInv, Columns
  <2>3. \A r \in Streams : Held(r)' = Held(r)
    BY <1>1 DEF Held
  <2>4. \A r \in Opened' : r \in Streams
    BY DEF Opened
  <2> QED BY <1>1, <1>2, <2>1, <2>2, <2>3, <2>4 DEF Columns
<1>7. RunsAlone'
  BY <1>1 DEF OpInv, RunsAlone
<1> QED BY <1>3, <1>4, <1>5, <1>6, <1>7 DEF OpInv

\* Nothing is freed while the program can call the operator.
LEMMA CalledOwned ==
  ASSUME OpInv, Callable
  PROVE  ~done
BY DEF OpInv, Life, Callable, Reachable

LEMMA RawType ==
  ASSUME StreamType, NEW h \in Seq(Events), OnRaw(h)
  PROVE  /\ hist' \in Seq(Seq(Events)) /\ Len(hist') = Len(hist) /\ hist'[raw] = h
         /\ \A o \in Copies : hist'[o] = hist[o]
<1>1. hist \in Seq(Seq(Events)) /\ Len(hist) > 0 /\ hist' = [hist EXCEPT ![1] = h] /\ Len(hist) \in Nat
  BY DEF StreamType, OnRaw, raw
<1>2. 1 \in 1 .. Len(hist) /\ Copies \subseteq 1 .. Len(hist) /\ 1 \notin Copies
  BY <1>1 DEF Copies
<1> QED BY <1>1, <1>2 DEF raw

\* Calls on the operator itself.
LEMMA CallOp ==
  ASSUME OpInv, LiveEvent \/ Batch \/ ResumeColumns \/ DropOp
  PROVE  OpInv'
<1>1. st \in [Streams -> StreamStages] /\ forgot \in [Streams -> BOOLEAN] /\ holds \in BOOLEAN
  BY DEF OpInv, StreamType
<1>2. CASE LiveEvent
  <2>1. /\ OnRaw(Append(hist[raw], Event(ofLive, Len(hist[raw]) + 1))) /\ Quiet
        /\ UNCHANGED <<kind, deletes, poolVars, openVars, st, forgot, runVars, ownerVars>>
    BY <1>2 DEF LiveEvent, Callable, OnlyRaw
  <2>2. hist[raw] \in Seq(Events) /\ \A e \in ToSet(hist[raw]) : e.run = ofLive
    BY DEF OpInv, StreamType, raw, RunsAlone
  <2>3. Event(ofLive, Len(hist[raw]) + 1) \in Events /\ Event(ofLive, Len(hist[raw]) + 1).run = ofLive
    BY <2>2 DEF Event, Events
  <2>4. /\ Append(hist[raw], Event(ofLive, Len(hist[raw]) + 1)) \in Seq(Events)
        /\ \A e \in ToSet(Append(hist[raw], Event(ofLive, Len(hist[raw]) + 1))) : e.run = ofLive
    BY <2>2, <2>3, SetAppend
  <2>5. /\ hist' \in Seq(Seq(Events)) /\ Len(hist') = Len(hist)
        /\ \A o \in Copies : hist'[o] = hist[o]
        /\ \A e \in ToSet(hist'[raw]) : e.run = ofLive
    BY <2>1, <2>4, RawType DEF OpInv
  <2> QED BY <1>1, <2>1, <2>5, Aside DEF poolVars, openVars, ownerVars, Reachable
<1>3. CASE Batch \/ ResumeColumns
  <2>1. /\ OnRaw(<<>>) /\ Quiet
        /\ UNCHANGED <<kind, deletes, poolVars, openVars, st, forgot, runVars, ownerVars>>
    BY <1>3 DEF Batch, ResumeColumns, Callable, OnlyRaw
  <2>2. <<>> \in Seq(Events)
    OBVIOUS
  <2>3. \A e \in ToSet(<<>>) : e.run = ofLive
    BY <2>2, Sets
  <2>4. /\ hist' \in Seq(Seq(Events)) /\ Len(hist') = Len(hist)
        /\ \A o \in Copies : hist'[o] = hist[o]
        /\ \A e \in ToSet(hist'[raw]) : e.run = ofLive
    BY <2>1, <2>2, <2>3, RawType DEF OpInv
  <2> QED BY <1>1, <2>1, <2>4, Aside DEF poolVars, openVars, ownerVars, Reachable
<1>4. CASE DropOp
  <2>1. /\ Quiet /\ holds' = FALSE
        /\ UNCHANGED <<kind, objectVars, poolVars, openVars, st, forgot, runVars, disposed, done>>
    BY <1>4 DEF DropOp
  <2>2. /\ hist' \in Seq(Seq(Events)) /\ Len(hist') = Len(hist)
        /\ \A o \in Copies : hist'[o] = hist[o]
        /\ \A e \in ToSet(hist'[raw]) : e.run = ofLive
    BY <2>1 DEF OpInv, StreamType, RunsAlone, objectVars
  <2>3. Reachable' => Reachable
    BY <2>1 DEF Reachable
  <2> QED BY <1>1, <2>1, <2>2, <2>3, Aside DEF poolVars, openVars, objectVars
<1> QED BY <1>2, <1>3, <1>4

\* dispose() and the operator's finalizer.
LEMMA FreesOwned ==
  ASSUME OpInv, Dispose \/ CollectOp
  PROVE  OpInv'
<1>1. /\ running = {} /\ ReleaseOwned
      /\ UNCHANGED <<kind, hist, armed, st, forgot, nEv, row, running, want, holds>>
      /\ disposed' \in BOOLEAN /\ (disposed' \/ ~Reachable') /\ (disposed' => disposed \/ done')
      /\ Reachable' = Reachable
  <2>1. /\ running = {} /\ ReleaseOwned
        /\ UNCHANGED <<kind, hist, armed, st, forgot, nEv, row, running, want, holds>>
    BY DEF Dispose, CollectOp, Quiet, runVars
  <2>2. Reachable' = Reachable
    BY <2>1 DEF Reachable
  <2>3. done' \/ done
    BY <2>1 DEF ReleaseOwned, Once
  <2>4. done => done'
    BY <2>1 DEF ReleaseOwned, Once
  <2>5. CASE Dispose
    BY <2>1, <2>2, <2>3, <2>4, <2>5 DEF Dispose
  <2>6. CASE CollectOp
    BY <2>1, <2>2, <2>6 DEF CollectOp, OpInv, StreamType
  <2> QED BY <2>5, <2>6
<1>2. CASE done
  <2>1. UNCHANGED <<done, deletes, idle, used, ops, blocks, live>>
    BY <1>1, <1>2 DEF ReleaseOwned, Once, poolVars
  <2>2. Objects' = Objects /\ Opened' = Opened
    BY <1>1 DEF Objects, Opened
  <2>3. StreamType' /\ Life' /\ Columns' /\ RunsAlone'
    <3>1. StreamType'
      BY <1>1, <2>1 DEF OpInv, StreamType, Copies
    <3>2. Life'
      BY <1>1, <1>2, <2>1, <2>2 DEF OpInv, Life
    <3>3. Columns'
      BY <1>1, <1>2, <2>1 DEF OpInv, Columns
    <3> QED BY <1>1, <3>1, <3>2, <3>3 DEF OpInv, RunsAlone
  <2>4. Lending'
    BY <1>1, <1>2, <2>1, <2>2 DEF OpInv, Lending, FreedOnce, OwnCopies
  <2> QED BY <2>3, <2>4 DEF OpInv
<1>3. CASE ~done
  <2>1. /\ done' = TRUE /\ idle' = <<>> /\ used' = {} /\ live' = {}
        /\ deletes' = [c \in Objects |-> IF c = raw \/ c \in Pooled THEN deletes[c] + 1 ELSE deletes[c]]
        /\ ops' \in {ops, [s \in Streams |-> IF s \in live THEN <<>> ELSE ops[s]]}
        /\ blocks' \in [Streams -> BOOLEAN] /\ \A s \in Streams : ~blocks'[s]
    <3>1. /\ done' = TRUE /\ idle' = <<>> /\ used' = {}
          /\ deletes' = [c \in Objects |-> IF c = raw \/ c \in Pooled THEN deletes[c] + 1 ELSE deletes[c]]
      BY <1>1, <1>3 DEF ReleaseOwned, Once
    <3>2. CASE kind = "op"
      BY <1>1, <1>3, <3>1, <3>2 DEF OpInv, StreamType, Life, ReleaseOwned, Once
    <3>3. CASE kind # "op"
      BY <1>1, <1>3, <3>1, <3>3 DEF OpInv, StreamType, Life, ReleaseOwned, Once
    <3> QED BY <3>2, <3>3
  <2>2. Objects = 1 .. Len(hist) /\ Len(hist) \in Nat /\ Objects' = Objects /\ Opened' = Opened
    BY <1>1 DEF OpInv, StreamType, Objects, Opened
  <2>3. \A o \in Objects : deletes'[o] = 1
    <3>1. \A o \in Objects : deletes[o] = 0 /\ (o = raw \/ o \in Pooled)
      <4>1. Idle \cup used = Copies /\ \A o \in Objects : deletes[o] = 0
        BY <1>3, HeldUsed DEF OpInv
      <4> QED BY <2>2, <4>1 DEF Pooled, Copies, raw
    <3> QED BY <2>1, <3>1
  <2>4. StreamType'
    <3>1. deletes' \in Seq(Nat) /\ Len(deletes') = Len(hist)
      BY <2>1, <2>2, <2>3
    <3>2. <<>> \in Seq(Copies)
      OBVIOUS
    <3>3. DOMAIN ops' = Streams /\ \A s \in Streams : ops'[s] \in Seq(Copies)
      BY <2>1, <3>2 DEF OpInv, StreamType
    <3> QED BY <1>1, <2>1, <3>1, <3>2, <3>3 DEF OpInv, StreamType, Copies
  <2>5. Life'
    BY <1>1, <2>1, <2>2 DEF OpInv, Life
  <2>6. Lending'
    BY <1>1, <2>1, <2>2, <2>3 DEF Lending, FreedOnce, OwnCopies
  <2>7. Columns'
    BY <1>1, <2>1 DEF OpInv, Columns
  <2> QED BY <1>1, <2>4, <2>5, <2>6, <2>7 DEF OpInv, RunsAlone
<1> QED BY <1>2, <1>3

\* What the program does with a generator without asking it for rows.
LEMMA AsideStream ==
  ASSUME OpInv, NEW s \in Streams,
         StreamCall(s) \/ OpenFails(s) \/ Forget(s) \/ (CollectStream(s) /\ ~armed[s])
  PROVE  OpInv'
<1>1. /\ Quiet /\ UNCHANGED <<kind, deletes, poolVars, openVars, runVars, ownerVars>>
      /\ StreamCall(s) => OnRaw(<<>>) /\ st' = [st EXCEPT ![s] = "made"] /\ forgot' = forgot
      /\ ~StreamCall(s) => hist' = hist
      /\ OpenFails(s) => st[s] = "made" /\ st' = [st EXCEPT ![s] = "done"] /\ forgot' = forgot
      /\ Forget(s) => st' = st /\ forgot' = [forgot EXCEPT ![s] = TRUE]
      /\ CollectStream(s) => st' = [st EXCEPT ![s] = "collected"] /\ forgot' = forgot
  <2>1. CASE StreamCall(s)
    BY <2>1 DEF StreamCall, Callable, OpenFails, Forget, CollectStream
  <2>2. CASE OpenFails(s)
    BY <2>2 DEF StreamCall, OpenFails, Forget, CollectStream, objectVars
  <2>3. CASE Forget(s)
    BY <2>3 DEF StreamCall, OpenFails, Forget, CollectStream, objectVars
  <2>4. CASE CollectStream(s) /\ ~armed[s]
    <3>1. armed' = armed
      BY <2>4 DEF CollectStream, Disarm, OpInv, StreamType
    <3> QED BY <2>4, <3>1 DEF StreamCall, OpenFails, Forget, CollectStream, objectVars, poolVars, openVars
  <2> QED BY <2>1, <2>2, <2>3, <2>4
<1>2. /\ hist' \in Seq(Seq(Events)) /\ Len(hist') = Len(hist)
      /\ \A o \in Copies : hist'[o] = hist[o]
      /\ \A e \in ToSet(hist'[raw]) : e.run = ofLive
  <2>1. CASE StreamCall(s)
    <3>1. <<>> \in Seq(Events)
      OBVIOUS
    <3>2. \A e \in ToSet(<<>>) : e.run = ofLive
      BY <3>1, Sets
    <3> QED BY <1>1, <2>1, <3>1, <3>2, RawType DEF OpInv
  <2>2. CASE ~StreamCall(s)
    BY <1>1, <2>2 DEF OpInv, StreamType, RunsAlone
  <2> QED BY <2>1, <2>2
<1>3. /\ st' \in [Streams -> StreamStages] /\ forgot' \in [Streams -> BOOLEAN] /\ holds' \in BOOLEAN
      /\ \A r \in Streams : st'[r] = "open" <=> st[r] = "open"
      /\ \A r \in Streams : st'[r] \in {"none", "made"} => st[r] \in {"none", "made"}
  <2>1. st[s] = "open" <=> armed[s]
    BY DEF OpInv, Life
  <2>2. StreamCall(s) => st[s] = "none"
    BY DEF StreamCall
  <2> QED BY <1>1, <2>1, <2>2 DEF OpInv, StreamType, StreamStages, ownerVars
<1>4. done /\ Reachable' => Reachable
  <2>1. StreamCall(s) => ~done
    BY CalledOwned DEF StreamCall
  <2>2. ~StreamCall(s) /\ Reachable' => Reachable
    BY <1>1 DEF OpInv, StreamType, Reachable, ownerVars
  <2> QED BY <2>1, <2>2
<1> QED BY <1>1, <1>2, <1>3, <1>4, Aside DEF poolVars, openVars, ownerVars

\* A stream ends while no step of it is under way, at a copy that cannot be
\* made, or by its finalizer.
LEMMA EndStream ==
  ASSUME OpInv, NEW s \in Streams, End(s) \/ CopyFails(s) \/ (CollectStream(s) /\ armed[s])
  PROVE  OpInv'
<1>1. s \in Opened /\ running \subseteq {s}
  BY DEF OpInv, Life, Opened, End, CopyFails, CollectStream, Quiet
<1>2. /\ hist' = hist /\ Close(s) /\ armed' = [armed EXCEPT ![s] = FALSE]
      /\ UNCHANGED <<kind, deletes, nEv, row, forgot, disposed, done, holds>>
      /\ running' = {} /\ want' \in Nat
      /\ \E to \in {"done", "collected"} : st' = [st EXCEPT ![s] = to]
  <2>1. CASE End(s) \/ CopyFails(s)
    BY <2>1 DEF End, CopyFails, Finish, Disarm, objectVars, ownerVars
  <2>2. CASE CollectStream(s) /\ armed[s]
    BY <2>2 DEF CollectStream, Disarm, objectVars, runVars, ownerVars, Quiet, OpInv, StreamType
  <2> QED BY <2>1, <2>2
<1>3. hist \in Seq(Seq(Events))
  BY DEF OpInv, StreamType
<1> QED BY <1>1, <1>2, <1>3, Over

\* What a stream has when it took one more copy.
LEMMA Borrowed ==
  ASSUME OpInv, ~done, NEW s \in Streams, Acquire(s), Opened' = Opened \cup {s},
         s \in Opened \/ ops[s] = <<>>, done' = done
  PROVE  /\ hist' \in Seq(Seq(Events)) /\ Len(hist') > 0 /\ hist'[raw] = hist[raw]
         /\ deletes' \in Seq(Nat) /\ Len(deletes') = Len(hist')
         /\ idle' \in Seq(Copies') /\ used' \subseteq Copies'
         /\ DOMAIN ops' = Streams /\ Len(ops'[s]) = Len(ops[s]) + 1
         /\ \A r \in Streams : ops'[r] \in Seq(Copies')
         /\ \A r \in Streams : r # s => ops'[r] = ops[r]
         /\ OwnCopies' /\ \A r \in Opened' : IsInjective(ops'[r])
         /\ \A o \in Objects' : deletes'[o] = 0
         /\ \A r \in Opened : r # s => Held(r)' = Held(r) /\ \A o \in Held(r) : hist'[o] = hist[o]
         /\ \A o \in Held(s)' : hist'[o] = <<>> \/ (o \in Held(s) /\ hist'[o] = hist[o])
<1>1. /\ \A r \in Opened : Held(r) \subseteq used /\ Held(r) \subseteq Copies /\ IsInjective(ops[r])
      /\ \A q, r \in Opened : q # r => Held(q) \cap Held(r) = {}
      /\ Idle \cap used = {} /\ Idle \cup used = Copies
      /\ \A c \in used : \E r \in Opened : c \in Held(r)
  BY HeldUsed DEF OpInv
<1>2. PICK c \in 2 .. Len(hist') :
        /\ c \notin used /\ used' = used \cup {c}
        /\ ops' = [ops EXCEPT ![s] = Append(ops[s], c)]
        /\ hist' \in Seq(Seq(Events)) /\ Len(hist') >= Len(hist) /\ hist'[c] = <<>>
        /\ \A o \in Objects : o # c => hist'[o] = hist[o]
        /\ deletes' \in Seq(Nat) /\ Len(deletes') = Len(hist')
        /\ \A o \in 1 .. Len(hist') : deletes'[o] = 0
        /\ idle' \in Seq(2 .. Len(hist')) /\ IsInjective(idle')
        /\ ToSet(idle') \cap used' = {} /\ ToSet(idle') \cup used' = 2 .. Len(hist')
  BY Taken DEF OpInv
<1>3. /\ Copies' = 2 .. Len(hist') /\ Len(hist') \in Nat \ {0} /\ Len(hist) \in Nat \ {0}
      /\ Objects' = 1 .. Len(hist') /\ Objects = 1 .. Len(hist) /\ Copies \subseteq Copies'
      /\ Copies \subseteq Objects /\ raw \in Objects /\ raw # c
  <2>1. Len(hist') \in Nat \ {0} /\ Len(hist) \in Nat \ {0}
    BY <1>2 DEF OpInv, StreamType
  <2>2. Objects' = 1 .. Len(hist') /\ Objects = 1 .. Len(hist)
    BY <1>2 DEF OpInv, StreamType, Objects
  <2>3. Copies' = 2 .. Len(hist') /\ Copies = 2 .. Len(hist) /\ Len(hist') >= Len(hist) /\ c \in 2 .. Len(hist')
    BY <1>2 DEF Copies
  <2> QED BY <2>1, <2>2, <2>3 DEF raw
<1>4. s \notin Opened => Held(s) = {}
  <2>1. <<>> \in Seq(Nat)
    OBVIOUS
  <2> QED BY <2>1, Sets DEF Held
<1>5. ops[s] \in Seq(Copies') /\ c \in Copies' /\ Held(s) \subseteq Copies
  <2>1. ops[s] \in Seq(Copies)
    BY DEF OpInv, StreamType
  <2>2. ops[s] \in Seq(Copies')
    BY <1>3, <2>1, SeqGrows
  <2>3. ToSet(ops[s]) \subseteq Copies
    BY <2>1, Sets
  <2> QED BY <1>2, <1>3, <2>2, <2>3 DEF Held
<1>6. IsInjective(ops[s]) /\ c \notin Held(s)
  <2>1. CASE s \in Opened
    BY <1>1, <1>2, <2>1
  <2>2. CASE s \notin Opened
    <3>1. <<>> \in Seq(Nat)
      OBVIOUS
    <3> QED BY <1>4, <2>2, <3>1, Sets
  <2> QED BY <2>1, <2>2
<1>7. /\ ops'[s] \in Seq(Copies') /\ Len(ops'[s]) = Len(ops[s]) + 1 /\ IsInjective(ops'[s])
      /\ Held(s)' = Held(s) \cup {c}
  <2>1. ops'[s] = Append(ops[s], c)
    BY <1>2 DEF OpInv, StreamType
  <2> QED BY <1>5, <1>6, <2>1, SetAppend DEF Held
<1>8. \A r \in Streams : r # s => ops'[r] = ops[r] /\ Held(r)' = Held(r)
  BY <1>2 DEF OpInv, StreamType, Held
<1>9. DOMAIN ops' = Streams /\ \A r \in Streams : ops'[r] \in Seq(Copies')
  <2>1. \A r \in Streams : ops[r] \in Seq(Copies')
    <3>1. \A r \in Streams : ops[r] \in Seq(Copies)
      BY DEF OpInv, StreamType
    <3>2. Copies \subseteq Copies'
      BY <1>3
    <3> SUFFICES ASSUME NEW r \in Streams
                 PROVE  ops[r] \in Seq(Copies')
      OBVIOUS
    <3> QED BY <3>1, <3>2, SeqGrows
  <2> QED BY <1>2, <1>7, <1>8, <2>1 DEF OpInv, StreamType
<1>10. OwnCopies'
  <2>1. Objects' \ {raw} = Copies'
    BY <1>3 DEF raw
  <2>2. IsInjective(idle') /\ Idle' \cap used' = {} /\ Idle' \cup used' = Objects' \ {raw}
    BY <1>2, <1>3, <2>1 DEF Idle
  <2>3. \A q, r \in Opened' : q # r => Held(q)' \cap Held(r)' = {}
    <3>1. \A r \in Opened : c \notin Held(r)
      BY <1>1, <1>2
    <3>2. \A r \in Opened : r # s => Held(s) \cap Held(r) = {}
      BY <1>1, <1>4
    <3>3. \A r \in Opened : r \in Streams
      BY DEF Opened
    <3> QED BY <1>1, <1>7, <1>8, <3>1, <3>2, <3>3
  <2>4. used' = UNION {Held(r)' : r \in Opened'}
    <3>1. \A r \in Opened' : Held(r)' \subseteq used'
      <4>1. Held(s) \subseteq used
        BY <1>1, <1>4
      <4>2. \A r \in Opened : r \in Streams
        BY DEF Opened
      <4>3. used' = used \cup {c} /\ \A r \in Opened : Held(r) \subseteq used
        BY <1>1, <1>2
      <4>4. Held(s)' \subseteq used'
        BY <1>7, <4>1, <4>3
      <4>5. ASSUME NEW r \in Opened', r # s PROVE Held(r)' \subseteq used'
        BY <1>8, <4>2, <4>3, <4>5
      <4> QED BY <4>4, <4>5
    <3>2. \A o \in used' : \E r \in Opened' : o \in Held(r)'
      <4> SUFFICES ASSUME NEW o \in used'
                   PROVE  \E r \in Opened' : o \in Held(r)'
        OBVIOUS
      <4>1. CASE o = c
        BY <1>7, <4>1
      <4>2. CASE o \in used
        <5>1. PICK r \in Opened : o \in Held(r)
          BY <1>1, <4>2
        <5>2. r \in Streams /\ r \in Opened'
          BY <5>1 DEF Opened
        <5> QED BY <1>7, <1>8, <5>1, <5>2
      <4> QED BY <1>2, <4>1, <4>2
    <3> QED BY <3>1, <3>2
  <2> QED BY <2>2, <2>3, <2>4 DEF OwnCopies, Opened
<1>11. \A r \in Opened' : IsInjective(ops'[r])
  BY <1>1, <1>7, <1>8 DEF Opened
<1>12. /\ \A r \in Opened : r # s => Held(r)' = Held(r) /\ \A o \in Held(r) : hist'[o] = hist[o]
       /\ \A o \in Held(s)' : hist'[o] = <<>> \/ (o \in Held(s) /\ hist'[o] = hist[o])
  <2>1. \A o \in Copies : o # c => hist'[o] = hist[o]
    BY <1>2, <1>3
  <2>2. \A r \in Opened : r \in Streams /\ Held(r) \subseteq Copies /\ c \notin Held(r)
    BY <1>1, <1>2 DEF Opened
  <2>3. \A r \in Opened : r # s => Held(r)' = Held(r) /\ \A o \in Held(r) : hist'[o] = hist[o]
    BY <1>8, <2>1, <2>2
  <2>4. hist'[c] = <<>> /\ \A o \in Held(s) : hist'[o] = hist[o]
    BY <1>2, <1>5, <1>6, <2>1
  <2> QED BY <1>7, <2>3, <2>4
<1>13. hist'[raw] = hist[raw]
  BY <1>2, <1>3
<1>14. \A o \in Objects' : deletes'[o] = 0
  BY <1>2, <1>3
<1>15. idle' \in Seq(Copies') /\ used' \subseteq Copies' /\ Len(hist') > 0
  <2>1. Copies' = 2 .. Len(hist') /\ Len(hist') > 0
    BY <1>3
  <2>2. idle' \in Seq(2 .. Len(hist')) /\ used' \subseteq 2 .. Len(hist')
    BY <1>2
  <2> QED BY <2>1, <2>2
<1> QED BY <1>2, <1>7, <1>8, <1>9, <1>10, <1>11, <1>12, <1>13, <1>14, <1>15

\* The first next() of a stream.
LEMMA OpensStream ==
  ASSUME OpInv, NEW s \in Streams, Open(s)
  PROVE  OpInv'
<1>1. /\ running = {} /\ st[s] = "made" /\ ~done
      /\ st' = [st EXCEPT ![s] = "open"] /\ armed' = [armed EXCEPT ![s] = TRUE]
      /\ UNCHANGED <<kind, blocks, forgot, nEv, row, running, want, disposed, done, holds>>
  BY DEF Open, Quiet, OpInv, Life, Reachable, runVars, ownerVars
<1>2. s \notin Opened /\ Opened' = Opened \cup {s} /\ ops[s] = <<>> /\ nEv[s] = 0
  BY <1>1 DEF OpInv, StreamType, Columns, Opened
<1>3. /\ st' \in [Streams -> StreamStages] /\ armed' \in [Streams -> BOOLEAN]
      /\ \A r \in Streams : armed'[r] <=> st'[r] = "open"
      /\ \A r \in Streams : st'[r] \in {"none", "made"} => r # s /\ st[r] \in {"none", "made"}
  BY <1>1 DEF OpInv, StreamType, StreamStages, Life
<1>4. \A r \in Opened : r # s
  BY <1>2
<1>5. CASE kind = "op"
  <2>1. live' = live \cup {s} /\ UNCHANGED <<ops, hist, deletes, idle, used>>
    BY <1>5 DEF Open, objectVars, poolVars
  <2>2. Copies' = Copies /\ Objects' = Objects
    BY <2>1 DEF Copies, Objects
  <2>3. StreamType'
    BY <1>1, <1>3, <2>1, <2>2 DEF OpInv, StreamType
  <2>4. Life'
    BY <1>1, <1>2, <1>3, <1>5, <2>1 DEF OpInv, Life
  <2>5. Held(s) = {} /\ IsInjective(ops[s]) /\ \A r \in Streams : Held(r)' = Held(r)
    <3>1. <<>> \in Seq(Nat)
      OBVIOUS
    <3> QED BY <1>2, <2>1, <3>1, Sets DEF Held
  <2>6. OwnCopies'
    <3>1. /\ IsInjective(idle) /\ Idle \cap used = {} /\ Idle \cup used = Objects \ {raw}
          /\ used = UNION {Held(r) : r \in Opened}
          /\ \A q, r \in Opened : q # r => Held(q) \cap Held(r) = {}
      BY <1>1 DEF OpInv, Lending, FreedOnce, OwnCopies, Opened
    <3>2. UNION {Held(r)' : r \in Opened'} = UNION {Held(r) : r \in Opened}
      BY <1>2, <2>5 DEF Opened
    <3>3. \A q, r \in Opened' : q # r => Held(q)' \cap Held(r)' = {}
      BY <1>2, <2>5, <3>1 DEF Opened
    <3> QED BY <2>1, <2>2, <3>1, <3>2, <3>3 DEF OwnCopies, Opened, Idle
  <2>7. Lending'
    BY <1>1, <1>2, <2>1, <2>2, <2>5, <2>6 DEF OpInv, Lending, FreedOnce
  <2>8. Columns'
    <3>1. \A c \in Held(s)' : hist'[c] = Upto(s, nEv'[s])
      BY <2>5
    <3>2. \A r \in Opened : Held(r)' = Held(r) /\ r \in Streams
      BY <2>5 DEF Opened
    <3> QED BY <1>1, <1>2, <1>3, <1>5, <2>1, <3>1, <3>2 DEF OpInv, Columns
  <2>9. RunsAlone'
    BY <1>1, <2>1 DEF OpInv, RunsAlone
  <2> QED BY <2>3, <2>4, <2>7, <2>8, <2>9 DEF OpInv
<1>6. CASE kind # "op"
  <2>1. Acquire(s) /\ live' = live
    BY <1>6 DEF Open
  <2>2. /\ hist' \in Seq(Seq(Events)) /\ Len(hist') > 0 /\ hist'[raw] = hist[raw]
        /\ deletes' \in Seq(Nat) /\ Len(deletes') = Len(hist')
        /\ idle' \in Seq(Copies') /\ used' \subseteq Copies'
        /\ DOMAIN ops' = Streams /\ Len(ops'[s]) = Len(ops[s]) + 1
        /\ \A r \in Streams : ops'[r] \in Seq(Copies')
        /\ \A r \in Streams : r # s => ops'[r] = ops[r]
        /\ OwnCopies' /\ \A r \in Opened' : IsInjective(ops'[r])
        /\ \A o \in Objects' : deletes'[o] = 0
        /\ \A r \in Opened : r # s => Held(r)' = Held(r) /\ \A o \in Held(r) : hist'[o] = hist[o]
        /\ \A o \in Held(s)' : hist'[o] = <<>> \/ (o \in Held(s) /\ hist'[o] = hist[o])
    BY <1>1, <1>2, <2>1, Borrowed
  <2>3. StreamType'
    BY <1>1, <1>3, <2>1, <2>2 DEF OpInv, StreamType
  <2>4. Life'
    BY <1>1, <1>3, <1>6, <2>1 DEF OpInv, Life
  <2>5. Lending'
    BY <1>1, <2>2 DEF Lending, FreedOnce
  <2>6. Columns'
    <3>1. Held(s) = {} /\ Len(ops'[s]) = 1 /\ ops'[s] # <<>>
      <4>1. <<>> \in Seq(Nat) /\ Len(<<>>) = 0
        OBVIOUS
      <4>2. ops'[s] \in Seq(Copies') /\ Len(ops'[s]) = 1
        BY <1>2, <2>2, <4>1
      <4> QED BY <1>2, <4>1, <4>2, Sets DEF Held
    <3>2. \A c \in Held(s)' : hist'[c] = Upto(s, nEv'[s])
      BY <1>1, <1>2, <2>2, <3>1 DEF Upto
    <3>3. ASSUME NEW r \in Opened
          PROVE  /\ Len(ops'[r]) = 1 /\ ops'[r] # <<>>
                 /\ \A c \in Held(r)' : hist'[c] = Upto(r, nEv[r])
      <4>1. r \in Streams /\ r # s /\ r \notin running
        BY <1>1, <1>4 DEF Opened
      <4> QED BY <1>1, <1>6, <2>2, <4>1 DEF OpInv, Columns
    <3>4. \A r \in Streams : st'[r] \in {"none", "made"} => nEv'[r] = 0 /\ ops'[r] = <<>>
      <4>1. \A r \in Streams : st[r] \in {"none", "made"} => nEv[r] = 0 /\ ops[r] = <<>>
        BY DEF OpInv, Columns
      <4>2. \A r \in Streams : r # s => ops'[r] = ops[r]
        BY <2>2
      <4> QED BY <1>1, <1>3, <4>1, <4>2
    <3> QED BY <1>1, <1>2, <1>6, <3>1, <3>2, <3>3, <3>4 DEF Columns
  <2>7. RunsAlone'
    BY <1>1, <2>2 DEF OpInv, RunsAlone
  <2> QED BY <2>3, <2>4, <2>5, <2>6, <2>7 DEF OpInv
<1> QED BY <1>5, <1>6

\* The first event of a stream takes a copy for every column.
LEMMA TakesCopy ==
  ASSUME OpInv, NEW s \in Streams, TakeCopy(s)
  PROVE  OpInv'
<1>1. /\ s \in running /\ Len(ops[s]) < want /\ Acquire(s)
      /\ UNCHANGED <<kind, live, blocks, armed, st, forgot, nEv, row, running, want, disposed, done, holds>>
  BY DEF TakeCopy, runVars, ownerVars
<1>2. /\ s \in Opened /\ ~done /\ Opened' = Opened /\ nEv[s] = 1 /\ \A r \in running : r = s
      /\ Opened' = Opened \cup {s}
  BY <1>1 DEF OpInv, Life, Columns, Opened
<1>3. /\ hist' \in Seq(Seq(Events)) /\ Len(hist') > 0 /\ hist'[raw] = hist[raw]
      /\ deletes' \in Seq(Nat) /\ Len(deletes') = Len(hist')
      /\ idle' \in Seq(Copies') /\ used' \subseteq Copies'
      /\ DOMAIN ops' = Streams /\ Len(ops'[s]) = Len(ops[s]) + 1
      /\ \A r \in Streams : ops'[r] \in Seq(Copies')
      /\ \A r \in Streams : r # s => ops'[r] = ops[r]
      /\ OwnCopies' /\ \A r \in Opened' : IsInjective(ops'[r])
      /\ \A o \in Objects' : deletes'[o] = 0
      /\ \A r \in Opened : r # s => Held(r)' = Held(r) /\ \A o \in Held(r) : hist'[o] = hist[o]
      /\ \A o \in Held(s)' : hist'[o] = <<>> \/ (o \in Held(s) /\ hist'[o] = hist[o])
  BY <1>1, <1>2, Borrowed
<1>4. Len(ops[s]) \in Nat /\ want \in Nat /\ kind = "op"
  <2>1. kind # "op" => Len(ops[s]) = 1 /\ want = 1
    BY <1>1, <1>2 DEF OpInv, Columns
  <2>2. Len(ops[s]) \in Nat /\ want \in Nat
    BY DEF OpInv, StreamType
  <2>3. Len(ops[s]) < want
    BY <1>1
  <2>4. ASSUME kind # "op"
        PROVE  FALSE
    BY <2>1, <2>3, <2>4
  <2> QED BY <2>2, <2>4
<1>5. StreamType'
  BY <1>1, <1>3 DEF OpInv, StreamType
<1>6. Life'
  BY <1>1, <1>2 DEF OpInv, Life, Reachable
<1>7. Lending'
  BY <1>1, <1>2, <1>3 DEF Lending, FreedOnce
<1>8. Columns'
  <2>1. \A r \in Streams : st'[r] \in {"none", "made"} => nEv'[r] = 0 /\ ops'[r] = <<>>
    BY <1>1, <1>2, <1>3 DEF OpInv, Columns, Opened
  <2>2. /\ row'[s] = <<>> /\ nEv'[s] > 0 /\ want' > 0
        /\ Len(ops'[s]) = want' \/ (Len(ops'[s]) < want' /\ nEv'[s] = 1)
    <3>1. row[s] = <<>> /\ nEv[s] = 1 /\ want > 0
      BY <1>1, <1>2 DEF OpInv, Columns
    <3>2. Len(ops[s]) < want /\ Len(ops'[s]) = Len(ops[s]) + 1 /\ row' = row /\ nEv' = nEv /\ want' = want
      BY <1>1, <1>3
    <3>3. Len(ops'[s]) = want \/ Len(ops'[s]) < want
      BY <1>4, <3>2
    <3> QED BY <3>1, <3>2, <3>3
  <2>3. \A c \in Held(s)' : hist'[c] = Upto(s, nEv'[s] - 1)
    <3>1. \A c \in Held(s) : hist[c] = Upto(s, 1 - 1)
      BY <1>1, <1>2 DEF OpInv, Columns
    <3>2. Upto(s, 0) = <<>> /\ 1 - 1 = 0
      BY DEF Upto
    <3>3. \A c \in Held(s)' : hist'[c] = <<>>
      BY <1>3, <3>1, <3>2
    <3> QED BY <1>1, <1>2, <3>2, <3>3
  <2>4. ASSUME NEW r \in Opened, r # s
        PROVE  /\ ops'[r] = <<>> <=> nEv'[r] = 0
               /\ \A c \in Held(r)' : hist'[c] = Upto(r, nEv'[r])
    <3>1. r \in Streams /\ r \notin running
      BY <1>2, <2>4 DEF Opened
    <3>2. /\ ops[r] = <<>> <=> nEv[r] = 0
          /\ \A c \in Held(r) : hist[c] = Upto(r, nEv[r])
      BY <1>2, <1>4, <3>1 DEF OpInv, Columns
    <3>3. ops'[r] = ops[r] /\ Held(r)' = Held(r) /\ \A o \in Held(r) : hist'[o] = hist[o]
      BY <1>3, <2>4, <3>1
    <3> QED BY <1>1, <3>2, <3>3
  <2> QED BY <1>1, <1>2, <1>4, <2>1, <2>2, <2>3, <2>4 DEF Columns
<1>9. RunsAlone'
  BY <1>1, <1>3 DEF OpInv, RunsAlone
<1> QED BY <1>5, <1>6, <1>7, <1>8, <1>9 DEF OpInv

\* next(): the sources gave an event.
LEMMA StartsStep ==
  ASSUME OpInv, NEW s \in Streams, NEW k \in 1 .. MaxColumns, StartStep(s, k)
  PROVE  OpInv'
<1>1. /\ running = {} /\ st[s] = "open" /\ ~forgot[s] /\ ~done
      /\ k = 1 \/ kind = "op"
      /\ ops[s] # <<>> => k = Len(ops[s])
      /\ running' = {s} /\ want' = k
      /\ nEv' = [nEv EXCEPT ![s] = @ + 1] /\ row' = [row EXCEPT ![s] = <<>>]
      /\ UNCHANGED <<kind, hist, deletes, idle, used, live, ops, blocks, armed, st, forgot,
                     disposed, done, holds>>
  BY DEF StartStep, Quiet, MayStep, OpInv, Life, Reachable, objectVars, poolVars, openVars, ownerVars
<1>2. /\ s \in Opened /\ Opened' = Opened /\ Copies' = Copies /\ Objects' = Objects /\ k \in Nat /\ k > 0
      /\ nEv[s] \in Nat
  <2>1. k \in Nat /\ k > 0
    BY BoundAssumption
  <2> QED BY <1>1, <2>1 DEF OpInv, StreamType, Opened, Copies, Objects
<1>3. /\ nEv'[s] = nEv[s] + 1 /\ row'[s] = <<>>
      /\ \A r \in Streams : r # s => nEv'[r] = nEv[r] /\ row'[r] = row[r]
  BY <1>1 DEF OpInv, StreamType
<1>4. StreamType'
  BY <1>1, <1>2 DEF OpInv, StreamType
<1>5. Life'
  BY <1>1, <1>2 DEF OpInv, Life, Reachable
<1>6. \A r \in Streams : Held(r)' = Held(r)
  BY <1>1 DEF Held
<1>7. Lending'
  <2>1. OwnCopies' = OwnCopies
    BY <1>1, <1>2, <1>6 DEF OwnCopies, Idle
  <2> QED BY <1>1, <1>2, <2>1 DEF OpInv, Lending, FreedOnce
<1>8. Columns'
  <2>1. \A r \in Streams : st'[r] \in {"none", "made"} => nEv'[r] = 0 /\ ops'[r] = <<>>
    BY <1>1, <1>3 DEF OpInv, Columns
  <2>2. Len(ops[s]) = k \/ (Len(ops[s]) < k /\ nEv'[s] = 1)
    <3>1. CASE ops[s] # <<>>
      BY <1>1, <3>1
    <3>2. CASE ops[s] = <<>>
      <4>1. nEv[s] = 0 /\ Len(ops[s]) = 0
        BY <1>1, <1>2, <3>2 DEF OpInv, Columns
      <4> QED BY <1>2, <1>3, <4>1
    <3> QED BY <3>1, <3>2
  <2>3. /\ row'[s] = <<>> /\ nEv'[s] > 0 /\ want' > 0 /\ (kind' # "op" => want' = 1)
        /\ Len(ops'[s]) = want' \/ (Len(ops'[s]) < want' /\ nEv'[s] = 1)
    BY <1>1, <1>2, <1>3, <2>2
  <2>4. \A c \in Held(s)' : hist'[c] = Upto(s, nEv'[s] - 1)
    <3>1. \A c \in Held(s) : hist[c] = Upto(s, nEv[s])
      BY <1>1, <1>2 DEF OpInv, Columns
    <3>2. nEv'[s] - 1 = nEv[s]
      BY <1>2, <1>3
    <3> QED BY <1>1, <1>2, <1>6, <3>1, <3>2 DEF Opened
  <2>5. ASSUME NEW r \in Opened
        PROVE  /\ kind # "op" => Len(ops[r]) = 1
               /\ r # s => /\ ops[r] = <<>> <=> nEv'[r] = 0 /\ kind = "op"
                           /\ \A c \in Held(r) : hist[c] = Upto(r, nEv'[r])
    <3>1. r \in Streams /\ r \notin running
      BY <1>1 DEF Opened
    <3> QED BY <1>1, <1>3, <3>1 DEF OpInv, Columns
  <2>6. \A r \in Opened' : r \in Streams /\ r \in Opened
    BY <1>2 DEF Opened
  <2> QED BY <1>1, <1>2, <1>6, <2>1, <2>3, <2>4, <2>5, <2>6 DEF Columns
<1>9. RunsAlone'
  <2>1. <<>> \in Seq(Nat)
    OBVIOUS
  <2>2. DOMAIN row'[s] = {}
    BY <1>3, <2>1
  <2> QED BY <1>1, <1>3, <2>2 DEF OpInv, RunsAlone
<1> QED BY <1>4, <1>5, <1>7, <1>8, <1>9 DEF OpInv

\* An event goes through the first columns of the stream, or through all.
LEMMA Evaluates ==
  ASSUME OpInv, NEW s \in Streams, NEW ran \in Nat, ran <= want, Evaluate(s, ran)
  PROVE  /\ s \in Opened /\ running = {s} /\ ~done /\ Len(ops[s]) = want
         /\ hist' \in Seq(Seq(Events)) /\ Len(hist') = Len(hist) /\ hist'[raw] = hist[raw]
         /\ \A o \in Objects : hist'[o] = hist[o] \/ o \in Held(s)
         /\ ran = want => \A o \in Held(s) : hist'[o] = Upto(s, nEv[s])
         /\ UNCHANGED <<kind, deletes, forgot, nEv, disposed, done, holds>>
<1> DEFINE on == {ops[s][c] : c \in 1 .. ran}
<1>1. /\ s \in running /\ Len(ops[s]) = want
      /\ hist' = [o \in Objects |-> IF o \in on THEN Append(hist[o], Event(s, nEv[s])) ELSE hist[o]]
      /\ UNCHANGED <<kind, deletes, forgot, nEv, disposed, done, holds>>
  BY DEF Evaluate, ObjectOf, ownerVars
<1>2. s \in Opened /\ running = {s} /\ ~done /\ nEv[s] \in Nat /\ nEv[s] > 0
  BY <1>1 DEF OpInv, StreamType, Life, Columns, Opened
<1>3. Held(s) \subseteq Copies /\ \A o \in Held(s) : hist[o] = Upto(s, nEv[s] - 1)
  BY <1>2, HeldUsed DEF OpInv, Columns
<1>4. on \subseteq Held(s) /\ (ran = want => on = Held(s))
  <2>1. /\ \A i \in 1 .. Len(ops[s]) : ops[s][i] \in ToSet(ops[s])
        /\ \A c \in ToSet(ops[s]) : \E i \in 1 .. Len(ops[s]) : ops[s][i] = c
    <3>1. ops[s] \in Seq(Copies)
      BY DEF OpInv, StreamType
    <3> QED BY <3>1, Sets
  <2>2. 1 .. ran \subseteq 1 .. want
    BY DEF OpInv, StreamType
  <2> QED BY <1>1, <2>1, <2>2 DEF Held
<1> HIDE DEF on
<1>5. /\ Objects = 1 .. Len(hist) /\ Len(hist) \in Nat \ {0} /\ Copies \subseteq Objects
      /\ raw \in Objects /\ raw \notin Copies
      /\ \A o \in Objects : hist[o] \in Seq(Events)
  BY DEF OpInv, StreamType, Objects, Copies, raw
<1>6. Event(s, nEv[s]) \in Events
  BY <1>2 DEF Event, Events
<1>7. \A o \in Objects : hist'[o] \in Seq(Events)
  BY <1>1, <1>5, <1>6
<1>8. hist' \in Seq(Seq(Events)) /\ Len(hist') = Len(hist)
  <2>1. DOMAIN hist' = 1 .. Len(hist) /\ hist' = [o \in 1 .. Len(hist) |-> hist'[o]]
    BY <1>1, <1>5
  <2> QED BY <1>5, <1>7, <2>1
<1>9. \A o \in Objects : hist'[o] = hist[o] \/ o \in Held(s)
  BY <1>1, <1>4
<1>10. hist'[raw] = hist[raw]
  BY <1>1, <1>3, <1>4, <1>5
<1>11. ASSUME ran = want, NEW o \in Held(s)
       PROVE  hist'[o] = Upto(s, nEv[s])
  <2>1. o \in on /\ o \in Objects
    BY <1>3, <1>4, <1>5, <1>11
  <2>2. hist'[o] = Append(Upto(s, nEv[s] - 1), Event(s, nEv[s]))
    BY <1>1, <1>3, <2>1
  <2> QED BY <1>2, <2>2, UptoNext
<1> QED BY <1>1, <1>2, <1>8, <1>9, <1>10, <1>11

\* The event's row: what the objects of the stream return.
LEMMA EmitsRow ==
  ASSUME OpInv, NEW s \in Streams, Emit(s)
  PROVE  OpInv'
<1>1. /\ Evaluate(s, want)
      /\ row' = [row EXCEPT ![s] = [c \in 1 .. want |-> hist'[ops[s][c]]]]
      /\ blocks' = [blocks EXCEPT ![s] = want > 1]
      /\ running' = {} /\ want' = 0
      /\ UNCHANGED <<idle, used, live, ops, armed, st>>
  BY DEF Emit, ObjectOf, poolVars
<1>2. want \in Nat /\ want <= want
  BY DEF OpInv, StreamType
<1>3. /\ s \in Opened /\ running = {s} /\ ~done /\ Len(ops[s]) = want
      /\ hist' \in Seq(Seq(Events)) /\ Len(hist') = Len(hist) /\ hist'[raw] = hist[raw]
      /\ \A o \in Objects : hist'[o] = hist[o] \/ o \in Held(s)
      /\ \A o \in Held(s) : hist'[o] = Upto(s, nEv[s])
      /\ UNCHANGED <<kind, deletes, forgot, nEv, disposed, done, holds>>
  BY <1>1, <1>2, Evaluates
<1>4. /\ Opened' = Opened /\ Copies' = Copies /\ Objects' = Objects /\ Objects = 1 .. Len(hist)
      /\ Copies \subseteq Objects
  BY <1>1, <1>3 DEF OpInv, StreamType, Opened, Copies, Objects
<1>5. want > 0 /\ (kind # "op" => want = 1) /\ nEv[s] > 0
  BY <1>3 DEF OpInv, Columns
<1>6. StreamType'
  BY <1>1, <1>3, <1>4 DEF OpInv, StreamType
<1>7. Life'
  <2>1. want > 1 => s \in live
    BY <1>2, <1>3, <1>5 DEF OpInv, Life
  <2>2. \A r \in Streams : blocks'[r] => r \in live
    BY <1>1, <2>1 DEF OpInv, StreamType, Life
  <2> QED BY <1>1, <1>3, <1>4, <2>2 DEF OpInv, Life
<1>8. \A r \in Streams : Held(r)' = Held(r)
  BY <1>1 DEF Held
<1>9. Lending'
  <2>1. OwnCopies' = OwnCopies
    BY <1>1, <1>3, <1>4, <1>8 DEF OwnCopies, Idle
  <2> QED BY <1>1, <1>3, <1>4, <2>1 DEF OpInv, Lending, FreedOnce
<1>10. Columns'
  <2>1. \A r \in Streams : st'[r] \in {"none", "made"} => nEv'[r] = 0 /\ ops'[r] = <<>>
    BY <1>1, <1>3 DEF OpInv, Columns
  <2>2. ops[s] # <<>> /\ (kind # "op" => Len(ops[s]) = 1)
    <3>1. <<>> \in Seq(Nat) /\ Len(<<>>) = 0
      OBVIOUS
    <3> QED BY <1>3, <1>5, <3>1
  <2>3. ASSUME NEW r \in Opened, r # s
        PROVE  /\ kind # "op" => Len(ops[r]) = 1
               /\ ops[r] = <<>> <=> nEv[r] = 0 /\ kind = "op"
               /\ \A c \in Held(r) : hist'[c] = Upto(r, nEv[r])
    <3>1. r \in Streams /\ r \notin running /\ Held(r) \subseteq Objects /\ Held(r) \cap Held(s) = {}
      BY <1>3, <1>4, <2>3, HeldUsed DEF Opened, OpInv
    <3>2. /\ kind # "op" => Len(ops[r]) = 1
          /\ ops[r] = <<>> <=> nEv[r] = 0 /\ kind = "op"
          /\ \A c \in Held(r) : hist[c] = Upto(r, nEv[r])
      BY <1>3, <3>1 DEF OpInv, Columns
    <3> QED BY <1>3, <3>1, <3>2
  <2>4. \A r \in Opened' : r \in Streams /\ r \in Opened
    BY <1>4 DEF Opened
  <2>5. ASSUME NEW r \in Opened'
        PROVE  /\ kind' # "op" => Len(ops'[r]) = 1
               /\ ops'[r] = <<>> <=> nEv'[r] = 0 /\ kind' = "op"
               /\ \A c \in Held(r)' : hist'[c] = Upto(r, nEv'[r])
    <3>1. ops'[r] = ops[r] /\ nEv'[r] = nEv[r] /\ kind' = kind /\ Held(r)' = Held(r) /\ r \in Opened
      BY <1>1, <1>3, <1>8, <2>4
    <3>2. CASE r = s
      <4>1. nEv[s] # 0 /\ ops[s] # <<>> /\ (kind # "op" => Len(ops[s]) = 1)
        BY <1>5, <2>2 DEF OpInv, StreamType
      <4>2. \A o \in Held(s) : hist'[o] = Upto(s, nEv[s])
        BY <1>3
      <4> QED BY <3>1, <3>2, <4>1, <4>2
    <3>3. CASE r # s
      BY <2>3, <3>1, <3>3
    <3> QED BY <3>2, <3>3
  <2>6. running' = {}
    BY <1>1
  <2> QED BY <2>1, <2>5, <2>6 DEF Columns
<1>11. RunsAlone'
  <2>1. \A c \in 1 .. want : ops[s][c] \in Held(s)
    <3>1. ops[s] \in Seq(Copies)
      BY DEF OpInv, StreamType
    <3> QED BY <1>3, <3>1, Sets DEF Held
  <2>2. \A c \in DOMAIN row'[s] : row'[s][c] = Upto(s, nEv[s])
    BY <1>1, <1>3, <2>1 DEF OpInv, StreamType
  <2>3. \A r \in Streams : r # s => row'[r] = row[r]
    BY <1>1 DEF OpInv, StreamType
  <2>4. ASSUME NEW r \in Streams, NEW c \in DOMAIN row'[r]
        PROVE  row'[r][c] = Upto(r, nEv'[r])
    <3>1. CASE r = s
      BY <1>3, <2>2, <2>4, <3>1
    <3>2. CASE r # s
      <4>1. row'[r] = row[r] /\ nEv'[r] = nEv[r] /\ c \in DOMAIN row[r]
        BY <1>3, <2>3, <2>4, <3>2
      <4>2. row[r][c] = Upto(r, nEv[r])
        BY <4>1 DEF OpInv, RunsAlone, Upto
      <4> QED BY <4>1, <4>2
    <3> QED BY <3>1, <3>2
  <2>5. \A e \in ToSet(hist'[raw]) : e.run = ofLive
    BY <1>3 DEF OpInv, RunsAlone
  <2> QED BY <2>4, <2>5 DEF RunsAlone, Upto
<1> QED BY <1>6, <1>7, <1>9, <1>10, <1>11 DEF OpInv

\* The C++ code raises at a column.
LEMMA Raises ==
  ASSUME OpInv, NEW s \in Streams, NEW ran \in 0 .. MaxColumns, Raise(s, ran)
  PROVE  OpInv'
<1>1. /\ Evaluate(s, ran) /\ ran \in Nat /\ ran <= want /\ Close(s)
      /\ st' = [st EXCEPT ![s] = "done"] /\ armed' = [armed EXCEPT ![s] = FALSE]
      /\ running' = {} /\ want' = 0 /\ row' = row
  BY BoundAssumption DEF Raise, Disarm, OpInv, StreamType
<1>2. /\ s \in Opened /\ running = {s} /\ ~done
      /\ hist' \in Seq(Seq(Events)) /\ Len(hist') = Len(hist) /\ hist'[raw] = hist[raw]
      /\ \A o \in Objects : hist'[o] = hist[o] \/ o \in Held(s)
      /\ UNCHANGED <<kind, deletes, forgot, nEv, disposed, done, holds>>
  BY <1>1, Evaluates
<1> QED BY <1>1, <1>2, Over

LEMMA OpNext ==
  ASSUME OpInv, Next
  PROVE  OpInv'
<1>1. CASE LiveEvent \/ Batch \/ ResumeColumns \/ DropOp
  BY <1>1, CallOp
<1>2. CASE Dispose \/ CollectOp
  BY <1>2, FreesOwned
<1>3. ASSUME NEW s \in Streams, OnStream(s)
      PROVE  OpInv'
  <2>1. CASE StreamCall(s) \/ OpenFails(s) \/ Forget(s) \/ (CollectStream(s) /\ ~armed[s])
    BY <2>1, AsideStream
  <2>2. CASE End(s) \/ CopyFails(s) \/ (CollectStream(s) /\ armed[s])
    BY <2>2, EndStream
  <2>3. CASE Open(s) \/ TakeCopy(s) \/ Emit(s)
    BY <2>3, OpensStream, TakesCopy, EmitsRow
  <2>4. CASE \E k \in 1 .. MaxColumns : StartStep(s, k)
    BY <2>4, StartsStep
  <2>5. CASE \E ran \in 0 .. MaxColumns : Raise(s, ran)
    BY <2>5, Raises
  <2> QED BY <1>3, <2>1, <2>2, <2>3, <2>4, <2>5 DEF OnStream
<1> QED BY <1>1, <1>2, <1>3 DEF Next

LEMMA OpInit ==
  ASSUME Init
  PROVE  OpInv
<1>1. /\ kind \in {"op", "reducer", "row"} /\ hist = <<<<>>>> /\ deletes = <<0>>
      /\ idle = <<>> /\ used = {} /\ live = {} /\ running = {} /\ want = 0
      /\ disposed = FALSE /\ done = FALSE /\ holds = TRUE
      /\ st = [s \in Streams |-> "none"] /\ ops = [s \in Streams |-> <<>>]
      /\ blocks = [s \in Streams |-> FALSE] /\ armed = [s \in Streams |-> FALSE]
      /\ forgot = [s \in Streams |-> FALSE] /\ nEv = [s \in Streams |-> 0]
      /\ row = [s \in Streams |-> <<>>]
  BY KindAssumption DEF Init
<1>2. /\ <<>> \in Seq(Events) /\ <<>> \in Seq(Copies)
      /\ hist \in Seq(Seq(Events)) /\ Len(hist) = 1 /\ hist[1] = <<>>
      /\ deletes \in Seq(Nat) /\ Len(deletes) = 1 /\ deletes[1] = 0
  BY <1>1
<1>3. ToSet(<<>>) = {} /\ IsInjective(<<>>) /\ DOMAIN <<>> = {}
  BY <1>2, Sets
<1>4. Opened = {} /\ Objects = {1} /\ Copies = {}
  <2>1. Opened = {}
    BY <1>1 DEF Opened
  <2>2. Objects = 1 .. 1 /\ Copies = 2 .. 1
    BY <1>2 DEF Objects, Copies
  <2> QED BY <2>1, <2>2
<1>5. StreamType
  <2>1. /\ kind \in {"op", "reducer", "row"} /\ used \subseteq Copies /\ live \subseteq Streams
        /\ running \subseteq Streams /\ want \in Nat
        /\ disposed \in BOOLEAN /\ done \in BOOLEAN /\ holds \in BOOLEAN
    BY <1>1
  <2>2. /\ st \in [Streams -> StreamStages] /\ armed \in [Streams -> BOOLEAN]
        /\ forgot \in [Streams -> BOOLEAN] /\ blocks \in [Streams -> BOOLEAN]
        /\ nEv \in [Streams -> Nat] /\ DOMAIN row = Streams
    BY <1>1 DEF StreamStages
  <2>3. idle \in Seq(Copies) /\ DOMAIN ops = Streams /\ \A s \in Streams : ops[s] \in Seq(Copies)
    BY <1>1, <1>2
  <2>4. Len(hist) > 0 /\ Len(deletes) = Len(hist)
    BY <1>2
  <2> QED BY <1>2, <2>1, <2>2, <2>3, <2>4 DEF StreamType
<1>6. Life
  BY <1>1, <1>4 DEF Life
<1>7. Lending
  BY <1>1, <1>2, <1>3, <1>4 DEF Lending, FreedOnce, OwnCopies, Opened, Idle, raw
<1>8. Columns
  BY <1>1, <1>4 DEF Columns
<1>9. RunsAlone
  BY <1>1, <1>2, <1>3 DEF RunsAlone, raw
<1> QED BY <1>5, <1>6, <1>7, <1>8, <1>9 DEF OpInv

-----------------------------------------------------------------------------
(* The theorems about an operator and its streams.                         *)

OperatorInv == part = "operator" => OpInv

LEMMA OperatorInductive ==
  MCSpec => []OperatorInv
<1>1. MCInit => OperatorInv
  BY OpInit DEF MCInit, OperatorInv
<1>2. ASSUME OperatorInv, [MCNext]_mcVars
      PROVE  OperatorInv'
  <2>1. CASE MCNext
    <3>1. part' = part /\ (part = "operator" => Next)
      BY <2>1 DEF MCNext
    <3> QED BY <1>2, <3>1, OpNext DEF OperatorInv
  <2>2. CASE UNCHANGED mcVars
    <3>1. /\ UNCHANGED <<part, kind, hist, deletes, idle, used, live, ops, blocks, armed, st, forgot>>
          /\ UNCHANGED <<nEv, row, running, want, disposed, done, holds>>
      BY <2>2 DEF mcVars, vars, objectVars, poolVars, openVars, runVars, ownerVars
    <3>2. Objects' = Objects /\ Opened' = Opened /\ Copies' = Copies /\ Reachable' = Reachable
      BY <3>1 DEF Objects, Opened, Copies, Reachable
    <3>3. StreamType' = StreamType /\ Life' = Life
      BY <3>1, <3>2 DEF StreamType, Life
    <3>4. Columns' = Columns
      BY <3>1, <3>2 DEF Columns, Held
    <3>5. Lending' = Lending
      BY <3>1, <3>2 DEF Lending, FreedOnce, OwnCopies, Held, Idle
    <3>6. RunsAlone' = RunsAlone
      BY <3>1 DEF RunsAlone
    <3> QED BY <1>2, <3>1, <3>3, <3>4, <3>5, <3>6 DEF OperatorInv, OpInv
  <2> QED BY <1>2, <2>1, <2>2
<1> QED BY <1>1, <1>2, PTL DEF MCSpec

\* Decision D8 of runtime.ts: whatever live calls, other streams, dispose() and
\* the finalizers do beside it, the last row of a stream is computed on objects
\* that ran exactly the events of that stream, and the operator's own object
\* ran live events only.
THEOREM IndependentRuns == MCSpec => []StreamsAlone
<1>1. OperatorInv => StreamsAlone
  BY DEF OperatorInv, OpInv, StreamsAlone
<1> QED BY <1>1, OperatorInductive, PTL

\* No copy is lent to two streams, lost or deleted twice, none is deleted while
\* a stream runs on it, and all are deleted when what the operator owns is freed.
THEOREM CopiesAccounted == MCSpec => []CopiesFreedOnce
<1>1. OperatorInv => CopiesFreedOnce
  BY DEF OperatorInv, OpInv, Lending, CopiesFreedOnce
<1> QED BY <1>1, OperatorInductive, PTL
=============================================================================
