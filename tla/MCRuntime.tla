----------------------------- MODULE MCRuntime -----------------------------
(***************************************************************************)
(* What runs on WASM objects in the JavaScript package, for TLC: a         *)
(* behaviour is one of an operator and its streams (OpStreams) or of a     *)
(* Pipeline, its sessions and lazy runs (Sessions), as "part" says.  The   *)
(* variables of the other keep their initial value.                        *)
(***************************************************************************)
EXTENDS OpStreams

CONSTANTS PipeKinds,   \* Sessions: how a Pipeline is made,
          MaxRuns,     \* its runs,
          MaxDepth     \* and calls within calls

VARIABLES part, pipe, run, engine, sessions, close, fed, kept, calls

pipeOwn == <<pipe, run, engine, sessions, close, fed, kept, calls>>
streamOwn == <<hist, panel, poolVars, openVars, st, forgot, runVars, ownerVars>>

P == INSTANCE Sessions WITH Kinds <- PipeKinds

ASSUME SessionAssumption == P!BoundAssumption /\ P!KindAssumption

-----------------------------------------------------------------------------
\* The initial values of what a behaviour does not have.
NoPipeline ==
  /\ pipe = "none" /\ run = <<>> /\ engine = <<>> /\ sessions = {} /\ close = <<>>
  /\ fed = <<>> /\ kept = {} /\ calls = <<>>

NoOperator ==
  /\ hist = <<>> /\ panel = FALSE /\ idle = <<>> /\ used = {} /\ live = {} /\ ops = <<>>
  /\ blocks = <<>> /\ armed = <<>> /\ st = <<>> /\ forgot = <<>> /\ nEv = <<>> /\ row = <<>>
  /\ running = {} /\ want = 0 /\ disposed = FALSE /\ done = FALSE /\ holds = FALSE

MCInit ==
  \/ part = "operator" /\ Init /\ NoPipeline
  \/ part = "pipeline" /\ P!Init /\ NoOperator

MCNext ==
  /\ UNCHANGED part
  /\ \/ part = "operator" /\ Next /\ UNCHANGED pipeOwn
     \/ part = "pipeline" /\ P!Next /\ UNCHANGED streamOwn

mcVars == <<part, vars, pipeOwn>>

\* The engine's finalizers run at last.
Finalizes(e) == part = "pipeline" /\ P!FinalizeRun(e) /\ UNCHANGED <<part, streamOwn>>
FinalizesPipe == part = "pipeline" /\ P!FinalizePipe /\ UNCHANGED <<part, streamOwn>>

MCSpec ==
  /\ MCInit /\ [][MCNext]_mcVars
  /\ WF_mcVars(FinalizesPipe) /\ \A e \in 1 .. MaxRuns : WF_mcVars(Finalizes(e))

-----------------------------------------------------------------------------
(* Properties: each is one of OpStreams or of Sessions.                    *)

\* Every stream of an operator is a run of its own (decision D8, runtime.ts).
StreamsAlone == part = "operator" => RunsAlone

\* Every copy is lent to one stream at most, and deleted once.
CopiesFreedOnce == part = "operator" => FreedOnce

\* No engine is deleted twice or lost.
ReleasedOnce == part = "pipeline" => P!ReleasedOnce

\* What the user holds stays open.
HeldStaysOpen == part = "pipeline" => P!HeldStaysOpen

\* An event never reaches an engine that is released.
NoUseAfterRelease == [][part = "pipeline" => P!FedOpen]_mcVars

\* When the user holds nothing any more, all engines are released in the end.
Collected == (part = "pipeline" /\ P!Unheld) ~> (part = "operator" \/ P!AllReleased)
=============================================================================
