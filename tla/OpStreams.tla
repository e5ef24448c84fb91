----------------------------- MODULE OpStreams -----------------------------
(***************************************************************************)
(* One operator of the JavaScript package and its streams (runtime.ts):    *)
(* wrapOp ("op"), wrapReducerOp ("reducer") and wrapRowOp ("row").         *)
(*                                                                         *)
(* A live call runs on the operator's own WASM object.  Every stream is an *)
(* independent run: it takes copies of the object from a pool, one for     *)
(* each asset column, and gives them back when it ends, is closed, or is   *)
(* collected by the JavaScript engine.  dispose(), or the finalizer of the *)
(* operator, frees everything the operator owns, while streams may still   *)
(* be open.                                                                *)
(*                                                                         *)
(* An object's state is the sequence of events it ran since its last       *)
(* reset, so that the state tells which run every event came from.         *)
(***************************************************************************)
EXTENDS Integers, Sequences, SequencesExt

CONSTANTS Kinds,      \* subset of {"op", "reducer", "row"}
          Streams,    \* the streams that may be made of the operator
          MaxColumns, \* the most asset columns of an event
          MaxEvents,  \* bound on the model: events of a stream
          MaxLive,    \* bound on the model: live events since a reset
          Faulty      \* whether a copy or an event may fail

ASSUME KindAssumption == Kinds \subseteq {"op", "reducer", "row"} /\ Faulty \in BOOLEAN
ASSUME BoundAssumption == MaxColumns \in Nat \ {0} /\ MaxEvents \in Nat /\ MaxLive \in Nat

VARIABLES kind,     \* which of the three wrappers
          hist,     \* the events each WASM object ran since its reset
          deletes,  \* how often each WASM object was deleted
          panel,    \* the operator holds the columns of a resume call
          idle,     \* CopyPool: the copies to use again
          used,     \* CopyPool: the copies a stream holds
          live,     \* OpRes.live: the open streams of an "op"
          st,       \* none, made, open, done or collected
          ops,      \* the copies each stream runs on
          blocks,   \* the stream holds heap blocks for its columns
          armed,    \* held.close: the stream's finalizer has work to do
          forgot,   \* the program holds the generator no more
          nEv,      \* the events each stream has read
          row,      \* the last row of each stream: the state of its objects
          running,  \* the stream whose step runs, if any
          want,     \* and the columns of its event
          disposed, \* dispose() was called
          done,     \* what the operator owns is freed
          holds     \* the program holds the operator

objectVars == <<hist, deletes>>
poolVars == <<idle, used>>
openVars == <<live, ops, blocks, armed>>
runVars == <<nEv, row, running, want>>
ownerVars == <<disposed, done, holds>>
vars == <<kind, objectVars, panel, poolVars, openVars, st, forgot, runVars, ownerVars>>

raw == 1                      \* the operator's own object
ofLive == 0                   \* the run of the live calls
Objects == DOMAIN hist
Event(run, n) == [run |-> run, n |-> n]
Idle == ToSet(idle)
Held(s) == ToSet(ops[s])

\* No step of a stream is under way: JavaScript runs one to its end.
Quiet == running = {}
-----------------------------------------------------------------------------
(* The pool of copies.                                                     *)

\* Bug: a copy is used again with the state of its last stream.
Reset_Never(h, c) == h

\* A copy that is used again starts reset.
Reset(h, c) == [h EXCEPT ![c] = <<>>]

\* acquire(): the stream takes one copy, an idle one if there is any.
Acquire(s) ==
  LET c == IF idle # <<>> THEN Last(idle) ELSE Len(hist) + 1
  IN /\ idle' = IF idle # <<>> THEN Front(idle) ELSE idle
     /\ hist' = IF idle # <<>> THEN Reset(hist, c) ELSE Append(hist, <<>>)
     /\ deletes' = IF idle # <<>> THEN deletes ELSE Append(deletes, 0)
     /\ used' = used \cup {c}
     /\ ops' = [ops EXCEPT ![s] = Append(@, c)]

\* release() takes back only what the pool lends.
Lent(cs) ==
  LET lent[n \in 0 .. Len(cs)] ==
        IF n = 0 THEN <<>>
        ELSE IF cs[n] \in used THEN Append(lent[n - 1], cs[n]) ELSE lent[n - 1]
  IN lent[Len(cs)]

GiveBack(cs) ==
  /\ idle' = idle \o Lent(cs)
  /\ used' = used \ ToSet(cs)

\* dispose() deletes every copy, in use or not.
Pooled == Idle \cup used
-----------------------------------------------------------------------------
(* How a stream closes.                                                    *)

\* The stream's close(): an "op" forgets what it gave back and does nothing the
\* second time, the other two give back their copy.
Close(s) ==
  \/ /\ kind = "op" /\ s \in live
     /\ live' = live \ {s}
     /\ blocks' = [blocks EXCEPT ![s] = FALSE]
     /\ GiveBack(ops[s])
     /\ ops' = [ops EXCEPT ![s] = <<>>]
  \/ /\ kind = "op" /\ s \notin live
     /\ UNCHANGED <<live, blocks, ops, poolVars>>
  \/ /\ kind # "op"
     /\ GiveBack(ops[s])
     /\ UNCHANGED <<live, blocks, ops>>

\* Bug: a finished stream leaves its finalizer armed.
Disarm_Never(s) == armed

Disarm(s) == [armed EXCEPT ![s] = FALSE]

\* The finally block of runSync and runAsync.
Finish(s) ==
  /\ st' = [st EXCEPT ![s] = "done"]
  /\ armed' = Disarm(s)
  /\ Close(s)
  /\ running' = {} /\ want' = 0
  /\ UNCHANGED <<kind, objectVars, panel, forgot, nEv, row, ownerVars>>
-----------------------------------------------------------------------------
(* What the operator owns.                                                 *)

Once == ~done

\* release() of OpRes, ReducerRes and RowRes: the open streams give back their
\* copies, then the pool deletes them all, then the operator's own object goes.
ReleaseOwned ==
  IF Once
  THEN /\ done' = TRUE
       /\ deletes' = [c \in Objects |-> IF c = raw \/ c \in Pooled THEN deletes[c] + 1 ELSE deletes[c]]
       /\ idle' = <<>> /\ used' = {}
       /\ IF kind = "op"
          THEN /\ ops' = [s \in Streams |-> IF s \in live THEN <<>> ELSE ops[s]]
               /\ blocks' = [s \in Streams |-> blocks[s] /\ s \notin live]
               /\ live' = {}
          ELSE UNCHANGED <<ops, blocks, live>>
  ELSE UNCHANGED <<done, deletes, poolVars, ops, blocks, live>>

Dispose ==
  /\ Quiet /\ holds /\ ~disposed
  /\ disposed' = TRUE
  /\ ReleaseOwned
  /\ UNCHANGED <<kind, hist, panel, armed, st, forgot, runVars, holds>>

\* The program lets the operator go.
DropOp ==
  /\ Quiet /\ holds
  /\ holds' = FALSE
  /\ UNCHANGED <<kind, objectVars, panel, poolVars, openVars, st, forgot, runVars, disposed, done>>

\* Bug: a generator does not keep its operator alive.
Reachable_NotByStreams == holds

\* A generator that has not ended holds its operator.
Reachable == holds \/ \E s \in Streams : st[s] \in {"made", "open"} /\ ~forgot[s]

\* The operator's finalizer, also after a dispose().
CollectOp ==
  /\ Quiet /\ ~Reachable
  /\ ReleaseOwned
  /\ UNCHANGED <<kind, hist, panel, armed, st, forgot, runVars, disposed, holds>>
-----------------------------------------------------------------------------
(* Calls on the operator.                                                  *)

Callable == Quiet /\ holds /\ ~disposed

OnRaw(h) == hist' = [hist EXCEPT ![raw] = h]

OnlyRaw == UNCHANGED <<kind, deletes, poolVars, openVars, st, forgot, runVars, ownerVars>>

\* A call with one event, or resume() on one series, goes on from the operator's
\* state.  It raises while the operator holds a panel.
LiveEvent ==
  /\ Callable /\ ~panel /\ Len(hist[raw]) < MaxLive
  /\ OnRaw(Append(hist[raw], Event(ofLive, Len(hist[raw]) + 1)))
  /\ OnlyRaw /\ UNCHANGED panel

\* A batch call starts and ends reset, and so does reset().
Batch ==
  /\ Callable
  /\ OnRaw(<<>>) /\ panel' = FALSE
  /\ OnlyRaw

\* resume() on a (T, K) array: the operator then holds K columns.
ResumeColumns ==
  /\ Callable /\ kind = "op" /\ (panel \/ hist[raw] = <<>>)
  /\ OnRaw(<<>>) /\ panel' = TRUE
  /\ OnlyRaw

\* A call with iterators makes a stream and resets the operator.
StreamCall(s) ==
  /\ Callable /\ st[s] = "none" /\ (\A r \in Streams : r < s => st[r] # "none")
  /\ kind = "row" \/ ~panel
  /\ st' = [st EXCEPT ![s] = "made"]
  /\ OnRaw(<<>>) /\ panel' = (kind # "row" /\ panel)
  /\ UNCHANGED <<kind, deletes, poolVars, openVars, forgot, runVars, ownerVars>>
-----------------------------------------------------------------------------
(* The stream.                                                             *)

\* The first next() opens the stream.  A reducer and a row operator take their
\* copy at once.
Open(s) ==
  /\ Quiet /\ st[s] = "made" /\ ~forgot[s] /\ ~disposed
  /\ st' = [st EXCEPT ![s] = "open"]
  /\ armed' = [armed EXCEPT ![s] = TRUE]
  /\ IF kind = "op"
     THEN live' = live \cup {s} /\ UNCHANGED <<ops, objectVars, poolVars>>
     ELSE Acquire(s) /\ UNCHANGED live
  /\ UNCHANGED <<kind, panel, blocks, forgot, runVars, ownerVars>>

\* The operator is disposed, or its copy cannot be made: nothing is held yet.
\* return() before the first next() ends the generator too.
OpenFails(s) ==
  /\ Quiet /\ st[s] = "made" /\ ~forgot[s]
  /\ st' = [st EXCEPT ![s] = "done"]
  /\ UNCHANGED <<kind, objectVars, panel, poolVars, openVars, forgot, runVars, ownerVars>>

MayStep == ~disposed

\* next(): the sources gave an event of k columns.  The first event of an "op"
\* fixes them; numbers are one column.
StartStep(s, k) ==
  /\ Quiet /\ st[s] = "open" /\ ~forgot[s] /\ nEv[s] < MaxEvents /\ MayStep
  /\ k = 1 \/ kind = "op"
  /\ ops[s] # <<>> => k = Len(ops[s])
  /\ running' = {s} /\ want' = k
  /\ nEv' = [nEv EXCEPT ![s] = @ + 1]
  /\ row' = [row EXCEPT ![s] = <<>>]
  /\ UNCHANGED <<kind, objectVars, panel, poolVars, openVars, st, forgot, ownerVars>>

\* The stream ends: a source is exhausted or failed, the event is not of the
\* stream's kind or shape, the operator is disposed, or return() is called.
End(s) ==
  /\ Quiet /\ st[s] = "open" /\ ~forgot[s]
  /\ Finish(s)

\* The first event takes a copy for every column.
TakeCopy(s) ==
  /\ s \in running /\ Len(ops[s]) < want
  /\ Acquire(s)
  /\ UNCHANGED <<kind, panel, live, blocks, armed, st, forgot, runVars, ownerVars>>

\* A copy cannot be made.
CopyFails(s) ==
  /\ s \in running /\ Len(ops[s]) < want /\ idle = <<>> /\ Faulty
  /\ Finish(s)

ObjectOf(s, c) == ops[s][c]

\* The event goes through the first columns of the stream.
Evaluate(s, ran) ==
  /\ s \in running /\ Len(ops[s]) = want
  /\ LET on == {ObjectOf(s, c) : c \in 1 .. ran}
     IN hist' = [o \in Objects |-> IF o \in on THEN Append(hist[o], Event(s, nEv[s])) ELSE hist[o]]
  /\ UNCHANGED <<kind, deletes, panel, forgot, nEv, ownerVars>>

\* The event goes through every column and its row is read off.  A stream of
\* more columns holds heap blocks from then on.
Emit(s) ==
  /\ Evaluate(s, want)
  /\ row' = [row EXCEPT ![s] = [c \in 1 .. want |-> hist'[ObjectOf(s, c)]]]
  /\ blocks' = [blocks EXCEPT ![s] = want > 1]
  /\ running' = {} /\ want' = 0
  /\ UNCHANGED <<poolVars, live, ops, armed, st>>

\* The C++ code raises at a column, after those before it ran: the error passes
\* through the finally block.
Raise(s, ran) ==
  /\ Faulty /\ ran < want
  /\ Evaluate(s, ran)
  /\ st' = [st EXCEPT ![s] = "done"]
  /\ armed' = Disarm(s)
  /\ Close(s)
  /\ running' = {} /\ want' = 0
  /\ UNCHANGED row

\* The program lets a generator go between two requests.
Forget(s) ==
  /\ Quiet /\ st[s] \in {"made", "open", "done"} /\ ~forgot[s]
  /\ forgot' = [forgot EXCEPT ![s] = TRUE]
  /\ UNCHANGED <<kind, objectVars, panel, poolVars, openVars, st, runVars, ownerVars>>

\* The generator's finalizer closes a stream that never reached its finally
\* block.
CollectStream(s) ==
  /\ Quiet /\ forgot[s] /\ st[s] # "collected"
  /\ st' = [st EXCEPT ![s] = "collected"]
  /\ armed' = Disarm(s)
  /\ IF armed[s] THEN Close(s) ELSE UNCHANGED <<live, blocks, ops, poolVars>>
  /\ UNCHANGED <<kind, objectVars, panel, forgot, runVars, ownerVars>>
-----------------------------------------------------------------------------
Init ==
  /\ kind \in Kinds
  /\ hist = <<<<>>>> /\ deletes = <<0>> /\ panel = FALSE
  /\ idle = <<>> /\ used = {} /\ live = {}
  /\ st = [s \in Streams |-> "none"]
  /\ ops = [s \in Streams |-> <<>>]
  /\ blocks = [s \in Streams |-> FALSE]
  /\ armed = [s \in Streams |-> FALSE]
  /\ forgot = [s \in Streams |-> FALSE]
  /\ nEv = [s \in Streams |-> 0]
  /\ row = [s \in Streams |-> <<>>]
  /\ running = {} /\ want = 0
  /\ disposed = FALSE /\ done = FALSE /\ holds = TRUE

OnStream(s) ==
  \/ StreamCall(s) \/ Open(s) \/ OpenFails(s) \/ End(s)
  \/ \E k \in 1 .. MaxColumns : StartStep(s, k)
  \/ TakeCopy(s) \/ CopyFails(s) \/ Emit(s)
  \/ \E ran \in 0 .. MaxColumns : Raise(s, ran)
  \/ Forget(s) \/ CollectStream(s)

Next ==
  \/ LiveEvent \/ Batch \/ ResumeColumns
  \/ Dispose \/ DropOp \/ CollectOp
  \/ \E s \in Streams : OnStream(s)

Spec == Init /\ [][Next]_vars
-----------------------------------------------------------------------------
(* What the streams promise.                                               *)

\* Every stream is an independent run: its last row is computed on objects that
\* ran exactly the events of this stream, and the operator's own object ran
\* live events only (decision D8, runtime.ts).
RunsAlone ==
  /\ \A s \in Streams : \A c \in DOMAIN row[s] : row[s][c] = [n \in 1 .. nEv[s] |-> Event(s, n)]
  /\ \A e \in ToSet(hist[raw]) : e.run = ofLive

\* Two open streams never share a copy, none is lent twice or lost, and the
\* copies of an open stream are not deleted before the operator is freed.
OwnCopies ==
  ~done =>
    /\ IsInjective(idle) /\ Idle \cap used = {}
    /\ Idle \cup used = Objects \ {raw}
    /\ used = UNION {Held(s) : s \in {r \in Streams : st[r] = "open"}}
    /\ \A s, r \in Streams : s # r /\ st[s] = "open" /\ st[r] = "open" => Held(s) \cap Held(r) = {}

\* Every object is deleted once, when what the operator owns is freed, and until
\* then lent to one stream at most and never lost; none is made after that, and
\* no step runs on a deleted object.
FreedOnce ==
  /\ OwnCopies
  /\ \A o \in Objects : deletes[o] = IF done THEN 1 ELSE 0
  /\ done => live = {} /\ idle = <<>> /\ used = {} /\ running = {} /\ \A s \in Streams : ~blocks[s]
=============================================================================
