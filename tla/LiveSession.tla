---------------------------- MODULE LiveSession ----------------------------
(***************************************************************************)
(* A live session (CompiledGraph of dag/compiled_graph.h) over the graph   *)
(*     inputs -> OrderedMergeNode -> Resample with fill and max_fill.      *)
(* The session calls the inputs one after the other, each call runs the    *)
(* merge's handler, and the Resample may raise FillLimitError anywhere in  *)
(* it: the exception unwinds the handler and the session, which then goes  *)
(* on (a rejected advance) or is poisoned (a rejected push).               *)
(*                                                                         *)
(* Events have one column, and the bars' values are left out: a row is the *)
(* bucket it is the bar of.                                                *)
(***************************************************************************)
EXTENDS OrderedMerge

CONSTANTS BarWidth,     \* width of the Resample (every=)
          MaxFill       \* max_fill: the most empty bars one gap may emit

ASSUME SessionAssumption ==
  /\ BarWidth \in Nat \ {0} /\ MaxFill \in Nat \ {0}
  /\ kMin = 0 /\ 1 \in Widths /\ Modes = {FALSE}

VARIABLES session,      \* the call that runs over the inputs, or "idle"
          input,        \* the next input it calls
          now,          \* the argument of advance
          advanced,     \* floor_: the highest advance(now)
          in_last,      \* in_last_: the last index of each input
          poisoned,     \* poisoned_
          closed,       \* flushed_
          rejected,     \* ghost: the kinds of call that raised
          settled,      \* ghost: the highest advance(now) that did not raise
          bucket,       \* bucket_ of the Resample, None if not started_
          has_any,      \* has_any(): the bucket holds a value
          rows          \* the bars it emitted

None == -1
controlVars == <<session, input, now, advanced, in_last, poisoned, closed, rejected, settled>>
resampleVars == <<bucket, has_any, rows>>
sessionVars == <<vars, controlVars, resampleVars>>

Quiet == session = "idle" /\ call = "idle"

-----------------------------------------------------------------------------
(* The Resample (mode ByIndex, label left, fill nan).                      *)

Bucket(t) == t \div BarWidth

\* check_fill_gap: the empty bars that moving to bucket `to` emits are too many.
TooFar(to) == to - bucket - 1 + (IF has_any THEN 0 ELSE 1) > MaxFill

\* Bug: the open bar is left out when it is empty.
Bars_SkipEmpty(to) ==
  LET from == IF has_any THEN bucket ELSE bucket + 1
  IN  IF from < to THEN [i \in 1 .. to - from |-> from + i - 1] ELSE <<>>

\* The bars emitted on the way to bucket `to`: the open one, then the empty ones.
Bars(to) ==
  IF bucket < to THEN [i \in 1 .. to - bucket |-> bucket + i - 1] ELSE <<bucket>>

\* push_by_index raises.
Refuses(t) == bucket \notin {None, Bucket(t)} /\ TooFar(Bucket(t))

\* push_by_index.
Take(t) ==
  /\ ~Refuses(t)
  /\ rows' = IF bucket \in {None, Bucket(t)} THEN rows ELSE rows \o Bars(Bucket(t))
  /\ bucket' = Bucket(t)
  /\ has_any' = TRUE

Beyond(w) == bucket # None /\ (w = kMax \/ bucket < Bucket(w))

\* advance raises.
RefusesLow(w) == Beyond(w) /\ w # kMax /\ TooFar(Bucket(w))

\* Bug: a watermark at the end of the input drops the open bar.
Close_Drop(w) ==
  /\ ~RefusesLow(w)
  /\ rows' = IF Beyond(w) /\ w # kMax THEN rows \o Bars(Bucket(w)) ELSE rows
  /\ bucket' = IF Beyond(w) THEN IF w = kMax THEN None ELSE Bucket(w) ELSE bucket
  /\ has_any' = (has_any /\ ~Beyond(w))

\* advance(w): every bar before the bucket of w closes; at the end of the input
\* the open bar does, if it holds a value (as in flush()).
Close(w) ==
  /\ ~RefusesLow(w)
  /\ rows' = CASE Beyond(w) /\ w # kMax -> rows \o Bars(Bucket(w))
               [] Beyond(w) /\ w = kMax /\ has_any -> Append(rows, bucket)
               [] OTHER -> rows
  /\ bucket' = IF Beyond(w) THEN IF w = kMax THEN None ELSE Bucket(w) ELSE bucket
  /\ has_any' = (has_any /\ ~Beyond(w))

-----------------------------------------------------------------------------
(* The calls of the session.                                               *)

\* push_event: check_live, check_open, check_order; then the input's sink.
SessionPush(p, t) ==
  /\ Quiet /\ ~poisoned /\ ~closed
  /\ in_last[p] <= t /\ advanced <= t
  /\ PushDirect(p, t, 1) \/ PushWaiting(p, t, 1)
  /\ in_last' = [in_last EXCEPT ![p] = t]
  /\ UNCHANGED <<session, input, now, advanced, poisoned, closed, rejected, settled, resampleVars>>

\* advance: the floor moves first, then every input gets the watermark.
SessionAdvance(w) ==
  /\ Quiet /\ ~poisoned /\ ~closed
  /\ session' = "advance" /\ input' = 0 /\ now' = w
  /\ advanced' = Larger(advanced, w)
  /\ UNCHANGED <<vars, in_last, poisoned, closed, rejected, settled, resampleVars>>

SessionFlush ==
  /\ Quiet /\ ~poisoned /\ ~closed
  /\ session' = "flush" /\ input' = 0
  /\ UNCHANGED <<vars, now, advanced, in_last, poisoned, closed, rejected, settled, resampleVars>>

\* The session calls the next input.
NextInput ==
  /\ call = "idle" /\ session # "idle"
  /\ input \in Ports
  /\ \/ session = "advance" /\ OnWatermark(input, now)
     \/ session = "flush" /\ FlushPort(input)
  /\ input' = input + 1
  /\ UNCHANGED <<session, now, advanced, in_last, poisoned, closed, rejected, settled, resampleVars>>

\* Bug: the call returns when the first input has taken it.
Finish_First ==
  /\ call = "idle" /\ session # "idle"
  /\ input > 0
  /\ session' = "idle" /\ input' = 0 /\ now' = kMin
  /\ closed' = (session = "flush")
  /\ settled' = IF session = "advance" THEN Larger(settled, now) ELSE settled
  /\ UNCHANGED <<vars, advanced, in_last, poisoned, rejected, resampleVars>>

\* Every input was called: the session's call returns.
Finish ==
  /\ call = "idle" /\ session # "idle"
  /\ input \notin Ports
  /\ session' = "idle" /\ input' = 0 /\ now' = kMin
  /\ closed' = (session = "flush")
  /\ settled' = IF session = "advance" THEN Larger(settled, now) ELSE settled
  /\ UNCHANGED <<vars, advanced, in_last, poisoned, rejected, resampleVars>>

-----------------------------------------------------------------------------
(* The steps of the merge's handlers, with what the Resample does in them. *)

\* The event the merge passes on next.
Passing == IF hand # {} THEN hand ELSE {e \in pending : IsTop(e) /\ Ready(e.index, e.port)}

PassEvent ==
  /\ PassHand \/ ReleaseTop
  /\ \E e \in Passing : Take(e.index)
  /\ UNCHANGED controlVars

\* The handler returns; the watermark, and the flush, reach the Resample.
EndCall ==
  /\ EndPush \/ EndWatermark \/ EndFlush
  /\ IF flushes' > flushes THEN Close(kMax)
     ELSE IF last_forwarded' > last_forwarded THEN Close(last_forwarded')
     ELSE UNCHANGED resampleVars
  /\ poisoned' = (error' # "none")
  /\ rejected' = IF error' # "none" THEN rejected \cup {"push"} ELSE rejected
  /\ UNCHANGED <<session, input, now, advanced, in_last, closed, settled>>

\* FillLimitError unwinds the handler and the session's call.  A rejected push
\* poisons the session.  A rejected advance or flush does not: the inputs go on,
\* also those that took the flush.
Reject ==
  /\ call' = "idle" /\ session' = "idle" /\ input' = 0 /\ now' = kMin
  /\ rejected' = rejected \cup {IF call = "push" THEN "push" ELSE session}
  /\ poisoned' = (call = "push")
  /\ ended' = {}
  /\ floor' = [p \in Ports |-> Larger(in_last[p], advanced)]
  /\ UNCHANGED <<taken, out, front, flushed, merge_order, gfront, width, next_seq, error, flushes,
                 clock, advanced, in_last, closed, settled, resampleVars>>

\* The Resample refuses the event, which the merge no longer holds.
FailEvent ==
  /\ call # "idle"
  /\ \E e \in Passing : Refuses(e.index) /\ hand' = hand \ {e} /\ pending' = pending \ {e}
  /\ Reject
  /\ UNCHANGED last_forwarded

\* The Resample refuses the watermark the merge sends down.
FailWatermark ==
  /\ call # "idle" /\ hand = {} /\ ~TopReady
  /\ ForwardWatermark
  /\ last_forwarded' > last_forwarded /\ RefusesLow(last_forwarded')
  /\ Reject
  /\ UNCHANGED <<hand, pending>>

\* save() of the session and load of it in another one.
SessionSave ==
  /\ Quiet /\ ~poisoned
  /\ SaveAndLoad
  /\ UNCHANGED <<controlVars, resampleVars>>

\* reset(), as a new live() session.
SessionReset ==
  /\ Quiet
  /\ Reset(FALSE)
  /\ input' = 0 /\ now' = kMin /\ advanced' = kMin
  /\ in_last' = [p \in Ports |-> kMin]
  /\ poisoned' = FALSE /\ closed' = FALSE
  /\ rejected' = {} /\ settled' = kMin
  /\ bucket' = None /\ has_any' = FALSE /\ rows' = <<>>
  /\ UNCHANGED session

-----------------------------------------------------------------------------
SessionInit ==
  /\ Init
  /\ session = "idle" /\ input = 0 /\ now = kMin /\ advanced = kMin
  /\ in_last = [p \in Ports |-> kMin]
  /\ poisoned = FALSE /\ closed = FALSE
  /\ rejected = {} /\ settled = kMin
  /\ bucket = None /\ has_any = FALSE /\ rows = <<>>

SessionNext ==
  \/ \E p \in Ports, t \in Indexes : SessionPush(p, t)
  \/ \E w \in Index : SessionAdvance(w)
  \/ SessionFlush
  \/ NextInput
  \/ Finish
  \/ PassEvent
  \/ EndCall
  \/ FailEvent
  \/ FailWatermark
  \/ SessionSave
  \/ SessionReset

SessionSpec == SessionInit /\ [][SessionNext]_sessionVars
-----------------------------------------------------------------------------
(* Properties.                                                             *)

HasBar(b) == \E i \in 1 .. Len(rows) : rows[i] = b

\* A fill Resample leaves no bucket out and repeats none, whatever advances the
\* session rejected in between, and in whatever part of the merge's handler.
RowsContiguous ==
  "flush" \notin rejected => \A i \in 1 .. Len(rows) - 1 : rows[i + 1] = rows[i] + 1

\* An advance that returned has closed every bar before its time: the rows the
\* session shows then hold each accepted event of those bars.
AdvanceCloses ==
  Quiet /\ rejected = {} =>
    \A e \in taken : Bucket(e.index) < Bucket(settled) => e \in Delivered /\ HasBar(Bucket(e.index))

\* The rows of a session that was flushed and rejected nothing are those of a
\* batch run of its events: from the first event's bar on, each event's bar is
\* there, and no bar that neither an event nor an advance reaches.
FlushedRows ==
  closed /\ rejected = {} =>
    /\ \A e \in taken : HasBar(Bucket(e.index))
    /\ \A i \in 1 .. Len(rows) :
         /\ \E e \in taken : Bucket(e.index) <= rows[i]
         /\ (\E e \in taken : rows[i] <= Bucket(e.index)) \/ rows[i] < Bucket(advanced)

\* A rejected advance leaves a valid state (the comment of CompiledGraph::advance):
\* the events that a session that goes on accepted are emitted or still held.
RejectedAdvanceKeeps ==
  ~poisoned /\ "flush" \notin rejected => Waiting = {EventOf(e) : e \in pending \cup hand}

\* The rows of an output are sorted by index (output_join.h): no bar comes below
\* one already emitted. Several rows may have the same index.
RowsSorted == \A i, j \in 1 .. Len(rows) : i < j => rows[i] <= rows[j]
=============================================================================
