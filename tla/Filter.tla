------------------------------- MODULE Filter -------------------------------
(***************************************************************************)
(* The mask gate (dag/filter_node.h): an as-of join of data (port 0) and   *)
(* mask (port 1) whose row at an index goes out only if the mask in force  *)
(* there passes (it is neither 0 nor NaN).  A row that is dropped still    *)
(* sends its index down as a watermark.                                    *)
(***************************************************************************)
EXTENDS AsOfMerge

\* What the constants must be; MCNodes assumes it of its instance.
FilterAssumption == Gated /\ WhenAll /\ N = 2

VARIABLE buffered       \* buffered_data_, buffered_mask_: the row due; no one reads
                        \* them while no row is due, and NoRow stands for that

vars == <<streamVars, bufferVars, callVars, buffered>>

NoRow == [p \in Ports |-> {}]

-----------------------------------------------------------------------------
Push(p, t, v) == Enqueue(p, t, v) /\ UNCHANGED buffered

\* The mask of a row keeps it.
Pass(row) == Passes(row)

\* emit_buffered: the row due at i goes out if its mask passes; else i goes
\* down as a watermark.
EmitBuffered(i) ==
  IF Pass(buffered)
  THEN out' = Append(out, [index |-> i, latest |-> buffered]) /\ UNCHANGED last_forwarded
  ELSE last_forwarded' = Larger(last_forwarded, i) /\ UNCHANGED out

\* apply_ordered: once both ports have an event, the row due goes out when the
\* index moves on, and the latest events are the row due at the new index.
ApplyTop ==
  /\ call # "idle"
  /\ \E e \in pending :
       /\ Applicable(e)
       /\ pending' = pending \ {e}
       /\ latest' = [latest EXCEPT ![e.port] = {EventOf(e)}]
       /\ IF \E p \in Ports : latest'[p] = {}
          THEN UNCHANGED <<out, last_forwarded, due, buffered>>
          ELSE /\ IF due \subseteq {e.index}
                  THEN UNCHANGED <<out, last_forwarded>>
                  ELSE \E i \in due : EmitBuffered(i)
               /\ due' = {e.index}
               /\ buffered' = latest'
  /\ UNCHANGED <<taken, floor, ended, wm, flushed, next_seq, callVars>>

\* The end of release(): the row due goes out once no event can come at its
\* index, then the lowest watermark goes down.
Settle ==
  \E low \in Index :
    /\ IsLow(low)
    /\ IF \E i \in due : i < low
       THEN /\ due' = {} /\ buffered' = NoRow
            /\ \E i \in due :
                 out' = IF Pass(buffered) THEN Append(out, [index |-> i, latest |-> buffered]) ELSE out
       ELSE UNCHANGED <<out, due, buffered>>
    /\ last_forwarded' = IF low # kMin THEN Larger(last_forwarded, low) ELSE last_forwarded

Return ==
  /\ Released
  /\ call' = "idle"
  /\ UNCHANGED <<taken, floor, ended, wm, pending, next_seq, latest>>

EndPush ==
  /\ call = "push"
  /\ Return /\ Settle
  /\ error' = IF Cardinality(pending) > MaxPending THEN "overflow" ELSE error
  /\ UNCHANGED <<flushed, flushes>>

\* Bug: a watermark releases nothing.
EndWatermark_NoRelease ==
  /\ call = "watermark"
  /\ call' = "idle"
  /\ UNCHANGED <<streamVars, bufferVars, buffered, error, flushes>>

EndWatermark ==
  /\ call = "watermark"
  /\ Return /\ Settle
  /\ UNCHANGED <<error, flushed, flushes>>

\* One port has ended, the other has not.
EndFlushFirst ==
  /\ call = "flush" /\ flushed # Ports
  /\ Return /\ Settle
  /\ UNCHANGED <<error, flushed, flushes>>

\* Both ports have ended: the row due goes out, whatever its index, then the
\* flush goes down, once, and the ports are re-armed.
EndFlush ==
  /\ call = "flush" /\ flushed = Ports
  /\ Return
  /\ due' = {} /\ buffered' = NoRow
  /\ IF due # {} /\ Pass(buffered)
     THEN \E i \in due : out' = Append(out, [index |-> i, latest |-> buffered])
     ELSE UNCHANGED out
  /\ last_forwarded' = kMax
  /\ flushed' = {} /\ flushes' = flushes + 1
  /\ UNCHANGED error

Reset ==
  /\ call = "idle"
  /\ Restart
  /\ ResetBuffer
  /\ buffered' = NoRow
  /\ UNCHANGED call

\* state(): a live session is saved and loaded between two calls.
SaveAndLoad ==
  /\ Idle
  /\ pending' = {Renumbered(e) : e \in pending}
  /\ next_seq' = Cardinality(pending)
  /\ UNCHANGED <<streamVars, wm, flushed, due, latest, last_forwarded, callVars, buffered>>

-----------------------------------------------------------------------------
Init == SInit /\ BufferInit /\ buffered = NoRow

Handler == ApplyTop \/ EndPush \/ EndWatermark \/ EndFlushFirst \/ EndFlush

Next ==
  \/ \E p \in Ports, t \in Indexes, v \in Vals : Push(p, t, v)
  \/ \E p \in Ports, w \in Index : OnWatermark(p, w) /\ UNCHANGED buffered
  \/ \E p \in Ports : FlushPort(p) /\ UNCHANGED buffered
  \/ Handler
  \/ Reset
  \/ SaveAndLoad

Spec == Init /\ [][Next]_vars
-----------------------------------------------------------------------------
(* Properties.                                                             *)

\* Between two calls every index below both watermarks is settled: its row is
\* out if the mask in force at that index passes, and only then.
RowsPrompt ==
  call = "idle" =>
    \A low \in Index : IsLow(low) => \A t \in Index : t < low /\ IsRow(t) => t \in Emitted

\* Once both ports have ended, the last row went out before the flush went down.
FlushEmitsAll ==
  flushes > 0 => flushes = 1 /\ \A t \in Index : IsRow(t) => t \in Emitted

\* A node below the filter learns how far the data and the mask have both come,
\* although every row may be dropped: it never waits for rows that do not come.
TimeAdvances ==
  call = "idle" /\ error = "none" =>
    \A low \in Index : IsLow(low) => last_forwarded >= low
=============================================================================
