--------------------------- MODULE CombineLatest ---------------------------
(***************************************************************************)
(* The aligning join (dag/combine_latest_node.h): each row holds every     *)
(* input's last event, one row per index, whatever the order in which the  *)
(* ports call the node.  An event's value is its number of columns: a port *)
(* learns its columns from its first event and then never changes them.    *)
(***************************************************************************)
EXTENDS AsOfMerge

CONSTANT Declared       \* declared_: the columns a port is expected to have

\* What the constants must be; MCNodes assumes it of its instance.
ColumnAssumption == ~Gated /\ Vals \subseteq Nat /\ Declared \in [Ports -> Nat]

VARIABLES width,        \* cl_.width: the columns of each port
          learned,      \* the ports with learned_ set
          emitted_any,  \* emitted_any_: a row was made
          layouts       \* ghost: the columns the emitted rows had

columnVars == <<width, learned, emitted_any, layouts>>
vars == <<streamVars, bufferVars, callVars, columnVars>>

-----------------------------------------------------------------------------
\* Bug: a port may learn other columns after a row went out.
Fits_Late(p, w) == w = width[p] \/ p \notin learned

\* The columns of an event are those of its port, or the port learns them.
Fits(p, w) == w = width[p] \/ (p \notin learned /\ ~emitted_any)

Push(p, t, w) ==
  /\ Fits(p, w)
  /\ Enqueue(p, t, w)
  /\ learned' = learned \cup {p}
  /\ width' = [width EXCEPT ![p] = w]
  /\ UNCHANGED <<emitted_any, layouts>>

\* The event is refused; the port counts as having learned its columns.
PushRefused(p, t, w) ==
  /\ MaySend(p, t) /\ Sent(p) < MaxEvents
  /\ ~Fits(p, w)
  /\ floor' = [floor EXCEPT ![p] = t]
  /\ learned' = learned \cup {p}
  /\ error' = "width"
  /\ UNCHANGED <<taken, out, ended, bufferVars, call, flushes, width, emitted_any, layouts>>

\* emit_buffered: the row due holds the latest events.
EmitBuffered ==
  /\ \E i \in due : out' = Append(out, [index |-> i, latest |-> latest])
  /\ layouts' = layouts \cup {width}

KeepRows == UNCHANGED <<out, layouts>>

\* Bug: the latest events change before the row due is emitted.
ApplyTop_UpdateFirst ==
  /\ call # "idle"
  /\ \E e \in pending :
       /\ Applicable(e)
       /\ pending' = pending \ {e}
       /\ latest' = [latest EXCEPT ![e.port] = {EventOf(e)}]
       /\ IF \E i \in due : i # e.index
          THEN /\ \E i \in due : out' = Append(out, [index |-> i, latest |-> latest'])
               /\ layouts' = layouts \cup {width}
          ELSE KeepRows
       /\ due' = IF WhenAll /\ \E p \in Ports : latest'[p] = {} THEN due \cap {e.index} ELSE {e.index}
       /\ emitted_any' = (emitted_any \/ due' # {})
  /\ UNCHANGED <<taken, floor, ended, wm, flushed, next_seq, last_forwarded, callVars, width, learned>>

\* apply_ordered: the row due goes out when the index moves on; then the event
\* becomes its port's latest, and a row is due at its index.
ApplyTop ==
  /\ call # "idle"
  /\ \E e \in pending :
       /\ Applicable(e)
       /\ pending' = pending \ {e}
       /\ IF \E i \in due : i # e.index THEN EmitBuffered ELSE KeepRows
       /\ latest' = [latest EXCEPT ![e.port] = {EventOf(e)}]
       /\ due' = IF WhenAll /\ \E p \in Ports : latest'[p] = {} THEN due \cap {e.index} ELSE {e.index}
       /\ emitted_any' = (emitted_any \/ due' # {})
  /\ UNCHANGED <<taken, floor, ended, wm, flushed, next_seq, last_forwarded, callVars, width, learned>>

\* Bug: the row due waits for the next event, or for the end.
Settle_Late(low, all) ==
  IF due # {} /\ all
  THEN EmitBuffered /\ due' = {}
  ELSE KeepRows /\ UNCHANGED due

\* The end of release() and of a complete flush: the row due goes out once no
\* event can come at its index.
Settle(low, all) ==
  IF \E i \in due : i < low \/ all
  THEN EmitBuffered /\ due' = {}
  ELSE KeepRows /\ UNCHANGED due

\* The handler returns; `all` says whether every port has ended.
Return(all) ==
  /\ Released
  /\ \E low \in Index :
       /\ IsLow(low)
       /\ Settle(low, all)
       /\ last_forwarded' = IF low # kMin THEN Larger(last_forwarded, low) ELSE last_forwarded
  /\ call' = "idle"
  /\ UNCHANGED <<taken, floor, ended, wm, pending, next_seq, latest, width, learned, emitted_any>>

EndPush ==
  /\ call = "push"
  /\ Return(FALSE)
  /\ error' = IF Cardinality(pending) > MaxPending THEN "overflow" ELSE error
  /\ UNCHANGED <<flushed, flushes>>

EndWatermark == call = "watermark" /\ Return(FALSE) /\ UNCHANGED <<error, flushed, flushes>>

\* Bug: every port that ends re-arms the ports.
EndFlush_Rearm ==
  /\ call = "flush"
  /\ Return(flushed = Ports)
  /\ flushed' = {}
  /\ flushes' = IF flushed = Ports THEN flushes + 1 ELSE flushes
  /\ UNCHANGED error

\* The last port to end flushes the node below, once, and re-arms the ports.
EndFlush ==
  /\ call = "flush"
  /\ Return(flushed = Ports)
  /\ IF flushed = Ports
     THEN flushed' = {} /\ flushes' = flushes + 1
     ELSE UNCHANGED <<flushed, flushes>>
  /\ UNCHANGED error

Reset ==
  /\ call = "idle"
  /\ Restart
  /\ ResetBuffer
  /\ width' = Declared
  /\ learned' = {}
  /\ emitted_any' = FALSE
  /\ layouts' = {}
  /\ UNCHANGED call

\* state(): a live session is saved and loaded between two calls.
SaveAndLoad ==
  /\ Idle
  /\ pending' = {Renumbered(e) : e \in pending}
  /\ next_seq' = Cardinality(pending)
  /\ UNCHANGED <<streamVars, wm, flushed, due, latest, last_forwarded, callVars, columnVars>>

-----------------------------------------------------------------------------
Init ==
  /\ SInit
  /\ BufferInit
  /\ width = Declared
  /\ learned = {}
  /\ emitted_any = FALSE
  /\ layouts = {}

Handler == ApplyTop \/ EndPush \/ EndWatermark \/ EndFlush

MarkWatermark(p, w) == OnWatermark(p, w) /\ UNCHANGED columnVars
MarkFlush(p) == FlushPort(p) /\ UNCHANGED columnVars

Next ==
  \/ \E p \in Ports, t \in Indexes, w \in Vals : Push(p, t, w) \/ PushRefused(p, t, w)
  \/ \E p \in Ports, w \in Index : MarkWatermark(p, w)
  \/ \E p \in Ports : MarkFlush(p)
  \/ Handler
  \/ Reset
  \/ SaveAndLoad

\* A handler that was called runs to its end.
Spec == Init /\ [][Next]_vars /\ WF_vars(Handler)
-----------------------------------------------------------------------------
(* Properties.                                                             *)

\* Between two calls every row whose index is below all watermarks is out, and
\* it is the join's row whatever the order the events came in: a live session
\* shows a row as soon as a batch run of the same events would have settled it.
RowsPrompt ==
  call = "idle" =>
    \A low \in Index : IsLow(low) => \A t \in Index : t < low /\ IsRow(t) => t \in Emitted

\* Once every input has ended, the last row goes out before the flush goes down,
\* which it does once: also when the inputs end at one index.
FlushEmitsAll ==
  flushes > 0 => flushes = 1 /\ \A t \in Index : IsRow(t) => t \in Emitted

\* All rows of a run have the same columns, though a port's columns are learned.
RowsOneLayout ==
  /\ Cardinality(layouts) <= 1
  /\ \A i \in 1 .. Len(out), p \in Ports : \A e \in out[i].latest[p] : e.val = width[p]

\* What state() requires of a saved state holds between the calls of a live
\* session, so a session that was saved always loads.
SavedStateLoads ==
  call = "idle" /\ error = "none" =>
    /\ \A p \in Ports \ learned : width[p] = Declared[p]
    /\ due # {} => emitted_any
    /\ \A low \in Index : IsLow(low) =>
         /\ \A i \in due : low <= i
         /\ \A e \in pending : low < e.index /\ e.index <= wm[e.port] /\ e.val = width[e.port]

=============================================================================
