---------------------------- MODULE RsRunStream -----------------------------
(***************************************************************************)
(* The Rust SDK's run stream (crates/akribes-sdk): start_run_stream spawns *)
(* an SSE listener task, waits until its subscription is live, POSTs the   *)
(* run and spawns a filter task; the caller holds a RunStream and pulls    *)
(* events from it.  Four actors run concurrently:                          *)
(*                                                                         *)
(*   listener  stream_sse_with_retry + stream_sse                          *)
(*      | hubq   unbounded channel of HubEvents                            *)
(*   filter    the task spawned in step 3 of start_run_stream              *)
(*      | outq   unbounded channel of WorkflowEvents                       *)
(*   caller    start_run_stream's own frame, then RunStream::next, output  *)
(*   hub       the server (EventHub)                                       *)
(*                                                                         *)
(* Events are represented by their index in the hub's log.                 *)
(***************************************************************************)
EXTENDS EventHub

CONSTANT MaxRetries  \* max_retries of stream_sse_with_retry (5 in the code)

ASSUME RetryAssumption == MaxRetries \in Nat

VARIABLES
  lpc,      \* listener: "connecting" (backoff included), "streaming", "done"
  attempt,  \* listener: failures so far; never reset by a success
  cursor,   \* listener: last_event_id, 0 for None
  pos,      \* listener: index of the next event its connection will read
  ready,    \* the oneshot: "unset", "ok", "err"
  hubq,     \* listener -> filter
  start,    \* start_run_stream: where its frame is
  filter,   \* filter task: "off", "on", "done"
  outq,     \* filter -> caller
  handle,   \* the RunStream: "none", "open", "terminated", "dropped"
  outcome,  \* final_output / final_error / neither, once terminated
  seen,     \* history: what next() has returned
  broken,   \* history: an established connection was lost
  closedByServer, \* history: the server ended a body cleanly
  missed    \* history: our run's events no connection will ever read

listenerVars == <<lpc, attempt, cursor, pos, ready>>
callerVars == <<handle, outcome, seen>>
ghostVars == <<broken, closedByServer, missed>>
vars == <<hubVars, listenerVars, hubq, start, filter, outq, callerVars, ghostVars>>

StartPC == {"wait_ready", "posting", "accepted", "live", "failed", "cancelled"}

TypeOK ==
  /\ HubTypeOK
  /\ lpc \in {"connecting", "streaming", "done"}
  /\ attempt \in 0..(MaxRetries + 1)
  /\ cursor \in Nat
  /\ pos \in Nat \ {0}
  /\ ready \in {"unset", "ok", "err"}
  /\ hubq \in Seq(Nat)
  /\ start \in StartPC
  /\ filter \in {"off", "on", "done"}
  /\ outq \in Seq(Nat)
  /\ handle \in {"none", "open", "terminated", "dropped"}
  /\ outcome \in {"pending", "end", "error", "closed"}
  /\ seen \in Seq(Nat)
  /\ broken \in BOOLEAN
  /\ closedByServer \in BOOLEAN
  /\ missed \subseteq Nat

Init ==
  /\ HubInit
  /\ lpc = "connecting"
  /\ attempt = 0
  /\ cursor = 0
  /\ pos = 1
  /\ ready = "unset"
  /\ hubq = <<>>
  /\ start = "wait_ready"
  /\ filter = "off"
  /\ outq = <<>>
  /\ handle = "none"
  /\ outcome = "pending"
  /\ seen = <<>>
  /\ broken = FALSE
  /\ closedByServer = FALSE
  /\ missed = {}

-----------------------------------------------------------------------------
(* The hub. *)

Publish(e) ==
  /\ HubPublish(e)
  /\ UNCHANGED <<listenerVars, hubq, start, filter, outq, callerVars, ghostVars>>

-----------------------------------------------------------------------------
(* The listener task. *)

(***************************************************************************)
(* hub_rx lives in start_run_stream's frame until the filter task takes    *)
(* it; it is dropped with the frame (an early return, or the caller        *)
(* dropping the future) or when the filter task ends.                      *)
(***************************************************************************)
ReceiverOpen == start \notin {"failed", "cancelled"} /\ filter # "done"

\* Mutant of Connect: a success never fires the ready signal.
ConnectSilently ==
  /\ lpc = "connecting"
  /\ lpc' = "streaming"
  /\ pos' = ResumeAt(cursor)
  /\ missed' = missed \cup {i \in pos..(pos' - 1) : Own(i)}
  /\ UNCHANGED <<hubVars, attempt, cursor, ready, hubq, start, filter, outq, callerVars, broken, closedByServer>>

(***************************************************************************)
(* GET /events answers 2xx.  The first success fires the ready signal; the *)
(* server starts from the cursor the request carried.  Whatever of our     *)
(* run's events lies before that position is lost to this handle.          *)
(***************************************************************************)
Connect ==
  /\ lpc = "connecting"
  /\ lpc' = "streaming"
  /\ ready' = IF ready = "unset" THEN "ok" ELSE ready
  /\ pos' = ResumeAt(cursor)
  /\ missed' = missed \cup {i \in pos..(pos' - 1) : Own(i)}
  /\ UNCHANGED <<hubVars, attempt, cursor, hubq, start, filter, outq, callerVars, broken, closedByServer>>

\* Mutant of Deliver: the cursor is the id of the last frame of the chunk.
DeliverCursorAhead ==
  /\ lpc = "streaming"
  /\ pos <= Len(log)
  /\ ReceiverOpen
  /\ cursor' = Len(log)
  /\ hubq' = Append(hubq, pos)
  /\ pos' = pos + 1
  /\ UNCHANGED <<hubVars, lpc, attempt, ready, start, filter, outq, callerVars, ghostVars>>

(***************************************************************************)
(* One frame: the id is stored as the cursor, then the event is sent.      *)
(* There is no await between the two, so a lost connection or an abort     *)
(* never comes between them.                                               *)
(***************************************************************************)
Deliver ==
  /\ lpc = "streaming"
  /\ pos <= Len(log)
  /\ ReceiverOpen
  /\ cursor' = pos
  /\ hubq' = Append(hubq, pos)
  /\ pos' = pos + 1
  /\ UNCHANGED <<hubVars, lpc, attempt, ready, start, filter, outq, callerVars, ghostVars>>

\* Mutant of DeliverClosed: the failed send is ignored and the loop goes on.
DeliverClosedIgnored ==
  /\ lpc = "streaming"
  /\ pos <= Len(log)
  /\ ~ReceiverOpen
  /\ cursor' = pos
  /\ pos' = pos + 1
  /\ UNCHANGED <<hubVars, lpc, attempt, ready, hubq, start, filter, outq, callerVars, ghostVars>>

\* The send fails because hub_rx is gone: stream_sse returns Ok, and so does
\* the retry wrapper.
DeliverClosed ==
  /\ lpc = "streaming"
  /\ pos <= Len(log)
  /\ ~ReceiverOpen
  /\ cursor' = pos
  /\ pos' = pos + 1
  /\ lpc' = "done"
  /\ UNCHANGED <<hubVars, attempt, ready, hubq, start, filter, outq, callerVars, ghostVars>>

\* The server ends the body cleanly: Ok(()), and the listener does not
\* reconnect.
ServerClose ==
  /\ lpc = "streaming"
  /\ lpc' = "done"
  /\ closedByServer' = TRUE
  /\ UNCHANGED <<hubVars, attempt, cursor, pos, ready, hubq, start, filter, outq, callerVars, broken, missed>>

(***************************************************************************)
(* stream_sse returned Err.  Past max_retries, or with nobody listening,   *)
(* the listener gives up, and answers the ready signal if it never did.    *)
(***************************************************************************)
GiveUp ==
  /\ attempt' = attempt + 1
  /\ attempt' > MaxRetries \/ ~ReceiverOpen
  /\ lpc' = "done"
  /\ ready' = IF ready = "unset" THEN "err" ELSE ready

\* Mutant of Retry: no limit on the attempts.
RetryForever ==
  /\ attempt' = attempt + 1
  /\ ReceiverOpen
  /\ lpc' = "connecting"
  /\ UNCHANGED ready

Retry ==
  /\ attempt' = attempt + 1
  /\ attempt' <= MaxRetries
  /\ ReceiverOpen
  /\ lpc' = "connecting"
  /\ UNCHANGED ready

ConnectFails ==
  /\ lpc = "connecting"
  /\ GiveUp \/ Retry
  /\ UNCHANGED <<hubVars, cursor, pos, hubq, start, filter, outq, callerVars, ghostVars>>

BodyError ==
  /\ lpc = "streaming"
  /\ GiveUp \/ Retry
  /\ broken' = TRUE
  /\ UNCHANGED <<hubVars, cursor, pos, hubq, start, filter, outq, callerVars, closedByServer, missed>>

\* The network or the server breaks the connection.
ConnectionLost == BodyError

(***************************************************************************)
(* The client's own clock: default_http_client sets a total timeout of 60s *)
(* per request, which for a streamed response runs until the body has      *)
(* ended, and stream_sse sets no other.  However healthy the network, a    *)
(* connection ends this way, and it counts as an attempt.                  *)
(***************************************************************************)
RequestTimeout == BodyError

Listener ==
  \/ Connect \/ Deliver \/ DeliverClosed \/ ServerClose
  \/ ConnectFails \/ ConnectionLost \/ RequestTimeout

-----------------------------------------------------------------------------
(* start_run_stream, run by the caller. *)

\* Mutant of Subscribed: the run is POSTed without waiting for the listener.
SubscribedAtOnce ==
  /\ start = "wait_ready"
  /\ start' = "posting"
  /\ UNCHANGED <<hubVars, listenerVars, hubq, filter, outq, callerVars, ghostVars>>

\* ready_rx answers Ok: go on to POST /run.
Subscribed ==
  /\ start = "wait_ready"
  /\ ready = "ok"
  /\ start' = "posting"
  /\ UNCHANGED <<hubVars, listenerVars, hubq, filter, outq, callerVars, ghostVars>>

\* ready_rx answers Err, or its sender is gone with the task: abort the
\* listener, return the error.
SubscribeFails ==
  /\ start = "wait_ready"
  /\ ready = "err" \/ (ready = "unset" /\ lpc = "done")
  /\ start' = "failed"
  /\ lpc' = "done"
  /\ UNCHANGED <<hubVars, attempt, cursor, pos, ready, hubq, filter, outq, callerVars, ghostVars>>

\* The server accepts the POST; from here on the engine emits our events,
\* whether or not the response has arrived.
PostAccepted ==
  /\ start = "posting"
  /\ HubAccept
  /\ start' = "accepted"
  /\ UNCHANGED <<listenerVars, hubq, filter, outq, callerVars, ghostVars>>

\* Mutant of PostReturns: what was queued before the response is discarded.
PostReturnsFlushed ==
  /\ start = "accepted"
  /\ start' = "live"
  /\ filter' = "on"
  /\ handle' = "open"
  /\ hubq' = <<>>
  /\ UNCHANGED <<hubVars, listenerVars, outq, outcome, seen, ghostVars>>

\* The response arrives: the filter task starts with the execution id, and
\* the caller gets its RunStream.
PostReturns ==
  /\ start = "accepted"
  /\ start' = "live"
  /\ filter' = "on"
  /\ handle' = "open"
  /\ UNCHANGED <<hubVars, listenerVars, hubq, outq, outcome, seen, ghostVars>>

\* execute() returns Err: the server refused the run, or accepted it and the
\* response was lost.  Either way the listener is aborted.
PostFails ==
  /\ start \in {"posting", "accepted"}
  /\ start' = "failed"
  /\ lpc' = "done"
  /\ UNCHANGED <<hubVars, attempt, cursor, pos, ready, hubq, filter, outq, callerVars, ghostVars>>

\* The caller drops the start_run_stream future (a timeout around it, a
\* select!).  Dropping a JoinHandle detaches the task: nothing aborts it.
StartCancelled ==
  /\ start \in {"wait_ready", "posting", "accepted"}
  /\ start' = "cancelled"
  /\ UNCHANGED <<hubVars, listenerVars, hubq, filter, outq, callerVars, ghostVars>>

Starter == Subscribed \/ SubscribeFails \/ PostAccepted \/ PostReturns \/ PostFails \/ StartCancelled

-----------------------------------------------------------------------------
(* The filter task. *)

\* An event of another run, or not an Execution event at all.
FilterSkip ==
  /\ filter = "on"
  /\ hubq # <<>>
  /\ ~Matches(Head(hubq))
  /\ hubq' = Tail(hubq)
  /\ UNCHANGED <<hubVars, listenerVars, start, filter, outq, callerVars, ghostVars>>

\* Mutant of FilterForward: the script name matches, the execution id is not
\* compared.
FilterForwardByScript ==
  /\ filter = "on"
  /\ hubq # <<>>
  /\ log[Head(hubq)].src # "hub"
  /\ outq' = Append(outq, Head(hubq))
  /\ hubq' = Tail(hubq)
  /\ filter' = IF IsTerminal(Head(hubq)) THEN "done" ELSE "on"
  /\ UNCHANGED <<hubVars, listenerVars, start, callerVars, ghostVars>>

\* One of ours is forwarded; a terminal one ends the task.
FilterForward ==
  /\ filter = "on"
  /\ hubq # <<>>
  /\ Matches(Head(hubq))
  /\ outq' = Append(outq, Head(hubq))
  /\ hubq' = Tail(hubq)
  /\ filter' = IF IsTerminal(Head(hubq)) THEN "done" ELSE "on"
  /\ UNCHANGED <<hubVars, listenerVars, start, callerVars, ghostVars>>

\* Mutant of FilterEnds: an empty channel is taken for a closed one.
FilterEndsEarly ==
  /\ filter = "on"
  /\ hubq = <<>>
  /\ filter' = "done"
  /\ UNCHANGED <<hubVars, listenerVars, hubq, start, outq, callerVars, ghostVars>>

\* Mutant of FilterEnds: start_run_stream's frame keeps a clone of hub_tx, so
\* the channel never closes.
FilterNeverEnds == FALSE /\ UNCHANGED vars

\* hub_tx is gone with the listener and the channel is drained.
FilterEnds ==
  /\ filter = "on"
  /\ hubq = <<>>
  /\ lpc = "done"
  /\ filter' = "done"
  /\ UNCHANGED <<hubVars, listenerVars, hubq, start, outq, callerVars, ghostVars>>

Filter == FilterSkip \/ FilterForward \/ FilterEnds

-----------------------------------------------------------------------------
(* The caller, pulling: next(), and output() or summary(), which loop over it. *)

NextEvent ==
  /\ handle = "open"
  /\ outq # <<>>
  /\ LET i == Head(outq) IN
       /\ seen' = Append(seen, i)
       /\ outcome' = IF IsTerminal(i) THEN log[i].kind ELSE outcome
       /\ handle' = IF IsTerminal(i) THEN "terminated" ELSE "open"
  /\ outq' = Tail(outq)
  /\ UNCHANGED <<hubVars, listenerVars, hubq, start, filter, ghostVars>>

\* The channel is closed and drained: None, and output() resolves to
\* "ended without a terminal event".
NextClosed ==
  /\ handle = "open"
  /\ outq = <<>>
  /\ filter = "done"
  /\ handle' = "terminated"
  /\ outcome' = "closed"
  /\ UNCHANGED <<hubVars, listenerVars, hubq, start, filter, outq, seen, ghostVars>>

\* The RunStream is dropped: its EventSubscription aborts both tasks.
Drop ==
  /\ handle \in {"open", "terminated"}
  /\ handle' = "dropped"
  /\ outcome' = IF outcome = "pending" THEN "closed" ELSE outcome
  /\ lpc' = "done"
  /\ filter' = "done"
  /\ UNCHANGED <<hubVars, attempt, cursor, pos, ready, hubq, start, outq, seen, ghostVars>>

Caller == NextEvent \/ NextClosed \/ Drop

-----------------------------------------------------------------------------

Next == (\E e \in Event : Publish(e)) \/ Listener \/ Starter \/ Filter \/ Caller

(***************************************************************************)
(* tokio polls every task that can make progress, and a caller that wants  *)
(* the result keeps polling next(); the engine ends every run it starts.   *)
(* A connection attempt ends one way or the other.  No fairness on what    *)
(* the network or the caller may, but need not, do: losing or closing a    *)
(* connection, failing the POST, cancelling, dropping.                     *)
(***************************************************************************)
Fairness ==
  /\ WF_vars(HubFinish /\ UNCHANGED <<listenerVars, hubq, start, filter, outq, callerVars, ghostVars>>)
  /\ WF_vars(Connect \/ ConnectFails)
  /\ WF_vars(Deliver \/ DeliverClosed)
  /\ WF_vars(Subscribed \/ SubscribeFails)
  /\ WF_vars(PostAccepted \/ PostReturns \/ PostFails)
  /\ WF_vars(Filter)
  /\ WF_vars(NextEvent \/ NextClosed)

Spec == Init /\ [][Next]_vars

FairSpec == Spec /\ Fairness

-----------------------------------------------------------------------------
(* Properties. *)

(***************************************************************************)
(* start_run_stream waits for the ready signal before it POSTs, "to avoid  *)
(* the subscribe-after-POST race where opening events are lost"            *)
(* (sub/events.rs): as long as no established connection has been lost,    *)
(* every event of our run published so far has been read or is still ahead *)
(* of the connection.                                                      *)
(***************************************************************************)
NoOpeningGap == ~broken => missed = {}

(***************************************************************************)
(* With a server that replays from Last-Event-ID, the cursor covers every  *)
(* reconnect made after a first frame: an event can only be missed if it   *)
(* precedes everything the listener ever delivered.  Advancing the cursor  *)
(* too early, or resuming at the wrong place, leaves a hole in the middle. *)
(***************************************************************************)
Delivered ==
  {hubq[i] : i \in DOMAIN hubq} \cup {outq[i] : i \in DOMAIN outq} \cup {seen[i] : i \in DOMAIN seen}

NoHoleAfterFirstFrame ==
  Replay => \A m \in missed, d \in Delivered : m < d

(***************************************************************************)
(* Nothing of our run disappears between the tasks: while the handle is    *)
(* open, each of our events the listener has gone past is in a queue, was  *)
(* yielded, or was missed by a reconnect.                                  *)
(***************************************************************************)
NothingDropped ==
  handle = "open" =>
    \A i \in 1..(pos - 1) :
      Own(i) => \/ i \in missed \cup Delivered
                \/ \E j \in Delivered : j <= i /\ Matches(j) /\ IsTerminal(j)

(***************************************************************************)
(* A caller is told "ended without a terminal event" only when the listener *)
(* really stopped: the server closed the stream, or the attempts of its     *)
(* whole life, successes in between or not, are used up.                   *)
(***************************************************************************)
ClosedForAReason ==
  (handle = "terminated" /\ outcome = "closed") =>
    /\ lpc = "done"
    /\ hubq = <<>>
    /\ attempt <= MaxRetries => closedByServer

(***************************************************************************)
(* The handle implements RunHandle: own events only, in order, once; one   *)
(* terminal, its own, and last.                                            *)
(***************************************************************************)
RH == INSTANCE RunHandle

ImplementsRunHandle == RH!HandleSpec

(***************************************************************************)
(* An open handle settles or is dropped once our run's terminal event is   *)
(* published, unless a reconnect went past that event: the listener, the   *)
(* filter and the drain of a closed channel never wait on each other.      *)
(***************************************************************************)
TerminalPublished == \E i \in DOMAIN log : Own(i) /\ IsTerminal(i)

TerminalMissed == \E i \in missed : IsTerminal(i)

Settles ==
  (handle = "open" /\ TerminalPublished) ~> (handle \in {"terminated", "dropped"} \/ TerminalMissed)

(***************************************************************************)
(* The ready handshake always answers: start_run_stream never waits        *)
(* forever on a listener that has stopped.                                 *)
(***************************************************************************)
StartAnswers == (start = "wait_ready") ~> (start # "wait_ready")

(***************************************************************************)
(* A listener whose start_run_stream future was cancelled is detached, not *)
(* aborted: it ends at the next event on its connection, never later.      *)
(***************************************************************************)
OrphanEnds ==
  (start = "cancelled" /\ lpc = "streaming" /\ pos <= Len(log)) ~> (lpc = "done")

-----------------------------------------------------------------------------
(* The inductive invariant behind the safety properties. *)

(***************************************************************************)
(* The POST waits for the ready signal, and the ready signal for a live    *)
(* connection; only a lost connection takes the listener back to           *)
(* connecting.                                                             *)
(***************************************************************************)
Handshake ==
  /\ ready = "unset" => lpc = "connecting"
  /\ ready = "err" => lpc = "done"
  /\ (ready = "ok" /\ ~broken) => lpc # "connecting"
  /\ start \in {"posting", "accepted", "live"} => ready = "ok"
  /\ handle # "none" => start = "live"
  /\ run # "absent" => ready = "ok"
  /\ \A i \in 1..Len(log) : Own(i) => run # "absent"

\* The connection's position: never ahead of the log, and with replay
\* always just past the cursor.
Position ==
  /\ pos <= Len(log) + 1
  /\ cursor < pos
  /\ (Replay /\ cursor # 0) => pos = cursor + 1

\* A listener still at work has an attempt left.
AttemptsLeft == lpc # "done" => attempt <= MaxRetries

InLog(s) == \A i \in 1..Len(s) : s[i] \in 1..(pos - 1)

\* What was yielded precedes what is in outq, which precedes what is in
\* hubq, which precedes what the connection will read.
Pipeline ==
  /\ InLog(seen) /\ InLog(outq) /\ InLog(hubq)
  /\ Increasing(seen) /\ Increasing(outq) /\ Increasing(hubq)
  /\ Below(seen, outq) /\ Below(seen, hubq) /\ Below(outq, hubq)
  /\ \A i \in 1..Len(outq) : Matches(outq[i])

Unsettled == handle \in {"none", "open"} => outcome = "pending"

IInv == TypeOK /\ Handshake /\ AttemptsLeft /\ Position /\ Pipeline /\ Unsettled /\ NoOpeningGap

(***************************************************************************)
(* The strengthening behind NoHoleAfterFirstFrame, NothingDropped and      *)
(* ClosedForAReason.                                                       *)
(***************************************************************************)

\* The cursor covers all that was delivered; a connection is past all that
\* was missed.
Covered ==
  /\ missed \subseteq 1..(pos - 1)
  /\ Delivered \subseteq 1..cursor

\* start_run_stream still runs, or its handle is open.
InCharge == handle \in {"none", "open"} /\ start \notin {"failed", "cancelled"}

Passed(i) ==
  \/ i \in missed \cup Delivered
  \/ \E j \in Delivered : j <= i /\ Matches(j) /\ IsTerminal(j)

\* NothingDropped, before there is a handle too.
Custody == InCharge => \A i \in 1..(pos - 1) : Own(i) => Passed(i)

TerminalQueued == \E i \in 1..Len(outq) : IsTerminal(outq[i])

Stopped == attempt > MaxRetries \/ closedByServer

\* Why the listener and the filter are done, while the handle is not.
Endings ==
  /\ handle = "none" <=> filter = "off"
  /\ (InCharge /\ lpc = "done" /\ filter # "done") => Stopped
  /\ (handle = "open" /\ filter = "done" /\ ~TerminalQueued) =>
       lpc = "done" /\ hubq = <<>> /\ Stopped

DInv == IInv /\ Covered /\ NoHoleAfterFirstFrame /\ Custody /\ Endings /\ ClosedForAReason
=============================================================================
