---------------------------- MODULE PyRunStream -----------------------------
(***************************************************************************)
(* The Python SDK's run stream (packages/akribes-sdk-python): RunStream    *)
(* over Events.stream over ws_stream or SSE.  _start creates the listener  *)
(* task, waits for its ready event, POSTs the run and then sets            *)
(* execution_id; the dispatcher and the iterators index into the shared    *)
(* buffer `events'.  Three kinds of coroutine interleave at their awaits   *)
(* (asyncio is single-threaded, so a stretch between two awaits is one     *)
(* step): the listener, the caller in _start or cancel(), the consumers.   *)
(*                                                                         *)
(* Events are represented by their index in the hub's log.                 *)
(***************************************************************************)
EXTENDS EventHub

CONSTANTS
  Consumers,   \* the callback dispatcher and the iterators over the stream
  MaxRetries,  \* max_reconnect_attempts (5 in the code)
  WsSeq,       \* do WebSocket frames carry a top-level `seq'?
  MaxBreaks    \* bound of the model: connections lost or lagging

ASSUME PyAssumption ==
  /\ MaxRetries \in Nat \ {0}
  /\ WsSeq \in BOOLEAN
  /\ MaxBreaks \in Nat

VARIABLES
  transport,  \* which generator is running: "ws" or "sse"
  committed,  \* ws_stream: handshake_succeeded
  lpc,        \* listener: "connecting" (backoff included), "streaming",
              \*   "closed" (its generator returned), "done"
  attempt,    \* consecutive failures; reset by a success
  cursor,     \* last_event_id, 0 for None
  pos,        \* index of the next event the connection will read
  ready,      \* _sse_ready: "unset", or what set it: "live" (a connection),
              \*   "refused" (an HTTP error answer), "over" (_listen's finally)
  start,      \* _start: where it is; "live" once execution_id is set
  events,     \* _events
  outcome,    \* _done, _final_output and _final_error
  closing,    \* cancel(): "no", "begun", "over"
  consumer,   \* per consumer: its index and what it is doing
  breaks,     \* history: connections lost or lagging
  holed,      \* history: the server lagged, or the transport changed mid-run
  missed      \* history: our run's events no connection will ever read

transportVars == <<transport, committed>>
connVars == <<attempt, cursor, pos>>
bufferVars == <<events, outcome, consumer>>
ghostVars == <<breaks, holed, missed>>
vars == <<hubVars, transportVars, lpc, connVars, ready, start, closing, bufferVars, ghostVars>>

Outcome == {"pending", "end", "error", "closed"}

TypeOK ==
  /\ HubTypeOK
  /\ transport \in {"ws", "sse"}
  /\ committed \in BOOLEAN
  /\ lpc \in {"connecting", "streaming", "closed", "done"}
  /\ attempt \in 0..MaxRetries
  /\ cursor \in Nat
  /\ pos \in Nat \ {0}
  /\ ready \in {"unset", "live", "refused", "over"}
  /\ start \in {"wait_ready", "posting", "accepted", "live", "failed", "cancelled"}
  /\ events \in Seq(Nat)
  /\ outcome \in Outcome
  /\ closing \in {"no", "begun", "over"}
  /\ consumer \in [Consumers -> [got : Nat, doing : {"off", "ready", "waiting", "ended", "left"}]]
  /\ breaks \in 0..MaxBreaks
  /\ holed \in BOOLEAN
  /\ missed \subseteq Nat

(***************************************************************************)
(* AKRIBES_TRANSPORT is "auto" (WebSocket, then SSE), "ws" or "sse".  The  *)
(* first choice shows here; whether "ws" is forced is only looked at when  *)
(* a handshake fails (WsFallsBack, WsForcedFails), once per behaviour.     *)
(***************************************************************************)
Init ==
  /\ HubInit
  /\ transport \in {"ws", "sse"}
  /\ committed = FALSE
  /\ lpc = "connecting"
  /\ attempt = 0
  /\ cursor = 0
  /\ pos = 1
  /\ ready = "unset"
  /\ start = "wait_ready"
  /\ events = <<>>
  /\ outcome = "pending"
  /\ closing = "no"
  /\ consumer = [c \in Consumers |-> [got |-> 0, doing |-> "off"]]
  /\ breaks = 0
  /\ holed = FALSE
  /\ missed = {}

-----------------------------------------------------------------------------
(* The hub. *)

Publish(e) ==
  /\ HubPublish(e)
  /\ UNCHANGED <<transportVars, lpc, connVars, ready, start, closing, bufferVars, ghostVars>>

-----------------------------------------------------------------------------
(* The listener task: connecting. *)

\* _event_signal.set(): every consumer waiting on it runs again.
Woken ==
  [c \in Consumers |->
    IF consumer[c].doing = "waiting" THEN [consumer[c] EXCEPT !.doing = "ready"] ELSE consumer[c]]

\* ready.set(): only the first one counts.
SetReady(why) == ready' = IF ready = "unset" THEN why ELSE ready

\* _listen's finally block, run when its loop is left by whatever path.
Leave(how) ==
  /\ lpc' = how
  /\ SetReady("over")
  /\ consumer' = Woken

\* Mutant of Crash: the exception is logged, _done is never set.
CrashQuietly ==
  /\ Leave("done")
  /\ UNCHANGED <<outcome, attempt>>

\* The generator raised: the error is kept for output(), and _done is set.
Crash ==
  /\ Leave("done")
  /\ outcome' = "closed"
  /\ UNCHANGED attempt

\* Mutant of Connect: a reconnect after a failure presents no cursor.
ConnectAfresh ==
  /\ lpc = "connecting"
  /\ lpc' = "streaming"
  /\ SetReady("live")
  /\ attempt' = 0
  /\ committed' = (committed \/ transport = "ws")
  /\ pos' = ResumeAt(0)
  /\ missed' = missed \cup {i \in pos..(pos' - 1) : Own(i)}
  /\ UNCHANGED <<hubVars, transport, cursor, start, closing, bufferVars, breaks, holed>>

\* The WebSocket handshake or the SSE GET succeeds.
Connect ==
  /\ lpc = "connecting"
  /\ lpc' = "streaming"
  /\ SetReady("live")
  /\ attempt' = 0
  /\ committed' = (committed \/ transport = "ws")
  /\ pos' = ResumeAt(cursor)
  /\ missed' = missed \cup {i \in pos..(pos' - 1) : Own(i)}
  /\ UNCHANGED <<hubVars, transport, cursor, start, closing, bufferVars, breaks, holed>>

\* Mutant of Retry: failures are not counted against the limit.
RetryForever ==
  /\ attempt' = attempt + 1
  /\ lpc' = "connecting"
  /\ UNCHANGED <<ready, outcome, consumer>>

\* One more consecutive failure: back off and connect again, or raise.
Retry ==
  /\ attempt < MaxRetries
  /\ attempt' = attempt + 1
  /\ lpc' = "connecting"
  /\ UNCHANGED <<ready, outcome, consumer>>

RetryOrCrash == Retry \/ (attempt = MaxRetries /\ Crash)

(***************************************************************************)
(* WsHandshakeError: any failure before the first successful handshake,    *)
(* and an HTTP error status at any later one too.  Events.stream falls     *)
(* back to SSE with a fresh last_event_id; a forced "ws" raises instead.   *)
(***************************************************************************)
WsFallsBack ==
  /\ lpc = "connecting"
  /\ transport = "ws"
  /\ transport' = "sse"
  /\ attempt' = 0
  /\ cursor' = 0
  /\ holed' = (holed \/ committed)
  /\ UNCHANGED <<hubVars, committed, lpc, pos, ready, start, closing, bufferVars, breaks, missed>>

WsForcedFails ==
  /\ lpc = "connecting"
  /\ transport = "ws"
  /\ Crash
  /\ UNCHANGED <<hubVars, transportVars, cursor, pos, start, closing, events, ghostVars>>

(***************************************************************************)
(* A connection attempt that fails below HTTP: refused, reset, timed out.  *)
(* On the WebSocket this is counted only once a handshake has succeeded.   *)
(***************************************************************************)
ConnectFails ==
  /\ lpc = "connecting"
  /\ transport = "ws" => committed
  /\ RetryOrCrash
  /\ UNCHANGED <<hubVars, transportVars, cursor, pos, start, closing, events, ghostVars>>

(***************************************************************************)
(* GET /events answers with an error status.  aconnect_sse does not look   *)
(* at the status, so ready is set and attempt reset before aiter_sse       *)
(* raises on the content type; that failure is then the first in a row.    *)
(***************************************************************************)
SseRefused ==
  /\ lpc = "connecting"
  /\ transport = "sse"
  /\ SetReady("refused")
  /\ attempt' = 1
  /\ UNCHANGED <<hubVars, transportVars, lpc, cursor, pos, start, closing, bufferVars, ghostVars>>

-----------------------------------------------------------------------------
(* The listener task: streaming. *)

\* execution_id is set.
Known == start = "live"

\* Mutant of Skipped: the script name is compared, the execution id is not.
SkippedByScript(i) == log[i].src = "hub"

\* Not an Execution event of our script, or, once the id is known, another
\* run's.
Skipped(i) == log[i].src = "hub" \/ (Known /\ ~Matches(i))

\* Mutant of Append: a non-terminal event wakes nobody.
AppendQuietly(i) ==
  /\ events' = Append(events, i)
  /\ IF IsTerminal(i)
       THEN Leave("done") /\ outcome' = log[i].kind
       ELSE UNCHANGED <<lpc, ready, outcome, consumer>>

\* One event for the buffer; a terminal one also sets _done and ends the task.
AppendEvent(i) ==
  /\ events' = Append(events, i)
  /\ IF IsTerminal(i)
       THEN Leave("done") /\ outcome' = log[i].kind
       ELSE consumer' = Woken /\ UNCHANGED <<lpc, ready, outcome>>

\* One event of a frame, after its id or seq is stored as the cursor.
Deliver ==
  /\ lpc = "streaming"
  /\ pos <= Len(log)
  /\ pos' = pos + 1
  /\ cursor' = IF transport = "ws" /\ ~WsSeq THEN cursor ELSE pos
  /\ IF Skipped(pos)
       THEN UNCHANGED <<lpc, ready, bufferVars>>
       ELSE AppendEvent(pos)
  /\ UNCHANGED <<hubVars, transportVars, attempt, start, closing, ghostVars>>

\* The server dropped what this subscriber was too slow to read and says so: in
\* a "lagged" frame, which ws_stream logs, or in the SSE side-channel event it
\* mirrors, which Events.stream ignores.  The loop goes on; no cursor moves.
Lagged ==
  /\ lpc = "streaming"
  /\ breaks < MaxBreaks
  /\ pos <= Len(log)
  /\ breaks' = breaks + 1
  /\ pos' = Len(log) + 1
  /\ missed' = missed \cup {i \in pos..Len(log) : Own(i)}
  /\ holed' = TRUE
  /\ UNCHANGED <<hubVars, transportVars, lpc, attempt, cursor, ready, start, closing, bufferVars>>

ConnectionLost ==
  /\ lpc = "streaming"
  /\ breaks < MaxBreaks
  /\ breaks' = breaks + 1
  /\ RetryOrCrash
  /\ UNCHANGED <<hubVars, transportVars, cursor, pos, start, closing, events, holed, missed>>

\* The server closes the stream in an orderly way: the generator returns and
\* the listener's loop ends; neither output nor error is set.
ServerClose ==
  /\ lpc = "streaming"
  /\ Leave("closed")
  /\ UNCHANGED <<hubVars, transportVars, connVars, start, closing, events, outcome, ghostVars>>

Listener ==
  \/ Connect \/ WsFallsBack \/ WsForcedFails \/ ConnectFails \/ SseRefused
  \/ Deliver \/ Lagged \/ ConnectionLost \/ ServerClose

-----------------------------------------------------------------------------
(* The caller: _start. *)

\* Mutant of Subscribed: the run is POSTed without waiting for the event.
SubscribedAtOnce ==
  /\ start = "wait_ready"
  /\ start' = "posting"
  /\ UNCHANGED <<hubVars, transportVars, lpc, connVars, ready, closing, bufferVars, ghostVars>>

Subscribed ==
  /\ start = "wait_ready"
  /\ ready # "unset"
  /\ start' = "posting"
  /\ UNCHANGED <<hubVars, transportVars, lpc, connVars, ready, closing, bufferVars, ghostVars>>

\* 30 s without the ready event: cancel() the stream and raise.
StartTimeout ==
  /\ start = "wait_ready"
  /\ ready = "unset"
  /\ start' = "failed"
  /\ Leave("done")
  /\ outcome' = "closed"
  /\ closing' = "over"
  /\ UNCHANGED <<hubVars, transportVars, connVars, events, ghostVars>>

PostAccepted ==
  /\ start = "posting"
  /\ HubAccept
  /\ start' = "accepted"
  /\ UNCHANGED <<transportVars, lpc, connVars, ready, closing, bufferVars, ghostVars>>

\* The response: execution_id is set and run_stream returns the stream.
PostReturns ==
  /\ start = "accepted"
  /\ start' = "live"
  /\ UNCHANGED <<hubVars, transportVars, lpc, connVars, ready, closing, bufferVars, ghostVars>>

\* run() raises, or the caller's task is cancelled inside _start: nobody
\* cancels the listener task.
StartAbandoned(how) ==
  /\ start' = how
  /\ UNCHANGED <<hubVars, transportVars, lpc, connVars, ready, closing, bufferVars, ghostVars>>

PostFails == start \in {"posting", "accepted"} /\ StartAbandoned("failed")

StartCancelled == start \in {"wait_ready", "posting", "accepted"} /\ StartAbandoned("cancelled")

Starter == Subscribed \/ StartTimeout \/ PostAccepted \/ PostReturns \/ PostFails \/ StartCancelled

-----------------------------------------------------------------------------
(* The caller: cancel(), in two steps around its await of the listener. *)

CancelBegins ==
  /\ start = "live"
  /\ closing = "no"
  /\ closing' = "begun"
  /\ IF lpc \in {"connecting", "streaming"}
       THEN Leave("done")
       ELSE UNCHANGED <<lpc, ready, consumer>>
  /\ UNCHANGED <<hubVars, transportVars, connVars, start, events, outcome, ghostVars>>

\* Mutant of CancelEnds: _done is set but the signal is not.
CancelEndsQuietly ==
  /\ closing = "begun"
  /\ closing' = "over"
  /\ outcome' = IF outcome = "pending" THEN "closed" ELSE outcome
  /\ UNCHANGED <<hubVars, transportVars, lpc, connVars, ready, start, events, consumer, ghostVars>>

CancelEnds ==
  /\ closing = "begun"
  /\ closing' = "over"
  /\ outcome' = IF outcome = "pending" THEN "closed" ELSE outcome
  /\ consumer' = Woken
  /\ UNCHANGED <<hubVars, transportVars, lpc, connVars, ready, start, events, ghostVars>>

-----------------------------------------------------------------------------
(* The consumers: _wait_for_event_at, from the dispatcher or an iterator. *)

Set(c, got, doing) ==
  /\ consumer' = [consumer EXCEPT ![c] = [got |-> got, doing |-> doing]]
  /\ UNCHANGED <<hubVars, transportVars, lpc, connVars, ready, start, closing, events, outcome, ghostVars>>

\* output() or __aiter__ starts it, at any time, with the buffer as it is.
Begin(c) == consumer[c].doing = "off" /\ start = "live" /\ Set(c, 0, "ready")

Take(c) ==
  /\ consumer[c].doing = "ready"
  /\ consumer[c].got < Len(events)
  /\ Set(c, consumer[c].got + 1, "ready")

End(c) ==
  /\ consumer[c].doing = "ready"
  /\ consumer[c].got = Len(events)
  /\ outcome # "pending"
  /\ Set(c, consumer[c].got, "ended")

\* The signal is cleared, then awaited.
Wait(c) ==
  /\ consumer[c].doing = "ready"
  /\ consumer[c].got = Len(events)
  /\ outcome = "pending"
  /\ Set(c, consumer[c].got, "waiting")

\* An iterator is abandoned; a dispatcher dies of a callback's exception or
\* is cancelled by cancel() after its second of grace.  Its index is gone.
Stop(c) == consumer[c].doing \in {"ready", "waiting"} /\ Set(c, 0, "left")

Consume(c) == Take(c) \/ End(c) \/ Wait(c)

-----------------------------------------------------------------------------

Client ==
  \/ Listener \/ Starter
  \/ CancelBegins \/ CancelEnds
  \/ \E c \in Consumers : Begin(c) \/ Consume(c) \/ Stop(c)

Next == (\E e \in Event : Publish(e)) \/ Client

(***************************************************************************)
(* The engine ends every run it starts; the event loop runs every task     *)
(* that is ready; a listener that goes on trying connects in the end, and  *)
(* reads what it is sent; the POST is answered; an unfinished cancel()     *)
(* goes on.  Nothing is assumed of failures, of cancelling or abandoning.  *)
(***************************************************************************)
Fairness ==
  /\ WF_vars(HubFinish /\ UNCHANGED <<transportVars, lpc, connVars, ready, start, closing, bufferVars, ghostVars>>)
  /\ WF_vars(Connect)
  /\ WF_vars(Deliver)
  /\ WF_vars(Subscribed)
  /\ WF_vars(PostAccepted \/ PostReturns \/ PostFails)
  /\ WF_vars(CancelEnds)
  /\ \A c \in Consumers : WF_vars(Consume(c))

Spec == Init /\ [][Next]_vars

FairSpec == Spec /\ Fairness

(***************************************************************************)
(* The same client when no other run of the script publishes before the    *)
(* execution id is known.                                                  *)
(***************************************************************************)
SoloNext == (\E e \in Event : (e.src = "other" => Known) /\ Publish(e)) \/ Client

SoloSpec == Init /\ [][SoloNext]_vars

SoloFairSpec == SoloSpec /\ Fairness

-----------------------------------------------------------------------------
(* Properties. *)

(***************************************************************************)
(* The handle implements RunHandle, provided no other run of the script    *)
(* publishes before the id is known: the inline filter, the cancel in two  *)
(* steps and the crash handler never repeat or reorder an event, settle    *)
(* twice, or append after the handle has settled.                          *)
(***************************************************************************)
RH == INSTANCE RunHandle WITH seen <- events, outcome <- outcome

ImplementsRunHandle == RH!HandleSpec

(***************************************************************************)
(* While the listener is at work, each of our events its connection has    *)
(* gone past is in the buffer or was missed by a reconnect or a lag:       *)
(* nothing is lost between the transport and the buffer, id known or not;   *)
(* a part of IInv below.                                                   *)
(***************************************************************************)
Buffered == {events[k] : k \in DOMAIN events}

NothingDropped ==
  lpc \in {"connecting", "streaming"} =>
    \A i \in 1..(pos - 1) : Own(i) => i \in Buffered \cup missed

(***************************************************************************)
(* "critical to avoid losing the first events" (run_stream.py): when ready *)
(* was set by a live connection and none has been lost, none of our run's  *)
(* events is missed, through the fallback from WebSocket to SSE as well.   *)
(***************************************************************************)
NoOpeningGap == (breaks = 0 /\ ready = "live") => missed = {}

(***************************************************************************)
(* With a replaying server and no lag or change of transport in the middle *)
(* of a run, an event is only ever missed ahead of all that was buffered.  *)
(***************************************************************************)
NoHoleOnOneTransport ==
  (Replay /\ WsSeq /\ ~holed) => \A i \in missed, b \in Buffered : i < b

(***************************************************************************)
(* _wait_for_event_at clears the shared signal before it waits on it; no   *)
(* consumer is left waiting next to an event it has not read, or after the *)
(* stream is done.                                                         *)
(***************************************************************************)
NoLostWakeup ==
  \A c \in Consumers :
    consumer[c].doing = "waiting" => consumer[c].got = Len(events) /\ outcome = "pending"

(***************************************************************************)
(* The handle settles once our run's terminal event is published, unless a *)
(* reconnect went past that event, or the server closed the stream in an   *)
(* orderly way (see AwaitersReleased for what happens then).               *)
(***************************************************************************)
TerminalPublished == \E i \in DOMAIN log : Own(i) /\ IsTerminal(i)

TerminalMissed == \E i \in missed : IsTerminal(i)

Settles ==
  (Known /\ TerminalPublished) ~> (outcome # "pending" \/ TerminalMissed \/ lpc = "closed")

(***************************************************************************)
(* Once the stream is done, by an event, a crash or cancel(), every        *)
(* consumer that has begun reads what is left and ends.                    *)
(***************************************************************************)
ConsumersEnd ==
  \A c \in Consumers :
    (outcome # "pending" /\ consumer[c].doing # "off") ~> (consumer[c].doing \in {"ended", "left"})

-----------------------------------------------------------------------------
(* The inductive invariant behind the safety properties. *)

\* What is buffered is behind the connection; a reconnect that presents the
\* cursor starts after it, also when a lag had moved the connection on.
Position ==
  /\ pos <= Len(log) + 1
  /\ cursor < pos
  /\ (transport = "ws" /\ ~WsSeq) => cursor = 0
  /\ \A k \in 1..Len(events) : events[k] \in 1..(pos - 1)
  /\ (Replay /\ cursor # 0) => \A k \in 1..Len(events) : events[k] <= cursor

\* While no lag and no late change of transport moved them apart, the
\* connection is just past the cursor, and past all that was missed.
Intact ==
  ~holed =>
    /\ (Replay /\ cursor # 0) => pos = cursor + 1
    /\ missed \subseteq 1..(pos - 1)
    /\ WsSeq => \A k \in 1..Len(events) : events[k] <= cursor

\* A WebSocket that never shook hands has delivered nothing.
Uncommitted == (transport = "ws" /\ ~committed) => lpc # "streaming" /\ events = <<>>

\* The POST waits for the ready event, and the run for the POST.
Handshake ==
  /\ ready = "unset" => lpc = "connecting" /\ missed = {}
  /\ (ready = "live" /\ breaks = 0) => lpc # "connecting"
  /\ start \in {"posting", "accepted", "live"} => ready # "unset"
  /\ run # "absent" => ready # "unset"
  /\ \A i \in 1..Len(log) : Own(i) => run # "absent"

\* A listener at work belongs to a handle that is pending and not closing.
AtWork == lpc \in {"connecting", "streaming"} => outcome = "pending" /\ closing = "no"

IInv ==
  /\ TypeOK /\ Position /\ Intact /\ Uncommitted /\ Handshake /\ AtWork
  /\ NothingDropped /\ NoOpeningGap /\ NoHoleOnOneTransport /\ NoLostWakeup

\* What SoloSpec assumes of the other runs, as a state predicate.
Solo == ~Known => \A i \in 1..Len(log) : log[i].src # "other"
=============================================================================
