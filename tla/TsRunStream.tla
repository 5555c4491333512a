---------------------------- MODULE TsRunStream -----------------------------
(***************************************************************************)
(* The TypeScript SDK's run stream (packages/akribes-sdk-ts): RunStreamImpl *)
(* over EventsClient over connectSse's fetch loop.  The client's           *)
(* subscribers share one SSE connection, which the first one opens and the *)
(* last one closes; the constructor joins it in whatever state it is, or   *)
(* opens it, and issues POST /run at once.  Until the POST resolves the    *)
(* execution id is unknown and events are buffered in `pending'.           *)
(*                                                                         *)
(* JavaScript is single-threaded: every handler runs to completion.  The   *)
(* one handler modelled as several steps is the drain of the buffer when   *)
(* the POST resolves; no other client action is enabled meanwhile.         *)
(*                                                                         *)
(* Events are represented by their index in the hub's log.                 *)
(***************************************************************************)
EXTENDS EventHub

CONSTANTS
  Readers,    \* async iterators over the stream
  MaxBreaks   \* bound of the model: how often the connection is lost

ASSUME TsAssumption == MaxBreaks \in Nat

VARIABLES
  conn,      \* connectSse: "connecting" (backoff included), "streaming", "closed"
  cursor,    \* connectSse: lastEventId, 0 for undefined
  pos,       \* index of the next event the connection will read
  shared,    \* the EventsClient has subscribers besides the handle
  post,      \* "absent" (no handle yet), then starter(): "sent", "accepted" (server
             \* side), "draining", "done", "failed"
  pending,   \* events held until the execution id is known
  delivered, \* RunStreamImpl.log
  finished,  \* RunStreamImpl.finished
  output,    \* outputDef: "pending", "end", "error", "closed" (other rejections)
  reader,    \* per iterator: its cursor and what it is doing
  breaks,    \* history: connections lost
  missed,    \* history: our run's events the open handle will never be shown
  anchored   \* history: no moment since the constructor at which a connect could
             \* pass over events (see NoGapWhileAnchored)

connVars == <<conn, cursor, pos, shared>>
handleVars == <<post, pending, delivered, finished, output>>
ghostVars == <<breaks, missed, anchored>>
vars == <<hubVars, connVars, handleVars, reader, ghostVars>>

TypeOK ==
  /\ HubTypeOK
  /\ conn \in {"connecting", "streaming", "closed"}
  /\ cursor \in Nat
  /\ pos \in Nat \ {0}
  /\ shared \in BOOLEAN
  /\ post \in {"absent", "sent", "accepted", "draining", "done", "failed"}
  /\ pending \in Seq(Nat)
  /\ delivered \in Seq(Nat)
  /\ finished \in BOOLEAN
  /\ output \in {"pending", "end", "error", "closed"}
  /\ reader \in [Readers -> [got : Nat, doing : {"ready", "waiting", "done", "left"}]]
  /\ breaks \in 0..MaxBreaks
  /\ missed \subseteq Nat
  /\ anchored \in BOOLEAN

\* The EventsClient has been made: nobody is subscribed, no connection is up.
Init ==
  /\ HubInit
  /\ conn = "closed"
  /\ cursor = 0
  /\ pos = 1
  /\ shared = FALSE
  /\ post = "absent"
  /\ pending = <<>>
  /\ delivered = <<>>
  /\ finished = FALSE
  /\ output = "pending"
  /\ reader = [r \in Readers |-> [got |-> 0, doing |-> "ready"]]
  /\ breaks = 0
  /\ missed = {}
  /\ anchored = FALSE

\* Run to completion: nothing else runs while the buffer is drained.
Idle == post # "draining"

\* The handle's own subscriber is in the client's set.
Subscribed == post # "absent" /\ ~finished

-----------------------------------------------------------------------------
(* EventsClient: the subscribers and the connection they share. *)

(***************************************************************************)
(* ensureConnection: a connection that is there is joined as it is, be it  *)
(* streaming, connecting for the first time or backing off; otherwise a    *)
(* new fetch loop starts, with no Last-Event-ID.                           *)
(***************************************************************************)
EnsureConnection ==
  /\ conn' = IF conn = "closed" THEN "connecting" ELSE conn
  /\ cursor' = IF conn = "closed" THEN 0 ELSE cursor

\* A connect resumes where the last frame was read, and passes nothing over.
Resumes == Replay /\ cursor # 0

\* Mutant of Construct: the connection that is there is replaced by a new one.
ConstructReopens ==
  /\ post = "absent"
  /\ post' = "sent"
  /\ conn' = "connecting"
  /\ cursor' = 0
  /\ anchored' = (conn = "streaming" \/ (conn = "connecting" /\ Resumes))
  /\ UNCHANGED <<hubVars, pos, shared, pending, delivered, finished, output, reader, breaks, missed>>

\* RunStreamImpl's constructor: it subscribes and sends the POST.
Construct ==
  /\ post = "absent"
  /\ post' = "sent"
  /\ EnsureConnection
  /\ anchored' = (conn = "streaming" \/ (conn = "connecting" /\ Resumes))
  /\ UNCHANGED <<hubVars, pos, shared, pending, delivered, finished, output, reader, breaks, missed>>

\* The first subscriber besides the handle: onAll, onScriptChange, another run...
OtherSubscribes ==
  /\ Idle
  /\ ~shared
  /\ shared' = TRUE
  /\ EnsureConnection
  /\ UNCHANGED <<hubVars, pos, handleVars, reader, ghostVars>>

\* removeSubscriber, for the last of them.
OtherLeaves ==
  /\ Idle
  /\ shared
  /\ shared' = FALSE
  /\ conn' = IF Subscribed THEN conn ELSE "closed"
  /\ UNCHANGED <<hubVars, cursor, pos, handleVars, reader, ghostVars>>

-----------------------------------------------------------------------------
(* The hub. *)

Publish(e) ==
  /\ HubPublish(e)
  /\ UNCHANGED <<connVars, handleVars, reader, ghostVars>>

PostAccepted ==
  /\ post = "sent"
  /\ HubAccept
  /\ post' = "accepted"
  /\ UNCHANGED <<connVars, pending, delivered, finished, output, reader, ghostVars>>

-----------------------------------------------------------------------------
(* RunStreamImpl: handling one event. *)

\* finish() without its loop over the parked iterators.
FinishForgetsReaders(readers) ==
  /\ finished' = TRUE
  /\ conn' = IF shared THEN conn ELSE "closed"
  /\ reader' = readers

\* Mutant of Finish: the connection is closed under the other subscribers.
FinishClosesForAll(readers) ==
  /\ finished' = TRUE
  /\ conn' = "closed"
  /\ reader' = [r \in Readers |->
                 IF readers[r].doing = "waiting" THEN [readers[r] EXCEPT !.doing = "done"] ELSE readers[r]]

(***************************************************************************)
(* finish(): unsubscribe, which closes the connection when no subscriber   *)
(* is left, and release every parked iterator.                             *)
(***************************************************************************)
Finish(readers) ==
  /\ finished' = TRUE
  /\ conn' = IF shared THEN conn ELSE "closed"
  /\ reader' = [r \in Readers |->
                 IF readers[r].doing = "waiting" THEN [readers[r] EXCEPT !.doing = "done"] ELSE readers[r]]

\* pushEvent: the iterators parked at the end of the log are given the event.
Woken(n) ==
  [r \in Readers |->
    IF reader[r].doing = "waiting" /\ reader[r].got < n
      THEN [got |-> reader[r].got + 1, doing |-> "ready"]
      ELSE reader[r]]

\* Mutant of Handle: any event settles the output.
HandleAnySettles(i) ==
  /\ ~finished
  /\ delivered' = Append(delivered, i)
  /\ output' = log[i].kind
  /\ Finish(Woken(Len(delivered) + 1))

\* handleRaw: callbacks, pushEvent, then terminal detection.
Handle(i) ==
  /\ ~finished
  /\ delivered' = Append(delivered, i)
  /\ IF IsTerminal(i)
       THEN /\ output' = log[i].kind
            /\ Finish(Woken(Len(delivered) + 1))
       ELSE /\ reader' = Woken(Len(delivered) + 1)
            /\ UNCHANGED <<output, finished, conn>>

Ignore == UNCHANGED <<delivered, output, finished, conn, reader>>

\* An event the handle never looks at: its subscriber is not in the set (yet or
\* any more), or it is not an Execution event of its script.
Unheard(i) == ~Subscribed \/ log[i].src = "hub"

\* Mutant of Route: before the id is known everything is handled at once.
RouteUnbuffered(i) ==
  /\ IF Unheard(i) \/ (post = "done" /\ ~Matches(i)) THEN Ignore ELSE Handle(i)
  /\ UNCHANGED pending

(***************************************************************************)
(* EventsClient's wrapper, then routeRaw: buffer while the execution id is *)
(* unknown, drop another run's events once it is known.                    *)
(***************************************************************************)
Route(i) ==
  \/ /\ ~Unheard(i) /\ post \in {"sent", "accepted"}
     /\ pending' = Append(pending, i)
     /\ Ignore
  \/ /\ ~Unheard(i) /\ post = "done" /\ Matches(i)
     /\ Handle(i)
     /\ UNCHANGED pending
  \/ /\ Unheard(i) \/ (post = "done" /\ ~Matches(i))
     /\ Ignore
     /\ UNCHANGED pending

-----------------------------------------------------------------------------
(* connectSse: the fetch loop. *)

(***************************************************************************)
(* fetch answers 2xx: the body is read from where the server starts it.  A *)
(* failed or refused fetch changes nothing but the backoff: the loop tries *)
(* again for as long as it is not disposed.                                *)
(***************************************************************************)
Connect ==
  /\ Idle
  /\ conn = "connecting"
  /\ conn' = "streaming"
  /\ pos' = ResumeAt(cursor)
  /\ missed' = IF finished THEN missed ELSE missed \cup {i \in pos..(pos' - 1) : Own(i)}
  /\ UNCHANGED <<hubVars, cursor, shared, handleVars, reader, breaks, anchored>>

\* Mutant of ReadFrame: the cursor is the id of the last frame of the chunk.
ReadFrameCursorAhead ==
  /\ Idle
  /\ conn = "streaming"
  /\ pos <= Len(log)
  /\ cursor' = Len(log)
  /\ pos' = pos + 1
  /\ Route(pos)
  /\ UNCHANGED <<hubVars, shared, post, ghostVars>>

\* One frame: wrappedOnMessage stores the id, then the subscribers run.
ReadFrame ==
  /\ Idle
  /\ conn = "streaming"
  /\ pos <= Len(log)
  /\ cursor' = pos
  /\ pos' = pos + 1
  /\ Route(pos)
  /\ UNCHANGED <<hubVars, shared, post, ghostVars>>

\* The body ends, cleanly or not; the loop reconnects either way.
ConnectionLost ==
  /\ Idle
  /\ conn = "streaming"
  /\ breaks < MaxBreaks
  /\ breaks' = breaks + 1
  /\ conn' = "connecting"
  /\ anchored' = (anchored /\ Resumes)
  /\ UNCHANGED <<hubVars, cursor, pos, shared, handleVars, reader, missed>>

-----------------------------------------------------------------------------
(* The continuations of starter(). *)

\* Mutant of PostResolves: the buffer is thrown away instead of replayed.
PostResolvesEmpty ==
  /\ post = "accepted"
  /\ post' = "draining"
  /\ pending' = <<>>
  /\ UNCHANGED <<hubVars, connVars, delivered, finished, output, reader, ghostVars>>

\* The execution id is known from here on.
PostResolves ==
  /\ post = "accepted"
  /\ post' = "draining"
  /\ UNCHANGED <<hubVars, connVars, pending, delivered, finished, output, reader, ghostVars>>

\* Mutant of DrainEnds: the loop stops at an event of another run.
DrainEndsEarly ==
  /\ post = "draining"
  /\ pending # <<>> => ~Matches(Head(pending))
  /\ post' = "done"
  /\ pending' = <<>>
  /\ UNCHANGED <<hubVars, connVars, delivered, finished, output, reader, ghostVars>>

DrainEnds ==
  /\ post = "draining"
  /\ pending = <<>>
  /\ post' = "done"
  /\ UNCHANGED <<hubVars, connVars, pending, delivered, finished, output, reader, ghostVars>>

\* One buffered event: another run's is skipped, ours is handled, and
\* handleRaw ignores everything once the stream is finished.
DrainStep ==
  /\ post = "draining"
  /\ pending # <<>>
  /\ pending' = Tail(pending)
  /\ IF Matches(Head(pending)) /\ ~finished THEN Handle(Head(pending)) ELSE Ignore
  /\ UNCHANGED <<hubVars, cursor, pos, shared, post, ghostVars>>

Drain == DrainStep \/ DrainEnds

\* The POST is refused, or its answer is lost: executionId and output reject.
PostFails ==
  /\ post \in {"sent", "accepted"}
  /\ post' = "failed"
  /\ pending' = <<>>
  /\ IF finished
       THEN UNCHANGED <<finished, conn, reader, output>>
       ELSE /\ output' = "closed"
            /\ Finish(reader)
  /\ UNCHANGED <<hubVars, cursor, pos, shared, delivered, ghostVars>>

-----------------------------------------------------------------------------
(* The caller. *)

\* cancel(): output rejects and the stream finishes; the POST is not recalled.
Cancel ==
  /\ Idle
  /\ Subscribed
  /\ output' = "closed"
  /\ Finish(reader)
  /\ UNCHANGED <<hubVars, cursor, pos, shared, post, pending, delivered, ghostVars>>

CanCall(r) == Idle /\ post # "absent" /\ reader[r].doing = "ready"

\* next(): an event of the log, the end, or a parked promise.
NextBuffered(r) ==
  /\ CanCall(r)
  /\ reader[r].got < Len(delivered)
  /\ reader' = [reader EXCEPT ![r].got = @ + 1]
  /\ UNCHANGED <<hubVars, connVars, handleVars, ghostVars>>

NextDone(r) ==
  /\ CanCall(r)
  /\ reader[r].got = Len(delivered)
  /\ finished
  /\ reader' = [reader EXCEPT ![r].doing = "done"]
  /\ UNCHANGED <<hubVars, connVars, handleVars, ghostVars>>

\* Mutant of NextParks: parks without looking at the log.
NextParksBlindly(r) ==
  /\ CanCall(r)
  /\ ~finished
  /\ reader' = [reader EXCEPT ![r].doing = "waiting"]
  /\ UNCHANGED <<hubVars, connVars, handleVars, ghostVars>>

NextParks(r) ==
  /\ CanCall(r)
  /\ reader[r].got = Len(delivered)
  /\ ~finished
  /\ reader' = [reader EXCEPT ![r].doing = "waiting"]
  /\ UNCHANGED <<hubVars, connVars, handleVars, ghostVars>>

\* return(): this iterator only; a parked promise resolves.
Return(r) ==
  /\ Idle
  /\ post # "absent"
  /\ reader[r].doing \in {"ready", "waiting"}
  /\ reader' = [reader EXCEPT ![r].doing = "left"]
  /\ UNCHANGED <<hubVars, connVars, handleVars, ghostVars>>

ReaderNext(r) == NextBuffered(r) \/ NextDone(r) \/ NextParks(r)

-----------------------------------------------------------------------------

Next ==
  \/ \E e \in Event : Publish(e)
  \/ Construct \/ OtherSubscribes \/ OtherLeaves
  \/ PostAccepted \/ PostResolves \/ PostFails \/ Drain
  \/ Connect \/ ReadFrame \/ ConnectionLost
  \/ Cancel
  \/ \E r \in Readers : ReaderNext(r) \/ Return(r)

(***************************************************************************)
(* The engine ends the runs it starts, the event loop runs every handler,  *)
(* the fetch loop never gives up and an attempt succeeds in the end, the   *)
(* POST is answered, and a reader goes on calling next().                  *)
(***************************************************************************)
Fairness ==
  /\ WF_vars(HubFinish /\ UNCHANGED <<connVars, handleVars, reader, ghostVars>>)
  /\ WF_vars(Connect)
  /\ WF_vars(ReadFrame)
  /\ WF_vars(PostAccepted \/ PostResolves \/ PostFails)
  /\ WF_vars(Drain)
  /\ \A r \in Readers : WF_vars(ReaderNext(r))

Spec == Init /\ [][Next]_vars

FairSpec == Spec /\ Fairness

-----------------------------------------------------------------------------
(* Properties. *)

(***************************************************************************)
(* The handle implements RunHandle: the buffer, the drain and the filter   *)
(* never let another run's event settle it, reorder or repeat events, or   *)
(* deliver anything after it has finished or been cancelled.               *)
(***************************************************************************)
RH == INSTANCE RunHandle WITH seen <- delivered, outcome <- output

ImplementsRunHandle == RH!HandleSpec

(***************************************************************************)
(* Nothing of our run is lost between routeRaw and the log: until the      *)
(* stream finishes, each of our events the connection has gone past is     *)
(* buffered, delivered, or was missed by a (re)connect.                    *)
(***************************************************************************)
Held == {pending[k] : k \in DOMAIN pending} \cup {delivered[k] : k \in DOMAIN delivered}

NothingDropped ==
  ~finished => \A i \in 1..(pos - 1) : Own(i) => i \in Held \cup missed

(***************************************************************************)
(* No lost wakeup: a parked iterator has read the whole log and the stream *)
(* is still open, so a later pushEvent or finish will resolve its promise. *)
(* And an iterator that was told `done' has been given everything.         *)
(***************************************************************************)
NoLostWakeup ==
  \A r \in Readers :
    /\ reader[r].doing = "waiting" => reader[r].got = Len(delivered) /\ ~finished
    /\ reader[r].doing = "done" => reader[r].got = Len(delivered) /\ finished

(***************************************************************************)
(* When subscribing first does suffice (runStream.ts:246): a handle that   *)
(* joins a connection which is streaming, or which is backing off and will *)
(* resume from its Last-Event-ID, misses nothing of its run, whoever else  *)
(* comes and goes, until a streaming connection is lost that has no event  *)
(* id to resume from.  Joining one that is still connecting is no better   *)
(* than opening one.                                                       *)
(***************************************************************************)
NoGapWhileAnchored == anchored => missed = {}

(***************************************************************************)
(* The shared connection lives exactly as long as it has subscribers:      *)
(* whichever way the handle ends (terminal event, cancel(), failed POST)   *)
(* and in whatever order subscribers come and go, no connection is leaked  *)
(* and none is closed under somebody who still listens.                    *)
(***************************************************************************)
ConnectionWhileSubscribed == conn # "closed" <=> (shared \/ Subscribed)

(***************************************************************************)
(* With a replaying server, an event is only ever missed ahead of all that *)
(* the handle holds: the cursor leaves no hole in the middle.              *)
(***************************************************************************)
NoHoleAfterFirstFrame == Replay => \A i \in missed, h \in Held : i < h

(***************************************************************************)
(* output settles once the run's terminal event is published, whenever the *)
(* id became known, unless a (re)connect went past that event.             *)
(***************************************************************************)
TerminalPublished == \E i \in DOMAIN log : Own(i) /\ IsTerminal(i)

TerminalMissed == \E i \in missed : IsTerminal(i)

Settles == TerminalPublished ~> (output # "pending" \/ TerminalMissed)

(***************************************************************************)
(* Once the stream finishes, by whatever path, every iterator ends.        *)
(***************************************************************************)
ReadersEnd == finished ~> \A r \in Readers : reader[r].doing \in {"done", "left"}

-----------------------------------------------------------------------------
(* The inductive invariant behind the safety properties. *)

\* The connection's position: never ahead of the log, and with replay
\* always just past the cursor.
Position ==
  /\ pos <= Len(log) + 1
  /\ cursor < pos
  /\ (Replay /\ cursor # 0) => pos = cursor + 1
  /\ missed \subseteq 1..(pos - 1)

\* Until the POST is accepted there is no run, and none of its events.
NoRunYet ==
  /\ post \in {"absent", "sent"} => run = "absent"
  /\ run = "absent" => missed = {} /\ \A i \in 1..Len(log) : ~Own(i)

\* An anchored handle's connection is streaming, or will resume.
Anchor ==
  /\ anchored => post # "absent"
  /\ (anchored /\ ~finished) => conn = "streaming" \/ Resumes

\* The buffer is used while the id is unknown, and only then.
Buffering ==
  /\ post \in {"absent", "sent", "accepted"} => delivered = <<>>
  /\ post \in {"absent", "done", "failed"} => pending = <<>>
  /\ post = "absent" => ~finished
  /\ post = "failed" => finished
  /\ finished <=> output # "pending"

Read(s) == \A k \in 1..Len(s) : s[k] \in 1..(pos - 1)

\* What the handle holds has been read, and the buffer comes after the log.
Order ==
  /\ Read(delivered) /\ Read(pending)
  /\ (cursor = 0 /\ ~finished) => delivered = <<>> /\ pending = <<>>
  /\ Increasing(pending)
  /\ Below(delivered, pending)

IInv ==
  /\ TypeOK /\ Position /\ NoRunYet /\ Anchor /\ Buffering /\ Order
  /\ NothingDropped /\ NoLostWakeup /\ NoGapWhileAnchored /\ NoHoleAfterFirstFrame
  /\ ConnectionWhileSubscribed
=============================================================================
