--------------------------- MODULE RsEventPipeline ---------------------------
(***************************************************************************)
(* An engine event on its way to a Rust consumer: typed_execution_stream   *)
(* (akribes-sdk/src/sub/events.rs) opened on a script somebody else runs,  *)
(* and get_events afterwards.  The actors:                                 *)
(*                                                                         *)
(*   engine and hub   external: they number, wrap and batch the events     *)
(*   listener         stream_sse_with_retry + stream_sse                   *)
(*      | hubq        unbounded: what decoded as a HubEvent                *)
(*   filter           execution_stream's task: execution events only       *)
(*      | rawq        unbounded: EngineEvents                              *)
(*   typer            typed_execution_stream's task: WorkflowEvent::from   *)
(*      | out         what the receiver yields, read or not                *)
(*   consumer         may drop the receiver, or the EventSubscription      *)
(*                                                                         *)
(* The queues hold positions in log.  Nothing the consumer does with an    *)
(* unbounded receiver but dropping it can be noticed upstream, so reading  *)
(* from it is no step.                                                     *)
(***************************************************************************)
EXTENDS WorkflowEvents, Sequencing

CONSTANTS
  Emissions,   \* Emissions[n]: the tuple of events the hub may publish as its n-th
  MaxBatch,    \* events in one SSE frame
  MaxRetries   \* max_retries of stream_sse_with_retry (5 in the code)

\* Frames are the names of calls, token counts are numbers (u32), and values are
\* no deeper than the conversions of Values.
IsEmission(e) ==
  /\ e.frames \in Seq(STRING)
  /\ e.type = "WorkflowEnd" => e.data.legacy \in BOOLEAN /\ Shallow(to_json(e.data.value))
  /\ e.type = "TaskEnd" =>
       DOMAIN e.data \subseteq TokenDims /\ \A d \in DOMAIN e.data : e.data[d] \in Nat

ASSUME PipelineAssumption ==
  /\ Len(Emissions) \in Nat /\ MaxBatch \in Nat \ {0} /\ MaxRetries \in Nat
  /\ \A n \in 1..Len(Emissions) : \A k \in DOMAIN Emissions[n] : IsEmission(Emissions[n][k])

VARIABLES
  log,      \* hub: what was published, each [means |-> the emission, wire |-> its wire form]
  totals,   \* engine: the totals of the run, and
  child,    \*   of the sub-script in progress
  conn,     \* listener: "connecting", "streaming", "done"
  attempt,  \* listener: failures so far
  cursor,   \* listener: last_event_id, 0 for None
  pos,      \* listener: the next event its connection will read
  hubq, rawq, out,
  filter, typer,  \* tasks: "on", "done"
  rx, sub,  \* consumer: the receiver and the subscription, "held" or "dropped"
  replay,   \* get_events: where the reader is, and whether a page failed
  from,     \* history: the first event the listener could see
  closed    \* history: the hub ended the body cleanly

engineVars == <<log, totals, child>>
listenerVars == <<conn, attempt, cursor, pos, from, closed>>
taskVars == <<hubq, rawq, out, filter, typer>>
consumerVars == <<rx, sub, replay>>
vars == <<engineVars, listenerVars, taskVars, consumerVars>>

Init ==
  /\ log = <<>> /\ totals = NoTotals /\ child = NoTotals
  /\ conn = "connecting" /\ attempt = 0 /\ cursor = 0 /\ pos = 1 /\ from = 1 /\ closed = FALSE
  /\ hubq = <<>> /\ rawq = <<>> /\ out = <<>> /\ filter = "on" /\ typer = "on"
  /\ rx = "held" /\ sub = "held" /\ replay = [at |-> 0, failed |-> FALSE]

-----------------------------------------------------------------------------
(* The engine.  An emission is [frames, nested, type, lacks, tag, data]: the  *)
(* calls around the event, outermost first, and whether they are written as   *)
(* envelopes in envelopes (before #993) or as one with a path; data of a      *)
(* TaskEnd is its usage, of a WorkflowEnd its [value, legacy].               *)

Envelopes(frames, nested) ==
  CASE frames = <<>> -> <<>>
    [] frames # <<>> /\ nested -> [i \in DOMAIN frames |-> [own |-> frames[i], path |-> <<>>]]
    [] frames # <<>> /\ ~nested -> <<[own |-> Last(frames), path |-> Front(frames)]>>

PayloadToJson(e, rollup) ==
  IF e.type # "WorkflowEnd" THEN e.data
  ELSE IF e.data.legacy THEN LegacyEndToJson(e.data.value)
  ELSE EndToJson(e.data.value, rollup)

ToWire(e, rollup) ==
  [env |-> Envelopes(e.frames, e.nested),
   leaf |-> [type |-> e.type, lacks |-> e.lacks, tag |-> e.tag, data |-> PayloadToJson(e, rollup)]]

IsEnd(type) == type \in {"WorkflowEnd", "Error"}
EndsRun(i) == IsEnd(log[i].means.type) /\ log[i].means.frames = <<>>

(***************************************************************************)
(* The relay forwards a sub-script's events and folds its totals into the  *)
(* run's when it ends; a run ends after its sub-scripts, and nothing       *)
(* follows the end of a run.                                               *)
(***************************************************************************)
Emit(e) ==
  /\ \A i \in DOMAIN log : ~EndsRun(i)
  /\ (e.frames = <<>> /\ IsEnd(e.type)) => child = NoTotals
  /\ LET top == e.frames = <<>>
         usage == e.data
     IN  /\ totals' = CASE e.type = "TaskEnd" /\ top -> accumulate(totals, usage)
                        [] IsEnd(e.type) /\ ~top -> merge(totals, child)
                        [] OTHER -> totals
         /\ child' = CASE e.type = "TaskEnd" /\ ~top -> accumulate(child, usage)
                       [] IsEnd(e.type) /\ ~top -> NoTotals
                       [] OTHER -> child
         /\ log' = Append(log, [means |-> e, wire |-> ToWire(e, IF top THEN totals ELSE child)])
  /\ UNCHANGED <<listenerVars, taskVars, consumerVars>>

Publish ==
  /\ Len(log) < Len(Emissions)
  /\ \E n \in DOMAIN Emissions[Len(log) + 1] : Emit(Emissions[Len(log) + 1][n])

-----------------------------------------------------------------------------
(* The listener. *)

\* The hub carries other things than execution events.
IsExecution(i) == log[i].wire.leaf.type # "ScriptUpdated"

\* serde_json::from_value::<HubEvent>
Decoded(i) == IsExecution(i) => Decodes(log[i].wire)

\* The hub replays what follows Last-Event-ID; without one it starts at its tail.
Connect ==
  /\ conn = "connecting"
  /\ conn' = "streaming"
  /\ pos' = IF cursor = 0 THEN Len(log) + 1 ELSE cursor + 1
  /\ from' = IF cursor = 0 THEN pos' ELSE from
  /\ UNCHANGED <<engineVars, taskVars, consumerVars, attempt, cursor, closed>>

\* Mutant of ConnectionFails: one attempt more than there are.
ConnectionFailsOnceMore ==
  /\ conn \in {"connecting", "streaming"}
  /\ attempt' = attempt + 1
  /\ conn' = IF attempt > MaxRetries \/ filter = "done" THEN "done" ELSE "connecting"
  /\ UNCHANGED <<engineVars, taskVars, consumerVars, cursor, pos, from, closed>>

\* A refused connection or a lost one: the attempts of the whole life count.
ConnectionFails ==
  /\ conn \in {"connecting", "streaming"}
  /\ attempt' = attempt + 1
  /\ conn' = IF attempt + 1 > MaxRetries \/ filter = "done" THEN "done" ELSE "connecting"
  /\ UNCHANGED <<engineVars, taskVars, consumerVars, cursor, pos, from, closed>>

\* The body ends cleanly: stream_sse returns Ok and nobody retries.
BodyEnds ==
  /\ conn = "streaming"
  /\ conn' = "done"
  /\ closed' = TRUE
  /\ UNCHANGED <<engineVars, taskVars, consumerVars, attempt, cursor, pos, from>>

\* Mutant of Batch: one element that does not decode fails the whole batch.
BatchAtOnce(a, b) == IF \A i \in a..b : Decoded(i) THEN InOrder(a..b) ELSE <<>>

\* What of a batch is sent on: the elements that decode, one by one.
Batch(a, b) == InOrder({i \in a..b : Decoded(i)})

(***************************************************************************)
(* One frame: its id, that of its last event, is stored; then its elements *)
(* are decoded and sent.  A send that fails ends the listener with Ok.     *)
(***************************************************************************)
Frame ==
  /\ conn = "streaming"
  /\ \E last \in pos..(pos + MaxBatch - 1) :
       /\ last <= Len(log)
       /\ cursor' = last
       /\ pos' = last + 1
       /\ LET batch == Batch(pos, last)
          IN  IF batch # <<>> /\ filter = "done"
              THEN conn' = "done" /\ hubq' = hubq
              ELSE conn' = conn /\ hubq' = hubq \o batch
  /\ UNCHANGED <<engineVars, consumerVars, attempt, from, closed, rawq, out, filter, typer>>

\* Mutant of AbortListener: the waiting task does not hold the subscription.
AbortListenerUnheld ==
  /\ conn # "done"
  /\ filter = "done" \/ typer = "done"
  /\ conn' = "done"
  /\ UNCHANGED <<engineVars, taskVars, consumerVars, attempt, cursor, pos, from, closed>>

(***************************************************************************)
(* Dropping an EventSubscription aborts the tasks it holds: those that     *)
(* wait for the filter and for the typer, each of which holds the next     *)
(* subscription, down to the listener.  A waiting task that returns drops  *)
(* its subscription just the same.  The filter and the typer are awaited,  *)
(* not held: an abort detaches them.                                       *)
(***************************************************************************)
AbortListener ==
  /\ conn # "done"
  /\ sub = "dropped" \/ filter = "done" \/ typer = "done"
  /\ conn' = "done"
  /\ UNCHANGED <<engineVars, taskVars, consumerVars, attempt, cursor, pos, from, closed>>

-----------------------------------------------------------------------------
(* The tasks behind it. *)

\* One event of execution_stream's task; a failed send ends it.
Filter ==
  /\ filter = "on" /\ hubq # <<>>
  /\ IF ~IsExecution(Head(hubq)) THEN hubq' = Tail(hubq) /\ UNCHANGED <<rawq, filter>>
     ELSE IF typer = "done" THEN hubq' = <<>> /\ filter' = "done" /\ UNCHANGED rawq
     ELSE hubq' = Tail(hubq) /\ rawq' = Append(rawq, Head(hubq)) /\ UNCHANGED filter
  /\ UNCHANGED <<engineVars, listenerVars, consumerVars, out, typer>>

\* The hub's channel is closed and empty.
FilterEnds ==
  /\ filter = "on" /\ hubq = <<>> /\ conn = "done"
  /\ filter' = "done"
  /\ UNCHANGED <<engineVars, listenerVars, consumerVars, hubq, rawq, out, typer>>

Received(i) == [at |-> i, event |-> FromEngineEvent(log[i].wire)]

Type ==
  /\ typer = "on" /\ rawq # <<>>
  /\ IF rx = "dropped" THEN rawq' = <<>> /\ typer' = "done" /\ UNCHANGED out
     ELSE rawq' = Tail(rawq) /\ out' = Append(out, Received(Head(rawq))) /\ UNCHANGED typer
  /\ UNCHANGED <<engineVars, listenerVars, consumerVars, hubq, filter>>

TypeEnds ==
  /\ typer = "on" /\ rawq = <<>> /\ filter = "done"
  /\ typer' = "done"
  /\ UNCHANGED <<engineVars, listenerVars, consumerVars, hubq, rawq, out, filter>>

-----------------------------------------------------------------------------
(* The consumer. *)

DropReceiver ==
  /\ rx = "held" /\ rx' = "dropped"
  /\ UNCHANGED <<engineVars, listenerVars, taskVars, sub, replay>>

DropSubscription ==
  /\ sub = "held" /\ sub' = "dropped"
  /\ UNCHANGED <<engineVars, listenerVars, taskVars, rx, replay>>

(***************************************************************************)
(* get_events with an after_id and a limit: the page decodes as one list   *)
(* of EngineEvents, so an element that does not decode fails the call and  *)
(* the reader stays where it is.  Modelled once the stream has closed, for *)
(* a consumer that catches up.                                             *)
(***************************************************************************)
ReplayPage ==
  /\ typer = "done"
  /\ \E last \in (replay.at + 1)..(replay.at + MaxBatch) :
       /\ last <= Len(log)
       /\ replay' = IF \A i \in (replay.at + 1)..last : Decoded(i)
                    THEN [replay EXCEPT !.at = last]
                    ELSE [replay EXCEPT !.failed = TRUE]
  /\ UNCHANGED <<engineVars, listenerVars, taskVars, rx, sub>>

-----------------------------------------------------------------------------
Listener == Connect \/ ConnectionFails \/ BodyEnds \/ Frame \/ AbortListener
Tasks == Filter \/ FilterEnds \/ Type \/ TypeEnds
Consumer == DropReceiver \/ DropSubscription \/ ReplayPage

\* Nothing is left to publish, to carry or to give up.
Quiet == conn = "done" /\ typer = "done" /\ UNCHANGED vars

Next == Publish \/ Listener \/ Tasks \/ Consumer \/ Quiet

(***************************************************************************)
(* tokio polls every task that can go on; a connection attempt ends.  None *)
(* for the engine, the network's losses and the consumer's drops.          *)
(***************************************************************************)
Fairness ==
  /\ WF_vars(Connect) /\ WF_vars(Frame) /\ WF_vars(AbortListener)
  /\ WF_vars(Filter) /\ WF_vars(FilterEnds) /\ WF_vars(Type) /\ WF_vars(TypeEnds)

Spec == Init /\ [][Next]_vars /\ Fairness

-----------------------------------------------------------------------------
(* Properties. *)

TypeOK ==
  /\ Len(log) <= Len(Emissions)
  /\ {totals, child} \subseteq [TotalDims -> 0..MaxCount]
  /\ conn \in {"connecting", "streaming", "done"}
  /\ attempt \in Nat /\ (attempt > MaxRetries => conn = "done")
  /\ cursor \in 0..Len(log) /\ {pos, from} \subseteq 1..(Len(log) + 1)
  /\ \A i \in DOMAIN hubq : hubq[i] \in DOMAIN log
  /\ \A i \in DOMAIN rawq : rawq[i] \in DOMAIN log
  /\ \A i \in DOMAIN out : out[i].at \in DOMAIN log /\ out[i].event.arm \in DOMAIN EventCategory
  /\ {filter, typer} \subseteq {"on", "done"}
  /\ {rx, sub} \subseteq {"held", "dropped"}
  /\ replay.at \in 0..Len(log) /\ {replay.failed, closed} \subseteq BOOLEAN

\* The execution events read so far that decode.
Expected == {i \in from..(pos - 1) : IsExecution(i) /\ Decoded(i)}

Yielded == [i \in DOMAIN out |-> out[i].at]

(***************************************************************************)
(* "A batch frequently mixes event kinds ... Per-element decode skips only *)
(* the element we can't model and still delivers the rest" (stream_sse):   *)
(* between the listener and the receiver are exactly the decodable events  *)
(* it has read, once each and in order, whatever they were batched with,   *)
(* and through every reconnect.  A receiver that sees its channel closed   *)
(* has all of them: dropping the subscription stops the listener, not the  *)
(* tasks that still carry what it sent.  A reader of the stored events     *)
(* stops in front of the first one that does not decode.                   *)
(***************************************************************************)
LossesExplained ==
  /\ rx = "held" =>
       /\ Increasing(Yielded \o rawq \o hubq)
       /\ Members(Yielded \o rawq) \cup {i \in Members(hubq) : IsExecution(i)} = Expected
  /\ (typer = "done" /\ rx = "held") => Members(Yielded) = Expected
  /\ \A i \in 1..replay.at : Decoded(i)

\* The category of a top-level event that waits for somebody.
Waits(e) == e.frames = <<>> /\ e.type \in {"Suspended", "ToolApprovalPending", "Breakpoint"}

(***************************************************************************)
(* Where an event came from survives the wire: a consumer sees the run end *)
(* on the run's own end and never on a sub-script's, sees it suspended on  *)
(* the run's own suspensions, finds around a sub-script's event the calls  *)
(* it happened in, outermost first, in the old envelopes and the new, and  *)
(* gets the same answers from from_envelope_json.                          *)
(***************************************************************************)
EventsKeepTheirPlace ==
  \A i \in DOMAIN out :
    LET e == log[out[i].at].means
        w == out[i].event
        raw == FromEnvelopeJson(log[out[i].at].wire)
    IN  /\ is_terminal(w) <=> EndsRun(out[i].at)
        /\ is_terminal(w) => i = Len(out)
        /\ (category(w) = "Suspend") <=> Waits(e)
        /\ w.path = e.frames
        /\ is_terminal(raw) <=> is_terminal(w)
        /\ raw.path = w.path

\* What a run ought to report, from its task ends: saturated sums.
UsedIn(j, d) ==
  CASE log[j].means.type # "TaskEnd" -> 0
    [] log[j].means.type = "TaskEnd" /\ d = "tasks" -> 1
    [] OTHER -> IF d \in DOMAIN log[j].means.data THEN log[j].means.data[d] ELSE 0
SumUpTo(i, d) ==
  LET sum == Sum([j \in 1..(i - 1) |-> UsedIn(j, d)], i - 1)
  IN  IF sum > MaxCount THEN MaxCount ELSE sum

(***************************************************************************)
(* "The engine populates this by summing TokenUsage fields across every    *)
(* TaskEnd emitted in the workflow scope.  Sub-script TaskEnds DO          *)
(* contribute" (WorkflowTotals), and the wire "stays bridge-compatible"    *)
(* (WorkflowEndPayload): the consumer's End event reports those sums and   *)
(* the JSON of the engine's value without its secrets, from either shape;  *)
(* a legacy payload reports no totals, and a union is recognised again.  A *)
(* legacy object that looks like the new shape is read as one.             *)
(***************************************************************************)
EndReportsTheRun ==
  \A i \in DOMAIN out :
    out[i].event.arm = "End" =>
      LET given == log[out[i].at].means.data
          read == out[i].event.data
      IN  (given.legacy /\ LooksNew(to_json(given.value)))
          \/ /\ read.output = to_json(Redacted(given.value))
             /\ read.totals = IF given.legacy THEN NoTotals
                              ELSE [d \in TotalDims |-> SumUpTo(out[i].at, d)]
             /\ given.value.t = "Union" =>
                  LiftUnion(read.output, {given.value.v.variant}).v.variant = given.value.v.variant

(***************************************************************************)
(* The end of a run reaches a consumer that stays: once it is published    *)
(* ahead of the listener it is received, unless it does not decode, the    *)
(* consumer drops something, the hub closes the body or the listener's     *)
(* attempts run out.  And a dropped subscription stops every task.         *)
(***************************************************************************)
GivenUp == sub = "dropped" \/ rx = "dropped" \/ closed \/ attempt > MaxRetries

Settles ==
  /\ (\E i \in DOMAIN log : EndsRun(i) /\ Decoded(i) /\ conn = "streaming" /\ from <= i)
       ~> (\/ GivenUp
           \/ \E i \in DOMAIN log : EndsRun(i) /\ from > i
           \/ \E k \in DOMAIN out : EndsRun(out[k].at))
  /\ (sub = "dropped") ~> (conn = "done" /\ filter = "done" /\ typer = "done")
=============================================================================
