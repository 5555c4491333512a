# Akribes SDKs: TLA+ models, checks and proofs

This directory is a verification project for the three client SDKs of the
repository: `crates/akribes-sdk` (Rust), `packages/akribes-sdk-ts` (TypeScript)
and `packages/akribes-sdk-python` (Python). The server they talk to is not part
of the repository; what the clients rely on is modelled as an external hub.

The core of the SDKs is the *run stream*: subscribe to the project's event
stream, start a run, hand the run's own events to the caller in order, and
settle with its result. It is written three times, over three concurrency
models, and is where ordering, lost connections, cancellation and concurrent
runs meet. It is modelled first, then the Rust client's life cycle
(registration, heartbeat, contract state), then what the Rust client does with
one event and with one request: the event vocabulary and its way to a consumer,
the calls of all resource clients, document ingest, waiting for an execution,
and a bench run's live results.

## 1. Inventory

| Component | State it keeps | Operations | What is hard |
|---|---|---|---|
| **Rust run stream** `sub/run_stream.rs`, `sub/events.rs` | listener task (attempt, Last-Event-ID), ready oneshot, two unbounded channels, filter task, `RunStream` | `start_run_stream`, `stream_sse_with_retry`, `stream_sse`, filter task, `next`, `output`, drop | four tasks closing each other's channels; subscribe before POST; reconnects; futures dropped half-way |
| **TypeScript run stream** `runStream.ts`, `sub/events.ts`, `sse.ts` | buffer until the id is known, append-only log, iterator cursors, shared SSE connection | constructor, `routeRaw`, `handleRaw`, `finish`, `cancel`, `next`/`return`, `connectSse` | POST racing the GET; drain order; parked promises; connection shared by subscribers |
| **Python run stream** `run_stream.py`, `resources/events.py`, `_transport.py` | buffer, `_event_signal`, `_sse_ready`, `_done`, listener and dispatcher tasks, WS/SSE cursor | `_start`, `_listen`, `ws_stream`, `Events.stream`, `cancel`, `_wait_for_event_at` | transport fallback; ready handshake; cancel across awaits; one event for several waiters |
| **Rust client** `client.rs`, `sub/clients.rs`, `sub/executions.rs` | `Arc<Inner>`: heartbeat handle, shutdown flag, schema cache, broken scripts | `init`, heartbeat task, `destroy`, clone and drop, `validate_contract` | handles on several threads; overlapping inits; the last drop; stale contracts |
| TypeScript and Python clients `client.ts`, `sub/clients.ts`, `client.py`, `resources/clients.py` | timer chain or task, pause after an auth failure, contract state | `init`, tick, `resumeHeartbeat`, `destroy` | init or destroy during a tick |
| **Event vocabulary** `akribes-types/event.rs`, `value.rs`, `error.rs`; `events.rs`, `suspend.rs`, `runtime.rs`, `task_end.rs` | none (pure) | decode, `flatten_subscript_chain`, `From<EngineEvent>`, `from_envelope_json`, `WorkflowTotals`, `to_json`/`from_json` | old and new wire forms; what one undecodable field costs; events of sub-scripts that look like the run's |
| **Free-standing event streams** `sub/events.rs`, `get_events` | listener, filter and typing task, two channels, subscriptions that hold each other | `event_stream`, `execution_stream`, `typed_execution_stream`, drop, `get_events` | mixed batches, reconnects, who aborts whom |
| **Requests** `client.rs` and every file of `sub/` | none | `send`, `get_opt`, `get_list`, `post`, `patch_empty`, `delete`, ... and some 90 operations made of them | refusals, lost answers, repetitions, several callers; what a 404 means |
| **Document ingest** `sub/documents.rs` | the polling loop | `claim`, `upload`, `ingest`, `finalize` | the blob converts, vanishes, comes back while it is polled |
| **Execution waiting** `sub/executions.rs` | the polling loop | `execute`, `execute_and_await`, `await_execution` | which states end the loop; lost answers of a POST that was accepted |
| **Bench runs** `sub/bench.rs`, `sub/events.rs` | one task, one channel | `subscribe_run_events`; otherwise one request each | lagging buffer, lost connection, unknown frames |
| TypeScript and Python counterparts of the last six | page cursor, attempt counter, polling loops | `waitFor`, `await_result`, `with_retry`, page iterator, ingest handle | they differ from Rust in what ends a loop and in what is retried |
| Steps reducer and replay `execution/*.ts` | steps, per-task accumulators | `reduce`, replay then live | order and duplication between history and live |
| AST, models, parsers | none | type declarations | data |

Calls between them: `run_stream` calls the execution client's POST `/run`
(which consults the contract state), and reads the event stream
`GET /events[/ws]`; `on_script_schema_change` callbacks write the contract state
that `init` resets; everything shares one HTTP client and token.

What makes each correct, in a sentence:

- a run stream yields only its run's events, in hub order, each once; settles
  once, with its own run's terminal event; loses nothing its connection read;
  loses nothing before the first connection is lost; and wakes everybody who
  waits, whatever ends it;
- a client has one heartbeat while it is registered and none afterwards, and
  never validates a run against a schema it knows to be stale;
- an event that decodes reaches a consumer whatever it was batched with, in
  order and once; a sub-script's events are never taken for the run's; the end
  of a run reports the run's own totals and value, and no secret;
- what a call is told of the server is true, an error that names an execution is
  that execution's own, and repeating what is Transient leaves no more behind
  than the errors admit;
- ingest says whether it uploaded and never hides a failed conversion; waiting
  ends; a bench consumer can account for every result, or knows it cannot.

PROJECT.json lists the hazards at their lines, with the properties that cover
each and a note where none does yet.

## 2. Modules

```
Sequencing        prefix sums, increasing sequences, sets of numbers in order
  SequencingProofs  what they do, for every length
  EventHub        the server's side of the event stream (external)
    RunHandle       abstract specification of a run stream
    HubLemmas       positions in the log, used by the next three's proofs
    RsRunStream     Rust run stream         -- MCRsRunStream, RsRunStreamProofs
    TsRunStream     TypeScript run stream   -- MCTsRunStream, TsRunStreamProofs
    PyRunStream     Python run stream       -- MCPyRunStream, PyRunStreamProofs
RsClient          Rust client life cycle    -- MCRsClient, RsClientProofs

ErrorTaxonomy     kinds, codes, SDK errors
  Values          runtime values and their JSON
    EngineEvents  the wire vocabulary, sub-scripts, totals
      WorkflowEvents   the SDK's projection of it
        RsEventPipeline   from the engine to a consumer
                                            -- MCRsEventPipeline, RsEventPipelineProofs
  Requests        the request helpers and every operation's row
    RsCalls       callers, one server object, the network
    RsDocumentRun ingest, run and await
  RsBench         a bench run's live results
    RsServerCalls composes the last three   -- MCRsServerCalls, RsServerCallsProofs
```

**Sequencing.** What several models count or keep in order is written without
recursive operators: a prefix sum is a recursive function, the members of a set
in order a CHOOSE. That is what makes the two kinds of accounting in the project
provable (the totals of a run, the results of a bench run).

**EventHub.** `log` is the order in which the hub publishes; an event is
identified by its index, which stands for the SSE `id:` or the `seq` of a frame.
An event is of our run, of another run of the same script, or one that every
client skips (`hub`). `run` is the server's row of our run: our events exist
only after the POST was *accepted*, which is before the client has its answer.
`ResumeAt(cursor)` is where a connection starts: after the cursor if the server
replays and a cursor was sent, otherwise at whatever is published next. `Replay`
and `Stamped` are constants because the code talks of servers without either.

**RunHandle.** The promise: `seen` grows by events of the run with increasing
index; `outcome` leaves "pending" once, with the kind of the terminal event just
yielded or as "closed". Each detailed module instantiates it with a refinement
mapping (`seen <- seen | delivered | events`, `outcome <- outcome | output`).

**RsRunStream.** One action per step of four actors. `lpc`, `attempt`,
`cursor`, `pos`, `ready` are the listener (`stream_sse_with_retry` and
`stream_sse`), `hubq` and `outq` the channels, `filter` the spawned task,
`start` the frame of `start_run_stream`, `handle`/`outcome`/`seen` the
`RunStream`. `PostAccepted` and `PostReturns` split the POST at the server, so
that events can arrive in between. `StartCancelled` is the caller dropping the
future: a dropped JoinHandle detaches the task. `Drop` is the drop guard.
`RequestTimeout` is the 60 s timeout of the client's own HTTP builder, which for
a streamed body runs to its end. `broken`, `closedByServer` and `missed` are
history: `missed` collects our run's events that a (re)connect went past.

**TsRunStream.** Handlers run to completion; the drain of the buffer is the
only one written as several steps, and `Idle` keeps every other client step out
of it. `conn`, `cursor`, `pos` are `connectSse`'s fetch loop, one per
`EventsClient`: the first subscriber opens it, the last to leave closes it, and
`shared` says that there is a subscriber besides our handle. `Init` is an
`EventsClient` just made; others subscribe and leave as they like
(`OtherSubscribes`, `OtherLeaves`) before and after `Construct`, so the
constructor joins the connection in whatever state it is: not yet open,
connecting, streaming, backing off. `post`, `pending`, `delivered`, `finished`,
`output` are the fields of `RunStreamImpl`; `reader[r]` is an iterator's cursor
and parked promise. `anchored` is history: when the handle joined, the connection
was streaming or was going to resume from a Last-Event-ID, and it has not been
lost without one since. Closing the whole client (`EventsClient.destroy`) is not
modelled.

**PyRunStream.** A step is a stretch between two awaits. `transport`,
`committed`, `attempt`, `cursor` are `ws_stream` and the SSE loop of
`Events.stream` with the fallback between them; `ready` is `_sse_ready`
together with *what* set it; `closing` is `cancel()` cut at its await of the
listener; `consumer[c]` is a coroutine in `_wait_for_event_at` (the dispatcher
or an iterator). `lpc = "closed"` is the generator returning because the server
ended the stream in an orderly way.

**RsClient.** A step is one atomic operation or one section under a mutex of
`Inner`. `holder` and `strong` are the handles and `Arc::strong_count`: an
`AkribesClient` reads the count in its Drop and releases its reference later;
sub-clients, scopes and subscription closures only release. `init[i]` goes
through the request, the two mutexes, the spawn and the swap of the heartbeat
handle. The contract state is one script's: `cache` is the schema version the
cache describes, `noticed` the newest the callback was told of. `raced` marks
the behaviours in which an init overlapped a notice or another init.

**ErrorTaxonomy, Values, EngineEvents, WorkflowEvents** are functions. An enum
is a set of its names, a `match` a CASE, an event variant the sets of fields its
decoder insists on and fills in. An event on the wire is the envelopes around it
and a leaf `[type, lacks, tag, data]`: `lacks` are the fields an older emitter
leaves out, `tag` the closed enumeration inside the payload. So `Decodes` is
what serde refuses: an unknown type, a missing field, a tag outside its
enumeration (`SuspendTrigger`, `ErrorKind`, `CacheTtl`; `TaskEndVariant` has a
catch-all). Conversions of values are one level each (`NodeToJson(Sub, x)`),
stacked deeper than the values of the model go (`Shallow`).

**RsEventPipeline.** The engine (external) emits what `Emissions` offers, in
the old or the new envelope shape, and accumulates totals with the SDK's own
`WorkflowTotals`. `conn`, `attempt`, `cursor`, `pos` are the listener, `hubq`,
`rawq`, `out` the three channels, `filter` and `typer` the spawned tasks, `rx`
and `sub` what the consumer holds. `AbortListener` is the chain of
`EventSubscription`s: each waiting task holds the next subscription, so a drop,
or a task that ends, reaches the listener; the filter and the typer are awaited
and only detached. `ReplayPage` is `get_events`, which decodes a page as one
list.

**Requests, RsCalls.** A row `[verb, effect]` says which helper an operation
calls and what the server does for it; `ResultOf(verb, status, body)` is `send`
and the helper. Of a body the model keeps what the code looks at: JSON that
decodes, nothing (204 or a length of 0), or the `suite_already_exists` that alone
turns a 409 into `AlreadyExists`. Three operations tell whether a delete found
something (`bench().delete`, `executions().cancel`, `cancel_run`: verb
"delete"); the others discard the helper's bool ("drop"). In RsCalls any caller
makes any call on one thing that is there or not; a gateway refuses it, or the
server carries it out and answers, with a body or without, or the answer is
replaced by a 502 or lost; a Transient may be repeated.

**RsDocumentRun.** `job` is the program of `examples/document_upload.rs`:
`ingest`, then `execute_and_await`, each a loop of requests cut into serve and
handle. `blob` and `runs` are the server's and move by themselves. A deadline is
a flag that comes up when it likes. `blind` counts the calls that failed after a
POST without naming an execution.

**RsBench.** `feed` is the server's bounded buffer for this subscriber, `body`
the frames under way, `got` what the receiver was given.

Each module also holds *mutants*: an operator placed before the one it is a
faulty version of (a dropped guard, a missing reset, a swapped order). Putting
a mutant in the place of its original must make TLC refute the named property.

## 3. What the runs check

| Run | Module, cfg | Distinct states | Shows |
|---|---|---|---|
| rs_run_stream | MCRsRunStream | 70,131 | types; `NoOpeningGap`, `NoHoleAfterFirstFrame`, `NothingDropped`, `ClosedForAReason`; refinement of RunHandle; `Settles`, `StartAnswers`, `OrphanEnds` |
| rs_run_stream_healthy | MCRsRunStreamHealthy | | finding: see below |
| ts_run_stream | MCTsRunStream | 1,356,896 | types; `NothingDropped`, `NoLostWakeup`, `NoGapWhileAnchored`, `ConnectionWhileSubscribed`, `NoHoleAfterFirstFrame`; refinement |
| ts_run_stream_live | MCTsRunStreamLive | 425,176 | `Settles`, `ReadersEnd` |
| ts_run_stream_early | MCTsRunStreamEarly | | finding |
| py_run_stream | MCPyRunStream | 720,467 | types; `NoOpeningGap`, `NoHoleOnOneTransport`, `NoLostWakeup`; refinement; `Settles`, `ConsumersEnd` |
| py_run_stream_ready, _release | MCPyRunStreamReady, MCPyRunStreamRelease | | findings |
| rs_client | MCRsClient | 340,372 | types; `OneHeartbeat`, `StopsAlone`, `StaleRunRefused`, `DestroyStops` |
| rs_client_drop | MCRsClientDrop | | finding |
| rs_events | MCRsEventPipeline | 424,722 | types; `LossesExplained`, `EventsKeepTheirPlace`, `EndReportsTheRun`; `Settles` |
| rs_calls | MCRsServerCalls | 375,889 | types; `OutcomeIsTheExecutions`, `AnswersAreTrue`, `BenchAccounted`; `CallsSettle` |

Bounds, all named in the cfg files:

- `MaxEvents = 3`: one event of another run or of ours that comes before,
  between or after ours, and the terminal one. The last slot of the log is kept
  for our terminal event, so the bound never stops a run from finishing. Every
  property relates at most two events and the terminal one.
- Rust `MaxRetries = 2` (5 in the code): one reconnect before the first frame,
  one after it, then giving up. Python `MaxRetries = 1`: a retry and the
  exception after it. TypeScript retries for ever.
- `MaxBreaks`, 2 in TypeScript and 1 in Python: a success resets the attempts
  there, so the number of lost connections has to be bounded apart from them. In
  TypeScript one may be lost before the handle joins and one after.
- two iterators or consumers: one behind, one parked (one in ts_run_stream_live;
  `NoLostWakeup` of the other run is about both); two clients, one
  sub-client, two inits, three schema versions: an update before, during and
  after an init.

- rs_events: logs of up to three events, the first from one of every kind of
  decoding, the second from those that change totals or frames, the last from
  the ways a run ends; batches of two (a decodable and an undecodable event
  together); one retry; counters that saturate at 4, below the sum of two usages.
- rs_calls: two callers with one repetition each; one repetition of the job, so
  two executions; four results through a buffer of two, one undecodable. The
  parts share no state, so `plan` picks the one a behaviour follows. The blob
  moves only while the job may still look at it.

`CHECK_DEADLOCK FALSE` for the run streams, the client and rs_calls: a stream
that has settled, a log that is full, a call that is answered really stop. In
rs_events the end is a step of its own (`Quiet`), and deadlock is checked.

**Fairness.** The engine ends every run it has started. Runtimes (tokio, the
JavaScript and asyncio loops) poll every task that can go on. A POST is answered
or fails. In Rust an attempt to connect succeeds or fails; in TypeScript and
Python, where the retries of a refused connection have no end, a listener that
goes on trying is assumed to connect in the end: without that assumption
`Settles` is false there, and the Python case is listed as a hazard. Nothing is
assumed of what need not happen: losing or closing a connection, lagging,
cancelling, dropping, returning early. `Settles` excuses the handle whose
terminal event a reconnect went past, and in Python the stream the server closed
(that excuse is exactly what `AwaitersReleased` refutes). In rs_events the
consumer's drops, the hub's closing of a body and lost connections are free; in
rs_calls every request is answered, at worst by the client's own 60 s timeout,
deadlines come up, and a server writes the body it holds open, while what others
do to the blob or the executions is free: `ingest` ends although the blob may
convert and vanish for ever. An await without a timeout is promised nothing.

**Assumptions that narrow a run.** All passing run-stream instances have
`Replay` and `Stamped` true; `NoOpeningGap` and the refinement do not depend on
it (and are proved for every value). py_run_stream uses `SoloFairSpec`: no other
run of the script publishes before the id is known. Until then the Python handle
appends every event of the script, as its docstring says (run_stream.py:225-230),
so the promise of RunHandle, its own run's events only, begins there.

### Findings

- `rs_run_stream_healthy`: with nothing failing but the client's own 60 s
  request timeout, the attempts (never reset) run out and a long run's handle is
  closed without its terminal event, against "guaranteed to receive events".
- `ts_run_stream_early`: the constructor subscribes first but waits for nothing;
  the run's opening events can precede the connection. `NoGapWhileAnchored` says
  when they cannot: when the connection it joins is live or has an id to resume
  from, and the server replays if it must.
- `py_run_stream_ready`: the ready event is also set by an HTTP error answer and
  by a crashed listener; the run is POSTed with no stream live.
- `py_run_stream_release`: an orderly close by the server releases nobody who
  waits for the result.
- `rs_client_drop`: the heartbeat can outlive every handle of the client.

Disagreements met while modelling that have no run of their own:

- `patch_empty` and `put_empty` do not look at a 404 (client.rs:530-540), so
  `scripts().rename`, `channels().move_to`, `projects().rename_script` and the
  reorderings answer `Ok(())` for something that is gone; `get_document_url`
  likewise. The helper `delete` tells "true if deleted, false if already absent"
  (client.rs:552), but most of its callers discard that and answer `Ok(())` in
  both cases: `projects().delete` and `delete_script`, `scripts().delete`,
  `channels().delete`, `clients().delete`, `revoke_lock` and `delete_lock`,
  `tokens().revoke`, `bench_runs().delete` and `delete_case`.
- `post_json_value` takes an empty body for `Ok(Null)` before it looks at the
  status (client.rs:357-359), a 404 included, while its companion
  `get_json_value` keeps "the status visible" (client.rs:322-324).
- `WorkflowTotals::accumulate` is a "No-op for `None`" (event.rs:248-250), but
  counts the task; its test (event.rs:1980) expects the count.
- akribes-sdk/README.md lists a `NotFound` variant and a default retry policy for
  Transient errors; the crate has neither.
- error.rs:12 calls a Transient "safe to retry"; a 502 after POST `/run` was
  accepted is Transient, and the repetition starts a second execution. A repeated
  delete is told `false` of its own removal. `OutcomeIsTheExecutions` and
  `AnswersAreTrue` say exactly how far the promise goes.
- suspend.rs:9-16 promises that a future trigger surfaces as `Unknown`; the
  engine's `SuspendTrigger`, decoded first, is closed, so the element is skipped
  on a live stream and fails a whole page of `get_events`.
- events.rs:491-499 calls its two decoders equivalent; a top-level `Runtime*`
  event is a typed arm from one and `Other` from the other.
- An envelope that mixes the old and the new sub-script shape has its inner path
  put before the outer frame; a legacy `WorkflowEnd` whose value is an object
  with a `value` and a totals key is read as the new shape.
- `ingest` waits for a hit and not for a fresh upload, and takes an unknown
  conversion status for a final one; `await_execution` polls a 404 for ever when
  it has no deadline.
- A bench stream whose connection breaks closes its channel with no `Terminal`.

## 4. What is proved

Every invariant of the passing runs and every refinement is a theorem, for all
values of the constants; the runs check them, and the inductive invariants, on
small instances. Nothing is assumed but the assumptions on the constants named
below, which TLC evaluates.

**SequencingProofs** (used by all but RsClientProofs). Its root is
`SetInduction`: a set of naturals that holds 0 and with each number the next is
all of them. The library's induction theorems take an operator as a parameter,
which the provers cannot instantiate; this one takes a set and follows from the
well-foundedness of `<`. From it come the existence and uniqueness of prefix
sums, `SumOfMore`, `SumIsNatural`, `SumOfRest`, and that a finite set of numbers
has exactly the increasing sequence `InOrder` speaks of. The rest is what
appending, taking the tail and concatenating do to an increasing sequence.

**RsRunStreamProofs**, for every number of events, every retry limit and both
kinds of server:

- `Inductive`: `Spec => []IInv`;
- `TypeCorrect`: `Spec => []TypeOK`, and the index handed out is one of the log;
- `OpeningEventsKept`: `Spec => []NoOpeningGap`;
- `RefinesRunHandle`: `Spec => RH!HandleSpec`.

`NoOpeningGap` is not inductive: that nothing was missed before the first break
holds because the POST waits for the ready signal, the signal for a live
connection, and only a lost connection makes the listener connect again
(`Handshake`). The refinement needs that the indices in `seen`, `outq` and
`hubq` increase along the pipeline and lie behind the connection's position
(`Pipeline`), which needs that a resume never goes back (`Position`: with replay
the position is always just after the cursor), and that a handle still open has
not settled (`Unsettled`). `AttemptsLeft` bounds the attempts for the type
invariant. `IInv` is the conjunction; there is one lemma per conjunct with a
step per action, and the lemmas of `HubLemmas` on appending to and taking the
tail of increasing sequences. The only assumptions are `EventHubAssumption` and
`RetryAssumption`, which TLC evaluates in every run.

Its second half is about what is delivered:

- `DeliveryInductive`: `Spec => []DInv`;
- `NoHole`: `Spec => []NoHoleAfterFirstFrame`;
- `NothingLostBetweenTasks`: `Spec => []NothingDropped`;
- `ClosedOnlyForAReason`: `Spec => []ClosedForAReason`.

`DInv` adds to `IInv` that all that was delivered is covered by the cursor and
all that was missed is behind the connection (`Covered`); that every event of
ours behind the connection is accounted for from the first connection on, not
only once there is a handle (`Custody`); and why the listener and the filter
are done while the handle is not (`Endings`: the server or the attempts ended
the listener, and the filter follows it or a terminal event that is still
queued). The delicate step is `DeliverClosed`, which moves past an event nobody
gets: the filter is done and the listener is not, so a terminal event of ours is
queued before it.

`TsRunStreamProofs`, for any number of events, iterators and lost connections,
with or without replay and ids (`EventHubAssumption`, `TsAssumption`):

- `Inductive`, `TypeCorrect`: `Spec => []IInv`, `Spec => []TypeOK`;
- `NothingIsDropped`, `NoHole`, `AnchoredHandleMissesNothing`: the three
  properties about what the handle holds;
- `ConnectionLivesWithSubscribers`: `Spec => []ConnectionWhileSubscribed`;
- `IteratorsAreWoken`: `Spec => []NoLostWakeup`;
- `RefinesRunHandle`: `Spec => ImplementsRunHandle`.

The strengthening: there is no event of our run, and none missed, before its POST
is accepted (`NoRunYet`); the connection of an anchored handle that has not
finished is streaming or will resume from its cursor, with replay (`Anchor`), so
that a connect passes nothing over; the buffer is used only while the id is unknown,
and a handle is finished exactly when its output has settled (`Buffering`); all
that is held has been read, and what is buffered comes after what is delivered
and is increasing (`Order`), so that the drain keeps the order and the
refinement holds.

`PyRunStreamProofs`, for any number of events, consumers, retries and lost
connections, and WebSocket servers with or without `seq` (`EventHubAssumption`,
`PyAssumption`):

- `Inductive`, `TypeCorrect`: `Spec => []IInv`, `Spec => []TypeOK`;
- `OpeningEventsKept`, `NoHole`, `ConsumersAreWoken`: the safety properties of
  the run;
- `NothingIsDropped`: what the connection has gone past is in the buffer, or was
  missed by a reconnect or a lag, whether or not the id is known. It is a
  conjunct of `IInv` that the other proofs use, and no run checks it separately;
- `RefinesRunHandle`: `SoloSpec => ImplementsRunHandle`.

Here a lag or a late change of transport can move the connection away from the
cursor, so the strengthening speaks of the position in two parts: what holds
always (`Position`), and what holds until then (`Intact`). A WebSocket that
never shook hands has delivered nothing (`Uncommitted`: falling back to SSE
loses nothing), the POST waits for the ready event and the run for the POST
(`Handshake`), and a listener at work belongs to a handle that is pending
(`AtWork`). The refinement also needs `Solo`, that no event of another run is in
the log before the id is known: until then the code lets every event through, as
its docstring says.

`RsClientProofs`, for any number of handles, inits and schema versions:

- `Inductive`, `TypeCorrect`: `Spec => []IInv`, `Spec => []TypeOK`;
- `SingleHeartbeat`, `StaleRefused`, `LastDropAlone`: `OneHeartbeat`,
  `StaleRunRefused`, `StopsAlone`.

The strengthening says that `strong` is the cardinality of the handles in use
and that a call in progress has a sub-client to run on (`Counted`: from a count
of one follows that nobody else is left to clone or to call), that the slot
holds the task of a finished init (`Installed`), and that without races at most
one init is under way, carrying a version at least as new as the last notice
(`Unraced`). The assumptions are `RsClientAssumption`.

`RsServerCallsProofs`, for any number of callers and repetitions, polling
limits, executions, results and buffer sizes (the assumptions of `RsCalls`,
`RsDocumentRun`, `RsBench`). The three parts share no state and have an invariant
each (`InvsAlways`: `Spec => [](CallsInv /\ DocInv /\ BenchInv)`).

- `AnswersTrue`: `Spec => []AnswersAreTrue`. The property speaks of calls that
  are done and of the answers that say something: nothing is claimed of the
  `Ok(())` of a set or of a delete that discards its bool, nor of a Null; `CallsInv` says of an answer still under way what its status reveals
  (`StatusTrue`: a 200 was done, a 404 found nothing, a refusal at the first try
  was not done), which `ResultTrue` carries through the request helpers, helper
  by helper. `RowsAreCalls` is the one place that looks at the tables.
- `OutcomesTrue`: `Spec => []OutcomeIsTheExecutions`. `DocInv` says of a reply
  under way that it is about what was asked and true of the server when it
  stays true (`ReplyTrue`: a blob moves on, an execution that has ended does
  not); that a job has used at most one execution per repetition and one more
  (`UsedUp`: so the server never runs out of ids in the model and no start is
  suppressed by the bound); and that of the executions left running without an
  id in anybody's hands there are no more than calls that failed blind
  (`FewForgotten`, over cardinalities of sets of executions).
- `ResultsAccounted`: `Spec => []BenchAccounted`. `BenchInv` places every result
  recorded since the subscription in exactly one of four places (received or
  reported as lagged, in the body, counted as lost, in the buffer), in this
  order (`BenchOrder`), and bounds what is in none of them by the results that
  do not decode (`BenchCounted`). The counts are sums over the frames.
- `TypesOK`: `Spec => []TypeOK`.

`RsEventPipelineProofs`, for logs, batches, retry limits, chains of envelopes and
counter widths of any size (`PipelineAssumption`, `MaxCountAssumption`):

- about the tables, without state: `CodesRollUp`, `AdviceAgrees`,
  `ExecutionErrorsKeepTheirKind`, `RetryableIsTransient`, `FatalKeepsItsDetail`;
- `SecretsStayIn`: a value's JSON is that of the value with its secrets blanked,
  at every level; `ShallowTrip`: JSON read as a value is written as it was;
- `TypesOK`, `LossesAreExplained`, `EventsStayInPlace`, `EndsReportTheRun`: the
  four invariants of the run.

`PipelineInv` has two halves. `LogTrue` is about the engine: what the run's
totals and those of the sub-script in progress hold together is the saturated sum
of what was emitted (`Balance`; saturating addition is associative enough for
that: `SatSums`), and since an end is published only with no sub-script in
progress it carries the sums up to it. `TasksTrue` is about the rest: where the
listener stands (`Position`), that the queues hold what it has read in increasing
order along the pipeline (`InOrderAlong`) and all of it while the receiver is
held (`Carried`), and that a task which has ended has left nothing behind it
(`Endings`). The last is the delicate one: a failed send ends a task and throws
its queue away, but a send fails only if the task behind has ended, which, while
the receiver is held, it does only when the one before it has. `NestedChain`
shows by induction over the chain that the walk down old-shape envelopes finds
the frames outermost first.

`PipelineAssumption` says what the code's types do not: frames are names, token
counts are naturals (u32), and the values of ends are no deeper than the
conversions of the model (`Shallow`; the code's conversions recurse without
bound). While proving it `EndReportsTheRun` turned out to claim too much: it
demanded that a union be recognised even when it is the value of a legacy end
that looks like the new shape, which is read as something else altogether. It
now leaves that case out as a whole. It also said that the one string "secret"
does not appear in the output; it now says that the output is the JSON of the
value without its secrets. The model of `EndToJson`, `Innermost` and `Batch` was
put in forms without `@@`, folds and `SelectSeq`, which the prover does not
expand.

Only model-checked: liveness. `Settles`, `StartAnswers`, `OrphanEnds`,
`ReadersEnd`, `ConsumersEnd`, `DestroyStops` and `CallsSettle` are temporal
properties under fairness, and ENABLED, which fairness rests on, is outside what
the prover handles.

## 5. Not modelled, and why

See `components` in PROJECT.json. Left out of the modelled components: the
`summary()` folds and runtime accumulators, callbacks that call back into the
stream, two concurrent `next()` calls on one JavaScript iterator, the
`EventSource` path of `connectSse`, `output()`'s timeout in Python, malformed
frames and SSE framing, `event_stream_bounded`, `adhoc_event_stream`, token
updates, bodies that are not empty and do not decode, `Retry-After` and other text parsed out of
messages. A server's report that it dropped events for a slow reader is a step of
the Python model only (`Lagged`, on either transport); the other two SDKs read
past it as past a reconnect. Aborting a tokio task is taken to be immediate; it takes effect at the
task's next await, and a request already on its way may still go out. Numbers of
JSON are opaque: an unsigned value above the signed range, which becomes a float
on its way through a value, is not told apart.

Not modelled at all: the life cycles of the TypeScript and Python clients, the
TypeScript and Python counterparts of requests, ingest, waiting and event
mapping, and the steps reducer. The AST and most models are type declarations
without behaviour.

## 6. Plan

1. *(done)* EventHub, RunHandle, the three run streams and their runs; Rust
   client; proofs of the safety invariants of all four and of the refinement of
   all three run streams.
2. *(done)* The Rust event vocabulary and its way to a consumer; the requests of
   every resource client, ingest, waiting and bench; proofs of their safety
   invariants and about the error tables and values.
3. TypeScript and Python clients: the timer chain with init, destroy and resume
   racing a tick (one chain, stops after destroy).
4. The differences of the other two SDKs in waiting, ingest and retries, beside
   `RsDocumentRun` and `RsCalls`; the event mapping of the three SDKs against
   each other.
5. SSE framing against the standard's grammar; the steps reducer with replay.
