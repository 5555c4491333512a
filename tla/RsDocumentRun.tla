---------------------------- MODULE RsDocumentRun ----------------------------
(***************************************************************************)
(* A document and a run over it: DocumentsClient::ingest, then             *)
(* RunBuilder::execute_and_await, as examples/document_upload.rs has them  *)
(* in a row (sub/documents.rs, sub/executions.rs), by a user who repeats   *)
(* the call that failed with a Transient.  Around the job: the blob, which *)
(* other callers upload, convert and collect, the executions, which end as *)
(* they like, and a network that turns requests away or loses answers.     *)
(*                                                                         *)
(* Every request is two steps: Serve (the server acts and answers) and     *)
(* the step that handles the answer.  A deadline is a flag that may come   *)
(* up any time after its call has started.                                 *)
(***************************************************************************)
EXTENDS Requests, FiniteSets

CONSTANTS
  RunId,     \* ids of executions: one more than Patience is enough
  Patience   \* bound: the Transients the user repeats a call for

\* The server never runs out of ids; no execution at all is not the id of one.
ASSUME DocAssumption ==
  /\ Patience \in Nat /\ IsFiniteSet(RunId) /\ Cardinality(RunId) > Patience
  /\ NoneOpt \notin RunId

VARIABLES
  blob,      \* server: the state of these bytes
  runs,      \* server: [RunId -> [status, kind]], "none" for an unused id
  job        \* the caller

docVars == <<blob, runs, job>>

-----------------------------------------------------------------------------
(* The server. *)

\* A status of a later server decodes to Unknown (#[serde(other)]).
ConversionStatus(b) == IF b = "queued" THEN "unknown" ELSE b

\* Others upload the bytes, convert them, have them converted again, drop them.
BlobMoves(b) ==
  CASE b = "absent" -> {"text", "pending"}
    [] b = "pending" -> {"queued", "converting"}
    [] b = "queued" -> {"converting", "absent"}
    [] b = "converting" -> {"ready", "failed", "absent"}
    [] OTHER -> {"converting", "absent"}

\* error_kind of a failed or cancelled execution, NoneOpt when it has none.
RecordKinds == {"RateLimit", "ServerError", "AuthError", NoneOpt}

Record(status, kind) == [status |-> status, kind |-> kind]
Unused == Record("none", NoneOpt)
Ended == {"completed", "failed", "cancelled"}

RunMoves(r) ==
  CASE r.status = "queued" -> {Record("running", NoneOpt)}
    [] r.status = "running" ->
         {Record(s, NoneOpt) : s \in {"suspended", "completed", "cancelled"}}
           \cup {Record("failed", k) : k \in RecordKinds}
    [] r.status = "suspended" -> {Record("running", NoneOpt), Record("cancelled", NoneOpt)}
    [] OTHER -> {}

\* The blob moves while the job may still look at it.
ServerMoves ==
  /\ job.at # "done"
  /\ \/ job.at \in {"claim", "upload"} /\ blob' \in BlobMoves(blob) /\ UNCHANGED runs
     \/ \E r \in RunId, next \in UNION {RunMoves(runs[x]) : x \in RunId} :
          next \in RunMoves(runs[r]) /\ runs' = [runs EXCEPT ![r] = next] /\ UNCHANGED blob
  /\ UNCHANGED job

NewRun == CHOOSE r \in RunId : runs[r].status = "none"

-----------------------------------------------------------------------------
(* The job: [at |-> what it waits for, phase |-> where its request is].      *)

NoReply == [status |-> Lost, body |-> Unused]

NewJob(deadline) ==
  [at |-> "claim", phase |-> "sent", reply |-> NoReply,
   deadline |-> deadline,     \* timeout_ms of the await is Some
   expired |-> FALSE, polling |-> FALSE, uploaded |-> FALSE, dedup |-> FALSE,
   conversion |-> "none", eid |-> NoneOpt, output |-> "none", error |-> NoError,
   repeats |-> 0,
   blind |-> 0]               \* history: calls that sent a run and failed naming none

DocInit ==
  /\ blob \in {"absent", "text", "pending", "queued", "converting", "ready", "failed"}
  /\ runs = [r \in RunId |-> Unused]
  /\ job \in {NewJob(d) : d \in BOOLEAN}

Answered(status, body) ==
  [job EXCEPT !.phase = "back", !.reply = [status |-> status, body |-> body]]

JobRefused ==
  /\ job.phase = "sent"
  /\ \E status \in {401, 429, Lost} : job' = Answered(status, Unused)
  /\ UNCHANGED <<blob, runs>>

\* What the server has done may still be answered with a 502 or nothing.
Reply(body) == \E status \in {200, 502, Lost} : job' = Answered(status, body)

ServeClaim ==
  /\ job.phase = "sent" /\ job.at = "claim"
  /\ Reply(Record(blob, NoneOpt))
  /\ UNCHANGED <<blob, runs>>

ServeUpload ==
  /\ job.phase = "sent" /\ job.at = "upload"
  /\ blob' \in IF blob = "absent" THEN BlobMoves(blob) ELSE {blob}
  /\ \E status \in {200, 502, Lost} : job' = [Answered(status, Record(blob', NoneOpt)) EXCEPT !.uploaded = TRUE]
  /\ UNCHANGED runs

ServeRun ==
  /\ job.phase = "sent" /\ job.at = "run"
  /\ runs' = [runs EXCEPT ![NewRun] = Record("queued", NoneOpt)]
  /\ Reply(Record(NewRun, NoneOpt))
  /\ UNCHANGED blob

\* A run that was only just queued may not be found yet.
ServeOutput ==
  /\ job.phase = "sent" /\ job.at = "output"
  /\ \/ Reply(runs[job.eid])
     \/ runs[job.eid].status = "queued" /\ job' = Answered(404, Unused)
  /\ UNCHANGED <<blob, runs>>

Send(j, at) == [j EXCEPT !.at = at, !.phase = "sent", !.reply = NoReply]
Nap(j) == [j EXCEPT !.phase = "nap", !.reply = NoReply]

(***************************************************************************)
(* The call ends with an error.  A Transient may be repeated: ingest is    *)
(* called again, or execute_and_await, which starts another run.           *)
(***************************************************************************)
Again(j) ==
  IF j.at \in {"claim", "upload"}
  THEN Send([j EXCEPT !.expired = FALSE, !.polling = FALSE, !.uploaded = FALSE, !.repeats = @ + 1], "claim")
  ELSE [j EXCEPT !.at = "execute", !.eid = NoneOpt, !.expired = FALSE, !.repeats = @ + 1]

Fail(e) ==
  LET j == [job EXCEPT !.error = e, !.reply = NoReply,
                       !.blind = IF e.eid = NoneOpt /\ job.at \in {"run", "output"} THEN @ + 1 ELSE @]
  IN  \/ job' = [j EXCEPT !.at = "done"]
      \/ e.variant = "Transient" /\ job.repeats < Patience /\ job' = Again([j EXCEPT !.error = NoError])

\* The bodies of its answers decode.
HttpError(verb) == ResultOf(verb, job.reply.status, "json").error

\* finalize, and on to the run.
Finalize(status, deduplicated) ==
  IF status = "failed" THEN Fail(SdkError("Other", NoStatus, NoneOpt))
  ELSE job' = [job EXCEPT !.at = "execute", !.conversion = ConversionStatus(status),
                          !.dedup = deduplicated, !.expired = FALSE, !.polling = FALSE]

(***************************************************************************)
(* The first claim's answer, or one of the polling loop: a miss uploads, a *)
(* hit that still converts is asked again until its deadline.              *)
(***************************************************************************)
ClaimAnswered ==
  LET hit == job.reply.body.status
  IN  /\ job.at = "claim" /\ job.phase = "back"
      /\ CASE HttpError("post") # NoError -> Fail(HttpError("post"))
           [] HttpError("post") = NoError /\ hit = "absent" -> job' = Send(job, "upload")
           [] HttpError("post") = NoError /\ hit \in {"converting", "pending"} ->
                IF job.expired
                THEN Fail(SdkError("Transient", NoStatus, NoneOpt))
                ELSE job' = Nap([job EXCEPT !.polling = TRUE])
           [] OTHER -> Finalize(hit, TRUE)
      /\ UNCHANGED <<blob, runs>>

\* Mutant of UploadAnswered: the upload of a blob that vanished counts as a hit.
UploadAnsweredAsHit ==
  /\ job.at = "upload" /\ job.phase = "back"
  /\ IF HttpError("post") # NoError THEN Fail(HttpError("post"))
     ELSE Finalize(job.reply.body.status, job.polling)
  /\ UNCHANGED <<blob, runs>>

\* A fresh upload is not waited for.
UploadAnswered ==
  /\ job.at = "upload" /\ job.phase = "back"
  /\ IF HttpError("post") # NoError THEN Fail(HttpError("post"))
     ELSE Finalize(job.reply.body.status, FALSE)
  /\ UNCHANGED <<blob, runs>>

(***************************************************************************)
(* validate_contract reads what the heartbeat knows of the script; then    *)
(* the POST, which takes the document's id and nothing else of the ingest. *)
(***************************************************************************)
Execute ==
  /\ job.at = "execute"
  /\ \/ job' = Send([job EXCEPT !.conversion = "none", !.dedup = FALSE, !.uploaded = FALSE], "run")
     \/ Fail(SdkError("ScriptSchemaChanged", NoStatus, NoneOpt))
     \/ Fail(SdkError("ScriptInputMismatch", NoStatus, NoneOpt))
  /\ UNCHANGED <<blob, runs>>

RunAnswered ==
  /\ job.at = "run" /\ job.phase = "back"
  /\ IF HttpError("post") # NoError THEN Fail(HttpError("post"))
     ELSE job' = [job EXCEPT !.at = "output", !.phase = "due", !.reply = NoReply,
                          !.eid = job.reply.body.status]
  /\ UNCHANGED <<blob, runs>>

\* Mutant of AwaitTurn: the deadline is not looked at between two polls.
AwaitTurnForever ==
  /\ job.at = "output" /\ job.phase = "due"
  /\ job' = Send(job, "output")
  /\ UNCHANGED <<blob, runs>>

\* The head of await_execution's loop.
AwaitTurn ==
  /\ job.at = "output" /\ job.phase = "due"
  /\ IF job.deadline /\ job.expired
     THEN Fail(SdkError("Timeout", NoStatus, job.eid))
     ELSE job' = Send(job, "output")
  /\ UNCHANGED <<blob, runs>>

OutputAnswered ==
  LET record == job.reply.body
      e == HttpError("get_opt")
  IN  /\ job.at = "output" /\ job.phase = "back"
      /\ IF e # NoError THEN Fail(e)
         ELSE IF job.reply.status = 404 THEN job' = Nap(job)
         ELSE CASE record.status \in {"completed", "suspended"} ->
                     job' = [job EXCEPT !.at = "done", !.output = record.status, !.reply = NoReply]
                [] record.status \in {"failed", "cancelled"} -> Fail(ExecutionError(record.kind, job.eid))
                [] OTHER -> job' = Nap(job)
      /\ UNCHANGED <<blob, runs>>

\* The sleep of either loop is over.
Wake ==
  /\ job.phase = "nap" /\ job.at # "done"
  /\ job' = [job EXCEPT !.phase = IF job.at = "claim" THEN "sent" ELSE "due"]
  /\ UNCHANGED <<blob, runs>>

\* A timeout of zero is up before the first look.
Expire ==
  /\ ~job.expired
  /\ job.at = "claim" \/ (job.at = "output" /\ job.deadline)
  /\ job' = [job EXCEPT !.expired = TRUE]
  /\ UNCHANGED <<blob, runs>>

JobServed == JobRefused \/ ServeClaim \/ ServeUpload \/ ServeRun \/ ServeOutput
JobStep ==
  ClaimAnswered \/ UploadAnswered \/ Execute \/ RunAnswered \/ AwaitTurn \/ OutputAnswered \/ Wake

DocNext == ServerMoves \/ JobServed \/ JobStep \/ Expire

-----------------------------------------------------------------------------
DocTypeOK ==
  /\ blob \in {"absent", "text", "pending", "queued", "converting", "ready", "failed"}
  /\ job.at \in {"claim", "upload", "execute", "run", "output", "done"}
  /\ job.phase \in {"sent", "back", "nap", "due"}
  /\ job.eid \in RunId \cup {NoneOpt}
  /\ job.repeats \in 0..Patience /\ job.blind \in 0..(Patience + 1)

Live(r) == runs[r].status \notin Ended \cup {"none"}

(***************************************************************************)
(* What the job is told is true of the server.  Ok(output) is the run's    *)
(* own, completed for good or suspended; an error that names an execution  *)
(* is that execution's own end, or a Timeout of a wait for it.  ingest     *)
(* says deduplicated exactly when this call uploaded nothing (a blob that  *)
(* vanished while it was polled is a fresh upload), and then the bytes     *)
(* were not converting any more; Ok never carries a failed conversion.     *)
(* The executions nobody waits for are no more than the calls that failed  *)
(* without naming one: a Transient that names its execution is safe to     *)
(* repeat, one that does not may leave a run behind.                       *)
(***************************************************************************)
OutcomeIsTheExecutions ==
  /\ Cardinality({r \in RunId \ {job.eid} : Live(r)})
       <= job.blind + IF job.at = "run" /\ job.phase = "back" THEN 1 ELSE 0
  /\ job.conversion # "none" =>
       /\ job.dedup = ~job.uploaded
       /\ job.conversion \notin IF job.dedup THEN {"failed", "pending", "converting"} ELSE {"failed"}
  /\ job.at = "done" =>
       /\ job.output # "none" => job.error = NoError /\ runs[job.eid].status # "none"
       /\ job.output = "completed" => runs[job.eid].status = "completed"
       /\ job.error.eid # NoneOpt =>
            /\ job.error.eid = job.eid
            /\ \/ job.error.variant = "Timeout" /\ job.expired /\ job.deadline
               \/ /\ runs[job.eid].status \in {"failed", "cancelled"}
                  /\ job.error = ExecutionError(runs[job.eid].kind, job.eid)
=============================================================================
