-------------------------- MODULE RsServerCallsProofs --------------------------
(***************************************************************************)
(* What the request side tells its callers is true, for any number of      *)
(* callers, repetitions, executions and results, as invariants of          *)
(* RsServerCalls: AnswersAreTrue, OutcomeIsTheExecutions, BenchAccounted   *)
(* and TypeOK.  One inductive invariant for each of the three plans, which *)
(* share no state: CallsInv, what a call knows of the server while its     *)
(* answer is under way; DocInv, what a job knows of its executions;        *)
(* BenchInv, where every result of a bench run is.                         *)
(***************************************************************************)
EXTENDS RsServerCalls, SequencingProofs

-----------------------------------------------------------------------------
(* Callers of the resource clients. *)

Verbs == {"get_opt", "get_or", "get", "post", "post_value", "set", "delete", "drop", "location"}
Statuses == {Lost, 200, 401, 404, 409, 429, 502}
Effects == {"read", "create", "update", "remove"}
AnswerBodies == {"json", "empty", "suite_already_exists"}

Told == [is : {"none", "default", "true", "false", "unit", "null", "body", "error"},
             error : [variant : {"None", "Http", "Fatal", "Transient", "AlreadyExists", "HttpStatus", "Other"},
                      status : Statuses \cup {NoStatus}, eid : {NoneOpt}]]

CallRecord ==
  [pc : {"idle", "sent", "answered", "done"}, verb : Verbs, effect : Effects, repeats : 0..MaxRepeats,
   did : BOOLEAN, there : BOOLEAN, status : Statuses, body : AnswerBodies, result : Told]

\* An answer under way: what its status says of the server.
StatusTrue(k) ==
  /\ k.status = 200 => k.did
  /\ k.status = 404 => ~k.there
  /\ (k.repeats = 0 /\ k.status \in {401, 404, 409}) => ~k.did

ToldTrue(k) ==
  /\ k.result.is = "true" => k.did
  /\ k.result.is \in {"none", "default", "false"} => ~k.there
  /\ k.result.error.status = 404 => ~k.there
  /\ k.result.is = "body" => k.did
  /\ (/\ k.repeats = 0
      /\ \/ k.result.is = "false"
         \/ k.result.error.variant \in {"Fatal", "HttpStatus", "AlreadyExists"}) => ~k.did

CallTrue(k) ==
  /\ k.pc \in {"idle", "sent"} /\ k.repeats = 0 => ~k.did
  /\ k.pc = "answered" => StatusTrue(k)
  /\ k.pc = "done" => ToldTrue(k)

CallsInv ==
  /\ item \in BOOLEAN
  /\ calls \in [Callers -> CallRecord]
  /\ \A c \in Callers : CallTrue(calls[c])

-----------------------------------------------------------------------------
\* Every row of the tables is a verb and an effect.
LEMMA RowsAreCalls == \A row \in Calls : row.verb \in Verbs /\ row.effect \in Effects
<1>1. \A row \in Rows(ClientCalls) \cup Rows(ProjectCalls) \cup Rows(ScriptCalls) \cup Rows(VersionCalls) :
        row.verb \in Verbs /\ row.effect \in Effects
  BY DEF Rows, ClientCalls, ProjectCalls, ScriptCalls, VersionCalls, Verbs, Effects, Call, Opt, List, Get,
         Ask, Create, Act, Set, PostValue, Delete, Drop
<1>2. \A row \in Rows(ChannelCalls) \cup Rows(LockCalls) \cup Rows(TokenCalls) \cup Rows(McpCalls)
                   \cup Rows(ConvertCalls) \cup Rows(DocumentCalls) :
        row.verb \in Verbs /\ row.effect \in Effects
  BY DEF Rows, ChannelCalls, LockCalls, TokenCalls, McpCalls, ConvertCalls, DocumentCalls, Verbs, Effects,
         Call, Opt, List, Get, Ask, Create, Act, Set, Delete, Drop
<1>3. \A row \in Rows(BenchCalls) \cup Rows(BenchRunCalls) :
        row.verb \in Verbs /\ row.effect \in Effects
  BY DEF Rows, BenchCalls, BenchRunCalls, Verbs, Effects, Call, Opt, List, Get, Ask, Create, Act, Set,
         Delete, Drop
<1>4. \A row \in Rows(ExecutionCalls) \cup Rows(ScopedExecutionCalls) :
        row.verb \in Verbs /\ row.effect \in Effects
  BY DEF Rows, ExecutionCalls, ScopedExecutionCalls, Verbs, Effects, Call, Opt, List, Get, Ask, Create, Act,
         Set, Delete
<1> QED
  BY <1>1, <1>2, <1>3, <1>4 DEF Calls

\* A new call knows nothing and has done nothing.
LEMMA NewCallTrue ==
  ASSUME NEW row, row.verb \in Verbs, row.effect \in Effects
  PROVE  /\ NewCall(row) \in CallRecord /\ CallTrue(NewCall(row))
         /\ [NewCall(row) EXCEPT !.pc = "idle"] \in CallRecord
         /\ CallTrue([NewCall(row) EXCEPT !.pc = "idle"])
<1>1. Ok("none") \in Told
  BY DEF Told, Ok, NoError, SdkError, NoStatus, NoneOpt, Statuses, Lost
<1>2. NewCall(row) \in CallRecord /\ [NewCall(row) EXCEPT !.pc = "idle"] \in CallRecord
  <2>1. PICK zero \in 0..MaxRepeats : zero = 0
    BY MaxRepeatsAssumption
  <2>2. PICK none \in Told : none = Ok("none")
    BY <1>1
  <2> QED
    BY <2>1, <2>2 DEF NewCall, CallRecord, Statuses, AnswerBodies, Lost
<1> QED
  BY <1>2 DEF CallTrue, NewCall

\* What send and a helper make of a status is true when the status was.
LEMMA ResultTrue ==
  ASSUME NEW k \in CallRecord, StatusTrue(k)
  PROVE  /\ ResultOf(k.verb, k.status, k.body) \in Told
         /\ ToldTrue(Returned(k, ResultOf(k.verb, k.status, k.body)))
<1> PICK r : r = ResultOf(k.verb, k.status, k.body)
  OBVIOUS
<1> PICK e : e = SendError(k.status, k.body)
  OBVIOUS
<1>1. k.verb \in Verbs /\ k.status \in Statuses
  BY DEF CallRecord
<1>2. CASE k.status \in {Lost, 401, 409, 429, 502}
  <2>1. /\ e.variant \in {"Http", "Fatal", "Transient", "AlreadyExists", "HttpStatus"}
        /\ e.variant \in {"Fatal", "AlreadyExists", "HttpStatus"} => k.status \in {401, 409}
        /\ e.status \in {NoStatus, 409, 429, 502}
        /\ e.eid = NoneOpt
        /\ Err(e) \in Told
    BY <1>2 DEF SendError, SdkError, Err, NoStatus, Lost, NoneOpt, Told, Statuses
  <2>2. r = [is |-> "error", error |-> e]
    BY <2>1 DEF ResultOf, NoError, SdkError, Err
  <2> QED
    BY <2>1, <2>2 DEF Returned, ToldTrue, StatusTrue, CallRecord, NoStatus, Err
<1>3. CASE k.status = 404
  <2>1. r \in {Ok("unit"), Ok("null"), Absent(k.verb)}
    BY <1>3 DEF ResultOf, SendError, NoError, Lost
  <2>2. k.verb \in {"set", "drop", "location"} => r = Ok("unit")
    BY <1>3 DEF ResultOf, SendError, NoError, Lost
  <2>3. k.verb \notin {"set", "drop", "location"} =>
          Absent(k.verb) \in {Ok("none"), Ok("default"), Ok("false"), HttpStatus(404)}
    BY <1>1 DEF Absent, Verbs
  <2>4. r \in {Ok("unit"), Ok("null"), Ok("none"), Ok("default"), Ok("false"), HttpStatus(404)}
    BY <2>1, <2>2, <2>3
  <2>5. /\ r \in Told /\ r.is \in {"none", "default", "false", "unit", "null", "error"}
        /\ r.error.variant \in {"None", "HttpStatus"}
    BY <2>4 DEF Ok, HttpStatus, Err, NoError, SdkError, NoStatus, NoneOpt, Told, Statuses
  <2> QED
    BY <1>3, <2>5 DEF Returned, ToldTrue, StatusTrue, CallRecord
<1>4. CASE k.status = 200
  <2>1. r \in {Ok("true"), Ok("unit"), Ok("null"), Ok("body"), Err(SdkError("Other", NoStatus, NoneOpt))}
    BY <1>4 DEF ResultOf, SendError, NoError, Lost
  <2>2. /\ r \in Told /\ r.is \in {"true", "unit", "null", "body", "error"}
        /\ r.error.variant \in {"None", "Other"} /\ r.error.status = NoStatus
    BY <2>1 DEF Ok, Err, NoError, SdkError, NoStatus, NoneOpt, Told, Statuses
  <2> QED
    BY <1>4, <2>2 DEF Returned, ToldTrue, StatusTrue, CallRecord, NoStatus
<1> QED
  BY <1>1, <1>2, <1>3, <1>4 DEF Statuses

-----------------------------------------------------------------------------
(* One step of a caller. *)

LEMMA CallsInitInv ==
  ASSUME CallsInit
  PROVE  CallsInv
<1>1. NoCall \in CallRecord /\ CallTrue(NoCall)
  BY NewCallTrue DEF NoCall, Opt, Call, Verbs, Effects
<1> QED
  BY <1>1 DEF CallsInit, CallsInv

LEMMA StartInv ==
  ASSUME CallsInv, NEW c \in Callers, Start(c)
  PROVE  CallsInv'
<1>1. PICK row \in Calls : calls' = [calls EXCEPT ![c] = NewCall(row)]
  BY DEF Start
<1>2. NewCall(row) \in CallRecord /\ CallTrue(NewCall(row))
  BY RowsAreCalls, NewCallTrue
<1> QED
  BY <1>1, <1>2 DEF CallsInv, Start

\* A call turned away has not been served since it was sent.
LEMMA RefusedTrue ==
  ASSUME NEW k \in CallRecord, NEW status \in {401, 429, Lost}, CallTrue(k), k.pc = "sent"
  PROVE  Refused(k, status) \in CallRecord /\ CallTrue(Refused(k, status))
<1>1. status \in Statuses /\ "json" \in AnswerBodies
  BY DEF Statuses, AnswerBodies
<1>2. Refused(k, status) \in CallRecord
  BY <1>1 DEF Refused, CallRecord
<1>3. CallTrue(Refused(k, status))
  BY DEF Refused, CallRecord, CallTrue, StatusTrue, Lost
<1> QED
  BY <1>2, <1>3

LEMMA RefuseInv ==
  ASSUME CallsInv, NEW c \in Callers, Refuse(c)
  PROVE  CallsInv'
<1>1. PICK status \in {401, 429, Lost} : calls' = [calls EXCEPT ![c] = Refused(calls[c], status)]
  BY DEF Refuse, CallsInv
<1>2. calls[c] \in CallRecord /\ CallTrue(calls[c]) /\ calls[c].pc = "sent" /\ item' = item
  BY DEF CallsInv, Refuse
<1>3. Refused(calls[c], status) \in CallRecord /\ CallTrue(Refused(calls[c], status))
  BY <1>1, <1>2, RefusedTrue
<1> QED
  BY <1>1, <1>2, <1>3 DEF CallsInv

\* What the server's own status says of a call it serves.
LEMMA HandledTrue ==
  ASSUME NEW effect, item \in BOOLEAN
  PROVE  /\ Handled(effect) \in {200, 404, 409}
         /\ Handled(effect) = 200 <=> Done(effect)
         /\ Handled(effect) = 404 => ~item
BY DEF Handled, Done

LEMMA AnsweredRecord ==
  ASSUME NEW k \in CallRecord, NEW status \in Statuses, NEW body_ \in AnswerBodies,
         NEW there \in BOOLEAN, NEW did \in BOOLEAN
  PROVE  [k EXCEPT !.pc = "answered", !.status = status, !.body = body_, !.there = there, !.did = did] \in CallRecord
BY DEF CallRecord

LEMMA ServedTrue ==
  ASSUME NEW k \in CallRecord, item \in BOOLEAN, CallTrue(k), k.pc = "sent",
         NEW status \in {Handled(k.effect), 502, Lost}, NEW body_ \in BodiesOf(status)
  PROVE  Served(k, status, body_) \in CallRecord /\ CallTrue(Served(k, status, body_))
<1>1. /\ Handled(k.effect) \in {200, 404, 409}
      /\ Handled(k.effect) = 200 <=> Done(k.effect)
      /\ Handled(k.effect) = 404 => ~item
  BY HandledTrue
<1>2. status \in Statuses /\ status # 401 /\ body_ \in AnswerBodies
  BY <1>1 DEF Statuses, Lost, BodiesOf, AnswerBodies
<1>3. k.repeats = 0 => ~k.did
  BY DEF CallTrue
<1> PICK there \in BOOLEAN : there = item
  OBVIOUS
<1>4. CASE Done(k.effect)
  <2>1. Served(k, status, body_) = [k EXCEPT !.pc = "answered", !.status = status, !.body = body_,
                                     !.there = there, !.did = TRUE]
    BY <1>4 DEF Served
  <2>2. Served(k, status, body_) \in CallRecord
    <3>1. [k EXCEPT !.pc = "answered", !.status = status, !.body = body_,
                                     !.there = there, !.did = TRUE] \in CallRecord
      BY <1>2, AnsweredRecord
    <3> QED
      BY <2>1, <3>1
  <2>3. status \in {200, 502, Lost}
    BY <1>1, <1>4
  <2> QED
    BY <2>1, <2>2, <2>3 DEF CallRecord, CallTrue, StatusTrue, Lost
<1>5. CASE ~Done(k.effect)
  <2>1. Served(k, status, body_) = [k EXCEPT !.pc = "answered", !.status = status, !.body = body_,
                                     !.there = there, !.did = k.did]
    BY <1>5 DEF Served
  <2>2. Served(k, status, body_) \in CallRecord
    <3>1. k.did \in BOOLEAN
      BY DEF CallRecord
    <3>2. [k EXCEPT !.pc = "answered", !.status = status, !.body = body_,
                                     !.there = there, !.did = k.did] \in CallRecord
      BY <1>2, <3>1, AnsweredRecord
    <3> QED
      BY <2>1, <3>2
  <2>3. status # 200 /\ (status = 404 => ~item)
    BY <1>1, <1>5 DEF Lost
  <2> QED
    BY <1>2, <1>3, <2>1, <2>2, <2>3 DEF CallRecord, CallTrue, StatusTrue
<1> QED
  BY <1>4, <1>5

LEMMA ServeInv ==
  ASSUME CallsInv, NEW c \in Callers, Serve(c)
  PROVE  CallsInv'
<1>1. PICK status \in {Handled(calls[c].effect), 502, Lost} : \E body_ \in BodiesOf(status) :
        calls' = [calls EXCEPT ![c] = Served(calls[c], status, body_)]
  BY DEF Serve, CallsInv
<1>2. calls[c] \in CallRecord /\ CallTrue(calls[c]) /\ calls[c].pc = "sent" /\ item \in BOOLEAN
  BY DEF CallsInv, Serve
<1>0. PICK body_ \in BodiesOf(status) : calls' = [calls EXCEPT ![c] = Served(calls[c], status, body_)]
  BY <1>1
<1>3. Served(calls[c], status, body_) \in CallRecord /\ CallTrue(Served(calls[c], status, body_))
  BY <1>2, ServedTrue
<1>4. item' \in BOOLEAN
  BY <1>2 DEF Serve
<1> QED
  BY <1>0, <1>3, <1>4 DEF CallsInv

\* A result given out is true, and a repeated call has been repeated.
LEMMA ReturnedTrue ==
  ASSUME NEW k \in CallRecord, NEW r \in Told, ToldTrue(Returned(k, r))
  PROVE  Returned(k, r) \in CallRecord /\ CallTrue(Returned(k, r))
<1>1. Lost \in Statuses /\ "json" \in AnswerBodies
  BY DEF Statuses, AnswerBodies
<1>2. Returned(k, r) \in CallRecord
  BY <1>1 DEF Returned, CallRecord
<1>3. Returned(k, r).pc = "done"
  BY DEF Returned, CallRecord
<1> QED
  BY <1>2, <1>3 DEF CallTrue

LEMMA RepeatedTrue ==
  ASSUME NEW k \in CallRecord, k.repeats < MaxRepeats
  PROVE  Repeated(k) \in CallRecord /\ CallTrue(Repeated(k))
<1>1. Lost \in Statuses /\ "json" \in AnswerBodies /\ k.repeats + 1 \in 0..MaxRepeats /\ k.repeats + 1 # 0
  BY MaxRepeatsAssumption DEF Statuses, AnswerBodies, CallRecord
<1>2. PICK n \in 0..MaxRepeats : n = k.repeats + 1
  BY <1>1
<1>3. Repeated(k) = [k EXCEPT !.pc = "sent", !.status = Lost, !.body = "json", !.repeats = n]
  BY <1>2 DEF Repeated
<1>4. Repeated(k) \in CallRecord
  BY <1>1, <1>2, <1>3 DEF CallRecord
<1>5. Repeated(k).pc = "sent" /\ Repeated(k).repeats # 0
  BY <1>1, <1>2, <1>3 DEF CallRecord
<1> QED
  BY <1>4, <1>5 DEF CallTrue

LEMMA ReturnInv ==
  ASSUME CallsInv, NEW c \in Callers, Return(c)
  PROVE  CallsInv'
<1>1. calls[c] \in CallRecord /\ CallTrue(calls[c]) /\ calls[c].pc = "answered" /\ item' = item
  BY DEF CallsInv, Return
<1>2. PICK r : r = ResultOf(calls[c].verb, calls[c].status, calls[c].body)
  OBVIOUS
<1>3. r \in Told /\ ToldTrue(Returned(calls[c], r))
  BY <1>1, <1>2, ResultTrue DEF CallTrue
<1>4. CASE calls' = [calls EXCEPT ![c] = Returned(calls[c], r)]
  BY <1>1, <1>3, <1>4, ReturnedTrue DEF CallsInv
<1>5. CASE calls' = [calls EXCEPT ![c] = Repeated(calls[c])] /\ calls[c].repeats < MaxRepeats
  BY <1>1, <1>5, RepeatedTrue DEF CallsInv
<1> QED
  BY <1>2, <1>4, <1>5 DEF Return, CallsInv

LEMMA CallsInvInductive ==
  ASSUME CallsInv, [CallsNext]_callVars
  PROVE  CallsInv'
<1>1. CASE CallsNext
  BY <1>1, StartInv, RefuseInv, ServeInv, ReturnInv DEF CallsNext
<1>2. CASE UNCHANGED callVars
  BY <1>2 DEF callVars, CallsInv
<1> QED
  BY <1>1, <1>2

LEMMA CallsInvTrue ==
  ASSUME CallsInv
  PROVE  AnswersAreTrue /\ CallsTypeOK
<1>1. AnswersAreTrue
  BY DEF CallsInv, CallTrue, ToldTrue, AnswersAreTrue
<1>2. ASSUME NEW k \in CallRecord
      PROVE  /\ k.pc \in {"idle", "sent", "answered", "done"} /\ k.repeats \in 0..MaxRepeats
             /\ {k.did, k.there} \subseteq BOOLEAN
             /\ k.result.is \in {"none", "default", "true", "false", "unit", "null", "body", "error"}
  BY DEF CallRecord, Told
<1>3. CallsTypeOK
  BY <1>2 DEF CallsInv, CallsTypeOK
<1> QED
  BY <1>1, <1>3

-----------------------------------------------------------------------------
(* A document and a run over it. *)

Blobs == {"absent", "text", "pending", "queued", "converting", "ready", "failed"}
RunStatuses == {"none", "queued", "running", "suspended"} \cup Ended
Records == [status : RunStatuses, kind : RecordKinds]
Bodies == [status : Blobs \cup RunStatuses \cup RunId, kind : RecordKinds]
ReplyStatuses == {Lost, 200, 401, 404, 429, 502}
Eids == RunId \cup {NoneOpt}
Variants ==
  {"None", "Http", "Fatal", "Transient", "AlreadyExists", "HttpStatus", "Other", "Timeout", "Script",
   "ScriptSchemaChanged", "ScriptInputMismatch"}
JobErrors == [variant : Variants, status : Nat, eid : Eids]

Jobs ==
  [at : {"claim", "upload", "execute", "run", "output", "done"}, phase : {"sent", "back", "nap", "due"},
   reply : [status : ReplyStatuses, body : Bodies],
   deadline : BOOLEAN, expired : BOOLEAN, polling : BOOLEAN, uploaded : BOOLEAN, dedup : BOOLEAN,
   conversion : {"none", "unknown"} \cup Blobs, eid : Eids,
   output : {"none", "completed", "suspended"}, error : JobErrors, repeats : 0..Patience, blind : Nat]

DocTyped == blob \in Blobs /\ runs \in [RunId -> Records] /\ job \in Jobs

(***************************************************************************)
(* What a job j knows of the server when the executions are rs.            *)
(***************************************************************************)
\* An answer that is back is about what was asked.
ReplyTrue(j, rs) ==
  j.phase = "back" =>
    /\ j.at \in {"claim", "upload", "run"} => j.reply.status # 404
    /\ j.reply.status = 200 =>
         /\ j.at \in {"claim", "upload"} => j.reply.body.status \in Blobs
         /\ j.at = "upload" => j.uploaded
         /\ j.at = "run" => /\ j.reply.body.status \in RunId
                            /\ rs[j.reply.body.status].status # "none"
         /\ j.at = "output" => /\ j.reply.body \in Records
                               /\ j.reply.body.status \in Ended => rs[j.eid] = j.reply.body

\* The execution it waits for was started.
EidKnown(j, rs) ==
  /\ j.at \in {"claim", "upload", "execute", "run"} => j.eid = NoneOpt
  /\ j.at = "output" => j.eid \in RunId /\ rs[j.eid].status # "none"

\* No result before its time.
NotYet(j) ==
  /\ j.at # "done" => j.error = NoError /\ j.output = "none"
  /\ j.at \notin {"execute", "done"} => j.conversion = "none"
  /\ j.at = "claim" => ~j.uploaded
  /\ j.phase = "sent" => j.at \notin {"execute", "done"}

ConversionTrue(j) ==
  j.conversion # "none" =>
    /\ j.dedup = ~j.uploaded
    /\ j.conversion \notin IF j.dedup THEN {"failed", "pending", "converting"} ELSE {"failed"}

\* A run per repetition at most, so an id is left for the next.
Used(rs) == {r \in RunId : rs[r].status # "none"}
UsedUp(j, rs) ==
  j.at # "done" =>
    Cardinality(Used(rs))
      <= j.repeats + IF (j.at = "run" /\ j.phase = "back") \/ j.at = "output" THEN 1 ELSE 0

BlindCalls(j) == j.blind <= j.repeats + IF j.at = "done" THEN 1 ELSE 0

\* The execution the job waits for, or is about to be told of.
Awaited(j) == IF j.at = "run" /\ j.phase = "back" THEN j.reply.body.status ELSE j.eid
LiveIn(rs) == {r \in RunId : rs[r].status \notin Ended \cup {"none"}}
FewForgotten(j, rs) == Cardinality(LiveIn(rs) \ {j.eid, Awaited(j)}) <= j.blind

Outcome(j, rs) ==
  j.at = "done" =>
    /\ j.output # "none" => j.error = NoError /\ rs[j.eid].status # "none"
    /\ j.output = "completed" => rs[j.eid].status = "completed"
    /\ j.error.eid # NoneOpt =>
         /\ j.error.eid = j.eid
         /\ \/ j.error.variant = "Timeout" /\ j.expired /\ j.deadline
            \/ /\ rs[j.eid].status \in {"failed", "cancelled"}
               /\ j.error = ExecutionError(rs[j.eid].kind, j.eid)

JobTrue(j, rs) ==
  /\ ReplyTrue(j, rs) /\ EidKnown(j, rs) /\ NotYet(j) /\ ConversionTrue(j)
  /\ UsedUp(j, rs) /\ BlindCalls(j) /\ FewForgotten(j, rs) /\ Outcome(j, rs)

DocInv == DocTyped /\ JobTrue(job, runs)

-----------------------------------------------------------------------------
(* Sets of executions. *)

LEMMA RunSets ==
  ASSUME NEW S \in SUBSET RunId
  PROVE  IsFiniteSet(S) /\ Cardinality(S) \in Nat
BY DocAssumption, FS_Subset, FS_CardinalityType

LEMMA FewerRuns ==
  ASSUME NEW T \in SUBSET RunId, NEW S, S \subseteq T
  PROVE  /\ Cardinality(S) \in Nat /\ Cardinality(T) \in Nat /\ Cardinality(S) <= Cardinality(T)
<1>1. S \in SUBSET RunId
  OBVIOUS
<1> QED
  BY <1>1, RunSets, FS_Subset

\* One more or one less makes a difference of one at most.
LEMMA OneRunMore ==
  ASSUME NEW S \in SUBSET RunId, NEW r, NEW T \in SUBSET RunId, T \subseteq S \cup {r}
  PROVE  /\ Cardinality(S) \in Nat /\ Cardinality(T) \in Nat /\ Cardinality(T) <= Cardinality(S) + 1
<1>1. IsFiniteSet(S) /\ IsFiniteSet(T) /\ Cardinality(S) \in Nat /\ Cardinality(T) \in Nat
  BY RunSets
<1>2. Cardinality(S \cup {r}) = IF r \in S THEN Cardinality(S) ELSE Cardinality(S) + 1
  BY <1>1, FS_AddElement
<1>3. IsFiniteSet(S \cup {r})
  BY <1>1, FS_AddElement
<1>4. Cardinality(T) <= Cardinality(S \cup {r})
  BY <1>3, FS_Subset
<1> QED
  BY <1>1, <1>2, <1>4

\* As long as the user's patience lasts there is an id for the next execution.
LEMMA AnIdIsLeft ==
  ASSUME runs \in [RunId -> Records], Cardinality(Used(runs)) <= Patience
  PROVE  NewRun \in RunId /\ runs[NewRun].status = "none"
<1>1. Used(runs) # RunId
  BY DocAssumption, RunSets
<1>2. PICK r \in RunId : runs[r].status = "none"
  BY <1>1 DEF Used
<1> QED
  BY <1>2 DEF NewRun

\* What ResultOf makes of an answer, where the job asks.
LEMMA HttpErrors ==
  ASSUME job \in Jobs, NEW verb \in {"post", "get_opt"}
  PROVE  /\ HttpError(verb) \in JobErrors /\ HttpError(verb).eid = NoneOpt
         /\ HttpError(verb) = NoError /\ verb = "post" => job.reply.status = 200
         /\ HttpError(verb) = NoError /\ verb = "get_opt" => job.reply.status \in {200, 404}
         /\ job.reply.status = 200 => HttpError(verb) = NoError
<1>1. job.reply.status \in ReplyStatuses
  BY DEF Jobs
<1>2. /\ NoError = [variant |-> "None", status |-> 0, eid |-> NoneOpt]
      /\ NoError \in JobErrors /\ NoError.eid = NoneOpt
  BY DEF NoError, SdkError, NoStatus, JobErrors, Variants, Eids
<1>3. CASE job.reply.status \in {200, 404}
  <2>1. SendError(job.reply.status, "json") = NoError
    BY <1>3 DEF SendError, Lost
  <2>2. CASE job.reply.status = 200
    <3>1. HttpError(verb) = NoError
      BY <2>1, <2>2 DEF HttpError, ResultOf, Ok
    <3> QED
      BY <1>2, <2>2, <3>1
  <2>3. CASE job.reply.status = 404
    <3>1. HttpError(verb) = IF verb = "post" THEN SdkError("HttpStatus", 404, NoneOpt) ELSE NoError
      BY <2>1, <2>3 DEF HttpError, ResultOf, Absent, HttpStatus, Err, Ok
    <3> QED
      BY <1>2, <2>3, <3>1 DEF SdkError, JobErrors, Variants, Eids
  <2> QED
    BY <1>3, <2>2, <2>3
<1>4. CASE job.reply.status \in {Lost, 401, 429, 502}
  <2>1. /\ SendError(job.reply.status, "json") \in JobErrors /\ SendError(job.reply.status, "json").eid = NoneOpt
        /\ SendError(job.reply.status, "json").variant # "None"
    BY <1>4 DEF SendError, Lost, SdkError, NoStatus, JobErrors, Variants, Eids
  <2>2. HttpError(verb) = SendError(job.reply.status, "json")
    BY <1>2, <2>1 DEF HttpError, ResultOf, Err
  <2> QED
    BY <1>2, <1>4, <2>1, <2>2 DEF Lost
<1> QED
  BY <1>1, <1>3, <1>4 DEF ReplyStatuses

-----------------------------------------------------------------------------
(* The server, and answers. *)

LEMMA DocInitInv ==
  ASSUME blob \in Blobs, runs = [r \in RunId |-> Unused], NEW d \in BOOLEAN, job = NewJob(d)
  PROVE  DocInv
<1>1. Unused \in Records /\ Unused \in Bodies /\ Unused.status = "none"
  BY DEF Unused, Record, Records, RunStatuses, RecordKinds, Bodies
<1>2. NoError \in JobErrors
  BY DEF NoError, SdkError, NoStatus, JobErrors, Variants, Eids
<1>3. 0 \in 0..Patience
  BY DocAssumption
<1>4. DocTyped
  BY <1>1, <1>2, <1>3 DEF DocTyped, NewJob, NoReply, Jobs, ReplyStatuses, Eids
<1>5. Used(runs) = {} /\ LiveIn(runs) = {}
  BY <1>1 DEF Used, LiveIn
<1>6. Cardinality({}) = 0 /\ \A S : {} \ S = {}
  BY FS_EmptySet
<1>7. /\ job.at = "claim" /\ job.phase = "sent" /\ job.eid = NoneOpt /\ job.repeats = 0 /\ job.blind = 0
      /\ job.conversion = "none" /\ job.uploaded = FALSE /\ job.error = NoError /\ job.output = "none"
  BY DEF NewJob
<1>8. UsedUp(job, runs) /\ BlindCalls(job) /\ FewForgotten(job, runs)
  BY <1>5, <1>6, <1>7 DEF UsedUp, BlindCalls, FewForgotten
<1>9. /\ ReplyTrue(job, runs) /\ EidKnown(job, runs) /\ NotYet(job) /\ ConversionTrue(job)
      /\ Outcome(job, runs)
  BY <1>7 DEF ReplyTrue, EidKnown, NotYet, ConversionTrue, Outcome
<1> QED
  BY <1>4, <1>8, <1>9 DEF DocInv, JobTrue

(***************************************************************************)
(* An answer comes back for a call that waited for one: what it is about   *)
(* must be true, and the call must know of a run the server has started.   *)
(***************************************************************************)
LEMMA AnswerTrue ==
  ASSUME DocTyped, JobTrue(job, runs), job.phase = "sent",
         NEW status \in ReplyStatuses, NEW body_ \in Bodies,
         \/ job' = Answered(status, body_)
         \/ job.at = "upload" /\ job' = [Answered(status, body_) EXCEPT !.uploaded = TRUE],
         runs' \in [RunId -> Records], blob' \in Blobs,
         ReplyTrue(job', runs'), EidKnown(job, runs'), UsedUp(job', runs'),
         FewForgotten(job', runs')
  PROVE  DocInv'
<1> USE DEF Answered
<1>1. /\ job'.at = job.at /\ job'.phase = "back" /\ job'.reply = [status |-> status, body |-> body_]
      /\ job'.eid = job.eid /\ job'.repeats = job.repeats /\ job'.blind = job.blind
      /\ job'.conversion = job.conversion /\ job'.dedup = job.dedup
      /\ job'.error = job.error /\ job'.output = job.output
      /\ job.at # "upload" => job'.uploaded = job.uploaded
  BY DEF DocTyped, Jobs
<1>2. job' \in Jobs
  <2>1. PICK reply \in [status : ReplyStatuses, body : Bodies] : reply = [status |-> status, body |-> body_]
    OBVIOUS
  <2>2. [job EXCEPT !.phase = "back", !.reply = reply] \in Jobs
    BY DEF DocTyped, Jobs
  <2>3. [[job EXCEPT !.phase = "back", !.reply = reply] EXCEPT !.uploaded = TRUE] \in Jobs
    BY <2>2 DEF Jobs
  <2> QED
    BY <2>1, <2>2, <2>3
<1>3. EidKnown(job', runs')
  BY <1>1 DEF EidKnown
<1>4. NotYet(job') /\ BlindCalls(job')
  BY <1>1 DEF NotYet, BlindCalls, JobTrue
<1>5. ConversionTrue(job')
  BY <1>1 DEF ConversionTrue, NotYet, JobTrue
<1>6. Outcome(job', runs')
  BY <1>1 DEF Outcome, NotYet, JobTrue
<1> QED
  BY <1>2, <1>3, <1>4, <1>5, <1>6 DEF DocInv, DocTyped, JobTrue

\* Without a new execution, and with an answer that names none, the counts stand.
LEMMA CountsStand ==
  ASSUME DocTyped, JobTrue(job, runs), job.phase = "sent", runs' = runs,
         job'.at = job.at, job'.eid = job.eid, job'.repeats = job.repeats, job'.blind = job.blind
  PROVE  UsedUp(job', runs') /\ FewForgotten(job', runs') /\ EidKnown(job, runs')
<1>0. job.at # "done"
  BY DEF JobTrue, NotYet
<1>1. /\ job.repeats \in Nat /\ job.blind \in Nat /\ Used(runs) \in SUBSET RunId
      /\ LiveIn(runs) \in SUBSET RunId
  BY DocAssumption DEF DocTyped, Jobs, Used, LiveIn
<1>2. UsedUp(job', runs')
  <2>1. Cardinality(Used(runs)) <= job.repeats + IF job.at = "output" THEN 1 ELSE 0
    BY <1>0 DEF JobTrue, UsedUp
  <2>2. Cardinality(Used(runs)) \in Nat
    BY <1>1, RunSets
  <2> QED
    BY <1>1, <2>1, <2>2 DEF UsedUp
<1>3. FewForgotten(job', runs')
  <2>1. Cardinality(LiveIn(runs) \ {job.eid}) <= job.blind
    <3>1. {job.eid, Awaited(job)} = {job.eid}
      BY DEF Awaited
    <3> QED
      BY <3>1 DEF JobTrue, FewForgotten
  <2>2. /\ LiveIn(runs) \ {job.eid, Awaited(job')} \subseteq LiveIn(runs) \ {job.eid}
        /\ LiveIn(runs) \ {job.eid} \in SUBSET RunId
    BY <1>1
  <2>3. Cardinality(LiveIn(runs) \ {job.eid, Awaited(job')}) <= Cardinality(LiveIn(runs) \ {job.eid})
        /\ Cardinality(LiveIn(runs) \ {job.eid, Awaited(job')}) \in Nat
        /\ Cardinality(LiveIn(runs) \ {job.eid}) \in Nat
    BY <2>2, FewerRuns
  <2> QED
    BY <1>1, <2>1, <2>3 DEF FewForgotten
<1> QED
  BY <1>2, <1>3 DEF JobTrue, EidKnown

LEMMA RefusedInv ==
  ASSUME DocInv, JobRefused
  PROVE  DocInv'
<1>1. PICK status \in {401, 429, Lost} : job' = Answered(status, Unused)
  BY DEF JobRefused
<1>2. /\ DocTyped /\ JobTrue(job, runs) /\ job.phase = "sent" /\ blob' = blob /\ runs' = runs
      /\ status \in ReplyStatuses /\ status \notin {200, 404}
  BY DEF DocInv, JobRefused, ReplyStatuses, Lost
<1>3. Unused \in Bodies
  BY DEF Unused, Record, RunStatuses, RecordKinds, Bodies
<1>4. /\ job'.at = job.at /\ job'.eid = job.eid /\ job'.repeats = job.repeats /\ job'.blind = job.blind
      /\ job'.reply.status = status
  BY <1>1, <1>2 DEF Answered, DocTyped, Jobs
<1>5. ReplyTrue(job', runs')
  BY <1>2, <1>4 DEF ReplyTrue
<1>6. UsedUp(job', runs') /\ FewForgotten(job', runs') /\ EidKnown(job, runs')
  BY <1>2, <1>4, CountsStand
<1> QED
  BY <1>1, <1>2, <1>3, <1>5, <1>6, AnswerTrue DEF DocTyped

LEMMA ClaimServedInv ==
  ASSUME DocInv, ServeClaim
  PROVE  DocInv'
<1>1. PICK status \in {200, 502, Lost} : job' = Answered(status, Record(blob, NoneOpt))
  BY DEF ServeClaim, Reply
<1>2. /\ DocTyped /\ JobTrue(job, runs) /\ job.phase = "sent" /\ job.at = "claim" /\ blob' = blob
      /\ runs' = runs /\ status \in ReplyStatuses /\ status # 404
  BY DEF DocInv, ServeClaim, ReplyStatuses, Lost
<1>3. Record(blob, NoneOpt) \in Bodies /\ Record(blob, NoneOpt).status = blob /\ blob \in Blobs
  BY <1>2 DEF Record, RecordKinds, Bodies, DocTyped
<1>4. /\ job'.at = job.at /\ job'.eid = job.eid /\ job'.repeats = job.repeats /\ job'.blind = job.blind
      /\ job'.reply = [status |-> status, body |-> Record(blob, NoneOpt)]
  BY <1>1, <1>2 DEF Answered, DocTyped, Jobs
<1>5. ReplyTrue(job', runs')
  BY <1>2, <1>3, <1>4 DEF ReplyTrue
<1>6. UsedUp(job', runs') /\ FewForgotten(job', runs') /\ EidKnown(job, runs')
  BY <1>2, <1>4, CountsStand
<1> QED
  BY <1>1, <1>2, <1>3, <1>5, <1>6, AnswerTrue DEF DocTyped

LEMMA UploadServedInv ==
  ASSUME DocInv, ServeUpload
  PROVE  DocInv'
<1>1. PICK status \in {200, 502, Lost} :
        job' = [Answered(status, Record(blob', NoneOpt)) EXCEPT !.uploaded = TRUE]
  BY DEF ServeUpload
<1>2. /\ DocTyped /\ JobTrue(job, runs) /\ job.phase = "sent" /\ job.at = "upload"
      /\ runs' = runs /\ status \in ReplyStatuses /\ status # 404
  BY DEF DocInv, ServeUpload, ReplyStatuses, Lost
<1>3. blob' \in Blobs
  BY <1>2 DEF ServeUpload, BlobMoves, DocTyped, Blobs
<1>4. Record(blob', NoneOpt) \in Bodies /\ Record(blob', NoneOpt).status = blob'
  BY <1>3 DEF Record, RecordKinds, Bodies
<1>5. /\ job'.at = job.at /\ job'.eid = job.eid /\ job'.repeats = job.repeats /\ job'.blind = job.blind
      /\ job'.reply = [status |-> status, body |-> Record(blob', NoneOpt)] /\ job'.uploaded = TRUE
  BY <1>1, <1>2 DEF Answered, DocTyped, Jobs
<1>6. ReplyTrue(job', runs')
  BY <1>2, <1>3, <1>4, <1>5 DEF ReplyTrue
<1>7. UsedUp(job', runs') /\ FewForgotten(job', runs') /\ EidKnown(job, runs')
  BY <1>2, <1>5, CountsStand
<1> QED
  BY <1>1, <1>2, <1>3, <1>4, <1>6, <1>7, AnswerTrue DEF DocTyped

\* The server starts an execution, under an id nobody has used.
LEMMA RunServedInv ==
  ASSUME DocInv, ServeRun
  PROVE  DocInv'
<1>1. PICK status \in {200, 502, Lost} : job' = Answered(status, Record(NewRun, NoneOpt))
  BY DEF ServeRun, Reply
<1>2. /\ DocTyped /\ JobTrue(job, runs) /\ job.phase = "sent" /\ job.at = "run" /\ blob' = blob
      /\ runs' = [runs EXCEPT ![NewRun] = Record("queued", NoneOpt)]
      /\ status \in ReplyStatuses /\ status # 404
  BY DEF DocInv, ServeRun, ReplyStatuses, Lost
<1>3. /\ runs \in [RunId -> Records] /\ job.repeats \in 0..Patience /\ job.blind \in Nat
      /\ Patience \in Nat /\ job.eid = NoneOpt
  BY <1>2, DocAssumption DEF DocTyped, Jobs, JobTrue, EidKnown
<1>4. /\ Used(runs) \in SUBSET RunId /\ LiveIn(runs) \in SUBSET RunId
      /\ Used(runs') \in SUBSET RunId /\ LiveIn(runs') \in SUBSET RunId
  BY DEF Used, LiveIn
<1>5. Cardinality(Used(runs)) <= job.repeats /\ Cardinality(Used(runs)) \in Nat
  <2>1. Cardinality(Used(runs)) <= job.repeats + 0
    BY <1>2 DEF JobTrue, UsedUp
  <2> QED
    BY <1>3, <1>4, <2>1, RunSets
<1>6. NewRun \in RunId
  BY <1>3, <1>5, AnIdIsLeft
<1>7. Record("queued", NoneOpt) \in Records /\ Record("queued", NoneOpt).status = "queued"
  BY DEF Record, Records, RunStatuses, RecordKinds
<1>8. runs' \in [RunId -> Records] /\ runs'[NewRun].status = "queued"
      /\ \A r \in RunId \ {NewRun} : runs'[r] = runs[r]
  BY <1>2, <1>3, <1>6, <1>7
<1>9. Record(NewRun, NoneOpt) \in Bodies /\ Record(NewRun, NoneOpt).status = NewRun
  BY <1>6 DEF Record, RecordKinds, Bodies
<1>10. /\ job'.at = "run" /\ job'.eid = NoneOpt /\ job'.repeats = job.repeats /\ job'.blind = job.blind
       /\ job'.reply = [status |-> status, body |-> Record(NewRun, NoneOpt)] /\ job'.phase = "back"
  BY <1>1, <1>2, <1>3 DEF Answered, DocTyped, Jobs
<1>11. ReplyTrue(job', runs')
  BY <1>2, <1>6, <1>8, <1>9, <1>10 DEF ReplyTrue
<1>12. UsedUp(job', runs')
  <2>1. Used(runs') \subseteq Used(runs) \cup {NewRun}
    BY <1>8 DEF Used
  <2>2. Cardinality(Used(runs')) <= Cardinality(Used(runs)) + 1 /\ Cardinality(Used(runs')) \in Nat
    BY <1>4, <2>1, OneRunMore
  <2>3. Cardinality(Used(runs')) <= job'.repeats + 1
    BY <1>3, <1>5, <1>10, <2>2
  <2> QED
    BY <1>10, <2>3 DEF UsedUp
<1>13. FewForgotten(job', runs')
  <2>1. Awaited(job') = NewRun
    BY <1>9, <1>10 DEF Awaited
  <2>2. LiveIn(runs') \ {job'.eid, Awaited(job')} \subseteq LiveIn(runs) \ {job.eid, Awaited(job)}
    <3>1. Awaited(job) = NoneOpt
      BY <1>2, <1>3 DEF Awaited
    <3> QED
      BY <1>3, <1>8, <1>10, <2>1, <3>1 DEF LiveIn
  <2>3. LiveIn(runs) \ {job.eid, Awaited(job)} \in SUBSET RunId
    BY <1>4
  <2>4. Cardinality(LiveIn(runs) \ {job.eid, Awaited(job)}) <= job.blind
    BY <1>2 DEF JobTrue, FewForgotten
  <2> QED
    BY <1>3, <1>10, <2>2, <2>3, <2>4, FewerRuns DEF FewForgotten
<1>14. EidKnown(job, runs')
  BY <1>2, <1>3 DEF EidKnown
<1> QED
  BY <1>1, <1>2, <1>8, <1>9, <1>11, <1>12, <1>13, <1>14, AnswerTrue DEF DocTyped

LEMMA OutputServedInv ==
  ASSUME DocInv, ServeOutput
  PROVE  DocInv'
<1>1. /\ DocTyped /\ JobTrue(job, runs) /\ job.phase = "sent" /\ job.at = "output" /\ blob' = blob
      /\ runs' = runs /\ job.eid \in RunId /\ runs[job.eid].status # "none"
  BY DEF DocInv, ServeOutput, JobTrue, EidKnown
<1>2. PICK status \in {200, 404, 502, Lost}, record \in {Unused, runs[job.eid]} :
        job' = Answered(status, record) /\ (status = 200 => record = runs[job.eid])
  <2>1. CASE Reply(runs[job.eid])
    BY <2>1 DEF Reply
  <2>2. CASE job' = Answered(404, Unused)
    BY <2>2
  <2> QED
    BY <2>1, <2>2 DEF ServeOutput
<1>3. /\ runs[job.eid] \in Records /\ record \in Records /\ record \in Bodies
      /\ status \in ReplyStatuses
  BY <1>1 DEF DocTyped, Unused, Record, Records, RunStatuses, RecordKinds, Bodies, ReplyStatuses
<1>4. /\ job'.at = job.at /\ job'.eid = job.eid /\ job'.repeats = job.repeats /\ job'.blind = job.blind
      /\ job'.reply = [status |-> status, body |-> record]
  BY <1>1, <1>2 DEF Answered, DocTyped, Jobs
<1>5. ReplyTrue(job', runs')
  BY <1>1, <1>2, <1>3, <1>4 DEF ReplyTrue
<1>6. UsedUp(job', runs') /\ FewForgotten(job', runs') /\ EidKnown(job, runs')
  BY <1>1, <1>4, CountsStand
<1> QED
  BY <1>1, <1>2, <1>3, <1>5, <1>6, AnswerTrue DEF DocTyped

(***************************************************************************)
(* The blob and the executions move by themselves: a run that was started  *)
(* stays started, and one that has ended is over.                          *)
(***************************************************************************)
LEMMA RunMovesOn ==
  ASSUME NEW record \in Records, NEW next \in RunMoves(record)
  PROVE  /\ next \in Records /\ next.status # "none"
         /\ record.status \notin Ended \cup {"none"}
BY DEF RunMoves, Record, Records, RunStatuses, RecordKinds, Ended

LEMMA ServerMovesInv ==
  ASSUME DocInv, ServerMoves
  PROVE  DocInv'
<1>1. DocTyped /\ JobTrue(job, runs) /\ job' = job /\ job.at # "done"
  BY DEF DocInv, ServerMoves
<1>2. CASE blob' \in BlobMoves(blob) /\ runs' = runs
  <2>1. blob' \in Blobs
    BY <1>1, <1>2 DEF BlobMoves, DocTyped, Blobs
  <2> QED
    BY <1>1, <1>2, <2>1 DEF DocInv, DocTyped
<1>3. ASSUME NEW r \in RunId, NEW next \in RunMoves(runs[r]), runs' = [runs EXCEPT ![r] = next], blob' = blob
      PROVE  DocInv'
  <2>1. /\ next \in Records /\ next.status # "none" /\ runs[r].status \notin Ended \cup {"none"}
    <3>1. runs[r] \in Records
      BY <1>1 DEF DocTyped
    <3> QED
      BY <3>1, RunMovesOn
  <2>2. /\ runs' \in [RunId -> Records] /\ runs'[r] = next /\ \A x \in RunId \ {r} : runs'[x] = runs[x]
    BY <1>1, <1>3, <2>1 DEF DocTyped
  <2>3. \A x \in RunId : /\ runs'[x].status = "none" <=> runs[x].status = "none"
                         /\ runs[x].status \in Ended => runs'[x] = runs[x]
    BY <2>1, <2>2
  <2>4. Used(runs') = Used(runs) /\ LiveIn(runs') \subseteq LiveIn(runs)
    <3>1. \A x \in RunId : runs[x].status \in Ended \cup {"none"} => runs'[x].status \in Ended \cup {"none"}
      BY <2>3
    <3> QED
      BY <2>3, <3>1 DEF Used, LiveIn
  <2>5. EidKnown(job, runs') /\ UsedUp(job, runs')
    BY <1>1, <2>3, <2>4 DEF JobTrue, EidKnown, UsedUp
  <2>6. ReplyTrue(job, runs')
    BY <1>1, <2>3 DEF JobTrue, EidKnown, ReplyTrue
  <2>7. FewForgotten(job, runs')
    <3>1. /\ LiveIn(runs') \ {job.eid, Awaited(job)} \subseteq LiveIn(runs) \ {job.eid, Awaited(job)}
          /\ LiveIn(runs) \ {job.eid, Awaited(job)} \in SUBSET RunId
      BY <2>4 DEF LiveIn
    <3>2. Cardinality(LiveIn(runs) \ {job.eid, Awaited(job)}) <= job.blind /\ job.blind \in Nat
      BY <1>1 DEF JobTrue, FewForgotten, DocTyped, Jobs
    <3> QED
      BY <3>1, <3>2, FewerRuns DEF FewForgotten
  <2>8. Outcome(job, runs')
    BY <1>1 DEF Outcome
  <2> QED
    BY <1>1, <1>3, <2>2, <2>5, <2>6, <2>7, <2>8 DEF DocInv, DocTyped, JobTrue
<1> QED
  BY <1>2, <1>3 DEF ServerMoves

-----------------------------------------------------------------------------
(* The job goes on. *)

\* What a failed call forgets: at most the execution it was about.
LEMMA FailForgets ==
  ASSUME DocInv, NEW n \in Nat, NEW x,
         \/ x = job.eid /\ n >= job.blind
         \/ n = job.blind + 1
         \/ job.at = "output" /\ runs[job.eid].status \in Ended /\ n >= job.blind,
         job.at = "run" /\ job.phase = "back" => n = job.blind + 1,
         x \in {job.eid, NoneOpt}
  PROVE  Cardinality(LiveIn(runs) \ {x}) <= n
<1> DEFINE S == LiveIn(runs) \ {job.eid, Awaited(job)}
           T == LiveIn(runs) \ {x}
<1>1. /\ S \in SUBSET RunId /\ T \in SUBSET RunId /\ job.blind \in Nat
      /\ Cardinality(S) <= job.blind
  BY DEF LiveIn, DocInv, DocTyped, Jobs, JobTrue, FewForgotten
<1>2. EidKnown(job, runs)
  BY DEF DocInv, JobTrue
<1>3. CASE job.at = "run" /\ job.phase = "back"
  <2>1. job.eid = NoneOpt /\ x = NoneOpt /\ n = job.blind + 1
    BY <1>2, <1>3 DEF EidKnown
  <2>2. T \subseteq S \cup {Awaited(job)}
    BY <2>1
  <2>3. Cardinality(T) <= Cardinality(S) + 1 /\ Cardinality(T) \in Nat /\ Cardinality(S) \in Nat
    BY <1>1, <2>2, OneRunMore
  <2> QED
    BY <1>1, <2>1, <2>3
<1>4. CASE ~(job.at = "run" /\ job.phase = "back")
  <2>1. S = LiveIn(runs) \ {job.eid}
    BY <1>4 DEF Awaited
  <2>2. CASE x = job.eid /\ n >= job.blind
    <3>1. T = S
      BY <2>1, <2>2
    <3>2. Cardinality(S) \in Nat
      BY <1>1, RunSets
    <3> HIDE DEF S, T
    <3> QED
      BY <1>1, <2>2, <3>1, <3>2 DEF T
  <2>3. CASE n = job.blind + 1
    <3>1. T \subseteq S \cup {job.eid}
      BY <2>1
    <3>2. Cardinality(T) <= Cardinality(S) + 1 /\ Cardinality(T) \in Nat /\ Cardinality(S) \in Nat
      BY <1>1, <3>1, OneRunMore
    <3> QED
      BY <1>1, <2>3, <3>2
  <2>4. CASE job.at = "output" /\ runs[job.eid].status \in Ended /\ n >= job.blind
    <3>1. job.eid \notin LiveIn(runs)
      BY <2>4 DEF LiveIn
    <3>2. T \subseteq S
      BY <2>1, <3>1
    <3>3. Cardinality(T) <= Cardinality(S) /\ Cardinality(T) \in Nat /\ Cardinality(S) \in Nat
      BY <1>1, <3>2, FewerRuns
    <3> QED
      BY <1>1, <2>4, <3>3
  <2> QED
    BY <2>2, <2>3, <2>4, <1>4
<1> QED
  BY <1>3, <1>4

LEMMA LostReply == NoReply \in [status : ReplyStatuses, body : Bodies] /\ NoReply.status \notin {200, 404}
BY DEF NoReply, ReplyStatuses, Lost, Bodies, Unused, Record, RunStatuses, RecordKinds

LEMMA NoErrorTyped == NoError \in JobErrors /\ NoError.eid = NoneOpt
BY DEF NoError, SdkError, NoStatus, JobErrors, Variants, Eids

(***************************************************************************)
(* A call fails: the job is over, or the user repeats it.                  *)
(***************************************************************************)
LEMMA FailInv ==
  ASSUME DocInv, job.at # "done", job.phase # "sent", runs' = runs, blob' = blob,
         NEW e \in JobErrors, Fail(e),
         job.at = "execute" => e.variant # "Transient",
         job.at = "run" => job.phase = "back",
         e.eid # NoneOpt =>
           /\ job.at = "output" /\ e.eid = job.eid
           /\ \/ e.variant = "Timeout" /\ job.expired /\ job.deadline
              \/ /\ runs[job.eid].status \in {"failed", "cancelled"}
                 /\ e = ExecutionError(runs[job.eid].kind, job.eid)
  PROVE  DocInv'
<1>1. /\ DocTyped /\ job \in Jobs /\ JobTrue(job, runs) /\ job.repeats \in 0..Patience /\ job.blind \in Nat
      /\ Patience \in Nat
  BY DocAssumption DEF DocInv, DocTyped, Jobs
<1>2. PICK n \in Nat : n = IF e.eid = NoneOpt /\ job.at \in {"run", "output"} THEN job.blind + 1 ELSE job.blind
  BY <1>1
<1>3. PICK reply \in [status : ReplyStatuses, body : Bodies] : reply = NoReply /\ reply.status \notin {200, 404}
  BY LostReply
<1> DEFINE j == [job EXCEPT !.error = e, !.reply = reply, !.blind = n]
<1>4. \/ job' = [j EXCEPT !.at = "done"]
      \/ e.variant = "Transient" /\ job.repeats < Patience /\ job' = Again([j EXCEPT !.error = NoError])
  BY <1>2, <1>3 DEF Fail
<1>5. job.blind <= job.repeats
  BY <1>1 DEF JobTrue, BlindCalls
<1>6. Cardinality(Used(runs)) <= job.repeats + 1 /\ Cardinality(Used(runs)) \in Nat
  <2>1. Cardinality(Used(runs)) \in Nat
    BY RunSets DEF Used
  <2> QED
    BY <1>1, <2>1 DEF JobTrue, UsedUp
<1>7. CASE job' = [j EXCEPT !.at = "done"]
  <2>1. /\ job'.at = "done" /\ job'.phase = job.phase /\ job'.reply = reply
        /\ job'.eid = job.eid /\ job'.repeats = job.repeats /\ job'.blind = n
        /\ job'.conversion = job.conversion /\ job'.dedup = job.dedup /\ job'.uploaded = job.uploaded
        /\ job'.error = e /\ job'.output = job.output
        /\ job'.expired = job.expired /\ job'.deadline = job.deadline
        /\ job' \in Jobs
    BY <1>1, <1>7 DEF Jobs
  <2>2. ReplyTrue(job', runs') /\ EidKnown(job', runs') /\ NotYet(job') /\ UsedUp(job', runs')
    BY <1>3, <2>1 DEF ReplyTrue, EidKnown, NotYet, UsedUp
  <2>3. ConversionTrue(job')
    BY <1>1, <2>1 DEF ConversionTrue, JobTrue
  <2>4. BlindCalls(job')
    BY <1>1, <1>2, <1>5, <2>1 DEF BlindCalls
  <2>5. FewForgotten(job', runs')
    <3>1. {job'.eid, Awaited(job')} = {job.eid}
      BY <2>1 DEF Awaited
    <3>2. Cardinality(LiveIn(runs) \ {job.eid}) <= n
      <4>1. n >= job.blind /\ (job.at = "run" => n = job.blind + 1)
        BY <1>1, <1>2
      <4> QED
        BY <4>1, FailForgets
    <3> QED
      BY <2>1, <3>1, <3>2 DEF FewForgotten
  <2>6. Outcome(job', runs')
    <3>1. job.output = "none"
      BY <1>1 DEF JobTrue, NotYet
    <3> QED
      BY <2>1, <3>1 DEF Outcome
  <2> QED
    BY <1>1, <2>1, <2>2, <2>3, <2>4, <2>5, <2>6 DEF DocInv, DocTyped, JobTrue
<1>8. CASE /\ e.variant = "Transient" /\ job.repeats < Patience
           /\ job' = Again([j EXCEPT !.error = NoError])
  <2>1. PICK m \in 0..Patience : m = job.repeats + 1
    BY <1>1, <1>8
  <2>2. NotYet(job) /\ EidKnown(job, runs)
    BY <1>1 DEF JobTrue
  <2>3. CASE job.at \in {"claim", "upload"}
    <3>1. job' = Send([[j EXCEPT !.error = NoError] EXCEPT !.expired = FALSE, !.polling = FALSE,
                                                          !.uploaded = FALSE, !.repeats = m], "claim")
      BY <1>1, <1>8, <2>1, <2>3 DEF Again, Jobs
    <3>2. job' = [[[j EXCEPT !.error = NoError] EXCEPT !.expired = FALSE, !.polling = FALSE,
                                                      !.uploaded = FALSE, !.repeats = m]
                    EXCEPT !.at = "claim", !.phase = "sent", !.reply = reply]
      BY <1>3, <3>1 DEF Send
    <3>3. /\ job'.at = "claim" /\ job'.phase = "sent" /\ job'.eid = job.eid /\ job'.repeats = m
          /\ job'.blind = n /\ job'.conversion = job.conversion /\ job'.uploaded = FALSE
          /\ job'.error = NoError /\ job'.output = job.output /\ job' \in Jobs
      BY <1>1, <3>2, NoErrorTyped DEF Jobs
    <3>4. /\ job.eid = NoneOpt /\ job.conversion = "none" /\ job.output = "none"
      BY <2>2, <2>3 DEF NotYet, EidKnown
    <3>5. /\ ReplyTrue(job', runs') /\ EidKnown(job', runs') /\ NotYet(job') /\ ConversionTrue(job')
          /\ Outcome(job', runs')
      BY <3>3, <3>4 DEF ReplyTrue, EidKnown, NotYet, ConversionTrue, Outcome
    <3>6. UsedUp(job', runs') /\ BlindCalls(job')
      BY <1>1, <1>2, <1>5, <1>6, <2>1, <2>3, <3>3 DEF UsedUp, BlindCalls
    <3>7. FewForgotten(job', runs')
      <4>1. {job'.eid, Awaited(job')} = {job.eid}
        BY <3>3 DEF Awaited
      <4>2. Cardinality(LiveIn(runs) \ {job.eid}) <= n
        <5>1. n >= job.blind /\ job.at # "run"
          BY <1>1, <1>2, <2>3
        <5> QED
          BY <5>1, FailForgets
      <4> QED
        BY <3>3, <4>1, <4>2 DEF FewForgotten
    <3> QED
      BY <1>1, <3>3, <3>5, <3>6, <3>7 DEF DocInv, DocTyped, JobTrue
  <2>4. CASE job.at \in {"run", "output"}
    <3>1. job' = [[j EXCEPT !.error = NoError] EXCEPT !.at = "execute", !.eid = NoneOpt, !.expired = FALSE,
                                                      !.repeats = m]
      BY <1>1, <1>8, <2>1, <2>4 DEF Again, Jobs
    <3>2. /\ job'.at = "execute" /\ job'.phase = job.phase /\ job'.eid = NoneOpt /\ job'.repeats = m
          /\ job'.blind = n /\ job'.conversion = job.conversion /\ job'.reply = reply
          /\ job'.error = NoError /\ job'.output = job.output /\ job' \in Jobs
      BY <1>1, <3>1, NoErrorTyped DEF Jobs, Eids
    <3>3. job.conversion = "none" /\ job.output = "none"
      BY <2>2, <2>4 DEF NotYet
    <3>4. /\ ReplyTrue(job', runs') /\ EidKnown(job', runs') /\ NotYet(job') /\ ConversionTrue(job')
          /\ Outcome(job', runs')
      BY <1>3, <3>2, <3>3 DEF ReplyTrue, EidKnown, NotYet, ConversionTrue, Outcome
    <3>5. UsedUp(job', runs') /\ BlindCalls(job')
      BY <1>1, <1>2, <1>5, <1>6, <2>1, <3>2 DEF UsedUp, BlindCalls
    <3>6. FewForgotten(job', runs')
      <4>1. {job'.eid, Awaited(job')} = {NoneOpt}
        BY <3>2 DEF Awaited
      <4>2. \/ n = job.blind + 1
            \/ job.at = "output" /\ runs[job.eid].status \in Ended /\ n >= job.blind
        BY <1>1, <1>2, <1>8, <2>4 DEF Ended
      <4>3. Cardinality(LiveIn(runs) \ {NoneOpt}) <= n
        BY <1>1, <1>2, <2>4, <4>2, FailForgets
      <4> QED
        BY <3>2, <4>1, <4>3 DEF FewForgotten
    <3> QED
      BY <1>1, <3>2, <3>4, <3>5, <3>6 DEF DocInv, DocTyped, JobTrue
  <2> QED
    BY <1>1, <1>8, <2>3, <2>4 DEF Jobs
<1> QED
  BY <1>4, <1>7, <1>8

\* finalize: what ingest says of the conversion.
LEMMA FinalizeInv ==
  ASSUME DocInv, job.at \in {"claim", "upload"}, job.phase = "back", runs' = runs, blob' = blob,
         NEW dedup \in BOOLEAN, NEW status \in Blobs, Finalize(status, dedup),
         dedup = ~job.uploaded, dedup => status \notin {"pending", "converting"}
  PROVE  DocInv'
<1>1. DocTyped /\ job \in Jobs /\ JobTrue(job, runs)
  BY DEF DocInv, DocTyped
<1>2. CASE status = "failed"
  <2>1. Fail(SdkError("Other", NoStatus, NoneOpt))
    BY <1>2 DEF Finalize
  <2>2. SdkError("Other", NoStatus, NoneOpt) \in JobErrors /\ SdkError("Other", NoStatus, NoneOpt).eid = NoneOpt
    BY DEF SdkError, NoStatus, JobErrors, Variants, Eids
  <2> QED
    BY <2>1, <2>2, FailInv
<1>3. CASE status # "failed"
  <2>1. PICK c \in {"none", "unknown"} \cup Blobs :
          /\ c = ConversionStatus(status) /\ c # "failed"
          /\ c \in {"pending", "converting"} => status \in {"pending", "converting"}
    <3>1. CASE status = "queued"
      <4>1. ConversionStatus(status) = "unknown"
        BY <3>1 DEF ConversionStatus
      <4> QED
        BY <3>1, <4>1
    <3>2. CASE status # "queued"
      <4>1. ConversionStatus(status) = status
        BY <3>2 DEF ConversionStatus
      <4> QED
        BY <1>3, <4>1
    <3> QED
      BY <3>1, <3>2
  <2>2. job' = [job EXCEPT !.at = "execute", !.conversion = c, !.dedup = dedup, !.expired = FALSE,
                           !.polling = FALSE]
    BY <1>3, <2>1 DEF Finalize
  <2>3. /\ job' \in Jobs /\ job'.at = "execute" /\ job'.phase = "back" /\ job'.eid = job.eid
        /\ job'.repeats = job.repeats /\ job'.blind = job.blind /\ job'.error = job.error
        /\ job'.output = job.output /\ job'.conversion = c /\ job'.dedup = dedup
        /\ job'.uploaded = job.uploaded
    <3>1. job' \in Jobs
      <4>1. [job EXCEPT !.at = "execute", !.conversion = c] \in Jobs
        BY <1>1 DEF Jobs
      <4>2. PICK k \in Jobs : k = [job EXCEPT !.at = "execute", !.conversion = c]
        BY <4>1
      <4>3. [k EXCEPT !.dedup = dedup, !.expired = FALSE, !.polling = FALSE] \in Jobs
        BY DEF Jobs
      <4> QED
        BY <2>2, <4>2, <4>3
    <3>2. /\ job'.at = "execute" /\ job'.phase = "back" /\ job'.eid = job.eid
          /\ job'.repeats = job.repeats /\ job'.blind = job.blind /\ job'.error = job.error
          /\ job'.output = job.output
      BY <1>1, <2>2 DEF Jobs
    <3>3. job'.conversion = c /\ job'.dedup = dedup /\ job'.uploaded = job.uploaded
      BY <1>1, <2>2 DEF Jobs
    <3> QED
      BY <3>1, <3>2, <3>3
  <2>4. /\ ReplyTrue(job', runs') /\ EidKnown(job', runs') /\ NotYet(job') /\ ConversionTrue(job')
        /\ Outcome(job', runs')
    BY <1>1, <2>1, <2>3 DEF JobTrue, ReplyTrue, EidKnown, NotYet, ConversionTrue, Outcome
  <2>5. UsedUp(job', runs') /\ BlindCalls(job') /\ FewForgotten(job', runs')
    BY <1>1, <2>3 DEF JobTrue, UsedUp, BlindCalls, FewForgotten, Awaited
  <2> QED
    BY <1>1, <2>3, <2>4, <2>5 DEF DocInv, DocTyped, JobTrue
<1> QED
  BY <1>2, <1>3

LEMMA ClaimAnsweredInv ==
  ASSUME DocInv, ClaimAnswered
  PROVE  DocInv'
<1>1. /\ job.at = "claim" /\ job.phase = "back" /\ blob' = blob /\ runs' = runs
      /\ DocTyped /\ job \in Jobs /\ JobTrue(job, runs)
  BY DEF ClaimAnswered, DocInv, DocTyped
<1>2. HttpError("post") \in JobErrors /\ HttpError("post").eid = NoneOpt
      /\ (HttpError("post") = NoError => job.reply.status = 200)
  BY <1>1, HttpErrors
<1>3. PICK reply \in [status : ReplyStatuses, body : Bodies] : reply = NoReply /\ reply.status \notin {200, 404}
  BY LostReply
<1>4. job.eid = NoneOpt /\ job.error = NoError /\ job.output = "none" /\ job.conversion = "none" /\ ~job.uploaded
  BY <1>1 DEF JobTrue, NotYet, EidKnown
<1>5. CASE HttpError("post") # NoError
  <2>1. Fail(HttpError("post"))
    BY <1>1, <1>5 DEF ClaimAnswered
  <2> QED
    BY <1>1, <1>2, <2>1, FailInv
<1>6. CASE HttpError("post") = NoError /\ job.reply.body.status = "absent"
  <2>1. job' = [job EXCEPT !.at = "upload", !.phase = "sent", !.reply = reply]
    BY <1>3, <1>6 DEF ClaimAnswered, Send
  <2>2. /\ job' \in Jobs /\ job'.at = "upload" /\ job'.phase = "sent" /\ job'.eid = job.eid
        /\ job'.repeats = job.repeats /\ job'.blind = job.blind /\ job'.error = job.error
        /\ job'.output = job.output /\ job'.conversion = job.conversion
    BY <1>1, <2>1 DEF Jobs
  <2> QED
    BY <1>1, <1>4, <2>2 DEF DocInv, DocTyped, JobTrue, ReplyTrue, EidKnown, NotYet, ConversionTrue, UsedUp,
         BlindCalls, FewForgotten, Awaited, Outcome
<1>7. CASE HttpError("post") = NoError /\ job.reply.body.status \in {"converting", "pending"}
  <2>1. CASE job.expired
    <3>1. Fail(SdkError("Transient", NoStatus, NoneOpt))
      BY <1>7, <2>1 DEF ClaimAnswered
    <3>2. SdkError("Transient", NoStatus, NoneOpt) \in JobErrors
          /\ SdkError("Transient", NoStatus, NoneOpt).eid = NoneOpt
      BY DEF SdkError, NoStatus, JobErrors, Variants, Eids
    <3> QED
      BY <1>1, <3>1, <3>2, FailInv
  <2>2. CASE ~job.expired
    <3>1. job' = [[job EXCEPT !.polling = TRUE] EXCEPT !.phase = "nap", !.reply = reply]
      BY <1>3, <1>7, <2>2 DEF ClaimAnswered, Nap
    <3>2. /\ job' \in Jobs /\ job'.at = "claim" /\ job'.phase = "nap" /\ job'.eid = job.eid
          /\ job'.repeats = job.repeats /\ job'.blind = job.blind /\ job'.error = job.error
          /\ job'.output = job.output /\ job'.conversion = job.conversion /\ job'.uploaded = job.uploaded
      BY <1>1, <3>1 DEF Jobs
    <3> QED
      BY <1>1, <1>4, <3>2 DEF DocInv, DocTyped, JobTrue, ReplyTrue, EidKnown, NotYet, ConversionTrue, UsedUp,
           BlindCalls, FewForgotten, Awaited, Outcome
  <2> QED
    BY <2>1, <2>2
<1>8. CASE /\ HttpError("post") = NoError
           /\ job.reply.body.status \notin {"absent", "converting", "pending"}
  <2>1. Finalize(job.reply.body.status, TRUE)
    BY <1>8 DEF ClaimAnswered
  <2>2. job.reply.body.status \in {"text", "queued", "ready", "failed"}
    BY <1>1, <1>2, <1>8 DEF JobTrue, ReplyTrue, Blobs
  <2>3. PICK status \in Blobs : status = job.reply.body.status /\ status \notin {"pending", "converting"}
    BY <2>2 DEF Blobs
  <2>4. Finalize(status, TRUE)
    BY <2>1, <2>3
  <2>5. job.at \in {"claim", "upload"} /\ job.phase = "back" /\ TRUE \in BOOLEAN /\ TRUE = ~job.uploaded
    BY <1>1, <1>4
  <2> QED
    BY <1>1, <2>3, <2>4, <2>5, FinalizeInv
<1> QED
  BY <1>5, <1>6, <1>7, <1>8

LEMMA UploadAnsweredInv ==
  ASSUME DocInv, UploadAnswered
  PROVE  DocInv'
<1>1. /\ job.at = "upload" /\ job.phase = "back" /\ blob' = blob /\ runs' = runs
      /\ DocTyped /\ job \in Jobs /\ JobTrue(job, runs)
  BY DEF UploadAnswered, DocInv, DocTyped
<1>2. HttpError("post") \in JobErrors /\ HttpError("post").eid = NoneOpt
      /\ (HttpError("post") = NoError => job.reply.status = 200)
  BY <1>1, HttpErrors
<1>3. CASE HttpError("post") # NoError
  <2>1. Fail(HttpError("post"))
    BY <1>3 DEF UploadAnswered
  <2> QED
    BY <1>1, <1>2, <2>1, FailInv
<1>4. CASE HttpError("post") = NoError
  <2>1. Finalize(job.reply.body.status, FALSE)
    BY <1>4 DEF UploadAnswered
  <2>2. job.reply.body.status \in Blobs /\ job.uploaded
    BY <1>1, <1>2, <1>4 DEF JobTrue, ReplyTrue
  <2> QED
    BY <1>1, <2>1, <2>2, FinalizeInv
<1> QED
  BY <1>3, <1>4

LEMMA ExecuteInv ==
  ASSUME DocInv, Execute
  PROVE  DocInv'
<1>1. /\ job.at = "execute" /\ blob' = blob /\ runs' = runs
      /\ DocTyped /\ job \in Jobs /\ JobTrue(job, runs) /\ job.phase # "sent"
  BY DEF Execute, DocInv, DocTyped, JobTrue, NotYet
<1>2. PICK reply \in [status : ReplyStatuses, body : Bodies] : reply = NoReply /\ reply.status \notin {200, 404}
  BY LostReply
<1>3. CASE job' = Send([job EXCEPT !.conversion = "none", !.dedup = FALSE, !.uploaded = FALSE], "run")
  <2>1. job' = [[job EXCEPT !.conversion = "none", !.dedup = FALSE, !.uploaded = FALSE]
                 EXCEPT !.at = "run", !.phase = "sent", !.reply = reply]
    BY <1>2, <1>3 DEF Send
  <2>2. /\ job' \in Jobs /\ job'.at = "run" /\ job'.phase = "sent" /\ job'.eid = job.eid
        /\ job'.repeats = job.repeats /\ job'.blind = job.blind /\ job'.error = job.error
        /\ job'.output = job.output /\ job'.conversion = "none"
    BY <1>1, <2>1 DEF Jobs
  <2> QED
    BY <1>1, <2>2 DEF DocInv, DocTyped, JobTrue, ReplyTrue, EidKnown, NotYet, ConversionTrue, UsedUp,
         BlindCalls, FewForgotten, Awaited, Outcome
<1>4. ASSUME NEW v \in {"ScriptSchemaChanged", "ScriptInputMismatch"}, Fail(SdkError(v, NoStatus, NoneOpt))
      PROVE  DocInv'
  <2>1. /\ SdkError(v, NoStatus, NoneOpt) \in JobErrors /\ SdkError(v, NoStatus, NoneOpt).eid = NoneOpt
        /\ SdkError(v, NoStatus, NoneOpt).variant # "Transient"
    BY DEF SdkError, NoStatus, JobErrors, Variants, Eids
  <2> QED
    BY <1>1, <1>4, <2>1, FailInv
<1> QED
  BY <1>3, <1>4 DEF Execute

LEMMA RunAnsweredInv ==
  ASSUME DocInv, RunAnswered
  PROVE  DocInv'
<1>1. /\ job.at = "run" /\ job.phase = "back" /\ blob' = blob /\ runs' = runs
      /\ DocTyped /\ job \in Jobs /\ JobTrue(job, runs)
  BY DEF RunAnswered, DocInv, DocTyped
<1>2. HttpError("post") \in JobErrors /\ HttpError("post").eid = NoneOpt
      /\ (HttpError("post") = NoError => job.reply.status = 200)
  BY <1>1, HttpErrors
<1>3. CASE HttpError("post") # NoError
  <2>1. Fail(HttpError("post"))
    BY <1>3 DEF RunAnswered
  <2> QED
    BY <1>1, <1>2, <2>1, FailInv
<1>4. CASE HttpError("post") = NoError
  <2>1. PICK reply \in [status : ReplyStatuses, body : Bodies] : reply = NoReply /\ reply.status \notin {200, 404}
    BY LostReply
  <2>2. PICK eid \in RunId : eid = job.reply.body.status /\ runs[eid].status # "none"
    BY <1>1, <1>2, <1>4 DEF JobTrue, ReplyTrue
  <2>3. job' = [job EXCEPT !.at = "output", !.phase = "due", !.reply = reply, !.eid = eid]
    BY <1>4, <2>1, <2>2 DEF RunAnswered
  <2>4. /\ job' \in Jobs /\ job'.at = "output" /\ job'.phase = "due" /\ job'.eid = eid
        /\ job'.repeats = job.repeats /\ job'.blind = job.blind /\ job'.error = job.error
        /\ job'.output = job.output /\ job'.conversion = job.conversion
    BY <1>1, <2>3 DEF Jobs, Eids
  <2>5. /\ ReplyTrue(job', runs') /\ EidKnown(job', runs') /\ NotYet(job') /\ ConversionTrue(job')
        /\ Outcome(job', runs')
    BY <1>1, <2>2, <2>4 DEF JobTrue, ReplyTrue, EidKnown, NotYet, ConversionTrue, Outcome
  <2>6. UsedUp(job', runs') /\ BlindCalls(job')
    BY <1>1, <2>4 DEF JobTrue, UsedUp, BlindCalls
  <2>7. FewForgotten(job', runs')
    <3>1. Awaited(job) = eid /\ Awaited(job') = eid
      BY <1>1, <2>2, <2>4 DEF Awaited
    <3>2. LiveIn(runs) \ {job'.eid, Awaited(job')} = LiveIn(runs) \ {job.eid, Awaited(job)}
      <4>1. job.eid = NoneOpt
        BY <1>1 DEF JobTrue, EidKnown
      <4> QED
        BY <2>4, <3>1, <4>1, DocAssumption DEF LiveIn
    <3> QED
      BY <1>1, <2>4, <3>2 DEF JobTrue, FewForgotten
  <2> QED
    BY <1>1, <2>4, <2>5, <2>6, <2>7 DEF DocInv, DocTyped, JobTrue
<1> QED
  BY <1>3, <1>4

LEMMA AwaitTurnInv ==
  ASSUME DocInv, AwaitTurn
  PROVE  DocInv'
<1>1. /\ job.at = "output" /\ job.phase = "due" /\ blob' = blob /\ runs' = runs
      /\ DocTyped /\ job \in Jobs /\ JobTrue(job, runs)
  BY DEF AwaitTurn, DocInv, DocTyped
<1>2. CASE job.deadline /\ job.expired
  <2>1. Fail(SdkError("Timeout", NoStatus, job.eid))
    BY <1>2 DEF AwaitTurn
  <2>2. /\ SdkError("Timeout", NoStatus, job.eid) \in JobErrors
        /\ SdkError("Timeout", NoStatus, job.eid).eid = job.eid
        /\ SdkError("Timeout", NoStatus, job.eid).variant = "Timeout"
    BY <1>1 DEF SdkError, NoStatus, JobErrors, Variants, Jobs
  <2> QED
    BY <1>1, <1>2, <2>1, <2>2, FailInv
<1>3. CASE ~(job.deadline /\ job.expired)
  <2>1. PICK reply \in [status : ReplyStatuses, body : Bodies] : reply = NoReply /\ reply.status \notin {200, 404}
    BY LostReply
  <2>2. job' = [job EXCEPT !.at = "output", !.phase = "sent", !.reply = reply]
    BY <1>3, <2>1 DEF AwaitTurn, Send
  <2>3. /\ job' \in Jobs /\ job'.at = "output" /\ job'.phase = "sent" /\ job'.eid = job.eid
        /\ job'.repeats = job.repeats /\ job'.blind = job.blind /\ job'.error = job.error
        /\ job'.output = job.output /\ job'.conversion = job.conversion
    BY <1>1, <2>2 DEF Jobs
  <2> QED
    BY <1>1, <2>3 DEF DocInv, DocTyped, JobTrue, ReplyTrue, EidKnown, NotYet, ConversionTrue, UsedUp,
         BlindCalls, FewForgotten, Awaited, Outcome
<1> QED
  BY <1>2, <1>3

\* The answer to a poll: not there yet, still going, or the execution's end.
LEMMA OutputAnsweredInv ==
  ASSUME DocInv, OutputAnswered
  PROVE  DocInv'
<1>1. /\ job.at = "output" /\ job.phase = "back" /\ blob' = blob /\ runs' = runs
      /\ DocTyped /\ job \in Jobs /\ JobTrue(job, runs)
  BY DEF OutputAnswered, DocInv, DocTyped
<1>2. /\ HttpError("get_opt") \in JobErrors /\ HttpError("get_opt").eid = NoneOpt
      /\ (HttpError("get_opt") = NoError => job.reply.status \in {200, 404})
  BY <1>1, HttpErrors
<1>3. PICK reply \in [status : ReplyStatuses, body : Bodies] : reply = NoReply /\ reply.status \notin {200, 404}
  BY LostReply
<1>4. /\ job.eid \in RunId /\ runs[job.eid].status # "none" /\ job.error = NoError /\ job.output = "none"
      /\ job.conversion = "none"
  BY <1>1 DEF JobTrue, NotYet, EidKnown
<1>5. CASE HttpError("get_opt") # NoError
  <2>1. Fail(HttpError("get_opt"))
    BY <1>5 DEF OutputAnswered
  <2> QED
    BY <1>1, <1>2, <2>1, FailInv
<1>6. ASSUME job' = Nap(job)
      PROVE  DocInv'
  <2>1. job' = [job EXCEPT !.phase = "nap", !.reply = reply]
    BY <1>3, <1>6 DEF Nap
  <2>2. /\ job' \in Jobs /\ job'.at = "output" /\ job'.phase = "nap" /\ job'.eid = job.eid
        /\ job'.repeats = job.repeats /\ job'.blind = job.blind /\ job'.error = job.error
        /\ job'.output = job.output /\ job'.conversion = job.conversion
    BY <1>1, <2>1 DEF Jobs
  <2> QED
    BY <1>1, <2>2 DEF DocInv, DocTyped, JobTrue, ReplyTrue, EidKnown, NotYet, ConversionTrue, UsedUp,
         BlindCalls, FewForgotten, Awaited, Outcome
<1>7. ASSUME HttpError("get_opt") = NoError, job.reply.status # 404
      PROVE  DocInv'
  <2>1. /\ job.reply.status = 200 /\ job.reply.body \in Records
        /\ job.reply.body.status \in Ended => runs[job.eid] = job.reply.body
    BY <1>1, <1>2, <1>7 DEF JobTrue, ReplyTrue
  <2>2. CASE job.reply.body.status \in {"completed", "suspended"}
    <3>1. PICK output \in {"completed", "suspended"} : output = job.reply.body.status
      BY <2>2
    <3>2. job' = [job EXCEPT !.at = "done", !.output = output, !.reply = reply]
      BY <1>3, <1>7, <2>2, <3>1 DEF OutputAnswered
    <3>3. /\ job' \in Jobs /\ job'.at = "done" /\ job'.phase = "back" /\ job'.reply = reply
          /\ job'.eid = job.eid /\ job'.repeats = job.repeats /\ job'.blind = job.blind
          /\ job'.error = NoError /\ job'.output = output /\ job'.conversion = "none"
      BY <1>1, <1>4, <3>2 DEF Jobs
    <3>4. output = "completed" => runs[job.eid].status = "completed"
      BY <2>1, <3>1 DEF Ended
    <3>5. Outcome(job', runs')
      BY <1>1, <1>4, <3>3, <3>4, NoErrorTyped DEF Outcome
    <3>6. BlindCalls(job')
      <4>1. job.blind \in Nat /\ job.repeats \in Nat
        BY <1>1, DocAssumption DEF Jobs
      <4> QED
        BY <1>1, <3>3, <4>1 DEF JobTrue, BlindCalls
    <3>7. FewForgotten(job', runs')
      BY <1>1, <3>3 DEF JobTrue, FewForgotten, Awaited
    <3> QED
      BY <1>1, <1>3, <3>3, <3>5, <3>6, <3>7 DEF DocInv, DocTyped, JobTrue, ReplyTrue, EidKnown, NotYet,
           ConversionTrue, UsedUp
  <2>3. CASE job.reply.body.status \in {"failed", "cancelled"}
    <3> DEFINE e == ExecutionError(job.reply.body.kind, job.eid)
    <3>1. Fail(e)
      BY <1>7, <2>3 DEF OutputAnswered
    <3>2. e \in JobErrors /\ e.eid = job.eid
      <4>1. job.reply.body.kind \in RecordKinds /\ job.eid \in Eids
        BY <1>1, <2>1 DEF Records, Jobs
      <4>2. StatusOfKind(job.reply.body.kind) \in Nat
        BY DEF StatusOfKind, NoStatus
      <4>3. PICK v \in Variants, n \in Nat : e = [variant |-> v, status |-> n, eid |-> job.eid]
        <5>1. PICK m \in Nat : m = StatusOfKind(job.reply.body.kind)
          BY <4>2
        <5>2. \/ e = [variant |-> "Transient", status |-> m, eid |-> job.eid]
              \/ e = [variant |-> "Fatal", status |-> 0, eid |-> job.eid]
              \/ e = [variant |-> "Script", status |-> 0, eid |-> job.eid]
          BY <5>1 DEF ExecutionError, SdkError, NoStatus
        <5>3. {"Transient", "Fatal", "Script"} \subseteq Variants /\ 0 \in Nat
          BY DEF Variants
        <5> QED
          BY <5>2, <5>3
      <4> QED
        BY <4>1, <4>3 DEF JobErrors
    <3>3. runs[job.eid].status \in {"failed", "cancelled"} /\ e = ExecutionError(runs[job.eid].kind, job.eid)
      BY <2>1, <2>3 DEF Ended
    <3> HIDE DEF e
    <3> QED
      BY <1>1, <3>1, <3>2, <3>3, FailInv
  <2>4. CASE job.reply.body.status \notin {"completed", "suspended", "failed", "cancelled"}
    <3>1. job' = Nap(job)
      BY <1>7, <2>4 DEF OutputAnswered
    <3> QED
      BY <3>1, <1>6
  <2> QED
    BY <2>2, <2>3, <2>4
<1>8. CASE HttpError("get_opt") = NoError /\ job.reply.status = 404
  <2>1. job' = Nap(job)
    BY <1>8 DEF OutputAnswered
  <2> QED
    BY <1>6, <2>1
<1> QED
  BY <1>5, <1>7, <1>8

LEMMA WakeInv ==
  ASSUME DocInv, Wake
  PROVE  DocInv'
<1>1. /\ job.at # "done" /\ job.phase = "nap" /\ blob' = blob /\ runs' = runs
      /\ DocTyped /\ job \in Jobs /\ JobTrue(job, runs)
  BY DEF Wake, DocInv, DocTyped
<1>2. PICK phase \in {"sent", "due"} :
        job' = [job EXCEPT !.phase = phase] /\ (phase = "sent" => job.at = "claim")
  BY DEF Wake
<1>3. /\ job' \in Jobs /\ job'.at = job.at /\ job'.phase = phase /\ job'.eid = job.eid
      /\ job'.repeats = job.repeats /\ job'.blind = job.blind /\ job'.error = job.error
      /\ job'.output = job.output /\ job'.conversion = job.conversion /\ job'.dedup = job.dedup
      /\ job'.uploaded = job.uploaded
  BY <1>1, <1>2 DEF Jobs
<1> QED
  BY <1>1, <1>2, <1>3 DEF DocInv, DocTyped, JobTrue, ReplyTrue, EidKnown, NotYet, ConversionTrue, UsedUp,
       BlindCalls, FewForgotten, Awaited, Outcome

LEMMA ExpireInv ==
  ASSUME DocInv, Expire
  PROVE  DocInv'
<1>1. /\ job.at # "done" /\ blob' = blob /\ runs' = runs /\ job' = [job EXCEPT !.expired = TRUE]
      /\ DocTyped /\ job \in Jobs /\ JobTrue(job, runs)
  BY DEF Expire, DocInv, DocTyped
<1>2. /\ job' \in Jobs /\ job'.at = job.at /\ job'.phase = job.phase /\ job'.eid = job.eid
      /\ job'.repeats = job.repeats /\ job'.blind = job.blind /\ job'.error = job.error
      /\ job'.output = job.output /\ job'.conversion = job.conversion /\ job'.dedup = job.dedup
      /\ job'.uploaded = job.uploaded /\ job'.reply = job.reply
  BY <1>1 DEF Jobs
<1> QED
  BY <1>1, <1>2 DEF DocInv, DocTyped, JobTrue, ReplyTrue, EidKnown, NotYet, ConversionTrue, UsedUp,
       BlindCalls, FewForgotten, Awaited, Outcome

LEMMA DocInvInductive ==
  ASSUME DocInv, [DocNext]_docVars
  PROVE  DocInv'
<1>1. CASE UNCHANGED docVars
  BY <1>1 DEF docVars, DocInv, DocTyped
<1>2. CASE DocNext
  BY <1>2, ServerMovesInv, RefusedInv, ClaimServedInv, UploadServedInv, RunServedInv, OutputServedInv,
     ClaimAnsweredInv, UploadAnsweredInv, ExecuteInv, RunAnsweredInv, AwaitTurnInv, OutputAnsweredInv,
     WakeInv, ExpireInv
     DEF DocNext, JobServed, JobStep
<1> QED
  BY <1>1, <1>2

\* What the job is told is what the invariant knows.
LEMMA DocInvTrue ==
  ASSUME DocInv
  PROVE  OutcomeIsTheExecutions /\ DocTypeOK
<1>1. /\ DocTyped /\ job \in Jobs /\ JobTrue(job, runs) /\ job.repeats \in 0..Patience /\ job.blind \in Nat
      /\ Patience \in Nat
  BY DocAssumption DEF DocInv, DocTyped, Jobs
<1>2. DocTypeOK
  <2>1. job.blind <= job.repeats + 1
    BY <1>1 DEF JobTrue, BlindCalls
  <2> QED
    BY <1>1, <2>1 DEF DocTypeOK, DocTyped, Jobs, Blobs, Eids
<1>3. Cardinality({r \in RunId \ {job.eid} : Live(r)})
        <= job.blind + IF job.at = "run" /\ job.phase = "back" THEN 1 ELSE 0
  <2> DEFINE S == LiveIn(runs) \ {job.eid, Awaited(job)}
             T == {r \in RunId \ {job.eid} : Live(r)}
  <2>1. T = LiveIn(runs) \ {job.eid} /\ S \in SUBSET RunId /\ T \in SUBSET RunId
    BY DEF Live, LiveIn
  <2>2. T \subseteq S \cup {Awaited(job)} /\ (~(job.at = "run" /\ job.phase = "back") => T \subseteq S)
    BY <2>1 DEF Awaited
  <2>3. Cardinality(S) <= job.blind
    BY <1>1 DEF JobTrue, FewForgotten
  <2> HIDE DEF S, T
  <2>4. /\ Cardinality(S) \in Nat /\ Cardinality(T) \in Nat /\ Cardinality(T) <= Cardinality(S) + 1
        /\ ~(job.at = "run" /\ job.phase = "back") => Cardinality(T) <= Cardinality(S)
    BY <2>1, <2>2, OneRunMore, FewerRuns
  <2>5. Cardinality(T) <= job.blind + IF job.at = "run" /\ job.phase = "back" THEN 1 ELSE 0
    BY <1>1, <2>3, <2>4
  <2> QED
    BY <2>5 DEF T
<1>4. OutcomeIsTheExecutions
  BY <1>1, <1>3 DEF JobTrue, ConversionTrue, Outcome, OutcomeIsTheExecutions
<1> QED
  BY <1>2, <1>4
-----------------------------------------------------------------------------
(* The results of a bench run. *)

BenchEvents == {"result", "lagged", "terminal", "broken", "note"}
Frame == [event : BenchEvents, n : Nat]

\* The results among some frames, and those still on their way.
ResultsOf(frames) == {frames[i].n : i \in {k \in DOMAIN frames : frames[k].event = "result"}}
Pending == ResultsOf(body) \cup Members(feed.buffer)

ResultsRise(frames) ==
  \A i, j \in DOMAIN frames :
    i < j /\ frames[i].event = "result" /\ frames[j].event = "result" => frames[i].n < frames[j].n

\* Recorded since the subscription.
Since == (feed.from + 1)..run.published

BenchTyped ==
  /\ run \in [published : 0..Results, ended : BOOLEAN]
  /\ feed \in [buffer : Seq(Nat), lagged : Nat, from : Nat] /\ feed.from <= run.published
  /\ body \in Seq(Frame) /\ got \in Seq(Frame)
  /\ bench \in {"asking", "open", "closed", "refused"}
  /\ Len(feed.buffer) <= MaxBuffer
  /\ \A i \in 1..Len(got) : got[i].event \in {"result", "lagged", "terminal"}

BenchQuiet ==
  bench \in {"asking", "refused"} =>
    body = <<>> /\ got = <<>> /\ feed.buffer = <<>> /\ feed.lagged = 0

\* The last frame is the last one: on its way, and read.
BenchEnding ==
  /\ \A i \in 1..Len(body) : body[i].event \in {"terminal", "broken"} => i = Len(body)
  /\ \A i \in 1..Len(got) :
       got[i].event = "terminal" => i = Len(got) /\ bench = "closed" /\ body = <<>>
  /\ (GotTerminal \/ \E i \in 1..Len(body) : body[i].event = "terminal") =>
        run.ended /\ feed.lagged = 0 /\ feed.buffer = <<>>

\* What was got, the body and the buffer follow each other.
BenchOrder ==
  /\ ResultsRise(got) /\ ResultsRise(body) /\ Increasing(feed.buffer)
  /\ \A m \in ResultsOf(got), n \in Pending : m < n
  /\ \A m \in ResultsOf(body), n \in Members(feed.buffer) : m < n
  /\ ResultsOf(got) \subseteq Since \ Odd
  /\ Pending \subseteq Since

(***************************************************************************)
(* Every result is accounted for once, those that do not decode at most    *)
(* once.                                                                   *)
(***************************************************************************)
BenchAll == AccountedIn(got) + AccountedIn(body) + feed.lagged + Len(feed.buffer)

BenchCounted ==
  /\ BenchAll <= run.published - feed.from
  /\ bench = "open" \/ GotTerminal =>
       run.published - feed.from <= BenchAll + Cardinality((Odd \cap Since) \ Pending)

BenchInv == BenchTyped /\ BenchQuiet /\ BenchEnding /\ BenchOrder /\ BenchCounted

-----------------------------------------------------------------------------
(* Frames appended and read. *)

LEMMA AccountsNat ==
  ASSUME NEW f \in Frame
  PROVE  Accounts(f) \in Nat
BY DEF Accounts, Frame

LEMMA AccountedNone == AccountedIn(<<>>) = 0
BY SumOfNone DEF AccountedIn

LEMMA AccountedNat ==
  ASSUME NEW s \in Seq(Frame)
  PROVE  AccountedIn(s) \in Nat
<1> DEFINE u == [i \in DOMAIN s |-> Accounts(s[i])]
<1>1. \A i \in 1..Len(s) : u[i] \in Nat
  BY AccountsNat
<1>2. Len(s) \in Nat
  OBVIOUS
<1> HIDE DEF u
<1>3. Sum(u, Len(s)) \in Nat
  BY <1>1, <1>2, SumIsNatural
<1> QED
  BY <1>3 DEF AccountedIn, u

LEMMA AccountedAppend ==
  ASSUME NEW s \in Seq(Frame), NEW f \in Frame
  PROVE  AccountedIn(Append(s, f)) = AccountedIn(s) + Accounts(f)
<1> DEFINE u == [i \in DOMAIN s |-> Accounts(s[i])]
           v == [i \in DOMAIN Append(s, f) |-> Accounts(Append(s, f)[i])]
           n == Len(s)
<1>1. n \in Nat /\ Len(Append(s, f)) = n + 1
  OBVIOUS
<1>2. \A i \in 1..n : v[i] = u[i]
  OBVIOUS
<1>3. v[n + 1] = Accounts(f)
  OBVIOUS
<1>4. AccountedIn(s) = Sum(u, n) /\ AccountedIn(Append(s, f)) = Sum(v, n + 1)
  BY <1>1 DEF AccountedIn
<1> HIDE DEF u, v, n
<1>5. Sum(v, n + 1) = Sum(v, n) + v[n + 1] /\ Sum(v, n) = Sum(u, n)
  BY <1>1, <1>2, SumOfMore, SumOfSame
<1> QED
  BY <1>3, <1>4, <1>5

LEMMA AccountedTail ==
  ASSUME NEW s \in Seq(Frame), s # <<>>
  PROVE  AccountedIn(s) = Accounts(Head(s)) + AccountedIn(Tail(s))
<1> DEFINE u == [i \in DOMAIN s |-> Accounts(s[i])]
           v == [i \in DOMAIN Tail(s) |-> Accounts(Tail(s)[i])]
           n == Len(Tail(s))
<1>1. /\ Tail(s) \in Seq(Frame) /\ n \in Nat /\ Len(s) = n + 1 /\ Head(s) = s[1]
      /\ \A i \in 1..n : Tail(s)[i] = s[i + 1]
  BY HeadTailProperties
<1>2. \A i \in 1..n : v[i] = u[i + 1]
  BY <1>1
<1>3. \A i \in 1..(n + 1) : u[i] \in Nat
  BY <1>1, AccountsNat
<1>4. u[1] = Accounts(Head(s))
  BY <1>1
<1>5. AccountedIn(s) = Sum(u, n + 1) /\ AccountedIn(Tail(s)) = Sum(v, n)
  BY <1>1 DEF AccountedIn
<1> HIDE DEF u, v, n
<1>6. Sum(u, n + 1) = u[1] + Sum(v, n)
  BY <1>1, <1>2, <1>3, SumOfRest
<1> QED
  BY <1>4, <1>5, <1>6

\* The result a frame carries.
ResultIn(f) == IF f.event = "result" THEN {f.n} ELSE {}

LEMMA ResultsNone == ResultsOf(<<>>) = {} /\ ResultsRise(<<>>)
BY DEF ResultsOf, ResultsRise

LEMMA ResultsAppend ==
  ASSUME NEW s \in Seq(Frame), NEW f \in Frame
  PROVE  /\ ResultsOf(Append(s, f)) = ResultsOf(s) \cup ResultIn(f)
         /\ ResultsRise(s) /\ (\A m \in ResultsOf(s), n \in ResultIn(f) : m < n) => ResultsRise(Append(s, f))
<1>1. /\ DOMAIN s = 1..Len(s) /\ Len(s) \in Nat
      /\ DOMAIN Append(s, f) = 1..(Len(s) + 1)
      /\ \A i \in 1..Len(s) : Append(s, f)[i] = s[i]
      /\ Append(s, f)[Len(s) + 1] = f
  OBVIOUS
<1>2. ResultsOf(Append(s, f)) = ResultsOf(s) \cup ResultIn(f)
  <2>1. ASSUME NEW i \in 1..(Len(s) + 1), Append(s, f)[i].event = "result"
        PROVE  Append(s, f)[i].n \in ResultsOf(s) \cup ResultIn(f)
    <3>1. CASE i \in 1..Len(s)
      BY <1>1, <2>1, <3>1 DEF ResultsOf
    <3>2. CASE i = Len(s) + 1
      BY <1>1, <2>1, <3>2 DEF ResultIn
    <3> QED
      BY <1>1, <3>1, <3>2
  <2>2. ASSUME NEW i \in 1..Len(s), s[i].event = "result"
        PROVE  s[i].n \in ResultsOf(Append(s, f))
    <3>1. i \in 1..(Len(s) + 1) /\ Append(s, f)[i] = s[i]
      BY <1>1
    <3> QED
      BY <1>1, <2>2, <3>1 DEF ResultsOf
  <2>3. ResultIn(f) \subseteq ResultsOf(Append(s, f))
    <3>1. Len(s) + 1 \in 1..(Len(s) + 1)
      BY <1>1
    <3> QED
      BY <1>1, <3>1 DEF ResultsOf, ResultIn
  <2> QED
    BY <1>1, <2>1, <2>2, <2>3 DEF ResultsOf
<1>3. ASSUME ResultsRise(s), \A m \in ResultsOf(s), n \in ResultIn(f) : m < n
      PROVE  ResultsRise(Append(s, f))
  <2> SUFFICES ASSUME NEW i \in 1..(Len(s) + 1), NEW j \in 1..(Len(s) + 1), i < j,
                      Append(s, f)[i].event = "result", Append(s, f)[j].event = "result"
               PROVE  Append(s, f)[i].n < Append(s, f)[j].n
    BY <1>1 DEF ResultsRise
  <2>1. i \in 1..Len(s) /\ Append(s, f)[i] = s[i] /\ s[i].n \in ResultsOf(s)
    BY <1>1 DEF ResultsOf
  <2>2. CASE j \in 1..Len(s)
    BY <1>1, <1>3, <2>1, <2>2 DEF ResultsRise
  <2>3. CASE j = Len(s) + 1
    BY <1>1, <1>3, <2>1, <2>3 DEF ResultIn
  <2> QED
    BY <1>1, <2>2, <2>3
<1> QED
  BY <1>2, <1>3

LEMMA ResultsTail ==
  ASSUME NEW s \in Seq(Frame), s # <<>>, ResultsRise(s)
  PROVE  /\ ResultsOf(s) = ResultIn(Head(s)) \cup ResultsOf(Tail(s))
         /\ ResultsRise(Tail(s))
         /\ \A m \in ResultIn(Head(s)), n \in ResultsOf(Tail(s)) : m < n
<1>1. /\ DOMAIN s = 1..Len(s) /\ Len(s) \in Nat \ {0}
      /\ Tail(s) \in Seq(Frame) /\ DOMAIN Tail(s) = 1..(Len(s) - 1)
      /\ \A i \in 1..(Len(s) - 1) : Tail(s)[i] = s[i + 1]
      /\ Head(s) = s[1]
  BY HeadTailProperties
<1>2. ResultsOf(s) = ResultIn(Head(s)) \cup ResultsOf(Tail(s))
  <2>1. ASSUME NEW i \in 1..Len(s), s[i].event = "result"
        PROVE  s[i].n \in ResultIn(Head(s)) \cup ResultsOf(Tail(s))
    <3>1. CASE i = 1
      BY <1>1, <2>1, <3>1 DEF ResultIn
    <3>2. CASE i # 1
      <4>1. i - 1 \in 1..(Len(s) - 1) /\ Tail(s)[i - 1] = s[i]
        BY <1>1, <3>2
      <4> QED
        BY <1>1, <2>1, <4>1 DEF ResultsOf
    <3> QED
      BY <3>1, <3>2
  <2>2. ASSUME NEW i \in 1..(Len(s) - 1), Tail(s)[i].event = "result"
        PROVE  Tail(s)[i].n \in ResultsOf(s)
    <3>1. i + 1 \in 1..Len(s) /\ Tail(s)[i] = s[i + 1]
      BY <1>1
    <3> QED
      BY <1>1, <2>2, <3>1 DEF ResultsOf
  <2>3. ResultIn(Head(s)) \subseteq ResultsOf(s)
    <3>1. 1 \in DOMAIN s
      BY <1>1
    <3> QED
      BY <1>1, <3>1 DEF ResultsOf, ResultIn
  <2> QED
    BY <1>1, <2>1, <2>2, <2>3 DEF ResultsOf
<1>3. ResultsRise(Tail(s))
  <2> SUFFICES ASSUME NEW i \in 1..(Len(s) - 1), NEW j \in 1..(Len(s) - 1), i < j,
                      Tail(s)[i].event = "result", Tail(s)[j].event = "result"
               PROVE  Tail(s)[i].n < Tail(s)[j].n
    BY <1>1 DEF ResultsRise
  <2>1. /\ i + 1 \in 1..Len(s) /\ j + 1 \in 1..Len(s) /\ i + 1 < j + 1
        /\ Tail(s)[i] = s[i + 1] /\ Tail(s)[j] = s[j + 1]
    BY <1>1
  <2> QED
    BY <1>1, <2>1 DEF ResultsRise
<1>4. ASSUME s[1].event = "result", NEW i \in 1..(Len(s) - 1), Tail(s)[i].event = "result"
      PROVE  s[1].n < Tail(s)[i].n
  <2>1. 1 \in 1..Len(s) /\ i + 1 \in 1..Len(s) /\ 1 < i + 1 /\ Tail(s)[i] = s[i + 1]
    BY <1>1
  <2> QED
    BY <1>1, <1>4, <2>1 DEF ResultsRise
<1> QED
  BY <1>1, <1>2, <1>3, <1>4 DEF ResultIn, ResultsOf

-----------------------------------------------------------------------------
(* One step of the bench run. *)

LEMMA BenchInitInv ==
  ASSUME BenchInit
  PROVE  BenchInv
<1>1. BenchTyped
  BY BenchAssumption DEF BenchInit, BenchTyped
<1>2. BenchQuiet /\ BenchEnding
  BY DEF BenchInit, BenchQuiet, BenchEnding, GotTerminal
<1>3. Pending = {}
  BY ResultsNone DEF BenchInit, Pending, Members
<1>4. BenchOrder
  BY <1>3, ResultsNone DEF BenchInit, BenchOrder, Members, Increasing
<1>5. BenchAll = 0
  BY AccountedNone DEF BenchInit, BenchAll
<1>6. run.published = 0 /\ feed.from = 0 /\ bench # "open" /\ ~GotTerminal
  BY DEF BenchInit, GotTerminal
<1>7. BenchCounted
  BY <1>5, <1>6 DEF BenchCounted
<1> QED
  BY <1>1, <1>2, <1>4, <1>7 DEF BenchInv

\* A larger set of results that may go missing leaves more room.
LEMMA MissingGrows ==
  ASSUME NEW a \in Nat, NEW b \in Nat, NEW T, NEW S, S \subseteq T, T \subseteq (a + 1)..b
  PROVE  /\ IsFiniteSet(T) /\ IsFiniteSet(S)
         /\ Cardinality(S) \in Nat /\ Cardinality(T) \in Nat /\ Cardinality(S) <= Cardinality(T)
<1>1. IsFiniteSet((a + 1)..b)
  BY FS_Interval
<1>2. IsFiniteSet(T) /\ IsFiniteSet(S)
  BY <1>1, FS_Subset
<1> QED
  BY <1>2, FS_Subset, FS_CardinalityType

LEMMA NextInterval ==
  ASSUME NEW a \in Nat, NEW b \in Nat, a <= b
  PROVE  (a + 1)..(b + 1) = ((a + 1)..b) \cup {b + 1} /\ \A m \in (a + 1)..b : m < b + 1
OBVIOUS

\* The counters of a state are numbers.
LEMMA BenchNumbers ==
  ASSUME BenchTyped
  PROVE  /\ AccountedIn(got) \in Nat /\ AccountedIn(body) \in Nat /\ Len(feed.buffer) \in Nat
         /\ feed.lagged \in Nat /\ feed.from \in Nat /\ run.published \in Nat
<1>1. run.published \in 0..Results /\ Results \in Nat
  BY BenchAssumption DEF BenchTyped
<1>2. body \in Seq(Frame) /\ got \in Seq(Frame)
  BY DEF BenchTyped
<1> QED
  BY <1>1, <1>2, AccountedNat DEF BenchTyped

(***************************************************************************)
(* A result is recorded for a subscriber: the oldest one makes room, and   *)
(* counts as lost.                                                         *)
(***************************************************************************)
LEMMA RecordInv ==
  ASSUME BenchInv, RecordResult
  PROVE  BenchInv'
<1> DEFINE p == run.published + 1
           full == Len(feed.buffer) = MaxBuffer
           kept == IF full THEN Tail(feed.buffer) ELSE feed.buffer
<1>1. BenchTyped /\ BenchQuiet /\ BenchEnding /\ BenchOrder /\ BenchCounted
  BY DEF BenchInv
<1>2. /\ ~run.ended /\ run.published < Results /\ run' = [run EXCEPT !.published = p]
      /\ body' = body /\ bench' = bench /\ got' = got
  BY DEF RecordResult
<1>3. /\ run'.published = p /\ run'.ended = run.ended /\ run' \in [published : 0..Results, ended : BOOLEAN]
      /\ p \in Nat
  BY <1>1, <1>2, BenchAssumption DEF BenchTyped
<1>4. ~GotTerminal /\ ~(\E i \in 1..Len(body) : body[i].event = "terminal")
  BY <1>1, <1>2 DEF BenchEnding
<1>5. ~GotTerminal' /\ ~(\E i \in 1..Len(body') : body'[i].event = "terminal")
  BY <1>2, <1>4 DEF GotTerminal
<1>6. ResultsOf(body') = ResultsOf(body) /\ ResultsOf(got') = ResultsOf(got)
  BY <1>2 DEF ResultsOf
<1>7. CASE bench # "open"
  <2>1. feed' = feed
    BY <1>7 DEF RecordResult
  <2>2. BenchTyped'
    BY <1>1, <1>2, <1>3, <2>1, BenchAssumption DEF BenchTyped
  <2>3. BenchQuiet' /\ BenchEnding'
    BY <1>1, <1>2, <1>5, <2>1 DEF BenchQuiet, BenchEnding
  <2>4. Pending' = Pending /\ Since \subseteq Since'
    <3>1. feed.from \in Nat /\ run.published \in Nat
      BY <1>1, BenchNumbers
    <3> QED
      BY <1>3, <1>6, <2>1, <3>1 DEF Pending, Since
  <2>5. BenchOrder'
    BY <1>1, <1>2, <1>6, <2>1, <2>4 DEF BenchOrder, ResultsRise
  <2>6. BenchCounted'
    <3>1. BenchAll' = BenchAll
      BY <1>2, <2>1 DEF BenchAll
    <3>2. BenchAll \in Nat /\ run.published \in Nat /\ feed.from \in Nat
      BY <1>1, BenchNumbers DEF BenchAll
    <3> QED
      BY <1>1, <1>2, <1>3, <1>5, <1>7, <2>1, <3>1, <3>2 DEF BenchCounted
  <2> QED
    BY <2>2, <2>3, <2>5, <2>6 DEF BenchInv
<1>8. CASE bench = "open"
  <2>0. feed' = [feed EXCEPT !.buffer = Append(kept, p), !.lagged = IF full THEN feed.lagged + 1 ELSE feed.lagged]
    BY <1>3, <1>8 DEF RecordResult
  <2>1. /\ feed.buffer \in Seq(Nat) /\ feed.lagged \in Nat /\ feed.from \in Nat
        /\ feed'.from = feed.from /\ feed'.buffer = Append(kept, p)
        /\ feed'.lagged = IF full THEN feed.lagged + 1 ELSE feed.lagged
    BY <1>1, <2>0 DEF BenchTyped
  <2>2. /\ kept \in Seq(Nat) /\ Members(kept) \subseteq Members(feed.buffer) /\ Increasing(kept)
        /\ Len(kept) = IF full THEN Len(feed.buffer) - 1 ELSE Len(feed.buffer)
        /\ Len(kept) < MaxBuffer
    <3>1. Len(feed.buffer) <= MaxBuffer /\ Increasing(feed.buffer) /\ MaxBuffer \in Nat \ {0}
      BY <1>1, BenchAssumption DEF BenchTyped, BenchOrder
    <3>2. CASE full
      <4>1. feed.buffer # <<>>
        BY <2>1, <3>1, <3>2
      <4>2. Tail(feed.buffer) \in Seq(Nat) /\ Len(Tail(feed.buffer)) = Len(feed.buffer) - 1
        BY <2>1, <4>1, HeadTailProperties
      <4>3. Members(Tail(feed.buffer)) \subseteq Members(feed.buffer)
        BY <2>1, <4>1, TailSet
      <4>4. Increasing(Tail(feed.buffer))
        BY <2>1, <3>1, <4>1, IncreasingTail
      <4> QED
        BY <2>1, <3>1, <3>2, <4>2, <4>3, <4>4
    <3>3. CASE ~full
      <4>1. Len(feed.buffer) \in Nat
        BY <2>1
      <4> QED
        BY <2>1, <3>1, <3>3, <4>1
    <3> QED
      BY <3>2, <3>3
  <2> HIDE DEF kept
  <2>3. BenchTyped'
    <3>1. Append(kept, p) \in Seq(Nat) /\ Len(Append(kept, p)) = Len(kept) + 1 /\ Len(kept) \in Nat
      BY <1>3, <2>2
    <3>2. feed' \in [buffer : Seq(Nat), lagged : Nat, from : Nat]
      <4>1. PICK l \in Nat : l = IF full THEN feed.lagged + 1 ELSE feed.lagged
        BY <2>1
      <4>2. feed' = [feed EXCEPT !.buffer = Append(kept, p), !.lagged = l]
        BY <2>0, <4>1
      <4> QED
        BY <1>1, <3>1, <4>2 DEF BenchTyped
    <3>3. feed.from <= p /\ Len(Append(kept, p)) <= MaxBuffer
      BY <1>1, <1>3, <2>1, <2>2, <3>1, BenchAssumption DEF BenchTyped
    <3> QED
      BY <1>1, <1>2, <1>3, <2>1, <3>2, <3>3 DEF BenchTyped
  <2>4. BenchQuiet' /\ BenchEnding'
    BY <1>1, <1>2, <1>5, <1>8 DEF BenchQuiet, BenchEnding
  <2>5. Members(feed'.buffer) = Members(kept) \cup {p}
    BY <1>3, <2>1, <2>2, AppendSet
  <2>6. Since' = Since \cup {p} /\ \A m \in Since : m < p
    <3>1. run.published \in Nat /\ feed.from \in Nat /\ feed.from <= run.published
      BY <1>1, BenchNumbers DEF BenchTyped
    <3>2. Since' = (feed.from + 1)..p
      BY <1>3, <2>1 DEF Since
    <3> QED
      BY <3>1, <3>2, NextInterval DEF Since
  <2>7. Pending' = ResultsOf(body) \cup Members(kept) \cup {p}
    BY <1>6, <2>5 DEF Pending
  <2>8. BenchOrder'
    <3>1. /\ ResultsRise(got) /\ ResultsRise(body)
          /\ \A m \in ResultsOf(got), n \in Pending : m < n
          /\ \A m \in ResultsOf(body), n \in Members(feed.buffer) : m < n
          /\ ResultsOf(got) \subseteq Since \ Odd /\ Pending \subseteq Since
      BY <1>1 DEF BenchOrder
    <3>2. Members(kept) \subseteq Pending /\ ResultsOf(body) \subseteq Pending
      BY <2>2 DEF Pending
    <3>3. Increasing(feed'.buffer)
      <4>1. \A i \in 1..Len(kept) : kept[i] \in Members(kept)
        BY <2>2 DEF Members
      <4>2. \A i \in 1..Len(kept) : kept[i] < p
        BY <2>6, <3>1, <3>2, <4>1
      <4> QED
        BY <1>3, <2>1, <2>2, <4>2, IncreasingAppend
    <3>4. ResultsRise(got') /\ ResultsRise(body')
      BY <1>2, <3>1 DEF ResultsRise
    <3>5. \A m \in ResultsOf(got'), n \in Pending' : m < n
      BY <1>6, <2>6, <2>7, <3>1, <3>2
    <3>6. \A m \in ResultsOf(body'), n \in Members(feed'.buffer) : m < n
      BY <1>6, <2>2, <2>5, <2>6, <3>1, <3>2
    <3>7. ResultsOf(got') \subseteq Since' \ Odd /\ Pending' \subseteq Since'
      BY <1>6, <2>6, <2>7, <3>1, <3>2
    <3> QED
      BY <3>3, <3>4, <3>5, <3>6, <3>7 DEF BenchOrder
  <2>9. BenchCounted'
    <3> DEFINE S == (Odd \cap Since) \ Pending
               T == (Odd \cap Since') \ Pending'
    <3>1. S \subseteq T
      <4>1. ASSUME NEW x \in Since, x \notin Pending
            PROVE  x \in Since' /\ x \notin Pending'
        <5>1. x \notin ResultsOf(body) /\ x \notin Members(kept)
          BY <2>2, <4>1 DEF Pending
        <5>2. x # p
          BY <1>3, <2>6, <4>1
        <5> QED
          BY <2>6, <2>7, <5>1, <5>2
      <4> QED
        BY <4>1
    <3>2. Cardinality(S) \in Nat /\ Cardinality(T) \in Nat /\ Cardinality(S) <= Cardinality(T)
      <4>1. T \subseteq (feed.from + 1)..p
        BY <1>3, <2>1 DEF Since
      <4> QED
        BY <1>3, <2>1, <3>1, <4>1, MissingGrows
    <3>3. Len(feed'.buffer) = Len(kept) + 1 /\ Len(kept) \in Nat
      BY <1>3, <2>1, <2>2
    <3>4. AccountedIn(got') = AccountedIn(got) /\ AccountedIn(body') = AccountedIn(body)
      BY <1>2
    <3> HIDE DEF S, T
    <3>5. BenchAll' = BenchAll + 1 /\ BenchAll \in Nat
      <4>1. /\ AccountedIn(got) \in Nat /\ AccountedIn(body) \in Nat /\ Len(feed.buffer) \in Nat
            /\ feed.lagged \in Nat
        BY <1>1, BenchNumbers
      <4>2. Len(feed'.buffer) + feed'.lagged = Len(feed.buffer) + feed.lagged + 1
        BY <2>1, <2>2, <3>3, <4>1
      <4>3. BenchAll' = AccountedIn(got) + AccountedIn(body) + feed'.lagged + Len(feed'.buffer)
        BY <3>4 DEF BenchAll
      <4>4. Len(feed'.buffer) \in Nat /\ feed'.lagged \in Nat
        BY <2>1, <3>3
      <4>5. BenchAll = AccountedIn(got) + AccountedIn(body) + feed.lagged + Len(feed.buffer)
        BY DEF BenchAll
      <4> HIDE DEF full
      <4>6. BenchAll \in Nat
        BY <4>1, <4>5
      <4>7. AccountedIn(got) + AccountedIn(body) + feed'.lagged + Len(feed'.buffer)
              = (AccountedIn(got) + AccountedIn(body) + feed.lagged + Len(feed.buffer)) + 1
        <5>1. PICK g \in Nat, b \in Nat, l \in Nat, n \in Nat, l2 \in Nat, n2 \in Nat :
                /\ g = AccountedIn(got) /\ b = AccountedIn(body) /\ l = feed.lagged /\ l2 = feed'.lagged
                /\ n = Len(feed.buffer) /\ n2 = Len(feed'.buffer)
          BY <4>1, <4>4
        <5>2. n2 + l2 = n + l + 1
          BY <4>2, <5>1, Zenon
        <5>3. g + b + l2 + n2 = (g + b + l + n) + 1
          BY <5>2
        <5> QED
          BY <5>1, <5>3, Zenon
      <4>8. BenchAll' = BenchAll + 1
        BY <4>3, <4>5, <4>7, Zenon
      <4> QED
        BY <4>6, <4>8
    <3>6. /\ BenchAll <= run.published - feed.from
          /\ run.published - feed.from <= BenchAll + Cardinality(S)
      BY <1>1, <1>8 DEF BenchCounted, S
    <3>7. run.published \in Nat /\ feed.from \in Nat
      BY <1>1, BenchNumbers
    <3>8. /\ BenchAll' <= run'.published - feed'.from
          /\ run'.published - feed'.from <= BenchAll' + Cardinality(T)
      BY <1>3, <2>1, <3>2, <3>5, <3>6, <3>7
    <3> QED
      BY <3>8 DEF BenchCounted, T
  <2> QED
    BY <2>3, <2>4, <2>8, <2>9 DEF BenchInv
<1> QED
  BY <1>7, <1>8

LEMMA RunEndsInv ==
  ASSUME BenchInv, RunEnds
  PROVE  BenchInv'
<1>1. /\ run' = [run EXCEPT !.ended = TRUE] /\ feed' = feed /\ body' = body /\ bench' = bench /\ got' = got
  BY DEF RunEnds
<1>2. BenchTyped /\ BenchQuiet /\ BenchEnding /\ BenchOrder /\ BenchCounted
  BY DEF BenchInv
<1>3. run'.published = run.published /\ run'.ended = TRUE /\ run' \in [published : 0..Results, ended : BOOLEAN]
  BY <1>1, <1>2 DEF BenchTyped
<1>4. GotTerminal' = GotTerminal /\ Pending' = Pending /\ Since' = Since /\ BenchAll' = BenchAll
  BY <1>1, <1>3 DEF GotTerminal, Pending, Since, BenchAll, ResultsOf
<1>5. BenchTyped' /\ BenchQuiet' /\ BenchEnding'
  BY <1>1, <1>2, <1>3, <1>4 DEF BenchTyped, BenchQuiet, BenchEnding
<1>6. BenchOrder'
  BY <1>1, <1>2, <1>3, <1>4 DEF BenchOrder, ResultsOf, ResultsRise
<1>7. BenchCounted'
  BY <1>1, <1>2, <1>3, <1>4 DEF BenchCounted
<1> QED
  BY <1>5, <1>6, <1>7 DEF BenchInv

LEMMA PlusAssociative ==
  ASSUME NEW a \in Nat, NEW b \in Nat, NEW c \in Nat, NEW d \in Nat
  PROVE  a + b + c + d = a + b + (c + d)
OBVIOUS

(***************************************************************************)
(* The server writes a frame: it accounts for what leaves the buffer and   *)
(* the count of lost results.                                              *)
(***************************************************************************)
LEMMA FrameWritten ==
  ASSUME BenchInv, bench = "open", ~Over, NEW f \in Frame, body' = Append(body, f),
         run' = run, bench' = bench, got' = got,
         feed' \in [buffer : Seq(Nat), lagged : Nat, from : Nat], feed'.from = feed.from,
         Len(feed'.buffer) <= MaxBuffer, Increasing(feed'.buffer),
         Accounts(f) + feed'.lagged + Len(feed'.buffer) = feed.lagged + Len(feed.buffer),
         ResultIn(f) \cup Members(feed'.buffer) = Members(feed.buffer),
         \A m \in ResultIn(f), n \in Members(feed'.buffer) : m < n,
         f.event = "terminal" => run.ended /\ feed'.lagged = 0 /\ feed'.buffer = <<>>
  PROVE  BenchInv'
<1>1. BenchTyped /\ BenchQuiet /\ BenchEnding /\ BenchOrder /\ BenchCounted
  BY DEF BenchInv
<1>2. /\ body \in Seq(Frame) /\ got \in Seq(Frame) /\ Len(body) \in Nat
      /\ DOMAIN body = 1..Len(body) /\ Len(body') = Len(body) + 1 /\ body' \in Seq(Frame)
      /\ \A i \in 1..Len(body) : body'[i] = body[i]
      /\ body'[Len(body) + 1] = f
  BY <1>1 DEF BenchTyped
<1>3. ~GotTerminal /\ ~GotTerminal'
  <2>1. got # <<>> => Len(got) \in 1..Len(got)
    BY <1>2
  <2>2. ~GotTerminal
    BY <1>1, <2>1 DEF BenchEnding, GotTerminal
  <2> QED
    BY <2>2 DEF GotTerminal
<1>4. BenchTyped'
  BY <1>1, <1>2 DEF BenchTyped
<1>5. BenchQuiet'
  BY DEF BenchQuiet
<1>6. BenchEnding'
  <2>1. \A i \in 1..Len(body) : body[i].event \notin {"terminal", "broken"}
    BY <1>2 DEF Over
  <2>2. ASSUME NEW i \in 1..Len(body'), body'[i].event \in {"terminal", "broken"}
        PROVE  i = Len(body') /\ body'[i] = f
    BY <1>2, <2>1, <2>2
  <2>3. \A i \in 1..Len(got') : got'[i].event # "terminal"
    BY <1>1, <1>2 DEF BenchEnding
  <2> QED
    BY <1>3, <2>2, <2>3 DEF BenchEnding
<1>7. ResultsOf(body') = ResultsOf(body) \cup ResultIn(f) /\ ResultsOf(got') = ResultsOf(got)
  BY <1>2, ResultsAppend
<1>8. Pending' = Pending /\ Since' = Since
  BY <1>7 DEF Pending, Since
<1>9. BenchOrder'
  <2>1. /\ ResultsRise(got) /\ ResultsRise(body)
        /\ \A m \in ResultsOf(got), n \in Pending : m < n
        /\ \A m \in ResultsOf(body), n \in Members(feed.buffer) : m < n
        /\ ResultsOf(got) \subseteq Since \ Odd /\ Pending \subseteq Since
    BY <1>1 DEF BenchOrder
  <2>2. ResultsRise(body')
    <3>1. \A m \in ResultsOf(body), n \in ResultIn(f) : m < n
      BY <2>1
    <3> QED
      BY <1>2, <2>1, <3>1, ResultsAppend
  <2>3. \A m \in ResultsOf(body'), n \in Members(feed'.buffer) : m < n
    BY <1>7, <2>1
  <2>4. ResultsRise(got')
    BY <2>1 DEF ResultsRise
  <2> QED
    BY <1>7, <1>8, <2>1, <2>2, <2>3, <2>4 DEF BenchOrder
<1>10. BenchAll' = BenchAll
  <2>1. AccountedIn(body') = AccountedIn(body) + Accounts(f) /\ Accounts(f) \in Nat
    BY <1>2, AccountedAppend, AccountsNat
  <2>2. /\ AccountedIn(got) \in Nat /\ AccountedIn(body) \in Nat /\ Len(feed.buffer) \in Nat
        /\ feed.lagged \in Nat /\ feed'.lagged \in Nat /\ Len(feed'.buffer) \in Nat
    BY <1>1, BenchNumbers
  <2>3. PICK a \in Nat, g \in Nat, b \in Nat, l \in Nat, n \in Nat, l2 \in Nat, n2 \in Nat :
          /\ g = AccountedIn(got) /\ b = AccountedIn(body) /\ l = feed.lagged /\ l2 = feed'.lagged
          /\ n = Len(feed.buffer) /\ n2 = Len(feed'.buffer) /\ a = Accounts(f)
    BY <2>1, <2>2
  <2>4. a + l2 + n2 = l + n
    BY <2>3, Zenon
  <2>5. g + (b + a) + l2 + n2 = g + b + l + n
    <3>1. /\ a \in Nat /\ g \in Nat /\ b \in Nat /\ l \in Nat /\ n \in Nat /\ l2 \in Nat /\ n2 \in Nat
          /\ a + l2 + n2 = l + n
      BY <2>4, Zenon
    <3> QED
      BY ONLY <3>1
  <2>6. BenchAll = g + b + l + n
    BY <2>3, Zenon DEF BenchAll
  <2>7. BenchAll' = g + (b + a) + l2 + n2
    <3>1. BenchAll' = AccountedIn(got) + AccountedIn(body') + feed'.lagged + Len(feed'.buffer)
      BY DEF BenchAll
    <3> QED
      BY <2>1, <2>3, <3>1, Zenon
  <2> QED
    BY <2>5, <2>6, <2>7
<1>11. BenchCounted'
  BY <1>1, <1>3, <1>8, <1>10 DEF BenchCounted
<1> QED
  BY <1>4, <1>5, <1>6, <1>9, <1>11 DEF BenchInv

LEMMA WriteInv ==
  ASSUME BenchInv, Write
  PROVE  BenchInv'
<1>1. /\ feed \in [buffer : Seq(Nat), lagged : Nat, from : Nat] /\ Increasing(feed.buffer)
      /\ Len(feed.buffer) <= MaxBuffer /\ Len(feed.buffer) \in Nat /\ MaxBuffer \in Nat
  BY BenchAssumption DEF BenchInv, BenchTyped, BenchOrder
<1>2. bench = "open" /\ ~Over /\ run' = run /\ bench' = bench /\ got' = got
  BY DEF Write
<1>3. CASE /\ feed.lagged > 0 /\ body' = Append(body, BenchFrame("lagged", feed.lagged))
           /\ feed' = [feed EXCEPT !.lagged = 0]
  <2> DEFINE f == BenchFrame("lagged", feed.lagged)
  <2>1. f \in Frame /\ Accounts(f) = feed.lagged /\ ResultIn(f) = {} /\ f.event # "terminal"
    BY <1>1 DEF BenchFrame, Frame, BenchEvents, Accounts, ResultIn
  <2>2. feed'.lagged = 0 /\ feed'.buffer = feed.buffer /\ feed'.from = feed.from
        /\ feed' \in [buffer : Seq(Nat), lagged : Nat, from : Nat]
    BY <1>1, <1>3
  <2>3. Accounts(f) + feed'.lagged + Len(feed'.buffer) = feed.lagged + Len(feed.buffer)
    BY <1>1, <2>1, <2>2
  <2>4. body' = Append(body, f)
    BY <1>3
  <2> HIDE DEF f
  <2> QED
    BY <1>1, <1>2, <2>1, <2>2, <2>3, <2>4, FrameWritten
<1>4. CASE /\ feed.lagged = 0 /\ feed.buffer # <<>>
           /\ body' = Append(body, BenchFrame("result", Head(feed.buffer)))
           /\ feed' = [feed EXCEPT !.buffer = Tail(@)]
  <2> DEFINE f == BenchFrame("result", Head(feed.buffer))
             rest == Tail(feed.buffer)
  <2>0. feed.buffer \in Seq(Nat)
    BY <1>1
  <2>1. /\ rest \in Seq(Nat) /\ Len(rest) = Len(feed.buffer) - 1 /\ Head(feed.buffer) \in Nat
        /\ Increasing(rest)
        /\ Members(feed.buffer) = Members(rest) \cup {Head(feed.buffer)}
        /\ \A i \in 1..Len(rest) : Head(feed.buffer) < rest[i]
    BY <1>1, <1>4, <2>0, TailSet, IncreasingTail, HeadTailProperties
  <2>2. f \in Frame /\ Accounts(f) = 1 /\ ResultIn(f) = {Head(feed.buffer)} /\ f.event # "terminal"
    BY <2>1 DEF BenchFrame, Frame, BenchEvents, Accounts, ResultIn
  <2>3. feed'.lagged = feed.lagged /\ feed'.buffer = rest /\ feed'.from = feed.from
        /\ feed' \in [buffer : Seq(Nat), lagged : Nat, from : Nat]
    BY <1>1, <1>4, <2>1
  <2>4. body' = Append(body, f)
    BY <1>4
  <2>5. \A m \in ResultIn(f), n \in Members(rest) : m < n
    <3>1. DOMAIN rest = 1..Len(rest)
      BY <2>1
    <3> QED
      BY <2>1, <2>2, <3>1 DEF Members
  <2> HIDE DEF f, rest
  <2>6. Accounts(f) + feed'.lagged + Len(feed'.buffer) = feed.lagged + Len(feed.buffer)
    BY <1>1, <1>4, <2>1, <2>2, <2>3
  <2>7. Len(feed'.buffer) <= MaxBuffer
    BY <1>1, <2>1, <2>3
  <2> QED
    BY <1>1, <1>2, <2>1, <2>2, <2>3, <2>4, <2>5, <2>6, <2>7, FrameWritten
<1>5. CASE /\ feed.lagged = 0 /\ feed.buffer = <<>> /\ run.ended
           /\ body' = Append(body, BenchFrame("terminal", 0)) /\ feed' = feed
  <2> DEFINE f == BenchFrame("terminal", 0)
  <2>1. f \in Frame /\ Accounts(f) = 0 /\ ResultIn(f) = {}
    BY DEF BenchFrame, Frame, BenchEvents, Accounts, ResultIn
  <2>2. body' = Append(body, f) /\ feed' = feed /\ feed'.lagged = 0 /\ feed'.buffer = <<>> /\ run.ended
    BY <1>5
  <2>3. Accounts(f) + feed'.lagged + Len(feed'.buffer) = feed.lagged + Len(feed.buffer)
    BY <1>1, <2>1, <2>2
  <2> HIDE DEF f
  <2> QED
    BY <1>1, <1>2, <2>1, <2>2, <2>3, FrameWritten
<1> QED
  BY <1>3, <1>4, <1>5 DEF Write

\* A frame that accounts for nothing, with the feed as it is.
LEMMA IdleFrame ==
  ASSUME BenchInv, bench = "open", ~Over, NEW event \in {"note", "broken"},
         body' = Append(body, BenchFrame(event, 0)), UNCHANGED <<run, feed, bench, got>>
  PROVE  BenchInv'
<1> DEFINE f == BenchFrame(event, 0)
<1>1. /\ feed \in [buffer : Seq(Nat), lagged : Nat, from : Nat] /\ Increasing(feed.buffer)
      /\ Len(feed.buffer) <= MaxBuffer /\ Len(feed.buffer) \in Nat
  BY DEF BenchInv, BenchTyped, BenchOrder
<1>2. f \in Frame /\ Accounts(f) = 0 /\ ResultIn(f) = {} /\ f.event # "terminal"
  BY DEF BenchFrame, Frame, BenchEvents, Accounts, ResultIn
<1>3. feed' = feed /\ body' = Append(body, f) /\ run' = run /\ bench' = bench /\ got' = got
  OBVIOUS
<1> HIDE DEF f
<1>4. Accounts(f) + feed'.lagged + Len(feed'.buffer) = feed.lagged + Len(feed.buffer)
  BY <1>1, <1>2, <1>3
<1> QED
  BY <1>1, <1>2, <1>3, <1>4, FrameWritten

LEMMA SubscribeInv ==
  ASSUME BenchInv, Subscribe
  PROVE  BenchInv'
<1>1. BenchTyped /\ body = <<>> /\ got = <<>> /\ feed.buffer = <<>> /\ feed.lagged = 0
  BY DEF BenchInv, BenchQuiet, Subscribe
<1>2. /\ bench' \in {"open", "refused"} /\ run' = run /\ body' = body /\ got' = got
      /\ feed' = [feed EXCEPT !.from = run.published]
  BY DEF Subscribe
<1>3. /\ run.published \in Nat /\ feed' \in [buffer : Seq(Nat), lagged : Nat, from : Nat]
      /\ feed'.from = run.published /\ feed'.buffer = <<>> /\ feed'.lagged = 0
  BY <1>1, <1>2, BenchNumbers DEF BenchTyped
<1>4. BenchTyped' /\ BenchQuiet'
  BY <1>1, <1>2, <1>3 DEF BenchTyped, BenchQuiet
<1>5. ~GotTerminal' /\ BenchEnding'
  BY <1>1, <1>2 DEF BenchEnding, GotTerminal
<1>6. Pending' = {} /\ ResultsOf(got') = {} /\ ResultsOf(body') = {}
  BY <1>1, <1>2, <1>3, ResultsNone DEF Pending, Members
<1>7. BenchOrder'
  BY <1>1, <1>2, <1>3, <1>6, ResultsNone DEF BenchOrder, Increasing
<1>8. BenchAll' = 0
  BY <1>1, <1>2, <1>3, AccountedNone DEF BenchAll
<1>9. Cardinality((Odd \cap Since') \ Pending') \in Nat
  <2>1. (Odd \cap Since') \ Pending' \subseteq (run.published + 1)..run.published
    BY <1>2, <1>3 DEF Since
  <2> QED
    BY <1>3, <2>1, MissingGrows
<1>10. BenchCounted'
  BY <1>2, <1>3, <1>8, <1>9 DEF BenchCounted
<1> QED
  BY <1>4, <1>5, <1>7, <1>10 DEF BenchInv

LEMMA UnsubscribeInv ==
  ASSUME BenchInv, Unsubscribe
  PROVE  BenchInv'
<1>1. /\ bench = "open" /\ bench' = "closed" /\ run' = run /\ feed' = feed /\ body' = body /\ got' = got
  BY DEF Unsubscribe
<1>2. BenchTyped /\ BenchQuiet /\ BenchEnding /\ BenchOrder /\ BenchCounted
  BY DEF BenchInv
<1>3. GotTerminal' = GotTerminal /\ Pending' = Pending /\ Since' = Since /\ BenchAll' = BenchAll
  BY <1>1 DEF GotTerminal, Pending, Since, BenchAll, ResultsOf
<1>4. BenchTyped' /\ BenchQuiet'
  BY <1>1, <1>2 DEF BenchTyped, BenchQuiet
<1>5. BenchEnding'
  BY <1>1, <1>2, <1>3 DEF BenchEnding
<1>6. BenchOrder'
  BY <1>1, <1>2, <1>3 DEF BenchOrder, ResultsOf, ResultsRise
<1>7. BenchCounted'
  BY <1>1, <1>2, <1>3 DEF BenchCounted
<1> QED
  BY <1>4, <1>5, <1>6, <1>7 DEF BenchInv

(***************************************************************************)
(* The client reads a frame.  A result it cannot decode is the one thing   *)
(* that then nothing accounts for.                                         *)
(***************************************************************************)
LEMMA ReadInv ==
  ASSUME BenchInv, ReadFrame
  PROVE  BenchInv'
<1> DEFINE f == Head(body)
           rest == Tail(body)
           odd == f.event = "result" /\ f.n \in Odd
           skip == f.event \in {"broken", "note"} \/ odd
<1>1. BenchTyped /\ BenchQuiet /\ BenchEnding /\ BenchOrder /\ BenchCounted
  BY DEF BenchInv
<1>2. /\ bench = "open" /\ body # <<>> /\ run' = run /\ feed' = feed /\ body' = rest
      /\ got' = IF skip THEN got ELSE Append(got, f)
      /\ bench' = IF f.event \in {"terminal", "broken"} THEN "closed" ELSE bench
  BY DEF ReadFrame
<1>3. /\ body \in Seq(Frame) /\ got \in Seq(Frame) /\ Len(body) \in Nat \ {0} /\ Len(got) \in Nat
      /\ rest \in Seq(Frame) /\ Len(rest) = Len(body) - 1 /\ \A i \in 1..Len(rest) : rest[i] = body[i + 1]
      /\ f = body[1] /\ f \in Frame
  BY <1>1, <1>2, HeadTailProperties DEF BenchTyped
<1> HIDE DEF f, rest
<1>4. ~GotTerminal /\ \A i \in 1..Len(got) : got[i].event # "terminal"
  <2>1. got # <<>> => Len(got) \in 1..Len(got)
    BY <1>3
  <2> QED
    BY <1>1, <1>2, <2>1 DEF BenchEnding, GotTerminal
<1>5. f.event \in {"terminal", "broken"} => rest = <<>>
  <2>1. 1 \in 1..Len(body)
    BY <1>3
  <2>2. f.event \in {"terminal", "broken"} => Len(body) = 1
    BY <1>1, <1>3, <2>1 DEF BenchEnding
  <2> QED
    BY <1>3, <2>2
<1>6. f.event \in BenchEvents /\ f.n \in Nat
  BY <1>3 DEF Frame
<1>7. /\ ~skip => /\ got' = Append(got, f) /\ got' \in Seq(Frame) /\ Len(got') = Len(got) + 1
                  /\ got'[Len(got) + 1] = f /\ \A i \in 1..Len(got) : got'[i] = got[i]
      /\ skip => got' = got
  BY <1>2, <1>3
<1>8. BenchTyped'
  <2>1. \A i \in 1..Len(got') : got'[i].event \in {"result", "lagged", "terminal"}
    <3>1. CASE skip
      BY <1>1, <1>7, <3>1 DEF BenchTyped
    <3>2. CASE ~skip
      <4>1. f.event \in {"result", "lagged", "terminal"}
        BY <1>6, <3>2 DEF BenchEvents
      <4>2. \A i \in 1..Len(got) : got[i].event \in {"result", "lagged", "terminal"}
        BY <1>1 DEF BenchTyped
      <4> QED
        BY <1>3, <1>7, <3>2, <4>1, <4>2
    <3> QED
      BY <3>1, <3>2
  <2>2. got' \in Seq(Frame)
    BY <1>3, <1>7
  <2> QED
    BY <1>1, <1>2, <1>3, <2>1, <2>2 DEF BenchTyped
<1>9. BenchQuiet'
  BY <1>2 DEF BenchQuiet
<1>10. BenchEnding'
  <2>1. ASSUME NEW i \in 1..Len(rest)
        PROVE  i + 1 \in 1..Len(body) /\ rest[i] = body[i + 1]
    BY <1>3
  <2>2. ASSUME NEW i \in 1..Len(body'), body'[i].event \in {"terminal", "broken"}
        PROVE  i = Len(body')
    <3>1. i + 1 = Len(body)
      BY <1>1, <1>2, <2>1, <2>2 DEF BenchEnding
    <3> QED
      BY <1>2, <1>3, <3>1
  <2>3. ASSUME NEW i \in 1..Len(got'), got'[i].event = "terminal"
        PROVE  i = Len(got') /\ bench' = "closed" /\ body' = <<>> /\ f.event = "terminal"
    <3>1. CASE skip
      BY <1>4, <1>7, <2>3, <3>1
    <3>2. CASE ~skip
      <4>1. i = Len(got) + 1 /\ got'[i] = f
        BY <1>3, <1>4, <1>7, <2>3, <3>2
      <4> QED
        BY <1>2, <1>3, <1>5, <1>7, <2>3, <3>2, <4>1
    <3> QED
      BY <3>1, <3>2
  <2>4. ASSUME GotTerminal' \/ \E i \in 1..Len(body') : body'[i].event = "terminal"
        PROVE  run'.ended /\ feed'.lagged = 0 /\ feed'.buffer = <<>>
    <3>1. \E i \in 1..Len(body) : body[i].event = "terminal"
      <4>1. CASE GotTerminal'
        <5>1. got' # <<>> /\ got'[Len(got')].event = "terminal"
          BY <4>1 DEF GotTerminal
        <5>2. Len(got') \in 1..Len(got')
          BY <1>3, <1>7, <5>1
        <5>3. f.event = "terminal"
          BY <2>3, <5>1, <5>2
        <5> QED
          BY <1>3, <5>3
      <4>2. CASE \E i \in 1..Len(body') : body'[i].event = "terminal"
        BY <1>2, <2>1, <4>2
      <4> QED
        BY <2>4, <4>1, <4>2
    <3> QED
      BY <1>1, <1>2, <3>1 DEF BenchEnding
  <2> QED
    BY <2>2, <2>3, <2>4 DEF BenchEnding
<1>11. /\ ResultsRise(got) /\ ResultsRise(body) /\ Increasing(feed.buffer)
       /\ \A m \in ResultsOf(got), n \in Pending : m < n
       /\ \A m \in ResultsOf(body), n \in Members(feed.buffer) : m < n
       /\ ResultsOf(got) \subseteq Since \ Odd /\ Pending \subseteq Since
  BY <1>1 DEF BenchOrder
<1>12. /\ ResultsOf(body) = ResultIn(f) \cup ResultsOf(rest) /\ ResultsRise(rest)
       /\ \A m \in ResultIn(f), n \in ResultsOf(rest) : m < n
  BY <1>2, <1>3, <1>11, ResultsTail DEF f, rest
<1>13. /\ Since' = Since /\ Pending' = ResultsOf(rest) \cup Members(feed.buffer)
       /\ Pending = ResultIn(f) \cup Pending'
       /\ \A m \in ResultIn(f), n \in Pending' : m < n
  <2>1. Since' = Since
    BY <1>2 DEF Since
  <2>2. Pending' = ResultsOf(rest) \cup Members(feed.buffer)
    BY <1>2 DEF Pending
  <2> QED
    BY <1>11, <1>12, <2>1, <2>2 DEF Pending
<1>14. BenchOrder'
  <2>1. \A m \in ResultsOf(body'), n \in Members(feed'.buffer) : m < n
    BY <1>2, <1>11, <1>12
  <2>2. ResultsRise(body') /\ Increasing(feed'.buffer) /\ Pending' \subseteq Since'
    BY <1>2, <1>11, <1>12, <1>13
  <2>3. /\ ResultsRise(got') /\ ResultsOf(got') \subseteq Since' \ Odd
        /\ \A m \in ResultsOf(got'), n \in Pending' : m < n
    <3>1. CASE skip
      BY <1>7, <1>11, <1>13, <3>1
    <3>2. CASE ~skip
      <4>1. ResultsOf(got') = ResultsOf(got) \cup ResultIn(f)
        BY <1>3, <1>7, <3>2, ResultsAppend
      <4>2. ResultIn(f) \subseteq Since \ Odd
        BY <1>11, <1>13, <3>2 DEF ResultIn
      <4>3. \A m \in ResultsOf(got), n \in ResultIn(f) : m < n
        BY <1>11, <1>13
      <4>4. ResultsRise(got')
        BY <1>3, <1>7, <1>11, <3>2, <4>3, ResultsAppend
      <4> QED
        BY <1>11, <1>13, <4>1, <4>2, <4>4
    <3> QED
      BY <3>1, <3>2
  <2> QED
    BY <2>1, <2>2, <2>3 DEF BenchOrder
<1>15. BenchCounted'
  <2> DEFINE S == (Odd \cap Since) \ Pending
             T == (Odd \cap Since') \ Pending'
             other == feed.lagged + Len(feed.buffer)
  <2>1. /\ AccountedIn(got) \in Nat /\ AccountedIn(body) \in Nat /\ other \in Nat
        /\ run.published \in Nat /\ feed.from \in Nat
    BY <1>1, BenchNumbers
  <2>2. AccountedIn(body) = Accounts(f) + AccountedIn(rest) /\ Accounts(f) \in Nat /\ AccountedIn(rest) \in Nat
    BY <1>2, <1>3, AccountedTail, AccountedNat, AccountsNat DEF f, rest
  <2>3. BenchAll' = AccountedIn(got') + AccountedIn(rest) + other
    <3>1. BenchAll' = AccountedIn(got') + AccountedIn(rest) + feed.lagged + Len(feed.buffer)
      BY <1>2 DEF BenchAll
    <3>2. AccountedIn(got') \in Nat /\ feed.lagged \in Nat /\ Len(feed.buffer) \in Nat
      BY <1>1, <1>3, <1>7, BenchNumbers, AccountedNat
    <3> QED
      BY <2>2, <3>1, <3>2, PlusAssociative
  <2>4. BenchAll = AccountedIn(got) + AccountedIn(body) + other
    <3>1. feed.lagged \in Nat /\ Len(feed.buffer) \in Nat
      BY <1>1, BenchNumbers
    <3> QED
      BY <2>1, <3>1, PlusAssociative DEF BenchAll
  <2>5. BenchAll <= run.published - feed.from /\ run.published - feed.from <= BenchAll + Cardinality(S)
    BY <1>1, <1>2 DEF BenchCounted
  <2>6. S \subseteq T /\ T \subseteq (feed.from + 1)..run.published
    BY <1>13 DEF Since
  <2>7. Cardinality(S) \in Nat /\ Cardinality(T) \in Nat /\ Cardinality(S) <= Cardinality(T) /\ IsFiniteSet(S)
        /\ IsFiniteSet(T)
    BY <2>1, <2>6, MissingGrows
  <2> HIDE DEF S, T, other
  <2>8. BenchAll' <= run.published - feed.from /\ run.published - feed.from <= BenchAll' + Cardinality(T)
    <3>1. CASE ~skip
      <4>1. AccountedIn(got') = AccountedIn(got) + Accounts(f)
        BY <1>3, <1>7, <3>1, AccountedAppend
      <4>2. BenchAll' = BenchAll
        BY <2>1, <2>2, <2>3, <2>4, <4>1
      <4> QED
        BY <2>1, <2>2, <2>4, <2>5, <2>7, <4>2
    <3>2. CASE skip /\ ~odd
      <4>1. Accounts(f) = 0
        BY <3>2 DEF Accounts
      <4>2. BenchAll' = BenchAll
        BY <1>7, <2>1, <2>2, <2>3, <2>4, <3>2, <4>1
      <4> QED
        BY <2>1, <2>2, <2>4, <2>5, <2>7, <4>2
    <3>3. CASE odd
      <4>1. Accounts(f) = 1 /\ f.n \in Pending /\ f.n \in Odd /\ f.n \in Since
        BY <1>11, <1>13, <3>3 DEF Accounts, ResultIn
      <4>2. f.n \notin Pending'
        <5>1. f.n \in ResultIn(f)
          BY <3>3 DEF ResultIn
        <5> QED
          BY <1>6, <1>13, <5>1
      <4>3. f.n \notin S /\ S \cup {f.n} \subseteq T
        BY <1>13, <2>6, <4>1, <4>2 DEF S, T
      <4>4. Cardinality(S \cup {f.n}) = Cardinality(S) + 1 /\ Cardinality(S \cup {f.n}) <= Cardinality(T)
        BY <2>7, <4>3, FS_AddElement, FS_Subset
      <4>5. BenchAll = BenchAll' + 1
        BY <1>7, <2>1, <2>2, <2>3, <2>4, <3>3, <4>1
      <4>6. BenchAll' \in Nat
        BY <1>7, <2>1, <2>2, <2>3, <3>3
      <4> QED
        BY <2>1, <2>5, <2>7, <4>4, <4>5, <4>6
    <3> QED
      BY <3>1, <3>2, <3>3
  <2> QED
    BY <1>2, <2>8 DEF BenchCounted, T
<1> QED
  BY <1>8, <1>9, <1>10, <1>14, <1>15 DEF BenchInv

LEMMA BenchInvInductive ==
  ASSUME BenchInv, [BenchNext]_benchVars
  PROVE  BenchInv'
<1>1. CASE BenchNext
  <2>1. CASE Note
    BY <2>1, IdleFrame DEF Note
  <2>2. CASE Break
    BY <2>2, IdleFrame DEF Break
  <2> QED
    BY <1>1, <2>1, <2>2, RecordInv, RunEndsInv, WriteInv, SubscribeInv, ReadInv, UnsubscribeInv
       DEF BenchNext, BenchClient
<1>2. CASE UNCHANGED benchVars
  <2>1. run' = run /\ feed' = feed /\ body' = body /\ bench' = bench /\ got' = got
    BY <1>2 DEF benchVars
  <2>2. GotTerminal' = GotTerminal /\ Pending' = Pending /\ Since' = Since /\ BenchAll' = BenchAll
    BY <2>1 DEF GotTerminal, Pending, Since, BenchAll, ResultsOf
  <2>3. BenchTyped /\ BenchQuiet /\ BenchEnding /\ BenchOrder /\ BenchCounted
    BY DEF BenchInv
  <2>4. BenchTyped' /\ BenchQuiet' /\ BenchEnding'
    BY <2>1, <2>2, <2>3 DEF BenchTyped, BenchQuiet, BenchEnding
  <2>5. BenchOrder'
    BY <2>1, <2>2, <2>3 DEF BenchOrder, ResultsOf, ResultsRise
  <2>6. BenchCounted'
    BY <2>1, <2>2, <2>3 DEF BenchCounted
  <2> QED
    BY <2>4, <2>5, <2>6 DEF BenchInv
<1> QED
  BY <1>1, <1>2

LEMMA BenchInvTrue ==
  ASSUME BenchInv
  PROVE  BenchAccounted /\ BenchTypeOK
<1> DEFINE sinceThen == (feed.from + 1)..run.published
           odd == Cardinality(Odd \cap sinceThen)
           counted == AccountedIn(got)
<1>1. BenchTyped /\ BenchQuiet /\ BenchEnding /\ BenchOrder /\ BenchCounted
  BY DEF BenchInv
<1>2. got \in Seq(Frame) /\ Len(got) \in Nat /\ DOMAIN got = 1..Len(got)
  BY <1>1 DEF BenchTyped
<1>3. /\ AccountedIn(got) \in Nat /\ AccountedIn(body) \in Nat /\ Len(feed.buffer) \in Nat
      /\ feed.lagged \in Nat /\ feed.from \in Nat /\ run.published \in Nat /\ run.published <= Results
      /\ Results \in Nat
  BY <1>1, BenchNumbers, BenchAssumption DEF BenchTyped
<1>4. counted + AccountedIn(body) + feed.lagged + Len(feed.buffer) <= run.published - feed.from
  BY <1>1 DEF BenchCounted, BenchAll
<1>5. counted <= run.published - feed.from /\ feed.lagged <= Results
  <2>1. PICK a \in Nat, b \in Nat, c \in Nat, d \in Nat :
          a = counted /\ b = AccountedIn(body) /\ c = feed.lagged /\ d = Len(feed.buffer)
    BY <1>3
  <2>2. a + b + c + d <= run.published - feed.from
    BY <1>4, <2>1, Zenon
  <2>3. a <= run.published - feed.from /\ c <= run.published - feed.from
    BY <1>3, <2>2
  <2>4. c <= Results
    BY <1>3, <2>3
  <2> QED
    BY <2>1, <2>3, <2>4, Zenon
<1>6. GotResults = ResultsOf(got) /\ Since = sinceThen
  BY DEF GotResults, ResultsOf, Since
<1>7. GotResults \subseteq sinceThen \ Odd
  BY <1>1, <1>6 DEF BenchOrder
<1>8. \A i, j \in DOMAIN got :
        /\ (i < j /\ got[i].event = "result" /\ got[j].event = "result") => got[i].n < got[j].n
        /\ i < j => got[i].event # "terminal"
  <2>1. \A i, j \in 1..Len(got) : i < j => got[i].event # "terminal"
    <3>1. \A i \in 1..Len(got) : got[i].event = "terminal" => i = Len(got)
      BY <1>1 DEF BenchEnding
    <3>2. ASSUME NEW i \in 1..Len(got), NEW j \in 1..Len(got), i < j
          PROVE  i # Len(got)
      <4>1. PICK n \in Nat : n = Len(got)
        BY <1>2
      <4>2. j <= n /\ i \in Nat /\ j \in Nat
        BY <4>1
      <4>3. i # n
        BY <3>2, <4>2
      <4> QED
        BY <4>1, <4>3
    <3> QED
      BY <3>1, <3>2
  <2>2. ResultsRise(got)
    BY <1>1 DEF BenchOrder
  <2> QED
    BY <1>2, <2>1, <2>2 DEF ResultsRise
<1>9. ASSUME GotTerminal
      PROVE  /\ run.ended /\ bench = "closed"
             /\ counted \in (run.published - feed.from - odd)..(run.published - feed.from)
  <2>1. Len(got) \in 1..Len(got) /\ got[Len(got)].event = "terminal"
    BY <1>2, <1>9 DEF GotTerminal
  <2>2. run.ended /\ bench = "closed" /\ body = <<>> /\ feed.lagged = 0 /\ feed.buffer = <<>>
    BY <1>1, <1>9, <2>1 DEF BenchEnding
  <2>3. BenchAll = counted
    BY <1>3, <2>2, AccountedNone DEF BenchAll
  <2>4. Pending = {}
    BY <2>2, ResultsNone DEF Pending, Members
  <2>5. run.published - feed.from <= BenchAll + Cardinality((Odd \cap Since) \ Pending)
    BY <1>1, <1>9 DEF BenchCounted
  <2>6. (Odd \cap Since) \ Pending = Odd \cap sinceThen
    BY <1>6, <2>4
  <2>7. odd \in Nat
    BY <1>3, MissingGrows
  <2>8. PICK k \in Nat, o \in Nat : k = counted /\ o = odd
    BY <1>3, <2>7
  <2>9. k <= run.published - feed.from /\ run.published - feed.from <= k + o
    BY <1>5, <2>3, <2>5, <2>6, <2>8, Zenon
  <2>10. k \in (run.published - feed.from - o)..(run.published - feed.from)
    BY <1>3, <2>9
  <2> QED
    BY <2>2, <2>8, <2>10, Zenon
<1>10. BenchTypeOK
  BY <1>1, <1>2, <1>3, <1>5 DEF BenchTyped, BenchTypeOK
<1> QED
  BY <1>5, <1>7, <1>8, <1>9, <1>10 DEF BenchAccounted

-----------------------------------------------------------------------------
(* The specification. *)

\* Each of the three starts in its invariant, also when it is not the plan.
LEMMA InvsInit ==
  ASSUME Init
  PROVE  CallsInv /\ DocInv /\ BenchInv
<1>1. CallsInit
  BY DEF Init, CallsInit
<1>2. PICK d \in BOOLEAN : blob \in Blobs /\ runs = [r \in RunId |-> Unused] /\ job = NewJob(d)
  <2>1. CASE plan = "document"
    BY <2>1 DEF Init, DocInit, Blobs
  <2>2. CASE plan # "document"
    <3>1. blob = "absent" /\ runs = [r \in RunId |-> Unused] /\ job = NewJob(FALSE)
      BY <2>2 DEF Init
    <3> QED
      BY <3>1 DEF Blobs
  <2> QED
    BY <2>1, <2>2
<1>3. BenchInit
  BY DEF Init
<1> QED
  BY <1>1, <1>2, <1>3, CallsInitInv, DocInitInv, BenchInitInv

\* A step is a step of one of the three; the others stand still.
LEMMA StepOfOne ==
  ASSUME [Next]_vars
  PROVE  [CallsNext]_callVars /\ [DocNext]_docVars /\ [BenchNext]_benchVars
BY DEF Next, vars, callVars, docVars, benchVars

LEMMA InvsAlways == Spec => [](CallsInv /\ DocInv /\ BenchInv)
<1>1. (CallsInv /\ DocInv /\ BenchInv) /\ [Next]_vars => (CallsInv /\ DocInv /\ BenchInv)'
  BY StepOfOne, CallsInvInductive, DocInvInductive, BenchInvInductive
<1> QED
  BY <1>1, InvsInit, PTL DEF Spec

\* What a caller of the resource clients is told is true of the server: for any
\* number of callers, any number of repetitions and every row of the tables.
THEOREM AnswersTrue == Spec => []AnswersAreTrue
BY InvsAlways, CallsInvTrue, PTL

\* What a job is told of its document and its execution is true of the server,
\* and the executions it left behind are no more than the calls that failed
\* naming none: for any number of repetitions and of executions.
THEOREM OutcomesTrue == Spec => []OutcomeIsTheExecutions
BY InvsAlways, DocInvTrue, PTL

\* A consumer of a bench run gets results in order, each once, and a closed
\* stream whose last event is the run's end has accounted for every result but
\* the undecodable ones: for any number of results and any buffer.
THEOREM ResultsAccounted == Spec => []BenchAccounted
BY InvsAlways, BenchInvTrue, PTL

\* Every variable of the three stays in its range.
THEOREM TypesOK == Spec => []TypeOK
<1>1. Init => plan \in {"calls", "document", "bench"}
  BY DEF Init
<1>2. plan \in {"calls", "document", "bench"} /\ [Next]_vars => (plan \in {"calls", "document", "bench"})'
  BY DEF Next, vars
<1>3. plan \in {"calls", "document", "bench"} /\ CallsInv /\ DocInv /\ BenchInv => TypeOK
  BY CallsInvTrue, DocInvTrue, BenchInvTrue DEF TypeOK
<1> QED
  BY <1>1, <1>2, <1>3, InvsAlways, PTL DEF Spec
=============================================================================
