------------------------------ MODULE Requests ------------------------------
(***************************************************************************)
(* How the Rust SDK puts a request and reads the answer                    *)
(* (akribes-sdk/src/client.rs and the sub-clients under src/sub).  Every   *)
(* operation of the resource clients is a call of one of a few helpers:    *)
(* [verb |-> the helper, effect |-> what the server does for it].  Helpers *)
(* that treat an answer alike share a name: "post" is post, patch,         *)
(* put_json, delete_json and post_multipart; "get" is a GET for which 404  *)
(* is an error; "get_or" is get_list and a get_opt with a default;         *)
(* "set" is patch_empty and put_empty; "drop" is a delete whose caller     *)
(* throws the helper's bool away; "post_value" is post_json_value.         *)
(***************************************************************************)
EXTENDS ErrorTaxonomy

Call(verb, effect) == [verb |-> verb, effect |-> effect]
Opt == Call("get_opt", "read")
List == Call("get_or", "read")
Get == Call("get", "read")
Ask == Call("post", "read")       \* a POST that changes nothing
Create == Call("post", "create")
Act == Call("post", "update")     \* acts on something that must be there
Set == Call("set", "update")
PostValue == Call("post_value", "update")
Delete == Call("delete", "remove")
Drop == Call("drop", "remove")

ClientCalls ==
  [get_json_value |-> Get, get_json_value_opt |-> Opt, post_json_value |-> PostValue,
   get_state |-> List, run_adhoc_with |-> Create]

ProjectCalls ==
  [projects_list |-> List, projects_get |-> Opt, projects_create |-> Create,
   projects_create_with_org |-> Create, projects_update |-> Act, projects_delete |-> Drop,
   projects_duplicate |-> Act, projects_reorder |-> Set, projects_list_scripts |-> List,
   projects_move_script |-> Act, projects_rename_script |-> Set, projects_delete_script |-> Drop,
   projects_duplicate_script |-> Act, projects_list_channels |-> List, projects_reorder_scripts |-> Set]

ScriptCalls ==
  [scripts_list |-> List, scripts_get |-> Opt, scripts_create |-> Create, scripts_rename |-> Set,
   scripts_delete |-> Drop, scripts_duplicate |-> Act, scripts_move_to |-> Act,
   scripts_reorder |-> Set, scripts_check |-> Ask]

VersionCalls ==
  [drafts_get |-> Opt, drafts_save |-> Act, versions_list |-> List, versions_get |-> Opt,
   versions_get_latest |-> Opt, versions_publish_version |-> Create, versions_publish |-> Create,
   versions_dry_run |-> Ask]

ChannelCalls ==
  [channels_list |-> List, channels_create |-> Create, channels_delete |-> Drop, channels_move_to |-> Set]

LockCalls ==
  [clients_list |-> List, clients_delete |-> Drop, clients_list_locks |-> List,
   clients_revoke_lock |-> Drop, clients_rebind_lock |-> Act, clients_list_locks_for |-> List,
   clients_delete_lock |-> Drop, clients_update_lock |-> Act]

TokenCalls ==
  [tokens_mint |-> Create, tokens_list |-> List, tokens_revoke |-> Drop, tokens_revoke_by_email |-> Act]

McpCalls ==
  [mcp_list_servers |-> List, mcp_list_tools |-> List, mcp_health |-> Get, mcp_refresh |-> Act, mcp_drift |-> Get]

ConvertCalls == [convert_file |-> Ask]

BenchCalls ==
  [bench_list_project_summaries |-> List, bench_get |-> Opt, bench_create_or_update |-> Create,
   bench_delete |-> Delete, bench_get_signature |-> List, bench_contract_preview |-> List,
   bench_list_cases |-> List, bench_create_case |-> Create, bench_case_contract_drift |-> List,
   bench_list_runs |-> List, bench_trigger_run |-> Create]

BenchRunCalls ==
  [bench_runs_get |-> Opt, bench_runs_delete |-> Drop, bench_runs_list_results |-> List,
   bench_runs_cancel |-> Act, bench_runs_tag_session |-> Act, bench_runs_promote_execution |-> Create,
   bench_runs_compare |-> Get, bench_runs_get_case |-> List, bench_runs_patch_case |-> Act,
   bench_runs_delete_case |-> Drop, bench_runs_bench_by_id |-> Opt, bench_runs_mcp_session_cost |-> Get]

ExecutionCalls ==
  [executions_resume |-> Act, executions_cancel |-> Delete, executions_children |-> List,
   executions_get |-> Opt, executions_tasks |-> Opt, executions_get_output |-> Opt,
   executions_get_events |-> Opt, executions_get_document |-> Opt,
   executions_get_document_markdown |-> Get, executions_get_document_url |-> Call("location", "read"),
   executions_reconvert_document |-> Act]

ScopedExecutionCalls ==
  [executions_run |-> Create, executions_list |-> List, executions_cancel_run |-> Delete,
   executions_run_from |-> Create, executions_get_graph |-> Get, executions_get_project_cost |-> Get,
   executions_get_cost |-> List, executions_run_with_upload |-> Create, executions_run_with_s3 |-> Create]

DocumentCalls ==
  [documents_progress |-> Get, documents_status |-> Get]

Rows(table) == {table[op] : op \in DOMAIN table}

Calls ==
  UNION {Rows(ClientCalls), Rows(ProjectCalls), Rows(ScriptCalls), Rows(VersionCalls),
         Rows(ChannelCalls), Rows(LockCalls), Rows(TokenCalls), Rows(McpCalls), Rows(ConvertCalls), Rows(BenchCalls), Rows(BenchRunCalls),
         Rows(ExecutionCalls), Rows(ScopedExecutionCalls), Rows(DocumentCalls)}

-----------------------------------------------------------------------------
(* Answers: a status, or Lost for an answer that never comes (reqwest's own  *)
(* error, the 60 s timeout included), and what of its body is looked at: JSON *)
(* that decodes, nothing (204, or a length of 0), or the server's            *)
(* suite_already_exists with the id of the suite.                            *)

Lost == 0

BodiesOf(status) ==
  CASE status \in {200, 404} -> {"json", "empty"}
    [] status = 409 -> {"json", "suite_already_exists"}
    [] OTHER -> {"json"}

NoError == SdkError("None", NoStatus, NoneOpt)
Ok(value) == [is |-> value, error |-> NoError]
Err(e) == [is |-> "error", error |-> e]
HttpStatus(status) == Err(SdkError("HttpStatus", status, NoneOpt))

\* send: what is an error whatever was asked for.
SendError(status, body) ==
  CASE status = Lost -> SdkError("Http", NoStatus, NoneOpt)
    [] status \in {401, 403} -> SdkError("Fatal", NoStatus, NoneOpt)
    [] status \in {429, 500, 502, 503, 504} -> SdkError("Transient", status, NoneOpt)
    [] status = 409 /\ body = "suite_already_exists" -> SdkError("AlreadyExists", NoStatus, NoneOpt)
    [] status \in {200, 404} -> NoError
    [] OTHER -> SdkError("HttpStatus", status, NoneOpt)

\* Mutant of Absent: a delete that found nothing counts as done.
AbsentIsDone(verb) ==
  CASE verb = "get_opt" -> Ok("none")
    [] verb = "get_or" -> Ok("default")
    [] verb = "delete" -> Ok("true")
    [] verb \in {"get", "post", "post_value"} -> HttpStatus(404)

\* A 404, to those that look at the status: absence is an answer to some.
Absent(verb) ==
  CASE verb = "get_opt" -> Ok("none")
    [] verb = "get_or" -> Ok("default")
    [] verb = "delete" -> Ok("false")
    [] verb \in {"get", "post", "post_value"} -> HttpStatus(404)

(***************************************************************************)
(* The helper's result.  Sets and drops look at nothing of an answer that  *)
(* send let through, nor does get_document_url, which returns the URL it   *)
(* asked if it is told no other; post_json_value takes an empty answer for *)
(* Null before it looks at the status, a 404 too; the others decode.       *)
(***************************************************************************)
ResultOf(verb, status, body) ==
  LET e == SendError(status, body)
  IN  CASE e # NoError -> Err(e)
        [] e = NoError /\ verb \in {"set", "drop", "location"} -> Ok("unit")
        [] e = NoError /\ verb = "post_value" /\ body = "empty" -> Ok("null")
        [] OTHER ->
             IF status = 404 THEN Absent(verb)
             ELSE IF verb = "delete" THEN Ok("true")
             ELSE IF body = "empty" THEN Err(SdkError("Other", NoStatus, NoneOpt))
             ELSE Ok("body")
=============================================================================
