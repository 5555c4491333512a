---------------------------- MODULE EngineEvents ----------------------------
(***************************************************************************)
(* The engine's event vocabulary as serde decodes it                       *)
(* (akribes-types/src/event.rs): the variants and their fields, the closed *)
(* enumerations inside them, the sub-script envelope and its flattening,   *)
(* the token totals and the two wire shapes of WorkflowEnd.                *)
(*                                                                         *)
(* An event on the wire is [env |-> the SubScript envelopes around it,     *)
(* outermost first, leaf |-> the event inside].  A leaf is                 *)
(*   [type  |-> its "type",                                                *)
(*    lacks |-> the fields its emitter does not know and leaves out,       *)
(*    tag   |-> the tag of the enumeration its payload holds, or "",       *)
(*    data  |-> what else of its payload the properties tell apart].       *)
(***************************************************************************)
EXTENDS Values, FiniteSets, TLC, SequencesExt

\* A variant: the fields a decoder insists on and those serde fills in
\* (#[serde(default)], or an Option without a codec of its own).
Variant(required, optional) == [required |-> required, optional |-> optional]

LogVariants ==
  [Log |-> Variant({"message"}, {}),
   LogLevel |-> Variant({"level", "message"}, {}),
   StateUpdate |-> Variant({"name", "value"}, {}),
   WorkflowStart |-> Variant({"total_tasks"}, {}),
   TaskStart |-> Variant({"name", "on_error"}, {}),
   TaskPrompt |-> Variant({"task_name", "prompt"}, {})]

TaskVariants ==
  [TaskEnd |-> Variant({"task", "value", "duration", "attempt"},
                       {"on_error_label", "value_type", "usage", "variant"}),
   AgentOutput |-> Variant({"task_name", "task_id", "chunk"}, {"agent_name", "schema_type"}),
   AgentReasoning |-> Variant({"task_name", "task_id", "chunk"}, {"agent_name", "schema_type"})]

CacheVariants ==
  [CachePlanned |->
     Variant({"agent", "n_segments", "n_stable", "longest_stable_prefix_len_chars", "markers_placed"},
             {"markers_placed_at", "provider", "tools_marker_placed", "system_marker_placed",
              "predicted_reuse_count", "cache_ttl", "cache_reason"})]

SuspendVariants ==
  [Suspended |-> Variant({"checkpoint_name", "token", "prompt", "schema", "actor_hint"},
                         {"timeout_secs", "trigger", "loop_context"}),
   Resumed |-> Variant({"checkpoint_name", "token"}, {})]

EndVariants ==
  [WorkflowEnd |-> Variant({"payload"}, {}),
   Error |-> Variant({"message", "kind"}, {"code", "user_message", "retry_after_ms", "source"})]

NodeVariants ==
  [NodeStart |-> Variant({"node_id", "span"}, {}),
   NodeEnd |-> Variant({"node_id", "span", "value", "duration"}, {"target_var"}),
   Breakpoint |-> Variant({"node_id", "span", "token", "env_snapshot"}, {}),
   BreakpointResumed |-> Variant({"node_id", "token"}, {}),
   BatchQueued |-> Variant({"token", "provider", "model", "node_id"}, {"structured"})]

ToolVariants ==
  [ToolCallStart |-> Variant({"task_name", "tool_name", "server_name", "input"}, {"tool_use_id"}),
   ToolCallEnd |-> Variant({"task_name", "tool_name", "output", "duration"}, {"tool_use_id"}),
   McpServerDegraded |-> Variant({"alias", "reason"}, {}),
   McpServerRecovered |-> Variant({"alias"}, {}),
   ToolApprovalPending |-> Variant({"token", "tool_ref", "args"}, {"execution_id", "node_id"}),
   ToolApprovalResolved |-> Variant({"token", "approved"}, {"args_override", "reason"}),
   ToolApprovalSkipped |-> Variant({"tool_ref", "reason"}, {"execution_id", "node_id"}),
   ToolReplayUncertain |-> Variant({"tool_use_id", "tool_name"}, {"execution_id", "args"})]

ValidationVariants ==
  [VerificationStart |-> Variant({"workflow_name"}, {}),
   VerificationResult |-> Variant({"workflow_name", "results", "duration"}, {}),
   ValidationFailure |-> Variant({"task_name", "attempt", "model_response", "missing_fields",
                                  "extra_fields", "type_errors"},
                                 {"truncated", "total_length", "stop_reason"})]

LoopVariants ==
  [LoopStart |-> Variant({"name", "max_turns"}, {}),
   LoopTurn |-> Variant({"name", "turn", "tool_calls"}, {"usage"}),
   LoopEnd |-> Variant({"name", "turn_count", "value"}, {}),
   ContextCompacted |-> Variant({"agent", "strategy", "before_tokens", "after_tokens", "provider_native"},
                                {"loop_id", "turn", "threshold_pct", "threshold_abs", "cache_ttl"}),
   ContextOverflow |-> Variant({"agent", "attempted_strategies", "configured_cap_tokens",
                                "model_context_window"}, {"terminated_by_hard_error"})]

ReplayVariants ==
  [TaskCacheHit |-> Variant({"agent", "key_prefix"}, {}),
   TaskEscalated |-> Variant({"task", "from_agent", "to_agent", "reason"}, {}),
   LLMResponse |-> Variant({"node_id", "call_index", "text", "tool_calls"}, {"usage"}),
   LLMReplayCacheHit |-> Variant({"node_id", "call_index"}, {}),
   SubScriptSpawned |-> Variant({"child_execution_id", "parent_node_id", "args"}, {}),
   SubScriptResult |-> Variant({"parent_node_id", "child_execution_id", "outcome"}, {}),
   CheckpointResolution |-> Variant({"checkpoint_id", "payload"}, {})]

RuntimeVariants ==
  [RuntimeStart |-> Variant({"task_name", "runtime_name", "language"}, {}),
   RuntimeStdout |-> Variant({"task_name", "chunk"}, {}),
   RuntimeStderr |-> Variant({"task_name", "chunk"}, {}),
   RuntimeEnd |-> Variant({"task_name", "exit_code", "duration_ms"}, {}),
   RuntimeError |-> Variant({"task_name", "kind", "message"}, {}),
   HttpCallStart |-> Variant({"call_id", "task_name", "method", "url"}, {}),
   HttpCallEnd |-> Variant({"call_id", "task_name", "status", "duration_ms", "bytes", "is_error"}, {})]

EngineEvent ==
  LogVariants @@ TaskVariants @@ CacheVariants @@ SuspendVariants @@ EndVariants
    @@ NodeVariants @@ ToolVariants @@ ValidationVariants @@ LoopVariants @@ ReplayVariants
    @@ RuntimeVariants

-----------------------------------------------------------------------------
(* Decoding. *)

\* SuspendTrigger has no catch-all, and the record of AgentUnable names its
\* category from a closed list.
SuspendTriggers ==
  {"DagPosition", "ValidationExhausted", "AgentVariant"}
    \cup {"AgentUnable:" \o c : c \in UnableCategory}

\* TaskEndVariant decodes what it does not know to Unknown.
TaskEndVariant == {"success", "unable", "failed"}
TaskEndTag(tag) == IF tag \in TaskEndVariant THEN tag ELSE "unknown"

CacheTtl == {"5m", "1h"}
ChildOutcome == {"Ok", "Err"}

\* The payload enumerations a decoder refuses to leave.
TagKnown(type, tag) ==
  CASE type = "Suspended" -> tag \in SuspendTriggers
    [] type = "Error" -> tag \in ErrorKind
    [] type = "CachePlanned" -> tag \in CacheTtl
    [] type = "SubScriptResult" -> tag \in ChildOutcome
    [] OTHER -> TRUE

\* The tag of a field that was left out.
DefaultTag(type) ==
  CASE type = "Suspended" -> "DagPosition"
    [] type = "TaskEnd" -> "success"
    [] type = "CachePlanned" -> "5m"
    [] OTHER -> ""

\* The field that holds the tag.
TagField(type) ==
  CASE type = "Suspended" -> "trigger"
    [] type = "TaskEnd" -> "variant"
    [] type = "CachePlanned" -> "cache_ttl"
    [] type = "Error" -> "kind"
    [] OTHER -> "outcome"

DecodedTag(leaf) == IF TagField(leaf.type) \in leaf.lacks THEN DefaultTag(leaf.type) ELSE leaf.tag

\* serde_json::from_value::<EngineEvent>: an unknown type, a missing required
\* field or a tag outside its enumeration fails the whole event, at whatever
\* depth it is.
Decodes(e) ==
  /\ e.leaf.type \in DOMAIN EngineEvent
  /\ EngineEvent[e.leaf.type].required \cap e.leaf.lacks = {}
  /\ TagKnown(e.leaf.type, DecodedTag(e.leaf))
  /\ e.leaf.type = "Error" => ("code" \in e.leaf.lacks \/ e.leaf.data \in ErrorCode)

\* EngineEvent::Error::code on payloads that lack it.
DecodedCode(leaf) == IF "code" \in leaf.lacks THEN "Other" ELSE leaf.data

\* EngineEvent::error: the event of a detail.
ErrorLeaf(d) == [type |-> "Error", lacks |-> {}, tag |-> d.kind, data |-> d.code]

-----------------------------------------------------------------------------
(* Sub-scripts.  An envelope is [own |-> the frame of the call it wraps,     *)
(* path |-> the frames of that call's ancestors].                           *)

\* Mutant of Inward: the frame it was nested in goes before the frames so far.
InwardFront(outer, inner) == [own |-> inner.own, path |-> <<outer.own>> \o outer.path \o inner.path]

\* One level of flatten_subscript_chain: the inner envelope's path, then the
\* frame it was nested in, go behind the frames so far.
Inward(outer, inner) == [own |-> inner.own, path |-> Append(outer.path \o inner.path, outer.own)]

\* The walk down a chain of envelopes, to the innermost.
Innermost(env) ==
  LET level[i \in 1..Len(env)] == IF i = 1 THEN env[1] ELSE Inward(level[i - 1], env[i])
  IN  level[Len(env)]

flatten_subscript_chain(e) ==
  IF e.env = <<>> THEN e ELSE [e EXCEPT !.env = <<Innermost(e.env)>>]

-----------------------------------------------------------------------------
(* Totals.  Counters saturate at MaxCount, the top of their width.           *)
CONSTANT MaxCount

ASSUME MaxCountAssumption == MaxCount \in Nat

SatAdd(a, b) == IF a + b > MaxCount THEN MaxCount ELSE a + b

\* WorkflowTotals: the keys of a usage; what accumulate leaves alone, tool
\* tokens and the cost (an f64, so 0 all along); and the tasks.
TokenDims == {"input", "output", "cached", "thinking"}
TotalDims == TokenDims \cup {"tool", "cost", "tasks"}
NoTotals == [d \in TotalDims |-> 0]

\* usage: tokens per dimension of a TokenUsage, or NoUsage.
NoUsage == [d \in {} |-> 0]

\* Mutant of accumulate: a task end without usage is not counted.
accumulateUsed(totals, usage) ==
  IF usage = NoUsage THEN totals
  ELSE [d \in TotalDims |->
          IF d = "tasks" THEN SatAdd(totals[d], 1)
          ELSE IF d \in DOMAIN usage THEN SatAdd(totals[d], usage[d]) ELSE totals[d]]

accumulate(totals, usage) ==
  [d \in TotalDims |->
     IF d = "tasks" THEN SatAdd(totals[d], 1)
     ELSE IF d \in DOMAIN usage THEN SatAdd(totals[d], usage[d]) ELSE totals[d]]

merge(totals, other) == [d \in TotalDims |-> SatAdd(totals[d], other[d])]

-----------------------------------------------------------------------------
(* WorkflowEnd. *)

TotalsToJson(totals) == [d \in TotalDims |-> Json("integer", totals[d])]

\* Serialize: the value under "value", the totals beside it.
EndToJson(value, totals) ==
  Json("object", [f \in {"value"} \cup TotalDims |->
                    IF f = "value" THEN to_json(value) ELSE TotalsToJson(totals)[f]])

\* Before #1173 the payload was the bare value.
LegacyEndToJson(value) == to_json(value)

\* An object with a "value" and any one of the totals is taken for the new shape.
LooksNew(j) == j.t = "object" /\ "value" \in DOMAIN j.v /\ TotalDims \cap DOMAIN j.v # {}

\* Deserialize: totals that are absent or not numbers read as zero.
EndFromJson(j) ==
  IF LooksNew(j)
  THEN [value |-> from_json(j.v["value"]),
        totals |-> [d \in TotalDims |->
                      IF d \in DOMAIN j.v /\ j.v[d].t = "integer" THEN j.v[d].v ELSE 0]]
  ELSE [value |-> from_json(j), totals |-> NoTotals]
=============================================================================
