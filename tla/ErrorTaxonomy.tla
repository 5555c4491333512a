--------------------------- MODULE ErrorTaxonomy ---------------------------
(***************************************************************************)
(* The error envelope shared by the engine and the Rust SDK                *)
(* (akribes-types/src/error.rs, akribes-sdk/src/error.rs): the kinds, the  *)
(* stable codes and the kind each rolls up to, what a consumer is told to  *)
(* do about them, and the two places that turn something else into an      *)
(* error of this family: an HTTP status and the record of a failed         *)
(* execution.  Messages are left out.                                      *)
(***************************************************************************)
EXTENDS Integers

NoneOpt == "None"  \* Option::None

ServerErrorKinds ==
  {"ServerError500", "BadGateway502", "ServiceUnavailable503", "GatewayTimeout504"}

TransientKinds == ServerErrorKinds \cup {"RateLimit", "NetworkError"}

UserActionableKinds ==
  {"AuthError", "TokenLimit", "Timeout", "ScriptError", "ScriptDepthExceeded", "AuthorRaise"}

ErrorKind ==
  TransientKinds \cup UserActionableKinds \cup {"ParseError", "Cancelled", "Panic", "Internal"}

is_transient(k) == k \in TransientKinds
is_server_error(k) == k \in ServerErrorKinds
is_user_actionable(k) == k \in UserActionableKinds

base_backoff_ms(k) ==
  CASE k \in {"RateLimit", "ServiceUnavailable503"} -> 2000
    [] k \in {"ServerError500", "BadGateway502", "NetworkError"} -> 1000
    [] k = "GatewayTimeout504" -> 4000
    [] OTHER -> 0        \* no backoff: not a kind to retry

SuggestedAction ==
  {"Retry", "FixConfig", "FixScript", "FixInput", "HandleAuthorFailure", "None", "Report"}

suggested_action(k) ==
  CASE k \in TransientKinds -> "Retry"
    [] k = "AuthError" -> "FixConfig"
    [] k \in {"TokenLimit", "Timeout"} -> "FixInput"
    [] k \in {"ScriptError", "ScriptDepthExceeded", "ParseError"} -> "FixScript"
    [] k = "AuthorRaise" -> "HandleAuthorFailure"
    [] k = "Cancelled" -> "None"
    [] k \in {"Panic", "Internal"} -> "Report"

-----------------------------------------------------------------------------
(* Codes. *)

InternalCodes ==
  {"InternalDroppedChannel", "InternalDeadlock", "InternalTaskAborted", "InternalOther"}

ScriptCodes ==
  {"ScriptError", "ToolBudgetExceeded", "ToolApprovalProtocol", "ToolNoRegistry", "ToolError",
   "AgentToolsDoubleDispatch", "LoopOutputBudgetExceeded", "LoopMultiCheckpoint",
   "ContextOverflow", "ContextNativeUnsupported", "ContextCompactionExhausted",
   "CompactionThresholdInvalid", "CompactorSignature", "CompactionLoopOnly",
   "PartialRetryExhausted", "StdFormatMissing", "StdFormatSyntax", "StdJsonParse",
   "StdJsonStringify", "StdRegexInvalid", "Other"}

\* The codes that belong to a kind.
CodesOf(k) ==
  CASE k = "Cancelled" -> {"UserCancelled"}
    [] k = "Timeout" -> {"ExecutionTimeout", "CheckpointTimeout"}
    [] k = "RateLimit" -> {"ProviderRateLimit"}
    [] k = "AuthError" -> {"ProviderAuth", "ConfigMissing"}
    [] k = "TokenLimit" -> {"ProviderTokenLimit"}
    [] k = "ServerError500" -> {"ProviderServer", "ProviderServer500", "ProviderOther"}
    [] k = "BadGateway502" -> {"ProviderBadGateway502"}
    [] k = "ServiceUnavailable503" -> {"ProviderServiceUnavailable503"}
    [] k = "GatewayTimeout504" -> {"ProviderGatewayTimeout504"}
    [] k = "NetworkError" -> {"ProviderNetwork"}
    [] k = "ParseError" -> {"ProviderParse"}
    [] k = "Panic" -> {"InternalPanic"}
    [] k = "Internal" -> InternalCodes
    [] k = "ScriptError" -> ScriptCodes
    [] k = "ScriptDepthExceeded" -> {"ScriptDepthExceeded"}
    [] k = "AuthorRaise" -> {"AuthorRaise"}

ErrorCode == UNION {CodesOf(k) : k \in ErrorKind}

\* ErrorCode::kind.
KindOf(c) == CHOOSE k \in ErrorKind : c \in CodesOf(k)

\* The code from_kind picks when nothing more specific is known.
CodeOfKind(k) ==
  CASE k = "Cancelled" -> "UserCancelled"
    [] k = "Timeout" -> "ExecutionTimeout"
    [] k = "RateLimit" -> "ProviderRateLimit"
    [] k = "AuthError" -> "ProviderAuth"
    [] k = "TokenLimit" -> "ProviderTokenLimit"
    [] k = "ServerError500" -> "ProviderServer500"
    [] k = "BadGateway502" -> "ProviderBadGateway502"
    [] k = "ServiceUnavailable503" -> "ProviderServiceUnavailable503"
    [] k = "GatewayTimeout504" -> "ProviderGatewayTimeout504"
    [] k = "NetworkError" -> "ProviderNetwork"
    [] k = "ParseError" -> "ProviderParse"
    [] k = "Panic" -> "InternalPanic"
    [] k = "Internal" -> "InternalOther"
    [] k \in {"ScriptError", "ScriptDepthExceeded", "AuthorRaise"} -> k

\* ErrorDetail: hint is the retry_after_ms a provider sent, or None.
ErrorDetail(k, c, hint) == [kind |-> k, code |-> c, hint |-> hint]

NewDetail(c) == ErrorDetail(KindOf(c), c, NoneOpt)

\* from_kind looks for a hint in the message of the transient kinds only.
FromKind(k, hint) == ErrorDetail(k, CodeOfKind(k), IF k \in TransientKinds THEN hint ELSE NoneOpt)

is_retryable(d) == d.hint # NoneOpt \/ is_transient(d.kind)

-----------------------------------------------------------------------------
(* Errors of the Rust SDK. *)

\* AkribesError: its variant, the HTTP status and the execution it names.
SdkError(variant, status, eid) == [variant |-> variant, status |-> status, eid |-> eid]

NoStatus == 0

recommended_backoff_ms(status) ==
  CASE status \in {429, 503} -> 2000
    [] status \in {500, 502} -> 1000
    [] status = 504 -> 4000
    [] OTHER -> 0

\* await_execution: what the error_kind column of a failed or cancelled
\* execution becomes.  The column is text: it may hold the legacy
\* "ServerError", nothing, or a kind this SDK does not know.
StatusOfKind(k) ==
  CASE k = "ServerError500" -> 500
    [] k = "BadGateway502" -> 502
    [] k = "ServiceUnavailable503" -> 503
    [] k = "GatewayTimeout504" -> 504
    [] k = "RateLimit" -> 429
    [] OTHER -> NoStatus

ExecutionError(k, eid) ==
  CASE k \in TransientKinds \cup {"ServerError"} -> SdkError("Transient", StatusOfKind(k), eid)
    [] k \in {"AuthError", "TokenLimit"} -> SdkError("Fatal", NoStatus, eid)
    [] OTHER -> SdkError("Script", NoStatus, eid)
=============================================================================
