--------------------------- MODULE WorkflowEvents ---------------------------
(***************************************************************************)
(* What the Rust SDK makes of an engine event (akribes-sdk/src/events.rs,  *)
(* suspend.rs, task_end.rs, runtime.rs, models.rs): the projection of      *)
(* EngineEvent onto WorkflowEvent, the categories, which events end a run, *)
(* and the two decoders of a wire envelope.  A typed event is              *)
(* [arm |-> its variant, tag |-> the enumeration it carries, data |-> the  *)
(* rest, path |-> the frames of the sub-scripts around it].                *)
(***************************************************************************)
EXTENDS EngineEvents

WorkflowEvent(arm, tag, data, path) == [arm |-> arm, tag |-> tag, data |-> data, path |-> path]

\* The arms with an EngineEvent variant of their own.
ArmOf ==
  [WorkflowStart |-> "Start", WorkflowEnd |-> "End", TaskStart |-> "TaskStart",
   TaskEnd |-> "TaskEnd", AgentOutput |-> "AgentChunk", ToolCallStart |-> "ToolCallStart",
   ToolCallEnd |-> "ToolCallEnd", Suspended |-> "Checkpoint", ToolApprovalPending |-> "ToolApproval",
   Breakpoint |-> "Breakpoint", Error |-> "Error", ValidationFailure |-> "ValidationFailure"]

RuntimeArms == {"RuntimeStart", "RuntimeStdout", "RuntimeStderr", "RuntimeEnd", "RuntimeError"}

EventCategory ==
  [Start |-> "Progress", End |-> "Progress", TaskStart |-> "Progress", TaskEnd |-> "Progress",
   RuntimeStart |-> "Progress", RuntimeEnd |-> "Progress",
   AgentChunk |-> "Output", RuntimeStdout |-> "Output", RuntimeStderr |-> "Output",
   ValidationFailure |-> "Output",
   ToolCallStart |-> "Tool", ToolCallEnd |-> "Tool",
   Checkpoint |-> "Suspend", ToolApproval |-> "Suspend", Breakpoint |-> "Suspend",
   Error |-> "Error", RuntimeError |-> "Error", Other |-> "Other"]

category(w) == EventCategory[w.arm]
is_terminal(w) == w.arm \in {"End", "Error"}

\* The tag an arm carries: the mirrors of SuspendTrigger (its category is free
\* text here) and TaskEndVariant, and the code of an error.
MirrorTag(leaf) ==
  CASE leaf.type = "Suspended" -> DecodedTag(leaf)
    [] leaf.type = "TaskEnd" -> TaskEndTag(DecodedTag(leaf))
    [] leaf.type = "Error" -> DecodedCode(leaf)
    [] OTHER -> ""

\* What is kept of the payload: the output as JSON and the totals of an end.
ArmData(leaf) ==
  IF leaf.type = "WorkflowEnd"
  THEN LET end == EndFromJson(leaf.data)
       IN  [output |-> to_json(end.value), totals |-> end.totals]
  ELSE leaf.data

ProjectLeaf(leaf) ==
  IF leaf.type \in DOMAIN ArmOf
  THEN WorkflowEvent(ArmOf[leaf.type], MirrorTag(leaf), ArmData(leaf), <<>>)
  ELSE WorkflowEvent("Other", leaf.type, leaf.data, <<>>)

\* From<EngineEvent>: a sub-script's events stay inside their envelope.
FromEngineEvent(e) ==
  LET flat == flatten_subscript_chain(e)
  IN  IF flat.env = <<>> THEN ProjectLeaf(flat.leaf)
      ELSE WorkflowEvent("Other", "SubScript", flat.leaf, Append(flat.env[1].path, flat.env[1].own))

\* RuntimeErrorKind::from_wire.
RuntimeErrorKind(s) ==
  IF s \in {"NotConfigured", "Timeout", "SandboxUnavailable", "OomKilled", "Cancelled", "Internal"}
  THEN s ELSE "Unknown"

\* from_envelope_json tries the Runtime* decoder by the outer type first.
FromEnvelopeJson(e) ==
  IF e.env = <<>> /\ e.leaf.type \in RuntimeArms
  THEN WorkflowEvent(e.leaf.type,
                     IF e.leaf.type = "RuntimeError" THEN RuntimeErrorKind(e.leaf.tag) ELSE "",
                     e.leaf.data, <<>>)
  ELSE FromEngineEvent(e)
=============================================================================
