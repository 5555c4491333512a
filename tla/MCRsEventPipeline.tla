-------------------------- MODULE MCRsEventPipeline --------------------------
(***************************************************************************)
(* Instance of RsEventPipeline: logs of up to three events.  The first is  *)
(* drawn from one event of every kind of decoding (a field left out, a tag *)
(* nobody knows, a type nobody knows), the second from those that change   *)
(* the totals or the frames, the last from the ways a run can end.         *)
(***************************************************************************)
EXTENDS RsEventPipeline

Ev(frames, nested, type, lacks, tag, data) ==
  [frames |-> frames, nested |-> nested, type |-> type, lacks |-> lacks, tag |-> tag, data |-> data]

Top(type, lacks, tag, data) == Ev(<<>>, FALSE, type, lacks, tag, data)
End(value, legacy) == Top("WorkflowEnd", {}, "", [value |-> value, legacy |-> legacy])

Usage == [input |-> 2, output |-> 1]
Thinking == [input |-> 1, thinking |-> 3]
Deep == <<"a", "b", "c">>

First ==
  <<Top("TaskEnd", {}, "unable", Usage),
    Top("TaskEnd", {"usage", "variant"}, "", NoUsage),
    Top("Suspended", {"trigger"}, "", "token"),
    Top("Suspended", {}, "BudgetExhausted", "token"),
    Top("RuntimeError", {}, "OomKilled", "text"),
    Top("ScriptUpdated", {}, "", "text"),
    Ev(Deep, TRUE, "TaskEnd", {}, "later", Thinking)>>

Second ==
  <<Top("TaskEnd", {"task"}, "success", Thinking),
    Ev(<<"a">>, FALSE, "Suspended", {}, "AgentUnable:capability", "token"),
    Ev(Deep, FALSE, "TaskEnd", {}, "success", Thinking),
    Ev(Deep, FALSE, "WorkflowEnd", {}, "", [value |-> Value("Int", 1), legacy |-> FALSE]),
    End(Value("Int", 7), FALSE)>>

Fields == [value |-> Value("Int", 1), cost |-> Value("String", "text")]

Third ==
  <<End(Value("Object", [key |-> Value("Secret", "secret")]), FALSE),
    End(Value("Union", [variant |-> "Arm", payload |-> Value("Object", [kind |-> Value("Bool", TRUE)])]), FALSE),
    End(Value("List", <<Value("Decimal", "NaN"), Value("Document", "text")>>), TRUE),
    End(Value("Object", Fields), TRUE),
    End(FatalCode("ProviderRateLimit"), FALSE),
    Ev(Deep, TRUE, "Error", {}, "Timeout", "CheckpointTimeout"),
    Top("Error", {"code"}, "Timeout", "")>>

MCEmissions == <<First, Second, Third>>
=============================================================================
