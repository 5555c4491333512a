---------------------------- MODULE RsServerCalls ----------------------------
(***************************************************************************)
(* The request side of the Rust SDK: callers of the resource clients       *)
(* (RsCalls), a document and a run over it (RsDocumentRun), the results of *)
(* a bench run (RsBench).  They share no state, so a behaviour follows one *)
(* of them, its plan, while the others wait where they start.              *)
(***************************************************************************)
EXTENDS RsCalls, RsDocumentRun, RsBench

VARIABLE plan

vars == <<plan, callVars, docVars, benchVars>>

Init ==
  /\ plan \in {"calls", "document", "bench"}
  /\ IF plan = "calls" THEN CallsInit ELSE item = FALSE /\ calls = [c \in Callers |-> NoCall]
  /\ IF plan = "document" THEN DocInit
     ELSE blob = "absent" /\ runs = [r \in RunId |-> Unused] /\ job = NewJob(FALSE)
  /\ BenchInit

Next ==
  \/ plan = "calls" /\ CallsNext /\ UNCHANGED <<plan, docVars, benchVars>>
  \/ plan = "document" /\ DocNext /\ UNCHANGED <<plan, callVars, benchVars>>
  \/ plan = "bench" /\ BenchNext /\ UNCHANGED <<plan, callVars, docVars>>

(***************************************************************************)
(* tokio polls a task that can go on; every request is answered, at worst  *)
(* by its own 60 s timeout; time passes; the server goes on writing the    *)
(* body of a stream it holds open.  None for what others do to the server. *)
(***************************************************************************)
CallGoesOn(c) == Refuse(c) \/ Serve(c) \/ Return(c)
JobGoesOn == JobServed \/ JobStep

Fairness ==
  /\ \A c \in Callers : WF_vars(plan = "calls" /\ CallGoesOn(c) /\ UNCHANGED <<plan, docVars, benchVars>>)
  /\ WF_vars(plan = "document" /\ JobGoesOn /\ UNCHANGED <<plan, callVars, benchVars>>)
  /\ WF_vars(plan = "document" /\ Expire /\ UNCHANGED <<plan, callVars, benchVars>>)
  /\ WF_vars(plan = "bench" /\ BenchClient /\ UNCHANGED <<plan, callVars, docVars>>)
  /\ WF_vars(plan = "bench" /\ Write /\ UNCHANGED <<plan, callVars, docVars>>)

Spec == Init /\ [][Next]_vars /\ Fairness

-----------------------------------------------------------------------------
TypeOK == plan \in {"calls", "document", "bench"} /\ CallsTypeOK /\ DocTypeOK /\ BenchTypeOK

(***************************************************************************)
(* Nobody waits for ever: a call comes back, ingest and an await with a    *)
(* timeout end although the blob may convert, vanish and come back for     *)
(* ever and the run may never end, and the channel of a bench run closes   *)
(* after the run has ended.  An await without a timeout has no such        *)
(* promise.                                                                *)
(***************************************************************************)
CallsSettle ==
  /\ \A c \in Callers : calls[c].pc = "sent" ~> calls[c].pc = "done"
  /\ (plan = "document" /\ job.deadline) ~> job.at = "done"
  /\ (plan = "document" /\ job.at \in {"claim", "upload"}) ~> job.at \notin {"claim", "upload"}
  /\ (plan = "bench" /\ run.ended) ~> bench \in {"closed", "refused"}
=============================================================================
