------------------------------ MODULE EventHub ------------------------------
(***************************************************************************)
(* The server's side of one project's event stream, as the three SDKs use  *)
(* it.  The server is not part of the repository: what is modelled is what *)
(* the clients rely on.                                                    *)
(*                                                                         *)
(*  - The hub publishes events in one order.  `log' is that order; the     *)
(*    index of an event is the `id:' (Rust, TypeScript) or the top-level   *)
(*    `seq' (Python) its frame carries.                                    *)
(*  - A subscriber's connection is a position in the log: the index of the *)
(*    next event it will read.  Events published while no connection is up *)
(*    are seen only if the server resumes from the cursor the client sends *)
(*    back on reconnect (`Replay').                                        *)
(*  - `run' is the server's view of the one run the modelled handle        *)
(*    started.  Another caller may be running the same script meanwhile.   *)
(***************************************************************************)
EXTENDS Sequencing

CONSTANTS
  MaxEvents,  \* bound of the model: events the hub ever publishes
  Replay,     \* does the server resume from Last-Event-ID?
  Stamped     \* does the server stamp execution_id on Execution events?

ASSUME EventHubAssumption ==
  /\ MaxEvents \in Nat \ {0}
  /\ Replay \in BOOLEAN
  /\ Stamped \in BOOLEAN

(***************************************************************************)
(* Whose event it is: the modelled handle's run, another run of the same   *)
(* script, or the hub itself (Registry, Bench, or another script's events, *)
(* which every client skips).                                              *)
(***************************************************************************)
Source == {"own", "other", "hub"}

\* The kinds of event a handle tells apart: WorkflowEnd, Error, anything else.
Kind == {"progress", "end", "error"}

Terminal == {"end", "error"}

Event == {e \in [src : Source, kind : Kind] : e.src = "hub" => e.kind = "progress"}

VARIABLES
  log,  \* every event published, in order
  run   \* "absent" -> "running" -> "finished", the server's row of our run

hubVars == <<log, run>>

HubTypeOK ==
  /\ log \in Seq(Event)
  /\ run \in {"absent", "running", "finished"}

HubInit ==
  /\ log = <<>>
  /\ run = "absent"

(***************************************************************************)
(* Events that belong to our run; events a client cannot tell from them (a *)
(* server that does not stamp execution_id lets another run's through).    *)
(***************************************************************************)
Own(i) == log[i].src = "own"

Matches(i) == Own(i) \/ (~Stamped /\ log[i].src = "other")

IsTerminal(i) == log[i].kind \in Terminal

\* Where a connection that presents `cursor' (0 for none) starts reading.
ResumeAt(cursor) == IF Replay /\ cursor # 0 THEN cursor + 1 ELSE Len(log) + 1

\* POST /run is accepted: the run row exists and its engine starts.
HubAccept ==
  /\ run = "absent"
  /\ run' = "running"
  /\ UNCHANGED log

(***************************************************************************)
(* The last slot of the bounded log is kept for our run's terminal event,  *)
(* so that the bound never stops the run from finishing.                   *)
(***************************************************************************)
HubPublish(e) ==
  /\ e.src = "own" => run = "running"
  /\ \/ Len(log) + 1 < MaxEvents
     \/ /\ Len(log) < MaxEvents
        /\ e.src = "own"
        /\ e.kind \in Terminal
  /\ log' = Append(log, e)
  /\ run' = IF e.src = "own" /\ e.kind \in Terminal THEN "finished" ELSE run

\* The engine always ends a run it has started, with WorkflowEnd or Error.
HubFinish == \E k \in Terminal : HubPublish([src |-> "own", kind |-> k])
=============================================================================
