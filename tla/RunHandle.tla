----------------------------- MODULE RunHandle ------------------------------
(***************************************************************************)
(* What every SDK promises of a run stream, whatever its transport: the    *)
(* handle yields events of its own run, in the order the hub published     *)
(* them, each at most once; it settles at most once; and when it settles   *)
(* with an output or a script error, that is its own run's terminal event  *)
(* and the last event it yields.  It may skip events (a subscription that  *)
(* drops loses them) and it may be closed without a terminal event.        *)
(*                                                                         *)
(* The Rust, TypeScript and Python run streams are shown to implement this *)
(* specification, each through its own queues, filters and buffers.        *)
(***************************************************************************)
EXTENDS EventHub

VARIABLES
  seen,    \* indices of the events yielded to the caller, oldest first
  outcome  \* "pending", a terminal kind, or "closed" (no terminal event)

handleVars == <<log, run, seen, outcome>>

\* The newest index in a sequence of log indices, 0 if there is none.
Newest(s) == IF s = <<>> THEN 0 ELSE s[Len(s)]

HandleTypeOK ==
  /\ HubTypeOK
  /\ seen \in Seq(Nat)
  /\ outcome \in {"pending", "end", "error", "closed"}

HandleInit ==
  /\ HubInit
  /\ seen = <<>>
  /\ outcome = "pending"

\* The caller is given event i; a terminal one settles the handle.
Yield(i) ==
  /\ outcome = "pending"
  /\ Newest(seen) < i
  /\ Matches(i)
  /\ seen' = Append(seen, i)
  /\ outcome' = IF IsTerminal(i) THEN log[i].kind ELSE "pending"
  /\ UNCHANGED hubVars

\* The handle is closed, cancelled or fails with no terminal event.
Close ==
  /\ outcome = "pending"
  /\ outcome' = "closed"
  /\ UNCHANGED <<hubVars, seen>>

HandleHub ==
  /\ HubAccept \/ \E e \in Event : HubPublish(e)
  /\ UNCHANGED <<seen, outcome>>

HandleNext == HandleHub \/ Close \/ \E i \in 1..Len(log) : Yield(i)

HandleSpec == HandleInit /\ [][HandleNext]_handleVars
=============================================================================
