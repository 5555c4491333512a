----------------------------- MODULE HubLemmas ------------------------------
(***************************************************************************)
(* Lemmas the proofs about the three run streams share: what a reconnect   *)
(* passes over, and what publishing does to the log.                       *)
(***************************************************************************)
EXTENDS EventHub, SequencingProofs

(***************************************************************************)
(* The events a reconnect passes over are events before its new position.  *)
(***************************************************************************)
LEMMA PassedOver ==
  ASSUME NEW from \in Nat \ {0}, NEW to \in Nat
  PROVE  \A i \in from..(to - 1) : i \in 1..(to - 1)
  OBVIOUS

(***************************************************************************)
(* And a connection is never ahead of the log.                             *)
(***************************************************************************)
LEMMA PassedOverInLog ==
  ASSUME NEW from \in Nat \ {0}, NEW to \in Nat, NEW n \in Nat, to <= n + 1
  PROVE  \A i \in from..(to - 1) : i \in 1..n
  OBVIOUS

(***************************************************************************)
(* What a connection has gone past stays past.                             *)
(***************************************************************************)
LEMMA StaysPast ==
  ASSUME NEW from \in Nat, NEW to \in Nat, from <= to
  PROVE  \A i \in 1..(from - 1) : i \in 1..(to - 1)
  OBVIOUS

(***************************************************************************)
(* Publishing keeps the log well typed and leaves every event already in   *)
(* it where it is.                                                         *)
(***************************************************************************)
LEMMA PublishAppends ==
  ASSUME HubTypeOK, NEW e \in Event, HubPublish(e)
  PROVE  /\ HubTypeOK'
         /\ Len(log') = Len(log) + 1
         /\ \A i \in 1..Len(log) : log'[i] = log[i]
         /\ log'[Len(log) + 1] = e
         /\ run = "finished" => run' = "finished"
         /\ run # "absent" => run' # "absent"
         /\ e.src = "own" => run' # "absent"
  BY DEF HubTypeOK, HubPublish, Terminal
=============================================================================
