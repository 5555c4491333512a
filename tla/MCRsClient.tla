----------------------------- MODULE MCRsClient -----------------------------
(***************************************************************************)
(* TLC instances of RsClient; the values of the constants are in the cfg   *)
(* files.  Two AkribesClient handles can be dropped at the same moment, one *)
(* sub-client can outlive both, two init calls can overlap each other, a   *)
(* destroy and a notice; three versions let an update fall before, during  *)
(* and after an init.                                                      *)
(***************************************************************************)
EXTENDS RsClient

-----------------------------------------------------------------------------
(***************************************************************************)
(* "`.destroy()` (or dropping `client`) stops it cleanly"                  *)
(* (examples/quick_start.rs): once every handle is gone, so is every       *)
(* heartbeat.                                                              *)
(***************************************************************************)
LastDropStops ==
  \A b \in Inits : (strong = 0 /\ Running(b)) ~> ~Running(b)
=============================================================================
