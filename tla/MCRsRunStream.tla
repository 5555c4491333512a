--------------------------- MODULE MCRsRunStream ----------------------------
(***************************************************************************)
(* TLC instances of RsRunStream; the values of the constants are in the    *)
(* cfg files.  MaxEvents = 3 gives an event of ours or of another run      *)
(* before, between or after ours, and the terminal one; MaxRetries = 2 (5  *)
(* in the code) a reconnect before the first frame and one after it, then  *)
(* giving up.                                                              *)
(***************************************************************************)
EXTENDS RsRunStream

-----------------------------------------------------------------------------
(***************************************************************************)
(* A healthy world: every connection attempt succeeds, the network and the *)
(* server never break or end a stream, no POST fails, the server replays   *)
(* from Last-Event-ID, and the caller neither cancels nor drops.  Only the *)
(* client's own request timeout is left to end a connection.               *)
(***************************************************************************)
HealthyNext ==
  \/ \E e \in Event : Publish(e)
  \/ Connect \/ Deliver \/ DeliverClosed \/ RequestTimeout
  \/ Subscribed \/ PostAccepted \/ PostReturns
  \/ Filter
  \/ NextEvent \/ NextClosed

HealthySpec == Init /\ [][HealthyNext]_vars

(***************************************************************************)
(* "Kick off the run now that we're guaranteed to receive events."         *)
(* (sub/run_stream.rs): in such a world the handle is given its run's      *)
(* terminal event; it is never told that the stream ended without one.     *)
(***************************************************************************)
GuaranteedToReceive == outcome # "closed"
=============================================================================
