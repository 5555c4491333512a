--------------------------- MODULE MCTsRunStream ----------------------------
(***************************************************************************)
(* TLC instances of TsRunStream; the values of the constants are in the    *)
(* cfg files.  Of two iterators one may return early or lag behind the     *)
(* other (one for the liveness, whose graph is larger); MaxEvents = 3      *)
(* gives an event before our run's, one of ours and the terminal one in    *)
(* every order; MaxBreaks = 2 a connection lost before the handle joins it *)
(* and another one after.                                                  *)
(***************************************************************************)
EXTENDS TsRunStream

-----------------------------------------------------------------------------
(***************************************************************************)
(* "subscribe BEFORE issuing the run POST so we don't miss early events"   *)
(* (runStream.ts): nothing is missed unless a connection was lost.         *)
(***************************************************************************)
NoEarlyMiss == breaks = 0 => missed = {}
=============================================================================
