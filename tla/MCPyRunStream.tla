--------------------------- MODULE MCPyRunStream ----------------------------
(***************************************************************************)
(* TLC instances of PyRunStream; the values of the constants are in the    *)
(* cfg files.  MaxEvents = 3 gives an event before our run's, one of ours  *)
(* and the terminal one in every order; MaxRetries = 1 (5 in the code) a   *)
(* retry and the exception after it; MaxBreaks = 1 a reconnect or a lag    *)
(* before the first event or after it.                                     *)
(***************************************************************************)
EXTENDS PyRunStream

-----------------------------------------------------------------------------
(***************************************************************************)
(* "_sse_ready is only set once the HTTP GET has returned 2xx and the SSE  *)
(* stream is live" (run_stream.py): on SSE, the run is POSTed only then.    *)
(***************************************************************************)
ReadyMeansLive == (start = "posting" /\ transport = "sse") => ready = "live"

(***************************************************************************)
(* "Always release any awaiter" (run_stream.py, the finally of _listen):   *)
(* once the listener has stopped, output(), which awaits _done, returns.   *)
(***************************************************************************)
AwaitersReleased == (Known /\ lpc \in {"closed", "done"}) ~> (outcome # "pending")
=============================================================================
