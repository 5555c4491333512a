--------------------------- MODULE MCRsServerCalls ---------------------------
(***************************************************************************)
(* Instance of RsServerCalls: two callers, one repetition each; a job that *)
(* is repeated once, so two executions; a bench run of four results, the   *)
(* second undecodable, through a buffer of two.                            *)
(***************************************************************************)
EXTENDS RsServerCalls

CONSTANTS caller1, caller2, run1, run2

MCCallers == {caller1, caller2}
MCRunId == {run1, run2}
MCOdd == {2}
=============================================================================
