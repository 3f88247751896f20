------------------------------ MODULE MCAgent ------------------------------
(* Small instances of Agent for TLC. *)
EXTENDS Agent

CONSTANTS c1, c2, c3

(* c1 names a sequential tool: the first batch is sequential as a whole,   *)
(* the second is parallel.                                                 *)
MixedBatches == {<<>>, <<c1, c2>>, <<c2, c3>>}
=============================================================================
