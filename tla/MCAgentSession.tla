--------------------------- MODULE MCAgentSession ---------------------------
(* Two coroutines that call one session. *)
EXTENDS AgentSession, TLC

CONSTANTS a, b

TwoCallers == {a, b}
Symmetry   == Permutations({a, b})
=============================================================================
