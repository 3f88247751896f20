----------------------- MODULE MCOpenAICodexResponses -----------------------
(* Two requests of a session, which ask for the transport its settings     *)
(* say; its conversation goes on or starts anew. *)
EXTENDS OpenAICodexResponses, TLC

CONSTANTS req1, req2

Symmetry     == Permutations({req1, req2})
TwoRequests  == {req1, req2}
OneTransport == {[r \in Requests |-> t] : t \in {"cached", "auto"}}
SomeInputs   == {<<"u">>, <<"u", "x", "u">>}
=============================================================================
