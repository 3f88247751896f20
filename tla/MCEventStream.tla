--------------------------- MODULE MCEventStream ---------------------------
(* Small instances of EventStream for TLC. *)
EXTENDS EventStream

CONSTANTS loop, t1, t2,     (* agentLoop() and two parallel tools           *)
          p1, p2, p3,       (* writers that know nothing of each other      *)
          e1, e2, e3,       (* events                                       *)
          done, failed,     (* terminal events of a provider                *)
          messages          (* what end() is handed                         *)

Idle == [p \in Producers |-> <<>>]

(* agentLoop(): an event, two parallel tools, agent_end, end(messages).    *)
LoopProgram ==
  (loop :> <<Push(e1), Join, Push(AgentEnd), EndWith(messages)>>) @@
  (t1 :> <<Push(e2), Push(e2)>>) @@ (t2 :> <<Push(e3)>>) @@ Idle

(* Two producers that both complete the stream while a third ends it.      *)
RaceProgram ==
  (p1 :> <<Push(done), Push(e2)>>) @@ (p2 :> <<Push(e1), Push(failed)>>) @@
  (p3 :> <<EndWith(messages)>>) @@ Idle

LoopAndRace == {LoopProgram, RaceProgram}
=============================================================================
