--------------------------- MODULE MCAuthStorage ---------------------------
(* Two callers: two threads on one storage, two storages of one process, or *)
(* two processes. One provider has OAuth tokens, the other a key. *)
EXTENDS AuthStorage

CONSTANTS a, b, s1, s2, p1, p2, codex, anthropic

TwoCallers   == {a, b}
TwoStorages  == {s1, s2}
TwoProcesses == {p1, p2}
TwoProviders == {codex, anthropic}
Codex        == {codex}

ThreeLayouts ==
  {l \in [storage : [Callers -> Storages], process : [Storages -> Processes]] :
     /\ l.storage[a] = s1 /\ l.process[s1] = p1
     /\ l.storage[b] = s1 => l.process[s2] = p1}
=============================================================================
