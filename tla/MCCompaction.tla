---------------------------- MODULE MCCompaction ----------------------------
(* An answer or a result may fill the budget by itself, a prompt takes half *)
(* of it. *)
EXTENDS Compaction

SomeSizes ==
  [role \in Messages |-> CASE role = "user"   -> {1}
                           [] role = "answer" -> {1, 2}
                           [] role = "failed" -> {0}
                           [] role = "result" -> {2}]
=============================================================================
