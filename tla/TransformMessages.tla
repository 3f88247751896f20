-------------------------- MODULE TransformMessages --------------------------
(***************************************************************************)
(* pi.ai.core.providers.transformMessages: what a provider sends of a      *)
(* context. Failed answers are left out, and a call that has no result     *)
(* before the next message of another role is given one that says so.      *)
(*                                                                         *)
(* A message has a role ("user", "answer", "failed", "result") and calls:  *)
(* those an answer makes, or the one a result is of. The rewriting of      *)
(* images, thinking and foreign ids within a message is left out.          *)
(***************************************************************************)
EXTENDS Naturals, FiniteSets, SequencesExt

Message(role, calls) == [role |-> role, calls |-> calls]

(* Where the pass over the messages stands.                                *)
Start == [result |-> <<>>, pendingToolCalls |-> {}, existingToolResultIds |-> {}]

(* The order of the results of one answer tells nothing here. *)
InsertSyntheticToolResults(s) ==
  LET missing == SetToSeq(s.pendingToolCalls \ s.existingToolResultIds)
  IN  [Start EXCEPT !.result =
         s.result \o [i \in DOMAIN missing |-> Message("result", {missing[i]})]]

TransformMessage(s, m) ==
  CASE m.role = "result" ->
         [s EXCEPT !.result = Append(@, m), !.existingToolResultIds = @ \cup m.calls]
    [] m.role = "failed" -> InsertSyntheticToolResults(s)
    [] m.role = "user"   ->
         [InsertSyntheticToolResults(s) EXCEPT !.result = Append(@, m)]
    [] m.role = "answer" ->
         [InsertSyntheticToolResults(s) EXCEPT
            !.result = Append(@, m), !.pendingToolCalls = m.calls]

(* pass[i] is where the pass stands behind the first i messages.           *)
Pass(messages) ==
  LET pass[i \in 0..Len(messages)] ==
        IF i = 0 THEN Start ELSE TransformMessage(pass[i - 1], messages[i])
  IN  pass[Len(messages)]

Transform(messages) == InsertSyntheticToolResults(Pass(messages)).result

-----------------------------------------------------------------------------
(* What providers accept: right behind each answer the results of its      *)
(* calls, one of each, and no other result anywhere.                       *)

(* The results between message i and the next message of another role. *)
ResultsBehind(ms, i) ==
  {j \in DOMAIN ms : j > i /\ \A k \in (i + 1)..j : ms[k].role = "result"}

WellFormed(ms) ==
  /\ \A i \in DOMAIN ms : ms[i].role # "failed"
  /\ \A i \in DOMAIN ms : ms[i].role = "answer" =>
       \A c \in ms[i].calls :
         Cardinality({j \in ResultsBehind(ms, i) : ms[j].calls = {c}}) = 1
  /\ \A j \in DOMAIN ms : ms[j].role = "result" =>
       \E i \in DOMAIN ms : /\ ms[i].role = "answer"
                            /\ j \in ResultsBehind(ms, i)
                            /\ ms[j].calls \subseteq ms[i].calls
=============================================================================
