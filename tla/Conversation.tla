--------------------------- MODULE Conversation ---------------------------
(***************************************************************************)
(* What an agent promises about its transcript, whatever the schedule of   *)
(* the loop, its tools and its callers: the messages of `AgentState` form  *)
(* a conversation in which a tool result only ever answers the oldest      *)
(* unanswered tool call of the latest assistant message, and nothing else  *)
(* is said before the last of them is answered, unless the run fails.      *)
(*                                                                         *)
(* Agent.tla (the loop and the class around it) implements this module.    *)
(***************************************************************************)
EXTENDS Naturals, Sequences

CONSTANTS
  Msgs,    (* identities of the user messages callers hand to the agent    *)
  Calls,   (* identities of the tool calls of an assistant message         *)
  CallSeqs (* the lists of tool calls an assistant message may hold        *)

(* What the theorems ask of the constants; Agent assumes it of its own.     *)
CallSeqsAssumption ==
  /\ CallSeqs \subseteq Seq(Calls)
  /\ <<>> \in CallSeqs

VARIABLES
  transcript,  (* AgentState.messages                                      *)
  owed         (* tool calls of the last assistant message without result  *)

vars == <<transcript, owed>>

(* StopReason, folded to what the loop distinguishes. *)
Stops == {"done", "error", "aborted"}

UserMsg(m)          == [role |-> "user", id |-> m]
AssistantMsg(s, cs) == [role |-> "assistant", stop |-> s, calls |-> cs]
ToolResultMsg(c)    == [role |-> "toolResult", call |-> c]

UserMsgs       == [role : {"user"}, id : Msgs]
AssistantMsgs  == [role : {"assistant"}, stop : Stops, calls : CallSeqs]
ToolResultMsgs == [role : {"toolResult"}, call : Calls]
Entries        == UserMsgs \cup AssistantMsgs \cup ToolResultMsgs

(* The calls an assistant message obliges the agent to answer: an error or *)
(* aborted message ends the run and its calls are never executed.          *)
Obliges(s, cs) == IF s = "done" THEN cs ELSE <<>>

TypeOK ==
  /\ transcript \in Seq(Entries)
  /\ owed \in Seq(Calls)

Init ==
  /\ transcript = <<>>
  /\ owed = <<>>

(* A prompt, a steering message or a follow-up is delivered. *)
Say(m) ==
  /\ owed = <<>>
  /\ transcript' = Append(transcript, UserMsg(m))
  /\ UNCHANGED owed

(* The model answers. *)
Answer(s, cs) ==
  /\ owed = <<>>
  /\ transcript' = Append(transcript, AssistantMsg(s, cs))
  /\ owed' = Obliges(s, cs)

(* The oldest unanswered tool call gets its result. *)
Respond ==
  /\ owed # <<>>
  /\ transcript' = Append(transcript, ToolResultMsg(Head(owed)))
  /\ owed' = Tail(owed)

(* The run fails: the failure message releases every call still owed. *)
Fail(s) ==
  /\ s \in {"error", "aborted"}
  /\ transcript' = Append(transcript, AssistantMsg(s, <<>>))
  /\ owed' = <<>>

(* The caller clears the transcript, in a run or between runs. *)
Forget ==
  /\ transcript' = <<>>
  /\ UNCHANGED owed

Next ==
  \/ \E m \in Msgs : Say(m)
  \/ \E s \in Stops, cs \in CallSeqs : Answer(s, cs)
  \/ Respond
  \/ \E s \in {"error", "aborted"} : Fail(s)
  \/ Forget

Spec == Init /\ [][Next]_vars

-----------------------------------------------------------------------------
(* The calls the message at position j wants answered. *)
CallsOf(j) ==
  IF transcript[j].role = "assistant"
  THEN Obliges(transcript[j].stop, transcript[j].calls) ELSE <<>>

IsResult(i)  == transcript[i].role = "toolResult"
IsFailure(i) == /\ transcript[i].role = "assistant"
                /\ transcript[i].stop \in {"error", "aborted"}

(* The k messages after position j are tool results. *)
Answered(j, k) == \A n \in 1..k : IsResult(j + n)

(* The message at j + k + 1, with k results since the message at j, is     *)
(* the next result of that message, or comes when it has all of them, or   *)
(* is the failure message that releases the rest.                          *)
InOrder(j, k) ==
  IF IsResult(j + k + 1)
  THEN /\ k < Len(CallsOf(j))
       /\ transcript[j + k + 1].call = CallsOf(j)[k + 1]
  ELSE k = Len(CallsOf(j)) \/ IsFailure(j + k + 1)

(* Every tool result answers, in source order, a call of the assistant     *)
(* message it follows; a message with calls is followed by all its results *)
(* unless a failure message cuts them short. (A transcript that starts     *)
(* with results was cleared while they were owed.)                         *)
ToolResultsInOrder ==
  \A j \in DOMAIN transcript :
     ~IsResult(j) =>
       \A k \in 0..(Len(transcript) - j - 1) :
          Answered(j, k) => InOrder(j, k)

(* What is owed is what the last message with calls has left unanswered.   *)
OwedIsRemainder ==
  \/ \A i \in DOMAIN transcript : IsResult(i)
  \/ \E j \in DOMAIN transcript :
       /\ ~IsResult(j)
       /\ Answered(j, Len(transcript) - j)
       /\ Len(transcript) - j <= Len(CallsOf(j))
       /\ owed = SubSeq(CallsOf(j), Len(transcript) - j + 1, Len(CallsOf(j)))
=============================================================================
