---------------------------- MODULE AgentProofs ----------------------------
(***************************************************************************)
(* Agent, proved for every set of messages, tool calls and call lists, for *)
(* both queue modes, with and without failures and resets.                 *)
(*                                                                         *)
(* The inductive invariant is TypeOK with OwedFollowsControl (what is owed *)
(* and announced at each point of the loop) and CallsFollowControl (where  *)
(* the loop stands while a tool runs). TypeOK alone is not inductive: the  *)
(* loop indexes the batch and takes the head of what is owed.              *)
(*                                                                         *)
(* Beside it stand, each for a property of its own: SerialInv (how far a   *)
(* sequential batch has come), CopyInv (the loop's copy of the transcript),*)
(* TallyInv and OrderInv (how often each message is somewhere, and in      *)
(* which order the messages of a queue stand) and TurnInv (how the last    *)
(* turn ended).                                                            *)
(***************************************************************************)
EXTENDS Agent, SequenceLemmas, TLAPS

IInv == TypeOK /\ OwedFollowsControl /\ CallsFollowControl

-----------------------------------------------------------------------------
(* The data the loop handles. *)

LEMMA EntryShapes ==
  /\ \A m \in Msgs : UserMsg(m) \in Conv!UserMsgs
  /\ \A s \in Conv!Stops, cs \in CallSeqs : AssistantMsg(s, cs) \in Conv!AssistantMsgs
  /\ \A c \in Calls : ToolResultMsg(c) \in Conv!ToolResultMsgs
  /\ Conv!UserMsgs \subseteq Conv!Entries
  /\ Conv!AssistantMsgs \subseteq Conv!Entries
  /\ Conv!ToolResultMsgs \subseteq Conv!Entries
BY DEF UserMsg, AssistantMsg, ToolResultMsg, Conv!UserMsg, Conv!AssistantMsg,
       Conv!ToolResultMsg, Conv!Entries, Conv!UserMsgs, Conv!AssistantMsgs,
       Conv!ToolResultMsgs

LEMMA UserMsgsOfType ==
  ASSUME NEW ms \in Seq(Msgs)
  PROVE  UserMsgsOf(ms) \in Seq(Conv!UserMsgs) /\ UserMsgsOf(ms) \in Seq(Conv!Entries)
<1>1. DOMAIN ms = 1..Len(ms) /\ Len(ms) \in Nat /\ \A i \in 1..Len(ms) : ms[i] \in Msgs
  OBVIOUS
<1>2. \A i \in 1..Len(ms) : UserMsg(ms[i]) \in Conv!UserMsgs
  BY <1>1, EntryShapes
<1>3. QED
  BY <1>1, <1>2, EntryShapes DEF UserMsgsOf

LEMMA ResultsOfType ==
  ASSUME NEW cs \in Seq(Calls)
  PROVE  /\ ResultsOf(cs) \in Seq(Conv!ToolResultMsgs)
         /\ ResultsOf(cs) \in Seq(Conv!Entries)
         /\ Len(ResultsOf(cs)) = Len(cs)
<1>1. DOMAIN cs = 1..Len(cs) /\ Len(cs) \in Nat /\ \A i \in 1..Len(cs) : cs[i] \in Calls
  OBVIOUS
<1>2. \A i \in 1..Len(cs) : ToolResultMsg(cs[i]) \in Conv!ToolResultMsgs
  BY <1>1, EntryShapes
<1>3. QED
  BY <1>1, <1>2, EntryShapes DEF ResultsOf

(* Emitting the first result leaves the results of the other calls.        *)
LEMMA ResultsOfTail ==
  ASSUME NEW cs \in Seq(Calls), ResultsOf(cs) # <<>>
  PROVE  /\ cs # <<>>
         /\ Head(ResultsOf(cs)) = ToolResultMsg(Head(cs))
         /\ Tail(ResultsOf(cs)) = ResultsOf(Tail(cs))
<1>1. cs # <<>>
  BY DEF ResultsOf
<1>2. Tail(cs) \in Seq(Calls) /\ Len(Tail(cs)) = Len(cs) - 1
  BY <1>1
<1>3. Tail(ResultsOf(cs)) = ResultsOf(Tail(cs))
  BY <1>1, <1>2 DEF ResultsOf
<1>4. QED
  BY <1>1, <1>3 DEF ResultsOf

LEMMA DrainTypes ==
  ASSUME NEW mode, NEW q \in Seq(Msgs)
  PROVE  Drained(mode, q) \in Seq(Msgs) /\ Left(mode, q) \in Seq(Msgs)
BY DEF Drained, Left

LEMMA ToSetType ==
  ASSUME NEW S, NEW q \in Seq(S)
  PROVE  ToSet(q) \subseteq S
BY DEF ToSet

-----------------------------------------------------------------------------
(* Callers. *)

LEMMA ConstantTypes == CallSeqs \subseteq Seq(Calls) /\ <<>> \in CallSeqs /\ ToolTurns \in Nat
BY AgentAssumption

USE ConstantTypes

LEMMA RunStartKeepsTypes ==
  ASSUME TypeOK, NEW prompts \in Seq(Msgs), NEW skip \in BOOLEAN,
         RunWithLifecycle(prompts, skip)
  PROVE  /\ activeRun' \in {"none", "running", "aborted"} /\ pc' \in PCs
         /\ isStreaming' \in BOOLEAN /\ streamingMessage' = "none"
         /\ context' \in Seq(Conv!Entries \cup {AssistantMsg("partial", <<>>)})
         /\ announce' \in Seq(Conv!Entries) /\ announce' \in Seq(Conv!UserMsgs)
         /\ skipPoll' \in BOOLEAN /\ cut' \in BOOLEAN
<1>1. UserMsgsOf(prompts) \in Seq(Conv!UserMsgs) /\ UserMsgsOf(prompts) \in Seq(Conv!Entries)
  BY UserMsgsOfType
<1>2. messages \o UserMsgsOf(prompts) \in Seq(Conv!Entries \cup {AssistantMsg("partial", <<>>)})
  BY <1>1 DEF TypeOK
<1>3. QED
  BY <1>1, <1>2 DEF RunWithLifecycle, PCs

LEMMA CallerStepKeepsTypes == TypeOK /\ CallerStep => TypeOK'
<1> SUFFICES ASSUME TypeOK, CallerStep PROVE TypeOK'
  OBVIOUS
<1> USE DEF TypeOK, state, queues, tools, input
<1>1. ASSUME NEW m \in Msgs, Steer(m) PROVE TypeOK'
  BY <1>1 DEF Steer
<1>2. ASSUME NEW m \in Msgs, FollowUp(m) PROVE TypeOK'
  BY <1>2 DEF FollowUp
<1>3. ASSUME NEW m \in Msgs, Prompt(m) PROVE TypeOK'
  <2>1. <<m>> \in Seq(Msgs)
    OBVIOUS
  <2>2. QED
    BY <1>3, <2>1, RunStartKeepsTypes DEF Prompt, RunWithLifecycle
<1>4. CASE ContinueFromAssistant
  <2>1. /\ Drained(SteeringMode, steeringQueue) \in Seq(Msgs)
        /\ Left(SteeringMode, steeringQueue) \in Seq(Msgs)
        /\ Drained(FollowUpMode, followUpQueue) \in Seq(Msgs)
        /\ Left(FollowUpMode, followUpQueue) \in Seq(Msgs)
    BY DrainTypes
  <2>2. /\ steeringQueue' \in Seq(Msgs) /\ followUpQueue' \in Seq(Msgs)
        /\ UNCHANGED kind
    BY <1>4, <2>1 DEF ContinueFromAssistant
  <2>3. PICK prompts \in Seq(Msgs), skip \in BOOLEAN : RunWithLifecycle(prompts, skip)
    BY <1>4, <2>1 DEF ContinueFromAssistant
  <2>4. QED
    BY <2>2, <2>3, RunStartKeepsTypes DEF RunWithLifecycle
<1>5. CASE ContinueFromInput
  <2>1. <<>> \in Seq(Msgs)
    OBVIOUS
  <2>2. QED
    BY <1>5, <2>1, RunStartKeepsTypes DEF ContinueFromInput, RunWithLifecycle
<1>6. CASE ClearSteeringQueue
  <2>1. ToSet(steeringQueue) \subseteq Msgs
    BY ToSetType
  <2>2. discarded' \subseteq Msgs
    BY <1>6, <2>1 DEF ClearSteeringQueue
  <2>3. steeringQueue' \in Seq(Msgs)
    BY <1>6 DEF ClearSteeringQueue
  <2>4. QED
    BY <1>6, <2>2, <2>3 DEF ClearSteeringQueue
<1>7. CASE ClearFollowUpQueue
  <2>1. ToSet(followUpQueue) \subseteq Msgs
    BY ToSetType
  <2>2. discarded' \subseteq Msgs
    BY <1>7, <2>1 DEF ClearFollowUpQueue
  <2>3. followUpQueue' \in Seq(Msgs)
    BY <1>7 DEF ClearFollowUpQueue
  <2>4. QED
    BY <1>7, <2>2, <2>3 DEF ClearFollowUpQueue
<1>8. CASE Abort
  BY <1>8 DEF Abort
<1>9. CASE Reset
  <2>1. discarded' \subseteq Msgs
    BY <1>9, ToSetType DEF Reset
  <2>2. cut' \in BOOLEAN
    BY <1>9, Zenon DEF Reset
  <2>3. /\ messages' \in Seq(Conv!Entries)
        /\ steeringQueue' \in Seq(Msgs) /\ followUpQueue' \in Seq(Msgs)
    BY <1>9 DEF Reset
  <2>4. QED
    BY <1>9, <2>1, <2>2, <2>3 DEF Reset
<1>10. QED
  BY <1>1, <1>2, <1>3, <1>4, <1>5, <1>6, <1>7, <1>8, <1>9 DEF CallerStep, Continue

-----------------------------------------------------------------------------
(* The loop. *)

LEMMA BatchType == TypeOK => batch \in Seq(Calls) /\ Len(batch) \in Nat /\ owed \in Seq(Calls)
BY DEF TypeOK

(* A position of the batch and what is left of the batch after it.         *)
LEMMA BatchFromStep ==
  ASSUME TypeOK, NEW i \in 1..Len(batch)
  PROVE  /\ batch[i] \in Calls
         /\ BatchFrom(i) \in Seq(Calls) /\ BatchFrom(i) # <<>>
         /\ Head(BatchFrom(i)) = batch[i]
         /\ Tail(BatchFrom(i)) = BatchFrom(i + 1)
<1>1. batch \in Seq(Calls) /\ Len(batch) \in Nat
  BY BatchType
<1>2. i \in 1..Len(batch) /\ Len(batch) \in i..Len(batch)
  BY <1>1
<1>3. /\ Head(SubSeq(batch, i, Len(batch))) = batch[i]
      /\ Tail(SubSeq(batch, i, Len(batch))) = SubSeq(batch, i + 1, Len(batch))
  BY <1>1, <1>2, HeadTailOfSubSeq
<1>4. SubSeq(batch, i, Len(batch)) \in Seq(Calls) /\ SubSeq(batch, i, Len(batch)) # <<>>
  <2>1. \A j \in i..Len(batch) : batch[j] \in Calls
    BY <1>1, <1>2
  <2>2. /\ SubSeq(batch, i, Len(batch)) \in Seq(Calls)
        /\ Len(SubSeq(batch, i, Len(batch))) = Len(batch) - i + 1
    BY <1>1, <1>2, <2>1, SubSeqProperties
  <2>3. Len(batch) - i + 1 # 0
    BY <1>1, <1>2
  <2>4. QED
    BY <2>2, <2>3
<1>5. QED
  BY <1>1, <1>3, <1>4 DEF BatchFrom

(* What the loop may announce next: a user message or the answer when      *)
(* nothing is owed, else the result of the oldest owed call.               *)
LEMMA WhatIsAnnounced ==
  ASSUME IInv, Announcing, announce # <<>>
  PROVE  \/ /\ pc \in {"prompts", "request"} /\ owed = <<>>
            /\ Head(announce) \in Conv!UserMsgs
            /\ Tail(announce) \in Seq(Conv!UserMsgs)
         \/ /\ pc = "answer" /\ owed = <<>> /\ Tail(announce) = <<>>
            /\ Head(announce) = Last(context)
            /\ Last(context) \in Conv!AssistantMsgs /\ Last(context).calls = batch
         \/ /\ pc \in {"tools", "results"} /\ owed # <<>>
            /\ Head(announce) = ToolResultMsg(Head(owed))
            /\ pc = "results" => Tail(announce) = ResultsOf(Tail(owed))
            /\ pc = "tools" => /\ Sequential /\ Tail(announce) = <<>>
                               /\ Tail(owed) = BatchFrom(next)
<1> USE DEF IInv
<1>1. CASE pc \in {"prompts", "request"}
  BY <1>1 DEF OwedFollowsControl, SpeakingPoints
<1>2. CASE pc = "answer"
  <2>1. announce = <<Last(context)>> /\ owed = <<>>
    BY <1>2 DEF OwedFollowsControl
  <2>2. Head(announce) = Last(context) /\ Tail(announce) = <<>>
    BY <2>1
  <2>3. QED
    BY <1>2, <2>1, <2>2 DEF OwedFollowsControl
<1>3. CASE pc = "tools"
  <2>1. /\ Sequential /\ next > 1 /\ owed = BatchFrom(next - 1)
        /\ announce = <<ToolResultMsg(batch[next - 1])>>
    BY <1>3 DEF OwedFollowsControl, BatchPoints
  <2>2. next - 1 \in 1..Len(batch) /\ (next - 1) + 1 = next
    BY <2>1 DEF TypeOK
  <2>3. /\ owed # <<>> /\ Head(owed) = batch[next - 1]
        /\ Tail(owed) = BatchFrom(next)
    BY <2>1, <2>2, BatchFromStep
  <2>4. Head(announce) = ToolResultMsg(batch[next - 1]) /\ Tail(announce) = <<>>
    BY <2>1
  <2>5. QED
    BY <1>3, <2>1, <2>3, <2>4
<1>4. CASE pc = "results"
  <2>1. announce = ResultsOf(owed) /\ owed \in Seq(Calls)
    BY <1>4 DEF OwedFollowsControl, TypeOK
  <2>2. QED
    BY <1>4, <2>1, ResultsOfTail
<1>5. QED
  BY <1>1, <1>2, <1>3, <1>4 DEF Announcing

LEMMA EmitKeepsTypes ==
  ASSUME IInv, EmitAgentStart \/ EmitTurnStart \/ EmitMessageStart
                 \/ EmitMessageEnd \/ EmitTurnEnd \/ EmitAgentEnd
  PROVE  TypeOK'
<1> USE DEF IInv, TypeOK, state, queues, tools, input
<1>1. CASE EmitAgentStart
  BY <1>1 DEF EmitAgentStart, PCs
<1>2. CASE EmitTurnStart
  BY <1>2 DEF EmitTurnStart, PCs
<1>3. CASE EmitMessageStart
  <2>1. Head(announce) \in Conv!Entries
    BY <1>3 DEF EmitMessageStart
  <2>2. streamingMessage' \in {"none", "user", "assistant", "toolResult"}
    BY <1>3, <2>1 DEF EmitMessageStart, Conv!Entries, Conv!UserMsgs,
                      Conv!AssistantMsgs, Conv!ToolResultMsgs
  <2>3. QED
    BY <1>3, <2>2 DEF EmitMessageStart
<1>4. CASE EmitMessageEnd
  <2>1. Head(announce) \in Conv!Entries /\ Tail(announce) \in Seq(Conv!Entries)
    BY <1>4 DEF EmitMessageEnd
  <2>2. messages' \in Seq(Conv!Entries) /\ announce' \in Seq(Conv!Entries)
    BY <1>4, <2>1 DEF EmitMessageEnd
  <2>3. owed' \in Seq(Calls)
    <3>1. CASE Head(announce).role = "user"
      BY <1>4, <3>1 DEF EmitMessageEnd
    <3>2. CASE Head(announce).role = "assistant"
      <4>1. Head(announce) \in Conv!AssistantMsgs
        BY <2>1, <3>2 DEF Conv!Entries, Conv!UserMsgs, Conv!ToolResultMsgs
      <4>2. Head(announce).calls \in Seq(Calls) /\ <<>> \in Seq(Calls)
        BY <4>1 DEF Conv!AssistantMsgs
      <4>3. QED
        BY <1>4, <3>2, <4>2 DEF EmitMessageEnd, Conv!Obliges
    <3>3. CASE Head(announce).role = "toolResult"
      <4>1. owed # <<>>
        BY <1>4, <3>3, WhatIsAnnounced DEF EmitMessageEnd, Conv!UserMsgs, Conv!AssistantMsgs
      <4>2. QED
        BY <1>4, <3>3, <4>1 DEF EmitMessageEnd
    <3>4. QED
      BY <2>1, <3>1, <3>2, <3>3, SMTT(30)
         DEF Conv!Entries, Conv!UserMsgs, Conv!AssistantMsgs, Conv!ToolResultMsgs
  <2>4. QED
    BY <1>4, <2>2, <2>3 DEF EmitMessageEnd
<1>5. CASE EmitTurnEnd
  BY <1>5 DEF EmitTurnEnd, PCs
<1>6. CASE EmitAgentEnd
  BY <1>6 DEF EmitAgentEnd, PCs
<1>7. QED
  BY <1>1, <1>2, <1>3, <1>4, <1>5, <1>6

LEMMA InjectTypes ==
  ASSUME TypeOK, NEW ms \in Seq(Msgs), Inject(ms)
  PROVE  /\ announce' \in Seq(Conv!Entries) /\ announce' \in Seq(Conv!UserMsgs)
         /\ context' \in Seq(Conv!Entries \cup {AssistantMsg("partial", <<>>)})
<1>1. UserMsgsOf(ms) \in Seq(Conv!UserMsgs) /\ UserMsgsOf(ms) \in Seq(Conv!Entries)
  BY UserMsgsOfType
<1>2. QED
  BY <1>1 DEF Inject, TypeOK

LEMMA PollKeepsTypes == TypeOK /\ (PollInitial \/ PollAfterTurn) => TypeOK'
<1> SUFFICES ASSUME TypeOK, PollInitial \/ PollAfterTurn PROVE TypeOK'
  OBVIOUS
<1> USE DEF TypeOK, state, queues, tools, input
<1>1. /\ Drained(SteeringMode, steeringQueue) \in Seq(Msgs)
      /\ Left(SteeringMode, steeringQueue) \in Seq(Msgs)
      /\ Drained(FollowUpMode, followUpQueue) \in Seq(Msgs)
      /\ Left(FollowUpMode, followUpQueue) \in Seq(Msgs)
  BY DrainTypes
<1>2. CASE PollInitial
  <2>1. /\ steeringQueue' \in Seq(Msgs) /\ announce' \in Seq(Conv!Entries)
        /\ context' \in Seq(Conv!Entries \cup {AssistantMsg("partial", <<>>)})
    BY <1>1, <1>2, InjectTypes DEF PollInitial
  <2>2. QED
    BY <1>2, <2>1 DEF PollInitial, PCs
<1>3. CASE PollAfterTurn
  <2>1. /\ steeringQueue' \in Seq(Msgs) /\ followUpQueue' \in Seq(Msgs)
        /\ announce' \in Seq(Conv!Entries) /\ pc' \in PCs
        /\ context' \in Seq(Conv!Entries \cup {AssistantMsg("partial", <<>>)})
    BY <1>1, <1>3, InjectTypes DEF PollAfterTurn, PCs
  <2>2. QED
    BY <1>3, <2>1 DEF PollAfterTurn
<1>4. QED
  BY <1>2, <1>3

LEMMA AnswerKeepsTypes ==
  ASSUME IInv, Request \/ StreamStart \/ Answer \/ TakeAnswer
  PROVE  TypeOK'
<1> USE DEF IInv, TypeOK, state, queues, tools, input
<1>1. CASE Request
  BY <1>1 DEF Request, PCs
<1>2. CASE StreamStart
  <2>1. context' \in Seq(Conv!Entries \cup {AssistantMsg("partial", <<>>)})
    BY <1>2 DEF StreamStart
  <2>2. QED
    BY <1>2, <2>1 DEF StreamStart, PCs
<1>3. ASSUME NEW s \in Conv!Stops, NEW cs \in CallSeqs, FinalMessage(s, cs)
      PROVE  TypeOK'
  <2>1. AssistantMsg(s, cs) \in Conv!Entries
    BY EntryShapes
  <2>2. context' \in Seq(Conv!Entries \cup {AssistantMsg("partial", <<>>)})
    <3> DEFINE S == Conv!Entries \cup {AssistantMsg("partial", <<>>)}
    <3>1. context \in Seq(S) /\ AssistantMsg(s, cs) \in S
      BY <2>1
    <3> HIDE DEF S
    <3>2. CASE pc = "stream"
      <4>1. context # <<>>
        BY <3>2 DEF OwedFollowsControl
      <4>2. Len(context) \in 1..Len(context)
        BY <3>1, <4>1
      <4>3. [context EXCEPT ![Len(context)] = AssistantMsg(s, cs)] \in Seq(S)
        BY <3>1, <4>2, ExceptSeq
      <4>4. QED
        BY <1>3, <3>2, <4>3 DEF FinalMessage, S
    <3>3. CASE pc # "stream"
      <4>1. Append(context, AssistantMsg(s, cs)) \in Seq(S)
        BY <3>1
      <4>2. QED
        BY <1>3, <3>3, <4>1 DEF FinalMessage, S
    <3>4. QED
      BY <3>2, <3>3
  <2>3. announce' \in Seq(Conv!Entries)
    BY <1>3, <2>1 DEF FinalMessage
  <2>4. toolTurns' \in 0..ToolTurns
    BY <1>3 DEF FinalMessage
  <2>5. opened' \in BOOLEAN
    BY <1>3, Zenon DEF FinalMessage
  <2>6. batch' \in CallSeqs /\ next' \in 1..(Len(batch') + 1)
    <3>1. cs \in Seq(Calls)
      OBVIOUS
    <3>2. QED
      BY <1>3, <3>1 DEF FinalMessage, NewBatch
  <2>7. call' \in [Calls -> CallStates] /\ terminating' \subseteq Calls /\ scopeFailed' \in BOOLEAN
    BY <1>3 DEF FinalMessage, NewBatch, CallStates
  <2>8. QED
    BY <1>3, <2>2, <2>3, <2>4, <2>5, <2>6, <2>7 DEF FinalMessage, PCs
<1>4. CASE TakeAnswer
  BY <1>4 DEF TakeAnswer, NextAfterAnswer, PCs
<1>5. QED
  BY <1>1, <1>2, <1>3, <1>4 DEF Answer

LEMMA ToolStepKeepsTypes ==
  ASSUME IInv, \/ EmitToolExecutionStart \/ PrepareToolCall
               \/ EmitToolExecutionEnd \/ AwaitToolCalls \/ EndBatch
               \/ \E c \in Calls : ToolReturns(c)
  PROVE  TypeOK'
<1> USE DEF IInv, TypeOK, state, queues, tools, input
<1>1. CASE EmitToolExecutionStart
  <2>1. next \in 1..Len(batch)
    BY <1>1 DEF EmitToolExecutionStart
  <2>2. batch[next] \in Calls
    BY <2>1, BatchFromStep
  <2>3. call' \in [Calls -> CallStates] /\ pendingToolCalls' \subseteq Calls
    BY <1>1, <2>2 DEF EmitToolExecutionStart, CallStates
  <2>4. QED
    BY <1>1, <2>3 DEF EmitToolExecutionStart, PCs
<1>2. CASE PrepareToolCall
  <2>1. next \in 1..Len(batch) /\ Len(batch) \in Nat
    BY <1>2, BatchType DEF PrepareToolCall, CallsFollowControl
  <2>2. next' \in 1..(Len(batch) + 1) /\ UNCHANGED batch
    BY <1>2, <2>1 DEF PrepareToolCall
  <2>3. call' \in [Calls -> CallStates] /\ pc' \in PCs
    BY <1>2 DEF PrepareToolCall, CallStates, PCs
  <2>4. QED
    BY <1>2, <2>2, <2>3 DEF PrepareToolCall
<1>3. CASE EmitToolExecutionEnd
  <2>1. next \in 1..Len(batch) /\ Len(batch) \in Nat
    BY <1>3, BatchType DEF EmitToolExecutionEnd, CallsFollowControl
  <2>2. next' \in 1..(Len(batch) + 1) /\ UNCHANGED batch
    BY <1>3, <2>1 DEF EmitToolExecutionEnd
  <2>3. batch[next] \in Calls
    BY <2>1, BatchFromStep
  <2>4. ToolResultMsg(batch[next]) \in Conv!Entries
    BY <2>3, EntryShapes
  <2>5. announce' \in Seq(Conv!Entries)
    BY <1>3, <2>4 DEF EmitToolExecutionEnd
  <2>6. call' \in [Calls -> CallStates] /\ pendingToolCalls' \subseteq Calls
    BY <1>3 DEF EmitToolExecutionEnd, CallStates, NotPending
  <2>7. QED
    BY <1>3, <2>2, <2>5, <2>6 DEF EmitToolExecutionEnd, PCs
<1>4. CASE AwaitToolCalls
  <2>1. announce' \in Seq(Conv!Entries) /\ pc' \in PCs
    BY <1>4, BatchType, ResultsOfType DEF AwaitToolCalls, Awaited, PCs
  <2>2. QED
    BY <1>4, <2>1 DEF AwaitToolCalls
<1>5. CASE EndBatch
  <2>1. ResultsOf(batch) \in Seq(Conv!Entries)
    BY BatchType, ResultsOfType
  <2>2. context' \in Seq(Conv!Entries \cup {AssistantMsg("partial", <<>>)}) /\ pc' \in PCs
    BY <1>5, <2>1 DEF EndBatch, PCs
  <2>3. QED
    BY <1>5, <2>2 DEF EndBatch
<1>6. ASSUME NEW c \in Calls, ToolReturns(c) PROVE TypeOK'
  <2>1. call' \in [Calls -> CallStates] /\ pc' \in PCs
    BY <1>6 DEF ToolReturns, CallStates, PCs
  <2>2. terminating' \subseteq Calls /\ pendingToolCalls' \subseteq Calls
    BY <1>6 DEF ToolReturns, NotPending
  <2>3. scopeFailed' \in BOOLEAN
    BY <1>6, Zenon DEF ToolReturns
  <2>4. QED
    BY <1>6, <2>1, <2>2, <2>3 DEF ToolReturns
<1>7. QED
  BY <1>1, <1>2, <1>3, <1>4, <1>5, <1>6

LEMMA EndKeepsTypes ==
  ASSUME IInv, Throw \/ HandleRunFailure \/ FinishRun
  PROVE  TypeOK'
<1> USE DEF IInv, TypeOK, state, queues, tools, input
<1>1. CASE Throw
  <2>1. announce' = <<>> /\ opened' = FALSE /\ pc' = "failing"
    BY <1>1, Zenon DEF Throw
  <2>2. opened' \in BOOLEAN
    BY <2>1, Zenon
  <2>3. announce' \in Seq(Conv!Entries)
    BY <2>1
  <2>4. QED
    BY <1>1, <2>1, <2>2, <2>3 DEF Throw, PCs
<1>2. CASE HandleRunFailure
  <2>1. PICK s \in Conv!Stops :
          messages' = Append(messages, AssistantMsg(s, <<>>))
    BY <1>2 DEF HandleRunFailure, Conv!Stops
  <2>2. AssistantMsg(s, <<>>) \in Conv!Entries
    BY EntryShapes
  <2>3. messages' \in Seq(Conv!Entries) /\ owed' \in Seq(Calls)
    BY <1>2, <2>1, <2>2 DEF HandleRunFailure
  <2>4. QED
    BY <1>2, <2>3 DEF HandleRunFailure, PCs
<1>3. CASE FinishRun
  <2>1. batch' \in CallSeqs /\ Len(batch') = 0 /\ next' = 1
    BY <1>3 DEF FinishRun
  <2>2. context' \in Seq(Conv!Entries \cup {AssistantMsg("partial", <<>>)})
    BY <1>3 DEF FinishRun
  <2>3. call' \in [Calls -> CallStates]
    BY <1>3 DEF FinishRun, CallStates
  <2>4. next' \in 1..(Len(batch') + 1)
    BY <2>1
  <2>5. QED
    BY <1>3, <2>1, <2>2, <2>3, <2>4 DEF FinishRun, PCs
<1>4. QED
  BY <1>1, <1>2, <1>3

LEMMA TypeInit == Init => TypeOK
<1> SUFFICES ASSUME Init PROVE TypeOK
  OBVIOUS
<1>1. /\ batch \in CallSeqs /\ Len(batch) = 0 /\ next = 1
      /\ call \in [Calls -> CallStates]
      /\ kind \in [Msgs -> {"fresh", "prompt", "steering", "followUp"}]
  BY DEF Init, CallStates
<1>2. next \in 1..(Len(batch) + 1)
  BY <1>1
<1>3. /\ messages \in Seq(Conv!Entries) /\ announce \in Seq(Conv!Entries)
      /\ steeringQueue \in Seq(Msgs) /\ followUpQueue \in Seq(Msgs)
      /\ context \in Seq(Conv!Entries \cup {AssistantMsg("partial", <<>>)})
      /\ owed \in Seq(Calls)
  BY DEF Init
<1>4. /\ isStreaming \in BOOLEAN /\ opened \in BOOLEAN /\ skipPoll \in BOOLEAN
      /\ scopeFailed \in BOOLEAN /\ cut \in BOOLEAN
  BY Zenon DEF Init
<1>5. /\ streamingMessage = "none" /\ pendingToolCalls = {} /\ activeRun = "none"
      /\ pc \in PCs /\ terminating = {} /\ discarded = {}
      /\ toolTurns \in 0..ToolTurns
  BY DEF Init, PCs
<1>6. QED
  BY <1>1, <1>2, <1>3, <1>4, <1>5 DEF TypeOK

LEMMA TypeStep == IInv /\ [Next]_vars => TypeOK'
<1> SUFFICES ASSUME IInv, [Next]_vars PROVE TypeOK'
  OBVIOUS
<1>1. CASE CallerStep
  BY <1>1, CallerStepKeepsTypes DEF IInv
<1>2. CASE LoopStep
  BY <1>2, EmitKeepsTypes, PollKeepsTypes, AnswerKeepsTypes, ToolStepKeepsTypes,
     EndKeepsTypes DEF LoopStep, IInv
<1>3. CASE \E c \in Calls : ToolReturns(c)
  BY <1>3, ToolStepKeepsTypes
<1>4. CASE Throw
  BY <1>4, EndKeepsTypes
<1>5. CASE UNCHANGED vars
  BY <1>5 DEF vars, IInv, TypeOK, state, queues, tools, input
<1>6. QED
  BY <1>1, <1>2, <1>3, <1>4, <1>5 DEF Next

-----------------------------------------------------------------------------
(* What is owed and announced. *)

LEMMA OwedFrame ==
  ASSUME OwedFollowsControl, UNCHANGED <<pc, owed, announce, context, batch, next>>
  PROVE  OwedFollowsControl'
BY DEF OwedFollowsControl, BatchFrom, Sequential, ResultsOf

LEMMA CallerStepKeepsOwed == IInv /\ CallerStep => OwedFollowsControl'
<1> SUFFICES ASSUME IInv, CallerStep PROVE OwedFollowsControl'
  OBVIOUS
<1>1. CASE \/ \E m \in Msgs : Steer(m) \/ FollowUp(m)
           \/ ClearSteeringQueue \/ ClearFollowUpQueue \/ Abort \/ Reset
  BY <1>1, OwedFrame DEF IInv, Steer, FollowUp, ClearSteeringQueue,
     ClearFollowUpQueue, Abort, Reset, tools
<1>2. ASSUME NEW prompts \in Seq(Msgs), NEW skip \in BOOLEAN,
             RunWithLifecycle(prompts, skip)
      PROVE  OwedFollowsControl'
  <2>1. announce' \in Seq(Conv!UserMsgs)
    BY <1>2, RunStartKeepsTypes DEF IInv
  <2>2. owed' = <<>> /\ pc' = "agent_start"
    BY <1>2 DEF RunWithLifecycle, IInv, CallsFollowControl, OwedFollowsControl, QuietPoints
  <2>3. QED
    BY <2>1, <2>2 DEF OwedFollowsControl, SpeakingPoints, QuietPoints, BatchPoints
<1>3. CASE (\E m \in Msgs : Prompt(m)) \/ Continue
  <2>1. PICK prompts \in Seq(Msgs), skip \in BOOLEAN : RunWithLifecycle(prompts, skip)
    <3>1. /\ Drained(SteeringMode, steeringQueue) \in Seq(Msgs)
          /\ Drained(FollowUpMode, followUpQueue) \in Seq(Msgs)
          /\ <<>> \in Seq(Msgs) /\ \A m \in Msgs : <<m>> \in Seq(Msgs)
      BY DrainTypes DEF IInv, TypeOK
    <3>2. QED
      BY <1>3, <3>1 DEF Prompt, Continue, ContinueFromAssistant, ContinueFromInput
  <2>2. QED
    BY <1>2, <2>1
<1>4. QED
  BY <1>1, <1>3 DEF CallerStep

LEMMA EmitKeepsOwed ==
  ASSUME IInv, EmitAgentStart \/ EmitTurnStart \/ EmitMessageStart
                 \/ EmitMessageEnd \/ EmitTurnEnd \/ EmitAgentEnd
  PROVE  OwedFollowsControl'
<1> USE DEF SpeakingPoints, QuietPoints, BatchPoints, tools
<1>1. CASE EmitAgentStart
  BY <1>1 DEF EmitAgentStart, IInv, OwedFollowsControl
<1>2. CASE EmitTurnStart
  BY <1>2 DEF EmitTurnStart, IInv, OwedFollowsControl
<1>3. CASE EmitMessageStart
  BY <1>3, OwedFrame DEF EmitMessageStart, IInv
<1>4. CASE EmitMessageEnd
  <2>1. /\ Announcing /\ announce # <<>> /\ announce' = Tail(announce)
        /\ UNCHANGED <<pc, context, batch, next>>
    BY <1>4 DEF EmitMessageEnd
  <2>2. CASE pc \in {"prompts", "request"}
    <3>1. owed' = <<>> /\ announce' \in Seq(Conv!UserMsgs)
      BY <1>4, <2>1, <2>2, WhatIsAnnounced DEF EmitMessageEnd, Conv!UserMsgs
    <3>2. QED
      BY <2>1, <2>2, <3>1 DEF OwedFollowsControl
  <2>3. CASE pc = "answer"
    <3>1. /\ announce' = <<>> /\ Head(announce) = Last(context)
          /\ Last(context) \in Conv!AssistantMsgs /\ Last(context).calls = batch
      BY <2>1, <2>3, WhatIsAnnounced
    <3>2. owed' = Conv!Obliges(Last(context).stop, batch)
      BY <1>4, <3>1 DEF EmitMessageEnd, Conv!AssistantMsgs
    <3>3. context # <<>> /\ next = 1
      BY <2>3 DEF IInv, OwedFollowsControl
    <3>4. QED
      BY <2>1, <2>3, <3>1, <3>2, <3>3 DEF OwedFollowsControl, Last
  <2>4. CASE pc \in {"tools", "results"}
    <3>1. /\ owed # <<>> /\ Head(announce) = ToolResultMsg(Head(owed))
          /\ pc = "results" => announce' = ResultsOf(Tail(owed))
          /\ pc = "tools" => /\ Sequential /\ announce' = <<>>
                             /\ Tail(owed) = BatchFrom(next)
      BY <2>1, <2>4, WhatIsAnnounced
    <3>2. owed' = Tail(owed)
      BY <1>4, <3>1 DEF EmitMessageEnd, ToolResultMsg, Conv!ToolResultMsg
    <3>3. CASE pc = "results"
      BY <2>1, <3>1, <3>2, <3>3 DEF OwedFollowsControl, ResultsOf
    <3>4. CASE pc = "tools"
      <4>1. Sequential' /\ BatchFrom(next)' = BatchFrom(next)
        BY <2>1, <3>1, <3>4 DEF Sequential, BatchFrom
      <4>2. QED
        BY <2>1, <3>1, <3>2, <3>4, <4>1 DEF OwedFollowsControl
    <3>5. QED
      BY <2>4, <3>3, <3>4
  <2>5. QED
    BY <2>1, <2>2, <2>3, <2>4 DEF Announcing
<1>5. CASE EmitTurnEnd
  BY <1>5 DEF EmitTurnEnd, IInv, OwedFollowsControl
<1>6. CASE EmitAgentEnd
  BY <1>6 DEF EmitAgentEnd, IInv, OwedFollowsControl
<1>7. QED
  BY <1>1, <1>2, <1>3, <1>4, <1>5, <1>6

LEMMA PollKeepsOwed == IInv /\ (PollInitial \/ PollAfterTurn) => OwedFollowsControl'
<1> SUFFICES ASSUME IInv, PollInitial \/ PollAfterTurn PROVE OwedFollowsControl'
  OBVIOUS
<1> USE DEF SpeakingPoints, QuietPoints, BatchPoints
<1>1. /\ Drained(SteeringMode, steeringQueue) \in Seq(Msgs)
      /\ Drained(FollowUpMode, followUpQueue) \in Seq(Msgs)
  BY DrainTypes DEF IInv, TypeOK
<1>2. owed' = <<>> /\ announce \in Seq(Conv!UserMsgs)
  BY DEF PollInitial, PollAfterTurn, IInv, OwedFollowsControl
<1>3. \/ pc' \in {"request", "turn_start"} /\ announce' \in Seq(Conv!UserMsgs)
      \/ pc' = "agent_end" /\ announce' = <<>>
  BY <1>1, <1>2, InjectTypes DEF PollInitial, PollAfterTurn, IInv, OwedFollowsControl
<1>4. QED
  BY <1>2, <1>3 DEF OwedFollowsControl

LEMMA AnswerKeepsOwed ==
  ASSUME IInv, Request \/ StreamStart \/ Answer \/ TakeAnswer
  PROVE  OwedFollowsControl'
<1> USE DEF SpeakingPoints, QuietPoints, BatchPoints
<1>1. CASE Request
  BY <1>1 DEF Request, IInv, OwedFollowsControl
<1>2. CASE StreamStart
  <2>1. context' # <<>>
    <3> DEFINE S == Conv!Entries \cup {AssistantMsg("partial", <<>>)}
    <3>1. context \in Seq(S) /\ AssistantMsg("partial", <<>>) \in S
      BY DEF IInv, TypeOK
    <3> HIDE DEF S
    <3>2. QED
      BY <1>2, <3>1, AppendProperties DEF StreamStart
  <2>2. QED
    BY <1>2, <2>1 DEF StreamStart, IInv, OwedFollowsControl
<1>3. ASSUME NEW s \in Conv!Stops, NEW cs \in CallSeqs, FinalMessage(s, cs)
      PROVE  OwedFollowsControl'
  <2>1. /\ pc' = "answer" /\ announce' = <<AssistantMsg(s, cs)>>
        /\ owed' = <<>> /\ batch' = cs /\ next' = 1
    BY <1>3 DEF FinalMessage, NewBatch, IInv, OwedFollowsControl
  <2>2. context' # <<>> /\ Last(context') = AssistantMsg(s, cs)
    <3> DEFINE S == Conv!Entries \cup {AssistantMsg("partial", <<>>)}
    <3>1. context \in Seq(S) /\ AssistantMsg(s, cs) \in S
      BY EntryShapes DEF IInv, TypeOK
    <3> HIDE DEF S
    <3>2. CASE pc = "stream"
      <4>1. context # <<>>
        BY <3>2 DEF IInv, OwedFollowsControl
      <4>2. Len(context) \in 1..Len(context)
        BY <3>1, <4>1
      <4>3. context' = [context EXCEPT ![Len(context)] = AssistantMsg(s, cs)]
        BY <1>3, <3>2 DEF FinalMessage
      <4>4. Len(context') = Len(context) /\ context'[Len(context)] = AssistantMsg(s, cs)
        BY <3>1, <4>2, <4>3, ExceptSeq
      <4>5. QED
        BY <4>2, <4>4 DEF Last
    <3>3. CASE pc # "stream"
      <4>1. context' = Append(context, AssistantMsg(s, cs))
        BY <1>3, <3>3 DEF FinalMessage
      <4>2. QED
        BY <3>1, <4>1, AppendProperties DEF Last
    <3>4. QED
      BY <3>2, <3>3
  <2>3. /\ AssistantMsg(s, cs) \in Conv!AssistantMsgs
        /\ AssistantMsg(s, cs).calls = cs
    BY EntryShapes DEF AssistantMsg, Conv!AssistantMsg
  <2>4. QED
    BY <2>1, <2>2, <2>3 DEF OwedFollowsControl, Last
<1>4. CASE TakeAnswer
  <2>1. /\ owed = Conv!Obliges(Last(context).stop, batch)
        /\ announce = <<>> /\ pc' = NextAfterAnswer
        /\ UNCHANGED <<owed, announce, context, batch, next>>
    BY <1>4 DEF TakeAnswer, IInv, OwedFollowsControl, tools
  <2>2. CASE pc' = "last_turn_end"
    BY <2>1, <2>2 DEF OwedFollowsControl, NextAfterAnswer, Conv!Obliges
  <2>3. CASE pc' = "turn_end"
    BY <2>1, <2>3 DEF OwedFollowsControl, NextAfterAnswer, Conv!Obliges
  <2>4. CASE pc' = "tools"
    <3>1. owed' = batch' /\ announce' = <<>> /\ next' = next
      BY <2>1, <2>4 DEF NextAfterAnswer, Conv!Obliges
    <3>2. next = 1
      BY <1>4 DEF TakeAnswer, IInv, OwedFollowsControl
    <3>3. BatchFrom(next)' = batch'
      BY <2>1, <3>2, BatchType, SubSeqFull DEF BatchFrom, IInv
    <3>4. QED
      BY <2>4, <3>1, <3>3 DEF OwedFollowsControl
  <2>5. QED
    BY <2>1, <2>2, <2>3, <2>4 DEF NextAfterAnswer
<1>5. QED
  BY <1>1, <1>2, <1>3, <1>4 DEF Answer

LEMMA ToolStepKeepsOwed ==
  ASSUME IInv, \/ EmitToolExecutionStart \/ PrepareToolCall
               \/ EmitToolExecutionEnd \/ AwaitToolCalls \/ EndBatch
               \/ \E c \in Calls : ToolReturns(c)
  PROVE  OwedFollowsControl'
<1> USE DEF SpeakingPoints, QuietPoints, BatchPoints, tools
<1>1. batch \in Seq(Calls) /\ Len(batch) \in Nat /\ next \in 1..(Len(batch) + 1)
  BY BatchType DEF IInv, TypeOK
<1>3. ASSUME UNCHANGED <<batch, next, announce, owed>>,
             pc \in BatchPoints, pc' \in BatchPoints, announce = <<>>
      PROVE  OwedFollowsControl'
  <2>1. owed = IF Sequential THEN BatchFrom(next) ELSE batch
    BY <1>3 DEF IInv, OwedFollowsControl
  <2>2. owed' = IF Sequential' THEN BatchFrom(next)' ELSE batch'
    BY <1>3, <2>1 DEF BatchFrom, Sequential
  <2>3. QED
    BY <1>3, <2>2 DEF OwedFollowsControl
<1>4. CASE EmitToolExecutionStart
  BY <1>3, <1>4 DEF EmitToolExecutionStart
<1>5. CASE PrepareToolCall
  <2>1. announce = <<>>
    BY <1>5 DEF PrepareToolCall, IInv, OwedFollowsControl
  <2>2. CASE UNCHANGED next
    BY <1>3, <1>5, <2>1, <2>2 DEF PrepareToolCall
  <2>3. CASE ~Sequential
    <3>1. owed' = batch' /\ announce' = <<>> /\ pc' \in BatchPoints /\ ~Sequential'
      BY <1>5, <2>3 DEF PrepareToolCall, IInv, OwedFollowsControl, Sequential
    <3>2. QED
      BY <3>1 DEF OwedFollowsControl
  <2>4. QED
    BY <1>5, <2>2, <2>3 DEF PrepareToolCall
<1>6. CASE EmitToolExecutionEnd
  <2>1. /\ pc = "tool_end" /\ pc' = "tools" /\ next' = next + 1
        /\ UNCHANGED <<batch, owed>>
        /\ announce' = IF Sequential THEN <<ToolResultMsg(batch[next])>> ELSE <<>>
    BY <1>6 DEF EmitToolExecutionEnd
  <2>2. owed = IF Sequential THEN BatchFrom(next) ELSE batch
    BY <2>1 DEF IInv, OwedFollowsControl
  <2>3. CASE ~Sequential
    <3>1. ~Sequential' /\ owed' = batch' /\ announce' = <<>>
      BY <2>1, <2>2, <2>3 DEF Sequential
    <3>2. QED
      BY <2>1, <3>1 DEF OwedFollowsControl
  <2>4. CASE Sequential
    <3>1. next' > 1 /\ next' - 1 = next
      BY <1>1, <2>1
    <3>2. Sequential' /\ owed' = BatchFrom(next - 1)'
      <4>1. Sequential' /\ owed' = BatchFrom(next)
        BY <2>1, <2>2, <2>4 DEF Sequential
      <4>2. BatchFrom(next - 1)' = SubSeq(batch, next, Len(batch))
        BY <2>1, <3>1 DEF BatchFrom
      <4>3. QED
        BY <4>1, <4>2 DEF BatchFrom
    <3>3. announce' = <<ToolResultMsg(batch[next - 1])>>'
      BY <2>1, <2>4, <3>1 DEF ToolResultMsg, Conv!ToolResultMsg
    <3>4. QED
      BY <2>1, <3>1, <3>2, <3>3 DEF OwedFollowsControl
  <2>5. QED
    BY <2>3, <2>4
<1>7. CASE AwaitToolCalls
  <2>1. announce = <<>> /\ owed = batch /\ UNCHANGED owed
    BY <1>7 DEF AwaitToolCalls, IInv, OwedFollowsControl
  <2>2. CASE pc' = "failing" /\ announce' = <<>>
    BY <2>2 DEF OwedFollowsControl
  <2>3. CASE pc' = "results" /\ announce' = ResultsOf(batch)
    <3>1. announce' = ResultsOf(owed)'
      BY <2>1, <2>3 DEF ResultsOf, ToolResultMsg, Conv!ToolResultMsg
    <3>2. QED
      BY <2>3, <3>1 DEF OwedFollowsControl
  <2>4. QED
    BY <1>7, <2>1, <2>2, <2>3 DEF AwaitToolCalls, Awaited
<1>8. CASE EndBatch
  <2>1. owed = <<>>
    <3>1. CASE pc = "results"
      <4>1. ResultsOf(owed) = <<>> /\ owed \in Seq(Calls)
        BY <1>8, <3>1, BatchType DEF EndBatch, IInv, OwedFollowsControl
      <4>2. Len(owed) = 0
        BY <4>1, ResultsOfType
      <4>3. QED
        BY <4>1, <4>2
    <3>2. CASE pc = "tools" /\ Sequential /\ next > Len(batch)
      <4>1. owed = BatchFrom(next)
        BY <1>8, <3>2 DEF EndBatch, IInv, OwedFollowsControl
      <4>2. QED
        BY <1>1, <3>2, <4>1, SubSeqEmpty DEF BatchFrom
    <3>3. QED
      BY <1>8, <3>1, <3>2 DEF EndBatch
  <2>2. owed' = <<>> /\ announce' = <<>> /\ pc' \in {"turn_end", "last_turn_end"}
    BY <1>8, <2>1 DEF EndBatch
  <2>3. QED
    BY <2>2 DEF OwedFollowsControl
<1>9. ASSUME NEW c \in Calls, ToolReturns(c) PROVE OwedFollowsControl'
  <2>1. CASE Sequential
    <3>1. pc = "execute" /\ announce = <<>>
      BY <1>9, <2>1 DEF ToolReturns, IInv, CallsFollowControl, OwedFollowsControl
    <3>2. QED
      BY <1>3, <1>9, <2>1, <3>1 DEF ToolReturns
  <2>2. CASE ~Sequential
    BY <1>9, <2>2, OwedFrame DEF ToolReturns, IInv
  <2>3. QED
    BY <2>1, <2>2
<1>10. QED
  BY <1>4, <1>5, <1>6, <1>7, <1>8, <1>9

LEMMA EndKeepsOwed ==
  ASSUME IInv, Throw \/ HandleRunFailure \/ FinishRun
  PROVE  OwedFollowsControl'
<1> USE DEF SpeakingPoints, QuietPoints, BatchPoints
<1>1. CASE Throw
  <2>1. pc' = "failing" /\ announce' = <<>>
    BY <1>1, Zenon DEF Throw
  <2>2. QED
    BY <2>1 DEF OwedFollowsControl
<1>2. CASE HandleRunFailure
  BY <1>2 DEF HandleRunFailure, IInv, OwedFollowsControl
<1>3. CASE FinishRun
  BY <1>3 DEF FinishRun, IInv, OwedFollowsControl
<1>4. QED
  BY <1>1, <1>2, <1>3

LEMMA OwedStep == IInv /\ [Next]_vars => OwedFollowsControl'
<1> SUFFICES ASSUME IInv, [Next]_vars PROVE OwedFollowsControl'
  OBVIOUS
<1>1. CASE CallerStep
  BY <1>1, CallerStepKeepsOwed
<1>2. CASE LoopStep
  BY <1>2, EmitKeepsOwed, PollKeepsOwed, AnswerKeepsOwed, ToolStepKeepsOwed,
     EndKeepsOwed DEF LoopStep
<1>3. CASE \E c \in Calls : ToolReturns(c)
  BY <1>3, ToolStepKeepsOwed
<1>4. CASE Throw
  BY <1>4, EndKeepsOwed
<1>5. CASE UNCHANGED vars
  BY <1>5, OwedFrame DEF vars, IInv, tools
<1>6. QED
  BY <1>1, <1>2, <1>3, <1>4, <1>5 DEF Next

-----------------------------------------------------------------------------
(* Where the loop stands while tools run. *)

HIDE ConstantTypes

(* Between batches no tool runs, and the steps that are no tool's leave    *)
(* the calls alone.                                                        *)
LEMMA CallsFrame ==
  ASSUME IInv, UNCHANGED <<call, batch, next>>, pc # "idle", pc' # "idle",
         activeRun' = activeRun,
         pc \notin BatchPoints, pc' \notin BatchPoints,
         pc \in {"failing", "fail_end", "finish"} =>
           pc' \in {"failing", "fail_end", "finish"},
         pc = "failing" => pc' = "failing" \/ Running = {}
  PROVE  CallsFollowControl'
<1> USE DEF BatchPoints
<1>1. ASSUME NEW c \in Calls
      PROVE  /\ call[c] = "started" => pc' \in {"failing", "fail_end", "finish"}
             /\ call[c] # "settled"
             /\ call[c] = "running" => pc' = "failing" /\ ~Sequential
  <2>1. call[c] = "running" => pc = "failing" /\ pc' = "failing" /\ ~Sequential
    BY DEF IInv, CallsFollowControl, Running
  <2>2. QED
    BY <2>1 DEF IInv, CallsFollowControl
<1>2. Sequential' <=> Sequential
  BY DEF Sequential
<1>3. QED
  BY <1>1, <1>2 DEF IInv, CallsFollowControl

LEMMA CallerStepKeepsCalls == IInv /\ CallerStep => CallsFollowControl'
<1> SUFFICES ASSUME IInv, CallerStep PROVE CallsFollowControl'
  OBVIOUS
<1> USE DEF tools, state, IInv
<1>1. CASE \/ \E m \in Msgs : Steer(m) \/ FollowUp(m)
           \/ ClearSteeringQueue \/ ClearFollowUpQueue \/ Abort
  <2>1. /\ UNCHANGED <<call, batch, next, pc, state>>
        /\ activeRun' = "none" <=> activeRun = "none"
    BY <1>1 DEF Steer, FollowUp, ClearSteeringQueue, ClearFollowUpQueue, Abort
  <2>2. QED
    BY <2>1 DEF CallsFollowControl, Sequential
<1>2. CASE Reset
  <2>1. /\ UNCHANGED <<call, batch, next, pc, activeRun>>
        /\ isStreaming' = FALSE /\ streamingMessage' = "none" /\ pendingToolCalls' = {}
    BY <1>2, Zenon DEF Reset
  <2>2. QED
    BY <2>1 DEF CallsFollowControl, Sequential
<1>3. ASSUME NEW prompts, NEW skip, RunWithLifecycle(prompts, skip)
      PROVE  CallsFollowControl'
  <2>1. /\ activeRun' = "running" /\ pc' = "agent_start" /\ UNCHANGED <<call, batch, next>>
        /\ \A c \in Calls : call[c] = "waiting"
    BY <1>3 DEF RunWithLifecycle, CallsFollowControl
  <2>2. QED
    BY <2>1 DEF CallsFollowControl
<1>4. QED
  BY <1>1, <1>2, <1>3 DEF CallerStep, Prompt, Continue, ContinueFromAssistant, ContinueFromInput

LEMMA EmitKeepsCalls ==
  ASSUME IInv, EmitAgentStart \/ EmitTurnStart \/ EmitMessageStart
                 \/ EmitMessageEnd \/ EmitTurnEnd \/ EmitAgentEnd
  PROVE  CallsFollowControl'
<1> USE DEF BatchPoints, tools
<1>1. CASE EmitAgentStart
  BY <1>1, CallsFrame DEF EmitAgentStart
<1>2. CASE EmitTurnStart
  BY <1>2, CallsFrame DEF EmitTurnStart
<1>3. CASE EmitMessageStart \/ EmitMessageEnd
  BY <1>3 DEF EmitMessageStart, EmitMessageEnd, Announcing, IInv,
     CallsFollowControl, Sequential
<1>5. CASE EmitTurnEnd
  BY <1>5, CallsFrame DEF EmitTurnEnd
<1>6. CASE EmitAgentEnd
  BY <1>6, CallsFrame DEF EmitAgentEnd
<1>7. QED
  BY <1>1, <1>2, <1>3, <1>5, <1>6

LEMMA AnswerKeepsCalls ==
  ASSUME IInv, PollInitial \/ PollAfterTurn \/ Request \/ StreamStart
                 \/ Answer \/ TakeAnswer
  PROVE  CallsFollowControl'
<1> USE DEF BatchPoints, tools
<1>1. CASE PollInitial \/ PollAfterTurn
  BY <1>1, CallsFrame DEF PollInitial, PollAfterTurn
<1>2. CASE Request \/ StreamStart
  BY <1>2, CallsFrame DEF Request, StreamStart
<1>3. ASSUME NEW s \in Conv!Stops, NEW cs \in CallSeqs, FinalMessage(s, cs)
      PROVE  CallsFollowControl'
  <2>1. /\ pc' = "answer" /\ activeRun' = activeRun /\ activeRun # "none"
        /\ \A c \in Calls : call'[c] = "waiting"
    BY <1>3 DEF FinalMessage, NewBatch, IInv, CallsFollowControl
  <2>2. QED
    BY <2>1 DEF CallsFollowControl
<1>4. CASE TakeAnswer
  <2>1. /\ pc' \in {"tools", "turn_end", "last_turn_end"} /\ UNCHANGED <<call, activeRun>>
        /\ activeRun # "none"
        /\ \A c \in Calls : call[c] \notin {"started", "settled", "running"}
    BY <1>4 DEF TakeAnswer, NextAfterAnswer, IInv, CallsFollowControl
  <2>2. QED
    BY <2>1 DEF CallsFollowControl
<1>5. QED
  BY <1>1, <1>2, <1>3, <1>4 DEF Answer

LEMMA ToolStepKeepsCalls ==
  ASSUME IInv, \/ EmitToolExecutionStart \/ PrepareToolCall
               \/ EmitToolExecutionEnd \/ AwaitToolCalls \/ EndBatch
               \/ \E c \in Calls : ToolReturns(c)
  PROVE  CallsFollowControl'
<1> USE DEF BatchPoints, tools
<1>1. /\ Len(batch) \in Nat /\ next \in 1..(Len(batch) + 1)
      /\ call \in [Calls -> CallStates]
  BY BatchType DEF IInv, TypeOK
<1>2. CASE EmitToolExecutionStart
  <2>1. /\ pc = "tools" /\ pc' = "prepare" /\ UNCHANGED <<batch, next, activeRun>>
        /\ call' = [call EXCEPT ![batch[next]] = "started"]
        /\ next <= Len(batch)
    BY <1>2 DEF EmitToolExecutionStart
  <2>2. \A c \in Calls : call'[c] = IF c = batch[next] THEN "started" ELSE call[c]
    BY <1>1, <2>1
  <2>3. activeRun # "none" /\ (Sequential' <=> Sequential)
    BY <2>1 DEF IInv, CallsFollowControl, Sequential
  <2>4. batch[next] \in Calls
    BY <1>1, <2>1, BatchFromStep DEF IInv
  <2>5. QED
    BY <2>1, <2>2, <2>3, <2>4 DEF IInv, CallsFollowControl
<1>3. CASE PrepareToolCall
  <2>1. /\ pc = "prepare" /\ activeRun # "none" /\ (Sequential' <=> Sequential)
        /\ activeRun' = activeRun /\ batch' = batch
    BY <1>3 DEF PrepareToolCall, IInv, CallsFollowControl, Sequential
  <2>2. \A c \in Calls : /\ call[c] # "settled" /\ (call[c] = "started" => c = batch[next])
                         /\ call[c] = "running" => ~Sequential
    BY <2>1 DEF IInv, CallsFollowControl
  <2>3. CASE /\ call' = [call EXCEPT ![batch[next]] = "settled"]
             /\ pc' = "tool_end" /\ UNCHANGED next
    <3>1. \A c \in Calls : call'[c] = IF c = batch[next] THEN "settled" ELSE call[c]
      BY <1>1, <2>3
    <3>2. next <= Len(batch)
      BY <2>1 DEF IInv, CallsFollowControl
    <3>3. \A c \in Calls : /\ call'[c] # "started"
                           /\ call'[c] = "settled" => c = batch'[next']
                           /\ call'[c] = "running" => ~Sequential'
      BY <2>1, <2>2, <2>3, <3>1
    <3>4. QED
      BY <2>1, <2>3, <3>2, <3>3 DEF CallsFollowControl
  <2>4. CASE /\ call' = [call EXCEPT ![batch[next]] = "running"]
             /\ Sequential /\ pc' = "execute" /\ UNCHANGED next
    <3>1. \A c \in Calls : call'[c] = IF c = batch[next] THEN "running" ELSE call[c]
      BY <1>1, <2>4
    <3>2. next <= Len(batch)
      BY <2>1 DEF IInv, CallsFollowControl
    <3>3. \A c \in Calls : /\ call'[c] \notin {"started", "settled"}
                           /\ call'[c] = "running" => Sequential' /\ c = batch'[next']
      BY <2>1, <2>2, <2>4, <3>1
    <3>4. QED
      BY <2>1, <2>4, <3>2, <3>3 DEF CallsFollowControl
  <2>5. CASE /\ call' = [call EXCEPT ![batch[next]] = "running"]
             /\ ~Sequential /\ pc' = "tools"
    <3>1. \A c \in Calls : call'[c] = IF c = batch[next] THEN "running" ELSE call[c]
      BY <1>1, <2>5
    <3>2. \A c \in Calls : /\ call'[c] \notin {"started", "settled"}
                           /\ call'[c] = "running" => ~Sequential'
      BY <2>1, <2>2, <2>5, <3>1
    <3>3. QED
      BY <2>1, <2>5, <3>2 DEF CallsFollowControl
  <2>6. QED
    BY <1>3, <2>3, <2>4, <2>5 DEF PrepareToolCall
<1>4. CASE EmitToolExecutionEnd
  <2>1. /\ pc = "tool_end" /\ pc' = "tools"
        /\ activeRun' = activeRun /\ batch' = batch
        /\ call' = [call EXCEPT ![batch[next]] = "ended"]
        /\ activeRun # "none" /\ (Sequential' <=> Sequential)
    BY <1>4 DEF EmitToolExecutionEnd, IInv, CallsFollowControl, Sequential
  <2>2. \A c \in Calls : call'[c] = IF c = batch[next] THEN "ended" ELSE call[c]
    BY <1>1, <2>1
  <2>3. \A c \in Calls : /\ call[c] # "started" /\ (call[c] = "settled" => c = batch[next])
                         /\ call[c] = "running" => ~Sequential
    BY <2>1 DEF IInv, CallsFollowControl
  <2>4. \A c \in Calls : /\ call'[c] \notin {"started", "settled"}
                         /\ call'[c] = "running" => ~Sequential'
    BY <2>1, <2>2, <2>3
  <2>5. QED
    BY <2>1, <2>4 DEF CallsFollowControl
<1>5. CASE AwaitToolCalls \/ EndBatch
  <2>1. /\ pc' \in {"failing", "results", "turn_end", "last_turn_end"}
        /\ UNCHANGED <<call, activeRun>> /\ activeRun # "none"
    BY <1>5 DEF AwaitToolCalls, Awaited, EndBatch, IInv, CallsFollowControl
  <2>2. \A c \in Calls : call[c] \notin {"started", "settled", "running"}
    BY <1>5 DEF AwaitToolCalls, EndBatch, Running, IInv, CallsFollowControl
  <2>3. QED
    BY <2>1, <2>2 DEF CallsFollowControl
<1>6. ASSUME NEW c \in Calls, ToolReturns(c) PROVE CallsFollowControl'
  <2>1. /\ call[c] = "running" /\ UNCHANGED <<batch, next, activeRun>>
        /\ (Sequential' <=> Sequential) /\ activeRun # "none"
    BY <1>6 DEF ToolReturns, IInv, CallsFollowControl, Sequential
  <2>2. CASE Sequential
    <3>1. pc = "execute" /\ c = batch[next] /\ next <= Len(batch)
      BY <2>1, <2>2 DEF IInv, CallsFollowControl
    <3>2. call' = [call EXCEPT ![c] = "settled"] /\ pc' = "tool_end"
      BY <1>6, <2>2 DEF ToolReturns
    <3>3. \A d \in Calls : call'[d] = IF d = c THEN "settled" ELSE call[d]
      BY <1>1, <3>2
    <3>4. \A d \in Calls : d # c => call[d] \notin {"started", "settled", "running"}
      BY <2>2, <3>1 DEF IInv, CallsFollowControl
    <3>5. QED
      BY <2>1, <3>1, <3>2, <3>3, <3>4 DEF CallsFollowControl
  <2>3. CASE ~Sequential
    <3>1. call' = [call EXCEPT ![c] = "ended"] /\ UNCHANGED pc
      BY <1>6, <2>3 DEF ToolReturns
    <3>2. \A d \in Calls : call'[d] = IF d = c THEN "ended" ELSE call[d]
      BY <1>1, <3>1
    <3>3. pc # "idle"
      BY <2>1 DEF IInv, CallsFollowControl
    <3>4. QED
      BY <2>1, <2>3, <3>1, <3>2, <3>3 DEF IInv, CallsFollowControl
  <2>4. QED
    BY <2>2, <2>3
<1>7. QED
  BY <1>2, <1>3, <1>4, <1>5, <1>6

LEMMA EndKeepsCalls ==
  ASSUME IInv, Throw \/ HandleRunFailure \/ FinishRun
  PROVE  CallsFollowControl'
<1> USE DEF BatchPoints, tools, state
<1>1. CASE Throw
  <2>1. /\ pc \in Throws /\ pc' = "failing" /\ UNCHANGED <<call, batch, next, activeRun>>
    BY <1>1, Zenon DEF Throw
  <2>2. activeRun # "none" /\ (Sequential' <=> Sequential)
    BY <2>1 DEF IInv, CallsFollowControl, Sequential, Throws
  <2>3. \A c \in Calls : call[c] # "settled" /\ (call[c] = "running" => ~Sequential)
    BY <2>1 DEF IInv, CallsFollowControl, Throws
  <2>4. QED
    BY <2>1, <2>2, <2>3 DEF CallsFollowControl
<1>2. CASE HandleRunFailure
  BY <1>2, CallsFrame DEF HandleRunFailure
<1>3. CASE FinishRun
  <2>1. \A c \in Calls : call[c] # "running"
    BY <1>3 DEF FinishRun, IInv, CallsFollowControl
  <2>2. \A c \in Calls : call'[c] = "waiting"
    BY <1>3, <2>1 DEF FinishRun, Running
  <2>3. /\ isStreaming' = FALSE /\ streamingMessage' = "none"
        /\ pendingToolCalls' = {} /\ pc' = "idle" /\ activeRun' = "none"
    BY <1>3, Zenon DEF FinishRun
  <2>4. QED
    BY <2>2, <2>3 DEF CallsFollowControl
<1>4. QED
  BY <1>1, <1>2, <1>3

LEMMA CallsStep == IInv /\ [Next]_vars => CallsFollowControl'
<1> SUFFICES ASSUME IInv, [Next]_vars PROVE CallsFollowControl'
  OBVIOUS
<1>1. CASE CallerStep
  BY <1>1, CallerStepKeepsCalls
<1>2. CASE LoopStep
  BY <1>2, EmitKeepsCalls, AnswerKeepsCalls, ToolStepKeepsCalls, EndKeepsCalls
  DEF LoopStep
<1>3. CASE \E c \in Calls : ToolReturns(c)
  BY <1>3, ToolStepKeepsCalls
<1>4. CASE Throw
  BY <1>4, EndKeepsCalls
<1>5. CASE UNCHANGED vars
  BY <1>5 DEF vars, IInv, tools, state, CallsFollowControl, Sequential
<1>6. QED
  BY <1>1, <1>2, <1>3, <1>4, <1>5 DEF Next

-----------------------------------------------------------------------------
(* The theorems. *)

LEMMA InvInit == Init => IInv
<1>1. Init => OwedFollowsControl
  BY DEF Init, OwedFollowsControl, SpeakingPoints, QuietPoints, BatchPoints
<1>2. Init => CallsFollowControl
  BY DEF Init, CallsFollowControl
<1>3. QED
  BY <1>1, <1>2, TypeInit DEF IInv

LEMMA InvStep == IInv /\ [Next]_vars => IInv'
BY TypeStep, OwedStep, CallsStep DEF IInv

(* The state of the agent and of its loop keeps its types, through every   *)
(* interleaving of callers, tools, aborts, resets and failures.            *)
THEOREM TypeCorrect == Spec => []TypeOK
<1>1. IInv => TypeOK
  BY DEF IInv
<1>2. QED
  BY InvInit, InvStep, <1>1, PTL DEF Spec

(* The inductive invariant: what is owed and where tools run, at every     *)
(* point of the loop.                                                      *)
THEOREM LoopInvariant == Spec => [](OwedFollowsControl /\ CallsFollowControl)
<1>1. IInv => OwedFollowsControl /\ CallsFollowControl
  BY DEF IInv
<1>2. QED
  BY InvInit, InvStep, <1>1, PTL DEF Spec

(* When finishRun has run nothing is left behind: no tool coroutine, no    *)
(* unanswered call, nothing streaming or pending.                          *)
THEOREM IdleAgentIsClean == Spec => []IdleIsClean
<1>1. IInv => IdleIsClean
  BY DEF IInv, OwedFollowsControl, CallsFollowControl, IdleIsClean, QuietPoints
<1>2. QED
  BY InvInit, InvStep, <1>1, PTL DEF Spec

-----------------------------------------------------------------------------
(* pendingToolCalls *)

Held == {c \in Calls : call[c] \in {"started", "running", "settled"}}

LEMMA PendingFrame ==
  ASSUME PendingToolCallsExact, UNCHANGED <<pendingToolCalls, call, cut>>,
         activeRun' # "none" => activeRun # "none"
  PROVE  PendingToolCallsExact'
BY DEF PendingToolCallsExact

LEMMA PendingToolStep ==
  ASSUME IInv, PendingToolCallsExact,
         \/ EmitToolExecutionStart \/ PrepareToolCall
         \/ EmitToolExecutionEnd \/ AwaitToolCalls \/ EndBatch
         \/ \E c \in Calls : ToolReturns(c)
  PROVE  PendingToolCallsExact'
<1> USE DEF tools, state
<1>1. call \in [Calls -> CallStates]
  BY DEF IInv, TypeOK
<1>2. pc \in {"tools", "prepare", "tool_end"} /\ next <= Len(batch) =>
        batch[next] \in Calls
  <2>1. next \in 1..(Len(batch) + 1) /\ Len(batch) \in Nat
    BY BatchType DEF IInv, TypeOK
  <2>2. next <= Len(batch) => next \in 1..Len(batch)
    BY <2>1
  <2>3. QED
    BY <2>2, BatchFromStep DEF IInv
<1>3. ASSUME NEW c \in Calls, NEW s \in {"started", "running", "settled"},
             call' = [call EXCEPT ![c] = s], UNCHANGED <<activeRun, cut>>,
             \/ s = "started" /\ pendingToolCalls' = pendingToolCalls \cup {c}
             \/ c \in Held /\ UNCHANGED pendingToolCalls
      PROVE  PendingToolCallsExact'
  <2>1. \A d \in Calls : call'[d] = IF d = c THEN s ELSE call[d]
    BY <1>1, <1>3
  <2>2. QED
    BY <1>3, <2>1 DEF PendingToolCallsExact, Held
<1>4. ASSUME NEW c \in Calls, call' = [call EXCEPT ![c] = "ended"],
             UNCHANGED <<activeRun, cut>>, pendingToolCalls' = pendingToolCalls \ {c}
      PROVE  PendingToolCallsExact'
  <2>1. \A d \in Calls : call'[d] = IF d = c THEN "ended" ELSE call[d]
    BY <1>1, <1>4
  <2>2. QED
    BY <1>4, <2>1 DEF PendingToolCallsExact
<1>5. CASE EmitToolExecutionStart
  BY <1>2, <1>3, <1>5 DEF EmitToolExecutionStart
<1>6. CASE PrepareToolCall
  <2>1. pc = "prepare" /\ batch[next] \in Held /\ UNCHANGED <<activeRun, cut, pendingToolCalls>>
    BY <1>2, <1>6 DEF PrepareToolCall, IInv, CallsFollowControl, Held
  <2>2. PICK s \in {"running", "settled"} : call' = [call EXCEPT ![batch[next]] = s]
    BY <1>6 DEF PrepareToolCall
  <2>3. QED
    BY <1>3, <2>1, <2>2 DEF Held
<1>7. CASE EmitToolExecutionEnd
  <2>1. batch[next] \in Calls
    BY <1>2, <1>7 DEF EmitToolExecutionEnd, IInv, CallsFollowControl
  <2>2. QED
    BY <1>4, <1>7, <2>1 DEF EmitToolExecutionEnd, NotPending
<1>8. CASE AwaitToolCalls \/ EndBatch
  BY <1>8, PendingFrame DEF AwaitToolCalls, EndBatch
<1>9. ASSUME NEW c \in Calls, ToolReturns(c) PROVE PendingToolCallsExact'
  <2>1. CASE Sequential
    <3>1. /\ c \in Held /\ call' = [call EXCEPT ![c] = "settled"]
          /\ UNCHANGED <<activeRun, cut, pendingToolCalls>>
      BY <1>9, <2>1 DEF ToolReturns, Held
    <3>2. QED
      BY <1>3, <3>1
  <2>2. CASE ~Sequential
    BY <1>4, <1>9, <2>2 DEF ToolReturns, NotPending
  <2>3. QED
    BY <2>1, <2>2
<1>10. QED
  BY <1>5, <1>6, <1>7, <1>8, <1>9

LEMMA PendingStep ==
  IInv /\ PendingToolCallsExact /\ [Next]_vars => PendingToolCallsExact'
<1> SUFFICES ASSUME IInv, PendingToolCallsExact, [Next]_vars
             PROVE  PendingToolCallsExact'
  OBVIOUS
<1> USE DEF tools, state, input
<1>1. CASE \/ \E m \in Msgs : Steer(m) \/ FollowUp(m)
           \/ ClearSteeringQueue \/ ClearFollowUpQueue \/ Abort
  BY <1>1, PendingFrame DEF Steer, FollowUp, ClearSteeringQueue, ClearFollowUpQueue, Abort
<1>2. CASE Reset
  <2>1. activeRun' = activeRun /\ (cut' <=> activeRun # "none")
    BY <1>2, Zenon DEF Reset
  <2>2. QED
    BY <2>1 DEF PendingToolCallsExact
<1>3. ASSUME NEW prompts, NEW skip, RunWithLifecycle(prompts, skip)
      PROVE  PendingToolCallsExact'
  BY <1>3 DEF RunWithLifecycle, IInv, CallsFollowControl, PendingToolCallsExact
<1>4. CASE \/ EmitAgentStart \/ EmitTurnStart \/ EmitMessageStart \/ EmitMessageEnd
           \/ PollInitial \/ EmitTurnEnd \/ PollAfterTurn
           \/ Request \/ StreamStart \/ TakeAnswer \/ EmitAgentEnd
           \/ HandleRunFailure
  BY <1>4, PendingFrame DEF EmitAgentStart, EmitTurnStart, EmitMessageStart,
     EmitMessageEnd, PollInitial, EmitTurnEnd, PollAfterTurn, Request,
     StreamStart, TakeAnswer, EmitAgentEnd, HandleRunFailure
<1>5. CASE Throw
  <2>1. UNCHANGED <<pendingToolCalls, call, cut, activeRun>>
    BY <1>5, Zenon DEF Throw
  <2>2. QED
    BY <2>1, PendingFrame
<1>6. ASSUME NEW s \in Conv!Stops, NEW cs \in CallSeqs, FinalMessage(s, cs)
      PROVE  PendingToolCallsExact'
  <2>1. /\ \A c \in Calls : call[c] \notin {"started", "running", "settled"}
        /\ \A c \in Calls : call'[c] = "waiting"
        /\ UNCHANGED <<pendingToolCalls, activeRun, cut>>
    BY <1>6 DEF FinalMessage, NewBatch, IInv, CallsFollowControl, BatchPoints
  <2>2. QED
    BY <2>1 DEF PendingToolCallsExact
<1>7. CASE FinishRun
  BY <1>7 DEF FinishRun, PendingToolCallsExact
<1>8. CASE UNCHANGED vars
  BY <1>8, PendingFrame DEF vars
<1>9. QED
  BY <1>1, <1>2, <1>3, <1>4, <1>5, <1>6, <1>7, <1>8, PendingToolStep
  DEF Next, CallerStep, LoopStep, Answer, Prompt, Continue,
      ContinueFromAssistant, ContinueFromInput

(* pendingToolCalls is exact during a run that no caller reset: a call is  *)
(* in it from its start event to its end event, whichever coroutines       *)
(* update it.                                                              *)
THEOREM PendingIsExact == Spec => []PendingToolCallsExact
<1>1. Init => PendingToolCallsExact
  BY DEF Init, PendingToolCallsExact
<1>2. QED
  BY <1>1, InvInit, InvStep, PendingStep, PTL DEF Spec

-----------------------------------------------------------------------------
(* The agent implements Conversation. *)

LEMMA RunsSayNothing ==
  ASSUME CallerStep, ~Reset
  PROVE  UNCHANGED <<messages, owed>>
BY DEF CallerStep, Steer, FollowUp, Prompt, Continue, ContinueFromAssistant,
   ContinueFromInput, RunWithLifecycle, ClearSteeringQueue, ClearFollowUpQueue,
   Abort, state

(* The end of a message is the abstract step of its role.                  *)
LEMMA MessageEndIsSaid == IInv /\ EmitMessageEnd => Conv!Next
<1> SUFFICES ASSUME IInv, EmitMessageEnd PROVE Conv!Next
  OBVIOUS
<1>1. /\ Announcing /\ announce # <<>>
      /\ messages' = Append(messages, Head(announce))
  BY DEF EmitMessageEnd
<1>2. CASE Head(announce) \in Conv!UserMsgs /\ owed = <<>>
  <2>1. PICK m \in Msgs : Head(announce) = Conv!UserMsg(m)
    BY <1>2 DEF Conv!UserMsgs, Conv!UserMsg
  <2>2. owed' = owed
    BY <2>1 DEF EmitMessageEnd, Conv!UserMsg
  <2>3. Conv!Say(m)
    BY <1>1, <1>2, <2>1, <2>2 DEF Conv!Say
  <2>4. QED
    BY <2>3 DEF Conv!Next
<1>3. CASE Head(announce) \in Conv!AssistantMsgs /\ owed = <<>>
  <2>1. PICK s \in Conv!Stops, cs \in CallSeqs : Head(announce) = Conv!AssistantMsg(s, cs)
    BY <1>3 DEF Conv!AssistantMsgs, Conv!AssistantMsg
  <2>2. owed' = Conv!Obliges(s, cs)
    BY <2>1 DEF EmitMessageEnd, Conv!AssistantMsg
  <2>3. Conv!Answer(s, cs)
    BY <1>1, <1>3, <2>1, <2>2 DEF Conv!Answer
  <2>4. QED
    BY <2>3 DEF Conv!Next
<1>4. CASE Head(announce) = ToolResultMsg(Head(owed)) /\ owed # <<>>
  <2>1. owed' = Tail(owed)
    BY <1>4 DEF EmitMessageEnd, ToolResultMsg, Conv!ToolResultMsg
  <2>2. Conv!Respond
    BY <1>1, <1>4, <2>1 DEF Conv!Respond, ToolResultMsg
  <2>3. QED
    BY <2>2 DEF Conv!Next
<1>5. QED
  BY <1>1, <1>2, <1>3, <1>4, WhatIsAnnounced

LEMMA ConversationStep == IInv /\ [Next]_vars => [Conv!Next]_(Conv!vars)
<1> SUFFICES ASSUME IInv, [Next]_vars
             PROVE  Conv!Next \/ UNCHANGED <<messages, owed>>
  BY DEF Conv!vars
<1>1. CASE CallerStep
  <2>1. CASE Reset
    <3>1. Conv!Forget
      BY <2>1 DEF Reset, Conv!Forget
    <3>2. QED
      BY <3>1 DEF Conv!Next
  <2>2. QED
    BY <1>1, <2>1, RunsSayNothing
<1>2. CASE EmitMessageEnd
  BY <1>2, MessageEndIsSaid
<1>3. CASE HandleRunFailure
  <2>1. PICK s \in {"error", "aborted"} :
          messages' = Append(messages, Conv!AssistantMsg(s, <<>>))
    BY <1>3 DEF HandleRunFailure, AssistantMsg
  <2>2. Conv!Fail(s)
    BY <1>3, <2>1 DEF HandleRunFailure, Conv!Fail
  <2>3. QED
    BY <2>1, <2>2 DEF Conv!Next
<1>4. CASE \/ EmitAgentStart \/ EmitTurnStart \/ EmitMessageStart
           \/ PollInitial \/ EmitTurnEnd \/ PollAfterTurn
           \/ Request \/ StreamStart \/ TakeAnswer \/ EmitAgentEnd
  BY <1>4 DEF EmitAgentStart, EmitTurnStart, EmitMessageStart, PollInitial,
     EmitTurnEnd, PollAfterTurn, Request, StreamStart, TakeAnswer, EmitAgentEnd, state
<1>5. CASE \/ EmitToolExecutionStart \/ PrepareToolCall \/ EmitToolExecutionEnd
           \/ AwaitToolCalls \/ EndBatch \/ \E c \in Calls : ToolReturns(c)
  BY <1>5 DEF EmitToolExecutionStart, PrepareToolCall, EmitToolExecutionEnd,
     AwaitToolCalls, EndBatch, ToolReturns, state
<1>6. CASE Answer \/ FinishRun \/ Throw
  BY <1>6 DEF Answer, FinalMessage, FinishRun, Throw, state
<1>7. CASE UNCHANGED vars
  BY <1>7 DEF vars, state
<1>8. QED
  BY <1>1, <1>2, <1>3, <1>4, <1>5, <1>6, <1>7 DEF Next, LoopStep

(* The transcript of the agent is a conversation: whatever callers, tools, *)
(* aborts and failures do, each of its steps is one of Conversation or     *)
(* leaves the transcript alone.                                            *)
THEOREM AgentIsConversation == Spec => ConversationSpec
<1>1. Init => Conv!Init
  BY DEF Init, Conv!Init
<1>2. QED
  BY <1>1, InvInit, InvStep, ConversationStep, PTL DEF Spec, ConversationSpec, Conv!Spec

-----------------------------------------------------------------------------
(* What Conversation promises, proved of its steps alone. That the results *)
(* come in order is not inductive: that nothing is said while a call is    *)
(* owed says something about the transcript only when `owed` is what the   *)
(* transcript leaves unanswered, which is OwedIsRemainder.                 *)
TalkInv == Conv!TypeOK /\ Conv!ToolResultsInOrder /\ Conv!OwedIsRemainder

(* Every transition is Forget, which empties the transcript, or appends    *)
(* one entry.                                                              *)
LEMMA EntryForms ==
  /\ \A m \in Msgs : Conv!UserMsg(m) \in Conv!Entries
  /\ \A s \in Conv!Stops, cs \in CallSeqs : Conv!AssistantMsg(s, cs) \in Conv!Entries
  /\ \A c \in Calls : Conv!ToolResultMsg(c) \in Conv!Entries
BY DEF Conv!UserMsg, Conv!AssistantMsg, Conv!ToolResultMsg, Conv!Entries, Conv!UserMsgs, Conv!AssistantMsgs,
       Conv!ToolResultMsgs

LEMMA TalkTypeInit == Conv!Init => Conv!TypeOK
BY DEF Conv!Init, Conv!TypeOK

LEMMA TalkTypeStep ==
  Conv!CallSeqsAssumption /\ Conv!TypeOK /\ [Conv!Next]_(Conv!vars) => Conv!TypeOK'
<1> SUFFICES ASSUME Conv!CallSeqsAssumption, Conv!TypeOK, [Conv!Next]_(Conv!vars) PROVE Conv!TypeOK'
  OBVIOUS
<1> USE EntryForms DEF Conv!TypeOK
<1>1. ASSUME NEW m \in Msgs, Conv!Say(m) PROVE Conv!TypeOK'
  BY <1>1 DEF Conv!Say
<1>2. ASSUME NEW s \in Conv!Stops, NEW cs \in CallSeqs, Conv!Answer(s, cs) PROVE Conv!TypeOK'
  <2>1. cs \in Seq(Calls) /\ <<>> \in Seq(Calls)
    BY DEF Conv!CallSeqsAssumption
  <2>2. QED
    BY <1>2, <2>1 DEF Conv!Answer, Conv!Obliges
<1>3. CASE Conv!Respond
  <2>1. Head(owed) \in Calls /\ Tail(owed) \in Seq(Calls)
    BY <1>3, HeadTailProperties DEF Conv!Respond
  <2>2. QED
    BY <1>3, <2>1 DEF Conv!Respond
<1>4. ASSUME NEW s \in {"error", "aborted"}, Conv!Fail(s) PROVE Conv!TypeOK'
  BY <1>4 DEF Conv!Fail, Conv!Stops, Conv!CallSeqsAssumption
<1>5. CASE Conv!Forget
  BY <1>5 DEF Conv!Forget
<1>6. CASE UNCHANGED Conv!vars
  BY <1>6 DEF Conv!vars
<1>7. QED
  BY <1>1, <1>2, <1>3, <1>4, <1>5, <1>6 DEF Conv!Next

(* The transcript and what is owed keep their types: nothing but messages  *)
(* of the three roles is ever said.                                        *)
THEOREM TranscriptType == ASSUME Conv!CallSeqsAssumption PROVE Conv!Spec => []Conv!TypeOK
<1>1. QED
  BY TalkTypeInit, TalkTypeStep, PTL DEF Conv!Spec

-----------------------------------------------------------------------------
(* At most one message of the transcript is still collecting results: the  *)
(* last one that is not a result itself.                                   *)
LEMMA OpenMessageIsUnique ==
  ASSUME Conv!TypeOK, NEW i \in DOMAIN messages, NEW j \in DOMAIN messages,
         ~Conv!IsResult(i), Conv!Answered(i, Len(messages) - i),
         ~Conv!IsResult(j), Conv!Answered(j, Len(messages) - j)
  PROVE  i = j
<1>1. DOMAIN messages = 1..Len(messages) /\ Len(messages) \in Nat
  BY DEF Conv!TypeOK
<1>2. ASSUME NEW a \in DOMAIN messages, NEW b \in DOMAIN messages, a < b,
             Conv!Answered(a, Len(messages) - a)
      PROVE  Conv!IsResult(b)
  <2>1. b - a \in 1..(Len(messages) - a) /\ a + (b - a) = b
    BY <1>1, <1>2
  <2>2. QED
    BY <1>2, <2>1 DEF Conv!Answered
<1>3. QED
  BY <1>1, <1>2

(* What is owed is the remainder of the calls of the message that is still *)
(* collecting results.                                                     *)
LEMMA OwedByOpenMessage ==
  ASSUME Conv!TypeOK, Conv!OwedIsRemainder, NEW j \in DOMAIN messages,
         ~Conv!IsResult(j), Conv!Answered(j, Len(messages) - j)
  PROVE  /\ Len(messages) - j <= Len(Conv!CallsOf(j))
         /\ owed = SubSeq(Conv!CallsOf(j), Len(messages) - j + 1, Len(Conv!CallsOf(j)))
BY OpenMessageIsUnique DEF Conv!OwedIsRemainder

LEMMA CallsOfType ==
  ASSUME Conv!CallSeqsAssumption, Conv!TypeOK, NEW j \in DOMAIN messages
  PROVE  Conv!CallsOf(j) \in Seq(Calls)
<1>1. messages[j] \in Conv!Entries
  BY DEF Conv!TypeOK
<1>2. CASE messages[j] \in Conv!AssistantMsgs
  <2>1. messages[j].calls \in Seq(Calls) /\ <<>> \in Seq(Calls)
    BY <1>2 DEF Conv!AssistantMsgs, Conv!CallSeqsAssumption
  <2>2. QED
    BY <2>1 DEF Conv!CallsOf, Conv!Obliges
<1>3. CASE messages[j].role # "assistant"
  BY <1>3 DEF Conv!CallsOf
<1>4. QED
  BY <1>1, <1>2, <1>3 DEF Conv!Entries, Conv!UserMsgs, Conv!ToolResultMsgs

(* How one more entry keeps the results in order: a result must be the     *)
(* next one of the message still collecting, anything else may come only   *)
(* when that message has all of them, or must be a failure message.        *)
LEMMA AppendInOrder ==
  ASSUME Conv!CallSeqsAssumption, Conv!TypeOK, Conv!ToolResultsInOrder, NEW e \in Conv!Entries,
         messages' = Append(messages, e),
         \A j \in DOMAIN messages :
            ~Conv!IsResult(j) /\ Conv!Answered(j, Len(messages) - j) =>
               IF e.role = "toolResult"
               THEN /\ Len(messages) - j < Len(Conv!CallsOf(j))
                    /\ e.call = Conv!CallsOf(j)[Len(messages) - j + 1]
               ELSE \/ Len(messages) - j = Len(Conv!CallsOf(j))
                    \/ (e.role = "assistant" /\ e.stop \in {"error", "aborted"})
  PROVE  Conv!ToolResultsInOrder'
<1> DEFINE n == Len(messages)
<1>1. /\ n \in Nat /\ DOMAIN messages = 1..n
      /\ Len(messages') = n + 1 /\ DOMAIN messages' = 1..(n + 1)
      /\ \A i \in 1..n : messages'[i] = messages[i]
      /\ messages'[n + 1] = e
  BY DEF Conv!TypeOK
<1>2. \A i \in 1..n : /\ Conv!IsResult(i)' <=> Conv!IsResult(i)
                      /\ Conv!IsFailure(i)' <=> Conv!IsFailure(i)
                      /\ Conv!CallsOf(i)' = Conv!CallsOf(i)
  BY <1>1 DEF Conv!IsResult, Conv!IsFailure, Conv!CallsOf
<1>3. \A j \in 1..n : \A k \in 0..(n - j) : Conv!Answered(j, k)' <=> Conv!Answered(j, k)
  <2>1. \A j \in 1..n : \A k \in 0..(n - j) : \A x \in 1..k : j + x \in 1..n
    BY <1>1
  <2>2. QED
    BY <1>2, <2>1 DEF Conv!Answered
<1> SUFFICES ASSUME NEW j \in 1..(n + 1), ~Conv!IsResult(j)',
                    NEW k \in 0..(n + 1 - j - 1), Conv!Answered(j, k)'
             PROVE  Conv!InOrder(j, k)'
  BY <1>1 DEF Conv!ToolResultsInOrder
<1>4. j \in 1..n /\ k \in 0..(n - j)
  BY <1>1
<1>5. ~Conv!IsResult(j) /\ Conv!Answered(j, k) /\ Conv!CallsOf(j)' = Conv!CallsOf(j)
  BY <1>2, <1>3, <1>4
<1>6. CASE k < n - j
  <2>1. j + k + 1 \in 1..n /\ k \in 0..(n - j - 1)
    BY <1>1, <1>4, <1>6
  <2>2. Conv!InOrder(j, k)
    BY <1>1, <1>4, <1>5, <2>1 DEF Conv!ToolResultsInOrder
  <2>3. /\ Conv!IsResult(j + k + 1)' <=> Conv!IsResult(j + k + 1)
        /\ Conv!IsFailure(j + k + 1)' <=> Conv!IsFailure(j + k + 1)
    BY <1>2, <2>1, Zenon
  <2>4. messages'[j + k + 1] = messages[j + k + 1]
    BY <1>1, <2>1, Zenon
  <2>5. QED
    BY <1>5, <2>2, <2>3, <2>4, Zenon DEF Conv!InOrder
<1>7. CASE k = n - j
  <2>1. j + k + 1 = n + 1
    BY <1>1, <1>4, <1>7
  <2>2. /\ Conv!IsResult(j + k + 1)' <=> e.role = "toolResult"
        /\ Conv!IsFailure(j + k + 1)' <=>
             e.role = "assistant" /\ e.stop \in {"error", "aborted"}
    BY <1>1, <2>1 DEF Conv!IsResult, Conv!IsFailure
  <2>3. IF e.role = "toolResult"
        THEN k < Len(Conv!CallsOf(j)) /\ e.call = Conv!CallsOf(j)[k + 1]
        ELSE k = Len(Conv!CallsOf(j)) \/ (e.role = "assistant" /\ e.stop \in {"error", "aborted"})
    BY <1>1, <1>4, <1>5, <1>7
  <2>4. messages'[j + k + 1] = e
    BY <1>1, <2>1
  <2>5. QED
    BY <1>5, <2>2, <2>3, <2>4 DEF Conv!InOrder
<1>8. k < n - j \/ k = n - j
  <2>1. n \in Int /\ j \in Int /\ k \in Int /\ k <= n - j
    BY <1>1, <1>4
  <2>2. QED
    BY <2>1
<1>9. QED
  BY <1>6, <1>7, <1>8

(* A message that is no result, said when nothing is owed or releasing     *)
(* what is: afterwards it is the one collecting results.                   *)
LEMMA SpeechKeepsInv ==
  ASSUME Conv!CallSeqsAssumption, TalkInv, NEW e \in Conv!Entries, e.role # "toolResult",
         messages' = Append(messages, e),
         owed' = IF e.role = "assistant" THEN Conv!Obliges(e.stop, e.calls) ELSE <<>>,
         Conv!TypeOK',
         owed = <<>> \/ (e.role = "assistant" /\ e.stop \in {"error", "aborted"})
  PROVE  TalkInv'
<1> USE DEF TalkInv
<1>0. PICK n \in Nat : n = Len(messages)
  BY DEF Conv!TypeOK
<1>1. /\ DOMAIN messages = 1..n
      /\ Len(messages') = n + 1 /\ DOMAIN messages' = 1..(n + 1)
      /\ messages'[n + 1] = e
  BY <1>0 DEF Conv!TypeOK
<1>2. Conv!ToolResultsInOrder'
  <2>1. ASSUME NEW j \in DOMAIN messages, ~Conv!IsResult(j), Conv!Answered(j, n - j),
               owed = <<>>
        PROVE  n - j = Len(Conv!CallsOf(j))
    <3>1. n - j <= Len(Conv!CallsOf(j))
      BY <1>0, <2>1, OwedByOpenMessage
    <3>2. Conv!CallsOf(j) \in Seq(Calls)
      BY CallsOfType
    <3>3. SubSeq(Conv!CallsOf(j), n - j + 1, Len(Conv!CallsOf(j))) = <<>>
      BY <1>0, <2>1, OwedByOpenMessage
    <3>4. n - j \in Int /\ Len(Conv!CallsOf(j)) \in Nat
      BY <1>1, <3>2
    <3>5. Len(SubSeq(Conv!CallsOf(j), n - j + 1, Len(Conv!CallsOf(j)))) = Len(Conv!CallsOf(j)) - (n - j)
      BY <1>1, <3>1, <3>2, <3>4
    <3>6. Len(Conv!CallsOf(j)) - (n - j) = 0
      BY <3>3, <3>5
    <3>7. QED
      BY <3>4, <3>6
  <2>2. QED
    BY <1>0, <2>1, AppendInOrder
<1>3. Conv!OwedIsRemainder'
  <2>1. n + 1 \in DOMAIN messages' /\ ~Conv!IsResult(n + 1)'
    BY <1>1 DEF Conv!IsResult
  <2>2. Conv!Answered(n + 1, Len(messages) - (n + 1))'
    BY <1>1 DEF Conv!Answered
  <2>3. Conv!CallsOf(n + 1)' = owed'
    BY <1>1 DEF Conv!CallsOf
  <2>4. owed' \in Seq(Calls)
    BY DEF Conv!TypeOK
  <2>5. Len(messages') - (n + 1) = 0
    BY <1>1
  <2>6. /\ Len(messages') - (n + 1) <= Len(owed')
        /\ owed' = SubSeq(owed', Len(messages') - (n + 1) + 1, Len(owed'))
    BY <2>4, <2>5, SubSeqFull
  <2>7. QED
    BY <2>1, <2>2, <2>3, <2>6 DEF Conv!OwedIsRemainder
<1>4. QED
  BY <1>2, <1>3

(* A result of the oldest owed call.                                       *)
LEMMA RespondKeepsInv ==
  Conv!CallSeqsAssumption /\ TalkInv /\ Conv!Respond /\ Conv!TypeOK' => TalkInv'
<1> SUFFICES ASSUME Conv!CallSeqsAssumption, TalkInv, Conv!Respond, Conv!TypeOK' PROVE TalkInv'
  OBVIOUS
<1> USE DEF TalkInv
<1>0. PICK n \in Nat, e \in Conv!Entries :
        n = Len(messages) /\ e = Conv!ToolResultMsg(Head(owed))
  BY EntryForms DEF Conv!TypeOK, Conv!Respond
<1>1. /\ DOMAIN messages = 1..n
      /\ Len(messages') = n + 1 /\ DOMAIN messages' = 1..(n + 1)
      /\ \A i \in 1..n : messages'[i] = messages[i]
      /\ messages'[n + 1] = e
  BY <1>0 DEF Conv!TypeOK, Conv!Respond
<1>2. /\ Head(owed) \in Calls /\ owed' = Tail(owed) /\ owed # <<>>
      /\ messages' = Append(messages, e)
      /\ e \in Conv!Entries /\ e.role = "toolResult" /\ e.call = Head(owed)
  BY <1>0 DEF Conv!TypeOK, Conv!Respond, Conv!ToolResultMsg
<1>3. ASSUME NEW j \in DOMAIN messages, ~Conv!IsResult(j), Conv!Answered(j, n - j)
      PROVE  /\ n - j < Len(Conv!CallsOf(j))
             /\ Head(owed) = Conv!CallsOf(j)[n - j + 1]
             /\ Tail(owed) = SubSeq(Conv!CallsOf(j), n - j + 2, Len(Conv!CallsOf(j)))
  <2>1. Conv!CallsOf(j) \in Seq(Calls) /\ Len(Conv!CallsOf(j)) \in Nat
    BY CallsOfType
  <2>2. /\ n - j <= Len(Conv!CallsOf(j))
        /\ owed = SubSeq(Conv!CallsOf(j), n - j + 1, Len(Conv!CallsOf(j)))
    BY <1>0, <1>3, OwedByOpenMessage
  <2>3. n - j \in Nat
    BY <1>1
  <2>4. n - j # Len(Conv!CallsOf(j))
    BY <1>2, <2>1, <2>2, <2>3, SubSeqEmpty
  <2>5. n - j + 1 \in 1..Len(Conv!CallsOf(j)) /\ Len(Conv!CallsOf(j)) \in (n - j + 1)..Len(Conv!CallsOf(j))
    BY <2>1, <2>2, <2>3, <2>4
  <2>6. /\ Head(owed) = Conv!CallsOf(j)[n - j + 1]
        /\ Tail(owed) = SubSeq(Conv!CallsOf(j), (n - j + 1) + 1, Len(Conv!CallsOf(j)))
    BY <2>1, <2>2, <2>5, HeadTailOfSubSeq
  <2>7. (n - j + 1) + 1 = n - j + 2 /\ n - j < Len(Conv!CallsOf(j))
    BY <2>1, <2>3, <2>5
  <2>8. QED
    BY <2>6, <2>7
<1>4. Conv!ToolResultsInOrder'
  BY <1>0, <1>2, <1>3, AppendInOrder
<1>5. Conv!OwedIsRemainder'
  <2>1. CASE \A i \in DOMAIN messages : Conv!IsResult(i)
    BY <1>1, <1>2, <2>1 DEF Conv!OwedIsRemainder, Conv!IsResult
  <2>2. ASSUME NEW j \in DOMAIN messages, ~Conv!IsResult(j), Conv!Answered(j, n - j)
        PROVE  Conv!OwedIsRemainder'
    <3>1. j \in DOMAIN messages' /\ ~Conv!IsResult(j)' /\ Conv!CallsOf(j)' = Conv!CallsOf(j)
      BY <1>1, <2>2 DEF Conv!IsResult, Conv!CallsOf
    <3>2. ASSUME NEW x \in 1..(n + 1 - j) PROVE Conv!IsResult(j + x)'
      <4>1. CASE x \in 1..(n - j)
        BY <1>1, <2>2, <4>1 DEF Conv!Answered, Conv!IsResult
      <4>2. CASE x = n + 1 - j
        <5>1. j + x = n + 1
          BY <1>1, <4>2
        <5>2. messages'[j + x].role = "toolResult"
          BY <1>1, <1>2, <5>1
        <5>3. QED
          BY <5>2 DEF Conv!IsResult
      <4>3. QED
        BY <1>1, <4>1, <4>2
    <3>3. Len(messages') - j = n + 1 - j
      BY <1>1
    <3>4. Conv!Answered(j, Len(messages) - j)'
      BY <3>2, <3>3 DEF Conv!Answered
    <3>5. Conv!CallsOf(j) \in Seq(Calls) /\ Len(Conv!CallsOf(j)) \in Nat
      BY CallsOfType
    <3>6. /\ n + 1 - j <= Len(Conv!CallsOf(j))
          /\ owed' = SubSeq(Conv!CallsOf(j), n + 1 - j + 1, Len(Conv!CallsOf(j)))
      <4>1. n - j < Len(Conv!CallsOf(j)) /\ owed' = SubSeq(Conv!CallsOf(j), n - j + 2, Len(Conv!CallsOf(j)))
        BY <1>2, <1>3, <2>2
      <4>2. n - j \in Nat /\ n + 1 - j = n - j + 1 /\ n + 1 - j + 1 = n - j + 2
        BY <1>1
      <4>3. n + 1 - j <= Len(Conv!CallsOf(j))
        BY <3>5, <4>1, <4>2
      <4>4. QED
        BY <4>1, <4>2, <4>3
    <3>7. QED
      BY <3>1, <3>3, <3>4, <3>6 DEF Conv!OwedIsRemainder
  <2>3. QED
    BY <1>0, <2>1, <2>2 DEF Conv!OwedIsRemainder
<1>6. QED
  BY <1>4, <1>5

LEMMA TalkInit == Conv!Init => TalkInv
BY TalkTypeInit DEF Conv!Init, TalkInv, Conv!ToolResultsInOrder, Conv!OwedIsRemainder

LEMMA TalkStep ==
  Conv!CallSeqsAssumption /\ TalkInv /\ [Conv!Next]_(Conv!vars) => TalkInv'
<1> SUFFICES ASSUME Conv!CallSeqsAssumption, TalkInv, [Conv!Next]_(Conv!vars) PROVE TalkInv'
  OBVIOUS
<1>1. Conv!TypeOK'
  BY TalkTypeStep DEF TalkInv
<1>2. ASSUME NEW m \in Msgs, Conv!Say(m) PROVE TalkInv'
  <2>1. Conv!UserMsg(m) \in Conv!Entries /\ Conv!UserMsg(m).role = "user"
    BY EntryForms DEF Conv!UserMsg
  <2>2. QED
    BY <1>1, <1>2, <2>1, SpeechKeepsInv DEF Conv!Say
<1>3. ASSUME NEW s \in Conv!Stops, NEW cs \in CallSeqs, Conv!Answer(s, cs) PROVE TalkInv'
  <2>1. /\ Conv!AssistantMsg(s, cs) \in Conv!Entries
        /\ Conv!AssistantMsg(s, cs).role = "assistant"
        /\ Conv!AssistantMsg(s, cs).stop = s /\ Conv!AssistantMsg(s, cs).calls = cs
    BY EntryForms DEF Conv!AssistantMsg
  <2>2. QED
    BY <1>1, <1>3, <2>1, SpeechKeepsInv DEF Conv!Answer
<1>4. CASE Conv!Respond
  BY <1>1, <1>4, RespondKeepsInv
<1>5. ASSUME NEW s \in {"error", "aborted"}, Conv!Fail(s) PROVE TalkInv'
  <2>1. /\ Conv!AssistantMsg(s, <<>>) \in Conv!Entries
        /\ Conv!AssistantMsg(s, <<>>).role = "assistant"
        /\ Conv!AssistantMsg(s, <<>>).stop = s /\ Conv!AssistantMsg(s, <<>>).calls = <<>>
    BY EntryForms DEF Conv!AssistantMsg, Conv!Stops, Conv!CallSeqsAssumption
  <2>2. Conv!Obliges(s, <<>>) = <<>>
    BY DEF Conv!Obliges
  <2>3. QED
    BY <1>1, <1>5, <2>1, <2>2, SpeechKeepsInv DEF Conv!Fail
<1>6. CASE Conv!Forget
  BY <1>1, <1>6 DEF Conv!Forget, TalkInv, Conv!ToolResultsInOrder, Conv!OwedIsRemainder
<1>7. CASE UNCHANGED Conv!vars
  <2>0. UNCHANGED messages /\ UNCHANGED owed /\ Conv!ToolResultsInOrder /\ Conv!OwedIsRemainder
    BY <1>7 DEF Conv!vars, TalkInv
  <2>1. Conv!ToolResultsInOrder'
    <3>1. ASSUME NEW j, NEW k
          PROVE  /\ Conv!IsResult(j)' <=> Conv!IsResult(j)
                 /\ Conv!Answered(j, k)' <=> Conv!Answered(j, k)
                 /\ Conv!InOrder(j, k)' <=> Conv!InOrder(j, k)
      BY <2>0 DEF Conv!InOrder, Conv!Answered, Conv!IsResult, Conv!IsFailure, Conv!CallsOf
    <3>2. QED
      BY <2>0, <3>1 DEF Conv!ToolResultsInOrder
  <2>2. Conv!OwedIsRemainder'
    BY <2>0 DEF Conv!OwedIsRemainder, Conv!Answered, Conv!IsResult, Conv!CallsOf
  <2>3. QED
    BY <1>1, <2>1, <2>2 DEF TalkInv
<1>8. QED
  BY <1>2, <1>3, <1>4, <1>5, <1>6, <1>7 DEF Conv!Next

(* Every tool result of the transcript answers, in source order, a call of *)
(* the message it follows, and what is owed is what is left of it.         *)
THEOREM ResultsAnswerInOrder ==
  ASSUME Conv!CallSeqsAssumption
  PROVE  Conv!Spec => [](Conv!ToolResultsInOrder /\ Conv!OwedIsRemainder)
<1>1. TalkInv => Conv!ToolResultsInOrder /\ Conv!OwedIsRemainder
  BY DEF TalkInv
<1>2. QED
  BY TalkInit, TalkStep, <1>1, PTL DEF Conv!Spec

(* Tool results answer the calls of their assistant message in source      *)
(* order, whichever order the tools of a batch end in: what Conversation   *)
(* promises, the agent keeps.                                              *)
THEOREM AgentAnswersInOrder == Spec => [](ToolResultsInOrder /\ OwedIsRemainder)
<1>1. Conv!CallSeqsAssumption
  BY AgentAssumption DEF Conv!CallSeqsAssumption
<1>2. Conv!Spec => [](Conv!ToolResultsInOrder /\ Conv!OwedIsRemainder)
  BY <1>1, ResultsAnswerInOrder
<1>3. QED
  BY <1>2, AgentIsConversation, PTL DEF ConversationSpec, ToolResultsInOrder, OwedIsRemainder

-----------------------------------------------------------------------------
(* Sequential batches. *)

(* The calls before `next` have ended, those behind it wait: while a call  *)
(* of a sequential batch is handled, and as the run found them when it     *)
(* failed.                                                                 *)
SerialInv ==
  Sequential =>
    /\ \A k \in DOMAIN batch : call[batch[k]] # "waiting" => k <= next
    /\ pc \in BatchPoints =>
         /\ \A i \in DOMAIN batch : i < next => call[batch[i]] = "ended"
         /\ pc = "tools" => \A k \in DOMAIN batch : call[batch[k]] # "waiting" => k < next
    /\ pc \in {"prepare", "execute", "tool_end"} => call[batch[next]] # "waiting"
    /\ pc = "answer" => \A c \in Calls : call[c] = "waiting"
    /\ pc \notin {"idle", "results"}
    /\ SequentialBatchIsSerial

LEMMA BatchIsInjective ==
  TypeOK => /\ DOMAIN batch = 1..Len(batch) /\ Len(batch) \in Nat
            /\ \A i \in DOMAIN batch : batch[i] \in Calls
            /\ \A i, j \in DOMAIN batch : batch[i] = batch[j] => i = j
<1> SUFFICES ASSUME TypeOK
             PROVE  /\ DOMAIN batch = 1..Len(batch) /\ Len(batch) \in Nat
                    /\ \A i \in DOMAIN batch : batch[i] \in Calls
                    /\ \A i, j \in DOMAIN batch : batch[i] = batch[j] => i = j
  OBVIOUS
<1>1. batch \in CallSeqs /\ batch \in Seq(Calls)
  BY BatchType DEF TypeOK
<1>2. \A i, j \in DOMAIN batch : batch[i] = batch[j] => i = j
  BY <1>1, AgentAssumption
<1>3. QED
  BY <1>1, <1>2

(* What the rest of the batch does not hold.                               *)
LEMMA BatchFromHolds ==
  ASSUME TypeOK, NEW j \in 1..(Len(batch) + 1), NEW i \in DOMAIN batch, i < j
  PROVE  batch[i] \notin ToSet(BatchFrom(j))
<1>1. /\ DOMAIN batch = 1..Len(batch) /\ Len(batch) \in Nat
      /\ \A m, n \in DOMAIN batch : batch[m] = batch[n] => m = n
  BY BatchIsInjective
<1>2. /\ Len(BatchFrom(j)) = Len(batch) - j + 1
      /\ DOMAIN BatchFrom(j) = 1..(Len(batch) - j + 1)
      /\ \A k \in 1..(Len(batch) - j + 1) : BatchFrom(j)[k] = batch[j + k - 1]
  BY <1>1, BatchType DEF BatchFrom
<1>3. ASSUME NEW k \in DOMAIN BatchFrom(j) PROVE BatchFrom(j)[k] # batch[i]
  <2>1. /\ k \in 1..(Len(batch) - j + 1) /\ BatchFrom(j)[k] = batch[j + k - 1]
        /\ j + k - 1 \in DOMAIN batch /\ j + k - 1 # i
    <3>1. /\ k \in 1..(Len(batch) - j + 1) /\ BatchFrom(j)[k] = batch[j + k - 1]
      BY <1>2
    <3>2. j + k - 1 \in 1..Len(batch) /\ j + k - 1 # i /\ i \in 1..Len(batch)
      BY <1>1, <3>1
    <3>3. QED
      BY <1>1, <3>1, <3>2
  <2>2. QED
    BY <1>1, <2>1
<1>4. QED
  BY <1>3 DEF ToSet

(* Steps that say, poll or wait.                                           *)
LEMMA SerialFrame ==
  ASSUME IInv, SerialInv,
         UNCHANGED <<batch, next, call>>,
         activeRun' # "none" => activeRun # "none",
         owed' \in {owed, <<>>} \/ (owed # <<>> /\ owed' = Tail(owed)),
         pc' = pc \/ pc' \notin BatchPoints \cup {"answer", "results", "idle"}
  PROVE  SerialInv'
<1>1. owed \in Seq(Calls)
  BY DEF IInv, TypeOK
<1>2. ToSet(owed') \subseteq ToSet(owed)
  <2>1. CASE owed # <<>> /\ owed' = Tail(owed)
    <3>1. /\ DOMAIN Tail(owed) = 1..(Len(owed) - 1) /\ Len(owed) \in Nat
          /\ \A k \in 1..(Len(owed) - 1) : Tail(owed)[k] = owed[k + 1]
          /\ DOMAIN owed = 1..Len(owed)
      BY <1>1, <2>1
    <3>2. \A k \in DOMAIN Tail(owed) : k + 1 \in DOMAIN owed /\ Tail(owed)[k] = owed[k + 1]
      BY <3>1
    <3>3. QED
      BY <2>1, <3>2 DEF ToSet
  <2>2. CASE owed' = <<>>
    BY <2>2 DEF ToSet
  <2>3. QED
    BY <2>1, <2>2 DEF ToSet
<1>3. Sequential' = Sequential
  BY DEF Sequential
<1>4. QED
  BY <1>2, <1>3 DEF SerialInv, SequentialBatchIsSerial, Sequential, BatchPoints
LEMMA CallsOf ==
  ASSUME IInv
  PROVE  /\ \A i \in DOMAIN batch : i \in 1..Len(batch) /\ i \in Int /\ batch[i] \in Calls
         /\ \A i, j \in DOMAIN batch : batch[i] = batch[j] => i = j
         /\ \A i \in 1..Len(batch) : i \in DOMAIN batch
         /\ next \in 1..(Len(batch) + 1) /\ Len(batch) \in Nat /\ next \in Int
         /\ call \in [Calls -> CallStates]
BY BatchIsInjective DEF IInv, TypeOK

(* Between two calls of a sequential batch, what is owed starts with the   *)
(* next call.                                                              *)
LEMMA SettledIsAnswered ==
  ASSUME IInv, SerialInv, Sequential, pc \in BatchPoints, announce = <<>>,
         NEW i \in DOMAIN batch, i < next
  PROVE  call[batch[i]] = "ended" /\ batch[i] \notin ToSet(owed)
<1>1. owed = BatchFrom(next)
  <2>1. ToolResultMsg(batch[next - 1]) = ToolResultMsg(batch[next - 1])
    OBVIOUS
  <2>2. QED
    BY DEF IInv, OwedFollowsControl
<1>2. batch[i] \notin ToSet(owed)
  BY <1>1, BatchFromHolds DEF IInv, TypeOK
<1>3. QED
  BY <1>2 DEF SerialInv

LEMMA ToolStepKeepsSerial ==
  ASSUME IInv, SerialInv,
         \/ EmitToolExecutionStart \/ PrepareToolCall
         \/ EmitToolExecutionEnd \/ AwaitToolCalls \/ EndBatch
         \/ \E c \in Calls : ToolReturns(c)
  PROVE  SerialInv'
<1> SUFFICES ASSUME Sequential' PROVE SerialInv'
  BY DEF SerialInv
<1>0. UNCHANGED <<batch, activeRun, owed>> /\ Sequential
  BY DEF EmitToolExecutionStart, PrepareToolCall, EmitToolExecutionEnd, AwaitToolCalls,
     EndBatch, ToolReturns, tools, Sequential
<1> USE CallsOf
<1>1. CASE EmitToolExecutionStart
  <2>1. /\ pc = "tools" /\ announce = <<>> /\ next \in DOMAIN batch
        /\ call' = [call EXCEPT ![batch[next]] = "started"] /\ pc' = "prepare"
        /\ UNCHANGED next
    BY <1>1 DEF EmitToolExecutionStart
  <2>2. \A k \in DOMAIN batch : call'[batch[k]] = IF k = next THEN "started" ELSE call[batch[k]]
    BY <2>1
  <2>3. \A i \in DOMAIN batch : i < next => call[batch[i]] = "ended" /\ batch[i] \notin ToSet(owed)
    BY <1>0, <2>1, SettledIsAnswered DEF BatchPoints
  <2>4. \A k \in DOMAIN batch : call'[batch[k]] # "waiting" => k <= next
    BY <1>0, <2>1, <2>2 DEF SerialInv
  <2>5. SequentialBatchIsSerial'
    BY <1>0, <2>1, <2>2, <2>3, <2>4 DEF SequentialBatchIsSerial
  <2>6. QED
    BY <1>0, <2>1, <2>2, <2>3, <2>4, <2>5 DEF SerialInv, BatchPoints
<1>2. CASE PrepareToolCall
  <2>1. /\ pc = "prepare" /\ next \in DOMAIN batch /\ announce = <<>>
        /\ UNCHANGED next /\ pc' \in {"tool_end", "execute"}
        /\ call[batch[next]] = "started"
    BY <1>0, <1>2 DEF PrepareToolCall, IInv, CallsFollowControl, OwedFollowsControl, BatchPoints
  <2>2. PICK s \in {"settled", "running"} : call' = [call EXCEPT ![batch[next]] = s]
    BY <1>2 DEF PrepareToolCall
  <2>3. \A k \in DOMAIN batch : call'[batch[k]] = IF k = next THEN s ELSE call[batch[k]]
    BY <2>1, <2>2
  <2>4. SequentialBatchIsSerial'
    BY <1>0, <2>1, <2>3 DEF SequentialBatchIsSerial, SerialInv, Sequential
  <2>5. QED
    BY <1>0, <2>1, <2>3, <2>4 DEF SerialInv, BatchPoints
<1>3. CASE EmitToolExecutionEnd
  <2>1. /\ pc = "tool_end" /\ pc' = "tools" /\ next \in DOMAIN batch /\ next' = next + 1
        /\ call' = [call EXCEPT ![batch[next]] = "ended"]
    BY <1>3 DEF EmitToolExecutionEnd, IInv, CallsFollowControl
  <2>2. \A k \in DOMAIN batch : call'[batch[k]] = IF k = next THEN "ended" ELSE call[batch[k]]
    BY <2>1
  <2>3. \A k \in DOMAIN batch : call[batch[k]] # "waiting" => k <= next
    BY <1>0 DEF SerialInv
  <2>4. \A i, k \in DOMAIN batch :
          i < k /\ call'[batch[k]] # "waiting" =>
            call'[batch[i]] = "ended" /\ batch[i] \notin ToSet(owed)
    <3>1. call[batch[next]] # "waiting" /\ activeRun # "none"
      BY <1>0, <2>1 DEF SerialInv, IInv, CallsFollowControl
    <3>2. \A i, k \in DOMAIN batch :
            i < k /\ call[batch[k]] # "waiting" =>
              call[batch[i]] = "ended" /\ batch[i] \notin ToSet(owed)
      BY <1>0, <3>1 DEF SerialInv, SequentialBatchIsSerial, Sequential
    <3>3. QED
      BY <2>2, <2>3, <3>1, <3>2, <2>1
  <2>5. SequentialBatchIsSerial'
    BY <1>0, <2>4 DEF SequentialBatchIsSerial
  <2>6. \A i \in DOMAIN batch : i < next + 1 => call'[batch[i]] = "ended"
    BY <1>0, <2>1, <2>2 DEF SerialInv, BatchPoints
  <2>7. \A k \in DOMAIN batch : call'[batch[k]] # "waiting" => k < next + 1
    BY <2>1, <2>2, <2>3
  <2>8. QED
    BY <1>0, <2>1, <2>5, <2>6, <2>7 DEF SerialInv
<1>4. CASE AwaitToolCalls
  BY <1>0, <1>4 DEF AwaitToolCalls
<1>5. CASE EndBatch
  <2>1. pc' \in {"turn_end", "last_turn_end"} /\ UNCHANGED <<call, next>>
    BY <1>5 DEF EndBatch, tools
  <2>2. QED
    BY <1>0, <2>1, SerialFrame DEF BatchPoints
<1>6. ASSUME NEW c \in Calls, ToolReturns(c) PROVE SerialInv'
  <2>1. /\ pc = "execute" /\ pc' = "tool_end" /\ c = batch[next] /\ next \in DOMAIN batch
        /\ UNCHANGED next /\ call' = [call EXCEPT ![c] = "settled"] /\ call[c] # "waiting"
    BY <1>0, <1>6 DEF ToolReturns, IInv, CallsFollowControl
  <2>2. \A k \in DOMAIN batch : call'[batch[k]] = IF k = next THEN "settled" ELSE call[batch[k]]
    BY <2>1
  <2>3. SequentialBatchIsSerial'
    BY <1>0, <2>1, <2>2 DEF SequentialBatchIsSerial, SerialInv, Sequential
  <2>4. QED
    BY <1>0, <2>1, <2>2, <2>3 DEF SerialInv, BatchPoints
<1>7. QED
  BY <1>1, <1>2, <1>3, <1>4, <1>5, <1>6

LEMMA SerialStep == IInv /\ SerialInv /\ [Next]_vars => SerialInv'
<1> SUFFICES ASSUME IInv, SerialInv, [Next]_vars PROVE SerialInv'
  OBVIOUS
<1> USE DEF BatchPoints, tools, state
<1>1. CASE \/ \E m \in Msgs : Steer(m) \/ FollowUp(m)
           \/ ClearSteeringQueue \/ ClearFollowUpQueue \/ Abort \/ Reset
  <2>1. UNCHANGED <<batch, next, call, owed, pc>> /\ (activeRun' # "none" => activeRun # "none")
    BY <1>1 DEF Steer, FollowUp, ClearSteeringQueue, ClearFollowUpQueue, Abort, Reset
  <2>2. QED
    BY <2>1, SerialFrame
<1>2. ASSUME NEW prompts, NEW skip, RunWithLifecycle(prompts, skip)
      PROVE  SerialInv'
  <2>1. pc = "idle" /\ UNCHANGED batch
    BY <1>2 DEF RunWithLifecycle, IInv, CallsFollowControl
  <2>2. QED
    BY <2>1 DEF SerialInv, Sequential
<1>3. CASE \/ EmitAgentStart \/ EmitTurnStart \/ EmitMessageStart \/ EmitMessageEnd
           \/ PollInitial \/ EmitTurnEnd \/ PollAfterTurn
           \/ Request \/ StreamStart \/ EmitAgentEnd
           \/ HandleRunFailure
  <2>1. /\ UNCHANGED <<batch, next, call, activeRun>>
        /\ pc' = pc \/ pc' \notin BatchPoints \cup {"answer", "results", "idle"}
    BY <1>3 DEF EmitAgentStart, EmitTurnStart, EmitMessageStart,
     EmitMessageEnd, PollInitial, EmitTurnEnd, PollAfterTurn, Request,
     StreamStart, EmitAgentEnd, HandleRunFailure
  <2>2. CASE EmitMessageEnd
    <3>1. CASE pc = "answer"
      <4>1. \A c \in Calls : call[c] = "waiting"  \/ ~Sequential
        BY <3>1 DEF SerialInv
      <4>2. pc' = pc
        BY <2>2 DEF EmitMessageEnd
      <4>3. QED
        BY <2>1, <3>1, <4>1, <4>2, CallsOf DEF SerialInv, Sequential, SequentialBatchIsSerial
    <3>2. CASE pc # "answer"
      <4>1. owed' = owed \/ (owed # <<>> /\ owed' = Tail(owed))
        BY <2>2, <3>2, WhatIsAnnounced DEF EmitMessageEnd, Conv!UserMsgs, ToolResultMsg, Conv!ToolResultMsg
      <4>2. QED
        BY <2>1, <4>1, SerialFrame
    <3>3. QED
      BY <3>1, <3>2
  <2>3. CASE HandleRunFailure
    BY <2>1, <2>3, SerialFrame DEF HandleRunFailure
  <2>4. CASE ~EmitMessageEnd /\ ~HandleRunFailure
    <3>1. UNCHANGED owed
      BY <1>3, <2>4 DEF EmitAgentStart, EmitTurnStart, EmitMessageStart, PollInitial, EmitTurnEnd,
         PollAfterTurn, Request, StreamStart, EmitAgentEnd
    <3>2. QED
      BY <2>1, <3>1, SerialFrame
  <2>5. QED
    BY <2>2, <2>3, <2>4
<1>4. CASE Throw
  <2>1. UNCHANGED <<batch, next, call, activeRun, owed>> /\ pc' = "failing"
    BY <1>4, Zenon DEF Throw
  <2>2. QED
    BY <2>1, SerialFrame
<1>5. CASE TakeAnswer
  <2>1. /\ pc = "answer" /\ pc' \in {"last_turn_end", "turn_end", "tools"}
        /\ UNCHANGED <<batch, next, call, activeRun, owed>>
    BY <1>5 DEF TakeAnswer, NextAfterAnswer
  <2>2. CASE Sequential
    <3>1. \A k \in DOMAIN batch : call[batch[k]] = "waiting"
      BY <2>1, <2>2, CallsOf DEF SerialInv
    <3>2. next = 1
      BY <2>1 DEF IInv, OwedFollowsControl
    <3>3. \A k \in DOMAIN batch : ~(k < 1)
      BY CallsOf
    <3>4. SequentialBatchIsSerial'
      BY <2>1, <3>1 DEF SequentialBatchIsSerial
    <3>5. QED
      BY <2>1, <3>1, <3>2, <3>3, <3>4 DEF SerialInv
  <2>3. CASE ~Sequential
    BY <2>1, <2>3 DEF SerialInv, Sequential
  <2>4. QED
    BY <2>2, <2>3
<1>6. ASSUME NEW s \in Conv!Stops, NEW cs \in CallSeqs, FinalMessage(s, cs)
      PROVE  SerialInv'
  <2>1. /\ \A c \in Calls : call'[c] = "waiting"
        /\ pc' = "answer" /\ batch' = cs /\ cs \in Seq(Calls)
    <3>1. call' = [c \in Calls |-> "waiting"] /\ pc' = "answer" /\ batch' = cs
      BY <1>6 DEF FinalMessage, NewBatch
    <3>2. cs \in Seq(Calls)
      BY ConstantTypes
    <3>3. QED
      BY <3>1, <3>2
  <2>2. \A k \in DOMAIN batch' : call'[batch'[k]] = "waiting"
    BY <2>1
  <2>3. QED
    BY <2>1, <2>2 DEF SerialInv, SequentialBatchIsSerial
<1>7. CASE FinishRun
  <2>1. batch' = <<>>
    BY <1>7 DEF FinishRun
  <2>2. QED
    BY <2>1 DEF SerialInv, Sequential, ToSet
<1>8. CASE UNCHANGED vars
  BY <1>8, SerialFrame DEF vars
<1>9. QED
  BY <1>1, <1>2, <1>3, <1>4, <1>5, <1>6, <1>7, <1>8, ToolStepKeepsSerial
  DEF Next, CallerStep, LoopStep, Answer, Prompt, Continue,
      ContinueFromAssistant, ContinueFromInput

(* A call of a batch that holds a sequential tool starts when every call   *)
(* before it has ended and been answered, also when the run fails.         *)
THEOREM SequentialBatches == Spec => []SequentialBatchIsSerial
<1>1. Init => SerialInv
  BY DEF Init, SerialInv, Sequential, ToSet
<1>2. SerialInv /\ IInv => SequentialBatchIsSerial
  BY CallsOf DEF SerialInv, Sequential, SequentialBatchIsSerial
<1>3. QED
  BY <1>1, <1>2, InvInit, InvStep, SerialStep, PTL DEF Spec

-----------------------------------------------------------------------------
(* The loop's copy of the transcript. *)

Partial == AssistantMsg("partial", <<>>)
Said    == Conv!Entries \cup {Partial}

(* What the loop's copy will be when the results of its batch are in it,   *)
(* and what the transcript still gets until then.                          *)
Heard ==
  IF pc \in BatchPoints \cup {"results"} THEN context \o ResultsOf(batch) ELSE context
ToCome ==
  IF pc \in BatchPoints \cup {"results"} THEN ResultsOf(owed)
  ELSE IF pc = "stream" THEN <<Partial>> ELSE announce

(* Until a run fails or ends its copy is the transcript and what is to     *)
(* come, behind what a reset took away.                                    *)
Copies == pc \notin {"idle", "failing", "fail_end", "finish"}
CopyInv ==
  Copies => \E p \in Seq(Said) : /\ Heard = p \o (messages \o ToCome)
                                 /\ ~cut => p = <<>>

LEMMA SaidTypes ==
  ASSUME TypeOK
  PROVE  /\ messages \in Seq(Said) /\ context \in Seq(Said) /\ announce \in Seq(Said)
         /\ ResultsOf(batch) \in Seq(Said) /\ ResultsOf(owed) \in Seq(Said)
         /\ <<Partial>> \in Seq(Said) /\ <<>> \in Seq(Said)
         /\ Heard \in Seq(Said) /\ ToCome \in Seq(Said)
<1>1. /\ ResultsOf(batch) \in Seq(Conv!Entries) /\ ResultsOf(owed) \in Seq(Conv!Entries)
      /\ messages \in Seq(Conv!Entries) /\ announce \in Seq(Conv!Entries)
  BY BatchType, ResultsOfType DEF TypeOK
<1>2. Conv!Entries \subseteq Said /\ Partial \in Said
  BY DEF Said
<1>3. context \in Seq(Said)
  BY DEF TypeOK, Said, Partial
<1> HIDE DEF Said
<1>4. /\ messages \in Seq(Said) /\ announce \in Seq(Said)
      /\ ResultsOf(batch) \in Seq(Said) /\ ResultsOf(owed) \in Seq(Said)
  BY <1>1, <1>2, SeqMonotonic
<1>5. <<Partial>> \in Seq(Said) /\ <<>> \in Seq(Said)
  BY <1>2
<1>6. Heard \in Seq(Said)
  BY <1>3, <1>4, ConcatProperties DEF Heard
<1>7. ToCome \in Seq(Said)
  BY <1>4, <1>5 DEF ToCome
<1>8. QED
  BY <1>3, <1>4, <1>5, <1>6, <1>7

(* A step that says nothing new to either of the two.                      *)
LEMMA CopyFrame ==
  ASSUME CopyInv, Copies, UNCHANGED <<cut, Heard>>,
         messages' \o ToCome' = messages \o ToCome
  PROVE  CopyInv'
BY DEF CopyInv

(* A step after which both get x.                                          *)
LEMMA CopyGrows ==
  ASSUME TypeOK, CopyInv, Copies, UNCHANGED <<cut, messages>>,
         NEW x \in Seq(Said), Heard' = Heard \o x, ToCome' = ToCome \o x
  PROVE  CopyInv'
<1>1. PICK p \in Seq(Said) : Heard = p \o (messages \o ToCome) /\ (~cut => p = <<>>)
  BY DEF CopyInv
<1>2. messages \in Seq(Said) /\ ToCome \in Seq(Said)
  BY SaidTypes
<1>3. Cat(Cat(p, Cat(messages, ToCome)), x) = Cat(p, Cat(messages, Cat(ToCome, x)))
  BY <1>2, CatClosed, CatAssociative
<1>4. (p \o (messages \o ToCome)) \o x = p \o (messages \o (ToCome \o x))
  BY <1>3 DEF Cat
<1>5. Heard' = p \o (messages' \o ToCome') /\ (~cut' => p = <<>>)
  BY <1>1, <1>4
<1>6. QED
  BY <1>5 DEF CopyInv

LEMMA ResetKeepsCopy == TypeOK /\ CallsFollowControl /\ CopyInv /\ Reset => CopyInv'
<1> SUFFICES ASSUME TypeOK, CallsFollowControl, CopyInv, Reset, Copies' PROVE CopyInv'
  BY DEF CopyInv
<1>1. /\ messages' = <<>> /\ (cut' <=> activeRun # "none")
      /\ UNCHANGED <<pc, context, batch, owed, announce>>
  BY Zenon DEF Reset, tools
<1>2. Heard' = Heard /\ ToCome' = ToCome /\ Copies
  BY <1>1 DEF Heard, ToCome, ResultsOf, Copies
<1>3. cut'
  BY <1>1, <1>2 DEF CallsFollowControl, Copies
<1>4. PICK p \in Seq(Said) : Heard = p \o (messages \o ToCome)
  BY <1>2 DEF CopyInv
<1>5. /\ messages \in Seq(Said) /\ ToCome \in Seq(Said)
      /\ p \o messages \in Seq(Said) /\ messages' \o ToCome' = ToCome
  BY <1>1, <1>2, SaidTypes, ConcatProperties, ConcatEmptySeq
<1>6. (p \o messages) \o ToCome = p \o (messages \o ToCome)
  <2>1. messages \in Seq(Said) /\ ToCome \in Seq(Said)
    BY <1>5
  <2>2. Cat(Cat(p, messages), ToCome) = Cat(p, Cat(messages, ToCome))
    BY <2>1, CatAssociative
  <2>3. QED
    BY <2>2 DEF Cat
<1>7. QED
  BY <1>2, <1>3, <1>4, <1>5, <1>6 DEF CopyInv

LEMMA RunStartMakesCopy ==
  ASSUME TypeOK, NEW prompts \in Seq(Msgs), NEW skip, RunWithLifecycle(prompts, skip)
  PROVE  CopyInv'
<1>1. /\ pc' = "agent_start" /\ context' = messages \o UserMsgsOf(prompts)
      /\ announce' = UserMsgsOf(prompts) /\ UNCHANGED messages
  BY DEF RunWithLifecycle
<1>2. Heard' = context' /\ ToCome' = announce'
  BY <1>1 DEF Heard, ToCome, BatchPoints
<1>3. messages \o UserMsgsOf(prompts) \in Seq(Said)
  <2>1. UserMsgsOf(prompts) \in Seq(Said) /\ messages \in Seq(Said)
    BY UserMsgsOfType, SeqMonotonic, SaidTypes DEF Said
  <2>2. QED
    BY <2>1, ConcatProperties
<1>4. messages \o UserMsgsOf(prompts) = <<>> \o (messages \o UserMsgsOf(prompts))
  BY <1>3, ConcatEmptySeq
<1>5. QED
  BY <1>1, <1>2, <1>4, SaidTypes DEF CopyInv

(* The end of a message moves it from what is to come to the transcript.   *)
LEMMA MessageEndKeepsCopy == IInv /\ CopyInv /\ EmitMessageEnd => CopyInv'
<1> SUFFICES ASSUME IInv, CopyInv, EmitMessageEnd PROVE CopyInv'
  OBVIOUS
<1>1. /\ Announcing /\ announce # <<>> /\ announce' = Tail(announce)
      /\ messages' = Append(messages, Head(announce))
      /\ UNCHANGED <<pc, context, batch, cut>>
  BY DEF EmitMessageEnd, tools
<1>2. Copies /\ pc # "stream"
  BY <1>1 DEF Announcing, Copies
<1>3. Heard' = Heard
  BY <1>1 DEF Heard, ResultsOf
<1>4. messages' \o ToCome' = messages \o ToCome
  <2>1. CASE pc \in BatchPoints \cup {"results"}
    <3>1. owed # <<>> /\ Head(announce) = ToolResultMsg(Head(owed))
      BY <1>1, <2>1, WhatIsAnnounced DEF Announcing, BatchPoints
    <3>2. owed' = Tail(owed) /\ owed \in Seq(Calls)
      BY <3>1, BatchType DEF EmitMessageEnd, ToolResultMsg, Conv!ToolResultMsg, IInv
    <3>3. ResultsOf(owed) # <<>>
      BY <3>1, <3>2, ResultsOfType
    <3>4. ResultsOf(Tail(owed)) = Tail(ResultsOf(owed)) /\ Head(ResultsOf(owed)) = Head(announce)
      BY <3>1, <3>2, <3>3, ResultsOfTail
    <3>5. ToCome = ResultsOf(owed) /\ ToCome' = ResultsOf(Tail(owed))
      <4>1. pc' \in BatchPoints \cup {"results"} /\ owed' = Tail(owed)
        BY <1>1, <2>1, <3>2
      <4>2. ToCome' = ResultsOf(owed')
        BY <4>1 DEF ToCome, ResultsOf
      <4>3. QED
        BY <2>1, <4>1, <4>2 DEF ToCome
    <3>6. messages \in Seq(Said) /\ ResultsOf(owed) \in Seq(Said)
      BY SaidTypes DEF IInv
    <3>7. QED
      BY <1>1, <3>3, <3>4, <3>5, <3>6, AppendHeadTail
  <2>2. CASE pc \notin BatchPoints \cup {"results"}
    <3>1. ToCome = announce /\ ToCome' = Tail(announce)
      BY <1>1, <1>2, <2>2 DEF ToCome
    <3>2. messages \in Seq(Said) /\ announce \in Seq(Said)
      BY SaidTypes DEF IInv
    <3>3. QED
      BY <1>1, <3>1, <3>2, AppendHeadTail
  <2>3. QED
    BY <2>1, <2>2
<1>5. QED
  BY <1>1, <1>2, <1>3, <1>4, CopyFrame

LEMMA PollKeepsCopy == IInv /\ CopyInv /\ (PollInitial \/ PollAfterTurn) => CopyInv'
<1> SUFFICES ASSUME IInv, CopyInv, PollInitial \/ PollAfterTurn PROVE CopyInv'
  OBVIOUS
<1>1. /\ pc \in {"prompts", "poll"} /\ pc' \in {"request", "turn_start", "agent_end"}
      /\ announce = <<>> /\ UNCHANGED <<messages, cut>>
  BY DEF PollInitial, PollAfterTurn, state, IInv, OwedFollowsControl, QuietPoints
<1>2. /\ Copies /\ Heard = context /\ Heard' = context' /\ ToCome = <<>> /\ ToCome' = announce'
  BY <1>1 DEF Copies, Heard, ToCome, BatchPoints
<1>3. CASE UNCHANGED <<context, announce>>
  BY <1>1, <1>2, <1>3, CopyFrame
<1>4. ASSUME NEW ms \in Seq(Msgs), Inject(ms) PROVE CopyInv'
  <2>1. UserMsgsOf(ms) \in Seq(Said)
    BY UserMsgsOfType, SeqMonotonic DEF Said
  <2>2. Heard' = Heard \o UserMsgsOf(ms) /\ ToCome' = ToCome \o UserMsgsOf(ms)
    BY <1>2, <1>4, <2>1, ConcatEmptySeq DEF Inject
  <2>3. QED
    BY <1>1, <1>2, <2>1, <2>2, CopyGrows DEF IInv
<1>5. /\ Drained(SteeringMode, steeringQueue) \in Seq(Msgs)
      /\ Drained(FollowUpMode, followUpQueue) \in Seq(Msgs)
  BY DrainTypes DEF IInv, TypeOK
<1>6. QED
  BY <1>3, <1>4, <1>5 DEF PollInitial, PollAfterTurn

LEMMA AnswerKeepsCopy ==
  ASSUME IInv, CopyInv, Request \/ StreamStart \/ Answer \/ TakeAnswer
  PROVE  CopyInv'
<1>1. CASE Request
  <2>1. /\ pc = "request" /\ pc' \in {"refused", "called"}
        /\ UNCHANGED <<messages, context, announce, cut>>
    BY <1>1 DEF Request, state
  <2>2. QED
    BY <2>1, CopyFrame DEF Copies, Heard, ToCome, BatchPoints
<1>2. CASE StreamStart
  <2>1. /\ pc = "called" /\ pc' = "stream" /\ announce = <<>>
        /\ context' = Append(context, Partial) /\ UNCHANGED <<messages, cut>>
    BY <1>2 DEF StreamStart, Partial, IInv, OwedFollowsControl, QuietPoints
  <2>2. /\ Copies /\ Heard = context /\ Heard' = context' /\ ToCome = <<>> /\ ToCome' = <<Partial>>
    BY <2>1 DEF Copies, Heard, ToCome, BatchPoints
  <2>3. context \in Seq(Said) /\ Partial \in Said /\ <<Partial>> \in Seq(Said)
    BY SaidTypes DEF IInv, Said
  <2>4. context' = context \o <<Partial>> /\ <<Partial>> = <<>> \o <<Partial>>
    BY <2>1, <2>3, AppendIsConcat, ConcatEmptySeq
  <2>5. QED
    BY <2>1, <2>2, <2>3, <2>4, CopyGrows DEF IInv
<1>3. ASSUME NEW s \in Conv!Stops, NEW cs \in CallSeqs, FinalMessage(s, cs)
      PROVE  CopyInv'
  <2> DEFINE final == AssistantMsg(s, cs)
  <2>1. final \in Said /\ <<final>> \in Seq(Said)
    BY EntryShapes DEF Said
  <2> HIDE DEF final
  <2>2. /\ pc \in {"called", "refused", "stream"} /\ pc' = "answer"
        /\ announce = <<>> /\ announce' = <<final>> /\ UNCHANGED <<messages, cut>>
        /\ context' = IF pc = "stream" THEN [context EXCEPT ![Len(context)] = final]
                                       ELSE Append(context, final)
    BY <1>3 DEF FinalMessage, IInv, OwedFollowsControl, QuietPoints, state, final
  <2>3. /\ Copies /\ Heard = context /\ Heard' = context' /\ ToCome' = <<final>>
        /\ ToCome = IF pc = "stream" THEN <<Partial>> ELSE <<>>
        /\ context \in Seq(Said) /\ messages \in Seq(Said)
    BY <2>2, SaidTypes DEF Copies, Heard, ToCome, BatchPoints, IInv
  <2>4. CASE pc # "stream"
    <3>1. context' = context \o <<final>> /\ <<final>> = <<>> \o <<final>>
      BY <2>1, <2>2, <2>3, <2>4, AppendIsConcat, ConcatEmptySeq
    <3>2. QED
      BY <2>1, <2>2, <2>3, <2>4, <3>1, CopyGrows DEF IInv
  <2>5. CASE pc = "stream"
    <3>1. PICK p \in Seq(Said) : context = p \o (messages \o <<Partial>>) /\ (~cut => p = <<>>)
      BY <2>3, <2>5 DEF CopyInv
    <3>2. p \o messages \in Seq(Said) /\ Partial \in Said
      BY <2>3, ConcatProperties DEF Said
    <3>3. \A x \in Said : (p \o messages) \o <<x>> = p \o (messages \o <<x>>)
      <4> SUFFICES ASSUME NEW x \in Said
                   PROVE  (p \o messages) \o <<x>> = p \o (messages \o <<x>>)
        OBVIOUS
      <4> DEFINE o == <<x>>
      <4>1. o \in Seq(Said) /\ p \in Seq(Said) /\ messages \in Seq(Said)
        BY <2>3
      <4> HIDE DEF o
      <4>2. Cat(Cat(p, messages), o) = Cat(p, Cat(messages, o))
        BY <4>1, CatAssociative
      <4>3. (p \o messages) \o o = p \o (messages \o o)
        BY <4>2 DEF Cat
      <4>4. QED
        BY <4>3 DEF o
    <3>4. context = (p \o messages) \o <<Partial>>
      BY <3>1, <3>2, <3>3
    <3>5. context' = (p \o messages) \o <<final>>
      <4> DEFINE q == p \o messages
      <4>1. q \in Seq(Said) /\ context = q \o <<Partial>>
        BY <3>2, <3>4
      <4>2. context' = [context EXCEPT ![Len(context)] = final]
        BY <2>2, <2>5
      <4> HIDE DEF q
      <4>3. SwapLast(Cat(q, <<Partial>>), final) = Cat(q, <<final>>)
        BY <2>1, <3>2, <4>1, ReplaceLast
      <4>4. context' = q \o <<final>>
        BY <4>1, <4>2, <4>3 DEF SwapLast, Cat
      <4>5. QED
        BY <4>4 DEF q
    <3>6. context' = p \o (messages \o <<final>>)
      BY <2>1, <3>3, <3>5
    <3>7. QED
      BY <2>2, <2>3, <3>1, <3>6 DEF CopyInv
  <2>6. QED
    BY <2>4, <2>5
<1>4. CASE TakeAnswer
  <2>1. /\ pc = "answer" /\ announce = <<>> /\ pc' = NextAfterAnswer
        /\ UNCHANGED <<messages, context, announce, cut, batch, owed>>
    BY <1>4 DEF TakeAnswer, state, tools
  <2>2. Copies /\ Heard = context /\ ToCome = <<>>
    BY <2>1 DEF Copies, Heard, ToCome, BatchPoints
  <2>3. CASE pc' \in {"last_turn_end", "turn_end"}
    BY <2>1, <2>2, <2>3, CopyFrame DEF Heard, ToCome, BatchPoints
  <2>4. CASE pc' = "tools"
    <3>1. owed = batch
      BY <2>1, <2>4 DEF NextAfterAnswer, IInv, OwedFollowsControl, Conv!Obliges
    <3>2. ResultsOf(batch) \in Seq(Said)
      BY SaidTypes DEF IInv
    <3>3. Heard' = Heard \o ResultsOf(batch) /\ ToCome' = ResultsOf(batch)
      BY <2>1, <2>2, <2>4, <3>1 DEF Heard, ToCome, BatchPoints, ResultsOf
    <3>4. ResultsOf(batch) = <<>> \o ResultsOf(batch)
      BY <3>2, ConcatEmptySeq
    <3>5. QED
      BY <2>1, <2>2, <3>2, <3>3, <3>4, CopyGrows DEF IInv
  <2>5. QED
    BY <2>1, <2>3, <2>4 DEF NextAfterAnswer
<1>5. QED
  BY <1>1, <1>2, <1>3, <1>4 DEF Answer

LEMMA ToolStepKeepsCopy ==
  ASSUME IInv, CopyInv,
         \/ EmitToolExecutionStart \/ PrepareToolCall
         \/ EmitToolExecutionEnd \/ AwaitToolCalls \/ EndBatch
         \/ \E c \in Calls : ToolReturns(c)
  PROVE  CopyInv'
<1> USE DEF BatchPoints
<1>1. CASE EmitToolExecutionStart \/ PrepareToolCall \/ EmitToolExecutionEnd
  <2>1. /\ pc \in BatchPoints /\ pc' \in BatchPoints
        /\ UNCHANGED <<messages, context, batch, owed, cut>>
    BY <1>1 DEF EmitToolExecutionStart, PrepareToolCall, EmitToolExecutionEnd, state
  <2>2. QED
    BY <2>1, CopyFrame DEF Copies, Heard, ToCome, ResultsOf
<1>2. CASE AwaitToolCalls
  <2>1. /\ pc = "tools" /\ UNCHANGED <<messages, context, batch, owed, cut>>
        /\ pc' \in {"results", "failing"}
    BY <1>2 DEF AwaitToolCalls, Awaited, state, tools
  <2>2. QED
    BY <2>1, CopyFrame DEF Copies, CopyInv, Heard, ToCome, ResultsOf
<1>3. CASE EndBatch
  <2>1. /\ pc \in {"results", "tools"} /\ pc' \in {"last_turn_end", "turn_end"}
        /\ announce = <<>> /\ context' = context \o ResultsOf(batch)
        /\ UNCHANGED <<messages, announce, batch, owed, cut>>
    BY <1>3 DEF EndBatch, state, tools
  <2>2. owed = <<>>
    <3>1. owed \in Seq(Calls) /\ batch \in Seq(Calls) /\ Len(batch) \in Nat
      BY BatchType DEF IInv
    <3>2. CASE pc = "results"
      <4>1. ResultsOf(owed) = <<>>
        BY <2>1, <3>2 DEF IInv, OwedFollowsControl
      <4>2. QED
        BY <3>1, <4>1, ResultsOfType
    <3>3. CASE pc = "tools"
      <4>1. Sequential /\ next > Len(batch) /\ next \in 1..(Len(batch) + 1)
        BY <1>3, <3>3 DEF EndBatch, IInv, TypeOK
      <4>2. owed = SubSeq(batch, Len(batch) + 1, Len(batch))
        <5>1. owed = BatchFrom(next)
          BY <2>1, <3>3, <4>1 DEF IInv, OwedFollowsControl
        <5>2. next = Len(batch) + 1
          BY <3>1, <4>1
        <5>3. QED
          BY <5>1, <5>2 DEF BatchFrom
      <4>3. QED
        BY <3>1, <4>2, SubSeqEmpty
    <3>4. QED
      BY <2>1, <3>2, <3>3
  <2>3. Copies /\ Heard' = Heard /\ ToCome' = <<>>
    BY <2>1 DEF Copies, Heard, ToCome
  <2>4. ToCome = <<>>
    BY <2>1, <2>2 DEF ToCome, ResultsOf
  <2>5. QED
    BY <2>1, <2>3, <2>4, CopyFrame
<1>4. ASSUME NEW c \in Calls, ToolReturns(c) PROVE CopyInv'
  <2>1. /\ UNCHANGED <<messages, context, batch, owed, cut, announce>>
        /\ pc \in BatchPoints \cup {"failing"}
        /\ pc' = pc \/ (pc = "execute" /\ pc' = "tool_end")
    BY <1>4 DEF ToolReturns, IInv, CallsFollowControl
  <2>2. QED
    BY <2>1, CopyFrame DEF CopyInv, Copies, Heard, ToCome, ResultsOf
<1>5. QED
  BY <1>1, <1>2, <1>3, <1>4

LEMMA CopyStep == IInv /\ CopyInv /\ [Next]_vars => CopyInv'
<1> SUFFICES ASSUME IInv, CopyInv, [Next]_vars PROVE CopyInv'
  OBVIOUS
<1> USE DEF state, tools
<1>1. CASE \/ \E m \in Msgs : Steer(m) \/ FollowUp(m)
           \/ ClearSteeringQueue \/ ClearFollowUpQueue \/ Abort
           \/ EmitMessageStart \/ UNCHANGED vars
  <2>1. UNCHANGED <<pc, messages, context, announce, batch, owed, cut>>
    BY <1>1 DEF Steer, FollowUp, ClearSteeringQueue, ClearFollowUpQueue, Abort, EmitMessageStart, vars
  <2>2. QED
    BY <2>1, CopyFrame DEF CopyInv, Copies, Heard, ToCome, ResultsOf
<1>2. ASSUME NEW prompts \in Seq(Msgs), NEW skip, RunWithLifecycle(prompts, skip)
      PROVE  CopyInv'
  BY <1>2, RunStartMakesCopy DEF IInv
<1>3. CASE (\E m \in Msgs : Prompt(m)) \/ Continue
  <2>1. PICK prompts \in Seq(Msgs), skip \in BOOLEAN : RunWithLifecycle(prompts, skip)
    <3>1. /\ Drained(SteeringMode, steeringQueue) \in Seq(Msgs)
          /\ Drained(FollowUpMode, followUpQueue) \in Seq(Msgs)
          /\ <<>> \in Seq(Msgs) /\ \A m \in Msgs : <<m>> \in Seq(Msgs)
      BY DrainTypes DEF IInv, TypeOK
    <3>2. QED
      BY <1>3, <3>1 DEF Prompt, Continue, ContinueFromAssistant, ContinueFromInput
  <2>2. QED
    BY <1>2, <2>1
<1>4. CASE EmitAgentStart \/ EmitTurnStart \/ EmitTurnEnd \/ EmitAgentEnd
  <2>1. /\ UNCHANGED <<messages, context, announce, batch, owed, cut>>
        /\ pc \in {"agent_start", "first_turn", "turn_start", "turn_end", "last_turn_end",
                   "agent_end", "fail_end"}
        /\ pc' \in {"first_turn", "prompts", "request", "poll", "agent_end", "finish", "failing"}
        /\ pc = "fail_end" => pc' = "finish"
    BY <1>4 DEF EmitAgentStart, EmitTurnStart, EmitTurnEnd, EmitAgentEnd
  <2>2. QED
    BY <2>1, CopyFrame DEF CopyInv, Copies, Heard, ToCome, BatchPoints
<1>5. CASE Throw
  <2>1. pc' = "failing"
    BY <1>5, Zenon DEF Throw
  <2>2. QED
    BY <2>1 DEF CopyInv, Copies
<1>6. CASE HandleRunFailure \/ FinishRun
  BY <1>6 DEF HandleRunFailure, FinishRun, CopyInv, Copies
<1>7. QED
  BY <1>1, <1>3, <1>4, <1>5, <1>6, MessageEndKeepsCopy, PollKeepsCopy, AnswerKeepsCopy,
     ToolStepKeepsCopy, ResetKeepsCopy DEF Next, CallerStep, LoopStep, IInv

(* The model is asked with the transcript the caller sees, though the loop *)
(* and processEvents extend two lists: they are the same whenever a        *)
(* request is made, or after a reset() one is the end of the other.        *)
THEOREM RequestsAreFaithful == Spec => []RequestSeesTranscript
<1>1. Init => CopyInv
  BY DEF Init, CopyInv, Copies
<1>2. IInv /\ CopyInv => RequestSeesTranscript
  <2> SUFFICES ASSUME IInv, CopyInv, pc = "request", announce = <<>>
               PROVE  IF cut THEN IsSuffix(messages, context) ELSE messages = context
    BY DEF RequestSeesTranscript
  <2>1. PICK p \in Seq(Said) : context = p \o (messages \o <<>>) /\ (~cut => p = <<>>)
    BY DEF CopyInv, Copies, Heard, ToCome, BatchPoints
  <2>2. messages \in Seq(Said)
    BY SaidTypes DEF IInv
  <2>3. context = p \o messages
    BY <2>1, <2>2, ConcatEmptySeq
  <2>4. p = <<>> => context = messages
    BY <2>2, <2>3, ConcatEmptySeq
  <2>5. IsSuffix(messages, context)
    BY <2>2, <2>3, SuffixOfConcat
  <2>6. QED
    BY <2>1, <2>4, <2>5
<1>3. QED
  BY <1>1, <1>2, InvInit, InvStep, CopyStep, PTL DEF Spec

-----------------------------------------------------------------------------
(* How often a message is where: the terms of Occurrences.                 *)

LEMMA TimesIsHits == \A x, s : Times(x, s) = Hits(s, {x})
BY DEF Times, Hits, HitsAt

LEMMA TimesType ==
  ASSUME TypeOK, NEW m \in Msgs
  PROVE  /\ Times(m, steeringQueue) \in Nat /\ Times(m, followUpQueue) \in Nat
         /\ Times(UserMsg(m), announce) \in Nat /\ Times(UserMsg(m), messages) \in Nat
BY HitsType, TimesIsHits DEF TypeOK

LEMMA TimesOfEmpty == \A x : Times(x, <<>>) = 0
BY HitsOfEmpty, TimesIsHits

LEMMA TimesOfAppend ==
  ASSUME NEW T, NEW s \in Seq(T), NEW y \in T, NEW x
  PROVE  Times(x, Append(s, y)) = Times(x, s) + (IF y = x THEN 1 ELSE 0)
<1>1. Hits(Append(s, y), {x}) = Hits(s, {x}) + (IF y \in {x} THEN 1 ELSE 0)
  BY HitsOfAppend
<1>2. QED
  BY <1>1, TimesIsHits

LEMMA TimesOfTail ==
  ASSUME NEW T, NEW s \in Seq(T), s # <<>>, NEW x
  PROVE  Times(x, s) = Times(x, Tail(s)) + (IF Head(s) = x THEN 1 ELSE 0)
<1>1. Hits(s, {x}) = Hits(Tail(s), {x}) + (IF Head(s) \in {x} THEN 1 ELSE 0)
  BY HitsOfTail
<1>2. QED
  BY <1>1, TimesIsHits

LEMMA TimesOfOne == \A x, y : Times(x, <<y>>) = IF y = x THEN 1 ELSE 0
<1> SUFFICES ASSUME NEW x, NEW y PROVE Times(x, <<y>>) = IF y = x THEN 1 ELSE 0
  OBVIOUS
<1>1. <<>> \in Seq({y}) /\ y \in {y} /\ Append(<<>>, y) = <<y>>
  OBVIOUS
<1>2. Times(x, Append(<<>>, y)) = Times(x, <<>>) + (IF y = x THEN 1 ELSE 0)
  BY <1>1, TimesOfAppend
<1>3. QED
  BY <1>1, <1>2, TimesOfEmpty

LEMMA UserMsgInjective == \A m, n : UserMsg(m) = UserMsg(n) => m = n
BY DEF UserMsg, Conv!UserMsg

LEMMA TimesOfUserMsgs ==
  ASSUME NEW ms \in Seq(Msgs), NEW m
  PROVE  Times(UserMsg(m), UserMsgsOf(ms)) = Times(m, ms)
<1>1. DOMAIN UserMsgsOf(ms) = DOMAIN ms
  BY DEF UserMsgsOf
<1>2. \A i \in DOMAIN ms : UserMsgsOf(ms)[i] \in {UserMsg(m)} <=> ms[i] \in {m}
  BY UserMsgInjective DEF UserMsgsOf
<1>3. Hits(UserMsgsOf(ms), {UserMsg(m)}) = Hits(ms, {m})
  BY <1>1, <1>2, HitsSame
<1>4. QED
  BY <1>3, TimesIsHits

(* A drain divides the queue.                                              *)
LEMMA TimesOfDrain ==
  ASSUME NEW mode, NEW q \in Seq(Msgs), NEW m
  PROVE  Times(m, q) = Times(m, Drained(mode, q)) + Times(m, Left(mode, q))
<1>0. Times(m, q) \in Nat
  BY HitsType, TimesIsHits
<1>1. CASE mode = "all" \/ q = <<>>
  BY <1>0, <1>1, TimesOfEmpty DEF Drained, Left
<1>2. CASE ~(mode = "all" \/ q = <<>>)
  <2>1. Times(m, q) = Times(m, Tail(q)) + (IF Head(q) = m THEN 1 ELSE 0)
    BY <1>2, TimesOfTail
  <2>2. Tail(q) \in Seq(Msgs)
    BY <1>2
  <2>3. Times(m, Tail(q)) \in Nat
    BY <2>2, HitsType, TimesIsHits
  <2>4. Times(m, <<Head(q)>>) = IF Head(q) = m THEN 1 ELSE 0
    BY TimesOfOne
  <2>5. QED
    BY <1>2, <2>1, <2>3, <2>4 DEF Drained, Left
<1>3. QED
  BY <1>1, <1>2

LEMMA TimesInSet ==
  ASSUME NEW T, NEW q \in Seq(T), NEW m
  PROVE  m \in ToSet(q) <=> Times(m, q) # 0
<1>1. Hits(q, {m}) # 0 <=> \E i \in 1..Len(q) : q[i] \in {m}
  BY HitsAny
<1>2. DOMAIN q = 1..Len(q)
  OBVIOUS
<1>3. QED
  BY <1>1, <1>2, TimesIsHits DEF ToSet

LEMMA NoUserMsgs ==
  ASSUME NEW T, NEW s \in Seq(T), \A e \in T : e.role # "user", NEW m
  PROVE  Times(UserMsg(m), s) = 0
<1>1. \A i \in 1..Len(s) : s[i] # UserMsg(m)
  BY DEF UserMsg, Conv!UserMsg
<1>2. Hits(s, {UserMsg(m)}) # 0 <=> \E i \in 1..Len(s) : s[i] \in {UserMsg(m)}
  BY HitsAny
<1>3. QED
  BY <1>1, <1>2, TimesIsHits

-----------------------------------------------------------------------------
(* Each message counted: none is anywhere before it is handed over or      *)
(* after it is discarded, none twice, and none is lost without a failure.  *)
Tally(m) ==
  /\ Occurrences(m) <= 1
  /\ kind[m] = "fresh" \/ m \in discarded => Occurrences(m) = 0
  /\ m \in discarded => kind[m] # "fresh"
  /\ ~Failures => (kind[m] = "fresh" \/ m \in discarded \/ Occurrences(m) = 1)

TallyInv == \A m \in Msgs : Tally(m)

LEMMA TallyFrame ==
  ASSUME TallyInv, UNCHANGED <<kind, discarded>>,
         \A m \in Msgs : Occurrences(m)' = Occurrences(m)
  PROVE  TallyInv'
BY DEF TallyInv, Tally

LEMMA RunStartKeepsTally ==
  ASSUME IInv, NEW ms \in Seq(Msgs), NEW skip, RunWithLifecycle(ms, skip), NEW m \in Msgs
  PROVE  /\ Times(UserMsg(m), announce) = 0
         /\ Times(UserMsg(m), announce') = Times(m, ms)
         /\ UNCHANGED <<messages, discarded>>
<1>1. announce = <<>>
  BY DEF RunWithLifecycle, IInv, CallsFollowControl, OwedFollowsControl, QuietPoints
<1>2. announce' = UserMsgsOf(ms)
  BY DEF RunWithLifecycle
<1>3. QED
  BY <1>1, <1>2, TimesOfEmpty, TimesOfUserMsgs DEF RunWithLifecycle

LEMMA HandOverKeepsTally ==
  ASSUME IInv, TallyInv, NEW m \in Msgs, Steer(m) \/ FollowUp(m) \/ Prompt(m)
  PROVE  TallyInv'
<1>1. kind[m] = "fresh" /\ discarded' = discarded
  BY DEF Steer, FollowUp, Prompt, Fresh, RunWithLifecycle
<1>2. \A n \in Msgs : /\ kind'[n] = "fresh" <=> (n # m /\ kind[n] = "fresh")
  BY <1>1 DEF Steer, FollowUp, Prompt, IInv, TypeOK
<1>3. \A n \in Msgs : Occurrences(n)' = Occurrences(n) + (IF m = n THEN 1 ELSE 0)
  <2> SUFFICES ASSUME NEW n \in Msgs
               PROVE  Occurrences(n)' = Occurrences(n) + (IF m = n THEN 1 ELSE 0)
    OBVIOUS
  <2>0. /\ Times(n, steeringQueue) \in Nat /\ Times(n, followUpQueue) \in Nat
        /\ Times(UserMsg(n), announce) \in Nat /\ Times(UserMsg(n), messages) \in Nat
    BY TimesType DEF IInv
  <2>1. CASE Steer(m)
    <3>1. steeringQueue' = Append(steeringQueue, m) /\ UNCHANGED <<followUpQueue, announce, messages>>
      BY <2>1 DEF Steer, state
    <3>2. Times(n, steeringQueue') = Times(n, steeringQueue) + (IF m = n THEN 1 ELSE 0)
      BY <3>1, TimesOfAppend DEF IInv, TypeOK
    <3>3. QED
      BY <2>0, <3>1, <3>2 DEF Occurrences
  <2>2. CASE FollowUp(m)
    <3>1. followUpQueue' = Append(followUpQueue, m) /\ UNCHANGED <<steeringQueue, announce, messages>>
      BY <2>2 DEF FollowUp, state
    <3>2. Times(n, followUpQueue') = Times(n, followUpQueue) + (IF m = n THEN 1 ELSE 0)
      BY <3>1, TimesOfAppend DEF IInv, TypeOK
    <3>3. QED
      BY <2>0, <3>1, <3>2 DEF Occurrences
  <2>3. CASE Prompt(m)
    <3>0. <<m>> \in Seq(Msgs)
      OBVIOUS
    <3>1. RunWithLifecycle(<<m>>, FALSE) /\ UNCHANGED queues
      BY <2>3, Zenon DEF Prompt
    <3>2. /\ Times(UserMsg(n), announce) = 0
          /\ Times(UserMsg(n), announce') = Times(n, <<m>>)
          /\ messages' = messages
      BY <3>0, <3>1, RunStartKeepsTally
    <3>3. Times(n, <<m>>) = IF m = n THEN 1 ELSE 0
      BY TimesOfOne
    <3>4. QED
      BY <2>0, <3>1, <3>2, <3>3 DEF Occurrences, queues
  <2>4. QED
    BY <2>1, <2>2, <2>3
<1>4. \A n \in Msgs : Occurrences(n) \in Nat
  BY TimesType DEF Occurrences, IInv
<1>5. ASSUME NEW n \in Msgs PROVE Tally(n)'
  <2>1. CASE n = m
    <3>1. Occurrences(n) = 0 /\ Occurrences(n)' = 1
      BY <1>1, <1>3, <1>4, <2>1 DEF TallyInv, Tally
    <3>2. kind'[n] # "fresh" /\ n \notin discarded'
      BY <1>1, <1>2, <2>1 DEF TallyInv, Tally
    <3>3. QED
      BY <3>1, <3>2 DEF Tally
  <2>2. CASE n # m
    <3>1. Occurrences(n)' = Occurrences(n)
      BY <1>3, <1>4, <2>2
    <3>2. (kind'[n] = "fresh" <=> kind[n] = "fresh") /\ discarded' = discarded
      BY <1>1, <1>2, <2>2
    <3>3. QED
      BY <3>1, <3>2 DEF TallyInv, Tally
  <2>3. QED
    BY <2>1, <2>2
<1>6. QED
  BY <1>5 DEF TallyInv

LEMMA ContinueKeepsTally == IInv /\ TallyInv /\ Continue => TallyInv'
<1> SUFFICES ASSUME IInv, TallyInv, Continue PROVE TallyInv'
  OBVIOUS
<1>1. UNCHANGED <<kind, discarded>>
  BY DEF Continue, ContinueFromAssistant, ContinueFromInput, RunWithLifecycle
<1>2. ASSUME NEW m \in Msgs PROVE Occurrences(m)' = Occurrences(m)
  <2>0. /\ Times(m, steeringQueue) \in Nat /\ Times(m, followUpQueue) \in Nat
        /\ Times(UserMsg(m), announce) \in Nat /\ Times(UserMsg(m), messages) \in Nat
    BY TimesType DEF IInv
  <2>1. ASSUME NEW mode, NEW q \in Seq(Msgs)
        PROVE  /\ Drained(mode, q) \in Seq(Msgs)
               /\ Times(m, q) = Times(m, Drained(mode, q)) + Times(m, Left(mode, q))
               /\ Times(m, Drained(mode, q)) \in Nat /\ Times(m, Left(mode, q)) \in Nat
    <3>1. Drained(mode, q) \in Seq(Msgs) /\ Left(mode, q) \in Seq(Msgs)
      BY DrainTypes, Zenon
    <3>2. Times(m, q) = Times(m, Drained(mode, q)) + Times(m, Left(mode, q))
      BY TimesOfDrain, Zenon
    <3>3. Hits(Drained(mode, q), {m}) \in Nat /\ Hits(Left(mode, q), {m}) \in Nat
      BY <3>1, HitsType, Zenon
    <3>4. QED
      BY <3>1, <3>2, <3>3, TimesIsHits, Zenon
  <2>2. ASSUME NEW ms \in Seq(Msgs), NEW skip, RunWithLifecycle(ms, skip)
        PROVE  /\ Times(UserMsg(m), announce) = 0
               /\ Times(UserMsg(m), announce') = Times(m, ms)
               /\ messages' = messages
    BY <2>2, RunStartKeepsTally
  <2>3. steeringQueue \in Seq(Msgs) /\ followUpQueue \in Seq(Msgs) /\ <<>> \in Seq(Msgs)
    BY DEF IInv, TypeOK
  <2>4. CASE ContinueFromInput
    BY <2>0, <2>2, <2>3, <2>4, TimesOfEmpty DEF ContinueFromInput, Occurrences, queues
  <2>5. CASE ContinueFromAssistant
    <3>1. CASE /\ steeringQueue' = Left(SteeringMode, steeringQueue)
               /\ RunWithLifecycle(Drained(SteeringMode, steeringQueue), TRUE)
               /\ UNCHANGED followUpQueue
      <4>1. /\ Drained(SteeringMode, steeringQueue) \in Seq(Msgs)
            /\ Times(m, steeringQueue) = Times(m, Drained(SteeringMode, steeringQueue))
                                         + Times(m, Left(SteeringMode, steeringQueue))
            /\ Times(m, Drained(SteeringMode, steeringQueue)) \in Nat
            /\ Times(m, Left(SteeringMode, steeringQueue)) \in Nat
        BY <2>1, <2>3
      <4>2. /\ Times(UserMsg(m), announce) = 0
            /\ Times(UserMsg(m), announce') = Times(m, Drained(SteeringMode, steeringQueue))
            /\ messages' = messages
        BY <2>2, <3>1, <4>1
      <4>3. QED
        BY <2>0, <3>1, <4>1, <4>2 DEF Occurrences
    <3>2. CASE /\ followUpQueue' = Left(FollowUpMode, followUpQueue)
               /\ RunWithLifecycle(Drained(FollowUpMode, followUpQueue), FALSE)
               /\ UNCHANGED steeringQueue
      <4>1. /\ Drained(FollowUpMode, followUpQueue) \in Seq(Msgs)
            /\ Times(m, followUpQueue) = Times(m, Drained(FollowUpMode, followUpQueue))
                                         + Times(m, Left(FollowUpMode, followUpQueue))
            /\ Times(m, Drained(FollowUpMode, followUpQueue)) \in Nat
            /\ Times(m, Left(FollowUpMode, followUpQueue)) \in Nat
        BY <2>1, <2>3
      <4>2. /\ Times(UserMsg(m), announce) = 0
            /\ Times(UserMsg(m), announce') = Times(m, Drained(FollowUpMode, followUpQueue))
            /\ messages' = messages
        BY <2>2, <3>2, <4>1
      <4>3. QED
        BY <2>0, <3>2, <4>1, <4>2 DEF Occurrences
    <3>3. QED
      BY <2>5, <3>1, <3>2 DEF ContinueFromAssistant
  <2>6. QED
    BY <2>4, <2>5 DEF Continue
<1>3. QED
  BY <1>1, <1>2, TallyFrame

(* Discarding what is nowhere else.                                        *)
LEMMA DiscardKeepsTally ==
  ASSUME IInv, TallyInv, NEW D, discarded' = discarded \cup D, UNCHANGED kind,
         \A m \in Msgs : IF m \in D THEN Occurrences(m) # 0 /\ Occurrences(m)' = 0
                                     ELSE Occurrences(m)' = Occurrences(m)
  PROVE  TallyInv'
<1>1. ASSUME NEW m \in Msgs PROVE Tally(m)'
  <2>1. Occurrences(m) \in Nat
    BY TimesType DEF Occurrences, IInv
  <2>2. CASE m \in D
    <3>1. kind'[m] # "fresh" /\ m \in discarded' /\ Occurrences(m)' = 0
      BY <2>2 DEF TallyInv, Tally
    <3>2. QED
      BY <3>1 DEF Tally
  <2>3. CASE m \notin D
    <3>1. (m \in discarded' <=> m \in discarded) /\ Occurrences(m)' = Occurrences(m)
      BY <2>3
    <3>2. QED
      BY <3>1 DEF Tally, TallyInv
  <2>4. QED
    BY <2>2, <2>3
<1>2. QED
  BY <1>1 DEF TallyInv

(* A message that is somewhere is nowhere else.                            *)
LEMMA FoundOnce ==
  ASSUME IInv, TallyInv, NEW m \in Msgs
  PROVE  /\ Times(m, steeringQueue) \in Nat /\ Times(m, followUpQueue) \in Nat
         /\ Times(UserMsg(m), announce) \in Nat /\ Times(UserMsg(m), messages) \in Nat
         /\ Times(m, steeringQueue) + Times(m, followUpQueue)
              + Times(UserMsg(m), announce) + Times(UserMsg(m), messages) <= 1
         /\ m \in ToSet(steeringQueue) <=> Times(m, steeringQueue) # 0
         /\ m \in ToSet(followUpQueue) <=> Times(m, followUpQueue) # 0
         /\ UserMsg(m) \in ToSet(messages) <=> Times(UserMsg(m), messages) # 0
<1>1. /\ Times(m, steeringQueue) \in Nat /\ Times(m, followUpQueue) \in Nat
      /\ Times(UserMsg(m), announce) \in Nat /\ Times(UserMsg(m), messages) \in Nat
  BY TimesType DEF IInv
<1>2. /\ m \in ToSet(steeringQueue) <=> Times(m, steeringQueue) # 0
      /\ m \in ToSet(followUpQueue) <=> Times(m, followUpQueue) # 0
      /\ UserMsg(m) \in ToSet(messages) <=> Times(UserMsg(m), messages) # 0
  BY TimesInSet DEF IInv, TypeOK
<1>3. Occurrences(m) <= 1
  BY DEF TallyInv, Tally
<1>4. QED
  BY <1>1, <1>2, <1>3 DEF Occurrences

LEMMA ClearKeepsTally ==
  ASSUME IInv, TallyInv, ClearSteeringQueue \/ ClearFollowUpQueue \/ Reset
  PROVE  TallyInv'
<1>1. CASE ClearSteeringQueue
  <2>1. /\ steeringQueue' = <<>> /\ discarded' = discarded \cup ToSet(steeringQueue)
        /\ UNCHANGED <<followUpQueue, announce, messages, kind>>
    BY <1>1 DEF ClearSteeringQueue, state
  <2>2. ASSUME NEW m \in Msgs
        PROVE  IF m \in ToSet(steeringQueue) THEN Occurrences(m) # 0 /\ Occurrences(m)' = 0
                                             ELSE Occurrences(m)' = Occurrences(m)
    BY <2>1, FoundOnce, TimesOfEmpty DEF Occurrences
  <2>3. QED
    BY <2>1, <2>2, DiscardKeepsTally
<1>2. CASE ClearFollowUpQueue
  <2>1. /\ followUpQueue' = <<>> /\ discarded' = discarded \cup ToSet(followUpQueue)
        /\ UNCHANGED <<steeringQueue, announce, messages, kind>>
    BY <1>2 DEF ClearFollowUpQueue, state
  <2>2. ASSUME NEW m \in Msgs
        PROVE  IF m \in ToSet(followUpQueue) THEN Occurrences(m) # 0 /\ Occurrences(m)' = 0
                                             ELSE Occurrences(m)' = Occurrences(m)
    BY <2>1, FoundOnce, TimesOfEmpty DEF Occurrences
  <2>3. QED
    BY <2>1, <2>2, DiscardKeepsTally
<1>3. CASE Reset
  <2> DEFINE D == ToSet(steeringQueue) \cup ToSet(followUpQueue)
                    \cup {m \in Msgs : UserMsg(m) \in ToSet(messages)}
  <2>1. /\ steeringQueue' = <<>> /\ followUpQueue' = <<>> /\ messages' = <<>>
        /\ discarded' = discarded \cup D /\ UNCHANGED <<announce, kind>>
    BY <1>3 DEF Reset
  <2>2. ASSUME NEW m \in Msgs
        PROVE  IF m \in D THEN Occurrences(m) # 0 /\ Occurrences(m)' = 0
                          ELSE Occurrences(m)' = Occurrences(m)
    <3>1. /\ Times(m, steeringQueue') = 0 /\ Times(m, followUpQueue') = 0
          /\ Times(UserMsg(m), messages') = 0 /\ announce' = announce
      BY <2>1, TimesOfEmpty
    <3>2. QED
      BY <3>1, FoundOnce, SMTT(30) DEF Occurrences
  <2> HIDE DEF D
  <2>3. QED
    BY <2>1, <2>2, DiscardKeepsTally
<1>4. QED
  BY <1>1, <1>2, <1>3

(* The end of a message moves it to the transcript.                        *)
LEMMA MessageEndKeepsTally == IInv /\ TallyInv /\ EmitMessageEnd => TallyInv'
<1> SUFFICES ASSUME IInv, TallyInv, EmitMessageEnd PROVE TallyInv'
  OBVIOUS
<1>1. /\ announce # <<>> /\ announce' = Tail(announce)
      /\ messages' = Append(messages, Head(announce))
      /\ UNCHANGED <<steeringQueue, followUpQueue, kind, discarded>>
  BY DEF EmitMessageEnd, queues, input
<1>2. /\ announce \in Seq(Conv!Entries) /\ messages \in Seq(Conv!Entries)
      /\ Head(announce) \in Conv!Entries /\ Tail(announce) \in Seq(Conv!Entries)
  BY <1>1 DEF IInv, TypeOK
<1>3. ASSUME NEW m \in Msgs PROVE Occurrences(m)' = Occurrences(m)
  <2>1. Times(UserMsg(m), announce) = Times(UserMsg(m), Tail(announce))
                                        + (IF Head(announce) = UserMsg(m) THEN 1 ELSE 0)
    BY <1>1, <1>2, TimesOfTail
  <2>2. Times(UserMsg(m), Append(messages, Head(announce)))
          = Times(UserMsg(m), messages) + (IF Head(announce) = UserMsg(m) THEN 1 ELSE 0)
    BY <1>2, TimesOfAppend
  <2>3. Times(UserMsg(m), Tail(announce)) \in Nat
    BY <1>2, HitsType, TimesIsHits
  <2>4. QED
    BY <1>1, <2>1, <2>2, <2>3, FoundOnce DEF Occurrences
<1>4. QED
  BY <1>1, <1>3, TallyFrame

(* A poll moves what it drains to the announced messages.                  *)
LEMMA InjectKeepsTally ==
  ASSUME IInv, TallyInv, announce = <<>>, NEW mode,
         \/ /\ Inject(Drained(mode, steeringQueue)) /\ UNCHANGED followUpQueue
            /\ steeringQueue' = Left(mode, steeringQueue)
         \/ /\ Inject(Drained(mode, followUpQueue)) /\ UNCHANGED steeringQueue
            /\ followUpQueue' = Left(mode, followUpQueue),
         UNCHANGED <<messages, kind, discarded>>
  PROVE  TallyInv'
<1>1. ASSUME NEW m \in Msgs PROVE Occurrences(m)' = Occurrences(m)
  <2>1. ASSUME NEW q \in Seq(Msgs)
        PROVE  /\ Times(m, q) = Times(m, Drained(mode, q)) + Times(m, Left(mode, q))
               /\ Times(UserMsg(m), UserMsgsOf(Drained(mode, q))) = Times(m, Drained(mode, q))
               /\ Times(m, Drained(mode, q)) \in Nat /\ Times(m, Left(mode, q)) \in Nat
    <3>1. Drained(mode, q) \in Seq(Msgs) /\ Left(mode, q) \in Seq(Msgs)
      BY DrainTypes
    <3>2. Times(m, q) = Times(m, Drained(mode, q)) + Times(m, Left(mode, q))
      BY TimesOfDrain
    <3>3. QED
      BY <3>1, <3>2, TimesOfUserMsgs, HitsType, TimesIsHits
  <2>2. Times(UserMsg(m), announce) = 0 /\ messages' = messages
    BY TimesOfEmpty
  <2>3. CASE /\ Inject(Drained(mode, steeringQueue)) /\ UNCHANGED followUpQueue
             /\ steeringQueue' = Left(mode, steeringQueue)
    <3>1. steeringQueue \in Seq(Msgs)
      BY DEF IInv, TypeOK
    <3>2. announce' = UserMsgsOf(Drained(mode, steeringQueue))
      BY <2>3 DEF Inject
    <3>3. QED
      BY <2>1, <2>2, <2>3, <3>1, <3>2, FoundOnce DEF Occurrences
  <2>4. CASE /\ Inject(Drained(mode, followUpQueue)) /\ UNCHANGED steeringQueue
             /\ followUpQueue' = Left(mode, followUpQueue)
    <3>1. followUpQueue \in Seq(Msgs)
      BY DEF IInv, TypeOK
    <3>2. announce' = UserMsgsOf(Drained(mode, followUpQueue))
      BY <2>4 DEF Inject
    <3>3. QED
      BY <2>1, <2>2, <2>4, <3>1, <3>2, FoundOnce DEF Occurrences
  <2>5. QED
    BY <2>3, <2>4
<1>2. QED
  BY <1>1, TallyFrame

(* What the loop says besides user messages.                               *)
LEMMA OtherWordsKeepTally ==
  ASSUME IInv, TallyInv, announce = <<>>, NEW T, announce' \in Seq(T),
         \A e \in T : e.role # "user",
         UNCHANGED <<messages, steeringQueue, followUpQueue, kind, discarded>>
  PROVE  TallyInv'
<1>1. ASSUME NEW m \in Msgs PROVE Occurrences(m)' = Occurrences(m)
  <2>1. Times(UserMsg(m), announce) = 0 /\ Times(UserMsg(m), announce') = 0
    BY TimesOfEmpty, NoUserMsgs
  <2>2. QED
    BY <2>1 DEF Occurrences
<1>2. QED
  BY <1>1, TallyFrame

(* A tool step announces results or nothing.                               *)
LEMMA ToolStepSaysResults ==
  ASSUME IInv, EmitToolExecutionEnd \/ AwaitToolCalls
  PROVE  announce = <<>> /\ announce' \in Seq(Conv!ToolResultMsgs)
<1>1. announce = <<>>
  BY DEF EmitToolExecutionEnd, AwaitToolCalls, IInv, OwedFollowsControl, BatchPoints
<1>2. batch \in Seq(Calls) /\ ResultsOf(batch) \in Seq(Conv!ToolResultMsgs)
  BY BatchType, ResultsOfType DEF IInv
<1>3. CASE AwaitToolCalls
  <2>1. announce' \in {<<>>, ResultsOf(batch)}
    BY <1>1, <1>3, Zenon DEF AwaitToolCalls, Awaited
  <2>2. <<>> \in Seq(Conv!ToolResultMsgs)
    OBVIOUS
  <2>3. QED
    BY <1>1, <1>2, <2>1, <2>2, Zenon
<1>4. CASE EmitToolExecutionEnd
  <2>1. batch[next] \in Calls
    BY <1>2, <1>4 DEF EmitToolExecutionEnd, IInv, CallsFollowControl, TypeOK
  <2>2. ToolResultMsg(batch[next]) \in Conv!ToolResultMsgs
    BY <2>1, EntryShapes
  <2>3. announce' \in {<<>>, <<ToolResultMsg(batch[next])>>}
    BY <1>4 DEF EmitToolExecutionEnd
  <2>4. /\ <<>> \in Seq(Conv!ToolResultMsgs)
        /\ \A x \in Conv!ToolResultMsgs : <<x>> \in Seq(Conv!ToolResultMsgs)
    OBVIOUS
  <2>5. announce' \in Seq(Conv!ToolResultMsgs)
    BY <2>2, <2>3, <2>4, Zenon
  <2>6. QED
    BY <1>1, <2>5
<1>5. QED
  BY <1>3, <1>4

LEMMA TallyStep == IInv /\ TallyInv /\ [Next]_vars => TallyInv'
<1> SUFFICES ASSUME IInv, TallyInv, [Next]_vars PROVE TallyInv'
  OBVIOUS
<1> USE DEF state, queues, tools, input
<1>1. CASE UNCHANGED <<messages, announce, steeringQueue, followUpQueue, kind, discarded>>
  BY <1>1, TallyFrame DEF Occurrences
<1>2. CASE \/ Abort \/ EmitAgentStart \/ EmitTurnStart \/ EmitMessageStart \/ EmitTurnEnd
           \/ Request \/ StreamStart \/ TakeAnswer \/ EmitToolExecutionStart
           \/ PrepareToolCall \/ EndBatch \/ EmitAgentEnd \/ FinishRun
           \/ (\E c \in Calls : ToolReturns(c)) \/ UNCHANGED vars
  BY <1>1, <1>2 DEF Abort, EmitAgentStart, EmitTurnStart, EmitMessageStart, EmitTurnEnd,
     Request, StreamStart, TakeAnswer, EmitToolExecutionStart, PrepareToolCall, EndBatch,
     EmitAgentEnd, FinishRun, ToolReturns, vars
<1>3. CASE PollInitial \/ PollAfterTurn
  <2>1. announce = <<>> /\ UNCHANGED <<messages, kind, discarded>>
    BY <1>3 DEF PollInitial, PollAfterTurn, IInv, OwedFollowsControl, QuietPoints
  <2>2. \/ UNCHANGED <<announce, steeringQueue, followUpQueue>>
        \/ /\ Inject(Drained(SteeringMode, steeringQueue)) /\ UNCHANGED followUpQueue
           /\ steeringQueue' = Left(SteeringMode, steeringQueue)
        \/ /\ Inject(Drained(FollowUpMode, followUpQueue)) /\ UNCHANGED steeringQueue
           /\ followUpQueue' = Left(FollowUpMode, followUpQueue)
    BY <1>3 DEF PollInitial, PollAfterTurn
  <2>3. QED
    BY <1>1, <2>1, <2>2, InjectKeepsTally
<1>4. ASSUME NEW s \in Conv!Stops, NEW cs \in CallSeqs, FinalMessage(s, cs) PROVE TallyInv'
  <2>1. announce = <<>> /\ UNCHANGED <<messages, steeringQueue, followUpQueue, kind, discarded>>
    BY <1>4 DEF FinalMessage, IInv, OwedFollowsControl, QuietPoints
  <2>2. announce' = <<AssistantMsg(s, cs)>>
    BY <1>4 DEF FinalMessage
  <2>3. announce' \in Seq({AssistantMsg(s, cs)})
    BY <2>2
  <2>4. AssistantMsg(s, cs).role # "user"
    BY DEF AssistantMsg, Conv!AssistantMsg
  <2>5. QED
    BY <2>1, <2>3, <2>4, OtherWordsKeepTally
<1>5. CASE EmitToolExecutionEnd \/ AwaitToolCalls
  <2>1. announce = <<>> /\ UNCHANGED <<messages, steeringQueue, followUpQueue, kind, discarded>>
    BY <1>5 DEF EmitToolExecutionEnd, AwaitToolCalls, IInv, OwedFollowsControl, BatchPoints
  <2>2. announce' \in Seq(Conv!ToolResultMsgs)
    BY <1>5, ToolStepSaysResults
  <2>4. \A e \in Conv!ToolResultMsgs : e.role # "user"
    BY DEF Conv!ToolResultMsgs
  <2>5. QED
    BY <2>1, <2>2, <2>4, OtherWordsKeepTally
<1>6. CASE HandleRunFailure
  <2>1. PICK s : messages' = Append(messages, AssistantMsg(s, <<>>))
    BY <1>6 DEF HandleRunFailure
  <2>2. UNCHANGED <<announce, steeringQueue, followUpQueue, kind, discarded>>
    BY <1>6 DEF HandleRunFailure
  <2> DEFINE T == Conv!Entries \cup {AssistantMsg(s, <<>>)}
  <2>3. messages \in Seq(T) /\ AssistantMsg(s, <<>>) \in T
    <3>1. messages \in Seq(Conv!Entries)
      BY DEF IInv, TypeOK
    <3>2. QED
      BY <3>1, SeqMonotonic
  <2> HIDE DEF T
  <2>4. ASSUME NEW m \in Msgs PROVE Occurrences(m)' = Occurrences(m)
    <3>1. AssistantMsg(s, <<>>) # UserMsg(m)
      BY DEF AssistantMsg, UserMsg, Conv!AssistantMsg, Conv!UserMsg
    <3>2. Times(UserMsg(m), Append(messages, AssistantMsg(s, <<>>))) = Times(UserMsg(m), messages) + 0
      BY <2>3, <3>1, TimesOfAppend
    <3>3. QED
      BY <2>1, <2>2, <3>2, FoundOnce DEF Occurrences
  <2>5. QED
    BY <2>2, <2>4, TallyFrame
<1>7. CASE Throw
  <2>1. /\ announce' = <<>> /\ Failures
        /\ UNCHANGED <<messages, steeringQueue, followUpQueue, kind, discarded>>
    BY <1>7, Zenon DEF Throw
  <2>2. ASSUME NEW m \in Msgs PROVE Tally(m)'
    <3>1. Times(UserMsg(m), announce') = 0
      BY <2>1, TimesOfEmpty
    <3>2. Occurrences(m)' <= Occurrences(m) /\ Occurrences(m)' \in Nat /\ Occurrences(m) \in Nat
      BY <2>1, <3>1, FoundOnce DEF Occurrences
    <3>3. QED
      BY <2>1, <3>2 DEF TallyInv, Tally
  <2>3. QED
    BY <2>2 DEF TallyInv
<1>8. QED
  BY <1>2, <1>3, <1>4, <1>5, <1>6, <1>7, HandOverKeepsTally, ContinueKeepsTally,
     ClearKeepsTally, MessageEndKeepsTally DEF Next, CallerStep, LoopStep, Answer

LEMMA TallyInit == Init => TallyInv
<1> SUFFICES ASSUME Init, NEW m \in Msgs PROVE Tally(m)
  BY DEF TallyInv
<1>1. kind[m] = "fresh" /\ m \notin discarded
  BY DEF Init
<1>2. Occurrences(m) = 0
  BY TimesOfEmpty DEF Init, Occurrences
<1>3. QED
  BY <1>1, <1>2 DEF Tally

(* A message handed to the agent is in one place at most, and in the       *)
(* transcript at most once, whichever queue it waits in, however it is     *)
(* drained, and whatever fails.                                            *)
THEOREM NoMessageTwice == Spec => []DeliveredAtMostOnce
<1>1. TallyInv => DeliveredAtMostOnce
  BY DEF TallyInv, Tally, DeliveredAtMostOnce
<1>2. QED
  BY <1>1, TallyInit, InvInit, InvStep, TallyStep, PTL DEF Spec

-----------------------------------------------------------------------------
(* The order of delivery. What one queue was handed stands in the order of *)
(* its numbers along the transcript, the announced messages and the queue; *)
(* numbers are handed out from below.                                      *)
MsgIn(s) == {m \in Msgs : \E i \in DOMAIN s : s[i] = UserMsg(m)}

SameQueue(m, n) == kind[m] = kind[n] /\ kind[m] # "prompt"

Ordered(s) ==
  \A i, j \in DOMAIN s : \A m, n \in Msgs :
    (i < j /\ s[i] = UserMsg(m) /\ s[j] = UserMsg(n) /\ SameQueue(m, n)) => m < n

AllBefore(A, B) == \A m \in A, n \in B : SameQueue(m, n) => m < n

Ascending(q) == \A i, j \in DOMAIN q : i < j => q[i] < q[j]

OrderInv ==
  /\ Ordered(messages) /\ Ordered(announce)
  /\ Ascending(steeringQueue) /\ Ascending(followUpQueue)
  /\ AllBefore(MsgIn(messages), MsgIn(announce))
  /\ AllBefore(MsgIn(messages) \cup MsgIn(announce), ToSet(steeringQueue) \cup ToSet(followUpQueue))
  /\ \A m \in ToSet(steeringQueue) : kind[m] = "steering"
  /\ \A m \in ToSet(followUpQueue) : kind[m] = "followUp"
  /\ \A m, n \in Msgs : (n < m /\ kind[m] # "fresh") => kind[n] # "fresh"

LEMMA OrderedWithoutUsers == \A s : MsgIn(s) = {} => Ordered(s)
BY DEF Ordered, MsgIn

LEMMA OrderOfEmpty == MsgIn(<<>>) = {} /\ ToSet(<<>>) = {} /\ Ascending(<<>>) /\ Ordered(<<>>)
BY DEF MsgIn, ToSet, Ascending, Ordered

LEMMA MsgInOfAppend ==
  ASSUME NEW T, NEW s \in Seq(T), NEW e
  PROVE  MsgIn(Append(s, e)) = MsgIn(s) \cup {m \in Msgs : e = UserMsg(m)}
<1>1. /\ Len(s) \in Nat /\ DOMAIN s = 1..Len(s)
      /\ DOMAIN Append(s, e) = 1..(Len(s) + 1)
      /\ \A i \in 1..Len(s) : Append(s, e)[i] = s[i]
      /\ Append(s, e)[Len(s) + 1] = e
  OBVIOUS
<1>2. ASSUME NEW m \in Msgs
      PROVE  (\E i \in DOMAIN Append(s, e) : Append(s, e)[i] = UserMsg(m))
               <=> (\E i \in DOMAIN s : s[i] = UserMsg(m)) \/ e = UserMsg(m)
  <2> DEFINE t == Append(s, e)
  <2>1. /\ DOMAIN t = 1..(Len(s) + 1) /\ \A i \in 1..Len(s) : t[i] = s[i]
        /\ t[Len(s) + 1] = e
    BY <1>1
  <2> HIDE DEF t
  <2>2. (\E i \in DOMAIN t : t[i] = UserMsg(m))
               <=> (\E i \in DOMAIN s : s[i] = UserMsg(m)) \/ e = UserMsg(m)
    BY <1>1, <2>1
  <2>3. QED
    BY <2>2 DEF t
<1>3. QED
  BY <1>2 DEF MsgIn

LEMMA OrderedOfAppend ==
  ASSUME NEW T, NEW s \in Seq(T), NEW e, Ordered(s),
         \A n \in Msgs : e = UserMsg(n) => AllBefore(MsgIn(s), {n})
  PROVE  Ordered(Append(s, e))
<1> DEFINE t == Append(s, e)
<1>1. /\ Len(s) \in Nat /\ DOMAIN s = 1..Len(s)
      /\ DOMAIN t = 1..(Len(s) + 1)
      /\ \A i \in 1..Len(s) : t[i] = s[i]
      /\ t[Len(s) + 1] = e
  OBVIOUS
<1> HIDE DEF t
<1>2. ASSUME NEW i \in DOMAIN t, NEW j \in DOMAIN t, NEW m \in Msgs, NEW n \in Msgs,
             i < j, t[i] = UserMsg(m), t[j] = UserMsg(n), SameQueue(m, n)
      PROVE  m < n
  <2>1. i \in 1..Len(s) /\ s[i] = UserMsg(m)
    BY <1>1, <1>2
  <2>2. CASE j \in 1..Len(s)
    BY <1>1, <1>2, <2>1, <2>2 DEF Ordered
  <2>3. CASE j = Len(s) + 1
    <3>1. m \in MsgIn(s) /\ e = UserMsg(n)
      BY <1>1, <1>2, <2>1, <2>3 DEF MsgIn
    <3>2. QED
      BY <1>2, <3>1 DEF AllBefore
  <2>4. QED
    BY <1>1, <2>2, <2>3
<1>3. QED
  BY <1>2 DEF Ordered, t

LEMMA OrderOfTail ==
  ASSUME NEW T, NEW s \in Seq(T), s # <<>>, Ordered(s)
  PROVE  /\ Ordered(Tail(s)) /\ MsgIn(Tail(s)) \subseteq MsgIn(s)
         /\ \A m \in Msgs : Head(s) = UserMsg(m) => m \in MsgIn(s) /\ AllBefore({m}, MsgIn(Tail(s)))
<1> DEFINE t == Tail(s)
<1>1. /\ Len(s) \in Nat /\ DOMAIN s = 1..Len(s) /\ Len(s) >= 1 /\ Head(s) = s[1]
      /\ DOMAIN t = 1..(Len(s) - 1)
      /\ \A i \in 1..(Len(s) - 1) : t[i] = s[i + 1]
  OBVIOUS
<1> HIDE DEF t
<1>2. \A i \in DOMAIN t : i + 1 \in DOMAIN s /\ t[i] = s[i + 1] /\ 1 < i + 1
  BY <1>1
<1>3. \A i, j \in DOMAIN t : i < j => i + 1 < j + 1
  BY <1>1
<1>4. Ordered(t)
  BY <1>2, <1>3 DEF Ordered
<1>5. MsgIn(t) \subseteq MsgIn(s)
  BY <1>2 DEF MsgIn
<1>6. ASSUME NEW m \in Msgs, Head(s) = UserMsg(m)
      PROVE  m \in MsgIn(s) /\ AllBefore({m}, MsgIn(t))
  BY <1>1, <1>2, <1>6 DEF MsgIn, AllBefore, Ordered
<1>7. QED
  BY <1>4, <1>5, <1>6 DEF t

(* What a drain takes comes before what it leaves.                         *)
LEMMA OrderOfDrain ==
  ASSUME NEW mode, NEW q \in Seq(Msgs), Ascending(q)
  PROVE  /\ Ordered(UserMsgsOf(Drained(mode, q)))
         /\ MsgIn(UserMsgsOf(Drained(mode, q))) \subseteq ToSet(q)
         /\ Ascending(Left(mode, q)) /\ ToSet(Left(mode, q)) \subseteq ToSet(q)
         /\ \A m \in MsgIn(UserMsgsOf(Drained(mode, q))), n \in ToSet(Left(mode, q)) : m < n
<1>1. ASSUME NEW d \in Seq(Msgs), Ascending(d)
      PROVE  Ordered(UserMsgsOf(d)) /\ MsgIn(UserMsgsOf(d)) = ToSet(d)
  <2>1. /\ DOMAIN UserMsgsOf(d) = DOMAIN d
        /\ \A i \in DOMAIN d : d[i] \in Msgs
        /\ \A i \in DOMAIN d, m \in Msgs : UserMsgsOf(d)[i] = UserMsg(m) <=> d[i] = m
    BY UserMsgInjective DEF UserMsgsOf
  <2>2. QED
    BY <1>1, <2>1 DEF Ordered, MsgIn, ToSet, Ascending
<1>2. CASE mode = "all" \/ q = <<>>
  <2>1. Drained(mode, q) = q /\ Left(mode, q) = <<>>
    BY <1>2 DEF Drained, Left
  <2>2. Ordered(UserMsgsOf(q)) /\ MsgIn(UserMsgsOf(q)) = ToSet(q)
    BY <1>1
  <2>3. QED
    BY <2>1, <2>2, OrderOfEmpty
<1>3. CASE ~(mode = "all" \/ q = <<>>)
  <2>1. Drained(mode, q) = <<Head(q)>> /\ Left(mode, q) = Tail(q)
    BY <1>3 DEF Drained, Left
  <2> DEFINE t == Tail(q)
             h == <<Head(q)>>
  <2>2. /\ DOMAIN q = 1..Len(q) /\ Len(q) \in Nat /\ Len(q) >= 1 /\ Head(q) = q[1]
        /\ DOMAIN t = 1..(Len(q) - 1) /\ \A i \in 1..(Len(q) - 1) : t[i] = q[i + 1]
        /\ h \in Seq(Msgs) /\ DOMAIN h = {1} /\ h[1] = q[1] /\ q[1] \in Msgs
    BY <1>3
  <2> HIDE DEF t, h
  <2>3. \A i \in DOMAIN t : i + 1 \in DOMAIN q /\ t[i] = q[i + 1] /\ 1 < i + 1
    BY <2>2
  <2>4. ToSet(t) \subseteq ToSet(q) /\ ToSet(h) = {q[1]} /\ q[1] \in ToSet(q)
    BY <2>2, <2>3 DEF ToSet
  <2>5. \A n \in ToSet(t) : q[1] < n
    <3>0. 1 \in DOMAIN q
      BY <2>2
    <3>1. \A j \in DOMAIN q : 1 < j => q[1] < q[j]
      BY <3>0 DEF Ascending
    <3>2. \A i \in DOMAIN t : q[1] < t[i]
      BY <2>3, <3>1
    <3>3. QED
      BY <3>2 DEF ToSet
  <2>6. Ascending(h) /\ Ascending(t)
    <3>1. Ascending(h)
      BY <2>2 DEF Ascending
    <3>2. \A i, j \in DOMAIN t : i < j => i + 1 < j + 1
      BY <2>2
    <3>3. Ascending(t)
      BY <2>3, <3>2 DEF Ascending
    <3>4. QED
      BY <3>1, <3>3
  <2>7. Ordered(UserMsgsOf(h)) /\ MsgIn(UserMsgsOf(h)) = ToSet(h)
    BY <1>1, <2>2, <2>6
  <2>8. QED
    BY <2>1, <2>4, <2>5, <2>6, <2>7 DEF t, h
<1>4. QED
  BY <1>2, <1>3

-----------------------------------------------------------------------------
(* The steps. *)

LEMMA OrderShrinks ==
  ASSUME OrderInv, UNCHANGED kind, Ordered(messages'), Ordered(announce'),
         MsgIn(messages') \subseteq MsgIn(messages), MsgIn(announce') \subseteq MsgIn(announce),
         Ascending(steeringQueue'), Ascending(followUpQueue'),
         ToSet(steeringQueue') \subseteq ToSet(steeringQueue),
         ToSet(followUpQueue') \subseteq ToSet(followUpQueue)
  PROVE  OrderInv'
BY DEF OrderInv, Ordered, AllBefore, SameQueue, MsgIn, Ascending

LEMMA OrderFrame ==
  ASSUME OrderInv, UNCHANGED <<kind, messages, announce, steeringQueue, followUpQueue>>
  PROVE  OrderInv'
BY DEF OrderInv, Ordered, AllBefore, SameQueue, MsgIn, Ascending, ToSet

(* What is somewhere was handed over.                                      *)
LEMMA PlacedIsUsed ==
  ASSUME IInv, TallyInv,
         NEW m \in MsgIn(messages) \cup MsgIn(announce)
                     \cup ToSet(steeringQueue) \cup ToSet(followUpQueue)
  PROVE  m \in Msgs /\ kind[m] # "fresh"
<1>1. /\ ToSet(steeringQueue) \subseteq Msgs /\ ToSet(followUpQueue) \subseteq Msgs
  BY ToSetType DEF IInv, TypeOK
<1>2. m \in Msgs
  BY <1>1 DEF MsgIn
<1>3. UserMsg(m) \in ToSet(announce) <=> Times(UserMsg(m), announce) # 0
  BY TimesInSet DEF IInv, TypeOK
<1>4. \/ UserMsg(m) \in ToSet(messages) \/ UserMsg(m) \in ToSet(announce)
      \/ m \in ToSet(steeringQueue) \/ m \in ToSet(followUpQueue)
  BY DEF MsgIn, ToSet
<1>5. Occurrences(m) # 0
  <2> DEFINE a == Times(m, steeringQueue)
             b == Times(m, followUpQueue)
             c == Times(UserMsg(m), announce)
             d == Times(UserMsg(m), messages)
  <2>1. /\ a \in Nat /\ b \in Nat /\ c \in Nat /\ d \in Nat
        /\ m \in ToSet(steeringQueue) <=> a # 0
        /\ m \in ToSet(followUpQueue) <=> b # 0
        /\ UserMsg(m) \in ToSet(messages) <=> d # 0
    BY <1>2, FoundOnce, Zenon
  <2>2. Occurrences(m) = a + b + c + d
    BY Zenon DEF Occurrences
  <2>3. UserMsg(m) \in ToSet(announce) <=> c # 0
    BY <1>3
  <2> HIDE DEF a, b, c, d
  <2>4. a # 0 \/ b # 0 \/ c # 0 \/ d # 0
    BY <1>4, <2>1, <2>3, Zenon
  <2>5. QED
    BY <2>1, <2>2, <2>4
<1>6. QED
  BY <1>2, <1>5 DEF TallyInv, Tally

LEMMA HandOverKeepsOrder ==
  ASSUME IInv, TallyInv, OrderInv, NEW m \in Msgs, Steer(m) \/ FollowUp(m) \/ Prompt(m)
  PROVE  OrderInv'
<1> DEFINE Placed == MsgIn(messages) \cup MsgIn(announce)
                       \cup ToSet(steeringQueue) \cup ToSet(followUpQueue)
<1>0. Msgs \subseteq Nat
  BY AgentAssumption
<1>1. Fresh(m) /\ kind[m] = "fresh"
  BY DEF Steer, FollowUp, Prompt, Fresh
<1>2. PICK k \in {"steering", "followUp", "prompt"} :
        /\ kind' = [kind EXCEPT ![m] = k]
        /\ k = "steering" => Steer(m)
        /\ k = "followUp" => FollowUp(m)
        /\ k = "prompt" => Prompt(m)
  BY DEF Steer, FollowUp, Prompt
<1>3. kind'[m] = k /\ \A n \in Msgs : n # m => kind'[n] = kind[n]
  BY <1>2 DEF IInv, TypeOK
<1>4. \A n \in Placed : n \in Msgs /\ n # m /\ kind[n] # "fresh"
  BY <1>1, PlacedIsUsed
<1>5. \A n \in Placed : kind'[n] = kind[n] /\ n < m
  <2> SUFFICES ASSUME NEW n \in Placed PROVE n < m
    BY <1>3, <1>4
  <2>1. n \in Nat /\ m \in Nat /\ n # m
    BY <1>0, <1>4
  <2>2. ~(m < n)
    BY <1>1, <1>4 DEF OrderInv
  <2>3. QED
    BY <2>1, <2>2
<1> HIDE DEF Placed
<1>6. \A a, b \in Msgs : (b < a /\ kind'[a] # "fresh") => kind'[b] # "fresh"
  <2> SUFFICES ASSUME NEW a \in Msgs, NEW b \in Msgs, b < a, kind'[a] # "fresh"
               PROVE  kind'[b] # "fresh"
    OBVIOUS
  <2>1. CASE b = m
    BY <1>3, <2>1
  <2>2. CASE a = m /\ b # m
    BY <1>1, <1>3, <2>2 DEF Fresh
  <2>3. CASE a # m /\ b # m
    BY <1>3, <2>3 DEF OrderInv
  <2>4. QED
    BY <2>1, <2>2, <2>3
<1>7. MsgIn(messages) \subseteq Placed /\ MsgIn(announce) \subseteq Placed
      /\ ToSet(steeringQueue) \subseteq Placed /\ ToSet(followUpQueue) \subseteq Placed
  BY DEF Placed
<1>8. ASSUME NEW s, Ordered(s), MsgIn(s) \subseteq Placed
      PROVE  \A i, j \in DOMAIN s : \A a, b \in Msgs :
               (/\ i < j /\ s[i] = UserMsg(a) /\ s[j] = UserMsg(b)
                /\ kind'[a] = kind'[b] /\ kind'[a] # "prompt") => a < b
  <2>1. \A i \in DOMAIN s, a \in Msgs : s[i] = UserMsg(a) => kind'[a] = kind[a]
    BY <1>5, <1>8 DEF MsgIn
  <2>2. QED
    BY <1>8, <2>1 DEF Ordered, SameQueue
<1>9. ASSUME NEW A, NEW B, AllBefore(A, B), A \subseteq Placed, B \subseteq Placed
      PROVE  \A a \in A, b \in B : (kind'[a] = kind'[b] /\ kind'[a] # "prompt") => a < b
  BY <1>5, <1>9 DEF AllBefore, SameQueue
<1>10. messages' = messages /\ Ordered(messages)'
  <2>1. messages' = messages
    BY DEF Steer, FollowUp, Prompt, RunWithLifecycle, state
  <2>2. QED
    BY <1>7, <1>8, <2>1 DEF OrderInv, Ordered, SameQueue
<1>17. \A a \in MsgIn(messages), b \in MsgIn(announce) :
         (kind'[a] = kind'[b] /\ kind'[a] # "prompt") => a < b
  <2>1. AllBefore(MsgIn(messages), MsgIn(announce))
    BY DEF OrderInv
  <2>2. QED
    BY <1>7, <1>9, <2>1
<1>11. ASSUME NEW q \in Seq(Msgs), Ascending(q), ToSet(q) \subseteq Placed
       PROVE  Ascending(Append(q, m)) /\ ToSet(Append(q, m)) = ToSet(q) \cup {m}
  <2> DEFINE t == Append(q, m)
  <2>1. /\ Len(q) \in Nat /\ DOMAIN q = 1..Len(q) /\ DOMAIN t = 1..(Len(q) + 1)
        /\ \A i \in 1..Len(q) : t[i] = q[i]
        /\ t[Len(q) + 1] = m
    OBVIOUS
  <2> HIDE DEF t
  <2>2. \A i \in 1..Len(q) : q[i] < m
    BY <1>5, <1>11, <2>1 DEF ToSet
  <2>3. Ascending(t)
    BY <1>11, <2>1, <2>2 DEF Ascending
  <2>4. ToSet(t) = ToSet(q) \cup {m}
    BY <2>1 DEF ToSet
  <2>5. QED
    BY <2>3, <2>4 DEF t
<1>12. steeringQueue \in Seq(Msgs) /\ followUpQueue \in Seq(Msgs)
  BY DEF IInv, TypeOK
<1>13. CASE Steer(m)
  <2>1. /\ announce' = announce /\ followUpQueue' = followUpQueue
        /\ steeringQueue' = Append(steeringQueue, m) /\ kind'[m] = "steering"
    BY <1>13 DEF Steer, IInv, TypeOK
  <2>2. Ordered(announce)'
    BY <1>7, <1>8, <2>1 DEF OrderInv, Ordered, SameQueue
  <2>3. ToSet(steeringQueue') = ToSet(steeringQueue) \cup {m} /\ Ascending(steeringQueue')
    BY <1>7, <1>11, <1>12, <2>1 DEF OrderInv
  <2>4. AllBefore(MsgIn(messages), MsgIn(announce))'
    <3>1. MsgIn(messages') = MsgIn(messages) /\ MsgIn(announce') = MsgIn(announce)
      BY <1>10, <2>1
    <3>2. QED
      BY <1>17, <3>1 DEF AllBefore, SameQueue
  <2> DEFINE A == MsgIn(messages) \cup MsgIn(announce)
             B == ToSet(steeringQueue) \cup ToSet(followUpQueue)
  <2>5. A \subseteq Placed /\ B \subseteq Placed /\ AllBefore(A, B)
    BY <1>7 DEF OrderInv
  <2>6. MsgIn(messages') \cup MsgIn(announce') = A
        /\ ToSet(steeringQueue') \cup ToSet(followUpQueue') = B \cup {m}
    BY <1>10, <2>1, <2>3 DEF MsgIn
  <2>7. /\ \A n \in ToSet(steeringQueue') : kind'[n] = "steering"
        /\ \A n \in ToSet(followUpQueue') : kind'[n] = "followUp"
    BY <1>5, <1>7, <2>1, <2>3 DEF OrderInv
  <2> HIDE DEF A, B
  <2>8. \A a \in A, b \in B \cup {m} : (kind'[a] = kind'[b] /\ kind'[a] # "prompt") => a < b
    BY <1>5, <1>9, <2>5
  <2>9. AllBefore(MsgIn(messages) \cup MsgIn(announce), ToSet(steeringQueue) \cup ToSet(followUpQueue))'
    BY <2>6, <2>8 DEF AllBefore, SameQueue
  <2>10. Ascending(followUpQueue')
    BY <2>1 DEF OrderInv
  <2>11. QED
    BY <1>6, <1>10, <2>2, <2>3, <2>4, <2>7, <2>9, <2>10 DEF OrderInv
<1>14. CASE FollowUp(m)
  <2>1. /\ announce' = announce /\ steeringQueue' = steeringQueue
        /\ followUpQueue' = Append(followUpQueue, m) /\ kind'[m] = "followUp"
    BY <1>14 DEF FollowUp, IInv, TypeOK
  <2>2. Ordered(announce)'
    BY <1>7, <1>8, <2>1 DEF OrderInv, Ordered, SameQueue
  <2>3. ToSet(followUpQueue') = ToSet(followUpQueue) \cup {m} /\ Ascending(followUpQueue')
    BY <1>7, <1>11, <1>12, <2>1 DEF OrderInv
  <2>4. AllBefore(MsgIn(messages), MsgIn(announce))'
    <3>1. MsgIn(messages') = MsgIn(messages) /\ MsgIn(announce') = MsgIn(announce)
      BY <1>10, <2>1
    <3>2. QED
      BY <1>17, <3>1 DEF AllBefore, SameQueue
  <2> DEFINE A == MsgIn(messages) \cup MsgIn(announce)
             B == ToSet(steeringQueue) \cup ToSet(followUpQueue)
  <2>5. A \subseteq Placed /\ B \subseteq Placed /\ AllBefore(A, B)
    BY <1>7 DEF OrderInv
  <2>6. MsgIn(messages') \cup MsgIn(announce') = A
        /\ ToSet(steeringQueue') \cup ToSet(followUpQueue') = B \cup {m}
    BY <1>10, <2>1, <2>3 DEF MsgIn
  <2>7. /\ \A n \in ToSet(steeringQueue') : kind'[n] = "steering"
        /\ \A n \in ToSet(followUpQueue') : kind'[n] = "followUp"
    BY <1>5, <1>7, <2>1, <2>3 DEF OrderInv
  <2> HIDE DEF A, B
  <2>8. \A a \in A, b \in B \cup {m} : (kind'[a] = kind'[b] /\ kind'[a] # "prompt") => a < b
    BY <1>5, <1>9, <2>5
  <2>9. AllBefore(MsgIn(messages) \cup MsgIn(announce), ToSet(steeringQueue) \cup ToSet(followUpQueue))'
    BY <2>6, <2>8 DEF AllBefore, SameQueue
  <2>10. Ascending(steeringQueue')
    BY <2>1 DEF OrderInv
  <2>11. QED
    BY <1>6, <1>10, <2>2, <2>3, <2>4, <2>7, <2>9, <2>10 DEF OrderInv
<1>15. CASE Prompt(m)
  <2>1. /\ announce' = UserMsgsOf(<<m>>) /\ steeringQueue' = steeringQueue
        /\ followUpQueue' = followUpQueue /\ kind'[m] = "prompt"
    BY <1>3, <1>15 DEF Prompt, IInv, TypeOK, RunWithLifecycle, queues
  <2>2. MsgIn(announce') = {m}
    BY <2>1, UserMsgInjective DEF MsgIn, UserMsgsOf
  <2>3. Ordered(announce)'
    BY <2>1, UserMsgInjective DEF UserMsgsOf, Ordered, SameQueue
  <2>4. AllBefore(MsgIn(messages), MsgIn(announce))'
    BY <2>1, <2>2 DEF AllBefore, SameQueue
  <2> DEFINE A == MsgIn(messages)
             B == ToSet(steeringQueue) \cup ToSet(followUpQueue)
  <2>5. A \subseteq Placed /\ B \subseteq Placed /\ AllBefore(A, B)
    BY <1>7 DEF OrderInv, AllBefore
  <2>6. MsgIn(messages') \cup MsgIn(announce') = A \cup {m}
        /\ ToSet(steeringQueue') \cup ToSet(followUpQueue') = B
    BY <1>10, <2>1, <2>2 DEF MsgIn
  <2>7. /\ \A n \in ToSet(steeringQueue') : kind'[n] = "steering"
        /\ \A n \in ToSet(followUpQueue') : kind'[n] = "followUp"
    BY <1>5, <1>7, <2>1 DEF OrderInv
  <2> HIDE DEF A, B
  <2>8. \A a \in A \cup {m}, b \in B : (kind'[a] = kind'[b] /\ kind'[a] # "prompt") => a < b
    BY <1>9, <2>1, <2>5
  <2>9. AllBefore(MsgIn(messages) \cup MsgIn(announce), ToSet(steeringQueue) \cup ToSet(followUpQueue))'
    BY <2>6, <2>8 DEF AllBefore, SameQueue
  <2>10. Ascending(steeringQueue') /\ Ascending(followUpQueue')
    BY <2>1 DEF OrderInv
  <2>11. QED
    BY <1>6, <1>10, <2>3, <2>4, <2>7, <2>9, <2>10 DEF OrderInv
<1>16. QED
  BY <1>13, <1>14, <1>15

LEMMA MessageEndKeepsOrder == IInv /\ OrderInv /\ EmitMessageEnd => OrderInv'
<1> SUFFICES ASSUME IInv, OrderInv, EmitMessageEnd PROVE OrderInv'
  OBVIOUS
<1>1. /\ announce # <<>> /\ announce' = Tail(announce)
      /\ messages' = Append(messages, Head(announce))
      /\ UNCHANGED <<steeringQueue, followUpQueue, kind>>
  BY DEF EmitMessageEnd, queues, input
<1>2. announce \in Seq(Conv!Entries) /\ messages \in Seq(Conv!Entries)
  BY DEF IInv, TypeOK
<1>3. /\ Ordered(Tail(announce)) /\ MsgIn(Tail(announce)) \subseteq MsgIn(announce)
      /\ \A m \in Msgs : Head(announce) = UserMsg(m) =>
            m \in MsgIn(announce) /\ AllBefore({m}, MsgIn(Tail(announce)))
  BY <1>1, <1>2, OrderOfTail DEF OrderInv
<1> DEFINE H == {m \in Msgs : Head(announce) = UserMsg(m)}
<1>4. MsgIn(messages') = MsgIn(messages) \cup H /\ H \subseteq MsgIn(announce)
  BY <1>1, <1>2, <1>3, MsgInOfAppend
<1>5. Ordered(Append(messages, Head(announce)))
  <2>1. \A n \in Msgs : Head(announce) = UserMsg(n) => AllBefore(MsgIn(messages), {n})
    BY <1>3 DEF OrderInv, AllBefore
  <2>2. QED
    BY <1>2, <2>1, OrderedOfAppend DEF OrderInv
<1>6. AllBefore(H, MsgIn(Tail(announce)))
  BY <1>3 DEF AllBefore
<1> HIDE DEF H
<1>7. Ordered(messages)' /\ Ordered(announce)'
  BY <1>1, <1>3, <1>5 DEF Ordered, SameQueue
<1>8. AllBefore(MsgIn(messages) \cup H, MsgIn(Tail(announce)))
  BY <1>3, <1>6 DEF OrderInv, AllBefore
<1>9. AllBefore(MsgIn(messages), MsgIn(announce))'
  <2>1. MsgIn(announce') = MsgIn(Tail(announce))
    BY <1>1
  <2>2. QED
    BY <1>1, <1>4, <1>8, <2>1 DEF AllBefore, SameQueue
<1>10. AllBefore(MsgIn(messages) \cup MsgIn(announce), ToSet(steeringQueue) \cup ToSet(followUpQueue))'
  <2>1. MsgIn(messages') \cup MsgIn(announce') \subseteq MsgIn(messages) \cup MsgIn(announce)
    BY <1>1, <1>3, <1>4
  <2>2. ToSet(steeringQueue') = ToSet(steeringQueue) /\ ToSet(followUpQueue') = ToSet(followUpQueue)
    BY <1>1
  <2>3. QED
    BY <1>1, <2>1, <2>2 DEF OrderInv, AllBefore, SameQueue
<1>11. QED
  BY <1>1, <1>7, <1>9, <1>10 DEF OrderInv, Ascending, ToSet

(* What a drain moves from a queue to the announced messages.              *)
LEMMA DrainKeepsOrder ==
  ASSUME IInv, OrderInv, announce = <<>>, UNCHANGED <<messages, kind>>, NEW mode,
         \/ /\ announce' = UserMsgsOf(Drained(mode, steeringQueue)) /\ UNCHANGED followUpQueue
            /\ steeringQueue' = Left(mode, steeringQueue)
         \/ /\ announce' = UserMsgsOf(Drained(mode, followUpQueue)) /\ UNCHANGED steeringQueue
            /\ followUpQueue' = Left(mode, followUpQueue)
  PROVE  OrderInv'
<1>1. steeringQueue \in Seq(Msgs) /\ followUpQueue \in Seq(Msgs)
  BY DEF IInv, TypeOK
<1> DEFINE M == MsgIn(messages)
           S == ToSet(steeringQueue)
           F == ToSet(followUpQueue)
           A == MsgIn(announce')
           S1 == ToSet(steeringQueue')
           F1 == ToSet(followUpQueue')
<1>2. /\ Ordered(announce') /\ Ascending(steeringQueue') /\ Ascending(followUpQueue')
      /\ S1 \subseteq S /\ F1 \subseteq F
      /\ \/ A \subseteq S /\ \A m \in A, n \in S1 : m < n
         \/ A \subseteq F /\ \A m \in A, n \in F1 : m < n
  <2>1. ASSUME NEW q \in Seq(Msgs), Ascending(q)
        PROVE  /\ Ordered(UserMsgsOf(Drained(mode, q)))
               /\ MsgIn(UserMsgsOf(Drained(mode, q))) \subseteq ToSet(q)
               /\ Ascending(Left(mode, q)) /\ ToSet(Left(mode, q)) \subseteq ToSet(q)
               /\ \A m \in MsgIn(UserMsgsOf(Drained(mode, q))), n \in ToSet(Left(mode, q)) : m < n
    BY <2>1, OrderOfDrain
  <2>2. Ascending(steeringQueue) /\ Ascending(followUpQueue)
    BY DEF OrderInv
  <2>3. CASE /\ announce' = UserMsgsOf(Drained(mode, steeringQueue)) /\ UNCHANGED followUpQueue
             /\ steeringQueue' = Left(mode, steeringQueue)
    BY <1>1, <2>1, <2>2, <2>3
  <2>4. CASE /\ announce' = UserMsgsOf(Drained(mode, followUpQueue)) /\ UNCHANGED steeringQueue
             /\ followUpQueue' = Left(mode, followUpQueue)
    BY <1>1, <2>1, <2>2, <2>4
  <2>5. QED
    BY <2>3, <2>4
<1>3. /\ AllBefore(M, S \cup F)
      /\ \A m \in S : kind[m] = "steering"
      /\ \A m \in F : kind[m] = "followUp"
  BY DEF OrderInv, AllBefore
<1>4. MsgIn(messages') = M /\ Ordered(messages)'
  BY DEF OrderInv, Ordered, SameQueue
<1>5. Ordered(announce)'
  BY <1>2 DEF Ordered, SameQueue
<1> HIDE DEF M, S, F, A, S1, F1
<1>6. AllBefore(M, A) /\ AllBefore(M \cup A, S1 \cup F1)
  <2>1. \A m \in A, n \in S1 \cup F1 : SameQueue(m, n) => m < n
    BY <1>2, <1>3 DEF SameQueue
  <2>2. QED
    BY <1>2, <1>3, <2>1 DEF AllBefore
<1>7. /\ AllBefore(MsgIn(messages), MsgIn(announce))'
      /\ AllBefore(MsgIn(messages) \cup MsgIn(announce), ToSet(steeringQueue) \cup ToSet(followUpQueue))'
  BY <1>4, <1>6 DEF AllBefore, SameQueue, A, S1, F1
<1>8. /\ \A m \in ToSet(steeringQueue') : kind'[m] = "steering"
      /\ \A m \in ToSet(followUpQueue') : kind'[m] = "followUp"
  BY <1>2, <1>3 DEF S1, F1
<1>9. QED
  BY <1>2, <1>4, <1>5, <1>7, <1>8 DEF OrderInv

(* A run that starts with what a queue held, or with nothing.              *)
LEMMA ContinueKeepsOrder == IInv /\ OrderInv /\ Continue => OrderInv'
<1> SUFFICES ASSUME IInv, OrderInv, Continue PROVE OrderInv'
  OBVIOUS
<1>1. UNCHANGED <<kind, messages>>
  BY DEF Continue, ContinueFromAssistant, ContinueFromInput, RunWithLifecycle
<1>2. announce = <<>>
  BY DEF Continue, ContinueFromAssistant, ContinueFromInput, RunWithLifecycle,
         IInv, CallsFollowControl, OwedFollowsControl, QuietPoints
<1>3. CASE ContinueFromInput
  <2>1. announce' = <<>> /\ UNCHANGED queues
    BY <1>3 DEF ContinueFromInput, RunWithLifecycle, UserMsgsOf
  <2>2. QED
    BY <1>1, <1>2, <2>1, OrderFrame DEF queues
<1>4. CASE ContinueFromAssistant
  <2>1. \/ /\ announce' = UserMsgsOf(Drained(SteeringMode, steeringQueue)) /\ UNCHANGED followUpQueue
           /\ steeringQueue' = Left(SteeringMode, steeringQueue)
        \/ /\ announce' = UserMsgsOf(Drained(FollowUpMode, followUpQueue)) /\ UNCHANGED steeringQueue
           /\ followUpQueue' = Left(FollowUpMode, followUpQueue)
    BY <1>4 DEF ContinueFromAssistant, RunWithLifecycle
  <2>2. QED
    BY <1>1, <1>2, <2>1, DrainKeepsOrder
<1>5. QED
  BY <1>3, <1>4 DEF Continue

(* What says no user message keeps the order of those said.                *)
LEMMA OtherWordsKeepOrder ==
  ASSUME OrderInv, NEW T, announce' \in Seq(T), \A e \in T : e.role # "user",
         UNCHANGED <<messages, steeringQueue, followUpQueue, kind>>
  PROVE  OrderInv'
<1>1. \A i \in DOMAIN announce', m \in Msgs : announce'[i] # UserMsg(m)
  BY DEF UserMsg, Conv!UserMsg
<1>2. MsgIn(announce') = {}
  BY <1>1 DEF MsgIn
<1>3. Ordered(announce')
  BY <1>2, OrderedWithoutUsers
<1>4. QED
  BY <1>2, <1>3, OrderShrinks DEF OrderInv, Ordered, SameQueue

LEMMA OrderStep == IInv /\ TallyInv /\ OrderInv /\ [Next]_vars => OrderInv'
<1> SUFFICES ASSUME IInv, TallyInv, OrderInv, [Next]_vars PROVE OrderInv'
  OBVIOUS
<1> USE DEF state, queues, tools, input
<1>1. CASE UNCHANGED <<messages, announce, steeringQueue, followUpQueue, kind>>
  BY <1>1, OrderFrame
<1>2. CASE \/ Abort \/ EmitAgentStart \/ EmitTurnStart \/ EmitMessageStart \/ EmitTurnEnd
           \/ Request \/ StreamStart \/ TakeAnswer \/ EmitToolExecutionStart
           \/ PrepareToolCall \/ EndBatch \/ EmitAgentEnd \/ FinishRun
           \/ (\E c \in Calls : ToolReturns(c)) \/ UNCHANGED vars
  BY <1>1, <1>2 DEF Abort, EmitAgentStart, EmitTurnStart, EmitMessageStart, EmitTurnEnd,
     Request, StreamStart, TakeAnswer, EmitToolExecutionStart, PrepareToolCall, EndBatch,
     EmitAgentEnd, FinishRun, ToolReturns, vars
<1>3. CASE PollInitial \/ PollAfterTurn
  <2>1. announce = <<>> /\ UNCHANGED <<messages, kind>>
    BY <1>3 DEF PollInitial, PollAfterTurn, IInv, OwedFollowsControl, QuietPoints
  <2>2. \/ UNCHANGED <<announce, steeringQueue, followUpQueue>>
        \/ /\ announce' = UserMsgsOf(Drained(SteeringMode, steeringQueue)) /\ UNCHANGED followUpQueue
           /\ steeringQueue' = Left(SteeringMode, steeringQueue)
        \/ /\ announce' = UserMsgsOf(Drained(FollowUpMode, followUpQueue)) /\ UNCHANGED steeringQueue
           /\ followUpQueue' = Left(FollowUpMode, followUpQueue)
    BY <1>3 DEF PollInitial, PollAfterTurn, Inject
  <2>3. QED
    BY <1>1, <2>1, <2>2, DrainKeepsOrder
<1>4. CASE ClearSteeringQueue \/ ClearFollowUpQueue \/ Reset \/ Throw
  <2>1. /\ kind' = kind
        /\ messages' \in {messages, <<>>} /\ announce' \in {announce, <<>>}
        /\ steeringQueue' \in {steeringQueue, <<>>} /\ followUpQueue' \in {followUpQueue, <<>>}
    <3>1. CASE Throw
      BY <3>1, Zenon DEF Throw
    <3>2. QED
      BY <1>4, <3>1 DEF ClearSteeringQueue, ClearFollowUpQueue, Reset
  <2>2. QED
    BY <2>1, OrderOfEmpty, OrderShrinks DEF OrderInv
<1>5. ASSUME NEW s \in Conv!Stops, NEW cs \in CallSeqs, FinalMessage(s, cs) PROVE OrderInv'
  <2>1. UNCHANGED <<messages, steeringQueue, followUpQueue, kind>>
    BY <1>5 DEF FinalMessage
  <2>2. announce' = <<AssistantMsg(s, cs)>>
    BY <1>5 DEF FinalMessage
  <2>3. announce' \in Seq({AssistantMsg(s, cs)})
    BY <2>2
  <2>4. AssistantMsg(s, cs).role # "user"
    BY DEF AssistantMsg, Conv!AssistantMsg
  <2>5. QED
    BY <2>1, <2>3, <2>4, OtherWordsKeepOrder
<1>6. CASE EmitToolExecutionEnd \/ AwaitToolCalls
  <2>1. UNCHANGED <<messages, steeringQueue, followUpQueue, kind>>
    BY <1>6 DEF EmitToolExecutionEnd, AwaitToolCalls
  <2>2. announce' \in Seq(Conv!ToolResultMsgs)
    BY <1>6, ToolStepSaysResults
  <2>3. \A e \in Conv!ToolResultMsgs : e.role # "user"
    BY DEF Conv!ToolResultMsgs
  <2>4. QED
    BY <2>1, <2>2, <2>3, OtherWordsKeepOrder
<1>7. CASE HandleRunFailure
  <2>1. PICK s : messages' = Append(messages, AssistantMsg(s, <<>>))
    BY <1>7 DEF HandleRunFailure
  <2>2. UNCHANGED <<announce, steeringQueue, followUpQueue, kind>>
    BY <1>7 DEF HandleRunFailure
  <2>3. \A m \in Msgs : AssistantMsg(s, <<>>) # UserMsg(m)
    BY DEF AssistantMsg, UserMsg, Conv!AssistantMsg, Conv!UserMsg
  <2>4. messages \in Seq(Conv!Entries)
    BY DEF IInv, TypeOK
  <2>5. MsgIn(messages') = MsgIn(messages) /\ Ordered(messages')
    <3> DEFINE a == AssistantMsg(s, <<>>)
    <3> HIDE DEF a
    <3>1. messages' = Append(messages, a) /\ \A m \in Msgs : a # UserMsg(m)
      BY <2>1, <2>3 DEF a
    <3>2. MsgIn(messages') = MsgIn(messages) \cup {m \in Msgs : a = UserMsg(m)}
      BY <2>4, <3>1, MsgInOfAppend
    <3>3. Ordered(messages)
      BY DEF OrderInv
    <3>4. Ordered(messages')
      BY <2>4, <3>1, <3>3, OrderedOfAppend
    <3>5. QED
      BY <3>1, <3>2, <3>4
  <2>6. QED
    BY <2>2, <2>5, OrderShrinks DEF OrderInv, Ordered, SameQueue
<1>8. QED
  BY <1>2, <1>3, <1>4, <1>5, <1>6, <1>7, HandOverKeepsOrder, ContinueKeepsOrder,
     MessageEndKeepsOrder DEF Next, CallerStep, LoopStep, Answer

(* Every message handed to the agent is delivered, in the order its queue  *)
(* was handed them; without failures none is lost.                         *)
THEOREM EveryMessageDelivered ==
  Spec => [](QueuesAreFIFO /\ (~Failures => MessagesAreDelivered))
<1>1. Init => OrderInv
  <2>1. \A m \in Msgs : Init => kind[m] = "fresh"
    BY DEF Init
  <2>2. QED
    BY <2>1, OrderOfEmpty DEF Init, OrderInv, AllBefore
<1>2. IInv /\ OrderInv => QueuesAreFIFO
  <2> SUFFICES ASSUME IInv, OrderInv, NEW i \in DOMAIN messages, NEW j \in DOMAIN messages,
                      i < j, messages[i].role = "user", messages[j].role = "user",
                      kind[messages[i].id] = kind[messages[j].id],
                      kind[messages[i].id] # "prompt"
               PROVE  messages[i].id < messages[j].id
    BY DEF QueuesAreFIFO
  <2>1. messages[i] \in Conv!Entries /\ messages[j] \in Conv!Entries
    BY DEF IInv, TypeOK
  <2>2. \A e \in Conv!Entries : e.role = "user" => e.id \in Msgs /\ e = UserMsg(e.id)
    BY DEF Conv!Entries, Conv!UserMsgs, Conv!AssistantMsgs, Conv!ToolResultMsgs,
           UserMsg, Conv!UserMsg
  <2>3. QED
    BY <2>1, <2>2 DEF OrderInv, Ordered, SameQueue
<1>3. TallyInv /\ ~Failures => NothingLost
  BY DEF TallyInv, Tally, NothingLost
<1>4. IInv /\ TallyInv /\ OrderInv => QueuesAreFIFO /\ (~Failures => MessagesAreDelivered)
  BY <1>2, <1>3 DEF MessagesAreDelivered
<1>5. QED
  BY <1>1, <1>4, InvInit, InvStep, TallyInit, TallyStep, OrderStep, PTL DEF Spec

-----------------------------------------------------------------------------
(* Follow-ups. A batch has calls; a turn without a batch ended with an     *)
(* answer that asked for no tools.                                         *)
Contents == [role : {"assistant"}, stop : {"done"}, calls : {<<>>}]

TurnInv ==
  /\ pc \in BatchPoints \cup {"results"} => batch # <<>>
  /\ (pc \in {"turn_end", "poll"} /\ batch = <<>>) => Last(context) \in Contents

LEMMA TurnStep == IInv /\ TurnInv /\ [Next]_vars => TurnInv'
<1> SUFFICES ASSUME IInv, TurnInv, [Next]_vars PROVE TurnInv'
  OBVIOUS
<1> USE DEF state, tools
<1>1. CASE \/ \E m \in Msgs : Steer(m) \/ FollowUp(m)
           \/ ClearSteeringQueue \/ ClearFollowUpQueue \/ Abort \/ Reset
           \/ EmitMessageStart \/ EmitMessageEnd \/ UNCHANGED vars
  <2>1. UNCHANGED <<pc, context, batch>>
    BY <1>1 DEF Steer, FollowUp, ClearSteeringQueue, ClearFollowUpQueue, Abort, Reset,
       EmitMessageStart, EmitMessageEnd, vars
  <2>2. QED
    BY <2>1 DEF TurnInv
<1>2. CASE (\E m \in Msgs : Prompt(m)) \/ Continue
  BY <1>2 DEF Prompt, Continue, ContinueFromAssistant, ContinueFromInput, RunWithLifecycle,
     TurnInv, BatchPoints
<1>3. CASE \/ EmitAgentStart \/ EmitTurnStart \/ EmitTurnEnd \/ PollInitial \/ PollAfterTurn
           \/ Request \/ StreamStart \/ EmitAgentEnd \/ HandleRunFailure \/ FinishRun
  <2>1. \/ pc' \notin BatchPoints \cup {"results", "turn_end", "poll"}
        \/ pc = "turn_end" /\ pc' = "poll" /\ UNCHANGED <<context, batch>>
    BY <1>3 DEF EmitAgentStart, EmitTurnStart, EmitTurnEnd, PollInitial, PollAfterTurn,
       Request, StreamStart, EmitAgentEnd, HandleRunFailure, FinishRun, BatchPoints
  <2>2. QED
    BY <2>1 DEF TurnInv, BatchPoints
<1>4. CASE Throw
  <2>1. pc' = "failing"
    BY <1>4, Zenon DEF Throw
  <2>2. QED
    BY <2>1 DEF TurnInv, BatchPoints
<1>5. CASE Answer
  BY <1>5 DEF Answer, FinalMessage, TurnInv, BatchPoints
<1>6. CASE TakeAnswer
  <2>1. /\ pc = "answer" /\ pc' = NextAfterAnswer /\ UNCHANGED <<context, batch>>
        /\ Last(context) \in Conv!AssistantMsgs /\ Last(context).calls = batch
    BY <1>6 DEF TakeAnswer, IInv, OwedFollowsControl
  <2>2. CASE pc' = "last_turn_end"
    BY <2>2 DEF TurnInv, BatchPoints
  <2>3. CASE pc' = "tools" /\ batch # <<>>
    BY <2>1, <2>3 DEF TurnInv, BatchPoints
  <2>4. CASE pc' = "turn_end" /\ batch = <<>> /\ Last(context).stop = "done"
    <3>1. Last(context) \in Contents
      BY <2>1, <2>4 DEF Conv!AssistantMsgs, Contents
    <3>2. QED
      BY <2>1, <2>4, <3>1 DEF TurnInv, BatchPoints
  <2>5. QED
    BY <2>1, <2>2, <2>3, <2>4 DEF NextAfterAnswer
<1>7. CASE \/ EmitToolExecutionStart \/ PrepareToolCall \/ EmitToolExecutionEnd
           \/ AwaitToolCalls \/ EndBatch
  <2>1. /\ pc \in BatchPoints \cup {"results"} /\ batch' = batch
        /\ pc' \in BatchPoints \cup {"results", "failing", "last_turn_end", "turn_end"}
    BY <1>7 DEF EmitToolExecutionStart, PrepareToolCall, EmitToolExecutionEnd,
       AwaitToolCalls, Awaited, EndBatch, BatchPoints
  <2>2. QED
    BY <2>1 DEF TurnInv, BatchPoints
<1>8. ASSUME NEW c \in Calls, ToolReturns(c) PROVE TurnInv'
  <2>1. /\ UNCHANGED <<context, batch>>
        /\ pc' = pc \/ (pc = "execute" /\ pc' = "tool_end")
    BY <1>8 DEF ToolReturns, IInv, CallsFollowControl
  <2>2. QED
    BY <2>1 DEF TurnInv, BatchPoints
<1>9. QED
  BY <1>1, <1>2, <1>3, <1>4, <1>5, <1>6, <1>7, <1>8 DEF Next, CallerStep, LoopStep

(* What is queued was not discarded.                                       *)
LEMMA QueuedIsNotDiscarded ==
  ASSUME IInv, TallyInv, followUpQueue # <<>>, NEW D, ToSet(followUpQueue) \subseteq D,
         discarded' = discarded \cup D
  PROVE  discarded' # discarded
<1>1. followUpQueue \in Seq(Msgs) /\ Head(followUpQueue) \in Msgs
  BY DEF IInv, TypeOK
<1>2. PICK m \in Msgs : m \in ToSet(followUpQueue)
  BY <1>1 DEF ToSet
<1>3. Occurrences(m) # 0
  BY <1>2, FoundOnce DEF Occurrences
<1>4. m \notin discarded
  BY <1>3 DEF TallyInv, Tally
<1>5. QED
  BY <1>2, <1>4

(* A run takes a follow-up only when it would otherwise stop: nothing else *)
(* is queued, no call is unanswered and the model asked for no tools.      *)
THEOREM FollowUpsAreLast == Spec => FollowUpsComeLast
<1> DEFINE Takes == /\ activeRun # "none" /\ Len(followUpQueue') < Len(followUpQueue)
                    /\ discarded' = discarded
           Idle  == steeringQueue = <<>> /\ owed = <<>> /\ Last(context) \in Contents
<1>1. Init => TurnInv
  BY DEF Init, TurnInv, BatchPoints
<1>2. IInv /\ TallyInv /\ TurnInv /\ [Next]_vars => [Takes => Idle]_vars
  <2> SUFFICES ASSUME IInv, TallyInv, TurnInv, [Next]_vars, Takes PROVE Idle
    OBVIOUS
  <2> USE DEF state, queues
  <2>1. followUpQueue \in Seq(Msgs) /\ Len(followUpQueue) \in Nat /\ followUpQueue' # followUpQueue
    BY DEF IInv, TypeOK
  <2>2. CASE PollAfterTurn
    <3>1. pc = "poll" /\ steeringQueue = <<>> /\ batch = <<>>
      BY <2>1, <2>2 DEF PollAfterTurn, WouldStop
    <3>2. QED
      BY <3>1 DEF IInv, OwedFollowsControl, QuietPoints, TurnInv
  <2>3. CASE ClearFollowUpQueue
    <3>1. discarded' = discarded \cup ToSet(followUpQueue) /\ followUpQueue # <<>>
      BY <2>3 DEF ClearFollowUpQueue
    <3>2. QED
      BY <3>1, QueuedIsNotDiscarded
  <2>4. CASE Reset
    <3> DEFINE D == ToSet(steeringQueue) \cup ToSet(followUpQueue)
                      \cup {m \in Msgs : UserMsg(m) \in ToSet(messages)}
    <3>1. discarded' = discarded \cup D /\ followUpQueue' = <<>>
      BY <2>4 DEF Reset
    <3>2. followUpQueue # <<>> /\ ToSet(followUpQueue) \subseteq D
      BY <2>1, <3>1
    <3> HIDE DEF D
    <3>3. QED
      BY <3>1, <3>2, QueuedIsNotDiscarded
  <2>5. ASSUME NEW m \in Msgs, FollowUp(m) PROVE FALSE
    <3>1. Len(followUpQueue') = Len(followUpQueue) + 1
      BY <2>1, <2>5 DEF FollowUp
    <3>2. QED
      BY <2>1, <3>1
  <2>6. CASE (\E m \in Msgs : Prompt(m)) \/ Continue
    BY <2>6 DEF Prompt, Continue, ContinueFromAssistant, ContinueFromInput, RunWithLifecycle
  <2>7. CASE Throw
    <3>1. followUpQueue' = followUpQueue
      BY <2>7, Zenon DEF Throw
    <3>2. QED
      BY <2>1, <3>1
  <2>8. CASE \/ \E m \in Msgs : Steer(m)
             \/ ClearSteeringQueue \/ Abort \/ EmitAgentStart \/ EmitTurnStart \/ EmitMessageStart
             \/ EmitMessageEnd \/ PollInitial \/ EmitTurnEnd \/ Request \/ StreamStart
             \/ Answer \/ TakeAnswer \/ UNCHANGED vars
    BY <2>1, <2>8 DEF Steer, ClearSteeringQueue, Abort, EmitAgentStart, EmitTurnStart,
       EmitMessageStart, EmitMessageEnd, PollInitial, EmitTurnEnd, Request, StreamStart,
       Answer, FinalMessage, TakeAnswer, vars
  <2>9. CASE \/ EmitToolExecutionStart \/ PrepareToolCall \/ EmitToolExecutionEnd
             \/ AwaitToolCalls \/ EndBatch \/ EmitAgentEnd \/ HandleRunFailure \/ FinishRun
             \/ \E c \in Calls : ToolReturns(c)
    BY <2>1, <2>9 DEF EmitToolExecutionStart, PrepareToolCall, EmitToolExecutionEnd,
       AwaitToolCalls, EndBatch, EmitAgentEnd, HandleRunFailure, FinishRun, ToolReturns
  <2>10. QED
    BY <2>2, <2>3, <2>4, <2>5, <2>6, <2>7, <2>8, <2>9 DEF Next, CallerStep, LoopStep
<1>3. [Takes => Idle]_vars <=>
        [(activeRun # "none" /\ Len(followUpQueue') < Len(followUpQueue)
           /\ discarded' = discarded)
          => /\ steeringQueue = <<>> /\ owed = <<>>
             /\ Last(context) \in [role : {"assistant"}, stop : {"done"}, calls : {<<>>}]]_vars
  BY DEF Contents
<1>4. QED
  BY <1>1, <1>2, <1>3, InvInit, InvStep, TallyInit, TallyStep, TurnStep, PTL
  DEF Spec, FollowUpsComeLast
=============================================================================
