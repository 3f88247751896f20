------------------------------- MODULE Agent -------------------------------
(***************************************************************************)
(* pi.agent.core.Agent and the loop it runs (AgentLoop.kt): the lifecycle  *)
(* of a run, the steering and follow-up queues, the streaming of assistant *)
(* messages, sequential and parallel tool batches, abort, reset, continue  *)
(* and the failure path.                                                   *)
(*                                                                         *)
(* The loop is one coroutine; `pc` is the suspension point it stands at.   *)
(* Every `emit` is a step: processEvents reduces the state and awaits the  *)
(* listeners, and callers (Steer, Abort, Reset, ...) act between any two   *)
(* steps. A tool of a parallel batch is a coroutine of its own. A run and  *)
(* its callers share one confined dispatcher: what happens between two     *)
(* suspension points is one step.                                          *)
(*                                                                         *)
(* Left out: message contents, errorMessage, the options handed to the     *)
(* provider, and the events that reduce nothing and gate nothing           *)
(* (MessageUpdate, ToolExecutionUpdate): a listener that throws in one is  *)
(* covered by Throw and by the error result of a tool.                     *)
(***************************************************************************)
EXTENDS Naturals, FiniteSets, SequencesExt

CONSTANTS
  Msgs,            (* user messages, numbered in the order they are handed *)
  Calls,           (* tool call ids                                        *)
  CallSeqs,        (* the tool call lists the model may answer with        *)
  SteeringMode,    (* QueueMode of the steering queue: "all" or "one"      *)
  FollowUpMode,    (* QueueMode of the follow-up queue                     *)
  Serial,          (* calls whose tool has executionMode SEQUENTIAL        *)
  ToolTurns,       (* bound: answers that carry tool calls                 *)
  Failures,        (* listeners, hooks and the provider may throw          *)
  ResetInRun       (* callers reset() while a run is active                *)

ASSUME AgentAssumption ==
  /\ Msgs \subseteq Nat
  /\ CallSeqs \subseteq Seq(Calls)
  /\ <<>> \in CallSeqs
  /\ \A cs \in CallSeqs : \A i, j \in DOMAIN cs : cs[i] = cs[j] => i = j
  /\ {SteeringMode, FollowUpMode} \subseteq {"all", "one"}
  /\ Serial \subseteq Calls
  /\ ToolTurns \in Nat
  /\ Failures \in BOOLEAN
  /\ ResetInRun \in BOOLEAN

VARIABLES
  (* AgentState *)
  messages,          (* the transcript                                     *)
  isStreaming,
  streamingMessage,  (* role of the message being streamed, or "none"      *)
  pendingToolCalls,
  (* Agent *)
  steeringQueue,
  followUpQueue,
  activeRun,         (* "none", "running", or "aborted" once abort() ran   *)
  (* the loop coroutine: runAgentLoop, runLoop and what they call *)
  pc,
  context,           (* currentContext.messages                            *)
  announce,          (* messages still to be emitted at this point         *)
  opened,            (* MessageStart of Head(announce) was emitted         *)
  skipPoll,          (* shouldSkipInitialSteeringPoll                      *)
  batch,             (* tool calls of the last answer                      *)
  next,              (* position in batch of the call being handled        *)
  call,              (* state of each call of the batch                    *)
  terminating,       (* calls whose result asked to terminate              *)
  scopeFailed,       (* a tool coroutine failed: coroutineScope is doomed  *)
  (* history *)
  owed,              (* calls of the transcript still without result       *)
  kind,              (* how each message was handed to the agent           *)
  discarded,         (* messages a caller cleared from queue or transcript *)
  cut,               (* reset() ran during this run                        *)
  toolTurns          (* answers with tool calls so far                     *)

state  == <<messages, isStreaming, streamingMessage, pendingToolCalls>>
queues == <<steeringQueue, followUpQueue>>
tools  == <<batch, next, call, terminating, scopeFailed>>
input  == <<kind, discarded>>
vars   == <<state, queues, activeRun, pc, context, announce, opened, skipPoll,
            tools, owed, input, cut, toolTurns>>

Conv == INSTANCE Conversation WITH transcript <- messages

UserMsg(m)          == Conv!UserMsg(m)
AssistantMsg(s, cs) == Conv!AssistantMsg(s, cs)
ToolResultMsg(c)    == Conv!ToolResultMsg(c)
UserMsgsOf(ms)      == [i \in DOMAIN ms |-> UserMsg(ms[i])]

(* Mutant: the results of a batch, last call first. *)
ResultsBackwards(cs) == [i \in DOMAIN cs |-> ToolResultMsg(cs[Len(cs) + 1 - i])]

ResultsOf(cs) == [i \in DOMAIN cs |-> ToolResultMsg(cs[i])]

PCs == {"idle", "agent_start", "first_turn", "prompts", "turn_start",
        "request", "called", "refused", "stream", "answer", "tools",
        "prepare", "execute", "tool_end", "results", "turn_end", "poll",
        "last_turn_end", "agent_end", "failing", "fail_end", "finish"}

CallStates == {"waiting", "started", "running", "settled", "ended"}

Init ==
  /\ messages = <<>> /\ isStreaming = FALSE
  /\ streamingMessage = "none" /\ pendingToolCalls = {}
  /\ steeringQueue = <<>> /\ followUpQueue = <<>>
  /\ activeRun = "none" /\ pc = "idle"
  /\ context = <<>> /\ announce = <<>> /\ opened = FALSE /\ skipPoll = FALSE
  /\ batch = <<>> /\ next = 1 /\ call = [c \in Calls |-> "waiting"]
  /\ terminating = {} /\ scopeFailed = FALSE
  /\ owed = <<>> /\ kind = [m \in Msgs |-> "fresh"] /\ discarded = {}
  /\ cut = FALSE /\ toolTurns = 0

-----------------------------------------------------------------------------
(* PendingMessageQueue *)

Drained(mode, q) ==
  IF mode = "all" \/ q = <<>> THEN q ELSE <<Head(q)>>

(* Mutants: a drain that forgets to remove, and one that removes them all. *)
LeftAll(mode, q)  == q
LeftNone(mode, q) == <<>>

Left(mode, q) ==
  IF mode = "all" \/ q = <<>> THEN <<>> ELSE Tail(q)

(* Messages are handed over in the order of their numbers. *)
Fresh(m) ==
  /\ kind[m] = "fresh"
  /\ \A n \in Msgs : n < m => kind[n] # "fresh"

Steer(m) ==
  /\ Fresh(m)
  /\ steeringQueue' = Append(steeringQueue, m)
  /\ kind' = [kind EXCEPT ![m] = "steering"]
  /\ UNCHANGED <<state, followUpQueue, activeRun, pc, context, announce,
                 opened, skipPoll, tools, owed, discarded, cut,
                 toolTurns>>

FollowUp(m) ==
  /\ Fresh(m)
  /\ followUpQueue' = Append(followUpQueue, m)
  /\ kind' = [kind EXCEPT ![m] = "followUp"]
  /\ UNCHANGED <<state, steeringQueue, activeRun, pc, context, announce,
                 opened, skipPoll, tools, owed, discarded, cut,
                 toolTurns>>

ClearSteeringQueue ==
  /\ steeringQueue # <<>>
  /\ steeringQueue' = <<>>
  /\ discarded' = discarded \cup ToSet(steeringQueue)
  /\ UNCHANGED <<state, followUpQueue, activeRun, pc, context, announce,
                 opened, skipPoll, tools, owed, kind, cut, toolTurns>>

ClearFollowUpQueue ==
  /\ followUpQueue # <<>>
  /\ followUpQueue' = <<>>
  /\ discarded' = discarded \cup ToSet(followUpQueue)
  /\ UNCHANGED <<state, steeringQueue, activeRun, pc, context, announce,
                 opened, skipPoll, tools, owed, kind, cut, toolTurns>>

Abort ==
  /\ activeRun = "running"
  /\ activeRun' = "aborted"
  /\ UNCHANGED <<state, queues, pc, context, announce, opened, skipPoll,
                 tools, owed, input, cut, toolTurns>>

(* reset() has no guard: the loop of an active run keeps its own context.  *)
Reset ==
  /\ activeRun # "none" => ResetInRun
  /\ messages' = <<>> /\ isStreaming' = FALSE
  /\ streamingMessage' = "none" /\ pendingToolCalls' = {}
  /\ steeringQueue' = <<>> /\ followUpQueue' = <<>>
  /\ discarded' = discarded \cup ToSet(steeringQueue) \cup ToSet(followUpQueue)
                    \cup {m \in Msgs : UserMsg(m) \in ToSet(messages)}
  /\ cut' = (activeRun # "none")
  /\ UNCHANGED <<activeRun, pc, context, announce, opened, skipPoll, tools,
                 owed, kind, toolTurns>>

-----------------------------------------------------------------------------
(* Starting a run: prompt() and continue(). Both are rejected, and change  *)
(* nothing, while activeRun is set.                                        *)

RunWithLifecycle(prompts, skip) ==
  /\ activeRun = "none"
  /\ activeRun' = "running" /\ pc' = "agent_start"
  /\ isStreaming' = TRUE /\ streamingMessage' = "none"
  /\ context' = messages \o UserMsgsOf(prompts)
  /\ announce' = UserMsgsOf(prompts)
  /\ skipPoll' = skip /\ cut' = FALSE
  /\ UNCHANGED <<messages, pendingToolCalls, opened, tools, owed, discarded,
                 toolTurns>>

Prompt(m) ==
  /\ Fresh(m)
  /\ RunWithLifecycle(<<m>>, FALSE)
  /\ kind' = [kind EXCEPT ![m] = "prompt"]
  /\ UNCHANGED queues

ContinueFromAssistant ==
  /\ messages # <<>> /\ Last(messages).role = "assistant"
  /\ \/ /\ steeringQueue # <<>>
        /\ steeringQueue' = Left(SteeringMode, steeringQueue)
        /\ RunWithLifecycle(Drained(SteeringMode, steeringQueue), TRUE)
        /\ UNCHANGED followUpQueue
     \/ /\ steeringQueue = <<>> /\ followUpQueue # <<>>
        /\ followUpQueue' = Left(FollowUpMode, followUpQueue)
        /\ RunWithLifecycle(Drained(FollowUpMode, followUpQueue), FALSE)
        /\ UNCHANGED steeringQueue
  /\ UNCHANGED kind

ContinueFromInput ==
  /\ messages # <<>> /\ Last(messages).role # "assistant"
  /\ RunWithLifecycle(<<>>, FALSE)
  /\ UNCHANGED <<queues, kind>>

Continue == ContinueFromAssistant \/ ContinueFromInput

-----------------------------------------------------------------------------
(* Emitting events. *)

EmitAgentStart ==
  /\ pc = "agent_start"
  /\ pc' = "first_turn"
  /\ UNCHANGED <<state, queues, activeRun, context, announce, opened,
                 skipPoll, tools, owed, input, cut, toolTurns>>

EmitTurnStart ==
  /\ \/ pc = "first_turn" /\ pc' = "prompts"
     \/ pc = "turn_start" /\ pc' = "request"
  /\ UNCHANGED <<state, queues, activeRun, context, announce, opened,
                 skipPoll, tools, owed, input, cut, toolTurns>>

Announcing == pc \in {"prompts", "request", "answer", "tools", "results"}

(* MessageStart of the next message to announce. *)
EmitMessageStart ==
  /\ Announcing /\ announce # <<>> /\ ~opened
  /\ opened' = TRUE
  /\ streamingMessage' = Head(announce).role
  /\ UNCHANGED <<messages, isStreaming, pendingToolCalls, queues, activeRun,
                 pc, context, announce, skipPoll, tools, owed, input, cut,
                 toolTurns>>

(* MessageEnd: processEvents appends the message to the transcript. *)
EmitMessageEnd ==
  /\ Announcing /\ announce # <<>> /\ opened
  /\ LET msg == Head(announce)
     IN /\ messages' = Append(messages, msg)
        /\ owed' = CASE msg.role = "user"       -> owed
                     [] msg.role = "assistant"  -> Conv!Obliges(msg.stop, msg.calls)
                     [] msg.role = "toolResult" -> Tail(owed)
  /\ opened' = FALSE /\ streamingMessage' = "none"
  /\ announce' = Tail(announce)
  /\ UNCHANGED <<isStreaming, pendingToolCalls, queues, activeRun, pc,
                 context, skipPoll, tools, input, cut, toolTurns>>

-----------------------------------------------------------------------------
(* runLoop: polling the queues. No other coroutine runs between a poll and *)
(* the decision it leads to.                                               *)

(* Mutant: announced, but not added to currentContext. *)
InjectUnseen(ms) ==
  /\ announce' = UserMsgsOf(ms)
  /\ UNCHANGED context

(* The messages of `ms` open the next turn. *)
Inject(ms) ==
  /\ announce' = UserMsgsOf(ms)
  /\ context' = context \o UserMsgsOf(ms)

PollInitial ==
  /\ pc = "prompts" /\ announce = <<>>
  /\ pc' = "request"
  /\ skipPoll' = FALSE
  /\ IF skipPoll
     THEN UNCHANGED <<steeringQueue, announce, context>>
     ELSE /\ Inject(Drained(SteeringMode, steeringQueue))
          /\ steeringQueue' = Left(SteeringMode, steeringQueue)
  /\ UNCHANGED <<state, followUpQueue, activeRun, opened, tools, owed, input,
                 cut, toolTurns>>

EmitTurnEnd ==
  /\ \/ pc = "turn_end" /\ pc' = "poll"
     \/ pc = "last_turn_end" /\ pc' = "agent_end"
  /\ UNCHANGED <<state, queues, activeRun, context, announce, opened,
                 skipPoll, tools, owed, input, cut, toolTurns>>

(* Mutant: hasMoreToolCalls is not looked at. *)
WouldStopWithoutSteering == steeringQueue = <<>>

(* Nothing keeps the inner loop going. *)
WouldStop == steeringQueue = <<>> /\ batch = <<>>

(* Steering first; follow-ups only when the loop would otherwise stop. *)
PollAfterTurn ==
  /\ pc = "poll"
  /\ \/ /\ ~WouldStop
        /\ Inject(Drained(SteeringMode, steeringQueue))
        /\ steeringQueue' = Left(SteeringMode, steeringQueue)
        /\ pc' = "turn_start"
        /\ UNCHANGED followUpQueue
     \/ /\ WouldStop /\ followUpQueue # <<>>
        /\ Inject(Drained(FollowUpMode, followUpQueue))
        /\ followUpQueue' = Left(FollowUpMode, followUpQueue)
        /\ pc' = "turn_start"
        /\ UNCHANGED steeringQueue
     \/ /\ WouldStop /\ followUpQueue = <<>>
        /\ pc' = "agent_end"
        /\ UNCHANGED <<queues, announce, context>>
  /\ UNCHANGED <<state, activeRun, opened, skipPoll, tools, owed, input, cut,
                 toolTurns>>

-----------------------------------------------------------------------------
(* streamAssistantResponse. A provider handed an aborted signal answers    *)
(* "aborted" at once; an abort during the stream may come too late.        *)

Request ==
  /\ pc = "request" /\ announce = <<>>
  /\ pc' = IF activeRun = "aborted" THEN "refused" ELSE "called"
  /\ UNCHANGED <<state, queues, activeRun, context, announce, opened,
                 skipPoll, tools, owed, input, cut, toolTurns>>

StreamStart ==
  /\ pc = "called"
  /\ pc' = "stream"
  /\ context' = Append(context, AssistantMsg("partial", <<>>))
  /\ streamingMessage' = "assistant"
  /\ UNCHANGED <<messages, isStreaming, pendingToolCalls, queues, activeRun,
                 announce, opened, skipPoll, tools, owed, input, cut,
                 toolTurns>>

(* The locals of a tool batch. *)
NewBatch(cs) ==
  /\ batch' = cs /\ next' = 1 /\ call' = [c \in Calls |-> "waiting"]
  /\ terminating' = {} /\ scopeFailed' = FALSE

(* The final message replaces the partial one, or is appended when the     *)
(* provider never started; MessageStart was emitted only in the former.    *)
FinalMessage(s, cs) ==
  /\ pc \in {"called", "refused", "stream"}
  /\ s # "done" => (s = "aborted" <=> activeRun = "aborted")
  /\ pc = "refused" => s = "aborted"
  /\ cs # <<>> => toolTurns < ToolTurns
  /\ toolTurns' = IF cs # <<>> THEN toolTurns + 1 ELSE toolTurns
  /\ LET final == AssistantMsg(s, cs)
     IN /\ context' = IF pc = "stream"
                      THEN [context EXCEPT ![Len(context)] = final]
                      ELSE Append(context, final)
        /\ announce' = <<final>>
  /\ opened' = (pc = "stream")
  /\ pc' = "answer"
  /\ NewBatch(cs)
  /\ UNCHANGED <<state, queues, activeRun, skipPoll, owed, input, cut>>

(* An error or aborted answer ends the run, whatever calls it carries. *)
NextAfterAnswer ==
  IF Last(context).stop # "done" THEN "last_turn_end"
  ELSE IF batch # <<>> THEN "tools" ELSE "turn_end"

(* runLoop after the answer. *)
TakeAnswer ==
  /\ pc = "answer" /\ announce = <<>>
  /\ pc' = NextAfterAnswer
  /\ UNCHANGED <<state, queues, activeRun, context, announce, opened,
                 skipPoll, tools, owed, input, cut, toolTurns>>

-----------------------------------------------------------------------------
(* executeToolCalls *)

(* Mutant: sequential only when every tool of the batch is. *)
SequentialIfAll == ToSet(batch) \subseteq Serial

(* One sequential tool makes the whole batch sequential. *)
Sequential == ToSet(batch) \cap Serial # {}

(* The tool coroutines coroutineScope waits for. *)
Running == {c \in Calls : call[c] = "running"}

(* Mutant: the update of pendingToolCalls is lost. *)
StillPending(c) == UNCHANGED pendingToolCalls

(* processEvents at ToolExecutionEnd. *)
NotPending(c) == pendingToolCalls' = pendingToolCalls \ {c}

EmitToolExecutionStart ==
  /\ pc = "tools" /\ announce = <<>> /\ next <= Len(batch)
  /\ pc' = "prepare"
  /\ pendingToolCalls' = pendingToolCalls \cup {batch[next]}
  /\ call' = [call EXCEPT ![batch[next]] = "started"]
  /\ UNCHANGED <<messages, isStreaming, streamingMessage, queues, activeRun,
                 context, announce, opened, skipPoll, batch, next,
                 terminating, scopeFailed, owed, input, cut, toolTurns>>

(* prepareToolCall: an unknown tool, invalid arguments, or a hook that     *)
(* blocks or throws settles the call at once, with an error result.        *)
PrepareToolCall ==
  /\ pc = "prepare"
  /\ \/ /\ call' = [call EXCEPT ![batch[next]] = "settled"]
        /\ pc' = "tool_end" /\ UNCHANGED next
     \/ /\ call' = [call EXCEPT ![batch[next]] = "running"]
        /\ IF Sequential THEN pc' = "execute" /\ UNCHANGED next
                         ELSE pc' = "tools" /\ next' = next + 1
  /\ UNCHANGED <<state, queues, activeRun, context, announce, opened,
                 skipPoll, batch, terminating, scopeFailed, owed, input, cut,
                 toolTurns>>

(* The tool and the afterToolCall hook are done; the result may ask the    *)
(* batch to terminate. The coroutine of a parallel call emits the end      *)
(* itself, and a listener that throws there fails the whole scope.         *)
ToolReturns(c) ==
  /\ call[c] = "running"
  /\ \E t \in {{}, {c}} : terminating' = terminating \cup t
  /\ IF Sequential
     THEN /\ call' = [call EXCEPT ![c] = "settled"]
          /\ pc' = "tool_end"
          /\ UNCHANGED <<pendingToolCalls, scopeFailed>>
     ELSE /\ call' = [call EXCEPT ![c] = "ended"]
          /\ NotPending(c)
          /\ \E fails \in {FALSE, Failures} :
               scopeFailed' = (scopeFailed \/ fails)
          /\ UNCHANGED pc
  /\ UNCHANGED <<messages, isStreaming, streamingMessage, queues, activeRun,
                 context, announce, opened, skipPoll, batch, next, owed,
                 input, cut, toolTurns>>

(* ToolExecutionEnd of a settled call; a sequential batch then announces   *)
(* the result before the next call starts.                                 *)
EmitToolExecutionEnd ==
  /\ pc = "tool_end"
  /\ pc' = "tools" /\ next' = next + 1
  /\ NotPending(batch[next])
  /\ call' = [call EXCEPT ![batch[next]] = "ended"]
  /\ announce' = IF Sequential THEN <<ToolResultMsg(batch[next])>> ELSE <<>>
  /\ UNCHANGED <<messages, isStreaming, streamingMessage, queues, activeRun,
                 context, opened, skipPoll, batch, terminating, scopeFailed,
                 owed, input, cut, toolTurns>>

(* Mutant: the failure of a tool coroutine is not rethrown by await. *)
AwaitedUnlessFailed == ~scopeFailed /\ pc' = "results" /\ announce' = ResultsOf(batch)

(* The results, in the order of the assistant message, or the failure. *)
Awaited ==
  IF scopeFailed
  THEN pc' = "failing" /\ UNCHANGED announce
  ELSE pc' = "results" /\ announce' = ResultsOf(batch)

(* A parallel batch awaits its calls before it announces any result. *)
AwaitToolCalls ==
  /\ pc = "tools" /\ ~Sequential /\ next > Len(batch) /\ Running = {}
  /\ Awaited
  /\ UNCHANGED <<state, queues, activeRun, context, opened, skipPoll, tools,
                 owed, input, cut, toolTurns>>

EndBatch ==
  /\ announce = <<>>
  /\ \/ pc = "results"
     \/ pc = "tools" /\ Sequential /\ next > Len(batch)
  /\ context' = context \o ResultsOf(batch)
  /\ pc' = IF ToSet(batch) \subseteq terminating THEN "last_turn_end"
                                                 ELSE "turn_end"
  /\ UNCHANGED <<state, queues, activeRun, announce, opened, skipPoll, tools,
                 owed, input, cut, toolTurns>>

-----------------------------------------------------------------------------
(* The end of a run. *)

(* AgentEnd is emitted by the loop, or by handleRunFailure ("fail_end").   *)
(* A listener of the former that throws sends the run through the failure  *)
(* path; one of the latter only makes the call of prompt() throw.          *)
EmitAgentEnd ==
  /\ pc \in {"agent_end", "fail_end"}
  /\ streamingMessage' = "none"
  /\ \/ pc' = "finish"
     \/ Failures /\ pc = "agent_end" /\ pc' = "failing"
  /\ UNCHANGED <<messages, isStreaming, pendingToolCalls, queues, activeRun,
                 context, announce, opened, skipPoll, tools, owed, input, cut,
                 toolTurns>>

(* Where a throw leaves the loop: a listener, a hook, the provider. *)
Throws == {"agent_start", "first_turn", "prompts", "turn_start", "request",
           "called", "stream", "answer", "tools", "prepare", "results",
           "turn_end", "last_turn_end"}

Throw ==
  /\ Failures /\ pc \in Throws
  /\ pc' = "failing" /\ announce' = <<>> /\ opened' = FALSE
  /\ UNCHANGED <<state, queues, activeRun, context, skipPoll, tools, owed,
                 input, cut, toolTurns>>

(* Mutant: the failure is handled while tools still run. *)
HandleRunFailureAtOnce ==
  /\ pc = "failing"
  /\ pc' = "fail_end"
  /\ messages' = Append(messages, AssistantMsg("error", <<>>))
  /\ owed' = <<>>
  /\ UNCHANGED <<isStreaming, streamingMessage, pendingToolCalls, queues,
                 activeRun, context, announce, opened, skipPoll, tools, input,
                 cut, toolTurns>>

(* coroutineScope rethrows only once every tool coroutine has ended. *)
HandleRunFailure ==
  /\ pc = "failing" /\ Running = {}
  /\ pc' = "fail_end"
  /\ messages' = Append(messages,
                   AssistantMsg(IF activeRun = "aborted" THEN "aborted" ELSE "error", <<>>))
  /\ owed' = <<>>
  /\ UNCHANGED <<isStreaming, streamingMessage, pendingToolCalls, queues,
                 activeRun, context, announce, opened, skipPoll, tools, input,
                 cut, toolTurns>>

(* finishRun; the locals of the loop are gone with its coroutine. *)
FinishRun ==
  /\ pc = "finish"
  /\ pc' = "idle" /\ activeRun' = "none"
  /\ isStreaming' = FALSE /\ streamingMessage' = "none"
  /\ pendingToolCalls' = {}
  /\ context' = <<>> /\ skipPoll' = FALSE
  /\ batch' = <<>> /\ next' = 1
  /\ call' = [c \in Calls |-> IF c \in Running THEN "running" ELSE "waiting"]
  /\ terminating' = {} /\ scopeFailed' = FALSE
  /\ UNCHANGED <<messages, queues, announce, opened, owed, input, cut,
                 toolTurns>>

-----------------------------------------------------------------------------
Answer == \E s \in Conv!Stops, cs \in CallSeqs : FinalMessage(s, cs)

(* The steps the loop's own scheduling takes, its tools and provider       *)
(* included: each returns eventually.                                      *)
LoopStep ==
  \/ EmitAgentStart \/ EmitTurnStart \/ EmitMessageStart \/ EmitMessageEnd
  \/ PollInitial \/ EmitTurnEnd \/ PollAfterTurn
  \/ Request \/ StreamStart \/ Answer \/ TakeAnswer
  \/ EmitToolExecutionStart \/ PrepareToolCall \/ EmitToolExecutionEnd
  \/ AwaitToolCalls \/ EndBatch
  \/ EmitAgentEnd \/ HandleRunFailure \/ FinishRun

CallerStep ==
  \/ \E m \in Msgs : Steer(m) \/ FollowUp(m) \/ Prompt(m)
  \/ Continue \/ ClearSteeringQueue \/ ClearFollowUpQueue \/ Abort \/ Reset

Next ==
  \/ CallerStep
  \/ LoopStep
  \/ \E c \in Calls : ToolReturns(c)
  \/ Throw

Spec == Init /\ [][Next]_vars

(* A coroutine that can run is dispatched, a tool or a provider call       *)
(* returns. Callers and failures are not obliged to act.                   *)
Fairness ==
  /\ WF_vars(LoopStep)
  /\ \A c \in Calls : WF_vars(ToolReturns(c))

FairSpec == Spec /\ Fairness

-----------------------------------------------------------------------------
(* Properties *)

(* Types. `next` may pass the batch by one; `partial` marks the message     *)
(* the provider is still streaming.                                        *)
TypeOK ==
  /\ messages \in Seq(Conv!Entries)
  /\ isStreaming \in BOOLEAN
  /\ streamingMessage \in {"none", "user", "assistant", "toolResult"}
  /\ pendingToolCalls \subseteq Calls
  /\ steeringQueue \in Seq(Msgs) /\ followUpQueue \in Seq(Msgs)
  /\ activeRun \in {"none", "running", "aborted"}
  /\ pc \in PCs
  /\ context \in Seq(Conv!Entries \cup {AssistantMsg("partial", <<>>)})
  /\ announce \in Seq(Conv!Entries)
  /\ opened \in BOOLEAN /\ skipPoll \in BOOLEAN
  /\ batch \in CallSeqs /\ next \in 1..(Len(batch) + 1)
  /\ call \in [Calls -> CallStates]
  /\ terminating \subseteq Calls /\ scopeFailed \in BOOLEAN
  /\ owed \in Seq(Calls)
  /\ kind \in [Msgs -> {"fresh", "prompt", "steering", "followUp"}]
  /\ discarded \subseteq Msgs
  /\ cut \in BOOLEAN /\ toolTurns \in 0..ToolTurns

(* An idle agent is clean: no tool coroutine outlives its run (the error   *)
(* "Agent listener invoked outside active run" of processEvents is never   *)
(* raised), nothing is streaming or pending, every tool call of the        *)
(* transcript was answered or released by a failure message.               *)
IdleIsClean ==
  /\ activeRun = "none" <=> pc = "idle"
  /\ activeRun = "none" =>
       /\ \A c \in Calls : call[c] # "running"
       /\ announce = <<>> /\ owed = <<>>
       /\ ~isStreaming /\ streamingMessage = "none" /\ pendingToolCalls = {}

(* What the loop still owes at each of its points, and what it is about to *)
(* say there: between the answer and the last result of its calls nothing  *)
(* but these results is announced, in source order.                        *)
SpeakingPoints == {"agent_start", "first_turn", "prompts", "turn_start", "request"}
QuietPoints    == {"idle", "called", "refused", "stream", "turn_end", "poll",
                   "last_turn_end", "agent_end", "finish", "fail_end"}
BatchPoints    == {"tools", "prepare", "execute", "tool_end"}

(* The calls of the batch from position i on. *)
BatchFrom(i) == SubSeq(batch, i, Len(batch))

OwedFollowsControl ==
  /\ pc \in SpeakingPoints => owed = <<>> /\ announce \in Seq(Conv!UserMsgs)
  /\ pc \in QuietPoints => owed = <<>> /\ announce = <<>>
  /\ pc = "failing" => announce = <<>>
  /\ pc \in {"answer", "stream"} => context # <<>>
  /\ pc = "answer" =>
       /\ next = 1
       /\ Last(context) \in Conv!AssistantMsgs /\ Last(context).calls = batch
       /\ \/ announce = <<Last(context)>> /\ owed = <<>>
          \/ announce = <<>> /\ owed = Conv!Obliges(Last(context).stop, batch)
  /\ pc \in BatchPoints =>
       \/ announce = <<>> /\ owed = IF Sequential THEN BatchFrom(next) ELSE batch
       \/ /\ pc = "tools" /\ Sequential /\ next > 1
          /\ announce = <<ToolResultMsg(batch[next - 1])>>
          /\ owed = BatchFrom(next - 1)
  /\ pc = "results" => announce = ResultsOf(owed)

(* Where the loop stands while a call is in each of its states: a tool     *)
(* runs alone in a sequential batch, and none outlives coroutineScope.     *)
CallsFollowControl ==
  /\ activeRun = "none" <=> pc = "idle"
  /\ pc \in {"prepare", "execute", "tool_end"} => next <= Len(batch)
  /\ pc = "prepare" => call[batch[next]] = "started"
  /\ \A c \in Calls :
       /\ call[c] = "started" => /\ pc \in {"prepare", "failing", "fail_end", "finish"}
                                 /\ pc = "prepare" => c = batch[next]
       /\ call[c] = "settled" => pc = "tool_end" /\ c = batch[next]
       /\ call[c] = "running" => /\ pc \in BatchPoints \cup {"failing"}
                                 /\ Sequential <=> pc = "execute"
                                 /\ Sequential => c = batch[next]
  /\ pc = "idle" => /\ \A c \in Calls : call[c] = "waiting"
                    /\ ~isStreaming /\ streamingMessage = "none"
                    /\ pendingToolCalls = {}

(* pendingToolCalls holds exactly the calls between their start event and  *)
(* their end event, with two coroutines updating it, until the run fails   *)
(* or a caller resets it.                                                  *)
PendingToolCallsExact ==
  (activeRun # "none" /\ ~cut) =>
     pendingToolCalls = {c \in Calls : call[c] \in {"started", "running", "settled"}}

(* The model is called with the transcript the caller sees: the copy the   *)
(* loop extends and the one processEvents extends agree at every request;  *)
(* after a reset() the transcript is the part of the copy said since.      *)
RequestSeesTranscript ==
  (pc = "request" /\ announce = <<>>) =>
     IF cut THEN IsSuffix(messages, context) ELSE messages = context

Times(x, s) == Cardinality({i \in DOMAIN s : s[i] = x})

Occurrences(m) == Times(m, steeringQueue) + Times(m, followUpQueue)
                    + Times(UserMsg(m), announce) + Times(UserMsg(m), messages)

(* A message handed to the agent is delivered at most once, through queue  *)
(* drains, continue() and one-at-a-time polling.                           *)
DeliveredAtMostOnce == \A m \in Msgs : Occurrences(m) <= 1

(* Without a failure no accepted message disappears: it waits in a queue,  *)
(* is being announced, or is in the transcript, unless a caller cleared it.*)
NothingLost ==
  \A m \in Msgs :
     (kind[m] # "fresh" /\ m \notin discarded) => Occurrences(m) = 1

(* In a batch that holds a sequential tool, no call starts before every     *)
(* earlier one has ended and its result is in the transcript.              *)
SequentialBatchIsSerial ==
  (activeRun # "none" /\ ToSet(batch) \cap Serial # {}) =>
     \A i, k \in DOMAIN batch :
        (i < k /\ call[batch[k]] # "waiting") =>
           call[batch[i]] = "ended" /\ batch[i] \notin ToSet(owed)

(* Messages of one queue are delivered in the order they were queued.      *)
QueuesAreFIFO ==
  \A i, j \in DOMAIN messages :
     ( /\ i < j
       /\ messages[i].role = "user" /\ messages[j].role = "user"
       /\ kind[messages[i].id] = kind[messages[j].id]
       /\ kind[messages[i].id] # "prompt" )
     => messages[i].id < messages[j].id

(* Every message handed to the agent is delivered, once and in order. *)
MessagesAreDelivered == NothingLost /\ QueuesAreFIFO

(* Tool results answer in source order, whichever order tools end in: see  *)
(* Conversation.                                                           *)
ToolResultsInOrder == Conv!ToolResultsInOrder

(* What the loop has left to answer is what the transcript leaves           *)
(* unanswered: a run that fails or is aborted releases the rest of a batch.*)
OwedIsRemainder == Conv!OwedIsRemainder

(* A run takes a follow-up only when it would otherwise stop: steering is  *)
(* drained, every call answered, and the last answer asked for no tools.   *)
FollowUpsComeLast ==
  [][ (activeRun # "none" /\ Len(followUpQueue') < Len(followUpQueue)
         /\ discarded' = discarded)
      => /\ steeringQueue = <<>> /\ owed = <<>>
         /\ Last(context) \in [role : {"assistant"}, stop : {"done"}, calls : {<<>>}]
    ]_vars

(* The agent implements the conversation it promises. *)
ConversationSpec == Conv!Spec

(* Every run ends and the agent becomes idle, whatever its callers do.     *)
RunsEnd == (activeRun # "none") ~> (activeRun = "none")
=============================================================================
