---------------------------- MODULE AgentSession ----------------------------
(***************************************************************************)
(* pi.coding.agent.core.AgentSession: prompts, steering, custom messages   *)
(* and compactions around one agent, the entries of its session, and the   *)
(* list of messages the agent will show the model next time. Both are      *)
(* maintained by hand, message by message, and the list is replaced by the *)
(* session's context after a compaction.                                   *)
(*                                                                         *)
(* A step is what happens between two suspensions. The agent's run is      *)
(* reduced to what the session hears of it: messages said, the answer, the *)
(* end. A message in agent.state.messages is known by the place of its     *)
(* entry; 0 is the message of a failed run, which has none. The texts of   *)
(* messages differ. The model's window shows in what it answers: "full" is *)
(* an answer above the threshold, "huge" one above the window, "overflow"  *)
(* an error that says so.                                                  *)
(***************************************************************************)
EXTENDS Naturals, FiniteSets, SequencesExt

CONSTANTS
  Callers,      (* coroutines that call the session                        *)
  Run,          (* the agent's run, which compacts too when it ends        *)
  NoOne,
  MaxMessages,  (* bound: messages users and extensions send               *)
  MaxEntries,   (* bound: entries of the session                           *)
  Answers,      (* kinds of answers that occur                             *)
  Faults        (* "ioerror": appending to the file may fail               *)

Good   == {"answer", "full", "huge", "aborted"}
Errors == {"error", "overflow"}

ASSUME AgentSessionAssumption ==
  /\ IsFiniteSet(Callers)
  /\ Run \notin Callers /\ NoOne \notin Callers \cup {Run}
  /\ MaxMessages \in Nat
  /\ MaxEntries \in Nat /\ MaxEntries >= 2   \* a resumed session has two
  /\ Answers \subseteq Good \cup Errors
  /\ Faults \subseteq {"ioerror"}

VARIABLES
  entries,       (* of the session, root to leaf                           *)
  messages,      (* agent.state.messages                                   *)
  run,           (* stage, prompts left to say, first poll due             *)
  steering, followUp,      (* the agent's queues                           *)
  shown,         (* steeringMessages and followUpMessages                  *)
  pendingNextTurnMessages,
  overflowRecoveryAttempted,
  compacting,    (* of each owner: the compaction that waits for the model *)
  controller,    (* compactionAbortController: whose compaction it aborts  *)
  asked,         (* of each caller: the message of its prompt()            *)
  scheduled,     (* continues on their way                                 *)
  sent,          (* messages sent                                          *)
  dropped,       (* history: messages of rejected prompts, failed runs and
                    cleared queues                                         *)
  unseen,        (* history: the agent was not told of the last compaction *)
  overlapped     (* history: two compactions waited at the same time       *)

queues  == <<steering, followUp, shown>>
vars    == <<entries, messages, run, queues, pendingNextTurnMessages,
             overflowRecoveryAttempted, compacting, controller, asked, scheduled,
             sent, dropped, unseen, overlapped>>

Owners == Callers \cup {Run}

Entry(kind, of) == [kind |-> kind, of |-> of]
User(n)         == Entry("user", n)
Custom(n)       == Entry("custom", n)

Compactions   == {"threshold", "overflowed", "manual"}
NotCompacting == [kind |-> "none", kept |-> 0, aborted |-> FALSE]
Idle          == [stage |-> "idle", toSay |-> <<>>, poll |-> FALSE]

isStreaming  == run.stage # "idle"

(* The numbers of S, from the smallest. *)
AtRank(S, i) == {m \in S : Cardinality({k \in S : k < m}) = i - 1}
InOrder(S)   == [i \in 1..Cardinality(S) |-> CHOOSE n \in AtRank(S, i) : TRUE]

SpokenIn(es, from, to) ==
  InOrder({i \in DOMAIN es : i \in from..to /\ es[i].kind \notin Compactions})

LastCompaction(es) ==
  LET places == {i \in DOMAIN es : es[i].kind \in Compactions}
  IN  IF places = {} THEN 0 ELSE CHOOSE i \in places : \A j \in places : j <= i

(* buildSessionContext *)
Context(es) ==
  LET c == LastCompaction(es)
  IN  IF c = 0 THEN SpokenIn(es, 1, Len(es))
               ELSE <<c>> \o SpokenIn(es, es[c].of, c - 1) \o SpokenIn(es, c + 1, Len(es))

(* The kind of a message; that of a failed run is an error. *)
KindOf(m) == IF m = 0 THEN "error" ELSE entries[m].kind

IsAssistant(m) == KindOf(m) \in Good \cup Errors

WithoutErrors(ms) ==
  LET places == InOrder({i \in DOMAIN ms : KindOf(ms[i]) \notin Errors})
  IN  [i \in DOMAIN places |-> ms[places[i]]]

MessagesOf(ms) == {ms[i].of : i \in DOMAIN ms}

-----------------------------------------------------------------------------
(* checkCompaction                                                         *)

(* The last message of `kinds`, or 0. *)
LastOf(kinds) ==
  LET places == {i \in DOMAIN messages : KindOf(messages[i]) \in kinds}
  IN  IF places = {} THEN 0 ELSE messages[CHOOSE i \in places : \A j \in places : j <= i]

(* From before the last compaction. *)
Stale(m) == m # 0 /\ m <= LastCompaction(entries)

(* The message whose usage tells how full the context is. An error has     *)
(* none: the last answer that has one speaks for it. *)
Weighed(m) == IF KindOf(m) = "error" THEN LastOf(Good \ {"aborted"}) ELSE m

Recovers(m) ==
  /\ ~Stale(m)
  /\ KindOf(m) \in {"overflow", "huge"}
  /\ ~overflowRecoveryAttempted

Exceeds(m) ==
  /\ ~Stale(m)
  /\ KindOf(m) \notin {"overflow", "huge"}
  /\ Weighed(m) # 0 /\ ~Stale(Weighed(m)) /\ KindOf(Weighed(m)) \in {"full", "huge"}

-----------------------------------------------------------------------------
(* Compactions: compact() and runAutoCompaction                            *)

(* prepareCompaction finds something. With a budget of no tokens it keeps  *)
(* the last entry; which ones it keeps is the matter of module Compaction. *)
CanPrepare == entries # <<>> /\ Last(entries).kind \notin Compactions

Kept == Len(entries)

BeginCompaction(o, kind) ==
  /\ CanPrepare
  /\ compacting' = [compacting EXCEPT ![o] = [kind |-> kind, kept |-> Kept, aborted |-> FALSE]]
  /\ controller' = o
  /\ overlapped' = (overlapped \/ \E p \in Owners : compacting[p].kind # "none")

(* Mutant: the error stays at the end of the context. *)
WithTrailingError(es, ms) == ms

(* removeTrailingAssistantErrorFromActiveContext *)
WithoutTrailingError(es, ms) ==
  IF ms # <<>> /\ (Last(ms) = 0 \/ es[Last(ms)].kind \in Errors) THEN Front(ms) ELSE ms

(* checkCompaction when it starts a compaction for o. *)
StartAutoCompaction(o, m) ==
  \/ /\ Recovers(m)
     /\ overflowRecoveryAttempted' = TRUE
     /\ messages' = WithoutTrailingError(entries, messages)
     /\ BeginCompaction(o, "overflowed")
  \/ /\ Exceeds(m)
     /\ BeginCompaction(o, "threshold")
     /\ UNCHANGED <<messages, overflowRecoveryAttempted>>

(* checkCompaction when it does not: nothing to do, or nothing to prepare. *)
SkipAutoCompaction(m) ==
  \/ /\ ~Recovers(m) /\ ~Exceeds(m)
     /\ UNCHANGED <<messages, overflowRecoveryAttempted, controller>>
  \/ /\ Exceeds(m) /\ ~CanPrepare
     /\ controller' = NoOne
     /\ UNCHANGED <<messages, overflowRecoveryAttempted>>
  \/ /\ Recovers(m) /\ ~CanPrepare
     /\ overflowRecoveryAttempted' = TRUE
     /\ messages' = WithoutTrailingError(entries, messages)
     /\ controller' = NoOne

(* An automatic compaction looks for an abort when the summary is there,   *)
(* compact() does not; the summary of an aborted request is what the model *)
(* had said by then. *)
Applied(o) ==
  ~ /\ compacting[o].kind # "manual"
    /\ controller # NoOne
    /\ compacting[controller].aborted

(* Mutant: the agent is not told of the compaction. *)
AppendUnseen(o) ==
  /\ Applied(o)
  /\ Len(entries) < MaxEntries
  /\ entries' = Append(entries, Entry(compacting[o].kind, compacting[o].kept))
  /\ unseen' = FALSE
  /\ UNCHANGED <<messages, scheduled>>

AppendCompaction(o) ==
  LET c  == compacting[o]
      es == Append(entries, Entry(c.kind, c.kept))
  IN  /\ Applied(o)
      /\ Len(entries) < MaxEntries
      /\ entries' = es
      /\ messages' = IF c.kind = "overflowed" THEN WithoutTrailingError(es, Context(es))
                                              ELSE Context(es)
      /\ scheduled' = IF \/ c.kind = "overflowed"
                         \/ c.kind = "threshold" /\ (steering # <<>> \/ followUp # <<>>)
                      THEN scheduled + 1 ELSE scheduled
      /\ unseen' = FALSE

(* The compaction is the session's leaf when its append to the file fails: *)
(* the agent keeps the messages it had, and nothing is scheduled. *)
AppendFails(o) ==
  /\ "ioerror" \in Faults
  /\ Applied(o)
  /\ Len(entries) < MaxEntries
  /\ entries' = Append(entries, Entry(compacting[o].kind, compacting[o].kept))
  /\ unseen' = TRUE
  /\ UNCHANGED <<messages, scheduled>>

(* The model fails, or the compaction is aborted in time. *)
LeaveCompaction(o) == UNCHANGED <<entries, messages, scheduled, unseen>>

(* Mutant: the controller outlives its compaction. *)
KeepController(o) ==
  /\ compacting[o].kind # "none"
  /\ AppendCompaction(o) \/ AppendFails(o) \/ LeaveCompaction(o)
  /\ compacting' = [compacting EXCEPT ![o] = NotCompacting]
  /\ UNCHANGED controller

EndCompaction(o) ==
  /\ compacting[o].kind # "none"
  /\ AppendCompaction(o) \/ AppendFails(o) \/ LeaveCompaction(o)
  /\ compacting' = [compacting EXCEPT ![o] = NotCompacting]
  /\ controller' = NoOne

Compact(c) ==
  /\ compacting[c].kind = "none"
  /\ BeginCompaction(c, "manual")
  /\ UNCHANGED <<entries, messages, run, queues, pendingNextTurnMessages,
                 overflowRecoveryAttempted, asked, scheduled, unseen, sent, dropped>>

EndCompact(c) ==
  /\ compacting[c].kind = "manual"
  /\ EndCompaction(c)
  /\ UNCHANGED <<run, queues, pendingNextTurnMessages, overflowRecoveryAttempted,
                 asked, sent, dropped, overlapped>>

AbortCompaction ==
  /\ controller # NoOne /\ ~compacting[controller].aborted
  /\ compacting' = [compacting EXCEPT ![controller].aborted = TRUE]
  /\ UNCHANGED <<entries, messages, run, queues, pendingNextTurnMessages,
                 overflowRecoveryAttempted, controller, asked, scheduled, unseen, sent,
                 dropped, overlapped>>

-----------------------------------------------------------------------------
(* The agent's run                                                         *)

(* agent.prompt and agent.continue. *)
Begin(toSay, poll) ==
  run' = [stage |-> IF toSay = <<>> THEN "polling" ELSE "saying",
          toSay |-> toSay, poll |-> poll]

(* Message m and what handleAgentEvent makes of it. A user message is no   *)
(* longer shown as queued. *)
Hear(e) ==
  /\ Len(entries) < MaxEntries
  /\ entries' = Append(entries, e)
  /\ shown' = IF e.kind = "user" THEN shown \ {e.of} ELSE shown

Persisted(e) ==
  /\ messages' = Append(messages, Len(entries) + 1)
  /\ overflowRecoveryAttempted' =
       (overflowRecoveryAttempted /\ e.kind # "user" /\ e.kind \notin Good)

(* Appending to the file failed: the run ends with a message of its own,   *)
(* and what it had to say is lost. *)
Fails(e) ==
  /\ "ioerror" \in Faults
  /\ overflowRecoveryAttempted' = (overflowRecoveryAttempted /\ e.kind # "user")
  /\ messages' = messages \o <<Len(entries) + 1, 0>>
  /\ run' = [run EXCEPT !.stage = "ending", !.toSay = <<>>]

Say ==
  /\ run.stage = "saying"
  /\ Hear(Head(run.toSay))
  /\ \/ /\ Persisted(Head(run.toSay))
        /\ run' = [run EXCEPT !.toSay = Tail(@), !.stage =
             IF Len(run.toSay) > 1 THEN "saying" ELSE IF run.poll THEN "polling" ELSE "asking"]
        /\ UNCHANGED dropped
     \/ /\ Fails(Head(run.toSay))
        /\ dropped' = dropped \cup MessagesOf(Tail(run.toSay))
  /\ UNCHANGED <<steering, followUp, pendingNextTurnMessages, compacting, controller,
                 asked, scheduled, unseen, sent, overlapped>>

(* The first poll of a run, before it asks the model. *)
PollFirst ==
  /\ run.stage = "polling"
  /\ IF steering = <<>>
     THEN run' = [run EXCEPT !.stage = "asking", !.poll = FALSE] /\ UNCHANGED steering
     ELSE /\ run' = [stage |-> "saying", toSay |-> <<Head(steering)>>, poll |-> FALSE]
          /\ steering' = Tail(steering)
  /\ UNCHANGED <<entries, messages, followUp, shown, pendingNextTurnMessages,
                 overflowRecoveryAttempted, compacting, controller, asked, scheduled, unseen,
                 sent, dropped, overlapped>>

(* After an answer the run goes on with a queued message, if there is one. *)
PollAfter(e) ==
  CASE e.kind \in Errors \cup {"aborted"} ->
         run' = [Idle EXCEPT !.stage = "ending"] /\ UNCHANGED <<steering, followUp>>
    [] e.kind \notin Errors \cup {"aborted"} /\ steering # <<>> ->
         /\ run' = [stage |-> "saying", toSay |-> <<Head(steering)>>, poll |-> FALSE]
         /\ steering' = Tail(steering)
         /\ UNCHANGED followUp
    [] e.kind \notin Errors \cup {"aborted"} /\ steering = <<>> /\ followUp # <<>> ->
         /\ run' = [stage |-> "saying", toSay |-> <<Head(followUp)>>, poll |-> FALSE]
         /\ followUp' = Tail(followUp)
         /\ UNCHANGED steering
    [] e.kind \notin Errors \cup {"aborted"} /\ steering = <<>> /\ followUp = <<>> ->
         run' = [Idle EXCEPT !.stage = "ending"] /\ UNCHANGED <<steering, followUp>>

Answer ==
  /\ run.stage = "asking"
  /\ \E kind \in Answers :
       /\ Hear(Entry(kind, 0))
       /\ \/ Persisted(Entry(kind, 0)) /\ PollAfter(Entry(kind, 0))
          \/ Fails(Entry(kind, 0)) /\ UNCHANGED <<steering, followUp>>
  /\ UNCHANGED <<pendingNextTurnMessages, compacting, controller, asked, scheduled, unseen,
                 sent, dropped, overlapped>>

(* AgentEnd: the run is over when the check, and the compaction it may ask *)
(* for, are. *)
End ==
  LET m == LastOf(Good \cup Errors)
  IN  /\ run.stage = "ending"
      /\ IF KindOf(m) = "aborted"
         THEN /\ run' = Idle
              /\ UNCHANGED <<messages, overflowRecoveryAttempted, compacting, controller,
                            overlapped>>
         ELSE \/ /\ StartAutoCompaction(Run, m)
                 /\ run' = [Idle EXCEPT !.stage = "compacting"]
              \/ /\ SkipAutoCompaction(m)
                 /\ run' = Idle
                 /\ UNCHANGED <<compacting, overlapped>>
      /\ UNCHANGED <<entries, queues, pendingNextTurnMessages, asked, scheduled, unseen, sent,
                     dropped>>

EndOfRun ==
  /\ run.stage = "compacting"
  /\ EndCompaction(Run)
  /\ run' = Idle
  /\ UNCHANGED <<queues, pendingNextTurnMessages, overflowRecoveryAttempted, asked,
                 sent, dropped, overlapped>>

(* The continue that was scheduled: it is rejected during a run, and when  *)
(* the last message is an answer and nothing is queued. *)
Continue ==
  /\ scheduled > 0
  /\ scheduled' = scheduled - 1
  /\ CASE isStreaming \/ messages = <<>> -> UNCHANGED <<run, steering, followUp>>
       [] ~isStreaming /\ messages # <<>> /\ ~IsAssistant(Last(messages)) ->
            Begin(<<>>, TRUE) /\ UNCHANGED <<steering, followUp>>
       [] ~isStreaming /\ messages # <<>> /\ IsAssistant(Last(messages)) ->
            IF steering # <<>>
            THEN Begin(<<Head(steering)>>, FALSE) /\ steering' = Tail(steering) /\ UNCHANGED followUp
            ELSE IF followUp # <<>>
            THEN Begin(<<Head(followUp)>>, TRUE) /\ followUp' = Tail(followUp) /\ UNCHANGED steering
            ELSE UNCHANGED <<run, steering, followUp>>
  /\ UNCHANGED <<entries, messages, shown, pendingNextTurnMessages,
                 overflowRecoveryAttempted, compacting, controller, asked, sent, dropped,
                 unseen, overlapped>>

-----------------------------------------------------------------------------
(* prompt, steer, followUp, sendCustomMessage, clearQueue                  *)

Send == sent < MaxMessages /\ sent' = sent + 1

(* Mutant: what waited for the turn waits for the next one too. *)
PromptAndKeep(n) ==
  /\ UNCHANGED pendingNextTurnMessages
  /\ IF isStreaming
     THEN dropped' = dropped \cup {n} /\ UNCHANGED run
     ELSE Begin(<<User(n)>> \o pendingNextTurnMessages, TRUE) /\ UNCHANGED dropped

(* The end of prompt(): what waits for the next turn goes with it. *)
PromptAgent(n) ==
  /\ pendingNextTurnMessages' = <<>>
  /\ IF isStreaming
     THEN /\ dropped' = dropped \cup {n} \cup MessagesOf(pendingNextTurnMessages)
          /\ UNCHANGED run
     ELSE /\ Begin(<<User(n)>> \o pendingNextTurnMessages, TRUE)
          /\ UNCHANGED dropped

(* prompt() of an idle session first looks at the last answer. *)
Prompt(c) ==
  LET m    == LastOf(Good \cup Errors)
      none == \A i \in DOMAIN messages : ~IsAssistant(messages[i])
  IN  /\ ~isStreaming /\ asked[c] = 0 /\ compacting[c].kind = "none"
      /\ Send
      /\ \/ /\ none \/ SkipAutoCompaction(m)
            /\ none => UNCHANGED <<messages, overflowRecoveryAttempted, controller>>
            /\ PromptAgent(sent + 1)
            /\ UNCHANGED <<compacting, asked, overlapped>>
         \/ /\ ~none /\ StartAutoCompaction(c, m)
            /\ asked' = [asked EXCEPT ![c] = sent + 1]
            /\ UNCHANGED <<run, pendingNextTurnMessages, dropped>>
      /\ UNCHANGED <<entries, queues, scheduled, unseen>>

(* ... and goes on when the compaction it started is over. *)
PromptAfterCompaction(c) ==
  /\ asked[c] # 0
  /\ EndCompaction(c)
  /\ asked' = [asked EXCEPT ![c] = 0]
  /\ PromptAgent(asked[c])
  /\ UNCHANGED <<queues, overflowRecoveryAttempted, sent, overlapped>>

(* steer and followUp, of an idle session too. *)
Queue ==
  /\ Send
  /\ \/ steering' = Append(steering, User(sent + 1)) /\ UNCHANGED followUp
     \/ followUp' = Append(followUp, User(sent + 1)) /\ UNCHANGED steering
  /\ shown' = shown \cup {sent + 1}
  /\ UNCHANGED <<entries, messages, run, pendingNextTurnMessages,
                 overflowRecoveryAttempted, compacting, controller, asked, scheduled, unseen,
                 dropped, overlapped>>

(* sendCustomMessage: at once when nothing runs, else with the next turn.  *)
(* A failing append comes after both lists have the message. *)
SendCustomMessage ==
  /\ Send
  /\ \/ /\ ~isStreaming /\ Len(entries) < MaxEntries
        /\ entries' = Append(entries, Custom(sent + 1))
        /\ messages' = Append(messages, Len(entries) + 1)
        /\ UNCHANGED pendingNextTurnMessages
     \/ /\ isStreaming
        /\ pendingNextTurnMessages' = Append(pendingNextTurnMessages, Custom(sent + 1))
        /\ UNCHANGED <<entries, messages>>
  /\ UNCHANGED <<run, queues, overflowRecoveryAttempted, compacting, controller, asked,
                 scheduled, unseen, dropped, overlapped>>

(* Mutant: only the session's lists are cleared. *)
ClearShown ==
  /\ shown # {} /\ shown' = {}
  /\ UNCHANGED <<entries, messages, run, steering, followUp, pendingNextTurnMessages,
                 overflowRecoveryAttempted, compacting, controller, asked, scheduled, unseen,
                 sent, dropped, overlapped>>

ClearQueue ==
  /\ shown # {} \/ steering # <<>> \/ followUp # <<>>
  /\ steering' = <<>> /\ followUp' = <<>> /\ shown' = {}
  /\ dropped' = dropped \cup MessagesOf(steering) \cup MessagesOf(followUp)
  /\ UNCHANGED <<entries, messages, run, pendingNextTurnMessages,
                 overflowRecoveryAttempted, compacting, controller, asked, scheduled, unseen,
                 sent, overlapped>>

(* A new session, or one resumed after a process that ended while it was   *)
(* about to recover from an overflow. *)
Init ==
  /\ \E resumed \in BOOLEAN :
       /\ entries = IF resumed THEN <<User(0), Entry("overflow", 0)>> ELSE <<>>
       /\ messages = IF resumed THEN <<1, 2>> ELSE <<>>
  /\ sent = 0
  /\ run = Idle
  /\ steering = <<>> /\ followUp = <<>> /\ shown = {}
  /\ pendingNextTurnMessages = <<>>
  /\ overflowRecoveryAttempted = FALSE
  /\ compacting = [o \in Owners |-> NotCompacting]
  /\ controller = NoOne
  /\ asked = [c \in Callers |-> 0]
  /\ scheduled = 0
  /\ dropped = {}
  /\ unseen = FALSE /\ overlapped = FALSE

(* Between its last message and the check at its end a run does not        *)
(* suspend. *)
Next ==
  \/ End
  \/ /\ run.stage # "ending"
     /\ \/ \E c \in Callers :
             Prompt(c) \/ PromptAfterCompaction(c) \/ Compact(c) \/ EndCompact(c)
        \/ Queue \/ SendCustomMessage \/ ClearQueue \/ AbortCompaction
        \/ Say \/ PollFirst \/ Answer \/ EndOfRun \/ Continue

Spec == Init /\ [][Next]_vars

-----------------------------------------------------------------------------
TypeOK ==
  /\ DOMAIN entries = 1..Len(entries) /\ Len(entries) <= MaxEntries
  /\ \A i \in DOMAIN messages : messages[i] \in 0..Len(entries)
  /\ run.stage \in {"idle", "saying", "polling", "asking", "ending", "compacting"}
  /\ (run.stage = "saying") = (run.toSay # <<>>)
  /\ shown \subseteq 1..sent
  /\ overflowRecoveryAttempted \in BOOLEAN
  /\ \A o \in Owners : compacting[o].kept \in 0..Len(entries)
  /\ controller # NoOne => compacting[controller].kind # "none"
  /\ scheduled \in Nat /\ unseen \in BOOLEAN

(* What the agent will show the model next is what the session would give  *)
(* back after a restart, but for the messages of failed requests: whoever  *)
(* compacted, and whatever was said while the summary was written. Only    *)
(* when the file failed under a compaction does the agent keep its longer  *)
(* list, until the next one. *)
ModelSeesSession ==
  ~unseen => WithoutErrors(messages) = WithoutErrors(Context(entries))

Times(n, ms) == Cardinality({i \in DOMAIN ms : ms[i].kind \in {"user", "custom"} /\ ms[i].of = n})

(* A message somebody sent is in exactly one place, queued, about to be    *)
(* said or in the session, or was lost with a rejected prompt, a failed    *)
(* run or a cleared queue: none is said twice, none vanishes. *)
MessagesAreKept ==
  \A n \in 1..sent :
    Times(n, entries) + Times(n, run.toSay) + Times(n, steering) + Times(n, followUp)
      + Times(n, pendingNextTurnMessages) + Cardinality({c \in Callers : asked[c] = n})
      + Cardinality({n} \cap dropped) = 1

(* The user is shown what is queued: everything that is, and nothing that  *)
(* was said or dropped, unless its run failed. *)
QueuesAreShown ==
  LET queued == {e.of : e \in {e \in ToSet(steering) \cup ToSet(followUp) : e.kind = "user"}}
      saying == MessagesOf(run.toSay)
  IN  queued \subseteq shown /\ shown \subseteq queued \cup saying \cup dropped

(* An overflow is answered with one compaction and one retry; the next one *)
(* is for a new message of the user, or for a model that has answered. A   *)
(* request that never fits does not make the session compact for ever. *)
RecoveriesAreBounded ==
  LET number(kinds) == Cardinality({i \in DOMAIN entries : entries[i].kind \in kinds})
  IN  number({"overflowed"}) <= number(Good \cup {"user"})

(* A compaction after an overflow is followed by the retry: as long as     *)
(* nothing came after it, the run is on or the continue is on its way, for *)
(* the error does not end the new context, where the agent would reject    *)
(* the retry (it does after an answer that filled the window by itself).   *)
(* With two compactions at once the retry of one may meet the run that     *)
(* waits for the other, which may fail. No retry follows a compaction the  *)
(* agent was not told of. *)
RetryFollows ==
  LET c == Len(entries)
  IN  /\ ~overlapped /\ ~unseen
      /\ entries # <<>> /\ entries[c].kind = "overflowed"
      /\ KindOf(Last(messages)) \notin Good
      => isStreaming \/ scheduled > 0

(* One retry for each recovery, and never one round after another. *)
RecoveryIsSound == RecoveriesAreBounded /\ RetryFollows

(* abortCompaction() leaves the session as it is, whichever compaction it  *)
(* hits: "Cancel in-progress compaction (manual or auto)" (agent-session.ts *)
(* :1757). *)
AbortedCompactionIsNotApplied ==
  [][\A o \in Owners :
       compacting[o].aborted /\ compacting'[o] = NotCompacting
         => LastCompaction(entries') = LastCompaction(entries)]_vars
=============================================================================
