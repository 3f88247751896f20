# A TLA+ verification of pi-agent-kotlin

The repository ports the `pi-ai`, `pi-agent` and `coding-agent` packages of pi-mono to Kotlin:
an agent that talks to a model in turns, runs the tools the model asks for, streams what
happens to its callers, and keeps its sessions in append-only files. This directory holds
TLA+ models of that code, the TLC configurations that check them on small instances, and
proofs, checked by TLAPS, that the properties hold for every instance.

Paths below are relative to `src/`, with
`A` = `pi-agent-core/src/main/kotlin/pi/agent/core`,
`I` = `pi-ai-core/src/main/kotlin/pi/ai/core`,
`C` = `pi-coding-agent-core/src/main/kotlin/pi/coding/agent/core`.

## 1. The system

| Component | State it keeps | Operations | Talks to |
|---|---|---|---|
| Agent (`A/Agent.kt`) | transcript, streaming flags, pending tool calls, two message queues, the active run, listeners | prompt, continue, steer, followUp, clear queues, abort, reset, subscribe, waitForIdle | runs the agent loop; the loop emits events into `processEvents`, which reduces them into the state and awaits the listeners |
| Agent loop (`A/AgentLoop.kt`) | a copy of the context, the batch of tool calls, locals of the coroutine | `runAgentLoop`, `runAgentLoopContinue`, `agentLoop` (stream form) | provider stream, tools and their hooks, the agent's queues |
| EventStream (`I/EventStream.kt`) | closed flag, channel, deferred result | push, end, asFlow, result | providers and `agentLoop()` write; the loop and callers read |
| AbortSignal (`I/Abort.kt`) | aborted flag, listeners | abort, addListener, throwIfAborted | agent, providers, tools |
| Providers (`I/providers/Anthropic.kt`, `Google.kt`, `OpenAICodexResponses.kt`) | HTTP calls; Codex keeps WebSockets in a cache with idle timers | stream | EventStream, AbortSignal |
| OAuth (`I/providers/OpenAICodexOAuth.kt`) | a login in progress | login by callback or by hand, refresh | AuthStorage |
| Message transformation (`I/providers/TransformMessages.kt`) | none | inserts results for orphaned calls, drops failed answers | providers |
| SessionManager (`C/SessionManager.kt`) | entries, leaf, label cache, `flushed`, the session file | append*, branch, resetLeaf, branchWithSummary, createBranchedSession, newSession, open | the file system; AgentSession |
| Compaction (`C/compaction/*`) | none | cut point, preparation, summary, branch summary | SessionManager, a provider |
| AgentSession (`C/AgentSession.kt`) | queues for the next turn and for display, compaction and retry state | prompt, steer, followUp, compact, auto-compaction, clearQueue, navigateTree, dispose | Agent (as a listener), SessionManager, Compaction |
| AgentSessionRuntime (`C/AgentSessionRuntime.kt`) | the current session | newSession, switchSession, fork, importFromJsonl | SessionManager, AgentSession |
| AuthStorage (`C/AuthStorage.kt`) | credentials in memory and in a locked file | get, set, refresh | other processes on the same file |
| ModelRegistry, settings, resources, codecs, catalogues | configuration | lookups and merges | all |

What is hard, and what makes each part correct:

* **Agent and loop.** Callers act between any two suspension points of a run; tools of one
  batch run as coroutines; any listener, hook, tool or provider may throw; `reset()` is legal
  in the middle of a run. Correct means: the transcript answers every tool call, in the order
  of the calls, with exactly one result, or a failure message releases the rest; queued
  messages are delivered once, in order, and steering before follow-ups; the model sees the
  transcript the caller sees; every run ends and leaves nothing behind.
* **EventStream.** `push` and `end` are several unsynchronised accesses each. Correct means:
  the result is settled once and before the flow ends, the reader gets every accepted event,
  and nobody waits on a closed stream.
* **SessionManager.** The first write is deferred, later ones append a line; the process may
  end at any time and writes may be cut. Correct means: an answered session is on file in full,
  files only grow, a reopened session has the context of the one that ended, labels and branch
  extraction agree with the entries.
* **Compaction and AgentSession.** A summary is prepared, awaited and applied while the session
  may move on; a scheduled retry races new prompts. Correct means: the rebuilt context covers
  exactly what the summary does not, no tool call is cut from its results, no prompt is lost.
* **Providers and AuthStorage.** Aborts race registration, idle timers race acquisition, requests
  overlap on one cached connection, two processes race a token refresh. Correct means: a connection
  has one user and none is left open, a delta stands for the whole conversation, nobody waits for
  what cannot come; a refresh token is spent once and its successor reaches the file.

`PROJECT.json` lists all components with their status, and under `hazards` every place of the
code where one of these can go wrong, with the properties that watch it.

## 2. Modules

| Module | Models | Depends on |
|---|---|---|
| `Conversation` | what a transcript may become: the abstract specification of Agent | |
| `Agent` | `A/Agent.kt` and `A/AgentLoop.kt` | instance of `Conversation` |
| `ResultStream` | what a stream promises its readers: the abstract specification of EventStream | |
| `EventStream` | `I/EventStream.kt` and the producers of `agentLoop()` | instance of `ResultStream` |
| `SessionTree` | entries, paths, contexts and labels: the pure part of `C/SessionManager.kt` | |
| `SessionManager` | `C/SessionManager.kt`, its files, and `fork` of `C/AgentSessionRuntime.kt` | extends `SessionTree` |
| `TransformMessages` | what a provider makes of a context: the pure part of `I/providers/TransformMessages.kt` | |
| `Compaction` | `C/compaction/Compaction.kt` and the context it leaves | extends `TransformMessages` |
| `AgentSession` | `C/AgentSession.kt` around an abstraction of Agent, SessionManager and Compaction | |
| `AuthStorage` | `C/AuthStorage.kt`, its file, its locks, the OAuth server | |
| `OpenAICodexResponses` | `I/providers/OpenAICodexResponses.kt`, `I/Abort.kt`, OkHttp and the server | |
| `MC*` | the small instances TLC checks | |
| `SequenceLemmas` | facts about sequences the proofs share: counting, prefixes, concatenation, induction | |
| `*Proofs` | the theorems about `Agent` (with those about `Conversation`), `EventStream`, `SessionManager`, `Compaction`, `AgentSession`, `AuthStorage`, `OpenAICodexResponses` | `SequenceLemmas` (Agent, SessionManager, Compaction, AgentSession) |

### Agent

One coroutine runs the loop; `pc` is the suspension point it stands at. Each `emit` of the code
is an action (`EmitAgentStart`, `EmitMessageStart`, ...) because `processEvents` reduces the
state and then awaits the listeners; callers act between any two actions. `announce` holds the
messages the loop is about to emit at this point, `opened` says that the first one's
`MessageStart` is out. `context` is the loop's own copy of the messages (`currentContext`),
`messages` the transcript of `AgentState` that `processEvents` extends: that the two agree is a
property, not an assumption. A poll of a queue and the decision it leads to
are one action, since nothing suspends in between (`PollInitial`, `PollAfterTurn`).
`executeToolCalls` is `Sequential`, `EmitToolExecutionStart`, `PrepareToolCall`,
`ToolReturns`, `EmitToolExecutionEnd`, `AwaitToolCalls` and `EndBatch`; the coroutine of a
parallel call emits its own end event, which is part of `ToolReturns`. A throw anywhere leads to
`HandleRunFailure`, which waits for the tool coroutines as `coroutineScope` does.
`owed`, `kind`, `discarded` and `cut` are history variables that properties read and no
guard does. The provider is external: handed an aborted signal it answers "aborted", otherwise
it streams and ends with any stop reason and any of the tool call lists in `CallSeqs`.

`Conversation` has one entry added per step: `Say`, `Answer`, `Respond`, `Fail`, `Forget`; its
`owed` is the calls that still want a result. `Agent` implements it with
`transcript <- messages`.

### EventStream

Each access of `push` and `end` to the atomic flag, the channel and the deferred is an action;
`at[p]` is the access producer `p` makes next and `todo[p]` the operations it has left. `Join` is
`executeToolCallsParallel` awaiting its children. `Throw` is the exception that
`launchIgnoringChildren` discards. `ResultStream` is implemented with
`log <- accepted, outcome <- result, ended <- channelClosed`.

### SessionManager

`fileEntries`, `leafId`, `labelsById`, `flushed` and `sessionFile` are the fields of the class;
`disk` gives for each file whether it starts with a header, the entries a reader gets, and how
its last line ends (`"ended"` by a newline, complete but `"unended"`, or `"torn"`), which is all
that the next append and the next reader tell apart. `Write` is a write that happens, is cut by
the end of the process, or throws; what is left then is `RewriteCut` or `AddCut`.
`Added` appends a line behind whatever the last one is. `Crash` ends the process between two
operations; `alive` is FALSE then and the memory of the dead process is kept for properties to
compare with, until `Open` overwrites it. Every `append*` method is `AppendPlain`,
`AppendLabelChange`, `AppendCompaction` or `BranchWithSummary`, all by way of `AppendEntry` and
`PersistEntry`. `Fork` cuts the branch from the file and reads the new session back from the new
file, as `AgentSessionRuntime.fork` does; `ForkOfDamaged` is its `SessionManager.open` of a file
without header. Ids are numbers never given twice, time stamps and texts are left out.
`Context` is `buildSessionContext`: the ids whose messages the model sees.

### Compaction

The state is the branch of a session, the path to its leaf, and the preparation a compaction waits
with. A run adds entries as the agent does (`Prompt`, `Answer`, `FailedAnswer`, `Result`, `Custom`,
`Note`), and `PrepareCompaction` / `AppendCompaction` stand for the two halves of `compact()` and
`runAutoCompaction` around the request for the summary, between which the branch may grow.
`CutPoints`, `TokensFrom`, `FindCutPoint` and `Prepared` are `findValidCutPoints`, the backward walk
of `findCutPoint`, `findCutPoint` and `prepareCompaction`. A summary is the set of entries it was
made of (`covers`), which is what lets properties ask who was told what. `Context` is what
`buildSessionContext` and `convertToLlm` make of the branch, and `Transform` what
`transformMessages` sends of that.

### AgentSession

A step is what happens between two suspensions. `run` is the agent's run as its listener
`handleAgentEvent` hears of it (`Begin`, `Say`, `PollFirst`, `PollAfter`, `Answer`, `End`,
`Continue`); `messages` is `agent.state.messages`, each known by the place of its entry in the
session, so that the property is about two lists maintained by hand. A compaction of a caller or
of the run is `compacting[o]` while it waits for the model; `controller` is
`compactionAbortController`, of which there is one. `Prompt` and `PromptAfterCompaction` are
`prompt()` before and after the compaction it may start; `steer` and `followUp` (`Queue`) have no
guard, as in the code. `ioerror` lets the append of a message throw (`Fails`) and that of a compaction
(`AppendFails`): the compaction is the session's leaf by then, but the agent is not told of it and
no retry is scheduled, which the history variable `unseen` records until the next compaction.
`EndOfRun` is `checkCompaction` after a run: overflow, threshold, or neither. `scheduled` counts
the continues that `scheduleAgentContinue` launched.

### AuthStorage

`pc[t]` says how far caller `t` is on its way through `withStorageLock` (`"storage"`, `"wait"`, and at
the end `"close"`, or `"unwind"` after an exception) and, inside of it, `loadUnlocked`, the decision and
`persistUnlocked`, which truncates and then writes (`Truncate`, `Write`). `layout` says which callers
share a storage object and which storages share a process.

The lock of the file is two in the model, as it is on a JVM: `lockTable` is what the JVM knows of its
own channels, `fileLock` what the system grants to a process. A second storage of one process
finds the table taken and throws (`OverlappingFileLock`), one of another process waits for the system
(`TakeFileLock`). Whoever leaves closes its channel (`CloseChannel`), and closing any channel of a
file may give up every lock of the process on it: so the documentation of `FileLock` says, and so
POSIX systems do. The model lets each close do either, and records in `dropped` that a lock
somebody still relied on went. `LockExcludes` says when that cannot matter: nothing was dropped, there
is one process, or each process has one storage.

A load that finds no file (`Missing`) or one it cannot parse (`Unreadable`) keeps what the storage has
in memory, as `loadUnlocked` does. The server keeps the refresh tokens it would accept (`live`). A
process that dies (`Crash`) takes its locks and its memory along and leaves what it had written;
`saved`, `blind`, `faulted` and `dropped` are history variables.

### OpenAICodexResponses

`pc[r]` is where request `r` stands in `acquireCodexWebSocket`, `connectCodexWebSocket`,
`processCodexWebSocketStream` or `executeCodexRequestWithRetry`. A connection is named after the
request that opens it; `connection[c]` is the object (open result, closed flag, the request that
reads) with its socket, `entry[c]` its `CachedCodexWebSocket`, `cache` the map. `TimerFires` starts
the idle task and `TimerTask` runs it: cancelling the timer in between has no effect. The signal of
each request is `flag`, `listeners` and the snapshot `calling` of a walk that has begun, so
`Abort`, `SnapshotListeners` and `CallListeners` interleave with `Connect`, `AddListener` and
`RecheckFlag` as `AbortSignal` and its callers do. OkHttp and the server are external: `onOpen`,
`onMessage`, `onClosed`, `onFailure`, and `ServerCloses` for a closing frame of the server, for which
the code has no callback (`"deaf"`). One thread handles the messages of a socket: behind the last event
of an answer, `CompleteRequest` and `CloseEvents` are the two accesses of `complete()`, and whoever reads
the connection at each of them is met by it (`handling` says which comes next). `remembered` is what the server keeps of each response, against
which a delta is compared.

## 3. What the runs check

| Run | Instance | Shows |
|---|---|---|
| `agent_turns` | 3 messages, a batch one tool makes sequential and a parallel one, 2 tool turns | `PendingToolCallsExact`; the model sees the caller's transcript (`RequestSeesTranscript`); no message is lost or overtaken (`MessagesAreDelivered`) or taken early (`FollowUpsComeLast`); `SequentialBatchIsSerial`; `ToolResultsInOrder` |
| `agent_failures` | everything may throw, reset during runs, fair | `IdleIsClean`, `DeliveredAtMostOnce`, the refinement `ConversationSpec`, and `RunsEnd` |
| `stream_race` | either `agentLoop()` with two parallel tools, or two producers that complete the stream, a third that ends it and one that may fail; fair | `ReaderMissesNothing`, `LastEventIsResult`, the refinement `ResultStreamSpec`, `ClosedReleasesReaders` |
| `session_durable` | 4 entries, 2 files, one crash between operations | `AnsweredIsDurable`, `FilesAreAppendOnly`, `ReopenKeepsContext`, `ForkKeepsContext` |
| `session_tree` | label changes and compactions next to branches and forks | `LabelsMatchEntries`, `PlainBranchKeepsContext` |
| `session_faults` | 3 entries, 2 files, one torn write, any number of failing ones | `TypeOK`, `FileTellsNoMore` |
| `auth_storage` | 2 callers on one storage, on two of one process, or in two processes; an OAuth provider and one with keys; one crash, failing writes, lost answers, closes that give up a lock; fair | a token is spent once (`RefreshSpendsLiveToken`), the file keeps the login (`FileKeepsLogin`), `OneProviderPerWrite`, `LockIsReleased` |
| `compaction` | all branches of 6 entries, up to 2 calls an answer, any number of compactions that fit, a branch that grows while the model summarizes | `TypeOK`; everything the context leaves out was summarized, and nothing is told twice (`EachMessageIsTold`); the request is one a provider accepts (`RequestIsWellFormed`) |
| `compaction_summary` | the same with 1 call an answer | ends in a counterexample of `NothingIsForgotten`: finding 1 |
| `agent_session` | 2 callers, 3 messages, 5 entries, answers `full`, `huge` and `overflow`, appends of messages and compactions that fail | `TypeOK`; the model is shown what the session holds, but after a compaction that failed to be written (`ModelSeesSession`); every message is in one place (`MessagesAreKept`); `QueuesAreShown`; overflows are compacted and retried once (`RecoveryIsSound`) |
| `agent_session_abort` | 2 callers, 1 message, 4 entries | ends in a counterexample of `AbortedCompactionIsNotApplied`: finding 2 |
| `codex` | 2 requests of one session, 2 inputs, transport `cached` or `auto`, 1 retry, 2 faults | `TypeOK`; one user per connection and none left open (`ConnectionsAreOwned`); `NobodyClosesUsed`; a wait ends, but for the cases it names, and an abort reaches it (`WaitsEnd`); `DeltaIsFaithful`; `DoneMeansAnswered` |

`PlainBranchKeepsContext` and `ForkKeepsContext` hold as long as no label entry is on the path of a
branch, and as long as the fork is behind an answer; section 6 describes the other cases.

**Bounds.** `Msgs`, `ToolTurns`, `MaxId`, `Files`, `Crashes`, `MaxEntries`, `MaxMessages`, `MaxIssued`
and `MaxFaults` bound the runs; each is a conjunct of a guard or the size of a set the code's
callers choose from.

* Agent: three messages are enough to have one in each queue and one in a prompt, or two in one queue
  and one announced; two calls are enough for every order of two tool coroutines, and two batches
  for the reset of a batch's locals. `agent_turns` polls steering one at a time and follow-ups all at
  once; with the two messages of `agent_failures` (a prompt and one queued message) the modes make no
  difference. The theorems hold for every combination.
* SessionManager: four entries are enough for an unanswered message, an answer, an append to a
  flushed file and one more behind a moved leaf, or for a compaction with kept entries and a branch of
  it; two files for a branch next to its source. One crash separates two processes, and after it
  everything an intact file allows happens again. In `session_durable` "summary" stands for every
  entry that is no answer.
* Compaction: six entries hold a turn that two compactions cut, or a compaction between an answer and
  its results; a budget of two is reached by one answer, by one result or by two prompts.
* AgentSession: three messages are one in the run, one in a queue and one prompted against both; five
  entries hold a message, an answer that overflows, its compaction, the retry and what follows it.
  Plain answers, aborted ones and errors other than an overflow are left out of `agent_session`: a
  full answer whose compaction fails or has nothing to cut leaves the session as a plain one
  does, and a run that cannot write a message leaves a plain error. The theorems hold for every kind of
  answer. Callers are interchangeable (symmetry).
* AuthStorage: two callers race for every step of the other; two credentials are a login and its
  successor, which is enough for a retired one to be found anywhere. Two storages that share a process
  next to a third in another process need three callers, which is beyond the run: where they meet, the
  properties are about the time before a lock was dropped, and that is covered by the theorems, which
  hold for every layout.
* Codex: two requests are one that has a connection and one that wants it, two that insert at once, and
  a second one that continues the first one's conversation or takes it back. Two faults are an abort
  and the failure that races it. Both requests ask for one transport, as the requests of a session
  do (`SettingsManager.getTransport`); the theorems hold for any mix. Requests are interchangeable
  (symmetry).

Deadlock is checked for Agent; a stream whose producers are done, a session whose ids are used up and
a request that ended stop.

**Fairness.** `Agent`: weak fairness of the loop's steps as a whole and of each tool. The loop is
one coroutine, so at most one of its steps is enabled at a time apart from the choices of the
provider, and a coroutine that can run is dispatched; that tools and providers return is what the
code relies on. Callers, listeners that throw and aborts owe nothing. `EventStream`: weak fairness
of every producer and of the consumer; threads are scheduled. `AuthStorage`: weak fairness of each
caller once it was given all locks or leaves; `channel.lock()` waits for another process, which ends
its call or dies, and `LockIsReleased` leaves out a caller that waits there. Nothing else is assumed. That a Codex request does not wait for ever depends on the
network and the server, which owe nothing; `WaitsEnd` and `ConnectionsAreOwned` say instead, as
invariants, that what would end the wait or close the connection is there.

## 4. What is proved

| Theorem | Statement |
|---|---|
| `AgentProofs!ResultsAnswerInOrder` | `Conv!Spec => [](Conv!ToolResultsInOrder /\ Conv!OwedIsRemainder)`, about `Conversation` alone |
| `AgentProofs!TypeCorrect`, `LoopInvariant` | `TypeOK`, `OwedFollowsControl` and `CallsFollowControl` |
| `AgentProofs!IdleAgentIsClean`, `PendingIsExact` | `IdleIsClean`, `PendingToolCallsExact` |
| `AgentProofs!SequentialBatches`, `RequestsAreFaithful`, `NoMessageTwice`, `FollowUpsAreLast` | `SequentialBatchIsSerial`, `RequestSeesTranscript`, `DeliveredAtMostOnce`, `Spec => FollowUpsComeLast` |
| `AgentProofs!EveryMessageDelivered` | `QueuesAreFIFO`, and `MessagesAreDelivered` unless `Failures` |
| `AgentProofs!AgentIsConversation`, `AgentAnswersInOrder` | `Spec => ConversationSpec`, and with it `ToolResultsInOrder` and `OwedIsRemainder` of the agent's own transcript |
| `EventStreamProofs!TypeCorrect`, `ResultComesFirst`, `ReaderSeesAll`, `LastEvent`, `StreamKeepsPromise` | `TypeOK`, `SettledBeforeClosed`, `ReaderMissesNothing`, `LastEventIsResult`, `Spec => ResultStreamSpec` |
| `SessionManagerProofs!Typing`, `FilesTellNoMore`, `BranchesKeepContext` | whatever fails: `TypeOK`, `FileTellsNoMore`, `PlainBranchKeepsContext` |
| `SessionManagerProofs!LabelsMatch` | unless writes throw (`"ioerror" \notin Faults`): `LabelsMatchEntries` |
| `SessionManagerProofs!FlushedSessions`, `Durability`, `NoFileBeforeAnAnswer`, `FilesOnlyGrow`, `ReopeningKeepsContext`, `ForkingKeepsContext` | with `Faults = {}`: `FlushedIsFile`, `AnsweredIsDurable`, `FileWaitsForAssistant`, `Spec => FilesAreAppendOnly`, `Spec => ReopenKeepsContext`, `Spec => ForkKeepsContext` |
| `CompactionProofs!TypeCorrect`, `EachMessageIsToldOnce`, `RequestsAreWellFormed` | `TypeOK`, `EachMessageIsTold`, `RequestIsWellFormed` |
| `AgentSessionProofs!Typing`, `MessagesStay`, `ShownIsQueued`, `ModelSeesTheSession`, `RecoveryHolds` | `TypeOK`, `MessagesAreKept`, `QueuesAreShown`, `ModelSeesSession`, `RecoveryIsSound` |
| `AuthStorageProofs!TypeCorrect`, `TokensAreSpentOnce`, `LoginIsKept`, `WritesChangeOneProvider` | `TypeOK`, `RefreshSpendsLiveToken`, `FileKeepsLogin`, `Spec => OneProviderPerWrite` |
| `OpenAICodexResponsesProofs!TypeCorrect`, `ConnectionsHaveOneUser`, `WaitsAreAnswered`, `UsedStaysOpen` | `TypeOK`, `ConnectionsAreOwned`, `WaitsEnd`, `Spec => NobodyClosesUsed` |
| `OpenAICodexResponsesProofs!ServerSeesTheInput`, `DoneIsAnswered` | `DeltaIsFaithful`, `DoneMeansAnswered` |

They assume only the named `ASSUME`s of the modules (for `Conversation`, `CallSeqsAssumption`, which
follows from the one of `Agent`): any set of messages and calls, call lists
without repetition, any programs of any producers, any number of entries, files and crashes, any
layout of callers, storages and processes, any number of overlapping requests, retries and faults.

*Agent.* The refinement needs to know, whenever a message enters the transcript, that its turn has
come. `OwedFollowsControl` says it for every point of the loop: what is owed there and what is
announced. It is inductive only with `CallsFollowControl` (where the loop stands while a call is
started, settled or running), since a call that ends out of place would announce a result out
of place, and with the types; `IInv` is the conjunction. The order of tool results then follows
from the theorem about `Conversation`, which is about nothing but the transcript and `owed`.
Each further property of the loop has an invariant of its own beside `IInv`. `SerialInv`: in a batch
with a sequential tool the calls before `next` have ended and the later ones wait. `CopyInv`: at every
point the loop's `context` and the transcript, each with the messages still on their way to it, are
the same (`Heard`, `ToCome`), up to a part in front that `reset()` cut from the transcript. `TallyInv`
counts for each message the queues, the announcement and the transcript it is in: nowhere before it
is handed over, afterwards in at most one, and in exactly one while nothing failed and no caller cleared
it. `OrderInv` says that what a queue was handed stands in the order of its numbers along the transcript,
the announced messages and the queue. `TurnInv` says how the last turn ended: a batch that runs has calls,
and a turn that ends without one ended with an answer that asked for no tools.

*EventStream.* `StepsFollowProgram` ties the access a producer is at to the operation it is in;
with `SettledBeforeClosed` it is inductive, and gives each step of the refinement. `EndInv` is for the
streams of `agentLoop` alone: as long as somebody may still push `agent_end` it is neither the result nor
among the events, and from then on it is both. It rests on `LoopAssumption`, what `agentLoop` is: one of
its programs pushes `agent_end`, once, behind the join of the tools, and no tool does.

*SessionManager.* The order of the entries comes first. `Grown` says that ids were given in order and
once, and that an entry refers to older ones only. From it follows, by induction over the ids, that
every path exists, that it is what the recursion computes, that it leads from a root to its leaf and
names its entries in their order. `TypeInv` is `Grown` of the session and of every file, with the
numbers; it holds whatever fails, for a damaged file still holds entries in order. `ToldInv` adds that a
file which was never created has no header, and that the file of the session tells nothing but entries of
the session in their order: a rewrite, a line, and each way these can be cut leave such a file.
`LabelInv` says that the label cache is what the last label entry on each target says, which an append
and the rebuilding of `open` both give; a write that throws leaves an entry behind without its cache,
hence the assumption. A branch keeps the context because its path is a chain of its own: what `Context`
is made of are the entries before and behind the last compaction on the path, which the branch copies,
and label entries at its end say nothing. `DurableInv` says that each file is what a rewrite of some
entries would give, that a flushed session is its file, that an answered session is flushed, and that
files hold answers; `persistEntry`'s three branches each keep it (`PersistKeeps`). `KeepInv` adds that a
file is the start of what its session holds, so that a write behind it is an append. `DurableInv` gives
what a reopened session or a fork reads back; with cut writes `AnsweredIsDurable` fails (section 6).

*Compaction.* What a compaction cuts away is decided when it is prepared and takes effect when it is
appended, on a branch that may be longer. `PreparationFits` says what a preparation knows of the
branch it was made of, whatever was said since; `KeptBehind` from where each compaction keeps, behind the
one before; `CutIsSummarized` that all in front of that is in the summary of some compaction. The sums of
tokens decide where a cut falls among the cut points (`BudgetCutIsCutPoint`) and nothing else. The summary
the model sees and the entries it sees do not meet because the former lie before what the compaction keeps.
That requests are well-formed has two halves. `TransformIsWellFormed` is about `TransformMessages`
alone: any context in which results follow their answer (`ResultsFollow`) becomes a well-formed one.
At every point of the pass (`Passed`) what it has put out is sound but for the calls of the
answer that is still open (`Sound`), the results behind that answer are those the pass remembers, one of
each (`Batch`), and the end of what came in is the end of what went out (`Held`), so that a result
that comes next is of the open answer; inserting the missing results closes it (`FilledSound`). The other
half, `ContextFollows`, is about the session: in the branch each result is of a call of the answer in front
of it and the first of it (`ResultsOnce`), because `Result` appends only what is `Owed`, and behind where
a compaction keeps somebody other than a tool speaks first (`KeptSpeaks`), because cut points are no tool
results. An answer whose results the model sees is therefore seen itself (`AnswerIsVisible`).

*AgentSession.* `Shapes` types the state part by part. `Ledger` counts for every message the places it
can be in: the session, the run, the two queues, those for the next turn, a caller that waits for
a compaction, and the dropped ones; what was sent is in one, what was not in none. `ShownInv` relates
the list the user sees to the queues, and needs the ledger: a message that is said leaves the
list, and must not be queued a second time. `SeesInv` says that the agent's messages and the context of
the session are the same but for errors, unless the agent was not told of the last compaction
(`unseen`): saying adds the same place to both, a compaction rewrites one as
the other, an overflow strips an error from one, and `Context` of a longer session is the context with
one more place because the places are in order (`InOrderGrows`).
That recoveries are bounded is a balance (`BoundInv`): those in the session, those under way and the one
`overflowRecoveryAttempted` still leaves open are no more than the words of users and answers of the
model, once there are any; before that nothing can overflow (`Untouched`). For the retry, `TurnInv`
says where a run ends: behind what was said, so that its compaction keeps exactly the newest entry, the
new context is that compaction and that entry, and stripping it leaves no error at the end. It
needs that compactions wait one at a time (`OneAtATime`), which two callers can break: hence
`overlapped` in the property.

*AuthStorage.* What a caller decides upon is what the file holds; no single state of the file says
so, and four facts together do. `Locked`: whoever is inside the critical section has the lock of its
storage, the entry in its process's table and, unless a lock was dropped, the system's lock, which is never
with somebody outside; and a lock is dropped only where two storages share a process. Two callers are
therefore never inside together while `LockExcludes` holds (`Alone`): with one process the table
excludes, with one storage per process nobody else closes a channel. `Copies`: a caller that decides has
just loaded the file, and one that writes has changed one provider of what it loaded; a load that found no
file tells the same only while no write had failed (`Trusted`). `Distinct`: every credential was issued
once, so no two places hold the same one unless one was copied from the other. `Honest`: while nothing
has failed and the lock excludes, the file is what was saved last, outside of a write, and what is saved
or about to be saved would be accepted. The steps that leave the block are many, and leave by the
same doors (`LeavesTheBlock`, `ThrowLeaves`, `LeavingKeepsLocked`, `ClosingKeepsLocked`). Credentials are
numbers because the next one must differ from all before (`NextIsNew`).

*OpenAICodexResponses.* That a connection has one user cannot be shown of users alone: a cached
connection was opened by another request, whose temporary connections must not be found there. `Users`
says that a connection that is not one's own was opened by a request past its opening, that the entry
of a shared one is busy while it is used, and that a temporary one is in no cache. `Sockets` says which
connections exist, `Watched` who will close them, `Called` whose connection the listeners of an abort
are about to close: it is the request's own, so an abort that is late closes nothing of another one.
`Reached`, `Opens` and `Answered` say for every wait what ends it. The proof of a step is in two parts:
one lemma says what a kind of step does to its request and its connection (`AcquireDoes`,
`GiveUpLeaves`, `ReleaseLeaves`, `SocketDoes`, ...), one says which steps keep a part of the
invariant (`MoveKeepsUsers`, ...); the step lemmas put them together.
What is said over the connections is `TalkInv`: a question the server still answers is on an open
connection, has the whole input of the request that sent it, and is read by nobody else; a reader that saw
a completion, and a request that is settled, are remembered by the server with their input and the answer;
a continuation names a request that is over, that nobody asks under any more and that the server
remembers with the same input. Then the prefix that was cut off and
the delta that was sent are the whole input (`PrefixAndRest`), and the server sees it. Most steps are
`Quiet`: nobody says anything, no memory changes. Three kinds speak: sending, releasing, and what
the socket brings. `InputsAssumption` says that an input is a list of items.
What `complete()` meets is said by `Handles`, a part of `TalkInv`, and `WaitInv`. While the last event of
an answer waits for its completion, nothing is asked on the connection and its reader, if there is one,
is still open (`Handles`). A request that sends on the connection it opened finds no message still being
handled; only one that took a connection over can (`Fresh`). A reader to which the last event was sent, or
whose events were closed, will be completed, unless its events were closed early (`Concludes`); and
what a reader stops with is its answer, or, without one, a connection it took over or a response
over SSE that was cut (`Gets`). `ClosedEarly`, which `WaitsEnd` names, is the only gap this leaves.

## 5. What is only checked, and what is not modelled

Only checked by TLC: all liveness (`RunsEnd`, `ClosedReleasesReaders`, `LockIsReleased`; liveness and
ENABLED are beyond TLAPS). Every other property of a passing run is a theorem; where the theorem needs
an assumption on `Faults` or `Failures`, the table names it. Recursion is proved about where the
induction can be put as a statement about a set of numbers (`NumberInduction`, `SequenceInduction`) and
the recursive function can be unfolded from its definition: the paths of a session, the context of a
branch (`ToldTo`) and the pass of `Transform` (`PassTo`). Each such function costs a proof that it exists.

Left out of the modelled parts:

* *Agent*: message contents and error texts; `MessageUpdate` and `ToolExecutionUpdate` events;
  subscription during a run; callers of one Agent on several threads (`activeRun` and
  `pendingToolCalls` are unsynchronised fields: the model takes a run and its callers to share a
  confined dispatcher, as the tests do).
* *SessionManager*: two managers on one session file; in-memory sessions (the same operations without
  a file); `forkFrom`, listing and the migration of old files.
* *Compaction*: the prompts and what a model makes of them, the file lists of tool calls, branch
  summaries. Sizes are the model's own; a budget of 0 would keep the last entry all the same.
* *AgentSession*: `navigateTree`, `dispose`, changes of model and tools, `sendCustomMessage` that starts
  or steers a turn. Calls and the run share one dispatcher in the model, although the scheduled continue
  runs on `Dispatchers.Default`; other listeners finish within the 100 ms before it; texts differ (of
  two equal ones, one steered and one to follow up, both disappear from display when the first is
  taken); a run that fails after an abort is not modelled. A compaction keeps the last entry that
  speaks: what it covers is the subject of `Compaction`.
* *AuthStorage*: API keys and where else they may come from, runtime overrides, and the login itself;
  a read that needs no refresh, which changes nothing.
* *OpenAICodexResponses*: the translation of events into message blocks; more than one session; the
  transports `sse` and `websocket`, which are in the module but not in the instance, being the halves of
  `auto`. The server sends nothing after a response's last event, and every response has an id. A
  request chooses its input when it sends. `start` and `send` are one step, and so are the end of the wait
  for the completion and the release: `complete()` may come between them, but a channel it closes there is
  closed behind them just as well, and what it closes of a request that stopped reading is not missed.

Not modelled: the components marked so in `PROJECT.json`, for the reason given there.

Places where a failure is left to its caller, and which no property judges: a refresh whose write fails
has spent its token (`C/AuthStorage.kt:170`, `:216`), and a file cut in the middle tells a new process
of no login (`:212`), which is why `RefreshSpendsLiveToken` and `FileKeepsLogin` are about the time
before the first fault, and a process killed in the middle of a write is one;
a listener that subscribes while the listeners are walked over (`A/Agent.kt:386`), or that awaits the end
of the run that awaits it (`A/Agent.kt:192`); a session replaced by a factory that throws
(`C/AgentSessionRuntime.kt:78`).

## 6. Findings

Two runs end in a counterexample to what the documentation or a test says:

1. `compaction_summary`: when the cut splits a turn and no message lies between the first entry the
   previous compaction kept and that turn, `compact()` writes "No prior history." in place of the
   previous summary (`C/compaction/Compaction.kt:450`): what was said before it is in nothing the model
   still sees. The update prompt asks to preserve all of it.
2. `agent_session_abort`: `compact()` does not look at its abort signal when the summary has come
   (`C/AgentSession.kt:572`), so a manual compaction that was aborted is appended all the same;
   `runAutoCompaction` does look.

Further disagreements met while modelling; the models do what the code does, and the properties above
are stated so as to hold with them:

* A listener that throws on `agent_end` makes the run emit `agent_end` again (`A/Agent.kt:341`), which
  the documentation calls the final event of a run.
* A message steered while a terminating batch runs is neither injected nor polled
  (`A/AgentLoop.kt:164`); it waits for a run someone else must start.
* When the loop of `agentLoop()` throws, its stream never ends (`A/AgentLoop.kt:603`), in spite of
  the comment there.
* Behind a torn line the next append is glued to it and lost, though it returned
  (`C/SessionManager.kt:755`).
* `createBranchedSession` drops label entries from the path but not the references to them, and cuts
  off the conversation before a label (`C/SessionManager.kt:625`). Labelling while navigating the
  tree puts a label entry on the path.
* With no `auth.json` the copy in memory stays as it is (`C/AuthStorage.kt:208`): a credential whose write
  failed, and which the caller was told is not stored, is written along with the next change.
* When two storages of one process use the file, the second one's attempt to lock it closes a channel on
  the lock file (`C/AuthStorage.kt:190`), which on POSIX systems gives up the lock of the first. A third
  storage in another process may then refresh the same token, or overwrite what is being written.
* When the append of a compaction fails, the compaction is the session's leaf all the same
  (`C/SessionManager.kt:690`), but the agent goes on with the messages it had, and after an overflow there
  is no retry (`C/AgentSession.kt:705`).
* `complete()` of a WebSocket settles the completion and then closes whatever `events` is by then
  (`I/providers/OpenAICodexResponses.kt:1177`). A request that took the connection over in between loses
  its channel: it ends with none of its events when its answer succeeds, and waits for ever when
  the answer fails.
* Forking at an entry no answer precedes gives an empty session (`C/AgentSessionRuntime.kt:162`):
  the branch was not written and is read back from its file.

## 7. What is left

1. `AgentSessionRuntime`: replacement of the session with a factory that throws, import over an
   existing file.
2. Listeners of Agent that subscribe, unsubscribe or wait for idleness during a run; callers on
   several threads.
3. The event protocols of the Anthropic and Google providers, and aborts that race the call; the OAuth
   login.
4. Of AgentSession `navigateTree` with its branch summary, and `dispose`.
