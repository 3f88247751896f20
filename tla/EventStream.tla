---------------------------- MODULE EventStream ----------------------------
(***************************************************************************)
(* pi.ai.core.EventStream and the coroutine agentLoop() starts to fill it. *)
(*                                                                         *)
(* push() and end() are plain functions on an AtomicBoolean, a channel and *)
(* a CompletableDeferred: each of their accesses is a step, and producers  *)
(* on different threads interleave between them. A producer runs a list of *)
(* operations; "join" is the loop awaiting its tool coroutines. One        *)
(* consumer collects asFlow(); result() returns once `result` is settled.  *)
(***************************************************************************)
EXTENDS Naturals, SequencesExt

CONSTANTS
  Producers,   (* the threads that push or end                             *)
  Events,      (* what they push                                           *)
  Terminals,   (* the events isComplete() accepts                          *)
  Values,      (* what end() is handed; null stands for its exception     *)
  Programs,    (* what the producers may run: their operations, in order   *)
  AgentEnd,    (* the terminal event of agentLoop()                        *)
  Failing      (* producers whose code may throw between two operations    *)

Push(e)  == [op |-> "push", arg |-> e]
EndWith(v) == [op |-> "end", arg |-> v]
Join     == [op |-> "join", arg |-> "none"]

Operations == [op : {"push"}, arg : Events]
                \cup [op : {"end"}, arg : Values] \cup {Join}

(* The result extractResult() reads off a terminal event is named by that  *)
(* event here, and is never the name of a value handed to end().           *)
Outcomes == Terminals \cup Values

ASSUME StreamAssumption ==
  /\ Terminals \subseteq Events /\ AgentEnd \in Terminals
  /\ Programs \subseteq [Producers -> Seq(Operations)]
  /\ Failing \subseteq Producers
  /\ "pending" \notin Outcomes
  /\ Terminals \cap Values = {}

(* What tools push, and the turns of a loop. *)
Updates == {Push(e) : e \in Events \ Terminals}

(* agentLoop(): the loop pushes agent_end once, behind the join of its     *)
(* tools if it has any, and then ends the stream.                          *)
EndsAfterJoin(program, loop) ==
  /\ \A q \in Producers \ {loop} : ToSet(program[q]) \subseteq Updates
  /\ \E k \in DOMAIN program[loop] :
       /\ program[loop][k] = Push(AgentEnd)
       /\ \/ \A q \in Producers \ {loop} : program[q] = <<>>
          \/ \E j \in 1..(k - 1) : program[loop][j] = Join
       /\ \A i \in 1..(k - 1) : program[loop][i] \in Updates \cup {Join}
       /\ \A i \in (k + 1)..Len(program[loop]) : program[loop][i].op = "end"

ASSUME LoopAssumption ==
  \A program \in Programs :
    \/ \A p \in Producers : Push(AgentEnd) \notin ToSet(program[p])
    \/ \E loop \in Producers : EndsAfterJoin(program, loop)

VARIABLES
  accepted,       (* events trySend took, in order                         *)
  taken,          (* how many of them the consumer has received            *)
  closed,         (* the AtomicBoolean                                     *)
  result,         (* finalResult: "pending", or its outcome                *)
  channelClosed,
  flow,           (* "open" until the consumer's collect returns           *)
  todo,           (* operations each producer has left                     *)
  at              (* step of its current operation each producer is at     *)

vars == <<accepted, taken, closed, result, channelClosed, flow, todo, at>>

Steps == {"ready", "send", "mark", "settle", "close"}

Init ==
  /\ accepted = <<>> /\ taken = 0
  /\ closed = FALSE /\ result = "pending" /\ channelClosed = FALSE
  /\ flow = "open"
  /\ todo \in Programs
  /\ at = [p \in Producers |-> "ready"]

Doing(p, o) == todo[p] # <<>> /\ Head(todo[p]).op = o
Arg(p)      == Head(todo[p]).arg

Step(p, s) == at' = [at EXCEPT ![p] = s]

(* The current operation returns. *)
Return(p) ==
  /\ todo' = [todo EXCEPT ![p] = Tail(@)]
  /\ Step(p, "ready")

GoOn(p, s) == Step(p, s) /\ UNCHANGED todo

-----------------------------------------------------------------------------
(* push(event) *)

CheckClosed(p) ==
  /\ at[p] = "ready" /\ Doing(p, "push")
  /\ IF closed THEN Return(p) ELSE GoOn(p, "send")
  /\ UNCHANGED <<accepted, taken, closed, result, channelClosed, flow>>

(* Mutant: the channel is not asked. *)
SendAnyway(p) ==
  /\ at[p] = "send"
  /\ accepted' = Append(accepted, Arg(p))
  /\ IF Arg(p) \in Terminals THEN GoOn(p, "mark") ELSE Return(p)
  /\ UNCHANGED <<taken, closed, result, channelClosed, flow>>

(* trySend fails only on a closed channel: it is unlimited. *)
TrySend(p) ==
  /\ at[p] = "send"
  /\ \/ /\ channelClosed
        /\ Return(p)
        /\ UNCHANGED accepted
     \/ /\ ~channelClosed
        /\ accepted' = Append(accepted, Arg(p))
        /\ IF Arg(p) \in Terminals THEN GoOn(p, "mark") ELSE Return(p)
  /\ UNCHANGED <<taken, closed, result, channelClosed, flow>>

MarkClosed(p) ==
  /\ at[p] = "mark"
  /\ closed' = TRUE
  /\ GoOn(p, "settle")
  /\ UNCHANGED <<accepted, taken, result, channelClosed, flow>>

-----------------------------------------------------------------------------
(* end(result) *)

CompareAndClose(p) ==
  /\ at[p] = "ready" /\ Doing(p, "end")
  /\ IF closed THEN Return(p) ELSE GoOn(p, "settle")
  /\ closed' = TRUE
  /\ UNCHANGED <<accepted, taken, result, channelClosed, flow>>

-----------------------------------------------------------------------------
(* The tail push() and end() share. *)

(* A CompletableDeferred is completed once. *)
Complete(r) == result' = IF result = "pending" THEN r ELSE result

(* Mutant: the channel is left open. *)
SettleAndReturn(p) ==
  /\ at[p] = "settle"
  /\ Complete(Arg(p))
  /\ Return(p)
  /\ UNCHANGED <<accepted, taken, closed, channelClosed, flow>>

Settle(p) ==
  /\ at[p] = "settle"
  /\ Complete(Arg(p))
  /\ GoOn(p, "close")
  /\ UNCHANGED <<accepted, taken, closed, channelClosed, flow>>

CloseChannel(p) ==
  /\ at[p] = "close"
  /\ channelClosed' = TRUE
  /\ Return(p)
  /\ UNCHANGED <<accepted, taken, closed, result, flow>>

-----------------------------------------------------------------------------
(* The coroutine of agentLoop(). *)

(* Mutant: the loop goes on without its tools. *)
JoinNobody(p) ==
  /\ at[p] = "ready" /\ Doing(p, "join")
  /\ Return(p)
  /\ UNCHANGED <<accepted, taken, closed, result, channelClosed, flow>>

(* executeToolCallsParallel awaits every tool coroutine. *)
JoinOthers(p) ==
  /\ at[p] = "ready" /\ Doing(p, "join")
  /\ \A q \in Producers \ {p} : todo[q] = <<>>
  /\ Return(p)
  /\ UNCHANGED <<accepted, taken, closed, result, channelClosed, flow>>

(* runAgentLoop throws: launchIgnoringChildren swallows it, and what the   *)
(* coroutine had left to push or end is never done.                        *)
Throw(p) ==
  /\ p \in Failing
  /\ at[p] = "ready" /\ todo[p] # <<>>
  /\ todo' = [todo EXCEPT ![p] = <<>>]
  /\ UNCHANGED <<accepted, taken, closed, result, channelClosed, flow, at>>

-----------------------------------------------------------------------------
(* The consumer of asFlow(). *)

(* Mutant: the flow ends as soon as the stream is closed. *)
FlowEndsEarly ==
  /\ flow = "open" /\ channelClosed
  /\ flow' = "ended"
  /\ UNCHANGED <<accepted, taken, closed, result, channelClosed, todo, at>>

Receive ==
  /\ flow = "open" /\ taken < Len(accepted)
  /\ taken' = taken + 1
  /\ UNCHANGED <<accepted, closed, result, channelClosed, flow, todo, at>>

FlowEnds ==
  /\ flow = "open" /\ channelClosed /\ taken = Len(accepted)
  /\ flow' = "ended"
  /\ UNCHANGED <<accepted, taken, closed, result, channelClosed, todo, at>>

-----------------------------------------------------------------------------
ProducerStep(p) ==
  \/ CheckClosed(p) \/ TrySend(p) \/ MarkClosed(p)
  \/ CompareAndClose(p) \/ Settle(p) \/ CloseChannel(p)
  \/ JoinOthers(p)

Consumer == Receive \/ FlowEnds

Next ==
  \/ \E p \in Producers : ProducerStep(p) \/ Throw(p)
  \/ Consumer

Spec == Init /\ [][Next]_vars

(* Every thread is scheduled; code is not obliged to throw. *)
FairSpec ==
  /\ Spec
  /\ \A p \in Producers : WF_vars(ProducerStep(p))
  /\ WF_vars(Consumer)

-----------------------------------------------------------------------------
(* Properties *)

TypeOK ==
  /\ accepted \in Seq(Events)
  /\ taken \in 0..Len(accepted)
  /\ closed \in BOOLEAN /\ channelClosed \in BOOLEAN
  /\ result \in Outcomes \cup {"pending"}
  /\ flow \in {"open", "ended"}
  /\ todo \in [Producers -> Seq(Operations)]
  /\ at \in [Producers -> Steps]

(* A producer that is past the gate of push() or end() is still in that    *)
(* operation; past trySend, its event is terminal and accepted.            *)
StepsFollowProgram ==
  \A p \in Producers :
    /\ at[p] \in {"send", "mark"} => Doing(p, "push")
    /\ at[p] \in {"settle", "close"} => Doing(p, "push") \/ Doing(p, "end")
    /\ at[p] \in {"mark", "settle", "close"} /\ Doing(p, "push") =>
         Arg(p) \in Terminals \cap ToSet(accepted)

(* Whoever closes the channel finds the result settled, by itself or by    *)
(* another producer, and a result read off an event was accepted first.    *)
SettledBeforeClosed ==
  /\ \A p \in Producers : at[p] = "close" => result # "pending"
  /\ channelClosed => result # "pending"
  /\ result \in Terminals => result \in ToSet(accepted)
  /\ flow = "ended" => channelClosed /\ taken = Len(accepted)

(* The stream keeps the promise of ResultStream under any race of pushes   *)
(* and ends: the result is settled once, before the flow can end, and      *)
(* nothing is accepted afterwards.                                         *)
Promise == INSTANCE ResultStream
             WITH log <- accepted, outcome <- result, ended <- channelClosed
ResultStreamSpec == Promise!Spec

(* When the flow ends its reader has seen every accepted event, the        *)
(* terminal one that gave the result included, and result() does not wait. *)
ReaderMissesNothing ==
  flow = "ended" =>
    /\ taken = Len(accepted)
    /\ result # "pending"
    /\ result \in Terminals => result \in ToSet(accepted)

(* The stream of agentLoop(), whose loop joins its tools before it emits   *)
(* agent_end: that event is the last one and gives the result.             *)
LastEventIsResult ==
  channelClosed /\ AgentEnd \in ToSet(accepted) =>
    Last(accepted) = AgentEnd /\ result = AgentEnd

(* Once any producer has closed the stream, the reader and the one who     *)
(* awaits the result are released, whoever else was pushing or ending.     *)
ClosedReleasesReaders == closed ~> (flow = "ended" /\ result # "pending")
=============================================================================
