-------------------------- MODULE EventStreamProofs --------------------------
(***************************************************************************)
(* EventStream, proved for every set of producers, every program they run  *)
(* and every way they may fail: the stream implements ResultStream, and    *)
(* its reader misses nothing. Of the stream of agentLoop() it is proved    *)
(* that agent_end is its last event and its result.                        *)
(*                                                                         *)
(* The inductive invariant is TypeOK, StepsFollowProgram (a producer past  *)
(* the gate is still in that operation) and SettledBeforeClosed. Neither   *)
(* of the last two is inductive alone: that the channel is closed after    *)
(* the result is settled rests on which step each producer is at. EndInv   *)
(* follows the loop past its join to agent_end and the end of the stream.  *)
(***************************************************************************)
EXTENDS EventStream, SequenceTheorems, TLAPS

USE StreamAssumption

IInv == TypeOK /\ StepsFollowProgram /\ SettledBeforeClosed

-----------------------------------------------------------------------------
(* What the producers handle. *)

LEMMA ArgTypes ==
  ASSUME TypeOK, NEW p \in Producers
  PROVE  /\ Doing(p, "push") => Arg(p) \in Events
         /\ Doing(p, "end") => Arg(p) \in Values
         /\ todo[p] # <<>> => Tail(todo[p]) \in Seq(Operations)
<1>1. todo[p] \in Seq(Operations)
  BY DEF TypeOK
<1>2. todo[p] # <<>> => Head(todo[p]) \in Operations /\ Tail(todo[p]) \in Seq(Operations)
  BY <1>1, HeadTailProperties
<1>3. \A o \in Operations : /\ o.op = "push" => o.arg \in Events
                            /\ o.op = "end" => o.arg \in Values
  BY DEF Operations, Join
<1>4. QED
  BY <1>2, <1>3 DEF Doing, Arg

LEMMA AcceptedGrows ==
  ASSUME TypeOK, NEW e \in Events, accepted' = Append(accepted, e)
  PROVE  /\ accepted' \in Seq(Events)
         /\ Len(accepted') = Len(accepted) + 1
         /\ ToSet(accepted)' = ToSet(accepted) \cup {e}
<1>1. accepted \in Seq(Events) /\ Len(accepted) \in Nat /\ DOMAIN accepted = 1..Len(accepted)
  BY DEF TypeOK
<1>2. /\ accepted' \in Seq(Events) /\ Len(accepted') = Len(accepted) + 1
      /\ \A i \in 1..Len(accepted) : accepted'[i] = accepted[i]
      /\ accepted'[Len(accepted) + 1] = e
  BY <1>1, AppendProperties
<1>3. DOMAIN accepted' = 1..(Len(accepted) + 1)
  BY <1>1, <1>2
<1>4. DOMAIN accepted' = (DOMAIN accepted) \cup {Len(accepted) + 1}
  BY <1>1, <1>3
<1>5. ToSet(accepted)' = ToSet(accepted) \cup {e}
  <2>1. \A i \in DOMAIN accepted' : accepted'[i] \in ToSet(accepted) \cup {e}
    BY <1>1, <1>2, <1>4 DEF ToSet
  <2>2. \A i \in DOMAIN accepted : accepted'[i] = accepted[i] /\ i \in DOMAIN accepted'
    BY <1>1, <1>2, <1>4
  <2>3. e = accepted'[Len(accepted) + 1] /\ Len(accepted) + 1 \in DOMAIN accepted'
    BY <1>2, <1>4
  <2>4. ToSet(accepted)' \subseteq ToSet(accepted) \cup {e}
    BY <2>1, Zenon DEF ToSet
  <2>5. ToSet(accepted) \subseteq ToSet(accepted)' /\ e \in ToSet(accepted)'
    BY <2>2, <2>3, Zenon DEF ToSet
  <2>6. QED
    BY <2>4, <2>5
<1>6. QED
  BY <1>2, <1>5

(* Returning from an operation or going on to its next step.               *)
LEMMA ControlKeepsTypes ==
  ASSUME TypeOK, NEW p \in Producers, todo[p] # <<>>, NEW s \in Steps,
         Return(p) \/ GoOn(p, s)
  PROVE  todo' \in [Producers -> Seq(Operations)] /\ at' \in [Producers -> Steps]
BY ArgTypes, SMTT(30), ZenonT(60) DEF TypeOK, Return, GoOn, Step, Steps

(* The step takes no other producer's control.                             *)
LEMMA OthersStay ==
  ASSUME TypeOK, NEW p \in Producers, NEW s \in Steps,
         Return(p) \/ GoOn(p, s)
  PROVE  \A q \in Producers \ {p} : todo'[q] = todo[q] /\ at'[q] = at[q]
BY DEF TypeOK, Return, GoOn, Step

-----------------------------------------------------------------------------
(* Types *)

LEMMA TypeInit == Init => TypeOK
<1> SUFFICES ASSUME Init PROVE TypeOK
  OBVIOUS
<1>1. accepted \in Seq(Events) /\ taken \in 0..Len(accepted)
  BY DEF Init
<1>2. todo \in [Producers -> Seq(Operations)]
  BY DEF Init
<1>3. at \in [Producers -> Steps]
  BY DEF Init, Steps
<1>4. QED
  BY <1>1, <1>2, <1>3 DEF Init, TypeOK

LEMMA TypeStep == IInv /\ [Next]_vars => TypeOK'
<1> SUFFICES ASSUME IInv, [Next]_vars PROVE TypeOK'
  OBVIOUS
<1>0. TypeOK /\ StepsFollowProgram
  BY DEF IInv
<1>1. ASSUME NEW p \in Producers, ProducerStep(p) PROVE TypeOK'
  <2>1. CASE CheckClosed(p)
    BY <1>0, <2>1, ControlKeepsTypes DEF CheckClosed, Doing, TypeOK, Steps
  <2>2. CASE TrySend(p)
    <3>1. todo[p] # <<>> /\ Arg(p) \in Events
      BY <1>0, <2>2, ArgTypes DEF TrySend, StepsFollowProgram, Doing
    <3>2. todo' \in [Producers -> Seq(Operations)] /\ at' \in [Producers -> Steps]
      BY <1>0, <2>2, <3>1, ControlKeepsTypes DEF TrySend, Steps
    <3>3. accepted' \in Seq(Events) /\ taken' \in 0..Len(accepted')
      BY <1>0, <2>2, <3>1, AcceptedGrows DEF TrySend, TypeOK
    <3>4. QED
      BY <1>0, <2>2, <3>2, <3>3 DEF TrySend, TypeOK
  <2>3. CASE MarkClosed(p)
    BY <1>0, <2>3 DEF MarkClosed, GoOn, Step, TypeOK, Steps
  <2>4. CASE CompareAndClose(p)
    BY <1>0, <2>4, ControlKeepsTypes DEF CompareAndClose, Doing, TypeOK, Steps
  <2>5. CASE Settle(p)
    <3>1. Arg(p) \in Outcomes
      BY <1>0, <2>5, ArgTypes DEF Settle, StepsFollowProgram, Outcomes
    <3>2. QED
      BY <1>0, <2>5, <3>1 DEF Settle, Complete, GoOn, Step, TypeOK, Steps
  <2>6. CASE CloseChannel(p)
    <3>1. todo[p] # <<>>
      BY <1>0, <2>6 DEF CloseChannel, StepsFollowProgram, Doing
    <3>2. QED
      BY <1>0, <2>6, <3>1, ControlKeepsTypes DEF CloseChannel, TypeOK, Steps
  <2>7. CASE JoinOthers(p)
    BY <1>0, <2>7, ControlKeepsTypes DEF JoinOthers, Doing, TypeOK, Steps
  <2>8. QED
    BY <1>1, <2>1, <2>2, <2>3, <2>4, <2>5, <2>6, <2>7 DEF ProducerStep
<1>2. ASSUME NEW p \in Producers, Throw(p) PROVE TypeOK'
  BY <1>0, <1>2 DEF Throw, TypeOK
<1>3. CASE Consumer
  BY <1>0, <1>3 DEF Consumer, Receive, FlowEnds, TypeOK
<1>4. CASE UNCHANGED vars
  BY <1>0, <1>4 DEF vars, TypeOK
<1>5. QED
  BY <1>1, <1>2, <1>3, <1>4 DEF Next

-----------------------------------------------------------------------------
(* Control *)

(* A producer that is ready says nothing about its operation, and nothing  *)
(* accepted is ever taken back: only the producer that moved can disturb   *)
(* StepsFollowProgram.                                                     *)
PastGate(p) ==
  /\ at[p] \in {"send", "mark"} => Doing(p, "push")
  /\ at[p] \in {"settle", "close"} => Doing(p, "push") \/ Doing(p, "end")
  /\ at[p] \in {"mark", "settle", "close"} /\ Doing(p, "push") =>
       Arg(p) \in Terminals \cap ToSet(accepted)

LEMMA OnlyTheMovedMatters ==
  ASSUME TypeOK, StepsFollowProgram, NEW p \in Producers, NEW s \in Steps,
         Return(p) \/ GoOn(p, s), ToSet(accepted) \subseteq ToSet(accepted)',
         PastGate(p)'
  PROVE  StepsFollowProgram'
<1>1. ASSUME NEW q \in Producers \ {p} PROVE PastGate(q)'
  <2>1. todo'[q] = todo[q] /\ at'[q] = at[q]
    BY OthersStay
  <2>2. PastGate(q)
    BY DEF StepsFollowProgram, PastGate
  <2>3. QED
    BY <2>1, <2>2 DEF PastGate, Doing, Arg
<1>2. \A q \in Producers : PastGate(q)'
  BY <1>1
<1>3. QED
  BY <1>2 DEF StepsFollowProgram, PastGate

LEMMA ReturnIsPastGate ==
  ASSUME TypeOK, NEW p \in Producers, Return(p)
  PROVE  PastGate(p)'
BY DEF TypeOK, Return, Step, PastGate

LEMMA ControlStep == IInv /\ [Next]_vars => StepsFollowProgram'
<1> SUFFICES ASSUME IInv, [Next]_vars PROVE StepsFollowProgram'
  OBVIOUS
<1>0. TypeOK /\ StepsFollowProgram
  BY DEF IInv
<1>1. ASSUME NEW p \in Producers, ProducerStep(p) PROVE StepsFollowProgram'
  <2>0. PastGate(p)
    BY <1>0 DEF StepsFollowProgram, PastGate
  <2>1. CASE CheckClosed(p)
    <3>1. GoOn(p, "send") => PastGate(p)'
      BY <1>0, <2>1 DEF CheckClosed, GoOn, Step, TypeOK, PastGate, Doing
    <3>2. QED
      BY <1>0, <2>1, <3>1, OnlyTheMovedMatters, ReturnIsPastGate DEF CheckClosed, Steps
  <2>2. CASE TrySend(p)
    <3>1. Arg(p) \in Events /\ Doing(p, "push")
      BY <1>0, <2>0, <2>2, ArgTypes DEF TrySend, PastGate
    <3>2. ToSet(accepted) \subseteq ToSet(accepted)'
      BY <1>0, <2>2, <3>1, AcceptedGrows DEF TrySend
    <3>3. ASSUME GoOn(p, "mark") PROVE PastGate(p)'
      <4>1. (Arg(p) \in Terminals /\ Arg(p) \in ToSet(accepted)') \/ Return(p)
        BY <1>0, <2>2, <3>1, AcceptedGrows DEF TrySend
      <4>2. Doing(p, "push")' /\ ~Doing(p, "end")' /\ Arg(p)' = Arg(p) /\ at'[p] = "mark"
        BY <1>0, <3>1, <3>3 DEF GoOn, Step, TypeOK, Doing, Arg
      <4>3. QED
        BY <4>1, <4>2, <1>0, ReturnIsPastGate DEF PastGate
    <3>4. QED
      BY <1>0, <2>2, <3>2, <3>3, OnlyTheMovedMatters, ReturnIsPastGate DEF TrySend, Steps
  <2>3. CASE MarkClosed(p)
    <3>1. PastGate(p)'
      BY <1>0, <2>0, <2>3 DEF MarkClosed, GoOn, Step, TypeOK, PastGate, Doing, Arg
    <3>2. QED
      BY <1>0, <2>3, <3>1, OnlyTheMovedMatters DEF MarkClosed, Steps
  <2>4. CASE CompareAndClose(p)
    <3>1. GoOn(p, "settle") => PastGate(p)'
      BY <1>0, <2>4 DEF CompareAndClose, GoOn, Step, TypeOK, PastGate, Doing
    <3>2. QED
      BY <1>0, <2>4, <3>1, OnlyTheMovedMatters, ReturnIsPastGate DEF CompareAndClose, Steps
  <2>5. CASE Settle(p)
    <3>1. PastGate(p)'
      BY <1>0, <2>0, <2>5 DEF Settle, GoOn, Step, TypeOK, PastGate, Doing, Arg
    <3>2. QED
      BY <1>0, <2>5, <3>1, OnlyTheMovedMatters DEF Settle, Steps
  <2>6. CASE CloseChannel(p)
    BY <1>0, <2>6, OnlyTheMovedMatters, ReturnIsPastGate DEF CloseChannel, Steps
  <2>7. CASE JoinOthers(p)
    BY <1>0, <2>7, OnlyTheMovedMatters, ReturnIsPastGate DEF JoinOthers, Steps
  <2>8. QED
    BY <1>1, <2>1, <2>2, <2>3, <2>4, <2>5, <2>6, <2>7 DEF ProducerStep
<1>2. ASSUME NEW p \in Producers, Throw(p) PROVE StepsFollowProgram'
  BY <1>0, <1>2 DEF Throw, TypeOK, StepsFollowProgram, Doing, Arg
<1>3. CASE Consumer
  BY <1>0, <1>3 DEF Consumer, Receive, FlowEnds, StepsFollowProgram, Doing, Arg
<1>4. CASE UNCHANGED vars
  BY <1>0, <1>4 DEF vars, StepsFollowProgram, Doing, Arg
<1>5. QED
  BY <1>1, <1>2, <1>3, <1>4 DEF Next

-----------------------------------------------------------------------------
(* The result *)

LEMMA SettledStep == IInv /\ [Next]_vars => SettledBeforeClosed'
<1> SUFFICES ASSUME IInv, [Next]_vars PROVE SettledBeforeClosed'
  OBVIOUS
<1>0. TypeOK /\ StepsFollowProgram /\ SettledBeforeClosed
  BY DEF IInv
<1>1. ASSUME NEW p \in Producers, ProducerStep(p) PROVE SettledBeforeClosed'
  <2>1. CASE CheckClosed(p)
    BY <1>0, <2>1 DEF CheckClosed, Return, GoOn, Step, TypeOK, SettledBeforeClosed
  <2>2. CASE TrySend(p)
    <3>1. Arg(p) \in Events
      BY <1>0, <2>2, ArgTypes DEF TrySend, StepsFollowProgram
    <3>2. ToSet(accepted) \subseteq ToSet(accepted)'
      BY <1>0, <2>2, <3>1, AcceptedGrows DEF TrySend
    <3>3. \A q \in Producers : at'[q] = "close" => at[q] = "close"
      BY <1>0, <2>2 DEF TrySend, Return, GoOn, Step, TypeOK
    <3>4. flow' = "ended" => accepted' = accepted
      BY <1>0, <2>2 DEF TrySend, SettledBeforeClosed
    <3>5. QED
      BY <1>0, <2>2, <3>2, <3>3, <3>4 DEF TrySend, SettledBeforeClosed
  <2>3. CASE MarkClosed(p)
    BY <1>0, <2>3 DEF MarkClosed, GoOn, Step, TypeOK, SettledBeforeClosed
  <2>4. CASE CompareAndClose(p)
    BY <1>0, <2>4 DEF CompareAndClose, Return, GoOn, Step, TypeOK, SettledBeforeClosed
  <2>5. CASE Settle(p)
    <3>1. Arg(p) \in Outcomes /\ (Arg(p) \in Terminals => Arg(p) \in ToSet(accepted))
      BY <1>0, <2>5, ArgTypes DEF Settle, StepsFollowProgram, Outcomes
    <3>2. result' # "pending" /\ (result' \in Terminals => result' \in ToSet(accepted))
      BY <1>0, <2>5, <3>1 DEF Settle, Complete, SettledBeforeClosed
    <3>3. QED
      BY <1>0, <2>5, <3>2 DEF Settle, SettledBeforeClosed
  <2>6. CASE CloseChannel(p)
    BY <1>0, <2>6 DEF CloseChannel, Return, Step, TypeOK, SettledBeforeClosed
  <2>7. CASE JoinOthers(p)
    BY <1>0, <2>7 DEF JoinOthers, Return, Step, TypeOK, SettledBeforeClosed
  <2>8. QED
    BY <1>1, <2>1, <2>2, <2>3, <2>4, <2>5, <2>6, <2>7 DEF ProducerStep
<1>2. ASSUME NEW p \in Producers, Throw(p) PROVE SettledBeforeClosed'
  BY <1>0, <1>2 DEF Throw, SettledBeforeClosed
<1>3. CASE Consumer
  BY <1>0, <1>3 DEF Consumer, Receive, FlowEnds, SettledBeforeClosed
<1>4. CASE UNCHANGED vars
  BY <1>0, <1>4 DEF vars, SettledBeforeClosed
<1>5. QED
  BY <1>1, <1>2, <1>3, <1>4 DEF Next

LEMMA InvInit == Init => IInv
<1> SUFFICES ASSUME Init PROVE IInv
  OBVIOUS
<1>1. StepsFollowProgram
  BY DEF Init, StepsFollowProgram
<1>2. SettledBeforeClosed
  BY DEF Init, SettledBeforeClosed, Outcomes
<1>3. QED
  BY TypeInit, <1>1, <1>2 DEF IInv

LEMMA InvStep == IInv /\ [Next]_vars => IInv'
BY TypeStep, ControlStep, SettledStep DEF IInv

(* The stream's parts keep their types under any race: no producer takes   *)
(* an operation or an event that is not there.                             *)
THEOREM TypeCorrect == Spec => []TypeOK
<1>1. IInv => TypeOK
  BY DEF IInv
<1>2. QED
  BY InvInit, InvStep, <1>1, PTL DEF Spec

(* However many producers race in push() and end(): whoever closes the     *)
(* channel finds the result settled, a result read off an event was        *)
(* accepted first, and the flow ends only on a drained, closed channel.    *)
THEOREM ResultComesFirst == Spec => [](StepsFollowProgram /\ SettledBeforeClosed)
<1>1. IInv => StepsFollowProgram /\ SettledBeforeClosed
  BY DEF IInv
<1>2. QED
  BY InvInit, InvStep, <1>1, PTL DEF Spec

(* A reader whose flow has ended received every accepted event, and the    *)
(* event the result was read off is among them.                            *)
THEOREM ReaderSeesAll == Spec => []ReaderMissesNothing
<1>1. IInv => ReaderMissesNothing
  BY DEF IInv, SettledBeforeClosed, ReaderMissesNothing
<1>2. QED
  BY InvInit, InvStep, <1>1, PTL DEF Spec

-----------------------------------------------------------------------------
(* The last event of agentLoop(). *)

(* What is left of a program without its first operation.                  *)
LEMMA TailOf ==
  ASSUME NEW s \in Seq(Operations), s # <<>>
  PROVE  /\ Head(s) = s[1] /\ 1 \in 1..Len(s) /\ Len(s) \in Nat
         /\ Tail(s) \in Seq(Operations) /\ Len(Tail(s)) = Len(s) - 1
         /\ \A i \in 1..Len(Tail(s)) : Tail(s)[i] = s[i + 1] /\ i + 1 \in 1..Len(s)
<1>1. Len(s) \in Nat /\ Len(s) # 0
  OBVIOUS
<1>2. QED
  BY <1>1, HeadTailProperties

(* Nobody pushes agent_end.                                                *)
Silent ==
  /\ AgentEnd \notin ToSet(accepted)
  /\ \A p \in Producers : \A i \in 1..Len(todo[p]) : todo[p][i] # Push(AgentEnd)

Alone(l) == \A q \in Producers \ {l} : todo[q] = <<>>

(* Where the loop pushes agent_end: only updates and joins come first,     *)
(* a join among them unless the tools are done, and ends follow.           *)
EndsAt(l, k) ==
  /\ todo[l][k] = Push(AgentEnd)
  /\ \A i \in 1..(k - 1) : todo[l][i] \in Updates \cup {Join}
  /\ \A i \in (k + 1)..Len(todo[l]) : todo[l][i].op = "end"
  /\ Alone(l) \/ \E j \in 1..(k - 1) : todo[l][j] = Join

(* The loop l has not pushed agent_end, and nobody has closed the stream.  *)
Before(l) ==
  /\ AgentEnd \notin ToSet(accepted)
  /\ ~closed /\ ~channelClosed /\ result = "pending"
  /\ \A p \in Producers : at[p] \in {"ready", "send"}
  /\ \A q \in Producers \ {l} : \A i \in 1..Len(todo[q]) : todo[q][i] \in Updates
  /\ \E k \in 1..Len(todo[l]) : EndsAt(l, k)

(* agent_end was accepted: its tools are done, and the loop completes the  *)
(* stream with it.                                                         *)
After(l) ==
  /\ Alone(l)
  /\ accepted # <<>> /\ Last(accepted) = AgentEnd
  /\ result \in {"pending", AgentEnd}
  /\ at[l] \in {"ready", "mark", "settle", "close"}
  /\ at[l] # "ready" => todo[l] # <<>> /\ Head(todo[l]) = Push(AgentEnd)
  /\ at[l] # "mark" => closed
  /\ at[l] \in {"ready", "close"} => result = AgentEnd
  /\ \A i \in 1..Len(todo[l]) : (i = 1 /\ at[l] # "ready") \/ todo[l][i].op = "end"

EndInv == Silent \/ \E l \in Producers : Before(l) \/ After(l)

LEMMA EndInit == Init => EndInv
<1> SUFFICES ASSUME Init PROVE EndInv
  OBVIOUS
<1>1. todo \in Programs /\ TypeOK
  BY TypeInit DEF Init
<1>2. /\ accepted = <<>> /\ ToSet(accepted) = {} /\ ~closed /\ ~channelClosed
      /\ result = "pending" /\ \A p \in Producers : at[p] = "ready"
  BY DEF Init, ToSet
<1>3. \A p \in Producers : DOMAIN todo[p] = 1..Len(todo[p])
  BY <1>1 DEF TypeOK
<1>4. CASE \A p \in Producers : Push(AgentEnd) \notin ToSet(todo[p])
  BY <1>2, <1>3, <1>4 DEF EndInv, Silent, ToSet
<1>5. ASSUME NEW l \in Producers, EndsAfterJoin(todo, l) PROVE Before(l)
  <2>1. \A q \in Producers \ {l} : \A i \in 1..Len(todo[q]) : todo[q][i] \in Updates
    BY <1>3, <1>5 DEF EndsAfterJoin, ToSet
  <2>2. \E k \in 1..Len(todo[l]) : EndsAt(l, k)
    BY <1>3, <1>5 DEF EndsAfterJoin, EndsAt, Alone
  <2>3. QED
    BY <1>2, <2>1, <2>2 DEF Before
<1>6. QED
  BY <1>1, <1>4, <1>5, LoopAssumption DEF EndInv, LoopAssumption

(* Where nobody pushes agent_end, nobody ever will.                        *)
LEMMA SilentStep == IInv /\ Silent /\ [Next]_vars => Silent'
<1> SUFFICES ASSUME IInv, Silent, [Next]_vars PROVE Silent'
  OBVIOUS
<1>0. TypeOK /\ StepsFollowProgram
  BY DEF IInv
<1>1. ASSUME NEW p \in Producers, todo[p] # <<>>, Return(p) \/ UNCHANGED todo
      PROVE  \A q \in Producers : \A i \in 1..Len(todo'[q]) : todo'[q][i] # Push(AgentEnd)
  <2>1. \A q \in Producers \ {p} : todo'[q] = todo[q]
    BY <1>0, <1>1 DEF Return, TypeOK
  <2>2. todo[p] \in Seq(Operations) /\ (todo'[p] = todo[p] \/ todo'[p] = Tail(todo[p]))
    BY <1>0, <1>1 DEF Return, TypeOK
  <2>3. ASSUME NEW i \in 1..Len(todo'[p]) PROVE todo'[p][i] # Push(AgentEnd)
    <3>1. CASE todo'[p] = todo[p]
      BY <3>1 DEF Silent
    <3>2. CASE todo'[p] = Tail(todo[p])
      <4>1. todo'[p][i] = todo[p][i + 1] /\ i + 1 \in 1..Len(todo[p])
        BY <1>1, <2>2, <3>2, TailOf
      <4>2. QED
        BY <4>1 DEF Silent
    <3>3. QED
      BY <2>2, <3>1, <3>2
  <2>4. QED
    BY <2>1, <2>3 DEF Silent
<1>2. ASSUME NEW p \in Producers, ProducerStep(p) PROVE Silent'
  <2>1. todo[p] # <<>> /\ (Return(p) \/ UNCHANGED todo)
    BY <1>0, <1>2 DEF ProducerStep, CheckClosed, TrySend, MarkClosed, CompareAndClose, Settle,
                      CloseChannel, JoinOthers, GoOn, Doing, StepsFollowProgram
  <2>2. CASE TrySend(p)
    <3>1. Doing(p, "push") /\ todo[p] \in Seq(Operations)
      BY <1>0, <2>2 DEF TrySend, StepsFollowProgram, TypeOK
    <3>2. Arg(p) \in Events /\ Head(todo[p]) \in Operations /\ Head(todo[p]) = todo[p][1]
      BY <1>0, <2>1, <3>1, ArgTypes, TailOf, HeadTailProperties
    <3>3. Head(todo[p]) = Push(Arg(p))
      BY <3>1, <3>2 DEF Doing, Arg, Push, Operations, Join
    <3>4. Arg(p) # AgentEnd
      BY <2>1, <3>1, <3>2, <3>3, TailOf DEF Silent
    <3>5. AgentEnd \notin ToSet(accepted)'
      BY <1>0, <2>2, <3>2, <3>4, AcceptedGrows DEF TrySend, Silent
    <3>6. QED
      BY <1>1, <2>1, <3>5 DEF Silent
  <2>3. CASE ~TrySend(p)
    <3>1. accepted' = accepted
      BY <1>2, <2>3 DEF ProducerStep, CheckClosed, MarkClosed, CompareAndClose, Settle,
                        CloseChannel, JoinOthers
    <3>2. QED
      BY <1>1, <2>1, <3>1 DEF Silent
  <2>4. QED
    BY <2>2, <2>3
<1>3. ASSUME NEW p \in Producers, Throw(p) PROVE Silent'
  <2>1. \A q \in Producers : todo'[q] = todo[q] \/ todo'[q] = <<>>
    BY <1>0, <1>3 DEF Throw, TypeOK
  <2>2. accepted' = accepted /\ Len(<<>>) = 0
    BY <1>3 DEF Throw
  <2>3. QED
    BY <2>1, <2>2 DEF Silent
<1>4. CASE Consumer \/ UNCHANGED vars
  BY <1>4 DEF Consumer, Receive, FlowEnds, vars, Silent
<1>5. QED
  BY <1>2, <1>3, <1>4 DEF Next

(* What is left of the loop's program before agent_end is pushed.          *)
LEMMA EndsAtTail ==
  ASSUME TypeOK, NEW l \in Producers, NEW k \in 1..Len(todo[l]), EndsAt(l, k),
         todo[l][1] # Push(AgentEnd), todo'[l] = Tail(todo[l]),
         todo[l][1] = Join => Alone(l)', Alone(l) => Alone(l)'
  PROVE  k - 1 \in 1..Len(todo'[l]) /\ EndsAt(l, k - 1)'
<1> DEFINE s == todo[l]
           t == todo'[l]
<1>1. s \in Seq(Operations) /\ s # <<>>
  BY DEF TypeOK
<1>2. /\ Len(s) \in Nat /\ Len(t) = Len(s) - 1
      /\ \A i \in 1..Len(t) : t[i] = s[i + 1] /\ i + 1 \in 1..Len(s)
  BY <1>1, TailOf
<1>3. k # 1 /\ k - 1 \in 1..Len(t) /\ k \in 1..Len(s) /\ (k - 1) + 1 = k
  BY <1>2 DEF EndsAt
<1>4. t[k - 1] = Push(AgentEnd)
  BY <1>2, <1>3 DEF EndsAt
<1>5. \A i \in 1..((k - 1) - 1) : t[i] \in Updates \cup {Join}
  BY <1>2, <1>3 DEF EndsAt
<1>6. \A i \in ((k - 1) + 1)..Len(t) : t[i].op = "end"
  BY <1>2, <1>3 DEF EndsAt
<1>7. Alone(l)' \/ \E j \in 1..((k - 1) - 1) : t[j] = Join
  <2>1. CASE Alone(l) \/ s[1] = Join
    BY <2>1
  <2>2. CASE ~Alone(l) /\ s[1] # Join
    <3>1. PICK j \in 1..(k - 1) : s[j] = Join
      BY <2>2 DEF EndsAt
    <3>2. j # 1 /\ j - 1 \in 1..((k - 1) - 1) /\ j - 1 \in 1..Len(t) /\ (j - 1) + 1 = j
      BY <1>2, <1>3, <2>2, <3>1
    <3>3. t[j - 1] = Join
      BY <1>2, <3>1, <3>2
    <3>4. QED
      BY <3>2, <3>3
  <2>3. QED
    BY <2>1, <2>2
<1>8. QED
  BY <1>3, <1>4, <1>5, <1>6, <1>7 DEF EndsAt

(* A producer that is not the loop.                                        *)
LEMMA OthersKeepBefore ==
  ASSUME IInv, NEW l \in Producers, Before(l), NEW p \in Producers \ {l}, ProducerStep(p) \/ Throw(p)
  PROVE  Before(l)'
<1>0. TypeOK /\ StepsFollowProgram
  BY DEF IInv
<1>1. /\ todo[p] \in Seq(Operations) /\ todo[p] # <<>> /\ todo[p][1] \in Updates
      /\ Head(todo[p]) = todo[p][1] /\ at[p] \in {"ready", "send"}
  <2>1. todo[p] # <<>>
    BY <1>0 DEF ProducerStep, CheckClosed, TrySend, MarkClosed, CompareAndClose, Settle,
                CloseChannel, JoinOthers, Throw, Doing, StepsFollowProgram
  <2>2. QED
    BY <1>0, <2>1, TailOf DEF TypeOK, Before
<1>2. Doing(p, "push") /\ ~Doing(p, "end") /\ ~Doing(p, "join") /\ Arg(p) \in Events \ Terminals
  BY <1>1 DEF Updates, Push, Doing, Arg
<1>3. CheckClosed(p) \/ TrySend(p) \/ Throw(p)
  BY <1>1, <1>2 DEF ProducerStep, MarkClosed, CompareAndClose, Settle, CloseChannel, JoinOthers
<1>4. /\ UNCHANGED <<closed, channelClosed, result>>
      /\ accepted' = accepted \/ accepted' = Append(accepted, Arg(p))
      /\ \A q \in Producers \ {p} : todo'[q] = todo[q] /\ at'[q] = at[q]
      /\ at'[p] \in {"ready", "send"}
      /\ todo'[p] = todo[p] \/ todo'[p] = Tail(todo[p]) \/ todo'[p] = <<>>
  BY <1>0, <1>1, <1>2, <1>3 DEF CheckClosed, TrySend, Throw, Return, GoOn, Step, TypeOK, Before
<1>5. AgentEnd \notin ToSet(accepted)'
  BY <1>0, <1>2, <1>4, AcceptedGrows, StreamAssumption DEF Before
<1>6. ASSUME NEW i \in 1..Len(todo'[p]) PROVE todo'[p][i] \in Updates
  <2>1. CASE todo'[p] = todo[p]
    BY <2>1 DEF Before
  <2>2. CASE todo'[p] = Tail(todo[p])
    <3>1. todo'[p][i] = todo[p][i + 1] /\ i + 1 \in 1..Len(todo[p])
      BY <1>1, <2>2, TailOf
    <3>2. QED
      BY <3>1 DEF Before
  <2>3. CASE todo'[p] = <<>>
    BY <2>3
  <2>4. QED
    BY <1>4, <2>1, <2>2, <2>3
<1>7. todo'[l] = todo[l] /\ (Alone(l) => Alone(l)')
  BY <1>1, <1>4 DEF Alone
<1>8. PICK k \in 1..Len(todo[l]) : EndsAt(l, k)
  BY DEF Before
<1>9. k \in 1..Len(todo'[l]) /\ EndsAt(l, k)'
  BY <1>7, <1>8 DEF EndsAt
<1>10. QED
  BY <1>4, <1>5, <1>6, <1>9 DEF Before

(* The loop itself goes on to agent_end, pushes it, or throws.             *)
LEMMA LoopLeavesBefore ==
  ASSUME IInv, NEW l \in Producers, Before(l), ProducerStep(l) \/ Throw(l)
  PROVE  EndInv'
<1>0. TypeOK /\ StepsFollowProgram
  BY DEF IInv
<1>1. PICK k \in 1..Len(todo[l]) : EndsAt(l, k)
  BY DEF Before
<1>2. /\ todo[l] \in Seq(Operations) /\ todo[l] # <<>> /\ Head(todo[l]) = todo[l][1]
      /\ at[l] \in {"ready", "send"} /\ 1 \in 1..Len(todo[l]) /\ Len(todo[l]) \in Nat
  <2>1. todo[l] \in Seq(Operations) /\ todo[l] # <<>>
    BY <1>0, <1>1 DEF TypeOK
  <2>2. QED
    BY <2>1, TailOf DEF Before
<1>3. CASE Throw(l)
  <2>1. /\ todo'[l] = <<>> /\ \A q \in Producers \ {l} : todo'[q] = todo[q]
        /\ accepted' = accepted
    BY <1>0, <1>3 DEF Throw, TypeOK
  <2>2. \A u \in Updates : u # Push(AgentEnd)
    BY StreamAssumption DEF Updates, Push
  <2>3. \A q \in Producers : \A i \in 1..Len(todo'[q]) : todo'[q][i] # Push(AgentEnd)
    BY <2>1, <2>2 DEF Before
  <2>4. QED
    BY <2>1, <2>3 DEF Before, Silent, EndInv
<1>4. CASE ProducerStep(l) /\ k = 1
  <2>1. Head(todo[l]) = Push(AgentEnd) /\ Doing(l, "push") /\ Arg(l) = AgentEnd
    BY <1>1, <1>2, <1>4 DEF EndsAt, Doing, Arg, Push
  <2>2. Alone(l)
    BY <1>1, <1>4 DEF EndsAt
  <2>3. CASE CheckClosed(l)
    <3>1. UNCHANGED <<accepted, closed, channelClosed, result, todo>> /\ at'[l] = "send"
          /\ \A q \in Producers \ {l} : at'[q] = at[q]
      BY <1>0, <2>3 DEF CheckClosed, GoOn, Step, TypeOK, Before
    <3>2. Before(l)'
      BY <1>1, <3>1 DEF Before, EndsAt, Alone
    <3>3. QED
      BY <3>2 DEF EndInv
  <2>4. CASE TrySend(l)
    <3>1. /\ accepted' = Append(accepted, AgentEnd) /\ at'[l] = "mark"
          /\ UNCHANGED <<closed, channelClosed, result, todo>>
      BY <1>0, <2>1, <2>4, StreamAssumption DEF TrySend, GoOn, Step, TypeOK, Before
    <3>2. accepted' # <<>> /\ Last(accepted') = AgentEnd
      BY <1>0, <3>1, AcceptedGrows, StreamAssumption DEF Last, TypeOK
    <3>3. \A i \in 1..Len(todo[l]) : i = 1 \/ todo[l][i].op = "end"
      BY <1>1, <1>2, <1>4 DEF EndsAt
    <3>4. After(l)'
      BY <1>2, <2>1, <2>2, <3>1, <3>2, <3>3 DEF After, Alone, Before
    <3>5. QED
      BY <3>4 DEF EndInv
  <2>5. QED
    BY <1>2, <1>4, <2>1, <2>3, <2>4 DEF ProducerStep, MarkClosed, CompareAndClose, Settle,
                                       CloseChannel, JoinOthers, Doing
<1>5. CASE ProducerStep(l) /\ k # 1
  <2>1. todo[l][1] \in Updates \cup {Join}
    BY <1>1, <1>2, <1>5 DEF EndsAt
  <2>2. todo[l][1] # Push(AgentEnd)
    BY <2>1, StreamAssumption DEF Updates, Push, Join
  <2>3. /\ ~Doing(l, "end")
        /\ Doing(l, "push") => Arg(l) \in Events \ Terminals /\ todo[l][1] # Join
    BY <1>2, <2>1 DEF Updates, Push, Join, Doing, Arg
  <2>4. CheckClosed(l) \/ TrySend(l) \/ JoinOthers(l)
    BY <1>2, <1>5, <2>3 DEF ProducerStep, MarkClosed, CompareAndClose, Settle, CloseChannel
  <2>5. /\ UNCHANGED <<closed, channelClosed, result>>
        /\ accepted' = accepted \/ (accepted' = Append(accepted, Arg(l)) /\ Doing(l, "push"))
        /\ \A q \in Producers \ {l} : todo'[q] = todo[q] /\ at'[q] = at[q]
        /\ at'[l] \in {"ready", "send"}
        /\ todo'[l] = todo[l] \/ todo'[l] = Tail(todo[l])
        /\ todo'[l] = Tail(todo[l]) /\ todo[l][1] = Join => Alone(l)
    BY <1>0, <2>3, <2>4 DEF CheckClosed, TrySend, JoinOthers, Return, GoOn, Step, TypeOK, Before,
                            Alone, StepsFollowProgram
  <2>6. AgentEnd \notin ToSet(accepted)'
    BY <1>0, <2>3, <2>5, AcceptedGrows, StreamAssumption DEF Before
  <2>7. Alone(l) => Alone(l)'
    BY <2>5 DEF Alone
  <2>8. \E j \in 1..Len(todo'[l]) : EndsAt(l, j)'
    <3>1. CASE todo'[l] = todo[l]
      <4>1. k \in 1..Len(todo'[l]) /\ EndsAt(l, k)'
        BY <1>1, <2>7, <3>1 DEF EndsAt
      <4>2. QED
        BY <4>1
    <3>2. CASE todo'[l] = Tail(todo[l])
      <4>1. k - 1 \in 1..Len(todo'[l]) /\ EndsAt(l, k - 1)'
        BY <1>0, <1>1, <2>2, <2>5, <2>7, <3>2, EndsAtTail
      <4>2. QED
        BY <4>1
    <3>3. QED
      BY <2>5, <3>1, <3>2
  <2>9. Before(l)'
    BY <2>5, <2>6, <2>8 DEF Before
  <2>10. QED
    BY <2>9 DEF EndInv
<1>6. QED
  BY <1>3, <1>4, <1>5

(* Behind agent_end the loop completes the stream, and its end() finds it  *)
(* closed.                                                                 *)
LEMMA AfterStep ==
  ASSUME IInv, NEW l \in Producers, After(l), NEW p \in Producers, ProducerStep(p) \/ Throw(p)
  PROVE  After(l)'
<1>0. TypeOK /\ StepsFollowProgram
  BY DEF IInv
<1>1. todo[p] # <<>>
  BY <1>0 DEF ProducerStep, CheckClosed, TrySend, MarkClosed, CompareAndClose, Settle,
              CloseChannel, JoinOthers, Throw, Doing, StepsFollowProgram
<1>2. p = l
  BY <1>1 DEF After, Alone
<1>3. /\ todo[l] \in Seq(Operations) /\ Head(todo[l]) = todo[l][1] /\ Tail(todo[l]) \in Seq(Operations)
      /\ Len(Tail(todo[l])) \in Nat /\ 1 \in 1..Len(todo[l])
      /\ \A i \in 1..Len(Tail(todo[l])) :
           Tail(todo[l])[i] = todo[l][i + 1] /\ i + 1 \in 1..Len(todo[l]) /\ i + 1 # 1
  BY <1>0, <1>1, <1>2, TailOf DEF TypeOK
<1>4. \A i \in 1..Len(Tail(todo[l])) : Tail(todo[l])[i].op = "end"
  BY <1>3 DEF After
<1>5. at[l] = "ready" => Doing(l, "end") /\ ~Doing(l, "push") /\ ~Doing(l, "join")
  BY <1>1, <1>2, <1>3 DEF After, Doing
<1>6. at[l] # "ready" => Doing(l, "push") /\ Arg(l) = AgentEnd
  BY DEF After, Doing, Arg, Push
<1>7. /\ accepted' = accepted /\ \A q \in Producers \ {l} : todo'[q] = todo[q]
      /\ \/ at[l] = "ready" /\ at'[l] = "ready" /\ UNCHANGED <<closed, result>>
              /\ (todo'[l] = Tail(todo[l]) \/ todo'[l] = <<>>)
         \/ at[l] = "mark" /\ at'[l] = "settle" /\ closed' /\ UNCHANGED <<todo, result>>
         \/ at[l] = "settle" /\ at'[l] = "close" /\ closed' = closed /\ result' = AgentEnd
              /\ UNCHANGED todo
         \/ at[l] = "close" /\ at'[l] = "ready" /\ UNCHANGED <<closed, result>>
              /\ todo'[l] = Tail(todo[l])
  BY <1>0, <1>2, <1>5, <1>6, StreamAssumption
     DEF ProducerStep, CheckClosed, TrySend, MarkClosed, CompareAndClose, Settle, CloseChannel,
         JoinOthers, Throw, Return, GoOn, Step, Complete, TypeOK, After, Outcomes
<1>8. Alone(l)' /\ accepted' # <<>> /\ Last(accepted') = AgentEnd
  BY <1>7 DEF After, Alone
<1>9. CASE at[l] = "ready" /\ at'[l] = "ready" /\ UNCHANGED <<closed, result>>
  <2>1. \A i \in 1..Len(todo'[l]) : todo'[l][i].op = "end"
    <3>1. CASE todo'[l] = Tail(todo[l])
      BY <1>4, <3>1
    <3>2. CASE todo'[l] = <<>>
      BY <3>2
    <3>3. QED
      BY <1>7, <1>9, <3>1, <3>2
  <2>2. QED
    BY <1>8, <1>9, <2>1 DEF After
<1>10. CASE at[l] = "mark" \/ at[l] = "settle"
  BY <1>7, <1>8, <1>10 DEF After
<1>11. CASE at[l] = "close"
  <2>1. /\ at'[l] = "ready" /\ UNCHANGED <<closed, result>>
        /\ \A i \in 1..Len(todo'[l]) : todo'[l][i].op = "end"
    BY <1>4, <1>7, <1>11
  <2>2. QED
    BY <1>8, <1>11, <2>1 DEF After
<1>12. QED
  BY <1>7, <1>9, <1>10, <1>11

LEMMA EndStep == IInv /\ EndInv /\ [Next]_vars => EndInv'
<1> SUFFICES ASSUME IInv, EndInv, [Next]_vars PROVE EndInv'
  OBVIOUS
<1>1. CASE Silent
  BY <1>1, SilentStep DEF EndInv
<1>2. ASSUME NEW l \in Producers, Before(l) \/ After(l) PROVE EndInv'
  <2>1. ASSUME NEW p \in Producers, ProducerStep(p) \/ Throw(p) PROVE EndInv'
    <3>1. CASE After(l)
      BY <2>1, <3>1, AfterStep DEF EndInv
    <3>2. CASE Before(l) /\ p = l
      BY <2>1, <3>2, LoopLeavesBefore
    <3>3. CASE Before(l) /\ p # l
      BY <2>1, <3>3, OthersKeepBefore DEF EndInv
    <3>4. QED
      BY <1>2, <3>1, <3>2, <3>3
  <2>2. CASE Consumer \/ UNCHANGED vars
    <3>1. UNCHANGED <<accepted, closed, result, channelClosed, todo, at>>
      BY <2>2 DEF Consumer, Receive, FlowEnds, vars
    <3>2. (Before(l) => Before(l)') /\ (After(l) => After(l)')
      BY <3>1 DEF Before, After, EndsAt, Alone
    <3>3. QED
      BY <1>2, <3>2 DEF EndInv
  <2>3. QED
    BY <2>1, <2>2 DEF Next
<1>3. QED
  BY <1>1, <1>2 DEF EndInv

(* The stream of agentLoop(): agent_end is the last event the stream       *)
(* accepts and its result, however the tools race before it.               *)
THEOREM LastEvent == Spec => []LastEventIsResult
<1>1. IInv /\ EndInv => LastEventIsResult
  <2> SUFFICES ASSUME IInv, EndInv, channelClosed, AgentEnd \in ToSet(accepted)
               PROVE  Last(accepted) = AgentEnd /\ result = AgentEnd
    BY DEF LastEventIsResult
  <2>1. PICK l \in Producers : After(l)
    BY DEF EndInv, Silent, Before
  <2>2. QED
    BY <2>1 DEF After, IInv, SettledBeforeClosed
<1>2. QED
  BY InvInit, InvStep, EndInit, EndStep, <1>1, PTL DEF Spec

-----------------------------------------------------------------------------
(* Refinement *)

LEMMA PromiseStep == IInv /\ [Next]_vars => [Promise!Next]_(Promise!vars)
<1> SUFFICES ASSUME IInv, [Next]_vars PROVE [Promise!Next]_(Promise!vars)
  OBVIOUS
<1>0. TypeOK /\ StepsFollowProgram /\ SettledBeforeClosed
  BY DEF IInv
<1> USE DEF Promise!vars
<1>1. ASSUME NEW p \in Producers, ProducerStep(p) PROVE [Promise!Next]_(Promise!vars)
  <2>1. CASE CheckClosed(p) \/ MarkClosed(p) \/ CompareAndClose(p) \/ JoinOthers(p)
    BY <2>1 DEF CheckClosed, MarkClosed, CompareAndClose, JoinOthers
  <2>2. CASE TrySend(p)
    <3>1. Arg(p) \in Events
      BY <1>0, <2>2, ArgTypes DEF TrySend, StepsFollowProgram
    <3>2. Promise!Accept(Arg(p)) \/ UNCHANGED Promise!vars
      BY <2>2 DEF TrySend, Promise!Accept
    <3>3. QED
      BY <3>1, <3>2 DEF Promise!Next
  <2>3. CASE Settle(p)
    <3>1. Arg(p) \in Outcomes
      BY <1>0, <2>3, ArgTypes DEF Settle, StepsFollowProgram, Outcomes
    <3>2. Promise!Settle(Arg(p)) \/ UNCHANGED Promise!vars
      BY <1>0, <2>3 DEF Settle, Complete, SettledBeforeClosed, Promise!Settle
    <3>3. QED
      BY <3>1, <3>2 DEF Promise!Next
  <2>4. CASE CloseChannel(p)
    BY <1>0, <2>4 DEF CloseChannel, SettledBeforeClosed, Promise!End, Promise!Next
  <2>5. QED
    BY <1>1, <2>1, <2>2, <2>3, <2>4 DEF ProducerStep
<1>2. ASSUME NEW p \in Producers, Throw(p) PROVE [Promise!Next]_(Promise!vars)
  BY <1>2 DEF Throw
<1>3. CASE Consumer
  BY <1>3 DEF Consumer, Receive, FlowEnds
<1>4. CASE UNCHANGED vars
  BY <1>4 DEF vars
<1>5. QED
  BY <1>1, <1>2, <1>3, <1>4 DEF Next

(* EventStream implements ResultStream: events only appended, the result   *)
(* settled once, nothing accepted after the end, for any producers.        *)
THEOREM StreamKeepsPromise == Spec => ResultStreamSpec
<1>1. Init => Promise!Init
  BY DEF Init, Promise!Init
<1>2. QED
  BY InvInit, InvStep, PromiseStep, <1>1, PTL DEF Spec, ResultStreamSpec, Promise!Spec
=============================================================================
