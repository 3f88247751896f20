------------------------- MODULE AgentSessionProofs -------------------------
(***************************************************************************)
(* AgentSession, proved for every number of callers, messages and entries: *)
(* TypeOK, MessagesAreKept, QueuesAreShown, ModelSeesSession and           *)
(* RecoveryIsSound.                                                        *)
(*                                                                         *)
(* Shapes types the state part by part. Ledger counts, for every number,   *)
(* the places in which a message with that number is: one when it was      *)
(* sent, none else. ShownInv relates the list the user sees to the queues, *)
(* the run and what is lost; it needs the ledger, for a message that is    *)
(* said leaves the list and must not be queued a second time. SeesInv      *)
(* compares the agent's messages with the context of the session, and      *)
(* needs that every step either says something, which ends both, applies   *)
(* a compaction, which makes one of the other, or strips an error; it is   *)
(* suspended while the agent has not been told of a compaction.            *)
(* BoundInv weighs recoveries from overflows against what allows them,     *)
(* TurnInv says what the end of a run and the continue find.               *)
(***************************************************************************)
EXTENDS AgentSession, SequenceLemmas, TLAPS

-----------------------------------------------------------------------------
-----------------------------------------------------------------------------
(* The numbers of a set in their order. *)
Below(S, n) == {k \in S : k < n}
Chosen(A)   == CHOOSE n \in A : TRUE

(* The number at a place of the order.                                     *)
LEMMA InOrderAt ==
  ASSUME NEW S
  PROVE  /\ DOMAIN InOrder(S) = 1..Cardinality(S)
         /\ \A i \in 1..Cardinality(S) : InOrder(S)[i] = Chosen(AtRank(S, i))
         /\ InOrder(S) = [i \in 1..Cardinality(S) |-> InOrder(S)[i]]
BY DEF InOrder, Chosen

(* A number above all others comes last and changes no other rank.         *)
LEMMA InOrderGrows ==
  ASSUME NEW S, S \subseteq Nat, IsFiniteSet(S), NEW x \in Nat, \A k \in S : k < x
  PROVE  /\ Cardinality(S) \in Nat /\ Cardinality(S \cup {x}) = Cardinality(S) + 1
         /\ \A i \in 1..Cardinality(S) : InOrder(S \cup {x})[i] = InOrder(S)[i]
         /\ InOrder(S \cup {x})[Cardinality(S) + 1] = x
<1> DEFINE T == S \cup {x}
           c == Cardinality(S)
<1>1. x \notin S /\ c \in Nat /\ Cardinality(T) = c + 1 /\ IsFiniteSet(T)
  BY FS_AddElement, FS_CardinalityType
<1>2. \A m \in S : Below(T, m) = Below(S, m)
  BY DEF Below
<1>3. Below(T, x) = S
  <2>1. ~(x < x) /\ \A k \in S : k < x
    OBVIOUS
  <2>2. QED
    BY <2>1, Zenon DEF Below
<1>4. \A m \in S : Cardinality(Below(S, m)) \in Nat /\ Cardinality(Below(S, m)) < c
  <2> SUFFICES ASSUME NEW m \in S
               PROVE  Cardinality(Below(S, m)) \in Nat /\ Cardinality(Below(S, m)) < c
    OBVIOUS
  <2>1. Below(S, m) \in SUBSET S /\ Below(S, m) # S
    BY DEF Below
  <2>2. /\ IsFiniteSet(Below(S, m)) /\ Cardinality(Below(S, m)) <= c
        /\ Cardinality(Below(S, m)) # c
    BY <2>1, FS_Subset
  <2>3. QED
    BY <1>1, <2>2, FS_CardinalityType
<1>5. ASSUME NEW i \in 1..c PROVE InOrder(T)[i] = InOrder(S)[i]
  <2>1. \A m \in T : Cardinality(Below(T, m)) = i - 1 <=> m \in S /\ Cardinality(Below(S, m)) = i - 1
    BY <1>1, <1>2, <1>3
  <2>2. AtRank(T, i) = AtRank(S, i)
    BY <2>1 DEF AtRank, Below
  <2>3. i \in 1..Cardinality(T)
    BY <1>1
  <2>4. QED
    BY <2>2, <2>3, InOrderAt
<1>6. InOrder(T)[c + 1] = x
  <2>1. \A m \in T : Cardinality(Below(T, m)) = (c + 1) - 1 <=> m = x
    BY <1>1, <1>2, <1>3, <1>4
  <2>2. AtRank(T, c + 1) = {x}
    BY <2>1 DEF AtRank, Below
  <2>3. c + 1 \in 1..Cardinality(T)
    BY <1>1
  <2>4. InOrder(T)[c + 1] = Chosen({x})
    BY <2>2, <2>3, InOrderAt
  <2>5. QED
    BY <2>4 DEF Chosen
<1>7. QED
  BY <1>1, <1>5, <1>6

(* The order of a set is a sequence of its numbers.                        *)
LEMMA InOrderType ==
  ASSUME NEW n \in Nat, NEW S \in SUBSET (0..n)
  PROVE  IsFiniteSet(S) /\ Cardinality(S) \in Nat /\ InOrder(S) \in Seq(S)
<1>0. \A k \in Nat : \A T \in SUBSET (0..k) : IsFiniteSet(T) /\ Cardinality(T) \in Nat
  <2> SUFFICES ASSUME NEW k \in Nat, NEW T \in SUBSET (0..k)
               PROVE  IsFiniteSet(T) /\ Cardinality(T) \in Nat
    OBVIOUS
  <2>1. IsFiniteSet(0..k)
    BY FS_Interval
  <2>2. IsFiniteSet(T)
    BY <2>1, FS_Subset
  <2>3. QED
    BY <2>2, FS_CardinalityType
<1> DEFINE G == {k \in Nat : \A T \in SUBSET (0..k) : InOrder(T) \in Seq(T)}
<1>1. InOrder({}) \in Seq({})
  <2>1. Cardinality({}) = 0
    BY FS_EmptySet
  <2>2. InOrder({}) = <<>>
    BY <2>1 DEF InOrder
  <2>3. <<>> \in Seq({})
    OBVIOUS
  <2>4. QED
    BY <2>2, <2>3, Zenon
<1>2. ASSUME NEW k \in Nat, NEW x \in Nat, NEW T \in SUBSET (0..k), InOrder(T) \in Seq(T), x > k
      PROVE  InOrder(T \cup {x}) \in Seq(T \cup {x})
  <2>0. IsFiniteSet(T)
    BY <1>0
  <2>1. T \subseteq Nat /\ IsFiniteSet(T) /\ \A j \in T : j < x
    BY <1>2, <2>0
  <2>2. /\ Cardinality(T) \in Nat /\ Cardinality(T \cup {x}) = Cardinality(T) + 1
        /\ \A i \in 1..Cardinality(T) : InOrder(T \cup {x})[i] = InOrder(T)[i]
        /\ InOrder(T \cup {x})[Cardinality(T) + 1] = x
    BY <2>1, InOrderGrows
  <2>3. /\ DOMAIN InOrder(T) = 1..Cardinality(T)
        /\ InOrder(T \cup {x}) = [i \in 1..Cardinality(T \cup {x}) |-> InOrder(T \cup {x})[i]]
    BY InOrderAt
  <2>4. \A i \in 1..Cardinality(T) : InOrder(T)[i] \in T
    BY <1>2, <2>3, SeqValues, Zenon
  <2>5. \A i \in 1..(Cardinality(T) + 1) : InOrder(T \cup {x})[i] \in T \cup {x}
    BY <2>2, <2>4
  <2> DEFINE c == Cardinality(T \cup {x})
             f == InOrder(T \cup {x})
  <2>6. c \in Nat /\ f = [i \in 1..c |-> f[i]] /\ \A i \in 1..c : f[i] \in T \cup {x}
    <3>1. f = [i \in 1..c |-> f[i]]
      BY <2>3, Zenon
    <3>2. c \in Nat /\ c = Cardinality(T) + 1
      BY <2>2
    <3>3. QED
      BY <2>5, <3>1, <3>2
  <2> HIDE DEF c, f
  <2>7. f \in Seq(T \cup {x})
    BY <2>6
  <2>8. QED
    BY <2>7 DEF f
<1>3. 0 \in G
  <2> SUFFICES ASSUME NEW T \in SUBSET (0..0) PROVE InOrder(T) \in Seq(T)
    OBVIOUS
  <2>1. CASE T = {}
    BY <1>1, <2>1
  <2>2. CASE T = {0}
    <3> DEFINE e == {}
               o == e \cup {0}
    <3>1. Cardinality(e) = 0 /\ IsFiniteSet(e) /\ e \subseteq Nat /\ \A k \in e : k < 0
      BY FS_EmptySet
    <3> HIDE DEF e
    <3>2. Cardinality(o) = Cardinality(e) + 1 /\ InOrder(o)[Cardinality(e) + 1] = 0
      <4>1. 0 \in Nat
        OBVIOUS
      <4>2. QED
        BY <3>1, <4>1, InOrderGrows, Zenon
    <3>3. Cardinality(o) = 1 /\ InOrder(o)[1] = 0
      BY <3>1, <3>2
    <3>4. InOrder(o) = [i \in 1..Cardinality(o) |-> InOrder(o)[i]]
      BY InOrderAt
    <3>5. o = T
      BY <2>2 DEF e
    <3> HIDE DEF o
    <3>6. InOrder(T) = [i \in 1..1 |-> InOrder(T)[i]] /\ InOrder(T)[1] \in T
      BY <2>2, <3>3, <3>4, <3>5
    <3> DEFINE f == InOrder(T)
    <3>7. f = [i \in 1..1 |-> f[i]] /\ f[1] \in T
      BY <3>6
    <3> HIDE DEF f
    <3>8. f \in Seq(T)
      BY <3>7
    <3>9. QED
      BY <3>8 DEF f
  <2>3. T = {} \/ T = {0}
    <3>1. 0..0 = {0}
      OBVIOUS
    <3>2. QED
      BY <3>1
  <2>4. QED
    BY <2>1, <2>2, <2>3
<1>4. ASSUME NEW k \in Nat, k \in G PROVE k + 1 \in G
  <2> SUFFICES ASSUME NEW T \in SUBSET (0..(k + 1)) PROVE InOrder(T) \in Seq(T)
    OBVIOUS
  <2>1. CASE k + 1 \notin T
    <3>1. T \in SUBSET (0..k)
      BY <2>1
    <3>2. QED
      BY <1>4, <3>1
  <2>2. CASE k + 1 \in T
    <3>1. T \ {k + 1} \in SUBSET (0..k) /\ T = (T \ {k + 1}) \cup {k + 1}
      BY <2>2
    <3> DEFINE R == T \ {k + 1}
               x == k + 1
    <3>2. InOrder(R) \in Seq(R)
      BY <1>4, <3>1
    <3>3. k \in Nat /\ x \in Nat /\ R \in SUBSET (0..k) /\ x > k /\ T = R \cup {x}
      BY <3>1
    <3> HIDE DEF R, x
    <3>4. InOrder(R \cup {x}) \in Seq(R \cup {x})
      BY <1>2, <3>2, <3>3, Zenon
    <3>5. QED
      BY <3>3, <3>4, Zenon
  <2>3. QED
    BY <2>1, <2>2
<1> HIDE DEF G
<1>5. Nat \subseteq G
  BY <1>3, <1>4, NumberInduction
<1>6. QED
  BY <1>0, <1>5 DEF G

-----------------------------------------------------------------------------
(* The types.                                                              *)
Spoken  == {"user", "custom"}
Kinds   == Spoken \cup Good \cup Errors \cup Compactions
Entries == [kind : Kinds, of : Nat]
Said    == [kind : Spoken, of : Nat \ {0}]
Queued  == [kind : {"user"}, of : Nat \ {0}]
Waiting == [kind : {"custom"}, of : Nat \ {0}]
Stages  == {"idle", "saying", "polling", "asking", "ending", "compacting"}
Runs    == [stage : Stages, toSay : Seq(Said), poll : BOOLEAN]
Pending == [kind : Compactions \cup {"none"}, kept : Nat, aborted : BOOLEAN]

SessionOK ==
  /\ entries \in Seq(Entries) /\ Len(entries) <= MaxEntries
  /\ messages \in Seq(0..Len(entries))

RunOK == run \in Runs /\ (run.stage = "saying") = (run.toSay # <<>>)

QueuesOK ==
  /\ steering \in Seq(Queued) /\ followUp \in Seq(Queued)
  /\ pendingNextTurnMessages \in Seq(Waiting)

CompactionsOK ==
  /\ overflowRecoveryAttempted \in BOOLEAN
  /\ compacting \in [Owners -> Pending]
  /\ \A o \in Owners : compacting[o].kept <= Len(entries)
  /\ controller \in Owners \cup {NoOne}
  /\ controller # NoOne => compacting[controller].kind # "none"

CountsOK ==
  /\ sent \in Nat /\ scheduled \in Nat
  /\ asked \in [Callers -> Nat]
  /\ shown \subseteq 1..sent
  /\ dropped \subseteq Nat \ {0}

Shapes ==
  SessionOK /\ RunOK /\ QueuesOK /\ CompactionsOK /\ CountsOK /\ unseen \in BOOLEAN

(* The last compaction is one, and none comes after it.                    *)
LEMMA LastCompactionType ==
  ASSUME NEW es, es \in Seq(Entries)
  PROVE  /\ LastCompaction(es) \in 0..Len(es)
         /\ LastCompaction(es) = 0 => \A i \in 1..Len(es) : es[i].kind \notin Compactions
         /\ LastCompaction(es) # 0 =>
              /\ es[LastCompaction(es)].kind \in Compactions
              /\ \A i \in 1..Len(es) : es[i].kind \in Compactions => i <= LastCompaction(es)
<1> DEFINE places == {i \in DOMAIN es : es[i].kind \in Compactions}
<1>1. Len(es) \in Nat /\ DOMAIN es = 1..Len(es) /\ places \in SUBSET (0..Len(es)) /\ 0 \notin places
  OBVIOUS
<1>2. CASE places = {}
  <2>1. LastCompaction(es) = 0
    BY <1>2 DEF LastCompaction
  <2>2. QED
    BY <1>1, <1>2, <2>1
<1>3. CASE places # {}
  <2>1. \E i \in places : \A j \in places : j <= i
    BY <1>1, <1>3, Largest
  <2>2. LastCompaction(es) = CHOOSE i \in places : \A j \in places : j <= i
    BY <1>3 DEF LastCompaction
  <2>3. LastCompaction(es) \in places /\ \A j \in places : j <= LastCompaction(es)
    BY <2>1, <2>2
  <2>4. QED
    BY <1>1, <2>3
<1>4. QED
  BY <1>2, <1>3

(* What is spoken are places of entries.                                   *)
LEMMA SpokenInType ==
  ASSUME NEW es, es \in Seq(Entries), NEW m, NEW n
  PROVE  SpokenIn(es, m, n) \in Seq(1..Len(es))
<1> DEFINE S == {i \in DOMAIN es : i \in m..n /\ es[i].kind \notin Compactions}
<1>1. Len(es) \in Nat /\ S \in SUBSET (0..Len(es)) /\ S \subseteq 1..Len(es)
  OBVIOUS
<1>2. SpokenIn(es, m, n) = InOrder(S)
  BY DEF SpokenIn
<1> HIDE DEF S
<1>3. InOrder(S) \in Seq(S)
  BY <1>1, InOrderType
<1>4. QED
  BY <1>1, <1>2, <1>3, SeqGrows, Zenon

(* The context names places of entries.                                    *)
LEMMA ContextType ==
  ASSUME NEW es, es \in Seq(Entries)
  PROVE  Context(es) \in Seq(1..Len(es))
<1> DEFINE c == LastCompaction(es)
           T == 1..Len(es)
<1>1. c \in 0..Len(es) /\ Len(es) \in Nat
  BY LastCompactionType
<1> HIDE DEF c
<1>2. CASE c = 0
  <2>1. Context(es) = SpokenIn(es, 1, Len(es))
    BY <1>2 DEF Context, c
  <2>2. QED
    BY <2>1, SpokenInType
<1>3. CASE c # 0
  <2> DEFINE u == SpokenIn(es, es[c].of, c - 1)
             v == SpokenIn(es, c + 1, Len(es))
  <2>1. Context(es) = <<c>> \o u \o v
    BY <1>3 DEF Context, c
  <2>2. u \in Seq(T) /\ v \in Seq(T)
    BY SpokenInType
  <2>3. c \in T
    BY <1>1, <1>3
  <2> HIDE DEF u, v, T
  <2>4. <<c>> \in Seq(T)
    BY <2>3
  <2>5. <<c>> \o u \in Seq(T)
    BY <2>2, <2>4
  <2>6. <<c>> \o u \o v \in Seq(T)
    BY <2>2, <2>5
  <2>7. QED
    BY <2>1, <2>6 DEF T
<1>4. QED
  BY <1>2, <1>3

-----------------------------------------------------------------------------
(* The session's entries and the agent's messages.                         *)
LEMMA WithoutTrailingErrorType ==
  ASSUME NEW N, NEW es, NEW ms, ms \in Seq(N)
  PROVE  WithoutTrailingError(es, ms) \in Seq(N)
<1>1. ms # <<>> => Front(ms) \in Seq(N)
  BY DEF Front
<1>2. QED
  BY <1>1 DEF WithoutTrailingError

(* What callers, the model and compactions add are entries.                *)
LEMMA NewEntries ==
  /\ \A n \in Nat \ {0} : User(n) \in Queued /\ Custom(n) \in Waiting
  /\ Queued \subseteq Said /\ Waiting \subseteq Said /\ Said \subseteq Entries
  /\ \A kind \in Answers : Entry(kind, 0) \in Entries
  /\ \A kind \in Compactions, n \in Nat : Entry(kind, n) \in Entries
BY AgentSessionAssumption DEF User, Custom, Entry, Queued, Waiting, Said, Entries, Spoken, Kinds, Good, Errors, Compactions

(* A message was said.                                                     *)
LEMMA SessionSaid ==
  ASSUME SessionOK, NEW e \in Entries, Len(entries) < MaxEntries,
         entries' = Append(entries, e),
         messages' = Append(messages, Len(entries) + 1) \/ messages' = messages \o <<Len(entries) + 1, 0>>
  PROVE  SessionOK'
<1> DEFINE n == Len(entries)
<1>1. n \in Nat /\ entries' \in Seq(Entries) /\ Len(entries') = n + 1 /\ messages \in Seq(0..n)
  BY DEF SessionOK
<1>2. Len(entries') <= MaxEntries
  BY <1>1, AgentSessionAssumption
<1>3. messages \in Seq(0..(n + 1))
  <2>1. 0..n \subseteq 0..(n + 1)
    BY <1>1
  <2>2. QED
    BY <1>1, <2>1, SeqGrows, Zenon
<1> HIDE DEF n
<1>4. Append(messages, n + 1) \in Seq(0..(n + 1))
  BY <1>1, <1>3
<1>5. messages \o <<n + 1, 0>> \in Seq(0..(n + 1))
  <2>1. <<n + 1, 0>> \in Seq(0..(n + 1))
    BY <1>1
  <2>2. QED
    BY <1>3, <2>1
<1>6. messages' \in Seq(0..(n + 1))
  BY <1>4, <1>5 DEF n
<1>7. QED
  BY <1>1, <1>2, <1>6, Zenon DEF SessionOK

(* A compaction was added, and the agent was told of it or not.            *)
LEMMA SessionCompacted ==
  ASSUME SessionOK, CompactionsOK, NEW o \in Owners, compacting[o].kind # "none",
         AppendCompaction(o) \/ AppendFails(o)
  PROVE  SessionOK'
<1> DEFINE e == Entry(compacting[o].kind, compacting[o].kept)
           es == Append(entries, e)
<1>1. e \in Entries
  BY NewEntries DEF CompactionsOK, Pending
<1>2. es \in Seq(Entries) /\ Len(es) = Len(entries) + 1 /\ Len(entries) \in Nat
  BY <1>1 DEF SessionOK
<1>3. entries' = es /\ Len(entries) < MaxEntries
      /\ \/ messages' = Context(es) \/ messages' = WithoutTrailingError(es, Context(es))
         \/ messages' = messages
  BY DEF AppendCompaction, AppendFails
<1> HIDE DEF es
<1>4. Context(es) \in Seq(1..Len(es))
  BY <1>2, ContextType
<1>5. 1..Len(es) \subseteq 0..Len(es)
  BY <1>2
<1>6. Context(es) \in Seq(0..Len(es))
  BY <1>4, <1>5, SeqGrows, Zenon
<1>7. messages' \in Seq(0..Len(es))
  <2>1. 0..Len(entries) \subseteq 0..Len(es)
    BY <1>2
  <2>2. messages \in Seq(0..Len(es))
    BY <2>1, SeqGrows, Zenon DEF SessionOK
  <2>3. QED
    BY <1>3, <1>6, <2>2, WithoutTrailingErrorType, Zenon
<1>8. Len(es) <= MaxEntries
  BY <1>2, <1>3, AgentSessionAssumption
<1>9. QED
  BY <1>2, <1>3, <1>7, <1>8, Zenon DEF SessionOK

(* Every step keeps the entries and the messages.                          *)
LEMMA SessionStep ==
  ASSUME SessionOK, RunOK, CompactionsOK, CountsOK, [Next]_vars
  PROVE  SessionOK'
<1>0. CASE UNCHANGED <<entries, messages>>
  BY <1>0 DEF SessionOK
<1>1. CASE UNCHANGED entries /\ messages' = WithoutTrailingError(entries, messages)
  BY <1>1, WithoutTrailingErrorType, Zenon DEF SessionOK
<1>2. ASSUME NEW o \in Owners, EndCompaction(o) PROVE SessionOK'
  BY <1>0, <1>2, SessionCompacted DEF EndCompaction, LeaveCompaction
<1>3. ASSUME NEW e \in Entries, Hear(e), Persisted(e) \/ Fails(e)
      PROVE  SessionOK'
  BY <1>3, SessionSaid DEF Hear, Persisted, Fails
<1>4. ASSUME NEW c \in Callers, Prompt(c) PROVE SessionOK'
  BY <1>0, <1>1, <1>4 DEF Prompt, SkipAutoCompaction, StartAutoCompaction
<1>5. ASSUME NEW c \in Callers, PromptAfterCompaction(c) PROVE SessionOK'
  BY <1>2, <1>5 DEF PromptAfterCompaction, Owners
<1>6. ASSUME NEW c \in Callers, Compact(c) PROVE SessionOK'
  BY <1>0, <1>6 DEF Compact
<1>7. ASSUME NEW c \in Callers, EndCompact(c) PROVE SessionOK'
  BY <1>2, <1>7 DEF EndCompact, Owners
<1>8. CASE Queue
  BY <1>0, <1>8 DEF Queue
<1>9. CASE SendCustomMessage
  <2>1. CASE UNCHANGED <<entries, messages>>
    BY <1>0, <2>1
  <2>2. CASE /\ Len(entries) < MaxEntries
             /\ entries' = Append(entries, Custom(sent + 1))
             /\ messages' = Append(messages, Len(entries) + 1)
    <3>1. Custom(sent + 1) \in Entries
      BY NewEntries DEF CountsOK
    <3>2. QED
      BY <2>2, <3>1, SessionSaid
  <2>3. QED
    BY <1>9, <2>1, <2>2 DEF SendCustomMessage
<1>10. CASE ClearQueue
  BY <1>0, <1>10 DEF ClearQueue
<1>11. CASE AbortCompaction
  BY <1>0, <1>11 DEF AbortCompaction
<1>12. CASE Say
  <2>1. Head(run.toSay) \in Entries
    BY <1>12, NewEntries DEF Say, RunOK, Runs
  <2>2. /\ Hear(Head(run.toSay))
        /\ Persisted(Head(run.toSay)) \/ Fails(Head(run.toSay))
    BY <1>12 DEF Say
  <2>3. QED
    BY <1>3, <2>1, <2>2
<1>13. CASE PollFirst
  BY <1>0, <1>13 DEF PollFirst
<1>14. CASE Answer
  BY <1>3, <1>14, NewEntries DEF Answer
<1>15. CASE EndOfRun
  BY <1>2, <1>15 DEF EndOfRun, Owners
<1>16. CASE Continue
  BY <1>0, <1>16 DEF Continue
<1>17. CASE End
  BY <1>0, <1>1, <1>17 DEF End, SkipAutoCompaction, StartAutoCompaction
<1>18. CASE UNCHANGED vars
  BY <1>0, <1>18 DEF vars
<1>19. QED
  BY <1>4, <1>5, <1>6, <1>7, <1>8, <1>9, <1>10, <1>11, <1>12, <1>13, <1>14, <1>15, <1>16, <1>17, <1>18
     DEF Next

-----------------------------------------------------------------------------
(* The agent's run.                                                        *)
LEMMA RunBegun ==
  ASSUME NEW toSay \in Seq(Said), NEW poll \in BOOLEAN, Begin(toSay, poll)
  PROVE  RunOK'
<1>1. CASE toSay = <<>>
  <2>1. run' = [stage |-> "polling", toSay |-> toSay, poll |-> poll]
    BY <1>1 DEF Begin
  <2>2. QED
    BY <1>1, <2>1 DEF RunOK, Runs, Stages
<1>2. CASE toSay # <<>>
  <2>1. run' = [stage |-> "saying", toSay |-> toSay, poll |-> poll]
    BY <1>2 DEF Begin
  <2>2. QED
    BY <1>2, <2>1 DEF RunOK, Runs, Stages
<1>3. QED
  BY <1>1, <1>2

(* Sequences of the narrower kinds of entries.                             *)
LEMMA PlainSequences ==
  /\ \A s \in Seq(Queued) : s \in Seq(Said)
  /\ \A s \in Seq(Waiting) : s \in Seq(Said)
  /\ <<>> \in Seq(Said) /\ <<>> \in Seq(Queued) /\ <<>> \in Seq(Waiting)
  /\ \A x \in Said : <<x>> \in Seq(Said)
  /\ \A s \in Seq(Queued) : s # <<>> => Head(s) \in Queued /\ Tail(s) \in Seq(Queued)
<1>1. Queued \subseteq Said /\ Waiting \subseteq Said
  BY NewEntries
<1>2. Seq(Queued) \subseteq Seq(Said) /\ Seq(Waiting) \subseteq Seq(Said)
  BY <1>1, SeqGrows
<1>3. /\ <<>> \in Seq(Said) /\ <<>> \in Seq(Queued) /\ <<>> \in Seq(Waiting)
      /\ \A x \in Said : <<x>> \in Seq(Said)
      /\ \A s \in Seq(Queued) : s # <<>> => Head(s) \in Queued /\ Tail(s) \in Seq(Queued)
  OBVIOUS
<1>4. QED
  BY <1>2, <1>3, Zenon

(* What a poll takes from a queue, the run says.                           *)
LEMMA RunSaysOne ==
  ASSUME NEW s \in Seq(Queued), s # <<>>
  PROVE  <<Head(s)>> \in Seq(Said) /\ <<Head(s)>> # <<>>
<1>1. Head(s) \in Said
  BY PlainSequences, NewEntries
<1>2. QED
  BY <1>1

(* prompt() reached the agent.                                             *)
LEMMA RunPrompted ==
  ASSUME RunOK, QueuesOK, NEW n \in Nat \ {0}, PromptAgent(n)
  PROVE  RunOK'
<1> DEFINE toSay == <<User(n)>> \o pendingNextTurnMessages
<1>1. <<User(n)>> \in Seq(Said) /\ pendingNextTurnMessages \in Seq(Said)
  BY NewEntries, PlainSequences DEF QueuesOK
<1>2. toSay \in Seq(Said)
  BY <1>1
<1>3. UNCHANGED run \/ Begin(toSay, TRUE)
  BY DEF PromptAgent
<1> HIDE DEF toSay
<1>4. QED
  BY <1>2, <1>3, RunBegun DEF RunOK

(* A run failed at the file.                                               *)
LEMMA RunFails ==
  ASSUME RunOK, NEW e, Fails(e)
  PROVE  RunOK'
<1>1. run' = [stage |-> "ending", toSay |-> <<>>, poll |-> run.poll] /\ run.poll \in BOOLEAN
  BY DEF RunOK, Runs, Fails
<1>2. [stage |-> "ending", toSay |-> <<>>, poll |-> run.poll] \in Runs
  BY <1>1, PlainSequences DEF Runs, Stages
<1>3. run'.stage # "saying" /\ run'.toSay = <<>>
  BY <1>1
<1>4. QED
  BY <1>1, <1>2, <1>3, Zenon DEF RunOK

(* Every step keeps the run.                                               *)
LEMMA RunStep ==
  ASSUME RunOK, QueuesOK, CountsOK, [Next]_vars
  PROVE  RunOK'
<1>0. CASE UNCHANGED run
  BY <1>0 DEF RunOK
<1>1. ASSUME NEW stage \in Stages \ {"saying"}, run' = [Idle EXCEPT !.stage = stage]
      PROVE  RunOK'
  <2>1. run' = [stage |-> stage, toSay |-> <<>>, poll |-> FALSE]
    BY <1>1 DEF Idle
  <2> DEFINE r == [stage |-> stage, toSay |-> <<>>, poll |-> FALSE]
  <2>2. r \in Runs /\ r.stage # "saying" /\ r.toSay = <<>>
    <3>1. stage \in Stages /\ stage # "saying" /\ <<>> \in Seq(Said)
      BY <1>1, PlainSequences
    <3>2. QED
      BY <3>1 DEF Runs
  <2>3. QED
    BY <2>1, <2>2, Zenon DEF RunOK
<1>2. ASSUME NEW s \in Seq(Queued), s # <<>>,
             run' = [stage |-> "saying", toSay |-> <<Head(s)>>, poll |-> FALSE]
      PROVE  RunOK'
  <2> DEFINE toSay == <<Head(s)>>
  <2>1. toSay \in Seq(Said) /\ toSay # <<>>
    BY <1>2, RunSaysOne
  <2>2. run' = [stage |-> "saying", toSay |-> toSay, poll |-> FALSE]
    BY <1>2
  <2> HIDE DEF toSay
  <2>3. QED
    BY <2>1, <2>2 DEF RunOK, Runs, Stages
<1>3. ASSUME NEW s \in Seq(Queued), s # <<>>, NEW poll \in BOOLEAN, Begin(<<Head(s)>>, poll)
      PROVE  RunOK'
  BY <1>3, RunSaysOne, RunBegun
<1>4. ASSUME NEW c \in Callers, Prompt(c) PROVE RunOK'
  <2>1. sent + 1 \in Nat \ {0}
    BY DEF CountsOK
  <2>2. QED
    BY <1>0, <1>4, <2>1, RunPrompted DEF Prompt
<1>5. ASSUME NEW c \in Callers, PromptAfterCompaction(c) PROVE RunOK'
  <2>1. asked[c] \in Nat \ {0}
    BY <1>5 DEF CountsOK, PromptAfterCompaction
  <2>2. QED
    BY <1>5, <2>1, RunPrompted DEF PromptAfterCompaction
<1>6. ASSUME NEW c \in Callers, Compact(c) \/ EndCompact(c) PROVE RunOK'
  BY <1>0, <1>6 DEF Compact, EndCompact
<1>7. CASE Queue \/ SendCustomMessage \/ ClearQueue \/ AbortCompaction
  BY <1>0, <1>7 DEF Queue, SendCustomMessage, ClearQueue, AbortCompaction
<1>8. CASE Say
  <2>1. CASE \E e : Fails(e)
    BY <2>1, RunFails
  <2>2. CASE run' = [run EXCEPT !.toSay = Tail(@), !.stage =
             IF Len(run.toSay) > 1 THEN "saying" ELSE IF run.poll THEN "polling" ELSE "asking"]
    <3>1. run.toSay \in Seq(Said) /\ run.toSay # <<>>
      BY <1>8 DEF RunOK, Runs, Say
    <3>2. /\ Tail(run.toSay) \in Seq(Said)
          /\ Tail(run.toSay) # <<>> <=> Len(run.toSay) > 1
      BY <3>1, TailEmpty
    <3> DEFINE toSay == Tail(run.toSay)
               stage == IF Len(run.toSay) > 1 THEN "saying"
                        ELSE IF run.poll THEN "polling" ELSE "asking"
    <3>3. stage \in Stages /\ (stage = "saying") = (toSay # <<>>)
      BY <3>2 DEF Stages
    <3>4. run' = [run EXCEPT !.toSay = toSay, !.stage = stage] /\ toSay \in Seq(Said)
      BY <2>2, <3>2
    <3> HIDE DEF toSay, stage
    <3>5. run' \in Runs /\ run'.stage = stage /\ run'.toSay = toSay
      BY <3>3, <3>4 DEF RunOK, Runs
    <3>6. QED
      BY <3>3, <3>5, Zenon DEF RunOK
  <2>3. QED
    BY <1>8, <2>1, <2>2 DEF Say
<1>9. CASE PollFirst
  <2>1. CASE run' = [run EXCEPT !.stage = "asking", !.poll = FALSE]
    BY <1>9, <2>1 DEF RunOK, Runs, Stages, PollFirst
  <2>2. QED
    BY <1>2, <1>9, <2>1 DEF PollFirst, QueuesOK
<1>10. CASE Answer
  <2>1. CASE \E e : Fails(e)
    BY <2>1, RunFails
  <2>2. ASSUME NEW kind, PollAfter(Entry(kind, 0)) PROVE RunOK'
    BY <1>1, <1>2, <2>2 DEF PollAfter, QueuesOK, Stages
  <2>3. QED
    BY <1>10, <2>1, <2>2 DEF Answer
<1>11. CASE EndOfRun
  <2>1. run' = Idle /\ Idle \in Runs /\ Idle.stage # "saying" /\ Idle.toSay = <<>>
    BY <1>11, PlainSequences DEF EndOfRun, Runs, Idle, Stages
  <2>2. QED
    BY <2>1 DEF RunOK
<1>12. CASE Continue
  <2>1. CASE Begin(<<>>, TRUE)
    BY <2>1, RunBegun, PlainSequences
  <2>2. QED
    BY <1>0, <1>3, <1>12, <2>1 DEF Continue, QueuesOK
<1>13. CASE End
  <2>1. run' = Idle \/ run' = [Idle EXCEPT !.stage = "compacting"]
    BY <1>13 DEF End
  <2>2. Idle = [Idle EXCEPT !.stage = "idle"]
    BY DEF Idle
  <2>3. "idle" \in Stages \ {"saying"} /\ "compacting" \in Stages \ {"saying"}
    BY DEF Stages
  <2>4. QED
    BY <1>1, <2>1, <2>2, <2>3, Zenon
<1>14. CASE UNCHANGED vars
  BY <1>0, <1>14 DEF vars
<1>15. QED
  BY <1>4, <1>5, <1>6, <1>7, <1>8, <1>9, <1>10, <1>11, <1>12, <1>13, <1>14 DEF Next

-----------------------------------------------------------------------------
(* The queues.                                                             *)
LEMMA QueuesStep ==
  ASSUME QueuesOK, CountsOK, [Next]_vars
  PROVE  QueuesOK'
<1>0. CASE UNCHANGED <<steering, followUp, pendingNextTurnMessages>>
  BY <1>0 DEF QueuesOK
<1>1. ASSUME \/ steering # <<>> /\ steering' = Tail(steering) /\ UNCHANGED followUp
             \/ followUp # <<>> /\ followUp' = Tail(followUp) /\ UNCHANGED steering
             \/ UNCHANGED <<steering, followUp>>,
             UNCHANGED pendingNextTurnMessages
      PROVE  QueuesOK'
  BY <1>1, PlainSequences DEF QueuesOK
<1>2. ASSUME NEW n, PromptAgent(n), UNCHANGED queues PROVE QueuesOK'
  BY <1>2, PlainSequences DEF QueuesOK, PromptAgent, queues
<1>3. User(sent + 1) \in Queued /\ Custom(sent + 1) \in Waiting
  BY NewEntries DEF CountsOK
<1>4. ASSUME NEW c \in Callers, Prompt(c) PROVE QueuesOK'
  <2>1. UNCHANGED queues /\ (PromptAgent(sent + 1) \/ UNCHANGED pendingNextTurnMessages)
    BY <1>4 DEF Prompt
  <2>2. QED
    BY <1>0, <1>2, <2>1 DEF queues
<1>5. ASSUME NEW c \in Callers, PromptAfterCompaction(c) PROVE QueuesOK'
  BY <1>2, <1>5 DEF PromptAfterCompaction
<1>6. ASSUME NEW c \in Callers, Compact(c) \/ EndCompact(c) PROVE QueuesOK'
  BY <1>0, <1>6 DEF Compact, EndCompact, queues
<1>7. CASE Queue
  <2>1. Append(steering, User(sent + 1)) \in Seq(Queued) /\ Append(followUp, User(sent + 1)) \in Seq(Queued)
    BY <1>3 DEF QueuesOK
  <2>2. QED
    BY <1>7, <2>1 DEF QueuesOK, Queue
<1>8. CASE SendCustomMessage
  <2>1. Append(pendingNextTurnMessages, Custom(sent + 1)) \in Seq(Waiting)
    BY <1>3 DEF QueuesOK
  <2>2. QED
    BY <1>8, <2>1 DEF QueuesOK, SendCustomMessage, queues
<1>9. CASE ClearQueue
  BY <1>9, PlainSequences DEF QueuesOK, ClearQueue
<1>10. CASE AbortCompaction
  BY <1>0, <1>10 DEF AbortCompaction, queues
<1>11. CASE Say
  BY <1>0, <1>11 DEF Say
<1>12. CASE PollFirst
  BY <1>1, <1>12 DEF PollFirst
<1>13. CASE Answer
  BY <1>1, <1>13 DEF Answer, PollAfter
<1>14. CASE EndOfRun
  BY <1>0, <1>14 DEF EndOfRun, queues
<1>15. CASE Continue
  BY <1>1, <1>15 DEF Continue
<1>16. CASE End
  BY <1>0, <1>16 DEF End, queues
<1>17. CASE UNCHANGED vars
  BY <1>0, <1>17 DEF vars, queues
<1>18. QED
  BY <1>4, <1>5, <1>6, <1>7, <1>8, <1>9, <1>10, <1>11, <1>12, <1>13, <1>14, <1>15, <1>16, <1>17 DEF Next

-----------------------------------------------------------------------------
(* Compactions.                                                            *)

(* Entries are only added.                                                 *)
LEMMA EntriesGrow ==
  ASSUME SessionOK, CompactionsOK, [Next]_vars
  PROVE  Len(entries) \in Nat /\ Len(entries') \in Nat /\ Len(entries') >= Len(entries)
<1>1. Len(entries) \in Nat
  BY DEF SessionOK
<1>2. CASE UNCHANGED entries
  BY <1>1, <1>2
<1>3. ASSUME NEW e, entries' = Append(entries, e)
      PROVE  Len(entries') \in Nat /\ Len(entries') >= Len(entries)
  <2>1. entries \in Seq(Entries \cup {e})
    BY SeqGrows DEF SessionOK
  <2>2. Len(entries') = Len(entries) + 1
    BY <1>3, <2>1
  <2>3. QED
    BY <1>1, <2>2
<1>4. ASSUME NEW o, EndCompaction(o) PROVE UNCHANGED entries \/ \E e : entries' = Append(entries, e)
  BY <1>4 DEF EndCompaction, AppendCompaction, AppendFails, LeaveCompaction
<1>5. ASSUME NEW e, Hear(e) PROVE entries' = Append(entries, e)
  BY <1>5 DEF Hear
<1>6. UNCHANGED entries \/ \E e : entries' = Append(entries, e)
  <2>1. ASSUME NEW c \in Callers, Prompt(c) \/ PromptAfterCompaction(c) \/ Compact(c) \/ EndCompact(c)
        PROVE  UNCHANGED entries \/ \E e : entries' = Append(entries, e)
    BY <1>4, <2>1 DEF Prompt, PromptAfterCompaction, Compact, EndCompact
  <2>2. CASE Queue \/ SendCustomMessage \/ ClearQueue \/ AbortCompaction
    BY <2>2 DEF Queue, SendCustomMessage, ClearQueue, AbortCompaction
  <2>3. CASE Say \/ PollFirst \/ Answer \/ Continue
    BY <1>5, <2>3 DEF Say, PollFirst, Answer, Continue
  <2>4. CASE EndOfRun \/ End \/ UNCHANGED vars
    BY <1>4, <2>4 DEF EndOfRun, End, vars
  <2>5. QED
    BY <2>1, <2>2, <2>3, <2>4 DEF Next
<1>7. QED
  BY <1>1, <1>2, <1>3, <1>6

(* A compaction begins.                                                    *)
LEMMA CompactionBegun ==
  ASSUME SessionOK, CompactionsOK, NEW o \in Owners, NEW kind \in Compactions, BeginCompaction(o, kind),
         overflowRecoveryAttempted' \in BOOLEAN, Len(entries') \in Nat, Len(entries') >= Len(entries)
  PROVE  CompactionsOK'
<1>1. Len(entries) \in Nat /\ Kept \in Nat /\ Kept = Len(entries)
  BY DEF SessionOK, Kept
<1> DEFINE p == [kind |-> kind, kept |-> Kept, aborted |-> FALSE]
<1>2. p \in Pending /\ p.kept = Len(entries) /\ p.kind # "none"
  BY <1>1 DEF Pending, Compactions
<1>3. compacting' = [compacting EXCEPT ![o] = p] /\ controller' = o
  BY DEF BeginCompaction
<1> HIDE DEF p
<1>4. compacting' \in [Owners -> Pending] /\ compacting'[o] = p
  BY <1>2, <1>3 DEF CompactionsOK
<1>5. \A q \in Owners : compacting'[q].kept <= Len(entries)
  BY <1>1, <1>2, <1>3 DEF CompactionsOK
<1>6. \A q \in Owners : compacting'[q].kept \in Nat
  BY <1>4 DEF Pending
<1>7. QED
  BY <1>1, <1>2, <1>3, <1>4, <1>5, <1>6 DEF CompactionsOK

(* A compaction ends.                                                      *)
LEMMA CompactionEnded ==
  ASSUME CompactionsOK, NEW o \in Owners, EndCompaction(o), UNCHANGED overflowRecoveryAttempted,
         Len(entries) \in Nat, Len(entries') \in Nat, Len(entries') >= Len(entries)
  PROVE  CompactionsOK'
<1>1. NotCompacting \in Pending /\ NotCompacting.kept = 0
  BY DEF NotCompacting, Pending
<1>2. compacting' = [compacting EXCEPT ![o] = NotCompacting] /\ controller' = NoOne
  BY DEF EndCompaction
<1>3. compacting' \in [Owners -> Pending]
  BY <1>1, <1>2 DEF CompactionsOK
<1>4. \A q \in Owners : compacting[q].kept \in Nat
  BY DEF CompactionsOK, Pending
<1>5. \A q \in Owners : compacting'[q].kept <= Len(entries')
  BY <1>1, <1>2, <1>4 DEF CompactionsOK
<1>6. QED
  BY <1>2, <1>3, <1>5 DEF CompactionsOK

(* Nothing about compactions changes, but perhaps the controller goes.     *)
LEMMA CompactionsFrame ==
  ASSUME CompactionsOK, UNCHANGED compacting, controller' \in {controller, NoOne},
         overflowRecoveryAttempted' \in BOOLEAN,
         Len(entries) \in Nat, Len(entries') \in Nat, Len(entries') >= Len(entries)
  PROVE  CompactionsOK'
<1>1. \A q \in Owners : compacting[q].kept \in Nat
  BY DEF CompactionsOK, Pending
<1>2. \A q \in Owners : compacting[q].kept <= Len(entries')
  BY <1>1 DEF CompactionsOK
<1>3. QED
  BY <1>2 DEF CompactionsOK

(* Every step keeps the compactions.                                       *)
LEMMA CompactionsStep ==
  ASSUME SessionOK, CompactionsOK, [Next]_vars
  PROVE  CompactionsOK'
<1>0. Len(entries) \in Nat /\ Len(entries') \in Nat /\ Len(entries') >= Len(entries)
  BY EntriesGrow
<1>1. CASE UNCHANGED <<compacting, controller, overflowRecoveryAttempted>>
  BY <1>0, <1>1, CompactionsFrame DEF CompactionsOK
<1>2. ASSUME NEW o \in Owners, NEW m, StartAutoCompaction(o, m) PROVE CompactionsOK'
  <2>1. overflowRecoveryAttempted' \in BOOLEAN
        /\ (BeginCompaction(o, "overflowed") \/ BeginCompaction(o, "threshold"))
    BY <1>2 DEF StartAutoCompaction, CompactionsOK
  <2>2. "overflowed" \in Compactions /\ "threshold" \in Compactions
    BY DEF Compactions
  <2>3. QED
    BY <1>0, <2>1, <2>2, CompactionBegun
<1>3. ASSUME NEW m, SkipAutoCompaction(m), UNCHANGED compacting PROVE CompactionsOK'
  BY <1>0, <1>3, CompactionsFrame DEF SkipAutoCompaction, CompactionsOK
<1>4. ASSUME NEW e, Persisted(e) \/ Fails(e), UNCHANGED <<compacting, controller>>
      PROVE  CompactionsOK'
  <2>1. overflowRecoveryAttempted' \in BOOLEAN
    BY <1>4 DEF Persisted, Fails
  <2>2. QED
    BY <1>0, <1>4, <2>1, CompactionsFrame
<1>5. ASSUME NEW o \in Owners, EndCompaction(o), UNCHANGED overflowRecoveryAttempted PROVE CompactionsOK'
  BY <1>0, <1>5, CompactionEnded
<1>6. ASSUME NEW c \in Callers, Prompt(c) PROVE CompactionsOK'
  <2>1. c \in Owners
    BY DEF Owners
  <2>2. \/ UNCHANGED <<compacting, controller, overflowRecoveryAttempted>>
        \/ \E m : SkipAutoCompaction(m) /\ UNCHANGED compacting
        \/ \E m : StartAutoCompaction(c, m)
    BY <1>6 DEF Prompt
  <2>3. QED
    BY <1>1, <1>2, <1>3, <2>1, <2>2
<1>7. ASSUME NEW c \in Callers, PromptAfterCompaction(c) \/ EndCompact(c) PROVE CompactionsOK'
  BY <1>5, <1>7 DEF PromptAfterCompaction, EndCompact, Owners
<1>8. ASSUME NEW c \in Callers, Compact(c) PROVE CompactionsOK'
  <2>1. c \in Owners /\ "manual" \in Compactions
    BY DEF Owners, Compactions
  <2>2. BeginCompaction(c, "manual") /\ overflowRecoveryAttempted' \in BOOLEAN
    BY <1>8 DEF Compact, CompactionsOK
  <2>3. QED
    BY <1>0, <2>1, <2>2, CompactionBegun
<1>9. CASE AbortCompaction
  <2>1. controller \in Owners
    BY <1>9 DEF AbortCompaction, CompactionsOK
  <2>2. compacting' = [compacting EXCEPT ![controller].aborted = TRUE]
        /\ UNCHANGED <<entries, controller, overflowRecoveryAttempted>>
    BY <1>9 DEF AbortCompaction
  <2> DEFINE p == [compacting[controller] EXCEPT !.aborted = TRUE]
  <2>3. p \in Pending /\ p.kept = compacting[controller].kept /\ p.kind = compacting[controller].kind
    BY <2>1 DEF CompactionsOK, Pending
  <2>4. compacting' = [compacting EXCEPT ![controller] = p]
    BY <2>2
  <2> HIDE DEF p
  <2>5. compacting' \in [Owners -> Pending]
    BY <2>1, <2>3, <2>4 DEF CompactionsOK
  <2>6. \A q \in Owners : compacting'[q].kept = compacting[q].kept /\ compacting'[q].kind = compacting[q].kind
    BY <2>1, <2>3, <2>4 DEF CompactionsOK
  <2>7. QED
    BY <2>1, <2>2, <2>5, <2>6 DEF CompactionsOK
<1>10. CASE Queue \/ SendCustomMessage \/ ClearQueue \/ PollFirst \/ Continue \/ UNCHANGED vars
  BY <1>1, <1>10 DEF Queue, SendCustomMessage, ClearQueue, PollFirst, Continue, vars
<1>11. CASE Say \/ Answer
  BY <1>4, <1>11 DEF Say, Answer
<1>12. CASE EndOfRun
  BY <1>5, <1>12 DEF EndOfRun, Owners
<1>13. CASE End
  <2>1. Run \in Owners
    BY DEF Owners
  <2>2. \/ UNCHANGED <<compacting, controller, overflowRecoveryAttempted>>
        \/ \E m : SkipAutoCompaction(m) /\ UNCHANGED compacting
        \/ \E m : StartAutoCompaction(Run, m)
    BY <1>13 DEF End
  <2>3. QED
    BY <1>1, <1>2, <1>3, <2>1, <2>2
<1>14. QED
  BY <1>6, <1>7, <1>8, <1>9, <1>10, <1>11, <1>12, <1>13 DEF Next

-----------------------------------------------------------------------------
(* Counts.                                                                 *)
LEMMA CountsStep ==
  ASSUME RunOK, QueuesOK, CountsOK, [Next]_vars
  PROVE  CountsOK'
<1>0. sent \in Nat /\ sent + 1 \in Nat \ {0} /\ 1..sent \subseteq 1..(sent + 1) /\ sent + 1 \in 1..(sent + 1)
  BY DEF CountsOK
<1>1. \A s \in Seq(Said) : MessagesOf(s) \subseteq Nat \ {0}
  <2> SUFFICES ASSUME NEW s \in Seq(Said) PROVE MessagesOf(s) \subseteq Nat \ {0}
    OBVIOUS
  <2>1. \A i \in DOMAIN s : s[i] \in Said
    BY SeqValues
  <2>2. \A x \in Said : x.of \in Nat \ {0}
    BY DEF Said
  <2>3. QED
    BY <2>1, <2>2 DEF MessagesOf
<1>2. MessagesOf(steering) \subseteq Nat \ {0} /\ MessagesOf(followUp) \subseteq Nat \ {0}
      /\ MessagesOf(pendingNextTurnMessages) \subseteq Nat \ {0}
  BY <1>1, PlainSequences DEF QueuesOK
<1>3. ASSUME sent' \in {sent, sent + 1}, scheduled' \in {scheduled, scheduled + 1, scheduled - 1}, scheduled' >= 0,
             asked' \in [Callers -> Nat], shown' \subseteq 1..sent', dropped' \subseteq Nat \ {0}
      PROVE  CountsOK'
  BY <1>0, <1>3 DEF CountsOK
<1>4. ASSUME sent' \in {sent, sent + 1}, scheduled' \in {scheduled, scheduled + 1}, UNCHANGED shown,
             asked' \in [Callers -> Nat], dropped' \subseteq Nat \ {0}
      PROVE  CountsOK'
  BY <1>0, <1>4 DEF CountsOK
<1>5. ASSUME NEW n \in Nat \ {0}, PromptAgent(n) PROVE dropped' \subseteq Nat \ {0}
  BY <1>2, <1>5 DEF CountsOK, PromptAgent
<1>6. ASSUME NEW o, EndCompaction(o) PROVE scheduled' \in {scheduled, scheduled + 1}
  BY <1>6 DEF EndCompaction, AppendCompaction, AppendFails, LeaveCompaction
<1>7. ASSUME NEW e, Hear(e) PROVE shown' \subseteq 1..sent
  BY <1>7 DEF Hear, CountsOK
<1>8. ASSUME NEW c \in Callers, Prompt(c) PROVE CountsOK'
  <2>1. sent' = sent + 1 /\ UNCHANGED <<scheduled, shown>>
    BY <1>8 DEF Prompt, Send, queues
  <2>2. dropped' \subseteq Nat \ {0} /\ asked' \in [Callers -> Nat]
    BY <1>0, <1>5, <1>8 DEF Prompt, CountsOK
  <2>3. QED
    BY <1>4, <2>1, <2>2
<1>9. ASSUME NEW c \in Callers, PromptAfterCompaction(c) PROVE CountsOK'
  <2>1. UNCHANGED <<sent, shown>> /\ scheduled' \in {scheduled, scheduled + 1}
    BY <1>6, <1>9 DEF PromptAfterCompaction, queues
  <2>2. asked[c] \in Nat \ {0} /\ asked' \in [Callers -> Nat]
    BY <1>9 DEF PromptAfterCompaction, CountsOK
  <2>3. dropped' \subseteq Nat \ {0}
    BY <1>5, <1>9, <2>2 DEF PromptAfterCompaction
  <2>4. QED
    BY <1>4, <2>1, <2>2, <2>3
<1>10. ASSUME NEW c \in Callers, Compact(c) PROVE CountsOK'
  BY <1>4, <1>10 DEF Compact, queues, CountsOK
<1>11. ASSUME NEW c \in Callers, EndCompact(c) PROVE CountsOK'
  BY <1>4, <1>6, <1>11 DEF EndCompact, queues, CountsOK
<1>12. CASE Queue
  <2>1. sent' = sent + 1 /\ shown' = shown \cup {sent + 1} /\ UNCHANGED <<scheduled, asked, dropped>>
    BY <1>12 DEF Queue, Send
  <2>2. shown' \subseteq 1..sent'
    BY <1>0, <2>1 DEF CountsOK
  <2>3. QED
    BY <1>0, <2>1, <2>2 DEF CountsOK
<1>13. CASE SendCustomMessage
  BY <1>4, <1>13 DEF SendCustomMessage, Send, queues, CountsOK
<1>14. CASE ClearQueue
  <2>1. dropped' \subseteq Nat \ {0}
    BY <1>2, <1>14 DEF ClearQueue, CountsOK
  <2>2. UNCHANGED <<sent, scheduled, asked>> /\ shown' = {}
    BY <1>14 DEF ClearQueue
  <2>3. QED
    BY <2>1, <2>2 DEF CountsOK
<1>15. CASE AbortCompaction
  BY <1>4, <1>15 DEF AbortCompaction, queues, CountsOK
<1>16. CASE Say
  <2>1. Tail(run.toSay) \in Seq(Said)
    BY <1>16, TailEmpty DEF Say, RunOK, Runs
  <2>2. UNCHANGED <<sent, scheduled, asked>> /\ shown' \subseteq 1..sent
    BY <1>7, <1>16 DEF Say
  <2>3. dropped' \subseteq Nat \ {0}
    BY <1>1, <1>16, <2>1 DEF Say, CountsOK
  <2>4. QED
    BY <2>2, <2>3 DEF CountsOK
<1>17. CASE PollFirst
  BY <1>4, <1>17 DEF PollFirst, CountsOK
<1>18. CASE Answer
  <2>1. UNCHANGED <<sent, scheduled, asked, dropped>> /\ shown' \subseteq 1..sent
    BY <1>7, <1>18 DEF Answer
  <2>2. QED
    BY <2>1 DEF CountsOK
<1>19. CASE EndOfRun
  BY <1>4, <1>6, <1>19 DEF EndOfRun, queues, CountsOK
<1>20. CASE Continue
  <2>1. UNCHANGED <<sent, asked, shown, dropped>> /\ scheduled' = scheduled - 1 /\ scheduled > 0
    BY <1>20 DEF Continue
  <2>2. QED
    BY <2>1 DEF CountsOK
<1>21. CASE End
  BY <1>4, <1>21 DEF End, queues, CountsOK
<1>22. CASE UNCHANGED vars
  BY <1>4, <1>22 DEF vars, queues, CountsOK
<1>23. QED
  BY <1>8, <1>9, <1>10, <1>11, <1>12, <1>13, <1>14, <1>15, <1>16, <1>17, <1>18, <1>19, <1>20, <1>21, <1>22
     DEF Next

-----------------------------------------------------------------------------
(* All parts at the start.                                                 *)
LEMMA ShapesInit == Init => Shapes
<1> SUFFICES ASSUME Init PROVE Shapes
  OBVIOUS
<1>1. SessionOK
  <2>1. CASE entries = <<>> /\ messages = <<>>
    BY <2>1, AgentSessionAssumption DEF SessionOK
  <2>2. CASE entries = <<User(0), Entry("overflow", 0)>> /\ messages = <<1, 2>>
    <3>1. User(0) \in Entries /\ Entry("overflow", 0) \in Entries
      BY DEF User, Entry, Entries, Kinds, Spoken, Errors
    <3>2. entries \in Seq(Entries) /\ Len(entries) = 2
      BY <2>2, <3>1
    <3>3. messages \in Seq(0..2)
      BY <2>2
    <3>4. QED
      BY <3>2, <3>3, AgentSessionAssumption DEF SessionOK
  <2>3. QED
    BY <2>1, <2>2 DEF Init
<1>2. RunOK
  <2>1. Idle \in Runs /\ Idle.stage # "saying" /\ Idle.toSay = <<>>
    BY PlainSequences DEF Idle, Runs, Stages
  <2>2. QED
    BY <2>1 DEF RunOK, Init
<1>3. QueuesOK
  BY PlainSequences DEF QueuesOK, Init
<1>4. CompactionsOK
  <2>1. NotCompacting \in Pending /\ NotCompacting.kept = 0
    BY DEF NotCompacting, Pending
  <2>2. Len(entries) \in Nat
    BY <1>1 DEF SessionOK
  <2>3. compacting = [o \in Owners |-> NotCompacting] /\ controller = NoOne /\ overflowRecoveryAttempted = FALSE
    BY DEF Init
  <2>4. compacting \in [Owners -> Pending] /\ \A o \in Owners : compacting[o].kept <= Len(entries)
    BY <2>1, <2>2, <2>3
  <2>5. QED
    BY <2>3, <2>4 DEF CompactionsOK
<1>5. CountsOK
  BY DEF CountsOK, Init
<1>6. unseen \in BOOLEAN
  BY DEF Init
<1>7. QED
  BY <1>1, <1>2, <1>3, <1>4, <1>5, <1>6 DEF Shapes

(* Only the end of a compaction says whether the agent was told.           *)
LEMMA UnseenStep ==
  ASSUME unseen \in BOOLEAN, [Next]_vars
  PROVE  unseen' \in BOOLEAN
<1>1. ASSUME NEW o, EndCompaction(o) PROVE unseen' \in BOOLEAN
  BY <1>1 DEF EndCompaction, AppendCompaction, AppendFails, LeaveCompaction
<1>2. ASSUME NEW c \in Callers, Prompt(c) \/ PromptAfterCompaction(c) \/ Compact(c) \/ EndCompact(c)
      PROVE  unseen' \in BOOLEAN
  BY <1>1, <1>2 DEF Prompt, PromptAfterCompaction, Compact, EndCompact
<1>3. CASE Queue \/ SendCustomMessage \/ ClearQueue \/ AbortCompaction
  BY <1>3 DEF Queue, SendCustomMessage, ClearQueue, AbortCompaction
<1>4. CASE Say \/ PollFirst \/ Answer \/ Continue
  BY <1>4 DEF Say, PollFirst, Answer, Continue
<1>5. CASE EndOfRun \/ End \/ UNCHANGED vars
  BY <1>1, <1>5 DEF EndOfRun, End, vars
<1>6. QED
  BY <1>2, <1>3, <1>4, <1>5 DEF Next

(* All parts, step by step.                                                *)
LEMMA ShapesStep == Shapes /\ [Next]_vars => Shapes'
BY SessionStep, RunStep, QueuesStep, CompactionsStep, CountsStep, UnseenStep, Zenon DEF Shapes

(* Whatever callers, extensions and the model do, the entries and the      *)
(* agent's messages fit together, and whoever may be aborted compacts.     *)
THEOREM Typing == Spec => []TypeOK
<1>1. Shapes => TypeOK
  <2> SUFFICES ASSUME Shapes PROVE TypeOK
    OBVIOUS
  <2>1. DOMAIN entries = 1..Len(entries) /\ Len(entries) <= MaxEntries
    BY DEF Shapes, SessionOK
  <2>2. \A i \in DOMAIN messages : messages[i] \in 0..Len(entries)
    BY DEF Shapes, SessionOK
  <2>3. \A o \in Owners : compacting[o].kept \in 0..Len(entries)
    <3>1. Len(entries) \in Nat
      BY DEF Shapes, SessionOK
    <3>2. QED
      BY <3>1 DEF Shapes, CompactionsOK, Pending
  <2>4. QED
    BY <2>1, <2>2, <2>3 DEF Shapes, TypeOK, RunOK, Runs, Stages, CompactionsOK, CountsOK
<1>2. QED
  BY <1>1, ShapesInit, ShapesStep, PTL DEF Spec

-----------------------------------------------------------------------------
(* Where a message is. Of the messages with number n that a sequence holds *)
(* one counts the hits of two values.                                      *)
Copies(n) == {User(n), Custom(n)}
Askers(n) == {c \in Callers : asked[c] = n}

InSession(n) == Hits(entries, Copies(n))
ToBeSaid(n)  == Hits(run.toSay, Copies(n))
Steered(n)   == Hits(steering, Copies(n))
Followed(n)  == Hits(followUp, Copies(n))
NextTurn(n)  == Hits(pendingNextTurnMessages, Copies(n))
AskedFor(n)  == Cardinality(Askers(n))
Lost(n)      == IF n \in dropped THEN 1 ELSE 0

Total(n) == InSession(n) + ToBeSaid(n) + Steered(n) + Followed(n) + NextTurn(n) + AskedFor(n) + Lost(n)

(* Every number sent so far is in one place, and no other is anywhere.     *)
Ledger == \A n \in Nat \ {0} : Total(n) = IF n <= sent THEN 1 ELSE 0

(* The entries that are message n.                                         *)
LEMMA CopiesOf ==
  ASSUME NEW n \in Nat \ {0}
  PROVE  /\ \A e \in Entries : e \in Copies(n) <=> e.kind \in {"user", "custom"} /\ e.of = n
         /\ \A e \in Said : e \in Copies(n) <=> e.of = n
         /\ \A k \in Nat : User(k) \in Copies(n) <=> k = n
         /\ \A k \in Nat : Custom(k) \in Copies(n) <=> k = n
         /\ \A kind \in Good \cup Errors \cup Compactions, k \in Nat : Entry(kind, k) \notin Copies(n)
BY DEF Copies, User, Custom, Entry, Entries, Said, Spoken, Good, Errors, Compactions

(* Each place counts, and what is lost is lost once.                       *)
LEMMA PlacesType ==
  ASSUME Shapes, NEW n \in Nat \ {0}
  PROVE  /\ InSession(n) \in Nat /\ ToBeSaid(n) \in Nat /\ Steered(n) \in Nat
         /\ Followed(n) \in Nat /\ NextTurn(n) \in Nat /\ AskedFor(n) \in Nat /\ Lost(n) \in 0..1
         /\ IsFiniteSet(Askers(n))
<1>1. InSession(n) \in Nat
  BY HitsType DEF InSession, Shapes, SessionOK
<1>2. ToBeSaid(n) \in Nat
  BY HitsType DEF ToBeSaid, Shapes, RunOK, Runs
<1>3. Steered(n) \in Nat /\ Followed(n) \in Nat /\ NextTurn(n) \in Nat
  BY HitsType DEF Steered, Followed, NextTurn, Shapes, QueuesOK
<1>4. IsFiniteSet(Askers(n))
  <2>1. Askers(n) \in SUBSET Callers
    BY DEF Askers
  <2>2. QED
    BY <2>1, FS_Subset, AgentSessionAssumption
<1>5. AskedFor(n) \in Nat
  BY <1>4, FS_CardinalityType DEF AskedFor
<1>6. QED
  BY <1>1, <1>2, <1>3, <1>4, <1>5 DEF Lost

(* What is lost with a sequence of messages.                               *)
LEMMA LostWith ==
  ASSUME NEW s \in Seq(Said), NEW n \in Nat \ {0}
  PROVE  n \in MessagesOf(s) <=> Hits(s, Copies(n)) # 0
<1>1. Hits(s, Copies(n)) # 0 <=> \E i \in 1..Len(s) : s[i] \in Copies(n)
  BY HitsAny
<1>2. DOMAIN s = 1..Len(s) /\ \A i \in DOMAIN s : s[i] \in Said
  BY SeqValues
<1>3. \A i \in DOMAIN s : s[i] \in Copies(n) <=> s[i].of = n
  BY <1>2, CopiesOf
<1>4. n \in MessagesOf(s) <=> \E i \in DOMAIN s : s[i].of = n
  BY DEF MessagesOf
<1>5. QED
  BY <1>1, <1>2, <1>3, <1>4

(* They are numbers.                                                       *)
LEMMA PlacesAreNumbers ==
  ASSUME Shapes, NEW n \in Nat \ {0}
  PROVE  /\ InSession(n) \in Nat /\ ToBeSaid(n) \in Nat /\ Steered(n) \in Nat /\ Followed(n) \in Nat
         /\ NextTurn(n) \in Nat /\ AskedFor(n) \in Nat /\ Lost(n) \in Nat
<1>1. /\ InSession(n) \in Nat /\ ToBeSaid(n) \in Nat /\ Steered(n) \in Nat /\ Followed(n) \in Nat
      /\ NextTurn(n) \in Nat /\ AskedFor(n) \in Nat /\ Lost(n) \in 0..1
  BY PlacesType, Zenon
<1>2. \A k \in 0..1 : k \in Nat
  OBVIOUS
<1>3. QED
  BY <1>1, <1>2, Zenon

(* Nothing is about to be said unless the run says it.                     *)
LEMMA SilentRun ==
  ASSUME RunOK, run.stage # "saying", NEW n
  PROVE  run.toSay = <<>> /\ ToBeSaid(n) = 0
BY HitsOfEmpty DEF RunOK, ToBeSaid

(* A run that is left with nothing to say.                                 *)
LEMMA NewToSay ==
  ASSUME NEW n, run'.toSay = <<>>
  PROVE  ToBeSaid(n)' = 0
BY HitsOfEmpty DEF ToBeSaid

(* A run says what it was begun with.                                      *)
LEMMA BeginSays ==
  ASSUME NEW toSay, NEW poll, Begin(toSay, poll), NEW n
  PROVE  ToBeSaid(n)' = Hits(toSay, Copies(n))
BY DEF Begin, ToBeSaid

(* An entry that is added, with or without a message in it.                *)
LEMMA SessionHits ==
  ASSUME SessionOK, NEW e \in Entries, entries' = Append(entries, e), NEW n \in Nat \ {0}
  PROVE  InSession(n)' = InSession(n) + (IF e \in Copies(n) THEN 1 ELSE 0)
BY HitsOfAppend DEF SessionOK, InSession

(* A compaction holds no message.                                          *)
LEMMA CompactionHits ==
  ASSUME SessionOK, CompactionsOK, NEW o \in Owners, EndCompaction(o), NEW n \in Nat \ {0}
  PROVE  InSession(n)' = InSession(n)
<1> DEFINE e == Entry(compacting[o].kind, compacting[o].kept)
<1>1. compacting[o].kind \in Compactions /\ compacting[o].kept \in Nat
  BY DEF EndCompaction, CompactionsOK, Pending
<1>2. e \in Entries /\ e \notin Copies(n)
  BY <1>1, NewEntries, CopiesOf
<1>3. InSession(n) \in Nat
  BY HitsType DEF InSession, SessionOK
<1>4. UNCHANGED entries \/ entries' = Append(entries, e)
  BY DEF EndCompaction, AppendCompaction, AppendFails, LeaveCompaction
<1> HIDE DEF e
<1>5. CASE UNCHANGED entries
  BY <1>5 DEF InSession
<1>6. CASE entries' = Append(entries, e)
  BY <1>2, <1>3, <1>6, SessionHits
<1>7. QED
  BY <1>4, <1>5, <1>6

(* What a run takes from a queue it is about to say.                       *)
LEMMA Taken ==
  ASSUME NEW s \in Seq(Queued), s # <<>>, NEW n \in Nat \ {0}
  PROVE  Hits(s, Copies(n)) = Hits(Tail(s), Copies(n)) + Hits(<<Head(s)>>, Copies(n))
<1>1. Head(s) \in Queued
  BY PlainSequences
<1>2. Hits(<<Head(s)>>, Copies(n)) = IF Head(s) \in Copies(n) THEN 1 ELSE 0
  BY <1>1, HitsOfOne
<1>3. QED
  BY <1>2, HitsOfTail

(* The end of prompt(): its message and those that waited for the turn.    *)
LEMMA PromptedHits ==
  ASSUME Shapes, NEW k \in Nat \ {0}, PromptAgent(k), NEW n \in Nat \ {0},
         NextTurn(n) + Lost(n) + (IF n = k THEN 1 ELSE 0) <= 1
  PROVE  NextTurn(n)' = 0 /\
         ToBeSaid(n)' + Lost(n)' = ToBeSaid(n) + Lost(n) + NextTurn(n) + (IF n = k THEN 1 ELSE 0)
<1>1. pendingNextTurnMessages \in Seq(Said) /\ User(k) \in Said
  BY PlainSequences, NewEntries DEF Shapes, QueuesOK
<1>2. NextTurn(n)' = 0
  BY HitsOfEmpty DEF PromptAgent, NextTurn
<1>3. NextTurn(n) \in Nat /\ Lost(n) \in 0..1 /\ ToBeSaid(n) \in Nat
  BY PlacesType
<1>4. n \in MessagesOf(pendingNextTurnMessages) <=> NextTurn(n) # 0
  BY <1>1, LostWith DEF NextTurn
<1>5. CASE isStreaming
  <2>1. dropped' = dropped \cup {k} \cup MessagesOf(pendingNextTurnMessages) /\ UNCHANGED run
    BY <1>5 DEF PromptAgent
  <2>2. ToBeSaid(n)' = ToBeSaid(n)
    BY <2>1 DEF ToBeSaid
  <2>3. Lost(n)' = IF n \in dropped \/ n = k \/ NextTurn(n) # 0 THEN 1 ELSE 0
    BY <1>4, <2>1 DEF Lost
  <2>4. Lost(n)' = Lost(n) + NextTurn(n) + (IF n = k THEN 1 ELSE 0)
    BY <1>3, <2>3 DEF Lost
  <2>5. QED
    BY <1>2, <1>3, <2>2, <2>4
<1>6. CASE ~isStreaming
  <2>1. Begin(<<User(k)>> \o pendingNextTurnMessages, TRUE) /\ UNCHANGED dropped
    BY <1>6 DEF PromptAgent
  <2>2. ToBeSaid(n) = 0
    BY <1>6, SilentRun DEF isStreaming, Shapes
  <2>3. ToBeSaid(n)' = (IF User(k) \in Copies(n) THEN 1 ELSE 0) + NextTurn(n)
    <3> DEFINE toSay == Cons(User(k), pendingNextTurnMessages)
    <3>1. Hits(toSay, Copies(n)) = (IF User(k) \in Copies(n) THEN 1 ELSE 0) + NextTurn(n)
      BY <1>1, HitsOfCons DEF NextTurn
    <3> HIDE DEF toSay
    <3>2. Begin(toSay, TRUE)
      BY <2>1 DEF toSay, Cons
    <3>3. QED
      BY <3>1, <3>2, BeginSays
  <2>4. User(k) \in Copies(n) <=> k = n
    BY CopiesOf
  <2>5. Lost(n)' = Lost(n)
    BY <2>1 DEF Lost
  <2>6. QED
    BY <1>2, <1>3, <2>2, <2>3, <2>4, <2>5
<1>7. QED
  BY <1>5, <1>6

(* Sending adds a message; nothing else adds or removes one.               *)
Sent(n) == IF sent' = sent + 1 /\ n = sent + 1 THEN 1 ELSE 0

(* A place depends on its variable only.                                   *)
LEMMA PlacesFrame ==
  ASSUME NEW n
  PROVE  /\ UNCHANGED entries => InSession(n)' = InSession(n)
         /\ UNCHANGED run => ToBeSaid(n)' = ToBeSaid(n)
         /\ UNCHANGED steering => Steered(n)' = Steered(n)
         /\ UNCHANGED followUp => Followed(n)' = Followed(n)
         /\ UNCHANGED pendingNextTurnMessages => NextTurn(n)' = NextTurn(n)
         /\ UNCHANGED asked => AskedFor(n)' = AskedFor(n)
         /\ UNCHANGED dropped => Lost(n)' = Lost(n)
         /\ UNCHANGED sent /\ sent \in Nat => Sent(n) = 0
BY DEF InSession, ToBeSaid, Steered, Followed, NextTurn, AskedFor, Askers, Lost, Sent

(* The sum, with its terms as numbers.                                     *)
LEMMA Sums ==
  ASSUME NEW n
  PROVE  /\ Total(n) = InSession(n) + ToBeSaid(n) + Steered(n) + Followed(n) + NextTurn(n) + AskedFor(n) + Lost(n)
         /\ Total(n)' = InSession(n)' + ToBeSaid(n)' + Steered(n)' + Followed(n)' + NextTurn(n)'
                          + AskedFor(n)' + Lost(n)'
BY Zenon DEF Total

(* The places after a step count too.                                      *)
LEMMA PrimedPlaces ==
  ASSUME Shapes', NEW n \in Nat \ {0}
  PROVE  /\ InSession(n)' \in Nat /\ ToBeSaid(n)' \in Nat /\ Steered(n)' \in Nat
         /\ Followed(n)' \in Nat /\ NextTurn(n)' \in Nat /\ AskedFor(n)' \in Nat /\ Lost(n)' \in Nat
<1>1. InSession(n)' \in Nat
  BY HitsType DEF InSession, Shapes, SessionOK
<1>2. ToBeSaid(n)' \in Nat
  BY HitsType DEF ToBeSaid, Shapes, RunOK, Runs
<1>3. Steered(n)' \in Nat /\ Followed(n)' \in Nat /\ NextTurn(n)' \in Nat
  BY HitsType DEF Steered, Followed, NextTurn, Shapes, QueuesOK
<1>4. IsFiniteSet(Askers(n)')
  <2>1. Askers(n)' \in SUBSET Callers
    BY DEF Askers
  <2>2. QED
    BY <2>1, FS_Subset, AgentSessionAssumption
<1>5. AskedFor(n)' \in Nat
  BY <1>4, FS_CardinalityType DEF AskedFor
<1>6. QED
  BY <1>1, <1>2, <1>3, <1>5 DEF Lost

(* A message is said: it goes to the session, or the rest is lost.         *)
LEMMA TotalOfSay ==
  ASSUME Shapes, Ledger, NEW n \in Nat \ {0}, Say
  PROVE  Total(n)' = Total(n) + Sent(n)
<1> DEFINE e == Head(run.toSay)
           rest == Tail(run.toSay)
           one == IF e \in Copies(n) THEN 1 ELSE 0
<1>1. run.toSay \in Seq(Said) /\ run.toSay # <<>> /\ e \in Said /\ e \in Entries /\ rest \in Seq(Said)
  BY NewEntries, TailEmpty DEF Say, Shapes, RunOK, Runs
<1>2. ToBeSaid(n) = Hits(rest, Copies(n)) + one /\ Hits(rest, Copies(n)) \in Nat
  BY <1>1, HitsOfTail, HitsType DEF ToBeSaid
<1>3. entries' = Append(entries, e)
  BY DEF Say, Hear
<1>4. InSession(n)' = InSession(n) + one
  BY <1>1, <1>3, SessionHits DEF Shapes
<1>5. n \in MessagesOf(rest) <=> Hits(rest, Copies(n)) # 0
  BY <1>1, LostWith
<1>6. /\ Steered(n)' = Steered(n) /\ Followed(n)' = Followed(n) /\ NextTurn(n)' = NextTurn(n)
      /\ AskedFor(n)' = AskedFor(n) /\ Sent(n) = 0
  BY PlacesFrame DEF Say, Shapes, CountsOK
<1>7. /\ InSession(n) \in Nat /\ ToBeSaid(n) \in Nat /\ Steered(n) \in Nat /\ Followed(n) \in Nat
      /\ NextTurn(n) \in Nat /\ AskedFor(n) \in Nat /\ Lost(n) \in 0..1
  BY PlacesType
<1>8. Total(n) <= 1
  BY DEF Ledger
<1>9. one \in 0..1
  OBVIOUS
<1> DEFINE r == Hits(rest, Copies(n))
<1>10. \/ UNCHANGED dropped /\ run'.toSay = rest
       \/ run'.toSay = <<>> /\ dropped' = dropped \cup MessagesOf(rest)
  BY DEF Say, Fails, Shapes, RunOK, Runs
<1>11. ToBeSaid(n)' + Lost(n)' = r + Lost(n)
  <2>1. CASE UNCHANGED dropped /\ run'.toSay = rest
    <3>1. ToBeSaid(n)' = r
      BY <2>1 DEF ToBeSaid
    <3>2. QED
      BY <2>1, <3>1, PlacesFrame
  <2>2. CASE run'.toSay = <<>> /\ dropped' = dropped \cup MessagesOf(rest)
    <3>1. ToBeSaid(n)' = 0
      BY <2>2, NewToSay
    <3>2. Lost(n)' = IF n \in dropped \/ r # 0 THEN 1 ELSE 0
      BY <1>5, <2>2 DEF Lost
    <3> HIDE DEF r, one
    <3>3. Lost(n) + r <= 1
      BY <1>2, <1>7, <1>8, <1>9 DEF Total, r
    <3>4. r \in Nat
      BY <1>2 DEF r
    <3>5. Lost(n)' = r + Lost(n)
      BY <1>7, <3>2, <3>3, <3>4 DEF Lost
    <3>6. QED
      BY <1>7, <3>1, <3>4, <3>5
  <2>3. QED
    BY <1>10, <2>1, <2>2
<1> HIDE DEF e, rest, one, r
<1>12. ToBeSaid(n)' \in Nat /\ Lost(n)' \in Nat
  <2>1. Lost(n)' \in Nat
    BY DEF Lost
  <2>2. ToBeSaid(n)' \in Nat
    <3>1. run'.toSay \in Seq(Said)
      BY <1>1, <1>10, PlainSequences
    <3>2. QED
      BY <3>1, HitsType DEF ToBeSaid
  <2>3. QED
    BY <2>1, <2>2
<1>13. r \in Nat /\ ToBeSaid(n) = r + one
  BY <1>2 DEF r
<1>14. QED
  BY <1>4, <1>6, <1>7, <1>9, <1>11, <1>12, <1>13, Sums, SMTT(30), ZenonT(60)

(* A caller asks, or its prompt goes to the agent.                         *)
LEMMA AskedHits ==
  ASSUME Shapes, NEW n \in Nat \ {0}, NEW c \in Callers, NEW k \in Nat,
         asked' = [asked EXCEPT ![c] = k]
  PROVE  /\ asked[c] = 0 => AskedFor(n)' = AskedFor(n) + (IF n = k THEN 1 ELSE 0)
         /\ k = 0 => AskedFor(n)' = AskedFor(n) - (IF n = asked[c] THEN 1 ELSE 0)
<1>1. IsFiniteSet(Askers(n)) /\ Cardinality(Askers(n)) \in Nat /\ Cardinality(Askers(n)) = AskedFor(n)
  BY PlacesType DEF AskedFor
<1>2. AskedFor(n)' = Cardinality(Askers(n)')
  BY DEF AskedFor
<1>3. asked \in [Callers -> Nat]
  BY DEF Shapes, CountsOK
<1>4. Askers(n)' = (Askers(n) \ {c}) \cup (IF n = k THEN {c} ELSE {})
  BY <1>3 DEF Askers
<1>5. c \in Askers(n) <=> asked[c] = n
  BY DEF Askers
<1>6. CASE asked[c] = 0
  <2>1. c \notin Askers(n)
    BY <1>5, <1>6
  <2>2. n = k => Askers(n)' = Askers(n) \cup {c}
    BY <1>4, <2>1
  <2>3. n # k => Askers(n)' = Askers(n)
    BY <1>4, <2>1
  <2>4. Cardinality(Askers(n) \cup {c}) = Cardinality(Askers(n)) + 1
    BY <1>1, <2>1, FS_AddElement
  <2>5. AskedFor(n)' = AskedFor(n) + (IF n = k THEN 1 ELSE 0)
    BY <1>1, <1>2, <2>2, <2>3, <2>4
  <2>6. k = 0 => AskedFor(n)' = AskedFor(n) - (IF n = asked[c] THEN 1 ELSE 0)
    BY <1>1, <1>6, <2>5
  <2>7. QED
    BY <2>5, <2>6
<1>7. CASE asked[c] # 0
  <2> SUFFICES ASSUME k = 0 PROVE AskedFor(n)' = AskedFor(n) - (IF n = asked[c] THEN 1 ELSE 0)
    BY <1>7
  <2>1. Askers(n)' = Askers(n) \ {c}
    BY <1>4
  <2>2. Cardinality(Askers(n) \ {c}) = IF c \in Askers(n) THEN Cardinality(Askers(n)) - 1
                                                         ELSE Cardinality(Askers(n))
    BY <1>1, FS_RemoveElement
  <2>3. QED
    BY <1>1, <1>2, <1>5, <2>1, <2>2
<1>8. QED
  BY <1>6, <1>7

(* prompt() adds its message.                                              *)
LEMMA TotalOfPrompt ==
  ASSUME Shapes, Ledger, NEW n \in Nat \ {0}, NEW c \in Callers, Prompt(c), Shapes'
  PROVE  Total(n)' = Total(n) + Sent(n)
<1>1. /\ InSession(n) \in Nat /\ ToBeSaid(n) \in Nat /\ Steered(n) \in Nat /\ Followed(n) \in Nat
      /\ NextTurn(n) \in Nat /\ AskedFor(n) \in Nat /\ Lost(n) \in Nat
  BY PlacesAreNumbers
<1>2. sent \in Nat /\ sent' = sent + 1 /\ UNCHANGED <<entries, queues>>
  BY DEF Prompt, Send, Shapes, CountsOK
<1>3. InSession(n)' = InSession(n) /\ Steered(n)' = Steered(n) /\ Followed(n)' = Followed(n)
  BY <1>2, PlacesFrame DEF queues
<1>4. Total(n) = IF n <= sent THEN 1 ELSE 0
  BY DEF Ledger
<1>5. Sent(n) = IF n = sent + 1 THEN 1 ELSE 0
  BY <1>2 DEF Sent
<1>6. CASE PromptAgent(sent + 1) /\ UNCHANGED asked
  <2>1. NextTurn(n) + Lost(n) + (IF n = sent + 1 THEN 1 ELSE 0) <= 1
    BY <1>1, <1>2, <1>4, Sums
  <2>2. sent + 1 \in Nat \ {0}
    BY <1>2
  <2>3. NextTurn(n)' = 0 /\
        ToBeSaid(n)' + Lost(n)' = ToBeSaid(n) + Lost(n) + NextTurn(n) + (IF n = sent + 1 THEN 1 ELSE 0)
    BY <1>6, <2>1, <2>2, PromptedHits
  <2>4. AskedFor(n)' = AskedFor(n)
    BY <1>6, PlacesFrame
  <2>5. ToBeSaid(n)' \in Nat /\ Lost(n)' \in Nat
    BY PrimedPlaces
  <2>6. QED
    BY <1>1, <1>2, <1>3, <1>5, <2>3, <2>4, <2>5, Sums
<1>7. CASE asked' = [asked EXCEPT ![c] = sent + 1] /\ UNCHANGED <<run, pendingNextTurnMessages, dropped>>
  <2>1. AskedFor(n)' = AskedFor(n) + (IF n = sent + 1 THEN 1 ELSE 0)
    <3>1. asked[c] = 0 /\ sent + 1 \in Nat
      BY <1>2 DEF Prompt
    <3>2. QED
      BY <1>7, <3>1, AskedHits
  <2>2. ToBeSaid(n)' = ToBeSaid(n) /\ NextTurn(n)' = NextTurn(n) /\ Lost(n)' = Lost(n)
    BY <1>7, PlacesFrame
  <2>3. QED
    BY <1>1, <1>2, <1>3, <1>5, <2>1, <2>2, Sums
<1>8. QED
  BY <1>6, <1>7 DEF Prompt

(* A prompt that waited for its compaction goes on.                        *)
LEMMA TotalOfPromptAfterCompaction ==
  ASSUME Shapes, Ledger, NEW n \in Nat \ {0}, NEW c \in Callers, PromptAfterCompaction(c), Shapes'
  PROVE  Total(n)' = Total(n) + Sent(n)
<1> DEFINE one == IF n = asked[c] THEN 1 ELSE 0
<1>1. /\ InSession(n) \in Nat /\ ToBeSaid(n) \in Nat /\ Steered(n) \in Nat /\ Followed(n) \in Nat
      /\ NextTurn(n) \in Nat /\ AskedFor(n) \in Nat /\ Lost(n) \in Nat
  BY PlacesAreNumbers
<1>2. asked[c] \in Nat \ {0} /\ asked' = [asked EXCEPT ![c] = 0] /\ one \in 0..1
  BY DEF PromptAfterCompaction, Shapes, CountsOK
<1>3. AskedFor(n)' = AskedFor(n) - one
  BY <1>2, AskedHits
<1>4. AskedFor(n)' \in Nat /\ ToBeSaid(n)' \in Nat /\ Lost(n)' \in Nat
  BY PrimedPlaces
<1>5. Total(n) <= 1
  BY DEF Ledger
<1>6. InSession(n)' = InSession(n)
  <2>1. c \in Owners /\ EndCompaction(c)
    BY DEF Owners, PromptAfterCompaction
  <2>2. QED
    BY <2>1, CompactionHits DEF Shapes
<1>7. Steered(n)' = Steered(n) /\ Followed(n)' = Followed(n) /\ Sent(n) = 0
  BY PlacesFrame DEF PromptAfterCompaction, queues, Shapes, CountsOK
<1>8. NextTurn(n) + Lost(n) + one <= 1
  BY <1>1, <1>2, <1>3, <1>4, <1>5, Sums
<1>9. NextTurn(n)' = 0 /\ ToBeSaid(n)' + Lost(n)' = ToBeSaid(n) + Lost(n) + NextTurn(n) + one
  BY <1>2, <1>8, PromptedHits DEF PromptAfterCompaction
<1> HIDE DEF one
<1>10. QED
  BY <1>1, <1>2, <1>3, <1>4, <1>6, <1>7, <1>9, Sums

(* steer() and followUp() add their message.                               *)
LEMMA TotalOfQueue ==
  ASSUME Shapes, NEW n \in Nat \ {0}, Queue
  PROVE  Total(n)' = Total(n) + Sent(n)
<1>1. /\ InSession(n) \in Nat /\ ToBeSaid(n) \in Nat /\ Steered(n) \in Nat /\ Followed(n) \in Nat
      /\ NextTurn(n) \in Nat /\ AskedFor(n) \in Nat /\ Lost(n) \in Nat
  BY PlacesAreNumbers
<1>2. sent \in Nat /\ sent' = sent + 1
  BY DEF Queue, Send, Shapes, CountsOK
<1>3. Sent(n) = IF User(sent + 1) \in Copies(n) THEN 1 ELSE 0
  BY <1>2, CopiesOf DEF Sent
<1>4. /\ InSession(n)' = InSession(n) /\ ToBeSaid(n)' = ToBeSaid(n) /\ NextTurn(n)' = NextTurn(n)
      /\ AskedFor(n)' = AskedFor(n) /\ Lost(n)' = Lost(n)
  BY PlacesFrame DEF Queue
<1>5. User(sent + 1) \in Queued
  BY <1>2, NewEntries
<1>6. CASE steering' = Append(steering, User(sent + 1)) /\ UNCHANGED followUp
  <2>1. Steered(n)' = Steered(n) + Sent(n)
    BY <1>3, <1>5, <1>6, HitsOfAppend DEF Steered, Shapes, QueuesOK
  <2>2. Followed(n)' = Followed(n)
    BY <1>6, PlacesFrame
  <2>3. QED
    BY <1>1, <1>3, <1>4, <2>1, <2>2, Sums
<1>7. CASE followUp' = Append(followUp, User(sent + 1)) /\ UNCHANGED steering
  <2>1. Followed(n)' = Followed(n) + Sent(n)
    BY <1>3, <1>5, <1>7, HitsOfAppend DEF Followed, Shapes, QueuesOK
  <2>2. Steered(n)' = Steered(n)
    BY <1>7, PlacesFrame
  <2>3. QED
    BY <1>1, <1>3, <1>4, <2>1, <2>2, Sums
<1>8. QED
  BY <1>6, <1>7 DEF Queue

(* sendCustomMessage() adds its message.                                   *)
LEMMA TotalOfSendCustomMessage ==
  ASSUME Shapes, NEW n \in Nat \ {0}, SendCustomMessage
  PROVE  Total(n)' = Total(n) + Sent(n)
<1>1. /\ InSession(n) \in Nat /\ ToBeSaid(n) \in Nat /\ Steered(n) \in Nat /\ Followed(n) \in Nat
      /\ NextTurn(n) \in Nat /\ AskedFor(n) \in Nat /\ Lost(n) \in Nat
  BY PlacesAreNumbers
<1>2. sent \in Nat /\ sent' = sent + 1
  BY DEF SendCustomMessage, Send, Shapes, CountsOK
<1>3. Sent(n) = IF Custom(sent + 1) \in Copies(n) THEN 1 ELSE 0
  BY <1>2, CopiesOf DEF Sent
<1>4. /\ ToBeSaid(n)' = ToBeSaid(n) /\ Steered(n)' = Steered(n) /\ Followed(n)' = Followed(n)
      /\ AskedFor(n)' = AskedFor(n) /\ Lost(n)' = Lost(n)
  BY PlacesFrame DEF SendCustomMessage, queues
<1>5. Custom(sent + 1) \in Waiting /\ Custom(sent + 1) \in Entries
  BY <1>2, NewEntries
<1>6. CASE entries' = Append(entries, Custom(sent + 1)) /\ UNCHANGED pendingNextTurnMessages
  <2>1. InSession(n)' = InSession(n) + Sent(n)
    BY <1>3, <1>5, <1>6, SessionHits DEF Shapes
  <2>2. NextTurn(n)' = NextTurn(n)
    BY <1>6, PlacesFrame
  <2>3. QED
    BY <1>1, <1>3, <1>4, <2>1, <2>2, Sums
<1>7. CASE pendingNextTurnMessages' = Append(pendingNextTurnMessages, Custom(sent + 1)) /\ UNCHANGED entries
  <2>1. NextTurn(n)' = NextTurn(n) + Sent(n)
    BY <1>3, <1>5, <1>7, HitsOfAppend DEF NextTurn, Shapes, QueuesOK
  <2>2. InSession(n)' = InSession(n)
    BY <1>7, PlacesFrame
  <2>3. QED
    BY <1>1, <1>3, <1>4, <2>1, <2>2, Sums
<1>8. QED
  BY <1>6, <1>7 DEF SendCustomMessage

(* What clearQueue() takes out is lost.                                    *)
LEMMA TotalOfClearQueue ==
  ASSUME Shapes, Ledger, NEW n \in Nat \ {0}, ClearQueue
  PROVE  Total(n)' = Total(n) + Sent(n)
<1>1. /\ InSession(n) \in Nat /\ ToBeSaid(n) \in Nat /\ Steered(n) \in Nat /\ Followed(n) \in Nat
      /\ NextTurn(n) \in Nat /\ AskedFor(n) \in Nat /\ Lost(n) \in Nat
  BY PlacesAreNumbers
<1>2. /\ InSession(n)' = InSession(n) /\ ToBeSaid(n)' = ToBeSaid(n) /\ NextTurn(n)' = NextTurn(n)
      /\ AskedFor(n)' = AskedFor(n) /\ Sent(n) = 0
  BY PlacesFrame DEF ClearQueue, Shapes, CountsOK
<1>3. Steered(n)' = 0 /\ Followed(n)' = 0
  BY HitsOfEmpty DEF ClearQueue, Steered, Followed
<1>4. /\ n \in MessagesOf(steering) <=> Steered(n) # 0
      /\ n \in MessagesOf(followUp) <=> Followed(n) # 0
  BY LostWith, PlainSequences DEF Steered, Followed, Shapes, QueuesOK
<1>5. Lost(n)' = IF n \in dropped \/ Steered(n) # 0 \/ Followed(n) # 0 THEN 1 ELSE 0
  BY <1>4 DEF Lost, ClearQueue
<1>6. Steered(n) + Followed(n) + Lost(n) <= 1
  <2>1. Total(n) <= 1
    BY DEF Ledger
  <2>2. QED
    BY <1>1, <2>1, Sums
<1>7. Lost(n)' = Lost(n) + Steered(n) + Followed(n)
  BY <1>1, <1>5, <1>6 DEF Lost
<1>8. QED
  BY <1>1, <1>2, <1>3, <1>7, Sums

(* A queued message becomes the one the run says.                          *)
LEMMA TotalOfPoll ==
  ASSUME Shapes, NEW n \in Nat \ {0}, run.stage # "saying", InSession(n)' = InSession(n),
         UNCHANGED <<pendingNextTurnMessages, asked, dropped, sent>>,
         \/ /\ steering # <<>> /\ steering' = Tail(steering) /\ UNCHANGED followUp
            /\ run'.toSay = <<Head(steering)>>
         \/ /\ followUp # <<>> /\ followUp' = Tail(followUp) /\ UNCHANGED steering
            /\ run'.toSay = <<Head(followUp)>>
         \/ UNCHANGED <<steering, followUp>> /\ run'.toSay = <<>>
         \/ UNCHANGED <<steering, followUp, run>>
  PROVE  Total(n)' = Total(n) + Sent(n)
<1>1. /\ InSession(n) \in Nat /\ ToBeSaid(n) \in Nat /\ Steered(n) \in Nat /\ Followed(n) \in Nat
      /\ NextTurn(n) \in Nat /\ AskedFor(n) \in Nat /\ Lost(n) \in Nat
  BY PlacesAreNumbers
<1>2. NextTurn(n)' = NextTurn(n) /\ AskedFor(n)' = AskedFor(n) /\ Lost(n)' = Lost(n) /\ Sent(n) = 0
  BY PlacesFrame DEF Shapes, CountsOK
<1>3. ToBeSaid(n) = 0
  BY SilentRun DEF Shapes
<1>4. steering \in Seq(Queued) /\ followUp \in Seq(Queued)
  BY DEF Shapes, QueuesOK
<1>5. CASE /\ steering # <<>> /\ steering' = Tail(steering) /\ UNCHANGED followUp
           /\ run'.toSay = <<Head(steering)>>
  <2>1. Steered(n) = Steered(n)' + ToBeSaid(n)'
    BY <1>4, <1>5, Taken DEF Steered, ToBeSaid
  <2>2. Followed(n)' = Followed(n)
    BY <1>5, PlacesFrame
  <2>3. Steered(n)' \in Nat /\ ToBeSaid(n)' \in Nat
    <3>1. steering' \in Seq(Queued) /\ run'.toSay \in Seq(Said)
      BY <1>4, <1>5, PlainSequences, RunSaysOne
    <3>2. QED
      BY <3>1, HitsType DEF Steered, ToBeSaid
  <2>4. /\ Total(n) = InSession(n) + ToBeSaid(n) + Steered(n) + Followed(n) + NextTurn(n)
                        + AskedFor(n) + Lost(n)
        /\ Total(n)' = InSession(n)' + ToBeSaid(n)' + Steered(n)' + Followed(n)' + NextTurn(n)'
                         + AskedFor(n)' + Lost(n)'
    BY Sums, Zenon
  <2>5. QED
    BY <1>1, <1>2, <1>3, <2>1, <2>2, <2>3, <2>4, SMTT(30)
<1>6. CASE /\ followUp # <<>> /\ followUp' = Tail(followUp) /\ UNCHANGED steering
           /\ run'.toSay = <<Head(followUp)>>
  <2>1. Followed(n) = Followed(n)' + ToBeSaid(n)'
    BY <1>4, <1>6, Taken DEF Followed, ToBeSaid
  <2>2. Steered(n)' = Steered(n)
    BY <1>6, PlacesFrame
  <2>3. Followed(n)' \in Nat /\ ToBeSaid(n)' \in Nat
    <3>1. followUp' \in Seq(Queued) /\ run'.toSay \in Seq(Said)
      BY <1>4, <1>6, PlainSequences, RunSaysOne
    <3>2. QED
      BY <3>1, HitsType DEF Followed, ToBeSaid
  <2>4. /\ Total(n) = InSession(n) + ToBeSaid(n) + Steered(n) + Followed(n) + NextTurn(n)
                        + AskedFor(n) + Lost(n)
        /\ Total(n)' = InSession(n)' + ToBeSaid(n)' + Steered(n)' + Followed(n)' + NextTurn(n)'
                         + AskedFor(n)' + Lost(n)'
    BY Sums, Zenon
  <2>5. QED
    BY <1>1, <1>2, <1>3, <2>1, <2>2, <2>3, <2>4, SMTT(30)
<1>7. CASE UNCHANGED <<steering, followUp>> /\ (run'.toSay = <<>> \/ UNCHANGED run)
  <2>1. Steered(n)' = Steered(n) /\ Followed(n)' = Followed(n)
    BY <1>7, PlacesFrame
  <2>2. ToBeSaid(n)' = 0
    BY <1>3, <1>7, NewToSay, PlacesFrame
  <2>3. QED
    BY <1>1, <1>2, <1>3, <2>1, <2>2, Sums
<1>8. QED
  BY <1>5, <1>6, <1>7

(* Only the session, and nothing of a message, changes.                    *)
LEMMA TotalOfQuiet ==
  ASSUME Shapes, NEW n \in Nat \ {0}, InSession(n)' = InSession(n),
         UNCHANGED <<run, steering, followUp, pendingNextTurnMessages, asked, dropped, sent>>
  PROVE  Total(n)' = Total(n) + Sent(n)
<1>1. /\ InSession(n) \in Nat /\ ToBeSaid(n) \in Nat /\ Steered(n) \in Nat /\ Followed(n) \in Nat
      /\ NextTurn(n) \in Nat /\ AskedFor(n) \in Nat /\ Lost(n) \in Nat
  BY PlacesAreNumbers
<1>2. /\ ToBeSaid(n)' = ToBeSaid(n) /\ Steered(n)' = Steered(n) /\ Followed(n)' = Followed(n)
      /\ NextTurn(n)' = NextTurn(n) /\ AskedFor(n)' = AskedFor(n) /\ Lost(n)' = Lost(n) /\ Sent(n) = 0
  BY PlacesFrame DEF Shapes, CountsOK
<1>3. QED
  BY <1>1, <1>2, Sums

(* An answer is no message of the count; a queued one may follow it.       *)
LEMMA TotalOfAnswer ==
  ASSUME Shapes, NEW n \in Nat \ {0}, Answer
  PROVE  Total(n)' = Total(n) + Sent(n)
<1>1. PICK kind \in Answers : /\ Hear(Entry(kind, 0))
                              /\ \/ PollAfter(Entry(kind, 0))
                                 \/ Fails(Entry(kind, 0)) /\ UNCHANGED <<steering, followUp>>
  BY Zenon DEF Answer
<1>2. kind \in Good \cup Errors
  BY AgentSessionAssumption
<1> DEFINE e == Entry(kind, 0)
<1>3. e \in Entries /\ e \notin Copies(n)
  <2>1. 0 \in Nat
    OBVIOUS
  <2>2. QED
    BY <1>2, <2>1, NewEntries, CopiesOf
<1>4. entries' = Append(entries, e)
  BY <1>1 DEF Hear
<1> HIDE DEF e
<1>5. InSession(n)' = InSession(n)
  <2>1. InSession(n) \in Nat
    BY PlacesType
  <2>2. QED
    BY <1>3, <1>4, <2>1, SessionHits DEF Shapes
<1>6. run.stage # "saying" /\ UNCHANGED <<pendingNextTurnMessages, asked, dropped, sent>>
  BY DEF Answer
<1>7. run \in Runs
  BY DEF Shapes, RunOK
<1>8. CASE Fails(Entry(kind, 0)) /\ UNCHANGED <<steering, followUp>>
  <2>1. run'.toSay = <<>>
    BY <1>7, <1>8 DEF Fails, Runs
  <2>2. QED
    BY <1>5, <1>6, <1>8, <2>1, TotalOfPoll
<1>9. CASE PollAfter(Entry(kind, 0))
  <2>1. \/ /\ steering # <<>> /\ steering' = Tail(steering) /\ UNCHANGED followUp
           /\ run' = [stage |-> "saying", toSay |-> <<Head(steering)>>, poll |-> FALSE]
        \/ /\ followUp # <<>> /\ followUp' = Tail(followUp) /\ UNCHANGED steering
           /\ run' = [stage |-> "saying", toSay |-> <<Head(followUp)>>, poll |-> FALSE]
        \/ UNCHANGED <<steering, followUp>> /\ run' = [Idle EXCEPT !.stage = "ending"]
    BY <1>9 DEF PollAfter
  <2>2. run' = [Idle EXCEPT !.stage = "ending"] => run'.toSay = <<>>
    BY DEF Idle
  <2>3. QED
    BY <1>5, <1>6, <2>1, <2>2, TotalOfPoll
<1>10. QED
  BY <1>1, <1>8, <1>9

(* Every step adds to the count what it sends, and nothing else.           *)
LEMMA TotalStep ==
  ASSUME Shapes, Ledger, [Next]_vars, NEW n \in Nat \ {0}
  PROVE  Total(n)' = Total(n) + Sent(n)
<1>0. Shapes'
  BY ShapesStep
<1>1. UNCHANGED entries => InSession(n)' = InSession(n)
  BY PlacesFrame
<1>2. ASSUME NEW c \in Callers, Prompt(c) PROVE Total(n)' = Total(n) + Sent(n)
  BY <1>0, <1>2, TotalOfPrompt
<1>3. ASSUME NEW c \in Callers, PromptAfterCompaction(c) PROVE Total(n)' = Total(n) + Sent(n)
  BY <1>0, <1>3, TotalOfPromptAfterCompaction
<1>4. ASSUME NEW c \in Callers, Compact(c) PROVE Total(n)' = Total(n) + Sent(n)
  BY <1>1, <1>4, TotalOfQuiet DEF Compact, queues
<1>5. ASSUME NEW c \in Callers, EndCompact(c) PROVE Total(n)' = Total(n) + Sent(n)
  <2>1. c \in Owners /\ EndCompaction(c)
    BY <1>5 DEF EndCompact, Owners
  <2>2. InSession(n)' = InSession(n)
    BY <2>1, CompactionHits DEF Shapes
  <2>3. QED
    BY <1>5, <2>2, TotalOfQuiet DEF EndCompact, queues
<1>6. CASE Queue
  BY <1>6, TotalOfQueue
<1>7. CASE SendCustomMessage
  BY <1>7, TotalOfSendCustomMessage
<1>8. CASE ClearQueue
  BY <1>8, TotalOfClearQueue
<1>9. CASE AbortCompaction
  BY <1>1, <1>9, TotalOfQuiet DEF AbortCompaction, queues
<1>10. CASE Say
  BY <1>10, TotalOfSay
<1>11. CASE PollFirst
  <2>1. /\ run.stage # "saying" /\ InSession(n)' = InSession(n)
        /\ UNCHANGED <<pendingNextTurnMessages, asked, dropped, sent>>
    BY <1>1, <1>11 DEF PollFirst
  <2>2. CASE steering = <<>>
    <3>1. run.toSay = <<>> /\ run \in Runs
      BY <2>1, SilentRun DEF Shapes, RunOK
    <3>2. run'.toSay = <<>> /\ UNCHANGED <<steering, followUp>>
      BY <1>11, <2>2, <3>1 DEF PollFirst, Runs
    <3>3. QED
      BY <2>1, <3>2, TotalOfPoll
  <2>3. CASE steering # <<>>
    <3>1. run'.toSay = <<Head(steering)>> /\ steering' = Tail(steering) /\ UNCHANGED followUp
      BY <1>11, <2>3 DEF PollFirst
    <3>2. QED
      BY <2>1, <2>3, <3>1, TotalOfPoll
  <2>4. QED
    BY <2>2, <2>3
<1>12. CASE Answer
  BY <1>12, TotalOfAnswer
<1>13. CASE EndOfRun
  <2>1. Run \in Owners /\ EndCompaction(Run)
    BY <1>13 DEF EndOfRun, Owners
  <2>2. InSession(n)' = InSession(n)
    BY <2>1, CompactionHits DEF Shapes
  <2>3. run.stage # "saying" /\ run'.toSay = <<>>
    BY <1>13 DEF EndOfRun, Idle
  <2>4. QED
    BY <1>13, <2>2, <2>3, TotalOfPoll DEF EndOfRun, queues
<1>14. CASE Continue
  <2>1. UNCHANGED <<entries, pendingNextTurnMessages, asked, dropped, sent>>
    BY <1>14 DEF Continue
  <2>2. CASE UNCHANGED <<run, steering, followUp>>
    BY <1>1, <2>1, <2>2, TotalOfQuiet
  <2>3. CASE ~ UNCHANGED <<run, steering, followUp>>
    <3>1. /\ ~isStreaming
          /\ \/ /\ steering # <<>> /\ steering' = Tail(steering) /\ UNCHANGED followUp
                /\ Begin(<<Head(steering)>>, FALSE)
             \/ /\ followUp # <<>> /\ followUp' = Tail(followUp) /\ UNCHANGED steering
                /\ Begin(<<Head(followUp)>>, TRUE)
             \/ UNCHANGED <<steering, followUp>> /\ Begin(<<>>, TRUE)
      BY <1>14, <2>3 DEF Continue
    <3>2. run.stage # "saying"
      BY <3>1 DEF isStreaming
    <3>3. \A toSay, poll : Begin(toSay, poll) => run'.toSay = toSay
      BY DEF Begin
    <3>4. QED
      BY <1>1, <2>1, <3>1, <3>2, <3>3, TotalOfPoll
  <2>4. QED
    BY <2>2, <2>3
<1>15. CASE End
  <2>1. run.stage # "saying" /\ run'.toSay = <<>>
    BY <1>15 DEF End, Idle
  <2>2. UNCHANGED <<entries, steering, followUp, pendingNextTurnMessages, asked, dropped, sent>>
    BY <1>15 DEF End, queues
  <2>3. QED
    BY <1>1, <2>1, <2>2, TotalOfPoll
<1>16. CASE UNCHANGED vars
  BY <1>1, <1>16, TotalOfQuiet DEF vars, queues
<1>17. QED
  BY <1>2, <1>3, <1>4, <1>5, <1>6, <1>7, <1>8, <1>9, <1>10, <1>11, <1>12, <1>13, <1>14, <1>15, <1>16
     DEF Next

(* A step sends one message or none.                                       *)
LEMMA SentGrows ==
  ASSUME [Next]_vars
  PROVE  sent' \in {sent, sent + 1}
<1>1. ASSUME NEW c \in Callers, Prompt(c) \/ PromptAfterCompaction(c) \/ Compact(c) \/ EndCompact(c)
      PROVE  sent' \in {sent, sent + 1}
  BY <1>1 DEF Prompt, PromptAfterCompaction, Compact, EndCompact, Send
<1>2. CASE Queue \/ SendCustomMessage \/ ClearQueue \/ AbortCompaction
  BY <1>2 DEF Queue, SendCustomMessage, ClearQueue, AbortCompaction, Send
<1>3. CASE Say \/ PollFirst \/ Answer \/ EndOfRun \/ Continue \/ End \/ UNCHANGED vars
  BY <1>3 DEF Say, PollFirst, Answer, EndOfRun, Continue, End, vars
<1>4. QED
  BY <1>1, <1>2, <1>3 DEF Next

(* Nothing is sent at the start.                                           *)
LEMMA LedgerInit == Init => Ledger
<1> SUFFICES ASSUME Init, NEW n \in Nat \ {0} PROVE Total(n) = IF n <= sent THEN 1 ELSE 0
  BY DEF Ledger
<1>0. ~(n <= sent)
  BY DEF Init
<1>1. Steered(n) = 0 /\ Followed(n) = 0 /\ NextTurn(n) = 0 /\ Lost(n) = 0
  BY HitsOfEmpty DEF Steered, Followed, NextTurn, Lost, Init
<1>2. ToBeSaid(n) = 0
  BY HitsOfEmpty DEF ToBeSaid, Init, Idle
<1>3. AskedFor(n) = 0
  <2>1. Askers(n) = {}
    BY DEF Askers, Init
  <2>2. QED
    BY <2>1, FS_EmptySet DEF AskedFor
<1>4. InSession(n) = 0
  <2>1. CASE entries = <<>>
    BY <2>1, HitsOfEmpty DEF InSession
  <2>2. CASE entries = <<User(0), Entry("overflow", 0)>>
    <3>1. 0 \in Nat /\ "overflow" \in Good \cup Errors \cup Compactions
      BY DEF Errors
    <3>2. User(0) \notin Copies(n) /\ Entry("overflow", 0) \notin Copies(n)
      BY <3>1, CopiesOf
    <3>3. \A i \in DOMAIN entries : entries[i] \notin Copies(n)
      BY <2>2, <3>2
    <3>4. HitsAt(entries, Copies(n)) = {}
      BY <3>3 DEF HitsAt
    <3>5. QED
      BY <3>4, FS_EmptySet DEF InSession, Hits
  <2>3. QED
    BY <2>1, <2>2 DEF Init
<1>5. QED
  BY <1>0, <1>1, <1>2, <1>3, <1>4, Sums

(* The ledger is kept by every step.                                       *)
LEMMA LedgerStep == Shapes /\ Ledger /\ [Next]_vars => Ledger'
<1> SUFFICES ASSUME Shapes, Ledger, [Next]_vars, NEW n \in Nat \ {0}
             PROVE  Total(n)' = IF n <= sent' THEN 1 ELSE 0
  BY DEF Ledger
<1>1. Total(n)' = Total(n) + Sent(n)
  BY TotalStep
<1>2. Total(n) = IF n <= sent THEN 1 ELSE 0
  BY DEF Ledger
<1>3. sent \in Nat /\ sent' \in {sent, sent + 1}
  BY SentGrows DEF Shapes, CountsOK
<1>4. QED
  BY <1>1, <1>2, <1>3 DEF Sent

(* A message somebody sent is in exactly one place, whoever prompts,       *)
(* steers, compacts or clears the queues, and whatever fails.              *)
THEOREM MessagesStay == Spec => []MessagesAreKept
<1>1. Shapes /\ Ledger => MessagesAreKept
  <2> SUFFICES ASSUME Shapes, Ledger, NEW n \in 1..sent
               PROVE  Times(n, entries) + Times(n, run.toSay) + Times(n, steering) + Times(n, followUp)
                        + Times(n, pendingNextTurnMessages) + Cardinality({c \in Callers : asked[c] = n})
                        + Cardinality({n} \cap dropped) = 1
    BY DEF MessagesAreKept
  <2>1. sent \in Nat /\ n \in Nat \ {0} /\ n <= sent
    BY DEF Shapes, CountsOK
  <2>2. Total(n) = 1
    BY <2>1 DEF Ledger
  <2>3. ASSUME NEW s \in Seq(Entries) PROVE Times(n, s) = Hits(s, Copies(n))
    <3>1. \A i \in DOMAIN s : s[i] \in Entries
      BY SeqValues
    <3>2. \A i \in DOMAIN s : s[i] \in Copies(n) <=> s[i].kind \in {"user", "custom"} /\ s[i].of = n
      BY <2>1, <3>1, CopiesOf
    <3>3. HitsAt(s, Copies(n)) = {i \in DOMAIN s : s[i].kind \in {"user", "custom"} /\ s[i].of = n}
      BY <3>2 DEF HitsAt
    <3>4. QED
      BY <3>3 DEF Times, Hits
  <2>4. /\ entries \in Seq(Entries) /\ run.toSay \in Seq(Entries) /\ steering \in Seq(Entries)
        /\ followUp \in Seq(Entries) /\ pendingNextTurnMessages \in Seq(Entries)
    <3>1. Seq(Said) \subseteq Seq(Entries)
      BY NewEntries, SeqGrows
    <3>2. QED
      BY <3>1, PlainSequences DEF Shapes, SessionOK, RunOK, Runs, QueuesOK
  <2>5. /\ Times(n, entries) = InSession(n) /\ Times(n, run.toSay) = ToBeSaid(n)
        /\ Times(n, steering) = Steered(n) /\ Times(n, followUp) = Followed(n)
        /\ Times(n, pendingNextTurnMessages) = NextTurn(n)
    BY <2>3, <2>4 DEF InSession, ToBeSaid, Steered, Followed, NextTurn
  <2>6. Cardinality({c \in Callers : asked[c] = n}) = AskedFor(n)
    BY DEF AskedFor, Askers
  <2>7. Cardinality({n} \cap dropped) = Lost(n)
    <3>1. CASE n \in dropped
      <4>1. {n} \cap dropped = {n}
        BY <3>1
      <4>2. QED
        BY <3>1, <4>1, FS_Singleton DEF Lost
    <3>2. CASE n \notin dropped
      <4>1. {n} \cap dropped = {}
        BY <3>2
      <4>2. QED
        BY <3>2, <4>1, FS_EmptySet DEF Lost
    <3>3. QED
      BY <3>1, <3>2
  <2>8. QED
    BY <2>2, <2>5, <2>6, <2>7, Sums
<1>2. QED
  BY <1>1, ShapesInit, ShapesStep, LedgerInit, LedgerStep, PTL DEF Spec

-----------------------------------------------------------------------------
(* What the user is shown as queued.                                       *)
QueuedNow == ToSet(steering) \cup ToSet(followUp)

(* A message that is shown and no longer queued is one of the user's that  *)
(* the run is about to say: a custom message with its number would be said *)
(* without leaving the list.                                               *)
ShownInv ==
  /\ \A n \in Nat \ {0} : User(n) \in QueuedNow => n \in shown
  /\ \A n \in shown : User(n) \in QueuedNow \cup ToSet(run.toSay) \/ n \in dropped

(* A message in a sequence is counted.                                     *)
LEMMA MemberHits ==
  ASSUME NEW s \in Seq(Said), NEW n \in Nat \ {0}, User(n) \in ToSet(s)
  PROVE  Hits(s, Copies(n)) # 0
<1>1. PICK i \in 1..Len(s) : s[i] = User(n)
  BY DEF ToSet
<1>2. User(n) \in Copies(n)
  BY DEF Copies
<1>3. QED
  BY <1>1, <1>2, HitsAny

(* The queues hold messages of the user.                                   *)
LEMMA QueuedAreUsers ==
  ASSUME NEW x \in Queued
  PROVE  x.of \in Nat \ {0} /\ x = User(x.of)
BY DEF Queued, User, Entry

(* The list stays, and what it names is only moved or lost.                *)
LEMMA ShownKept ==
  ASSUME ShownInv, UNCHANGED shown, QueuedNow' \subseteq QueuedNow, dropped \subseteq dropped',
         QueuedNow \cup ToSet(run.toSay) \subseteq QueuedNow' \cup ToSet(run'.toSay)
  PROVE  ShownInv'
BY DEF ShownInv

(* A queued message becomes the one the run says.                          *)
LEMMA ShownOfPoll ==
  ASSUME Shapes, ShownInv, run.toSay = <<>>, dropped \subseteq dropped', UNCHANGED shown,
         \/ /\ steering # <<>> /\ steering' = Tail(steering) /\ UNCHANGED followUp
            /\ run'.toSay = <<Head(steering)>>
         \/ /\ followUp # <<>> /\ followUp' = Tail(followUp) /\ UNCHANGED steering
            /\ run'.toSay = <<Head(followUp)>>
         \/ UNCHANGED <<steering, followUp>>
  PROVE  ShownInv'
<1>1. steering \in Seq(Queued) /\ followUp \in Seq(Queued) /\ ToSet(run.toSay) = {}
  BY MembersOfFew, MembersOfAppend, MembersOfTail DEF Shapes, QueuesOK
<1>2. CASE /\ steering # <<>> /\ steering' = Tail(steering) /\ UNCHANGED followUp
           /\ run'.toSay = <<Head(steering)>>
  <2>1. ToSet(steering) = {Head(steering)} \cup ToSet(steering') /\ ToSet(run'.toSay) = {Head(steering)}
    BY <1>1, <1>2, MembersOfFew, MembersOfAppend, MembersOfTail
  <2>2. QED
    BY <1>1, <1>2, <2>1, ShownKept DEF QueuedNow
<1>3. CASE /\ followUp # <<>> /\ followUp' = Tail(followUp) /\ UNCHANGED steering
           /\ run'.toSay = <<Head(followUp)>>
  <2>1. ToSet(followUp) = {Head(followUp)} \cup ToSet(followUp') /\ ToSet(run'.toSay) = {Head(followUp)}
    BY <1>1, <1>3, MembersOfFew, MembersOfAppend, MembersOfTail
  <2>2. QED
    BY <1>1, <1>3, <2>1, ShownKept DEF QueuedNow
<1>4. CASE UNCHANGED <<steering, followUp>>
  BY <1>1, <1>4, ShownKept DEF QueuedNow
<1>5. QED
  BY <1>2, <1>3, <1>4

(* A message of the user that is said leaves the list.                     *)
LEMMA ShownOfSay ==
  ASSUME Shapes, Ledger, ShownInv, Say
  PROVE  ShownInv'
<1> DEFINE e == Head(run.toSay)
           rest == Tail(run.toSay)
<1>1. run.toSay \in Seq(Said) /\ run.toSay # <<>> /\ e \in Said /\ rest \in Seq(Said)
  BY TailEmpty DEF Say, Shapes, RunOK, Runs
<1>2. ToSet(run.toSay) = {e} \cup ToSet(rest)
  BY <1>1, MembersOfFew, MembersOfAppend, MembersOfTail
<1>3. shown' = (IF e.kind = "user" THEN shown \ {e.of} ELSE shown) /\ UNCHANGED <<steering, followUp>>
  BY DEF Say, Hear
<1>4. QueuedNow' = QueuedNow
  BY <1>3 DEF QueuedNow
<1>5. e.kind = "user" => e = User(e.of) /\ e.of \in Nat \ {0}
  BY <1>1 DEF Said, User, Entry
<1>6. \A n : e = User(n) => e.kind = "user" /\ e.of = n
  BY DEF User, Entry
<1>7. \/ UNCHANGED dropped /\ run'.toSay = rest
      \/ run'.toSay = <<>> /\ dropped' = dropped \cup MessagesOf(rest)
  BY DEF Say, Fails, Shapes, RunOK, Runs
<1> HIDE DEF e, rest
<1>8. ASSUME NEW n \in Nat \ {0}, User(n) \in QueuedNow' PROVE n \in shown'
  <2>1. User(n) \in QueuedNow /\ n \in shown
    BY <1>4, <1>8 DEF ShownInv
  <2>2. Steered(n) # 0 \/ Followed(n) # 0
    <3>1. steering \in Seq(Said) /\ followUp \in Seq(Said)
      BY PlainSequences DEF Shapes, QueuesOK
    <3>2. QED
      BY <2>1, <3>1, MemberHits DEF QueuedNow, Steered, Followed
  <2>3. ToBeSaid(n) = 0
    <3>1. /\ InSession(n) \in Nat /\ ToBeSaid(n) \in Nat /\ Steered(n) \in Nat /\ Followed(n) \in Nat
          /\ NextTurn(n) \in Nat /\ AskedFor(n) \in Nat /\ Lost(n) \in Nat
      BY PlacesAreNumbers
    <3>2. Total(n) <= 1
      BY DEF Ledger
    <3>3. QED
      BY <2>2, <3>1, <3>2, Sums
  <2>4. e # User(n)
    BY <1>1, <1>2, <2>3, MemberHits DEF ToBeSaid
  <2>5. QED
    BY <1>3, <1>5, <2>1, <2>4
<1>9. ASSUME NEW n \in shown' PROVE User(n) \in QueuedNow' \cup ToSet(run'.toSay) \/ n \in dropped'
  <2>1. n \in shown /\ e # User(n)
    BY <1>3, <1>6, <1>9
  <2>2. User(n) \in QueuedNow \cup ToSet(rest) \/ n \in dropped
    BY <1>2, <2>1 DEF ShownInv
  <2>3. User(n) \in ToSet(rest) => n \in MessagesOf(rest)
    <3>1. User(n).of = n
      BY DEF User, Entry
    <3>2. QED
      BY <3>1, Zenon DEF ToSet, MessagesOf
  <2>4. QED
    BY <1>4, <1>7, <2>2, <2>3
<1>10. QED
  BY <1>8, <1>9 DEF ShownInv

(* Every step keeps the list.                                              *)
LEMMA ShownStep == Shapes /\ Ledger /\ ShownInv /\ [Next]_vars => ShownInv'
<1> SUFFICES ASSUME Shapes, Ledger, ShownInv, [Next]_vars PROVE ShownInv'
  OBVIOUS
<1>1. CASE UNCHANGED <<queues, run>> /\ dropped \subseteq dropped'
  BY <1>1, ShownKept DEF QueuedNow, queues
<1>2. run.stage # "saying" => run.toSay = <<>>
  BY DEF Shapes, RunOK
<1>3. ASSUME NEW n, PromptAgent(n), UNCHANGED queues PROVE ShownInv'
  <2>1. CASE isStreaming
    BY <1>1, <1>3, <2>1 DEF PromptAgent
  <2>2. CASE ~isStreaming
    BY <1>2, <1>3, <2>2, ShownOfPoll DEF PromptAgent, isStreaming, queues
  <2>3. QED
    BY <2>1, <2>2
<1>4. ASSUME NEW c \in Callers, Prompt(c) PROVE ShownInv'
  <2>1. UNCHANGED queues /\ (PromptAgent(sent + 1) \/ UNCHANGED <<run, dropped>>)
    BY <1>4 DEF Prompt
  <2>2. QED
    BY <1>1, <1>3, <2>1
<1>5. ASSUME NEW c \in Callers, PromptAfterCompaction(c) PROVE ShownInv'
  BY <1>3, <1>5 DEF PromptAfterCompaction
<1>6. ASSUME NEW c \in Callers, Compact(c) \/ EndCompact(c) PROVE ShownInv'
  BY <1>1, <1>6 DEF Compact, EndCompact
<1>7. CASE Queue
  <2>1. sent \in Nat /\ shown' = shown \cup {sent + 1} /\ UNCHANGED <<run, dropped>>
    BY <1>7 DEF Queue, Shapes, CountsOK
  <2>2. User(sent + 1) \in Queued /\ steering \in Seq(Queued) /\ followUp \in Seq(Queued)
    BY <2>1, NewEntries DEF Shapes, QueuesOK
  <2>3. QueuedNow' = QueuedNow \cup {User(sent + 1)}
    <3>1. /\ ToSet(Append(steering, User(sent + 1))) = ToSet(steering) \cup {User(sent + 1)}
          /\ ToSet(Append(followUp, User(sent + 1))) = ToSet(followUp) \cup {User(sent + 1)}
      BY <2>2, MembersOfAppend
    <3>2. \/ steering' = Append(steering, User(sent + 1)) /\ UNCHANGED followUp
          \/ followUp' = Append(followUp, User(sent + 1)) /\ UNCHANGED steering
      BY <1>7 DEF Queue
    <3>3. QED
      BY <3>1, <3>2, Zenon DEF QueuedNow
  <2>4. \A n : User(n) = User(sent + 1) => n = sent + 1
    BY DEF User, Entry
  <2>5. QED
    BY <2>1, <2>3, <2>4 DEF ShownInv
<1>8. CASE SendCustomMessage \/ AbortCompaction
  BY <1>1, <1>8 DEF SendCustomMessage, AbortCompaction
<1>9. CASE ClearQueue
  <2>1. QueuedNow' = {} /\ shown' = {}
    BY <1>9, MembersOfFew, MembersOfAppend, MembersOfTail DEF ClearQueue, QueuedNow
  <2>2. QED
    BY <2>1 DEF ShownInv
<1>10. CASE Say
  BY <1>10, ShownOfSay
<1>11. CASE PollFirst
  <2>1. run.toSay = <<>> /\ UNCHANGED <<shown, dropped>>
    BY <1>2, <1>11 DEF PollFirst
  <2>2. CASE steering = <<>>
    BY <1>11, <2>1, <2>2, ShownOfPoll DEF PollFirst
  <2>3. CASE steering # <<>>
    <3>1. run'.toSay = <<Head(steering)>> /\ steering' = Tail(steering) /\ UNCHANGED followUp
      BY <1>11, <2>3 DEF PollFirst
    <3>2. QED
      BY <2>1, <2>3, <3>1, ShownOfPoll
  <2>4. QED
    BY <2>2, <2>3
<1>12. CASE Answer
  <2>1. PICK kind \in Answers : /\ Hear(Entry(kind, 0))
                                /\ \/ PollAfter(Entry(kind, 0))
                                   \/ Fails(Entry(kind, 0)) /\ UNCHANGED <<steering, followUp>>
    BY <1>12, Zenon DEF Answer
  <2>2. UNCHANGED shown
    BY <2>1, AgentSessionAssumption DEF Hear, Entry, Good, Errors
  <2>3. run.toSay = <<>> /\ UNCHANGED dropped
    BY <1>2, <1>12 DEF Answer
  <2>4. CASE UNCHANGED <<steering, followUp>>
    BY <2>2, <2>3, <2>4, ShownOfPoll
  <2>5. CASE PollAfter(Entry(kind, 0))
    <3>1. \/ /\ steering # <<>> /\ steering' = Tail(steering) /\ UNCHANGED followUp
             /\ run' = [stage |-> "saying", toSay |-> <<Head(steering)>>, poll |-> FALSE]
          \/ /\ followUp # <<>> /\ followUp' = Tail(followUp) /\ UNCHANGED steering
             /\ run' = [stage |-> "saying", toSay |-> <<Head(followUp)>>, poll |-> FALSE]
          \/ UNCHANGED <<steering, followUp>>
      BY <2>5 DEF PollAfter
    <3>2. QED
      BY <2>2, <2>3, <3>1, ShownOfPoll
  <2>6. QED
    BY <2>1, <2>4, <2>5
<1>13. CASE EndOfRun
  BY <1>2, <1>13, ShownOfPoll DEF EndOfRun, queues
<1>14. CASE Continue
  <2>1. UNCHANGED <<shown, dropped>>
    BY <1>14 DEF Continue
  <2>2. CASE UNCHANGED <<run, steering, followUp>>
    BY <1>1, <2>1, <2>2 DEF queues
  <2>3. CASE ~ UNCHANGED <<run, steering, followUp>>
    <3>1. /\ ~isStreaming
          /\ \/ /\ steering # <<>> /\ steering' = Tail(steering) /\ UNCHANGED followUp
                /\ Begin(<<Head(steering)>>, FALSE)
             \/ /\ followUp # <<>> /\ followUp' = Tail(followUp) /\ UNCHANGED steering
                /\ Begin(<<Head(followUp)>>, TRUE)
             \/ UNCHANGED <<steering, followUp>>
      BY <1>14, <2>3 DEF Continue
    <3>2. run.toSay = <<>>
      BY <1>2, <3>1 DEF isStreaming
    <3>3. \A toSay, poll : Begin(toSay, poll) => run'.toSay = toSay
      BY DEF Begin
    <3>4. QED
      BY <2>1, <3>1, <3>2, <3>3, ShownOfPoll
  <2>4. QED
    BY <2>2, <2>3
<1>15. CASE End
  BY <1>2, <1>15, ShownOfPoll DEF End, queues
<1>16. CASE UNCHANGED vars
  BY <1>1, <1>16 DEF vars
<1>17. QED
  BY <1>4, <1>5, <1>6, <1>7, <1>8, <1>9, <1>10, <1>11, <1>12, <1>13, <1>14, <1>15, <1>16 DEF Next

(* The user is shown what is queued, and nothing that was said or dropped  *)
(* unless its run failed.                                                  *)
THEOREM ShownIsQueued == Spec => []QueuesAreShown
<1>1. Init => ShownInv
  <2> SUFFICES ASSUME Init PROVE ShownInv
    OBVIOUS
  <2>1. QueuedNow = {} /\ shown = {}
    BY MembersOfFew, MembersOfAppend, MembersOfTail DEF Init, QueuedNow
  <2>2. QED
    BY <2>1 DEF ShownInv
<1>2. Shapes /\ ShownInv => QueuesAreShown
  <2> SUFFICES ASSUME Shapes, ShownInv PROVE QueuesAreShown
    OBVIOUS
  <2> DEFINE queued == {e.of : e \in {e \in ToSet(steering) \cup ToSet(followUp) : e.kind = "user"}}
             saying == MessagesOf(run.toSay)
  <2>1. \A x \in QueuedNow : x \in Queued
    <3>1. steering \in Seq(Queued) /\ followUp \in Seq(Queued)
      BY DEF Shapes, QueuesOK
    <3>2. /\ \A i \in DOMAIN steering : steering[i] \in Queued
          /\ \A i \in DOMAIN followUp : followUp[i] \in Queued
      BY <3>1, SeqValues
    <3>3. QED
      BY <3>2, Zenon DEF QueuedNow, ToSet
  <2>2. queued \subseteq shown
    <3> SUFFICES ASSUME NEW x \in QueuedNow PROVE x.of \in shown
      BY DEF QueuedNow
    <3>1. x.of \in Nat \ {0} /\ x = User(x.of)
      BY <2>1, QueuedAreUsers
    <3>2. QED
      BY <3>1 DEF ShownInv
  <2>3. ASSUME NEW n \in shown PROVE n \in queued \cup saying \cup dropped
    <3>0. User(n).of = n /\ User(n).kind = "user"
      BY DEF User, Entry
    <3>1. CASE User(n) \in QueuedNow
      BY <3>0, <3>1 DEF QueuedNow
    <3>2. CASE User(n) \in ToSet(run.toSay)
      <4>1. n \in saying
        BY <3>0, <3>2, Zenon DEF ToSet, MessagesOf
      <4>2. QED
        BY <4>1
    <3>3. QED
      BY <3>1, <3>2 DEF ShownInv
  <2>4. QED
    BY <2>2, <2>3 DEF QueuesAreShown
<1>3. QED
  BY <1>1, <1>2, ShapesInit, ShapesStep, LedgerInit, LedgerStep, ShownStep, PTL DEF Spec

-----------------------------------------------------------------------------
(* What the model is shown.                                                *)

(* The kind of a message and the messages that are no errors, of given     *)
(* entries: what a step does to them is said of two states' entries.       *)
KindIn(es, m)     == IF m = 0 THEN "error" ELSE es[m].kind
GoodPlaces(es, ms) == {i \in DOMAIN ms : KindIn(es, ms[i]) \notin Errors}
At(ms, places)    == [i \in DOMAIN places |-> ms[places[i]]]
GoodIn(es, ms)    == At(ms, InOrder(GoodPlaces(es, ms)))

(* The model's operator, of given entries.                                 *)
LEMMA WithoutErrorsIs == \A ms : WithoutErrors(ms) = GoodIn(entries, ms)
BY Zenon DEF WithoutErrors, GoodIn, At, GoodPlaces, KindOf, KindIn

(* A number above all others is put at the end.                            *)
LEMMA InOrderAppends ==
  ASSUME NEW n \in Nat, NEW S \in SUBSET (0..n), NEW x \in Nat, x > n
  PROVE  InOrder(S \cup {x}) = Append(InOrder(S), x)
<1> DEFINE s == InOrder(S)
           t == InOrder(S \cup {x})
<1>1. IsFiniteSet(S) /\ Cardinality(S) \in Nat /\ s \in Seq(S) /\ S \subseteq Nat /\ \A k \in S : k < x
  BY InOrderType
<1>2. Len(s) = Cardinality(S)
  <2>1. DOMAIN s = 1..Cardinality(S)
    BY InOrderAt
  <2> HIDE DEF s
  <2>2. QED
    BY <1>1, <2>1
<1>3. /\ Cardinality(S \cup {x}) = Cardinality(S) + 1
      /\ \A i \in 1..Cardinality(S) : t[i] = s[i]
      /\ t[Cardinality(S) + 1] = x
  BY <1>1, InOrderGrows
<1>4. t = [i \in 1..Cardinality(S \cup {x}) |-> t[i]]
  BY InOrderAt
<1> HIDE DEF s, t
<1>5. s \in Seq(Nat)
  BY <1>1, SeqGrows
<1>6. Lengthens(t, s, x)
  BY <1>1, <1>2, <1>3, <1>4 DEF Lengthens
<1>7. t = Append(s, x)
  BY <1>5, <1>6, IsAppend
<1>8. QED
  BY <1>7 DEF s, t

(* One more message is one more good one, or an error.                     *)
LEMMA GoodOfAppend ==
  ASSUME NEW es, NEW ms \in Seq(Nat), NEW m \in Nat
  PROVE  /\ GoodIn(es, ms) \in Seq(Nat)
         /\ GoodIn(es, Append(ms, m)) = IF KindIn(es, m) \in Errors THEN GoodIn(es, ms)
                                                                   ELSE Append(GoodIn(es, ms), m)
<1> DEFINE n == Len(ms)
           ns == Append(ms, m)
           S == GoodPlaces(es, ms)
           places == InOrder(S)
<1>1. /\ n \in Nat /\ DOMAIN ms = 1..n /\ DOMAIN ns = 1..(n + 1) /\ ns[n + 1] = m
      /\ \A i \in 1..n : ns[i] = ms[i] /\ ms[i] \in Nat
  OBVIOUS
<1> HIDE DEF n, ns
<1>2. S \in SUBSET (0..n) /\ S \subseteq 1..n
  BY <1>1 DEF GoodPlaces
<1> HIDE DEF S
<1>3. places \in Seq(S)
  BY <1>1, <1>2, InOrderType
<1> HIDE DEF places
<1>4. Len(places) \in Nat /\ DOMAIN places = 1..Len(places) /\ \A i \in DOMAIN places : places[i] \in 1..n
  BY <1>2, <1>3, SeqValues
<1>5. GoodIn(es, ms) = [i \in 1..Len(places) |-> ms[places[i]]]
  BY <1>4 DEF GoodIn, At, places, S
<1>6. GoodIn(es, ms) \in Seq(Nat) /\ Len(GoodIn(es, ms)) = Len(places)
  BY <1>1, <1>4, <1>5
<1>7. CASE KindIn(es, m) \in Errors
  <2>1. GoodPlaces(es, ns) = S
    BY <1>1, <1>7 DEF GoodPlaces, S
  <2>2. GoodIn(es, ns) = [i \in 1..Len(places) |-> ns[places[i]]]
    BY <1>4, <2>1 DEF GoodIn, At, places
  <2>3. GoodIn(es, ns) = GoodIn(es, ms)
    BY <1>1, <1>4, <1>5, <2>2
  <2>4. QED
    BY <1>6, <1>7, <2>3 DEF ns
<1>8. CASE KindIn(es, m) \notin Errors
  <2>1. GoodPlaces(es, ns) = S \cup {n + 1}
    BY <1>1, <1>8 DEF GoodPlaces, S
  <2>2. InOrder(S \cup {n + 1}) = Append(places, n + 1)
    <3>1. n + 1 \in Nat /\ n + 1 > n
      BY <1>1
    <3>2. QED
      BY <1>1, <1>2, <3>1, InOrderAppends DEF places
  <2> DEFINE ps == Append(places, n + 1)
  <2>3. /\ DOMAIN ps = 1..(Len(places) + 1) /\ ps[Len(places) + 1] = n + 1
        /\ \A i \in 1..Len(places) : ps[i] = places[i]
    <3>1. places \in Seq(Nat)
      <4>1. S \subseteq Nat
        BY <1>1, <1>2
      <4>2. QED
        BY <1>3, <4>1, SeqGrows
    <3>2. QED
      BY <1>1, <3>1
  <2> HIDE DEF ps
  <2>4. GoodIn(es, ns) = [i \in 1..(Len(places) + 1) |-> ns[ps[i]]]
    BY <2>1, <2>2, <2>3 DEF GoodIn, At, ps
  <2> DEFINE t == GoodIn(es, ns)
             s == GoodIn(es, ms)
  <2>5. Lengthens(t, s, m)
    <3>1. Len(s) = Len(places) /\ Len(places) \in Nat
      BY <1>4, <1>6
    <3>2. \A i \in 1..(Len(places) + 1) : t[i] = ns[ps[i]]
      BY <2>4
    <3>3. \A i \in 1..Len(places) : t[i] = ms[places[i]] /\ s[i] = ms[places[i]]
      BY <1>1, <1>4, <1>5, <2>3, <3>1, <3>2
    <3>4. t[Len(places) + 1] = m
      BY <1>1, <2>3, <3>1, <3>2
    <3>5. t = [i \in 1..(Len(places) + 1) |-> t[i]]
      BY <2>4
    <3>6. QED
      BY <3>1, <3>3, <3>4, <3>5 DEF Lengthens
  <2>6. s \in Seq(Nat)
    BY <1>6
  <2> HIDE DEF t, s
  <2>7. t = Append(s, m)
    BY <2>5, <2>6, IsAppend
  <2>8. QED
    BY <1>6, <1>8, <2>7 DEF t, s, ns
<1>9. QED
  BY <1>7, <1>8

(* More entries change no kind of a message that was there.                *)
LEMMA GoodOfMore ==
  ASSUME NEW es \in Seq(Entries), NEW e \in Entries, NEW ms \in Seq(0..Len(es))
  PROVE  GoodIn(Append(es, e), ms) = GoodIn(es, ms)
<1> DEFINE fs == Append(es, e)
<1>1. Len(es) \in Nat /\ \A i \in 1..Len(es) : fs[i] = es[i]
  OBVIOUS
<1>2. \A i \in DOMAIN ms : ms[i] \in 0..Len(es)
  BY SeqValues
<1> HIDE DEF fs
<1>3. \A i \in DOMAIN ms : KindIn(fs, ms[i]) = KindIn(es, ms[i])
  BY <1>1, <1>2 DEF KindIn
<1>4. GoodPlaces(fs, ms) = GoodPlaces(es, ms)
  BY <1>3 DEF GoodPlaces
<1>5. GoodIn(fs, ms) = GoodIn(es, ms)
  BY <1>4 DEF GoodIn
<1>6. QED
  BY <1>5 DEF fs

(* The error at the end is none of the good messages.                      *)
LEMMA GoodOfTrailing ==
  ASSUME NEW es, NEW ms \in Seq(Nat)
  PROVE  GoodIn(es, WithoutTrailingError(es, ms)) = GoodIn(es, ms)
<1>1. CASE ms # <<>> /\ (Last(ms) = 0 \/ es[Last(ms)].kind \in Errors)
  <2>1. WithoutTrailingError(es, ms) = Front(ms)
    BY <1>1 DEF WithoutTrailingError
  <2>2. Front(ms) \in Seq(Nat) /\ Last(ms) \in Nat /\ ms = Append(Front(ms), Last(ms))
    BY <1>1, FrontLast
  <2>3. KindIn(es, Last(ms)) \in Errors
    BY <1>1 DEF KindIn, Errors
  <2> DEFINE f == Front(ms)
             l == Last(ms)
  <2>4. f \in Seq(Nat) /\ l \in Nat /\ KindIn(es, l) \in Errors
    BY <2>2, <2>3
  <2> HIDE DEF f, l
  <2>5. GoodIn(es, Append(f, l)) = GoodIn(es, f)
    BY <2>4, GoodOfAppend
  <2>6. QED
    BY <2>1, <2>2, <2>5 DEF f, l
<1>2. CASE ~(ms # <<>> /\ (Last(ms) = 0 \/ es[Last(ms)].kind \in Errors))
  <2>1. WithoutTrailingError(es, ms) = ms
    BY <1>2 DEF WithoutTrailingError
  <2>2. QED
    BY <2>1
<1>3. QED
  BY <1>1, <1>2

(* A new entry that is no compaction ends the context.                     *)
LEMMA SpokenAppends ==
  ASSUME NEW es \in Seq(Entries), NEW e \in Entries, e.kind \notin Compactions, NEW m \in 0..(Len(es) + 1)
  PROVE  SpokenIn(Append(es, e), m, Len(es) + 1) = Append(SpokenIn(es, m, Len(es)), Len(es) + 1)
<1> DEFINE n == Len(es)
           fs == Append(es, e)
           S == {i \in DOMAIN es : i \in m..n /\ es[i].kind \notin Compactions}
           R == {i \in DOMAIN fs : i \in m..(n + 1) /\ fs[i].kind \notin Compactions}
<1>1. /\ n \in Nat /\ DOMAIN es = 1..n /\ DOMAIN fs = 1..(n + 1) /\ fs[n + 1] = e
      /\ \A i \in 1..n : fs[i] = es[i]
  OBVIOUS
<1> HIDE DEF n, fs
<1>2. S \in SUBSET (0..n)
  BY <1>1
<1>3. R = S \cup {n + 1}
  BY <1>1 DEF n
<1>4. SpokenIn(es, m, n) = InOrder(S) /\ SpokenIn(fs, m, n + 1) = InOrder(R)
  BY DEF SpokenIn
<1> HIDE DEF S, R
<1>5. InOrder(S \cup {n + 1}) = Append(InOrder(S), n + 1)
  <2>1. n \in Nat /\ n + 1 \in Nat /\ n + 1 > n
    BY <1>1
  <2>2. QED
    BY <1>2, <2>1, InOrderAppends
<1>6. SpokenIn(fs, m, n + 1) = Append(SpokenIn(es, m, n), n + 1)
  BY <1>3, <1>4, <1>5
<1>7. QED
  BY <1>6 DEF fs, n

(* What was spoken before stays.                                           *)
LEMMA SpokenStays ==
  ASSUME NEW es \in Seq(Entries), NEW e \in Entries, NEW m \in Nat, NEW k \in 0..Len(es)
  PROVE  SpokenIn(Append(es, e), m, k) = SpokenIn(es, m, k)
<1> DEFINE n == Len(es)
           fs == Append(es, e)
           S == {i \in DOMAIN es : i \in m..k /\ es[i].kind \notin Compactions}
           R == {i \in DOMAIN fs : i \in m..k /\ fs[i].kind \notin Compactions}
<1>1. /\ n \in Nat /\ DOMAIN es = 1..n /\ DOMAIN fs = 1..(n + 1)
      /\ \A i \in 1..n : fs[i] = es[i]
  OBVIOUS
<1>2. k \in 0..n
  OBVIOUS
<1> HIDE DEF n, fs
<1>3. R = S
  BY <1>1, <1>2
<1>4. SpokenIn(es, m, k) = InOrder(S) /\ SpokenIn(fs, m, k) = InOrder(R)
  BY DEF SpokenIn
<1> HIDE DEF S, R
<1>5. QED
  BY <1>3, <1>4 DEF fs

LatestOf(places) == IF places = {} THEN 0 ELSE CHOOSE i \in places : \A j \in places : j <= i

(* A message that is said ends the context.                                *)
LEMMA ContextAppends ==
  ASSUME NEW es \in Seq(Entries), NEW e \in Entries, e.kind \notin Compactions
  PROVE  Context(Append(es, e)) = Append(Context(es), Len(es) + 1)
<1> DEFINE fs == Append(es, e)
           n == Len(es)
           c == LastCompaction(es)
<1>1. /\ n \in Nat /\ fs \in Seq(Entries) /\ Len(fs) = n + 1 /\ DOMAIN es = 1..n /\ DOMAIN fs = 1..(n + 1)
      /\ fs[n + 1] = e /\ \A i \in 1..n : fs[i] = es[i]
  OBVIOUS
<1>2. c \in 0..n
  BY LastCompactionType
<1> HIDE DEF fs, n
<1>3. LastCompaction(fs) = c
  <2>1. {i \in DOMAIN fs : fs[i].kind \in Compactions} = {i \in DOMAIN es : es[i].kind \in Compactions}
    BY <1>1
  <2>2. /\ c = LatestOf({i \in DOMAIN es : es[i].kind \in Compactions})
        /\ LastCompaction(fs) = LatestOf({i \in DOMAIN fs : fs[i].kind \in Compactions})
    BY DEF LastCompaction, LatestOf
  <2>3. QED
    BY <2>1, <2>2, Zenon
<1> HIDE DEF c
<1>4. CASE c = 0
  <2>1. Context(es) = SpokenIn(es, 1, n) /\ Context(fs) = SpokenIn(fs, 1, n + 1)
    BY <1>1, <1>3, <1>4 DEF Context, c, n
  <2>2. SpokenIn(fs, 1, n + 1) = Append(SpokenIn(es, 1, n), n + 1)
    <3>1. 1 \in 0..(Len(es) + 1)
      BY <1>1 DEF n
    <3>2. QED
      BY <3>1, SpokenAppends DEF fs, n
  <2>3. QED
    BY <2>1, <2>2 DEF fs, n
<1>5. CASE c # 0
  <2> DEFINE u == SpokenIn(es, es[c].of, c - 1)
             v == SpokenIn(es, c + 1, n)
  <2>1. c \in 1..n /\ c - 1 \in 0..n /\ c + 1 \in 0..(n + 1) /\ fs[c] = es[c] /\ es[c] \in Entries
    BY <1>1, <1>2, <1>5, ElementOfSeq DEF n
  <2>2. es[c].of \in Nat
    BY <2>1 DEF Entries
  <2>3. SpokenIn(fs, fs[c].of, c - 1) = u
    BY <2>1, <2>2, SpokenStays DEF fs, n
  <2>4. SpokenIn(fs, c + 1, n + 1) = Append(v, n + 1)
    BY <2>1, SpokenAppends DEF fs, n
  <2>5. u \in Seq(1..n) /\ v \in Seq(1..n)
    BY SpokenInType DEF n
  <2>6. Context(es) = <<c>> \o u \o v
    BY <1>5 DEF Context, c, n
  <2>7. Context(fs) = <<c>> \o SpokenIn(fs, fs[c].of, c - 1) \o SpokenIn(fs, c + 1, n + 1)
    BY <1>1, <1>3, <1>5 DEF Context
  <2> HIDE DEF u, v
  <2>8. u \in Seq(Nat) /\ v \in Seq(Nat) /\ <<c>> \in Seq(Nat) /\ n + 1 \in Nat
    <3>1. 1..n \subseteq Nat
      BY <1>1
    <3>2. <<c>> \in Seq(Nat)
      BY <1>1, <2>1
    <3>3. QED
      BY <1>1, <2>5, <3>1, <3>2, SeqGrows
  <2> DEFINE p == <<c>> \o u
  <2>9. p \in Seq(Nat)
    BY <2>8
  <2> HIDE DEF p
  <2>10. p \o Append(v, n + 1) = Append(p \o v, n + 1)
    BY <2>8, <2>9, AppendOfConcat, SMTT(30), ZenonT(60)
  <2>11. Context(fs) = p \o Append(v, n + 1) /\ Context(es) = p \o v
    BY <2>3, <2>4, <2>6, <2>7 DEF p
  <2>12. QED
    BY <2>10, <2>11 DEF fs, n
<1>6. QED
  BY <1>4, <1>5

(* What a step does to the entries and the messages.                       *)
SaidStep ==
  \E e \in Entries :
    /\ e.kind \notin Compactions
    /\ entries' = Append(entries, e)
    /\ \/ messages' = Append(messages, Len(entries) + 1)
       \/ messages' = messages \o <<Len(entries) + 1, 0>>

CompactedStep ==
  \E e \in Entries :
    /\ entries' = Append(entries, e)
    /\ \/ messages' = Context(entries')
       \/ messages' = WithoutTrailingError(entries', Context(entries'))

TrimmedStep ==
  UNCHANGED entries /\ messages' \in {messages, WithoutTrailingError(entries, messages)}

(* A step says something, tells the agent of a compaction, trims the       *)
(* messages, or is a compaction the agent is not told of.                  *)
LEMMA SessionSteps ==
  ASSUME Shapes, [Next]_vars
  PROVE  ((TrimmedStep \/ SaidStep) /\ UNCHANGED unseen) \/ CompactedStep \/ unseen'
<1> DEFINE Goal == ((TrimmedStep \/ SaidStep) /\ UNCHANGED unseen) \/ CompactedStep \/ unseen'
<1>1. ASSUME NEW o \in Owners, EndCompaction(o) PROVE Goal
  <2>1. CASE AppendCompaction(o)
    <3>1. compacting[o].kind \in Compactions /\ compacting[o].kept \in Nat
      BY <1>1 DEF EndCompaction, Shapes, CompactionsOK, Pending
    <3>2. Entry(compacting[o].kind, compacting[o].kept) \in Entries
      BY <3>1, NewEntries
    <3>3. QED
      BY <2>1, <3>2 DEF AppendCompaction, CompactedStep
  <2>2. AppendFails(o) => unseen'
    BY DEF AppendFails
  <2>3. LeaveCompaction(o) => TrimmedStep /\ UNCHANGED unseen
    BY DEF LeaveCompaction, TrimmedStep
  <2>4. QED
    BY <1>1, <2>1, <2>2, <2>3 DEF EndCompaction
<1>2. ASSUME NEW e \in Entries, e.kind \notin Compactions, Hear(e), Persisted(e) \/ Fails(e),
             UNCHANGED unseen
      PROVE  Goal
  BY <1>2 DEF Hear, Persisted, Fails, SaidStep
<1>3. ASSUME NEW c \in Callers, Prompt(c) PROVE Goal
  BY <1>3 DEF Prompt, SkipAutoCompaction, StartAutoCompaction, TrimmedStep
<1>4. ASSUME NEW c \in Callers, PromptAfterCompaction(c) \/ EndCompact(c) PROVE Goal
  <2>1. c \in Owners /\ EndCompaction(c)
    BY <1>4 DEF PromptAfterCompaction, EndCompact, Owners
  <2>2. QED
    BY <1>1, <2>1
<1>5. ASSUME NEW c \in Callers, Compact(c) PROVE Goal
  BY <1>5 DEF Compact, TrimmedStep
<1>6. CASE Queue \/ ClearQueue \/ AbortCompaction \/ PollFirst \/ Continue \/ UNCHANGED vars
  BY <1>6 DEF Queue, ClearQueue, AbortCompaction, PollFirst, Continue, vars, TrimmedStep
<1>7. CASE SendCustomMessage
  <2>1. Custom(sent + 1) \in Entries /\ Custom(sent + 1).kind \notin Compactions
    BY NewEntries DEF Shapes, CountsOK, Custom, Entry, Compactions
  <2>2. QED
    BY <1>7, <2>1 DEF SendCustomMessage, SaidStep, TrimmedStep
<1>8. CASE Say
  <2>1. run.toSay \in Seq(Said) /\ run.toSay # <<>>
    BY <1>8 DEF Say, Shapes, RunOK, Runs
  <2>2. Head(run.toSay) \in Said
    BY <2>1
  <2>3. Head(run.toSay) \in Entries /\ Head(run.toSay).kind \notin Compactions
    BY <2>2, NewEntries DEF Said, Spoken, Compactions
  <2>4. /\ Hear(Head(run.toSay)) /\ UNCHANGED unseen
        /\ Persisted(Head(run.toSay)) \/ Fails(Head(run.toSay))
    BY <1>8 DEF Say
  <2>5. QED
    BY <1>2, <2>3, <2>4
<1>9. CASE Answer
  <2>1. PICK kind \in Answers : /\ Hear(Entry(kind, 0))
                                /\ Persisted(Entry(kind, 0)) \/ Fails(Entry(kind, 0))
    BY <1>9, Zenon DEF Answer
  <2>2. Entry(kind, 0) \in Entries /\ Entry(kind, 0).kind \notin Compactions
    BY NewEntries, AgentSessionAssumption DEF Entry, Compactions, Good, Errors
  <2>3. UNCHANGED unseen
    BY <1>9 DEF Answer
  <2>4. QED
    BY <1>2, <2>1, <2>2, <2>3
<1>10. CASE EndOfRun
  <2>1. Run \in Owners /\ EndCompaction(Run)
    BY <1>10 DEF EndOfRun, Owners
  <2>2. QED
    BY <1>1, <2>1
<1>11. CASE End
  BY <1>11 DEF End, SkipAutoCompaction, StartAutoCompaction, TrimmedStep
<1>12. QED
  BY <1>3, <1>4, <1>5, <1>6, <1>7, <1>8, <1>9, <1>10, <1>11 DEF Next

(* The messages of the agent and those of the session, but for errors.     *)
SeesInv == GoodIn(entries, messages) = GoodIn(entries, Context(entries))

(* A compaction the agent is told of makes the two sequences equal,        *)
(* whatever they were; other steps keep them so.                           *)
LEMMA SeesStep ==
  ASSUME Shapes, ((TrimmedStep \/ SaidStep) /\ SeesInv) \/ CompactedStep
  PROVE  SeesInv'
<1> DEFINE n == Len(entries)
<1>1. /\ entries \in Seq(Entries) /\ n \in Nat /\ n + 1 \in Nat
      /\ messages \in Seq(0..n) /\ messages \in Seq(Nat)
      /\ Context(entries) \in Seq(0..n) /\ Context(entries) \in Seq(Nat)
  <2>1. entries \in Seq(Entries) /\ n \in Nat /\ messages \in Seq(0..n)
    BY DEF Shapes, SessionOK
  <2>2. Context(entries) \in Seq(1..n)
    BY <2>1, ContextType
  <2>3. 1..n \subseteq 0..n /\ 0..n \subseteq Nat
    BY <2>1
  <2> HIDE DEF n
  <2>4. Context(entries) \in Seq(0..n)
    BY <2>2, <2>3, SeqGrows, Zenon
  <2>5. messages \in Seq(Nat) /\ Context(entries) \in Seq(Nat)
    BY <2>1, <2>3, <2>4, SeqGrows, Zenon
  <2>6. n + 1 \in Nat
    BY <2>1
  <2>7. QED
    BY <2>1, <2>4, <2>5, <2>6
<1>2. CASE TrimmedStep /\ SeesInv
  <2>1. GoodIn(entries, messages') = GoodIn(entries, messages)
    BY <1>1, <1>2, GoodOfTrailing DEF TrimmedStep
  <2>2. QED
    BY <1>2, <2>1, Zenon DEF SeesInv, TrimmedStep
<1>3. CASE SaidStep /\ SeesInv
  <2>1. PICK e \in Entries :
          /\ e.kind \notin Compactions
          /\ entries' = Append(entries, e)
          /\ \/ messages' = Append(messages, n + 1)
             \/ messages' = messages \o <<n + 1, 0>>
    BY <1>3 DEF SaidStep
  <2> DEFINE es == Append(entries, e)
             cs == Context(entries)
             ms == Append(messages, n + 1)
  <2>2. Context(es) = Append(cs, n + 1)
    BY <1>1, <2>1, ContextAppends
  <2>3. GoodIn(es, messages) = GoodIn(entries, messages) /\ GoodIn(es, cs) = GoodIn(entries, cs)
    BY <1>1, GoodOfMore
  <2>4. GoodIn(es, messages) = GoodIn(es, cs)
    BY <1>3, <2>3, Zenon DEF SeesInv
  <2>5. ms \in Seq(Nat) /\ cs \in Seq(Nat) /\ messages \in Seq(Nat) /\ 0 \in Nat
    BY <1>1
  <2>6. messages \o <<n + 1, 0>> = Append(ms, 0)
    BY <1>1, SMTT(30), ZenonT(60)
  <2> HIDE DEF es, cs, n
  <2>7. GoodIn(es, Append(messages, n + 1)) = GoodIn(es, Append(cs, n + 1))
    <3> DEFINE k == n + 1
    <3>1. k \in Nat
      BY <1>1
    <3> HIDE DEF k
    <3>2. GoodIn(es, Append(messages, k)) = IF KindIn(es, k) \in Errors THEN GoodIn(es, messages)
                                           ELSE Append(GoodIn(es, messages), k)
      BY <2>5, <3>1, GoodOfAppend
    <3>3. GoodIn(es, Append(cs, k)) = IF KindIn(es, k) \in Errors THEN GoodIn(es, cs)
                                     ELSE Append(GoodIn(es, cs), k)
      BY <2>5, <3>1, GoodOfAppend
    <3>4. GoodIn(es, Append(messages, k)) = GoodIn(es, Append(cs, k))
      BY <2>4, <3>2, <3>3
    <3>5. QED
      BY <3>4 DEF k
  <2> HIDE DEF ms
  <2>8. GoodIn(es, Append(ms, 0)) = GoodIn(es, ms)
    <3>1. KindIn(es, 0) \in Errors
      BY DEF KindIn, Errors
    <3>2. QED
      BY <2>5, <3>1, GoodOfAppend
  <2>9. GoodIn(es, messages') = GoodIn(es, Context(es))
    BY <2>1, <2>2, <2>6, <2>7, <2>8 DEF ms
  <2>10. QED
    BY <2>1, <2>9, Zenon DEF SeesInv, es
<1>4. CASE CompactedStep
  <2>1. PICK e \in Entries :
          /\ entries' = Append(entries, e)
          /\ \/ messages' = Context(entries')
             \/ messages' = WithoutTrailingError(entries', Context(entries'))
    BY <1>4 DEF CompactedStep
  <2> DEFINE es == Append(entries, e)
  <2>2. es \in Seq(Entries) /\ Len(es) \in Nat
    BY <1>1
  <2> HIDE DEF es
  <2>3. Context(es) \in Seq(Nat)
    <3>1. Context(es) \in Seq(1..Len(es)) /\ 1..Len(es) \subseteq Nat
      BY <2>2, ContextType
    <3>2. QED
      BY <3>1, SeqGrows, Zenon
  <2>4. GoodIn(es, WithoutTrailingError(es, Context(es))) = GoodIn(es, Context(es))
    BY <2>3, GoodOfTrailing
  <2>5. QED
    BY <2>1, <2>4, Zenon DEF SeesInv, es
<1>5. QED
  BY <1>2, <1>3, <1>4

(* What the agent will show the model is what the session would give back, *)
(* but for errors: through failures, compactions and everything said while *)
(* a summary was written, until a compaction the agent is not told of and  *)
(* again from the next one it is told of.                                  *)
THEOREM ModelSeesTheSession == Spec => []ModelSeesSession
<1>1. Init => SeesInv
  <2> SUFFICES ASSUME Init PROVE SeesInv
    OBVIOUS
  <2>1. CASE entries = <<>> /\ messages = <<>>
    <3>1. Context(entries) \in Seq(1..0)
      <4>1. entries \in Seq(Entries) /\ Len(entries) = 0
        BY <2>1
      <4>2. QED
        BY <4>1, ContextType
    <3>2. Context(entries) = <<>>
      BY <3>1
    <3>3. QED
      BY <2>1, <3>2, Zenon DEF SeesInv
  <2>2. CASE entries = <<User(0), Entry("overflow", 0)>> /\ messages = <<1, 2>>
    <3> DEFINE a == User(0)
               b == Entry("overflow", 0)
               nil == <<>>
               one == Append(nil, a)
               two == Append(one, b)
    <3>1. /\ a \in Entries /\ a.kind \notin Compactions /\ b \in Entries /\ b.kind \notin Compactions
      BY DEF User, Entry, Entries, Kinds, Spoken, Errors, Compactions
    <3>2. nil \in Seq(Entries) /\ Len(nil) = 0 /\ Len(nil) + 1 = 1 /\ entries = two
      BY <2>2
    <3> HIDE DEF a, b
    <3>3. one \in Seq(Entries) /\ Len(one) = 1
      BY <3>1
    <3> HIDE DEF one, two, nil
    <3>4. Context(nil) = <<>>
      <4>1. Context(nil) \in Seq(1..0)
        BY <3>2, ContextType
      <4>2. QED
        BY <4>1
    <3>5. Context(one) = Append(<<>>, 1)
      <4>1. Context(one) = Append(Context(nil), Len(nil) + 1)
        BY <3>1, <3>2, ContextAppends DEF one
      <4>2. QED
        BY <3>2, <3>4, <4>1, Zenon
    <3>6. Context(two) = Append(Context(one), 2)
      <4>1. Context(two) = Append(Context(one), Len(one) + 1)
        BY <3>1, <3>3, ContextAppends DEF two
      <4>2. QED
        BY <3>3, <4>1
    <3>7. Context(entries) = <<1, 2>>
      <4>1. Context(entries) = Append(Append(<<>>, 1), 2)
        BY <3>2, <3>5, <3>6, Zenon
      <4>2. Append(Append(<<>>, 1), 2) = <<1, 2>>
        <5>1. 1 \in Nat /\ 2 \in Nat
          OBVIOUS
        <5>2. QED
          BY <5>1, TwoAppended, Zenon
      <4>3. QED
        BY <4>1, <4>2, Zenon
    <3>8. QED
      BY <2>2, <3>7, Zenon DEF SeesInv
  <2>3. QED
    BY <2>1, <2>2 DEF Init
<1>2. Shapes /\ (~unseen => SeesInv) /\ [Next]_vars => (~unseen => SeesInv)'
  <2> SUFFICES ASSUME Shapes, ~unseen => SeesInv, [Next]_vars, ~unseen' PROVE SeesInv'
    OBVIOUS
  <2>1. ((TrimmedStep \/ SaidStep) /\ UNCHANGED unseen) \/ CompactedStep
    BY SessionSteps
  <2>2. QED
    BY <2>1, SeesStep
<1>3. (~unseen => SeesInv) => ModelSeesSession
  BY WithoutErrorsIs, Zenon DEF SeesInv, ModelSeesSession
<1>4. QED
  BY <1>1, <1>2, <1>3, ShapesInit, ShapesStep, PTL DEF Spec
-----------------------------------------------------------------------------
(* Recoveries from overflows: those done, those under way, and the one     *)
(* that may begin, against what allows one.                                *)
Entering(kinds) == {e \in Entries : e.kind \in kinds}
Overflows  == Hits(entries, Entering({"overflowed"}))
Chances    == Hits(entries, Entering(Good \cup {"user"}))
Recovering == {o \in Owners : compacting[o].kind = "overflowed"}
Spare      == IF overflowRecoveryAttempted THEN 0 ELSE 1
Due        == Overflows + Cardinality(Recovering) + Spare

(* A session in which no user has spoken and no model: nothing to recover  *)
(* from.                                                                   *)
Untouched ==
  /\ \A i \in DOMAIN entries : entries[i].kind \in {"custom", "manual"}
  /\ run.stage = "idle" \/ (run.stage = "saying" /\ Head(run.toSay).kind = "user")
  /\ scheduled = 0
  /\ \A o \in Owners : compacting[o].kind \in {"none", "manual"}

BoundInv == Due <= Chances \/ Untouched

(* They are numbers.                                                       *)
LEMMA DueType ==
  ASSUME Shapes
  PROVE  /\ Overflows \in Nat /\ Chances \in Nat /\ Spare \in 0..1
         /\ IsFiniteSet(Recovering) /\ Cardinality(Recovering) \in Nat
<1>1. Overflows \in Nat /\ Chances \in Nat
  BY HitsType DEF Overflows, Chances, Shapes, SessionOK
<1>2. IsFiniteSet(Owners)
  BY AgentSessionAssumption, FS_AddElement, FS_Union, FS_Singleton DEF Owners
<1>3. IsFiniteSet(Recovering)
  <2>1. Recovering \in SUBSET Owners
    BY DEF Recovering
  <2>2. QED
    BY <1>2, <2>1, FS_Subset
<1>4. Cardinality(Recovering) \in Nat
  BY <1>3, FS_CardinalityType
<1>5. QED
  BY <1>1, <1>3, <1>4 DEF Spare

(* They are numbers after a step.                                          *)
LEMMA DueTypeNext ==
  ASSUME Shapes'
  PROVE  /\ Overflows' \in Nat /\ Chances' \in Nat /\ Spare' \in 0..1
         /\ IsFiniteSet(Recovering') /\ Cardinality(Recovering)' \in Nat
<1>1. Overflows' \in Nat /\ Chances' \in Nat
  BY HitsType DEF Overflows, Chances, Shapes, SessionOK
<1>2. IsFiniteSet(Owners)
  BY AgentSessionAssumption, FS_AddElement, FS_Union, FS_Singleton DEF Owners
<1>3. IsFiniteSet(Recovering')
  <2>1. Recovering' \in SUBSET Owners
    BY DEF Recovering
  <2>2. QED
    BY <1>2, <2>1, FS_Subset
<1>4. Cardinality(Recovering') \in Nat
  BY <1>3, FS_CardinalityType
<1>5. QED
  BY <1>1, <1>3, <1>4 DEF Spare

(* An entry that is added.                                                 *)
LEMMA DueOfEntry ==
  ASSUME SessionOK, NEW e \in Entries, entries' = Append(entries, e)
  PROVE  /\ Overflows' = Overflows + (IF e.kind = "overflowed" THEN 1 ELSE 0)
         /\ Chances' = Chances + (IF e.kind \in Good \cup {"user"} THEN 1 ELSE 0)
<1>1. entries \in Seq(Entries)
  BY DEF SessionOK
<1>2. e \in Entering({"overflowed"}) <=> e.kind = "overflowed"
  BY DEF Entering
<1>3. e \in Entering(Good \cup {"user"}) <=> e.kind \in Good \cup {"user"}
  BY DEF Entering
<1>4. QED
  BY <1>1, <1>2, <1>3, HitsOfAppend DEF Overflows, Chances

(* Fewer owners recover.                                                   *)
LEMMA FewerRecover ==
  ASSUME Shapes, Shapes', Recovering' \subseteq Recovering
  PROVE  Cardinality(Recovering)' <= Cardinality(Recovering)
BY DueType, FS_Subset

(* One step of the balance: nothing is due that nothing allows.            *)
Balanced == Due' + Chances <= Due + Chances'

(* Nothing is added and no recovery begins.                                *)
LEMMA CalmIsBalanced ==
  ASSUME Shapes, Shapes', UNCHANGED entries, Recovering' \subseteq Recovering,
         overflowRecoveryAttempted => overflowRecoveryAttempted'
  PROVE  Balanced
<1>1. Overflows' = Overflows /\ Chances' = Chances
  BY DEF Overflows, Chances
<1>2. Spare' <= Spare
  BY DEF Spare
<1>3. Cardinality(Recovering)' <= Cardinality(Recovering)
  BY FewerRecover
<1>4. QED
  BY <1>1, <1>2, <1>3, DueType, DueTypeNext DEF Balanced, Due

(* What is said and heard.                                                 *)
LEMMA SaidIsBalanced ==
  ASSUME Shapes, Shapes', NEW e \in Entries, e.kind \notin Compactions, entries' = Append(entries, e),
         UNCHANGED compacting,
         e.kind \in Good \cup {"user"} \/ overflowRecoveryAttempted' = overflowRecoveryAttempted
  PROVE  Balanced
<1>1. /\ Overflows' = Overflows
      /\ Chances' = Chances + (IF e.kind \in Good \cup {"user"} THEN 1 ELSE 0)
  BY DueOfEntry, DueType DEF Compactions, Shapes
<1>2. Recovering' = Recovering
  BY DEF Recovering
<1>3. e.kind \notin Good \cup {"user"} => Spare' = Spare
  BY DEF Spare
<1>4. QED
  BY <1>1, <1>2, <1>3, DueType, DueTypeNext DEF Balanced, Due

(* A compaction that begins.                                               *)
LEMMA StartIsBalanced ==
  ASSUME Shapes, Shapes', NEW o \in Owners, NEW m, StartAutoCompaction(o, m), UNCHANGED entries
  PROVE  Balanced
<1>0. compacting \in [Owners -> Pending]
  BY DEF Shapes, CompactionsOK
<1>1. CASE BeginCompaction(o, "overflowed") /\ Recovers(m) /\ overflowRecoveryAttempted'
  <2>1. Overflows' = Overflows /\ Chances' = Chances
    BY <1>1 DEF Overflows, Chances
  <2>2. Spare = 1 /\ Spare' = 0
    BY <1>1 DEF Spare, Recovers
  <2>3. Recovering' = Recovering \cup {o}
    BY <1>0, <1>1 DEF BeginCompaction, Recovering
  <2>4. Cardinality(Recovering \cup {o}) <= Cardinality(Recovering) + 1
    BY DueType, FS_AddElement, SMTT(30), ZenonT(60)
  <2>5. Cardinality(Recovering)' <= Cardinality(Recovering) + 1
    BY <2>3, <2>4
  <2>6. QED
    BY <2>1, <2>2, <2>5, DueType, DueTypeNext DEF Balanced, Due
<1>2. CASE BeginCompaction(o, "threshold") /\ UNCHANGED overflowRecoveryAttempted
  <2>1. Recovering' \subseteq Recovering
    BY <1>0, <1>2 DEF BeginCompaction, Recovering
  <2>2. QED
    BY <1>2, <2>1, CalmIsBalanced
<1>3. QED
  BY <1>1, <1>2 DEF StartAutoCompaction

(* A compaction that ends.                                                 *)
LEMMA EndIsBalanced ==
  ASSUME Shapes, Shapes', NEW o \in Owners, EndCompaction(o), UNCHANGED overflowRecoveryAttempted
  PROVE  Balanced
<1>0. compacting \in [Owners -> Pending] /\ compacting' = [compacting EXCEPT ![o] = NotCompacting]
  BY DEF Shapes, CompactionsOK, EndCompaction
<1>1. Recovering' = Recovering \ {o}
  BY <1>0 DEF Recovering, NotCompacting
<1>2. CASE UNCHANGED entries
  BY <1>1, <1>2, CalmIsBalanced
<1>3. CASE AppendCompaction(o) \/ AppendFails(o)
  <2> DEFINE e == Entry(compacting[o].kind, compacting[o].kept)
  <2>1. compacting[o].kind \in Compactions /\ compacting[o].kept \in Nat
    BY <1>0 DEF EndCompaction, Pending
  <2>2. e \in Entries /\ e.kind = compacting[o].kind
    BY <2>1, NewEntries DEF Entry
  <2>3. entries' = Append(entries, e)
    BY <1>3 DEF AppendCompaction, AppendFails
  <2>4. e.kind \notin Good \cup {"user"}
    BY <2>1, <2>2 DEF Compactions, Good
  <2> HIDE DEF e
  <2>5. Overflows' = Overflows + (IF e.kind = "overflowed" THEN 1 ELSE 0) /\ Chances' = Chances
    BY <2>2, <2>3, <2>4, DueOfEntry, DueType DEF Shapes
  <2>6. Spare' = Spare
    BY DEF Spare
  <2>7. CASE o \in Recovering
    <3>1. e.kind = "overflowed"
      BY <2>2, <2>7 DEF Recovering
    <3>2. Cardinality(Recovering \ {o}) = Cardinality(Recovering) - 1
      BY <2>7, DueType, FS_RemoveElement
    <3>3. Cardinality(Recovering)' = Cardinality(Recovering) - 1
      BY <1>1, <3>2
    <3>4. QED
      BY <2>5, <2>6, <3>1, <3>3, DueType, DueTypeNext DEF Balanced, Due
  <2>8. CASE o \notin Recovering
    <3>1. e.kind # "overflowed"
      BY <2>2, <2>8 DEF Recovering
    <3>2. Recovering' = Recovering
      BY <1>1, <2>8
    <3>3. QED
      BY <2>5, <2>6, <3>1, <3>2, DueType, DueTypeNext DEF Balanced, Due
  <2>9. QED
    BY <2>7, <2>8
<1>4. QED
  BY <1>2, <1>3 DEF EndCompaction, LeaveCompaction

(* Every step keeps the balance.                                           *)
LEMMA BalancedStep ==
  ASSUME Shapes, [Next]_vars
  PROVE  Balanced
<1>0. Shapes'
  BY ShapesStep
<1>1. CASE UNCHANGED <<entries, compacting, overflowRecoveryAttempted>>
  <2>1. Recovering' \subseteq Recovering
    BY <1>1 DEF Recovering
  <2>2. QED
    BY <1>0, <1>1, <2>1, CalmIsBalanced
<1>2. ASSUME NEW m, SkipAutoCompaction(m), UNCHANGED <<entries, compacting>> PROVE Balanced
  <2>1. Recovering' \subseteq Recovering
    BY <1>2 DEF Recovering
  <2>2. overflowRecoveryAttempted => overflowRecoveryAttempted'
    BY <1>2 DEF SkipAutoCompaction
  <2>3. QED
    BY <1>0, <1>2, <2>1, <2>2, CalmIsBalanced
<1>3. ASSUME NEW e \in Entries, e.kind \notin Compactions, Hear(e), Persisted(e) \/ Fails(e),
             UNCHANGED compacting
      PROVE  Balanced
  <2>1. e.kind \in Good \cup {"user"} \/ overflowRecoveryAttempted' = overflowRecoveryAttempted
    BY <1>3 DEF Persisted, Fails, Shapes, CompactionsOK
  <2>2. entries' = Append(entries, e)
    BY <1>3 DEF Hear
  <2>3. QED
    BY <1>0, <1>3, <2>1, <2>2, SaidIsBalanced
<1>4. ASSUME NEW c \in Callers, Prompt(c) PROVE Balanced
  <2>1. c \in Owners /\ UNCHANGED entries
    BY <1>4 DEF Prompt, Owners
  <2>2. \/ UNCHANGED <<compacting, overflowRecoveryAttempted>>
        \/ \E m : SkipAutoCompaction(m) /\ UNCHANGED compacting
        \/ \E m : StartAutoCompaction(c, m)
    BY <1>4 DEF Prompt
  <2>3. QED
    BY <1>0, <1>1, <1>2, <2>1, <2>2, StartIsBalanced
<1>5. ASSUME NEW c \in Callers, PromptAfterCompaction(c) \/ EndCompact(c) PROVE Balanced
  <2>1. c \in Owners /\ EndCompaction(c) /\ UNCHANGED overflowRecoveryAttempted
    BY <1>5 DEF PromptAfterCompaction, EndCompact, Owners
  <2>2. QED
    BY <1>0, <2>1, EndIsBalanced
<1>6. ASSUME NEW c \in Callers, Compact(c) PROVE Balanced
  <2>1. c \in Owners /\ compacting \in [Owners -> Pending]
    BY DEF Owners, Shapes, CompactionsOK
  <2>2. UNCHANGED <<entries, overflowRecoveryAttempted>> /\ BeginCompaction(c, "manual")
    BY <1>6 DEF Compact
  <2>3. Recovering' \subseteq Recovering
    BY <2>1, <2>2 DEF BeginCompaction, Recovering
  <2>4. QED
    BY <1>0, <2>2, <2>3, CalmIsBalanced
<1>7. CASE AbortCompaction
  <2>1. compacting \in [Owners -> Pending] /\ compacting' = [compacting EXCEPT ![controller].aborted = TRUE]
        /\ UNCHANGED <<entries, overflowRecoveryAttempted>>
    BY <1>7 DEF AbortCompaction, Shapes, CompactionsOK
  <2>2. Recovering' \subseteq Recovering
    BY <2>1 DEF Recovering, Pending
  <2>3. QED
    BY <1>0, <2>1, <2>2, CalmIsBalanced
<1>8. CASE SendCustomMessage
  <2>1. UNCHANGED <<compacting, overflowRecoveryAttempted>>
    BY <1>8 DEF SendCustomMessage
  <2>2. CASE entries' = Append(entries, Custom(sent + 1))
    <3>1. Custom(sent + 1) \in Entries /\ Custom(sent + 1).kind \notin Compactions
      BY NewEntries DEF Shapes, CountsOK, Custom, Entry, Compactions
    <3>2. QED
      BY <1>0, <2>1, <2>2, <3>1, SaidIsBalanced
  <2>3. QED
    BY <1>1, <1>8, <2>1, <2>2 DEF SendCustomMessage
<1>9. CASE Queue \/ ClearQueue \/ PollFirst \/ Continue \/ UNCHANGED vars
  BY <1>1, <1>9 DEF Queue, ClearQueue, PollFirst, Continue, vars
<1>10. CASE Say
  <2>1. run.toSay \in Seq(Said) /\ run.toSay # <<>>
    BY <1>10 DEF Say, Shapes, RunOK, Runs
  <2>2. Head(run.toSay) \in Said
    BY <2>1
  <2>3. Head(run.toSay) \in Entries /\ Head(run.toSay).kind \notin Compactions
    BY <2>2, NewEntries DEF Said, Spoken, Compactions
  <2>4. /\ Hear(Head(run.toSay)) /\ UNCHANGED compacting
        /\ Persisted(Head(run.toSay)) \/ Fails(Head(run.toSay))
    BY <1>10 DEF Say
  <2>5. QED
    BY <1>3, <2>3, <2>4
<1>11. CASE Answer
  <2>1. PICK kind \in Answers : /\ Hear(Entry(kind, 0))
                                /\ Persisted(Entry(kind, 0)) \/ Fails(Entry(kind, 0))
    BY <1>11, Zenon DEF Answer
  <2>2. Entry(kind, 0) \in Entries /\ Entry(kind, 0).kind \notin Compactions /\ UNCHANGED compacting
    BY <1>11, NewEntries, AgentSessionAssumption DEF Entry, Compactions, Good, Errors, Answer
  <2>3. QED
    BY <1>3, <2>1, <2>2
<1>12. CASE EndOfRun
  BY <1>0, <1>12, EndIsBalanced DEF EndOfRun, Owners
<1>13. CASE End
  <2>1. Run \in Owners /\ UNCHANGED entries
    BY <1>13 DEF End, Owners
  <2>2. \/ UNCHANGED <<compacting, overflowRecoveryAttempted>>
        \/ \E m : SkipAutoCompaction(m) /\ UNCHANGED compacting
        \/ \E m : StartAutoCompaction(Run, m)
    BY <1>13 DEF End
  <2>3. QED
    BY <1>0, <1>1, <1>2, <2>1, <2>2, StartIsBalanced
<1>14. QED
  BY <1>4, <1>5, <1>6, <1>7, <1>8, <1>9, <1>10, <1>11, <1>12, <1>13 DEF Next

(* There are no errors in it, and no answers.                              *)
LEMMA NothingAnswered ==
  ASSUME Shapes, Untouched, NEW kinds, kinds \subseteq Good \cup Errors
  PROVE  LastOf(kinds) = 0
<1> DEFINE places == {i \in DOMAIN messages : KindOf(messages[i]) \in kinds}
<1>1. /\ DOMAIN messages = 1..Len(messages) /\ Len(messages) \in Nat
      /\ \A i \in DOMAIN messages : messages[i] \in 0..Len(entries)
      /\ DOMAIN entries = 1..Len(entries)
  BY SeqValues DEF Shapes, SessionOK
<1>2. \A i \in places : messages[i] = 0
  <2>1. \A i \in DOMAIN messages : messages[i] # 0 => entries[messages[i]].kind \in {"custom", "manual"}
    BY <1>1 DEF Untouched
  <2>2. "custom" \notin kinds /\ "manual" \notin kinds
    BY DEF Good, Errors
  <2>3. QED
    BY <2>1, <2>2 DEF KindOf
<1>3. CASE places = {}
  BY <1>3 DEF LastOf
<1>4. CASE places # {}
  <2>1. places \in SUBSET (0..Len(messages))
    BY <1>1
  <2>2. \E i \in places : \A j \in places : j <= i
    BY <1>1, <1>4, <2>1, Largest
  <2>3. LastOf(kinds) = messages[CHOOSE i \in places : \A j \in places : j <= i]
    BY <1>4 DEF LastOf
  <2> HIDE DEF places
  <2>4. (CHOOSE i \in places : \A j \in places : j <= i) \in places
    BY <2>2
  <2>5. QED
    BY <1>2, <2>3, <2>4
<1>5. QED
  BY <1>3, <1>4

(* Nothing overflows or exceeds.                                           *)
LEMMA UntouchedIsCalm ==
  ASSUME Shapes, Untouched, NEW m, m = LastOf(Good \cup Errors)
  PROVE  ~Recovers(m) /\ ~Exceeds(m)
<1>1. m = 0 /\ LastOf(Good \ {"aborted"}) = 0
  BY NothingAnswered
<1>2. KindOf(m) = "error"
  BY <1>1 DEF KindOf
<1>3. QED
  BY <1>1, <1>2 DEF Recovers, Exceeds, Weighed

(* The first word of a user allows the first recovery.                     *)
LEMMA FirstChance ==
  ASSUME Shapes, Shapes', Untouched, NEW e \in Entries, e.kind = "user", entries' = Append(entries, e),
         UNCHANGED compacting
  PROVE  (Due <= Chances)'
<1>1. Overflows = 0
  <2>1. entries \in Seq(Entries) /\ DOMAIN entries = 1..Len(entries)
    BY SeqValues DEF Shapes, SessionOK
  <2>2. \A i \in 1..Len(entries) : entries[i] \notin Entering({"overflowed"})
    BY <2>1 DEF Untouched, Entering
  <2>3. QED
    BY <2>1, <2>2, HitsAny DEF Overflows
<1>2. Recovering' = {}
  BY DEF Recovering, Untouched
<1>3. Cardinality(Recovering)' = 0
  BY <1>2, FS_EmptySet
<1>4. Overflows' = 0 /\ Chances' = Chances + 1
  BY <1>1, DueOfEntry DEF Shapes
<1>5. QED
  BY <1>3, <1>4, DueType, DueTypeNext DEF Due

(* An entry of an extension or a compaction somebody asked for.            *)
LEMMA UntouchedEntries ==
  ASSUME SessionOK, Untouched, NEW e \in Entries, e.kind \in {"custom", "manual"},
         UNCHANGED entries \/ entries' = Append(entries, e)
  PROVE  \A i \in DOMAIN entries' : entries'[i].kind \in {"custom", "manual"}
<1>1. entries \in Seq(Entries)
  BY DEF SessionOK
<1>2. CASE entries' = Append(entries, e)
  BY <1>1, <1>2 DEF Untouched
<1>3. QED
  BY <1>2 DEF Untouched

(* prompt() of such a session begins with the user's message.              *)
LEMMA UntouchedPrompt ==
  ASSUME Shapes, Untouched, NEW n \in Nat \ {0}, PromptAgent(n)
  PROVE  run'.stage = "saying" /\ Head(run'.toSay).kind = "user"
<1>1. CASE isStreaming
  BY <1>1 DEF PromptAgent, isStreaming, Untouched
<1>2. CASE ~isStreaming
  <2> DEFINE toSay == <<User(n)>> \o pendingNextTurnMessages
  <2>1. <<User(n)>> \in Seq(Said) /\ pendingNextTurnMessages \in Seq(Said)
    BY NewEntries, PlainSequences DEF Shapes, QueuesOK
  <2>2. toSay # <<>> /\ Head(toSay) = User(n)
    BY <2>1
  <2>3. Begin(toSay, TRUE)
    BY <1>2 DEF PromptAgent
  <2> HIDE DEF toSay
  <2>4. run'.stage = "saying" /\ run'.toSay = toSay
    BY <2>2, <2>3 DEF Begin
  <2>5. QED
    BY <2>2, <2>4 DEF User, Entry
<1>3. QED
  BY <1>1, <1>2

(* Every step leaves the session untouched, or is the first word of a user.*)
LEMMA UntouchedStep ==
  ASSUME Shapes, Untouched, [Next]_vars
  PROVE  BoundInv'
<1>0. Shapes' /\ SessionOK /\ compacting \in [Owners -> Pending]
  BY ShapesStep DEF Shapes, CompactionsOK
<1> DEFINE Calm == \A o \in Owners : compacting'[o].kind \in {"none", "manual"}
           Begun == run'.stage = "saying" /\ Head(run'.toSay).kind = "user"
           Plain == \A i \in DOMAIN entries' : entries'[i].kind \in {"custom", "manual"}
<1>1. ASSUME Plain, Calm, UNCHANGED run \/ Begun, UNCHANGED scheduled PROVE BoundInv'
  BY <1>1 DEF BoundInv, Untouched
<1>2. UNCHANGED entries => Plain
  BY DEF Untouched
<1>3. UNCHANGED compacting => Calm
  BY DEF Untouched
<1> HIDE DEF Plain, Begun
<1>4. ASSUME NEW o \in Owners, EndCompaction(o)
      PROVE  Plain /\ Calm /\ UNCHANGED scheduled
  <2> DEFINE e == Entry(compacting[o].kind, compacting[o].kept)
  <2>1. compacting[o].kind = "manual" /\ compacting[o].kept \in Nat
    BY <1>0, <1>4 DEF Untouched, EndCompaction, Pending
  <2>2. e \in Entries /\ e.kind = "manual"
    BY <2>1, NewEntries DEF Entry, Compactions
  <2>3. UNCHANGED entries \/ entries' = Append(entries, e)
    BY <1>4 DEF EndCompaction, AppendCompaction, AppendFails, LeaveCompaction
  <2> HIDE DEF e
  <2>4. Plain
    BY <1>0, <2>2, <2>3, UntouchedEntries DEF Plain
  <2>5. Calm
    BY <1>0, <1>4 DEF EndCompaction, NotCompacting, Untouched
  <2>6. UNCHANGED scheduled
    BY <1>4, <2>1 DEF EndCompaction, AppendCompaction, AppendFails, LeaveCompaction
  <2>7. QED
    BY <2>4, <2>5, <2>6
<1>5. ASSUME NEW c \in Callers, Prompt(c) PROVE BoundInv'
  <2>1. ~StartAutoCompaction(c, LastOf(Good \cup Errors))
    BY UntouchedIsCalm DEF StartAutoCompaction
  <2>2. UNCHANGED <<entries, compacting, scheduled>> /\ PromptAgent(sent + 1)
    BY <1>5, <2>1 DEF Prompt
  <2>3. sent + 1 \in Nat \ {0}
    BY DEF Shapes, CountsOK
  <2>4. Begun
    BY <2>2, <2>3, UntouchedPrompt DEF Begun
  <2>5. QED
    BY <1>1, <1>2, <1>3, <2>2, <2>4
<1>6. ASSUME NEW c \in Callers, PromptAfterCompaction(c) PROVE BoundInv'
  <2>1. c \in Owners /\ EndCompaction(c) /\ PromptAgent(asked[c]) /\ asked[c] \in Nat \ {0}
    BY <1>6 DEF PromptAfterCompaction, Owners, Shapes, CountsOK
  <2>2. Begun
    BY <2>1, UntouchedPrompt DEF Begun
  <2>3. QED
    BY <1>1, <1>4, <2>1, <2>2
<1>7. ASSUME NEW c \in Callers, EndCompact(c) PROVE BoundInv'
  <2>1. c \in Owners /\ EndCompaction(c) /\ UNCHANGED run
    BY <1>7 DEF EndCompact, Owners
  <2>2. QED
    BY <1>1, <1>4, <2>1
<1>8. ASSUME NEW c \in Callers, Compact(c) PROVE BoundInv'
  <2>1. c \in Owners /\ BeginCompaction(c, "manual") /\ UNCHANGED <<entries, run, scheduled>>
    BY <1>8 DEF Compact, Owners
  <2>2. Calm
    BY <1>0, <2>1 DEF BeginCompaction, Untouched
  <2>3. QED
    BY <1>1, <1>2, <2>1, <2>2
<1>9. CASE AbortCompaction
  <2>1. compacting' = [compacting EXCEPT ![controller].aborted = TRUE] /\ UNCHANGED <<entries, run, scheduled>>
    BY <1>9 DEF AbortCompaction
  <2>2. Calm
    BY <1>0, <2>1 DEF Untouched, Pending
  <2>3. QED
    BY <1>1, <1>2, <2>1, <2>2
<1>10. CASE SendCustomMessage
  <2>1. Custom(sent + 1) \in Entries /\ Custom(sent + 1).kind = "custom"
    BY NewEntries DEF Shapes, CountsOK, Custom, Entry
  <2>2. UNCHANGED entries \/ entries' = Append(entries, Custom(sent + 1))
    BY <1>10 DEF SendCustomMessage
  <2>3. Plain
    BY <1>0, <2>1, <2>2, UntouchedEntries DEF Plain
  <2>4. UNCHANGED <<run, compacting, scheduled>>
    BY <1>10 DEF SendCustomMessage
  <2>5. QED
    BY <1>1, <1>3, <2>3, <2>4
<1>11. CASE Queue \/ ClearQueue \/ UNCHANGED vars
  BY <1>1, <1>2, <1>3, <1>11 DEF Queue, ClearQueue, vars
<1>12. CASE Say
  <2>1. Head(run.toSay).kind = "user" /\ Hear(Head(run.toSay)) /\ UNCHANGED compacting
    BY <1>12 DEF Say, Untouched
  <2>2. run.toSay \in Seq(Said) /\ run.toSay # <<>>
    BY <1>12 DEF Say, Shapes, RunOK, Runs
  <2>3. Head(run.toSay) \in Entries
    BY <2>2, NewEntries
  <2>4. (Due <= Chances)'
    BY <1>0, <2>1, <2>3, FirstChance DEF Hear
  <2>5. QED
    BY <2>4 DEF BoundInv
<1>13. ~(PollFirst \/ Answer \/ EndOfRun \/ End \/ Continue)
  BY DEF PollFirst, Answer, EndOfRun, End, Continue, Untouched
<1>14. QED
  BY <1>5, <1>6, <1>7, <1>8, <1>9, <1>10, <1>11, <1>12, <1>13 DEF Next

(* Recoveries stay within what allows them.                                *)
LEMMA BoundStep == Shapes /\ BoundInv /\ [Next]_vars => BoundInv'
<1> SUFFICES ASSUME Shapes, BoundInv, [Next]_vars PROVE BoundInv'
  OBVIOUS
<1>1. CASE Untouched
  BY <1>1, UntouchedStep
<1>2. CASE Due <= Chances
  <2>1. Shapes' /\ Balanced
    BY ShapesStep, BalancedStep
  <2>2. (Due <= Chances)'
    BY <1>2, <2>1, DueType, DueTypeNext DEF Balanced, Due
  <2>3. QED
    BY <2>2 DEF BoundInv
<1>3. QED
  BY <1>1, <1>2 DEF BoundInv

(* At the start there is nothing to recover from, or one overflow and one  *)
(* user.                                                                   *)
LEMMA BoundInit == Init => BoundInv
<1> SUFFICES ASSUME Init PROVE BoundInv
  OBVIOUS
<1>1. compacting = [o \in Owners |-> NotCompacting] /\ run = Idle /\ scheduled = 0 /\ overflowRecoveryAttempted = FALSE
  BY DEF Init
<1>2. CASE entries = <<>>
  BY <1>1, <1>2 DEF BoundInv, Untouched, NotCompacting, Idle
<1>3. CASE entries = <<User(0), Entry("overflow", 0)>>
  <2> DEFINE a == User(0)
             b == Entry("overflow", 0)
             one == <<a>>
             two == Append(one, b)
  <2>1. /\ a \in Entries /\ a.kind = "user" /\ b \in Entries /\ b.kind = "overflow"
    BY DEF User, Entry, Entries, Kinds, Spoken, Errors
  <2>2. entries = two /\ one \in Seq(Entries)
    BY <1>3, <2>1
  <2>3. \A kinds : a \in Entering(kinds) <=> "user" \in kinds
    BY <2>1 DEF Entering
  <2>4. \A kinds : b \in Entering(kinds) <=> "overflow" \in kinds
    BY <2>1 DEF Entering
  <2> HIDE DEF a, b
  <2>5. \A kinds : Hits(one, Entering(kinds)) = IF "user" \in kinds THEN 1 ELSE 0
    BY <2>1, <2>3, HitsOfOne
  <2> HIDE DEF one
  <2>6. \A kinds : Hits(two, Entering(kinds)) = Hits(one, Entering(kinds)) + (IF "overflow" \in kinds THEN 1 ELSE 0)
    BY <2>1, <2>2, <2>4, HitsOfAppend
  <2> HIDE DEF two
  <2>7. Overflows = 0
    BY <2>2, <2>5, <2>6 DEF Overflows
  <2>8. Chances = 1
    <3>1. "user" \in Good \cup {"user"} /\ "overflow" \notin Good \cup {"user"}
      BY DEF Good
    <3>2. QED
      BY <2>2, <2>5, <2>6, <3>1 DEF Chances
  <2>9. Recovering = {} /\ Spare = 1
    BY <1>1 DEF Recovering, NotCompacting, Spare
  <2>10. QED
    BY <2>7, <2>8, <2>9, FS_EmptySet DEF BoundInv, Due
<1>4. QED
  BY <1>2, <1>3 DEF Init

(* What is counted in the property.                                        *)
LEMMA BoundHolds == Shapes /\ BoundInv => RecoveriesAreBounded
<1> SUFFICES ASSUME Shapes, BoundInv PROVE RecoveriesAreBounded
  OBVIOUS
<1>1. entries \in Seq(Entries) /\ DOMAIN entries = 1..Len(entries)
  BY SeqValues DEF Shapes, SessionOK
<1>2. \A kinds : HitsAt(entries, Entering(kinds)) = {i \in DOMAIN entries : entries[i].kind \in kinds}
  BY <1>1 DEF HitsAt, Entering
<1>3. \A kinds : Hits(entries, Entering(kinds)) = Cardinality({i \in DOMAIN entries : entries[i].kind \in kinds})
  BY <1>2 DEF Hits
<1>4. Overflows <= Chances
  <2>1. CASE Untouched
    <3>1. \A i \in 1..Len(entries) : entries[i] \notin Entering({"overflowed"})
      BY <1>1, <2>1 DEF Untouched, Entering
    <3>2. Overflows = 0
      BY <1>1, <3>1, HitsAny DEF Overflows
    <3>3. QED
      BY <3>2, DueType
  <2>2. CASE Due <= Chances
    BY <2>2, DueType DEF Due
  <2>3. QED
    BY <2>1, <2>2 DEF BoundInv
<1>5. QED
  BY <1>3, <1>4 DEF RecoveriesAreBounded, Overflows, Chances

-----------------------------------------------------------------------------
(* The retry. The newest entry, and what the end of a run finds.           *)
Newest      == entries[Len(entries)].kind
Uncompacted == entries # <<>> /\ Newest \notin Compactions

(* Unless two compactions waited at once, there is one at a time.          *)
OneAtATime ==
  ~overlapped => \A o, p \in Owners :
    compacting[o].kind # "none" /\ compacting[p].kind # "none" => o = p

RunCompacts == (compacting[Run].kind # "none") = (run.stage = "compacting")

(* A run ends behind what was said, and its compaction keeps that alone.   *)
FreshAtEnd ==
  /\ run.stage = "ending" => Uncompacted
  /\ run.stage = "compacting" /\ ~overlapped => Uncompacted /\ compacting[Run].kept = Len(entries)

(* Behind a compaction after an overflow no error stands, and the continue *)
(* is on its way, unless the model has answered.                           *)
RetryReady ==
  /\ ~overlapped /\ ~unseen /\ ~isStreaming
  /\ entries # <<>> /\ Newest = "overflowed"
  => /\ messages # <<>> /\ KindOf(Last(messages)) \notin Errors
     /\ KindOf(Last(messages)) \in Good \/ scheduled > 0

TurnInv == OneAtATime /\ RunCompacts /\ FreshAtEnd /\ RetryReady

(* Compactions that wait go on waiting.                                    *)
SameKinds ==
  \A o \in Owners : compacting'[o].kind = compacting[o].kind /\ compacting'[o].kept = compacting[o].kept

(* A step leaves the compactions that wait, begins one or ends one.        *)
LEMMA CompactionSteps ==
  ASSUME Shapes, [Next]_vars
  PROVE  \/ SameKinds /\ UNCHANGED overlapped
         \/ \E o \in Owners, kind \in Compactions : BeginCompaction(o, kind)
         \/ \E o \in Owners : EndCompaction(o) /\ UNCHANGED overlapped
<1> DEFINE Goal == \/ SameKinds /\ UNCHANGED overlapped
                   \/ \E o \in Owners, kind \in Compactions : BeginCompaction(o, kind)
                   \/ \E o \in Owners : EndCompaction(o) /\ UNCHANGED overlapped
<1>0. CASE UNCHANGED <<compacting, overlapped>>
  BY <1>0 DEF SameKinds
<1>1. Callers \subseteq Owners /\ Run \in Owners
  BY DEF Owners
<1>2. ASSUME NEW o \in Owners, NEW m, StartAutoCompaction(o, m) PROVE Goal
  <2>1. BeginCompaction(o, "overflowed") \/ BeginCompaction(o, "threshold")
    BY <1>2 DEF StartAutoCompaction
  <2>2. "overflowed" \in Compactions /\ "threshold" \in Compactions
    BY DEF Compactions
  <2>3. QED
    BY <2>1, <2>2
<1>3. ASSUME NEW c \in Callers, Prompt(c) PROVE Goal
  <2>1. UNCHANGED <<compacting, overlapped>> \/ \E m : StartAutoCompaction(c, m)
    BY <1>3 DEF Prompt
  <2>2. QED
    BY <1>0, <1>1, <1>2, <2>1
<1>4. ASSUME NEW c \in Callers, PromptAfterCompaction(c) \/ EndCompact(c) PROVE Goal
  BY <1>1, <1>4 DEF PromptAfterCompaction, EndCompact
<1>5. ASSUME NEW c \in Callers, Compact(c) PROVE Goal
  BY <1>1, <1>5 DEF Compact, Compactions
<1>6. CASE AbortCompaction
  <2>1. UNCHANGED overlapped /\ compacting' = [compacting EXCEPT ![controller].aborted = TRUE]
        /\ compacting \in [Owners -> Pending]
    BY <1>6 DEF AbortCompaction, Shapes, CompactionsOK
  <2>2. SameKinds
    BY <2>1 DEF SameKinds, Pending
  <2>3. QED
    BY <2>1, <2>2
<1>7. CASE Queue \/ SendCustomMessage \/ ClearQueue \/ Say \/ PollFirst \/ Answer \/ Continue \/ UNCHANGED vars
  BY <1>0, <1>7 DEF Queue, SendCustomMessage, ClearQueue, Say, PollFirst, Answer, Continue, vars
<1>8. CASE EndOfRun
  BY <1>1, <1>8 DEF EndOfRun
<1>9. CASE End
  <2>1. UNCHANGED <<compacting, overlapped>> \/ \E m : StartAutoCompaction(Run, m)
    BY <1>9 DEF End
  <2>2. QED
    BY <1>0, <1>1, <1>2, <2>1
<1>10. QED
  BY <1>3, <1>4, <1>5, <1>6, <1>7, <1>8, <1>9 DEF Next

(* Compactions wait one at a time until two do.                            *)
LEMMA OneAtATimeStep ==
  ASSUME Shapes, OneAtATime, [Next]_vars
  PROVE  OneAtATime'
<1>0. compacting \in [Owners -> Pending]
  BY DEF Shapes, CompactionsOK
<1>1. CASE SameKinds /\ UNCHANGED overlapped
  BY <1>1 DEF SameKinds, OneAtATime
<1>2. ASSUME NEW o \in Owners, NEW kind, BeginCompaction(o, kind) PROVE OneAtATime'
  <2>1. ~overlapped' => \A p \in Owners : compacting[p].kind = "none"
    BY <1>2 DEF BeginCompaction
  <2>2. \A p \in Owners \ {o} : compacting'[p] = compacting[p]
    BY <1>0, <1>2 DEF BeginCompaction
  <2>3. QED
    BY <2>1, <2>2 DEF OneAtATime
<1>3. ASSUME NEW o \in Owners, EndCompaction(o), UNCHANGED overlapped PROVE OneAtATime'
  <2>1. \A p \in Owners \ {o} : compacting'[p] = compacting[p]
    BY <1>0, <1>3 DEF EndCompaction
  <2>2. compacting'[o].kind = "none"
    BY <1>0, <1>3 DEF EndCompaction, NotCompacting
  <2>3. QED
    BY <1>3, <2>1, <2>2 DEF OneAtATime
<1>4. QED
  BY <1>1, <1>2, <1>3, CompactionSteps

(* prompt() of a caller leaves the run on.                                 *)
LEMMA PromptStage ==
  ASSUME NEW n, PromptAgent(n)
  PROVE  /\ run'.stage # "idle"
         /\ UNCHANGED run \/ (run.stage = "idle" /\ run'.stage \in {"saying", "polling"})
<1>1. CASE isStreaming
  BY <1>1 DEF PromptAgent, isStreaming
<1>2. CASE ~isStreaming
  BY <1>2 DEF PromptAgent, Begin, isStreaming
<1>3. QED
  BY <1>1, <1>2

(* What a continue, a poll and the end of an answer make of the run.       *)
LEMMA BeginStage ==
  ASSUME NEW toSay, NEW poll, Begin(toSay, poll)
  PROVE  run'.stage \in {"saying", "polling"}
BY DEF Begin

(* A continue begins a run, or is refused.                                 *)
LEMMA ContinueStage ==
  ASSUME Continue
  PROVE  UNCHANGED run \/ (run.stage = "idle" /\ run'.stage \in {"saying", "polling"})
<1>1. UNCHANGED run \/ (~isStreaming /\ \E toSay, poll : Begin(toSay, poll))
  BY DEF Continue
<1>2. QED
  BY <1>1, BeginStage DEF isStreaming

(* The first poll ends in a question or in a queued message.               *)
LEMMA PollFirstStage ==
  ASSUME run \in Runs, PollFirst
  PROVE  run.stage = "polling" /\ run'.stage \in {"asking", "saying"}
<1>1. CASE run' = [run EXCEPT !.stage = "asking", !.poll = FALSE]
  BY <1>1 DEF PollFirst, Runs
<1>2. CASE run' = [stage |-> "saying", toSay |-> <<Head(steering)>>, poll |-> FALSE]
  BY <1>2 DEF PollFirst
<1>3. QED
  BY <1>1, <1>2 DEF PollFirst

(* After an answer the run ends, or says a queued message.                 *)
LEMMA PollAfterStage ==
  ASSUME NEW e, PollAfter(e)
  PROVE  run'.stage \in {"ending", "saying"}
<1> DEFINE over == [Idle EXCEPT !.stage = "ending"]
           says(s) == [stage |-> "saying", toSay |-> <<Head(s)>>, poll |-> FALSE]
<1>1. run' \in {over, says(steering), says(followUp)}
  BY DEF PollAfter
<1>2. over.stage = "ending" /\ \A s : says(s).stage = "saying"
  BY DEF Idle
<1> HIDE DEF over, says
<1>3. QED
  BY <1>1, <1>2

(* Callers are not the run.                                                *)
LEMMA CallersAreOwners ==
  ASSUME NEW c \in Callers, compacting \in [Owners -> Pending]
  PROVE  /\ c \in Owners /\ Run \in Owners /\ c # Run
         /\ \A kind : BeginCompaction(c, kind) => compacting'[Run] = compacting[Run]
         /\ EndCompaction(c) => compacting'[Run] = compacting[Run]
BY AgentSessionAssumption DEF Owners, BeginCompaction, EndCompaction

(* The stage of the run after a step.                                      *)
LEMMA StageSteps ==
  ASSUME Shapes, [Next]_vars
  PROVE  \/ UNCHANGED run
         \/ run'.stage \in {"idle", "saying", "polling", "asking"}
         \/ Say \/ Answer
         \/ End /\ run'.stage = "compacting"
<1>1. ASSUME NEW c \in Callers, Prompt(c) \/ PromptAfterCompaction(c)
      PROVE  UNCHANGED run \/ run'.stage \in {"saying", "polling"}
  <2>1. UNCHANGED run \/ \E n : PromptAgent(n)
    BY <1>1 DEF Prompt, PromptAfterCompaction
  <2>2. QED
    BY <2>1, PromptStage
<1>2. ASSUME NEW c \in Callers, Compact(c) \/ EndCompact(c) PROVE UNCHANGED run
  BY <1>2 DEF Compact, EndCompact
<1>3. CASE Queue \/ SendCustomMessage \/ ClearQueue \/ AbortCompaction \/ UNCHANGED vars
  BY <1>3 DEF Queue, SendCustomMessage, ClearQueue, AbortCompaction, vars
<1>4. CASE PollFirst
  BY <1>4, PollFirstStage DEF Shapes, RunOK
<1>5. CASE Continue
  BY <1>5, ContinueStage
<1>6. CASE EndOfRun
  BY <1>6 DEF EndOfRun, Idle
<1>7. CASE End
  BY <1>7 DEF End, Idle
<1>8. QED
  BY <1>1, <1>2, <1>3, <1>4, <1>5, <1>6, <1>7 DEF Next

(* The run waits for a compaction in the stage that says so.               *)
LEMMA RunCompactsStep ==
  ASSUME Shapes, RunCompacts, [Next]_vars
  PROVE  RunCompacts'
<1>0. compacting \in [Owners -> Pending] /\ Run \in Owners /\ run \in Runs
  BY DEF Shapes, CompactionsOK, Owners, RunOK
<1>1. ASSUME compacting'[Run].kind = compacting[Run].kind,
             (run'.stage = "compacting") = (run.stage = "compacting")
      PROVE  RunCompacts'
  BY <1>1 DEF RunCompacts
<1>2. ASSUME NEW c \in Callers, Prompt(c) PROVE RunCompacts'
  <2>1. compacting'[Run] = compacting[Run]
    BY <1>0, <1>2, CallersAreOwners DEF Prompt, StartAutoCompaction
  <2>2. UNCHANGED run \/ \E n : PromptAgent(n)
    BY <1>2 DEF Prompt
  <2>3. (run'.stage = "compacting") = (run.stage = "compacting")
    BY <2>2, PromptStage
  <2>4. QED
    BY <1>1, <2>1, <2>3
<1>3. ASSUME NEW c \in Callers, PromptAfterCompaction(c) PROVE RunCompacts'
  <2>1. compacting'[Run] = compacting[Run]
    BY <1>0, <1>3, CallersAreOwners DEF PromptAfterCompaction
  <2>2. (run'.stage = "compacting") = (run.stage = "compacting")
    BY <1>3, PromptStage DEF PromptAfterCompaction
  <2>3. QED
    BY <1>1, <2>1, <2>2
<1>4. ASSUME NEW c \in Callers, Compact(c) \/ EndCompact(c) PROVE RunCompacts'
  <2>1. compacting'[Run] = compacting[Run] /\ UNCHANGED run
    BY <1>0, <1>4, CallersAreOwners DEF Compact, EndCompact
  <2>2. QED
    BY <1>1, <2>1
<1>5. CASE AbortCompaction
  <2>1. compacting' = [compacting EXCEPT ![controller].aborted = TRUE] /\ UNCHANGED run
    BY <1>5 DEF AbortCompaction
  <2>2. compacting'[Run].kind = compacting[Run].kind
    BY <1>0, <2>1 DEF Pending
  <2>3. QED
    BY <1>1, <2>1, <2>2
<1>6. CASE Queue \/ SendCustomMessage \/ ClearQueue \/ UNCHANGED vars
  BY <1>1, <1>6 DEF Queue, SendCustomMessage, ClearQueue, vars
<1>7. CASE Say
  <2>1. run.stage = "saying" /\ UNCHANGED compacting /\ run'.stage # "compacting"
    BY <1>0, <1>7 DEF Say, Fails, Runs
  <2>2. QED
    BY <1>1, <2>1
<1>8. CASE PollFirst
  <2>1. UNCHANGED compacting
    BY <1>8 DEF PollFirst
  <2>2. run.stage = "polling" /\ run'.stage \in {"asking", "saying"}
    BY <1>0, <1>8, PollFirstStage
  <2>3. QED
    BY <1>1, <2>1, <2>2
<1>9. CASE Answer
  <2>1. run.stage = "asking" /\ UNCHANGED compacting
    BY <1>9 DEF Answer
  <2>2. run'.stage # "compacting"
    <3>1. PICK kind \in Answers : PollAfter(Entry(kind, 0)) \/ Fails(Entry(kind, 0))
      BY <1>9, Zenon DEF Answer
    <3>2. Fails(Entry(kind, 0)) => run'.stage = "ending"
      BY <1>0 DEF Fails, Runs
    <3>3. PollAfter(Entry(kind, 0)) => run'.stage \in {"ending", "saying"}
      BY PollAfterStage
    <3>4. QED
      BY <3>1, <3>2, <3>3
  <2>3. QED
    BY <1>1, <2>1, <2>2
<1>10. CASE EndOfRun
  BY <1>0, <1>10 DEF EndOfRun, EndCompaction, NotCompacting, Idle, RunCompacts
<1>11. CASE Continue
  <2>1. UNCHANGED compacting
    BY <1>11 DEF Continue
  <2>2. (run'.stage = "compacting") = (run.stage = "compacting")
    BY <1>11, ContinueStage
  <2>3. QED
    BY <1>1, <2>1, <2>2
<1>12. CASE End
  <2>1. run.stage = "ending"
    BY <1>12 DEF End
  <2>2. CASE UNCHANGED compacting /\ run' = Idle
    BY <1>1, <2>1, <2>2 DEF Idle
  <2>3. CASE run' = [Idle EXCEPT !.stage = "compacting"] /\ \E m : StartAutoCompaction(Run, m)
    <3>1. PICK kind \in {"overflowed", "threshold"} : BeginCompaction(Run, kind)
      BY <2>3 DEF StartAutoCompaction
    <3>2. compacting'[Run].kind = kind /\ kind # "none"
      BY <1>0, <3>1 DEF BeginCompaction
    <3>3. run'.stage = "compacting"
      BY <2>3 DEF Idle
    <3>4. QED
      BY <3>2, <3>3 DEF RunCompacts
  <2>4. QED
    BY <1>12, <2>2, <2>3 DEF End
<1>13. QED
  BY <1>2, <1>3, <1>4, <1>5, <1>6, <1>7, <1>8, <1>9, <1>10, <1>11, <1>12 DEF Next

(* An entry that is said is the newest, and no compaction.                 *)
LEMMA SaidIsNewest ==
  ASSUME SessionOK, NEW e \in Entries, entries' = Append(entries, e)
  PROVE  entries' # <<>> /\ Newest' = e.kind
<1>1. entries \in Seq(Entries)
  BY DEF SessionOK
<1>2. Len(entries') = Len(entries) + 1 /\ Len(entries) \in Nat /\ entries'[Len(entries) + 1] = e
  BY <1>1
<1>3. entries' # <<>>
  BY <1>1
<1>4. QED
  BY <1>2, <1>3 DEF Newest

(* What a run says or is told is the newest entry.                         *)
LEMMA HeardIsNewest ==
  ASSUME Shapes, Say \/ Answer
  PROVE  Uncompacted'
<1>1. \E e \in Entries : e.kind \notin Compactions /\ entries' = Append(entries, e)
  <2>1. CASE Say
    <3>1. run.toSay \in Seq(Said) /\ run.toSay # <<>>
      BY <2>1 DEF Say, Shapes, RunOK, Runs
    <3>2. Head(run.toSay) \in Said
      BY <3>1
    <3>3. Head(run.toSay) \in Entries /\ Head(run.toSay).kind \notin Compactions
      BY <3>2, NewEntries DEF Said, Spoken, Compactions
    <3>4. QED
      BY <2>1, <3>3 DEF Say, Hear
  <2>2. CASE Answer
    <3>1. PICK kind \in Answers : Hear(Entry(kind, 0))
      BY <2>2, Zenon DEF Answer
    <3>2. Entry(kind, 0) \in Entries /\ Entry(kind, 0).kind \notin Compactions
      BY NewEntries, AgentSessionAssumption DEF Entry, Compactions, Good, Errors
    <3>3. QED
      BY <3>1, <3>2 DEF Hear
  <2>3. QED
    BY <2>1, <2>2
<1>2. QED
  BY <1>1, SaidIsNewest DEF Shapes, Uncompacted

(* During the compaction of a run nothing is added.                        *)
LEMMA NothingAdded ==
  ASSUME Shapes, OneAtATime, RunCompacts, run.stage = "compacting", ~overlapped, [Next]_vars,
         run'.stage = "compacting", ~overlapped'
  PROVE  UNCHANGED entries /\ compacting'[Run].kept = compacting[Run].kept
<1>0. compacting \in [Owners -> Pending] /\ Run \in Owners
  BY DEF Shapes, CompactionsOK, Owners
<1>1. \A c \in Callers : compacting[c].kind = "none" /\ c # Run
  BY <1>0, AgentSessionAssumption DEF OneAtATime, RunCompacts, Owners
<1>2. ASSUME NEW c \in Callers PROVE ~(Prompt(c) \/ PromptAfterCompaction(c) \/ EndCompact(c) \/ Compact(c))
  <2>1. ~EndCompaction(c)
    BY <1>1 DEF EndCompaction
  <2>2. ~Prompt(c)
    BY DEF Prompt, isStreaming
  <2>3. ~Compact(c)
    BY <1>0 DEF Compact, BeginCompaction, RunCompacts
  <2>4. QED
    BY <2>1, <2>2, <2>3 DEF PromptAfterCompaction, EndCompact
<1>3. CASE Queue \/ SendCustomMessage \/ ClearQueue \/ UNCHANGED vars
  BY <1>3 DEF Queue, SendCustomMessage, ClearQueue, isStreaming, vars
<1>4. CASE AbortCompaction
  <2>1. compacting' = [compacting EXCEPT ![controller].aborted = TRUE] /\ UNCHANGED entries
    BY <1>4 DEF AbortCompaction
  <2>2. QED
    BY <1>0, <2>1 DEF Pending
<1>5. ~(Say \/ PollFirst \/ Answer \/ End)
  BY DEF Say, PollFirst, Answer, End
<1>6. CASE Continue
  BY <1>6 DEF Continue
<1>7. ~EndOfRun
  BY DEF EndOfRun, Idle
<1>8. QED
  BY <1>2, <1>3, <1>4, <1>5, <1>6, <1>7 DEF Next

(* A run still ends behind what was said.                                  *)
LEMMA FreshStep ==
  ASSUME Shapes, OneAtATime, RunCompacts, FreshAtEnd, [Next]_vars
  PROVE  FreshAtEnd'
<1>0. compacting \in [Owners -> Pending] /\ Run \in Owners
  BY DEF Shapes, CompactionsOK, Owners
<1>1. ASSUME run'.stage = "ending" PROVE Uncompacted'
  <2>1. CASE UNCHANGED run
    <3>1. End \/ UNCHANGED vars
      BY <1>1, <2>1 DEF Next
    <3>2. UNCHANGED entries
      BY <3>1 DEF End, vars
    <3>3. QED
      BY <1>1, <2>1, <3>2 DEF FreshAtEnd, Uncompacted, Newest
  <2>2. QED
    BY <1>1, <2>1, StageSteps, HeardIsNewest
<1>2. ASSUME run'.stage = "compacting", ~overlapped'
      PROVE  Uncompacted' /\ compacting'[Run].kept = Len(entries')
  <2>1. CASE UNCHANGED run /\ ~overlapped
    <3>1. UNCHANGED entries /\ compacting'[Run].kept = compacting[Run].kept
      BY <1>2, <2>1, NothingAdded
    <3>2. QED
      BY <1>2, <2>1, <3>1 DEF FreshAtEnd, Uncompacted, Newest
  <2>2. CASE End
    <3>1. run.stage = "ending" /\ UNCHANGED entries /\ \E m : StartAutoCompaction(Run, m)
      BY <1>2, <2>2 DEF End, Idle
    <3>2. PICK kind : BeginCompaction(Run, kind)
      BY <3>1 DEF StartAutoCompaction
    <3>3. compacting'[Run].kept = Len(entries)
      BY <1>0, <3>2 DEF BeginCompaction, Kept
    <3>4. QED
      BY <3>1, <3>3 DEF FreshAtEnd, Uncompacted, Newest
  <2>3. ~(Say \/ Answer)
    <3>1. (Say \/ Answer) => UNCHANGED compacting /\ run.stage # "compacting"
      BY DEF Say, Answer
    <3>2. RunCompacts'
      BY RunCompactsStep
    <3>3. QED
      BY <1>2, <3>1, <3>2 DEF RunCompacts
  <2>4. overlapped => overlapped'
    BY CompactionSteps DEF BeginCompaction
  <2>5. QED
    BY <1>2, <2>1, <2>2, <2>3, <2>4, StageSteps
<1>3. QED
  BY <1>1, <1>2 DEF FreshAtEnd

(* Short sequences.                                                        *)
LEMMA ShortSequences ==
  ASSUME NEW a \in Nat, NEW b \in Nat
  PROVE  Append(<<>>, b) = <<b>> /\ <<a>> \o <<b>> \o <<>> = <<a, b>>
<1>1. Append(<<>>, b) = <<b>>
  OBVIOUS
<1>2. <<a>> \o <<b>> = <<a, b>>
  <2>1. <<>> \in Seq(Nat) /\ <<a>> \in Seq(Nat) /\ <<a>> = Append(<<>>, a) /\ <<a>> \o <<>> = <<a>>
    OBVIOUS
  <2>2. <<a>> \o Append(<<>>, b) = Append(<<a>> \o <<>>, b)
    BY <2>1, AppendOfConcat
  <2>3. Append(Append(<<>>, a), b) = <<a, b>>
    BY TwoAppended
  <2>4. QED
    BY <1>1, <2>1, <2>2, <2>3, Zenon
<1>3. <<a, b>> \o <<>> = <<a, b>>
  OBVIOUS
<1>4. QED
  BY <1>1, <1>2, <1>3

(* The context behind a compaction that keeps the newest entry alone.      *)
LEMMA ContextOfTwo ==
  ASSUME NEW es \in Seq(Entries), es # <<>>, es[Len(es)].kind \notin Compactions,
         NEW fs, fs = Append(es, Entry("overflowed", Len(es)))
  PROVE  Context(fs) = <<Len(es) + 1, Len(es)>>
<1> DEFINE n == Len(es)
           e == Entry("overflowed", n)
<1>1. n \in Nat /\ n >= 1 /\ e \in Entries /\ e.kind \in Compactions /\ e.of = n
  BY EmptySeq, NewEntries DEF Entry, Compactions
<1>2. /\ fs \in Seq(Entries) /\ Len(fs) = n + 1 /\ DOMAIN fs = 1..(n + 1)
      /\ fs[n + 1] = e /\ fs[n] = es[n]
  BY <1>1
<1>2a. fs[n].kind \notin Compactions /\ fs[n + 1].kind \in Compactions /\ fs[n + 1].of = n
  BY <1>1, <1>2
<1> HIDE DEF n, e
<1>3. LastCompaction(fs) = n + 1
  <2>1. n + 1 \in 1..Len(fs) /\ fs[n + 1].kind \in Compactions
    BY <1>1, <1>2
  <2> DEFINE c == LastCompaction(fs)
  <2>2. c \in 0..(n + 1) /\ (c = 0 => fs[n + 1].kind \notin Compactions) /\ (c # 0 => n + 1 <= c)
    BY <1>2, <2>1, LastCompactionType
  <2> HIDE DEF c
  <2>3. c = n + 1
    BY <1>1, <2>1, <2>2
  <2>4. QED
    BY <2>3 DEF c
<1>4. InOrder({}) = <<>>
  <2>1. InOrder({}) \in Seq({})
    <3>1. {} \in SUBSET (0..0) /\ 0 \in Nat
      OBVIOUS
    <3>2. QED
      BY <3>1, InOrderType
  <2>2. QED
    BY <2>1
<1>5. SpokenIn(fs, n, n) = <<n>>
  <2>1. {i \in DOMAIN fs : i \in n..n /\ fs[i].kind \notin Compactions} = {} \cup {n}
    BY <1>1, <1>2, <1>2a
  <2>2. SpokenIn(fs, n, n) = InOrder({} \cup {n})
    BY <2>1 DEF SpokenIn
  <2>3. InOrder({} \cup {n}) = Append(InOrder({}), n)
    <3>1. 0 \in Nat /\ {} \in SUBSET (0..0) /\ n \in Nat /\ n > 0
      BY <1>1
    <3>2. QED
      BY <3>1, InOrderAppends
  <2>4. Append(<<>>, n) = <<n>>
    BY <1>1, ShortSequences
  <2>5. QED
    BY <1>4, <2>2, <2>3, <2>4, Zenon
<1>6. SpokenIn(fs, n + 2, n + 1) = <<>>
  <2>1. {i \in DOMAIN fs : i \in (n + 2)..(n + 1) /\ fs[i].kind \notin Compactions} = {}
    BY <1>1
  <2>2. SpokenIn(fs, n + 2, n + 1) = InOrder({})
    BY <2>1 DEF SpokenIn
  <2>3. QED
    BY <1>4, <2>2
<1>7. Context(fs) = <<n + 1>> \o SpokenIn(fs, fs[n + 1].of, (n + 1) - 1) \o SpokenIn(fs, (n + 1) + 1, Len(fs))
  <2>1. n + 1 # 0
    BY <1>1
  <2>2. QED
    BY <1>3, <2>1, Zenon DEF Context
<1>8. fs[n + 1].of = n /\ (n + 1) - 1 = n /\ (n + 1) + 1 = n + 2 /\ Len(fs) = n + 1
  BY <1>1, <1>2, <1>2a
<1>9. Context(fs) = <<n + 1>> \o <<n>> \o <<>>
  BY <1>5, <1>6, <1>7, <1>8, Zenon
<1>10. <<n + 1>> \o <<n>> \o <<>> = <<n + 1, n>>
  BY <1>1, ShortSequences
<1>11. QED
  BY <1>9, <1>10 DEF n

(* No error stands at its end.                                             *)
LEMMA NoTrailingError ==
  ASSUME NEW es \in Seq(Entries), es # <<>>, es[Len(es)].kind \notin Compactions,
         NEW fs, fs = Append(es, Entry("overflowed", Len(es))),
         NEW ms, ms = WithoutTrailingError(fs, Context(fs))
  PROVE  ms # <<>> /\ Last(ms) # 0 /\ fs[Last(ms)].kind \notin Errors
<1> DEFINE n == Len(es)
           a == n + 1
           cs == <<a, n>>
<1>1. n \in Nat /\ n # 0 /\ fs[n + 1].kind = "overflowed"
  BY EmptySeq DEF Entry
<1>2. Context(fs) = cs
  BY ContextOfTwo
<1>3. a \in Nat /\ a # 0 /\ fs[a].kind \notin Errors
  BY <1>1 DEF Errors
<1> HIDE DEF n, a
<1>4. cs # <<>> /\ Last(cs) = n /\ Front(cs) = <<a>>
  <2>1. Len(cs) = 2 /\ cs[2] = n /\ cs[1] = a
    OBVIOUS
  <2>2. Last(cs) = n
    BY <2>1 DEF Last
  <2>3. Front(cs) = [i \in 1..1 |-> cs[i]]
    BY DEF Front
  <2>4. Front(cs) = <<a>>
    BY <2>3
  <2>5. QED
    BY <2>2, <2>4
<1> HIDE DEF cs
<1>5. CASE fs[n].kind \in Errors
  <2>1. ms = <<a>>
    BY <1>2, <1>4, <1>5 DEF WithoutTrailingError
  <2>2. ms # <<>> /\ Last(ms) = a
    <3>1. <<a>> # <<>> /\ Len(<<a>>) = 1 /\ <<a>>[1] = a
      OBVIOUS
    <3>2. Last(<<a>>) = a
      BY <3>1, Zenon DEF Last
    <3>3. QED
      BY <2>1, <3>1, <3>2, Zenon
  <2>3. QED
    BY <1>3, <2>2
<1>6. CASE fs[n].kind \notin Errors
  <2>1. ms = cs
    BY <1>1, <1>2, <1>4, <1>6 DEF WithoutTrailingError
  <2>2. QED
    BY <1>1, <1>4, <1>6, <2>1
<1>7. QED
  BY <1>5, <1>6

(* The end of a compaction after an overflow schedules the retry.          *)
LEMMA OverflowedEnd ==
  ASSUME Shapes, FreshAtEnd, RunCompacts, EndOfRun, ~overlapped, ~unseen',
         Newest' = "overflowed", entries' # <<>>
  PROVE  messages' # <<>> /\ KindOf(Last(messages))' \notin Errors /\ scheduled' > 0
<1>0. entries \in Seq(Entries) /\ Run \in Owners /\ compacting[Run].kind \in Compactions
  <2>1. compacting \in [Owners -> Pending] /\ Run \in Owners /\ compacting[Run].kind # "none"
    BY DEF Shapes, CompactionsOK, Owners, EndOfRun, EndCompaction
  <2>2. QED
    BY <2>1 DEF Shapes, SessionOK, Pending
<1>1. Uncompacted /\ compacting[Run].kept = Len(entries)
  BY DEF FreshAtEnd, EndOfRun
<1> DEFINE e == Entry(compacting[Run].kind, compacting[Run].kept)
<1>2. AppendCompaction(Run)
  <2>1. ~UNCHANGED entries
    BY <1>1 DEF Uncompacted, Newest, Compactions
  <2>2. QED
    BY <2>1 DEF EndOfRun, EndCompaction, LeaveCompaction, AppendFails
<1>3. entries' = Append(entries, e) /\ e.kind = compacting[Run].kind
  BY <1>2 DEF AppendCompaction, Entry
<1>4. e \in Entries
  BY <1>0, <1>1, NewEntries
<1> HIDE DEF e
<1>5. compacting[Run].kind = "overflowed"
  BY <1>3, <1>4, SaidIsNewest DEF Shapes
<1>6. /\ entries' = Append(entries, Entry("overflowed", Len(entries)))
      /\ messages' = WithoutTrailingError(entries', Context(entries'))
      /\ scheduled' = scheduled + 1
  BY <1>1, <1>2, <1>5 DEF AppendCompaction
<1>7. messages' # <<>> /\ Last(messages') # 0 /\ entries'[Last(messages')].kind \notin Errors
  <2>1. entries # <<>> /\ entries[Len(entries)].kind \notin Compactions
    BY <1>1 DEF Uncompacted, Newest
  <2>2. QED
    BY <1>0, <1>6, <2>1, NoTrailingError
<1>8. scheduled' > 0
  BY <1>6 DEF Shapes, CountsOK
<1>9. QED
  BY <1>7, <1>8 DEF KindOf

(* No compaction begins behind one.                                        *)
LEMMA NothingToPrepare ==
  ASSUME NEW o, NEW kind, BeginCompaction(o, kind)
  PROVE  Uncompacted
BY DEF BeginCompaction, CanPrepare, Uncompacted, Newest, Last

(* A continue that is refused meets an answer.                             *)
LEMMA RefusedContinue ==
  ASSUME Shapes, RetryReady, Continue, ~overlapped, ~unseen, entries # <<>>, Newest = "overflowed", run'.stage = "idle"
  PROVE  messages # <<>> /\ KindOf(Last(messages)) \in Good
<1>1. run.stage = "idle"
  BY ContinueStage
<1>2. messages # <<>> /\ KindOf(Last(messages)) \notin Errors
  BY <1>1 DEF RetryReady, isStreaming
<1>3. IsAssistant(Last(messages))
  <2>1. ~IsAssistant(Last(messages)) => Begin(<<>>, TRUE)
    BY <1>1, <1>2 DEF Continue, isStreaming
  <2>2. QED
    BY <2>1, BeginStage
<1>4. QED
  BY <1>2, <1>3 DEF IsAssistant

(* The retry stays ready, whatever comes before it.                        *)
LEMMA RetryStep ==
  ASSUME Shapes, OneAtATime, RunCompacts, FreshAtEnd, RetryReady, [Next]_vars
  PROVE  RetryReady'
<1>0. compacting \in [Owners -> Pending] /\ SessionOK /\ (~overlapped' => ~overlapped)
  <2>1. ~overlapped' => ~overlapped
    BY CompactionSteps DEF BeginCompaction
  <2>2. QED
    BY <2>1 DEF Shapes, CompactionsOK
<1> SUFFICES ASSUME ~overlapped', ~unseen', run'.stage = "idle", entries' # <<>>, Newest' = "overflowed"
             PROVE  RetryReady'
  BY DEF RetryReady, isStreaming
<1>1. CASE UNCHANGED <<entries, messages, run, scheduled, unseen>>
  BY <1>0, <1>1 DEF RetryReady, isStreaming, Newest, KindOf
<1>2. ASSUME NEW e \in Entries, entries' = Append(entries, e) PROVE e.kind = "overflowed"
  BY <1>0, <1>2, SaidIsNewest
<1>3. ASSUME Uncompacted, UNCHANGED entries PROVE FALSE
  BY <1>3 DEF Uncompacted, Newest, Compactions
<1>4. ASSUME NEW c \in Callers, Prompt(c) PROVE FALSE
  <2>1. UNCHANGED entries /\ ((\E n : PromptAgent(n)) \/ \E m : StartAutoCompaction(c, m))
    BY <1>4 DEF Prompt
  <2>2. (\E m : StartAutoCompaction(c, m)) => Uncompacted
    BY NothingToPrepare DEF StartAutoCompaction
  <2>3. QED
    BY <1>3, <2>1, <2>2, PromptStage
<1>5. ASSUME NEW c \in Callers, PromptAfterCompaction(c) PROVE FALSE
  BY <1>5, PromptStage DEF PromptAfterCompaction
<1>6. ASSUME NEW c \in Callers, Compact(c) PROVE FALSE
  BY <1>3, <1>6, NothingToPrepare DEF Compact
<1>7. ASSUME NEW c \in Callers, EndCompact(c) PROVE RetryReady'
  <2>1. c \in Owners /\ compacting[c].kind = "manual" /\ compacting[c].kept \in Nat
    BY <1>0, <1>7 DEF EndCompact, Owners, Pending
  <2>2. Entry("manual", compacting[c].kept) \in Entries /\ Entry("manual", compacting[c].kept).kind = "manual"
    BY <2>1, NewEntries DEF Entry, Compactions
  <2>3. ~AppendCompaction(c) /\ ~AppendFails(c)
    BY <1>2, <2>1, <2>2 DEF AppendCompaction, AppendFails
  <2>4. QED
    BY <1>1, <1>7, <2>3 DEF EndCompact, EndCompaction, LeaveCompaction
<1>8. CASE Queue \/ ClearQueue \/ AbortCompaction \/ UNCHANGED vars
  BY <1>1, <1>8 DEF Queue, ClearQueue, AbortCompaction, vars
<1>9. CASE SendCustomMessage
  <2>1. Custom(sent + 1) \in Entries /\ Custom(sent + 1).kind # "overflowed"
    BY NewEntries DEF Shapes, CountsOK, Custom, Entry
  <2>2. QED
    BY <1>1, <1>2, <1>9, <2>1 DEF SendCustomMessage, isStreaming
<1>10. ASSUME Say \/ Answer PROVE FALSE
  BY <1>10, HeardIsNewest DEF Uncompacted, Compactions
<1>11. ASSUME PollFirst PROVE FALSE
  BY <1>11, PollFirstStage DEF Shapes, RunOK
<1>12. CASE EndOfRun
  BY <1>0, <1>12, OverflowedEnd DEF RetryReady
<1>13. CASE Continue
  <2>1. UNCHANGED <<entries, messages, overlapped, unseen>>
    BY <1>13 DEF Continue
  <2>2. messages # <<>> /\ KindOf(Last(messages)) \in Good
    BY <1>13, <2>1, RefusedContinue DEF Newest
  <2>3. KindOf(Last(messages)) \notin Errors
    BY <2>2 DEF Good, Errors
  <2>4. QED
    BY <2>1, <2>2, <2>3 DEF RetryReady, KindOf
<1>14. ASSUME End PROVE FALSE
  <2>1. run.stage = "ending" /\ UNCHANGED entries
    BY <1>14 DEF End
  <2>2. QED
    BY <1>3, <2>1 DEF FreshAtEnd
<1>15. QED
  BY <1>4, <1>5, <1>6, <1>7, <1>8, <1>9, <1>10, <1>11, <1>12, <1>13, <1>14 DEF Next

(* Every step keeps all four.                                              *)
LEMMA TurnStep == Shapes /\ TurnInv /\ [Next]_vars => TurnInv'
BY OneAtATimeStep, RunCompactsStep, FreshStep, RetryStep DEF TurnInv

(* At the start nothing compacts and nothing was compacted.                *)
LEMMA TurnInit == Init => TurnInv
<1> SUFFICES ASSUME Init PROVE TurnInv
  OBVIOUS
<1>1. compacting = [o \in Owners |-> NotCompacting] /\ run = Idle /\ Run \in Owners
  BY DEF Init, Owners
<1>2. OneAtATime /\ RunCompacts /\ FreshAtEnd
  BY <1>1 DEF OneAtATime, RunCompacts, FreshAtEnd, NotCompacting, Idle
<1>3. entries # <<>> => Newest = "overflow"
  <2>1. CASE entries = <<User(0), Entry("overflow", 0)>>
    <3>1. Len(entries) = 2 /\ entries[2] = Entry("overflow", 0)
      BY <2>1
    <3>2. QED
      BY <3>1 DEF Newest, Entry
  <2>2. QED
    BY <2>1 DEF Init
<1>4. QED
  BY <1>2, <1>3 DEF TurnInv, RetryReady

(* What the property says of it.                                           *)
LEMMA TurnHolds == TurnInv => RetryFollows
BY DEF TurnInv, RetryReady, RetryFollows, Newest

(* However often a request overflows, the session compacts once for every  *)
(* word of a user or answer of the model, and after each such compaction   *)
(* the retry is on, or on its way, until something is said.                *)
THEOREM RecoveryHolds == Spec => []RecoveryIsSound
<1>1. Shapes /\ BoundInv /\ TurnInv => RecoveryIsSound
  BY BoundHolds, TurnHolds DEF RecoveryIsSound
<1>2. QED
  BY <1>1, ShapesInit, ShapesStep, BoundInit, BoundStep, TurnInit, TurnStep, PTL DEF Spec
=============================================================================
