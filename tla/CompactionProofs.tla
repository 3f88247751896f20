-------------------------- MODULE CompactionProofs --------------------------
(***************************************************************************)
(* Compaction, proved for branches of every length, messages of every size *)
(* and every budget of tokens.                                             *)
(*                                                                         *)
(* That each message is told is not inductive: the summary of a compaction *)
(* is made of what was prepared, maybe long before, so the invariant says  *)
(* what a preparation has to do with the branch that went on growing; and  *)
(* the next compaction begins where the last one kept from, so it says     *)
(* where that is and what lies before it.                                  *)
(*                                                                         *)
(* That requests are well-formed is two facts. What Transform makes of a   *)
(* context is well-formed if each result in it follows the answer it       *)
(* belongs to; the branch is such a context, and so is what a cut leaves   *)
(* of it, because the first entry it keeps is not behind an answer's calls *)
(* and before their results.                                               *)
(***************************************************************************)
EXTENDS Compaction, SequenceLemmas, TLAPS

Preparations ==
  [firstKept : Nat, history : SUBSET Nat, turnPrefix : SUBSET Nat,
   previous : SUBSET Nat, size : Nat]

(* A compaction keeps from an entry before it, and its summary is of       *)
(* entries before that one. *)
KeptBehind ==
  \A c \in Compactions : /\ branch[c].kept \in 1..(c - 1)
                         /\ branch[c].covers \subseteq 1..(branch[c].kept - 1)

(* However far the branch went on, what was prepared is the part of it     *)
(* from where the next compaction begins to the entry it will keep.        *)
PreparationFits ==
  preparation # NotPrepared =>
    /\ preparation.size \in 1..Len(branch)
    /\ preparation.firstKept \in BoundaryStart(branch)..preparation.size
    /\ preparation.history \cup preparation.turnPrefix
         = SpokenOf(branch, BoundaryStart(branch), preparation.firstKept - 1)
    /\ preparation.previous \subseteq 1..(BoundaryStart(branch) - 1)

(* Each entry before that place is in some summary: EverythingWasSummarized *)
(* by where the entries lie. *)
CutIsSummarized ==
  \A i \in SpokenOf(branch, 1, BoundaryStart(branch) - 1) :
    \E c \in Compactions : i \in branch[c].covers

IInv ==
  /\ TypeOK
  /\ preparation \in Preparations
  /\ KeptBehind
  /\ PreparationFits
  /\ CutIsSummarized

-----------------------------------------------------------------------------
(* Largest and smallest.                                                   *)

(* A set of numbers below a bound has a largest one, which is Max. *)
LEMMA MaxOf ==
  ASSUME NEW n \in Nat, NEW S \in SUBSET (0..n), S # {}
  PROVE  Max(S) \in S /\ \A i \in S : i <= Max(S)
<1>1. PICK m \in S : \A j \in S : j <= m
  BY Largest
<1>2. \A j \in S : m >= j
  BY <1>1
<1>3. Max(S) \in S /\ \A j \in S : Max(S) >= j
  BY <1>2, Zenon DEF Max
<1>4. QED
  BY <1>3

(* And a smallest one, which is Min. *)
LEMMA MinOf ==
  ASSUME NEW n \in Nat, NEW S \in SUBSET (0..n), S # {}
  PROVE  Min(S) \in S /\ \A i \in S : Min(S) <= i
<1> DEFINE T == {n - i : i \in S}
<1>1. T \in SUBSET (0..n) /\ T # {}
  <2>1. \A i \in S : n - i \in 0..n
    OBVIOUS
  <2>2. T # {}
    BY Zenon
  <2>3. QED
    BY <2>1, <2>2, Zenon
<1>2. PICK t \in T : \A u \in T : u <= t
  <2> HIDE DEF T
  <2>1. QED
    BY <1>1, Largest
<1>3. PICK m \in S : t = n - m
  BY <1>2
<1>4. \A j \in S : m =< j
  <2> SUFFICES ASSUME NEW j \in S PROVE m =< j
    OBVIOUS
  <2>1. n - j <= n - m
    BY <1>2, <1>3
  <2>2. QED
    BY <2>1
<1>5. QED
  BY <1>4, Zenon DEF Min

-----------------------------------------------------------------------------
(* Branches.                                                               *)

(* A branch has entries at its places. *)
LEMMA BranchType ==
  ASSUME NEW es \in Seq(Entries)
  PROVE  /\ Len(es) \in Nat /\ DOMAIN es = 1..Len(es)
         /\ \A i \in 1..Len(es) : es[i] \in Entries
OBVIOUS

(* An entry has the fields of its type. *)
LEMMA EntryFields ==
  ASSUME NEW e \in Entries
  PROVE  /\ e.kind \in Spoken \cup {"note", "compaction"}
         /\ e.kept \in 0..MaxEntries
         /\ e.covers \in SUBSET (1..MaxEntries)
         /\ e.calls \in SUBSET ((1..MaxEntries) \X (1..MaxCalls))
BY DEF Entries

(* k is where the last compaction of es is, 0 when there is none. *)
IsLastCompaction(es, k) ==
  /\ k \in 0..Len(es)
  /\ k # 0 => es[k].kind = "compaction"
  /\ \A i \in 1..Len(es) : es[i].kind = "compaction" => i <= k

(* There is one such place, and LastCompaction is it. *)
LEMMA LastCompactionIs ==
  ASSUME NEW es \in Seq(Entries), NEW k, IsLastCompaction(es, k)
  PROVE  LastCompaction(es) = k
<1> DEFINE cs == {i \in DOMAIN es : es[i].kind = "compaction"}
<1>1. Len(es) \in Nat /\ DOMAIN es = 1..Len(es)
  BY BranchType
<1>2. cs \in SUBSET (0..Len(es))
  BY <1>1
<1>3. CASE k = 0
  <2>1. cs = {}
    BY <1>1, <1>3 DEF IsLastCompaction
  <2>2. QED
    BY <1>3, <2>1 DEF LastCompaction
<1>4. CASE k # 0
  <2>1. k \in cs /\ \A i \in cs : i <= k
    BY <1>1, <1>4 DEF IsLastCompaction
  <2>2. Max(cs) \in cs /\ \A i \in cs : i <= Max(cs)
    <3> HIDE DEF cs
    <3>1. QED
      BY <1>1, <1>2, <2>1, MaxOf
  <2>3. Max(cs) \in Int /\ k \in Int /\ Max(cs) <= k /\ k <= Max(cs)
    BY <1>2, <2>1, <2>2
  <2>4. Max(cs) = k /\ cs # {}
    BY <2>1, <2>3
  <2>5. QED
    BY <2>4 DEF LastCompaction
<1>5. QED
  BY <1>3, <1>4

(* LastCompaction is such a place. *)
LEMMA LastCompactionFound ==
  ASSUME NEW es \in Seq(Entries)
  PROVE  IsLastCompaction(es, LastCompaction(es))
<1> DEFINE cs == {i \in DOMAIN es : es[i].kind = "compaction"}
<1>1. Len(es) \in Nat /\ DOMAIN es = 1..Len(es)
  BY BranchType
<1>2. cs \in SUBSET (0..Len(es))
  BY <1>1
<1>3. CASE cs = {}
  <2>1. LastCompaction(es) = 0
    BY <1>3 DEF LastCompaction
  <2>2. QED
    BY <1>1, <1>3, <2>1 DEF IsLastCompaction
<1>4. CASE cs # {}
  <2>1. LastCompaction(es) = Max(cs)
    BY <1>4 DEF LastCompaction
  <2>2. Max(cs) \in cs /\ \A i \in cs : i <= Max(cs)
    <3> HIDE DEF cs
    <3>1. QED
      BY <1>1, <1>2, <1>4, MaxOf
  <2>3. QED
    BY <1>1, <2>1, <2>2 DEF IsLastCompaction
<1>5. QED
  BY <1>3, <1>4

(* An entry at the end of a branch. *)
LEMMA Grown ==
  ASSUME NEW es \in Seq(Entries), NEW e \in Entries
  PROVE  /\ Append(es, e) \in Seq(Entries) /\ Len(Append(es, e)) = Len(es) + 1
         /\ \A i \in 1..Len(es) : Append(es, e)[i] = es[i]
         /\ Append(es, e)[Len(es) + 1] = e
OBVIOUS

(* A compaction at the end is the last one. *)
LEMMA LastOfGrown ==
  ASSUME NEW es \in Seq(Entries), NEW e \in Entries
  PROVE  LastCompaction(Append(es, e))
           = IF e.kind = "compaction" THEN Len(es) + 1 ELSE LastCompaction(es)
<1> DEFINE t == Append(es, e)
           k == IF e.kind = "compaction" THEN Len(es) + 1 ELSE LastCompaction(es)
<1>1. /\ t \in Seq(Entries) /\ Len(t) = Len(es) + 1 /\ Len(es) \in Nat
      /\ \A i \in 1..Len(es) : t[i] = es[i]
      /\ t[Len(es) + 1] = e
  BY Grown, BranchType
<1>2. IsLastCompaction(es, LastCompaction(es))
  BY LastCompactionFound
<1> HIDE DEF t
<1>3. CASE e.kind = "compaction"
  <2>1. IsLastCompaction(t, Len(es) + 1)
    BY <1>1, <1>3 DEF IsLastCompaction
  <2>2. QED
    BY <1>1, <1>3, <2>1, LastCompactionIs DEF t
<1>4. CASE e.kind # "compaction"
  <2>1. \A i \in 1..Len(t) : i \in 1..Len(es) \/ i = Len(es) + 1
    BY <1>1
  <2>2. IsLastCompaction(t, LastCompaction(es))
    BY <1>1, <1>2, <1>4, <2>1 DEF IsLastCompaction
  <2>3. QED
    BY <1>1, <1>4, <2>2, LastCompactionIs DEF t
<1>5. QED
  BY <1>3, <1>4

(* What was said in a part of the branch stays what it was. *)
LEMMA SpokenOfGrown ==
  ASSUME NEW es \in Seq(Entries), NEW e \in Entries,
         NEW from \in Nat \ {0}, NEW to \in Int, to <= Len(es)
  PROVE  SpokenOf(Append(es, e), from, to) = SpokenOf(es, from, to)
<1> DEFINE t == Append(es, e)
<1>1. Len(es) \in Nat /\ \A i \in 1..Len(es) : t[i] = es[i]
  BY Grown, BranchType
<1> HIDE DEF t
<1>2. \A i \in from..to : t[i] = es[i]
  BY <1>1
<1>3. SpokenOf(t, from, to) = SpokenOf(es, from, to)
  BY <1>2, Zenon DEF SpokenOf
<1>4. QED
  BY <1>3 DEF t

(* Two parts next to each other. *)
LEMMA SpokenOfTwo ==
  \A es : \A a, b, c \in Int : a <= b /\ b <= c =>
    SpokenOf(es, a, b - 1) \cup SpokenOf(es, b, c - 1) = SpokenOf(es, a, c - 1)
<1> TAKE es
<1> TAKE a, b, c \in Int
<1>1. HAVE a <= b /\ b <= c
<1>2. \A i : i \in a..(c - 1) <=> i \in a..(b - 1) \/ i \in b..(c - 1)
  <2>1. \A i \in Int : a <= i /\ i <= c - 1 <=> (a <= i /\ i <= b - 1) \/ (b <= i /\ i <= c - 1)
    BY <1>1
  <2>2. QED
    BY <2>1
<1>3. QED
  BY <1>2, Zenon DEF SpokenOf

(* What is spoken in a part of the branch lies in it. *)
LEMMA SpokenOfType ==
  ASSUME NEW es, NEW a, NEW b
  PROVE  SpokenOf(es, a, b) \subseteq a..b
BY DEF SpokenOf
-----------------------------------------------------------------------------
(* findCutPoint                                                            *)

(* So do its cut points. *)
LEMMA CutPointsType ==
  ASSUME NEW es \in Seq(Entries), NEW from \in 1..Len(es)
  PROVE  CutPoints(es, from) \in SUBSET (from..Len(es))
BY SpokenOfType, Zenon DEF CutPoints

(* A smallest place, of those between two. *)
LEMMA MinBetween ==
  ASSUME NEW a \in Nat, NEW b \in Nat, NEW S \in SUBSET (a..b), S # {}
  PROVE  Min(S) \in S /\ Min(S) \in a..b
<1>1. S \in SUBSET (0..b)
  OBVIOUS
<1>2. Min(S) \in S
  BY <1>1, MinOf
<1>3. QED
  BY <1>2, Zenon

(* And a largest one. *)
LEMMA MaxBetween ==
  ASSUME NEW a \in Nat, NEW b \in Nat, NEW S \in SUBSET (a..b), S # {}
  PROVE  Max(S) \in S /\ Max(S) \in a..b
<1>1. S \in SUBSET (0..b)
  OBVIOUS
<1>2. Max(S) \in S
  BY <1>1, MaxOf
<1>3. QED
  BY <1>2, Zenon

(* Wherever the budget of tokens ends, the cut is a cut point.             *)
LEMMA BudgetCutIsCutPoint ==
  ASSUME NEW es \in Seq(Entries), NEW from \in 1..Len(es), CutPoints(es, from) # {}
  PROVE  BudgetCut(es, from) \in from..Len(es) /\ BudgetCut(es, from) \in CutPoints(es, from)
<1> DEFINE full == {i \in from..Len(es) : /\ es[i].kind \in Messages
                                          /\ TokensFrom(es, i) >= KeepRecentTokens}
           recent == {i \in CutPoints(es, from) : full # {} /\ i >= Max(full)}
<1>1. Len(es) \in Nat /\ from \in Nat
  BY BranchType
<1>2. CutPoints(es, from) \in SUBSET (from..Len(es))
  BY CutPointsType
<1>3. recent \in SUBSET (from..Len(es)) /\ recent \in SUBSET CutPoints(es, from)
  <2> HIDE DEF full
  <2>1. QED
    BY <1>2, Zenon
<1>4. BudgetCut(es, from) = IF recent = {} THEN Min(CutPoints(es, from)) ELSE Min(recent)
  BY Zenon DEF BudgetCut
<1> HIDE DEF full, recent
<1>5. CASE recent = {}
  <2> DEFINE cuts == CutPoints(es, from)
  <2> HIDE DEF cuts
  <2>1. cuts \in SUBSET (from..Len(es)) /\ cuts # {}
    BY <1>2 DEF cuts
  <2>2. Min(cuts) \in cuts /\ Min(cuts) \in from..Len(es)
    BY <1>1, <2>1, MinBetween
  <2>3. QED
    BY <1>4, <1>5, <2>2, Zenon DEF cuts
<1>6. CASE recent # {}
  <2>1. Min(recent) \in recent /\ Min(recent) \in from..Len(es)
    BY <1>1, <1>3, <1>6, MinBetween
  <2>2. QED
    BY <1>3, <1>4, <1>6, <2>1, Zenon
<1>7. QED
  BY <1>5, <1>6

(* The first entry that is kept lies in the part that is compacted. *)
LEMMA FirstKeptType ==
  ASSUME NEW es \in Seq(Entries), NEW from \in 1..Len(es), CutPoints(es, from) # {}
  PROVE  FirstKept(es, from) \in from..Len(es)
<1> DEFINE cut == BudgetCut(es, from)
           near == {i \in from..cut : \A j \in i..(cut - 1) :
                                        es[j].kind \notin Messages \cup {"compaction"}}
<1>1. Len(es) \in Nat /\ from \in Nat /\ cut \in from..Len(es)
  BY BranchType, BudgetCutIsCutPoint
<1>2. FirstKept(es, from) = Min(near)
  BY Zenon DEF FirstKept
<1> HIDE DEF cut
<1>3. cut \in near /\ near \in SUBSET (from..cut) /\ cut \in Nat
  <2>1. cut..(cut - 1) = {} /\ cut \in from..cut /\ cut \in Nat
    BY <1>1
  <2>2. QED
    BY <2>1, Zenon
<1> HIDE DEF near
<1>4. Min(near) \in from..cut
  BY <1>1, <1>3, MinBetween
<1>5. QED
  BY <1>1, <1>2, <1>4

(* A turn starts there too, or has no start. *)
LEMMA TurnStartType ==
  ASSUME NEW es, NEW from \in Nat, NEW at \in Nat
  PROVE  TurnStart(es, at, from) = 0 \/ TurnStart(es, at, from) \in from..at
<1> DEFINE starts == {i \in from..at : es[i].kind \in {"user", "custom"}}
<1>1. TurnStart(es, at, from) = IF starts = {} THEN 0 ELSE Max(starts)
  BY Zenon DEF TurnStart
<1>2. starts \in SUBSET (from..at)
  BY Zenon
<1> HIDE DEF starts
<1>3. CASE starts # {}
  <2>1. Max(starts) \in from..at
    BY <1>2, <1>3, MaxBetween
  <2>2. QED
    BY <1>1, <1>3, <2>1, Zenon
<1>4. CASE starts = {}
  BY <1>1, <1>4, Zenon
<1>5. QED
  BY <1>3, <1>4

(* The cut lies where the summary is to begin or behind it, and the turn   *)
(* it splits begins between the two. *)
LEMMA CutPointLies ==
  ASSUME NEW es \in Seq(Entries), NEW from \in 1..Len(es)
  PROVE  /\ FindCutPoint(es, from).firstKept \in from..Len(es)
         /\ \/ FindCutPoint(es, from).turnStart = 0
            \/ FindCutPoint(es, from).turnStart \in from..FindCutPoint(es, from).firstKept
<1>1. Len(es) \in Nat /\ from \in Nat /\ from \in from..Len(es)
  BY BranchType
<1>2. CASE CutPoints(es, from) = {}
  <2>1. FindCutPoint(es, from) = [firstKept |-> from, turnStart |-> 0]
    BY <1>2, Zenon DEF FindCutPoint
  <2>2. QED
    BY <1>1, <2>1
<1>3. CASE CutPoints(es, from) # {}
  <2> DEFINE kept == FirstKept(es, from)
             start == IF es[kept].kind = "user" THEN 0 ELSE TurnStart(es, kept, from)
  <2>1. FindCutPoint(es, from) = [firstKept |-> kept, turnStart |-> start]
    BY <1>3, Zenon DEF FindCutPoint
  <2>2. kept \in from..Len(es)
    BY <1>3, FirstKeptType
  <2>3. kept \in Nat
    <3> HIDE DEF kept
    <3>1. QED
      BY <1>1, <2>2
  <2>4. start = 0 \/ start \in from..kept
    <3>1. TurnStart(es, kept, from) = 0 \/ TurnStart(es, kept, from) \in from..kept
      BY <1>1, <2>3, TurnStartType
    <3>2. QED
      BY <3>1, Zenon
  <2> HIDE DEF kept, start
  <2>5. QED
    BY <2>1, <2>2, <2>4
<1>4. QED
  BY <1>2, <1>3

-----------------------------------------------------------------------------
(* prepareCompaction                                                       *)

(* Where the next compaction begins: at an entry before the last one.      *)
LEMMA BoundaryLies ==
  ASSUME TypeOK, KeptBehind, branch # <<>>
  PROVE  /\ BoundaryStart(branch) \in 1..Len(branch)
         /\ LastCompaction(branch) # 0 =>
              /\ LastCompaction(branch) \in Compactions
              /\ BoundaryStart(branch) = branch[LastCompaction(branch)].kept
              /\ BoundaryStart(branch) \in 1..(LastCompaction(branch) - 1)
<1> DEFINE c == LastCompaction(branch)
<1>1. branch \in Seq(Entries) /\ Len(branch) \in Nat /\ Len(branch) # 0
      /\ DOMAIN branch = 1..Len(branch)
  BY BranchType, EmptySeq DEF TypeOK
<1>2. IsLastCompaction(branch, c)
  BY <1>1, LastCompactionFound
<1>3. BoundaryStart(branch) = IF c = 0 THEN 1 ELSE branch[c].kept
  BY Zenon DEF BoundaryStart
<1> HIDE DEF c
<1>4. CASE c = 0
  <2>1. BoundaryStart(branch) = 1 /\ 1 \in 1..Len(branch)
    BY <1>1, <1>3, <1>4
  <2>2. QED
    BY <1>4, <2>1, Zenon DEF c
<1>5. CASE c # 0
  <2>1. c \in 1..Len(branch)
    BY <1>1, <1>2, <1>5 DEF IsLastCompaction
  <2>2. c \in Compactions
    BY <1>1, <1>2, <1>5, <2>1, Zenon DEF IsLastCompaction, Compactions
  <2>3. branch[c].kept \in 1..(c - 1)
    BY <2>2, Zenon DEF KeptBehind
  <2>4. branch[c].kept \in 1..Len(branch)
    BY <1>1, <2>1, <2>3
  <2>5. BoundaryStart(branch) = branch[c].kept
    BY <1>3, <1>5, Zenon
  <2>6. QED
    BY <2>2, <2>3, <2>4, <2>5, Zenon DEF c
<1>6. QED
  BY <1>4, <1>5

(* What is prepared is the branch from where the compaction begins to the  *)
(* entry it keeps, whether a turn is split or not. *)
LEMMA PreparedFits ==
  ASSUME TypeOK, KeptBehind, branch # <<>>, NEW p, p = Prepared(branch)
  PROVE  /\ p \in Preparations
         /\ p.size = Len(branch)
         /\ p.firstKept \in BoundaryStart(branch)..p.size
         /\ p.history \cup p.turnPrefix
              = SpokenOf(branch, BoundaryStart(branch), p.firstKept - 1)
         /\ p.previous \subseteq 1..(BoundaryStart(branch) - 1)
<1> DEFINE from == BoundaryStart(branch)
           cut == FindCutPoint(branch, from)
           last == LastCompaction(branch)
           history == SpokenOf(branch, from, (IF cut.turnStart # 0 THEN cut.turnStart
                                                                  ELSE cut.firstKept) - 1)
           prefix == IF cut.turnStart # 0
                     THEN SpokenOf(branch, cut.turnStart, cut.firstKept - 1) ELSE {}
           previous == IF last = 0 THEN {} ELSE branch[last].covers
<1>1. p = [firstKept |-> cut.firstKept, history |-> history, turnPrefix |-> prefix,
           previous |-> previous, size |-> Len(branch)]
  BY Zenon DEF Prepared
<1>2. /\ branch \in Seq(Entries) /\ Len(branch) \in Nat
      /\ from \in 1..Len(branch) /\ from \in Nat
  <2>1. branch \in Seq(Entries) /\ Len(branch) \in Nat /\ BoundaryStart(branch) \in 1..Len(branch)
    BY BranchType, BoundaryLies DEF TypeOK
  <2>2. BoundaryStart(branch) \in Nat
    BY <2>1
  <2>3. QED
    BY <2>1, <2>2
<1>3. /\ cut.firstKept \in from..Len(branch)
      /\ cut.turnStart = 0 \/ cut.turnStart \in from..cut.firstKept
  BY <1>2, CutPointLies
<1>4. previous \subseteq 1..(from - 1)
  <2>1. CASE last = 0
    BY <2>1, Zenon
  <2>2. CASE last # 0
    <3>1. last \in Compactions /\ from = branch[last].kept
      BY <2>2, BoundaryLies
    <3>2. branch[last].covers \subseteq 1..(branch[last].kept - 1)
      BY <3>1, Zenon DEF KeptBehind
    <3>3. QED
      BY <2>2, <3>1, <3>2, Zenon
  <2>3. QED
    BY <2>1, <2>2
<1> DEFINE kept == cut.firstKept
           start == cut.turnStart
<1>5. /\ kept \in from..Len(branch) /\ (start = 0 \/ start \in from..kept)
      /\ history = SpokenOf(branch, from, (IF start # 0 THEN start ELSE kept) - 1)
      /\ prefix = IF start # 0 THEN SpokenOf(branch, start, kept - 1) ELSE {}
  BY <1>3, Zenon
<1>6. p = [firstKept |-> kept, history |-> history, turnPrefix |-> prefix,
           previous |-> previous, size |-> Len(branch)]
  BY <1>1, Zenon
<1>15. from \in Nat /\ Len(branch) \in Nat
  BY <1>2
<1> HIDE DEF previous, history, prefix, cut, kept, start
<1>7. history \cup prefix = SpokenOf(branch, from, kept - 1)
  <2>1. CASE start = 0
    BY <1>5, <2>1, Zenon
  <2>2. CASE start # 0
    <3>1. start \in Int /\ kept \in Int /\ from \in Int /\ from <= start /\ start <= kept
      <4> HIDE DEF from
      <4>1. QED
        BY <1>15, <1>5, <2>2
    <3>2. SpokenOf(branch, from, start - 1) \cup SpokenOf(branch, start, kept - 1)
            = SpokenOf(branch, from, kept - 1)
      <4>1. \A a, b, c \in Int : a <= b /\ b <= c =>
              SpokenOf(branch, a, b - 1) \cup SpokenOf(branch, b, c - 1)
                = SpokenOf(branch, a, c - 1)
        BY SpokenOfTwo, Zenon
      <4>2. QED
        BY <3>1, <4>1, Zenon
    <3>3. QED
      BY <1>5, <2>2, <3>2, Zenon
  <2>3. QED
    BY <2>1, <2>2
<1>8. history \cup prefix \in SUBSET Nat /\ previous \in SUBSET Nat /\ kept \in Nat
  <2> HIDE DEF from
  <2>1. history \cup prefix \subseteq from..(kept - 1)
    BY <1>7, SpokenOfType, Zenon
  <2>2. kept \in Nat
    BY <1>15, <1>5
  <2>3. from..(kept - 1) \subseteq Nat /\ 1..(from - 1) \subseteq Nat
    BY <1>15, <2>2
  <2>4. QED
    BY <1>4, <2>1, <2>2, <2>3, Zenon
<1>9. p \in Preparations
  <2>1. history \in SUBSET Nat /\ prefix \in SUBSET Nat
    BY <1>8, Zenon
  <2>2. QED
    BY <1>15, <1>6, <1>8, <2>1 DEF Preparations
<1>10. /\ p.firstKept = kept /\ p.history = history /\ p.turnPrefix = prefix
       /\ p.previous = previous /\ p.size = Len(branch)
  BY <1>6
<1>11. QED
  BY <1>4, <1>5, <1>7, <1>9, <1>10, Zenon
-----------------------------------------------------------------------------
(* The steps.                                                              *)

(* An entry the session appends is of its type. *)
LEMMA EntryType ==
  ASSUME NEW kind \in Spoken \cup {"note"}, NEW size \in Nat,
         NEW calls \in SUBSET ((1..MaxEntries) \X (1..MaxCalls))
  PROVE  Entry(kind, size, calls) \in Entries /\ Entry(kind, size, calls).kind # "compaction"
<1>1. /\ Entry(kind, size, calls) =
           [kind |-> kind, size |-> size, calls |-> calls, kept |-> 0, covers |-> {}]
      /\ 0 \in 0..MaxEntries /\ kind \in Spoken \cup {"note", "compaction"}
  BY CompactionAssumption DEF Entry
<1>2. kind # "compaction"
  BY DEF Spoken, Messages
<1>3. QED
  BY <1>1, <1>2 DEF Entries

(* A compaction entry is what it was made of. *)
LEMMA CompactionEntryType ==
  ASSUME NEW kept \in 0..MaxEntries, NEW covers \in SUBSET (1..MaxEntries)
  PROVE  /\ CompactionEntry(kept, covers) \in Entries
         /\ CompactionEntry(kept, covers).kind = "compaction"
         /\ CompactionEntry(kept, covers).kept = kept
         /\ CompactionEntry(kept, covers).covers = covers
<1>1. CompactionEntry(kept, covers) =
        [kind |-> "compaction", size |-> 0, calls |-> {}, kept |-> kept, covers |-> covers]
  <2> DEFINE r == [kind |-> "compaction", size |-> 0, calls |-> {}, kept |-> 0, covers |-> {}]
  <2>1. Entry("compaction", 0, {}) = r
    BY DEF Entry
  <2>2. CompactionEntry(kept, covers) = [[r EXCEPT !.kept = kept] EXCEPT !.covers = covers]
    BY <2>1 DEF CompactionEntry
  <2>3. [r EXCEPT !.kept = kept] =
          [kind |-> "compaction", size |-> 0, calls |-> {}, kept |-> kept, covers |-> {}]
    OBVIOUS
  <2>4. QED
    BY <2>2, <2>3
<1>2. 0 \in Nat /\ {} \in SUBSET ((1..MaxEntries) \X (1..MaxCalls))
  OBVIOUS
<1>3. QED
  BY <1>1, <1>2 DEF Entries

(* Calls are owed. *)
LEMMA OwedType ==
  ASSUME TypeOK
  PROVE  Owed \in SUBSET ((1..MaxEntries) \X (1..MaxCalls))
<1> DEFINE answers == {i \in DOMAIN branch : branch[i].kind = "answer"}
           last == Max(answers)
           behind == {branch[i] : i \in (last + 1)..Len(branch)}
<1>1. Owed = IF answers = {} \/ \E e \in behind : e.kind \in Spoken \ {"result"}
             THEN {} ELSE branch[last].calls \ UNION {e.calls : e \in behind}
  BY Zenon DEF Owed
<1>2. Len(branch) \in Nat /\ DOMAIN branch = 1..Len(branch)
      /\ \A i \in 1..Len(branch) : branch[i] \in Entries
  BY BranchType DEF TypeOK
<1> HIDE DEF behind
<1>3. CASE answers = {}
  BY <1>1, <1>3, Zenon
<1>4. CASE answers # {}
  <2>1. answers \in SUBSET (1..Len(branch))
    BY <1>2
  <2> HIDE DEF answers
  <2>2. last \in 1..Len(branch)
    BY <1>2, <1>4, <2>1, MaxBetween
  <2>3. branch[last].calls \in SUBSET ((1..MaxEntries) \X (1..MaxCalls))
    BY <1>2, <2>2, EntryFields, Zenon
  <2> HIDE DEF last
  <2>4. QED
    BY <1>1, <2>3, Zenon
<1>5. QED
  BY <1>3, <1>4

(* A call is owed first: the batch is in the order of the calls.           *)
LEMMA FirstOwed ==
  ASSUME TypeOK, Owed # {}
  PROVE  (CHOOSE c \in Owed : \A d \in Owed : c[2] <= d[2]) \in Owed
<1> DEFINE S == {c[2] : c \in Owed}
<1>1. Owed \in SUBSET ((1..MaxEntries) \X (1..MaxCalls)) /\ MaxCalls \in Nat
  BY OwedType, CompactionAssumption
<1>2. \A c \in Owed : c[2] \in 1..MaxCalls
  BY <1>1
<1>3. S \in SUBSET (1..MaxCalls) /\ S # {}
  BY <1>2, Zenon
<1>4. S \in SUBSET (0..MaxCalls)
  <2> HIDE DEF S
  <2>1. QED
    BY <1>1, <1>3
<1>5. Min(S) \in S /\ \A i \in S : Min(S) <= i
  <2> HIDE DEF S
  <2>1. QED
    BY <1>1, <1>3, <1>4, MinOf
<1>6. PICK c \in Owed : c[2] = Min(S)
  BY <1>5, Zenon
<1>7. \A d \in Owed : c[2] <= d[2]
  BY <1>5, <1>6, Zenon
<1>8. QED
  BY <1>7, Zenon

(* A branch that grows by an entry which is no compaction: where the next  *)
(* compaction begins and what lies before it stay. *)
LEMMA GrowthKeepsInv ==
  ASSUME IInv, NEW e \in Entries, e.kind # "compaction", Add(e), UNCHANGED preparation
  PROVE  IInv'
<1> DEFINE n == Len(branch)
           last == LastCompaction(branch)
           from == BoundaryStart(branch)
<1>1. /\ branch \in Seq(Entries) /\ n \in Nat /\ DOMAIN branch = 1..n /\ n < MaxEntries
      /\ branch' = Append(branch, e) /\ preparation' = preparation
  BY BranchType DEF IInv, TypeOK, Add
<1>2. /\ branch' \in Seq(Entries) /\ Len(branch') = n + 1
      /\ \A i \in 1..n : branch'[i] = branch[i]
      /\ branch'[n + 1] = e
  BY <1>1, Grown
<1>3. DOMAIN branch' = 1..(n + 1)
  BY <1>2, BranchType
<1>4. LastCompaction(branch') = last /\ IsLastCompaction(branch, last)
  BY <1>1, LastOfGrown, LastCompactionFound
<1>5. last = 0 \/ last \in 1..n
  BY <1>1, <1>4 DEF IsLastCompaction
<1>6. BoundaryStart(branch') = from
  <2>1. CASE last = 0
    BY <1>4, <2>1, Zenon DEF BoundaryStart
  <2>2. CASE last # 0
    <3>1. branch'[last] = branch[last]
      BY <1>2, <1>5, <2>2, Zenon
    <3>2. QED
      BY <1>4, <2>2, <3>1, Zenon DEF BoundaryStart
  <2>3. QED
    BY <2>1, <2>2
<1>7. Compactions' = Compactions
  <2>1. \A i : i \in Compactions' <=> i \in Compactions
    <3>1. \A i : i \in 1..(n + 1) <=> i \in 1..n \/ i = n + 1
      BY <1>1
    <3>2. QED
      BY <1>1, <1>2, <1>3, <3>1, Zenon DEF Compactions
  <2>2. QED
    BY <2>1, Zenon
<1>8. \A c \in Compactions : c \in 1..n /\ branch'[c] = branch[c]
  BY <1>1, <1>2, Zenon DEF Compactions
<1> HIDE DEF n
<1>9. from \in Nat \ {0} /\ from - 1 <= n
  <2>1. CASE branch = <<>>
    <3>1. n = 0 /\ last = 0
      BY <1>1, <1>5, <2>1 DEF n
    <3>2. from = 1
      BY <3>1, Zenon DEF BoundaryStart
    <3>3. QED
      BY <3>1, <3>2
  <2>2. CASE branch # <<>>
    <3>1. from \in 1..n
      BY <2>2, BoundaryLies, Zenon DEF IInv, n
    <3> HIDE DEF from
    <3>2. QED
      BY <1>1, <3>1
  <2>3. QED
    BY <2>1, <2>2
<1> HIDE DEF from, last
<1>10. \A a \in Nat \ {0} : \A b \in Int : b <= n =>
         SpokenOf(branch', a, b) = SpokenOf(branch, a, b)
  BY <1>1, SpokenOfGrown DEF n
<1>11. TypeOK'
  <2>1. n + 1 <= MaxEntries /\ \A x \in Int : x <= n => x <= n + 1
    BY <1>1, CompactionAssumption
  <2>2. preparation.size \in Int /\ preparation.size <= n
    BY DEF IInv, TypeOK, Preparations, n
  <2>3. QED
    BY <1>1, <1>2, <2>1, <2>2, Zenon DEF IInv, TypeOK
<1>12. KeptBehind'
  BY <1>7, <1>8, Zenon DEF IInv, KeptBehind
<1>13. PreparationFits'
  <2> SUFFICES ASSUME preparation # NotPrepared
               PROVE  /\ preparation.size \in 1..(n + 1)
                      /\ preparation.firstKept \in from..preparation.size
                      /\ preparation.history \cup preparation.turnPrefix
                           = SpokenOf(branch', from, preparation.firstKept - 1)
                      /\ preparation.previous \subseteq 1..(from - 1)
    BY <1>1, <1>2, <1>6, Zenon DEF PreparationFits
  <2> DEFINE size == preparation.size
             kept == preparation.firstKept
  <2>1. /\ size \in 1..n /\ kept \in from..size
        /\ preparation.history \cup preparation.turnPrefix = SpokenOf(branch, from, kept - 1)
        /\ preparation.previous \subseteq 1..(from - 1)
    BY Zenon DEF IInv, PreparationFits, from, n
  <2> HIDE DEF size, kept
  <2>2. size \in 1..(n + 1) /\ kept - 1 \in Int /\ kept - 1 <= n
    BY <1>1, <1>9, <2>1
  <2>3. SpokenOf(branch', from, kept - 1) = SpokenOf(branch, from, kept - 1)
    BY <1>9, <1>10, <2>2, Zenon
  <2>4. QED
    BY <2>1, <2>2, <2>3, Zenon DEF size, kept
<1>14. CutIsSummarized'
  <2>1. from - 1 \in Int /\ from - 1 <= n /\ 1 \in Nat \ {0}
    BY <1>9
  <2>2. SpokenOf(branch', 1, from - 1) = SpokenOf(branch, 1, from - 1)
    BY <1>10, <2>1, Zenon
  <2>3. \A i \in SpokenOf(branch, 1, from - 1) : \E c \in Compactions : i \in branch[c].covers
    BY Zenon DEF IInv, CutIsSummarized, from
  <2>4. QED
    BY <1>6, <1>7, <1>8, <2>2, <2>3, Zenon DEF CutIsSummarized
<1>15. QED
  BY <1>1, <1>11, <1>12, <1>13, <1>14, Zenon DEF IInv

(* What a preparation becomes: the compaction keeps from an entry of the   *)
(* branch, and its summary is of all that the cut takes out of the context *)
(* and the one before had not.                                             *)
LEMMA CompactionKeepsInv == IInv /\ AppendCompaction => IInv'
<1> SUFFICES ASSUME IInv, AppendCompaction PROVE IInv'
  OBVIOUS
<1> DEFINE n == Len(branch)
           from == BoundaryStart(branch)
           kept == preparation.firstKept
           summary == Summary(preparation)
           e == CompactionEntry(kept, summary)
<1>1. /\ branch \in Seq(Entries) /\ n \in Nat /\ DOMAIN branch = 1..n /\ n < MaxEntries
      /\ branch' = Append(branch, e) /\ preparation' = NotPrepared
      /\ preparation # NotPrepared
  BY BranchType DEF IInv, TypeOK, AppendCompaction, Add
<1>2. /\ preparation.size \in 1..n /\ kept \in from..preparation.size
      /\ preparation.history \cup preparation.turnPrefix = SpokenOf(branch, from, kept - 1)
      /\ preparation.previous \subseteq 1..(from - 1)
  BY <1>1, Zenon DEF IInv, PreparationFits
<1>3. from \in 1..n
  <2>1. branch # <<>>
    BY <1>1, <1>2
  <2>2. QED
    BY <2>1, BoundaryLies, Zenon DEF IInv
<1>4. /\ SpokenOf(branch, from, kept - 1) \subseteq summary
      /\ summary \subseteq (1..(from - 1)) \cup SpokenOf(branch, from, kept - 1)
  <2>1. /\ preparation.history \cup preparation.turnPrefix \subseteq summary
        /\ summary \subseteq preparation.previous
                         \cup (preparation.history \cup preparation.turnPrefix)
    <3>1. CASE preparation.turnPrefix # {} /\ preparation.history = {}
      <4>1. summary = preparation.turnPrefix
        BY <3>1, Zenon DEF Summary
      <4>2. QED
        BY <3>1, <4>1, Zenon
    <3>2. CASE ~(preparation.turnPrefix # {} /\ preparation.history = {})
      <4>1. summary = preparation.previous \cup preparation.history \cup preparation.turnPrefix
        BY <3>2, Zenon DEF Summary
      <4>2. QED
        BY <4>1, Zenon
    <3>3. QED
      BY <3>1, <3>2
  <2> HIDE DEF summary, from, kept
  <2>2. QED
    BY <1>2, <2>1, Zenon
<1> HIDE DEF from
<1>5. kept \in 1..n /\ kept \in Nat /\ from \in Nat /\ from <= kept
  <2> DEFINE size == preparation.size
  <2>1. size \in 1..n /\ kept \in from..size
    BY <1>2
  <2> HIDE DEF size, kept, n
  <2>2. QED
    BY <1>1, <1>3, <2>1
<1>6. summary \subseteq 1..(kept - 1)
  <2>1. (1..(from - 1)) \subseteq 1..(kept - 1) /\ (from..(kept - 1)) \subseteq 1..(kept - 1)
    <3> HIDE DEF kept, n
    <3>1. QED
      BY <1>1, <1>3, <1>5
  <2>2. SpokenOf(branch, from, kept - 1) \subseteq from..(kept - 1)
    BY SpokenOfType
  <2> HIDE DEF summary, kept
  <2>3. QED
    BY <1>4, <2>1, <2>2, Zenon
<1>7. e \in Entries /\ e.kind = "compaction" /\ e.kept = kept /\ e.covers = summary
  <2>1. kept \in 0..MaxEntries /\ 1..(kept - 1) \subseteq 1..MaxEntries
    <3> HIDE DEF kept, n
    <3>1. QED
      BY <1>1, <1>5, CompactionAssumption
  <2>2. summary \in SUBSET (1..MaxEntries)
    BY <1>6, <2>1, Zenon
  <2> HIDE DEF kept, summary
  <2>3. QED
    BY <2>1, <2>2, CompactionEntryType DEF e
<1> HIDE DEF e
<1>8. /\ branch' \in Seq(Entries) /\ Len(branch') = n + 1
      /\ \A i \in 1..n : branch'[i] = branch[i]
      /\ branch'[n + 1] = e
  BY <1>1, <1>7, Grown
<1>9. DOMAIN branch' = 1..(n + 1)
  BY <1>8, BranchType
<1>10. LastCompaction(branch') = n + 1
  BY <1>1, <1>7, LastOfGrown
<1>11. BoundaryStart(branch') = kept
  <2>1. LastCompaction(branch') # 0
    BY <1>1, <1>10
  <2>2. QED
    BY <1>7, <1>8, <1>10, <2>1, Zenon DEF BoundaryStart
<1>12. Compactions' = Compactions \cup {n + 1}
  <2>1. \A i : i \in 1..(n + 1) <=> i \in 1..n \/ i = n + 1
    BY <1>1
  <2>2. \A i : i \in Compactions' <=> i \in Compactions \/ i = n + 1
    BY <1>1, <1>7, <1>8, <1>9, <2>1, Zenon DEF Compactions
  <2>3. QED
    BY <2>2, Zenon
<1>13. \A c \in Compactions : c \in 1..n /\ branch'[c] = branch[c]
  BY <1>1, <1>8, Zenon DEF Compactions
<1> HIDE DEF kept, summary
<1>14. KeptBehind'
  <2>1. (n + 1) - 1 = n
    BY <1>1
  <2>2. branch'[n + 1].kept \in 1..((n + 1) - 1)
    BY <1>5, <1>7, <1>8, <2>1, Zenon
  <2>3. branch'[n + 1].covers \subseteq 1..(branch'[n + 1].kept - 1)
    BY <1>6, <1>7, <1>8, Zenon
  <2>4. QED
    BY <1>12, <1>13, <2>2, <2>3, Zenon DEF IInv, KeptBehind
<1>15. CutIsSummarized'
  <2>1. SpokenOf(branch, 1, from - 1) \cup SpokenOf(branch, from, kept - 1)
          = SpokenOf(branch, 1, kept - 1)
    <3>1. 1 \in Int /\ from \in Int /\ kept \in Int /\ 1 <= from /\ from <= kept
      BY <1>1, <1>3, <1>5
    <3>2. \A a, b, c \in Int : a <= b /\ b <= c =>
            SpokenOf(branch, a, b - 1) \cup SpokenOf(branch, b, c - 1)
              = SpokenOf(branch, a, c - 1)
      BY SpokenOfTwo, Zenon
    <3>3. QED
      BY <3>1, <3>2, Zenon
  <2>2. SpokenOf(branch', 1, kept - 1) = SpokenOf(branch, 1, kept - 1)
    <3>1. 1 \in Nat \ {0} /\ kept - 1 \in Int /\ kept - 1 <= n
      BY <1>1, <1>5
    <3>2. QED
      BY <1>1, <1>7, <3>1, SpokenOfGrown
  <2>3. \A i \in SpokenOf(branch, 1, from - 1) : \E c \in Compactions : i \in branch[c].covers
    BY Zenon DEF IInv, CutIsSummarized, from
  <2>4. \A i \in SpokenOf(branch, from, kept - 1) : i \in branch'[n + 1].covers
    BY <1>4, <1>7, <1>8, Zenon
  <2>5. ASSUME NEW i \in SpokenOf(branch', 1, kept - 1)
        PROVE  \E c \in Compactions' : i \in branch'[c].covers
    <3>1. CASE i \in SpokenOf(branch, 1, from - 1)
      BY <1>12, <1>13, <2>3, <3>1, Zenon
    <3>2. CASE i \in SpokenOf(branch, from, kept - 1)
      BY <1>12, <2>4, <3>2, Zenon
    <3>3. QED
      BY <2>1, <2>2, <2>5, <3>1, <3>2, Zenon
  <2>6. QED
    BY <1>11, <2>5, Zenon DEF CutIsSummarized
<1>16. preparation' \in Preparations /\ preparation'.size = 0
  BY <1>1 DEF Preparations, NotPrepared
<1>17. TypeOK'
  <2>1. n + 1 <= MaxEntries /\ 0 <= n + 1
    BY <1>1, CompactionAssumption
  <2>2. QED
    BY <1>1, <1>8, <1>16, <2>1, Zenon DEF TypeOK
<1>18. PreparationFits'
  BY <1>1, Zenon DEF PreparationFits
<1>19. QED
  BY <1>14, <1>15, <1>16, <1>17, <1>18, Zenon DEF IInv

(* A preparation fits the branch it is made of. *)
LEMMA PrepareKeepsInv == IInv /\ PrepareCompaction => IInv'
<1> SUFFICES ASSUME IInv, PrepareCompaction PROVE IInv'
  OBVIOUS
<1>1. branch' = branch /\ branch # <<>> /\ preparation' = Prepared(branch)
  BY DEF PrepareCompaction
<1>2. Len(branch) \in Nat
  BY BranchType DEF IInv, TypeOK
<1> DEFINE p == Prepared(branch)
<1>3. /\ p \in Preparations
      /\ p.size = Len(branch)
      /\ p.firstKept \in BoundaryStart(branch)..p.size
      /\ p.history \cup p.turnPrefix = SpokenOf(branch, BoundaryStart(branch), p.firstKept - 1)
      /\ p.previous \subseteq 1..(BoundaryStart(branch) - 1)
  BY <1>1, PreparedFits, Zenon DEF IInv
<1>4. BoundaryStart(branch) \in 1..Len(branch)
  BY <1>1, BoundaryLies, Zenon DEF IInv
<1> HIDE DEF p
<1>5. preparation' = p
  BY <1>1 DEF p
<1>6. p.size \in 1..Len(branch) /\ p.size <= Len(branch) /\ p.firstKept \in 1..p.size
  <2> DEFINE from == BoundaryStart(branch)
             k == p.firstKept
  <2>1. from \in 1..Len(branch) /\ k \in from..Len(branch)
    BY <1>3, <1>4, Zenon
  <2> HIDE DEF from, k
  <2>2. Len(branch) \in 1..Len(branch) /\ Len(branch) <= Len(branch) /\ k \in 1..Len(branch)
    BY <1>2, <2>1
  <2>3. QED
    BY <1>3, <2>2, Zenon DEF k
<1>7. TypeOK' /\ KeptBehind' /\ CutIsSummarized'
  <2>1. TypeOK'
    BY <1>1, <1>5, <1>6, Zenon DEF IInv, TypeOK
  <2>2. KeptBehind'
    BY <1>1, Zenon DEF IInv, KeptBehind, Compactions
  <2>3. CutIsSummarized'
    BY <1>1, Zenon DEF IInv, CutIsSummarized, Compactions
  <2>4. QED
    BY <2>1, <2>2, <2>3
<1>8. PreparationFits'
  BY <1>1, <1>3, <1>5, <1>6, Zenon DEF PreparationFits
<1>9. QED
  BY <1>3, <1>5, <1>7, <1>8, Zenon DEF IInv

(* Without a summary nothing changes. *)
LEMMA FailureKeepsInv == IInv /\ CompactionFails => IInv'
<1> SUFFICES ASSUME IInv, CompactionFails PROVE IInv'
  OBVIOUS
<1>1. branch' = branch /\ preparation' = NotPrepared
  BY DEF CompactionFails
<1>2. preparation' \in Preparations /\ preparation'.size = 0
  BY <1>1 DEF Preparations, NotPrepared
<1>3. 0 <= Len(branch)
  BY BranchType DEF IInv, TypeOK
<1>4. TypeOK'
  BY <1>1, <1>2, <1>3, Zenon DEF IInv, TypeOK
<1>5. KeptBehind'
  BY <1>1, Zenon DEF IInv, KeptBehind, Compactions
<1>6. CutIsSummarized'
  BY <1>1, Zenon DEF IInv, CutIsSummarized, Compactions
<1>7. PreparationFits'
  BY <1>1, Zenon DEF PreparationFits
<1>8. QED
  BY <1>2, <1>4, <1>5, <1>6, <1>7, Zenon DEF IInv

(* The invariant holds of an empty branch, *)
LEMMA InvInit == Init => IInv
<1> SUFFICES ASSUME Init PROVE IInv
  OBVIOUS
<1>1. branch = <<>> /\ preparation = NotPrepared
  BY DEF Init
<1>2. branch \in Seq(Entries) /\ Len(branch) = 0 /\ DOMAIN branch = {}
  BY <1>1
<1>3. Compactions = {} /\ LastCompaction(branch) = 0
  BY <1>2, Zenon DEF Compactions, LastCompaction
<1>4. preparation \in Preparations /\ preparation.size = 0
  BY <1>1 DEF Preparations, NotPrepared
<1>5. TypeOK
  BY <1>1, <1>2, <1>4, CompactionAssumption DEF TypeOK
<1>6. BoundaryStart(branch) = 1
  BY <1>3, Zenon DEF BoundaryStart
<1>7. SpokenOf(branch, 1, 1 - 1) = {}
  BY DEF SpokenOf
<1>8. CutIsSummarized
  BY <1>6, <1>7, Zenon DEF CutIsSummarized
<1>9. KeptBehind /\ PreparationFits
  BY <1>1, <1>3, Zenon DEF KeptBehind, PreparationFits
<1>10. QED
  BY <1>4, <1>5, <1>8, <1>9 DEF IInv

(* What the sessions say, one action after the other.                      *)
LEMMA SpeechKeepsInv ==
  IInv /\ (Prompt \/ Answer \/ FailedAnswer \/ Result \/ Custom \/ Note) => IInv'
<1> SUFFICES ASSUME IInv, Prompt \/ Answer \/ FailedAnswer \/ Result \/ Custom \/ Note
             PROVE  IInv'
  OBVIOUS
<1> DEFINE AllCalls == SUBSET ((1..MaxEntries) \X (1..MaxCalls))
<1>1. ASSUME NEW kind \in Spoken \cup {"note"}, NEW size \in Nat, NEW calls \in AllCalls,
             Speak(Entry(kind, size, calls))
      PROVE  IInv'
  <2>1. Entry(kind, size, calls) \in Entries /\ Entry(kind, size, calls).kind # "compaction"
    BY EntryType
  <2>2. Add(Entry(kind, size, calls)) /\ UNCHANGED preparation
    BY <1>1, Zenon DEF Speak
  <2> DEFINE e == Entry(kind, size, calls)
  <2> HIDE DEF e
  <2>3. e \in Entries /\ e.kind # "compaction" /\ Add(e) /\ UNCHANGED preparation
    BY <2>1, <2>2 DEF e
  <2>4. QED
    BY <2>3, GrowthKeepsInv
<1>2. /\ MaxEntries \in Nat /\ MaxCalls \in Nat \ {0} /\ 0 \in Nat /\ {} \in AllCalls
      /\ \A role \in Messages : SizesOf[role] \subseteq Nat
      /\ {"user", "answer", "failed", "result", "custom", "note"} \subseteq Spoken \cup {"note"}
  BY CompactionAssumption DEF Spoken, Messages
<1>3. Len(branch) + 1 \in 1..MaxEntries \/ ~(Len(branch) < MaxEntries)
  <2>1. Len(branch) \in Nat
    BY BranchType DEF IInv, TypeOK
  <2>2. QED
    BY <1>2, <2>1
<1>4. CASE Prompt
  <2>1. PICK size \in SizesOf["user"] : Speak(Entry("user", size, {}))
    BY <1>4, Zenon DEF Prompt
  <2>2. size \in Nat
    BY <1>2 DEF Messages
  <2>3. QED
    BY <1>1, <1>2, <2>1, <2>2, Zenon
<1>5. CASE Answer
  <2>1. PICK size \in SizesOf["answer"], k \in 0..MaxCalls :
          Speak(Entry("answer", size, {<<Len(branch) + 1, c>> : c \in 1..k}))
    BY <1>5, Zenon DEF Answer
  <2>2. size \in Nat /\ 1..k \subseteq 1..MaxCalls
    BY <1>2 DEF Messages
  <2>3. Len(branch) + 1 \in 1..MaxEntries
    BY <1>3, <2>1, Zenon DEF Speak, Add
  <2>4. {<<Len(branch) + 1, c>> : c \in 1..k} \in AllCalls
    <3>1. \A c \in 1..k : <<Len(branch) + 1, c>> \in (1..MaxEntries) \X (1..MaxCalls)
      <4>1. \A i \in 1..MaxEntries, c \in 1..MaxCalls :
              <<i, c>> \in (1..MaxEntries) \X (1..MaxCalls)
        OBVIOUS
      <4>2. QED
        BY <2>2, <2>3, <4>1, Zenon
    <3>2. QED
      BY <3>1, Zenon
  <2>5. QED
    BY <1>1, <1>2, <2>1, <2>2, <2>4, Zenon
<1>6. CASE FailedAnswer
  <2>1. PICK size \in SizesOf["failed"] : Speak(Entry("failed", size, {<<Len(branch) + 1, 1>>}))
    BY <1>6, Zenon DEF FailedAnswer
  <2>2. size \in Nat /\ 1 \in 1..MaxCalls
    BY <1>2 DEF Messages
  <2>3. Len(branch) + 1 \in 1..MaxEntries
    BY <1>3, <2>1, Zenon DEF Speak, Add
  <2>4. {<<Len(branch) + 1, 1>>} \in AllCalls
    <3>1. \A i \in 1..MaxEntries : <<i, 1>> \in (1..MaxEntries) \X (1..MaxCalls)
      BY <2>2
    <3>2. QED
      BY <2>3, <3>1, Zenon
  <2>5. QED
    BY <1>1, <1>2, <2>1, <2>2, <2>4, Zenon
<1>7. CASE Result
  <2> DEFINE c == CHOOSE c \in Owed : \A d \in Owed : c[2] <= d[2]
  <2>1. PICK size \in SizesOf["result"] : Speak(Entry("result", size, {c}))
    BY <1>7, Zenon DEF Result
  <2>2. size \in Nat
    BY <1>2 DEF Messages
  <2>3. c \in Owed
    BY <1>7, FirstOwed, Zenon DEF Result, IInv
  <2>4. Owed \in AllCalls
    BY OwedType DEF IInv
  <2> HIDE DEF c
  <2>5. {c} \in AllCalls
    BY <2>3, <2>4, Zenon
  <2>6. QED
    BY <1>1, <1>2, <2>1, <2>2, <2>5, Zenon
<1>8. CASE Custom
  <2>1. Speak(Entry("custom", 0, {}))
    BY <1>8, Zenon DEF Custom
  <2>2. QED
    BY <1>1, <1>2, <2>1, Zenon
<1>9. CASE Note
  <2>1. Speak(Entry("note", 0, {}))
    BY <1>9, Zenon DEF Note
  <2>2. QED
    BY <1>1, <1>2, <2>1, Zenon
<1>10. QED
  BY <1>4, <1>5, <1>6, <1>7, <1>8, <1>9

(* and every step keeps it. *)
LEMMA InvStep == IInv /\ [Next]_vars => IInv'
<1> SUFFICES ASSUME IInv, [Next]_vars PROVE IInv'
  OBVIOUS
<1>1. CASE Prompt \/ Answer \/ FailedAnswer \/ Result \/ Custom \/ Note
  BY <1>1, SpeechKeepsInv
<1>2. CASE PrepareCompaction
  BY <1>2, PrepareKeepsInv
<1>3. CASE AppendCompaction
  BY <1>3, CompactionKeepsInv
<1>4. CASE CompactionFails
  BY <1>4, FailureKeepsInv
<1>5. CASE UNCHANGED vars
  <2>1. branch' = branch /\ preparation' = preparation
    BY <1>5 DEF vars
  <2>2. TypeOK' /\ preparation' \in Preparations
    BY <2>1, Zenon DEF IInv, TypeOK
  <2>3. KeptBehind'
    BY <2>1, Zenon DEF IInv, KeptBehind, Compactions
  <2>4. CutIsSummarized'
    BY <2>1, Zenon DEF IInv, CutIsSummarized, Compactions
  <2>5. PreparationFits'
    BY <2>1, Zenon DEF IInv, PreparationFits
  <2>6. QED
    BY <2>2, <2>3, <2>4, <2>5, Zenon DEF IInv
<1>6. QED
  BY <1>1, <1>2, <1>3, <1>4, <1>5, Zenon DEF Next

(* The branch holds entries of the kinds the session writes, and what was  *)
(* prepared keeps from an entry the branch had then.                       *)
THEOREM TypeCorrect == Spec => []TypeOK
<1>1. IInv => TypeOK
  BY DEF IInv
<1>2. QED
  BY InvInit, InvStep, <1>1, PTL DEF Spec

-----------------------------------------------------------------------------
(* The context leaves out what lies before the entry the last compaction   *)
(* kept from, and nothing else.                                            *)
LEMMA HiddenLiesBefore ==
  ASSUME IInv
  PROVE  SpokenOf(branch, 1, Len(branch)) \ Visible
           \subseteq SpokenOf(branch, 1, BoundaryStart(branch) - 1)
<1> DEFINE n == Len(branch)
           c == LastCompaction(branch)
<1>1. branch \in Seq(Entries) /\ n \in Nat
  BY BranchType DEF IInv, TypeOK
<1>2. IsLastCompaction(branch, c)
  BY <1>1, LastCompactionFound
<1>3. CASE c = 0
  <2>1. Visible = SpokenOf(branch, 1, Len(branch))
    BY <1>3, Zenon DEF Visible
  <2>2. QED
    BY <2>1, Zenon
<1>4. CASE c # 0
  <2>1. Visible = SpokenOf(branch, branch[c].kept, c - 1) \cup SpokenOf(branch, c + 1, n)
    BY <1>4, Zenon DEF Visible
  <2>2. branch[c].kind = "compaction" /\ c \in 1..n
    BY <1>1, <1>2, <1>4 DEF IsLastCompaction
  <2>3. branch # <<>>
    BY <1>1, <2>2
  <2> DEFINE from == BoundaryStart(branch)
  <2>4. from = branch[c].kept /\ from \in 1..(c - 1)
    BY <1>4, <2>3, BoundaryLies DEF IInv
  <2>5. "compaction" \notin Spoken
    BY DEF Spoken, Messages
  <2> HIDE DEF from, c, n
  <2>6. \A i \in 1..n : i \in 1..(from - 1) \/ i \in from..(c - 1) \/ i = c \/ i \in (c + 1)..n
    BY <1>1, <2>2, <2>4
  <2>7. ASSUME NEW i \in SpokenOf(branch, 1, n) \ Visible
        PROVE  i \in SpokenOf(branch, 1, from - 1)
    <3>1. i \in 1..n /\ branch[i].kind \in Spoken
      BY <2>7, Zenon DEF SpokenOf
    <3>2. i # c
      BY <2>2, <2>5, <3>1, Zenon
    <3>3. i \notin from..(c - 1) /\ i \notin (c + 1)..n
      BY <2>1, <2>4, <3>1, <2>7, Zenon DEF SpokenOf
    <3>4. i \in 1..(from - 1)
      BY <2>6, <3>1, <3>2, <3>3, Zenon
    <3>5. QED
      BY <3>1, <3>4, Zenon DEF SpokenOf
  <2>8. QED
    BY <2>7, Zenon DEF from, n
<1>5. QED
  BY <1>3, <1>4

(* The context shows nothing that lies before that entry.                  *)
LEMMA SeenLiesBehind ==
  ASSUME IInv, LastCompaction(branch) # 0, NEW i \in Visible
  PROVE  i \notin 1..(branch[LastCompaction(branch)].kept - 1)
<1> DEFINE n == Len(branch)
           c == LastCompaction(branch)
           from == branch[c].kept
<1>1. branch \in Seq(Entries) /\ n \in Nat
  BY BranchType DEF IInv, TypeOK
<1>2. IsLastCompaction(branch, c)
  BY <1>1, LastCompactionFound
<1>3. c \in 1..n /\ branch # <<>>
  <2>1. c \in 1..n
    BY <1>1, <1>2 DEF IsLastCompaction
  <2>2. QED
    BY <1>1, <2>1
<1>4. from \in 1..(c - 1)
  BY <1>3, BoundaryLies DEF IInv
<1>5. Visible = SpokenOf(branch, from, c - 1) \cup SpokenOf(branch, c + 1, n)
  BY Zenon DEF Visible
<1> HIDE DEF n, from
<1>6. i \in from..(c - 1) \/ i \in (c + 1)..n
  BY <1>5, Zenon DEF SpokenOf
<1> HIDE DEF c
<1>7. i \notin 1..(from - 1)
  BY <1>1, <1>3, <1>4, <1>6
<1>8. QED
  BY <1>7 DEF c, from

(* However often a session is compacted, and whatever it does between the  *)
(* preparation and the summary: each message is in the context or in some  *)
(* summary, and never in the context and in the summary the model sees.    *)
THEOREM EachMessageIsToldOnce == Spec => []EachMessageIsTold
<1>1. IInv => EverythingWasSummarized
  BY HiddenLiesBefore, Zenon DEF EverythingWasSummarized, IInv, CutIsSummarized
<1>2. IInv => NothingIsToldTwice
  <2> SUFFICES ASSUME IInv, Compactions # {}
               PROVE  branch[LastCompaction(branch)].covers \cap Visible = {}
    BY DEF NothingIsToldTwice
  <2> DEFINE c == LastCompaction(branch)
  <2>1. /\ branch \in Seq(Entries) /\ Len(branch) \in Nat
        /\ DOMAIN branch = 1..Len(branch) /\ branch # <<>>
    <3>1. branch \in Seq(Entries) /\ Len(branch) \in Nat /\ DOMAIN branch = 1..Len(branch)
      BY BranchType DEF IInv, TypeOK
    <3>2. branch # <<>>
      BY <3>1 DEF Compactions
    <3>3. QED
      BY <3>1, <3>2
  <2>2. IsLastCompaction(branch, c)
    BY <2>1, LastCompactionFound
  <2>3. c # 0
    <3>1. PICK i \in DOMAIN branch : branch[i].kind = "compaction"
      BY Zenon DEF Compactions
    <3>2. i \in 1..Len(branch) /\ i <= c
      BY <2>1, <2>2, <3>1, Zenon DEF IsLastCompaction
    <3> HIDE DEF c
    <3>3. QED
      BY <2>1, <3>2
  <2>4. c \in Compactions
    BY <2>1, <2>3, BoundaryLies DEF IInv
  <2>5. branch[c].covers \subseteq 1..(branch[c].kept - 1)
    BY <2>4, Zenon DEF IInv, KeptBehind
  <2>6. \A i \in Visible : i \notin 1..(branch[c].kept - 1)
    BY <2>3, SeenLiesBehind
  <2>7. QED
    BY <2>5, <2>6, Zenon
<1>3. IInv => EachMessageIsTold
  BY <1>1, <1>2 DEF EachMessageIsTold
<1>4. QED
  BY InvInit, InvStep, <1>3, PTL DEF Spec

-----------------------------------------------------------------------------
(* The request, for any context. The list of a finite set has each of its  *)
(* members once. *)
LEMMA ListOf ==
  ASSUME NEW S, IsFiniteSet(S)
  PROVE  /\ SetToSeq(S) \in Seq(S)
         /\ \A i, j \in 1..Len(SetToSeq(S)) : SetToSeq(S)[i] = SetToSeq(S)[j] => i = j
         /\ \A x \in S : \E i \in 1..Len(SetToSeq(S)) : SetToSeq(S)[i] = x
<1> DEFINE n == Cardinality(S)
           f == SetToSeq(S)
<1>1. n \in Nat /\ ExistsBijection(1..n, S)
  BY FS_CardinalityType
<1>2. PICK g : g \in [1..n -> S] /\ \A a, b \in 1..n : g[a] = g[b] => a = b
  <2>1. PICK g \in Bijection(1..n, S) : TRUE
    BY <1>1, Zenon DEF ExistsBijection
  <2>2. g \in Injection(1..n, S)
    BY <2>1, Zenon DEF Bijection
  <2>3. g \in [1..n -> S] /\ IsInjective(g)
    BY <2>2, Zenon DEF Injection
  <2>4. DOMAIN g = 1..n
    BY <2>3
  <2>5. QED
    BY <2>3, <2>4, Zenon DEF IsInjective
<1>3. g \in [1..n -> S] /\ IsInjective(g)
  <2>1. DOMAIN g = 1..n
    BY <1>2
  <2>2. QED
    BY <1>2, <2>1, Zenon DEF IsInjective
<1>4. f \in [1..n -> S] /\ IsInjective(f)
  BY <1>3, Zenon DEF SetToSeq
<1> HIDE DEF f
<1>5. f \in Injection(1..n, S)
  BY <1>4, Zenon DEF Injection
<1>6. IsFiniteSet(1..n) /\ Cardinality(1..n) = n
  <2>1. 1 \in Int /\ n \in Int /\ (IF 1 > n THEN 0 ELSE n - 1 + 1) = n
    BY <1>1
  <2> HIDE DEF n
  <2>2. QED
    BY <2>1, FS_Interval, Zenon
<1>7. f \in Surjection(1..n, S)
  BY <1>5, <1>6, FS_Injection, Zenon
<1>8. \A x \in S : \E i \in 1..n : f[i] = x
  BY <1>7, Zenon DEF Surjection
<1> HIDE DEF n
<1>9. f \in Seq(S) /\ Len(f) = n /\ DOMAIN f = 1..n
  BY <1>1, <1>4
<1>10. \A i, j \in 1..n : f[i] = f[j] => i = j
  BY <1>4, <1>9, Zenon DEF IsInjective
<1>11. QED
  BY <1>8, <1>9, <1>10, Zenon DEF f

AllCalls == (1..MaxEntries) \X (1..MaxCalls)

(* What is said in a context.                                              *)
Said == [role : Messages, calls : SUBSET AllCalls]

(* Of calls there are finitely many.                                       *)
LEMMA FiniteCalls == \A S \in SUBSET AllCalls : IsFiniteSet(S)
<1>1. IsFiniteSet(1..MaxEntries) /\ IsFiniteSet(1..MaxCalls)
  BY CompactionAssumption, FS_Interval
<1>2. IsFiniteSet(AllCalls)
  BY <1>1, FS_Product DEF AllCalls
<1>3. QED
  BY <1>2, FS_Subset

(* A message is what it was made of.                                       *)
LEMMA MessageType ==
  \A role \in Messages : \A calls \in SUBSET AllCalls :
    /\ Message(role, calls) \in Said
    /\ Message(role, calls).role = role /\ Message(role, calls).calls = calls
BY DEF Message, Said

(* The results between i and the next message of another role, by place. *)
Behind(r, i, j) == j \in (i + 1)..Len(r) /\ \A k \in (i + 1)..j : r[k].role = "result"

(* They are the results of WellFormed. *)
LEMMA ResultsBehindAre ==
  ASSUME NEW r \in Seq(Said), NEW i \in 1..Len(r)
  PROVE  /\ \A j : j \in ResultsBehind(r, i) <=> Behind(r, i, j)
         /\ ResultsBehind(r, i) \subseteq 1..Len(r)
<1>1. Len(r) \in Nat /\ DOMAIN r = 1..Len(r)
  OBVIOUS
<1>2. \A j : j \in 1..Len(r) /\ j > i <=> j \in (i + 1)..Len(r)
  BY <1>1
<1>3. QED
  BY <1>1, <1>2, Zenon DEF ResultsBehind, Behind

(* t begins as r does.                                                     *)
Begins(r, t) == Len(r) <= Len(t) /\ \A i \in 1..Len(r) : t[i] = r[i]

(* The results behind i end in r: in t none comes next, or they did so     *)
(* before the end of r. *)
Ends(r, t, i) ==
  \/ Len(t) = Len(r)
  \/ t[Len(r) + 1].role # "result"
  \/ \E k \in (i + 1)..Len(r) : r[k].role # "result"

(* Where they end, i has the same results behind it in t.                  *)
LEMMA BehindBegins ==
  ASSUME NEW r \in Seq(Said), NEW t \in Seq(Said), Begins(r, t), NEW i \in 1..Len(r)
  PROVE  /\ \A j \in 1..Len(r) : Behind(r, i, j) <=> Behind(t, i, j)
         /\ Ends(r, t, i) => \A j : Behind(r, i, j) <=> Behind(t, i, j)
<1>1. Len(r) \in Nat /\ Len(t) \in Nat /\ Len(r) <= Len(t)
  BY DEF Begins
<1>2. ASSUME NEW j \in 1..Len(r) PROVE Behind(r, i, j) <=> Behind(t, i, j)
  <2>1. j \in (i + 1)..Len(r) <=> j \in (i + 1)..Len(t)
    BY <1>1
  <2>2. \A k \in (i + 1)..j : k \in 1..Len(r)
    BY <1>1
  <2>3. \A k \in (i + 1)..j : t[k] = r[k]
    BY <2>2, Zenon DEF Begins
  <2>4. QED
    BY <2>1, <2>3, Zenon DEF Behind
<1>3. ASSUME Ends(r, t, i), NEW j, Behind(t, i, j)
      PROVE  j \in 1..Len(r)
  <2> SUFFICES ASSUME j \notin 1..Len(r) PROVE FALSE
    OBVIOUS
  <2>1. j \in (i + 1)..Len(t) /\ \A k \in (i + 1)..j : t[k].role = "result"
    BY <1>3, Zenon DEF Behind
  <2>2. j \in Nat /\ j > Len(r) /\ Len(t) # Len(r)
    BY <1>1, <2>1
  <2>3. Len(r) + 1 \in (i + 1)..j
    BY <1>1, <2>2
  <2>4. PICK k \in (i + 1)..Len(r) : r[k].role # "result"
    BY <1>3, <2>1, <2>2, <2>3, Zenon DEF Ends
  <2>5. k \in (i + 1)..j /\ k \in 1..Len(r)
    BY <1>1, <2>2
  <2>6. QED
    BY <2>1, <2>4, <2>5, Zenon DEF Begins
<1>4. \A j : Behind(r, i, j) => j \in 1..Len(r)
  BY <1>1 DEF Behind
<1>5. QED
  BY <1>2, <1>3, <1>4, Zenon

-----------------------------------------------------------------------------
(* A request that is right so far, but for the answer at a, whose results  *)
(* are still to come; 0 when there is none. *)

OneResult(r, i, c) ==
  \E j : /\ Behind(r, i, j) /\ r[j].calls = {c}
         /\ \A k : Behind(r, i, k) /\ r[k].calls = {c} => k = j

Answered(r, a) ==
  \A i \in 1..Len(r) : r[i].role = "answer" /\ i # a =>
    \A c \in r[i].calls : OneResult(r, i, c)

ResultsBelong(r) ==
  \A j \in 1..Len(r) : r[j].role = "result" =>
    \E i \in 1..Len(r) : r[i].role = "answer" /\ Behind(r, i, j) /\ r[j].calls \subseteq r[i].calls

Sound(r, a) ==
  /\ r \in Seq(Said)
  /\ \A i \in 1..Len(r) : r[i].role # "failed"
  /\ Answered(r, a)
  /\ ResultsBelong(r)

(* Behind the answer at a are the results of the calls E, one of each.     *)
Batch(r, a, E) ==
  /\ a \in 1..Len(r) /\ r[a].role = "answer"
  /\ E \subseteq r[a].calls
  /\ \A k \in (a + 1)..Len(r) : r[k].role = "result" /\ \E c \in E : r[k].calls = {c}
  /\ \A c \in E : \E k \in (a + 1)..Len(r) : r[k].calls = {c}
  /\ \A k, l \in (a + 1)..Len(r) : r[k].calls = r[l].calls => k = l

(* A request without such an answer is well-formed.                        *)
LEMMA SoundIsWellFormed ==
  ASSUME NEW r, Sound(r, 0)
  PROVE  WellFormed(r)
<1>1. r \in Seq(Said) /\ Len(r) \in Nat /\ DOMAIN r = 1..Len(r)
  BY DEF Sound
<1>2. \A i \in DOMAIN r : \A j : j \in ResultsBehind(r, i) <=> Behind(r, i, j)
  BY <1>1, ResultsBehindAre
<1>3. ASSUME NEW i \in DOMAIN r, r[i].role = "answer", NEW c \in r[i].calls
      PROVE  Cardinality({j \in ResultsBehind(r, i) : r[j].calls = {c}}) = 1
  <2> DEFINE S == {j \in ResultsBehind(r, i) : r[j].calls = {c}}
  <2>1. i \in 1..Len(r) /\ i # 0
    BY <1>1
  <2>2. OneResult(r, i, c)
    BY <1>3, <2>1, Zenon DEF Sound, Answered
  <2>3. PICK j : /\ Behind(r, i, j) /\ r[j].calls = {c}
                 /\ \A k : Behind(r, i, k) /\ r[k].calls = {c} => k = j
    BY <2>2, Zenon DEF OneResult
  <2>4. \A k : k \in S <=> k = j
    BY <1>2, <2>3, Zenon
  <2>5. S = {j}
    BY <2>4, Zenon
  <2>6. QED
    BY <2>5, FS_Singleton, Zenon
<1>4. \A i \in DOMAIN r : r[i].role # "failed"
  BY <1>1, Zenon DEF Sound
<1>5. \A j \in DOMAIN r : r[j].role = "result" =>
        \E i \in DOMAIN r : /\ r[i].role = "answer"
                            /\ j \in ResultsBehind(r, i)
                            /\ r[j].calls \subseteq r[i].calls
  BY <1>1, <1>2, Zenon DEF Sound, ResultsBelong
<1>6. QED
  BY <1>3, <1>4, <1>5, Zenon DEF WellFormed

(* Where a sound request is continued behind its last message, what its    *)
(* answers have stays what it was. *)
LEMMA AnsweredBegins ==
  ASSUME NEW r, NEW t \in Seq(Said), NEW a \in Nat, Sound(r, a), Begins(r, t),
         NEW i \in 1..Len(r), i # a, r[i].role = "answer", Ends(r, t, i),
         NEW c \in t[i].calls
  PROVE  OneResult(t, i, c)
<1>1. r \in Seq(Said) /\ t[i] = r[i]
  BY DEF Sound, Begins
<1>2. \A j : Behind(r, i, j) <=> Behind(t, i, j)
  BY <1>1, BehindBegins
<1>3. PICK j : /\ Behind(r, i, j) /\ r[j].calls = {c}
               /\ \A k : Behind(r, i, k) /\ r[k].calls = {c} => k = j
  BY <1>1, Zenon DEF Sound, Answered, OneResult
<1>4. \A k : Behind(r, i, k) => t[k] = r[k]
  BY <1>1, ResultsBehindAre, Zenon DEF Begins
<1>5. Behind(t, i, j) /\ t[j].calls = {c}
  BY <1>2, <1>3, <1>4, Zenon
<1>6. ASSUME NEW k, Behind(t, i, k), t[k].calls = {c} PROVE k = j
  <2>1. Behind(r, i, k)
    BY <1>2, <1>6, Zenon
  <2>2. r[k].calls = {c}
    BY <1>4, <1>6, <2>1
  <2>3. QED
    BY <1>3, <2>1, <2>2, Zenon
<1>7. QED
  BY <1>5, <1>6, Zenon DEF OneResult

(* And its results belong where they did. *)
LEMMA BelongBegins ==
  ASSUME NEW r, NEW t \in Seq(Said), NEW a \in Nat, Sound(r, a), Begins(r, t),
         NEW j \in 1..Len(r), t[j].role = "result"
  PROVE  \E i \in 1..Len(t) : /\ t[i].role = "answer" /\ Behind(t, i, j)
                              /\ t[j].calls \subseteq t[i].calls
<1>1. r \in Seq(Said) /\ t[j] = r[j] /\ \A i \in 1..Len(r) : t[i] = r[i]
  BY DEF Sound, Begins
<1>2. PICK i \in 1..Len(r) : /\ r[i].role = "answer" /\ Behind(r, i, j)
                             /\ r[j].calls \subseteq r[i].calls
  BY <1>1, Zenon DEF Sound, ResultsBelong
<1>3. Behind(t, i, j)
  BY <1>1, <1>2, BehindBegins
<1>4. i \in 1..Len(t)
  BY <1>1 DEF Begins
<1>5. QED
  BY <1>1, <1>2, <1>3, <1>4, Zenon

(* A message that is no result, said behind a sound request.               *)
LEMMA SaidSound ==
  ASSUME NEW r, Sound(r, 0), NEW m \in Said, m.role \in {"user", "answer"}
  PROVE  /\ Sound(Append(r, m), IF m.role = "answer" THEN Len(r) + 1 ELSE 0)
         /\ m.role = "answer" => Batch(Append(r, m), Len(r) + 1, {})
<1> DEFINE t == Append(r, m)
           a == IF m.role = "answer" THEN Len(r) + 1 ELSE 0
<1>1. r \in Seq(Said) /\ Len(r) \in Nat
  BY DEF Sound
<1>2. t \in Seq(Said) /\ Len(t) = Len(r) + 1 /\ t[Len(r) + 1] = m
  BY <1>1
<1>3. Begins(r, t)
  BY <1>1 DEF Begins
<1> HIDE DEF t
<1>4. m.role # "result" /\ m.role # "failed"
  OBVIOUS
<1>5. \A i \in 1..Len(t) : i \in 1..Len(r) \/ i = Len(r) + 1
  BY <1>1, <1>2
<1>6. \A i \in 1..Len(t) : t[i].role # "failed"
  BY <1>2, <1>3, <1>4, <1>5, Zenon DEF Sound, Begins
<1>7. Answered(t, a)
  <2> SUFFICES ASSUME NEW i \in 1..Len(t), t[i].role = "answer", i # a, NEW c \in t[i].calls
               PROVE  OneResult(t, i, c)
    BY Zenon DEF Answered
  <2>1. i # Len(r) + 1
    BY <1>2, Zenon
  <2>2. i \in 1..Len(r) /\ i # 0
    BY <1>1, <1>5, <2>1
  <2>3. r[i].role = "answer"
    BY <1>3, <2>2, Zenon DEF Begins
  <2>4. t[Len(r) + 1].role # "result" /\ 0 \in Nat
    BY <1>2, <1>4
  <2> HIDE DEF a
  <2>5. QED
    BY <1>2, <1>3, <2>2, <2>3, <2>4, AnsweredBegins DEF Ends
<1>8. ResultsBelong(t)
  <2> SUFFICES ASSUME NEW j \in 1..Len(t), t[j].role = "result"
               PROVE  \E i \in 1..Len(t) : /\ t[i].role = "answer" /\ Behind(t, i, j)
                                           /\ t[j].calls \subseteq t[i].calls
    BY Zenon DEF ResultsBelong
  <2>1. j \in 1..Len(r) /\ 0 \in Nat
    BY <1>2, <1>4, <1>5
  <2>2. QED
    BY <1>2, <1>3, <2>1, BelongBegins
<1>9. m.role = "answer" => Batch(t, Len(r) + 1, {})
  <2>1. (Len(r) + 1 + 1)..Len(t) = {} /\ Len(r) + 1 \in 1..Len(t)
    BY <1>1, <1>2
  <2>2. QED
    BY <1>2, <2>1, Zenon DEF Batch
<1>10. QED
  BY <1>2, <1>6, <1>7, <1>8, <1>9, Zenon DEF Sound, t

(* A result of a call that waits for one. *)
LEMMA ResultSound ==
  ASSUME NEW r, NEW a \in Nat, NEW E, Sound(r, a), Batch(r, a, E),
         NEW m \in Said, m.role = "result",
         NEW c \in r[a].calls \ E, m.calls = {c}
  PROVE  Sound(Append(r, m), a) /\ Batch(Append(r, m), a, E \cup {c})
<1> DEFINE t == Append(r, m)
           n == Len(r)
<1>1. r \in Seq(Said) /\ n \in Nat /\ a \in 1..n /\ r[a].role = "answer"
  BY DEF Sound, Batch
<1>2. t \in Seq(Said) /\ Len(t) = n + 1 /\ t[n + 1] = m
  BY <1>1
<1>3. Begins(r, t)
  BY <1>1 DEF Begins
<1>4. \A i \in 1..n : t[i] = r[i]
  BY <1>3 DEF Begins
<1> HIDE DEF t, n
<1>5. \A i \in 1..(n + 1) : i \in 1..n \/ i = n + 1
  BY <1>1
<1>6. t[a] = r[a] /\ a \in 1..(n + 1)
  BY <1>1, <1>4
<1>7. \A i \in 1..Len(t) : t[i].role # "failed"
  <2>1. m.role # "failed"
    OBVIOUS
  <2>2. QED
    BY <1>2, <1>4, <1>5, <2>1, Zenon DEF Sound, n
<1>8. Answered(t, a)
  <2> SUFFICES ASSUME NEW i \in 1..Len(t), t[i].role = "answer", i # a, NEW d \in t[i].calls
               PROVE  OneResult(t, i, d)
    BY Zenon DEF Answered
  <2>1. i # n + 1 /\ i \in 1..n
    BY <1>2, <1>5, Zenon
  <2>2. r[i].role = "answer" /\ r[i].role # "result"
    <3>1. r[i].role = "answer"
      BY <1>4, <2>1, Zenon
    <3>2. QED
      BY <3>1
  <2>3. i \notin (a + 1)..n
    BY <2>2, Zenon DEF Batch, n
  <2>4. a \in (i + 1)..n
    BY <1>1, <2>1, <2>3
  <2>5. r[a].role # "result"
    BY <1>1
  <2>6. \E k \in (i + 1)..Len(r) : r[k].role # "result"
    BY <2>4, <2>5, Zenon DEF n
  <2>7. i \in 1..Len(r)
    BY <2>1 DEF n
  <2>8. QED
    BY <1>2, <1>3, <2>2, <2>6, <2>7, AnsweredBegins DEF Ends
<1>9. \A k \in (a + 1)..n : t[k].role = "result" /\ t[k] = r[k]
  <2>1. (a + 1)..n \subseteq 1..n
    BY <1>1
  <2>2. QED
    BY <1>4, <2>1, Zenon DEF Batch, n
<1>10. \A k \in (a + 1)..(n + 1) : k \in (a + 1)..n \/ k = n + 1
  BY <1>1
<1>11. ResultsBelong(t)
  <2> SUFFICES ASSUME NEW j \in 1..Len(t), t[j].role = "result"
               PROVE  \E i \in 1..Len(t) : /\ t[i].role = "answer" /\ Behind(t, i, j)
                                           /\ t[j].calls \subseteq t[i].calls
    BY Zenon DEF ResultsBelong
  <2>1. CASE j \in 1..n
    <3>1. j \in 1..Len(r)
      BY <2>1 DEF n
    <3>2. QED
      BY <1>2, <1>3, <3>1, BelongBegins
  <2>2. CASE j = n + 1
    <3>1. n + 1 \in (a + 1)..(n + 1)
      BY <1>1
    <3>2. Behind(t, a, j)
      BY <1>2, <1>9, <1>10, <2>2, <3>1, Zenon DEF Behind
    <3>3. t[j].calls \subseteq t[a].calls
      BY <1>2, <1>6, <2>2
    <3>4. QED
      BY <1>1, <1>2, <1>6, <3>2, <3>3, Zenon
  <2>3. QED
    BY <1>2, <1>5, <2>1, <2>2
<1>12. Batch(t, a, E \cup {c})
  <2>1. a \in 1..Len(t) /\ t[a].role = "answer" /\ E \cup {c} \subseteq t[a].calls
    BY <1>1, <1>2, <1>6, Zenon DEF Batch
  <2>2. \A k \in (a + 1)..n : \E d \in E : t[k].calls = {d}
    <3>1. \A k \in (a + 1)..n : \E d \in E : r[k].calls = {d}
      BY Zenon DEF Batch, n
    <3>2. QED
      BY <1>9, <3>1
  <2>3. \A k \in (a + 1)..n : t[k].calls # {c}
    BY <2>2, Zenon
  <2>4. n + 1 \in (a + 1)..(n + 1) /\ (a + 1)..n \subseteq (a + 1)..(n + 1)
    BY <1>1
  <2>5. \A k \in (a + 1)..(n + 1) : t[k].role = "result" /\ \E d \in E \cup {c} : t[k].calls = {d}
    BY <1>2, <1>9, <1>10, <2>2, Zenon
  <2>6. \A d \in E \cup {c} : \E k \in (a + 1)..(n + 1) : t[k].calls = {d}
    <3>1. \A d \in E : \E k \in (a + 1)..n : t[k].calls = {d}
      <4>1. \A d \in E : \E k \in (a + 1)..n : r[k].calls = {d}
        BY Zenon DEF Batch, n
      <4>2. QED
        BY <1>9, <4>1
    <3>2. QED
      BY <1>2, <2>4, <3>1, Zenon
  <2>7. \A k, l \in (a + 1)..(n + 1) : t[k].calls = t[l].calls => k = l
    <3>1. \A k, l \in (a + 1)..n : t[k].calls = t[l].calls => k = l
      <4>1. \A k, l \in (a + 1)..n : r[k].calls = r[l].calls => k = l
        BY Zenon DEF Batch, n
      <4>2. QED
        BY <1>9, <4>1
    <3>2. QED
      BY <1>2, <1>10, <2>3, <3>1, Zenon
  <2>8. QED
    BY <1>2, <2>1, <2>5, <2>6, <2>7, Zenon DEF Batch
<1>13. QED
  BY <1>2, <1>7, <1>8, <1>11, <1>12, Zenon DEF Sound, t

(* The results that are missing, said behind a batch. *)
Filled(r, missing) == Cat(r, [i \in DOMAIN missing |-> Message("result", {missing[i]})])

(* They are results, one for each missing call, behind the others.         *)
LEMMA FilledIs ==
  ASSUME NEW r \in Seq(Said), NEW s \in Seq(AllCalls)
  PROVE  /\ Filled(r, s) \in Seq(Said) /\ Len(Filled(r, s)) = Len(r) + Len(s)
         /\ \A i \in 1..Len(r) : Filled(r, s)[i] = r[i]
         /\ \A i \in 1..Len(s) : /\ Filled(r, s)[Len(r) + i].role = "result"
                                 /\ Filled(r, s)[Len(r) + i].calls = {s[i]}
<1> DEFINE f == [i \in DOMAIN s |-> Message("result", {s[i]})]
<1>1. Len(s) \in Nat /\ DOMAIN s = 1..Len(s) /\ Len(r) \in Nat
  OBVIOUS
<1>2. \A i \in 1..Len(s) : /\ f[i] \in Said /\ f[i].role = "result" /\ f[i].calls = {s[i]}
  <2> SUFFICES ASSUME NEW i \in 1..Len(s)
               PROVE  /\ Message("result", {s[i]}) \in Said
                      /\ Message("result", {s[i]}).role = "result"
                      /\ Message("result", {s[i]}).calls = {s[i]}
    BY <1>1, Zenon
  <2>1. {s[i]} \in SUBSET AllCalls /\ "result" \in Messages
    BY DEF Messages
  <2>2. QED
    BY <2>1, MessageType, Zenon
<1>3. f \in Seq(Said) /\ Len(f) = Len(s)
  <2>1. f = [i \in 1..Len(s) |-> f[i]]
    BY <1>1, Zenon
  <2> HIDE DEF f
  <2>2. QED
    BY <1>1, <1>2, <2>1
<1>4. Filled(r, s) = Cat(r, f)
  BY Zenon DEF Filled
<1> HIDE DEF f
<1>5. /\ Cat(r, f) \in Seq(Said) /\ Len(Cat(r, f)) = Len(r) + Len(f)
      /\ \A i \in 1..Len(r) : Cat(r, f)[i] = r[i]
      /\ \A i \in 1..Len(f) : Cat(r, f)[Len(r) + i] = f[i]
  BY <1>3 DEF Cat
<1>6. QED
  BY <1>2, <1>3, <1>4, <1>5, Zenon

(* They complete it.                                                       *)
LEMMA FilledSound ==
  ASSUME NEW r, NEW a \in Nat, NEW E, Sound(r, a), Batch(r, a, E)
  PROVE  Sound(Filled(r, SetToSeq(r[a].calls \ E)), 0)
<1> DEFINE n == Len(r)
           s == SetToSeq(r[a].calls \ E)
           t == Filled(r, s)
<1>1. /\ r \in Seq(Said) /\ n \in Nat /\ a \in 1..n /\ r[a].role = "answer"
      /\ r[a].calls \in SUBSET AllCalls
  <2>1. r \in Seq(Said) /\ a \in 1..Len(r) /\ r[a].role = "answer"
    BY Zenon DEF Sound, Batch
  <2>2. r[a] \in Said
    BY <2>1
  <2>3. QED
    BY <2>1, <2>2 DEF Said
<1>2. IsFiniteSet(r[a].calls \ E)
  <2>1. r[a].calls \ E \in SUBSET AllCalls
    BY <1>1
  <2>2. QED
    BY <2>1, FiniteCalls, Zenon
<1>3. /\ s \in Seq(r[a].calls \ E)
      /\ \A i, j \in 1..Len(s) : s[i] = s[j] => i = j
      /\ \A c \in r[a].calls \ E : \E i \in 1..Len(s) : s[i] = c
  BY <1>2, ListOf, Zenon
<1> HIDE DEF s
<1>4. Len(s) \in Nat /\ s \in Seq(AllCalls) /\ \A i \in 1..Len(s) : s[i] \in r[a].calls \ E
  BY <1>1, <1>3
<1>5. /\ t \in Seq(Said) /\ Len(t) = n + Len(s)
      /\ \A i \in 1..n : t[i] = r[i]
      /\ \A i \in 1..Len(s) : t[n + i].role = "result" /\ t[n + i].calls = {s[i]}
  BY <1>1, <1>4, FilledIs, Zenon
<1>6. Begins(r, t)
  BY <1>1, <1>4, <1>5 DEF Begins
<1> HIDE DEF t, n
<1>7. \A j \in 1..Len(t) : j \in 1..n \/ \E i \in 1..Len(s) : j = n + i
  <2> SUFFICES ASSUME NEW j \in 1..Len(t), j \notin 1..n
               PROVE  \E i \in 1..Len(s) : j = n + i
    OBVIOUS
  <2>1. j - n \in 1..Len(s) /\ j = n + (j - n)
    BY <1>1, <1>4, <1>5
  <2>2. QED
    BY <2>1, Zenon
<1>8. \A j \in (a + 1)..Len(t) : j \in (a + 1)..n \/ \E i \in 1..Len(s) : j = n + i
  <2>1. \A j \in (a + 1)..Len(t) : j \in 1..Len(t) /\ (j \in 1..n => j \in (a + 1)..n)
    BY <1>1
  <2>2. QED
    BY <1>7, <2>1, Zenon
<1>9. t[a] = r[a] /\ a \in 1..Len(t) /\ (a + 1)..n \subseteq 1..n
  BY <1>1, <1>4, <1>5
<1>10. \A j \in (a + 1)..n : t[j] = r[j] /\ r[j].role = "result"
  BY <1>5, <1>9, Zenon DEF Batch, n
<1>11. \A j \in (a + 1)..Len(t) : t[j].role = "result"
  BY <1>5, <1>8, <1>10, Zenon
<1>12. \A j : Behind(t, a, j) <=> j \in (a + 1)..Len(t)
  <2>1. \A j \in (a + 1)..Len(t) : (a + 1)..j \subseteq (a + 1)..Len(t)
    BY <1>1, <1>5, <1>4
  <2>2. QED
    BY <1>11, <2>1, Zenon DEF Behind
<1>13. \A i \in 1..Len(t) : t[i].role # "failed"
  <2>1. "result" # "failed"
    OBVIOUS
  <2>2. QED
    BY <1>5, <1>7, <2>1, Zenon DEF Sound, n
<1>14. ASSUME NEW c \in r[a].calls PROVE OneResult(t, a, c)
  <2>1. CASE c \in E
    <3>1. PICK j \in (a + 1)..n : r[j].calls = {c}
      BY <2>1, Zenon DEF Batch, n
    <3>2. Behind(t, a, j) /\ t[j].calls = {c}
      <4>1. j \in (a + 1)..Len(t)
        BY <1>1, <1>4, <1>5
      <4>2. t[j].calls = {c}
        BY <1>10, <3>1
      <4>3. QED
        BY <1>12, <4>1, <4>2, Zenon
    <3>3. ASSUME NEW k, Behind(t, a, k), t[k].calls = {c} PROVE k = j
      <4>1. k \in (a + 1)..Len(t)
        BY <1>12, <3>3, Zenon
      <4>2. CASE k \in (a + 1)..n
        <5>1. r[k].calls = r[j].calls
          BY <1>10, <3>1, <3>3, <4>2
        <5>2. QED
          BY <4>2, <5>1, Zenon DEF Batch, n
      <4>3. ASSUME NEW i \in 1..Len(s), k = n + i PROVE FALSE
        <5>1. {s[i]} = {c} /\ s[i] \notin E
          BY <1>4, <1>5, <3>3, <4>3
        <5>2. QED
          BY <2>1, <5>1, Zenon
      <4>4. QED
        BY <1>8, <4>1, <4>2, <4>3, Zenon
    <3>4. QED
      BY <3>2, <3>3, Zenon DEF OneResult
  <2>2. CASE c \notin E
    <3>1. PICK i \in 1..Len(s) : s[i] = c
      BY <1>3, <2>2, Zenon
    <3>2. Behind(t, a, n + i) /\ t[n + i].calls = {c}
      <4>1. n + i \in (a + 1)..Len(t)
        BY <1>1, <1>4, <1>5
      <4>2. t[n + i].calls = {c}
        BY <1>5, <3>1
      <4>3. QED
        BY <1>12, <4>1, <4>2, Zenon
    <3>3. ASSUME NEW k, Behind(t, a, k), t[k].calls = {c} PROVE k = n + i
      <4>1. k \in (a + 1)..Len(t)
        BY <1>12, <3>3, Zenon
      <4>2. CASE k \in (a + 1)..n
        <5>1. PICK d \in E : r[k].calls = {d}
          BY <4>2, Zenon DEF Batch, n
        <5>2. {d} = {c}
          BY <1>10, <3>3, <4>2, <5>1
        <5>3. QED
          BY <2>2, <5>2, Zenon
      <4>3. ASSUME NEW l \in 1..Len(s), k = n + l PROVE l = i
        <5>1. {s[l]} = {c}
          BY <1>5, <3>3, <4>3
        <5>2. s[l] = s[i]
          BY <3>1, <5>1, Zenon
        <5>3. QED
          BY <1>3, <5>2, Zenon
      <4>4. QED
        BY <1>8, <4>1, <4>2, <4>3, Zenon
    <3>4. QED
      BY <3>2, <3>3, Zenon DEF OneResult
  <2>3. QED
    BY <2>1, <2>2
<1>15. Answered(t, 0)
  <2> SUFFICES ASSUME NEW i \in 1..Len(t), t[i].role = "answer", NEW c \in t[i].calls
               PROVE  OneResult(t, i, c)
    BY Zenon DEF Answered
  <2>1. CASE i = a
    BY <1>9, <1>14, <2>1, Zenon
  <2>2. CASE i # a
    <3>1. t[i].role # "result"
      OBVIOUS
    <3>2. i \in 1..n
      BY <1>5, <1>7, <3>1, Zenon
    <3>3. r[i].role = "answer"
      BY <1>5, <3>2, Zenon
    <3>4. i \notin (a + 1)..n
      BY <1>10, <3>1, Zenon
    <3>5. a \in (i + 1)..n
      BY <1>1, <2>2, <3>2, <3>4
    <3>6. r[a].role # "result"
      BY <1>1
    <3>7. i \in 1..Len(r) /\ \E k \in (i + 1)..Len(r) : r[k].role # "result"
      BY <3>2, <3>5, <3>6, Zenon DEF n
    <3>8. QED
      BY <1>5, <1>6, <2>2, <3>3, <3>7, AnsweredBegins DEF Ends
  <2>3. QED
    BY <2>1, <2>2
<1>16. ResultsBelong(t)
  <2> SUFFICES ASSUME NEW j \in 1..Len(t), t[j].role = "result"
               PROVE  \E i \in 1..Len(t) : /\ t[i].role = "answer" /\ Behind(t, i, j)
                                           /\ t[j].calls \subseteq t[i].calls
    BY Zenon DEF ResultsBelong
  <2>1. CASE j \in 1..n
    <3>1. j \in 1..Len(r)
      BY <2>1 DEF n
    <3>2. QED
      BY <1>5, <1>6, <3>1, BelongBegins
  <2>2. ASSUME NEW i \in 1..Len(s), j = n + i
        PROVE  Behind(t, a, j) /\ t[j].calls \subseteq t[a].calls
    <3>1. j \in (a + 1)..Len(t)
      BY <1>1, <1>4, <1>5, <2>2
    <3>2. t[j].calls = {s[i]} /\ s[i] \in t[a].calls
      BY <1>4, <1>5, <1>9, <2>2
    <3>3. QED
      BY <1>12, <3>1, <3>2, Zenon
  <2>3. t[a].role = "answer"
    BY <1>1, <1>9
  <2>4. QED
    BY <1>7, <1>9, <2>1, <2>2, <2>3, Zenon
<1>17. Sound(t, 0)
  BY <1>5, <1>13, <1>15, <1>16, Zenon DEF Sound
<1>18. QED
  BY <1>17 DEF t, s

(* Where the pass over the messages stands: the request is sound but for   *)
(* the answer at a, whose calls are pending. *)
PassState(r, pending, existing) ==
  [result |-> r, pendingToolCalls |-> pending, existingToolResultIds |-> existing]

(* What an update makes of such a state, by name.                          *)
SetResult(p, t)   == [p EXCEPT !.result = t]
SetPending(p, t)  == [p EXCEPT !.pendingToolCalls = t]
SetExisting(p, t) == [p EXCEPT !.existingToolResultIds = t]

(* Each update changes one field. *)
LEMMA PassChanges ==
  ASSUME NEW r, NEW P, NEW E, NEW t
  PROVE  /\ SetResult(PassState(r, P, E), t) = PassState(t, P, E)
         /\ SetPending(PassState(r, P, E), t) = PassState(r, t, E)
         /\ SetExisting(PassState(r, P, E), t) = PassState(r, P, t)
<1> DEFINE p == PassState(r, P, E)
<1>1. p = [result |-> r, pendingToolCalls |-> P, existingToolResultIds |-> E]
  BY Zenon DEF PassState
<1> HIDE DEF p
<1>2. [p EXCEPT !.result = t]
        = [result |-> t, pendingToolCalls |-> P, existingToolResultIds |-> E]
  BY <1>1
<1>3. [p EXCEPT !.pendingToolCalls = t]
        = [result |-> r, pendingToolCalls |-> t, existingToolResultIds |-> E]
  BY <1>1
<1>4. [p EXCEPT !.existingToolResultIds = t]
        = [result |-> r, pendingToolCalls |-> P, existingToolResultIds |-> t]
  BY <1>1
<1>5. SetResult(p, t) = PassState(t, P, E)
  BY <1>2 DEF SetResult, PassState
<1>6. SetPending(p, t) = PassState(r, t, E)
  BY <1>3 DEF SetPending, PassState
<1>7. SetExisting(p, t) = PassState(r, P, t)
  BY <1>4 DEF SetExisting, PassState
<1>8. QED
  BY <1>5, <1>6, <1>7, Zenon DEF p

Stands(s, a) ==
  \E r, E : \/ a = 0 /\ s = PassState(r, {}, {}) /\ Sound(r, 0)
            \/ a # 0 /\ s = PassState(r, r[a].calls, E) /\ Sound(r, a) /\ Batch(r, a, E)

(* And the messages behind that answer are the last ones of the context.   *)
Held(ms, m, r, a) ==
  /\ a = 0 => m = 0 \/ ms[m].role \in {"user", "failed"}
  /\ a # 0 => \E x \in 1..m : /\ m - x = Len(r) - a
                              /\ \A k \in 0..(m - x) : ms[x + k] = r[a + k]

Passed(ms, m, s) == \E a \in Nat : Stands(s, a) /\ Held(ms, m, s.result, a)

(* A result is of a call of the answer it follows, and the first of it.    *)
ResultsFollow(ms) ==
  \A j \in 1..Len(ms) : ms[j].role = "result" =>
    \E x \in 1..(j - 1) :
      /\ ms[x].role = "answer"
      /\ \A k \in (x + 1)..(j - 1) : ms[k].role = "result"
      /\ \E c \in ms[x].calls : /\ ms[j].calls = {c}
                                /\ \A k \in (x + 1)..(j - 1) : ms[k].calls # {c}

(* Where results are inserted, the request is sound. *)
LEMMA InsertStands ==
  ASSUME NEW s, NEW a \in Nat, Stands(s, a)
  PROVE  \E r : InsertSyntheticToolResults(s) = PassState(r, {}, {}) /\ Sound(r, 0)
<1>1. PICK r, E : \/ a = 0 /\ s = PassState(r, {}, {}) /\ Sound(r, 0)
                  \/ a # 0 /\ s = PassState(r, r[a].calls, E) /\ Sound(r, a) /\ Batch(r, a, E)
  BY Zenon DEF Stands
<1>2. ASSUME NEW P, NEW F, s = PassState(r, P, F)
      PROVE  InsertSyntheticToolResults(s) = PassState(Filled(r, SetToSeq(P \ F)), {}, {})
  <2> DEFINE missing == SetToSeq(P \ F)
             t == Filled(r, missing)
  <2>1. s.result = r /\ s.pendingToolCalls = P /\ s.existingToolResultIds = F
    BY <1>2 DEF PassState
  <2>2. t = r \o [i \in DOMAIN missing |-> Message("result", {missing[i]})]
    BY Zenon DEF Filled, Cat
  <2>3. InsertSyntheticToolResults(s) =
          [Start EXCEPT !.result =
             r \o [i \in DOMAIN missing |-> Message("result", {missing[i]})]]
    BY <2>1, Zenon DEF InsertSyntheticToolResults
  <2> HIDE DEF missing, t
  <2>4. InsertSyntheticToolResults(s) = [Start EXCEPT !.result = t]
    BY <2>2, <2>3, Zenon
  <2>5. [Start EXCEPT !.result = t] = PassState(t, {}, {})
    <3>1. [Start EXCEPT !.result = t] = SetResult(Start, t)
      BY Zenon DEF SetResult
    <3>2. Start = PassState(<<>>, {}, {})
      BY Zenon DEF Start, PassState
    <3>3. QED
      BY <3>1, <3>2, PassChanges
  <2>6. QED
    BY <2>4, <2>5 DEF t, missing
<1>3. CASE a # 0
  <2>1. s = PassState(r, r[a].calls, E) /\ Sound(r, a) /\ Batch(r, a, E)
    BY <1>1, <1>3, Zenon
  <2>2. Sound(Filled(r, SetToSeq(r[a].calls \ E)), 0)
    BY <2>1, FilledSound, Zenon
  <2>3. QED
    BY <1>2, <2>1, <2>2, Zenon
<1>4. CASE a = 0
  <2>1. s = PassState(r, {}, {}) /\ Sound(r, 0)
    BY <1>1, <1>4, Zenon
  <2> DEFINE l == SetToSeq({} \ {})
             t == Filled(r, l)
  <2>2. l \in Seq({})
    <3>1. IsFiniteSet({} \ {}) /\ {} \ {} = {}
      BY FS_EmptySet
    <3>2. QED
      BY <3>1, ListOf, Zenon
  <2> HIDE DEF l
  <2>3. Len(l) = 0 /\ l \in Seq(AllCalls)
    BY <2>2
  <2>4. r \in Seq(Said) /\ Len(r) \in Nat
    BY <2>1 DEF Sound
  <2>5. t \in Seq(Said) /\ Len(t) = Len(r) + Len(l) /\ \A i \in 1..Len(r) : t[i] = r[i]
    BY <2>3, <2>4, FilledIs, Zenon
  <2> HIDE DEF t
  <2>6. t = r
    BY <2>3, <2>4, <2>5
  <2>7. QED
    BY <1>2, <2>1, <2>6, Zenon DEF t, l
<1>5. QED
  BY <1>3, <1>4

(* Each message, as it comes. *)
LEMMA UserPasses ==
  ASSUME NEW ms \in Seq(Said), NEW m \in Nat, m + 1 <= Len(ms), NEW s, Passed(ms, m, s),
         ms[m + 1].role = "user"
  PROVE  Passed(ms, m + 1, TransformMessage(s, ms[m + 1]))
<1> DEFINE w == ms[m + 1]
<1>1. PICK a \in Nat : Stands(s, a)
  BY Zenon DEF Passed
<1>2. PICK r : InsertSyntheticToolResults(s) = PassState(r, {}, {}) /\ Sound(r, 0)
  BY <1>1, InsertStands, Zenon
<1>3. w \in Said /\ w.role = "user"
  OBVIOUS
<1>4. TransformMessage(s, w) = [InsertSyntheticToolResults(s) EXCEPT !.result = Append(@, w)]
  BY <1>3 DEF TransformMessage
<1> HIDE DEF w
<1> DEFINE t == Append(r, w)
<1>5. Sound(t, 0)
  BY <1>2, <1>3, SaidSound
<1> HIDE DEF t
<1>6. TransformMessage(s, w) = PassState(t, {}, {})
  <2>1. PassState(r, {}, {}).result = r
    BY DEF PassState
  <2>2. [PassState(r, {}, {}) EXCEPT !.result = Append(@, w)] = SetResult(PassState(r, {}, {}), t)
    BY <2>1 DEF t, PassState, SetResult
  <2>3. SetResult(PassState(r, {}, {}), t) = PassState(t, {}, {})
    BY PassChanges
  <2>4. QED
    BY <1>2, <1>4, <2>2, <2>3, Zenon
<1>7. Stands(TransformMessage(s, w), 0)
  BY <1>5, <1>6, Zenon DEF Stands
<1>8. \A q : Held(ms, m + 1, q, 0)
  BY <1>3, Zenon DEF Held, w
<1>9. 0 \in Nat
  OBVIOUS
<1>10. QED
  BY <1>7, <1>8, <1>9, Zenon DEF Passed, w

(* A failed answer is left out. *)
LEMMA FailedPasses ==
  ASSUME NEW ms \in Seq(Said), NEW m \in Nat, m + 1 <= Len(ms), NEW s, Passed(ms, m, s),
         ms[m + 1].role = "failed"
  PROVE  Passed(ms, m + 1, TransformMessage(s, ms[m + 1]))
<1> DEFINE w == ms[m + 1]
<1>1. PICK a \in Nat : Stands(s, a)
  BY Zenon DEF Passed
<1>2. PICK r : InsertSyntheticToolResults(s) = PassState(r, {}, {}) /\ Sound(r, 0)
  BY <1>1, InsertStands, Zenon
<1>3. TransformMessage(s, w) = InsertSyntheticToolResults(s)
  BY DEF TransformMessage
<1>4. Stands(TransformMessage(s, w), 0)
  BY <1>2, <1>3, Zenon DEF Stands
<1>5. \A q : Held(ms, m + 1, q, 0)
  BY Zenon DEF Held
<1>6. 0 \in Nat
  OBVIOUS
<1>7. QED
  BY <1>4, <1>5, <1>6, Zenon DEF Passed

(* An answer has its calls pending. *)
LEMMA AnswerPasses ==
  ASSUME NEW ms \in Seq(Said), NEW m \in Nat, m + 1 <= Len(ms), NEW s, Passed(ms, m, s),
         ms[m + 1].role = "answer"
  PROVE  Passed(ms, m + 1, TransformMessage(s, ms[m + 1]))
<1> DEFINE w == ms[m + 1]
<1>1. PICK a \in Nat : Stands(s, a)
  BY Zenon DEF Passed
<1>2. PICK r : InsertSyntheticToolResults(s) = PassState(r, {}, {}) /\ Sound(r, 0)
  BY <1>1, InsertStands, Zenon
<1>3. w \in Said /\ w.role = "answer"
  OBVIOUS
<1>4. TransformMessage(s, w) =
        [InsertSyntheticToolResults(s) EXCEPT !.result = Append(@, w),
                                              !.pendingToolCalls = w.calls]
  BY <1>3 DEF TransformMessage
<1> HIDE DEF w
<1> DEFINE t == Append(r, w)
           b == Len(r) + 1
<1>5. Sound(t, b) /\ Batch(t, b, {})
  BY <1>2, <1>3, SaidSound
<1>6. r \in Seq(Said) /\ Len(r) \in Nat
  BY <1>2 DEF Sound
<1>7. b \in Nat /\ b # 0 /\ t[b] = w /\ Len(t) = b
  BY <1>3, <1>6
<1> HIDE DEF t, b
<1>8. TransformMessage(s, w) = PassState(t, w.calls, {})
  <2> DEFINE p == PassState(r, {}, {})
             q == w.calls
  <2>1. p.result = r
    BY DEF PassState
  <2>2. [p EXCEPT !.result = Append(@, w), !.pendingToolCalls = q]
          = SetPending(SetResult(p, t), q)
    <3> HIDE DEF q
    <3>1. QED
      BY <2>1 DEF t, PassState, SetPending, SetResult
  <2>3. SetPending(SetResult(p, t), q) = PassState(t, q, {})
    BY PassChanges
  <2>4. QED
    BY <1>2, <1>4, <2>2, <2>3, Zenon
<1>9. Stands(TransformMessage(s, w), b)
  <2>1. TransformMessage(s, w) = PassState(t, t[b].calls, {})
    BY <1>7, <1>8, Zenon
  <2>2. QED
    BY <1>5, <1>7, <2>1, Zenon DEF Stands
<1>10. Held(ms, m + 1, t, b)
  <2>1. m + 1 \in 1..(m + 1) /\ (m + 1) - (m + 1) = 0 /\ Len(t) - b = 0
    BY <1>7
  <2>2. \A k \in 0..0 : ms[m + 1 + k] = t[b + k]
    <3>1. ms[m + 1 + 0] = w /\ t[b + 0] = w
      BY <1>7 DEF w
    <3>2. \A k \in 0..0 : k = 0
      OBVIOUS
    <3>3. QED
      BY <3>1, <3>2, Zenon
  <2>3. \A k \in 0..((m + 1) - (m + 1)) : ms[m + 1 + k] = t[b + k]
    BY <2>1, <2>2, Zenon
  <2>4. (m + 1) - (m + 1) = Len(t) - b
    BY <2>1, Zenon
  <2>5. \E x \in 1..(m + 1) : /\ (m + 1) - x = Len(t) - b
                              /\ \A k \in 0..((m + 1) - x) : ms[x + k] = t[b + k]
    BY <2>1, <2>3, <2>4, Zenon
  <2>6. QED
    BY <1>7, <2>5, Zenon DEF Held
<1>11. TransformMessage(s, w).result = t
  BY <1>8 DEF PassState
<1>12. QED
  BY <1>7, <1>9, <1>10, <1>11, Zenon DEF Passed, w

(* A result is of a pending call that has none yet.                        *)
LEMMA ResultPasses ==
  ASSUME NEW ms \in Seq(Said), ResultsFollow(ms),
         NEW m \in Nat, m + 1 <= Len(ms), NEW s, Passed(ms, m, s), ms[m + 1].role = "result"
  PROVE  Passed(ms, m + 1, TransformMessage(s, ms[m + 1]))
<1> DEFINE w == ms[m + 1]
<1>1. PICK a \in Nat : Stands(s, a) /\ Held(ms, m, s.result, a)
  BY Zenon DEF Passed
<1>2. m + 1 \in 1..Len(ms) /\ (m + 1) - 1 = m
  OBVIOUS
<1>3. PICK x \in 1..m : /\ ms[x].role = "answer"
                        /\ \A k \in (x + 1)..m : ms[k].role = "result"
                        /\ \E c \in ms[x].calls : /\ w.calls = {c}
                                                  /\ \A k \in (x + 1)..m : ms[k].calls # {c}
  <2>1. \E y \in 1..((m + 1) - 1) :
           /\ ms[y].role = "answer"
           /\ \A k \in (y + 1)..((m + 1) - 1) : ms[k].role = "result"
           /\ \E c \in ms[y].calls : /\ w.calls = {c}
                                     /\ \A k \in (y + 1)..((m + 1) - 1) : ms[k].calls # {c}
    BY <1>2, Zenon DEF ResultsFollow
  <2>2. QED
    BY <1>2, <2>1, Zenon
<1>4. PICK c \in ms[x].calls : w.calls = {c} /\ \A k \in (x + 1)..m : ms[k].calls # {c}
  BY <1>3, Zenon
<1>5. a # 0
  <2>1. x = m \/ m \in (x + 1)..m
    OBVIOUS
  <2>2. m # 0 /\ ms[m].role \notin {"user", "failed"}
    BY <1>3, <2>1
  <2>3. QED
    BY <1>1, <2>2, Zenon DEF Held
<1>6. PICK r, E : s = PassState(r, r[a].calls, E) /\ Sound(r, a) /\ Batch(r, a, E)
  BY <1>1, <1>5, Zenon DEF Stands
<1>7. s.result = r /\ s.existingToolResultIds = E
  BY <1>6 DEF PassState
<1>8. /\ r \in Seq(Said) /\ Len(r) \in Nat /\ a \in 1..Len(r) /\ r[a].role = "answer"
      /\ \A k \in (a + 1)..Len(r) : r[k].role = "result"
  <2>1. r \in Seq(Said) /\ a \in 1..Len(r) /\ r[a].role = "answer"
    BY <1>6, Zenon DEF Sound, Batch
  <2>2. \A k \in (a + 1)..Len(r) : r[k].role = "result"
    BY <1>6, Zenon DEF Batch
  <2>3. QED
    BY <2>1, <2>2
<1>9. PICK y \in 1..m : /\ m - y = Len(r) - a
                        /\ \A k \in 0..(m - y) : ms[y + k] = r[a + k]
  BY <1>1, <1>5, <1>7, Zenon DEF Held
<1>10. x = y
  <2>1. y <= x
    <3> SUFFICES ASSUME y \in (x + 1)..m PROVE FALSE
      OBVIOUS
    <3>1. 0 \in 0..(m - y) /\ y + 0 = y /\ a + 0 = a
      OBVIOUS
    <3>2. ms[y] = r[a]
      BY <1>9, <3>1, Zenon
    <3>3. QED
      BY <1>3, <1>8, <3>2
  <2>2. x <= y
    <3> SUFFICES ASSUME x > y PROVE FALSE
      OBVIOUS
    <3>1. x - y \in 0..(m - y) /\ y + (x - y) = x /\ a + (x - y) \in (a + 1)..Len(r)
      BY <1>8, <1>9
    <3>2. ms[x] = r[a + (x - y)]
      BY <1>9, <3>1, Zenon
    <3>3. ms[x].role = "result"
      BY <1>8, <3>1, <3>2, Zenon
    <3>4. QED
      BY <1>3, <3>3
  <2>3. QED
    BY <2>1, <2>2
<1>11. /\ m - x = Len(r) - a /\ ms[x] = r[a]
       /\ \A k \in 0..(m - x) : ms[x + k] = r[a + k]
  <2>1. 0 \in 0..(m - x) /\ x + 0 = x /\ a + 0 = a
    OBVIOUS
  <2>2. m - x = Len(r) - a /\ \A k \in 0..(m - x) : ms[x + k] = r[a + k]
    BY <1>9, <1>10, Zenon
  <2>3. ms[x] = r[a]
    BY <2>1, <2>2, Zenon
  <2>4. QED
    BY <2>2, <2>3
<1>12. c \notin E
  <2> SUFFICES ASSUME c \in E PROVE FALSE
    OBVIOUS
  <2>1. PICK k \in (a + 1)..Len(r) : r[k].calls = {c}
    BY <1>6, Zenon DEF Batch
  <2>2. k - a \in 0..(m - x) /\ a + (k - a) = k /\ x + (k - a) \in (x + 1)..m
    BY <1>8, <1>11
  <2>3. ms[x + (k - a)] = r[k]
    BY <1>11, <2>2, Zenon
  <2>4. ms[x + (k - a)].calls = {c}
    BY <2>1, <2>3
  <2>5. QED
    BY <1>4, <2>2, <2>4, Zenon
<1>13. w \in Said /\ w.role = "result" /\ w.calls = {c} /\ c \in r[a].calls \ E
  BY <1>4, <1>11, <1>12
<1>14. TransformMessage(s, w)
         = [s EXCEPT !.result = Append(@, w), !.existingToolResultIds = @ \cup w.calls]
  BY <1>13 DEF TransformMessage
<1> HIDE DEF w
<1> DEFINE t == Append(r, w)
           F == E \cup {c}
<1>15. Sound(t, a) /\ Batch(t, a, F)
  BY <1>6, <1>13, ResultSound
<1>16. Len(t) = Len(r) + 1 /\ t[Len(r) + 1] = w /\ \A i \in 1..Len(r) : t[i] = r[i]
  BY <1>8, <1>13
<1> HIDE DEF t
<1>17. TransformMessage(s, w) = PassState(t, t[a].calls, F)
  <2> DEFINE P == r[a].calls
  <2> HIDE DEF P
  <2>1. s = PassState(r, P, E) /\ P = t[a].calls
    BY <1>6, <1>8, <1>16 DEF P
  <2>2. [s EXCEPT !.result = Append(@, w), !.existingToolResultIds = @ \cup w.calls]
          = [s EXCEPT !.result = t, !.existingToolResultIds = F]
    BY <1>7, <1>13, <2>1 DEF t, PassState
  <2> HIDE DEF F
  <2>3. [s EXCEPT !.result = t, !.existingToolResultIds = F] = SetExisting(SetResult(s, t), F)
    BY DEF SetExisting, SetResult
  <2>4. SetResult(s, t) = PassState(t, P, E)
    BY <2>1, PassChanges
  <2>5. SetExisting(PassState(t, P, E), F) = PassState(t, P, F)
    BY PassChanges
  <2>6. QED
    BY <1>14, <2>1, <2>2, <2>3, <2>4, <2>5, Zenon
<1>18. Stands(TransformMessage(s, w), a)
  BY <1>5, <1>15, <1>17, Zenon DEF Stands
<1>19. Held(ms, m + 1, t, a)
  <2>1. x \in 1..(m + 1) /\ (m + 1) - x = Len(t) - a
    <3>1. x \in 1..m /\ m - x = Len(r) - a
      BY <1>11
    <3>2. Len(r) \in Nat /\ a \in Int
      BY <1>8
    <3>3. Len(t) = Len(r) + 1
      BY <1>16
    <3>4. QED
      BY <3>1, <3>2, <3>3
  <2>2. ASSUME NEW k \in 0..((m + 1) - x) PROVE ms[x + k] = t[a + k]
    <3>1. CASE k = (m + 1) - x
      <4>1. x + k = m + 1 /\ a + k = Len(r) + 1
        <5>1. Len(r) \in Nat /\ m - x = Len(r) - a
          BY <1>8, <1>11
        <5>2. QED
          BY <3>1, <5>1
      <4>2. QED
        BY <1>16, <4>1, Zenon DEF w
    <3>2. CASE k # (m + 1) - x
      <4>1. k \in 0..(m - x) /\ a + k \in 1..Len(r)
        BY <1>8, <1>11, <3>2
      <4>2. QED
        BY <1>11, <1>16, <4>1, Zenon
    <3>3. QED
      BY <3>1, <3>2
  <2>3. QED
    BY <1>5, <2>1, <2>2, Zenon DEF Held
<1>20. TransformMessage(s, w).result = t
  BY <1>17 DEF PassState
<1>21. QED
  BY <1>18, <1>19, <1>20, Zenon DEF Passed, w

-----------------------------------------------------------------------------
(* The pass over the first messages, as far as it is a function.           *)
IsPass(ms, n, pass) ==
  pass = [i \in 0..n |-> IF i = 0 THEN Start ELSE TransformMessage(pass[i - 1], ms[i])]

(* There is one, for as many messages as one likes.                        *)
LEMMA PassTo ==
  ASSUME NEW ms
  PROVE  \A n \in Nat : \E pass : IsPass(ms, n, pass)
<1> DEFINE G == {n \in Nat : \E pass : IsPass(ms, n, pass)}
<1>1. 0 \in G
  <2> DEFINE pass == [i \in 0..0 |-> Start]
  <2>1. pass = [i \in 0..0 |-> IF i = 0 THEN Start ELSE TransformMessage(pass[i - 1], ms[i])]
    OBVIOUS
  <2> HIDE DEF pass
  <2>2. IsPass(ms, 0, pass)
    BY <2>1, Zenon DEF IsPass
  <2>3. QED
    BY <2>2
<1>2. ASSUME NEW n \in Nat, n \in G PROVE n + 1 \in G
  <2>1. PICK pass : IsPass(ms, n, pass)
    BY <1>2
  <2> DEFINE last == TransformMessage(pass[n], ms[n + 1])
             longer == [i \in 0..(n + 1) |-> IF i = n + 1 THEN last ELSE pass[i]]
  <2>2. /\ \A i \in 0..n : i \in 0..(n + 1) /\ i # n + 1
        /\ \A i \in 1..n : i \in 0..n /\ i - 1 \in 0..n /\ i # 0
        /\ n + 1 \in 0..(n + 1) /\ (n + 1) - 1 = n /\ n \in 0..n /\ n + 1 # 0
        /\ 0 \in 0..n
        /\ \A i \in 0..(n + 1) : i = 0 \/ i \in 1..n \/ i = n + 1
    OBVIOUS
  <2>3. longer[n + 1] = last /\ \A i \in 0..n : longer[i] = pass[i]
    <3> HIDE DEF last
    <3>1. QED
      BY <2>2, Zenon
  <2>4. \A i \in 0..n : pass[i] = IF i = 0 THEN Start ELSE TransformMessage(pass[i - 1], ms[i])
    BY <2>1, Zenon DEF IsPass
  <2>5. longer = [i \in 0..(n + 1) |-> longer[i]]
    OBVIOUS
  <2> HIDE DEF longer
  <2>6. ASSUME NEW i \in 0..(n + 1)
        PROVE  longer[i] = IF i = 0 THEN Start ELSE TransformMessage(longer[i - 1], ms[i])
    <3>1. CASE i = 0
      BY <2>2, <2>3, <2>4, <3>1, Zenon
    <3>2. CASE i \in 1..n
      <4>1. longer[i] = pass[i] /\ longer[i - 1] = pass[i - 1]
        BY <2>2, <2>3, <3>2, Zenon
      <4>2. pass[i] = TransformMessage(pass[i - 1], ms[i])
        BY <2>2, <2>4, <3>2, Zenon
      <4>3. QED
        BY <2>2, <3>2, <4>1, <4>2, Zenon
    <3>3. CASE i = n + 1
      <4>1. longer[i] = TransformMessage(pass[n], ms[i])
        BY <2>3, <3>3, Zenon
      <4>2. longer[i - 1] = pass[n]
        BY <2>2, <2>3, <3>3, Zenon
      <4>3. QED
        BY <2>2, <3>3, <4>1, <4>2, Zenon
    <3>4. QED
      BY <2>2, <3>1, <3>2, <3>3, Zenon
  <2>7. IsPass(ms, n + 1, longer)
    BY <2>5, <2>6, Zenon DEF IsPass
  <2>8. QED
    BY <2>7
<1> HIDE DEF G
<1>3. Nat \subseteq G
  BY <1>1, <1>2, NumberInduction
<1>4. QED
  BY <1>3 DEF G

(* It is what Pass computes. *)
LEMMA PassIs ==
  ASSUME NEW ms, Len(ms) \in Nat
  PROVE  \E pass : /\ Pass(ms) = pass[Len(ms)] /\ pass[0] = Start
                   /\ \A i \in 1..Len(ms) : pass[i] = TransformMessage(pass[i - 1], ms[i])
<1> DEFINE n == Len(ms)
           pass == CHOOSE f : IsPass(ms, n, f)
<1>1. IsPass(ms, n, pass)
  BY PassTo, Zenon
<1>2. Pass(ms) = pass[n]
  BY Zenon DEF Pass, IsPass
<1> HIDE DEF pass
<1>3. \A i \in 0..n : pass[i] = IF i = 0 THEN Start ELSE TransformMessage(pass[i - 1], ms[i])
  BY <1>1, Zenon DEF IsPass
<1>4. 0 \in 0..n /\ \A i \in 1..n : i \in 0..n /\ i # 0
  OBVIOUS
<1>5. QED
  BY <1>2, <1>3, <1>4, Zenon

(* What the pass makes of a context whose results follow their answers.    *)
LEMMA TransformIsWellFormed ==
  ASSUME NEW ms \in Seq(Said), ResultsFollow(ms)
  PROVE  WellFormed(Transform(ms))
<1> DEFINE n == Len(ms)
<1>1. n \in Nat
  OBVIOUS
<1>2. PICK pass : /\ Pass(ms) = pass[n] /\ pass[0] = Start
                  /\ \A i \in 1..n : pass[i] = TransformMessage(pass[i - 1], ms[i])
  BY <1>1, PassIs
<1> DEFINE G == {m \in Nat : m <= n => Passed(ms, m, pass[m])}
<1>3. 0 \in G
  <2>1. Start = PassState(<<>>, {}, {})
    BY Zenon DEF Start, PassState
  <2>2. Sound(<<>>, 0)
    <3>1. <<>> \in Seq(Said) /\ 1..Len(<<>>) = {}
      OBVIOUS
    <3>2. QED
      BY <3>1, Zenon DEF Sound, Answered, ResultsBelong
  <2>3. Stands(Start, 0) /\ 0 \in Nat
    BY <2>1, <2>2, Zenon DEF Stands
  <2>4. Passed(ms, 0, Start)
    BY <2>3, Zenon DEF Passed, Held
  <2>5. QED
    BY <1>2, <2>4
<1>4. ASSUME NEW m \in Nat, m \in G PROVE m + 1 \in G
  <2> SUFFICES ASSUME m + 1 <= n PROVE Passed(ms, m + 1, pass[m + 1])
    OBVIOUS
  <2>1. Passed(ms, m, pass[m])
    <3>1. m <= n
      BY <1>1
    <3>2. QED
      BY <1>4, <3>1
  <2>2. m + 1 \in 1..n /\ (m + 1) - 1 = m
    BY <1>1
  <2>3. pass[m + 1] = TransformMessage(pass[m], ms[m + 1])
    BY <1>2, <2>2, Zenon
  <2>4. ms[m + 1].role \in Messages
    <3>1. ms[m + 1] \in Said
      BY <1>1, <2>2
    <3>2. QED
      BY <3>1 DEF Said
  <2>5. Passed(ms, m + 1, TransformMessage(pass[m], ms[m + 1]))
    <3>1. CASE ms[m + 1].role = "user"
      BY <2>1, <3>1, UserPasses
    <3>2. CASE ms[m + 1].role = "answer"
      BY <2>1, <3>2, AnswerPasses
    <3>3. CASE ms[m + 1].role = "failed"
      BY <2>1, <3>3, FailedPasses
    <3>4. CASE ms[m + 1].role = "result"
      BY <2>1, <3>4, ResultPasses
    <3>5. QED
      BY <2>4, <3>1, <3>2, <3>3, <3>4 DEF Messages
  <2>6. QED
    BY <2>3, <2>5, Zenon
<1> HIDE DEF G
<1>5. Nat \subseteq G
  BY <1>3, <1>4, NumberInduction
<1>6. Passed(ms, n, Pass(ms))
  <2>1. n \in G /\ n <= n
    BY <1>1, <1>5
  <2>2. QED
    BY <1>2, <2>1 DEF G
<1>7. PICK a \in Nat : Stands(Pass(ms), a)
  BY <1>6, Zenon DEF Passed
<1>8. PICK r : InsertSyntheticToolResults(Pass(ms)) = PassState(r, {}, {}) /\ Sound(r, 0)
  BY <1>7, InsertStands, Zenon
<1>9. InsertSyntheticToolResults(Pass(ms)).result = r
  BY <1>8 DEF PassState
<1>10. Transform(ms) = r
  BY <1>9, Zenon DEF Transform
<1>11. QED
  BY <1>8, <1>10, SoundIsWellFormed, Zenon

-----------------------------------------------------------------------------
(* What a branch says: results follow their answers, and a cut lies where  *)
(* somebody else speaks. *)

OthersSpeak == Spoken \ {"result"}

(* The result at j is of a call of the answer at a, and the first of it;   *)
(* nobody else spoke between the two. *)
Answers(es, a, j) ==
  /\ es[a].kind = "answer"
  /\ \A b \in (a + 1)..(j - 1) : es[b].kind \notin OthersSpeak
  /\ \E c \in es[a].calls :
       /\ es[j].calls = {c}
       /\ \A b \in (a + 1)..(j - 1) : es[b].kind = "result" => es[b].calls # {c}

ResultsOnce ==
  \A j \in 1..Len(branch) : branch[j].kind = "result" =>
    \E a \in 1..(j - 1) : Answers(branch, a, j)

(* From k on, somebody else speaks before a result does.                   *)
Speaks(es, k) ==
  \/ k = 1
  \/ \E cut \in k..Len(es) : /\ es[cut].kind \in OthersSpeak
                             /\ \A i \in k..(cut - 1) : es[i].kind # "result"

KeptSpeaks ==
  /\ \A c \in Compactions : Speaks(branch, branch[c].kept)
  /\ preparation # NotPrepared => Speaks(branch, preparation.firstKept)

TalkInv == ResultsOnce /\ KeptSpeaks

(* The entries kept with a cut are no results. *)
LEMMA FirstKeptSpeaks ==
  ASSUME NEW es \in Seq(Entries), NEW from \in 1..Len(es), CutPoints(es, from) # {}
  PROVE  Speaks(es, FirstKept(es, from))
<1> DEFINE cut == BudgetCut(es, from)
           near == {i \in from..cut : \A j \in i..(cut - 1) :
                                        es[j].kind \notin Messages \cup {"compaction"}}
<1>1. Len(es) \in Nat /\ from \in Nat /\ cut \in from..Len(es) /\ cut \in CutPoints(es, from)
  BY BranchType, BudgetCutIsCutPoint
<1>2. FirstKept(es, from) = Min(near)
  BY Zenon DEF FirstKept
<1>3. es[cut].kind \in OthersSpeak
  BY <1>1, Zenon DEF CutPoints, SpokenOf, OthersSpeak
<1> HIDE DEF cut
<1>4. cut \in near /\ near \in SUBSET (from..cut) /\ cut \in Nat
  <2>1. cut..(cut - 1) = {} /\ cut \in from..cut /\ cut \in Nat
    BY <1>1
  <2>2. QED
    BY <2>1, Zenon
<1>5. Min(near) \in near /\ Min(near) \in from..cut
  <2> HIDE DEF near
  <2>1. QED
    BY <1>1, <1>4, MinBetween
<1> DEFINE k == Min(near)
<1>6. \A j \in k..(cut - 1) : es[j].kind \notin Messages \cup {"compaction"}
  BY <1>5, Zenon
<1> HIDE DEF near, k
<1>7. cut \in k..Len(es)
  BY <1>1, <1>5 DEF k
<1>8. "result" \in Messages
  BY DEF Messages
<1>9. \A j \in k..(cut - 1) : es[j].kind # "result"
  BY <1>6, <1>8, Zenon
<1>10. QED
  BY <1>2, <1>3, <1>7, <1>9, Zenon DEF Speaks, k

(* So does a preparation keep: from its cut, or with no cut point from     *)
(* where the compaction before kept. *)
LEMMA PreparedSpeaks ==
  ASSUME IInv, TalkInv, branch # <<>>
  PROVE  Speaks(branch, Prepared(branch).firstKept)
<1> DEFINE from == BoundaryStart(branch)
           last == LastCompaction(branch)
<1>1. from \in 1..Len(branch) /\ branch \in Seq(Entries)
  BY BoundaryLies, Zenon DEF IInv, TypeOK
<1>2. Prepared(branch).firstKept = FindCutPoint(branch, from).firstKept
  <2> DEFINE cut == FindCutPoint(branch, from)
             history == SpokenOf(branch, from, (IF cut.turnStart # 0 THEN cut.turnStart
                                                ELSE cut.firstKept) - 1)
             prefix == IF cut.turnStart # 0
                       THEN SpokenOf(branch, cut.turnStart, cut.firstKept - 1) ELSE {}
             previous == IF last = 0 THEN {} ELSE branch[last].covers
             kept == cut.firstKept
  <2>1. Prepared(branch) = [firstKept |-> kept, history |-> history,
                            turnPrefix |-> prefix, previous |-> previous,
                            size |-> Len(branch)]
    BY Zenon DEF Prepared
  <2> HIDE DEF kept, history, prefix, previous
  <2>2. Prepared(branch).firstKept = kept
    BY <2>1
  <2>3. QED
    BY <2>2 DEF kept
<1>3. Speaks(branch, from)
  <2>1. CASE last = 0
    BY <2>1, Zenon DEF BoundaryStart, Speaks
  <2>2. CASE last # 0
    <3>1. last \in Compactions /\ from = branch[last].kept
      BY <2>2, BoundaryLies, Zenon DEF IInv
    <3>2. QED
      BY <3>1, Zenon DEF TalkInv, KeptSpeaks
  <2>3. QED
    BY <2>1, <2>2
<1> HIDE DEF from
<1>4. CASE CutPoints(branch, from) = {}
  <2>1. FindCutPoint(branch, from) = [firstKept |-> from, turnStart |-> 0]
    BY <1>4, Zenon DEF FindCutPoint
  <2>2. FindCutPoint(branch, from).firstKept = from
    BY <2>1
  <2>3. QED
    BY <1>2, <1>3, <2>2, Zenon
<1>5. CASE CutPoints(branch, from) # {}
  <2> DEFINE kept == FirstKept(branch, from)
             start == IF branch[kept].kind = "user" THEN 0 ELSE TurnStart(branch, kept, from)
  <2>1. FindCutPoint(branch, from) = [firstKept |-> kept, turnStart |-> start]
    BY <1>5, Zenon DEF FindCutPoint
  <2>2. Speaks(branch, kept)
    BY <1>1, <1>5, FirstKeptSpeaks
  <2> HIDE DEF kept, start
  <2>3. FindCutPoint(branch, from).firstKept = kept
    BY <2>1
  <2>4. QED
    BY <1>2, <2>2, <2>3, Zenon
<1>6. QED
  BY <1>4, <1>5

(* A call that is owed is of an answer nobody spoke behind, and has no     *)
(* result there. *)
LEMMA OwedAnswers ==
  ASSUME IInv, NEW c \in Owed
  PROVE  \E a \in 1..Len(branch) :
           /\ branch[a].kind = "answer" /\ c \in branch[a].calls
           /\ \A b \in (a + 1)..Len(branch) : /\ branch[b].kind \notin OthersSpeak
                                              /\ branch[b].calls # {c}
<1> DEFINE answers == {i \in DOMAIN branch : branch[i].kind = "answer"}
           last == Max(answers)
           behind == {branch[i] : i \in (last + 1)..Len(branch)}
<1>1. Owed = IF answers = {} \/ \E e \in behind : e.kind \in Spoken \ {"result"}
             THEN {} ELSE branch[last].calls \ UNION {e.calls : e \in behind}
  BY Zenon DEF Owed
<1>2. Len(branch) \in Nat /\ DOMAIN branch = 1..Len(branch)
  BY BranchType DEF IInv, TypeOK
<1>3. answers \in SUBSET (1..Len(branch))
  BY <1>2, Zenon
<1>4. /\ answers # {}
      /\ \A i \in (last + 1)..Len(branch) : branch[i].kind \notin OthersSpeak
      /\ c \in branch[last].calls
      /\ \A i \in (last + 1)..Len(branch) : c \notin branch[i].calls
  <2> HIDE DEF answers, last
  <2>1. answers # {} /\ ~ \E e \in behind : e.kind \in Spoken \ {"result"}
    <3> HIDE DEF behind
    <3>1. QED
      BY <1>1, Zenon
  <2>2. c \in branch[last].calls \ UNION {e.calls : e \in behind}
    <3> HIDE DEF behind
    <3>1. QED
      BY <1>1, <2>1, Zenon
  <2>3. \A i \in (last + 1)..Len(branch) : branch[i] \in behind
    BY Zenon
  <2> HIDE DEF behind
  <2>4. \A i \in (last + 1)..Len(branch) : c \notin branch[i].calls
    BY <2>2, <2>3, Zenon
  <2>5. \A i \in (last + 1)..Len(branch) : branch[i].kind \notin OthersSpeak
    BY <2>1, <2>3, Zenon DEF OthersSpeak
  <2>6. QED
    BY <2>1, <2>2, <2>4, <2>5, Zenon
<1>5. last \in answers /\ last \in 1..Len(branch)
  <2> HIDE DEF answers
  <2>1. QED
    BY <1>2, <1>3, <1>4, MaxBetween
<1>6. branch[last].kind = "answer"
  BY <1>5, Zenon
<1> HIDE DEF last
<1>7. \A i \in (last + 1)..Len(branch) : branch[i].calls # {c}
  BY <1>4, Zenon
<1>8. QED
  BY <1>4, <1>5, <1>6, <1>7, Zenon

(* What was said stays said, however the branch goes on.                   *)
LEMMA GrowthTalks ==
  ASSUME IInv, TalkInv, NEW e \in Entries, branch' = Append(branch, e),
         preparation' = preparation \/ preparation' = NotPrepared,
         e.kind = "compaction" => e.kept \in Nat \ {0} /\ Speaks(branch, e.kept),
         e.kind = "result" =>
           \E a \in 1..Len(branch), c \in e.calls :
             /\ branch[a].kind = "answer" /\ c \in branch[a].calls /\ e.calls = {c}
             /\ \A b \in (a + 1)..Len(branch) : /\ branch[b].kind \notin OthersSpeak
                                                /\ branch[b].calls # {c}
  PROVE  TalkInv'
<1> DEFINE n == Len(branch)
           es == branch'
<1>1. branch \in Seq(Entries) /\ n \in Nat /\ DOMAIN branch = 1..n
  BY BranchType DEF IInv, TypeOK
<1>2. /\ es \in Seq(Entries) /\ Len(es) = n + 1
      /\ \A i \in 1..n : es[i] = branch[i]
      /\ es[n + 1] = e
  BY <1>1, Grown
<1>3. DOMAIN es = 1..(n + 1)
  BY <1>2, BranchType
<1>4. \A i \in 1..(n + 1) : i \in 1..n \/ i = n + 1
  BY <1>1
<1> HIDE DEF n, es
<1>5. ASSUME NEW k \in Nat \ {0}, Speaks(branch, k) PROVE Speaks(es, k)
  <2>1. CASE k = 1
    BY <2>1, Zenon DEF Speaks
  <2>2. CASE k # 1
    <3>1. PICK cut \in k..n : /\ branch[cut].kind \in OthersSpeak
                              /\ \A i \in k..(cut - 1) : branch[i].kind # "result"
      BY <1>5, <2>2, Zenon DEF Speaks, n
    <3>2. cut \in 1..n /\ cut \in k..(n + 1) /\ \A i \in k..(cut - 1) : i \in 1..n
      BY <1>1
    <3>3. es[cut].kind \in OthersSpeak /\ \A i \in k..(cut - 1) : es[i].kind # "result"
      BY <1>2, <3>1, <3>2, Zenon
    <3>4. QED
      BY <1>2, <3>2, <3>3, Zenon DEF Speaks
  <2>3. QED
    BY <2>1, <2>2
<1>6. ASSUME NEW j \in 1..(n + 1), es[j].kind = "result"
      PROVE  \E a \in 1..(j - 1) : Answers(es, a, j)
  <2>1. CASE j \in 1..n
    <3>1. branch[j].kind = "result" /\ es[j] = branch[j]
      BY <1>2, <1>6, <2>1
    <3>2. PICK a \in 1..(j - 1) : Answers(branch, a, j)
      BY <2>1, <3>1, Zenon DEF TalkInv, ResultsOnce, n
    <3>3. a \in 1..n /\ \A b \in (a + 1)..(j - 1) : b \in 1..n
      BY <1>1, <2>1
    <3>4. es[a] = branch[a] /\ \A b \in (a + 1)..(j - 1) : es[b] = branch[b]
      BY <1>2, <3>3, Zenon
    <3>5. PICK c \in branch[a].calls :
            /\ branch[j].calls = {c}
            /\ \A b \in (a + 1)..(j - 1) : branch[b].kind = "result" => branch[b].calls # {c}
      BY <3>2, Zenon DEF Answers
    <3>6. es[a].kind = "answer" /\ c \in es[a].calls /\ es[j].calls = {c}
      BY <3>1, <3>2, <3>4, <3>5, Zenon DEF Answers
    <3>7. \A b \in (a + 1)..(j - 1) : es[b].kind \notin OthersSpeak
      BY <3>2, <3>4, Zenon DEF Answers
    <3>8. \A b \in (a + 1)..(j - 1) : es[b].kind = "result" => es[b].calls # {c}
      BY <3>4, <3>5, Zenon
    <3>9. QED
      BY <3>6, <3>7, <3>8, Zenon DEF Answers
  <2>2. CASE j = n + 1
    <3>1. es[j] = e /\ e.kind = "result"
      BY <1>2, <1>6, <2>2, Zenon
    <3>2. PICK a \in 1..n, c \in e.calls :
             /\ branch[a].kind = "answer" /\ c \in branch[a].calls /\ e.calls = {c}
             /\ \A b \in (a + 1)..n : /\ branch[b].kind \notin OthersSpeak
                                      /\ branch[b].calls # {c}
      BY <3>1, Zenon DEF n
    <3>3. j - 1 = n /\ \A b \in (a + 1)..n : b \in 1..n
      BY <1>1, <2>2
    <3>4. es[a] = branch[a] /\ \A b \in (a + 1)..n : es[b] = branch[b]
      BY <1>2, <3>3, Zenon
    <3>5. es[a].kind = "answer" /\ c \in es[a].calls /\ es[j].calls = {c}
      BY <3>1, <3>2, <3>4, Zenon
    <3>6. \A b \in (a + 1)..n : es[b].kind \notin OthersSpeak
      BY <3>2, <3>4, Zenon
    <3>7. \A b \in (a + 1)..n : es[b].kind = "result" => es[b].calls # {c}
      BY <3>2, <3>4, Zenon
    <3>8. Answers(es, a, j)
      BY <3>3, <3>5, <3>6, <3>7, Zenon DEF Answers
    <3>9. QED
      BY <3>3, <3>8, Zenon
  <2>3. QED
    BY <1>4, <2>1, <2>2
<1>7. ResultsOnce'
  BY <1>2, <1>6, Zenon DEF ResultsOnce, es
<1>8. ASSUME NEW c \in Compactions' PROVE Speaks(es, es[c].kept)
  <2>1. c \in 1..(n + 1) /\ es[c].kind = "compaction"
    BY <1>3, <1>8, Zenon DEF Compactions, es
  <2>2. CASE c \in 1..n
    <3>1. es[c] = branch[c] /\ c \in Compactions
      <4>1. es[c] = branch[c]
        BY <1>2, <2>2
      <4>2. QED
        BY <1>1, <2>1, <2>2, <4>1, Zenon DEF Compactions
    <3>2. branch[c].kept \in 1..(c - 1) /\ Speaks(branch, branch[c].kept)
      BY <3>1, Zenon DEF IInv, KeptBehind, TalkInv, KeptSpeaks
    <3>3. branch[c].kept \in Nat \ {0}
      BY <3>2
    <3>4. QED
      BY <1>5, <3>1, <3>2, <3>3, Zenon
  <2>3. CASE c = n + 1
    <3>1. es[c] = e /\ e.kept \in Nat \ {0} /\ Speaks(branch, e.kept)
      BY <1>2, <2>1, <2>3, Zenon
    <3>2. QED
      BY <1>5, <3>1, Zenon
  <2>4. QED
    BY <1>4, <2>1, <2>2, <2>3
<1>9. preparation' # NotPrepared => Speaks(es, preparation'.firstKept)
  <2> SUFFICES ASSUME preparation' # NotPrepared
               PROVE  Speaks(es, preparation'.firstKept)
    OBVIOUS
  <2>1. preparation' = preparation /\ preparation # NotPrepared
    BY Zenon
  <2>2. preparation.firstKept \in 1..preparation.size /\ Speaks(branch, preparation.firstKept)
    BY <2>1, Zenon DEF IInv, TypeOK, TalkInv, KeptSpeaks
  <2>3. preparation.firstKept \in Nat \ {0}
    <3>1. preparation.size \in Nat
      BY DEF IInv, Preparations
    <3>2. QED
      BY <2>2, <3>1
  <2>4. QED
    BY <1>5, <2>1, <2>2, <2>3, Zenon
<1>10. KeptSpeaks'
  BY <1>8, <1>9, Zenon DEF KeptSpeaks, es
<1>11. QED
  BY <1>7, <1>10, Zenon DEF TalkInv

(* An empty branch says nothing. *)
LEMMA TalkInit == Init => TalkInv
<1> SUFFICES ASSUME Init PROVE TalkInv
  OBVIOUS
<1>1. branch = <<>> /\ preparation = NotPrepared
  BY DEF Init
<1>2. 1..Len(branch) = {} /\ DOMAIN branch = {}
  BY <1>1
<1>3. QED
  BY <1>1, <1>2, Zenon DEF TalkInv, ResultsOnce, KeptSpeaks, Compactions

(* The steps, one by one. *)
LEMMA TalkStep == IInv /\ TalkInv /\ [Next]_vars => TalkInv'
<1> SUFFICES ASSUME IInv, TalkInv, [Next]_vars PROVE TalkInv'
  OBVIOUS
<1> DEFINE Calls == SUBSET ((1..MaxEntries) \X (1..MaxCalls))
<1>1. ASSUME branch' = branch,
             preparation' # NotPrepared => Speaks(branch, preparation'.firstKept)
      PROVE  TalkInv'
  <2>1. ResultsOnce'
    BY <1>1, Zenon DEF TalkInv, ResultsOnce
  <2>2. Compactions' = Compactions
    BY <1>1, Zenon DEF Compactions
  <2>3. KeptSpeaks'
    BY <1>1, <2>2, Zenon DEF TalkInv, KeptSpeaks
  <2>4. QED
    BY <2>1, <2>3, Zenon DEF TalkInv
<1>2. ASSUME NEW kind, NEW size, NEW calls, kind \notin {"result", "compaction"},
             Speak(Entry(kind, size, calls)), IInv'
      PROVE  TalkInv'
  <2> DEFINE e == Entry(kind, size, calls)
             n == Len(branch)
  <2>1. branch' = Append(branch, e) /\ preparation' = preparation
    BY <1>2, Zenon DEF Speak, Add
  <2>2. e.kind = kind
    BY DEF Entry
  <2>3. e \in Entries
    <3>1. branch' \in Seq(Entries) /\ branch \in Seq(Entries)
      BY <1>2, Zenon DEF IInv, TypeOK
    <3> HIDE DEF e
    <3>2. n + 1 \in 1..Len(branch') /\ branch'[n + 1] = e
      BY <2>1, <3>1
    <3>3. QED
      BY <3>1, <3>2
  <2> HIDE DEF e
  <2>4. e.kind # "result" /\ e.kind # "compaction"
    BY <1>2, <2>2
  <2>5. QED
    BY <2>1, <2>3, <2>4, GrowthTalks
<1>3. IInv'
  BY InvStep
<1>4. CASE Prompt
  <2>1. PICK size \in SizesOf["user"] : Speak(Entry("user", size, {}))
    BY <1>4, Zenon DEF Prompt
  <2>2. "user" \notin {"result", "compaction"}
    OBVIOUS
  <2>3. QED
    BY <1>2, <1>3, <2>1, <2>2, Zenon
<1>5. CASE Answer
  <2>1. PICK size \in SizesOf["answer"], k \in 0..MaxCalls :
          Speak(Entry("answer", size, {<<Len(branch) + 1, c>> : c \in 1..k}))
    BY <1>5, Zenon DEF Answer
  <2>2. "answer" \notin {"result", "compaction"}
    OBVIOUS
  <2>3. QED
    BY <1>2, <1>3, <2>1, <2>2, Zenon
<1>6. CASE FailedAnswer
  <2>1. PICK size \in SizesOf["failed"] : Speak(Entry("failed", size, {<<Len(branch) + 1, 1>>}))
    BY <1>6, Zenon DEF FailedAnswer
  <2>2. "failed" \notin {"result", "compaction"}
    OBVIOUS
  <2>3. QED
    BY <1>2, <1>3, <2>1, <2>2, Zenon
<1>7. CASE Result
  <2> DEFINE c == CHOOSE c \in Owed : \A d \in Owed : c[2] <= d[2]
  <2>1. PICK size \in SizesOf["result"] : Speak(Entry("result", size, {c}))
    BY <1>7, Zenon DEF Result
  <2>2. c \in Owed
    BY <1>7, FirstOwed, Zenon DEF Result, IInv
  <2>3. size \in Nat
    BY CompactionAssumption DEF Messages
  <2>4. Owed \in Calls
    BY OwedType DEF IInv
  <2> HIDE DEF c
  <2>5. {c} \in Calls /\ "result" \in Spoken \cup {"note"}
    BY <2>2, <2>4 DEF Spoken, Messages
  <2>6. PICK a \in 1..Len(branch) :
          /\ branch[a].kind = "answer" /\ c \in branch[a].calls
          /\ \A b \in (a + 1)..Len(branch) : /\ branch[b].kind \notin OthersSpeak
                                             /\ branch[b].calls # {c}
    BY <2>2, OwedAnswers, Zenon
  <2> DEFINE e == Entry("result", size, {c})
  <2>7. branch' = Append(branch, e) /\ preparation' = preparation
    BY <2>1, Zenon DEF Speak, Add
  <2>8. e.kind = "result" /\ e.calls = {c}
    BY DEF Entry
  <2>9. e \in Entries
    BY <2>3, <2>5, EntryType, Zenon
  <2> HIDE DEF e
  <2>10. e.kind # "compaction" /\ c \in e.calls
    BY <2>8
  <2>11. e.kind = "result" =>
           \E q \in 1..Len(branch), d \in e.calls :
             /\ branch[q].kind = "answer" /\ d \in branch[q].calls /\ e.calls = {d}
             /\ \A b \in (q + 1)..Len(branch) : /\ branch[b].kind \notin OthersSpeak
                                                /\ branch[b].calls # {d}
    BY <2>6, <2>8, <2>10, Zenon
  <2>12. QED
    BY <2>7, <2>9, <2>10, <2>11, GrowthTalks
<1>8. CASE Custom
  <2>1. Speak(Entry("custom", 0, {})) /\ "custom" \notin {"result", "compaction"}
    BY <1>8 DEF Custom
  <2>2. QED
    BY <1>2, <1>3, <2>1, Zenon
<1>9. CASE Note
  <2>1. Speak(Entry("note", 0, {})) /\ "note" \notin {"result", "compaction"}
    BY <1>9 DEF Note
  <2>2. QED
    BY <1>2, <1>3, <2>1, Zenon
<1>10. CASE PrepareCompaction
  <2>1. branch' = branch /\ branch # <<>> /\ preparation' = Prepared(branch)
    BY <1>10 DEF PrepareCompaction
  <2>2. Speaks(branch, preparation'.firstKept)
    BY <2>1, PreparedSpeaks, Zenon
  <2>3. QED
    BY <1>1, <2>1, <2>2, Zenon
<1>11. CASE AppendCompaction
  <2> DEFINE kept == preparation.firstKept
             covers == Summary(preparation)
             e == CompactionEntry(kept, covers)
             n == Len(branch)
  <2>1. branch' = Append(branch, e) /\ preparation # NotPrepared /\ preparation' = NotPrepared
    BY <1>11, Zenon DEF AppendCompaction, Add
  <2>2. e.kind = "compaction" /\ e.kept = kept
    BY DEF CompactionEntry, Entry
  <2>3. e \in Entries
    <3>1. branch' \in Seq(Entries) /\ branch \in Seq(Entries)
      BY <1>3, Zenon DEF IInv, TypeOK
    <3> HIDE DEF e
    <3>2. n + 1 \in 1..Len(branch') /\ branch'[n + 1] = e
      BY <2>1, <3>1
    <3>3. QED
      BY <3>1, <3>2
  <2>4. kept \in Nat \ {0}
    <3>1. preparation.firstKept \in 1..preparation.size /\ preparation.size \in Nat
      <4>1. preparation.firstKept \in 1..preparation.size
        BY <2>1, Zenon DEF IInv, TypeOK
      <4>2. preparation.size \in Nat
        BY DEF IInv, Preparations
      <4>3. QED
        BY <4>1, <4>2
    <3>2. QED
      BY <3>1
  <2>5. Speaks(branch, kept)
    BY <2>1, Zenon DEF TalkInv, KeptSpeaks
  <2> HIDE DEF e, kept
  <2>6. /\ e.kind # "result"
        /\ e.kind = "compaction" => e.kept \in Nat \ {0} /\ Speaks(branch, e.kept)
    BY <2>2, <2>4, <2>5
  <2>7. QED
    BY <2>1, <2>3, <2>6, GrowthTalks
<1>12. CASE CompactionFails
  <2>1. branch' = branch /\ preparation' = NotPrepared
    BY <1>12 DEF CompactionFails
  <2>2. QED
    BY <1>1, <2>1, Zenon
<1>13. CASE UNCHANGED vars
  <2>1. branch' = branch /\ preparation' = preparation
    BY <1>13 DEF vars
  <2>2. QED
    BY <1>1, <2>1, Zenon DEF TalkInv, KeptSpeaks
<1>14. QED
  BY <1>4, <1>5, <1>6, <1>7, <1>8, <1>9, <1>10, <1>11, <1>12, <1>13, Zenon DEF Next

-----------------------------------------------------------------------------
(* What the context sees of the branch.                                    *)

(* The entries that speak, from where the last compaction kept on.         *)
LEMMA VisibleIs ==
  ASSUME IInv
  PROVE  /\ \A i : i \in Visible <=> /\ i \in BoundaryStart(branch)..Len(branch)
                                     /\ branch[i].kind \in Spoken
         /\ Visible \subseteq 1..Len(branch)
<1> DEFINE n == Len(branch)
           c == LastCompaction(branch)
           from == BoundaryStart(branch)
<1>1. n \in Nat /\ DOMAIN branch = 1..n
  BY BranchType DEF IInv, TypeOK
<1>2. CASE c = 0
  <2>1. Visible = SpokenOf(branch, 1, n) /\ from = 1
    BY <1>2, Zenon DEF Visible, BoundaryStart
  <2>2. QED
    BY <2>1, Zenon DEF SpokenOf
<1>3. CASE c # 0
  <2>1. branch # <<>>
    <3> SUFFICES ASSUME branch = <<>> PROVE FALSE
      OBVIOUS
    <3>1. DOMAIN branch = {}
      OBVIOUS
    <3>2. QED
      BY <1>3, <3>1, Zenon DEF LastCompaction
  <2>2. c \in Compactions /\ from = branch[c].kept /\ from \in 1..(c - 1)
    BY <1>3, <2>1, BoundaryLies, Zenon DEF IInv
  <2>3. c \in 1..n /\ branch[c].kind = "compaction"
    BY <1>1, <2>2, Zenon DEF Compactions
  <2>4. Visible = SpokenOf(branch, from, c - 1) \cup SpokenOf(branch, c + 1, n)
    BY <1>3, <2>2, Zenon DEF Visible
  <2>5. branch[c].kind \notin Spoken
    BY <2>3 DEF Spoken, Messages
  <2> HIDE DEF c, from, n
  <2>6. \A i : i \in from..n <=> i \in from..(c - 1) \/ i = c \/ i \in (c + 1)..n
    BY <1>1, <2>2, <2>3
  <2>7. \A i : i \in Visible <=> i \in from..n /\ branch[i].kind \in Spoken
    BY <2>4, <2>5, <2>6, Zenon DEF SpokenOf
  <2>8. from..n \subseteq 1..n
    BY <1>1, <2>2, <2>3
  <2>9. QED
    BY <2>7, <2>8, Zenon DEF from, n
<1>4. QED
  BY <1>2, <1>3

(* With a result, the context sees the answer it belongs to.               *)
LEMMA AnswerIsVisible ==
  ASSUME IInv, TalkInv, NEW j \in Visible, branch[j].kind = "result",
         NEW a \in 1..(j - 1), Answers(branch, a, j)
  PROVE  a \in Visible
<1> DEFINE from == BoundaryStart(branch)
           n == Len(branch)
<1>1. branch # <<>>
  <2>1. j \in 1..Len(branch)
    BY VisibleIs, Zenon
  <2>2. QED
    BY <2>1
<1>2. n \in Nat /\ from \in 1..n
  BY <1>1, BranchType, BoundaryLies DEF IInv, TypeOK
<1>3. j \in from..n
  BY VisibleIs, Zenon
<1>4. Speaks(branch, from)
  <2>1. CASE LastCompaction(branch) = 0
    BY <2>1, Zenon DEF BoundaryStart, Speaks
  <2>2. CASE LastCompaction(branch) # 0
    <3>1. LastCompaction(branch) \in Compactions /\ from = branch[LastCompaction(branch)].kept
      BY <1>1, <2>2, BoundaryLies, Zenon DEF IInv
    <3>2. QED
      BY <3>1, Zenon DEF TalkInv, KeptSpeaks
  <2>3. QED
    BY <2>1, <2>2
<1>5. branch[a].kind = "answer" /\ \A b \in (a + 1)..(j - 1) : branch[b].kind \notin OthersSpeak
  BY Zenon DEF Answers
<1> HIDE DEF from, n
<1>6. a >= from
  <2>1. CASE from = 1
    BY <1>2, <2>1
  <2>2. CASE from # 1
    <3>1. PICK cut \in from..n : /\ branch[cut].kind \in OthersSpeak
                                 /\ \A i \in from..(cut - 1) : branch[i].kind # "result"
      BY <1>4, <2>2, Zenon DEF Speaks, n
    <3>2. j \notin from..(cut - 1)
      BY <3>1, Zenon
    <3>3. j # cut
      BY <3>1, Zenon DEF OthersSpeak
    <3>4. cut < j
      BY <1>2, <1>3, <3>2, <3>3
    <3>5. cut \notin (a + 1)..(j - 1)
      BY <1>5, <3>1, Zenon
    <3>6. QED
      BY <1>2, <1>3, <3>4, <3>5
  <2>3. QED
    BY <2>1, <2>2
<1>7. a \in from..n
  BY <1>2, <1>3, <1>6
<1>8. branch[a].kind \in Spoken
  BY <1>5 DEF Spoken, Messages
<1>9. QED
  BY <1>7, <1>8, VisibleIs, Zenon DEF from, n

-----------------------------------------------------------------------------
(* The context, as far as it is a function.                                *)

Opening == IF LastCompaction(branch) = 0 THEN <<>> ELSE <<Message("user", {})>>

Telling(told, visible, i) ==
  IF i \in visible THEN Append(told[i - 1], Told(branch[i])) ELSE told[i - 1]

IsTold(n, visible, told) ==
  told = [i \in 0..n |-> IF i = 0 THEN Opening ELSE Telling(told, visible, i)]

(* There is one, for as many entries as one likes.                         *)
LEMMA ToldTo ==
  ASSUME NEW visible
  PROVE  \A n \in Nat : \E told : IsTold(n, visible, told)
<1> DEFINE G == {n \in Nat : \E told : IsTold(n, visible, told)}
<1>1. 0 \in G
  <2> DEFINE told == [i \in 0..0 |-> Opening]
  <2>1. told = [i \in 0..0 |-> IF i = 0 THEN Opening ELSE Telling(told, visible, i)]
    OBVIOUS
  <2> HIDE DEF told
  <2>2. IsTold(0, visible, told)
    BY <2>1, Zenon DEF IsTold
  <2>3. QED
    BY <2>2
<1>2. ASSUME NEW n \in Nat, n \in G PROVE n + 1 \in G
  <2>1. PICK told : IsTold(n, visible, told)
    BY <1>2
  <2> DEFINE last == Telling(told, visible, n + 1)
             longer == [i \in 0..(n + 1) |-> IF i = n + 1 THEN last ELSE told[i]]
  <2>2. /\ \A i \in 0..n : i \in 0..(n + 1) /\ i # n + 1
        /\ \A i \in 1..n : i \in 0..n /\ i - 1 \in 0..n /\ i # 0
        /\ n + 1 \in 0..(n + 1) /\ (n + 1) - 1 = n /\ n \in 0..n /\ n + 1 # 0
        /\ 0 \in 0..n
        /\ \A i \in 0..(n + 1) : i = 0 \/ i \in 1..n \/ i = n + 1
    OBVIOUS
  <2>3. longer[n + 1] = last /\ \A i \in 0..n : longer[i] = told[i]
    <3> HIDE DEF last
    <3>1. QED
      BY <2>2, Zenon
  <2>4. \A i \in 0..n : told[i] = IF i = 0 THEN Opening ELSE Telling(told, visible, i)
    BY <2>1, Zenon DEF IsTold
  <2>5. longer = [i \in 0..(n + 1) |-> longer[i]]
    OBVIOUS
  <2> HIDE DEF longer
  <2>6. \A i : longer[i - 1] = told[i - 1] =>
          Telling(longer, visible, i) = Telling(told, visible, i)
    BY Zenon DEF Telling
  <2>7. ASSUME NEW i \in 0..(n + 1)
        PROVE  longer[i] = IF i = 0 THEN Opening ELSE Telling(longer, visible, i)
    <3>1. CASE i = 0
      BY <2>2, <2>3, <2>4, <3>1, Zenon
    <3>2. CASE i \in 1..n
      <4>1. longer[i] = told[i] /\ longer[i - 1] = told[i - 1]
        BY <2>2, <2>3, <3>2, Zenon
      <4>2. told[i] = Telling(told, visible, i)
        BY <2>2, <2>4, <3>2, Zenon
      <4>3. QED
        BY <2>2, <2>6, <3>2, <4>1, <4>2, Zenon
    <3>3. CASE i = n + 1
      <4>1. longer[i] = Telling(told, visible, i)
        BY <2>3, <3>3, Zenon
      <4>2. longer[i - 1] = told[i - 1]
        BY <2>2, <2>3, <3>3, Zenon
      <4>3. QED
        BY <2>2, <2>6, <3>3, <4>1, <4>2, Zenon
    <3>4. QED
      BY <2>2, <3>1, <3>2, <3>3, Zenon
  <2>8. longer = [i \in 0..(n + 1) |-> IF i = 0 THEN Opening ELSE Telling(longer, visible, i)]
    BY <2>5, <2>7, Zenon
  <2>9. IsTold(n + 1, visible, longer)
    BY <2>8, Zenon DEF IsTold
  <2>10. QED
    BY <2>9
<1> HIDE DEF G
<1>3. Nat \subseteq G
  BY <1>1, <1>2, NumberInduction
<1>4. QED
  BY <1>3 DEF G

(* It is what Context computes. *)
LEMMA ContextIs ==
  ASSUME Len(branch) \in Nat
  PROVE  \E told : /\ Context = told[Len(branch)] /\ told[0] = Opening
                   /\ \A i \in 1..Len(branch) : told[i] = Telling(told, Visible, i)
<1> DEFINE n == Len(branch)
           told == CHOOSE f : IsTold(n, Visible, f)
<1>1. IsTold(n, Visible, told)
  BY ToldTo, Zenon
<1>2. Context = told[n]
  BY Zenon DEF Context, IsTold, Opening, Telling
<1> HIDE DEF told
<1>3. \A i \in 0..n : told[i] = IF i = 0 THEN Opening ELSE Telling(told, Visible, i)
  BY <1>1, Zenon DEF IsTold
<1>4. 0 \in 0..n /\ \A i \in 1..n : i \in 0..n /\ i # 0
  OBVIOUS
<1>5. QED
  BY <1>2, <1>3, <1>4, Zenon

(* An entry is told as a message. *)
LEMMA ToldType ==
  ASSUME NEW e \in Entries, e.kind \in Spoken
  PROVE  /\ Told(e) \in Said /\ Told(e).calls = e.calls
         /\ Told(e).role = IF e.kind = "custom" THEN "user" ELSE e.kind
<1> DEFINE role == IF e.kind = "custom" THEN "user" ELSE e.kind
<1>1. role \in Messages
  BY DEF Spoken, Messages
<1>2. e.calls \in SUBSET AllCalls
  BY EntryFields DEF AllCalls
<1>3. Told(e) = Message(role, e.calls)
  BY Zenon DEF Told
<1> HIDE DEF role
<1>4. Told(e) \in Said /\ Told(e).role = role /\ Told(e).calls = e.calls
  <2>1. Message(role, e.calls) \in Said /\ Message(role, e.calls).role = role
        /\ Message(role, e.calls).calls = e.calls
    BY <1>1, <1>2, MessageType
  <2>2. QED
    BY <1>3, <2>1, Zenon
<1>5. QED
  BY <1>4, Zenon DEF role

(* A message behind a context whose results follow their answers.          *)
LEMMA FollowsOn ==
  ASSUME NEW t \in Seq(Said), ResultsFollow(t), NEW m \in Said,
         m.role = "result" =>
           \E x \in 1..Len(t) :
             /\ t[x].role = "answer"
             /\ \A k \in (x + 1)..Len(t) : t[k].role = "result"
             /\ \E c \in t[x].calls : /\ m.calls = {c}
                                      /\ \A k \in (x + 1)..Len(t) : t[k].calls # {c}
  PROVE  ResultsFollow(Append(t, m))
<1> DEFINE n == Len(t)
           u == Append(t, m)
<1>1. n \in Nat /\ Len(u) = n + 1 /\ u[n + 1] = m /\ \A i \in 1..n : u[i] = t[i]
  OBVIOUS
<1> HIDE DEF n, u
<1>2. \A j \in 1..(n + 1) : j \in 1..n \/ j = n + 1
  BY <1>1
<1>3. (n + 1) - 1 = n /\ \A j \in 1..n : \A x \in 1..(j - 1) :
        x \in 1..n /\ \A k \in (x + 1)..(j - 1) : k \in 1..n
  BY <1>1
<1>4. ASSUME NEW j \in 1..n, u[j].role = "result"
      PROVE  \E x \in 1..(j - 1) :
               /\ u[x].role = "answer"
               /\ \A k \in (x + 1)..(j - 1) : u[k].role = "result"
               /\ \E c \in u[x].calls : /\ u[j].calls = {c}
                                        /\ \A k \in (x + 1)..(j - 1) : u[k].calls # {c}
  <2>1. t[j].role = "result" /\ u[j] = t[j]
    BY <1>1, <1>4
  <2>2. PICK x \in 1..(j - 1) :
          /\ t[x].role = "answer"
          /\ \A k \in (x + 1)..(j - 1) : t[k].role = "result"
          /\ \E c \in t[x].calls : /\ t[j].calls = {c}
                                   /\ \A k \in (x + 1)..(j - 1) : t[k].calls # {c}
    BY <2>1, Zenon DEF ResultsFollow, n
  <2>3. u[x] = t[x] /\ \A k \in (x + 1)..(j - 1) : u[k] = t[k]
    BY <1>1, <1>3, Zenon
  <2>4. PICK c \in t[x].calls : /\ t[j].calls = {c}
                                /\ \A k \in (x + 1)..(j - 1) : t[k].calls # {c}
    BY <2>2, Zenon
  <2>5. u[x].role = "answer" /\ c \in u[x].calls /\ u[j].calls = {c}
    BY <2>1, <2>2, <2>3, <2>4, Zenon
  <2>6. \A k \in (x + 1)..(j - 1) : u[k].role = "result" /\ u[k].calls # {c}
    BY <2>2, <2>3, <2>4, Zenon
  <2>7. \E d \in u[x].calls : /\ u[j].calls = {d}
                              /\ \A k \in (x + 1)..(j - 1) : u[k].calls # {d}
    BY <2>5, <2>6, Zenon
  <2>8. \A k \in (x + 1)..(j - 1) : u[k].role = "result"
    BY <2>6, Zenon
  <2>9. QED
    BY <2>2, <2>5, <2>7, <2>8, Zenon
<1>5. ASSUME m.role = "result"
      PROVE  \E x \in 1..n :
               /\ u[x].role = "answer"
               /\ \A k \in (x + 1)..n : u[k].role = "result"
               /\ \E c \in u[x].calls : /\ m.calls = {c}
                                        /\ \A k \in (x + 1)..n : u[k].calls # {c}
  <2>1. PICK x \in 1..n :
          /\ t[x].role = "answer"
          /\ \A k \in (x + 1)..n : t[k].role = "result"
          /\ \E c \in t[x].calls : /\ m.calls = {c}
                                   /\ \A k \in (x + 1)..n : t[k].calls # {c}
    BY <1>5, Zenon DEF n
  <2>2. \A k \in (x + 1)..n : k \in 1..n
    BY <1>1
  <2>3. u[x] = t[x] /\ \A k \in (x + 1)..n : u[k] = t[k]
    BY <1>1, <2>2, Zenon
  <2>4. PICK c \in t[x].calls : m.calls = {c} /\ \A k \in (x + 1)..n : t[k].calls # {c}
    BY <2>1, Zenon
  <2>5. u[x].role = "answer" /\ c \in u[x].calls
    BY <2>1, <2>3, <2>4, Zenon
  <2>6. \A k \in (x + 1)..n : u[k].role = "result" /\ u[k].calls # {c}
    BY <2>1, <2>3, <2>4, Zenon
  <2>7. \E d \in u[x].calls : /\ m.calls = {d}
                              /\ \A k \in (x + 1)..n : u[k].calls # {d}
    BY <2>4, <2>5, <2>6, Zenon
  <2>8. \A k \in (x + 1)..n : u[k].role = "result"
    BY <2>6, Zenon
  <2>9. QED
    BY <2>1, <2>5, <2>7, <2>8, Zenon
<1>6. ResultsFollow(u)
  <2> SUFFICES ASSUME NEW j \in 1..Len(u), u[j].role = "result"
               PROVE  \E x \in 1..(j - 1) :
                        /\ u[x].role = "answer"
                        /\ \A k \in (x + 1)..(j - 1) : u[k].role = "result"
                        /\ \E c \in u[x].calls :
                             /\ u[j].calls = {c}
                             /\ \A k \in (x + 1)..(j - 1) : u[k].calls # {c}
    BY Zenon DEF ResultsFollow
  <2>1. CASE j \in 1..n
    BY <1>4, <2>1, Zenon
  <2>2. CASE j = n + 1
    <3>1. u[j] = m /\ m.role = "result" /\ j - 1 = n
      BY <1>1, <1>3, <2>2, Zenon
    <3>2. QED
      BY <1>5, <3>1, Zenon
  <2>3. QED
    BY <1>1, <1>2, <2>1, <2>2
<1>7. QED
  BY <1>6 DEF u

(* What the first i entries tell: behind an answer that the context sees   *)
(* and nobody spoke after are the results of the branch, or some of them.  *)
Follows(t, i) ==
  /\ t \in Seq(Said) /\ ResultsFollow(t)
  /\ \A a \in Visible :
       (/\ a <= i /\ branch[a].kind = "answer"
        /\ \A b \in (a + 1)..i : branch[b].kind \notin OthersSpeak)
       => \E x \in 1..Len(t) :
            /\ t[x] = Told(branch[a])
            /\ \A k \in (x + 1)..Len(t) :
                 /\ t[k].role = "result"
                 /\ \E b \in (a + 1)..i : /\ branch[b].kind = "result"
                                          /\ t[k].calls = branch[b].calls

(* The summary, or nothing. *)
LEMMA OpeningFollows == IInv => Follows(Opening, 0)
<1> SUFFICES ASSUME IInv PROVE Follows(Opening, 0)
  OBVIOUS
<1>1. ASSUME NEW a \in Visible PROVE ~(a <= 0)
  <2>1. a \in 1..Len(branch)
    BY VisibleIs, Zenon
  <2>2. QED
    BY <2>1
<1>2. Opening \in Seq(Said) /\ ResultsFollow(Opening)
  <2>1. CASE LastCompaction(branch) = 0
    <3>1. <<>> \in Seq(Said) /\ 1..Len(<<>>) = {}
      OBVIOUS
    <3>2. ResultsFollow(<<>>)
      BY <3>1, Zenon DEF ResultsFollow
    <3>3. QED
      BY <2>1, <3>1, <3>2, Zenon DEF Opening
  <2>2. CASE LastCompaction(branch) # 0
    <3> DEFINE m == Message("user", {})
    <3>1. m \in Said /\ m.role = "user"
      <4>1. "user" \in Messages /\ {} \in SUBSET AllCalls
        BY DEF Messages
      <4>2. QED
        BY <4>1, MessageType, Zenon
    <3> HIDE DEF m
    <3>2. <<m>> \in Seq(Said) /\ \A i \in 1..Len(<<m>>) : <<m>>[i] = m
      BY <3>1
    <3>3. "user" # "result"
      OBVIOUS
    <3>4. ResultsFollow(<<m>>)
      BY <3>1, <3>2, <3>3, Zenon DEF ResultsFollow
    <3>5. QED
      BY <2>2, <3>2, <3>4, Zenon DEF Opening, m
  <2>3. QED
    BY <2>1, <2>2
<1>3. QED
  BY <1>1, <1>2, Zenon DEF Follows

(* One entry more. *)
LEMMA TellingFollows ==
  ASSUME IInv, TalkInv, NEW told, NEW j \in 1..Len(branch), Follows(told[j - 1], j - 1)
  PROVE  Follows(Telling(told, Visible, j), j)
<1> DEFINE t == told[j - 1]
           e == branch[j]
<1>1. branch \in Seq(Entries) /\ e \in Entries /\ Len(branch) \in Nat
  BY BranchType DEF IInv, TypeOK
<1>2. /\ t \in Seq(Said) /\ ResultsFollow(t)
      /\ \A a \in Visible :
           (/\ a <= j - 1 /\ branch[a].kind = "answer"
            /\ \A b \in (a + 1)..(j - 1) : branch[b].kind \notin OthersSpeak)
           => \E x \in 1..Len(t) :
                /\ t[x] = Told(branch[a])
                /\ \A k \in (x + 1)..Len(t) :
                     /\ t[k].role = "result"
                     /\ \E b \in (a + 1)..(j - 1) : /\ branch[b].kind = "result"
                                                    /\ t[k].calls = branch[b].calls
  BY Zenon DEF Follows
<1> HIDE DEF t
<1>3. \A a \in Visible : a \in 1..Len(branch)
  BY VisibleIs, Zenon
<1>4. \A a \in 1..Len(branch) :
        /\ a <= j => a <= j - 1 \/ a = j
        /\ (a + 1)..(j - 1) \subseteq (a + 1)..j
        /\ a <= j - 1 => j \in (a + 1)..j
  OBVIOUS
<1>5. CASE j \notin Visible
  <2>1. Telling(told, Visible, j) = t
    BY <1>5, Zenon DEF Telling, t
  <2>2. ASSUME NEW a \in Visible, a <= j, branch[a].kind = "answer",
               \A b \in (a + 1)..j : branch[b].kind \notin OthersSpeak
        PROVE  \E x \in 1..Len(t) :
                 /\ t[x] = Told(branch[a])
                 /\ \A k \in (x + 1)..Len(t) :
                      /\ t[k].role = "result"
                      /\ \E b \in (a + 1)..j : /\ branch[b].kind = "result"
                                               /\ t[k].calls = branch[b].calls
    <3>1. a <= j - 1 /\ (a + 1)..(j - 1) \subseteq (a + 1)..j
      BY <1>3, <1>4, <1>5, <2>2, Zenon
    <3>2. \A b \in (a + 1)..(j - 1) : branch[b].kind \notin OthersSpeak
      BY <2>2, <3>1, Zenon
    <3>3. PICK x \in 1..Len(t) :
             /\ t[x] = Told(branch[a])
             /\ \A k \in (x + 1)..Len(t) :
                  /\ t[k].role = "result"
                  /\ \E b \in (a + 1)..(j - 1) : /\ branch[b].kind = "result"
                                                 /\ t[k].calls = branch[b].calls
      BY <1>2, <2>2, <3>1, <3>2, Zenon
    <3>4. QED
      BY <3>1, <3>3, Zenon
  <2>3. t \in Seq(Said) /\ ResultsFollow(t)
    BY <1>2, Zenon
  <2>4. Follows(t, j)
    BY <2>2, <2>3, Zenon DEF Follows
  <2>5. QED
    BY <2>1, <2>4, Zenon
<1>6. CASE j \in Visible
  <2> DEFINE m == Told(e)
             u == Append(t, m)
             n == Len(t)
  <2>1. Telling(told, Visible, j) = u
    BY <1>6, Zenon DEF Telling, t
  <2>2. e.kind \in Spoken
    BY <1>6, VisibleIs, Zenon
  <2>3. /\ m \in Said /\ m.calls = e.calls
        /\ m.role = IF e.kind = "custom" THEN "user" ELSE e.kind
    BY <1>1, <2>2, ToldType
  <2>4. m.role = "result" <=> e.kind = "result"
    BY <2>3
  <2> HIDE DEF m
  <2>5. /\ u \in Seq(Said) /\ Len(u) = n + 1 /\ u[n + 1] = m
        /\ \A i \in 1..n : u[i] = t[i]
        /\ n \in Nat
    BY <1>2, <2>3
  <2>6. ResultsFollow(u)
    <3>1. ASSUME m.role = "result"
          PROVE  \E x \in 1..Len(t) :
                   /\ t[x].role = "answer"
                   /\ \A k \in (x + 1)..Len(t) : t[k].role = "result"
                   /\ \E c \in t[x].calls : /\ m.calls = {c}
                                            /\ \A k \in (x + 1)..Len(t) : t[k].calls # {c}
      <4>1. PICK a \in 1..(j - 1) : Answers(branch, a, j)
        BY <2>4, <3>1, Zenon DEF TalkInv, ResultsOnce
      <4>2. a \in Visible
        BY <1>6, <2>4, <3>1, <4>1, AnswerIsVisible
      <4>3. PICK c \in branch[a].calls :
              /\ e.calls = {c}
              /\ \A b \in (a + 1)..(j - 1) : branch[b].kind = "result" => branch[b].calls # {c}
        BY <4>1, Zenon DEF Answers
      <4>4. a <= j - 1 /\ a \in 1..Len(branch)
        BY <1>1
      <4>5. /\ branch[a].kind = "answer"
            /\ \A b \in (a + 1)..(j - 1) : branch[b].kind \notin OthersSpeak
        BY <4>1, Zenon DEF Answers
      <4>6. PICK x \in 1..Len(t) :
              /\ t[x] = Told(branch[a])
              /\ \A k \in (x + 1)..Len(t) :
                   /\ t[k].role = "result"
                   /\ \E b \in (a + 1)..(j - 1) : /\ branch[b].kind = "result"
                                                  /\ t[k].calls = branch[b].calls
        BY <1>2, <4>2, <4>4, <4>5, Zenon
      <4>7. t[x].role = "answer" /\ t[x].calls = branch[a].calls
        <5>1. branch[a] \in Entries /\ branch[a].kind \in Spoken
          BY <1>1, <4>2, <4>4, VisibleIs
        <5>2. Told(branch[a]).calls = branch[a].calls
              /\ Told(branch[a]).role = IF branch[a].kind = "custom" THEN "user" ELSE branch[a].kind
          BY <5>1, ToldType, Zenon
        <5>3. QED
          BY <4>5, <4>6, <5>2
      <4>8. \A k \in (x + 1)..Len(t) : t[k].calls # {c}
        BY <4>3, <4>6, Zenon
      <4>9. c \in t[x].calls /\ m.calls = {c}
        BY <2>3, <4>3, <4>7, Zenon
      <4>10. QED
        BY <4>6, <4>7, <4>8, <4>9, Zenon
    <3>2. QED
      BY <1>2, <2>3, <3>1, FollowsOn
  <2> HIDE DEF u, n
  <2>7. ASSUME NEW a \in Visible, a <= j, branch[a].kind = "answer",
               \A b \in (a + 1)..j : branch[b].kind \notin OthersSpeak
        PROVE  \E x \in 1..Len(u) :
                 /\ u[x] = Told(branch[a])
                 /\ \A k \in (x + 1)..Len(u) :
                      /\ u[k].role = "result"
                      /\ \E b \in (a + 1)..j : /\ branch[b].kind = "result"
                                               /\ u[k].calls = branch[b].calls
    <3>1. CASE a = j
      <4>1. n + 1 \in 1..Len(u) /\ (n + 1 + 1)..Len(u) = {} /\ u[n + 1] = Told(branch[a])
        <5>1. u[n + 1] = Told(branch[a])
          BY <2>5, <3>1, Zenon DEF m
        <5>2. n + 1 \in 1..Len(u) /\ (n + 1 + 1)..Len(u) = {}
          BY <2>5
        <5>3. QED
          BY <5>1, <5>2
      <4>2. QED
        BY <4>1, Zenon
    <3>2. CASE a # j
      <4>1. a <= j - 1 /\ (a + 1)..(j - 1) \subseteq (a + 1)..j /\ j \in (a + 1)..j
        BY <1>3, <1>4, <2>7, <3>2, Zenon
      <4>2. \A b \in (a + 1)..(j - 1) : branch[b].kind \notin OthersSpeak
        BY <2>7, <4>1, Zenon
      <4>3. PICK x \in 1..n :
               /\ t[x] = Told(branch[a])
               /\ \A k \in (x + 1)..n :
                    /\ t[k].role = "result"
                    /\ \E b \in (a + 1)..(j - 1) : /\ branch[b].kind = "result"
                                                   /\ t[k].calls = branch[b].calls
        BY <1>2, <2>7, <4>1, <4>2, Zenon DEF n
      <4>4. e.kind = "result"
        BY <2>2, <2>7, <4>1, Zenon DEF OthersSpeak
      <4>5. x \in 1..Len(u) /\ u[x] = Told(branch[a])
        <5>1. x \in 1..Len(u)
          BY <2>5
        <5>2. QED
          BY <2>5, <4>3, <5>1, Zenon
      <4>6. ASSUME NEW k \in (x + 1)..Len(u)
            PROVE  /\ u[k].role = "result"
                   /\ \E b \in (a + 1)..j : /\ branch[b].kind = "result"
                                            /\ u[k].calls = branch[b].calls
        <5>1. CASE k = n + 1
          <6>1. u[k] = m
            BY <2>5, <5>1, Zenon
          <6>2. m.role = "result" /\ m.calls = branch[j].calls
            BY <2>3, <2>4, <4>4, Zenon
          <6>3. QED
            BY <4>1, <4>4, <6>1, <6>2, Zenon
        <5>2. CASE k # n + 1
          <6>1. k \in (x + 1)..n /\ k \in 1..n
            BY <2>5, <5>2
          <6>2. u[k] = t[k]
            BY <2>5, <6>1, Zenon
          <6>3. QED
            BY <4>1, <4>3, <6>1, <6>2, Zenon
        <5>3. QED
          BY <5>1, <5>2
      <4>7. QED
        BY <4>5, <4>6, Zenon
    <3>3. QED
      BY <3>1, <3>2
  <2>8. Follows(u, j)
    BY <2>5, <2>6, <2>7, Zenon DEF Follows
  <2>9. QED
    BY <2>1, <2>8, Zenon
<1>7. QED
  BY <1>5, <1>6

(* So results follow their answers in every context.                       *)
LEMMA ContextFollows ==
  ASSUME IInv, TalkInv
  PROVE  Context \in Seq(Said) /\ ResultsFollow(Context)
<1> DEFINE n == Len(branch)
<1>1. n \in Nat
  BY BranchType DEF IInv, TypeOK
<1>2. PICK told : /\ Context = told[n] /\ told[0] = Opening
                  /\ \A i \in 1..n : told[i] = Telling(told, Visible, i)
  BY <1>1, ContextIs
<1> DEFINE G == {i \in Nat : i <= n => Follows(told[i], i)}
<1>3. 0 \in G
  BY <1>2, OpeningFollows
<1>4. ASSUME NEW i \in Nat, i \in G PROVE i + 1 \in G
  <2> SUFFICES ASSUME i + 1 <= n PROVE Follows(told[i + 1], i + 1)
    OBVIOUS
  <2>1. i + 1 \in 1..n /\ (i + 1) - 1 = i /\ i <= n
    BY <1>1
  <2>2. Follows(told[(i + 1) - 1], (i + 1) - 1)
    BY <1>4, <2>1
  <2>3. Follows(Telling(told, Visible, i + 1), i + 1)
    BY <2>1, <2>2, TellingFollows
  <2>4. QED
    BY <1>2, <2>1, <2>3, Zenon
<1> HIDE DEF G
<1>5. Nat \subseteq G
  BY <1>3, <1>4, NumberInduction
<1>6. Follows(Context, n)
  <2>1. n \in G /\ n <= n
    BY <1>1, <1>5
  <2>2. QED
    BY <1>2, <2>1 DEF G
<1>7. QED
  BY <1>6, Zenon DEF Follows

(* Whatever was cut away, and however runs ended, each call in a request   *)
(* has its result right behind it, and no other result is there.           *)
THEOREM RequestsAreWellFormed == Spec => []RequestIsWellFormed
<1>1. IInv /\ TalkInv => RequestIsWellFormed
  BY ContextFollows, TransformIsWellFormed DEF RequestIsWellFormed
<1>2. Init => IInv /\ TalkInv
  BY InvInit, TalkInit
<1>3. IInv /\ TalkInv /\ [Next]_vars => IInv' /\ TalkInv'
  BY InvStep, TalkStep
<1>4. QED
  BY <1>1, <1>2, <1>3, PTL DEF Spec
=============================================================================
