----------------------------- MODULE Compaction -----------------------------
(***************************************************************************)
(* pi.coding.agent.core.compaction: where prepareCompaction cuts the       *)
(* branch of a session, what compact() has the model summarize, and the    *)
(* context that buildSessionContext makes of the branch afterwards.        *)
(*                                                                         *)
(* The branch is the path to the leaf; an entry is known by its place in   *)
(* it. A path only grows: to move the leaf back is to continue an earlier  *)
(* path, which is a state of this model already. "custom" stands for the   *)
(* entries that count for the cut but have no tokens, custom messages and  *)
(* branch summaries; "note" for those the context leaves out. A summary is *)
(* the set of the entries it was made of.                                  *)
(***************************************************************************)
EXTENDS TransformMessages, FiniteSetsExt

CONSTANTS
  MaxEntries,       (* bound: length of the branch                         *)
  SizesOf,          (* tokens a message of each role may have              *)
  MaxCalls,         (* bound: calls of an answer                           *)
  KeepRecentTokens  (* the setting                                         *)

Messages == {"user", "answer", "failed", "result"}   (* SessionMessageEntry *)
Spoken   == Messages \cup {"custom"}

ASSUME CompactionAssumption ==
  /\ MaxEntries \in Nat /\ MaxCalls \in Nat \ {0} /\ KeepRecentTokens \in Nat
  /\ SizesOf \in [Messages -> SUBSET Nat]

VARIABLES
  branch,
  preparation    (* what a compaction that waits for the model prepared    *)

vars == <<branch, preparation>>

Entry(kind, size, calls) ==
  [kind |-> kind, size |-> size, calls |-> calls, kept |-> 0, covers |-> {}]

CompactionEntry(kept, covers) ==
  [Entry("compaction", 0, {}) EXCEPT !.kept = kept, !.covers = covers]

SpokenOf(es, from, to) == {i \in from..to : es[i].kind \in Spoken}

LastCompaction(es) ==
  LET compactions == {i \in DOMAIN es : es[i].kind = "compaction"}
  IN  IF compactions = {} THEN 0 ELSE Max(compactions)

-----------------------------------------------------------------------------
(* findCutPoint                                                            *)

(* Mutant: a result may be the first entry that is kept. *)
CutPointsAnywhere(es, from) == SpokenOf(es, from, Len(es))

(* findValidCutPoints: any entry that speaks, but never a tool result.     *)
CutPoints(es, from) ==
  {i \in SpokenOf(es, from, Len(es)) : es[i].kind # "result"}

(* What accumulatedTokens is when the walk back from the end reaches i. *)
TokensFrom(es, i) ==
  MapThenSumSet(LAMBDA j : IF es[j].kind \in Messages THEN es[j].size ELSE 0,
                i..Len(es))

(* The first cut point behind the message that fills the budget, or, when  *)
(* there is none, the first one of all.                                    *)
BudgetCut(es, from) ==
  LET full   == {i \in from..Len(es) : /\ es[i].kind \in Messages
                                       /\ TokensFrom(es, i) >= KeepRecentTokens}
      recent == {i \in CutPoints(es, from) : full # {} /\ i >= Max(full)}
  IN  IF recent = {} THEN Min(CutPoints(es, from)) ELSE Min(recent)

(* Entries right before the cut that are no messages are kept with it. *)
FirstKept(es, from) ==
  LET cut == BudgetCut(es, from)
  IN  Min({i \in from..cut : \A j \in i..(cut - 1) :
                               es[j].kind \notin Messages \cup {"compaction"}})

(* findTurnStartIndex: 0 when the turn began before.                       *)
TurnStart(es, at, from) ==
  LET starts == {i \in from..at : es[i].kind \in {"user", "custom"}}
  IN  IF starts = {} THEN 0 ELSE Max(starts)

(* Mutant: with nothing to cut at, the end is the cut. *)
FindCutPointAtEnd(es, from) ==
  IF CutPoints(es, from) = {}
  THEN [firstKept |-> Len(es) + 1, turnStart |-> 0]
  ELSE [firstKept |-> FirstKept(es, from), turnStart |-> 0]

FindCutPoint(es, from) ==
  IF CutPoints(es, from) = {}
  THEN [firstKept |-> from, turnStart |-> 0]
  ELSE LET kept == FirstKept(es, from)
       IN  [firstKept |-> kept,
            turnStart |-> IF es[kept].kind = "user" THEN 0
                                                    ELSE TurnStart(es, kept, from)]

-----------------------------------------------------------------------------
(* prepareCompaction and compact                                           *)

NotPrepared == [firstKept |-> 0, history |-> {}, turnPrefix |-> {}, previous |-> {}, size |-> 0]

(* Mutant: what the previous compaction had kept is taken as summarized. *)
BoundaryStartBehind(es) == LastCompaction(es) + 1

(* What the previous compaction kept is summarized again.                  *)
BoundaryStart(es) ==
  IF LastCompaction(es) = 0 THEN 1 ELSE es[LastCompaction(es)].kept

Prepared(es) ==
  LET from     == BoundaryStart(es)
      previous == LastCompaction(es)
      cut      == FindCutPoint(es, from)
      split    == cut.turnStart # 0
  IN  [firstKept  |-> cut.firstKept,
       history    |-> SpokenOf(es, from, (IF split THEN cut.turnStart ELSE cut.firstKept) - 1),
       turnPrefix |-> IF split THEN SpokenOf(es, cut.turnStart, cut.firstKept - 1) ELSE {},
       previous   |-> IF previous = 0 THEN {} ELSE es[previous].covers,
       size       |-> Len(es)]

(* compact: a split turn gets a summary of its own, and "No prior          *)
(* history." before it when there is nothing else to summarize.            *)
Summary(p) ==
  IF p.turnPrefix # {} /\ p.history = {}
  THEN p.turnPrefix
  ELSE p.previous \cup p.history \cup p.turnPrefix

-----------------------------------------------------------------------------
(* buildSessionContext, for the path itself.                               *)

(* The entries it takes messages from. *)
Visible ==
  LET c == LastCompaction(branch)
  IN  IF c = 0
      THEN SpokenOf(branch, 1, Len(branch))
      ELSE SpokenOf(branch, branch[c].kept, c - 1) \cup SpokenOf(branch, c + 1, Len(branch))

(* As the provider gets them: convertToLlm makes users of the summary and  *)
(* of custom messages. told[i] is what the first i entries give.           *)
Told(e) == Message(IF e.kind = "custom" THEN "user" ELSE e.kind, e.calls)

Context ==
  LET visible == Visible
      told[i \in 0..Len(branch)] ==
        IF i = 0
        THEN IF LastCompaction(branch) = 0 THEN <<>> ELSE <<Message("user", {})>>
        ELSE IF i \in visible THEN Append(told[i - 1], Told(branch[i])) ELSE told[i - 1]
  IN  told[Len(branch)]

-----------------------------------------------------------------------------
(* The calls of the last answer that wait for a result: those of a batch   *)
(* that runs, for as long as nobody else speaks.                           *)
Owed ==
  LET answers == {i \in DOMAIN branch : branch[i].kind = "answer"}
      last    == Max(answers)
      behind  == {branch[i] : i \in (last + 1)..Len(branch)}
  IN  IF answers = {} \/ \E e \in behind : e.kind \in Spoken \ {"result"}
      THEN {}
      ELSE branch[last].calls \ UNION {e.calls : e \in behind}

Add(e) ==
  /\ Len(branch) < MaxEntries
  /\ branch' = Append(branch, e)

Speak(e) == Add(e) /\ UNCHANGED preparation

(* A prompt, or a steering message; while calls are owed, the next prompt  *)
(* after a batch that failed. *)
Prompt == \E n \in SizesOf["user"] : Speak(Entry("user", n, {}))

Answer ==
  /\ Owed = {}
  /\ \E n \in SizesOf["answer"], k \in 0..MaxCalls :
       Speak(Entry("answer", n, {<<Len(branch) + 1, c>> : c \in 1..k}))

(* An answer that ended in an error or an abort has calls too, maybe. *)
FailedAnswer ==
  /\ Owed = {}
  /\ \E n \in SizesOf["failed"] :
       Speak(Entry("failed", n, {<<Len(branch) + 1, 1>>}))

(* Results come in the order of the calls. *)
Result ==
  /\ Owed # {}
  /\ \E n \in SizesOf["result"] :
       Speak(Entry("result", n, {CHOOSE c \in Owed : \A d \in Owed : c[2] <= d[2]}))

Custom == Owed = {} /\ Speak(Entry("custom", 0, {}))
Note   == Speak(Entry("note", 0, {}))

(* compact() and runAutoCompaction prepare from the branch and wait for    *)
(* the summary; a run may go on in the meantime. *)
PrepareCompaction ==
  /\ preparation = NotPrepared
  /\ branch # <<>> /\ Last(branch).kind # "compaction"
  /\ preparation' = Prepared(branch)
  /\ UNCHANGED branch

AppendCompaction ==
  /\ preparation # NotPrepared
  /\ Add(CompactionEntry(preparation.firstKept, Summary(preparation)))
  /\ preparation' = NotPrepared

(* The model failed, or the compaction was aborted. *)
CompactionFails ==
  /\ preparation # NotPrepared
  /\ preparation' = NotPrepared
  /\ UNCHANGED branch

Init == branch = <<>> /\ preparation = NotPrepared

Next ==
  \/ Prompt \/ Answer \/ FailedAnswer \/ Result \/ Custom \/ Note
  \/ PrepareCompaction \/ AppendCompaction \/ CompactionFails

Spec == Init /\ [][Next]_vars

-----------------------------------------------------------------------------
Entries ==
  [kind   : Spoken \cup {"note", "compaction"},
   size   : Nat,
   calls  : SUBSET ((1..MaxEntries) \X (1..MaxCalls)),
   kept   : 0..MaxEntries,
   covers : SUBSET (1..MaxEntries)]

TypeOK ==
  /\ branch \in Seq(Entries) /\ Len(branch) <= MaxEntries
  /\ preparation # NotPrepared => preparation.firstKept \in 1..preparation.size
  /\ preparation.size <= Len(branch)

Compactions == {i \in DOMAIN branch : branch[i].kind = "compaction"}

(* Nothing leaves the context unread: what the model no longer sees was    *)
(* given to some summary, however often, and from however old a branch,    *)
(* the session was compacted. *)
EverythingWasSummarized ==
  \A i \in SpokenOf(branch, 1, Len(branch)) \ Visible :
    \E c \in Compactions : i \in branch[c].covers

(* The summary the model sees knows all that it no longer sees. The update *)
(* prompt (Compaction.kt:301) asks to preserve "all existing information   *)
(* from the previous summary". *)
NothingIsForgotten ==
  Compactions # {} =>
    SpokenOf(branch, 1, Len(branch)) \ Visible
      \subseteq branch[LastCompaction(branch)].covers

(* Nothing is in the context twice, as itself and in the summary. *)
NothingIsToldTwice ==
  Compactions # {} => branch[LastCompaction(branch)].covers \cap Visible = {}

(* Each message is told to the model, itself or in a summary, never both. *)
EachMessageIsTold == EverythingWasSummarized /\ NothingIsToldTwice

(* Whatever was cut away, and however runs ended, the request is one a     *)
(* provider accepts: each call has its result right behind it. *)
RequestIsWellFormed == WellFormed(Transform(Context))
=============================================================================
