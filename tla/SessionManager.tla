--------------------------- MODULE SessionManager ---------------------------
(***************************************************************************)
(* pi.coding.agent.core.SessionManager and the session files it writes:    *)
(* appending, labels, moving the leaf, extracting a branch into a new      *)
(* file, the deferred first write, and opening a file after the process    *)
(* ended, or was killed in the middle of a write. Fork is                  *)
(* AgentSessionRuntime.fork for a persisted session.                       *)
(*                                                                         *)
(* A file is what a reader gets from it (whether it starts with a header,  *)
(* and the entries), since lines that do not parse are skipped; `tail` is  *)
(* what the last line is for the next append: "ended" by its newline,      *)
(* complete but "unended", or "torn" in the middle. A dead process keeps   *)
(* its last memory here, for properties to look at: Open overwrites it.    *)
(* byId is a function of fileEntries in every operation, not a variable.   *)
(***************************************************************************)
EXTENDS SessionTree

CONSTANTS
  MaxId,      (* bound: ids ever generated                                 *)
  Files,      (* bound: session files ever named, 1..n                     *)
  Appends,    (* kinds of entries callers append                           *)
  Crashes,    (* bound: times the process ends                             *)
  Faults      (* what a write may meet: "torn", "ioerror"                  *)

ASSUME SessionAssumption ==
  /\ MaxId \in Nat /\ Crashes \in Nat
  /\ Files \in SUBSET Nat /\ 1 \in Files
  /\ Appends \subseteq Kinds
  /\ Faults \subseteq {"torn", "ioerror"}

VARIABLES
  fileEntries,   (* without the header                                     *)
  leafId,        (* 0 is null                                              *)
  labelsById,    (* the ids that carry a label                             *)
  flushed,
  sessionFile,
  disk,          (* the files                                              *)
  alive,         (* the process runs                                       *)
  nextId,        (* every id below was generated once                      *)
  crashes,       (* times the process ended                                *)
  ensured        (* files written on request before there was an answer    *)

memory == <<fileEntries, leafId, labelsById, flushed, sessionFile>>
vars   == <<memory, disk, alive, nextId, crashes, ensured>>

File(header, es, tail) ==
  [exists |-> TRUE, header |-> header, entries |-> es, tail |-> tail]

NoFile == [exists |-> FALSE, header |-> FALSE, entries |-> <<>>, tail |-> "ended"]

-----------------------------------------------------------------------------
(* loadEntriesFromFile: a file that does not start with a header is empty. *)

Loaded(d) == IF d.header THEN d.entries ELSE <<>>

-----------------------------------------------------------------------------
(* Writing: rewriteFile truncates and writes, persistEntry appends a line. *)

Rewritten(es) == File(TRUE, es, "ended")

(* What a rewrite leaves that is cut: nothing or part of the header, or    *)
(* some entries, the next one torn, or only the last newline missing.      *)
RewriteCut(es) ==
  {File(FALSE, <<>>, tail) : tail \in {"ended", "torn"}}
    \cup ({File(TRUE, SubSeq(es, 1, n), tail) :
             n \in 0..Len(es), tail \in {"ended", "unended", "torn"}}
             \ {Rewritten(es), File(TRUE, es, "torn")})

(* Mutant: the line is written over the start of the file. *)
AddedAtStart(d, e) == File(FALSE, <<>>, "ended")

(* What is appended behind a line without its newline joins that line, and *)
(* the two do not parse: with a torn line only the new one is lost, with   *)
(* an unended one both are.                                                *)
Added(d, e) ==
  CASE d.tail = "ended"   -> [d EXCEPT !.exists = TRUE, !.entries = Append(@, e)]
    [] d.tail = "torn"    -> [d EXCEPT !.tail = "ended"]
    [] d.tail = "unended" ->
         IF d.entries = <<>> THEN File(FALSE, <<>>, "ended")
                             ELSE File(d.header, Front(d.entries), "ended")

AddCut(d, e) ==
  IF d.tail = "ended"
  THEN {[d EXCEPT !.tail = "torn"], [Added(d, e) EXCEPT !.tail = "unended"]}
  ELSE {[Added(d, e) EXCEPT !.tail = "torn"]}

(* The file becomes `whole`; or the write is cut, by the end of the        *)
(* process or by an exception that the caller of SessionManager gets.      *)
Write(f, whole, cuts, ok) ==
  \/ /\ ok
     /\ disk' = [disk EXCEPT ![f] = whole]
     /\ UNCHANGED <<alive, crashes>>
  \/ /\ ~ok /\ Faults # {}
     /\ \E d \in cuts \cup {disk[f]} : disk' = [disk EXCEPT ![f] = d]
     /\ \/ /\ "torn" \in Faults /\ crashes < Crashes
           /\ alive' = FALSE /\ crashes' = crashes + 1
        \/ /\ "ioerror" \in Faults
           /\ UNCHANGED <<alive, crashes>>

NoWrite(ok) == ok /\ UNCHANGED <<disk, alive, crashes>>

WriteAll(f, es, ok) == Write(f, Rewritten(es), RewriteCut(es), ok)

WriteLine(e, ok) ==
  Write(sessionFile, Added(disk[sessionFile], e), AddCut(disk[sessionFile], e), ok)

(* Mutant: `flushed` is not reset while there is nothing to write. *)
PersistKeepingFlushed(es, e, ok) ==
  CASE ~HasAssistant(es)             -> NoWrite(ok) /\ UNCHANGED flushed
    [] HasAssistant(es) /\ ~flushed -> WriteAll(sessionFile, es, ok) /\ flushed' = ok
    [] HasAssistant(es) /\ flushed  -> WriteLine(e, ok) /\ UNCHANGED flushed

(* Mutant: the entry is appended once more after a rewrite. *)
PersistTwice(es, e, ok) ==
  CASE ~HasAssistant(es)             -> NoWrite(ok) /\ flushed' = FALSE
    [] HasAssistant(es) /\ ~flushed ->
         /\ Write(sessionFile, Added(Rewritten(es), e), RewriteCut(es), ok)
         /\ flushed' = ok
    [] HasAssistant(es) /\ flushed  -> WriteLine(e, ok) /\ UNCHANGED flushed

(* persistEntry: nothing reaches the file before the first assistant       *)
(* message; then everything at once; then line by line. An exception       *)
(* leaves `flushed` as it was.                                             *)
PersistEntry(es, e, ok) ==
  CASE ~HasAssistant(es)             -> NoWrite(ok) /\ flushed' = FALSE
    [] HasAssistant(es) /\ ~flushed -> WriteAll(sessionFile, es, ok) /\ flushed' = ok
    [] HasAssistant(es) /\ flushed  -> WriteLine(e, ok) /\ UNCHANGED flushed

-----------------------------------------------------------------------------
(* Appending. Every appendXXX() goes through appendEntry: memory first,    *)
(* then the file; `ok` is FALSE when writing the file failed.              *)

AppendEntry(kind, parent, ref, ok) ==
  LET e == Entry(nextId, parent, kind, ref)
  IN  /\ alive /\ nextId <= MaxId
      /\ fileEntries' = Append(fileEntries, e)
      /\ leafId' = nextId
      /\ PersistEntry(Append(fileEntries, e), e, ok)
      /\ nextId' = nextId + 1
      /\ UNCHANGED <<sessionFile, ensured>>

(* appendMessage, appendCustomMessageEntry, appendThinkingLevelChange,     *)
(* appendModelChange, appendCustomEntry, appendSessionInfo.                *)
AppendPlain(kind, ok) ==
  /\ AppendEntry(kind, leafId, 0, ok)
  /\ UNCHANGED labelsById

(* Callers take firstKeptEntryId from the branch they compact.             *)
AppendCompaction(firstKept, ok) ==
  /\ firstKept \in IdsOf(PathTo(fileEntries, leafId))
  /\ AppendEntry("compaction", leafId, firstKept, ok)
  /\ UNCHANGED labelsById

(* Mutant: clearing a label is recorded but not applied. *)
AppendLabelNeverCleared(targetId, kind, ok) ==
  /\ targetId \in IdsOf(fileEntries)
  /\ AppendEntry(kind, leafId, targetId, ok)
  /\ labelsById' = IF ok /\ kind = "label" THEN labelsById \cup {targetId} ELSE labelsById

(* The label map changes only after appendEntry returned.                  *)
AppendLabelChange(targetId, kind, ok) ==
  /\ targetId \in IdsOf(fileEntries)
  /\ AppendEntry(kind, leafId, targetId, ok)
  /\ labelsById' = CASE ~ok -> labelsById
                     [] ok /\ kind = "label"   -> labelsById \cup {targetId}
                     [] ok /\ kind = "unlabel" -> labelsById \ {targetId}

-----------------------------------------------------------------------------
(* Moving the leaf. *)

Branch(id) ==
  /\ alive /\ id \in IdsOf(fileEntries) /\ id # leafId
  /\ leafId' = id
  /\ UNCHANGED <<fileEntries, labelsById, flushed, sessionFile, disk, alive,
                 nextId, crashes, ensured>>

ResetLeaf ==
  /\ alive /\ leafId # 0
  /\ leafId' = 0
  /\ UNCHANGED <<fileEntries, labelsById, flushed, sessionFile, disk, alive,
                 nextId, crashes, ensured>>

BranchWithSummary(from, ok) ==
  /\ from \in IdsOf(fileEntries) \cup {0}
  /\ AppendEntry("summary", from, 0, ok)
  /\ UNCHANGED labelsById

-----------------------------------------------------------------------------
(* Sessions and files. A new session is named after the time and a random  *)
(* id: the file did not exist.                                             *)

Unused == {f \in Files : ~disk[f].exists /\ f # sessionFile}

(* Mutant: the leaf of the last session is kept. *)
EmptySessionKeepsLeaf(f) ==
  /\ fileEntries' = <<>> /\ labelsById' = {} /\ UNCHANGED leafId
  /\ sessionFile' = f

EmptySession(f) ==
  /\ fileEntries' = <<>> /\ leafId' = 0 /\ labelsById' = {}
  /\ sessionFile' = f

NewSession ==
  /\ alive
  /\ \E f \in Unused : EmptySession(f)
  /\ flushed' = FALSE
  /\ UNCHANGED <<disk, alive, nextId, crashes, ensured>>

EnsureSessionFileWritten(ok) ==
  /\ alive
  /\ WriteAll(sessionFile, fileEntries, ok)
  /\ flushed' = (flushed \/ ok)
  /\ ensured' = IF HasAssistant(fileEntries) THEN ensured ELSE ensured \cup {sessionFile}
  /\ UNCHANGED <<fileEntries, leafId, labelsById, sessionFile, nextId>>

(* Mutant: the leaf is left at the first entry. *)
IndexFromRoot(f, es) ==
  /\ fileEntries' = es /\ leafId' = (IF es = <<>> THEN 0 ELSE Head(es).id)
  /\ labelsById' = LabelsOf(es)
  /\ sessionFile' = f

(* buildIndex *)
Index(f, es) ==
  /\ fileEntries' = es /\ leafId' = LastId(es) /\ labelsById' = LabelsOf(es)
  /\ sessionFile' = f

(* A file without header is overwritten by an empty session when it is     *)
(* opened, which may fail.                                                 *)
Damaged(f) == disk[f].exists /\ ~disk[f].header

Overwrite(f, ok) ==
  /\ \/ ok /\ disk' = [disk EXCEPT ![f] = Rewritten(<<>>)]
     \/ /\ ~ok /\ Faults # {}
        /\ \E d \in RewriteCut(<<>>) : disk' = [disk EXCEPT ![f] = d]
  /\ ensured' = ensured \cup {f}

(* Opening a file, after the last process ended or in a running one.       *)
Open(f) ==
  /\ \/ /\ disk[f].exists /\ disk[f].header
        /\ Index(f, disk[f].entries)
        /\ flushed' = TRUE /\ alive' = TRUE
        /\ UNCHANGED <<disk, ensured>>
     \/ /\ Damaged(f) /\ Overwrite(f, TRUE)
        /\ EmptySession(f)
        /\ flushed' = TRUE /\ alive' = TRUE
     \/ /\ Damaged(f) /\ Overwrite(f, FALSE)
        /\ UNCHANGED <<memory, alive>>
  /\ UNCHANGED <<nextId, crashes>>

(* The process ends between two operations: nothing is written. *)
Crash ==
  /\ alive /\ crashes < Crashes
  /\ alive' = FALSE /\ crashes' = crashes + 1
  /\ UNCHANGED <<memory, disk, nextId, ensured>>

-----------------------------------------------------------------------------
(* createBranchedSession: the path without its label entries, then one     *)
(* label entry for each labelled entry of it.                              *)

(* Mutant: all entries are taken, not those of the path.                   *)
BranchedWhole(es, leaf, labels)  == es

Branched(es, leaf, labels) ==
  LET path   == OfKinds(PathTo(es, leaf), Kinds \ LabelKinds)
      onPath == SetToSeq(labels \cap IdsOf(path))
      parent(i) == IF i = 1 THEN LastId(path) ELSE nextId + i - 2
  IN  path \o [i \in DOMAIN onPath |-> Entry(nextId + i - 1, parent(i), "label", onPath[i])]

NewIds(es) == {id \in IdsOf(es) : id >= nextId}

Generate(es) ==
  /\ nextId' = nextId + Cardinality(NewIds(es))
  /\ nextId' <= MaxId + 1

CreateBranchedSession(leaf, ok) ==
  /\ alive /\ leaf \in IdsOf(fileEntries)
  /\ LET es == Branched(fileEntries, leaf, labelsById)
     IN  /\ Generate(es)
         /\ \E f \in Unused :
              /\ Index(f, es)
              /\ IF HasAssistant(es)
                 THEN WriteAll(f, es, ok) /\ flushed' = (flushed \/ ok)
                 ELSE NoWrite(ok) /\ flushed' = FALSE
  /\ UNCHANGED ensured

(* AgentSessionRuntime.fork: the branch is cut from the file, not from     *)
(* memory, and the new session is read back from the new file, which is    *)
(* not there when the branch has no assistant message. A fork that throws  *)
(* leaves the running session alone.                                       *)
Fork(leaf, ok) ==
  /\ alive
  /\ leaf \in IdsOf(fileEntries) \cap IdsOf(Loaded(disk[sessionFile]))
  /\ LET source == Loaded(disk[sessionFile])
         es     == Branched(source, leaf, LabelsOf(source))
     IN  /\ Generate(es)
         /\ \E f \in Unused :
              \/ /\ HasAssistant(es) /\ WriteAll(f, es, ok)
                 /\ IF ok THEN Index(f, es) /\ flushed' = TRUE ELSE UNCHANGED memory
              \/ /\ ~HasAssistant(es) /\ NoWrite(ok)
                 /\ EmptySession(f) /\ flushed' = FALSE
  /\ UNCHANGED ensured

(* Forking opens the file of the session first: without its header it is   *)
(* overwritten before the entry is found missing.                          *)
ForkOfDamaged(ok) ==
  /\ alive /\ fileEntries # <<>> /\ Damaged(sessionFile)
  /\ Overwrite(sessionFile, ok)
  /\ UNCHANGED <<memory, alive, nextId, crashes>>

-----------------------------------------------------------------------------
Init ==
  /\ fileEntries = <<>> /\ leafId = 0 /\ labelsById = {} /\ flushed = FALSE
  /\ sessionFile = 1
  /\ disk = [f \in Files |-> NoFile]
  /\ alive = TRUE /\ nextId = 1 /\ crashes = 0 /\ ensured = {}

(* The kinds with an action of their own are appended by it.               *)
Plain == Appends \ (LabelKinds \cup {"compaction", "summary"})

AppendStep(ok) ==
  \/ \E kind \in Plain : AppendPlain(kind, ok)
  \/ \E id \in IdsOf(fileEntries) :
       \/ \E kind \in Appends \cap LabelKinds : AppendLabelChange(id, kind, ok)
       \/ "compaction" \in Appends /\ AppendCompaction(id, ok)
  \/ \E from \in IdsOf(fileEntries) \cup {0} :
       "summary" \in Appends /\ BranchWithSummary(from, ok)

Next ==
  \/ \E ok \in BOOLEAN :
       \/ AppendStep(ok)
       \/ \E id \in IdsOf(fileEntries) : CreateBranchedSession(id, ok) \/ Fork(id, ok)
       \/ ForkOfDamaged(ok)
       \/ EnsureSessionFileWritten(ok)
  \/ \E id \in IdsOf(fileEntries) : Branch(id)
  \/ ResetLeaf \/ NewSession \/ Crash
  \/ \E f \in Files : Open(f)

Spec == Init /\ [][Next]_vars

-----------------------------------------------------------------------------
(* Properties *)

EntryType ==
  [id : 1..MaxId, parent : 0..MaxId, kind : Kinds, ref : 0..MaxId]

FileType ==
  [exists : BOOLEAN, header : BOOLEAN, entries : Seq(EntryType),
   tail : {"ended", "unended", "torn"}]

TypeOK ==
  /\ fileEntries \in Seq(EntryType)
  /\ leafId \in IdsOf(fileEntries) \cup {0}
  /\ labelsById \subseteq 1..MaxId
  /\ flushed \in BOOLEAN /\ alive \in BOOLEAN
  /\ sessionFile \in Files
  /\ disk \in [Files -> FileType]
  /\ nextId \in 1..(MaxId + 1) /\ crashes \in 0..Crashes
  /\ ensured \subseteq Files

(* Why the file can be trusted: while nothing is cut, a flushed session is *)
(* its file, and one with an assistant message is flushed.                 *)
FlushedIsFile ==
  /\ \A f \in Files : disk[f].exists => disk[f] = Rewritten(disk[f].entries)
  /\ alive /\ flushed => disk[sessionFile] = Rewritten(fileEntries)
  /\ alive /\ HasAssistant(fileEntries) => flushed

(* From the first assistant message on the file holds every entry of the   *)
(* session, in order: whenever the process ends, opening the file gives    *)
(* the session back. "Sessions are durable", says the README.              *)
AnsweredIsDurable ==
  alive /\ HasAssistant(fileEntries) =>
    disk[sessionFile].header /\ disk[sessionFile].entries = fileEntries

(* d is what is left of es when some of its entries are dropped.           *)
LeftOf(d, es) ==
  \E pick \in [DOMAIN d -> DOMAIN es] :
     \A i, j \in DOMAIN d : d[i] = es[pick[i]] /\ (i < j => pick[i] < pick[j])

(* Whatever fails and whatever was torn, a file tells nothing its session  *)
(* does not know: no entry twice, none out of order, none of another       *)
(* session.                                                                *)
FileTellsNoMore == alive => LeftOf(Loaded(disk[sessionFile]), fileEntries)

(* A session without an assistant message leaves no file behind, unless a  *)
(* caller asked for it then, or opened one that is damaged.                *)
FileWaitsForAssistant ==
  \A f \in Files \ ensured : disk[f].exists => HasAssistant(Loaded(disk[f]))

(* "The session is append-only ... Entries cannot be modified or deleted": *)
(* whatever is done, what a reader of a file once saw stays as it is.      *)
FilesAreAppendOnly ==
  [][\A f \in Files : IsPrefix(Loaded(disk[f]), Loaded(disk'[f]))]_vars

(* The label map, changed entry by entry, is the one a process that opens  *)
(* the file would build, across branch extraction and forks.               *)
LabelsMatchEntries == alive => labelsById = LabelsOf(fileEntries)

(* createBranchedSession() extracts "the path from root to the specified   *)
(* leaf": the conversation the model sees stays the same.                  *)
BranchKeeps(id) ==
  LET es == Branched(fileEntries, id, labelsById)
  IN  Context(es, LastId(es)) = Context(fileEntries, id)

IsPlain(path) == \A i \in DOMAIN path : NotLabel(path[i])

(* A branch without label entries on its path keeps its context, whichever *)
(* of its entries carry labels from elsewhere.                             *)
PlainBranchKeepsContext ==
  \A id \in IdsOf(fileEntries) :
     IsPlain(PathTo(fileEntries, id)) => BranchKeeps(id)

(* "runtime fork at selected entry keeps that entry in fork context", says *)
(* AgentSessionRuntimeTest: a fork at an entry that an answer precedes has *)
(* the context of that entry, though it is cut from one file, written to   *)
(* another and read back, unless there is a label entry on its path.       *)
ForkKeepsContext ==
  [][\A id \in IdsOf(fileEntries) :
       /\ Fork(id, TRUE)
       /\ HasAssistant(PathTo(fileEntries, id)) /\ IsPlain(PathTo(fileEntries, id))
       => Context(fileEntries', leafId') = Context(fileEntries, id)]_vars

(* Opening the file of the process that ended gives back the context of    *)
(* its last entry; where the leaf had been moved to is not on record.      *)
ReopenKeepsContext ==
  [][~alive /\ alive' /\ sessionFile' = sessionFile
       /\ HasAssistant(fileEntries) =>
        Context(fileEntries', leafId') = Context(fileEntries, LastId(fileEntries))]_vars
=============================================================================
