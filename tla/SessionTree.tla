----------------------------- MODULE SessionTree -----------------------------
(***************************************************************************)
(* The data of a session: entries in the order they were appended, each    *)
(* with the id of its parent, and what SessionManager.kt reads off them:   *)
(* the path from the root to a leaf, the context that path gives the       *)
(* model, and the labels in force.                                         *)
(*                                                                         *)
(* An entry's `ref` is the target of a label, or firstKeptEntryId of a     *)
(* compaction. "user" stands for every message that is no assistant        *)
(* message, "note" for the entries that never enter the context (thinking  *)
(* level, model, session info, custom). Id 0 is the null parent.           *)
(***************************************************************************)
EXTENDS Naturals, FiniteSets, SequencesExt

Kinds == {"user", "assistant", "note", "label", "unlabel", "compaction", "summary"}

(* The entries that set or clear a label.                                  *)
LabelKinds == {"label", "unlabel"}

(* Entries that put a message of their own into the context.               *)
Spoken == {"user", "assistant", "summary"}

Entry(id, parent, kind, ref) ==
  [id |-> id, parent |-> parent, kind |-> kind, ref |-> ref]

IdsOf(es) == {es[i].id : i \in DOMAIN es}

(* byId: ids are unique in a session.                                      *)
EntryOf(es, id) == es[CHOOSE i \in DOMAIN es : es[i].id = id]

HasAssistant(es) == \E i \in DOMAIN es : es[i].kind = "assistant"

LastId(es) == IF es = <<>> THEN 0 ELSE Last(es).id

(* The labels in force after all entries: the last word on each target.    *)
LabelsOf(es) ==
  {es[i].ref : i \in
     {k \in DOMAIN es :
        /\ es[k].kind = "label"
        /\ \A j \in DOMAIN es :
             j > k /\ es[j].kind \in LabelKinds => es[j].ref # es[k].ref}}

(* getBranch(): the path of an entry is that of its parent and the entry,  *)
(* as far up as parents are known.                                         *)
PathTo(es, leaf) ==
  LET ids == IdsOf(es)
      path[id \in {0} \cup ids] ==
        IF id = 0 THEN <<>>
        ELSE LET e == EntryOf(es, id)
             IN  Append(path[IF e.parent \in ids THEN e.parent ELSE 0], e)
  IN  path[IF leaf \in ids THEN leaf ELSE 0]

NotLabel(e) == e.kind \notin LabelKinds

Ids(path) == [i \in DOMAIN path |-> path[i].id]

(* The entries of these kinds, in order.                                   *)
OfKinds(path, kinds) ==
  LET kept[n \in 0..Len(path)] ==
        IF n = 0 THEN <<>>
        ELSE IF path[n].kind \in kinds THEN Append(kept[n - 1], path[n])
        ELSE kept[n - 1]
  IN  kept[Len(path)]

SpokenIds(path) == Ids(OfKinds(path, Spoken))

(* buildSessionContext(): the last compaction of the path replaces all     *)
(* that comes before its first kept entry. A first kept entry that is not  *)
(* on the path keeps nothing.                                              *)
Context(es, leaf) ==
  LET path        == PathTo(es, leaf)
      compactions == {i \in DOMAIN path : path[i].kind = "compaction"}
      last        == CHOOSE i \in compactions : \A j \in compactions : j <= i
      kept        == {i \in 1..(last - 1) :
                        \E j \in 1..i : path[j].id = path[last].ref}
      keptFrom    == last - Cardinality(kept)
  IN  IF compactions = {}
      THEN SpokenIds(path)
      ELSE <<path[last].id>> \o SpokenIds(SubSeq(path, keptFrom, last - 1))
             \o SpokenIds(SubSeq(path, last + 1, Len(path)))
=============================================================================
