------------------------ MODULE SessionManagerProofs ------------------------
(***************************************************************************)
(* What is proved of sessions and their files, for every number of         *)
(* entries, files and ends of the process: first the order of the entries  *)
(* and the paths between them, which need no assumption; then what the     *)
(* files tell when writes fail; the labels; the context of a branch; and,  *)
(* as long as no write is cut, that an answered session is on file.        *)
(***************************************************************************)
EXTENDS SessionManager, SequenceLemmas

-----------------------------------------------------------------------------
(* An entry that refers to older ones only.                                *)
Rooted ==
  {e \in [id : Nat, parent : Nat, kind : Kinds, ref : Nat] :
     e.parent < e.id /\ e.ref < e.id /\ (e.kind \in LabelKinds => e.ref # 0)}

(* What an entry refers to are numbers.                                    *)
LEMMA EntryNumbers == \A e \in Rooted : e.id \in Nat /\ e.parent \in Nat /\ e.ref \in Nat
BY DEF Rooted

(* Entries in the order they were made, all before number n.               *)
Grown(es, n) ==
  /\ es \in Seq(Rooted)
  /\ \A i \in 1..Len(es) : es[i].id < n
  /\ \A i, j \in 1..Len(es) : i < j => es[i].id < es[j].id

(* getBranch() as a function of the id, and what it is computed by.        *)
PathStep(es, path, id) ==
  IF id = 0 THEN <<>>
  ELSE LET e == EntryOf(es, id)
       IN  Append(path[IF e.parent \in IdsOf(es) THEN e.parent ELSE 0], e)

UpTo(es, n) == {0} \cup {id \in IdsOf(es) : id <= n}

IsPaths(es, n, path) == path = [id \in UpTo(es, n) |-> PathStep(es, path, id)]

Paths(es) == CHOOSE path : path = [id \in {0} \cup IdsOf(es) |-> PathStep(es, path, id)]

(* getBranch() takes the path of the leaf, or of none.                     *)
LEMMA PathToIs ==
  ASSUME NEW es, NEW leaf
  PROVE  PathTo(es, leaf) = Paths(es)[IF leaf \in IdsOf(es) THEN leaf ELSE 0]
BY DEF PathTo, Paths, PathStep

(* The entry with an id is one of the session and refers to an older one.  *)
LEMMA EntryOfId ==
  ASSUME NEW es \in Seq(Rooted), NEW id \in IdsOf(es)
  PROVE  /\ EntryOf(es, id) \in Rooted /\ EntryOf(es, id).id = id
         /\ EntryOf(es, id) \in ToSet(es) /\ id \in Nat /\ id # 0
         /\ EntryOf(es, id).parent \in Nat /\ EntryOf(es, id).parent < id
<1>1. \E i \in DOMAIN es : es[i].id = id
  BY DEF IdsOf
<1> DEFINE k == CHOOSE i \in DOMAIN es : es[i].id = id
<1>2. k \in DOMAIN es /\ es[k].id = id
  BY <1>1
<1>3. EntryOf(es, id) = es[k]
  BY DEF EntryOf
<1> HIDE DEF k
<1>4. es[k] \in Rooted /\ es[k] \in ToSet(es)
  BY <1>2 DEF ToSet
<1>5. es[k].id \in Nat /\ es[k].parent \in Nat /\ es[k].parent < es[k].id
  BY <1>4 DEF Rooted
<1>6. QED
  BY <1>2, <1>3, <1>4, <1>5

(* Paths can be computed id by id: what a path is made of is older.        *)
LEMMA PathsUpTo ==
  ASSUME NEW es \in Seq(Rooted), NEW n \in Nat
  PROVE  \E path : IsPaths(es, n, path)
<1> DEFINE G == {k \in Nat : \E path : IsPaths(es, k, path)}
<1>1. 0 \in G
  <2>1. UpTo(es, 0) = {0}
    BY EntryOfId DEF UpTo
  <2>2. IsPaths(es, 0, [id \in {0} |-> <<>>])
    BY <2>1 DEF IsPaths, PathStep
  <2>3. QED
    BY <2>2
<1>2. ASSUME NEW k \in Nat, k \in G PROVE k + 1 \in G
  <2>1. PICK path : IsPaths(es, k, path)
    BY <1>2
  <2>2. UpTo(es, k) \subseteq UpTo(es, k + 1)
    BY EntryOfId DEF UpTo
  <2>3. \A id \in UpTo(es, k + 1) : id \in UpTo(es, k) \/ id = k + 1
    BY EntryOfId DEF UpTo
  <2> DEFINE up == [id \in UpTo(es, k + 1) |->
                      IF id \in UpTo(es, k) THEN path[id] ELSE PathStep(es, path, id)]
  <2>4. \A id \in UpTo(es, k + 1) : PathStep(es, up, id) = PathStep(es, path, id)
    <3> SUFFICES ASSUME NEW id \in UpTo(es, k + 1) PROVE PathStep(es, up, id) = PathStep(es, path, id)
      OBVIOUS
    <3>1. CASE id = 0
      BY <3>1 DEF PathStep
    <3>2. CASE id # 0
      <4>1. id \in IdsOf(es) /\ id <= k + 1
        BY <3>2 DEF UpTo
      <4> DEFINE e == EntryOf(es, id)
                 above == IF e.parent \in IdsOf(es) THEN e.parent ELSE 0
      <4>2. above \in UpTo(es, k)
        BY <4>1, EntryOfId DEF UpTo
      <4>3. up[above] = path[above]
        BY <2>2, <4>2
      <4> HIDE DEF up
      <4>4. QED
        BY <3>2, <4>3 DEF PathStep
    <3>3. QED
      BY <3>1, <3>2
  <2>5. \A id \in UpTo(es, k) : path[id] = PathStep(es, path, id)
    BY <2>1 DEF IsPaths
  <2>6. \A id \in UpTo(es, k + 1) : up[id] = PathStep(es, up, id)
    BY <2>4, <2>5
  <2>7. IsPaths(es, k + 1, up)
    <3>1. up = [id \in UpTo(es, k + 1) |-> up[id]]
      OBVIOUS
    <3> HIDE DEF up
    <3>2. QED
      BY <2>6, <3>1 DEF IsPaths
  <2>8. QED
    BY <2>7
<1> HIDE DEF G
<1>3. Nat \subseteq G
  BY <1>1, <1>2, NumberInduction
<1>4. QED
  BY <1>3 DEF G

(* So there are paths for all entries of a session.                        *)
LEMMA PathsAre ==
  ASSUME NEW n \in Nat, NEW es, Grown(es, n)
  PROVE  Paths(es) = [id \in {0} \cup IdsOf(es) |-> PathStep(es, Paths(es), id)]
<1>1. es \in Seq(Rooted)
  BY DEF Grown
<1>2. UpTo(es, n) = {0} \cup IdsOf(es)
  <2>1. \A id \in IdsOf(es) : id <= n
    <3> SUFFICES ASSUME NEW id \in IdsOf(es) PROVE id <= n
      OBVIOUS
    <3>1. PICK i \in DOMAIN es : es[i].id = id
      BY DEF IdsOf
    <3>2. i \in 1..Len(es) /\ id \in Nat
      BY <1>1, <3>1, EntryOfId
    <3>3. QED
      BY <3>1, <3>2 DEF Grown
  <2>2. QED
    BY <2>1 DEF UpTo
<1>3. \E path : path = [id \in {0} \cup IdsOf(es) |-> PathStep(es, path, id)]
  <2>1. PICK path : IsPaths(es, n, path)
    BY <1>1, PathsUpTo, Zenon
  <2>2. path = [id \in UpTo(es, n) |-> PathStep(es, path, id)]
    BY <2>1, Zenon DEF IsPaths
  <2>3. path = [id \in {0} \cup IdsOf(es) |-> PathStep(es, path, id)]
    BY <1>2, <2>2, Zenon
  <2>4. QED
    BY <2>3, Zenon
<1>4. QED
  BY <1>3, Zenon DEF Paths

(* A path is that of the parent and the entry; an unknown entry has none.  *)
LEMMA PathOfEntry ==
  ASSUME NEW n \in Nat, NEW es, Grown(es, n)
  PROVE  /\ \A id \in IdsOf(es) : PathTo(es, id) =
               Append(PathTo(es, EntryOf(es, id).parent), EntryOf(es, id))
         /\ \A id : id \notin IdsOf(es) => PathTo(es, id) = <<>>
<1> DEFINE P == Paths(es)
<1>0. es \in Seq(Rooted)
  BY DEF Grown
<1>1. \A id \in {0} \cup IdsOf(es) : P[id] = PathStep(es, P, id)
  BY PathsAre
<1>2. \A id : PathTo(es, id) = P[IF id \in IdsOf(es) THEN id ELSE 0]
  BY PathToIs
<1> HIDE DEF P
<1>3. P[0] = <<>>
  BY <1>1 DEF PathStep
<1>4. ASSUME NEW id \in IdsOf(es)
      PROVE  PathTo(es, id) = Append(PathTo(es, EntryOf(es, id).parent), EntryOf(es, id))
  <2>1. PathTo(es, id) = PathStep(es, P, id)
    BY <1>1, <1>2
  <2>2. id # 0
    BY <1>0, EntryOfId
  <2> DEFINE e == EntryOf(es, id)
  <2>3. PathTo(es, e.parent) = P[IF e.parent \in IdsOf(es) THEN e.parent ELSE 0]
    BY <1>2
  <2>4. QED
    BY <2>1, <2>2, <2>3 DEF PathStep
<1>5. QED
  BY <1>2, <1>3, <1>4

(* Entries stay in the order they were made when a later one is appended.  *)
LEMMA GrownAppend ==
  ASSUME NEW m \in Nat, NEW n \in Nat, NEW es, Grown(es, m), NEW e \in Rooted,
         m <= e.id, e.id < n
  PROVE  Grown(Append(es, e), n)
<1> DEFINE t == Append(es, e)
<1>1. /\ es \in Seq(Rooted) /\ Len(es) \in Nat
      /\ \A i \in 1..Len(es) : es[i].id < m /\ es[i].id \in Nat
      /\ \A i, j \in 1..Len(es) : i < j => es[i].id < es[j].id
  <2>1. es \in Seq(Rooted)
    BY DEF Grown
  <2>2. \A i \in 1..Len(es) : es[i] \in Rooted
    BY <2>1
  <2>3. QED
    BY <2>1, <2>2, EntryNumbers DEF Grown
<1>2. /\ t \in Seq(Rooted) /\ Len(t) = Len(es) + 1
      /\ \A i \in 1..Len(es) : t[i] = es[i]
      /\ t[Len(es) + 1] = e
  BY <1>1
<1>3. e.id \in Nat
  BY EntryNumbers
<1> HIDE DEF t
<1>4. \A i \in 1..Len(t) : t[i].id < n
  BY <1>1, <1>2, <1>3, SMTT(30), ZenonT(60)
<1>5. ASSUME NEW i \in 1..Len(t), NEW j \in 1..Len(t), i < j PROVE t[i].id < t[j].id
  <2>1. i \in 1..Len(es)
    BY <1>1, <1>2, <1>5
  <2>2. CASE j \in 1..Len(es)
    BY <1>1, <1>2, <1>5, <2>1, <2>2
  <2>3. CASE j = Len(es) + 1
    BY <1>1, <1>2, <1>3, <2>1, <2>3
  <2>4. QED
    BY <1>1, <1>2, <2>2, <2>3
<1>6. QED
  BY <1>2, <1>4, <1>5 DEF Grown, t

(* What is in order with a later entry at the end was before it.           *)
LEMMA GrownFront ==
  ASSUME NEW n \in Nat, NEW es \in Seq(Rooted), NEW e \in Rooted, Grown(Append(es, e), n)
  PROVE  Grown(es, e.id) /\ e.id < n /\ e.id \in Nat
<1> DEFINE t == Append(es, e)
<1>1. /\ Len(es) \in Nat /\ Len(t) = Len(es) + 1
      /\ \A i \in 1..Len(es) : t[i] = es[i]
      /\ t[Len(es) + 1] = e
  OBVIOUS
<1>2. /\ \A i \in 1..Len(t) : t[i].id < n
      /\ \A i, j \in 1..Len(t) : i < j => t[i].id < t[j].id
  BY DEF Grown
<1>3. e.id \in Nat
  BY EntryNumbers
<1> HIDE DEF t
<1>4. e.id < n /\ \A i \in 1..Len(es) : es[i].id < e.id
  BY <1>1, <1>2
<1>5. \A i, j \in 1..Len(es) : i < j => es[i].id < es[j].id
  BY <1>1, <1>2
<1>6. QED
  BY <1>3, <1>4, <1>5 DEF Grown

(* A later bound.                                                          *)
LEMMA GrownLater ==
  ASSUME NEW m \in Nat, NEW n \in Nat, m <= n, NEW es, Grown(es, m)
  PROVE  Grown(es, n)
<1>1. \A i \in 1..Len(es) : es[i] \in Rooted
  BY DEF Grown
<1>2. QED
  BY <1>1, EntryNumbers DEF Grown

(* No entries are in order.                                                *)
LEMMA GrownEmpty == \A n \in Nat : Grown(<<>>, n)
BY DEF Grown

(* A path goes from an entry without parent in the session to the one asked *)
(* for, each entry the parent of the next.                                  *)
Linked(es, path) ==
  /\ ToSet(path) \subseteq ToSet(es)
  /\ path # <<>> => path[1].parent \notin IdsOf(es)
  /\ \A i \in 1..Len(path) : i > 1 => path[i].parent = path[i - 1].id

(* The path to a leaf is in order, linked, and ends with the leaf.         *)
LEMMA PathIsGrown ==
  ASSUME NEW n \in Nat, NEW es, Grown(es, n), NEW leaf \in Nat
  PROVE  /\ Grown(PathTo(es, leaf), leaf + 1)
         /\ Linked(es, PathTo(es, leaf))
         /\ leaf \in IdsOf(es) => LastId(PathTo(es, leaf)) = leaf /\ PathTo(es, leaf) # <<>>
<1> DEFINE Good(k) == /\ Grown(PathTo(es, k), k + 1)
                      /\ Linked(es, PathTo(es, k))
                      /\ k \in IdsOf(es) => LastId(PathTo(es, k)) = k /\ PathTo(es, k) # <<>>
           G == {k \in Nat : \A i \in 0..k : Good(i)}
<1>0. es \in Seq(Rooted)
  BY DEF Grown
<1>1. ASSUME NEW k \in Nat, k \notin IdsOf(es) PROVE Good(k)
  <2>1. PathTo(es, k) = <<>>
    BY <1>1, PathOfEntry
  <2>2. Linked(es, <<>>)
    BY MembersOfFew DEF Linked
  <2>3. QED
    BY <1>1, <2>1, <2>2, GrownEmpty
<1>2. ASSUME NEW k \in IdsOf(es), \A i \in 0..(k - 1) : Good(i) PROVE Good(k)
  <2> DEFINE e == EntryOf(es, k)
             p == PathTo(es, e.parent)
             t == Append(p, e)
  <2>1. /\ e \in Rooted /\ e.id = k /\ e \in ToSet(es) /\ k \in Nat /\ k # 0
        /\ e.parent \in Nat /\ e.parent < k
    BY <1>0, EntryOfId
  <2>2. PathTo(es, k) = t
    BY PathOfEntry
  <2>3. Good(e.parent)
    BY <1>2, <2>1
  <2>4. /\ Grown(p, e.parent + 1) /\ Linked(es, p)
        /\ e.parent \in IdsOf(es) => LastId(p) = e.parent /\ p # <<>>
    BY <2>3
  <2>5. e.parent \notin IdsOf(es) => p = <<>>
    BY PathOfEntry
  <2> HIDE DEF e, p
  <2>6. Grown(t, k + 1)
    BY <2>1, <2>4, GrownAppend
  <2>7. p \in Seq(Rooted)
    BY <2>4 DEF Grown
  <2>8. /\ t \in Seq(Rooted) /\ Len(t) = Len(p) + 1 /\ t # <<>> /\ Len(p) \in Nat
        /\ \A i \in 1..Len(p) : t[i] = p[i]
        /\ t[Len(p) + 1] = e
    BY <2>1, <2>7
  <2>9. ToSet(t) \subseteq ToSet(es)
    BY <2>1, <2>4, <2>7, MembersOfAppend DEF Linked
  <2> HIDE DEF t
  <2>10. LastId(t) = k
    BY <2>1, <2>8 DEF LastId, Last
  <2>11. t[1].parent \notin IdsOf(es)
    <3>1. CASE p = <<>>
      <4>1. Len(p) = 0 /\ e.parent \notin IdsOf(es)
        BY <2>4, <3>1
      <4>2. QED
        BY <2>8, <4>1
    <3>2. CASE p # <<>>
      <4>1. 1 \in 1..Len(p)
        BY <2>7, <2>8, <3>2
      <4>2. QED
        BY <2>4, <2>8, <3>2, <4>1 DEF Linked
    <3>3. QED
      BY <3>1, <3>2
  <2>12. ASSUME NEW i \in 1..Len(t), i > 1 PROVE t[i].parent = t[i - 1].id
    <3>1. CASE i \in 1..Len(p)
      BY <2>4, <2>8, <2>12, <3>1 DEF Linked
    <3>2. CASE i = Len(p) + 1
      <4>1. p # <<>> /\ Len(p) \in 1..Len(p)
        BY <2>8, <2>12, <3>2
      <4>2. p[Len(p)].id = e.parent
        BY <2>4, <2>5, <4>1 DEF LastId, Last
      <4>3. QED
        BY <2>8, <3>2, <4>1, <4>2
    <3>3. QED
      BY <2>8, <3>1, <3>2
  <2>13. Linked(es, t)
    BY <2>9, <2>11, <2>12 DEF Linked
  <2>14. QED
    BY <2>2, <2>6, <2>8, <2>10, <2>13
<1>3. \A k \in Nat : (\A i \in 0..(k - 1) : Good(i)) => Good(k)
  BY <1>1, <1>2
<1> HIDE DEF Good
<1>4. 0 \in G
  <2>1. \A i \in 0..(0 - 1) : Good(i)
    OBVIOUS
  <2>2. Good(0)
    BY <1>3, <2>1
  <2>3. QED
    BY <2>2
<1>5. ASSUME NEW k \in Nat, k \in G PROVE k + 1 \in G
  <2>1. \A i \in 0..((k + 1) - 1) : Good(i)
    BY <1>5
  <2>2. Good(k + 1)
    BY <1>3, <2>1
  <2>3. QED
    BY <2>1, <2>2
<1> HIDE DEF G
<1>6. leaf \in G
  BY <1>4, <1>5, NumberInduction
<1>7. Good(leaf)
  BY <1>6 DEF G
<1>8. QED
  BY <1>7 DEF Good

-----------------------------------------------------------------------------
(* The entries of some kinds: a function of how many have been looked at.  *)
KeptStep(path, kinds, kept, n) ==
  IF n = 0 THEN <<>>
  ELSE IF path[n].kind \in kinds THEN Append(kept[n - 1], path[n])
  ELSE kept[n - 1]

IsKept(path, kinds, m, kept) == kept = [n \in 0..m |-> KeptStep(path, kinds, kept, n)]

KeptOf(path, kinds) ==
  CHOOSE kept : kept = [n \in 0..Len(path) |-> KeptStep(path, kinds, kept, n)]

(* The entries of some kinds are what is kept of the whole path.           *)
LEMMA OfKindsIs ==
  ASSUME NEW path, NEW kinds
  PROVE  OfKinds(path, kinds) = KeptOf(path, kinds)[Len(path)]
BY DEF OfKinds, KeptOf, KeptStep

(* What is kept can be computed entry by entry.                            *)
LEMMA KeptUpTo ==
  ASSUME NEW path, NEW kinds, NEW m \in Nat
  PROVE  \E kept : IsKept(path, kinds, m, kept)
<1> DEFINE G == {k \in Nat : \E kept : IsKept(path, kinds, k, kept)}
<1>1. 0 \in G
  <2>1. IsKept(path, kinds, 0, [n \in 0..0 |-> <<>>])
    BY DEF IsKept, KeptStep
  <2>2. QED
    BY <2>1
<1>2. ASSUME NEW k \in Nat, k \in G PROVE k + 1 \in G
  <2>1. PICK kept : IsKept(path, kinds, k, kept)
    BY <1>2
  <2> DEFINE more == [n \in 0..(k + 1) |->
                        IF n \in 0..k THEN kept[n] ELSE KeptStep(path, kinds, kept, n)]
  <2>2. \A n \in 0..(k + 1) : KeptStep(path, kinds, more, n) = KeptStep(path, kinds, kept, n)
    <3> SUFFICES ASSUME NEW n \in 0..(k + 1), n # 0
                 PROVE  KeptStep(path, kinds, more, n) = KeptStep(path, kinds, kept, n)
      BY DEF KeptStep
    <3>1. n - 1 \in 0..k
      OBVIOUS
    <3>2. more[n - 1] = kept[n - 1]
      BY <3>1
    <3> HIDE DEF more
    <3>3. QED
      BY <3>2 DEF KeptStep
  <2>3. \A n \in 0..k : kept[n] = KeptStep(path, kinds, kept, n)
    BY <2>1 DEF IsKept
  <2>4. \A n \in 0..(k + 1) : more[n] = KeptStep(path, kinds, more, n)
    BY <2>2, <2>3
  <2>5. IsKept(path, kinds, k + 1, more)
    <3>1. more = [n \in 0..(k + 1) |-> more[n]]
      OBVIOUS
    <3> HIDE DEF more
    <3>2. QED
      BY <2>4, <3>1 DEF IsKept
  <2>6. QED
    BY <2>5
<1> HIDE DEF G
<1>3. m \in G
  BY <1>1, <1>2, NumberInduction
<1>4. QED
  BY <1>3 DEF G

(* So it is known for the whole path.                                      *)
LEMMA KeptIs ==
  ASSUME NEW T, NEW path \in Seq(T), NEW kinds
  PROVE  \A n \in 0..Len(path) :
           KeptOf(path, kinds)[n] = KeptStep(path, kinds, KeptOf(path, kinds), n)
<1> DEFINE K == KeptOf(path, kinds)
<1>1. Len(path) \in Nat
  OBVIOUS
<1>2. \E kept : kept = [n \in 0..Len(path) |-> KeptStep(path, kinds, kept, n)]
  BY <1>1, KeptUpTo DEF IsKept
<1>3. K = [n \in 0..Len(path) |-> KeptStep(path, kinds, K, n)]
  BY <1>2, Zenon DEF KeptOf
<1> HIDE DEF K
<1>4. \A n \in 0..Len(path) : K[n] = KeptStep(path, kinds, K, n)
  BY <1>3
<1>5. QED
  BY <1>4 DEF K

(* Of nothing, nothing is kept.                                            *)
LEMMA OfKindsEmpty == \A kinds : OfKinds(<<>>, kinds) = <<>>
<1> SUFFICES ASSUME NEW kinds PROVE OfKinds(<<>>, kinds) = <<>>
  OBVIOUS
<1> DEFINE e == <<>>
<1>1. e \in Seq({}) /\ Len(e) = 0
  OBVIOUS
<1> HIDE DEF e
<1>2. \A n \in 0..Len(e) : KeptOf(e, kinds)[n] = KeptStep(e, kinds, KeptOf(e, kinds), n)
  BY <1>1, KeptIs
<1>3. KeptOf(e, kinds)[0] = KeptStep(e, kinds, KeptOf(e, kinds), 0)
  BY <1>1, <1>2
<1>4. OfKinds(e, kinds) = <<>>
  BY <1>1, <1>3, OfKindsIs DEF KeptStep
<1>5. QED
  BY <1>4 DEF e

(* One more entry at the end, kept or not.                                 *)
LEMMA OfKindsAppend ==
  ASSUME NEW T, NEW s \in Seq(T), NEW x \in T, NEW kinds
  PROVE  OfKinds(Append(s, x), kinds) =
           IF x.kind \in kinds THEN Append(OfKinds(s, kinds), x) ELSE OfKinds(s, kinds)
<1> DEFINE t == Append(s, x)
           K == KeptOf(s, kinds)
           L == KeptOf(t, kinds)
<1>1. /\ Len(s) \in Nat /\ t \in Seq(T) /\ Len(t) = Len(s) + 1
      /\ \A i \in 1..Len(s) : t[i] = s[i]
      /\ t[Len(s) + 1] = x
  OBVIOUS
<1> HIDE DEF t
<1>2. /\ \A n \in 0..Len(s) : K[n] = KeptStep(s, kinds, K, n)
      /\ \A n \in 0..Len(t) : L[n] = KeptStep(t, kinds, L, n)
  BY <1>1, KeptIs
<1> HIDE DEF K, L
<1> DEFINE G == {n \in Nat : n <= Len(s) => L[n] = K[n]}
<1>3. 0 \in G
  <2>1. L[0] = <<>> /\ K[0] = <<>>
    BY <1>1, <1>2 DEF KeptStep
  <2>2. QED
    BY <2>1
<1>4. ASSUME NEW n \in Nat, n \in G PROVE n + 1 \in G
  <2> SUFFICES ASSUME n + 1 <= Len(s) PROVE L[n + 1] = K[n + 1]
    OBVIOUS
  <2>1. /\ n + 1 \in 0..Len(s) /\ n + 1 \in 0..Len(t) /\ n + 1 \in 1..Len(s) /\ n + 1 # 0
        /\ (n + 1) - 1 = n
    BY <1>1
  <2>2. L[n] = K[n]
    BY <1>1, <1>4
  <2>3. t[n + 1] = s[n + 1]
    BY <1>1, <2>1
  <2>4. /\ K[n + 1] = KeptStep(s, kinds, K, n + 1)
        /\ L[n + 1] = KeptStep(t, kinds, L, n + 1)
    BY <1>2, <2>1
  <2>5. QED
    BY <2>1, <2>2, <2>3, <2>4 DEF KeptStep
<1> HIDE DEF G
<1>5. Len(s) \in G
  BY <1>1, <1>3, <1>4, NumberInduction
<1>6. L[Len(s)] = K[Len(s)]
  BY <1>1, <1>5 DEF G
<1>7. L[Len(t)] = KeptStep(t, kinds, L, Len(s) + 1)
  BY <1>1, <1>2
<1>8. L[Len(t)] = IF x.kind \in kinds THEN Append(K[Len(s)], x) ELSE K[Len(s)]
  BY <1>1, <1>6, <1>7 DEF KeptStep
<1>9. OfKinds(t, kinds) = L[Len(t)] /\ OfKinds(s, kinds) = K[Len(s)]
  BY OfKindsIs DEF K, L
<1>10. OfKinds(t, kinds) =
           IF x.kind \in kinds THEN Append(OfKinds(s, kinds), x) ELSE OfKinds(s, kinds)
  BY <1>8, <1>9
<1>11. QED
  BY <1>10 DEF t

(* What is kept are entries of the sequence, and all of these kinds.       *)
LEMMA OfKindsType ==
  ASSUME NEW T, NEW s \in Seq(T), NEW kinds
  PROVE  /\ OfKinds(s, kinds) \in Seq(T)
         /\ ToSet(OfKinds(s, kinds)) = {x \in ToSet(s) : x.kind \in kinds}
<1> DEFINE Good(r) == /\ OfKinds(r, kinds) \in Seq(T)
                      /\ ToSet(OfKinds(r, kinds)) = {x \in ToSet(r) : x.kind \in kinds}
           P == {r \in Seq(T) : Good(r)}
<1>1. <<>> \in P
  <2>1. OfKinds(<<>>, kinds) = <<>> /\ ToSet(<<>>) = {} /\ <<>> \in Seq(T)
    BY OfKindsEmpty, MembersOfFew
  <2>2. QED
    BY <2>1
<1>2. ASSUME NEW r \in Seq(T), NEW x \in T, r \in P PROVE Append(r, x) \in P
  <2> DEFINE t == Append(r, x)
             k == OfKinds(r, kinds)
  <2>1. t \in Seq(T) /\ ToSet(t) = ToSet(r) \cup {x}
    BY MembersOfAppend
  <2>2. OfKinds(t, kinds) = IF x.kind \in kinds THEN Append(k, x) ELSE k
    BY OfKindsAppend
  <2>3. k \in Seq(T) /\ ToSet(k) = {y \in ToSet(r) : y.kind \in kinds}
    BY <1>2
  <2>4. Append(k, x) \in Seq(T) /\ ToSet(Append(k, x)) = ToSet(k) \cup {x}
    BY <2>3, MembersOfAppend
  <2> HIDE DEF k, t
  <2>5. CASE x.kind \in kinds
    BY <2>1, <2>2, <2>3, <2>4, <2>5 DEF t
  <2>6. CASE x.kind \notin kinds
    BY <2>1, <2>2, <2>3, <2>6 DEF t
  <2>7. QED
    BY <2>5, <2>6
<1> HIDE DEF P
<1>3. Seq(T) \subseteq P
  BY <1>1, <1>2, SequenceInduction
<1>4. QED
  BY <1>3 DEF P

(* Entries that are kept stay in the order they were made.                 *)
LEMMA OfKindsGrown ==
  ASSUME NEW n \in Nat, NEW s, Grown(s, n), NEW kinds
  PROVE  Grown(OfKinds(s, kinds), n)
<1> DEFINE Good(r) == \A m \in Nat : Grown(r, m) => Grown(OfKinds(r, kinds), m)
           P == {r \in Seq(Rooted) : Good(r)}
<1>1. <<>> \in P
  BY OfKindsEmpty, GrownEmpty
<1>2. ASSUME NEW r \in Seq(Rooted), NEW x \in Rooted, r \in P PROVE Append(r, x) \in P
  <2> SUFFICES ASSUME NEW m \in Nat, Grown(Append(r, x), m)
               PROVE  Grown(OfKinds(Append(r, x), kinds), m)
    OBVIOUS
  <2>1. Grown(r, x.id) /\ x.id < m /\ x.id \in Nat
    BY GrownFront
  <2>2. Grown(OfKinds(r, kinds), x.id)
    BY <1>2, <2>1
  <2>3. Grown(Append(OfKinds(r, kinds), x), m) /\ Grown(OfKinds(r, kinds), m)
    BY <2>1, <2>2, GrownAppend, GrownLater
  <2>4. OfKinds(Append(r, x), kinds) =
          IF x.kind \in kinds THEN Append(OfKinds(r, kinds), x) ELSE OfKinds(r, kinds)
    BY OfKindsAppend
  <2>5. QED
    BY <2>3, <2>4, Zenon
<1> HIDE DEF P
<1>3. Seq(Rooted) \subseteq P
  BY <1>1, <1>2, SequenceInduction
<1>4. s \in P
  BY <1>3 DEF Grown
<1>5. QED
  BY <1>4 DEF P

-----------------------------------------------------------------------------
(* The members of a finite set, in some order.                             *)
LEMMA ListOfSet ==
  ASSUME NEW S, IsFiniteSet(S)
  PROVE  /\ Cardinality(S) \in Nat
         /\ SetToSeq(S) \in [1..Cardinality(S) -> S]
<1>1. Cardinality(S) \in Nat /\ ExistsBijection(1..Cardinality(S), S)
  BY FS_CardinalityType
<1>2. PICK f \in [1..Cardinality(S) -> S] : IsInjective(f)
  BY <1>1 DEF ExistsBijection, Bijection, Injection
<1>3. QED
  BY <1>1, <1>2 DEF SetToSeq

(* What createBranchedSession() makes of the path: the entries that are no *)
(* labels, and behind them one new label for each labelled one.            *)
PathOf(es, leaf) == OfKinds(PathTo(es, leaf), Kinds \ LabelKinds)
LabelledOn(es, leaf, labels) == labels \cap IdsOf(PathOf(es, leaf))
NewParent(es, leaf, i) == IF i = 1 THEN LastId(PathOf(es, leaf)) ELSE nextId + i - 2
NewLabels(es, leaf, labels) ==
  [i \in DOMAIN SetToSeq(LabelledOn(es, leaf, labels)) |->
     Entry(nextId + i - 1, NewParent(es, leaf, i), "label",
           SetToSeq(LabelledOn(es, leaf, labels))[i])]

(* The branch under the names given to its parts.                          *)
LEMMA BranchedIs ==
  ASSUME NEW es, NEW leaf, NEW labels
  PROVE  Branched(es, leaf, labels) = PathOf(es, leaf) \o NewLabels(es, leaf, labels)
BY DEF Branched, PathOf, NewLabels, LabelledOn, NewParent

(* The last entry is older than the number the entries are below.          *)
LEMMA LastOfGrown ==
  ASSUME NEW n \in Nat, n # 0, NEW s, Grown(s, n)
  PROVE  LastId(s) \in Nat /\ LastId(s) < n
<1>1. s \in Seq(Rooted) /\ \A i \in 1..Len(s) : s[i].id < n
  BY DEF Grown
<1>2. CASE s = <<>>
  BY <1>2 DEF LastId
<1>3. CASE s # <<>>
  <2>1. Len(s) \in 1..Len(s)
    BY <1>1, <1>3
  <2>2. s[Len(s)] \in Rooted
    BY <1>1, <2>1
  <2>3. QED
    BY <1>1, <1>3, <2>1, <2>2 DEF LastId, Last, Rooted
<1>4. QED
  BY <1>2, <1>3

(* There are finitely many ids, all below that number.                     *)
LEMMA IdsOfGrown ==
  ASSUME NEW n \in Nat, NEW s, Grown(s, n)
  PROVE  IdsOf(s) \in SUBSET (1..(n - 1)) /\ IsFiniteSet(IdsOf(s))
<1>1. s \in Seq(Rooted) /\ \A i \in 1..Len(s) : s[i].id < n
  BY DEF Grown
<1>2. \A i \in DOMAIN s : s[i].id \in 1..(n - 1)
  <2> SUFFICES ASSUME NEW i \in DOMAIN s PROVE s[i].id \in 1..(n - 1)
    OBVIOUS
  <2>1. s[i] \in Rooted /\ i \in 1..Len(s)
    BY <1>1
  <2>2. QED
    BY <1>1, <2>1 DEF Rooted
<1>3. IdsOf(s) \in SUBSET (1..(n - 1))
  BY <1>2 DEF IdsOf
<1>4. IsFiniteSet(1..(n - 1))
  BY FS_Interval
<1>5. QED
  BY <1>3, <1>4, FS_Subset

(* The two parts of a branch: entries in order, and labels numbered on.    *)
LEMMA BranchShape ==
  ASSUME nextId \in Nat, nextId # 0, NEW es, Grown(es, nextId), NEW leaf \in IdsOf(es), NEW labels
  PROVE  LET p  == PathOf(es, leaf)
             ls == NewLabels(es, leaf, labels)
             c  == Cardinality(LabelledOn(es, leaf, labels))
         IN  /\ Grown(p, nextId) /\ c \in Nat
             /\ ls \in Seq(Rooted) /\ Len(ls) = c
             /\ \A i \in 1..c : /\ ls[i].id = nextId + i - 1 /\ ls[i].kind = "label"
                                /\ ls[i].parent = NewParent(es, leaf, i)
                                /\ ls[i].ref \in IdsOf(p)
<1> DEFINE p  == PathOf(es, leaf)
           L  == LabelledOn(es, leaf, labels)
           o  == SetToSeq(L)
           c  == Cardinality(L)
           ls == NewLabels(es, leaf, labels)
<1>1. leaf \in Nat /\ leaf + 1 \in Nat /\ leaf + 1 <= nextId
  BY IdsOfGrown
<1>2. Grown(PathTo(es, leaf), nextId)
  BY <1>1, PathIsGrown, GrownLater
<1>3. Grown(p, nextId)
  BY <1>2, OfKindsGrown DEF PathOf
<1>4. IdsOf(p) \in SUBSET (1..(nextId - 1)) /\ IsFiniteSet(IdsOf(p))
  BY <1>3, IdsOfGrown
<1>5. L \in SUBSET IdsOf(p)
  BY DEF LabelledOn
<1>6. IsFiniteSet(L)
  BY <1>4, <1>5, FS_Subset
<1>7. c \in Nat /\ o \in [1..c -> L]
  BY <1>6, ListOfSet
<1>8. LastId(p) \in Nat /\ LastId(p) < nextId
  BY <1>3, LastOfGrown
<1>9. ls = [i \in 1..c |-> Entry(nextId + i - 1, NewParent(es, leaf, i), "label", o[i])]
  BY <1>7 DEF NewLabels
<1> HIDE DEF p, L, o, c, ls
<1>10. ASSUME NEW i \in 1..c
       PROVE  /\ ls[i] \in Rooted /\ ls[i].id = nextId + i - 1 /\ ls[i].kind = "label"
              /\ ls[i].parent = NewParent(es, leaf, i) /\ ls[i].ref \in IdsOf(p)
  <2>1. o[i] \in IdsOf(p) /\ o[i] \in Nat
    BY <1>4, <1>5, <1>7
  <2>2. nextId + i - 1 \in Nat
    BY <1>7
  <2>3. NewParent(es, leaf, i) \in Nat /\ NewParent(es, leaf, i) < nextId + i - 1
    BY <1>7, <1>8 DEF NewParent, p
  <2>4. "label" \in Kinds
    BY DEF Kinds
  <2>5. ls[i] = [id |-> nextId + i - 1, parent |-> NewParent(es, leaf, i),
                 kind |-> "label", ref |-> o[i]]
    BY <1>9 DEF Entry
  <2> DEFINE x == NewParent(es, leaf, i)
             y == nextId + i - 1
  <2>6. x \in Nat /\ y \in Nat /\ x < y
    BY <2>2, <2>3
  <2> HIDE DEF x, y
  <2>7. o[i] < y /\ o[i] # 0
    BY <1>4, <1>7, <2>1 DEF y
  <2>8. [id |-> y, parent |-> x, kind |-> "label", ref |-> o[i]] \in Rooted
    BY <2>1, <2>4, <2>6, <2>7 DEF Rooted
  <2>9. QED
    BY <2>1, <2>5, <2>8 DEF x, y
<1>11. ls \in Seq(Rooted) /\ Len(ls) = c
  <2>1. ls = [i \in 1..c |-> ls[i]]
    BY <1>9
  <2>2. QED
    BY <1>7, <1>10, <2>1
<1>12. QED
  BY <1>3, <1>7, <1>10, <1>11 DEF p, L, c, ls

(* Its entries are in order too, and the ids of the new ones are the next. *)
LEMMA BranchInOrder ==
  ASSUME nextId \in Nat, nextId # 0, NEW es, Grown(es, nextId), NEW leaf \in IdsOf(es), NEW labels
  PROVE  LET b == Branched(es, leaf, labels)
             n == Cardinality(NewIds(b))
         IN  n \in Nat /\ Grown(b, nextId + n)
<1> DEFINE p  == PathOf(es, leaf)
           ls == NewLabels(es, leaf, labels)
           c  == Cardinality(LabelledOn(es, leaf, labels))
           b  == p \o ls
<1>1. /\ Grown(p, nextId) /\ c \in Nat /\ ls \in Seq(Rooted) /\ Len(ls) = c
      /\ \A i \in 1..c : ls[i].id = nextId + i - 1
  BY BranchShape
<1>2. Branched(es, leaf, labels) = b
  BY BranchedIs
<1> HIDE DEF p, ls, c
<1>3. /\ p \in Seq(Rooted) /\ Len(p) \in Nat
      /\ \A i \in 1..Len(p) : p[i].id < nextId /\ p[i].id \in Nat
      /\ \A i, j \in 1..Len(p) : i < j => p[i].id < p[j].id
  <2>1. p \in Seq(Rooted)
    BY <1>1 DEF Grown
  <2>2. \A i \in 1..Len(p) : p[i] \in Rooted
    BY <2>1
  <2>3. QED
    BY <1>1, <2>1, <2>2, EntryNumbers DEF Grown
<1>4. /\ b \in Seq(Rooted) /\ Len(b) = Len(p) + c
      /\ \A i \in 1..(Len(p) + c) : b[i] = IF i <= Len(p) THEN p[i] ELSE ls[i - Len(p)]
  BY <1>1, <1>3, ConcatProperties
<1> HIDE DEF b
<1>5. /\ \A i \in 1..Len(b) : i \in 1..Len(p) \/ i - Len(p) \in 1..c
      /\ \A i \in 1..Len(p) : i \in 1..Len(b) /\ b[i].id = p[i].id
      /\ \A k \in 1..c : k + Len(p) \in 1..Len(b) /\ b[k + Len(p)].id = nextId + k - 1
  <2>1. \A i \in 1..Len(b) : i \in 1..Len(p) \/ i - Len(p) \in 1..c
    BY <1>1, <1>3, <1>4
  <2>2. \A i \in 1..Len(p) : i \in 1..Len(b) /\ b[i] = p[i]
    BY <1>1, <1>3, <1>4
  <2>3. ASSUME NEW k \in 1..c PROVE k + Len(p) \in 1..Len(b) /\ b[k + Len(p)] = ls[k]
    <3>1. /\ k + Len(p) \in 1..Len(b) /\ k + Len(p) \in 1..(Len(p) + c)
          /\ ~ (k + Len(p) <= Len(p)) /\ (k + Len(p)) - Len(p) = k
      BY <1>1, <1>3, <1>4
    <3>2. QED
      BY <1>4, <3>1
  <2>4. QED
    BY <1>1, <2>1, <2>2, <2>3
<1>6. NewIds(b) = nextId..(nextId + c - 1)
  <2>1. ASSUME NEW i \in 1..Len(b), b[i].id >= nextId PROVE b[i].id \in nextId..(nextId + c - 1)
    <3>1. i \notin 1..Len(p)
      <4> SUFFICES ASSUME i \in 1..Len(p) PROVE FALSE
        OBVIOUS
      <4>1. b[i].id = p[i].id
        BY <1>5
      <4>2. p[i].id < nextId /\ p[i].id \in Nat
        BY <1>3
      <4>3. QED
        BY <2>1, <4>1, <4>2
    <3>2. i - Len(p) \in 1..c /\ (i - Len(p)) + Len(p) = i
      BY <1>3, <1>5, <3>1
    <3>3. b[i].id = nextId + (i - Len(p)) - 1
      BY <1>5, <3>2
    <3>4. QED
      BY <1>1, <1>3, <3>2, <3>3
  <2>2. ASSUME NEW k \in nextId..(nextId + c - 1) PROVE \E i \in 1..Len(b) : b[i].id = k
    <3>1. k - nextId + 1 \in 1..c /\ nextId + (k - nextId + 1) - 1 = k
      BY <1>1
    <3>2. (k - nextId + 1) + Len(p) \in 1..Len(b) /\ b[(k - nextId + 1) + Len(p)].id = k
      BY <1>5, <3>1
    <3>3. QED
      BY <3>2
  <2>3. DOMAIN b = 1..Len(b)
    BY <1>4
  <2>4. \A k \in nextId..(nextId + c - 1) : k >= nextId
    OBVIOUS
  <2>5. QED
    BY <2>1, <2>2, <2>3, <2>4 DEF NewIds, IdsOf
<1>7. Cardinality(NewIds(b)) = c
  <2>1. nextId \in Int /\ nextId + c - 1 \in Int
    BY <1>1
  <2>2. Cardinality(nextId..(nextId + c - 1)) = IF nextId > nextId + c - 1 THEN 0 ELSE (nextId + c - 1) - nextId + 1
    BY <2>1, FS_Interval
  <2>3. QED
    BY <1>1, <1>6, <2>2
<1> DEFINE m == nextId + c
<1>8. m \in Nat /\ nextId <= m
  BY <1>1
<1>10. ASSUME NEW i \in 1..Len(b) PROVE b[i].id < m
  <2>1. CASE i \in 1..Len(p)
    <3>1. b[i].id = p[i].id /\ p[i].id < nextId /\ p[i].id \in Nat
      BY <1>3, <1>5, <2>1
    <3>2. QED
      BY <1>8, <3>1
  <2>2. CASE i - Len(p) \in 1..c
    <3>1. (i - Len(p)) + Len(p) = i
      BY <1>3
    <3>2. b[i].id = nextId + (i - Len(p)) - 1
      BY <1>5, <2>2, <3>1
    <3>3. QED
      BY <1>1, <1>3, <2>2, <3>2
  <2>3. QED
    BY <1>5, <2>1, <2>2
<1>11. ASSUME NEW i \in 1..Len(b), NEW j \in 1..Len(b), i < j PROVE b[i].id < b[j].id
  <2>1. CASE j \in 1..Len(p)
    <3>1. i \in 1..Len(p)
      BY <1>11, <2>1
    <3>2. QED
      BY <1>3, <1>5, <1>11, <2>1, <3>1
  <2>2. CASE j - Len(p) \in 1..c
    <3>1. (j - Len(p)) + Len(p) = j
      BY <1>3
    <3>2. b[j].id = nextId + (j - Len(p)) - 1
      BY <1>5, <2>2, <3>1
    <3>3. CASE i \in 1..Len(p)
      <4>1. b[i].id = p[i].id /\ p[i].id < nextId /\ p[i].id \in Nat
        BY <1>3, <1>5, <3>3
      <4>2. QED
        BY <1>1, <1>3, <2>2, <3>2, <4>1
    <3>4. CASE i - Len(p) \in 1..c
      <4>1. (i - Len(p)) + Len(p) = i
        BY <1>3
      <4>2. b[i].id = nextId + (i - Len(p)) - 1
        BY <1>5, <3>4, <4>1
      <4>3. QED
        BY <1>1, <1>3, <1>11, <3>2, <4>2
    <3>5. QED
      BY <1>5, <3>3, <3>4
  <2>3. QED
    BY <1>5, <2>1, <2>2
<1>12. Grown(b, m)
  BY <1>4, <1>10, <1>11 DEF Grown
<1>13. QED
  BY <1>1, <1>2, <1>7, <1>12

(* Generating the ids of a branch leaves room for the next one.            *)
LEMMA BranchIsGrown ==
  ASSUME nextId \in Nat, nextId # 0, NEW es, Grown(es, nextId), NEW leaf \in IdsOf(es), NEW labels,
         Generate(Branched(es, leaf, labels))
  PROVE  /\ Grown(Branched(es, leaf, labels), nextId')
         /\ nextId' \in Nat /\ nextId <= nextId' /\ nextId' <= MaxId + 1
<1> DEFINE b == Branched(es, leaf, labels)
           n == Cardinality(NewIds(b))
<1>1. n \in Nat /\ Grown(b, nextId + n)
  BY BranchInOrder
<1>2. nextId' = nextId + n /\ nextId' <= MaxId + 1
  BY DEF Generate
<1> HIDE DEF b, n
<1>3. Grown(b, nextId') /\ nextId' \in Nat /\ nextId <= nextId' /\ nextId' <= MaxId + 1
  BY <1>1, <1>2
<1>4. QED
  BY <1>3 DEF b

-----------------------------------------------------------------------------
(* A file whose entries were all made before number n.                     *)
FileOK(d, n) ==
  /\ d \in [exists : BOOLEAN, header : BOOLEAN, entries : Seq(Rooted),
            tail : {"ended", "unended", "torn"}]
  /\ Grown(d.entries, n)

NumbersOK == nextId \in 1..(MaxId + 1) /\ crashes \in 0..Crashes

SessionOK ==
  /\ Grown(fileEntries, nextId)
  /\ leafId \in IdsOf(fileEntries) \cup {0}
  /\ labelsById \subseteq 1..MaxId
  /\ flushed \in BOOLEAN /\ alive \in BOOLEAN
  /\ sessionFile \in Files

FilesOK ==
  /\ disk = [f \in Files |-> disk[f]]
  /\ \A f \in Files : FileOK(disk[f], nextId)
  /\ ensured \subseteq Files

TypeInv == NumbersOK /\ SessionOK /\ FilesOK

(* A part of the session from its start is in order too.                   *)
LEMMA GrownPrefix ==
  ASSUME NEW n \in Nat, NEW es, Grown(es, n), NEW k \in 0..Len(es)
  PROVE  Grown(Upto(es, k), n)
<1> DEFINE t == Upto(es, k)
<1>1. /\ es \in Seq(Rooted) /\ \A i \in 1..Len(es) : es[i].id < n
      /\ \A i, j \in 1..Len(es) : i < j => es[i].id < es[j].id
  BY DEF Grown
<1>2. t \in Seq(Rooted) /\ Len(t) = k /\ \A i \in 1..k : t[i] = es[i] /\ i \in 1..Len(es)
  BY <1>1, UptoOf
<1> HIDE DEF t
<1>3. Grown(t, n)
  BY <1>1, <1>2 DEF Grown
<1>4. QED
  BY <1>3 DEF t

(* All but the last entry are in order too.                                *)
LEMMA GrownShorter ==
  ASSUME NEW n \in Nat, NEW es, Grown(es, n), es # <<>>
  PROVE  Grown(Front(es), n) /\ Front(es) = Upto(es, Len(es) - 1) /\ Len(es) - 1 \in 0..Len(es)
<1>1. es \in Seq(Rooted)
  BY DEF Grown
<1>2. Len(es) \in Nat /\ Len(es) - 1 \in 0..Len(es)
  BY <1>1
<1>3. Front(es) = Upto(es, Len(es) - 1)
  <2>1. Front(es) = [i \in 1..(Len(es) - 1) |-> es[i]]
    BY <1>2 DEF Front
  <2> DEFINE t == Upto(es, Len(es) - 1)
  <2>2. /\ t \in Seq(Rooted) /\ Len(t) = Len(es) - 1
        /\ \A i \in 1..(Len(es) - 1) : t[i] = es[i]
    <3>1. \A k \in 0..Len(es) :
             /\ Upto(es, k) \in Seq(Rooted) /\ Len(Upto(es, k)) = k
             /\ \A i \in 1..k : Upto(es, k)[i] = es[i]
      BY <1>1, UptoOf
    <3>2. QED
      BY <1>2, <3>1, Zenon
  <2> HIDE DEF t
  <2>3. t = [i \in 1..(Len(es) - 1) |-> t[i]]
    BY <2>2
  <2>4. Front(es) = t
    BY <2>1, <2>2, <2>3
  <2>5. QED
    BY <2>4 DEF t
<1>4. QED
  BY <1>2, <1>3, GrownPrefix

(* A file cut behind entry k.                                              *)
CutBehind(es, k, tail) == File(TRUE, Upto(es, k), tail)

(* A rewrite that is cut leaves no header, or the session up to some entry. *)
LEMMA CutsAre ==
  ASSUME NEW es, NEW d \in RewriteCut(es)
  PROVE  \/ \E tail \in {"ended", "torn"} : d = File(FALSE, <<>>, tail)
         \/ \E k \in 0..Len(es) : \E tail \in {"ended", "unended", "torn"} :
               d = CutBehind(es, k, tail)
<1> DEFINE A == {File(FALSE, <<>>, tail) : tail \in {"ended", "torn"}}
           B == {CutBehind(es, k, tail) :
                   k \in 0..Len(es), tail \in {"ended", "unended", "torn"}}
           C == {Rewritten(es), File(TRUE, es, "torn")}
<1>1. RewriteCut(es) = A \cup (B \ C)
  BY DEF RewriteCut, CutBehind, Upto
<1>2. d \in A => \E tail \in {"ended", "torn"} : d = File(FALSE, <<>>, tail)
  OBVIOUS
<1>3. d \in B => \E k \in 0..Len(es) : \E tail \in {"ended", "unended", "torn"} :
                   d = CutBehind(es, k, tail)
  OBVIOUS
<1> HIDE DEF A, B, C
<1>4. d \in A \/ d \in B
  BY <1>1
<1>5. QED
  BY <1>2, <1>3, <1>4

(* What writes make of a file: it stays one of entries in order.           *)
LEMMA RewritesAreOK ==
  ASSUME NEW n \in Nat, NEW es, Grown(es, n)
  PROVE  FileOK(Rewritten(es), n) /\ \A d \in RewriteCut(es) : FileOK(d, n)
<1>1. es \in Seq(Rooted) /\ <<>> \in Seq(Rooted)
  BY DEF Grown
<1>2. ASSUME NEW x, Grown(x, n), NEW h \in BOOLEAN, NEW tail \in {"ended", "unended", "torn"}
      PROVE  FileOK(File(h, x, tail), n)
  <2>1. x \in Seq(Rooted)
    BY <1>2 DEF Grown
  <2>2. QED
    BY <1>2, <2>1 DEF FileOK, File
<1>3. FileOK(Rewritten(es), n)
  BY <1>2 DEF Rewritten
<1>4. ASSUME NEW d \in RewriteCut(es) PROVE FileOK(d, n)
  <2>1. \/ \E tail \in {"ended", "torn"} : d = File(FALSE, <<>>, tail)
        \/ \E k \in 0..Len(es) : \E tail \in {"ended", "unended", "torn"} :
              d = CutBehind(es, k, tail)
    BY CutsAre
  <2>2. QED
    BY <1>2, <2>1, GrownEmpty, GrownPrefix DEF CutBehind
<1>5. QED
  BY <1>3, <1>4

(* Appending a line keeps a file in order, also when it is cut.            *)
LEMMA LinesAreOK ==
  ASSUME NEW m \in Nat, NEW n \in Nat, NEW e \in Rooted, m <= e.id, e.id < n,
         NEW d, FileOK(d, m)
  PROVE  FileOK(Added(d, e), n) /\ \A c \in AddCut(d, e) : FileOK(c, n)
<1> DEFINE Tails == {"ended", "unended", "torn"}
           FileSet == [exists : BOOLEAN, header : BOOLEAN, entries : Seq(Rooted), tail : Tails]
<1>1. d \in FileSet /\ Grown(d.entries, m)
  BY DEF FileOK
<1>2. Grown(d.entries, n)
  BY <1>1, EntryNumbers, GrownLater
<1>3. Grown(Append(d.entries, e), n)
  BY <1>1, GrownAppend
<1>4. Append(d.entries, e) \in Seq(Rooted)
  BY <1>3 DEF Grown
<1>5. ASSUME NEW c, FileOK(c, n), NEW t \in Tails PROVE FileOK([c EXCEPT !.tail = t], n)
  <2>1. c \in FileSet /\ Grown(c.entries, n)
    BY <1>5 DEF FileOK
  <2>2. [c EXCEPT !.tail = t] \in FileSet /\ [c EXCEPT !.tail = t].entries = c.entries
    BY <2>1
  <2>3. QED
    BY <2>1, <2>2 DEF FileOK
<1>6. FileOK(d, n)
  BY <1>1, <1>2 DEF FileOK
<1>7. FileOK(Added(d, e), n)
  <2>1. CASE d.tail = "ended"
    <3>1. Added(d, e) = [d EXCEPT !.exists = TRUE, !.entries = Append(@, e)]
      BY <2>1 DEF Added
    <3>2. Added(d, e) \in FileSet /\ Added(d, e).entries = Append(d.entries, e)
      BY <1>1, <1>4, <3>1
    <3>3. QED
      BY <1>3, <3>2 DEF FileOK
  <2>2. CASE d.tail = "torn"
    <3>1. Added(d, e) = [d EXCEPT !.tail = "ended"]
      BY <2>2 DEF Added
    <3>2. QED
      BY <1>5, <1>6, <3>1
  <2>3. CASE d.tail = "unended"
    <3>1. Added(d, e) = IF d.entries = <<>> THEN File(FALSE, <<>>, "ended")
                                            ELSE File(d.header, Front(d.entries), "ended")
      BY <2>3 DEF Added
    <3>2. CASE d.entries = <<>>
      BY <3>1, <3>2, GrownEmpty DEF File, FileOK
    <3>3. CASE d.entries # <<>>
      <4>1. Grown(Front(d.entries), n)
        BY <1>2, <3>3, GrownShorter
      <4> DEFINE f == Front(d.entries)
      <4>2. Grown(f, n) /\ f \in Seq(Rooted)
        BY <4>1 DEF Grown
      <4>3. Added(d, e) = File(d.header, f, "ended")
        BY <3>1, <3>3
      <4> HIDE DEF f
      <4>4. QED
        BY <1>1, <4>2, <4>3 DEF File, FileOK
    <3>4. QED
      BY <3>2, <3>3
  <2>4. QED
    BY <1>1, <2>1, <2>2, <2>3
<1>8. \A c \in AddCut(d, e) : FileOK(c, n)
  BY <1>5, <1>6, <1>7 DEF AddCut
<1>9. QED
  BY <1>7, <1>8

(* What is in order is so for a later number.                              *)
LEMMA FileLater ==
  ASSUME NEW m \in Nat, NEW n \in Nat, m <= n, NEW d, FileOK(d, m)
  PROVE  FileOK(d, n)
BY GrownLater DEF FileOK

(* A write leaves what it should, a part of it, or what was there.         *)
LEMMA WriteDoes ==
  ASSUME NEW f \in Files, NEW whole, NEW cuts, NEW ok, Write(f, whole, cuts, ok),
         disk = [g \in Files |-> disk[g]], alive \in BOOLEAN, crashes \in 0..Crashes
  PROVE  /\ disk' = [g \in Files |-> disk'[g]]
         /\ \A g \in Files \ {f} : disk'[g] = disk[g]
         /\ disk'[f] \in {whole, disk[f]} \cup cuts
         /\ alive' \in BOOLEAN /\ (alive' => alive) /\ crashes' \in 0..Crashes
<1>1. CASE disk' = [disk EXCEPT ![f] = whole] /\ UNCHANGED <<alive, crashes>>
  BY <1>1
<1>2. CASE /\ \E d \in cuts \cup {disk[f]} : disk' = [disk EXCEPT ![f] = d]
           /\ \/ crashes < Crashes /\ alive' = FALSE /\ crashes' = crashes + 1
              \/ UNCHANGED <<alive, crashes>>
  <2>1. PICK d \in cuts \cup {disk[f]} : disk' = [disk EXCEPT ![f] = d]
    BY <1>2
  <2>2. /\ disk' = [g \in Files |-> disk'[g]]
        /\ \A g \in Files \ {f} : disk'[g] = disk[g]
        /\ disk'[f] = d
    BY <2>1
  <2>3. alive' \in BOOLEAN /\ (alive' => alive)
    <3>1. alive' = FALSE \/ alive' = alive
      BY <1>2, Zenon
    <3>2. CASE alive' = FALSE
      BY <3>2
    <3>3. CASE alive' = alive
      BY <3>3
    <3>4. QED
      BY <3>1, <3>2, <3>3
  <2>4. crashes' \in 0..Crashes
    <3>1. (crashes < Crashes /\ crashes' = crashes + 1) \/ crashes' = crashes
      BY <1>2, Zenon
    <3>2. QED
      BY <3>1, SessionAssumption
  <2>5. QED
    BY <2>1, <2>2, <2>3, <2>4
<1>3. QED
  BY <1>1, <1>2 DEF Write

(* A write of what is in order, or of a part, keeps the files in order.    *)
LEMMA WriteKeepsFiles ==
  ASSUME NEW n \in Nat, NEW f \in Files, NEW whole, NEW cuts, NEW ok,
         Write(f, whole, cuts, ok), FileOK(whole, n), \A c \in cuts : FileOK(c, n),
         disk = [g \in Files |-> disk[g]], \A g \in Files : FileOK(disk[g], n),
         alive \in BOOLEAN, crashes \in 0..Crashes
  PROVE  /\ disk' = [g \in Files |-> disk'[g]]
         /\ \A g \in Files : FileOK(disk'[g], n)
         /\ alive' \in BOOLEAN /\ crashes' \in 0..Crashes
<1>1. /\ disk' = [g \in Files |-> disk'[g]]
      /\ \A g \in Files \ {f} : disk'[g] = disk[g]
      /\ disk'[f] \in {whole, disk[f]} \cup cuts
      /\ alive' \in BOOLEAN /\ crashes' \in 0..Crashes
  BY WriteDoes
<1>2. FileOK(disk'[f], n)
  BY <1>1
<1>3. QED
  BY <1>1, <1>2

(* A line is written, or the whole session, or nothing.                    *)
LEMMA PersistKeepsFiles ==
  ASSUME TypeInv, NEW n \in Nat, NEW e \in Rooted, nextId <= e.id, e.id < n,
         NEW es, Grown(es, n), NEW ok \in BOOLEAN, PersistEntry(es, e, ok)
  PROVE  /\ disk' = [g \in Files |-> disk'[g]]
         /\ \A g \in Files : FileOK(disk'[g], n)
         /\ alive' \in BOOLEAN /\ crashes' \in 0..Crashes /\ flushed' \in BOOLEAN
<1>0. /\ disk = [g \in Files |-> disk[g]] /\ sessionFile \in Files
      /\ alive \in BOOLEAN /\ flushed \in BOOLEAN /\ crashes \in 0..Crashes
      /\ nextId \in Nat /\ nextId <= n
  BY EntryNumbers, SessionAssumption DEF TypeInv, NumbersOK, SessionOK, FilesOK
<1>1. \A g \in Files : FileOK(disk[g], nextId)
  BY DEF TypeInv, FilesOK
<1>2. \A g \in Files : FileOK(disk[g], n)
  BY <1>0, <1>1, FileLater
<1>3. CASE ~HasAssistant(es)
  BY <1>0, <1>2, <1>3 DEF PersistEntry, NoWrite
<1>4. CASE HasAssistant(es) /\ ~flushed
  <2>1. Write(sessionFile, Rewritten(es), RewriteCut(es), ok) /\ flushed' = ok
    BY <1>4 DEF PersistEntry, WriteAll
  <2>2. QED
    BY <1>0, <1>2, <2>1, RewritesAreOK, WriteKeepsFiles
<1>5. CASE HasAssistant(es) /\ flushed
  <2> DEFINE d == disk[sessionFile]
  <2>1. Write(sessionFile, Added(d, e), AddCut(d, e), ok) /\ UNCHANGED flushed
    BY <1>5 DEF PersistEntry, WriteLine
  <2>2. FileOK(d, nextId)
    BY <1>0, <1>1
  <2>3. FileOK(Added(d, e), n) /\ \A c \in AddCut(d, e) : FileOK(c, n)
    BY <1>0, <2>2, LinesAreOK
  <2> HIDE DEF d
  <2>4. QED
    BY <1>0, <1>2, <2>1, <2>3, WriteKeepsFiles
<1>6. QED
  BY <1>0, <1>3, <1>4, <1>5

(* An entry that is appended adds its id.                                  *)
LEMMA IdsOfAppend ==
  ASSUME NEW s \in Seq(Rooted), NEW e \in Rooted
  PROVE  IdsOf(Append(s, e)) = IdsOf(s) \cup {e.id}
<1>1. \A r : IdsOf(r) = {x.id : x \in ToSet(r)}
  BY DEF IdsOf, ToSet
<1>2. ToSet(Append(s, e)) = ToSet(s) \cup {e}
  BY MembersOfAppend
<1> DEFINE t == Append(s, e)
<1>3. IdsOf(t) = {x.id : x \in ToSet(t)} /\ IdsOf(s) = {x.id : x \in ToSet(s)}
  BY <1>1, Zenon
<1> HIDE DEF t
<1>4. IdsOf(t) = IdsOf(s) \cup {e.id}
  BY <1>2, <1>3 DEF t
<1>5. QED
  BY <1>4 DEF t

(* Whatever is appended refers to what is there.                           *)
LEMMA AppendTypes ==
  ASSUME TypeInv, NEW kind \in Kinds, NEW parent \in IdsOf(fileEntries) \cup {0},
         NEW ref \in IdsOf(fileEntries) \cup {0}, kind \in LabelKinds => ref # 0,
         NEW ok \in BOOLEAN, AppendEntry(kind, parent, ref, ok),
         labelsById' \subseteq 1..MaxId
  PROVE  TypeInv'
<1> DEFINE e == Entry(nextId, parent, kind, ref)
           es == Append(fileEntries, e)
<1>1. /\ nextId \in Nat /\ nextId # 0 /\ nextId <= MaxId /\ nextId' = nextId + 1
      /\ fileEntries' = es /\ leafId' = nextId /\ PersistEntry(es, e, ok)
      /\ UNCHANGED <<sessionFile, ensured>>
  BY SessionAssumption DEF AppendEntry, TypeInv, NumbersOK
<1>2. Grown(fileEntries, nextId) /\ fileEntries \in Seq(Rooted)
  BY DEF TypeInv, SessionOK, Grown
<1>3. e \in Rooted /\ e.id = nextId
  <2>1. parent \in Nat /\ parent < nextId /\ ref \in Nat /\ ref < nextId
    BY <1>1, <1>2, IdsOfGrown
  <2>2. QED
    BY <1>1, <2>1 DEF Entry, Rooted
<1> HIDE DEF e
<1>4. Grown(es, nextId + 1)
  BY <1>1, <1>2, <1>3, GrownAppend
<1>5. nextId \in IdsOf(es)
  BY <1>2, <1>3, IdsOfAppend
<1> HIDE DEF es
<1>6. /\ disk' = [g \in Files |-> disk'[g]]
      /\ \A g \in Files : FileOK(disk'[g], nextId + 1)
      /\ alive' \in BOOLEAN /\ crashes' \in 0..Crashes /\ flushed' \in BOOLEAN
  <2>1. nextId + 1 \in Nat /\ nextId <= e.id /\ e.id < nextId + 1
    BY <1>1, <1>3
  <2>2. QED
    BY <1>1, <1>3, <1>4, <2>1, PersistKeepsFiles
<1>7. NumbersOK'
  BY <1>1, <1>6, SessionAssumption DEF NumbersOK
<1>8. SessionOK'
  BY <1>1, <1>4, <1>5, <1>6 DEF SessionOK, TypeInv
<1>9. FilesOK'
  BY <1>1, <1>6 DEF FilesOK, TypeInv
<1>10. QED
  BY <1>7, <1>8, <1>9 DEF TypeInv

(* A session that is indexed anew.                                         *)
LEMMA IndexTypes ==
  ASSUME NEW n \in 1..(MaxId + 1), NEW es, Grown(es, n), NEW f \in Files, Index(f, es)
  PROVE  /\ Grown(fileEntries', n) /\ sessionFile' \in Files
         /\ leafId' \in IdsOf(fileEntries') \cup {0} /\ labelsById' \subseteq 1..MaxId
<1>0. MaxId \in Nat /\ n \in Nat
  BY SessionAssumption
<1>1. es \in Seq(Rooted) /\ \A i \in 1..Len(es) : es[i].id < n
  BY <1>0 DEF Grown
<1>2. LastId(es) \in IdsOf(es) \cup {0}
  <2>1. CASE es = <<>>
    BY <2>1 DEF LastId
  <2>2. CASE es # <<>>
    <3>1. Len(es) \in DOMAIN es
      BY <1>1, <2>2
    <3>2. QED
      BY <2>2, <3>1 DEF LastId, Last, IdsOf
  <2>3. QED
    BY <2>1, <2>2
<1>3. ASSUME NEW i \in DOMAIN es, es[i].kind = "label" PROVE es[i].ref \in 1..MaxId
  <2>1. es[i] \in Rooted /\ es[i].id < n
    BY <1>1
  <2>2. es[i].ref \in Nat /\ es[i].id \in Nat /\ es[i].ref < es[i].id /\ es[i].ref # 0
    BY <1>3, <2>1 DEF Rooted, LabelKinds
  <2>3. QED
    BY <1>0, <2>1, <2>2
<1>4. LabelsOf(es) \subseteq 1..MaxId
  BY <1>3 DEF LabelsOf
<1>5. QED
  BY <1>2, <1>4 DEF Index

(* What a reader finds in a file is in order.                              *)
LEMMA LoadedIsGrown ==
  ASSUME NEW n \in Nat, NEW d, FileOK(d, n)
  PROVE  Grown(Loaded(d), n)
BY GrownEmpty DEF FileOK, Loaded

(* What the invariant says of each variable.                               *)
LEMMA TypeFacts ==
  ASSUME TypeInv
  PROVE  /\ nextId \in Nat /\ nextId # 0 /\ nextId \in 1..(MaxId + 1) /\ MaxId \in Nat
         /\ crashes \in 0..Crashes /\ crashes \in Nat /\ Crashes \in Nat
         /\ Grown(fileEntries, nextId) /\ leafId \in IdsOf(fileEntries) \cup {0}
         /\ labelsById \subseteq 1..MaxId /\ sessionFile \in Files
         /\ flushed \in BOOLEAN /\ alive \in BOOLEAN
         /\ disk = [f \in Files |-> disk[f]] /\ \A f \in Files : FileOK(disk[f], nextId)
         /\ ensured \subseteq Files
BY SessionAssumption DEF TypeInv, NumbersOK, SessionOK, FilesOK

(* A branch, cut from memory or from the file, is written to a file of its *)
(* own, or not at all.                                                     *)
LEMMA BranchTypes ==
  ASSUME TypeInv, NEW source, Grown(source, nextId), NEW leaf \in IdsOf(source), NEW labels,
         Generate(Branched(source, leaf, labels)), NEW f \in Files, NEW ok,
         WriteAll(f, Branched(source, leaf, labels), ok) \/ NoWrite(ok),
         ensured' = ensured
  PROVE  /\ Grown(Branched(source, leaf, labels), nextId')
         /\ nextId' \in 1..(MaxId + 1) /\ nextId <= nextId' /\ nextId' \in Nat
         /\ crashes' \in 0..Crashes /\ alive' \in BOOLEAN /\ FilesOK'
<1> DEFINE es == Branched(source, leaf, labels)
<1>1. Grown(es, nextId') /\ nextId' \in Nat /\ nextId <= nextId' /\ nextId' <= MaxId + 1
  BY TypeFacts, BranchIsGrown
<1>2. \A g \in Files : FileOK(disk[g], nextId')
  BY <1>1, TypeFacts, FileLater
<1> HIDE DEF es
<1>3. /\ disk' = [g \in Files |-> disk'[g]]
      /\ \A g \in Files : FileOK(disk'[g], nextId')
      /\ alive' \in BOOLEAN /\ crashes' \in 0..Crashes
  <2>1. CASE Write(f, Rewritten(es), RewriteCut(es), ok)
    BY <1>1, <1>2, <2>1, TypeFacts, RewritesAreOK, WriteKeepsFiles
  <2>2. CASE NoWrite(ok)
    BY <1>2, <2>2, TypeFacts DEF NoWrite
  <2>3. QED
    BY <2>1, <2>2 DEF WriteAll, es
<1>4. nextId' \in 1..(MaxId + 1)
  BY <1>1, TypeFacts
<1>5. FilesOK'
  BY <1>3, TypeFacts DEF FilesOK
<1>6. QED
  BY <1>1, <1>3, <1>4, <1>5 DEF es

(* An empty session is in order.                                           *)
LEMMA EmptyTypes ==
  ASSUME NEW n \in Nat, NEW f \in Files, EmptySession(f)
  PROVE  /\ Grown(fileEntries', n) /\ sessionFile' \in Files
         /\ leafId' \in IdsOf(fileEntries') \cup {0} /\ labelsById' \subseteq 1..MaxId
BY GrownEmpty DEF EmptySession

(* A session that stays is in order for a later number too.                *)
LEMMA SameSession ==
  ASSUME TypeInv, UNCHANGED memory, nextId' \in Nat, nextId <= nextId', alive' \in BOOLEAN
  PROVE  SessionOK'
<1>1. Grown(fileEntries, nextId')
  BY TypeFacts, GrownLater
<1>2. QED
  BY <1>1, TypeFacts DEF memory, SessionOK

(* createBranchedSession() keeps the types.                                *)
LEMMA CreateTypes ==
  ASSUME TypeInv, NEW ok \in BOOLEAN, NEW leaf \in IdsOf(fileEntries),
         CreateBranchedSession(leaf, ok)
  PROVE  TypeInv'
<1> DEFINE es == Branched(fileEntries, leaf, labelsById)
<1>1. Generate(es) /\ ensured' = ensured
  BY DEF CreateBranchedSession
<1>2. PICK f \in Unused :
        /\ Index(f, es)
        /\ IF HasAssistant(es)
           THEN WriteAll(f, es, ok) /\ flushed' = (flushed \/ ok)
           ELSE NoWrite(ok) /\ flushed' = FALSE
  BY DEF CreateBranchedSession
<1>3. f \in Files /\ (WriteAll(f, es, ok) \/ NoWrite(ok)) /\ flushed' \in BOOLEAN
  BY <1>2, TypeFacts DEF Unused
<1>4. Grown(fileEntries, nextId)
  BY TypeFacts
<1>5. /\ Grown(es, nextId') /\ nextId' \in 1..(MaxId + 1) /\ nextId <= nextId' /\ nextId' \in Nat
      /\ crashes' \in 0..Crashes /\ alive' \in BOOLEAN /\ FilesOK'
  BY <1>1, <1>3, <1>4, BranchTypes
<1> HIDE DEF es
<1>6. /\ Grown(fileEntries', nextId') /\ sessionFile' \in Files
      /\ leafId' \in IdsOf(fileEntries') \cup {0} /\ labelsById' \subseteq 1..MaxId
  BY <1>2, <1>3, <1>5, IndexTypes
<1>7. QED
  BY <1>3, <1>5, <1>6 DEF TypeInv, NumbersOK, SessionOK

(* So does a fork, which cuts the branch from the file.                    *)
LEMMA ForkTypes ==
  ASSUME TypeInv, NEW ok \in BOOLEAN, NEW leaf, Fork(leaf, ok)
  PROVE  TypeInv'
<1> DEFINE source == Loaded(disk[sessionFile])
           es     == Branched(source, leaf, LabelsOf(source))
<1>1. Generate(es) /\ ensured' = ensured /\ leaf \in IdsOf(source)
  BY DEF Fork
<1>2. PICK f \in Unused :
        \/ /\ HasAssistant(es) /\ WriteAll(f, es, ok)
           /\ IF ok THEN Index(f, es) /\ flushed' = TRUE ELSE UNCHANGED memory
        \/ /\ ~HasAssistant(es) /\ NoWrite(ok)
           /\ EmptySession(f) /\ flushed' = FALSE
  BY DEF Fork
<1>3. f \in Files /\ (WriteAll(f, es, ok) \/ NoWrite(ok))
  BY <1>2 DEF Unused
<1>4. Grown(source, nextId)
  BY TypeFacts, LoadedIsGrown
<1> HIDE DEF source
<1>5. /\ Grown(es, nextId') /\ nextId' \in 1..(MaxId + 1) /\ nextId <= nextId' /\ nextId' \in Nat
      /\ crashes' \in 0..Crashes /\ alive' \in BOOLEAN /\ FilesOK'
  BY <1>1, <1>3, <1>4, BranchTypes
<1> HIDE DEF es
<1>6. SessionOK'
  <2>1. CASE Index(f, es) /\ flushed' = TRUE
    BY <1>3, <1>5, <2>1, IndexTypes DEF SessionOK
  <2>2. CASE UNCHANGED memory
    BY <1>5, <2>2, SameSession
  <2>3. CASE EmptySession(f) /\ flushed' = FALSE
    BY <1>3, <1>5, <2>3, EmptyTypes DEF SessionOK
  <2>4. QED
    BY <1>2, <2>1, <2>2, <2>3
<1>7. QED
  BY <1>5, <1>6 DEF TypeInv, NumbersOK

(* So does overwriting a damaged file.                                     *)
LEMMA OverwriteTypes ==
  ASSUME TypeInv, NEW f \in Files, NEW ok, Overwrite(f, ok), nextId' = nextId
  PROVE  FilesOK'
<1>1. Grown(<<>>, nextId)
  BY TypeFacts, GrownEmpty
<1>2. FileOK(Rewritten(<<>>), nextId) /\ \A d \in RewriteCut(<<>>) : FileOK(d, nextId)
  BY <1>1, TypeFacts, RewritesAreOK
<1>3. \E d : FileOK(d, nextId) /\ disk' = [disk EXCEPT ![f] = d]
  BY <1>2 DEF Overwrite
<1>4. PICK d : FileOK(d, nextId) /\ disk' = [disk EXCEPT ![f] = d]
  BY <1>3
<1>5. ensured' \subseteq Files
  BY TypeFacts DEF Overwrite
<1>6. disk' = [g \in Files |-> disk'[g]] /\ \A g \in Files : FileOK(disk'[g], nextId)
  BY <1>4, TypeFacts
<1>7. QED
  BY <1>5, <1>6 DEF FilesOK

(* So does opening a file.                                                 *)
LEMMA OpenTypes ==
  ASSUME TypeInv, NEW f \in Files, Open(f)
  PROVE  TypeInv'
<1>1. nextId' = nextId /\ crashes' = crashes /\ NumbersOK'
  BY DEF Open, TypeInv, NumbersOK
<1>2. CASE /\ Index(f, disk[f].entries) /\ flushed' = TRUE /\ alive' = TRUE
           /\ UNCHANGED <<disk, ensured>>
  <2> DEFINE es == disk[f].entries
  <2>1. Grown(es, nextId)
    BY TypeFacts DEF FileOK
  <2>2. Index(f, es)
    BY <1>2
  <2> HIDE DEF es
  <2>3. SessionOK'
    BY <1>1, <1>2, <2>1, <2>2, TypeFacts, IndexTypes DEF SessionOK
  <2>4. FilesOK'
    BY <1>1, <1>2, TypeFacts DEF FilesOK
  <2>5. QED
    BY <1>1, <2>3, <2>4 DEF TypeInv
<1>3. CASE Overwrite(f, TRUE) /\ EmptySession(f) /\ flushed' = TRUE /\ alive' = TRUE
  <2>1. SessionOK'
    BY <1>1, <1>3, TypeFacts, EmptyTypes DEF SessionOK
  <2>2. QED
    BY <1>1, <1>3, <2>1, OverwriteTypes DEF TypeInv
<1>4. CASE Overwrite(f, FALSE) /\ UNCHANGED <<memory, alive>>
  <2>1. SessionOK'
    BY <1>1, <1>4, TypeFacts, SameSession
  <2>2. QED
    BY <1>1, <1>4, <2>1, OverwriteTypes DEF TypeInv
<1>5. QED
  BY <1>2, <1>3, <1>4 DEF Open

(* So does writing the file on request.                                    *)
LEMMA EnsureTypes ==
  ASSUME TypeInv, NEW ok \in BOOLEAN, EnsureSessionFileWritten(ok)
  PROVE  TypeInv'
<1>1. /\ Write(sessionFile, Rewritten(fileEntries), RewriteCut(fileEntries), ok)
      /\ flushed' = (flushed \/ ok)
      /\ UNCHANGED <<fileEntries, leafId, labelsById, sessionFile, nextId>>
  BY DEF EnsureSessionFileWritten, WriteAll
<1>2. ensured' \subseteq Files
  BY TypeFacts DEF EnsureSessionFileWritten
<1>3. /\ FileOK(Rewritten(fileEntries), nextId)
      /\ \A d \in RewriteCut(fileEntries) : FileOK(d, nextId)
  BY TypeFacts, RewritesAreOK
<1>4. /\ disk' = [g \in Files |-> disk'[g]]
      /\ \A g \in Files : FileOK(disk'[g], nextId)
      /\ alive' \in BOOLEAN /\ crashes' \in 0..Crashes
  BY <1>1, <1>3, TypeFacts, WriteKeepsFiles
<1>5. flushed' \in BOOLEAN
  BY <1>1
<1>6. QED
  BY <1>1, <1>2, <1>4, <1>5, TypeFacts DEF TypeInv, NumbersOK, SessionOK, FilesOK

(* So does every append.                                                   *)
LEMMA AppendStepTypes ==
  ASSUME TypeInv, NEW ok \in BOOLEAN, AppendStep(ok)
  PROVE  TypeInv'
<1>0. Appends \subseteq Kinds /\ "summary" \in Kinds /\ "compaction" \in Kinds
  BY SessionAssumption DEF Kinds
<1>1. ASSUME NEW kind \in Plain, AppendPlain(kind, ok) PROVE TypeInv'
  <2>1. kind \in Kinds /\ kind \notin LabelKinds
    BY <1>0 DEF Plain
  <2>2. AppendEntry(kind, leafId, 0, ok) /\ labelsById' \subseteq 1..MaxId
    BY <1>1, TypeFacts DEF AppendPlain
  <2>3. QED
    BY <2>1, <2>2, TypeFacts, AppendTypes
<1>2. ASSUME NEW id \in IdsOf(fileEntries), NEW kind \in Appends \cap LabelKinds,
             AppendLabelChange(id, kind, ok)
      PROVE  TypeInv'
  <2>1. id \in 1..(nextId - 1)
    BY TypeFacts, IdsOfGrown
  <2>2. id \in 1..MaxId /\ id # 0
    BY <2>1, TypeFacts
  <2>3. labelsById' \subseteq 1..MaxId
    <3>1. CASE ~ok
      BY <1>2, <3>1, TypeFacts DEF AppendLabelChange
    <3>2. CASE ok /\ kind = "label"
      BY <1>2, <2>2, <3>2, TypeFacts DEF AppendLabelChange
    <3>3. CASE ok /\ kind = "unlabel"
      BY <1>2, <3>3, TypeFacts DEF AppendLabelChange
    <3>4. QED
      BY <3>1, <3>2, <3>3 DEF LabelKinds
  <2>4. QED
    BY <1>0, <1>2, <2>2, <2>3, TypeFacts, AppendTypes DEF AppendLabelChange
<1>3. ASSUME NEW id \in IdsOf(fileEntries), AppendCompaction(id, ok) PROVE TypeInv'
  <2>1. AppendEntry("compaction", leafId, id, ok) /\ labelsById' \subseteq 1..MaxId
    BY <1>3, TypeFacts DEF AppendCompaction
  <2>2. "compaction" \notin LabelKinds
    BY DEF LabelKinds
  <2>3. QED
    BY <1>0, <2>1, <2>2, TypeFacts, AppendTypes
<1>4. ASSUME NEW from \in IdsOf(fileEntries) \cup {0}, BranchWithSummary(from, ok) PROVE TypeInv'
  <2>1. AppendEntry("summary", from, 0, ok) /\ labelsById' \subseteq 1..MaxId
    BY <1>4, TypeFacts DEF BranchWithSummary
  <2>2. "summary" \notin LabelKinds
    BY DEF LabelKinds
  <2>3. QED
    BY <1>0, <2>1, <2>2, TypeFacts, AppendTypes
<1>5. QED
  BY <1>1, <1>2, <1>3, <1>4 DEF AppendStep

(* The first session is in order.                                          *)
LEMMA TypeInit == Init => TypeInv
<1> SUFFICES ASSUME Init PROVE TypeInv
  OBVIOUS
<1>1. NumbersOK
  BY SessionAssumption DEF Init, NumbersOK
<1>2. SessionOK
  BY SessionAssumption, GrownEmpty DEF Init, SessionOK
<1>3. FileOK(NoFile, 1)
  BY GrownEmpty DEF NoFile, FileOK
<1>4. FilesOK
  BY <1>3 DEF Init, FilesOK
<1>5. QED
  BY <1>1, <1>2, <1>4 DEF TypeInv

(* Every step keeps the types.                                             *)
LEMMA TypeStep ==
  ASSUME TypeInv, [Next]_vars
  PROVE  TypeInv'
<1>1. ASSUME NEW ok \in BOOLEAN, ForkOfDamaged(ok) PROVE TypeInv'
  <2>1. /\ Overwrite(sessionFile, ok) /\ UNCHANGED memory
        /\ alive' = alive /\ nextId' = nextId /\ crashes' = crashes
    BY <1>1 DEF ForkOfDamaged
  <2>2. FilesOK'
    BY <2>1, TypeFacts, OverwriteTypes
  <2>3. QED
    BY <2>1, <2>2, TypeFacts, SameSession DEF TypeInv, NumbersOK
<1>2. CASE (\E id \in IdsOf(fileEntries) : Branch(id)) \/ ResetLeaf
  BY <1>2, TypeFacts DEF Branch, ResetLeaf, TypeInv, NumbersOK, SessionOK, FilesOK
<1>3. CASE NewSession
  <2>1. /\ flushed' = FALSE /\ UNCHANGED <<disk, alive, nextId, crashes, ensured>>
        /\ \E f \in Files : EmptySession(f)
    BY <1>3 DEF NewSession, Unused
  <2>2. SessionOK'
    BY <2>1, TypeFacts, EmptyTypes DEF SessionOK
  <2>3. QED
    BY <2>1, <2>2, TypeFacts DEF TypeInv, NumbersOK, FilesOK
<1>4. CASE Crash
  <2>1. /\ UNCHANGED memory /\ UNCHANGED <<disk, nextId, ensured>>
        /\ alive' = FALSE /\ crashes < Crashes /\ crashes' = crashes + 1
    BY <1>4 DEF Crash
  <2>2. alive' \in BOOLEAN
    BY <2>1
  <2>3. SessionOK'
    BY <2>1, <2>2, TypeFacts, SameSession
  <2>4. QED
    BY <2>1, <2>3, TypeFacts DEF TypeInv, NumbersOK, FilesOK
<1>5. CASE UNCHANGED vars
  BY <1>5, TypeFacts DEF vars, memory, TypeInv, NumbersOK, SessionOK, FilesOK
<1>6. QED
  BY <1>1, <1>2, <1>3, <1>4, <1>5, AppendStepTypes, CreateTypes, ForkTypes, EnsureTypes, OpenTypes
     DEF Next

(* The types of TypeOK follow: what is older than nextId is at most MaxId. *)
LEMMA InvIsTyped == TypeInv => TypeOK
<1> SUFFICES ASSUME TypeInv PROVE TypeOK
  OBVIOUS
<1>1. ASSUME NEW es, Grown(es, nextId) PROVE es \in Seq(EntryType)
  <2>1. es \in Seq(Rooted) /\ \A i \in 1..Len(es) : es[i].id < nextId
    BY <1>1 DEF Grown
  <2>2. ASSUME NEW i \in 1..Len(es) PROVE es[i] \in EntryType
    <3>1. es[i] \in Rooted /\ es[i].id < nextId
      BY <2>1
    <3> DEFINE e == es[i]
    <3>2. e \in Rooted /\ e.id < nextId
      BY <3>1
    <3> HIDE DEF e
    <3>3. e.id \in 1..MaxId /\ e.parent \in 0..MaxId /\ e.ref \in 0..MaxId
      BY <3>2, TypeFacts DEF Rooted
    <3>4. e \in EntryType
      BY <3>2, <3>3 DEF Rooted, EntryType
    <3>5. QED
      BY <3>4 DEF e
  <2>3. QED
    BY <2>1, <2>2
<1>2. fileEntries \in Seq(EntryType)
  BY <1>1, TypeFacts
<1>3. \A f \in Files : disk[f] \in FileType
  <2> SUFFICES ASSUME NEW f \in Files PROVE disk[f] \in FileType
    OBVIOUS
  <2> DEFINE d == disk[f]
  <2>1. FileOK(d, nextId)
    BY TypeFacts
  <2> HIDE DEF d
  <2>2. d.entries \in Seq(EntryType)
    BY <1>1, <2>1 DEF FileOK
  <2>3. d \in FileType
    BY <2>1, <2>2 DEF FileOK, FileType
  <2>4. QED
    BY <2>3 DEF d
<1>4. disk \in [Files -> FileType]
  BY <1>3, TypeFacts
<1>5. QED
  BY <1>2, <1>4, TypeFacts DEF TypeOK

(* Whatever fails and wherever a write is cut, ids are given once and in   *)
(* order, entries refer to older ones, and the files hold nothing else.    *)
THEOREM Typing == Spec => []TypeOK
<1>1. TypeInv => TypeOK
  BY InvIsTyped
<1>2. QED
  BY TypeInit, TypeStep, <1>1, PTL DEF Spec

-----------------------------------------------------------------------------
(* Files tell no more than their session, whatever fails.                  *)
LEMMA LeftOfAll ==
  ASSUME NEW T, NEW es \in Seq(T)
  PROVE  LeftOf(es, es) /\ LeftOf(<<>>, es)
<1>1. LeftOf(es, es)
  <2> DEFINE pick == [i \in DOMAIN es |-> i]
  <2>1. /\ pick \in [DOMAIN es -> DOMAIN es]
        /\ \A i, j \in DOMAIN es : es[i] = es[pick[i]] /\ (i < j => pick[i] < pick[j])
    OBVIOUS
  <2> HIDE DEF pick
  <2>2. QED
    BY <2>1 DEF LeftOf
<1>2. LeftOf(<<>>, es)
  <2> DEFINE pick == [i \in {} |-> i]
             d == <<>>
  <2>1. DOMAIN d = {} /\ pick \in [{} -> DOMAIN es]
    OBVIOUS
  <2> HIDE DEF pick, d
  <2>2. LeftOf(d, es)
    BY <2>1 DEF LeftOf
  <2>3. QED
    BY <2>2 DEF d
<1>3. QED
  BY <1>1, <1>2

(* The start of what is left of a session is left of it.                   *)
LEMMA LeftOfStart ==
  ASSUME NEW T, NEW d \in Seq(T), NEW es \in Seq(T), LeftOf(d, es), NEW k \in 0..Len(d)
  PROVE  LeftOf(Upto(d, k), es)
<1> DEFINE c == Upto(d, k)
<1>1. c \in Seq(T) /\ Len(c) = k /\ \A i \in 1..k : c[i] = d[i]
  BY UptoOf
<1> HIDE DEF c
<1>2. PICK pick \in [DOMAIN d -> DOMAIN es] :
         \A i, j \in DOMAIN d : d[i] = es[pick[i]] /\ (i < j => pick[i] < pick[j])
  BY DEF LeftOf
<1>3. DOMAIN c = 1..k /\ DOMAIN c \subseteq DOMAIN d
  BY <1>1
<1> DEFINE less == [i \in DOMAIN c |-> pick[i]]
<1>4. /\ less \in [DOMAIN c -> DOMAIN es]
      /\ \A i, j \in DOMAIN c : c[i] = es[less[i]] /\ (i < j => less[i] < less[j])
  BY <1>1, <1>2, <1>3
<1> HIDE DEF less
<1>5. LeftOf(c, es)
  BY <1>4 DEF LeftOf
<1>6. QED
  BY <1>5 DEF c

(* What is left of a session is left of a longer one, with its last entry. *)
LEMMA LeftOfLonger ==
  ASSUME NEW T, NEW d \in Seq(T), NEW es \in Seq(T), LeftOf(d, es), NEW e \in T
  PROVE  LeftOf(d, Append(es, e)) /\ LeftOf(Append(d, e), Append(es, e))
<1> DEFINE n == Len(d)
           m == Len(es)
           more == Append(es, e)
           c == Append(d, e)
<1>1. /\ n \in Nat /\ m \in Nat /\ DOMAIN d = 1..n /\ DOMAIN es = 1..m
      /\ DOMAIN more = 1..(m + 1) /\ \A i \in 1..m : more[i] = es[i]
      /\ DOMAIN c = 1..(n + 1) /\ \A i \in 1..n : c[i] = d[i]
      /\ more[m + 1] = e /\ c[n + 1] = e
  OBVIOUS
<1> HIDE DEF n, m, more, c
<1>2. PICK pick \in [1..n -> 1..m] :
         \A i, j \in 1..n : d[i] = es[pick[i]] /\ (i < j => pick[i] < pick[j])
  BY <1>1 DEF LeftOf
<1>3. LeftOf(d, more)
  <2>1. pick \in [1..n -> 1..(m + 1)]
    BY <1>1, <1>2
  <2>2. \A i, j \in 1..n : d[i] = more[pick[i]] /\ (i < j => pick[i] < pick[j])
    BY <1>1, <1>2
  <2>3. DOMAIN d = 1..n /\ DOMAIN more = 1..(m + 1)
    BY <1>1
  <2>4. QED
    BY <2>1, <2>2, <2>3, Zenon DEF LeftOf
<1>4. LeftOf(c, more)
  <2> DEFINE last == [i \in 1..(n + 1) |-> IF i <= n THEN pick[i] ELSE m + 1]
  <2>1. last \in [1..(n + 1) -> 1..(m + 1)]
    BY <1>1, <1>2
  <2>2. ASSUME NEW i \in 1..(n + 1) PROVE c[i] = more[last[i]]
    BY <1>1, <1>2
  <2>3. ASSUME NEW i \in 1..(n + 1), NEW j \in 1..(n + 1), i < j PROVE last[i] < last[j]
    BY <1>1, <1>2, <2>3
  <2> HIDE DEF last
  <2>4. \A i, j \in 1..(n + 1) : c[i] = more[last[i]] /\ (i < j => last[i] < last[j])
    BY <2>2, <2>3, Zenon
  <2>5. DOMAIN c = 1..(n + 1) /\ DOMAIN more = 1..(m + 1)
    BY <1>1
  <2>6. QED
    BY <2>1, <2>4, <2>5, Zenon DEF LeftOf
<1>5. QED
  BY <1>3, <1>4 DEF more, c

(* Nothing is left of no entries.                                          *)
LEMMA LeftOfNothing ==
  ASSUME NEW T, NEW d \in Seq(T), LeftOf(d, <<>>)
  PROVE  d = <<>>
<1> DEFINE z == <<>>
<1>1. DOMAIN z = {} /\ DOMAIN d = 1..Len(d) /\ Len(d) \in Nat
  OBVIOUS
<1>2. \E pick : pick \in [DOMAIN d -> DOMAIN z]
  BY DEF LeftOf
<1> HIDE DEF z
<1>3. DOMAIN d = {}
  BY <1>1, <1>2
<1>4. Len(d) = 0
  BY <1>1, <1>3
<1>5. QED
  BY <1>4

(* A file tells what is left of the session.                               *)
Tells(d, es) == LeftOf(Loaded(d), es)

(* A rewrite tells no more than the session, also when it is cut.          *)
LEMMA RewritesTell ==
  ASSUME NEW n \in Nat, NEW es, Grown(es, n)
  PROVE  Tells(Rewritten(es), es) /\ \A d \in RewriteCut(es) : Tells(d, es)
<1>1. es \in Seq(Rooted)
  BY DEF Grown
<1>2. LeftOf(es, es) /\ LeftOf(<<>>, es) /\ \A k \in 0..Len(es) : LeftOf(Upto(es, k), es)
  BY <1>1, LeftOfAll, LeftOfStart
<1>3. Tells(Rewritten(es), es)
  BY <1>2 DEF Tells, Rewritten, Loaded, File
<1>4. ASSUME NEW d \in RewriteCut(es) PROVE Tells(d, es)
  <2>4. \/ \E tail \in {"ended", "torn"} : d = File(FALSE, <<>>, tail)
        \/ \E k \in 0..Len(es) : \E tail \in {"ended", "unended", "torn"} :
              d = CutBehind(es, k, tail)
    BY CutsAre
  <2>5. ASSUME NEW tail, d = File(FALSE, <<>>, tail) PROVE Loaded(d) = <<>>
    BY <2>5 DEF Loaded, File
  <2>6. ASSUME NEW k \in 0..Len(es), NEW tail, d = CutBehind(es, k, tail)
        PROVE  Loaded(d) = Upto(es, k)
    BY <2>6 DEF Loaded, File, CutBehind
  <2>7. QED
    BY <1>2, <2>4, <2>5, <2>6 DEF Tells
<1>5. QED
  BY <1>3, <1>4

(* A line tells no more than the session with the new entry, also when it  *)
(* is cut or joins a torn line.                                            *)
LEMMA LinesTell ==
  ASSUME NEW n \in Nat, NEW es, Grown(es, n), NEW e \in Rooted,
         NEW d, FileOK(d, n), Tells(d, es)
  PROVE  /\ Tells(Added(d, e), Append(es, e))
         /\ \A c \in AddCut(d, e) : Tells(c, Append(es, e))
         /\ Tells(d, Append(es, e))
<1> DEFINE more == Append(es, e)
           FileSet == [exists : BOOLEAN, header : BOOLEAN, entries : Seq(Rooted),
                       tail : {"ended", "unended", "torn"}]
<1>1. es \in Seq(Rooted) /\ d \in FileSet /\ Loaded(d) \in Seq(Rooted)
  BY DEF Grown, FileOK, Loaded
<1>2. more \in Seq(Rooted)
  BY <1>1
<1>3. Tells(d, more) /\ LeftOf(Append(Loaded(d), e), more) /\ LeftOf(<<>>, more)
  BY <1>1, <1>2, LeftOfLonger, LeftOfAll DEF Tells
<1> HIDE DEF more
<1>4. \A c : \A t : c \in FileSet => Loaded([c EXCEPT !.tail = t]) = Loaded(c)
  BY DEF Loaded
<1>5. Tells(Added(d, e), more) /\ Added(d, e) \in FileSet
  <2>1. CASE d.tail = "ended"
    <3>1. Added(d, e) = [d EXCEPT !.exists = TRUE, !.entries = Append(@, e)]
      BY <2>1 DEF Added
    <3> DEFINE l == Append(d.entries, e)
    <3>2. l \in Seq(Rooted)
      BY <1>1
    <3>3. Added(d, e) = [d EXCEPT !.exists = TRUE, !.entries = l]
      BY <1>1, <3>1
    <3>4. d.header => l = Append(Loaded(d), e)
      BY DEF Loaded
    <3> HIDE DEF l
    <3>5. Added(d, e) \in FileSet /\ Added(d, e).header = d.header /\ Added(d, e).entries = l
      BY <1>1, <3>2, <3>3
    <3>6. Loaded(Added(d, e)) = IF d.header THEN l ELSE <<>>
      BY <3>5 DEF Loaded
    <3>7. QED
      BY <1>3, <3>4, <3>5, <3>6 DEF Tells
  <2>2. CASE d.tail = "torn"
    <3>1. Added(d, e) = [d EXCEPT !.tail = "ended"]
      BY <2>2 DEF Added
    <3>2. Added(d, e) \in FileSet
      BY <1>1, <3>1
    <3>3. Loaded(Added(d, e)) = Loaded(d)
      BY <1>1, <1>4, <3>1
    <3>4. QED
      BY <1>3, <3>2, <3>3 DEF Tells
  <2>3. CASE d.tail = "unended" /\ d.entries = <<>>
    <3>1. Added(d, e) = File(FALSE, <<>>, "ended")
      BY <2>3 DEF Added
    <3>2. QED
      BY <1>3, <3>1 DEF Tells, Loaded, File
  <2>4. CASE d.tail = "unended" /\ d.entries # <<>>
    <3> DEFINE f == Front(d.entries)
    <3>1. Added(d, e) = File(d.header, f, "ended")
      BY <2>4 DEF Added
    <3>2. /\ f = Upto(d.entries, Len(d.entries) - 1)
          /\ Len(d.entries) - 1 \in 0..Len(d.entries) /\ Grown(f, n)
      BY <2>4, GrownShorter DEF FileOK
    <3>3. f \in Seq(Rooted)
      BY <3>2 DEF Grown
    <3>4. d.header => LeftOf(f, more)
      <4>1. \A s \in Seq(Rooted) : LeftOf(s, more) =>
              \A k \in 0..Len(s) : LeftOf(Upto(s, k), more)
        BY <1>2, LeftOfStart
      <4>2. d.header => LeftOf(d.entries, more)
        BY <1>3 DEF Tells, Loaded
      <4>3. d.entries \in Seq(Rooted)
        BY <1>1
      <4>4. QED
        BY <3>2, <4>1, <4>2, <4>3
    <3> HIDE DEF f
    <3>5. QED
      BY <1>1, <1>3, <3>1, <3>3, <3>4 DEF Tells, Loaded, File
  <2>5. QED
    BY <1>1, <2>1, <2>2, <2>3, <2>4
<1>6. ASSUME NEW c \in AddCut(d, e) PROVE Tells(c, more)
  <2>1. \/ c = [d EXCEPT !.tail = "torn"]
        \/ c = [Added(d, e) EXCEPT !.tail = "unended"]
        \/ c = [Added(d, e) EXCEPT !.tail = "torn"]
    BY <1>6 DEF AddCut
  <2> DEFINE whole == Added(d, e)
  <2>2. d \in FileSet /\ whole \in FileSet
    BY <1>1, <1>5
  <2>3. \/ c = [d EXCEPT !.tail = "torn"]
        \/ c = [whole EXCEPT !.tail = "unended"]
        \/ c = [whole EXCEPT !.tail = "torn"]
    BY <2>1
  <2>4. Tells(d, more) /\ Tells(whole, more)
    BY <1>3, <1>5
  <2> HIDE DEF FileSet, whole
  <2>5. Loaded(c) = Loaded(d) \/ Loaded(c) = Loaded(whole)
    BY <1>4, <2>2, <2>3, Zenon
  <2>6. QED
    BY <2>4, <2>5 DEF Tells
<1>7. QED
  BY <1>3, <1>5, <1>6 DEF more

(* A file that does not exist has no header.                               *)
Absent == \A f \in Files : disk[f].header => disk[f].exists

ToldInv == TypeInv /\ Absent /\ (alive => Tells(disk[sessionFile], fileEntries))

(* Whatever is written has a header only if it exists.                     *)
LEMMA HeadersExist ==
  ASSUME NEW es, NEW e, NEW n \in Nat, NEW d, FileOK(d, n), d.header => d.exists
  PROVE  /\ Rewritten(es).exists /\ \A c \in RewriteCut(es) : c.exists
         /\ Added(d, e).header => Added(d, e).exists
         /\ \A c \in AddCut(d, e) : c.header => c.exists
<1>1. d = [exists |-> d.exists, header |-> d.header, entries |-> d.entries, tail |-> d.tail]
  BY DEF FileOK
<1>3. Rewritten(es).exists /\ \A c \in RewriteCut(es) : c.exists
  <2>1. Rewritten(es).exists
    BY DEF Rewritten, File
  <2>2. ASSUME NEW c \in RewriteCut(es) PROVE c.exists
    <3>1. \/ \E tail \in {"ended", "torn"} : c = File(FALSE, <<>>, tail)
          \/ \E k \in 0..Len(es) : \E tail \in {"ended", "unended", "torn"} :
                c = CutBehind(es, k, tail)
      BY CutsAre
    <3>2. CASE \E tail \in {"ended", "torn"} : c = File(FALSE, <<>>, tail)
      BY <3>2 DEF File
    <3>3. CASE \E k \in 0..Len(es) : \E tail \in {"ended", "unended", "torn"} :
                 c = CutBehind(es, k, tail)
      BY <3>3 DEF File, CutBehind
    <3>4. QED
      BY <3>1, <3>2, <3>3
  <2>3. QED
    BY <2>1, <2>2
<1> DEFINE a == Added(d, e)
<1>4. /\ a = [exists |-> a.exists, header |-> a.header, entries |-> a.entries, tail |-> a.tail]
      /\ a.header => a.exists
  BY <1>1 DEF Added, File, FileOK
<1> HIDE DEF a
<1>5. \A c \in AddCut(d, e) : c.header => c.exists
  <2>1. \A t : [d EXCEPT !.tail = t].header => [d EXCEPT !.tail = t].exists
    BY <1>1
  <2>2. \A t : [a EXCEPT !.tail = t].header => [a EXCEPT !.tail = t].exists
    BY <1>4
  <2>3. QED
    BY <2>1, <2>2 DEF AddCut, a
<1>6. QED
  BY <1>3, <1>4, <1>5 DEF a

(* An append, the file it goes to, and the files beside it.                *)
LEMMA AppendTold ==
  ASSUME ToldInv, NEW kind \in Kinds, NEW parent \in IdsOf(fileEntries) \cup {0},
         NEW ref \in IdsOf(fileEntries) \cup {0}, kind \in LabelKinds => ref # 0,
         NEW ok \in BOOLEAN, AppendEntry(kind, parent, ref, ok)
  PROVE  Absent' /\ (alive' => Tells(disk[sessionFile], fileEntries)')
<1> DEFINE e == Entry(nextId, parent, kind, ref)
           es == Append(fileEntries, e)
           d == disk[sessionFile]
<1>0. TypeInv /\ Absent /\ sessionFile \in Files /\ disk = [f \in Files |-> disk[f]]
  BY TypeFacts DEF ToldInv
<1>1. /\ alive /\ fileEntries' = es /\ PersistEntry(es, e, ok) /\ sessionFile' = sessionFile
      /\ nextId <= MaxId
  BY DEF AppendEntry
<1>2. Grown(fileEntries, nextId) /\ nextId \in Nat /\ FileOK(d, nextId) /\ nextId + 1 \in Nat
  BY <1>0, TypeFacts
<1>3. e \in Rooted /\ e.id = nextId
  <2>1. parent \in Nat /\ parent < nextId /\ ref \in Nat /\ ref < nextId
    BY <1>0, <1>2, IdsOfGrown, TypeFacts
  <2>2. QED
    BY <1>2, <2>1 DEF Entry, Rooted
<1> HIDE DEF e
<1>4. Grown(es, nextId + 1)
  BY <1>2, <1>3, GrownAppend
<1>5. /\ Tells(Added(d, e), es) /\ \A c \in AddCut(d, e) : Tells(c, es)
      /\ Tells(d, es)
  BY <1>1, <1>2, <1>3, LinesTell DEF ToldInv
<1>6. Tells(Rewritten(es), es) /\ \A c \in RewriteCut(es) : Tells(c, es)
  BY <1>2, <1>4, RewritesTell
<1>7. /\ Rewritten(es).exists /\ \A c \in RewriteCut(es) : c.exists
      /\ Added(d, e).header => Added(d, e).exists
      /\ \A c \in AddCut(d, e) : c.header => c.exists
  BY <1>0, <1>2, HeadersExist DEF Absent
<1> HIDE DEF es
<1>8. /\ disk' = [g \in Files |-> disk'[g]]
      /\ \A g \in Files \ {sessionFile} : disk'[g] = disk[g]
      /\ disk'[sessionFile] \in {d, Rewritten(es), Added(d, e)} \cup RewriteCut(es) \cup AddCut(d, e)
  <2>1. CASE ~HasAssistant(es)
    BY <1>0, <1>1, <2>1 DEF PersistEntry, NoWrite
  <2>2. CASE HasAssistant(es) /\ ~flushed
    <3>1. Write(sessionFile, Rewritten(es), RewriteCut(es), ok)
      BY <1>1, <2>2 DEF PersistEntry, WriteAll
    <3>2. QED
      BY <1>0, <3>1, TypeFacts, WriteDoes
  <2>3. CASE HasAssistant(es) /\ flushed
    <3>1. Write(sessionFile, Added(d, e), AddCut(d, e), ok)
      BY <1>1, <2>3 DEF PersistEntry, WriteLine
    <3>2. QED
      BY <1>0, <3>1, TypeFacts, WriteDoes
  <2>4. QED
    BY <2>1, <2>2, <2>3
<1> HIDE DEF d
<1>9. Tells(disk'[sessionFile], es)
  BY <1>5, <1>6, <1>8
<1>10. disk'[sessionFile].header => disk'[sessionFile].exists
  BY <1>0, <1>7, <1>8 DEF Absent, d
<1>11. QED
  BY <1>0, <1>1, <1>8, <1>9, <1>10 DEF Absent

(* A new session is what its file says, or has none.                       *)
LEMMA NewTold ==
  ASSUME ToldInv, NEW n \in Nat, NEW f \in Unused, NEW es, Grown(es, n), NEW ok,
         WriteAll(f, es, ok) \/ NoWrite(ok)
  PROVE  Absent' /\ Tells(disk'[f], es) /\ disk'[sessionFile] = disk[sessionFile]
<1>0. /\ TypeInv /\ Absent /\ f \in Files /\ f # sessionFile /\ sessionFile \in Files
      /\ disk = [g \in Files |-> disk[g]] /\ ~disk[f].exists
  BY TypeFacts DEF ToldInv, Unused
<1>1. es \in Seq(Rooted)
  BY DEF Grown
<1>2. Tells(disk[f], es)
  BY <1>0, <1>1, LeftOfAll DEF Absent, Tells, Loaded
<1>3. CASE WriteAll(f, es, ok)
  <2>1. Write(f, Rewritten(es), RewriteCut(es), ok)
    BY <1>3 DEF WriteAll
  <2>2. /\ \A g \in Files \ {f} : disk'[g] = disk[g]
        /\ disk'[f] \in {Rewritten(es), disk[f]} \cup RewriteCut(es)
    BY <1>0, <2>1, TypeFacts, WriteDoes
  <2>3. Rewritten(es).exists /\ \A c \in RewriteCut(es) : c.exists
    <3>1. FileOK(disk[f], nextId) /\ (disk[f].header => disk[f].exists) /\ nextId \in Nat
      BY <1>0, TypeFacts DEF Absent
    <3>2. QED
      BY <3>1, HeadersExist
  <2>4. Tells(disk'[f], es)
    BY <1>2, <2>2, RewritesTell
  <2>5. disk'[f].header => disk'[f].exists
    BY <1>0, <2>2, <2>3 DEF Absent
  <2>6. QED
    BY <1>0, <2>2, <2>4, <2>5 DEF Absent
<1>4. CASE NoWrite(ok)
  BY <1>0, <1>2, <1>4 DEF NoWrite, Absent
<1>5. QED
  BY <1>3, <1>4

(* What overwrites a damaged file tells nothing.                           *)
LEMMA OverwriteTold ==
  ASSUME ToldInv, NEW f \in Files, NEW ok, Overwrite(f, ok)
  PROVE  /\ Absent'
         /\ \A n \in Nat : \A es : Grown(es, n) => Tells(disk'[f], es)
         /\ \A g \in Files \ {f} : disk'[g] = disk[g]
<1>0. TypeInv /\ Absent /\ disk = [g \in Files |-> disk[g]] /\ Grown(<<>>, 0) /\ 0 \in Nat
  BY TypeFacts, GrownEmpty DEF ToldInv
<1>1. \E d \in {Rewritten(<<>>)} \cup RewriteCut(<<>>) : disk' = [disk EXCEPT ![f] = d]
  BY DEF Overwrite
<1>2. PICK d \in {Rewritten(<<>>)} \cup RewriteCut(<<>>) : disk' = [disk EXCEPT ![f] = d]
  BY <1>1
<1>3. disk'[f] = d /\ \A g \in Files \ {f} : disk'[g] = disk[g]
  BY <1>0, <1>2
<1> DEFINE z == <<>>
<1>4. Grown(z, 0) /\ d \in {Rewritten(z)} \cup RewriteCut(z) /\ z \in Seq(Rooted)
  BY <1>0, <1>2
<1> HIDE DEF z
<1>5. Tells(d, z) /\ FileOK(d, 0)
  BY <1>0, <1>4, RewritesTell, RewritesAreOK
<1>6. Loaded(d) = <<>>
  <2>1. Loaded(d) \in Seq(Rooted)
    BY <1>0, <1>5, LoadedIsGrown DEF Grown
  <2>2. LeftOf(Loaded(d), <<>>)
    BY <1>5 DEF Tells, z
  <2>3. QED
    BY <2>1, <2>2, LeftOfNothing
<1>7. d.exists
  <2>1. FileOK(disk[f], nextId) /\ (disk[f].header => disk[f].exists) /\ nextId \in Nat
    BY <1>0, TypeFacts DEF Absent
  <2>2. \A e : Rewritten(z).exists /\ \A c \in RewriteCut(z) : c.exists
    BY <2>1, HeadersExist
  <2>3. QED
    BY <1>4, <2>2
<1>8. Absent'
  BY <1>0, <1>3, <1>7 DEF Absent
<1>9. ASSUME NEW n \in Nat, NEW es, Grown(es, n) PROVE Tells(d, es)
  <2>1. es \in Seq(Rooted)
    BY <1>9 DEF Grown
  <2>2. QED
    BY <1>6, <2>1, LeftOfAll DEF Tells
<1>10. QED
  BY <1>3, <1>8, <1>9

(* The first session has no file yet.                                      *)
LEMMA InitTold == Init => ToldInv
<1> SUFFICES ASSUME Init PROVE ToldInv
  OBVIOUS
<1>1. Absent
  BY DEF Init, Absent, NoFile
<1>2. disk[sessionFile] = NoFile
  BY SessionAssumption DEF Init
<1>3. fileEntries = <<>> /\ fileEntries \in Seq(Rooted)
  BY DEF Init
<1>4. LeftOf(<<>>, fileEntries)
  BY <1>3, LeftOfAll
<1>5. Loaded(disk[sessionFile]) = <<>>
  BY <1>2 DEF NoFile, Loaded
<1>6. QED
  BY <1>1, <1>4, <1>5, TypeInit DEF ToldInv, Tells

(* No step lets the file of the session tell more than the session.        *)
LEMMA StepTold ==
  ASSUME ToldInv, [Next]_vars
  PROVE  ToldInv'
<1> DEFINE Goal == Absent' /\ (alive' => Tells(disk[sessionFile], fileEntries)')
<1>0. TypeInv /\ Absent /\ TypeInv'
  BY TypeStep DEF ToldInv
<1>1. ASSUME NEW ok \in BOOLEAN, AppendStep(ok) PROVE Goal
  <2>0. Appends \subseteq Kinds /\ "summary" \in Kinds /\ "compaction" \in Kinds
    BY SessionAssumption DEF Kinds
  <2>1. "summary" \notin LabelKinds /\ "compaction" \notin LabelKinds
    BY DEF LabelKinds
  <2>2. ASSUME NEW kind \in Plain, AppendPlain(kind, ok) PROVE Goal
    <3>1. kind \in Kinds /\ kind \notin LabelKinds
      BY <2>0 DEF Plain
    <3>2. QED
      BY <1>0, <2>2, <3>1, TypeFacts, AppendTold DEF AppendPlain
  <2>3. ASSUME NEW id \in IdsOf(fileEntries), NEW kind \in Appends \cap LabelKinds,
               AppendLabelChange(id, kind, ok)
        PROVE  Goal
    <3>1. id # 0
      BY <1>0, TypeFacts, IdsOfGrown
    <3>2. QED
      BY <1>0, <2>0, <2>3, <3>1, TypeFacts, AppendTold DEF AppendLabelChange
  <2>4. ASSUME NEW id \in IdsOf(fileEntries), AppendCompaction(id, ok) PROVE Goal
    BY <1>0, <2>0, <2>1, <2>4, TypeFacts, AppendTold DEF AppendCompaction
  <2>5. ASSUME NEW from \in IdsOf(fileEntries) \cup {0}, BranchWithSummary(from, ok) PROVE Goal
    BY <1>0, <2>0, <2>1, <2>5, TypeFacts, AppendTold DEF BranchWithSummary
  <2>6. QED
    BY <1>1, <2>2, <2>3, <2>4, <2>5 DEF AppendStep
<1>2. ASSUME NEW ok \in BOOLEAN, NEW leaf \in IdsOf(fileEntries), CreateBranchedSession(leaf, ok)
      PROVE  Goal
  <2> DEFINE es == Branched(fileEntries, leaf, labelsById)
  <2>1. PICK f \in Unused : Index(f, es) /\ (WriteAll(f, es, ok) \/ NoWrite(ok))
    BY <1>2 DEF CreateBranchedSession
  <2>2. Grown(es, nextId') /\ nextId' \in Nat
    BY <1>0, <1>2, TypeFacts, BranchIsGrown DEF CreateBranchedSession
  <2> HIDE DEF es
  <2>3. Absent' /\ Tells(disk'[f], es)
    BY <2>1, <2>2, NewTold
  <2>4. QED
    BY <2>1, <2>3 DEF Index
<1>3. ASSUME NEW ok \in BOOLEAN, NEW leaf, Fork(leaf, ok) PROVE Goal
  <2> DEFINE source == Loaded(disk[sessionFile])
             es     == Branched(source, leaf, LabelsOf(source))
  <2>1. PICK f \in Unused :
          \/ /\ HasAssistant(es) /\ WriteAll(f, es, ok)
             /\ IF ok THEN Index(f, es) /\ flushed' = TRUE ELSE UNCHANGED memory
          \/ /\ ~HasAssistant(es) /\ NoWrite(ok)
             /\ EmptySession(f) /\ flushed' = FALSE
    BY <1>3 DEF Fork
  <2>2. Grown(source, nextId) /\ leaf \in IdsOf(source) /\ Generate(es) /\ alive
    BY <1>0, <1>3, TypeFacts, LoadedIsGrown DEF Fork
  <2>3. Grown(es, nextId') /\ nextId' \in Nat
    BY <1>0, <2>2, TypeFacts, BranchIsGrown
  <2> HIDE DEF es
  <2>4. Absent' /\ Tells(disk'[f], es) /\ disk'[sessionFile] = disk[sessionFile]
    BY <2>1, <2>3, NewTold
  <2>5. CASE Index(f, es)
    BY <2>4, <2>5 DEF Index
  <2>6. CASE UNCHANGED memory
    BY <2>2, <2>4, <2>6 DEF memory, ToldInv
  <2>7. CASE NoWrite(ok) /\ EmptySession(f)
    <3>1. fileEntries' = <<>> /\ sessionFile' = f /\ Grown(<<>>, 0) /\ 0 \in Nat
      BY <2>7, GrownEmpty DEF EmptySession
    <3>2. Tells(disk'[f], <<>>)
      BY <2>7, <3>1, NewTold
    <3>3. QED
      BY <2>4, <3>1, <3>2
  <2>8. QED
    BY <2>1, <2>5, <2>6, <2>7
<1>4. ASSUME NEW ok \in BOOLEAN, ForkOfDamaged(ok) PROVE Goal
  <2>1. Overwrite(sessionFile, ok) /\ UNCHANGED memory
    BY <1>4 DEF ForkOfDamaged
  <2>2. Absent' /\ Tells(disk'[sessionFile], fileEntries)
    BY <1>0, <2>1, TypeFacts, OverwriteTold
  <2>3. QED
    BY <2>1, <2>2 DEF memory
<1>5. ASSUME NEW ok \in BOOLEAN, EnsureSessionFileWritten(ok) PROVE Goal
  <2>1. /\ Write(sessionFile, Rewritten(fileEntries), RewriteCut(fileEntries), ok)
        /\ UNCHANGED <<fileEntries, sessionFile>> /\ alive
    BY <1>5 DEF EnsureSessionFileWritten, WriteAll
  <2>2. /\ \A g \in Files \ {sessionFile} : disk'[g] = disk[g]
        /\ disk'[sessionFile] \in {Rewritten(fileEntries), disk[sessionFile]}
                                    \cup RewriteCut(fileEntries)
    BY <1>0, <2>1, TypeFacts, WriteDoes
  <2>3. Tells(disk'[sessionFile], fileEntries)
    BY <1>0, <2>1, <2>2, TypeFacts, RewritesTell DEF ToldInv
  <2>4. /\ Rewritten(fileEntries).exists /\ \A c \in RewriteCut(fileEntries) : c.exists
    <3>1. /\ FileOK(disk[sessionFile], nextId) /\ nextId \in Nat
          /\ disk[sessionFile].header => disk[sessionFile].exists
      BY <1>0, TypeFacts DEF Absent
    <3>2. QED
      BY <3>1, HeadersExist
  <2>5. Absent'
    BY <1>0, <2>2, <2>4 DEF Absent
  <2>6. QED
    BY <2>1, <2>3, <2>5
<1>6. ASSUME NEW f \in Files, Open(f) PROVE Goal
  <2>1. CASE disk[f].header /\ Index(f, disk[f].entries) /\ UNCHANGED disk
    <3>1. disk[f].entries \in Seq(Rooted)
      BY <1>0, TypeFacts DEF FileOK
    <3>2. fileEntries' = disk[f].entries /\ sessionFile' = f /\ disk'[f] = disk[f]
      BY <2>1 DEF Index
    <3>3. Loaded(disk[f]) = disk[f].entries
      BY <2>1 DEF Loaded
    <3>4. Absent'
      BY <1>0, <2>1 DEF Absent
    <3>5. LeftOf(disk[f].entries, disk[f].entries)
      BY <3>1, LeftOfAll
    <3>6. QED
      BY <3>2, <3>3, <3>4, <3>5 DEF Tells
  <2>2. CASE Overwrite(f, TRUE) /\ EmptySession(f)
    <3>1. fileEntries' = <<>> /\ sessionFile' = f /\ Grown(<<>>, 0) /\ 0 \in Nat
      BY <2>2, GrownEmpty DEF EmptySession
    <3>2. Absent' /\ Tells(disk'[f], <<>>)
      BY <2>2, <3>1, OverwriteTold
    <3>3. QED
      BY <3>1, <3>2
  <2>3. CASE Overwrite(f, FALSE) /\ UNCHANGED <<memory, alive>>
    <3>1. /\ Absent' /\ Tells(disk'[f], fileEntries)
          /\ \A g \in Files \ {f} : disk'[g] = disk[g]
      BY <1>0, <2>3, TypeFacts, OverwriteTold
    <3>2. alive => Tells(disk'[sessionFile], fileEntries)
      BY <1>0, <3>1, TypeFacts DEF ToldInv
    <3>3. QED
      BY <2>3, <3>1, <3>2 DEF memory
  <2>4. QED
    BY <1>6, <2>1, <2>2, <2>3 DEF Open
<1>7. ASSUME NewSession PROVE Goal
  <2>1. PICK f \in Unused : EmptySession(f)
    BY <1>7 DEF NewSession
  <2>2. UNCHANGED disk /\ fileEntries' = <<>> /\ sessionFile' = f
    BY <1>7, <2>1 DEF NewSession, EmptySession
  <2>3. ~disk[f].header /\ f \in Files
    BY <1>0 DEF Unused, Absent
  <2>4. Loaded(disk[f]) = <<>>
    BY <2>3 DEF Loaded
  <2>5. LeftOf(<<>>, <<>>)
    <3> DEFINE z == <<>>
    <3>1. z \in Seq(Rooted)
      OBVIOUS
    <3> HIDE DEF z
    <3>2. LeftOf(z, z)
      BY <3>1, LeftOfAll
    <3>3. QED
      BY <3>2 DEF z
  <2>6. Absent'
    BY <1>0, <2>2 DEF Absent
  <2>7. disk'[sessionFile'] = disk[f] /\ fileEntries' = <<>>
    BY <2>2
  <2>8. Tells(disk'[sessionFile'], fileEntries')
    BY <2>4, <2>5, <2>7 DEF Tells
  <2>9. QED
    BY <2>6, <2>8
<1>8. ASSUME UNCHANGED <<disk, fileEntries, sessionFile>>, alive' => alive PROVE Goal
  <2>1. Absent'
    BY <1>0, <1>8 DEF Absent
  <2>2. disk'[sessionFile'] = disk[sessionFile] /\ fileEntries' = fileEntries
    BY <1>8
  <2>3. alive' => Tells(disk'[sessionFile'], fileEntries')
    BY <1>8, <2>2 DEF ToldInv
  <2>4. QED
    BY <2>1, <2>3
<1>9. ASSUME (\E id \in IdsOf(fileEntries) : Branch(id)) \/ ResetLeaf \/ UNCHANGED vars \/ Crash
      PROVE  Goal
  <2>1. UNCHANGED <<disk, fileEntries, sessionFile>> /\ (alive' => alive)
    BY <1>9 DEF Branch, ResetLeaf, vars, memory, Crash
  <2>2. QED
    BY <1>8, <2>1
<1> HIDE DEF Goal
<1>10. Goal
  <2>1. CASE Next
    BY <1>1, <1>2, <1>3, <1>4, <1>5, <1>6, <1>7, <1>9, <2>1 DEF Next
  <2>2. QED
    BY <1>9, <2>1
<1>11. QED
  BY <1>0, <1>10 DEF ToldInv, Goal

(* Whatever fails, is cut or is torn, a file holds entries of the session  *)
(* it belongs to, in their order, each once.                               *)
THEOREM FilesTellNoMore == Spec => []FileTellsNoMore
<1>1. ToldInv => FileTellsNoMore
  BY DEF ToldInv, Tells, FileTellsNoMore
<1>2. QED
  BY InitTold, StepTold, <1>1, PTL DEF Spec

-----------------------------------------------------------------------------
(* The last word on a target is the last label or unlabel entry naming it. *)
LastWord(es, k) ==
  /\ es[k].kind = "label"
  /\ \A j \in DOMAIN es : j > k /\ es[j].kind \in LabelKinds => es[j].ref # es[k].ref

Decided(es) == {k \in DOMAIN es : LastWord(es, k)}

(* A target carries a label when the last word on it is a label.           *)
LEMMA LabelsAre ==
  \A es, x : x \in LabelsOf(es) <=> \E k \in DOMAIN es : LastWord(es, k) /\ es[k].ref = x
<1> SUFFICES ASSUME NEW es, NEW x
             PROVE  x \in LabelsOf(es) <=> \E k \in DOMAIN es : LastWord(es, k) /\ es[k].ref = x
  OBVIOUS
<1>1. LabelsOf(es) = {es[i].ref : i \in Decided(es)}
  BY DEF LabelsOf, Decided, LastWord
<1>2. QED
  BY <1>1 DEF Decided

(* How an entry that is appended changes the labels in force.              *)
LEMMA LabelsOfAppend ==
  ASSUME NEW es \in Seq(Rooted), NEW e \in Rooted
  PROVE  LabelsOf(Append(es, e)) =
           CASE e.kind = "label"   -> LabelsOf(es) \cup {e.ref}
             [] e.kind = "unlabel" -> LabelsOf(es) \ {e.ref}
             [] OTHER              -> LabelsOf(es)
<1> DEFINE t == Append(es, e)
           n == Len(es)
<1>1. /\ n \in Nat /\ DOMAIN es = 1..n /\ DOMAIN t = 1..(n + 1) /\ t[n + 1] = e
      /\ \A i \in 1..n : t[i] = es[i]
  OBVIOUS
<1> HIDE DEF t, n
<1>2. ASSUME NEW k \in 1..n
      PROVE  LastWord(t, k) <=> LastWord(es, k) /\ (e.kind \in LabelKinds => e.ref # es[k].ref)
  <2>1. k \in 1..(n + 1) /\ n + 1 > k /\ t[k] = es[k]
    BY <1>1
  <2>2. ASSUME LastWord(t, k)
        PROVE  LastWord(es, k) /\ (e.kind \in LabelKinds => e.ref # es[k].ref)
    <3>1. ASSUME NEW j \in 1..n, j > k, es[j].kind \in LabelKinds PROVE es[j].ref # es[k].ref
      <4>1. j \in 1..(n + 1) /\ t[j] = es[j]
        BY <1>1
      <4>2. QED
        BY <1>1, <2>1, <2>2, <3>1, <4>1 DEF LastWord
    <3>2. QED
      BY <1>1, <2>1, <2>2, <3>1 DEF LastWord
  <2>3. ASSUME LastWord(es, k), e.kind \in LabelKinds => e.ref # es[k].ref
        PROVE  LastWord(t, k)
    <3>1. ASSUME NEW j \in 1..(n + 1), j > k, t[j].kind \in LabelKinds PROVE t[j].ref # t[k].ref
      <4>1. CASE j \in 1..n
        BY <1>1, <2>1, <2>3, <3>1, <4>1 DEF LastWord
      <4>2. CASE j = n + 1
        BY <1>1, <2>1, <2>3, <3>1, <4>2
      <4>3. QED
        BY <1>1, <4>1, <4>2
    <3>2. QED
      BY <1>1, <2>1, <2>3, <3>1 DEF LastWord
  <2>4. QED
    BY <2>2, <2>3
<1>3. LastWord(t, n + 1) <=> e.kind = "label"
  <2>1. \A j \in 1..(n + 1) : ~(j > n + 1)
    BY <1>1
  <2>2. QED
    BY <1>1, <2>1 DEF LastWord
<1>4. \A x : x \in LabelsOf(t) <=>
        \/ x \in LabelsOf(es) /\ (e.kind \in LabelKinds => e.ref # x)
        \/ e.kind = "label" /\ e.ref = x
  <2> SUFFICES ASSUME NEW x
               PROVE  x \in LabelsOf(t) <=>
                        \/ x \in LabelsOf(es) /\ (e.kind \in LabelKinds => e.ref # x)
                        \/ e.kind = "label" /\ e.ref = x
    OBVIOUS
  <2>1. x \in LabelsOf(t) <=> \E k \in 1..(n + 1) : LastWord(t, k) /\ t[k].ref = x
    BY <1>1, LabelsAre
  <2>2. x \in LabelsOf(es) <=> \E k \in 1..n : LastWord(es, k) /\ es[k].ref = x
    BY <1>1, LabelsAre
  <2>3. (\E k \in 1..(n + 1) : LastWord(t, k) /\ t[k].ref = x)
          <=> \/ \E k \in 1..n : LastWord(t, k) /\ es[k].ref = x
              \/ LastWord(t, n + 1) /\ e.ref = x
    <3>1. \A k \in 1..(n + 1) : k \in 1..n \/ k = n + 1
      BY <1>1
    <3>2. \A k \in 1..n : k \in 1..(n + 1)
      BY <1>1
    <3>3. n + 1 \in 1..(n + 1)
      BY <1>1
    <3>4. QED
      BY <1>1, <3>1, <3>2, <3>3
  <2>4. QED
    BY <1>2, <1>3, <2>1, <2>2, <2>3
<1>5. CASE e.kind = "label"
  BY <1>4, <1>5 DEF LabelKinds, t
<1>6. CASE e.kind = "unlabel"
  BY <1>4, <1>6 DEF LabelKinds, t
<1>7. CASE e.kind \notin LabelKinds
  BY <1>4, <1>7 DEF LabelKinds, t
<1>8. QED
  BY <1>5, <1>6, <1>7 DEF LabelKinds

(* No entry, no label.                                                     *)
LEMMA NoEntryNoLabel == LabelsOf(<<>>) = {}
<1> DEFINE z == <<>>
<1>1. DOMAIN z = {}
  OBVIOUS
<1> HIDE DEF z
<1>2. LabelsOf(z) = {}
  BY <1>1, LabelsAre
<1>3. QED
  BY <1>2 DEF z

(* What is appended refers to entries that are there.                      *)
LEMMA NewIsRooted ==
  ASSUME TypeInv, NEW kind \in Kinds, NEW parent \in IdsOf(fileEntries) \cup {0},
         NEW ref \in IdsOf(fileEntries) \cup {0}, kind \in LabelKinds => ref # 0
  PROVE  Entry(nextId, parent, kind, ref) \in Rooted
<1>1. nextId \in Nat /\ nextId # 0
  BY TypeFacts
<1>2. parent \in Nat /\ parent < nextId /\ ref \in Nat /\ ref < nextId
  BY <1>1, TypeFacts, IdsOfGrown
<1>3. QED
  BY <1>1, <1>2 DEF Entry, Rooted

(* Without failing writes an operation that is cut is the process's last.  *)
LEMMA CutIsTheEnd ==
  ASSUME "ioerror" \notin Faults, NEW kind, NEW parent, NEW ref, NEW ok \in BOOLEAN,
         AppendEntry(kind, parent, ref, ok)
  PROVE  /\ alive' => ok
         /\ fileEntries' = Append(fileEntries, Entry(nextId, parent, kind, ref))
<1> DEFINE e == Entry(nextId, parent, kind, ref)
           es == Append(fileEntries, e)
<1>1. ASSUME NEW f, NEW whole, NEW cuts, Write(f, whole, cuts, ok) PROVE alive' => ok
  <2>1. ok \/ alive' = FALSE
    BY <1>1 DEF Write
  <2>2. QED
    BY <2>1
<1>2. PersistEntry(es, e, ok) /\ fileEntries' = es
  BY DEF AppendEntry
<1>3. PersistEntry(es, e, ok) => (alive' => ok)
  <2> HIDE DEF es, e
  <2>1. QED
    BY <1>1 DEF PersistEntry, NoWrite, WriteAll, WriteLine
<1>4. QED
  BY <1>2, <1>3

(* An entry that is no label leaves the labels as they are.                *)
LEMMA OthersKeepLabels ==
  ASSUME TypeInv, LabelsMatchEntries, alive, NEW kind \in Kinds \ LabelKinds,
         NEW parent \in IdsOf(fileEntries) \cup {0}, NEW ref \in IdsOf(fileEntries) \cup {0},
         fileEntries' = Append(fileEntries, Entry(nextId, parent, kind, ref)),
         UNCHANGED labelsById
  PROVE  LabelsMatchEntries'
<1> DEFINE e == Entry(nextId, parent, kind, ref)
<1>1. e \in Rooted /\ e.kind \notin LabelKinds
  BY NewIsRooted DEF Entry
<1>2. fileEntries \in Seq(Rooted)
  BY TypeFacts DEF Grown
<1> HIDE DEF e
<1>3. LabelsOf(Append(fileEntries, e)) = LabelsOf(fileEntries)
  BY <1>1, <1>2, LabelsOfAppend DEF LabelKinds
<1>4. QED
  BY <1>3 DEF LabelsMatchEntries, e

LabelInv == TypeInv /\ LabelsMatchEntries

(* Every append keeps the label map in step with the entries.              *)
LEMMA AppendStepLabels ==
  ASSUME "ioerror" \notin Faults, LabelInv, NEW ok \in BOOLEAN, AppendStep(ok)
  PROVE  LabelsMatchEntries'
<1>0. Appends \subseteq Kinds /\ {"summary", "compaction"} \subseteq Kinds \ LabelKinds
  BY SessionAssumption DEF Kinds, LabelKinds
<1>1. ASSUME NEW kind \in Plain, AppendPlain(kind, ok) PROVE LabelsMatchEntries'
  <2>1. kind \in Kinds \ LabelKinds
    BY <1>0 DEF Plain
  <2>2. AppendEntry(kind, leafId, 0, ok) /\ UNCHANGED labelsById /\ alive
    BY <1>1 DEF AppendPlain, AppendEntry
  <2>3. QED
    BY <2>1, <2>2, CutIsTheEnd, TypeFacts, OthersKeepLabels DEF LabelInv
<1>2. ASSUME NEW id \in IdsOf(fileEntries), NEW kind \in LabelKinds,
             AppendLabelChange(id, kind, ok), alive'
      PROVE  labelsById' = LabelsOf(fileEntries)'
  <2> DEFINE e == Entry(nextId, leafId, kind, id)
  <2>1. AppendEntry(kind, leafId, id, ok) /\ alive
    BY <1>2 DEF AppendLabelChange, AppendEntry
  <2>2. ok /\ fileEntries' = Append(fileEntries, e)
    BY <1>2, <2>1, CutIsTheEnd
  <2>3. e \in Rooted /\ e.kind = kind /\ e.ref = id
    <3>1. kind \in Kinds /\ id # 0
      BY TypeFacts, IdsOfGrown DEF Kinds, LabelKinds, LabelInv
    <3>2. QED
      BY <3>1, TypeFacts, NewIsRooted DEF Entry, LabelInv
  <2>4. fileEntries \in Seq(Rooted) /\ labelsById = LabelsOf(fileEntries)
    BY <2>1, TypeFacts DEF Grown, LabelInv, LabelsMatchEntries
  <2> HIDE DEF e
  <2>5. CASE kind = "label"
    <3>1. LabelsOf(Append(fileEntries, e)) = LabelsOf(fileEntries) \cup {id}
      BY <2>3, <2>4, <2>5, LabelsOfAppend
    <3>2. labelsById' = labelsById \cup {id}
      BY <1>2, <2>2, <2>5 DEF AppendLabelChange
    <3>3. QED
      BY <2>2, <2>4, <3>1, <3>2
  <2>6. CASE kind = "unlabel"
    <3>1. LabelsOf(Append(fileEntries, e)) = LabelsOf(fileEntries) \ {id}
      BY <2>3, <2>4, <2>6, LabelsOfAppend
    <3>2. labelsById' = labelsById \ {id}
      BY <1>2, <2>2, <2>6 DEF AppendLabelChange
    <3>3. QED
      BY <2>2, <2>4, <3>1, <3>2
  <2>7. QED
    BY <2>5, <2>6 DEF LabelKinds
<1>3. ASSUME NEW id \in IdsOf(fileEntries), AppendCompaction(id, ok) PROVE LabelsMatchEntries'
  <2>1. AppendEntry("compaction", leafId, id, ok) /\ UNCHANGED labelsById /\ alive
    BY <1>3 DEF AppendCompaction, AppendEntry
  <2>2. QED
    BY <1>0, <2>1, CutIsTheEnd, TypeFacts, OthersKeepLabels DEF LabelInv
<1>4. ASSUME NEW from \in IdsOf(fileEntries) \cup {0}, BranchWithSummary(from, ok)
      PROVE  LabelsMatchEntries'
  <2>1. AppendEntry("summary", from, 0, ok) /\ UNCHANGED labelsById /\ alive
    BY <1>4 DEF BranchWithSummary, AppendEntry
  <2>2. /\ fileEntries' = Append(fileEntries, Entry(nextId, from, "summary", 0))
        /\ "summary" \in Kinds \ LabelKinds /\ 0 \in IdsOf(fileEntries) \cup {0}
    BY <1>0, <2>1, CutIsTheEnd
  <2>3. QED
    BY <2>1, <2>2, OthersKeepLabels DEF LabelInv
<1>5. QED
  BY <1>1, <1>2, <1>3, <1>4 DEF AppendStep, LabelsMatchEntries

(* So does every other step: they build the map anew or leave both.        *)
LEMMA StepLabels ==
  ASSUME "ioerror" \notin Faults, LabelInv, [Next]_vars
  PROVE  LabelInv'
<1> DEFINE Goal == LabelsMatchEntries'
<1>0. TypeInv'
  BY TypeStep DEF LabelInv
<1>1. ASSUME NEW ok \in BOOLEAN, AppendStep(ok) PROVE Goal
  BY <1>1, AppendStepLabels
<1>2. ASSUME NEW f, NEW es, Index(f, es) PROVE Goal
  BY <1>2 DEF Index, LabelsMatchEntries
<1>3. ASSUME NEW f, EmptySession(f) PROVE Goal
  BY <1>3, NoEntryNoLabel DEF EmptySession, LabelsMatchEntries
<1>4. ASSUME UNCHANGED <<fileEntries, labelsById>>, alive' => alive PROVE Goal
  BY <1>4 DEF LabelsMatchEntries, LabelInv
<1>5. ASSUME NEW ok \in BOOLEAN, NEW leaf, CreateBranchedSession(leaf, ok) PROVE Goal
  BY <1>2, <1>5 DEF CreateBranchedSession
<1>6. ASSUME NEW ok \in BOOLEAN, NEW leaf, Fork(leaf, ok) PROVE Goal
  <2>1. alive /\ (UNCHANGED memory \/ \E f : EmptySession(f) \/ \E es : Index(f, es))
    BY <1>6 DEF Fork
  <2>2. CASE UNCHANGED memory
    BY <1>4, <2>1, <2>2 DEF memory
  <2>3. QED
    BY <1>2, <1>3, <2>1, <2>2
<1>7. ASSUME NEW f \in Files, Open(f) PROVE Goal
  <2>1. \/ UNCHANGED <<memory, alive>> \/ EmptySession(f) \/ \E es : Index(f, es)
    BY <1>7 DEF Open
  <2>2. CASE UNCHANGED <<memory, alive>>
    BY <1>4, <2>2 DEF memory
  <2>3. QED
    BY <1>2, <1>3, <2>1, <2>2
<1>8. ASSUME NewSession PROVE Goal
  BY <1>3, <1>8 DEF NewSession
<1>9. ASSUME NEW ok \in BOOLEAN, ForkOfDamaged(ok) \/ EnsureSessionFileWritten(ok) PROVE Goal
  <2>1. UNCHANGED <<fileEntries, labelsById>> /\ alive
    BY <1>9 DEF ForkOfDamaged, EnsureSessionFileWritten, memory
  <2>2. QED
    BY <1>4, <2>1
<1>10. ASSUME (\E id \in IdsOf(fileEntries) : Branch(id)) \/ ResetLeaf \/ UNCHANGED vars \/ Crash
       PROVE  Goal
  <2>1. UNCHANGED <<fileEntries, labelsById>> /\ (alive' => alive)
    BY <1>10 DEF Branch, ResetLeaf, vars, memory, Crash
  <2>2. QED
    BY <1>4, <2>1
<1> HIDE DEF Goal
<1>11. Goal
  <2>1. CASE Next
    BY <1>1, <1>5, <1>6, <1>7, <1>8, <1>9, <1>10, <2>1 DEF Next
  <2>2. QED
    BY <1>10, <2>1
<1>12. QED
  BY <1>0, <1>11 DEF LabelInv, Goal

(* The labels, changed entry by entry, are those a process that opens the  *)
(* file builds, unless a write failed and the process went on.             *)
THEOREM LabelsMatch ==
  ASSUME "ioerror" \notin Faults PROVE Spec => []LabelsMatchEntries
<1>1. Init => LabelInv
  BY TypeInit, NoEntryNoLabel DEF Init, LabelInv, LabelsMatchEntries
<1>2. LabelInv => LabelsMatchEntries
  BY DEF LabelInv
<1>3. QED
  BY <1>1, <1>2, StepLabels, PTL DEF Spec

-----------------------------------------------------------------------------
(* All entries of a path are kept when all are of these kinds.             *)
LEMMA OfKindsAll ==
  ASSUME NEW T, NEW s \in Seq(T), NEW kinds, \A i \in 1..Len(s) : s[i].kind \in kinds
  PROVE  OfKinds(s, kinds) = s
<1> DEFINE Good(r) == (\A x \in ToSet(r) : x.kind \in kinds) => OfKinds(r, kinds) = r
           P == {r \in Seq(T) : Good(r)}
<1>1. <<>> \in P
  BY OfKindsEmpty
<1>2. ASSUME NEW r \in Seq(T), NEW x \in T, r \in P PROVE Append(r, x) \in P
  <2>1. Append(r, x) \in Seq(T) /\ ToSet(Append(r, x)) = ToSet(r) \cup {x}
    BY MembersOfAppend
  <2>2. OfKinds(Append(r, x), kinds) =
          IF x.kind \in kinds THEN Append(OfKinds(r, kinds), x) ELSE OfKinds(r, kinds)
    BY OfKindsAppend
  <2>3. Good(r)
    BY <1>2
  <2>4. Good(Append(r, x))
    BY <2>1, <2>2, <2>3
  <2>5. QED
    BY <2>1, <2>4
<1> HIDE DEF P
<1>3. s \in P
  BY <1>1, <1>2, SequenceInduction
<1>4. \A x \in ToSet(s) : x.kind \in kinds
  BY DEF ToSet
<1>5. QED
  BY <1>3, <1>4 DEF P

(* What follows and is of no such kind is not kept.                        *)
LEMMA OfKindsBefore ==
  ASSUME NEW T, NEW s \in Seq(T), NEW t \in Seq(T), NEW kinds,
         \A i \in 1..Len(t) : t[i].kind \notin kinds
  PROVE  OfKinds(s \o t, kinds) = OfKinds(s, kinds)
<1> DEFINE Good(r) == (\A x \in ToSet(r) : x.kind \notin kinds) =>
                         OfKinds(s \o r, kinds) = OfKinds(s, kinds)
           P == {r \in Seq(T) : Good(r)}
<1>1. <<>> \in P
  OBVIOUS
<1>2. ASSUME NEW r \in Seq(T), NEW x \in T, r \in P PROVE Append(r, x) \in P
  <2>1. Append(r, x) \in Seq(T) /\ ToSet(Append(r, x)) = ToSet(r) \cup {x}
    BY MembersOfAppend
  <2>2. s \o Append(r, x) = Append(s \o r, x) /\ s \o r \in Seq(T)
    BY AppendOfConcat
  <2>3. OfKinds(s \o Append(r, x), kinds) =
          IF x.kind \in kinds THEN Append(OfKinds(s \o r, kinds), x) ELSE OfKinds(s \o r, kinds)
    <3> DEFINE z == s \o r
    <3>1. z \in Seq(T)
      BY <2>2
    <3> HIDE DEF z
    <3>2. OfKinds(Append(z, x), kinds) =
            IF x.kind \in kinds THEN Append(OfKinds(z, kinds), x) ELSE OfKinds(z, kinds)
      BY <3>1, OfKindsAppend
    <3>3. QED
      BY <2>2, <3>2 DEF z
  <2>4. Good(r)
    BY <1>2
  <2>5. Good(Append(r, x))
    BY <2>1, <2>3, <2>4
  <2>6. QED
    BY <2>1, <2>5
<1> HIDE DEF P
<1>3. t \in P
  BY <1>1, <1>2, SequenceInduction
<1>4. \A x \in ToSet(t) : x.kind \notin kinds
  BY DEF ToSet
<1>5. QED
  BY <1>3, <1>4 DEF P

-----------------------------------------------------------------------------
(* A part of a path.                                                       *)
Slice(s, a, b) == SubSeq(s, a, b)

(* Its values, one after the other.                                        *)
LEMMA SliceOf ==
  ASSUME NEW T, NEW s \in Seq(T), NEW a \in 1..(Len(s) + 1), NEW b \in 0..Len(s), a <= b + 1
  PROVE  /\ Slice(s, a, b) \in Seq(T) /\ Len(Slice(s, a, b)) = b + 1 - a
         /\ \A i \in 1..(b + 1 - a) : Slice(s, a, b)[i] = s[a + i - 1] /\ a + i - 1 \in 1..Len(s)
<1>1. Slice(s, a, b) = [i \in 1..(b + 1 - a) |-> s[a + i - 1]]
  BY DEF Slice
<1>2. \A i \in 1..(b + 1 - a) : a + i - 1 \in 1..Len(s)
  OBVIOUS
<1>3. b + 1 - a \in Nat
  OBVIOUS
<1>4. \A i \in 1..(b + 1 - a) : s[a + i - 1] \in T
  BY <1>2
<1>5. QED
  BY <1>1, <1>2, <1>3, <1>4

(* A part before the end is not changed by what follows.                   *)
LEMMA SliceBefore ==
  ASSUME NEW T, NEW s \in Seq(T), NEW t \in Seq(T),
         NEW a \in 1..(Len(s) + 1), NEW b \in 0..Len(s), a <= b + 1
  PROVE  Slice(s \o t, a, b) = Slice(s, a, b)
<1> DEFINE u == s \o t
           k == b + 1 - a
           v == Slice(u, a, b)
           w == Slice(s, a, b)
<1>1. /\ u \in Seq(T) /\ Len(u) = Len(s) + Len(t) /\ Len(s) \in Nat /\ Len(t) \in Nat
      /\ \A i \in 1..(Len(s) + Len(t)) : u[i] = IF i <= Len(s) THEN s[i] ELSE t[i - Len(s)]
  BY ConcatProperties
<1>2. k \in Nat /\ a \in 1..(Len(u) + 1) /\ b \in 0..Len(u)
  BY <1>1
<1>3. w \in Seq(T) /\ Len(w) = k /\ \A i \in 1..k : w[i] = s[a + i - 1] /\ a + i - 1 \in 1..Len(s)
  BY SliceOf
<1> HIDE DEF u
<1>4. v \in Seq(T) /\ Len(v) = k /\ \A i \in 1..k : v[i] = u[a + i - 1]
  <2>1. ASSUME NEW r \in Seq(T), NEW c \in 1..(Len(r) + 1), NEW d \in 0..Len(r), c <= d + 1
        PROVE  /\ Slice(r, c, d) \in Seq(T) /\ Len(Slice(r, c, d)) = d + 1 - c
               /\ \A i \in 1..(d + 1 - c) : Slice(r, c, d)[i] = r[c + i - 1]
    BY <2>1, SliceOf, SMTT(30)
  <2>2. QED
    BY <1>1, <1>2, <2>1, Zenon
<1>5. \A i \in 1..Len(s) : u[i] = s[i]
  BY <1>1
<1> HIDE DEF v, w
<1>6. \A i \in 1..k : v[i] = w[i]
  BY <1>3, <1>4, <1>5
<1> HIDE DEF k
<1>7. v = w
  BY <1>2, <1>3, <1>4, <1>6, SeqEqual
<1>8. QED
  BY <1>7 DEF v, w, u

(* A part up to the end is followed by what follows.                       *)
LEMMA SliceToEnd ==
  ASSUME NEW T, NEW s \in Seq(T), NEW t \in Seq(T), NEW a \in 1..(Len(s) + 1)
  PROVE  Slice(s \o t, a, Len(s \o t)) = Slice(s, a, Len(s)) \o t
<1> DEFINE u == s \o t
           m == Len(s)
           n == Len(t)
           k == m + 1 - a
           v == Slice(u, a, m + n)
           w == Slice(s, a, m)
           x == w \o t
<1>1. /\ u \in Seq(T) /\ Len(u) = m + n /\ m \in Nat /\ n \in Nat
      /\ \A i \in 1..(m + n) : u[i] = IF i <= m THEN s[i] ELSE t[i - m]
  BY ConcatProperties
<1>2. k \in Nat /\ a \in 1..(m + n + 1) /\ m + n \in 0..(m + n) /\ a <= m + n + 1
      /\ m \in 0..m /\ a <= m + 1
  BY <1>1
<1>3. w \in Seq(T) /\ Len(w) = k /\ \A i \in 1..k : w[i] = s[a + i - 1]
  BY <1>2, SliceOf
<1> HIDE DEF u
<1>4. /\ v \in Seq(T) /\ Len(v) = m + n + 1 - a
      /\ \A i \in 1..(m + n + 1 - a) : v[i] = u[a + i - 1]
  <2>1. ASSUME NEW r \in Seq(T), NEW c \in 1..(Len(r) + 1), NEW d \in 0..Len(r), c <= d + 1
        PROVE  /\ Slice(r, c, d) \in Seq(T) /\ Len(Slice(r, c, d)) = d + 1 - c
               /\ \A i \in 1..(d + 1 - c) : Slice(r, c, d)[i] = r[c + i - 1]
    <3>1. /\ Slice(r, c, d) \in Seq(T) /\ Len(Slice(r, c, d)) = d + 1 - c
          /\ \A i \in 1..(d + 1 - c) : /\ Slice(r, c, d)[i] = r[c + i - 1]
                                       /\ c + i - 1 \in 1..Len(r)
      BY <2>1, SliceOf, Zenon
    <3>2. QED
      BY <3>1, Zenon
  <2>2. a \in 1..(Len(u) + 1) /\ m + n \in 0..Len(u)
    BY <1>1, <1>2
  <2>3. QED
    BY <1>1, <1>2, <2>1, <2>2, Zenon
<1>5. m + n + 1 - a = k + n /\ k + n \in Nat
  BY <1>1, <1>2
<1> HIDE DEF v, w
<1>6. /\ x \in Seq(T) /\ Len(x) = k + n
      /\ \A i \in 1..(k + n) : x[i] = IF i <= k THEN w[i] ELSE t[i - k]
  <2>1. /\ x \in Seq(T) /\ Len(x) = Len(w) + Len(t)
        /\ \A i \in 1..(Len(w) + Len(t)) : x[i] = IF i <= Len(w) THEN w[i] ELSE t[i - Len(w)]
    BY <1>3, ConcatProperties
  <2>2. QED
    BY <1>3, <2>1
<1> HIDE DEF x
<1>7. ASSUME NEW i \in 1..(k + n) PROVE v[i] = x[i]
  <2>1. v[i] = u[a + i - 1] /\ a + i - 1 \in 1..(m + n)
    BY <1>1, <1>2, <1>4, <1>5
  <2>2. CASE i <= k
    <3>1. a + i - 1 <= m /\ i \in 1..k
      BY <1>1, <2>2
    <3>2. QED
      BY <1>1, <1>3, <1>6, <2>1, <2>2, <3>1
  <2>3. CASE ~(i <= k)
    <3>1. ~(a + i - 1 <= m) /\ (a + i - 1) - m = i - k
      BY <1>1, <2>3
    <3>2. QED
      BY <1>1, <1>6, <2>1, <2>3, <3>1
  <2>4. QED
    BY <2>2, <2>3
<1>8. Len(v) = k + n
  BY <1>4, <1>5
<1> HIDE DEF k, m, n
<1>9. v = x
  BY <1>4, <1>5, <1>6, <1>7, <1>8, SeqEqual
<1>10. QED
  BY <1>1, <1>9 DEF v, w, x, u, m, n

-----------------------------------------------------------------------------
(* buildSessionContext() as a function of the path.                        *)
Compactions(path) == {i \in DOMAIN path : path[i].kind = "compaction"}
LastOf(S) == CHOOSE i \in S : \A j \in S : j <= i
KeptAt(path, last) == {i \in 1..(last - 1) : \E j \in 1..i : path[j].id = path[last].ref}

ContextAfter(path, last) ==
  <<path[last].id>> \o SpokenIds(Slice(path, last - Cardinality(KeptAt(path, last)), last - 1))
    \o SpokenIds(Slice(path, last + 1, Len(path)))

ContextOf(path) ==
  IF Compactions(path) = {} THEN SpokenIds(path)
  ELSE ContextAfter(path, LastOf(Compactions(path)))

(* The context of a leaf is that of its path.                              *)
LEMMA ContextIs == \A es, leaf : Context(es, leaf) = ContextOf(PathTo(es, leaf))
BY DEF Context, ContextOf, ContextAfter, Compactions, LastOf, KeptAt, Slice

(* Labels at the end of a path say nothing.                                *)
LEMMA SpokenBeforeLabels ==
  ASSUME NEW s \in Seq(Rooted), NEW t \in Seq(Rooted), \A i \in 1..Len(t) : t[i].kind = "label"
  PROVE  SpokenIds(s \o t) = SpokenIds(s)
<1>1. OfKinds(s \o t, Spoken) = OfKinds(s, Spoken)
  BY OfKindsBefore DEF Spoken
<1>2. QED
  BY <1>1 DEF SpokenIds

(* They do not change the context of the path either.                      *)
LEMMA ContextBeforeLabels ==
  ASSUME NEW s \in Seq(Rooted), NEW t \in Seq(Rooted), \A i \in 1..Len(t) : t[i].kind = "label"
  PROVE  ContextOf(s \o t) = ContextOf(s)
<1> DEFINE u == s \o t
           m == Len(s)
           C == Compactions(s)
<1>1. /\ u \in Seq(Rooted) /\ Len(u) = m + Len(t) /\ m \in Nat /\ Len(t) \in Nat
      /\ \A i \in 1..(m + Len(t)) : u[i] = IF i <= m THEN s[i] ELSE t[i - m]
      /\ DOMAIN s = 1..m /\ DOMAIN u = 1..(m + Len(t))
  BY ConcatProperties
<1>2. SpokenIds(u) = SpokenIds(s)
  BY SpokenBeforeLabels
<1>3. \A a \in 1..(m + 1) : \A b \in 0..m : a <= b + 1 => Slice(u, a, b) = Slice(s, a, b)
  BY SliceBefore
<1>4. \A a \in 1..(m + 1) :
        /\ Slice(u, a, Len(u)) = Slice(s, a, m) \o t
        /\ Slice(s, a, m) \in Seq(Rooted)
  <2> SUFFICES ASSUME NEW a \in 1..(m + 1)
               PROVE  /\ Slice(u, a, Len(u)) = Slice(s, a, m) \o t
                      /\ Slice(s, a, m) \in Seq(Rooted)
    OBVIOUS
  <2>1. m \in 0..m /\ a <= m + 1
    BY <1>1
  <2>2. QED
    BY <2>1, SliceToEnd, SliceOf
<1>5. \A a \in 1..(m + 1) : SpokenIds(Slice(u, a, Len(u))) = SpokenIds(Slice(s, a, m))
  BY <1>4, SpokenBeforeLabels
<1> HIDE DEF u
<1>6. \A i \in 1..m : u[i] = s[i]
  BY <1>1
<1>7. Compactions(u) = C
  <2>1. ASSUME NEW i \in 1..(m + Len(t)), u[i].kind = "compaction" PROVE i \in 1..m
    <3> SUFFICES ASSUME i \notin 1..m PROVE FALSE
      OBVIOUS
    <3>1. ~(i <= m) /\ i - m \in 1..Len(t)
      BY <1>1
    <3>2. u[i].kind = "label"
      BY <1>1, <3>1
    <3>3. QED
      BY <2>1, <3>2
  <2>2. \A i \in 1..m : i \in 1..(m + Len(t))
    BY <1>1
  <2>3. QED
    BY <1>1, <1>6, <2>1, <2>2 DEF Compactions
<1>8. ASSUME C = {} PROVE ContextOf(u) = ContextOf(s)
  BY <1>2, <1>7, <1>8 DEF ContextOf
<1>9. ASSUME C # {} PROVE ContextAfter(u, LastOf(C)) = ContextAfter(s, LastOf(C))
  <2> DEFINE last == LastOf(C)
             c == Cardinality(KeptAt(s, last))
  <2>1. last \in 1..m
    <3>1. C \in SUBSET (0..m)
      BY <1>1 DEF Compactions
    <3>2. \E i \in C : \A j \in C : j <= i
      BY <1>1, <1>9, <3>1, Largest
    <3>3. last \in C
      BY <3>2 DEF LastOf
    <3>4. QED
      BY <1>1, <3>3 DEF Compactions
  <2> HIDE DEF last
  <2>2. KeptAt(u, last) = KeptAt(s, last)
    <3>1. \A i \in 1..(last - 1) : \A j \in 1..i : u[j] = s[j]
      BY <1>1, <1>6, <2>1
    <3>2. u[last] = s[last]
      BY <1>6, <2>1
    <3>3. QED
      BY <3>1, <3>2 DEF KeptAt
  <2>3. c \in 0..(last - 1)
    <3>1. KeptAt(s, last) \in SUBSET (1..(last - 1))
      BY DEF KeptAt
    <3>2. last - 1 \in Nat /\ 1 \in Int
      BY <1>1, <2>1
    <3>3. IsFiniteSet(1..(last - 1)) /\ Cardinality(1..(last - 1)) = last - 1
      BY <3>2, FS_Interval
    <3>4. Cardinality(KeptAt(s, last)) <= last - 1 /\ IsFiniteSet(KeptAt(s, last))
      BY <3>1, <3>3, FS_Subset
    <3>5. Cardinality(KeptAt(s, last)) \in Nat
      BY <3>4, FS_CardinalityType
    <3>6. QED
      BY <3>2, <3>4, <3>5
  <2> HIDE DEF c
  <2>4. Slice(u, last - c, last - 1) = Slice(s, last - c, last - 1)
    <3>1. /\ last - c \in 1..(m + 1) /\ last - 1 \in 0..m
          /\ last - c <= (last - 1) + 1
      BY <1>1, <2>1, <2>3
    <3>2. QED
      BY <1>3, <3>1
  <2>5. SpokenIds(Slice(u, last + 1, Len(u))) = SpokenIds(Slice(s, last + 1, m))
    <3>1. last + 1 \in 1..(m + 1)
      BY <1>1, <2>1
    <3>2. QED
      BY <1>5, <3>1
  <2>6. u[last] = s[last]
    BY <1>6, <2>1
  <2>7. ContextAfter(u, last) = ContextAfter(s, last)
    BY <2>2, <2>4, <2>5, <2>6 DEF ContextAfter, c
  <2>8. QED
    BY <2>7 DEF last
<1>10. ContextOf(u) = ContextOf(s)
  <2>1. CASE C # {}
    <3>1. ContextOf(s) = ContextAfter(s, LastOf(C)) /\ ContextOf(u) = ContextAfter(u, LastOf(C))
      BY <1>7, <2>1 DEF ContextOf
    <3>2. QED
      BY <1>9, <2>1, <3>1
  <2>2. QED
    BY <1>8, <2>1
<1>11. QED
  BY <1>10 DEF u

(* A chain of entries, each the parent of the next, is its own path.       *)
LEMMA ChainIsPath ==
  ASSUME NEW n \in Nat, NEW b, Grown(b, n),
         \A i \in 1..Len(b) : i > 1 => b[i].parent = b[i - 1].id
  PROVE  PathTo(b, LastId(b)) = b
<1>1. /\ b \in Seq(Rooted) /\ Len(b) \in Nat /\ DOMAIN b = 1..Len(b)
      /\ \A i, j \in 1..Len(b) : i < j => b[i].id < b[j].id
      /\ \A i \in 1..Len(b) : b[i] \in Rooted
  BY DEF Grown
<1>2. \A i \in 1..Len(b) : /\ b[i].id \in Nat /\ b[i].id # 0
                           /\ b[i].parent \in Nat /\ b[i].parent < b[i].id
  BY <1>1 DEF Rooted
<1>3. ASSUME NEW i \in 1..Len(b) PROVE b[i].id \in IdsOf(b) /\ EntryOf(b, b[i].id) = b[i]
  <2>1. b[i].id \in IdsOf(b)
    BY <1>1 DEF IdsOf
  <2> DEFINE k == CHOOSE j \in DOMAIN b : b[j].id = b[i].id
  <2>2. k \in 1..Len(b) /\ b[k].id = b[i].id
    BY <1>1
  <2>3. EntryOf(b, b[i].id) = b[k]
    BY DEF EntryOf
  <2> HIDE DEF k
  <2>4. k = i
    BY <1>1, <1>2, <2>2
  <2>5. QED
    BY <2>1, <2>3, <2>4
<1>4. ASSUME NEW i \in 1..Len(b), i = 1 PROVE b[i].parent \notin IdsOf(b)
  <2>1. ASSUME NEW j \in 1..Len(b) PROVE b[j].id # b[i].parent
    <3>1. b[i].id <= b[j].id
      BY <1>1, <1>2, <1>4
    <3>2. QED
      BY <1>2, <3>1
  <2>2. QED
    BY <1>1, <2>1 DEF IdsOf
<1> DEFINE G == {k \in Nat : k \in 1..Len(b) => PathTo(b, b[k].id) = Upto(b, k)}
<1>5. \A k \in 0..Len(b) : /\ Upto(b, k) \in Seq(Rooted) /\ Len(Upto(b, k)) = k
                           /\ \A i \in 1..k : Upto(b, k)[i] = b[i]
  BY <1>1, UptoOf
<1>6. ASSUME NEW k \in 1..Len(b) PROVE Upto(b, k) = Append(Upto(b, k - 1), b[k])
  <2> DEFINE t == Upto(b, k)
             s == Upto(b, k - 1)
  <2>1. k \in 0..Len(b) /\ k - 1 \in 0..Len(b) /\ k - 1 \in Nat /\ (k - 1) + 1 = k
    BY <1>1
  <2>2. t \in Seq(Rooted) /\ Len(t) = k /\ \A i \in 1..k : t[i] = b[i]
    BY <1>5, <2>1
  <2>3. s \in Seq(Rooted) /\ Len(s) = k - 1 /\ \A i \in 1..(k - 1) : s[i] = b[i]
    BY <1>5, <2>1
  <2> HIDE DEF t, s
  <2>4. Lengthens(t, s, b[k])
    <3>1. t = [i \in 1..k |-> t[i]]
      BY <2>2
    <3>2. \A i \in 1..(k - 1) : t[i] = s[i]
      BY <2>1, <2>2, <2>3
    <3>3. QED
      BY <2>1, <2>2, <2>3, <3>1, <3>2 DEF Lengthens
  <2>5. t = Append(s, b[k])
    BY <1>1, <2>3, <2>4, IsAppend
  <2>6. QED
    BY <2>5 DEF t, s
<1>7. 0 \in G
  OBVIOUS
<1>8. ASSUME NEW k \in Nat, k \in G PROVE k + 1 \in G
  <2> SUFFICES ASSUME k + 1 \in 1..Len(b) PROVE PathTo(b, b[k + 1].id) = Upto(b, k + 1)
    OBVIOUS
  <2>1. PathTo(b, b[k + 1].id) = Append(PathTo(b, b[k + 1].parent), b[k + 1])
    BY <1>3, PathOfEntry
  <2>2. PathTo(b, b[k + 1].parent) = Upto(b, k)
    <3>1. CASE k = 0
      <4>1. b[k + 1].parent \notin IdsOf(b)
        BY <1>4, <3>1
      <4>2. PathTo(b, b[k + 1].parent) = <<>>
        BY <4>1, PathOfEntry
      <4>3. Upto(b, k) \in Seq(Rooted) /\ Len(Upto(b, k)) = 0
        BY <1>1, <1>5, <3>1
      <4> DEFINE z == Upto(b, k)
      <4>4. z \in Seq(Rooted) /\ Len(z) = 0
        BY <4>3
      <4> HIDE DEF z
      <4>5. z = <<>>
        BY <4>4
      <4>6. QED
        BY <4>2, <4>5 DEF z
    <3>2. CASE k # 0
      <4>1. k \in 1..Len(b) /\ k + 1 > 1 /\ (k + 1) - 1 = k
        BY <1>1, <3>2
      <4>2. b[k + 1].parent = b[k].id
        BY <4>1
      <4>3. QED
        BY <1>8, <4>1, <4>2
    <3>3. QED
      BY <3>1, <3>2
  <2>3. Upto(b, k + 1) = Append(Upto(b, k), b[k + 1])
    <3>1. (k + 1) - 1 = k
      OBVIOUS
    <3>2. QED
      BY <1>6, <3>1
  <2>4. QED
    BY <2>1, <2>2, <2>3
<1> HIDE DEF G
<1>9. Nat \subseteq G
  BY <1>7, <1>8, NumberInduction
<1>10. CASE b = <<>>
  <2>1. 0 \notin IdsOf(b)
    BY <1>1, <1>2 DEF IdsOf
  <2>2. QED
    BY <1>10, <2>1, PathOfEntry DEF LastId
<1>11. CASE b # <<>>
  <2>1. Len(b) \in 1..Len(b) /\ LastId(b) = b[Len(b)].id
    BY <1>1, <1>11 DEF LastId, Last
  <2>2. PathTo(b, b[Len(b)].id) = Upto(b, Len(b))
    BY <1>1, <1>9, <2>1 DEF G
  <2> DEFINE t == Upto(b, Len(b))
  <2>3. t \in Seq(Rooted) /\ Len(t) = Len(b) /\ \A i \in 1..Len(b) : t[i] = b[i]
    <3>1. Len(b) \in 0..Len(b)
      BY <1>1
    <3>2. QED
      BY <1>5, <3>1, Zenon
  <2> HIDE DEF t
  <2>4. t = b
    BY <1>1, <2>3, SeqEqual
  <2>5. QED
    BY <2>1, <2>2, <2>4 DEF t
<1>12. QED
  BY <1>10, <1>11

-----------------------------------------------------------------------------
(* The entries of a branch form a chain when the path has no labels.       *)
LEMMA PlainPath ==
  ASSUME nextId \in Nat, NEW es, Grown(es, nextId), NEW leaf \in IdsOf(es),
         IsPlain(PathTo(es, leaf))
  PROVE  /\ PathOf(es, leaf) = PathTo(es, leaf)
         /\ PathTo(es, leaf) \in Seq(Rooted) /\ PathTo(es, leaf) # <<>>
         /\ Linked(es, PathTo(es, leaf))
<1> DEFINE p == PathTo(es, leaf)
<1>1. leaf \in Nat
  BY IdsOfGrown
<1>2. Grown(p, leaf + 1) /\ Linked(es, p) /\ p # <<>>
  BY <1>1, PathIsGrown
<1>3. p \in Seq(Rooted)
  BY <1>2 DEF Grown
<1>4. \A i \in DOMAIN p : NotLabel(p[i])
  BY DEF IsPlain
<1> HIDE DEF p
<1>5. ASSUME NEW i \in 1..Len(p) PROVE p[i].kind \in Kinds \ LabelKinds
  <2>1. p[i] \in Rooted /\ NotLabel(p[i])
    BY <1>3, <1>4
  <2>2. QED
    BY <2>1 DEF Rooted, NotLabel
<1>6. OfKinds(p, Kinds \ LabelKinds) = p
  BY <1>3, <1>5, OfKindsAll
<1>7. QED
  BY <1>2, <1>3, <1>6 DEF PathOf, p

(* The branch is its own path, and its context that of the path.           *)
LEMMA BranchKeepsIt ==
  ASSUME nextId \in Nat, nextId # 0, NEW es, Grown(es, nextId), NEW leaf \in IdsOf(es),
         NEW labels, IsPlain(PathTo(es, leaf))
  PROVE  LET b == Branched(es, leaf, labels)
         IN  Context(b, LastId(b)) = Context(es, leaf)
<1> DEFINE p  == PathTo(es, leaf)
           ls == NewLabels(es, leaf, labels)
           c  == Cardinality(LabelledOn(es, leaf, labels))
           b  == Branched(es, leaf, labels)
           n  == nextId + Cardinality(NewIds(b))
<1>1. PathOf(es, leaf) = p /\ p \in Seq(Rooted) /\ p # <<>> /\ Linked(es, p)
  BY PlainPath
<1>2. b = p \o ls
  BY <1>1, BranchedIs
<1>3. /\ c \in Nat /\ ls \in Seq(Rooted) /\ Len(ls) = c
      /\ \A i \in 1..c : /\ ls[i].id = nextId + i - 1 /\ ls[i].kind = "label"
                         /\ ls[i].parent = NewParent(es, leaf, i)
  BY BranchShape
<1>4. \A i \in 1..c : NewParent(es, leaf, i) = IF i = 1 THEN LastId(p) ELSE nextId + i - 2
  BY <1>1 DEF NewParent
<1>5. n \in Nat /\ Grown(b, n)
  BY BranchInOrder
<1> HIDE DEF p, ls, c, n
<1>6. /\ Len(p) \in Nat /\ Len(p) >= 1 /\ Len(b) = Len(p) + c
      /\ \A i \in 1..(Len(p) + c) : b[i] = IF i <= Len(p) THEN p[i] ELSE ls[i - Len(p)]
  <2>1. Len(p) \in Nat /\ Len(p) >= 1
    BY <1>1
  <2>2. /\ Len(p \o ls) = Len(p) + Len(ls)
        /\ \A i \in 1..(Len(p) + Len(ls)) : (p \o ls)[i] = IF i <= Len(p) THEN p[i] ELSE ls[i - Len(p)]
    BY <1>1, <1>3, ConcatProperties
  <2>3. QED
    BY <1>2, <1>3, <2>1, <2>2
<1> HIDE DEF b
<1>7. ASSUME NEW i \in 1..Len(b), i > 1 PROVE b[i].parent = b[i - 1].id
  <2>1. CASE i <= Len(p)
    <3>1. i \in 1..Len(p) /\ i - 1 \in 1..Len(p) /\ i \in 1..(Len(p) + c) /\ i - 1 \in 1..(Len(p) + c)
      BY <1>3, <1>6, <1>7, <2>1
    <3>2. b[i] = p[i] /\ b[i - 1] = p[i - 1]
      BY <1>6, <3>1
    <3>3. QED
      BY <1>1, <1>7, <3>1, <3>2 DEF Linked
  <2>2. CASE i = Len(p) + 1
    <3>1. /\ i \in 1..(Len(p) + c) /\ i - 1 \in 1..(Len(p) + c) /\ ~(i <= Len(p))
          /\ i - Len(p) = 1 /\ i - 1 = Len(p) /\ 1 \in 1..c
      BY <1>3, <1>6, <2>2
    <3>2. b[i] = ls[1] /\ b[i - 1] = p[Len(p)]
      BY <1>6, <3>1
    <3>3. LastId(p) = p[Len(p)].id
      BY <1>1 DEF LastId, Last
    <3>4. ls[1].parent = LastId(p)
      BY <1>3, <1>4, <3>1
    <3>5. QED
      BY <3>2, <3>3, <3>4
  <2>3. CASE i > Len(p) + 1
    <3> DEFINE k == i - Len(p)
    <3>1. /\ i \in 1..(Len(p) + c) /\ i - 1 \in 1..(Len(p) + c)
          /\ ~(i <= Len(p)) /\ ~(i - 1 <= Len(p))
          /\ k \in 1..c /\ k # 1 /\ k - 1 \in 1..c /\ (i - 1) - Len(p) = k - 1
      BY <1>3, <1>6, <2>3
    <3> HIDE DEF k
    <3>2. b[i] = ls[k] /\ b[i - 1] = ls[k - 1]
      BY <1>6, <3>1 DEF k
    <3>3. ls[k].parent = nextId + k - 2 /\ ls[k - 1].id = nextId + (k - 1) - 1
      BY <1>3, <1>4, <3>1
    <3>4. QED
      BY <3>1, <3>2, <3>3
  <2>4. QED
    BY <1>6, <2>1, <2>2, <2>3
<1>8. PathTo(b, LastId(b)) = b
  BY <1>5, <1>7, ChainIsPath
<1>9. ContextOf(b) = ContextOf(p)
  BY <1>1, <1>2, <1>3, ContextBeforeLabels
<1>10. Context(b, LastId(b)) = Context(es, leaf)
  BY <1>8, <1>9, ContextIs DEF p
<1>11. QED
  BY <1>10 DEF b

(* createBranchedSession() keeps the conversation the model sees, whatever *)
(* entries of the branch carry labels, if no label entry is on the path.   *)
THEOREM BranchesKeepContext == Spec => []PlainBranchKeepsContext
<1>1. TypeInv => PlainBranchKeepsContext
  <2> SUFFICES ASSUME TypeInv, NEW id \in IdsOf(fileEntries), IsPlain(PathTo(fileEntries, id))
               PROVE  BranchKeeps(id)
    BY DEF PlainBranchKeepsContext
  <2>1. QED
    BY TypeFacts, BranchKeepsIt DEF BranchKeeps
<1>2. QED
  BY TypeInit, TypeStep, <1>1, PTL DEF Spec

-----------------------------------------------------------------------------
(* The disk holds exactly the files that can be named, and the current     *)
(* session is one of them.                                                 *)
Named == /\ disk = [f \in Files |-> disk[f]]
         /\ sessionFile \in Files

(* Each file is what rewriteFile() would write of some entries.            *)
Whole == \A f \in Files : disk[f].exists => disk[f] = Rewritten(disk[f].entries)

(* Nothing is missing from the file of a flushed session, and a session    *)
(* with an answer is flushed.                                              *)
Current ==
  /\ flushed => disk[sessionFile] = Rewritten(fileEntries)
  /\ HasAssistant(fileEntries) => flushed

DurableInv == Named /\ Whole /\ Current /\ FileWaitsForAssistant

-----------------------------------------------------------------------------
(* Without faults a write happens, in full, or the operation has not.      *)
LEMMA WriteSucceeds ==
  ASSUME Faults = {}, NEW f, NEW whole, NEW cuts, NEW ok, Write(f, whole, cuts, ok)
  PROVE  /\ disk' = [disk EXCEPT ![f] = whole]
         /\ ok /\ UNCHANGED <<alive, crashes>>
BY DEF Write

(* What a reader loads of a rewritten file, and what a line adds to it.    *)
LEMMA RewrittenFile ==
  ASSUME NEW es, NEW e
  PROVE  /\ Rewritten(es).exists /\ Rewritten(es).header
         /\ Rewritten(es).entries = es
         /\ Loaded(Rewritten(es)) = es
         /\ Added(Rewritten(es), e) = Rewritten(Append(es, e))
BY DEF Rewritten, File, Loaded, Added

(* A step that puts a whole file with an answer, or one a caller asked     *)
(* for, in the place of one file keeps all the files whole.                *)
LEMMA ReplacingAFile ==
  ASSUME Named, Whole, FileWaitsForAssistant,
         NEW g \in Files, NEW es,
         disk' = [disk EXCEPT ![g] = Rewritten(es)],
         sessionFile' \in Files,
         ensured \subseteq ensured',
         HasAssistant(es) \/ g \in ensured'
  PROVE  /\ Named' /\ Whole' /\ FileWaitsForAssistant'
         /\ disk'[g] = Rewritten(es)
<1>1. disk'[g] = Rewritten(es) /\ \A f \in Files \ {g} : disk'[f] = disk[f]
  BY DEF Named
<1>2. Named'
  BY DEF Named
<1>3. Whole'
  BY <1>1, RewrittenFile DEF Whole
<1>4. FileWaitsForAssistant'
  BY <1>1, RewrittenFile DEF FileWaitsForAssistant
<1>5. QED
  BY <1>1, <1>2, <1>3, <1>4

(* A step that leaves the files as they are keeps them whole.              *)
LEMMA LeavingTheFiles ==
  ASSUME Named, Whole, FileWaitsForAssistant,
         UNCHANGED disk, sessionFile' \in Files, ensured \subseteq ensured'
  PROVE  Named' /\ Whole' /\ FileWaitsForAssistant'
BY DEF Named, Whole, FileWaitsForAssistant

-----------------------------------------------------------------------------
(* persistEntry: whichever of its three branches is taken, the session is  *)
(* as durable with the new entry as it was before.                         *)
LEMMA PersistKeeps ==
  ASSUME Faults = {}, DurableInv, alive, NEW e, NEW ok,
         PersistEntry(Append(fileEntries, e), e, ok),
         fileEntries' = Append(fileEntries, e),
         UNCHANGED <<sessionFile, ensured>>
  PROVE  DurableInv'
<1> DEFINE es == Append(fileEntries, e)
<1>1. sessionFile' \in Files /\ sessionFile \in Files /\ ensured \subseteq ensured'
  BY DEF DurableInv, Named
<1>2. CASE ~HasAssistant(es)
  <2>1. UNCHANGED <<disk, alive>> /\ flushed' = FALSE
    BY <1>2 DEF PersistEntry, NoWrite
  <2>2. Current'
    BY <2>1, <1>2 DEF Current
  <2>3. QED
    BY <1>1, <2>1, <2>2, LeavingTheFiles DEF DurableInv
<1>3. CASE HasAssistant(es) /\ ~flushed
  <2>1. WriteAll(sessionFile, es, ok) /\ flushed' = ok
    BY <1>3 DEF PersistEntry
  <2>2. disk' = [disk EXCEPT ![sessionFile] = Rewritten(es)] /\ ok /\ UNCHANGED alive
    <3>1. Write(sessionFile, Rewritten(es), RewriteCut(es), ok)
      BY <2>1 DEF WriteAll
    <3>2. QED
      BY <3>1 DEF Write
  <2>3. /\ Named' /\ Whole' /\ FileWaitsForAssistant'
        /\ disk'[sessionFile] = Rewritten(es)
    BY <1>1, <1>3, <2>2, ReplacingAFile DEF DurableInv
  <2>4. Current'
    BY <2>1, <2>2, <2>3 DEF Current
  <2>5. QED
    BY <2>3, <2>4 DEF DurableInv
<1>4. CASE HasAssistant(es) /\ flushed
  <2>1. WriteLine(e, ok) /\ UNCHANGED flushed
    BY <1>4 DEF PersistEntry
  <2>2. Added(disk[sessionFile], e) = Rewritten(es)
    BY <1>4, RewrittenFile DEF DurableInv, Current
  <2>3. disk' = [disk EXCEPT ![sessionFile] = Rewritten(es)] /\ ok /\ UNCHANGED alive
    <3>1. Write(sessionFile, Rewritten(es), AddCut(disk[sessionFile], e), ok)
      BY <2>1, <2>2 DEF WriteLine
    <3>2. QED
      BY <3>1 DEF Write
  <2>4. /\ Named' /\ Whole' /\ FileWaitsForAssistant'
        /\ disk'[sessionFile] = Rewritten(es)
    BY <1>1, <1>4, <2>3, ReplacingAFile DEF DurableInv
  <2>5. Current'
    BY <1>4, <2>1, <2>3, <2>4 DEF Current
  <2>6. QED
    BY <2>4, <2>5 DEF DurableInv
<1>5. QED
  BY <1>2, <1>3, <1>4

(* Every appendXXX() goes through appendEntry.                             *)
LEMMA AppendKeeps ==
  ASSUME Faults = {}, DurableInv, NEW kind, NEW parent, NEW ref, NEW ok,
         AppendEntry(kind, parent, ref, ok)
  PROVE  DurableInv'
BY PersistKeeps DEF AppendEntry

-----------------------------------------------------------------------------
(* Nothing is on file at the start, and nothing needs to be.               *)
LEMMA InitDurable == Init => DurableInv
<1> SUFFICES ASSUME Init PROVE DurableInv
  OBVIOUS
<1>1. Named
  BY SessionAssumption DEF Init, Named
<1>2. Whole /\ FileWaitsForAssistant
  BY DEF Init, Whole, FileWaitsForAssistant, NoFile
<1>3. ~HasAssistant(fileEntries)
  BY DEF Init, HasAssistant
<1>4. QED
  BY <1>1, <1>2, <1>3 DEF DurableInv, Current, Init

(* Every step keeps answered sessions on file.                             *)
LEMMA NextDurable ==
  ASSUME Faults = {}, DurableInv, [Next]_vars
  PROVE  DurableInv'
<1> USE DEF DurableInv
<1>0. /\ sessionFile \in Files
      /\ \A f \in Files : disk[f].exists => disk[f].header
  BY RewrittenFile DEF Named, Whole
<1>1. ASSUME NEW ok \in BOOLEAN, AppendStep(ok) PROVE DurableInv'
  BY <1>1, AppendKeeps DEF AppendStep, AppendPlain, AppendLabelChange, AppendCompaction,
                           BranchWithSummary
<1>2. ASSUME NEW ok \in BOOLEAN, NEW id \in IdsOf(fileEntries), CreateBranchedSession(id, ok)
      PROVE  DurableInv'
  <2> DEFINE es == Branched(fileEntries, id, labelsById)
  <2>1. PICK f \in Unused :
          /\ Index(f, es)
          /\ IF HasAssistant(es)
             THEN WriteAll(f, es, ok) /\ flushed' = (flushed \/ ok)
             ELSE NoWrite(ok) /\ flushed' = FALSE
    BY <1>2 DEF CreateBranchedSession
  <2>2. f \in Files /\ fileEntries' = es /\ sessionFile' = f /\ ensured \subseteq ensured'
    BY <1>2, <2>1 DEF Unused, Index, CreateBranchedSession
  <2>3. CASE HasAssistant(es)
    <3>1. disk' = [disk EXCEPT ![f] = Rewritten(es)] /\ ok /\ flushed'
      BY <2>1, <2>3, WriteSucceeds DEF WriteAll
    <3>2. /\ Named' /\ Whole' /\ FileWaitsForAssistant'
          /\ disk'[f] = Rewritten(es)
      BY <2>2, <2>3, <3>1, ReplacingAFile
    <3>3. QED
      BY <2>2, <3>1, <3>2 DEF Current
  <2>4. CASE ~HasAssistant(es)
    <3>1. UNCHANGED disk /\ ~flushed'
      BY <2>1, <2>4 DEF NoWrite
    <3>2. Named' /\ Whole' /\ FileWaitsForAssistant'
      BY <2>2, <3>1, LeavingTheFiles
    <3>3. QED
      BY <2>2, <2>4, <3>1, <3>2 DEF Current
  <2>5. QED
    BY <2>3, <2>4
<1>3. ASSUME NEW ok \in BOOLEAN, NEW id \in IdsOf(fileEntries), Fork(id, ok)
      PROVE  DurableInv'
  <2> DEFINE source == Loaded(disk[sessionFile])
             es     == Branched(source, id, LabelsOf(source))
  <2>1. PICK f \in Unused :
          \/ /\ HasAssistant(es) /\ WriteAll(f, es, ok)
             /\ IF ok THEN Index(f, es) /\ flushed' = TRUE ELSE UNCHANGED memory
          \/ /\ ~HasAssistant(es) /\ NoWrite(ok)
             /\ EmptySession(f) /\ flushed' = FALSE
    BY <1>3 DEF Fork
  <2>2. f \in Files /\ ensured \subseteq ensured'
    BY <1>3 DEF Unused, Fork
  <2>3. CASE HasAssistant(es)
    <3>1. disk' = [disk EXCEPT ![f] = Rewritten(es)] /\ ok /\ flushed'
      BY <2>1, <2>3, WriteSucceeds DEF WriteAll
    <3>2. fileEntries' = es /\ sessionFile' = f
      BY <2>1, <2>3, <3>1 DEF Index
    <3>3. /\ Named' /\ Whole' /\ FileWaitsForAssistant'
          /\ disk'[f] = Rewritten(es)
      BY <2>2, <2>3, <3>1, <3>2, ReplacingAFile
    <3>4. QED
      BY <3>1, <3>2, <3>3 DEF Current
  <2>4. CASE ~HasAssistant(es)
    <3>1. UNCHANGED disk /\ ~flushed' /\ fileEntries' = <<>> /\ sessionFile' = f
      BY <2>1, <2>4 DEF NoWrite, EmptySession
    <3>2. Named' /\ Whole' /\ FileWaitsForAssistant'
      BY <2>2, <3>1, LeavingTheFiles
    <3>3. ~HasAssistant(fileEntries')
      BY <3>1 DEF HasAssistant
    <3>4. QED
      BY <3>1, <3>2, <3>3 DEF Current
  <2>5. QED
    BY <2>3, <2>4
<1>4. ASSUME NEW ok \in BOOLEAN, EnsureSessionFileWritten(ok) PROVE DurableInv'
  <2>1. /\ disk' = [disk EXCEPT ![sessionFile] = Rewritten(fileEntries)] /\ ok
        /\ flushed' /\ UNCHANGED <<fileEntries, sessionFile>>
        /\ ensured \subseteq ensured'
        /\ HasAssistant(fileEntries) \/ sessionFile \in ensured'
    BY <1>4, WriteSucceeds DEF EnsureSessionFileWritten, WriteAll
  <2>2. /\ Named' /\ Whole' /\ FileWaitsForAssistant'
        /\ disk'[sessionFile] = Rewritten(fileEntries)
    BY <1>0, <2>1, ReplacingAFile
  <2>3. QED
    BY <2>1, <2>2 DEF Current
<1>5. ASSUME NEW f \in Files, Open(f) PROVE DurableInv'
  <2>1. /\ disk[f].exists /\ Index(f, disk[f].entries)
        /\ flushed' = TRUE /\ UNCHANGED <<disk, ensured>>
    BY <1>0, <1>5 DEF Open, Damaged
  <2>2. fileEntries' = disk[f].entries /\ sessionFile' = f
    BY <2>1 DEF Index
  <2>3. Named' /\ Whole' /\ FileWaitsForAssistant'
    BY <2>1, <2>2, LeavingTheFiles
  <2>4. QED
    BY <2>1, <2>2, <2>3 DEF Whole, Current
<1>6. ASSUME NewSession PROVE DurableInv'
  <2>1. /\ UNCHANGED <<disk, ensured>> /\ sessionFile' \in Files
        /\ ~flushed' /\ fileEntries' = <<>>
    BY <1>6 DEF NewSession, EmptySession, Unused
  <2>2. ~HasAssistant(fileEntries')
    BY <2>1 DEF HasAssistant
  <2>3. Named' /\ Whole' /\ FileWaitsForAssistant'
    BY <2>1, LeavingTheFiles
  <2>4. QED
    BY <2>1, <2>2, <2>3 DEF Current
<1>7. ASSUME UNCHANGED <<fileEntries, flushed, sessionFile, disk, ensured>>, alive' => alive
      PROVE  DurableInv'
  <2>1. Named' /\ Whole' /\ FileWaitsForAssistant'
    BY <1>0, <1>7, LeavingTheFiles
  <2>2. QED
    BY <1>7, <2>1 DEF Current
<1>8. CASE \/ \E id \in IdsOf(fileEntries) : Branch(id)
           \/ ResetLeaf \/ Crash \/ UNCHANGED vars
  BY <1>7, <1>8 DEF Branch, ResetLeaf, Crash, vars, memory
<1>9. ASSUME NEW ok, ForkOfDamaged(ok) PROVE FALSE
  BY <1>0, <1>9 DEF ForkOfDamaged, Damaged
<1>10. QED
  BY <1>1, <1>2, <1>3, <1>4, <1>5, <1>6, <1>8, <1>9 DEF Next

(* While no write is cut, a flushed session is its file and one with an    *)
(* answer is flushed: persistEntry's three branches, branch extraction,    *)
(* forks, reopening and crashes between operations included.               *)
THEOREM FlushedSessions ==
  ASSUME Faults = {} PROVE Spec => []FlushedIsFile
<1>1. DurableInv => FlushedIsFile
  BY DEF DurableInv, Whole, Current, FlushedIsFile
<1>2. QED
  BY <1>1, InitDurable, NextDurable, PTL DEF Spec

(* Every entry of a session with an answer is on file, in order: opening   *)
(* the file of a process that ended gives the session back.                *)
THEOREM Durability ==
  ASSUME Faults = {} PROVE Spec => []AnsweredIsDurable
<1>1. DurableInv => AnsweredIsDurable
  BY RewrittenFile DEF DurableInv, Current, AnsweredIsDurable
<1>2. QED
  BY <1>1, InitDurable, NextDurable, PTL DEF Spec

(* A session nobody answered leaves no file behind, unless a caller asked  *)
(* for it.                                                                 *)
THEOREM NoFileBeforeAnAnswer ==
  ASSUME Faults = {} PROVE Spec => []FileWaitsForAssistant
<1>1. DurableInv => FileWaitsForAssistant
  BY DEF DurableInv
<1>2. QED
  BY <1>1, InitDurable, NextDurable, PTL DEF Spec

-----------------------------------------------------------------------------
(* A sequence is a prefix of itself and of what is appended to it.         *)
LEMMA PrefixOfSelf ==
  ASSUME NEW T, NEW s \in Seq(T)
  PROVE  IsPrefix(s, s) /\ IsPrefix(<<>>, s)
<1>1. Len(s) <= Len(s) /\ Len(s) \in Nat
  OBVIOUS
<1>2. IsPrefix(s, s)
  BY <1>1 DEF IsPrefix
<1> DEFINE z == <<>>
<1>3. Len(z) = 0 /\ z \in Seq(T)
  OBVIOUS
<1>4. SubSeq(z, 1, 0) = <<>> /\ SubSeq(s, 1, 0) = <<>>
  BY <1>3
<1> HIDE DEF z
<1>5. IsPrefix(z, s)
  BY <1>1, <1>3, <1>4 DEF IsPrefix
<1>6. QED
  BY <1>2, <1>5 DEF z

(* What a sequence starts with, a longer one does too.                     *)
LEMMA PrefixGrows ==
  ASSUME NEW T, NEW s \in Seq(T), NEW t \in Seq(T), NEW x \in T, IsPrefix(s, t)
  PROVE  IsPrefix(s, Append(t, x))
<1> DEFINE u == Append(t, x)
<1>1. /\ Len(s) \in Nat /\ Len(t) \in Nat /\ u \in Seq(T) /\ Len(u) = Len(t) + 1
      /\ \A i \in 1..Len(t) : u[i] = t[i]
  OBVIOUS
<1>2. Len(s) <= Len(t) /\ Upto(s, Len(s)) = Upto(t, Len(s))
  BY DEF IsPrefix, Upto
<1> HIDE DEF u
<1>3. Upto(u, Len(s)) = Upto(t, Len(s))
  <2> DEFINE a == Upto(u, Len(s))
             b == Upto(t, Len(s))
  <2>1. Len(s) \in 0..Len(t) /\ Len(s) \in 0..Len(u)
    BY <1>1, <1>2
  <2>2. \A r \in Seq(T) : \A k \in 0..Len(r) :
          /\ Upto(r, k) \in Seq(T) /\ Len(Upto(r, k)) = k
          /\ \A i \in 1..k : Upto(r, k)[i] = r[i]
    BY UptoOf
  <2>3. a \in Seq(T) /\ Len(a) = Len(s) /\ \A i \in 1..Len(s) : a[i] = u[i]
    BY <1>1, <2>1, <2>2, Zenon
  <2>4. b \in Seq(T) /\ Len(b) = Len(s) /\ \A i \in 1..Len(s) : b[i] = t[i]
    BY <2>1, <2>2, Zenon
  <2> HIDE DEF a, b
  <2>5. \A i \in 1..Len(s) : a[i] = b[i]
    BY <1>1, <1>2, <2>3, <2>4
  <2>6. a = b
    BY <2>3, <2>4, <2>5, SeqEqual
  <2>7. QED
    BY <2>6 DEF a, b
<1>4. Len(s) <= Len(u)
  BY <1>1, <1>2
<1>5. IsPrefix(s, u)
  BY <1>2, <1>3, <1>4 DEF IsPrefix, Upto
<1>6. QED
  BY <1>5 DEF u

(* What a file was written with before it is the whole session: the        *)
(* session has only grown since.                                           *)
StartsSession == IsPrefix(Loaded(disk[sessionFile]), fileEntries)

KeepInv == TypeInv /\ DurableInv /\ Absent /\ StartsSession

(* Files only grow in this step.                                           *)
FilesGrow == \A f \in Files : IsPrefix(Loaded(disk[f]), Loaded(disk'[f]))

(* What the invariant says of the files.                                   *)
LEMMA KeepFacts ==
  ASSUME KeepInv
  PROVE  /\ sessionFile \in Files /\ disk = [f \in Files |-> disk[f]]
         /\ fileEntries \in Seq(Rooted)
         /\ \A f \in Files : /\ Loaded(disk[f]) \in Seq(Rooted)
                             /\ disk[f].exists => disk[f] = Rewritten(disk[f].entries)
                             /\ ~disk[f].exists => Loaded(disk[f]) = <<>>
         /\ ~\E f \in Files : Damaged(f)
<1>1. nextId \in Nat /\ Grown(fileEntries, nextId) /\ \A f \in Files : FileOK(disk[f], nextId)
  BY TypeFacts DEF KeepInv
<1>2. fileEntries \in Seq(Rooted) /\ \A f \in Files : Loaded(disk[f]) \in Seq(Rooted)
  BY <1>1, LoadedIsGrown DEF Grown
<1>3. \A f \in Files : disk[f].exists => disk[f] = Rewritten(disk[f].entries)
  BY DEF KeepInv, DurableInv, Whole
<1>4. ~\E f \in Files : Damaged(f)
  BY <1>3, RewrittenFile DEF Damaged
<1>5. \A f \in Files : ~disk[f].exists => Loaded(disk[f]) = <<>>
  BY DEF KeepInv, Absent, Loaded
<1>6. QED
  BY <1>2, <1>3, <1>4, <1>5 DEF KeepInv, DurableInv, Named

(* A file is replaced by one with more entries; the others stay.           *)
LEMMA ReplacedGrows ==
  ASSUME KeepInv, NEW f \in Files, NEW es \in Seq(Rooted), IsPrefix(Loaded(disk[f]), es),
         disk' = [disk EXCEPT ![f] = Rewritten(es)]
  PROVE  FilesGrow /\ Absent' /\ Loaded(disk'[f]) = es
<1>1. disk'[f] = Rewritten(es) /\ \A g \in Files \ {f} : disk'[g] = disk[g]
  BY KeepFacts
<1>2. Loaded(disk'[f]) = es /\ disk'[f].exists
  BY <1>1, RewrittenFile
<1>3. \A g \in Files \ {f} : IsPrefix(Loaded(disk[g]), Loaded(disk'[g]))
  BY <1>1, KeepFacts, PrefixOfSelf
<1>4. FilesGrow
  BY <1>2, <1>3 DEF FilesGrow
<1>5. Absent'
  BY <1>1, <1>2 DEF KeepInv, Absent
<1>6. QED
  BY <1>2, <1>4, <1>5

(* Files that stay as they are have not shrunk.                            *)
LEMMA UnchangedGrow ==
  ASSUME KeepInv, UNCHANGED disk
  PROVE  FilesGrow /\ Absent'
<1>1. \A f \in Files : IsPrefix(Loaded(disk[f]), Loaded(disk[f]))
  BY KeepFacts, PrefixOfSelf
<1>2. QED
  BY <1>1 DEF FilesGrow, KeepInv, Absent

(* An append only lengthens the file of the session.                       *)
LEMMA AppendGrows ==
  ASSUME Faults = {}, KeepInv, NEW kind \in Kinds, NEW parent \in IdsOf(fileEntries) \cup {0},
         NEW ref \in IdsOf(fileEntries) \cup {0}, kind \in LabelKinds => ref # 0,
         NEW ok, AppendEntry(kind, parent, ref, ok)
  PROVE  FilesGrow /\ Absent' /\ StartsSession'
<1> DEFINE e  == Entry(nextId, parent, kind, ref)
           es == Append(fileEntries, e)
<1>1. fileEntries' = es /\ sessionFile' = sessionFile /\ PersistEntry(es, e, ok)
  BY DEF AppendEntry
<1>2. e \in Rooted
  BY NewIsRooted DEF KeepInv
<1> HIDE DEF e
<1>3. es \in Seq(Rooted) /\ IsPrefix(Loaded(disk[sessionFile]), es)
  BY <1>2, KeepFacts, PrefixGrows DEF KeepInv, StartsSession
<1>4. CASE ~HasAssistant(es)
  <2>1. UNCHANGED disk
    BY <1>1, <1>4 DEF PersistEntry, NoWrite
  <2>2. StartsSession'
    BY <1>1, <1>3, <2>1 DEF StartsSession
  <2>3. QED
    BY <2>1, <2>2, UnchangedGrow
<1>5. CASE HasAssistant(es)
  <2>1. disk' = [disk EXCEPT ![sessionFile] = Rewritten(es)]
    <3>1. CASE ~flushed
      <4>1. Write(sessionFile, Rewritten(es), RewriteCut(es), ok)
        BY <1>1, <1>5, <3>1 DEF PersistEntry, WriteAll
      <4>2. QED
        BY <4>1 DEF Write
    <3>2. CASE flushed
      <4>1. disk[sessionFile] = Rewritten(fileEntries)
        BY <3>2 DEF KeepInv, DurableInv, Current
      <4>2. Added(disk[sessionFile], e) = Rewritten(es)
        BY <4>1, RewrittenFile
      <4>3. Write(sessionFile, Rewritten(es), AddCut(disk[sessionFile], e), ok)
        BY <1>1, <1>5, <3>2, <4>2 DEF PersistEntry, WriteLine
      <4>4. QED
        BY <4>3 DEF Write
    <3>3. QED
      BY <3>1, <3>2
  <2> HIDE DEF es
  <2>2. FilesGrow /\ Absent' /\ Loaded(disk'[sessionFile]) = es
    BY <1>3, <2>1, KeepFacts, ReplacedGrows
  <2>3. IsPrefix(es, es)
    BY <1>3, PrefixOfSelf
  <2>4. StartsSession'
    BY <1>1, <2>2, <2>3 DEF StartsSession
  <2>5. QED
    BY <2>2, <2>4
<1>6. QED
  BY <1>4, <1>5

(* A session in a file of its own.                                         *)
LEMMA NewGrows ==
  ASSUME Faults = {}, KeepInv, NEW f \in Unused, NEW es \in Seq(Rooted), NEW ok,
         WriteAll(f, es, ok) \/ NoWrite(ok)
  PROVE  FilesGrow /\ Absent' /\ IsPrefix(Loaded(disk'[f]), es)
<1>1. f \in Files /\ Loaded(disk[f]) = <<>>
  BY KeepFacts DEF Unused
<1>2. IsPrefix(<<>>, es) /\ IsPrefix(es, es)
  BY PrefixOfSelf
<1>3. CASE WriteAll(f, es, ok)
  <2>1. disk' = [disk EXCEPT ![f] = Rewritten(es)]
    BY <1>3, WriteSucceeds DEF WriteAll
  <2>2. FilesGrow /\ Absent' /\ Loaded(disk'[f]) = es
    BY <1>1, <1>2, <2>1, ReplacedGrows
  <2>3. QED
    BY <1>2, <2>2
<1>4. CASE NoWrite(ok)
  <2>1. UNCHANGED disk
    BY <1>4 DEF NoWrite
  <2>2. QED
    BY <1>1, <1>2, <2>1, UnchangedGrow
<1>5. QED
  BY <1>3, <1>4

(* A branch is written to a file that nobody has read.                     *)
LEMMA BranchGrows ==
  ASSUME Faults = {}, KeepInv, NEW source, Grown(source, nextId), NEW leaf \in IdsOf(source),
         NEW labels, NEW f \in Unused, NEW ok,
         WriteAll(f, Branched(source, leaf, labels), ok) \/ NoWrite(ok)
  PROVE  FilesGrow /\ Absent' /\ IsPrefix(Loaded(disk'[f]), Branched(source, leaf, labels))
<1> DEFINE es == Branched(source, leaf, labels)
           n  == nextId + Cardinality(NewIds(es))
<1>1. n \in Nat /\ Grown(es, n)
  BY TypeFacts, BranchInOrder DEF KeepInv
<1>2. es \in Seq(Rooted)
  BY <1>1 DEF Grown
<1> HIDE DEF es
<1>3. FilesGrow /\ Absent' /\ IsPrefix(Loaded(disk'[f]), es)
  BY <1>2, NewGrows DEF es
<1>4. QED
  BY <1>3 DEF es

(* Every step keeps the files whole and what they held.                    *)
LEMMA StepGrows ==
  ASSUME Faults = {}, KeepInv, [Next]_vars
  PROVE  KeepInv' /\ FilesGrow
<1> DEFINE Goal == FilesGrow /\ Absent' /\ StartsSession'
<1>0. TypeInv' /\ DurableInv'
  BY TypeStep, NextDurable DEF KeepInv
<1>00. /\ sessionFile \in Files /\ fileEntries \in Seq(Rooted)
       /\ nextId \in Nat /\ Grown(fileEntries, nextId) /\ leafId \in IdsOf(fileEntries) \cup {0}
       /\ \A s \in Seq(Rooted) : IsPrefix(s, s) /\ IsPrefix(<<>>, s)
  BY KeepFacts, TypeFacts, PrefixOfSelf DEF KeepInv
<1>1. ASSUME NEW ok \in BOOLEAN, AppendStep(ok) PROVE Goal
  <2>0. Appends \subseteq Kinds /\ {"summary", "compaction"} \subseteq Kinds \ LabelKinds
    BY SessionAssumption DEF Kinds, LabelKinds
  <2>1. \E kind \in Kinds, parent \in IdsOf(fileEntries) \cup {0},
           ref \in IdsOf(fileEntries) \cup {0} :
           (kind \in LabelKinds => ref # 0) /\ AppendEntry(kind, parent, ref, ok)
    <3>1. ASSUME NEW kind \in Plain, AppendPlain(kind, ok)
          PROVE  kind \in Kinds /\ kind \notin LabelKinds /\ AppendEntry(kind, leafId, 0, ok)
      BY <2>0, <3>1 DEF Plain, AppendPlain
    <3>2. ASSUME NEW id \in IdsOf(fileEntries), NEW kind \in Appends \cap LabelKinds,
                 AppendLabelChange(id, kind, ok)
          PROVE  kind \in Kinds /\ id # 0 /\ AppendEntry(kind, leafId, id, ok)
      BY <1>00, <2>0, <3>2, IdsOfGrown DEF AppendLabelChange
    <3>3. ASSUME NEW id \in IdsOf(fileEntries), AppendCompaction(id, ok)
          PROVE  AppendEntry("compaction", leafId, id, ok)
      BY <3>3 DEF AppendCompaction
    <3>4. ASSUME NEW from \in IdsOf(fileEntries) \cup {0}, BranchWithSummary(from, ok)
          PROVE  AppendEntry("summary", from, 0, ok)
      BY <3>4 DEF BranchWithSummary
    <3>5. QED
      BY <1>00, <1>1, <2>0, <3>1, <3>2, <3>3, <3>4 DEF AppendStep
  <2>2. QED
    BY <2>1, AppendGrows
<1>2. ASSUME NEW ok \in BOOLEAN, NEW id \in IdsOf(fileEntries), CreateBranchedSession(id, ok)
      PROVE  Goal
  <2> DEFINE es == Branched(fileEntries, id, labelsById)
  <2>1. PICK f \in Unused : Index(f, es) /\ (WriteAll(f, es, ok) \/ NoWrite(ok))
    BY <1>2 DEF CreateBranchedSession
  <2>2. FilesGrow /\ Absent' /\ IsPrefix(Loaded(disk'[f]), es)
    BY <1>00, <2>1, BranchGrows
  <2> HIDE DEF es
  <2>3. StartsSession'
    BY <2>1, <2>2 DEF StartsSession, Index
  <2>4. QED
    BY <2>2, <2>3
<1>3. ASSUME NEW ok \in BOOLEAN, NEW id \in IdsOf(fileEntries), Fork(id, ok) PROVE Goal
  <2> DEFINE source == Loaded(disk[sessionFile])
             es     == Branched(source, id, LabelsOf(source))
  <2>1. PICK f \in Unused :
          \/ /\ HasAssistant(es) /\ WriteAll(f, es, ok)
             /\ IF ok THEN Index(f, es) /\ flushed' = TRUE ELSE UNCHANGED memory
          \/ /\ ~HasAssistant(es) /\ NoWrite(ok)
             /\ EmptySession(f) /\ flushed' = FALSE
    BY <1>3 DEF Fork
  <2>2. Grown(source, nextId) /\ id \in IdsOf(source)
    BY <1>00, <1>3, TypeFacts, LoadedIsGrown DEF Fork, KeepInv
  <2>3. FilesGrow /\ Absent' /\ IsPrefix(Loaded(disk'[f]), es)
    BY <2>1, <2>2, BranchGrows
  <2> HIDE DEF es
  <2>4. CASE Index(f, es)
    BY <2>3, <2>4 DEF StartsSession, Index
  <2>5. CASE NoWrite(ok) /\ EmptySession(f)
    <3> DEFINE z == <<>>
    <3>1. z \in Seq(Rooted)
      OBVIOUS
    <3>2. fileEntries' = z /\ sessionFile' = f
      BY <2>5 DEF EmptySession
    <3> HIDE DEF z
    <3>3. IsPrefix(Loaded(disk'[f]), z)
      BY <2>5, <3>1, NewGrows
    <3>4. QED
      BY <2>3, <3>2, <3>3 DEF StartsSession
  <2>6. CASE WriteAll(f, es, ok) /\ ~ok
    BY <2>6, WriteSucceeds DEF WriteAll
  <2>7. QED
    BY <2>1, <2>4, <2>5, <2>6
<1>4. ASSUME NEW ok \in BOOLEAN, EnsureSessionFileWritten(ok) PROVE Goal
  <2>1. /\ disk' = [disk EXCEPT ![sessionFile] = Rewritten(fileEntries)]
        /\ UNCHANGED <<fileEntries, sessionFile>>
    BY <1>4, WriteSucceeds DEF EnsureSessionFileWritten, WriteAll
  <2>2. FilesGrow /\ Absent' /\ Loaded(disk'[sessionFile]) = fileEntries
    BY <1>00, <2>1, ReplacedGrows DEF KeepInv, StartsSession
  <2>3. StartsSession'
    BY <1>00, <2>1, <2>2 DEF StartsSession
  <2>4. QED
    BY <2>2, <2>3
<1>5. ASSUME NEW f \in Files, Open(f) PROVE Goal
  <2>1. disk[f].header /\ Index(f, disk[f].entries) /\ UNCHANGED disk
    BY <1>5, KeepFacts DEF Open
  <2>2. Loaded(disk[f]) = disk[f].entries /\ Loaded(disk[f]) \in Seq(Rooted)
    BY <2>1, KeepFacts DEF Loaded
  <2>3. fileEntries' = Loaded(disk[f]) /\ sessionFile' = f /\ disk'[f] = disk[f]
    BY <2>1, <2>2 DEF Index
  <2>4. StartsSession'
    BY <1>00, <2>2, <2>3 DEF StartsSession
  <2>5. QED
    BY <2>1, <2>4, UnchangedGrow
<1>6. ASSUME NewSession PROVE Goal
  <2>1. PICK f \in Unused : EmptySession(f)
    BY <1>6 DEF NewSession
  <2>2. UNCHANGED disk /\ fileEntries' = <<>> /\ sessionFile' = f
    BY <1>6, <2>1 DEF NewSession, EmptySession
  <2>3. Loaded(disk[f]) = <<>>
    BY KeepFacts DEF Unused
  <2> DEFINE z == <<>>
  <2>4. z \in Seq(Rooted) /\ fileEntries' = z /\ Loaded(disk'[sessionFile']) = z
    BY <2>2, <2>3
  <2> HIDE DEF z
  <2>5. StartsSession'
    BY <1>00, <2>4 DEF StartsSession
  <2>6. QED
    BY <2>2, <2>5, UnchangedGrow
<1>7. ASSUME (\E id \in IdsOf(fileEntries) : Branch(id)) \/ ResetLeaf \/ UNCHANGED vars \/ Crash
      PROVE  Goal
  <2>1. UNCHANGED <<disk, fileEntries, sessionFile>>
    BY <1>7 DEF Branch, ResetLeaf, vars, memory, Crash
  <2>2. StartsSession'
    BY <2>1 DEF StartsSession, KeepInv
  <2>3. QED
    BY <2>1, <2>2, UnchangedGrow
<1>8. ASSUME NEW ok, ForkOfDamaged(ok) PROVE FALSE
  BY <1>00, <1>8, KeepFacts DEF ForkOfDamaged
<1> HIDE DEF Goal
<1>9. Goal
  <2>1. CASE Next
    BY <1>1, <1>2, <1>3, <1>4, <1>5, <1>6, <1>7, <1>8, <2>1 DEF Next
  <2>2. QED
    BY <1>7, <2>1
<1>10. QED
  BY <1>0, <1>9 DEF KeepInv, Goal

(* At the start no file holds anything.                                    *)
LEMMA InitKeep == Init => KeepInv
<1> SUFFICES ASSUME Init PROVE KeepInv
  OBVIOUS
<1>1. TypeInv /\ DurableInv /\ ToldInv
  BY TypeInit, InitDurable, InitTold
<1>2. disk[sessionFile] = NoFile /\ fileEntries = <<>>
  BY SessionAssumption DEF Init
<1> DEFINE z == <<>>
<1>3. Loaded(disk[sessionFile]) = z /\ fileEntries = z /\ z \in Seq(Rooted)
  BY <1>2 DEF NoFile, Loaded
<1> HIDE DEF z
<1>4. StartsSession
  BY <1>3, PrefixOfSelf DEF StartsSession
<1>5. QED
  BY <1>1, <1>4 DEF KeepInv, ToldInv

(* What a reader of a file once saw stays as it is, while no write is cut. *)
THEOREM FilesOnlyGrow ==
  ASSUME Faults = {} PROVE Spec => FilesAreAppendOnly
<1>1. KeepInv /\ [Next]_vars => [\A f \in Files : IsPrefix(Loaded(disk[f]), Loaded(disk'[f]))]_vars
  BY StepGrows DEF FilesGrow
<1>2. KeepInv /\ [Next]_vars => KeepInv'
  BY StepGrows
<1>3. QED
  BY InitKeep, <1>1, <1>2, PTL DEF Spec, FilesAreAppendOnly

-----------------------------------------------------------------------------
(* A dead process is only replaced by one that opens a file.               *)
LEMMA OnlyOpenRevives ==
  ASSUME KeepInv, Next, ~alive, alive'
  PROVE  /\ sessionFile' \in Files /\ fileEntries' = disk[sessionFile'].entries
         /\ leafId' = LastId(fileEntries')
<1>1. alive \in BOOLEAN
  BY TypeFacts DEF KeepInv
<1>2. ASSUME NEW ok, AppendStep(ok) PROVE alive
  BY <1>2 DEF AppendStep, AppendPlain, AppendLabelChange, AppendCompaction,
              BranchWithSummary, AppendEntry
<1>3. \E f \in Files : Open(f)
  BY <1>2 DEF Next, CreateBranchedSession, Fork, ForkOfDamaged,
              EnsureSessionFileWritten, Branch, ResetLeaf, NewSession, Crash
<1>4. PICK f \in Files : Open(f)
  BY <1>3
<1>5. Index(f, disk[f].entries)
  BY <1>4, KeepFacts DEF Open
<1>6. QED
  BY <1>5 DEF Index

(* Opening the file of the process that ended gives back the context of    *)
(* its last entry, while no write is cut.                                  *)
THEOREM ReopeningKeepsContext ==
  ASSUME Faults = {} PROVE Spec => ReopenKeepsContext
<1> DEFINE A == ~alive /\ alive' /\ sessionFile' = sessionFile /\ HasAssistant(fileEntries) =>
                  Context(fileEntries', leafId') = Context(fileEntries, LastId(fileEntries))
<1>1. ASSUME KeepInv, Next, ~alive, alive', sessionFile' = sessionFile, HasAssistant(fileEntries)
      PROVE  Context(fileEntries', leafId') = Context(fileEntries, LastId(fileEntries))
  <2>1. disk[sessionFile] = Rewritten(fileEntries)
    BY <1>1 DEF KeepInv, DurableInv, Current
  <2>2. fileEntries' = fileEntries /\ leafId' = LastId(fileEntries)
    BY <1>1, <2>1, OnlyOpenRevives, RewrittenFile
  <2>3. QED
    BY <2>2
<1>2. KeepInv /\ [Next]_vars => [A]_vars
  BY <1>1
<1>3. KeepInv /\ [Next]_vars => KeepInv'
  BY StepGrows
<1>4. QED
  BY InitKeep, <1>2, <1>3, PTL DEF Spec, ReopenKeepsContext

(* A path with an answer is one of a session with an answer, and a branch  *)
(* along it has that answer.                                               *)
LEMMA AnswerOnPath ==
  ASSUME KeepInv, NEW id \in IdsOf(fileEntries), NEW labels,
         HasAssistant(PathTo(fileEntries, id)), IsPlain(PathTo(fileEntries, id))
  PROVE  HasAssistant(fileEntries) /\ HasAssistant(Branched(fileEntries, id, labels))
<1> DEFINE p  == PathTo(fileEntries, id)
           ls == NewLabels(fileEntries, id, labels)
<1>0. nextId \in Nat /\ nextId # 0 /\ Grown(fileEntries, nextId)
  BY TypeFacts DEF KeepInv
<1>1. /\ PathOf(fileEntries, id) = p /\ p \in Seq(Rooted)
      /\ ToSet(p) \subseteq ToSet(fileEntries)
  BY <1>0, PlainPath DEF Linked
<1>2. PICK i \in 1..Len(p) : p[i].kind = "assistant"
  BY <1>1 DEF HasAssistant
<1>3. Branched(fileEntries, id, labels) = p \o ls /\ ls \in Seq(Rooted)
  BY <1>0, <1>1, BranchedIs, BranchShape
<1> HIDE DEF p, ls
<1>4. p[i] \in ToSet(fileEntries)
  BY <1>1, <1>2 DEF ToSet
<1>5. HasAssistant(fileEntries)
  BY <1>2, <1>4 DEF HasAssistant, ToSet
<1>6. i \in DOMAIN (p \o ls) /\ (p \o ls)[i] = p[i]
  BY <1>1, <1>3, ConcatProperties
<1>7. HasAssistant(Branched(fileEntries, id, labels))
  BY <1>2, <1>3, <1>6 DEF HasAssistant
<1>8. QED
  BY <1>5, <1>7

(* A fork at an entry that an answer precedes has the context of that      *)
(* entry, though it is cut from one file, written to another and read      *)
(* back, if no label entry is on its path and no write is cut.             *)
THEOREM ForkingKeepsContext ==
  ASSUME Faults = {} PROVE Spec => ForkKeepsContext
<1> DEFINE Keeps(id) ==
             /\ Fork(id, TRUE)
             /\ HasAssistant(PathTo(fileEntries, id)) /\ IsPlain(PathTo(fileEntries, id))
             => Context(fileEntries', leafId') = Context(fileEntries, id)
           A == \A id \in IdsOf(fileEntries) : Keeps(id)
<1>1. ASSUME KeepInv, NEW id \in IdsOf(fileEntries), Fork(id, TRUE),
             HasAssistant(PathTo(fileEntries, id)), IsPlain(PathTo(fileEntries, id))
      PROVE  Context(fileEntries', leafId') = Context(fileEntries, id)
  <2> DEFINE es == Branched(fileEntries, id, LabelsOf(fileEntries))
  <2>1. HasAssistant(fileEntries) /\ HasAssistant(es)
    BY <1>1, AnswerOnPath
  <2>2. Loaded(disk[sessionFile]) = fileEntries
    BY <1>1, <2>1, RewrittenFile DEF KeepInv, DurableInv, Current
  <2>3. fileEntries' = es /\ leafId' = LastId(es)
    BY <1>1, <2>1, <2>2 DEF Fork, Index
  <2>4. nextId \in Nat /\ nextId # 0 /\ Grown(fileEntries, nextId)
    BY <1>1, TypeFacts DEF KeepInv
  <2>5. Context(es, LastId(es)) = Context(fileEntries, id)
    BY <1>1, <2>4, BranchKeepsIt
  <2>6. QED
    BY <2>3, <2>5
<1>2. KeepInv /\ [Next]_vars => [A]_vars
  BY <1>1
<1>3. KeepInv /\ [Next]_vars => KeepInv'
  BY StepGrows
<1>4. QED
  BY InitKeep, <1>2, <1>3, PTL DEF Spec, ForkKeepsContext
=============================================================================
