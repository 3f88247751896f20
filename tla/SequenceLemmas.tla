--------------------------- MODULE SequenceLemmas ---------------------------
(***************************************************************************)
(* What the proofs of several components need to know of sequences and     *)
(* the library's theorems do not say: how often a sequence hits a set of   *)
(* values, and concatenation as an operator the provers do not unfold.     *)
(***************************************************************************)
EXTENDS Integers, SequencesExt, FiniteSetTheorems, SequenceTheorems,
        WellFoundedInduction, TLAPS

(* How many positions of s hold a value of S. *)
HitsAt(s, S) == {i \in DOMAIN s : s[i] \in S}
Hits(s, S)   == Cardinality(HitsAt(s, S))

(* A finite number of positions.                                           *)
LEMMA HitsType ==
  ASSUME NEW T, NEW s \in Seq(T), NEW S
  PROVE  IsFiniteSet(HitsAt(s, S)) /\ Hits(s, S) \in Nat
<1>1. Len(s) \in Nat /\ DOMAIN s = 1..Len(s)
  OBVIOUS
<1>2. IsFiniteSet(1..Len(s))
  BY <1>1, FS_Interval
<1>3. HitsAt(s, S) \in SUBSET (1..Len(s))
  BY <1>1 DEF HitsAt
<1>4. IsFiniteSet(HitsAt(s, S))
  BY <1>2, <1>3, FS_Subset
<1>5. QED
  BY <1>4, FS_CardinalityType DEF Hits

(* No position, no hit.                                                    *)
LEMMA HitsOfEmpty == \A S : Hits(<<>>, S) = 0
<1> SUFFICES ASSUME NEW S PROVE Hits(<<>>, S) = 0
  OBVIOUS
<1>1. HitsAt(<<>>, S) = {}
  BY DEF HitsAt
<1>2. QED
  BY <1>1, FS_EmptySet DEF Hits

(* A sequence hits S exactly when one of its positions does.               *)
LEMMA HitsAny ==
  ASSUME NEW T, NEW s \in Seq(T), NEW S
  PROVE  Hits(s, S) # 0 <=> \E i \in 1..Len(s) : s[i] \in S
<1>1. IsFiniteSet(HitsAt(s, S))
  BY HitsType
<1>2. Hits(s, S) = 0 <=> HitsAt(s, S) = {}
  BY <1>1, FS_EmptySet DEF Hits
<1>3. HitsAt(s, S) = {} <=> ~ \E i \in 1..Len(s) : s[i] \in S
  BY DEF HitsAt
<1>4. QED
  BY <1>2, <1>3

(* At most one position, at most one index.                                *)
LEMMA HitsOnce ==
  ASSUME NEW T, NEW s \in Seq(T), NEW S, Hits(s, S) <= 1,
         NEW i \in 1..Len(s), NEW j \in 1..Len(s), s[i] \in S, s[j] \in S
  PROVE  i = j
<1>1. IsFiniteSet(HitsAt(s, S)) /\ Hits(s, S) \in Nat
  BY HitsType
<1>2. i \in HitsAt(s, S) /\ j \in HitsAt(s, S)
  BY DEF HitsAt
<1>3. Hits(s, S) # 0
  BY HitsAny
<1>4. Cardinality(HitsAt(s, S)) = 1
  BY <1>1, <1>3 DEF Hits
<1>5. PICK k : HitsAt(s, S) = {k}
  BY <1>1, <1>4, FS_Singleton
<1>6. QED
  BY <1>2, <1>5

(* One more value at the end.                                              *)
LEMMA HitsOfAppend ==
  ASSUME NEW T, NEW s \in Seq(T), NEW x \in T, NEW S
  PROVE  Hits(Append(s, x), S) = Hits(s, S) + (IF x \in S THEN 1 ELSE 0)
<1> DEFINE t == Append(s, x)
<1>1. /\ Len(s) \in Nat /\ DOMAIN s = 1..Len(s) /\ DOMAIN t = 1..(Len(s) + 1)
      /\ \A i \in 1..Len(s) : t[i] = s[i]
      /\ t[Len(s) + 1] = x
  OBVIOUS
<1> HIDE DEF t
<1>2. IsFiniteSet(HitsAt(s, S)) /\ Hits(s, S) \in Nat
  BY HitsType
<1>3. CASE x \in S
  <2>1. HitsAt(t, S) = HitsAt(s, S) \cup {Len(s) + 1}
    BY <1>1, <1>3 DEF HitsAt
  <2>2. Len(s) + 1 \notin HitsAt(s, S)
    BY <1>1 DEF HitsAt
  <2>3. Cardinality(HitsAt(t, S)) = Cardinality(HitsAt(s, S)) + 1
    BY <1>2, <2>1, <2>2, FS_AddElement
  <2>4. QED
    BY <1>3, <2>3 DEF Hits, t
<1>4. CASE x \notin S
  <2>1. HitsAt(t, S) = HitsAt(s, S)
    BY <1>1, <1>4 DEF HitsAt
  <2>2. QED
    BY <1>2, <1>4, <2>1 DEF Hits, t
<1>5. QED
  BY <1>3, <1>4

(* The head and the rest.                                                  *)
LEMMA HitsOfTail ==
  ASSUME NEW T, NEW s \in Seq(T), s # <<>>, NEW S
  PROVE  Hits(s, S) = Hits(Tail(s), S) + (IF Head(s) \in S THEN 1 ELSE 0)
<1> DEFINE t == Tail(s)
<1>1. /\ Len(s) \in Nat /\ Len(s) >= 1 /\ DOMAIN s = 1..Len(s) /\ DOMAIN t = 1..(Len(s) - 1)
      /\ t \in Seq(T) /\ Head(s) = s[1]
      /\ \A i \in 1..(Len(s) - 1) : t[i] = s[i + 1]
  OBVIOUS
<1> HIDE DEF t
<1> DEFINE A == HitsAt(t, S)
           B == HitsAt(s, S) \ {1}
           f == [i \in A |-> i + 1]
<1>2. IsFiniteSet(HitsAt(s, S)) /\ Hits(s, S) \in Nat /\ IsFiniteSet(A) /\ Hits(t, S) \in Nat
  BY <1>1, HitsType
<1>3. A \subseteq 1..(Len(s) - 1) /\ B \subseteq 2..Len(s)
  BY <1>1 DEF HitsAt
<1>4. \A i \in 1..(Len(s) - 1) : i \in A <=> i + 1 \in B
  BY <1>1 DEF HitsAt
<1> HIDE DEF A, B
<1>5. f \in Bijection(A, B)
  <2>1. f \in [A -> B]
    BY <1>1, <1>3, <1>4
  <2>2. \A a, b \in A : f[a] = f[b] => a = b
    BY <1>1, <1>3
  <2>3. \A b \in B : \E a \in A : f[a] = b
    <3>1. SUFFICES ASSUME NEW b \in B PROVE b - 1 \in A /\ f[b - 1] = b
      OBVIOUS
    <3>2. b - 1 \in 1..(Len(s) - 1) /\ (b - 1) + 1 = b
      BY <1>1, <1>3
    <3>3. QED
      BY <1>4, <3>2
  <2>4. QED
    BY <2>1, <2>2, <2>3 DEF Bijection, Injection, Surjection, IsInjective
<1>6. Cardinality(B) = Cardinality(A)
  <2>1. ExistsBijection(A, B)
    BY <1>5 DEF ExistsBijection
  <2>2. QED
    BY <1>2, <2>1, FS_Bijection
<1>7. 1 \in HitsAt(s, S) <=> Head(s) \in S
  BY <1>1 DEF HitsAt
<1>8. Cardinality(B) = IF 1 \in HitsAt(s, S) THEN Cardinality(HitsAt(s, S)) - 1
                                             ELSE Cardinality(HitsAt(s, S))
  BY <1>2, FS_RemoveElement DEF B
<1>9. QED
  BY <1>2, <1>6, <1>7, <1>8 DEF Hits, A, t

(* Two sequences of one length that hit at the same positions.             *)
LEMMA HitsSame ==
  ASSUME NEW s, NEW t, NEW S, NEW R, DOMAIN s = DOMAIN t,
         \A i \in DOMAIN s : s[i] \in S <=> t[i] \in R
  PROVE  Hits(s, S) = Hits(t, R)
<1>1. HitsAt(s, S) = HitsAt(t, R)
  BY DEF HitsAt
<1>2. QED
  BY <1>1 DEF Hits

-----------------------------------------------------------------------------
(* Moving the head of one sequence to the end of another, changing the     *)
(* last element, and what a concatenation ends with.                       *)
LEMMA AppendHeadTail ==
  ASSUME NEW S, NEW s \in Seq(S), NEW t \in Seq(S), t # <<>>
  PROVE  Append(s, Head(t)) \o Tail(t) = s \o t
<1>1. /\ Head(t) \in S /\ Tail(t) \in Seq(S) /\ Len(Tail(t)) = Len(t) - 1 /\ Len(t) \in Nat
      /\ \A i \in 1..(Len(t) - 1) : Tail(t)[i] = t[i + 1]
      /\ Len(t) >= 1 /\ Head(t) = t[1] /\ Len(s) \in Nat
  BY HeadTailProperties
<1>2. /\ Append(s, Head(t)) \in Seq(S) /\ Len(Append(s, Head(t))) = Len(s) + 1
      /\ \A i \in 1..Len(s) : Append(s, Head(t))[i] = s[i]
      /\ Append(s, Head(t))[Len(s) + 1] = t[1]
  BY <1>1, AppendProperties
<1> DEFINE u == Append(s, Head(t))
           v == Tail(t)
<1> HIDE DEF u, v
<1>3. /\ u \o v \in Seq(S) /\ Len(u \o v) = Len(u) + Len(v)
      /\ \A i \in 1..(Len(u) + Len(v)) : (u \o v)[i] = IF i <= Len(u) THEN u[i] ELSE v[i - Len(u)]
  BY <1>1, <1>2, ConcatProperties DEF u, v
<1>4. /\ s \o t \in Seq(S) /\ Len(s \o t) = Len(s) + Len(t)
      /\ \A i \in 1..(Len(s) + Len(t)) : (s \o t)[i] = IF i <= Len(s) THEN s[i] ELSE t[i - Len(s)]
  BY ConcatProperties
<1>5. Len(u) = Len(s) + 1 /\ Len(v) = Len(t) - 1
  BY <1>1, <1>2 DEF u, v
<1>6. ASSUME NEW i \in 1..(Len(s) + Len(t)) PROVE (u \o v)[i] = (s \o t)[i]
  <2>1. CASE i <= Len(s)
    BY <1>1, <1>2, <1>3, <1>4, <1>5, <2>1 DEF u
  <2>2. CASE i = Len(s) + 1
    BY <1>1, <1>2, <1>3, <1>4, <1>5, <2>2 DEF u
  <2>3. CASE i > Len(s) + 1
    <3>1. i - Len(u) \in 1..(Len(t) - 1) /\ (i - Len(u)) + 1 = i - Len(s)
      BY <1>1, <1>5, <2>3
    <3>2. v[i - Len(u)] = t[i - Len(s)]
      BY <1>1, <3>1 DEF v
    <3>3. (u \o v)[i] = v[i - Len(u)] /\ (s \o t)[i] = t[i - Len(s)]
      BY <1>1, <1>3, <1>4, <1>5, <2>3
    <3>4. QED
      BY <3>2, <3>3
  <2>4. i \in Int /\ Len(s) \in Int
    BY <1>1
  <2>5. i <= Len(s) \/ i = Len(s) + 1 \/ i > Len(s) + 1
    BY <2>4
  <2>6. QED
    BY <2>1, <2>2, <2>3, <2>5
<1>7. Len(u \o v) = Len(s \o t) /\ \A i \in 1..Len(u \o v) : (u \o v)[i] = (s \o t)[i]
  BY <1>1, <1>3, <1>4, <1>5, <1>6
<1>8. u \o v = s \o t
  BY <1>3, <1>4, <1>7, SeqEqual
<1>9. QED
  BY <1>8 DEF u, v

(* Concatenation under a name of its own: the provers treat it as any      *)
(* associative operator on sequences.                                      *)
Cat(a, b) == a \o b

SwapLast(s, x) == [s EXCEPT ![Len(s)] = x]

(* Another value at the end.                                               *)
LEMMA ReplaceLast ==
  ASSUME NEW S, NEW s \in Seq(S), NEW x \in S, NEW y \in S
  PROVE  SwapLast(Cat(s, <<x>>), y) = Cat(s, <<y>>)
<1> DEFINE u == s \o <<x>>
           v == s \o <<y>>
<1>0. Len(s) \in Nat /\ <<x>> \in Seq(S) /\ <<y>> \in Seq(S) /\ Len(<<x>>) = 1 /\ Len(<<y>>) = 1
  OBVIOUS
<1>1. /\ u \in Seq(S) /\ Len(u) = Len(s) + 1
      /\ \A i \in 1..(Len(s) + 1) : u[i] = IF i <= Len(s) THEN s[i] ELSE <<x>>[i - Len(s)]
  BY <1>0, ConcatProperties
<1>2. /\ v \in Seq(S) /\ Len(v) = Len(s) + 1
      /\ \A i \in 1..(Len(s) + 1) : v[i] = IF i <= Len(s) THEN s[i] ELSE <<y>>[i - Len(s)]
  BY <1>0, ConcatProperties
<1>3. v[Len(s) + 1] = y
  BY <1>0, <1>2
<1> HIDE DEF u, v
<1> DEFINE w == [u EXCEPT ![Len(u)] = y]
<1>4. /\ w \in Seq(S) /\ Len(w) = Len(u)
      /\ \A j \in 1..Len(u) : w[j] = IF j = Len(u) THEN y ELSE u[j]
  <2>1. Len(u) \in 1..Len(u)
    BY <1>0, <1>1
  <2>2. QED
    BY <1>1, <2>1, ExceptSeq
<1> HIDE DEF w
<1>5. ASSUME NEW i \in 1..Len(w) PROVE w[i] = v[i]
  <2>1. CASE i \in 1..Len(s)
    <3>1. i # Len(u) /\ i \in 1..Len(u) /\ i <= Len(s) /\ i \in 1..(Len(s) + 1)
      BY <1>0, <1>1, <2>1
    <3>2. u[i] = s[i] /\ v[i] = s[i]
      BY <1>1, <1>2, <3>1, Zenon
    <3>3. QED
      BY <1>4, <3>1, <3>2, Zenon
  <2>2. CASE i = Len(s) + 1
    <3>1. i = Len(u) /\ i \in 1..Len(u)
      BY <1>0, <1>1, <2>2
    <3>2. QED
      BY <1>3, <1>4, <2>2, <3>1, Zenon
  <2>3. i \in 1..Len(s) \/ i = Len(s) + 1
    BY <1>0, <1>1, <1>4
  <2>4. QED
    BY <2>1, <2>2, <2>3
<1>6. w = v
  BY <1>1, <1>2, <1>4, <1>5, SeqEqual
<1>7. QED
  BY <1>6 DEF w, u, v, Cat, SwapLast

(* A sequence that ends another one.                                       *)
LEMMA SuffixOfConcat ==
  ASSUME NEW S, NEW p \in Seq(S), NEW s \in Seq(S)
  PROVE  IsSuffix(s, p \o s)
<1>1. /\ p \o s \in Seq(S) /\ Len(p \o s) = Len(p) + Len(s)
      /\ \A i \in 1..(Len(p) + Len(s)) : (p \o s)[i] = IF i <= Len(p) THEN p[i] ELSE s[i - Len(p)]
      /\ Len(p) \in Nat /\ Len(s) \in Nat
  BY ConcatProperties
<1> DEFINE t == p \o s
           a == Reverse(s)
           b == Reverse(t)
<1> HIDE DEF t
<1>2. /\ a = [i \in 1..Len(s) |-> s[(Len(s) - i) + 1]]
      /\ b = [i \in 1..Len(t) |-> t[(Len(t) - i) + 1]]
  BY DEF Reverse
<1>3. a \in Seq(S) /\ Len(a) = Len(s)
  <2>1. \A i \in 1..Len(s) : s[(Len(s) - i) + 1] \in S
    BY <1>1
  <2>2. QED
    BY <1>1, <1>2, <2>1
<1>4. b \in Seq(S) /\ Len(b) = Len(t)
  <2>1. \A i \in 1..Len(t) : t[(Len(t) - i) + 1] \in S
    BY <1>1 DEF t
  <2>2. QED
    BY <1>1, <1>2, <2>1 DEF t
<1>5. \A i \in 1..Len(s) : a[i] = s[(Len(s) - i) + 1] /\ b[i] = t[(Len(t) - i) + 1]
  BY <1>1, <1>2 DEF t
<1> HIDE DEF a, b
<1>6. \A i \in 1..Len(s) : a[i] = b[i]
  <2>1. ASSUME NEW i \in 1..Len(s) PROVE t[(Len(t) - i) + 1] = s[(Len(s) - i) + 1]
    <3>1. /\ (Len(t) - i) + 1 \in 1..(Len(p) + Len(s)) /\ ~((Len(t) - i) + 1 <= Len(p))
          /\ ((Len(t) - i) + 1) - Len(p) = (Len(s) - i) + 1
      BY <1>1 DEF t
    <3>2. QED
      BY <1>1, <3>1 DEF t
  <2>2. QED
    BY <1>5, <2>1
<1>7. SubSeq(a, 1, Len(a)) = a
  BY <1>3, SubSeqFull
<1>8. SubSeq(b, 1, Len(a)) = a
  <2>1. \A i \in 1..Len(a) : b[i] \in S
    BY <1>1, <1>3, <1>4 DEF t
  <2>2. /\ SubSeq(b, 1, Len(a)) \in Seq(S)
        /\ Len(SubSeq(b, 1, Len(a))) = Len(a)
        /\ \A i \in 1..Len(a) : SubSeq(b, 1, Len(a))[i] = b[i]
    <3>1. Len(a) \in Int /\ 1 \in Int /\ Len(a) >= 0
      BY <1>1, <1>3
    <3>2. /\ SubSeq(b, 1, Len(a)) \in Seq(S)
          /\ Len(SubSeq(b, 1, Len(a))) = IF 1 <= Len(a) THEN Len(a) - 1 + 1 ELSE 0
          /\ \A i \in 1..(Len(a) - 1 + 1) : SubSeq(b, 1, Len(a))[i] = b[1 + i - 1]
      BY <2>1, <3>1, SubSeqProperties
    <3>3. QED
      BY <3>1, <3>2
  <2>3. QED
    BY <1>3, <1>6, <2>2, SeqEqual
<1>9. IsPrefix(a, b)
  BY <1>1, <1>3, <1>4, <1>7, <1>8 DEF IsPrefix, t
<1>10. QED
  BY <1>9 DEF IsSuffix, a, b, t

(* Concatenations are sequences.                                           *)
LEMMA CatClosed == \A S : \A a, b \in Seq(S) : Cat(a, b) \in Seq(S)
BY ConcatProperties DEF Cat

(* Concatenation associates.                                               *)
LEMMA CatAssociative ==
  \A S : \A a, b, c \in Seq(S) : Cat(Cat(a, b), c) = Cat(a, Cat(b, c))
<1> SUFFICES ASSUME NEW S, NEW a \in Seq(S), NEW b \in Seq(S), NEW c \in Seq(S)
             PROVE  (a \o b) \o c = a \o (b \o c)
  BY DEF Cat
<1>1. QED
  BY ConcatAssociative

-----------------------------------------------------------------------------
(* Induction over the numbers, without an operator as a parameter.         *)

(* Induction over the numbers, stated with a set.                          *)
LEMMA NumberInduction ==
  ASSUME NEW S, 0 \in S, \A n \in Nat : n \in S => n + 1 \in S
  PROVE  Nat \subseteq S
<1> SUFFICES ASSUME NEW k \in Nat, k \notin S PROVE FALSE
  OBVIOUS
<1> DEFINE R == OpToRel(<, Nat)
           T == Nat \ S
<1>1. IsWellFoundedOn(R, Nat)
  BY NatLessThanWellFounded
<1>2. T \subseteq Nat /\ T # {}
  OBVIOUS
<1>3. \E x \in T : \A y \in T : ~(<<y, x>> \in R)
  <2> HIDE DEF R, T
  <2>1. QED
    BY <1>1, <1>2, WFMin, Zenon
<1>4. PICK x \in T : \A y \in T : ~(<<y, x>> \in R)
  BY <1>3
<1>5. x # 0 /\ x - 1 \in Nat /\ x - 1 \notin S
  OBVIOUS
<1>6. <<x - 1, x>> \in R
  BY <1>5 DEF OpToRel
<1>7. QED
  BY <1>4, <1>5, <1>6

(* A set of numbers below a bound has a largest one.                       *)
LEMMA Largest ==
  ASSUME NEW n \in Nat, NEW S \in SUBSET (0..n), S # {}
  PROVE  \E i \in S : \A j \in S : j <= i
<1> DEFINE G == {k \in Nat : \A T \in SUBSET (0..k) : T = {} \/ \E i \in T : \A j \in T : j <= i}
<1>1. 0 \in G
  OBVIOUS
<1>2. ASSUME NEW k \in Nat, k \in G PROVE k + 1 \in G
  <2> SUFFICES ASSUME NEW T \in SUBSET (0..(k + 1)) PROVE T = {} \/ \E i \in T : \A j \in T : j <= i
    OBVIOUS
  <2>1. CASE k + 1 \notin T
    <3>1. T \in SUBSET (0..k)
      BY <2>1
    <3>2. QED
      BY <1>2, <3>1
  <2>2. CASE k + 1 \in T
    BY <2>2
  <2>3. QED
    BY <2>1, <2>2
<1> HIDE DEF G
<1>3. Nat \subseteq G
  BY <1>1, <1>2, NumberInduction
<1>4. QED
  BY <1>3 DEF G

-----------------------------------------------------------------------------
(* The values of sequences.                                                *)

(* The values of a sequence.                                               *)
LEMMA SeqValues ==
  ASSUME NEW T, NEW s \in Seq(T)
  PROVE  /\ Len(s) \in Nat /\ DOMAIN s = 1..Len(s)
         /\ \A i \in DOMAIN s : s[i] \in T
OBVIOUS

(* Sequences over a larger set.                                            *)
LEMMA SeqGrows ==
  ASSUME NEW S, NEW T, S \subseteq T
  PROVE  Seq(S) \subseteq Seq(T)
OBVIOUS

(* What is left when the head is gone.                                     *)
LEMMA TailEmpty ==
  ASSUME NEW T, NEW s \in Seq(T), s # <<>>
  PROVE  Tail(s) \in Seq(T) /\ (Tail(s) # <<>> <=> Len(s) > 1)
<1>1. Tail(s) \in Seq(T) /\ Len(Tail(s)) = Len(s) - 1 /\ Len(s) \in Nat /\ Len(s) # 0
  OBVIOUS
<1> DEFINE t == Tail(s)
<1>2. t \in Seq(T) /\ Len(t) = Len(s) - 1
  BY <1>1
<1> HIDE DEF t
<1>3. t # <<>> <=> Len(s) > 1
  BY <1>1, <1>2
<1>4. QED
  BY <1>1, <1>3 DEF t

(* A value put in front.                                                   *)
LEMMA HitsOfCons ==
  ASSUME NEW T, NEW x \in T, NEW s \in Seq(T), NEW S
  PROVE  Hits(Cons(x, s), S) = (IF x \in S THEN 1 ELSE 0) + Hits(s, S)
<1> DEFINE t == Cons(x, s)
<1>1. t \in Seq(T) /\ t # <<>> /\ Head(t) = x /\ Tail(t) = s
  BY DEF Cons
<1> HIDE DEF t
<1>2. Hits(t, S) = Hits(Tail(t), S) + (IF Head(t) \in S THEN 1 ELSE 0)
  BY <1>1, HitsOfTail
<1>3. Hits(s, S) \in Nat
  BY HitsType
<1>4. Hits(t, S) = Hits(s, S) + (IF x \in S THEN 1 ELSE 0)
  BY <1>1, <1>2, Zenon
<1>5. Hits(t, S) = (IF x \in S THEN 1 ELSE 0) + Hits(s, S)
  BY <1>3, <1>4
<1>6. QED
  BY <1>5, Zenon DEF t

(* A sequence of one value.                                                *)
LEMMA HitsOfOne ==
  ASSUME NEW T, NEW x \in T, NEW S
  PROVE  Hits(<<x>>, S) = IF x \in S THEN 1 ELSE 0
<1>1. <<x>> = Cons(x, <<>>) /\ <<>> \in Seq(T)
  BY DEF Cons
<1>2. \A s \in Seq(T) : Hits(Cons(x, s), S) = (IF x \in S THEN 1 ELSE 0) + Hits(s, S)
  BY HitsOfCons
<1>3. Hits(Cons(x, <<>>), S) = (IF x \in S THEN 1 ELSE 0) + Hits(<<>>, S)
  BY <1>1, <1>2, Zenon
<1>4. QED
  BY <1>1, <1>3, HitsOfEmpty

(* The values of sequences, as sets.                                       *)
LEMMA MembersOfFew == ToSet(<<>>) = {} /\ \A x : ToSet(<<x>>) = {x}
BY DEF ToSet

(* A value at the end is one more value.                                   *)
LEMMA MembersOfAppend ==
  ASSUME NEW T, NEW s \in Seq(T), NEW x \in T
  PROVE  ToSet(Append(s, x)) = ToSet(s) \cup {x}
<1> DEFINE t == Append(s, x)
<1>1. /\ Len(s) \in Nat /\ DOMAIN s = 1..Len(s) /\ DOMAIN t = 1..(Len(s) + 1)
      /\ \A i \in 1..Len(s) : t[i] = s[i]
      /\ t[Len(s) + 1] = x
  OBVIOUS
<1> HIDE DEF t
<1>2. \A i \in DOMAIN t : t[i] \in ToSet(s) \cup {x}
  BY <1>1 DEF ToSet
<1>3. \A i \in DOMAIN s : \E j \in DOMAIN t : t[j] = s[i]
  BY <1>1
<1>4. \E j \in DOMAIN t : t[j] = x
  BY <1>1
<1>5. ToSet(t) = ToSet(s) \cup {x}
  <2>1. ToSet(t) \subseteq ToSet(s) \cup {x}
    BY <1>2, Zenon DEF ToSet
  <2>2. ToSet(s) \subseteq ToSet(t)
    BY <1>3, Zenon DEF ToSet
  <2>3. x \in ToSet(t)
    BY <1>4, Zenon DEF ToSet
  <2>4. QED
    BY <2>1, <2>2, <2>3
<1>6. QED
  BY <1>5 DEF t

(* The head is a value beside those of the tail.                           *)
LEMMA MembersOfTail ==
  ASSUME NEW T, NEW s \in Seq(T), s # <<>>
  PROVE  ToSet(s) = {Head(s)} \cup ToSet(Tail(s))
<1> DEFINE t == Tail(s)
<1>1. /\ Len(s) \in Nat /\ Len(s) >= 1 /\ DOMAIN s = 1..Len(s) /\ DOMAIN t = 1..(Len(s) - 1)
      /\ Head(s) = s[1] /\ \A i \in 1..(Len(s) - 1) : t[i] = s[i + 1]
  OBVIOUS
<1> HIDE DEF t
<1>2. \A i \in DOMAIN s : i = 1 \/ (i - 1 \in DOMAIN t /\ t[i - 1] = s[i])
  BY <1>1
<1>3. \A i \in DOMAIN t : i + 1 \in DOMAIN s /\ s[i + 1] = t[i]
  BY <1>1
<1>4. 1 \in DOMAIN s
  BY <1>1
<1>5. ToSet(s) = {Head(s)} \cup ToSet(t)
  <2>1. ASSUME NEW i \in DOMAIN s PROVE s[i] \in {Head(s)} \cup ToSet(t)
    <3>1. i = 1 => s[i] = Head(s)
      BY <1>1
    <3>2. i - 1 \in DOMAIN t /\ t[i - 1] = s[i] => s[i] \in ToSet(t)
      BY Zenon DEF ToSet
    <3>3. QED
      BY <1>2, <3>1, <3>2
  <2>2. ASSUME NEW i \in DOMAIN t PROVE t[i] \in ToSet(s)
    BY <1>3, Zenon DEF ToSet
  <2>3. Head(s) \in ToSet(s)
    BY <1>1, <1>4, Zenon DEF ToSet
  <2>4. QED
    BY <2>1, <2>2, <2>3, Zenon DEF ToSet
<1>6. QED
  BY <1>5 DEF t

-----------------------------------------------------------------------------
(* What a sequence is when it has one value more than another.             *)
Lengthens(t, s, x) ==
  /\ t = [i \in 1..(Len(s) + 1) |-> t[i]]
  /\ \A i \in 1..Len(s) : t[i] = s[i]
  /\ t[Len(s) + 1] = x

(* A function that lengthens s by x is s with x at its end.                *)
LEMMA IsAppend ==
  ASSUME NEW T, NEW s \in Seq(T), NEW x \in T, NEW t, Lengthens(t, s, x)
  PROVE  t = Append(s, x)
<1> DEFINE n == Len(s)
           r == Append(s, x)
<1>0. /\ n \in Nat /\ t = [i \in 1..(n + 1) |-> t[i]]
      /\ \A i \in 1..n : t[i] = s[i]
      /\ t[n + 1] = x
  <2>1. n \in Nat
    OBVIOUS
  <2>2. QED
    BY <2>1, Zenon DEF Lengthens
<1>1. /\ r \in Seq(T) /\ Len(r) = n + 1
      /\ \A i \in 1..n : r[i] = s[i] /\ s[i] \in T
      /\ r[n + 1] = x
  BY AppendProperties, ElementOfSeq
<1> HIDE DEF r, n
<1>2. \A i \in 1..(n + 1) : t[i] = r[i] /\ t[i] \in T
  <2> SUFFICES ASSUME NEW i \in 1..(n + 1) PROVE t[i] = r[i] /\ t[i] \in T
    OBVIOUS
  <2>1. CASE i \in 1..n
    BY <1>0, <1>1, <2>1
  <2>2. CASE i = n + 1
    BY <1>0, <1>1, <2>2
  <2>3. QED
    BY <1>0, <2>1, <2>2
<1>3. t \in Seq(T) /\ Len(t) = n + 1
  BY <1>0, <1>2, SMTT(30), ZenonT(60)
<1>4. t = r
  BY <1>1, <1>2, <1>3, SeqEqual
<1>5. QED
  BY <1>4 DEF r

(* Two values put at the end.                                              *)
LEMMA TwoAppended ==
  ASSUME NEW T, NEW x \in T, NEW y \in T
  PROVE  Append(Append(<<>>, x), y) = <<x, y>>
<1> DEFINE r == Append(<<>>, x)
           q == Append(r, y)
           t == <<x, y>>
<1>1. r \in Seq(T) /\ Len(r) = 1 /\ r[1] = x
  OBVIOUS
<1>2. t \in Seq(T) /\ Len(t) = 2 /\ t[1] = x /\ t[2] = y
  OBVIOUS
<1> HIDE DEF r, t
<1>3. /\ q \in Seq(T) /\ Len(q) = Len(r) + 1
      /\ \A i \in 1..Len(r) : q[i] = r[i]
      /\ q[Len(r) + 1] = y
  <2>1. \A s \in Seq(T) : /\ Append(s, y) \in Seq(T) /\ Len(Append(s, y)) = Len(s) + 1
                          /\ \A i \in 1..Len(s) : Append(s, y)[i] = s[i]
                          /\ Append(s, y)[Len(s) + 1] = y
    BY AppendProperties
  <2>2. QED
    BY <1>1, <2>1, Zenon
<1>4. Len(q) = 2 /\ q[1] = x /\ q[2] = y
  BY <1>1, <1>3
<1> HIDE DEF q
<1>5. q = t
  BY <1>2, <1>3, <1>4, SeqEqual
<1>6. QED
  BY <1>5 DEF q, r, t

(* A sequence is its front and its last value.                             *)
LEMMA FrontLast ==
  ASSUME NEW T, NEW s \in Seq(T), s # <<>>
  PROVE  Front(s) \in Seq(T) /\ Last(s) \in T /\ s = Append(Front(s), Last(s))
<1> DEFINE n == Len(s)
           f == Front(s)
           l == Last(s)
<1>1. n \in Nat /\ n >= 1 /\ l = s[n] /\ l \in T
  BY EmptySeq, ElementOfSeq DEF Last
<1>2. f = [i \in 1..(n - 1) |-> s[i]]
  BY <1>1 DEF Front
<1>3. f \in Seq(T) /\ Len(f) = n - 1
  BY <1>1, <1>2, ElementOfSeq
<1> HIDE DEF f, l
<1>4. Lengthens(s, f, l)
  BY <1>1, <1>2, <1>3 DEF Lengthens
<1>5. s = Append(f, l)
  BY <1>1, <1>3, <1>4, IsAppend
<1>6. QED
  BY <1>1, <1>3, <1>5 DEF f, l

(* A value at the end of a concatenation.                                  *)
LEMMA AppendOfConcat ==
  ASSUME NEW T, NEW s \in Seq(T), NEW t \in Seq(T), NEW x \in T
  PROVE  s \o Append(t, x) = Append(s \o t, x)
OBVIOUS
-----------------------------------------------------------------------------
(* Induction over sequences, stated with a set: the empty one is in it,    *)
(* and with each sequence every longer one.                                *)
LEMMA SequenceInduction ==
  ASSUME NEW T, NEW P, <<>> \in P,
         \A s \in Seq(T) : \A x \in T : s \in P => Append(s, x) \in P
  PROVE  Seq(T) \subseteq P
<1> DEFINE G == {n \in Nat : \A s \in Seq(T) : Len(s) = n => s \in P}
<1>1. 0 \in G
  BY EmptySeq
<1>2. ASSUME NEW n \in Nat, n \in G PROVE n + 1 \in G
  <2> SUFFICES ASSUME NEW s \in Seq(T), Len(s) = n + 1 PROVE s \in P
    OBVIOUS
  <2>1. s # <<>>
    OBVIOUS
  <2>2. Front(s) \in Seq(T) /\ Last(s) \in T /\ s = Append(Front(s), Last(s))
    BY <2>1, FrontLast
  <2>3. Len(Front(s)) = n
    <3> DEFINE f == Front(s)
               l == Last(s)
    <3>1. f \in Seq(T) /\ l \in T /\ s = Append(f, l)
      BY <2>2
    <3> HIDE DEF f, l
    <3>2. Len(s) = Len(f) + 1 /\ Len(f) \in Nat
      BY <3>1
    <3>3. Len(f) = n
      BY <3>2
    <3>4. QED
      BY <3>3 DEF f
  <2>4. Front(s) \in P
    BY <1>2, <2>2, <2>3
  <2>5. Append(Front(s), Last(s)) \in P
    BY <2>2, <2>4, Zenon
  <2>6. QED
    BY <2>2, <2>5, Zenon
<1> HIDE DEF G
<1>3. Nat \subseteq G
  BY <1>1, <1>2, NumberInduction
<1>4. ASSUME NEW s \in Seq(T) PROVE s \in P
  <2>1. Len(s) \in Nat
    OBVIOUS
  <2>2. QED
    BY <1>3, <2>1 DEF G
<1>5. QED
  BY <1>4

-----------------------------------------------------------------------------
(* The start of a sequence, under a name of its own.                       *)
Upto(s, k) == SubSeq(s, 1, k)

(* Its values are the first of the sequence.                               *)
LEMMA UptoOf ==
  ASSUME NEW T, NEW s \in Seq(T), NEW k \in 0..Len(s)
  PROVE  /\ Upto(s, k) \in Seq(T) /\ Len(Upto(s, k)) = k
         /\ \A i \in 1..k : Upto(s, k)[i] = s[i]
BY DEF Upto
=============================================================================
