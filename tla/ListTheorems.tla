---------------------------- MODULE ListTheorems ----------------------------
(***************************************************************************)
(* Lemmas about the operations on std::list that the manager's models are  *)
(* built from: push_back (Append), splicing (\o) and erasing the first     *)
(* match (RemoveFirst), in terms of the elements of the list (ToSet).      *)
(***************************************************************************)
EXTENDS SequencesExt, SequenceTheorems, WellFoundedInduction, TLAPS

\* The elements of a list are the values at its positions.
LEMMA ElementsOf ==
    ASSUME NEW S, NEW s \in Seq(S)
    PROVE  /\ \A x : x \in ToSet(s) <=> \E i \in 1..Len(s) : s[i] = x
           /\ ToSet(s) \subseteq S
BY LenProperties DEF ToSet

\* An empty list has no elements.
LEMMA ElementsOfEmpty == ToSet(<<>>) = {}
BY DEF ToSet

\* push_back adds one element.
LEMMA ElementsOfAppend ==
    ASSUME NEW S, NEW s \in Seq(S), NEW e \in S
    PROVE  Append(s, e) \in Seq(S) /\ ToSet(Append(s, e)) = ToSet(s) \cup {e}
<1>1. /\ Append(s, e) \in Seq(S) /\ Len(Append(s, e)) = Len(s) + 1 /\ Len(s) \in Nat
      /\ \A i \in 1..Len(s) : Append(s, e)[i] = s[i]
      /\ Append(s, e)[Len(s) + 1] = e
  BY AppendProperties, LenProperties
<1> DEFINE t == Append(s, e)
<1>2. \A x : x \in ToSet(t) <=> \E i \in 1..Len(t) : t[i] = x
  <2> HIDE DEF t
  <2> QED BY <1>1, ElementsOf DEF t
<1>3. \A x : x \in ToSet(s) <=> \E i \in 1..Len(s) : s[i] = x
  BY ElementsOf
<1> HIDE DEF t
<1>4. t \in Seq(S) /\ Len(t) = Len(s) + 1 /\ Len(s) \in Nat
      /\ (\A i \in 1..Len(s) : t[i] = s[i]) /\ t[Len(s) + 1] = e
  BY <1>1 DEF t
<1>5. \A i \in 1..Len(t) : i \in 1..Len(s) \/ i = Len(s) + 1
  BY <1>4
<1>6. Len(s) + 1 \in 1..Len(t) /\ \A i \in 1..Len(s) : i \in 1..Len(t)
  BY <1>4
<1>7. ToSet(t) = ToSet(s) \cup {e}
  BY <1>2, <1>3, <1>4, <1>5, <1>6
<1> QED BY <1>4, <1>7 DEF t

\* Splicing two lists puts their elements together.
LEMMA ElementsOfConcat ==
    ASSUME NEW S, NEW s \in Seq(S), NEW t \in Seq(S)
    PROVE  s \o t \in Seq(S) /\ ToSet(s \o t) = ToSet(s) \cup ToSet(t)
<1>1. /\ s \o t \in Seq(S) /\ Len(s \o t) = Len(s) + Len(t)
      /\ Len(s) \in Nat /\ Len(t) \in Nat
      /\ \A i \in 1..(Len(s) + Len(t)) :
            (s \o t)[i] = IF i <= Len(s) THEN s[i] ELSE t[i - Len(s)]
  BY ConcatProperties, LenProperties
<1>2. \A x : x \in ToSet(s \o t) => x \in ToSet(s) \cup ToSet(t)
  <2> TAKE x
  <2> HAVE x \in ToSet(s \o t)
  <2>1. PICK i \in 1..(Len(s) + Len(t)) : (s \o t)[i] = x
    BY <1>1, ElementsOf
  <2>2. CASE i <= Len(s)
    <3>1. i \in 1..Len(s) /\ s[i] = x BY <1>1, <2>1, <2>2
    <3> QED BY <3>1, ElementsOf
  <2>3. CASE ~(i <= Len(s))
    <3>1. i - Len(s) \in 1..Len(t) /\ t[i - Len(s)] = x BY <1>1, <2>1, <2>3
    <3> QED BY <3>1, ElementsOf
  <2> QED BY <2>2, <2>3
<1>3. ASSUME NEW x, x \in ToSet(s) PROVE x \in ToSet(s \o t)
  <2>1. PICK i \in 1..Len(s) : s[i] = x BY <1>3, ElementsOf
  <2>2. i \in 1..Len(s \o t) /\ (s \o t)[i] = x BY <1>1, <2>1
  <2> QED BY <1>1, <2>2, ElementsOf
<1>4. ASSUME NEW x, x \in ToSet(t) PROVE x \in ToSet(s \o t)
  <2>1. PICK i \in 1..Len(t) : t[i] = x BY <1>4, ElementsOf
  <2>2. i + Len(s) \in 1..Len(s \o t) /\ (s \o t)[i + Len(s)] = x BY <1>1, <2>1
  <2> QED BY <1>1, <2>2, ElementsOf
<1> QED BY <1>1, <1>2, <1>3, <1>4

\* The front of a list is one of its elements.
LEMMA HeadIsElement ==
    ASSUME NEW S, NEW s \in Seq(S), s # <<>>
    PROVE  Head(s) \in ToSet(s)
<1>1. Head(s) = s[1] /\ 1 \in 1..Len(s)
  BY EmptySeq, HeadTailProperties
<1> QED BY <1>1, ElementsOf

\* pop_front loses no element but the front one and adds none.
LEMMA ElementsOfTail ==
    ASSUME NEW S, NEW s \in Seq(S), s # <<>>
    PROVE  /\ Head(s) \in S /\ Tail(s) \in Seq(S)
           /\ ToSet(s) \ {Head(s)} \subseteq ToSet(Tail(s))
           /\ ToSet(Tail(s)) \subseteq ToSet(s)
<1> DEFINE t == Tail(s)
<1>1. /\ Len(s) \in Nat /\ Len(s) >= 1 /\ Head(s) = s[1] /\ Head(s) \in S
      /\ t \in Seq(S) /\ Len(t) = Len(s) - 1
      /\ \A i \in 1..Len(t) : t[i] = s[i + 1]
  BY EmptySeq, HeadTailProperties, LenProperties
<1> HIDE DEF t
<1>2. ASSUME NEW x \in ToSet(s), x # Head(s) PROVE x \in ToSet(t)
  <2>1. PICK i \in 1..Len(s) : s[i] = x BY ElementsOf
  <2>2. i - 1 \in 1..Len(t) /\ (i - 1) + 1 = i BY <1>1, <1>2, <2>1
  <2>3. t[i - 1] = x BY <1>1, <2>1, <2>2
  <2> QED BY <1>1, <2>2, <2>3, ElementsOf
<1>3. ASSUME NEW x \in ToSet(t) PROVE x \in ToSet(s)
  <2>1. PICK i \in 1..Len(t) : t[i] = x BY <1>1, ElementsOf
  <2>2. i + 1 \in 1..Len(s) /\ s[i + 1] = x BY <1>1, <2>1
  <2> QED BY <2>2, ElementsOf
<1> QED BY <1>1, <1>2, <1>3 DEF t

\* A list is a list over any set that holds its elements.
LEMMA ListOverElements ==
    ASSUME NEW S, NEW s \in Seq(S), NEW T, ToSet(s) \subseteq T
    PROVE  s \in Seq(T)
<1>1. /\ Len(s) \in Nat /\ s \in [1..Len(s) -> S]
      /\ \A i \in 1..Len(s) : s[i] \in T
  BY LenProperties, ElementsOf
<1>2. s \in [1..Len(s) -> T] BY <1>1
<1> QED BY <1>1, <1>2, SeqDef

\* A non-empty set of naturals has a least element, and Min returns it.
LEMMA MinOfNaturals ==
    ASSUME NEW T, T \subseteq Nat, T # {}
    PROVE  Min(T) \in T /\ \A y \in T : Min(T) <= y
<1>1. PICK x \in T : \A y \in T : ~(<<y, x>> \in OpToRel(<, Nat))
  BY NatLessThanWellFounded, WFMin
<1>2. ASSUME NEW y \in T PROVE x <= y
  <2>1. <<y, x>> \in OpToRel(<, Nat) <=> y < x
    BY <1>1 DEF OpToRel
  <2>2. ~(y < x)
    BY <1>1, <2>1, Zenon
  <2> QED BY <2>2
<1> QED BY <1>2 DEF Min

\* RemoveFirst erases by the first position of the element, if it has one.
LEMMA FirstPosition ==
    ASSUME NEW S, NEW s \in Seq(S), NEW e, e \in ToSet(s)
    PROVE  \E k \in 1..Len(s) : /\ s[k] = e
                                /\ \A j \in 1..Len(s) : s[j] = e => k <= j
                                /\ RemoveFirst(s, e) = RemoveAt(s, k)
<1> DEFINE I == {i \in 1..Len(s) : s[i] = e}
<1>1. I # {} /\ I \subseteq Nat
  BY ElementsOf, LenProperties
<1>2. RemoveFirst(s, e) = RemoveAt(s, Min(I))
  BY <1>1 DEF RemoveFirst, SelectInSeq
<1>3. Min(I) \in I /\ \A y \in I : Min(I) <= y
  <2> HIDE DEF I
  <2> QED BY <1>1, MinOfNaturals
<1> QED BY <1>2, <1>3

\* Erasing by position keeps every other position, in order.
LEMMA RemoveAtPositions ==
    ASSUME NEW S, NEW s \in Seq(S), NEW k \in 1..Len(s)
    PROVE  /\ RemoveAt(s, k) \in Seq(S)
           /\ Len(RemoveAt(s, k)) = Len(s) - 1
           /\ \A i \in 1..(Len(s) - 1) :
                 RemoveAt(s, k)[i] = IF i < k THEN s[i] ELSE s[i + 1]
<1> DEFINE l == SubSeq(s, 1, k - 1)
           r == SubSeq(s, k + 1, Len(s))
<1>1. Len(s) \in Nat /\ k \in Nat
  BY LenProperties
<1>2. /\ l \in Seq(S) /\ Len(l) = k - 1
      /\ \A i \in 1..(k - 1) : l[i] = s[i]
  BY <1>1, SubSeqProperties
<1>3. /\ r \in Seq(S) /\ Len(r) = Len(s) - k
      /\ \A i \in 1..(Len(s) - k) : r[i] = s[k + i]
  BY <1>1, SubSeqProperties
<1>4. RemoveAt(s, k) = l \o r
  BY DEF RemoveAt
<1> HIDE DEF l, r
<1>5. /\ l \o r \in Seq(S) /\ Len(l \o r) = Len(l) + Len(r)
      /\ \A i \in 1..(Len(l) + Len(r)) :
            (l \o r)[i] = IF i <= Len(l) THEN l[i] ELSE r[i - Len(l)]
  BY <1>2, <1>3, ConcatProperties
<1>6. ASSUME NEW i \in 1..(Len(s) - 1)
      PROVE  (l \o r)[i] = IF i < k THEN s[i] ELSE s[i + 1]
  <2>1. (l \o r)[i] = IF i <= k - 1 THEN l[i] ELSE r[i - (k - 1)]
    BY <1>1, <1>2, <1>3, <1>5
  <2>2. CASE i < k
    BY <1>1, <1>2, <2>1, <2>2
  <2>3. CASE ~(i < k)
    <3>1. i - (k - 1) \in 1..(Len(s) - k) /\ k + (i - (k - 1)) = i + 1
      BY <1>1, <2>3
    <3> QED BY <1>1, <1>3, <2>1, <2>3, <3>1
  <2> QED BY <2>2, <2>3
<1>7. Len(l \o r) = Len(s) - 1
  BY <1>1, <1>2, <1>3, <1>5
<1> QED BY <1>4, <1>5, <1>6, <1>7

\* Erasing by position loses no element but the one there and adds none.
LEMMA ElementsOfRemoveAt ==
    ASSUME NEW S, NEW s \in Seq(S), NEW k \in 1..Len(s)
    PROVE  /\ RemoveAt(s, k) \in Seq(S)
           /\ ToSet(s) \ {s[k]} \subseteq ToSet(RemoveAt(s, k))
           /\ ToSet(RemoveAt(s, k)) \subseteq ToSet(s)
<1> DEFINE r == RemoveAt(s, k)
<1>1. Len(s) \in Nat
  BY LenProperties
<1>2. /\ r \in Seq(S) /\ Len(r) = Len(s) - 1
      /\ \A i \in 1..(Len(s) - 1) : r[i] = IF i < k THEN s[i] ELSE s[i + 1]
  BY RemoveAtPositions
<1> HIDE DEF r
<1>3. ASSUME NEW x \in ToSet(s), x # s[k] PROVE x \in ToSet(r)
  <2>1. PICK i \in 1..Len(s) : s[i] = x BY ElementsOf
  <2>2. i # k BY <1>3, <2>1
  <2>3. CASE i < k
    <3>1. i \in 1..Len(r) /\ r[i] = x BY <1>1, <1>2, <2>1, <2>3
    <3> QED BY <1>2, <3>1, ElementsOf
  <2>4. CASE i > k
    <3>1. i - 1 \in 1..(Len(s) - 1) /\ ~(i - 1 < k) /\ (i - 1) + 1 = i
      BY <1>1, <2>4
    <3>2. i - 1 \in 1..Len(r) /\ r[i - 1] = x BY <1>2, <2>1, <3>1
    <3> QED BY <1>2, <3>2, ElementsOf
  <2> QED BY <1>1, <2>2, <2>3, <2>4
<1>4. ASSUME NEW x \in ToSet(r) PROVE x \in ToSet(s)
  <2>1. PICK i \in 1..Len(r) : r[i] = x BY <1>2, ElementsOf
  <2>2. i \in 1..Len(s) /\ i + 1 \in 1..Len(s) /\ (x = s[i] \/ x = s[i + 1])
    BY <1>1, <1>2, <2>1
  <2> QED BY <2>2, ElementsOf
<1> QED BY <1>2, <1>3, <1>4 DEF r

\* Erasing the first match of e loses no other element and adds none.
LEMMA ElementsOfRemoveFirst ==
    ASSUME NEW S, NEW s \in Seq(S), NEW e
    PROVE  /\ RemoveFirst(s, e) \in Seq(S)
           /\ ToSet(s) \ {e} \subseteq ToSet(RemoveFirst(s, e))
           /\ ToSet(RemoveFirst(s, e)) \subseteq ToSet(s)
<1>1. CASE e \notin ToSet(s)
  <2>1. RemoveFirst(s, e) = s
    BY <1>1, ElementsOf DEF RemoveFirst
  <2> QED BY <2>1
<1>2. CASE e \in ToSet(s)
  <2>1. PICK k \in 1..Len(s) : s[k] = e /\ RemoveFirst(s, e) = RemoveAt(s, k)
    BY <1>2, FirstPosition
  <2> QED BY <2>1, ElementsOfRemoveAt
<1> QED BY <1>1, <1>2

\* An entry that follows a match of e survives: after a splice, erasing the
\* first match of an element of the front part leaves the back part whole.
LEMMA RemoveFirstKeepsBack ==
    ASSUME NEW S, NEW s \in Seq(S), NEW t \in Seq(S), NEW e \in ToSet(s)
    PROVE  ToSet(t) \subseteq ToSet(RemoveFirst(s \o t, e))
<1> DEFINE u == s \o t
<1>1. /\ u \in Seq(S) /\ Len(u) = Len(s) + Len(t) /\ Len(s) \in Nat /\ Len(t) \in Nat
      /\ \A i \in 1..(Len(s) + Len(t)) : u[i] = IF i <= Len(s) THEN s[i] ELSE t[i - Len(s)]
  BY ConcatProperties, LenProperties
<1>2. e \in ToSet(u)
  BY ElementsOfConcat
<1> HIDE DEF u
<1>3. PICK k \in 1..Len(u) : /\ \A j \in 1..Len(u) : u[j] = e => k <= j
                             /\ RemoveFirst(u, e) = RemoveAt(u, k)
  BY <1>1, <1>2, FirstPosition
<1> DEFINE r == RemoveAt(u, k)
<1>4. k <= Len(s)
  <2>1. PICK j \in 1..Len(s) : s[j] = e BY ElementsOf
  <2>2. j \in 1..Len(u) /\ u[j] = e BY <1>1, <2>1
  <2> QED BY <1>1, <1>3, <2>2
<1>5. /\ r \in Seq(S) /\ Len(r) = Len(u) - 1
      /\ \A i \in 1..(Len(u) - 1) : r[i] = IF i < k THEN u[i] ELSE u[i + 1]
  BY <1>1, <1>3, RemoveAtPositions
<1> HIDE DEF r
<1>6. ASSUME NEW x \in ToSet(t) PROVE x \in ToSet(r)
  <2>1. PICK i \in 1..Len(t) : t[i] = x BY ElementsOf
  <2> DEFINE j == Len(s) + i
  <2>2. u[j] = x /\ j \in 1..Len(u) /\ j > k
    <3>1. j \in 1..(Len(s) + Len(t)) /\ ~(j <= Len(s)) /\ j - Len(s) = i /\ j > k
      BY <1>1, <1>4
    <3> QED BY <1>1, <2>1, <3>1
  <2> HIDE DEF j
  <2>3. j - 1 \in 1..(Len(u) - 1) /\ ~(j - 1 < k) /\ (j - 1) + 1 = j
    BY <1>1, <1>3, <2>2
  <2>4. j - 1 \in 1..Len(r) /\ r[j - 1] = x
    BY <1>5, <2>2, <2>3
  <2> QED BY <1>5, <2>4, ElementsOf
<1>7. ToSet(t) \subseteq ToSet(RemoveFirst(u, e))
  BY <1>3, <1>6, Zenon DEF r
<1> QED BY <1>7 DEF u
=============================================================================
