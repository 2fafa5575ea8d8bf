------------------------------ MODULE DataFacts ------------------------------
(***************************************************************************)
(* What the proofs about the trees use of natural numbers and sequences.   *)
(***************************************************************************)
EXTENDS Integers, Sequences, FiniteSets, SequencesExt,
        FiniteSetTheorems, SequenceTheorems, WellFoundedInduction, TLAPS

-----------------------------------------------------------------------------
(* Natural numbers *)

\* Every nonempty set of naturals has a least element: of the intervals below
\* its elements one is minimal.
LEMMA LeastNatural ==
  ASSUME NEW S \in SUBSET Nat, S # {}
  PROVE  \E m \in S : \A n \in S : m <= n
<1> DEFINE T == {1 .. n : n \in S}
<1>1. T \subseteq FiniteSubsetsOf(Nat)
  <2>1. \A n \in Nat : IsFiniteSet(1 .. n) /\ 1 .. n \in SUBSET Nat
    BY FS_Interval
  <2>2. QED
    BY <2>1 DEF FiniteSubsetsOf
<1>2. T # {}
  OBVIOUS
<1>3. IsWellFoundedOn(StrictSubsetOrdering(Nat), FiniteSubsetsOf(Nat))
  BY FS_StrictSubsetOrderingWellFounded
<1> HIDE DEF T
<1>4. PICK x \in T : \A y \in T : ~ (<<y, x>> \in StrictSubsetOrdering(Nat))
  BY <1>1, <1>2, <1>3, WFMin
<1>5. PICK m \in S : x = 1 .. m
  BY DEF T
<1>6. ASSUME NEW n \in S PROVE m <= n
  <2>1. SUFFICES ASSUME n < m PROVE FALSE
    OBVIOUS
  <2>2. 1 .. n \subseteq 1 .. m /\ 1 .. n # 1 .. m
    <3>1. m \in 1 .. m /\ m \notin 1 .. n
      BY <2>1
    <3>2. QED
      BY <2>1, <3>1
  <2>3. 1 .. n \in SUBSET Nat /\ 1 .. m \in SUBSET Nat
    OBVIOUS
  <2>4. <<1 .. n, 1 .. m>> \in StrictSubsetOrdering(Nat)
    BY <2>2, <2>3 DEF StrictSubsetOrdering
  <2>5. 1 .. n \in T
    BY DEF T
  <2>6. QED
    BY <1>4, <1>5, <2>4, <2>5
<1>7. QED
  BY <1>6

\* A set of indexes that is closed downwards is the interval of its length.
LEMMA InitialIndexes ==
  ASSUME NEW c \in Nat, NEW S \in SUBSET (1 .. c),
         \A i \in S : \A j \in 1 .. i : j \in S
  PROVE  Cardinality(S) \in 0 .. c /\ S = 1 .. Cardinality(S)
<1>1. \A b \in Nat : IsFiniteSet(1 .. b) /\ Cardinality(1 .. b) = b
  <2> TAKE b \in Nat
  <2>1. Cardinality(1 .. b) = IF 1 > b THEN 0 ELSE b - 1 + 1
    BY FS_Interval
  <2>2. QED
    BY <2>1, FS_Interval
<1>2. /\ IsFiniteSet(S) /\ Cardinality(S) <= c /\ Cardinality(S) \in Nat
  <2> DEFINE T == 1 .. c
  <2>1. IsFiniteSet(T) /\ Cardinality(T) = c /\ S \in SUBSET T
    BY <1>1
  <2> HIDE DEF T
  <2>2. IsFiniteSet(S) /\ Cardinality(S) <= c
    BY <2>1, FS_Subset
  <2>3. QED
    BY <2>2, FS_CardinalityType
<1> DEFINE m == Cardinality(S)
<1>3. ASSUME NEW i \in S PROVE i <= m
  <2>1. i \in Nat /\ 1 .. i \subseteq S
    OBVIOUS
  <2>2. Cardinality(1 .. i) = i /\ Cardinality(1 .. i) <= m
    BY <1>1, <1>2, <2>1, FS_Subset
  <2>3. QED
    BY <2>2
<1>4. S \subseteq 1 .. m
  BY <1>2, <1>3
<1>5. IsFiniteSet(1 .. m) /\ Cardinality(1 .. m) = m
  BY <1>1, <1>2
<1>6. S = 1 .. m
  BY <1>4, <1>5, FS_Subset
<1>7. QED
  BY <1>2, <1>6

-----------------------------------------------------------------------------
(* Finite sets of naturals *)

Below(S, k) == {j \in S : j < k}

\* The m smallest elements of S.
Lowest(S, m) == {k \in S : Cardinality(Below(S, k)) < m}

\* There are m of them, and top is the largest.
TopOfLowest(S, m, top) ==
  /\ top \in S
  /\ Lowest(S, m) = {k \in S : k <= top}
  /\ Cardinality(Lowest(S, m)) = m

\* The m smallest elements of a finite set are m elements up to some largest
\* one: one more than the m - 1 smallest ones.
LEMMA LowestElements ==
  ASSUME NEW S \in SUBSET Nat, IsFiniteSet(S), NEW m \in 1 .. Cardinality(S)
  PROVE  \E top : TopOfLowest(S, m, top)
<1> DEFINE c == Cardinality(S)
           T == {n \in 1 .. c : ~\E top : TopOfLowest(S, n, top)}
<1>1. SUFFICES ASSUME T # {} PROVE FALSE
  OBVIOUS
<1>2. T \in SUBSET Nat
  OBVIOUS
<1>3. PICK n \in T : \A i \in T : n <= i
  BY <1>1, <1>2, LeastNatural
<1>4. n \in 1 .. c /\ ~\E top : TopOfLowest(S, n, top)
  OBVIOUS
<1> HIDE DEF T
<1>5. PICK low : low = Lowest(S, n - 1)
  OBVIOUS
<1>6. \A k \in S : /\ Below(S, k) \subseteq S /\ IsFiniteSet(Below(S, k))
                   /\ Cardinality(Below(S, k)) \in Nat
  <2> TAKE k \in S
  <2>1. Below(S, k) \in SUBSET S
    BY DEF Below
  <2>2. QED
    BY <2>1, FS_Subset, FS_CardinalityType
<1>7. /\ low \subseteq S /\ IsFiniteSet(low) /\ Cardinality(low) = n - 1
      /\ \A j \in low, k \in S \ low : j < k
  <2>1. low \in SUBSET S
    BY <1>5 DEF Lowest
  <2>2. IsFiniteSet(low)
    BY <2>1, FS_Subset
  <2>3. CASE n = 1
    <3>1. \A k \in S : ~(Cardinality(Below(S, k)) < 0)
      BY <1>6
    <3>2. n - 1 = 0
      BY <2>3
    <3>3. low = {}
      BY <1>5, <3>1, <3>2 DEF Lowest
    <3>4. Cardinality(low) = n - 1
      BY <3>2, <3>3, FS_EmptySet
    <3>5. \A j : j \notin low
      BY <3>3
    <3>6. low \subseteq S
      BY <2>1
    <3>7. \A j \in low, k \in S \ low : j < k
      BY <3>5
    <3>8. QED
      BY <2>2, <3>4, <3>6, <3>7
  <2>4. CASE n # 1
    <3>1. n - 1 \in 1 .. c /\ n - 1 \notin T
      <4>1. c \in Nat /\ n \in Nat /\ n - 1 < n
        BY <1>4, FS_CardinalityType
      <4>2. n - 1 \in 1 .. c
        BY <1>4, <2>4, <4>1
      <4>3. ~(n <= n - 1)
        BY <4>1
      <4>4. QED
        BY <1>3, <4>2, <4>3
    <3>2. PICK top : TopOfLowest(S, n - 1, top)
      BY <3>1 DEF T
    <3>3. /\ top \in S /\ low = {k \in S : k <= top}
          /\ Cardinality(low) = n - 1
      BY <1>5, <3>2 DEF TopOfLowest
    <3>4. ASSUME NEW j \in low, NEW k \in S \ low PROVE j < k
      <4>1. j \in Nat /\ k \in Nat /\ top \in Nat
        BY <2>1, <3>3
      <4>2. j <= top /\ ~(k <= top)
        BY <3>3
      <4>3. QED
        BY <4>1, <4>2
    <3>5. QED
      BY <2>1, <2>2, <3>3, <3>4
  <2>5. QED
    BY <2>3, <2>4
<1>8. S \ low # {} /\ S \ low \in SUBSET Nat
  <2>1. c \in Nat /\ n - 1 < c
    BY <1>4, FS_CardinalityType
  <2>2. low # S
    BY <1>7, <2>1
  <2>3. QED
    BY <1>7, <2>2
<1>9. PICK top \in S \ low : \A k \in S \ low : top <= k
  BY <1>8, LeastNatural
<1>10. Below(S, top) = low
  <2>1. ASSUME NEW j \in S, j < top PROVE j \in low
    <3>1. j \in Nat /\ top \in Nat
      OBVIOUS
    <3>2. QED
      BY <1>9, <2>1, <3>1
  <2>2. \A j \in low : j \in S /\ j < top
    BY <1>7
  <2>3. QED
    BY <2>1, <2>2 DEF Below
<1>11. Cardinality(Below(S, top)) = n - 1
  BY <1>7, <1>10
<1>12. Lowest(S, n) = {k \in S : k <= top}
  <2>1. ASSUME NEW k \in S, k <= top PROVE Cardinality(Below(S, k)) < n
    <3>1. k \in Nat /\ top \in Nat /\ \A j \in S : j \in Nat
      OBVIOUS
    <3>2. \A j \in S : j < k => j < top
      BY <2>1, <3>1
    <3>3. Below(S, k) \in SUBSET Below(S, top)
      BY <3>2 DEF Below
    <3>4. Cardinality(Below(S, k)) <= n - 1
      BY <1>6, <1>11, <3>3, FS_Subset
    <3>5. QED
      BY <1>4, <1>6, <3>4
  <2>2. ASSUME NEW k \in S, ~(k <= top) PROVE ~(Cardinality(Below(S, k)) < n)
    <3>1. k \in Nat /\ top \in Nat /\ \A j \in S : j \in Nat
      OBVIOUS
    <3>2. top \notin Below(S, top)
      BY <3>1 DEF Below
    <3>3. Below(S, top) \cup {top} \in SUBSET Below(S, k)
      <4>1. top < k /\ \A j \in S : j < top => j < k
        BY <2>2, <3>1
      <4>2. QED
        BY <4>1 DEF Below
    <3>4. Cardinality(Below(S, top) \cup {top}) = n - 1 + 1
      BY <1>6, <1>11, <3>2, FS_AddElement
    <3>5. Cardinality(Below(S, top) \cup {top}) <= Cardinality(Below(S, k))
      BY <1>6, <3>3, FS_Subset
    <3>6. QED
      BY <1>4, <1>6, <3>4, <3>5
  <2>3. QED
    BY <2>1, <2>2 DEF Lowest
<1>13. Lowest(S, n) = low \cup {top}
  <2>1. \A k \in S : k <= top <=> k \in low \/ k = top
    <3> TAKE k \in S
    <3>1. k \in Nat /\ top \in Nat
      OBVIOUS
    <3>2. k \in low => k < top
      BY <1>7
    <3>3. k \notin low => top <= k
      BY <1>9
    <3>4. QED
      BY <3>1, <3>2, <3>3
  <2>2. QED
    BY <1>7, <1>12, <2>1
<1>14. Cardinality(Lowest(S, n)) = n
  <2>1. Cardinality(low \cup {top}) = n - 1 + 1
    BY <1>7, FS_AddElement
  <2>2. QED
    BY <1>4, <1>13, <2>1
<1>15. TopOfLowest(S, n, top)
  BY <1>12, <1>14 DEF TopOfLowest
<1>16. QED
  BY <1>4, <1>15

\* A finite nonempty set of naturals has a greatest element.
LEMMA GreatestNatural ==
  ASSUME NEW S \in SUBSET Nat, IsFiniteSet(S), S # {}
  PROVE  \E m \in S : \A k \in S : k <= m
<1>1. Cardinality(S) \in Nat /\ Cardinality(S) # 0
  BY FS_CardinalityType, FS_EmptySet
<1>2. Cardinality(S) \in 1 .. Cardinality(S)
  BY <1>1
<1>3. PICK top : TopOfLowest(S, Cardinality(S), top)
  BY <1>2, LowestElements
<1>4. Lowest(S, Cardinality(S)) = S
  <2>1. Lowest(S, Cardinality(S)) \in SUBSET S
    BY DEF Lowest
  <2>2. Cardinality(Lowest(S, Cardinality(S))) = Cardinality(S)
    BY <1>3 DEF TopOfLowest
  <2>3. QED
    BY <2>1, <2>2, FS_Subset
<1>5. QED
  BY <1>3, <1>4 DEF TopOfLowest

\* Where a key that is not in S falls among the m smallest elements.
LEMMA KeyAmongLowest ==
  ASSUME NEW S \in SUBSET Nat, IsFiniteSet(S), NEW m \in Nat, NEW top,
         TopOfLowest(S, m, top), NEW k \in Nat \ S
  PROVE  Cardinality(Below(S, k)) >= m <=> k > top
<1>1. PICK low, b : low = Lowest(S, m) /\ b = Below(S, k)
  OBVIOUS
<1>2. /\ low = {j \in S : j <= top} /\ Cardinality(low) = m /\ top \in S
      /\ b = {j \in S : j < k}
  BY <1>1 DEF TopOfLowest, Below
<1>3. \A j \in S : j \in Nat
  OBVIOUS
<1>4. /\ IsFiniteSet(low) /\ IsFiniteSet(b) /\ Cardinality(b) \in Nat
      /\ top \in Nat /\ k # top
  <2>1. low \in SUBSET S /\ b \in SUBSET S
    BY <1>2
  <2>2. top \in Nat /\ k # top
    BY <1>2, <1>3
  <2>3. QED
    BY <2>1, <2>2, FS_Subset, FS_CardinalityType
<1>5. CASE k > top
  <2>1. low \in SUBSET b
    <3>1. \A j \in S : j <= top => j < k
      BY <1>4, <1>5, <1>3
    <3>2. QED
      BY <1>2, <3>1
  <2>2. Cardinality(low) <= Cardinality(b)
    BY <1>4, <2>1, FS_Subset
  <2>3. QED
    BY <1>1, <1>2, <1>4, <1>5, <2>2
<1>6. CASE ~(k > top)
  <2>1. k < top
    BY <1>4, <1>6
  <2>2. PICK c : c = b \cup {top}
    OBVIOUS
  <2>3. top \notin b /\ c \in SUBSET low
    <3>1. \A j \in S : j < k => j <= top
      BY <1>4, <1>3, <2>1
    <3>2. ~(top < k) /\ top <= top
      BY <1>4, <2>1
    <3>3. QED
      BY <1>2, <2>2, <3>1, <3>2
  <2>4. Cardinality(c) = Cardinality(b) + 1
    BY <1>4, <2>2, <2>3, FS_AddElement
  <2>5. Cardinality(c) <= Cardinality(low)
    BY <1>4, <2>3, FS_Subset
  <2>6. QED
    BY <1>1, <1>2, <1>4, <1>6, <2>4, <2>5
<1>7. QED
  BY <1>5, <1>6

-----------------------------------------------------------------------------
(* Sequences *)

\* A part of a sequence.
LEMMA SubSeqType ==
  ASSUME NEW S, NEW s \in Seq(S), NEW a \in Nat, NEW b \in Nat,
         a >= 1, b <= Len(s), a <= b + 1
  PROVE  SubSeq(s, a, b) \in Seq(S) /\ Len(SubSeq(s, a, b)) = b + 1 - a
<1>1. \A i \in a .. b : s[i] \in S
  OBVIOUS
<1>2. QED
  BY <1>1, SubSeqProperties

\* A sequence with an element inserted.
LEMMA InsertAtType ==
  ASSUME NEW S, NEW s \in Seq(S), NEW i \in 1 .. Len(s) + 1, NEW e \in S
  PROVE  InsertAt(s, i, e) \in Seq(S) /\ Len(InsertAt(s, i, e)) = Len(s) + 1
<1>1. /\ SubSeq(s, 1, i - 1) \in Seq(S)
      /\ Len(SubSeq(s, 1, i - 1)) = i - 1
  <2>1. i - 1 \in Nat /\ i - 1 <= Len(s)
    OBVIOUS
  <2>2. QED
    BY <2>1, SubSeqType
<1>2. /\ SubSeq(s, i, Len(s)) \in Seq(S)
      /\ Len(SubSeq(s, i, Len(s))) = Len(s) + 1 - i
  BY SubSeqType
<1>3. /\ SubSeq(s, 1, i - 1) \o <<e>> \in Seq(S)
      /\ Len(SubSeq(s, 1, i - 1) \o <<e>>) = i
  BY <1>1, ConcatProperties
<1> DEFINE front == SubSeq(s, 1, i - 1) \o <<e>>
           back == SubSeq(s, i, Len(s))
<1>4. /\ front \o back \in Seq(S)
      /\ Len(front \o back) = Len(front) + Len(back)
  <2> HIDE DEF front, back
  <2>1. front \in Seq(S) /\ back \in Seq(S)
    BY <1>2, <1>3 DEF front, back
  <2>2. QED
    BY <2>1, ConcatProperties
<1>5. InsertAt(s, i, e) = front \o back
  BY DEF InsertAt
<1>6. Len(front) = i /\ Len(back) = Len(s) + 1 - i
  BY <1>2, <1>3
<1>7. QED
  <2> HIDE DEF front, back
  <2> QED
    BY <1>4, <1>5, <1>6

\* A sequence over a set is one over any larger set.
LEMMA SeqMonotone ==
  ASSUME NEW S, NEW T, S \subseteq T, NEW s \in Seq(S)
  PROVE  s \in Seq(T)
  OBVIOUS

\* The elements of a part of a sequence.
LEMMA SubSeqElement ==
  ASSUME NEW S, NEW s \in Seq(S), NEW a \in Nat, NEW b \in Nat,
         a >= 1, b <= Len(s), a <= b + 1
  PROVE  /\ SubSeq(s, a, b) \in Seq(S) /\ Len(SubSeq(s, a, b)) = b + 1 - a
         /\ \A i \in 1 .. b + 1 - a : SubSeq(s, a, b)[i] = s[a + i - 1]
<1>1. \A i \in a .. b : s[i] \in S
  OBVIOUS
<1>2. QED
  BY <1>1, SubSeqProperties

\* r is s with e inserted as its i-th element.
Inserted(r, s, i, e) ==
  /\ Len(r) = Len(s) + 1
  /\ \A j \in 1 .. Len(s) + 1 :
       r[j] = IF j < i THEN s[j] ELSE IF j = i THEN e ELSE s[j - 1]

\* The elements of a sequence with one inserted.
LEMMA InsertAtElement ==
  ASSUME NEW S, NEW s \in Seq(S), NEW i \in 1 .. Len(s) + 1, NEW e \in S
  PROVE  Inserted(InsertAt(s, i, e), s, i, e)
<1> DEFINE low == SubSeq(s, 1, i - 1)
           front == low \o <<e>>
           back == SubSeq(s, i, Len(s))
<1>1. /\ low \in Seq(S) /\ Len(low) = i - 1
      /\ \A j \in 1 .. i - 1 : low[j] = s[j]
  <2>1. i - 1 \in Nat /\ i - 1 <= Len(s)
    OBVIOUS
  <2>2. \A j \in 1 .. i - 1 : 1 + j - 1 = j
    OBVIOUS
  <2>3. QED
    BY <2>1, <2>2, SubSeqElement
<1>2. /\ back \in Seq(S) /\ Len(back) = Len(s) + 1 - i
      /\ \A j \in 1 .. Len(s) + 1 - i : back[j] = s[i + j - 1]
  BY SubSeqElement
<1> HIDE DEF low, back
<1>3. /\ front \in Seq(S) /\ Len(front) = i
      /\ \A j \in 1 .. i : front[j] = IF j < i THEN s[j] ELSE e
  <2>1. <<e>> \in Seq(S) /\ Len(<<e>>) = 1 /\ <<e>>[1] = e
    OBVIOUS
  <2>2. /\ front \in Seq(S) /\ Len(front) = i - 1 + 1
        /\ \A j \in 1 .. i - 1 + 1 :
             front[j] = IF j <= i - 1 THEN low[j] ELSE <<e>>[j - (i - 1)]
    BY <1>1, <2>1, ConcatProperties
  <2> HIDE DEF front
  <2>3. QED
    BY <1>1, <2>1, <2>2
<1> HIDE DEF front
<1>4. /\ front \o back \in Seq(S)
      /\ Len(front \o back) = Len(s) + 1
      /\ \A j \in 1 .. Len(s) + 1 :
           (front \o back)[j] = IF j <= i THEN front[j] ELSE back[j - i]
  <2>1. /\ front \o back \in Seq(S)
        /\ Len(front \o back) = Len(front) + Len(back)
        /\ \A j \in 1 .. Len(front) + Len(back) :
             (front \o back)[j] =
               IF j <= Len(front) THEN front[j] ELSE back[j - Len(front)]
    BY <1>2, <1>3, ConcatProperties
  <2>2. Len(front) = i /\ Len(front) + Len(back) = Len(s) + 1
    BY <1>2, <1>3
  <2>3. QED
    BY <2>1, <2>2
<1>5. PICK r : r = InsertAt(s, i, e)
  OBVIOUS
<1>6. r = front \o back
  BY <1>5 DEF InsertAt, front, low, back
<1>7. /\ Len(r) = Len(s) + 1
      /\ \A j \in 1 .. Len(s) + 1 :
           r[j] = IF j <= i THEN front[j] ELSE back[j - i]
  BY <1>4, <1>6
<1>8. ASSUME NEW j \in 1 .. Len(s) + 1
      PROVE  r[j] = IF j < i THEN s[j] ELSE IF j = i THEN e ELSE s[j - 1]
  <2>1. CASE j <= i
    <3>1. j \in 1 .. i /\ r[j] = front[j]
      BY <1>7, <2>1
    <3>2. QED
      BY <1>3, <2>1, <3>1
  <2>2. CASE j > i
    <3>1. /\ j - i \in 1 .. Len(s) + 1 - i /\ i + (j - i) - 1 = j - 1
          /\ ~(j <= i) /\ ~(j < i) /\ j # i
      BY <2>2
    <3>2. r[j] = back[j - i]
      BY <1>7, <3>1
    <3>3. r[j] = s[j - 1]
      BY <1>2, <3>1, <3>2
    <3>4. QED
      BY <3>1, <3>3
  <2>3. QED
    BY <2>1, <2>2
<1>9. QED
  BY <1>5, <1>7, <1>8 DEF Inserted
=============================================================================
