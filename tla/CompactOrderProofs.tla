------------------------- MODULE CompactOrderProofs -------------------------
(***************************************************************************)
(* Proofs about the tree of blindi_btree_seqtree.h, for any keys and any   *)
(* sizes of nodes: every key that was inserted and not erased is found,    *)
(* whatever was split, merged or balanced since.  FoundInv is an inductive *)
(* invariant: there are sets kin[n] of the keys below the nodes, and the   *)
(* separators part them, in the middle of a call too.  With it CompactInv  *)
(* is one, which has the leaves as one list in the order of their keys.    *)
(***************************************************************************)
EXTENDS CompactEraseProofs

-----------------------------------------------------------------------------
(* Separators and the keys they part *)

\* The first m elements of K and the elements of C before and between them.
Parts(K, m, C, kin) ==
  \A i \in 1 .. m + 1, j \in 1 .. m : \A k \in kin[C[i]] : K[j] < k <=> j < i
\* Separators and keys are numbers, and there are some below every child.
NatUpTo(K, m) == \A j \in 1 .. m : K[j] \in Nat
NatBelow(C, m, kin) == \A i \in 1 .. m : \A k \in kin[C[i]] : k \in Nat
SomeBelow(C, m, kin) == \A i \in 1 .. m : kin[C[i]] # {}

\* The keys below the first m children lie on one side of x.
AllAtMost(C, m, x, kin) == \A i \in 1 .. m : \A k \in kin[C[i]] : k <= x
AllAbove(C, m, x, kin) == \A i \in 1 .. m : \A k \in kin[C[i]] : x < k

\* Two nodes joined around a separator that lies between their keys.
LEMMA JoinParts ==
  ASSUME NEW m \in Nat, NEW n \in Nat, NEW sep \in Nat, NEW kin,
         NEW K, NEW C, NEW LK, NEW LC, NEW RK, NEW RC,
         GluedKeys(K, LK, m, sep, RK, n), GluedChildren(C, LC, m + 1, RC, n + 1),
         Parts(LK, m, LC, kin), Parts(RK, n, RC, kin),
         NatUpTo(LK, m), NatUpTo(RK, n),
         NatBelow(LC, m + 1, kin), NatBelow(RC, n + 1, kin),
         SomeBelow(LC, m + 1, kin), SomeBelow(RC, n + 1, kin),
         AllAtMost(LC, m + 1, sep, kin), AllAbove(RC, n + 1, sep, kin)
  PROVE  Parts(K, m + 1 + n, C, kin)
<1>1. \A j \in 1 .. m : LK[j] \in Nat /\ LK[j] < sep
  <2>1. SUFFICES ASSUME NEW j \in 1 .. m PROVE LK[j] \in Nat /\ LK[j] < sep
    OBVIOUS
  <2>2. m + 1 \in 1 .. m + 1 /\ j < m + 1
    OBVIOUS
  <2>3. PICK k \in kin[LC[m + 1]] : k \in Nat
    BY <2>2 DEF SomeBelow, NatBelow
  <2>4. LK[j] < k
    BY <2>2, <2>3 DEF Parts
  <2>5. k <= sep
    BY <2>2, <2>3 DEF AllAtMost
  <2>6. LK[j] \in Nat
    BY DEF NatUpTo
  <2>7. QED
    BY <2>3, <2>4, <2>5, <2>6
<1>2. \A j \in 1 .. n : RK[j] \in Nat /\ sep < RK[j]
  <2>1. SUFFICES ASSUME NEW j \in 1 .. n PROVE RK[j] \in Nat /\ sep < RK[j]
    OBVIOUS
  <2>2. 1 \in 1 .. n + 1 /\ ~(j < 1)
    OBVIOUS
  <2>3. PICK k \in kin[RC[1]] : k \in Nat
    BY <2>2 DEF SomeBelow, NatBelow
  <2>4. ~(RK[j] < k)
    BY <2>2, <2>3 DEF Parts
  <2>5. sep < k
    BY <2>2, <2>3 DEF AllAbove
  <2>6. RK[j] \in Nat
    BY DEF NatUpTo
  <2>7. QED
    BY <2>3, <2>4, <2>5, <2>6
<1>3. SUFFICES ASSUME NEW i \in 1 .. m + 1 + n + 1, NEW j \in 1 .. m + 1 + n,
                      NEW k \in kin[C[i]]
               PROVE  K[j] < k <=> j < i
  BY DEF Parts
<1>4. CASE i \in 1 .. m + 1
  <2>1. C[i] = LC[i]
    BY <1>4 DEF GluedChildren
  <2>2. k \in Nat /\ k <= sep
    BY <1>4, <2>1 DEF NatBelow, AllAtMost
  <2>3. CASE j \in 1 .. m
    <3>1. K[j] = LK[j]
      BY <2>3 DEF GluedKeys
    <3>2. QED
      BY <1>4, <2>1, <2>3, <3>1 DEF Parts
  <2>4. CASE j = m + 1
    <3>1. K[j] = sep
      BY <2>4 DEF GluedKeys
    <3>2. QED
      BY <1>4, <2>2, <2>4, <3>1
  <2>5. CASE j > m + 1
    <3>1. j - (m + 1) \in 1 .. n /\ m + 1 + (j - (m + 1)) = j
      BY <2>5
    <3>2. K[j] = RK[j - (m + 1)]
      BY <3>1 DEF GluedKeys
    <3>3. sep < K[j] /\ K[j] \in Nat
      BY <1>2, <3>1, <3>2
    <3>4. QED
      BY <1>4, <2>2, <2>5, <3>3
  <2>6. QED
    BY <2>3, <2>4, <2>5
<1>5. CASE i > m + 1
  <2>1. PICK a : a = i - (m + 1)
    OBVIOUS
  <2>2. a \in 1 .. n + 1 /\ m + 1 + a = i
    BY <1>5, <2>1
  <2>3. C[i] = RC[a]
    BY <2>2 DEF GluedChildren
  <2>4. k \in kin[RC[a]] /\ k \in Nat /\ sep < k
    BY <2>2, <2>3 DEF NatBelow, AllAbove
  <2>5. CASE j \in 1 .. m
    <3>1. K[j] = LK[j]
      BY <2>5 DEF GluedKeys
    <3>2. K[j] < sep /\ K[j] \in Nat
      BY <1>1, <2>5, <3>1
    <3>3. QED
      BY <1>5, <2>4, <2>5, <3>2
  <2>6. CASE j = m + 1
    <3>1. K[j] = sep
      BY <2>6 DEF GluedKeys
    <3>2. QED
      BY <1>5, <2>4, <2>6, <3>1
  <2>7. CASE j > m + 1
    <3>1. PICK b : b = j - (m + 1)
      OBVIOUS
    <3>2. b \in 1 .. n /\ m + 1 + b = j /\ (b < a <=> j < i)
      BY <2>2, <2>7, <3>1
    <3>3. K[j] = RK[b]
      BY <3>2 DEF GluedKeys
    <3>4. RK[b] < k <=> b < a
      BY <2>2, <2>4, <3>2 DEF Parts
    <3>5. QED
      BY <3>2, <3>3, <3>4
  <2>8. QED
    BY <2>5, <2>6, <2>7
<1>6. QED
  BY <1>4, <1>5

\* A node cut in two at a separator, which lies between the keys of its
\* halves.
LEMMA CutParts ==
  ASSUME NEW m \in Nat, NEW n \in Nat, NEW sep \in Nat, NEW kin,
         NEW K, NEW C, NEW LK, NEW LC, NEW RK, NEW RC,
         GluedKeys(K, LK, m, sep, RK, n), GluedChildren(C, LC, m + 1, RC, n + 1),
         Parts(K, m + 1 + n, C, kin), NatBelow(C, m + 1 + n + 1, kin)
  PROVE  /\ Parts(LK, m, LC, kin) /\ Parts(RK, n, RC, kin)
         /\ AllAtMost(LC, m + 1, sep, kin) /\ AllAbove(RC, n + 1, sep, kin)
<1>1. ASSUME NEW i \in 1 .. m + 1, NEW k \in kin[LC[i]]
      PROVE  k <= sep /\ \A j \in 1 .. m : LK[j] < k <=> j < i
  <2>1. C[i] = LC[i] /\ K[m + 1] = sep
    BY DEF GluedChildren, GluedKeys
  <2>2. i \in 1 .. m + 1 + n + 1 /\ m + 1 \in 1 .. m + 1 + n /\ ~(m + 1 < i)
    OBVIOUS
  <2>3. ~(sep < k)
    BY <1>1, <2>1, <2>2 DEF Parts
  <2>4. k \in Nat
    BY <1>1, <2>1, <2>2 DEF NatBelow
  <2>5. ASSUME NEW j \in 1 .. m PROVE LK[j] < k <=> j < i
    <3>1. j \in 1 .. m + 1 + n
      OBVIOUS
    <3>2. K[j] < k <=> j < i
      BY <1>1, <2>1, <2>2, <3>1 DEF Parts
    <3>3. K[j] = LK[j]
      BY DEF GluedKeys
    <3>4. QED
      BY <3>2, <3>3
  <2>6. k <= sep
    BY <2>3, <2>4
  <2>7. QED
    BY <2>5, <2>6
<1>2. ASSUME NEW i \in 1 .. n + 1, NEW k \in kin[RC[i]]
      PROVE  sep < k /\ \A j \in 1 .. n : RK[j] < k <=> j < i
  <2>1. C[m + 1 + i] = RC[i] /\ K[m + 1] = sep
    BY DEF GluedChildren, GluedKeys
  <2>2. m + 1 + i \in 1 .. m + 1 + n + 1 /\ m + 1 \in 1 .. m + 1 + n /\ m + 1 < m + 1 + i
    OBVIOUS
  <2>3. sep < k
    BY <1>2, <2>1, <2>2 DEF Parts
  <2>4. ASSUME NEW j \in 1 .. n PROVE RK[j] < k <=> j < i
    <3>1. m + 1 + j \in 1 .. m + 1 + n /\ (m + 1 + j < m + 1 + i <=> j < i)
      OBVIOUS
    <3>2. K[m + 1 + j] < k <=> m + 1 + j < m + 1 + i
      BY <1>2, <2>1, <2>2, <3>1 DEF Parts
    <3>3. K[m + 1 + j] = RK[j]
      BY DEF GluedKeys
    <3>4. QED
      BY <3>1, <3>2, <3>3
  <2>5. QED
    BY <2>3, <2>4
<1>3. QED
  BY <1>1, <1>2 DEF Parts, AllAtMost, AllAbove

\* Child s is split at sep, and its new half n enters beside it.
LEMMA InsertParts ==
  ASSUME NEW c \in Nat, NEW s \in 1 .. c + 1, NEW sep \in Nat, NEW kin, NEW n,
         NEW K, NEW C, NEW K2, NEW C2,
         PutIn(K2, K, c, s, sep), PutIn(C2, C, c + 1, s + 1, n),
         Parts(K, c, C, kin), NatUpTo(K, c), NatBelow(C, c + 1, kin),
         SomeBelow(C, c + 1, kin),
         \A k \in kin[n] : k \in Nat, \E k \in kin[n] : TRUE,
         \A k \in kin[C[s]] : k <= sep, \A k \in kin[n] : sep < k,
         \A j \in 1 .. c : \A k \in kin[n] : K[j] < k <=> j < s
  PROVE  Parts(K2, c + 1, C2, kin)
<1>1. ASSUME NEW j \in 1 .. c, j < s PROVE K[j] < sep
  <2>1. PICK k \in kin[C[s]] : k \in Nat
    BY DEF SomeBelow, NatBelow
  <2>2. K[j] < k
    BY <1>1, <2>1 DEF Parts
  <2>3. K[j] \in Nat
    BY DEF NatUpTo
  <2>4. k <= sep
    BY <2>1
  <2>5. QED
    BY <2>1, <2>2, <2>3, <2>4
<1>2. ASSUME NEW j \in 1 .. c, j >= s PROVE sep < K[j]
  <2>1. PICK k \in kin[n] : k \in Nat
    OBVIOUS
  <2>2. ~(K[j] < k) /\ sep < k
    BY <1>2, <2>1
  <2>3. K[j] \in Nat
    BY DEF NatUpTo
  <2>4. QED
    BY <2>1, <2>2, <2>3
<1>3. ASSUME NEW i \in 1 .. c + 1, NEW k \in kin[C[i]]
      PROVE  k \in Nat /\ (sep < k <=> s < i)
  <2>1. k \in Nat
    BY <1>3 DEF NatBelow
  <2>2. CASE i = s
    BY <1>3, <2>1, <2>2
  <2>3. CASE i < s
    <3>1. i \in 1 .. c /\ ~(i < i)
      BY <2>3
    <3>2. ~(K[i] < k)
      BY <1>3, <3>1 DEF Parts
    <3>3. K[i] < sep
      BY <1>1, <2>3, <3>1
    <3>4. K[i] \in Nat
      BY <3>1 DEF NatUpTo
    <3>5. QED
      BY <2>1, <2>3, <3>2, <3>3, <3>4
  <2>4. CASE i > s
    <3>1. s \in 1 .. c /\ s < i /\ s >= s
      BY <2>4
    <3>2. K[s] < k
      BY <1>3, <3>1 DEF Parts
    <3>3. sep < K[s]
      BY <1>2, <3>1
    <3>4. K[s] \in Nat
      BY <3>1 DEF NatUpTo
    <3>5. QED
      BY <2>1, <2>4, <3>2, <3>3, <3>4
  <2>5. QED
    BY <2>2, <2>3, <2>4
<1>4. SUFFICES ASSUME NEW i \in 1 .. c + 2, NEW j \in 1 .. c + 1, NEW k \in kin[C2[i]]
               PROVE  K2[j] < k <=> j < i
  BY DEF Parts
<1>5. /\ j < s => K2[j] = K[j] /\ j \in 1 .. c
      /\ j = s => K2[j] = sep
      /\ j > s => K2[j] = K[j - 1] /\ j - 1 \in 1 .. c
  BY DEF PutIn
<1>6. /\ i < s + 1 => C2[i] = C[i] /\ i \in 1 .. c + 1
      /\ i = s + 1 => C2[i] = n
      /\ i > s + 1 => C2[i] = C[i - 1] /\ i - 1 \in 1 .. c + 1
  BY DEF PutIn
<1>7. CASE i = s + 1
  <2>1. k \in kin[n] /\ k \in Nat
    BY <1>4, <1>6, <1>7
  <2>2. CASE j < s
    BY <1>5, <1>7, <2>1, <2>2
  <2>3. CASE j = s
    BY <1>5, <1>7, <2>1, <2>3
  <2>4. CASE j > s
    <3>1. j - 1 \in 1 .. c /\ ~(j - 1 < s) /\ K2[j] = K[j - 1] /\ ~(j < i)
      BY <1>5, <1>7, <2>4
    <3>2. ~(K[j - 1] < k)
      BY <2>1, <3>1
    <3>3. QED
      BY <3>1, <3>2
  <2>5. QED
    BY <2>2, <2>3, <2>4
<1>8. CASE i < s + 1
  <2>1. i \in 1 .. c + 1 /\ k \in kin[C[i]]
    BY <1>4, <1>6, <1>8
  <2>2. CASE j < s
    BY <1>5, <2>1, <2>2 DEF Parts
  <2>3. CASE j = s
    BY <1>3, <1>5, <1>8, <2>1, <2>3
  <2>4. CASE j > s
    <3>1. j - 1 \in 1 .. c /\ K2[j] = K[j - 1] /\ ~(j - 1 < i) /\ ~(j < i)
      BY <1>5, <1>8, <2>4
    <3>2. K[j - 1] < k <=> j - 1 < i
      BY <2>1, <3>1 DEF Parts
    <3>3. QED
      BY <3>1, <3>2
  <2>5. QED
    BY <2>2, <2>3, <2>4
<1>9. CASE i > s + 1
  <2>1. i - 1 \in 1 .. c + 1 /\ k \in kin[C[i - 1]] /\ i - 1 > s
    BY <1>4, <1>6, <1>9
  <2>2. CASE j < s
    <3>1. j \in 1 .. c /\ K2[j] = K[j] /\ j < i - 1 /\ j < i
      BY <1>5, <1>9, <2>2
    <3>2. K[j] < k <=> j < i - 1
      BY <2>1, <3>1 DEF Parts
    <3>3. QED
      BY <3>1, <3>2
  <2>3. CASE j = s
    BY <1>3, <1>5, <1>9, <2>1, <2>3
  <2>4. CASE j > s
    <3>1. j - 1 \in 1 .. c /\ K2[j] = K[j - 1] /\ (j - 1 < i - 1 <=> j < i)
      BY <1>5, <2>4
    <3>2. K[j - 1] < k <=> j - 1 < i - 1
      BY <2>1, <3>1 DEF Parts
    <3>3. QED
      BY <3>1, <3>2
  <2>5. QED
    BY <2>2, <2>3, <2>4
<1>10. QED
  BY <1>7, <1>8, <1>9

\* The separator s, which no longer means anything, is removed with the child
\* after it.
LEMMA RemoveParts ==
  ASSUME NEW c \in Nat, NEW s \in 1 .. c, NEW kin, NEW K, NEW C, NEW K2, NEW C2,
         TakenOut(K2, K, c, s), TakenOut(C2, C, c + 1, s + 1),
         \A i \in 1 .. c + 1, j \in 1 .. c : j # s =>
           \A k \in kin[C[i]] : K[j] < k <=> j < i
  PROVE  Parts(K2, c - 1, C2, kin)
<1>1. SUFFICES ASSUME NEW i \in 1 .. c, NEW j \in 1 .. c - 1, NEW k \in kin[C2[i]]
               PROVE  K2[j] < k <=> j < i
  BY DEF Parts
<1>2. /\ j < s => K2[j] = K[j] /\ j \in 1 .. c
      /\ j >= s => K2[j] = K[j + 1] /\ j + 1 \in 1 .. c /\ j + 1 # s
  BY DEF TakenOut
<1>3. /\ i < s + 1 => C2[i] = C[i] /\ i \in 1 .. c + 1
      /\ i >= s + 1 => C2[i] = C[i + 1] /\ i + 1 \in 1 .. c + 1
  BY DEF TakenOut
<1>4. CASE i < s + 1 /\ j < s
  <2>1. k \in kin[C[i]] /\ i \in 1 .. c + 1 /\ j \in 1 .. c /\ j # s /\ K2[j] = K[j]
    BY <1>1, <1>2, <1>3, <1>4
  <2>2. QED
    BY <2>1
<1>5. CASE i < s + 1 /\ j >= s
  <2>1. /\ k \in kin[C[i]] /\ i \in 1 .. c + 1 /\ j + 1 \in 1 .. c /\ j + 1 # s
        /\ K2[j] = K[j + 1] /\ ~(j + 1 < i) /\ ~(j < i)
    BY <1>1, <1>2, <1>3, <1>5
  <2>2. QED
    BY <2>1
<1>6. CASE i >= s + 1 /\ j < s
  <2>1. /\ k \in kin[C[i + 1]] /\ i + 1 \in 1 .. c + 1 /\ j \in 1 .. c /\ j # s
        /\ K2[j] = K[j] /\ j < i + 1 /\ j < i
    BY <1>1, <1>2, <1>3, <1>6
  <2>2. QED
    BY <2>1
<1>7. CASE i >= s + 1 /\ j >= s
  <2>1. /\ k \in kin[C[i + 1]] /\ i + 1 \in 1 .. c + 1 /\ j + 1 \in 1 .. c /\ j + 1 # s
        /\ K2[j] = K[j + 1] /\ (j + 1 < i + 1 <=> j < i)
    BY <1>1, <1>2, <1>3, <1>7
  <2>2. QED
    BY <2>1
<1>8. QED
  BY <1>4, <1>5, <1>6, <1>7

\* Between two neighbours, keys and children may move, and the separator
\* between them may change, as long as it parts what they have then.
LEMMA NewSeparator ==
  ASSUME NEW c \in Nat, NEW s \in 1 .. c, NEW sep \in Nat, NEW kin, NEW kin2,
         NEW K, NEW C, NEW K2,
         \A j \in 1 .. c : j # s => K2[j] = K[j],
         K2[s] = sep,
         Parts(K, c, C, kin), NatUpTo(K, c), NatBelow(C, c + 1, kin),
         \A i \in 1 .. c + 1 : i \notin {s, s + 1} => kin2[C[i]] \subseteq kin[C[i]],
         kin2[C[s]] \cup kin2[C[s + 1]] \subseteq kin[C[s]] \cup kin[C[s + 1]],
         kin2[C[s]] # {}, kin2[C[s + 1]] # {},
         \A k \in kin2[C[s]] : k <= sep, \A k \in kin2[C[s + 1]] : sep < k
  PROVE  Parts(K2, c, C, kin2)
<1>1. s \in 1 .. c + 1 /\ s + 1 \in 1 .. c + 1
  OBVIOUS
<1>2. ASSUME NEW k, k \in kin2[C[s]] \/ k \in kin2[C[s + 1]], NEW j \in 1 .. c, j # s
      PROVE  k \in Nat /\ (K[j] < k <=> j < s)
  <2>1. k \in kin[C[s]] \/ k \in kin[C[s + 1]]
    BY <1>2
  <2>2. k \in Nat
    BY <1>1, <2>1 DEF NatBelow
  <2>3. K[j] < k <=> j < s \/ (j < s + 1 /\ k \notin kin[C[s]])
    BY <1>1, <2>1 DEF Parts
  <2>4. j < s + 1 <=> j < s
    BY <1>2
  <2>5. QED
    BY <2>2, <2>3, <2>4
<1>3. ASSUME NEW j \in 1 .. c, j < s PROVE K[j] < sep
  <2>1. PICK a : a \in kin2[C[s]]
    OBVIOUS
  <2>2. K[j] < a /\ a \in Nat
    BY <1>2, <1>3, <2>1
  <2>3. a <= sep
    BY <2>1
  <2>4. K[j] \in Nat
    BY DEF NatUpTo
  <2>5. QED
    BY <2>2, <2>3, <2>4
<1>4. ASSUME NEW j \in 1 .. c, j > s PROVE sep < K[j]
  <2>1. PICK a : a \in kin2[C[s + 1]]
    OBVIOUS
  <2>2. ~(K[j] < a) /\ a \in Nat
    BY <1>2, <1>4, <2>1
  <2>3. sep < a
    BY <2>1
  <2>4. K[j] \in Nat
    BY DEF NatUpTo
  <2>5. QED
    BY <2>2, <2>3, <2>4
<1>5. SUFFICES ASSUME NEW i \in 1 .. c + 1, NEW j \in 1 .. c, NEW k \in kin2[C[i]]
               PROVE  K2[j] < k <=> j < i
  BY DEF Parts
<1>6. CASE i \in {s, s + 1}
  <2>1. k \in kin2[C[s]] \/ k \in kin2[C[s + 1]]
    BY <1>5, <1>6
  <2>2. CASE j # s
    <3>1. (K[j] < k <=> j < s) /\ K2[j] = K[j]
      BY <1>2, <2>1, <2>2
    <3>2. j < i <=> j < s
      BY <1>6, <2>2
    <3>3. QED
      BY <3>1, <3>2
  <2>3. CASE j = s /\ i = s
    <3>1. k \in kin[C[s]] \/ k \in kin[C[s + 1]]
      BY <2>1
    <3>2. k \in Nat
      BY <1>1, <3>1 DEF NatBelow
    <3>3. k <= sep
      BY <1>5, <2>3
    <3>4. QED
      BY <2>3, <3>2, <3>3
  <2>4. CASE j = s /\ i = s + 1
    BY <1>5, <2>4
  <2>5. QED
    BY <1>6, <2>2, <2>3, <2>4
<1>7. CASE i \notin {s, s + 1}
  <2>1. k \in kin[C[i]]
    BY <1>5, <1>7
  <2>2. k \in Nat
    BY <2>1 DEF NatBelow
  <2>3. CASE j # s
    <3>1. K[j] < k <=> j < i
      BY <2>1 DEF Parts
    <3>2. QED
      BY <2>3, <3>1
  <2>4. CASE j = s /\ i < s
    <3>1. i \in 1 .. c /\ ~(i < i)
      BY <2>4
    <3>2. ~(K[i] < k)
      BY <2>1, <3>1 DEF Parts
    <3>3. K[i] < sep
      BY <1>3, <2>4, <3>1
    <3>4. K[i] \in Nat
      BY <3>1 DEF NatUpTo
    <3>5. QED
      BY <2>2, <2>4, <3>2, <3>3, <3>4
  <2>5. CASE j = s /\ i > s + 1
    <3>1. s + 1 \in 1 .. c /\ s + 1 < i /\ s + 1 > s
      BY <2>5
    <3>2. K[s + 1] < k
      BY <2>1, <3>1 DEF Parts
    <3>3. sep < K[s + 1]
      BY <1>4, <3>1
    <3>4. K[s + 1] \in Nat
      BY <3>1 DEF NatUpTo
    <3>5. QED
      BY <2>2, <2>5, <3>2, <3>3, <3>4
  <2>6. QED
    BY <1>7, <2>3, <2>4, <2>5
<1>8. QED
  BY <1>6, <1>7

\* The keys S of a node are those of its first m children and U.
Covers(S, C, m, kin, U) ==
  \A k : k \in S <=> (k \in U \/ \E i \in 1 .. m : k \in kin[C[i]])

\* Its separators part them, but for the one at x.
PartsBut(K, m, C, kin, x) ==
  \A i \in 1 .. m + 1, j \in 1 .. m : j # x =>
    \A k \in kin[C[i]] : K[j] < k <=> j < i

\* A node with m separators over the keys S.
LedNode(S, K, m, C, kin, x, U) ==
  Covers(S, C, m + 1, kin, U) /\ PartsBut(K, m, C, kin, x)

\* No separator is at 0.
LEMMA PartsAll ==
  ASSUME NEW K, NEW m \in Nat, NEW C, NEW kin
  PROVE  PartsBut(K, m, C, kin, 0) <=> Parts(K, m, C, kin)
BY DEF PartsBut, Parts

\* Other nodes have changed.
LEMMA NodeSame ==
  ASSUME NEW S, NEW K, NEW m \in Nat, NEW C, NEW kin, NEW x, NEW U,
         LedNode(S, K, m, C, kin, x, U), NEW kin2,
         \A i \in 1 .. m + 1 : kin2[C[i]] = kin[C[i]]
  PROVE  LedNode(S, K, m, C, kin2, x, U)
BY DEF LedNode, Covers, PartsBut

\* A key is no longer below any node.
LEMMA NodeLoses ==
  ASSUME NEW S, NEW K, NEW m \in Nat, NEW C, NEW kin, NEW x,
         LedNode(S, K, m, C, kin, x, {}), NEW kin2, NEW d,
         \A i \in 1 .. m + 1 : kin2[C[i]] = kin[C[i]] \ {d}
  PROVE  LedNode(S \ {d}, K, m, C, kin2, x, {})
BY DEF LedNode, Covers, PartsBut

\* A key is now below child s, where it belongs.
LEMMA NodeGains ==
  ASSUME NEW S, NEW K, NEW m \in Nat, NEW C, NEW kin,
         LedNode(S, K, m, C, kin, 0, {}), NEW kin2, NEW d, NEW s \in 1 .. m + 1,
         kin2[C[s]] = kin[C[s]] \cup {d},
         \A i \in 1 .. m + 1 : i # s => kin2[C[i]] = kin[C[i]],
         \A j \in 1 .. m : K[j] < d <=> j < s
  PROVE  LedNode(S \cup {d}, K, m, C, kin2, 0, {})
<1>1. Covers(S \cup {d}, C, m + 1, kin2, {})
  <2>1. \A k : k \in S <=> \E i \in 1 .. m + 1 : k \in kin[C[i]]
    BY DEF LedNode, Covers
  <2>2. ASSUME NEW k PROVE k \in S \cup {d} <=> \E i \in 1 .. m + 1 : k \in kin2[C[i]]
    BY <2>1
  <2>3. QED
    BY <2>2 DEF Covers
<1>2. PartsBut(K, m, C, kin2, 0)
  <2>1. ASSUME NEW i \in 1 .. m + 1, NEW j \in 1 .. m, NEW k \in kin2[C[i]]
        PROVE  K[j] < k <=> j < i
    <3>1. CASE k \in kin[C[i]]
      BY <3>1 DEF LedNode, PartsBut
    <3>2. CASE k \notin kin[C[i]]
      <4>1. i = s /\ k = d
        BY <2>1, <3>2
      <4>2. QED
        BY <4>1
    <3>3. QED
      BY <3>1, <3>2
  <2>2. QED
    BY <2>1 DEF PartsBut
<1>3. QED
  BY <1>1, <1>2 DEF LedNode

\* Child s was split, and its other half D has no slot yet.
Halved(m, C, kin, kin2, D, s) ==
  /\ m \in Nat /\ s \in 1 .. m + 1
  /\ kin[C[s]] = kin2[C[s]] \cup D
  /\ \A i \in 1 .. m + 1 : i # s => kin2[C[i]] = kin[C[i]]

\* The node's keys are those of its children and of that half.
LEMMA ChildSplit ==
  ASSUME NEW S, NEW K, NEW m, NEW C, NEW kin, LedNode(S, K, m, C, kin, 0, {}),
         NEW kin2, NEW D, NEW s, Halved(m, C, kin, kin2, D, s)
  PROVE  LedNode(S, K, m, C, kin2, 0, D)
<1>0. m \in Nat /\ s \in 1 .. m + 1 /\ kin[C[s]] = kin2[C[s]] \cup D
      /\ \A i \in 1 .. m + 1 : i # s => kin2[C[i]] = kin[C[i]]
  BY DEF Halved
<1>1. Covers(S, C, m + 1, kin2, D)
  <2>1. \A k : k \in S <=> \E i \in 1 .. m + 1 : k \in kin[C[i]]
    BY DEF LedNode, Covers
  <2>2. ASSUME NEW k
        PROVE  k \in S <=> (k \in D \/ \E i \in 1 .. m + 1 : k \in kin2[C[i]])
    BY <1>0, <2>1
  <2>3. QED
    BY <2>2 DEF Covers
<1>2. PartsBut(K, m, C, kin2, 0)
  <2>1. \A i \in 1 .. m + 1 : kin2[C[i]] \subseteq kin[C[i]]
    BY <1>0
  <2>2. QED
    BY <2>1 DEF LedNode, PartsBut
<1>3. QED
  BY <1>1, <1>2 DEF LedNode

\* Child s has taken the keys of the next one.
LEMMA ChildrenMerged ==
  ASSUME NEW S, NEW K, NEW m \in Nat, NEW C, NEW kin,
         LedNode(S, K, m, C, kin, 0, {}), NEW kin2, NEW s \in 1 .. m,
         kin2[C[s]] = kin[C[s]] \cup kin[C[s + 1]], kin2[C[s + 1]] = {},
         \A i \in 1 .. m + 1 : i \notin {s, s + 1} => kin2[C[i]] = kin[C[i]]
  PROVE  LedNode(S, K, m, C, kin2, s, {})
<1>1. s + 1 \in 1 .. m + 1 /\ s \in 1 .. m + 1
  OBVIOUS
<1>2. Covers(S, C, m + 1, kin2, {})
  <2>1. \A k : k \in S <=> \E i \in 1 .. m + 1 : k \in kin[C[i]]
    BY DEF LedNode, Covers
  <2>2. ASSUME NEW k PROVE k \in S <=> \E i \in 1 .. m + 1 : k \in kin2[C[i]]
    BY <1>1, <2>1
  <2>3. QED
    BY <2>2 DEF Covers
<1>3. PartsBut(K, m, C, kin2, s)
  <2>1. ASSUME NEW i \in 1 .. m + 1, NEW j \in 1 .. m, j # s, NEW k \in kin2[C[i]]
        PROVE  K[j] < k <=> j < i
    <3>1. CASE k \in kin[C[i]]
      BY <3>1 DEF LedNode, PartsBut
    <3>2. CASE k \notin kin[C[i]]
      <4>1. i = s /\ k \in kin[C[s + 1]]
        BY <2>1, <3>2
      <4>2. K[j] < k <=> j < s + 1
        BY <1>1, <4>1 DEF LedNode, PartsBut
      <4>3. j < s + 1 <=> j < s
        BY <2>1
      <4>4. QED
        BY <4>1, <4>2, <4>3
    <3>3. QED
      BY <3>1, <3>2
  <2>2. QED
    BY <2>1 DEF PartsBut
<1>4. QED
  BY <1>2, <1>3 DEF LedNode

\* A child n with the keys D, not linked yet, enters behind child s.
LEMMA ChildEnters ==
  ASSUME NEW S, NEW K, NEW c \in Nat, NEW C, NEW kin, NEW D, NEW n, D = kin[n],
         LedNode(S, K, c, C, kin, 0, D),
         NEW s \in 1 .. c + 1, NEW sep \in Nat, NEW K2, NEW C2,
         PutIn(K2, K, c, s, sep), PutIn(C2, C, c + 1, s + 1, n),
         NatUpTo(K, c), NatBelow(C, c + 1, kin), SomeBelow(C, c + 1, kin),
         D # {}, \A k \in D : k \in Nat,
         \A k \in kin[C[s]] : k <= sep, \A k \in D : sep < k,
         \A j \in 1 .. c : \A k \in D : K[j] < k <=> j < s
  PROVE  LedNode(S, K2, c + 1, C2, kin, 0, {})
<1>1. Parts(K, c, C, kin)
  BY PartsAll DEF LedNode
<1>2. Parts(K2, c + 1, C2, kin)
  BY <1>1, InsertParts
<1>3. PartsBut(K2, c + 1, C2, kin, 0)
  BY <1>2, PartsAll
<1>4. Covers(S, C2, c + 1 + 1, kin, {})
  <2>1. \A k : k \in S <=> (k \in D \/ \E i \in 1 .. c + 1 : k \in kin[C[i]])
    BY DEF LedNode, Covers
  <2>2. C2[s + 1] = n /\ s + 1 \in 1 .. c + 1 + 1
    BY DEF PutIn
  <2>3. \A i \in 1 .. c + 1 + 1 : i < s + 1 => C2[i] = C[i] /\ i \in 1 .. c + 1
    BY DEF PutIn
  <2>4. \A i \in 1 .. c + 1 + 1 : i > s + 1 => C2[i] = C[i - 1] /\ i - 1 \in 1 .. c + 1
    BY DEF PutIn
  <2>5. \A i \in 1 .. c + 1 : i <= s => C[i] = C2[i] /\ i \in 1 .. c + 1 + 1
    BY <2>3
  <2>6. \A i \in 1 .. c + 1 : i > s => C[i] = C2[i + 1] /\ i + 1 \in 1 .. c + 1 + 1
    BY <2>4
  <2>7. ASSUME NEW k PROVE k \in S <=> \E i \in 1 .. c + 1 + 1 : k \in kin[C2[i]]
    <3>1. ASSUME k \in S PROVE \E i \in 1 .. c + 1 + 1 : k \in kin[C2[i]]
      <4>1. CASE k \in D
        BY <2>2, <4>1
      <4>2. CASE k \notin D
        <5>1. PICK i \in 1 .. c + 1 : k \in kin[C[i]]
          BY <2>1, <3>1, <4>2
        <5>2. i <= s \/ i > s
          OBVIOUS
        <5>3. QED
          BY <2>5, <2>6, <5>1, <5>2
      <4>3. QED
        BY <4>1, <4>2
    <3>2. ASSUME NEW i \in 1 .. c + 1 + 1, k \in kin[C2[i]] PROVE k \in S
      <4>1. i < s + 1 \/ i = s + 1 \/ i > s + 1
        OBVIOUS
      <4>2. QED
        BY <2>1, <2>2, <2>3, <2>4, <3>2, <4>1
    <3>3. QED
      BY <3>1, <3>2
  <2>8. QED
    BY <2>7 DEF Covers
<1>5. QED
  BY <1>3, <1>4 DEF LedNode

\* The emptied child behind child s goes, and the separator between them.
LEMMA ChildLeaves ==
  ASSUME NEW S, NEW K, NEW c \in Nat, NEW C, NEW kin, NEW s \in 1 .. c,
         LedNode(S, K, c, C, kin, s, {}), kin[C[s + 1]] = {}, NEW K2, NEW C2,
         TakenOut(K2, K, c, s), TakenOut(C2, C, c + 1, s + 1)
  PROVE  LedNode(S, K2, c - 1, C2, kin, 0, {})
<1>1. Parts(K2, c - 1, C2, kin) /\ c - 1 \in Nat
  BY RemoveParts DEF LedNode, PartsBut
<1>2. PartsBut(K2, c - 1, C2, kin, 0)
  BY <1>1, PartsAll
<1>3. Covers(S, C2, c - 1 + 1, kin, {})
  <2>1. \A k : k \in S <=> \E i \in 1 .. c + 1 : k \in kin[C[i]]
    BY DEF LedNode, Covers
  <2>2. \A i \in 1 .. c : i < s + 1 => C2[i] = C[i] /\ i \in 1 .. c + 1
    BY DEF TakenOut
  <2>3. \A i \in 1 .. c : i >= s + 1 => C2[i] = C[i + 1] /\ i + 1 \in 1 .. c + 1
    BY DEF TakenOut
  <2>4. \A i \in 1 .. c + 1 : i > s + 1 => C[i] = C2[i - 1] /\ i - 1 \in 1 .. c
    BY <2>3
  <2>5. \A i \in 1 .. c + 1 : i < s + 1 => C[i] = C2[i] /\ i \in 1 .. c
    BY <2>2
  <2>6. ASSUME NEW k PROVE k \in S <=> \E i \in 1 .. c - 1 + 1 : k \in kin[C2[i]]
    <3>1. ASSUME k \in S PROVE \E i \in 1 .. c : k \in kin[C2[i]]
      <4>1. PICK i \in 1 .. c + 1 : k \in kin[C[i]]
        BY <2>1, <3>1
      <4>2. i < s + 1 \/ i > s + 1
        BY <4>1
      <4>3. QED
        BY <2>4, <2>5, <4>1, <4>2
    <3>2. ASSUME NEW i \in 1 .. c, k \in kin[C2[i]] PROVE k \in S
      <4>1. i < s + 1 \/ i >= s + 1
        OBVIOUS
      <4>2. QED
        BY <2>1, <2>2, <2>3, <3>2, <4>1
    <3>3. c - 1 + 1 = c
      OBVIOUS
    <3>4. QED
      BY <3>1, <3>2, <3>3
  <2>7. QED
    BY <2>6 DEF Covers
<1>4. QED
  BY <1>2, <1>3 DEF LedNode

\* The separator at s is set anew, to the last key below child s, say, or keys
\* move between the children beside it.
LEMMA NodeRepaired ==
  ASSUME NEW S, NEW K, NEW c \in Nat, NEW C, NEW kin, LedNode(S, K, c, C, kin, 0, {}),
         NEW s \in 1 .. c, NEW sep \in Nat, NEW kin2, NEW K2,
         \A j \in 1 .. c : j # s => K2[j] = K[j], K2[s] = sep,
         NatUpTo(K, c), NatBelow(C, c + 1, kin),
         \A i \in 1 .. c + 1 : i \notin {s, s + 1} => kin2[C[i]] = kin[C[i]],
         kin2[C[s]] \cup kin2[C[s + 1]] = kin[C[s]] \cup kin[C[s + 1]],
         kin2[C[s]] # {}, kin2[C[s + 1]] # {},
         \A k \in kin2[C[s]] : k <= sep, \A k \in kin2[C[s + 1]] : sep < k
  PROVE  LedNode(S, K2, c, C, kin2, 0, {})
<1>1. Parts(K, c, C, kin)
  BY PartsAll DEF LedNode
<1>2. Parts(K2, c, C, kin2)
  BY <1>1, NewSeparator
<1>3. PartsBut(K2, c, C, kin2, 0)
  BY <1>2, PartsAll
<1>4. Covers(S, C, c + 1, kin2, {})
  <2>1. \A k : k \in S <=> \E i \in 1 .. c + 1 : k \in kin[C[i]]
    BY DEF LedNode, Covers
  <2>2. s \in 1 .. c + 1 /\ s + 1 \in 1 .. c + 1
    OBVIOUS
  <2>3. ASSUME NEW k PROVE k \in S <=> \E i \in 1 .. c + 1 : k \in kin2[C[i]]
    BY <2>1, <2>2
  <2>4. QED
    BY <2>3 DEF Covers
<1>5. QED
  BY <1>3, <1>4 DEF LedNode

\* Two nodes become one around a separator.
LEMMA NodesJoin ==
  ASSUME NEW m \in Nat, NEW n \in Nat, NEW sep \in Nat, NEW kin, NEW A, NEW B,
         NEW K, NEW C, NEW LK, NEW LC, NEW RK, NEW RC,
         LedNode(A, LK, m, LC, kin, 0, {}), LedNode(B, RK, n, RC, kin, 0, {}),
         GluedKeys(K, LK, m, sep, RK, n), GluedChildren(C, LC, m + 1, RC, n + 1),
         NatUpTo(LK, m), NatUpTo(RK, n),
         NatBelow(LC, m + 1, kin), NatBelow(RC, n + 1, kin),
         SomeBelow(LC, m + 1, kin), SomeBelow(RC, n + 1, kin),
         \A k \in A : k <= sep, \A k \in B : sep < k
  PROVE  LedNode(A \cup B, K, m + 1 + n, C, kin, 0, {})
<1>1. /\ \A k : k \in A <=> \E i \in 1 .. m + 1 : k \in kin[LC[i]]
      /\ \A k : k \in B <=> \E i \in 1 .. n + 1 : k \in kin[RC[i]]
  BY DEF LedNode, Covers
<1>2. Parts(LK, m, LC, kin) /\ Parts(RK, n, RC, kin)
  BY PartsAll DEF LedNode
<1>3. AllAtMost(LC, m + 1, sep, kin) /\ AllAbove(RC, n + 1, sep, kin)
  BY <1>1 DEF AllAtMost, AllAbove
<1>4. Parts(K, m + 1 + n, C, kin)
  BY <1>2, <1>3, JoinParts
<1>5. m + 1 + n \in Nat
  OBVIOUS
<1>6. PartsBut(K, m + 1 + n, C, kin, 0)
  BY <1>4, <1>5, PartsAll
<1>7. Covers(A \cup B, C, m + 1 + n + 1, kin, {})
  <2>1. \A i \in 1 .. m + 1 : C[i] = LC[i] /\ i \in 1 .. m + 1 + n + 1
    BY DEF GluedChildren
  <2>2. \A i \in 1 .. n + 1 : C[m + 1 + i] = RC[i] /\ m + 1 + i \in 1 .. m + 1 + n + 1
    BY DEF GluedChildren
  <2>3. ASSUME NEW k PROVE k \in A \cup B <=> \E i \in 1 .. m + 1 + n + 1 : k \in kin[C[i]]
    <3>1. ASSUME k \in A \cup B PROVE \E i \in 1 .. m + 1 + n + 1 : k \in kin[C[i]]
      BY <1>1, <2>1, <2>2, <3>1
    <3>2. ASSUME NEW i \in 1 .. m + 1 + n + 1, k \in kin[C[i]] PROVE k \in A \cup B
      <4>1. CASE i \in 1 .. m + 1
        BY <1>1, <2>1, <3>2, <4>1
      <4>2. CASE i \notin 1 .. m + 1
        <5>1. PICK a : a = i - (m + 1)
          OBVIOUS
        <5>2. a \in 1 .. n + 1 /\ m + 1 + a = i
          BY <4>2, <5>1
        <5>3. C[i] = RC[a]
          BY <2>2, <5>2
        <5>4. QED
          BY <1>1, <3>2, <5>2, <5>3
      <4>3. QED
        BY <4>1, <4>2
    <3>3. QED
      BY <3>1, <3>2
  <2>4. QED
    BY <2>3 DEF Covers
<1>8. QED
  BY <1>6, <1>7 DEF LedNode

\* A node is cut in two at a separator.
LEMMA NodeCut ==
  ASSUME NEW m \in Nat, NEW n \in Nat, NEW sep \in Nat, NEW kin, NEW S,
         NEW K, NEW C, NEW LK, NEW LC, NEW RK, NEW RC, NEW c, c = m + 1 + n,
         LedNode(S, K, c, C, kin, 0, {}),
         GluedKeys(K, LK, m, sep, RK, n), GluedChildren(C, LC, m + 1, RC, n + 1),
         NatBelow(C, c + 1, kin)
  PROVE  \E A, B : /\ LedNode(A, LK, m, LC, kin, 0, {}) /\ LedNode(B, RK, n, RC, kin, 0, {})
                   /\ A \cup B = S
                   /\ \A k \in A : k <= sep
                   /\ \A k \in B : sep < k
<1>1. c \in Nat
  OBVIOUS
<1>2. Parts(K, m + 1 + n, C, kin) /\ NatBelow(C, m + 1 + n + 1, kin)
  BY <1>1, PartsAll DEF LedNode
<1>3. /\ Parts(LK, m, LC, kin) /\ Parts(RK, n, RC, kin)
      /\ AllAtMost(LC, m + 1, sep, kin) /\ AllAbove(RC, n + 1, sep, kin)
  BY <1>2, CutParts
<1>4. PICK A, B : /\ A = UNION {kin[LC[i]] : i \in 1 .. m + 1}
                  /\ B = UNION {kin[RC[i]] : i \in 1 .. n + 1}
  OBVIOUS
<1>5. /\ \A k : k \in A <=> \E i \in 1 .. m + 1 : k \in kin[LC[i]]
      /\ \A k : k \in B <=> \E i \in 1 .. n + 1 : k \in kin[RC[i]]
  BY <1>4
<1>6. LedNode(A, LK, m, LC, kin, 0, {}) /\ LedNode(B, RK, n, RC, kin, 0, {})
  <2>1. PartsBut(LK, m, LC, kin, 0) /\ PartsBut(RK, n, RC, kin, 0)
    BY <1>3, PartsAll
  <2>2. QED
    BY <1>5, <2>1 DEF LedNode, Covers
<1>7. A \cup B = S
  <2>1. \A k : k \in S <=> \E i \in 1 .. c + 1 : k \in kin[C[i]]
    BY DEF LedNode, Covers
  <2>2. \A i \in 1 .. m + 1 : C[i] = LC[i] /\ i \in 1 .. c + 1
    BY DEF GluedChildren
  <2>3. \A i \in 1 .. n + 1 : C[m + 1 + i] = RC[i] /\ m + 1 + i \in 1 .. c + 1
    BY DEF GluedChildren
  <2>4. ASSUME NEW k \in S PROVE k \in A \cup B
    <3>1. PICK i \in 1 .. c + 1 : k \in kin[C[i]]
      BY <2>1
    <3>2. CASE i \in 1 .. m + 1
      BY <1>5, <2>2, <3>1, <3>2
    <3>3. CASE i \notin 1 .. m + 1
      <4>1. PICK a : a = i - (m + 1)
        OBVIOUS
      <4>2. a \in 1 .. n + 1 /\ m + 1 + a = i
        BY <3>3, <4>1
      <4>3. C[i] = RC[a]
        BY <2>3, <4>2
      <4>4. QED
        BY <1>5, <3>1, <4>2, <4>3
    <3>4. QED
      BY <3>2, <3>3
  <2>5. ASSUME NEW k \in A \cup B PROVE k \in S
    BY <1>5, <2>1, <2>2, <2>3
  <2>6. QED
    BY <2>4, <2>5
<1>8. /\ \A k \in A : k <= sep
      /\ \A k \in B : sep < k
  BY <1>3, <1>5 DEF AllAtMost, AllAbove
<1>9. QED
  BY <1>6, <1>7, <1>8

\* The last key below the last child is the last one.
LEMMA LastOfLast ==
  ASSUME NEW S, NEW K, NEW c \in Nat, NEW C, NEW kin, LedNode(S, K, c, C, kin, 0, {}),
         NatUpTo(K, c), NatBelow(C, c + 1, kin),
         NEW x \in kin[C[c + 1]], \A k \in kin[C[c + 1]] : k <= x
  PROVE  x \in S /\ \A k \in S : k <= x
<1>1. c + 1 \in 1 .. c + 1
  OBVIOUS
<1>2. x \in Nat
  BY <1>1 DEF NatBelow
<1>3. \A k : k \in S <=> \E i \in 1 .. c + 1 : k \in kin[C[i]]
  BY DEF LedNode, Covers
<1>4. ASSUME NEW i \in 1 .. c + 1, NEW k \in kin[C[i]] PROVE k <= x
  <2>1. CASE i = c + 1
    BY <2>1
  <2>2. CASE i # c + 1
    <3>1. c \in 1 .. c /\ ~(c < i) /\ c < c + 1
      BY <2>2
    <3>2. K[c] < x /\ ~(K[c] < k)
      BY <1>1, <3>1 DEF LedNode, PartsBut
    <3>3. K[c] \in Nat /\ k \in Nat
      BY <3>1 DEF NatUpTo, NatBelow
    <3>4. QED
      BY <1>2, <3>2, <3>3
  <2>3. QED
    BY <2>1, <2>2
<1>5. QED
  BY <1>1, <1>3, <1>4

\* The separators ascend, so that find_lower counts those before a key.
LEMMA SlotFound ==
  ASSUME NEW K, NEW c \in Nat, NEW C, NEW kin, NEW S, LedNode(S, K, c, C, kin, 0, {}),
         NatUpTo(K, c), NatBelow(C, c + 1, kin), SomeBelow(C, c + 1, kin),
         NEW k \in Nat, NEW s, s = Cardinality({i \in 1 .. c : K[i] < k})
  PROVE  s \in 0 .. c /\ \A j \in 1 .. c : K[j] < k <=> j <= s
<1>1. ASSUME NEW i \in 1 .. c, NEW j \in 1 .. c, j < i PROVE K[j] < K[i]
  <2>1. i \in 1 .. c + 1 /\ ~(i < i) /\ i # 0 /\ j # 0
    OBVIOUS
  <2>2. PICK d \in kin[C[i]] : d \in Nat
    BY <2>1 DEF SomeBelow, NatBelow
  <2>3. K[j] < d /\ ~(K[i] < d)
    BY <1>1, <2>1, <2>2 DEF LedNode, PartsBut
  <2>4. K[j] \in Nat /\ K[i] \in Nat
    BY DEF NatUpTo
  <2>5. QED
    BY <2>2, <2>3, <2>4
<1>2. PICK T : T = {i \in 1 .. c : K[i] < k}
  OBVIOUS
<1>3. T \in SUBSET (1 .. c)
  BY <1>2
<1>4. ASSUME NEW i \in T, NEW j \in 1 .. i PROVE j \in T
  <2>1. i \in 1 .. c /\ j \in 1 .. c /\ K[i] < k
    BY <1>2
  <2>2. K[i] \in Nat /\ K[j] \in Nat
    BY <2>1 DEF NatUpTo
  <2>3. K[j] < K[i] \/ j = i
    BY <1>1, <2>1
  <2>4. QED
    BY <1>2, <2>1, <2>2, <2>3
<1>5. Cardinality(T) \in 0 .. c /\ T = 1 .. Cardinality(T)
  BY <1>3, <1>4, InitialIndexes
<1>6. s = Cardinality(T)
  BY <1>2
<1>7. QED
  BY <1>2, <1>5, <1>6

\* Below two children there are two keys.
LEMMA OtherKey ==
  ASSUME NEW S, NEW K, NEW c \in Nat, c >= 1, NEW C, NEW kin, LedNode(S, K, c, C, kin, 0, {}),
         SomeBelow(C, c + 1, kin), NEW d
  PROVE  S \ {d} # {}
<1>1. 1 \in 1 .. c + 1 /\ 2 \in 1 .. c + 1 /\ 1 \in 1 .. c /\ ~(1 < 1) /\ 1 < 2 /\ 1 # 0
  OBVIOUS
<1>2. PICK a \in kin[C[1]] : TRUE
  BY <1>1 DEF SomeBelow
<1>3. PICK b \in kin[C[2]] : TRUE
  BY <1>1 DEF SomeBelow
<1>4. ~(K[1] < a) /\ K[1] < b
  BY <1>1, <1>2, <1>3 DEF LedNode, PartsBut
<1>5. a # b
  BY <1>4
<1>6. a \in S /\ b \in S
  BY <1>1, <1>2, <1>3 DEF LedNode, Covers
<1>7. QED
  BY <1>5, <1>6

-----------------------------------------------------------------------------
(* The keys below the nodes of the tree *)

\* Node p of the heap h with the keys S below it.
LedIn(h, p, S, kin, x, U) ==
  LedNode(S, h[p].slotkey, Len(h[p].slotkey), h[p].childid, kin, x, U)

\* The separator that the child emptied by a merge has left.
skippedAt(p) == IF fixmerge /\ p = cur THEN emptied ELSE 0

\* What the invariant says of inner node p.
NodeLed(p, kin) == LedIn(heap, p, kin[p], kin, skippedAt(p), rising(p, kin))

\* The keys below the nodes, node by node.
Under(kin) ==
  /\ \A n \in LiveLeaves : kin[n] = heap[n].items
  /\ \A p \in LiveInner : NodeLed(p, kin)
  /\ root # Null => present = kin[root] \cup (IF rootSplit THEN kin[newchild] ELSE {})
  /\ \A n \in Live : kin[n] # {} \/ (n = root /\ pc = "insert")
  /\ fixmerge => kin[gone] = {}

\* The same in the words of CompactOrder.
LedBelow(S, K, C, kin, x, U) ==
  /\ S = KeysOf(kin, C) \cup U
  /\ \A i \in 1 .. Len(C), j \in DOMAIN K :
       j # x => \A k \in kin[C[i]] : K[j] < k <=> j < i

\* The keys below the children and how the separators part them, said in two ways.
LEMMA LedFields ==
  ASSUME NEW K, K \in Seq(Keys), NEW C, C \in Seq(Nodes), Len(C) = Len(K) + 1,
         NEW S, NEW kin, NEW x, NEW U
  PROVE  LedNode(S, K, Len(K), C, kin, x, U) <=> LedBelow(S, K, C, kin, x, U)
<1>1. DOMAIN K = 1 .. Len(K) /\ Len(K) \in Nat
  OBVIOUS
<1>2. Covers(S, C, Len(K) + 1, kin, U) <=> S = KeysOf(kin, C) \cup U
  <2>1. ASSUME NEW k
        PROVE  k \in KeysOf(kin, C) <=> \E i \in 1 .. Len(K) + 1 : k \in kin[C[i]]
    <3>1. 1 .. Len(C) = 1 .. Len(K) + 1
      OBVIOUS
    <3>2. k \in KeysOf(kin, C) <=> \E i \in 1 .. Len(C) : k \in kin[C[i]]
      BY DEF KeysOf
    <3>3. QED
      BY <3>1, <3>2
  <2>2. QED
    BY <2>1 DEF Covers
<1>3. PartsBut(K, Len(K), C, kin, x)
        <=> \A i \in 1 .. Len(C), j \in DOMAIN K :
              j # x => \A k \in kin[C[i]] : K[j] < k <=> j < i
  BY <1>1 DEF PartsBut
<1>4. QED
  BY <1>2, <1>3 DEF LedNode, LedBelow

\* The invariant's parts about the keys in the second way.
LEMMA LedForm ==
  ASSUME ShapeInv, NEW kin
  PROVE  (KeysBelow(kin) /\ \A p \in LiveInner : Parted(p, kin)) <=> Under(kin)
<1>1. ASSUME NEW p \in LiveInner
      PROVE  NodeLed(p, kin) <=>
               /\ kin[p] = KeysOf(kin, heap[p].childid) \cup rising(p, kin)
               /\ Parted(p, kin)
  <2>1. heap[p].slotkey \in Seq(Keys) /\ heap[p].childid \in Seq(Nodes)
        /\ Len(heap[p].childid) = Len(heap[p].slotkey) + 1
    <3>1. TypeOK /\ LinkedOnce /\ InnerFilled(p)
      BY DEF ShapeInv, Tree
    <3>2. QED
      BY <3>1, ChildNodes
  <2>2. PICK K : K = heap[p].slotkey
    OBVIOUS
  <2>3. PICK C : C = heap[p].childid
    OBVIOUS
  <2>4. PICK S : S = kin[p]
    OBVIOUS
  <2>5. PICK x : x = skippedAt(p)
    OBVIOUS
  <2>6. PICK U : U = rising(p, kin)
    OBVIOUS
  <2>7. LedNode(S, K, Len(K), C, kin, x, U) <=> LedBelow(S, K, C, kin, x, U)
    BY <2>1, <2>2, <2>3, LedFields
  <2>8. Parted(p, kin) <=> \A i \in 1 .. Len(C), j \in DOMAIN K :
                             j # x => \A k \in kin[C[i]] : K[j] < k <=> j < i
    BY <2>2, <2>3, <2>5 DEF Parted, Slots, skippedAt
  <2>11. NodeLed(p, kin) <=> LedNode(S, K, Len(K), C, kin, x, U)
    BY <2>2, <2>3, <2>4, <2>5, <2>6 DEF NodeLed, LedIn
  <2>12. LedBelow(S, K, C, kin, x, U) <=> S = KeysOf(kin, C) \cup U /\ Parted(p, kin)
    BY <2>8 DEF LedBelow
  <2>13. S = KeysOf(kin, C) \cup U <=>
           kin[p] = KeysOf(kin, heap[p].childid) \cup rising(p, kin)
    BY <2>3, <2>4, <2>6
  <2>14. QED
    BY <2>7, <2>11, <2>12, <2>13
<1>2. QED
  BY <1>1 DEF KeysBelow, Under

\* The same after a step.
LEMMA LedFormNext ==
  ASSUME ShapeInv', NEW kin
  PROVE  Under(kin)' => KeysBelow(kin)' /\ \A p \in LiveInner' : Parted(p, kin)'
<1>1. ASSUME NEW p \in LiveInner', NodeLed(p, kin)'
      PROVE  /\ kin[p] = KeysOf(kin, heap'[p].childid) \cup rising(p, kin)'
             /\ Parted(p, kin)'
  <2>1. heap'[p].slotkey \in Seq(Keys) /\ heap'[p].childid \in Seq(Nodes)
        /\ Len(heap'[p].childid) = Len(heap'[p].slotkey) + 1
    <3>1. TypeOK' /\ InnerFilled(p)'
      BY DEF ShapeInv, Tree
    <3>2. p \in DOMAIN heap' /\ heap'[p].level # 0
      BY DEF LiveInner, Inner, Leaves, isleafnode
    <3>3. heap'[p] \in LeafNodes \/ heap'[p] \in InnerNodes
      BY <3>1, <3>2 DEF TypeOK
    <3>4. heap'[p] \in InnerNodes
      BY <3>2, <3>3, LeafFields
    <3>5. QED
      BY <3>1, <3>4, InnerFields DEF InnerFilled
  <2>2. PICK K : K = heap'[p].slotkey
    OBVIOUS
  <2>3. PICK C : C = heap'[p].childid
    OBVIOUS
  <2>4. PICK S : S = kin[p]
    OBVIOUS
  <2>5. PICK x : x = skippedAt(p)'
    OBVIOUS
  <2>6. PICK U : U = rising(p, kin)'
    OBVIOUS
  <2>7. LedNode(S, K, Len(K), C, kin, x, U) <=> LedBelow(S, K, C, kin, x, U)
    BY <2>1, <2>2, <2>3, LedFields
  <2>8. Parted(p, kin)' <=> \A i \in 1 .. Len(C), j \in DOMAIN K :
                             j # x => \A k \in kin[C[i]] : K[j] < k <=> j < i
    BY <2>2, <2>3, <2>5 DEF Parted, Slots, skippedAt
  <2>11. NodeLed(p, kin)' <=> LedNode(S, K, Len(K), C, kin, x, U)
    BY <2>2, <2>3, <2>4, <2>5, <2>6 DEF NodeLed, LedIn
  <2>12. LedBelow(S, K, C, kin, x, U) <=> S = KeysOf(kin, C) \cup U /\ Parted(p, kin)'
    BY <2>8 DEF LedBelow
  <2>13. S = KeysOf(kin, C) \cup U <=>
           kin[p] = KeysOf(kin, heap'[p].childid) \cup rising(p, kin)'
    BY <2>3, <2>4, <2>6
  <2>14. QED
    BY <1>1, <2>7, <2>11, <2>12, <2>13
<1>2. QED
  BY <1>1 DEF KeysBelow, Under

\* The nodes have keys below them.
KinType(kin) == kin \in [Nodes -> SUBSET Keys]

\* What the invariant says of a state.
LEMMA FoundNow ==
  ASSUME FoundInv
  PROVE  KeptInv /\ \E kin : /\ KinType(kin) /\ Under(kin) /\ SplitParted(kin) /\ RightWay
                             /\ LastkeyKnown(kin)
<1>1. KeptInv /\ ShapeInv
  BY DEF FoundInv, KeptInv
<1>2. PICK kin \in [Nodes -> SUBSET Keys] : Led(kin)
  BY DEF FoundInv
<1>3. Under(kin)
  BY <1>1, <1>2, LedForm DEF Led
<1>4. QED
  BY <1>1, <1>2, <1>3 DEF Led, KinType

\* What is to be shown of the next one.
LEMMA FoundNext ==
  ASSUME KeptInv', NEW kin, KinType(kin), Under(kin)', SplitParted(kin)', RightWay',
         LastkeyKnown(kin)'
  PROVE  FoundInv'
<1>1. ShapeInv'
  BY DEF KeptInv
<1>2. KeysBelow(kin)' /\ \A p \in LiveInner' : Parted(p, kin)'
  BY <1>1, LedFormNext
<1>3. Led(kin)'
  BY <1>2 DEF Led
<1>4. QED
  BY <1>3 DEF FoundInv, KinType

\* The node p of a live inner node, with separators and children that are known.
KnownNode(p, kin, K, c, C) ==
  /\ K = heap[p].slotkey /\ C = heap[p].childid /\ c = Len(K) /\ c \in Nat /\ Len(C) = c + 1
  /\ K \in Seq(Keys) /\ C \in Seq(Nodes) /\ DOMAIN K = 1 .. c /\ c <= innerslotmax
  /\ NatUpTo(K, c) /\ NatBelow(C, c + 1, kin)
  /\ \A i \in 1 .. c + 1 : /\ C[i] \in DOMAIN heap /\ C[i] # root /\ C[i] \in Nodes
                           /\ C[i] # newchild
                           /\ C[i] # gone => kin[C[i]] # {}
                           /\ heap[C[i]].level \in Nat /\ heap[C[i]].level + 1 = heap[p].level
                           /\ C[i] # p
  /\ \A i, j \in 1 .. c + 1 : C[i] = C[j] => i = j
  /\ gone \notin Elements(C) => SomeBelow(C, c + 1, kin)

\* Each live inner node is such a node.
LEMMA SomeNode ==
  ASSUME ShapeInv, NEW kin, KinType(kin), Under(kin), NEW p \in LiveInner
  PROVE  \E K, c, C : KnownNode(p, kin, K, c, C)
<1>1. TypeOK /\ LinkedOnce /\ InnerFilled(p)
  BY DEF ShapeInv, Tree
<1>2. PICK K : K = heap[p].slotkey
  OBVIOUS
<1>3. PICK C : C = heap[p].childid
  OBVIOUS
<1>4. PICK c : c = Len(K)
  OBVIOUS
<1>5. /\ K \in Seq(Keys) /\ C \in Seq(Nodes) /\ c \in Nat /\ Len(C) = c + 1
      /\ Slots(p) = 1 .. c + 1
      /\ \A i \in Slots(p) : /\ C[i] \in DOMAIN heap /\ C[i] # root
                             /\ heap[C[i]].level \in Nat /\ heap[C[i]].level + 1 = heap[p].level
  BY <1>1, <1>2, <1>3, <1>4, ChildNodes
<1>6. DOMAIN K = 1 .. c
  BY <1>4, <1>5
<1>7. c <= innerslotmax
  BY <1>1, <1>2, <1>4, FilledSlots
<1>8. NatUpTo(K, c)
  <2>1. \A j \in 1 .. c : K[j] \in Keys
    BY <1>4, <1>5
  <2>2. QED
    BY <2>1, KeyTypes DEF NatUpTo
<1>9. \A i \in 1 .. c + 1 : C[i] \in Nodes
  BY <1>5
<1>10. NatBelow(C, c + 1, kin)
  <2>1. \A i \in 1 .. c + 1 : kin[C[i]] \subseteq Keys
    BY <1>9 DEF KinType
  <2>2. QED
    BY <2>1, KeyTypes DEF NatBelow
<1>11. \A i \in 1 .. c + 1 : C[i] # newchild
  BY <1>1, <1>3, <1>5 DEF LinkedOnce
<1>12. \A i \in 1 .. c + 1 : C[i] # gone => kin[C[i]] # {}
  <2>1. \A n \in Live : kin[n] # {} \/ n = root
    BY DEF Under
  <2>2. QED
    BY <1>5, <2>1 DEF Live
<1>13. \A i \in 1 .. c + 1 : C[i] # p
  BY <1>5
<1>14. \A i, j \in 1 .. c + 1 : C[i] = C[j] => i = j
  BY <1>1, <1>3, <1>5 DEF LinkedOnce
<1>15. gone \notin Elements(C) => SomeBelow(C, c + 1, kin)
  BY <1>5, <1>12 DEF SomeBelow, Elements
<1>16. QED
  BY <1>2, <1>3, <1>4, <1>5, <1>6, <1>7, <1>8, <1>9, <1>10, <1>11, <1>12, <1>13, <1>14, <1>15 DEF KnownNode

-----------------------------------------------------------------------------
(* Steps that leave the tree as it is *)

\* What the invariant says of the keys below the nodes.
Known(kin) ==
  KinType(kin) /\ Under(kin) /\ SplitParted(kin) /\ RightWay /\ LastkeyKnown(kin)

\* A step of a call that is neither on its way back from a split nor has just
\* merged nodes.
PlainStep ==
  /\ newchild = Null /\ ~fixmerge /\ newchild' = Null /\ ~fixmerge'
  /\ heap' = heap /\ root' = root

\* The nodes lead to the keys they led to.
LEMMA UnderSame ==
  ASSUME ShapeInv, NEW kin, Under(kin), PlainStep, present' = present,
         pc' = "insert" \/ pc # "insert"
  PROVE  Under(kin)'
<1>1. gone = Null /\ gone' = Null
  BY DEF PlainStep, gone
<1>2. Leaves' = Leaves /\ Inner' = Inner
  BY SameHeap DEF PlainStep
<1>3. LiveLeaves' = LiveLeaves /\ LiveInner' = LiveInner /\ Live' = Live
  BY <1>1, <1>2 DEF LiveLeaves, LiveInner, Live, PlainStep
<1>4. \A n \in LiveLeaves' : kin[n] = heap'[n].items
  BY <1>3 DEF Under, PlainStep
<1>5. ASSUME NEW p \in LiveInner'
      PROVE  NodeLed(p, kin)'
  <2>1. NodeLed(p, kin)
    BY <1>3 DEF Under
  <2>2. skippedAt(p) = 0 /\ skippedAt(p)' = 0
    BY DEF skippedAt, PlainStep
  <2>3. rising(p, kin) = {} /\ rising(p, kin)' = {}
    BY DEF rising, PlainStep
  <2>4. QED
    BY <2>1, <2>2, <2>3 DEF NodeLed, PlainStep
<1>6. root' # Null => present' = kin[root'] \cup (IF rootSplit' THEN kin[newchild'] ELSE {})
  BY DEF Under, PlainStep, rootSplit
<1>7. \A n \in Live' : kin[n] # {} \/ (n = root' /\ pc' = "insert")
  BY <1>3 DEF Under, PlainStep
<1>8. fixmerge' => kin[gone'] = {}
  BY DEF PlainStep
<1>9. QED
  BY <1>4, <1>5, <1>6, <1>7, <1>8 DEF Under

\* Outside of the descent, and with no split under way.
LEMMA NoneRising ==
  ASSUME newchild' = Null, NEW kin
  PROVE  SplitParted(kin)'
BY DEF SplitParted

\* Where the separators of a node part the key from others.
LEMMA WayFound ==
  ASSUME ShapeInv, NEW kin, KinType(kin), Under(kin), gone = Null, newchild = Null,
         NEW p \in Inner, NEW k \in Keys
  PROVE  \A j \in DOMAIN heap[p].slotkey :
           heap[p].slotkey[j] < k <=> j <= find_lower(heap, p, k)
<1>1. p \in LiveInner /\ p \in DOMAIN heap
  <2>1. p \in DOMAIN heap /\ p # Null
    BY NodeKinds DEF ShapeInv
  <2>2. QED
    BY <2>1 DEF LiveInner
<1>2. PICK K, c, C : KnownNode(p, kin, K, c, C)
  BY <1>1, SomeNode
<1>3. LedNode(kin[p], K, c, C, kin, 0, {})
  <2>1. NodeLed(p, kin)
    BY <1>1 DEF Under
  <2>2. skippedAt(p) = 0
    <3>1. fixmerge => FALSE
      BY EmptiedChild
    <3>2. QED
      BY <3>1 DEF skippedAt
  <2>3. rising(p, kin) = {}
    BY DEF rising
  <2>4. QED
    BY <1>2, <2>1, <2>2, <2>3 DEF NodeLed, LedIn, KnownNode
<1>4. SomeBelow(C, c + 1, kin)
  <2>1. gone \notin Elements(C)
    <3>1. \A i \in 1 .. c + 1 : C[i] \in DOMAIN heap /\ C[i] \in Nodes
      BY <1>2 DEF KnownNode
    <3>2. Len(C) = c + 1 /\ Null \notin Nodes
      BY <1>2, CompactAssumption DEF KnownNode
    <3>3. QED
      BY <3>1, <3>2 DEF Elements
  <2>2. QED
    BY <1>2, <2>1 DEF KnownNode
<1>5. c \in Nat /\ NatUpTo(K, c) /\ NatBelow(C, c + 1, kin) /\ DOMAIN K = 1 .. c /\ K = heap[p].slotkey
      /\ c = Len(K)
  BY <1>2 DEF KnownNode
<1>6. k \in Nat
  BY KeyTypes
<1>7. PICK s : s = find_lower(heap, p, k)
  OBVIOUS
<1>8. s = Cardinality({i \in 1 .. c : K[i] < k})
  <2>1. heap[p].level # 0
    BY DEF Inner, Leaves, isleafnode
  <2>2. QED
    BY <1>5, <1>7, <2>1 DEF find_lower
<1>9. \A j \in 1 .. c : K[j] < k <=> j <= s
  BY <1>3, <1>4, <1>5, <1>6, <1>8, SlotFound
<1>10. QED
  BY <1>5, <1>7, <1>9

\* A call begins in a tree with nodes.
LEMMA BeginFound ==
  ASSUME KeptInv, NEW kin, Known(kin), NEW k \in Keys, BeginInsert(k) \/ BeginErase(k),
         root # Null, KeptInv'
  PROVE  FoundInv'
<1>1. ShapeInv /\ TypeOK /\ CallUnderWay
  BY KeptParts
<1>2. pc = "idle" /\ pc' \in {"insert", "erase"} /\ key' = k /\ heap' = heap /\ root' = root
      /\ stack' = <<rootFrame(heap, root, k)>> /\ newchild' = newchild /\ fixmerge' = fixmerge
      /\ lastkey' = lastkey /\ stored' = stored
  BY DEF BeginInsert, BeginErase, tree, split, result
<1>3. newchild = Null /\ ~fixmerge /\ gone = Null
  BY <1>1, <1>2, PlainPc
<1>4. PlainStep
  BY <1>2, <1>3 DEF PlainStep
<1>5. present' = present
  BY <1>2 DEF present
<1>6. Under(kin)'
  BY <1>1, <1>2, <1>4, <1>5, UnderSame DEF Known
<1>7. RightWay'
  <2>1. Len(stack') = 1 /\ stack'[1] = rootFrame(heap, root, k)
    BY <1>2
  <2>2. stack'[1].node = root /\ stack'[1].slot = find_lower(heap, root, k)
    BY <2>1 DEF rootFrame
  <2>3. Inner' = Inner
    BY <1>2, SameHeap
  <2>4. root \in Inner => \A j \in DOMAIN heap[root].slotkey :
           heap[root].slotkey[j] < k <=> j <= find_lower(heap, root, k)
    BY <1>1, <1>3, WayFound DEF Known
  <2>5. QED
    BY <1>2, <2>1, <2>2, <2>3, <2>4 DEF RightWay
<1>8. lastkey = Null
  BY <1>2 DEF Known, LastkeyKnown
<1>9. LastkeyKnown(kin)'
  BY <1>2, <1>8 DEF LastkeyKnown
<1>10. SplitParted(kin)'
  BY <1>2, <1>3, NoneRising
<1>11. QED
  BY <1>6, <1>7, <1>9, <1>10, FoundNext DEF Known

\* A step of the descent.
LEMMA DescendFound ==
  ASSUME KeptInv, NEW kin, Known(kin), Descend, KeptInv'
  PROVE  FoundInv'
<1>1. ShapeInv /\ TypeOK /\ CallUnderWay
  BY KeptParts
<1>2. descending /\ pc' = pc /\ key' = key /\ heap' = heap /\ root' = root
      /\ stack' = Append(stack, childFrame(top)) /\ newchild' = newchild /\ fixmerge' = fixmerge
      /\ lastkey' = lastkey /\ stored' = stored /\ ~isleafnode(cur)
  BY DEF Descend, tree, split, result, descending
<1>3. newchild = Null /\ ~fixmerge /\ gone = Null /\ key \in Keys /\ stack # <<>> /\ root # Null
  BY <1>1, <1>2, OnTheWay
<1>4. PlainStep
  BY <1>2, <1>3 DEF PlainStep
<1>5. present' = present
  BY <1>2 DEF present
<1>6. Under(kin)'
  BY <1>1, <1>2, <1>4, <1>5, UnderSame DEF Known
<1>7. cur \in Inner
  <2>1. TypeOK /\ LinkedOnce /\ StackLeadsDown /\ \A n \in LiveInner : InnerFilled(n)
    BY <1>1 DEF Tree, ShapeInv, CallUnderWay
  <2>2. cur \in DOMAIN heap
    BY <1>3, <2>1, CurrentNode
  <2>3. QED
    BY <1>2, <2>2 DEF Inner, Leaves
<1>8. PICK f : f = childFrame(top)
  OBVIOUS
<1>9. f \in Frames /\ f.node \in DOMAIN heap /\ f.slot = find_lower(heap, f.node, key)
  BY <1>1, <1>2, <1>7, <1>8, ChildFrame
<1>10. Len(stack') = Len(stack) + 1 /\ stack'[Len(stack) + 1] = f
       /\ \A e \in 1 .. Len(stack) : stack'[e] = stack[e]
  BY <1>1, <1>2, <1>8, <1>9, AppendedStack
<1>11. Inner' = Inner
  BY <1>2, SameHeap
<1>12. Len(stack) \in Nat
  BY <1>1, <1>3, StackEnds
<1>13. ASSUME NEW e \in 1 .. Len(stack'), stack'[e].node \in Inner',
              NEW j \in DOMAIN heap'[stack'[e].node].slotkey
       PROVE  heap'[stack'[e].node].slotkey[j] < key' <=> j <= stack'[e].slot
  <2>1. CASE e = Len(stack) + 1
    <3>1. f.node \in Inner /\ j \in DOMAIN heap[f.node].slotkey
      BY <1>2, <1>10, <1>11, <1>13, <2>1
    <3>2. heap[f.node].slotkey[j] < key <=> j <= find_lower(heap, f.node, key)
      BY <1>1, <1>3, <3>1, WayFound DEF Known
    <3>3. QED
      BY <1>2, <1>9, <1>10, <2>1, <3>2
  <2>2. CASE e # Len(stack) + 1
    <3>1. e \in 1 .. Len(stack)
      BY <1>10, <1>12, <2>2
    <3>2. stack'[e] = stack[e]
      BY <1>10, <3>1
    <3>3. stack[e].node \in Inner /\ j \in DOMAIN heap[stack[e].node].slotkey
      BY <1>2, <1>11, <1>13, <3>2
    <3>4. heap[stack[e].node].slotkey[j] < key <=> j <= stack[e].slot
      BY <1>2, <3>1, <3>3 DEF Known, RightWay
    <3>5. QED
      BY <1>2, <3>2, <3>4
  <2>3. QED
    BY <2>1, <2>2
<1>14. RightWay'
  BY <1>13 DEF RightWay
<1>15. lastkey = Null
  BY <1>2 DEF Known, LastkeyKnown, descending
<1>16. LastkeyKnown(kin)'
  BY <1>2, <1>15 DEF LastkeyKnown
<1>17. SplitParted(kin)'
  BY <1>2, <1>3, NoneRising
<1>18. QED
  BY <1>6, <1>14, <1>16, <1>17, FoundNext DEF Known

\* A call that returns, and leaves the nodes as they are.
LEMMA ReturnFound ==
  ASSUME KeptInv, NEW kin, Known(kin), return, heap' = heap, root' = root, newchild = Null,
         ~fixmerge, present' = present, pc # "insert", KeptInv'
  PROVE  FoundInv'
<1>1. ShapeInv
  BY KeptParts
<1>2. pc' = "idle" /\ newchild' = Null /\ lastkey' = Null /\ fixmerge' = FALSE
  BY DEF return
<1>3. PlainStep
  BY <1>2 DEF PlainStep
<1>4. Under(kin)'
  BY <1>1, <1>3, UnderSame DEF Known
<1>5. RightWay'
  BY <1>2 DEF RightWay, descending
<1>6. LastkeyKnown(kin)'
  BY <1>2 DEF LastkeyKnown
<1>7. SplitParted(kin)'
  BY <1>2, NoneRising
<1>8. QED
  BY <1>4, <1>5, <1>6, <1>7, FoundNext DEF Known

\* A key that is not there is not erased.
LEMMA MissFound ==
  ASSUME KeptInv, NEW kin, Known(kin), EraseMiss, KeptInv'
  PROVE  FoundInv'
<1>1. ShapeInv /\ CallUnderWay
  BY KeptParts
<1>2. pc = "erase" /\ return /\ heap' = heap /\ root' = root /\ stored' = stored
  BY DEF EraseMiss, tree
<1>3. newchild = Null /\ ~fixmerge
  BY <1>1, <1>2, PlainPc
<1>4. present' = present
  BY <1>2 DEF present, return
<1>5. QED
  BY <1>2, <1>3, <1>4, ReturnFound

\* The end of erase_one.
LEMMA FinishEraseFound ==
  ASSUME KeptInv, NEW kin, Known(kin), FinishErase, KeptInv'
  PROVE  FoundInv'
<1>1. ShapeInv /\ CallUnderWay
  BY KeptParts
<1>2. pc = "fix" /\ return /\ heap' = heap /\ root' = root /\ stored' = stored \ {key} /\ stack = <<>>
  BY DEF FinishErase, tree
<1>3. newchild = Null /\ ~fixmerge
  BY <1>1, <1>2 DEF CallUnderWay
<1>4. present' = present
  BY <1>2 DEF present, return
<1>5. QED
  BY <1>2, <1>3, <1>4, ReturnFound

\* The end of insert_start, with no split of the root.
LEMMA FinishInsertFound ==
  ASSUME KeptInv, NEW kin, Known(kin), FinishInsert, newchild = Null, KeptInv'
  PROVE  FoundInv'
<1>1. ShapeInv /\ CallUnderWay
  BY KeptParts
<1>2. pc = "link" /\ return /\ heap' = heap /\ root' = root /\ stored' = stored \cup {key}
  BY DEF FinishInsert
<1>3. ~fixmerge
  BY <1>1, <1>2 DEF CallUnderWay
<1>4. present' = present
  BY <1>2 DEF present, return
<1>5. QED
  BY <1>2, <1>3, <1>4, ReturnFound

\* A node of the heap as a sequence of keys and one of children.
LEMMA NodeFields ==
  ASSUME ShapeInv, NEW kin, KinType(kin), NEW p \in LiveInner
  PROVE  \E K, c, C :
           /\ K = heap[p].slotkey /\ C = heap[p].childid /\ c = Len(K) /\ c \in Nat
           /\ K \in Seq(Keys) /\ C \in Seq(Nodes) /\ Len(C) = c + 1
           /\ NatUpTo(K, c) /\ NatBelow(C, c + 1, kin)
<1>1. TypeOK /\ LinkedOnce /\ InnerFilled(p)
  BY DEF ShapeInv, Tree
<1>2. PICK K : K = heap[p].slotkey
  OBVIOUS
<1>3. PICK C : C = heap[p].childid
  OBVIOUS
<1>4. PICK c : c = Len(K)
  OBVIOUS
<1>5. K \in Seq(Keys) /\ C \in Seq(Nodes) /\ c \in Nat /\ Len(C) = c + 1
  BY <1>1, <1>2, <1>3, <1>4, ChildNodes
<1>6. NatUpTo(K, c)
  <2>1. \A j \in 1 .. c : K[j] \in Keys
    BY <1>4, <1>5
  <2>2. QED
    BY <2>1, KeyTypes DEF NatUpTo
<1>7. NatBelow(C, c + 1, kin)
  <2>1. \A i \in 1 .. c + 1 : kin[C[i]] \subseteq Keys
    BY <1>5 DEF KinType
  <2>2. QED
    BY <2>1, KeyTypes DEF NatBelow
<1>8. QED
  BY <1>2, <1>3, <1>4, <1>5, <1>6, <1>7

\* The last key below the last child is the last one below the node.
LEMMA LastBelow ==
  ASSUME ShapeInv, stack # <<>>, hasParent, ~keyAbove, NEW kin, KinType(kin),
         NEW S, LedIn(heap, parent, S, kin, 0, {}),
         NEW x \in kin[cur], \A k \in kin[cur] : k <= x
  PROVE  x \in S /\ \A k \in S : k <= x
<1>1. TypeOK /\ LinkedOnce /\ StackLeadsDown /\ root # Null /\ \A n \in LiveInner : InnerFilled(n)
  BY DEF ShapeInv, Tree, CallUnderWay
<1>2. /\ parent \in LiveInner /\ parentslot \in 0 .. Len(heap[parent].slotkey)
      /\ cur = heap[parent].childid[parentslot + 1]
  BY <1>1, CurrentNode
<1>3. slotuse(parent) = Len(heap[parent].slotkey)
  BY <1>1, <1>2, ChildNodes
<1>4. PICK K, c, C : /\ K = heap[parent].slotkey /\ C = heap[parent].childid /\ c = Len(K) /\ c \in Nat
                     /\ NatUpTo(K, c) /\ NatBelow(C, c + 1, kin)
  BY <1>2, NodeFields
<1>5. parentslot = c
  BY <1>2, <1>3, <1>4 DEF keyAbove
<1>6. C[c + 1] = cur
  BY <1>2, <1>4, <1>5
<1>7. LedNode(S, K, c, C, kin, 0, {})
  BY <1>4 DEF LedIn
<1>8. x \in kin[C[c + 1]] /\ \A k \in kin[C[c + 1]] : k <= x
  BY <1>6
<1>9. NatUpTo(K, c) /\ NatBelow(C, c + 1, kin) /\ c \in Nat
  BY <1>4
<1>10. QED
  BY <1>7, <1>8, <1>9, LastOfLast

\* Of a node that has no emptied child, and no new one.
LEMMA PlainNode ==
  ASSUME NEW kin, Under(kin), newchild = Null, ~fixmerge, NEW p \in LiveInner
  PROVE  LedIn(heap, p, kin[p], kin, 0, {})
<1>1. NodeLed(p, kin)
  BY DEF Under
<1>2. skippedAt(p) = 0 /\ rising(p, kin) = {}
  BY DEF skippedAt, rising
<1>3. QED
  BY <1>1, <1>2 DEF NodeLed

\* The last key below the node that is left is the last below its parent if it
\* is the last child.
LEMMA LastkeyUp ==
  ASSUME ShapeInv, pc = "balance", NEW kin, KinType(kin), Under(kin), LastkeyKnown(kin),
         lastkey # Null, hasParent
  PROVE  lastkey \in kin[parent] /\ \A k \in kin[parent] : k <= lastkey
<1>1. stack # <<>> /\ newchild = Null /\ ~fixmerge
  BY AtBalance
<1>2. ~keyAbove /\ lastkey \in kin[cur] /\ \A k \in kin[cur] : k <= lastkey
  BY <1>1 DEF LastkeyKnown
<1>3. parent \in LiveInner
  <2>1. TypeOK /\ LinkedOnce /\ StackLeadsDown /\ root # Null /\ \A n \in LiveInner : InnerFilled(n)
    BY DEF ShapeInv, Tree, CallUnderWay
  <2>2. QED
    BY <1>1, <2>1, CurrentNode
<1>4. LedIn(heap, parent, kin[parent], kin, 0, {})
  BY <1>1, <1>3, PlainNode
<1>5. PICK S : S = kin[parent]
  OBVIOUS
<1>6. lastkey \in S /\ \A k \in S : k <= lastkey
  BY <1>1, <1>2, <1>4, <1>5, LastBelow
<1>7. QED
  BY <1>5, <1>6

\* The parent is the current node then.
LEMMA UpToParent ==
  ASSUME ShapeInv, stack # <<>>, stack' = Front(stack), stack' # <<>>
  PROVE  hasParent /\ cur' = parent /\ top' = above
<1>1. Len(stack) \in Nat /\ Len(stack) >= 1 /\ Len(Front(stack)) = Len(stack) - 1
      /\ (Front(stack) = <<>> <=> Len(stack) = 1)
      /\ Front(stack) \in Seq(Frames)
      /\ \A e \in 1 .. Len(stack) - 1 : Front(stack)[e] = stack[e]
  BY StackEnds DEF ShapeInv
<1>2. Len(stack) > 1
  BY <1>1
<1>3. stack' \in Seq(Frames) /\ Len(stack') = Len(stack) - 1
  BY <1>1
<1>4. Last(stack') = stack'[Len(stack) - 1]
  BY <1>3 DEF Last
<1>5. Last(stack') = stack[Len(stack) - 1]
  BY <1>1, <1>2, <1>4
<1>6. QED
  BY <1>2, <1>5 DEF hasParent, cur, top, parent, above

\* The key that an ancestor's separator is to become, a level higher.
LEMMA LastkeyAbove ==
  ASSUME ShapeInv, pc = "balance", NEW kin, KinType(kin), Under(kin), LastkeyKnown(kin),
         NEW kin2, fromInner, lastkey' = lastkey,
         hasParent => kin2[parent] = kin[parent]
  PROVE  LastkeyKnown(kin2)'
<1>1. stack # <<>> /\ pc' = "fix" /\ stack' = Front(stack)
  BY AtBalance DEF fromInner
<1>2. ASSUME lastkey # Null, stack' # <<>>
      PROVE  lastkey' \in kin2[cur'] /\ \A k \in kin2[cur'] : k <= lastkey'
  <2>1. hasParent /\ cur' = parent
    BY <1>1, <1>2, UpToParent
  <2>2. lastkey \in kin[parent] /\ \A k \in kin[parent] : k <= lastkey
    BY <1>2, <2>1, LastkeyUp
  <2>3. QED
    BY <2>1, <2>2
<1>3. QED
  BY <1>1, <1>2 DEF LastkeyKnown

\* A node with enough keys.
LEMMA BalancedFound ==
  ASSUME KeptInv, NEW kin, Known(kin), Balanced, KeptInv'
  PROVE  FoundInv'
<1>1. ShapeInv
  BY KeptParts
<1>2. pc = "balance" /\ fromInner /\ heap' = heap /\ root' = root /\ lastkey' = lastkey
      /\ fixmerge' = fixmerge /\ newchild' = newchild /\ pc' = "fix" /\ stored' = stored /\ key' = key
  BY DEF Balanced, fromInner, split, result
<1>3. newchild = Null /\ ~fixmerge
  BY <1>1, <1>2, AtBalance
<1>4. PlainStep
  BY <1>2, <1>3 DEF PlainStep
<1>5. present' = present
  BY <1>2 DEF present
<1>6. Under(kin)'
  BY <1>1, <1>2, <1>4, <1>5, UnderSame DEF Known
<1>7. LastkeyKnown(kin)'
  BY <1>1, <1>2, LastkeyAbove DEF Known
<1>8. RightWay'
  BY <1>2 DEF RightWay, descending
<1>9. SplitParted(kin)'
  BY <1>2, <1>3, NoneRising
<1>10. QED
  BY <1>6, <1>7, <1>8, <1>9, FoundNext DEF Known

\* The first leaf.
LEMMA FirstLeafFound ==
  ASSUME KeptInv, NEW kin, Known(kin), NEW k \in Keys, BeginInsert(k), root = Null, KeptInv'
  PROVE  FoundInv'
<1>1. ShapeInv /\ Recorded
  BY KeptParts
<1>2. PICK none : none = [n \in Nodes |-> {}]
  OBVIOUS
<1>3. KinType(none)
  BY <1>2 DEF KinType
<1>4. /\ heap'[fresh] = Leaf({}, Null, Null) /\ DOMAIN heap' = {fresh}
      /\ Leaves' = {fresh} /\ Inner' = {} /\ fresh \in Nodes
      /\ root' = fresh /\ newchild' = Null /\ ~fixmerge' /\ pc' = "insert"
      /\ lastkey' = lastkey /\ stored' = stored /\ pc = "idle"
  BY <1>1, FirstLeaf
<1>5. stored' = {}
  BY <1>1, <1>4 DEF Recorded
<1>6. Under(none)'
  <2>1. LiveLeaves' \subseteq {fresh} /\ LiveInner' = {} /\ Live' \subseteq {fresh}
    BY <1>4 DEF LiveLeaves, LiveInner, Live
  <2>2. heap'[fresh].items = {} /\ none[fresh] = {}
    BY <1>2, <1>4, GivenFields
  <2>3. \A n \in LiveLeaves' : none[n] = heap'[n].items
    BY <2>1, <2>2
  <2>4. present' = {}
    BY <1>4, <1>5 DEF present
  <2>5. present' = none[root'] \cup (IF rootSplit' THEN none[newchild'] ELSE {})
    BY <1>4, <2>2, <2>4 DEF rootSplit
  <2>6. \A n \in Live' : none[n] # {} \/ (n = root' /\ pc' = "insert")
    BY <1>4, <2>1
  <2>7. QED
    BY <1>4, <2>1, <2>3, <2>5, <2>6 DEF Under
<1>7. RightWay'
  BY <1>4 DEF RightWay
<1>8. lastkey = Null
  BY <1>4 DEF Known, LastkeyKnown
<1>9. LastkeyKnown(none)'
  BY <1>4, <1>8 DEF LastkeyKnown
<1>10. SplitParted(none)'
  BY <1>4, NoneRising
<1>11. QED
  BY <1>3, <1>6, <1>7, <1>9, <1>10, FoundNext

\* The last key of the tree is erased.
LEMMA EraseEmptyRootFound ==
  ASSUME KeptInv, NEW kin, Known(kin), EraseEmptyRoot, KeptInv'
  PROVE  FoundInv'
<1>1. ShapeInv
  BY KeptParts
<1>2. DOMAIN heap' = {} /\ Leaves' = {} /\ Inner' = {}
  BY <1>1, EraseEmptyRootHeap
<1>3. root' = Null /\ pc' = "idle" /\ newchild' = Null /\ lastkey' = Null /\ fixmerge' = FALSE
  BY DEF EraseEmptyRoot, return
<1>4. LiveLeaves' = {} /\ LiveInner' = {} /\ Live' = {}
  BY <1>2 DEF LiveLeaves, LiveInner, Live
<1>5. Under(kin)'
  BY <1>3, <1>4 DEF Under
<1>6. RightWay'
  BY <1>3 DEF RightWay, descending
<1>7. LastkeyKnown(kin)'
  BY <1>3 DEF LastkeyKnown
<1>8. SplitParted(kin)'
  BY <1>3, NoneRising
<1>9. QED
  BY <1>5, <1>6, <1>7, <1>8, FoundNext DEF Known

\* The only child of the root becomes the root.
LEMMA ShrinkRootFound ==
  ASSUME KeptInv, NEW kin, Known(kin), ShrinkRoot, KeptInv'
  PROVE  FoundInv'
<1>1. ShapeInv
  BY KeptParts
<1>2. /\ cur = root /\ stack' = <<>> /\ root \in Inner /\ gone' = Null
      /\ root' = heap[root].childid[1] /\ Len(heap[root].childid) = 1
      /\ Len(heap[root].slotkey) = 0 /\ root' \in DOMAIN heap /\ root' # root
      /\ DOMAIN heap' = DOMAIN heap \ {root}
      /\ \A n \in DOMAIN heap' : heap'[n] = heap[n]
      /\ Inner' = Inner \ {root}
      /\ LiveInner' = Inner \ {root} /\ LiveLeaves' = Leaves
  BY <1>1, ShrinkRootHeap
<1>3. pc = "balance" /\ pc' = "fix" /\ lastkey' = Null /\ fixmerge' = fixmerge /\ newchild' = newchild
      /\ key' = key /\ stored' = stored
  BY DEF ShrinkRoot, fromInner, split
<1>4. newchild = Null /\ ~fixmerge /\ gone = Null /\ LiveInner = Inner /\ LiveLeaves = Leaves
      /\ Live = DOMAIN heap
  BY <1>1, <1>3, AtBalance
<1>5. \A n \in LiveLeaves' : n \in DOMAIN heap'
  <2>1. Leaves \subseteq DOMAIN heap /\ root \notin Leaves
    BY <1>2 DEF Leaves, Inner
  <2>2. QED
    BY <1>2, <2>1
<1>6. \A n \in LiveLeaves' : kin[n] = heap'[n].items
  BY <1>2, <1>4, <1>5 DEF Known, Under
<1>7. ASSUME NEW p \in LiveInner' PROVE NodeLed(p, kin)'
  <2>1. p \in LiveInner /\ p \in DOMAIN heap'
    BY <1>2, <1>4 DEF Inner
  <2>2. LedIn(heap, p, kin[p], kin, 0, {})
    BY <1>4, <2>1, PlainNode DEF Known
  <2>3. skippedAt(p)' = 0 /\ rising(p, kin)' = {}
    BY <1>3, <1>4 DEF skippedAt, rising
  <2>4. QED
    BY <1>2, <2>1, <2>2, <2>3 DEF NodeLed, LedIn
<1>8. kin[root] = kin[root']
  <2>1. LedIn(heap, root, kin[root], kin, 0, {})
    BY <1>2, <1>4, PlainNode DEF Known
  <2>2. Covers(kin[root], heap[root].childid, 0 + 1, kin, {})
    BY <1>2, <2>1 DEF LedIn, LedNode
  <2>3. \A k : k \in kin[root] <=> k \in kin[heap[root].childid[1]]
    BY <2>2 DEF Covers
  <2>4. QED
    BY <1>2, <2>3
<1>9. present' = present
  BY <1>3 DEF present
<1>10. root # Null /\ ~rootSplit /\ ~rootSplit'
  BY <1>1, <1>2, <1>3, <1>4, NodeKinds DEF rootSplit, ShapeInv
<1>11. present' = kin[root'] \cup (IF rootSplit' THEN kin[newchild'] ELSE {})
  BY <1>8, <1>9, <1>10 DEF Known, Under
<1>12. \A n \in Live' : kin[n] # {} \/ (n = root' /\ pc' = "insert")
  BY <1>2, <1>3, <1>4 DEF Known, Under, Live
<1>13. Under(kin)'
  BY <1>3, <1>4, <1>6, <1>7, <1>11, <1>12 DEF Under
<1>14. RightWay'
  BY <1>3 DEF RightWay, descending
<1>15. LastkeyKnown(kin)'
  BY <1>3 DEF LastkeyKnown
<1>16. SplitParted(kin)'
  BY <1>3, <1>4, NoneRising
<1>17. QED
  BY <1>13, <1>14, <1>15, <1>16, FoundNext DEF Known

\* A step that changes nothing.
LEMMA StutterFound ==
  ASSUME FoundInv, UNCHANGED vars
  PROVE  FoundInv'
<1>1. KeptInv'
  BY StutterKept DEF FoundInv
<1>2. PICK kin \in [Nodes -> SUBSET Keys] : Led(kin)
  BY DEF FoundInv
<1>3. /\ root' = root /\ heap' = heap /\ pc' = pc /\ key' = key /\ stack' = stack /\ newkey' = newkey
      /\ newchild' = newchild /\ lastkey' = lastkey /\ fixmerge' = fixmerge /\ stored' = stored
  BY DEF vars, tree, split, result
<1>4. top' = top /\ cur' = cur /\ above' = above /\ hasParent' = hasParent
  BY <1>3 DEF top, cur, above, hasParent
<1>5. parent' = parent /\ parentslot' = parentslot
  BY <1>3, <1>4 DEF parent, parentslot
<1>6. \A n, s : slotuse(n)' = slotuse(n) /\ child(n, s)' = child(n, s) /\ isleafnode(n)' = isleafnode(n)
  BY <1>3 DEF slotuse, child, isleafnode
<1>7. keyAbove' = keyAbove
  BY <1>3, <1>4, <1>5 DEF keyAbove, slotuse
<1>8. emptied' = emptied
  BY <1>3, <1>4 DEF emptied, slotuse, child
<1>9. gone' = gone /\ Leaves' = Leaves /\ Inner' = Inner
  BY <1>3, <1>4, <1>8, SameHeap DEF gone, child
<1>10. LiveLeaves' = LiveLeaves /\ LiveInner' = LiveInner /\ Live' = Live
  BY <1>3, <1>9 DEF LiveLeaves, LiveInner, Live
<1>11. present' = present /\ rootSplit' = rootSplit /\ splitNode' = splitNode /\ descending' = descending
  BY <1>3, <1>4 DEF present, rootSplit, splitNode, descending, child
<1>12. \A p : rising(p, kin)' = rising(p, kin) /\ Slots(p)' = Slots(p)
  BY <1>3, <1>4 DEF rising, Slots
<1>13. KeysBelow(kin)'
  BY <1>2, <1>3, <1>9, <1>10, <1>11, <1>12 DEF Led, KeysBelow
<1>14. \A p \in LiveInner' : Parted(p, kin)'
  BY <1>2, <1>3, <1>4, <1>8, <1>10, <1>12 DEF Led, Parted
<1>15. SplitParted(kin)'
  BY <1>2, <1>3, <1>4, <1>11 DEF Led, SplitParted
<1>16. RightWay'
  BY <1>2, <1>3, <1>9, <1>11 DEF Led, RightWay
<1>17. LastkeyKnown(kin)'
  BY <1>2, <1>3, <1>4, <1>7 DEF Led, LastkeyKnown
<1>18. Led(kin)'
  BY <1>13, <1>14, <1>15, <1>16, <1>17 DEF Led
<1>19. QED
  BY <1>1, <1>18 DEF FoundInv

-----------------------------------------------------------------------------
(* A key enters a leaf *)

\* The nodes of the descent.
onPath(n) == \E e \in 1 .. Len(stack) : n = stack[e].node

\* The keys below the nodes with the new one, which is below those of the path.
gained(kin) == [n \in Nodes |-> IF onPath(n) THEN kin[n] \cup {key} ELSE kin[n]]

\* A child on the path is below the frame before.
LEMMA PathChild ==
  ASSUME ShapeInv, descending, NEW p \in LiveInner, NEW i \in Slots(p),
         NEW e \in 1 .. Len(stack), heap[p].childid[i] = stack[e].node
  PROVE  \E d \in 1 .. Len(stack) - 1 : e = d + 1 /\ p = stack[d].node /\ i = stack[d].slot + 1
<1>1. TypeOK /\ LinkedOnce /\ StackLeadsDown /\ root # Null /\ stack # <<>>
      /\ \A n \in LiveInner : InnerFilled(n)
  BY OnTheWay DEF ShapeInv, Tree, CallUnderWay
<1>2. Len(stack) \in Nat
  BY <1>1, StackEnds
<1>3. e # 1
  <2>1. heap[p].childid[i] # root
    BY <1>1 DEF LinkedOnce
  <2>2. stack[1].node = root
    BY <1>1 DEF StackLeadsDown
  <2>3. QED
    BY <2>1, <2>2
<1>4. PICK d : d = e - 1
  OBVIOUS
<1>5. d \in 1 .. Len(stack) - 1 /\ e = d + 1
  BY <1>2, <1>3, <1>4
<1>6. FramesMeet(d)
  BY <1>1, <1>5 DEF StackLeadsDown
<1>7. stack[e].node = heap[stack[d].node].childid[stack[d].slot + 1]
  BY <1>5, <1>6 DEF FramesMeet, child
<1>8. stack[d].node \in LiveInner
  BY <1>1, <1>5, HigherFrames
<1>9. stack[d].slot + 1 \in Slots(stack[d].node)
  <2>1. d \in 1 .. Len(stack) /\ d < Len(stack)
    BY <1>2, <1>5
  <2>2. FrameAt(d)
    BY <1>1, <2>1 DEF StackLeadsDown
  <2>3. stack[d].node \in Inner
    BY <1>8 DEF LiveInner
  <2>4. stack[d].slot \in 0 .. slotuse(stack[d].node)
    BY <2>1, <2>2, <2>3 DEF FrameAt
  <2>5. PICK q \in LiveInner : q = stack[d].node
    BY <1>8
  <2>6. Slots(q) = 1 .. slotuse(q) + 1 /\ slotuse(q) \in Nat
    BY <1>1, ChildNodes
  <2>7. PICK u : u = stack[d].slot
    OBVIOUS
  <2>8. u \in 0 .. slotuse(q)
    BY <2>4, <2>5, <2>7
  <2>9. u + 1 \in Slots(q) /\ u + 1 = stack[d].slot + 1
    BY <2>6, <2>7, <2>8
  <2>10. QED
    BY <2>5, <2>9, Zenon
<1>10. PICK q \in LiveInner : q = stack[d].node
  BY <1>8
<1>14. PICK j \in Slots(q) : j = stack[d].slot + 1
  BY <1>9, <1>10
<1>11. heap[p].childid[i] = heap[q].childid[j]
  BY <1>7, <1>10, <1>14
<1>12. p = q /\ i = j
  BY <1>1, <1>11 DEF LinkedOnce
<1>13. QED
  BY <1>5, <1>10, <1>12, <1>14

\* Of the nodes on the path only the last one is a leaf, and no two are the same.
LEMMA PathNodes ==
  ASSUME ShapeInv, descending, NEW d \in 1 .. Len(stack), NEW e \in 1 .. Len(stack)
  PROVE  /\ stack[d].node = stack[e].node => d = e
         /\ stack[e].node \in Inner => stack[e].slot \in 0 .. slotuse(stack[e].node)
         /\ stack[e].node \in Leaves => e = Len(stack)
         /\ stack[e].node \in DOMAIN heap
<1>1. TypeOK /\ StackLeadsDown /\ root # Null /\ pc # "balance" /\ stack # <<>>
  BY OnTheWay DEF ShapeInv, CallUnderWay, descending
<1>2. FrameAt(d) /\ FrameAt(e)
  BY <1>1 DEF StackLeadsDown
<1>3. stack[d].node \in DOMAIN heap /\ stack[e].node \in DOMAIN heap /\ root \in DOMAIN heap
  <2>1. root \in DOMAIN heap
    BY <1>1 DEF TypeOK
  <2>2. QED
    BY <1>2, <2>1 DEF FrameAt, Live
<1>4. heap[stack[d].node].level \in Nat /\ heap[stack[e].node].level \in Nat /\ heap[root].level \in Nat
  BY <1>1, <1>3, Levels
<1>5. heap[stack[d].node].level + d = heap[root].level + 1
      /\ heap[stack[e].node].level + e = heap[root].level + 1
  BY <1>2 DEF FrameAt
<1>6. d \in Int /\ e \in Int
  OBVIOUS
<1>7. stack[d].node = stack[e].node => d = e
  BY <1>4, <1>5, <1>6
<1>8. stack[e].node \in Inner => stack[e].slot \in 0 .. slotuse(stack[e].node)
  BY <1>1, <1>2 DEF FrameAt
<1>9. stack[e].node \in Leaves => e = Len(stack)
  <2>1. ASSUME stack[e].node \in Leaves PROVE ~(e < Len(stack))
    BY <1>2, <2>1 DEF FrameAt, Inner
  <2>2. Len(stack) \in Nat
    BY <1>1, StackEnds
  <2>3. QED
    BY <2>1, <2>2
<1>10. QED
  BY <1>3, <1>7, <1>8, <1>9

\* The separators of the path part the new key from the others.
LEMMA PathGains ==
  ASSUME ShapeInv, descending, isleafnode(cur), NEW kin, Known(kin),
         NEW kin2, kin2 = gained(kin), NEW p \in Inner
  PROVE  LedIn(heap, p, kin2[p], kin2, 0, {})
<1>1. /\ stack # <<>> /\ root # Null /\ gone = Null /\ ~fixmerge /\ newchild = Null
      /\ LiveInner = Inner /\ cur \in Leaves /\ key \in Keys
  BY AtLeaf
<1>2. p \in LiveInner
  BY <1>1
<1>3. PICK K, c, C : KnownNode(p, kin, K, c, C)
  BY <1>2, SomeNode DEF Known
<1>4. c \in Nat /\ Len(C) = c + 1 /\ K = heap[p].slotkey /\ C = heap[p].childid /\ c = Len(K)
      /\ DOMAIN K = 1 .. c
      /\ \A i, j \in 1 .. c + 1 : C[i] = C[j] => i = j
  BY <1>3 DEF KnownNode
<1>5. \A i \in 1 .. c + 1 : C[i] \in Nodes
  BY <1>3 DEF KnownNode
<1>6. LedNode(kin[p], K, c, C, kin, 0, {})
  <2>1. LedIn(heap, p, kin[p], kin, 0, {})
    BY <1>1, <1>2, PlainNode DEF Known
  <2>2. QED
    BY <1>4, <2>1 DEF LedIn
<1>7. Slots(p) = 1 .. c + 1
  BY <1>4 DEF Slots
<1>8. p \in Nodes /\ p \notin Leaves
  BY DEF ShapeInv, TypeOK, Inner
<1>9. CASE onPath(p)
  <2>1. PICK d \in 1 .. Len(stack) : p = stack[d].node
    BY <1>9 DEF onPath
  <2>2. d # Len(stack)
    <3>1. cur = stack[Len(stack)].node
      BY <1>1, StackEnds DEF ShapeInv
    <3>2. QED
      BY <1>1, <1>8, <2>1, <3>1
  <2>3. Len(stack) \in Nat
    BY <1>1, StackEnds DEF ShapeInv
  <2>4. d \in 1 .. Len(stack) - 1 /\ d + 1 \in 1 .. Len(stack)
    BY <2>2, <2>3
  <2>5. stack[d].slot \in 0 .. slotuse(p) /\ slotuse(p) = c
    <3>1. slotuse(p) = c
      BY <1>4, <1>8, SlotUse DEF Inner
    <3>2. QED
      BY <2>1, <3>1, PathNodes
  <2>6. PICK s : s = stack[d].slot + 1
    OBVIOUS
  <2>7. s \in 1 .. c + 1
    BY <1>4, <2>5, <2>6
  <2>8. C[s] = stack[d + 1].node
    <3>1. FramesMeet(d)
      BY <2>4 DEF ShapeInv, CallUnderWay, StackLeadsDown
    <3>2. QED
      BY <1>4, <2>1, <2>6, <3>1 DEF FramesMeet, child
  <2>9. onPath(C[s])
    BY <2>4, <2>8 DEF onPath
  <2>10. \A i \in 1 .. c + 1 : i # s => ~onPath(C[i])
    <3>1. ASSUME NEW i \in 1 .. c + 1, onPath(C[i]) PROVE i = s
      <4>1. PICK e \in 1 .. Len(stack) : C[i] = stack[e].node
        BY <3>1 DEF onPath
      <4>2. heap[p].childid[i] = stack[e].node /\ i \in Slots(p)
        BY <1>4, <1>7, <4>1
      <4>3. PICK b \in 1 .. Len(stack) - 1 : e = b + 1 /\ p = stack[b].node /\ i = stack[b].slot + 1
        BY <1>2, <4>2, PathChild
      <4>4. b \in 1 .. Len(stack)
        BY <2>3
      <4>5. b = d
        BY <2>1, <4>3, <4>4, PathNodes
      <4>6. QED
        BY <2>6, <4>3, <4>5
    <3>2. QED
      BY <3>1
  <2>11. kin2[C[s]] = kin[C[s]] \cup {key}
    BY <1>5, <2>7, <2>9 DEF gained
  <2>12. \A i \in 1 .. c + 1 : i # s => kin2[C[i]] = kin[C[i]]
    BY <1>5, <2>10 DEF gained
  <2>13. \A j \in 1 .. c : K[j] < key <=> j < s
    <3>1. d \in 1 .. Len(stack) /\ stack[d].node \in Inner
      BY <2>1
    <3>2. \A j \in DOMAIN heap[stack[d].node].slotkey :
            heap[stack[d].node].slotkey[j] < key <=> j <= stack[d].slot
      BY <3>1 DEF Known, RightWay
    <3>3. \A j \in 1 .. c : K[j] < key <=> j <= stack[d].slot
      BY <1>4, <2>1, <3>2
    <3>4. stack[d].slot \in Int
      BY <2>5
    <3>5. QED
      BY <2>6, <3>3, <3>4
  <2>17. PICK S, d1 : S = kin[p] /\ d1 = key
    OBVIOUS
  <2>18. LedNode(S, K, c, C, kin, 0, {}) /\ c \in Nat /\ \A j \in 1 .. c : K[j] < d1 <=> j < s
    BY <1>4, <1>6, <2>13, <2>17
  <2>19. kin2[C[s]] = kin[C[s]] \cup {d1}
    BY <2>11, <2>17
  <2>20. LedNode(S \cup {d1}, K, c, C, kin2, 0, {})
    BY <2>7, <2>12, <2>18, <2>19, NodeGains, ZenonT(60)
  <2>14. LedNode(kin[p] \cup {key}, K, c, C, kin2, 0, {})
    BY <2>17, <2>20
  <2>15. kin2[p] = kin[p] \cup {key}
    BY <1>8, <1>9 DEF gained
  <2>16. QED
    BY <1>4, <2>14, <2>15 DEF LedIn
<1>10. CASE ~onPath(p)
  <2>1. \A i \in 1 .. c + 1 : ~onPath(C[i])
    <3>1. ASSUME NEW i \in 1 .. c + 1, onPath(C[i]) PROVE FALSE
      <4>1. PICK e \in 1 .. Len(stack) : C[i] = stack[e].node
        BY <3>1 DEF onPath
      <4>2. heap[p].childid[i] = stack[e].node /\ i \in Slots(p)
        BY <1>4, <1>7, <4>1
      <4>3. PICK b \in 1 .. Len(stack) - 1 : e = b + 1 /\ p = stack[b].node /\ i = stack[b].slot + 1
        BY <1>2, <4>2, PathChild
      <4>4. Len(stack) \in Nat
        BY <1>1, StackEnds DEF ShapeInv
      <4>5. QED
        BY <1>10, <4>3, <4>4 DEF onPath
    <3>2. QED
      BY <3>1
  <2>2. \A i \in 1 .. c + 1 : kin2[C[i]] = kin[C[i]]
    BY <1>5, <2>1 DEF gained
  <2>3. LedNode(kin[p], K, c, C, kin2, 0, {})
    BY <1>4, <1>6, <2>2, NodeSame
  <2>4. kin2[p] = kin[p]
    BY <1>8, <1>10 DEF gained
  <2>5. QED
    BY <1>4, <2>3, <2>4 DEF LedIn
<1>11. QED
  BY <1>9, <1>10

\* What else is known of the keys below the nodes with the new one.
LEMMA KeysGained ==
  ASSUME ShapeInv, pc = "insert", isleafnode(cur), NEW kin, Known(kin),
         NEW kin2, kin2 = gained(kin)
  PROVE  /\ KinType(kin2)
         /\ kin2[root] = stored \cup {key}
         /\ kin2[cur] = heap[cur].items \cup {key}
         /\ \A n \in Leaves : n # cur => kin2[n] = heap[n].items
         /\ \A n \in DOMAIN heap : kin2[n] # {} \/ n = root
         /\ \A n \in Nodes : kin2[n] = kin[n] \/ kin2[n] = kin[n] \cup {key}
<1>1. descending
  BY DEF descending
<1>2. /\ stack # <<>> /\ root # Null /\ gone = Null /\ ~fixmerge /\ newchild = Null
      /\ LiveInner = Inner /\ LiveLeaves = Leaves /\ Live = DOMAIN heap
      /\ cur \in Leaves /\ key \in Keys /\ root \in DOMAIN heap /\ cur \in Nodes
  BY <1>1, AtLeaf
<1>3. \A n \in Nodes : kin2[n] = IF onPath(n) THEN kin[n] \cup {key} ELSE kin[n]
  BY DEF gained
<1>4. KinType(kin2)
  <2>1. kin2 = [n \in Nodes |-> kin2[n]]
    BY DEF gained
  <2>2. \A n \in Nodes : kin2[n] \subseteq Keys
    BY <1>2, <1>3 DEF Known, KinType
  <2>3. QED
    BY <2>1, <2>2 DEF KinType
<1>5. Len(stack) \in 1 .. Len(stack) /\ cur = stack[Len(stack)].node /\ 1 \in 1 .. Len(stack)
  BY <1>2, StackEnds DEF ShapeInv
<1>6. onPath(cur) /\ onPath(root)
  <2>1. stack[1].node = root
    BY <1>2 DEF ShapeInv, CallUnderWay, StackLeadsDown
  <2>2. QED
    BY <1>5, <2>1 DEF onPath
<1>7. root \in Nodes /\ DOMAIN heap \subseteq Nodes
  BY <1>2 DEF ShapeInv, TypeOK
<1>8. kin[root] = stored
  BY <1>2 DEF Known, Under, rootSplit, present
<1>9. \A n \in Leaves : kin[n] = heap[n].items /\ n \in Nodes
  BY <1>2, <1>7 DEF Known, Under, Leaves
<1>10. \A n \in Leaves : n # cur => ~onPath(n)
  <2>1. ASSUME NEW n \in Leaves, onPath(n) PROVE n = cur
    <3>1. PICK e \in 1 .. Len(stack) : n = stack[e].node
      BY <2>1 DEF onPath
    <3>2. e = Len(stack)
      BY <1>1, <3>1, PathNodes
    <3>3. QED
      BY <1>5, <3>1, <3>2
  <2>2. QED
    BY <2>1
<1>11. \A n \in DOMAIN heap : kin2[n] # {} \/ n = root
  BY <1>2, <1>3, <1>7 DEF Known, Under
<1>12. kin2[root] = stored \cup {key}
  BY <1>3, <1>6, <1>7, <1>8
<1>13. kin2[cur] = heap[cur].items \cup {key}
  BY <1>2, <1>3, <1>6, <1>9
<1>14. \A n \in Leaves : n # cur => kin2[n] = heap[n].items
  BY <1>3, <1>9, <1>10
<1>15. QED
  BY <1>3, <1>4, <1>11, <1>12, <1>13, <1>14

\* The leaf has room for the key.
LEMMA StoreRoomFound ==
  ASSUME KeptInv, NEW kin, Known(kin), StoreRoom, KeptInv'
  PROVE  FoundInv'
<1>1. ShapeInv /\ ShapeInv'
  BY DEF KeptInv
<1>2. pc = "insert" /\ isleafnode(cur) /\ pc' = "link" /\ stack' = Front(stack) /\ root' = root
      /\ key' = key /\ lastkey' = lastkey /\ stored' = stored /\ descending
  BY DEF StoreRoom, split, result, descending
<1>3. PICK kin2 : kin2 = gained(kin)
  OBVIOUS
<1>4. /\ KinType(kin2)
      /\ kin2[root] = stored \cup {key}
      /\ kin2[cur] = heap[cur].items \cup {key}
      /\ \A n \in Leaves : n # cur => kin2[n] = heap[n].items
      /\ \A n \in DOMAIN heap : kin2[n] # {} \/ n = root
  BY <1>1, <1>2, <1>3, KeysGained
<1>5. /\ heap'[cur].items = heap[cur].items \cup {key}
      /\ \A n \in DOMAIN heap : n # cur => heap'[n] = heap[n]
      /\ Leaves' = Leaves /\ Inner' = Inner /\ gone' = Null /\ Live' = DOMAIN heap
      /\ LiveInner' = Inner /\ LiveLeaves' = Leaves /\ ~fixmerge' /\ newchild' = Null
  BY <1>1, StoreRoomHeap
<1>6. /\ root # Null /\ cur \in Leaves /\ \A n \in Inner : n # cur /\ n \in DOMAIN heap
      /\ Leaves \subseteq DOMAIN heap
  BY <1>1, <1>2, AtLeaf DEF Inner, Leaves
<1>7. \A n \in LiveLeaves' : kin2[n] = heap'[n].items
  BY <1>4, <1>5, <1>6
<1>8. ASSUME NEW p \in LiveInner' PROVE NodeLed(p, kin2)'
  <2>1. p \in Inner
    BY <1>5
  <2>2. LedIn(heap, p, kin2[p], kin2, 0, {})
    BY <1>1, <1>2, <1>3, <2>1, PathGains
  <2>3. skippedAt(p)' = 0 /\ rising(p, kin2)' = {}
    BY <1>5 DEF skippedAt, rising
  <2>4. heap'[p] = heap[p]
    BY <1>5, <1>6, <2>1
  <2>5. QED
    BY <2>2, <2>3, <2>4 DEF NodeLed, LedIn
<1>9. present' = stored \cup {key} /\ ~rootSplit'
  BY <1>2, <1>5 DEF present, rootSplit
<1>10. \A n \in Live' : kin2[n] # {}
  <2>1. kin2[root] # {}
    BY <1>4
  <2>2. QED
    BY <1>4, <1>5, <2>1
<1>11. Under(kin2)'
  BY <1>2, <1>4, <1>5, <1>7, <1>8, <1>9, <1>10 DEF Under
<1>12. RightWay'
  BY <1>2 DEF RightWay, descending
<1>13. LastkeyKnown(kin2)'
  BY <1>2 DEF Known, LastkeyKnown
<1>14. SplitParted(kin2)'
  BY <1>5, NoneRising
<1>15. QED
  BY <1>4, <1>11, <1>12, <1>13, <1>14, FoundNext

-----------------------------------------------------------------------------
(* A node is split *)

\* The keys that were below the current node are below it and the node f now.
KeysDivided(kin, kin3, f) ==
  /\ \A n \in Nodes : n # cur /\ n # f => kin3[n] = kin[n]
  /\ kin[cur] = kin3[cur] \cup kin3[f]

\* The step leaves the other inner nodes as they are, and the new node is f.
SplitStep(f) ==
  /\ stack' = Front(stack) /\ newchild' = f /\ f # Null /\ ~fixmerge' /\ root' = root
  /\ \A p \in Inner : p # cur => heap'[p] = heap[p]

\* What the node that was split leaves to the one above.
NewAbove(kin3, f) ==
  /\ splitNode' = cur
  /\ stack' # <<>> => \A j \in DOMAIN heap'[cur'].slotkey, k \in kin3[f] :
                        heap'[cur'].slotkey[j] < k <=> j <= top'.slot

\* The node above knows that some of the keys are below the new node.
LEMMA SplitParent ==
  ASSUME ShapeInv, stack # <<>>, gone = Null, NEW kin, hasParent,
         NEW p, p = parent, LedIn(heap, p, kin[p], kin, 0, {}),
         NEW kin3, NEW f, f \notin DOMAIN heap, KeysDivided(kin, kin3, f), SplitStep(f)
  PROVE  NodeLed(p, kin3)' /\ NewAbove(kin3, f)
<1>1. TypeOK /\ LinkedOnce /\ StackLeadsDown /\ root # Null /\ \A n \in LiveInner : InnerFilled(n)
  BY DEF ShapeInv, Tree, CallUnderWay
<1>2. /\ parent \in LiveInner /\ parent \in DOMAIN heap /\ parent # cur
      /\ parentslot \in 0 .. Len(heap[parent].slotkey)
      /\ parentslot + 1 \in Slots(parent)
      /\ cur = heap[parent].childid[parentslot + 1]
      /\ Len(stack) > 1 /\ parent = above.node /\ parentslot = above.slot
  BY <1>1, CurrentNode
<1>3. parent \in Inner
  BY <1>2 DEF LiveInner
<1>5. PICK K, C, c : K = heap[p].slotkey /\ C = heap[p].childid /\ c = Len(K)
  OBVIOUS
<1>6. c \in Nat /\ Len(C) = c + 1 /\ Slots(p) = 1 .. c + 1 /\ K \in Seq(Keys)
      /\ \A i \in 1 .. c + 1 : C[i] \in DOMAIN heap
  BY <1>1, <1>2, <1>5, ChildNodes
<1>7. PICK s : s = parentslot + 1
  OBVIOUS
<1>8. s \in 1 .. c + 1 /\ C[s] = cur
  BY <1>2, <1>5, <1>6, <1>7
<1>9. \A i \in 1 .. c + 1 : i # s => C[i] # cur
  <2>1. p \in LiveInner
    BY <1>2
  <2>2. \A i, j \in Slots(p) : heap[p].childid[i] = heap[p].childid[j] => i = j
    BY <1>1, <2>1 DEF LinkedOnce
  <2>3. \A i, j \in 1 .. c + 1 : C[i] = C[j] => i = j
    BY <1>5, <1>6, <2>2
  <2>4. QED
    BY <1>8, <2>3
<1>10. \A i \in 1 .. c + 1 : C[i] \in Nodes /\ C[i] # f
  BY <1>1, <1>6 DEF TypeOK
<1>11. \A i \in 1 .. c + 1 : i # s => kin3[C[i]] = kin[C[i]]
  BY <1>9, <1>10 DEF KeysDivided
<1>12. PICK S, D : S = kin[p] /\ D = kin3[f]
  OBVIOUS
<1>13. kin[C[s]] = kin3[C[s]] \cup D
  BY <1>8, <1>12 DEF KeysDivided
<1>14. LedNode(S, K, c, C, kin, 0, {})
  BY <1>5, <1>12 DEF LedIn
<1>15. LedNode(S, K, c, C, kin3, 0, D) /\ \A j \in 1 .. c : \A k \in D : K[j] < k <=> j < s
  <2>1. c \in Nat /\ s \in 1 .. c + 1
    BY <1>6, <1>8
  <2>2. LedNode(S, K, c, C, kin3, 0, D)
    <3>1. Halved(c, C, kin, kin3, D, s)
      BY <1>11, <1>13, <2>1 DEF Halved
    <3>2. QED
      BY <1>14, <3>1, ChildSplit
  <2>3. \A j \in 1 .. c : \A k \in D : K[j] < k <=> j < s
    <3>1. \A k \in D : k \in kin[C[s]]
      BY <1>13
    <3>2. \A j \in 1 .. c : \A k \in kin[C[s]] : K[j] < k <=> j < s
      BY <1>14, <2>1 DEF LedNode, PartsBut
    <3>3. QED
      BY <3>1, <3>2
  <2>4. QED
    BY <2>2, <2>3
<1>16. stack' # <<>> /\ cur' = parent /\ top' = above
  <2>1. Front(stack) # <<>>
    BY <1>1, <1>2, StackEnds
  <2>2. stack' # <<>> /\ stack' = Front(stack)
    BY <2>1 DEF SplitStep
  <2>3. QED
    BY <2>2, UpToParent
<1>17. skippedAt(p)' = 0 /\ rising(p, kin3)' = D
  BY <1>12, <1>16 DEF skippedAt, rising, SplitStep
<1>18. kin3[p] = S /\ heap'[p] = heap[p]
  <2>1. p \in Nodes /\ p # f /\ p # cur
    BY <1>1, <1>2 DEF TypeOK
  <2>2. QED
    BY <1>3, <1>12, <2>1 DEF KeysDivided, SplitStep
<1>19. NodeLed(p, kin3)'
  BY <1>5, <1>15, <1>17, <1>18 DEF NodeLed, LedIn
<1>20. NewAbove(kin3, f)
  <2>1. top'.slot = parentslot
    BY <1>2, <1>16
  <2>2. splitNode' = cur
    <3>1. splitNode' = heap'[cur'].childid[top'.slot + 1]
      BY <1>16 DEF splitNode, child
    <3>2. QED
      BY <1>5, <1>7, <1>8, <1>16, <1>18, <2>1, <3>1
  <2>3. DOMAIN K = 1 .. c
    BY <1>5, <1>6
  <2>4. parentslot \in Int
    BY <1>2
  <2>5. ASSUME NEW j \in 1 .. c, NEW k \in D PROVE K[j] < k <=> j <= top'.slot
    <3>1. K[j] < k <=> j < s
      BY <1>15
    <3>2. QED
      BY <1>7, <2>1, <2>4, <3>1
  <2>6. heap'[cur'].slotkey = K
    BY <1>5, <1>16, <1>18
  <2>7. QED
    BY <1>12, <2>2, <2>3, <2>5, <2>6 DEF NewAbove
<1>21. QED
  BY <1>19, <1>20

\* The other nodes lead to the keys they led to.
LEMMA SplitOthers ==
  ASSUME ShapeInv, stack # <<>>, gone = Null, NEW kin, NEW p \in Inner, p # cur,
         hasParent => p # parent, LedIn(heap, p, kin[p], kin, 0, {}),
         NEW kin3, NEW f, f \notin DOMAIN heap, KeysDivided(kin, kin3, f), SplitStep(f)
  PROVE  NodeLed(p, kin3)'
<1>1. TypeOK /\ LinkedOnce /\ StackLeadsDown /\ root # Null /\ \A n \in LiveInner : InnerFilled(n)
  BY DEF ShapeInv, Tree, CallUnderWay
<1>2. p \in LiveInner /\ p \in DOMAIN heap /\ p \in Nodes
  BY <1>1, NodeKinds DEF LiveInner
<1>3. PICK K, C, c : K = heap[p].slotkey /\ C = heap[p].childid /\ c = Len(K)
  OBVIOUS
<1>4. c \in Nat /\ Len(C) = c + 1 /\ Slots(p) = 1 .. c + 1
      /\ \A i \in 1 .. c + 1 : C[i] \in DOMAIN heap /\ C[i] # root
  BY <1>1, <1>2, <1>3, ChildNodes
<1>5. \A i \in 1 .. c + 1 : C[i] # cur
  <2>1. CASE hasParent
    <3>1. /\ parent \in LiveInner /\ parentslot + 1 \in Slots(parent)
          /\ cur = heap[parent].childid[parentslot + 1]
      BY <1>1, <2>1, CurrentNode
    <3>2. QED
      BY <1>1, <1>2, <1>3, <1>4, <2>1, <3>1 DEF LinkedOnce
  <2>2. CASE ~hasParent
    <3>1. cur = root
      BY <1>1, <2>2, CurrentNode
    <3>2. QED
      BY <1>4, <3>1
  <2>3. QED
    BY <2>1, <2>2
<1>6. \A i \in 1 .. c + 1 : C[i] \in Nodes /\ C[i] # f
  BY <1>1, <1>4 DEF TypeOK
<1>7. \A i \in 1 .. c + 1 : kin3[C[i]] = kin[C[i]]
  BY <1>5, <1>6 DEF KeysDivided
<1>8. PICK S : S = kin[p]
  OBVIOUS
<1>9. LedNode(S, K, c, C, kin, 0, {})
  BY <1>3, <1>8 DEF LedIn
<1>10. LedNode(S, K, c, C, kin3, 0, {})
  BY <1>4, <1>7, <1>9, NodeSame, ZenonT(60)
<1>11. skippedAt(p)' = 0 /\ rising(p, kin3)' = {}
  <2>1. stack' # <<>> => p # cur'
    BY UpToParent DEF SplitStep
  <2>2. QED
    BY <2>1 DEF skippedAt, rising, SplitStep
<1>12. kin3[p] = S /\ heap'[p] = heap[p]
  <2>1. p # f
    BY <1>2
  <2>2. QED
    BY <1>2, <1>8, <2>1 DEF KeysDivided, SplitStep
<1>13. QED
  BY <1>3, <1>10, <1>11, <1>12 DEF NodeLed, LedIn

\* All nodes but the one that is split.
LEMMA SplitAbove ==
  ASSUME ShapeInv, stack # <<>>, gone = Null, NEW kin,
         \A p \in Inner : p # cur => LedIn(heap, p, kin[p], kin, 0, {}),
         NEW kin3, NEW f, f \notin DOMAIN heap, KeysDivided(kin, kin3, f), SplitStep(f)
  PROVE  /\ \A p \in Inner : p # cur => NodeLed(p, kin3)'
         /\ NewAbove(kin3, f)
         /\ stack' = <<>> => cur = root
<1>1. TypeOK /\ LinkedOnce /\ StackLeadsDown /\ root # Null /\ \A n \in LiveInner : InnerFilled(n)
  BY DEF ShapeInv, Tree, CallUnderWay
<1>2. hasParent => parent \in Inner /\ parent # cur
  BY <1>1, CurrentNode DEF LiveInner
<1>3. ASSUME NEW p, p = parent, hasParent PROVE NodeLed(p, kin3)' /\ NewAbove(kin3, f)
  <2>1. LedIn(heap, p, kin[p], kin, 0, {})
    BY <1>2, <1>3
  <2>2. QED
    BY <1>3, <2>1, SplitParent
<1>4. ASSUME NEW p \in Inner, p # cur PROVE NodeLed(p, kin3)'
  <2>1. CASE hasParent /\ p = parent
    BY <1>3, <2>1
  <2>2. CASE ~(hasParent /\ p = parent)
    BY <1>4, <2>2, SplitOthers
  <2>3. QED
    BY <2>1, <2>2
<1>5. ~hasParent => stack' = <<>> /\ cur = root
  <2>1. ~hasParent => Len(stack) = 1 /\ cur = root
    BY <1>1, CurrentNode
  <2>2. Len(stack) = 1 => stack' = <<>>
    BY <1>1, StackEnds DEF SplitStep
  <2>3. QED
    BY <2>1, <2>2
<1>6. ~hasParent => NewAbove(kin3, f)
  BY <1>5 DEF NewAbove, splitNode, SplitStep
<1>7. stack' = <<>> => cur = root
  <2>1. stack' = <<>> => Len(stack) = 1
    BY <1>1, StackEnds DEF SplitStep
  <2>2. Len(stack) = 1 => ~hasParent
    BY <1>1, CurrentNode
  <2>3. QED
    BY <1>5, <2>1, <2>2
<1>8. QED
  <2>1. hasParent => NewAbove(kin3, f)
    BY <1>3
  <2>2. QED
    BY <1>4, <1>6, <1>7, <2>1

\* A node was split: what is left to be shown of the next state.
LEMMA SplitFound ==
  ASSUME KeptInv', ShapeInv, stack # <<>>, gone = Null, NEW kin,
         \A p \in Inner : p # cur => LedIn(heap, p, kin[p], kin, 0, {}),
         NEW kin3, NEW f, f \notin DOMAIN heap, KeysDivided(kin, kin3, f), SplitStep(f),
         KinType(kin3), pc' = "link", lastkey' = Null, gone' = Null,
         kin[root] = stored' \cup {key'},
         LiveInner' \subseteq Inner \cup {f},
         \A p \in LiveInner' : p = cur \/ p = f => NodeLed(p, kin3)',
         \A n \in LiveLeaves' : kin3[n] = heap'[n].items,
         \A n \in Live' : kin3[n] # {},
         \A k \in kin3[cur] : k <= newkey', \A k \in kin3[f] : newkey' < k
  PROVE  FoundInv'
<1>1. /\ \A p \in Inner : p # cur => NodeLed(p, kin3)'
      /\ NewAbove(kin3, f)
      /\ stack' = <<>> => cur = root
  BY SplitAbove
<1>2. \A p \in LiveInner' : NodeLed(p, kin3)'
  BY <1>1
<1>3. root # Null /\ root \in Nodes /\ root \in DOMAIN heap
  BY DEF ShapeInv, CallUnderWay, TypeOK
<1>4. present' = stored' \cup {key'} /\ newchild' = f /\ f # Null /\ root' = root /\ ~fixmerge'
      /\ newchild' # Null
  BY DEF present, SplitStep
<1>5. present' = kin3[root'] \cup (IF rootSplit' THEN kin3[newchild'] ELSE {})
  <2>1. CASE stack' = <<>>
    <3>1. rootSplit' /\ cur = root
      BY <1>1, <1>4, <2>1 DEF rootSplit
    <3>2. QED
      BY <1>4, <3>1 DEF KeysDivided
  <2>2. CASE stack' # <<>>
    <3>1. ~rootSplit'
      BY <2>2 DEF rootSplit
    <3>2. cur # root
      <4>1. TypeOK /\ LinkedOnce /\ StackLeadsDown /\ root # Null /\ \A n \in LiveInner : InnerFilled(n)
        BY DEF ShapeInv, Tree, CallUnderWay
      <4>2. hasParent
        BY <2>2, UpToParent DEF SplitStep
      <4>3. QED
        BY <4>1, <4>2, CurrentNode
    <3>3. kin3[root] = kin[root]
      BY <1>3, <3>2 DEF KeysDivided
    <3>4. QED
      BY <1>4, <3>1, <3>3
  <2>3. QED
    BY <2>1, <2>2
<1>6. Under(kin3)'
  BY <1>2, <1>4, <1>5 DEF Under
<1>7. SplitParted(kin3)'
  BY <1>1, <1>4 DEF SplitParted, NewAbove
<1>8. RightWay'
  BY DEF RightWay, descending
<1>9. LastkeyKnown(kin3)'
  BY DEF LastkeyKnown
<1>10. QED
  BY <1>6, <1>7, <1>8, <1>9, FoundNext

\* A full leaf is split, and the key enters one of the halves.
LEMMA StoreSplitFound ==
  ASSUME KeptInv, NEW kin, Known(kin), StoreSplit, KeptInv'
  PROVE  FoundInv'
<1>1. ShapeInv /\ ShapeInv' /\ TypeOK
  BY DEF KeptInv, ShapeInv
<1>2. /\ pc = "insert" /\ isleafnode(cur) /\ pc' = "link" /\ stack' = Front(stack) /\ root' = root
      /\ key' = key /\ lastkey' = lastkey /\ stored' = stored /\ descending
  BY DEF StoreSplit, result, descending
<1>3. lastkey' = Null
  BY <1>2 DEF Known, LastkeyKnown
<1>4. PICK kin2 : kin2 = gained(kin)
  OBVIOUS
<1>5. /\ KinType(kin2)
      /\ kin2[root] = stored \cup {key}
      /\ kin2[cur] = heap[cur].items \cup {key}
      /\ \A n \in Leaves : n # cur => kin2[n] = heap[n].items
      /\ \A n \in DOMAIN heap : kin2[n] # {} \/ n = root
  BY <1>1, <1>2, <1>4, KeysGained
<1>6. \A p \in Inner : p # cur => LedIn(heap, p, kin2[p], kin2, 0, {})
  BY <1>1, <1>2, <1>4, PathGains
<1>7. PICK mid : LeafSplitItems(mid)
  BY <1>1, SplitLeafItems
<1>8. PICK f : f = fresh
  OBVIOUS
<1>9. /\ f \in Nodes /\ f \notin DOMAIN heap /\ f # Null /\ newchild' = f
      /\ Leaves' = Leaves \cup {f} /\ gone' = Null
      /\ LiveInner' = Inner /\ LiveLeaves' = Leaves \cup {f}
      /\ Live' = DOMAIN heap \cup {f} /\ ~fixmerge'
      /\ \A n \in Leaves : n # cur => heap'[n].items = heap[n].items
      /\ \A n \in Inner : heap'[n] = heap[n]
  BY <1>1, <1>8, SplitLeafItems, SplitLeafKinds
<1>10. /\ stack # <<>> /\ root # Null /\ gone = Null /\ cur \in Leaves /\ cur \in DOMAIN heap
       /\ cur \in Nodes /\ key \in Keys /\ heap[cur].items \subseteq Keys
       /\ \A n \in Inner : n # cur
  BY <1>1, <1>2, AtLeaf
<1>11. DOMAIN heap \subseteq Nodes /\ Leaves \subseteq DOMAIN heap /\ Inner \subseteq DOMAIN heap
  BY <1>1 DEF TypeOK, Leaves, Inner
<1>12. PICK A, B : A = heap'[cur].items /\ B = heap'[f].items
  OBVIOUS
<1>13. /\ mid \in Nat /\ newkey' = mid /\ A # {} /\ B # {} /\ A \cup B = heap[cur].items \cup {key}
       /\ \A k \in A : k <= mid
       /\ \A k \in B : mid < k
  <2>1. PICK S : S = heap[cur].items
    OBVIOUS
  <2>2. PICK low, high : low = {k \in S : k <= mid} /\ high = {k \in S : mid < k}
    OBVIOUS
  <2>3. /\ mid \in S /\ low # {} /\ high # {} /\ newkey' = mid
        /\ A = low \cup (IF key <= mid THEN {key} ELSE {})
        /\ B = high \cup (IF mid < key THEN {key} ELSE {})
    BY <1>7, <1>8, <1>12, <2>1, <2>2 DEF LeafSplitItems
  <2>4. S \subseteq Nat /\ key \in Nat /\ mid \in Nat
    BY <1>10, <2>1, <2>3, KeyTypes
  <2>5. A \cup B = S \cup {key}
    <3>1. low \cup high = S
      <4>1. \A k \in S : k <= mid \/ mid < k
        BY <2>4
      <4>2. QED
        BY <2>2, <4>1
    <3>2. key <= mid <=> ~(mid < key)
      BY <2>4
    <3>3. QED
      BY <2>3, <3>1, <3>2
  <2>6. \A k \in A : k <= mid
    BY <2>2, <2>3
  <2>7. \A k \in B : mid < k
    BY <2>2, <2>3
  <2>8. A # {} /\ B # {}
    BY <2>3
  <2>9. QED
    BY <2>1, <2>3, <2>4, <2>5, <2>6, <2>7, <2>8
<1>14. PICK kin3 : kin3 = [n \in Nodes |-> IF n = cur THEN A ELSE IF n = f THEN B ELSE kin2[n]]
  OBVIOUS
<1>15. cur # f /\ kin3[cur] = A /\ kin3[f] = B /\ \A n \in Nodes : n # cur /\ n # f => kin3[n] = kin2[n]
  BY <1>9, <1>10, <1>14
<1>16. KinType(kin3)
  <2>1. A \subseteq Keys /\ B \subseteq Keys
    BY <1>10, <1>13
  <2>2. \A n \in Nodes : kin2[n] \subseteq Keys
    BY <1>5 DEF KinType
  <2>3. QED
    BY <1>14, <2>1, <2>2 DEF KinType
<1>17. KeysDivided(kin2, kin3, f)
  BY <1>5, <1>13, <1>15 DEF KeysDivided
<1>18. SplitStep(f)
  BY <1>2, <1>9 DEF SplitStep
<1>19. kin2[root] = stored' \cup {key'}
  BY <1>2, <1>5
<1>20. \A p \in LiveInner' : p = cur \/ p = f => NodeLed(p, kin3)'
  BY <1>9, <1>10, <1>11
<1>21. \A n \in LiveLeaves' : kin3[n] = heap'[n].items
  <2>1. ASSUME NEW n \in Leaves PROVE kin3[n] = heap'[n].items
    <3>1. n \in Nodes /\ n # f
      BY <1>9, <1>11
    <3>2. CASE n = cur
      BY <1>12, <1>15, <3>2
    <3>3. CASE n # cur
      BY <1>5, <1>9, <1>15, <3>1, <3>3
    <3>4. QED
      BY <3>2, <3>3
  <2>2. kin3[f] = heap'[f].items
    BY <1>12, <1>15
  <2>3. QED
    BY <1>9, <2>1, <2>2
<1>22. \A n \in Live' : kin3[n] # {}
  <2>1. ASSUME NEW n \in DOMAIN heap PROVE kin3[n] # {}
    <3>1. n \in Nodes /\ n # f
      BY <1>9, <1>11
    <3>2. CASE n = cur
      BY <1>13, <1>15, <3>2
    <3>3. CASE n # cur
      BY <1>5, <1>15, <3>1, <3>3
    <3>4. QED
      BY <3>2, <3>3
  <2>2. kin3[f] # {}
    BY <1>13, <1>15
  <2>3. QED
    BY <1>9, <2>1, <2>2
<1>23. (\A k \in kin3[cur] : k <= newkey') /\ \A k \in kin3[f] : newkey' < k
  BY <1>13, <1>15
<1>24. LiveInner' \subseteq Inner \cup {f}
  BY <1>9
<1>25. QED
  BY <1>1, <1>2, <1>3, <1>6, <1>9, <1>10, <1>16, <1>17, <1>18, <1>19, <1>20, <1>21, <1>22, <1>23,
     <1>24, SplitFound

\* What is known of the current node when a new child is on its way up.
LEMMA ChildOnWay ==
  ASSUME ShapeInv, NEW kin, Known(kin), newchild # Null, stack # <<>>
  PROVE  /\ pc = "link" /\ gone = Null /\ LiveInner = Inner /\ LiveLeaves = Leaves
         /\ Live = DOMAIN heap /\ cur \in LiveInner /\ ~rootSplit /\ lastkey = Null
         /\ newkey \in Nat /\ newchild \in Nodes /\ newchild \in DOMAIN heap
         /\ kin[newchild] # {} /\ kin[newchild] \subseteq Nat
         /\ LedIn(heap, cur, kin[cur], kin, 0, kin[newchild])
         /\ \A p \in Inner : p # cur => LedIn(heap, p, kin[p], kin, 0, {})
         /\ \A n \in DOMAIN heap : kin[n] # {}
         /\ \A n \in Leaves : kin[n] = heap[n].items
<1>1. /\ pc = "link" /\ gone = Null /\ ~fixmerge
      /\ LiveInner = Inner /\ LiveLeaves = Leaves /\ Live = DOMAIN heap
      /\ newkey \in Keys /\ newchild \in DOMAIN heap /\ newchild \in Nodes
  BY RisingNode
<1>2. cur \in LiveInner
  BY <1>1, AtInner
<1>3. ~rootSplit
  BY DEF rootSplit
<1>4. Under(kin) /\ KinType(kin) /\ LastkeyKnown(kin)
  BY DEF Known
<1>5. lastkey = Null
  BY <1>1, <1>4 DEF LastkeyKnown
<1>6. newkey \in Nat /\ kin[newchild] \subseteq Nat
  <2>1. kin[newchild] \subseteq Keys
    BY <1>1, <1>4 DEF KinType
  <2>2. QED
    BY <1>1, <2>1, KeyTypes
<1>7. \A n \in DOMAIN heap : kin[n] # {}
  BY <1>1, <1>4 DEF Under
<1>8. \A p \in Inner : p # cur => LedIn(heap, p, kin[p], kin, 0, {})
  <2>1. ASSUME NEW p \in Inner, p # cur PROVE LedIn(heap, p, kin[p], kin, 0, {})
    <3>1. NodeLed(p, kin)
      BY <1>1, <1>4 DEF Under
    <3>2. skippedAt(p) = 0 /\ rising(p, kin) = {}
      BY <1>1, <2>1 DEF skippedAt, rising
    <3>3. QED
      BY <3>1, <3>2 DEF NodeLed
  <2>2. QED
    BY <2>1
<1>9. LedIn(heap, cur, kin[cur], kin, 0, kin[newchild])
  <2>1. NodeLed(cur, kin)
    BY <1>2, <1>4 DEF Under
  <2>2. skippedAt(cur) = 0 /\ rising(cur, kin) = kin[newchild]
    BY <1>1 DEF skippedAt, rising
  <2>3. QED
    BY <2>1, <2>2 DEF NodeLed
<1>10. \A n \in Leaves : kin[n] = heap[n].items
  BY <1>1, <1>4 DEF Under
<1>11. QED
  BY <1>1, <1>2, <1>3, <1>5, <1>6, <1>7, <1>8, <1>9, <1>10

\* A child n enters behind child s, between the keys at most sep and the ones above.
Enters(K, c, C, kin, D, n, s, sep) ==
  /\ c \in Nat /\ s \in 1 .. c + 1 /\ sep \in Nat /\ D = kin[n]
  /\ NatUpTo(K, c) /\ NatBelow(C, c + 1, kin) /\ SomeBelow(C, c + 1, kin)
  /\ D # {} /\ \A k \in D : k \in Nat
  /\ \A k \in kin[C[s]] : k <= sep
  /\ \A k \in D : sep < k
  /\ \A j \in 1 .. c : \A k \in D : K[j] < k <=> j < s

\* The node with that child.
LEMMA ChildEntered ==
  ASSUME NEW S, NEW K, NEW c, NEW C, NEW kin, NEW D, NEW n, NEW s, NEW sep, NEW K2, NEW C2,
         LedNode(S, K, c, C, kin, 0, D), Enters(K, c, C, kin, D, n, s, sep),
         PutIn(K2, K, c, s, sep), PutIn(C2, C, c + 1, s + 1, n)
  PROVE  LedNode(S, K2, c + 1, C2, kin, 0, {})
<1>1. /\ c \in Nat /\ s \in 1 .. c + 1 /\ sep \in Nat /\ D = kin[n]
      /\ NatUpTo(K, c) /\ NatBelow(C, c + 1, kin) /\ SomeBelow(C, c + 1, kin)
      /\ D # {} /\ \A k \in D : k \in Nat
  BY DEF Enters
<1>2. \A k \in kin[C[s]] : k <= sep
  BY DEF Enters
<1>3. \A k \in D : sep < k
  BY DEF Enters
<1>4. \A j \in 1 .. c : \A k \in D : K[j] < k <=> j < s
  BY DEF Enters
<1>5. QED
  BY <1>1, <1>2, <1>3, <1>4, ChildEnters

\* The current node with the new child.
LEMMA ChildAdded ==
  ASSUME ShapeInv, NEW kin, Known(kin), newchild # Null, stack # <<>>,
         NEW c, c = Len(heap[cur].slotkey), NEW K2, NEW C2,
         PutIn(K2, heap[cur].slotkey, c, top.slot + 1, newkey),
         PutIn(C2, heap[cur].childid, c + 1, top.slot + 2, newchild)
  PROVE  LedNode(kin[cur], K2, c + 1, C2, kin, 0, {})
<1>1. /\ pc = "link" /\ gone = Null /\ cur \in LiveInner
      /\ newkey \in Nat /\ newchild \in Nodes
      /\ kin[newchild] # {} /\ kin[newchild] \subseteq Nat
      /\ LedIn(heap, cur, kin[cur], kin, 0, kin[newchild])
  BY ChildOnWay
<1>2. PICK K, e, C : KnownNode(cur, kin, K, e, C)
  BY <1>1, SomeNode DEF Known
<1>3. /\ K = heap[cur].slotkey /\ C = heap[cur].childid /\ c = e /\ c \in Nat
      /\ C \in Seq(Nodes) /\ Len(C) = c + 1 /\ DOMAIN K = 1 .. c
      /\ NatUpTo(K, c) /\ NatBelow(C, c + 1, kin)
  BY <1>2 DEF KnownNode
<1>4. SomeBelow(C, c + 1, kin)
  <2>1. \A i \in 1 .. c + 1 : C[i] \in Nodes
    BY <1>3
  <2>2. gone \notin Elements(C)
    BY <1>1, <1>3, <2>1, CompactAssumption DEF Elements
  <2>3. QED
    BY <1>2, <1>3, <2>2 DEF KnownNode
<1>5. top.slot \in 0 .. c
  BY <1>1, AtInner
<1>6. PICK s : s = top.slot + 1
  OBVIOUS
<1>7. s \in 1 .. c + 1 /\ s + 1 = top.slot + 2
  BY <1>3, <1>5, <1>6
<1>8. splitNode = C[s]
  BY <1>3, <1>6 DEF splitNode, child
<1>9. SplitParted(kin)
  BY DEF Known
<1>10. PICK D : D = kin[newchild]
  OBVIOUS
<1>11. \A k \in kin[C[s]] : k <= newkey
  BY <1>8, <1>9 DEF SplitParted
<1>12. \A k \in D : newkey < k
  BY <1>9, <1>10 DEF SplitParted
<1>13. \A j \in 1 .. c : \A k \in D : K[j] < k <=> j < s
  <2>1. \A j \in 1 .. c : \A k \in D : K[j] < k <=> j <= top.slot
    BY <1>3, <1>9, <1>10 DEF SplitParted
  <2>2. \A j \in 1 .. c : j <= top.slot <=> j < s
    BY <1>3, <1>5, <1>6
  <2>3. QED
    BY <2>1, <2>2
<1>14. Enters(K, c, C, kin, D, newchild, s, newkey)
  BY <1>1, <1>3, <1>4, <1>7, <1>10, <1>11, <1>12, <1>13 DEF Enters
<1>15. LedNode(kin[cur], K, c, C, kin, 0, D)
  BY <1>1, <1>3, <1>10 DEF LedIn
<1>16. PutIn(K2, K, c, s, newkey) /\ PutIn(C2, C, c + 1, s + 1, newchild)
  BY <1>3, <1>6, <1>7
<1>17. QED
  BY <1>14, <1>15, <1>16, ChildEntered

\* The node has room for the new child.
LEMMA LinkChildFound ==
  ASSUME KeptInv, NEW kin, Known(kin), LinkChild, KeptInv'
  PROVE  FoundInv'
<1>1. ShapeInv /\ ShapeInv'
  BY DEF KeptInv
<1>2. /\ stack # <<>> /\ newchild # Null /\ root' = root /\ pc' = pc /\ key' = key
      /\ lastkey' = lastkey /\ stored' = stored /\ newchild' = Null
  BY DEF LinkChild, result
<1>3. /\ pc = "link" /\ gone = Null /\ LiveInner = Inner /\ LiveLeaves = Leaves
      /\ Live = DOMAIN heap /\ cur \in LiveInner /\ ~rootSplit /\ lastkey = Null
  BY <1>1, <1>2, ChildOnWay
<1>4. /\ \A p \in Inner : p # cur => LedIn(heap, p, kin[p], kin, 0, {})
      /\ \A n \in DOMAIN heap : kin[n] # {}
      /\ \A n \in Leaves : kin[n] = heap[n].items
  BY <1>1, <1>2, ChildOnWay
<1>5. PICK K2 \in Seq(Keys), C2 \in Seq(Nodes) :
           /\ heap'[cur].slotkey = K2 /\ heap'[cur].childid = C2
           /\ Inserted(K2, heap[cur].slotkey, top.slot + 1, newkey)
           /\ Inserted(C2, heap[cur].childid, top.slot + 2, newchild)
           /\ \A n \in DOMAIN heap : n # cur => heap'[n] = heap[n]
           /\ gone' = Null /\ Live' = DOMAIN heap
           /\ LiveInner' = Inner /\ LiveLeaves' = Leaves /\ ~fixmerge'
  BY <1>1, LinkChildHeap
<1>6. PICK c : c = Len(heap[cur].slotkey)
  OBVIOUS
<1>7. c \in Nat /\ Len(heap[cur].childid) = c + 1 /\ top.slot \in 0 .. c /\ cur \notin Leaves
  BY <1>1, <1>2, <1>3, <1>6, AtInner
<1>8. PutIn(K2, heap[cur].slotkey, c, top.slot + 1, newkey) /\ Len(K2) = c + 1
  <2>1. PICK t, K : t = top.slot + 1 /\ K = heap[cur].slotkey
    OBVIOUS
  <2>2. c \in Nat /\ t \in 1 .. c + 1 /\ c = Len(K)
    BY <1>6, <1>7, <2>1
  <2>3. Inserted(K2, K, t, newkey)
    BY <1>5, <2>1
  <2>4. PutIn(K2, K, c, t, newkey) /\ Len(K2) = c + 1
    BY <2>2, <2>3, InsertedPut
  <2>5. QED
    BY <2>1, <2>4
<1>9. PutIn(C2, heap[cur].childid, c + 1, top.slot + 2, newchild)
  <2>1. PICK b, t, C : b = c + 1 /\ t = top.slot + 2 /\ C = heap[cur].childid
    OBVIOUS
  <2>2. b \in Nat /\ t \in 1 .. b + 1 /\ b = Len(C)
    BY <1>7, <2>1
  <2>3. Inserted(C2, C, t, newchild)
    BY <1>5, <2>1
  <2>4. PutIn(C2, C, b, t, newchild)
    BY <2>2, <2>3, InsertedPut
  <2>5. QED
    BY <2>1, <2>4
<1>10. LedNode(kin[cur], K2, c + 1, C2, kin, 0, {})
  BY <1>1, <1>2, <1>6, <1>8, <1>9, ChildAdded
<1>11. ASSUME NEW p \in LiveInner' PROVE NodeLed(p, kin)'
  <2>1. p \in Inner /\ p \in DOMAIN heap
    BY <1>5 DEF Inner
  <2>2. skippedAt(p)' = 0 /\ rising(p, kin)' = {}
    BY <1>2, <1>5 DEF skippedAt, rising
  <2>3. CASE p = cur
    <3>1. LedIn(heap', p, kin[p], kin, 0, {})
      BY <1>5, <1>8, <1>10, <2>3 DEF LedIn
    <3>2. QED
      BY <2>2, <3>1 DEF NodeLed, LedIn
  <2>4. CASE p # cur
    <3>1. LedIn(heap, p, kin[p], kin, 0, {}) /\ heap'[p] = heap[p]
      BY <1>4, <1>5, <2>1, <2>4
    <3>2. QED
      BY <2>2, <3>1 DEF NodeLed, LedIn
  <2>5. QED
    BY <2>3, <2>4
<1>12. present' = present /\ ~rootSplit'
  BY <1>2 DEF present, rootSplit
<1>13. root # Null => present = kin[root]
  BY <1>3 DEF Known, Under
<1>14. \A n \in LiveLeaves' : kin[n] = heap'[n].items
  BY <1>4, <1>5, <1>7 DEF Leaves
<1>15. Under(kin)'
  BY <1>2, <1>4, <1>5, <1>11, <1>12, <1>13, <1>14 DEF Under
<1>16. RightWay'
  BY <1>2, <1>3 DEF RightWay, descending
<1>17. LastkeyKnown(kin)'
  BY <1>2, <1>3 DEF LastkeyKnown
<1>18. SplitParted(kin)'
  BY <1>2, NoneRising
<1>19. KinType(kin)
  BY DEF Known
<1>20. QED
  BY <1>15, <1>16, <1>17, <1>18, <1>19, FoundNext

\* A node is not empty if one of its children is not.
LEMMA CoversSome ==
  ASSUME NEW S, NEW K, NEW m \in Nat, NEW C, NEW kin, LedNode(S, K, m, C, kin, 0, {}),
         kin[C[1]] # {}
  PROVE  S # {}
<1>1. 1 \in 1 .. m + 1
  OBVIOUS
<1>2. QED
  BY <1>1 DEF LedNode, Covers

\* Both halves of a full node with the new child.
Halves(kin, kin3, f, LK, LC, RK, RC, m, n) ==
  /\ LedNode(kin3[cur], LK, m, LC, kin3, 0, {}) /\ LedNode(kin3[f], RK, n, RC, kin3, 0, {})
  /\ KeysDivided(kin, kin3, f) /\ KinType(kin3)
  /\ kin3[cur] # {} /\ kin3[f] # {}
  /\ \A k \in kin3[cur] : k <= newkey'
  /\ \A k \in kin3[f] : newkey' < k

\* The keys below the halves.
LEMMA InnerHalves ==
  ASSUME ShapeInv, NEW kin, Known(kin), SplitInner, NEW f, f = fresh,
         NEW K2, NEW C2, NEW LK, NEW LC, NEW RK, NEW RC, NEW m, NEW n,
         InnerSplit(K2, C2, LK, LC, RK, RC, m, n)
  PROVE  \E kin3 : Halves(kin, kin3, f, LK, LC, RK, RC, m, n)
<1>1. stack # <<>> /\ newchild # Null /\ isfull(cur)
  BY DEF SplitInner
<1>2. /\ pc = "link" /\ gone = Null /\ LiveInner = Inner
      /\ Live = DOMAIN heap /\ cur \in LiveInner
      /\ newchild \in Nodes /\ newchild \in DOMAIN heap
      /\ \A x \in DOMAIN heap : kin[x] # {}
  BY <1>1, ChildOnWay
<1>3. /\ f \in Nodes /\ f \notin DOMAIN heap
  BY SplitInnerHeap
<1>4. /\ heap[cur].slotkey \in Seq(Keys) /\ heap[cur].childid \in Seq(Nodes)
      /\ Len(heap[cur].slotkey) = innerslotmax /\ cur \in DOMAIN heap /\ cur \in Nodes
      /\ TypeOK /\ LinkedOnce /\ InnerFilled(cur) /\ heap[cur].level \in Nat
  BY <1>1, <1>2, AtInner DEF isfull
<1>5. PICK c : c = innerslotmax
  OBVIOUS
<1>6. PICK sep : sep = newkey'
  OBVIOUS
<1>7. /\ C2 \in Seq(Nodes) /\ SplitUp(heap[cur].slotkey, heap[cur].childid, top.slot, K2, C2, LK, LC, RK, RC, m, n, sep)
      /\ Inserted(C2, heap[cur].childid, top.slot + 2, newchild)
  BY <1>6 DEF InnerSplit
<1>8. /\ m \in Nat /\ n \in Nat /\ m + n = c /\ sep \in Nat
      /\ PutIn(K2, heap[cur].slotkey, c, top.slot + 1, newkey)
      /\ PutIn(C2, heap[cur].childid, c + 1, top.slot + 2, newchild)
      /\ GluedKeys(K2, LK, m, sep, RK, n) /\ GluedChildren(C2, LC, m + 1, RC, n + 1)
  BY <1>5, <1>7, KeyTypes DEF SplitUp
<1>9. LedNode(kin[cur], K2, c + 1, C2, kin, 0, {})
  <2>1. c = Len(heap[cur].slotkey)
    BY <1>4, <1>5
  <2>2. QED
    BY <1>1, <1>8, <2>1, ChildAdded
<1>10. PICK d : d = c + 1
  OBVIOUS
<1>11. d = m + 1 + n /\ d \in Nat
  BY <1>8, <1>10
<1>12. KinType(kin)
  BY DEF Known
<1>13. /\ Elements(LC) \cup Elements(RC) = Elements(heap[cur].childid) \cup {newchild}
       /\ Len(LC) = m + 1 /\ Len(RC) = n + 1
       /\ LC \in Seq(Nodes) /\ RC \in Seq(Nodes)
  BY SplitChildren
<1>14. \A i \in 1 .. m + 1 : LC[i] \in Elements(LC)
  BY <1>13 DEF Elements
<1>15. \A i \in 1 .. n + 1 : RC[i] \in Elements(RC)
  BY <1>13 DEF Elements
<1>16. \A x \in Elements(heap[cur].childid) \cup {newchild} :
         x \in DOMAIN heap /\ x # cur /\ x # f /\ x \in Nodes
  <2>1. ASSUME NEW x \in Elements(heap[cur].childid) PROVE x \in DOMAIN heap /\ x # cur
    <3>1. PICK i \in 1 .. Len(heap[cur].childid) : x = heap[cur].childid[i]
      BY <2>1 DEF Elements
    <3>2. i \in Slots(cur)
      BY <3>1 DEF Slots
    <3>3. /\ heap[cur].childid[i] \in DOMAIN heap
          /\ heap[heap[cur].childid[i]].level \in Nat
          /\ heap[heap[cur].childid[i]].level + 1 = heap[cur].level
      BY <1>2, <1>4, <3>2, ChildNodes
    <3>4. QED
      BY <1>4, <3>1, <3>3
  <2>2. newchild # cur
    <3>1. heap[newchild].level \in Nat /\ heap[newchild].level + 1 = heap[cur].level
      BY <1>1, RisingNode
    <3>2. QED
      BY <1>4, <3>1
  <2>3. DOMAIN heap \subseteq Nodes
    BY <1>4 DEF TypeOK
  <2>4. QED
    BY <1>2, <1>3, <2>1, <2>2, <2>3
<1>17. \A i \in 1 .. m + 1 : LC[i] \in DOMAIN heap /\ LC[i] # cur /\ LC[i] # f /\ LC[i] \in Nodes
  BY <1>13, <1>14, <1>16
<1>18. \A i \in 1 .. n + 1 : RC[i] \in DOMAIN heap /\ RC[i] # cur /\ RC[i] # f /\ RC[i] \in Nodes
  BY <1>13, <1>15, <1>16
<1>19. NatBelow(C2, d + 1, kin)
  <2>1. ASSUME NEW i \in 1 .. d + 1 PROVE C2[i] \in Nodes
    <3>1. CASE i \in 1 .. m + 1
      BY <1>8, <1>17, <3>1 DEF GluedChildren
    <3>2. CASE i \notin 1 .. m + 1
      <4>1. PICK j : j = i - (m + 1)
        OBVIOUS
      <4>2. j \in 1 .. n + 1 /\ m + 1 + j = i
        BY <1>8, <1>11, <3>2, <4>1
      <4>3. C2[i] = RC[j]
        BY <1>8, <4>2 DEF GluedChildren
      <4>4. QED
        BY <1>18, <4>2, <4>3
    <3>3. QED
      BY <3>1, <3>2
  <2>2. ASSUME NEW i \in 1 .. d + 1, NEW k \in kin[C2[i]] PROVE k \in Nat
    <3>1. kin[C2[i]] \subseteq Keys
      BY <1>12, <2>1 DEF KinType
    <3>2. QED
      BY <3>1, KeyTypes
  <2>3. QED
    BY <2>2 DEF NatBelow
<1>20. PICK S : S = kin[cur]
  OBVIOUS
<1>21. LedNode(S, K2, d, C2, kin, 0, {})
  BY <1>9, <1>10, <1>20
<1>22. \E A, B : /\ LedNode(A, LK, m, LC, kin, 0, {}) /\ LedNode(B, RK, n, RC, kin, 0, {})
                 /\ A \cup B = S
                 /\ \A k \in A : k <= sep
                 /\ \A k \in B : sep < k
  BY <1>8, <1>11, <1>19, <1>21, NodeCut
<1>23. PICK A, B : /\ LedNode(A, LK, m, LC, kin, 0, {}) /\ LedNode(B, RK, n, RC, kin, 0, {})
                   /\ A \cup B = S
                   /\ \A k \in A : k <= sep
                   /\ \A k \in B : sep < k
  BY <1>22
<1>24. PICK kin3 : kin3 = [x \in Nodes |-> IF x = cur THEN A ELSE IF x = f THEN B ELSE kin[x]]
  OBVIOUS
<1>25. cur # f /\ kin3[cur] = A /\ kin3[f] = B /\ \A x \in Nodes : x # cur /\ x # f => kin3[x] = kin[x]
  BY <1>3, <1>4, <1>24
<1>26. KinType(kin3)
  <2>1. \A x \in Nodes : kin[x] \subseteq Keys
    BY <1>12 DEF KinType
  <2>2. A \subseteq Keys /\ B \subseteq Keys
    BY <1>4, <1>20, <1>23, <2>1
  <2>3. QED
    BY <1>24, <2>1, <2>2 DEF KinType
<1>27. KeysDivided(kin, kin3, f)
  BY <1>20, <1>23, <1>25 DEF KeysDivided
<1>28. \A i \in 1 .. m + 1 : kin3[LC[i]] = kin[LC[i]]
  BY <1>17, <1>25
<1>29. \A i \in 1 .. n + 1 : kin3[RC[i]] = kin[RC[i]]
  BY <1>18, <1>25
<1>30. LedNode(A, LK, m, LC, kin3, 0, {})
  <2>1. m \in Nat /\ LedNode(A, LK, m, LC, kin, 0, {})
    BY <1>8, <1>23
  <2>2. QED
    BY <1>28, <2>1, NodeSame
<1>31. LedNode(B, RK, n, RC, kin3, 0, {})
  <2>1. n \in Nat /\ LedNode(B, RK, n, RC, kin, 0, {})
    BY <1>8, <1>23
  <2>2. QED
    BY <1>29, <2>1, NodeSame
<1>32. A # {}
  <2>1. m \in Nat /\ 1 \in 1 .. m + 1
    BY <1>8
  <2>2. kin[LC[1]] # {}
    BY <1>2, <1>17, <2>1
  <2>3. QED
    BY <1>23, <2>1, <2>2, CoversSome
<1>33. B # {}
  <2>1. n \in Nat /\ 1 \in 1 .. n + 1
    BY <1>8
  <2>2. kin[RC[1]] # {}
    BY <1>2, <1>18, <2>1
  <2>3. QED
    BY <1>23, <2>1, <2>2, CoversSome
<1>34. (\A k \in A : k <= newkey') /\ \A k \in B : newkey' < k
  BY <1>6, <1>23
<1>35. Halves(kin, kin3, f, LK, LC, RK, RC, m, n)
  BY <1>25, <1>26, <1>27, <1>30, <1>31, <1>32, <1>33, <1>34 DEF Halves
<1>36. QED
  BY <1>35

\* A full node is split when a new child enters it.
LEMMA SplitInnerFound ==
  ASSUME KeptInv, NEW kin, Known(kin), SplitInner, KeptInv'
  PROVE  FoundInv'
<1>1. ShapeInv /\ ShapeInv' /\ TypeOK
  BY DEF KeptInv, ShapeInv
<1>2. /\ stack # <<>> /\ newchild # Null /\ root' = root /\ pc' = pc /\ key' = key
      /\ lastkey' = lastkey /\ stored' = stored /\ stack' = Front(stack)
  BY DEF SplitInner, result
<1>3. /\ pc = "link" /\ gone = Null /\ LiveInner = Inner /\ LiveLeaves = Leaves
      /\ Live = DOMAIN heap /\ cur \in LiveInner /\ ~rootSplit /\ lastkey = Null
  BY <1>1, <1>2, ChildOnWay
<1>4. /\ \A p \in Inner : p # cur => LedIn(heap, p, kin[p], kin, 0, {})
      /\ \A n \in DOMAIN heap : kin[n] # {}
      /\ \A n \in Leaves : kin[n] = heap[n].items
  BY <1>1, <1>2, ChildOnWay
<1>5. PICK f : f = fresh
  OBVIOUS
<1>6. /\ f \in Nodes /\ f \notin DOMAIN heap /\ f # Null /\ newchild' = f
      /\ \A n \in DOMAIN heap : n # cur => heap'[n] = heap[n]
      /\ gone' = Null /\ Live' = DOMAIN heap \cup {f} /\ LiveInner' = Inner \cup {f}
      /\ LiveLeaves' = Leaves /\ ~fixmerge'
  BY <1>1, <1>5, SplitInnerHeap
<1>7. PICK K2, C2, LK, LC, RK, RC, m, n : InnerSplit(K2, C2, LK, LC, RK, RC, m, n)
  BY <1>1, SplitInnerHeap
<1>8. PICK kin3 : Halves(kin, kin3, f, LK, LC, RK, RC, m, n)
  BY <1>1, <1>5, <1>7, InnerHalves
<1>9. /\ LedNode(kin3[cur], LK, m, LC, kin3, 0, {}) /\ LedNode(kin3[f], RK, n, RC, kin3, 0, {})
      /\ KeysDivided(kin, kin3, f) /\ KinType(kin3) /\ kin3[cur] # {} /\ kin3[f] # {}
  BY <1>8 DEF Halves
<1>10. (\A k \in kin3[cur] : k <= newkey') /\ \A k \in kin3[f] : newkey' < k
  BY <1>8 DEF Halves
<1>11. cur \in DOMAIN heap /\ cur \in Nodes /\ cur \notin Leaves /\ DOMAIN heap \subseteq Nodes
       /\ Inner \subseteq DOMAIN heap /\ Leaves \subseteq DOMAIN heap
  BY <1>1, <1>2, <1>3, AtInner DEF TypeOK, Inner, Leaves
<1>12. SplitStep(f)
  BY <1>2, <1>6, <1>11 DEF SplitStep
<1>13. kin[root] = stored' \cup {key'}
  <2>1. root # Null
    BY <1>1, <1>2, <1>3, AtInner
  <2>2. present = kin[root]
    BY <1>3, <2>1 DEF Known, Under
  <2>3. QED
    BY <1>2, <1>3, <2>2 DEF present
<1>14. ASSUME NEW p, p = cur \/ p = f PROVE NodeLed(p, kin3)'
  <2>1. stack' # <<>> => p # cur'
    <3>1. ASSUME stack' # <<>> PROVE p # cur'
      <4>1. hasParent /\ cur' = parent
        BY <1>1, <1>2, <3>1, UpToParent
      <4>2. TypeOK /\ LinkedOnce /\ StackLeadsDown /\ root # Null /\ \A x \in LiveInner : InnerFilled(x)
        BY <1>1, <1>3 DEF ShapeInv, Tree, CallUnderWay
      <4>3. parent \in DOMAIN heap /\ parent # cur
        BY <1>2, <4>1, <4>2, CurrentNode
      <4>4. QED
        BY <1>6, <1>14, <4>1, <4>3
    <3>2. QED
      BY <3>1
  <2>2. skippedAt(p)' = 0 /\ rising(p, kin3)' = {}
    BY <1>6, <2>1 DEF skippedAt, rising
  <2>3. CASE p = cur
    <3>1. heap'[cur].slotkey = LK /\ heap'[cur].childid = LC
      BY <1>7, GivenFields DEF InnerSplit
    <3>2. Len(LK) = m
      BY <1>1, <1>7, SplitChildren
    <3>3. LedIn(heap', p, kin3[p], kin3, 0, {})
      BY <1>9, <2>3, <3>1, <3>2 DEF LedIn
    <3>4. QED
      BY <2>2, <3>3 DEF NodeLed, LedIn
  <2>4. CASE p = f
    <3>1. heap'[f].slotkey = RK /\ heap'[f].childid = RC
      BY <1>5, <1>7, GivenFields DEF InnerSplit
    <3>2. Len(RK) = n
      BY <1>1, <1>7, SplitChildren
    <3>3. LedIn(heap', p, kin3[p], kin3, 0, {})
      BY <1>9, <2>4, <3>1, <3>2 DEF LedIn
    <3>4. QED
      BY <2>2, <3>3 DEF NodeLed, LedIn
  <2>5. QED
    BY <1>14, <2>3, <2>4
<1>15. \A p \in LiveInner' : p = cur \/ p = f => NodeLed(p, kin3)'
  BY <1>14
<1>16. \A x \in DOMAIN heap : x # cur => kin3[x] = kin[x]
  BY <1>6, <1>9, <1>11 DEF KeysDivided
<1>17. \A x \in LiveLeaves' : kin3[x] = heap'[x].items
  BY <1>4, <1>6, <1>11, <1>16
<1>18. \A x \in Live' : kin3[x] # {}
  BY <1>4, <1>6, <1>9, <1>16
<1>19. LiveInner' \subseteq Inner \cup {f} /\ pc' = "link" /\ lastkey' = Null
  BY <1>2, <1>3, <1>6
<1>20. QED
  BY <1>1, <1>2, <1>3, <1>4, <1>6, <1>9, <1>10, <1>12, <1>13, <1>15, <1>17, <1>18, <1>19, SplitFound

\* A node of two children.
LEMMA TwoChildren ==
  ASSUME NEW A, NEW B, NEW kin, NEW sep \in Nat, NEW K, NEW C,
         K[1] = sep, C[1] = A, C[2] = B, kin[A] \subseteq Nat, kin[B] \subseteq Nat,
         \A k \in kin[A] : k <= sep, \A k \in kin[B] : sep < k
  PROVE  LedNode(kin[A] \cup kin[B], K, 1, C, kin, 0, {})
<1>1. Covers(kin[A] \cup kin[B], C, 1 + 1, kin, {})
  <2>1. ASSUME NEW k PROVE k \in kin[A] \cup kin[B] <=> \E i \in 1 .. 1 + 1 : k \in kin[C[i]]
    OBVIOUS
  <2>2. QED
    BY <2>1 DEF Covers
<1>2. PartsBut(K, 1, C, kin, 0)
  <2>1. ASSUME NEW i \in 1 .. 1 + 1, NEW j \in 1 .. 1, NEW k \in kin[C[i]]
        PROVE  K[j] < k <=> j < i
    <3>1. j = 1 /\ K[j] = sep
      OBVIOUS
    <3>2. CASE i = 1
      <4>1. k \in kin[A]
        BY <2>1, <3>2
      <4>2. k \in Nat /\ k <= sep
        BY <4>1
      <4>3. QED
        BY <3>1, <3>2, <4>2
    <3>3. CASE i = 2
      <4>1. k \in kin[B]
        BY <2>1, <3>3
      <4>2. k \in Nat /\ sep < k
        BY <4>1
      <4>3. QED
        BY <3>1, <3>3, <4>2
    <3>4. QED
      BY <3>2, <3>3
  <2>2. QED
    BY <2>1 DEF PartsBut
<1>3. QED
  BY <1>1, <1>2 DEF LedNode

\* The root was split: a new one over both halves.
LEMMA NewRootFound ==
  ASSUME KeptInv, NEW kin, Known(kin), FinishInsert, newchild # Null, KeptInv'
  PROVE  FoundInv'
<1>1. ShapeInv /\ ShapeInv' /\ TypeOK
  BY DEF KeptInv, ShapeInv
<1>2. /\ pc' = "idle" /\ stack' = <<>> /\ newchild' = Null /\ lastkey' = Null /\ ~fixmerge'
      /\ stored' = stored \cup {key}
  BY DEF FinishInsert, return
<1>3. /\ pc = "link" /\ gone = Null /\ ~fixmerge
      /\ LiveInner = Inner /\ LiveLeaves = Leaves /\ Live = DOMAIN heap
      /\ newkey \in Keys /\ newchild \in DOMAIN heap /\ newchild \in Nodes
      /\ root # Null /\ root \in DOMAIN heap
  BY <1>1, RisingNode
<1>4. PICK f : f = fresh
  OBVIOUS
<1>5. /\ heap'[f] = InnerNode(heap[root].level + 1, <<newkey>>, <<root, newchild>>)
      /\ DOMAIN heap' = DOMAIN heap \cup {f} /\ stack = <<>>
      /\ f \in Nodes /\ f \notin DOMAIN heap /\ f # Null /\ root' = f
      /\ \A n \in DOMAIN heap : heap'[n] = heap[n]
      /\ gone' = Null /\ LiveInner' = Inner \cup {f} /\ LiveLeaves' = Leaves
  BY <1>1, <1>4, NewRootHeap
<1>6. Under(kin) /\ KinType(kin) /\ SplitParted(kin)
  BY DEF Known
<1>7. rootSplit /\ splitNode = root
  BY <1>5 DEF rootSplit, splitNode
<1>8. present = kin[root] \cup kin[newchild] /\ present = stored'
  BY <1>2, <1>3, <1>6, <1>7 DEF Under, present
<1>9. PICK P : P = kin[root] \cup kin[newchild]
  OBVIOUS
<1>10. PICK kin2 : kin2 = [n \in Nodes |-> IF n = f THEN P ELSE kin[n]]
  OBVIOUS
<1>11. DOMAIN heap \subseteq Nodes /\ Inner \subseteq DOMAIN heap /\ Leaves \subseteq DOMAIN heap
  BY <1>1 DEF TypeOK, Inner, Leaves
<1>12. kin2[f] = P /\ \A n \in DOMAIN heap : kin2[n] = kin[n]
  BY <1>5, <1>10, <1>11
<1>13. \A n \in Nodes : kin[n] \subseteq Keys
  BY <1>6 DEF KinType
<1>14. KinType(kin2)
  <2>1. root \in Nodes
    BY <1>3, <1>11
  <2>2. P \subseteq Keys
    BY <1>3, <1>9, <1>13, <2>1
  <2>3. QED
    BY <1>10, <1>13, <2>2 DEF KinType
<1>15. NodeLed(f, kin2)'
  <2>1. PICK K, C : K = <<newkey>> /\ C = <<root, newchild>>
    OBVIOUS
  <2>2. K[1] = newkey /\ C[1] = root /\ C[2] = newchild /\ Len(K) = 1
    BY <2>1
  <2>3. kin2[root] = kin[root] /\ kin2[newchild] = kin[newchild]
    BY <1>3, <1>12
  <2>4. newkey \in Nat /\ kin2[root] \subseteq Nat /\ kin2[newchild] \subseteq Nat
    <3>1. kin2[root] \subseteq Keys /\ kin2[newchild] \subseteq Keys
      BY <1>3, <1>11, <1>13, <2>3
    <3>2. QED
      BY <1>3, <3>1, KeyTypes
  <2>5. (\A k \in kin2[root] : k <= newkey) /\ \A k \in kin2[newchild] : newkey < k
    BY <1>6, <1>7, <2>3 DEF SplitParted
  <2>6. LedNode(kin2[root] \cup kin2[newchild], K, 1, C, kin2, 0, {})
    BY <2>2, <2>4, <2>5, TwoChildren
  <2>7. LedNode(kin2[f], K, 1, C, kin2, 0, {})
    BY <1>9, <1>12, <2>3, <2>6
  <2>8. heap'[f].slotkey = K /\ heap'[f].childid = C
    BY <1>5, <2>1, GivenFields
  <2>9. skippedAt(f)' = 0 /\ rising(f, kin2)' = {}
    BY <1>2 DEF skippedAt, rising
  <2>10. QED
    BY <2>2, <2>7, <2>8, <2>9 DEF NodeLed, LedIn
<1>16. ASSUME NEW p \in Inner PROVE NodeLed(p, kin2)'
  <2>1. p \in LiveInner
    BY <1>3
  <2>2. PICK K, c, C : KnownNode(p, kin, K, c, C)
    BY <1>1, <1>6, <2>1, SomeNode
  <2>3. K = heap[p].slotkey /\ C = heap[p].childid /\ c = Len(K) /\ c \in Nat
        /\ \A i \in 1 .. c + 1 : C[i] \in DOMAIN heap
    BY <2>2 DEF KnownNode
  <2>4. skippedAt(p) = 0 /\ rising(p, kin) = {}
    BY <1>3, <1>5 DEF skippedAt, rising
  <2>5. LedNode(kin[p], K, c, C, kin, 0, {})
    BY <1>6, <2>1, <2>3, <2>4 DEF Under, NodeLed, LedIn
  <2>6. PICK S : S = kin[p]
    OBVIOUS
  <2>7. LedNode(S, K, c, C, kin, 0, {}) /\ c \in Nat
    BY <2>3, <2>5, <2>6
  <2>8. \A i \in 1 .. c + 1 : kin2[C[i]] = kin[C[i]]
    BY <1>12, <2>3
  <2>9. LedNode(S, K, c, C, kin2, 0, {})
    BY <2>7, <2>8, NodeSame
  <2>10. kin2[p] = S /\ heap'[p] = heap[p]
    BY <1>5, <1>11, <1>12, <2>6
  <2>11. skippedAt(p)' = 0 /\ rising(p, kin2)' = {}
    BY <1>2 DEF skippedAt, rising
  <2>12. QED
    BY <2>3, <2>9, <2>10, <2>11 DEF NodeLed, LedIn
<1>17. \A n \in LiveLeaves' : kin2[n] = heap'[n].items
  BY <1>3, <1>5, <1>6, <1>11, <1>12 DEF Under
<1>18. \A n \in Live' : kin2[n] # {}
  <2>1. \A n \in DOMAIN heap : kin[n] # {}
    BY <1>3, <1>6 DEF Under
  <2>2. Live' \subseteq DOMAIN heap \cup {f}
    BY <1>5 DEF Live
  <2>3. kin2[f] # {}
    BY <1>3, <1>9, <1>12, <2>1
  <2>4. QED
    BY <1>12, <2>1, <2>2, <2>3
<1>19. present' = kin2[root'] /\ ~rootSplit'
  BY <1>2, <1>5, <1>8, <1>9, <1>12 DEF present, rootSplit
<1>20. \A p \in LiveInner' : NodeLed(p, kin2)'
  BY <1>5, <1>15, <1>16
<1>21. Under(kin2)'
  BY <1>2, <1>17, <1>18, <1>19, <1>20 DEF Under
<1>22. RightWay'
  BY <1>2 DEF RightWay, descending
<1>23. LastkeyKnown(kin2)'
  BY <1>2 DEF LastkeyKnown
<1>24. SplitParted(kin2)'
  BY <1>2, NoneRising
<1>25. QED
  BY <1>14, <1>21, <1>22, <1>23, <1>24, FoundNext

-----------------------------------------------------------------------------
(* A key is erased *)

\* The separator behind child s becomes the last key below it.
Follows(K, c, C, kin, s, x, K2) ==
  /\ c \in Nat /\ s \in 1 .. c /\ NatUpTo(K, c) /\ NatBelow(C, c + 1, kin)
  /\ x \in kin[C[s]] /\ \A k \in kin[C[s]] : k <= x
  /\ kin[C[s + 1]] # {}
  /\ \A j \in 1 .. c : j # s => K2[j] = K[j]
  /\ K2[s] = x

\* It parts the keys as the old one did.
LEMMA SeparatorFollows ==
  ASSUME NEW S, NEW K, NEW c, NEW C, NEW kin, LedNode(S, K, c, C, kin, 0, {}),
         NEW s, NEW x, NEW K2, Follows(K, c, C, kin, s, x, K2)
  PROVE  LedNode(S, K2, c, C, kin, 0, {})
<1>1. /\ c \in Nat /\ s \in 1 .. c /\ NatUpTo(K, c) /\ NatBelow(C, c + 1, kin)
      /\ x \in kin[C[s]] /\ kin[C[s + 1]] # {} /\ K2[s] = x
  BY DEF Follows
<1>2. \A k \in kin[C[s]] : k <= x
  BY DEF Follows
<1>3. \A j \in 1 .. c : j # s => K2[j] = K[j]
  BY DEF Follows
<1>4. s \in 1 .. c + 1 /\ s + 1 \in 1 .. c + 1 /\ ~(s < s) /\ s < s + 1
  BY <1>1
<1>5. x \in Nat /\ K[s] \in Nat
  BY <1>1, <1>4 DEF NatBelow, NatUpTo
<1>6. ~(K[s] < x)
  BY <1>1, <1>4 DEF LedNode, PartsBut
<1>7. ASSUME NEW k \in kin[C[s + 1]] PROVE x < k
  <2>1. K[s] < k
    BY <1>1, <1>4, <1>7 DEF LedNode, PartsBut
  <2>2. k \in Nat
    BY <1>1, <1>4, <1>7 DEF NatBelow
  <2>3. QED
    BY <1>5, <1>6, <2>1, <2>2
<1>8. kin[C[s]] # {}
  BY <1>1
<1>9. \A i \in 1 .. c + 1 : i \notin {s, s + 1} => kin[C[i]] = kin[C[i]]
  OBVIOUS
<1>10. QED
  BY <1>1, <1>2, <1>3, <1>5, <1>7, <1>8, <1>9, NodeRepaired

\* The keys below the nodes without the erased one.
lost(kin) == [n \in Nodes |-> kin[n] \ {key}]

\* What is known of them.
LEMMA KeysLost ==
  ASSUME KeptInv, atKey, NEW kin, Known(kin), NEW kin1, kin1 = lost(kin)
  PROVE  /\ KinType(kin1) /\ kin1[root] = stored \ {key} /\ kin1[cur] = rest
         /\ \A n \in Leaves : n # cur => kin1[n] = heap[n].items /\ kin1[n] # {}
         /\ \A n \in Inner : kin1[n] # {}
         /\ \A p \in Inner : LedIn(heap, p, kin1[p], kin1, 0, {})
<1>1. ShapeInv /\ TypeOK /\ Tree
  BY DEF KeptInv, ShapeInv
<1>2. pc = "erase" /\ isleafnode(cur) /\ descending
  BY DEF atKey, descending
<1>3. /\ stack # <<>> /\ root # Null /\ gone = Null /\ ~fixmerge /\ newchild = Null
      /\ LiveInner = Inner /\ LiveLeaves = Leaves /\ Live = DOMAIN heap
      /\ cur \in Leaves /\ cur \in Nodes /\ root \in DOMAIN heap
      /\ \A n \in Leaves : n # cur => heap[n].items # {}
  BY <1>1, <1>2, AtLeaf
<1>4. /\ EachOnce(heap, Leaves, stored) /\ key \in heap[cur].items
      /\ rest = heap[cur].items \ {key}
  BY ErasingKey
<1>5. Under(kin) /\ KinType(kin)
  BY DEF Known
<1>6. \A n \in Nodes : kin1[n] = kin[n] \ {key}
  BY DEF lost
<1>7. DOMAIN heap \subseteq Nodes /\ Leaves \subseteq DOMAIN heap /\ Inner \subseteq DOMAIN heap
  BY <1>1 DEF TypeOK, Leaves, Inner
<1>8. KinType(kin1)
  <2>1. \A n \in Nodes : kin[n] \subseteq Keys
    BY <1>5 DEF KinType
  <2>2. \A n \in Nodes : kin[n] \ {key} \subseteq Keys
    BY <2>1
  <2>3. QED
    BY <2>2 DEF KinType, lost
<1>9. \A n \in Leaves : kin1[n] = heap[n].items \ {key}
  BY <1>3, <1>5, <1>6, <1>7 DEF Under
<1>10. \A n \in Leaves : n # cur => kin1[n] = heap[n].items
  <2>1. \A n \in Leaves : n # cur => key \notin heap[n].items
    BY <1>3, <1>4 DEF EachOnce
  <2>2. QED
    BY <1>9, <2>1
<1>11. kin1[root] = stored \ {key}
  <2>1. present = stored /\ ~rootSplit
    BY <1>2, <1>3 DEF present, rootSplit
  <2>2. kin[root] = stored
    BY <1>3, <1>5, <2>1 DEF Under
  <2>3. QED
    BY <1>3, <1>6, <1>7, <2>2
<1>12. ASSUME NEW p \in Inner PROVE kin1[p] # {} /\ LedIn(heap, p, kin1[p], kin1, 0, {})
  <2>1. p \in LiveInner
    BY <1>3
  <2>2. PICK K, c, C : KnownNode(p, kin, K, c, C)
    BY <1>1, <1>5, <2>1, SomeNode
  <2>3. K = heap[p].slotkey /\ C = heap[p].childid /\ c = Len(K) /\ c \in Nat
        /\ \A i \in 1 .. c + 1 : C[i] \in Nodes
    BY <2>2 DEF KnownNode
  <2>4. SomeBelow(C, c + 1, kin)
    <3>1. C \in Seq(Nodes) /\ Len(C) = c + 1
      BY <2>2 DEF KnownNode
    <3>2. gone \notin Elements(C)
      BY <1>3, <2>3, <3>1, CompactAssumption DEF Elements
    <3>3. QED
      BY <2>2, <3>2 DEF KnownNode
  <2>5. c >= 1
    <3>1. InnerFilled(p)
      BY <1>1, <2>1 DEF Tree
    <3>2. Len(heap[p].slotkey) >= least(p)
      BY <3>1, FilledSlots
    <3>3. least(p) \in Nat /\ least(p) >= 1
      BY <1>2, LeastValues, Half
    <3>4. QED
      BY <2>3, <3>2, <3>3
  <2>6. LedIn(heap, p, kin[p], kin, 0, {})
    BY <1>3, <1>5, <2>1, PlainNode
  <2>7. PICK S, d : S = kin[p] /\ d = key
    OBVIOUS
  <2>8. LedNode(S, K, c, C, kin, 0, {}) /\ c \in Nat
    BY <2>3, <2>6, <2>7 DEF LedIn
  <2>9. \A i \in 1 .. c + 1 : kin1[C[i]] = kin[C[i]] \ {d}
    BY <1>6, <2>3, <2>7
  <2>10. LedNode(S \ {d}, K, c, C, kin1, 0, {})
    BY <2>8, <2>9, NodeLoses, ZenonT(60)
  <2>11. S \ {d} # {}
    BY <2>4, <2>5, <2>8, OtherKey
  <2>12. kin1[p] = S \ {d}
    BY <1>6, <1>7, <2>7
  <2>13. QED
    BY <2>3, <2>10, <2>11, <2>12 DEF LedIn
<1>13. \A n \in Leaves : n # cur => kin1[n] # {}
  BY <1>3, <1>10
<1>14. kin1[cur] = rest
  BY <1>3, <1>4, <1>9
<1>15. QED
  BY <1>8, <1>10, <1>11, <1>12, <1>13, <1>14

\* The parent follows, if it has a separator for the leaf.
LEMMA ErasedLed ==
  ASSUME KeptInv, atKey, NEW kin, Known(kin), NEW kin1, kin1 = lost(kin),
         NEW h, h = erased, NEW p \in Inner
  PROVE  LedIn(h, p, kin1[p], kin1, 0, {})
<1>1. ShapeInv /\ TypeOK /\ Tree
  BY DEF KeptInv, ShapeInv
<1>2. pc = "erase" /\ isleafnode(cur) /\ descending
  BY DEF atKey, descending
<1>3. /\ stack # <<>> /\ root # Null /\ gone = Null /\ ~fixmerge /\ newchild = Null
      /\ LiveInner = Inner /\ LiveLeaves = Leaves /\ Live = DOMAIN heap
      /\ cur \in Leaves /\ cur \in Nodes /\ heap[cur].level = 0
  BY <1>1, <1>2, AtLeaf
<1>4. /\ KinType(kin1) /\ kin1[cur] = rest
      /\ \A n \in Leaves : n # cur => kin1[n] # {}
      /\ LedIn(heap, p, kin1[p], kin1, 0, {})
  BY KeysLost
<1>5. /\ p # parent \/ ~followed => h[p] = heap[p]
      /\ h[p].childid = heap[p].childid /\ Len(h[p].slotkey) = Len(heap[p].slotkey)
      /\ followed => h[parent].slotkey
                       = [heap[parent].slotkey EXCEPT ![parentslot + 1] = Max(rest)]
      /\ followed => Max(rest) \in rest /\ \A k \in rest : k <= Max(rest)
  BY <1>1, ErasedLeaf
<1>6. CASE ~(followed /\ p = parent)
  BY <1>4, <1>5, <1>6 DEF LedIn
<1>7. CASE followed /\ p = parent
  <2>1. hasParent /\ parentslot < slotuse(parent)
    BY <1>7 DEF followed, keyAbove
  <2>2. LinkedOnce /\ StackLeadsDown /\ \A n \in LiveInner : InnerFilled(n)
    BY <1>1 DEF ShapeInv, Tree, CallUnderWay
  <2>3. /\ parent \in LiveInner /\ heap[parent].level = heap[cur].level + 1
        /\ parentslot \in 0 .. Len(heap[parent].slotkey)
        /\ cur = heap[parent].childid[parentslot + 1]
    BY <1>1, <1>3, <2>1, <2>2, CurrentNode
  <2>4. PICK K, C, c : K = heap[p].slotkey /\ C = heap[p].childid /\ c = Len(K)
    OBVIOUS
  <2>5. PICK s, x : s = parentslot + 1 /\ x = Max(rest)
    OBVIOUS
  <2>6. /\ K \in Seq(Keys) /\ C \in Seq(Nodes) /\ c \in Nat /\ Len(C) = c + 1
        /\ Slots(p) = 1 .. c + 1 /\ slotuse(p) = c
        /\ \A i \in 1 .. c + 1 : C[i] \in DOMAIN heap /\ heap[C[i]].level \in Nat
                                 /\ heap[C[i]].level + 1 = heap[p].level
    BY <1>1, <1>7, <2>2, <2>3, <2>4, ChildNodes
  <2>7. s \in 1 .. c /\ s + 1 \in 1 .. c + 1 /\ C[s] = cur
    BY <1>7, <2>1, <2>3, <2>4, <2>5, <2>6
  <2>8. \A i, j \in 1 .. c + 1 : C[i] = C[j] => i = j
    <3>1. \A i, j \in Slots(parent) : heap[parent].childid[i] = heap[parent].childid[j] => i = j
      BY <2>2, <2>3 DEF LinkedOnce
    <3>2. QED
      BY <1>7, <2>4, <2>6, <3>1
  <2>9. C[s + 1] \in Leaves /\ C[s + 1] # cur
    <3>1. s \in 1 .. c + 1 /\ s # s + 1
      BY <2>6, <2>7
    <3>2. C[s + 1] # cur
      BY <2>7, <2>8, <3>1
    <3>3. C[s + 1] \in DOMAIN heap /\ heap[C[s + 1]].level = 0
      BY <1>3, <1>7, <2>3, <2>6, <2>7
    <3>4. QED
      BY <3>2, <3>3 DEF Leaves, isleafnode
  <2>10. NatUpTo(K, c)
    <3>1. \A j \in 1 .. c : K[j] \in Keys
      BY <2>4, <2>6
    <3>2. QED
      BY <3>1, KeyTypes DEF NatUpTo
  <2>11. NatBelow(C, c + 1, kin1)
    <3>1. \A i \in 1 .. c + 1 : C[i] \in Nodes
      BY <2>6
    <3>2. \A i \in 1 .. c + 1 : kin1[C[i]] \subseteq Keys
      BY <1>4, <3>1 DEF KinType
    <3>3. QED
      BY <3>2, KeyTypes DEF NatBelow
  <2>12. PICK K2 : K2 = [K EXCEPT ![s] = x]
    OBVIOUS
  <2>13. DOMAIN K = 1 .. c
    BY <2>4, <2>6
  <2>14. K2[s] = x /\ \A j \in 1 .. c : j # s => K2[j] = K[j]
    BY <2>7, <2>12, <2>13
  <2>15. x \in kin1[C[s]] /\ \A k \in kin1[C[s]] : k <= x
    BY <1>4, <1>5, <1>7, <2>5, <2>7
  <2>16. kin1[C[s + 1]] # {}
    BY <1>4, <2>9
  <2>17. Follows(K, c, C, kin1, s, x, K2)
    BY <2>6, <2>7, <2>10, <2>11, <2>14, <2>15, <2>16 DEF Follows
  <2>18. LedNode(kin1[p], K, c, C, kin1, 0, {})
    BY <1>4, <2>4 DEF LedIn
  <2>19. LedNode(kin1[p], K2, c, C, kin1, 0, {})
    BY <2>17, <2>18, SeparatorFollows
  <2>20. h[p].slotkey = K2 /\ h[p].childid = C /\ Len(h[p].slotkey) = c
    BY <1>5, <1>7, <2>4, <2>5, <2>12
  <2>21. QED
    BY <2>19, <2>20 DEF LedIn
<1>8. QED
  BY <1>6, <1>7

\* The key that an ancestor's separator is to become is the last one below the parent.
LEMMA ScheduledKnown ==
  ASSUME KeptInv, atKey, fromLeaf, NEW kin, Known(kin), NEW kin1, kin1 = lost(kin),
         NEW kin2, hasParent => kin2[parent] = kin1[parent]
  PROVE  LastkeyKnown(kin2)'
<1>1. ShapeInv /\ TypeOK /\ Tree
  BY DEF KeptInv, ShapeInv
<1>2. pc = "erase" /\ isleafnode(cur) /\ descending
  BY DEF atKey, descending
<1>3. stack # <<>> /\ LiveInner = Inner /\ root # Null
  BY <1>1, <1>2, AtLeaf
<1>4. lastkey' = scheduled /\ stack' = Front(stack) /\ pc' = "fix"
  BY DEF fromLeaf
<1>5. ASSUME lastkey' # Null, stack' # <<>>
      PROVE  lastkey' \in kin2[cur'] /\ \A k \in kin2[cur'] : k <= lastkey'
  <2>1. ~keyAbove /\ rest # {} /\ lastkey' = Max(rest)
    BY <1>4, <1>5 DEF scheduled
  <2>2. hasParent /\ cur' = parent
    BY <1>1, <1>3, <1>4, <1>5, UpToParent
  <2>3. rest \subseteq Keys /\ IsFiniteSet(rest)
    BY <1>1, ErasedLeaf
  <2>4. PICK x : x = Max(rest)
    OBVIOUS
  <2>5. x \in rest /\ \A k \in rest : k <= x
    <3>1. rest \in SUBSET Nat
      BY <2>3, KeyTypes
    <3>2. QED
      BY <2>1, <2>3, <2>4, <3>1, MaxElement
  <2>6. KinType(kin1) /\ kin1[cur] = rest
    BY KeysLost
  <2>7. parent \in Inner
    <3>1. TypeOK /\ LinkedOnce /\ StackLeadsDown /\ \A n \in LiveInner : InnerFilled(n)
      BY <1>1 DEF ShapeInv, Tree, CallUnderWay
    <3>2. parent \in LiveInner
      BY <1>3, <2>2, <3>1, CurrentNode
    <3>3. QED
      BY <1>3, <3>2
  <2>8. PICK S : S = kin1[parent]
    OBVIOUS
  <2>9. LedIn(heap, parent, S, kin1, 0, {})
    <3>1. \A p \in Inner : LedIn(heap, p, kin1[p], kin1, 0, {})
      BY KeysLost
    <3>2. QED
      BY <2>7, <2>8, <3>1
  <2>10. x \in S /\ \A k \in S : k <= x
    BY <1>1, <1>3, <2>1, <2>2, <2>5, <2>6, <2>9, LastBelow
  <2>11. QED
    BY <2>1, <2>2, <2>4, <2>8, <2>10
<1>6. QED
  BY <1>4, <1>5 DEF LastkeyKnown

\* What a step from the leaf leaves to be shown.
LeafErased(kin1, kin2) ==
  /\ KinType(kin2) /\ LiveInner' = Inner
  /\ \A p \in Inner : NodeLed(p, kin2)' /\ kin2[p] = kin1[p]
  /\ \A n \in LiveLeaves' : kin2[n] = heap'[n].items
  /\ fixmerge' => kin2[gone'] = {}
  /\ kin2[root] = kin1[root]

\* The leaf was left without the key.
LEMMA LeafErasedFound ==
  ASSUME KeptInv, KeptInv', atKey, fromLeaf, NEW kin, Known(kin), NEW kin1, kin1 = lost(kin),
         NEW kin2, LeafErased(kin1, kin2)
  PROVE  FoundInv'
<1>1. ShapeInv /\ ShapeInv' /\ TypeOK /\ Tree /\ Tree' /\ TypeOK'
  BY DEF KeptInv, ShapeInv
<1>2. pc = "erase" /\ isleafnode(cur) /\ descending
  BY DEF atKey, descending
<1>3. stack # <<>> /\ LiveInner = Inner /\ root # Null /\ newchild = Null
  BY <1>1, <1>2, AtLeaf
<1>4. pc' = "fix" /\ root' = root /\ newchild' = newchild
  BY DEF fromLeaf, split
<1>5. /\ KinType(kin2) /\ LiveInner' = Inner
      /\ \A p \in Inner : NodeLed(p, kin2)' /\ kin2[p] = kin1[p]
      /\ \A n \in LiveLeaves' : kin2[n] = heap'[n].items
      /\ fixmerge' => kin2[gone'] = {}
      /\ kin2[root] = kin1[root]
  BY DEF LeafErased
<1>6. kin1[root] = stored \ {key} /\ \A n \in Inner : kin1[n] # {}
  BY KeysLost
<1>7. present' = stored \ {key}
  BY ErasedHistory
<1>8. \A n \in Live' : kin2[n] # {}
  <2>1. ASSUME NEW n \in LiveLeaves' PROVE kin2[n] # {}
    <3>1. LeafFilled(n)'
      BY <1>1, <2>1 DEF Tree
    <3>2. heap'[n].items # {}
      BY <1>4, <3>1 DEF LeafFilled
    <3>3. QED
      BY <1>5, <2>1, <3>2
  <2>2. \A n \in Live' : n \in LiveInner' \/ n \in LiveLeaves'
    BY DEF Live, LiveInner, LiveLeaves, Inner
  <2>3. QED
    BY <1>5, <1>6, <2>1, <2>2
<1>9. ~rootSplit'
  BY <1>3, <1>4 DEF rootSplit
<1>10. Under(kin2)'
  BY <1>4, <1>5, <1>6, <1>7, <1>8, <1>9 DEF Under
<1>11. LastkeyKnown(kin2)'
  <2>1. hasParent => kin2[parent] = kin1[parent]
    <3>1. TypeOK /\ LinkedOnce /\ StackLeadsDown /\ \A n \in LiveInner : InnerFilled(n)
      BY <1>1 DEF ShapeInv, Tree, CallUnderWay
    <3>2. hasParent => parent \in LiveInner
      BY <1>3, <3>1, CurrentNode
    <3>3. QED
      BY <1>3, <1>5, <3>2
  <2>2. QED
    BY <2>1, ScheduledKnown
<1>12. RightWay'
  BY <1>4 DEF RightWay, descending
<1>13. SplitParted(kin2)'
  BY <1>3, <1>4, NoneRising
<1>14. QED
  BY <1>5, <1>10, <1>11, <1>12, <1>13, FoundNext

\* The leaf keeps the other keys.
LEMMA EraseKeepFound ==
  ASSUME KeptInv, NEW kin, Known(kin), EraseKeep, KeptInv'
  PROVE  FoundInv'
<1>1. ShapeInv /\ ShapeInv' /\ TypeOK /\ TypeOK'
  BY DEF KeptInv, ShapeInv
<1>2. atKey /\ fromLeaf /\ heap' = erased /\ ~fixmerge'
  BY DEF EraseKeep
<1>3. pc = "erase" /\ isleafnode(cur) /\ descending
  BY <1>2 DEF atKey, descending
<1>4. newchild = Null
  BY <1>1, <1>3, AtLeaf
<1>5. newchild' = Null
  BY <1>2, <1>4 DEF fromLeaf, split
<1>6. PICK kin1 : kin1 = lost(kin)
  OBVIOUS
<1>7. /\ KinType(kin1) /\ kin1[cur] = rest
      /\ \A n \in Leaves : n # cur => kin1[n] = heap[n].items
  BY <1>2, <1>6, KeysLost
<1>8. /\ Leaves' = Leaves /\ gone' = Null /\ LiveLeaves' = Leaves
      /\ \A n \in Leaves : heap'[n].items = IF n = cur THEN rest ELSE heap[n].items
  BY <1>1, EraseKeepShape
<1>9. LiveInner' = Inner
  <2>1. DOMAIN heap' = DOMAIN heap
    BY <1>1, <1>2, ErasedLeaf
  <2>2. Inner' = Inner
    BY <1>8, <2>1 DEF Inner
  <2>3. Null \notin Inner
    BY <1>1, NodeKinds
  <2>4. QED
    BY <1>8, <2>2, <2>3 DEF LiveInner
<1>10. ASSUME NEW p \in Inner PROVE NodeLed(p, kin1)'
  <2>1. PICK h : h = erased
    OBVIOUS
  <2>2. LedIn(h, p, kin1[p], kin1, 0, {})
    BY <1>2, <1>6, <2>1, ErasedLed
  <2>3. skippedAt(p)' = 0 /\ rising(p, kin1)' = {}
    BY <1>2, <1>5 DEF skippedAt, rising
  <2>4. heap' = h
    BY <1>2, <2>1
  <2>5. QED
    BY <2>2, <2>3, <2>4 DEF NodeLed, LedIn
<1>11. \A n \in LiveLeaves' : kin1[n] = heap'[n].items
  BY <1>7, <1>8
<1>12. LeafErased(kin1, kin1)
  BY <1>2, <1>7, <1>9, <1>10, <1>11 DEF LeafErased
<1>13. QED
  BY <1>2, <1>6, <1>12, LeafErasedFound

-----------------------------------------------------------------------------
(* Two nodes are merged *)

\* Child s takes the keys of the next one.
Absorbs(c, C, kin, kin2, s) ==
  /\ c \in Nat /\ s \in 1 .. c
  /\ kin2[C[s]] = kin[C[s]] \cup kin[C[s + 1]] /\ kin2[C[s + 1]] = {}
  /\ \A i \in 1 .. c + 1 : i \notin {s, s + 1} => kin2[C[i]] = kin[C[i]]

\* The node over them.
LEMMA ChildAbsorbed ==
  ASSUME NEW S, NEW K, NEW c, NEW C, NEW kin, LedNode(S, K, c, C, kin, 0, {}),
         NEW kin2, NEW s, Absorbs(c, C, kin, kin2, s)
  PROVE  LedNode(S, K, c, C, kin2, s, {})
<1>1. /\ c \in Nat /\ s \in 1 .. c
      /\ kin2[C[s]] = kin[C[s]] \cup kin[C[s + 1]] /\ kin2[C[s + 1]] = {}
  BY DEF Absorbs
<1>2. \A i \in 1 .. c + 1 : i \notin {s, s + 1} => kin2[C[i]] = kin[C[i]]
  BY DEF Absorbs
<1>3. QED
  BY <1>1, <1>2, ChildrenMerged

\* The nodes l and r, side by side below the parent.
PairAt(l, r, s) ==
  /\ s \in 1 .. Len(heap[parent].slotkey)
  /\ l = heap[parent].childid[s] /\ r = heap[parent].childid[s + 1]

\* The keys of r are below l now.
KeysMerged(kin, kin2, l, r) ==
  /\ kin2[l] = kin[l] \cup kin[r] /\ kin2[r] = {}
  /\ \A n \in Nodes : n # l /\ n # r => kin2[n] = kin[n]

\* A node with the children that it has.
SameChildren(h, p) ==
  h[p].childid = heap[p].childid /\ Len(h[p].slotkey) = Len(heap[p].slotkey)

\* How a node leads to its keys then.
LEMMA PairMerged ==
  ASSUME TypeOK, LinkedOnce, NEW p \in LiveInner, InnerFilled(p), InnerFilled(parent),
         parent \in LiveInner, NEW l, NEW r, NEW s, PairAt(l, r, s),
         NEW kin, NEW kin2, KeysMerged(kin, kin2, l, r),
         NEW h, SameChildren(h, p), NEW S, LedIn(h, p, S, kin, 0, {}),
         NEW x, x = IF p = parent THEN s ELSE 0
  PROVE  LedIn(h, p, S, kin2, x, {})
<1>1. PICK K, C, c : K = h[p].slotkey /\ C = h[p].childid /\ c = Len(K)
  OBVIOUS
<1>2. C = heap[p].childid /\ c = Len(heap[p].slotkey)
  BY <1>1 DEF SameChildren
<1>3. c \in Nat /\ Slots(p) = 1 .. c + 1 /\ \A i \in 1 .. c + 1 : C[i] \in DOMAIN heap
  BY <1>2, ChildNodes
<1>4. /\ s \in 1 .. Len(heap[parent].slotkey) /\ l = heap[parent].childid[s]
      /\ r = heap[parent].childid[s + 1]
  BY DEF PairAt
<1>5. s \in Slots(parent) /\ s + 1 \in Slots(parent)
  <2>1. Slots(parent) = 1 .. Len(heap[parent].slotkey) + 1 /\ Len(heap[parent].slotkey) \in Nat
    BY ChildNodes
  <2>2. QED
    BY <1>4, <2>1
<1>6. \A i \in Slots(p) :
        /\ heap[p].childid[i] = l => p = parent /\ i = s
        /\ heap[p].childid[i] = r => p = parent /\ i = s + 1
  BY <1>4, <1>5 DEF LinkedOnce
<1>7. \A i \in 1 .. c + 1 : /\ C[i] = l => p = parent /\ i = s
                            /\ C[i] = r => p = parent /\ i = s + 1
  BY <1>2, <1>3, <1>6
<1>8. \A i \in 1 .. c + 1 : C[i] \in Nodes
  BY <1>3 DEF TypeOK
<1>9. LedNode(S, K, c, C, kin, 0, {})
  BY <1>1 DEF LedIn
<1>10. CASE p = parent
  <2>1. s \in 1 .. c /\ C[s] = l /\ C[s + 1] = r
    BY <1>2, <1>4, <1>10
  <2>2. \A i \in 1 .. c + 1 : i \notin {s, s + 1} => kin2[C[i]] = kin[C[i]]
    BY <1>7, <1>8 DEF KeysMerged
  <2>3. Absorbs(c, C, kin, kin2, s)
    BY <1>3, <2>1, <2>2 DEF Absorbs, KeysMerged
  <2>4. LedNode(S, K, c, C, kin2, s, {})
    BY <1>9, <2>3, ChildAbsorbed
  <2>5. QED
    BY <1>1, <1>10, <2>4 DEF LedIn
<1>11. CASE p # parent
  <2>1. \A i \in 1 .. c + 1 : kin2[C[i]] = kin[C[i]]
    BY <1>7, <1>8, <1>11 DEF KeysMerged
  <2>2. LedNode(S, K, c, C, kin2, 0, {})
    BY <1>3, <1>9, <2>1, NodeSame
  <2>3. QED
    BY <1>1, <1>11, <2>2 DEF LedIn
<1>12. QED
  BY <1>10, <1>11

\* The slot of the emptied node.
LEMMA EmptiedSlot ==
  ASSUME ShapeInv, ShapeInv', stack # <<>>, hasParent, stack' = Front(stack), fixmerge',
         parent \in LiveInner, SameChildren(heap', parent), heap'[parent].level # 0,
         NEW l, NEW r, NEW s, PairAt(l, r, s), gone' = r
  PROVE  cur' = parent /\ emptied' = s
<1>1. /\ TypeOK /\ LinkedOnce /\ InnerFilled(parent)
  BY DEF ShapeInv, Tree
<1>2. stack' # <<>> /\ emptied' \in 1 .. slotuse(cur)'
  BY DEF ShapeInv, CallUnderWay
<1>3. cur' = parent
  BY <1>2, UpToParent
<1>4. PICK c : c = Len(heap[parent].slotkey)
  OBVIOUS
<1>5. c \in Nat /\ Slots(parent) = 1 .. c + 1
  BY <1>1, <1>4, ChildNodes
<1>6. slotuse(cur)' = c
  BY <1>3, <1>4 DEF slotuse, slotuseIn, SameChildren
<1>7. emptied' \in 1 .. c
  BY <1>2, <1>6
<1>8. gone' = heap[parent].childid[emptied' + 1]
  BY <1>3 DEF gone, child, SameChildren
<1>9. emptied' + 1 \in Slots(parent) /\ s + 1 \in Slots(parent) /\ r = heap[parent].childid[s + 1]
      /\ s \in 1 .. c
  <2>1. s \in 1 .. c /\ r = heap[parent].childid[s + 1]
    BY <1>4 DEF PairAt
  <2>2. PICK e : e = emptied'
    OBVIOUS
  <2>3. e \in 1 .. c
    BY <1>7, <2>2
  <2>4. e + 1 \in 1 .. c + 1 /\ s + 1 \in 1 .. c + 1
    BY <1>5, <2>1, <2>3
  <2>5. QED
    BY <1>5, <2>1, <2>2, <2>4
<1>10. \A i, j \in Slots(parent) : heap[parent].childid[i] = heap[parent].childid[j] => i = j
  BY <1>1 DEF LinkedOnce
<1>11. emptied' + 1 = s + 1
  BY <1>8, <1>9, <1>10
<1>12. QED
  BY <1>3, <1>7, <1>9, <1>11

\* The leaf was merged with one beside it.
LeafPair(l, r, s) ==
  /\ hasParent /\ PairAt(l, r, s) /\ l # r /\ l \in Leaves /\ r \in Leaves
  /\ gone' = r /\ fixmerge' /\ Leaves' = Leaves /\ LiveLeaves' = Leaves \ {r}
  /\ heap' = merge_leaves(erased, l, r)

\* The keys of two leaves are below one of them.
leftKin(kin, l, r) ==
  [n \in Nodes |-> IF n = l THEN kin[l] \cup kin[r] ELSE IF n = r THEN {} ELSE kin[n]]

\* The left one takes the keys of the right one.
LEMMA KeysJoined ==
  ASSUME NEW kin, KinType(kin), NEW l \in Nodes, NEW r \in Nodes, l # r,
         NEW kin2, kin2 = leftKin(kin, l, r)
  PROVE  KinType(kin2) /\ KeysMerged(kin, kin2, l, r)
BY DEF KinType, KeysMerged, leftKin

\* Two leaves become one, and the parent has an emptied child.
LEMMA EraseMergeFound ==
  ASSUME KeptInv, KeptInv', atKey, fromLeaf, NEW kin, Known(kin),
         NEW l, NEW r, NEW s, LeafPair(l, r, s)
  PROVE  FoundInv'
<1>1. ShapeInv /\ ShapeInv' /\ TypeOK /\ Tree /\ Tree' /\ TypeOK' /\ LinkedOnce
  BY DEF KeptInv, ShapeInv, Tree
<1>2. pc = "erase" /\ isleafnode(cur) /\ descending
  BY DEF atKey, descending
<1>3. stack # <<>> /\ LiveInner = Inner /\ root # Null /\ newchild = Null
  BY <1>1, <1>2, AtLeaf
<1>4. pc' = "fix" /\ root' = root /\ newchild' = Null /\ stack' = Front(stack)
  BY <1>3 DEF fromLeaf, split
<1>5. /\ hasParent /\ PairAt(l, r, s) /\ l # r /\ l \in Leaves /\ r \in Leaves
      /\ gone' = r /\ fixmerge' /\ Leaves' = Leaves /\ LiveLeaves' = Leaves \ {r}
  BY DEF LeafPair
<1>6. PICK kin1 : kin1 = lost(kin)
  OBVIOUS
<1>7. /\ KinType(kin1) /\ kin1[cur] = rest
      /\ \A n \in Leaves : n # cur => kin1[n] = heap[n].items
  BY <1>6, KeysLost
<1>8. PICK h : h = erased
  OBVIOUS
<1>9. heap' = merge_leaves(h, l, r)
  BY <1>8 DEF LeafPair
<1>10. /\ HeapTyped(h) /\ DOMAIN h = DOMAIN heap
       /\ h[cur] = Leaf(rest, heap[cur].prevleaf, heap[cur].nextleaf)
       /\ \A n \in Leaves : n # cur => h[n] = heap[n]
       /\ \A n \in Inner : /\ h[n] \in InnerNodes /\ h[n].childid = heap[n].childid
                           /\ Len(h[n].slotkey) = Len(heap[n].slotkey)
                           /\ h[n].level = heap[n].level
  BY <1>1, <1>8, ErasedLeaf
<1>11. \A n \in Leaves : h[n].items = kin1[n]
  <2>1. h[cur].items = rest
    BY <1>10, GivenFields
  <2>2. QED
    BY <1>7, <1>10, <2>1
<1>12. /\ l \in DOMAIN heap /\ l \in Nodes /\ l \notin Inner
       /\ r \in DOMAIN heap /\ r \in Nodes /\ r \notin Inner /\ Leaves \cup Inner = DOMAIN heap
       /\ \A n \in Inner : n \in DOMAIN heap /\ n \in Nodes
       /\ \A n \in Leaves : n \in DOMAIN heap /\ n \in Nodes
  BY <1>1, <1>5, NodeKinds
<1>13. \A n \in Leaves : h[n] \in LeafNodes
  <2>1. \A n \in Leaves : heap[n] \in LeafNodes
    BY <1>1, NodeKinds
  <2>2. rest \subseteq Keys
    BY <1>1, ErasedLeaf
  <2>3. cur \in Leaves => h[cur] \in LeafNodes
    <3>1. ASSUME cur \in Leaves PROVE h[cur] \in LeafNodes
      <4>1. heap[cur].prevleaf \in Pointers /\ heap[cur].nextleaf \in Pointers
        BY <2>1, <3>1, LeafFields
      <4>2. QED
        BY <1>10, <2>2, <4>1, NodeRecords
    <3>2. QED
      BY <3>1
  <2>4. QED
    BY <1>10, <2>1, <2>3
<1>14. LeafMerge(heap', h, l, r)
  <2>1. h[l] \in LeafNodes /\ h[r] \in LeafNodes /\ l \in DOMAIN h /\ r \in DOMAIN h
    BY <1>5, <1>10, <1>12, <1>13
  <2>2. QED
    BY <1>5, <1>9, <1>10, <2>1, MergedLeaves
<1>15. DOMAIN heap' = DOMAIN heap /\ \A n \in Inner : heap'[n] = h[n]
  BY <1>10, <1>12, <1>14 DEF LeafMerge
<1>16. \A n \in Leaves : heap'[n].items = IF n = l THEN h[l].items \cup h[r].items
                                          ELSE IF n = r THEN {} ELSE h[n].items
  BY <1>10, <1>12, <1>13, <1>14 DEF LeafMerge
<1>17. PICK kin2 : kin2 = leftKin(kin1, l, r)
  OBVIOUS
<1>18. KinType(kin2) /\ KeysMerged(kin1, kin2, l, r)
  BY <1>5, <1>7, <1>12, <1>17, KeysJoined
<1>19. LiveInner' = Inner
  <2>1. Inner' = Inner
    BY <1>5, <1>15 DEF Inner
  <2>2. QED
    BY <1>5, <1>12, <2>1 DEF LiveInner
<1>20. \A n \in LiveInner : InnerFilled(n)
  BY <1>1 DEF Tree
<1>21. parent \in LiveInner /\ InnerFilled(parent)
  <2>1. TypeOK /\ LinkedOnce /\ StackLeadsDown
    BY <1>1 DEF ShapeInv, Tree, CallUnderWay
  <2>2. parent \in LiveInner
    BY <1>3, <1>5, <1>20, <2>1, CurrentNode
  <2>3. QED
    BY <1>20, <2>2
<1>22. cur' = parent /\ emptied' = s
  <2>1. SameChildren(heap', parent)
    BY <1>3, <1>10, <1>15, <1>21 DEF SameChildren
  <2>2. heap'[parent].level # 0
    <3>1. parent \in Inner /\ parent \in DOMAIN heap /\ heap[parent].level # 0
      BY <1>1, <1>3, <1>12, <1>21, Levels
    <3>2. QED
      BY <1>10, <1>15, <3>1
  <2>3. QED
    BY <1>1, <1>3, <1>4, <1>5, <1>21, <2>1, <2>2, EmptiedSlot
<1>23. ASSUME NEW p \in Inner
       PROVE  NodeLed(p, kin2)' /\ kin2[p] = kin1[p]
  <2>1. PICK S, x : S = kin1[p] /\ x = IF p = parent THEN s ELSE 0
    OBVIOUS
  <2>2. LedIn(h, p, S, kin1, 0, {})
    <3>1. LedIn(h, p, kin1[p], kin1, 0, {})
      BY <1>6, <1>8, ErasedLed
    <3>2. QED
      BY <2>1, <3>1
  <2>3. SameChildren(h, p) /\ p \in LiveInner
    BY <1>3, <1>10 DEF SameChildren
  <2>4. LedIn(h, p, S, kin2, x, {})
    BY <1>1, <1>5, <1>18, <1>20, <1>21, <2>1, <2>2, <2>3, PairMerged
  <2>5. kin2[p] = S
    BY <1>12, <1>18, <2>1 DEF KeysMerged
  <2>6. skippedAt(p)' = x
    BY <1>5, <1>22, <2>1 DEF skippedAt
  <2>7. rising(p, kin2)' = {}
    BY <1>4 DEF rising
  <2>8. LedIn(heap', p, S, kin2, x, {})
    BY <1>15, <2>4 DEF LedIn
  <2>9. QED
    BY <2>1, <2>5, <2>6, <2>7, <2>8 DEF NodeLed
<1>24. \A n \in LiveLeaves' : kin2[n] = heap'[n].items
  <2>1. ASSUME NEW n \in LiveLeaves' PROVE kin2[n] = heap'[n].items
    <3>1. n \in Leaves /\ n # r /\ n \in Nodes
      BY <1>5, <1>12, <2>1
    <3>2. CASE n = l
      BY <1>5, <1>11, <1>16, <1>18, <3>1, <3>2 DEF KeysMerged
    <3>3. CASE n # l
      BY <1>5, <1>11, <1>16, <1>18, <3>1, <3>3 DEF KeysMerged
    <3>4. QED
      BY <3>2, <3>3
  <2>2. QED
    BY <2>1
<1>25. kin2[gone'] = {}
  BY <1>5, <1>18 DEF KeysMerged
<1>26. kin2[root] = kin1[root]
  <2>1. root # l /\ root # r
    <3>1. /\ \A i \in Slots(parent) : heap[parent].childid[i] # root
          /\ Slots(parent) = 1 .. Len(heap[parent].slotkey) + 1
          /\ Len(heap[parent].slotkey) \in Nat
      BY <1>1, <1>21, ChildNodes
    <3>2. PICK c : c = Len(heap[parent].slotkey)
      OBVIOUS
    <3>3. s \in 1 .. c /\ c \in Nat
      BY <1>5, <3>1, <3>2 DEF PairAt
    <3>4. s \in 1 .. c + 1 /\ s + 1 \in 1 .. c + 1
      BY <3>3
    <3>5. QED
      BY <1>5, <3>1, <3>2, <3>4 DEF PairAt
  <2>2. root \in Nodes
    BY <1>1, <1>3 DEF TypeOK
  <2>3. QED
    BY <1>18, <2>1, <2>2 DEF KeysMerged
<1>27. LeafErased(kin1, kin2)
  BY <1>18, <1>19, <1>23, <1>24, <1>25, <1>26 DEF LeafErased
<1>28. QED
  BY <1>6, <1>27, LeafErasedFound

\* The leaf's keys move to the left one.
LEMMA LeftPair ==
  ASSUME KeptInv, EraseMergeLeft
  PROVE  /\ atKey /\ fromLeaf /\ mergeInto(top.left, cur)
         /\ \E s : LeafPair(top.left, cur, s)
<1>1. ShapeInv /\ atKey /\ fromLeaf /\ mergeInto(top.left, cur)
  BY DEF KeptInv, EraseMergeLeft
<1>2. stack # <<>> /\ root # Null
  <2>1. pc = "erase" /\ isleafnode(cur) /\ descending
    BY <1>1 DEF atKey, descending
  <2>2. QED
    BY <1>1, <2>1, AtLeaf
<1>3. /\ Leaves' = Leaves /\ gone' = cur /\ LiveLeaves' = Leaves \ {cur} /\ cur \in Leaves
      /\ top.left \in Leaves /\ top.left # cur /\ hasParent /\ parentslot > 0
  BY <1>1, EraseMergeLeftShape
<1>4. /\ TypeOK /\ LinkedOnce /\ StackLeadsDown /\ \A n \in LiveInner : InnerFilled(n)
  BY <1>1 DEF ShapeInv, Tree, CallUnderWay
<1>5. /\ parent \in LiveInner /\ parent = above.node /\ parentslot = above.slot
      /\ parentslot \in 0 .. Len(heap[parent].slotkey)
      /\ cur = heap[parent].childid[parentslot + 1] /\ NearbyKnown(above, top)
  BY <1>2, <1>3, <1>4, CurrentNode
<1>6. Len(heap[parent].slotkey) \in Nat
  BY <1>4, <1>5, ChildNodes
<1>7. PICK s : s = parentslot
  OBVIOUS
<1>8. s \in 1 .. Len(heap[parent].slotkey)
  BY <1>3, <1>5, <1>6, <1>7
<1>9. top.left = heap[parent].childid[s]
  <2>1. top.left = child(parent, s - 1)
    BY <1>3, <1>5, <1>7 DEF NearbyKnown
  <2>2. s - 1 + 1 = s
    BY <1>6, <1>8
  <2>3. QED
    BY <2>1, <2>2 DEF child
<1>10. PairAt(top.left, cur, s)
  BY <1>5, <1>7, <1>8, <1>9 DEF PairAt
<1>11. LeafPair(top.left, cur, s)
  BY <1>1, <1>3, <1>10 DEF LeafPair, mergeInto
<1>12. QED
  BY <1>1, <1>11

\* The keys of the right leaf move to it.
LEMMA RightPair ==
  ASSUME KeptInv, EraseMergeRight
  PROVE  /\ atKey /\ fromLeaf /\ mergeInto(cur, top.right)
         /\ \E s : LeafPair(cur, top.right, s)
<1>1. ShapeInv /\ atKey /\ fromLeaf /\ mergeInto(cur, top.right)
  BY DEF KeptInv, EraseMergeRight
<1>2. stack # <<>> /\ root # Null
  <2>1. pc = "erase" /\ isleafnode(cur) /\ descending
    BY <1>1 DEF atKey, descending
  <2>2. QED
    BY <1>1, <2>1, AtLeaf
<1>3. /\ Leaves' = Leaves /\ gone' = top.right /\ LiveLeaves' = Leaves \ {top.right}
      /\ cur \in Leaves /\ top.right \in Leaves /\ top.right # cur /\ hasParent
      /\ parentslot < Len(heap[parent].slotkey)
  BY <1>1, EraseMergeRightShape
<1>4. /\ TypeOK /\ LinkedOnce /\ StackLeadsDown /\ \A n \in LiveInner : InnerFilled(n)
  BY <1>1 DEF ShapeInv, Tree, CallUnderWay
<1>5. /\ parent \in LiveInner /\ parent = above.node /\ parentslot = above.slot
      /\ parentslot \in 0 .. Len(heap[parent].slotkey)
      /\ cur = heap[parent].childid[parentslot + 1] /\ NearbyKnown(above, top)
  BY <1>2, <1>3, <1>4, CurrentNode
<1>6. Len(heap[parent].slotkey) \in Nat /\ slotuse(parent) = Len(heap[parent].slotkey)
  BY <1>4, <1>5, ChildNodes
<1>7. PICK s : s = parentslot + 1
  OBVIOUS
<1>8. s \in 1 .. Len(heap[parent].slotkey)
  BY <1>3, <1>5, <1>6, <1>7
<1>9. top.right = heap[parent].childid[s + 1]
  <2>1. top.right = child(parent, s)
    BY <1>3, <1>5, <1>6, <1>7 DEF NearbyKnown
  <2>2. QED
    BY <2>1 DEF child
<1>10. PairAt(cur, top.right, s)
  BY <1>5, <1>7, <1>8, <1>9 DEF PairAt
<1>11. LeafPair(cur, top.right, s)
  BY <1>1, <1>3, <1>10 DEF LeafPair, mergeInto
<1>12. QED
  BY <1>1, <1>11

\* Either way the leaves are a pair below the same parent.
LEMMA SomePair ==
  ASSUME KeptInv, EraseMergeLeft \/ EraseMergeRight
  PROVE  atKey /\ fromLeaf /\ \E l, r, s : mergeInto(l, r) /\ LeafPair(l, r, s) /\ cur \in {l, r}
<1>1. CASE EraseMergeLeft
  <2>1. cur \in {top.left, cur}
    OBVIOUS
  <2>2. QED
    BY <1>1, <2>1, LeftPair
<1>2. CASE EraseMergeRight
  <2>1. cur \in {cur, top.right}
    OBVIOUS
  <2>2. QED
    BY <1>2, <2>1, RightPair
<1>3. QED
  BY <1>1, <1>2

\* The keys of the leaves stay below the tree.
LEMMA MergeLeavesFound ==
  ASSUME KeptInv, NEW kin, Known(kin), EraseMergeLeft \/ EraseMergeRight, KeptInv'
  PROVE  FoundInv'
<1>1. atKey /\ fromLeaf
  BY SomePair
<1>2. PICK l, r, s : LeafPair(l, r, s)
  BY SomePair
<1>3. QED
  BY <1>1, <1>2, EraseMergeFound

-----------------------------------------------------------------------------
(* The emptied child leaves its node, and a separator follows the keys *)

\* The sequences are still of numbers when an element is taken out.
LEMMA TakenNumbers ==
  ASSUME NEW K, NEW c \in Nat, NEW C, NEW kin, NatUpTo(K, c), NatBelow(C, c + 1, kin),
         NEW s \in 1 .. c, NEW K2, NEW C2,
         TakenOut(K2, K, c, s), TakenOut(C2, C, c + 1, s + 1)
  PROVE  NatUpTo(K2, c - 1) /\ NatBelow(C2, c, kin)
<1>1. ASSUME NEW j \in 1 .. c - 1 PROVE K2[j] \in Nat
  <2>1. j \in 1 .. c /\ j + 1 \in 1 .. c /\ (j < s \/ j >= s)
    OBVIOUS
  <2>2. K2[j] = K[j] \/ K2[j] = K[j + 1]
    BY <2>1 DEF TakenOut
  <2>3. QED
    BY <2>1, <2>2 DEF NatUpTo
<1>2. ASSUME NEW i \in 1 .. c, NEW k \in kin[C2[i]] PROVE k \in Nat
  <2>1. i \in 1 .. c + 1 /\ i + 1 \in 1 .. c + 1 /\ i \in 1 .. c + 1 - 1
        /\ (i < s + 1 \/ i >= s + 1)
    OBVIOUS
  <2>2. C2[i] = C[i] \/ C2[i] = C[i + 1]
    BY <2>1 DEF TakenOut
  <2>3. QED
    BY <1>2, <2>1, <2>2 DEF NatBelow
<1>3. QED
  BY <1>1, <1>2 DEF NatUpTo, NatBelow

\* What is left of a node K, C, of c keys, whose child s + 1 leaves.
ChildGone(K, c, C, kin, s, K1, C2) ==
  /\ c \in Nat /\ s \in 1 .. c /\ NatUpTo(K, c) /\ NatBelow(C, c + 1, kin)
  /\ kin[C[s + 1]] = {}
  /\ TakenOut(K1, K, c, s) /\ TakenOut(C2, C, c + 1, s + 1)

\* What the separator of the child before it becomes.
Renewed(K1, c, s, x, K2) ==
  /\ \A j \in 1 .. c - 1 : j # s => K2[j] = K1[j]
  /\ s <= c - 1 => K2[s] = x \/ K2[s] = K1[s]

\* The node without the child.
LEMMA ChildDropped ==
  ASSUME NEW S, NEW K, NEW c, NEW C, NEW kin, NEW s, LedNode(S, K, c, C, kin, s, {}),
         NEW K1, NEW C2, ChildGone(K, c, C, kin, s, K1, C2),
         NEW x, x \in kin[C[s]], \A k \in kin[C[s]] : k <= x,
         s <= c - 1 => kin[C[s + 2]] # {},
         NEW K2, Renewed(K1, c, s, x, K2)
  PROVE  LedNode(S, K2, c - 1, C2, kin, 0, {})
<1>1. /\ c \in Nat /\ s \in 1 .. c /\ kin[C[s + 1]] = {}
      /\ NatUpTo(K, c) /\ NatBelow(C, c + 1, kin)
      /\ TakenOut(K1, K, c, s) /\ TakenOut(C2, C, c + 1, s + 1)
  BY DEF ChildGone
<1>2. LedNode(S, K1, c - 1, C2, kin, 0, {})
  BY <1>1, ChildLeaves
<1>3. NatUpTo(K1, c - 1) /\ NatBelow(C2, c, kin)
  BY <1>1, TakenNumbers
<1>4. PICK d : d = c - 1
  OBVIOUS
<1>5. d \in Nat /\ d + 1 = c
  BY <1>1, <1>4
<1>6. CASE s <= c - 1 /\ K2[s] = x
  <2>1. s \in 1 .. d /\ s \in 1 .. c + 1 - 1 /\ s + 1 \in 1 .. c + 1 - 1 /\ s < s + 1 /\ s + 1 >= s + 1
        /\ s + 1 + 1 = s + 2
    BY <1>1, <1>4, <1>6
  <2>2. C2[s] = C[s]
    BY <1>1, <2>1 DEF TakenOut
  <2>3. C2[s + 1] = C[s + 1 + 1]
    BY <1>1, <2>1 DEF TakenOut
  <2>4. kin[C2[s + 1]] # {}
    BY <1>6, <2>1, <2>3
  <2>5. \A j \in 1 .. d : j # s => K2[j] = K1[j]
    BY <1>4 DEF Renewed
  <2>6. Follows(K1, d, C2, kin, s, x, K2)
    BY <1>3, <1>4, <1>5, <1>6, <2>1, <2>2, <2>4, <2>5 DEF Follows
  <2>7. LedNode(S, K1, d, C2, kin, 0, {})
    BY <1>2, <1>4
  <2>8. LedNode(S, K2, d, C2, kin, 0, {})
    BY <2>6, <2>7, SeparatorFollows
  <2>9. QED
    BY <1>4, <2>8
<1>7. CASE ~(s <= c - 1 /\ K2[s] = x)
  <2>1. \A j \in 1 .. d : K2[j] = K1[j]
    <3>1. ASSUME NEW j \in 1 .. d PROVE K2[j] = K1[j]
      <4>1. CASE j # s
        BY <1>4, <4>1 DEF Renewed
      <4>2. CASE j = s
        <5>1. s <= c - 1
          BY <1>1, <1>4, <1>5, <4>2
        <5>2. QED
          BY <1>7, <4>2, <5>1 DEF Renewed
      <4>3. QED
        BY <4>1, <4>2
    <3>2. QED
      BY <3>1
  <2>2. LedNode(S, K1, d, C2, kin, 0, {})
    BY <1>2, <1>4
  <2>3. LedNode(S, K2, d, C2, kin, 0, {})
    BY <1>5, <2>1, <2>2 DEF LedNode, Covers, PartsBut
  <2>4. QED
    BY <1>4, <2>3
<1>8. QED
  BY <1>6, <1>7

\* The last key of the child that took the keys.
LEMMA LastOfTaker ==
  ASSUME ShapeInv, fixmerge, heap[cur].level = 1, NEW kin, KinType(kin), Under(kin),
         NEW n, n = heap[cur].childid[emptied]
  PROVE  Max(heap[n].items) \in kin[n] /\ \A k \in kin[n] : k <= Max(heap[n].items)
<1>1. n \in LiveLeaves
  BY EmptiedChild
<1>2. TypeOK /\ Tree
  BY DEF ShapeInv
<1>3. n \in Leaves /\ heap[n] \in LeafNodes
  BY <1>1, <1>2, NodeKinds, LiveNodes
<1>4. PICK D : D = heap[n].items
  OBVIOUS
<1>5. D \subseteq Keys /\ IsFiniteSet(D)
  BY <1>1, <1>2, <1>3, <1>4, LeafFields DEF Tree, LeafFilled
<1>6. D # {}
  <2>1. pc = "fix"
    BY EmptiedChild
  <2>2. QED
    BY <1>1, <1>2, <1>4, <2>1 DEF Tree, LeafFilled
<1>7. D \in SUBSET Nat
  BY <1>5, KeyTypes
<1>8. Max(D) \in D /\ \A k \in D : k <= Max(D)
  BY <1>5, <1>6, <1>7, MaxElement
<1>9. kin[n] = D
  BY <1>1, <1>4 DEF Under
<1>10. QED
  BY <1>4, <1>8, <1>9

\* The current node, rid of its emptied child.
LEMMA FixedNode ==
  ASSUME ShapeInv, Fix, fixmerge, NEW kin, KinType(kin), Under(kin), NEW S, S = kin[cur]
  PROVE  LedIn(heap', cur, S, kin, 0, {})
<1>1. pc = "fix" /\ stack # <<>>
  BY DEF Fix
<1>2. cur \in LiveInner /\ TypeOK /\ newchild = Null
  BY <1>1, AtInner, EmptiedChild
<1>3. PICK s : s = emptied
  OBVIOUS
<1>4. PICK K, c, C : KnownNode(cur, kin, K, c, C)
  BY <1>2, SomeNode
<1>5. /\ K = heap[cur].slotkey /\ C = heap[cur].childid /\ c = Len(K) /\ c \in Nat /\ Len(C) = c + 1
      /\ NatUpTo(K, c) /\ NatBelow(C, c + 1, kin)
  BY <1>4 DEF KnownNode
<1>6. s \in 1 .. c /\ gone = C[s + 1]
  BY <1>3, <1>5, EmptiedChild
<1>7. LedNode(S, K, c, C, kin, s, {})
  <2>1. NodeLed(cur, kin)
    BY <1>2 DEF Under
  <2>2. skippedAt(cur) = s /\ rising(cur, kin) = {}
    BY <1>2, <1>3 DEF skippedAt, rising
  <2>3. QED
    BY <1>5, <2>1, <2>2 DEF NodeLed, LedIn
<1>8. kin[C[s + 1]] = {}
  BY <1>6 DEF Under
<1>9. PICK K1, K2, C2 :
        /\ Dropped(heap', setLastkey, cur, emptied, K1, K2, C2)
        /\ Removed(K1, heap[cur].slotkey, emptied) /\ Removed(C2, heap[cur].childid, emptied + 1)
        /\ heap'[cur] = InnerNode(heap[cur].level, K2, C2)
        /\ Len(K2) = Len(heap[cur].slotkey) - 1
  BY FixHeap
<1>10. heap'[cur].slotkey = K2 /\ heap'[cur].childid = C2 /\ Len(K2) = c - 1
  BY <1>5, <1>9, GivenFields
<1>11. TakenOut(K1, K, c, s) /\ Len(K1) = c - 1
  <2>1. Removed(K1, K, s)
    BY <1>3, <1>5, <1>9
  <2>2. \A j \in 1 .. c - 1 : (j >= s <=> ~(j < s))
    BY <1>6
  <2>3. QED
    BY <1>5, <2>1, <2>2 DEF Removed, TakenOut
<1>12. TakenOut(C2, C, c + 1, s + 1)
  <2>1. Removed(C2, C, s + 1)
    BY <1>3, <1>5, <1>9
  <2>2. \A j \in 1 .. c + 1 - 1 : (j >= s + 1 <=> ~(j < s + 1))
    BY <1>6
  <2>3. QED
    BY <1>5, <2>1, <2>2 DEF Removed, TakenOut
<1>13. setLastkey[cur] = heap[cur] /\ \A n \in Leaves : setLastkey[n] = heap[n]
  BY <1>1, LastkeySet
<1>14. LedNode(S, K2, c - 1, C2, kin, 0, {})
  <2>1. CASE heap[cur].level = 1
    <3>1. PICK n, x : n = C[s] /\ x = Max(heap[n].items)
      OBVIOUS
    <3>2. n = heap[cur].childid[emptied]
      BY <1>3, <1>5, <3>1
    <3>3. x \in kin[C[s]] /\ \A k \in kin[C[s]] : k <= x
      BY <2>1, <3>1, <3>2, LastOfTaker
    <3>4. n \in Leaves
      <4>1. n \in LiveLeaves
        BY <2>1, <3>2, EmptiedChild
      <4>2. QED
        BY <4>1 DEF LiveLeaves
    <3>5. K2 = IF s <= Len(K1) THEN [K1 EXCEPT ![s] = x] ELSE K1
      <4>1. K2 = IF setLastkey[cur].level = 1 /\ emptied <= Len(K1)
              THEN [K1 EXCEPT ![emptied] = Max(setLastkey[setLastkey[cur].childid[emptied]].items)]
              ELSE K1
        BY <1>9 DEF Dropped
      <4>2. setLastkey[setLastkey[cur].childid[emptied]] = heap[n]
        BY <1>13, <3>2, <3>4
      <4>3. QED
        BY <1>3, <1>13, <2>1, <3>1, <4>1, <4>2
    <3>6. K1 \in Seq(Keys)
      BY <1>9 DEF Dropped
    <3>7. PICK d : d = Len(K1)
      OBVIOUS
    <3>8. DOMAIN K1 = 1 .. d /\ d = c - 1
      BY <1>11, <3>6, <3>7
    <3>9. Renewed(K1, c, s, x, K2)
      <4>1. \A j \in 1 .. d : j # s => K2[j] = K1[j]
        BY <3>5, <3>7, <3>8
      <4>2. s <= d => s \in DOMAIN K1
        BY <1>5, <1>6, <3>8
      <4>3. s <= d => K2[s] = x
        BY <3>5, <3>7, <4>2
      <4>4. QED
        BY <3>8, <4>1, <4>3 DEF Renewed
    <3>10. ChildGone(K, c, C, kin, s, K1, C2)
      BY <1>5, <1>6, <1>8, <1>11, <1>12 DEF ChildGone
    <3>11. s <= c - 1 => kin[C[s + 2]] # {}
      <4>1. ASSUME s <= c - 1 PROVE kin[C[s + 2]] # {}
        <5>1. s + 1 \in 1 .. c + 1 /\ s + 2 \in 1 .. c + 1 /\ s + 1 # s + 2
          BY <1>5, <1>6, <4>1
        <5>2. C[s + 2] # gone
          BY <1>4, <1>6, <5>1 DEF KnownNode
        <5>3. QED
          BY <1>4, <5>1, <5>2 DEF KnownNode
      <4>2. QED
        BY <4>1
    <3>12. QED
      BY <1>7, <3>3, <3>9, <3>10, <3>11, ChildDropped
  <2>2. CASE heap[cur].level # 1
    <3>1. K2 = K1
      BY <1>9, <1>13, <2>2 DEF Dropped
    <3>2. LedNode(S, K1, c - 1, C2, kin, 0, {})
      BY <1>5, <1>6, <1>7, <1>8, <1>11, <1>12, ChildLeaves
    <3>3. QED
      BY <3>1, <3>2
  <2>3. QED
    BY <2>1, <2>2
<1>15. QED
  BY <1>10, <1>14 DEF LedIn

\* The key above the current node is the last one below it.
LEMMA LastkeyFollows ==
  ASSUME ShapeInv, pc = "fix", stack # <<>>, lastkey # Null, keyAbove,
         NEW kin, KinType(kin), Under(kin), LastkeyKnown(kin),
         NEW S, S = kin[parent], NEW h, h = setLastkey
  PROVE  LedIn(h, parent, S, kin, 0, {})
<1>1. /\ TypeOK /\ LinkedOnce /\ StackLeadsDown /\ root # Null /\ \A n \in LiveInner : InnerFilled(n)
      /\ newchild = Null
  BY PlainPc DEF ShapeInv, Tree, CallUnderWay
<1>2. hasParent
  BY DEF keyAbove
<1>3. /\ parent \in LiveInner /\ parentslot \in 0 .. Len(heap[parent].slotkey)
      /\ parent # cur /\ cur = heap[parent].childid[parentslot + 1]
      /\ parent \in DOMAIN heap /\ heap[parent].level = heap[cur].level + 1
      /\ heap[cur].level \in Nat
  BY <1>1, <1>2, CurrentNode
<1>4. slotuse(parent) = Len(heap[parent].slotkey) /\ parent \in Inner
  BY <1>1, <1>3, ChildNodes, LiveNodes
<1>5. PICK K, c, C : KnownNode(parent, kin, K, c, C)
  BY <1>3, SomeNode
<1>6. /\ K = heap[parent].slotkey /\ C = heap[parent].childid /\ c = Len(K) /\ c \in Nat
      /\ NatUpTo(K, c) /\ NatBelow(C, c + 1, kin) /\ K \in Seq(Keys)
  BY <1>5 DEF KnownNode
<1>7. PICK s : s = parentslot + 1
  OBVIOUS
<1>8. s \in 1 .. c /\ s + 1 \in 1 .. c + 1 /\ C[s] = cur
  BY <1>3, <1>4, <1>6, <1>7 DEF keyAbove
<1>9. /\ h[parent].childid = C /\ Len(h[parent].slotkey) = c
      /\ h[parent].slotkey = [K EXCEPT ![s] = lastkey]
  BY <1>4, <1>6, <1>7, LastkeySet
<1>10. lastkey \in kin[C[s]] /\ \A k \in kin[C[s]] : k <= lastkey
  BY <1>8 DEF LastkeyKnown
<1>11. kin[C[s + 1]] # {}
  <2>1. heap[C[s + 1]].level + 1 = heap[parent].level /\ C[s + 1] \in DOMAIN heap
        /\ heap[C[s + 1]].level \in Nat
    BY <1>5, <1>8 DEF KnownNode
  <2>2. C[s + 1] # gone
    <3>1. CASE fixmerge
      <4>1. heap[gone].level < heap[cur].level /\ heap[gone].level \in Nat
        BY <3>1, EmptiedChild
      <4>2. heap[C[s + 1]].level = heap[cur].level
        BY <1>3, <2>1
      <4>3. QED
        BY <1>3, <4>1, <4>2
    <3>2. CASE ~fixmerge
      <4>1. Null \notin DOMAIN heap
        BY <1>1, NodeKinds
      <4>2. QED
        BY <2>1, <3>2, <4>1 DEF gone
    <3>3. QED
      BY <3>1, <3>2
  <2>3. QED
    BY <1>5, <1>8, <2>2 DEF KnownNode
<1>12. PICK K2 : K2 = [K EXCEPT ![s] = lastkey]
  OBVIOUS
<1>13. K2[s] = lastkey /\ \A j \in 1 .. c : j # s => K2[j] = K[j]
  <2>1. DOMAIN K = 1 .. c
    BY <1>6
  <2>2. QED
    BY <1>8, <1>12, <2>1
<1>14. PICK x : x = lastkey
  OBVIOUS
<1>15. Follows(K, c, C, kin, s, x, K2)
  BY <1>6, <1>8, <1>10, <1>11, <1>13, <1>14 DEF Follows
<1>16. LedNode(S, K, c, C, kin, 0, {})
  <2>1. NodeLed(parent, kin)
    BY <1>3 DEF Under
  <2>2. skippedAt(parent) = 0 /\ rising(parent, kin) = {}
    BY <1>1, <1>3 DEF skippedAt, rising
  <2>3. QED
    BY <1>6, <2>1, <2>2 DEF NodeLed, LedIn
<1>17. LedNode(S, K2, c, C, kin, 0, {})
  BY <1>15, <1>16, SeparatorFollows
<1>18. QED
  BY <1>9, <1>12, <1>17 DEF LedIn

\* The other nodes are those with the key set.
LEMMA FixOthers ==
  ASSUME ShapeInv, Fix, NEW p \in LiveInner, p # cur \/ ~fixmerge
  PROVE  heap'[p] = setLastkey[p]
<1>1. CASE ~fixmerge
  BY <1>1 DEF Fix
<1>2. CASE fixmerge
  <2>1. p # cur
    BY <1>2
  <2>2. PICK K1, K2, C2 : Dropped(heap', setLastkey, cur, emptied, K1, K2, C2)
    BY <1>2, FixHeap
  <2>3. DOMAIN heap' = Live
    BY FixEffect
  <2>4. p \in DOMAIN heap'
    <3>1. TypeOK
      BY DEF ShapeInv
    <3>2. QED
      BY <2>3, <3>1, LiveNodes
  <2>5. QED
    BY <2>1, <2>2, <2>4 DEF Dropped
<1>3. QED
  BY <1>1, <1>2

\* The child that a merge has emptied leaves its parent.
LEMMA FixFound ==
  ASSUME KeptInv, NEW kin, Known(kin), Fix, KeptInv'
  PROVE  FoundInv'
<1>1. ShapeInv /\ TypeOK /\ Tree
  BY DEF KeptInv, ShapeInv
<1>2. /\ pc = "fix" /\ stack # <<>> /\ pc' = "balance" /\ stack' = stack
      /\ UNCHANGED <<root, head, tail, key, newkey, newchild, stored>>
      /\ lastkey' = (IF keyAbove THEN Null ELSE lastkey) /\ fixmerge' = FALSE
  BY DEF Fix, split
<1>3. /\ cur \in LiveInner /\ root # Null /\ StackLeadsDown /\ LinkedOnce /\ cur \in DOMAIN heap
      /\ newchild = Null
  <2>1. CallUnderWay
    BY <1>1 DEF ShapeInv
  <2>2. newchild = Null
    BY <1>2, <2>1, PlainPc
  <2>3. QED
    BY <1>1, <1>2, <2>2, AtInner
<1>4. /\ DOMAIN heap' = Live /\ gone' = Null
      /\ LiveInner' = LiveInner /\ LiveLeaves' = LiveLeaves /\ Live' = Live
      /\ \A n \in LiveLeaves : heap'[n] = heap[n]
      /\ \A n \in LiveInner : n # cur => Alike(n)
  BY <1>1, FixEffect
<1>5. KinType(kin) /\ Under(kin) /\ LastkeyKnown(kin)
  BY DEF Known
<1>6. ASSUME NEW p \in LiveInner PROVE NodeLed(p, kin)'
  <2>1. PICK S : S = kin[p]
    OBVIOUS
  <2>2. LedIn(heap', p, S, kin, 0, {})
    <3>1. CASE p = cur /\ fixmerge
      BY <1>1, <1>5, <2>1, <3>1, FixedNode
    <3>2. CASE p # cur \/ ~fixmerge
      <4>1. heap'[p] = setLastkey[p]
        BY <1>1, <3>2, FixOthers
      <4>2. CASE p = parent /\ lastkey # Null /\ keyAbove
        <5>1. PICK h : h = setLastkey
          OBVIOUS
        <5>2. LedIn(h, parent, S, kin, 0, {})
          BY <1>1, <1>2, <1>5, <2>1, <4>2, <5>1, LastkeyFollows
        <5>3. heap'[p] = h[p]
          BY <4>1, <5>1
        <5>4. QED
          BY <4>2, <5>2, <5>3 DEF LedIn
      <4>3. CASE ~(p = parent /\ lastkey # Null /\ keyAbove)
        <5>1. setLastkey[p] = heap[p]
          <6>1. p \in Inner
            BY <1>1, LiveNodes
          <6>2. QED
            BY <1>1, <1>2, <4>3, <6>1, LastkeySet
        <5>2. NodeLed(p, kin)
          BY <1>5 DEF Under
        <5>3. skippedAt(p) = 0 /\ rising(p, kin) = {}
          BY <1>3, <3>2 DEF skippedAt, rising
        <5>4. heap'[p] = heap[p]
          BY <4>1, <5>1
        <5>5. QED
          BY <2>1, <5>2, <5>3, <5>4 DEF NodeLed, LedIn
      <4>4. QED
        BY <4>2, <4>3
    <3>3. QED
      BY <3>1, <3>2
  <2>3. skippedAt(p)' = 0 /\ rising(p, kin)' = {}
    BY <1>2, <1>3 DEF skippedAt, rising
  <2>4. QED
    BY <2>1, <2>2, <2>3 DEF NodeLed
<1>7. present' = present
  BY <1>2 DEF present
<1>8. ~rootSplit /\ ~rootSplit'
  BY <1>2, <1>3 DEF rootSplit
<1>9. Under(kin)'
  <2>1. \A n \in LiveLeaves' : kin[n] = heap'[n].items
    BY <1>4, <1>5 DEF Under
  <2>2. \A n \in Live' : kin[n] # {} \/ (n = root' /\ pc' = "insert")
    BY <1>2, <1>4, <1>5 DEF Under
  <2>3. root' # Null => present' = kin[root'] \cup (IF rootSplit' THEN kin[newchild'] ELSE {})
    BY <1>2, <1>5, <1>7, <1>8 DEF Under
  <2>4. \A p \in LiveInner' : NodeLed(p, kin)'
    BY <1>4, <1>6
  <2>5. QED
    BY <1>2, <2>1, <2>2, <2>3, <2>4 DEF Under
<1>10. LastkeyKnown(kin)'
  <2>1. ASSUME lastkey' # Null
        PROVE  /\ stack' # <<>> => lastkey' \in kin[cur'] /\ \A k \in kin[cur'] : k <= lastkey'
               /\ pc' = "balance" => ~keyAbove'
    <3>1. ~keyAbove /\ lastkey' = lastkey /\ lastkey # Null
      BY <1>2, <2>1
    <3>2. lastkey \in kin[cur] /\ \A k \in kin[cur] : k <= lastkey
      BY <1>2, <1>5, <3>1 DEF LastkeyKnown
    <3>3. cur' = cur
      BY <1>2 DEF cur, top
    <3>4. hasParent' = hasParent /\ parent' = parent /\ parentslot' = parentslot
      BY <1>2 DEF hasParent, parent, parentslot, above
    <3>5. CASE hasParent
      <4>1. \A n \in LiveInner : InnerFilled(n)
        BY <1>1 DEF Tree
      <4>2. parent \in LiveInner /\ parent # cur
        BY <1>1, <1>2, <1>3, <3>5, <4>1, CurrentNode
      <4>3. Alike(parent)
        BY <1>4, <4>2
      <4>4. heap[parent].level # 0
        BY <1>1, <4>2, Levels, LiveNodes
      <4>5. slotuse(parent) = Len(heap[parent].slotkey)
        BY <1>1, <1>3, <4>1, <4>2, ChildNodes
      <4>6. slotuse(parent)' = Len(heap[parent].slotkey)
        BY <3>4, <4>3, <4>4 DEF slotuse, slotuseIn, Alike
      <4>7. keyAbove' <=> keyAbove
        BY <3>4, <4>5, <4>6 DEF keyAbove
      <4>8. QED
        BY <3>1, <3>2, <3>3, <4>7
    <3>6. CASE ~hasParent
      <4>1. ~keyAbove'
        BY <3>4, <3>6 DEF keyAbove
      <4>2. QED
        BY <3>1, <3>2, <3>3, <4>1
    <3>7. QED
      BY <3>5, <3>6
  <2>2. QED
    BY <1>2, <2>1 DEF LastkeyKnown
<1>11. RightWay'
  BY <1>2 DEF RightWay, descending
<1>12. SplitParted(kin)'
  BY <1>2, <1>3, NoneRising
<1>13. QED
  BY <1>5, <1>9, <1>10, <1>11, <1>12, FoundNext

-----------------------------------------------------------------------------
(* Inner nodes are merged and balanced *)

\* A node K, C that leads to the keys S, each of its children to some.
LedFully(S, K, c, C, kin) ==
  /\ LedNode(S, K, c, C, kin, 0, {}) /\ c \in Nat
  /\ NatUpTo(K, c) /\ NatBelow(C, c + 1, kin) /\ SomeBelow(C, c + 1, kin)

\* The keys below node p, and its own.
FieldsOf(p, S, K, c, C, kin) ==
  S = kin[p] /\ K = heap[p].slotkey /\ C = heap[p].childid /\ c = Len(K)

\* While nodes are balanced, all of them are such nodes.
LEMMA NodeLeadsFully ==
  ASSUME ShapeInv, pc = "balance", NEW kin, KinType(kin), Under(kin), NEW p \in Inner,
         NEW S, NEW K, NEW c, NEW C, FieldsOf(p, S, K, c, C, kin)
  PROVE  LedFully(S, K, c, C, kin)
<1>0. S = kin[p] /\ K = heap[p].slotkey /\ C = heap[p].childid /\ c = Len(K)
  BY DEF FieldsOf
<1>1. /\ gone = Null /\ ~fixmerge /\ newchild = Null /\ p \in LiveInner /\ TypeOK
  BY AtBalance DEF ShapeInv
<1>2. KnownNode(p, kin, K, c, C)
  <2>1. PICK K0, c0, C0 : KnownNode(p, kin, K0, c0, C0)
    BY <1>1, SomeNode
  <2>2. K0 = K /\ C0 = C /\ c0 = c
    BY <1>0, <2>1 DEF KnownNode
  <2>3. QED
    BY <2>1, <2>2
<1>3. LedIn(heap, p, kin[p], kin, 0, {})
  BY <1>1, PlainNode
<1>4. LedNode(S, K, c, C, kin, 0, {})
  BY <1>0, <1>3 DEF LedIn
<1>5. SomeBelow(C, c + 1, kin)
  <2>1. Null \notin DOMAIN heap
    BY <1>1, NodeKinds
  <2>2. \A i \in 1 .. c + 1 : C[i] # gone
    BY <1>1, <1>2, <2>1 DEF KnownNode
  <2>3. QED
    BY <1>2, <2>2 DEF KnownNode, SomeBelow
<1>6. c \in Nat /\ NatUpTo(K, c) /\ NatBelow(C, c + 1, kin)
  BY <1>2 DEF KnownNode
<1>7. QED
  BY <1>4, <1>5, <1>6 DEF LedFully

\* The separator x between two children with the keys A and B.
Between(A, x, B) ==
  /\ x \in Nat /\ A # {} /\ B # {}
  /\ \A k \in A : k \in Nat /\ k <= x
  /\ \A k \in B : k \in Nat /\ x < k

\* Every separator is one.
LEMMA SeparatorBetween ==
  ASSUME NEW S, NEW K, NEW c, NEW C, NEW kin, LedFully(S, K, c, C, kin),
         NEW i, i \in 1 .. c
  PROVE  Between(kin[C[i]], K[i], kin[C[i + 1]])
<1>1. LedNode(S, K, c, C, kin, 0, {}) /\ c \in Nat
  BY DEF LedFully
<1>2. NatUpTo(K, c) /\ NatBelow(C, c + 1, kin) /\ SomeBelow(C, c + 1, kin)
  BY DEF LedFully
<1>3. i \in 1 .. c + 1 /\ i + 1 \in 1 .. c + 1 /\ i < i + 1 /\ ~(i < i) /\ i # 0
  BY <1>1
<1>4. K[i] \in Nat /\ kin[C[i]] # {} /\ kin[C[i + 1]] # {}
  BY <1>2, <1>3 DEF NatUpTo, SomeBelow
<1>5. /\ \A k \in kin[C[i]] : k \in Nat
      /\ \A k \in kin[C[i + 1]] : k \in Nat
  BY <1>2, <1>3 DEF NatBelow
<1>6. ASSUME NEW k \in kin[C[i]] PROVE k <= K[i]
  <2>1. ~(K[i] < k)
    BY <1>1, <1>3, <1>6 DEF LedNode, PartsBut
  <2>2. k \in Nat
    BY <1>5, <1>6
  <2>3. QED
    BY <1>4, <2>1, <2>2
<1>7. ASSUME NEW k \in kin[C[i + 1]] PROVE K[i] < k
  BY <1>1, <1>3, <1>7 DEF LedNode, PartsBut
<1>8. QED
  BY <1>4, <1>5, <1>6, <1>7 DEF Between

\* Two nodes joined around the separator.
Joining(A, LK, m, LC, B, RK, n, RC, x, kin, K, C) ==
  /\ LedFully(A, LK, m, LC, kin) /\ LedFully(B, RK, n, RC, kin) /\ Between(A, x, B)
  /\ GluedKeys(K, LK, m, x, RK, n) /\ GluedChildren(C, LC, m + 1, RC, n + 1)

\* They are a node over the keys of both.
LEMMA JoinedNodes ==
  ASSUME NEW A, NEW LK, NEW m, NEW LC, NEW B, NEW RK, NEW n, NEW RC, NEW x, NEW kin, NEW K, NEW C,
         Joining(A, LK, m, LC, B, RK, n, RC, x, kin, K, C)
  PROVE  LedNode(A \cup B, K, m + 1 + n, C, kin, 0, {})
<1>1. /\ LedNode(A, LK, m, LC, kin, 0, {}) /\ m \in Nat
      /\ NatUpTo(LK, m) /\ NatBelow(LC, m + 1, kin) /\ SomeBelow(LC, m + 1, kin)
  BY DEF Joining, LedFully
<1>2. /\ LedNode(B, RK, n, RC, kin, 0, {}) /\ n \in Nat
      /\ NatUpTo(RK, n) /\ NatBelow(RC, n + 1, kin) /\ SomeBelow(RC, n + 1, kin)
  BY DEF Joining, LedFully
<1>3. GluedKeys(K, LK, m, x, RK, n) /\ GluedChildren(C, LC, m + 1, RC, n + 1) /\ x \in Nat
  BY DEF Joining, Between
<1>4. \A k \in A : k <= x
  BY DEF Joining, Between
<1>5. \A k \in B : x < k
  BY DEF Joining, Between
<1>6. QED
  BY <1>1, <1>2, <1>3, <1>4, <1>5, NodesJoin

\* The nodes beside each other, and the one above.
LEMMA JoiningBeside ==
  ASSUME ShapeInv, pc = "balance", underflow, ~onlyNode, NEW kin, KinType(kin), Under(kin),
         NEW l, NEW r, NEW s, NEW o, BesideIt(l, r, s, o), NEW x, x = heap[parent].slotkey[s + 1],
         NEW LK, LK = heap[l].slotkey, NEW LC, LC = heap[l].childid, NEW m, m = Len(LK),
         NEW RK, RK = heap[r].slotkey, NEW RC, RC = heap[r].childid, NEW n, n = Len(RK),
         NEW A, A = kin[l], NEW B, B = kin[r],
         NEW K, GluedKeys(K, LK, m, x, RK, n), NEW C, GluedChildren(C, LC, m + 1, RC, n + 1)
  PROVE  Joining(A, LK, m, LC, B, RK, n, RC, x, kin, K, C)
<1>1. /\ o \in Inner /\ ((l = o /\ r = cur) \/ (l = cur /\ r = o))
      /\ s \in Nat /\ s + 1 \in 1 .. Len(heap[parent].slotkey)
      /\ l = heap[parent].childid[s + 1] /\ r = heap[parent].childid[s + 2]
      /\ parent \in Inner
  BY BesideNodes
<1>2. cur \in Inner
  <2>1. stack # <<>>
    BY AtBalance
  <2>2. QED
    BY <2>1, AtInner
<1>3. l \in Inner /\ r \in Inner
  BY <1>1, <1>2
<1>4. LedFully(A, LK, m, LC, kin)
  <2>1. FieldsOf(l, A, LK, m, LC, kin)
    BY DEF FieldsOf
  <2>2. QED
    BY <1>3, <2>1, NodeLeadsFully
<1>5. LedFully(B, RK, n, RC, kin)
  <2>1. FieldsOf(r, B, RK, n, RC, kin)
    BY DEF FieldsOf
  <2>2. QED
    BY <1>3, <2>1, NodeLeadsFully
<1>6. Between(A, x, B)
  <2>1. PICK S, PK, PC, c, i : /\ S = kin[parent] /\ PK = heap[parent].slotkey
                               /\ PC = heap[parent].childid /\ c = Len(PK) /\ i = s + 1
    OBVIOUS
  <2>2. LedFully(S, PK, c, PC, kin)
    <3>1. FieldsOf(parent, S, PK, c, PC, kin)
      BY <2>1 DEF FieldsOf
    <3>2. QED
      BY <1>1, <3>1, NodeLeadsFully
  <2>3. i \in 1 .. c
    BY <1>1, <2>1
  <2>4. Between(kin[PC[i]], PK[i], kin[PC[i + 1]])
    BY <2>2, <2>3, SeparatorBetween
  <2>5. PC[i] = l /\ PC[i + 1] = r /\ PK[i] = x
    <3>1. i + 1 = s + 2
      <4>1. s \in Nat /\ i = s + 1
        BY <1>1, <2>1
      <4>2. QED
        BY <4>1
    <3>2. QED
      BY <1>1, <2>1, <3>1
  <2>6. QED
    BY <2>4, <2>5
<1>7. QED
  BY <1>4, <1>5, <1>6 DEF Joining

\* What a step that balances a node leaves to be shown.
NodesBalanced(kin, kin2) ==
  /\ KinType(kin2)
  /\ \A p \in LiveInner' : NodeLed(p, kin2)'
  /\ \A n \in LiveLeaves' : kin2[n] = heap'[n].items
  /\ \A n \in Live' : kin2[n] # {}
  /\ fixmerge' => kin2[gone'] = {}
  /\ kin2[root] = kin[root]
  /\ hasParent => kin2[parent] = kin[parent]

\* It suffices for the invariant.
LEMMA NodesBalancedFound ==
  ASSUME KeptInv, KeptInv', pc = "balance", fromInner, root' = root, lastkey' = lastkey,
         NEW kin, Known(kin), NEW kin2, NodesBalanced(kin, kin2)
  PROVE  FoundInv'
<1>1. ShapeInv /\ KinType(kin) /\ Under(kin) /\ LastkeyKnown(kin)
  BY DEF KeptInv, Known
<1>2. pc' = "fix" /\ stored' = stored /\ key' = key /\ newchild' = newchild
  BY DEF fromInner, split
<1>3. newchild = Null
  BY <1>1, AtBalance
<1>4. KinType(kin2)
  BY DEF NodesBalanced
<1>5. present' = present
  BY <1>2 DEF present
<1>6. ~rootSplit /\ ~rootSplit'
  BY <1>2, <1>3 DEF rootSplit
<1>7. Under(kin2)'
  <2>1. root' # Null => present' = kin2[root'] \cup (IF rootSplit' THEN kin2[newchild'] ELSE {})
    BY <1>1, <1>5, <1>6 DEF Under, NodesBalanced
  <2>2. \A n \in Live' : kin2[n] # {}
    BY DEF NodesBalanced
  <2>3. \A p \in LiveInner' : NodeLed(p, kin2)'
    BY DEF NodesBalanced
  <2>4. (\A n \in LiveLeaves' : kin2[n] = heap'[n].items) /\ (fixmerge' => kin2[gone'] = {})
    BY DEF NodesBalanced
  <2>5. QED
    BY <2>1, <2>2, <2>3, <2>4 DEF Under
<1>8. LastkeyKnown(kin2)'
  <2>1. hasParent => kin2[parent] = kin[parent]
    BY DEF NodesBalanced
  <2>2. QED
    BY <1>1, <2>1, LastkeyAbove
<1>9. RightWay'
  BY <1>2 DEF RightWay, descending
<1>10. SplitParted(kin2)'
  BY <1>2, <1>3, NoneRising
<1>11. QED
  BY <1>4, <1>7, <1>8, <1>9, <1>10, FoundNext

\* The keys of the node that takes the others.
LEMMA JoinedLed ==
  ASSUME ShapeInv, pc = "balance", underflow, ~onlyNode, NEW kin, KinType(kin), Under(kin),
         NEW l, NEW r, NEW s, NEW o, BesideIt(l, r, s, o),
         NEW K, NEW C, NodesMerged(l, r, s, o, K, C)
  PROVE  LedIn(heap', l, kin[l] \cup kin[r], kin, 0, {})
<1>1. PICK LK, LC, m, RK, RC, n, x, A, B :
        /\ LK = heap[l].slotkey /\ LC = heap[l].childid /\ m = Len(LK)
        /\ RK = heap[r].slotkey /\ RC = heap[r].childid /\ n = Len(RK)
        /\ x = heap[parent].slotkey[s + 1] /\ A = kin[l] /\ B = kin[r]
  OBVIOUS
<1>2. /\ l \in Inner /\ r \in Inner
  <2>1. /\ o \in Inner /\ ((l = o /\ r = cur) \/ (l = cur /\ r = o))
    BY BesideNodes
  <2>2. stack # <<>>
    BY AtBalance
  <2>3. cur \in Inner
    BY <2>2, AtInner
  <2>4. QED
    BY <2>1, <2>3
<1>3. Len(LC) = m + 1 /\ Len(RC) = n + 1
  <2>1. InnerFilled(l) /\ InnerFilled(r)
    BY <1>2, AtBalance
  <2>2. QED
    BY <1>1, <2>1 DEF InnerFilled
<1>4. InnerMerge(heap', heap, l, r, x, K, C)
  BY <1>1 DEF NodesMerged
<1>5. GluedKeys(K, LK, m, x, RK, n) /\ GluedChildren(C, LC, m + 1, RC, n + 1)
      /\ Len(K) = m + 1 + n /\ heap'[l] = InnerNode(heap[l].level, K, C)
  BY <1>1, <1>3, <1>4 DEF InnerMerge
<1>6. Joining(A, LK, m, LC, B, RK, n, RC, x, kin, K, C)
  BY <1>1, <1>5, JoiningBeside
<1>7. LedNode(A \cup B, K, m + 1 + n, C, kin, 0, {})
  BY <1>6, JoinedNodes
<1>8. heap'[l].slotkey = K /\ heap'[l].childid = C
  BY <1>5, GivenFields
<1>9. QED
  BY <1>1, <1>5, <1>7, <1>8 DEF LedIn

\* An inner node with few keys and its neighbour become one.
LEMMA MergeIntoFound ==
  ASSUME KeptInv, KeptInv', pc = "balance", underflow, ~onlyNode, fromInner, fixmerge' = TRUE,
         UNCHANGED <<root, stats, lastkey>>, NEW kin, Known(kin),
         NEW l, NEW r, NEW s, NEW o, BesideIt(l, r, s, o), isfew(o),
         heap' = merge_inner(l, r, parent, s)
  PROVE  FoundInv'
<1>1. ShapeInv /\ KinType(kin) /\ Under(kin) /\ TypeOK /\ LinkedOnce
  BY DEF KeptInv, Known, ShapeInv, Tree
<1>2. /\ LiveInner = Inner /\ LiveLeaves = Leaves /\ Live = DOMAIN heap /\ newchild = Null /\ ~fixmerge
      /\ \A n \in Inner : InnerFilled(n)
  BY <1>1, AtBalance
<1>3. newchild' = Null
  BY <1>2 DEF fromInner, split
<1>4. /\ o \in Inner /\ ((l = o /\ r = cur) \/ (l = cur /\ r = o)) /\ l # r
      /\ cur # root /\ o # root /\ o # parent /\ cur # parent
      /\ heap[o].level = heap[cur].level
      /\ s \in Nat /\ s + 1 \in 1 .. Len(heap[parent].slotkey)
      /\ l = heap[parent].childid[s + 1] /\ r = heap[parent].childid[s + 2]
      /\ parent \in Inner
  BY <1>1, BesideNodes
<1>5. cur \in Inner /\ root # Null
  <2>1. stack # <<>>
    BY <1>1, AtBalance
  <2>2. QED
    BY <1>1, <2>1, AtInner
<1>6. /\ l \in Inner /\ r \in Inner /\ l # root /\ r # root /\ l # parent /\ r # parent
      /\ heap[l].level = heap[r].level
  BY <1>4, <1>5
<1>7. /\ \A n \in Inner : n \in DOMAIN heap /\ n \in Nodes /\ n \notin Leaves
      /\ \A n \in Leaves : n \in DOMAIN heap /\ n \in Nodes /\ n \notin Inner
      /\ Leaves \cup Inner = DOMAIN heap /\ root \in DOMAIN heap
      /\ DOMAIN heap \subseteq Nodes
  BY <1>1, <1>5, NodeKinds DEF TypeOK
<1>8. PICK K, C : NodesMerged(l, r, s, o, K, C)
  BY <1>1, MergeInnerHeap
<1>9. /\ gone' = r /\ emptied' = s + 1 /\ cur' = parent
      /\ \A n \in DOMAIN heap : n # l /\ n # r => heap'[n] = heap[n]
      /\ LiveInner' = Inner \ {r} /\ LiveLeaves' = Leaves /\ Live' = DOMAIN heap \ {r}
      /\ \A n \in DOMAIN heap : heap'[n].level = heap[n].level
      /\ heap'[l] = InnerNode(heap[l].level, K, C)
  BY <1>8 DEF NodesMerged
<1>10. PICK kin2 : kin2 = leftKin(kin, l, r)
  OBVIOUS
<1>11. KinType(kin2) /\ KeysMerged(kin, kin2, l, r)
  <2>1. l \in Nodes /\ r \in Nodes /\ l # r /\ KinType(kin)
    BY <1>1, <1>4, <1>6, <1>7
  <2>2. QED
    BY <1>10, <2>1, KeysJoined
<1>12. /\ kin2[l] = kin[l] \cup kin[r] /\ kin2[r] = {}
       /\ \A n \in DOMAIN heap : n # l /\ n # r => kin2[n] = kin[n]
  BY <1>7, <1>11 DEF KeysMerged
<1>13. ASSUME NEW p \in LiveInner' PROVE rising(p, kin2)' = {} /\ p \in Inner /\ p # r
                                        /\ skippedAt(p)' = IF p = parent THEN s + 1 ELSE 0
  BY <1>3, <1>9 DEF rising, skippedAt
<1>14. NodeLed(l, kin2)'
  <2>1. PICK S : S = kin[l] \cup kin[r]
    OBVIOUS
  <2>2. LedIn(heap', l, S, kin, 0, {})
    BY <1>1, <1>8, <2>1, JoinedLed
  <2>3. PICK c : c = Len(K)
    OBVIOUS
  <2>4. c \in Nat /\ Len(C) = c + 1
    BY <1>8, <2>3 DEF NodesMerged
  <2>5. heap'[l].slotkey = K /\ heap'[l].childid = C
    BY <1>9, GivenFields
  <2>6. LedNode(S, K, c, C, kin, 0, {})
    BY <2>2, <2>3, <2>5 DEF LedIn
  <2>7. \A i \in 1 .. c + 1 : kin2[C[i]] = kin[C[i]]
    <3>1. ASSUME NEW i \in 1 .. c + 1 PROVE kin2[C[i]] = kin[C[i]]
      <4>1. PICK d : d = C[i]
        OBVIOUS
      <4>2. d \in Elements(C)
        BY <2>4, <4>1 DEF Elements
      <4>3. heap'[d].level + 1 = heap[l].level
        BY <1>1, <1>8, <4>2, MergeInnerLinks
      <4>4. heap'[l].level = heap[l].level /\ heap'[r].level = heap[l].level
            /\ heap[l].level \in Nat
        BY <1>1, <1>6, <1>7, <1>9, Levels
      <4>5. d # l /\ d # r
        BY <4>3, <4>4
      <4>6. d \in Nodes
        <5>1. C \in Seq(Nodes)
          BY <1>8 DEF NodesMerged, InnerMerge
        <5>2. QED
          BY <2>4, <4>1, <5>1
      <4>7. QED
        BY <1>11, <4>1, <4>5, <4>6 DEF KeysMerged
    <3>2. QED
      BY <3>1
  <2>8. LedNode(S, K, c, C, kin2, 0, {})
    BY <2>4, <2>6, <2>7, NodeSame
  <2>9. LedIn(heap', l, S, kin2, 0, {})
    BY <2>3, <2>5, <2>8 DEF LedIn
  <2>10. skippedAt(l)' = 0 /\ rising(l, kin2)' = {}
    BY <1>4, <1>6, <1>9, <1>13
  <2>11. kin2[l] = S
    BY <1>12, <2>1
  <2>12. QED
    BY <2>9, <2>10, <2>11 DEF NodeLed
<1>15. ASSUME NEW p \in LiveInner', p # l PROVE NodeLed(p, kin2)'
  <2>1. p \in Inner /\ p # r /\ p \in LiveInner /\ p \in DOMAIN heap
    BY <1>2, <1>7, <1>13, <1>15
  <2>2. PICK S, x, i : S = kin[p] /\ i = s + 1 /\ x = IF p = parent THEN i ELSE 0
    OBVIOUS
  <2>3. heap'[p] = heap[p]
    BY <1>9, <1>15, <2>1
  <2>4. LedIn(heap, p, kin[p], kin, 0, {})
    BY <1>1, <1>2, <2>1, PlainNode
  <2>5. LedIn(heap, p, S, kin, 0, {})
    BY <2>2, <2>4
  <2>6. PairAt(l, r, i)
    <3>1. i + 1 = s + 2
      <4>1. s \in Nat /\ i = s + 1
        BY <1>4, <2>2
      <4>2. QED
        BY <4>1
    <3>2. QED
      BY <1>4, <2>2, <3>1 DEF PairAt
  <2>7. parent \in LiveInner /\ InnerFilled(parent) /\ InnerFilled(p)
    BY <1>2, <1>4, <2>1
  <2>8. SameChildren(heap, p)
    BY DEF SameChildren
  <2>9. PICK h : h = heap
    OBVIOUS
  <2>10. LedIn(h, p, S, kin, 0, {}) /\ SameChildren(h, p)
    BY <2>5, <2>8, <2>9
  <2>11. LedIn(h, p, S, kin2, x, {})
    BY <1>1, <1>11, <2>1, <2>2, <2>6, <2>7, <2>10, PairMerged
  <2>12. LedIn(heap', p, S, kin2, x, {})
    BY <2>3, <2>9, <2>11 DEF LedIn
  <2>13. kin2[p] = S /\ skippedAt(p)' = x /\ rising(p, kin2)' = {}
    BY <1>12, <1>13, <1>15, <2>1, <2>2
  <2>14. QED
    BY <2>12, <2>13 DEF NodeLed
<1>16. \A p \in LiveInner' : NodeLed(p, kin2)'
  BY <1>14, <1>15
<1>17. \A n \in LiveLeaves' : kin2[n] = heap'[n].items
  <2>1. ASSUME NEW n \in Leaves PROVE kin2[n] = heap'[n].items
    <3>1. n \in DOMAIN heap /\ n # l /\ n # r
      BY <1>6, <1>7, <2>1
    <3>2. kin2[n] = kin[n] /\ heap'[n] = heap[n]
      BY <1>9, <1>12, <3>1
    <3>3. kin[n] = heap[n].items
      BY <1>1, <1>2, <2>1 DEF Under
    <3>4. QED
      BY <3>2, <3>3
  <2>2. QED
    BY <1>9, <2>1
<1>18. \A n \in Live' : kin2[n] # {}
  <2>1. ASSUME NEW n \in DOMAIN heap, n # r PROVE kin2[n] # {}
    <3>1. kin[n] # {}
      BY <1>1, <1>2, <2>1 DEF Under
    <3>2. QED
      BY <1>12, <2>1, <3>1
  <2>2. QED
    BY <1>9, <2>1
<1>19. kin2[gone'] = {} /\ kin2[root] = kin[root] /\ kin2[parent] = kin[parent]
  BY <1>4, <1>6, <1>7, <1>9, <1>12
<1>20. NodesBalanced(kin, kin2)
  BY <1>11, <1>16, <1>17, <1>18, <1>19 DEF NodesBalanced
<1>21. QED
  BY <1>20, NodesBalancedFound

\* A node is merged with one beside it.
LEMMA MergeInnerFound ==
  ASSUME KeptInv, NEW kin, Known(kin), MergeInner, KeptInv'
  PROVE  FoundInv'
<1>1. /\ pc = "balance" /\ underflow /\ ~onlyNode /\ fromInner /\ fixmerge' = TRUE
      /\ UNCHANGED <<root, stats, lastkey>> /\ ShapeInv
  BY DEF MergeInner, KeptInv
<1>2. CASE /\ balancing = "mergeLeft"
           /\ heap' = merge_inner(top.left, cur, top.leftparent, parentslot - 1)
  <2>1. parentslot > 0 /\ top.leftparent = parent /\ isfew(top.left)
    BY <1>1, <1>2, BalancingCases
  <2>2. PICK l, r, s : l = top.left /\ r = cur /\ s = parentslot - 1
    OBVIOUS
  <2>3. BesideIt(l, r, s, l) /\ isfew(l)
    BY <2>1, <2>2 DEF BesideIt
  <2>4. heap' = merge_inner(l, r, parent, s)
    BY <1>2, <2>1, <2>2
  <2>5. QED
    BY <1>1, <2>3, <2>4, MergeIntoFound
<1>3. CASE /\ balancing = "mergeRight"
           /\ heap' = merge_inner(cur, top.right, top.rightparent, parentslot)
  <2>1. /\ parentslot < Len(heap[parent].slotkey)
        /\ top.rightparent = parent /\ isfew(top.right)
    BY <1>1, <1>3, BalancingCases
  <2>2. PICK l, r, s : l = cur /\ r = top.right /\ s = parentslot
    OBVIOUS
  <2>3. BesideIt(l, r, s, r) /\ isfew(r)
    BY <2>1, <2>2 DEF BesideIt
  <2>4. heap' = merge_inner(l, r, parent, s)
    BY <1>3, <2>1, <2>2
  <2>5. QED
    BY <1>1, <2>3, <2>4, MergeIntoFound
<1>4. QED
  BY <1>2, <1>3 DEF MergeInner

\* The keys of two nodes, divided anew.
KeysDividedAt(A, B, A2, y, B2) ==
  /\ \A k : (k \in A2 \/ k \in B2) <=> (k \in A \/ k \in B)
  /\ \A k \in A2 : k <= y
  /\ \A k \in B2 : y < k

\* The nodes after the shift.
LEMMA ShiftedLed ==
  ASSUME ShapeInv, pc = "balance", underflow, ~onlyNode, fromInner, UNCHANGED <<root, stats, result>>,
         NEW kin, KinType(kin), Under(kin),
         NEW l, NEW r, NEW s, NEW o, BesideIt(l, r, s, o),
         NEW Kl, NEW Cl, NEW y, NEW Kr, NEW Cr, NEW K, NEW C,
         NodesShifted(l, r, s, o, Kl, Cl, y, Kr, Cr, K, C)
  PROVE  \E A2, B2 : /\ LedIn(heap', l, A2, kin, 0, {}) /\ LedIn(heap', r, B2, kin, 0, {})
                     /\ KeysDividedAt(kin[l], kin[r], A2, y, B2)
<1>1. PICK LK, LC, m, RK, RC, n, x, A, B :
        /\ LK = heap[l].slotkey /\ LC = heap[l].childid /\ m = Len(LK)
        /\ RK = heap[r].slotkey /\ RC = heap[r].childid /\ n = Len(RK)
        /\ x = heap[parent].slotkey[s + 1] /\ A = kin[l] /\ B = kin[r]
  OBVIOUS
<1>2. /\ l \in Inner /\ r \in Inner
  <2>1. /\ o \in Inner /\ ((l = o /\ r = cur) \/ (l = cur /\ r = o))
    BY BesideNodes
  <2>2. stack # <<>>
    BY AtBalance
  <2>3. cur \in Inner
    BY <2>2, AtInner
  <2>4. QED
    BY <2>1, <2>3
<1>3. Len(LC) = m + 1 /\ Len(RC) = n + 1
  <2>1. InnerFilled(l) /\ InnerFilled(r)
    BY <1>2, AtBalance
  <2>2. QED
    BY <1>1, <2>1 DEF InnerFilled
<1>4. Redivided(LK, LC, x, RK, RC, Kl, Cl, y, Kr, Cr, K, C)
  BY <1>1 DEF NodesShifted
<1>5. /\ GluedKeys(K, LK, m, x, RK, n) /\ GluedChildren(C, LC, m + 1, RC, n + 1)
      /\ Len(K) = m + 1 + n
  BY <1>1, <1>3, <1>4 DEF Redivided
<1>6. Joining(A, LK, m, LC, B, RK, n, RC, x, kin, K, C)
  BY <1>1, <1>5, JoiningBeside
<1>7. PICK S : S = A \cup B
  OBVIOUS
<1>8. LedNode(S, K, m + 1 + n, C, kin, 0, {})
  BY <1>6, <1>7, JoinedNodes
<1>9. PICK c, a, b : c = Len(K) /\ a = Len(Kl) /\ b = Len(Kr)
  OBVIOUS
<1>10. a \in Nat /\ b \in Nat /\ c = a + 1 + b /\ y \in Nat
  <2>1. a \in Nat /\ b \in Nat
    BY <1>9 DEF NodesShifted
  <2>2. c = a + 1 + b /\ y \in Keys
    BY <1>4, <1>9 DEF Redivided
  <2>3. QED
    BY <2>1, <2>2, KeyTypes
<1>11. GluedKeys(K, Kl, a, y, Kr, b) /\ GluedChildren(C, Cl, a + 1, Cr, b + 1)
  BY <1>4, <1>9 DEF Redivided
<1>12. LedNode(S, K, c, C, kin, 0, {})
  BY <1>5, <1>8, <1>9
<1>13. NatBelow(C, c + 1, kin)
  <2>1. C \in Seq(Nodes) /\ Len(C) = Len(Cl) + Len(Cr) /\ Len(Cl) = a + 1 /\ Len(Cr) = b + 1
    BY <1>4, <1>9 DEF Redivided
  <2>2. Len(C) = c + 1
    BY <1>10, <2>1
  <2>3. \A i \in 1 .. c + 1 : kin[C[i]] \subseteq Keys
    BY <2>1, <2>2 DEF KinType
  <2>4. QED
    BY <2>3, KeyTypes DEF NatBelow
<1>14. PICK A2, B2 : /\ LedNode(A2, Kl, a, Cl, kin, 0, {}) /\ LedNode(B2, Kr, b, Cr, kin, 0, {})
                     /\ A2 \cup B2 = S
                     /\ \A k \in A2 : k <= y
                     /\ \A k \in B2 : y < k
  BY <1>10, <1>11, <1>12, <1>13, NodeCut
<1>15. KeysDividedAt(A, B, A2, y, B2)
  <2>1. \A k : (k \in A2 \/ k \in B2) <=> (k \in A \/ k \in B)
    BY <1>7, <1>14
  <2>2. QED
    BY <1>14, <2>1 DEF KeysDividedAt
<1>16. heap'[l] = InnerNode(heap[l].level, Kl, Cl) /\ heap'[r] = InnerNode(heap[r].level, Kr, Cr)
  BY ShiftKinds
<1>17. LedIn(heap', l, A2, kin, 0, {})
  BY <1>9, <1>14, <1>16, GivenFields DEF LedIn
<1>18. LedIn(heap', r, B2, kin, 0, {})
  BY <1>9, <1>14, <1>16, GivenFields DEF LedIn
<1>19. QED
  BY <1>1, <1>15, <1>17, <1>18

\* The keys of l and r are A2 and B2 now.
dividedKin(kin, l, A2, r, B2) ==
  [n \in Nodes |-> IF n = l THEN A2 ELSE IF n = r THEN B2 ELSE kin[n]]

\* A node with children other than l and r.
ChildrenApart(h, p, l, r) ==
  /\ h[p].childid \in Seq(Nodes) /\ Len(h[p].slotkey) \in Nat
  /\ Len(h[p].childid) = Len(h[p].slotkey) + 1
  /\ \A i \in 1 .. Len(h[p].childid) : h[p].childid[i] # l /\ h[p].childid[i] # r

\* No keys move below it.
LEMMA NodeStays ==
  ASSUME NEW h, NEW p, NEW l, NEW r, ChildrenApart(h, p, l, r),
         NEW S, NEW kin, LedIn(h, p, S, kin, 0, {}), NEW A2, NEW B2,
         NEW kin2, kin2 = dividedKin(kin, l, A2, r, B2)
  PROVE  LedIn(h, p, S, kin2, 0, {})
<1>1. PICK K, C, c : K = h[p].slotkey /\ C = h[p].childid /\ c = Len(K)
  OBVIOUS
<1>2. C \in Seq(Nodes) /\ Len(C) = c + 1 /\ c \in Nat
  BY <1>1 DEF ChildrenApart
<1>3. \A i \in 1 .. c + 1 : kin2[C[i]] = kin[C[i]]
  <2>1. \A i \in 1 .. c + 1 : C[i] \in Nodes /\ C[i] # l /\ C[i] # r
    BY <1>1, <1>2 DEF ChildrenApart
  <2>2. QED
    BY <2>1 DEF dividedKin
<1>4. LedNode(S, K, c, C, kin, 0, {})
  BY <1>1 DEF LedIn
<1>5. LedNode(S, K, c, C, kin2, 0, {})
  BY <1>2, <1>3, <1>4, NodeSame
<1>6. QED
  BY <1>1, <1>5 DEF LedIn

\* The node above them, with the new separator.
Repaired(K, c, C, kin, i, y, K2, kin2) ==
  /\ i \in 1 .. c /\ y \in Nat /\ K2[i] = y
  /\ \A j \in 1 .. c : j # i => K2[j] = K[j]
  /\ \A j \in 1 .. c + 1 : j # i /\ j # i + 1 => kin2[C[j]] = kin[C[j]]
  /\ KeysDividedAt(kin[C[i]], kin[C[i + 1]], kin2[C[i]], y, kin2[C[i + 1]])
  /\ kin2[C[i]] # {} /\ kin2[C[i + 1]] # {}

\* Its separator is again between the keys of the two children.
LEMMA RepairedNode ==
  ASSUME NEW S, NEW K, NEW c, NEW C, NEW kin, LedFully(S, K, c, C, kin),
         NEW i, NEW y, NEW K2, NEW kin2, Repaired(K, c, C, kin, i, y, K2, kin2)
  PROVE  LedNode(S, K2, c, C, kin2, 0, {})
<1>1. LedNode(S, K, c, C, kin, 0, {}) /\ c \in Nat /\ NatUpTo(K, c) /\ NatBelow(C, c + 1, kin)
  BY DEF LedFully
<1>2. i \in 1 .. c /\ y \in Nat /\ K2[i] = y
  BY DEF Repaired
<1>3. \A j \in 1 .. c : j # i => K2[j] = K[j]
  BY DEF Repaired
<1>4. \A j \in 1 .. c + 1 : j \notin {i, i + 1} => kin2[C[j]] = kin[C[j]]
  BY DEF Repaired
<1>5. kin2[C[i]] \cup kin2[C[i + 1]] = kin[C[i]] \cup kin[C[i + 1]]
  <2>1. \A k : (k \in kin2[C[i]] \/ k \in kin2[C[i + 1]]) <=> (k \in kin[C[i]] \/ k \in kin[C[i + 1]])
    BY DEF Repaired, KeysDividedAt
  <2>2. QED
    BY <2>1
<1>6. kin2[C[i]] # {} /\ kin2[C[i + 1]] # {}
  BY DEF Repaired
<1>7. \A k \in kin2[C[i]] : k <= y
  BY DEF Repaired, KeysDividedAt
<1>8. \A k \in kin2[C[i + 1]] : y < k
  BY DEF Repaired, KeysDividedAt
<1>9. QED
  BY <1>1, <1>2, <1>3, <1>4, <1>5, <1>6, <1>7, <1>8, NodeRepaired

\* The nodes whose keys were divided anew.
LEMMA DividedLed ==
  ASSUME ShapeInv, ShapeInv', pc = "balance", underflow, ~onlyNode, fromInner,
         UNCHANGED <<root, stats, result>>, NEW kin, KinType(kin), Under(kin),
         NEW l, NEW r, NEW s, NEW o, BesideIt(l, r, s, o),
         NEW Kl, NEW Cl, NEW y, NEW Kr, NEW Cr, NEW K, NEW C,
         NodesShifted(l, r, s, o, Kl, Cl, y, Kr, Cr, K, C),
         NEW A2, NEW B2, NEW kin2, kin2 = dividedKin(kin, l, A2, r, B2),
         NEW p, NEW S, LedIn(heap', p, S, kin, 0, {}), p = l \/ p = r
  PROVE  LedIn(heap', p, S, kin2, 0, {}) /\ S # {}
<1>1. /\ o \in Inner /\ ((l = o /\ r = cur) \/ (l = cur /\ r = o)) /\ heap[o].level = heap[cur].level
  BY BesideNodes
<1>2. cur \in Inner
  <2>1. stack # <<>>
    BY AtBalance
  <2>2. QED
    BY <2>1, AtInner
<1>3. l \in Inner /\ r \in Inner /\ heap[l].level = heap[r].level /\ heap[p].level = heap[l].level
  BY <1>1, <1>2
<1>4. TypeOK /\ p \in Inner /\ l \in DOMAIN heap /\ heap[l].level \in Nat
  <2>1. TypeOK
    BY DEF ShapeInv
  <2>2. l \in DOMAIN heap
    BY <1>3, <2>1, NodeKinds
  <2>3. QED
    BY <1>3, <2>1, <2>2, Levels
<1>5. /\ heap'[l] = InnerNode(heap[l].level, Kl, Cl) /\ heap'[r] = InnerNode(heap[r].level, Kr, Cr)
      /\ \A n \in DOMAIN heap : heap'[n].level = heap[n].level
      /\ LiveInner' = Inner /\ DOMAIN heap' = DOMAIN heap
  BY ShiftKinds
<1>6. /\ Kl \in Seq(Keys) /\ Kr \in Seq(Keys) /\ Cl \in Seq(Nodes) /\ Cr \in Seq(Nodes)
      /\ Len(Cl) = Len(Kl) + 1 /\ Len(Cr) = Len(Kr) + 1
  BY DEF NodesShifted, Redivided
<1>7. PICK K2, C2 : K2 = heap'[p].slotkey /\ C2 = heap'[p].childid
  OBVIOUS
<1>8. (p = l /\ K2 = Kl /\ C2 = Cl) \/ (p = r /\ K2 = Kr /\ C2 = Cr)
  BY <1>5, <1>7, GivenFields
<1>9. C2 \in Seq(Nodes) /\ K2 \in Seq(Keys) /\ Len(C2) = Len(K2) + 1
  BY <1>6, <1>8
<1>10. \A d \in Elements(C2) : heap'[d].level + 1 = heap[l].level
  <2>1. /\ \A d \in Elements(Cl) : heap'[d].level + 1 = heap[l].level
        /\ \A d \in Elements(Cr) : heap'[d].level + 1 = heap[r].level
    BY ShiftLinks
  <2>2. QED
    BY <1>3, <1>8, <2>1
<1>11. ASSUME NEW i \in 1 .. Len(C2) PROVE C2[i] # l /\ C2[i] # r
  <2>1. PICK d : d = C2[i]
    OBVIOUS
  <2>2. d \in Elements(C2)
    BY <2>1 DEF Elements
  <2>3. heap'[d].level + 1 = heap[l].level
    BY <1>10, <2>2
  <2>4. heap'[l].level = heap[l].level /\ heap'[r].level = heap[l].level
    BY <1>3, <1>5, <1>4, NodeKinds
  <2>5. d # l /\ d # r
    BY <1>4, <2>3, <2>4
  <2>6. QED
    BY <2>1, <2>5
<1>12. Len(K2) \in Nat
  BY <1>9
<1>13. PICK h : h = heap'
  OBVIOUS
<1>14. ChildrenApart(h, p, l, r)
  BY <1>7, <1>9, <1>11, <1>12, <1>13 DEF ChildrenApart
<1>15. LedIn(h, p, S, kin2, 0, {})
  <2>1. LedIn(h, p, S, kin, 0, {})
    BY <1>13
  <2>2. QED
    BY <1>14, <2>1, NodeStays
<1>16. S # {}
  <2>1. 1 \in 1 .. Len(C2)
    BY <1>9, <1>12
  <2>2. C2[1] \in DOMAIN heap
    <3>1. p \in LiveInner'
      BY <1>4, <1>5
    <3>2. LinkedOnce'
      BY DEF ShapeInv, Tree
    <3>3. 1 \in Slots(p)'
      BY <1>7, <2>1 DEF Slots
    <3>4. C2[1] \in DOMAIN heap'
      BY <1>7, <3>1, <3>2, <3>3 DEF LinkedOnce
    <3>5. QED
      BY <1>5, <3>4
  <2>3. kin[C2[1]] # {}
    <3>1. Live = DOMAIN heap
      BY AtBalance
    <3>2. QED
      BY <2>2, <3>1 DEF Under
  <2>4. PICK c : c = Len(K2)
    OBVIOUS
  <2>5. LedNode(S, K2, c, C2, kin, 0, {})
    BY <1>7, <2>4 DEF LedIn
  <2>6. 1 \in 1 .. c + 1
    BY <1>9, <2>1, <2>4
  <2>7. \A k \in kin[C2[1]] : k \in S
    BY <2>5, <2>6 DEF LedNode, Covers
  <2>8. QED
    BY <2>3, <2>7
<1>17. QED
  BY <1>13, <1>15, <1>16

\* The parent's separator goes between them.
LEMMA ParentRepaired ==
  ASSUME ShapeInv, pc = "balance", underflow, ~onlyNode, fromInner,
         UNCHANGED <<root, stats, result>>, NEW kin, KinType(kin), Under(kin),
         NEW l, NEW r, NEW s, NEW o, BesideIt(l, r, s, o),
         NEW Kl, NEW Cl, NEW y, NEW Kr, NEW Cr, NEW K, NEW C,
         NodesShifted(l, r, s, o, Kl, Cl, y, Kr, Cr, K, C),
         NEW A2, NEW B2, A2 # {}, B2 # {}, KeysDividedAt(kin[l], kin[r], A2, y, B2),
         NEW kin2, kin2 = dividedKin(kin, l, A2, r, B2),
         NEW S, S = kin[parent]
  PROVE  LedIn(heap', parent, S, kin2, 0, {})
<1>1. /\ s \in Nat /\ s + 1 \in 1 .. Len(heap[parent].slotkey) /\ l # r
      /\ l = heap[parent].childid[s + 1] /\ r = heap[parent].childid[s + 2]
      /\ parent \in Inner /\ parent \in LiveInner
  BY BesideNodes
<1>2. PICK PK, PC, c, i : /\ PK = heap[parent].slotkey
                          /\ PC = heap[parent].childid /\ c = Len(PK) /\ i = s + 1
  OBVIOUS
<1>3. LedFully(S, PK, c, PC, kin)
  <2>1. FieldsOf(parent, S, PK, c, PC, kin)
    BY <1>2 DEF FieldsOf
  <2>2. QED
    BY <1>1, <2>1, NodeLeadsFully
<1>4. KnownNode(parent, kin, PK, c, PC)
  <2>1. PICK K0, c0, C0 : KnownNode(parent, kin, K0, c0, C0)
    BY <1>1, SomeNode
  <2>2. K0 = PK /\ C0 = PC /\ c0 = c
    BY <1>2, <2>1 DEF KnownNode
  <2>3. QED
    BY <2>1, <2>2
<1>5. /\ c \in Nat /\ DOMAIN PK = 1 .. c
      /\ \A j \in 1 .. c + 1 : PC[j] \in Nodes
      /\ \A j, k \in 1 .. c + 1 : PC[j] = PC[k] => j = k
  BY <1>4 DEF KnownNode
<1>6. i \in 1 .. c /\ i + 1 = s + 2
  <2>1. i \in 1 .. c
    BY <1>1, <1>2
  <2>2. s \in Nat /\ i = s + 1
    BY <1>1, <1>2
  <2>3. i + 1 = s + 2
    BY <2>2
  <2>4. QED
    BY <2>1, <2>3
<1>7. PC[i] = l /\ PC[i + 1] = r /\ i \in 1 .. c + 1 /\ i + 1 \in 1 .. c + 1
  BY <1>1, <1>2, <1>5, <1>6
<1>8. PICK K2 : K2 = [PK EXCEPT ![i] = y]
  OBVIOUS
<1>9. K2[i] = y /\ \A j \in 1 .. c : j # i => K2[j] = PK[j]
  BY <1>5, <1>6, <1>8
<1>10. kin2[l] = A2 /\ kin2[r] = B2
  BY <1>1, <1>5, <1>7 DEF dividedKin
<1>11. \A j \in 1 .. c + 1 : j # i /\ j # i + 1 => kin2[PC[j]] = kin[PC[j]]
  <2>1. \A j \in 1 .. c + 1 : j # i /\ j # i + 1 => PC[j] # l /\ PC[j] # r
    BY <1>5, <1>7
  <2>2. QED
    BY <1>5, <2>1 DEF dividedKin
<1>12. y \in Nat
  <2>1. y \in Keys
    BY DEF NodesShifted, Redivided
  <2>2. QED
    BY <2>1, KeyTypes
<1>13. Repaired(PK, c, PC, kin, i, y, K2, kin2)
  BY <1>6, <1>7, <1>9, <1>10, <1>11, <1>12 DEF Repaired
<1>14. LedNode(S, K2, c, PC, kin2, 0, {})
  BY <1>3, <1>13, RepairedNode
<1>15. heap'[parent].slotkey = K2 /\ heap'[parent].childid = PC /\ Len(heap'[parent].slotkey) = c
  <2>1. heap'[parent].childid = heap[parent].childid /\ Len(heap'[parent].slotkey) = Len(heap[parent].slotkey)
    BY ShiftKinds
  <2>2. heap'[parent] = InnerNode(heap[parent].level, [heap[parent].slotkey EXCEPT ![s + 1] = y],
                                  heap[parent].childid)
    BY DEF NodesShifted, Shifted
  <2>3. heap'[parent].slotkey = [heap[parent].slotkey EXCEPT ![s + 1] = y]
    BY <2>2, GivenFields
  <2>4. QED
    BY <1>2, <1>8, <2>1, <2>3
<1>16. QED
  BY <1>14, <1>15 DEF LedIn

\* Children move between an inner node and its neighbour.
LEMMA ShiftIntoFound ==
  ASSUME KeptInv, KeptInv', pc = "balance", underflow, ~onlyNode, fromInner,
         UNCHANGED <<root, stats, result>>, NEW kin, Known(kin),
         NEW l, NEW r, NEW s, NEW o, BesideIt(l, r, s, o), SomeShift(l, r, s, o)
  PROVE  FoundInv'
<1>1. ShapeInv /\ ShapeInv' /\ KinType(kin) /\ Under(kin) /\ TypeOK /\ LinkedOnce
  BY DEF KeptInv, Known, ShapeInv, Tree
<1>2. /\ LiveInner = Inner /\ LiveLeaves = Leaves /\ Live = DOMAIN heap /\ newchild = Null /\ ~fixmerge
      /\ \A n \in Inner : InnerFilled(n)
  BY <1>1, AtBalance
<1>3. newchild' = Null /\ ~fixmerge' /\ root' = root /\ lastkey' = lastkey
  BY <1>2 DEF fromInner, split, result
<1>4. /\ o \in Inner /\ ((l = o /\ r = cur) \/ (l = cur /\ r = o)) /\ l # r
      /\ cur # root /\ o # root /\ o # parent /\ cur # parent
      /\ s \in Nat /\ s + 1 \in 1 .. Len(heap[parent].slotkey)
      /\ l = heap[parent].childid[s + 1] /\ r = heap[parent].childid[s + 2]
      /\ parent \in Inner /\ Len(heap[parent].slotkey) \in Nat
  BY <1>1, BesideNodes
<1>5. cur \in Inner /\ root # Null
  <2>1. stack # <<>>
    BY <1>1, AtBalance
  <2>2. QED
    BY <1>1, <2>1, AtInner
<1>6. l \in Inner /\ r \in Inner /\ l # root /\ r # root /\ l # parent /\ r # parent
  BY <1>4, <1>5
<1>7. /\ \A n \in Inner : n \in DOMAIN heap /\ n \in Nodes /\ n \notin Leaves
      /\ \A n \in Leaves : n \in DOMAIN heap /\ n \in Nodes /\ n \notin Inner
      /\ root \in DOMAIN heap /\ DOMAIN heap \subseteq Nodes
  BY <1>1, <1>5, NodeKinds DEF TypeOK
<1>8. PICK Kl, Cl, y, Kr, Cr, K, C : NodesShifted(l, r, s, o, Kl, Cl, y, Kr, Cr, K, C)
  BY DEF SomeShift
<1>9. /\ \A n \in DOMAIN heap : n # l /\ n # r /\ n # parent => heap'[n] = heap[n]
      /\ LiveInner' = Inner /\ LiveLeaves' = Leaves /\ Live' = DOMAIN heap
      /\ \A n \in Leaves : heap'[n] = heap[n]
  BY <1>1, <1>8, ShiftKinds
<1>10. PICK A2, B2 : /\ LedIn(heap', l, A2, kin, 0, {}) /\ LedIn(heap', r, B2, kin, 0, {})
                     /\ KeysDividedAt(kin[l], kin[r], A2, y, B2)
  BY <1>1, <1>8, ShiftedLed
<1>11. PICK kin2 : kin2 = dividedKin(kin, l, A2, r, B2)
  OBVIOUS
<1>12. LedIn(heap', l, A2, kin2, 0, {}) /\ A2 # {}
  <2>1. PICK p : p = l
    OBVIOUS
  <2>2. LedIn(heap', p, A2, kin, 0, {})
    BY <1>10, <2>1
  <2>3. LedIn(heap', p, A2, kin2, 0, {}) /\ A2 # {}
    BY <1>1, <1>8, <1>11, <2>1, <2>2, DividedLed
  <2>4. QED
    BY <2>1, <2>3
<1>13. LedIn(heap', r, B2, kin2, 0, {}) /\ B2 # {}
  <2>1. PICK p : p = r
    OBVIOUS
  <2>2. LedIn(heap', p, B2, kin, 0, {})
    BY <1>10, <2>1
  <2>3. LedIn(heap', p, B2, kin2, 0, {}) /\ B2 # {}
    BY <1>1, <1>8, <1>11, <2>1, <2>2, DividedLed
  <2>4. QED
    BY <2>1, <2>3
<1>14. /\ kin2[l] = A2 /\ kin2[r] = B2
       /\ \A n \in DOMAIN heap : n # l /\ n # r => kin2[n] = kin[n]
  BY <1>4, <1>6, <1>7, <1>11 DEF dividedKin
<1>15. KinType(kin2)
  <2>1. kin[l] \subseteq Keys /\ kin[r] \subseteq Keys
    BY <1>1, <1>6, <1>7 DEF KinType
  <2>2. A2 \subseteq Keys /\ B2 \subseteq Keys
    BY <1>10, <2>1 DEF KeysDividedAt
  <2>3. QED
    BY <1>1, <1>11, <2>2 DEF KinType, dividedKin
<1>16. ASSUME NEW p \in Inner PROVE NodeLed(p, kin2)'
  <2>1. PICK S : S = kin2[p]
    OBVIOUS
  <2>2. LedIn(heap', p, S, kin2, 0, {})
    <3>1. CASE p = l
      BY <1>12, <1>14, <2>1, <3>1
    <3>2. CASE p = r
      BY <1>13, <1>14, <2>1, <3>2
    <3>3. CASE p = parent
      <4>1. S = kin[parent]
        BY <1>4, <1>6, <1>7, <1>14, <2>1, <3>3
      <4>2. KeysDividedAt(kin[l], kin[r], A2, y, B2)
        BY <1>10
      <4>3. LedIn(heap', parent, S, kin2, 0, {})
        BY <1>1, <1>8, <1>11, <1>12, <1>13, <4>1, <4>2, ParentRepaired
      <4>4. QED
        BY <3>3, <4>3
    <3>4. CASE p # l /\ p # r /\ p # parent
      <4>1. heap'[p] = heap[p] /\ S = kin[p]
        BY <1>7, <1>9, <1>14, <2>1, <3>4
      <4>2. LedIn(heap, p, kin[p], kin, 0, {})
        BY <1>1, <1>2, PlainNode
      <4>3. PICK h : h = heap
        OBVIOUS
      <4>4. LedIn(h, p, S, kin, 0, {})
        BY <4>1, <4>2, <4>3
      <4>5. ChildrenApart(h, p, l, r)
        <5>1. /\ heap[p].childid \in Seq(Nodes) /\ Len(heap[p].slotkey) \in Nat
              /\ Len(heap[p].childid) = Len(heap[p].slotkey) + 1
          BY <1>1, <1>2, ChildNodes
        <5>2. s + 1 \in Slots(parent) /\ s + 2 \in Slots(parent)
          <6>1. Slots(parent) = 1 .. Len(heap[parent].slotkey) + 1
            BY <1>1, <1>2, <1>4, ChildNodes
          <6>2. PICK c : c = Len(heap[parent].slotkey)
            OBVIOUS
          <6>3. s \in Nat /\ c \in Nat /\ s + 1 \in 1 .. c
            BY <1>4, <6>2
          <6>4. s + 1 \in 1 .. c + 1 /\ s + 2 \in 1 .. c + 1
            BY <6>3
          <6>5. QED
            BY <6>1, <6>2, <6>4
        <5>3. \A i \in Slots(p) : heap[p].childid[i] # l /\ heap[p].childid[i] # r
          BY <1>1, <1>2, <1>4, <3>4, <5>2 DEF LinkedOnce
        <5>4. QED
          BY <4>3, <5>1, <5>3 DEF ChildrenApart, Slots
      <4>6. LedIn(h, p, S, kin2, 0, {})
        BY <1>11, <4>4, <4>5, NodeStays
      <4>7. QED
        BY <4>1, <4>3, <4>6 DEF LedIn
    <3>5. QED
      BY <3>1, <3>2, <3>3, <3>4
  <2>3. skippedAt(p)' = 0 /\ rising(p, kin2)' = {}
    BY <1>3 DEF skippedAt, rising
  <2>4. QED
    BY <2>1, <2>2, <2>3 DEF NodeLed
<1>17. \A n \in LiveLeaves' : kin2[n] = heap'[n].items
  <2>1. ASSUME NEW n \in Leaves PROVE kin2[n] = heap'[n].items
    <3>1. n \in DOMAIN heap /\ n # l /\ n # r
      BY <1>6, <1>7, <2>1
    <3>2. kin2[n] = kin[n] /\ heap'[n] = heap[n]
      BY <1>9, <1>14, <2>1, <3>1
    <3>3. kin[n] = heap[n].items
      BY <1>1, <1>2, <2>1 DEF Under
    <3>4. QED
      BY <3>2, <3>3
  <2>2. QED
    BY <1>9, <2>1
<1>18. \A n \in Live' : kin2[n] # {}
  <2>1. ASSUME NEW n \in DOMAIN heap PROVE kin2[n] # {}
    <3>1. CASE n # l /\ n # r
      <4>1. kin[n] # {}
        BY <1>1, <1>2, <2>1 DEF Under
      <4>2. QED
        BY <1>14, <2>1, <3>1, <4>1
    <3>2. CASE n = l \/ n = r
      BY <1>12, <1>13, <1>14, <3>2
    <3>3. QED
      BY <3>1, <3>2
  <2>2. QED
    BY <1>9, <2>1
<1>19. kin2[root] = kin[root] /\ kin2[parent] = kin[parent]
  BY <1>4, <1>6, <1>7, <1>14
<1>20. NodesBalanced(kin, kin2)
  BY <1>3, <1>9, <1>15, <1>16, <1>17, <1>18, <1>19 DEF NodesBalanced
<1>21. QED
  BY <1>3, <1>20, NodesBalancedFound

\* Children move from one node to the other.
LEMMA ShiftInnerFound ==
  ASSUME KeptInv, NEW kin, Known(kin), ShiftInner, KeptInv'
  PROVE  FoundInv'
<1>1. /\ pc = "balance" /\ underflow /\ ~onlyNode /\ fromInner
      /\ UNCHANGED <<root, stats, result>> /\ ShapeInv
  BY DEF ShiftInner, KeptInv
<1>2. CASE /\ balancing = "shiftLeft"
           /\ heap' = shift_left_inner(cur, top.right, top.rightparent, parentslot)
  <2>1. /\ parentslot < Len(heap[parent].slotkey)
        /\ top.rightparent = parent /\ ~isfew(top.right)
    BY <1>1, <1>2, BalancingCases
  <2>2. PICK l, r, s : l = cur /\ r = top.right /\ s = parentslot
    OBVIOUS
  <2>3. BesideIt(l, r, s, r) /\ ~isfew(r)
    BY <2>1, <2>2 DEF BesideIt
  <2>4. heap' = shift_left_inner(l, r, parent, s)
    BY <1>2, <2>1, <2>2
  <2>5. SomeShift(l, r, s, r)
    BY <1>1, <2>2, <2>3, <2>4, ShiftLeftHeap
  <2>6. QED
    BY <1>1, <2>3, <2>5, ShiftIntoFound
<1>3. CASE /\ balancing = "shiftRight"
           /\ heap' = shift_right_inner(top.left, cur, top.leftparent, parentslot - 1)
  <2>1. parentslot > 0 /\ top.leftparent = parent /\ ~isfew(top.left)
    BY <1>1, <1>3, BalancingCases
  <2>2. PICK l, r, s : l = top.left /\ r = cur /\ s = parentslot - 1
    OBVIOUS
  <2>3. BesideIt(l, r, s, l) /\ ~isfew(l)
    BY <2>1, <2>2 DEF BesideIt
  <2>4. heap' = shift_right_inner(l, r, parent, s)
    BY <1>3, <2>1, <2>2
  <2>5. SomeShift(l, r, s, l)
    BY <1>1, <2>2, <2>3, <2>4, ShiftRightHeap
  <2>6. QED
    BY <1>1, <2>3, <2>5, ShiftIntoFound
<1>4. QED
  BY <1>2, <1>3 DEF ShiftInner

-----------------------------------------------------------------------------
(* The invariant *)

\* Every step of a call leads to its keys, if the last one did.
LEMMA StepFound ==
  ASSUME KeptInv, NEW kin, Known(kin), Step, KeptInv'
  PROVE  FoundInv'
<1>1. CASE Descend \/ StoreRoom \/ StoreSplit \/ LinkChild \/ SplitInner
  BY <1>1, DescendFound, StoreRoomFound, StoreSplitFound, LinkChildFound, SplitInnerFound
<1>2. CASE FinishInsert
  BY <1>2, FinishInsertFound, NewRootFound
<1>3. CASE EraseMiss \/ EraseEmptyRoot \/ EraseMergeLeft \/ EraseMergeRight \/ EraseKeep
  BY <1>3, MissFound, EraseEmptyRootFound, MergeLeavesFound, EraseKeepFound
<1>4. CASE Fix \/ Balanced \/ ShrinkRoot \/ MergeInner \/ ShiftInner \/ FinishErase
  BY <1>4, FixFound, BalancedFound, ShrinkRootFound, MergeInnerFound, ShiftInnerFound, FinishEraseFound
<1>5. QED
  BY <1>1, <1>2, <1>3, <1>4 DEF Step

\* FoundInv is inductive.
LEMMA NextFound == FoundInv /\ [Next]_vars => FoundInv'
<1>1. SUFFICES ASSUME FoundInv, [Next]_vars PROVE FoundInv'
  OBVIOUS
<1>2. KeptInv /\ KeptInv'
  BY <1>1, FoundNow, NextKept
<1>3. PICK kin : Known(kin)
  BY <1>1, FoundNow DEF Known
<1>4. CASE Step
  BY <1>2, <1>3, <1>4, StepFound
<1>5. ASSUME NEW k \in Keys, BeginInsert(k) \/ BeginErase(k) PROVE FoundInv'
  <2>1. BeginErase(k) => root # Null
    BY DEF BeginErase
  <2>2. CASE root = Null
    BY <1>2, <1>3, <1>5, <2>1, <2>2, FirstLeafFound
  <2>3. CASE root # Null
    BY <1>2, <1>3, <1>5, <2>3, BeginFound
  <2>4. QED
    BY <2>2, <2>3
<1>6. CASE UNCHANGED vars
  BY <1>1, <1>6, StutterFound
<1>7. QED
  BY <1>1, <1>4, <1>5, <1>6 DEF Next

\* There are no keys below the nodes of an empty tree.
LEMMA InitFound == Init => FoundInv
<1>1. SUFFICES ASSUME Init PROVE FoundInv
  OBVIOUS
<1>2. KeptInv /\ ShapeInv
  BY <1>1, InitKept DEF KeptInv
<1>3. PICK kin : kin = [n \in Nodes |-> {}]
  OBVIOUS
<1>4. /\ heap = <<>> /\ root = Null /\ pc = "idle" /\ newchild = Null /\ lastkey = Null
      /\ fixmerge = FALSE
  BY <1>1 DEF Init
<1>5. DOMAIN heap = {}
  <2>1. PICK h : h = <<>>
    OBVIOUS
  <2>2. DOMAIN h = {}
    BY <2>1
  <2>3. QED
    BY <1>4, <2>1, <2>2
<1>6. LiveLeaves = {} /\ LiveInner = {} /\ Live = {}
  BY <1>5 DEF LiveLeaves, LiveInner, Live, Leaves, Inner
<1>7. Under(kin)
  BY <1>4, <1>6 DEF Under
<1>8. KeysBelow(kin) /\ \A p \in LiveInner : Parted(p, kin)
  BY <1>2, <1>7, LedForm
<1>9. SplitParted(kin) /\ RightWay /\ LastkeyKnown(kin)
  BY <1>4 DEF SplitParted, RightWay, descending, LastkeyKnown
<1>10. kin \in [Nodes -> SUBSET Keys]
  BY <1>3
<1>11. QED
  BY <1>2, <1>8, <1>9, <1>10 DEF FoundInv, Led

\* In the middle of every call, too, the separators part the keys below the
\* nodes: of splits on their way up, and of merges that leave a child empty.
THEOREM KeysPartedInside == Spec => []FoundInv
<1>1. Init => FoundInv
  BY InitFound
<1>2. FoundInv /\ [Next]_vars => FoundInv'
  BY NextFound
<1>3. QED
  BY <1>1, <1>2, PTL DEF Spec

-----------------------------------------------------------------------------
(* The descents *)

\* Where a descent for k goes on from node n.
nextFor(n, k) == child(n, find_lower(heap, n, k))

\* From a node over the key to one over it.
LEMMA KeyBelowNext ==
  ASSUME FoundInv, pc = "idle", NEW kin, Known(kin), NEW p \in Inner, NEW k \in Keys
  PROVE  /\ nextFor(p, k) \in DOMAIN heap
         /\ heap[nextFor(p, k)].level + 1 = heap[p].level
         /\ heap[nextFor(p, k)].level \in Nat
         /\ k \in kin[p] => k \in kin[nextFor(p, k)]
<1>1. ShapeInv /\ TypeOK /\ Tree /\ KinType(kin) /\ Under(kin) /\ KeptInv
  BY FoundNow DEF KeptInv, ShapeInv, Known
<1>2. gone = Null /\ newchild = Null /\ LiveInner = Inner /\ ~fixmerge
  <2>1. gone = Null /\ newchild = Null /\ LiveInner = Inner
    BY <1>1, Quiet
  <2>2. ~fixmerge
    BY <1>1, PlainPc DEF ShapeInv
  <2>3. QED
    BY <2>1, <2>2
<1>3. PICK K, c, C : KnownNode(p, kin, K, c, C)
  BY <1>1, <1>2, SomeNode
<1>4. PICK s : s = find_lower(heap, p, k)
  OBVIOUS
<1>5. /\ K = heap[p].slotkey /\ C = heap[p].childid /\ c = Len(K) /\ c \in Nat /\ DOMAIN K = 1 .. c
  BY <1>3 DEF KnownNode
<1>6. \A j \in 1 .. c : K[j] < k <=> j <= s
  BY <1>1, <1>2, <1>4, <1>5, WayFound
<1>7. s \in 0 .. c
  <2>1. InnerFilled(p) /\ LinkedOnce
    BY <1>1, <1>2 DEF Tree
  <2>2. p \in DOMAIN heap /\ slotuse(p) = c
    BY <1>1, <1>2, <1>5, <2>1, ChildNodes, NodeKinds
  <2>3. QED
    BY <1>1, <1>4, <2>2, FindLowerSlot
<1>8. s + 1 \in 1 .. c + 1 /\ nextFor(p, k) = C[s + 1]
  BY <1>4, <1>5, <1>7 DEF nextFor, child
<1>9. /\ C[s + 1] \in DOMAIN heap /\ heap[C[s + 1]].level \in Nat
      /\ heap[C[s + 1]].level + 1 = heap[p].level
  BY <1>3, <1>8 DEF KnownNode
<1>10. ASSUME k \in kin[p] PROVE k \in kin[C[s + 1]]
  <2>1. LedIn(heap, p, kin[p], kin, 0, {})
    BY <1>1, <1>2, PlainNode
  <2>2. LedNode(kin[p], K, c, C, kin, 0, {})
    BY <1>5, <2>1 DEF LedIn
  <2>3. PICK i \in 1 .. c + 1 : k \in kin[C[i]]
    BY <1>10, <2>2 DEF LedNode, Covers
  <2>4. \A j \in 1 .. c : K[j] < k <=> j < i
    <3>1. \A j \in 1 .. c : j # 0
      OBVIOUS
    <3>2. QED
      BY <2>2, <2>3, <3>1 DEF LedNode, PartsBut
  <2>5. \A j \in 1 .. c : j <= s <=> j < i
    BY <1>6, <2>4
  <2>6. i = s + 1
    <3>1. CASE i <= s
      <4>1. i \in 1 .. c /\ ~(i < i)
        BY <1>5, <1>7, <3>1
      <4>2. QED
        BY <2>5, <3>1, <4>1
    <3>2. CASE i > s + 1
      <4>1. s + 1 \in 1 .. c /\ ~(s + 1 <= s) /\ s + 1 < i
        BY <1>5, <1>7, <3>2
      <4>2. QED
        BY <2>5, <4>1
    <3>3. QED
      BY <1>5, <1>7, <3>1, <3>2
  <2>7. QED
    BY <2>3, <2>6
<1>11. QED
  BY <1>8, <1>9, <1>10

\* f[l] is the node at level l >= b of the descent for k.
DescendsTo(f, k, b) ==
  /\ f = [l \in 0 .. heap[root].level |-> f[l]]
  /\ \A l \in 0 .. heap[root].level : l >= b =>
       f[l] = IF l = heap[root].level THEN root ELSE nextFor(f[l + 1], k)

\* f is the whole descent.
Descends(f, k) ==
  f = [l \in 0 .. heap[root].level |->
         IF l = heap[root].level THEN root ELSE nextFor(f[l + 1], k)]

\* A descent goes on down to the level of the leaves.
LEMMA DescentGoesOn ==
  ASSUME heap[root].level \in Nat, NEW k
  PROVE  \E f : Descends(f, k)
<1>1. PICK h : h = heap[root].level
  OBVIOUS
<1>2. h \in Nat
  BY <1>1
<1> DEFINE open == {b \in Nat : b <= h /\ \E f : DescendsTo(f, k, b)}
<1>3. h \in open
  <2>1. PICK f : f = [l \in 0 .. h |-> root]
    OBVIOUS
  <2>2. f = [l \in 0 .. h |-> f[l]]
    BY <2>1
  <2>3. \A l \in 0 .. h : l >= h => l = h /\ f[l] = root
    BY <1>2, <2>1
  <2>4. DescendsTo(f, k, h)
    BY <1>1, <2>2, <2>3 DEF DescendsTo
  <2>5. QED
    BY <1>2, <2>4
<1>4. PICK b \in open : \A c \in open : b <= c
  <2>1. open \in SUBSET Nat /\ open # {}
    BY <1>3
  <2>2. QED
    BY <2>1, LeastNatural
<1>5. b \in Nat /\ b <= h
  OBVIOUS
<1>6. PICK f : DescendsTo(f, k, b)
  OBVIOUS
<1>7. /\ f = [l \in 0 .. h |-> f[l]]
      /\ \A l \in 0 .. h : l >= b => f[l] = IF l = h THEN root ELSE nextFor(f[l + 1], k)
  BY <1>1, <1>6 DEF DescendsTo
<1>8. b = 0
  <2>1. SUFFICES ASSUME b # 0 PROVE FALSE
    OBVIOUS
  <2>2. PICK a : a = b - 1
    OBVIOUS
  <2>3. a \in Nat /\ b = a + 1 /\ ~(b <= a) /\ a <= h /\ a # h /\ a \in 0 .. h
    BY <1>2, <1>5, <2>1, <2>2
  <2>4. PICK x : x = nextFor(f[b], k)
    OBVIOUS
  <2>5. PICK g : g = [l \in 0 .. h |-> IF l = a THEN x ELSE f[l]]
    OBVIOUS
  <2>6. g = [l \in 0 .. h |-> g[l]]
    BY <2>5
  <2>7. \A l \in 0 .. h : l # a => g[l] = f[l]
    BY <2>5
  <2>8. g[a] = x /\ a + 1 \in 0 .. h /\ g[a + 1] = f[b]
    <3>1. g[a] = x
      BY <2>3, <2>5
    <3>2. b \in 0 .. h /\ b # a
      BY <1>2, <1>5, <2>3
    <3>3. QED
      BY <2>3, <2>7, <3>1, <3>2
  <2>9. ASSUME NEW l \in 0 .. h, l >= a
        PROVE  g[l] = IF l = h THEN root ELSE nextFor(g[l + 1], k)
    <3>1. CASE l = a
      BY <2>3, <2>4, <2>8, <3>1
    <3>2. CASE l # a
      <4>1. l >= b
        BY <1>5, <2>3, <2>9, <3>2
      <4>2. g[l] = f[l]
        BY <2>7, <3>2
      <4>3. f[l] = IF l = h THEN root ELSE nextFor(f[l + 1], k)
        BY <1>7, <4>1
      <4>4. CASE l = h
        BY <4>2, <4>3, <4>4
      <4>5. CASE l # h
        <5>1. l + 1 \in 0 .. h /\ l + 1 # a
          BY <1>2, <1>5, <2>3, <4>1, <4>5
        <5>2. g[l + 1] = f[l + 1]
          BY <2>7, <5>1
        <5>3. QED
          BY <4>2, <4>3, <4>5, <5>2
      <4>6. QED
        BY <4>4, <4>5
    <3>3. QED
      BY <3>1, <3>2
  <2>10. DescendsTo(g, k, a)
    BY <1>1, <2>6, <2>9 DEF DescendsTo
  <2>11. a \in open
    BY <2>3, <2>10
  <2>12. QED
    BY <1>4, <2>3, <2>11
<1>9. \A l \in 0 .. h : l >= b
  BY <1>8
<1>10. f = [l \in 0 .. h |-> IF l = h THEN root ELSE nextFor(f[l + 1], k)]
  BY <1>7, <1>9
<1>11. QED
  BY <1>1, <1>10 DEF Descends

\* leafOf is the last node of the descent.
LEMMA LeafOfDescent ==
  ASSUME NEW k, NEW g, Descends(g, k)
  PROVE  \E f : Descends(f, k) /\ leafOf(k) = f[0]
<1> DEFINE down == CHOOSE f : Descends(f, k)
<1>1. Descends(down, k)
  OBVIOUS
<1>2. leafOf(k) = down[0]
  BY DEF leafOf, Descends, nextFor
<1>3. QED
  BY <1>1, <1>2

\* The node at level l of the descent for k.
Passes(f, k, kin, l) ==
  /\ f[l] \in DOMAIN heap
  /\ heap[f[l]].level = l
  /\ k \in kin[root] => k \in kin[f[l]]

\* A descent leads to a leaf, which is over the key if the root is.
LEMMA DescentLeads ==
  ASSUME FoundInv, quiet, NEW kin, Known(kin), NEW k \in Keys, NEW f, Descends(f, k)
  PROVE  f[0] \in Leaves /\ (k \in kin[root] => k \in kin[f[0]])
<1>1. /\ KeptInv /\ ShapeInv /\ TypeOK /\ Tree /\ pc = "idle" /\ root # Null
  BY FoundNow DEF KeptInv, ShapeInv, quiet
<1>2. PICK h : h = heap[root].level
  OBVIOUS
<1>3. root \in DOMAIN heap /\ h \in Nat
  <2>1. root \in DOMAIN heap
    BY <1>1 DEF TypeOK
  <2>2. QED
    BY <1>1, <1>2, <2>1, Levels
<1>4. \A n \in DOMAIN heap : n \in Inner <=> heap[n].level # 0
  BY DEF Inner, Leaves, isleafnode
<1>5. /\ f[h] = root
      /\ \A l \in 0 .. h : l # h => f[l] = nextFor(f[l + 1], k)
  <2>1. f = [l \in 0 .. h |-> IF l = h THEN root ELSE nextFor(f[l + 1], k)]
    BY <1>2 DEF Descends
  <2>2. h \in 0 .. h
    BY <1>3
  <2>3. \A l \in 0 .. h : f[l] = IF l = h THEN root ELSE nextFor(f[l + 1], k)
    BY <2>1
  <2>4. QED
    BY <2>2, <2>3
<1> DEFINE passed == {l \in Nat : l <= h /\ Passes(f, k, kin, l)}
<1>6. h \in passed
  <2>1. Passes(f, k, kin, h)
    BY <1>2, <1>3, <1>5 DEF Passes
  <2>2. QED
    BY <1>3, <2>1
<1>7. PICK b \in passed : \A c \in passed : b <= c
  <2>1. passed \in SUBSET Nat /\ passed # {}
    BY <1>6
  <2>2. QED
    BY <2>1, LeastNatural
<1>8. b \in Nat /\ b <= h /\ Passes(f, k, kin, b)
  OBVIOUS
<1>9. b = 0
  <2>1. SUFFICES ASSUME b # 0 PROVE FALSE
    OBVIOUS
  <2>2. PICK a : a = b - 1
    OBVIOUS
  <2>3. a \in Nat /\ b = a + 1 /\ ~(b <= a) /\ a <= h /\ a # h /\ a \in 0 .. h
    BY <1>3, <1>8, <2>1, <2>2
  <2>4. /\ f[b] \in DOMAIN heap /\ heap[f[b]].level = b
        /\ k \in kin[root] => k \in kin[f[b]]
    BY <1>8 DEF Passes
  <2>5. f[b] \in Inner
    BY <1>4, <2>1, <2>4
  <2>6. /\ nextFor(f[b], k) \in DOMAIN heap
        /\ heap[nextFor(f[b], k)].level + 1 = heap[f[b]].level
        /\ heap[nextFor(f[b], k)].level \in Nat
        /\ k \in kin[f[b]] => k \in kin[nextFor(f[b], k)]
    BY <1>1, <2>5, KeyBelowNext
  <2>7. f[a] = nextFor(f[b], k)
    BY <1>5, <2>3
  <2>8. /\ f[a] \in DOMAIN heap /\ k \in kin[root] => k \in kin[f[a]]
    BY <2>4, <2>6, <2>7
  <2>9. heap[f[a]].level = a
    <3>1. PICK x : x = heap[f[a]].level
      OBVIOUS
    <3>2. x \in Nat /\ x + 1 = b
      BY <2>4, <2>6, <2>7, <3>1
    <3>3. x = a
      BY <2>3, <3>2
    <3>4. QED
      BY <3>1, <3>3
  <2>10. f[a] \in DOMAIN heap
    BY <2>6, <2>7
  <2>11. Passes(f, k, kin, a)
    BY <2>8, <2>9, <2>10 DEF Passes
  <2>12. QED
    BY <1>7, <2>3, <2>11
<1>10. /\ f[0] \in DOMAIN heap /\ heap[f[0]].level = 0
       /\ k \in kin[root] => k \in kin[f[0]]
  BY <1>8, <1>9 DEF Passes
<1>11. f[0] \in Leaves
  BY <1>10 DEF Leaves, isleafnode
<1>12. QED
  BY <1>10, <1>11

\* Between calls a descent finds exactly the keys that are stored.
LEMMA DescentFinds ==
  ASSUME FoundInv, quiet, NEW k \in Keys
  PROVE  k \in heap[leafOf(k)].items <=> k \in stored
<1>1. KeptInv /\ ShapeInv /\ TypeOK /\ Kept /\ pc = "idle" /\ root # Null
  BY FoundNow DEF KeptInv, ShapeInv, quiet
<1>2. gone = Null /\ newchild = Null /\ LiveLeaves = Leaves /\ present = stored
  BY <1>1, Quiet DEF present
<1>3. PICK kin : Known(kin)
  BY FoundNow DEF Known
<1>4. heap[root].level \in Nat
  <2>1. root \in DOMAIN heap
    BY <1>1 DEF TypeOK
  <2>2. QED
    BY <1>1, <2>1, Levels
<1>5. PICK f : Descends(f, k) /\ leafOf(k) = f[0]
  BY <1>4, DescentGoesOn, LeafOfDescent
<1>6. f[0] \in Leaves /\ (k \in kin[root] => k \in kin[f[0]])
  BY <1>3, <1>5, DescentLeads
<1>7. /\ \A n \in Leaves : kin[n] = heap[n].items
      /\ kin[root] = stored
  BY <1>1, <1>2, <1>3 DEF Known, Under, rootSplit
<1>8. heap[f[0]].items \subseteq stored
  BY <1>2, <1>1, <1>6 DEF Kept
<1>9. QED
  BY <1>5, <1>6, <1>7, <1>8

\* A key that was inserted and not erased stays where the descents end,
\* whatever was split, merged or balanced since, and no other key does.
THEOREM KeysStayInTree == Spec => []KeysFound
<1>1. FoundInv => KeysFound
  <2>1. SUFFICES ASSUME FoundInv PROVE KeysFound
    OBVIOUS
  <2>2. quiet => \A k \in Keys : k \in heap[leafOf(k)].items <=> k \in stored
    BY <2>1, DescentFinds
  <2>3. root = Null => stored = {}
    BY <2>1, FoundNow DEF KeptInv, Recorded
  <2>4. QED
    BY <2>2, <2>3 DEF KeysFound
<1>2. QED
  BY <1>1, KeysPartedInside, PTL

-----------------------------------------------------------------------------
(* Lists of leaves in the order of their keys *)

\* The leaves hold numbers.
Numbers(h, L) == \A n \in L : \A k \in h[n].items : k \in Nat

\* A leaf between two others keeps them apart.
LEMMA BeforeThrough ==
  ASSUME NEW A, NEW B, NEW C, \A k \in A : k \in Nat, \A k \in B : k \in Nat,
         \A k \in C : k \in Nat, Before(A, B), Before(B, C), B # {}
  PROVE  Before(A, C)
<1>1. PICK b \in B : b \in Nat
  OBVIOUS
<1>2. SUFFICES ASSUME NEW a \in A, NEW c \in C PROVE a < c
  BY DEF Before
<1>3. a < b /\ b < c
  BY <1>1 DEF Before
<1>4. a \in Nat /\ c \in Nat
  OBVIOUS
<1>5. QED
  BY <1>1, <1>3, <1>4

\* Two leaves with keys come before one another in one way only.
LEMMA BeforeOnce ==
  ASSUME NEW A, NEW B, \A k \in A : k \in Nat, \A k \in B : k \in Nat,
         Before(A, B), Before(B, A), A # {}, B # {}
  PROVE  FALSE
<1>1. PICK a \in A, b \in B : TRUE
  OBVIOUS
<1>2. a < b /\ b < a /\ a \in Nat /\ b \in Nat
  BY DEF Before
<1>3. QED
  BY <1>2

\* Before(h, n, m) for leaves n and m.
Less(h, n, m) == Before(h[n].items, h[m].items)

\* The order of the leaves other than some is transitive and strict.
Strict(h, L) ==
  /\ \A n, m, o \in L : Less(h, n, m) /\ Less(h, m, o) => Less(h, n, o)
  /\ \A n, m \in L : ~(Less(h, n, m) /\ Less(h, m, n))

\* It is, where no leaf is empty.
LEMMA LeavesStrict ==
  ASSUME NEW h, NEW L, Numbers(h, L), \A n \in L : h[n].items # {}
  PROVE  Strict(h, L)
<1>1. ASSUME NEW n \in L, NEW m \in L, NEW o \in L, Less(h, n, m), Less(h, m, o)
      PROVE  Less(h, n, o)
  <2>1. /\ \A k \in h[n].items : k \in Nat
        /\ \A k \in h[m].items : k \in Nat
        /\ \A k \in h[o].items : k \in Nat
    BY DEF Numbers
  <2>2. Before(h[n].items, h[m].items) /\ Before(h[m].items, h[o].items)
    BY <1>1 DEF Less
  <2>3. h[m].items # {}
    OBVIOUS
  <2>4. Before(h[n].items, h[o].items)
    BY <2>1, <2>2, <2>3, BeforeThrough
  <2>5. QED
    BY <2>4 DEF Less
<1>2. ASSUME NEW n \in L, NEW m \in L, Less(h, n, m), Less(h, m, n) PROVE FALSE
  <2>1. /\ \A k \in h[n].items : k \in Nat
        /\ \A k \in h[m].items : k \in Nat
    BY DEF Numbers
  <2>2. Before(h[n].items, h[m].items) /\ Before(h[m].items, h[n].items)
    BY <1>2 DEF Less
  <2>3. h[n].items # {} /\ h[m].items # {}
    OBVIOUS
  <2>4. QED
    BY <2>1, <2>2, <2>3, BeforeOnce
<1>3. QED
  BY <1>1, <1>2 DEF Strict

\* InOrder in terms of Less.
LEMMA OrderForm ==
  ASSUME NEW h, NEW L
  PROVE  InOrder(h, L) <=>
           \A n \in L :
             /\ h[n].nextleaf = Null => \A o \in L \ {n} : Less(h, o, n)
             /\ h[n].nextleaf # Null =>
                  /\ Less(h, n, h[n].nextleaf)
                  /\ \A o \in L \ {n, h[n].nextleaf} :
                       Less(h, o, n) \/ Less(h, h[n].nextleaf, o)
BY DEF InOrder, EndOf, NextTo, Less

\* The leaves keep their places, though they may lose keys or gain some.
Places(g, h, L) ==
  /\ \A n \in L : g[n].nextleaf = h[n].nextleaf
  /\ \A m, n \in L : m # n /\ Less(h, m, n) => Less(g, m, n)

\* So they stay in order.
LEMMA OrderStays ==
  ASSUME NEW h, NEW L, InOrder(h, L), NEW first, NEW last, Linked(h, L, first, last),
         NEW g, Places(g, h, L)
  PROVE  InOrder(g, L)
<1>1. SUFFICES ASSUME NEW n \in L
               PROVE  /\ g[n].nextleaf = Null => \A o \in L \ {n} : Less(g, o, n)
                      /\ g[n].nextleaf # Null =>
                           /\ Less(g, n, g[n].nextleaf)
                           /\ \A o \in L \ {n, g[n].nextleaf} :
                                Less(g, o, n) \/ Less(g, g[n].nextleaf, o)
  BY OrderForm
<1>2. /\ h[n].nextleaf = Null => \A o \in L \ {n} : Less(h, o, n)
      /\ h[n].nextleaf # Null =>
           /\ Less(h, n, h[n].nextleaf)
           /\ \A o \in L \ {n, h[n].nextleaf} :
                Less(h, o, n) \/ Less(h, h[n].nextleaf, o)
  BY OrderForm
<1>3. h[n].nextleaf # Null => h[n].nextleaf \in L \ {n}
  BY DEF Linked
<1>4. /\ g[n].nextleaf = h[n].nextleaf
      /\ \A a, b \in L : a # b /\ Less(h, a, b) => Less(g, a, b)
  BY DEF Places
<1>5. QED
  BY <1>2, <1>3, <1>4

\* Nodes with the same links.
LEMMA LinksStay ==
  ASSUME NEW h, NEW L, NEW first, NEW last, Linked(h, L, first, last), NEW g,
         \A n \in L : g[n].nextleaf = h[n].nextleaf /\ g[n].prevleaf = h[n].prevleaf
  PROVE  Linked(g, L, first, last)
BY DEF Linked

\* Leaf c has given some keys to a new leaf f behind it.
Inserts(g, h, L, c, f) ==
  /\ c \in L /\ f \notin L /\ f # Null
  /\ g[c].nextleaf = f /\ g[c].prevleaf = h[c].prevleaf
  /\ g[f].nextleaf = h[c].nextleaf /\ g[f].prevleaf = c
  /\ \A n \in L : n # c => g[n].nextleaf = h[n].nextleaf
  /\ \A n \in L : n # c =>
       g[n].prevleaf = IF n = h[c].nextleaf THEN f ELSE h[n].prevleaf

\* The list is one leaf longer.
LEMMA LinksGrow ==
  ASSUME NEW h, NEW L, NEW first, NEW last, Linked(h, L, first, last),
         Null \notin L, first \in L, last \in L,
         NEW g, NEW c, NEW f, Inserts(g, h, L, c, f)
  PROVE  Linked(g, L \cup {f}, first, IF h[c].nextleaf = Null THEN f ELSE last)
<1>1. PICK end : end = IF h[c].nextleaf = Null THEN f ELSE last
  OBVIOUS
<1>2. /\ c \in L /\ f \notin L /\ f # Null
      /\ g[c].nextleaf = f /\ g[c].prevleaf = h[c].prevleaf
      /\ g[f].nextleaf = h[c].nextleaf /\ g[f].prevleaf = c
      /\ \A n \in L : n # c => g[n].nextleaf = h[n].nextleaf
      /\ \A n \in L : n # c =>
           g[n].prevleaf = IF n = h[c].nextleaf THEN f ELSE h[n].prevleaf
  BY DEF Inserts
<1>3. \A n \in L :
        /\ h[n].nextleaf = Null <=> n = last
        /\ h[n].nextleaf # Null => h[n].nextleaf \in L \ {n} /\ h[h[n].nextleaf].prevleaf = n
        /\ h[n].prevleaf = Null <=> n = first
        /\ h[n].prevleaf # Null => h[n].prevleaf \in L \ {n} /\ h[h[n].prevleaf].nextleaf = n
  BY DEF Linked
<1>4. first # f
  BY <1>2, <1>3
<1>5. ASSUME NEW n \in L \cup {f}
      PROVE  /\ g[n].nextleaf = Null <=> n = end
             /\ g[n].nextleaf # Null => /\ g[n].nextleaf \in (L \cup {f}) \ {n}
                                        /\ g[g[n].nextleaf].prevleaf = n
             /\ g[n].prevleaf = Null <=> n = first
             /\ g[n].prevleaf # Null => /\ g[n].prevleaf \in (L \cup {f}) \ {n}
                                        /\ g[g[n].prevleaf].nextleaf = n
  <2>1. CASE n = f
    BY <1>1, <1>2, <1>3, <1>4, <2>1
  <2>2. CASE n = c
    BY <1>1, <1>2, <1>3, <1>4, <2>2
  <2>3. CASE n # f /\ n # c
    BY <1>1, <1>2, <1>3, <1>4, <2>3
  <2>4. QED
    BY <2>1, <2>2, <2>3
<1>6. QED
  BY <1>1, <1>5 DEF Linked

\* The keys of leaf c are divided between c and f.
Divides(g, h, L, c, f) ==
  /\ Less(g, c, f)
  /\ \A n \in L : n # c =>
       /\ Less(h, n, c) => Less(g, n, c) /\ Less(g, n, f)
       /\ Less(h, c, n) => Less(g, c, n) /\ Less(g, f, n)
  /\ \A m, n \in L : m # c /\ n # c /\ Less(h, m, n) => Less(g, m, n)

\* They stay in order.
LEMMA OrderGrows ==
  ASSUME NEW h, NEW L, NEW first, NEW last, Linked(h, L, first, last), InOrder(h, L),
         Strict(h, L), Null \notin L, NEW g, NEW c, NEW f, Inserts(g, h, L, c, f),
         Divides(g, h, L, c, f)
  PROVE  InOrder(g, L \cup {f})
<1>1. /\ c \in L /\ f \notin L /\ f # Null
      /\ g[c].nextleaf = f /\ g[f].nextleaf = h[c].nextleaf
      /\ \A n \in L : n # c => g[n].nextleaf = h[n].nextleaf
  BY DEF Inserts
<1>2. \A n \in L : h[n].nextleaf # Null => h[n].nextleaf \in L \ {n}
  BY DEF Linked
<1>3. \A n \in L :
        /\ h[n].nextleaf = Null => \A o \in L \ {n} : Less(h, o, n)
        /\ h[n].nextleaf # Null =>
             /\ Less(h, n, h[n].nextleaf)
             /\ \A o \in L \ {n, h[n].nextleaf} : Less(h, o, n) \/ Less(h, h[n].nextleaf, o)
  BY OrderForm
<1>4. /\ \A n, m, o \in L : Less(h, n, m) /\ Less(h, m, o) => Less(h, n, o)
      /\ \A n, m \in L : ~(Less(h, n, m) /\ Less(h, m, n))
  BY DEF Strict
<1>5. /\ Less(g, c, f)
      /\ \A n \in L : n # c /\ Less(h, n, c) => Less(g, n, c) /\ Less(g, n, f)
      /\ \A n \in L : n # c /\ Less(h, c, n) => Less(g, c, n) /\ Less(g, f, n)
      /\ \A m, n \in L : m # c /\ n # c /\ Less(h, m, n) => Less(g, m, n)
  BY DEF Divides
<1>6. SUFFICES ASSUME NEW n \in L \cup {f}
               PROVE  /\ g[n].nextleaf = Null => \A o \in (L \cup {f}) \ {n} : Less(g, o, n)
                      /\ g[n].nextleaf # Null =>
                           /\ Less(g, n, g[n].nextleaf)
                           /\ \A o \in (L \cup {f}) \ {n, g[n].nextleaf} :
                                Less(g, o, n) \/ Less(g, g[n].nextleaf, o)
  BY OrderForm
<1>7. PICK x : x = h[c].nextleaf
  OBVIOUS
<1>8. x # Null => x \in L /\ x # c /\ Less(h, c, x)
  BY <1>1, <1>2, <1>3, <1>7
\* A leaf other than c and the next one is before c or after the next one.
<1>9. ASSUME NEW o \in L, o # c, o # x PROVE Less(h, o, c) \/ (x # Null /\ Less(h, x, o))
  BY <1>1, <1>3, <1>7, <1>9
<1>10. ASSUME NEW o \in L, o # c, o # x, x # Null, Less(h, x, o) PROVE Less(h, c, o) /\ Less(g, x, o)
  BY <1>1, <1>4, <1>5, <1>8, <1>10
<1>11. CASE n = f
  <2>1. g[f].nextleaf = x
    BY <1>1, <1>7
  <2>2. x # Null => Less(g, f, x)
    BY <1>5, <1>8
  <2>3. ASSUME NEW o \in L, o # x
        PROVE  Less(g, o, f) \/ (x # Null /\ Less(g, x, o))
    <3>1. CASE o = c
      BY <1>5, <3>1
    <3>2. CASE o # c
      BY <1>5, <1>9, <1>10, <2>3, <3>2
    <3>3. QED
      BY <3>1, <3>2
  <2>4. x = Null => \A o \in L : o # x
    BY <1>7
  <2>5. QED
    BY <1>1, <1>11, <2>1, <2>2, <2>3, <2>4
<1>12. CASE n = c
  <2>1. g[c].nextleaf = f /\ f # Null /\ Less(g, c, f)
    BY <1>1, <1>5
  <2>2. ASSUME NEW o \in L, o # c PROVE Less(g, o, c) \/ Less(g, f, o)
    <3>1. CASE o = x
      BY <1>5, <1>8, <2>2, <3>1
    <3>2. CASE o # x
      BY <1>5, <1>9, <1>10, <2>2, <3>2
    <3>3. QED
      BY <3>1, <3>2
  <2>3. QED
    BY <1>12, <2>1, <2>2
<1>13. CASE n # f /\ n # c
  <2>1. n \in L
    BY <1>13
  <2>2. PICK m : m = h[n].nextleaf
    OBVIOUS
  <2>3. g[n].nextleaf = m
    BY <1>1, <1>13, <2>1, <2>2
  <2>4. /\ m = Null => \A o \in L \ {n} : Less(h, o, n)
        /\ m # Null => m \in L /\ m # n /\ Less(h, n, m)
        /\ m # Null => \A o \in L \ {n, m} : Less(h, o, n) \/ Less(h, m, o)
    BY <1>2, <1>3, <2>1, <2>2
  <2>5. m # Null => Less(g, n, m)
    <3>1. CASE m = c
      BY <1>5, <1>13, <2>1, <2>4, <3>1
    <3>2. CASE m # c
      BY <1>5, <1>13, <2>1, <2>4, <3>2
    <3>3. QED
      BY <3>1, <3>2
  <2>6. ASSUME NEW o \in L, o # n, o # m
        PROVE  Less(g, o, n) \/ (m # Null /\ Less(g, m, o))
    <3>1. Less(h, o, n) \/ (m # Null /\ Less(h, m, o))
      BY <2>4, <2>6
    <3>2. ASSUME Less(h, o, n) PROVE Less(g, o, n)
      <4>1. CASE o = c
        BY <1>5, <1>13, <2>1, <3>2, <4>1
      <4>2. CASE o # c
        BY <1>5, <1>13, <2>1, <3>2, <4>2
      <4>3. QED
        BY <4>1, <4>2
    <3>3. ASSUME m # Null, Less(h, m, o) PROVE Less(g, m, o)
      <4>1. m \in L
        BY <2>4, <3>3
      <4>2. CASE o = c
        BY <1>5, <2>6, <3>3, <4>1, <4>2
      <4>3. CASE o # c /\ m = c
        BY <1>5, <2>6, <3>3, <4>1, <4>3
      <4>4. CASE o # c /\ m # c
        BY <1>5, <2>6, <3>3, <4>1, <4>4
      <4>5. QED
        BY <4>2, <4>3, <4>4
    <3>4. QED
      BY <3>1, <3>2, <3>3
  \* The new leaf lies where c did.
  <2>7. Less(g, f, n) \/ (m # Null /\ Less(g, m, f))
    <3>1. CASE m = c
      BY <1>1, <1>5, <3>1
    <3>2. CASE m # c
      <4>1. Less(h, c, n) \/ (m # Null /\ Less(h, m, c))
        BY <1>1, <1>13, <2>4, <3>2
      <4>2. CASE Less(h, c, n)
        BY <1>5, <1>13, <2>1, <4>2
      <4>3. CASE m # Null /\ Less(h, m, c)
        <5>1. m \in L
          BY <2>4, <4>3
        <5>2. QED
          BY <1>5, <3>2, <4>3, <5>1
      <4>4. QED
        BY <4>1, <4>2, <4>3
    <3>3. QED
      BY <3>1, <3>2
  <2>8. m # f
    BY <1>1, <2>4
  <2>9. m = Null => \A o \in L : o # m
    BY <2>4
  <2>10. QED
    BY <1>13, <2>3, <2>5, <2>6, <2>7, <2>8, <2>9
<1>14. QED
  BY <1>11, <1>12, <1>13

\* Leaf l takes the place of itself and of the next leaf r.
Removes(g, h, L, l, r) ==
  /\ l \in L /\ r \in L /\ l # r /\ h[l].nextleaf = r
  /\ g[l].nextleaf = h[r].nextleaf
  /\ \A n \in L \ {l, r} : g[n].nextleaf = h[n].nextleaf
  /\ \A n \in L \ {r} : g[n].prevleaf = IF n = h[r].nextleaf THEN l ELSE h[n].prevleaf

\* The list is one leaf shorter.
LEMMA LinksShrink ==
  ASSUME NEW h, NEW L, NEW first, NEW last, Linked(h, L, first, last), Null \notin L,
         NEW g, NEW l, NEW r, Removes(g, h, L, l, r), h[r].nextleaf # l
  PROVE  /\ Linked(g, L \ {r}, first, IF h[r].nextleaf = Null THEN l ELSE last)
         /\ first # r
<1>1. PICK end : end = IF h[r].nextleaf = Null THEN l ELSE last
  OBVIOUS
<1>2. /\ l \in L /\ r \in L /\ l # r /\ h[l].nextleaf = r
      /\ g[l].nextleaf = h[r].nextleaf
      /\ \A n \in L \ {l, r} : g[n].nextleaf = h[n].nextleaf
      /\ \A n \in L \ {r} : g[n].prevleaf = IF n = h[r].nextleaf THEN l ELSE h[n].prevleaf
  BY DEF Removes
<1>3. \A n \in L :
        /\ h[n].nextleaf = Null <=> n = last
        /\ h[n].nextleaf # Null => h[n].nextleaf \in L \ {n} /\ h[h[n].nextleaf].prevleaf = n
        /\ h[n].prevleaf = Null <=> n = first
        /\ h[n].prevleaf # Null => h[n].prevleaf \in L \ {n} /\ h[h[n].prevleaf].nextleaf = n
  BY DEF Linked
<1>4. r # Null /\ h[r].prevleaf = l /\ first # r /\ l # last
  BY <1>2, <1>3
<1>5. \A n \in L : h[n].nextleaf = r => n = l
  BY <1>3, <1>4
<1>6. PICK x : x = h[r].nextleaf
  OBVIOUS
<1>7. x # Null => x \in L /\ x # r /\ x # l /\ h[x].prevleaf = r
  BY <1>2, <1>3, <1>6
<1>8. \A n \in L : h[n].nextleaf = x /\ x # Null => n = r
  BY <1>3, <1>7
<1>9. ASSUME NEW n \in L \ {r}
      PROVE  /\ g[n].nextleaf = Null <=> n = end
             /\ g[n].nextleaf # Null => /\ g[n].nextleaf \in (L \ {r}) \ {n}
                                        /\ g[g[n].nextleaf].prevleaf = n
  <2>1. CASE n = l
    <3>1. g[l].nextleaf = x
      BY <1>2, <1>6
    <3>2. x = Null <=> l = end
      BY <1>1, <1>4, <1>6
    <3>3. x # Null => x \in (L \ {r}) \ {l} /\ g[x].prevleaf = l
      BY <1>2, <1>6, <1>7
    <3>4. QED
      BY <2>1, <3>1, <3>2, <3>3
  <2>2. CASE n # l
    <3>1. n \in L \ {l, r} /\ g[n].nextleaf = h[n].nextleaf
      BY <1>2, <2>2
    <3>2. PICK m : m = h[n].nextleaf
      OBVIOUS
    <3>3. m = Null <=> n = last
      BY <1>3, <3>1, <3>2
    <3>4. x = Null => r = last
      BY <1>2, <1>3, <1>6
    <3>5. m = Null <=> n = end
      BY <1>1, <1>6, <2>2, <3>1, <3>3, <3>4
    <3>6. m # Null => m \in L \ {n} /\ m # r /\ m # x /\ h[m].prevleaf = n
      BY <1>3, <1>5, <1>8, <2>2, <3>1, <3>2
    <3>7. m # Null => g[m].prevleaf = n
      BY <1>2, <1>6, <3>6
    <3>8. QED
      BY <3>1, <3>2, <3>5, <3>6, <3>7
  <2>3. QED
    BY <2>1, <2>2
<1>10. ASSUME NEW n \in L \ {r}
       PROVE  /\ g[n].prevleaf = Null <=> n = first
              /\ g[n].prevleaf # Null => /\ g[n].prevleaf \in (L \ {r}) \ {n}
                                         /\ g[g[n].prevleaf].nextleaf = n
  <2>1. CASE n = x
    <3>1. x # Null /\ g[n].prevleaf = l /\ l # Null
      BY <1>2, <1>6, <2>1
    <3>2. h[n].prevleaf # Null
      BY <1>4, <1>7, <2>1, <3>1
    <3>3. n # first
      BY <1>3, <3>2
    <3>4. l \in (L \ {r}) \ {n} /\ g[l].nextleaf = n
      BY <1>2, <1>6, <1>7, <2>1, <3>1
    <3>5. QED
      BY <3>1, <3>3, <3>4
  <2>2. CASE n # x
    <3>1. g[n].prevleaf = h[n].prevleaf
      BY <1>2, <1>6, <2>2
    <3>2. PICK m : m = h[n].prevleaf
      OBVIOUS
    <3>3. m = Null <=> n = first
      BY <1>3, <3>2
    <3>4. m # Null => m \in L \ {n} /\ h[m].nextleaf = n /\ m # r
      BY <1>3, <1>6, <2>2, <3>2
    <3>5. m # Null => m # l
      BY <1>2, <3>4
    <3>6. m # Null => g[m].nextleaf = n
      BY <1>2, <3>4, <3>5
    <3>7. QED
      BY <3>1, <3>2, <3>3, <3>4, <3>6
  <2>3. QED
    BY <2>1, <2>2
<1>11. Linked(g, L \ {r}, first, end)
  BY <1>9, <1>10 DEF Linked
<1>12. QED
  BY <1>1, <1>4, <1>11

\* Leaf l takes keys of r, and leaves may lose some.
Joins(g, h, L, l, r) ==
  /\ \A n \in L : n # l /\ n # r =>
       /\ Less(h, n, l) /\ Less(h, n, r) => Less(g, n, l)
       /\ Less(h, l, n) /\ Less(h, r, n) => Less(g, l, n)
  /\ \A m, n \in L : m \notin {l, r} /\ n \notin {l, r} /\ Less(h, m, n) => Less(g, m, n)

\* The others keep their places.
LEMMA OrderShrinks ==
  ASSUME NEW h, NEW L, NEW first, NEW last, Linked(h, L, first, last), InOrder(h, L),
         Strict(h, L), Null \notin L, NEW g, NEW l, NEW r, Removes(g, h, L, l, r),
         Joins(g, h, L, l, r)
  PROVE  InOrder(g, L \ {r}) /\ h[r].nextleaf # l
<1>1. /\ l \in L /\ r \in L /\ l # r /\ h[l].nextleaf = r
      /\ g[l].nextleaf = h[r].nextleaf
      /\ \A n \in L \ {l, r} : g[n].nextleaf = h[n].nextleaf
  BY DEF Removes
<1>2. \A n \in L : /\ h[n].nextleaf # Null => h[n].nextleaf \in L \ {n}
                   /\ h[n].nextleaf # Null => h[h[n].nextleaf].prevleaf = n
  BY DEF Linked
<1>3. \A n \in L :
        /\ h[n].nextleaf = Null => \A o \in L \ {n} : Less(h, o, n)
        /\ h[n].nextleaf # Null =>
             /\ Less(h, n, h[n].nextleaf)
             /\ \A o \in L \ {n, h[n].nextleaf} : Less(h, o, n) \/ Less(h, h[n].nextleaf, o)
  BY OrderForm
<1>4. /\ \A n, m, o \in L : Less(h, n, m) /\ Less(h, m, o) => Less(h, n, o)
      /\ \A n, m \in L : ~(Less(h, n, m) /\ Less(h, m, n))
  BY DEF Strict
<1>5. /\ \A n \in L : n # l /\ n # r /\ Less(h, n, l) /\ Less(h, n, r) => Less(g, n, l)
      /\ \A n \in L : n # l /\ n # r /\ Less(h, l, n) /\ Less(h, r, n) => Less(g, l, n)
      /\ \A m, n \in L : m \notin {l, r} /\ n \notin {l, r} /\ Less(h, m, n) => Less(g, m, n)
  BY DEF Joins
<1>6. PICK x : x = h[r].nextleaf
  OBVIOUS
<1>7. /\ Less(h, l, r)
      /\ \A o \in L \ {l, r} : Less(h, o, l) \/ Less(h, r, o)
  BY <1>1, <1>3
<1>8. /\ x # Null => x \in L /\ x # r /\ Less(h, r, x)
      /\ x # Null => \A o \in L \ {r, x} : Less(h, o, r) \/ Less(h, x, o)
      /\ x = Null => \A o \in L \ {r} : Less(h, o, r)
  BY <1>1, <1>2, <1>3, <1>6
<1>9. x # l
  BY <1>1, <1>4, <1>7, <1>8
\* The others are before both of the leaves or after both of them.
<1>10. ASSUME NEW o \in L, o # l, o # r
       PROVE  \/ Less(h, o, l) /\ Less(h, o, r)
              \/ Less(h, l, o) /\ Less(h, r, o)
  BY <1>1, <1>4, <1>7, <1>10
<1>11. SUFFICES ASSUME NEW n \in L \ {r}
               PROVE  /\ g[n].nextleaf = Null => \A o \in (L \ {r}) \ {n} : Less(g, o, n)
                      /\ g[n].nextleaf # Null =>
                           /\ Less(g, n, g[n].nextleaf)
                           /\ \A o \in (L \ {r}) \ {n, g[n].nextleaf} :
                                Less(g, o, n) \/ Less(g, g[n].nextleaf, o)
  BY <1>6, <1>9, OrderForm
<1>12. CASE n = l
  <2>1. g[n].nextleaf = x
    BY <1>1, <1>6, <1>12
  <2>2. x # Null => Less(g, l, x)
    <3>1. SUFFICES ASSUME x # Null PROVE Less(g, l, x)
      OBVIOUS
    <3>2. x \in L /\ x # l /\ x # r /\ Less(h, r, x)
      BY <1>8, <1>9, <3>1
    <3>3. Less(h, l, x)
      BY <1>1, <1>4, <1>7, <3>2
    <3>4. QED
      BY <1>5, <3>2, <3>3
  <2>3. ASSUME NEW o \in L, o # l, o # r, o # x
        PROVE  Less(g, o, l) \/ (x # Null /\ Less(g, x, o))
    <3>1. CASE Less(h, o, l) /\ Less(h, o, r)
      BY <1>5, <2>3, <3>1
    <3>2. CASE Less(h, l, o) /\ Less(h, r, o)
      <4>1. ~Less(h, o, r)
        BY <1>1, <1>4, <3>2
      <4>2. x # Null /\ Less(h, x, o)
        BY <1>8, <2>3, <4>1
      <4>3. x \in L /\ x # l /\ x # r
        BY <1>8, <1>9, <4>2
      <4>4. QED
        BY <1>5, <2>3, <4>2, <4>3
    <3>3. QED
      BY <1>10, <2>3, <3>1, <3>2
  <2>4. x = Null => \A o \in L : o # x
    OBVIOUS
  <2>5. QED
    BY <1>12, <2>1, <2>2, <2>3, <2>4
<1>13. CASE n # l
  <2>1. n \in L /\ n # l /\ n # r /\ g[n].nextleaf = h[n].nextleaf
    BY <1>1, <1>13
  <2>2. PICK m : m = h[n].nextleaf
    OBVIOUS
  <2>3. /\ m = Null => \A o \in L \ {n} : Less(h, o, n)
        /\ m # Null => m \in L /\ m # n /\ Less(h, n, m)
        /\ m # Null => \A o \in L \ {n, m} : Less(h, o, n) \/ Less(h, m, o)
    BY <1>2, <1>3, <2>1, <2>2
  <2>4. m # r
    <3>1. SUFFICES ASSUME m = r PROVE FALSE
      OBVIOUS
    <3>2. m # Null
      BY <1>1, <3>1
    <3>3. Less(h, n, r)
      BY <2>3, <3>1, <3>2
    <3>4. Less(h, l, n) \/ Less(h, r, l)
      BY <1>1, <2>1, <2>3, <3>1, <3>2
    <3>5. Less(h, n, l) \/ Less(h, r, n)
      BY <1>7, <2>1
    <3>6. QED
      BY <1>1, <1>4, <1>7, <2>1, <3>3, <3>4, <3>5
  <2>5. m # Null => Less(g, n, m)
    <3>1. CASE m = l
      <4>1. m # Null => Less(h, n, l)
        BY <2>3, <3>1
      <4>2. m # Null => Less(h, n, r)
        BY <1>1, <1>4, <1>7, <2>1, <4>1
      <4>3. QED
        BY <1>5, <2>1, <3>1, <4>1, <4>2
    <3>2. CASE m # l
      BY <1>5, <2>1, <2>3, <2>4, <3>2
    <3>3. QED
      BY <3>1, <3>2
  <2>6. ASSUME NEW o \in L, o # r, o # n, o # m
        PROVE  Less(g, o, n) \/ (m # Null /\ Less(g, m, o))
    <3>1. Less(h, o, n) \/ (m # Null /\ Less(h, m, o))
      BY <2>3, <2>6
    <3>2. ASSUME Less(h, o, n) PROVE Less(g, o, n)
      <4>1. CASE o = l
        <5>1. Less(h, l, n) /\ Less(h, r, n)
          BY <1>1, <1>4, <1>10, <2>1, <3>2, <4>1
        <5>2. QED
          BY <1>5, <2>1, <4>1, <5>1
      <4>2. CASE o # l
        BY <1>5, <2>1, <2>6, <3>2, <4>2
      <4>3. QED
        BY <4>1, <4>2
    <3>3. ASSUME m # Null, Less(h, m, o) PROVE Less(g, m, o)
      <4>1. m \in L /\ m # r
        BY <2>3, <2>4, <3>3
      <4>2. CASE o = l
        <5>1. m # l
          BY <2>6, <4>2
        <5>2. Less(h, m, l) /\ Less(h, m, r)
          BY <1>1, <1>4, <1>10, <3>3, <4>1, <4>2, <5>1
        <5>3. QED
          BY <1>5, <4>1, <4>2, <5>1, <5>2
      <4>3. CASE o # l /\ m = l
        <5>1. Less(h, l, o) /\ Less(h, r, o)
          BY <1>1, <1>4, <1>10, <2>6, <3>3, <4>3
        <5>2. QED
          BY <1>5, <2>6, <4>3, <5>1
      <4>4. CASE o # l /\ m # l
        BY <1>5, <2>6, <3>3, <4>1, <4>4
      <4>5. QED
        BY <4>2, <4>3, <4>4
    <3>4. QED
      BY <3>1, <3>2, <3>3
  <2>7. m = Null => \A o \in L : o # m
    OBVIOUS
  <2>8. QED
    BY <2>1, <2>2, <2>5, <2>6, <2>7
<1>14. QED
  BY <1>12, <1>13

-----------------------------------------------------------------------------
(* Where the key of a call lies *)

\* The stored keys that are not in S lie on the same side of all of S and of
\* the key of the call.
Aside(S) == \A j \in S, k \in stored : k \notin S /\ k # key => (k < key <=> k < j)

\* Separators keep the others aside.
LEMMA AsideBelow ==
  ASSUME ShapeInv, descending, NEW kin, Known(kin), NEW e \in 1 .. Len(stack) - 1,
         Aside(kin[stack[e].node]), stored \subseteq Nat, key \in Nat
  PROVE  Aside(kin[stack[e + 1].node])
<1>1. /\ TypeOK /\ LinkedOnce /\ StackLeadsDown /\ KinType(kin) /\ Under(kin) /\ RightWay
      /\ \A n \in LiveInner : InnerFilled(n)
  BY DEF ShapeInv, Tree, CallUnderWay, Known
<1>2. stack # <<>> /\ newchild = Null /\ ~fixmerge /\ LiveInner = Inner
  BY OnTheWay
<1>3. Len(stack) \in Nat
  BY <1>1, <1>2, StackEnds
<1>4. PICK p, s : p = stack[e].node /\ s = stack[e].slot
  OBVIOUS
<1>5. e \in 1 .. Len(stack) /\ e < Len(stack)
  BY <1>3
<1>6. p \in Inner /\ s \in 0 .. slotuse(p) /\ stack[e + 1].node = child(p, s)
  <2>1. FrameAt(e) /\ FramesMeet(e)
    BY <1>1, <1>5 DEF StackLeadsDown
  <2>2. p \in Inner
    BY <1>4, <1>5, <2>1 DEF FrameAt
  <2>3. s \in 0 .. slotuse(p)
    BY <1>4, <1>5, <2>1, <2>2 DEF FrameAt
  <2>4. QED
    BY <1>4, <2>1, <2>2, <2>3 DEF FramesMeet
<1>7. PICK K, c, C : KnownNode(p, kin, K, c, C)
  BY <1>1, <1>2, <1>6, SomeNode
<1>8. K = heap[p].slotkey /\ C = heap[p].childid /\ c = Len(K) /\ c \in Nat /\ DOMAIN K = 1 .. c
      /\ NatUpTo(K, c) /\ NatBelow(C, c + 1, kin)
  BY <1>7 DEF KnownNode
<1>9. s \in 0 .. c
  <2>1. slotuse(p) = c
    BY <1>1, <1>2, <1>6, <1>8, ChildNodes
  <2>2. QED
    BY <1>6, <2>1
<1>10. s + 1 \in 1 .. c + 1 /\ stack[e + 1].node = C[s + 1]
  BY <1>6, <1>8, <1>9 DEF child
<1>11. \A j \in 1 .. c : K[j] < key <=> j <= s
  BY <1>1, <1>4, <1>5, <1>6, <1>8 DEF RightWay
<1>12. LedNode(kin[p], K, c, C, kin, 0, {})
  <2>1. LedIn(heap, p, kin[p], kin, 0, {})
    BY <1>1, <1>2, <1>6, PlainNode
  <2>2. QED
    BY <1>8, <2>1 DEF LedIn
<1>13. \A i \in 1 .. c + 1, j \in 1 .. c : \A k \in kin[C[i]] : K[j] < k <=> j < i
  <2>1. \A j \in 1 .. c : j # 0
    OBVIOUS
  <2>2. QED
    BY <1>12, <2>1 DEF LedNode, PartsBut
<1>14. SUFFICES ASSUME NEW j \in kin[C[s + 1]], NEW k \in stored, k \notin kin[C[s + 1]], k # key
                PROVE  k < key <=> k < j
  BY <1>10 DEF Aside
<1>15. j \in kin[p] /\ j \in Nat /\ k \in Nat
  <2>1. j \in kin[p]
    BY <1>10, <1>12, <1>14 DEF LedNode, Covers
  <2>2. j \in Nat
    BY <1>8, <1>10, <1>14 DEF NatBelow
  <2>3. QED
    BY <2>1, <2>2
<1>16. CASE k \notin kin[p]
  BY <1>4, <1>14, <1>15, <1>16 DEF Aside
<1>17. CASE k \in kin[p]
  <2>1. PICK i \in 1 .. c + 1 : k \in kin[C[i]]
    BY <1>12, <1>17 DEF LedNode, Covers
  <2>2. i # s + 1
    BY <1>14, <2>1
  <2>3. CASE i <= s
    <3>1. i \in 1 .. c /\ ~(i < i) /\ i < s + 1
      BY <1>8, <1>9, <2>1, <2>3
    <3>2. K[i] \in Nat
      BY <1>8, <3>1 DEF NatUpTo
    <3>3. K[i] < key
      BY <1>11, <2>3, <3>1
    <3>4. K[i] < j
      BY <1>10, <1>13, <1>14, <3>1
    <3>5. ~(K[i] < k)
      BY <1>13, <2>1, <3>1
    <3>6. QED
      BY <1>15, <3>2, <3>3, <3>4, <3>5
  <2>4. CASE i > s + 1
    <3>1. s + 1 \in 1 .. c /\ ~(s + 1 <= s) /\ ~(s + 1 < s + 1) /\ s + 1 < i
      BY <1>8, <1>9, <2>1, <2>4
    <3>2. K[s + 1] \in Nat
      BY <1>8, <3>1 DEF NatUpTo
    <3>3. ~(K[s + 1] < key)
      BY <1>11, <3>1
    <3>4. ~(K[s + 1] < j)
      BY <1>10, <1>13, <1>14, <3>1
    <3>5. K[s + 1] < k
      BY <1>13, <2>1, <3>1
    <3>6. QED
      BY <1>15, <3>2, <3>3, <3>4, <3>5
  <2>5. QED
    BY <1>9, <2>1, <2>2, <2>3, <2>4
<1>18. QED
  BY <1>16, <1>17

\* So it is at each node of the descent.
LEMMA PathAside ==
  ASSUME KeptInv, descending, NEW kin, Known(kin)
  PROVE  \A e \in 1 .. Len(stack) : Aside(kin[stack[e].node])
<1>1. /\ ShapeInv /\ TypeOK /\ LinkedOnce /\ StackLeadsDown /\ Under(kin)
  BY DEF KeptInv, ShapeInv, Tree, CallUnderWay, Known
<1>2. stack # <<>> /\ newchild = Null /\ root # Null /\ key \in Keys
  BY <1>1, OnTheWay
<1>3. Len(stack) \in Nat
  BY <1>1, <1>2, StackEnds
<1>4. stored \subseteq Nat /\ key \in Nat
  BY <1>1, <1>2, KeyTypes DEF TypeOK
<1> DEFINE wrong == {e \in Nat : e \in 1 .. Len(stack) /\ ~Aside(kin[stack[e].node])}
<1>5. wrong = {}
  <2>1. SUFFICES ASSUME wrong # {} PROVE FALSE
    OBVIOUS
  <2>2. PICK e \in wrong : \A d \in wrong : e <= d
    <3>1. wrong \in SUBSET Nat
      OBVIOUS
    <3>2. QED
      BY <2>1, <3>1, LeastNatural
  <2>3. e \in Nat /\ e \in 1 .. Len(stack) /\ ~Aside(kin[stack[e].node])
    OBVIOUS
  <2>4. CASE e = 1
    <3>1. stack[1].node = root
      BY <1>1, <1>2 DEF StackLeadsDown
    <3>2. kin[root] = stored
      BY <1>1, <1>2 DEF Under, rootSplit, present, descending
    <3>3. QED
      BY <2>3, <2>4, <3>1, <3>2 DEF Aside
  <2>5. CASE e # 1
    <3>1. PICK d : d = e - 1
      OBVIOUS
    <3>2. /\ d \in Nat /\ e = d + 1 /\ d \in 1 .. Len(stack) - 1 /\ d \in 1 .. Len(stack)
          /\ ~(e <= d)
      BY <1>3, <2>3, <2>5, <3>1
    <3>3. Aside(kin[stack[d].node])
      BY <2>2, <3>2
    <3>4. Aside(kin[stack[e].node])
      BY <1>1, <1>4, <3>2, <3>3, AsideBelow
    <3>5. QED
      BY <2>3, <3>4
  <2>6. QED
    BY <2>4, <2>5
<1>6. SUFFICES ASSUME NEW e \in 1 .. Len(stack) PROVE Aside(kin[stack[e].node])
  OBVIOUS
<1>7. QED
  BY <1>3, <1>5, <1>6

-----------------------------------------------------------------------------
(* Steps that leave the list as it is *)

\* The leaves are a list in the order of their keys.
Listed == ListLinked /\ InOrder(heap, LiveLeaves)

\* Leaves that keep their keys and neighbours.
LEMMA ListStays ==
  ASSUME Listed, LiveLeaves' = LiveLeaves, head' = head, tail' = tail, root # Null,
         \A n \in LiveLeaves : heap'[n] = heap[n]
  PROVE  Listed'
<1>1. Linked(heap, LiveLeaves, head, tail) /\ InOrder(heap, LiveLeaves)
      /\ head \in LiveLeaves /\ tail \in LiveLeaves
  BY DEF Listed, ListLinked
<1>2. Linked(heap', LiveLeaves, head, tail)
  BY <1>1, LinksStay
<1>3. Places(heap', heap, LiveLeaves)
  BY DEF Places, Less
<1>4. InOrder(heap', LiveLeaves)
  BY <1>1, <1>3, OrderStays
<1>5. ListLinked'
  BY <1>1, <1>2 DEF ListLinked
<1>6. QED
  BY <1>4, <1>5 DEF Listed

\* All nodes stay as they are.
LEMMA ListAsBefore ==
  ASSUME Listed, heap' = heap, ~fixmerge, ~fixmerge', head' = head, tail' = tail, root # Null
  PROVE  Listed'
<1>1. gone = Null /\ gone' = Null
  BY DEF gone
<1>2. Leaves' = Leaves
  BY DEF Leaves, isleafnode
<1>3. LiveLeaves' = LiveLeaves
  BY <1>1, <1>2 DEF LiveLeaves
<1>4. QED
  BY <1>3, ListStays

\* Steps of a descent, or that end a call without one.
LEMMA PlainListed ==
  ASSUME KeptInv, Listed, Descend \/ EraseMiss \/ FinishErase \/ (FinishInsert /\ newchild = Null)
  PROVE  Listed'
<1>1. CallUnderWay /\ ShapeInv
  BY KeptParts
<1>2. pc # "idle" /\ heap' = heap /\ head' = head /\ tail' = tail
  BY DEF Descend, EraseMiss, FinishErase, FinishInsert, tree
<1>3. root # Null
  BY <1>1, <1>2 DEF CallUnderWay
<1>4. ~fixmerge
  BY <1>1 DEF CallUnderWay, Descend, EraseMiss, FinishErase, FinishInsert
<1>5. ~fixmerge'
  BY <1>4 DEF Descend, EraseMiss, FinishErase, FinishInsert, return, result
<1>6. QED
  BY <1>2, <1>3, <1>4, <1>5, ListAsBefore

\* A call begins, in a tree with a root.
LEMMA BeginListed ==
  ASSUME KeptInv, Listed, NEW k \in Keys, BeginInsert(k) \/ BeginErase(k), root # Null
  PROVE  Listed'
<1>1. CallUnderWay /\ ShapeInv
  BY KeptParts
<1>2. pc = "idle" /\ heap' = heap /\ head' = head /\ tail' = tail /\ fixmerge' = fixmerge
  BY DEF BeginInsert, BeginErase, tree, result
<1>3. ~fixmerge
  BY <1>1, <1>2 DEF CallUnderWay
<1>4. QED
  BY <1>2, <1>3, ListAsBefore

\* The steps that change inner nodes on the way back of an insert.
LEMMA InsertedListed ==
  ASSUME KeptInv, Listed, LinkChild \/ SplitInner \/ (FinishInsert /\ newchild # Null)
  PROVE  Listed'
<1>1. CallUnderWay /\ ShapeInv /\ TypeOK
  BY KeptParts
<1>2. pc = "link" /\ head' = head /\ tail' = tail
  BY DEF LinkChild, SplitInner, FinishInsert
<1>3. root # Null /\ ~fixmerge
  BY <1>1, <1>2 DEF CallUnderWay
<1>4. LiveLeaves = Leaves
  BY <1>1, <1>3, NodeKinds DEF LiveLeaves, gone
<1>5. \A n \in Leaves : n \in DOMAIN heap
  BY <1>1, NodeKinds
<1>6. LiveLeaves' = Leaves /\ \A n \in Leaves : heap'[n] = heap[n]
  <2>1. CASE LinkChild
    <3>1. stack # <<>>
      BY <2>1 DEF LinkChild
    <3>2. cur \notin Leaves
      BY <1>1, <1>2, <3>1, AtInner
    <3>3. LiveLeaves' = Leaves /\ \A n \in DOMAIN heap : n # cur => heap'[n] = heap[n]
      BY <1>1, <2>1, LinkChildHeap
    <3>4. QED
      BY <1>5, <3>2, <3>3
  <2>2. CASE SplitInner
    <3>1. stack # <<>>
      BY <2>2 DEF SplitInner
    <3>2. cur \notin Leaves
      BY <1>1, <1>2, <3>1, AtInner
    <3>3. LiveLeaves' = Leaves /\ \A n \in DOMAIN heap : n # cur => heap'[n] = heap[n]
      BY <1>1, <2>2, SplitInnerHeap
    <3>4. QED
      BY <1>5, <3>2, <3>3
  <2>3. CASE FinishInsert /\ newchild # Null
    BY <1>1, <1>5, <2>3, NewRootHeap
  <2>4. QED
    BY <2>1, <2>2, <2>3
<1>7. QED
  BY <1>2, <1>3, <1>4, <1>6, ListStays

\* The steps that change inner nodes on the way back of an erase.
LEMMA ErasedListed ==
  ASSUME KeptInv, Listed, Fix \/ Balanced \/ ShrinkRoot \/ MergeInner \/ ShiftInner
  PROVE  Listed'
<1>1. CallUnderWay /\ ShapeInv /\ TypeOK
  BY KeptParts
<1>2. pc # "idle" /\ head' = head /\ tail' = tail
  BY DEF Fix, Balanced, ShrinkRoot, MergeInner, ShiftInner, fromInner
<1>3. root # Null
  BY <1>1, <1>2 DEF CallUnderWay
<1>4. CASE Fix
  <2>1. LiveLeaves' = LiveLeaves /\ \A n \in LiveLeaves : heap'[n] = heap[n]
    BY <1>1, <1>4, FixEffect
  <2>2. QED
    BY <1>2, <1>3, <2>1, ListStays
<1>5. CASE Balanced
  <2>1. LiveLeaves' = LiveLeaves /\ heap' = heap
    BY <1>1, <1>5, BalancedShape DEF Balanced
  <2>2. QED
    BY <1>2, <1>3, <2>1, ListStays
<1>6. CASE ShrinkRoot
  <2>1. LiveLeaves = Leaves
    BY <1>1, <1>6, AtBalance DEF ShrinkRoot
  <2>2. LiveLeaves' = Leaves /\ Leaves' = Leaves /\ \A n \in DOMAIN heap' : heap'[n] = heap[n]
    BY <1>1, <1>6, ShrinkRootHeap
  <2>3. \A n \in Leaves : n \in DOMAIN heap'
    BY <2>2 DEF Leaves
  <2>4. QED
    BY <1>2, <1>3, <2>1, <2>2, <2>3, ListStays
<1>7. CASE MergeInner
  <2>1. LiveLeaves' = LiveLeaves /\ \A n \in LiveLeaves : heap'[n] = heap[n]
    BY <1>1, <1>7, MergeInnerShape
  <2>2. QED
    BY <1>2, <1>3, <2>1, ListStays
<1>8. CASE ShiftInner
  <2>1. LiveLeaves' = LiveLeaves /\ \A n \in LiveLeaves : heap'[n] = heap[n]
    BY <1>1, <1>8, ShiftInnerShape
  <2>2. QED
    BY <1>2, <1>3, <2>1, ListStays
<1>9. QED
  BY <1>4, <1>5, <1>6, <1>7, <1>8

\* A step that changes nothing.
LEMMA StutterListed ==
  ASSUME Listed, UNCHANGED vars
  PROVE  Listed'
<1>1. heap' = heap /\ root' = root /\ head' = head /\ tail' = tail
      /\ stack' = stack /\ fixmerge' = fixmerge
  BY DEF vars, tree, result
<1>2. cur' = cur
  BY <1>1 DEF cur, top
<1>3. top'= top
  BY <1>1 DEF top
<1>4. \A i : child(cur, i)' = child(cur, i)
  BY <1>1, <1>2 DEF child
<1>5. emptied' = emptied
  BY <1>1, <1>2, <1>3 DEF emptied, slotuse, slotuseIn, child
<1>6. gone' = gone
  BY <1>1, <1>2, <1>5 DEF gone, child
<1>7. LiveLeaves' = LiveLeaves
  BY <1>1, <1>6 DEF LiveLeaves, Leaves, isleafnode
<1>8. QED
  BY <1>1, <1>7 DEF Listed, ListLinked

-----------------------------------------------------------------------------
(* Steps at the ends of a tree's life *)

\* The first leaf.
LEMMA FirstListed ==
  ASSUME KeptInv, NEW k \in Keys, BeginInsert(k), root = Null
  PROVE  Listed'
<1>1. ShapeInv
  BY KeptParts
<1>2. /\ heap'[fresh] = Leaf({}, Null, Null) /\ Leaves' = {fresh} /\ fresh # Null
      /\ root' = fresh /\ head' = fresh /\ tail' = fresh /\ fixmerge' = FALSE
  BY <1>1, FirstLeaf
<1>3. LiveLeaves' = {fresh}
  BY <1>2 DEF LiveLeaves, gone
<1>4. heap'[fresh].nextleaf = Null /\ heap'[fresh].prevleaf = Null
  BY <1>2, GivenFields
<1>5. PICK f : f = fresh
  OBVIOUS
<1>6. Linked(heap', {f}, f, f)
  BY <1>4, <1>5 DEF Linked
<1>7. InOrder(heap', {f})
  BY <1>4, <1>5 DEF InOrder, EndOf
<1>8. QED
  BY <1>2, <1>3, <1>5, <1>6, <1>7 DEF Listed, ListLinked

\* The last key is erased.
LEMMA LastErasedListed ==
  ASSUME KeptInv, EraseEmptyRoot
  PROVE  Listed'
<1>1. Leaves' = {} /\ root' = Null
  BY KeptParts, EraseEmptyRootHeap DEF EraseEmptyRoot
<1>2. LiveLeaves' = {}
  BY <1>1 DEF LiveLeaves
<1>3. QED
  BY <1>1, <1>2 DEF Listed, ListLinked, Linked, InOrder

-----------------------------------------------------------------------------
(* Steps that change the keys of one leaf *)

\* The key lies beside the keys of the other leaves like the keys of its own.
LEMMA KeyAside ==
  ASSUME NEW S, NEW T, Aside(S), \A k \in S : k \in Nat, \A k \in T : k \in Nat,
         T \subseteq stored, key \notin T, S \cap T = {}, S # {}, key \in Nat
  PROVE  /\ Before(S, T) => Before({key}, T)
         /\ Before(T, S) => Before(T, {key})
<1>1. PICK j \in S : j \in Nat
  OBVIOUS
<1>2. ASSUME NEW k \in T PROVE k \in Nat /\ k # key /\ (k < key <=> k < j)
  <2>1. k \in stored /\ k \notin S /\ k # key
    OBVIOUS
  <2>2. QED
    BY <1>1, <2>1 DEF Aside
<1>3. ASSUME Before(S, T), NEW k \in T PROVE key < k
  <2>1. j < k
    BY <1>1, <1>3 DEF Before
  <2>2. QED
    BY <1>1, <1>2, <2>1
<1>4. ASSUME Before(T, S), NEW k \in T PROVE k < key
  <2>1. k < j
    BY <1>1, <1>4 DEF Before
  <2>2. QED
    BY <1>1, <1>2, <2>1
<1>5. QED
  BY <1>3, <1>4 DEF Before

\* The leaf of the descent among the others.
LEMMA AtLeafKeys ==
  ASSUME KeptInv, descending, isleafnode(cur), NEW kin, Known(kin)
  PROVE  /\ Aside(heap[cur].items) /\ key \in Nat /\ Numbers(heap, Leaves)
         /\ \A n \in Leaves : heap[n].items \subseteq stored
         /\ \A m, n \in Leaves : m # n => heap[m].items \cap heap[n].items = {}
         /\ \A n \in Leaves : n # cur => heap[n].items # {}
         /\ \A n \in Leaves : n # cur => cur # root
<1>1. ShapeInv /\ TypeOK /\ Tree /\ Counted /\ Kept
  BY KeptParts
<1>2. /\ stack # <<>> /\ LiveLeaves = Leaves /\ cur \in Leaves /\ key \in Keys /\ gone = Null
      /\ newchild = Null /\ \A n \in Leaves : n # cur => heap[n].items # {}
      /\ \A n \in Leaves : n = cur \/ n # root
  BY <1>1, AtLeaf
<1>3. present = stored
  BY DEF present, descending
<1>4. /\ \A n \in Leaves : heap[n].items \subseteq stored
      /\ \A m, n \in Leaves : m # n => heap[m].items \cap heap[n].items = {}
  BY <1>1, <1>2, <1>3 DEF Kept
<1>5. kin[cur] = heap[cur].items
  BY <1>2 DEF Known, Under
<1>6. Aside(heap[cur].items)
  <2>1. Len(stack) \in 1 .. Len(stack) /\ cur = stack[Len(stack)].node
    BY <1>1, <1>2, StackEnds
  <2>2. Aside(kin[stack[Len(stack)].node])
    BY <2>1, PathAside
  <2>3. QED
    BY <1>5, <2>1, <2>2
<1>7. key \in Nat /\ Numbers(heap, Leaves)
  <2>1. \A n \in Leaves : heap[n] \in LeafNodes
    BY <1>1, NodeKinds
  <2>2. \A n \in Leaves : heap[n].items \subseteq Keys
    BY <2>1, LeafFields
  <2>3. QED
    BY <1>2, <2>2, KeyTypes DEF Numbers
<1>8. ASSUME NEW n \in Leaves, n # cur, cur = root PROVE FALSE
  <2>1. DOMAIN heap = {root}
    BY <1>1, <1>2, <1>8, OnlyRoot
  <2>2. n \in DOMAIN heap
    BY DEF Leaves
  <2>3. QED
    BY <1>8, <2>1, <2>2
<1>9. QED
  BY <1>2, <1>4, <1>6, <1>7, <1>8

\* The leaf has room for the key.
LEMMA StoreRoomListed ==
  ASSUME KeptInv, Listed, NEW kin, Known(kin), StoreRoom
  PROVE  Listed'
<1>1. ShapeInv /\ TypeOK /\ Tree /\ CallUnderWay
  BY KeptParts
<1>2. /\ pc = "insert" /\ descending /\ isleafnode(cur) /\ head' = head /\ tail' = tail
      /\ root' = root
  BY DEF StoreRoom, descending
<1>3. LiveLeaves = Leaves /\ cur \in Leaves /\ root # Null
  BY <1>1, <1>2, AtLeaf
<1>4. /\ heap'[cur].items = heap[cur].items \cup {key}
      /\ heap'[cur].prevleaf = heap[cur].prevleaf
      /\ heap'[cur].nextleaf = heap[cur].nextleaf
      /\ \A n \in DOMAIN heap : n # cur => heap'[n] = heap[n]
      /\ LiveLeaves' = Leaves
  BY <1>1, StoreRoomHeap
<1>5. /\ Aside(heap[cur].items) /\ key \in Nat /\ Numbers(heap, Leaves)
      /\ \A n \in Leaves : heap[n].items \subseteq stored
      /\ \A m, n \in Leaves : m # n => heap[m].items \cap heap[n].items = {}
      /\ \A n \in Leaves : n # cur => heap[n].items # {}
      /\ \A n \in Leaves : n # cur => cur # root
  BY <1>2, AtLeafKeys
<1>6. \A n \in Leaves : n # cur => heap'[n] = heap[n]
  BY <1>4 DEF Leaves
<1>7. key \notin stored
  BY <1>1, <1>2 DEF CallUnderWay
<1>8. ASSUME NEW n \in Leaves, n # cur
      PROVE  /\ Less(heap, cur, n) => Less(heap', cur, n)
             /\ Less(heap, n, cur) => Less(heap', n, cur)
  <2>1. PICK S, T : S = heap[cur].items /\ T = heap[n].items
    OBVIOUS
  <2>2. S # {}
    <3>1. cur # root
      BY <1>5, <1>8
    <3>2. LeafFilled(cur)
      BY <1>1, <1>3 DEF Tree
    <3>3. QED
      BY <2>1, <3>1, <3>2 DEF LeafFilled
  <2>3. (\A k \in S : k \in Nat) /\ (\A k \in T : k \in Nat)
    BY <1>3, <1>5, <2>1 DEF Numbers
  <2>4. T \subseteq stored /\ key \notin T /\ S \cap T = {} /\ Aside(S)
    BY <1>3, <1>5, <1>7, <1>8, <2>1
  <2>5. /\ Before(S, T) => Before({key}, T)
        /\ Before(T, S) => Before(T, {key})
    BY <1>5, <2>2, <2>3, <2>4, KeyAside
  <2>6. /\ Before(S, T) => Before(S \cup {key}, T)
        /\ Before(T, S) => Before(T, S \cup {key})
    BY <2>5 DEF Before
  <2>7. heap'[n].items = T /\ heap'[cur].items = S \cup {key}
    BY <1>4, <1>6, <1>8, <2>1
  <2>8. QED
    BY <2>1, <2>6, <2>7 DEF Less
<1>9. Places(heap', heap, Leaves)
  <2>1. \A n \in Leaves : heap'[n].nextleaf = heap[n].nextleaf
    BY <1>4, <1>6
  <2>2. ASSUME NEW m \in Leaves, NEW n \in Leaves, m # n, Less(heap, m, n) PROVE Less(heap', m, n)
    <3>1. CASE m # cur /\ n # cur
      BY <1>6, <2>2, <3>1 DEF Less
    <3>2. CASE m = cur \/ n = cur
      BY <1>8, <2>2, <3>2
    <3>3. QED
      BY <3>1, <3>2
  <2>3. QED
    BY <2>1, <2>2 DEF Places
<1>10. Linked(heap, Leaves, head, tail) /\ InOrder(heap, Leaves) /\ head \in Leaves /\ tail \in Leaves
  BY <1>3 DEF Listed, ListLinked
<1>11. InOrder(heap', Leaves)
  BY <1>9, <1>10, OrderStays
<1>12. Linked(heap', Leaves, head, tail)
  BY <1>4, <1>6, <1>10, LinksStay
<1>13. QED
  BY <1>2, <1>4, <1>10, <1>11, <1>12 DEF Listed, ListLinked

\* The leaf keeps its place when it loses a key.
LEMMA EraseKeepListed ==
  ASSUME KeptInv, Listed, EraseKeep
  PROVE  Listed'
<1>1. ShapeInv /\ TypeOK
  BY KeptParts
<1>2. /\ atKey /\ descending /\ isleafnode(cur) /\ heap' = erased /\ head' = head /\ tail' = tail
      /\ root' = root
  BY DEF EraseKeep, fromLeaf, atKey, descending
<1>3. LiveLeaves = Leaves /\ cur \in Leaves /\ root # Null
  BY <1>1, <1>2, AtLeaf
<1>4. LiveLeaves' = Leaves
  BY <1>1, EraseKeepShape
<1>5. /\ heap'[cur].items = rest /\ heap'[cur].prevleaf = heap[cur].prevleaf
      /\ heap'[cur].nextleaf = heap[cur].nextleaf
      /\ \A n \in Leaves : n # cur => heap'[n] = heap[n]
  <2>1. /\ erased[cur] = Leaf(rest, heap[cur].prevleaf, heap[cur].nextleaf)
        /\ \A n \in Leaves : n # cur => erased[n] = heap[n]
    BY <1>1, <1>2, ErasedLeaf
  <2>2. QED
    BY <1>2, <2>1, GivenFields
<1>6. \A n \in Leaves : heap'[n].items \subseteq heap[n].items
  BY <1>5 DEF rest
<1>7. Places(heap', heap, Leaves)
  BY <1>5, <1>6 DEF Places, Less, Before
<1>8. Linked(heap, Leaves, head, tail) /\ InOrder(heap, Leaves) /\ head \in Leaves /\ tail \in Leaves
  BY <1>3 DEF Listed, ListLinked
<1>9. InOrder(heap', Leaves)
  BY <1>7, <1>8, OrderStays
<1>10. Linked(heap', Leaves, head, tail)
  BY <1>5, <1>8, LinksStay
<1>11. QED
  BY <1>2, <1>4, <1>8, <1>9, <1>10 DEF Listed, ListLinked

\* A full leaf is split: how the two halves are linked.
LEMMA SplitLinks ==
  ASSUME KeptInv, Listed, StoreSplit
  PROVE  Inserts(heap', heap, Leaves, cur, fresh)
<1>1. ShapeInv /\ TypeOK /\ ListLinked
  BY KeptParts DEF Listed
<1>2. descending /\ isleafnode(cur)
  BY DEF StoreSplit, descending
<1>3. LiveLeaves = Leaves /\ cur \in Leaves /\ root # Null
  BY <1>1, <1>2, AtLeaf
<1>4. PICK mid : LeafSplit(mid)
  BY <1>1, SplitLeafHeap
<1>5. /\ fresh \notin DOMAIN heap /\ fresh # Null
      /\ heap[cur].nextleaf # Null => heap[cur].nextleaf \in Leaves \ {cur}
      /\ \A n \in DOMAIN heap : n \notin {cur, heap[cur].nextleaf} => heap'[n] = heap[n]
  BY <1>1, SplitLeafHeap
<1>6. PICK next, f : next = heap[cur].nextleaf /\ f = fresh
  OBVIOUS
<1>7. /\ heap'[cur].nextleaf = f /\ heap'[cur].prevleaf = heap[cur].prevleaf
      /\ heap'[f].nextleaf = next /\ heap'[f].prevleaf = cur
      /\ next # Null => heap'[next].prevleaf = f /\ heap'[next].nextleaf = heap[next].nextleaf
  BY <1>4, <1>6, GivenFields DEF LeafSplit
<1>8. \A n \in Leaves : n \in DOMAIN heap /\ n # Null
  BY <1>1, NodeKinds
<1>9. f \notin Leaves /\ f # Null
  BY <1>5, <1>6, <1>8
<1>10. \A n \in Leaves : n # cur => heap'[n].nextleaf = heap[n].nextleaf
  BY <1>5, <1>6, <1>7, <1>8
<1>11. \A n \in Leaves : n # cur =>
         heap'[n].prevleaf = IF n = heap[cur].nextleaf THEN fresh ELSE heap[n].prevleaf
  BY <1>5, <1>6, <1>7, <1>8
<1>12. QED
  BY <1>3, <1>6, <1>7, <1>9, <1>10, <1>11 DEF Inserts

\* What they hold.
LEMMA SplitDivides ==
  ASSUME KeptInv, Listed, NEW kin, Known(kin), StoreSplit
  PROVE  Divides(heap', heap, Leaves, cur, fresh) /\ Strict(heap, Leaves)
<1>1. ShapeInv /\ TypeOK /\ ListLinked /\ CallUnderWay
  BY KeptParts DEF Listed
<1>2. descending /\ isleafnode(cur) /\ pc = "insert"
  BY DEF StoreSplit, descending
<1>3. LiveLeaves = Leaves /\ cur \in Leaves /\ root # Null
  BY <1>1, <1>2, AtLeaf
<1>4. PICK mid : LeafSplit(mid)
  BY <1>1, SplitLeafHeap
<1>5. /\ Aside(heap[cur].items) /\ key \in Nat /\ Numbers(heap, Leaves)
      /\ \A n \in Leaves : heap[n].items \subseteq stored
      /\ \A m, n \in Leaves : m # n => heap[m].items \cap heap[n].items = {}
      /\ \A n \in Leaves : n # cur => heap[n].items # {}
  BY <1>2, AtLeafKeys
<1>6. \A n \in Leaves : n # cur => heap'[n].items = heap[n].items
  BY <1>1, SplitLeafKinds
<1>7. key \notin stored
  BY <1>1, <1>2 DEF CallUnderWay
<1>8. PICK f, S, A, B : /\ f = fresh /\ S = heap[cur].items
                        /\ A = heap'[cur].items /\ B = heap'[f].items
  OBVIOUS
<1>9. mid \in S /\ mid \in Nat /\ \A k \in S : k \in Nat
  BY <1>3, <1>4, <1>5, <1>8 DEF LeafSplit, Numbers
<1>10. /\ A = {k \in S : k <= mid} \cup (IF key <= mid THEN {key} ELSE {})
       /\ B = {k \in S : mid < k} \cup (IF mid < key THEN {key} ELSE {})
  <2>1. /\ heap'[cur] = Leaf({k \in S : k <= mid} \cup (IF key <= mid THEN {key} ELSE {}),
                             heap[cur].prevleaf, fresh)
        /\ heap'[fresh] = Leaf({k \in S : mid < k} \cup (IF mid < key THEN {key} ELSE {}),
                               cur, heap[cur].nextleaf)
    BY <1>4, <1>8 DEF LeafSplit
  <2>2. QED
    BY <1>8, <2>1, GivenFields
<1>11. A \subseteq S \cup {key} /\ B \subseteq S \cup {key}
  BY <1>10
<1>12. Before(A, B)
  <2>1. (\A k \in A : k \in Nat /\ k <= mid) /\ (\A k \in B : k \in Nat /\ mid < k)
    BY <1>5, <1>9, <1>10
  <2>2. QED
    BY <1>9, <2>1 DEF Before
<1>13. ASSUME NEW n \in Leaves, n # cur
       PROVE  /\ Less(heap, n, cur) => Less(heap', n, cur) /\ Less(heap', n, fresh)
              /\ Less(heap, cur, n) => Less(heap', cur, n) /\ Less(heap', fresh, n)
  <2>1. PICK T : T = heap[n].items
    OBVIOUS
  <2>2. \A k \in T : k \in Nat
    BY <1>5, <2>1 DEF Numbers
  <2>3. T \subseteq stored /\ key \notin T /\ S \cap T = {} /\ Aside(S) /\ S # {}
    BY <1>3, <1>5, <1>7, <1>8, <1>9, <1>13, <2>1
  <2>4. /\ Before(S, T) => Before({key}, T)
        /\ Before(T, S) => Before(T, {key})
    BY <1>5, <1>9, <2>2, <2>3, KeyAside
  <2>5. /\ Before(S, T) => Before(A, T) /\ Before(B, T)
        /\ Before(T, S) => Before(T, A) /\ Before(T, B)
    BY <1>11, <2>4 DEF Before
  <2>6. heap'[n].items = T
    BY <1>6, <1>13, <2>1
  <2>7. QED
    BY <1>8, <2>1, <2>5, <2>6 DEF Less
<1>14. ASSUME NEW m \in Leaves, NEW n \in Leaves, m # cur, n # cur, Less(heap, m, n)
       PROVE  Less(heap', m, n)
  BY <1>6, <1>14 DEF Less
<1>15. Less(heap', cur, fresh)
  BY <1>8, <1>12 DEF Less
<1>16. Divides(heap', heap, Leaves, cur, fresh)
  BY <1>13, <1>14, <1>15 DEF Divides
<1>17. \A n \in Leaves : heap[n].items # {}
  BY <1>5, <1>8, <1>9
<1>18. Strict(heap, Leaves)
  BY <1>5, <1>17, LeavesStrict
<1>19. QED
  BY <1>16, <1>18

\* So the list stays in order.
LEMMA StoreSplitListed ==
  ASSUME KeptInv, Listed, NEW kin, Known(kin), StoreSplit
  PROVE  Listed'
<1>1. ShapeInv /\ TypeOK /\ ListLinked
  BY KeptParts DEF Listed
<1>2. descending /\ isleafnode(cur) /\ head' = head /\ root' = root
  BY DEF StoreSplit, descending
<1>3. LiveLeaves = Leaves /\ cur \in Leaves /\ root # Null
  BY <1>1, <1>2, AtLeaf
<1>4. PICK f, last : f = fresh /\ last = IF heap[cur].nextleaf = Null THEN f ELSE tail
  OBVIOUS
<1>5. tail' = last
  BY <1>1, <1>4, SplitLeafHeap
<1>6. LiveLeaves' = Leaves \cup {f}
  BY <1>1, <1>4, SplitLeafKinds
<1>7. Inserts(heap', heap, Leaves, cur, f) /\ Divides(heap', heap, Leaves, cur, f)
      /\ Strict(heap, Leaves)
  BY <1>4, SplitLinks, SplitDivides
<1>8. Linked(heap, Leaves, head, tail) /\ InOrder(heap, Leaves) /\ head \in Leaves /\ tail \in Leaves
  BY <1>3 DEF Listed, ListLinked
<1>9. Null \notin Leaves
  BY <1>1, NodeKinds
<1>10. Linked(heap', Leaves \cup {f}, head, last)
  BY <1>4, <1>7, <1>8, <1>9, LinksGrow
<1>11. InOrder(heap', Leaves \cup {f})
  BY <1>7, <1>8, <1>9, OrderGrows
<1>12. last \in Leaves \cup {f}
  BY <1>4, <1>8
<1>13. QED
  BY <1>2, <1>5, <1>6, <1>8, <1>10, <1>11, <1>12 DEF Listed, ListLinked

-----------------------------------------------------------------------------
(* The leaves of a merge are neighbours in the list *)

\* Two leaves below the same parent, side by side, one of which is the current.
Beside(l, r, s) ==
  /\ atKey /\ hasParent /\ PairAt(l, r, s) /\ l # r /\ l \in Leaves /\ r \in Leaves
  /\ cur \in {l, r}

\* Their keys, in a parent with separators K and children C.
LEMMA BesideBelow ==
  ASSUME KeptInv, NEW kin, Known(kin), NEW l, NEW r, NEW s, Beside(l, r, s)
  PROVE  \E K, c, C, S :
           /\ c \in Nat /\ s \in 1 .. c /\ s + 1 \in 1 .. c + 1
           /\ l = C[s] /\ r = C[s + 1] /\ S = kin[parent]
           /\ NatUpTo(K, c) /\ NatBelow(C, c + 1, kin) /\ LedNode(S, K, c, C, kin, 0, {})
           /\ kin[C[s]] = heap[l].items /\ kin[C[s + 1]] = heap[r].items
<1>1. /\ ShapeInv /\ TypeOK /\ LinkedOnce /\ StackLeadsDown /\ KinType(kin) /\ Under(kin)
      /\ \A n \in LiveInner : InnerFilled(n)
  BY DEF KeptInv, ShapeInv, Tree, CallUnderWay, Known
<1>2. descending /\ isleafnode(cur) /\ hasParent /\ PairAt(l, r, s) /\ l \in Leaves /\ r \in Leaves
  BY DEF Beside, atKey, descending
<1>3. /\ stack # <<>> /\ root # Null /\ newchild = Null /\ ~fixmerge /\ LiveLeaves = Leaves
  BY <1>1, <1>2, AtLeaf
<1>4. parent \in LiveInner
  BY <1>1, <1>2, <1>3, CurrentNode
<1>5. PICK K, c, C : KnownNode(parent, kin, K, c, C)
  BY <1>1, <1>4, SomeNode
<1>6. /\ K = heap[parent].slotkey /\ C = heap[parent].childid /\ c = Len(K) /\ c \in Nat
      /\ NatUpTo(K, c) /\ NatBelow(C, c + 1, kin)
  BY <1>5 DEF KnownNode
<1>7. s \in 1 .. c /\ l = C[s] /\ r = C[s + 1]
  BY <1>2, <1>6 DEF PairAt
<1>8. s + 1 \in 1 .. c + 1
  BY <1>6, <1>7
<1>9. PICK S : S = kin[parent]
  OBVIOUS
<1>10. LedNode(S, K, c, C, kin, 0, {})
  <2>1. LedIn(heap, parent, kin[parent], kin, 0, {})
    BY <1>1, <1>3, <1>4, PlainNode
  <2>2. QED
    BY <1>6, <1>9, <2>1 DEF LedIn
<1>11. kin[C[s]] = heap[l].items /\ kin[C[s + 1]] = heap[r].items
  BY <1>1, <1>2, <1>3, <1>7 DEF Under
<1>12. QED
  BY <1>6, <1>7, <1>8, <1>9, <1>10, <1>11

\* The parent's keys are on the same side of the others.
LEMMA ParentAside ==
  ASSUME KeptInv, NEW kin, Known(kin), atKey, hasParent
  PROVE  Aside(kin[parent])
<1>1. /\ ShapeInv /\ TypeOK /\ LinkedOnce /\ StackLeadsDown
      /\ \A n \in LiveInner : InnerFilled(n)
  BY DEF KeptInv, ShapeInv, Tree, CallUnderWay
<1>2. descending /\ isleafnode(cur)
  BY DEF atKey, descending
<1>3. stack # <<>> /\ root # Null
  BY <1>1, <1>2, AtLeaf
<1>4. parent = above.node /\ Len(stack) - 1 \in 1 .. Len(stack) - 1 /\ above = stack[Len(stack) - 1]
  BY <1>1, <1>3, CurrentNode
<1>5. Len(stack) \in Nat
  BY <1>1, <1>3, StackEnds
<1>6. PICK e : e = Len(stack) - 1
  OBVIOUS
<1>7. e \in 1 .. Len(stack)
  BY <1>4, <1>5, <1>6
<1>8. Aside(kin[stack[e].node])
  BY <1>2, <1>7, PathAside
<1>9. QED
  BY <1>4, <1>6, <1>8

\* The keys of one follow those of the other.
LEMMA BesideFollows ==
  ASSUME KeptInv, NEW kin, Known(kin), NEW l, NEW r, NEW s, Beside(l, r, s)
  PROVE  Less(heap, l, r)
<1>1. PICK K, c, C, S :
        /\ c \in Nat /\ s \in 1 .. c /\ s + 1 \in 1 .. c + 1
        /\ NatUpTo(K, c) /\ NatBelow(C, c + 1, kin) /\ LedNode(S, K, c, C, kin, 0, {})
        /\ kin[C[s]] = heap[l].items /\ kin[C[s + 1]] = heap[r].items
  BY BesideBelow
<1>2. \A i \in 1 .. c + 1, j \in 1 .. c : \A k \in kin[C[i]] : K[j] < k <=> j < i
  <2>1. \A j \in 1 .. c : j # 0
    OBVIOUS
  <2>2. QED
    BY <1>1, <2>1 DEF LedNode, PartsBut
<1>3. SUFFICES ASSUME NEW a \in kin[C[s]], NEW b \in kin[C[s + 1]] PROVE a < b
  BY <1>1 DEF Less, Before
<1>4. s \in 1 .. c + 1 /\ ~(s < s) /\ s < s + 1
  BY <1>1
<1>5. K[s] \in Nat /\ a \in Nat /\ b \in Nat
  BY <1>1, <1>4 DEF NatUpTo, NatBelow
<1>6. ~(K[s] < a)
  BY <1>1, <1>2, <1>4
<1>7. K[s] < b
  BY <1>1, <1>2, <1>4
<1>8. QED
  BY <1>5, <1>6, <1>7

\* No key is between them.
LEMMA NoneBetween ==
  ASSUME KeptInv, NEW kin, Known(kin), NEW l, NEW r, NEW s, Beside(l, r, s),
         NEW k \in stored, k \notin heap[l].items, k \notin heap[r].items,
         NEW a \in heap[l].items, NEW b \in heap[r].items, a < k, k < b
  PROVE  FALSE
<1>1. PICK K, c, C, S :
        /\ c \in Nat /\ s \in 1 .. c /\ s + 1 \in 1 .. c + 1 /\ S = kin[parent]
        /\ NatUpTo(K, c) /\ NatBelow(C, c + 1, kin) /\ LedNode(S, K, c, C, kin, 0, {})
        /\ kin[C[s]] = heap[l].items /\ kin[C[s + 1]] = heap[r].items
  BY BesideBelow
<1>2. \A i \in 1 .. c + 1, j \in 1 .. c : \A d \in kin[C[i]] : K[j] < d <=> j < i
  <2>1. \A j \in 1 .. c : j # 0
    OBVIOUS
  <2>2. QED
    BY <1>1, <2>1 DEF LedNode, PartsBut
<1>3. s \in 1 .. c + 1
  BY <1>1
<1>4. a \in S /\ b \in S /\ a \in kin[C[s]] /\ b \in kin[C[s + 1]]
  BY <1>1, <1>3 DEF LedNode, Covers
<1>5. a \in Nat /\ b \in Nat
  BY <1>1, <1>3, <1>4 DEF NatBelow
<1>6. k \in Nat /\ TypeOK
  BY KeptParts, KeyTypes DEF TypeOK
<1>7. k # key
  <2>1. key \in heap[cur].items /\ cur \in {l, r}
    BY DEF Beside, atKey
  <2>2. QED
    BY <2>1
<1>8. k \in S
  <2>1. Aside(S)
    BY <1>1, ParentAside DEF Beside
  <2>2. ASSUME k \notin S PROVE FALSE
    <3>1. (k < key <=> k < a) /\ (k < key <=> k < b)
      BY <1>4, <1>7, <2>1, <2>2 DEF Aside
    <3>2. ~(k < a)
      BY <1>5, <1>6
    <3>3. QED
      BY <3>1, <3>2
  <2>3. QED
    BY <2>2
<1>9. PICK i \in 1 .. c + 1 : k \in kin[C[i]]
  BY <1>1, <1>8 DEF LedNode, Covers
<1>10. i # s /\ i # s + 1
  BY <1>1, <1>9
<1>11. CASE i < s
  <2>1. i \in 1 .. c /\ ~(i < i)
    BY <1>1, <1>9, <1>11
  <2>2. K[i] \in Nat
    BY <1>1, <2>1 DEF NatUpTo
  <2>3. K[i] < a
    BY <1>2, <1>3, <1>4, <1>11, <2>1
  <2>4. ~(K[i] < k)
    BY <1>2, <1>9, <2>1
  <2>5. QED
    BY <1>5, <1>6, <2>2, <2>3, <2>4
<1>12. CASE i > s + 1
  <2>1. s + 1 \in 1 .. c /\ ~(s + 1 < s + 1) /\ s + 1 < i
    BY <1>1, <1>9, <1>12
  <2>2. K[s + 1] \in Nat
    BY <1>1, <2>1 DEF NatUpTo
  <2>3. ~(K[s + 1] < b)
    BY <1>1, <1>2, <1>4, <2>1
  <2>4. K[s + 1] < k
    BY <1>2, <1>9, <2>1
  <2>5. QED
    BY <1>5, <1>6, <2>2, <2>3, <2>4
<1>13. QED
  BY <1>1, <1>9, <1>10, <1>11, <1>12

\* So the left one is before the right one in the list.
LEMMA BesideLinked ==
  ASSUME KeptInv, Listed, NEW kin, Known(kin), NEW l, NEW r, NEW s, Beside(l, r, s)
  PROVE  heap[l].nextleaf = r /\ Strict(heap, Leaves)
<1>1. /\ descending /\ isleafnode(cur) /\ l # r /\ l \in Leaves /\ r \in Leaves
      /\ key \in heap[cur].items
  BY DEF Beside, atKey, descending
<1>2. ShapeInv /\ LiveLeaves = Leaves
  BY <1>1, KeptParts, AtLeaf
<1>3. /\ Numbers(heap, Leaves) /\ \A n \in Leaves : heap[n].items \subseteq stored
      /\ \A m, n \in Leaves : m # n => heap[m].items \cap heap[n].items = {}
      /\ \A n \in Leaves : n # cur => heap[n].items # {}
  BY <1>1, AtLeafKeys
<1>4. \A n \in Leaves : heap[n].items # {}
  BY <1>1, <1>3
<1>5. Strict(heap, Leaves)
  BY <1>3, <1>4, LeavesStrict
<1>6. Less(heap, l, r)
  BY BesideFollows
<1>7. PICK x : x = heap[l].nextleaf
  OBVIOUS
<1>8. /\ x = Null => \A o \in Leaves \ {l} : Less(heap, o, l)
      /\ x # Null => /\ Less(heap, l, x)
                     /\ \A o \in Leaves \ {l, x} : Less(heap, o, l) \/ Less(heap, x, o)
  <2>1. InOrder(heap, Leaves)
    BY <1>2 DEF Listed
  <2>2. QED
    BY <1>1, <1>7, <2>1, OrderForm
<1>9. x # Null => x \in Leaves \ {l}
  BY <1>1, <1>2, <1>7 DEF Listed, ListLinked, Linked
<1>10. ~Less(heap, r, l)
  BY <1>1, <1>5, <1>6 DEF Strict
<1>11. x # Null
  BY <1>1, <1>8, <1>10
<1>12. ASSUME x # r PROVE FALSE
  <2>1. Less(heap, l, x) /\ Less(heap, x, r)
    BY <1>1, <1>8, <1>10, <1>11, <1>12
  <2>2. PICK a \in heap[l].items, k \in heap[x].items, b \in heap[r].items : TRUE
    BY <1>1, <1>4, <1>9, <1>11
  <2>3. a < k /\ k < b
    BY <2>1 DEF Less, Before
  <2>4. k \in stored /\ k \notin heap[l].items /\ k \notin heap[r].items
    BY <1>1, <1>3, <1>9, <1>11, <1>12
  <2>5. QED
    BY <2>3, <2>4, NoneBetween
<1>13. QED
  BY <1>5, <1>7, <1>12

\* The links that merge_leaves leaves.
LEMMA MergedLinks ==
  ASSUME NEW g, NEW h, NEW l, NEW r, MergeWritten(g, h, l, r), l # r,
         NEW L, L \subseteq DOMAIN h, l \in L, r \in L, \A n \in L : h[n] \in LeafNodes,
         NEW x, x = h[r].nextleaf, x # Null => x \in L, x # r
  PROVE  \A n \in L \ {r} :
           /\ g[n].nextleaf = IF n = l THEN h[r].nextleaf ELSE h[n].nextleaf
           /\ g[n].prevleaf = IF n = x /\ x # Null THEN l ELSE h[n].prevleaf
<1>1. PICK h2 :
        /\ g = setPrev(h2, x, l) /\ HeapTyped(h2) /\ DOMAIN h2 = DOMAIN h
        /\ h2[l] = Leaf(h[l].items \cup h[r].items, h[l].prevleaf, h[r].nextleaf)
        /\ h2[r] = Leaf({}, h[r].prevleaf, h[r].nextleaf)
        /\ \A n \in DOMAIN h : n # l /\ n # r => h2[n] = h[n]
  BY DEF MergeWritten
<1>2. PrevSet(g, h2, x, l)
  <2>1. IsFunction(h2) /\ (x # Null => x \in DOMAIN h2)
    BY <1>1 DEF HeapTyped
  <2>2. QED
    BY <1>1, <2>1, SetPrevNode
<1>3. SUFFICES ASSUME NEW n \in L \ {r}
               PROVE  /\ g[n].nextleaf = IF n = l THEN h[r].nextleaf ELSE h[n].nextleaf
                      /\ g[n].prevleaf = IF n = x /\ x # Null THEN l ELSE h[n].prevleaf
  OBVIOUS
<1>4. /\ h2[n].prevleaf = h[n].prevleaf
      /\ h2[n].nextleaf = IF n = l THEN h[r].nextleaf ELSE h[n].nextleaf
  <2>1. CASE n = l
    BY <1>1, <2>1, GivenFields
  <2>2. CASE n # l
    BY <1>1, <2>2
  <2>3. QED
    BY <2>1, <2>2
<1>5. h2[n] \in LeafNodes
  <2>1. CASE n = l
    <3>1. h2[n] = Leaf(h[l].items \cup h[r].items, h[l].prevleaf, h[r].nextleaf)
      BY <1>1, <2>1
    <3>2. h[l] \in LeafNodes /\ h[r] \in LeafNodes
      OBVIOUS
    <3>3. /\ h[l].items \subseteq Keys /\ h[r].items \subseteq Keys
          /\ h[l].prevleaf \in Pointers /\ h[r].nextleaf \in Pointers
      BY <3>2, LeafFields
    <3>4. QED
      BY <3>1, <3>3, NodeRecords
  <2>2. CASE n # l
    BY <1>1, <2>2
  <2>3. QED
    BY <2>1, <2>2
<1>6. g[n] = IF n = x /\ x # Null THEN [h2[n] EXCEPT !.prevleaf = l] ELSE h2[n]
  BY <1>1, <1>2 DEF PrevSet
<1>7. CASE n = x /\ x # Null
  <2>1. g[n] = Leaf(h2[n].items, l, h2[n].nextleaf)
    BY <1>5, <1>6, <1>7, LeafUpdates
  <2>2. g[n].prevleaf = l /\ g[n].nextleaf = h2[n].nextleaf
    BY <2>1, GivenFields
  <2>3. QED
    BY <1>4, <1>7, <2>2
<1>8. CASE ~(n = x /\ x # Null)
  BY <1>4, <1>6, <1>8
<1>9. QED
  BY <1>7, <1>8

\* The leaf without the key is where it was.
LEMMA ErasedLinks ==
  ASSUME KeptInv, atKey, NEW h, h = erased
  PROVE  /\ HeapTyped(h) /\ Leaves \subseteq DOMAIN h /\ \A n \in Leaves : h[n] \in LeafNodes
         /\ \A n \in Leaves : /\ h[n].nextleaf = heap[n].nextleaf
                              /\ h[n].prevleaf = heap[n].prevleaf
                              /\ h[n].items \subseteq heap[n].items
<1>1. ShapeInv /\ TypeOK
  BY KeptParts
<1>2. /\ HeapTyped(h) /\ DOMAIN h = DOMAIN heap
      /\ h[cur] = Leaf(rest, heap[cur].prevleaf, heap[cur].nextleaf)
      /\ \A n \in Leaves : n # cur => h[n] = heap[n]
      /\ rest \subseteq Keys
  BY <1>1, ErasedLeaf
<1>3. \A n \in Leaves : n \in DOMAIN heap /\ heap[n] \in LeafNodes
  BY <1>1, NodeKinds
<1>4. ASSUME NEW n \in Leaves
      PROVE  /\ h[n] \in LeafNodes /\ h[n].nextleaf = heap[n].nextleaf
             /\ h[n].prevleaf = heap[n].prevleaf /\ h[n].items \subseteq heap[n].items
  <2>1. CASE n = cur
    <3>1. /\ h[n].nextleaf = heap[n].nextleaf /\ h[n].prevleaf = heap[n].prevleaf
          /\ h[n].items = rest
      BY <1>2, <2>1, GivenFields
    <3>2. rest \subseteq heap[n].items
      BY <2>1 DEF rest
    <3>3. heap[n].prevleaf \in Pointers /\ heap[n].nextleaf \in Pointers
      BY <1>3, LeafFields
    <3>4. h[n] \in LeafNodes
      BY <1>2, <2>1, <3>3, NodeRecords
    <3>5. QED
      BY <3>1, <3>2, <3>4
  <2>2. CASE n # cur
    BY <1>2, <1>3, <2>2
  <2>3. QED
    BY <2>1, <2>2
<1>5. Leaves \subseteq DOMAIN h
  BY <1>2, <1>3
<1>6. QED
  BY <1>2, <1>4, <1>5

\* Leaf r is taken out of the list, and its keys come to l.
LEMMA MergeRemoves ==
  ASSUME KeptInv, Listed, NEW l, NEW r, l \in Leaves, r \in Leaves, l # r, atKey,
         heap[l].nextleaf = r, heap' = merge_leaves(erased, l, r)
  PROVE  Removes(heap', heap, Leaves, l, r) /\ Joins(heap', heap, Leaves, l, r)
<1>1. ShapeInv /\ TypeOK
  BY KeptParts
<1>2. LiveLeaves = Leaves
  BY ErasingKey
<1>3. PICK h : h = erased
  OBVIOUS
<1>4. /\ HeapTyped(h) /\ Leaves \subseteq DOMAIN h /\ \A n \in Leaves : h[n] \in LeafNodes
      /\ \A n \in Leaves : /\ h[n].nextleaf = heap[n].nextleaf
                           /\ h[n].prevleaf = heap[n].prevleaf
                           /\ h[n].items \subseteq heap[n].items
  BY <1>3, ErasedLinks
<1>5. PICK x : x = h[r].nextleaf
  OBVIOUS
<1>6. x = heap[r].nextleaf /\ (x # Null => x \in Leaves \ {r})
  BY <1>2, <1>4, <1>5 DEF Listed, ListLinked, Linked
<1>7. Null \notin Leaves
  BY <1>1, NodeKinds
<1>8. x # r /\ (x # Null => x \in Leaves)
  BY <1>6, <1>7
<1>9. l \in DOMAIN h /\ r \in DOMAIN h /\ h[l] \in LeafNodes /\ h[r] \in LeafNodes
  BY <1>4
<1>10. MergeWritten(heap', h, l, r) /\ LeafMerge(heap', h, l, r)
  BY <1>3, <1>4, <1>9, MergedParts, MergedLeaves
<1>11. \A n \in Leaves \ {r} :
         /\ heap'[n].nextleaf = IF n = l THEN h[r].nextleaf ELSE h[n].nextleaf
         /\ heap'[n].prevleaf = IF n = x /\ x # Null THEN l ELSE h[n].prevleaf
  BY <1>4, <1>5, <1>8, <1>10, MergedLinks
<1>12. \A n \in Leaves : heap'[n].items = IF n = l THEN h[l].items \cup h[r].items
                                          ELSE IF n = r THEN {} ELSE h[n].items
  BY <1>4, <1>10 DEF LeafMerge
<1>13. Removes(heap', heap, Leaves, l, r)
  BY <1>4, <1>6, <1>7, <1>11 DEF Removes
<1>14. heap'[l].items \subseteq heap[l].items \cup heap[r].items
  BY <1>4, <1>12
<1>15. \A n \in Leaves : n # l => heap'[n].items \subseteq heap[n].items
  BY <1>4, <1>12
<1>16. ASSUME NEW n \in Leaves, n # l, n # r
       PROVE  /\ Less(heap, n, l) /\ Less(heap, n, r) => Less(heap', n, l)
              /\ Less(heap, l, n) /\ Less(heap, r, n) => Less(heap', l, n)
  BY <1>14, <1>15, <1>16 DEF Less, Before
<1>17. ASSUME NEW m \in Leaves, NEW n \in Leaves, m \notin {l, r}, n \notin {l, r},
              Less(heap, m, n)
       PROVE  Less(heap', m, n)
  BY <1>15, <1>17 DEF Less, Before
<1>18. Joins(heap', heap, Leaves, l, r)
  BY <1>16, <1>17 DEF Joins
<1>19. QED
  BY <1>13, <1>18

\* The leaves that are left stay in order.
LEMMA EraseMergeListed ==
  ASSUME KeptInv, Listed, NEW kin, Known(kin), EraseMergeLeft \/ EraseMergeRight
  PROVE  Listed'
<1>1. atKey /\ fromLeaf
  BY SomePair
<1>2. PICK l, r, s : mergeInto(l, r) /\ LeafPair(l, r, s) /\ cur \in {l, r}
  BY SomePair
<1>3. /\ hasParent /\ PairAt(l, r, s) /\ l # r /\ l \in Leaves /\ r \in Leaves
      /\ LiveLeaves' = Leaves \ {r} /\ heap' = merge_leaves(erased, l, r)
      /\ tail' = IF heap[r].nextleaf = Null THEN l ELSE tail
      /\ head' = head /\ root' = root
  BY <1>1, <1>2 DEF LeafPair, mergeInto, fromLeaf
<1>4. ShapeInv /\ TypeOK /\ LiveLeaves = Leaves /\ root # Null
  BY <1>1, KeptParts, ErasingKey
<1>5. Beside(l, r, s)
  BY <1>1, <1>2, <1>3 DEF Beside
<1>6. heap[l].nextleaf = r /\ Strict(heap, Leaves)
  BY <1>5, BesideLinked
<1>7. Removes(heap', heap, Leaves, l, r) /\ Joins(heap', heap, Leaves, l, r)
  BY <1>1, <1>3, <1>6, MergeRemoves
<1>8. /\ Linked(heap, Leaves, head, tail) /\ InOrder(heap, Leaves) /\ head \in Leaves
      /\ tail \in Leaves
  BY <1>4 DEF Listed, ListLinked
<1>9. Null \notin Leaves
  BY <1>4, NodeKinds
<1>10. InOrder(heap', Leaves \ {r}) /\ heap[r].nextleaf # l
  BY <1>6, <1>7, <1>8, <1>9, OrderShrinks
<1>11. PICK last : last = IF heap[r].nextleaf = Null THEN l ELSE tail
  OBVIOUS
<1>12. Linked(heap', Leaves \ {r}, head, last) /\ head # r
  BY <1>7, <1>8, <1>9, <1>10, <1>11, LinksShrink
<1>13. last \in Leaves \ {r}
  <2>1. heap[r].nextleaf = Null <=> r = tail
    BY <1>3, <1>8 DEF Linked
  <2>2. QED
    BY <1>3, <1>8, <1>11, <2>1
<1>14. QED
  BY <1>3, <1>8, <1>10, <1>11, <1>12, <1>13 DEF Listed, ListLinked

-----------------------------------------------------------------------------
(* The invariant of the list *)

\* Every step keeps the leaves in order.
LEMMA NextListed ==
  ASSUME FoundInv, Listed, [Next]_vars
  PROVE  Listed'
<1>1. KeptInv
  BY FoundNow
<1>2. PICK kin : Known(kin)
  BY FoundNow DEF Known
<1>3. CASE Step
  <2>1. CASE Descend \/ EraseMiss \/ FinishErase \/ FinishInsert
    BY <1>1, <2>1, PlainListed, InsertedListed
  <2>2. CASE StoreRoom \/ StoreSplit
    BY <1>1, <1>2, <2>2, StoreRoomListed, StoreSplitListed
  <2>3. CASE LinkChild \/ SplitInner
    BY <1>1, <2>3, InsertedListed
  <2>4. CASE EraseEmptyRoot \/ EraseKeep
    BY <1>1, <2>4, LastErasedListed, EraseKeepListed
  <2>5. CASE EraseMergeLeft \/ EraseMergeRight
    BY <1>1, <1>2, <2>5, EraseMergeListed
  <2>6. CASE Fix \/ Balanced \/ ShrinkRoot \/ MergeInner \/ ShiftInner
    BY <1>1, <2>6, ErasedListed
  <2>7. QED
    BY <1>3, <2>1, <2>2, <2>3, <2>4, <2>5, <2>6 DEF Step
<1>4. ASSUME NEW k \in Keys, BeginInsert(k) \/ BeginErase(k) PROVE Listed'
  <2>1. BeginErase(k) => root # Null
    BY DEF BeginErase
  <2>2. CASE root = Null
    BY <1>1, <1>4, <2>1, <2>2, FirstListed
  <2>3. CASE root # Null
    BY <1>1, <1>4, <2>3, BeginListed
  <2>4. QED
    BY <2>2, <2>3
<1>5. CASE UNCHANGED vars
  BY <1>5, StutterListed
<1>6. QED
  BY <1>3, <1>4, <1>5 DEF Next

\* There are no leaves at first.
LEMMA InitListed == Init => Listed
<1>1. SUFFICES ASSUME Init PROVE Listed
  OBVIOUS
<1>2. heap = <<>> /\ root = Null
  BY <1>1 DEF Init
<1>3. DOMAIN heap = {}
  <2>1. PICK h : h = <<>>
    OBVIOUS
  <2>2. DOMAIN h = {}
    BY <2>1
  <2>3. QED
    BY <1>2, <2>1, <2>2
<1>4. LiveLeaves = {}
  BY <1>3 DEF LiveLeaves, Leaves
<1>5. QED
  BY <1>2, <1>4 DEF Listed, ListLinked, Linked, InOrder

\* CompactInv says it of the keys and of the list.
LEMMA CompactParts == CompactInv <=> FoundInv /\ Listed
BY DEF CompactInv, FoundInv, Held, Listed

\* In the middle of every call, too, the leaves that are not emptied are one
\* list in the order of their keys.
THEOREM ListStaysInOrder == Spec => []CompactInv
<1>1. Init => CompactInv
  BY InitFound, InitListed, CompactParts
<1>2. CompactInv /\ [Next]_vars => CompactInv'
  <2>1. SUFFICES ASSUME CompactInv, [Next]_vars PROVE CompactInv'
    OBVIOUS
  <2>2. FoundInv /\ Listed
    BY <2>1, CompactParts
  <2>3. FoundInv' /\ Listed'
    BY <2>1, <2>2, NextFound, NextListed
  <2>4. QED
    BY <2>3 DEF CompactInv, FoundInv, Held, Listed
<1>3. QED
  BY <1>1, <1>2, PTL DEF Spec

\* verify_leaflinks, between calls: m_headleaf and m_tailleaf are the ends of
\* one list of all the leaves, linked both ways, in the order of their keys.
THEOREM ListStaysLinked == Spec => []LeavesLinked
<1>1. CompactInv => LeavesLinked
  <2>1. SUFFICES ASSUME CompactInv, quiet PROVE LeavesLinked
    BY DEF LeavesLinked
  <2>2. Listed /\ LiveLeaves = Leaves /\ root # Null
    <3>1. Listed /\ KeptInv /\ pc = "idle" /\ root # Null
      BY <2>1 DEF CompactInv, Held, Listed, quiet
    <3>2. QED
      BY <3>1, Quiet
  <2>3. /\ head \in Leaves /\ tail \in Leaves /\ Linked(heap, Leaves, head, tail)
        /\ InOrder(heap, Leaves)
    BY <2>2 DEF Listed, ListLinked
  <2>4. {n \in Leaves : heap[n].prevleaf = Null} = {head}
    BY <2>3 DEF Linked
  <2>5. {n \in Leaves : heap[n].nextleaf = Null} = {tail}
    BY <2>3 DEF Linked
  <2>6. ASSUME NEW n \in Leaves \ {tail}
        PROVE  LET next == heap[n].nextleaf
               IN /\ next \in Leaves
                  /\ heap[next].prevleaf = n
                  /\ \A j \in heap[n].items, k \in heap[next].items : j < k
    <3>1. heap[n].nextleaf # Null
      BY <2>3 DEF Linked
    <3>2. heap[n].nextleaf \in Leaves /\ heap[heap[n].nextleaf].prevleaf = n
      BY <2>3, <3>1 DEF Linked
    <3>3. Before(heap[n].items, heap[heap[n].nextleaf].items)
      BY <2>3, <3>1 DEF InOrder, NextTo
    <3>4. QED
      BY <3>2, <3>3 DEF Before
  <2>7. QED
    BY <2>4, <2>5, <2>6 DEF LeavesLinked
<1>2. QED
  BY <1>1, ListStaysInOrder, PTL
=============================================================================
