------------------------- MODULE CompactTreeProofs --------------------------
(***************************************************************************)
(* Proofs about the tree of blindi_btree_seqtree.h: the lemmas about its   *)
(* nodes, and that a step of the descent and of insert keeps the shape of  *)
(* the tree, for any keys and any sizes of nodes the code admits.          *)
(***************************************************************************)
EXTENDS CompactOrder, DataFacts

-----------------------------------------------------------------------------
(* Children and separators as sequences *)

Elements(s) == {s[i] : i \in 1 .. Len(s)}

\* No element twice.
Distinct(s) == \A i, j \in 1 .. Len(s) : s[i] = s[j] => i = j

\* The sequence s is a and then b.
Chained(s, a, b) ==
  /\ Len(s) = Len(a) + Len(b)
  /\ \A i \in 1 .. Len(a) : s[i] = a[i]
  /\ \A i \in 1 .. Len(b) : s[Len(a) + i] = b[i]

\* The sequence r is s without its element i.
Removed(r, s, i) ==
  /\ Len(r) = Len(s) - 1
  /\ \A j \in 1 .. Len(s) - 1 : r[j] = IF j < i THEN s[j] ELSE s[j + 1]

\* The elements of two sequences, one after the other.
LEMMA ChainedElements ==
  ASSUME NEW S, NEW s \in Seq(S), NEW a \in Seq(S), NEW b \in Seq(S),
         Chained(s, a, b)
  PROVE  /\ Elements(s) = Elements(a) \cup Elements(b)
         /\ Distinct(s) <=> /\ Distinct(a) /\ Distinct(b)
                            /\ Elements(a) \cap Elements(b) = {}
<1>1. PICK m, n : m = Len(a) /\ n = Len(b)
  OBVIOUS
<1>2. /\ m \in Nat /\ n \in Nat /\ Len(s) = m + n
      /\ \A i \in 1 .. m : s[i] = a[i]
      /\ \A i \in 1 .. n : s[m + i] = b[i]
  BY <1>1 DEF Chained
<1>3. \A i \in 1 .. m + n : \/ i \in 1 .. m
                            \/ i - m \in 1 .. n /\ m + (i - m) = i
  BY <1>2
<1>4. /\ \A i \in 1 .. m : i \in 1 .. m + n
      /\ \A i \in 1 .. n : m + i \in 1 .. m + n /\ m + i \notin 1 .. m
      /\ \A i, j \in 1 .. n : m + i = m + j => i = j
  BY <1>2
<1>5. Elements(s) = Elements(a) \cup Elements(b)
  <2>1. \A x \in Elements(s) : x \in Elements(a) \cup Elements(b)
    BY <1>1, <1>2, <1>3 DEF Elements
  <2>2. \A x \in Elements(a) \cup Elements(b) : x \in Elements(s)
    BY <1>1, <1>2, <1>4 DEF Elements
  <2>3. QED
    BY <2>1, <2>2
<1>6. ASSUME Distinct(s)
      PROVE  Distinct(a) /\ Distinct(b) /\ Elements(a) \cap Elements(b) = {}
  <2>1. Distinct(a)
    BY <1>1, <1>2, <1>4, <1>6 DEF Distinct
  <2>2. Distinct(b)
    BY <1>1, <1>2, <1>4, <1>6 DEF Distinct
  <2>3. \A i \in 1 .. m, j \in 1 .. n : a[i] # b[j]
    BY <1>2, <1>4, <1>6 DEF Distinct
  <2>4. QED
    BY <1>1, <2>1, <2>2, <2>3 DEF Elements
<1>7. ASSUME Distinct(a), Distinct(b), Elements(a) \cap Elements(b) = {}
      PROVE  Distinct(s)
  <2>1. \A i \in 1 .. m, j \in 1 .. n : a[i] # b[j]
    BY <1>1, <1>7 DEF Elements
  <2>2. SUFFICES ASSUME NEW i \in 1 .. m + n, NEW j \in 1 .. m + n, s[i] = s[j]
                 PROVE  i = j
    BY <1>2 DEF Distinct
  <2>3. CASE i \in 1 .. m /\ j \in 1 .. m
    BY <1>1, <1>2, <1>7, <2>2, <2>3 DEF Distinct
  <2>4. CASE i \notin 1 .. m /\ j \notin 1 .. m
    <3>1. /\ i - m \in 1 .. n /\ j - m \in 1 .. n
          /\ s[i] = b[i - m] /\ s[j] = b[j - m]
      BY <1>2, <1>3, <2>4
    <3>2. i - m = j - m
      BY <1>1, <1>7, <2>2, <3>1 DEF Distinct
    <3>3. QED
      BY <1>2, <3>2
  <2>5. CASE i \in 1 .. m /\ j \notin 1 .. m
    <3>1. j - m \in 1 .. n /\ m + (j - m) = j
      BY <1>3, <2>5
    <3>2. s[m + (j - m)] = b[j - m] /\ s[i] = a[i]
      BY <1>2, <2>5, <3>1
    <3>3. QED
      BY <2>1, <2>2, <2>5, <3>1, <3>2
  <2>6. CASE i \notin 1 .. m /\ j \in 1 .. m
    <3>1. i - m \in 1 .. n /\ m + (i - m) = i
      BY <1>3, <2>6
    <3>2. s[m + (i - m)] = b[i - m] /\ s[j] = a[j]
      BY <1>2, <2>6, <3>1
    <3>3. QED
      BY <2>1, <2>2, <2>6, <3>1, <3>2
  <2>7. QED
    BY <2>3, <2>4, <2>5, <2>6
<1>8. QED
  BY <1>5, <1>6, <1>7

\* The elements of a sequence with one inserted.
LEMMA InsertedElements ==
  ASSUME NEW S, NEW r \in Seq(S), NEW s \in Seq(S), NEW i \in 1 .. Len(s) + 1,
         NEW e, Inserted(r, s, i, e)
  PROVE  /\ Elements(r) = Elements(s) \cup {e}
         /\ Distinct(s) /\ e \notin Elements(s) => Distinct(r)
<1>1. PICK n : n = Len(s)
  OBVIOUS
<1>2. /\ n \in Nat /\ Len(r) = n + 1 /\ i \in 1 .. n + 1
      /\ \A j \in 1 .. n + 1 : r[j] = IF j < i THEN s[j]
                                      ELSE IF j = i THEN e ELSE s[j - 1]
  BY <1>1 DEF Inserted
<1>3. /\ \A j \in 1 .. n + 1 : j < i => j \in 1 .. n /\ r[j] = s[j]
      /\ r[i] = e
      /\ \A j \in 1 .. n + 1 : j > i => j - 1 \in 1 .. n /\ r[j] = s[j - 1]
  BY <1>2
<1>4. \A j \in 1 .. n : \/ j \in 1 .. n + 1 /\ s[j] = r[j]
                        \/ j + 1 \in 1 .. n + 1 /\ s[j] = r[j + 1]
  BY <1>2
<1>5. Elements(r) = Elements(s) \cup {e}
  <2>1. \A x \in Elements(r) : x \in Elements(s) \cup {e}
    <3>1. \A j \in 1 .. n + 1 : r[j] \in Elements(s) \cup {e}
      BY <1>1, <1>2, <1>3 DEF Elements
    <3>2. QED
      BY <1>2, <3>1 DEF Elements
  <2>2. \A x \in Elements(s) : x \in Elements(r)
    BY <1>1, <1>2, <1>4 DEF Elements
  <2>3. e \in Elements(r)
    BY <1>2, <1>3 DEF Elements
  <2>4. QED
    BY <2>1, <2>2, <2>3
<1>6. ASSUME Distinct(s), e \notin Elements(s) PROVE Distinct(r)
  <2>1. \A j \in 1 .. n : s[j] # e
    BY <1>1, <1>6 DEF Elements
  <2>2. SUFFICES ASSUME NEW j \in 1 .. n + 1, NEW k \in 1 .. n + 1, r[j] = r[k]
                 PROVE  j = k
    BY <1>2 DEF Distinct
  <2>3. \A a, b \in 1 .. n : s[a] = s[b] => a = b
    BY <1>1, <1>6 DEF Distinct
  <2>4. CASE j < i /\ k < i
    BY <1>3, <2>2, <2>3, <2>4
  <2>5. CASE j > i /\ k > i
    BY <1>2, <1>3, <2>2, <2>3, <2>5
  <2>6. CASE j < i /\ k > i
    <3>1. j = k - 1
      BY <1>3, <2>2, <2>3, <2>6
    <3>2. QED
      BY <1>2, <2>6, <3>1
  <2>7. CASE j > i /\ k < i
    <3>1. j - 1 = k
      BY <1>3, <2>2, <2>3, <2>7
    <3>2. QED
      BY <1>2, <2>7, <3>1
  <2>8. CASE j = i \/ k = i
    BY <1>2, <1>3, <2>1, <2>2, <2>8
  <2>9. QED
    BY <1>2, <2>4, <2>5, <2>6, <2>7, <2>8
<1>7. QED
  BY <1>5, <1>6

\* The elements of a sequence without one.
LEMMA RemoveAtElement ==
  ASSUME NEW S, NEW s \in Seq(S), NEW i \in 1 .. Len(s)
  PROVE  RemoveAt(s, i) \in Seq(S) /\ Removed(RemoveAt(s, i), s, i)
<1> DEFINE low == SubSeq(s, 1, i - 1)
           back == SubSeq(s, i + 1, Len(s))
<1>1. /\ low \in Seq(S) /\ Len(low) = i - 1
      /\ \A j \in 1 .. i - 1 : low[j] = s[j]
  <2>1. i - 1 \in Nat /\ i - 1 <= Len(s)
    OBVIOUS
  <2>2. \A j \in 1 .. i - 1 : 1 + j - 1 = j
    OBVIOUS
  <2>3. QED
    BY <2>1, <2>2, SubSeqElement
<1>2. /\ back \in Seq(S) /\ Len(back) = Len(s) - i
      /\ \A j \in 1 .. Len(s) - i : back[j] = s[i + j]
  <2>1. PICK a : a = i + 1
    OBVIOUS
  <2>2. /\ SubSeq(s, a, Len(s)) \in Seq(S)
        /\ Len(SubSeq(s, a, Len(s))) = Len(s) + 1 - a
        /\ \A j \in 1 .. Len(s) + 1 - a : SubSeq(s, a, Len(s))[j] = s[a + j - 1]
    <3>1. a \in Nat /\ a >= 1 /\ a <= Len(s) + 1 /\ Len(s) \in Nat
      BY <2>1
    <3>2. QED
      BY <3>1, SubSeqElement
  <2>3. Len(s) + 1 - a = Len(s) - i /\ \A j \in 1 .. Len(s) - i : a + j - 1 = i + j
    BY <2>1
  <2>4. QED
    BY <2>1, <2>2, <2>3
<1> HIDE DEF low, back
<1>3. /\ low \o back \in Seq(S)
      /\ Len(low \o back) = Len(low) + Len(back)
      /\ \A j \in 1 .. Len(low) + Len(back) :
           (low \o back)[j] = IF j <= Len(low) THEN low[j] ELSE back[j - Len(low)]
  BY <1>1, <1>2, ConcatProperties
<1>4. PICK r : r = RemoveAt(s, i)
  OBVIOUS
<1>5. r = low \o back
  BY <1>4 DEF RemoveAt, low, back
<1>6. /\ r \in Seq(S) /\ Len(r) = Len(s) - 1
      /\ \A j \in 1 .. Len(s) - 1 :
           r[j] = IF j <= i - 1 THEN low[j] ELSE back[j - (i - 1)]
  <2>1. Len(low) + Len(back) = Len(s) - 1
    BY <1>1, <1>2
  <2>2. QED
    BY <1>1, <1>3, <1>5, <2>1
<1>7. ASSUME NEW j \in 1 .. Len(s) - 1
      PROVE  r[j] = IF j < i THEN s[j] ELSE s[j + 1]
  <2>1. CASE j < i
    <3>1. j \in 1 .. i - 1 /\ j <= i - 1
      BY <2>1
    <3>2. QED
      BY <1>1, <1>6, <2>1, <3>1
  <2>2. CASE j >= i
    <3>1. /\ j - (i - 1) \in 1 .. Len(s) - i /\ i + (j - (i - 1)) = j + 1
          /\ ~(j <= i - 1) /\ ~(j < i)
      BY <2>2
    <3>2. r[j] = back[j - (i - 1)]
      BY <1>6, <3>1
    <3>3. QED
      BY <1>2, <3>1, <3>2
  <2>3. QED
    BY <2>1, <2>2
<1>8. QED
  BY <1>4, <1>6, <1>7 DEF Removed

\* Its elements.
LEMMA RemovedElements ==
  ASSUME NEW S, NEW r \in Seq(S), NEW s \in Seq(S), NEW i \in 1 .. Len(s),
         Removed(r, s, i), Distinct(s)
  PROVE  Elements(r) = Elements(s) \ {s[i]} /\ Distinct(r)
<1>1. PICK n : n = Len(s)
  OBVIOUS
<1>2. /\ n \in Nat /\ n >= 1 /\ Len(r) = n - 1 /\ i \in 1 .. n
      /\ \A j \in 1 .. n - 1 : r[j] = IF j < i THEN s[j] ELSE s[j + 1]
      /\ \A j, k \in 1 .. n : s[j] = s[k] => j = k
  BY <1>1 DEF Removed, Distinct
<1>3. /\ \A j \in 1 .. n - 1 : j < i => j \in 1 .. n /\ r[j] = s[j]
      /\ \A j \in 1 .. n - 1 : j >= i => j + 1 \in 1 .. n /\ r[j] = s[j + 1]
  BY <1>2
<1>4. \A j \in 1 .. n - 1 : r[j] \in Elements(s) \ {s[i]}
  <2>1. SUFFICES ASSUME NEW j \in 1 .. n - 1
                 PROVE  r[j] \in Elements(s) \ {s[i]}
    OBVIOUS
  <2>2. CASE j < i
    BY <1>1, <1>2, <1>3, <2>2 DEF Elements
  <2>3. CASE j >= i
    <3>1. j + 1 \in 1 .. n /\ r[j] = s[j + 1] /\ j + 1 # i
      BY <1>2, <1>3, <2>3
    <3>2. QED
      BY <1>1, <1>2, <3>1 DEF Elements
  <2>4. QED
    BY <1>2, <2>2, <2>3
<1>5. \A j \in 1 .. n : j # i => s[j] \in Elements(r)
  <2>1. SUFFICES ASSUME NEW j \in 1 .. n, j # i PROVE s[j] \in Elements(r)
    OBVIOUS
  <2>2. CASE j < i
    <3>1. j \in 1 .. n - 1 /\ r[j] = s[j]
      BY <1>2, <2>2
    <3>2. QED
      BY <1>2, <3>1 DEF Elements
  <2>3. CASE j > i
    <3>1. j - 1 \in 1 .. n - 1 /\ r[j - 1] = s[j - 1 + 1] /\ j - 1 + 1 = j
      BY <1>2, <2>3
    <3>2. QED
      BY <1>2, <3>1 DEF Elements
  <2>4. QED
    BY <1>2, <2>1, <2>2, <2>3
<1>6. Elements(r) = Elements(s) \ {s[i]}
  <2>1. \A x \in Elements(r) : x \in Elements(s) \ {s[i]}
    BY <1>2, <1>4 DEF Elements
  <2>2. \A x \in Elements(s) \ {s[i]} : x \in Elements(r)
    BY <1>1, <1>5 DEF Elements
  <2>3. QED
    BY <2>1, <2>2
<1>7. Distinct(r)
  <2>1. SUFFICES ASSUME NEW j \in 1 .. n - 1, NEW k \in 1 .. n - 1, r[j] = r[k]
                 PROVE  j = k
    BY <1>2 DEF Distinct
  <2>2. CASE j < i /\ k < i
    BY <1>2, <1>3, <2>1, <2>2
  <2>3. CASE j >= i /\ k >= i
    <3>1. j + 1 = k + 1
      BY <1>2, <1>3, <2>1, <2>3
    <3>2. QED
      BY <1>2, <3>1
  <2>4. CASE j < i /\ k >= i
    <3>1. j = k + 1
      BY <1>2, <1>3, <2>1, <2>4
    <3>2. QED
      BY <1>2, <2>4, <3>1
  <2>5. CASE j >= i /\ k < i
    <3>1. j + 1 = k
      BY <1>2, <1>3, <2>1, <2>5
    <3>2. QED
      BY <1>2, <2>5, <3>1
  <2>6. QED
    BY <1>2, <2>2, <2>3, <2>4, <2>5
<1>8. QED
  BY <1>6, <1>7

GluedKeys(K, A, m, x, B, n) ==
  /\ \A i \in 1 .. m : K[i] = A[i]
  /\ K[m + 1] = x
  /\ \A i \in 1 .. n : K[m + 1 + i] = B[i]
GluedChildren(C, A, m, B, n) ==
  /\ \A i \in 1 .. m : C[i] = A[i]
  /\ \A i \in 1 .. n : C[m + i] = B[i]

\* The sequence K2 is K with x at place s, C2 likewise.
PutIn(K2, K, c, s, x) ==
  /\ \A j \in 1 .. c + 1 : j < s => K2[j] = K[j]
  /\ K2[s] = x
  /\ \A j \in 1 .. c + 1 : j > s => K2[j] = K[j - 1]

\* The sequence K2 is K without place s.
TakenOut(K2, K, c, s) ==
  /\ \A j \in 1 .. c - 1 : j < s => K2[j] = K[j]
  /\ \A j \in 1 .. c - 1 : j >= s => K2[j] = K[j + 1]

-----------------------------------------------------------------------------
(* Nodes and the heap *)

Leaf(S, p, x) == [level |-> 0, items |-> S, prevleaf |-> p, nextleaf |-> x]

InnerNode(l, K, C) == [level |-> l, slotkey |-> K, childid |-> C]

\* The fields of a leaf.
LEMMA LeafFields ==
  ASSUME NEW r \in LeafNodes
  PROVE  /\ r.level = 0 /\ r.items \subseteq Keys
         /\ r.prevleaf \in Pointers /\ r.nextleaf \in Pointers
         /\ r = Leaf(r.items, r.prevleaf, r.nextleaf)
  BY DEF LeafNodes, Leaf

\* The fields of an inner node.
LEMMA InnerFields ==
  ASSUME NEW r \in InnerNodes
  PROVE  /\ r.level \in Nat /\ r.level # 0 /\ r.slotkey \in Seq(Keys)
         /\ r.childid \in Seq(Nodes)
         /\ r = InnerNode(r.level, r.slotkey, r.childid)
  BY DEF InnerNodes, InnerNode

\* The fields of a leaf and of an inner node that are given.
LEMMA GivenFields ==
  /\ \A S, p, x : LET r == Leaf(S, p, x)
                  IN r.level = 0 /\ r.items = S /\ r.prevleaf = p /\ r.nextleaf = x
  /\ \A l, K, C : LET r == InnerNode(l, K, C)
                  IN r.level = l /\ r.slotkey = K /\ r.childid = C
  BY DEF Leaf, InnerNode

\* A leaf with another field.
LEMMA LeafUpdates ==
  ASSUME NEW r \in LeafNodes, NEW m
  PROVE  /\ [r EXCEPT !.nextleaf = m] = Leaf(r.items, r.prevleaf, m)
         /\ [r EXCEPT !.prevleaf = m] = Leaf(r.items, m, r.nextleaf)
         /\ [r EXCEPT !.items = m] = Leaf(m, r.prevleaf, r.nextleaf)
<1>1. PICK S, p, x : S = r.items /\ p = r.prevleaf /\ x = r.nextleaf
  OBVIOUS
<1>2. r = Leaf(S, p, x)
  BY <1>1, LeafFields
<1>3. /\ [Leaf(S, p, x) EXCEPT !.nextleaf = m] = Leaf(S, p, m)
      /\ [Leaf(S, p, x) EXCEPT !.prevleaf = m] = Leaf(S, m, x)
      /\ [Leaf(S, p, x) EXCEPT !.items = m] = Leaf(m, p, x)
  BY DEF Leaf
<1>4. QED
  BY <1>1, <1>2, <1>3

\* An inner node with other children or separators.
LEMMA InnerUpdates ==
  ASSUME NEW r \in InnerNodes, NEW K, NEW C
  PROVE  /\ [r EXCEPT !.slotkey = K] = InnerNode(r.level, K, r.childid)
         /\ [r EXCEPT !.childid = C] = InnerNode(r.level, r.slotkey, C)
         /\ [r EXCEPT !.slotkey = K, !.childid = C] = InnerNode(r.level, K, C)
<1>1. PICK l, D, E : l = r.level /\ D = r.slotkey /\ E = r.childid
  OBVIOUS
<1>2. r = InnerNode(l, D, E)
  BY <1>1, InnerFields
<1>3. /\ [InnerNode(l, D, E) EXCEPT !.slotkey = K] = InnerNode(l, K, E)
      /\ [InnerNode(l, D, E) EXCEPT !.childid = C] = InnerNode(l, D, C)
      /\ [InnerNode(l, K, E) EXCEPT !.childid = C] = InnerNode(l, K, C)
  BY DEF InnerNode
<1>4. [InnerNode(l, D, E) EXCEPT !.slotkey = K, !.childid = C]
        = [[InnerNode(l, D, E) EXCEPT !.slotkey = K] EXCEPT !.childid = C]
  OBVIOUS
<1>5. QED
  BY <1>1, <1>2, <1>3, <1>4

\* A leaf and an inner node are nodes of the heap.
LEMMA NodeRecords ==
  /\ \A S \in SUBSET Keys, p, x \in Pointers : Leaf(S, p, x) \in LeafNodes
  /\ \A l \in Nat \ {0}, K \in Seq(Keys), C \in Seq(Nodes) :
       InnerNode(l, K, C) \in InnerNodes
  BY DEF Leaf, LeafNodes, InnerNode, InnerNodes

\* What the heap holds.
LEMMA NodeKinds ==
  ASSUME TypeOK
  PROVE  /\ \A n \in Leaves : /\ n \in DOMAIN heap /\ n \in Nodes /\ n # Null
                              /\ heap[n] \in LeafNodes /\ n \notin Inner
         /\ \A n \in Inner : /\ n \in DOMAIN heap /\ n \in Nodes /\ n # Null
                             /\ heap[n] \in InnerNodes /\ n \notin Leaves
         /\ Leaves \cup Inner = DOMAIN heap
<1>1. ASSUME NEW n \in DOMAIN heap
      PROVE  n \in Nodes /\ n # Null /\ (heap[n] \in LeafNodes \/ heap[n] \in InnerNodes)
  BY CompactAssumption DEF TypeOK
<1>2. \A n \in DOMAIN heap : /\ heap[n].level = 0 => heap[n] \in LeafNodes
                             /\ heap[n].level # 0 => heap[n] \in InnerNodes
  BY <1>1, LeafFields, InnerFields
<1>3. QED
  BY <1>1, <1>2 DEF Inner, Leaves, isleafnode

IsFunction(h) == h = [n \in DOMAIN h |-> h[n]]

\* A function whose values are nodes is a heap.
LEMMA HeapType ==
  ASSUME NEW h, IsFunction(h),
         \A n \in DOMAIN h : h[n] \in LeafNodes \/ h[n] \in InnerNodes
  PROVE  h \in [DOMAIN h -> LeafNodes \cup InnerNodes]
  BY DEF IsFunction

\* The heap is a function.
LEMMA HeapIsFunction ==
  ASSUME TypeOK
  PROVE  IsFunction(heap)
  BY DEF TypeOK, IsFunction

\* The heap g is h with the node n changed or new.
Placed(g, h, n, c) ==
  /\ IsFunction(g) /\ DOMAIN g = DOMAIN h \cup {n} /\ g[n] = c
  /\ \A m \in DOMAIN h : m # n => g[m] = h[m]

\* The heap g is h without the node n.
Freed(g, h, n) ==
  /\ IsFunction(g) /\ DOMAIN g = DOMAIN h \ {n}
  /\ \A m \in DOMAIN h \ {n} : g[m] = h[m]

\* The heap g is h with another prevleaf of n.
PrevSet(g, h, n, m) ==
  /\ IsFunction(g) /\ DOMAIN g = DOMAIN h
  /\ \A j \in DOMAIN h :
       g[j] = IF j = n /\ n # Null THEN [h[j] EXCEPT !.prevleaf = m] ELSE h[j]

\* put writes one node, which may be new.
LEMMA PutNode ==
  ASSUME NEW h, NEW n, NEW c
  PROVE  Placed(put(h, n, c), h, n, c)
  BY DEF put, Placed, IsFunction

\* A node in use is written.
LEMMA ChangedNode ==
  ASSUME NEW h, NEW n, NEW c, IsFunction(h), n \in DOMAIN h
  PROVE  Placed([h EXCEPT ![n] = c], h, n, c)
<1>1. IsFunction([h EXCEPT ![n] = c])
  BY DEF IsFunction
<1>2. DOMAIN [h EXCEPT ![n] = c] = DOMAIN h \cup {n}
  OBVIOUS
<1>3. [h EXCEPT ![n] = c][n] = c
  OBVIOUS
<1>4. \A m \in DOMAIN h : m # n => [h EXCEPT ![n] = c][m] = h[m]
  OBVIOUS
<1>5. QED
  BY <1>1, <1>2, <1>3, <1>4 DEF Placed

\* without frees one node.
LEMMA WithoutNode ==
  ASSUME NEW h, NEW n
  PROVE  Freed(without(h, n), h, n)
  BY DEF without, Restrict, Freed, IsFunction

\* The allocator returns an address that is not in use.
LEMMA FreshNode ==
  ASSUME canAllocate
  PROVE  fresh \in Nodes /\ fresh \notin DOMAIN heap /\ fresh # Null
  BY CompactAssumption DEF canAllocate, fresh

\* setPrev writes the pointer back, if there is a leaf to write it in.
LEMMA SetPrevNode ==
  ASSUME NEW h, NEW n, NEW m, n # Null => n \in DOMAIN h, IsFunction(h)
  PROVE  PrevSet(setPrev(h, n, m), h, n, m)
  BY DEF setPrev, PrevSet, IsFunction

-----------------------------------------------------------------------------
(* The stack *)

\* The last frame, and the stack without it.
LEMMA StackEnds ==
  ASSUME TypeOK, stack # <<>>
  PROVE  /\ Len(stack) \in Nat /\ Len(stack) >= 1 /\ Len(stack) \in 1 .. Len(stack)
         /\ 1 \in 1 .. Len(stack)
         /\ top = stack[Len(stack)] /\ cur = stack[Len(stack)].node
         /\ Front(stack) \in Seq(Frames) /\ Len(Front(stack)) = Len(stack) - 1
         /\ \A e \in 1 .. Len(stack) - 1 : Front(stack)[e] = stack[e]
         /\ Front(stack) = <<>> <=> Len(stack) = 1
<1>1. stack \in Seq(Frames)
  BY DEF TypeOK
<1>2. Len(stack) \in Nat /\ Len(stack) >= 1
  BY <1>1
<1>3. Front(stack) = SubSeq(stack, 1, Len(stack) - 1)
  BY DEF Front
<1>4. 1 \in Nat /\ Len(stack) - 1 \in Nat /\ Len(stack) - 1 <= Len(stack)
      /\ 1 <= Len(stack) - 1 + 1 /\ Len(stack) - 1 + 1 - 1 = Len(stack) - 1
      /\ \A e \in 1 .. Len(stack) - 1 : 1 + e - 1 = e
  BY <1>2
<1>5. /\ Front(stack) \in Seq(Frames) /\ Len(Front(stack)) = Len(stack) - 1
      /\ \A e \in 1 .. Len(stack) - 1 : Front(stack)[e] = stack[e]
  BY <1>1, <1>3, <1>4, SubSeqElement
<1>6. Front(stack) = <<>> <=> Len(stack) = 1
  BY <1>2, <1>5
<1>7. QED
  BY <1>2, <1>5, <1>6 DEF top, cur, Last

\* The fields of a frame.
LEMMA FrameType ==
  ASSUME TypeOK, NEW e \in 1 .. Len(stack)
  PROVE  /\ stack[e] \in Frames
         /\ stack[e].node \in Nodes /\ stack[e].left \in Pointers
         /\ stack[e].right \in Pointers /\ stack[e].leftparent \in Pointers
         /\ stack[e].rightparent \in Pointers /\ stack[e].slot \in Nat
<1>1. stack \in Seq(Frames)
  BY DEF TypeOK
<1>2. stack[e] \in Frames
  BY <1>1
<1>3. QED
  BY <1>2 DEF Frames

\* Half of the slots of an inner node.
LEMMA Half ==
  /\ innerslotmax \in Nat /\ innerslotmax >= 3
  /\ innerslotmax \div 2 \in Nat /\ innerslotmax \div 2 >= 1
  /\ 2 * (innerslotmax \div 2) <= innerslotmax
  /\ innerslotmax <= 2 * (innerslotmax \div 2) + 1
  /\ leafslotmax \in Nat /\ leafslotmax >= 2
  /\ leafslotmax \div 2 \in Nat /\ leafslotmax = 2 * (leafslotmax \div 2)
  /\ leafslotmax \div 2 >= 1
  BY CompactAssumption

\* The keys that an inner node has at least, without and with an underflow.
LEMMA LeastValues ==
  ASSUME NEW n
  PROVE  /\ pc # "balance" => least(n) = IF n = root /\ ~rootSplit THEN 1
                                         ELSE innerslotmax \div 2
         /\ pc = "balance" =>
              least(n) = IF n = cur THEN IF n = root THEN 0
                                         ELSE innerslotmax \div 2 - 1
                         ELSE IF n = root THEN 1 ELSE innerslotmax \div 2
         /\ least(n) \in Nat
<1>1. pc # "balance" => least(n) = IF n = root /\ ~rootSplit THEN 1
                                   ELSE innerslotmax \div 2
  BY DEF least
<1>2. pc = "balance" /\ n = cur => least(n) = IF n = root THEN 0
                                              ELSE innerslotmax \div 2 - 1
  BY DEF least
<1>3. pc = "balance" /\ n # cur /\ n = root => least(n) = 1
  BY DEF least
<1>4. pc = "balance" /\ n # cur /\ n # root => least(n) = innerslotmax \div 2
  BY DEF least
<1>5. innerslotmax \div 2 \in Nat /\ innerslotmax \div 2 - 1 \in Nat
  BY Half
<1>6. QED
  BY <1>1, <1>2, <1>3, <1>4, <1>5

\* The use of the slots of a leaf and of an inner node.
LEMMA SlotUse ==
  ASSUME NEW n \in DOMAIN heap
  PROVE  /\ n \in Leaves => slotuse(n) = Cardinality(heap[n].items)
         /\ n \in Inner => slotuse(n) = Len(heap[n].slotkey)
  BY DEF slotuse, slotuseIn, Leaves, Inner, isleafnode

\* The inner nodes and leaves that are live.
LEMMA LiveNodes ==
  ASSUME TypeOK
  PROVE  /\ LiveInner \cup LiveLeaves = Live /\ LiveInner \cap LiveLeaves = {}
         /\ LiveInner \subseteq Inner /\ LiveLeaves \subseteq Leaves
         /\ Live \subseteq DOMAIN heap
         /\ \A n \in Live : n \in Inner => n \in LiveInner
         /\ \A n \in Live : n \in Leaves => n \in LiveLeaves
  BY NodeKinds DEF LiveInner, LiveLeaves, Live

\* The children of an inner node are nodes one level down.
LEMMA ChildNodes ==
  ASSUME TypeOK, LinkedOnce, NEW p \in LiveInner, InnerFilled(p)
  PROVE  /\ heap[p].slotkey \in Seq(Keys) /\ heap[p].childid \in Seq(Nodes)
         /\ Len(heap[p].slotkey) \in Nat
         /\ Len(heap[p].childid) = Len(heap[p].slotkey) + 1
         /\ slotuse(p) = Len(heap[p].slotkey)
         /\ Slots(p) = 1 .. Len(heap[p].slotkey) + 1
         /\ heap[p].level \in Nat /\ heap[p].level >= 1
         /\ \A i \in Slots(p) :
              /\ heap[p].childid[i] \in DOMAIN heap /\ heap[p].childid[i] # root
              /\ heap[heap[p].childid[i]].level \in Nat
              /\ heap[heap[p].childid[i]].level + 1 = heap[p].level
<1>1. p \in Inner /\ heap[p] \in InnerNodes /\ p \in DOMAIN heap
  BY NodeKinds DEF LiveInner
<1>2. /\ heap[p].level \in Nat /\ heap[p].level # 0
      /\ heap[p].slotkey \in Seq(Keys) /\ heap[p].childid \in Seq(Nodes)
  BY <1>1, InnerFields
<1>3. Len(heap[p].childid) = Len(heap[p].slotkey) + 1
  BY DEF InnerFilled
<1>4. slotuse(p) = Len(heap[p].slotkey)
  BY <1>1, SlotUse
<1>5. Len(heap[p].slotkey) \in Nat
  BY <1>2
<1>6. Slots(p) = 1 .. Len(heap[p].slotkey) + 1
  BY <1>3 DEF Slots
<1>7. ASSUME NEW i \in Slots(p)
      PROVE  /\ heap[p].childid[i] \in DOMAIN heap /\ heap[p].childid[i] # root
             /\ heap[heap[p].childid[i]].level \in Nat
             /\ heap[heap[p].childid[i]].level + 1 = heap[p].level
  <2>1. heap[p].childid[i] \in DOMAIN heap \ {root, newchild}
    BY DEF LinkedOnce
  <2>2. heap[heap[p].childid[i]].level + 1 = heap[p].level
    BY DEF InnerFilled
  <2>3. \A n \in DOMAIN heap : heap[n].level \in Nat
    BY NodeKinds, LeafFields, InnerFields
  <2>4. QED
    BY <2>1, <2>2, <2>3
<1>8. QED
  BY <1>2, <1>3, <1>4, <1>5, <1>6, <1>7

\* Leaves are at level 0 and inner nodes above.
LEMMA Levels ==
  ASSUME TypeOK, NEW n \in DOMAIN heap
  PROVE  heap[n].level \in Nat /\ (n \in Inner <=> heap[n].level # 0)
         /\ (n \in Leaves <=> heap[n].level = 0)
  BY NodeKinds, LeafFields, InnerFields DEF Leaves, isleafnode, Inner

\* The node on which the call is, and its parent.
LEMMA CurrentNode ==
  ASSUME TypeOK, LinkedOnce, StackLeadsDown, stack # <<>>,
         \A n \in LiveInner : InnerFilled(n), root # Null
  PROVE  /\ root \in DOMAIN heap /\ heap[root].level \in Nat
         /\ cur \in Live /\ cur \in DOMAIN heap /\ cur \in Nodes
         /\ heap[cur].level \in Nat
         /\ heap[cur].level + Len(stack) = heap[root].level + 1
         /\ ~descending => cur \in LiveInner
         /\ hasParent <=> cur # root
         /\ hasParent <=> Len(stack) > 1
         /\ ~hasParent => top.left = Null /\ top.right = Null /\ Len(stack) = 1
         /\ hasParent =>
              /\ parent = above.node /\ parentslot = above.slot
              /\ Len(stack) - 1 \in 1 .. Len(stack) - 1
              /\ above = stack[Len(stack) - 1]
              /\ parent \in LiveInner /\ parent \in DOMAIN heap /\ parent # cur
              /\ heap[parent].level = heap[cur].level + 1
              /\ parentslot \in 0 .. Len(heap[parent].slotkey)
              /\ parentslot + 1 \in Slots(parent)
              /\ cur = heap[parent].childid[parentslot + 1]
              /\ NearbyKnown(above, top)
<1>1. /\ Len(stack) \in Nat /\ Len(stack) >= 1 /\ Len(stack) \in 1 .. Len(stack)
      /\ 1 \in 1 .. Len(stack)
      /\ top = stack[Len(stack)] /\ cur = stack[Len(stack)].node
  BY StackEnds
<1>2. FrameAt(Len(stack)) /\ FrameAt(1)
  BY <1>1 DEF StackLeadsDown
<1>3. /\ cur \in Live /\ heap[cur].level + Len(stack) = heap[root].level + 1
      /\ ~descending => cur \in Inner
  BY <1>1, <1>2 DEF FrameAt
<1>4. stack[1].node = root /\ stack[1].left = Null /\ stack[1].right = Null
  BY DEF StackLeadsDown
<1>5. root \in DOMAIN heap /\ cur \in DOMAIN heap /\ cur \in Nodes
  BY <1>1, <1>3, LiveNodes, NodeKinds DEF TypeOK
<1>6. heap[cur].level \in Nat /\ heap[root].level \in Nat
  BY <1>5, Levels
<1>7. hasParent <=> Len(stack) > 1
  BY DEF hasParent
<1>8. hasParent <=> cur # root
  <2>1. CASE Len(stack) = 1
    BY <1>1, <1>4, <1>7, <2>1
  <2>2. CASE Len(stack) > 1
    BY <1>3, <1>6, <1>7, <2>2
  <2>3. QED
    BY <1>1, <2>1, <2>2
<1>9. ~hasParent => top.left = Null /\ top.right = Null /\ Len(stack) = 1
  <2>1. ~hasParent => Len(stack) = 1
    BY <1>1, <1>7
  <2>2. QED
    BY <1>1, <1>4, <2>1
<1>10. ASSUME hasParent
       PROVE  /\ parent = above.node /\ parentslot = above.slot
              /\ Len(stack) - 1 \in 1 .. Len(stack) - 1
              /\ above = stack[Len(stack) - 1]
              /\ parent \in LiveInner /\ parent \in DOMAIN heap /\ parent # cur
              /\ heap[parent].level = heap[cur].level + 1
              /\ parentslot \in 0 .. Len(heap[parent].slotkey)
              /\ parentslot + 1 \in Slots(parent)
              /\ cur = heap[parent].childid[parentslot + 1]
              /\ NearbyKnown(above, top)
  <2>1. PICK e : e = Len(stack) - 1
    OBVIOUS
  <2>2. e \in 1 .. Len(stack) /\ e \in 1 .. Len(stack) - 1 /\ e < Len(stack)
        /\ e + 1 = Len(stack)
    BY <1>1, <1>7, <1>10, <2>1
  <2>3. FrameAt(e) /\ FramesMeet(e)
    BY <2>2 DEF StackLeadsDown
  <2>4. above = stack[e] /\ parent = above.node /\ parentslot = above.slot
    BY <1>10, <2>1 DEF above, parent, parentslot
  <2>5. /\ parent \in Live /\ heap[parent].level + e = heap[root].level + 1
        /\ parent \in Inner
        /\ parentslot \in 0 .. slotuse(parent)
    BY <2>2, <2>3, <2>4 DEF FrameAt
  <2>6. parent \in LiveInner /\ parent \in DOMAIN heap
    BY <2>5, LiveNodes
  <2>7. /\ Slots(parent) = 1 .. Len(heap[parent].slotkey) + 1
        /\ slotuse(parent) = Len(heap[parent].slotkey)
        /\ Len(heap[parent].slotkey) \in Nat /\ heap[parent].level \in Nat
    BY <2>6, ChildNodes
  <2>8. cur = heap[parent].childid[parentslot + 1] /\ NearbyKnown(above, top)
    BY <1>1, <2>2, <2>3, <2>4 DEF FramesMeet, child
  <2>9. heap[parent].level = heap[cur].level + 1
    <3>1. PICK a, b, c : a = heap[parent].level /\ b = heap[cur].level /\ c = heap[root].level
      OBVIOUS
    <3>2. /\ a \in Nat /\ b \in Nat /\ c \in Nat /\ e \in Nat
          /\ a + e = c + 1 /\ b + (e + 1) = c + 1
      BY <1>3, <1>6, <2>2, <2>5, <2>7, <3>1
    <3>3. a = b + 1
      BY <3>2
    <3>4. QED
      BY <3>1, <3>3
  <2>10. parent # cur
    BY <1>6, <2>9
  <2>11. parentslot \in 0 .. Len(heap[parent].slotkey) /\ parentslot + 1 \in Slots(parent)
    BY <2>5, <2>7
  <2>12. QED
    BY <2>1, <2>2, <2>4, <2>6, <2>8, <2>9, <2>10, <2>11
<1>11. ~descending => cur \in LiveInner
  BY <1>3, LiveNodes
<1>12. QED
  BY <1>3, <1>5, <1>6, <1>7, <1>8, <1>9, <1>10, <1>11

-----------------------------------------------------------------------------
(* The stack after a step on the way up *)

\* A node as the frames above the current one know it.
NodeKept(n) ==
  /\ n \in Live' /\ heap'[n].level = heap[n].level
  /\ Len(heap'[n].slotkey) = Len(heap[n].slotkey)
  /\ heap'[n].childid = heap[n].childid

\* The frames above stay good when a step leaves their nodes alike.
LEMMA StackKept ==
  ASSUME TypeOK, StackLeadsDown, stack # <<>>, root # Null, root' = root,
         pc' \notin {"insert", "erase"}, DOMAIN heap' \subseteq Nodes,
         \A e \in 1 .. Len(stack) - 1 : NodeKept(stack[e].node),
         \/ stack' = Front(stack)
         \/ /\ stack' = stack /\ pc' = "balance" /\ cur \in Live'
            /\ heap'[cur].level = heap[cur].level /\ cur \in Inner
  PROVE  StackLeadsDown'
<1>1. /\ Len(stack) \in Nat /\ Len(stack) >= 1 /\ Len(stack) \in 1 .. Len(stack)
      /\ 1 \in 1 .. Len(stack)
      /\ top = stack[Len(stack)] /\ cur = stack[Len(stack)].node
      /\ Len(Front(stack)) = Len(stack) - 1
      /\ \A e \in 1 .. Len(stack) - 1 : Front(stack)[e] = stack[e]
      /\ Front(stack) = <<>> <=> Len(stack) = 1
  BY StackEnds
<1>2. ~descending'
  BY DEF descending
<1>3. PICK d : d = Len(stack')
  OBVIOUS
<1>4. /\ d \in Nat /\ d <= Len(stack) /\ (stack' = <<>> <=> d = 0)
      /\ \A e \in 1 .. d : e \in 1 .. Len(stack) /\ stack'[e] = stack[e]
      /\ d = Len(stack) - 1 \/ (d = Len(stack) /\ stack' = stack /\ pc' = "balance")
  <2>1. CASE stack' = Front(stack)
    BY <1>1, <1>3, <2>1
  <2>2. CASE stack' = stack /\ pc' = "balance"
    BY <1>1, <1>3, <2>2
  <2>3. QED
    BY <2>1, <2>2
<1>5. stack[1].node = root /\ stack[1].left = Null /\ stack[1].right = Null
  BY DEF StackLeadsDown
<1>6. ASSUME NEW e \in 1 .. d
      PROVE  stack[e].node \in Live' /\ heap'[stack[e].node].level = heap[stack[e].node].level
             /\ stack[e].node \in Inner
  <2>1. CASE e \in 1 .. Len(stack) - 1
    <3>1. FrameAt(e) /\ e < Len(stack)
      BY <1>1, <1>4, <2>1 DEF StackLeadsDown
    <3>2. NodeKept(stack[e].node)
      BY <2>1
    <3>3. QED
      BY <3>1, <3>2 DEF FrameAt, NodeKept
  <2>2. CASE e = Len(stack)
    <3>1. stack' # Front(stack)
      BY <1>1, <1>3, <2>2
    <3>2. QED
      BY <1>1, <2>2, <3>1
  <2>3. QED
    BY <1>1, <1>4, <2>1, <2>2
<1>7. d >= 1 => heap'[root].level = heap[root].level
  <2>1. d >= 1 => 1 \in 1 .. d
    BY <1>4
  <2>2. QED
    BY <1>5, <1>6, <2>1
<1>8. ASSUME NEW e \in 1 .. d PROVE FrameAt(e)'
  <2>1. FrameAt(e) /\ stack'[e] = stack[e] /\ d >= 1
    BY <1>4, <1>8 DEF StackLeadsDown
  <2>2. stack[e].node \in DOMAIN heap' /\ stack[e].node \in DOMAIN heap
        /\ heap[stack[e].node].level # 0
    BY <1>6, Levels, NodeKinds DEF Live
  <2>3. stack[e].node \in Inner'
    BY <1>6, <2>2 DEF Inner, Leaves, isleafnode
  <2>8. PICK n : n = stack[e].node
    OBVIOUS
  <2>4. ASSUME ~(e = d /\ pc' = "balance")
        PROVE  stack[e].slot \in 0 .. slotuse(n)'
    <3>1. e \in 1 .. Len(stack) - 1
      BY <1>1, <1>4, <2>4
    <3>2. NodeKept(stack[e].node) /\ e < Len(stack)
      BY <1>1, <3>1
    <3>3. stack[e].slot \in 0 .. slotuse(stack[e].node)
      BY <1>6, <2>1, <3>2 DEF FrameAt
    <3>4. slotuse(stack[e].node) = Len(heap[n].slotkey)
      BY <2>2, <2>8 DEF slotuse, slotuseIn
    <3>5. slotuse(n)' = Len(heap'[n].slotkey)
      BY <1>6, <2>2, <2>8 DEF slotuse, slotuseIn
    <3>6. QED
      BY <2>8, <3>2, <3>3, <3>4, <3>5 DEF NodeKept
  <2>5. heap'[stack[e].node].level + e = heap'[root'].level + 1
    BY <1>6, <1>7, <2>1 DEF FrameAt
  <2>6. QED
    BY <1>3, <1>6, <2>1, <2>3, <2>4, <2>5, <2>8 DEF FrameAt
<1>9. ASSUME NEW e \in 1 .. d - 1 PROVE FramesMeet(e)'
  <2>1. e \in 1 .. Len(stack) - 1 /\ e \in 1 .. d /\ e + 1 \in 1 .. d
    BY <1>1, <1>4, <1>9
  <2>2. FramesMeet(e) /\ NodeKept(stack[e].node)
    BY <2>1 DEF StackLeadsDown
  <2>3. stack'[e] = stack[e] /\ stack'[e + 1] = stack[e + 1]
    BY <1>4, <2>1
  <2>4. heap[stack[e].node].level # 0
    BY <1>6, <2>1, Levels, NodeKinds
  <2>8. PICK n : n = stack[e].node
    OBVIOUS
  <2>5. slotuse(n)' = slotuse(n)
    BY <2>2, <2>4, <2>8 DEF slotuse, slotuseIn, NodeKept
  <2>6. heap'[stack[e].node].childid = heap[stack[e].node].childid
    BY <2>2 DEF NodeKept
  <2>7. QED
    BY <2>2, <2>3, <2>5, <2>6, <2>8 DEF FramesMeet, NearbyKnown, child
<1>10. stack' # <<>> => /\ stack'[1].node = root'
                        /\ stack'[1].left = Null /\ stack'[1].right = Null
  <2>1. stack' # <<>> => 1 \in 1 .. d
    BY <1>4
  <2>2. QED
    BY <1>4, <1>5, <2>1
<1>11. QED
  BY <1>2, <1>3, <1>8, <1>9, <1>10 DEF StackLeadsDown

\* The stack of a call that ends or begins.
LEMMA EmptyStack ==
  ASSUME stack' = <<>>, pc' \notin {"insert", "erase"}
  PROVE  StackLeadsDown'
  BY DEF StackLeadsDown, descending

\* The frames above the current one are on higher levels.
LEMMA HigherFrames ==
  ASSUME TypeOK, StackLeadsDown, stack # <<>>, root # Null,
         NEW e \in 1 .. Len(stack) - 1
  PROVE  /\ stack[e].node \in LiveInner /\ stack[e].node \in DOMAIN heap
         /\ heap[stack[e].node].level > heap[cur].level
         /\ stack[e].node # cur
<1>1. /\ Len(stack) \in Nat /\ Len(stack) \in 1 .. Len(stack)
      /\ cur = stack[Len(stack)].node
      /\ e \in 1 .. Len(stack) /\ e < Len(stack)
  BY StackEnds
<1>2. FrameAt(e) /\ FrameAt(Len(stack))
  BY <1>1 DEF StackLeadsDown
<1>3. stack[e].node \in LiveInner /\ stack[e].node \in DOMAIN heap /\ cur \in DOMAIN heap
  BY <1>1, <1>2, LiveNodes DEF FrameAt
<1>4. heap[stack[e].node].level \in Nat /\ heap[cur].level \in Nat
      /\ heap[root].level \in Nat
  BY <1>3, Levels DEF TypeOK
<1>5. heap[stack[e].node].level > heap[cur].level
  BY <1>1, <1>2, <1>4 DEF FrameAt
<1>6. QED
  BY <1>3, <1>4, <1>5

-----------------------------------------------------------------------------
(* The links after a step *)

\* The links stay when no inner node gets other children.
LEMMA LinkedSame ==
  ASSUME LinkedOnce, LiveInner' = LiveInner,
         \A p \in LiveInner : heap'[p].childid = heap[p].childid,
         DOMAIN heap' \ {root', newchild'} = DOMAIN heap \ {root, newchild}
  PROVE  LinkedOnce'
<1>1. \A p \in LiveInner : Slots(p)' = Slots(p)
  BY DEF Slots
<1>2. QED
  BY <1>1 DEF LinkedOnce

\* A node whose children and number of keys stay is filled as before.
LEMMA FilledSame ==
  ASSUME NEW n, InnerFilled(n),
         Len(heap'[n].slotkey) = Len(heap[n].slotkey),
         Len(heap[n].slotkey) \in Nat,
         heap'[n].childid = heap[n].childid, heap'[n].level = heap[n].level,
         \A i \in Slots(n) :
           heap'[heap[n].childid[i]].level = heap[heap[n].childid[i]].level,
         least(n)' \in Nat, least(n)' <= Len(heap[n].slotkey)
  PROVE  InnerFilled(n)'
<1>1. Slots(n)' = Slots(n)
  BY DEF Slots
<1>2. Len(heap[n].slotkey) <= innerslotmax /\ innerslotmax \in Nat
  BY Half DEF InnerFilled
<1>3. Len(heap'[n].slotkey) \in least(n)' .. innerslotmax
  BY <1>2
<1>4. QED
  BY <1>1, <1>3 DEF InnerFilled

\* The children of the inner nodes in I are T, each once.
ChildrenOnce(I, h, T) ==
  /\ \A p \in I : Distinct(h[p].childid)
  /\ \A p, q \in I : p # q => Elements(h[p].childid) \cap Elements(h[q].childid) = {}
  /\ \A c : c \in T <=> \E p \in I : c \in Elements(h[p].childid)

\* The same of slots.
SlotsOnce(I, h, T) ==
  /\ \A p, q \in I : \A i \in 1 .. Len(h[p].childid), j \in 1 .. Len(h[q].childid) :
       h[p].childid[i] = h[q].childid[j] => p = q /\ i = j
  /\ \A p \in I : \A i \in 1 .. Len(h[p].childid) : h[p].childid[i] \in T
  /\ \A n \in T : \E p \in I : \E i \in 1 .. Len(h[p].childid) : h[p].childid[i] = n

\* Two ways to say that each node is the child of one slot.
LEMMA SlotsForm ==
  ASSUME NEW I, NEW h, NEW T
  PROVE  SlotsOnce(I, h, T) <=> ChildrenOnce(I, h, T)
<1>2. ASSUME SlotsOnce(I, h, T) PROVE ChildrenOnce(I, h, T)
  <2>1. \A p \in I : Distinct(h[p].childid)
    BY <1>2 DEF SlotsOnce, Distinct
  <2>2. ASSUME NEW p \in I, NEW q \in I, p # q
        PROVE  Elements(h[p].childid) \cap Elements(h[q].childid) = {}
    <3>1. \A i \in 1 .. Len(h[p].childid), j \in 1 .. Len(h[q].childid) :
            h[p].childid[i] # h[q].childid[j]
      BY <1>2, <2>2 DEF SlotsOnce
    <3>2. QED
      BY <3>1 DEF Elements
  <2>3. ASSUME NEW c \in T PROVE \E p \in I : c \in Elements(h[p].childid)
    <3>1. PICK p \in I : \E i \in 1 .. Len(h[p].childid) : h[p].childid[i] = c
      BY <1>2 DEF SlotsOnce
    <3>2. QED
      BY <3>1 DEF Elements
  <2>4. ASSUME NEW p \in I, NEW c \in Elements(h[p].childid) PROVE c \in T
    <3>1. \A i \in 1 .. Len(h[p].childid) : h[p].childid[i] \in T
      BY <1>2 DEF SlotsOnce
    <3>2. QED
      BY <2>4, <3>1 DEF Elements
  <2>5. QED
    BY <2>1, <2>2, <2>3, <2>4 DEF ChildrenOnce
<1>3. ASSUME ChildrenOnce(I, h, T) PROVE SlotsOnce(I, h, T)
  <2>1. ASSUME NEW p \in I, NEW q \in I, NEW i \in 1 .. Len(h[p].childid),
               NEW j \in 1 .. Len(h[q].childid), h[p].childid[i] = h[q].childid[j]
        PROVE  p = q /\ i = j
    <3>1. h[p].childid[i] \in Elements(h[p].childid) /\ h[q].childid[j] \in Elements(h[q].childid)
      BY DEF Elements
    <3>2. p = q
      BY <1>3, <2>1, <3>1 DEF ChildrenOnce
    <3>3. QED
      BY <1>3, <2>1, <3>2 DEF ChildrenOnce, Distinct
  <2>2. ASSUME NEW p \in I, NEW i \in 1 .. Len(h[p].childid) PROVE h[p].childid[i] \in T
    <3>1. h[p].childid[i] \in Elements(h[p].childid)
      BY DEF Elements
    <3>2. QED
      BY <1>3, <3>1 DEF ChildrenOnce
  <2>3. ASSUME NEW n \in T
        PROVE  \E p \in I : \E i \in 1 .. Len(h[p].childid) : h[p].childid[i] = n
    <3>1. PICK p \in I : n \in Elements(h[p].childid)
      BY <1>3 DEF ChildrenOnce
    <3>2. QED
      BY <3>1 DEF Elements
  <2>4. QED
    BY <2>1, <2>2, <2>3 DEF SlotsOnce
<1>4. QED
  BY <1>2, <1>3

\* LinkedOnce in the second way.
LEMMA LinkedForm ==
  /\ LinkedOnce <=> ChildrenOnce(LiveInner, heap, DOMAIN heap \ {root, newchild})
  /\ LinkedOnce' <=> ChildrenOnce(LiveInner', heap', DOMAIN heap' \ {root', newchild'})
<1>1. LinkedOnce <=> SlotsOnce(LiveInner, heap, DOMAIN heap \ {root, newchild})
  BY DEF LinkedOnce, SlotsOnce, Slots
<1>2. LinkedOnce' <=> SlotsOnce(LiveInner', heap', DOMAIN heap' \ {root', newchild'})
  BY DEF LinkedOnce, SlotsOnce, Slots
<1>3. QED
  BY <1>1, <1>2, SlotsForm

\* Children move between the inner nodes M, and N2 are theirs then.
Moved(I, h, T, I2, h2, T2, M, N2) ==
  /\ ChildrenOnce(I, h, T) /\ ChildrenOnce(I2 \cap M, h2, N2)
  /\ I \ M = I2 \ M
  /\ \A p \in I \ M : h2[p].childid = h[p].childid
  /\ \A c \in N2 : c \notin T \/ \E p \in I \cap M : c \in Elements(h[p].childid)
  /\ \A c : c \in T2 <=>
       (c \in N2 \/ (c \in T /\ ~\E p \in I \cap M : c \in Elements(h[p].childid)))

\* Children that move between inner nodes are linked once again.
LEMMA Relinked ==
  ASSUME NEW I, NEW h, NEW T, NEW I2, NEW h2, NEW T2, NEW M, NEW N2,
         Moved(I, h, T, I2, h2, T2, M, N2)
  PROVE  ChildrenOnce(I2, h2, T2)
<1>0. /\ ChildrenOnce(I, h, T) /\ ChildrenOnce(I2 \cap M, h2, N2)
      /\ I \ M = I2 \ M
      /\ \A p \in I \ M : h2[p].childid = h[p].childid
      /\ \A c \in N2 : c \notin T \/ \E p \in I \cap M : c \in Elements(h[p].childid)
      /\ \A c : c \in T2 <=>
       (c \in N2 \/ (c \in T /\ ~\E p \in I \cap M : c \in Elements(h[p].childid)))
  BY DEF Moved
<1>1. \A p \in I2 : Distinct(h2[p].childid)
  BY <1>0 DEF ChildrenOnce
<1>2. ASSUME NEW p \in I2, NEW q \in I2, p # q, NEW c \in Elements(h2[p].childid), c \in Elements(h2[q].childid)
      PROVE  FALSE
  <2>1. CASE p \in M /\ q \in M
    BY <1>0, <1>2, <2>1 DEF ChildrenOnce
  <2>2. CASE p \notin M /\ q \notin M
    BY <1>0, <1>2, <2>2 DEF ChildrenOnce
  <2>3. CASE p \in M /\ q \notin M
    <3>1. c \in N2 /\ q \in I /\ c \in Elements(h[q].childid) /\ c \in T
      BY <1>0, <1>2, <2>3 DEF ChildrenOnce
    <3>2. PICK r \in I \cap M : c \in Elements(h[r].childid)
      BY <1>0, <3>1
    <3>3. QED
      BY <1>0, <2>3, <3>1, <3>2 DEF ChildrenOnce
  <2>4. CASE p \notin M /\ q \in M
    <3>1. c \in N2 /\ p \in I /\ c \in Elements(h[p].childid) /\ c \in T
      BY <1>0, <1>2, <2>4 DEF ChildrenOnce
    <3>2. PICK r \in I \cap M : c \in Elements(h[r].childid)
      BY <1>0, <3>1
    <3>3. QED
      BY <1>0, <2>4, <3>1, <3>2 DEF ChildrenOnce
  <2>5. QED
    BY <1>0, <2>1, <2>2, <2>3, <2>4
<1>3. ASSUME NEW c \in T2 PROVE \E p \in I2 : c \in Elements(h2[p].childid)
  <2>1. CASE c \in N2
    BY <1>0, <2>1 DEF ChildrenOnce
  <2>2. CASE c \in T /\ ~\E p \in I \cap M : c \in Elements(h[p].childid)
    <3>1. PICK p \in I : c \in Elements(h[p].childid)
      BY <1>0, <2>2 DEF ChildrenOnce
    <3>2. p \in I \ M
      BY <1>0, <2>2, <3>1
    <3>3. QED
      BY <1>0, <3>1, <3>2
  <2>3. QED
    BY <1>0, <1>3, <2>1, <2>2
<1>4. ASSUME NEW p \in I2, NEW c \in Elements(h2[p].childid) PROVE c \in T2
  <2>1. CASE p \in M
    BY <1>0, <1>4, <2>1 DEF ChildrenOnce
  <2>2. CASE p \notin M
    <3>1. p \in I \ M /\ c \in Elements(h[p].childid) /\ c \in T
      BY <1>0, <1>4, <2>2 DEF ChildrenOnce
    <3>2. ~\E q \in I \cap M : c \in Elements(h[q].childid)
      BY <1>0, <3>1 DEF ChildrenOnce
    <3>3. QED
      BY <1>0, <3>1, <3>2
  <2>3. QED
    BY <1>0, <2>1, <2>2
<1>5. QED
  BY <1>1, <1>2, <1>3, <1>4 DEF ChildrenOnce

-----------------------------------------------------------------------------
(* The counters *)

Counters == [leaves : Nat, innernodes : Nat, itemcount : Nat]
Stats(l, i, c) == [leaves |-> l, innernodes |-> i, itemcount |-> c]

\* The counters as a record of three numbers.
LEMMA CountersGiven ==
  /\ \A l, i, c \in Nat : Stats(l, i, c) \in Counters
  /\ \A l, i, c : /\ Stats(l, i, c).leaves = l /\ Stats(l, i, c).innernodes = i
                  /\ Stats(l, i, c).itemcount = c
  /\ \A s \in Counters : /\ s = Stats(s.leaves, s.innernodes, s.itemcount)
                         /\ s.leaves \in Nat /\ s.innernodes \in Nat /\ s.itemcount \in Nat
  BY DEF Counters, Stats

\* One counter changes.
LEMMA CountersChanged ==
  ASSUME NEW l, NEW i, NEW c, NEW x
  PROVE  /\ [Stats(l, i, c) EXCEPT !.leaves = x] = Stats(x, i, c)
         /\ [Stats(l, i, c) EXCEPT !.innernodes = x] = Stats(l, x, c)
         /\ [Stats(l, i, c) EXCEPT !.itemcount = x] = Stats(l, i, x)
  BY DEF Stats

\* The counters of a step that changes each of them by what is given.
CountersMoved(dl, di, dc) ==
  stats' = Stats(stats.leaves + dl, stats.innernodes + di, stats.itemcount + dc)

\* What the steps do to the counters.
LEMMA CountersMove ==
  ASSUME stats \in Counters
  PROVE  /\ stats' = stats => CountersMoved(0, 0, 0)
         /\ stats' = [stats EXCEPT !.leaves = @ + 1] => CountersMoved(1, 0, 0)
         /\ stats' = [stats EXCEPT !.leaves = @ - 1] => CountersMoved(0 - 1, 0, 0)
         /\ stats' = [stats EXCEPT !.innernodes = @ + 1] => CountersMoved(0, 1, 0)
         /\ stats' = [stats EXCEPT !.innernodes = @ - 1] => CountersMoved(0, 0 - 1, 0)
         /\ stats' = [stats EXCEPT !.itemcount = @ + 1] => CountersMoved(0, 0, 1)
         /\ stats' = [stats EXCEPT !.itemcount = @ - 1] => CountersMoved(0, 0, 0 - 1)
         /\ stats' = [stats EXCEPT !.itemcount = @ + 1, !.innernodes = @ + 1]
              => CountersMoved(0, 1, 1)
         /\ stats' = [[stats EXCEPT !.leaves = @ - 1] EXCEPT !.itemcount = @ - 1]
              => CountersMoved(0 - 1, 0, 0 - 1)
<1>1. PICK l, i, c : l = stats.leaves /\ i = stats.innernodes /\ c = stats.itemcount
  OBVIOUS
<1>2. stats = Stats(l, i, c) /\ l \in Nat /\ i \in Nat /\ c \in Nat
  BY <1>1, CountersGiven
<1>3. /\ l + 0 = l /\ i + 0 = i /\ c + 0 = c
      /\ l + (0 - 1) = l - 1 /\ i + (0 - 1) = i - 1 /\ c + (0 - 1) = c - 1
  BY <1>2
<1>4. stats' = stats => CountersMoved(0, 0, 0)
  BY <1>1, <1>2, <1>3 DEF CountersMoved
<1>5. ASSUME stats' = [stats EXCEPT !.leaves = @ + 1] PROVE CountersMoved(1, 0, 0)
  <2>1. stats' = [Stats(l, i, c) EXCEPT !.leaves = l + 1]
    BY <1>1, <1>2, <1>5
  <2>2. stats' = Stats(l + 1, i, c)
    BY <2>1 DEF Stats
  <2>3. QED
    BY <1>1, <1>3, <2>2 DEF CountersMoved
<1>6. ASSUME stats' = [stats EXCEPT !.leaves = @ - 1] PROVE CountersMoved(0 - 1, 0, 0)
  <2>1. stats' = [Stats(l, i, c) EXCEPT !.leaves = l - 1]
    BY <1>1, <1>2, <1>6
  <2>2. stats' = Stats(l - 1, i, c)
    BY <2>1 DEF Stats
  <2>3. QED
    BY <1>1, <1>3, <2>2 DEF CountersMoved
<1>7. ASSUME stats' = [stats EXCEPT !.innernodes = @ + 1] PROVE CountersMoved(0, 1, 0)
  <2>1. stats' = [Stats(l, i, c) EXCEPT !.innernodes = i + 1]
    BY <1>1, <1>2, <1>7
  <2>2. stats' = Stats(l, i + 1, c)
    BY <2>1 DEF Stats
  <2>3. QED
    BY <1>1, <1>3, <2>2 DEF CountersMoved
<1>8. ASSUME stats' = [stats EXCEPT !.innernodes = @ - 1] PROVE CountersMoved(0, 0 - 1, 0)
  <2>1. stats' = [Stats(l, i, c) EXCEPT !.innernodes = i - 1]
    BY <1>1, <1>2, <1>8
  <2>2. stats' = Stats(l, i - 1, c)
    BY <2>1 DEF Stats
  <2>3. QED
    BY <1>1, <1>3, <2>2 DEF CountersMoved
<1>9. ASSUME stats' = [stats EXCEPT !.itemcount = @ + 1] PROVE CountersMoved(0, 0, 1)
  <2>1. stats' = [Stats(l, i, c) EXCEPT !.itemcount = c + 1]
    BY <1>1, <1>2, <1>9
  <2>2. stats' = Stats(l, i, c + 1)
    BY <2>1 DEF Stats
  <2>3. QED
    BY <1>1, <1>3, <2>2 DEF CountersMoved
<1>10. ASSUME stats' = [stats EXCEPT !.itemcount = @ - 1] PROVE CountersMoved(0, 0, 0 - 1)
  <2>1. stats' = [Stats(l, i, c) EXCEPT !.itemcount = c - 1]
    BY <1>1, <1>2, <1>10
  <2>2. stats' = Stats(l, i, c - 1)
    BY <2>1 DEF Stats
  <2>3. QED
    BY <1>1, <1>3, <2>2 DEF CountersMoved
<1>11. ASSUME stats' = [stats EXCEPT !.itemcount = @ + 1, !.innernodes = @ + 1]
       PROVE  CountersMoved(0, 1, 1)
  <2>1. stats' = [[stats EXCEPT !.itemcount = stats.itemcount + 1]
                    EXCEPT !.innernodes = stats.innernodes + 1]
    BY <1>2, <1>11, CountersGiven DEF Counters
  <2>2. stats' = [[Stats(l, i, c) EXCEPT !.itemcount = c + 1] EXCEPT !.innernodes = i + 1]
    BY <1>1, <1>2, <2>1
  <2>5. PICK x, y : x = c + 1 /\ y = i + 1
    OBVIOUS
  <2>6. [Stats(l, i, c) EXCEPT !.itemcount = x] = Stats(l, i, x)
    BY DEF Stats
  <2>7. [Stats(l, i, x) EXCEPT !.innernodes = y] = Stats(l, y, x)
    BY DEF Stats
  <2>3. stats' = Stats(l, i + 1, c + 1)
    BY <2>2, <2>5, <2>6, <2>7
  <2>4. QED
    BY <1>1, <1>3, <2>3 DEF CountersMoved
<1>12. ASSUME stats' = [[stats EXCEPT !.leaves = @ - 1] EXCEPT !.itemcount = @ - 1]
       PROVE  CountersMoved(0 - 1, 0, 0 - 1)
  <2>1. [stats EXCEPT !.leaves = @ - 1] = Stats(l - 1, i, c)
    <3>1. [stats EXCEPT !.leaves = @ - 1] = [Stats(l, i, c) EXCEPT !.leaves = l - 1]
      BY <1>1, <1>2
    <3>2. QED
      BY <3>1, CountersChanged
  <2>2. Stats(l - 1, i, c).itemcount = c
    BY CountersGiven
  <2>3. stats' = [Stats(l - 1, i, c) EXCEPT !.itemcount = c - 1]
    BY <1>12, <2>1, <2>2
  <2>5. PICK x, y : x = c - 1 /\ y = l - 1
    OBVIOUS
  <2>6. [Stats(y, i, c) EXCEPT !.itemcount = x] = Stats(y, i, x)
    BY DEF Stats
  <2>4. QED
    BY <1>1, <1>3, <2>3, <2>5, <2>6 DEF CountersMoved
<1>13. QED
  BY <1>4, <1>5, <1>6, <1>7, <1>8, <1>9, <1>10, <1>11, <1>12

\* The counters count the nodes of the next heap as they did those of this one.
LEMMA CountedNext ==
  ASSUME TypeOK, Counted, NEW dl \in {0, 1, 0 - 1}, NEW di \in {0, 1, 0 - 1}, NEW dc,
         CountersMoved(dl, di, dc),
         dl = 0 => Leaves' = Leaves,
         dl = 1 => \E n : n \notin Leaves /\ Leaves' = Leaves \cup {n},
         dl = 0 - 1 => \E n \in Leaves : Leaves' = Leaves \ {n},
         di = 0 => Inner' = Inner,
         di = 1 => \E n : n \notin Inner /\ Inner' = Inner \cup {n},
         di = 0 - 1 => \E n \in Inner : Inner' = Inner \ {n},
         stats.itemcount + dc \in Nat,
         Leaves' \cup Inner' = DOMAIN heap'
  PROVE  Counted' /\ stats' \in Counters
<1>1. IsFiniteSet(Leaves) /\ IsFiniteSet(Inner)
  <2>1. Leaves \subseteq DOMAIN heap /\ Inner \subseteq DOMAIN heap
    BY NodeKinds
  <2>2. QED
    BY <2>1, FS_Subset DEF Counted
<1>2. Cardinality(Leaves) \in Nat /\ Cardinality(Inner) \in Nat
  BY <1>1, FS_CardinalityType
<1>3. IsFiniteSet(Leaves') /\ Cardinality(Leaves') = Cardinality(Leaves) + dl
      /\ Cardinality(Leaves') \in Nat
  <2>1. CASE dl = 0
    BY <1>1, <1>2, <2>1
  <2>2. CASE dl = 1
    <3>1. PICK n : n \notin Leaves /\ Leaves' = Leaves \cup {n}
      BY <2>2
    <3>2. QED
      BY <1>1, <1>2, <2>2, <3>1, FS_AddElement
  <2>3. CASE dl = 0 - 1
    <3>1. PICK n \in Leaves : Leaves' = Leaves \ {n}
      BY <2>3
    <3>2. IsFiniteSet(Leaves') /\ Cardinality(Leaves') = Cardinality(Leaves) - 1
      BY <1>1, <3>1, FS_RemoveElement
    <3>3. Cardinality(Leaves') \in Nat
      BY <3>2, FS_CardinalityType
    <3>4. QED
      BY <1>2, <2>3, <3>2, <3>3
  <2>4. QED
    BY <2>1, <2>2, <2>3
<1>4. IsFiniteSet(Inner') /\ Cardinality(Inner') = Cardinality(Inner) + di
      /\ Cardinality(Inner') \in Nat
  <2>1. CASE di = 0
    BY <1>1, <1>2, <2>1
  <2>2. CASE di = 1
    <3>1. PICK n : n \notin Inner /\ Inner' = Inner \cup {n}
      BY <2>2
    <3>2. QED
      BY <1>1, <1>2, <2>2, <3>1, FS_AddElement
  <2>3. CASE di = 0 - 1
    <3>1. PICK n \in Inner : Inner' = Inner \ {n}
      BY <2>3
    <3>2. IsFiniteSet(Inner') /\ Cardinality(Inner') = Cardinality(Inner) - 1
      BY <1>1, <3>1, FS_RemoveElement
    <3>3. Cardinality(Inner') \in Nat
      BY <3>2, FS_CardinalityType
    <3>4. QED
      BY <1>2, <2>3, <3>2, <3>3
  <2>4. QED
    BY <2>1, <2>2, <2>3
<1>5. IsFiniteSet(DOMAIN heap')
  <2>1. PICK L, I : L = Leaves' /\ I = Inner'
    OBVIOUS
  <2>2. IsFiniteSet(L \cup I)
    BY <1>3, <1>4, <2>1, FS_Union
  <2>3. QED
    BY <2>1, <2>2
<1>6. PICK l, i, c : /\ l = stats.leaves + dl /\ i = stats.innernodes + di
                     /\ c = stats.itemcount + dc
  OBVIOUS
<1>7. stats' = Stats(l, i, c)
  BY <1>6 DEF CountersMoved
<1>8. l = Cardinality(Leaves') /\ i = Cardinality(Inner') /\ c \in Nat
  BY <1>3, <1>4, <1>6 DEF Counted
<1>9. stats' \in Counters /\ stats'.leaves = l /\ stats'.innernodes = i
  BY <1>3, <1>4, <1>7, <1>8, CountersGiven
<1>10. QED
  BY <1>5, <1>8, <1>9 DEF Counted

\* The counters' type.
LEMMA CountersType == TypeOK => stats \in Counters
  BY DEF TypeOK, Counters

-----------------------------------------------------------------------------
(* Begin and end of a call *)

\* The empty tree.
LEMMA InitShape == Init => ShapeInv
<1> SUFFICES ASSUME Init PROVE ShapeInv
  OBVIOUS
<1>1. /\ root = Null /\ head = Null /\ tail = Null /\ heap = <<>>
      /\ pc = "idle" /\ key = Null /\ stack = <<>>
      /\ newkey = Null /\ newchild = Null /\ lastkey = Null /\ fixmerge = FALSE
      /\ stored = {} /\ stats = Stats(0, 0, 0)
  BY DEF Init, Stats
<1>2. DOMAIN heap = {} /\ Leaves = {} /\ Inner = {} /\ LiveInner = {} /\ LiveLeaves = {}
  <2>1. DOMAIN heap = {}
    BY <1>1
  <2>2. QED
    BY <2>1 DEF Leaves, Inner, LiveInner, LiveLeaves
<1>3. heap \in [DOMAIN heap -> LeafNodes \cup InnerNodes]
  BY <1>1, <1>2
<1>4. stack \in Seq(Frames) /\ Len(stack) = 0
  BY <1>1
<1>5. stats \in Counters /\ stats.leaves = 0 /\ stats.innernodes = 0
  BY <1>1, CountersGiven
<1>6. TypeOK
  BY <1>1, <1>2, <1>3, <1>4, <1>5 DEF TypeOK, Pointers, Counters
<1>7. Tree
  BY <1>1, <1>2 DEF Tree, LinkedOnce
<1>8. CallUnderWay
  BY <1>1, <1>4 DEF CallUnderWay, StackLeadsDown, descending
<1>9. Counted
  BY <1>2, <1>5, FS_EmptySet DEF Counted
<1>10. QED
  BY <1>6, <1>7, <1>8, <1>9 DEF ShapeInv

\* Nothing of the tree changes but what a call under way excuses.
LEMMA SameTree ==
  ASSUME TypeOK, Tree, UNCHANGED <<root, heap>>, newchild' = newchild,
         gone = Null, gone' = Null,
         \A n \in LiveInner : least(n)' <= Len(heap[n].slotkey),
         pc' = "insert" \/ pc # "insert" \/ (root \in Leaves => heap[root].items # {})
  PROVE  Tree'
<1>1. Leaves' = Leaves /\ Inner' = Inner /\ LiveInner' = LiveInner /\ LiveLeaves' = LiveLeaves
  BY DEF Leaves, Inner, isleafnode, LiveInner, LiveLeaves
<1>2. LinkedOnce'
  BY <1>1, LinkedSame DEF Tree
<1>3. ASSUME NEW n \in LiveInner' PROVE InnerFilled(n)'
  <2>1. n \in LiveInner /\ InnerFilled(n) /\ n \in Inner
    BY <1>1 DEF Tree, LiveInner
  <2>2. heap[n] \in InnerNodes
    BY <2>1, NodeKinds
  <2>3. Len(heap[n].slotkey) \in Nat
    BY <2>2, InnerFields
  <2>4. least(n)' \in Nat
    BY Half DEF least
  <2>5. least(n)' <= Len(heap[n].slotkey)
    BY <2>1
  <2>6. QED
    BY <2>1, <2>3, <2>4, <2>5, FilledSame
<1>4. ASSUME NEW n \in LiveLeaves' PROVE LeafFilled(n)'
  <2>1. LeafFilled(n) /\ n \in Leaves
    BY <1>1, <1>4 DEF Tree, LiveLeaves
  <2>2. QED
    BY <2>1 DEF LeafFilled
<1>5. QED
  BY <1>2, <1>3, <1>4 DEF Tree

\* An inner node has the keys it is to have.
LEMMA FilledSlots ==
  ASSUME NEW n, InnerFilled(n)
  PROVE  Len(heap[n].slotkey) >= least(n) /\ Len(heap[n].slotkey) <= innerslotmax
         /\ Len(heap[n].slotkey) \in Int
  BY Half, LeastValues DEF InnerFilled

\* The call returns, and the tree is as it was.
LEMMA ReturnShape ==
  ASSUME ShapeInv, UNCHANGED <<tree>>, return, stats' \in Counters, Counted',
         stored' \subseteq Keys, pc # "balance", ~fixmerge, newchild = Null,
         pc = "insert" => FALSE
  PROVE  ShapeInv'
<1>1. /\ pc' = "idle" /\ key' = Null /\ stack' = <<>> /\ newkey' = Null
      /\ newchild' = Null /\ lastkey' = Null /\ fixmerge' = FALSE
      /\ root' = root /\ head' = head /\ tail' = tail /\ heap' = heap
  BY DEF return, tree
<1>2. TypeOK'
  <2>1. /\ DOMAIN heap' \subseteq Nodes
        /\ heap' \in [DOMAIN heap' -> LeafNodes \cup InnerNodes]
        /\ root' \in DOMAIN heap' \cup {Null} /\ {head', tail'} \subseteq Pointers
    BY <1>1 DEF ShapeInv, TypeOK
  <2>2. stack' \in Seq(Frames) /\ Null \in Pointers
    BY <1>1 DEF Pointers
  <2>3. stats' \in [leaves : Nat, innernodes : Nat, itemcount : Nat]
    BY DEF Counters
  <2>4. QED
    BY <1>1, <2>1, <2>2, <2>3 DEF TypeOK
<1>3. gone = Null /\ gone' = Null
  BY <1>1 DEF gone
<1>4. Tree'
  <2>1. ASSUME NEW n \in LiveInner PROVE least(n)' <= Len(heap[n].slotkey)
    <3>1. InnerFilled(n)
      BY DEF ShapeInv, Tree
    <3>2. least(n)' = least(n)
      BY <1>1, LeastValues DEF least, rootSplit
    <3>3. QED
      BY <3>1, <3>2, FilledSlots
  <2>2. QED
    BY <1>1, <1>3, <2>1, SameTree DEF ShapeInv
<1>5. CallUnderWay'
  <2>1. StackLeadsDown'
    BY <1>1, EmptyStack
  <2>2. QED
    BY <1>1, <2>1 DEF CallUnderWay
<1>6. QED
  BY <1>2, <1>4, <1>5 DEF ShapeInv

\* The slot of the descent.
LEMMA FindLowerSlot ==
  ASSUME TypeOK, NEW n \in DOMAIN heap, NEW k
  PROVE  /\ find_lower(heap, n, k) \in Nat
         /\ n \in Inner => find_lower(heap, n, k) \in 0 .. slotuse(n)
<1>1. CASE n \in Leaves
  BY <1>1, NodeKinds DEF find_lower, Leaves, isleafnode
<1>2. CASE n \in Inner
  <2>1. heap[n] \in InnerNodes /\ heap[n].level # 0
    BY <1>2, NodeKinds, InnerFields
  <2>2. Len(heap[n].slotkey) \in Nat
    BY <2>1, InnerFields
  <2>3. PICK c, S : /\ c = Len(heap[n].slotkey)
                    /\ S = {i \in 1 .. Len(heap[n].slotkey) : heap[n].slotkey[i] < k}
    OBVIOUS
  <2>4. find_lower(heap, n, k) = Cardinality(S)
    BY <2>1, <2>3 DEF find_lower
  <2>5. S \subseteq 1 .. c /\ IsFiniteSet(1 .. c) /\ Cardinality(1 .. c) = c /\ c \in Nat
    <3>1. c \in Nat /\ S \subseteq 1 .. c
      BY <2>2, <2>3
    <3>2. IsFiniteSet(1 .. c) /\ Cardinality(1 .. c) = IF 1 > c THEN 0 ELSE c - 1 + 1
      BY <3>1, FS_Interval
    <3>3. QED
      BY <3>1, <3>2
  <2>6. Cardinality(S) \in Nat /\ Cardinality(S) <= c
    BY <2>5, FS_Subset, FS_CardinalityType
  <2>7. slotuse(n) = c
    BY <1>2, <2>3, SlotUse
  <2>8. QED
    BY <2>4, <2>5, <2>6, <2>7
<1>3. QED
  BY <1>1, <1>2, NodeKinds

\* Keys are naturals.
LEMMA KeyTypes == \A k \in Keys : k \in Nat /\ k # Null
  BY CompactAssumption

\* Only Fix has an emptied node, and only insert on its way back a new one.
LEMMA PlainPc ==
  ASSUME CallUnderWay
  PROVE  /\ pc # "fix" => ~fixmerge /\ gone = Null
         /\ pc # "link" => newchild = Null
  BY DEF CallUnderWay, gone

\* A call begins in a tree with nodes.
LEMMA StartShape ==
  ASSUME ShapeInv, pc = "idle", root # Null, NEW k \in Keys,
         UNCHANGED <<tree, stats, split, result, stored>>,
         key' = k, pc' \in {"insert", "erase"}, pc' = "insert" => k \notin stored,
         stack' = <<rootFrame(heap, root, k)>>
  PROVE  ShapeInv'
<1>1. /\ root' = root /\ head' = head /\ tail' = tail /\ heap' = heap
      /\ stats' = stats /\ newkey' = newkey /\ newchild' = newchild
      /\ lastkey' = lastkey /\ fixmerge' = fixmerge /\ stored' = stored
  BY DEF tree, split, result
<1>2. newchild = Null /\ gone = Null /\ gone' = Null /\ ~fixmerge /\ ~fixmerge'
  BY <1>1, PlainPc DEF ShapeInv, gone
<1>3. root \in DOMAIN heap /\ root \in Nodes
  BY DEF ShapeInv, TypeOK
<1>4. PICK f : f = rootFrame(heap, root, k)
  OBVIOUS
<1>5. /\ f.node = root /\ f.left = Null /\ f.right = Null /\ f.leftparent = Null
      /\ f.rightparent = Null /\ f.slot = find_lower(heap, root, k) /\ f \in Frames
  BY <1>3, <1>4, FindLowerSlot DEF ShapeInv, rootFrame, Frames, Pointers
<1>6. /\ stack' = <<f>> /\ Len(stack') = 1 /\ stack'[1] = f /\ stack' \in Seq(Frames)
      /\ stack' # <<>> /\ top' = f
  BY <1>4, <1>5 DEF top, Last
<1>7. TypeOK'
  <2>1. /\ DOMAIN heap' \subseteq Nodes
        /\ heap' \in [DOMAIN heap' -> LeafNodes \cup InnerNodes]
        /\ root' \in DOMAIN heap' \cup {Null} /\ {head', tail'} \subseteq Pointers
        /\ stats' \in [leaves : Nat, innernodes : Nat, itemcount : Nat]
    BY <1>1 DEF ShapeInv, TypeOK
  <2>2. /\ newkey' \in Keys \cup {Null} /\ newchild' \in Pointers
        /\ lastkey' \in Keys \cup {Null} /\ fixmerge' \in BOOLEAN
        /\ stored' \subseteq Keys
    BY <1>1 DEF ShapeInv, TypeOK
  <2>3. QED
    BY <1>6, <2>1, <2>2 DEF TypeOK
<1>8. Tree'
  <2>1. ASSUME NEW n \in LiveInner PROVE least(n)' <= Len(heap[n].slotkey)
    <3>1. InnerFilled(n)
      BY DEF ShapeInv, Tree
    <3>2. least(n)' = IF n = root THEN 1 ELSE innerslotmax \div 2
      BY <1>1, <1>6 DEF least, rootSplit
    <3>3. least(n) = IF n = root THEN 1 ELSE innerslotmax \div 2
      BY <1>2, LeastValues DEF rootSplit
    <3>4. QED
      BY <3>1, <3>2, <3>3, FilledSlots
  <2>2. QED
    <3>1. root \in Leaves => heap[root].items # {}
      BY <1>2, NodeKinds DEF ShapeInv, Tree, LeafFilled, LiveLeaves
    <3>2. QED
      BY <1>1, <1>2, <2>1, <3>1, SameTree DEF ShapeInv
<1>9. CallUnderWay'
  <2>1. FrameAt(1)'
    <3>1. root \in Live'
      BY <1>1, <1>2, <1>3, NodeKinds DEF Live, ShapeInv
    <3>2. heap[root].level \in Nat
      BY <1>3, Levels DEF ShapeInv
    <3>3. root \in Inner => f.slot \in 0 .. slotuse(root)
      BY <1>3, <1>5, FindLowerSlot DEF ShapeInv
    <3>4. Inner' = Inner /\ descending'
      BY <1>1 DEF Inner, Leaves, isleafnode, descending
    <3>5. slotuse(root)' = slotuse(root)
      BY <1>1 DEF slotuse
    <3>6. heap'[root].level + 1 = heap'[root'].level + 1
      BY <1>1
    <3>7. root \in Inner' => f.slot \in 0 .. slotuse(root)'
      BY <3>3, <3>4, <3>5
    <3>8. stack'[1].node = root /\ stack'[1].slot = f.slot /\ Len(stack') = 1
      BY <1>5, <1>6
    <3>9. QED
      BY <1>1, <3>1, <3>4, <3>6, <3>7, <3>8 DEF FrameAt
  <2>2. \A e \in 1 .. Len(stack') : e = 1
    BY <1>6
  <2>3. \A e \in 1 .. Len(stack') - 1 : FALSE
    BY <1>6
  <2>4. CousinsKnown(top)'
    BY <1>5, <1>6 DEF CousinsKnown
  <2>5. stack'[1].node = root' /\ stack'[1].left = Null /\ stack'[1].right = Null
    BY <1>1, <1>5, <1>6
  <2>6. StackLeadsDown'
    BY <1>6, <2>1, <2>2, <2>3, <2>4, <2>5 DEF StackLeadsDown
  <2>7. k # Null
    BY KeyTypes
  <2>8. QED
    BY <1>1, <1>2, <2>6, <2>7 DEF CallUnderWay
<1>10. Counted'
  <2>1. Leaves' = Leaves /\ Inner' = Inner
    BY <1>1 DEF Leaves, Inner, isleafnode
  <2>2. QED
    BY <1>1, <2>1 DEF ShapeInv, Counted
<1>11. QED
  BY <1>7, <1>8, <1>9, <1>10 DEF ShapeInv

\* The first key makes the first leaf.
LEMMA FirstLeaf ==
  ASSUME ShapeInv, NEW k \in Keys, BeginInsert(k), root = Null
  PROVE  /\ DOMAIN heap' = {fresh} /\ heap'[fresh] = Leaf({}, Null, Null)
         /\ heap' \in [DOMAIN heap' -> LeafNodes \cup InnerNodes]
         /\ Leaves' = {fresh} /\ Inner' = {} /\ fresh \in Nodes /\ fresh # Null
         /\ Leaves = {} /\ Inner = {} /\ DOMAIN heap = {}
         /\ root' = fresh /\ head' = fresh /\ tail' = fresh
         /\ fixmerge' = FALSE /\ fixmerge = FALSE /\ newchild' = Null /\ newchild = Null
         /\ lastkey' = lastkey /\ newkey' = newkey /\ stored' = stored
         /\ pc' = "insert" /\ key' = k /\ k \notin stored /\ pc = "idle"
         /\ \E f \in Frames :
              /\ stack' = <<f>> /\ f.node = fresh /\ f.left = Null /\ f.right = Null
              /\ f.leftparent = Null /\ f.rightparent = Null /\ f.slot = 0
<1>1. /\ pc = "idle" /\ k \notin stored /\ key' = k /\ pc' = "insert"
      /\ UNCHANGED <<split, result, stored>>
      /\ canAllocate /\ root' = fresh /\ head' = fresh /\ tail' = fresh
      /\ heap' = put(heap, fresh, Leaf({}, Null, Null))
      /\ stack' = <<rootFrame(heap', fresh, k)>>
  BY DEF BeginInsert, Leaf
<1>2. DOMAIN heap = {}
  BY DEF ShapeInv, Tree
<1>3. fresh \in Nodes /\ fresh # Null
  BY <1>1, FreshNode
<1>4. /\ DOMAIN heap' = {fresh} /\ heap'[fresh] = Leaf({}, Null, Null)
      /\ IsFunction(heap')
  <2>1. PICK c, h : c = Leaf({}, Null, Null) /\ h = put(heap, fresh, c)
    OBVIOUS
  <2>2. Placed(h, heap, fresh, c)
    BY <2>1, PutNode
  <2>3. heap' = h
    BY <1>1, <2>1
  <2>4. QED
    BY <1>2, <2>1, <2>2, <2>3 DEF Placed
<1>5. heap'[fresh] \in LeafNodes /\ heap'[fresh].level = 0
  BY <1>4, NodeRecords, GivenFields DEF Pointers
<1>6. heap' \in [DOMAIN heap' -> LeafNodes \cup InnerNodes]
  BY <1>4, <1>5 DEF IsFunction
<1>7. Leaves' = {fresh} /\ Inner' = {} /\ Leaves = {} /\ Inner = {}
  BY <1>2, <1>4, <1>5 DEF Leaves, Inner, isleafnode
<1>8. newchild = Null /\ fixmerge = FALSE
  BY <1>1, PlainPc DEF ShapeInv, TypeOK
<1>9. PICK f : f = rootFrame(heap', fresh, k)
  OBVIOUS
<1>10. find_lower(heap', fresh, k) = 0
  BY <1>5 DEF find_lower
<1>11. /\ f \in Frames /\ f.node = fresh /\ f.left = Null /\ f.right = Null
       /\ f.leftparent = Null /\ f.rightparent = Null /\ f.slot = 0
  BY <1>3, <1>9, <1>10 DEF rootFrame, Frames, Pointers
<1>12. UNCHANGED <<newkey, newchild, lastkey, fixmerge, stored>>
  BY <1>1 DEF split, result
<1>13. QED
  BY <1>1, <1>2, <1>3, <1>4, <1>6, <1>7, <1>8, <1>9, <1>11, <1>12

\* insert_start of an empty tree keeps the shape.
LEMMA FirstLeafShape ==
  ASSUME ShapeInv, NEW k \in Keys, BeginInsert(k), root = Null
  PROVE  ShapeInv'
<1>1. /\ DOMAIN heap' = {fresh} /\ heap'[fresh] = Leaf({}, Null, Null)
      /\ heap' \in [DOMAIN heap' -> LeafNodes \cup InnerNodes]
      /\ Leaves' = {fresh} /\ Inner' = {} /\ fresh \in Nodes /\ fresh # Null
      /\ Leaves = {} /\ Inner = {}
      /\ root' = fresh /\ head' = fresh /\ tail' = fresh
      /\ fixmerge' = FALSE /\ newchild' = Null
      /\ lastkey' = lastkey /\ newkey' = newkey /\ stored' = stored
      /\ pc' = "insert" /\ key' = k /\ k \notin stored /\ pc = "idle"
  BY FirstLeaf
<1>2. PICK f \in Frames :
              /\ stack' = <<f>> /\ f.node = fresh /\ f.left = Null /\ f.right = Null
              /\ f.leftparent = Null /\ f.rightparent = Null /\ f.slot = 0
  BY FirstLeaf
<1>3. Counted' /\ stats' \in Counters
  <2>1. stats' = [stats EXCEPT !.leaves = @ + 1]
    BY DEF BeginInsert
  <2>2. CountersMoved(1, 0, 0)
    BY <2>1, CountersMove, CountersType DEF ShapeInv
  <2>3. stats.itemcount + 0 \in Nat
    BY CountersType, CountersGiven DEF ShapeInv
  <2>4. Leaves' \cup Inner' = DOMAIN heap'
    BY <1>1
  <2>5. fresh \notin Leaves /\ Leaves' = Leaves \cup {fresh} /\ Inner' = Inner
    BY <1>1
  <2>6. 1 \in {0, 1, 0 - 1} /\ 0 \in {0, 1, 0 - 1} /\ 1 # 0 /\ 1 # 0 - 1 /\ 0 # 0 - 1
    OBVIOUS
  <2>7. QED
    BY <2>2, <2>3, <2>4, <2>5, <2>6, CountedNext DEF ShapeInv
<1>4. /\ Len(stack') = 1 /\ stack'[1] = f /\ stack' \in Seq(Frames)
      /\ stack' # <<>> /\ top' = f
  BY <1>2 DEF top, Last
<1>5. TypeOK'
  <2>1. /\ newkey' \in Keys \cup {Null} /\ newchild' \in Pointers
        /\ lastkey' \in Keys \cup {Null} /\ fixmerge' \in BOOLEAN
        /\ stored' \subseteq Keys
    BY <1>1 DEF ShapeInv, TypeOK, Pointers
  <2>2. stats' \in [leaves : Nat, innernodes : Nat, itemcount : Nat]
    BY <1>3 DEF Counters
  <2>3. QED
    BY <1>1, <1>4, <2>1, <2>2 DEF TypeOK, Pointers
<1>6. gone' = Null
  BY <1>1 DEF gone
<1>7. Tree'
  <2>1. LiveInner' = {} /\ LiveLeaves' = {fresh}
    BY <1>1, <1>6 DEF LiveInner, LiveLeaves
  <2>2. LinkedOnce'
    BY <1>1, <2>1 DEF LinkedOnce
  <2>3. heap'[fresh].items = {}
    BY <1>1, GivenFields
  <2>4. ASSUME NEW n \in LiveLeaves' PROVE LeafFilled(n)'
    <3>1. n = fresh /\ heap'[n].items = {}
      BY <2>1, <2>3
    <3>2. IsFiniteSet(heap'[n].items) /\ Cardinality(heap'[n].items) = 0
      BY <3>1, FS_EmptySet
    <3>3. QED
      BY <1>1, <3>1, <3>2, Half DEF LeafFilled
  <2>5. QED
    BY <1>1, <2>1, <2>2, <2>4 DEF Tree
<1>8. CallUnderWay'
  <2>1. FrameAt(1)'
    <3>1. fresh \in Live'
      BY <1>1, <1>6 DEF Live
    <3>2. heap'[fresh].level + 1 = heap'[root'].level + 1
      BY <1>1
    <3>3. QED
      BY <1>1, <1>2, <1>4, <3>1, <3>2 DEF FrameAt, descending
  <2>2. \A e \in 1 .. Len(stack') : e = 1
    BY <1>4
  <2>3. \A e \in 1 .. Len(stack') - 1 : FALSE
    BY <1>4
  <2>4. CousinsKnown(top)'
    BY <1>2, <1>4 DEF CousinsKnown
  <2>5. stack'[1].node = root' /\ stack'[1].left = Null /\ stack'[1].right = Null
    BY <1>1, <1>2, <1>4
  <2>6. StackLeadsDown'
    BY <1>4, <2>1, <2>2, <2>3, <2>4, <2>5 DEF StackLeadsDown
  <2>7. k # Null
    BY KeyTypes
  <2>8. QED
    BY <1>1, <2>6, <2>7 DEF CallUnderWay
<1>9. QED
  BY <1>3, <1>5, <1>7, <1>8 DEF ShapeInv

\* insert_start and erase_one keep the shape.
LEMMA BeginShape ==
  ASSUME ShapeInv, NEW k \in Keys, BeginInsert(k) \/ BeginErase(k)
  PROVE  ShapeInv'
<1>1. CASE BeginInsert(k) /\ root = Null
  BY <1>1, FirstLeafShape
<1>2. CASE BeginInsert(k) /\ root # Null
  BY <1>2, StartShape DEF BeginInsert
<1>3. CASE BeginErase(k)
  BY <1>3, StartShape DEF BeginErase
<1>4. QED
  BY <1>1, <1>2, <1>3

-----------------------------------------------------------------------------
(* The next heap *)

IsNode(x) == x \in LeafNodes \/ x \in InnerNodes
HeapTyped(h) == /\ IsFunction(h) /\ DOMAIN h \subseteq Nodes
                /\ \A n \in DOMAIN h : IsNode(h[n])

\* The heap has its type.
LEMMA HeapNow ==
  ASSUME TypeOK
  PROVE  HeapTyped(heap)
  BY HeapIsFunction, NodeKinds DEF HeapTyped, IsNode

\* A node written keeps the type.
LEMMA PlacedTyped ==
  ASSUME NEW h, HeapTyped(h), NEW g, NEW n \in Nodes, NEW c, IsNode(c), Placed(g, h, n, c)
  PROVE  HeapTyped(g)
  BY DEF HeapTyped, Placed

\* A node freed keeps the type.
LEMMA FreedTyped ==
  ASSUME NEW h, HeapTyped(h), NEW g, NEW n, Freed(g, h, n)
  PROVE  HeapTyped(g)
  BY DEF HeapTyped, Freed

\* The types hold in the next state.
LEMMA TypeNext ==
  ASSUME TypeOK, HeapTyped(heap'), stats' \in Counters, root' \in DOMAIN heap' \cup {Null},
         head' \in Pointers, tail' \in Pointers,
         pc' \in {"idle", "insert", "link", "erase", "fix", "balance"},
         key' \in Keys \cup {Null}, stack' \in Seq(Frames),
         newkey' \in Keys \cup {Null}, newchild' \in Pointers,
         lastkey' \in Keys \cup {Null}, fixmerge' \in BOOLEAN, stored' \subseteq Keys
  PROVE  TypeOK'
<1>1. heap' \in [DOMAIN heap' -> LeafNodes \cup InnerNodes] /\ DOMAIN heap' \subseteq Nodes
  BY HeapType DEF HeapTyped, IsNode
<1>2. stats' \in [leaves : Nat, innernodes : Nat, itemcount : Nat]
  BY DEF Counters
<1>3. QED
  BY <1>1, <1>2 DEF TypeOK

\* The parts of TypeOK.
LEMMA TypeNow ==
  ASSUME TypeOK
  PROVE  /\ root \in DOMAIN heap \cup {Null} /\ head \in Pointers /\ tail \in Pointers
         /\ key \in Keys \cup {Null} /\ stack \in Seq(Frames)
         /\ newkey \in Keys \cup {Null} /\ newchild \in Pointers
         /\ lastkey \in Keys \cup {Null} /\ fixmerge \in BOOLEAN /\ stored \subseteq Keys
         /\ Null \in Pointers /\ Nodes \subseteq Pointers /\ stats \in Counters
  BY DEF TypeOK, Pointers, Counters

\* Nodes with the levels they had are leaves and inner nodes as before.
LEMMA SameKinds ==
  ASSUME DOMAIN heap' = DOMAIN heap, \A n \in DOMAIN heap : heap'[n].level = heap[n].level
  PROVE  Leaves' = Leaves /\ Inner' = Inner
  BY DEF Leaves, Inner, isleafnode

\* An inner node with its children and as many keys.
Alike(n) ==
  /\ heap'[n].level = heap[n].level /\ heap'[n].childid = heap[n].childid
  /\ Len(heap'[n].slotkey) = Len(heap[n].slotkey)

\* A step that leaves the inner nodes alike keeps the tree.
LEMMA TreeAlike ==
  ASSUME TypeOK, Tree, LiveInner' = LiveInner, \A n \in LiveInner : Alike(n),
         \A n \in DOMAIN heap : heap'[n].level = heap[n].level,
         DOMAIN heap' \ {root', newchild'} = DOMAIN heap \ {root, newchild},
         \A n \in LiveInner : least(n)' <= Len(heap[n].slotkey),
         \A n \in LiveLeaves' : LeafFilled(n)', root' # Null
  PROVE  Tree'
<1>1. LinkedOnce'
  BY LinkedSame DEF Tree, Alike
<1>2. ASSUME NEW n \in LiveInner' PROVE InnerFilled(n)'
  <2>1. n \in LiveInner /\ InnerFilled(n) /\ LinkedOnce /\ n \in DOMAIN heap
    BY NodeKinds DEF Tree, LiveInner
  <2>2. Alike(n) /\ least(n)' <= Len(heap[n].slotkey)
    BY <2>1
  <2>3. Len(heap[n].slotkey) \in Nat /\ \A i \in Slots(n) : heap[n].childid[i] \in DOMAIN heap
    BY <2>1, ChildNodes
  <2>4. least(n)' \in Nat
    BY Half DEF least
  <2>5. \A i \in Slots(n) :
           heap'[heap[n].childid[i]].level = heap[heap[n].childid[i]].level
    BY <2>3
  <2>6. QED
    BY <2>1, <2>2, <2>3, <2>4, <2>5, FilledSame DEF Alike
<1>3. QED
  BY <1>1, <1>2 DEF Tree

\* Where a call on its way down is.
LEMMA OnTheWay ==
  ASSUME ShapeInv, descending
  PROVE  /\ stack # <<>> /\ root # Null /\ gone = Null /\ ~fixmerge /\ newchild = Null
         /\ LiveInner = Inner /\ LiveLeaves = Leaves /\ Live = DOMAIN heap
         /\ key \in Keys /\ CousinsKnown(top)
<1>1. stack # <<>> /\ CousinsKnown(top) /\ root # Null /\ key # Null
  BY DEF ShapeInv, CallUnderWay, StackLeadsDown, descending
<1>2. gone = Null /\ ~fixmerge /\ newchild = Null
  BY PlainPc DEF ShapeInv, descending
<1>3. Null \notin DOMAIN heap
  BY CompactAssumption DEF ShapeInv, TypeOK
<1>4. LiveInner = Inner /\ LiveLeaves = Leaves /\ Live = DOMAIN heap
  BY <1>2, <1>3, NodeKinds DEF LiveInner, LiveLeaves, Live, ShapeInv
<1>5. key \in Keys
  BY <1>1, TypeNow DEF ShapeInv
<1>6. QED
  BY <1>1, <1>2, <1>4, <1>5

-----------------------------------------------------------------------------
(* The descent *)

\* The frame of the child.
LEMMA ChildFrame ==
  ASSUME ShapeInv, descending, cur \in Inner
  PROVE  LET f == childFrame(top)
         IN /\ f \in Frames
            /\ f.node = heap[cur].childid[top.slot + 1]
            /\ f.node \in DOMAIN heap /\ heap[f.node].level + 1 = heap[cur].level
            /\ f.node \in Inner => f.slot \in 0 .. slotuse(f.node)
            /\ f.slot = find_lower(heap, f.node, key)
            /\ NearbyKnown(top, f) /\ CousinsKnown(f)
<1>1. /\ stack # <<>> /\ root # Null /\ LiveInner = Inner /\ Live = DOMAIN heap
      /\ CousinsKnown(top)
  BY OnTheWay
<1>2. TypeOK /\ LinkedOnce /\ StackLeadsDown /\ \A n \in LiveInner : InnerFilled(n)
  BY DEF ShapeInv, Tree, CallUnderWay
<1>3. Len(stack) \in 1 .. Len(stack) /\ top = stack[Len(stack)] /\ cur = top.node
  BY <1>1, <1>2, StackEnds DEF cur
<1>4. /\ top.left \in Pointers /\ top.right \in Pointers
      /\ top.leftparent \in Pointers /\ top.rightparent \in Pointers
  BY <1>2, <1>3, FrameType
<1>5. FrameAt(Len(stack)) /\ pc # "balance"
  BY <1>2, <1>3 DEF StackLeadsDown, descending
<1>6. top.slot \in 0 .. slotuse(cur)
  BY <1>3, <1>5 DEF FrameAt
<1>7. /\ cur \in DOMAIN heap /\ Len(heap[cur].slotkey) \in Nat
      /\ slotuse(cur) = Len(heap[cur].slotkey)
      /\ Slots(cur) = 1 .. Len(heap[cur].slotkey) + 1
      /\ heap[cur].level \in Nat
      /\ \A i \in Slots(cur) :
           /\ heap[cur].childid[i] \in DOMAIN heap
           /\ heap[heap[cur].childid[i]].level \in Nat
           /\ heap[heap[cur].childid[i]].level + 1 = heap[cur].level
  BY <1>1, <1>2, ChildNodes, NodeKinds
<1>8. PICK m, s, c : m = Len(heap[cur].slotkey) /\ s = top.slot /\ c = child(cur, s)
  OBVIOUS
<1>9. m \in Nat /\ s \in 0 .. m /\ s + 1 \in 1 .. m + 1 /\ c = heap[cur].childid[s + 1]
      /\ slotuse(cur) = m /\ Slots(cur) = 1 .. m + 1
  BY <1>6, <1>7, <1>8 DEF child
<1>10. c \in DOMAIN heap /\ heap[c].level \in Nat /\ heap[c].level + 1 = heap[cur].level
       /\ c \in Nodes
  BY <1>2, <1>7, <1>9 DEF TypeOK
\* A neighbour of the node is an inner node with children.
<1>11. ASSUME NEW n \in {top.left, top.right} \ {Null}
       PROVE  /\ child(n, slotuse(n) - 1) \in DOMAIN heap /\ child(n, 0) \in DOMAIN heap
              /\ heap[child(n, slotuse(n) - 1)].level = heap[c].level
              /\ heap[child(n, 0)].level = heap[c].level
  <2>1. n \in DOMAIN heap /\ heap[n].level = heap[cur].level
    BY <1>1, <1>3 DEF CousinsKnown
  <2>2. heap[cur].level # 0
    BY <1>7, Levels DEF ShapeInv
  <2>3. n \in Inner
    BY <2>1, <2>2, Levels DEF ShapeInv
  <2>4. /\ Len(heap[n].slotkey) \in Nat /\ slotuse(n) = Len(heap[n].slotkey)
        /\ Slots(n) = 1 .. Len(heap[n].slotkey) + 1
        /\ \A i \in Slots(n) :
             /\ heap[n].childid[i] \in DOMAIN heap
             /\ heap[heap[n].childid[i]].level \in Nat
             /\ heap[heap[n].childid[i]].level + 1 = heap[n].level
    BY <1>1, <1>2, <2>3, ChildNodes
  <2>5. slotuse(n) >= 1
    <3>1. InnerFilled(n)
      BY <1>1, <1>2, <2>3
    <3>2. Len(heap[n].slotkey) >= least(n) /\ least(n) \in Nat
      BY <3>1, FilledSlots, LeastValues
    <3>3. least(n) >= 1
      BY <1>5, LeastValues, Half
    <3>4. QED
      BY <2>4, <3>2, <3>3
  <2>6. slotuse(n) - 1 + 1 \in Slots(n) /\ 0 + 1 \in Slots(n)
    BY <2>4, <2>5
  <2>7. ASSUME NEW i \in Slots(n)
        PROVE  heap[n].childid[i] \in DOMAIN heap
               /\ heap[heap[n].childid[i]].level = heap[c].level
    <3>1. PICK a, b, d : /\ a = heap[heap[n].childid[i]].level /\ b = heap[c].level
                         /\ d = heap[cur].level
      OBVIOUS
    <3>2. a \in Nat /\ a + 1 = d /\ b \in Nat /\ b + 1 = d
      BY <1>10, <2>1, <2>4, <3>1
    <3>3. a = b
      BY <3>2
    <3>4. QED
      BY <2>4, <3>1, <3>3
  <2>8. QED
    BY <2>6, <2>7 DEF child
<1>12. s > 0 => /\ child(cur, s - 1) \in DOMAIN heap
                /\ heap[child(cur, s - 1)].level = heap[c].level
  <2>1. s > 0 => s - 1 + 1 \in Slots(cur)
    BY <1>9
  <2>2. QED
    BY <1>7, <1>10, <2>1 DEF child
<1>13. s < m => /\ child(cur, s + 1) \in DOMAIN heap
                /\ heap[child(cur, s + 1)].level = heap[c].level
  <2>1. s < m => s + 1 + 1 \in Slots(cur)
    BY <1>9
  <2>2. QED
    BY <1>7, <1>10, <2>1 DEF child
<1>14. PICK f : f = childFrame(top)
  OBVIOUS
<1>15. /\ f.node = c /\ f.slot = find_lower(heap, c, key)
       /\ s > 0 => f.left = child(cur, s - 1) /\ f.leftparent = cur
       /\ s = 0 => f.leftparent = top.leftparent
       /\ s = 0 /\ top.left = Null => f.left = Null
       /\ s = 0 /\ top.left # Null => f.left = child(top.left, slotuse(top.left) - 1)
       /\ s < m => f.right = child(cur, s + 1) /\ f.rightparent = cur
       /\ s = m => f.rightparent = top.rightparent
       /\ s = m /\ top.right = Null => f.right = Null
       /\ s = m /\ top.right # Null => f.right = child(top.right, 0)
       /\ f = [node |-> f.node, slot |-> f.slot, left |-> f.left,
               leftparent |-> f.leftparent, right |-> f.right,
               rightparent |-> f.rightparent]
  <2>1. \A x : s > 0 => ~(s = 0)
    BY <1>9
  <2>2. s < m => ~(s = m)
    BY <1>9
  <2>3. QED
    BY <1>3, <1>8, <1>9, <1>14, <2>1, <2>2 DEF childFrame
<1>16. /\ f.left # Null => f.left \in DOMAIN heap /\ heap[f.left].level = heap[c].level
       /\ f.right # Null => f.right \in DOMAIN heap /\ heap[f.right].level = heap[c].level
  <2>1. (s > 0 \/ s = 0) /\ (s < m \/ s = m)
    BY <1>9
  <2>2. QED
    BY <1>11, <1>12, <1>13, <1>15, <2>1
<1>17. \A p \in {f.leftparent, f.rightparent} \ {Null} :
         p \in DOMAIN heap /\ heap[p].level > heap[c].level
  <2>1. (s > 0 \/ s = 0) /\ (s < m \/ s = m)
    BY <1>9
  <2>2. \A p \in {top.leftparent, top.rightparent} \ {Null} :
          p \in DOMAIN heap /\ heap[p].level > heap[cur].level
    BY <1>1, <1>3 DEF CousinsKnown
  <2>3. \A p \in DOMAIN heap : heap[p].level \in Nat
    BY Levels DEF ShapeInv
  <2>4. ASSUME NEW p \in {f.leftparent, f.rightparent} \ {Null}
        PROVE  p \in DOMAIN heap /\ heap[p].level >= heap[cur].level
    <3>1. p = cur \/ p \in {top.leftparent, top.rightparent} \ {Null}
      BY <1>15, <2>1, <2>4
    <3>2. QED
      BY <1>7, <2>2, <2>3, <3>1
  <2>5. QED
    BY <1>7, <1>10, <2>3, <2>4
<1>18. /\ s > 0 <=> f.leftparent = cur
       /\ s < m <=> f.rightparent = cur
  <2>1. (s > 0 \/ s = 0) /\ (s < m \/ s = m) /\ ~(s > 0 /\ s = 0) /\ ~(s < m /\ s = m)
    BY <1>9
  <2>2. top.leftparent # cur /\ top.rightparent # cur
    <3>1. \A p \in {top.leftparent, top.rightparent} \ {Null} :
            heap[p].level > heap[cur].level
      BY <1>1, <1>3 DEF CousinsKnown
    <3>2. cur # Null
      BY <1>7, NodeKinds DEF ShapeInv
    <3>3. QED
      BY <1>7, <3>1, <3>2
  <2>3. QED
    BY <1>15, <2>1, <2>2
<1>19. NearbyKnown(top, f)
  BY <1>3, <1>8, <1>9, <1>15, <1>18 DEF NearbyKnown
<1>20. CousinsKnown(f)
  BY <1>15, <1>16, <1>17 DEF CousinsKnown
<1>21. f.slot \in Nat /\ (f.node \in Inner => f.slot \in 0 .. slotuse(f.node))
  BY <1>2, <1>10, <1>15, FindLowerSlot
<1>22. f \in Frames
  <2>1. \A n \in DOMAIN heap \cup {Null} : n \in Pointers
    BY <1>2 DEF TypeOK, Pointers
  <2>2. f.left \in Pointers /\ f.right \in Pointers
    BY <1>16, <2>1
  <2>3. f.leftparent \in Pointers /\ f.rightparent \in Pointers
    BY <1>17, <2>1
  <2>4. PICK x1, x2, x3, x4, x5, x6 :
          /\ x1 = f.node /\ x2 = f.left /\ x3 = f.right /\ x4 = f.leftparent
          /\ x5 = f.rightparent /\ x6 = f.slot
    OBVIOUS
  <2>5. f = [node |-> x1, slot |-> x6, left |-> x2, leftparent |-> x4, right |-> x3,
             rightparent |-> x5]
    BY <1>15, <2>4
  <2>6. /\ x1 \in Nodes /\ x2 \in Pointers /\ x3 \in Pointers /\ x4 \in Pointers
        /\ x5 \in Pointers /\ x6 \in Nat
    BY <1>10, <1>15, <1>21, <2>2, <2>3, <2>4
  <2>7. QED
    BY <2>5, <2>6 DEF Frames
<1>23. /\ f.node = heap[cur].childid[top.slot + 1]
       /\ f.node \in DOMAIN heap /\ heap[f.node].level + 1 = heap[cur].level
       /\ f.slot = find_lower(heap, f.node, key)
  BY <1>8, <1>9, <1>10, <1>15
<1>24. QED
  BY <1>14, <1>19, <1>20, <1>21, <1>22, <1>23

\* What a step that leaves the heap alone leaves alone.
LEMMA SameHeap ==
  ASSUME heap' = heap
  PROVE  /\ Leaves' = Leaves /\ Inner' = Inner
         /\ \A n : slotuse(n)' = slotuse(n)
         /\ \A n, s : child(n, s)' = child(n, s)
         /\ Counted /\ stats' = stats => Counted'
<1>1. Leaves' = Leaves /\ Inner' = Inner
  BY DEF Leaves, Inner, isleafnode
<1>2. QED
  BY <1>1 DEF slotuse, child, Counted

\* The stack of the call with the frame of the child.
LEMMA AppendedStack ==
  ASSUME TypeOK, NEW f \in Frames
  PROVE  LET s == Append(stack, f)
         IN /\ s \in Seq(Frames) /\ Len(s) = Len(stack) + 1 /\ s # <<>>
            /\ Last(s) = f /\ s[Len(stack) + 1] = f
            /\ \A e \in 1 .. Len(stack) : s[e] = stack[e]
<1>1. stack \in Seq(Frames)
  BY DEF TypeOK
<1>2. PICK s : s = Append(stack, f)
  OBVIOUS
<1>3. /\ s \in Seq(Frames) /\ Len(s) = Len(stack) + 1 /\ s # <<>>
      /\ s[Len(stack) + 1] = f
      /\ \A e \in 1 .. Len(stack) : s[e] = stack[e]
  BY <1>1, <1>2
<1>4. Last(s) = f
  BY <1>3 DEF Last
<1>5. QED
  BY <1>2, <1>3, <1>4

\* The stack leads down to the child.
LEMMA DescendStack ==
  ASSUME ShapeInv, Descend
  PROVE  StackLeadsDown' /\ stack' \in Seq(Frames) /\ stack' # <<>>
<1>1. /\ descending /\ ~isleafnode(cur) /\ pc' = pc /\ root' = root /\ heap' = heap
      /\ fixmerge' = fixmerge
      /\ stack' = Append(stack, childFrame(top))
  BY DEF Descend, descending, tree, split, result
<1>2. /\ stack # <<>> /\ root # Null /\ Live = DOMAIN heap /\ ~fixmerge
      /\ TypeOK /\ StackLeadsDown /\ pc # "balance" /\ descending'
  BY <1>1, OnTheWay DEF ShapeInv, CallUnderWay, descending
<1>3. PICK d : d = Len(stack)
  OBVIOUS
<1>4. d \in Nat /\ d >= 1 /\ d \in 1 .. d /\ 1 \in 1 .. d /\ stack[d] = top /\ cur = stack[d].node
  BY <1>2, <1>3, StackEnds
<1>5. FrameAt(d) /\ \A e \in 1 .. d : FrameAt(e)
  BY <1>2, <1>3, <1>4 DEF StackLeadsDown
<1>6. cur \in DOMAIN heap /\ cur \in Inner
  BY <1>1, <1>2, <1>4, <1>5 DEF FrameAt, Inner, Leaves
<1>7. PICK f : f = childFrame(top)
  OBVIOUS
<1>8. /\ f \in Frames
      /\ f.node = heap[cur].childid[top.slot + 1]
      /\ f.node \in DOMAIN heap /\ heap[f.node].level + 1 = heap[cur].level
      /\ f.node \in Inner => f.slot \in 0 .. slotuse(f.node)
      /\ NearbyKnown(top, f) /\ CousinsKnown(f)
  BY <1>1, <1>6, <1>7, ChildFrame
<1>9. /\ stack' \in Seq(Frames) /\ Len(stack') = d + 1 /\ stack' # <<>>
      /\ Last(stack') = f /\ stack'[d + 1] = f
      /\ \A e \in 1 .. d : stack'[e] = stack[e]
  BY <1>1, <1>2, <1>3, <1>7, <1>8, AppendedStack
<1>10. Live' = Live
  BY <1>1, <1>2 DEF Live, gone
<1>11. Inner' = Inner /\ \A n : slotuse(n)' = slotuse(n)
  BY <1>1, SameHeap
<1>12. ASSUME NEW e \in 1 .. d PROVE FrameAt(e)'
  <2>1. FrameAt(e) /\ e < d + 1 /\ stack'[e] = stack[e]
    BY <1>4, <1>5, <1>9
  <2>2. PICK n : n = stack[e].node
    OBVIOUS
  <2>3. n \in Inner
    <3>1. e < d \/ e = d
      BY <1>4
    <3>2. QED
      BY <1>3, <1>4, <1>6, <2>1, <2>2, <3>1 DEF FrameAt
  <2>4. stack[e].slot \in 0 .. slotuse(n)
    BY <1>2, <2>1, <2>2, <2>3 DEF FrameAt
  <2>5. stack'[e].slot \in 0 .. slotuse(n)'
    BY <1>11, <2>1, <2>4
  <2>6. n \in Live' /\ n \in Inner' /\ heap'[n].level + e = heap'[root'].level + 1
    BY <1>1, <1>10, <1>11, <2>1, <2>2, <2>3 DEF FrameAt
  <2>7. QED
    BY <2>1, <2>2, <2>5, <2>6 DEF FrameAt
<1>13. FrameAt(d + 1)'
  <2>1. PICK a, b, c : a = heap[f.node].level /\ b = heap[cur].level /\ c = heap[root].level
    OBVIOUS
  <2>2. a \in Nat /\ a + 1 = b /\ b + d = c + 1 /\ c \in Nat
    BY <1>2, <1>4, <1>5, <1>8, <2>1, Levels DEF FrameAt, TypeOK
  <2>3. a + (d + 1) = c + 1
    BY <1>4, <2>2
  <2>4. PICK n : n = f.node
    OBVIOUS
  <2>5. heap'[n].level + (d + 1) = heap'[root'].level + 1
    BY <1>1, <2>1, <2>3, <2>4
  <2>6. n \in Inner' => f.slot \in 0 .. slotuse(n)'
    BY <1>8, <1>11, <2>4
  <2>7. n \in Live'
    BY <1>2, <1>8, <1>10, <2>4
  <2>8. ~(d + 1 < Len(stack'))
    BY <1>4, <1>9
  <2>9. QED
    BY <1>2, <1>9, <2>4, <2>5, <2>6, <2>7, <2>8 DEF FrameAt
<1>14. ASSUME NEW e \in 1 .. d PROVE FramesMeet(e)'
  <2>1. PICK g, h : g = stack[e] /\ h = stack'[e + 1]
    OBVIOUS
  <2>2. stack'[e] = g
    BY <1>9, <2>1
  <2>3. h.node = child(g.node, g.slot) /\ NearbyKnown(g, h)
    <3>1. CASE e = d
      BY <1>4, <1>8, <1>9, <2>1, <3>1 DEF child
    <3>2. CASE e # d
      <4>1. e \in 1 .. d - 1 /\ e + 1 \in 1 .. d
        BY <1>4, <3>2
      <4>2. QED
        BY <1>2, <1>3, <1>9, <2>1, <4>1 DEF StackLeadsDown, FramesMeet
    <3>3. QED
      BY <3>1, <3>2
  <2>4. NearbyKnown(g, h)'
    BY <1>1, <1>11, <2>3 DEF NearbyKnown, child
  <2>5. h.node = child(g.node, g.slot)'
    BY <1>1, <2>3 DEF child
  <2>6. QED
    BY <2>1, <2>2, <2>4, <2>5 DEF FramesMeet, NearbyKnown, child
<1>15. CousinsKnown(top)'
  BY <1>1, <1>8, <1>9 DEF top, CousinsKnown
<1>16. stack'[1].node = root' /\ stack'[1].left = Null /\ stack'[1].right = Null
  BY <1>1, <1>2, <1>4, <1>9 DEF StackLeadsDown
<1>17. \A e \in 1 .. Len(stack') : e \in 1 .. d \/ e = d + 1
  BY <1>4, <1>9
<1>18. \A e \in 1 .. Len(stack') - 1 : e \in 1 .. d
  BY <1>4, <1>9
<1>19. QED
  BY <1>9, <1>12, <1>13, <1>14, <1>15, <1>16, <1>17, <1>18 DEF StackLeadsDown

\* A step of the descent keeps the shape.
LEMMA DescendShape ==
  ASSUME ShapeInv, Descend
  PROVE  ShapeInv'
<1>1. /\ descending /\ pc' = pc /\ UNCHANGED <<tree, stats, key, split, result, stored>>
  BY DEF Descend, descending
<1>2. UNCHANGED <<root, head, tail, heap, newkey, newchild, lastkey, fixmerge>>
  BY <1>1 DEF tree, split, result
<1>3. StackLeadsDown' /\ stack' \in Seq(Frames) /\ stack' # <<>>
  BY DescendStack
<1>4. /\ stack # <<>> /\ root # Null /\ gone = Null /\ ~fixmerge /\ newchild = Null
      /\ pc # "balance"
  BY <1>1, OnTheWay DEF descending
<1>5. TypeOK'
  <2>1. HeapTyped(heap')
    BY <1>2, HeapNow DEF ShapeInv
  <2>2. QED
    BY <1>1, <1>2, <1>3, <2>1, TypeNow, TypeNext DEF ShapeInv, TypeOK, Counters
<1>6. gone' = Null
  BY <1>2, <1>4 DEF gone
<1>7. Tree'
  <2>1. ASSUME NEW n \in LiveInner PROVE least(n)' <= Len(heap[n].slotkey)
    <3>1. InnerFilled(n)
      BY DEF ShapeInv, Tree
    <3>2. least(n)' = least(n)
      BY <1>1, <1>2, <1>4 DEF least, rootSplit
    <3>3. QED
      BY <3>1, <3>2, FilledSlots
  <2>2. pc' = "insert" \/ pc # "insert"
    BY <1>1
  <2>3. QED
    BY <1>2, <1>4, <1>6, <2>1, <2>2, SameTree DEF ShapeInv
<1>8. CallUnderWay'
  <2>1. /\ pc' = "idle" => FALSE
        /\ pc' = "idle" <=> key' = Null
        /\ root' # Null
        /\ pc' \in {"insert", "link"} => key' \notin stored'
        /\ pc' # "balance" /\ newchild' = Null /\ ~fixmerge'
    BY <1>1, <1>2, <1>4 DEF ShapeInv, CallUnderWay, descending
  <2>2. QED
    BY <1>3, <2>1 DEF CallUnderWay
<1>9. Counted'
  BY <1>1, <1>2, SameHeap DEF ShapeInv
<1>10. QED
  BY <1>5, <1>7, <1>8, <1>9 DEF ShapeInv

\* A key that is not there is not erased.
LEMMA MissShape ==
  ASSUME ShapeInv, EraseMiss
  PROVE  ShapeInv'
<1>1. /\ pc = "erase" /\ return /\ UNCHANGED <<tree, stats, stored>>
  BY DEF EraseMiss
<1>2. newchild = Null /\ ~fixmerge
  BY <1>1, PlainPc DEF ShapeInv
<1>3. heap' = heap /\ stats' \in Counters /\ stored' \subseteq Keys
  BY <1>1, TypeNow DEF ShapeInv, tree
<1>4. Counted'
  BY <1>1, <1>3, SameHeap DEF ShapeInv
<1>5. QED
  BY <1>1, <1>2, <1>3, <1>4, ReturnShape

-----------------------------------------------------------------------------
(* Steps on the way up *)

\* The stack without the current frame, if the nodes above are as they were.
LEMMA UpStack ==
  ASSUME TypeOK, StackLeadsDown, stack # <<>>, root # Null, root' = root,
         pc' \notin {"insert", "erase"}, DOMAIN heap' \subseteq Nodes,
         \A n \in LiveInner : heap[n].level > heap[cur].level => Alike(n) /\ n \in Live',
         stack' = Front(stack)
  PROVE  StackLeadsDown' /\ stack' \in Seq(Frames)
<1>1. \A e \in 1 .. Len(stack) - 1 : NodeKept(stack[e].node)
  <2>1. SUFFICES ASSUME NEW e \in 1 .. Len(stack) - 1 PROVE NodeKept(stack[e].node)
    OBVIOUS
  <2>2. PICK n : n = stack[e].node
    OBVIOUS
  <2>3. n \in LiveInner /\ heap[n].level > heap[cur].level
    BY <2>2, HigherFrames
  <2>4. Alike(n) /\ n \in Live'
    BY <2>3
  <2>5. NodeKept(n)
    BY <2>4 DEF Alike, NodeKept
  <2>6. QED
    BY <2>2, <2>5 DEF NodeKept
<1>2. StackLeadsDown'
  BY <1>1, StackKept
<1>3. QED
  BY <1>2, StackEnds

\* A leaf is the root only if it is the current node.
LEMMA LeafRoot ==
  ASSUME TypeOK, StackLeadsDown, stack # <<>>, root \in Leaves
  PROVE  cur = root /\ Len(stack) = 1 /\ top.left = Null /\ top.right = Null
<1>1. PICK d : d = Len(stack)
  OBVIOUS
<1>2. d \in Nat /\ d >= 1 /\ 1 \in 1 .. d /\ d \in 1 .. d /\ top = stack[d] /\ cur = stack[d].node
  BY <1>1, StackEnds
<1>3. stack[1].node = root /\ FrameAt(1) /\ stack[1].left = Null /\ stack[1].right = Null
  BY <1>1, <1>2 DEF StackLeadsDown
<1>4. root \notin Inner
  BY NodeKinds
<1>5. ~(1 < d)
  BY <1>1, <1>3, <1>4 DEF FrameAt
<1>6. d = 1
  BY <1>2, <1>5
<1>7. QED
  BY <1>1, <1>2, <1>3, <1>6

\* The call at its leaf.
LEMMA AtLeaf ==
  ASSUME ShapeInv, descending, isleafnode(cur)
  PROVE  /\ stack # <<>> /\ root # Null /\ gone = Null /\ ~fixmerge /\ newchild = Null
         /\ LiveInner = Inner /\ LiveLeaves = Leaves /\ Live = DOMAIN heap
         /\ key \in Keys /\ cur \in Leaves /\ cur \in DOMAIN heap /\ cur \in Nodes
         /\ heap[cur] \in LeafNodes /\ heap[cur].level = 0
         /\ heap[cur].items \subseteq Keys /\ IsFiniteSet(heap[cur].items)
         /\ Cardinality(heap[cur].items) \in Nat
         /\ Cardinality(heap[cur].items) <= leafslotmax
         /\ slotuse(cur) = Cardinality(heap[cur].items)
         /\ \A n \in Inner : n # cur
         /\ \A n \in Leaves : n = cur \/ n # root
         /\ \A n \in Leaves : n # cur => heap[n].items # {}
         /\ root \in DOMAIN heap /\ (cur = root \/ root \in Inner)
<1>1. /\ stack # <<>> /\ root # Null /\ gone = Null /\ ~fixmerge /\ newchild = Null
      /\ LiveInner = Inner /\ LiveLeaves = Leaves /\ Live = DOMAIN heap
      /\ key \in Keys
  BY OnTheWay
<1>2. TypeOK /\ StackLeadsDown /\ Tree
  BY DEF ShapeInv, CallUnderWay
<1>3. Len(stack) \in 1 .. Len(stack) /\ cur = stack[Len(stack)].node
  BY <1>1, <1>2, StackEnds
<1>4. cur \in Live
  BY <1>2, <1>3 DEF StackLeadsDown, FrameAt
<1>5. cur \in Leaves /\ cur \in DOMAIN heap
  BY <1>1, <1>4 DEF Leaves
<1>6. heap[cur] \in LeafNodes /\ heap[cur].level = 0 /\ heap[cur].items \subseteq Keys
      /\ cur \in Nodes
  BY <1>2, <1>5, NodeKinds, LeafFields
<1>7. LeafFilled(cur)
  BY <1>1, <1>2, <1>5 DEF Tree
<1>8. Cardinality(heap[cur].items) \in Nat
  BY <1>7, FS_CardinalityType DEF LeafFilled
<1>9. slotuse(cur) = Cardinality(heap[cur].items)
  BY <1>5, SlotUse
<1>10. \A n \in Inner : n # cur
  BY <1>2, <1>5, NodeKinds
<1>11. \A n \in Leaves : n = cur \/ n # root
  BY <1>1, <1>2, LeafRoot
<1>12. \A n \in Leaves : n # cur => heap[n].items # {}
  BY <1>1, <1>2, <1>11 DEF Tree, LeafFilled
<1>13. root \in DOMAIN heap /\ (cur = root \/ root \in Inner)
  BY <1>1, <1>2, <1>11, NodeKinds, TypeNow
<1>14. QED
  BY <1>1, <1>5, <1>6, <1>7, <1>8, <1>9, <1>10, <1>11, <1>12, <1>13 DEF LeafFilled

\* The leaf with the key.
LEMMA StoreRoomHeap ==
  ASSUME ShapeInv, StoreRoom
  PROVE  /\ Placed(heap', heap, cur,
                   Leaf(heap[cur].items \cup {key}, heap[cur].prevleaf, heap[cur].nextleaf))
         /\ HeapTyped(heap') /\ DOMAIN heap' = DOMAIN heap
         /\ heap'[cur].items = heap[cur].items \cup {key}
         /\ heap'[cur].prevleaf = heap[cur].prevleaf
         /\ heap'[cur].nextleaf = heap[cur].nextleaf
         /\ \A n \in DOMAIN heap : heap'[n].level = heap[n].level
         /\ \A n \in DOMAIN heap : n # cur => heap'[n] = heap[n]
         /\ Leaves' = Leaves /\ Inner' = Inner /\ gone' = Null /\ Live' = DOMAIN heap
         /\ LiveInner' = Inner /\ LiveLeaves' = Leaves /\ ~fixmerge' /\ newchild' = Null
         /\ Cardinality(heap[cur].items) + 1 <= leafslotmax
<1>1. /\ pc = "insert" /\ isleafnode(cur) /\ ~isfull(cur) /\ descending
      /\ heap' = [heap EXCEPT ![cur].items = @ \cup {key}]
      /\ fixmerge' = fixmerge /\ newchild' = newchild
  BY DEF StoreRoom, with, result, split, descending
<1>2. /\ gone = Null /\ ~fixmerge /\ key \in Keys /\ cur \in DOMAIN heap /\ cur \in Nodes
      /\ cur \in Leaves /\ Live = DOMAIN heap /\ newchild = Null
      /\ LiveInner = Inner /\ LiveLeaves = Leaves
      /\ heap[cur] \in LeafNodes /\ heap[cur].level = 0
      /\ Cardinality(heap[cur].items) \in Nat
      /\ Cardinality(heap[cur].items) <= leafslotmax
      /\ slotuse(cur) = Cardinality(heap[cur].items)
  BY <1>1, AtLeaf
<1>3. PICK c : c = [heap[cur] EXCEPT !.items = @ \cup {key}]
  OBVIOUS
<1>4. c = Leaf(heap[cur].items \cup {key}, heap[cur].prevleaf, heap[cur].nextleaf)
  BY <1>2, <1>3, LeafUpdates
<1>5. heap' = [heap EXCEPT ![cur] = c]
  BY <1>1, <1>3
<1>6. IsFunction(heap)
  BY HeapIsFunction DEF ShapeInv
<1>7. Placed(heap', heap, cur, c)
  BY <1>2, <1>5, <1>6, ChangedNode
<1>8. c \in LeafNodes
  BY <1>2, <1>4, LeafFields, NodeRecords
<1>9. HeapTyped(heap')
  BY <1>2, <1>7, <1>8, HeapNow, PlacedTyped DEF ShapeInv, IsNode
<1>10. /\ c.items = heap[cur].items \cup {key} /\ c.prevleaf = heap[cur].prevleaf
       /\ c.nextleaf = heap[cur].nextleaf /\ c.level = 0
  BY <1>4, GivenFields
<1>11. /\ DOMAIN heap' = DOMAIN heap /\ heap'[cur] = c
       /\ \A n \in DOMAIN heap : n # cur => heap'[n] = heap[n]
  BY <1>2, <1>7 DEF Placed
<1>12. \A n \in DOMAIN heap : heap'[n].level = heap[n].level
  BY <1>2, <1>10, <1>11
<1>13. Leaves' = Leaves /\ Inner' = Inner
  BY <1>11, <1>12, SameKinds
<1>14. gone' = Null /\ Null \notin DOMAIN heap
  BY <1>1, <1>2, NodeKinds DEF gone, ShapeInv
<1>15. Live' = DOMAIN heap /\ LiveInner' = Inner /\ LiveLeaves' = Leaves
  BY <1>11, <1>13, <1>14, NodeKinds DEF Live, LiveInner, LiveLeaves, ShapeInv
<1>16. Cardinality(heap[cur].items) + 1 <= leafslotmax
  BY <1>1, <1>2, Half DEF isfull
<1>17. QED
  BY <1>1, <1>2, <1>4, <1>7, <1>9, <1>10, <1>11, <1>12, <1>13, <1>14, <1>15, <1>16

\* An insert into a leaf with room keeps the shape.
LEMMA StoreRoomShape ==
  ASSUME ShapeInv, StoreRoom
  PROVE  ShapeInv'
<1>1. /\ pc = "insert" /\ isleafnode(cur) /\ descending
      /\ pc' = "link" /\ stack' = Front(stack) /\ root' = root /\ head' = head
      /\ tail' = tail /\ stats' = stats /\ key' = key
      /\ UNCHANGED <<newkey, newchild, lastkey, fixmerge, stored>>
  BY DEF StoreRoom, with, result, split, descending
<1>2. /\ HeapTyped(heap') /\ DOMAIN heap' = DOMAIN heap
      /\ heap'[cur].items = heap[cur].items \cup {key}
      /\ \A n \in DOMAIN heap : heap'[n].level = heap[n].level
      /\ \A n \in DOMAIN heap : n # cur => heap'[n] = heap[n]
      /\ Leaves' = Leaves /\ Inner' = Inner /\ gone' = Null /\ Live' = DOMAIN heap
      /\ LiveInner' = Inner /\ LiveLeaves' = Leaves /\ ~fixmerge' /\ newchild' = Null
      /\ Cardinality(heap[cur].items) + 1 <= leafslotmax
  BY StoreRoomHeap
<1>3. /\ stack # <<>> /\ root # Null /\ newchild = Null /\ LiveInner = Inner
      /\ LiveLeaves = Leaves /\ key \in Keys /\ IsFiniteSet(heap[cur].items)
      /\ \A n \in Inner : n # cur
      /\ \A n \in Leaves : n # cur => heap[n].items # {}
  BY <1>1, AtLeaf
<1>4. TypeOK /\ StackLeadsDown /\ Tree
  BY DEF ShapeInv, CallUnderWay
<1>5. \A n \in Inner : n \in DOMAIN heap /\ heap'[n] = heap[n] /\ Alike(n)
  BY <1>2, <1>3, <1>4, NodeKinds DEF Alike
<1>6. StackLeadsDown' /\ stack' \in Seq(Frames)
  BY <1>1, <1>2, <1>3, <1>4, <1>5, UpStack DEF HeapTyped
<1>7. TypeOK'
  BY <1>1, <1>2, <1>4, <1>6, TypeNow, TypeNext DEF HeapTyped
<1>8. Tree'
  <2>1. ASSUME NEW n \in LiveInner PROVE least(n)' <= Len(heap[n].slotkey)
    <3>1. InnerFilled(n)
      BY <1>4 DEF Tree
    <3>2. least(n)' = IF n = root THEN 1 ELSE innerslotmax \div 2
      BY <1>1, <1>2 DEF least, rootSplit
    <3>3. least(n) = IF n = root THEN 1 ELSE innerslotmax \div 2
      BY <1>1, <1>3, LeastValues DEF rootSplit
    <3>4. QED
      BY <3>1, <3>2, <3>3, FilledSlots
  <2>2. ASSUME NEW n \in LiveLeaves' PROVE LeafFilled(n)'
    <3>1. LeafFilled(n) /\ n \in DOMAIN heap
      BY <1>2, <1>3, <1>4, NodeKinds DEF Tree
    <3>2. CASE n = cur
      <4>1. PICK S : S = heap[cur].items \cup {key}
        OBVIOUS
      <4>2. IsFiniteSet(S) /\ Cardinality(S) <= leafslotmax /\ S # {}
        <5>1. CASE key \in heap[cur].items
          <6>1. S = heap[cur].items
            BY <4>1, <5>1
          <6>2. QED
            BY <1>3, <3>1, <3>2, <5>1, <6>1 DEF LeafFilled
        <5>2. CASE key \notin heap[cur].items
          BY <1>2, <1>3, <4>1, <5>2, FS_AddElement
        <5>3. QED
          BY <5>1, <5>2
      <4>3. QED
        BY <1>2, <3>2, <4>1, <4>2 DEF LeafFilled
    <3>3. CASE n # cur
      BY <1>1, <1>2, <1>3, <3>1, <3>3 DEF LeafFilled
    <3>4. QED
      BY <3>2, <3>3
  <2>3. DOMAIN heap' \ {root', newchild'} = DOMAIN heap \ {root, newchild}
    BY <1>1, <1>2
  <2>4. QED
    BY <1>1, <1>2, <1>3, <1>4, <1>5, <2>1, <2>2, <2>3, TreeAlike
<1>9. CallUnderWay'
  BY <1>1, <1>2, <1>3, <1>6 DEF CallUnderWay, ShapeInv
<1>10. Counted'
  BY <1>1, <1>2, <1>4 DEF Counted, ShapeInv
<1>11. QED
  BY <1>7, <1>8, <1>9, <1>10 DEF ShapeInv

-----------------------------------------------------------------------------
(* The split of a leaf *)

\* The largest element.
LEMMA MaxOf ==
  ASSUME NEW S \in SUBSET Nat, NEW m \in S, \A k \in S : k <= m
  PROVE  Max(S) = m
<1>1. \A x \in S : (\A y \in S : x >= y) => x = m
  <2>1. SUFFICES ASSUME NEW x \in S, \A y \in S : x >= y PROVE x = m
    OBVIOUS
  <2>2. x >= m /\ x <= m /\ x \in Nat /\ m \in Nat
    BY <2>1
  <2>3. QED
    BY <2>2
<1>2. \A y \in S : m >= y
  OBVIOUS
<1>3. QED
  BY <1>1, <1>2 DEF Max

\* The largest element of a finite set of naturals.
LEMMA MaxElement ==
  ASSUME NEW S \in SUBSET Nat, IsFiniteSet(S), S # {}
  PROVE  Max(S) \in S /\ \A k \in S : k <= Max(S)
<1>1. PICK m \in S : \A k \in S : k <= m
  BY GreatestNatural
<1>2. Max(S) = m
  BY <1>1, MaxOf
<1>3. QED
  BY <1>1, <1>2

\* The lower half of the keys of a full leaf.
LEMMA LeafHalves ==
  ASSUME NEW S \in SUBSET Nat, IsFiniteSet(S), Cardinality(S) = leafslotmax,
         NEW half, half = leafslotmax \div 2, NEW low,
         low = Lowest(S, half)
  PROVE  /\ Max(low) \in S /\ low = {k \in S : k <= Max(low)} /\ low # {}
         /\ \A k \in S \ low : Max(low) < k
         /\ S \ low # {} /\ IsFiniteSet(low) /\ IsFiniteSet(S \ low)
         /\ Cardinality(low) = half /\ Cardinality(S \ low) = half
<1>1. half \in 1 .. Cardinality(S) /\ half \in Nat /\ half >= 1 /\ leafslotmax = 2 * half
  BY Half
<1>2. PICK m : TopOfLowest(S, half, m)
  BY <1>1, LowestElements
<1>4. m \in S /\ low = {k \in S : k <= m} /\ Cardinality(low) = half
  BY <1>2 DEF TopOfLowest
<1>5. m \in low /\ low \in SUBSET Nat /\ \A k \in low : k <= m
  <2>1. m \in Nat /\ m <= m
    BY <1>4
  <2>2. QED
    BY <1>4, <2>1
<1>6. Max(low) = m
  BY <1>5, MaxOf
<1>7. IsFiniteSet(low) /\ low \subseteq S
  BY <1>4, FS_Subset
<1>8. IsFiniteSet(S \ low) /\ Cardinality(S \ low) = Cardinality(S) - Cardinality(S \cap low)
  BY FS_Difference
<1>9. S \cap low = low
  BY <1>7
<1>10. Cardinality(S \ low) = half
  <2>1. PICK a, b, c : a = Cardinality(S \ low) /\ b = Cardinality(S) /\ c = Cardinality(low)
    OBVIOUS
  <2>2. a = b - c /\ c = half /\ b = 2 * half /\ half \in Nat
    BY <1>1, <1>4, <1>8, <1>9, <2>1
  <2>3. QED
    BY <2>1, <2>2
<1>11. S \ low # {}
  <2>1. half # 0
    BY <1>1
  <2>2. QED
    BY <1>10, <2>1, FS_EmptySet
<1>12. \A k \in S \ low : m < k
  BY <1>4
<1>13. QED
  BY <1>4, <1>5, <1>6, <1>7, <1>8, <1>10, <1>11, <1>12

\* Another prevleaf.
LEMMA PrevTyped ==
  ASSUME NEW h, HeapTyped(h), NEW g, NEW n, NEW m \in Pointers, PrevSet(g, h, n, m),
         n # Null => n \in DOMAIN h /\ h[n] \in LeafNodes
  PROVE  /\ HeapTyped(g) /\ DOMAIN g = DOMAIN h
         /\ n # Null => g[n] = Leaf(h[n].items, m, h[n].nextleaf)
         /\ \A j \in DOMAIN h : j # n \/ n = Null => g[j] = h[j]
<1>1. IsFunction(g) /\ DOMAIN g = DOMAIN h
  BY DEF PrevSet
<1>2. \A j \in DOMAIN h : j # n \/ n = Null => g[j] = h[j]
  BY DEF PrevSet
<1>3. ASSUME n # Null
      PROVE  g[n] = Leaf(h[n].items, m, h[n].nextleaf) /\ IsNode(g[n])
  <2>1. g[n] = [h[n] EXCEPT !.prevleaf = m] /\ h[n] \in LeafNodes
    BY <1>3 DEF PrevSet
  <2>2. g[n] = Leaf(h[n].items, m, h[n].nextleaf)
    BY <2>1, LeafUpdates
  <2>3. h[n].items \subseteq Keys /\ h[n].nextleaf \in Pointers
    BY <2>1, LeafFields
  <2>4. QED
    BY <2>2, <2>3, NodeRecords DEF IsNode
<1>4. \A j \in DOMAIN g : IsNode(g[j])
  BY <1>1, <1>2, <1>3 DEF HeapTyped
<1>5. QED
  BY <1>1, <1>2, <1>3, <1>4 DEF HeapTyped

\* The key enters a leaf.
LEMMA WithTyped ==
  ASSUME NEW h, HeapTyped(h), NEW n \in DOMAIN h, h[n] \in LeafNodes, NEW k \in Keys
  PROVE  LET g == with(h, n, k)
         IN /\ HeapTyped(g) /\ DOMAIN g = DOMAIN h
            /\ g[n] = Leaf(h[n].items \cup {k}, h[n].prevleaf, h[n].nextleaf)
            /\ \A j \in DOMAIN h : j # n => g[j] = h[j]
<1>1. PICK c : c = [h[n] EXCEPT !.items = @ \cup {k}]
  OBVIOUS
<1>2. c = Leaf(h[n].items \cup {k}, h[n].prevleaf, h[n].nextleaf) /\ c \in LeafNodes
  <2>1. c = Leaf(h[n].items \cup {k}, h[n].prevleaf, h[n].nextleaf)
    BY <1>1, LeafUpdates
  <2>2. QED
    BY <2>1, LeafFields, NodeRecords
<1>3. PICK g : g = with(h, n, k)
  OBVIOUS
<1>4. g = [h EXCEPT ![n] = c]
  BY <1>1, <1>3 DEF with
<1>5. Placed(g, h, n, c)
  BY <1>4, ChangedNode DEF HeapTyped
<1>6. HeapTyped(g)
  BY <1>2, <1>5, PlacedTyped DEF HeapTyped, IsNode
<1>7. DOMAIN g = DOMAIN h /\ g[n] = c /\ \A j \in DOMAIN h : j # n => g[j] = h[j]
  BY <1>5 DEF Placed
<1>8. QED
  BY <1>2, <1>3, <1>6, <1>7

\* Another prevleaf, whatever node has it.
LEMMA AnyPrev ==
  ASSUME NEW h, HeapTyped(h), NEW n, NEW m \in Pointers
  PROVE  LET g == setPrev(h, n, m)
         IN /\ HeapTyped(g) /\ DOMAIN g = DOMAIN h
            /\ \A j \in DOMAIN h : g[j].level = h[j].level
            /\ \A j \in DOMAIN h : h[j] \in InnerNodes => g[j] = h[j]
            /\ \A j \in DOMAIN h : h[j] \in LeafNodes =>
                 g[j] \in LeafNodes /\ g[j].items = h[j].items
<1>1. PICK g : g = setPrev(h, n, m)
  OBVIOUS
<1>2. CASE n = Null \/ n \notin DOMAIN h
  <2>1. g = h
    <3>1. CASE n = Null
      BY <1>1, <3>1 DEF setPrev
    <3>2. CASE n # Null /\ n \notin DOMAIN h
      <4>1. g = [h EXCEPT ![n].prevleaf = m]
        BY <1>1, <3>2 DEF setPrev
      <4>2. g = [j \in DOMAIN h |-> h[j]]
        BY <3>2, <4>1
      <4>3. QED
        BY <4>2 DEF HeapTyped, IsFunction
    <3>3. QED
      BY <1>2, <3>1, <3>2
  <2>2. QED
    BY <1>1, <2>1
<1>3. CASE n # Null /\ n \in DOMAIN h /\ h[n] \in LeafNodes
  <2>1. PrevSet(g, h, n, m)
    BY <1>1, <1>3, SetPrevNode DEF HeapTyped
  <2>2. /\ HeapTyped(g) /\ DOMAIN g = DOMAIN h
        /\ g[n] = Leaf(h[n].items, m, h[n].nextleaf)
        /\ \A j \in DOMAIN h : j # n => g[j] = h[j]
    BY <1>3, <2>1, PrevTyped
  <2>3. h[n].level = 0 /\ h[n] \notin InnerNodes
    BY <1>3, LeafFields, InnerFields
  <2>4. g[n].level = 0 /\ g[n].items = h[n].items
    BY <2>2, GivenFields
  <2>5. g[n] \in LeafNodes
    BY <1>3, <2>2, LeafFields, NodeRecords
  <2>6. QED
    BY <1>1, <2>2, <2>3, <2>4, <2>5
<1>4. CASE n # Null /\ n \in DOMAIN h /\ h[n] \in InnerNodes
  <2>1. PICK l, K, C : l = h[n].level /\ K = h[n].slotkey /\ C = h[n].childid
    OBVIOUS
  <2>2. h[n] = InnerNode(l, K, C)
    BY <1>4, <2>1, InnerFields
  <2>3. [InnerNode(l, K, C) EXCEPT !.prevleaf = m] = InnerNode(l, K, C)
    BY DEF InnerNode
  <2>4. PICK c : c = [h[n] EXCEPT !.prevleaf = m]
    OBVIOUS
  <2>5. g = [h EXCEPT ![n] = c] /\ c = h[n]
    BY <1>1, <1>4, <2>2, <2>3, <2>4 DEF setPrev
  <2>6. g = h
    BY <2>5 DEF HeapTyped, IsFunction
  <2>7. QED
    BY <1>1, <2>6
<1>5. QED
  BY <1>2, <1>3, <1>4 DEF HeapTyped, IsNode

\* What the split of the current leaf in front of mid leaves.
LeafSplit(mid) ==
  LET items == heap[cur].items
      next == heap[cur].nextleaf
      low == {k \in items : k <= mid}
      high == {k \in items : mid < k}
      more(b) == IF b THEN {key} ELSE {}
  IN /\ mid \in items /\ low # {} /\ high # {}
     /\ IsFiniteSet(low) /\ IsFiniteSet(high)
     /\ Cardinality(low) = leafslotmax \div 2 /\ Cardinality(high) = leafslotmax \div 2
     /\ heap'[cur] = Leaf(low \cup more(key <= mid), heap[cur].prevleaf, fresh)
     /\ heap'[fresh] = Leaf(high \cup more(mid < key), cur, next)
     /\ next # Null => heap'[next] = Leaf(heap[next].items, fresh, heap[next].nextleaf)
     /\ newkey' = mid

\* The same of the keys alone.
LeafSplitItems(mid) ==
  LET items == heap[cur].items
      low == {k \in items : k <= mid}
      high == {k \in items : mid < k}
      more(b) == IF b THEN {key} ELSE {}
  IN /\ mid \in items /\ low # {} /\ high # {}
     /\ IsFiniteSet(low) /\ IsFiniteSet(high)
     /\ Cardinality(low) = leafslotmax \div 2 /\ Cardinality(high) = leafslotmax \div 2
     /\ heap'[cur].items = low \cup more(key <= mid)
     /\ heap'[fresh].items = high \cup more(mid < key)
     /\ heap'[cur].level = 0 /\ heap'[fresh].level = 0
     /\ newkey' = mid

\* split_leaf_node and the insert: what the halves hold.
LEMMA SplitLeafItems ==
  ASSUME ShapeInv, StoreSplit
  PROVE  /\ \E mid : LeafSplitItems(mid)
         /\ HeapTyped(heap') /\ DOMAIN heap' = DOMAIN heap \cup {fresh}
         /\ fresh \in Nodes /\ fresh \notin DOMAIN heap /\ fresh # Null /\ newchild' = fresh
         /\ tail' \in {fresh, tail}
         /\ \A n \in DOMAIN heap : heap'[n].level = heap[n].level
         /\ \A n \in Leaves : n # cur => heap'[n].items = heap[n].items
         /\ \A n \in Inner : heap'[n] = heap[n]
<1>1. /\ pc = "insert" /\ isleafnode(cur) /\ isfull(cur) /\ canAllocate /\ descending
  BY DEF StoreSplit, descending
<1>2. /\ key \in Keys /\ cur \in DOMAIN heap /\ cur \in Nodes /\ cur \in Leaves
      /\ LiveLeaves = Leaves /\ heap[cur] \in LeafNodes /\ heap[cur].level = 0
      /\ heap[cur].items \subseteq Keys /\ IsFiniteSet(heap[cur].items)
      /\ slotuse(cur) = Cardinality(heap[cur].items)
  BY <1>1, AtLeaf
<1>3. PICK S, p, x, half, low, high :
        /\ S = heap[cur].items /\ p = heap[cur].prevleaf /\ x = heap[cur].nextleaf
        /\ half = leafslotmax \div 2
        /\ low = {k \in S : Cardinality({j \in S : j < k}) < half}
        /\ high = S \ low
  OBVIOUS
<1>4. Cardinality(S) = leafslotmax /\ slotuse(cur) \div 2 = half
  BY <1>1, <1>2, <1>3 DEF isfull
<1>5. S \in SUBSET Nat /\ S \subseteq Keys /\ IsFiniteSet(S)
  BY <1>2, <1>3, CompactAssumption
<1>6. PICK m : m = Max(low)
  OBVIOUS
<1>7. /\ m \in S /\ low = {k \in S : k <= m} /\ low # {}
      /\ \A k \in high : m < k
      /\ high # {} /\ IsFiniteSet(low) /\ IsFiniteSet(high)
      /\ Cardinality(low) = half /\ Cardinality(high) = half
  <2>1. low = Lowest(S, half) /\ half = leafslotmax \div 2
    BY <1>3 DEF Lowest, Below
  <2>2. /\ Max(low) \in S /\ low = {k \in S : k <= Max(low)} /\ low # {}
        /\ \A k \in S \ low : Max(low) < k
        /\ S \ low # {} /\ IsFiniteSet(low) /\ IsFiniteSet(S \ low)
        /\ Cardinality(low) = half /\ Cardinality(S \ low) = half
    BY <1>4, <1>5, <2>1, LeafHalves
  <2>3. high = S \ low
    BY <1>3
  <2>4. QED
    BY <1>6, <2>2, <2>3
<1>8. high = {k \in S : m < k}
  <2>1. \A k \in S : k \in Nat /\ m \in Nat
    BY <1>5, <1>7
  <2>2. \A k \in S : m < k => ~(k <= m)
    BY <2>1
  <2>3. QED
    BY <1>3, <1>7, <2>2
<1>9. fresh \in Nodes /\ fresh \notin DOMAIN heap /\ fresh # Null
  BY <1>1, FreshNode
<1>11. PICK left, right, h1, h2, h3 :
         /\ left = [heap[cur] EXCEPT !.items = low, !.nextleaf = fresh]
         /\ right = [heap[cur] EXCEPT !.items = @ \ low, !.prevleaf = cur]
         /\ h1 = put(heap, cur, left) /\ h2 = put(h1, fresh, right)
         /\ h3 = setPrev(h2, x, fresh)
  OBVIOUS
<1>12. /\ heap' = with(h3, IF key > m THEN fresh ELSE cur, key)
       /\ newkey' = m /\ newchild' = fresh
       /\ tail' = IF x = Null THEN fresh ELSE tail
  BY <1>3, <1>4, <1>6, <1>11 DEF StoreSplit
<1>13. heap[cur] = Leaf(S, p, x) /\ p \in Pointers /\ x \in Pointers
  BY <1>2, <1>3, LeafFields
<1>14. left = Leaf(low, p, fresh) /\ right = Leaf(high, cur, x)
  <2>1. left = [Leaf(S, p, x) EXCEPT !.items = low, !.nextleaf = fresh]
    BY <1>11, <1>13
  <2>2. right = [Leaf(S, p, x) EXCEPT !.items = high, !.prevleaf = cur]
    BY <1>3, <1>11, <1>13
  <2>3. QED
    BY <2>1, <2>2 DEF Leaf
<1>15. left \in LeafNodes /\ right \in LeafNodes
  <2>1. low \in SUBSET Keys /\ high \in SUBSET Keys /\ cur \in Pointers /\ fresh \in Pointers
    BY <1>2, <1>3, <1>5, <1>7, <1>9 DEF Pointers
  <2>2. QED
    BY <1>13, <1>14, <2>1, NodeRecords
<1>16. /\ HeapTyped(h1) /\ DOMAIN h1 = DOMAIN heap /\ h1[cur] = left
       /\ \A n \in DOMAIN heap : n # cur => h1[n] = heap[n]
  <2>1. Placed(h1, heap, cur, left)
    BY <1>11, PutNode
  <2>2. HeapTyped(h1)
    BY <1>2, <1>15, <2>1, HeapNow, PlacedTyped DEF ShapeInv, IsNode
  <2>3. QED
    BY <1>2, <2>1, <2>2 DEF Placed
<1>17. /\ HeapTyped(h2) /\ DOMAIN h2 = DOMAIN heap \cup {fresh} /\ h2[fresh] = right
       /\ h2[cur] = left
       /\ \A n \in DOMAIN heap : n # cur => h2[n] = heap[n]
  <2>1. Placed(h2, h1, fresh, right)
    BY <1>11, PutNode
  <2>2. HeapTyped(h2)
    BY <1>9, <1>15, <1>16, <2>1, PlacedTyped DEF IsNode
  <2>3. \A n \in DOMAIN heap : n # fresh
    BY <1>9
  <2>4. QED
    BY <1>2, <1>16, <2>1, <2>2, <2>3 DEF Placed
<1>19. /\ HeapTyped(h3) /\ DOMAIN h3 = DOMAIN h2
       /\ \A j \in DOMAIN h2 : h3[j].level = h2[j].level
       /\ \A j \in DOMAIN h2 : h2[j] \in InnerNodes => h3[j] = h2[j]
       /\ \A j \in DOMAIN h2 : h2[j] \in LeafNodes =>
            h3[j] \in LeafNodes /\ h3[j].items = h2[j].items
  <2>1. fresh \in Pointers
    BY <1>9 DEF Pointers
  <2>2. QED
    BY <1>11, <1>17, <2>1, AnyPrev
<1>20. PICK t : t = IF key > m THEN fresh ELSE cur
  OBVIOUS
<1>21. t \in DOMAIN h3 /\ h3[t] \in LeafNodes /\ h3[fresh].items = high /\ h3[cur].items = low
       /\ h3[fresh].level = 0 /\ h3[cur].level = 0 /\ fresh \in DOMAIN h3 /\ cur \in DOMAIN h3
  BY <1>2, <1>14, <1>15, <1>17, <1>19, <1>20, GivenFields
<1>22. /\ HeapTyped(heap') /\ DOMAIN heap' = DOMAIN heap \cup {fresh}
       /\ heap'[t] = Leaf(h3[t].items \cup {key}, h3[t].prevleaf, h3[t].nextleaf)
       /\ \A j \in DOMAIN h3 : j # t => heap'[j] = h3[j]
  BY <1>2, <1>12, <1>17, <1>19, <1>20, <1>21, WithTyped
<1>23. heap'[t].items = h3[t].items \cup {key} /\ heap'[t].level = 0
  BY <1>22, GivenFields
<1>24. fresh # cur
  BY <1>2, <1>9
<1>25. /\ heap'[cur].items = low \cup (IF key <= m THEN {key} ELSE {})
       /\ heap'[fresh].items = high \cup (IF m < key THEN {key} ELSE {})
       /\ heap'[cur].level = 0 /\ heap'[fresh].level = 0
  <2>1. key \in Nat /\ m \in Nat
    BY <1>2, <1>5, <1>7, CompactAssumption
  <2>2. CASE key > m
    <3>1. t = fresh /\ ~(key <= m) /\ m < key
      BY <1>20, <2>1, <2>2
    <3>2. heap'[cur] = h3[cur]
      BY <1>21, <1>22, <1>24, <3>1
    <3>4. low \cup {} = low
      OBVIOUS
    <3>5. QED
      BY <1>21, <1>23, <3>1, <3>2, <3>4
  <2>3. CASE ~(key > m)
    <3>1. t = cur /\ key <= m /\ ~(m < key)
      BY <1>20, <2>1, <2>3
    <3>2. heap'[fresh] = h3[fresh]
      BY <1>21, <1>22, <1>24, <3>1
    <3>4. high \cup {} = high
      OBVIOUS
    <3>5. QED
      BY <1>21, <1>23, <3>1, <3>2, <3>4
  <2>4. QED
    BY <2>2, <2>3
<1>27. ASSUME NEW n \in DOMAIN heap, n # cur
       PROVE  heap'[n] = h3[n] /\ h2[n] = heap[n] /\ n \in DOMAIN h2
  <2>1. n # fresh
    BY <1>9
  <2>2. QED
    BY <1>17, <1>19, <1>20, <1>22, <1>27, <2>1
<1>28. LeafSplitItems(m)
  BY <1>3, <1>7, <1>8, <1>12, <1>25 DEF LeafSplitItems
<1>29. \A n \in DOMAIN heap : heap'[n].level = heap[n].level
  BY <1>2, <1>19, <1>25, <1>27
<1>30. \A n \in Leaves : n # cur => heap'[n].items = heap[n].items
  <2>1. \A n \in Leaves : n \in DOMAIN heap /\ heap[n] \in LeafNodes
    BY NodeKinds DEF ShapeInv
  <2>2. QED
    BY <1>19, <1>27, <2>1
<1>31. \A n \in Inner : heap'[n] = heap[n]
  <2>1. \A n \in Inner : n \in DOMAIN heap /\ heap[n] \in InnerNodes /\ n # cur
    BY <1>2, NodeKinds DEF ShapeInv
  <2>2. QED
    BY <1>19, <1>27, <2>1
<1>32. tail' \in {fresh, tail}
  BY <1>12
<1>33. QED
  BY <1>9, <1>12, <1>22, <1>28, <1>29, <1>30, <1>31, <1>32

\* split_leaf_node and the insert: the list of the leaves.
LEMMA SplitLeafHeap ==
  ASSUME ShapeInv, ListLinked, StoreSplit
  PROVE  /\ \E mid : LeafSplit(mid)
         /\ HeapTyped(heap') /\ DOMAIN heap' = DOMAIN heap \cup {fresh}
         /\ fresh \in Nodes /\ fresh \notin DOMAIN heap /\ fresh # Null /\ newchild' = fresh
         /\ heap[cur].nextleaf # Null => heap[cur].nextleaf \in Leaves \ {cur}
         /\ tail' = IF heap[cur].nextleaf = Null THEN fresh ELSE tail
         /\ \A n \in DOMAIN heap : n \notin {cur, heap[cur].nextleaf} => heap'[n] = heap[n]
<1>1. /\ pc = "insert" /\ isleafnode(cur) /\ isfull(cur) /\ canAllocate /\ descending
  BY DEF StoreSplit, descending
<1>2. /\ key \in Keys /\ cur \in DOMAIN heap /\ cur \in Nodes /\ cur \in Leaves
      /\ LiveLeaves = Leaves /\ heap[cur] \in LeafNodes /\ heap[cur].level = 0
      /\ heap[cur].items \subseteq Keys /\ IsFiniteSet(heap[cur].items)
      /\ slotuse(cur) = Cardinality(heap[cur].items)
  BY <1>1, AtLeaf
<1>3. PICK S, p, x, half, low, high :
        /\ S = heap[cur].items /\ p = heap[cur].prevleaf /\ x = heap[cur].nextleaf
        /\ half = leafslotmax \div 2
        /\ low = {k \in S : Cardinality({j \in S : j < k}) < half}
        /\ high = S \ low
  OBVIOUS
<1>4. Cardinality(S) = leafslotmax /\ slotuse(cur) \div 2 = half
  BY <1>1, <1>2, <1>3 DEF isfull
<1>5. S \in SUBSET Nat /\ S \subseteq Keys /\ IsFiniteSet(S)
  BY <1>2, <1>3, CompactAssumption
<1>6. PICK m : m = Max(low)
  OBVIOUS
<1>7. /\ m \in S /\ low = {k \in S : k <= m} /\ low # {}
      /\ \A k \in high : m < k
      /\ high # {} /\ IsFiniteSet(low) /\ IsFiniteSet(high)
      /\ Cardinality(low) = half /\ Cardinality(high) = half
  <2>1. low = Lowest(S, half) /\ half = leafslotmax \div 2
    BY <1>3 DEF Lowest, Below
  <2>2. /\ Max(low) \in S /\ low = {k \in S : k <= Max(low)} /\ low # {}
        /\ \A k \in S \ low : Max(low) < k
        /\ S \ low # {} /\ IsFiniteSet(low) /\ IsFiniteSet(S \ low)
        /\ Cardinality(low) = half /\ Cardinality(S \ low) = half
    BY <1>4, <1>5, <2>1, LeafHalves
  <2>3. high = S \ low
    BY <1>3
  <2>4. QED
    BY <1>6, <2>2, <2>3
<1>8. high = {k \in S : m < k}
  <2>1. \A k \in S : k \in Nat /\ m \in Nat
    BY <1>5, <1>7
  <2>2. \A k \in S : m < k => ~(k <= m)
    BY <2>1
  <2>3. QED
    BY <1>3, <1>7, <2>2
<1>9. fresh \in Nodes /\ fresh \notin DOMAIN heap /\ fresh # Null
  BY <1>1, FreshNode
<1>10. x # Null => x \in Leaves \ {cur} /\ x \in DOMAIN heap /\ heap[x] \in LeafNodes
  <2>1. x # Null => x \in Leaves \ {cur}
    BY <1>2, <1>3 DEF ListLinked, Linked
  <2>2. QED
    BY <2>1, NodeKinds DEF ShapeInv
<1>11. PICK left, right, h1, h2, h3 :
         /\ left = [heap[cur] EXCEPT !.items = low, !.nextleaf = fresh]
         /\ right = [heap[cur] EXCEPT !.items = @ \ low, !.prevleaf = cur]
         /\ h1 = put(heap, cur, left) /\ h2 = put(h1, fresh, right)
         /\ h3 = setPrev(h2, x, fresh)
  OBVIOUS
<1>12. /\ heap' = with(h3, IF key > m THEN fresh ELSE cur, key)
       /\ newkey' = m /\ newchild' = fresh
       /\ tail' = IF x = Null THEN fresh ELSE tail
  BY <1>3, <1>4, <1>6, <1>11 DEF StoreSplit
<1>13. heap[cur] = Leaf(S, p, x) /\ p \in Pointers /\ x \in Pointers
  BY <1>2, <1>3, LeafFields
<1>14. left = Leaf(low, p, fresh) /\ right = Leaf(high, cur, x)
  <2>1. left = [Leaf(S, p, x) EXCEPT !.items = low, !.nextleaf = fresh]
    BY <1>11, <1>13
  <2>2. right = [Leaf(S, p, x) EXCEPT !.items = high, !.prevleaf = cur]
    BY <1>3, <1>11, <1>13
  <2>3. QED
    BY <2>1, <2>2 DEF Leaf
<1>15. left \in LeafNodes /\ right \in LeafNodes
  <2>1. low \in SUBSET Keys /\ high \in SUBSET Keys /\ cur \in Pointers /\ fresh \in Pointers
    BY <1>2, <1>3, <1>5, <1>7, <1>9 DEF Pointers
  <2>2. QED
    BY <1>13, <1>14, <2>1, NodeRecords
<1>16. /\ HeapTyped(h1) /\ DOMAIN h1 = DOMAIN heap /\ h1[cur] = left
       /\ \A n \in DOMAIN heap : n # cur => h1[n] = heap[n]
  <2>1. Placed(h1, heap, cur, left)
    BY <1>11, PutNode
  <2>2. HeapTyped(h1)
    BY <1>2, <1>15, <2>1, HeapNow, PlacedTyped DEF ShapeInv, IsNode
  <2>3. QED
    BY <1>2, <2>1, <2>2 DEF Placed
<1>17. /\ HeapTyped(h2) /\ DOMAIN h2 = DOMAIN heap \cup {fresh} /\ h2[fresh] = right
       /\ h2[cur] = left
       /\ \A n \in DOMAIN heap : n # cur => h2[n] = heap[n]
  <2>1. Placed(h2, h1, fresh, right)
    BY <1>11, PutNode
  <2>2. HeapTyped(h2)
    BY <1>9, <1>15, <1>16, <2>1, PlacedTyped DEF IsNode
  <2>3. \A n \in DOMAIN heap : n # fresh
    BY <1>9
  <2>4. QED
    BY <1>2, <1>16, <2>1, <2>2, <2>3 DEF Placed
<1>18. x # Null => x # cur /\ x # fresh /\ h2[x] = heap[x]
  BY <1>9, <1>10, <1>17
<1>19. /\ HeapTyped(h3) /\ DOMAIN h3 = DOMAIN heap \cup {fresh} /\ h3[fresh] = right
       /\ h3[cur] = left
       /\ x # Null => h3[x] = Leaf(heap[x].items, fresh, heap[x].nextleaf)
       /\ \A n \in DOMAIN heap : n \notin {cur, x} => h3[n] = heap[n]
  <2>1. x # Null => x \in DOMAIN h2 /\ h2[x] \in LeafNodes
    BY <1>10, <1>17, <1>18
  <2>2. PrevSet(h3, h2, x, fresh)
    BY <1>11, <1>17, <2>1, SetPrevNode DEF HeapTyped
  <2>3. fresh \in Pointers
    BY <1>9 DEF Pointers
  <2>4. /\ HeapTyped(h3) /\ DOMAIN h3 = DOMAIN h2
        /\ x # Null => h3[x] = Leaf(h2[x].items, fresh, h2[x].nextleaf)
        /\ \A j \in DOMAIN h2 : j # x \/ x = Null => h3[j] = h2[j]
    BY <1>17, <2>1, <2>2, <2>3, PrevTyped
  <2>5. fresh # x \/ x = Null
    BY <1>9, <1>10
  <2>6. QED
    BY <1>2, <1>17, <1>18, <2>4, <2>5
<1>20. PICK t : t = IF key > m THEN fresh ELSE cur
  OBVIOUS
<1>21. t \in DOMAIN h3 /\ h3[t] \in LeafNodes
  BY <1>2, <1>15, <1>19, <1>20
<1>22. /\ HeapTyped(heap') /\ DOMAIN heap' = DOMAIN heap \cup {fresh}
       /\ heap'[t] = Leaf(h3[t].items \cup {key}, h3[t].prevleaf, h3[t].nextleaf)
       /\ \A j \in DOMAIN h3 : j # t => heap'[j] = h3[j]
  BY <1>2, <1>12, <1>19, <1>20, <1>21, WithTyped
<1>23. /\ left.items = low /\ left.prevleaf = p /\ left.nextleaf = fresh
       /\ right.items = high /\ right.prevleaf = cur /\ right.nextleaf = x
  BY <1>14, GivenFields
<1>24. fresh # cur /\ (x # Null => x # t)
  BY <1>2, <1>9, <1>18, <1>20
<1>25. /\ heap'[cur] = Leaf(low \cup (IF key <= m THEN {key} ELSE {}), p, fresh)
       /\ heap'[fresh] = Leaf(high \cup (IF m < key THEN {key} ELSE {}), cur, x)
  <2>1. key \in Nat /\ m \in Nat
    BY <1>2, <1>5, <1>7, CompactAssumption
  <2>2. CASE key > m
    <3>1. t = fresh /\ ~(key <= m) /\ m < key
      BY <1>20, <2>1, <2>2
    <3>2. heap'[cur] = left /\ cur \in DOMAIN h3
      BY <1>2, <1>19, <1>22, <1>24, <3>1
    <3>3. heap'[fresh] = Leaf(high \cup {key}, cur, x)
      BY <1>19, <1>22, <1>23, <3>1
    <3>4. low \cup {} = low
      OBVIOUS
    <3>5. QED
      BY <1>14, <3>1, <3>2, <3>3, <3>4
  <2>3. CASE ~(key > m)
    <3>1. t = cur /\ key <= m /\ ~(m < key)
      BY <1>20, <2>1, <2>3
    <3>2. heap'[fresh] = right /\ fresh \in DOMAIN h3
      BY <1>19, <1>22, <1>24, <3>1
    <3>3. heap'[cur] = Leaf(low \cup {key}, p, fresh)
      BY <1>19, <1>22, <1>23, <3>1
    <3>4. high \cup {} = high
      OBVIOUS
    <3>5. QED
      BY <1>14, <3>1, <3>2, <3>3, <3>4
  <2>4. QED
    BY <2>2, <2>3
<1>26. x # Null => heap'[x] = Leaf(heap[x].items, fresh, heap[x].nextleaf)
  BY <1>10, <1>19, <1>22, <1>24
<1>27. \A n \in DOMAIN heap : n \notin {cur, x} => heap'[n] = heap[n]
  <2>1. \A n \in DOMAIN heap : n # fresh
    BY <1>9
  <2>2. QED
    BY <1>19, <1>20, <1>22, <2>1
<1>28. LeafSplit(m)
  BY <1>3, <1>7, <1>8, <1>12, <1>25, <1>26 DEF LeafSplit
<1>29. QED
  BY <1>3, <1>9, <1>10, <1>12, <1>22, <1>27, <1>28

\* The leaves and inner nodes after the split of a leaf.
LEMMA SplitLeafKinds ==
  ASSUME ShapeInv, StoreSplit
  PROVE  /\ Leaves' = Leaves \cup {fresh} /\ Inner' = Inner /\ gone' = Null
         /\ LiveInner' = Inner /\ LiveLeaves' = Leaves \cup {fresh}
         /\ Live' = DOMAIN heap \cup {fresh}
         /\ LiveInner = Inner /\ LiveLeaves = Leaves /\ ~fixmerge' /\ ~fixmerge
         /\ newchild = Null
         /\ \A n \in DOMAIN heap : heap'[n].level = heap[n].level
         /\ \A n \in Leaves : n # cur => heap'[n].items = heap[n].items
         /\ \A n \in Inner : heap'[n] = heap[n]
<1>1. /\ pc = "insert" /\ isleafnode(cur) /\ descending /\ fixmerge' = fixmerge
  BY DEF StoreSplit, descending, result
<1>2. /\ cur \in Leaves /\ LiveInner = Inner /\ LiveLeaves = Leaves /\ ~fixmerge
      /\ heap[cur].level = 0 /\ cur \in DOMAIN heap /\ newchild = Null
  BY <1>1, AtLeaf
<1>3. /\ DOMAIN heap' = DOMAIN heap \cup {fresh} /\ HeapTyped(heap')
      /\ fresh \in Nodes /\ fresh \notin DOMAIN heap /\ fresh # Null
      /\ \A n \in DOMAIN heap : heap'[n].level = heap[n].level
      /\ \A n \in Leaves : n # cur => heap'[n].items = heap[n].items
      /\ \A n \in Inner : heap'[n] = heap[n]
  BY SplitLeafItems
<1>4. PICK mid : LeafSplitItems(mid)
  BY SplitLeafItems
<1>5. heap'[cur].level = 0 /\ heap'[fresh].level = 0
  BY <1>4 DEF LeafSplitItems
<1>8. TypeOK
  BY DEF ShapeInv
<1>13. Leaves' = Leaves \cup {fresh}
  BY <1>3, <1>5 DEF Leaves, isleafnode
<1>14. Inner' = Inner
  BY <1>3, <1>13, <1>8, NodeKinds DEF Inner
<1>15. gone' = Null
  BY <1>1, <1>2 DEF gone
<1>16. Null \notin DOMAIN heap \cup {fresh}
  BY <1>3, <1>8, NodeKinds
<1>17. LiveInner' = Inner /\ LiveLeaves' = Leaves \cup {fresh} /\ Live' = DOMAIN heap \cup {fresh}
  BY <1>3, <1>8, <1>13, <1>14, <1>15, <1>16, NodeKinds DEF LiveInner, LiveLeaves, Live
<1>18. QED
  BY <1>1, <1>2, <1>3, <1>13, <1>14, <1>15, <1>17

\* The split of a leaf keeps the shape.
LEMMA StoreSplitShape ==
  ASSUME ShapeInv, StoreSplit
  PROVE  ShapeInv'
<1>1. /\ pc = "insert" /\ isleafnode(cur) /\ descending
      /\ pc' = "link" /\ stack' = Front(stack) /\ root' = root /\ head' = head
      /\ stats' = [stats EXCEPT !.leaves = @ + 1] /\ key' = key
      /\ lastkey' = lastkey /\ fixmerge' = fixmerge /\ stored' = stored
  BY DEF StoreSplit, result, descending
<1>2. /\ HeapTyped(heap') /\ DOMAIN heap' = DOMAIN heap \cup {fresh}
      /\ fresh \in Nodes /\ fresh \notin DOMAIN heap /\ fresh # Null /\ newchild' = fresh
      /\ tail' \in {fresh, tail}
  BY SplitLeafItems
<1>3. PICK mid : LeafSplitItems(mid)
  BY SplitLeafItems
<1>4. /\ Leaves' = Leaves \cup {fresh} /\ Inner' = Inner /\ gone' = Null
      /\ LiveInner' = Inner /\ LiveLeaves' = Leaves \cup {fresh}
      /\ Live' = DOMAIN heap \cup {fresh}
      /\ LiveInner = Inner /\ LiveLeaves = Leaves /\ ~fixmerge'
      /\ newchild = Null
      /\ \A n \in DOMAIN heap : heap'[n].level = heap[n].level
      /\ \A n \in Leaves : n # cur => heap'[n].items = heap[n].items
      /\ \A n \in Inner : heap'[n] = heap[n]
  BY SplitLeafKinds
<1>5. /\ stack # <<>> /\ root # Null /\ key \in Keys /\ cur \in DOMAIN heap
      /\ heap[cur].items \subseteq Keys /\ heap[cur].level = 0 /\ root \in DOMAIN heap
      /\ cur \in Leaves
      /\ \A n \in Leaves : n # cur => heap[n].items # {}
  BY <1>1, AtLeaf
<1>6. TypeOK /\ StackLeadsDown /\ Tree
  BY DEF ShapeInv, CallUnderWay
<1>7. \A n \in Inner : n \in Live' /\ Alike(n)
  BY <1>4, <1>6, NodeKinds DEF Alike
<1>8. StackLeadsDown' /\ stack' \in Seq(Frames)
  BY <1>1, <1>2, <1>4, <1>5, <1>6, <1>7, UpStack DEF HeapTyped
<1>9. newkey' \in Keys /\ newkey' = mid
  BY <1>3, <1>5 DEF LeafSplitItems
<1>10. Counted' /\ stats' \in Counters
  <2>1. CountersMoved(1, 0, 0)
    BY <1>1, <1>6, CountersMove, CountersType
  <2>2. stats.itemcount + 0 \in Nat
    BY <1>6, CountersType, CountersGiven
  <2>3. Leaves' \cup Inner' = DOMAIN heap' /\ fresh \notin Leaves
    BY <1>2, <1>4, <1>6, NodeKinds
  <2>4. 1 \in {0, 1, 0 - 1} /\ 0 \in {0, 1, 0 - 1} /\ 1 # 0 /\ 1 # 0 - 1 /\ 0 # 0 - 1
    OBVIOUS
  <2>5. QED
    BY <1>4, <1>6, <2>1, <2>2, <2>3, <2>4, CountedNext DEF ShapeInv
<1>11. TypeOK'
  <2>1. /\ root' \in DOMAIN heap' \cup {Null} /\ tail' \in Pointers /\ head' \in Pointers
        /\ newchild' \in Pointers
    BY <1>1, <1>2, <1>6, TypeNow
  <2>2. QED
    BY <1>1, <1>2, <1>6, <1>8, <1>9, <1>10, <2>1, TypeNow, TypeNext
<1>12. Len(stack) = 1 => root = cur
  BY <1>5, <1>6, StackEnds DEF StackLeadsDown
<1>13. Tree'
  <2>1. ASSUME NEW n \in LiveInner PROVE least(n)' <= Len(heap[n].slotkey)
    <3>1. InnerFilled(n)
      BY <1>6 DEF Tree
    <3>2. n = root => ~rootSplit'
      <4>1. n = root => cur # root
        BY <1>4, <1>5, <1>6, NodeKinds
      <4>2. stack' = <<>> => Len(stack) = 1
        BY <1>1, <1>5, <1>6, StackEnds
      <4>3. QED
        BY <1>12, <4>1, <4>2 DEF rootSplit
    <3>3. least(n)' = IF n = root THEN 1 ELSE innerslotmax \div 2
      BY <1>1, <3>2 DEF least
    <3>4. least(n) = IF n = root THEN 1 ELSE innerslotmax \div 2
      BY <1>1, <1>4, LeastValues DEF rootSplit
    <3>5. QED
      BY <3>1, <3>3, <3>4, FilledSlots
  <2>2. ASSUME NEW n \in LiveLeaves' PROVE LeafFilled(n)'
    <3>1. pc' # "insert" /\ n \in Leaves \cup {fresh}
      BY <1>1, <1>4
    <3>2. leafslotmax \div 2 + 1 <= leafslotmax /\ leafslotmax \div 2 <= leafslotmax
          /\ leafslotmax \div 2 \in Nat
      BY Half
    <3>3. ASSUME NEW S, IsFiniteSet(S), Cardinality(S) = leafslotmax \div 2, S # {}, NEW b \in BOOLEAN
          PROVE  LET T == S \cup (IF b THEN {key} ELSE {})
                 IN IsFiniteSet(T) /\ Cardinality(T) <= leafslotmax /\ T # {}
      <4>1. CASE b /\ key \notin S
        <5>1. S \cup (IF b THEN {key} ELSE {}) = S \cup {key} /\ S \cup {key} # {}
          BY <4>1
        <5>2. IsFiniteSet(S \cup {key}) /\ Cardinality(S \cup {key}) = Cardinality(S) + 1
          BY <3>3, <4>1, FS_AddElement
        <5>3. QED
          BY <3>2, <3>3, <5>1, <5>2
      <4>2. CASE ~(b /\ key \notin S)
        <5>1. S \cup (IF b THEN {key} ELSE {}) = S
          BY <4>2
        <5>2. QED
          BY <3>2, <3>3, <5>1
      <4>3. QED
        BY <4>1, <4>2
    <3>4. CASE n = cur
      <4>1. PICK S, T : /\ S = {k \in heap[cur].items : k <= mid}
                        /\ T = S \cup (IF key <= mid THEN {key} ELSE {})
        OBVIOUS
      <4>2. IsFiniteSet(S) /\ Cardinality(S) = leafslotmax \div 2 /\ S # {}
        BY <1>3, <4>1 DEF LeafSplitItems
      <4>4. heap'[n].items = T
        BY <1>3, <3>4, <4>1 DEF LeafSplitItems
      <4>5. PICK b \in BOOLEAN : b <=> key <= mid
        OBVIOUS
      <4>6. T = S \cup (IF b THEN {key} ELSE {})
        BY <4>1, <4>5
      <4>7. IsFiniteSet(T) /\ Cardinality(T) <= leafslotmax /\ T # {}
        BY <3>3, <4>2, <4>6
      <4>8. QED
        BY <4>4, <4>7 DEF LeafFilled
    <3>5. CASE n = fresh
      <4>1. PICK S, T : /\ S = {k \in heap[cur].items : mid < k}
                        /\ T = S \cup (IF mid < key THEN {key} ELSE {})
        OBVIOUS
      <4>2. IsFiniteSet(S) /\ Cardinality(S) = leafslotmax \div 2 /\ S # {}
        BY <1>3, <4>1 DEF LeafSplitItems
      <4>4. heap'[n].items = T
        BY <1>3, <3>5, <4>1 DEF LeafSplitItems
      <4>5. PICK b \in BOOLEAN : b <=> mid < key
        OBVIOUS
      <4>6. T = S \cup (IF b THEN {key} ELSE {})
        BY <4>1, <4>5
      <4>7. IsFiniteSet(T) /\ Cardinality(T) <= leafslotmax /\ T # {}
        BY <3>3, <4>2, <4>6
      <4>8. QED
        BY <4>4, <4>7 DEF LeafFilled
    <3>6. CASE n \notin {cur, fresh}
      <4>1. n \in LiveLeaves /\ heap'[n].items = heap[n].items /\ heap[n].items # {}
        BY <1>4, <1>5, <3>1, <3>6
      <4>2. LeafFilled(n)
        BY <1>6, <4>1 DEF Tree
      <4>3. QED
        BY <4>1, <4>2 DEF LeafFilled
    <3>7. QED
      BY <3>4, <3>5, <3>6
  <2>3. DOMAIN heap' \ {root', newchild'} = DOMAIN heap \ {root, newchild}
    BY <1>1, <1>2, <1>4, <1>6, NodeKinds
  <2>4. QED
    BY <1>1, <1>4, <1>5, <1>6, <1>7, <2>1, <2>2, <2>3, TreeAlike
<1>14. CallUnderWay'
  <2>1. heap'[fresh].level + Len(stack') = heap'[root].level
    <3>1. heap'[fresh].level = 0
      BY <1>3 DEF LeafSplitItems
    <3>2. heap'[root].level = heap[root].level /\ heap[root].level \in Nat
      BY <1>4, <1>5, <1>6, Levels
    <3>3. Len(stack') = Len(stack) - 1 /\ Len(stack) \in Nat /\ Len(stack) \in 1 .. Len(stack)
          /\ cur = stack[Len(stack)].node
      BY <1>1, <1>5, <1>6, StackEnds
    <3>4. heap[cur].level + Len(stack) = heap[root].level + 1
      BY <1>6, <3>3 DEF StackLeadsDown, FrameAt
    <3>5. QED
      BY <1>5, <3>1, <3>2, <3>3, <3>4
  <2>2. fresh \in DOMAIN heap' \ {root'}
    BY <1>1, <1>2, <1>5
  <2>3. key' \notin stored' /\ key' # Null
    BY <1>1 DEF ShapeInv, CallUnderWay
  <2>4. QED
    BY <1>1, <1>2, <1>4, <1>5, <1>8, <1>9, <2>1, <2>2, <2>3 DEF CallUnderWay
<1>15. QED
  BY <1>10, <1>11, <1>13, <1>14 DEF ShapeInv

\* The inner nodes M change, and the others keep their children.
LEMMA TreeMoved ==
  ASSUME TypeOK, Tree, NEW M, LinkedOnce', root' # Null,
         \A n \in LiveInner' \ M : n \in LiveInner /\ Alike(n)
                                   /\ least(n)' <= Len(heap[n].slotkey),
         \A n \in DOMAIN heap \cap DOMAIN heap' : heap'[n].level = heap[n].level,
         \A n \in LiveInner' \cap M : InnerFilled(n)',
         \A n \in LiveLeaves' : LeafFilled(n)'
  PROVE  Tree'
<1>1. ASSUME NEW n \in LiveInner', n \notin M PROVE InnerFilled(n)'
  <2>1. n \in LiveInner /\ Alike(n) /\ least(n)' <= Len(heap[n].slotkey)
    BY <1>1
  <2>2. InnerFilled(n) /\ LinkedOnce
    BY <2>1 DEF Tree
  <2>3. Len(heap[n].slotkey) \in Nat /\ \A i \in Slots(n) : heap[n].childid[i] \in DOMAIN heap
    BY <2>1, <2>2, ChildNodes
  <2>4. least(n)' \in Nat
    BY Half DEF least
  <2>5. Slots(n)' = Slots(n)
    BY <2>1 DEF Slots, Alike
  <2>6. \A i \in Slots(n) : heap[n].childid[i] \in DOMAIN heap'
    BY <1>1, <2>1, <2>5 DEF LinkedOnce, Alike
  <2>7. \A i \in Slots(n) :
           heap'[heap[n].childid[i]].level = heap[heap[n].childid[i]].level
    BY <2>3, <2>6
  <2>8. QED
    BY <2>1, <2>2, <2>3, <2>4, <2>7, FilledSame DEF Alike
<1>2. QED
  BY <1>1 DEF Tree

\* The call at an inner node on its way back.
LEMMA AtInner ==
  ASSUME ShapeInv, pc \in {"link", "fix", "balance"}, stack # <<>>
  PROVE  /\ root # Null /\ root \in DOMAIN heap /\ ~descending
         /\ TypeOK /\ Tree /\ LinkedOnce /\ StackLeadsDown /\ Counted
         /\ cur \in LiveInner /\ cur \in Inner /\ cur \in DOMAIN heap /\ cur \in Nodes
         /\ cur \notin Leaves /\ cur # Null
         /\ InnerFilled(cur) /\ heap[cur] \in InnerNodes
         /\ heap[cur].slotkey \in Seq(Keys) /\ heap[cur].childid \in Seq(Nodes)
         /\ heap[cur].level \in Nat /\ heap[cur].level >= 1
         /\ Len(heap[cur].slotkey) \in Nat
         /\ Len(heap[cur].childid) = Len(heap[cur].slotkey) + 1
         /\ slotuse(cur) = Len(heap[cur].slotkey)
         /\ Len(heap[cur].slotkey) <= innerslotmax
         /\ ~isleafnode(cur)
         /\ heap[root].level \in Nat
         /\ heap[cur].level + Len(stack) = heap[root].level + 1
         /\ Len(stack) \in Nat /\ Len(stack) >= 1
         /\ pc # "balance" => top.slot \in 0 .. Len(heap[cur].slotkey)
         /\ root \in Inner /\ (Len(stack) = 1 <=> cur = root)
         /\ key # Null
<1>1. /\ root # Null /\ TypeOK /\ Tree /\ LinkedOnce /\ StackLeadsDown /\ ~descending
      /\ Counted /\ key # Null
  BY DEF ShapeInv, CallUnderWay, Tree, descending
<1>2. \A n \in LiveInner : InnerFilled(n)
  BY <1>1 DEF Tree
<1>3. PICK d : d = Len(stack)
  OBVIOUS
<1>4. d \in Nat /\ d >= 1 /\ d \in 1 .. d /\ 1 \in 1 .. d /\ top = stack[d] /\ cur = stack[d].node
  BY <1>1, <1>3, StackEnds
<1>5. FrameAt(d) /\ FrameAt(1) /\ stack[1].node = root
  BY <1>1, <1>3, <1>4 DEF StackLeadsDown
<1>6. /\ root \in DOMAIN heap /\ cur \in DOMAIN heap /\ cur \in Nodes
      /\ heap[cur].level \in Nat /\ heap[root].level \in Nat
      /\ heap[cur].level + d = heap[root].level + 1 /\ cur \in LiveInner
      /\ (Len(stack) > 1 <=> cur # root)
  BY <1>1, <1>2, <1>3, CurrentNode
<1>7. cur \in Inner /\ heap[cur] \in InnerNodes /\ cur \notin Leaves /\ cur # Null
  BY <1>1, <1>6, LiveNodes, NodeKinds
<1>8. /\ heap[cur].slotkey \in Seq(Keys) /\ heap[cur].childid \in Seq(Nodes)
      /\ heap[cur].level >= 1
      /\ Len(heap[cur].slotkey) \in Nat
      /\ Len(heap[cur].childid) = Len(heap[cur].slotkey) + 1
      /\ slotuse(cur) = Len(heap[cur].slotkey) /\ InnerFilled(cur)
  BY <1>1, <1>2, <1>6, ChildNodes
<1>9. Len(heap[cur].slotkey) <= innerslotmax
  BY <1>8, FilledSlots
<1>10. pc # "balance" => top.slot \in 0 .. slotuse(cur)
  BY <1>4, <1>5, <1>7 DEF FrameAt
<1>11. root \in Inner
  BY <1>1, <1>3, <1>5 DEF FrameAt
<1>12. ~isleafnode(cur)
  BY <1>6, <1>7 DEF Leaves
<1>13. QED
  BY <1>1, <1>3, <1>4, <1>6, <1>7, <1>8, <1>9, <1>10, <1>11, <1>12

-----------------------------------------------------------------------------
(* A new child *)

\* The call with a node that was split off and has no parent yet.
LEMMA RisingNode ==
  ASSUME ShapeInv, newchild # Null
  PROVE  /\ pc = "link" /\ gone = Null /\ ~fixmerge
         /\ LiveInner = Inner /\ LiveLeaves = Leaves /\ Live = DOMAIN heap
         /\ newkey \in Keys /\ newchild \in DOMAIN heap \ {root} /\ newchild \in Nodes
         /\ heap[newchild].level \in Nat
         /\ heap[newchild].level + Len(stack) = heap[root].level
         /\ root # Null /\ root \in DOMAIN heap
         /\ stack # <<>> => heap[newchild].level + 1 = heap[cur].level
<1>1. /\ pc = "link" /\ newkey \in Keys /\ newchild \in DOMAIN heap \ {root}
      /\ heap[newchild].level + Len(stack) = heap[root].level /\ root # Null
  BY DEF ShapeInv, CallUnderWay
<1>2. gone = Null /\ ~fixmerge /\ TypeOK
  BY <1>1, PlainPc DEF ShapeInv
<1>3. LiveInner = Inner /\ LiveLeaves = Leaves /\ Live = DOMAIN heap
  BY <1>2, NodeKinds DEF LiveInner, LiveLeaves, Live
<1>4. heap[newchild].level \in Nat /\ newchild \in Nodes
  BY <1>1, <1>2, Levels, NodeKinds
<1>5. ASSUME stack # <<>> PROVE heap[newchild].level + 1 = heap[cur].level
  <2>1. /\ heap[cur].level + Len(stack) = heap[root].level + 1 /\ Len(stack) \in Nat
        /\ heap[cur].level \in Nat /\ heap[root].level \in Nat
    BY <1>1, <1>5, AtInner
  <2>2. PICK a, b, c, d : /\ a = heap[newchild].level /\ b = heap[cur].level
                          /\ c = heap[root].level /\ d = Len(stack)
    OBVIOUS
  <2>3. a + d = c /\ b + d = c + 1 /\ a \in Nat /\ b \in Nat /\ c \in Nat /\ d \in Nat
    BY <1>1, <1>4, <2>1, <2>2
  <2>4. a + 1 = b
    BY <2>3
  <2>5. QED
    BY <2>2, <2>4
<1>6. root \in DOMAIN heap
  BY <1>1, <1>2, TypeNow
<1>7. QED
  BY <1>1, <1>2, <1>3, <1>4, <1>5, <1>6

\* A node with the new child.
LEMMA AddedChild ==
  ASSUME NEW l \in Nat \ {0}, NEW K \in Seq(Keys), NEW C \in Seq(Nodes),
         NEW s \in 0 .. Len(K), Len(C) = Len(K) + 1, newkey \in Keys, newchild \in Nodes
  PROVE  \E K2 \in Seq(Keys), C2 \in Seq(Nodes) :
           /\ addChild(InnerNode(l, K, C), s) = InnerNode(l, K2, C2)
           /\ Inserted(K2, K, s + 1, newkey) /\ Inserted(C2, C, s + 2, newchild)
<1>1. PICK K2, C2 : K2 = InsertAt(K, s + 1, newkey) /\ C2 = InsertAt(C, s + 2, newchild)
  OBVIOUS
<1>2. s + 1 \in 1 .. Len(K) + 1 /\ s + 2 \in 1 .. Len(C) + 1
  OBVIOUS
<1>3. K2 \in Seq(Keys) /\ Inserted(K2, K, s + 1, newkey)
  BY <1>1, <1>2, InsertAtType, InsertAtElement
<1>4. C2 \in Seq(Nodes) /\ Inserted(C2, C, s + 2, newchild)
  BY <1>1, <1>2, InsertAtType, InsertAtElement
<1>5. addChild(InnerNode(l, K, C), s) = InnerNode(l, K2, C2)
  <2>1. PICK r : r = InnerNode(l, K, C)
    OBVIOUS
  <2>2. r \in InnerNodes /\ r.level = l /\ r.slotkey = K /\ r.childid = C
    BY <2>1, NodeRecords, GivenFields
  <2>3. [r EXCEPT !.slotkey = K2, !.childid = C2] = InnerNode(l, K2, C2)
    <3>1. [r EXCEPT !.slotkey = K2] = InnerNode(l, K2, C)
      BY <2>1 DEF InnerNode
    <3>2. [InnerNode(l, K2, C) EXCEPT !.childid = C2] = InnerNode(l, K2, C2)
      BY DEF InnerNode
    <3>3. [r EXCEPT !.slotkey = K2, !.childid = C2]
             = [[r EXCEPT !.slotkey = K2] EXCEPT !.childid = C2]
      OBVIOUS
    <3>4. QED
      BY <3>1, <3>2, <3>3
  <2>4. addChild(r, s) = [r EXCEPT !.slotkey = InsertAt(K, s + 1, newkey), !.childid = InsertAt(C, s + 2, newchild)]
    BY <2>2 DEF addChild, InnerNodes
  <2>6. QED
    BY <1>1, <2>1, <2>3, <2>4
<1>6. QED
  BY <1>3, <1>4, <1>5

\* insert_descend links the new child.
LEMMA LinkChildHeap ==
  ASSUME ShapeInv, LinkChild
  PROVE  \E K2 \in Seq(Keys), C2 \in Seq(Nodes) :
           /\ Placed(heap', heap, cur, InnerNode(heap[cur].level, K2, C2))
           /\ HeapTyped(heap') /\ DOMAIN heap' = DOMAIN heap
           /\ heap'[cur].slotkey = K2 /\ heap'[cur].childid = C2
           /\ Inserted(K2, heap[cur].slotkey, top.slot + 1, newkey)
           /\ Inserted(C2, heap[cur].childid, top.slot + 2, newchild)
           /\ \A n \in DOMAIN heap : n # cur => heap'[n] = heap[n]
           /\ \A n \in DOMAIN heap : heap'[n].level = heap[n].level
           /\ Leaves' = Leaves /\ Inner' = Inner /\ gone' = Null /\ Live' = DOMAIN heap
           /\ LiveInner' = Inner /\ LiveLeaves' = Leaves
           /\ ~fixmerge' /\ newchild' = Null /\ newkey' = Null
           /\ Len(heap[cur].slotkey) + 1 <= innerslotmax
<1>1. /\ pc = "link" /\ stack # <<>> /\ newchild # Null /\ ~isfull(cur)
      /\ heap' = [heap EXCEPT ![cur] = addChild(@, top.slot)]
      /\ newkey' = Null /\ newchild' = Null /\ fixmerge' = fixmerge
  BY DEF LinkChild, result
<1>2. PICK K, C, l, s : /\ K = heap[cur].slotkey /\ C = heap[cur].childid
                        /\ l = heap[cur].level /\ s = top.slot
  OBVIOUS
<1>3. /\ TypeOK /\ cur \in DOMAIN heap /\ cur \in Nodes
      /\ heap[cur] \in InnerNodes /\ K \in Seq(Keys) /\ C \in Seq(Nodes)
      /\ l \in Nat /\ l >= 1 /\ Len(K) \in Nat /\ Len(C) = Len(K) + 1
      /\ slotuse(cur) = Len(K) /\ Len(K) <= innerslotmax /\ ~isleafnode(cur)
      /\ s \in 0 .. Len(K)
  BY <1>1, <1>2, AtInner
<1>4. /\ ~fixmerge /\ newkey \in Keys /\ newchild \in Nodes
  BY <1>1, RisingNode
<1>5. heap[cur] = InnerNode(l, K, C)
  BY <1>2, <1>3, InnerFields
<1>6. l \in Nat \ {0}
  BY <1>3
<1>7. PICK K2 \in Seq(Keys), C2 \in Seq(Nodes) :
           /\ addChild(InnerNode(l, K, C), s) = InnerNode(l, K2, C2)
           /\ Inserted(K2, K, s + 1, newkey) /\ Inserted(C2, C, s + 2, newchild)
  BY <1>3, <1>4, <1>6, AddedChild
<1>8. PICK c : c = InnerNode(l, K2, C2)
  OBVIOUS
<1>9. heap' = [heap EXCEPT ![cur] = c]
  BY <1>1, <1>2, <1>5, <1>7, <1>8
<1>10. Placed(heap', heap, cur, c)
  BY <1>3, <1>9, ChangedNode, HeapIsFunction
<1>11. c \in InnerNodes
  BY <1>6, <1>8, NodeRecords
<1>12. HeapTyped(heap')
  BY <1>3, <1>10, <1>11, HeapNow, PlacedTyped DEF IsNode
<1>13. c.level = l /\ c.slotkey = K2 /\ c.childid = C2
  BY <1>8, GivenFields
<1>14. /\ DOMAIN heap' = DOMAIN heap /\ heap'[cur] = c
       /\ \A n \in DOMAIN heap : n # cur => heap'[n] = heap[n]
  BY <1>3, <1>10 DEF Placed
<1>15. \A n \in DOMAIN heap : heap'[n].level = heap[n].level
  BY <1>2, <1>13, <1>14
<1>16. Leaves' = Leaves /\ Inner' = Inner
  BY <1>14, <1>15, SameKinds
<1>17. gone' = Null /\ Null \notin DOMAIN heap
  BY <1>1, <1>3, <1>4, NodeKinds DEF gone
<1>18. Live' = DOMAIN heap /\ LiveInner' = Inner /\ LiveLeaves' = Leaves
  BY <1>3, <1>14, <1>16, <1>17, NodeKinds DEF Live, LiveInner, LiveLeaves
<1>19. Len(K) + 1 <= innerslotmax
  BY <1>1, <1>3, Half DEF isfull
<1>20. QED
  BY <1>1, <1>2, <1>4, <1>7, <1>8, <1>10, <1>12, <1>13, <1>14, <1>15, <1>16, <1>17, <1>18, <1>19

\* The children of a node, none of them twice or of another node.
LEMMA OwnChildren ==
  ASSUME TypeOK, LinkedOnce, NEW p \in LiveInner
  PROVE  /\ ChildrenOnce(LiveInner, heap, DOMAIN heap \ {root, newchild})
         /\ Distinct(heap[p].childid)
         /\ Elements(heap[p].childid) \subseteq DOMAIN heap \ {root, newchild}
         /\ \A q \in LiveInner : q # p =>
              Elements(heap[p].childid) \cap Elements(heap[q].childid) = {}
<1>1. ChildrenOnce(LiveInner, heap, DOMAIN heap \ {root, newchild})
  BY LinkedForm
<1>2. QED
  BY <1>1 DEF ChildrenOnce

\* The new child is linked once.
LEMMA LinkChildLinks ==
  ASSUME ShapeInv, LinkChild
  PROVE  LinkedOnce'
<1>1. /\ pc = "link" /\ stack # <<>> /\ newchild # Null /\ root' = root
  BY DEF LinkChild
<1>2. PICK K2 \in Seq(Keys), C2 \in Seq(Nodes) :
           /\ DOMAIN heap' = DOMAIN heap
           /\ heap'[cur].slotkey = K2 /\ heap'[cur].childid = C2
           /\ Inserted(C2, heap[cur].childid, top.slot + 2, newchild)
           /\ \A n \in DOMAIN heap : n # cur => heap'[n] = heap[n]
           /\ LiveInner' = Inner /\ newchild' = Null
  BY LinkChildHeap
<1>3. /\ TypeOK /\ LinkedOnce /\ cur \in LiveInner /\ cur \in Inner
      /\ heap[cur].childid \in Seq(Nodes)
      /\ Len(heap[cur].slotkey) \in Nat
      /\ Len(heap[cur].childid) = Len(heap[cur].slotkey) + 1
      /\ top.slot \in 0 .. Len(heap[cur].slotkey)
  BY <1>1, AtInner
<1>4. LiveInner = Inner /\ newchild \in DOMAIN heap \ {root}
  BY <1>1, RisingNode
<1>5. PICK C, s, T, T2, I :
        /\ C = heap[cur].childid /\ s = top.slot + 2 /\ T = DOMAIN heap \ {root, newchild}
        /\ T2 = DOMAIN heap' \ {root', newchild'} /\ I = Inner
  OBVIOUS
<1>6. s \in 1 .. Len(C) + 1 /\ C \in Seq(Nodes)
  <2>1. PICK b, m, c : b = top.slot /\ m = Len(heap[cur].slotkey) /\ c = Len(C)
    OBVIOUS
  <2>2. m \in Nat /\ b \in 0 .. m /\ c = m + 1 /\ s = b + 2
    BY <1>3, <1>5, <2>1
  <2>3. s \in 1 .. c + 1
    BY <2>2
  <2>4. QED
    BY <1>3, <1>5, <2>1, <2>3
<1>7. ChildrenOnce(I, heap, T) /\ Distinct(C) /\ Elements(C) \subseteq T
  BY <1>3, <1>4, <1>5, OwnChildren
<1>8. newchild \notin Elements(C)
  BY <1>5, <1>7
<1>9. Elements(C2) = Elements(C) \cup {newchild} /\ Distinct(C2)
  BY <1>2, <1>5, <1>6, <1>7, <1>8, InsertedElements
<1>10. ChildrenOnce(I \cap {cur}, heap', Elements(C) \cup {newchild})
  BY <1>2, <1>3, <1>5, <1>9 DEF ChildrenOnce
<1>11. \A p \in I \ {cur} : heap'[p].childid = heap[p].childid
  BY <1>2, <1>3, <1>5, NodeKinds
<1>12. T2 = T \cup {newchild}
  <2>1. Null \notin DOMAIN heap
    BY <1>3, NodeKinds
  <2>2. QED
    BY <1>1, <1>2, <1>4, <1>5, <2>1
<1>13. \A c \in Elements(C) \cup {newchild} :
         c \notin T \/ \E p \in I \cap {cur} : c \in Elements(heap[p].childid)
  BY <1>3, <1>5
<1>14. \A c : c \in T2 <=> \/ c \in Elements(C) \cup {newchild}
                           \/ c \in T /\ ~\E p \in I \cap {cur} : c \in Elements(heap[p].childid)
  BY <1>3, <1>5, <1>7, <1>12
<1>15. ChildrenOnce(I, heap', T2)
  <2>1. PICK M, N2, h2 : M = {cur} /\ N2 = Elements(C) \cup {newchild} /\ h2 = heap'
    OBVIOUS
  <2>2. /\ ChildrenOnce(I, heap, T) /\ ChildrenOnce(I \cap M, h2, N2) /\ I \ M = I \ M
        /\ \A p \in I \ M : h2[p].childid = heap[p].childid
        /\ \A c \in N2 : c \notin T \/ \E p \in I \cap M : c \in Elements(heap[p].childid)
    BY <1>7, <1>10, <1>11, <1>13, <2>1
  <2>3. \A c : c \in T2 <=>
       (c \in N2 \/ (c \in T /\ ~\E p \in I \cap M : c \in Elements(heap[p].childid)))
    BY <1>14, <2>1
  <2>4. Moved(I, heap, T, I, h2, T2, M, N2)
    BY <2>2, <2>3 DEF Moved
  <2>6. ChildrenOnce(I, h2, T2)
    BY <2>4, Relinked
  <2>5. QED
    BY <2>1, <2>6
<1>16. QED
  BY <1>2, <1>5, <1>15, LinkedForm

\* A linked child keeps the shape.
LEMMA LinkChildShape ==
  ASSUME ShapeInv, LinkChild
  PROVE  ShapeInv'
<1>1. /\ pc = "link" /\ stack # <<>> /\ newchild # Null /\ root' = root
      /\ stack' = Front(stack)
      /\ UNCHANGED <<head, tail, stats, pc, key, lastkey, fixmerge, stored>>
  BY DEF LinkChild, result
<1>2. PICK K2 \in Seq(Keys), C2 \in Seq(Nodes) :
           /\ HeapTyped(heap') /\ DOMAIN heap' = DOMAIN heap
           /\ heap'[cur].slotkey = K2 /\ heap'[cur].childid = C2
           /\ Inserted(K2, heap[cur].slotkey, top.slot + 1, newkey)
           /\ Inserted(C2, heap[cur].childid, top.slot + 2, newchild)
           /\ \A n \in DOMAIN heap : n # cur => heap'[n] = heap[n]
           /\ \A n \in DOMAIN heap : heap'[n].level = heap[n].level
           /\ Leaves' = Leaves /\ Inner' = Inner /\ gone' = Null /\ Live' = DOMAIN heap
           /\ LiveInner' = Inner /\ LiveLeaves' = Leaves
           /\ ~fixmerge' /\ newchild' = Null /\ newkey' = Null
           /\ Len(heap[cur].slotkey) + 1 <= innerslotmax
  BY LinkChildHeap
<1>3. /\ TypeOK /\ Tree /\ StackLeadsDown /\ Counted /\ root # Null
      /\ cur \in DOMAIN heap /\ cur \in LiveInner /\ InnerFilled(cur)
      /\ heap[cur].childid \in Seq(Nodes) /\ heap[cur].level \in Nat
      /\ Len(heap[cur].slotkey) \in Nat
      /\ Len(heap[cur].childid) = Len(heap[cur].slotkey) + 1
      /\ top.slot \in 0 .. Len(heap[cur].slotkey)
      /\ Len(stack) = 1 <=> cur = root
  BY <1>1, AtInner
<1>4. /\ LiveInner = Inner /\ LiveLeaves = Leaves /\ ~fixmerge /\ newchild \in DOMAIN heap
      /\ heap[newchild].level + 1 = heap[cur].level
  BY <1>1, RisingNode
<1>5. \A n \in Inner : n # cur => n \in DOMAIN heap /\ heap'[n] = heap[n] /\ Alike(n)
  BY <1>2, <1>3, NodeKinds DEF Alike
<1>6. StackLeadsDown' /\ stack' \in Seq(Frames)
  <2>1. \A n \in LiveInner : heap[n].level > heap[cur].level => n # cur
    BY <1>3
  <2>2. \A n \in LiveInner : heap[n].level > heap[cur].level => Alike(n) /\ n \in Live'
    BY <1>2, <1>4, <1>5, <2>1
  <2>3. DOMAIN heap' \subseteq Nodes /\ pc' \notin {"insert", "erase"}
    BY <1>1, <1>2 DEF HeapTyped
  <2>4. QED
    BY <1>1, <1>3, <2>2, <2>3, UpStack
<1>7. TypeOK'
  <2>1. stats' \in Counters
    BY <1>1, <1>3, TypeNow
  <2>2. QED
    BY <1>1, <1>2, <1>3, <1>6, <2>1, TypeNow, TypeNext
\* The rest of a split root is not a root of its own any more.
<1>8. ASSUME NEW n \in Inner PROVE least(n)' = least(n) /\ least(n) \in Nat
  <2>1. ~rootSplit /\ ~rootSplit' /\ pc' = "link"
    BY <1>1, <1>2 DEF rootSplit
  <2>2. least(n) = IF n = root THEN 1 ELSE innerslotmax \div 2
    BY <1>1, <2>1 DEF least
  <2>3. least(n)' = IF n = root THEN 1 ELSE innerslotmax \div 2
    BY <1>1, <2>1 DEF least
  <2>4. QED
    BY <2>2, <2>3, Half
<1>9. LinkedOnce'
  BY LinkChildLinks
<1>10. PICK n : n = cur
  OBVIOUS
<1>11. InnerFilled(n)'
  <2>1. PICK K, C, s, l, m : /\ K = heap[cur].slotkey /\ C = heap[cur].childid
                             /\ s = top.slot /\ l = heap[cur].level /\ m = Len(K)
    OBVIOUS
  <2>2. /\ m \in Nat /\ s \in 0 .. m /\ Len(C) = m + 1 /\ l \in Nat
        /\ Len(K2) = m + 1 /\ Len(C2) = m + 2
        /\ \A j \in 1 .. m + 2 :
             C2[j] = IF j < s + 2 THEN C[j] ELSE IF j = s + 2 THEN newchild ELSE C[j - 1]
    <3>1. m \in Nat /\ s \in 0 .. m /\ Len(C) = m + 1 /\ l \in Nat
      BY <1>3, <2>1
    <3>2. /\ Len(K2) = m + 1 /\ Len(C2) = Len(C) + 1
          /\ \A j \in 1 .. Len(C) + 1 :
               C2[j] = IF j < s + 2 THEN C[j] ELSE IF j = s + 2 THEN newchild ELSE C[j - 1]
      BY <1>2, <2>1 DEF Inserted
    <3>3. Len(C) + 1 = m + 2
      BY <3>1
    <3>4. QED
      BY <3>1, <3>2, <3>3
  <2>3. /\ heap'[n].childid = C2 /\ heap'[n].slotkey = K2 /\ heap'[n].level = l
        /\ heap[n].slotkey = K
    BY <1>2, <1>3, <1>10, <2>1
  <2>4. Len(heap'[n].slotkey) \in least(n)' .. innerslotmax
    <3>1. least(n)' = least(n) /\ least(n) \in Nat
      BY <1>3, <1>4, <1>8, <1>10
    <3>2. m >= least(n) /\ m + 1 <= innerslotmax
      BY <1>2, <1>3, <1>10, <2>1, FilledSlots
    <3>3. m + 1 \in least(n) .. innerslotmax
      BY <2>2, <3>1, <3>2, Half
    <3>4. QED
      BY <2>2, <2>3, <3>1, <3>3
  <2>5. \A j \in 1 .. m + 1 : C[j] \in DOMAIN heap /\ heap[C[j]].level + 1 = l
    <3>1. Slots(cur) = 1 .. m + 1
      BY <2>1, <2>2 DEF Slots
    <3>2. QED
      BY <1>3, <2>1, <3>1, ChildNodes DEF Tree
  <2>6. ASSUME NEW i \in 1 .. m + 2
        PROVE  heap'[C2[i]].level + 1 = l
    <3>1. C2[i] \in DOMAIN heap /\ heap[C2[i]].level + 1 = l
      <4>1. CASE i < s + 2
        <5>1. i \in 1 .. m + 1 /\ C2[i] = C[i]
          BY <2>2, <4>1
        <5>2. QED
          BY <2>5, <5>1
      <4>2. CASE i = s + 2
        <5>1. C2[i] = newchild
          BY <2>2, <4>2
        <5>2. QED
          BY <1>4, <2>1, <5>1
      <4>3. CASE i > s + 2
        <5>1. i - 1 \in 1 .. m + 1 /\ C2[i] = C[i - 1]
          BY <2>2, <4>3
        <5>2. QED
          BY <2>5, <5>1
      <4>4. QED
        BY <2>2, <4>1, <4>2, <4>3
    <3>2. QED
      BY <1>2, <3>1
  <2>7. Len(heap'[n].childid) = Len(heap'[n].slotkey) + 1
    BY <2>2, <2>3
  <2>8. \A i \in Slots(n)' : heap'[heap'[n].childid[i]].level + 1 = heap'[n].level
    BY <2>2, <2>3, <2>6 DEF Slots
  <2>9. QED
    BY <2>4, <2>7, <2>8 DEF InnerFilled
<1>12. Tree'
  <2>1. ASSUME NEW p \in LiveInner' \ {n}
        PROVE  p \in LiveInner /\ Alike(p) /\ least(p)' <= Len(heap[p].slotkey)
    <3>1. p \in LiveInner /\ Alike(p) /\ InnerFilled(p) /\ least(p)' = least(p)
      BY <1>2, <1>3, <1>4, <1>5, <1>8, <1>10 DEF Tree
    <3>2. QED
      BY <3>1, FilledSlots
  <2>2. ASSUME NEW p \in LiveLeaves' PROVE LeafFilled(p)'
    <3>1. p \in LiveLeaves /\ LeafFilled(p) /\ p \in DOMAIN heap /\ p # cur
      BY <1>2, <1>3, <1>4, NodeKinds DEF Tree
    <3>2. heap'[p] = heap[p]
      BY <1>2, <3>1
    <3>3. QED
      BY <1>1, <3>1, <3>2 DEF LeafFilled
  <2>3. \A p \in LiveInner' \cap {n} : InnerFilled(p)'
    BY <1>11
  <2>4. \A p \in DOMAIN heap \cap DOMAIN heap' : heap'[p].level = heap[p].level
    BY <1>2
  <2>5. root' # Null
    BY <1>1, <1>3
  <2>6. QED
    BY <1>3, <1>9, <2>1, <2>2, <2>3, <2>4, <2>5, TreeMoved
<1>13. CallUnderWay'
  BY <1>1, <1>2, <1>3, <1>6 DEF CallUnderWay, ShapeInv
<1>14. Counted'
  BY <1>1, <1>2, <1>3 DEF Counted
<1>15. QED
  BY <1>7, <1>12, <1>13, <1>14 DEF ShapeInv

-----------------------------------------------------------------------------
(* The split of an inner node *)

\* An insertion into the first part, into the second, and between them.
LEMMA PutFirst ==
  ASSUME NEW m \in Nat, NEW n \in Nat, NEW t \in 1 .. m + 1, NEW sep, NEW x,
         NEW K, NEW K2, NEW L, NEW L2, NEW R,
         PutIn(K2, K, m + 1 + n, t, x), GluedKeys(K, L, m, sep, R, n), PutIn(L2, L, m, t, x)
  PROVE  GluedKeys(K2, L2, m + 1, sep, R, n)
<1>1. ASSUME NEW i \in 1 .. m + 1 PROVE K2[i] = L2[i]
  <2>1. CASE i < t
    BY <2>1 DEF PutIn, GluedKeys
  <2>2. CASE i = t
    BY <2>2 DEF PutIn
  <2>3. CASE i > t
    <3>1. i - 1 \in 1 .. m
      BY <2>3
    <3>2. K2[i] = K[i - 1] /\ L2[i] = L[i - 1]
      BY <2>3 DEF PutIn
    <3>3. QED
      BY <3>1, <3>2 DEF GluedKeys
  <2>4. QED
    BY <2>1, <2>2, <2>3
<1>2. K2[m + 1 + 1] = sep
  <2>1. m + 2 \in 1 .. m + 1 + n + 1 /\ m + 2 > t /\ m + 2 - 1 = m + 1 /\ m + 1 + 1 = m + 2
    OBVIOUS
  <2>2. QED
    BY <2>1 DEF PutIn, GluedKeys
<1>3. ASSUME NEW i \in 1 .. n PROVE K2[m + 1 + 1 + i] = R[i]
  <2>1. /\ m + 1 + 1 + i \in 1 .. m + 1 + n + 1 /\ m + 1 + 1 + i > t
        /\ m + 1 + 1 + i - 1 = m + 1 + i
    OBVIOUS
  <2>2. QED
    BY <2>1 DEF PutIn, GluedKeys
<1>4. QED
  BY <1>1, <1>2, <1>3 DEF GluedKeys

\* A key enters the upper part of a sequence that is divided.
LEMMA PutSecond ==
  ASSUME NEW m \in Nat, NEW n \in Nat, NEW t \in 1 .. n + 1, NEW sep, NEW x,
         NEW K, NEW K2, NEW L, NEW R, NEW R2,
         PutIn(K2, K, m + 1 + n, m + 1 + t, x), GluedKeys(K, L, m, sep, R, n),
         PutIn(R2, R, n, t, x)
  PROVE  GluedKeys(K2, L, m, sep, R2, n + 1)
<1>1. ASSUME NEW i \in 1 .. m PROVE K2[i] = L[i]
  <2>1. i < m + 1 + t /\ i \in 1 .. m + 1 + n + 1
    OBVIOUS
  <2>2. QED
    BY <2>1 DEF PutIn, GluedKeys
<1>2. K2[m + 1] = sep
  <2>1. m + 1 < m + 1 + t /\ m + 1 \in 1 .. m + 1 + n + 1
    OBVIOUS
  <2>2. QED
    BY <2>1 DEF PutIn, GluedKeys
<1>3. ASSUME NEW i \in 1 .. n + 1 PROVE K2[m + 1 + i] = R2[i]
  <2>1. m + 1 + i \in 1 .. m + 1 + n + 1
    OBVIOUS
  <2>2. CASE i < t
    <3>1. m + 1 + i < m + 1 + t /\ i \in 1 .. n
      BY <2>2
    <3>2. QED
      BY <2>1, <2>2, <3>1 DEF PutIn, GluedKeys
  <2>3. CASE i = t
    BY <2>3 DEF PutIn
  <2>4. CASE i > t
    <3>1. m + 1 + i > m + 1 + t /\ i - 1 \in 1 .. n /\ m + 1 + i - 1 = m + 1 + (i - 1)
      BY <2>4
    <3>2. K2[m + 1 + i] = K[m + 1 + i - 1] /\ R2[i] = R[i - 1]
      BY <2>1, <2>4, <3>1 DEF PutIn
    <3>3. QED
      BY <3>1, <3>2 DEF GluedKeys
  <2>5. QED
    BY <2>2, <2>3, <2>4
<1>4. QED
  BY <1>1, <1>2, <1>3 DEF GluedKeys

\* A key comes between the parts.
LEMMA PutBetween ==
  ASSUME NEW m \in Nat, NEW n \in Nat, NEW sep, NEW x,
         NEW K, NEW K2, NEW L, NEW L2, NEW R,
         PutIn(K2, K, m + 1 + n, m + 2, x), GluedKeys(K, L, m, sep, R, n),
         \A i \in 1 .. m : L2[i] = L[i], L2[m + 1] = sep
  PROVE  GluedKeys(K2, L2, m + 1, x, R, n)
<1>1. ASSUME NEW i \in 1 .. m + 1 PROVE K2[i] = L2[i]
  <2>1. i < m + 2 /\ i \in 1 .. m + 1 + n + 1 /\ (i \in 1 .. m \/ i = m + 1)
    OBVIOUS
  <2>2. QED
    BY <2>1 DEF PutIn, GluedKeys
<1>2. K2[m + 1 + 1] = x
  <2>1. m + 1 + 1 = m + 2
    OBVIOUS
  <2>2. QED
    BY <2>1 DEF PutIn
<1>3. ASSUME NEW i \in 1 .. n PROVE K2[m + 1 + 1 + i] = R[i]
  <2>1. /\ m + 1 + 1 + i \in 1 .. m + 1 + n + 1 /\ m + 1 + 1 + i > m + 2
        /\ m + 1 + 1 + i - 1 = m + 1 + i
    OBVIOUS
  <2>2. QED
    BY <2>1 DEF PutIn, GluedKeys
<1>4. QED
  BY <1>1, <1>2, <1>3 DEF GluedKeys

\* The same of children.
LEMMA PutFirstChild ==
  ASSUME NEW m \in Nat, NEW n \in Nat, NEW t \in 1 .. m + 1, NEW x,
         NEW C, NEW C2, NEW L, NEW L2, NEW R,
         PutIn(C2, C, m + n, t, x), GluedChildren(C, L, m, R, n), PutIn(L2, L, m, t, x)
  PROVE  GluedChildren(C2, L2, m + 1, R, n)
<1>1. ASSUME NEW i \in 1 .. m + 1 PROVE C2[i] = L2[i]
  <2>1. CASE i < t
    BY <2>1 DEF PutIn, GluedChildren
  <2>2. CASE i = t
    BY <2>2 DEF PutIn
  <2>3. CASE i > t
    <3>1. i - 1 \in 1 .. m
      BY <2>3
    <3>2. C2[i] = C[i - 1] /\ L2[i] = L[i - 1]
      BY <2>3 DEF PutIn
    <3>3. QED
      BY <3>1, <3>2 DEF GluedChildren
  <2>4. QED
    BY <2>1, <2>2, <2>3
<1>2. ASSUME NEW i \in 1 .. n PROVE C2[m + 1 + i] = R[i]
  <2>1. m + 1 + i \in 1 .. m + n + 1 /\ m + 1 + i > t /\ m + 1 + i - 1 = m + i
    OBVIOUS
  <2>2. QED
    BY <2>1 DEF PutIn, GluedChildren
<1>3. QED
  BY <1>1, <1>2 DEF GluedChildren

\* A child enters the upper part.
LEMMA PutSecondChild ==
  ASSUME NEW m \in Nat, NEW n \in Nat, NEW t \in 1 .. n + 1, NEW x,
         NEW C, NEW C2, NEW L, NEW R, NEW R2,
         PutIn(C2, C, m + n, m + t, x), GluedChildren(C, L, m, R, n), PutIn(R2, R, n, t, x)
  PROVE  GluedChildren(C2, L, m, R2, n + 1)
<1>1. ASSUME NEW i \in 1 .. m PROVE C2[i] = L[i]
  <2>1. i < m + t /\ i \in 1 .. m + n + 1
    OBVIOUS
  <2>2. QED
    BY <2>1 DEF PutIn, GluedChildren
<1>2. ASSUME NEW i \in 1 .. n + 1 PROVE C2[m + i] = R2[i]
  <2>1. m + i \in 1 .. m + n + 1
    OBVIOUS
  <2>2. CASE i < t
    <3>1. m + i < m + t /\ i \in 1 .. n
      BY <2>2
    <3>2. QED
      BY <2>1, <2>2, <3>1 DEF PutIn, GluedChildren
  <2>3. CASE i = t
    BY <2>3 DEF PutIn
  <2>4. CASE i > t
    <3>1. m + i > m + t /\ i - 1 \in 1 .. n /\ m + i - 1 = m + (i - 1)
      BY <2>4
    <3>2. C2[m + i] = C[m + i - 1] /\ R2[i] = R[i - 1]
      BY <2>1, <2>4, <3>1 DEF PutIn
    <3>3. QED
      BY <3>1, <3>2 DEF GluedChildren
  <2>5. QED
    BY <2>2, <2>3, <2>4
<1>3. QED
  BY <1>1, <1>2 DEF GluedChildren

\* A child is the first of the upper part.
LEMMA PutBetweenChild ==
  ASSUME NEW m \in Nat, NEW n \in Nat, n >= 1, NEW x,
         NEW C, NEW C2, NEW L, NEW L2, NEW R, NEW R2,
         PutIn(C2, C, m + n, m + 2, x), GluedChildren(C, L, m, R, n),
         \A i \in 1 .. m : L2[i] = L[i], L2[m + 1] = R[1],
         R2[1] = x, \A i \in 2 .. n : R2[i] = R[i]
  PROVE  GluedChildren(C2, L2, m + 1, R2, n)
<1>1. ASSUME NEW i \in 1 .. m + 1 PROVE C2[i] = L2[i]
  <2>1. i < m + 2 /\ i \in 1 .. m + n + 1 /\ (i \in 1 .. m \/ i = m + 1) /\ 1 \in 1 .. n
    OBVIOUS
  <2>2. QED
    BY <2>1 DEF PutIn, GluedChildren
<1>2. ASSUME NEW i \in 1 .. n PROVE C2[m + 1 + i] = R2[i]
  <2>1. CASE i = 1
    <3>1. m + 1 + i = m + 2
      BY <2>1
    <3>2. QED
      BY <2>1, <3>1 DEF PutIn
  <2>2. CASE i # 1
    <3>1. /\ m + 1 + i \in 1 .. m + n + 1 /\ m + 1 + i > m + 2 /\ m + 1 + i - 1 = m + i
          /\ i \in 2 .. n
      BY <2>2
    <3>2. C2[m + 1 + i] = C[m + i]
      BY <3>1 DEF PutIn
    <3>3. QED
      BY <3>1, <3>2 DEF GluedChildren
  <2>3. QED
    BY <2>1, <2>2
<1>3. QED
  BY <1>1, <1>2 DEF GluedChildren

\* Where the keys of a full node are divided.
LEMMA SplitMidValue ==
  ASSUME NEW s \in 0 .. innerslotmax
  PROVE  LET mid == splitMid(innerslotmax, s)
             n == innerslotmax - (mid + 1)
             half == innerslotmax \div 2
         IN /\ mid \in Nat /\ n \in Nat /\ mid + 1 <= innerslotmax
            /\ s = mid + 1 /\ mid < n => mid + 1 >= half /\ n >= half
            /\ s >= mid + 1 /\ ~(s = mid + 1 /\ mid < n) => mid >= half /\ n + 1 >= half
            /\ s < mid + 1 => mid + 1 >= half /\ n >= half
<1>1. PICK M, H : M = innerslotmax /\ H = innerslotmax \div 2
  OBVIOUS
<1>2. M \in Nat /\ H \in Nat /\ H >= 1 /\ 2 * H <= M /\ M <= 2 * H + 1 /\ M >= 3
  BY <1>1, Half
<1>3. PICK mid : mid = splitMid(M, s)
  OBVIOUS
<1>4. mid = IF s <= H /\ H > M - (H + 1) THEN H - 1 ELSE H
  BY <1>1, <1>3 DEF splitMid
<1>5. s \in Nat /\ s <= M
  BY <1>1, <1>2
<1>6. CASE s <= H /\ H > M - (H + 1)
  <2>1. mid = H - 1 /\ M = 2 * H
    BY <1>2, <1>4, <1>6
  <2>2. QED
    BY <1>1, <1>2, <1>3, <1>5, <1>6, <2>1
<1>7. CASE ~(s <= H /\ H > M - (H + 1))
  <2>1. mid = H /\ (s > H \/ M = 2 * H + 1)
    BY <1>2, <1>4, <1>5, <1>7
  <2>2. QED
    BY <1>1, <1>2, <1>3, <1>5, <1>7, <2>1
<1>8. QED
  BY <1>6, <1>7

\* An insertion, element by element.
LEMMA InsertedPut ==
  ASSUME NEW r, NEW s, NEW i, NEW e, NEW c, c = Len(s), c \in Nat, Inserted(r, s, i, e), i \in 1 .. c + 1
  PROVE  PutIn(r, s, c, i, e) /\ Len(r) = c + 1
<1>1. \A j \in 1 .. c + 1 : r[j] = IF j < i THEN s[j] ELSE IF j = i THEN e ELSE s[j - 1]
  BY DEF Inserted
<1>2. Len(r) = c + 1
  BY DEF Inserted
<1>3. \A j \in 1 .. c + 1 : j < i => r[j] = s[j]
  BY <1>1
<1>4. r[i] = e
  BY <1>1
<1>5. \A j \in 1 .. c + 1 : j > i => r[j] = s[j - 1]
  BY <1>1
<1>6. QED
  BY <1>2, <1>3, <1>4, <1>5 DEF PutIn

Pieces(K, C, c, m, n) ==
  /\ SubSeq(K, 1, m) \in Seq(Keys) /\ Len(SubSeq(K, 1, m)) = m
  /\ SubSeq(K, m + 2, c) \in Seq(Keys) /\ Len(SubSeq(K, m + 2, c)) = n
  /\ SubSeq(C, 1, m + 1) \in Seq(Nodes) /\ Len(SubSeq(C, 1, m + 1)) = m + 1
  /\ SubSeq(C, m + 2, c + 1) \in Seq(Nodes) /\ Len(SubSeq(C, m + 2, c + 1)) = n + 1
  /\ K[m + 1] \in Keys
  /\ GluedKeys(K, SubSeq(K, 1, m), m, K[m + 1], SubSeq(K, m + 2, c), n)
  /\ GluedChildren(C, SubSeq(C, 1, m + 1), m + 1, SubSeq(C, m + 2, c + 1), n + 1)

\* The two parts of a sequence of keys and of one of children.
LEMMA SplitPieces ==
  ASSUME NEW K \in Seq(Keys), NEW C \in Seq(Nodes), NEW c \in Nat, Len(K) = c, Len(C) = c + 1,
         NEW m \in Nat, NEW n \in Nat, c = m + 1 + n
  PROVE  Pieces(K, C, c, m, n)
<1>2. PICK A, B, D, E : /\ A = SubSeq(K, 1, m) /\ B = SubSeq(K, m + 2, c)
                        /\ D = SubSeq(C, 1, m + 1) /\ E = SubSeq(C, m + 2, c + 1)
  OBVIOUS
<1>3. /\ n \in Nat /\ c = m + 1 + n /\ 1 \in Nat /\ m + 2 \in Nat /\ m + 1 \in Nat
      /\ m <= c /\ 1 <= m + 1 /\ m + 2 >= 1 /\ m + 2 <= c + 1 /\ c + 1 \in Nat
      /\ m + 1 <= c + 1 /\ 1 <= m + 1 + 1 /\ m + 2 <= c + 1 + 1
      /\ m + 1 - 1 = m /\ c + 1 - (m + 2) = n /\ m + 1 + 1 - 1 = m + 1 /\ c + 1 + 1 - (m + 2) = n + 1
  OBVIOUS
<1>4. /\ A \in Seq(Keys) /\ Len(A) = m + 1 - 1
      /\ \A i \in 1 .. m + 1 - 1 : A[i] = K[1 + i - 1]
  BY <1>2, <1>3, SubSeqElement
<1>5. /\ B \in Seq(Keys) /\ Len(B) = c + 1 - (m + 2)
      /\ \A i \in 1 .. c + 1 - (m + 2) : B[i] = K[m + 2 + i - 1]
  BY <1>2, <1>3, SubSeqElement
<1>6. /\ D \in Seq(Nodes) /\ Len(D) = m + 1 + 1 - 1
      /\ \A i \in 1 .. m + 1 + 1 - 1 : D[i] = C[1 + i - 1]
  BY <1>2, <1>3, SubSeqElement
<1>7. /\ E \in Seq(Nodes) /\ Len(E) = c + 1 + 1 - (m + 2)
      /\ \A i \in 1 .. c + 1 + 1 - (m + 2) : E[i] = C[m + 2 + i - 1]
  BY <1>2, <1>3, SubSeqElement
<1>8. \A i \in Int : 1 + i - 1 = i /\ m + 2 + i - 1 = m + 1 + i
  BY <1>3
<1>9. Len(A) = m /\ Len(B) = n /\ Len(D) = m + 1 /\ Len(E) = n + 1
  BY <1>3, <1>4, <1>5, <1>6, <1>7
<1>10. GluedKeys(K, A, m, K[m + 1], B, n)
  <2>1. \A i \in 1 .. m : K[i] = A[i]
    BY <1>3, <1>4, <1>8
  <2>2. ASSUME NEW i \in 1 .. n PROVE K[m + 1 + i] = B[i]
    <3>1. i \in 1 .. c + 1 - (m + 2) /\ m + 2 + i - 1 = m + 1 + i
      BY <1>3
    <3>2. B[i] = K[m + 2 + i - 1]
      BY <1>5, <3>1
    <3>3. QED
      BY <3>1, <3>2
  <2>3. QED
    BY <2>1, <2>2 DEF GluedKeys
<1>11. GluedChildren(C, D, m + 1, E, n + 1)
  <2>1. \A i \in 1 .. m + 1 : C[i] = D[i]
    BY <1>3, <1>6, <1>8
  <2>2. \A i \in 1 .. n + 1 : C[m + 1 + i] = E[i]
    BY <1>3, <1>7, <1>8
  <2>3. QED
    BY <2>1, <2>2 DEF GluedChildren
<1>12. K[m + 1] \in Keys
  <2>1. m + 1 \in 1 .. Len(K)
    BY <1>3
  <2>2. QED
    BY <2>1
<1>13. QED
  BY <1>2, <1>4, <1>5, <1>6, <1>7, <1>9, <1>10, <1>11, <1>12 DEF Pieces

\* What the split of a full node with keys K and children C leaves: the node
\* with the new child, cut in front of sep.
SplitUp(K, C, s, K2, C2, LK, LC, RK, RC, m, n, sep) ==
  /\ PutIn(K2, K, innerslotmax, s + 1, newkey)
  /\ PutIn(C2, C, innerslotmax + 1, s + 2, newchild)
  /\ m \in Nat /\ n \in Nat /\ m + n = innerslotmax
  /\ m >= innerslotmax \div 2 /\ n >= innerslotmax \div 2
  /\ LK \in Seq(Keys) /\ LC \in Seq(Nodes) /\ RK \in Seq(Keys) /\ RC \in Seq(Nodes)
  /\ Len(LK) = m /\ Len(LC) = m + 1 /\ Len(RK) = n /\ Len(RC) = n + 1
  /\ sep \in Keys
  /\ GluedKeys(K2, LK, m, sep, RK, n) /\ GluedChildren(C2, LC, m + 1, RC, n + 1)

\* A full node.
FullNode(l, K, C) ==
  /\ l \in Nat \ {0} /\ K \in Seq(Keys) /\ C \in Seq(Nodes)
  /\ Len(K) = innerslotmax /\ Len(C) = innerslotmax + 1

\* The three ways to split it.
SplitWay(K, C, l, s, mid, left, right, L, R, sep) ==
  LET between == s = mid + 1 /\ mid < Len(right.slotkey)
  IN /\ left = InnerNode(l, SubSeq(K, 1, mid), SubSeq(C, 1, mid + 1))
     /\ right = InnerNode(l, SubSeq(K, mid + 2, innerslotmax),
                              SubSeq(C, mid + 2, innerslotmax + 1))
     /\ \/ /\ between
           /\ L = [left EXCEPT !.slotkey = Append(@, K[mid + 1]),
                               !.childid = Append(@, right.childid[1])]
           /\ R = [right EXCEPT !.childid[1] = newchild]
           /\ sep = newkey
        \/ /\ ~between /\ s >= mid + 1
           /\ L = left /\ R = addChild(right, s - (mid + 1))
           /\ sep = K[mid + 1]
        \/ /\ s < mid + 1
           /\ L = addChild(left, s) /\ R = right
           /\ sep = K[mid + 1]

\* The three ways in which split_inner_node and the insert divide the children.
LEMMA SplitNode ==
  ASSUME NEW l, NEW K, NEW C, FullNode(l, K, C),
         NEW s \in 0 .. innerslotmax, NEW mid, mid = splitMid(innerslotmax, s),
         newkey \in Keys, newchild \in Nodes,
         NEW left, NEW right, NEW L, NEW R, NEW sep,
         SplitWay(K, C, l, s, mid, left, right, L, R, sep)
  PROVE  \E K2, C2, LK, LC, RK, RC, m, n :
           /\ K2 \in Seq(Keys) /\ C2 \in Seq(Nodes)
           /\ L = InnerNode(l, LK, LC) /\ R = InnerNode(l, RK, RC)
           /\ Inserted(C2, C, s + 2, newchild)
           /\ SplitUp(K, C, s, K2, C2, LK, LC, RK, RC, m, n, sep)
<1>1. PICK M, H, n : M = innerslotmax /\ H = innerslotmax \div 2 /\ n = M - (mid + 1)
  OBVIOUS
<1>2. M \in Nat /\ M >= 3 /\ H \in Nat
  BY <1>1, Half
<1>3. /\ mid \in Nat /\ n \in Nat /\ mid + 1 <= M
      /\ s = mid + 1 /\ mid < n => mid + 1 >= H /\ n >= H
      /\ s >= mid + 1 /\ ~(s = mid + 1 /\ mid < n) => mid >= H /\ n + 1 >= H
      /\ s < mid + 1 => mid + 1 >= H /\ n >= H
  BY <1>1, SplitMidValue
<1>4. s \in Nat /\ s <= M /\ M = mid + 1 + n
  BY <1>1, <1>2, <1>3
<1>5. PICK A, B, D, E : /\ A = SubSeq(K, 1, mid) /\ B = SubSeq(K, mid + 2, M)
                        /\ D = SubSeq(C, 1, mid + 1) /\ E = SubSeq(C, mid + 2, M + 1)
  OBVIOUS
<1>6. /\ A \in Seq(Keys) /\ Len(A) = mid /\ B \in Seq(Keys) /\ Len(B) = n
      /\ D \in Seq(Nodes) /\ Len(D) = mid + 1 /\ E \in Seq(Nodes) /\ Len(E) = n + 1
      /\ K[mid + 1] \in Keys
      /\ GluedKeys(K, A, mid, K[mid + 1], B, n)
      /\ GluedChildren(C, D, mid + 1, E, n + 1)
  <2>1. Len(K) = M /\ Len(C) = M + 1 /\ K \in Seq(Keys) /\ C \in Seq(Nodes)
    BY <1>1 DEF FullNode
  <2>2. M = mid + 1 + n
    BY <1>4
  <2>3. mid \in Nat /\ n \in Nat
    BY <1>3
  <2>4. /\ SubSeq(K, 1, mid) \in Seq(Keys) /\ Len(SubSeq(K, 1, mid)) = mid
        /\ SubSeq(K, mid + 2, M) \in Seq(Keys) /\ Len(SubSeq(K, mid + 2, M)) = n
        /\ SubSeq(C, 1, mid + 1) \in Seq(Nodes) /\ Len(SubSeq(C, 1, mid + 1)) = mid + 1
        /\ SubSeq(C, mid + 2, M + 1) \in Seq(Nodes) /\ Len(SubSeq(C, mid + 2, M + 1)) = n + 1
        /\ K[mid + 1] \in Keys
        /\ GluedKeys(K, SubSeq(K, 1, mid), mid, K[mid + 1], SubSeq(K, mid + 2, M), n)
        /\ GluedChildren(C, SubSeq(C, 1, mid + 1), mid + 1, SubSeq(C, mid + 2, M + 1), n + 1)
    <3>1. Pieces(K, C, M, mid, n)
      BY <1>2, <2>1, <2>2, <2>3, SplitPieces
    <3>2. QED
      BY <3>1 DEF Pieces
  <2>5. QED
    BY <1>5, <2>4
<1>7. left = InnerNode(l, A, D) /\ right = InnerNode(l, B, E)
  BY <1>1, <1>5 DEF SplitWay
<1>8. /\ left.slotkey = A /\ left.childid = D /\ right.slotkey = B /\ right.childid = E
  BY <1>7, GivenFields
<1>9. PICK K2, C2 : K2 = InsertAt(K, s + 1, newkey) /\ C2 = InsertAt(C, s + 2, newchild)
  OBVIOUS
<1>10. s + 1 \in 1 .. Len(K) + 1 /\ s + 2 \in 1 .. Len(C) + 1
       /\ s + 1 \in 1 .. M + 1 /\ s + 2 \in 1 .. M + 1 + 1
  BY <1>1, <1>4 DEF FullNode
<1>11. /\ K2 \in Seq(Keys) /\ C2 \in Seq(Nodes)
       /\ Inserted(K2, K, s + 1, newkey) /\ Inserted(C2, C, s + 2, newchild)
  BY <1>9, <1>10, InsertAtType, InsertAtElement DEF FullNode
<1>12. PutIn(K2, K, M, s + 1, newkey) /\ PutIn(C2, C, M + 1, s + 2, newchild)
  <2>1. M = Len(K) /\ M + 1 = Len(C) /\ M + 1 \in Nat
    BY <1>1, <1>2 DEF FullNode
  <2>2. QED
    BY <1>2, <1>10, <1>11, <2>1, InsertedPut
<1>13. M + 1 = mid + 1 + (n + 1) /\ M = mid + 1 + n /\ mid + 1 \in Nat /\ n + 1 \in Nat
  BY <1>3, <1>4
<1>14. CASE s = mid + 1 /\ mid < n
  <2>1. /\ L = [left EXCEPT !.slotkey = Append(@, K[mid + 1]),
                            !.childid = Append(@, right.childid[1])]
        /\ R = [right EXCEPT !.childid[1] = newchild]
        /\ sep = newkey
    BY <1>3, <1>6, <1>8, <1>14 DEF SplitWay
  <2>2. PICK LK, LC, RC : /\ LK = Append(A, K[mid + 1]) /\ LC = Append(D, E[1])
                          /\ RC = [E EXCEPT ![1] = newchild]
    OBVIOUS
  <2>3. L = InnerNode(l, LK, LC) /\ R = InnerNode(l, B, RC)
    <3>1. L = [InnerNode(l, A, D) EXCEPT !.slotkey = LK, !.childid = LC]
      BY <1>7, <1>8, <2>1, <2>2
    <3>2. R = [InnerNode(l, B, E) EXCEPT !.childid[1] = newchild]
      BY <1>7, <2>1
    <3>3. [InnerNode(l, A, D) EXCEPT !.slotkey = LK, !.childid = LC] = InnerNode(l, LK, LC)
      <4>1. [InnerNode(l, A, D) EXCEPT !.slotkey = LK] = InnerNode(l, LK, D)
        BY DEF InnerNode
      <4>2. [InnerNode(l, LK, D) EXCEPT !.childid = LC] = InnerNode(l, LK, LC)
        BY DEF InnerNode
      <4>3. [InnerNode(l, A, D) EXCEPT !.slotkey = LK, !.childid = LC]
                 = [[InnerNode(l, A, D) EXCEPT !.slotkey = LK] EXCEPT !.childid = LC]
        OBVIOUS
      <4>4. QED
        BY <4>1, <4>2, <4>3
    <3>4. [InnerNode(l, B, E) EXCEPT !.childid[1] = newchild]
            = InnerNode(l, B, [E EXCEPT ![1] = newchild])
      BY DEF InnerNode
    <3>5. QED
      BY <2>2, <3>1, <3>2, <3>3, <3>4
  <2>4. 1 \in 1 .. Len(E)
    BY <1>3, <1>6
  <2>5. E[1] \in Nodes
    BY <1>6, <2>4
  <2>6. /\ LK \in Seq(Keys) /\ Len(LK) = mid + 1
        /\ \A i \in 1 .. mid : LK[i] = A[i]
        /\ LK[mid + 1] = K[mid + 1]
    BY <1>3, <1>6, <2>2
  <2>7. /\ LC \in Seq(Nodes) /\ Len(LC) = mid + 1 + 1
        /\ \A i \in 1 .. mid + 1 : LC[i] = D[i]
        /\ LC[mid + 1 + 1] = E[1]
    BY <1>3, <1>6, <2>2, <2>5
  <2>8. /\ RC \in Seq(Nodes) /\ Len(RC) = n + 1 /\ RC[1] = newchild
        /\ \A i \in 2 .. n + 1 : RC[i] = E[i]
    BY <1>6, <2>2, <2>4
  <2>9. s + 1 = mid + 2 /\ s + 2 = mid + 1 + 2 /\ n + 1 >= 1
    BY <1>3, <1>14
  <2>10. GluedKeys(K2, LK, mid + 1, newkey, B, n)
    <3>1. PutIn(K2, K, mid + 1 + n, mid + 2, newkey)
      BY <1>12, <1>13, <2>9
    <3>2. QED
      BY <1>3, <1>6, <2>6, <3>1, PutBetween
  <2>11. GluedChildren(C2, LC, mid + 1 + 1, RC, n + 1)
    <3>1. PutIn(C2, C, mid + 1 + (n + 1), mid + 1 + 2, newchild)
      BY <1>12, <1>13, <2>9
    <3>2. PICK a, b : a = mid + 1 /\ b = n + 1
      OBVIOUS
    <3>3. /\ a \in Nat /\ b \in Nat /\ b >= 1 /\ PutIn(C2, C, a + b, a + 2, newchild)
          /\ GluedChildren(C, D, a, E, b) /\ LC[a + 1] = E[1] /\ RC[1] = newchild
      BY <1>6, <1>13, <2>7, <2>8, <2>9, <3>1, <3>2
    <3>4. (\A i \in 1 .. a : LC[i] = D[i]) /\ \A i \in 2 .. b : RC[i] = E[i]
      BY <2>7, <2>8, <3>2
    <3>5. GluedChildren(C2, LC, a + 1, RC, b)
      BY <3>3, <3>4, PutBetweenChild
    <3>6. QED
      BY <3>2, <3>5
  <2>12. mid + 1 + n = M /\ mid + 1 >= H /\ n >= H /\ mid + 1 \in Nat
    BY <1>3, <1>4, <1>14
  <2>13. SplitUp(K, C, s, K2, C2, LK, LC, B, RC, mid + 1, n, sep)
    BY <1>1, <1>3, <1>6, <1>12, <2>1, <2>6, <2>7, <2>8, <2>10, <2>11, <2>12 DEF SplitUp
  <2>14. QED
    BY <1>11, <2>3, <2>13
<1>15. CASE ~(s = mid + 1 /\ mid < n) /\ s >= mid + 1
  <2>1. L = left /\ R = addChild(right, s - (mid + 1)) /\ sep = K[mid + 1]
    <3>1. ~(s < mid + 1)
      BY <1>3, <1>4, <1>15
    <3>2. QED
      BY <1>6, <1>8, <1>15, <3>1 DEF SplitWay
  <2>2. PICK t : t = s - (mid + 1)
    OBVIOUS
  <2>3. t \in 0 .. Len(B) /\ t \in Nat /\ t + 1 \in 1 .. n + 1 /\ t + 2 \in 1 .. n + 1 + 1
        /\ Len(E) = Len(B) + 1
    <3>1. s = mid + 1 + t /\ t \in Nat
      BY <1>3, <1>4, <1>15, <2>2
    <3>2. t <= n
      BY <1>3, <1>4, <3>1
    <3>3. t \in 0 .. n /\ t + 1 \in 1 .. n + 1 /\ t + 2 \in 1 .. n + 1 + 1
      BY <1>3, <3>1, <3>2
    <3>4. QED
      BY <1>6, <3>1, <3>3
  <2>4. PICK RK \in Seq(Keys), RC \in Seq(Nodes) :
           /\ addChild(InnerNode(l, B, E), t) = InnerNode(l, RK, RC)
           /\ Inserted(RK, B, t + 1, newkey) /\ Inserted(RC, E, t + 2, newchild)
    BY <1>6, <2>3, AddedChild DEF FullNode
  <2>5. PutIn(RK, B, n, t + 1, newkey) /\ Len(RK) = n + 1
    BY <1>3, <1>6, <2>3, <2>4, InsertedPut
  <2>6. PutIn(RC, E, n + 1, t + 2, newchild) /\ Len(RC) = n + 1 + 1
    BY <1>6, <1>13, <2>3, <2>4, InsertedPut
  <2>7. s + 1 = mid + 1 + (t + 1) /\ s + 2 = mid + 1 + (t + 2)
    <3>1. s = mid + 1 + t
      BY <1>3, <1>4, <1>15, <2>2
    <3>2. mid \in Nat /\ t \in Nat
      BY <1>3, <2>3
    <3>3. QED
      BY <3>1, <3>2
  <2>8. GluedKeys(K2, A, mid, sep, RK, n + 1)
    <3>1. PutIn(K2, K, mid + 1 + n, mid + 1 + (t + 1), newkey)
      BY <1>12, <1>13, <2>7
    <3>2. QED
      BY <1>3, <1>6, <2>1, <2>3, <2>5, <3>1, PutSecond
  <2>9. GluedChildren(C2, D, mid + 1, RC, n + 1 + 1)
    <3>1. PutIn(C2, C, mid + 1 + (n + 1), mid + 1 + (t + 2), newchild)
      BY <1>12, <1>13, <2>7
    <3>2. QED
      BY <1>6, <1>13, <2>3, <2>6, <3>1, PutSecondChild
  <2>10. mid + (n + 1) = M /\ mid >= H /\ n + 1 >= H /\ n + 1 \in Nat
    BY <1>3, <1>4, <1>15
  <2>11. SplitUp(K, C, s, K2, C2, A, D, RK, RC, mid, n + 1, sep)
    BY <1>1, <1>3, <1>6, <1>12, <2>1, <2>4, <2>5, <2>6, <2>8, <2>9, <2>10 DEF SplitUp
  <2>12. L = InnerNode(l, A, D) /\ R = InnerNode(l, RK, RC)
    BY <1>7, <2>1, <2>2, <2>4
  <2>13. QED
    BY <1>11, <2>11, <2>12
<1>16. CASE s < mid + 1
  <2>1. L = addChild(left, s) /\ R = right /\ sep = K[mid + 1]
    <3>1. ~(s >= mid + 1) /\ s # mid + 1
      BY <1>3, <1>4, <1>16
    <3>2. QED
      BY <1>16, <3>1 DEF SplitWay
  <2>2. s \in 0 .. Len(A) /\ s + 1 \in 1 .. mid + 1 /\ s + 2 \in 1 .. mid + 1 + 1
        /\ Len(D) = Len(A) + 1
    BY <1>3, <1>4, <1>6, <1>16
  <2>3. PICK LK \in Seq(Keys), LC \in Seq(Nodes) :
           /\ addChild(InnerNode(l, A, D), s) = InnerNode(l, LK, LC)
           /\ Inserted(LK, A, s + 1, newkey) /\ Inserted(LC, D, s + 2, newchild)
    BY <1>6, <2>2, AddedChild DEF FullNode
  <2>4. PutIn(LK, A, mid, s + 1, newkey) /\ Len(LK) = mid + 1
    BY <1>3, <1>6, <2>2, <2>3, InsertedPut
  <2>5. PutIn(LC, D, mid + 1, s + 2, newchild) /\ Len(LC) = mid + 1 + 1
    BY <1>6, <1>13, <2>2, <2>3, InsertedPut
  <2>6. GluedKeys(K2, LK, mid + 1, sep, B, n)
    <3>1. PutIn(K2, K, mid + 1 + n, s + 1, newkey)
      BY <1>12, <1>13
    <3>2. QED
      BY <1>3, <1>6, <2>1, <2>2, <2>4, <3>1, PutFirst
  <2>7. GluedChildren(C2, LC, mid + 1 + 1, E, n + 1)
    <3>1. PutIn(C2, C, mid + 1 + (n + 1), s + 2, newchild)
      BY <1>12, <1>13
    <3>2. QED
      BY <1>6, <1>13, <2>2, <2>5, <3>1, PutFirstChild
  <2>8. mid + 1 + n = M /\ mid + 1 >= H /\ n >= H /\ mid + 1 \in Nat
    BY <1>3, <1>4, <1>16
  <2>9. SplitUp(K, C, s, K2, C2, LK, LC, B, E, mid + 1, n, sep)
    BY <1>1, <1>3, <1>6, <1>12, <2>1, <2>3, <2>4, <2>5, <2>6, <2>7, <2>8 DEF SplitUp
  <2>10. L = InnerNode(l, LK, LC) /\ R = InnerNode(l, B, E)
    BY <1>7, <2>1, <2>3
  <2>11. QED
    BY <1>11, <2>9, <2>10
<1>17. QED
  BY <1>3, <1>4, <1>14, <1>15, <1>16

\* What the split of the current inner node leaves.
InnerSplit(K2, C2, LK, LC, RK, RC, m, n) ==
  /\ K2 \in Seq(Keys) /\ C2 \in Seq(Nodes)
  /\ heap'[cur] = InnerNode(heap[cur].level, LK, LC)
  /\ heap'[fresh] = InnerNode(heap[cur].level, RK, RC)
  /\ Inserted(C2, heap[cur].childid, top.slot + 2, newchild)
  /\ SplitUp(heap[cur].slotkey, heap[cur].childid, top.slot, K2, C2, LK, LC, RK, RC, m, n, newkey')

\* split_inner_node writes the halves.
LEMMA SplitInnerPut ==
  ASSUME ShapeInv, SplitInner
  PROVE  \E L, R : /\ heap' = put(put(heap, cur, L), fresh, R)
                   /\ \E left, right :
                        SplitWay(heap[cur].slotkey, heap[cur].childid, heap[cur].level, top.slot,
                                 splitMid(innerslotmax, top.slot), left, right, L, R, newkey')
<1>1. pc = "link" /\ stack # <<>>
  BY DEF SplitInner
<1>2. heap[cur] \in InnerNodes
  BY <1>1, AtInner
<1>3. PICK K, C, l, s, mid, old : /\ K = heap[cur].slotkey /\ C = heap[cur].childid
                        /\ l = heap[cur].level /\ s = top.slot /\ old = heap[cur]
                        /\ mid = splitMid(innerslotmax, s)
  OBVIOUS
<1>4. old = InnerNode(l, K, C) /\ old.slotkey = K /\ old.childid = C
  BY <1>2, <1>3, InnerFields
<1>5. PICK left, right :
        /\ left = [old EXCEPT !.slotkey = SubSeq(@, 1, mid), !.childid = SubSeq(@, 1, mid + 1)]
        /\ right = [old EXCEPT !.slotkey = SubSeq(@, mid + 2, innerslotmax),
                               !.childid = SubSeq(@, mid + 2, innerslotmax + 1)]
  OBVIOUS
<1>6. ASSUME NEW A, NEW D
      PROVE  [InnerNode(l, K, C) EXCEPT !.slotkey = A, !.childid = D] = InnerNode(l, A, D)
  <2>1. [InnerNode(l, K, C) EXCEPT !.slotkey = A] = InnerNode(l, A, C)
    BY DEF InnerNode
  <2>2. [InnerNode(l, A, C) EXCEPT !.childid = D] = InnerNode(l, A, D)
    BY DEF InnerNode
  <2>3. [InnerNode(l, K, C) EXCEPT !.slotkey = A, !.childid = D]
             = [[InnerNode(l, K, C) EXCEPT !.slotkey = A] EXCEPT !.childid = D]
    OBVIOUS
  <2>4. QED
    BY <2>1, <2>2, <2>3
<1>7. left = InnerNode(l, SubSeq(K, 1, mid), SubSeq(C, 1, mid + 1))
  <2>1. PICK A, D : A = SubSeq(K, 1, mid) /\ D = SubSeq(C, 1, mid + 1)
    OBVIOUS
  <2>2. left = [InnerNode(l, K, C) EXCEPT !.slotkey = A, !.childid = D]
    BY <1>4, <1>5, <2>1
  <2>3. QED
    BY <1>6, <2>1, <2>2
<1>8. right = InnerNode(l, SubSeq(K, mid + 2, innerslotmax), SubSeq(C, mid + 2, innerslotmax + 1))
  <2>1. PICK A, D : A = SubSeq(K, mid + 2, innerslotmax) /\ D = SubSeq(C, mid + 2, innerslotmax + 1)
    OBVIOUS
  <2>2. right = [InnerNode(l, K, C) EXCEPT !.slotkey = A, !.childid = D]
    BY <1>4, <1>5, <2>1
  <2>3. QED
    BY <1>6, <2>1, <2>2
<1>9. PICK between : between = (s = mid + 1 /\ mid < Len(right.slotkey))
  OBVIOUS
<1>10. \/ /\ between
          /\ heap' = put(put(heap, cur, [left EXCEPT !.slotkey = Append(@, K[mid + 1]),
                                                     !.childid = Append(@, right.childid[1])]),
                         fresh, [right EXCEPT !.childid[1] = newchild])
          /\ newkey' = newkey
       \/ /\ ~between /\ s >= mid + 1
          /\ heap' = put(put(heap, cur, left), fresh, addChild(right, s - (mid + 1)))
          /\ newkey' = K[mid + 1]
       \/ /\ s < mid + 1
          /\ heap' = put(put(heap, cur, addChild(left, s)), fresh, right)
          /\ newkey' = K[mid + 1]
  BY <1>3, <1>5, <1>9 DEF SplitInner
<1>11. CASE /\ between
            /\ heap' = put(put(heap, cur, [left EXCEPT !.slotkey = Append(@, K[mid + 1]),
                                                       !.childid = Append(@, right.childid[1])]),
                           fresh, [right EXCEPT !.childid[1] = newchild])
            /\ newkey' = newkey
  <2>1. PICK L, R : /\ L = [left EXCEPT !.slotkey = Append(@, K[mid + 1]),
                                        !.childid = Append(@, right.childid[1])]
                    /\ R = [right EXCEPT !.childid[1] = newchild]
    OBVIOUS
  <2>2. heap' = put(put(heap, cur, L), fresh, R)
    BY <1>11, <2>1
  <2>3. SplitWay(K, C, l, s, mid, left, right, L, R, newkey')
    BY <1>7, <1>8, <1>9, <1>11, <2>1 DEF SplitWay
  <2>4. QED
    BY <1>3, <2>2, <2>3
<1>12. CASE /\ ~between /\ s >= mid + 1
            /\ heap' = put(put(heap, cur, left), fresh, addChild(right, s - (mid + 1)))
            /\ newkey' = K[mid + 1]
  <2>1. PICK R : R = addChild(right, s - (mid + 1))
    OBVIOUS
  <2>2. heap' = put(put(heap, cur, left), fresh, R)
    BY <1>12, <2>1
  <2>3. SplitWay(K, C, l, s, mid, left, right, left, R, newkey')
    BY <1>7, <1>8, <1>9, <1>12, <2>1 DEF SplitWay
  <2>4. QED
    BY <1>3, <2>2, <2>3
<1>13. CASE /\ s < mid + 1
            /\ heap' = put(put(heap, cur, addChild(left, s)), fresh, right)
            /\ newkey' = K[mid + 1]
  <2>1. PICK L : L = addChild(left, s)
    OBVIOUS
  <2>2. heap' = put(put(heap, cur, L), fresh, right)
    BY <1>13, <2>1
  <2>3. SplitWay(K, C, l, s, mid, left, right, L, right, newkey')
    BY <1>7, <1>8, <1>13, <2>1 DEF SplitWay
  <2>4. QED
    BY <1>3, <2>2, <2>3
<1>14. QED
  BY <1>10, <1>11, <1>12, <1>13

\* The halves of a split inner node.
LEMMA SplitInnerHeap ==
  ASSUME ShapeInv, SplitInner
  PROVE  /\ \E K2, C2, LK, LC, RK, RC, m, n : InnerSplit(K2, C2, LK, LC, RK, RC, m, n)
         /\ HeapTyped(heap') /\ DOMAIN heap' = DOMAIN heap \cup {fresh}
         /\ fresh \in Nodes /\ fresh \notin DOMAIN heap /\ fresh # Null /\ newchild' = fresh
         /\ \A n \in DOMAIN heap : n # cur => heap'[n] = heap[n]
         /\ \A n \in DOMAIN heap : heap'[n].level = heap[n].level
         /\ heap'[fresh].level = heap[cur].level
         /\ Leaves' = Leaves /\ Inner' = Inner \cup {fresh} /\ gone' = Null
         /\ Live' = DOMAIN heap \cup {fresh} /\ LiveInner' = Inner \cup {fresh}
         /\ LiveLeaves' = Leaves /\ ~fixmerge'
<1>1. /\ pc = "link" /\ stack # <<>> /\ newchild # Null /\ isfull(cur) /\ canAllocate
      /\ fixmerge' = fixmerge /\ newchild' = fresh
  BY DEF SplitInner, result
<1>2. PICK K, C, l, s, mid : /\ K = heap[cur].slotkey /\ C = heap[cur].childid
                        /\ l = heap[cur].level /\ s = top.slot
                        /\ mid = splitMid(innerslotmax, s)
  OBVIOUS
<1>3. /\ TypeOK /\ cur \in DOMAIN heap /\ cur \in Nodes
      /\ heap[cur] \in InnerNodes /\ K \in Seq(Keys) /\ C \in Seq(Nodes)
      /\ l \in Nat /\ l >= 1 /\ Len(K) \in Nat /\ Len(C) = Len(K) + 1
      /\ slotuse(cur) = Len(K) /\ Len(K) <= innerslotmax /\ ~isleafnode(cur)
      /\ s \in 0 .. Len(K)
  BY <1>1, <1>2, AtInner
<1>4. /\ ~fixmerge /\ newkey \in Keys /\ newchild \in Nodes
  BY <1>1, RisingNode
<1>5. FullNode(l, K, C) /\ s \in 0 .. innerslotmax
  BY <1>1, <1>3 DEF FullNode, isfull
<1>6. PICK L, R, left, right :
        /\ heap' = put(put(heap, cur, L), fresh, R)
        /\ SplitWay(K, C, l, s, mid, left, right, L, R, newkey')
  BY <1>2, SplitInnerPut
<1>7. PICK sep : sep = newkey'
  OBVIOUS
<1>8. PICK K2, C2, LK, LC, RK, RC, m, n :
        /\ K2 \in Seq(Keys) /\ C2 \in Seq(Nodes)
        /\ L = InnerNode(l, LK, LC) /\ R = InnerNode(l, RK, RC)
        /\ Inserted(C2, C, s + 2, newchild)
        /\ SplitUp(K, C, s, K2, C2, LK, LC, RK, RC, m, n, sep)
  BY <1>2, <1>4, <1>5, <1>6, <1>7, SplitNode
<1>9. fresh \in Nodes /\ fresh \notin DOMAIN heap /\ fresh # Null
  BY <1>1, FreshNode
<1>10. PICK h1 : h1 = put(heap, cur, L)
  OBVIOUS
<1>11. Placed(h1, heap, cur, L)
  BY <1>10, PutNode
<1>12. Placed(heap', h1, fresh, R)
  <2>1. PICK h2 : h2 = put(h1, fresh, R)
    OBVIOUS
  <2>2. Placed(h2, h1, fresh, R)
    BY <2>1, PutNode
  <2>3. QED
    BY <1>6, <1>10, <2>1, <2>2
<1>13. LK \in Seq(Keys) /\ LC \in Seq(Nodes) /\ RK \in Seq(Keys) /\ RC \in Seq(Nodes)
  BY <1>8 DEF SplitUp
<1>14. L \in InnerNodes /\ R \in InnerNodes
  <2>1. l \in Nat \ {0}
    BY <1>3
  <2>2. QED
    BY <1>8, <1>13, <2>1, NodeRecords
<1>15. HeapTyped(h1)
  BY <1>3, <1>11, <1>14, HeapNow, PlacedTyped DEF IsNode
<1>16. HeapTyped(heap')
  BY <1>9, <1>12, <1>14, <1>15, PlacedTyped DEF IsNode
<1>17. /\ DOMAIN heap' = DOMAIN heap \cup {fresh} /\ heap'[fresh] = R /\ heap'[cur] = L
       /\ \A x \in DOMAIN heap : x # cur => heap'[x] = heap[x]
  <2>1. DOMAIN h1 = DOMAIN heap /\ h1[cur] = L /\ \A x \in DOMAIN heap : x # cur => h1[x] = heap[x]
    BY <1>3, <1>11 DEF Placed
  <2>2. /\ DOMAIN heap' = DOMAIN h1 \cup {fresh} /\ heap'[fresh] = R
        /\ \A x \in DOMAIN h1 : x # fresh => heap'[x] = h1[x]
    BY <1>12 DEF Placed
  <2>3. \A x \in DOMAIN heap : x # fresh
    BY <1>9
  <2>4. QED
    BY <1>3, <2>1, <2>2, <2>3
<1>18. L.level = l /\ R.level = l
  BY <1>8, GivenFields
<1>19. \A x \in DOMAIN heap : heap'[x].level = heap[x].level
  BY <1>2, <1>17, <1>18
<1>20. Leaves' = Leaves /\ Inner' = Inner \cup {fresh}
  <2>1. Leaves' = Leaves
    BY <1>3, <1>9, <1>17, <1>18, <1>19 DEF Leaves, isleafnode
  <2>2. fresh \notin Leaves
    BY <1>9 DEF Leaves
  <2>3. QED
    BY <1>17, <2>1, <2>2 DEF Inner
<1>21. gone' = Null
  BY <1>1, <1>4 DEF gone
<1>22. Null \notin DOMAIN heap'
  BY <1>3, <1>9, <1>17, NodeKinds
<1>23. Live' = DOMAIN heap' /\ LiveInner' = Inner' /\ LiveLeaves' = Leaves'
  BY <1>21, <1>22 DEF Live, LiveInner, LiveLeaves, Leaves, Inner
<1>24. InnerSplit(K2, C2, LK, LC, RK, RC, m, n)
  BY <1>2, <1>7, <1>8, <1>17 DEF InnerSplit
<1>25. heap'[fresh].level = heap[cur].level
  BY <1>2, <1>17, <1>18
<1>26. QED
  BY <1>1, <1>4, <1>9, <1>16, <1>17, <1>19, <1>20, <1>21, <1>23, <1>24, <1>25

\* A node with given keys and children.
LEMMA GivenFilled ==
  ASSUME NEW n, NEW l, NEW K, NEW C, heap'[n] = InnerNode(l, K, C),
         Len(K) \in Nat, Len(C) = Len(K) + 1, Len(K) <= innerslotmax, least(n)' <= Len(K),
         \A c \in Elements(C) : heap'[c].level + 1 = l
  PROVE  InnerFilled(n)'
<1>1. heap'[n].level = l /\ heap'[n].slotkey = K /\ heap'[n].childid = C
  BY GivenFields
<1>2. least(n)' \in Nat
  BY Half DEF least
<1>3. Len(K) \in least(n)' .. innerslotmax
  BY <1>2, Half
<1>4. \A i \in 1 .. Len(C) : heap'[C[i]].level + 1 = l
  BY DEF Elements
<1>5. QED
  BY <1>1, <1>3, <1>4 DEF InnerFilled, Slots

\* Two sequences of children, one after the other.
LEMMA GluedChained ==
  ASSUME NEW C, NEW A, NEW B, NEW a, NEW b, Len(C) = a + b, Len(A) = a, Len(B) = b,
         GluedChildren(C, A, a, B, b)
  PROVE  Chained(C, A, B)
  BY DEF GluedChildren, Chained

\* The children of the halves.
LEMMA SplitChildren ==
  ASSUME ShapeInv, SplitInner, NEW K2, NEW C2, NEW LK, NEW LC, NEW RK, NEW RC, NEW m, NEW n,
         InnerSplit(K2, C2, LK, LC, RK, RC, m, n)
  PROVE  /\ m \in Nat /\ n \in Nat /\ m <= innerslotmax /\ n <= innerslotmax
         /\ m >= innerslotmax \div 2 /\ n >= innerslotmax \div 2
         /\ Len(LK) = m /\ Len(LC) = m + 1 /\ Len(RK) = n /\ Len(RC) = n + 1
         /\ LK \in Seq(Keys) /\ LC \in Seq(Nodes) /\ RK \in Seq(Keys) /\ RC \in Seq(Nodes)
         /\ newkey' \in Keys
         /\ Elements(LC) \cup Elements(RC) = Elements(heap[cur].childid) \cup {newchild}
         /\ Elements(LC) \cap Elements(RC) = {} /\ Distinct(LC) /\ Distinct(RC)
         /\ newchild \notin Elements(heap[cur].childid)
<1>1. /\ pc = "link" /\ stack # <<>> /\ newchild # Null /\ isfull(cur)
  BY DEF SplitInner
<1>2. PICK K, C, s, sep : K = heap[cur].slotkey /\ C = heap[cur].childid /\ s = top.slot /\ sep = newkey'
  OBVIOUS
<1>3. /\ TypeOK /\ LinkedOnce /\ cur \in LiveInner
      /\ K \in Seq(Keys) /\ C \in Seq(Nodes)
      /\ Len(K) \in Nat /\ Len(C) = Len(K) + 1 /\ slotuse(cur) = Len(K) /\ ~isleafnode(cur)
      /\ s \in 0 .. Len(K)
  BY <1>1, <1>2, AtInner
<1>4. Len(K) = innerslotmax /\ newchild \in Nodes
  BY <1>1, <1>3, RisingNode DEF isfull
<1>5. /\ SplitUp(K, C, s, K2, C2, LK, LC, RK, RC, m, n, sep)
      /\ Inserted(C2, C, s + 2, newchild) /\ C2 \in Seq(Nodes)
  BY <1>2 DEF InnerSplit
<1>6. /\ m \in Nat /\ n \in Nat /\ m + n = innerslotmax
      /\ m >= innerslotmax \div 2 /\ n >= innerslotmax \div 2
      /\ LK \in Seq(Keys) /\ LC \in Seq(Nodes) /\ RK \in Seq(Keys) /\ RC \in Seq(Nodes)
      /\ Len(LK) = m /\ Len(LC) = m + 1 /\ Len(RK) = n /\ Len(RC) = n + 1
      /\ sep \in Keys
      /\ GluedChildren(C2, LC, m + 1, RC, n + 1)
  BY <1>5 DEF SplitUp
<1>7. m <= innerslotmax /\ n <= innerslotmax
  BY <1>6, Half
<1>8. /\ Distinct(C) /\ Elements(C) \subseteq DOMAIN heap \ {root, newchild}
  BY <1>2, <1>3, OwnChildren
<1>9. newchild \notin Elements(C)
  BY <1>8
<1>10. s + 2 \in 1 .. Len(C) + 1
  BY <1>3
<1>11. Elements(C2) = Elements(C) \cup {newchild} /\ Distinct(C2)
  BY <1>3, <1>5, <1>8, <1>9, <1>10, InsertedElements
<1>12. Len(C2) = Len(C) + 1
  BY <1>5 DEF Inserted
<1>13. Chained(C2, LC, RC)
  <2>1. PICK a, b : a = m + 1 /\ b = n + 1
    OBVIOUS
  <2>2. Len(C2) = a + b
    <3>1. PICK M : M = innerslotmax
      OBVIOUS
    <3>2. M \in Nat /\ m + n = M /\ Len(C2) = M + 1 + 1
      BY <1>3, <1>4, <1>6, <1>12, <3>1, Half
    <3>3. M + 1 + 1 = (m + 1) + (n + 1)
      BY <1>6, <3>2
    <3>4. QED
      BY <2>1, <3>2, <3>3
  <2>3. QED
    BY <1>6, <2>1, <2>2, GluedChained
<1>14. /\ Elements(C2) = Elements(LC) \cup Elements(RC)
       /\ Distinct(C2) <=> Distinct(LC) /\ Distinct(RC) /\ Elements(LC) \cap Elements(RC) = {}
  BY <1>5, <1>6, <1>13, ChainedElements
<1>15. QED
  BY <1>2, <1>6, <1>7, <1>9, <1>11, <1>14

\* The children of the halves are linked once.
LEMMA SplitInnerLinks ==
  ASSUME ShapeInv, SplitInner
  PROVE  LinkedOnce'
<1>1. /\ pc = "link" /\ stack # <<>> /\ newchild # Null /\ root' = root
  BY DEF SplitInner
<1>2. /\ DOMAIN heap' = DOMAIN heap \cup {fresh} /\ fresh \notin DOMAIN heap
      /\ newchild' = fresh
      /\ \A n \in DOMAIN heap : n # cur => heap'[n] = heap[n]
      /\ LiveInner' = Inner \cup {fresh}
  BY SplitInnerHeap
<1>3. PICK K2, C2, LK, LC, RK, RC, m, n : InnerSplit(K2, C2, LK, LC, RK, RC, m, n)
  BY SplitInnerHeap
<1>4. /\ Elements(LC) \cup Elements(RC) = Elements(heap[cur].childid) \cup {newchild}
      /\ Elements(LC) \cap Elements(RC) = {} /\ Distinct(LC) /\ Distinct(RC)
  BY <1>3, SplitChildren
<1>5. heap'[cur].childid = LC /\ heap'[fresh].childid = RC
  BY <1>3, GivenFields DEF InnerSplit
<1>6. /\ TypeOK /\ LinkedOnce /\ cur \in LiveInner /\ cur \in Inner /\ cur \in DOMAIN heap
      /\ root \in DOMAIN heap
  BY <1>1, AtInner
<1>7. LiveInner = Inner /\ newchild \in DOMAIN heap \ {root}
  BY <1>1, RisingNode
<1>8. PICK C, T, T2, I, I2, M, N2, h2 :
        /\ C = heap[cur].childid /\ T = DOMAIN heap \ {root, newchild}
        /\ T2 = DOMAIN heap' \ {root', newchild'} /\ I = Inner /\ I2 = Inner \cup {fresh}
        /\ M = {cur, fresh} /\ N2 = Elements(C) \cup {newchild} /\ h2 = heap'
  OBVIOUS
<1>9. ChildrenOnce(I, heap, T) /\ Elements(C) \subseteq T
  BY <1>6, <1>7, <1>8, OwnChildren
<1>10. T2 = T \cup {newchild}
  BY <1>1, <1>2, <1>7, <1>8
<1>11. fresh \notin I /\ cur \in I /\ I \cap M = {cur} /\ I2 \cap M = {cur, fresh} /\ fresh # cur
  BY <1>2, <1>6, <1>8, NodeKinds
<1>12. ChildrenOnce(I2 \cap M, h2, N2)
  <2>1. \A p \in {cur, fresh} : Distinct(h2[p].childid)
    BY <1>4, <1>5, <1>8
  <2>2. \A p, q \in {cur, fresh} : p # q => Elements(h2[p].childid) \cap Elements(h2[q].childid) = {}
    BY <1>4, <1>5, <1>8
  <2>3. \A c : c \in N2 <=> \E p \in {cur, fresh} : c \in Elements(h2[p].childid)
    BY <1>4, <1>5, <1>8
  <2>4. QED
    BY <1>11, <2>1, <2>2, <2>3 DEF ChildrenOnce
<1>13. /\ I \ M = I2 \ M
       /\ \A p \in I \ M : h2[p].childid = heap[p].childid
  <2>1. \A p \in I : p \in DOMAIN heap
    BY <1>6, <1>8, NodeKinds
  <2>2. QED
    BY <1>2, <1>8, <2>1
<1>14. \A c \in N2 : c \notin T \/ \E p \in I \cap M : c \in Elements(heap[p].childid)
  BY <1>8, <1>11
<1>15. \A c : c \in T2 <=>
          (c \in N2 \/ (c \in T /\ ~\E p \in I \cap M : c \in Elements(heap[p].childid)))
  BY <1>8, <1>9, <1>10, <1>11
<1>16. Moved(I, heap, T, I2, h2, T2, M, N2)
  BY <1>9, <1>12, <1>13, <1>14, <1>15 DEF Moved
<1>17. ChildrenOnce(I2, h2, T2)
  BY <1>16, Relinked
<1>18. QED
  BY <1>2, <1>8, <1>17, LinkedForm

\* The split of an inner node keeps the shape.
LEMMA SplitInnerShape ==
  ASSUME ShapeInv, SplitInner
  PROVE  ShapeInv'
<1>1. /\ pc = "link" /\ stack # <<>> /\ newchild # Null /\ root' = root
      /\ stack' = Front(stack) /\ stats' = [stats EXCEPT !.innernodes = @ + 1]
      /\ UNCHANGED <<head, tail, pc, key, lastkey, fixmerge, stored>>
  BY DEF SplitInner, result
<1>2. /\ HeapTyped(heap') /\ DOMAIN heap' = DOMAIN heap \cup {fresh}
      /\ fresh \in Nodes /\ fresh \notin DOMAIN heap /\ fresh # Null /\ newchild' = fresh
      /\ \A n \in DOMAIN heap : n # cur => heap'[n] = heap[n]
      /\ \A n \in DOMAIN heap : heap'[n].level = heap[n].level
      /\ heap'[fresh].level = heap[cur].level
      /\ Leaves' = Leaves /\ Inner' = Inner \cup {fresh} /\ gone' = Null
      /\ Live' = DOMAIN heap \cup {fresh} /\ LiveInner' = Inner \cup {fresh}
      /\ LiveLeaves' = Leaves /\ ~fixmerge'
  BY SplitInnerHeap
<1>3. /\ TypeOK /\ Tree /\ StackLeadsDown /\ Counted /\ root # Null /\ root \in DOMAIN heap
      /\ cur \in DOMAIN heap /\ cur \in LiveInner /\ InnerFilled(cur) /\ LinkedOnce
      /\ heap[cur].level \in Nat /\ heap[root].level \in Nat
      /\ heap[cur].level + Len(stack) = heap[root].level + 1
      /\ Len(stack) \in Nat /\ Len(stack) >= 1 /\ cur \in Inner
      /\ (Len(stack) = 1 <=> cur = root)
  BY <1>1, AtInner
<1>4. /\ LiveInner = Inner /\ LiveLeaves = Leaves /\ ~fixmerge /\ newchild \in DOMAIN heap
      /\ heap[newchild].level + 1 = heap[cur].level
  BY <1>1, RisingNode
<1>5. \A n \in Inner : n # cur => n \in DOMAIN heap /\ heap'[n] = heap[n] /\ Alike(n)
  BY <1>2, <1>3, NodeKinds DEF Alike
<1>6. StackLeadsDown' /\ stack' \in Seq(Frames)
  <2>1. \A n \in LiveInner : heap[n].level > heap[cur].level => n # cur
    BY <1>3
  <2>2. \A n \in LiveInner : heap[n].level > heap[cur].level => Alike(n) /\ n \in Live'
    BY <1>2, <1>4, <1>5, <2>1
  <2>3. DOMAIN heap' \subseteq Nodes /\ pc' \notin {"insert", "erase"}
    BY <1>1, <1>2 DEF HeapTyped
  <2>4. QED
    BY <1>1, <1>3, <2>2, <2>3, UpStack
<1>7. PICK K2, C2, LK, LC, RK, RC, m, n : InnerSplit(K2, C2, LK, LC, RK, RC, m, n)
  BY SplitInnerHeap
<1>8. /\ m \in Nat /\ n \in Nat /\ m <= innerslotmax /\ n <= innerslotmax
      /\ m >= innerslotmax \div 2 /\ n >= innerslotmax \div 2
      /\ Len(LK) = m /\ Len(LC) = m + 1 /\ Len(RK) = n /\ Len(RC) = n + 1
      /\ newkey' \in Keys
      /\ Elements(LC) \cup Elements(RC) = Elements(heap[cur].childid) \cup {newchild}
  BY <1>7, SplitChildren
<1>9. Counted' /\ stats' \in Counters
  <2>1. CountersMoved(0, 1, 0)
    BY <1>1, <1>3, CountersMove, CountersType
  <2>2. stats.itemcount + 0 \in Nat
    <3>1. TypeOK
      BY <1>3
    <3>2. QED
      BY <3>1, CountersType, CountersGiven
  <2>3. Leaves' \cup Inner' = DOMAIN heap' /\ fresh \notin Inner
    BY <1>2, <1>3, NodeKinds
  <2>4. 1 \in {0, 1, 0 - 1} /\ 0 \in {0, 1, 0 - 1} /\ 1 # 0 /\ 1 # 0 - 1 /\ 0 # 0 - 1
    OBVIOUS
  <2>5. QED
    BY <1>2, <1>3, <2>1, <2>2, <2>3, <2>4, CountedNext
<1>10. TypeOK'
  <2>1. /\ root' \in DOMAIN heap' \cup {Null} /\ newchild' \in Pointers /\ newkey' \in Keys
    BY <1>1, <1>2, <1>3, <1>8, TypeNow
  <2>2. QED
    BY <1>1, <1>2, <1>3, <1>6, <1>9, <2>1, TypeNow, TypeNext
<1>11. rootSplit' <=> cur = root
  <2>1. stack' = <<>> <=> Len(stack) = 1
    BY <1>1, <1>3, StackEnds
  <2>2. QED
    BY <1>2, <1>3, <2>1 DEF rootSplit
<1>12. PICK H : H = innerslotmax \div 2
  OBVIOUS
<1>13. \A q : least(q)' <= H
  <2>1. H \in Nat /\ H >= 1
    BY <1>12, Half
  <2>2. \A q : least(q)' \in {1, H}
    BY <1>1, <1>12 DEF least
  <2>3. QED
    BY <2>1, <2>2
<1>14. \A c \in Elements(LC) \cup Elements(RC) : heap'[c].level + 1 = heap[cur].level
  <2>1. \A i \in Slots(cur) :
           heap[cur].childid[i] \in DOMAIN heap /\ heap[heap[cur].childid[i]].level + 1 = heap[cur].level
    BY <1>3, ChildNodes
  <2>2. \A c \in Elements(heap[cur].childid) : c \in DOMAIN heap /\ heap[c].level + 1 = heap[cur].level
    BY <2>1 DEF Elements, Slots
  <2>3. QED
    BY <1>2, <1>4, <1>8, <2>2
<1>15. PICK c, l : c = cur /\ l = heap[cur].level
  OBVIOUS
<1>16. heap'[c] = InnerNode(l, LK, LC) /\ heap'[fresh] = InnerNode(l, RK, RC)
  BY <1>7, <1>15 DEF InnerSplit
<1>17. InnerFilled(c)'
  <2>1. least(c)' <= Len(LK)
    <3>0. least(c)' \in Nat
      BY Half DEF least
    <3>1. least(c)' <= H /\ H <= m /\ H \in Nat
      BY <1>8, <1>12, <1>13, Half
    <3>2. QED
      BY <1>8, <3>0, <3>1
  <2>2. \A d \in Elements(LC) : heap'[d].level + 1 = l
    BY <1>14, <1>15
  <2>3. QED
    BY <1>8, <1>16, <2>1, <2>2, GivenFilled
<1>18. PICK r : r = fresh
  OBVIOUS
<1>19. InnerFilled(r)'
  <2>1. least(r)' <= Len(RK)
    <3>0. least(r)' \in Nat
      BY Half DEF least
    <3>1. least(r)' <= H /\ H <= n /\ H \in Nat
      BY <1>8, <1>12, <1>13, Half
    <3>2. QED
      BY <1>8, <3>0, <3>1
  <2>2. \A d \in Elements(RC) : heap'[d].level + 1 = l
    BY <1>14, <1>15
  <2>3. heap'[r] = InnerNode(l, RK, RC)
    BY <1>16, <1>18
  <2>4. QED
    BY <1>8, <2>1, <2>2, <2>3, GivenFilled
<1>20. Tree'
  <2>1. ASSUME NEW p \in LiveInner' \ {c, r}
        PROVE  p \in LiveInner /\ Alike(p) /\ least(p)' <= Len(heap[p].slotkey)
    <3>1. p \in LiveInner /\ Alike(p) /\ InnerFilled(p) /\ p # cur
      BY <1>2, <1>3, <1>4, <1>5, <1>15, <1>18 DEF Tree
    <3>2. least(p)' = IF p = root THEN 1 ELSE innerslotmax \div 2
      BY <1>1, <1>11, <3>1 DEF least
    <3>3. least(p) = IF p = root THEN 1 ELSE innerslotmax \div 2
      BY <1>1, LeastValues DEF rootSplit
    <3>4. QED
      BY <3>1, <3>2, <3>3, FilledSlots
  <2>2. ASSUME NEW p \in LiveLeaves' PROVE LeafFilled(p)'
    <3>1. p \in LiveLeaves /\ LeafFilled(p) /\ p \in DOMAIN heap /\ p # cur
      BY <1>2, <1>3, <1>4, NodeKinds DEF Tree
    <3>2. heap'[p] = heap[p]
      BY <1>2, <3>1
    <3>3. QED
      BY <1>1, <3>1, <3>2 DEF LeafFilled
  <2>3. \A p \in LiveInner' \cap {c, r} : InnerFilled(p)'
    BY <1>17, <1>19
  <2>4. \A p \in DOMAIN heap \cap DOMAIN heap' : heap'[p].level = heap[p].level
    BY <1>2
  <2>5. root' # Null /\ LinkedOnce'
    BY <1>1, <1>3, SplitInnerLinks
  <2>6. QED
    BY <1>3, <2>1, <2>2, <2>3, <2>4, <2>5, TreeMoved
<1>21. CallUnderWay'
  <2>1. heap'[fresh].level + Len(stack') = heap'[root].level
    <3>1. Len(stack') = Len(stack) - 1
      BY <1>1, <1>3, StackEnds
    <3>2. heap'[root].level = heap[root].level /\ heap'[fresh].level = heap[cur].level
      BY <1>2, <1>3
    <3>3. PICK a, b, d : a = heap[cur].level /\ b = heap[root].level /\ d = Len(stack)
      OBVIOUS
    <3>4. a \in Nat /\ b \in Nat /\ d \in Nat /\ a + d = b + 1
      BY <1>3, <3>3
    <3>5. a + (d - 1) = b
      BY <3>4
    <3>6. QED
      BY <3>1, <3>2, <3>3, <3>5
  <2>2. fresh \in DOMAIN heap' \ {root'}
    BY <1>1, <1>2, <1>3
  <2>3. key' \notin stored' /\ key' # Null
    BY <1>1 DEF ShapeInv, CallUnderWay
  <2>4. QED
    BY <1>1, <1>2, <1>3, <1>6, <1>8, <2>1, <2>2, <2>3 DEF CallUnderWay
<1>22. QED
  BY <1>9, <1>10, <1>20, <1>21 DEF ShapeInv

\* The new root.
LEMMA NewRootHeap ==
  ASSUME ShapeInv, FinishInsert, newchild # Null
  PROVE  /\ heap'[fresh] = InnerNode(heap[root].level + 1, <<newkey>>, <<root, newchild>>)
         /\ HeapTyped(heap') /\ DOMAIN heap' = DOMAIN heap \cup {fresh} /\ stack = <<>>
         /\ fresh \in Nodes /\ fresh \notin DOMAIN heap /\ fresh # Null /\ root' = fresh
         /\ \A n \in DOMAIN heap : heap'[n] = heap[n]
         /\ Leaves' = Leaves /\ Inner' = Inner \cup {fresh} /\ gone' = Null
         /\ LiveInner' = Inner \cup {fresh} /\ LiveLeaves' = Leaves
         /\ heap[newchild].level = heap[root].level
<1>1. /\ pc = "link" /\ stack = <<>> /\ canAllocate /\ root' = fresh
      /\ heap' = put(heap, fresh, InnerNode(heap[root].level + 1, <<newkey>>, <<root, newchild>>))
      /\ fixmerge' = FALSE
  BY DEF FinishInsert, return, InnerNode
<1>2. /\ newkey \in Keys /\ newchild \in DOMAIN heap \ {root} /\ newchild \in Nodes
      /\ heap[newchild].level \in Nat
      /\ heap[newchild].level + Len(stack) = heap[root].level
      /\ root # Null /\ root \in DOMAIN heap
  BY RisingNode
<1>3. TypeOK
  BY DEF ShapeInv
<1>4. heap[root].level \in Nat /\ root \in Nodes
  BY <1>2, <1>3, Levels, NodeKinds
<1>5. fresh \in Nodes /\ fresh \notin DOMAIN heap /\ fresh # Null
  BY <1>1, FreshNode
<1>6. PICK l, c : l = heap[root].level + 1 /\ c = InnerNode(l, <<newkey>>, <<root, newchild>>)
  OBVIOUS
<1>7. c \in InnerNodes /\ c.level = l
  <2>1. PICK K, C : K = <<newkey>> /\ C = <<root, newchild>>
    OBVIOUS
  <2>2. l \in Nat \ {0}
    BY <1>4, <1>6
  <2>3. K \in Seq(Keys) /\ C \in Seq(Nodes)
    BY <1>2, <1>4, <2>1
  <2>4. c = InnerNode(l, K, C)
    BY <1>6, <2>1
  <2>5. c \in InnerNodes
    BY <2>2, <2>3, <2>4, NodeRecords
  <2>6. c.level = l
    BY <2>4, GivenFields
  <2>7. QED
    BY <2>5, <2>6
<1>8. Placed(heap', heap, fresh, c)
  <2>1. PICK h : h = put(heap, fresh, c)
    OBVIOUS
  <2>2. Placed(h, heap, fresh, c)
    BY <2>1, PutNode
  <2>3. QED
    BY <1>1, <1>6, <2>1, <2>2
<1>9. HeapTyped(heap')
  BY <1>3, <1>5, <1>7, <1>8, HeapNow, PlacedTyped DEF IsNode
<1>10. /\ DOMAIN heap' = DOMAIN heap \cup {fresh} /\ heap'[fresh] = c
       /\ \A n \in DOMAIN heap : heap'[n] = heap[n]
  BY <1>5, <1>8 DEF Placed
<1>11. Leaves' = Leaves
  <2>1. l # 0
    BY <1>4, <1>6
  <2>2. QED
    BY <1>5, <1>7, <1>10, <2>1 DEF Leaves, isleafnode
<1>12. Inner' = Inner \cup {fresh}
  <2>1. fresh \notin Leaves
    BY <1>5 DEF Leaves
  <2>2. QED
    BY <1>10, <1>11, <2>1 DEF Inner
<1>13. gone' = Null
  BY <1>1 DEF gone
<1>14. Null \notin DOMAIN heap'
  BY <1>3, <1>5, <1>10, NodeKinds
<1>15. LiveInner' = Inner' /\ LiveLeaves' = Leaves'
  BY <1>13, <1>14 DEF LiveInner, LiveLeaves, Leaves, Inner
<1>16. heap[newchild].level = heap[root].level
  <2>1. Len(stack) = 0
    BY <1>1
  <2>2. QED
    BY <1>2, <2>1
<1>17. QED
  BY <1>1, <1>5, <1>6, <1>9, <1>10, <1>11, <1>12, <1>13, <1>15, <1>16

\* A new root keeps the shape.
LEMMA NewRootShape ==
  ASSUME ShapeInv, FinishInsert, newchild # Null
  PROVE  ShapeInv'
<1>1. /\ pc = "link" /\ head' = head /\ tail' = tail /\ stored' = stored \cup {key}
      /\ stats' = [stats EXCEPT !.itemcount = @ + 1, !.innernodes = @ + 1]
      /\ pc' = "idle" /\ key' = Null /\ stack' = <<>> /\ newkey' = Null
      /\ newchild' = Null /\ lastkey' = Null /\ fixmerge' = FALSE
  BY DEF FinishInsert, return
<1>2. /\ heap'[fresh] = InnerNode(heap[root].level + 1, <<newkey>>, <<root, newchild>>)
      /\ HeapTyped(heap') /\ DOMAIN heap' = DOMAIN heap \cup {fresh} /\ stack = <<>>
      /\ fresh \in Nodes /\ fresh \notin DOMAIN heap /\ fresh # Null /\ root' = fresh
      /\ \A n \in DOMAIN heap : heap'[n] = heap[n]
      /\ Leaves' = Leaves /\ Inner' = Inner \cup {fresh} /\ gone' = Null
      /\ LiveInner' = Inner \cup {fresh} /\ LiveLeaves' = Leaves
      /\ heap[newchild].level = heap[root].level
  BY NewRootHeap
<1>3. TypeOK /\ Tree /\ LinkedOnce /\ Counted /\ key \in Keys
  <2>1. key # Null
    BY <1>1 DEF ShapeInv, CallUnderWay
  <2>2. QED
    BY <2>1, TypeNow DEF ShapeInv, Tree
<1>4. /\ LiveInner = Inner /\ LiveLeaves = Leaves /\ newchild \in DOMAIN heap \ {root}
      /\ root \in DOMAIN heap /\ newkey \in Keys
  BY RisingNode
<1>5. Counted' /\ stats' \in Counters
  <2>1. CountersMoved(0, 1, 1)
    BY <1>1, <1>3, CountersMove, CountersType
  <2>2. stats.itemcount + 1 \in Nat
    <3>1. TypeOK
      BY <1>3
    <3>2. QED
      BY <3>1, CountersType, CountersGiven
  <2>3. Leaves' \cup Inner' = DOMAIN heap' /\ fresh \notin Inner
    BY <1>2, <1>3, NodeKinds
  <2>4. 1 \in {0, 1, 0 - 1} /\ 0 \in {0, 1, 0 - 1} /\ 1 # 0 /\ 1 # 0 - 1 /\ 0 # 0 - 1
    OBVIOUS
  <2>5. QED
    BY <1>2, <1>3, <2>1, <2>2, <2>3, <2>4, CountedNext
<1>6. TypeOK'
  <2>1. stack' \in Seq(Frames) /\ stored' \subseteq Keys /\ root' \in DOMAIN heap' \cup {Null}
    BY <1>1, <1>2, <1>3, TypeNow
  <2>2. QED
    BY <1>1, <1>2, <1>3, <1>5, <2>1, TypeNow, TypeNext
<1>7. LinkedOnce'
  <2>1. PICK T, T2, I, I2, M, N2, h2 :
        /\ T = DOMAIN heap \ {root, newchild}
        /\ T2 = DOMAIN heap' \ {root', newchild'} /\ I = Inner /\ I2 = Inner \cup {fresh}
        /\ M = {fresh} /\ N2 = {root, newchild} /\ h2 = heap'
    OBVIOUS
  <2>2. ChildrenOnce(I, heap, T)
    BY <1>3, <1>4, <2>1, LinkedForm
  <2>3. fresh \notin I /\ I \cap M = {} /\ I2 \cap M = {fresh} /\ I \ M = I2 \ M
    BY <1>2, <1>3, <2>1, NodeKinds
  <2>4. PICK C : C = <<root, newchild>>
    OBVIOUS
  <2>5. h2[fresh].childid = C
    BY <1>2, <2>1, <2>4, GivenFields
  <2>6. Len(C) = 2 /\ C[1] = root /\ C[2] = newchild
    BY <2>4
  <2>7. Elements(C) = N2 /\ Distinct(C)
    <3>1. \A i \in 1 .. 2 : i = 1 \/ i = 2
      OBVIOUS
    <3>2. 1 \in 1 .. 2 /\ 2 \in 1 .. 2
      OBVIOUS
    <3>3. QED
      BY <1>4, <2>1, <2>6, <3>1, <3>2 DEF Elements, Distinct
  <2>8. ChildrenOnce(I2 \cap M, h2, N2)
    BY <2>3, <2>5, <2>7 DEF ChildrenOnce
  <2>9. \A p \in I \ M : h2[p].childid = heap[p].childid
    BY <1>2, <1>3, <2>1, NodeKinds
  <2>10. T2 = DOMAIN heap
    <3>1. Null \notin DOMAIN heap
      BY <1>3, NodeKinds
    <3>2. QED
      BY <1>1, <1>2, <2>1, <3>1
  <2>11. \A c : c \in T2 <=>
          (c \in N2 \/ (c \in T /\ ~\E p \in I \cap M : c \in Elements(heap[p].childid)))
    BY <1>4, <2>1, <2>3, <2>10
  <2>12. Moved(I, heap, T, I2, h2, T2, M, N2)
    BY <2>1, <2>2, <2>3, <2>8, <2>9, <2>11 DEF Moved
  <2>13. ChildrenOnce(I2, h2, T2)
    BY <2>12, Relinked
  <2>14. QED
    BY <1>2, <2>1, <2>13, LinkedForm
<1>8. ~rootSplit'
  BY <1>1 DEF rootSplit
<1>9. rootSplit
  BY <1>2 DEF rootSplit
<1>10. PICK r, l, C : r = fresh /\ l = heap[root].level + 1 /\ C = <<root, newchild>>
  OBVIOUS
<1>11. InnerFilled(r)'
  <2>1. least(r)' = 1
    BY <1>1, <1>2, <1>8, <1>10 DEF least
  <2>2. PICK K : K = <<newkey>>
    OBVIOUS
  <2>3. Len(K) = 1 /\ Len(C) = 2 /\ 1 <= innerslotmax
    BY <1>10, <2>2, Half
  <2>4. \A c \in Elements(C) : heap'[c].level + 1 = l
    <3>1. heap'[root].level + 1 = l /\ heap'[newchild].level + 1 = l
      BY <1>2, <1>4, <1>10
    <3>2. \A i \in 1 .. 2 : C[i] = root \/ C[i] = newchild
      BY <1>10
    <3>3. QED
      BY <2>3, <3>1, <3>2 DEF Elements
  <2>5. heap'[r] = InnerNode(l, K, C)
    BY <1>2, <1>10, <2>2
  <2>6. /\ Len(K) \in Nat /\ Len(C) = Len(K) + 1 /\ least(r)' <= Len(K)
        /\ Len(K) <= innerslotmax
    BY <2>1, <2>3
  <2>7. QED
    BY <2>4, <2>5, <2>6, GivenFilled
<1>12. Tree'
  <2>1. ASSUME NEW p \in LiveInner' \ {r}
        PROVE  p \in LiveInner /\ Alike(p) /\ least(p)' <= Len(heap[p].slotkey)
    <3>1. p \in LiveInner /\ InnerFilled(p) /\ p # fresh /\ p \in DOMAIN heap
      BY <1>2, <1>3, <1>4, <1>10, NodeKinds DEF Tree
    <3>2. Alike(p)
      BY <1>2, <3>1 DEF Alike
    <3>3. least(p)' = innerslotmax \div 2
      BY <1>1, <1>2, <3>1 DEF least
    <3>4. least(p) = innerslotmax \div 2
      BY <1>1, <1>9, LeastValues
    <3>5. QED
      BY <3>1, <3>2, <3>3, <3>4, FilledSlots
  <2>2. ASSUME NEW p \in LiveLeaves' PROVE LeafFilled(p)'
    <3>1. p \in LiveLeaves /\ LeafFilled(p) /\ p \in DOMAIN heap
      BY <1>2, <1>3, <1>4, NodeKinds DEF Tree
    <3>2. heap'[p] = heap[p]
      BY <1>2, <3>1
    <3>3. QED
      BY <1>1, <3>1, <3>2 DEF LeafFilled
  <2>3. \A p \in LiveInner' \cap {r} : InnerFilled(p)'
    BY <1>11
  <2>4. \A p \in DOMAIN heap \cap DOMAIN heap' : heap'[p].level = heap[p].level
    BY <1>2
  <2>5. root' # Null
    BY <1>2
  <2>6. QED
    BY <1>3, <1>7, <2>1, <2>2, <2>3, <2>4, <2>5, TreeMoved
<1>13. CallUnderWay'
  <2>1. StackLeadsDown'
    BY <1>1, EmptyStack
  <2>2. QED
    BY <1>1, <2>1 DEF CallUnderWay
<1>14. QED
  BY <1>5, <1>6, <1>12, <1>13 DEF ShapeInv

\* The end of insert_start keeps the shape.
LEMMA FinishInsertShape ==
  ASSUME ShapeInv, FinishInsert
  PROVE  ShapeInv'
<1>1. CASE newchild # Null
  BY <1>1, NewRootShape
<1>2. CASE newchild = Null
  <2>1. /\ pc = "link" /\ return /\ UNCHANGED <<root, heap, head, tail>>
        /\ stats' = [stats EXCEPT !.itemcount = @ + 1] /\ stored' = stored \cup {key}
    BY <1>2 DEF FinishInsert
  <2>2. TypeOK /\ Counted /\ key \in Keys /\ stored \subseteq Keys /\ ~fixmerge
    <3>1. key # Null /\ ~fixmerge
      BY <2>1 DEF ShapeInv, CallUnderWay
    <3>2. QED
      BY <3>1, TypeNow DEF ShapeInv
  <2>3. Leaves' = Leaves /\ Inner' = Inner
    BY <2>1, SameHeap
  <2>4. Counted' /\ stats' \in Counters
    <3>1. CountersMoved(0, 0, 1)
      BY <2>1, <2>2, CountersMove, CountersType
    <3>2. stats.itemcount + 1 \in Nat
      <4>1. TypeOK
        BY <2>2
      <4>2. QED
        BY <4>1, CountersType, CountersGiven
    <3>3. Leaves' \cup Inner' = DOMAIN heap'
      BY <2>1, <2>2, <2>3, NodeKinds
    <3>4. 0 \in {0, 1, 0 - 1} /\ 0 # 1 /\ 0 # 0 - 1
      OBVIOUS
    <3>5. QED
      BY <2>2, <2>3, <3>1, <3>2, <3>3, <3>4, CountedNext
  <2>5. UNCHANGED <<tree>> /\ stored' \subseteq Keys
    BY <2>1, <2>2 DEF tree
  <2>6. pc # "balance" /\ (pc = "insert" => FALSE)
    BY <2>1
  <2>7. QED
    BY <1>2, <2>1, <2>2, <2>4, <2>5, <2>6, ReturnShape
<1>3. QED
  BY <1>1, <1>2

=============================================================================
