-------------------------- MODULE ElasticLeafProofs --------------------------
(***************************************************************************)
(* Proofs about the elastic tree, the way down: what a step does to the    *)
(* heap and to the counters, and that the steps of a call up to its leaf   *)
(* keep ElasticInv, those that replace a leaf while a list and a parent    *)
(* point to it among them.                                                 *)
(***************************************************************************)
EXTENDS ElasticShape, DataFacts

-----------------------------------------------------------------------------
(* Nodes and the heap *)

Leaf(t, S, u, p, x) ==
  [level |-> 0, blindileaftype |-> t, items |-> S, slotuse |-> u,
   prevleaf |-> p, nextleaf |-> x]

InnerNode(l, K, C, f) ==
  [level |-> l, slotkey |-> K, childid |-> C, alreadycomprerss |-> f]

\* The fields of a leaf.
LEMMA LeafFields ==
  ASSUME NEW r \in LeafNodes
  PROVE  /\ r.level = 0 /\ r.blindileaftype \in Types
         /\ r.items \subseteq Keys /\ r.slotuse \in Nat
         /\ r.prevleaf \in Pointers /\ r.nextleaf \in Pointers
         /\ r = Leaf(r.blindileaftype, r.items, r.slotuse, r.prevleaf,
                     r.nextleaf)
  BY DEF LeafNodes, Leaf

\* The fields of an inner node.
LEMMA InnerFields ==
  ASSUME NEW r \in InnerNodes
  PROVE  /\ r.level \in Nat /\ r.level # 0 /\ r.slotkey \in Seq(Keys)
         /\ r.childid \in Seq(Nodes) /\ r.alreadycomprerss \in BOOLEAN
         /\ r = InnerNode(r.level, r.slotkey, r.childid, r.alreadycomprerss)
  BY DEF InnerNodes, InnerNode

\* The fields of a leaf and of an inner node that are given.
LEMMA GivenFields ==
  /\ \A t, S, u, p, x : LET r == Leaf(t, S, u, p, x)
                        IN /\ r.level = 0 /\ r.blindileaftype = t
                           /\ r.items = S /\ r.slotuse = u
                           /\ r.prevleaf = p /\ r.nextleaf = x
  /\ \A l, K, C, f : LET r == InnerNode(l, K, C, f)
                     IN /\ r.level = l /\ r.slotkey = K
                        /\ r.childid = C /\ r.alreadycomprerss = f
  BY DEF Leaf, InnerNode

\* A leaf with another field.
LEMMA LeafUpdates ==
  ASSUME NEW r \in LeafNodes, NEW m
  PROVE  /\ [r EXCEPT !.nextleaf = m]
              = Leaf(r.blindileaftype, r.items, r.slotuse, r.prevleaf, m)
         /\ [r EXCEPT !.prevleaf = m]
              = Leaf(r.blindileaftype, r.items, r.slotuse, m, r.nextleaf)
         /\ [r EXCEPT !.blindileaftype = m]
              = Leaf(m, r.items, r.slotuse, r.prevleaf, r.nextleaf)
         /\ [r EXCEPT !.items = m]
              = Leaf(r.blindileaftype, m, r.slotuse, r.prevleaf, r.nextleaf)
         /\ [r EXCEPT !.slotuse = m]
              = Leaf(r.blindileaftype, r.items, m, r.prevleaf, r.nextleaf)
<1>1. PICK t, S, u, p, x : /\ t = r.blindileaftype /\ S = r.items
                           /\ u = r.slotuse /\ p = r.prevleaf /\ x = r.nextleaf
  OBVIOUS
<1>2. r = Leaf(t, S, u, p, x)
  BY <1>1, LeafFields
<1>3. /\ [Leaf(t, S, u, p, x) EXCEPT !.nextleaf = m] = Leaf(t, S, u, p, m)
      /\ [Leaf(t, S, u, p, x) EXCEPT !.prevleaf = m] = Leaf(t, S, u, m, x)
      /\ [Leaf(t, S, u, p, x) EXCEPT !.blindileaftype = m]
           = Leaf(m, S, u, p, x)
      /\ [Leaf(t, S, u, p, x) EXCEPT !.items = m] = Leaf(t, m, u, p, x)
      /\ [Leaf(t, S, u, p, x) EXCEPT !.slotuse = m] = Leaf(t, S, m, p, x)
  BY DEF Leaf
<1>4. QED
  BY <1>1, <1>2, <1>3

\* A leaf with a key more.
LEMMA LeafWith ==
  ASSUME NEW t, NEW S, NEW u, NEW p, NEW x, NEW k
  PROVE  with(Leaf(t, S, u, p, x), k) = Leaf(t, S \cup {k}, u + 1, p, x)
<1>1. [Leaf(t, S, u, p, x) EXCEPT !.items = S \cup {k}]
        = Leaf(t, S \cup {k}, u, p, x)
  BY DEF Leaf
<1>2. [Leaf(t, S \cup {k}, u, p, x) EXCEPT !.slotuse = u + 1]
        = Leaf(t, S \cup {k}, u + 1, p, x)
  BY DEF Leaf
<1>3. with(Leaf(t, S, u, p, x), k)
        = [[Leaf(t, S, u, p, x) EXCEPT
              !.items = Leaf(t, S, u, p, x).items \cup {k}]
             EXCEPT !.slotuse = Leaf(t, S, u, p, x).slotuse + 1]
  BY DEF with
<1>4. Leaf(t, S, u, p, x).slotuse = u /\ Leaf(t, S, u, p, x).items = S
  BY GivenFields
<1>5. with(Leaf(t, S, u, p, x), k)
        = [[Leaf(t, S, u, p, x) EXCEPT !.items = S \cup {k}]
             EXCEPT !.slotuse = u + 1]
  BY <1>3, <1>4
<1>6. QED
  BY <1>1, <1>2, <1>5

\* An inner node with other children, separators or another mark.
LEMMA InnerUpdates ==
  ASSUME NEW l, NEW K, NEW C, NEW f, NEW K2, NEW C2
  PROVE  /\ [InnerNode(l, K, C, f) EXCEPT !.slotkey = K2, !.childid = C2]
              = InnerNode(l, K2, C2, f)
         /\ [InnerNode(l, K, C, f) EXCEPT !.childid = C2]
              = InnerNode(l, K, C2, f)
         /\ [InnerNode(l, K, C, f) EXCEPT !.alreadycomprerss = K2]
              = InnerNode(l, K, C, K2)
<1>1. /\ [InnerNode(l, K, C, f) EXCEPT !.slotkey = K2] = InnerNode(l, K2, C, f)
      /\ [InnerNode(l, K2, C, f) EXCEPT !.childid = C2]
           = InnerNode(l, K2, C2, f)
      /\ [InnerNode(l, K, C, f) EXCEPT !.childid = C2] = InnerNode(l, K, C2, f)
      /\ [InnerNode(l, K, C, f) EXCEPT !.alreadycomprerss = K2]
           = InnerNode(l, K, C, K2)
  BY DEF InnerNode
<1>2. [InnerNode(l, K, C, f) EXCEPT !.slotkey = K2, !.childid = C2]
        = [[InnerNode(l, K, C, f) EXCEPT !.slotkey = K2] EXCEPT !.childid = C2]
  OBVIOUS
<1>3. QED
  BY <1>1, <1>2

\* A leaf and an inner node are nodes of the heap.
LEMMA NodeRecords ==
  /\ \A t \in Types, S \in SUBSET Keys, u \in Nat, p, x \in Pointers :
       Leaf(t, S, u, p, x) \in LeafNodes
  /\ \A l \in Nat \ {0}, K \in Seq(Keys), C \in Seq(Nodes), f \in BOOLEAN :
       InnerNode(l, K, C, f) \in InnerNodes
  BY DEF Leaf, LeafNodes, InnerNode, InnerNodes

\* What the heap holds.
LEMMA NodeKinds ==
  ASSUME TypeOK
  PROVE  /\ \A n \in Leaves : n \in Allocated /\ n \in Nodes
                              /\ heap[n] \in LeafNodes
         /\ \A n \in Inner : n \in Allocated /\ n \in Nodes
                             /\ heap[n] \in InnerNodes /\ n \notin Leaves
         /\ Leaves \cup Inner = Allocated
<1>1. ASSUME NEW n \in Leaves
      PROVE n \in Allocated /\ n \in Nodes /\ heap[n] \in LeafNodes
  <2>1. n \in Allocated /\ heap[n].level = 0 /\ n \in Nodes
    BY DEF Leaves, TypeOK
  <2>2. heap[n] \in LeafNodes \/ heap[n] \in InnerNodes
    BY <2>1 DEF TypeOK
  <2>3. QED
    BY <2>1, <2>2, InnerFields
<1>2. ASSUME NEW n \in Inner
      PROVE n \in Allocated /\ n \in Nodes /\ heap[n] \in InnerNodes
            /\ n \notin Leaves
  <2>1. n \in Allocated /\ heap[n].level # 0 /\ n \in Nodes /\ n \notin Leaves
    BY DEF Inner, Leaves, TypeOK
  <2>2. heap[n] \in LeafNodes \/ heap[n] \in InnerNodes
    BY <2>1 DEF TypeOK
  <2>3. QED
    BY <2>1, <2>2, LeafFields
<1>3. QED
  BY <1>1, <1>2 DEF Inner, Leaves

\* The node that put stores, and the nodes it leaves alone.
LEMMA PutNode ==
  ASSUME NEW h, NEW n, NEW c
  PROVE  /\ DOMAIN put(h, n, c) = DOMAIN h \cup {n}
         /\ put(h, n, c)[n] = c
         /\ \A m \in DOMAIN h : m # n => put(h, n, c)[m] = h[m]
  BY DEF put

\* The nodes that are left when one is freed.
LEMMA WithoutNode ==
  ASSUME NEW h, NEW n
  PROVE  /\ DOMAIN without(h, n) = DOMAIN h \ {n}
         /\ \A m \in DOMAIN h \ {n} : without(h, n)[m] = h[m]
  BY DEF without, Restrict

\* The allocator returns an address that is not in use.
LEMMA FreshNode ==
  ASSUME canAllocate
  PROVE  fresh \in Nodes /\ fresh \notin Allocated
  BY DEF canAllocate, fresh

\* The node that setNext changes, and the others.
LEMMA SetNextNode ==
  ASSUME NEW h, NEW n, NEW m, n # Null => n \in DOMAIN h
  PROVE  /\ DOMAIN setNext(h, n, m) = DOMAIN h
         /\ \A j \in DOMAIN h : setNext(h, n, m)[j] =
              IF j = n /\ n # Null THEN [h[j] EXCEPT !.nextleaf = m] ELSE h[j]
  BY DEF setNext

\* The node that setPrev changes, and the others.
LEMMA SetPrevNode ==
  ASSUME NEW h, NEW n, NEW m, n # Null => n \in DOMAIN h
  PROVE  /\ DOMAIN setPrev(h, n, m) = DOMAIN h
         /\ \A j \in DOMAIN h : setPrev(h, n, m)[j] =
              IF j = n /\ n # Null THEN [h[j] EXCEPT !.prevleaf = m] ELSE h[j]
  BY DEF setPrev

-----------------------------------------------------------------------------
(* A leaf is replaced *)

\* A pointer to old becomes one to the new node.
Ren(old, x) == IF x = old THEN fresh ELSE x
RenSeq(old, C) == [i \in 1 .. Len(C) |-> Ren(old, C[i])]

RenLeaf(old, r) == Leaf(r.blindileaftype, r.items, r.slotuse,
                        Ren(old, r.prevleaf), Ren(old, r.nextleaf))
RenInner(old, r) == InnerNode(r.level, r.slotkey, RenSeq(old, r.childid),
                              r.alreadycomprerss)

\* h is the heap after old was replaced by a leaf of type t with the u keys S.
Replaced(h, old, t, S, u) ==
  /\ h = [n \in DOMAIN h |-> h[n]]
  /\ DOMAIN h = (Allocated \ {old}) \cup {fresh}
  /\ h[fresh] = Leaf(t, S, u, heap[old].prevleaf, heap[old].nextleaf)
  /\ \A n \in Leaves \ {old} : h[n] = RenLeaf(old, heap[n])
  /\ \A n \in Inner : h[n] = RenInner(old, heap[n])

\* Renaming the children of a node.
LEMMA RenSeqType ==
  ASSUME NEW S, NEW C \in Seq(S), NEW old, NEW T, fresh \in T, S \ {old} \subseteq T
  PROVE  RenSeq(old, C) \in Seq(T) /\ Len(RenSeq(old, C)) = Len(C)
<1>1. \A i \in 1 .. Len(C) : Ren(old, C[i]) \in T
  BY DEF Ren
<1>2. QED
  BY <1>1 DEF RenSeq

\* replaceLeaf changes every pointer to the leaf, in the list and in the
\* parent, and nothing else.
LEMMA ReplaceEffect ==
  ASSUME TypeOK, LinkedOnce, ListLinked, canAllocate,
         NEW old \in Leaves, NEW t, NEW p \in Inner, NEW s \in Nat,
         s + 1 \in Slots(p), heap[p].childid[s + 1] = old
  PROVE  Replaced(replaceLeaf(old, t, <<p, s>>), old, t,
                  heap[old].items, heap[old].slotuse)
<1>1. /\ old \in Allocated /\ old \in Nodes /\ p \in Allocated /\ p # old
      /\ fresh \notin Allocated /\ old # fresh /\ p # fresh
      /\ heap[old] \in LeafNodes /\ old # Null
  BY NodeKinds, FreshNode, ElasticAssumption
<1> DEFINE r == heap[old]
           both == put(heap, fresh, [r EXCEPT !.blindileaftype = t])
           h1 == setChild(both, p, s, fresh)
           h2 == setNext(h1, r.prevleaf, fresh)
           h3 == setPrev(h2, r.nextleaf, fresh)
           h == without(h3, old)
<1>2. replaceLeaf(old, t, <<p, s>>) = h
  BY DEF replaceLeaf
<1>3. /\ r.prevleaf # Null => r.prevleaf \in Leaves \ {old}
      /\ r.nextleaf # Null => r.nextleaf \in Leaves \ {old}
  BY DEF ListLinked
<1>4. /\ DOMAIN both = Allocated \cup {fresh}
      /\ both[fresh] = [r EXCEPT !.blindileaftype = t]
      /\ \A n \in Allocated : both[n] = heap[n]
  <2>1. PICK c : c = [r EXCEPT !.blindileaftype = t]
    OBVIOUS
  <2>2. both = put(heap, fresh, c)
    BY <2>1
  <2>3. fresh \notin DOMAIN heap
    BY <1>1 DEF Allocated
  <2> HIDE DEF both, r
  <2>4. /\ DOMAIN both = DOMAIN heap \cup {fresh} /\ both[fresh] = c
        /\ \A n \in DOMAIN heap : both[n] = heap[n]
    BY <2>2, <2>3, PutNode
  <2>5. QED
    BY <2>1, <2>4 DEF Allocated
<1>5. /\ DOMAIN h1 = Allocated \cup {fresh}
      /\ h1[fresh] = both[fresh]
      /\ \A n \in Allocated : n # p => h1[n] = heap[n]
      /\ h1[p] = [heap[p] EXCEPT
                    !.childid = [heap[p].childid EXCEPT ![s + 1] = fresh]]
  <2> HIDE DEF both
  <2>1. p \in DOMAIN both /\ fresh \in DOMAIN both
    BY <1>1, <1>4
  <2> HIDE DEF h1
  <2>2. DOMAIN h1 = DOMAIN both
    BY <2>1 DEF h1, setChild
  <2>3. \A j \in DOMAIN both : j # p => h1[j] = both[j]
    BY <2>1 DEF h1, setChild
  <2>4. h1[p] = [both[p] EXCEPT
                   !.childid = [both[p].childid EXCEPT ![s + 1] = fresh]]
    BY <2>1 DEF h1, setChild
  <2>5. QED
    BY <1>1, <1>4, <2>2, <2>3, <2>4
<1>6. /\ DOMAIN h2 = Allocated \cup {fresh}
      /\ \A n \in Allocated \cup {fresh} : h2[n] =
           IF n = r.prevleaf /\ n # Null THEN [h1[n] EXCEPT !.nextleaf = fresh]
                                         ELSE h1[n]
  <2>1. r.prevleaf # Null => r.prevleaf \in DOMAIN h1
    BY <1>3, <1>5, NodeKinds
  <2> HIDE DEF h1, r
  <2>2. QED
    BY <1>5, <2>1, SetNextNode
<1>7. /\ DOMAIN h3 = Allocated \cup {fresh}
      /\ \A n \in Allocated \cup {fresh} : h3[n] =
           IF n = r.nextleaf /\ n # Null THEN [h2[n] EXCEPT !.prevleaf = fresh]
                                         ELSE h2[n]
  <2>1. r.nextleaf # Null => r.nextleaf \in DOMAIN h2
    BY <1>3, <1>6, NodeKinds
  <2> HIDE DEF h2, r
  <2>2. QED
    BY <1>6, <2>1, SetPrevNode
<1>8. /\ DOMAIN h = (Allocated \ {old}) \cup {fresh}
      /\ \A n \in (Allocated \ {old}) \cup {fresh} : h[n] = h3[n]
  <2>1. (Allocated \cup {fresh}) \ {old} = (Allocated \ {old}) \cup {fresh}
    BY <1>1
  <2> HIDE DEF h3, h
  <2>2. /\ DOMAIN h = DOMAIN h3 \ {old}
        /\ \A n \in DOMAIN h3 \ {old} : h[n] = h3[n]
    BY WithoutNode DEF h
  <2>3. DOMAIN h3 \ {old} = (Allocated \ {old}) \cup {fresh}
    BY <1>7, <2>1
  <2>4. QED
    BY <2>2, <2>3
<1>9. h = [n \in DOMAIN h |-> h[n]]
  BY DEF without, Restrict
<1> HIDE DEF both, h1, h2, h3, h
<1>10. /\ fresh # r.prevleaf \/ fresh = Null
       /\ fresh # r.nextleaf \/ fresh = Null
       /\ fresh # Null
  BY <1>1, <1>3, NodeKinds, FreshNode, ElasticAssumption
<1>11. h[fresh] = Leaf(t, r.items, r.slotuse, r.prevleaf, r.nextleaf)
  <2>1. h[fresh] = [r EXCEPT !.blindileaftype = t]
    BY <1>4, <1>5, <1>6, <1>7, <1>8, <1>10
  <2>2. QED
    BY <1>1, <2>1, LeafUpdates
<1>12. ASSUME NEW n \in Leaves \ {old}
       PROVE  h[n] = RenLeaf(old, heap[n])
  <2>1. n \in Allocated /\ n # p /\ n # Null /\ n # fresh
        /\ heap[n] \in LeafNodes
    BY <1>1, NodeKinds, ElasticAssumption
  <2>2. n = r.prevleaf <=> heap[n].nextleaf = old
    BY <1>1, <2>1 DEF ListLinked
  <2>3. n = r.nextleaf <=> heap[n].prevleaf = old
    BY <1>1, <2>1 DEF ListLinked
  <2>4. PICK q, S, u, a, b : /\ q = heap[n].blindileaftype
                             /\ S = heap[n].items
                             /\ u = heap[n].slotuse /\ a = heap[n].prevleaf
                             /\ b = heap[n].nextleaf
    OBVIOUS
  <2>5. heap[n] = Leaf(q, S, u, a, b)
    BY <2>1, <2>4, LeafFields
  <2>6. h1[n] = Leaf(q, S, u, a, b)
    BY <1>5, <2>1, <2>5
  <2>7. h2[n] = Leaf(q, S, u, a, Ren(old, b))
    <3>1. [Leaf(q, S, u, a, b) EXCEPT !.nextleaf = fresh]
            = Leaf(q, S, u, a, fresh)
      BY DEF Leaf
    <3>2. h2[n] = IF b = old THEN [h1[n] EXCEPT !.nextleaf = fresh] ELSE h1[n]
      BY <1>6, <2>1, <2>2, <2>4
    <3>3. QED
      BY <2>6, <3>1, <3>2 DEF Ren
  <2>8. h3[n] = Leaf(q, S, u, Ren(old, a), Ren(old, b))
    <3>1. PICK c : c = Ren(old, b)
      OBVIOUS
    <3>2. [Leaf(q, S, u, a, c) EXCEPT !.prevleaf = fresh]
            = Leaf(q, S, u, fresh, c)
      BY DEF Leaf
    <3>3. h3[n] = IF a = old THEN [h2[n] EXCEPT !.prevleaf = fresh] ELSE h2[n]
      BY <1>7, <2>1, <2>3, <2>4
    <3>4. h3[n] = IF a = old THEN Leaf(q, S, u, fresh, c)
                             ELSE Leaf(q, S, u, a, c)
      BY <2>7, <3>1, <3>2, <3>3
    <3>5. QED
      BY <3>1, <3>4 DEF Ren
  <2>9. h[n] = h3[n]
    BY <1>8, <2>1
  <2>10. QED
    BY <2>4, <2>8, <2>9 DEF RenLeaf
<1>13. ASSUME NEW n \in Inner
       PROVE  h[n] = RenInner(old, heap[n])
  <2>1. n \in Allocated /\ n # old /\ n # fresh /\ heap[n] \in InnerNodes
        /\ n \notin Leaves
    BY <1>1, NodeKinds
  <2>2. h[n] = h1[n]
    BY <1>3, <1>6, <1>7, <1>8, <2>1
  <2>3. PICK l, K, C, f : /\ l = heap[n].level /\ K = heap[n].slotkey
                          /\ C = heap[n].childid /\ f = heap[n].alreadycomprerss
    OBVIOUS
  <2>4. heap[n] = InnerNode(l, K, C, f) /\ C \in Seq(Nodes)
    BY <2>1, <2>3, InnerFields
  <2>5. RenInner(old, heap[n]) = InnerNode(l, K, RenSeq(old, C), f)
    BY <2>3 DEF RenInner
  <2>6. CASE n = p
    <3>1. h1[n] = [heap[n] EXCEPT !.childid = [C EXCEPT ![s + 1] = fresh]]
      BY <1>5, <2>3, <2>6
    <3>2. \A i \in 1 .. Len(C) : C[i] = old <=> i = s + 1
      BY <2>3, <2>6 DEF LinkedOnce, Slots
    <3>3. [C EXCEPT ![s + 1] = fresh] = RenSeq(old, C)
      <4>1. DOMAIN C = 1 .. Len(C)
        BY <2>4
      <4>2. C = [i \in 1 .. Len(C) |-> C[i]]
        BY <2>4
      <4>3. [C EXCEPT ![s + 1] = fresh]
              = [i \in 1 .. Len(C) |-> IF i = s + 1 THEN fresh ELSE C[i]]
        BY <4>1, <4>2
      <4>4. QED
        BY <3>2, <4>3 DEF RenSeq, Ren
    <3>4. PICK D : D = RenSeq(old, C)
      OBVIOUS
    <3>5. [InnerNode(l, K, C, f) EXCEPT !.childid = D] = InnerNode(l, K, D, f)
      BY DEF InnerNode
    <3>6. h[n] = [InnerNode(l, K, C, f) EXCEPT !.childid = D]
      BY <2>2, <2>4, <3>1, <3>3, <3>4
    <3>7. QED
      BY <2>5, <3>4, <3>5, <3>6
  <2>7. CASE n # p
    <3>1. \A i \in 1 .. Len(C) : C[i] # old
      BY <2>3, <2>7 DEF LinkedOnce, Slots
    <3>2. RenSeq(old, C) = C
      <4>1. C = [i \in 1 .. Len(C) |-> C[i]]
        BY <2>4
      <4>2. \A i \in 1 .. Len(C) : Ren(old, C[i]) = C[i]
        BY <3>1 DEF Ren
      <4>3. RenSeq(old, C) = [i \in 1 .. Len(C) |-> C[i]]
        BY <4>2 DEF RenSeq
      <4>4. QED
        BY <4>1, <4>3
    <3>3. h1[n] = heap[n]
      BY <1>5, <2>1, <2>7
    <3>4. QED
      BY <2>2, <2>4, <2>5, <3>2, <3>3
  <2>8. QED
    BY <2>6, <2>7
<1>14. QED
  BY <1>2, <1>8, <1>9, <1>11, <1>12, <1>13 DEF Replaced

\* The new leaf may be given a key, too.
LEMMA ExtendEffect ==
  ASSUME canAllocate, NEW h, NEW old \in Leaves, NEW t, NEW S, NEW u, NEW k,
         Replaced(h, old, t, S, u)
  PROVE  Replaced([h EXCEPT ![fresh] = with(@, k)], old, t, S \cup {k}, u + 1)
<1>1. /\ fresh \in DOMAIN h /\ fresh \notin Allocated
      /\ Leaves \subseteq Allocated /\ Inner \subseteq Allocated
  BY FreshNode DEF Replaced, Leaves, Inner
<1>2. PICK r : r = [h EXCEPT ![fresh] = with(@, k)]
  OBVIOUS
<1>3. /\ DOMAIN r = DOMAIN h /\ r = [n \in DOMAIN r |-> r[n]]
      /\ r[fresh] = with(h[fresh], k)
      /\ \A n \in DOMAIN h : n # fresh => r[n] = h[n]
  BY <1>1, <1>2
<1>4. r[fresh] = Leaf(t, S \cup {k}, u + 1, heap[old].prevleaf,
                      heap[old].nextleaf)
  BY <1>3, LeafWith DEF Replaced
<1>5. \A n \in Leaves \ {old} : r[n] = RenLeaf(old, heap[n])
  BY <1>1, <1>3 DEF Replaced
<1>6. \A n \in Inner : r[n] = RenInner(old, heap[n])
  BY <1>1, <1>3 DEF Replaced, Leaves, Inner
<1>7. QED
  BY <1>2, <1>3, <1>4, <1>5, <1>6 DEF Replaced

\* The fields of the nodes of h after a leaf was replaced.
ReplacedFields(old, t, S, u) ==
  /\ Allocated' = (Allocated \ {old}) \cup {fresh}
  /\ Leaves' = (Leaves \ {old}) \cup {fresh} /\ Inner' = Inner
  /\ heap' \in [Allocated' -> LeafNodes \cup InnerNodes]
  /\ heap'[fresh] = Leaf(t, S, u, heap[old].prevleaf, heap[old].nextleaf)
  /\ \A n \in Leaves \ {old} :
       /\ heap'[n].level = 0
       /\ heap'[n].blindileaftype = heap[n].blindileaftype
       /\ heap'[n].items = heap[n].items
       /\ heap'[n].slotuse = heap[n].slotuse
       /\ heap'[n].prevleaf = Ren(old, heap[n].prevleaf)
       /\ heap'[n].nextleaf = Ren(old, heap[n].nextleaf)
  /\ \A n \in Inner :
       /\ heap'[n].level = heap[n].level
       /\ heap'[n].slotkey = heap[n].slotkey
       /\ heap'[n].alreadycomprerss = heap[n].alreadycomprerss
       /\ heap'[n].childid \in Seq(Allocated')
       /\ Len(heap'[n].childid) = Len(heap[n].childid)
       /\ \A i \in Slots(n) : heap'[n].childid[i] = Ren(old, heap[n].childid[i])

\* They follow from the effect.
LEMMA ReplacedNodes ==
  ASSUME TypeOK, canAllocate, NEW old \in Leaves, NEW t \in Types,
         NEW S \in SUBSET Keys, NEW u \in Nat,
         Replaced(heap', old, t, S, u)
  PROVE  ReplacedFields(old, t, S, u)
<1>1. /\ fresh \in Nodes /\ fresh \notin Allocated
      /\ old \in Allocated /\ heap[old] \in LeafNodes
  BY FreshNode, NodeKinds
<1>2. Allocated' = (Allocated \ {old}) \cup {fresh}
  BY DEF Allocated, Replaced
<1>3. heap'[fresh] = Leaf(t, S, u, heap[old].prevleaf, heap[old].nextleaf)
  BY DEF Replaced
<1>4. heap'[fresh] \in LeafNodes /\ heap'[fresh].level = 0
  <2>1. heap[old].prevleaf \in Pointers /\ heap[old].nextleaf \in Pointers
    BY <1>1, LeafFields
  <2>2. QED
    BY <1>3, <2>1, NodeRecords, GivenFields
<1>5. ASSUME NEW n \in Leaves \ {old}
      PROVE  /\ heap'[n] \in LeafNodes
             /\ heap'[n].level = 0
             /\ heap'[n].blindileaftype = heap[n].blindileaftype
             /\ heap'[n].items = heap[n].items
             /\ heap'[n].slotuse = heap[n].slotuse
             /\ heap'[n].prevleaf = Ren(old, heap[n].prevleaf)
             /\ heap'[n].nextleaf = Ren(old, heap[n].nextleaf)
  <2>1. heap[n] \in LeafNodes
    BY NodeKinds
  <2>2. PICK a, b : a = Ren(old, heap[n].prevleaf) /\ b = Ren(old, heap[n].nextleaf)
    OBVIOUS
  <2>3. heap'[n] = Leaf(heap[n].blindileaftype, heap[n].items,
                        heap[n].slotuse, a, b)
    BY <2>2 DEF Replaced, RenLeaf
  <2>4. a \in Pointers /\ b \in Pointers
    BY <1>1, <2>1, <2>2, LeafFields DEF Ren, Pointers
  <2>5. heap'[n] \in LeafNodes
    BY <2>1, <2>3, <2>4, LeafFields, NodeRecords
  <2>6. QED
    BY <2>2, <2>3, <2>5, GivenFields
<1>6. ASSUME NEW n \in Inner
      PROVE  /\ heap'[n] \in InnerNodes
             /\ heap'[n].level = heap[n].level
             /\ heap'[n].slotkey = heap[n].slotkey
             /\ heap'[n].alreadycomprerss = heap[n].alreadycomprerss
             /\ heap'[n].childid \in Seq(Allocated')
             /\ Len(heap'[n].childid) = Len(heap[n].childid)
             /\ \A i \in Slots(n) :
                  heap'[n].childid[i] = Ren(old, heap[n].childid[i])
  <2>1. heap[n] \in InnerNodes /\ heap[n].childid \in Seq(Allocated)
    BY NodeKinds DEF TypeOK
  <2>2. PICK C : C = RenSeq(old, heap[n].childid)
    OBVIOUS
  <2>3. C \in Seq(Allocated') /\ Len(C) = Len(heap[n].childid)
    <3>1. fresh \in Allocated' /\ Allocated \ {old} \subseteq Allocated'
      BY <1>2
    <3>2. QED
      BY <2>1, <2>2, <3>1, RenSeqType
  <2>4. C \in Seq(Nodes)
    <3>1. Allocated' \subseteq Nodes
      BY <1>1, <1>2 DEF TypeOK
    <3>2. QED
      BY <2>3, <3>1, SeqMonotone
  <2>5. heap'[n] = InnerNode(heap[n].level, heap[n].slotkey, C,
                             heap[n].alreadycomprerss)
    BY <2>2 DEF Replaced, RenInner
  <2>6. heap'[n] \in InnerNodes
    BY <2>1, <2>4, <2>5, InnerFields, NodeRecords
  <2>7. \A i \in Slots(n) : C[i] = Ren(old, heap[n].childid[i])
    BY <2>2 DEF RenSeq, Slots
  <2>8. QED
    BY <2>3, <2>5, <2>6, <2>7, GivenFields
<1>7. /\ Leaves' = (Leaves \ {old}) \cup {fresh} /\ Inner' = Inner
  <2>1. \A n \in Inner : heap[n].level # 0
    BY DEF Inner, Leaves
  <2>2. Leaves' = {n \in Allocated' : heap'[n].level = 0}
    BY DEF Leaves
  <2>3. \A n \in Allocated' : n \in (Leaves \ {old}) \cup {fresh} \/ n \in Inner
    BY <1>2, NodeKinds
  <2>4. (Leaves \ {old}) \cup {fresh} \subseteq Allocated'
    BY <1>2, NodeKinds
  <2>5. Leaves' = (Leaves \ {old}) \cup {fresh}
    BY <1>4, <1>5, <1>6, <2>1, <2>2, <2>3, <2>4
  <2>6. Inner' = Allocated' \ Leaves'
    BY DEF Inner
  <2>7. QED
    BY <1>1, <1>2, <2>5, <2>6, NodeKinds
<1>8. heap' \in [Allocated' -> LeafNodes \cup InnerNodes]
  <2>1. heap' = [n \in Allocated' |-> heap'[n]]
    BY DEF Replaced, Allocated
  <2>2. \A n \in Allocated' : heap'[n] \in LeafNodes \cup InnerNodes
    BY <1>2, <1>4, <1>5, <1>6, NodeKinds
  <2>3. QED
    BY <2>1, <2>2
<1>9. QED
  BY <1>2, <1>3, <1>5, <1>6, <1>7, <1>8 DEF ReplacedFields

-----------------------------------------------------------------------------
(* The statistics *)

Stats(l, i, c, f) ==
  [leaves |-> l, innernodes |-> i, itemcount |-> c, ofType |-> f]

Counters == [leaves : Int, innernodes : Int, itemcount : Int,
             ofType : [Types -> Int]]

\* The counters that a leaf allocated or freed changes.
LEMMA LeafCounted ==
  ASSUME NEW s \in Counters, NEW t \in Types
  PROVE  /\ allocated(s, t) = Stats(s.leaves + 1, s.innernodes, s.itemcount,
              [u \in Types |-> IF u = t THEN s.ofType[u] + 1 ELSE s.ofType[u]])
         /\ freed(s, t) = Stats(s.leaves - 1, s.innernodes, s.itemcount,
              [u \in Types |-> IF u = t THEN s.ofType[u] - 1 ELSE s.ofType[u]])
<1>1. PICK l, i, c, f : /\ l = s.leaves /\ i = s.innernodes
                        /\ c = s.itemcount /\ f = s.ofType
  OBVIOUS
<1>2. s = Stats(l, i, c, f) /\ f \in [Types -> Int]
  BY <1>1 DEF Counters, Stats
<1>3. /\ Stats(l, i, c, f).leaves = l /\ Stats(l, i, c, f).ofType = f
      /\ Stats(l, i, c, f).innernodes = i /\ Stats(l, i, c, f).itemcount = c
  BY DEF Stats
<1>4. \A m, g : /\ [Stats(l, i, c, f) EXCEPT !.leaves = m] = Stats(m, i, c, f)
                /\ [Stats(m, i, c, f) EXCEPT !.ofType = g] = Stats(m, i, c, g)
  BY DEF Stats
<1>5. \A m, g : [Stats(l, i, c, f) EXCEPT !.leaves = m, !.ofType = g]
                  = Stats(m, i, c, g)
  <2> TAKE m, g
  <2>1. [Stats(l, i, c, f) EXCEPT !.leaves = m, !.ofType = g]
          = [[Stats(l, i, c, f) EXCEPT !.leaves = m] EXCEPT !.ofType = g]
    OBVIOUS
  <2>2. QED
    BY <1>4, <2>1
<1>6. [f EXCEPT ![t] = f[t] + 1]
        = [u \in Types |-> IF u = t THEN f[u] + 1 ELSE f[u]]
  BY <1>2
<1>7. allocated(s, t) = [Stats(l, i, c, f) EXCEPT
                           !.leaves = l + 1, !.ofType = [f EXCEPT ![t] = f[t] + 1]]
  <2>1. allocated(s, t) = [s EXCEPT !.leaves = s.leaves + 1,
                             !.ofType = [s.ofType EXCEPT ![t] = s.ofType[t] + 1]]
    BY DEF allocated
  <2>2. QED
    BY <1>1, <1>2, <2>1
<1>8. freed(s, t) = [Stats(l, i, c, f) EXCEPT
                       !.leaves = l - 1, !.ofType = [f EXCEPT ![t] = f[t] - 1]]
  <2>1. freed(s, t) = [s EXCEPT !.leaves = s.leaves - 1,
                         !.ofType = [s.ofType EXCEPT ![t] = s.ofType[t] - 1]]
    BY DEF freed
  <2>2. QED
    BY <1>1, <1>2, <2>1
<1>9. [f EXCEPT ![t] = f[t] - 1]
        = [u \in Types |-> IF u = t THEN f[u] - 1 ELSE f[u]]
  BY <1>2
<1>10. PICK g : g = [u \in Types |-> IF u = t THEN f[u] + 1 ELSE f[u]]
  OBVIOUS
<1>11. PICK h : h = [u \in Types |-> IF u = t THEN f[u] - 1 ELSE f[u]]
  OBVIOUS
<1>12. [f EXCEPT ![t] = f[t] + 1] = g
  BY <1>6, <1>10
<1>13. /\ allocated(s, t) = Stats(l + 1, i, c, g)
       /\ freed(s, t) = Stats(l - 1, i, c, h)
  <2>1. PICK m, k : m = l + 1 /\ k = l - 1
    OBVIOUS
  <2>2. /\ allocated(s, t)
             = [Stats(l, i, c, f) EXCEPT !.leaves = m, !.ofType = g]
        /\ freed(s, t)
             = [Stats(l, i, c, f) EXCEPT !.leaves = k, !.ofType = h]
    BY <1>7, <1>8, <1>9, <1>11, <1>12, <2>1
  <2>3. QED
    BY <1>5, <2>1, <2>2
<1>14. /\ g = [u \in Types |-> IF u = t THEN s.ofType[u] + 1 ELSE s.ofType[u]]
       /\ h = [u \in Types |-> IF u = t THEN s.ofType[u] - 1 ELSE s.ofType[u]]
  BY <1>1, <1>10, <1>11
<1>15. QED
  BY <1>1, <1>13, <1>14

\* The counters are four numbers.
LEMMA CountersGiven ==
  ASSUME NEW l \in Int, NEW i \in Int, NEW c \in Int, NEW f \in [Types -> Int]
  PROVE  /\ Stats(l, i, c, f) \in Counters
         /\ Stats(l, i, c, f).leaves = l /\ Stats(l, i, c, f).innernodes = i
         /\ Stats(l, i, c, f).itemcount = c /\ Stats(l, i, c, f).ofType = f
  BY DEF Stats, Counters

OfType(t) == {n \in Leaves : heap[n].blindileaftype = t}

\* The counters after an old leaf of type o was replaced by one of type t.
LEMMA ReplacementCounted ==
  ASSUME NEW s \in Counters, NEW t \in Types, NEW o \in Types, o # t,
         NEW r, r = freed(allocated(s, t), o)
  PROVE  /\ r \in Counters
         /\ r.leaves = s.leaves /\ r.innernodes = s.innernodes
         /\ r.itemcount = s.itemcount
         /\ \A u \in Types : r.ofType[u] =
              IF u = t THEN s.ofType[u] + 1
              ELSE IF u = o THEN s.ofType[u] - 1 ELSE s.ofType[u]
<1>1. PICK f : f = [u \in Types |-> IF u = t THEN s.ofType[u] + 1
                                              ELSE s.ofType[u]]
  OBVIOUS
<1>2. PICK a : a = allocated(s, t)
  OBVIOUS
<1>3. /\ s.leaves \in Int /\ s.innernodes \in Int /\ s.itemcount \in Int
      /\ s.ofType \in [Types -> Int]
  BY DEF Counters
<1>4. f \in [Types -> Int]
  BY <1>1, <1>3
<1>5. /\ a \in Counters /\ a.leaves = s.leaves + 1
      /\ a.innernodes = s.innernodes /\ a.itemcount = s.itemcount
      /\ a.ofType = f
  <2>1. a = Stats(s.leaves + 1, s.innernodes, s.itemcount, f)
    <3>1. allocated(s, t) = Stats(s.leaves + 1, s.innernodes, s.itemcount,
            [u \in Types |-> IF u = t THEN s.ofType[u] + 1 ELSE s.ofType[u]])
      BY LeafCounted
    <3>2. QED
      BY <1>1, <1>2, <3>1
  <2>2. PICK l, i, c : /\ l = s.leaves + 1 /\ i = s.innernodes
                       /\ c = s.itemcount
    OBVIOUS
  <2>3. l \in Int /\ i \in Int /\ c \in Int /\ a = Stats(l, i, c, f)
    BY <1>3, <2>1, <2>2
  <2>4. /\ a \in Counters /\ a.leaves = l /\ a.innernodes = i
        /\ a.itemcount = c /\ a.ofType = f
    BY <1>4, <2>3, CountersGiven
  <2>5. QED
    BY <2>2, <2>4
<1>6. PICK g : g = [u \in Types |-> IF u = o THEN a.ofType[u] - 1
                                              ELSE a.ofType[u]]
  OBVIOUS
<1>7. g \in [Types -> Int]
  BY <1>4, <1>5, <1>6
<1>8. /\ r \in Counters /\ r.leaves = a.leaves - 1
      /\ r.innernodes = a.innernodes /\ r.itemcount = a.itemcount
      /\ r.ofType = g
  <2>1. r = Stats(a.leaves - 1, a.innernodes, a.itemcount, g)
    <3>1. freed(a, o) = Stats(a.leaves - 1, a.innernodes, a.itemcount,
            [u \in Types |-> IF u = o THEN a.ofType[u] - 1 ELSE a.ofType[u]])
      BY <1>5, LeafCounted
    <3>2. QED
      BY <1>2, <1>6, <3>1
  <2>2. PICK l, i, c : /\ l = a.leaves - 1 /\ i = a.innernodes
                       /\ c = a.itemcount
    OBVIOUS
  <2>3. l \in Int /\ i \in Int /\ c \in Int /\ r = Stats(l, i, c, g)
    BY <1>3, <1>5, <2>1, <2>2
  <2>4. /\ r \in Counters /\ r.leaves = l /\ r.innernodes = i
        /\ r.itemcount = c /\ r.ofType = g
    BY <1>7, <2>3, CountersGiven
  <2>5. QED
    BY <2>2, <2>4
<1>9. \A u \in Types : r.ofType[u] =
        IF u = t THEN s.ofType[u] + 1
        ELSE IF u = o THEN s.ofType[u] - 1 ELSE s.ofType[u]
  <2> TAKE u \in Types
  <2>1. r.ofType[u] = IF u = o THEN f[u] - 1 ELSE f[u]
    BY <1>5, <1>6, <1>8
  <2>2. f[u] = IF u = t THEN s.ofType[u] + 1 ELSE s.ofType[u]
    BY <1>1
  <2>3. QED
    BY <2>1, <2>2
<1>10. QED
  BY <1>3, <1>5, <1>8, <1>9

\* What the types say of the counters, and what brings them back.
LEMMA CountersType ==
  /\ TypeOK => stats \in Counters
  /\ stats' \in Counters /\ Counted' =>
       stats' \in [leaves : Nat, innernodes : Nat, itemcount : Nat,
                   ofType : [Types -> Nat]]
<1>1. TypeOK => stats \in Counters
  BY DEF TypeOK, Counters
<1>2. ASSUME stats' \in Counters, Counted'
      PROVE  stats' \in [leaves : Nat, innernodes : Nat, itemcount : Nat,
                         ofType : [Types -> Nat]]
  <2>1. /\ IsFiniteSet(Leaves') /\ IsFiniteSet(Inner') /\ IsFiniteSet(stored')
        /\ \A t \in Types : IsFiniteSet({n \in Leaves : heap[n].blindileaftype = t}')
    <3>1. /\ Leaves' \in SUBSET (Allocated') /\ Inner' \in SUBSET (Allocated')
          /\ \A t \in Types : {n \in Leaves : heap[n].blindileaftype = t}'
                                \in SUBSET (Leaves')
      BY DEF Leaves, Inner
    <3>2. IsFiniteSet(Allocated') /\ IsFiniteSet(stored')
      BY <1>2 DEF Counted
    <3>3. IsFiniteSet(Leaves') /\ IsFiniteSet(Inner')
      BY <3>1, <3>2, FS_Subset
    <3>4. QED
      BY <3>1, <3>2, <3>3, FS_Subset
  <2>2. /\ stats'.leaves \in Nat /\ stats'.innernodes \in Nat
        /\ stats'.itemcount \in Nat
    BY <1>2, <2>1, FS_CardinalityType DEF Counted
  <2>3. \A t \in Types : stats'.ofType[t] \in Nat
    BY <1>2, <2>1, FS_CardinalityType DEF Counted
  <2>4. stats'.ofType \in [Types -> Nat]
    BY <1>2, <2>3 DEF Counters
  <2>5. QED
    BY <1>2, <2>2, <2>4 DEF Counters
<1>3. QED
  BY <1>1, <1>2

-----------------------------------------------------------------------------
(* The path of the call under way *)

\* The last step of the path and the node it leads to.
PathEndFacts ==
  /\ Len(path) \in Nat \ {0}
  /\ above = <<above[1], above[2]>> /\ above = path[Len(path)]
  /\ above[1] \in Inner /\ above[2] \in Nat
  /\ above[2] <= Len(heap[above[1]].slotkey)
  /\ above[2] + 1 \in Slots(above[1])
  /\ pathEnd = heap[above[1]].childid[above[2] + 1]
  /\ pathEnd \in Allocated
  /\ heap[above[1]].level + Len(path) = heap[root].level + 1
  /\ heap[pathEnd].level + Len(path) = heap[root].level
  /\ heap[root].level \in Nat

\* A path ends at a child of an inner node.
LEMMA PathEnd ==
  ASSUME TypeOK, PathLeadsDown, \A n \in Inner : InnerFilled(n), path # <<>>
  PROVE  PathEndFacts
<1>1. path \in Seq(Inner \X Nat)
  BY DEF TypeOK
<1>2. Len(path) \in Nat \ {0} /\ Len(path) \in 1 .. Len(path)
  BY <1>1
<1>3. above = path[Len(path)]
  BY DEF above, Last
<1>4. path[Len(path)] \in Inner \X Nat
  BY <1>1, <1>2
<1>5. above = <<above[1], above[2]>> /\ above[1] \in Inner /\ above[2] \in Nat
  BY <1>3, <1>4
<1>6. /\ above[2] \in 0 .. Len(heap[above[1]].slotkey)
      /\ heap[above[1]].level + Len(path) = heap[root].level + 1
  BY <1>2, <1>3 DEF PathLeadsDown
<1> DEFINE n == above[1]
<1>7. n \in Inner /\ heap[n] \in InnerNodes /\ heap[n].childid \in Seq(Allocated)
  BY <1>5, NodeKinds DEF TypeOK
<1>8. /\ Len(heap[n].childid) = Len(heap[n].slotkey) + 1
      /\ \A i \in Slots(n) : heap[heap[n].childid[i]].level + 1 = heap[n].level
      /\ Len(heap[n].slotkey) \in Nat
  BY <1>7, InnerFields DEF InnerFilled
<1>9. above[2] + 1 \in Slots(n) /\ above[2] <= Len(heap[n].slotkey)
  BY <1>5, <1>6, <1>8 DEF Slots
<1>10. pathEnd = heap[n].childid[above[2] + 1]
  BY DEF pathEnd
<1>11. pathEnd \in Allocated
  BY <1>7, <1>9, <1>10 DEF Slots
<1>12. heap[pathEnd].level + 1 = heap[n].level
  BY <1>8, <1>9, <1>10
<1>13. heap[root].level \in Nat /\ heap[pathEnd].level \in Nat
  <2>1. root = path[1][1] /\ 1 \in 1 .. Len(path)
    BY <1>2 DEF PathLeadsDown
  <2>2. path[1] \in Inner \X Nat
    BY <1>1, <2>1
  <2>3. root \in Inner
    BY <2>1, <2>2
  <2>4. \A m \in Allocated : heap[m].level \in Nat
    BY NodeKinds, LeafFields, InnerFields
  <2>5. QED
    BY <1>11, <2>3, <2>4, NodeKinds
<1>14. heap[n].level \in Nat
  BY <1>7, InnerFields
<1>15. heap[pathEnd].level + Len(path) = heap[root].level
  <2>1. PICK a, b, c, l : /\ a = heap[n].level /\ b = heap[root].level
                          /\ c = heap[pathEnd].level /\ l = Len(path)
    OBVIOUS
  <2>2. /\ a \in Nat /\ b \in Nat /\ c \in Nat /\ l \in Nat
        /\ a + l = b + 1 /\ c + 1 = a
    BY <1>2, <1>6, <1>12, <1>13, <1>14, <2>1
  <2>3. c + l = b
    BY <2>2
  <2>4. QED
    BY <2>1, <2>3
<1>16. QED
  BY <1>2, <1>3, <1>5, <1>6, <1>9, <1>10, <1>11, <1>13, <1>15
  DEF PathEndFacts

\* Below a root that is a leaf there is no path.
LEMMA RootInner ==
  ASSUME TypeOK, PathLeadsDown, path # <<>>
  PROVE  root \in Inner /\ path[1] \in Inner \X Nat
<1>1. path \in Seq(Inner \X Nat) /\ root = path[1][1]
  BY DEF TypeOK, PathLeadsDown
<1>2. path[1] \in Inner \X Nat
  BY <1>1
<1>3. QED
  BY <1>1, <1>2

-----------------------------------------------------------------------------
(* A leaf is replaced: what remains true *)

\* Renaming takes nodes to nodes of the same kind, and no two to the same.
RenNodes(old) ==
  /\ \A c \in Allocated : /\ Ren(old, c) \in Allocated'
                          /\ heap'[Ren(old, c)].level = heap[c].level
                          /\ Ren(old, c) \in Leaves' <=> c \in Leaves
  /\ \A c, d \in Allocated : Ren(old, c) = Ren(old, d) => c = d
  /\ \A c \in Allocated \ {old} : Ren(old, c) = c
  /\ \A n \in Allocated' : n # fresh => n \in Allocated \ {old}

\* Replacing the leaf old renames it to the new one and nothing else.
LEMMA Renaming ==
  ASSUME TypeOK, canAllocate, NEW old \in Leaves, NEW t, NEW S, NEW u,
         ReplacedFields(old, t, S, u)
  PROVE  RenNodes(old)
<1>1. fresh \notin Allocated /\ old \in Allocated
  BY FreshNode, NodeKinds
<1>2. heap'[fresh].level = 0
  BY GivenFields DEF ReplacedFields
<1>3. heap[old].level = 0
  BY DEF Leaves
<1>4. ASSUME NEW c \in Allocated
      PROVE  /\ Ren(old, c) \in Allocated'
             /\ heap'[Ren(old, c)].level = heap[c].level
             /\ Ren(old, c) \in Leaves' <=> c \in Leaves
  <2>1. CASE c = old
    BY <1>2, <1>3, <2>1 DEF Ren, ReplacedFields
  <2>2. CASE c # old /\ c \in Leaves
    <3>1. heap[c].level = 0
      BY <2>2 DEF Leaves
    <3>2. QED
      BY <1>1, <2>2, <3>1 DEF Ren, ReplacedFields
  <2>3. CASE c # old /\ c \in Inner
    BY <1>1, <2>3, NodeKinds DEF Ren, ReplacedFields
  <2>4. QED
    BY <2>1, <2>2, <2>3, NodeKinds
<1>5. \A c, d \in Allocated : Ren(old, c) = Ren(old, d) => c = d
  BY <1>1 DEF Ren
<1>6. \A c \in Allocated \ {old} : Ren(old, c) = c
  BY DEF Ren
<1>7. \A n \in Allocated' : n # fresh => n \in Allocated \ {old}
  BY DEF ReplacedFields
<1>8. QED
  BY <1>4, <1>5, <1>6, <1>7 DEF RenNodes

\* The leaf that takes the place of another one.
NewLeaf(t, S, u) ==
  /\ t \in Types /\ t > 0 /\ S \in SUBSET Keys /\ u \in Nat
  /\ IsFiniteSet(S) /\ u = Cardinality(S)
  /\ u <= leafslotmax * t /\ u >= leafslotmax \div 2

\* The tree stays one: every node keeps its slot.
LEMMA ReplacedLinks ==
  ASSUME TypeOK, LinkedOnce, canAllocate, NEW old \in Leaves, NEW t, NEW S, NEW u,
         ReplacedFields(old, t, S, u), old # root, root \in Inner,
         newchild = Null, root' = root, newchild' = Null
  PROVE  LinkedOnce'
<1>1. RenNodes(old)
  BY Renaming
<1>2. /\ Inner' = Inner /\ \A p \in Inner : Slots(p)' = Slots(p)
      /\ \A p \in Inner : \A i \in Slots(p) :
           /\ heap'[p].childid[i] = Ren(old, heap[p].childid[i])
           /\ heap[p].childid[i] \in Allocated
  <2>1. \A p \in Inner : heap[p].childid \in Seq(Allocated)
    BY DEF TypeOK
  <2>2. \A p \in Inner : \A i \in Slots(p) : heap[p].childid[i] \in Allocated
    BY <2>1 DEF Slots
  <2>3. QED
    BY <2>2 DEF ReplacedFields, Slots
<1>3. /\ root \in Allocated /\ root # Null /\ fresh # root /\ fresh # Null
      /\ Null \notin Allocated
  BY NodeKinds, FreshNode, ElasticAssumption DEF TypeOK
<1>4. ASSUME NEW p \in Inner, NEW q \in Inner, NEW i \in Slots(p),
             NEW j \in Slots(q), heap'[p].childid[i] = heap'[q].childid[j]
      PROVE  p = q /\ i = j
  <2>1. Ren(old, heap[p].childid[i]) = Ren(old, heap[q].childid[j])
    BY <1>2, <1>4
  <2>2. heap[p].childid[i] = heap[q].childid[j]
    BY <1>1, <1>2, <2>1 DEF RenNodes
  <2>3. QED
    BY <2>2 DEF LinkedOnce
<1>5. ASSUME NEW p \in Inner, NEW i \in Slots(p)
      PROVE  heap'[p].childid[i] # root /\ heap'[p].childid[i] # Null
  <2>1. heap[p].childid[i] # root /\ heap[p].childid[i] \in Allocated
    BY <1>2 DEF LinkedOnce
  <2>2. QED
    BY <1>2, <1>3, <2>1 DEF Ren
<1>6. ASSUME NEW n \in Allocated' \ {root, Null}
      PROVE  \E p \in Inner : \E i \in Slots(p) : heap'[p].childid[i] = n
  <2>1. PICK c \in Allocated : c # root /\ c # Null /\ Ren(old, c) = n
    <3>1. CASE n = fresh
      BY <1>3, <3>1, NodeKinds DEF Ren
    <3>2. CASE n # fresh
      BY <1>1, <1>6, <3>2 DEF RenNodes
    <3>3. QED
      BY <3>1, <3>2
  <2>2. PICK p \in Inner : \E i \in Slots(p) : heap[p].childid[i] = c
    BY <2>1 DEF LinkedOnce
  <2>3. QED
    BY <1>2, <2>1, <2>2
<1>7. QED
  BY <1>2, <1>4, <1>5, <1>6 DEF LinkedOnce

\* The list of the leaves stays one: both neighbours follow.
LEMMA ReplacedList ==
  ASSUME TypeOK, ListLinked, canAllocate, NEW old \in Leaves, NEW t, NEW S,
         NEW u, ReplacedFields(old, t, S, u), root' = root
  PROVE  ListLinked'
<1>1. /\ RenNodes(old) /\ Leaves' = (Leaves \ {old}) \cup {fresh}
      /\ Leaves \subseteq Allocated
      /\ Null \notin Allocated /\ fresh \notin Allocated /\ fresh # Null
  BY Renaming, NodeKinds, FreshNode, ElasticAssumption DEF ReplacedFields, TypeOK
<1>2. ASSUME NEW c \in Leaves
      PROVE  /\ Ren(old, c) \in Leaves'
             /\ heap'[Ren(old, c)].prevleaf =
                  IF c = old THEN heap[c].prevleaf ELSE Ren(old, heap[c].prevleaf)
             /\ heap'[Ren(old, c)].nextleaf =
                  IF c = old THEN heap[c].nextleaf ELSE Ren(old, heap[c].nextleaf)
  <2>1. CASE c = old
    BY <1>1, <2>1, GivenFields DEF Ren, ReplacedFields
  <2>2. CASE c # old
    BY <1>1, <2>2 DEF Ren, ReplacedFields
  <2>3. QED
    BY <2>1, <2>2
<1>3. ASSUME NEW c \in Leaves
      PROVE  /\ heap'[Ren(old, c)].prevleaf = Ren(old, heap[c].prevleaf)
             /\ heap'[Ren(old, c)].nextleaf = Ren(old, heap[c].nextleaf)
  <2>1. heap[old].prevleaf # old /\ heap[old].nextleaf # old
    BY <1>1 DEF ListLinked
  <2>2. /\ Ren(old, heap[old].prevleaf) = heap[old].prevleaf
        /\ Ren(old, heap[old].nextleaf) = heap[old].nextleaf
    BY <2>1 DEF Ren
  <2>3. QED
    BY <1>2, <2>2
<1>4. \A n \in Leaves' : \E c \in Leaves : n = Ren(old, c)
  BY <1>1 DEF Ren
<1>5. \A x : Ren(old, x) = Null <=> x = Null
  BY <1>1 DEF Ren
<1>6. ASSUME NEW n \in Leaves', heap'[n].nextleaf # Null
      PROVE  /\ heap'[n].nextleaf \in Leaves' \ {n}
             /\ heap'[heap'[n].nextleaf].prevleaf = n
  <2>1. PICK c \in Leaves : n = Ren(old, c)
    BY <1>4
  <2>2. heap'[n].nextleaf = Ren(old, heap[c].nextleaf)
    BY <1>3, <2>1
  <2>3. heap[c].nextleaf \in Leaves \ {c} /\ heap[heap[c].nextleaf].prevleaf = c
    BY <1>5, <1>6, <2>2 DEF ListLinked
  <2>4. Ren(old, heap[c].nextleaf) \in Leaves' /\ Ren(old, heap[c].nextleaf) # n
    BY <1>1, <1>2, <2>1, <2>3 DEF RenNodes
  <2>5. heap'[Ren(old, heap[c].nextleaf)].prevleaf = Ren(old, c)
    BY <1>3, <2>3
  <2>6. QED
    BY <2>1, <2>2, <2>4, <2>5
<1>7. ASSUME NEW n \in Leaves', heap'[n].prevleaf # Null
      PROVE  /\ heap'[n].prevleaf \in Leaves' \ {n}
             /\ heap'[heap'[n].prevleaf].nextleaf = n
  <2>1. PICK c \in Leaves : n = Ren(old, c)
    BY <1>4
  <2>2. heap'[n].prevleaf = Ren(old, heap[c].prevleaf)
    BY <1>3, <2>1
  <2>3. heap[c].prevleaf \in Leaves \ {c} /\ heap[heap[c].prevleaf].nextleaf = c
    BY <1>5, <1>7, <2>2 DEF ListLinked
  <2>4. Ren(old, heap[c].prevleaf) \in Leaves' /\ Ren(old, heap[c].prevleaf) # n
    BY <1>1, <1>2, <2>1, <2>3 DEF RenNodes
  <2>5. heap'[Ren(old, heap[c].prevleaf)].nextleaf = Ren(old, c)
    BY <1>3, <2>3
  <2>6. QED
    BY <2>1, <2>2, <2>4, <2>5
<1>8. ASSUME NEW m \in Leaves', NEW n \in Leaves', heap'[m].prevleaf = Null,
             heap'[n].prevleaf = Null
      PROVE  m = n
  <2>1. PICK c \in Leaves : m = Ren(old, c)
    BY <1>4
  <2>2. PICK d \in Leaves : n = Ren(old, d)
    BY <1>4
  <2>3. heap[c].prevleaf = Null /\ heap[d].prevleaf = Null
    BY <1>3, <1>5, <1>8, <2>1, <2>2
  <2>4. QED
    BY <2>1, <2>2, <2>3 DEF ListLinked
<1>9. root' # Null => \E n \in Leaves' : heap'[n].prevleaf = Null
  <2>1. SUFFICES ASSUME root # Null
                 PROVE  \E n \in Leaves' : heap'[n].prevleaf = Null
    OBVIOUS
  <2>2. PICK c \in Leaves : heap[c].prevleaf = Null
    BY <2>1 DEF ListLinked
  <2>3. heap'[Ren(old, c)].prevleaf = Null /\ Ren(old, c) \in Leaves'
    BY <1>2, <1>3, <1>5, <2>2
  <2>4. QED
    BY <2>3
<1>10. QED
  BY <1>6, <1>7, <1>8, <1>9 DEF ListLinked

\* The nodes stay filled, and marks stay true: the new leaf is a compact one.
LEMMA ReplacedFilled ==
  ASSUME TypeOK, \A n \in Inner : InnerFilled(n) /\ MarkTrue(n),
         \A n \in Leaves : LeafFilled(n),
         canAllocate, NEW old \in Leaves, NEW t, NEW S, NEW u,
         ReplacedFields(old, t, S, u), NewLeaf(t, S, u),
         newchild = Null, newchild' = Null, root' = root,
         stats'.itemcount = stats.itemcount
  PROVE  /\ \A n \in Inner' : InnerFilled(n)' /\ MarkTrue(n)'
         /\ \A n \in Leaves' : LeafFilled(n)'
<1>1. RenNodes(old) /\ Inner' = Inner /\ Leaves' = (Leaves \ {old}) \cup {fresh}
  BY Renaming DEF ReplacedFields
<1>2. ~rootSplit /\ ~rootSplit'
  BY DEF rootSplit
<1>3. /\ heap'[fresh].blindileaftype = t /\ heap'[fresh].items = S
      /\ heap'[fresh].slotuse = u
  BY GivenFields DEF ReplacedFields
<1>4. ASSUME NEW n \in Inner
      PROVE  InnerFilled(n)' /\ MarkTrue(n)'
  <2>1. /\ heap'[n].level = heap[n].level /\ heap'[n].slotkey = heap[n].slotkey
        /\ heap'[n].alreadycomprerss = heap[n].alreadycomprerss
        /\ Len(heap'[n].childid) = Len(heap[n].childid) /\ Slots(n)' = Slots(n)
        /\ \A i \in Slots(n) : heap'[n].childid[i] = Ren(old, heap[n].childid[i])
    BY DEF ReplacedFields, Slots
  <2>2. \A i \in Slots(n) : heap[n].childid[i] \in Allocated
    BY DEF TypeOK, Slots
  <2>3. \A i \in Slots(n) : heap'[heap'[n].childid[i]].level + 1 = heap'[n].level
    BY <1>1, <2>1, <2>2 DEF RenNodes, InnerFilled
  <2>4. InnerFilled(n)'
    BY <1>2, <2>1, <2>3 DEF InnerFilled
  <2>5. ASSUME NEW i \in 1 .. Len(heap[n].slotkey), heap[n].alreadycomprerss
        PROVE  heap'[n].childid[i] \in Leaves' /\ heap'[heap'[n].childid[i]].blindileaftype > 0
    <3>1. PICK c : c = heap[n].childid[i]
      OBVIOUS
    <3>2. c \in Leaves /\ heap[c].blindileaftype > 0
      BY <2>5, <3>1 DEF MarkTrue, isblindileafnode
    <3>3. i \in Slots(n)
      <4>1. Len(heap[n].slotkey) \in Nat
        BY NodeKinds, InnerFields
      <4>2. QED
        BY <4>1 DEF InnerFilled, Slots
    <3>4. heap'[n].childid[i] = Ren(old, c)
      BY <2>1, <3>1, <3>3
    <3>5. CASE c = old
      BY <1>1, <1>3, <3>4, <3>5 DEF Ren, NewLeaf
    <3>6. CASE c # old
      <4>1. Ren(old, c) = c
        BY <3>6 DEF Ren
      <4>2. heap'[c].blindileaftype = heap[c].blindileaftype
        BY <3>2, <3>6 DEF ReplacedFields
      <4>3. QED
        BY <1>1, <3>2, <3>4, <3>6, <4>1, <4>2
    <3>7. QED
      BY <3>5, <3>6
  <2>6. MarkTrue(n)'
    BY <2>1, <2>5 DEF MarkTrue, isblindileafnode
  <2>7. QED
    BY <2>4, <2>6
<1>5. ASSUME NEW n \in Leaves'
      PROVE  LeafFilled(n)'
  <2>1. CASE n = fresh
    BY <1>3, <2>1 DEF LeafFilled, NewLeaf, capacity, isblindileafnode
  <2>2. CASE n # fresh
    <3>1. /\ n \in Leaves /\ heap'[n].blindileaftype = heap[n].blindileaftype
          /\ heap'[n].items = heap[n].items /\ heap'[n].slotuse = heap[n].slotuse
      BY <1>1, <2>2 DEF ReplacedFields
    <3>2. QED
      BY <1>2, <3>1 DEF LeafFilled, capacity, isblindileafnode
  <2>3. QED
    BY <2>1, <2>2
<1>6. QED
  BY <1>1, <1>4, <1>5

\* The path of the call leads down as before, to the new leaf if it led to
\* the old one.
LEMMA ReplacedPath ==
  ASSUME TypeOK, PathLeadsDown, \A n \in Inner : InnerFilled(n), path # <<>>,
         canAllocate, NEW old \in Leaves, NEW t, NEW S, NEW u,
         ReplacedFields(old, t, S, u), root' = root, path' = path
  PROVE  /\ PathLeadsDown' /\ pathEnd' = Ren(old, pathEnd)
         /\ heap'[pathEnd'].level + Len(path') = heap'[root'].level
<1>1. /\ RenNodes(old)
      /\ \A n \in Inner :
           /\ heap'[n].level = heap[n].level /\ heap'[n].slotkey = heap[n].slotkey
           /\ \A i \in Slots(n) :
                heap'[n].childid[i] = Ren(old, heap[n].childid[i])
  BY Renaming DEF ReplacedFields
<1>2. path \in Seq(Inner \X Nat) /\ Len(path) \in Nat
  BY DEF TypeOK
<1>3. \A e \in 1 .. Len(path) : path[e] \in Inner \X Nat
  BY <1>2
<1>4. \A e \in 1 .. Len(path) : path[e][1] \in Inner /\ path[e][2] \in Nat
  BY <1>3
<1>5. root \in Inner
  BY RootInner
<1>6. /\ path'[1][1] = root'
      /\ \A e \in 1 .. Len(path') :
          /\ path'[e][2] \in 0 .. Len(heap'[path'[e][1]].slotkey)
          /\ heap'[path'[e][1]].level + e = heap'[root'].level + 1
  BY <1>1, <1>4, <1>5 DEF PathLeadsDown
<1>7. ASSUME NEW e \in 1 .. Len(path) - 1
      PROVE  path[e + 1][1] = heap'[path[e][1]].childid[path[e][2] + 1]
  <2>1. e \in 1 .. Len(path) /\ e + 1 \in 1 .. Len(path)
    BY <1>2
  <2>2. path[e + 1][1] = heap[path[e][1]].childid[path[e][2] + 1]
    BY DEF PathLeadsDown
  <2>3. path[e][2] + 1 \in Slots(path[e][1])
    <3>1. path[e][2] \in 0 .. Len(heap[path[e][1]].slotkey)
      BY <2>1 DEF PathLeadsDown
    <3>2. /\ Len(heap[path[e][1]].slotkey) \in Nat
          /\ Len(heap[path[e][1]].childid) = Len(heap[path[e][1]].slotkey) + 1
      BY <1>4, <2>1, NodeKinds, InnerFields DEF InnerFilled
    <3>3. QED
      BY <3>1, <3>2 DEF Slots
  <2>4. path[e + 1][1] \in Inner /\ path[e + 1][1] # old
    BY <1>4, <2>1, NodeKinds
  <2>5. heap'[path[e][1]].childid[path[e][2] + 1]
          = Ren(old, heap[path[e][1]].childid[path[e][2] + 1])
    BY <1>1, <1>4, <2>1, <2>3
  <2>6. QED
    BY <2>2, <2>4, <2>5 DEF Ren
<1>8. PathLeadsDown'
  BY <1>6, <1>7 DEF PathLeadsDown
<1>9. PathEndFacts
  BY PathEnd
<1>10. above' = above
  BY DEF above
<1>11. pathEnd' = Ren(old, pathEnd)
  <2>1. pathEnd' = heap'[above[1]].childid[above[2] + 1]
    BY <1>10 DEF pathEnd
  <2>2. QED
    BY <1>1, <1>9, <2>1 DEF PathEndFacts
<1>12. heap'[pathEnd'].level + Len(path') = heap'[root'].level
  BY <1>1, <1>5, <1>9, <1>11 DEF PathEndFacts, RenNodes
<1>13. QED
  BY <1>8, <1>11, <1>12

\* The counters follow: as many leaves, one more of the new type and one less
\* of the old one.
LEMMA ReplacedCounted ==
  ASSUME TypeOK, Counted, canAllocate, NEW old \in Leaves, NEW t \in Types,
         NEW S, NEW u, ReplacedFields(old, t, S, u),
         t # heap[old].blindileaftype, stored' = stored,
         stats' = freed(allocated(stats, t), heap[old].blindileaftype)
  PROVE  /\ Counted' /\ stats' \in Counters
         /\ stats'.itemcount = stats.itemcount
         /\ t > 0 => stats'.ofType[0] <= stats.ofType[0]
<1> DEFINE o == heap[old].blindileaftype
<1>1. /\ o \in Types /\ old \in Leaves /\ fresh \notin Allocated
      /\ Leaves \in SUBSET Allocated /\ Inner \in SUBSET Allocated
      /\ 0 \in Types
  BY NodeKinds, LeafFields, FreshNode, ElasticAssumption DEF Types
<1>2. stats \in Counters
  BY CountersType
<1> HIDE DEF o
<1>3. stats' = freed(allocated(stats, t), o) /\ o # t
  BY DEF o
<1>4. /\ stats' \in Counters
      /\ stats'.leaves = stats.leaves /\ stats'.innernodes = stats.innernodes
      /\ stats'.itemcount = stats.itemcount
      /\ \A y \in Types : stats'.ofType[y] =
           IF y = t THEN stats.ofType[y] + 1
           ELSE IF y = o THEN stats.ofType[y] - 1 ELSE stats.ofType[y]
  BY <1>1, <1>2, <1>3, ReplacementCounted
<1>5. IsFiniteSet(Leaves) /\ IsFiniteSet(Allocated)
  BY <1>1, FS_Subset DEF Counted
<1>6. IsFiniteSet(Allocated')
  <2>1. IsFiniteSet(Allocated \ {old})
    BY <1>5, FS_RemoveElement
  <2>2. Allocated' = (Allocated \ {old}) \cup {fresh}
    BY DEF ReplacedFields
  <2>3. QED
    BY <2>1, <2>2, FS_AddElement
<1>7. Cardinality(Leaves') = Cardinality(Leaves)
  <2>1. IsFiniteSet(Leaves \ {old})
        /\ Cardinality(Leaves \ {old}) = Cardinality(Leaves) - 1
    BY <1>1, <1>5, FS_RemoveElement
  <2>2. fresh \notin Leaves \ {old}
    BY <1>1
  <2>3. Cardinality((Leaves \ {old}) \cup {fresh}) = Cardinality(Leaves) - 1 + 1
    BY <2>1, <2>2, FS_AddElement
  <2>4. Cardinality(Leaves) \in Nat
    BY <1>5, FS_CardinalityType
  <2>5. QED
    BY <2>3, <2>4 DEF ReplacedFields
<1>8. ASSUME NEW y \in Types
      PROVE  stats'.ofType[y]
               = Cardinality({n \in Leaves' : heap'[n].blindileaftype = y})
  <2>1. PICK A : A = {n \in Leaves : heap[n].blindileaftype = y}
    OBVIOUS
  <2>2. A \in SUBSET Leaves
    BY <2>1
  <2>3. /\ IsFiniteSet(A) /\ Cardinality(A) \in Nat
        /\ stats.ofType[y] = Cardinality(A)
    BY <1>5, <2>1, <2>2, FS_Subset, FS_CardinalityType DEF Counted
  <2>4. PICK B : B = {n \in Leaves' : heap'[n].blindileaftype = y}
    OBVIOUS
  <2>5. heap'[fresh].blindileaftype = t
    BY GivenFields DEF ReplacedFields
  <2>6. B = (A \ {old}) \cup (IF y = t THEN {fresh} ELSE {})
    BY <1>1, <2>1, <2>4, <2>5 DEF ReplacedFields
  <2>7. CASE y = t
    <3>1. old \notin A
      BY <1>3, <2>1, <2>7 DEF o
    <3>2. B = A \cup {fresh} /\ fresh \notin A
      BY <1>1, <2>2, <2>6, <2>7, <3>1
    <3>3. Cardinality(B) = Cardinality(A) + 1
      BY <2>3, <3>2, FS_AddElement
    <3>4. QED
      BY <1>4, <2>3, <2>4, <2>7, <3>3
  <2>8. CASE y # t /\ y = o
    <3>1. B = A \ {old} /\ old \in A
      BY <1>1, <2>1, <2>6, <2>8 DEF o
    <3>2. Cardinality(B) = Cardinality(A) - 1
      BY <2>3, <3>1, FS_RemoveElement
    <3>3. QED
      BY <1>4, <2>3, <2>4, <2>8, <3>2
  <2>9. CASE y # t /\ y # o
    <3>1. B = A
      BY <1>1, <2>1, <2>6, <2>9 DEF o
    <3>2. QED
      BY <1>4, <2>3, <2>4, <2>9, <3>1
  <2>10. QED
    BY <2>7, <2>8, <2>9
<1>9. Counted'
  BY <1>4, <1>6, <1>7, <1>8 DEF Counted, ReplacedFields
<1>10. t > 0 => stats'.ofType[0] <= stats.ofType[0]
  <2>1. stats.ofType[0] \in Int
    BY <1>1, <1>2 DEF Counters
  <2>2. QED
    BY <1>1, <1>4, <2>1
<1>11. QED
  BY <1>4, <1>9, <1>10 DEF o

\* What the three actions that replace a leaf have in common: the call goes
\* on at the new leaf if it was at the old one, and only a call that has
\* stored its key leaves one behind that has a key more.
ReplacingStep(old, t, S, u) ==
  /\ NewLeaf(t, S, u) /\ t # heap[old].blindileaftype
  /\ pc \in {"descend", "store"} /\ path # <<>> /\ cur \in Leaves
  /\ stats' = freed(allocated(stats, t), heap[old].blindileaftype)
  /\ UNCHANGED <<root, head, tail, limits, key, path, split, stored>>
  /\ cur' = Ren(old, cur)
  /\ \/ /\ pc' = "store" /\ S = heap[old].items
        /\ isblindileafnode(cur)'
     \/ pc' = "unwind" /\ S = heap[old].items \cup {key} /\ old = cur

\* A leaf is replaced in such a step.
LeafReplaced ==
  /\ canAllocate
  /\ \E old \in Leaves : \E t, S, u :
       ReplacedFields(old, t, S, u) /\ ReplacingStep(old, t, S, u)

\* Every one of them keeps the invariant, and makes no plain leaf.
LEMMA ReplacedInv ==
  ASSUME ElasticInv, canAllocate, NEW old \in Leaves, NEW t, NEW S, NEW u,
         ReplacedFields(old, t, S, u), ReplacingStep(old, t, S, u)
  PROVE  ElasticInv' /\ stats'.ofType[0] <= stats.ofType[0]
<1>1. /\ TypeOK /\ LinkedOnce /\ ListLinked /\ PathLeadsDown /\ Counted
      /\ \A n \in Inner : InnerFilled(n) /\ MarkTrue(n)
      /\ \A n \in Leaves : LeafFilled(n)
      /\ UNION {heap[n].items : n \in Leaves} = stored \cup beingStored
      /\ newchild = Null /\ cur = pathEnd /\ pc # "idle" /\ path # <<>>
      /\ root # Null /\ key \in Keys \ stored
  BY DEF ElasticInv, Tree, CallUnderWay, ReplacingStep
<1>2. /\ root' = root /\ head' = head /\ tail' = tail
      /\ hybridstatus' = hybridstatus
      /\ limit2MustCompress' = limit2MustCompress
      /\ key' = key /\ path' = path /\ newkey' = newkey
      /\ newchild' = newchild /\ stored' = stored
  BY DEF ReplacingStep, limits, split
<1>3. /\ RenNodes(old) /\ root \in Inner /\ root # old /\ PathEndFacts
      /\ fresh \notin Allocated
  BY <1>1, Renaming, RootInner, PathEnd, NodeKinds, FreshNode
<1>4. NewLeaf(t, S, u) /\ t \in Types /\ t > 0
  BY DEF ReplacingStep, NewLeaf
<1>5. /\ Counted' /\ stats' \in Counters /\ stats'.itemcount = stats.itemcount
      /\ stats'.ofType[0] <= stats.ofType[0]
  BY <1>1, <1>2, <1>4, ReplacedCounted DEF ReplacingStep
<1>6. LinkedOnce'
  BY <1>1, <1>2, <1>3, ReplacedLinks
<1>7. ListLinked'
  BY <1>1, <1>2, ReplacedList
<1>8. /\ \A n \in Inner' : InnerFilled(n)' /\ MarkTrue(n)'
      /\ \A n \in Leaves' : LeafFilled(n)'
  BY <1>1, <1>2, <1>4, <1>5, ReplacedFilled
<1>9. /\ PathLeadsDown' /\ pathEnd' = Ren(old, pathEnd)
      /\ heap'[pathEnd'].level + Len(path') = heap'[root'].level
  BY <1>1, <1>2, ReplacedPath
<1>10. UNION {heap'[n].items : n \in Leaves'} = stored' \cup beingStored'
  <2>1. heap'[fresh].items = S /\ Leaves' = (Leaves \ {old}) \cup {fresh}
    BY GivenFields DEF ReplacedFields
  <2>2. \A n \in Leaves \ {old} : n # fresh /\ heap'[n].items = heap[n].items
    BY <1>1, <1>3, NodeKinds DEF ReplacedFields
  <2>3. PICK A : A = UNION {heap[n].items : n \in Leaves \ {old}}
    OBVIOUS
  <2>4. UNION {heap[n].items : n \in Leaves} = A \cup heap[old].items
    BY <2>3
  <2>5. UNION {heap'[n].items : n \in Leaves'} = A \cup S
    BY <2>1, <2>2, <2>3
  <2>6. beingStored = {}
    BY DEF beingStored, ReplacingStep
  <2>7. S = heap[old].items \cup beingStored'
    BY <1>2 DEF beingStored, ReplacingStep
  <2>8. QED
    BY <1>1, <1>2, <2>4, <2>5, <2>6, <2>7
<1>11. root' \in Inner' /\ root' \notin Leaves' /\ root' # Null
  <2>1. Inner' = Inner
    BY DEF ReplacedFields
  <2>2. QED
    BY <1>1, <1>2, <1>3, <2>1 DEF Inner
<1>12. Tree'
  BY <1>6, <1>7, <1>8, <1>10, <1>11 DEF Tree, RootLeafPlain
<1>13. TypeOK'
  <2>1. /\ Allocated' \subseteq Nodes
        /\ heap' \in [Allocated' -> LeafNodes \cup InnerNodes]
        /\ \A n \in Inner' : heap'[n].childid \in Seq(Allocated')
    <3>1. Allocated' \subseteq Nodes
      BY <1>1, FreshNode DEF TypeOK, ReplacedFields
    <3>2. QED
      BY <3>1 DEF ReplacedFields
  <2>2. stats' \in [leaves : Nat, innernodes : Nat, itemcount : Nat,
                    ofType : [Types -> Nat]]
    BY <1>5, CountersType
  <2>3. root' \in Allocated' \cup {Null} /\ cur' \in Allocated' \cup {Null}
    <3>1. cur \in Allocated /\ root \in Allocated
      BY <1>3, NodeKinds, <1>1 DEF PathEndFacts
    <3>2. Ren(old, cur) \in Allocated' /\ Ren(old, root) = root
      BY <1>3, <3>1 DEF RenNodes
    <3>3. Ren(old, root) \in Allocated'
      BY <1>3, <3>1 DEF RenNodes
    <3>4. QED
      BY <1>2, <3>2, <3>3 DEF ReplacingStep
  <2>4. path' \in Seq(Inner' \X Nat)
    BY <1>1, <1>2 DEF TypeOK, ReplacedFields
  <2>5. pc' \in {"idle", "descend", "store", "unwind"}
    BY DEF ReplacingStep
  <2>6. /\ {head', tail'} \subseteq Pointers
        /\ hybridstatus' \in {"CONTINUE", "SHOULD_COMPRESS", "MUST_COMPRESS"}
        /\ limit2MustCompress' \in 0 .. SizeTop - 1
        /\ key' \in Keys \cup {Null} /\ newkey' \in Keys \cup {Null}
        /\ newchild' \in Allocated' \cup {Null} /\ stored' \subseteq Keys
    BY <1>1, <1>2 DEF TypeOK
  <2>7. QED
    BY <2>1, <2>2, <2>3, <2>4, <2>5, <2>6 DEF TypeOK
<1>14. cur' = pathEnd' /\ cur' \in Leaves' /\ cur' \in Allocated'
  <2>1. cur' = pathEnd'
    BY <1>1, <1>9 DEF ReplacingStep
  <2>2. cur' \in Leaves'
    BY <1>1, <1>3, NodeKinds DEF ReplacingStep, RenNodes
  <2>3. QED
    BY <2>1, <2>2 DEF Leaves
<1>15. CallUnderWay'
  <2>1. newchild' = Null
    BY <1>1, <1>2
  <2>2. SplitAlike'
    BY <2>1 DEF SplitAlike
  <2>3. pc' # "idle" /\ pc' # "descend"
    BY DEF ReplacingStep
  <2>4. root' # Null /\ key' \in Keys \ stored'
    BY <1>1, <1>2
  <2>5. heap'[cur'].level + Len(path') = heap'[root'].level
    BY <1>9, <1>14
  <2>6. QED
    BY <1>9, <1>14, <2>1, <2>2, <2>3, <2>4, <2>5 DEF CallUnderWay
<1>16. StatusDriven'
  <2>1. newchild' \notin Leaves'
    <3>1. Leaves' \subseteq Nodes
      BY <1>13 DEF TypeOK, Leaves
    <3>2. QED
      BY <1>1, <1>2, <3>1, ElasticAssumption
  <2>2. pc' = "store" => isblindileafnode(cur)'
    BY DEF ReplacingStep
  <2>3. hybridstatus' = "CONTINUE" /\ stats'.itemcount > ShouldLimit
          => stats'.ofType[0] = 0
    <3>1. SUFFICES ASSUME hybridstatus = "CONTINUE",
                          stats.itemcount > ShouldLimit
                   PROVE  stats'.ofType[0] = 0
      BY <1>2, <1>5
    <3>2. stats.ofType[0] = 0
      BY <3>1 DEF ElasticInv, StatusDriven
    <3>3. stats'.ofType[0] \in Nat
      <4>1. 0 \in Types
        BY ElasticAssumption DEF Types
      <4>2. stats'.ofType \in [Types -> Nat]
        BY <1>13 DEF TypeOK
      <4>3. QED
        BY <4>1, <4>2
    <3>4. QED
      BY <1>5, <3>2, <3>3
  <2>4. hybridstatus' # "CONTINUE" => stats'.itemcount > ShouldLimit
    BY <1>2, <1>5 DEF ElasticInv, StatusDriven
  <2>5. QED
    BY <2>1, <2>2, <2>3, <2>4 DEF StatusDriven, isblindileafnode
<1>17. QED
  BY <1>5, <1>12, <1>13, <1>15, <1>16 DEF ElasticInv

\* The leaf types: a plain leaf has none, and a compact one may grow to twice
\* its size unless it has the largest.
LEMMA TypeFacts ==
  /\ 0 \in Types /\ 1 \in Types
  /\ MaxMulti > 1 => 2 \in Types
  /\ \A t \in Types : /\ t \in Nat
                      /\ ~(t > 0) => t = 0
                      /\ t > 0 /\ t # MaxMulti => 2 * t \in Types
                      /\ t > 0 => 2 * t # t /\ 2 * t > 0
<1>1. MaxMulti \in {1, 2, 4, 8}
  BY ElasticAssumption
<1>2. \A t \in Types : t \in {0, 1, 2, 4, 8} /\ t <= MaxMulti
  BY DEF Types
<1>3. \A t \in Types : t > 0 /\ t # MaxMulti => 2 * t \in Types
  BY <1>1, <1>2 DEF Types
<1>4. \A t \in Types : /\ t \in Nat /\ (~(t > 0) => t = 0)
                       /\ (t > 0 => 2 * t # t /\ 2 * t > 0)
  BY <1>2
<1>5. 0 \in Types /\ 1 \in Types /\ (MaxMulti > 1 => 2 \in Types)
  BY <1>1 DEF Types
<1>6. QED
  BY <1>3, <1>4, <1>5

\* The slots of a compact leaf.
LEMMA TypeSlots ==
  /\ leafslotmax \in Nat /\ leafslotmax >= 2
  /\ \A t \in Types : /\ leafslotmax * t \in Nat
                      /\ t > 0 => leafslotmax * t >= leafslotmax
                      /\ t > 0 => leafslotmax * (2 * t) >= leafslotmax * t + 1
<1>1. leafslotmax \in Nat /\ leafslotmax >= 2
  BY ElasticAssumption
<1>2. ASSUME NEW t \in Types
      PROVE  /\ t > 0 => leafslotmax * (2 * t) >= leafslotmax * t + 1
             /\ t > 0 => leafslotmax * t >= leafslotmax
             /\ leafslotmax * t \in Nat
  <2>1. CASE t = 0
    BY <1>1, <2>1
  <2>2. CASE t = 1
    BY <1>1, <2>2
  <2>3. CASE t = 2
    BY <1>1, <2>3
  <2>4. CASE t = 4
    BY <1>1, <2>4
  <2>5. CASE t = 8
    BY <1>1, <2>5
  <2>6. t \in {0, 1, 2, 4, 8}
    BY DEF Types
  <2>7. QED
    BY <2>1, <2>2, <2>3, <2>4, <2>5, <2>6
<1>3. QED
  BY <1>1, <1>2

\* A leaf that is not a root, and what it holds.
LeafFacts(n) ==
  /\ heap[n] \in LeafNodes /\ heap[n].blindileaftype \in Types
  /\ IsFiniteSet(heap[n].items) /\ heap[n].items \in SUBSET Keys
  /\ heap[n].slotuse \in Nat
  /\ heap[n].slotuse = Cardinality(heap[n].items)
  /\ heap[n].slotuse <= capacity(n)
  /\ heap[n].slotuse >= leafslotmax \div 2

\* A leaf that an inner node points to is such a leaf.
LEMMA LeafBelow ==
  ASSUME ElasticInv, newchild = Null, NEW p \in Inner, NEW i \in Slots(p),
         heap[p].childid[i] \in Leaves
  PROVE  LeafFacts(heap[p].childid[i]) /\ heap[p].childid[i] # root
<1>1. /\ TypeOK /\ LinkedOnce /\ \A n \in Leaves : LeafFilled(n)
  BY DEF ElasticInv, Tree
<1>2. PICK n \in Leaves : n = heap[p].childid[i]
  OBVIOUS
<1>3. n # root
  BY <1>1, <1>2 DEF LinkedOnce
<1>4. heap[n] \in LeafNodes
  BY <1>1, NodeKinds
<1>5. LeafFacts(n)
  BY <1>1, <1>3, <1>4, LeafFields DEF LeafFilled, LeafFacts
<1>6. QED
  BY <1>2, <1>3, <1>5

\* Where the call is when it is at a leaf: below an inner node, unless the
\* leaf is a plain root and nothing is compressed.
LEMMA AtLeaf ==
  ASSUME ElasticInv, pc \in {"descend", "store"}, isleafnode(cur)
  PROVE  /\ newchild = Null /\ cur \in Leaves /\ cur = pathEnd
         /\ path # <<>> => PathEndFacts /\ LeafFacts(cur) /\ cur # root
         /\ path = <<>> => /\ cur = root /\ hybridstatus = "CONTINUE"
                           /\ ~isblindileafnode(cur)
<1>1. /\ TypeOK /\ newchild = Null /\ cur \in Allocated /\ cur = pathEnd
      /\ PathLeadsDown /\ RootLeafPlain /\ \A n \in Inner : InnerFilled(n)
  BY DEF ElasticInv, Tree, CallUnderWay
<1>2. cur \in Leaves
  BY <1>1 DEF isleafnode, Leaves
<1>3. ASSUME path # <<>>
      PROVE  PathEndFacts /\ LeafFacts(cur) /\ cur # root
  <2>1. PathEndFacts
    BY <1>1, <1>3, PathEnd
  <2>2. PICK p, s : p = above[1] /\ s = above[2] + 1
    OBVIOUS
  <2>3. p \in Inner /\ s \in Slots(p) /\ cur = heap[p].childid[s]
    BY <1>1, <2>1, <2>2 DEF PathEndFacts
  <2>4. QED
    BY <1>1, <1>2, <2>1, <2>3, LeafBelow
<1>4. ASSUME path = <<>>
      PROVE  cur = root /\ hybridstatus = "CONTINUE" /\ ~isblindileafnode(cur)
  BY <1>1, <1>2, <1>4 DEF pathEnd, RootLeafPlain, isblindileafnode
<1>5. QED
  BY <1>1, <1>2, <1>3, <1>4

\* A plain leaf is transferred.
LEMMA TransferLeafInv ==
  ASSUME ElasticInv, TransferLeaf
  PROVE  /\ LeafReplaced
         /\ ElasticInv' /\ stats'.ofType[0] <= stats.ofType[0]
<1>1. /\ pc = "descend" /\ isleafnode(cur) /\ ~isblindileafnode(cur)
      /\ canAllocate /\ mustTransfer
  BY DEF TransferLeaf
<1>2. hybridstatus # "CONTINUE"
  BY <1>1 DEF mustTransfer
<1>3. /\ newchild = Null /\ cur \in Leaves /\ cur = pathEnd /\ path # <<>>
      /\ PathEndFacts /\ LeafFacts(cur) /\ cur # root
  BY <1>1, <1>2, AtLeaf
<1>4. TypeOK /\ LinkedOnce /\ ListLinked
  BY DEF ElasticInv, Tree
<1>5. heap[cur].blindileaftype = 0
  BY <1>1, <1>3, TypeFacts DEF LeafFacts, isblindileafnode
<1>6. PICK t :
        /\ t \in {1, 2}
        /\ t = 2 => MaxMulti > 1
        /\ heap' = replaceLeaf(cur, t, above)
        /\ stats' = freed(allocated(stats, t), 0)
  <2>1. PICK t : t = IF isfullbtree(cur) /\ MaxMulti > 1 THEN 2 ELSE 1
    OBVIOUS
  <2>2. /\ heap' = replaceLeaf(cur, t, above)
        /\ stats' = freed(allocated(stats, t), 0)
    BY <2>1 DEF TransferLeaf
  <2>3. t \in {1, 2} /\ (t = 2 => MaxMulti > 1)
    <3>1. CASE isfullbtree(cur) /\ MaxMulti > 1
      BY <2>1, <3>1
    <3>2. CASE ~(isfullbtree(cur) /\ MaxMulti > 1)
      <4>1. t = 1
        BY <2>1, <3>2
      <4>2. QED
        BY <4>1
    <3>3. QED
      BY <3>1, <3>2
  <2>4. QED
    BY <2>2, <2>3
<1>7. t \in Types /\ t > 0
  BY <1>6, TypeFacts
<1>8. PICK p, s : above = <<p, s>> /\ p = above[1] /\ s = above[2]
  BY <1>3 DEF PathEndFacts
<1>9. p \in Inner /\ s \in Nat /\ s + 1 \in Slots(p)
      /\ heap[p].childid[s + 1] = cur
  BY <1>3, <1>8 DEF PathEndFacts
<1> DEFINE S == heap[cur].items
           u == heap[cur].slotuse
<1>10. Replaced(heap', cur, t, S, u)
  BY <1>1, <1>3, <1>4, <1>6, <1>8, <1>9, ReplaceEffect
<1>11. NewLeaf(t, S, u)
  <2>1. u <= leafslotmax
    BY <1>3, <1>5 DEF LeafFacts, capacity, isblindileafnode
  <2>2. leafslotmax * t \in Nat /\ leafslotmax * t >= leafslotmax
    BY <1>7, TypeSlots
  <2>3. u <= leafslotmax * t
    BY <1>3, <2>1, <2>2, TypeSlots DEF LeafFacts
  <2>4. QED
    BY <1>3, <1>7, <2>3 DEF LeafFacts, NewLeaf
<1>12. S \in SUBSET Keys /\ u \in Nat
  BY <1>3 DEF LeafFacts
<1> HIDE DEF S, u
<1>13. ReplacedFields(cur, t, S, u)
  BY <1>1, <1>3, <1>4, <1>7, <1>10, <1>12, ReplacedNodes
<1>14. isblindileafnode(cur)'
  <2>1. cur' = fresh /\ heap'[fresh].blindileaftype = t
    BY <1>13, GivenFields DEF TransferLeaf, ReplacedFields
  <2>2. QED
    BY <1>7, <2>1 DEF isblindileafnode
<1>15. ReplacingStep(cur, t, S, u)
  <2>1. /\ pc' = "store" /\ cur' = Ren(cur, cur)
        /\ UNCHANGED <<root, head, tail, limits, key, path, split, stored>>
    BY DEF TransferLeaf, Ren
  <2>2. stats' = freed(allocated(stats, t), heap[cur].blindileaftype)
    BY <1>5, <1>6
  <2>3. t # heap[cur].blindileaftype
    BY <1>5, <1>7
  <2>4. S = heap[cur].items
    BY DEF S
  <2>5. QED
    BY <1>1, <1>3, <1>11, <1>14, <2>1, <2>2, <2>3, <2>4 DEF ReplacingStep
<1>16. QED
  BY <1>1, <1>3, <1>13, <1>15, ReplacedInv DEF LeafReplaced

\* A full compact leaf grows.
LEMMA StoreExtendInv ==
  ASSUME ElasticInv, StoreExtend
  PROVE  /\ LeafReplaced
         /\ ElasticInv' /\ stats'.ofType[0] <= stats.ofType[0]
<1>1. /\ pc = "store" /\ isblindileafnode(cur) /\ isfullblindi(cur)
      /\ isblindi_can_extend(cur) /\ canAllocate
  BY DEF StoreExtend
<1>2. isleafnode(cur)
  BY <1>1 DEF ElasticInv, CallUnderWay, Leaves, isleafnode
<1>3. /\ newchild = Null /\ cur \in Leaves /\ cur = pathEnd /\ path # <<>>
      /\ PathEndFacts /\ LeafFacts(cur) /\ cur # root
  BY <1>1, <1>2, AtLeaf
<1>4. /\ TypeOK /\ LinkedOnce /\ ListLinked /\ key \in Keys \ stored
      /\ UNION {heap[n].items : n \in Leaves} = stored \cup beingStored
  BY <1>1 DEF ElasticInv, Tree, CallUnderWay
<1> DEFINE o == heap[cur].blindileaftype
           S == heap[cur].items
           u == heap[cur].slotuse
<1>5. o \in Types /\ o > 0 /\ u = leafslotmax * o /\ o # MaxMulti
  BY <1>1, <1>3 DEF LeafFacts, isblindileafnode, isfullblindi,
                    isblindi_can_extend
<1>6. PICK t : t = 2 * o
  OBVIOUS
<1>7. t \in Types /\ t > 0 /\ t # o /\ leafslotmax * t >= u + 1
  <2>1. o \in Nat /\ 2 * o \in Types /\ 2 * o # o
        /\ leafslotmax * (2 * o) >= leafslotmax * o + 1
    BY <1>5, TypeFacts, TypeSlots
  <2> HIDE DEF o, u
  <2>2. t > 0
    BY <1>5, <1>6, TypeFacts
  <2>3. QED
    BY <1>5, <1>6, <2>1, <2>2
<1>8. PICK p, s : above = <<p, s>> /\ p = above[1] /\ s = above[2]
  BY <1>3 DEF PathEndFacts
<1>9. p \in Inner /\ s \in Nat /\ s + 1 \in Slots(p)
      /\ heap[p].childid[s + 1] = cur
  BY <1>3, <1>8 DEF PathEndFacts
<1>10. PICK grown : grown = replaceLeaf(cur, t, above)
  OBVIOUS
<1>11. /\ heap' = [grown EXCEPT ![fresh] = with(@, key)]
       /\ stats' = freed(allocated(stats, t), o)
  BY <1>6, <1>10 DEF StoreExtend
<1>12. Replaced(grown, cur, t, S, u)
  BY <1>1, <1>3, <1>4, <1>8, <1>9, <1>10, ReplaceEffect
<1>13. S \in SUBSET Keys /\ IsFiniteSet(S) /\ u = Cardinality(S) /\ u \in Nat
       /\ u >= leafslotmax \div 2
  BY <1>3 DEF LeafFacts
<1>14. key \notin S /\ key \in Keys
  <2>1. S \subseteq UNION {heap[n].items : n \in Leaves}
    BY <1>3
  <2>2. beingStored = {}
    BY <1>1 DEF beingStored
  <2>3. QED
    BY <1>4, <2>1, <2>2
<1> HIDE DEF S, u, o
<1>15. Replaced(heap', cur, t, S \cup {key}, u + 1)
  BY <1>1, <1>3, <1>11, <1>12, ExtendEffect
<1>16. NewLeaf(t, S \cup {key}, u + 1)
  <2>1. IsFiniteSet(S \cup {key}) /\ Cardinality(S \cup {key}) = u + 1
    BY <1>13, <1>14, FS_AddElement
  <2>2. S \cup {key} \in SUBSET Keys
    BY <1>13, <1>14
  <2>3. u + 1 \in Nat /\ u + 1 <= leafslotmax * t /\ u + 1 >= leafslotmax \div 2
    <3>1. leafslotmax * t \in Nat /\ leafslotmax \in Nat
      BY <1>7, TypeSlots
    <3>2. QED
      BY <1>7, <1>13, <3>1
  <2>4. QED
    BY <1>7, <2>1, <2>2, <2>3 DEF NewLeaf
<1>17. ReplacedFields(cur, t, S \cup {key}, u + 1)
  <2>1. S \cup {key} \in SUBSET Keys /\ u + 1 \in Nat
    BY <1>13, <1>14
  <2>2. QED
    BY <1>1, <1>3, <1>4, <1>7, <1>15, <2>1, ReplacedNodes
<1>18. ReplacingStep(cur, t, S \cup {key}, u + 1)
  <2>1. /\ pc' = "unwind" /\ cur' = Ren(cur, cur)
        /\ UNCHANGED <<root, head, tail, limits, key, path, split, stored>>
    BY DEF StoreExtend, Ren
  <2>2. stats' = freed(allocated(stats, t), heap[cur].blindileaftype)
        /\ t # heap[cur].blindileaftype
    BY <1>7, <1>11 DEF o
  <2>3. S \cup {key} = heap[cur].items \cup {key}
    BY DEF S
  <2>4. QED
    BY <1>1, <1>3, <1>16, <2>1, <2>2, <2>3 DEF ReplacingStep
<1>19. QED
  BY <1>1, <1>3, <1>17, <1>18, ReplacedInv DEF LeafReplaced

\* The first plain sibling is transferred, or none is found and the parent is
\* marked.
LEMMA TransferSiblingInv ==
  ASSUME ElasticInv, pc = "descend", isleafnode(cur), isblindileafnode(cur),
         hybridstatus = "MUST_COMPRESS", canAllocate,
         plainSiblings(above[1]) # {},
         LET parent == above[1]
             plain == plainSiblings(parent)
         IN  heap' = replaceLeaf(heap[parent].childid[Min(plain)], 1,
                                 <<parent, Min(plain) - 1>>),
         stats' = freed(allocated(stats, 1), 0), pc' = "store",
         UNCHANGED <<root, head, tail, limits, key, cur, path, split, stored>>
  PROVE  /\ LeafReplaced
         /\ ElasticInv' /\ stats'.ofType[0] <= stats.ofType[0]
<1>1. /\ newchild = Null /\ cur \in Leaves /\ cur = pathEnd /\ path # <<>>
      /\ PathEndFacts
  BY AtLeaf
<1>2. /\ TypeOK /\ LinkedOnce /\ ListLinked /\ \A n \in Inner : InnerFilled(n)
  BY DEF ElasticInv, Tree
<1>3. PICK p : p = above[1]
  OBVIOUS
<1>4. p \in Inner /\ heap[p] \in InnerNodes /\ InnerFilled(p)
  BY <1>1, <1>2, <1>3, NodeKinds DEF PathEndFacts
<1>5. PICK i : i = Min(plainSiblings(p))
  OBVIOUS
<1>6. i \in 1 .. Len(heap[p].slotkey) /\ ~isblindileafnode(heap[p].childid[i])
  <2>1. plainSiblings(p) \in SUBSET Nat
    BY <1>4, InnerFields DEF plainSiblings
  <2>2. PICK m \in plainSiblings(p) : \A n \in plainSiblings(p) : m <= n
    BY <1>3, <2>1, LeastNatural
  <2>3. i \in plainSiblings(p)
    BY <1>5, <2>2 DEF Min
  <2>4. QED
    BY <2>3 DEF plainSiblings
<1>7. PICK old : old = heap[p].childid[i]
  OBVIOUS
<1>8. i \in Slots(p) /\ i - 1 \in Nat /\ (i - 1) + 1 = i
  BY <1>4, <1>6, InnerFields DEF InnerFilled, Slots
<1>9. old \in Leaves
  <2>1. heap[p].childid \in Seq(Allocated)
    BY <1>2, <1>4 DEF TypeOK
  <2>2. old \in Allocated
    BY <1>7, <1>8, <2>1 DEF Slots
  <2>3. heap[old].level + 1 = heap[p].level
    BY <1>4, <1>7, <1>8 DEF InnerFilled
  <2>4. heap[cur].level + 1 = heap[p].level /\ heap[cur].level = 0
    <3>1. /\ above[2] + 1 \in Slots(p)
          /\ cur = heap[p].childid[above[2] + 1]
      BY <1>1, <1>3 DEF PathEndFacts
    <3>2. heap[cur].level + 1 = heap[p].level
      BY <1>4, <3>1 DEF InnerFilled
    <3>3. QED
      BY <1>1, <3>2 DEF Leaves
  <2>5. heap[old].level \in Nat
    BY <1>2, <2>2, NodeKinds, LeafFields, InnerFields
  <2>6. heap[old].level = 0
    BY <2>3, <2>4, <2>5
  <2>7. QED
    BY <2>2, <2>6 DEF Leaves
<1>10. LeafFacts(old) /\ old # root
  BY <1>1, <1>4, <1>7, <1>8, <1>9, LeafBelow
<1>11. heap[old].blindileaftype = 0 /\ old # cur
  BY <1>6, <1>7, <1>10, TypeFacts DEF LeafFacts, isblindileafnode
<1>12. 1 \in Types
  BY TypeFacts
<1> DEFINE S == heap[old].items
           u == heap[old].slotuse
<1>13. heap' = replaceLeaf(old, 1, <<p, i - 1>>)
  BY <1>3, <1>5, <1>7
<1>14. Replaced(heap', old, 1, S, u)
  BY <1>2, <1>4, <1>7, <1>8, <1>9, <1>13, ReplaceEffect
<1>15. S \in SUBSET Keys /\ u \in Nat
  BY <1>10 DEF LeafFacts
<1>16. NewLeaf(1, S, u)
  <2>1. u <= leafslotmax
    BY <1>10, <1>11 DEF LeafFacts, capacity, isblindileafnode
  <2>2. u <= leafslotmax * 1
    BY <2>1, TypeSlots
  <2>3. QED
    BY <1>10, <1>12, <2>2 DEF LeafFacts, NewLeaf
<1>17. ReplacedFields(old, 1, S, u)
  <2> HIDE DEF S, u
  <2>1. QED
    BY <1>2, <1>9, <1>12, <1>14, <1>15, ReplacedNodes
<1>18. isblindileafnode(cur)'
  <2>1. cur' = cur /\ heap'[cur].blindileaftype = heap[cur].blindileaftype
    BY <1>1, <1>11, <1>17 DEF ReplacedFields
  <2>2. QED
    BY <2>1 DEF isblindileafnode
<1>19. ReplacingStep(old, 1, S, u)
  <2>1. cur' = Ren(old, cur)
    BY <1>11 DEF Ren
  <2>2. stats' = freed(allocated(stats, 1), heap[old].blindileaftype)
        /\ 1 # heap[old].blindileaftype
    BY <1>11
  <2>3. QED
    BY <1>1, <1>16, <1>18, <2>1, <2>2 DEF ReplacingStep
<1> HIDE DEF S, u
<1>20. QED
  BY <1>9, <1>17, <1>19, ReplacedInv DEF LeafReplaced

-----------------------------------------------------------------------------
(* Steps that change no more of the heap than a mark *)

\* All nodes are what they were, but for a mark.
SameNodes ==
  /\ Allocated' = Allocated /\ Leaves' = Leaves /\ Inner' = Inner
  /\ heap' \in [Allocated' -> LeafNodes \cup InnerNodes]
  /\ \A n \in Leaves : heap'[n] = heap[n]
  /\ \A n \in Inner : /\ heap'[n].level = heap[n].level
                      /\ heap'[n].slotkey = heap[n].slotkey
                      /\ heap'[n].childid = heap[n].childid

\* The tree that they are is the same.
TreeParts ==
  /\ LinkedOnce /\ ListLinked
  /\ \A n \in Inner : InnerFilled(n)
  /\ \A n \in Leaves : LeafFilled(n)
  /\ root = Null => Allocated = {}

\* Nodes that stay as they are stay the tree that they are.
LEMMA SameTree ==
  ASSUME TypeOK, TreeParts, SameNodes, root' = root, newchild = Null,
         newchild' = Null
  PROVE  /\ TreeParts'
         /\ \A n \in Inner' : heap'[n].childid \in Seq(Allocated')
         /\ \A n \in Allocated : heap'[n].level = heap[n].level
         /\ UNION {heap'[n].items : n \in Leaves'}
              = UNION {heap[n].items : n \in Leaves}
<1>1. /\ \A n \in Inner : heap[n].childid \in Seq(Allocated)
      /\ \A p \in Inner : Slots(p)' = Slots(p)
      /\ Inner' = Inner /\ Leaves' = Leaves /\ Allocated' = Allocated
      /\ ~rootSplit /\ ~rootSplit'
  BY DEF SameNodes, TypeOK, Slots, rootSplit
<1>2. \A n \in Allocated : heap'[n].level = heap[n].level
  BY NodeKinds DEF SameNodes
<1>3. LinkedOnce'
  BY <1>1 DEF LinkedOnce, TreeParts, SameNodes
<1>4. ListLinked'
  <2>1. ListLinked /\ \A n \in Leaves : heap'[n] = heap[n]
    BY DEF TreeParts, SameNodes
  <2>2. \A n \in Leaves : heap[n].nextleaf # Null =>
          /\ heap[n].nextleaf \in Leaves \ {n}
          /\ heap'[heap[n].nextleaf].prevleaf = n
    BY <2>1 DEF ListLinked
  <2>3. \A n \in Leaves : heap[n].prevleaf # Null =>
          /\ heap[n].prevleaf \in Leaves \ {n}
          /\ heap'[heap[n].prevleaf].nextleaf = n
    BY <2>1 DEF ListLinked
  <2>4. /\ \A m, n \in Leaves :
             heap[m].prevleaf = Null /\ heap[n].prevleaf = Null => m = n
        /\ root # Null => \E n \in Leaves : heap[n].prevleaf = Null
    BY <2>1 DEF ListLinked
  <2>5. QED
    BY <1>1, <2>1, <2>2, <2>3, <2>4 DEF ListLinked
<1>5. ASSUME NEW n \in Inner PROVE InnerFilled(n)'
  <2>1. InnerFilled(n)
    BY DEF TreeParts
  <2>2. \A i \in Slots(n) : heap[n].childid[i] \in Allocated
    BY <1>1 DEF Slots
  <2>3. \A i \in Slots(n) :
          heap'[heap'[n].childid[i]].level + 1 = heap'[n].level
    BY <1>2, <2>1, <2>2 DEF InnerFilled, SameNodes
  <2>4. QED
    BY <1>1, <2>1, <2>3 DEF InnerFilled, SameNodes
<1>6. ASSUME NEW n \in Leaves PROVE LeafFilled(n)'
  <2>1. LeafFilled(n) /\ heap'[n] = heap[n]
    BY DEF TreeParts, SameNodes
  <2>2. QED
    BY <1>1, <2>1 DEF LeafFilled, capacity, isblindileafnode
<1>7. root' = Null => Allocated' = {}
  BY <1>1 DEF TreeParts
<1>8. TreeParts'
  BY <1>1, <1>3, <1>4, <1>5, <1>6, <1>7 DEF TreeParts
<1>9. \A n \in Inner' : heap'[n].childid \in Seq(Allocated')
  BY <1>1 DEF SameNodes
<1>10. UNION {heap'[n].items : n \in Leaves'}
         = UNION {heap[n].items : n \in Leaves}
  BY <1>1 DEF SameNodes
<1>11. QED
  BY <1>2, <1>8, <1>9, <1>10

\* A path that leads down in it still does.
LEMMA SamePath ==
  ASSUME TypeOK, PathLeadsDown, SameNodes, root' = root, path' = path,
         \A n \in Inner : InnerFilled(n), root \in Allocated
  PROVE  PathLeadsDown' /\ pathEnd' = pathEnd
<1>1. path \in Seq(Inner \X Nat) /\ Len(path) \in Nat
  BY DEF TypeOK
<1>2. \A e \in 1 .. Len(path) : path[e] \in Inner \X Nat
  BY <1>1
<1>3. \A e \in 1 .. Len(path) : path[e][1] \in Inner
  BY <1>2
<1>4. heap'[root].level = heap[root].level
  BY NodeKinds DEF SameNodes
<1>5. \A e \in 1 .. Len(path) :
        /\ path[e][2] \in 0 .. Len(heap'[path[e][1]].slotkey)
        /\ heap'[path[e][1]].level + e = heap'[root].level + 1
  BY <1>3, <1>4 DEF PathLeadsDown, SameNodes
<1>6. \A e \in 1 .. Len(path) - 1 :
        path[e + 1][1] = heap'[path[e][1]].childid[path[e][2] + 1]
  <2>1. \A e \in 1 .. Len(path) - 1 : e \in 1 .. Len(path)
    BY <1>1
  <2>2. QED
    BY <1>3, <2>1 DEF PathLeadsDown, SameNodes
<1>7. PathLeadsDown'
  BY <1>5, <1>6 DEF PathLeadsDown
<1>8. pathEnd' = pathEnd
  <2>1. above' = above
    BY DEF above
  <2>2. CASE path = <<>>
    BY <2>2 DEF pathEnd
  <2>3. CASE path # <<>>
    <3>1. above[1] \in Inner
      BY <2>3, PathEnd DEF PathEndFacts
    <3>2. heap'[above[1]].childid = heap[above[1]].childid
      BY <3>1 DEF SameNodes
    <3>3. QED
      BY <2>1, <2>3, <3>2 DEF pathEnd
  <2>4. QED
    BY <2>2, <2>3
<1>9. QED
  BY <1>7, <1>8

\* The counters stay exact.
LEMMA SameCounted ==
  ASSUME TypeOK, Counted, SameNodes, stats' = stats, stored' = stored
  PROVE  Counted'
<1>1. \A t : {n \in Leaves' : heap'[n].blindileaftype = t}
               = {n \in Leaves : heap[n].blindileaftype = t}
  BY DEF SameNodes
<1>2. QED
  BY <1>1 DEF Counted, SameNodes

\* Nodes that nothing is assigned to.
LEMMA HeapKept ==
  ASSUME TypeOK, heap' = heap
  PROVE  SameNodes
<1>1. Allocated' = Allocated
  BY DEF Allocated
<1>2. Leaves' = Leaves
  BY <1>1 DEF Leaves
<1>3. Inner' = Inner
  BY <1>1, <1>2 DEF Inner
<1>4. QED
  BY <1>1, <1>2, <1>3 DEF SameNodes, TypeOK

\* What a step on the way down leaves as it is, and where it leads.
StepDown ==
  /\ SameNodes /\ UNCHANGED <<root, head, tail, limits, stats, stored>>
  /\ root # Null /\ pc # "unwind" /\ newchild = Null /\ newchild' = Null
  /\ newkey' \in Keys \cup {Null}
  /\ pc' \in {"descend", "store"} /\ key' \in Keys \ stored
  /\ path' \in Seq(Inner \X Nat) /\ PathLeadsDown'
  /\ cur' \in Allocated /\ cur' = pathEnd'
  /\ heap'[cur'].level + Len(path') = heap'[root'].level
  /\ \A n \in Inner : MarkTrue(n)'
  /\ pc' = "store" => /\ cur' \in Leaves
                      /\ ~isblindileafnode(cur)' /\ isfullbtree(cur)'
                           => hybridstatus = "CONTINUE"

\* A step of a call on its way down keeps the invariant.
LEMMA StepDownInv ==
  ASSUME ElasticInv, StepDown
  PROVE  ElasticInv'
<1>1. /\ SameNodes /\ root' = root /\ head' = head /\ tail' = tail
      /\ hybridstatus' = hybridstatus /\ stats' = stats /\ stored' = stored
      /\ limit2MustCompress' = limit2MustCompress
      /\ newchild = Null /\ newchild' = Null
      /\ pc # "unwind" /\ pc' \in {"descend", "store"}
  BY DEF StepDown, limits
<1>2. /\ TypeOK /\ TreeParts /\ RootLeafPlain /\ Counted
      /\ UNION {heap[n].items : n \in Leaves} = stored \cup beingStored
  BY DEF ElasticInv, Tree, TreeParts
<1>3. /\ TreeParts'
      /\ \A n \in Inner' : heap'[n].childid \in Seq(Allocated')
      /\ \A n \in Allocated : heap'[n].level = heap[n].level
      /\ UNION {heap'[n].items : n \in Leaves'}
           = UNION {heap[n].items : n \in Leaves}
  BY <1>1, <1>2, SameTree
<1>4. Counted'
  BY <1>1, <1>2, SameCounted
<1>5. beingStored = {} /\ beingStored' = {}
  BY <1>1 DEF beingStored
<1>6. UNION {heap'[n].items : n \in Leaves'} = stored' \cup beingStored'
  BY <1>1, <1>2, <1>3, <1>5
<1>7. RootLeafPlain'
  <2>1. root \in Leaves => heap'[root] = heap[root]
    BY <1>1 DEF SameNodes
  <2>2. ~rootSplit /\ ~rootSplit' /\ pc' # "unwind"
    BY <1>1 DEF rootSplit
  <2>3. root' \in Leaves' <=> root \in Leaves
    BY <1>1 DEF SameNodes
  <2>4. QED
    BY <1>1, <1>2, <2>1, <2>2, <2>3 DEF RootLeafPlain
<1>8. Tree'
  <2>1. \A n \in Inner' : MarkTrue(n)'
    BY DEF StepDown, SameNodes
  <2>2. /\ LinkedOnce' /\ ListLinked'
        /\ \A n \in Inner' : InnerFilled(n)'
        /\ \A n \in Leaves' : LeafFilled(n)'
        /\ root' = Null => Allocated' = {}
    BY <1>3 DEF TreeParts
  <2>3. QED
    BY <1>6, <1>7, <2>1, <2>2 DEF Tree
<1>9. TypeOK'
  <2>1. /\ Allocated' = Allocated /\ Inner' = Inner
        /\ heap' \in [Allocated' -> LeafNodes \cup InnerNodes]
    BY <1>1 DEF SameNodes
  <2>2. /\ {cur', newchild'} \subseteq Allocated' \cup {Null}
        /\ path' \in Seq(Inner' \X Nat)
        /\ key' \in Keys \cup {Null} /\ newkey' \in Keys \cup {Null}
        /\ pc' \in {"idle", "descend", "store", "unwind"}
    BY <1>1, <2>1 DEF StepDown
  <2>3. /\ Allocated' \subseteq Nodes /\ root' \in Allocated' \cup {Null}
        /\ {head', tail'} \subseteq Pointers
        /\ hybridstatus' \in {"CONTINUE", "SHOULD_COMPRESS", "MUST_COMPRESS"}
        /\ limit2MustCompress' \in 0 .. SizeTop - 1
        /\ stats' \in [leaves : Nat, innernodes : Nat, itemcount : Nat,
                      ofType : [Types -> Nat]]
        /\ stored' \subseteq Keys
    BY <1>1, <1>2, <2>1 DEF TypeOK
  <2>4. QED
    BY <1>3, <2>1, <2>2, <2>3 DEF TypeOK
<1>10. CallUnderWay'
  <2>1. SplitAlike'
    BY <1>1 DEF SplitAlike
  <2>2. /\ cur' \in Allocated' /\ (pc' = "store" => cur' \in Leaves')
        /\ root' # Null /\ key' \in Keys \ stored'
    BY <1>1 DEF StepDown, SameNodes
  <2>3. /\ PathLeadsDown' /\ cur' = pathEnd'
        /\ heap'[cur'].level + Len(path') = heap'[root'].level
    BY DEF StepDown
  <2>4. pc' # "idle"
    BY <1>1
  <2>5. QED
    BY <1>1, <2>1, <2>2, <2>3, <2>4 DEF CallUnderWay
<1>11. StatusDriven'
  <2>1. StatusDriven
    BY DEF ElasticInv
  <2>2. newchild' \notin Leaves'
    <3>1. Leaves' \subseteq Nodes
      BY <1>9 DEF TypeOK, Leaves
    <3>2. QED
      BY <1>1, <3>1, ElasticAssumption
  <2>3. pc' = "store" /\ ~isblindileafnode(cur)' /\ isfullbtree(cur)'
          => hybridstatus' = "CONTINUE"
    BY <1>1 DEF StepDown
  <2>4. QED
    BY <1>1, <2>1, <2>2, <2>3 DEF StatusDriven
<1>12. QED
  BY <1>4, <1>8, <1>9, <1>10, <1>11 DEF ElasticInv

\* The marks are the same when the heap is.
LEMMA MarksKept ==
  ASSUME TypeOK, heap' = heap, stats'.itemcount >= stats.itemcount,
         stats'.itemcount \in Nat,
         \A n \in Inner : MarkTrue(n)
  PROVE  \A n \in Inner : MarkTrue(n)'
<1>1. Leaves' = Leaves
  BY DEF Leaves, Allocated
<1>2. stats.itemcount \in Nat /\ ShouldLimit \in Int
  BY ElasticAssumption DEF TypeOK
<1>3. QED
  BY <1>1, <1>2 DEF MarkTrue, isblindileafnode

\* The leaf is kept.
LEMMA KeepLeafInv ==
  ASSUME ElasticInv, KeepLeaf
  PROVE  ElasticInv'
<1>1. /\ pc = "descend" /\ isleafnode(cur) /\ pc' = "store"
      /\ IF isblindileafnode(cur)
         THEN hybridstatus = "MUST_COMPRESS" => heap[above[1]].alreadycomprerss
         ELSE ~mustTransfer
      /\ heap' = heap /\ root' = root /\ head' = head /\ tail' = tail
      /\ limits' = limits /\ stats' = stats /\ key' = key /\ cur' = cur
      /\ path' = path /\ newkey' = newkey /\ newchild' = newchild
      /\ stored' = stored
  BY DEF KeepLeaf, tree, split
<1>2. /\ TypeOK /\ TreeParts /\ PathLeadsDown /\ cur \in Allocated
      /\ cur = pathEnd /\ heap[cur].level + Len(path) = heap[root].level
      /\ root # Null /\ key \in Keys \ stored /\ newchild = Null
      /\ \A n \in Inner : MarkTrue(n)
  BY <1>1 DEF ElasticInv, Tree, TreeParts, CallUnderWay
<1>3. SameNodes
  BY <1>1, <1>2, HeapKept
<1>4. PathLeadsDown' /\ pathEnd' = pathEnd
  BY <1>1, <1>2, <1>3, SamePath DEF TypeOK, TreeParts
<1>5. \A n \in Inner : MarkTrue(n)'
  <2>1. stats'.itemcount \in Nat /\ stats'.itemcount >= stats.itemcount
    BY <1>1, <1>2 DEF TypeOK
  <2>2. QED
    BY <1>1, <1>2, <2>1, MarksKept
<1>6. cur \in Leaves
  BY <1>1, <1>2 DEF isleafnode, Leaves
<1>7. ~isblindileafnode(cur)' /\ isfullbtree(cur)' => hybridstatus = "CONTINUE"
  <2>1. (isblindileafnode(cur)' <=> isblindileafnode(cur))
        /\ (isfullbtree(cur)' <=> isfullbtree(cur))
    BY <1>1 DEF isblindileafnode, isfullbtree
  <2>2. hybridstatus \in {"CONTINUE", "SHOULD_COMPRESS", "MUST_COMPRESS"}
    BY <1>2 DEF TypeOK
  <2>3. QED
    BY <1>1, <2>1, <2>2 DEF mustTransfer
<1>8. path \in Seq(Inner \X Nat) /\ newkey \in Keys \cup {Null}
  BY <1>2 DEF TypeOK
<1>9. StepDown
  BY <1>1, <1>2, <1>3, <1>4, <1>5, <1>6, <1>7, <1>8 DEF StepDown
<1>10. QED
  BY <1>9, StepDownInv

\* The parent of a compact leaf is marked.
LEMMA MarkParentInv ==
  ASSUME ElasticInv, pc = "descend", isleafnode(cur), isblindileafnode(cur),
         hybridstatus = "MUST_COMPRESS", plainSiblings(above[1]) = {},
         heap' = [heap EXCEPT ![above[1]].alreadycomprerss = TRUE],
         pc' = "store",
         UNCHANGED <<root, head, tail, limits, stats, key, cur, path, split,
                     stored>>
  PROVE  SameNodes /\ ElasticInv'
<1>1. /\ root' = root /\ head' = head /\ tail' = tail
      /\ limits' = limits /\ stats' = stats /\ key' = key /\ cur' = cur
      /\ path' = path /\ newkey' = newkey /\ newchild' = newchild
      /\ stored' = stored
  BY DEF split
<1>2. /\ TypeOK /\ TreeParts /\ PathLeadsDown /\ cur \in Allocated
      /\ cur = pathEnd /\ heap[cur].level + Len(path) = heap[root].level
      /\ root # Null /\ key \in Keys \ stored /\ newchild = Null
      /\ \A n \in Inner : MarkTrue(n)
  BY DEF ElasticInv, Tree, TreeParts, CallUnderWay
<1>3. cur \in Leaves /\ path # <<>> /\ PathEndFacts
  BY AtLeaf
<1>4. PICK p : p = above[1]
  OBVIOUS
<1>5. p \in Inner /\ heap[p] \in InnerNodes /\ p \in Allocated
  BY <1>2, <1>3, <1>4, NodeKinds DEF PathEndFacts
<1>6. PICK l, K, C, f : /\ l = heap[p].level /\ K = heap[p].slotkey
                        /\ C = heap[p].childid /\ f = heap[p].alreadycomprerss
  OBVIOUS
<1>7. heap[p] = InnerNode(l, K, C, f)
  BY <1>5, <1>6, InnerFields
<1>8. /\ DOMAIN heap' = DOMAIN heap /\ heap' = [n \in DOMAIN heap |-> heap'[n]]
      /\ heap'[p] = [heap[p] EXCEPT !.alreadycomprerss = TRUE]
      /\ \A n \in Allocated : n # p => heap'[n] = heap[n]
  BY <1>4, <1>5 DEF Allocated
<1>9. heap'[p] = InnerNode(l, K, C, TRUE)
  <2>1. \A b : [InnerNode(l, K, C, f) EXCEPT !.alreadycomprerss = b]
                 = InnerNode(l, K, C, b)
    BY DEF InnerNode
  <2>2. [InnerNode(l, K, C, f) EXCEPT !.alreadycomprerss = TRUE]
          = InnerNode(l, K, C, TRUE)
    BY <2>1, Zenon
  <2>3. QED
    BY <1>7, <1>8, <2>2, Zenon
<1>10. /\ heap'[p].level = l /\ heap'[p].slotkey = K /\ heap'[p].childid = C
       /\ heap'[p] \in InnerNodes
  <2>1. l \in Nat \ {0} /\ K \in Seq(Keys) /\ C \in Seq(Nodes)
    BY <1>5, <1>6, InnerFields
  <2>2. heap'[p] \in InnerNodes
    <3>1. TRUE \in BOOLEAN
      OBVIOUS
    <3>2. InnerNode(l, K, C, TRUE) \in InnerNodes
      BY <2>1, <3>1, NodeRecords, Zenon
    <3>3. QED
      BY <1>9, <3>2, Zenon
  <2>3. /\ InnerNode(l, K, C, TRUE).level = l
        /\ InnerNode(l, K, C, TRUE).slotkey = K
        /\ InnerNode(l, K, C, TRUE).childid = C
    <3>1. \A b : /\ InnerNode(l, K, C, b).level = l
                 /\ InnerNode(l, K, C, b).slotkey = K
                 /\ InnerNode(l, K, C, b).childid = C
      BY GivenFields
    <3>2. QED
      BY <3>1, Zenon
  <2>4. QED
    BY <1>9, <2>2, <2>3, Zenon
<1>11. SameNodes
  <2>1. Allocated' = Allocated
    BY <1>8 DEF Allocated
  <2>2. \A n \in Allocated : heap'[n].level = heap[n].level
    BY <1>6, <1>8, <1>10
  <2>3. Leaves' = Leaves
    BY <2>1, <2>2 DEF Leaves
  <2>4. Inner' = Inner
    BY <2>1, <2>3 DEF Inner
  <2>5. \A n \in Leaves : heap'[n] = heap[n]
    BY <1>2, <1>5, <1>8, NodeKinds
  <2>6. \A n \in Inner : /\ heap'[n].level = heap[n].level
                         /\ heap'[n].slotkey = heap[n].slotkey
                         /\ heap'[n].childid = heap[n].childid
    BY <1>2, <1>6, <1>8, <1>10, NodeKinds
  <2>7. heap' \in [Allocated' -> LeafNodes \cup InnerNodes]
    <3>1. \A n \in Allocated : heap'[n] \in LeafNodes \cup InnerNodes
      BY <1>2, <1>8, <1>10 DEF TypeOK
    <3>2. heap' = [n \in Allocated |-> heap'[n]]
      BY <1>8 DEF Allocated
    <3>3. QED
      BY <2>1, <3>1, <3>2
  <2>8. QED
    BY <2>1, <2>3, <2>4, <2>5, <2>6, <2>7 DEF SameNodes
<1>12. PathLeadsDown' /\ pathEnd' = pathEnd
  BY <1>1, <1>2, <1>11, SamePath DEF TypeOK, TreeParts
<1>13. ASSUME NEW n \in Inner PROVE MarkTrue(n)'
  <2>1. CASE n = p
    <3>1. stats.itemcount > ShouldLimit
      BY DEF ElasticInv, StatusDriven
    <3>2. InnerFilled(p) /\ Len(heap[p].slotkey) \in Nat
      BY <1>2, <1>5, InnerFields DEF TreeParts
    <3>3. ASSUME NEW i \in 1 .. Len(heap[p].slotkey)
          PROVE  heap[p].childid[i] \in Leaves
                 /\ isblindileafnode(heap[p].childid[i])
      <4>1. isblindileafnode(heap[p].childid[i])
        BY <1>4 DEF plainSiblings
      <4>2. i \in Slots(p)
        BY <3>2 DEF InnerFilled, Slots
      <4>3. heap[p].childid[i] \in Allocated
        BY <1>2, <1>5, <4>2 DEF TypeOK, Slots
      <4>4. heap[heap[p].childid[i]].level + 1 = heap[p].level
        BY <3>2, <4>2 DEF InnerFilled
      <4>5. heap[cur].level + 1 = heap[p].level /\ heap[cur].level = 0
        <5>1. /\ above[2] + 1 \in Slots(p)
              /\ cur = heap[p].childid[above[2] + 1]
          BY <1>2, <1>3, <1>4 DEF PathEndFacts
        <5>2. heap[cur].level + 1 = heap[p].level
          BY <3>2, <5>1 DEF InnerFilled
        <5>3. QED
          BY <1>3, <5>2 DEF Leaves
      <4>6. heap[heap[p].childid[i]].level \in Nat
        BY <1>2, <4>3, NodeKinds, LeafFields, InnerFields
      <4>7. heap[heap[p].childid[i]].level = 0
        BY <4>4, <4>5, <4>6
      <4>8. QED
        BY <4>1, <4>3, <4>7 DEF Leaves
    <3>4. \A i \in 1 .. Len(heap[p].slotkey) :
            /\ heap[p].childid[i] \in Leaves
            /\ heap[heap[p].childid[i]].blindileaftype > 0
      BY <3>3 DEF isblindileafnode
    <3>5. QED
      BY <1>1, <1>5, <1>11, <2>1, <3>1, <3>4
      DEF MarkTrue, SameNodes, isblindileafnode
  <2>2. CASE n # p
    <3>1. MarkTrue(n) /\ heap'[n] = heap[n]
      BY <1>2, <1>8, <2>2, NodeKinds
    <3>2. QED
      BY <1>1, <1>11, <3>1 DEF MarkTrue, SameNodes, isblindileafnode
  <2>3. QED
    BY <2>1, <2>2
<1>14. isblindileafnode(cur)'
  BY <1>1, <1>3, <1>11 DEF isblindileafnode, SameNodes
<1>15. /\ path' \in Seq(Inner \X Nat) /\ newkey' \in Keys \cup {Null}
       /\ heap'[cur'].level + Len(path') = heap'[root'].level
  <2>1. heap'[cur].level = heap[cur].level /\ heap'[root].level = heap[root].level
    <3>1. root \in Allocated
      BY <1>2 DEF TypeOK
    <3>2. QED
      BY <1>2, <1>11, <3>1, NodeKinds DEF SameNodes
  <2>2. QED
    BY <1>1, <1>2, <2>1 DEF TypeOK
<1>16. StepDown
  BY <1>1, <1>2, <1>3, <1>11, <1>12, <1>13, <1>14, <1>15 DEF StepDown
<1>17. QED
  BY <1>11, <1>16, StepDownInv

\* A compact leaf is reached while the tree must compress.
LEMMA CompressSiblingInv ==
  ASSUME ElasticInv, CompressSibling
  PROVE  /\ LeafReplaced \/ (SameNodes /\ path' = path)
         /\ ElasticInv' /\ stats'.ofType[0] <= stats.ofType[0]
<1>1. /\ pc = "descend" /\ isleafnode(cur) /\ isblindileafnode(cur)
      /\ hybridstatus = "MUST_COMPRESS" /\ pc' = "store"
      /\ UNCHANGED <<root, head, tail, limits, key, cur, path, split, stored>>
  BY DEF CompressSibling
<1>2. CASE /\ plainSiblings(above[1]) # {} /\ canAllocate
           /\ LET parent == above[1]
                  plain == plainSiblings(parent)
              IN  heap' = replaceLeaf(heap[parent].childid[Min(plain)], 1,
                                      <<parent, Min(plain) - 1>>)
           /\ stats' = freed(allocated(stats, 1), 0)
  BY <1>1, <1>2, TransferSiblingInv
<1>3. CASE /\ plainSiblings(above[1]) = {} /\ UNCHANGED stats
           /\ heap' = [heap EXCEPT ![above[1]].alreadycomprerss = TRUE]
  <2>1. UNCHANGED <<root, head, tail, limits, stats, key, cur, path, split,
                    stored>>
    BY <1>1, <1>3
  <2>2. SameNodes /\ ElasticInv'
    BY <1>1, <1>3, <2>1, MarkParentInv
  <2>3. stats.ofType[0] \in Nat
    BY TypeFacts DEF ElasticInv, TypeOK
  <2>4. QED
    BY <1>1, <1>3, <2>2, <2>3
<1>4. QED
  BY <1>2, <1>3 DEF CompressSibling

\* A call goes one level down.
LEMMA DescendInv ==
  ASSUME ElasticInv, Descend
  PROVE  ElasticInv'
<1>1. /\ pc = "descend" /\ ~isleafnode(cur) /\ pc' = "descend"
      /\ path' = Append(path, <<cur, find_lower(cur, key)>>)
      /\ cur' = heap[cur].childid[find_lower(cur, key) + 1]
      /\ heap' = heap /\ root' = root /\ head' = head /\ tail' = tail
      /\ limits' = limits /\ stats' = stats /\ key' = key
      /\ newkey' = newkey /\ newchild' = newchild /\ stored' = stored
  BY DEF Descend, tree, split
<1>2. /\ TypeOK /\ TreeParts /\ PathLeadsDown /\ cur \in Allocated
      /\ cur = pathEnd /\ heap[cur].level + Len(path) = heap[root].level
      /\ root # Null /\ key \in Keys \ stored /\ newchild = Null
      /\ \A n \in Inner : MarkTrue(n)
  BY <1>1 DEF ElasticInv, Tree, TreeParts, CallUnderWay
<1>3. SameNodes
  BY <1>1, <1>2, HeapKept
<1>4. cur \in Inner /\ heap[cur] \in InnerNodes /\ InnerFilled(cur)
      /\ heap[cur].childid \in Seq(Allocated)
  <2>1. cur \in Inner
    BY <1>1, <1>2 DEF isleafnode, Inner, Leaves
  <2>2. QED
    BY <1>2, <2>1, NodeKinds DEF TreeParts, TypeOK
<1>5. PICK s : s = find_lower(cur, key)
  OBVIOUS
<1>6. s \in 0 .. Len(heap[cur].slotkey) /\ s \in Nat
  <2>1. s = Cardinality({i \in 1 .. Len(heap[cur].slotkey) :
                           heap[cur].slotkey[i] < key})
    BY <1>1, <1>5 DEF find_lower
  <2>2. PICK A, c : /\ c = Len(heap[cur].slotkey)
                    /\ A = {i \in 1 .. c : heap[cur].slotkey[i] < key}
    OBVIOUS
  <2>3. c \in Nat /\ A \in SUBSET (1 .. c)
    BY <1>4, <2>2, InnerFields
  <2>4. IsFiniteSet(1 .. c) /\ Cardinality(1 .. c) = c
    <3>1. Cardinality(1 .. c) = IF 1 > c THEN 0 ELSE c - 1 + 1
      BY <2>3, FS_Interval
    <3>2. QED
      BY <2>3, <3>1, FS_Interval
  <2>5. PICK B : B = 1 .. c
    OBVIOUS
  <2>6. IsFiniteSet(A) /\ Cardinality(A) <= Cardinality(B)
    BY <2>3, <2>4, <2>5, FS_Subset
  <2>7. Cardinality(A) \in Nat
    BY <2>6, FS_CardinalityType
  <2>8. s \in Nat /\ s <= c
    BY <2>1, <2>2, <2>4, <2>5, <2>6, <2>7
  <2>9. QED
    BY <2>2, <2>3, <2>8
<1>7. s + 1 \in Slots(cur)
  <2>1. Len(heap[cur].slotkey) \in Nat
    BY <1>4, InnerFields
  <2>2. QED
    BY <1>4, <1>6, <2>1 DEF InnerFilled, Slots
<1>8. /\ cur' \in Allocated /\ heap[cur'].level + 1 = heap[cur].level
      /\ cur' = heap[cur].childid[s + 1]
  <2>1. heap[cur].childid[s + 1] \in Allocated
    BY <1>4, <1>7 DEF Slots
  <2>2. QED
    BY <1>1, <1>4, <1>5, <1>7, <2>1 DEF InnerFilled
<1>9. /\ path \in Seq(Inner \X Nat) /\ Len(path) \in Nat
      /\ path' = Append(path, <<cur, s>>) /\ <<cur, s>> \in Inner \X Nat
  BY <1>1, <1>2, <1>4, <1>5, <1>6 DEF TypeOK
<1>10. /\ path' \in Seq(Inner \X Nat) /\ Len(path') = Len(path) + 1
       /\ \A e \in 1 .. Len(path) : path'[e] = path[e]
       /\ path'[Len(path) + 1] = <<cur, s>>
  <2>1. PICK x : x = <<cur, s>>
    OBVIOUS
  <2>2. x \in Inner \X Nat /\ path' = Append(path, x)
    BY <1>9, <2>1
  <2>3. QED
    BY <1>9, <2>1, <2>2
<1>11. /\ heap[root].level \in Nat /\ heap[cur].level \in Nat
       /\ heap[cur'].level \in Nat
  <2>1. root \in Allocated
    BY <1>2 DEF TypeOK
  <2>2. QED
    BY <1>2, <1>8, <2>1, NodeKinds, LeafFields, InnerFields
<1>12. /\ path' # <<>>
       /\ above' = <<cur, s>>
  <2>1. Len(path') # 0
    BY <1>9, <1>10
  <2>2. path' # <<>>
    BY <2>1
  <2>3. QED
    BY <1>10, <2>2 DEF above, Last
<1>13. path'[1][1] = root
  <2>1. CASE path = <<>>
    <3>1. Len(path) = 0 /\ cur = root
      BY <1>2, <2>1 DEF pathEnd
    <3>2. path'[1] = <<cur, s>>
      BY <1>10, <3>1
    <3>3. QED
      BY <3>1, <3>2
  <2>2. CASE path # <<>>
    <3>1. Len(path) # 0 /\ path[1][1] = root
      BY <1>2, <1>9, <2>2 DEF PathLeadsDown
    <3>2. path'[1] = path[1]
      BY <1>9, <1>10, <3>1
    <3>3. QED
      BY <3>1, <3>2
  <2>3. QED
    BY <2>1, <2>2
<1>14. ASSUME NEW e \in 1 .. Len(path')
       PROVE  /\ path'[e][2] \in 0 .. Len(heap[path'[e][1]].slotkey)
              /\ heap[path'[e][1]].level + e = heap[root].level + 1
  <2>1. CASE e \in 1 .. Len(path)
    BY <1>2, <1>10, <2>1 DEF PathLeadsDown
  <2>2. CASE e = Len(path) + 1
    <3>1. path'[e][1] = cur /\ path'[e][2] = s
      BY <1>10, <2>2
    <3>2. heap[cur].level + e = heap[root].level + 1
      <4>1. PICK a, b, c : /\ a = heap[cur].level /\ b = heap[root].level
                           /\ c = Len(path)
        OBVIOUS
      <4>2. a \in Nat /\ b \in Nat /\ c \in Nat /\ a + c = b /\ e = c + 1
        BY <1>2, <1>9, <1>11, <2>2, <4>1
      <4>3. a + e = b + 1
        BY <4>2
      <4>4. QED
        BY <4>1, <4>3
    <3>3. QED
      BY <1>6, <3>1, <3>2
  <2>3. QED
    BY <1>9, <1>10, <2>1, <2>2
<1>15. ASSUME NEW e \in 1 .. Len(path') - 1
       PROVE  path'[e + 1][1] = heap[path'[e][1]].childid[path'[e][2] + 1]
  <2>1. e \in 1 .. Len(path)
    BY <1>9, <1>10
  <2>2. CASE e = Len(path)
    <3>1. path'[e + 1][1] = cur /\ path'[e] = path[e]
      BY <1>10, <2>1, <2>2
    <3>2. path # <<>>
      BY <2>1
    <3>3. above = path[e]
      BY <2>2, <3>2 DEF above, Last
    <3>4. cur = heap[above[1]].childid[above[2] + 1]
      BY <1>2, <3>2 DEF pathEnd
    <3>5. QED
      BY <3>1, <3>3, <3>4
  <2>3. CASE e # Len(path)
    <3>1. e \in 1 .. Len(path) - 1 /\ e + 1 \in 1 .. Len(path)
      BY <1>9, <2>1, <2>3
    <3>2. QED
      BY <1>2, <1>10, <2>1, <3>1 DEF PathLeadsDown
  <2>4. QED
    BY <2>2, <2>3
<1>16. PathLeadsDown'
  BY <1>1, <1>13, <1>14, <1>15 DEF PathLeadsDown
<1>17. cur' = pathEnd'
  BY <1>1, <1>8, <1>12 DEF pathEnd
<1>18. heap'[cur'].level + Len(path') = heap'[root'].level
  <2>1. PICK a, b, c, d : /\ a = heap[cur].level /\ b = heap[root].level
                          /\ c = Len(path) /\ d = heap[cur'].level
    OBVIOUS
  <2>2. /\ a \in Nat /\ b \in Nat /\ c \in Nat /\ d \in Nat
        /\ a + c = b /\ d + 1 = a
    BY <1>2, <1>8, <1>9, <1>11, <2>1
  <2>3. d + (c + 1) = b
    BY <2>2
  <2>4. QED
    BY <1>1, <1>10, <2>1, <2>3
<1>19. \A n \in Inner : MarkTrue(n)'
  <2>1. stats'.itemcount \in Nat /\ stats'.itemcount >= stats.itemcount
    BY <1>1, <1>2 DEF TypeOK
  <2>2. QED
    BY <1>1, <1>2, <2>1, MarksKept
<1>20. newkey' \in Keys \cup {Null} /\ newchild' = Null
  BY <1>1, <1>2 DEF TypeOK
<1>21. StepDown
  BY <1>1, <1>2, <1>3, <1>8, <1>10, <1>16, <1>17, <1>18, <1>19, <1>20
  DEF StepDown
<1>22. QED
  BY <1>21, StepDownInv
=============================================================================
