------------------------- MODULE CompactEraseProofs -------------------------
(***************************************************************************)
(* Proofs about the tree of blindi_btree_seqtree.h: that the steps of erase *)
(* keep the shape of the tree, and that no step loses a key or counts one  *)
(* wrongly.  KeptInv is an inductive invariant; the types, the counters and *)
(* the filling of the nodes follow from it.                                *)
(***************************************************************************)
EXTENDS CompactTreeProofs

-----------------------------------------------------------------------------
(* The end of an erase *)

\* The key that is erased was counted.
LEMMA ItemCounted ==
  ASSUME TypeOK, Recorded, key \in stored
  PROVE  stats.itemcount + (0 - 1) \in Nat
<1>1. IsFiniteSet(stored) /\ stats.itemcount = Cardinality(stored)
  BY DEF Recorded
<1>2. IsFiniteSet(stored \ {key}) /\ Cardinality(stored \ {key}) = Cardinality(stored) - 1
  BY <1>1, FS_RemoveElement
<1>3. Cardinality(stored \ {key}) \in Nat /\ Cardinality(stored) \in Nat
  BY <1>1, <1>2, FS_CardinalityType
<1>4. QED
  BY <1>1, <1>2, <1>3

\* The end of erase_one keeps the shape.
LEMMA FinishEraseShape ==
  ASSUME KeptInv, FinishErase
  PROVE  ShapeInv'
<1>1. /\ pc = "fix" /\ stack = <<>> /\ return /\ UNCHANGED tree
      /\ stats' = [stats EXCEPT !.itemcount = @ - 1] /\ stored' = stored \ {key}
  BY DEF FinishErase
<1>2. ShapeInv /\ Recorded
  BY DEF KeptInv
<1>3. TypeOK /\ Counted /\ ~fixmerge /\ newchild = Null
  BY <1>1, <1>2 DEF ShapeInv, CallUnderWay
<1>4. key \in stored
  BY <1>1, <1>2 DEF Recorded
<1>5. heap' = heap /\ Leaves' = Leaves /\ Inner' = Inner
  <2>1. heap' = heap
    BY <1>1 DEF tree
  <2>2. QED
    BY <2>1, SameHeap
<1>6. Counted' /\ stats' \in Counters
  <2>1. CountersMoved(0, 0, 0 - 1)
    BY <1>1, <1>3, CountersMove, CountersType
  <2>2. stats.itemcount + (0 - 1) \in Nat
    BY <1>2, <1>3, <1>4, ItemCounted
  <2>3. Leaves' \cup Inner' = DOMAIN heap'
    BY <1>3, <1>5, NodeKinds
  <2>4. 0 \in {0, 1, 0 - 1} /\ 0 # 1 /\ 0 # 0 - 1
    OBVIOUS
  <2>5. QED
    BY <1>3, <1>5, <2>1, <2>2, <2>3, <2>4, CountedNext
<1>7. stored' \subseteq Keys
  BY <1>1, <1>3, TypeNow
<1>8. pc # "balance" /\ (pc = "insert" => FALSE)
  BY <1>1
<1>9. QED
  BY <1>1, <1>2, <1>3, <1>6, <1>7, <1>8, ReturnShape

\* A root that is a leaf is the only node.
LEMMA OnlyRoot ==
  ASSUME TypeOK, Tree, Counted, root \in Leaves, newchild = Null, gone = Null
  PROVE  DOMAIN heap = {root}
<1>1. LiveInner = Inner /\ LinkedOnce /\ IsFiniteSet(DOMAIN heap)
  BY NodeKinds DEF LiveInner, Tree, Counted
<1>2. Inner = {}
  <2>1. SUFFICES ASSUME Inner # {} PROVE FALSE
    OBVIOUS
  <2>2. PICK L : L = {heap[n].level : n \in Inner}
    OBVIOUS
  <2>3. IsFiniteSet(Inner)
    BY <1>1, FS_Subset DEF Inner
  <2>4. IsFiniteSet(L) /\ L # {}
    <3>1. PICK f : f = [n \in Inner |-> heap[n].level]
      OBVIOUS
    <3>2. f \in Surjection(Inner, L)
      BY <2>2, <3>1 DEF Surjection
    <3>3. QED
      BY <2>1, <2>2, <2>3, <3>2, FS_Surjection
  <2>5. L \subseteq Nat
    BY <2>2, Levels, NodeKinds
  <2>6. PICK m \in L : \A k \in L : k <= m
    BY <2>4, <2>5, GreatestNatural
  <2>7. PICK n \in Inner : heap[n].level = m
    BY <2>2, <2>6
  <2>8. n \in DOMAIN heap \ {root, newchild}
    BY <2>7, NodeKinds
  <2>9. PICK p \in LiveInner : \E i \in Slots(p) : heap[p].childid[i] = n
    BY <1>1, <2>8 DEF LinkedOnce
  <2>10. heap[n].level + 1 = heap[p].level /\ p \in Inner
    BY <1>1, <2>9 DEF Tree, InnerFilled
  <2>11. heap[p].level \in L
    BY <2>2, <2>10
  <2>12. QED
    BY <2>5, <2>6, <2>7, <2>10, <2>11
<1>3. ASSUME NEW n \in DOMAIN heap, n # root PROVE FALSE
  <2>1. n \in DOMAIN heap \ {root, newchild}
    BY <1>3, NodeKinds
  <2>2. QED
    BY <1>1, <1>2, <2>1 DEF LinkedOnce
<1>4. root \in DOMAIN heap
  BY NodeKinds
<1>5. QED
  BY <1>3, <1>4

\* The last key of the tree, and no node is left.
LEMMA EraseEmptyRootHeap ==
  ASSUME ShapeInv, EraseEmptyRoot
  PROVE  /\ DOMAIN heap = {root} /\ root = cur /\ cur \in Leaves /\ heap[cur].items = {key}
         /\ HeapTyped(heap') /\ DOMAIN heap' = {}
         /\ Leaves' = {} /\ Inner' = {} /\ Leaves = {cur} /\ Inner = {} /\ gone = Null
<1>1. /\ pc = "erase" /\ isleafnode(cur) /\ key \in heap[cur].items /\ cur = root
      /\ rest = {} /\ heap' = without(heap, cur)
  BY DEF EraseEmptyRoot, atKey, emptiesRoot
<1>2. gone = Null /\ newchild = Null /\ cur \in Leaves
  BY <1>1, AtLeaf DEF descending
<1>3. TypeOK /\ Tree /\ Counted
  BY DEF ShapeInv
<1>4. DOMAIN heap = {root}
  BY <1>1, <1>2, <1>3, OnlyRoot
<1>5. Freed(heap', heap, cur)
  <2>1. PICK n : n = cur
    OBVIOUS
  <2>2. Freed(without(heap, n), heap, n)
    BY WithoutNode
  <2>3. heap' = without(heap, n)
    BY <1>1, <2>1
  <2>4. QED
    BY <2>1, <2>2, <2>3
<1>6. HeapTyped(heap')
  BY <1>3, <1>5, HeapNow, FreedTyped
<1>7. DOMAIN heap' = {}
  BY <1>1, <1>4, <1>5 DEF Freed
<1>8. Leaves' = {} /\ Inner' = {}
  BY <1>7 DEF Leaves, Inner
<1>9. Leaves = {cur} /\ Inner = {}
  BY <1>1, <1>2, <1>3, <1>4, NodeKinds
<1>10. heap[cur].items = {key}
  BY <1>1 DEF rest
<1>11. QED
  BY <1>1, <1>2, <1>4, <1>6, <1>7, <1>8, <1>9, <1>10

\* The erase of the last key leaves the empty tree.
LEMMA EraseEmptyRootShape ==
  ASSUME KeptInv, EraseEmptyRoot
  PROVE  ShapeInv'
<1>0. ShapeInv /\ Recorded /\ Kept
  BY DEF KeptInv
<1>1. /\ pc = "erase" /\ root' = Null /\ head' = Null /\ tail' = Null
      /\ stats' = [freed(cur) EXCEPT !.itemcount = @ - 1] /\ stored' = stored \ {key}
      /\ pc' = "idle" /\ key' = Null /\ stack' = <<>> /\ newkey' = Null
      /\ newchild' = Null /\ lastkey' = Null /\ fixmerge' = FALSE /\ isleafnode(cur)
  BY DEF EraseEmptyRoot, return, atKey
<1>2. /\ DOMAIN heap = {root} /\ root = cur /\ cur \in Leaves /\ heap[cur].items = {key}
      /\ HeapTyped(heap') /\ DOMAIN heap' = {}
      /\ Leaves' = {} /\ Inner' = {} /\ Leaves = {cur} /\ Inner = {} /\ gone = Null
  BY <1>0, EraseEmptyRootHeap
<1>3. TypeOK /\ Counted
  BY <1>0 DEF ShapeInv
<1>4. key \in stored
  <2>1. cur \in LiveLeaves /\ present = stored
    BY <1>1, <1>2, <1>3, NodeKinds DEF LiveLeaves, present
  <2>2. QED
    BY <1>0, <1>2, <2>1 DEF Kept
<1>5. Counted' /\ stats' \in Counters
  <2>1. CountersMoved(0 - 1, 0, 0 - 1)
    <3>1. stats' = [[stats EXCEPT !.leaves = @ - 1] EXCEPT !.itemcount = @ - 1]
      BY <1>1 DEF freed
    <3>2. QED
      BY <1>3, <3>1, CountersMove, CountersType
  <2>2. stats.itemcount + (0 - 1) \in Nat
    BY <1>0, <1>3, <1>4, ItemCounted
  <2>3. Leaves' \cup Inner' = DOMAIN heap' /\ Leaves' = Leaves \ {cur} /\ Inner' = Inner
    BY <1>2
  <2>4. 0 \in {0, 1, 0 - 1} /\ 0 # 1 /\ 0 # 0 - 1 /\ 0 - 1 \in {0, 1, 0 - 1} /\ 0 - 1 # 1
    OBVIOUS
  <2>5. QED
    BY <1>2, <1>3, <2>1, <2>2, <2>3, <2>4, CountedNext
<1>6. TypeOK'
  <2>1. stack' \in Seq(Frames) /\ stored' \subseteq Keys
    BY <1>1, <1>3, TypeNow
  <2>2. QED
    BY <1>1, <1>2, <1>3, <1>5, <2>1, TypeNow, TypeNext
<1>7. Tree'
  <2>1. LiveInner' = {} /\ LiveLeaves' = {}
    BY <1>2 DEF LiveInner, LiveLeaves
  <2>2. LinkedOnce'
    BY <1>2, <2>1 DEF LinkedOnce
  <2>3. QED
    BY <1>2, <2>1, <2>2 DEF Tree
<1>8. CallUnderWay'
  <2>1. StackLeadsDown'
    BY <1>1, EmptyStack
  <2>2. QED
    BY <1>1, <2>1 DEF CallUnderWay
<1>9. QED
  BY <1>5, <1>6, <1>7, <1>8 DEF ShapeInv

-----------------------------------------------------------------------------
(* The neighbours, and the leaf without the key *)

\* The nodes beside the current one below its parent.
LEMMA NearNodes ==
  ASSUME ShapeInv, stack # <<>>, hasParent, gone = Null
  PROVE  /\ parentslot \in Nat /\ Len(heap[parent].slotkey) \in Nat
         /\ parentslot <= Len(heap[parent].slotkey)
         /\ parentslot > 0 <=> top.leftparent = parent
         /\ parentslot < Len(heap[parent].slotkey) <=> top.rightparent = parent
         /\ parentslot > 0 \/ parentslot < Len(heap[parent].slotkey)
         /\ parentslot > 0 =>
              /\ top.left = heap[parent].childid[parentslot] /\ parentslot \in Slots(parent)
              /\ top.left \in DOMAIN heap /\ heap[top.left].level = heap[cur].level
              /\ top.left # cur
         /\ parentslot < Len(heap[parent].slotkey) =>
              /\ top.right = heap[parent].childid[parentslot + 2]
              /\ parentslot + 2 \in Slots(parent)
              /\ top.right \in DOMAIN heap /\ heap[top.right].level = heap[cur].level
              /\ top.right # cur
<1>1. /\ root # Null \/ ~(pc # "idle")
      /\ TypeOK /\ Tree /\ LinkedOnce /\ StackLeadsDown
      /\ pc # "idle" => root # Null
      /\ pc = "idle" => stack = <<>>
  BY DEF ShapeInv, CallUnderWay, Tree
<1>2. root # Null /\ \A n \in LiveInner : InnerFilled(n)
  BY <1>1 DEF Tree
<1>3. /\ parent = above.node /\ parentslot = above.slot
      /\ parent \in LiveInner /\ parent \in DOMAIN heap /\ parent # cur
      /\ heap[parent].level = heap[cur].level + 1
      /\ parentslot \in 0 .. Len(heap[parent].slotkey)
      /\ parentslot + 1 \in Slots(parent)
      /\ cur = heap[parent].childid[parentslot + 1]
      /\ NearbyKnown(above, top)
      /\ heap[cur].level \in Nat
  BY <1>1, <1>2, CurrentNode
<1>4. /\ Len(heap[parent].slotkey) \in Nat /\ slotuse(parent) = Len(heap[parent].slotkey)
      /\ Slots(parent) = 1 .. Len(heap[parent].slotkey) + 1
      /\ \A i \in Slots(parent) :
           /\ heap[parent].childid[i] \in DOMAIN heap
           /\ heap[heap[parent].childid[i]].level \in Nat
           /\ heap[heap[parent].childid[i]].level + 1 = heap[parent].level
  BY <1>1, <1>2, <1>3, ChildNodes
<1>5. PICK s, m : s = parentslot /\ m = Len(heap[parent].slotkey)
  OBVIOUS
<1>6. s \in Nat /\ m \in Nat /\ s <= m
  BY <1>3, <1>4, <1>5
<1>7. /\ s > 0 <=> top.leftparent = parent
      /\ s < m <=> top.rightparent = parent
      /\ s > 0 => top.left = child(parent, s - 1)
      /\ s < m => top.right = child(parent, s + 1)
  BY <1>3, <1>4, <1>5 DEF NearbyKnown
<1>8. m >= 1
  <2>1. InnerFilled(parent)
    BY <1>2, <1>3
  <2>2. m >= least(parent)
    BY <1>5, <2>1, FilledSlots
  <2>3. least(parent) \in Nat /\ least(parent) >= 1
    BY <1>3, LeastValues, Half
  <2>4. QED
    BY <1>6, <2>2, <2>3
<1>9. ASSUME NEW i \in Slots(parent), i # s + 1
      PROVE  /\ heap[parent].childid[i] \in DOMAIN heap
             /\ heap[heap[parent].childid[i]].level = heap[cur].level
             /\ heap[parent].childid[i] # cur
  <2>1. PICK a, b, c : /\ a = heap[heap[parent].childid[i]].level
                       /\ b = heap[cur].level /\ c = heap[parent].level
    OBVIOUS
  <2>2. a \in Nat /\ b \in Nat /\ a + 1 = c /\ c = b + 1
    BY <1>3, <1>4, <2>1
  <2>3. a = b
    BY <2>2
  <2>4. heap[parent].childid[i] # cur
    BY <1>1, <1>3, <1>5, <1>9 DEF LinkedOnce
  <2>5. QED
    BY <1>4, <2>1, <2>3, <2>4
<1>10. s > 0 => /\ top.left = heap[parent].childid[s] /\ s \in Slots(parent)
                /\ top.left \in DOMAIN heap /\ heap[top.left].level = heap[cur].level
                /\ top.left # cur
  <2>1. s > 0 => s \in Slots(parent) /\ s # s + 1 /\ s - 1 + 1 = s
    BY <1>4, <1>5, <1>6
  <2>2. s > 0 => top.left = heap[parent].childid[s]
    BY <1>7, <2>1 DEF child
  <2>3. QED
    BY <1>9, <2>1, <2>2
<1>11. s < m => /\ top.right = heap[parent].childid[s + 2] /\ s + 2 \in Slots(parent)
                /\ top.right \in DOMAIN heap /\ heap[top.right].level = heap[cur].level
                /\ top.right # cur
  <2>1. s < m => s + 2 \in Slots(parent) /\ s + 2 # s + 1 /\ s + 1 + 1 = s + 2
    BY <1>4, <1>5, <1>6
  <2>2. s < m => top.right = heap[parent].childid[s + 2]
    BY <1>7, <2>1 DEF child
  <2>3. QED
    BY <1>9, <2>1, <2>2
<1>12. s > 0 \/ s < m
  BY <1>6, <1>8
<1>13. QED
  BY <1>5, <1>6, <1>7, <1>10, <1>11, <1>12

\* The heap g is h with k in slot i of the inner node p, whose keys are K2 then.
KeySet(g, h, p, i, k, K2) ==
  /\ HeapTyped(g) /\ DOMAIN g = DOMAIN h
  /\ g[p] = InnerNode(h[p].level, K2, h[p].childid)
  /\ K2 \in Seq(Keys) /\ Len(K2) = Len(h[p].slotkey)
  /\ \A j \in DOMAIN h : j # p => g[j] = h[j]

\* Another key in a slot of an inner node.
LEMMA SetKey ==
  ASSUME NEW h, HeapTyped(h), NEW p \in DOMAIN h, h[p] \in InnerNodes,
         NEW i \in 1 .. Len(h[p].slotkey), NEW k \in Keys
  PROVE  KeySet([h EXCEPT ![p].slotkey[i] = k], h, p, i, k, [h[p].slotkey EXCEPT ![i] = k])
<1>1. PICK K2, c, g : /\ K2 = [h[p].slotkey EXCEPT ![i] = k]
                      /\ c = [h[p] EXCEPT !.slotkey = K2] /\ g = [h EXCEPT ![p] = c]
  OBVIOUS
<1>2. h[p].slotkey \in Seq(Keys) /\ h[p].childid \in Seq(Nodes)
      /\ h[p].level \in Nat \ {0}
  BY InnerFields
<1>3. K2 \in Seq(Keys) /\ Len(K2) = Len(h[p].slotkey)
  <2>1. PICK K : K = h[p].slotkey
    OBVIOUS
  <2>2. K \in Seq(Keys) /\ K2 = [K EXCEPT ![i] = k] /\ i \in 1 .. Len(K)
    BY <1>1, <1>2, <2>1
  <2>3. QED
    BY <2>1, <2>2, ExceptSeq
<1>4. c = InnerNode(h[p].level, K2, h[p].childid)
  BY <1>1, InnerUpdates
<1>5. c \in InnerNodes
  BY <1>2, <1>3, <1>4, NodeRecords
<1>6. IsFunction(h) /\ p \in Nodes
  BY DEF HeapTyped
<1>7. Placed(g, h, p, c)
  BY <1>1, <1>6, ChangedNode
<1>8. HeapTyped(g)
  BY <1>5, <1>6, <1>7, PlacedTyped DEF IsNode
<1>9. DOMAIN g = DOMAIN h /\ g[p] = c /\ \A j \in DOMAIN h : j # p => g[j] = h[j]
  BY <1>7 DEF Placed
<1>10. [h EXCEPT ![p].slotkey[i] = k] = g
  BY <1>1
<1>11. KeySet(g, h, p, i, k, K2)
  BY <1>3, <1>4, <1>8, <1>9 DEF KeySet
<1>12. QED
  BY <1>1, <1>10, <1>11

\* The parent's key for the leaf follows its last key.
followed == lastErased /\ keyAbove /\ rest # {}

\* The leaf without the key, and the separator that follows its last key.
LEMMA ErasedLeaf ==
  ASSUME ShapeInv, atKey
  PROVE  LET h == erased
         IN /\ HeapTyped(h) /\ DOMAIN h = DOMAIN heap
            /\ h[cur] = Leaf(rest, heap[cur].prevleaf, heap[cur].nextleaf)
            /\ \A n \in Leaves : n # cur => h[n] = heap[n]
            /\ \A n \in Inner : /\ h[n] \in InnerNodes /\ h[n].level = heap[n].level
                                /\ h[n].childid = heap[n].childid
                                /\ Len(h[n].slotkey) = Len(heap[n].slotkey)
                                /\ n # parent => h[n] = heap[n]
            /\ followed => h[parent].slotkey
                 = [heap[parent].slotkey EXCEPT ![parentslot + 1] = Max(rest)]
            /\ ~followed => \A n \in Inner : h[n] = heap[n]
            /\ rest \subseteq Keys /\ IsFiniteSet(rest) /\ Cardinality(rest) \in Nat
            /\ Cardinality(rest) < Cardinality(heap[cur].items)
            /\ followed => Max(rest) \in rest /\ \A k \in rest : k <= Max(rest)
<1>1. pc = "erase" /\ isleafnode(cur) /\ key \in heap[cur].items /\ descending
  BY DEF atKey, descending
<1>2. /\ stack # <<>> /\ root # Null /\ gone = Null /\ LiveInner = Inner
      /\ cur \in Leaves /\ cur \in DOMAIN heap /\ cur \in Nodes
      /\ heap[cur] \in LeafNodes /\ heap[cur].items \subseteq Keys
      /\ IsFiniteSet(heap[cur].items) /\ Cardinality(heap[cur].items) \in Nat
      /\ \A n \in Inner : n # cur
  BY <1>1, AtLeaf
<1>3. TypeOK /\ LinkedOnce /\ StackLeadsDown /\ \A n \in LiveInner : InnerFilled(n)
  BY DEF ShapeInv, CallUnderWay, Tree
<1>4. /\ rest \subseteq Keys /\ IsFiniteSet(rest) /\ Cardinality(rest) \in Nat
      /\ Cardinality(rest) < Cardinality(heap[cur].items)
  <2>1. rest = heap[cur].items \ {key}
    BY DEF rest
  <2>2. IsFiniteSet(rest) /\ Cardinality(rest) = Cardinality(heap[cur].items) - 1
    BY <1>1, <1>2, <2>1, FS_RemoveElement
  <2>3. QED
    BY <1>2, <2>1, <2>2, FS_CardinalityType
<1>5. PICK h, c : h = [heap EXCEPT ![cur].items = rest]
                  /\ c = Leaf(rest, heap[cur].prevleaf, heap[cur].nextleaf)
  OBVIOUS
<1>6. HeapTyped(h) /\ DOMAIN h = DOMAIN heap /\ h[cur] = c
      /\ \A n \in DOMAIN heap : n # cur => h[n] = heap[n]
  <2>1. PICK d : d = [heap[cur] EXCEPT !.items = rest]
    OBVIOUS
  <2>2. d = c
    BY <1>2, <1>5, <2>1, LeafUpdates
  <2>3. c \in LeafNodes
    BY <1>2, <1>4, <1>5, LeafFields, NodeRecords
  <2>4. h = [heap EXCEPT ![cur] = c]
    BY <1>5, <2>1, <2>2
  <2>5. HeapTyped(heap) /\ IsFunction(heap)
    BY <1>3, HeapNow, HeapIsFunction
  <2>6. Placed(h, heap, cur, c)
    BY <1>2, <2>4, <2>5, ChangedNode
  <2>7. HeapTyped(h)
    BY <1>2, <2>3, <2>5, <2>6, PlacedTyped DEF IsNode
  <2>8. QED
    BY <1>2, <2>6, <2>7 DEF Placed
<1>7. /\ \A n \in Leaves : n # cur => h[n] = heap[n]
      /\ \A n \in Inner : h[n] = heap[n] /\ heap[n] \in InnerNodes
  BY <1>2, <1>3, <1>6, NodeKinds
<1>8. CASE ~followed
  <2>1. erased = h
    BY <1>5, <1>8 DEF erased, followed
  <2>2. QED
    BY <1>4, <1>5, <1>6, <1>7, <1>8, <2>1
<1>9. CASE followed
  <2>1. erased = [h EXCEPT ![parent].slotkey[parentslot + 1] = Max(rest)]
    BY <1>5, <1>9 DEF erased, followed
  <2>2. Max(rest) \in rest /\ \A k \in rest : k <= Max(rest)
    <3>1. rest \in SUBSET Nat /\ rest # {}
      BY <1>4, <1>9, KeyTypes DEF followed
    <3>2. QED
      BY <1>4, <3>1, MaxElement
  <2>3. hasParent
    BY <1>9 DEF followed, keyAbove
  <2>4. parent \in LiveInner /\ parent \in DOMAIN heap /\ parent # cur
    BY <1>2, <1>3, <2>3, CurrentNode
  <2>5. parent \in DOMAIN h /\ h[parent] = heap[parent] /\ h[parent] \in InnerNodes
    BY <1>2, <1>6, <1>7, <2>4
  <2>6. PICK k, i, p, g, K2 :
          /\ k = Max(rest) /\ i = parentslot + 1 /\ p = parent
          /\ g = [h EXCEPT ![p].slotkey[i] = k] /\ K2 = [h[p].slotkey EXCEPT ![i] = k]
    OBVIOUS
  <2>7. /\ HeapTyped(g) /\ DOMAIN g = DOMAIN h
        /\ g[p] = InnerNode(h[p].level, K2, h[p].childid)
        /\ K2 \in Seq(Keys) /\ Len(K2) = Len(h[p].slotkey)
        /\ \A j \in DOMAIN h : j # p => g[j] = h[j]
    <3>1. p \in DOMAIN h /\ h[p] \in InnerNodes /\ k \in Keys
      BY <1>4, <2>2, <2>5, <2>6
    <3>2. i \in 1 .. Len(h[p].slotkey)
      <4>1. /\ parentslot \in 0 .. Len(heap[parent].slotkey) /\ Len(heap[parent].slotkey) \in Nat
            /\ slotuse(parent) = Len(heap[parent].slotkey)
        BY <1>2, <1>3, <2>3, <2>4, CurrentNode, ChildNodes
      <4>2. parentslot < slotuse(parent)
        BY <1>9 DEF followed, keyAbove
      <4>3. parentslot + 1 \in 1 .. Len(heap[parent].slotkey)
        BY <4>1, <4>2
      <4>4. QED
        BY <2>5, <2>6, <4>3
    <3>3. KeySet([h EXCEPT ![p].slotkey[i] = k], h, p, i, k, [h[p].slotkey EXCEPT ![i] = k])
      BY <1>6, <3>1, <3>2, SetKey
    <3>4. KeySet(g, h, p, i, k, K2)
      BY <2>6, <3>3
    <3>5. QED
      BY <3>4 DEF KeySet
  <2>8. erased = g
    BY <2>1, <2>6
  <2>9. g[p] \in InnerNodes
    <3>1. h[p].level \in Nat \ {0} /\ h[p].childid \in Seq(Nodes)
      BY <2>5, <2>6, InnerFields
    <3>2. QED
      BY <2>7, <3>1, NodeRecords
  <2>10. g[p].level = h[p].level /\ g[p].slotkey = K2 /\ g[p].childid = h[p].childid
    BY <2>7, GivenFields
  <2>11. g[cur] = c /\ \A n \in Leaves : n # cur => g[n] = heap[n]
    <3>1. \A n \in Leaves : n # p /\ n \in DOMAIN heap
      BY <1>2, <1>3, <2>4, <2>6, NodeKinds
    <3>2. QED
      BY <1>2, <1>6, <1>7, <2>7, <3>1
  <2>12. ASSUME NEW n \in Inner
         PROVE  /\ g[n] \in InnerNodes /\ g[n].level = heap[n].level
                /\ g[n].childid = heap[n].childid
                /\ Len(g[n].slotkey) = Len(heap[n].slotkey)
                /\ n # parent => g[n] = heap[n]
    <3>1. CASE n = p
      BY <1>7, <2>5, <2>6, <2>7, <2>9, <2>10, <3>1
    <3>2. CASE n # p
      <4>1. n \in DOMAIN h
        BY <1>3, <1>6, NodeKinds
      <4>2. g[n] = heap[n]
        BY <1>7, <2>7, <3>2, <4>1
      <4>3. QED
        BY <1>7, <4>2
    <3>3. QED
      BY <3>1, <3>2
  <2>13. erased[parent].slotkey = [heap[parent].slotkey EXCEPT ![parentslot + 1] = Max(rest)]
    BY <2>5, <2>6, <2>8, <2>10
  <2>14. HeapTyped(erased) /\ DOMAIN erased = DOMAIN heap
    BY <1>6, <2>7, <2>8
  <2>15. QED
    BY <1>4, <1>5, <1>9, <2>2, <2>8, <2>11, <2>12, <2>13, <2>14
<1>10. QED
  BY <1>8, <1>9

-----------------------------------------------------------------------------
(* Leaves that are merged *)

\* The heap g is h with the keys of the leaf r moved to the leaf l.
LeafMerge(g, h, l, r) ==
  /\ HeapTyped(g) /\ DOMAIN g = DOMAIN h
  /\ \A n \in DOMAIN h : g[n].level = h[n].level
  /\ \A n \in DOMAIN h : h[n] \in InnerNodes => g[n] = h[n]
  /\ \A n \in DOMAIN h : h[n] \in LeafNodes =>
       /\ g[n] \in LeafNodes
       /\ g[n].items = IF n = l THEN h[l].items \cup h[r].items
                       ELSE IF n = r THEN {} ELSE h[n].items

\* merge_leaves writes both leaves, and the link of the one behind them.
MergeWritten(g, h, l, r) ==
  \E h2 :
    /\ g = setPrev(h2, h[r].nextleaf, l) /\ HeapTyped(h2) /\ DOMAIN h2 = DOMAIN h
    /\ h2[l] = Leaf(h[l].items \cup h[r].items, h[l].prevleaf, h[r].nextleaf)
    /\ h2[r] = Leaf({}, h[r].prevleaf, h[r].nextleaf)
    /\ \A n \in DOMAIN h : n # l /\ n # r => h2[n] = h[n]

\* So merge_leaves does.
LEMMA MergedParts ==
  ASSUME NEW h, HeapTyped(h), NEW l \in DOMAIN h, NEW r \in DOMAIN h, l # r,
         h[l] \in LeafNodes, h[r] \in LeafNodes
  PROVE  MergeWritten(merge_leaves(h, l, r), h, l, r)
<1>1. PICK U, x, c, d :
        /\ U = h[l].items \cup h[r].items /\ x = h[r].nextleaf
        /\ c = Leaf(U, h[l].prevleaf, x) /\ d = Leaf({}, h[r].prevleaf, h[r].nextleaf)
  OBVIOUS
<1>2. /\ U \subseteq Keys /\ x \in Pointers /\ h[l].prevleaf \in Pointers
      /\ h[r].prevleaf \in Pointers /\ h[r].nextleaf \in Pointers
      /\ h[l].level = 0 /\ h[r].level = 0
  BY <1>1, LeafFields
<1>3. c \in LeafNodes /\ d \in LeafNodes
  BY <1>1, <1>2, NodeRecords
<1>4. c.items = U /\ d.items = {} /\ c.level = 0 /\ d.level = 0
  BY <1>1, GivenFields
<1>5. IsFunction(h) /\ l \in Nodes /\ r \in Nodes
  BY DEF HeapTyped
<1>6. PICK h1 : h1 = [h EXCEPT ![l] = c]
  OBVIOUS
<1>7. Placed(h1, h, l, c) /\ HeapTyped(h1)
  <2>1. Placed(h1, h, l, c)
    BY <1>5, <1>6, ChangedNode
  <2>2. QED
    BY <1>3, <1>5, <2>1, PlacedTyped DEF IsNode
<1>8. DOMAIN h1 = DOMAIN h /\ h1[l] = c /\ \A n \in DOMAIN h : n # l => h1[n] = h[n]
  BY <1>7 DEF Placed
<1>9. PICK h2 : h2 = [h1 EXCEPT ![r] = d]
  OBVIOUS
<1>10. Placed(h2, h1, r, d) /\ HeapTyped(h2)
  <2>1. IsFunction(h1) /\ r \in DOMAIN h1
    BY <1>7, <1>8 DEF HeapTyped
  <2>2. Placed(h2, h1, r, d)
    BY <1>9, <2>1, ChangedNode
  <2>3. QED
    BY <1>3, <1>5, <1>7, <2>2, PlacedTyped DEF IsNode
<1>11. /\ DOMAIN h2 = DOMAIN h /\ h2[r] = d /\ h2[l] = c
       /\ \A n \in DOMAIN h : n # l /\ n # r => h2[n] = h[n]
  BY <1>8, <1>10 DEF Placed
<1>12. [h EXCEPT ![l].items = @ \cup h[r].items, ![l].nextleaf = x, ![r].items = {}] = h2
  <2>1. PICK e1, e2, e3 :
          /\ e1 = [h EXCEPT ![l] = [h[l] EXCEPT !.items = U]]
          /\ e2 = [e1 EXCEPT ![l] = [e1[l] EXCEPT !.nextleaf = x]]
          /\ e3 = [e2 EXCEPT ![r] = [e2[r] EXCEPT !.items = {}]]
    OBVIOUS
  <2>2. [h EXCEPT ![l].items = @ \cup h[r].items, ![l].nextleaf = x, ![r].items = {}] = e3
    BY <1>1, <2>1
  <2>3. [h[l] EXCEPT !.items = U] = Leaf(U, h[l].prevleaf, h[l].nextleaf)
    BY LeafUpdates
  <2>4. e1[l] = Leaf(U, h[l].prevleaf, h[l].nextleaf)
    BY <2>1, <2>3
  <2>5. e1[l] \in LeafNodes
    BY <1>2, <2>4, LeafFields, NodeRecords
  <2>6. [e1[l] EXCEPT !.nextleaf = x] = c
    <3>1. [e1[l] EXCEPT !.nextleaf = x] = Leaf(e1[l].items, e1[l].prevleaf, x)
      BY <2>5, LeafUpdates
    <3>2. e1[l].items = U /\ e1[l].prevleaf = h[l].prevleaf
      BY <2>4, GivenFields
    <3>3. QED
      BY <1>1, <3>1, <3>2
  <2>7. e2 = h1
    <3>1. e1 = [h EXCEPT ![l] = e1[l]]
      BY <2>1
    <3>2. e2 = [e1 EXCEPT ![l] = c]
      BY <2>1, <2>6
    <3>3. QED
      BY <1>6, <2>1, <3>2
  <2>8. e2[r] = h[r]
    BY <1>8, <2>7
  <2>9. [e2[r] EXCEPT !.items = {}] = d
    BY <1>1, <2>8, LeafUpdates
  <2>10. e3 = h2
    BY <1>9, <2>1, <2>7, <2>9
  <2>11. QED
    BY <2>2, <2>10
<1>13. merge_leaves(h, l, r) = setPrev(h2, x, l)
  BY <1>1, <1>12 DEF merge_leaves
<1>14. QED
  BY <1>1, <1>10, <1>11, <1>13 DEF MergeWritten

\* merge_leaves moves the keys and the links.
LEMMA MergedLeaves ==
  ASSUME NEW h, HeapTyped(h), NEW l \in DOMAIN h, NEW r \in DOMAIN h, l # r,
         h[l] \in LeafNodes, h[r] \in LeafNodes
  PROVE  LeafMerge(merge_leaves(h, l, r), h, l, r)
<1>1. PICK U, x, c, d :
        /\ U = h[l].items \cup h[r].items /\ x = h[r].nextleaf
        /\ c = Leaf(U, h[l].prevleaf, x) /\ d = Leaf({}, h[r].prevleaf, h[r].nextleaf)
  OBVIOUS
<1>2. /\ U \subseteq Keys /\ x \in Pointers /\ h[l].prevleaf \in Pointers
      /\ h[r].prevleaf \in Pointers /\ h[r].nextleaf \in Pointers
      /\ h[l].level = 0 /\ h[r].level = 0
  BY <1>1, LeafFields
<1>3. c \in LeafNodes /\ d \in LeafNodes
  BY <1>1, <1>2, NodeRecords
<1>4. c.items = U /\ d.items = {} /\ c.level = 0 /\ d.level = 0
  BY <1>1, GivenFields
<1>5. l \in Nodes
  BY DEF HeapTyped
<1>6. PICK g : g = merge_leaves(h, l, r)
  OBVIOUS
<1>7. MergeWritten(g, h, l, r)
  BY <1>6, MergedParts
<1>8. PICK h2 :
        /\ g = setPrev(h2, x, l) /\ HeapTyped(h2) /\ DOMAIN h2 = DOMAIN h
        /\ h2[l] = c /\ h2[r] = d
        /\ \A n \in DOMAIN h : n # l /\ n # r => h2[n] = h[n]
  BY <1>1, <1>7 DEF MergeWritten
<1>9. /\ DOMAIN h2 = DOMAIN h /\ h2[r] = d /\ h2[l] = c
       /\ \A n \in DOMAIN h : n # l /\ n # r => h2[n] = h[n]
  BY <1>8
<1>10. l \in Pointers
  BY <1>5 DEF Pointers
<1>11. /\ HeapTyped(g) /\ DOMAIN g = DOMAIN h2
       /\ \A j \in DOMAIN h2 : g[j].level = h2[j].level
       /\ \A j \in DOMAIN h2 : h2[j] \in InnerNodes => g[j] = h2[j]
       /\ \A j \in DOMAIN h2 : h2[j] \in LeafNodes =>
            g[j] \in LeafNodes /\ g[j].items = h2[j].items
  BY <1>8, <1>10, AnyPrev
<1>12. \A n \in DOMAIN h : g[n].level = h[n].level
  BY <1>2, <1>4, <1>9, <1>11
<1>13. \A n \in DOMAIN h : h[n] \in InnerNodes => n # l /\ n # r
  BY <1>2, InnerFields
<1>14. \A n \in DOMAIN h : h[n] \in InnerNodes => g[n] = h[n]
  BY <1>9, <1>11, <1>13
<1>15. ASSUME NEW n \in DOMAIN h, h[n] \in LeafNodes
       PROVE  /\ g[n] \in LeafNodes
              /\ g[n].items = IF n = l THEN h[l].items \cup h[r].items
                              ELSE IF n = r THEN {} ELSE h[n].items
  <2>1. h2[n] \in LeafNodes
    BY <1>3, <1>9, <1>15
  <2>2. g[n] \in LeafNodes /\ g[n].items = h2[n].items
    BY <1>9, <1>11, <2>1
  <2>3. h2[n].items = IF n = l THEN U ELSE IF n = r THEN {} ELSE h[n].items
    BY <1>4, <1>9, <1>15
  <2>4. QED
    BY <1>1, <2>2, <2>3
<1>16. LeafMerge(g, h, l, r)
  BY <1>9, <1>11, <1>12, <1>14, <1>15 DEF LeafMerge
<1>17. QED
  BY <1>6, <1>16

\* A merge leaves one of its nodes to be freed by the activation above.
LEMMA EmptiedAbove ==
  ASSUME TypeOK, stack # <<>>, hasParent, stack' = Front(stack), fixmerge',
         heap'[parent].childid = heap[parent].childid,
         cur = heap[parent].childid[parentslot + 1], NEW c, c = cur
  PROVE  /\ cur' = parent /\ top' = above /\ stack' # <<>>
         /\ slotuse(c)' # 0 => /\ emptied' = parentslot + 1
                               /\ gone' = heap[parent].childid[parentslot + 2]
         /\ slotuse(c)' = 0 => emptied' = parentslot /\ gone' = cur
<1>1. /\ Len(stack) \in Nat /\ Len(stack) >= 1
      /\ Front(stack) \in Seq(Frames) /\ Len(Front(stack)) = Len(stack) - 1
      /\ \A e \in 1 .. Len(stack) - 1 : Front(stack)[e] = stack[e]
      /\ Front(stack) = <<>> <=> Len(stack) = 1
  BY StackEnds
<1>2. Len(stack) > 1 /\ above = stack[Len(stack) - 1] /\ parent = above.node
      /\ parentslot = above.slot
  BY DEF hasParent, above, parent, parentslot
<1>3. Len(stack) - 1 \in 1 .. Len(stack) - 1
  BY <1>1, <1>2
<1>4. top' = above /\ stack' # <<>>
  BY <1>1, <1>2, <1>3 DEF top, Last
<1>5. cur' = parent
  BY <1>2, <1>4 DEF cur
<1>6. PICK s : s = parentslot
  OBVIOUS
<1>7. s \in Nat
  <2>1. Len(stack) - 1 \in 1 .. Len(stack)
    BY <1>1, <1>3
  <2>2. QED
    BY <1>2, <1>6, <2>1, FrameType
<1>8. child(cur, top.slot)' = c
  <2>1. child(cur, top.slot)' = heap'[cur'].childid[top'.slot + 1]
    BY DEF child
  <2>2. QED
    BY <1>2, <1>4, <1>5, <2>1
<1>9. /\ slotuse(c)' # 0 => emptied' = s + 1
      /\ slotuse(c)' = 0 => emptied' = s
  <2>1. slotuse(child(cur, top.slot))' = slotuse(c)'
    BY <1>8 DEF slotuse
  <2>2. top'.slot = s
    BY <1>2, <1>4, <1>6
  <2>3. QED
    BY <2>1, <2>2 DEF emptied
<1>10. gone' = heap[parent].childid[emptied' + 1]
  <2>1. gone' = heap'[cur'].childid[emptied' + 1]
    BY DEF gone, child
  <2>2. QED
    BY <1>5, <2>1
<1>11. s + 1 + 1 = s + 2
  BY <1>7
<1>12. QED
  BY <1>4, <1>5, <1>6, <1>9, <1>10, <1>11

-----------------------------------------------------------------------------
(* erase_one_descend leaves its leaf *)

\* What is left of the leaf and of the one that a merge empties.
LeafLeft ==
  /\ gone' = Null \/ gone' \in Leaves
  /\ \A n \in Leaves : n # gone' => LeafFilled(n)'
  /\ fixmerge' => /\ stack' # <<>> /\ emptied' \in 1 .. slotuse(cur)'
                  /\ slotuse(gone)' = 0

\* What erase does at the leaf keeps the shape.
LEMMA FromLeafShape ==
  ASSUME ShapeInv, atKey, fromLeaf, HeapTyped(heap'), DOMAIN heap' = DOMAIN heap,
         \A n \in DOMAIN heap : heap'[n].level = heap[n].level,
         \A n \in Inner : Alike(n), tail' \in Pointers, fixmerge' \in BOOLEAN, LeafLeft
  PROVE  /\ ShapeInv' /\ Leaves' = Leaves /\ Inner' = Inner
         /\ LiveInner' = Inner /\ LiveLeaves' = Leaves \ {gone'}
<1>1. /\ pc = "erase" /\ isleafnode(cur) /\ pc' = "fix" /\ stack' = Front(stack)
      /\ lastkey' = scheduled
      /\ UNCHANGED <<root, head, stats, key, newkey, newchild, stored>> /\ descending
  BY DEF atKey, fromLeaf, split, descending
<1>2. /\ stack # <<>> /\ root # Null /\ gone = Null /\ ~fixmerge /\ newchild = Null
      /\ LiveInner = Inner /\ LiveLeaves = Leaves /\ key \in Keys
  BY <1>1, AtLeaf
<1>3. TypeOK /\ Tree /\ StackLeadsDown /\ Counted
  BY DEF ShapeInv, CallUnderWay
<1>4. Leaves' = Leaves /\ Inner' = Inner
  BY SameKinds
<1>5. LiveInner' = Inner /\ LiveLeaves' = Leaves \ {gone'}
  BY <1>3, <1>4, NodeKinds DEF LiveInner, LiveLeaves, LeafLeft
<1>6. \A n \in Inner : n \in Live'
  BY <1>3, NodeKinds DEF Live, LeafLeft
<1>7. StackLeadsDown' /\ stack' \in Seq(Frames)
  BY <1>1, <1>2, <1>3, <1>6, UpStack DEF HeapTyped
<1>8. TypeOK'
  <2>1. lastkey' \in Keys \cup {Null}
    <3>1. rest \subseteq Keys /\ IsFiniteSet(rest)
      BY ErasedLeaf
    <3>2. rest # {} => Max(rest) \in rest
      BY <3>1, KeyTypes, MaxElement
    <3>3. QED
      BY <1>1, <3>1, <3>2 DEF scheduled
  <2>2. stats' \in Counters /\ root' \in DOMAIN heap' \cup {Null} /\ head' \in Pointers
    BY <1>1, <1>3, TypeNow
  <2>3. QED
    BY <1>1, <1>3, <1>7, <2>1, <2>2, TypeNow, TypeNext
<1>9. Tree'
  <2>1. ASSUME NEW n \in LiveInner PROVE least(n)' <= Len(heap[n].slotkey)
    <3>1. InnerFilled(n)
      BY <1>3 DEF Tree
    <3>2. least(n)' = IF n = root THEN 1 ELSE innerslotmax \div 2
      BY <1>1, <1>2 DEF least, rootSplit
    <3>3. least(n) = IF n = root THEN 1 ELSE innerslotmax \div 2
      BY <1>1, <1>2, LeastValues DEF rootSplit
    <3>4. QED
      BY <3>1, <3>2, <3>3, FilledSlots
  <2>2. \A n \in LiveLeaves' : LeafFilled(n)'
    BY <1>5 DEF LeafLeft
  <2>3. DOMAIN heap' \ {root', newchild'} = DOMAIN heap \ {root, newchild}
    BY <1>1
  <2>4. QED
    BY <1>1, <1>2, <1>3, <1>5, <2>1, <2>2, <2>3, TreeAlike
<1>10. CallUnderWay'
  <2>1. key # Null
    BY <1>2, KeyTypes
  <2>2. QED
    BY <1>1, <1>2, <1>7, <2>1 DEF CallUnderWay, LeafLeft
<1>11. Counted'
  BY <1>1, <1>3, <1>4 DEF Counted
<1>12. QED
  BY <1>4, <1>5, <1>8, <1>9, <1>10, <1>11 DEF ShapeInv

\* The neighbours of a leaf are leaves.
LEMMA NearLeaves ==
  ASSUME ShapeInv, descending, isleafnode(cur), hasParent
  PROVE  /\ parentslot > 0 => top.left \in Leaves /\ slotuse(top.left) = Cardinality(heap[top.left].items)
         /\ parentslot < Len(heap[parent].slotkey) =>
              top.right \in Leaves /\ slotuse(top.right) = Cardinality(heap[top.right].items)
<1>1. stack # <<>> /\ gone = Null /\ TypeOK /\ heap[cur].level = 0
  BY AtLeaf DEF ShapeInv
<1>2. \A n \in DOMAIN heap : heap[n].level = 0 =>
         n \in Leaves /\ slotuse(n) = Cardinality(heap[n].items)
  BY <1>1, SlotUse, Levels
<1>3. QED
  BY <1>1, <1>2, NearNodes

\* The leaf keeps its keys, of which some are left.
LEMMA EraseKeepShape ==
  ASSUME ShapeInv, EraseKeep
  PROVE  /\ ShapeInv' /\ Leaves' = Leaves /\ gone' = Null /\ LiveLeaves = Leaves
         /\ LiveLeaves' = Leaves /\ cur \in Leaves
         /\ \A n \in Leaves : heap'[n].items = IF n = cur THEN rest ELSE heap[n].items
<1>1. /\ atKey /\ ~mergesLeft /\ ~mergesRight /\ ~emptiesRoot /\ heap' = erased
      /\ fixmerge' = FALSE /\ fromLeaf /\ tail' = tail /\ descending /\ isleafnode(cur)
  BY DEF EraseKeep, atKey, descending
<1>2. /\ stack # <<>> /\ root # Null /\ gone = Null /\ LiveLeaves = Leaves
      /\ cur \in Leaves /\ heap[cur].level = 0
      /\ Cardinality(heap[cur].items) <= leafslotmax
      /\ Cardinality(heap[cur].items) \in Nat
      /\ TypeOK /\ Tree /\ LinkedOnce /\ StackLeadsDown /\ LiveInner = Inner
  BY <1>1, AtLeaf DEF ShapeInv, CallUnderWay, Tree
<1>3. PICK h : h = erased
  OBVIOUS
<1>4. /\ HeapTyped(h) /\ DOMAIN h = DOMAIN heap
      /\ h[cur] = Leaf(rest, heap[cur].prevleaf, heap[cur].nextleaf)
      /\ \A n \in Leaves : n # cur => h[n] = heap[n]
      /\ \A n \in Inner : /\ h[n].level = heap[n].level
                          /\ h[n].childid = heap[n].childid
                          /\ Len(h[n].slotkey) = Len(heap[n].slotkey)
      /\ rest \subseteq Keys /\ IsFiniteSet(rest) /\ Cardinality(rest) \in Nat
      /\ Cardinality(rest) < Cardinality(heap[cur].items)
  BY <1>1, <1>3, ErasedLeaf
<1>5. /\ HeapTyped(heap') /\ DOMAIN heap' = DOMAIN heap
      /\ heap'[cur].items = rest /\ heap'[cur].level = 0
      /\ \A n \in Leaves : n # cur => heap'[n] = heap[n]
      /\ \A n \in Inner : Alike(n)
  BY <1>1, <1>3, <1>4, GivenFields DEF Alike
<1>6. \A n \in DOMAIN heap : heap'[n].level = heap[n].level
  BY <1>2, <1>5, NodeKinds DEF Alike
\* An empty leaf has a neighbour to merge with.
<1>7. rest # {}
  <2>1. SUFFICES ASSUME rest = {} PROVE FALSE
    OBVIOUS
  <2>2. Cardinality(rest) = 0 /\ fewLeft
    <3>1. Cardinality(rest) = 0
      BY <2>1, FS_EmptySet
    <3>2. QED
      BY <3>1, Half DEF fewLeft
  <2>3. \A n \in LiveInner : InnerFilled(n)
    BY <1>2 DEF Tree
  <2>4. /\ hasParent <=> cur # root
        /\ ~hasParent => top.left = Null /\ top.right = Null
    BY <1>2, <2>3, CurrentNode
  <2>5. hasParent /\ cur # root
    BY <1>1, <2>1, <2>4 DEF emptiesRoot
  <2>6. /\ parentslot > 0 => top.leftparent = parent
        /\ parentslot < Len(heap[parent].slotkey) => top.rightparent = parent
        /\ parentslot > 0 \/ parentslot < Len(heap[parent].slotkey)
    BY <1>2, <2>5, NearNodes
  <2>7. /\ parentslot > 0 => top.left \in Leaves /\ slotuse(top.left) = Cardinality(heap[top.left].items)
        /\ parentslot < Len(heap[parent].slotkey) =>
             top.right \in Leaves /\ slotuse(top.right) = Cardinality(heap[top.right].items)
    BY <1>1, <2>5, NearLeaves
  <2>8. \A n \in Leaves : /\ n # Null /\ Cardinality(heap[n].items) <= leafslotmax
                          /\ 0 + Cardinality(heap[n].items) <= leafslotmax
    <3>1. ASSUME NEW n \in Leaves
          PROVE  /\ n # Null /\ Cardinality(heap[n].items) <= leafslotmax
                 /\ 0 + Cardinality(heap[n].items) <= leafslotmax
      <4>1. LeafFilled(n) /\ n # Null
        BY <1>2, NodeKinds DEF Tree
      <4>2. Cardinality(heap[n].items) \in Nat
        BY <4>1, FS_CardinalityType DEF LeafFilled
      <4>3. QED
        BY <4>1, <4>2 DEF LeafFilled
    <3>2. QED
      BY <3>1
  <2>9. parentslot > 0 => mergesLeft
    BY <2>2, <2>5, <2>6, <2>7, <2>8 DEF mergesLeft, canMerge
  <2>10. parentslot < Len(heap[parent].slotkey) => mergesRight
    BY <1>1, <2>2, <2>5, <2>6, <2>7, <2>8 DEF mergesRight, canMerge
  <2>11. QED
    BY <1>1, <2>6, <2>9, <2>10
<1>8. gone' = Null
  BY <1>1 DEF gone
<1>9. LeafLeft
  <2>1. ASSUME NEW n \in Leaves PROVE LeafFilled(n)'
    <3>1. CASE n = cur
      <4>1. Cardinality(rest) <= leafslotmax
        BY <1>2, <1>4, Half
      <4>2. QED
        BY <1>4, <1>5, <1>7, <3>1, <4>1 DEF LeafFilled
    <3>2. CASE n # cur
      <4>1. LeafFilled(n) /\ heap[n].items # {} /\ heap'[n] = heap[n]
        BY <1>1, <1>2, <1>5, <3>2, AtLeaf DEF Tree
      <4>2. QED
        BY <4>1 DEF LeafFilled
    <3>3. QED
      BY <3>1, <3>2
  <2>2. QED
    BY <1>1, <1>8, <2>1 DEF LeafLeft
<1>10. tail' \in Pointers /\ fixmerge' \in BOOLEAN
  BY <1>1, <1>2, TypeNow
<1>11. /\ ShapeInv' /\ Leaves' = Leaves /\ LiveLeaves' = Leaves \ {gone'}
  BY <1>1, <1>5, <1>6, <1>9, <1>10, FromLeafShape
<1>12. LiveLeaves' = Leaves
  BY <1>2, <1>8, <1>11, NodeKinds
<1>13. \A n \in Leaves : heap'[n].items = IF n = cur THEN rest ELSE heap[n].items
  BY <1>5
<1>14. QED
  BY <1>2, <1>8, <1>11, <1>12, <1>13

\* The leaf r is merged into l: one of them is the current leaf, and the other o.
LeavesMerged(l, r, o) ==
  /\ ShapeInv' /\ Leaves' = Leaves /\ gone' = r /\ LiveLeaves = Leaves
  /\ LiveLeaves' = Leaves \ {r} /\ cur \in Leaves
  /\ \A n \in Leaves \ {r} :
       heap'[n].items = IF n = l THEN rest \cup heap[o].items ELSE heap[n].items

\* The leaf o beside the current one is merged with it.
LEMMA MergeIntoShape ==
  ASSUME ShapeInv, atKey, fromLeaf, NEW l, NEW r, mergeInto(l, r), hasParent,
         NEW o \in Leaves, o # cur,
         \/ l = o /\ r = cur /\ parentslot > 0
         \/ /\ l = cur /\ r = o /\ parentslot < Len(heap[parent].slotkey)
            /\ o = heap[parent].childid[parentslot + 2],
         Cardinality(rest) + Cardinality(heap[o].items) <= leafslotmax
  PROVE  LeavesMerged(l, r, o)
<1>1. /\ heap' = merge_leaves(erased, l, r) /\ fixmerge' /\ fixmerge' = TRUE
      /\ tail' \in {l, tail} /\ pc = "erase" /\ isleafnode(cur) /\ descending
      /\ stack' = Front(stack)
  BY DEF mergeInto, atKey, descending, fromLeaf
<1>2. /\ stack # <<>> /\ root # Null /\ gone = Null /\ LiveLeaves = Leaves
      /\ cur \in Leaves /\ cur \in DOMAIN heap /\ heap[cur].level = 0
      /\ TypeOK /\ Tree /\ LinkedOnce /\ StackLeadsDown /\ LiveInner = Inner
      /\ \A n \in Leaves : n # cur => heap[n].items # {}
  BY <1>1, AtLeaf DEF ShapeInv, CallUnderWay, Tree
<1>3. PICK h, c : h = erased /\ c = cur
  OBVIOUS
<1>4. /\ HeapTyped(h) /\ DOMAIN h = DOMAIN heap
      /\ h[cur] = Leaf(rest, heap[cur].prevleaf, heap[cur].nextleaf)
      /\ \A n \in Leaves : n # cur => h[n] = heap[n]
      /\ \A n \in Inner : /\ h[n] \in InnerNodes /\ h[n].level = heap[n].level
                          /\ h[n].childid = heap[n].childid
                          /\ Len(h[n].slotkey) = Len(heap[n].slotkey)
      /\ rest \subseteq Keys /\ IsFiniteSet(rest) /\ Cardinality(rest) \in Nat
  BY <1>1, <1>3, ErasedLeaf
<1>5. /\ h[cur].items = rest /\ h[cur].level = 0 /\ h[cur] \in LeafNodes
  <2>1. heap[cur] \in LeafNodes
    BY <1>2, NodeKinds
  <2>2. heap[cur].prevleaf \in Pointers /\ heap[cur].nextleaf \in Pointers
    BY <2>1, LeafFields
  <2>3. QED
    BY <1>4, <2>2, GivenFields, NodeRecords
<1>6. \A n \in Leaves : h[n] \in LeafNodes /\ h[n].level = heap[n].level /\ n \in DOMAIN h
  BY <1>2, <1>4, <1>5, NodeKinds
<1>7. l \in Leaves /\ r \in Leaves /\ l # r
  BY <1>2
<1>8. PICK g : g = merge_leaves(h, l, r)
  OBVIOUS
<1>9. /\ HeapTyped(g) /\ DOMAIN g = DOMAIN h
      /\ \A n \in DOMAIN h : g[n].level = h[n].level
      /\ \A n \in DOMAIN h : h[n] \in InnerNodes => g[n] = h[n]
      /\ \A n \in DOMAIN h : h[n] \in LeafNodes =>
           /\ g[n] \in LeafNodes
           /\ g[n].items = IF n = l THEN h[l].items \cup h[r].items
                           ELSE IF n = r THEN {} ELSE h[n].items
  <2>1. h[l] \in LeafNodes /\ h[r] \in LeafNodes /\ l \in DOMAIN h /\ r \in DOMAIN h /\ l # r
    BY <1>6, <1>7
  <2>2. HeapTyped(h)
    BY <1>4
  <2>3. LeafMerge(g, h, l, r)
    BY <1>8, <2>1, <2>2, MergedLeaves
  <2>4. QED
    BY <2>3 DEF LeafMerge
<1>10. heap' = g
  BY <1>1, <1>3, <1>8
<1>11. /\ HeapTyped(heap') /\ DOMAIN heap' = DOMAIN heap
       /\ \A n \in DOMAIN heap : heap'[n].level = heap[n].level
  <2>1. \A n \in DOMAIN heap : h[n].level = heap[n].level
    BY <1>2, <1>4, <1>6, NodeKinds
  <2>2. QED
    BY <1>4, <1>9, <1>10, <2>1
<1>12. \A n \in Inner : heap'[n] = h[n] /\ Alike(n)
  <2>1. \A n \in Inner : n \in DOMAIN h
    BY <1>2, <1>4, NodeKinds
  <2>2. QED
    BY <1>4, <1>9, <1>10, <2>1 DEF Alike
<1>13. h[l].items \cup h[r].items = rest \cup heap[o].items
  BY <1>4, <1>5
<1>14. \A n \in Leaves : heap'[n].items = IF n = l THEN rest \cup heap[o].items
                                          ELSE IF n = r THEN {} ELSE heap[n].items
  <2>1. \A n \in Leaves : n # l /\ n # r => h[n].items = heap[n].items
    BY <1>4
  <2>2. QED
    BY <1>6, <1>9, <1>10, <1>13, <2>1
<1>15. PICK U : U = rest \cup heap[o].items
  OBVIOUS
<1>16. IsFiniteSet(U) /\ Cardinality(U) <= leafslotmax /\ U # {} /\ Cardinality(U) \in Nat
  <2>1. LeafFilled(o)
    BY <1>2 DEF Tree
  <2>2. IsFiniteSet(heap[o].items) /\ Cardinality(heap[o].items) \in Nat
    BY <2>1, FS_CardinalityType DEF LeafFilled
  <2>3. PICK I : I = rest \cap heap[o].items
    OBVIOUS
  <2>4. IsFiniteSet(I) /\ Cardinality(I) \in Nat
    BY <1>4, <2>3, FS_Subset, FS_CardinalityType
  <2>5. /\ IsFiniteSet(U)
        /\ Cardinality(U) = Cardinality(rest) + Cardinality(heap[o].items) - Cardinality(I)
    BY <1>4, <1>15, <2>2, <2>3, FS_Union
  <2>6. Cardinality(U) <= leafslotmax
    BY <1>4, <2>2, <2>4, <2>5, Half
  <2>7. U # {}
    BY <1>2, <1>15
  <2>8. QED
    BY <2>5, <2>6, <2>7, FS_CardinalityType
<1>17. /\ parent \in LiveInner /\ parent \in DOMAIN heap /\ cur = heap[parent].childid[parentslot + 1]
       /\ parentslot \in Nat /\ Len(heap[parent].slotkey) \in Nat
       /\ parentslot <= Len(heap[parent].slotkey)
  <2>1. \A n \in LiveInner : InnerFilled(n)
    BY <1>2 DEF Tree
  <2>2. QED
    BY <1>2, <2>1, CurrentNode, NearNodes
<1>18. heap'[parent].childid = heap[parent].childid
       /\ Len(heap'[parent].slotkey) = Len(heap[parent].slotkey)
  BY <1>2, <1>12, <1>17 DEF Alike
<1>19. /\ cur' = parent /\ stack' # <<>>
       /\ slotuse(c)' # 0 => /\ emptied' = parentslot + 1
                             /\ gone' = heap[parent].childid[parentslot + 2]
       /\ slotuse(c)' = 0 => emptied' = parentslot /\ gone' = cur
  BY <1>1, <1>2, <1>3, <1>17, <1>18, EmptiedAbove
<1>20. \A n \in Leaves : slotuse(n)' = Cardinality(heap'[n].items)
  <2>1. \A n \in Leaves : heap'[n].level = 0
    BY <1>2, <1>11, Levels, NodeKinds
  <2>2. QED
    BY <2>1 DEF slotuse, slotuseIn
<1>21. gone' = r /\ emptied' \in 1 .. Len(heap[parent].slotkey)
  <2>1. CASE l = o /\ r = cur /\ parentslot > 0
    <3>1. heap'[c].items = {}
      BY <1>2, <1>3, <1>14, <2>1
    <3>2. slotuse(c)' = 0
      BY <1>2, <1>3, <1>20, <3>1, FS_EmptySet
    <3>3. QED
      BY <1>17, <1>19, <2>1, <3>2
  <2>2. CASE /\ l = cur /\ r = o /\ parentslot < Len(heap[parent].slotkey)
             /\ o = heap[parent].childid[parentslot + 2]
    <3>1. heap'[c].items = U
      BY <1>2, <1>3, <1>14, <1>15, <2>2
    <3>2. slotuse(c)' # 0
      BY <1>2, <1>3, <1>16, <1>20, <3>1, FS_EmptySet
    <3>3. QED
      BY <1>17, <1>19, <2>2, <3>2
  <2>3. QED
    BY <2>1, <2>2
<1>22. LeafLeft
  <2>1. slotuse(gone)' = 0
    <3>1. PICK x : x = gone'
      OBVIOUS
    <3>2. heap'[x].items = {} /\ x \in Leaves
      BY <1>7, <1>14, <1>21, <3>1
    <3>3. slotuse(x)' = 0
      BY <1>20, <3>2, FS_EmptySet
    <3>4. QED
      BY <3>1, <3>3 DEF slotuse
  <2>2. slotuse(cur)' = Len(heap[parent].slotkey)
    <3>1. heap'[parent].level # 0
      BY <1>2, <1>11, <1>17, Levels
    <3>2. QED
      BY <1>18, <1>19, <3>1 DEF slotuse, slotuseIn
  <2>3. ASSUME NEW n \in Leaves, n # gone' PROVE LeafFilled(n)'
    <3>1. CASE n = l
      BY <1>14, <1>15, <1>16, <3>1 DEF LeafFilled
    <3>2. CASE n # l
      <4>1. n # r /\ heap'[n].items = heap[n].items /\ n # cur
        BY <1>14, <1>21, <2>3, <3>2
      <4>2. LeafFilled(n) /\ heap[n].items # {}
        BY <1>2, <2>3, <4>1 DEF Tree
      <4>3. QED
        BY <4>1, <4>2 DEF LeafFilled
    <3>3. QED
      BY <3>1, <3>2
  <2>4. QED
    BY <1>7, <1>19, <1>21, <2>1, <2>2, <2>3 DEF LeafLeft
<1>23. tail' \in Pointers /\ fixmerge' \in BOOLEAN
  <2>1. l \in Nodes
    BY <1>2, <1>7, NodeKinds
  <2>2. QED
    BY <1>1, <1>2, <2>1, TypeNow
<1>24. ShapeInv' /\ Leaves' = Leaves /\ LiveLeaves' = Leaves \ {gone'}
  BY <1>11, <1>12, <1>22, <1>23, FromLeafShape
<1>25. \A n \in Leaves \ {r} :
         heap'[n].items = IF n = l THEN rest \cup heap[o].items ELSE heap[n].items
  BY <1>14
<1>26. QED
  BY <1>2, <1>21, <1>24, <1>25 DEF LeavesMerged

\* A leaf merged into its left neighbour keeps the shape.
LEMMA EraseMergeLeftShape ==
  ASSUME ShapeInv, EraseMergeLeft
  PROVE  /\ ShapeInv' /\ Leaves' = Leaves /\ gone' = cur /\ LiveLeaves = Leaves
         /\ LiveLeaves' = Leaves \ {cur} /\ cur \in Leaves
         /\ top.left \in Leaves /\ top.left # cur /\ hasParent /\ parentslot > 0
         /\ \A n \in Leaves \ {cur} :
              heap'[n].items = IF n = top.left THEN rest \cup heap[top.left].items
                               ELSE heap[n].items
<1>1. /\ atKey /\ fromLeaf /\ mergeInto(top.left, cur) /\ descending /\ isleafnode(cur)
      /\ cur # root /\ Cardinality(rest) + slotuse(top.left) <= leafslotmax
      /\ top.leftparent = parent
  BY DEF EraseMergeLeft, mergesLeft, canMerge, atKey, descending
<1>2. stack # <<>> /\ gone = Null /\ hasParent
  <2>1. /\ stack # <<>> /\ root # Null /\ gone = Null
        /\ TypeOK /\ Tree /\ LinkedOnce /\ StackLeadsDown
    BY <1>1, AtLeaf DEF ShapeInv, CallUnderWay, Tree
  <2>2. QED
    BY <1>1, <2>1, CurrentNode DEF Tree
<1>3. parentslot > 0 /\ top.left # cur
  BY <1>1, <1>2, NearNodes
<1>4. top.left \in Leaves /\ slotuse(top.left) = Cardinality(heap[top.left].items)
  BY <1>1, <1>2, <1>3, NearLeaves
<1>5. PICK o, r : o = top.left /\ r = cur
  OBVIOUS
<1>6. LeavesMerged(o, r, o)
  <2>1. /\ o \in Leaves /\ o # cur /\ mergeInto(o, r) /\ r = cur /\ parentslot > 0
        /\ Cardinality(rest) + Cardinality(heap[o].items) <= leafslotmax
    BY <1>1, <1>3, <1>4, <1>5
  <2>2. QED
    BY <1>1, <1>2, <2>1, MergeIntoShape
<1>7. QED
  BY <1>2, <1>3, <1>4, <1>5, <1>6 DEF LeavesMerged

\* A leaf that takes its right neighbour's keys keeps the shape.
LEMMA EraseMergeRightShape ==
  ASSUME ShapeInv, EraseMergeRight
  PROVE  /\ ShapeInv' /\ Leaves' = Leaves /\ gone' = top.right /\ LiveLeaves = Leaves
         /\ LiveLeaves' = Leaves \ {top.right} /\ cur \in Leaves
         /\ top.right \in Leaves /\ top.right # cur /\ hasParent
         /\ parentslot < Len(heap[parent].slotkey)
         /\ \A n \in Leaves \ {top.right} :
              heap'[n].items = IF n = cur THEN rest \cup heap[top.right].items
                               ELSE heap[n].items
<1>1. /\ atKey /\ fromLeaf /\ mergeInto(cur, top.right) /\ descending /\ isleafnode(cur)
      /\ cur # root /\ Cardinality(rest) + slotuse(top.right) <= leafslotmax
      /\ top.rightparent = parent
  BY DEF EraseMergeRight, mergesRight, canMerge, atKey, descending
<1>2. stack # <<>> /\ gone = Null /\ hasParent
  <2>1. /\ stack # <<>> /\ root # Null /\ gone = Null
        /\ TypeOK /\ Tree /\ LinkedOnce /\ StackLeadsDown
    BY <1>1, AtLeaf DEF ShapeInv, CallUnderWay, Tree
  <2>2. QED
    BY <1>1, <2>1, CurrentNode DEF Tree
<1>3. /\ parentslot < Len(heap[parent].slotkey) /\ top.right # cur
      /\ top.right = heap[parent].childid[parentslot + 2]
  BY <1>1, <1>2, NearNodes
<1>4. top.right \in Leaves /\ slotuse(top.right) = Cardinality(heap[top.right].items)
  BY <1>1, <1>2, <1>3, NearLeaves
<1>5. PICK o, l : o = top.right /\ l = cur
  OBVIOUS
<1>6. LeavesMerged(l, o, o)
  <2>1. /\ o \in Leaves /\ o # cur /\ mergeInto(l, o) /\ l = cur
        /\ parentslot < Len(heap[parent].slotkey) /\ o = heap[parent].childid[parentslot + 2]
        /\ Cardinality(rest) + Cardinality(heap[o].items) <= leafslotmax
    BY <1>1, <1>3, <1>4, <1>5
  <2>2. hasParent /\ ShapeInv /\ atKey /\ fromLeaf
    BY <1>1, <1>2
  <2>3. QED
    BY <2>1, <2>2, MergeIntoShape
<1>7. QED
  BY <1>2, <1>3, <1>4, <1>5, <1>6 DEF LeavesMerged

-----------------------------------------------------------------------------
(* The emptied child leaves its node *)

\* The heap g is h without the child in slot s of the node n.
Dropped(g, h, n, s, K1, K2, C2) ==
  /\ HeapTyped(g) /\ DOMAIN g = DOMAIN h \ {h[n].childid[s + 1]}
  /\ g[n] = InnerNode(h[n].level, K2, C2)
  /\ K1 \in Seq(Keys) /\ K2 \in Seq(Keys) /\ C2 \in Seq(Nodes)
  /\ Removed(K1, h[n].slotkey, s) /\ Removed(C2, h[n].childid, s + 1)
  /\ Len(K2) = Len(K1)
  /\ K2 = IF h[n].level = 1 /\ s <= Len(K1)
            THEN [K1 EXCEPT ![s] = Max(h[h[n].childid[s]].items)] ELSE K1
  /\ \A m \in DOMAIN g : m # n => g[m] = h[m]

\* What dropChild makes of a node.
LEMMA DroppedChild ==
  ASSUME NEW h, HeapTyped(h), NEW n \in DOMAIN h, h[n] \in InnerNodes,
         Len(h[n].childid) = Len(h[n].slotkey) + 1,
         NEW s \in 1 .. Len(h[n].slotkey), n # h[n].childid[s + 1],
         h[n].level = 1 => Max(h[h[n].childid[s]].items) \in Keys
  PROVE  \E K1, K2, C2 : Dropped(dropChild(h, n, s), h, n, s, K1, K2, C2)
<1>1. PICK l, K, C, x : /\ l = h[n].level /\ K = h[n].slotkey /\ C = h[n].childid
                        /\ x = Max(h[h[n].childid[s]].items)
  OBVIOUS
<1>2. /\ l \in Nat \ {0} /\ K \in Seq(Keys) /\ C \in Seq(Nodes) /\ h[n] = InnerNode(l, K, C)
      /\ Len(C) = Len(K) + 1 /\ s \in 1 .. Len(K) /\ n \in Nodes /\ (l = 1 => x \in Keys)
  BY <1>1, InnerFields DEF HeapTyped
<1>3. s + 1 \in 1 .. Len(C) /\ Len(K) \in Nat
  BY <1>2
<1>4. PICK K1, C2 : K1 = RemoveAt(K, s) /\ C2 = RemoveAt(C, s + 1)
  OBVIOUS
<1>5. K1 \in Seq(Keys) /\ Removed(K1, K, s)
  BY <1>2, <1>4, RemoveAtElement
<1>6. C2 \in Seq(Nodes) /\ Removed(C2, C, s + 1)
  BY <1>2, <1>3, <1>4, RemoveAtElement
<1>7. PICK K2 : K2 = IF l = 1 /\ s <= Len(K1) THEN [K1 EXCEPT ![s] = x] ELSE K1
  OBVIOUS
<1>8. K2 \in Seq(Keys) /\ Len(K2) = Len(K1)
  <2>1. CASE l = 1 /\ s <= Len(K1)
    <3>1. s \in 1 .. Len(K1) /\ K2 = [K1 EXCEPT ![s] = x] /\ x \in Keys
      BY <1>2, <1>5, <1>7, <2>1
    <3>2. QED
      BY <1>5, <3>1, ExceptSeq
  <2>2. CASE ~(l = 1 /\ s <= Len(K1))
    BY <1>5, <1>7, <2>2
  <2>3. QED
    BY <2>1, <2>2
<1>9. PICK c : c = InnerNode(l, K2, C2)
  OBVIOUS
<1>10. c \in InnerNodes
  BY <1>2, <1>6, <1>8, <1>9, NodeRecords
<1>11. PICK r : r = InnerNode(l, K1, C2)
  OBVIOUS
<1>12. [h[n] EXCEPT !.slotkey = RemoveAt(@, s), !.childid = RemoveAt(@, s + 1)] = r
  <2>1. PICK d, e : /\ d = [h[n] EXCEPT !.slotkey = K1] /\ e = [d EXCEPT !.childid = C2]
    OBVIOUS
  <2>2. d = InnerNode(l, K1, C)
    BY <1>1, <2>1, InnerUpdates
  <2>3. d \in InnerNodes /\ d.level = l /\ d.slotkey = K1
    BY <1>2, <1>5, <2>2, NodeRecords, GivenFields
  <2>4. e = r
    BY <1>11, <2>1, <2>3, InnerUpdates
  <2>5. [h[n] EXCEPT !.slotkey = RemoveAt(@, s), !.childid = RemoveAt(@, s + 1)] = e
    <3>1. [h[n] EXCEPT !.slotkey = RemoveAt(@, s), !.childid = RemoveAt(@, s + 1)]
            = [[h[n] EXCEPT !.slotkey = RemoveAt(h[n].slotkey, s)]
                 EXCEPT !.childid = RemoveAt(h[n].childid, s + 1)]
      OBVIOUS
    <3>2. QED
      BY <1>1, <1>4, <2>1, <3>1
  <2>6. QED
    BY <2>4, <2>5
<1>13. r \in InnerNodes /\ r.slotkey = K1
  BY <1>2, <1>5, <1>6, <1>11, NodeRecords, GivenFields
<1>14. [r EXCEPT !.slotkey[s] = x] = InnerNode(l, [K1 EXCEPT ![s] = x], C2)
  <2>1. [r EXCEPT !.slotkey[s] = x] = [r EXCEPT !.slotkey = [K1 EXCEPT ![s] = x]]
    BY <1>13
  <2>2. PICK K3 : K3 = [K1 EXCEPT ![s] = x]
    OBVIOUS
  <2>3. [r EXCEPT !.slotkey = K3] = InnerNode(l, K3, C2)
    <3>1. r.level = l /\ r.childid = C2
      BY <1>11, GivenFields
    <3>2. QED
      BY <1>13, <3>1, InnerUpdates
  <2>4. QED
    BY <2>1, <2>2, <2>3
<1>15. (IF l = 1 /\ s <= Len(r.slotkey) THEN [r EXCEPT !.slotkey[s] = x] ELSE r) = c
  <2>1. CASE l = 1 /\ s <= Len(K1)
    BY <1>7, <1>9, <1>13, <1>14, <2>1
  <2>2. CASE ~(l = 1 /\ s <= Len(K1))
    BY <1>7, <1>9, <1>11, <1>13, <2>2
  <2>3. QED
    BY <2>1, <2>2
<1>16. PICK z, h1, g : /\ z = C[s + 1] /\ h1 = without(h, z) /\ g = put(h1, n, c)
  OBVIOUS
<1>17. dropChild(h, n, s) = g
  BY <1>1, <1>12, <1>15, <1>16 DEF dropChild
<1>18. Freed(h1, h, z) /\ Placed(g, h1, n, c)
  BY <1>16, WithoutNode, PutNode
<1>19. HeapTyped(g)
  <2>1. HeapTyped(h1)
    BY <1>18, FreedTyped
  <2>2. QED
    BY <1>2, <1>10, <1>18, <2>1, PlacedTyped DEF IsNode
<1>20. /\ DOMAIN g = DOMAIN h \ {z} /\ g[n] = c
       /\ \A m \in DOMAIN g : m # n => g[m] = h[m]
  <2>1. n # z
    BY <1>1, <1>16
  <2>2. QED
    BY <1>18, <2>1 DEF Freed, Placed
<1>21. Dropped(g, h, n, s, K1, K2, C2)
  BY <1>1, <1>5, <1>6, <1>7, <1>8, <1>9, <1>16, <1>19, <1>20 DEF Dropped
<1>22. QED
  BY <1>17, <1>21

\* The parent's key follows the last key below the node.
LEMMA LastkeySet ==
  ASSUME ShapeInv, pc = "fix", stack # <<>>
  PROVE  LET h == setLastkey
         IN /\ HeapTyped(h) /\ DOMAIN h = DOMAIN heap
            /\ \A n \in Leaves : h[n] = heap[n]
            /\ \A n \in Inner : /\ h[n] \in InnerNodes /\ h[n].level = heap[n].level
                                /\ h[n].childid = heap[n].childid
                                /\ Len(h[n].slotkey) = Len(heap[n].slotkey)
                                /\ n # parent => h[n] = heap[n]
            /\ h[cur] = heap[cur]
            /\ lastkey # Null /\ keyAbove => h[parent].slotkey
                 = [heap[parent].slotkey EXCEPT ![parentslot + 1] = lastkey]
            /\ ~(lastkey # Null /\ keyAbove) => h = heap
<1>1. /\ TypeOK /\ LinkedOnce /\ StackLeadsDown /\ root # Null /\ cur \in Inner
      /\ cur \in DOMAIN heap /\ Tree
  BY AtInner
<1>2. HeapTyped(heap) /\ \A n \in Inner : heap[n] \in InnerNodes
  BY <1>1, HeapNow, NodeKinds
<1>3. CASE ~(lastkey # Null /\ keyAbove)
  <2>1. setLastkey = heap
    BY <1>3 DEF setLastkey
  <2>2. QED
    BY <1>2, <1>3, <2>1
<1>4. CASE lastkey # Null /\ keyAbove
  <2>1. hasParent /\ parentslot < slotuse(parent) /\ lastkey \in Keys
    BY <1>1, <1>4, TypeNow DEF keyAbove
  <2>2. \A n \in LiveInner : InnerFilled(n)
    BY <1>1 DEF Tree
  <2>3. /\ parent \in LiveInner /\ parent \in DOMAIN heap /\ parent # cur
        /\ parentslot \in 0 .. Len(heap[parent].slotkey)
    BY <1>1, <2>1, <2>2, CurrentNode
  <2>4. parent \in Inner /\ Len(heap[parent].slotkey) \in Nat
        /\ slotuse(parent) = Len(heap[parent].slotkey)
    BY <1>1, <2>2, <2>3, ChildNodes, LiveNodes
  <2>5. parentslot + 1 \in 1 .. Len(heap[parent].slotkey)
    BY <2>1, <2>3, <2>4
  <2>6. PICK p, i, k, g, K2 :
          /\ p = parent /\ i = parentslot + 1 /\ k = lastkey
          /\ g = [heap EXCEPT ![p].slotkey[i] = k] /\ K2 = [heap[p].slotkey EXCEPT ![i] = k]
    OBVIOUS
  <2>7. KeySet(g, heap, p, i, k, K2)
    <3>1. p \in DOMAIN heap /\ heap[p] \in InnerNodes /\ i \in 1 .. Len(heap[p].slotkey) /\ k \in Keys
      BY <1>2, <2>1, <2>3, <2>4, <2>5, <2>6
    <3>2. KeySet([heap EXCEPT ![p].slotkey[i] = k], heap, p, i, k, [heap[p].slotkey EXCEPT ![i] = k])
      BY <1>2, <3>1, SetKey
    <3>3. QED
      BY <2>6, <3>2
  <2>8. setLastkey = g
    BY <1>4, <2>6 DEF setLastkey
  <2>9. /\ HeapTyped(g) /\ DOMAIN g = DOMAIN heap
        /\ g[p] = InnerNode(heap[p].level, K2, heap[p].childid)
        /\ K2 \in Seq(Keys) /\ Len(K2) = Len(heap[p].slotkey)
        /\ \A j \in DOMAIN heap : j # p => g[j] = heap[j]
    BY <2>7 DEF KeySet
  <2>10. /\ g[p].level = heap[p].level /\ g[p].slotkey = K2 /\ g[p].childid = heap[p].childid
         /\ g[p] \in InnerNodes
    <3>1. heap[p].level \in Nat \ {0} /\ heap[p].childid \in Seq(Nodes)
      BY <1>2, <2>4, <2>6, InnerFields
    <3>2. QED
      BY <2>9, <3>1, GivenFields, NodeRecords
  <2>11. \A n \in Leaves : g[n] = heap[n]
    BY <1>1, <2>4, <2>6, <2>9, NodeKinds
  <2>12. ASSUME NEW n \in Inner
         PROVE  /\ g[n] \in InnerNodes /\ g[n].level = heap[n].level
                /\ g[n].childid = heap[n].childid
                /\ Len(g[n].slotkey) = Len(heap[n].slotkey)
                /\ n # parent => g[n] = heap[n]
    <3>1. CASE n = p
      BY <2>6, <2>9, <2>10, <3>1
    <3>2. CASE n # p
      <4>1. g[n] = heap[n]
        BY <1>1, <2>9, <3>2, NodeKinds
      <4>2. QED
        BY <1>2, <4>1
    <3>3. QED
      BY <3>1, <3>2
  <2>13. g[cur] = heap[cur]
    BY <1>1, <2>3, <2>6, <2>9
  <2>14. setLastkey[parent].slotkey = [heap[parent].slotkey EXCEPT ![parentslot + 1] = lastkey]
    BY <2>6, <2>8, <2>10
  <2>15. QED
    BY <1>4, <2>8, <2>9, <2>11, <2>12, <2>13, <2>14
<1>5. QED
  BY <1>3, <1>4

\* The child that a merge has emptied, and the one before it.
LEMMA EmptiedChild ==
  ASSUME ShapeInv, fixmerge
  PROVE  /\ pc = "fix" /\ stack # <<>> /\ newchild = Null
         /\ emptied \in 1 .. Len(heap[cur].slotkey)
         /\ gone = heap[cur].childid[emptied + 1] /\ emptied + 1 \in Slots(cur)
         /\ gone \in DOMAIN heap /\ gone # cur /\ gone # root /\ gone # Null
         /\ heap[gone].level \in Nat /\ heap[gone].level + 1 = heap[cur].level
         /\ heap[gone].level < heap[cur].level
         /\ emptied \in Slots(cur) /\ heap[cur].childid[emptied] \in DOMAIN heap
         /\ heap[cur].childid[emptied] # gone
         /\ heap[heap[cur].childid[emptied]].level + 1 = heap[cur].level
         /\ heap[cur].level = 1 =>
              /\ gone \in Leaves /\ heap[cur].childid[emptied] \in LiveLeaves
              /\ Max(heap[heap[cur].childid[emptied]].items) \in heap[heap[cur].childid[emptied]].items
              /\ Max(heap[heap[cur].childid[emptied]].items) \in Keys
<1>1. pc = "fix" /\ stack # <<>> /\ emptied \in 1 .. slotuse(cur) /\ newchild = Null
  <2>1. pc = "fix" /\ stack # <<>> /\ emptied \in 1 .. slotuse(cur)
    BY DEF ShapeInv, CallUnderWay
  <2>2. QED
    BY <2>1, PlainPc DEF ShapeInv
<1>2. /\ TypeOK /\ Tree /\ LinkedOnce /\ cur \in LiveInner /\ InnerFilled(cur)
      /\ slotuse(cur) = Len(heap[cur].slotkey) /\ Len(heap[cur].slotkey) \in Nat
      /\ heap[cur].level \in Nat
  BY <1>1, AtInner
<1>3. PICK s, m, g, c, C : /\ s = emptied /\ m = Len(heap[cur].slotkey) /\ C = heap[cur].childid
                           /\ g = C[s + 1] /\ c = C[s]
  OBVIOUS
<1>4. /\ s \in 1 .. m /\ s \in 1 .. m + 1 /\ s + 1 \in 1 .. m + 1 /\ s # s + 1
  BY <1>1, <1>2, <1>3
<1>5. gone = g
  BY <1>3 DEF gone, child
<1>6. /\ Slots(cur) = 1 .. m + 1
      /\ \A i \in 1 .. m + 1 : /\ C[i] \in DOMAIN heap /\ C[i] # root
                               /\ heap[C[i]].level \in Nat
                               /\ heap[C[i]].level + 1 = heap[cur].level
  BY <1>2, <1>3, ChildNodes
<1>7. /\ g \in DOMAIN heap /\ g # root /\ heap[g].level \in Nat /\ heap[g].level + 1 = heap[cur].level
      /\ c \in DOMAIN heap /\ heap[c].level \in Nat /\ heap[c].level + 1 = heap[cur].level
  BY <1>3, <1>4, <1>6
<1>8. heap[g].level < heap[cur].level /\ g # cur
  BY <1>2, <1>7
<1>9. c # g
  BY <1>2, <1>3, <1>4, <1>6 DEF LinkedOnce
<1>10. g # Null
  BY <1>2, <1>7, NodeKinds
<1>11. ASSUME heap[cur].level = 1
       PROVE  /\ g \in Leaves /\ c \in LiveLeaves
              /\ Max(heap[c].items) \in heap[c].items /\ Max(heap[c].items) \in Keys
  <2>1. heap[g].level = 0 /\ heap[c].level = 0
    BY <1>7, <1>11
  <2>2. g \in Leaves /\ c \in Leaves /\ c \in LiveLeaves
    BY <1>2, <1>5, <1>7, <1>9, <2>1, Levels DEF LiveLeaves
  <2>3. LeafFilled(c) /\ heap[c].items \subseteq Keys
    BY <1>2, <2>2, NodeKinds, LeafFields DEF Tree
  <2>4. heap[c].items # {} /\ IsFiniteSet(heap[c].items) /\ heap[c].items \in SUBSET Nat
    BY <1>1, <2>3, KeyTypes DEF LeafFilled
  <2>5. QED
    BY <2>2, <2>3, <2>4, MaxElement
<1>12. QED
  BY <1>1, <1>3, <1>4, <1>5, <1>6, <1>7, <1>8, <1>9, <1>10, <1>11

\* The node without its emptied child.
LEMMA FixHeap ==
  ASSUME ShapeInv, Fix, fixmerge
  PROVE  \E K1, K2, C2 : /\ Dropped(heap', setLastkey, cur, emptied, K1, K2, C2)
                         /\ Removed(K1, heap[cur].slotkey, emptied)
                         /\ Removed(C2, heap[cur].childid, emptied + 1)
                         /\ heap'[cur] = InnerNode(heap[cur].level, K2, C2)
                         /\ C2 \in Seq(Nodes) /\ Len(K2) = Len(heap[cur].slotkey) - 1
                         /\ Len(C2) = Len(heap[cur].childid) - 1
<1>1. pc = "fix" /\ stack # <<>> /\ heap' = dropChild(setLastkey, cur, emptied)
  BY DEF Fix
<1>2. PICK h, n, s : h = setLastkey /\ n = cur /\ s = emptied
  OBVIOUS
<1>3. /\ HeapTyped(h) /\ DOMAIN h = DOMAIN heap /\ h[n] = heap[n]
      /\ \A m \in Leaves : h[m] = heap[m]
  BY <1>1, <1>2, LastkeySet
<1>4. /\ n \in DOMAIN heap /\ heap[n] \in InnerNodes /\ heap[n].slotkey \in Seq(Keys)
      /\ Len(heap[n].childid) = Len(heap[n].slotkey) + 1 /\ TypeOK
  BY <1>1, <1>2, AtInner
<1>5. /\ s \in 1 .. Len(heap[n].slotkey) /\ n # heap[n].childid[s + 1]
      /\ heap[n].level = 1 =>
           /\ heap[n].childid[s] \in LiveLeaves
           /\ Max(heap[heap[n].childid[s]].items) \in Keys
  BY <1>2, EmptiedChild
<1>6. h[n].level = 1 => Max(h[h[n].childid[s]].items) \in Keys
  BY <1>3, <1>4, <1>5, LiveNodes
<1>7. \E K1, K2, C2 : Dropped(dropChild(h, n, s), h, n, s, K1, K2, C2)
  BY <1>3, <1>4, <1>5, <1>6, DroppedChild
<1>8. PICK K1, K2, C2 : Dropped(heap', h, n, s, K1, K2, C2)
  BY <1>1, <1>2, <1>7
<1>9. /\ Removed(K1, heap[n].slotkey, s) /\ Removed(C2, heap[n].childid, s + 1)
      /\ heap'[n] = InnerNode(heap[n].level, K2, C2) /\ Len(K2) = Len(K1)
      /\ C2 \in Seq(Nodes)
  BY <1>3, <1>8 DEF Dropped
<1>10. Len(K2) = Len(heap[n].slotkey) - 1 /\ Len(C2) = Len(heap[n].childid) - 1
  BY <1>9 DEF Removed
<1>11. QED
  BY <1>2, <1>8, <1>9, <1>10

\* What Fix changes.
LEMMA FixEffect ==
  ASSUME ShapeInv, Fix
  PROVE  /\ HeapTyped(heap') /\ DOMAIN heap' = Live /\ gone' = Null /\ ~fixmerge'
         /\ Leaves' = LiveLeaves /\ Inner' = LiveInner
         /\ LiveInner' = LiveInner /\ LiveLeaves' = LiveLeaves /\ Live' = Live
         /\ \A n \in Live : heap'[n].level = heap[n].level
         /\ \A n \in LiveLeaves : heap'[n] = heap[n]
         /\ \A n \in LiveInner : n # cur => Alike(n)
         /\ ~fixmerge => Alike(cur)
<1>1. /\ pc = "fix" /\ stack # <<>> /\ fixmerge' = FALSE
      /\ fixmerge => heap' = dropChild(setLastkey, cur, emptied)
      /\ ~fixmerge => heap' = setLastkey
  BY DEF Fix
<1>2. PICK h : h = setLastkey
  OBVIOUS
<1>3. /\ HeapTyped(h) /\ DOMAIN h = DOMAIN heap
      /\ \A n \in Leaves : h[n] = heap[n]
      /\ \A n \in Inner : /\ h[n].level = heap[n].level
                          /\ h[n].childid = heap[n].childid
                          /\ Len(h[n].slotkey) = Len(heap[n].slotkey)
      /\ h[cur] = heap[cur]
  BY <1>1, <1>2, LastkeySet
<1>4. TypeOK /\ cur \in LiveInner /\ cur \in Inner /\ cur \in DOMAIN heap
  BY <1>1, AtInner
<1>5. gone' = Null /\ Null \notin DOMAIN heap
  BY <1>1, <1>4, NodeKinds DEF gone
<1>6. /\ HeapTyped(heap') /\ DOMAIN heap' = Live
      /\ \A n \in Live : n # cur => heap'[n] = h[n]
      /\ heap'[cur].level = heap[cur].level
      /\ ~fixmerge => heap'[cur] = heap[cur]
  <2>1. CASE ~fixmerge
    <3>1. gone = Null /\ heap' = h
      BY <1>1, <1>2, <2>1 DEF gone
    <3>2. QED
      BY <1>3, <1>5, <2>1, <3>1 DEF Live
  <2>2. CASE fixmerge
    <3>1. PICK K1, K2, C2 : /\ Dropped(heap', setLastkey, cur, emptied, K1, K2, C2)
                            /\ heap'[cur] = InnerNode(heap[cur].level, K2, C2)
      BY <2>2, FixHeap
    <3>2. Dropped(heap', h, cur, emptied, K1, K2, C2)
      BY <1>2, <3>1
    <3>3. /\ HeapTyped(heap') /\ DOMAIN heap' = DOMAIN h \ {h[cur].childid[emptied + 1]}
          /\ \A m \in DOMAIN heap' : m # cur => heap'[m] = h[m]
      BY <3>2 DEF Dropped
    <3>4. gone = heap[cur].childid[emptied + 1]
      BY <2>2, EmptiedChild
    <3>5. heap'[cur].level = heap[cur].level
      BY <3>1, GivenFields
    <3>6. QED
      BY <1>3, <2>2, <3>3, <3>4, <3>5 DEF Live
  <2>3. QED
    BY <2>1, <2>2
<1>7. /\ LiveInner \cup LiveLeaves = Live /\ LiveInner \cap LiveLeaves = {}
      /\ LiveInner \subseteq Inner /\ LiveLeaves \subseteq Leaves /\ Live \subseteq DOMAIN heap
  BY <1>4, LiveNodes
<1>8. \A n \in LiveLeaves : heap'[n] = heap[n]
  BY <1>3, <1>4, <1>6, <1>7
<1>9. \A n \in LiveInner : heap'[n].level = heap[n].level
  BY <1>3, <1>6, <1>7
<1>10. \A n \in LiveInner : n # cur => Alike(n)
  BY <1>3, <1>6, <1>7 DEF Alike
<1>11. ~fixmerge => Alike(cur)
  BY <1>6 DEF Alike
<1>12. Leaves' = LiveLeaves /\ Inner' = LiveInner
  <2>1. \A n \in LiveLeaves : heap'[n].level = 0
    BY <1>4, <1>7, <1>8, Levels, NodeKinds
  <2>2. \A n \in LiveInner : heap'[n].level # 0
    BY <1>4, <1>7, <1>9, Levels, NodeKinds
  <2>3. QED
    BY <1>6, <1>7, <2>1, <2>2 DEF Leaves, Inner, isleafnode
<1>13. LiveInner' = LiveInner /\ LiveLeaves' = LiveLeaves /\ Live' = Live
  BY <1>5, <1>6, <1>7, <1>12 DEF LiveInner, LiveLeaves, Live
<1>14. QED
  BY <1>1, <1>5, <1>6, <1>7, <1>8, <1>9, <1>10, <1>11, <1>12, <1>13

\* Without the freed child the others are linked once.
LEMMA FixLinks ==
  ASSUME ShapeInv, Fix, fixmerge
  PROVE  LinkedOnce'
<1>1. /\ pc = "fix" /\ stack # <<>> /\ root' = root /\ newchild' = newchild
  BY DEF Fix, split
<1>2. /\ DOMAIN heap' = Live /\ LiveInner' = LiveInner
      /\ \A n \in LiveInner : n # cur => Alike(n)
  BY FixEffect
<1>3. PICK K1, K2, C2 : /\ Removed(C2, heap[cur].childid, emptied + 1)
                        /\ heap'[cur] = InnerNode(heap[cur].level, K2, C2)
                        /\ C2 \in Seq(Nodes)
  BY FixHeap
<1>4. /\ TypeOK /\ LinkedOnce /\ cur \in LiveInner /\ heap[cur].childid \in Seq(Nodes)
  BY <1>1, AtInner
<1>5. /\ gone = heap[cur].childid[emptied + 1] /\ emptied + 1 \in Slots(cur)
      /\ gone \in DOMAIN heap /\ newchild = Null
  BY EmptiedChild
<1>6. PICK C, s, T, T2, I, M, N2, h2, g :
        /\ C = heap[cur].childid /\ s = emptied + 1 /\ T = DOMAIN heap \ {root, newchild}
        /\ T2 = DOMAIN heap' \ {root', newchild'} /\ I = LiveInner /\ M = {cur}
        /\ N2 = Elements(C) \ {gone} /\ h2 = heap' /\ g = gone
  OBVIOUS
<1>7. s \in 1 .. Len(C) /\ C \in Seq(Nodes) /\ g = C[s] /\ Removed(C2, C, s)
  BY <1>3, <1>4, <1>5, <1>6 DEF Slots
<1>8. /\ ChildrenOnce(I, heap, T) /\ Distinct(C) /\ Elements(C) \subseteq T
  BY <1>4, <1>6, OwnChildren
<1>9. Elements(C2) = N2 /\ Distinct(C2)
  BY <1>3, <1>6, <1>7, <1>8, RemovedElements
<1>10. h2[cur].childid = C2
  BY <1>3, <1>6, GivenFields
<1>11. I \cap M = {cur}
  BY <1>4, <1>6
<1>12. ChildrenOnce(I \cap M, h2, N2)
  BY <1>9, <1>10, <1>11 DEF ChildrenOnce
<1>13. \A p \in I \ M : h2[p].childid = heap[p].childid
  BY <1>2, <1>6 DEF Alike
<1>14. T2 = T \ {g}
  BY <1>1, <1>2, <1>6 DEF Live
<1>15. g \in Elements(C)
  BY <1>7 DEF Elements
<1>16. \A c \in N2 : c \notin T \/ \E p \in I \cap M : c \in Elements(heap[p].childid)
  BY <1>6, <1>11
<1>17. \A c : c \in T2 <=>
         (c \in N2 \/ (c \in T /\ ~\E p \in I \cap M : c \in Elements(heap[p].childid)))
  BY <1>6, <1>8, <1>11, <1>14, <1>15
<1>18. Moved(I, heap, T, I, h2, T2, M, N2)
  BY <1>8, <1>12, <1>13, <1>16, <1>17 DEF Moved
<1>19. ChildrenOnce(I, h2, T2)
  BY <1>18, Relinked
<1>20. QED
  BY <1>2, <1>6, <1>19, LinkedForm

\* The tree without the freed child.
LEMMA FixTree ==
  ASSUME ShapeInv, Fix
  PROVE  Tree'
<1>1. /\ pc = "fix" /\ stack # <<>> /\ pc' = "balance" /\ stack' = stack
      /\ UNCHANGED <<root, newchild>>
  BY DEF Fix, split
<1>2. /\ HeapTyped(heap') /\ DOMAIN heap' = Live /\ gone' = Null /\ ~fixmerge'
      /\ LiveInner' = LiveInner /\ LiveLeaves' = LiveLeaves
      /\ \A n \in Live : heap'[n].level = heap[n].level
      /\ \A n \in LiveLeaves : heap'[n] = heap[n]
      /\ \A n \in LiveInner : n # cur => Alike(n)
      /\ ~fixmerge => Alike(cur)
  BY FixEffect
<1>3. /\ TypeOK /\ Tree /\ cur \in LiveInner /\ InnerFilled(cur) /\ root # Null /\ LinkedOnce
      /\ Len(heap[cur].slotkey) \in Nat /\ heap[cur].level \in Nat
      /\ Len(heap[cur].childid) = Len(heap[cur].slotkey) + 1
      /\ Len(heap[cur].slotkey) <= innerslotmax
      /\ heap[cur].childid \in Seq(Nodes)
  BY <1>1, AtInner
<1>4. newchild = Null
  BY <1>1, PlainPc DEF ShapeInv
<1>5. PICK c : c = cur
  OBVIOUS
<1>6. cur' = c
  BY <1>1, <1>5 DEF cur, top
<1>7. ASSUME NEW n
      PROVE  /\ least(n) = IF n = root THEN 1 ELSE innerslotmax \div 2
             /\ n # c => least(n)' = IF n = root THEN 1 ELSE innerslotmax \div 2
             /\ n = c => least(n)' = IF n = root THEN 0 ELSE innerslotmax \div 2 - 1
  <2>1. least(n) = IF n = root THEN 1 ELSE innerslotmax \div 2
    BY <1>1, <1>4, LeastValues DEF rootSplit
  <2>2. n = c => least(n)' = IF n = root THEN 0 ELSE innerslotmax \div 2 - 1
    BY <1>1, <1>6 DEF least
  <2>3. n # c => least(n)' = IF n = root THEN 1 ELSE innerslotmax \div 2
    BY <1>1, <1>6 DEF least
  <2>4. QED
    BY <2>1, <2>2, <2>3
<1>8. least(c)' \in Nat /\ least(c)' = least(c) - 1 /\ least(c) \in Nat
  <2>1. CASE c = root
    BY <1>7, <2>1
  <2>2. CASE c # root
    <3>1. least(c)' = innerslotmax \div 2 - 1 /\ least(c) = innerslotmax \div 2
      BY <1>7, <2>2
    <3>2. QED
      BY <3>1, Half
  <2>3. QED
    BY <2>1, <2>2
<1>9. Len(heap[c].slotkey) >= least(c)
  BY <1>3, <1>5, FilledSlots
<1>10. ASSUME NEW n \in LiveLeaves PROVE LeafFilled(n)'
  <2>1. LeafFilled(n) /\ heap'[n] = heap[n]
    BY <1>2, <1>3 DEF Tree
  <2>2. QED
    BY <1>1, <2>1 DEF LeafFilled
<1>11. ASSUME NEW n \in LiveInner, n # c PROVE least(n)' <= Len(heap[n].slotkey)
  <2>1. InnerFilled(n) /\ least(n)' = least(n)
    BY <1>3, <1>7, <1>11 DEF Tree
  <2>2. QED
    BY <2>1, FilledSlots
<1>12. CASE ~fixmerge
  <2>1. least(c)' <= Len(heap[c].slotkey)
    BY <1>3, <1>5, <1>8, <1>9
  <2>2. DOMAIN heap' = DOMAIN heap /\ \A n \in DOMAIN heap : heap'[n].level = heap[n].level
    <3>1. gone = Null /\ Null \notin DOMAIN heap
      BY <1>3, <1>12, NodeKinds DEF gone
    <3>2. QED
      BY <1>2, <3>1 DEF Live
  <2>3. \A n \in LiveInner : least(n)' <= Len(heap[n].slotkey)
    BY <1>11, <2>1
  <2>4. \A n \in LiveInner : Alike(n)
    BY <1>2, <1>12
  <2>5. QED
    BY <1>1, <1>2, <1>3, <1>10, <2>2, <2>3, <2>4, TreeAlike
<1>13. CASE fixmerge
  <2>1. PICK K1, K2, C2 : /\ Removed(C2, heap[cur].childid, emptied + 1)
                          /\ heap'[cur] = InnerNode(heap[cur].level, K2, C2)
                          /\ C2 \in Seq(Nodes) /\ Len(K2) = Len(heap[cur].slotkey) - 1
                          /\ Len(C2) = Len(heap[cur].childid) - 1
    BY <1>13, FixHeap
  <2>2. /\ emptied + 1 \in Slots(cur) /\ gone = heap[cur].childid[emptied + 1]
        /\ emptied \in 1 .. Len(heap[cur].slotkey)
    BY <1>13, EmptiedChild
  <2>3. PICK l, m : l = heap[cur].level /\ m = Len(heap[cur].slotkey)
    OBVIOUS
  <2>4. \A d \in Elements(C2) : heap'[d].level + 1 = l
    <3>1. PICK C, s : C = heap[cur].childid /\ s = emptied + 1
      OBVIOUS
    <3>2. s \in 1 .. Len(C) /\ C \in Seq(Nodes) /\ Removed(C2, C, s) /\ Distinct(C)
      BY <1>3, <2>1, <2>2, <3>1, OwnChildren DEF Slots
    <3>3. Elements(C2) = Elements(C) \ {C[s]}
      BY <2>1, <3>2, RemovedElements
    <3>4. ASSUME NEW d \in Elements(C2) PROVE heap'[d].level + 1 = l
      <4>1. d \in Elements(C) /\ d # gone
        BY <2>2, <3>1, <3>3
      <4>2. PICK i \in 1 .. Len(C) : d = C[i]
        BY <4>1 DEF Elements
      <4>3. d \in DOMAIN heap /\ heap[d].level + 1 = l
        BY <1>3, <2>3, <3>1, <4>2, ChildNodes DEF Slots
      <4>4. d \in Live
        BY <4>1, <4>3 DEF Live
      <4>5. QED
        BY <1>2, <4>3, <4>4
    <3>5. QED
      BY <3>4
  <2>5. /\ m \in Nat /\ m >= 1 /\ Len(K2) = m - 1 /\ Len(C2) = m /\ m <= innerslotmax
        /\ m >= least(c)
    BY <1>3, <1>5, <1>9, <2>1, <2>2, <2>3
  <2>6. /\ Len(K2) \in Nat /\ Len(C2) = Len(K2) + 1 /\ Len(K2) <= innerslotmax
        /\ least(c)' <= Len(K2)
    BY <1>8, <2>5, Half
  <2>7. heap'[c] = InnerNode(l, K2, C2)
    BY <1>5, <2>1, <2>3
  <2>8. InnerFilled(c)'
    BY <2>4, <2>6, <2>7, GivenFilled
  <2>9. LinkedOnce'
    BY <1>13, FixLinks
  <2>10. \A n \in DOMAIN heap \cap DOMAIN heap' : heap'[n].level = heap[n].level
    BY <1>2
  <2>11. \A n \in LiveInner' \ {c} : n \in LiveInner /\ Alike(n)
                                   /\ least(n)' <= Len(heap[n].slotkey)
    BY <1>2, <1>5, <1>11
  <2>12. \A n \in LiveInner' \cap {c} : InnerFilled(n)'
    BY <2>8
  <2>13. \A n \in LiveLeaves' : LeafFilled(n)'
    BY <1>2, <1>10
  <2>14. root' # Null
    BY <1>1, <1>3
  <2>15. QED
    BY <1>3, <2>9, <2>10, <2>11, <2>12, <2>13, <2>14, TreeMoved
<1>14. QED
  BY <1>12, <1>13

\* The fix of a node keeps the shape.
LEMMA FixShape ==
  ASSUME ShapeInv, Fix
  PROVE  ShapeInv'
<1>1. /\ pc = "fix" /\ stack # <<>> /\ pc' = "balance" /\ stack' = stack
      /\ UNCHANGED <<root, head, tail, key, newkey, newchild, stored>>
      /\ lastkey' \in {Null, lastkey} /\ fixmerge' = FALSE
      /\ fixmerge => stats' = freed(child(cur, emptied))
      /\ ~fixmerge => stats' = stats
  BY DEF Fix, split
<1>2. /\ HeapTyped(heap') /\ DOMAIN heap' = Live /\ gone' = Null /\ ~fixmerge'
      /\ Leaves' = LiveLeaves /\ Inner' = LiveInner
      /\ LiveInner' = LiveInner /\ LiveLeaves' = LiveLeaves /\ Live' = Live
      /\ \A n \in Live : heap'[n].level = heap[n].level
      /\ \A n \in LiveInner : n # cur => Alike(n)
  BY FixEffect
<1>3. /\ TypeOK /\ Tree /\ cur \in LiveInner /\ cur \in Inner /\ root # Null
      /\ StackLeadsDown /\ Counted /\ key # Null /\ root \in DOMAIN heap
  BY <1>1, AtInner
<1>4. newchild = Null
  BY <1>1, PlainPc DEF ShapeInv
<1>5. cur \in Live
  BY <1>3, LiveNodes
<1>6. StackLeadsDown'
  <2>1. ASSUME NEW e \in 1 .. Len(stack) - 1 PROVE NodeKept(stack[e].node)
    <3>1. PICK n : n = stack[e].node
      OBVIOUS
    <3>2. n \in LiveInner /\ n # cur
      BY <1>1, <1>3, <3>1, HigherFrames
    <3>3. Alike(n) /\ n \in Live'
      BY <1>2, <1>3, <3>2, LiveNodes
    <3>4. NodeKept(n)
      BY <3>3 DEF Alike, NodeKept
    <3>5. QED
      BY <3>1, <3>4 DEF NodeKept
  <2>2. cur \in Live' /\ heap'[cur].level = heap[cur].level
    BY <1>2, <1>5
  <2>3. pc' \notin {"insert", "erase"} /\ DOMAIN heap' \subseteq Nodes
    BY <1>1, <1>2 DEF HeapTyped
  <2>4. QED
    BY <1>1, <1>3, <2>1, <2>2, <2>3, StackKept
<1>7. Counted' /\ stats' \in Counters
  <2>1. Leaves' \cup Inner' = DOMAIN heap'
    BY <1>2, <1>3, LiveNodes
  <2>2. 0 \in {0, 1, 0 - 1} /\ 0 # 1 /\ 0 # 0 - 1 /\ 0 - 1 \in {0, 1, 0 - 1} /\ 0 - 1 # 1
    OBVIOUS
  <2>3. stats.itemcount + 0 \in Nat
    <3>1. TypeOK
      BY <1>3
    <3>2. QED
      BY <3>1, CountersType, CountersGiven
  <2>4. CASE ~fixmerge
    <3>1. CountersMoved(0, 0, 0)
      BY <1>1, <1>3, <2>4, CountersMove, CountersType
    <3>2. gone = Null
      BY <2>4 DEF gone
    <3>3. Leaves' = Leaves /\ Inner' = Inner
      BY <1>2, <1>3, <3>2, NodeKinds DEF LiveLeaves, LiveInner
    <3>4. QED
      BY <1>3, <2>1, <2>2, <2>3, <3>1, <3>3, CountedNext
  <2>5. CASE fixmerge /\ isleafnode(gone)
    <3>1. gone = child(cur, emptied) /\ gone \in DOMAIN heap
      BY <2>5, EmptiedChild DEF child
    <3>2. stats' = [stats EXCEPT !.leaves = @ - 1]
      BY <1>1, <2>5, <3>1 DEF freed
    <3>3. CountersMoved(0 - 1, 0, 0)
      BY <1>3, <3>2, CountersMove, CountersType
    <3>4. gone \in Leaves /\ gone \notin Inner
      BY <1>3, <2>5, <3>1, NodeKinds DEF Leaves
    <3>5. Leaves' = Leaves \ {gone} /\ Inner' = Inner
      BY <1>2, <3>4 DEF LiveLeaves, LiveInner
    <3>6. QED
      BY <1>3, <2>1, <2>2, <2>3, <3>3, <3>4, <3>5, CountedNext
  <2>6. CASE fixmerge /\ ~isleafnode(gone)
    <3>1. gone = child(cur, emptied) /\ gone \in DOMAIN heap
      BY <2>6, EmptiedChild DEF child
    <3>2. stats' = [stats EXCEPT !.innernodes = @ - 1]
      BY <1>1, <2>6, <3>1 DEF freed
    <3>3. CountersMoved(0, 0 - 1, 0)
      BY <1>3, <3>2, CountersMove, CountersType
    <3>4. gone \in Inner /\ gone \notin Leaves
      BY <1>3, <2>6, <3>1, NodeKinds DEF Leaves, Inner
    <3>5. Leaves' = Leaves /\ Inner' = Inner \ {gone}
      BY <1>2, <3>4 DEF LiveLeaves, LiveInner
    <3>6. QED
      BY <1>3, <2>1, <2>2, <2>3, <3>3, <3>4, <3>5, CountedNext
  <2>7. QED
    BY <2>4, <2>5, <2>6
<1>8. root' \in DOMAIN heap'
  <2>1. gone # root
    <3>1. CASE fixmerge
      BY <3>1, EmptiedChild
    <3>2. CASE ~fixmerge
      BY <1>3, <3>2 DEF gone
    <3>3. QED
      BY <3>1, <3>2
  <2>2. QED
    BY <1>1, <1>2, <1>3, <2>1 DEF Live
<1>9. TypeOK'
  <2>1. stack' \in Seq(Frames) /\ lastkey' \in Keys \cup {Null}
    BY <1>1, <1>3, TypeNow
  <2>2. QED
    BY <1>1, <1>2, <1>3, <1>7, <1>8, <2>1, TypeNow, TypeNext
<1>10. Tree'
  BY FixTree
<1>11. CallUnderWay'
  BY <1>1, <1>3, <1>4, <1>6 DEF CallUnderWay
<1>12. QED
  BY <1>7, <1>9, <1>10, <1>11 DEF ShapeInv

-----------------------------------------------------------------------------
(* A node with enough keys, and a root with one child *)

\* The call before its node is balanced.
LEMMA AtBalance ==
  ASSUME ShapeInv, pc = "balance"
  PROVE  /\ stack # <<>> /\ gone = Null /\ ~fixmerge /\ newchild = Null
         /\ LiveInner = Inner /\ LiveLeaves = Leaves /\ Live = DOMAIN heap
         /\ \A n \in Inner : InnerFilled(n)
         /\ \A n : least(n) = IF n = cur THEN IF n = root THEN 0 ELSE innerslotmax \div 2 - 1
                              ELSE IF n = root THEN 1 ELSE innerslotmax \div 2
<1>1. stack # <<>> /\ gone = Null /\ ~fixmerge /\ newchild = Null /\ TypeOK /\ Tree
  BY PlainPc DEF ShapeInv, CallUnderWay
<1>2. LiveInner = Inner /\ LiveLeaves = Leaves /\ Live = DOMAIN heap
  BY <1>1, NodeKinds DEF LiveInner, LiveLeaves, Live
<1>3. QED
  BY <1>1, <1>2, LeastValues DEF Tree

\* A node with enough keys keeps the shape.
LEMMA BalancedShape ==
  ASSUME ShapeInv, Balanced
  PROVE  ShapeInv' /\ gone' = Null /\ LiveLeaves' = LiveLeaves /\ LiveLeaves = Leaves
<1>1. /\ pc = "balance" /\ ~underflow /\ pc' = "fix" /\ stack' = Front(stack)
      /\ UNCHANGED <<root, head, tail, heap, stats, key, newkey, newchild, lastkey, fixmerge, stored>>
  BY DEF Balanced, fromInner, split, result
<1>2. /\ stack # <<>> /\ gone = Null /\ ~fixmerge /\ newchild = Null
      /\ LiveInner = Inner /\ LiveLeaves = Leaves /\ Live = DOMAIN heap
      /\ \A n \in Inner : InnerFilled(n)
  BY <1>1, AtBalance
<1>3. /\ TypeOK /\ Tree /\ cur \in Inner /\ root # Null /\ key # Null
      /\ StackLeadsDown /\ Counted /\ slotuse(cur) = Len(heap[cur].slotkey)
      /\ Len(heap[cur].slotkey) \in Nat
  BY <1>1, <1>2, AtInner
<1>4. Leaves' = Leaves /\ Inner' = Inner
  BY <1>1, SameHeap
<1>5. gone' = Null
  BY <1>1, <1>2 DEF gone
<1>6. Live' = DOMAIN heap /\ LiveLeaves' = Leaves
  BY <1>1, <1>2, <1>3, <1>4, <1>5, NodeKinds DEF Live, LiveLeaves
<1>7. StackLeadsDown' /\ stack' \in Seq(Frames)
  <2>1. \A n \in Inner : Alike(n) /\ n \in Live'
    BY <1>1, <1>3, <1>6, NodeKinds DEF Alike
  <2>2. DOMAIN heap' \subseteq Nodes
    BY <1>1, <1>3 DEF TypeOK
  <2>3. QED
    BY <1>1, <1>2, <1>3, <2>1, <2>2, UpStack
<1>8. TypeOK'
  <2>1. HeapTyped(heap')
    BY <1>1, <1>3, HeapNow
  <2>2. QED
    BY <1>1, <1>3, <1>7, <2>1, TypeNow, TypeNext
<1>9. Tree'
  <2>1. ASSUME NEW n \in LiveInner PROVE least(n)' <= Len(heap[n].slotkey)
    <3>1. least(n)' = IF n = root THEN 1 ELSE innerslotmax \div 2
      BY <1>1, <1>2 DEF least, rootSplit
    <3>2. CASE n = cur
      <4>1. slotuse(cur) >= innerslotmax \div 2 \/ (cur = root /\ slotuse(cur) >= 1)
        BY <1>1, <1>3, Half DEF underflow
      <4>2. QED
        BY <1>3, <3>1, <3>2, <4>1, Half
    <3>3. CASE n # cur
      <4>1. least(n)' = least(n) /\ InnerFilled(n)
        BY <1>1, <1>2, <3>1, <3>3, AtBalance
      <4>2. QED
        BY <4>1, FilledSlots
    <3>4. QED
      BY <3>2, <3>3
  <2>2. pc # "insert"
    BY <1>1
  <2>3. QED
    BY <1>1, <1>2, <1>3, <1>5, <2>1, <2>2, SameTree
<1>10. CallUnderWay'
  BY <1>1, <1>2, <1>3, <1>7 DEF CallUnderWay
<1>11. Counted'
  BY <1>1, <1>3, <1>4 DEF Counted
<1>12. QED
  BY <1>2, <1>5, <1>6, <1>8, <1>9, <1>10, <1>11 DEF ShapeInv

\* The root is freed.
LEMMA ShrinkRootHeap ==
  ASSUME ShapeInv, ShrinkRoot
  PROVE  /\ cur = root /\ stack' = <<>> /\ root \in Inner /\ gone' = Null
         /\ root' = heap[root].childid[1] /\ Len(heap[root].childid) = 1
         /\ Len(heap[root].slotkey) = 0 /\ root' \in DOMAIN heap /\ root' # root
         /\ HeapTyped(heap') /\ DOMAIN heap' = DOMAIN heap \ {root}
         /\ \A n \in DOMAIN heap' : heap'[n] = heap[n]
         /\ Leaves' = Leaves /\ Inner' = Inner \ {root}
         /\ LiveInner' = Inner \ {root} /\ LiveLeaves' = Leaves
<1>1. /\ pc = "balance" /\ underflow /\ onlyNode /\ root' = child(cur, 0)
      /\ heap' = without(heap, cur) /\ stack' = Front(stack) /\ fixmerge' = fixmerge
  BY DEF ShrinkRoot, fromInner
<1>2. /\ stack # <<>> /\ gone = Null /\ ~fixmerge /\ LiveInner = Inner
      /\ \A n \in Inner : InnerFilled(n)
  BY <1>1, AtBalance
<1>3. /\ TypeOK /\ LinkedOnce /\ StackLeadsDown /\ root # Null
      /\ cur \in Inner /\ cur \in DOMAIN heap
      /\ slotuse(cur) = Len(heap[cur].slotkey) /\ Len(heap[cur].slotkey) \in Nat
      /\ Len(heap[cur].childid) = Len(heap[cur].slotkey) + 1 /\ Tree
  BY <1>1, <1>2, AtInner
<1>4. /\ hasParent <=> cur # root
      /\ ~hasParent => Len(stack) = 1
  BY <1>2, <1>3, CurrentNode
\* A node with a parent has a neighbour.
<1>5. ~hasParent
  <2>1. SUFFICES ASSUME hasParent PROVE FALSE
    OBVIOUS
  <2>2. \/ top.left \in DOMAIN heap
        \/ top.right \in DOMAIN heap
    BY <1>2, <2>1, NearNodes
  <2>3. Null \notin DOMAIN heap
    BY <1>3, NodeKinds
  <2>4. QED
    BY <1>1, <2>2, <2>3 DEF onlyNode
<1>6. cur = root /\ stack' = <<>>
  BY <1>1, <1>2, <1>3, <1>4, <1>5, StackEnds
<1>7. Len(heap[root].slotkey) = 0 /\ Len(heap[root].childid) = 1
  <2>1. PICK m : m = Len(heap[cur].slotkey)
    OBVIOUS
  <2>2. m \in Nat /\ slotuse(cur) = m /\ Len(heap[cur].childid) = m + 1
    BY <1>3, <2>1
  <2>3. ~(m >= 1)
    BY <1>1, <1>6, <2>2 DEF underflow
  <2>4. m = 0
    BY <2>2, <2>3
  <2>5. QED
    BY <1>6, <2>1, <2>2, <2>4
<1>8. root' = heap[root].childid[1] /\ root' \in DOMAIN heap /\ root' # root
  <2>1. 1 \in Slots(root)
    BY <1>7 DEF Slots
  <2>2. root' = heap[root].childid[1]
    BY <1>1, <1>6 DEF child
  <2>3. QED
    BY <1>2, <1>3, <1>6, <2>1, <2>2, ChildNodes
<1>9. Freed(heap', heap, root)
  <2>1. PICK n : n = root
    OBVIOUS
  <2>2. Freed(without(heap, n), heap, n)
    BY WithoutNode
  <2>3. heap' = without(heap, n)
    BY <1>1, <1>6, <2>1
  <2>4. QED
    BY <2>1, <2>2, <2>3
<1>10. /\ HeapTyped(heap') /\ DOMAIN heap' = DOMAIN heap \ {root}
       /\ \A n \in DOMAIN heap' : heap'[n] = heap[n]
  BY <1>3, <1>9, HeapNow, FreedTyped DEF Freed
<1>11. root \in Inner /\ root \notin Leaves
  BY <1>3, <1>6, NodeKinds
<1>12. Leaves' = Leaves /\ Inner' = Inner \ {root}
  <2>1. Leaves' = Leaves
    BY <1>10, <1>11 DEF Leaves, isleafnode
  <2>2. QED
    BY <1>10, <2>1 DEF Inner
<1>13. gone' = Null
  BY <1>1, <1>2 DEF gone
<1>14. LiveInner' = Inner \ {root} /\ LiveLeaves' = Leaves
  BY <1>3, <1>12, <1>13, NodeKinds DEF LiveInner, LiveLeaves
<1>15. QED
  BY <1>6, <1>7, <1>8, <1>10, <1>11, <1>12, <1>13, <1>14

\* A tree that is one level lower keeps the shape.
LEMMA ShrinkRootShape ==
  ASSUME ShapeInv, ShrinkRoot
  PROVE  ShapeInv'
<1>1. /\ pc = "balance" /\ pc' = "fix" /\ stats' = freed(cur) /\ lastkey' = Null
      /\ UNCHANGED <<head, tail, key, newkey, newchild, fixmerge, stored>>
  BY DEF ShrinkRoot, fromInner, split
<1>2. /\ cur = root /\ stack' = <<>> /\ root \in Inner /\ gone' = Null
      /\ root' = heap[root].childid[1] /\ Len(heap[root].childid) = 1
      /\ root' \in DOMAIN heap /\ root' # root
      /\ HeapTyped(heap') /\ DOMAIN heap' = DOMAIN heap \ {root}
      /\ \A n \in DOMAIN heap' : heap'[n] = heap[n]
      /\ Leaves' = Leaves /\ Inner' = Inner \ {root}
      /\ LiveInner' = Inner \ {root} /\ LiveLeaves' = Leaves
  BY ShrinkRootHeap
<1>3. /\ stack # <<>> /\ gone = Null /\ ~fixmerge /\ newchild = Null
      /\ LiveInner = Inner /\ LiveLeaves = Leaves
      /\ \A n \in Inner : InnerFilled(n)
  BY <1>1, AtBalance
<1>4. /\ TypeOK /\ Tree /\ LinkedOnce /\ key # Null /\ Counted
  BY <1>1, <1>3, AtInner
<1>5. Counted' /\ stats' \in Counters
  <2>1. ~isleafnode(cur)
    BY <1>2, <1>4, NodeKinds DEF Leaves
  <2>2. stats' = [stats EXCEPT !.innernodes = @ - 1]
    BY <1>1, <2>1 DEF freed
  <2>3. CountersMoved(0, 0 - 1, 0)
    BY <1>4, <2>2, CountersMove, CountersType
  <2>4. stats.itemcount + 0 \in Nat
    <3>1. TypeOK
      BY <1>4
    <3>2. QED
      BY <3>1, CountersType, CountersGiven
  <2>5. Leaves' \cup Inner' = DOMAIN heap'
    BY <1>2, <1>4, NodeKinds
  <2>6. 0 \in {0, 1, 0 - 1} /\ 0 # 1 /\ 0 # 0 - 1 /\ 0 - 1 \in {0, 1, 0 - 1} /\ 0 - 1 # 1
    OBVIOUS
  <2>7. QED
    BY <1>2, <1>4, <2>3, <2>4, <2>5, <2>6, CountedNext
<1>6. TypeOK'
  <2>1. stack' \in Seq(Frames) /\ root' \in DOMAIN heap'
    BY <1>2
  <2>2. QED
    BY <1>1, <1>2, <1>4, <1>5, <2>1, TypeNow, TypeNext
<1>7. LinkedOnce'
  <2>1. PICK C, T, T2, I, I2, M, N2, h2, r :
          /\ C = heap[root].childid /\ T = DOMAIN heap \ {root, newchild}
          /\ T2 = DOMAIN heap' \ {root', newchild'} /\ I = Inner /\ I2 = Inner \ {root}
          /\ M = {root} /\ N2 = {} /\ h2 = heap' /\ r = root'
    OBVIOUS
  <2>2. ChildrenOnce(I, heap, T) /\ Elements(C) \subseteq T
    BY <1>2, <1>3, <1>4, <2>1, OwnChildren
  <2>3. Elements(C) = {r}
    <3>1. Len(C) = 1 /\ C[1] = r
      BY <1>2, <2>1
    <3>2. \A i \in 1 .. 1 : i = 1
      OBVIOUS
    <3>3. QED
      BY <3>1, <3>2 DEF Elements
  <2>4. I2 \cap M = {} /\ I \cap M = {root} /\ I \ M = I2 \ M
    BY <1>2, <2>1
  <2>5. ChildrenOnce(I2 \cap M, h2, N2)
    BY <2>1, <2>4 DEF ChildrenOnce
  <2>6. \A p \in I \ M : h2[p].childid = heap[p].childid
    <3>1. \A p \in I \ M : p \in DOMAIN heap'
      BY <1>2, <1>4, <2>1, NodeKinds
    <3>2. QED
      BY <1>2, <2>1, <3>1
  <2>7. T2 = T \ {r}
    <3>1. Null \notin DOMAIN heap
      BY <1>4, NodeKinds
    <3>2. QED
      BY <1>1, <1>2, <1>3, <2>1, <3>1
  <2>8. \A c : c \in T2 <=>
          (c \in N2 \/ (c \in T /\ ~\E p \in I \cap M : c \in Elements(heap[p].childid)))
    BY <2>1, <2>3, <2>4, <2>7
  <2>9. Moved(I, heap, T, I2, h2, T2, M, N2)
    BY <2>1, <2>2, <2>4, <2>5, <2>6, <2>8 DEF Moved
  <2>10. ChildrenOnce(I2, h2, T2)
    BY <2>9, Relinked
  <2>11. QED
    BY <1>2, <2>1, <2>10, LinkedForm
<1>8. Tree'
  <2>1. PICK M : M = {root}
    OBVIOUS
  <2>2. ASSUME NEW n \in LiveInner' \ M
        PROVE  n \in LiveInner /\ Alike(n) /\ least(n)' <= Len(heap[n].slotkey)
    <3>1. n \in Inner /\ n # root /\ InnerFilled(n)
      BY <1>2, <1>3
    <3>2. Alike(n)
      BY <1>2, <1>4, <3>1, NodeKinds DEF Alike
    <3>3. least(n) = innerslotmax \div 2
      BY <1>1, <1>2, <3>1, AtBalance
    <3>4. least(n)' = IF n = root' THEN 1 ELSE innerslotmax \div 2
      BY <1>1, <1>2, <1>3 DEF least, rootSplit
    <3>5. Len(heap[n].slotkey) >= least(n) /\ Len(heap[n].slotkey) \in Int
      BY <3>1, FilledSlots
    <3>6. QED
      BY <1>3, <3>1, <3>2, <3>3, <3>4, <3>5, Half
  <2>3. ASSUME NEW n \in LiveLeaves' PROVE LeafFilled(n)'
    <3>1. n \in LiveLeaves /\ LeafFilled(n) /\ n \in DOMAIN heap' /\ heap'[n] = heap[n]
      <4>1. n \in Leaves /\ n # root
        BY <1>2, <1>4, NodeKinds
      <4>2. QED
        BY <1>2, <1>3, <1>4, <4>1, NodeKinds DEF Tree
    <3>2. QED
      BY <1>1, <3>1 DEF LeafFilled
  <2>4. \A n \in DOMAIN heap \cap DOMAIN heap' : heap'[n].level = heap[n].level
    BY <1>2
  <2>5. \A n \in LiveInner' \cap M : InnerFilled(n)'
    BY <1>2, <2>1
  <2>6. root' # Null
    BY <1>2, <1>4, NodeKinds
  <2>7. QED
    BY <1>4, <1>7, <2>2, <2>3, <2>4, <2>5, <2>6, TreeMoved
<1>9. CallUnderWay'
  <2>1. StackLeadsDown'
    BY <1>1, <1>2, EmptyStack
  <2>2. root' # Null
    BY <1>2, <1>4, NodeKinds
  <2>3. QED
    BY <1>1, <1>2, <1>3, <1>4, <2>1, <2>2 DEF CallUnderWay
<1>10. QED
  BY <1>5, <1>6, <1>8, <1>9 DEF ShapeInv

-----------------------------------------------------------------------------
(* Inner nodes that are merged *)

\* The neighbour that the code chooses has the same parent, and few keys if it
\* is merged and more if it gives some away.
LEMMA BalancingCases ==
  ASSUME ShapeInv, pc = "balance", underflow, ~onlyNode
  PROVE  /\ hasParent /\ cur # root
         /\ Len(heap[cur].slotkey) = innerslotmax \div 2 - 1
         /\ balancing = "mergeLeft" =>
              parentslot > 0 /\ top.leftparent = parent /\ isfew(top.left)
         /\ balancing = "mergeRight" =>
              /\ parentslot < Len(heap[parent].slotkey)
              /\ top.rightparent = parent /\ isfew(top.right)
         /\ balancing = "shiftLeft" =>
              /\ parentslot < Len(heap[parent].slotkey)
              /\ top.rightparent = parent /\ ~isfew(top.right)
         /\ balancing = "shiftRight" =>
              parentslot > 0 /\ top.leftparent = parent /\ ~isfew(top.left)
<1>1. /\ stack # <<>> /\ gone = Null /\ LiveInner = Inner
      /\ least(cur) = IF cur = root THEN 0 ELSE innerslotmax \div 2 - 1
  BY AtBalance
<1>2. /\ TypeOK /\ Tree /\ LinkedOnce /\ StackLeadsDown /\ root # Null
      /\ InnerFilled(cur) /\ slotuse(cur) = Len(heap[cur].slotkey)
      /\ Len(heap[cur].slotkey) \in Nat
  BY <1>1, AtInner
<1>3. /\ hasParent <=> cur # root
      /\ ~hasParent => top.left = Null /\ top.right = Null
  BY <1>1, <1>2, CurrentNode DEF Tree
<1>4. hasParent /\ cur # root
  BY <1>3 DEF onlyNode
<1>5. Len(heap[cur].slotkey) = innerslotmax \div 2 - 1
  <2>1. Len(heap[cur].slotkey) >= least(cur)
    BY <1>2, FilledSlots
  <2>2. Len(heap[cur].slotkey) < innerslotmax \div 2
    BY <1>2 DEF underflow
  <2>3. QED
    BY <1>1, <1>2, <1>4, <2>1, <2>2, Half
<1>6. PICK a, b : /\ a <=> parentslot > 0
                  /\ b <=> parentslot < Len(heap[parent].slotkey)
  OBVIOUS
<1>7. /\ a <=> leftNear
      /\ b <=> rightNear
      /\ a \/ b
      /\ a => top.left \in DOMAIN heap
      /\ b => top.right \in DOMAIN heap
  BY <1>1, <1>4, <1>6, NearNodes DEF leftNear, rightNear
<1>8. Null \notin DOMAIN heap
  BY <1>2, NodeKinds
<1>9. (a => top.left # Null) /\ (b => top.right # Null)
  BY <1>7, <1>8
<1>10. balancing = "mergeLeft" => a /\ isfew(top.left)
  BY <1>7, <1>9 DEF balancing, leftMore, leftFew, rightMore, rightFew
<1>11. balancing = "mergeRight" => b /\ isfew(top.right)
  BY <1>7, <1>9 DEF balancing, leftMore, leftFew, rightMore, rightFew
<1>12. a /\ b => top.leftparent = top.rightparent
  BY <1>7 DEF leftNear, rightNear
<1>13. top.leftparent = top.rightparent => a /\ b
  BY <1>7 DEF leftNear, rightNear
<1>14. balancing = "shiftLeft" => b /\ ~isfew(top.right)
  BY <1>7, <1>9, <1>12, <1>13 DEF balancing, leftMore, leftFew, rightMore, rightFew
<1>15. balancing = "shiftRight" => a /\ ~isfew(top.left)
  BY <1>7, <1>9, <1>12, <1>13 DEF balancing, leftMore, leftFew, rightMore, rightFew
<1>16. QED
  BY <1>4, <1>5, <1>6, <1>7, <1>10, <1>11, <1>14, <1>15 DEF leftNear, rightNear

\* Keys with a separator between them.
LEMMA GluedKeySeqs ==
  ASSUME NEW S, NEW a \in Seq(S), NEW b \in Seq(S), NEW x \in S
  PROVE  /\ (a \o <<x>>) \o b \in Seq(S)
         /\ Len((a \o <<x>>) \o b) = Len(a) + 1 + Len(b)
         /\ GluedKeys((a \o <<x>>) \o b, a, Len(a), x, b, Len(b))
<1>1. PICK m, n, c, d : /\ m = Len(a) /\ n = Len(b) /\ c = a \o <<x>>
                        /\ d = c \o b
  OBVIOUS
<1>2. m \in Nat /\ n \in Nat
  BY <1>1
<1>3. <<x>> \in Seq(S) /\ Len(<<x>>) = 1 /\ <<x>>[1] = x
  OBVIOUS
<1>4. /\ c \in Seq(S) /\ Len(c) = m + 1
      /\ \A i \in 1 .. m + 1 : c[i] = IF i <= m THEN a[i] ELSE <<x>>[i - m]
  BY <1>1, <1>3, ConcatProperties
<1>5. /\ d \in Seq(S) /\ Len(d) = m + 1 + n
      /\ \A i \in 1 .. m + 1 + n : d[i] = IF i <= m + 1 THEN c[i] ELSE b[i - (m + 1)]
  BY <1>1, <1>4, ConcatProperties
<1>6. \A i \in 1 .. m : d[i] = a[i]
  BY <1>2, <1>4, <1>5
<1>7. d[m + 1] = x
  <2>0. PICK k, e : k = m + 1 /\ e = <<x>>
    OBVIOUS
  <2>1. k \in 1 .. m + 1 /\ k \in 1 .. m + 1 + n /\ ~(k <= m) /\ k - m = 1 /\ k <= m + 1
    BY <1>2, <2>0
  <2>2. d[k] = c[k]
    BY <1>5, <2>1
  <2>3. c[k] = e[1]
    BY <1>4, <2>0, <2>1
  <2>4. QED
    BY <1>3, <2>0, <2>2, <2>3
<1>8. ASSUME NEW i \in 1 .. n PROVE d[m + 1 + i] = b[i]
  <2>1. PICK k : k = m + 1 + i
    OBVIOUS
  <2>2. k \in 1 .. m + 1 + n /\ ~(k <= m + 1) /\ k - (m + 1) = i
    BY <1>2, <2>1
  <2>3. d[k] = b[k - (m + 1)]
    BY <1>5, <2>2
  <2>4. QED
    BY <2>1, <2>2, <2>3
<1>9. GluedKeys(d, a, m, x, b, n)
  BY <1>6, <1>7, <1>8 DEF GluedKeys
<1>10. QED
  BY <1>1, <1>5, <1>9

\* Children, one sequence after the other.
LEMMA GluedChildSeqs ==
  ASSUME NEW S, NEW a \in Seq(S), NEW b \in Seq(S)
  PROVE  /\ a \o b \in Seq(S) /\ Len(a \o b) = Len(a) + Len(b)
         /\ GluedChildren(a \o b, a, Len(a), b, Len(b))
<1>1. PICK m, n, e : m = Len(a) /\ n = Len(b) /\ e = a \o b
  OBVIOUS
<1>2. m \in Nat /\ n \in Nat
  BY <1>1
<1>3. /\ e \in Seq(S) /\ Len(e) = m + n
      /\ \A i \in 1 .. m + n : e[i] = IF i <= m THEN a[i] ELSE b[i - m]
  BY <1>1, ConcatProperties
<1>4. \A i \in 1 .. m : e[i] = a[i]
  BY <1>2, <1>3
<1>5. ASSUME NEW i \in 1 .. n PROVE e[m + i] = b[i]
  <2>1. PICK k : k = m + i
    OBVIOUS
  <2>2. k \in 1 .. m + n /\ ~(k <= m) /\ k - m = i
    BY <1>2, <2>1
  <2>3. e[k] = b[k - m]
    BY <1>3, <2>2
  <2>4. QED
    BY <2>1, <2>2, <2>3
<1>6. GluedChildren(e, a, m, b, n)
  BY <1>4, <1>5 DEF GluedChildren
<1>7. QED
  BY <1>1, <1>3, <1>6

\* The heap g is h with the children of the node r moved to the node l.
InnerMerge(g, h, l, r, x, K, C) ==
  /\ HeapTyped(g) /\ DOMAIN g = DOMAIN h
  /\ K \in Seq(Keys) /\ C \in Seq(Nodes)
  /\ Len(K) = Len(h[l].slotkey) + 1 + Len(h[r].slotkey)
  /\ Len(C) = Len(h[l].childid) + Len(h[r].childid)
  /\ GluedKeys(K, h[l].slotkey, Len(h[l].slotkey), x, h[r].slotkey, Len(h[r].slotkey))
  /\ GluedChildren(C, h[l].childid, Len(h[l].childid), h[r].childid, Len(h[r].childid))
  /\ g[l] = InnerNode(h[l].level, K, C)
  /\ g[r] = InnerNode(h[r].level, <<>>, h[r].childid)
  /\ \A n \in DOMAIN h : n # l /\ n # r => g[n] = h[n]
  /\ \A n \in DOMAIN h : g[n].level = h[n].level

\* merge_inner puts the keys and the children together.
LEMMA MergedNodes ==
  ASSUME NEW h, HeapTyped(h), NEW l \in DOMAIN h, NEW r \in DOMAIN h, l # r,
         h[l] \in InnerNodes, h[r] \in InnerNodes, NEW x \in Keys, NEW g,
         g = [h EXCEPT ![l].slotkey = (@ \o <<x>>) \o h[r].slotkey,
                       ![l].childid = @ \o h[r].childid,
                       ![r].slotkey = <<>>]
  PROVE  \E K, C : InnerMerge(g, h, l, r, x, K, C)
<1>1. PICK a, b, A, B, u, v :
        /\ a = h[l].slotkey /\ b = h[r].slotkey /\ A = h[l].childid /\ B = h[r].childid
        /\ u = h[l].level /\ v = h[r].level
  OBVIOUS
<1>2. /\ a \in Seq(Keys) /\ b \in Seq(Keys) /\ A \in Seq(Nodes) /\ B \in Seq(Nodes)
      /\ u \in Nat \ {0} /\ v \in Nat \ {0} /\ l \in Nodes /\ r \in Nodes /\ IsFunction(h)
  BY <1>1, InnerFields DEF HeapTyped
<1>3. PICK K, C : K = (a \o <<x>>) \o b /\ C = A \o B
  OBVIOUS
<1>4. /\ K \in Seq(Keys) /\ Len(K) = Len(a) + 1 + Len(b)
      /\ GluedKeys(K, a, Len(a), x, b, Len(b))
  BY <1>2, <1>3, GluedKeySeqs
<1>5. /\ C \in Seq(Nodes) /\ Len(C) = Len(A) + Len(B)
      /\ GluedChildren(C, A, Len(A), B, Len(B))
  BY <1>2, <1>3, GluedChildSeqs
<1>6. PICK c, d : c = InnerNode(u, K, C) /\ d = InnerNode(v, <<>>, B)
  OBVIOUS
<1>7. c \in InnerNodes /\ d \in InnerNodes /\ c.level = u /\ d.level = v
  <2>1. PICK e : e = <<>>
    OBVIOUS
  <2>2. e \in Seq(Keys)
    BY <2>1
  <2>3. c \in InnerNodes
    BY <1>2, <1>4, <1>5, <1>6, NodeRecords
  <2>4. d \in InnerNodes
    BY <1>2, <1>6, <2>1, <2>2, NodeRecords
  <2>5. c.level = u /\ d.level = v
    BY <1>6, GivenFields
  <2>6. QED
    BY <2>3, <2>4, <2>5
<1>8. PICK h1, h2 : h1 = [h EXCEPT ![l] = c] /\ h2 = [h1 EXCEPT ![r] = d]
  OBVIOUS
<1>9. Placed(h1, h, l, c) /\ HeapTyped(h1)
  <2>1. Placed(h1, h, l, c)
    BY <1>2, <1>8, ChangedNode
  <2>2. QED
    BY <1>2, <1>7, <2>1, PlacedTyped DEF IsNode
<1>10. DOMAIN h1 = DOMAIN h /\ h1[l] = c /\ \A n \in DOMAIN h : n # l => h1[n] = h[n]
  BY <1>9 DEF Placed
<1>11. Placed(h2, h1, r, d) /\ HeapTyped(h2)
  <2>1. IsFunction(h1) /\ r \in DOMAIN h1
    BY <1>9, <1>10 DEF HeapTyped
  <2>2. Placed(h2, h1, r, d)
    BY <1>8, <2>1, ChangedNode
  <2>3. QED
    BY <1>2, <1>7, <1>9, <2>2, PlacedTyped DEF IsNode
<1>12. /\ DOMAIN h2 = DOMAIN h /\ h2[r] = d /\ h2[l] = c
       /\ \A n \in DOMAIN h : n # l /\ n # r => h2[n] = h[n]
  BY <1>10, <1>11 DEF Placed
<1>13. \A n \in DOMAIN h : h2[n].level = h[n].level
  BY <1>1, <1>7, <1>12
<1>14. g = h2
  <2>1. PICK e1, e2, e3 :
          /\ e1 = [h EXCEPT ![l] = [h[l] EXCEPT !.slotkey = K]]
          /\ e2 = [e1 EXCEPT ![l] = [e1[l] EXCEPT !.childid = C]]
          /\ e3 = [e2 EXCEPT ![r] = [e2[r] EXCEPT !.slotkey = <<>>]]
    OBVIOUS
  <2>2. g = e3
    <3>1. [h EXCEPT ![l].slotkey = (@ \o <<x>>) \o b, ![l].childid = @ \o B, ![r].slotkey = <<>>]
             = [h EXCEPT ![l].slotkey = (a \o <<x>>) \o b, ![l].childid = A \o B, ![r].slotkey = <<>>]
      BY <1>1
    <3>2. QED
      BY <1>1, <1>3, <2>1, <3>1
  <2>3. e1[l] = InnerNode(u, K, A) /\ e1[l] \in InnerNodes
    <3>1. e1[l] = [h[l] EXCEPT !.slotkey = K]
      BY <2>1
    <3>2. e1[l] = InnerNode(u, K, A)
      BY <1>1, <3>1, InnerUpdates
    <3>3. QED
      BY <1>2, <1>4, <3>2, NodeRecords
  <2>4. [e1[l] EXCEPT !.childid = C] = c
    <3>1. e1[l].level = u /\ e1[l].slotkey = K
      BY <2>3, GivenFields
    <3>2. QED
      BY <1>6, <2>3, <3>1, InnerUpdates
  <2>5. e2 = h1
    BY <1>8, <2>1, <2>4
  <2>6. [e2[r] EXCEPT !.slotkey = <<>>] = d
    <3>1. e2[r] = h[r]
      BY <1>10, <2>5
    <3>2. PICK e, f : e = <<>> /\ f = h[r]
      OBVIOUS
    <3>3. [f EXCEPT !.slotkey = e] = InnerNode(f.level, e, f.childid)
      BY <3>2, InnerUpdates
    <3>4. QED
      BY <1>1, <1>6, <3>1, <3>2, <3>3
  <2>7. QED
    BY <1>8, <2>1, <2>2, <2>5, <2>6
<1>15. InnerMerge(g, h, l, r, x, K, C)
  BY <1>1, <1>4, <1>5, <1>6, <1>11, <1>12, <1>13, <1>14 DEF InnerMerge
<1>16. QED
  BY <1>15

\* A neighbour of the node below the same parent, of which there is one more
\* key than of the node; the parent's slot s is between them.
BesideIt(l, r, s, o) ==
  \/ l = o /\ r = cur /\ parentslot > 0 /\ top.left = o /\ s = parentslot - 1
  \/ /\ l = cur /\ r = o /\ parentslot < Len(heap[parent].slotkey)
     /\ top.right = o /\ s = parentslot

\* The neighbours that balancing chooses are children of the same node.
LEMMA BesideNodes ==
  ASSUME ShapeInv, pc = "balance", underflow, ~onlyNode,
         NEW l, NEW r, NEW s, NEW o, BesideIt(l, r, s, o)
  PROVE  /\ o \in Inner /\ o \in DOMAIN heap /\ o # cur /\ o # root /\ cur # root
         /\ heap[o].level = heap[cur].level /\ o # parent /\ cur # parent
         /\ heap[o].slotkey \in Seq(Keys) /\ heap[o].childid \in Seq(Nodes)
         /\ Len(heap[o].slotkey) \in Nat /\ slotuse(o) = Len(heap[o].slotkey)
         /\ Len(heap[o].slotkey) <= innerslotmax
         /\ Len(heap[o].childid) = Len(heap[o].slotkey) + 1
         /\ ((l = o /\ r = cur) \/ (l = cur /\ r = o)) /\ l # r
         /\ s \in Nat /\ s + 1 \in 1 .. Len(heap[parent].slotkey)
         /\ heap[parent].slotkey[s + 1] \in Keys
         /\ l = heap[parent].childid[s + 1] /\ r = heap[parent].childid[s + 2]
         /\ parent \in Inner /\ parent \in DOMAIN heap /\ parent \in LiveInner
         /\ heap[parent].level = heap[cur].level + 1
         /\ heap[parent].slotkey \in Seq(Keys) /\ heap[parent].childid \in Seq(Nodes)
         /\ Len(heap[parent].slotkey) \in Nat /\ slotuse(parent) = Len(heap[parent].slotkey)
         /\ parentslot \in 0 .. Len(heap[parent].slotkey)
         /\ cur = heap[parent].childid[parentslot + 1]
<1>1. /\ stack # <<>> /\ gone = Null /\ LiveInner = Inner
      /\ \A n \in Inner : InnerFilled(n)
  BY AtBalance
<1>2. /\ TypeOK /\ LinkedOnce /\ StackLeadsDown /\ root # Null
      /\ heap[cur].level \in Nat /\ heap[cur].level >= 1
      /\ cur \in Inner
  BY <1>1, AtInner
<1>3. hasParent /\ cur # root
  BY BalancingCases
<1>4. /\ parent \in LiveInner /\ parent \in DOMAIN heap /\ parent # cur
      /\ heap[parent].level = heap[cur].level + 1
      /\ parentslot \in 0 .. Len(heap[parent].slotkey)
      /\ cur = heap[parent].childid[parentslot + 1]
  BY <1>1, <1>2, <1>3, CurrentNode
<1>5. /\ parentslot \in Nat /\ Len(heap[parent].slotkey) \in Nat
      /\ parentslot <= Len(heap[parent].slotkey)
      /\ parentslot > 0 =>
           /\ top.left = heap[parent].childid[parentslot] /\ parentslot \in Slots(parent)
           /\ top.left \in DOMAIN heap /\ heap[top.left].level = heap[cur].level
           /\ top.left # cur
      /\ parentslot < Len(heap[parent].slotkey) =>
           /\ top.right = heap[parent].childid[parentslot + 2]
           /\ parentslot + 2 \in Slots(parent)
           /\ top.right \in DOMAIN heap /\ heap[top.right].level = heap[cur].level
           /\ top.right # cur
  BY <1>1, <1>3, NearNodes
<1>6. o \in DOMAIN heap /\ heap[o].level = heap[cur].level /\ o # cur
  BY <1>5 DEF BesideIt
<1>7. o \in Inner
  BY <1>2, <1>6, Levels
<1>8. /\ heap[o].slotkey \in Seq(Keys) /\ heap[o].childid \in Seq(Nodes)
      /\ Len(heap[o].slotkey) \in Nat /\ slotuse(o) = Len(heap[o].slotkey)
      /\ Len(heap[o].childid) = Len(heap[o].slotkey) + 1
  BY <1>1, <1>2, <1>7, ChildNodes
<1>9. Len(heap[o].slotkey) <= innerslotmax
  BY <1>1, <1>7, FilledSlots
<1>10. heap[o].level # heap[parent].level
  BY <1>2, <1>4, <1>6
<1>11. ((l = o /\ r = cur) \/ (l = cur /\ r = o)) /\ l # r
  BY <1>6 DEF BesideIt
<1>12. PICK m, p : m = Len(heap[parent].slotkey) /\ p = parentslot
  OBVIOUS
<1>13. s \in Nat /\ s + 1 \in 1 .. m
  <2>1. m \in Nat /\ p \in Nat /\ p <= m
    BY <1>5, <1>12
  <2>2. \/ p > 0 /\ s = p - 1
        \/ p < m /\ s = p
    BY <1>12 DEF BesideIt
  <2>3. QED
    BY <2>1, <2>2
<1>14. l = heap[parent].childid[s + 1] /\ r = heap[parent].childid[s + 2]
  <2>1. CASE l = o /\ r = cur /\ parentslot > 0 /\ top.left = o /\ s = parentslot - 1
    <3>1. s + 1 = p /\ s + 2 = p + 1
      BY <1>5, <1>12, <2>1
    <3>2. QED
      BY <1>4, <1>5, <1>12, <2>1, <3>1
  <2>2. CASE /\ l = cur /\ r = o /\ parentslot < Len(heap[parent].slotkey)
             /\ top.right = o /\ s = parentslot
    BY <1>4, <1>5, <2>2
  <2>3. QED
    BY <2>1, <2>2 DEF BesideIt
<1>15. /\ heap[parent].slotkey \in Seq(Keys) /\ heap[parent].childid \in Seq(Nodes)
       /\ slotuse(parent) = Len(heap[parent].slotkey)
       /\ \A i \in Slots(parent) : heap[parent].childid[i] # root
  BY <1>1, <1>2, <1>4, ChildNodes
<1>16. heap[parent].slotkey[s + 1] \in Keys
  BY <1>12, <1>13, <1>15
<1>17. o # root
  BY <1>5, <1>15 DEF BesideIt
<1>18. QED
  BY <1>1, <1>2, <1>3, <1>4, <1>5, <1>6, <1>7, <1>8, <1>9, <1>10, <1>11, <1>12, <1>13, <1>14,
     <1>15, <1>16, <1>17

\* What is known of the tree after two inner nodes were merged.
NodesMerged(l, r, s, o, K, C) ==
  /\ InnerMerge(heap', heap, l, r, heap[parent].slotkey[s + 1], K, C)
  /\ gone' = r /\ emptied' = s + 1 /\ cur' = parent /\ stack' # <<>>
  /\ heap'[parent] = heap[parent]
  /\ Len(K) \in Nat /\ Len(K) <= innerslotmax /\ Len(K) >= innerslotmax \div 2
  /\ Len(C) = Len(K) + 1
  /\ HeapTyped(heap') /\ DOMAIN heap' = DOMAIN heap
  /\ \A n \in DOMAIN heap : n # l /\ n # r => heap'[n] = heap[n]
  /\ \A n \in DOMAIN heap : heap'[n].level = heap[n].level
  /\ heap'[l] = InnerNode(heap[l].level, K, C)
  /\ slotuse(r)' = 0
  /\ Leaves' = Leaves /\ Inner' = Inner
  /\ LiveInner' = Inner \ {r} /\ LiveLeaves' = Leaves /\ Live' = DOMAIN heap \ {r}

\* merge_inner writes the node that takes all.
LEMMA MergeInnerHeap ==
  ASSUME ShapeInv, pc = "balance", underflow, ~onlyNode, fromInner, fixmerge' = TRUE,
         NEW l, NEW r, NEW s, NEW o, BesideIt(l, r, s, o), isfew(o),
         heap' = merge_inner(l, r, parent, s)
  PROVE  \E K, C : NodesMerged(l, r, s, o, K, C)
<1>1. pc' = "fix" /\ stack' = Front(stack)
  BY DEF fromInner
<1>2. /\ stack # <<>> /\ gone = Null /\ LiveInner = Inner
      /\ \A n \in Inner : InnerFilled(n)
  BY AtBalance
<1>3. /\ TypeOK /\ cur \in Inner /\ cur \in DOMAIN heap /\ heap[cur] \in InnerNodes
      /\ Len(heap[cur].childid) = Len(heap[cur].slotkey) + 1
      /\ heap[cur].level \in Nat /\ heap[cur].level >= 1
  BY <1>2, AtInner
<1>4. /\ hasParent /\ Len(heap[cur].slotkey) = innerslotmax \div 2 - 1
  BY BalancingCases
<1>5. /\ o \in Inner /\ o \in DOMAIN heap /\ o # cur /\ o # parent /\ cur # parent
      /\ heap[o].level = heap[cur].level
      /\ Len(heap[o].slotkey) \in Nat /\ slotuse(o) = Len(heap[o].slotkey)
      /\ Len(heap[o].childid) = Len(heap[o].slotkey) + 1
      /\ ((l = o /\ r = cur) \/ (l = cur /\ r = o)) /\ l # r /\ s \in Nat
      /\ heap[parent].slotkey[s + 1] \in Keys
      /\ parent \in DOMAIN heap /\ cur = heap[parent].childid[parentslot + 1]
      /\ r = heap[parent].childid[s + 2]
      /\ parentslot \in 0 .. Len(heap[parent].slotkey)
      /\ Len(heap[parent].slotkey) \in Nat
  BY BesideNodes
<1>6. PICK x : x = heap[parent].slotkey[s + 1]
  OBVIOUS
<1>7. \E K, C : InnerMerge(heap', heap, l, r, x, K, C)
  <2>1. /\ HeapTyped(heap) /\ l \in DOMAIN heap /\ r \in DOMAIN heap
        /\ heap[l] \in InnerNodes /\ heap[r] \in InnerNodes
    BY <1>3, <1>5, HeapNow, NodeKinds
  <2>2. heap' = [heap EXCEPT ![l].slotkey = (@ \o <<x>>) \o heap[r].slotkey,
                             ![l].childid = @ \o heap[r].childid,
                             ![r].slotkey = <<>>]
    BY <1>6 DEF merge_inner
  <2>3. x \in Keys
    BY <1>5, <1>6
  <2>4. PICK g : g = heap'
    OBVIOUS
  <2>5. \E K, C : InnerMerge(g, heap, l, r, x, K, C)
    BY <1>5, <2>1, <2>2, <2>3, <2>4, MergedNodes
  <2>6. QED
    BY <2>4, <2>5
<1>8. PICK K, C : InnerMerge(heap', heap, l, r, x, K, C)
  BY <1>7
<1>9. /\ HeapTyped(heap') /\ DOMAIN heap' = DOMAIN heap
      /\ Len(K) = Len(heap[l].slotkey) + 1 + Len(heap[r].slotkey)
      /\ Len(C) = Len(heap[l].childid) + Len(heap[r].childid)
      /\ heap'[l] = InnerNode(heap[l].level, K, C)
      /\ heap'[r] = InnerNode(heap[r].level, <<>>, heap[r].childid)
      /\ \A n \in DOMAIN heap : n # l /\ n # r => heap'[n] = heap[n]
      /\ \A n \in DOMAIN heap : heap'[n].level = heap[n].level
  BY <1>8 DEF InnerMerge
<1>10. /\ Len(K) \in Nat /\ Len(K) <= innerslotmax /\ Len(K) >= innerslotmax \div 2
       /\ Len(C) = Len(K) + 1
  <2>1. PICK a, b : a = Len(heap[cur].slotkey) /\ b = Len(heap[o].slotkey)
    OBVIOUS
  <2>2. b \in Nat /\ b <= innerslotmax \div 2 /\ a = innerslotmax \div 2 - 1
    BY <1>4, <1>5, <2>1 DEF isfew
  <2>3. Len(K) = a + 1 + b \/ Len(K) = b + 1 + a
    BY <1>5, <1>9, <2>1
  <2>4. Len(C) = (a + 1) + (b + 1) \/ Len(C) = (b + 1) + (a + 1)
    BY <1>3, <1>5, <1>9, <2>1
  <2>5. QED
    BY <2>2, <2>3, <2>4, Half
<1>11. heap'[parent] = heap[parent]
  BY <1>5, <1>9
<1>12. PICK c : c = cur
  OBVIOUS
<1>13. /\ cur' = parent /\ stack' # <<>>
       /\ slotuse(c)' # 0 => /\ emptied' = parentslot + 1
                             /\ gone' = heap[parent].childid[parentslot + 2]
       /\ slotuse(c)' = 0 => emptied' = parentslot /\ gone' = cur
  BY <1>1, <1>2, <1>3, <1>4, <1>5, <1>11, <1>12, EmptiedAbove
<1>14. ASSUME NEW n \in {l, r} PROVE slotuse(n)' = Len(heap'[n].slotkey)
  <2>1. heap'[n].level # 0
    BY <1>3, <1>5, <1>9
  <2>2. QED
    BY <2>1 DEF slotuse, slotuseIn
<1>15. slotuse(l)' # 0 /\ slotuse(r)' = 0
  <2>1. slotuse(r)' = Len(heap'[r].slotkey) /\ slotuse(l)' = Len(heap'[l].slotkey)
    BY <1>14
  <2>2. heap'[l].slotkey = K
    BY <1>9, GivenFields
  <2>3. Len(heap'[r].slotkey) = 0
    <3>1. PICK e : e = <<>>
      OBVIOUS
    <3>2. heap'[r].slotkey = e /\ Len(e) = 0
      BY <1>9, <3>1, GivenFields
    <3>3. QED
      BY <3>2
  <2>4. QED
    BY <1>10, <2>1, <2>2, <2>3, Half
<1>16. gone' = r /\ emptied' = s + 1
  <2>1. CASE l = o /\ r = cur /\ s = parentslot - 1 /\ parentslot > 0
    <3>1. slotuse(c)' = 0
      BY <1>12, <1>15, <2>1
    <3>2. parentslot = s + 1
      BY <1>5, <2>1
    <3>3. QED
      BY <1>13, <2>1, <3>1, <3>2
  <2>2. CASE l = cur /\ r = o /\ s = parentslot
    <3>1. slotuse(c)' # 0
      BY <1>12, <1>15, <2>2
    <3>2. QED
      BY <1>5, <1>13, <2>2, <3>1
  <2>3. QED
    BY <2>1, <2>2 DEF BesideIt
<1>17. Leaves' = Leaves /\ Inner' = Inner
  BY <1>9, SameKinds
<1>18. LiveInner' = Inner \ {r} /\ LiveLeaves' = Leaves /\ Live' = DOMAIN heap \ {r}
  <2>1. r \in Inner
    BY <1>3, <1>5
  <2>2. r \notin Leaves
    BY <1>3, <2>1, NodeKinds
  <2>3. QED
    BY <1>9, <1>16, <1>17, <2>2 DEF LiveInner, LiveLeaves, Live
<1>19. NodesMerged(l, r, s, o, K, C)
  BY <1>6, <1>8, <1>9, <1>10, <1>11, <1>13, <1>15, <1>16, <1>17, <1>18 DEF NodesMerged
<1>20. QED
  BY <1>19

\* Its children are linked once.
LEMMA MergeInnerLinks ==
  ASSUME ShapeInv, pc = "balance", underflow, ~onlyNode, fromInner, root' = root,
         NEW l, NEW r, NEW s, NEW o, BesideIt(l, r, s, o),
         NEW K, NEW C, NodesMerged(l, r, s, o, K, C)
  PROVE  /\ LinkedOnce'
         /\ \A c \in Elements(C) : heap'[c].level + 1 = heap[l].level
<1>1. /\ stack # <<>> /\ gone = Null /\ LiveInner = Inner
      /\ \A n \in Inner : InnerFilled(n)
  BY AtBalance
<1>2. /\ TypeOK /\ LinkedOnce /\ cur \in Inner /\ newchild' = newchild
  BY <1>1, AtInner DEF fromInner, split
<1>3. /\ o \in Inner /\ ((l = o /\ r = cur) \/ (l = cur /\ r = o)) /\ l # r
  BY BesideNodes
<1>4. /\ InnerMerge(heap', heap, l, r, heap[parent].slotkey[s + 1], K, C)
      /\ DOMAIN heap' = DOMAIN heap /\ LiveInner' = Inner \ {r}
      /\ \A n \in DOMAIN heap : n # l /\ n # r => heap'[n] = heap[n]
      /\ \A n \in DOMAIN heap : heap'[n].level = heap[n].level
      /\ heap'[l] = InnerNode(heap[l].level, K, C)
  BY DEF NodesMerged
<1>5. PICK A, B, T, I, I2, M, N2, h2 :
        /\ A = heap[l].childid /\ B = heap[r].childid
        /\ T = DOMAIN heap \ {root, newchild} /\ I = Inner /\ I2 = Inner \ {r}
        /\ M = {l, r} /\ N2 = Elements(C) /\ h2 = heap'
  OBVIOUS
<1>6. l \in Inner /\ r \in Inner /\ l \in LiveInner /\ r \in LiveInner
  BY <1>1, <1>2, <1>3
<1>7. A \in Seq(Nodes) /\ B \in Seq(Nodes) /\ C \in Seq(Nodes) /\ Chained(C, A, B)
  <2>1. /\ C \in Seq(Nodes) /\ Len(C) = Len(A) + Len(B)
        /\ GluedChildren(C, A, Len(A), B, Len(B))
    BY <1>4, <1>5 DEF InnerMerge
  <2>2. A \in Seq(Nodes) /\ B \in Seq(Nodes)
    BY <1>1, <1>2, <1>5, <1>6, ChildNodes
  <2>3. PICK a, b : a = Len(A) /\ b = Len(B)
    OBVIOUS
  <2>4. Chained(C, A, B)
    BY <2>1, <2>3, GluedChained
  <2>5. QED
    BY <2>1, <2>2, <2>4
<1>8. /\ ChildrenOnce(I, heap, T)
      /\ Distinct(A) /\ Distinct(B) /\ Elements(A) \cap Elements(B) = {}
      /\ Elements(A) \subseteq T /\ Elements(B) \subseteq T
  <2>1. ChildrenOnce(I, heap, T)
    BY <1>1, <1>2, <1>5, <1>6, OwnChildren
  <2>2. Distinct(A) /\ Elements(A) \subseteq T
    BY <1>2, <1>5, <1>6, OwnChildren
  <2>3. Distinct(B) /\ Elements(B) \subseteq T
    BY <1>2, <1>5, <1>6, OwnChildren
  <2>4. Elements(A) \cap Elements(B) = {}
    BY <1>3, <1>5, <1>6, <2>1 DEF ChildrenOnce
  <2>5. QED
    BY <2>1, <2>2, <2>3, <2>4
<1>9. Elements(C) = Elements(A) \cup Elements(B) /\ Distinct(C)
  BY <1>7, <1>8, ChainedElements
<1>10. h2[l].childid = C
  BY <1>4, <1>5, GivenFields
<1>11. I2 \cap M = {l} /\ I \cap M = {l, r} /\ I \ M = I2 \ M
  BY <1>3, <1>5, <1>6
<1>12. ChildrenOnce(I2 \cap M, h2, N2)
  BY <1>5, <1>9, <1>10, <1>11 DEF ChildrenOnce
<1>13. \A p \in I \ M : h2[p].childid = heap[p].childid
  BY <1>2, <1>4, <1>5, NodeKinds
<1>14. ASSUME NEW c PROVE c \in N2 <=> \E p \in I \cap M : c \in Elements(heap[p].childid)
  BY <1>5, <1>9, <1>11
<1>15. N2 \subseteq T
  BY <1>5, <1>8, <1>9
<1>16. DOMAIN heap' \ {root', newchild'} = T
  BY <1>2, <1>4, <1>5
<1>17. Moved(I, heap, T, I2, h2, T, M, N2)
  <2>1. \A c \in N2 : c \notin T \/ \E p \in I \cap M : c \in Elements(heap[p].childid)
    BY <1>14
  <2>2. \A c : c \in T <=>
          (c \in N2 \/ (c \in T /\ ~\E p \in I \cap M : c \in Elements(heap[p].childid)))
    BY <1>14, <1>15
  <2>3. QED
    BY <1>8, <1>11, <1>12, <1>13, <2>1, <2>2 DEF Moved
<1>18. ChildrenOnce(I2, h2, T)
  BY <1>17, Relinked
<1>19. LinkedOnce'
  BY <1>4, <1>5, <1>16, <1>18, LinkedForm
<1>20. ASSUME NEW c \in Elements(C) PROVE heap'[c].level + 1 = heap[l].level
  <2>1. PICK q \in {l, r} : c \in Elements(heap[q].childid)
    BY <1>5, <1>9
  <2>2. PICK i \in Slots(q) : c = heap[q].childid[i]
    BY <2>1 DEF Elements, Slots
  <2>3. q \in LiveInner /\ InnerFilled(q) /\ heap[q].level = heap[l].level
    <3>1. heap[o].level = heap[cur].level
      BY BesideNodes
    <3>2. QED
      BY <1>1, <1>3, <1>6, <3>1
  <2>4. c \in DOMAIN heap /\ heap[c].level + 1 = heap[q].level
    BY <1>2, <2>2, <2>3, ChildNodes
  <2>5. QED
    BY <1>4, <2>3, <2>4
<1>21. QED
  BY <1>19, <1>20

\* Nodes merged to either side keep the shape.
LEMMA MergeInnerInto ==
  ASSUME ShapeInv, pc = "balance", underflow, ~onlyNode, fromInner, fixmerge' = TRUE,
         UNCHANGED <<root, stats, lastkey>>,
         NEW l, NEW r, NEW s, NEW o, BesideIt(l, r, s, o), isfew(o),
         heap' = merge_inner(l, r, parent, s)
  PROVE  ShapeInv' /\ LiveLeaves' = Leaves /\ \A n \in Leaves : heap'[n] = heap[n]
<1>1. PICK K, C : NodesMerged(l, r, s, o, K, C)
  BY MergeInnerHeap
<1>2. /\ gone' = r /\ emptied' = s + 1 /\ cur' = parent /\ stack' # <<>>
      /\ heap'[parent] = heap[parent]
      /\ Len(K) \in Nat /\ Len(K) <= innerslotmax /\ Len(K) >= innerslotmax \div 2
      /\ Len(C) = Len(K) + 1
      /\ HeapTyped(heap') /\ DOMAIN heap' = DOMAIN heap
      /\ \A n \in DOMAIN heap : n # l /\ n # r => heap'[n] = heap[n]
      /\ \A n \in DOMAIN heap : heap'[n].level = heap[n].level
      /\ heap'[l] = InnerNode(heap[l].level, K, C)
      /\ slotuse(r)' = 0
      /\ Leaves' = Leaves /\ Inner' = Inner
      /\ LiveInner' = Inner \ {r} /\ LiveLeaves' = Leaves /\ Live' = DOMAIN heap \ {r}
  BY <1>1 DEF NodesMerged
<1>3. /\ pc' = "fix" /\ stack' = Front(stack)
      /\ UNCHANGED <<head, tail, key, newkey, newchild, stored, root, stats, lastkey>>
  BY DEF fromInner, split
<1>4. /\ stack # <<>> /\ gone = Null /\ LiveInner = Inner /\ LiveLeaves = Leaves
      /\ newchild = Null /\ \A n \in Inner : InnerFilled(n)
  BY AtBalance
<1>5. /\ TypeOK /\ Tree /\ StackLeadsDown /\ root # Null /\ key # Null /\ Counted
      /\ cur \in Inner /\ heap[cur].level \in Nat
  BY <1>4, AtInner
<1>6. /\ o \in Inner /\ heap[o].level = heap[cur].level
      /\ ((l = o /\ r = cur) \/ (l = cur /\ r = o)) /\ l # r /\ s \in Nat /\ s + 1 \in 1 .. Len(heap[parent].slotkey)
      /\ o # root /\ cur # root
      /\ parent \in DOMAIN heap /\ slotuse(parent) = Len(heap[parent].slotkey)
      /\ heap[parent].level = heap[cur].level + 1
  BY BesideNodes
<1>7. /\ LinkedOnce'
      /\ \A c \in Elements(C) : heap'[c].level + 1 = heap[l].level
  BY <1>1, <1>3, MergeInnerLinks
<1>8. \A n \in Inner : n # l /\ n # r => Alike(n) /\ n \in DOMAIN heap
  BY <1>2, <1>5, NodeKinds DEF Alike
<1>9. \A n \in Leaves : heap'[n] = heap[n]
  <2>1. \A n \in Leaves : n \in DOMAIN heap /\ n \notin Inner
    BY <1>5, NodeKinds
  <2>2. l \in Inner /\ r \in Inner
    BY <1>5, <1>6
  <2>3. QED
    BY <1>2, <2>1, <2>2
<1>10. StackLeadsDown' /\ stack' \in Seq(Frames)
  <2>1. ASSUME NEW n \in LiveInner, heap[n].level > heap[cur].level
        PROVE  Alike(n) /\ n \in Live'
    <3>1. n # l /\ n # r
      BY <1>5, <1>6, <2>1
    <3>2. QED
      BY <1>2, <1>4, <1>8, <3>1
  <2>2. DOMAIN heap' \subseteq Nodes /\ pc' \notin {"insert", "erase"}
    BY <1>2, <1>3 DEF HeapTyped
  <2>3. QED
    BY <1>3, <1>4, <1>5, <2>1, <2>2, UpStack
<1>11. TypeOK'
  <2>1. fixmerge' \in BOOLEAN /\ root' \in DOMAIN heap' \cup {Null} /\ stats' \in Counters
    BY <1>2, <1>3, <1>5, TypeNow
  <2>2. QED
    BY <1>2, <1>3, <1>5, <1>10, <2>1, TypeNow, TypeNext
<1>12. \A n : least(n)' = IF n = root THEN 1 ELSE innerslotmax \div 2
  BY <1>3, <1>4 DEF least, rootSplit
<1>13. InnerFilled(l)'
  <2>1. PICK n, v : n = l /\ v = heap[l].level
    OBVIOUS
  <2>2. least(n)' <= Len(K)
    BY <1>2, <1>12, Half
  <2>3. InnerFilled(n)'
    <3>1. heap'[n] = InnerNode(v, K, C) /\ \A c \in Elements(C) : heap'[c].level + 1 = v
      BY <1>2, <1>7, <2>1
    <3>2. QED
      BY <1>2, <2>2, <3>1, GivenFilled
  <2>4. QED
    BY <2>1, <2>3 DEF InnerFilled
<1>14. Tree'
  <2>1. PICK M : M = {l, r}
    OBVIOUS
  <2>2. ASSUME NEW n \in LiveInner' \ M
        PROVE  n \in LiveInner /\ Alike(n) /\ least(n)' <= Len(heap[n].slotkey)
    <3>1. n \in Inner /\ n # l /\ n # r /\ n # cur
      BY <1>2, <1>6, <2>1
    <3>2. least(n) = IF n = root THEN 1 ELSE innerslotmax \div 2
      BY <3>1, AtBalance
    <3>3. least(n)' = least(n)
      BY <1>12, <3>2
    <3>4. Len(heap[n].slotkey) >= least(n)
      BY <1>4, <3>1, FilledSlots
    <3>5. QED
      BY <1>4, <1>8, <3>1, <3>3, <3>4
  <2>3. ASSUME NEW n \in LiveLeaves' PROVE LeafFilled(n)'
    <3>1. n \in LiveLeaves /\ LeafFilled(n) /\ heap'[n] = heap[n]
      BY <1>2, <1>4, <1>5, <1>9 DEF Tree
    <3>2. QED
      BY <1>3, <3>1 DEF LeafFilled
  <2>4. ASSUME NEW n \in LiveInner' \cap M PROVE InnerFilled(n)'
    <3>1. n = l
      BY <1>2, <2>1
    <3>2. QED
      BY <1>13, <3>1 DEF InnerFilled
  <2>5. \A n \in DOMAIN heap \cap DOMAIN heap' : heap'[n].level = heap[n].level
    BY <1>2
  <2>6. root' # Null
    BY <1>3, <1>5
  <2>7. QED
    BY <1>5, <1>7, <2>2, <2>3, <2>4, <2>5, <2>6, TreeMoved
<1>15. CallUnderWay'
  <2>1. slotuse(gone)' = 0
    <3>1. PICK x : x = gone'
      OBVIOUS
    <3>2. slotuse(x)' = 0
      BY <1>2, <3>1 DEF slotuse
    <3>3. QED
      BY <3>1, <3>2 DEF slotuse
  <2>2. slotuse(cur)' = Len(heap[parent].slotkey)
    <3>1. heap'[parent].level # 0
      BY <1>2, <1>5, <1>6
    <3>2. QED
      BY <1>2, <3>1 DEF slotuse, slotuseIn
  <2>3. emptied' \in 1 .. slotuse(cur)'
    BY <1>2, <1>6, <2>2
  <2>4. QED
    BY <1>2, <1>3, <1>4, <1>5, <1>10, <2>1, <2>3 DEF CallUnderWay
<1>16. Counted'
  BY <1>2, <1>3, <1>5 DEF Counted
<1>17. QED
  BY <1>2, <1>9, <1>11, <1>14, <1>15, <1>16 DEF ShapeInv

\* Merged inner nodes keep the shape.
LEMMA MergeInnerShape ==
  ASSUME ShapeInv, MergeInner
  PROVE  /\ ShapeInv' /\ LiveLeaves' = Leaves /\ LiveLeaves = Leaves
         /\ \A n \in Leaves : heap'[n] = heap[n]
<1>1. /\ pc = "balance" /\ underflow /\ ~onlyNode /\ fromInner /\ fixmerge' = TRUE
      /\ UNCHANGED <<root, stats, lastkey>>
  BY DEF MergeInner
<1>2. LiveLeaves = Leaves
  BY <1>1, AtBalance
<1>3. CASE /\ balancing = "mergeLeft"
           /\ heap' = merge_inner(top.left, cur, top.leftparent, parentslot - 1)
  <2>1. parentslot > 0 /\ top.leftparent = parent /\ isfew(top.left)
    BY <1>1, <1>3, BalancingCases
  <2>2. PICK l, r, s : l = top.left /\ r = cur /\ s = parentslot - 1
    OBVIOUS
  <2>3. BesideIt(l, r, s, l) /\ isfew(l)
    BY <2>1, <2>2 DEF BesideIt
  <2>4. heap' = merge_inner(l, r, parent, s)
    BY <1>3, <2>1, <2>2
  <2>5. QED
    BY <1>1, <1>2, <2>3, <2>4, MergeInnerInto
<1>4. CASE /\ balancing = "mergeRight"
           /\ heap' = merge_inner(cur, top.right, top.rightparent, parentslot)
  <2>1. /\ parentslot < Len(heap[parent].slotkey)
        /\ top.rightparent = parent /\ isfew(top.right)
    BY <1>1, <1>4, BalancingCases
  <2>2. PICK l, r, s : l = cur /\ r = top.right /\ s = parentslot
    OBVIOUS
  <2>3. BesideIt(l, r, s, r) /\ isfew(r)
    BY <2>1, <2>2 DEF BesideIt
  <2>4. heap' = merge_inner(l, r, parent, s)
    BY <1>4, <2>1, <2>2
  <2>5. QED
    BY <1>1, <1>2, <2>3, <2>4, MergeInnerInto
<1>5. QED
  BY <1>3, <1>4 DEF MergeInner

-----------------------------------------------------------------------------
(* Inner nodes that are balanced *)

\* Keys move from the right node to the left one, through the parent.
LEMMA CutLaterKeys ==
  ASSUME NEW m \in Nat, NEW k \in Nat, NEW n \in 1 .. k, NEW x,
         NEW B, NEW a, NEW b, NEW L, NEW q, NEW R,
         GluedKeys(B, a, m, x, b, k), GluedKeys(L, a, m, x, q, n - 1),
         \A i \in 1 .. n - 1 : q[i] = b[i], \A i \in 1 .. k - n : R[i] = b[n + i]
  PROVE  GluedKeys(B, L, m + n, b[n], R, k - n)
<1>1. /\ \A i \in 1 .. m : B[i] = a[i]
      /\ B[m + 1] = x
      /\ \A i \in 1 .. k : B[m + 1 + i] = b[i]
      /\ \A i \in 1 .. m : L[i] = a[i]
      /\ L[m + 1] = x
      /\ \A i \in 1 .. n - 1 : L[m + 1 + i] = q[i]
  BY DEF GluedKeys
<1>2. ASSUME NEW i \in 1 .. m + n PROVE B[i] = L[i]
  <2>1. CASE i <= m
    BY <1>1, <2>1
  <2>2. CASE i = m + 1
    BY <1>1, <2>2
  <2>3. CASE i > m + 1
    <3>1. PICK j : j = i - (m + 1)
      OBVIOUS
    <3>2. j \in 1 .. n - 1 /\ j \in 1 .. k /\ i = m + 1 + j
      BY <2>3, <3>1
    <3>3. B[m + 1 + j] = b[j] /\ L[m + 1 + j] = q[j] /\ q[j] = b[j]
      BY <1>1, <3>2
    <3>4. QED
      BY <3>2, <3>3
  <2>4. QED
    BY <2>1, <2>2, <2>3
<1>3. B[m + n + 1] = b[n]
  <2>1. m + n + 1 = m + 1 + n
    OBVIOUS
  <2>2. QED
    BY <1>1, <2>1
<1>4. ASSUME NEW i \in 1 .. k - n PROVE B[m + n + 1 + i] = R[i]
  <2>1. PICK j : j = n + i
    OBVIOUS
  <2>2. j \in 1 .. k /\ m + n + 1 + i = m + 1 + j
    BY <2>1
  <2>3. B[m + 1 + j] = b[j]
    BY <1>1, <2>2
  <2>4. QED
    BY <2>1, <2>2, <2>3
<1>5. QED
  BY <1>2, <1>3, <1>4 DEF GluedKeys

\* The first children of the right node move to the end of the left one.
LEMMA CutLaterChildren ==
  ASSUME NEW m \in Nat, NEW k \in Nat, NEW n \in 1 .. k,
         NEW B, NEW a, NEW b, NEW L, NEW q, NEW R,
         GluedChildren(B, a, m, b, k), GluedChildren(L, a, m, q, n),
         \A i \in 1 .. n : q[i] = b[i], \A i \in 1 .. k - n : R[i] = b[n + i]
  PROVE  GluedChildren(B, L, m + n, R, k - n)
<1>1. /\ \A i \in 1 .. m : B[i] = a[i]
      /\ \A i \in 1 .. k : B[m + i] = b[i]
      /\ \A i \in 1 .. m : L[i] = a[i]
      /\ \A i \in 1 .. n : L[m + i] = q[i]
  BY DEF GluedChildren
<1>2. ASSUME NEW i \in 1 .. m + n PROVE B[i] = L[i]
  <2>1. CASE i <= m
    BY <1>1, <2>1
  <2>2. CASE i > m
    <3>1. PICK j : j = i - m
      OBVIOUS
    <3>2. j \in 1 .. n /\ j \in 1 .. k /\ i = m + j
      BY <2>2, <3>1
    <3>3. B[m + j] = b[j] /\ L[m + j] = q[j] /\ q[j] = b[j]
      BY <1>1, <3>2
    <3>4. QED
      BY <3>2, <3>3
  <2>3. QED
    BY <2>1, <2>2
<1>3. ASSUME NEW i \in 1 .. k - n PROVE B[m + n + i] = R[i]
  <2>1. PICK j : j = n + i
    OBVIOUS
  <2>2. j \in 1 .. k /\ m + n + i = m + j
    BY <2>1
  <2>3. B[m + j] = b[j]
    BY <1>1, <2>2
  <2>4. QED
    BY <2>1, <2>2, <2>3
<1>4. QED
  BY <1>2, <1>3 DEF GluedChildren

\* Keys move from the left node to the right one.
LEMMA CutEarlierKeys ==
  ASSUME NEW m \in Nat, NEW k \in Nat, NEW n \in 1 .. m, NEW x,
         NEW B, NEW a, NEW b, NEW L, NEW q, NEW R,
         GluedKeys(B, a, m, x, b, k), GluedKeys(R, q, n - 1, x, b, k),
         \A i \in 1 .. n - 1 : q[i] = a[m - n + 1 + i], \A i \in 1 .. m - n : L[i] = a[i]
  PROVE  GluedKeys(B, L, m - n, a[m - n + 1], R, n + k)
<1>1. /\ \A i \in 1 .. m : B[i] = a[i]
      /\ B[m + 1] = x
      /\ \A i \in 1 .. k : B[m + 1 + i] = b[i]
      /\ \A i \in 1 .. n - 1 : R[i] = q[i]
      /\ R[n - 1 + 1] = x
      /\ \A i \in 1 .. k : R[n - 1 + 1 + i] = b[i]
  BY DEF GluedKeys
<1>2. R[n] = x /\ \A i \in 1 .. k : R[n + i] = b[i]
  <2>1. n - 1 + 1 = n
    OBVIOUS
  <2>2. QED
    BY <1>1, <2>1
<1>3. \A i \in 1 .. m - n : B[i] = L[i]
  BY <1>1
<1>4. B[m - n + 1] = a[m - n + 1]
  <2>1. m - n + 1 \in 1 .. m
    OBVIOUS
  <2>2. QED
    BY <1>1, <2>1
<1>5. ASSUME NEW i \in 1 .. n + k PROVE B[m - n + 1 + i] = R[i]
  <2>1. CASE i < n
    <3>1. PICK j : j = m - n + 1 + i
      OBVIOUS
    <3>2. j \in 1 .. m /\ i \in 1 .. n - 1
      BY <2>1, <3>1
    <3>3. B[j] = a[j] /\ R[i] = q[i] /\ q[i] = a[m - n + 1 + i]
      BY <1>1, <3>2
    <3>4. QED
      BY <3>1, <3>3
  <2>2. CASE i = n
    <3>1. m - n + 1 + i = m + 1
      BY <2>2
    <3>2. QED
      BY <1>1, <1>2, <2>2, <3>1
  <2>3. CASE i > n
    <3>1. PICK j : j = i - n
      OBVIOUS
    <3>2. j \in 1 .. k /\ m - n + 1 + i = m + 1 + j /\ i = n + j
      BY <2>3, <3>1
    <3>3. B[m + 1 + j] = b[j] /\ R[n + j] = b[j]
      BY <1>1, <1>2, <3>2
    <3>4. QED
      BY <3>2, <3>3
  <2>4. QED
    BY <2>1, <2>2, <2>3
<1>6. QED
  BY <1>3, <1>4, <1>5 DEF GluedKeys

\* The last children of the left node move to the front of the right one.
LEMMA CutEarlierChildren ==
  ASSUME NEW m \in Nat, NEW k \in Nat, NEW n \in 1 .. m,
         NEW B, NEW a, NEW b, NEW L, NEW q, NEW R,
         GluedChildren(B, a, m, b, k), GluedChildren(R, q, n, b, k),
         \A i \in 1 .. n : q[i] = a[m - n + i], \A i \in 1 .. m - n : L[i] = a[i]
  PROVE  GluedChildren(B, L, m - n, R, n + k)
<1>1. /\ \A i \in 1 .. m : B[i] = a[i]
      /\ \A i \in 1 .. k : B[m + i] = b[i]
      /\ \A i \in 1 .. n : R[i] = q[i]
      /\ \A i \in 1 .. k : R[n + i] = b[i]
  BY DEF GluedChildren
<1>2. \A i \in 1 .. m - n : B[i] = L[i]
  BY <1>1
<1>3. ASSUME NEW i \in 1 .. n + k PROVE B[m - n + i] = R[i]
  <2>1. CASE i <= n
    <3>1. PICK j : j = m - n + i
      OBVIOUS
    <3>2. j \in 1 .. m /\ i \in 1 .. n
      BY <2>1, <3>1
    <3>3. B[j] = a[j] /\ R[i] = q[i] /\ q[i] = a[m - n + i]
      BY <1>1, <3>2
    <3>4. QED
      BY <3>1, <3>3
  <2>2. CASE i > n
    <3>1. PICK j : j = i - n
      OBVIOUS
    <3>2. j \in 1 .. k /\ m - n + i = m + j /\ i = n + j
      BY <2>2, <3>1
    <3>3. B[m + j] = b[j] /\ R[n + j] = b[j]
      BY <1>1, <3>2
    <3>4. QED
      BY <3>2, <3>3
  <2>3. QED
    BY <2>1, <2>2
<1>4. QED
  BY <1>2, <1>3 DEF GluedChildren

\* The keys of the nodes l and r, with x between them, are divided anew, with y
\* between them; and so are their children.
Redivided(Kl, Cl, x, Kr, Cr, Kl2, Cl2, y, Kr2, Cr2, K, C) ==
  /\ Kl2 \in Seq(Keys) /\ Kr2 \in Seq(Keys) /\ Cl2 \in Seq(Nodes) /\ Cr2 \in Seq(Nodes)
  /\ K \in Seq(Keys) /\ C \in Seq(Nodes) /\ y \in Keys
  /\ Len(K) = Len(Kl) + 1 + Len(Kr) /\ Len(K) = Len(Kl2) + 1 + Len(Kr2)
  /\ Len(C) = Len(Cl) + Len(Cr) /\ Len(C) = Len(Cl2) + Len(Cr2)
  /\ GluedKeys(K, Kl, Len(Kl), x, Kr, Len(Kr))
  /\ GluedKeys(K, Kl2, Len(Kl2), y, Kr2, Len(Kr2))
  /\ GluedChildren(C, Cl, Len(Cl), Cr, Len(Cr))
  /\ GluedChildren(C, Cl2, Len(Cl2), Cr2, Len(Cr2))
  /\ Len(Cl2) = Len(Kl2) + 1 /\ Len(Cr2) = Len(Kr2) + 1

\* q is s from a to b.
PartOf(q, S, s, a, b) ==
  /\ q \in Seq(S) /\ Len(q) = b + 1 - a
  /\ \A i \in 1 .. b + 1 - a : q[i] = s[a + i - 1]

\* SubSeq takes a part.
LEMMA PartTaken ==
  ASSUME NEW S, NEW s \in Seq(S), NEW a \in Nat, NEW b \in Nat,
         a >= 1, b <= Len(s), a <= b + 1
  PROVE  PartOf(SubSeq(s, a, b), S, s, a, b)
  BY SubSeqElement DEF PartOf

\* A slice of a sequence.
LEMMA Sliced ==
  ASSUME NEW S, NEW s, s \in Seq(S), NEW o \in Nat, NEW n \in Nat, NEW c, NEW d,
         c = o + 1, d = o + n, d <= Len(s), NEW q, q = SubSeq(s, c, d)
  PROVE  q \in Seq(S) /\ Len(q) = n /\ \A i \in 1 .. n : q[i] = s[o + i]
<1>1. c \in Nat /\ d \in Nat /\ c >= 1 /\ c <= d + 1 /\ d + 1 - c = n
  OBVIOUS
<1>2. \A i \in 1 .. n : c + i - 1 = o + i
  OBVIOUS
<1>3. PartOf(SubSeq(s, c, d), S, s, c, d)
  BY <1>1, PartTaken
<1>4. PartOf(q, S, s, c, d)
  BY <1>3
<1>5. QED
  BY <1>1, <1>2, <1>4 DEF PartOf

SliceOf(q, S, s, o, n) ==
  q \in Seq(S) /\ Len(q) = n /\ \A i \in 1 .. n : q[i] = s[o + i]

\* A slice, as one fact.
LEMMA SlicedAs ==
  ASSUME NEW S, NEW s, s \in Seq(S), NEW o \in Nat, NEW n \in Nat, NEW c, NEW d,
         c = o + 1, d = o + n, d <= Len(s), NEW q, q = SubSeq(s, c, d)
  PROVE  SliceOf(q, S, s, o, n)
BY Sliced DEF SliceOf

\* Two nodes and the parent's key between them.
TwoNodes(a, A, x, b, B) ==
  /\ a \in Seq(Keys) /\ A \in Seq(Nodes) /\ b \in Seq(Keys) /\ B \in Seq(Nodes)
  /\ x \in Keys /\ Len(A) = Len(a) + 1 /\ Len(B) = Len(b) + 1

LeftShift(a, A, x, b, B, n, L, LC, R, RC) ==
  /\ L = (a \o <<x>>) \o SubSeq(b, 1, n - 1) /\ LC = A \o SubSeq(B, 1, n)
  /\ R = SubSeq(b, n + 1, Len(b)) /\ RC = SubSeq(B, n + 1, Len(B))

RightShift(a, A, x, b, B, stay, L, LC, R, RC) ==
  /\ R = (SubSeq(a, stay + 2, Len(a)) \o <<x>>) \o b
  /\ RC = SubSeq(A, stay + 2, Len(A)) \o B
  /\ L = SubSeq(a, 1, stay) /\ LC = SubSeq(A, 1, stay + 1)

\* What shift_left_inner makes of the two nodes.
LEMMA ShiftedLeft ==
  ASSUME NEW a, NEW A, NEW b, NEW B, NEW x, TwoNodes(a, A, x, b, B),
         NEW n, n \in 1 .. Len(b),
         NEW L, NEW LC, NEW R, NEW RC, LeftShift(a, A, x, b, B, n, L, LC, R, RC)
  PROVE  /\ \E K, C : Redivided(a, A, x, b, B, L, LC, b[n], R, RC, K, C)
         /\ Len(L) = Len(a) + n /\ Len(R) = Len(b) - n
<1>0. /\ a \in Seq(Keys) /\ A \in Seq(Nodes) /\ b \in Seq(Keys) /\ B \in Seq(Nodes)
      /\ x \in Keys /\ Len(A) = Len(a) + 1 /\ Len(B) = Len(b) + 1
  BY DEF TwoNodes
<1>1. PICK m, k, q, Q, c, n1, M, N :
        /\ m = Len(a) /\ k = Len(b) /\ n1 = n - 1 /\ c = n + 1 /\ M = m + 1 /\ N = k + 1
        /\ q = SubSeq(b, 1, n1) /\ Q = SubSeq(B, 1, n)
  OBVIOUS
<1>2. /\ m \in Nat /\ k \in Nat /\ n \in 1 .. k /\ n \in Nat /\ n1 \in Nat
      /\ M \in Nat /\ N \in Nat /\ n \in 1 .. N
      /\ n1 <= k /\ k - n \in Nat /\ N - n \in Nat /\ n + (k - n) = k /\ n + (N - n) = N
      /\ 0 + 1 = 1 /\ 0 + n1 = n1 /\ 0 + n = n /\ 0 \in Nat /\ n <= N
      /\ (\A i \in 1 .. n1 : 0 + i = i) /\ (\A i \in 1 .. n : 0 + i = i)
  <2>1. m \in Nat /\ k \in Nat
    BY <1>0, <1>1
  <2>2. n \in 1 .. k
    BY <1>1
  <2>3. QED
    BY <1>1, <2>1, <2>2
<1>3. Len(a) = m /\ Len(b) = k /\ Len(A) = M /\ Len(B) = N
  BY <1>0, <1>1
<1>4. b[n] \in Keys
  BY <1>0, <1>2, <1>3
<1>5. /\ L = (a \o <<x>>) \o q /\ LC = A \o Q /\ R = SubSeq(b, c, k) /\ RC = SubSeq(B, c, N)
  BY <1>1, <1>3 DEF LeftShift
<1>6. q \in Seq(Keys) /\ Len(q) = n1 /\ \A i \in 1 .. n1 : q[i] = b[i]
  <2>1. q \in Seq(Keys) /\ Len(q) = n1 /\ \A i \in 1 .. n1 : q[i] = b[0 + i]
    BY <1>0, <1>1, <1>2, <1>3, Sliced
  <2>2. QED
    BY <1>2, <2>1
<1>7. Q \in Seq(Nodes) /\ Len(Q) = n /\ \A i \in 1 .. n : Q[i] = B[i]
  <2>1. Q \in Seq(Nodes) /\ Len(Q) = n /\ \A i \in 1 .. n : Q[i] = B[0 + i]
    BY <1>0, <1>1, <1>2, <1>3, Sliced
  <2>2. QED
    BY <1>2, <2>1
<1>8. R \in Seq(Keys) /\ Len(R) = k - n /\ \A i \in 1 .. k - n : R[i] = b[n + i]
  <2>1. k <= Len(b)
    BY <1>2, <1>3
  <2>2. QED
    BY <1>0, <1>1, <1>2, <1>5, <2>1, Sliced
<1>9. RC \in Seq(Nodes) /\ Len(RC) = N - n /\ \A i \in 1 .. N - n : RC[i] = B[n + i]
  <2>1. PICK e : e = N - n
    OBVIOUS
  <2>2. e \in Nat /\ c = n + 1 /\ N = n + e /\ N <= Len(B) /\ n \in Nat
    BY <1>1, <1>2, <1>3, <2>1
  <2>5. B \in Seq(Nodes) /\ RC = SubSeq(B, c, N)
    BY <1>0, <1>5
  <2>3. SliceOf(RC, Nodes, B, n, e)
    BY <2>2, <2>5, SlicedAs
  <2>4. QED
    BY <2>1, <2>3 DEF SliceOf
<1>10. /\ L \in Seq(Keys) /\ Len(L) = m + 1 + n1 /\ GluedKeys(L, a, m, x, q, n1)
  BY <1>0, <1>3, <1>5, <1>6, GluedKeySeqs
<1>11. /\ LC \in Seq(Nodes) /\ Len(LC) = M + n /\ GluedChildren(LC, A, M, Q, n)
  BY <1>0, <1>3, <1>5, <1>7, GluedChildSeqs
<1>12. PICK K, C : K = (a \o <<x>>) \o b /\ C = A \o B
  OBVIOUS
<1>13. K \in Seq(Keys) /\ Len(K) = m + 1 + k /\ GluedKeys(K, a, m, x, b, k)
  BY <1>0, <1>3, <1>12, GluedKeySeqs
<1>14. C \in Seq(Nodes) /\ Len(C) = M + N /\ GluedChildren(C, A, M, B, N)
  BY <1>0, <1>3, <1>12, GluedChildSeqs
<1>15. GluedKeys(K, L, m + n, b[n], R, k - n)
  <2>1. GluedKeys(L, a, m, x, q, n - 1) /\ \A i \in 1 .. n - 1 : q[i] = b[i]
    BY <1>1, <1>6, <1>10
  <2>2. QED
    BY <1>2, <1>8, <1>13, <2>1, CutLaterKeys
<1>16. GluedChildren(C, LC, M + n, RC, N - n)
  BY <1>2, <1>7, <1>9, <1>11, <1>14, CutLaterChildren
<1>17. /\ m + 1 + n1 = m + n /\ m + 1 + k = m + n + 1 + (k - n)
       /\ M + N = M + n + (N - n) /\ M + n = m + n + 1 /\ N - n = k - n + 1
  BY <1>1, <1>2
<1>18. Redivided(a, A, x, b, B, L, LC, b[n], R, RC, K, C)
  BY <1>3, <1>4, <1>8, <1>9, <1>10, <1>11, <1>13, <1>14, <1>15, <1>16, <1>17 DEF Redivided
<1>19. QED
  BY <1>3, <1>8, <1>10, <1>17, <1>18

\* What shift_right_inner makes of the two nodes.
LEMMA ShiftedRight ==
  ASSUME NEW a, NEW A, NEW b, NEW B, NEW x, TwoNodes(a, A, x, b, B),
         NEW n, n \in 1 .. Len(a), NEW stay, stay = Len(a) - n,
         NEW L, NEW LC, NEW R, NEW RC, RightShift(a, A, x, b, B, stay, L, LC, R, RC)
  PROVE  /\ \E K, C : Redivided(a, A, x, b, B, L, LC, a[stay + 1], R, RC, K, C)
         /\ Len(L) = Len(a) - n /\ Len(R) = Len(b) + n
<1>0. /\ a \in Seq(Keys) /\ A \in Seq(Nodes) /\ b \in Seq(Keys) /\ B \in Seq(Nodes)
      /\ x \in Keys /\ Len(A) = Len(a) + 1 /\ Len(B) = Len(b) + 1
  BY DEF TwoNodes
<1>1. PICK m, k, q, Q, c, n1, M, N, s1 :
        /\ m = Len(a) /\ k = Len(b) /\ n1 = n - 1 /\ c = stay + 2 /\ M = m + 1 /\ N = k + 1
        /\ s1 = stay + 1 /\ q = SubSeq(a, c, m) /\ Q = SubSeq(A, c, M)
  OBVIOUS
<1>2. /\ m \in Nat /\ k \in Nat /\ n \in 1 .. m /\ n \in Nat /\ n1 \in Nat
      /\ M \in Nat /\ N \in Nat /\ n \in 1 .. M
      /\ stay \in Nat /\ s1 \in Nat /\ stay = m - n /\ s1 = M - n /\ s1 = m - n + 1
      /\ c = s1 + 1 /\ s1 + n1 = m /\ s1 + n = M /\ s1 \in 1 .. m
      /\ 0 + 1 = 1 /\ 0 + stay = stay /\ 0 + s1 = s1 /\ 0 \in Nat /\ stay <= m /\ s1 <= M
      /\ (\A i \in 1 .. stay : 0 + i = i) /\ (\A i \in 1 .. s1 : 0 + i = i)
  <2>1. m \in Nat /\ k \in Nat
    BY <1>0, <1>1
  <2>2. n \in 1 .. m /\ stay = m - n
    BY <1>1
  <2>3. QED
    BY <1>1, <2>1, <2>2
<1>3. Len(a) = m /\ Len(b) = k /\ Len(A) = M /\ Len(B) = N
  BY <1>0, <1>1
<1>4. a[s1] \in Keys
  BY <1>0, <1>2, <1>3
<1>5. /\ R = (q \o <<x>>) \o b /\ RC = Q \o B /\ L = SubSeq(a, 1, stay) /\ LC = SubSeq(A, 1, s1)
  BY <1>1, <1>3 DEF RightShift
<1>6. q \in Seq(Keys) /\ Len(q) = n1 /\ \A i \in 1 .. n1 : q[i] = a[s1 + i]
  <2>1. /\ c = s1 + 1 /\ m = s1 + n1 /\ m <= Len(a) /\ s1 \in Nat /\ n1 \in Nat
        /\ q = SubSeq(a, c, m) /\ a \in Seq(Keys)
    BY <1>0, <1>1, <1>2, <1>3
  <2>2. SliceOf(q, Keys, a, s1, n1)
    BY <2>1, SlicedAs
  <2>3. QED
    BY <2>2 DEF SliceOf
<1>7. Q \in Seq(Nodes) /\ Len(Q) = n /\ \A i \in 1 .. n : Q[i] = A[s1 + i]
  <2>1. /\ c = s1 + 1 /\ M = s1 + n /\ M <= Len(A) /\ s1 \in Nat /\ n \in Nat
        /\ Q = SubSeq(A, c, M) /\ A \in Seq(Nodes)
    BY <1>0, <1>1, <1>2, <1>3
  <2>2. SliceOf(Q, Nodes, A, s1, n)
    BY <2>1, SlicedAs
  <2>3. QED
    BY <2>2 DEF SliceOf
<1>8. L \in Seq(Keys) /\ Len(L) = stay /\ \A i \in 1 .. stay : L[i] = a[i]
  <2>1. L \in Seq(Keys) /\ Len(L) = stay /\ \A i \in 1 .. stay : L[i] = a[0 + i]
    BY <1>0, <1>2, <1>3, <1>5, Sliced
  <2>2. QED
    BY <1>2, <2>1
<1>9. LC \in Seq(Nodes) /\ Len(LC) = s1 /\ \A i \in 1 .. s1 : LC[i] = A[i]
  <2>1. LC \in Seq(Nodes) /\ Len(LC) = s1 /\ \A i \in 1 .. s1 : LC[i] = A[0 + i]
    BY <1>0, <1>2, <1>3, <1>5, Sliced
  <2>2. QED
    BY <1>2, <2>1
<1>10. /\ R \in Seq(Keys) /\ Len(R) = n1 + 1 + k /\ GluedKeys(R, q, n1, x, b, k)
  BY <1>0, <1>3, <1>5, <1>6, GluedKeySeqs
<1>11. /\ RC \in Seq(Nodes) /\ Len(RC) = n + N /\ GluedChildren(RC, Q, n, B, N)
  BY <1>0, <1>3, <1>5, <1>7, GluedChildSeqs
<1>12. PICK K, C : K = (a \o <<x>>) \o b /\ C = A \o B
  OBVIOUS
<1>13. K \in Seq(Keys) /\ Len(K) = m + 1 + k /\ GluedKeys(K, a, m, x, b, k)
  BY <1>0, <1>3, <1>12, GluedKeySeqs
<1>14. C \in Seq(Nodes) /\ Len(C) = M + N /\ GluedChildren(C, A, M, B, N)
  BY <1>0, <1>3, <1>12, GluedChildSeqs
<1>15. GluedKeys(K, L, m - n, a[m - n + 1], R, n + k)
  <2>1. GluedKeys(R, q, n - 1, x, b, k)
    BY <1>1, <1>10
  <2>2. \A i \in 1 .. n - 1 : q[i] = a[m - n + 1 + i]
    BY <1>1, <1>2, <1>6
  <2>3. \A i \in 1 .. m - n : L[i] = a[i]
    BY <1>2, <1>8
  <2>4. m \in Nat /\ k \in Nat /\ n \in 1 .. m
    BY <1>2
  <2>5. QED
    BY <1>13, <2>1, <2>2, <2>3, <2>4, CutEarlierKeys
<1>16. GluedChildren(C, LC, M - n, RC, n + N)
  <2>1. /\ \A i \in 1 .. n : Q[i] = A[M - n + i]
        /\ \A i \in 1 .. M - n : LC[i] = A[i]
    BY <1>2, <1>7, <1>9
  <2>2. QED
    BY <1>2, <1>11, <1>14, <2>1, CutEarlierChildren
<1>17. /\ n1 + 1 + k = n + k /\ m + 1 + k = stay + 1 + (n + k)
       /\ M + N = s1 + (n + N) /\ s1 = stay + 1 /\ n + N = n + k + 1 /\ k + n = n + k
  BY <1>1, <1>2
<1>18. GluedKeys(K, L, stay, a[s1], R, n + k) /\ GluedChildren(C, LC, s1, RC, n + N)
  BY <1>2, <1>15, <1>16
<1>19. Redivided(a, A, x, b, B, L, LC, a[s1], R, RC, K, C)
  BY <1>0, <1>3, <1>4, <1>8, <1>9, <1>10, <1>11, <1>13, <1>14, <1>17, <1>18 DEF Redivided
<1>20. a[s1] = a[stay + 1]
  BY <1>1
<1>21. QED
  BY <1>2, <1>3, <1>8, <1>10, <1>17, <1>19, <1>20

\* The heap g is h with other keys and children in the inner nodes a and b, and
\* other keys in p.
Shifted(g, h, a, p, b, Ka, Ca, Kp, Kb, Cb) ==
  /\ HeapTyped(g) /\ DOMAIN g = DOMAIN h
  /\ g[a] = InnerNode(h[a].level, Ka, Ca) /\ g[b] = InnerNode(h[b].level, Kb, Cb)
  /\ g[p] = InnerNode(h[p].level, Kp, h[p].childid)
  /\ Kp \in Seq(Keys) /\ Len(Kp) = Len(h[p].slotkey)
  /\ \A n \in DOMAIN h : n # a /\ n # b /\ n # p => g[n] = h[n]
  /\ \A n \in DOMAIN h : g[n].level = h[n].level

\* Other keys and children in an inner node.
NodeGiven(g, h, a, K, C) ==
  /\ HeapTyped(g) /\ DOMAIN g = DOMAIN h /\ g[a] = InnerNode(h[a].level, K, C)
  /\ \A n \in DOMAIN h : n # a => g[n] = h[n]

\* A node's fields as the shifts write them.
LEMMA GiveNode ==
  ASSUME NEW h, HeapTyped(h), NEW a \in DOMAIN h, h[a] \in InnerNodes,
         NEW K, K \in Seq(Keys), NEW C, C \in Seq(Nodes), NEW e, NEW g,
         e = [h EXCEPT ![a].slotkey = K], g = [e EXCEPT ![a].childid = C]
  PROVE  NodeGiven(g, h, a, K, C)
<1>1. PICK u, c, h1 : /\ u = h[a].level /\ c = InnerNode(u, K, C) /\ h1 = [h EXCEPT ![a] = c]
  OBVIOUS
<1>2. /\ u \in Nat \ {0} /\ a \in Nodes /\ IsFunction(h) /\ h[a].childid \in Seq(Nodes)
  BY <1>1, InnerFields DEF HeapTyped
<1>3. c \in InnerNodes
  BY <1>1, <1>2, NodeRecords
<1>4. Placed(h1, h, a, c) /\ HeapTyped(h1)
  <2>1. Placed(h1, h, a, c)
    BY <1>1, <1>2, ChangedNode
  <2>2. QED
    BY <1>2, <1>3, <2>1, PlacedTyped DEF IsNode
<1>5. DOMAIN h1 = DOMAIN h /\ h1[a] = c /\ \A n \in DOMAIN h : n # a => h1[n] = h[n]
  BY <1>4 DEF Placed
<1>6. g = h1
  <2>1. e = [h EXCEPT ![a] = [h[a] EXCEPT !.slotkey = K]]
    OBVIOUS
  <2>2. e[a] = InnerNode(u, K, h[a].childid) /\ e[a] \in InnerNodes
    <3>1. e[a] = [h[a] EXCEPT !.slotkey = K]
      BY <2>1
    <3>2. e[a] = InnerNode(u, K, h[a].childid)
      BY <1>1, <3>1, InnerUpdates
    <3>3. QED
      BY <1>2, <3>2, NodeRecords
  <2>3. [e[a] EXCEPT !.childid = C] = c
    <3>1. e[a].level = u /\ e[a].slotkey = K
      BY <2>2, GivenFields
    <3>2. QED
      BY <1>1, <2>2, <3>1, InnerUpdates
  <2>4. g = [e EXCEPT ![a] = [e[a] EXCEPT !.childid = C]]
    OBVIOUS
  <2>5. QED
    BY <1>1, <2>1, <2>3, <2>4
<1>7. QED
  BY <1>1, <1>4, <1>5, <1>6 DEF NodeGiven

\* The shifts write three nodes.
LEMMA ShiftedNodes ==
  ASSUME NEW h, HeapTyped(h), NEW a \in DOMAIN h, NEW p \in DOMAIN h, NEW b \in DOMAIN h,
         a # b, a # p, b # p, h[a] \in InnerNodes, h[p] \in InnerNodes, h[b] \in InnerNodes,
         NEW Ka, Ka \in Seq(Keys), NEW Ca, Ca \in Seq(Nodes),
         NEW Kb, Kb \in Seq(Keys), NEW Cb, Cb \in Seq(Nodes),
         NEW i, i \in 1 .. Len(h[p].slotkey), NEW y, y \in Keys, NEW g,
         g = [h EXCEPT ![a].slotkey = Ka, ![a].childid = Ca, ![p].slotkey[i] = y,
                       ![b].slotkey = Kb, ![b].childid = Cb]
  PROVE  Shifted(g, h, a, p, b, Ka, Ca, [h[p].slotkey EXCEPT ![i] = y], Kb, Cb)
<1>1. PICK e1, e2, e3, e4, e5, Kp :
        /\ e1 = [h EXCEPT ![a].slotkey = Ka] /\ e2 = [e1 EXCEPT ![a].childid = Ca]
        /\ e3 = [e2 EXCEPT ![p].slotkey[i] = y]
        /\ e4 = [e3 EXCEPT ![b].slotkey = Kb] /\ e5 = [e4 EXCEPT ![b].childid = Cb]
        /\ Kp = [h[p].slotkey EXCEPT ![i] = y]
  OBVIOUS
<1>2. g = e5
  BY <1>1
<1>3. NodeGiven(e2, h, a, Ka, Ca)
  BY <1>1, GiveNode
<1>4. /\ HeapTyped(e2) /\ DOMAIN e2 = DOMAIN h /\ e2[a] = InnerNode(h[a].level, Ka, Ca)
      /\ e2[p] = h[p] /\ e2[b] = h[b] /\ \A n \in DOMAIN h : n # a => e2[n] = h[n]
  BY <1>3 DEF NodeGiven
<1>5. KeySet(e3, e2, p, i, y, Kp)
  <2>1. p \in DOMAIN e2 /\ e2[p] \in InnerNodes /\ i \in 1 .. Len(e2[p].slotkey)
    BY <1>4
  <2>2. KeySet([e2 EXCEPT ![p].slotkey[i] = y], e2, p, i, y, [e2[p].slotkey EXCEPT ![i] = y])
    BY <1>4, <2>1, SetKey
  <2>3. QED
    BY <1>1, <1>4, <2>2
<1>6. /\ HeapTyped(e3) /\ DOMAIN e3 = DOMAIN h
      /\ e3[p] = InnerNode(h[p].level, Kp, h[p].childid)
      /\ Kp \in Seq(Keys) /\ Len(Kp) = Len(h[p].slotkey)
      /\ e3[a] = InnerNode(h[a].level, Ka, Ca) /\ e3[b] = h[b]
      /\ \A n \in DOMAIN h : n # a /\ n # p => e3[n] = h[n]
  BY <1>4, <1>5 DEF KeySet
<1>7. NodeGiven(e5, e3, b, Kb, Cb)
  <2>1. b \in DOMAIN e3 /\ e3[b] \in InnerNodes /\ HeapTyped(e3)
    BY <1>6
  <2>2. e4 = [e3 EXCEPT ![b].slotkey = Kb] /\ e5 = [e4 EXCEPT ![b].childid = Cb]
    BY <1>1
  <2>3. QED
    BY <2>1, <2>2, GiveNode
<1>8. /\ HeapTyped(e5) /\ DOMAIN e5 = DOMAIN h /\ e5[b] = InnerNode(h[b].level, Kb, Cb)
      /\ e5[a] = InnerNode(h[a].level, Ka, Ca) /\ e5[p] = InnerNode(h[p].level, Kp, h[p].childid)
      /\ \A n \in DOMAIN h : n # a /\ n # b /\ n # p => e5[n] = h[n]
  BY <1>6, <1>7 DEF NodeGiven
<1>9. \A n \in DOMAIN h : e5[n].level = h[n].level
  <2>1. e5[a].level = h[a].level
    BY <1>8, GivenFields
  <2>2. e5[b].level = h[b].level
    BY <1>8, GivenFields
  <2>3. e5[p].level = h[p].level
    BY <1>8, GivenFields
  <2>4. QED
    BY <1>8, <2>1, <2>2, <2>3
<1>10. Shifted(g, h, a, p, b, Ka, Ca, Kp, Kb, Cb)
  BY <1>2, <1>6, <1>8, <1>9 DEF Shifted
<1>11. QED
  BY <1>1, <1>10

\* What is known of the tree after keys moved from a node to its neighbour.
NodesShifted(l, r, s, o, Kl, Cl, y, Kr, Cr, K, C) ==
  /\ Shifted(heap', heap, l, parent, r, Kl, Cl, [heap[parent].slotkey EXCEPT ![s + 1] = y], Kr, Cr)
  /\ Redivided(heap[l].slotkey, heap[l].childid, heap[parent].slotkey[s + 1],
               heap[r].slotkey, heap[r].childid, Kl, Cl, y, Kr, Cr, K, C)
  /\ Len(Kl) \in Nat /\ Len(Kl) <= innerslotmax /\ Len(Kl) >= innerslotmax \div 2
  /\ Len(Kr) \in Nat /\ Len(Kr) <= innerslotmax /\ Len(Kr) >= innerslotmax \div 2

\* What moves is half of the difference.
LEMMA HalfMoved ==
  ASSUME NEW a \in Nat, NEW b \in Nat, a = innerslotmax \div 2 - 1,
         ~(b <= innerslotmax \div 2), b <= innerslotmax
  PROVE  LET n == (b - a) \div 2
         IN /\ n \in 1 .. b /\ n \in Nat
            /\ a + n <= innerslotmax /\ a + n >= innerslotmax \div 2
            /\ b - n <= innerslotmax /\ b - n >= innerslotmax \div 2
<1>1. PICK m, h : m = innerslotmax /\ h = innerslotmax \div 2
  OBVIOUS
<1>2. m \in Nat /\ h \in Nat /\ h >= 1 /\ 2 * h <= m /\ m <= 2 * h + 1
  BY <1>1, Half
<1>3. a = h - 1 /\ b > h /\ b <= m
  BY <1>1, <1>2
<1>4. PICK d, n : d = b - a /\ n = d \div 2
  OBVIOUS
<1>5. d \in Nat /\ d >= 2
  BY <1>2, <1>3, <1>4
<1>6. n \in Nat /\ 2 * n <= d /\ d <= 2 * n + 1
  BY <1>4, <1>5
<1>7. /\ n \in 1 .. b /\ a + n <= m /\ a + n >= h /\ b - n <= m /\ b - n >= h
  BY <1>2, <1>3, <1>4, <1>5, <1>6
<1>8. QED
  BY <1>1, <1>4, <1>6, <1>7

SomeShift(l, r, s, o) ==
  \E Kl, Cl, y, Kr, Cr, K, C : NodesShifted(l, r, s, o, Kl, Cl, y, Kr, Cr, K, C)

\* shift_left_inner writes them.
LEMMA ShiftLeftHeap ==
  ASSUME ShapeInv, pc = "balance", underflow, ~onlyNode,
         NEW l, NEW r, NEW s, BesideIt(l, r, s, r), l = cur, ~isfew(r),
         heap' = shift_left_inner(l, r, parent, s)
  PROVE  SomeShift(l, r, s, r)
<1>1. TypeOK /\ stack # <<>> /\ cur \in Inner /\ cur \in DOMAIN heap /\ heap[cur] \in InnerNodes
      /\ slotuse(cur) = Len(heap[cur].slotkey)
      /\ Len(heap[cur].childid) = Len(heap[cur].slotkey) + 1
  BY AtBalance, AtInner
<1>2. Len(heap[cur].slotkey) = innerslotmax \div 2 - 1 /\ Len(heap[cur].slotkey) \in Nat
  BY BalancingCases, Half
<1>3. /\ r \in Inner /\ r \in DOMAIN heap /\ r # cur /\ r # parent /\ cur # parent
      /\ Len(heap[r].slotkey) \in Nat /\ slotuse(r) = Len(heap[r].slotkey)
      /\ Len(heap[r].slotkey) <= innerslotmax
      /\ Len(heap[r].childid) = Len(heap[r].slotkey) + 1
      /\ s + 1 \in 1 .. Len(heap[parent].slotkey)
      /\ heap[parent].slotkey[s + 1] \in Keys
      /\ parent \in Inner /\ parent \in DOMAIN heap
  BY BesideNodes
<1>4. HeapTyped(heap) /\ heap[r] \in InnerNodes /\ heap[parent] \in InnerNodes
  BY <1>1, <1>3, HeapNow, NodeKinds
<1>5. PICK a, A, b, B, x, n, p :
        /\ a = heap[l].slotkey /\ A = heap[l].childid /\ b = heap[r].slotkey
        /\ B = heap[r].childid /\ x = heap[parent].slotkey[s + 1]
        /\ n = (Len(b) - Len(a)) \div 2 /\ p = parent
  OBVIOUS
<1>6. /\ a \in Seq(Keys) /\ b \in Seq(Keys) /\ A \in Seq(Nodes) /\ B \in Seq(Nodes)
      /\ x \in Keys
  BY <1>1, <1>3, <1>4, <1>5, InnerFields
<1>7. TwoNodes(a, A, x, b, B)
  BY <1>1, <1>3, <1>5, <1>6 DEF TwoNodes
<1>8. /\ n \in 1 .. Len(b) /\ n \in Nat
      /\ Len(a) + n <= innerslotmax /\ Len(a) + n >= innerslotmax \div 2
      /\ Len(b) - n <= innerslotmax /\ Len(b) - n >= innerslotmax \div 2
  <2>1. PICK la, lb : la = Len(a) /\ lb = Len(b)
    OBVIOUS
  <2>2. /\ la \in Nat /\ lb \in Nat /\ la = innerslotmax \div 2 - 1
        /\ ~(lb <= innerslotmax \div 2) /\ lb <= innerslotmax /\ n = (lb - la) \div 2
    BY <1>2, <1>3, <1>5, <2>1 DEF isfew
  <2>3. QED
    BY <2>1, <2>2, HalfMoved
<1>9. PICK L, LC, R, RC, i, y :
        /\ L = (a \o <<x>>) \o SubSeq(b, 1, n - 1) /\ LC = A \o SubSeq(B, 1, n)
        /\ R = SubSeq(b, n + 1, Len(b)) /\ RC = SubSeq(B, n + 1, Len(B))
        /\ i = s + 1 /\ y = b[n]
  OBVIOUS
<1>10. LeftShift(a, A, x, b, B, n, L, LC, R, RC)
  BY <1>9 DEF LeftShift
<1>11. PICK K, C : Redivided(a, A, x, b, B, L, LC, y, R, RC, K, C)
  BY <1>7, <1>8, <1>9, <1>10, ShiftedLeft
<1>12. Len(L) = Len(a) + n /\ Len(R) = Len(b) - n
  BY <1>7, <1>8, <1>10, ShiftedLeft
<1>13. L \in Seq(Keys) /\ R \in Seq(Keys) /\ LC \in Seq(Nodes) /\ RC \in Seq(Nodes) /\ y \in Keys
  BY <1>11 DEF Redivided
<1>14. heap' = [heap EXCEPT ![l].slotkey = L, ![l].childid = LC, ![p].slotkey[i] = y,
                            ![r].slotkey = R, ![r].childid = RC]
  <2>1. slotuse(r) = Len(b) /\ slotuse(l) = Len(a)
    BY <1>1, <1>3, <1>5
  <2>2. heap' = [heap EXCEPT ![l].slotkey = (@ \o <<x>>) \o SubSeq(b, 1, n - 1),
                             ![l].childid = @ \o SubSeq(B, 1, n), ![p].slotkey[i] = y,
                             ![r].slotkey = SubSeq(@, n + 1, Len(b)),
                             ![r].childid = SubSeq(@, n + 1, Len(B))]
    BY <1>5, <1>9, <2>1 DEF shift_left_inner
  <2>3. [heap EXCEPT ![l].slotkey = (@ \o <<x>>) \o SubSeq(b, 1, n - 1),
                     ![l].childid = @ \o SubSeq(B, 1, n), ![p].slotkey[i] = y,
                     ![r].slotkey = SubSeq(@, n + 1, Len(b)),
                     ![r].childid = SubSeq(@, n + 1, Len(B))]
        = [heap EXCEPT ![l].slotkey = (a \o <<x>>) \o SubSeq(b, 1, n - 1),
                       ![l].childid = A \o SubSeq(B, 1, n), ![p].slotkey[i] = y,
                       ![r].slotkey = SubSeq(b, n + 1, Len(b)),
                       ![r].childid = SubSeq(B, n + 1, Len(B))]
    BY <1>3, <1>5
  <2>4. QED
    BY <1>9, <2>2, <2>3
<1>15. Shifted(heap', heap, l, p, r, L, LC, [heap[p].slotkey EXCEPT ![i] = y], R, RC)
  <2>1. /\ l \in DOMAIN heap /\ p \in DOMAIN heap /\ r \in DOMAIN heap
        /\ l # r /\ l # p /\ r # p /\ heap[l] \in InnerNodes /\ heap[p] \in InnerNodes
        /\ heap[r] \in InnerNodes /\ i \in 1 .. Len(heap[p].slotkey)
    BY <1>1, <1>3, <1>4, <1>5, <1>9
  <2>2. PICK g : g = heap'
    OBVIOUS
  <2>3. Shifted(g, heap, l, p, r, L, LC, [heap[p].slotkey EXCEPT ![i] = y], R, RC)
    BY <1>4, <1>13, <1>14, <2>1, <2>2, ShiftedNodes
  <2>4. QED
    BY <2>2, <2>3
<1>16. /\ Len(L) \in Nat /\ Len(L) <= innerslotmax /\ Len(L) >= innerslotmax \div 2
       /\ Len(R) \in Nat /\ Len(R) <= innerslotmax /\ Len(R) >= innerslotmax \div 2
  BY <1>8, <1>12, <1>13
<1>17. NodesShifted(l, r, s, r, L, LC, y, R, RC, K, C)
  BY <1>5, <1>9, <1>11, <1>15, <1>16 DEF NodesShifted
<1>18. QED
  BY <1>17 DEF SomeShift

\* shift_right_inner writes them.
LEMMA ShiftRightHeap ==
  ASSUME ShapeInv, pc = "balance", underflow, ~onlyNode,
         NEW l, NEW r, NEW s, BesideIt(l, r, s, l), r = cur, ~isfew(l),
         heap' = shift_right_inner(l, r, parent, s)
  PROVE  SomeShift(l, r, s, l)
<1>1. TypeOK /\ stack # <<>> /\ cur \in Inner /\ cur \in DOMAIN heap /\ heap[cur] \in InnerNodes
      /\ slotuse(cur) = Len(heap[cur].slotkey)
      /\ Len(heap[cur].childid) = Len(heap[cur].slotkey) + 1
  BY AtBalance, AtInner
<1>2. Len(heap[cur].slotkey) = innerslotmax \div 2 - 1 /\ Len(heap[cur].slotkey) \in Nat
  BY BalancingCases, Half
<1>3. /\ l \in Inner /\ l \in DOMAIN heap /\ l # cur /\ l # parent /\ cur # parent
      /\ Len(heap[l].slotkey) \in Nat /\ slotuse(l) = Len(heap[l].slotkey)
      /\ Len(heap[l].slotkey) <= innerslotmax
      /\ Len(heap[l].childid) = Len(heap[l].slotkey) + 1
      /\ s + 1 \in 1 .. Len(heap[parent].slotkey)
      /\ heap[parent].slotkey[s + 1] \in Keys
      /\ parent \in Inner /\ parent \in DOMAIN heap
  BY BesideNodes
<1>4. HeapTyped(heap) /\ heap[l] \in InnerNodes /\ heap[parent] \in InnerNodes
  BY <1>1, <1>3, HeapNow, NodeKinds
<1>5. PICK a, A, b, B, x, n, p, stay :
        /\ a = heap[l].slotkey /\ A = heap[l].childid /\ b = heap[r].slotkey
        /\ B = heap[r].childid /\ x = heap[parent].slotkey[s + 1]
        /\ n = (Len(a) - Len(b)) \div 2 /\ p = parent /\ stay = Len(a) - n
  OBVIOUS
<1>6. /\ a \in Seq(Keys) /\ b \in Seq(Keys) /\ A \in Seq(Nodes) /\ B \in Seq(Nodes)
      /\ x \in Keys
  BY <1>1, <1>3, <1>4, <1>5, InnerFields
<1>7. TwoNodes(a, A, x, b, B)
  BY <1>1, <1>3, <1>5, <1>6 DEF TwoNodes
<1>8. /\ n \in 1 .. Len(a) /\ n \in Nat
      /\ Len(b) + n <= innerslotmax /\ Len(b) + n >= innerslotmax \div 2
      /\ Len(a) - n <= innerslotmax /\ Len(a) - n >= innerslotmax \div 2
  <2>1. PICK la, lb : la = Len(b) /\ lb = Len(a)
    OBVIOUS
  <2>2. /\ la \in Nat /\ lb \in Nat /\ la = innerslotmax \div 2 - 1
        /\ ~(lb <= innerslotmax \div 2) /\ lb <= innerslotmax /\ n = (lb - la) \div 2
    BY <1>2, <1>3, <1>5, <2>1 DEF isfew
  <2>3. QED
    BY <2>1, <2>2, HalfMoved
<1>9. PICK L, LC, R, RC, i, y :
        /\ R = (SubSeq(a, stay + 2, Len(a)) \o <<x>>) \o b
        /\ RC = SubSeq(A, stay + 2, Len(A)) \o B
        /\ L = SubSeq(a, 1, stay) /\ LC = SubSeq(A, 1, stay + 1)
        /\ i = s + 1 /\ y = a[stay + 1]
  OBVIOUS
<1>10. RightShift(a, A, x, b, B, stay, L, LC, R, RC)
  BY <1>9 DEF RightShift
<1>11. PICK K, C : Redivided(a, A, x, b, B, L, LC, y, R, RC, K, C)
  <2>1. stay = Len(a) - n /\ n \in 1 .. Len(a)
    BY <1>5, <1>8
  <2>2. \E K, C : Redivided(a, A, x, b, B, L, LC, a[stay + 1], R, RC, K, C)
    BY <1>7, <1>10, <2>1, ShiftedRight
  <2>3. QED
    BY <1>9, <2>2
<1>12. Len(L) = Len(a) - n /\ Len(R) = Len(b) + n
  <2>1. stay = Len(a) - n /\ n \in 1 .. Len(a)
    BY <1>5, <1>8
  <2>2. Len(L) = Len(a) - n
    BY <1>7, <1>10, <2>1, ShiftedRight
  <2>3. Len(R) = Len(b) + n
    <3>1. /\ R \in Seq(Keys) /\ Len(K) = Len(a) + 1 + Len(b) /\ Len(K) = Len(L) + 1 + Len(R)
      BY <1>11 DEF Redivided
    <3>2. Len(R) \in Nat /\ Len(a) \in Nat /\ Len(b) \in Nat /\ n \in Nat
      BY <1>6, <1>8, <3>1
    <3>3. QED
      BY <2>2, <3>1, <3>2
  <2>4. QED
    BY <2>2, <2>3
<1>13. L \in Seq(Keys) /\ R \in Seq(Keys) /\ LC \in Seq(Nodes) /\ RC \in Seq(Nodes) /\ y \in Keys
  BY <1>11 DEF Redivided
<1>14. heap' = [heap EXCEPT ![r].slotkey = R, ![r].childid = RC, ![p].slotkey[i] = y,
                            ![l].slotkey = L, ![l].childid = LC]
  <2>1. slotuse(l) = Len(a) /\ slotuse(r) = Len(b)
    BY <1>1, <1>3, <1>5
  <2>2. heap' = [heap EXCEPT ![r].slotkey = (SubSeq(a, stay + 2, Len(a)) \o <<x>>) \o @,
                             ![r].childid = SubSeq(A, stay + 2, Len(A)) \o @,
                             ![p].slotkey[i] = y,
                             ![l].slotkey = SubSeq(@, 1, stay),
                             ![l].childid = SubSeq(@, 1, stay + 1)]
    BY <1>5, <1>9, <2>1 DEF shift_right_inner
  <2>3. [heap EXCEPT ![r].slotkey = (SubSeq(a, stay + 2, Len(a)) \o <<x>>) \o @,
                     ![r].childid = SubSeq(A, stay + 2, Len(A)) \o @,
                     ![p].slotkey[i] = y,
                     ![l].slotkey = SubSeq(@, 1, stay),
                     ![l].childid = SubSeq(@, 1, stay + 1)]
        = [heap EXCEPT ![r].slotkey = (SubSeq(a, stay + 2, Len(a)) \o <<x>>) \o b,
                       ![r].childid = SubSeq(A, stay + 2, Len(A)) \o B,
                       ![p].slotkey[i] = y,
                       ![l].slotkey = SubSeq(a, 1, stay),
                       ![l].childid = SubSeq(A, 1, stay + 1)]
    BY <1>3, <1>5
  <2>4. QED
    BY <1>9, <2>2, <2>3
<1>15. Shifted(heap', heap, r, p, l, R, RC, [heap[p].slotkey EXCEPT ![i] = y], L, LC)
  <2>1. /\ l \in DOMAIN heap /\ p \in DOMAIN heap /\ r \in DOMAIN heap
        /\ r # l /\ l # p /\ r # p /\ heap[l] \in InnerNodes /\ heap[p] \in InnerNodes
        /\ heap[r] \in InnerNodes /\ i \in 1 .. Len(heap[p].slotkey)
    BY <1>1, <1>3, <1>4, <1>5, <1>9
  <2>2. PICK g : g = heap'
    OBVIOUS
  <2>3. Shifted(g, heap, r, p, l, R, RC, [heap[p].slotkey EXCEPT ![i] = y], L, LC)
    BY <1>4, <1>13, <1>14, <2>1, <2>2, ShiftedNodes
  <2>4. QED
    BY <2>2, <2>3
<1>16. Shifted(heap', heap, l, p, r, L, LC, [heap[p].slotkey EXCEPT ![i] = y], R, RC)
  BY <1>15 DEF Shifted
<1>17. /\ Len(L) \in Nat /\ Len(L) <= innerslotmax /\ Len(L) >= innerslotmax \div 2
       /\ Len(R) \in Nat /\ Len(R) <= innerslotmax /\ Len(R) >= innerslotmax \div 2
  BY <1>8, <1>12, <1>13
<1>18. NodesShifted(l, r, s, l, L, LC, y, R, RC, K, C)
  BY <1>5, <1>9, <1>11, <1>16, <1>17 DEF NodesShifted
<1>19. QED
  BY <1>18 DEF SomeShift

\* Nothing is gone and the kinds of the nodes stay.
LEMMA ShiftKinds ==
  ASSUME ShapeInv, pc = "balance", underflow, ~onlyNode, fromInner,
         UNCHANGED <<root, stats, result>>,
         NEW l, NEW r, NEW s, NEW o, BesideIt(l, r, s, o),
         NEW Kl, NEW Cl, NEW y, NEW Kr, NEW Cr, NEW K, NEW C,
         NodesShifted(l, r, s, o, Kl, Cl, y, Kr, Cr, K, C)
  PROVE  /\ HeapTyped(heap') /\ DOMAIN heap' = DOMAIN heap
         /\ \A n \in DOMAIN heap : heap'[n].level = heap[n].level
         /\ \A n \in DOMAIN heap : n # l /\ n # r /\ n # parent => heap'[n] = heap[n]
         /\ heap'[l] = InnerNode(heap[l].level, Kl, Cl)
         /\ heap'[r] = InnerNode(heap[r].level, Kr, Cr)
         /\ heap'[parent].childid = heap[parent].childid
         /\ Len(heap'[parent].slotkey) = Len(heap[parent].slotkey)
         /\ gone' = Null /\ Leaves' = Leaves /\ Inner' = Inner
         /\ LiveInner' = Inner /\ LiveLeaves' = Leaves /\ Live' = DOMAIN heap
         /\ \A n \in Leaves : heap'[n] = heap[n]
         /\ \A n \in Inner : n # l /\ n # r => Alike(n) /\ n \in DOMAIN heap
<1>1. PICK p, Kp : /\ p = parent /\ Shifted(heap', heap, l, p, r, Kl, Cl, Kp, Kr, Cr)
  BY DEF NodesShifted
<1>2. /\ HeapTyped(heap') /\ DOMAIN heap' = DOMAIN heap
      /\ \A n \in DOMAIN heap : heap'[n].level = heap[n].level
      /\ \A n \in DOMAIN heap : n # l /\ n # r /\ n # p => heap'[n] = heap[n]
      /\ heap'[l] = InnerNode(heap[l].level, Kl, Cl)
      /\ heap'[r] = InnerNode(heap[r].level, Kr, Cr)
      /\ heap'[p] = InnerNode(heap[p].level, Kp, heap[p].childid)
      /\ Len(Kp) = Len(heap[p].slotkey)
  BY <1>1 DEF Shifted
<1>3. heap'[p].childid = heap[p].childid /\ heap'[p].slotkey = Kp
  BY <1>2, GivenFields
<1>4. gone = Null /\ ~fixmerge
  BY AtBalance
<1>5. TypeOK /\ cur \in Inner
  BY AtBalance, AtInner
<1>6. o \in Inner /\ p \in Inner /\ ((l = o /\ r = cur) \/ (l = cur /\ r = o))
  BY <1>1, BesideNodes
<1>7. Leaves' = Leaves /\ Inner' = Inner
  BY <1>2, SameKinds
<1>8. gone' = Null
  BY <1>4 DEF gone, result
<1>9. Null \notin DOMAIN heap /\ \A n \in Leaves : n \in DOMAIN heap /\ n \notin Inner
  BY <1>5, NodeKinds
<1>10. LiveInner' = Inner /\ LiveLeaves' = Leaves /\ Live' = DOMAIN heap
  <2>1. Null \notin Inner /\ Null \notin Leaves
    BY <1>5, NodeKinds
  <2>2. QED
    BY <1>2, <1>7, <1>8, <1>9, <2>1 DEF LiveInner, LiveLeaves, Live
<1>11. \A n \in Leaves : heap'[n] = heap[n]
  BY <1>2, <1>5, <1>6, <1>9
<1>12. ASSUME NEW n \in Inner, n # l, n # r PROVE Alike(n) /\ n \in DOMAIN heap
  <2>1. n \in DOMAIN heap
    BY <1>5, NodeKinds
  <2>2. CASE n = p
    BY <1>2, <1>3, <2>1, <2>2 DEF Alike
  <2>3. CASE n # p
    BY <1>2, <1>12, <2>1, <2>3 DEF Alike
  <2>4. QED
    BY <2>1, <2>2, <2>3
<1>13. QED
  BY <1>1, <1>2, <1>3, <1>7, <1>8, <1>10, <1>11, <1>12

\* The children of the balanced nodes are linked once.
LEMMA ShiftLinks ==
  ASSUME ShapeInv, pc = "balance", underflow, ~onlyNode, fromInner,
         UNCHANGED <<root, stats, result>>,
         NEW l, NEW r, NEW s, NEW o, BesideIt(l, r, s, o),
         NEW Kl, NEW Cl, NEW y, NEW Kr, NEW Cr, NEW K, NEW C,
         NodesShifted(l, r, s, o, Kl, Cl, y, Kr, Cr, K, C)
  PROVE  /\ LinkedOnce'
         /\ \A c \in Elements(Cl) : heap'[c].level + 1 = heap[l].level
         /\ \A c \in Elements(Cr) : heap'[c].level + 1 = heap[r].level
<1>1. /\ stack # <<>> /\ gone = Null /\ LiveInner = Inner
      /\ \A n \in Inner : InnerFilled(n)
  BY AtBalance
<1>2. /\ TypeOK /\ LinkedOnce /\ cur \in Inner /\ newchild' = newchild
  BY <1>1, AtInner DEF fromInner, split
<1>3. /\ o \in Inner /\ ((l = o /\ r = cur) \/ (l = cur /\ r = o)) /\ l # r
      /\ heap[o].level = heap[cur].level
  BY BesideNodes
<1>4. /\ DOMAIN heap' = DOMAIN heap /\ LiveInner' = Inner
      /\ \A n \in DOMAIN heap : heap'[n].level = heap[n].level
      /\ heap'[l] = InnerNode(heap[l].level, Kl, Cl)
      /\ heap'[r] = InnerNode(heap[r].level, Kr, Cr)
      /\ \A n \in Inner : n # l /\ n # r => Alike(n)
  BY ShiftKinds
<1>5. PICK A, B, T, I, M, N2, h2 :
        /\ A = heap[l].childid /\ B = heap[r].childid
        /\ T = DOMAIN heap \ {root, newchild} /\ I = Inner
        /\ M = {l, r} /\ N2 = Elements(C) /\ h2 = heap'
  OBVIOUS
<1>6. l \in Inner /\ r \in Inner /\ l \in LiveInner /\ r \in LiveInner
  BY <1>1, <1>2, <1>3
<1>7. /\ A \in Seq(Nodes) /\ B \in Seq(Nodes) /\ C \in Seq(Nodes) /\ Cl \in Seq(Nodes)
      /\ Cr \in Seq(Nodes) /\ Chained(C, A, B) /\ Chained(C, Cl, Cr)
  <2>1. /\ C \in Seq(Nodes) /\ Cl \in Seq(Nodes) /\ Cr \in Seq(Nodes)
        /\ Len(C) = Len(A) + Len(B) /\ Len(C) = Len(Cl) + Len(Cr)
        /\ GluedChildren(C, A, Len(A), B, Len(B)) /\ GluedChildren(C, Cl, Len(Cl), Cr, Len(Cr))
    BY <1>5 DEF NodesShifted, Redivided
  <2>2. A \in Seq(Nodes) /\ B \in Seq(Nodes)
    BY <1>1, <1>2, <1>5, <1>6, ChildNodes
  <2>3. PICK a, b, c, d : a = Len(A) /\ b = Len(B) /\ c = Len(Cl) /\ d = Len(Cr)
    OBVIOUS
  <2>4. Chained(C, A, B)
    BY <2>1, <2>3, GluedChained
  <2>5. Chained(C, Cl, Cr)
    BY <2>1, <2>3, GluedChained
  <2>6. QED
    BY <2>1, <2>2, <2>4, <2>5
<1>8. /\ ChildrenOnce(I, heap, T)
      /\ Distinct(A) /\ Distinct(B) /\ Elements(A) \cap Elements(B) = {}
      /\ Elements(A) \subseteq T /\ Elements(B) \subseteq T
  <2>1. ChildrenOnce(I, heap, T)
    BY <1>1, <1>2, <1>5, <1>6, OwnChildren
  <2>2. Distinct(A) /\ Elements(A) \subseteq T
    BY <1>2, <1>5, <1>6, OwnChildren
  <2>3. Distinct(B) /\ Elements(B) \subseteq T
    BY <1>2, <1>5, <1>6, OwnChildren
  <2>4. Elements(A) \cap Elements(B) = {}
    BY <1>3, <1>5, <1>6, <2>1 DEF ChildrenOnce
  <2>5. QED
    BY <2>1, <2>2, <2>3, <2>4
<1>9. Elements(C) = Elements(A) \cup Elements(B) /\ Distinct(C)
  BY <1>7, <1>8, ChainedElements
<1>10. /\ Elements(C) = Elements(Cl) \cup Elements(Cr) /\ Distinct(Cl) /\ Distinct(Cr)
       /\ Elements(Cl) \cap Elements(Cr) = {}
  BY <1>7, <1>9, ChainedElements
<1>11. h2[l].childid = Cl /\ h2[r].childid = Cr
  <2>1. h2[l].childid = Cl
    BY <1>4, <1>5, GivenFields
  <2>2. h2[r].childid = Cr
    BY <1>4, <1>5, GivenFields
  <2>3. QED
    BY <2>1, <2>2
<1>12. I \cap M = {l, r}
  BY <1>3, <1>5, <1>6
<1>13. ChildrenOnce(I \cap M, h2, N2)
  BY <1>3, <1>5, <1>10, <1>11, <1>12 DEF ChildrenOnce
<1>14. \A p \in I \ M : h2[p].childid = heap[p].childid
  BY <1>4, <1>5 DEF Alike
<1>15. ASSUME NEW c PROVE c \in N2 <=> \E p \in I \cap M : c \in Elements(heap[p].childid)
  BY <1>5, <1>9, <1>12
<1>16. N2 \subseteq T
  BY <1>5, <1>8, <1>9
<1>17. DOMAIN heap' \ {root', newchild'} = T
  BY <1>2, <1>4, <1>5
<1>18. Moved(I, heap, T, I, h2, T, M, N2)
  <2>1. \A c \in N2 : c \notin T \/ \E p \in I \cap M : c \in Elements(heap[p].childid)
    BY <1>15
  <2>2. \A c : c \in T <=>
          (c \in N2 \/ (c \in T /\ ~\E p \in I \cap M : c \in Elements(heap[p].childid)))
    BY <1>15, <1>16
  <2>3. QED
    BY <1>8, <1>13, <1>14, <2>1, <2>2 DEF Moved
<1>19. ChildrenOnce(I, h2, T)
  BY <1>18, Relinked
<1>20. LinkedOnce'
  BY <1>4, <1>5, <1>17, <1>19, LinkedForm
<1>21. ASSUME NEW c \in Elements(C) PROVE heap'[c].level + 1 = heap[cur].level
  <2>1. PICK q \in {l, r} : c \in Elements(heap[q].childid)
    BY <1>5, <1>9
  <2>2. PICK i \in Slots(q) : c = heap[q].childid[i]
    BY <2>1 DEF Elements, Slots
  <2>3. q \in LiveInner /\ InnerFilled(q) /\ heap[q].level = heap[cur].level
    BY <1>1, <1>3, <1>6
  <2>4. c \in DOMAIN heap /\ heap[c].level + 1 = heap[q].level
    BY <1>2, <2>2, <2>3, ChildNodes
  <2>5. QED
    BY <1>4, <2>3, <2>4
<1>22. heap[l].level = heap[cur].level /\ heap[r].level = heap[cur].level
  BY <1>3
<1>23. QED
  BY <1>10, <1>20, <1>21, <1>22

\* Nodes balanced to either side keep the shape.
LEMMA ShiftInto ==
  ASSUME ShapeInv, pc = "balance", underflow, ~onlyNode, fromInner,
         UNCHANGED <<root, stats, result>>,
         NEW l, NEW r, NEW s, NEW o, BesideIt(l, r, s, o), SomeShift(l, r, s, o)
  PROVE  /\ ShapeInv' /\ gone' = Null /\ LiveLeaves' = Leaves
         /\ \A n \in Leaves : heap'[n] = heap[n]
<1>1. PICK Kl, Cl, y, Kr, Cr, K, C : NodesShifted(l, r, s, o, Kl, Cl, y, Kr, Cr, K, C)
  BY DEF SomeShift
<1>2. /\ HeapTyped(heap') /\ DOMAIN heap' = DOMAIN heap
      /\ \A n \in DOMAIN heap : heap'[n].level = heap[n].level
      /\ heap'[l] = InnerNode(heap[l].level, Kl, Cl)
      /\ heap'[r] = InnerNode(heap[r].level, Kr, Cr)
      /\ gone' = Null /\ Leaves' = Leaves /\ Inner' = Inner
      /\ LiveInner' = Inner /\ LiveLeaves' = Leaves /\ Live' = DOMAIN heap
      /\ \A n \in Leaves : heap'[n] = heap[n]
      /\ \A n \in Inner : n # l /\ n # r => Alike(n) /\ n \in DOMAIN heap
  BY <1>1, ShiftKinds
<1>3. /\ pc' = "fix" /\ stack' = Front(stack)
      /\ UNCHANGED <<head, tail, key, newkey, newchild, stored, root, stats, lastkey, fixmerge>>
  BY DEF fromInner, split, result
<1>4. /\ stack # <<>> /\ gone = Null /\ LiveInner = Inner /\ LiveLeaves = Leaves
      /\ newchild = Null /\ ~fixmerge /\ \A n \in Inner : InnerFilled(n)
  BY AtBalance
<1>5. /\ TypeOK /\ Tree /\ StackLeadsDown /\ root # Null /\ key # Null /\ Counted
      /\ cur \in Inner /\ heap[cur].level \in Nat
  BY <1>4, AtInner
<1>6. /\ o \in Inner /\ heap[o].level = heap[cur].level
      /\ ((l = o /\ r = cur) \/ (l = cur /\ r = o)) /\ o # root /\ cur # root
  BY BesideNodes
<1>7. /\ LinkedOnce'
      /\ \A c \in Elements(Cl) : heap'[c].level + 1 = heap[l].level
      /\ \A c \in Elements(Cr) : heap'[c].level + 1 = heap[r].level
  BY <1>1, ShiftLinks
<1>8. /\ Len(Kl) \in Nat /\ Len(Kl) <= innerslotmax /\ Len(Kl) >= innerslotmax \div 2
      /\ Len(Kr) \in Nat /\ Len(Kr) <= innerslotmax /\ Len(Kr) >= innerslotmax \div 2
      /\ Len(Cl) = Len(Kl) + 1 /\ Len(Cr) = Len(Kr) + 1
  BY <1>1 DEF NodesShifted, Redivided
<1>9. StackLeadsDown' /\ stack' \in Seq(Frames)
  <2>1. ASSUME NEW n \in LiveInner, heap[n].level > heap[cur].level
        PROVE  Alike(n) /\ n \in Live'
    <3>1. n # l /\ n # r
      BY <1>5, <1>6, <2>1
    <3>2. QED
      BY <1>2, <1>4, <3>1
  <2>2. DOMAIN heap' \subseteq Nodes /\ pc' \notin {"insert", "erase"}
    BY <1>2, <1>3 DEF HeapTyped
  <2>3. QED
    BY <1>3, <1>4, <1>5, <2>1, <2>2, UpStack
<1>10. TypeOK'
  <2>1. fixmerge' \in BOOLEAN /\ root' \in DOMAIN heap' \cup {Null} /\ stats' \in Counters
    BY <1>2, <1>3, <1>5, TypeNow
  <2>2. QED
    BY <1>2, <1>3, <1>5, <1>9, <2>1, TypeNow, TypeNext
<1>11. \A n : least(n)' = IF n = root THEN 1 ELSE innerslotmax \div 2
  BY <1>3, <1>4 DEF least, rootSplit
<1>12. ASSUME NEW n \in {l, r} PROVE InnerFilled(n)'
  <2>1. n # root
    BY <1>6
  <2>2. PICK m, v, K1, C1 :
          /\ m = n /\ v = heap[n].level /\ K1 = (IF n = l THEN Kl ELSE Kr)
          /\ C1 = (IF n = l THEN Cl ELSE Cr)
    OBVIOUS
  <2>3. /\ heap'[m] = InnerNode(v, K1, C1) /\ Len(K1) \in Nat /\ Len(K1) <= innerslotmax
        /\ Len(K1) >= innerslotmax \div 2 /\ Len(C1) = Len(K1) + 1
        /\ \A c \in Elements(C1) : heap'[c].level + 1 = v
    <3>1. CASE n = l
      BY <1>2, <1>7, <1>8, <2>2, <3>1
    <3>2. CASE n # l
      BY <1>2, <1>7, <1>8, <2>2, <3>2
    <3>3. QED
      BY <3>1, <3>2
  <2>4. least(m)' <= Len(K1)
    BY <1>11, <2>1, <2>2, <2>3, Half
  <2>5. InnerFilled(m)'
    BY <2>3, <2>4, GivenFilled
  <2>6. QED
    BY <2>2, <2>5 DEF InnerFilled
<1>13. Tree'
  <2>1. PICK M : M = {l, r}
    OBVIOUS
  <2>2. ASSUME NEW n \in LiveInner' \ M
        PROVE  n \in LiveInner /\ Alike(n) /\ least(n)' <= Len(heap[n].slotkey)
    <3>1. n \in Inner /\ n # l /\ n # r /\ n # cur
      BY <1>2, <1>6, <2>1
    <3>2. least(n) = IF n = root THEN 1 ELSE innerslotmax \div 2
      BY <3>1, AtBalance
    <3>3. least(n)' = least(n)
      BY <1>11, <3>2
    <3>4. Len(heap[n].slotkey) >= least(n)
      BY <1>4, <3>1, FilledSlots
    <3>5. QED
      BY <1>2, <1>4, <3>1, <3>3, <3>4
  <2>3. ASSUME NEW n \in LiveLeaves' PROVE LeafFilled(n)'
    <3>1. n \in LiveLeaves /\ LeafFilled(n) /\ heap'[n] = heap[n]
      BY <1>2, <1>4, <1>5 DEF Tree
    <3>2. QED
      BY <1>3, <3>1 DEF LeafFilled
  <2>4. ASSUME NEW n \in LiveInner' \cap M PROVE InnerFilled(n)'
    <3>1. n \in {l, r}
      BY <2>1
    <3>2. QED
      BY <1>12, <3>1
  <2>5. \A n \in DOMAIN heap \cap DOMAIN heap' : heap'[n].level = heap[n].level
    BY <1>2
  <2>6. root' # Null
    BY <1>3, <1>5
  <2>7. QED
    BY <1>5, <1>7, <2>2, <2>3, <2>4, <2>5, <2>6, TreeMoved
<1>14. CallUnderWay'
  BY <1>2, <1>3, <1>4, <1>5, <1>9 DEF CallUnderWay
<1>15. Counted'
  BY <1>2, <1>3, <1>5 DEF Counted
<1>16. QED
  BY <1>2, <1>10, <1>13, <1>14, <1>15 DEF ShapeInv

\* Balanced inner nodes keep the shape.
LEMMA ShiftInnerShape ==
  ASSUME ShapeInv, ShiftInner
  PROVE  /\ ShapeInv' /\ gone' = Null /\ LiveLeaves' = Leaves /\ LiveLeaves = Leaves
         /\ \A n \in Leaves : heap'[n] = heap[n]
<1>1. /\ pc = "balance" /\ underflow /\ ~onlyNode /\ fromInner
      /\ UNCHANGED <<root, stats, result>>
  BY DEF ShiftInner
<1>2. LiveLeaves = Leaves
  BY <1>1, AtBalance
<1>3. CASE /\ balancing = "shiftLeft"
           /\ heap' = shift_left_inner(cur, top.right, top.rightparent, parentslot)
  <2>1. /\ parentslot < Len(heap[parent].slotkey)
        /\ top.rightparent = parent /\ ~isfew(top.right)
    BY <1>1, <1>3, BalancingCases
  <2>2. PICK l, r, s : l = cur /\ r = top.right /\ s = parentslot
    OBVIOUS
  <2>3. BesideIt(l, r, s, r) /\ ~isfew(r)
    BY <2>1, <2>2 DEF BesideIt
  <2>4. heap' = shift_left_inner(l, r, parent, s)
    BY <1>3, <2>1, <2>2
  <2>5. SomeShift(l, r, s, r)
    BY <1>1, <2>2, <2>3, <2>4, ShiftLeftHeap
  <2>6. QED
    BY <1>1, <1>2, <2>3, <2>5, ShiftInto
<1>4. CASE /\ balancing = "shiftRight"
           /\ heap' = shift_right_inner(top.left, cur, top.leftparent, parentslot - 1)
  <2>1. parentslot > 0 /\ top.leftparent = parent /\ ~isfew(top.left)
    BY <1>1, <1>4, BalancingCases
  <2>2. PICK l, r, s : l = top.left /\ r = cur /\ s = parentslot - 1
    OBVIOUS
  <2>3. BesideIt(l, r, s, l) /\ ~isfew(l)
    BY <2>1, <2>2 DEF BesideIt
  <2>4. heap' = shift_right_inner(l, r, parent, s)
    BY <1>4, <2>1, <2>2
  <2>5. SomeShift(l, r, s, l)
    BY <1>1, <2>2, <2>3, <2>4, ShiftRightHeap
  <2>6. QED
    BY <1>1, <1>2, <2>3, <2>5, ShiftInto
<1>5. QED
  BY <1>3, <1>4 DEF ShiftInner

-----------------------------------------------------------------------------
(* Each key is in one leaf *)

\* Each of the keys P is in one of the leaves L of the heap h.
EachOnce(h, L, P) ==
  /\ \A n \in L : h[n].items \subseteq P
  /\ \A k \in P : \E n \in L : k \in h[n].items
  /\ \A m, n \in L : m # n => h[m].items \cap h[n].items = {}

\* Kept in terms of EachOnce.
LEMMA KeptForm ==
  /\ Kept <=> EachOnce(heap, LiveLeaves, present)
  /\ Kept' <=> EachOnce(heap', LiveLeaves', present')
  BY DEF Kept, EachOnce

\* The leaves keep their keys.
LEMMA OnceSame ==
  ASSUME NEW h, NEW L, NEW P, EachOnce(h, L, P), NEW g, NEW M, M = L, NEW Q, Q = P,
         \A n \in L : g[n].items = h[n].items
  PROVE  EachOnce(g, M, Q)
  BY DEF EachOnce

\* One leaf gets a key that none had.
LEMMA OnceAdded ==
  ASSUME NEW h, NEW L, NEW P, EachOnce(h, L, P), NEW g, NEW k, k \notin P,
         NEW c \in L, g[c].items = h[c].items \cup {k},
         \A n \in L : n # c => g[n].items = h[n].items
  PROVE  EachOnce(g, L, P \cup {k})
<1>1. /\ \A n \in L : h[n].items \subseteq P
      /\ \A j \in P : \E n \in L : j \in h[n].items
      /\ \A m, n \in L : m # n => h[m].items \cap h[n].items = {}
  BY DEF EachOnce
<1>2. \A n \in L : g[n].items \subseteq P \cup {k}
  BY <1>1
<1>3. ASSUME NEW j \in P \cup {k} PROVE \E n \in L : j \in g[n].items
  BY <1>1
<1>4. ASSUME NEW m \in L, NEW n \in L, m # n PROVE g[m].items \cap g[n].items = {}
  <2>1. h[m].items \cap h[n].items = {} /\ k \notin h[m].items /\ k \notin h[n].items
    BY <1>1, <1>4
  <2>2. CASE m = c
    BY <1>4, <2>1, <2>2
  <2>3. CASE n = c
    BY <1>4, <2>1, <2>3
  <2>4. CASE m # c /\ n # c
    BY <2>1, <2>4
  <2>5. QED
    BY <2>2, <2>3, <2>4
<1>5. QED
  BY <1>2, <1>3, <1>4 DEF EachOnce

\* Two leaves share the keys that one had before.
LEMMA OnceSplit ==
  ASSUME NEW h, NEW L, NEW P, EachOnce(h, L, P), NEW g, NEW c \in L, NEW d, d \notin L,
         g[c].items \cup g[d].items = h[c].items, g[c].items \cap g[d].items = {},
         \A n \in L : n # c => g[n].items = h[n].items
  PROVE  EachOnce(g, L \cup {d}, P)
<1>1. /\ \A n \in L : h[n].items \subseteq P
      /\ \A j \in P : \E n \in L : j \in h[n].items
      /\ \A m, n \in L : m # n => h[m].items \cap h[n].items = {}
  BY DEF EachOnce
<1>2. \A n \in L \cup {d} : g[n].items \subseteq P
  BY <1>1
<1>3. ASSUME NEW j \in P PROVE \E n \in L \cup {d} : j \in g[n].items
  <2>1. PICK n \in L : j \in h[n].items
    BY <1>1
  <2>2. CASE n = c
    BY <2>1, <2>2
  <2>3. CASE n # c
    BY <2>1, <2>3
  <2>4. QED
    BY <2>2, <2>3
<1>4. \A n \in L : n # c => g[n].items \cap h[c].items = {}
  BY <1>1
<1>5. ASSUME NEW m \in L \cup {d}, NEW n \in L \cup {d}, m # n
      PROVE  g[m].items \cap g[n].items = {}
  <2>1. CASE m \in {c, d} /\ n \in {c, d}
    BY <1>5, <2>1
  <2>2. CASE m \notin {c, d} /\ n \in {c, d}
    BY <1>4, <2>2
  <2>3. CASE m \in {c, d} /\ n \notin {c, d}
    BY <1>4, <2>3
  <2>4. CASE m \notin {c, d} /\ n \notin {c, d}
    BY <1>1, <1>5, <2>4
  <2>5. QED
    BY <2>1, <2>2, <2>3, <2>4
<1>6. QED
  BY <1>2, <1>3, <1>5 DEF EachOnce

\* One leaf loses a key.
LEMMA OnceRemoved ==
  ASSUME NEW h, NEW L, NEW P, EachOnce(h, L, P), NEW g, NEW c \in L, NEW k, k \in h[c].items,
         g[c].items = h[c].items \ {k},
         \A n \in L : n # c => g[n].items = h[n].items
  PROVE  EachOnce(g, L, P \ {k})
<1>1. /\ \A n \in L : h[n].items \subseteq P
      /\ \A j \in P : \E n \in L : j \in h[n].items
      /\ \A m, n \in L : m # n => h[m].items \cap h[n].items = {}
  BY DEF EachOnce
<1>2. \A n \in L : n # c => k \notin h[n].items
  BY <1>1
<1>3. \A n \in L : g[n].items \subseteq P \ {k}
  BY <1>1, <1>2
<1>4. ASSUME NEW j \in P \ {k} PROVE \E n \in L : j \in g[n].items
  <2>1. PICK n \in L : j \in h[n].items
    BY <1>1
  <2>2. j \in g[n].items
    BY <2>1
  <2>3. QED
    BY <2>2
<1>5. ASSUME NEW m \in L, NEW n \in L, m # n PROVE g[m].items \cap g[n].items = {}
  <2>1. h[m].items \cap h[n].items = {}
    BY <1>1, <1>5
  <2>2. g[m].items \subseteq h[m].items /\ g[n].items \subseteq h[n].items
    OBVIOUS
  <2>3. QED
    BY <2>1, <2>2
<1>6. QED
  BY <1>3, <1>4, <1>5 DEF EachOnce

\* One leaf takes the keys of another, which is gone.
LEMMA OnceMerged ==
  ASSUME NEW h, NEW L, NEW P, EachOnce(h, L, P), NEW g, NEW l \in L, NEW r \in L, l # r,
         g[l].items = h[l].items \cup h[r].items,
         \A n \in L : n # l /\ n # r => g[n].items = h[n].items
  PROVE  EachOnce(g, L \ {r}, P)
<1>1. /\ \A n \in L : h[n].items \subseteq P
      /\ \A j \in P : \E n \in L : j \in h[n].items
      /\ \A m, n \in L : m # n => h[m].items \cap h[n].items = {}
  BY DEF EachOnce
<1>2. \A n \in L \ {r} : g[n].items \subseteq P
  BY <1>1
<1>3. ASSUME NEW j \in P PROVE \E n \in L \ {r} : j \in g[n].items
  <2>1. PICK n \in L : j \in h[n].items
    BY <1>1
  <2>2. CASE n = l \/ n = r
    BY <2>1, <2>2
  <2>3. CASE n # l /\ n # r
    BY <2>1, <2>3
  <2>4. QED
    BY <2>2, <2>3
<1>4. \A n \in L : n # l /\ n # r => g[n].items \cap g[l].items = {}
  BY <1>1
<1>5. ASSUME NEW m \in L \ {r}, NEW n \in L \ {r}, m # n
      PROVE  g[m].items \cap g[n].items = {}
  <2>1. CASE m = l
    BY <1>4, <1>5, <2>1
  <2>2. CASE n = l
    BY <1>4, <1>5, <2>2
  <2>3. CASE m # l /\ n # l
    BY <1>1, <1>5, <2>3
  <2>4. QED
    BY <2>1, <2>2, <2>3
<1>6. QED
  BY <1>2, <1>3, <1>5 DEF EachOnce

\* The history does not change.
LEMMA RecordedSame ==
  ASSUME Recorded, stored' = stored, stats'.itemcount = stats.itemcount, root' # Null,
         pc' \in {"fix", "balance"} => key' \in stored
  PROVE  Recorded'
  BY DEF Recorded

\* The counter of the items does not change with those of the nodes.
LEMMA ItemsAsBefore ==
  ASSUME TypeOK,
         \/ stats' = stats
         \/ stats' = [stats EXCEPT !.leaves = @ + 1]
         \/ stats' = [stats EXCEPT !.innernodes = @ + 1]
         \/ \E n : stats' = freed(n)
  PROVE  stats'.itemcount = stats.itemcount
  BY DEF TypeOK, freed

\* A step that leaves the keys where they are.
LEMMA KeysStay ==
  ASSUME KeptInv, ShapeInv', LiveLeaves' = LiveLeaves, stored' = stored, root # Null, root' # Null,
         key' = key,
         \A n \in LiveLeaves : heap'[n].items = heap[n].items,
         \/ pc' = pc
         \/ pc \in {"fix", "balance"} /\ pc' \in {"fix", "balance"},
         \/ stats' = stats
         \/ stats' = [stats EXCEPT !.innernodes = @ + 1]
         \/ \E n : stats' = freed(n)
  PROVE  KeptInv'
<1>1. TypeOK /\ Recorded /\ Kept
  BY DEF KeptInv, ShapeInv
<1>2. present' = present
  BY DEF present
<1>3. Kept'
  <2>1. PICK g, M, Q : g = heap' /\ M = LiveLeaves' /\ Q = present'
    OBVIOUS
  <2>2. EachOnce(g, M, Q)
    BY <1>1, <1>2, <2>1, KeptForm, OnceSame
  <2>3. QED
    BY <2>1, <2>2, KeptForm
<1>4. stats'.itemcount = stats.itemcount
  BY <1>1, ItemsAsBefore
<1>5. pc' \in {"fix", "balance"} => key' \in stored
  BY <1>1 DEF Recorded
<1>6. Recorded'
  BY <1>1, <1>4, <1>5, RecordedSame
<1>7. QED
  BY <1>3, <1>6 DEF KeptInv

\* Of the invariant, the parts that the lemmas below start from.
LEMMA KeptParts ==
  ASSUME KeptInv
  PROVE  ShapeInv /\ TypeOK /\ Tree /\ CallUnderWay /\ Counted /\ Recorded /\ Kept
  BY DEF KeptInv, ShapeInv

\* A step of the descent.
LEMMA DescendKept ==
  ASSUME KeptInv, Descend
  PROVE  KeptInv'
<1>1. ShapeInv /\ descending /\ heap' = heap
  BY KeptParts DEF Descend, descending, tree
<1>2. root # Null /\ gone = Null /\ CallUnderWay
  BY <1>1, KeptParts, OnTheWay
<1>3. ShapeInv'
  BY <1>1, DescendShape
<1>4. gone' = Null
  BY <1>2, PlainPc DEF gone, Descend, result
<1>5. LiveLeaves' = LiveLeaves
  BY <1>1, <1>2, <1>4, SameHeap DEF LiveLeaves
<1>6. root' # Null /\ stored' = stored /\ key' = key /\ pc' = pc /\ stats' = stats
  BY <1>2 DEF Descend, tree
<1>7. QED
  BY <1>1, <1>2, <1>3, <1>5, <1>6, KeysStay

\* A child enters a node on the way back.
LEMMA LinkChildKept ==
  ASSUME KeptInv, LinkChild
  PROVE  KeptInv'
<1>1. ShapeInv /\ newchild # Null /\ pc = "link" /\ stack # <<>>
  BY KeptParts DEF LinkChild
<1>2. LiveLeaves = Leaves /\ root # Null
  BY <1>1, RisingNode
<1>3. LiveLeaves' = Leaves /\ \A n \in DOMAIN heap : n # cur => heap'[n] = heap[n]
  BY <1>1, LinkChildHeap
<1>4. cur \notin Leaves
  BY <1>1, AtInner
<1>5. \A n \in LiveLeaves : heap'[n].items = heap[n].items
  BY <1>2, <1>3, <1>4 DEF Leaves
<1>6. ShapeInv'
  BY <1>1, LinkChildShape
<1>7. root' # Null /\ stored' = stored /\ key' = key /\ pc' = pc /\ stats' = stats
  BY <1>2 DEF LinkChild
<1>8. QED
  BY <1>2, <1>3, <1>5, <1>6, <1>7, KeysStay

\* An inner node is split.
LEMMA SplitInnerKept ==
  ASSUME KeptInv, SplitInner
  PROVE  KeptInv'
<1>1. ShapeInv /\ newchild # Null /\ pc = "link" /\ stack # <<>>
  BY KeptParts DEF SplitInner
<1>2. LiveLeaves = Leaves /\ root # Null
  BY <1>1, RisingNode
<1>3. LiveLeaves' = Leaves /\ \A n \in DOMAIN heap : n # cur => heap'[n] = heap[n]
  BY <1>1, SplitInnerHeap
<1>4. cur \notin Leaves
  BY <1>1, AtInner
<1>5. \A n \in LiveLeaves : heap'[n].items = heap[n].items
  BY <1>2, <1>3, <1>4 DEF Leaves
<1>6. ShapeInv'
  BY <1>1, SplitInnerShape
<1>7. /\ root' # Null /\ stored' = stored /\ key' = key /\ pc' = pc
      /\ stats' = [stats EXCEPT !.innernodes = @ + 1]
  BY <1>2 DEF SplitInner
<1>8. QED
  BY <1>2, <1>3, <1>5, <1>6, <1>7, KeysStay

\* A node on the way back of an erase is fixed up.
LEMMA FixKept ==
  ASSUME KeptInv, Fix
  PROVE  KeptInv'
<1>1. ShapeInv /\ pc = "fix" /\ stack # <<>>
  BY KeptParts DEF Fix
<1>2. root # Null
  BY <1>1, AtInner
<1>3. LiveLeaves' = LiveLeaves /\ \A n \in LiveLeaves : heap'[n] = heap[n]
  BY <1>1, FixEffect
<1>4. \A n \in LiveLeaves : heap'[n].items = heap[n].items
  BY <1>3
<1>5. ShapeInv'
  BY <1>1, FixShape
<1>6. root' # Null /\ stored' = stored /\ key' = key /\ pc' = "balance"
  BY <1>2 DEF Fix
<1>7. stats' = stats \/ \E n : stats' = freed(n)
  BY DEF Fix
<1>8. QED
  BY <1>1, <1>2, <1>3, <1>4, <1>5, <1>6, <1>7, KeysStay

\* A node that is full enough, or whose neighbour gives it some children, or
\* takes them.
LEMMA BalancedKept ==
  ASSUME KeptInv, Balanced \/ ShiftInner \/ MergeInner
  PROVE  KeptInv'
<1>1. ShapeInv /\ pc = "balance"
  BY KeptParts DEF Balanced, ShiftInner, MergeInner
<1>2. root # Null
  BY <1>1, AtInner, AtBalance
<1>3. ShapeInv' /\ LiveLeaves' = LiveLeaves
  BY <1>1, BalancedShape, ShiftInnerShape, MergeInnerShape
<1>4. \A n \in LiveLeaves : heap'[n].items = heap[n].items
  BY <1>1, ShiftInnerShape, MergeInnerShape DEF Balanced
<1>5. root' # Null /\ stored' = stored /\ key' = key /\ pc' = "fix" /\ stats' = stats
  BY <1>2 DEF Balanced, ShiftInner, MergeInner, fromInner
<1>6. QED
  BY <1>1, <1>2, <1>3, <1>4, <1>5, KeysStay

\* The only child of the root becomes the root.
LEMMA OneChildKept ==
  ASSUME KeptInv, ShrinkRoot
  PROVE  KeptInv'
<1>1. ShapeInv /\ pc = "balance"
  BY KeptParts DEF ShrinkRoot
<1>2. root # Null /\ LiveLeaves = Leaves
  BY <1>1, AtInner, AtBalance
<1>3. /\ ShapeInv' /\ root' \in DOMAIN heap /\ LiveLeaves' = Leaves
      /\ Leaves' = Leaves /\ \A n \in DOMAIN heap' : heap'[n] = heap[n]
  BY <1>1, ShrinkRootHeap, ShrinkRootShape
<1>4. \A n \in LiveLeaves : heap'[n].items = heap[n].items
  BY <1>2, <1>3 DEF Leaves
<1>5. root' # Null
  BY <1>3, KeptParts, NodeKinds
<1>6. stored' = stored /\ key' = key /\ pc' = "fix" /\ \E n : stats' = freed(n)
  BY DEF ShrinkRoot, fromInner
<1>7. QED
  BY <1>1, <1>2, <1>3, <1>4, <1>5, <1>6, KeysStay

\* A call begins.
LEMMA BeginKept ==
  ASSUME KeptInv, NEW k \in Keys, BeginInsert(k) \/ BeginErase(k)
  PROVE  KeptInv'
<1>1. ShapeInv /\ Recorded /\ Kept /\ pc = "idle" /\ ShapeInv' /\ TypeOK /\ CallUnderWay
  BY KeptParts, BeginShape DEF BeginInsert, BeginErase
<1>2. pc' \in {"insert", "erase"} /\ stored' = stored
  BY DEF BeginInsert, BeginErase
<1>3. present = stored /\ present' = stored
  BY <1>1, <1>2 DEF present
<1>4. CASE root = Null
  <2>1. BeginInsert(k)
    BY <1>4 DEF BeginErase
  <2>2. /\ heap'[fresh] = Leaf({}, Null, Null) /\ Leaves' = {fresh} /\ fixmerge' = FALSE
        /\ root' = fresh /\ fresh # Null
    BY <1>1, <1>4, <2>1, FirstLeaf
  <2>3. stored = {}
    BY <1>1, <1>4 DEF Recorded
  <2>4. gone' = Null
    BY <2>2 DEF gone
  <2>5. LiveLeaves' = {fresh}
    BY <2>2, <2>4 DEF LiveLeaves
  <2>6. heap'[fresh].items = {}
    BY <2>2, GivenFields
  <2>7. Kept'
    <3>1. PICK g, L, P : g = heap' /\ L = LiveLeaves' /\ P = present'
      OBVIOUS
    <3>2. EachOnce(g, L, P)
      BY <1>3, <2>3, <2>5, <2>6, <3>1 DEF EachOnce
    <3>3. QED
      BY <3>1, <3>2, KeptForm
  <2>8. stats' = [stats EXCEPT !.leaves = @ + 1]
    BY <1>4, <2>1 DEF BeginInsert
  <2>9. stats'.itemcount = stats.itemcount
    BY <1>1, <2>8, ItemsAsBefore
  <2>10. Recorded'
    BY <1>1, <1>2, <2>2, <2>9, RecordedSame
  <2>11. QED
    BY <1>1, <2>7, <2>10 DEF KeptInv
<1>5. CASE root # Null
  <2>1. heap' = heap /\ root' = root /\ stats' = stats /\ fixmerge' = fixmerge
    BY <1>5 DEF BeginInsert, BeginErase, tree, result
  <2>2. gone = Null /\ gone' = Null
    BY <1>1, <2>1, PlainPc DEF gone
  <2>3. LiveLeaves' = LiveLeaves
    BY <2>1, <2>2, SameHeap DEF LiveLeaves
  <2>4. Kept'
    <3>1. PICK g, L, P : g = heap' /\ L = LiveLeaves' /\ P = present'
      OBVIOUS
    <3>2. EachOnce(g, L, P)
      BY <1>1, <1>3, <2>1, <2>3, <3>1, KeptForm
    <3>3. QED
      BY <3>1, <3>2, KeptForm
  <2>5. Recorded'
    BY <1>1, <1>2, <1>5, <2>1, RecordedSame
  <2>6. QED
    BY <1>1, <2>4, <2>5 DEF KeptInv
<1>6. QED
  BY <1>4, <1>5

\* The key to be erased is not there.
LEMMA MissKept ==
  ASSUME KeptInv, EraseMiss
  PROVE  KeptInv'
<1>1. ShapeInv /\ Recorded /\ Kept /\ ShapeInv' /\ descending /\ CallUnderWay
  BY KeptParts, MissShape DEF EraseMiss, descending
<1>2. root # Null /\ gone = Null /\ LiveLeaves = Leaves
  BY <1>1, OnTheWay
<1>3. /\ pc = "erase" /\ pc' = "idle" /\ stored' = stored /\ heap' = heap /\ root' = root
      /\ stats' = stats /\ fixmerge' = FALSE
  BY DEF EraseMiss, return, tree
<1>4. present = stored /\ present' = stored
  BY <1>3 DEF present
<1>5. gone' = Null
  BY <1>3 DEF gone
<1>6. LiveLeaves' = LiveLeaves
  BY <1>2, <1>3, <1>5, SameHeap DEF LiveLeaves
<1>7. Kept'
  <2>1. PICK g, L, P : g = heap' /\ L = LiveLeaves' /\ P = present'
    OBVIOUS
  <2>2. EachOnce(g, L, P)
    BY <1>1, <1>3, <1>4, <1>6, <2>1, KeptForm
  <2>3. QED
    BY <2>1, <2>2, KeptForm
<1>8. Recorded'
  BY <1>1, <1>2, <1>3, RecordedSame
<1>9. QED
  BY <1>1, <1>7, <1>8 DEF KeptInv

\* The leaf has room for the key.
LEMMA StoreRoomKept ==
  ASSUME KeptInv, StoreRoom
  PROVE  KeptInv'
<1>1. ShapeInv /\ Recorded /\ Kept /\ ShapeInv' /\ descending /\ CallUnderWay /\ isleafnode(cur)
  BY KeptParts, StoreRoomShape DEF StoreRoom, descending
<1>2. root # Null /\ LiveLeaves = Leaves /\ cur \in Leaves
  BY <1>1, AtLeaf
<1>3. /\ LiveLeaves' = Leaves /\ heap'[cur].items = heap[cur].items \cup {key}
      /\ \A n \in DOMAIN heap : n # cur => heap'[n] = heap[n]
  BY <1>1, StoreRoomHeap
<1>4. /\ pc = "insert" /\ pc' = "link" /\ stored' = stored /\ key' = key /\ root' = root
      /\ stats' = stats
  BY DEF StoreRoom
<1>5. key \notin stored
  BY <1>1, <1>4 DEF CallUnderWay
<1>6. present = stored /\ present' = stored \cup {key}
  BY <1>4 DEF present
<1>7. Kept'
  <2>1. PICK g, L, c : g = heap' /\ L = Leaves /\ c = cur
    OBVIOUS
  <2>2. \A n \in Leaves : n # cur => heap'[n].items = heap[n].items
    BY <1>3 DEF Leaves
  <2>3. EachOnce(heap, L, stored)
    BY <1>1, <1>2, <1>6, <2>1, KeptForm
  <2>4. c \in L /\ g[c].items = heap[c].items \cup {key}
    BY <1>2, <1>3, <2>1
  <2>5. \A n \in L : n # c => g[n].items = heap[n].items
    BY <2>1, <2>2
  <2>6. EachOnce(g, L, stored \cup {key})
    BY <1>5, <2>3, <2>4, <2>5, OnceAdded
  <2>7. QED
    BY <1>3, <1>6, <2>1, <2>6, KeptForm
<1>8. Recorded'
  BY <1>1, <1>2, <1>4, RecordedSame
<1>9. QED
  BY <1>1, <1>7, <1>8 DEF KeptInv

\* A leaf gets a key and shares its keys with a new one.
LEMMA OnceAddedSplit ==
  ASSUME NEW h, NEW L, NEW P, EachOnce(h, L, P), NEW g, NEW k, k \notin P,
         NEW c \in L, NEW d, d \notin L,
         g[c].items \cup g[d].items = h[c].items \cup {k}, g[c].items \cap g[d].items = {},
         \A n \in L : n # c => g[n].items = h[n].items,
         NEW M, M = L \cup {d}, NEW Q, Q = P \cup {k}
  PROVE  EachOnce(g, M, Q)
<1>1. PICK f : f = [n \in L |-> [items |-> IF n = c THEN h[c].items \cup {k} ELSE h[n].items]]
  OBVIOUS
<1>2. f[c].items = h[c].items \cup {k} /\ \A n \in L : n # c => f[n].items = h[n].items
  BY <1>1
<1>3. EachOnce(f, L, P \cup {k})
  BY <1>2, OnceAdded
<1>4. /\ g[c].items \cup g[d].items = f[c].items
      /\ \A n \in L : n # c => g[n].items = f[n].items
  BY <1>2
<1>5. QED
  BY <1>3, <1>4, OnceSplit

\* A leaf loses a key, and one leaf takes what another has.
LEMMA OnceRemovedMerged ==
  ASSUME NEW h, NEW L, NEW P, EachOnce(h, L, P), NEW g, NEW c \in L, NEW k, k \in h[c].items,
         NEW l \in L, NEW r \in L, l # r, l = c \/ r = c,
         g[l].items = (h[l].items \cup h[r].items) \ {k},
         \A n \in L : n # l /\ n # r => g[n].items = h[n].items
  PROVE  EachOnce(g, L \ {r}, P \ {k})
<1>1. PICK f : f = [n \in L |-> [items |-> IF n = c THEN h[c].items \ {k} ELSE h[n].items]]
  OBVIOUS
<1>2. f[c].items = h[c].items \ {k} /\ \A n \in L : n # c => f[n].items = h[n].items
  BY <1>1
<1>3. EachOnce(f, L, P \ {k})
  BY <1>2, OnceRemoved
<1>4. k \notin h[l].items \/ l = c
  BY DEF EachOnce
<1>5. k \notin h[r].items \/ r = c
  BY DEF EachOnce
<1>6. g[l].items = f[l].items \cup f[r].items
  BY <1>2, <1>4, <1>5
<1>7. \A n \in L : n # l /\ n # r => g[n].items = f[n].items
  BY <1>2
<1>8. QED
  BY <1>3, <1>6, <1>7, OnceMerged

\* A full leaf is split, and one half takes the key.
LEMMA StoreSplitKept ==
  ASSUME KeptInv, StoreSplit
  PROVE  KeptInv'
<1>1. /\ ShapeInv /\ Recorded /\ Kept /\ ShapeInv' /\ descending /\ CallUnderWay
      /\ isleafnode(cur) /\ TypeOK
  BY KeptParts, StoreSplitShape DEF StoreSplit, descending
<1>2. root # Null /\ LiveLeaves = Leaves /\ cur \in Leaves /\ heap[cur].items \subseteq Keys
      /\ key \in Keys
  BY <1>1, AtLeaf
<1>3. /\ LiveLeaves' = Leaves \cup {fresh}
      /\ \A n \in Leaves : n # cur => heap'[n].items = heap[n].items
  BY <1>1, SplitLeafKinds
<1>4. fresh \notin Leaves
  BY <1>1, SplitLeafItems DEF Leaves
<1>5. PICK mid : LeafSplitItems(mid)
  BY <1>1, SplitLeafItems
<1>6. /\ pc = "insert" /\ pc' = "link" /\ stored' = stored /\ key' = key /\ root' = root
      /\ stats' = [stats EXCEPT !.leaves = @ + 1]
  BY DEF StoreSplit
<1>7. key \notin stored
  BY <1>1, <1>6 DEF CallUnderWay
<1>8. present = stored /\ present' = stored \cup {key}
  BY <1>6 DEF present
<1>10. PICK low, high : /\ low = {k \in heap[cur].items : k <= mid}
                        /\ high = {k \in heap[cur].items : mid < k}
  OBVIOUS
<1>11. /\ heap'[cur].items = low \cup (IF key <= mid THEN {key} ELSE {})
       /\ heap'[fresh].items = high \cup (IF mid < key THEN {key} ELSE {})
       /\ mid \in heap[cur].items
  BY <1>5, <1>10 DEF LeafSplitItems
<1>12. mid \in Nat /\ key \in Nat /\ \A k \in heap[cur].items : k \in Nat
  BY <1>2, <1>11, KeyTypes
<1>13. low \cup high = heap[cur].items /\ low \cap high = {}
  BY <1>10, <1>12
<1>14. (key <= mid) <=> ~(mid < key)
  BY <1>12
<1>15. key \notin heap[cur].items
  BY <1>1, <1>2, <1>7, <1>8 DEF Kept
<1>16. heap'[cur].items \cup heap'[fresh].items = heap[cur].items \cup {key}
  BY <1>11, <1>13, <1>14
<1>17. heap'[cur].items \cap heap'[fresh].items = {}
  BY <1>11, <1>13, <1>14, <1>15
<1>18. Kept'
  <2>1. PICK g, h, L, c, d : g = heap' /\ h = heap /\ L = Leaves /\ c = cur /\ d = fresh
    OBVIOUS
  <2>9. PICK P, k : P = stored /\ k = key
    OBVIOUS
  <2>10. PICK M : M = L \cup {d}
    OBVIOUS
  <2>11. PICK Q : Q = stored \cup {key}
    OBVIOUS
  <2>2. EachOnce(h, L, stored)
    BY <1>1, <1>2, <1>8, <2>1, KeptForm
  <2>3. g[c].items \cup g[d].items = h[c].items \cup {key}
    BY <1>16, <2>1
  <2>7. g[c].items \cap g[d].items = {}
    BY <1>17, <2>1
  <2>8. c \in L /\ d \notin L /\ key \notin stored
    BY <1>2, <1>4, <1>7, <2>1
  <2>4. \A n \in L : n # c => g[n].items = h[n].items
    BY <1>3, <2>1
  <2>5. EachOnce(g, M, Q)
    BY <2>2, <2>3, <2>4, <2>7, <2>8, <2>9, <2>10, <2>11, OnceAddedSplit
  <2>6. QED
    BY <1>3, <1>8, <2>1, <2>5, <2>9, <2>10, <2>11, KeptForm
<1>19. stats'.itemcount = stats.itemcount
  BY <1>1, <1>6, ItemsAsBefore
<1>20. Recorded'
  BY <1>1, <1>2, <1>6, <1>19, RecordedSame
<1>21. QED
  BY <1>1, <1>18, <1>20 DEF KeptInv

\* What the steps of erase at the leaf have in common.
LEMMA ErasingKey ==
  ASSUME KeptInv, atKey
  PROVE  /\ ShapeInv /\ Recorded /\ Kept /\ LiveLeaves = Leaves /\ cur \in Leaves /\ root # Null
         /\ EachOnce(heap, Leaves, stored) /\ key \in stored /\ key \in heap[cur].items
         /\ rest = heap[cur].items \ {key}
<1>1. /\ ShapeInv /\ Recorded /\ Kept /\ descending /\ isleafnode(cur) /\ pc = "erase"
      /\ key \in heap[cur].items
  BY KeptParts DEF atKey, descending
<1>2. LiveLeaves = Leaves /\ cur \in Leaves /\ root # Null
  BY <1>1, AtLeaf
<1>3. present = stored
  BY <1>1 DEF present
<1>4. EachOnce(heap, Leaves, stored)
  BY <1>1, <1>2, <1>3, KeptForm
<1>5. key \in stored
  BY <1>1, <1>2, <1>4 DEF EachOnce
<1>6. QED
  BY <1>1, <1>2, <1>4, <1>5 DEF rest

\* What the keys are after them.
LEMMA ErasedHistory ==
  ASSUME KeptInv, atKey, fromLeaf
  PROVE  Recorded' /\ present' = stored \ {key}
<1>1. /\ pc' = "fix" /\ stored' = stored /\ key' = key /\ root' = root /\ stats' = stats
  BY DEF fromLeaf
<1>2. Recorded /\ key \in stored /\ root # Null
  BY ErasingKey
<1>3. Recorded'
  BY <1>1, <1>2, RecordedSame
<1>4. QED
  BY <1>1, <1>3 DEF present

\* The leaf loses the key.
LEMMA EraseKeepKept ==
  ASSUME KeptInv, EraseKeep
  PROVE  KeptInv'
<1>1. atKey /\ fromLeaf
  BY DEF EraseKeep
<1>2. /\ ShapeInv /\ cur \in Leaves
      /\ EachOnce(heap, Leaves, stored) /\ key \in heap[cur].items
      /\ rest = heap[cur].items \ {key}
  BY <1>1, ErasingKey
<1>3. Recorded' /\ present' = stored \ {key}
  BY <1>1, ErasedHistory
<1>4. /\ ShapeInv' /\ LiveLeaves' = Leaves
      /\ \A n \in Leaves : heap'[n].items = IF n = cur THEN rest ELSE heap[n].items
  BY <1>2, EraseKeepShape
<1>5. PICK g, L, c : g = heap' /\ L = Leaves /\ c = cur
  OBVIOUS
<1>6. c \in L /\ key \in heap[c].items /\ g[c].items = heap[c].items \ {key}
  BY <1>2, <1>4, <1>5
<1>7. \A n \in L : n # c => g[n].items = heap[n].items
  BY <1>4, <1>5
<1>8. EachOnce(g, L, stored \ {key})
  BY <1>2, <1>5, <1>6, <1>7, OnceRemoved
<1>9. Kept'
  BY <1>3, <1>4, <1>5, <1>8, KeptForm
<1>10. QED
  BY <1>3, <1>4, <1>9 DEF KeptInv

\* The leaf loses the key and is merged.
LEMMA EraseMergeKept ==
  ASSUME KeptInv, EraseMergeLeft \/ EraseMergeRight
  PROVE  KeptInv'
<1>1. atKey /\ fromLeaf
  BY DEF EraseMergeLeft, EraseMergeRight
<1>2. /\ ShapeInv /\ cur \in Leaves
      /\ EachOnce(heap, Leaves, stored) /\ key \in heap[cur].items
      /\ rest = heap[cur].items \ {key}
  BY <1>1, ErasingKey
<1>3. Recorded' /\ present' = stored \ {key}
  BY <1>1, ErasedHistory
<1>4. PICK g, L, c : g = heap' /\ L = Leaves /\ c = cur
  OBVIOUS
<1>5. \A m, n \in Leaves : m # n => heap[m].items \cap heap[n].items = {}
  BY <1>2 DEF EachOnce
<1>6. ASSUME EraseMergeLeft PROVE Kept' /\ ShapeInv'
  <2>1. /\ ShapeInv' /\ LiveLeaves' = Leaves \ {cur} /\ top.left \in Leaves /\ top.left # cur
    BY <1>2, <1>6, EraseMergeLeftShape
  <2>2. \A n \in Leaves \ {cur} :
          heap'[n].items = IF n = top.left THEN rest \cup heap[top.left].items ELSE heap[n].items
    BY <1>2, <1>6, EraseMergeLeftShape
  <2>3. PICK l : l = top.left
    OBVIOUS
  <2>4. key \notin heap[l].items
    BY <1>2, <1>5, <2>1, <2>3
  <2>5. g[l].items = (heap[l].items \cup heap[c].items) \ {key}
    BY <1>2, <1>4, <2>1, <2>2, <2>3, <2>4
  <2>6. \A n \in L : n # l /\ n # c => g[n].items = heap[n].items
    BY <1>4, <2>2, <2>3
  <2>7. c \in L /\ l \in L /\ l # c /\ key \in heap[c].items
    BY <1>2, <1>4, <2>1, <2>3
  <2>8. EachOnce(g, L \ {c}, stored \ {key})
    BY <1>2, <1>4, <2>5, <2>6, <2>7, OnceRemovedMerged
  <2>9. QED
    BY <1>3, <1>4, <2>1, <2>8, KeptForm
<1>7. ASSUME EraseMergeRight PROVE Kept' /\ ShapeInv'
  <2>1. /\ ShapeInv' /\ LiveLeaves' = Leaves \ {top.right} /\ top.right \in Leaves
        /\ top.right # cur
    BY <1>2, <1>7, EraseMergeRightShape
  <2>2. \A n \in Leaves \ {top.right} :
          heap'[n].items = IF n = cur THEN rest \cup heap[top.right].items ELSE heap[n].items
    BY <1>2, <1>7, EraseMergeRightShape
  <2>3. PICK r : r = top.right
    OBVIOUS
  <2>4. key \notin heap[r].items
    BY <1>2, <1>5, <2>1, <2>3
  <2>5. g[c].items = (heap[c].items \cup heap[r].items) \ {key}
    BY <1>2, <1>4, <2>1, <2>2, <2>3, <2>4
  <2>6. \A n \in L : n # c /\ n # r => g[n].items = heap[n].items
    BY <1>4, <2>2, <2>3
  <2>7. c \in L /\ r \in L /\ c # r /\ key \in heap[c].items
    BY <1>2, <1>4, <2>1, <2>3
  <2>8. EachOnce(heap, L, stored)
    BY <1>2, <1>4
  <2>9. EachOnce(g, L \ {r}, stored \ {key})
    BY <2>5, <2>6, <2>7, <2>8, OnceRemovedMerged
  <2>10. QED
    BY <1>3, <1>4, <2>1, <2>3, <2>9, KeptForm
<1>8. QED
  BY <1>3, <1>6, <1>7 DEF KeptInv

\* The last key is erased.
LEMMA EraseEmptyRootKept ==
  ASSUME KeptInv, EraseEmptyRoot
  PROVE  KeptInv'
<1>1. atKey
  BY DEF EraseEmptyRoot
<1>2. /\ ShapeInv /\ Recorded /\ EachOnce(heap, Leaves, stored) /\ key \in stored /\ TypeOK
  BY <1>1, KeptParts, ErasingKey
<1>3. Leaves' = {} /\ Leaves = {cur} /\ heap[cur].items = {key}
  BY <1>2, EraseEmptyRootHeap
<1>4. ShapeInv'
  BY EraseEmptyRootShape
<1>5. stored = {key}
  BY <1>2, <1>3 DEF EachOnce
<1>6. /\ stored' = {} /\ pc' = "idle" /\ root' = Null
      /\ stats' = [freed(cur) EXCEPT !.itemcount = @ - 1]
  BY <1>5 DEF EraseEmptyRoot, return
<1>7. present' = {}
  BY <1>6 DEF present
<1>8. LiveLeaves' = {}
  BY <1>3 DEF LiveLeaves
<1>9. Kept'
  BY <1>7, <1>8 DEF Kept
<1>10. stats.itemcount = 1
  BY <1>2, <1>5, FS_Singleton DEF Recorded
<1>11. stats \in Counters
  BY <1>2, CountersType
<1>12. freed(cur).itemcount = 1
  BY <1>10, <1>11 DEF freed, Counters
<1>13. stats'.itemcount = 0
  <2>1. freed(cur) \in [leaves : Int, innernodes : Int, itemcount : Nat]
    BY <1>11 DEF freed, Counters
  <2>2. QED
    BY <1>6, <1>12, <2>1
<1>14. IsFiniteSet({}) /\ Cardinality({}) = 0
  BY FS_EmptySet
<1>15. Recorded'
  BY <1>6, <1>13, <1>14 DEF Recorded
<1>16. QED
  BY <1>4, <1>9, <1>15 DEF KeptInv

\* An insert returns.
LEMMA FinishInsertKept ==
  ASSUME KeptInv, FinishInsert
  PROVE  KeptInv'
<1>1. /\ ShapeInv /\ Recorded /\ Kept /\ TypeOK /\ CallUnderWay /\ pc = "link" /\ ShapeInv'
  BY KeptParts, FinishInsertShape DEF FinishInsert
<1>2. /\ stored' = stored \cup {key} /\ pc' = "idle" /\ fixmerge' = FALSE
  BY DEF FinishInsert, return
<1>3. present = stored \cup {key} /\ present' = present /\ gone = Null /\ gone' = Null
  BY <1>1, <1>2, PlainPc DEF present, gone
<1>4. /\ LiveLeaves' = LiveLeaves /\ root' # Null
      /\ \A n \in LiveLeaves : heap'[n].items = heap[n].items
  <2>1. CASE newchild # Null
    <3>1. /\ LiveLeaves' = Leaves /\ \A n \in DOMAIN heap : heap'[n] = heap[n]
          /\ fresh # Null /\ root' = fresh
      BY <1>1, <2>1, NewRootHeap
    <3>2. LiveLeaves = Leaves
      BY <1>1, <2>1, RisingNode
    <3>3. QED
      BY <3>1, <3>2 DEF Leaves
  <2>2. CASE newchild = Null
    <3>1. heap' = heap /\ root' = root
      BY <2>2 DEF FinishInsert
    <3>2. root # Null
      BY <1>1 DEF CallUnderWay
    <3>3. QED
      BY <1>3, <3>1, <3>2, SameHeap DEF LiveLeaves
  <2>3. QED
    BY <2>1, <2>2
<1>5. Kept'
  <2>1. PICK g, L, P : g = heap' /\ L = LiveLeaves' /\ P = present'
    OBVIOUS
  <2>2. EachOnce(g, L, P)
    BY <1>1, <1>3, <1>4, <2>1, KeptForm, OnceSame
  <2>3. QED
    BY <2>1, <2>2, KeptForm
<1>6. key \notin stored
  BY <1>1 DEF CallUnderWay
<1>7. IsFiniteSet(stored) /\ stats.itemcount = Cardinality(stored)
  BY <1>1 DEF Recorded
<1>8. IsFiniteSet(stored \cup {key}) /\ Cardinality(stored \cup {key}) = Cardinality(stored) + 1
  BY <1>6, <1>7, FS_AddElement
<1>9. stats'.itemcount = stats.itemcount + 1
  <2>1. stats \in Counters
    BY <1>1, CountersType
  <2>2. \/ stats' = [stats EXCEPT !.itemcount = @ + 1]
        \/ stats' = [stats EXCEPT !.itemcount = @ + 1, !.innernodes = @ + 1]
    BY DEF FinishInsert
  <2>3. QED
    BY <2>1, <2>2 DEF Counters
<1>10. Recorded'
  BY <1>2, <1>4, <1>7, <1>8, <1>9 DEF Recorded
<1>11. QED
  BY <1>1, <1>5, <1>10 DEF KeptInv

\* An erase returns.
LEMMA FinishEraseKept ==
  ASSUME KeptInv, FinishErase
  PROVE  KeptInv'
<1>1. /\ ShapeInv /\ Recorded /\ Kept /\ TypeOK /\ CallUnderWay /\ pc = "fix" /\ ShapeInv'
      /\ stack = <<>>
  BY KeptParts, FinishEraseShape DEF FinishErase
<1>2. /\ stored' = stored \ {key} /\ pc' = "idle" /\ fixmerge' = FALSE /\ heap' = heap
      /\ root' = root /\ stats' = [stats EXCEPT !.itemcount = @ - 1]
  BY DEF FinishErase, return, tree
<1>3. ~fixmerge /\ root # Null
  BY <1>1 DEF CallUnderWay
<1>4. present = stored \ {key} /\ present' = present /\ gone = Null /\ gone' = Null
  BY <1>1, <1>2, <1>3 DEF present, gone
<1>5. LiveLeaves' = LiveLeaves
  BY <1>2, <1>4, SameHeap DEF LiveLeaves
<1>6. Kept'
  <2>1. PICK g, L, P : g = heap' /\ L = LiveLeaves' /\ P = present'
    OBVIOUS
  <2>2. EachOnce(g, L, P)
    BY <1>1, <1>2, <1>4, <1>5, <2>1, KeptForm
  <2>3. QED
    BY <2>1, <2>2, KeptForm
<1>7. IsFiniteSet(stored) /\ stats.itemcount = Cardinality(stored) /\ key \in stored
  BY <1>1 DEF Recorded
<1>8. IsFiniteSet(stored \ {key}) /\ Cardinality(stored \ {key}) = Cardinality(stored) - 1
  BY <1>7, FS_RemoveElement
<1>9. stats'.itemcount = stats.itemcount - 1
  <2>1. stats \in Counters
    BY <1>1, CountersType
  <2>2. QED
    BY <1>2, <2>1 DEF Counters
<1>10. Recorded'
  BY <1>2, <1>3, <1>7, <1>8, <1>9 DEF Recorded
<1>11. QED
  BY <1>1, <1>6, <1>10 DEF KeptInv

\* A step that changes nothing.
LEMMA StutterKept ==
  ASSUME KeptInv, UNCHANGED vars
  PROVE  KeptInv'
<1>1. /\ root' = root /\ head' = head /\ tail' = tail /\ heap' = heap /\ stats' = stats
      /\ pc' = pc /\ key' = key /\ stack' = stack /\ newkey' = newkey /\ newchild' = newchild
      /\ lastkey' = lastkey /\ fixmerge' = fixmerge /\ stored' = stored
  BY DEF vars, tree, split, result
<1>2. Leaves' = Leaves /\ Inner' = Inner /\ gone' = gone
  BY <1>1 DEF Leaves, Inner, isleafnode, gone, child, emptied, slotuse, slotuseIn, cur, top
<1>3. LiveInner' = LiveInner /\ LiveLeaves' = LiveLeaves /\ Live' = Live /\ present' = present
  BY <1>1, <1>2 DEF LiveInner, LiveLeaves, Live, present
<1>4. TypeOK'
  BY <1>1, KeptParts DEF TypeOK
<1>5. Tree'
  <2>1. LinkedOnce'
    BY <1>1, <1>3, KeptParts DEF Tree, LinkedOnce, Slots
  <2>2. \A n : least(n)' = least(n)
    BY <1>1 DEF least, cur, top, rootSplit
  <2>3. \A n \in LiveInner' : InnerFilled(n)'
    BY <1>1, <1>3, <2>2, KeptParts DEF Tree, InnerFilled, Slots
  <2>4. \A n \in LiveLeaves' : LeafFilled(n)'
    BY <1>1, <1>3, KeptParts DEF Tree, LeafFilled
  <2>5. QED
    BY <1>1, <2>1, <2>3, <2>4, KeptParts DEF Tree
<1>6. CallUnderWay'
  <2>1. StackLeadsDown'
    BY <1>1, <1>2, <1>3, KeptParts
       DEF CallUnderWay, StackLeadsDown, FrameAt, FramesMeet, NearbyKnown, CousinsKnown, descending,
           child, slotuse, slotuseIn, top
  <2>2. QED
    BY <1>1, <1>2, <2>1, KeptParts
       DEF CallUnderWay, emptied, child, slotuse, slotuseIn, cur, top
<1>7. Counted' /\ Recorded'
  BY <1>1, <1>2, KeptParts DEF Counted, Recorded
<1>8. Kept'
  BY <1>1, <1>3, KeptParts DEF Kept
<1>9. QED
  BY <1>4, <1>5, <1>6, <1>7, <1>8 DEF KeptInv, ShapeInv

\* Every step keeps the tree's shape and its keys.
LEMMA NextKept == KeptInv /\ [Next]_vars => KeptInv'
<1>1. SUFFICES ASSUME KeptInv, [Next]_vars PROVE KeptInv'
  OBVIOUS
<1>2. CASE Step
  BY <1>1, <1>2, DescendKept, StoreRoomKept, StoreSplitKept, LinkChildKept, SplitInnerKept,
     FinishInsertKept, MissKept, EraseEmptyRootKept, EraseMergeKept, EraseKeepKept, FixKept,
     BalancedKept, OneChildKept, FinishEraseKept
     DEF Step
<1>3. CASE \E k \in Keys : BeginInsert(k) \/ BeginErase(k)
  BY <1>1, <1>3, BeginKept
<1>4. CASE UNCHANGED vars
  BY <1>1, <1>4, StutterKept
<1>5. QED
  BY <1>1, <1>2, <1>3, <1>4 DEF Next

\* An empty tree has lost nothing.
LEMMA InitKept == Init => KeptInv
<1>1. SUFFICES ASSUME Init PROVE KeptInv
  OBVIOUS
<1>2. ShapeInv
  BY <1>1, InitShape
<1>3. /\ heap = <<>> /\ stored = {} /\ root = Null /\ pc = "idle"
      /\ stats = [leaves |-> 0, innernodes |-> 0, itemcount |-> 0]
  BY <1>1 DEF Init
<1>4. LiveLeaves = {}
  <2>1. PICK h : h = <<>>
    OBVIOUS
  <2>2. DOMAIN h = {}
    BY <2>1
  <2>3. DOMAIN heap = {}
    BY <1>3, <2>1, <2>2
  <2>4. QED
    BY <2>3 DEF LiveLeaves, Leaves
<1>5. Kept
  BY <1>3, <1>4 DEF Kept, present
<1>6. IsFiniteSet({}) /\ Cardinality({}) = 0
  BY FS_EmptySet
<1>7. Recorded
  BY <1>3, <1>6 DEF Recorded
<1>8. QED
  BY <1>2, <1>5, <1>7 DEF KeptInv

\* No step of insert or erase, of any of the splits, merges and shifts of nodes
\* of any size, loses a key or a node, links one twice or leaves one over full.
THEOREM TreeKept == Spec => []KeptInv
<1>1. Init => KeptInv
  BY InitKept
<1>2. KeptInv /\ [Next]_vars => KeptInv'
  BY NextKept
<1>3. QED
  BY <1>1, <1>2, PTL DEF Spec

\* No pointer of the tree, of its nodes or of a call under way is left at
\* anything but a node or Null.
THEOREM TreeTyped == Spec => []TypeOK
<1>1. KeptInv => TypeOK
  BY KeptParts
<1>2. QED
  BY <1>1, TreeKept, PTL

\* Between the calls the tree is well formed.
LEMMA Quiet ==
  ASSUME KeptInv, pc = "idle"
  PROVE  /\ gone = Null /\ newchild = Null /\ stack = <<>> /\ TypeOK /\ Tree
         /\ LiveInner = Inner /\ LiveLeaves = Leaves
         /\ \A n : least(n) = IF n = root THEN 1 ELSE innerslotmax \div 2
<1>1. TypeOK /\ Tree /\ CallUnderWay
  BY KeptParts
<1>2. gone = Null /\ newchild = Null /\ stack = <<>>
  BY <1>1, PlainPc DEF CallUnderWay
<1>3. LiveInner = Inner /\ LiveLeaves = Leaves
  BY <1>1, <1>2, NodeKinds DEF LiveInner, LiveLeaves
<1>4. \A n : least(n) = IF n = root THEN 1 ELSE innerslotmax \div 2
  BY <1>2, LeastValues DEF rootSplit
<1>5. QED
  BY <1>1, <1>2, <1>3, <1>4

\* verify_node, between calls: no node is over full, no leaf is empty, no inner
\* node but the root less than half full, and children are one level down.
THEOREM AllNodesFilled == Spec => []NodesFilled
<1>1. KeptInv => NodesFilled
  <2>1. SUFFICES ASSUME KeptInv, quiet PROVE NodesFilled
    BY DEF NodesFilled
  <2>2. pc = "idle"
    BY <2>1 DEF quiet
  <2>3. ASSUME NEW n \in Leaves PROVE slotuse(n) \in 1 .. leafslotmax
    <3>1. LeafFilled(n)
      BY <2>1, <2>2, Quiet DEF Tree
    <3>2. /\ IsFiniteSet(heap[n].items) /\ Cardinality(heap[n].items) <= leafslotmax
          /\ heap[n].items # {}
      BY <2>2, <3>1 DEF LeafFilled
    <3>3. Cardinality(heap[n].items) \in Nat /\ Cardinality(heap[n].items) # 0
      BY <3>2, FS_CardinalityType, FS_EmptySet
    <3>4. slotuse(n) = Cardinality(heap[n].items)
      BY SlotUse DEF Leaves
    <3>5. QED
      BY <3>2, <3>3, <3>4, Half
  <2>4. ASSUME NEW n \in Inner
        PROVE  /\ slotuse(n) >= IF n = root THEN 1 ELSE innerslotmax \div 2
               /\ slotuse(n) <= innerslotmax
               /\ Len(heap[n].childid) = slotuse(n) + 1
               /\ \A c \in Range(heap[n].childid) : heap[c].level = heap[n].level - 1
    <3>1. InnerFilled(n) /\ TypeOK /\ LinkedOnce /\ n \in LiveInner
      BY <2>1, <2>2, <2>4, Quiet DEF Tree
    <3>2. least(n) = IF n = root THEN 1 ELSE innerslotmax \div 2
      BY <2>1, <2>2, Quiet
    <3>3. slotuse(n) = Len(heap[n].slotkey)
      BY <3>1, ChildNodes
    <3>4. Len(heap[n].slotkey) >= least(n) /\ Len(heap[n].slotkey) <= innerslotmax
      BY <3>1, FilledSlots
    <3>5. Len(heap[n].childid) = slotuse(n) + 1
      BY <3>1, ChildNodes
    <3>6. ASSUME NEW c \in Range(heap[n].childid) PROVE heap[c].level = heap[n].level - 1
      <4>1. PICK i \in DOMAIN heap[n].childid : c = heap[n].childid[i]
        BY <3>6 DEF Range
      <4>2. i \in Slots(n)
        BY <3>1, <4>1, ChildNodes DEF Slots
      <4>3. heap[c].level \in Nat /\ heap[c].level + 1 = heap[n].level
        BY <3>1, <4>1, <4>2, ChildNodes
      <4>4. QED
        BY <4>3
    <3>7. QED
      BY <3>2, <3>3, <3>4, <3>5, <3>6
  <2>5. QED
    BY <2>3, <2>4 DEF NodesFilled
<1>2. QED
  BY <1>1, TreeKept, PTL

\* The slots of a node's parents.
LEMMA SlotsOfNode ==
  ASSUME KeptInv, pc = "idle", NEW n \in DOMAIN heap, NEW S,
         S = {at \in Inner \X (0 .. innerslotmax) :
                /\ at[2] < Len(heap[at[1]].childid)
                /\ child(at[1], at[2]) = n}
  PROVE  Cardinality(S) = IF n = root THEN 0 ELSE 1
<1>1. /\ TypeOK /\ LinkedOnce /\ LiveInner = Inner /\ newchild = Null
      /\ \A p \in Inner : InnerFilled(p)
  BY Quiet DEF Tree
<1>2. ASSUME NEW at \in S
      PROVE  /\ at = <<at[1], at[2]>> /\ at[1] \in Inner /\ at[2] \in Nat
             /\ at[2] + 1 \in Slots(at[1]) /\ heap[at[1]].childid[at[2] + 1] = n
  <2>1. /\ at \in Inner \X (0 .. innerslotmax) /\ at[2] < Len(heap[at[1]].childid)
        /\ child(at[1], at[2]) = n
    OBVIOUS
  <2>2. at = <<at[1], at[2]>> /\ at[1] \in Inner /\ at[2] \in 0 .. innerslotmax
    BY <2>1
  <2>3. Len(heap[at[1]].childid) \in Nat
    BY <1>1, <2>2, ChildNodes
  <2>4. at[2] + 1 \in 1 .. Len(heap[at[1]].childid)
    BY <2>1, <2>2, <2>3, Half
  <2>5. QED
    BY <2>1, <2>2, <2>4, Half DEF Slots, child
<1>3. CASE n = root
  <2>1. S = {}
    BY <1>1, <1>2, <1>3 DEF LinkedOnce
  <2>2. QED
    BY <1>3, <2>1, FS_EmptySet
<1>4. CASE n # root
  <2>1. n \in DOMAIN heap \ {root, newchild}
    BY <1>1, <1>4, NodeKinds
  <2>2. PICK p \in Inner : \E i \in Slots(p) : heap[p].childid[i] = n
    BY <1>1, <2>1 DEF LinkedOnce
  <2>3. PICK i \in Slots(p) : heap[p].childid[i] = n
    BY <2>2
  <2>4. PICK s : s = i - 1
    OBVIOUS
  <2>5. /\ Len(heap[p].childid) = Len(heap[p].slotkey) + 1 /\ Len(heap[p].slotkey) \in Nat
        /\ Slots(p) = 1 .. Len(heap[p].slotkey) + 1 /\ Len(heap[p].slotkey) <= innerslotmax
    BY <1>1, ChildNodes, FilledSlots
  <2>6. s \in 0 .. innerslotmax /\ s < Len(heap[p].childid) /\ s + 1 = i /\ i \in Int
    <3>1. PICK m, c : m = Len(heap[p].slotkey) /\ c = Len(heap[p].childid)
      OBVIOUS
    <3>2. i \in 1 .. m + 1 /\ m \in Nat /\ m <= innerslotmax /\ c = m + 1
      BY <2>3, <2>5, <3>1
    <3>3. QED
      BY <2>4, <3>1, <3>2, Half
  <2>7. child(p, s) = n
    BY <2>3, <2>6 DEF child
  <2>8. PICK e : e = <<p, s>>
    OBVIOUS
  <2>9. e \in S
    BY <2>6, <2>7, <2>8
  <2>10. ASSUME NEW at \in S PROVE at = e
    <3>1. /\ at = <<at[1], at[2]>> /\ at[1] \in Inner /\ at[2] \in Nat
          /\ at[2] + 1 \in Slots(at[1]) /\ heap[at[1]].childid[at[2] + 1] = n
      BY <1>2
    <3>2. at[1] = p /\ at[2] + 1 = i
      BY <1>1, <2>3, <3>1 DEF LinkedOnce
    <3>3. at[2] = s
      BY <2>4, <2>6, <3>1, <3>2
    <3>4. QED
      BY <2>8, <3>1, <3>2, <3>3
  <2>11. S = {e}
    BY <2>9, <2>10
  <2>12. QED
    BY <1>4, <2>11, FS_Singleton
<1>5. QED
  BY <1>3, <1>4

\* Between calls m_stats counts the leaves, the inner nodes and the keys, and
\* every allocated node but the root is the child of one slot.
THEOREM CountersExact == Spec => []StatsExact
<1>1. KeptInv => StatsExact
  <2>1. SUFFICES ASSUME KeptInv, pc = "idle" PROVE StatsExact
    BY DEF StatsExact
  <2>2. /\ stats.leaves = Cardinality(Leaves) /\ stats.innernodes = Cardinality(Inner)
        /\ stats.itemcount = Cardinality(stored) /\ TypeOK
    BY <2>1, KeptParts DEF Counted, Recorded
  <2>3. stats = [leaves |-> Cardinality(Leaves),
                 innernodes |-> Cardinality(Inner),
                 itemcount |-> Cardinality(stored)]
    BY <2>2 DEF TypeOK
  <2>4. ASSUME NEW n \in DOMAIN heap
        PROVE  Cardinality({at \in Inner \X (0 .. innerslotmax) :
                              /\ at[2] < Len(heap[at[1]].childid)
                              /\ child(at[1], at[2]) = n})
                 = IF n = root THEN 0 ELSE 1
    <3>1. PICK S : S = {at \in Inner \X (0 .. innerslotmax) :
                          /\ at[2] < Len(heap[at[1]].childid)
                          /\ child(at[1], at[2]) = n}
      OBVIOUS
    <3>2. Cardinality(S) = IF n = root THEN 0 ELSE 1
      BY <2>1, <3>1, SlotsOfNode
    <3>3. QED
      BY <3>1, <3>2
  <2>5. QED
    BY <2>3, <2>4 DEF StatsExact
<1>2. QED
  BY <1>1, TreeKept, PTL

=============================================================================
