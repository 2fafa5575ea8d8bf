-------------------------- MODULE ElasticTreeProofs --------------------------
(***************************************************************************)
(* Proofs about the elastic tree, for any keys, any sizes of nodes and any *)
(* limits the code admits: ElasticInv is an inductive invariant, and with  *)
(* it the types are right, the statistics exact, the nodes filled and the  *)
(* marks of parents true, and plain leaves never become more again.  Then  *)
(* OrderInv is one, by which every key that was inserted is found and the  *)
(* list of the leaves runs through the keys in their order.                *)
(***************************************************************************)
EXTENDS ElasticOrder, ElasticLeafProofs

-----------------------------------------------------------------------------
(* The first and the last step of a call *)

\* A call begins: at the root, or with a root made for it.
LEMMA BeginAtRoot ==
  ASSUME ElasticInv, NEW k \in Keys, pc = "idle", k \notin stored, key' = k,
         pc' = "descend", path' = <<>>, newchild' = Null, newkey' = Null,
         root # Null, cur' = root,
         UNCHANGED <<tree, limit2MustCompress, stats>>,
         UNCHANGED <<hybridstatus, stored>>
  PROVE  ElasticInv'
<1>1. /\ heap' = heap /\ root' = root /\ head' = head /\ tail' = tail
      /\ limits' = limits /\ stats' = stats /\ stored' = stored
  BY DEF tree, limits
<1>2. /\ TypeOK /\ newchild = Null /\ \A n \in Inner : MarkTrue(n)
  BY DEF ElasticInv, Tree, CallUnderWay
<1>3. SameNodes
  BY <1>1, <1>2, HeapKept
<1>4. root \in Allocated
  BY <1>2 DEF TypeOK
<1>5. PathLeadsDown' /\ pathEnd' = root
  BY <1>1 DEF PathLeadsDown, pathEnd
<1>6. \A n \in Inner : MarkTrue(n)'
  <2>1. stats'.itemcount \in Nat /\ stats'.itemcount >= stats.itemcount
    BY <1>1, <1>2 DEF TypeOK
  <2>2. QED
    BY <1>1, <1>2, <2>1, MarksKept
<1>7. path' \in Seq(Inner \X Nat) /\ Len(path') = 0
  OBVIOUS
<1>8. heap'[cur'].level + Len(path') = heap'[root'].level
  <2>1. heap[root].level \in Nat
    BY <1>2, <1>4, NodeKinds, LeafFields, InnerFields
  <2>2. QED
    BY <1>1, <1>7, <2>1
<1>9. StepDown
  BY <1>1, <1>2, <1>3, <1>4, <1>5, <1>6, <1>7, <1>8 DEF StepDown
<1>10. QED
  BY <1>9, StepDownInv

\* What the first root takes from the limit leaves it a size_type.
LEMMA LimitType ==
  ASSUME NEW x \in Nat, NEW y \in Nat
  PROVE  (x - y) % SizeTop \in 0 .. SizeTop - 1
<1>1. SizeTop \in Nat /\ SizeTop > 0
  BY ElasticAssumption
<1>2. QED
  BY <1>1

\* The counters after the first leaf of type t of a tree or half of a leaf.
LEMMA NewLeafCounted ==
  ASSUME NEW s \in Counters, NEW t \in Types, NEW r, r = allocated(s, t)
  PROVE  /\ r \in Counters
         /\ r.leaves = s.leaves + 1 /\ r.innernodes = s.innernodes
         /\ r.itemcount = s.itemcount
         /\ \A u \in Types : r.ofType[u] =
              IF u = t THEN s.ofType[u] + 1 ELSE s.ofType[u]
<1>1. PICK f : f = [u \in Types |-> IF u = t THEN s.ofType[u] + 1
                                              ELSE s.ofType[u]]
  OBVIOUS
<1>2. /\ s.leaves \in Int /\ s.innernodes \in Int /\ s.itemcount \in Int
      /\ s.ofType \in [Types -> Int]
  BY DEF Counters
<1>3. f \in [Types -> Int]
  BY <1>1, <1>2
<1>4. r = Stats(s.leaves + 1, s.innernodes, s.itemcount, f)
  <2>1. allocated(s, t) = Stats(s.leaves + 1, s.innernodes, s.itemcount,
          [u \in Types |-> IF u = t THEN s.ofType[u] + 1 ELSE s.ofType[u]])
    BY LeafCounted
  <2>2. QED
    BY <1>1, <2>1
<1>5. PICK l, i, c : /\ l = s.leaves + 1 /\ i = s.innernodes
                     /\ c = s.itemcount
  OBVIOUS
<1>6. l \in Int /\ i \in Int /\ c \in Int /\ r = Stats(l, i, c, f)
  BY <1>2, <1>4, <1>5
<1>7. /\ r \in Counters /\ r.leaves = l /\ r.innernodes = i
      /\ r.itemcount = c /\ r.ofType = f
  BY <1>3, <1>6, CountersGiven
<1>8. \A u \in Types : r.ofType[u] =
        IF u = t THEN s.ofType[u] + 1 ELSE s.ofType[u]
  BY <1>1, <1>7
<1>9. QED
  BY <1>5, <1>7, <1>8

\* The first call makes the root.
LEMMA BeginWithRoot ==
  ASSUME ElasticInv, NEW k \in Keys, Begin(k), root = Null
  PROVE  ElasticInv'
<1> DEFINE r == Leaf(0, {}, 0, Null, Null)
<1>a. /\ pc = "idle" /\ k \notin stored /\ key' = k /\ pc' = "descend"
      /\ path' = <<>> /\ newchild' = Null /\ newkey' = Null /\ canAllocate
      /\ hybridstatus' = hybridstatus /\ stored' = stored
  BY DEF Begin
<1>b. PICK n : /\ n = fresh
               /\ root' = n /\ head' = n /\ tail' = n /\ cur' = n
  BY DEF Begin
<1>c. heap' = put(heap, n, r)
  BY <1>b DEF Begin, Leaf
<1>d. /\ limit2MustCompress' = (limit2MustCompress - NodeBytes) % SizeTop
      /\ stats' = allocated(stats, 0)
  BY DEF Begin
<1>1. TypeOK /\ Counted /\ newchild = Null
  BY <1>a DEF ElasticInv, CallUnderWay
<1>2. Allocated = {} /\ Leaves = {} /\ Inner = {}
  <2>1. Allocated = {}
    BY DEF ElasticInv, Tree
  <2>2. QED
    BY <2>1 DEF Leaves, Inner
<1>3. stored = {}
  <2>1. beingStored = {}
    BY <1>a DEF beingStored
  <2>2. UNION {heap[m].items : m \in Leaves} = stored \cup beingStored
    BY DEF ElasticInv, Tree
  <2>3. QED
    BY <1>2, <2>1, <2>2
<1>4. n \in Nodes /\ Null \notin Nodes
  BY <1>a, <1>b, FreshNode, ElasticAssumption
<1>6. /\ Allocated' = {n} /\ heap'[n] = r
      /\ heap' = [m \in Allocated' |-> heap'[m]]
  <2>1. DOMAIN heap = {}
    BY <1>2 DEF Allocated
  <2> HIDE DEF r
  <2>2. QED
    BY <1>c, <2>1 DEF put, Allocated
<1>7. r \in LeafNodes
  BY TypeFacts, NodeRecords DEF Pointers
<1>8. Leaves' = {n} /\ Inner' = {}
  <2>1. heap'[n].level = 0
    BY <1>6, GivenFields
  <2>2. Leaves' = {m \in Allocated' : heap'[m].level = 0}
    BY DEF Leaves
  <2>3. Leaves' = {n}
    BY <1>6, <2>1, <2>2
  <2>4. QED
    BY <1>6, <2>3 DEF Inner
<1>9. /\ heap'[n].blindileaftype = 0 /\ heap'[n].items = {}
      /\ heap'[n].slotuse = 0 /\ heap'[n].prevleaf = Null
      /\ heap'[n].nextleaf = Null /\ heap'[n].level = 0
  BY <1>6, GivenFields
<1> HIDE DEF r
<1>10. heap' \in [Allocated' -> LeafNodes \cup InnerNodes]
  BY <1>6, <1>7
<1>11. /\ stats' \in Counters /\ stats'.leaves = stats.leaves + 1
       /\ stats'.innernodes = stats.innernodes
       /\ stats'.itemcount = stats.itemcount
       /\ \A t \in Types : stats'.ofType[t] =
            IF t = 0 THEN stats.ofType[t] + 1 ELSE stats.ofType[t]
  <2>1. stats \in Counters /\ 0 \in Types
    BY <1>1, CountersType, TypeFacts
  <2>2. QED
    BY <1>d, <2>1, NewLeafCounted
<1>12. /\ stats.leaves = 0 /\ stats.innernodes = 0 /\ stats.itemcount = 0
       /\ \A t \in Types : stats.ofType[t] = 0
  <2>1. \A t \in Types : {m \in Leaves : heap[m].blindileaftype = t} = {}
    BY <1>2
  <2>2. QED
    BY <1>1, <1>2, <1>3, <2>1, FS_EmptySet DEF Counted
<1>13. Counted'
  <2>1. IsFiniteSet({n}) /\ Cardinality({n}) = 1
        /\ IsFiniteSet({}) /\ Cardinality({}) = 0
    BY FS_Singleton, FS_EmptySet
  <2>2. stats'.leaves = 1 /\ stats'.innernodes = 0 /\ stats'.itemcount = 0
    BY <1>11, <1>12
  <2>3. ASSUME NEW t \in Types
        PROVE  stats'.ofType[t]
                 = Cardinality({m \in Leaves' : heap'[m].blindileaftype = t})
    <3>1. CASE t = 0
      <4>1. {m \in Leaves' : heap'[m].blindileaftype = t} = {n}
        BY <1>8, <1>9, <3>1
      <4>2. stats'.ofType[t] = 1
        BY <1>11, <1>12, <3>1
      <4>3. QED
        BY <2>1, <4>1, <4>2
    <3>2. CASE t # 0
      <4>1. {m \in Leaves' : heap'[m].blindileaftype = t} = {}
        BY <1>8, <1>9, <3>2
      <4>2. stats'.ofType[t] = 0
        BY <1>11, <1>12, <3>2
      <4>3. QED
        BY <2>1, <4>1, <4>2
    <3>3. QED
      BY <3>1, <3>2
  <2>4. stored' = {}
    BY <1>3, <1>a
  <2>5. QED
    BY <1>6, <1>8, <2>1, <2>2, <2>3, <2>4 DEF Counted
<1>14. hybridstatus = "CONTINUE"
  <2>1. hybridstatus # "CONTINUE" => stats.itemcount > ShouldLimit
    BY DEF ElasticInv, StatusDriven
  <2>2. ShouldLimit \in Nat
    BY ElasticAssumption
  <2>3. QED
    BY <1>12, <2>1, <2>2
<1>15. Tree'
  <2>1. ~rootSplit' /\ beingStored' = {}
    BY <1>a DEF rootSplit, beingStored
  <2>2. LinkedOnce'
    BY <1>4, <1>6, <1>8, <1>a, <1>b DEF LinkedOnce
  <2>3. ListLinked'
    BY <1>8, <1>9 DEF ListLinked
  <2>4. LeafFilled(n)'
    <3>1. IsFiniteSet({}) /\ Cardinality({}) = 0
      BY FS_EmptySet
    <3>2. heap'[n].slotuse <= leafslotmax
      BY <1>9, TypeSlots
    <3>3. capacity(n)' = leafslotmax
      <4>1. ~(heap'[n].blindileaftype > 0)
        BY <1>9
      <4>2. QED
        BY <4>1 DEF capacity, isblindileafnode
    <3>4. ~(n # root' \/ rootSplit')
      BY <1>b, <2>1
    <3>5. /\ IsFiniteSet(heap'[n].items)
          /\ heap'[n].slotuse = Cardinality(heap'[n].items)
          /\ heap'[n].slotuse <= capacity(n)'
      BY <1>9, <3>1, <3>2, <3>3
    <3>6. QED
      BY <3>4, <3>5 DEF LeafFilled
  <2>5. UNION {heap'[m].items : m \in Leaves'} = {}
    BY <1>8, <1>9
  <2>6. RootLeafPlain'
    <3>1. stats'.itemcount = 0 /\ heap'[root'].slotuse = 0
      BY <1>9, <1>11, <1>12, <1>b
    <3>2. (IF pc' = "unwind" THEN 1 ELSE 0) = 0
      BY <1>a
    <3>3. stats'.itemcount + (IF pc' = "unwind" THEN 1 ELSE 0)
            <= heap'[root'].slotuse
      BY <3>1, <3>2
    <3>4. hybridstatus' = "CONTINUE" /\ heap'[root'].blindileaftype = 0
      BY <1>9, <1>14, <1>a, <1>b
    <3>5. QED
      BY <3>3, <3>4 DEF RootLeafPlain
  <2>7. root' # Null
    BY <1>4, <1>b
  <2>8. QED
    BY <1>3, <1>8, <1>a, <2>1, <2>2, <2>3, <2>4, <2>5, <2>6, <2>7 DEF Tree
<1>16. TypeOK'
  <2>1. limit2MustCompress' \in 0 .. SizeTop - 1
    <3>1. limit2MustCompress \in Nat /\ NodeBytes \in Nat
      BY <1>1, ElasticAssumption DEF TypeOK
    <3>2. QED
      BY <1>d, <3>1, LimitType
  <2>2. stats' \in [leaves : Nat, innernodes : Nat, itemcount : Nat,
                    ofType : [Types -> Nat]]
    BY <1>11, <1>13, CountersType
  <2>3. /\ hybridstatus' \in {"CONTINUE", "SHOULD_COMPRESS", "MUST_COMPRESS"}
        /\ stored' \subseteq Keys
    BY <1>1, <1>a DEF TypeOK
  <2>4. path' \in Seq(Inner' \X Nat)
    BY <1>a
  <2>5. QED
    BY <1>4, <1>6, <1>8, <1>10, <1>a, <1>b, <2>1, <2>2, <2>3, <2>4
    DEF TypeOK, Pointers
<1>17. CallUnderWay'
  <2>1. PathLeadsDown' /\ pathEnd' = n
    BY <1>a, <1>b DEF PathLeadsDown, pathEnd
  <2>2. SplitAlike'
    BY <1>a DEF SplitAlike
  <2>3. heap'[cur'].level + Len(path') = heap'[root'].level
    BY <1>9, <1>a, <1>b
  <2>4. QED
    BY <1>3, <1>4, <1>6, <1>a, <1>b, <2>1, <2>2, <2>3 DEF CallUnderWay
<1>18. StatusDriven'
  <2>1. newchild' \notin Leaves'
    BY <1>4, <1>8, <1>a
  <2>2. ~(stats'.itemcount > ShouldLimit)
    BY <1>11, <1>12, ElasticAssumption
  <2>3. hybridstatus' = "CONTINUE"
    BY <1>14, <1>a
  <2>4. QED
    BY <1>a, <2>1, <2>2, <2>3 DEF StatusDriven
<1>19. QED
  BY <1>13, <1>15, <1>16, <1>17, <1>18 DEF ElasticInv

-----------------------------------------------------------------------------
(* Steps of a call that has stored its key *)

\* A path leads down through inner nodes that stay what they were.
LEMMA KeptPath ==
  ASSUME TypeOK, PathLeadsDown, root' = root, path' = path,
         \A n \in Inner : heap'[n] = heap[n],
         heap'[root].level = heap[root].level
  PROVE  PathLeadsDown' /\ (path # <<>> => pathEnd' = pathEnd)
<1>1. path \in Seq(Inner \X Nat) /\ Len(path) \in Nat
  BY DEF TypeOK
<1>2. \A e \in 1 .. Len(path) : path[e] \in Inner \X Nat
  BY <1>1
<1>3. \A e \in 1 .. Len(path) : path[e][1] \in Inner
  BY <1>2
<1>4. \A e \in 1 .. Len(path) :
        /\ path[e][2] \in 0 .. Len(heap'[path[e][1]].slotkey)
        /\ heap'[path[e][1]].level + e = heap'[root].level + 1
  BY <1>3 DEF PathLeadsDown
<1>5. \A e \in 1 .. Len(path) - 1 :
        path[e + 1][1] = heap'[path[e][1]].childid[path[e][2] + 1]
  <2>1. \A e \in 1 .. Len(path) - 1 : e \in 1 .. Len(path)
    BY <1>1
  <2>2. QED
    BY <1>3, <2>1 DEF PathLeadsDown
<1>6. PathLeadsDown'
  BY <1>4, <1>5 DEF PathLeadsDown
<1>7. ASSUME path # <<>> PROVE pathEnd' = pathEnd
  <2>1. above' = above /\ above = path[Len(path)]
    BY <1>7 DEF above, Last
  <2>2. Len(path) \in 1 .. Len(path)
    BY <1>1, <1>7
  <2>3. above[1] \in Inner
    BY <1>3, <2>1, <2>2
  <2>4. QED
    BY <1>7, <2>1, <2>3 DEF pathEnd
<1>8. QED
  BY <1>6, <1>7

\* The key enters a leaf that has room.
LEMMA StoreRoomInv ==
  ASSUME ElasticInv, StoreRoom
  PROVE  ElasticInv'
<1>1. /\ pc = "store" /\ pc' = "unwind"
      /\ heap' = [heap EXCEPT ![cur] = with(@, key)]
      /\ root' = root /\ head' = head /\ tail' = tail
      /\ hybridstatus' = hybridstatus
      /\ limit2MustCompress' = limit2MustCompress
      /\ stats' = stats /\ key' = key /\ cur' = cur /\ path' = path
      /\ newkey' = newkey /\ newchild' = newchild /\ stored' = stored
  BY DEF StoreRoom, limits, split
<1>2. IF isblindileafnode(cur) THEN ~isfullblindi(cur) ELSE ~isfullbtree(cur)
  BY DEF StoreRoom
<1>3. /\ TypeOK /\ LinkedOnce /\ ListLinked /\ RootLeafPlain /\ Counted
      /\ PathLeadsDown /\ newchild = Null /\ root # Null
      /\ \A n \in Inner : InnerFilled(n) /\ MarkTrue(n)
      /\ \A n \in Leaves : LeafFilled(n)
      /\ UNION {heap[n].items : n \in Leaves} = stored \cup beingStored
      /\ cur \in Leaves /\ cur = pathEnd /\ key \in Keys \ stored
      /\ heap[cur].level + Len(path) = heap[root].level
  BY <1>1 DEF ElasticInv, Tree, CallUnderWay
<1>4. /\ cur \in Allocated /\ heap[cur] \in LeafNodes /\ root \in Allocated
      /\ Leaves \subseteq Allocated /\ Inner \subseteq Allocated
  BY <1>3, NodeKinds DEF TypeOK
<1>5. PICK t, S, u, a, b :
        /\ t = heap[cur].blindileaftype /\ S = heap[cur].items
        /\ u = heap[cur].slotuse /\ a = heap[cur].prevleaf
        /\ b = heap[cur].nextleaf
  OBVIOUS
<1>6. /\ heap[cur] = Leaf(t, S, u, a, b) /\ t \in Types /\ S \in SUBSET Keys
      /\ u \in Nat /\ a \in Pointers /\ b \in Pointers
  BY <1>4, <1>5, LeafFields
<1>7. /\ DOMAIN heap' = DOMAIN heap /\ heap' = [n \in DOMAIN heap |-> heap'[n]]
      /\ heap'[cur] = with(heap[cur], key)
      /\ \A n \in Allocated : n # cur => heap'[n] = heap[n]
  BY <1>1, <1>4 DEF Allocated
<1>8. heap'[cur] = Leaf(t, S \cup {key}, u + 1, a, b)
  BY <1>6, <1>7, LeafWith
<1>9. /\ heap'[cur].level = 0 /\ heap'[cur].blindileaftype = t
      /\ heap'[cur].items = S \cup {key} /\ heap'[cur].slotuse = u + 1
      /\ heap'[cur].prevleaf = a /\ heap'[cur].nextleaf = b
      /\ heap'[cur] \in LeafNodes
  <2>1. S \cup {key} \in SUBSET Keys /\ u + 1 \in Nat
    BY <1>3, <1>6
  <2>2. QED
    BY <1>6, <1>8, <2>1, GivenFields, NodeRecords
<1>10. Allocated' = Allocated
  BY <1>7 DEF Allocated
<1>11. \A n \in Allocated : heap'[n].level = heap[n].level
  BY <1>3, <1>7, <1>9 DEF Leaves
<1>12. Leaves' = Leaves /\ Inner' = Inner
  <2>1. Leaves' = Leaves
    BY <1>10, <1>11 DEF Leaves
  <2>2. QED
    BY <1>10, <2>1 DEF Inner
<1>13. \A n \in Inner : heap'[n] = heap[n]
  BY <1>3, <1>7, NodeKinds
<1>14. \A n \in Leaves :
         /\ heap'[n].blindileaftype = heap[n].blindileaftype
         /\ heap'[n].prevleaf = heap[n].prevleaf
         /\ heap'[n].nextleaf = heap[n].nextleaf
         /\ n # cur => heap'[n] = heap[n]
  BY <1>4, <1>5, <1>7, <1>9
<1>15. key \notin S
  <2>1. S \subseteq UNION {heap[n].items : n \in Leaves}
    BY <1>3, <1>5
  <2>2. beingStored = {}
    BY <1>1 DEF beingStored
  <2>3. QED
    BY <1>3, <2>1, <2>2
<1>16. ~rootSplit /\ ~rootSplit' /\ newchild' = Null
  BY <1>1, <1>3 DEF rootSplit
<1>17. LinkedOnce'
  <2>1. \A n \in Inner : Slots(n)' = Slots(n)
    BY <1>13 DEF Slots
  <2>2. QED
    BY <1>1, <1>3, <1>10, <1>12, <1>13, <2>1 DEF LinkedOnce
<1>18. \A n \in Inner : InnerFilled(n)' /\ MarkTrue(n)'
  <2> TAKE n \in Inner
  <2>1. /\ heap'[n] = heap[n] /\ Slots(n)' = Slots(n) /\ InnerFilled(n)
        /\ MarkTrue(n)
    BY <1>3, <1>13 DEF Slots
  <2>2. \A i \in Slots(n) : heap[n].childid[i] \in Allocated
    BY <1>3 DEF TypeOK, Slots
  <2>3. \A i \in Slots(n) :
          heap'[heap'[n].childid[i]].level + 1 = heap'[n].level
    BY <1>11, <2>1, <2>2 DEF InnerFilled
  <2>4. InnerFilled(n)'
    BY <1>1, <1>16, <2>1, <2>3 DEF InnerFilled
  <2>5. MarkTrue(n)'
    BY <1>1, <1>12, <1>14, <2>1 DEF MarkTrue, isblindileafnode
  <2>6. QED
    BY <2>4, <2>5
<1>19. /\ capacity(cur)' = capacity(cur) /\ u + 1 <= capacity(cur)
  <2>1. isblindileafnode(cur)' <=> isblindileafnode(cur)
    BY <1>1, <1>5, <1>9 DEF isblindileafnode
  <2>2. u <= capacity(cur) /\ capacity(cur) \in Nat
    BY <1>3, <1>5, <1>6, TypeSlots DEF LeafFilled, capacity
  <2>3. u # capacity(cur)
    BY <1>2, <1>5 DEF capacity, isfullblindi, isfullbtree
  <2>4. u + 1 <= capacity(cur)
    BY <1>6, <2>2, <2>3
  <2>5. capacity(cur)' = capacity(cur)
    BY <1>1, <1>5, <1>9, <2>1 DEF capacity
  <2>6. QED
    BY <2>4, <2>5
<1>20. \A n \in Leaves : LeafFilled(n)'
  <2> TAKE n \in Leaves
  <2>1. CASE n = cur
    <3>1. IsFiniteSet(S) /\ u = Cardinality(S)
      BY <1>3, <1>5 DEF LeafFilled
    <3>2. IsFiniteSet(S \cup {key}) /\ Cardinality(S \cup {key}) = u + 1
      BY <1>15, <3>1, FS_AddElement
    <3>3. cur # root \/ rootSplit' => u + 1 >= leafslotmax \div 2
      <4>1. cur # root => u >= leafslotmax \div 2
        BY <1>3, <1>5 DEF LeafFilled
      <4>2. leafslotmax \div 2 \in Nat
        BY TypeSlots
      <4>3. QED
        BY <1>6, <1>16, <4>1, <4>2
    <3>4. QED
      BY <1>1, <1>9, <1>19, <2>1, <3>2, <3>3 DEF LeafFilled
  <2>2. CASE n # cur
    <3>1. heap'[n] = heap[n] /\ LeafFilled(n)
      BY <1>3, <1>14, <2>2
    <3>2. QED
      BY <1>1, <1>16, <3>1 DEF LeafFilled, capacity, isblindileafnode
  <2>3. QED
    BY <2>1, <2>2
<1>21. ListLinked'
  <2>1. \A n \in Leaves : heap[n].nextleaf # Null =>
          /\ heap[n].nextleaf \in Leaves \ {n}
          /\ heap'[heap[n].nextleaf].prevleaf = n
    BY <1>3, <1>14 DEF ListLinked
  <2>2. \A n \in Leaves : heap[n].prevleaf # Null =>
          /\ heap[n].prevleaf \in Leaves \ {n}
          /\ heap'[heap[n].prevleaf].nextleaf = n
    BY <1>3, <1>14 DEF ListLinked
  <2>3. /\ \A m, n \in Leaves :
             heap'[m].prevleaf = Null /\ heap'[n].prevleaf = Null => m = n
        /\ root # Null => \E n \in Leaves : heap'[n].prevleaf = Null
    BY <1>3, <1>14 DEF ListLinked
  <2>4. QED
    BY <1>1, <1>12, <1>14, <2>1, <2>2, <2>3 DEF ListLinked
<1>22. UNION {heap'[n].items : n \in Leaves'} = stored' \cup beingStored'
  <2>1. PICK A : A = UNION {heap[n].items : n \in Leaves \ {cur}}
    OBVIOUS
  <2>2. UNION {heap[n].items : n \in Leaves} = A \cup S
    BY <1>3, <1>5, <2>1
  <2>3. UNION {heap'[n].items : n \in Leaves'} = A \cup (S \cup {key})
    BY <1>3, <1>9, <1>12, <1>14, <2>1
  <2>4. beingStored = {} /\ beingStored' = {key}
    BY <1>1 DEF beingStored
  <2>5. A \cup S = stored
    BY <1>3, <2>2, <2>4
  <2>6. A \cup (S \cup {key}) = stored \cup {key}
    BY <2>5
  <2>7. QED
    BY <1>1, <2>3, <2>4, <2>6
<1>23. RootLeafPlain'
  <2>1. SUFFICES ASSUME root \in Leaves
                 PROVE  /\ hybridstatus = "CONTINUE"
                        /\ heap'[root].blindileaftype = 0
                        /\ stats.itemcount + 1 <= heap'[root].slotuse
    BY <1>1, <1>12 DEF RootLeafPlain
  <2>2. path = <<>>
    <3>1. heap[root].level = 0 /\ heap[cur].level = 0
      BY <1>3, <2>1 DEF Leaves
    <3>2. path \in Seq(Inner \X Nat) /\ Len(path) \in Nat
      BY <1>3 DEF TypeOK
    <3>3. Len(path) = 0
      BY <1>3, <3>1, <3>2
    <3>4. QED
      BY <3>2, <3>3
  <2>3. cur = root
    BY <1>3, <2>2 DEF pathEnd
  <2>4. /\ hybridstatus = "CONTINUE" /\ t = 0 /\ stats.itemcount + 0 <= u
    BY <1>1, <1>3, <1>5, <1>16, <2>1, <2>3 DEF RootLeafPlain
  <2>5. stats.itemcount \in Nat
    BY <1>3 DEF TypeOK
  <2>6. QED
    BY <1>6, <1>9, <2>3, <2>4, <2>5
<1>24. Tree'
  BY <1>1, <1>3, <1>12, <1>17, <1>18, <1>20, <1>21, <1>22, <1>23 DEF Tree
<1>25. TypeOK'
  <2>1. heap' \in [Allocated' -> LeafNodes \cup InnerNodes]
    <3>1. \A n \in Allocated : heap'[n] \in LeafNodes \cup InnerNodes
      BY <1>3, <1>7, <1>9 DEF TypeOK
    <3>2. QED
      BY <1>7, <1>10, <3>1 DEF Allocated
  <2>2. \A n \in Inner' : heap'[n].childid \in Seq(Allocated')
    BY <1>3, <1>10, <1>12, <1>13 DEF TypeOK
  <2>3. QED
    BY <1>1, <1>3, <1>10, <1>12, <2>1, <2>2 DEF TypeOK
<1>26. CallUnderWay'
  <2>1. PathLeadsDown'
    BY <1>1, <1>3, <1>4, <1>11, <1>13, KeptPath
  <2>2. SplitAlike'
    BY <1>16 DEF SplitAlike
  <2>3. QED
    BY <1>1, <1>3, <2>1, <2>2 DEF CallUnderWay
<1>27. Counted'
  <2>1. \A y : {n \in Leaves' : heap'[n].blindileaftype = y}
                 = {n \in Leaves : heap[n].blindileaftype = y}
    BY <1>12, <1>14
  <2>2. QED
    BY <1>1, <1>3, <1>10, <1>12, <2>1 DEF Counted
<1>28. StatusDriven'
  <2>1. newchild' \notin Leaves'
    BY <1>4, <1>12, <1>16, <1>3, ElasticAssumption DEF TypeOK
  <2>2. StatusDriven
    BY DEF ElasticInv
  <2>3. pc' # "store"
    BY <1>1
  <2>4. QED
    BY <1>1, <2>1, <2>2, <2>3 DEF StatusDriven
<1>29. QED
  BY <1>24, <1>25, <1>26, <1>27, <1>28 DEF ElasticInv

\* A call begins.
LEMMA BeginInv ==
  ASSUME ElasticInv, NEW k \in Keys, Begin(k)
  PROVE  ElasticInv'
<1>1. CASE root = Null
  BY <1>1, BeginWithRoot
<1>2. CASE root # Null
  BY <1>2, BeginAtRoot DEF Begin
<1>3. QED
  BY <1>1, <1>2

-----------------------------------------------------------------------------
(* The end of a call *)

\* The counters s with a items and b inner nodes more.
MoreCounted(r, s, a, b) ==
  r = [s EXCEPT !.itemcount = @ + a, !.innernodes = @ + b]

\* What counting an item and an inner node changes in the counters.
LEMMA ItemsCounted ==
  ASSUME NEW s \in Counters, NEW a \in Int, NEW b \in Int, NEW r,
         MoreCounted(r, s, a, b)
  PROVE  /\ r \in Counters
         /\ r.leaves = s.leaves /\ r.innernodes = s.innernodes + b
         /\ r.itemcount = s.itemcount + a /\ r.ofType = s.ofType
<1>1. PICK l, i, c, f : /\ l = s.leaves /\ i = s.innernodes
                        /\ c = s.itemcount /\ f = s.ofType
  OBVIOUS
<1>2. /\ s = Stats(l, i, c, f) /\ f \in [Types -> Int]
      /\ l \in Int /\ i \in Int /\ c \in Int
  BY <1>1 DEF Counters, Stats
<1>3. PICK x, y : x = c + a /\ y = i + b
  OBVIOUS
<1>4. r = [Stats(l, i, c, f) EXCEPT !.itemcount = x, !.innernodes = y]
  <2>1. r = [s EXCEPT !.itemcount = s.itemcount + a,
                      !.innernodes = s.innernodes + b]
    BY DEF MoreCounted
  <2>2. QED
    BY <1>1, <1>2, <1>3, <2>1
<1>5. /\ [Stats(l, i, c, f) EXCEPT !.itemcount = x] = Stats(l, i, x, f)
      /\ [Stats(l, i, x, f) EXCEPT !.innernodes = y] = Stats(l, y, x, f)
  BY DEF Stats
<1>6. r = [[Stats(l, i, c, f) EXCEPT !.itemcount = x] EXCEPT !.innernodes = y]
  BY <1>4
<1>7. r = Stats(l, y, x, f)
  BY <1>5, <1>6
<1>8. x \in Int /\ y \in Int
  BY <1>2, <1>3
<1>9. /\ r \in Counters /\ r.leaves = l /\ r.innernodes = y
      /\ r.itemcount = x /\ r.ofType = f
  BY <1>2, <1>7, <1>8, CountersGiven
<1>10. QED
  BY <1>1, <1>3, <1>9

\* Where the switch leads.
LEMMA NextStatus ==
  ASSUME NEW s \in {"CONTINUE", "SHOULD_COMPRESS", "MUST_COMPRESS"},
         NEW plain \in Nat, NEW count \in Nat, NEW must \in Nat, NEW r,
         r = nextStatus(s, plain, count, must)
  PROVE  /\ r \in {"CONTINUE", "SHOULD_COMPRESS", "MUST_COMPRESS"}
         /\ s = "CONTINUE" /\ ~(count > ShouldLimit) => r = "CONTINUE"
         /\ r = "CONTINUE" /\ count > ShouldLimit => plain = 0
         /\ r # "CONTINUE" => s # "CONTINUE" \/ count > ShouldLimit
<1>1. ShouldLimit \in Nat
  BY ElasticAssumption
<1>2. CASE s = "CONTINUE" /\ plain > 0 /\ count > ShouldLimit
  BY <1>2 DEF nextStatus
<1>3. CASE s = "CONTINUE" /\ ~(plain > 0 /\ count > ShouldLimit)
  <2>1. r = s
    BY <1>3 DEF nextStatus
  <2>2. QED
    BY <1>1, <1>3, <2>1
<1>4. CASE s = "SHOULD_COMPRESS"
  BY <1>4 DEF nextStatus
<1>5. CASE s = "MUST_COMPRESS"
  BY <1>5 DEF nextStatus
<1>6. QED
  BY <1>2, <1>3, <1>4, <1>5

\* What the end of a call does to all but the nodes.
Ended ==
  /\ pc = "unwind" /\ pc' = "idle"
  /\ head' = head /\ tail' = tail
  /\ limit2MustCompress' \in 0 .. SizeTop - 1
  /\ stored' = stored \cup {key} /\ key \in Keys \ stored
  /\ stats' \in Counters /\ stats'.itemcount = stats.itemcount + 1
  /\ stats'.leaves = stats.leaves /\ stats'.ofType = stats.ofType
  /\ hybridstatus' \in {"CONTINUE", "SHOULD_COMPRESS", "MUST_COMPRESS"}
  /\ hybridstatus = "CONTINUE" /\ ~(stats.itemcount + 1 > ShouldLimit)
       => hybridstatus' = "CONTINUE"
  /\ hybridstatus' = "CONTINUE" /\ stats.itemcount + 1 > ShouldLimit
       => stats.ofType[0] = 0
  /\ hybridstatus' # "CONTINUE" => stats.itemcount + 1 > ShouldLimit
  /\ key' = Null /\ cur' = Null /\ path' = <<>> /\ newkey' = Null
  /\ newchild' = Null

\* The end of a call counts its key and sets the status by the counts.
LEMMA FinishEnds ==
  ASSUME ElasticInv, Finish
  PROVE  /\ Ended
         /\ stats'.innernodes
              = stats.innernodes + (IF newchild # Null THEN 1 ELSE 0)
<1>1. /\ pc = "unwind" /\ pc' = "idle" /\ head' = head /\ tail' = tail
      /\ stored' = stored \cup {key}
      /\ key' = Null /\ cur' = Null /\ path' = <<>> /\ newkey' = Null
      /\ newchild' = Null
  BY DEF Finish
<1>2. TypeOK /\ StatusDriven /\ key \in Keys \ stored
  BY <1>1 DEF ElasticInv, CallUnderWay
<1>3. PICK must : must = IF newchild # Null
                         THEN (limit2MustCompress - InnerBytes) % SizeTop
                         ELSE limit2MustCompress
  OBVIOUS
<1>4. /\ limit2MustCompress' = must
      /\ stats' = [stats EXCEPT !.itemcount = @ + 1,
                   !.innernodes = @ + IF newchild # Null THEN 1 ELSE 0]
      /\ hybridstatus' = nextStatus(hybridstatus, stats.ofType[0],
                                    stats.itemcount + 1, must)
  BY <1>3 DEF Finish
<1>5. must \in 0 .. SizeTop - 1 /\ must \in Nat
  <2>1. limit2MustCompress \in 0 .. SizeTop - 1 /\ InnerBytes \in Nat
        /\ limit2MustCompress \in Nat
    BY <1>2, ElasticAssumption DEF TypeOK
  <2>2. (limit2MustCompress - InnerBytes) % SizeTop \in 0 .. SizeTop - 1
    BY <2>1, LimitType
  <2>3. must \in 0 .. SizeTop - 1
    BY <1>3, <2>1, <2>2
  <2>4. QED
    BY <2>3
<1>6. /\ stats' \in Counters /\ stats'.itemcount = stats.itemcount + 1
      /\ stats'.leaves = stats.leaves /\ stats'.ofType = stats.ofType
      /\ stats'.innernodes
           = stats.innernodes + (IF newchild # Null THEN 1 ELSE 0)
  <2>1. PICK g : g = IF newchild # Null THEN 1 ELSE 0
    OBVIOUS
  <2>2. g \in Int /\ 1 \in Int /\ stats \in Counters
    BY <1>2, <2>1, CountersType
  <2>3. MoreCounted(stats', stats, 1, g)
    BY <1>4, <2>1 DEF MoreCounted
  <2>4. QED
    BY <2>1, <2>2, <2>3, ItemsCounted
<1>7. /\ hybridstatus \in {"CONTINUE", "SHOULD_COMPRESS", "MUST_COMPRESS"}
      /\ stats.ofType[0] \in Nat /\ stats.itemcount \in Nat
      /\ stats.itemcount + 1 \in Nat
  <2>1. /\ hybridstatus \in {"CONTINUE", "SHOULD_COMPRESS", "MUST_COMPRESS"}
        /\ stats.ofType \in [Types -> Nat] /\ stats.itemcount \in Nat
    BY <1>2 DEF TypeOK
  <2>2. QED
    BY <2>1, TypeFacts
<1>8. /\ hybridstatus' \in {"CONTINUE", "SHOULD_COMPRESS", "MUST_COMPRESS"}
      /\ hybridstatus = "CONTINUE" /\ ~(stats.itemcount + 1 > ShouldLimit)
           => hybridstatus' = "CONTINUE"
      /\ hybridstatus' = "CONTINUE" /\ stats.itemcount + 1 > ShouldLimit
           => stats.ofType[0] = 0
      /\ hybridstatus' # "CONTINUE"
           => hybridstatus # "CONTINUE" \/ stats.itemcount + 1 > ShouldLimit
  BY <1>4, <1>5, <1>7, NextStatus
<1>9. hybridstatus' # "CONTINUE" => stats.itemcount + 1 > ShouldLimit
  <2>1. hybridstatus # "CONTINUE" => stats.itemcount > ShouldLimit
    BY <1>2 DEF StatusDriven
  <2>2. ShouldLimit \in Nat
    BY ElasticAssumption
  <2>3. QED
    BY <1>7, <1>8, <2>1, <2>2
<1>10. QED
  BY <1>1, <1>2, <1>4, <1>5, <1>6, <1>8, <1>9 DEF Ended

\* The invariant after it, once the nodes are seen to be in order.
LEMMA EndedInv ==
  ASSUME ElasticInv, Ended, TreeParts', Leaves' = Leaves,
         \A n \in Leaves : heap'[n] = heap[n],
         \A n \in Inner' : heap'[n].childid \in Seq(Allocated') /\ MarkTrue(n)',
         heap' \in [Allocated' -> LeafNodes \cup InnerNodes],
         Allocated' \subseteq Nodes, IsFiniteSet(Allocated'),
         root' \in Allocated' \cup {Null},
         stats'.innernodes = Cardinality(Inner'),
         RootLeafPlain'
  PROVE  ElasticInv'
<1>1. /\ TypeOK /\ Counted
      /\ UNION {heap[n].items : n \in Leaves} = stored \cup beingStored
  BY DEF ElasticInv, Tree
<1>2. UNION {heap'[n].items : n \in Leaves'} = stored' \cup beingStored'
  <2>1. beingStored = {key} /\ beingStored' = {}
    BY DEF Ended, beingStored
  <2>2. stored' = stored \cup {key}
    BY DEF Ended
  <2>3. UNION {heap'[n].items : n \in Leaves'}
          = UNION {heap[n].items : n \in Leaves}
    OBVIOUS
  <2>4. QED
    BY <1>1, <2>1, <2>2, <2>3
<1>3. Tree'
  BY <1>2 DEF Tree, TreeParts
<1>4. Counted'
  <2>1. IsFiniteSet(stored) /\ stats.itemcount = Cardinality(stored)
    BY <1>1 DEF Counted
  <2>2. key \notin stored /\ stored' = stored \cup {key}
    BY DEF Ended
  <2>3. IsFiniteSet(stored') /\ Cardinality(stored') = Cardinality(stored) + 1
    BY <2>1, <2>2, FS_AddElement
  <2>4. \A t : {n \in Leaves' : heap'[n].blindileaftype = t}
                 = {n \in Leaves : heap[n].blindileaftype = t}
    OBVIOUS
  <2>5. /\ stats'.leaves = stats.leaves /\ stats'.ofType = stats.ofType
        /\ stats'.itemcount = stats.itemcount + 1
    BY DEF Ended
  <2>6. /\ stats'.leaves = Cardinality(Leaves')
        /\ stats'.itemcount = Cardinality(stored')
    BY <1>1, <2>1, <2>3, <2>5 DEF Counted
  <2>7. \A t \in Types : stats'.ofType[t] =
          Cardinality({n \in Leaves' : heap'[n].blindileaftype = t})
    BY <1>1, <2>4, <2>5 DEF Counted
  <2>8. QED
    BY <2>3, <2>6, <2>7 DEF Counted
<1>5. TypeOK'
  <2>1. stats' \in [leaves : Nat, innernodes : Nat, itemcount : Nat,
                    ofType : [Types -> Nat]]
    BY <1>4, CountersType DEF Ended
  <2>2. /\ {head', tail'} \subseteq Pointers /\ stored' \subseteq Keys
    BY <1>1 DEF Ended, TypeOK
  <2>3. /\ limit2MustCompress' \in 0 .. SizeTop - 1
        /\ hybridstatus' \in {"CONTINUE", "SHOULD_COMPRESS", "MUST_COMPRESS"}
        /\ pc' = "idle" /\ key' = Null /\ cur' = Null /\ path' = <<>>
        /\ newkey' = Null /\ newchild' = Null
    BY DEF Ended
  <2>4. path' \in Seq(Inner' \X Nat)
    BY <2>3
  <2>5. QED
    BY <2>1, <2>2, <2>3, <2>4 DEF TypeOK
<1>6. CallUnderWay'
  <2>1. /\ pc' = "idle" /\ key' = Null /\ path' = <<>> /\ newchild' = Null
    BY DEF Ended
  <2>2. PathLeadsDown'
    BY <2>1 DEF PathLeadsDown
  <2>3. SplitAlike'
    BY <2>1 DEF SplitAlike
  <2>4. QED
    BY <2>1, <2>2, <2>3 DEF CallUnderWay
<1>7. StatusDriven'
  <2>1. newchild' \notin Leaves'
    BY NodeKinds, <1>1, ElasticAssumption DEF Ended
  <2>2. stats'.itemcount = stats.itemcount + 1 /\ stats'.ofType = stats.ofType
        /\ pc' = "idle"
    BY DEF Ended
  <2>3. /\ hybridstatus' = "CONTINUE" /\ stats'.itemcount > ShouldLimit
             => stats'.ofType[0] = 0
        /\ hybridstatus' # "CONTINUE" => stats'.itemcount > ShouldLimit
    BY <2>2 DEF Ended
  <2>4. QED
    BY <2>1, <2>2, <2>3 DEF StatusDriven
<1>8. QED
  BY <1>3, <1>4, <1>5, <1>6, <1>7 DEF ElasticInv

\* The call ends, and the root was not split.
LEMMA FinishBelowInv ==
  ASSUME ElasticInv, Finish, newchild = Null
  PROVE  ElasticInv'
<1>1. /\ heap' = heap /\ root' = root /\ newchild' = Null
      /\ stats'.innernodes = stats.innernodes + 0 /\ Ended
  <2>1. heap' = heap /\ root' = root /\ newchild' = Null
    BY DEF Finish
  <2>2. QED
    BY <2>1, FinishEnds
<1>2. /\ TypeOK /\ TreeParts /\ Counted /\ RootLeafPlain
      /\ \A n \in Inner : MarkTrue(n)
  BY DEF ElasticInv, Tree, TreeParts
<1>3. SameNodes
  BY <1>1, <1>2, HeapKept
<1>4. TreeParts' /\ \A n \in Inner' : heap'[n].childid \in Seq(Allocated')
  BY <1>1, <1>2, <1>3, SameTree
<1>5. stats.itemcount \in Nat /\ stats'.itemcount = stats.itemcount + 1
      /\ stats.innernodes \in Nat
  BY <1>1, <1>2 DEF Ended, TypeOK
<1>6. \A n \in Inner : MarkTrue(n)'
  <2>1. stats'.itemcount \in Nat /\ stats'.itemcount >= stats.itemcount
    BY <1>5
  <2>2. QED
    BY <1>1, <1>2, <2>1, MarksKept
<1>7. RootLeafPlain'
  <2>1. SUFFICES ASSUME root \in Leaves
                 PROVE  /\ hybridstatus' = "CONTINUE"
                        /\ heap[root].blindileaftype = 0
                        /\ stats.itemcount + 1 + 0 <= heap[root].slotuse
    <3>1. ~rootSplit' /\ pc' # "unwind" /\ Leaves' = Leaves
      BY <1>1, <1>3 DEF rootSplit, Ended, SameNodes
    <3>2. stats'.itemcount = stats.itemcount + 1
      BY <1>5
    <3>3. QED
      BY <1>1, <3>1, <3>2 DEF RootLeafPlain
  <2>2. pc = "unwind" /\ ~rootSplit
    BY <1>1 DEF Ended, rootSplit
  <2>3. /\ hybridstatus = "CONTINUE" /\ heap[root].blindileaftype = 0
        /\ stats.itemcount + 1 <= heap[root].slotuse
    BY <1>2, <2>1, <2>2 DEF RootLeafPlain
  <2>4. heap[root].slotuse <= leafslotmax
    <3>1. LeafFilled(root)
      BY <1>2, <2>1 DEF TreeParts
    <3>2. capacity(root) = leafslotmax
      <4>1. ~(heap[root].blindileaftype > 0)
        BY <2>3
      <4>2. QED
        BY <4>1 DEF capacity, isblindileafnode
    <3>3. QED
      BY <3>1, <3>2 DEF LeafFilled
  <2>5. heap[root].slotuse \in Nat
    BY <1>2, <2>1, NodeKinds, LeafFields
  <2>6. ~(stats.itemcount + 1 > ShouldLimit)
    BY <1>5, <2>3, <2>4, <2>5, ElasticAssumption
  <2>7. hybridstatus' = "CONTINUE"
    BY <1>1, <2>3, <2>6 DEF Ended
  <2>8. QED
    BY <1>5, <2>3, <2>5, <2>7
<1>8. stats'.innernodes = Cardinality(Inner')
  <2>1. stats.innernodes = Cardinality(Inner) /\ Inner' = Inner
    BY <1>2, <1>3 DEF Counted, SameNodes
  <2>2. QED
    BY <1>1, <1>5, <2>1
<1>9. /\ Allocated' \subseteq Nodes /\ IsFiniteSet(Allocated')
      /\ root' \in Allocated' \cup {Null} /\ Inner' = Inner
      /\ Leaves' = Leaves /\ \A n \in Leaves : heap'[n] = heap[n]
      /\ heap' \in [Allocated' -> LeafNodes \cup InnerNodes]
  BY <1>1, <1>2, <1>3 DEF SameNodes, TypeOK, Counted
<1>10. QED
  BY <1>1, <1>4, <1>6, <1>7, <1>8, <1>9, EndedInv

\* n is a new root above the two halves of the old one.
Grown(n) ==
  /\ n \in Nodes /\ n \notin Allocated /\ root' = n
  /\ newchild # Null /\ path = <<>>
  /\ Allocated' = Allocated \cup {n} /\ Leaves' = Leaves
  /\ Inner' = Inner \cup {n}
  /\ \A m \in Allocated : heap'[m] = heap[m]
  /\ heap'[n].level = heap[root].level + 1
  /\ heap'[n].slotkey = <<newkey>> /\ heap'[n].childid = <<root, newchild>>
  /\ ~heap'[n].alreadycomprerss
  /\ heap' \in [Allocated' -> LeafNodes \cup InnerNodes]

\* A call that ends with a split root makes a new one above both halves.
LEMMA FinishGrows ==
  ASSUME ElasticInv, Finish, newchild # Null
  PROVE  \E n : Grown(n)
<1>1. TypeOK /\ pc = "unwind" /\ path = <<>> /\ root # Null /\ newkey \in Keys
  BY DEF ElasticInv, CallUnderWay, SplitAlike, Finish
<1>2. /\ root \in Allocated /\ newchild \in Allocated
      /\ Allocated \subseteq Nodes
  BY <1>1 DEF TypeOK
<1>3. PICK n : n = fresh
  OBVIOUS
<1>4. n \in Nodes /\ n \notin Allocated
  BY <1>3, FreshNode DEF Finish
<1>5. PICK l, K, C, f : /\ l = heap[root].level + 1 /\ K = <<newkey>>
                        /\ C = <<root, newchild>> /\ f = FALSE
  OBVIOUS
<1>6. root' = n /\ heap' = put(heap, n, InnerNode(l, K, C, f))
  BY <1>3, <1>5 DEF Finish, InnerNode
<1>7. InnerNode(l, K, C, f) \in InnerNodes
  <2>1. heap[root].level \in Nat
    BY <1>1, <1>2, NodeKinds, LeafFields, InnerFields
  <2>2. l \in Nat \ {0} /\ K \in Seq(Keys) /\ C \in Seq(Nodes)
    BY <1>1, <1>2, <1>5, <2>1
  <2>3. f \in BOOLEAN
    BY <1>5
  <2>4. QED
    BY <2>2, <2>3, NodeRecords, Zenon
<1>8. PICK r : r = InnerNode(l, K, C, f)
  OBVIOUS
<1>9. /\ Allocated' = Allocated \cup {n} /\ heap'[n] = r
      /\ \A m \in Allocated : heap'[m] = heap[m]
  <2>1. heap' = put(heap, n, r)
    BY <1>6, <1>8
  <2>2. n \notin DOMAIN heap
    BY <1>4 DEF Allocated
  <2>3. PICK h : h = put(heap, n, r)
    OBVIOUS
  <2>3a. /\ DOMAIN h = DOMAIN heap \cup {n} /\ h[n] = r
         /\ \A m \in DOMAIN heap : m # n => h[m] = heap[m]
    BY <2>3 DEF put
  <2>3b. heap' = h
    BY <2>1, <2>3
  <2>4. QED
    BY <2>2, <2>3a, <2>3b DEF Allocated
<1>10. /\ heap'[n].level = l /\ heap'[n].slotkey = K
       /\ heap'[n].childid = C /\ heap'[n].alreadycomprerss = f
       /\ heap'[n] \in InnerNodes
  <2>1. /\ r.level = l /\ r.slotkey = K /\ r.childid = C
        /\ r.alreadycomprerss = f
    BY <1>8 DEF InnerNode
  <2>2. r \in InnerNodes
    BY <1>7, <1>8
  <2>3. QED
    BY <1>9, <2>1, <2>2, Zenon
<1>11. ~heap'[n].alreadycomprerss
  BY <1>5, <1>10, Zenon
<1>12. heap' \in [Allocated' -> LeafNodes \cup InnerNodes]
  <2>1. \A m \in Allocated' : heap'[m] \in LeafNodes \cup InnerNodes
    BY <1>1, <1>9, <1>10 DEF TypeOK
  <2>2. heap' = [m \in Allocated' |-> heap'[m]]
    BY <1>6 DEF put, Allocated
  <2>3. QED
    BY <2>1, <2>2
<1>13. Leaves' = Leaves /\ Inner' = Inner \cup {n}
  <2>1. l # 0
    BY <1>1, <1>2, <1>5, NodeKinds, LeafFields, InnerFields
  <2>2. Leaves' = {m \in Allocated' : heap'[m].level = 0}
    BY DEF Leaves
  <2>3. \A m \in Allocated' : heap'[m].level = 0 <=> m \in Leaves
    <3>1. TAKE m \in Allocated'
    <3>2. CASE m = n
      BY <1>1, <1>4, <1>10, <2>1, <3>2, NodeKinds
    <3>3. CASE m # n
      BY <1>9, <3>3 DEF Leaves
    <3>4. QED
      BY <3>2, <3>3
  <2>4. Leaves \subseteq Allocated
    BY DEF Leaves
  <2>5. Leaves' = Leaves
    BY <1>9, <2>2, <2>3, <2>4
  <2>6. QED
    BY <1>4, <1>9, <2>4, <2>5 DEF Inner
<1>14. QED
  BY <1>1, <1>4, <1>5, <1>6, <1>9, <1>10, <1>11, <1>12, <1>13 DEF Grown

\* The call ends with a new root.
LEMMA FinishGrownInv ==
  ASSUME ElasticInv, Finish, newchild # Null
  PROVE  ElasticInv'
<1>1. PICK n : Grown(n)
  BY FinishGrows
<1>2. Ended /\ stats'.innernodes = stats.innernodes + 1
  BY FinishEnds
<1>3. /\ TypeOK /\ LinkedOnce /\ ListLinked /\ Counted /\ rootSplit
      /\ \A m \in Inner : InnerFilled(m) /\ MarkTrue(m)
      /\ \A m \in Leaves : LeafFilled(m)
      /\ root # Null /\ SplitAlike /\ newchild' = Null
  <2>1. /\ rootSplit /\ pc = "unwind" /\ newchild' = Null
    BY <1>1, <1>2 DEF rootSplit, Grown, Ended
  <2>2. CallUnderWay /\ Tree /\ TypeOK /\ Counted
    BY DEF ElasticInv
  <2>3. root # Null /\ SplitAlike
    BY <2>1, <2>2 DEF CallUnderWay
  <2>4. QED
    BY <2>1, <2>2, <2>3 DEF Tree
<1>4. /\ root \in Allocated /\ newchild \in Allocated /\ newchild # root
      /\ n # root /\ n # newchild /\ n # Null /\ Null \notin Allocated
  <2>1. root \in Allocated /\ newchild \in Allocated
    BY <1>1, <1>3 DEF TypeOK, Grown
  <2>2. newchild # root
    BY <1>1, <1>3 DEF Grown, LinkedOnce
  <2>3. /\ n \in Nodes /\ n \notin Allocated /\ Null \notin Nodes
        /\ Allocated \subseteq Nodes
    BY <1>1, <1>3, ElasticAssumption DEF TypeOK, Grown
  <2>4. QED
    BY <2>1, <2>2, <2>3
<1>5. /\ n \notin Allocated /\ root' = n
      /\ Allocated' = Allocated \cup {n} /\ Leaves' = Leaves
      /\ Inner' = Inner \cup {n} /\ \A m \in Allocated : heap'[m] = heap[m]
      /\ Inner \subseteq Allocated /\ Leaves \subseteq Allocated
  BY <1>1 DEF Grown, Inner, Leaves
<1>6. /\ heap'[n].childid = <<root, newchild>>
      /\ Len(heap'[n].childid) = 2 /\ Slots(n)' = {1, 2}
      /\ heap'[n].childid[1] = root /\ heap'[n].childid[2] = newchild
      /\ heap'[n].slotkey = <<newkey>> /\ Len(heap'[n].slotkey) = 1
  BY <1>1 DEF Grown, Slots
<1>7. \A p \in Inner : /\ heap'[p] = heap[p] /\ Slots(p)' = Slots(p)
                       /\ \A i \in Slots(p) : heap[p].childid[i] \in Allocated
  BY <1>3, <1>5 DEF TypeOK, Slots
<1>8. LinkedOnce'
  <2>1. ASSUME NEW p \in Inner', NEW i \in Slots(p)',
               NEW q \in Inner', NEW j \in Slots(q)',
               heap'[p].childid[i] = heap'[q].childid[j]
        PROVE  p = q /\ i = j
    <3>1. CASE p = n /\ q = n
      BY <1>4, <1>6, <2>1, <3>1
    <3>2. CASE p # n /\ q # n
      BY <1>3, <1>5, <1>7, <2>1, <3>2 DEF LinkedOnce
    <3>3. \A m \in Inner : \A k \in Slots(m) :
            heap'[m].childid[k] # root /\ heap'[m].childid[k] # newchild
      BY <1>3, <1>7 DEF LinkedOnce
    <3>4. CASE p = n /\ q # n
      BY <1>5, <1>6, <1>7, <2>1, <3>3, <3>4
    <3>5. CASE p # n /\ q = n
      BY <1>5, <1>6, <1>7, <2>1, <3>3, <3>5
    <3>6. QED
      BY <3>1, <3>2, <3>4, <3>5
  <2>2. ASSUME NEW p \in Inner', NEW i \in Slots(p)'
        PROVE  heap'[p].childid[i] # n /\ heap'[p].childid[i] # Null
    <3>1. heap'[p].childid[i] \in Allocated
      BY <1>4, <1>5, <1>6, <1>7
    <3>2. QED
      BY <1>4, <1>5, <3>1
  <2>3. ASSUME NEW m \in Allocated' \ {n, Null}
        PROVE  \E p \in Inner' : \E i \in Slots(p)' : heap'[p].childid[i] = m
    <3>1. CASE m \in {root, newchild}
      BY <1>5, <1>6, <3>1
    <3>2. CASE m \notin {root, newchild}
      <4>1. PICK p \in Inner : \E i \in Slots(p) : heap[p].childid[i] = m
        BY <1>3, <1>5, <2>3, <3>2 DEF LinkedOnce
      <4>2. QED
        BY <1>5, <1>7, <4>1
    <3>3. QED
      BY <3>1, <3>2
  <2>4. QED
    BY <1>3, <1>5, <2>1, <2>2, <2>3 DEF LinkedOnce
<1>9. ASSUME NEW m \in Inner PROVE InnerFilled(m)'
  <2>1. InnerFilled(m) /\ heap'[m] = heap[m]
    BY <1>3, <1>7
  <2>2. /\ Len(heap[m].slotkey) >= innerslotmax \div 2
        /\ \A i \in Slots(m) :
             heap'[heap'[m].childid[i]].level + 1 = heap'[m].level
    BY <1>3, <1>5, <1>7, <2>1 DEF InnerFilled
  <2>3. QED
    BY <1>7, <2>1, <2>2 DEF InnerFilled
<1>10. InnerFilled(n)'
  <2>1. heap[newchild].level = heap[root].level
    <3>1. heap[newchild].level + Len(path) = heap[root].level /\ Len(path) = 0
      BY <1>1, <1>3 DEF SplitAlike, Grown
    <3>2. heap[newchild].level \in Nat
      BY <1>3, <1>4, NodeKinds, LeafFields, InnerFields
    <3>3. QED
      BY <3>1, <3>2
  <2>2. \A i \in Slots(n)' :
          heap'[heap'[n].childid[i]].level + 1 = heap'[n].level
    BY <1>1, <1>4, <1>5, <1>6, <2>1 DEF Grown
  <2>3. 1 \in 1 .. innerslotmax
    BY ElasticAssumption
  <2>4. ~rootSplit' /\ n = root'
    BY <1>3, <1>5 DEF rootSplit
  <2>5. QED
    BY <1>6, <2>2, <2>3, <2>4 DEF InnerFilled
<1>11. ASSUME NEW m \in Leaves PROVE LeafFilled(m)'
  <2>1. LeafFilled(m) /\ heap'[m] = heap[m]
    BY <1>3, <1>5
  <2>2. heap[m].slotuse >= leafslotmax \div 2
    BY <1>3, <2>1 DEF LeafFilled
  <2>3. QED
    BY <2>1, <2>2 DEF LeafFilled, capacity, isblindileafnode
<1>12. ListLinked'
  <2>1. \A m \in Leaves : heap'[m] = heap[m]
    BY <1>5
  <2>2. \A m \in Leaves : heap[m].nextleaf # Null =>
          /\ heap[m].nextleaf \in Leaves \ {m}
          /\ heap'[heap[m].nextleaf].prevleaf = m
    BY <1>3, <2>1 DEF ListLinked
  <2>3. \A m \in Leaves : heap[m].prevleaf # Null =>
          /\ heap[m].prevleaf \in Leaves \ {m}
          /\ heap'[heap[m].prevleaf].nextleaf = m
    BY <1>3, <2>1 DEF ListLinked
  <2>4. /\ \A k, m \in Leaves :
             heap[k].prevleaf = Null /\ heap[m].prevleaf = Null => k = m
        /\ \E m \in Leaves : heap[m].prevleaf = Null
    BY <1>3 DEF ListLinked
  <2>5. QED
    BY <1>5, <2>1, <2>2, <2>3, <2>4 DEF ListLinked
<1>13. TreeParts'
  <2>1. root' # Null
    BY <1>4, <1>5
  <2>2. \A m \in Inner' : InnerFilled(m)'
    BY <1>5, <1>9, <1>10
  <2>3. QED
    BY <1>5, <1>8, <1>11, <1>12, <2>1, <2>2 DEF TreeParts
<1>14. \A m \in Inner' : MarkTrue(m)'
  <2>1. MarkTrue(n)'
    BY <1>1 DEF MarkTrue, Grown
  <2>2. ASSUME NEW m \in Inner PROVE MarkTrue(m)'
    <3>1. MarkTrue(m) /\ heap'[m] = heap[m]
      BY <1>3, <1>7
    <3>2. /\ stats.itemcount \in Nat /\ ShouldLimit \in Nat
          /\ stats'.itemcount = stats.itemcount + 1
      BY <1>2, <1>3, ElasticAssumption DEF TypeOK, Ended
    <3>3. stats.itemcount > ShouldLimit => stats'.itemcount > ShouldLimit
      BY <3>2
    <3>4. \A k \in Leaves : heap'[k] = heap[k]
      BY <1>5
    <3>5. QED
      BY <1>5, <3>1, <3>3, <3>4 DEF MarkTrue, isblindileafnode
  <2>3. QED
    BY <1>5, <2>1, <2>2
<1>15. \A m \in Inner' : heap'[m].childid \in Seq(Allocated')
  <2>1. \A m \in Inner : heap'[m].childid \in Seq(Allocated')
    <3>1. Allocated \subseteq Allocated'
      BY <1>5
    <3>2. \A m \in Inner : heap[m].childid \in Seq(Allocated)
      BY <1>3 DEF TypeOK
    <3>3. QED
      BY <1>7, <3>1, <3>2, SeqMonotone
  <2>2. heap'[n].childid \in Seq(Allocated')
    BY <1>4, <1>5, <1>6
  <2>3. QED
    BY <1>5, <2>1, <2>2
<1>16. stats'.innernodes = Cardinality(Inner') /\ IsFiniteSet(Allocated')
  <2>1. /\ IsFiniteSet(Allocated) /\ Inner \in SUBSET Allocated
        /\ stats.innernodes = Cardinality(Inner)
    BY <1>3, <1>5 DEF Counted
  <2>2. IsFiniteSet(Inner) /\ n \notin Inner
    BY <1>5, <2>1, FS_Subset
  <2>3. Cardinality(Inner \cup {n}) = Cardinality(Inner) + 1
    BY <2>2, FS_AddElement
  <2>4. IsFiniteSet(Allocated \cup {n})
    BY <2>1, FS_AddElement
  <2>5. QED
    BY <1>2, <1>5, <2>1, <2>3, <2>4
<1>17. RootLeafPlain'
  BY <1>5 DEF RootLeafPlain
<1>18. /\ Allocated' \subseteq Nodes /\ root' \in Allocated' \cup {Null}
       /\ heap' \in [Allocated' -> LeafNodes \cup InnerNodes]
       /\ \A m \in Leaves : heap'[m] = heap[m]
  BY <1>1, <1>3, <1>5 DEF Grown, TypeOK
<1>19. QED
  BY <1>2, <1>5, <1>13, <1>14, <1>15, <1>16, <1>17, <1>18, EndedInv

\* A call ends.
LEMMA FinishInv ==
  ASSUME ElasticInv, Finish
  PROVE  ElasticInv'
BY FinishBelowInv, FinishGrownInv

-----------------------------------------------------------------------------
(* A full leaf is split *)

\* h is the heap after the leaf c kept the mid keys low and the others went
\* to the new node n behind it.
HalvedHeap(h, c, n, low, mid) ==
  /\ DOMAIN h = Allocated \cup {n} /\ h = [m \in DOMAIN h |-> h[m]]
  /\ h[c] = Leaf(heap[c].blindileaftype, low, mid, heap[c].prevleaf, n)
  /\ h[n] = Leaf(heap[c].blindileaftype, heap[c].items \ low,
                 heap[c].slotuse - mid, c, heap[c].nextleaf)
  /\ \A m \in Leaves \ {c} : h[m] =
       Leaf(heap[m].blindileaftype, heap[m].items, heap[m].slotuse,
            IF m = heap[c].nextleaf THEN n ELSE heap[m].prevleaf,
            heap[m].nextleaf)
  /\ \A m \in Inner : h[m] = heap[m]

\* Splitting a leaf divides its keys and links the new leaf behind it.
LEMMA HalvesEffect ==
  ASSUME TypeOK, ListLinked, canAllocate, NEW c \in Leaves, NEW n, n = fresh
  PROVE  HalvedHeap(halves(c), c, n,
                    Lowest(heap[c].items, heap[c].slotuse \div 2),
                    heap[c].slotuse \div 2)
<1>1. /\ c \in Allocated /\ heap[c] \in LeafNodes /\ heap[c].level = 0
      /\ n \in Nodes /\ n \notin Allocated /\ n # c /\ n # Null /\ c # Null
      /\ Leaves \subseteq Allocated /\ Inner \subseteq Allocated
  BY NodeKinds, FreshNode, LeafFields, ElasticAssumption
<1>2. PICK t, S, u, a, b :
        /\ t = heap[c].blindileaftype /\ S = heap[c].items
        /\ u = heap[c].slotuse /\ a = heap[c].prevleaf /\ b = heap[c].nextleaf
  OBVIOUS
<1>3. heap[c] = Leaf(t, S, u, a, b)
  BY <1>1, <1>2, LeafFields
<1>4. PICK mid, low : mid = u \div 2 /\ low = Lowest(S, mid)
  OBVIOUS
<1>5. {k \in heap[c].items : find_lower(c, k) < mid} = low
  <2>1. \A k : find_lower(c, k) = Cardinality(Below(S, k))
    BY <1>1, <1>2 DEF find_lower, isleafnode, Below
  <2>2. QED
    BY <1>2, <1>4, <2>1 DEF Lowest
<1>6. PICK left, right : /\ left = Leaf(t, low, mid, a, n)
                         /\ right = Leaf(t, S \ low, u - mid, c, b)
  OBVIOUS
<1>7. /\ [heap[c] EXCEPT !.items = heap[c].items \ low,
                         !.slotuse = heap[c].slotuse - mid,
                         !.prevleaf = c] = right
      /\ [heap[c] EXCEPT !.items = low, !.slotuse = mid, !.nextleaf = n]
           = left
  <2>1. PICK T, v : T = S \ low /\ v = u - mid
    OBVIOUS
  <2>2. \A I : [Leaf(t, S, u, a, b) EXCEPT !.items = I] = Leaf(t, I, u, a, b)
    BY DEF Leaf
  <2>3. /\ [Leaf(t, T, u, a, b) EXCEPT !.slotuse = v] = Leaf(t, T, v, a, b)
        /\ [Leaf(t, T, v, a, b) EXCEPT !.prevleaf = c] = Leaf(t, T, v, c, b)
        /\ [Leaf(t, low, u, a, b) EXCEPT !.slotuse = mid]
             = Leaf(t, low, mid, a, b)
        /\ [Leaf(t, low, mid, a, b) EXCEPT !.nextleaf = n]
             = Leaf(t, low, mid, a, n)
    BY DEF Leaf
  <2>4. /\ [heap[c] EXCEPT !.items = T, !.slotuse = v, !.prevleaf = c]
             = [[[heap[c] EXCEPT !.items = T] EXCEPT !.slotuse = v]
                  EXCEPT !.prevleaf = c]
        /\ [heap[c] EXCEPT !.items = low, !.slotuse = mid, !.nextleaf = n]
             = [[[heap[c] EXCEPT !.items = low] EXCEPT !.slotuse = mid]
                  EXCEPT !.nextleaf = n]
    OBVIOUS
  <2>5. [heap[c] EXCEPT !.items = T, !.slotuse = v, !.prevleaf = c] = right
    <3>1. [heap[c] EXCEPT !.items = T] = Leaf(t, T, u, a, b)
      BY <1>3, <2>2, Zenon
    <3>2. right = Leaf(t, T, v, c, b)
      BY <1>6, <2>1, Zenon
    <3>3. QED
      BY <2>3, <2>4, <3>1, <3>2, Zenon
  <2>6. [heap[c] EXCEPT !.items = low, !.slotuse = mid, !.nextleaf = n] = left
    <3>1. [heap[c] EXCEPT !.items = low] = Leaf(t, low, u, a, b)
      BY <1>3, <2>2, Zenon
    <3>2. left = Leaf(t, low, mid, a, n)
      BY <1>6, Zenon
    <3>3. QED
      BY <2>3, <2>4, <3>1, <3>2, Zenon
  <2>7. QED
    BY <1>2, <2>1, <2>5, <2>6
<1>8. halves(c) = setPrev(put(put(heap, c, left), n, right), b, n)
  BY <1>2, <1>4, <1>5, <1>7 DEF halves
<1>9. PICK g : g = put(put(heap, c, left), n, right)
  OBVIOUS
<1>10. /\ DOMAIN g = Allocated \cup {n} /\ g = [m \in DOMAIN g |-> g[m]]
       /\ g[c] = left /\ g[n] = right
       /\ \A m \in Allocated : m # c => g[m] = heap[m]
  BY <1>1, <1>9 DEF put, Allocated
<1>11. b # Null => b \in Leaves \ {c}
  BY <1>2 DEF ListLinked
<1>12. PICK h : h = setPrev(g, b, n)
  OBVIOUS
<1>13. /\ DOMAIN h = Allocated \cup {n} /\ h = [m \in DOMAIN h |-> h[m]]
       /\ \A m \in Allocated \cup {n} : h[m] =
            IF m = b /\ m # Null THEN [g[m] EXCEPT !.prevleaf = n] ELSE g[m]
  <2>1. b # Null => b \in DOMAIN g
    BY <1>1, <1>10, <1>11
  <2>2. /\ DOMAIN h = DOMAIN g
        /\ \A j \in DOMAIN g : h[j] =
              IF j = b /\ b # Null THEN [g[j] EXCEPT !.prevleaf = n] ELSE g[j]
    BY <1>12, <2>1, SetPrevNode
  <2>3. h = [m \in DOMAIN h |-> h[m]]
    BY <1>10, <1>12 DEF setPrev
  <2>4. QED
    BY <1>10, <2>2, <2>3
<1>14. h[c] = left /\ h[n] = right
  <2>1. c # b /\ (n # b \/ n = Null)
    BY <1>1, <1>11
  <2>2. QED
    BY <1>1, <1>10, <1>13, <2>1
<1>15. ASSUME NEW m \in Leaves \ {c}
       PROVE  h[m] = Leaf(heap[m].blindileaftype, heap[m].items,
                          heap[m].slotuse,
                          IF m = b THEN n ELSE heap[m].prevleaf,
                          heap[m].nextleaf)
  <2>1. /\ m \in Allocated /\ m # Null /\ m # n /\ g[m] = heap[m]
        /\ heap[m] \in LeafNodes
    BY <1>1, <1>10, NodeKinds, ElasticAssumption DEF TypeOK
  <2>2. h[m] = IF m = b THEN [heap[m] EXCEPT !.prevleaf = n] ELSE heap[m]
    BY <1>13, <2>1
  <2>3. CASE m = b
    <3>1. [heap[m] EXCEPT !.prevleaf = n]
            = Leaf(heap[m].blindileaftype, heap[m].items, heap[m].slotuse, n,
                   heap[m].nextleaf)
      BY <2>1, LeafUpdates
    <3>2. QED
      BY <2>2, <2>3, <3>1
  <2>4. CASE m # b
    BY <2>1, <2>2, <2>4, LeafFields
  <2>5. QED
    BY <2>3, <2>4
<1>16. ASSUME NEW m \in Inner PROVE h[m] = heap[m]
  <2>1. m \in Allocated /\ m \notin Leaves /\ m # c /\ m # n
    BY <1>1, NodeKinds
  <2>2. m # b \/ m = Null
    BY <1>11, <2>1
  <2>3. QED
    BY <1>10, <1>13, <2>1, <2>2
<1>17. halves(c) = h
  BY <1>8, <1>9, <1>12
<1>18. HalvedHeap(h, c, n, low, mid)
  BY <1>2, <1>6, <1>13, <1>14, <1>15, <1>16 DEF HalvedHeap
<1>19. QED
  BY <1>2, <1>4, <1>17, <1>18

\* The leaf c was split: L are the keys it keeps, R those of the new leaf n.
Halved(c, n, L, R) ==
  /\ n \in Nodes /\ n \notin Allocated
  /\ Allocated' = Allocated \cup {n}
  /\ Leaves' = Leaves \cup {n} /\ Inner' = Inner
  /\ heap' \in [Allocated' -> LeafNodes \cup InnerNodes]
  /\ heap'[c] = Leaf(heap[c].blindileaftype, L, Cardinality(L),
                     heap[c].prevleaf, n)
  /\ heap'[n] = Leaf(heap[c].blindileaftype, R, Cardinality(R), c,
                     heap[c].nextleaf)
  /\ \A m \in Leaves \ {c} :
       /\ heap'[m].level = 0
       /\ heap'[m].blindileaftype = heap[m].blindileaftype
       /\ heap'[m].items = heap[m].items
       /\ heap'[m].slotuse = heap[m].slotuse
       /\ heap'[m].nextleaf = heap[m].nextleaf
       /\ heap'[m].prevleaf =
            IF m = heap[c].nextleaf THEN n ELSE heap[m].prevleaf
  /\ \A m \in Inner : heap'[m] = heap[m]

\* Together they are the keys of c and the new one, and each is large enough.
TwoHalves(c, L, R) ==
  /\ L \cup R = heap[c].items \cup {key}
  /\ IsFiniteSet(L) /\ IsFiniteSet(R)
  /\ Cardinality(L) >= leafslotmax \div 2
  /\ Cardinality(R) >= leafslotmax \div 2
  /\ Cardinality(L) <= capacity(c) /\ Cardinality(R) <= capacity(c)

\* The heap h holds such leaves.
HoldsHalves(h, c, n, L, R) ==
  /\ DOMAIN h = Allocated \cup {n} /\ h = [m \in DOMAIN h |-> h[m]]
  /\ h[c] = Leaf(heap[c].blindileaftype, L, Cardinality(L),
                 heap[c].prevleaf, n)
  /\ h[n] = Leaf(heap[c].blindileaftype, R, Cardinality(R), c,
                 heap[c].nextleaf)
  /\ \A m \in Leaves \ {c} : h[m] =
       Leaf(heap[m].blindileaftype, heap[m].items, heap[m].slotuse,
            IF m = heap[c].nextleaf THEN n ELSE heap[m].prevleaf,
            heap[m].nextleaf)
  /\ \A m \in Inner : h[m] = heap[m]

\* It is of the right type with them in it.
LEMMA HalvedNodes ==
  ASSUME TypeOK, canAllocate, NEW c \in Leaves, NEW n, n = fresh,
         NEW L \in SUBSET Keys, NEW R \in SUBSET Keys,
         IsFiniteSet(L), IsFiniteSet(R),
         NEW h, heap' = h, HoldsHalves(h, c, n, L, R)
  PROVE  Halved(c, n, L, R)
<1>1. /\ c \in Allocated /\ c \in Nodes /\ heap[c] \in LeafNodes
      /\ n \in Nodes /\ n \notin Allocated
  BY NodeKinds, FreshNode
<1>2. Allocated' = Allocated \cup {n} /\ h = [m \in DOMAIN h |-> h[m]]
      /\ DOMAIN h = Allocated \cup {n}
  BY DEF Allocated, HoldsHalves
<1>3. /\ heap[c].blindileaftype \in Types
      /\ heap[c].prevleaf \in Pointers /\ heap[c].nextleaf \in Pointers
      /\ c \in Pointers /\ n \in Pointers
  BY <1>1, LeafFields DEF Pointers
<1>4. Cardinality(L) \in Nat /\ Cardinality(R) \in Nat
  BY FS_CardinalityType
<1>5. /\ h[c] \in LeafNodes /\ h[c].level = 0
      /\ h[n] \in LeafNodes /\ h[n].level = 0
  BY <1>3, <1>4, NodeRecords, GivenFields DEF HoldsHalves
<1>6. ASSUME NEW m \in Leaves \ {c}
      PROVE  /\ h[m] \in LeafNodes /\ h[m].level = 0
             /\ h[m].blindileaftype = heap[m].blindileaftype
             /\ h[m].items = heap[m].items
             /\ h[m].slotuse = heap[m].slotuse
             /\ h[m].nextleaf = heap[m].nextleaf
             /\ h[m].prevleaf =
                  IF m = heap[c].nextleaf THEN n ELSE heap[m].prevleaf
  <2>1. heap[m] \in LeafNodes
    BY NodeKinds
  <2>2. PICK p : p = IF m = heap[c].nextleaf THEN n ELSE heap[m].prevleaf
    OBVIOUS
  <2>3. p \in Pointers
    BY <1>3, <2>1, <2>2, LeafFields
  <2>4. h[m] = Leaf(heap[m].blindileaftype, heap[m].items, heap[m].slotuse, p,
                    heap[m].nextleaf)
    BY <2>2 DEF HoldsHalves
  <2>5. h[m] \in LeafNodes
    BY <2>1, <2>3, <2>4, LeafFields, NodeRecords
  <2>6. QED
    BY <2>2, <2>4, <2>5, GivenFields
<1>7. \A m \in Inner : h[m] \in InnerNodes /\ h[m].level # 0 /\ m \in Allocated
  BY NodeKinds, InnerFields DEF HoldsHalves
<1>8. Leaves' = Leaves \cup {n}
  <2>1. Leaves' = {m \in Allocated' : h[m].level = 0}
    BY DEF Leaves
  <2>2. \A m \in Allocated' : m \in Leaves \/ m \in Inner \/ m = n
    BY <1>2, NodeKinds
  <2>3. \A m \in Leaves : h[m].level = 0 /\ m \in Allocated
    BY <1>5, <1>6, NodeKinds
  <2>4. QED
    BY <1>2, <1>5, <1>7, <2>1, <2>2, <2>3
<1>9. Inner' = Inner
  <2>1. Inner' = Allocated' \ Leaves' /\ Inner = Allocated \ Leaves
    BY DEF Inner
  <2>2. QED
    BY <1>1, <1>2, <1>8, <2>1
<1>10. heap' \in [Allocated' -> LeafNodes \cup InnerNodes]
  <2>1. \A m \in Allocated' : h[m] \in LeafNodes \cup InnerNodes
    BY <1>2, <1>5, <1>6, <1>7, NodeKinds
  <2>2. QED
    BY <1>2, <2>1
<1>11. QED
  BY <1>1, <1>2, <1>6, <1>8, <1>9, <1>10 DEF Halved, HoldsHalves

\* A full leaf is large enough for two, each with room for the key.
LEMMA MiddleSlots ==
  ASSUME NEW u \in Nat, u >= leafslotmax
  PROVE  /\ u \div 2 \in 1 .. u /\ u \div 2 + 1 <= u
         /\ u \div 2 >= leafslotmax \div 2
         /\ u - u \div 2 \in Nat /\ u - u \div 2 >= leafslotmax \div 2
         /\ u - u \div 2 + 1 <= u
<1>1. leafslotmax \in Nat /\ leafslotmax >= 2
  BY TypeSlots
<1>2. PICK m : m = u \div 2
  OBVIOUS
<1>3. m \in Nat /\ 2 * m <= u /\ u <= 2 * m + 1
  BY <1>2
<1>4. PICK d : d = leafslotmax \div 2
  OBVIOUS
<1>5. d \in Nat /\ 2 * d <= leafslotmax /\ leafslotmax <= 2 * d + 1
  BY <1>1, <1>4
<1>6. /\ m \in 1 .. u /\ m + 1 <= u /\ m >= d
      /\ u - m \in Nat /\ u - m >= d /\ u - m + 1 <= u
  BY <1>1, <1>3, <1>5
<1>7. QED
  BY <1>2, <1>4, <1>6

\* The key given to the parent is the largest in the lower half.
KeysHalved(L, R) ==
  /\ newkey' \in L /\ \A j \in L : j <= newkey'
  /\ R # {} /\ \A k \in R : k > newkey'

\* What is done to a leaf that is split.
LEMMA StoreSplitHalves ==
  ASSUME ElasticInv, StoreSplit
  PROVE  \E n, L, R :
           /\ Halved(cur, n, L, R) /\ TwoHalves(cur, L, R) /\ newchild' = n
           /\ KeysHalved(L, R)
           /\ newkey' \in Keys /\ tail' \in Pointers
<1>1. PICK n : n = fresh
  OBVIOUS
<1>2. PICK h : h = halves(cur)
  OBVIOUS
<1>3. PICK y : y = Max(h[cur].items)
  OBVIOUS
<1>4. PICK right : right = IF isblindileafnode(cur) THEN key > y
                           ELSE find_lower(cur, key) >= h[cur].slotuse
  OBVIOUS
<1>5. /\ pc = "store" /\ canAllocate
      /\ heap' = [h EXCEPT ![IF right THEN n ELSE cur] = with(@, key)]
      /\ newchild' = n
      /\ newkey' = IF ~right /\ key > y THEN key ELSE y
      /\ tail' = IF heap[cur].nextleaf = Null THEN n ELSE tail
  <2>1. pc = "store" /\ canAllocate
    BY DEF StoreSplit
  <2>2. newchild' = n /\ tail' = IF heap[cur].nextleaf = Null THEN n ELSE tail
    BY <1>1 DEF StoreSplit
  <2>3. /\ heap' = [h EXCEPT ![IF right THEN n ELSE cur] = with(@, key)]
        /\ newkey' = IF ~right /\ key > y THEN key ELSE y
    BY <1>1, <1>2, <1>3, <1>4, Zenon DEF StoreSplit
  <2>4. QED
    BY <2>1, <2>2, <2>3
<1>6. IF isblindileafnode(cur) THEN isfullblindi(cur) ELSE isfullbtree(cur)
  BY DEF StoreSplit
<1>7. /\ TypeOK /\ ListLinked /\ cur \in Leaves /\ key \in Keys \ stored
      /\ UNION {heap[m].items : m \in Leaves} = stored /\ LeafFilled(cur)
  <2>1. TypeOK /\ Tree /\ CallUnderWay /\ beingStored = {}
    BY <1>5 DEF ElasticInv, beingStored
  <2>2. cur \in Leaves /\ key \in Keys \ stored
    BY <1>5, <2>1 DEF CallUnderWay
  <2>3. QED
    BY <2>1, <2>2 DEF Tree
<1>8. PICK t, S, u : /\ t = heap[cur].blindileaftype /\ S = heap[cur].items
                     /\ u = heap[cur].slotuse
  OBVIOUS
<1>9. /\ t \in Types /\ S \in SUBSET Keys /\ u \in Nat /\ key \notin S
      /\ IsFiniteSet(S) /\ u = Cardinality(S) /\ cur \in Allocated
  <2>1. heap[cur] \in LeafNodes /\ cur \in Allocated
    BY <1>7, NodeKinds
  <2>2. S \subseteq stored
    BY <1>7, <1>8
  <2>3. QED
    BY <1>7, <1>8, <2>1, <2>2, LeafFields DEF LeafFilled
<1>10. u = capacity(cur) /\ u >= leafslotmax
  <2>1. CASE isblindileafnode(cur)
    <3>1. t > 0 /\ u = leafslotmax * t /\ capacity(cur) = leafslotmax * t
      BY <1>6, <1>8, <2>1 DEF isblindileafnode, isfullblindi, capacity
    <3>2. QED
      BY <1>9, <3>1, TypeSlots
  <2>2. CASE ~isblindileafnode(cur)
    <3>1. u = leafslotmax /\ capacity(cur) = leafslotmax
      BY <1>6, <1>8, <2>2 DEF isfullbtree, capacity
    <3>2. QED
      BY <3>1, TypeSlots
  <2>3. QED
    BY <2>1, <2>2
<1>11. PICK mid, low : mid = u \div 2 /\ low = Lowest(S, mid)
  OBVIOUS
<1>12. /\ mid \in 1 .. u /\ mid + 1 <= u /\ mid >= leafslotmax \div 2
       /\ u - mid \in Nat /\ u - mid >= leafslotmax \div 2
       /\ u - mid + 1 <= u
  BY <1>9, <1>10, <1>11, MiddleSlots
<1>13. PICK top : TopOfLowest(S, mid, top)
  <2>1. S \in SUBSET Nat
    BY <1>9, ElasticAssumption
  <2>2. mid \in 1 .. Cardinality(S)
    BY <1>9, <1>12
  <2>3. QED
    BY <1>9, <2>1, <2>2, LowestElements
<1>14. /\ low \in SUBSET S /\ IsFiniteSet(low) /\ Cardinality(low) = mid
       /\ IsFiniteSet(S \ low) /\ Cardinality(S \ low) = u - mid
       /\ top \in low /\ \A k \in low : top >= k
  <2>1. low = {k \in S : k <= top} /\ Cardinality(low) = mid /\ top \in S
    BY <1>11, <1>13 DEF TopOfLowest
  <2>2. \A k \in S : k \in Nat
    BY <1>9, ElasticAssumption
  <2>3. low \in SUBSET S /\ top \in low /\ \A k \in low : top >= k
    BY <2>1, <2>2
  <2>4. IsFiniteSet(low) /\ IsFiniteSet(S \ low)
    BY <1>9, <2>3, FS_Subset, FS_Difference
  <2>5. Cardinality(S \ low) = Cardinality(S) - Cardinality(S \cap low)
    BY <1>9, FS_Difference
  <2>6. S \cap low = low
    BY <2>3
  <2>7. QED
    BY <1>9, <2>1, <2>3, <2>4, <2>5, <2>6
<1>15. HalvedHeap(h, cur, n, low, mid)
  BY <1>1, <1>2, <1>5, <1>7, <1>8, <1>11, HalvesEffect
<1>16. y = top /\ y \in Keys /\ newkey' \in Keys
  <2>1. h[cur].items = low
    BY <1>15, GivenFields DEF HalvedHeap
  <2>2. y = CHOOSE k \in low : \A j \in low : k >= j
    BY <1>3, <2>1 DEF Max
  <2>3. \E k \in low : \A j \in low : k >= j
    BY <1>14
  <2>4. y \in low /\ \A j \in low : y >= j
    BY <2>2, <2>3
  <2>5. y \in Nat /\ top \in Nat
    BY <1>9, <1>14, <2>4, ElasticAssumption
  <2>6. y = top
    BY <1>14, <2>4, <2>5
  <2>7. QED
    BY <1>5, <1>7, <1>9, <1>14, <2>4, <2>6
<1>17. /\ right <=> key > y
       /\ newkey' = y /\ low = {k \in S : k <= y} /\ y \in low
       /\ y \in Nat /\ \A k \in S \cup {key} : k \in Nat
  <2>1. /\ low = {k \in S : k <= y} /\ y \in low /\ y \in Nat
        /\ \A k \in S \cup {key} : k \in Nat
    BY <1>7, <1>9, <1>11, <1>13, <1>14, <1>16, ElasticAssumption
    DEF TopOfLowest
  <2>2. ASSUME isblindileafnode(cur) PROVE right <=> key > y
    BY <1>4, <2>2
  <2>3. ASSUME ~isblindileafnode(cur) PROVE right <=> key > y
    <3>1. find_lower(cur, key) = Cardinality(Below(S, key))
      BY <1>7, <1>8 DEF find_lower, isleafnode, Leaves, Below
    <3>2. h[cur].slotuse = mid
      BY <1>15, GivenFields DEF HalvedHeap
    <3>3. right <=> Cardinality(Below(S, key)) >= mid
      BY <1>4, <2>3, <3>1, <3>2
    <3>4. S \in SUBSET Nat /\ key \in Nat \ S /\ mid \in Nat
      <4>1. \A k \in S \cup {key} : k \in Nat
        BY <2>1
      <4>2. S \in SUBSET Nat /\ key \in Nat /\ mid \in Nat
        BY <1>12, <4>1
      <4>3. QED
        BY <1>9, <4>2
    <3>5. Cardinality(Below(S, key)) >= mid <=> key > top
      BY <1>9, <1>13, <3>4, KeyAmongLowest
    <3>6. right <=> key > y
      BY <1>16, <3>3, <3>5
    <3>7. QED
      BY <3>6
  <2>4. right <=> key > y
    BY <2>2, <2>3
  <2>5. newkey' = y
    BY <1>5, <2>4
  <2>6. QED
    BY <2>1, <2>4, <2>5
<1>18. /\ newkey' = y /\ y \in low /\ y \in Nat /\ key \in Nat
       /\ \A j \in S : j \in Nat
       /\ \A j \in S : j \in low <=> j <= y
  BY <1>17
<1>19. right \/ key <= y
  BY <1>17, <1>18
<1>20. tail' \in Pointers
  <2>1. n \in Nodes
    BY <1>1, <1>5, FreshNode
  <2>2. tail \in Pointers
    BY <1>7 DEF TypeOK
  <2>3. QED
    BY <1>5, <2>1, <2>2 DEF Pointers
<1>21. PICK a, b : a = heap[cur].prevleaf /\ b = heap[cur].nextleaf
  OBVIOUS
<1>22. /\ DOMAIN h = Allocated \cup {n} /\ h = [m \in DOMAIN h |-> h[m]]
       /\ h[cur] = Leaf(t, low, mid, a, n)
       /\ h[n] = Leaf(t, S \ low, u - mid, cur, b)
       /\ n \notin Allocated /\ n # cur
       /\ Leaves \subseteq Allocated /\ Inner \subseteq Allocated
  BY <1>1, <1>5, <1>7, <1>8, <1>9, <1>15, <1>21, FreshNode, NodeKinds
  DEF HalvedHeap
<1>23. ASSUME NEW L \in SUBSET Keys, NEW R \in SUBSET Keys,
              IsFiniteSet(L), IsFiniteSet(R), NEW x \in {cur, n},
              heap' = [h EXCEPT ![x] = with(@, key)],
              heap'[cur] = Leaf(t, L, Cardinality(L), a, n),
              heap'[n] = Leaf(t, R, Cardinality(R), cur, b)
       PROVE  Halved(cur, n, L, R)
  <2>1. PICK g : g = [h EXCEPT ![x] = with(@, key)]
    OBVIOUS
  <2>2. heap' = g
    BY <1>23, <2>1
  <2>3. /\ DOMAIN g = DOMAIN h /\ g = [m \in DOMAIN g |-> g[m]]
        /\ \A m \in DOMAIN h : m # x => g[m] = h[m]
    BY <1>22, <2>1
  <2>4. \A m \in Leaves \ {cur} : g[m] =
          Leaf(heap[m].blindileaftype, heap[m].items, heap[m].slotuse,
               IF m = heap[cur].nextleaf THEN n ELSE heap[m].prevleaf,
               heap[m].nextleaf)
    <3>1. \A m \in Leaves \ {cur} : m \in DOMAIN h /\ m # x
      BY <1>22
    <3>2. \A m \in Leaves \ {cur} : g[m] = h[m]
      BY <2>3, <3>1
    <3>3. QED
      BY <1>15, <3>2 DEF HalvedHeap
  <2>5. \A m \in Inner : g[m] = heap[m]
    <3>1. \A m \in Inner : m \in DOMAIN h /\ m # x
      BY <1>7, <1>22, NodeKinds
    <3>2. \A m \in Inner : g[m] = h[m]
      BY <2>3, <3>1
    <3>3. QED
      BY <1>15, <3>2 DEF HalvedHeap
  <2>6. /\ DOMAIN g = Allocated \cup {n}
        /\ g[cur] = Leaf(heap[cur].blindileaftype, L, Cardinality(L),
                         heap[cur].prevleaf, n)
        /\ g[n] = Leaf(heap[cur].blindileaftype, R, Cardinality(R), cur,
                       heap[cur].nextleaf)
    BY <1>8, <1>21, <1>22, <1>23, <2>2, <2>3
  <2>7. HoldsHalves(g, cur, n, L, R)
    BY <2>3, <2>4, <2>5, <2>6 DEF HoldsHalves
  <2>8. QED
    BY <1>1, <1>5, <1>7, <1>23, <2>2, <2>7, HalvedNodes
<1>24. CASE right
  <2>1. PICK R : R = (S \ low) \cup {key}
    OBVIOUS
  <2>2. IsFiniteSet(R) /\ Cardinality(R) = u - mid + 1
    BY <1>9, <1>14, <2>1, FS_AddElement
  <2>3. heap' = [h EXCEPT ![n] = with(@, key)]
    BY <1>5, <1>24
  <2>4. heap'[cur] = h[cur] /\ heap'[n] = with(h[n], key)
    BY <1>9, <1>22, <2>3
  <2>5. heap'[n] = Leaf(t, R, Cardinality(R), cur, b)
    BY <1>22, <2>1, <2>2, <2>4, LeafWith
  <2>6. heap'[cur] = Leaf(t, low, Cardinality(low), a, n)
    BY <1>14, <1>22, <2>4
  <2>7. low \in SUBSET Keys /\ R \in SUBSET Keys
    BY <1>7, <1>9, <1>14, <2>1
  <2>8. Halved(cur, n, low, R)
    BY <1>14, <1>23, <2>2, <2>3, <2>5, <2>6, <2>7
  <2>9. low \cup R = S \cup {key}
    BY <1>14, <2>1
  <2>10. mid <= u
    BY <1>9, <1>12
  <2>11. TwoHalves(cur, low, R)
    <3>1. Cardinality(R) >= leafslotmax \div 2
      BY <1>12, <2>2, TypeSlots
    <3>2. QED
      BY <1>8, <1>10, <1>12, <1>14, <2>2, <2>9, <2>10, <3>1 DEF TwoHalves
  <2>12. KeysHalved(low, R)
    BY <1>17, <1>24, <2>1 DEF KeysHalved
  <2>13. QED
    BY <1>5, <1>16, <1>20, <2>8, <2>11, <2>12
<1>25. CASE ~right
  <2>1. PICK L : L = low \cup {key}
    OBVIOUS
  <2>2. IsFiniteSet(L) /\ Cardinality(L) = mid + 1
    BY <1>9, <1>14, <2>1, FS_AddElement
  <2>3. heap' = [h EXCEPT ![cur] = with(@, key)]
    BY <1>5, <1>25
  <2>4. heap'[n] = h[n] /\ heap'[cur] = with(h[cur], key)
    BY <1>9, <1>22, <2>3
  <2>5. heap'[cur] = Leaf(t, L, Cardinality(L), a, n)
    BY <1>22, <2>1, <2>2, <2>4, LeafWith
  <2>6. heap'[n] = Leaf(t, S \ low, Cardinality(S \ low), cur, b)
    BY <1>14, <1>22, <2>4
  <2>7. S \ low \in SUBSET Keys /\ L \in SUBSET Keys
    BY <1>7, <1>9, <1>14, <2>1
  <2>8. Halved(cur, n, L, S \ low)
    BY <1>14, <1>23, <2>2, <2>3, <2>5, <2>6, <2>7
  <2>9. L \cup (S \ low) = S \cup {key}
    BY <1>14, <2>1
  <2>10. u - mid <= u
    BY <1>9, <1>12
  <2>11. TwoHalves(cur, L, S \ low)
    <3>1. Cardinality(L) >= leafslotmax \div 2
      BY <1>12, <2>2, TypeSlots
    <3>2. QED
      BY <1>8, <1>10, <1>12, <1>14, <2>2, <2>9, <2>10, <3>1 DEF TwoHalves
  <2>12. KeysHalved(L, S \ low)
    <3>1. S \ low # {}
      <4>1. u - mid # 0
        BY <1>9, <1>12
      <4>2. QED
        BY <1>14, <4>1, FS_EmptySet
    <3>2. \A j \in low : j \in S
      BY <1>14
    <3>3. \A j \in S \ low : j > y
      BY <1>18
    <3>4. \A j \in L : j <= y
      BY <1>18, <1>19, <1>25, <2>1, <3>2
    <3>5. QED
      BY <1>18, <2>1, <3>1, <3>3, <3>4 DEF KeysHalved
  <2>13. QED
    BY <1>5, <1>16, <1>20, <2>8, <2>11, <2>12
<1>26. QED
  BY <1>24, <1>25

\* The list runs through both halves.
LEMMA HalvedList ==
  ASSUME TypeOK, ListLinked, NEW c \in Leaves, NEW n, NEW L, NEW R,
         Halved(c, n, L, R), root # Null
  PROVE  ListLinked'
<1>1. PICK a, b : a = heap[c].prevleaf /\ b = heap[c].nextleaf
  OBVIOUS
<1>2. /\ n \notin Leaves /\ n # Null /\ c # Null /\ n # c
      /\ Leaves' = Leaves \cup {n}
  BY NodeKinds, ElasticAssumption DEF Halved
<1>3. /\ heap'[c].prevleaf = a /\ heap'[c].nextleaf = n
      /\ heap'[n].prevleaf = c /\ heap'[n].nextleaf = b
  BY <1>1, GivenFields DEF Halved
<1>4. \A m \in Leaves \ {c} :
        /\ heap'[m].nextleaf = heap[m].nextleaf
        /\ heap'[m].prevleaf = IF m = b THEN n ELSE heap[m].prevleaf
  BY <1>1 DEF Halved
<1>5. /\ \A m \in Leaves : heap[m].nextleaf # Null =>
           /\ heap[m].nextleaf \in Leaves \ {m}
           /\ heap[heap[m].nextleaf].prevleaf = m
      /\ \A m \in Leaves : heap[m].prevleaf # Null =>
           /\ heap[m].prevleaf \in Leaves \ {m}
           /\ heap[heap[m].prevleaf].nextleaf = m
      /\ \A k, m \in Leaves :
           heap[k].prevleaf = Null /\ heap[m].prevleaf = Null => k = m
      /\ \E m \in Leaves : heap[m].prevleaf = Null
  BY DEF ListLinked
<1>6. /\ b # Null => b \in Leaves \ {c} /\ heap[b].prevleaf = c
      /\ a # Null => a \in Leaves \ {c} /\ heap[a].nextleaf = c
  BY <1>1, <1>5
<1>7. ASSUME NEW m \in Leaves', heap'[m].nextleaf # Null
      PROVE  /\ heap'[m].nextleaf \in Leaves' \ {m}
             /\ heap'[heap'[m].nextleaf].prevleaf = m
  <2>1. CASE m = c
    BY <1>2, <1>3, <2>1
  <2>2. CASE m = n
    <3>1. b \in Leaves \ {c}
      BY <1>3, <1>6, <1>7, <2>2
    <3>2. heap'[b].prevleaf = n
      BY <1>4, <3>1
    <3>3. QED
      BY <1>2, <1>3, <2>2, <3>1, <3>2
  <2>3. CASE m \in Leaves \ {c}
    <3>1. PICK x : x = heap[m].nextleaf
      OBVIOUS
    <3>2. /\ heap'[m].nextleaf = x /\ x \in Leaves \ {m}
          /\ heap[x].prevleaf = m
      BY <1>4, <1>5, <1>7, <2>3, <3>1
    <3>3. x # b
      BY <1>6, <2>3, <3>2, <1>7
    <3>4. heap'[x].prevleaf = m
      BY <1>1, <1>3, <1>4, <3>2, <3>3
    <3>5. QED
      BY <1>2, <3>2, <3>4
  <2>4. QED
    BY <1>2, <2>1, <2>2, <2>3
<1>8. ASSUME NEW m \in Leaves', heap'[m].prevleaf # Null
      PROVE  /\ heap'[m].prevleaf \in Leaves' \ {m}
             /\ heap'[heap'[m].prevleaf].nextleaf = m
  <2>1. CASE m = c
    <3>1. a \in Leaves \ {c} /\ heap[a].nextleaf = c
      BY <1>3, <1>6, <1>8, <2>1
    <3>2. heap'[a].nextleaf = c
      BY <1>4, <3>1
    <3>3. QED
      BY <1>2, <1>3, <2>1, <3>1, <3>2
  <2>2. CASE m = n
    BY <1>2, <1>3, <2>2
  <2>3. CASE m \in Leaves \ {c} /\ m = b
    <3>1. heap'[m].prevleaf = n /\ heap'[n].nextleaf = m
      BY <1>3, <1>4, <2>3
    <3>2. QED
      BY <1>2, <2>3, <3>1
  <2>4. CASE m \in Leaves \ {c} /\ m # b
    <3>1. PICK x : x = heap[m].prevleaf
      OBVIOUS
    <3>2. /\ heap'[m].prevleaf = x /\ x \in Leaves \ {m}
          /\ heap[x].nextleaf = m
      BY <1>4, <1>5, <1>8, <2>4, <3>1
    <3>3. x # c
      BY <1>1, <2>4, <3>2
    <3>4. heap'[x].nextleaf = m
      BY <1>4, <3>2, <3>3
    <3>5. QED
      BY <1>2, <3>2, <3>4
  <2>5. QED
    BY <1>2, <2>1, <2>2, <2>3, <2>4
<1>9. ASSUME NEW m \in Leaves', heap'[m].prevleaf = Null
      PROVE  m \in Leaves /\ heap[m].prevleaf = Null
  <2>1. m # n
    BY <1>2, <1>3, <1>9
  <2>2. CASE m = c
    BY <1>1, <1>3, <1>9, <2>2
  <2>3. CASE m # c
    BY <1>2, <1>4, <1>9, <2>1, <2>3
  <2>4. QED
    BY <2>2, <2>3
<1>10. \E m \in Leaves' : heap'[m].prevleaf = Null
  <2>1. PICK m \in Leaves : heap[m].prevleaf = Null
    BY <1>5
  <2>2. CASE m = c
    BY <1>1, <1>2, <1>3, <2>1, <2>2
  <2>3. CASE m # c
    <3>1. m # b
      BY <1>2, <1>6, <2>1, NodeKinds, ElasticAssumption
    <3>2. heap'[m].prevleaf = Null
      BY <1>4, <2>1, <2>3, <3>1
    <3>3. QED
      BY <1>2, <3>2
  <2>4. QED
    BY <2>2, <2>3
<1>11. \A k, m \in Leaves' :
         heap'[k].prevleaf = Null /\ heap'[m].prevleaf = Null => k = m
  BY <1>5, <1>9
<1>12. QED
  BY <1>7, <1>8, <1>10, <1>11 DEF ListLinked

\* The leaves hold the keys of before and the new one.
LEMMA HalvedFilled ==
  ASSUME TypeOK, NEW c \in Leaves, NEW n, NEW L, NEW R, Halved(c, n, L, R),
         TwoHalves(c, L, R), \A m \in Leaves : LeafFilled(m),
         ~rootSplit, root' = root, root \in Leaves => c = root
  PROVE  /\ \A m \in Leaves' : LeafFilled(m)'
         /\ UNION {heap'[m].items : m \in Leaves'}
              = (UNION {heap[m].items : m \in Leaves}) \cup {key}
<1>1. PICK t : t = heap[c].blindileaftype
  OBVIOUS
<1>2. /\ heap'[c].blindileaftype = t /\ heap'[n].blindileaftype = t
      /\ heap'[c].items = L /\ heap'[n].items = R
      /\ heap'[c].slotuse = Cardinality(L) /\ heap'[n].slotuse = Cardinality(R)
      /\ Leaves' = Leaves \cup {n} /\ n \notin Leaves /\ n # c
  BY <1>1, NodeKinds, GivenFields DEF Halved
<1>3. capacity(c)' = capacity(c) /\ capacity(n)' = capacity(c)
  <2>1. /\ capacity(c) = IF t > 0 THEN leafslotmax * t ELSE leafslotmax
        /\ heap'[c].blindileaftype = t /\ heap'[n].blindileaftype = t
    BY <1>1, <1>2 DEF capacity, isblindileafnode
  <2>2. /\ capacity(c)' = IF t > 0 THEN leafslotmax * t ELSE leafslotmax
        /\ capacity(n)' = IF t > 0 THEN leafslotmax * t ELSE leafslotmax
    BY <2>1 DEF capacity, isblindileafnode
  <2>3. QED
    BY <2>1, <2>2
<1>4. LeafFilled(c)' /\ LeafFilled(n)'
  BY <1>2, <1>3 DEF LeafFilled, TwoHalves
<1>5. ASSUME NEW m \in Leaves, m # c PROVE LeafFilled(m)'
  <2>1. /\ heap'[m].blindileaftype = heap[m].blindileaftype
        /\ heap'[m].items = heap[m].items
        /\ heap'[m].slotuse = heap[m].slotuse
    BY <1>5 DEF Halved
  <2>2. LeafFilled(m) /\ m # root
    BY <1>5
  <2>3. capacity(m)' = capacity(m)
    BY <2>1 DEF capacity, isblindileafnode
  <2>4. QED
    BY <2>1, <2>2, <2>3 DEF LeafFilled
<1>6. UNION {heap'[m].items : m \in Leaves'}
        = (UNION {heap[m].items : m \in Leaves}) \cup {key}
  <2>1. PICK A : A = UNION {heap[m].items : m \in Leaves \ {c}}
    OBVIOUS
  <2>2. UNION {heap[m].items : m \in Leaves} = A \cup heap[c].items
    BY <2>1
  <2>3. \A m \in Leaves \ {c} : heap'[m].items = heap[m].items
    BY DEF Halved
  <2>4. UNION {heap'[m].items : m \in Leaves'} = A \cup (L \cup R)
    BY <1>2, <2>1, <2>3
  <2>5. L \cup R = heap[c].items \cup {key}
    BY DEF TwoHalves
  <2>6. QED
    BY <2>2, <2>4, <2>5
<1>7. QED
  BY <1>2, <1>4, <1>5, <1>6

\* The tree above the halves is the one above the leaf, but for the new one.
LEMMA HalvedLinks ==
  ASSUME TypeOK, LinkedOnce, \A m \in Inner : InnerFilled(m) /\ MarkTrue(m),
         NEW c \in Leaves, NEW n, NEW L, NEW R, Halved(c, n, L, R),
         newchild = Null, newchild' = n, root \in Allocated, root' = root,
         stats'.itemcount = stats.itemcount, path' = path,
         root \in Inner => path # <<>>
  PROVE  /\ LinkedOnce'
         /\ \A m \in Inner : /\ InnerFilled(m)' /\ MarkTrue(m)'
                             /\ heap'[m].childid \in Seq(Allocated')
<1>1. /\ n \notin Allocated /\ Allocated' = Allocated \cup {n}
      /\ Inner' = Inner /\ Leaves' = Leaves \cup {n} /\ n # root
      /\ \A m \in Inner : heap'[m] = heap[m] /\ Slots(m)' = Slots(m)
  BY DEF Halved, Slots
<1>2. /\ Null \notin Allocated
      /\ \A m \in Inner : \A i \in Slots(m) : heap[m].childid[i] \in Allocated
  <2>1. /\ Allocated \subseteq Nodes
        /\ \A m \in Inner : heap[m].childid \in Seq(Allocated)
    BY DEF TypeOK
  <2>2. \A m \in Inner : \A i \in Slots(m) : heap[m].childid[i] \in Allocated
    BY <2>1 DEF Slots
  <2>3. QED
    BY <2>1, <2>2, ElasticAssumption
<1>3. \A m \in Allocated : heap'[m].level = heap[m].level
  <2>1. heap'[c].level = 0
    BY GivenFields DEF Halved
  <2>2. \A m \in Leaves : heap'[m].level = 0 /\ heap[m].level = 0
    BY <2>1 DEF Halved, Leaves
  <2>3. QED
    BY <1>1, <2>2, NodeKinds
<1>4. \A m \in Leaves : heap'[m].blindileaftype = heap[m].blindileaftype
  <2>1. heap'[c].blindileaftype = heap[c].blindileaftype
    BY GivenFields DEF Halved
  <2>2. QED
    BY <2>1 DEF Halved
<1>5. LinkedOnce'
  <2>1. \A p, q \in Inner : \A i \in Slots(p), j \in Slots(q) :
          heap[p].childid[i] = heap[q].childid[j] => p = q /\ i = j
    BY DEF LinkedOnce
  <2>2. \A p \in Inner : \A i \in Slots(p) :
          heap[p].childid[i] # root /\ heap[p].childid[i] # n
    BY <1>1, <1>2 DEF LinkedOnce
  <2>3. \A m \in Allocated' \ {root, n} :
          \E p \in Inner : \E i \in Slots(p) : heap[p].childid[i] = m
    BY <1>1, <1>2 DEF LinkedOnce
  <2>4. QED
    BY <1>1, <2>1, <2>2, <2>3 DEF LinkedOnce
<1>6. ASSUME NEW m \in Inner
      PROVE  /\ InnerFilled(m)' /\ MarkTrue(m)'
             /\ heap'[m].childid \in Seq(Allocated')
  <2>1. InnerFilled(m) /\ MarkTrue(m) /\ heap'[m] = heap[m]
    BY <1>1
  <2>2. \A i \in Slots(m) :
          heap'[heap'[m].childid[i]].level + 1 = heap'[m].level
    BY <1>1, <1>2, <1>3, <2>1 DEF InnerFilled
  <2>3. ~(m # root' \/ rootSplit') \/ m # root
    BY <1>6 DEF rootSplit
  <2>4. InnerFilled(m)'
    BY <1>1, <2>1, <2>2, <2>3 DEF InnerFilled
  <2>5. MarkTrue(m)'
    BY <1>1, <1>4, <2>1 DEF MarkTrue, isblindileafnode
  <2>6. heap[m].childid \in Seq(Allocated) /\ Allocated \subseteq Allocated'
    BY <1>1 DEF TypeOK
  <2>7. heap[m].childid \in Seq(Allocated')
    BY <2>6, SeqMonotone
  <2>8. QED
    BY <2>1, <2>4, <2>5, <2>7
<1>7. QED
  BY <1>5, <1>6

\* A full leaf is split.
LEMMA StoreSplitInv ==
  ASSUME ElasticInv, StoreSplit
  PROVE  /\ ElasticInv'
         /\ stats.itemcount > ShouldLimit
              => stats'.ofType[0] <= stats.ofType[0]
<1>1. /\ pc = "store" /\ pc' = "unwind" /\ root' = root /\ head' = head
      /\ hybridstatus' = hybridstatus
      /\ limit2MustCompress' = limit2MustCompress
      /\ key' = key /\ cur' = cur /\ path' = path /\ stored' = stored
      /\ stats' = allocated(stats, heap[cur].blindileaftype)
      /\ ~isblindileafnode(cur) => isfullbtree(cur)
  BY DEF StoreSplit, limits
<1>2. PICK n, L, R :
        /\ Halved(cur, n, L, R) /\ TwoHalves(cur, L, R) /\ newchild' = n
        /\ newkey' \in Keys /\ tail' \in Pointers
  BY StoreSplitHalves
<1>3. PICK c, t : c = cur /\ t = heap[cur].blindileaftype
  OBVIOUS
<1>4. /\ TypeOK /\ LinkedOnce /\ ListLinked /\ RootLeafPlain /\ Counted
      /\ PathLeadsDown /\ newchild = Null /\ root # Null
      /\ \A m \in Inner : InnerFilled(m) /\ MarkTrue(m)
      /\ \A m \in Leaves : LeafFilled(m)
      /\ UNION {heap[m].items : m \in Leaves} = stored \cup beingStored
      /\ c \in Leaves /\ c = pathEnd /\ key \in Keys \ stored
      /\ heap[c].level + Len(path) = heap[root].level
  BY <1>1, <1>3 DEF ElasticInv, Tree, CallUnderWay
<1>5. /\ c \in Allocated /\ root \in Allocated
      /\ Leaves \subseteq Allocated /\ Inner \subseteq Allocated
      /\ t \in Types /\ Null \notin Nodes
  BY <1>3, <1>4, NodeKinds, LeafFields, ElasticAssumption DEF TypeOK
<1>6. /\ n \in Nodes /\ n \notin Allocated /\ Allocated' = Allocated \cup {n}
      /\ Leaves' = Leaves \cup {n} /\ Inner' = Inner /\ n # Null
      /\ heap' \in [Allocated' -> LeafNodes \cup InnerNodes]
      /\ Halved(c, n, L, R) /\ TwoHalves(c, L, R)
  BY <1>2, <1>3, <1>5 DEF Halved
<1>7. /\ heap'[c].level = 0 /\ heap'[n].level = 0
      /\ heap'[c].blindileaftype = t /\ heap'[n].blindileaftype = t
      /\ \A m \in Leaves : heap'[m].blindileaftype = heap[m].blindileaftype
      /\ \A m \in Leaves : heap'[m].level = 0 /\ heap[m].level = 0
      /\ \A m \in Inner : heap'[m] = heap[m]
  <2>1. /\ heap'[c].level = 0 /\ heap'[n].level = 0
        /\ heap'[c].blindileaftype = t /\ heap'[n].blindileaftype = t
    BY <1>3, <1>6, GivenFields DEF Halved
  <2>2. \A m \in Leaves \ {c} :
          /\ heap'[m].blindileaftype = heap[m].blindileaftype
          /\ heap'[m].level = 0
    BY <1>6 DEF Halved
  <2>3. \A m \in Inner : heap'[m] = heap[m]
    BY <1>6 DEF Halved
  <2>4. \A m \in Leaves : heap[m].level = 0
    BY DEF Leaves
  <2>5. QED
    BY <1>3, <2>1, <2>2, <2>3, <2>4
<1>8. /\ path \in Seq(Inner \X Nat) /\ Len(path) \in Nat
      /\ path = <<>> => c = root
      /\ path # <<>> => root \in Inner
  BY <1>4, RootInner DEF TypeOK, pathEnd
<1>9. /\ root \in Leaves => c = root /\ path = <<>>
      /\ root \in Inner => path # <<>>
  BY <1>4, <1>8, NodeKinds
<1>10. LinkedOnce' /\ \A m \in Inner : /\ InnerFilled(m)' /\ MarkTrue(m)'
                                       /\ heap'[m].childid \in Seq(Allocated')
  <2>1. stats'.itemcount = stats.itemcount
    BY <1>1, <1>3, <1>4, <1>5, CountersType, NewLeafCounted
  <2>2. QED
    BY <1>1, <1>2, <1>4, <1>5, <1>6, <1>9, <2>1, HalvedLinks
<1>11. ListLinked'
  BY <1>4, <1>6, HalvedList
<1>12. /\ \A m \in Leaves' : LeafFilled(m)'
       /\ UNION {heap'[m].items : m \in Leaves'}
            = (UNION {heap[m].items : m \in Leaves}) \cup {key}
  <2>1. ~rootSplit
    BY <1>4 DEF rootSplit
  <2>2. QED
    BY <1>1, <1>4, <1>6, <1>9, <2>1, HalvedFilled
<1>13. UNION {heap'[m].items : m \in Leaves'} = stored' \cup beingStored'
  <2>1. beingStored = {} /\ beingStored' = {key}
    BY <1>1 DEF beingStored
  <2>2. QED
    BY <1>1, <1>4, <1>12, <2>1
<1>14. RootLeafPlain'
  <2>1. SUFFICES ASSUME root \in Leaves
                 PROVE  /\ hybridstatus = "CONTINUE" /\ rootSplit'
                        /\ heap'[root].blindileaftype = 0
    <3>1. n # root
      BY <1>5, <1>6
    <3>2. QED
      BY <1>1, <1>6, <3>1 DEF RootLeafPlain
  <2>2. rootSplit'
    BY <1>1, <1>2, <1>6, <1>9, <2>1 DEF rootSplit
  <2>3. QED
    BY <1>4, <1>7, <2>1, <2>2 DEF RootLeafPlain
<1>15. Tree'
  BY <1>1, <1>4, <1>6, <1>10, <1>11, <1>12, <1>13, <1>14 DEF Tree
<1>16. /\ stats' \in Counters /\ stats'.leaves = stats.leaves + 1
       /\ stats'.innernodes = stats.innernodes
       /\ stats'.itemcount = stats.itemcount
       /\ \A y \in Types : stats'.ofType[y] =
            IF y = t THEN stats.ofType[y] + 1 ELSE stats.ofType[y]
  BY <1>1, <1>3, <1>4, <1>5, CountersType, NewLeafCounted
<1>17. /\ IsFiniteSet(Leaves) /\ \A y : IsFiniteSet(OfType(y))
       /\ IsFiniteSet(Allocated) /\ IsFiniteSet(stored)
  <2>1. IsFiniteSet(Allocated) /\ IsFiniteSet(stored)
    BY <1>4 DEF Counted
  <2>2. IsFiniteSet(Leaves)
    BY <1>5, <2>1, FS_Subset
  <2>3. \A y : OfType(y) \in SUBSET Leaves
    BY DEF OfType
  <2>4. QED
    BY <2>1, <2>2, <2>3, FS_Subset
<1>18. Counted'
  <2>1. Cardinality(Leaves') = Cardinality(Leaves) + 1
    BY <1>5, <1>6, <1>17, FS_AddElement
  <2>2. IsFiniteSet(Allocated')
    BY <1>6, <1>17, FS_AddElement
  <2>3. ASSUME NEW y \in Types
        PROVE  stats'.ofType[y]
                 = Cardinality({m \in Leaves' : heap'[m].blindileaftype = y})
    <3>1. stats.ofType[y] = Cardinality(OfType(y))
      BY <1>4 DEF Counted, OfType
    <3>2. CASE y = t
      <4>1. {m \in Leaves' : heap'[m].blindileaftype = y} = OfType(y) \cup {n}
        BY <1>6, <1>7, <3>2 DEF OfType
      <4>2. n \notin OfType(y)
        BY <1>5, <1>6 DEF OfType
      <4>3. Cardinality(OfType(y) \cup {n}) = Cardinality(OfType(y)) + 1
        BY <1>17, <4>2, FS_AddElement
      <4>4. QED
        BY <1>16, <3>1, <3>2, <4>1, <4>3
    <3>3. CASE y # t
      <4>1. {m \in Leaves' : heap'[m].blindileaftype = y} = OfType(y)
        BY <1>6, <1>7, <3>3 DEF OfType
      <4>2. QED
        BY <1>16, <3>1, <3>3, <4>1
    <3>4. QED
      BY <3>2, <3>3
  <2>4. /\ stats'.leaves = Cardinality(Leaves')
        /\ stats'.innernodes = Cardinality(Inner')
        /\ stats'.itemcount = Cardinality(stored')
    BY <1>1, <1>4, <1>6, <1>16, <2>1 DEF Counted
  <2>5. QED
    BY <1>1, <1>17, <2>2, <2>3, <2>4 DEF Counted
<1>19. TypeOK'
  <2>1. stats' \in [leaves : Nat, innernodes : Nat, itemcount : Nat,
                    ofType : [Types -> Nat]]
    BY <1>16, <1>18, CountersType
  <2>2. \A m \in Inner' : heap'[m].childid \in Seq(Allocated')
    BY <1>6, <1>10
  <2>3. /\ Allocated' \subseteq Nodes
        /\ root' \in Allocated' \cup {Null}
        /\ {cur', newchild'} \subseteq Allocated' \cup {Null}
        /\ path' \in Seq(Inner' \X Nat)
    BY <1>1, <1>2, <1>3, <1>4, <1>5, <1>6, <1>8 DEF TypeOK
  <2>4. /\ {head', tail'} \subseteq Pointers
        /\ hybridstatus' \in {"CONTINUE", "SHOULD_COMPRESS", "MUST_COMPRESS"}
        /\ limit2MustCompress' \in 0 .. SizeTop - 1
        /\ key' \in Keys \cup {Null} /\ newkey' \in Keys \cup {Null}
        /\ pc' \in {"idle", "descend", "store", "unwind"}
        /\ stored' \subseteq Keys
    BY <1>1, <1>2, <1>4 DEF TypeOK
  <2>5. QED
    BY <1>6, <2>1, <2>2, <2>3, <2>4 DEF TypeOK
<1>20. CallUnderWay'
  <2>1. heap'[root].level = heap[root].level
    BY <1>5, <1>7, NodeKinds, <1>4
  <2>2. PathLeadsDown' /\ (path # <<>> => pathEnd' = pathEnd)
    BY <1>1, <1>4, <1>7, <2>1, KeptPath
  <2>3. pathEnd' = c
    <3>1. CASE path = <<>>
      BY <1>1, <1>8, <3>1 DEF pathEnd
    <3>2. CASE path # <<>>
      BY <1>4, <2>2, <3>2
    <3>3. QED
      BY <3>1, <3>2
  <2>4. SplitAlike'
    <3>1. heap'[n].level + Len(path) = heap'[root].level
      BY <1>4, <1>7, <2>1
    <3>2. QED
      BY <1>1, <1>2, <1>7, <2>3, <3>1 DEF SplitAlike
  <2>5. QED
    BY <1>1, <1>4, <2>2, <2>4 DEF CallUnderWay
<1>21. t = 0 => /\ stats.itemcount <= ShouldLimit
                /\ hybridstatus = "CONTINUE"
  <2>1. SUFFICES ASSUME t = 0
                 PROVE  /\ stats.itemcount <= ShouldLimit
                        /\ hybridstatus = "CONTINUE"
    OBVIOUS
  <2>2. ~isblindileafnode(cur)
    BY <1>3, <2>1 DEF isblindileafnode
  <2>3. StatusDriven
    BY DEF ElasticInv
  <2>4. hybridstatus = "CONTINUE"
    BY <1>1, <2>2, <2>3 DEF StatusDriven
  <2>5. c \in OfType(0) /\ IsFiniteSet(OfType(0))
    BY <1>3, <1>4, <1>17, <2>1 DEF OfType
  <2>6. Cardinality(OfType(0)) # 0
    BY <2>5, FS_EmptySet
  <2>7. stats.ofType[0] = Cardinality(OfType(0))
    BY <1>4, TypeFacts DEF Counted, OfType
  <2>8. ~(stats.itemcount > ShouldLimit)
    BY <2>3, <2>4, <2>6, <2>7 DEF StatusDriven
  <2>9. stats.itemcount \in Nat /\ ShouldLimit \in Nat
    BY <1>4, ElasticAssumption DEF TypeOK
  <2>10. QED
    BY <2>4, <2>8, <2>9
<1>22. t # 0 => stats'.ofType[0] = stats.ofType[0]
  BY <1>16, TypeFacts
<1>23. stats.itemcount \in Nat /\ ShouldLimit \in Nat /\ stats.ofType[0] \in Nat
  <2>1. stats.ofType \in [Types -> Nat] /\ stats.itemcount \in Nat
    BY <1>4 DEF TypeOK
  <2>2. QED
    BY <2>1, TypeFacts, ElasticAssumption
<1>24. StatusDriven'
  <2>1. StatusDriven
    BY DEF ElasticInv
  <2>2. hybridstatus' = "CONTINUE" /\ stats'.itemcount > ShouldLimit
          => stats'.ofType[0] = 0
    BY <1>1, <1>16, <1>21, <1>22, <1>23, <2>1 DEF StatusDriven
  <2>3. ~isblindileafnode(newchild)' => stats'.itemcount <= ShouldLimit
    <3>1. ~isblindileafnode(newchild)' => t = 0
      BY <1>2, <1>5, <1>7, TypeFacts DEF isblindileafnode
    <3>2. QED
      BY <1>16, <1>21, <3>1
  <2>4. hybridstatus' # "CONTINUE" => stats'.itemcount > ShouldLimit
    BY <1>1, <1>16, <2>1 DEF StatusDriven
  <2>5. QED
    BY <1>1, <2>2, <2>3, <2>4 DEF StatusDriven
<1>25. ElasticInv'
  BY <1>15, <1>18, <1>19, <1>20, <1>24 DEF ElasticInv
<1>26. stats.itemcount > ShouldLimit => stats'.ofType[0] <= stats.ofType[0]
  BY <1>21, <1>22, <1>23
<1>27. QED
  BY <1>25, <1>26

-----------------------------------------------------------------------------
(* A split on its way up *)

\* A step back up the path: the node at the end of it, and perhaps a new
\* inner node, are all that changes.
UnwindStep ==
  /\ pc = "unwind" /\ newchild # Null /\ path # <<>>
  /\ UNCHANGED <<root, head, tail, limits, pc, key, cur, stored>>
  /\ path' = Front(path)
  /\ Leaves' = Leaves /\ \A m \in Leaves : heap'[m] = heap[m]
  /\ Allocated' \subseteq Nodes /\ IsFiniteSet(Allocated')
  /\ Allocated \subseteq Allocated'
  /\ heap' \in [Allocated' -> LeafNodes \cup InnerNodes]
  /\ Inner \subseteq Inner'
  /\ \A m \in Inner : m # above[1] => heap'[m] = heap[m]
  /\ heap'[above[1]].level = heap[above[1]].level
  /\ LinkedOnce'
  /\ \A m \in Inner' : /\ InnerFilled(m)' /\ MarkTrue(m)'
                       /\ heap'[m].childid \in Seq(Allocated')
  /\ stats' \in Counters /\ stats'.leaves = stats.leaves
  /\ stats'.itemcount = stats.itemcount /\ stats'.ofType = stats.ofType
  /\ stats'.innernodes = Cardinality(Inner')
  /\ newkey' \in Keys \cup {Null} /\ newchild' \in Inner' \cup {Null}
  /\ newchild' # Null => /\ newkey' \in Keys
                         /\ heap'[newchild'].level + Len(path')
                              = heap'[root'].level

\* The first steps of a path are not at its last node.
LEMMA FrontOfPath ==
  ASSUME TypeOK, PathLeadsDown, path # <<>>, root' = root, path' = Front(path),
         \A m \in Inner : m # above[1] => heap'[m] = heap[m],
         heap'[above[1]].level = heap[above[1]].level
  PROVE  /\ PathLeadsDown' /\ path' \in Seq(Inner \X Nat)
         /\ Len(path') + 1 = Len(path)
<1>1. /\ path \in Seq(Inner \X Nat) /\ Len(path) \in Nat /\ Len(path) # 0
      /\ above = path[Len(path)]
  BY DEF TypeOK, above, Last
<1>2. /\ path' \in Seq(Inner \X Nat) /\ Len(path') = Len(path) - 1
      /\ \A e \in 1 .. Len(path') : path'[e] = path[e]
  <2>1. PICK c, s : c = Len(path) - 1 /\ s = SubSeq(path, 1, c)
    OBVIOUS
  <2>2. c \in Nat /\ c <= Len(path) /\ 1 <= c + 1 /\ c + 1 - 1 = c
    BY <1>1, <2>1
  <2>3. /\ s \in Seq(Inner \X Nat) /\ Len(s) = c
        /\ \A e \in 1 .. c : s[e] = path[1 + e - 1]
    BY <1>1, <2>1, <2>2, SubSeqElement
  <2>4. \A e \in 1 .. c : 1 + e - 1 = e
    BY <2>2
  <2>5. path' = s
    BY <2>1 DEF Front
  <2>6. QED
    BY <2>1, <2>3, <2>4, <2>5
<1>3. \A e \in 1 .. Len(path) : path[e] \in Inner \X Nat
  BY <1>1
<1>4. ASSUME NEW e \in 1 .. Len(path')
      PROVE  path[e][1] # above[1] /\ path[e][1] \in Inner
             /\ e \in 1 .. Len(path)
  <2>1. /\ e \in 1 .. Len(path) /\ e # Len(path) /\ e \in Nat
        /\ Len(path) \in 1 .. Len(path)
    BY <1>1, <1>2
  <2>2. path[e][1] \in Inner /\ above[1] \in Inner
    BY <1>1, <1>3, <2>1
  <2>3. /\ heap[path[e][1]].level + e = heap[root].level + 1
        /\ heap[above[1]].level + Len(path) = heap[root].level + 1
    BY <1>1, <2>1 DEF PathLeadsDown
  <2>4. heap[path[e][1]].level \in Nat /\ heap[above[1]].level \in Nat
    BY <2>2, NodeKinds, InnerFields
  <2>5. PICK a, b, k : /\ a = heap[path[e][1]].level
                       /\ b = heap[above[1]].level /\ k = Len(path)
    OBVIOUS
  <2>6. a + e = b + k /\ a \in Nat /\ b \in Nat /\ k \in Nat /\ e # k
    BY <1>1, <2>1, <2>3, <2>4, <2>5
  <2>7. a # b
    BY <2>1, <2>6
  <2>8. QED
    BY <2>1, <2>2, <2>5, <2>7
<1>5. root \in Inner /\ heap'[root].level = heap[root].level
  BY RootInner
<1>6. path' # <<>> => path'[1][1] = root
  <2>1. path' # <<>> => 1 \in 1 .. Len(path')
    BY <1>2
  <2>2. QED
    BY <1>2, <2>1 DEF PathLeadsDown
<1>7. \A e \in 1 .. Len(path') :
        /\ path'[e][2] \in 0 .. Len(heap'[path'[e][1]].slotkey)
        /\ heap'[path'[e][1]].level + e = heap'[root].level + 1
  <2> TAKE e \in 1 .. Len(path')
  <2>1. /\ path[e][2] \in 0 .. Len(heap[path[e][1]].slotkey)
        /\ heap[path[e][1]].level + e = heap[root].level + 1
    BY <1>4 DEF PathLeadsDown
  <2>2. heap'[path[e][1]] = heap[path[e][1]] /\ path'[e] = path[e]
    BY <1>2, <1>4
  <2>3. QED
    BY <1>5, <2>1, <2>2
<1>8. \A e \in 1 .. Len(path') - 1 :
        path'[e + 1][1] = heap'[path'[e][1]].childid[path'[e][2] + 1]
  <2> TAKE e \in 1 .. Len(path') - 1
  <2>1. e \in 1 .. Len(path') /\ e + 1 \in 1 .. Len(path')
        /\ e \in 1 .. Len(path) - 1
    BY <1>1, <1>2
  <2>2. path[e + 1][1] = heap[path[e][1]].childid[path[e][2] + 1]
    BY <2>1 DEF PathLeadsDown
  <2>3. heap'[path[e][1]] = heap[path[e][1]]
    BY <1>4, <2>1
  <2>4. QED
    BY <1>2, <2>1, <2>2, <2>3
<1>9. QED
  BY <1>1, <1>2, <1>6, <1>7, <1>8 DEF PathLeadsDown

\* A step back up keeps the invariant.
LEMMA UnwindStepInv ==
  ASSUME ElasticInv, UnwindStep
  PROVE  ElasticInv'
<1>1. /\ pc = "unwind" /\ pc' = "unwind" /\ newchild # Null /\ path # <<>>
      /\ root' = root /\ head' = head /\ tail' = tail
      /\ hybridstatus' = hybridstatus /\ key' = key /\ cur' = cur
      /\ limit2MustCompress' = limit2MustCompress /\ stored' = stored
      /\ path' = Front(path)
  BY DEF UnwindStep, limits
<1>2. /\ Leaves' = Leaves /\ \A m \in Leaves : heap'[m] = heap[m]
      /\ Allocated' \subseteq Nodes /\ IsFiniteSet(Allocated')
      /\ Allocated \subseteq Allocated' /\ Inner \subseteq Inner'
  BY DEF UnwindStep
<1>3. /\ stats' \in Counters /\ stats'.leaves = stats.leaves
      /\ stats'.itemcount = stats.itemcount /\ stats'.ofType = stats.ofType
      /\ stats'.innernodes = Cardinality(Inner')
  BY DEF UnwindStep
<1>4. /\ TypeOK /\ ListLinked /\ Counted /\ PathLeadsDown /\ root # Null
      /\ \A m \in Leaves : LeafFilled(m)
      /\ UNION {heap[m].items : m \in Leaves} = stored \cup beingStored
      /\ key \in Keys \ stored
  BY <1>1 DEF ElasticInv, Tree, CallUnderWay
<1>5. PathLeadsDown' /\ path' \in Seq(Inner \X Nat)
  BY <1>1, <1>4, FrontOfPath DEF UnwindStep
<1>6. root \in Inner /\ root \notin Leaves
  BY <1>1, <1>4, RootInner, NodeKinds
<1>7. ListLinked'
  <2>1. \A m \in Leaves : heap[m].nextleaf # Null =>
          /\ heap[m].nextleaf \in Leaves \ {m}
          /\ heap'[heap[m].nextleaf].prevleaf = m
    BY <1>2, <1>4 DEF ListLinked
  <2>2. \A m \in Leaves : heap[m].prevleaf # Null =>
          /\ heap[m].prevleaf \in Leaves \ {m}
          /\ heap'[heap[m].prevleaf].nextleaf = m
    BY <1>2, <1>4 DEF ListLinked
  <2>3. /\ \A k, m \in Leaves :
             heap[k].prevleaf = Null /\ heap[m].prevleaf = Null => k = m
        /\ \E m \in Leaves : heap[m].prevleaf = Null
    BY <1>4 DEF ListLinked
  <2>4. QED
    BY <1>2, <2>1, <2>2, <2>3 DEF ListLinked
<1>8. ASSUME NEW m \in Leaves PROVE LeafFilled(m)'
  <2>1. LeafFilled(m) /\ heap'[m] = heap[m] /\ m # root
    BY <1>2, <1>4, <1>6
  <2>2. QED
    BY <1>1, <2>1 DEF LeafFilled, capacity, isblindileafnode
<1>9. UNION {heap'[m].items : m \in Leaves'} = stored' \cup beingStored'
  <2>1. UNION {heap'[m].items : m \in Leaves'}
          = UNION {heap[m].items : m \in Leaves}
    BY <1>2
  <2>2. beingStored' = beingStored
    BY <1>1 DEF beingStored
  <2>3. QED
    BY <1>1, <1>4, <2>1, <2>2
<1>10. Tree'
  <2>1. LinkedOnce' /\ \A m \in Inner' : InnerFilled(m)' /\ MarkTrue(m)'
    BY DEF UnwindStep
  <2>2. RootLeafPlain'
    BY <1>1, <1>2, <1>6 DEF RootLeafPlain
  <2>3. \A m \in Leaves' : LeafFilled(m)'
    BY <1>2, <1>8
  <2>4. QED
    BY <1>1, <1>4, <1>7, <1>9, <2>1, <2>2, <2>3 DEF Tree
<1>11. Counted'
  <2>1. \A y : {m \in Leaves' : heap'[m].blindileaftype = y}
                 = {m \in Leaves : heap[m].blindileaftype = y}
    BY <1>2
  <2>2. \A y \in Types : stats'.ofType[y] =
          Cardinality({m \in Leaves' : heap'[m].blindileaftype = y})
    BY <1>3, <1>4, <2>1 DEF Counted
  <2>3. QED
    BY <1>1, <1>2, <1>3, <1>4, <2>2 DEF Counted
<1>12. TypeOK'
  <2>1. stats' \in [leaves : Nat, innernodes : Nat, itemcount : Nat,
                    ofType : [Types -> Nat]]
    BY <1>3, <1>11, CountersType
  <2>2. /\ heap' \in [Allocated' -> LeafNodes \cup InnerNodes]
        /\ \A m \in Inner' : heap'[m].childid \in Seq(Allocated')
        /\ newkey' \in Keys \cup {Null} /\ newchild' \in Inner' \cup {Null}
    BY DEF UnwindStep
  <2>3. Inner' \subseteq Allocated'
    BY DEF Inner
  <2>4. /\ root' \in Allocated' \cup {Null}
        /\ {cur', newchild'} \subseteq Allocated' \cup {Null}
    BY <1>1, <1>2, <1>4, <2>2, <2>3 DEF TypeOK
  <2>5. path' \in Seq(Inner' \X Nat)
    <3>1. Inner \X Nat \subseteq Inner' \X Nat
      BY <1>2
    <3>2. QED
      BY <1>5, <3>1, SeqMonotone
  <2>6. /\ {head', tail'} \subseteq Pointers
        /\ hybridstatus' \in {"CONTINUE", "SHOULD_COMPRESS", "MUST_COMPRESS"}
        /\ limit2MustCompress' \in 0 .. SizeTop - 1
        /\ key' \in Keys \cup {Null}
        /\ pc' \in {"idle", "descend", "store", "unwind"}
        /\ stored' \subseteq Keys
    BY <1>1, <1>4 DEF TypeOK
  <2>7. QED
    BY <1>2, <2>1, <2>2, <2>4, <2>5, <2>6 DEF TypeOK
<1>13. newchild' \notin Leaves'
  <2>1. newchild' \in Inner' \cup {Null}
    BY DEF UnwindStep
  <2>2. Null \notin Leaves'
    BY <1>2, <1>4, NodeKinds, ElasticAssumption
  <2>3. QED
    BY <2>1, <2>2 DEF Inner
<1>14. CallUnderWay'
  <2>1. SplitAlike'
    BY <1>13 DEF SplitAlike, UnwindStep
  <2>2. QED
    BY <1>1, <1>4, <1>5, <2>1 DEF CallUnderWay
<1>15. StatusDriven'
  <2>1. StatusDriven
    BY DEF ElasticInv
  <2>2. QED
    BY <1>1, <1>3, <1>13, <2>1 DEF StatusDriven
<1>16. QED
  BY <1>10, <1>11, <1>12, <1>14, <1>15 DEF ElasticInv

\* An element of a sequence.
LEMMA SeqElement ==
  ASSUME NEW S, NEW s \in Seq(S), NEW i \in 1 .. Len(s)
  PROVE  s[i] \in S
  OBVIOUS

\* K and C are the keys and the children of n with the new ones entered.
NewChildren(n, K, C) ==
  /\ K \in Seq(Keys) /\ C \in Seq(Allocated)
  /\ Len(C) = Len(K) + 1 /\ Len(K) = Len(heap[n].slotkey) + 1
  /\ \A i, j \in 1 .. Len(C) : C[i] = C[j] => i = j
  /\ \A j \in 1 .. Len(C) : /\ C[j] # root
                            /\ heap[C[j]].level + 1 = heap[n].level
  /\ \A q \in Inner \ {n} : \A i \in Slots(q) : \A j \in 1 .. Len(C) :
       heap[q].childid[i] # C[j]
  /\ \A i \in Slots(n) : \E j \in 1 .. Len(C) : C[j] = heap[n].childid[i]
  /\ \E j \in 1 .. Len(C) : C[j] = newchild
  /\ heap[n].alreadycomprerss =>
       /\ stats.itemcount > ShouldLimit
       /\ \A j \in 1 .. Len(K) : C[j] \in Leaves /\ isblindileafnode(C[j])

\* No element comes twice, and e is not among them.
OnceWithout(C, e) ==
  /\ Len(C) \in Nat
  /\ \A j, k \in 1 .. Len(C) : C[j] = C[k] => j = k
  /\ \A j \in 1 .. Len(C) : C[j] # e

\* D has each element of C and e once, e as the i-th.
OnceWith(D, C, i, e) ==
  /\ \A j, k \in 1 .. Len(D) : D[j] = D[k] => j = k
  /\ \A j \in 1 .. Len(D) :
       \/ D[j] = e
       \/ \E k \in 1 .. Len(C) : D[j] = C[k]
  /\ \A k \in 1 .. Len(C) : \E j \in 1 .. Len(D) : D[j] = C[k]
  /\ i \in 1 .. Len(D) /\ D[i] = e

\* A sequence without repetitions stays one when another element enters.
LEMMA InsertedOnce ==
  ASSUME NEW C, NEW D, NEW i \in 1 .. Len(C) + 1, NEW e,
         Inserted(D, C, i, e), OnceWithout(C, e)
  PROVE  OnceWith(D, C, i, e)
<1> USE DEF OnceWithout
<1>1. /\ Len(D) = Len(C) + 1 /\ i \in Nat
      /\ \A j \in 1 .. Len(C) + 1 :
           D[j] = IF j < i THEN C[j] ELSE IF j = i THEN e ELSE C[j - 1]
  BY DEF Inserted
<1>2. i \in 1 .. Len(D) /\ D[i] = e
  BY <1>1
<1>3. ASSUME NEW m \in 1 .. Len(D)
      PROVE  \/ m = i /\ D[m] = e
             \/ m < i /\ m \in 1 .. Len(C) /\ D[m] = C[m]
             \/ m > i /\ m - 1 \in 1 .. Len(C) /\ D[m] = C[m - 1]
  BY <1>1
<1>4. \A j \in 1 .. Len(D) : \/ D[j] = e
                             \/ \E k \in 1 .. Len(C) : D[j] = C[k]
  BY <1>3
<1>0. \A j \in 1 .. Len(D) : D[j] = e => j = i
  BY <1>3
<1>5. ASSUME NEW j \in 1 .. Len(D), NEW k \in 1 .. Len(D), D[j] = D[k]
      PROVE  j = k
  <2>1. CASE j = i
    <3>1. D[j] = e
      BY <1>2, <2>1
    <3>2. D[k] = e
      BY <1>5, <3>1
    <3>3. QED
      BY <1>0, <2>1, <3>2
  <2>2. CASE k = i
    <3>1. D[j] = e
      BY <1>2, <1>5, <2>2
    <3>2. QED
      BY <1>0, <2>2, <3>1
  <2>3. CASE j # i /\ k # i
    <3>1. \/ j < i /\ j \in 1 .. Len(C) /\ D[j] = C[j]
          \/ j > i /\ j - 1 \in 1 .. Len(C) /\ D[j] = C[j - 1]
      BY <1>3, <1>5, <2>3
    <3>2. \/ k < i /\ k \in 1 .. Len(C) /\ D[k] = C[k]
          \/ k > i /\ k - 1 \in 1 .. Len(C) /\ D[k] = C[k - 1]
      BY <1>3, <1>5, <2>3
    <3>3. j < i /\ k < i => j = k
      BY <1>5, <3>1, <3>2
    <3>4. j > i /\ k > i => j - 1 = k - 1
      BY <1>5, <3>1, <3>2
    <3>5. ~(j < i /\ k > i)
      <4>1. j < i /\ k > i => j = k - 1
        BY <1>5, <3>1, <3>2
      <4>2. QED
        BY <1>1, <4>1
    <3>6. ~(j > i /\ k < i)
      <4>1. j > i /\ k < i => j - 1 = k
        BY <1>5, <3>1, <3>2
      <4>2. QED
        BY <1>1, <4>1
    <3>7. QED
      BY <1>1, <2>3, <3>3, <3>4, <3>5, <3>6
  <2>4. QED
    BY <2>1, <2>2, <2>3
<1>6. ASSUME NEW k \in 1 .. Len(C)
      PROVE  \E j \in 1 .. Len(D) : D[j] = C[k]
  <2>1. CASE k < i
    BY <1>1, <2>1
  <2>2. CASE ~(k < i)
    <3>1. k + 1 \in 1 .. Len(D) /\ ~(k + 1 < i) /\ k + 1 # i /\ k + 1 - 1 = k
      BY <1>1, <2>2
    <3>2. D[k + 1] = C[k]
      BY <1>1, <3>1
    <3>3. QED
      BY <3>1, <3>2
  <2>3. QED
    BY <2>1, <2>2
<1>7. QED
  BY <1>2, <1>4, <1>5, <1>6 DEF OnceWith

\* J and D are the keys and children of n, K and C those with the new ones.
Entering(n, s, J, D, K, C) ==
  /\ n = above[1] /\ s = above[2]
  /\ J = heap[n].slotkey /\ D = heap[n].childid
  /\ K = InsertAt(J, s + 1, newkey) /\ C = InsertAt(D, s + 2, newchild)

\* The children of the node at the end of the path, with the new one entered
\* behind the one that was split.
LEMMA NewChildEntered ==
  ASSUME ElasticInv, pc = "unwind", newchild # Null, path # <<>>,
         NEW n, NEW s, NEW J, NEW D, NEW K, NEW C, Entering(n, s, J, D, K, C)
  PROVE  /\ n \in Inner /\ s \in 0 .. Len(J)
         /\ J \in Seq(Keys) /\ D \in Seq(Allocated)
         /\ NewChildren(n, K, C)
         /\ Inserted(C, D, s + 2, newchild) /\ Inserted(K, J, s + 1, newkey)
<1>1. /\ TypeOK /\ PathLeadsDown /\ SplitAlike /\ LinkedOnce /\ StatusDriven
      /\ \A m \in Inner : InnerFilled(m) /\ MarkTrue(m)
  BY DEF ElasticInv, Tree, CallUnderWay
<1>2. PathEndFacts
  BY <1>1, PathEnd
<1>3. D = heap[n].childid /\ J = heap[n].slotkey
  BY DEF Entering
<1>4. /\ n \in Inner /\ s \in Nat /\ s <= Len(J) /\ pathEnd = D[s + 1]
      /\ J \in Seq(Keys) /\ D \in Seq(Allocated) /\ Len(J) \in Nat
      /\ Len(D) \in Nat
  <2>1. /\ n \in Inner /\ s \in Nat /\ s <= Len(J)
        /\ pathEnd = D[s + 1]
    BY <1>2, <1>3 DEF PathEndFacts, Entering
  <2>2. J \in Seq(Keys)
    BY <1>1, <1>3, <2>1, NodeKinds, InnerFields
  <2>3. D \in Seq(Allocated)
    BY <1>1, <1>3, <2>1 DEF TypeOK
  <2>4. QED
    BY <2>1, <2>2, <2>3
<1>5. /\ newchild \in Allocated /\ newkey \in Keys /\ newchild # root
  BY <1>1 DEF TypeOK, SplitAlike, LinkedOnce
<1>6. /\ Len(D) = Len(J) + 1 /\ Slots(n) = 1 .. Len(D)
      /\ \A i \in 1 .. Len(D) : heap[D[i]].level + 1 = heap[n].level
      /\ Len(J) \in 1 .. innerslotmax
  BY <1>1, <1>3, <1>4 DEF InnerFilled, Slots
<1>7. s + 1 \in 1 .. Len(J) + 1 /\ s + 2 \in 1 .. Len(D) + 1
      /\ s + 1 \in 1 .. Len(D) /\ s \in 0 .. Len(J)
  <2>1. Len(D) = Len(J) + 1 /\ s \in Nat /\ s <= Len(J) /\ Len(J) \in Nat
    BY <1>4, <1>6
  <2>2. PICK c : c = Len(J)
    OBVIOUS
  <2>3. PICK d : d = Len(D)
    OBVIOUS
  <2>4. d = c + 1 /\ s \in Nat /\ s <= c /\ c \in Nat
    BY <2>1, <2>2, <2>3
  <2>5. s + 1 \in 1 .. c + 1 /\ s + 2 \in 1 .. d + 1
        /\ s + 1 \in 1 .. d /\ s \in 0 .. c
    BY <2>4
  <2>6. QED
    BY <2>2, <2>3, <2>5
<1>8. K \in Seq(Keys) /\ Len(K) = Len(J) + 1 /\ Inserted(K, J, s + 1, newkey)
  <2>1. PICK i : i = s + 1
    OBVIOUS
  <2>2. J \in Seq(Keys) /\ i \in 1 .. Len(J) + 1 /\ newkey \in Keys
    BY <1>4, <1>5, <1>7, <2>1
  <2>3. K = InsertAt(J, i, newkey)
    BY <2>1 DEF Entering
  <2>4. K \in Seq(Keys) /\ Len(K) = Len(J) + 1
    BY <2>2, <2>3, InsertAtType
  <2>5. Inserted(K, J, i, newkey)
    BY <2>2, <2>3, InsertAtElement
  <2>6. QED
    BY <2>1, <2>4, <2>5
<1>9. /\ C \in Seq(Allocated) /\ Len(C) = Len(D) + 1
      /\ Inserted(C, D, s + 2, newchild)
  <2>1. PICK i : i = s + 2
    OBVIOUS
  <2>2. D \in Seq(Allocated) /\ i \in 1 .. Len(D) + 1 /\ newchild \in Allocated
    BY <1>4, <1>5, <1>7, <2>1
  <2>3. C = InsertAt(D, i, newchild)
    BY <2>1 DEF Entering
  <2>4. C \in Seq(Allocated) /\ Len(C) = Len(D) + 1
    BY <2>2, <2>3, InsertAtType
  <2>5. Inserted(C, D, i, newchild)
    BY <2>2, <2>3, InsertAtElement
  <2>6. QED
    BY <2>1, <2>4, <2>5
<1>10. /\ \A i, j \in 1 .. Len(D) : D[i] = D[j] => i = j
       /\ \A i \in 1 .. Len(D) : D[i] # newchild /\ D[i] # root
  <2>1. \A i \in Slots(n) : heap[n].childid[i] # root
                            /\ heap[n].childid[i] # newchild
    BY <1>1, <1>4 DEF LinkedOnce
  <2>2. \A i, j \in Slots(n) : heap[n].childid[i] = heap[n].childid[j] => i = j
    BY <1>1, <1>4 DEF LinkedOnce
  <2>3. QED
    BY <1>3, <1>6, <2>1, <2>2
<1>11. /\ \A i, j \in 1 .. Len(C) : C[i] = C[j] => i = j
       /\ \A j \in 1 .. Len(C) :
            \/ C[j] = newchild
            \/ \E k \in 1 .. Len(D) : C[j] = D[k]
       /\ \A k \in 1 .. Len(D) : \E j \in 1 .. Len(C) : C[j] = D[k]
       /\ s + 2 \in 1 .. Len(C) /\ C[s + 2] = newchild
  <2>1. PICK i : i = s + 2
    OBVIOUS
  <2>2. i \in 1 .. Len(D) + 1 /\ Len(D) \in Nat /\ Inserted(C, D, i, newchild)
    BY <1>4, <1>7, <1>9, <2>1
  <2>3. OnceWithout(D, newchild)
    BY <1>4, <1>10 DEF OnceWithout
  <2>4. OnceWith(C, D, i, newchild)
    BY <2>2, <2>3, InsertedOnce
  <2>5. QED
    BY <2>1, <2>4 DEF OnceWith
<1>12. heap[newchild].level + 1 = heap[n].level
  <2>1. /\ heap[newchild].level + Len(path) = heap[root].level
        /\ heap[n].level + Len(path) = heap[root].level + 1
        /\ Len(path) \in Nat /\ heap[root].level \in Nat
    <3>1. n = above[1]
      BY DEF Entering
    <3>2. heap[newchild].level + Len(path) = heap[root].level
      BY <1>1 DEF SplitAlike
    <3>3. QED
      BY <1>2, <3>1, <3>2 DEF PathEndFacts
  <2>2. heap[newchild].level \in Nat /\ heap[n].level \in Nat
    BY <1>1, <1>4, <1>5, NodeKinds, LeafFields, InnerFields
  <2>3. PICK a, b, c, l : /\ a = heap[newchild].level /\ b = heap[n].level
                          /\ c = heap[root].level /\ l = Len(path)
    OBVIOUS
  <2>4. /\ a \in Nat /\ b \in Nat /\ c \in Nat /\ l \in Nat
        /\ a + l = c /\ b + l = c + 1
    BY <2>1, <2>2, <2>3
  <2>5. a + 1 = b
    BY <2>4
  <2>6. QED
    BY <2>3, <2>5
<1>13. \A j \in 1 .. Len(C) : C[j] # root
                              /\ heap[C[j]].level + 1 = heap[n].level
  BY <1>5, <1>6, <1>10, <1>11, <1>12
<1>14. ASSUME NEW q \in Inner \ {n}, NEW i \in Slots(q), NEW j \in 1 .. Len(C)
       PROVE  heap[q].childid[i] # C[j]
  <2>1. heap[q].childid[i] # newchild
    BY <1>1 DEF LinkedOnce
  <2>2. ASSUME NEW k \in 1 .. Len(D) PROVE heap[q].childid[i] # D[k]
    BY <1>1, <1>3, <1>4, <1>6 DEF LinkedOnce
  <2>3. QED
    BY <1>11, <2>1, <2>2
<1>15. ASSUME heap[n].alreadycomprerss
       PROVE  /\ stats.itemcount > ShouldLimit
              /\ \A j \in 1 .. Len(K) : C[j] \in Leaves /\ isblindileafnode(C[j])
  <2>1. /\ stats.itemcount > ShouldLimit
        /\ \A i \in 1 .. Len(J) : D[i] \in Leaves /\ isblindileafnode(D[i])
    BY <1>1, <1>3, <1>4, <1>15 DEF MarkTrue
  <2>2. heap[n].level = 1
    <3>1. 1 \in 1 .. Len(J) /\ 1 \in 1 .. Len(D)
      BY <1>4, <1>6
    <3>2. heap[D[1]].level = 0 /\ heap[D[1]].level + 1 = heap[n].level
      BY <1>6, <2>1, <3>1 DEF Leaves
    <3>3. QED
      BY <3>2
  <2>3. newchild \in Leaves /\ pathEnd \in Leaves
    <3>1. heap[newchild].level \in Nat /\ heap[pathEnd].level \in Nat
          /\ pathEnd \in Allocated
      BY <1>1, <1>2, <1>5, NodeKinds, LeafFields, InnerFields
      DEF PathEndFacts
    <3>2. heap[pathEnd].level + 1 = heap[n].level
      BY <1>4, <1>6, <1>7
    <3>3. heap[newchild].level = 0 /\ heap[pathEnd].level = 0
      BY <1>12, <2>2, <3>1, <3>2
    <3>4. QED
      BY <1>5, <3>1, <3>3 DEF Leaves
  <2>4. isblindileafnode(newchild)
    <3>1. stats.itemcount \in Nat /\ ShouldLimit \in Nat
      BY <1>1, ElasticAssumption DEF TypeOK
    <3>2. ~isblindileafnode(newchild) => stats.itemcount <= ShouldLimit
      BY <1>1, <2>3 DEF StatusDriven
    <3>3. QED
      BY <2>1, <3>1, <3>2
  <2>5. isblindileafnode(pathEnd)
    BY <1>1, <2>3, <2>4 DEF SplitAlike, isblindileafnode
  <2>6. ASSUME NEW j \in 1 .. Len(K)
        PROVE  C[j] \in Leaves /\ isblindileafnode(C[j])
    <3>1. C[j] = IF j < s + 2 THEN D[j]
                 ELSE IF j = s + 2 THEN newchild ELSE D[j - 1]
      <4>1. j \in 1 .. Len(D) + 1
        BY <1>6, <1>8
      <4>2. QED
        BY <1>9, <4>1 DEF Inserted
    <3>2. CASE j = s + 1
      <4>1. C[j] = pathEnd
        BY <1>4, <3>1, <3>2
      <4>2. QED
        BY <2>3, <2>5, <4>1
    <3>3. CASE j = s + 2
      <4>1. C[j] = newchild
        BY <1>4, <3>1, <3>3
      <4>2. QED
        BY <2>3, <2>4, <4>1
    <3>4. CASE j < s + 1
      <4>1. j \in 1 .. Len(J) /\ C[j] = D[j]
        BY <1>4, <3>1, <3>4
      <4>2. QED
        BY <2>1, <4>1
    <3>5. CASE j > s + 2
      <4>1. j - 1 \in 1 .. Len(J) /\ C[j] = D[j - 1]
        BY <1>4, <1>8, <3>1, <3>5
      <4>2. QED
        BY <2>1, <4>1
    <3>6. QED
      BY <1>4, <3>2, <3>3, <3>4, <3>5
  <2>7. QED
    BY <2>1, <2>6
<1>16. \A i \in Slots(n) : \E j \in 1 .. Len(C) : C[j] = heap[n].childid[i]
  BY <1>3, <1>6, <1>11
<1>17. Len(C) = Len(K) + 1 /\ Len(K) = Len(heap[n].slotkey) + 1
  BY <1>3, <1>4, <1>6, <1>8, <1>9
<1>18. NewChildren(n, K, C)
  BY <1>8, <1>9, <1>11, <1>13, <1>14, <1>15, <1>16, <1>17 DEF NewChildren
<1>19. QED
  BY <1>3, <1>4, <1>7, <1>8, <1>9, <1>18

\* The nodes of V share the children C of n: n itself, and a new node x when
\* n was split.
Share(V, n, x, C) ==
  /\ V = IF x = Null THEN {n} ELSE {n, x}
  /\ x # Null => x \in Nodes \ Allocated
  /\ DOMAIN heap' = Allocated \cup V /\ heap' = [m \in DOMAIN heap' |-> heap'[m]]
  /\ \A m \in Allocated \ {n} : heap'[m] = heap[m]
  /\ \A p, q \in V : \A i \in Slots(p)', j \in Slots(q)' :
       heap'[p].childid[i] = heap'[q].childid[j] => p = q /\ i = j
  /\ \A p \in V : \A i \in Slots(p)' : \E j \in 1 .. Len(C) :
       heap'[p].childid[i] = C[j]
  /\ \A j \in 1 .. Len(C) : \E p \in V : \E i \in Slots(p)' :
       heap'[p].childid[i] = C[j]

\* Each of them is an inner node like n, and has enough of the children.
ShareOf(p, n, x, K, C) ==
  /\ heap'[p] \in InnerNodes /\ heap'[p].level = heap[n].level
  /\ heap'[p].childid \in Seq(Allocated)
  /\ Len(heap'[p].childid) = Len(heap'[p].slotkey) + 1
  /\ Len(heap'[p].slotkey) \in 1 .. innerslotmax
  /\ p # root \/ x # Null => Len(heap'[p].slotkey) >= innerslotmax \div 2
  /\ heap'[p].alreadycomprerss =>
       /\ heap[n].alreadycomprerss
       /\ \A i \in 1 .. Len(heap'[p].slotkey) : \E j \in 1 .. Len(K) :
            heap'[p].childid[i] = C[j]

\* What the heap is with the children shared.
SharedHeap(V, n) ==
  /\ Allocated' = Allocated \cup V /\ Leaves' = Leaves
  /\ Inner' = Inner \cup V /\ V \subseteq Nodes
  /\ heap' \in [Allocated' -> LeafNodes \cup InnerNodes]
  /\ \A m \in Leaves : heap'[m] = heap[m]
  /\ \A m \in Inner : m # n => heap'[m] = heap[m]
  /\ \A m \in Allocated : heap'[m].level = heap[m].level

\* They are inner nodes, and all other nodes are what they were.
LEMMA SharedNodes ==
  ASSUME TypeOK, NEW n \in Inner, NEW V, NEW x, NEW K, NEW C,
         Share(V, n, x, C), \A p \in V : ShareOf(p, n, x, K, C)
  PROVE  SharedHeap(V, n)
<1>1. /\ Allocated' = Allocated \cup V /\ heap' = [m \in Allocated' |-> heap'[m]]
      /\ \A m \in Allocated \ {n} : heap'[m] = heap[m]
      /\ n \in V /\ \A p \in V : p # n => p \in Nodes \ Allocated
  BY DEF Share, Allocated
<1>2. /\ \A m \in Leaves : m \in Allocated /\ m # n /\ heap[m] \in LeafNodes
      /\ \A m \in Inner : m \in Allocated /\ m \in Nodes
                          /\ heap[m] \in InnerNodes
      /\ Leaves \cup Inner = Allocated
  BY NodeKinds
<1>3. \A p \in V : heap'[p] \in InnerNodes /\ heap'[p].level = heap[n].level
  BY DEF ShareOf
<1>4. V \subseteq Nodes
  BY <1>1, <1>2
<1>5. /\ \A m \in Leaves : heap'[m] = heap[m]
      /\ \A m \in Inner : m # n => heap'[m] = heap[m]
      /\ \A m \in Allocated : heap'[m].level = heap[m].level
  BY <1>1, <1>2, <1>3
<1>6. \A m \in V : m \notin Leaves
  BY <1>1, <1>2
<1>7. \A m \in V : heap'[m].level # 0
  BY <1>2, <1>3, InnerFields
<1>8. Leaves' = Leaves
  <2>1. Leaves' = {m \in Allocated' : heap'[m].level = 0}
    BY DEF Leaves
  <2>2. \A m \in Inner : m # n => heap'[m].level # 0
    BY <1>2, <1>5, InnerFields
  <2>3. \A m \in Allocated' : m \in Leaves \/ m \in V \/ (m \in Inner /\ m # n)
    BY <1>1, <1>2
  <2>4. \A m \in Leaves : m \in Allocated' /\ heap'[m].level = 0
    BY <1>1, <1>2, <1>5, LeafFields
  <2>5. QED
    BY <1>7, <2>1, <2>2, <2>3, <2>4
<1>9. Inner' = Inner \cup V
  <2>1. Inner' = Allocated' \ Leaves' /\ Inner = Allocated \ Leaves
    BY DEF Inner
  <2>2. QED
    BY <1>1, <1>6, <1>8, <2>1
<1>10. heap' \in [Allocated' -> LeafNodes \cup InnerNodes]
  <2>1. \A m \in Allocated' : heap'[m] \in LeafNodes \cup InnerNodes
    BY <1>1, <1>2, <1>3, <1>5
  <2>2. QED
    BY <1>1, <2>1
<1>11. QED
  BY <1>1, <1>4, <1>5, <1>8, <1>9, <1>10 DEF SharedHeap

\* Every child is still the child of exactly one slot.
LEMMA SharedLinks ==
  ASSUME TypeOK, LinkedOnce, NEW n \in Inner, NEW V, NEW x, NEW K, NEW C,
         root \in Allocated, root' = root, newchild' = x,
         NewChildren(n, K, C), Share(V, n, x, C), SharedHeap(V, n)
  PROVE  LinkedOnce'
<1>1. /\ Allocated' = Allocated \cup V /\ Inner' = Inner \cup V
      /\ \A m \in Inner : m # n => heap'[m] = heap[m]
  BY DEF SharedHeap
<1>2. x \notin Allocated /\ n \in V /\ \A m \in V : m = n \/ m = x
  <2>1. Null \notin Allocated
    BY ElasticAssumption DEF TypeOK
  <2>2. QED
    BY <2>1 DEF Share
<1>3. \A q \in Inner : /\ q \in Allocated /\ heap[q].childid \in Seq(Allocated)
                       /\ \A i \in Slots(q) : heap[q].childid[i] \in Allocated
  <2> TAKE q \in Inner
  <2>1. q \in Allocated /\ heap[q].childid \in Seq(Allocated)
    BY NodeKinds DEF TypeOK
  <2>2. QED
    BY <2>1 DEF Slots
<1>4. \A q \in Inner \ {n} : heap'[q] = heap[q] /\ Slots(q)' = Slots(q)
  BY <1>1 DEF Slots
<1>5. /\ C \in Seq(Allocated) /\ \A j \in 1 .. Len(C) : C[j] # root
      /\ \A q \in Inner \ {n} : \A i \in Slots(q) : \A j \in 1 .. Len(C) :
           heap[q].childid[i] # C[j]
      /\ \A i \in Slots(n) : \E j \in 1 .. Len(C) : C[j] = heap[n].childid[i]
      /\ \E j \in 1 .. Len(C) : C[j] = newchild
  BY DEF NewChildren
<1>6. \A j \in 1 .. Len(C) : C[j] \in Allocated
  <2>1. C \in Seq(Allocated)
    BY DEF NewChildren
  <2>2. QED
    BY <2>1, SeqElement
<1>7. \A q \in Inner' : q \in V \/ q \in Inner \ {n}
  BY <1>1, <1>2
<1>8. /\ \A p \in V : \A i \in Slots(p)' : \E j \in 1 .. Len(C) :
           heap'[p].childid[i] = C[j]
      /\ \A j \in 1 .. Len(C) : \E p \in V : \E i \in Slots(p)' :
           heap'[p].childid[i] = C[j]
      /\ \A p, q \in V : \A i \in Slots(p)', j \in Slots(q)' :
           heap'[p].childid[i] = heap'[q].childid[j] => p = q /\ i = j
  BY DEF Share
<1>9. ASSUME NEW p \in V, NEW q \in Inner \ {n}, NEW i \in Slots(p)',
             NEW j \in Slots(q)'
      PROVE  heap'[p].childid[i] # heap'[q].childid[j]
  <2>1. PICK k \in 1 .. Len(C) : heap'[p].childid[i] = C[k]
    BY <1>8
  <2>2. j \in Slots(q) /\ heap'[q] = heap[q]
    BY <1>4
  <2>3. heap[q].childid[j] # C[k]
    BY <1>5, <2>2
  <2>4. QED
    BY <2>1, <2>2, <2>3
<1>10. ASSUME NEW p \in Inner', NEW q \in Inner', NEW i \in Slots(p)',
              NEW j \in Slots(q)', heap'[p].childid[i] = heap'[q].childid[j]
       PROVE  p = q /\ i = j
  <2>1. CASE p \in V /\ q \in V
    BY <1>8, <1>10, <2>1
  <2>2. CASE p \in V /\ q \in Inner \ {n}
    BY <1>9, <1>10, <2>2
  <2>3. CASE q \in V /\ p \in Inner \ {n}
    BY <1>9, <1>10, <2>3
  <2>4. CASE p \in Inner \ {n} /\ q \in Inner \ {n}
    BY <1>4, <1>10, <2>4 DEF LinkedOnce
  <2>5. QED
    BY <1>7, <2>1, <2>2, <2>3, <2>4
<1>11. ASSUME NEW p \in Inner', NEW i \in Slots(p)'
       PROVE  heap'[p].childid[i] # root' /\ heap'[p].childid[i] # newchild'
  <2>1. CASE p \in V
    <3>1. PICK k \in 1 .. Len(C) : heap'[p].childid[i] = C[k]
      BY <1>8, <2>1
    <3>2. QED
      BY <1>2, <1>5, <1>6, <3>1
  <2>2. CASE p \in Inner \ {n}
    <3>1. heap'[p] = heap[p] /\ i \in Slots(p)
      BY <1>4, <2>2
    <3>2. heap[p].childid[i] \in Allocated /\ heap[p].childid[i] # root
      BY <1>3, <2>2, <3>1 DEF LinkedOnce
    <3>3. QED
      BY <1>2, <3>1, <3>2
  <2>3. QED
    BY <1>7, <2>1, <2>2
<1>12. ASSUME NEW m \in Allocated' \ {root', newchild'}
       PROVE  \E p \in Inner' : \E i \in Slots(p)' : heap'[p].childid[i] = m
  <2>1. m \in Allocated /\ m # root
    BY <1>1, <1>2, <1>3
  <2>2. ASSUME NEW j \in 1 .. Len(C), C[j] = m
        PROVE  \E p \in Inner' : \E i \in Slots(p)' : heap'[p].childid[i] = m
    <3>1. PICK p \in V : \E i \in Slots(p)' : heap'[p].childid[i] = C[j]
      BY <1>8
    <3>2. p \in Inner'
      BY <1>1
    <3>3. QED
      BY <2>2, <3>1, <3>2
  <2>3. CASE m = newchild
    BY <1>5, <2>2, <2>3
  <2>4. CASE m # newchild
    <3>1. PICK p \in Inner : \E i \in Slots(p) : heap[p].childid[i] = m
      BY <2>1, <2>4 DEF LinkedOnce
    <3>2. CASE p = n
      BY <1>5, <2>2, <3>1, <3>2
    <3>3. CASE p # n
      <4>1. heap'[p] = heap[p] /\ Slots(p)' = Slots(p) /\ p \in Inner'
        BY <1>1, <1>4, <3>3
      <4>2. QED
        BY <3>1, <4>1
    <3>4. QED
      BY <3>2, <3>3
  <2>5. QED
    BY <2>3, <2>4
<1>13. newchild' # Null => newchild' # root'
  BY <1>2
<1>14. QED
  BY <1>10, <1>11, <1>12, <1>13 DEF LinkedOnce

\* The inner nodes are filled, and their marks are true.
LEMMA SharedFilled ==
  ASSUME ElasticInv, NEW n \in Inner, NEW V, NEW x, NEW K, NEW C,
         root' = root, newchild' = x, path' = <<>> => n = root,
         stats'.itemcount = stats.itemcount,
         NewChildren(n, K, C), Share(V, n, x, C), SharedHeap(V, n),
         \A p \in V : ShareOf(p, n, x, K, C)
  PROVE  \A m \in Inner' : /\ InnerFilled(m)' /\ MarkTrue(m)'
                           /\ heap'[m].childid \in Seq(Allocated')
<1>1. /\ TypeOK /\ \A m \in Inner : InnerFilled(m) /\ MarkTrue(m)
  BY DEF ElasticInv, Tree
<1>2. /\ Allocated' = Allocated \cup V /\ Inner' = Inner \cup V
      /\ Leaves' = Leaves /\ \A m \in Leaves : heap'[m] = heap[m]
      /\ \A m \in Inner : m # n => heap'[m] = heap[m]
      /\ \A m \in Allocated : heap'[m].level = heap[m].level
  BY DEF SharedHeap
<1>3. ASSUME NEW m \in Leaves, isblindileafnode(m)
      PROVE  m \in Leaves' /\ isblindileafnode(m)'
  BY <1>2, <1>3 DEF isblindileafnode
<1>4. ASSUME NEW m \in Inner \ {n}
      PROVE  /\ InnerFilled(m)' /\ MarkTrue(m)'
             /\ heap'[m].childid \in Seq(Allocated')
  <2>1. heap'[m] = heap[m] /\ InnerFilled(m) /\ MarkTrue(m)
    BY <1>1, <1>2
  <2>2. heap[m].childid \in Seq(Allocated) /\ Len(heap[m].slotkey) \in Nat
    BY <1>1, NodeKinds, InnerFields DEF TypeOK
  <2>3. \A i \in Slots(m) : heap[m].childid[i] \in Allocated
    BY <2>2 DEF Slots
  <2>4. \A i \in Slots(m) : heap'[heap[m].childid[i]].level + 1 = heap[m].level
    BY <1>2, <2>1, <2>3 DEF InnerFilled
  <2>5. InnerFilled(m)'
    <3>1. m # root' => Len(heap'[m].slotkey) >= innerslotmax \div 2
      BY <2>1 DEF InnerFilled
    <3>2. ~(rootSplit' /\ m = root')
      BY DEF rootSplit
    <3>3. QED
      BY <2>1, <2>4, <3>1, <3>2 DEF InnerFilled, Slots
  <2>6. MarkTrue(m)'
    <3>1. ASSUME heap[m].alreadycomprerss, NEW i \in 1 .. Len(heap[m].slotkey)
          PROVE  /\ heap[m].childid[i] \in Leaves'
                 /\ isblindileafnode(heap[m].childid[i])'
      <4>1. PICK c : c = heap[m].childid[i]
        OBVIOUS
      <4>2. c \in Leaves /\ isblindileafnode(c)
        BY <2>1, <3>1, <4>1 DEF MarkTrue
      <4>3. QED
        BY <1>2, <4>1, <4>2 DEF isblindileafnode
    <3>2. QED
      BY <2>1, <3>1 DEF MarkTrue
  <2>7. heap'[m].childid \in Seq(Allocated')
    BY <1>2, <2>1, <2>2, SeqMonotone
  <2>8. QED
    BY <2>5, <2>6, <2>7
<1>5. \A j \in 1 .. Len(C) : heap[C[j]].level + 1 = heap[n].level
  BY DEF NewChildren
<1>9. ASSUME heap[n].alreadycomprerss
      PROVE  /\ stats.itemcount > ShouldLimit
             /\ \A j \in 1 .. Len(K) : C[j] \in Leaves /\ isblindileafnode(C[j])
  BY <1>9 DEF NewChildren
<1>6. \A j \in 1 .. Len(C) : C[j] \in Allocated
  <2>1. C \in Seq(Allocated)
    BY DEF NewChildren
  <2>2. QED
    BY <2>1, SeqElement
<1>7. ASSUME NEW p \in V
      PROVE  /\ InnerFilled(p)' /\ MarkTrue(p)'
             /\ heap'[p].childid \in Seq(Allocated')
  <2>1. /\ heap'[p].level = heap[n].level
        /\ heap'[p].childid \in Seq(Allocated)
        /\ Len(heap'[p].childid) = Len(heap'[p].slotkey) + 1
        /\ Len(heap'[p].slotkey) \in 1 .. innerslotmax
        /\ p # root \/ x # Null
             => Len(heap'[p].slotkey) >= innerslotmax \div 2
    BY DEF ShareOf
  <2>2. \A i \in Slots(p)' : heap'[heap'[p].childid[i]].level + 1
                               = heap'[p].level
    <3> TAKE i \in Slots(p)'
    <3>1. PICK j \in 1 .. Len(C) : heap'[p].childid[i] = C[j]
      BY DEF Share
    <3>2. heap'[C[j]].level = heap[C[j]].level
      BY <1>2, <1>6
    <3>3. QED
      BY <1>5, <2>1, <3>1, <3>2
  <2>3. InnerFilled(p)'
    BY <2>1, <2>2 DEF InnerFilled, rootSplit
  <2>4. MarkTrue(p)'
    <3>1. SUFFICES ASSUME heap'[p].alreadycomprerss
                   PROVE  /\ stats'.itemcount > ShouldLimit
                          /\ \A i \in 1 .. Len(heap'[p].slotkey) :
                               /\ heap'[p].childid[i] \in Leaves'
                               /\ isblindileafnode(heap[p].childid[i])'
      BY DEF MarkTrue
    <3>2. heap[n].alreadycomprerss
      BY <3>1 DEF ShareOf
    <3>3. ASSUME NEW i \in 1 .. Len(heap'[p].slotkey)
          PROVE  /\ heap'[p].childid[i] \in Leaves'
                 /\ isblindileafnode(heap[p].childid[i])'
      <4>1. PICK j \in 1 .. Len(K) : heap'[p].childid[i] = C[j]
        BY <3>1 DEF ShareOf
      <4>2. PICK c : c = C[j]
        OBVIOUS
      <4>3. c \in Leaves /\ isblindileafnode(c)
        BY <1>9, <3>2, <4>1, <4>2
      <4>4. QED
        BY <1>2, <4>1, <4>2, <4>3 DEF isblindileafnode
    <3>4. QED
      BY <1>9, <3>2, <3>3
  <2>5. heap'[p].childid \in Seq(Allocated')
    BY <1>2, <2>1, SeqMonotone
  <2>6. QED
    BY <2>3, <2>4, <2>5
<1>8. \A m \in Inner' : m \in V \/ m \in Inner \ {n}
  BY <1>2 DEF Share
<1>10. QED
  BY <1>4, <1>7, <1>8

\* There are b inner nodes more.
MoreNodes(b) ==
  /\ stats' \in Counters /\ stats'.leaves = stats.leaves
  /\ stats'.innernodes = stats.innernodes + b
  /\ stats'.itemcount = stats.itemcount /\ stats'.ofType = stats.ofType

\* What the step leaves alone, and what it counts.
ShareEnds(x) ==
  /\ pc = "unwind" /\ newchild # Null /\ path # <<>>
  /\ UNCHANGED <<root, head, tail, limits, pc, key, cur, stored>>
  /\ path' = Front(path) /\ newchild' = x
  /\ newkey' \in Keys \cup {Null} /\ (x # Null => newkey' \in Keys)
  /\ MoreNodes(IF x = Null THEN 0 ELSE 1)

\* A step that shares the children of the node at the end of the path, the
\* new one among them, keeps the invariant.
LEMMA SharedInv ==
  ASSUME ElasticInv, NEW n \in Inner, NEW V, NEW x, NEW K, NEW C,
         n = above[1], ShareEnds(x),
         NewChildren(n, K, C), Share(V, n, x, C),
         \A p \in V : ShareOf(p, n, x, K, C)
  PROVE  ElasticInv' /\ stats'.ofType = stats.ofType
<1>1. /\ TypeOK /\ LinkedOnce /\ Counted /\ PathLeadsDown /\ root # Null
      /\ root \in Allocated
      /\ \A m \in Inner : InnerFilled(m)
  <2>1. pc = "unwind"
    BY DEF ShareEnds
  <2>2. QED
    BY <2>1 DEF ElasticInv, Tree, CallUnderWay, TypeOK
<1>2. /\ pc = "unwind" /\ newchild # Null /\ path # <<>>
      /\ UNCHANGED <<root, head, tail, limits, pc, key, cur, stored>>
      /\ path' = Front(path) /\ newchild' = x
      /\ newkey' \in Keys \cup {Null} /\ (x # Null => newkey' \in Keys)
  BY DEF ShareEnds
<1>3. SharedHeap(V, n)
  BY <1>1, SharedNodes
<1>4. IsFiniteSet(Allocated) /\ stats.innernodes = Cardinality(Inner)
  BY <1>1 DEF Counted
<1>5. /\ stats' \in Counters /\ stats'.leaves = stats.leaves
      /\ stats'.innernodes = stats.innernodes + (IF x = Null THEN 0 ELSE 1)
      /\ stats'.itemcount = stats.itemcount /\ stats'.ofType = stats.ofType
  BY DEF ShareEnds, MoreNodes
<1>6. LinkedOnce'
  BY <1>1, <1>2, <1>3, SharedLinks
<1>7. \A m \in Inner' : /\ InnerFilled(m)' /\ MarkTrue(m)'
                        /\ heap'[m].childid \in Seq(Allocated')
  <2>1. path' = <<>> => n = root
    <3>1. ASSUME path' = <<>> PROVE n = root
      <4>1. path \in Seq(Inner \X Nat) /\ Len(path) \in Nat /\ Len(path) # 0
        BY <1>1, <1>2 DEF TypeOK
      <4>2. Len(path) - 1 = 0
        <5>1. PICK d : d = Len(path) - 1
          OBVIOUS
        <5>2. d \in Nat /\ d <= Len(path) /\ 1 <= d + 1 /\ d + 1 - 1 = d
          BY <4>1, <5>1
        <5>3. Len(SubSeq(path, 1, d)) = d
          BY <4>1, <5>2, SubSeqType
        <5>4. SubSeq(path, 1, d) = <<>>
          BY <1>2, <3>1, <5>1 DEF Front
        <5>5. QED
          BY <5>1, <5>3, <5>4
      <4>3. Len(path) = 1
        BY <4>1, <4>2
      <4>4. above = path[1]
        BY <1>2, <4>3 DEF above, Last
      <4>5. QED
        BY <1>1, <1>2, <4>4 DEF PathLeadsDown
    <3>2. QED
      BY <3>1
  <2>2. root' = root /\ newchild' = x /\ stats'.itemcount = stats.itemcount
    BY <1>2, <1>5
  <2>3. QED
    BY <1>3, <2>1, <2>2, SharedFilled
<1>8. /\ Allocated' = Allocated \cup V /\ Inner' = Inner \cup V
      /\ V \subseteq Nodes /\ Allocated \subseteq Nodes
      /\ Leaves' = Leaves /\ \A m \in Leaves : heap'[m] = heap[m]
      /\ heap' \in [Allocated' -> LeafNodes \cup InnerNodes]
      /\ \A m \in Inner : m # n => heap'[m] = heap[m]
      /\ heap'[n].level = heap[n].level
  <2>1. n \in Allocated
    BY <1>1, NodeKinds
  <2>2. QED
    BY <1>1, <1>3, <2>1 DEF SharedHeap, TypeOK
<1>9. /\ V = IF x = Null THEN {n} ELSE {n, x}
      /\ x # Null => x \notin Inner
  <2>1. x # Null => x \in Nodes \ Allocated
    BY DEF Share
  <2>2. QED
    BY <2>1 DEF Share, Inner
<1>10. IsFiniteSet(Allocated') /\ stats'.innernodes = Cardinality(Inner')
  <2>1. Inner \subseteq Allocated /\ IsFiniteSet(Inner)
    <3>1. Inner \in SUBSET Allocated
      BY DEF Inner
    <3>2. QED
      BY <1>4, <3>1, FS_Subset
  <2>2. CASE x = Null
    <3>1. V = {n} /\ Allocated' = Allocated /\ Inner' = Inner
      BY <1>8, <1>9, <2>1, <2>2
    <3>2. Cardinality(Inner) \in Nat
      BY <2>1, FS_CardinalityType
    <3>3. QED
      BY <1>4, <1>5, <2>2, <3>1, <3>2
  <2>3. CASE x # Null
    <3>1. Allocated' = Allocated \cup {x} /\ Inner' = Inner \cup {x}
      BY <1>8, <1>9, <2>1, <2>3
    <3>2. IsFiniteSet(Allocated')
      BY <1>4, <3>1, FS_AddElement
    <3>3. Cardinality(Inner') = Cardinality(Inner) + 1
      BY <1>9, <2>1, <2>3, <3>1, FS_AddElement
    <3>4. QED
      BY <1>4, <1>5, <2>3, <3>2, <3>3
  <2>4. QED
    BY <2>2, <2>3
<1>11. newchild' \in Inner' \cup {Null}
  BY <1>2, <1>8, <1>9
<1>12. newchild' # Null => heap'[newchild'].level + Len(path') = heap'[root'].level
  <2>1. SUFFICES ASSUME x # Null
                 PROVE  heap'[x].level + Len(path') = heap'[root].level
    BY <1>2
  <2>2. x \in V
    BY <1>9, <2>1
  <2>3. heap'[x].level = heap[n].level
    BY <2>2 DEF ShareOf
  <2>4. heap'[root].level = heap[root].level
    BY <1>1, <1>3 DEF SharedHeap
  <2>5. heap[n].level + Len(path) = heap[root].level + 1
    BY <1>1, <1>2, PathEnd DEF PathEndFacts
  <2>6. Len(path') + 1 = Len(path)
    BY <1>1, <1>2, <1>8, FrontOfPath
  <2>7. heap[n].level \in Nat /\ heap[root].level \in Nat
        /\ Len(path) \in Nat /\ Len(path) # 0 /\ Len(path') \in Nat
    <3>1. heap[n].level \in Nat /\ heap[root].level \in Nat
      BY <1>1, NodeKinds, LeafFields, InnerFields
    <3>2. path' \in Seq(Inner \X Nat)
      BY <1>1, <1>2, <1>8, FrontOfPath
    <3>3. QED
      BY <1>1, <1>2, <3>1, <3>2 DEF TypeOK
  <2>8. PICK a, b, c, d : /\ a = heap[n].level /\ b = Len(path)
                          /\ c = heap[root].level /\ d = Len(path')
    OBVIOUS
  <2>9. a + d = c
    <3>1. /\ a \in Nat /\ b \in Nat /\ c \in Nat /\ d \in Nat
          /\ a + b = c + 1 /\ d + 1 = b
      BY <2>5, <2>6, <2>7, <2>8
    <3>2. QED
      BY <3>1
  <2>10. QED
    BY <2>3, <2>4, <2>8, <2>9
<1>13. UnwindStep
  <2>1. Inner \subseteq Inner' /\ Allocated \subseteq Allocated'
        /\ Allocated' \subseteq Nodes
    BY <1>8
  <2>2. QED
    BY <1>2, <1>5, <1>6, <1>7, <1>8, <1>10, <1>11, <1>12, <2>1 DEF UnwindStep
<1>14. QED
  BY <1>5, <1>13, UnwindStepInv

\* The node with the new child and key entered.
LEMMA ChildAdded ==
  ASSUME NEW l, NEW J, NEW D, NEW f, NEW s, NEW K, NEW C,
         K = InsertAt(J, s + 1, newkey), C = InsertAt(D, s + 2, newchild)
  PROVE  addChild(InnerNode(l, J, D, f), s) = InnerNode(l, K, C, f)
<1>1. PICK r : r = InnerNode(l, J, D, f)
  OBVIOUS
<1>2. addChild(r, s)
        = [r EXCEPT !.slotkey = InsertAt(r.slotkey, s + 1, newkey),
                    !.childid = InsertAt(r.childid, s + 2, newchild)]
  BY DEF addChild
<1>3. r.slotkey = J /\ r.childid = D
  BY <1>1, GivenFields
<1>4. addChild(r, s) = [r EXCEPT !.slotkey = K, !.childid = C]
  BY <1>2, <1>3
<1>5. [r EXCEPT !.slotkey = K, !.childid = C]
        = [[r EXCEPT !.slotkey = K] EXCEPT !.childid = C]
  OBVIOUS
<1>6. /\ [InnerNode(l, J, D, f) EXCEPT !.slotkey = K] = InnerNode(l, K, D, f)
      /\ [InnerNode(l, K, D, f) EXCEPT !.childid = C] = InnerNode(l, K, C, f)
  BY DEF InnerNode
<1>7. QED
  BY <1>1, <1>4, <1>5, <1>6, Zenon

\* Its fields before.
LEMMA EnteringFields ==
  ASSUME TypeOK, NEW n \in Inner
  PROVE  \E l, J, D, f : /\ heap[n] = InnerNode(l, J, D, f)
                         /\ l = heap[n].level /\ J = heap[n].slotkey
                         /\ D = heap[n].childid
                         /\ f = heap[n].alreadycomprerss
                         /\ l \in Nat \ {0} /\ f \in BOOLEAN
<1>1. heap[n] \in InnerNodes
  BY NodeKinds
<1>2. QED
  BY <1>1, InnerFields

\* The node n has the keys K and the children C, and the others are what
\* they were.
LinkEffect(n, s, J, D, K, C) ==
  /\ Entering(n, s, J, D, K, C) /\ ~isfull(n)
  /\ DOMAIN heap' = Allocated /\ heap' = [m \in DOMAIN heap' |-> heap'[m]]
  /\ heap'[n] = InnerNode(heap[n].level, K, C, heap[n].alreadycomprerss)
  /\ \A m \in Allocated \ {n} : heap'[m] = heap[m]

\* The new child enters a node with room.
LEMMA LinkChildEffect ==
  ASSUME ElasticInv, LinkChild
  PROVE  \E n, s, J, D, K, C : LinkEffect(n, s, J, D, K, C)
<1>1. PICK n, s : n = above[1] /\ s = above[2]
  OBVIOUS
<1>2. PICK J, D : J = heap[n].slotkey /\ D = heap[n].childid
  OBVIOUS
<1>3. PICK K, C : K = InsertAt(J, s + 1, newkey) /\ C = InsertAt(D, s + 2, newchild)
  OBVIOUS
<1>4. pc = "unwind" /\ newchild # Null /\ path # <<>>
  BY DEF LinkChild
<1>5. Entering(n, s, J, D, K, C)
  BY <1>1, <1>2, <1>3 DEF Entering
<1>6. n \in Inner
  BY <1>4, <1>5, NewChildEntered
<1>7. TypeOK /\ n \in Allocated
  BY <1>6, NodeKinds DEF ElasticInv
<1>8. PICK l, f : heap[n] = InnerNode(l, J, D, f) /\ l = heap[n].level
                  /\ f = heap[n].alreadycomprerss
                  /\ l \in Nat \ {0} /\ f \in BOOLEAN
  BY <1>2, <1>6, <1>7, EnteringFields
<1>9. addChild(heap[n], s) = InnerNode(l, K, C, f)
  BY <1>3, <1>8, ChildAdded
<1>10. heap' = [heap EXCEPT ![n] = addChild(heap[n], s)] /\ ~isfull(n)
  BY <1>1 DEF LinkChild
<1>11. /\ DOMAIN heap' = Allocated /\ heap' = [m \in DOMAIN heap' |-> heap'[m]]
       /\ heap'[n] = InnerNode(l, K, C, f)
       /\ \A m \in Allocated \ {n} : heap'[m] = heap[m]
  BY <1>7, <1>9, <1>10 DEF TypeOK, Allocated
<1>12. LinkEffect(n, s, J, D, K, C)
  BY <1>5, <1>8, <1>10, <1>11 DEF LinkEffect
<1>13. QED
  BY <1>12, Zenon

\* It keeps the invariant.
LEMMA LinkChildInv ==
  ASSUME ElasticInv, LinkChild
  PROVE  ElasticInv' /\ stats'.ofType = stats.ofType
<1>1. PICK n, s, J, D, K, C : LinkEffect(n, s, J, D, K, C)
  BY LinkChildEffect
<1>2. J = heap[n].slotkey /\ D = heap[n].childid
  BY <1>1 DEF LinkEffect, Entering
<1>3. /\ pc = "unwind" /\ newchild # Null /\ path # <<>>
      /\ UNCHANGED <<root, head, tail, limits, pc, key, cur, stored>>
      /\ path' = Front(path) /\ newchild' = Null /\ newkey' = Null
      /\ stats' = stats
  BY DEF LinkChild
<1>4. Entering(n, s, J, D, K, C) /\ n = above[1]
  BY <1>1 DEF LinkEffect, Entering
<1>5. /\ n \in Inner /\ s \in 0 .. Len(J) /\ J \in Seq(Keys)
      /\ NewChildren(n, K, C)
  BY <1>3, <1>4, NewChildEntered
<1>6. /\ TypeOK /\ InnerFilled(n) /\ n \in Allocated /\ n \in Nodes
      /\ stats \in Counters /\ innerslotmax \in Nat
  BY <1>5, NodeKinds, ElasticAssumption
  DEF ElasticInv, Tree, TypeOK, Counters
<1>7. PICK l, f : /\ l = heap[n].level /\ f = heap[n].alreadycomprerss
                  /\ l \in Nat \ {0} /\ f \in BOOLEAN
  BY <1>5, <1>6, EnteringFields
<1>8. /\ DOMAIN heap' = Allocated /\ heap' = [m \in DOMAIN heap' |-> heap'[m]]
      /\ heap'[n] = InnerNode(l, K, C, f) /\ ~isfull(n)
      /\ \A m \in Allocated \ {n} : heap'[m] = heap[m]
  BY <1>1, <1>7 DEF LinkEffect
<1>9. /\ heap'[n].level = l /\ heap'[n].slotkey = K /\ heap'[n].childid = C
      /\ heap'[n].alreadycomprerss = f
  BY <1>8, GivenFields
<1>10. /\ K \in Seq(Keys) /\ C \in Seq(Allocated) /\ Len(C) = Len(K) + 1
       /\ Len(K) = Len(J) + 1 /\ \A i, j \in 1 .. Len(C) : C[i] = C[j] => i = j
  BY <1>2, <1>5 DEF NewChildren
<1>11. Slots(n)' = 1 .. Len(C)
  BY <1>9 DEF Slots
<1>12. Share({n}, n, Null, C)
  <2>1. {n} = IF Null = Null THEN {n} ELSE {n, Null}
    OBVIOUS
  <2>2. Allocated \cup {n} = Allocated
    BY <1>6
  <2>3. \A p, q \in {n} : \A i \in Slots(p)', j \in Slots(q)' :
          heap'[p].childid[i] = heap'[q].childid[j] => p = q /\ i = j
    BY <1>9, <1>10, <1>11
  <2>4. /\ \A p \in {n} : \A i \in Slots(p)' : \E j \in 1 .. Len(C) :
             heap'[p].childid[i] = C[j]
        /\ \A j \in 1 .. Len(C) : \E p \in {n} : \E i \in Slots(p)' :
             heap'[p].childid[i] = C[j]
    BY <1>9, <1>11
  <2>5. QED
    BY <1>8, <2>1, <2>2, <2>3, <2>4 DEF Share
<1>13. ShareOf(n, n, Null, K, C)
  <2>1. heap'[n] \in InnerNodes
    <3>1. Allocated \subseteq Nodes
      BY <1>6 DEF TypeOK
    <3>2. C \in Seq(Nodes)
      BY <1>10, <3>1, SeqMonotone
    <3>3. InnerNode(l, K, C, f) \in InnerNodes
      BY <1>7, <1>10, <3>2, NodeRecords
    <3>4. QED
      BY <1>8, <3>3
  <2>2. Len(K) \in 1 .. innerslotmax
        /\ (n # root => Len(K) >= innerslotmax \div 2)
    <3>1. /\ Len(J) \in 1 .. innerslotmax /\ Len(J) # innerslotmax
          /\ n # root => Len(J) >= innerslotmax \div 2
      BY <1>2, <1>6, <1>8 DEF InnerFilled, isfull
    <3>2. PICK a, b : a = Len(J) /\ b = innerslotmax
      OBVIOUS
    <3>3. /\ a \in 1 .. b /\ a # b /\ b \in Nat
          /\ n # root => a >= b \div 2
      BY <1>6, <3>1, <3>2
    <3>4. a + 1 \in 1 .. b /\ (n # root => a + 1 >= b \div 2)
      BY <3>3
    <3>5. QED
      BY <1>10, <3>2, <3>4
  <2>3. \A i \in 1 .. Len(K) : \E j \in 1 .. Len(K) : C[i] = C[j]
    OBVIOUS
  <2>4. f = TRUE => heap[n].alreadycomprerss
    BY <1>7
  <2>5. heap'[n].alreadycomprerss =>
          /\ heap[n].alreadycomprerss
          /\ \A i \in 1 .. Len(heap'[n].slotkey) : \E j \in 1 .. Len(K) :
               heap'[n].childid[i] = C[j]
    BY <1>7, <1>9, <2>3, Zenon
  <2>6. heap'[n].level = heap[n].level
    BY <1>7, <1>9
  <2>7. QED
    BY <1>9, <1>10, <2>1, <2>2, <2>5, <2>6 DEF ShareOf
<1>14. ShareEnds(Null)
  <2>1. MoreNodes(IF Null = Null THEN 0 ELSE 1)
    BY <1>3, <1>6 DEF MoreNodes, Counters
  <2>2. QED
    BY <1>3, <2>1 DEF ShareEnds
<1>15. QED
  BY <1>4, <1>5, <1>12, <1>13, <1>14, SharedInv

\* The children C of a full node of c keys are divided: a + 1 of them with a
\* keys go to one node, the others to another one.
Divided(c, a, C, LK, LC, RK, RC) ==
  /\ a \in 1 .. c - 1 /\ a >= c \div 2 /\ c - a >= c \div 2
  /\ LK \in Seq(Keys) /\ Len(LK) = a
  /\ RK \in Seq(Keys) /\ Len(RK) = c - a
  /\ LC \in Seq(Allocated) /\ Len(LC) = a + 1
  /\ RC \in Seq(Allocated) /\ Len(RC) = c - a + 1
  /\ \A i \in 1 .. a + 1 : LC[i] = C[i]
  /\ \A i \in 1 .. c - a + 1 : RC[i] = C[a + 1 + i]

\* The heap with n and x for what was n.
DividedHeap(n, x, l, LK, LC, f, RK, RC) ==
  \E g : /\ g = FALSE
         /\ heap' = put(put(heap, n, InnerNode(l, LK, LC, f)), x,
                        InnerNode(l, RK, RC, g))

\* Where each child has come to.
LEMMA DividedChildren ==
  ASSUME NEW c \in Nat, NEW a, NEW C, NEW LK, NEW LC, NEW RK, NEW RC,
         Divided(c, a, C, LK, LC, RK, RC), Len(C) = c + 2
  PROVE  /\ \A i \in 1 .. Len(LC) : i \in 1 .. Len(C) /\ i <= a + 1
                                    /\ LC[i] = C[i]
         /\ \A i \in 1 .. Len(RC) :
              /\ a + 1 + i \in 1 .. Len(C) /\ ~(a + 1 + i <= a + 1)
              /\ RC[i] = C[a + 1 + i]
         /\ \A j \in 1 .. Len(C) :
              \/ j \in 1 .. Len(LC)
              \/ j - (a + 1) \in 1 .. Len(RC) /\ a + 1 + (j - (a + 1)) = j
<1>1. /\ a \in Nat /\ a >= 1 /\ a <= c - 1 /\ Len(LC) = a + 1
      /\ Len(RC) = c - a + 1
      /\ \A i \in 1 .. a + 1 : LC[i] = C[i]
      /\ \A i \in 1 .. c - a + 1 : RC[i] = C[a + 1 + i]
  BY DEF Divided
<1>2. \A i \in 1 .. a + 1 : i \in 1 .. c + 2 /\ i <= a + 1
  BY <1>1
<1>3. \A i \in 1 .. c - a + 1 : /\ a + 1 + i \in 1 .. c + 2
                                /\ ~(a + 1 + i <= a + 1)
  BY <1>1
<1>4. \A j \in 1 .. c + 2 :
        \/ j \in 1 .. a + 1
        \/ j - (a + 1) \in 1 .. c - a + 1 /\ a + 1 + (j - (a + 1)) = j
  BY <1>1
<1>5. QED
  BY <1>1, <1>2, <1>3, <1>4

\* The two nodes after it.
DividedInto(n, x, l, LK, LC, f, RK, RC, g) ==
  /\ g = FALSE
  /\ DOMAIN heap' = Allocated \cup {n, x}
  /\ heap' = [m \in DOMAIN heap' |-> heap'[m]]
  /\ heap'[n] = InnerNode(l, LK, LC, f)
  /\ heap'[x] = InnerNode(l, RK, RC, g)
  /\ \A m \in Allocated \ {n} : heap'[m] = heap[m]

\* What is put there is there.
LEMMA DividedNodes ==
  ASSUME NEW n \in Allocated, NEW x, x \notin Allocated, NEW l, NEW f,
         NEW LK, NEW LC, NEW RK, NEW RC,
         DividedHeap(n, x, l, LK, LC, f, RK, RC)
  PROVE  \E g : DividedInto(n, x, l, LK, LC, f, RK, RC, g)
<1>1. PICK L, R, g : /\ L = InnerNode(l, LK, LC, f)
                     /\ R = InnerNode(l, RK, RC, g) /\ g = FALSE
                     /\ heap' = put(put(heap, n, L), x, R)
  BY DEF DividedHeap
<1>2. /\ DOMAIN heap' = Allocated \cup {n, x}
      /\ heap' = [m \in DOMAIN heap' |-> heap'[m]]
      /\ heap'[n] = L /\ heap'[x] = R
      /\ \A m \in Allocated \ {n} : heap'[m] = heap[m]
  <2>1. PICK h : h = put(heap, n, L)
    OBVIOUS
  <2>2. DOMAIN h = Allocated /\ h[n] = L /\ \A m \in Allocated \ {n} : h[m] = heap[m]
    BY <2>1 DEF put, Allocated
  <2>3. heap' = put(h, x, R)
    BY <1>1, <2>1
  <2>4. /\ DOMAIN heap' = Allocated \cup {x} /\ heap'[x] = R
        /\ \A m \in Allocated : heap'[m] = h[m]
        /\ heap' = [m \in DOMAIN heap' |-> heap'[m]]
    BY <2>2, <2>3 DEF put
  <2>5. QED
    BY <2>2, <2>4
<1>3. DividedInto(n, x, l, LK, LC, f, RK, RC, g)
  BY <1>1, <1>2 DEF DividedInto
<1>4. QED
  BY <1>3

\* Dividing the children of the node at the end of the path keeps the
\* invariant.
LEMMA DividedInv ==
  ASSUME ElasticInv, NEW n \in Inner, NEW K, NEW C, NEW x, n = above[1],
         NewChildren(n, K, C), ShareEnds(x), isfull(n), x \in Nodes \ Allocated,
         NEW l, NEW f, l = heap[n].level, f = heap[n].alreadycomprerss,
         NEW a, NEW LK, NEW LC, NEW RK, NEW RC,
         Divided(innerslotmax, a, C, LK, LC, RK, RC),
         DividedHeap(n, x, l, LK, LC, f, RK, RC)
  PROVE  ElasticInv' /\ stats'.ofType = stats.ofType
<1>1. /\ TypeOK /\ n \in Allocated /\ heap[n] \in InnerNodes
      /\ innerslotmax \in Nat /\ innerslotmax >= 3 /\ x \in Nodes
      /\ x \notin Allocated /\ x # n /\ x # Null /\ Allocated \subseteq Nodes
  BY NodeKinds, ElasticAssumption DEF ElasticInv, TypeOK
<1>2. l \in Nat \ {0} /\ f \in BOOLEAN
  BY <1>1, InnerFields
<1>3. PICK g : DividedInto(n, x, l, LK, LC, f, RK, RC, g)
  BY <1>1, DividedNodes
<1>4. /\ g = FALSE
      /\ DOMAIN heap' = Allocated \cup {n, x}
      /\ heap' = [m \in DOMAIN heap' |-> heap'[m]]
      /\ heap'[n] = InnerNode(l, LK, LC, f)
      /\ heap'[x] = InnerNode(l, RK, RC, g)
      /\ \A m \in Allocated \ {n} : heap'[m] = heap[m]
  BY <1>3 DEF DividedInto
<1>5. /\ heap'[n].level = l /\ heap'[n].slotkey = LK /\ heap'[n].childid = LC
      /\ heap'[n].alreadycomprerss = f
      /\ heap'[x].level = l /\ heap'[x].slotkey = RK /\ heap'[x].childid = RC
      /\ heap'[x].alreadycomprerss = g
  BY <1>4, GivenFields
<1>6. /\ Len(C) = Len(K) + 1 /\ Len(K) = innerslotmax + 1
      /\ \A i, j \in 1 .. Len(C) : C[i] = C[j] => i = j
  BY DEF NewChildren, isfull
<1>7. Len(C) = innerslotmax + 2
  BY <1>1, <1>6
<1>8. /\ \A i \in 1 .. Len(LC) : i \in 1 .. Len(C) /\ i <= a + 1
                                 /\ LC[i] = C[i]
      /\ \A i \in 1 .. Len(RC) :
           /\ a + 1 + i \in 1 .. Len(C) /\ ~(a + 1 + i <= a + 1)
           /\ RC[i] = C[a + 1 + i]
      /\ \A j \in 1 .. Len(C) :
           \/ j \in 1 .. Len(LC)
           \/ j - (a + 1) \in 1 .. Len(RC) /\ a + 1 + (j - (a + 1)) = j
  BY <1>1, <1>7, DividedChildren
<1>9. /\ Slots(n)' = 1 .. Len(LC) /\ Slots(x)' = 1 .. Len(RC)
  BY <1>5 DEF Slots
<1>10. a \in Nat
  BY DEF Divided
<1>11. Share({n, x}, n, x, C)
  <2>1. {n, x} = IF x = Null THEN {n} ELSE {n, x}
    BY <1>1
  <2>2. ASSUME NEW i \in 1 .. Len(LC), NEW j \in 1 .. Len(RC)
        PROVE  LC[i] # RC[j]
    <3>1. /\ i \in 1 .. Len(C) /\ i <= a + 1 /\ LC[i] = C[i]
          /\ a + 1 + j \in 1 .. Len(C) /\ ~(a + 1 + j <= a + 1)
          /\ RC[j] = C[a + 1 + j]
      BY <1>8
    <3>2. i # a + 1 + j
      BY <3>1
    <3>3. QED
      BY <1>6, <3>1, <3>2
  <2>3. \A i, j \in 1 .. Len(LC) : LC[i] = LC[j] => i = j
    BY <1>6, <1>8
  <2>4. \A i, j \in 1 .. Len(RC) : RC[i] = RC[j] => i = j
    <3> TAKE i, j \in 1 .. Len(RC)
    <3>1. RC[i] = RC[j] => a + 1 + i = a + 1 + j
      BY <1>6, <1>8
    <3>2. a + 1 + i = a + 1 + j => i = j
      BY <1>10
    <3>3. QED
      BY <3>1, <3>2
  <2>5. \A p, q \in {n, x} : \A i \in Slots(p)', j \in Slots(q)' :
          heap'[p].childid[i] = heap'[q].childid[j] => p = q /\ i = j
    <3> TAKE p, q \in {n, x}
    <3>1. CASE p = n /\ q = n
      BY <1>5, <1>9, <2>3, <3>1
    <3>2. CASE p = n /\ q = x
      BY <1>5, <1>9, <2>2, <3>2
    <3>3. CASE p = x /\ q = n
      BY <1>5, <1>9, <2>2, <3>3
    <3>4. CASE p = x /\ q = x
      BY <1>5, <1>9, <2>4, <3>4
    <3>5. QED
      BY <3>1, <3>2, <3>3, <3>4
  <2>6. \A p \in {n, x} : \A i \in Slots(p)' : \E j \in 1 .. Len(C) :
          heap'[p].childid[i] = C[j]
    <3>1. \A i \in Slots(n)' : \E j \in 1 .. Len(C) : heap'[n].childid[i] = C[j]
      BY <1>5, <1>8, <1>9
    <3>2. \A i \in Slots(x)' : \E j \in 1 .. Len(C) : heap'[x].childid[i] = C[j]
      BY <1>5, <1>8, <1>9
    <3>3. QED
      BY <3>1, <3>2
  <2>7. \A j \in 1 .. Len(C) : \E p \in {n, x} : \E i \in Slots(p)' :
          heap'[p].childid[i] = C[j]
    <3> TAKE j \in 1 .. Len(C)
    <3>1. CASE j \in 1 .. Len(LC)
      <4>1. j \in Slots(n)' /\ heap'[n].childid[j] = C[j]
        BY <1>5, <1>8, <1>9, <3>1
      <4>2. QED
        BY <4>1
    <3>2. CASE j - (a + 1) \in 1 .. Len(RC) /\ a + 1 + (j - (a + 1)) = j
      <4>1. PICK i : i = j - (a + 1)
        OBVIOUS
      <4>2. i \in Slots(x)' /\ heap'[x].childid[i] = C[j]
        BY <1>5, <1>8, <1>9, <3>2, <4>1
      <4>3. QED
        BY <4>2
    <3>3. QED
      BY <1>8, <3>1, <3>2
  <2>8. x # Null => x \in Nodes \ Allocated
    BY <1>1
  <2>9. DOMAIN heap' = Allocated \cup {n, x}
        /\ heap' = [m \in DOMAIN heap' |-> heap'[m]]
        /\ \A m \in Allocated \ {n} : heap'[m] = heap[m]
    BY <1>4
  <2>10. QED
    BY <2>1, <2>5, <2>6, <2>7, <2>8, <2>9 DEF Share
<1>12. /\ LK \in Seq(Keys) /\ RK \in Seq(Keys)
       /\ LC \in Seq(Allocated) /\ RC \in Seq(Allocated)
       /\ Len(LC) = Len(LK) + 1 /\ Len(RC) = Len(RK) + 1
       /\ Len(LK) \in 1 .. innerslotmax /\ Len(RK) \in 1 .. innerslotmax
       /\ Len(LK) >= innerslotmax \div 2 /\ Len(RK) >= innerslotmax \div 2
       /\ Len(LK) = a /\ a <= innerslotmax
  <2>1. a \in 1 .. innerslotmax - 1
    BY DEF Divided
  <2>2. /\ a \in 1 .. innerslotmax /\ innerslotmax - a \in 1 .. innerslotmax
        /\ a <= innerslotmax
    BY <1>1, <2>1
  <2>3. QED
    BY <2>2 DEF Divided
<1>13. heap'[n] \in InnerNodes /\ heap'[x] \in InnerNodes
  <2>1. LC \in Seq(Nodes) /\ RC \in Seq(Nodes)
    BY <1>1, <1>12, SeqMonotone
  <2>2. g \in BOOLEAN
    BY <1>4
  <2>3. QED
    BY <1>2, <1>4, <1>12, <2>1, <2>2, NodeRecords
<1>14. ShareOf(n, n, x, K, C)
  <2>1. \A i \in 1 .. Len(LK) : \E j \in 1 .. Len(K) : LC[i] = C[j]
    <3> TAKE i \in 1 .. Len(LK)
    <3>1. i \in 1 .. Len(K) /\ i \in 1 .. Len(LC)
      BY <1>1, <1>6, <1>10, <1>12
    <3>2. QED
      BY <1>8, <3>1
  <2>2. heap'[n].alreadycomprerss =>
          /\ heap[n].alreadycomprerss
          /\ \A i \in 1 .. Len(heap'[n].slotkey) : \E j \in 1 .. Len(K) :
               heap'[n].childid[i] = C[j]
    BY <1>5, <2>1, Zenon
  <2>3. heap'[n] \in InnerNodes /\ heap'[n].level = heap[n].level
    BY <1>5, <1>13
  <2>4. QED
    BY <1>5, <1>12, <2>2, <2>3 DEF ShareOf
<1>15. ShareOf(x, n, x, K, C)
  <2>1. ~heap'[x].alreadycomprerss
    BY <1>4, <1>5
  <2>2. heap'[x] \in InnerNodes /\ heap'[x].level = heap[n].level
    BY <1>5, <1>13
  <2>3. QED
    BY <1>5, <1>12, <2>1, <2>2 DEF ShareOf
<1>16. \A p \in {n, x} : ShareOf(p, n, x, K, C)
  BY <1>14, <1>15
<1>17. QED
  BY <1>11, <1>16, SharedInv

-----------------------------------------------------------------------------
(* A full inner node is split *)

\* A node with a of c keys, and one with the others but one after the new key
\* came, have enough.
Fits(c, a) == a \in 1 .. c - 1 /\ a >= c \div 2 /\ c - a >= c \div 2

\* However the slots are divided.
LEMMA SplitSizes ==
  ASSUME NEW c \in Nat, c >= 3, NEW s \in 0 .. c, NEW mid, mid = splitMid(c, s)
  PROVE  /\ mid \in Nat /\ mid + 2 <= c
         /\ s = mid + 1 /\ mid < c - mid - 1 => Fits(c, mid + 1)
         /\ s >= mid + 1 /\ ~(s = mid + 1 /\ mid < c - mid - 1) => Fits(c, mid)
         /\ s < mid + 1 => Fits(c, mid + 1)
<1>1. PICK h \in Nat : h = c \div 2 /\ (c = 2 * h \/ c = 2 * h + 1) /\ h >= 1
  OBVIOUS
<1>2. mid = IF s <= h /\ h > c - (h + 1) THEN h - 1 ELSE h
  BY <1>1 DEF splitMid
<1>3. CASE c = 2 * h
  <2>1. h >= 2 /\ mid = IF s <= h THEN h - 1 ELSE h
    BY <1>1, <1>2, <1>3
  <2>2. CASE s <= h
    BY <1>1, <1>3, <2>1, <2>2 DEF Fits
  <2>3. CASE ~(s <= h)
    BY <1>1, <1>3, <2>1, <2>3 DEF Fits
  <2>4. QED
    BY <2>2, <2>3
<1>4. CASE c = 2 * h + 1
  <2>1. mid = h
    BY <1>1, <1>2, <1>4
  <2>2. QED
    BY <1>1, <1>4, <2>1 DEF Fits
<1>5. QED
  BY <1>1, <1>3, <1>4

\* The keys and children of a node up to the middle and behind it.
Parted(c, mid, D, LJ, LD, RJ, RD) ==
  /\ c \in Nat /\ mid \in Nat /\ mid + 2 <= c
  /\ LJ \in Seq(Keys) /\ Len(LJ) = mid
  /\ RJ \in Seq(Keys) /\ Len(RJ) = c - mid - 1
  /\ LD \in Seq(Allocated) /\ Len(LD) = mid + 1
  /\ RD \in Seq(Allocated) /\ Len(RD) = c - mid
  /\ \A i \in 1 .. mid + 1 : LD[i] = D[i]
  /\ \A i \in 1 .. c - mid : RD[i] = D[mid + 1 + i]

\* What it is made of.
LEMMA PartedNode ==
  ASSUME NEW c \in Nat, NEW mid \in Nat, mid + 2 <= c,
         NEW J \in Seq(Keys), NEW D \in Seq(Allocated),
         Len(J) = c, Len(D) = c + 1
  PROVE  Parted(c, mid, D, SubSeq(J, 1, mid), SubSeq(D, 1, mid + 1),
                SubSeq(J, mid + 2, c), SubSeq(D, mid + 2, c + 1))
<1>1. PICK a, b, d : a = mid + 1 /\ b = mid + 2 /\ d = c + 1
  OBVIOUS
<1>2. /\ a \in Nat /\ b \in Nat /\ d \in Nat /\ b >= 1 /\ mid <= c /\ a <= d
      /\ c <= c /\ d <= d /\ b <= c + 1 /\ b <= d + 1 /\ 1 <= mid + 1
      /\ 1 <= a + 1 /\ mid + 1 - 1 = mid /\ a + 1 - 1 = mid + 1
      /\ c + 1 - b = c - mid - 1 /\ d + 1 - b = c - mid
  BY <1>1
<1>3. /\ SubSeq(J, 1, mid) \in Seq(Keys) /\ Len(SubSeq(J, 1, mid)) = mid
      /\ SubSeq(J, b, c) \in Seq(Keys)
      /\ Len(SubSeq(J, b, c)) = c - mid - 1
  BY <1>2, SubSeqType
<1>4. /\ SubSeq(D, 1, a) \in Seq(Allocated) /\ Len(SubSeq(D, 1, a)) = mid + 1
      /\ \A i \in 1 .. mid + 1 : SubSeq(D, 1, a)[i] = D[i]
  <2>1. /\ SubSeq(D, 1, a) \in Seq(Allocated)
        /\ Len(SubSeq(D, 1, a)) = a + 1 - 1
        /\ \A i \in 1 .. a + 1 - 1 : SubSeq(D, 1, a)[i] = D[1 + i - 1]
    BY <1>1, <1>2, SubSeqElement
  <2>2. \A i \in 1 .. mid + 1 : 1 + i - 1 = i
    OBVIOUS
  <2>3. QED
    BY <1>2, <2>1, <2>2
<1>5. /\ SubSeq(D, b, d) \in Seq(Allocated) /\ Len(SubSeq(D, b, d)) = c - mid
      /\ \A i \in 1 .. c - mid : SubSeq(D, b, d)[i] = D[mid + 1 + i]
  <2>1. /\ SubSeq(D, b, d) \in Seq(Allocated)
        /\ Len(SubSeq(D, b, d)) = d + 1 - b
        /\ \A i \in 1 .. d + 1 - b : SubSeq(D, b, d)[i] = D[b + i - 1]
    BY <1>1, <1>2, SubSeqElement
  <2>2. \A i \in 1 .. c - mid : b + i - 1 = mid + 1 + i
    BY <1>1
  <2>3. QED
    BY <1>2, <2>1, <2>2
<1>6. QED
  BY <1>1, <1>3, <1>4, <1>5 DEF Parted

\* The new child comes between the halves.
LEMMA BetweenHalves ==
  ASSUME NEW c, NEW mid, NEW s, NEW C, NEW D, NEW LJ, NEW LD, NEW RJ, NEW RD,
         Parted(c, mid, D, LJ, LD, RJ, RD), Len(D) = c + 1,
         Inserted(C, D, s + 2, newchild), newchild \in Allocated,
         s = mid + 1, Fits(c, mid + 1), NEW k \in Keys
  PROVE  Divided(c, mid + 1, C, Append(LJ, k), Append(LD, RD[1]),
                 RJ, [RD EXCEPT ![1] = newchild])
<1>1. /\ c \in Nat /\ mid \in Nat /\ mid + 2 <= c
      /\ LJ \in Seq(Keys) /\ Len(LJ) = mid
      /\ RJ \in Seq(Keys) /\ Len(RJ) = c - mid - 1
      /\ LD \in Seq(Allocated) /\ Len(LD) = mid + 1
      /\ RD \in Seq(Allocated) /\ Len(RD) = c - mid
  BY DEF Parted
<1>2. PICK a, LK, LC, RC :
        /\ a = mid + 1 /\ LK = Append(LJ, k) /\ LC = Append(LD, RD[1])
        /\ RC = [RD EXCEPT ![1] = newchild]
  OBVIOUS
<1>3. 1 \in 1 .. Len(RD) /\ RD[1] \in Allocated
  BY <1>1
<1>4. LK \in Seq(Keys) /\ Len(LK) = a
  BY <1>1, <1>2
<1>5. /\ LC \in Seq(Allocated) /\ Len(LC) = a + 1
      /\ \A i \in 1 .. a : LC[i] = LD[i]
      /\ LC[a + 1] = RD[1]
  BY <1>1, <1>2, <1>3
<1>6. /\ RC \in Seq(Allocated) /\ Len(RC) = c - mid /\ RC[1] = newchild
      /\ \A i \in 1 .. c - mid : i # 1 => RC[i] = RD[i]
  BY <1>1, <1>2, <1>3
<1>7. \A j \in 1 .. c + 2 :
        C[j] = IF j < mid + 3 THEN D[j] ELSE IF j = mid + 3 THEN newchild
               ELSE D[j - 1]
  <2>1. PICK p : p = s + 2
    OBVIOUS
  <2>2. p = mid + 3 /\ Len(D) + 1 = c + 2
    BY <1>1, <2>1
  <2>3. Inserted(C, D, p, newchild)
    BY <2>1
  <2>4. QED
    BY <2>2, <2>3 DEF Inserted
<1>8. ASSUME NEW i \in 1 .. a + 1 PROVE LC[i] = C[i]
  <2>1. i \in 1 .. c + 2 /\ i < mid + 3
    BY <1>1, <1>2
  <2>2. C[i] = D[i]
    BY <1>7, <2>1
  <2>3. CASE i = a + 1
    <3>1. 1 \in 1 .. c - mid /\ mid + 1 + 1 = i
      BY <1>1, <1>2, <2>3
    <3>2. RD[1] = D[mid + 1 + 1]
      BY <3>1 DEF Parted
    <3>3. QED
      BY <1>5, <2>2, <2>3, <3>1, <3>2
  <2>4. CASE i # a + 1
    <3>1. i \in 1 .. a /\ i \in 1 .. mid + 1
      BY <1>1, <1>2, <2>4
    <3>2. LD[i] = D[i]
      BY <3>1 DEF Parted
    <3>3. QED
      BY <1>5, <2>2, <3>1, <3>2
  <2>5. QED
    BY <2>3, <2>4
<1>9. ASSUME NEW i \in 1 .. c - a + 1 PROVE RC[i] = C[a + 1 + i]
  <2>1. /\ i \in 1 .. c - mid /\ a + 1 + i \in 1 .. c + 2
        /\ ~(a + 1 + i < mid + 3) /\ (a + 1 + i = mid + 3 <=> i = 1)
        /\ a + 1 + i - 1 = mid + 1 + i
    BY <1>1, <1>2
  <2>2. C[a + 1 + i] = IF i = 1 THEN newchild ELSE D[mid + 1 + i]
    <3>1. PICK m : m = a + 1 + i
      OBVIOUS
    <3>2. C[m] = IF m < mid + 3 THEN D[m] ELSE IF m = mid + 3 THEN newchild
                 ELSE D[m - 1]
      BY <1>7, <2>1, <3>1
    <3>3. C[m] = IF m = mid + 3 THEN newchild ELSE D[m - 1]
      BY <2>1, <3>1, <3>2
    <3>4. CASE i = 1
      BY <2>1, <3>1, <3>3, <3>4
    <3>5. CASE i # 1
      <4>1. m # mid + 3 /\ m - 1 = mid + 1 + i
        BY <1>1, <1>2, <3>1, <3>5
      <4>2. C[m] = D[m - 1]
        BY <3>3, <4>1
      <4>3. D[m - 1] = D[mid + 1 + i]
        BY <4>1, Zenon
      <4>4. C[m] = D[mid + 1 + i]
        BY <4>2, <4>3
      <4>5. QED
        BY <3>1, <3>5, <4>4, Zenon
    <3>6. QED
      BY <3>4, <3>5
  <2>3. RD[i] = D[mid + 1 + i]
    BY <2>1 DEF Parted
  <2>4. QED
    BY <1>6, <2>1, <2>2, <2>3
<1>10. Len(RC) = c - a + 1 /\ Len(RJ) = c - a
  BY <1>1, <1>2, <1>6
<1>11. Fits(c, a)
  BY <1>2
<1>12. Divided(c, a, C, LK, LC, RJ, RC)
  BY <1>1, <1>4, <1>5, <1>6, <1>8, <1>9, <1>10, <1>11 DEF Divided, Fits
<1>13. QED
  BY <1>2, <1>12

\* The new child comes to the right one.
LEMMA RightHalf ==
  ASSUME NEW c, NEW mid, NEW s, NEW C, NEW D, NEW LJ, NEW LD, NEW RJ, NEW RD,
         Parted(c, mid, D, LJ, LD, RJ, RD), Len(D) = c + 1,
         Inserted(C, D, s + 2, newchild), newchild \in Allocated,
         newkey \in Keys, s \in mid + 1 .. c, Fits(c, mid),
         NEW t, t = s - (mid + 1)
  PROVE  Divided(c, mid, C, LJ, LD, InsertAt(RJ, t + 1, newkey),
                 InsertAt(RD, t + 2, newchild))
<1>1. /\ c \in Nat /\ mid \in Nat /\ mid + 2 <= c
      /\ LJ \in Seq(Keys) /\ Len(LJ) = mid
      /\ RJ \in Seq(Keys) /\ Len(RJ) = c - mid - 1
      /\ LD \in Seq(Allocated) /\ Len(LD) = mid + 1
      /\ RD \in Seq(Allocated) /\ Len(RD) = c - mid
  BY DEF Parted
<1>2. PICK u, v : u = t + 1 /\ v = t + 2
  OBVIOUS
<1>3. /\ t \in Nat /\ s = t + mid + 1 /\ u \in 1 .. Len(RJ) + 1
      /\ v \in 1 .. Len(RD) + 1 /\ s + 2 = mid + 1 + v
  <2>1. s \in Nat /\ t \in Nat /\ s = t + mid + 1
    BY <1>1
  <2>2. PICK p, q : p = Len(RJ) /\ q = Len(RD)
    OBVIOUS
  <2>3. p = c - mid - 1 /\ q = c - mid
    BY <1>1, <2>2
  <2>4. u \in 1 .. p + 1 /\ v \in 1 .. q + 1 /\ s + 2 = mid + 1 + v
    BY <1>1, <1>2, <2>1, <2>3
  <2>5. QED
    BY <2>1, <2>2, <2>4
<1>4. PICK RK : RK = InsertAt(RJ, u, newkey)
  OBVIOUS
<1>5. RK \in Seq(Keys) /\ Len(RK) = c - mid
  <2>1. RK \in Seq(Keys) /\ Len(RK) = Len(RJ) + 1
    BY <1>1, <1>3, <1>4, InsertAtType
  <2>2. QED
    BY <1>1, <2>1
<1>6. PICK RC : RC = InsertAt(RD, v, newchild)
  OBVIOUS
<1>7. RC \in Seq(Allocated) /\ Len(RC) = c - mid + 1 /\ Inserted(RC, RD, v, newchild)
  <2>1. RC \in Seq(Allocated) /\ Len(RC) = Len(RD) + 1
    BY <1>1, <1>3, <1>6, InsertAtType
  <2>2. Inserted(RC, RD, v, newchild)
    BY <1>1, <1>3, <1>6, InsertAtElement
  <2>3. QED
    BY <1>1, <2>1, <2>2
<1>8. \A j \in 1 .. c + 2 :
        C[j] = IF j < mid + 1 + v THEN D[j]
               ELSE IF j = mid + 1 + v THEN newchild ELSE D[j - 1]
  <2>1. PICK p : p = s + 2
    OBVIOUS
  <2>2. p = mid + 1 + v /\ Len(D) + 1 = c + 2
    BY <1>1, <1>3, <2>1
  <2>3. Inserted(C, D, p, newchild)
    BY <2>1
  <2>4. QED
    BY <2>2, <2>3 DEF Inserted
<1>9. v \in Nat /\ v >= 2
  BY <1>2, <1>3
<1>10. ASSUME NEW i \in 1 .. mid + 1 PROVE LD[i] = C[i]
  <2>1. i \in 1 .. c + 2 /\ i < mid + 1 + v
    BY <1>1, <1>9
  <2>2. C[i] = D[i]
    BY <1>8, <2>1
  <2>3. LD[i] = D[i]
    BY DEF Parted
  <2>4. QED
    BY <2>2, <2>3
<1>11. ASSUME NEW i \in 1 .. c - mid + 1 PROVE RC[i] = C[mid + 1 + i]
  <2>1. PICK m : m = mid + 1 + i
    OBVIOUS
  <2>2. /\ m \in 1 .. c + 2 /\ (m < mid + 1 + v <=> i < v)
        /\ (m = mid + 1 + v <=> i = v) /\ m - 1 = mid + 1 + (i - 1)
    BY <1>1, <1>9, <2>1
  <2>3. C[m] = IF i < v THEN D[m] ELSE IF i = v THEN newchild ELSE D[m - 1]
    BY <1>8, <2>2
  <2>4. RC[i] = IF i < v THEN RD[i] ELSE IF i = v THEN newchild ELSE RD[i - 1]
    <3>1. i \in 1 .. Len(RD) + 1
      BY <1>1
    <3>2. QED
      BY <1>7, <3>1 DEF Inserted
  <2>5. CASE i < v
    <3>1. i \in 1 .. c - mid
      BY <1>1, <1>3, <2>5
    <3>2. RD[i] = D[m]
      BY <2>1, <3>1 DEF Parted
    <3>3. QED
      BY <2>1, <2>3, <2>4, <2>5, <3>2
  <2>6. CASE i = v
    <3>1. ~(i < v)
      BY <1>9, <2>6
    <3>2. QED
      BY <2>1, <2>3, <2>4, <2>6, <3>1
  <2>7. CASE i > v
    <3>1. i - 1 \in 1 .. c - mid /\ ~(i < v) /\ i # v
      BY <1>1, <1>9, <2>7
    <3>2. RD[i - 1] = D[m - 1]
      <4>1. RD[i - 1] = D[mid + 1 + (i - 1)]
        BY <3>1 DEF Parted
      <4>2. QED
        BY <2>2, <4>1
    <3>3. QED
      BY <2>1, <2>3, <2>4, <3>1, <3>2
  <2>8. QED
    BY <1>9, <2>5, <2>6, <2>7
<1>12. Divided(c, mid, C, LJ, LD, RK, RC)
  BY <1>1, <1>5, <1>7, <1>10, <1>11 DEF Divided, Fits
<1>13. QED
  BY <1>2, <1>4, <1>6, <1>12

\* The new child comes to the left one.
LEMMA LeftHalf ==
  ASSUME NEW c, NEW mid, NEW s, NEW C, NEW D, NEW LJ, NEW LD, NEW RJ, NEW RD,
         Parted(c, mid, D, LJ, LD, RJ, RD), Len(D) = c + 1,
         Inserted(C, D, s + 2, newchild), newchild \in Allocated,
         newkey \in Keys, s \in 0 .. mid, Fits(c, mid + 1)
  PROVE  Divided(c, mid + 1, C, InsertAt(LJ, s + 1, newkey),
                 InsertAt(LD, s + 2, newchild), RJ, RD)
<1>1. /\ c \in Nat /\ mid \in Nat /\ mid + 2 <= c
      /\ LJ \in Seq(Keys) /\ Len(LJ) = mid
      /\ RJ \in Seq(Keys) /\ Len(RJ) = c - mid - 1
      /\ LD \in Seq(Allocated) /\ Len(LD) = mid + 1
      /\ RD \in Seq(Allocated) /\ Len(RD) = c - mid
  BY DEF Parted
<1>2. PICK u, v : u = s + 1 /\ v = s + 2
  OBVIOUS
<1>3. u \in 1 .. Len(LJ) + 1 /\ v \in 1 .. Len(LD) + 1 /\ v \in 2 .. mid + 2
  <2>1. PICK p, q : p = Len(LJ) /\ q = Len(LD)
    OBVIOUS
  <2>2. p = mid /\ q = mid + 1
    BY <1>1, <2>1
  <2>3. u \in 1 .. p + 1 /\ v \in 1 .. q + 1 /\ v \in 2 .. mid + 2
    BY <1>1, <1>2, <2>2
  <2>4. QED
    BY <2>1, <2>3
<1>4. PICK LK : LK = InsertAt(LJ, u, newkey)
  OBVIOUS
<1>5. LK \in Seq(Keys) /\ Len(LK) = mid + 1
  <2>1. LK \in Seq(Keys) /\ Len(LK) = Len(LJ) + 1
    BY <1>1, <1>3, <1>4, InsertAtType
  <2>2. QED
    BY <1>1, <2>1
<1>6. PICK LC : LC = InsertAt(LD, v, newchild)
  OBVIOUS
<1>7. LC \in Seq(Allocated) /\ Len(LC) = mid + 2 /\ Inserted(LC, LD, v, newchild)
  <2>1. LC \in Seq(Allocated) /\ Len(LC) = Len(LD) + 1
    BY <1>1, <1>3, <1>6, InsertAtType
  <2>2. Inserted(LC, LD, v, newchild)
    BY <1>1, <1>3, <1>6, InsertAtElement
  <2>3. QED
    BY <1>1, <2>1, <2>2
<1>8. \A j \in 1 .. c + 2 :
        C[j] = IF j < v THEN D[j] ELSE IF j = v THEN newchild ELSE D[j - 1]
  <2>1. Inserted(C, D, v, newchild) /\ Len(D) + 1 = c + 2
    BY <1>1, <1>2
  <2>2. QED
    BY <2>1 DEF Inserted
<1>9. ASSUME NEW i \in 1 .. mid + 2 PROVE LC[i] = C[i]
  <2>1. i \in 1 .. c + 2 /\ i \in 1 .. Len(LD) + 1
    BY <1>1
  <2>2. C[i] = IF i < v THEN D[i] ELSE IF i = v THEN newchild ELSE D[i - 1]
    BY <1>8, <2>1
  <2>3. LC[i] = IF i < v THEN LD[i] ELSE IF i = v THEN newchild ELSE LD[i - 1]
    BY <1>7, <2>1 DEF Inserted
  <2>4. i < v => LD[i] = D[i]
    <3>1. i < v => i \in 1 .. mid + 1
      BY <1>1, <1>3
    <3>2. QED
      BY <3>1 DEF Parted
  <2>5. i > v => LD[i - 1] = D[i - 1]
    <3>1. i > v => i - 1 \in 1 .. mid + 1
      BY <1>1, <1>3
    <3>2. QED
      BY <3>1 DEF Parted
  <2>6. i < v \/ i = v \/ i > v
    BY <1>1, <1>3
  <2>7. QED
    BY <2>2, <2>3, <2>4, <2>5, <2>6
<1>10. ASSUME NEW i \in 1 .. c - mid PROVE RD[i] = C[mid + 2 + i]
  <2>1. PICK m : m = mid + 2 + i
    OBVIOUS
  <2>2. m \in 1 .. c + 2 /\ ~(m < v) /\ m # v /\ m - 1 = mid + 1 + i
    BY <1>1, <1>3, <2>1
  <2>3. C[m] = D[m - 1]
    BY <1>8, <2>2
  <2>4. RD[i] = D[mid + 1 + i]
    BY DEF Parted
  <2>5. QED
    BY <2>1, <2>2, <2>3, <2>4
<1>11. PICK a : a = mid + 1
  OBVIOUS
<1>12. Divided(c, a, C, LK, LC, RJ, RD)
  <2>1. /\ Len(LK) = a /\ Len(LC) = a + 1 /\ Len(RJ) = c - a
        /\ Len(RD) = c - a + 1
    BY <1>1, <1>5, <1>7, <1>11
  <2>2. \A i \in 1 .. a + 1 : LC[i] = C[i]
    <3>1. a + 1 = mid + 2
      BY <1>1, <1>11
    <3>2. QED
      BY <1>9, <3>1
  <2>3. \A i \in 1 .. c - a + 1 : RD[i] = C[a + 1 + i]
    <3>1. a + 1 = mid + 2 /\ c - a + 1 = c - mid
      BY <1>1, <1>11
    <3>2. QED
      BY <1>10, <3>1
  <2>4. Fits(c, a)
    BY <1>11
  <2>5. QED
    BY <1>1, <1>5, <1>7, <2>1, <2>2, <2>3, <2>4 DEF Divided, Fits
<1>13. QED
  BY <1>2, <1>4, <1>6, <1>11, <1>12

\* The keys of a node up to the middle one and behind it.
PartedKeys(c, mid, J, LJ, RJ) ==
  /\ c \in Nat /\ mid \in Nat /\ mid + 2 <= c
  /\ J \in Seq(Keys) /\ Len(J) = c
  /\ LJ \in Seq(Keys) /\ Len(LJ) = mid
  /\ RJ \in Seq(Keys) /\ Len(RJ) = c - mid - 1
  /\ \A i \in 1 .. mid : LJ[i] = J[i]
  /\ \A i \in 1 .. c - mid - 1 : RJ[i] = J[mid + 1 + i]

\* Those of a node with enough of them.
LEMMA PartedNodeKeys ==
  ASSUME NEW c \in Nat, NEW mid \in Nat, mid + 2 <= c,
         NEW J \in Seq(Keys), Len(J) = c
  PROVE  PartedKeys(c, mid, J, SubSeq(J, 1, mid), SubSeq(J, mid + 2, c))
<1>1. PICK b : b = mid + 2
  OBVIOUS
<1>2. /\ b \in Nat /\ b >= 1 /\ b <= c + 1 /\ mid <= c /\ 1 <= mid + 1
      /\ mid + 1 - 1 = mid /\ c + 1 - b = c - mid - 1
  BY <1>1
<1>3. /\ SubSeq(J, 1, mid) \in Seq(Keys) /\ Len(SubSeq(J, 1, mid)) = mid
      /\ \A i \in 1 .. mid : SubSeq(J, 1, mid)[i] = J[i]
  <2>1. /\ SubSeq(J, 1, mid) \in Seq(Keys)
        /\ Len(SubSeq(J, 1, mid)) = mid + 1 - 1
        /\ \A i \in 1 .. mid + 1 - 1 : SubSeq(J, 1, mid)[i] = J[1 + i - 1]
    BY <1>2, SubSeqElement
  <2>2. \A i \in 1 .. mid : 1 + i - 1 = i
    OBVIOUS
  <2>3. QED
    BY <1>2, <2>1, <2>2
<1>4. /\ SubSeq(J, b, c) \in Seq(Keys) /\ Len(SubSeq(J, b, c)) = c - mid - 1
      /\ \A i \in 1 .. c - mid - 1 : SubSeq(J, b, c)[i] = J[mid + 1 + i]
  <2>1. /\ SubSeq(J, b, c) \in Seq(Keys) /\ Len(SubSeq(J, b, c)) = c + 1 - b
        /\ \A i \in 1 .. c + 1 - b : SubSeq(J, b, c)[i] = J[b + i - 1]
    BY <1>2, SubSeqElement
  <2>2. \A i \in 1 .. c - mid - 1 : b + i - 1 = mid + 1 + i
    BY <1>1
  <2>3. QED
    BY <1>2, <2>1, <2>2
<1>5. QED
  BY <1>1, <1>3, <1>4 DEF PartedKeys

\* The keys K of a full node are divided: the first a go to one node, k goes
\* up, and the others go to another node.
DividedKeys(c, a, K, LK, RK, k) ==
  /\ \A i \in 1 .. a : LK[i] = K[i]
  /\ \A i \in 1 .. c - a : RK[i] = K[a + 1 + i]
  /\ k = K[a + 1]

\* The new key is the one that goes up.
LEMMA KeyBetween ==
  ASSUME NEW c, NEW mid, NEW s, NEW K, NEW J, NEW LJ, NEW RJ,
         PartedKeys(c, mid, J, LJ, RJ), Inserted(K, J, s + 1, newkey),
         s = mid + 1
  PROVE  DividedKeys(c, mid + 1, K, Append(LJ, J[mid + 1]), RJ, newkey)
<1>1. PICK a, LK : a = mid + 1 /\ LK = Append(LJ, J[mid + 1])
  OBVIOUS
<1>2. /\ c \in Nat /\ mid \in Nat /\ mid + 2 <= c /\ a \in Nat
      /\ \A j \in 1 .. c + 1 : K[j] = IF j < mid + 2 THEN J[j]
                                      ELSE IF j = mid + 2 THEN newkey
                                      ELSE J[j - 1]
  <2>1. PICK p : p = s + 1
    OBVIOUS
  <2>2. c \in Nat /\ mid \in Nat /\ mid + 2 <= c /\ Len(J) + 1 = c + 1
    BY DEF PartedKeys
  <2>3. p = mid + 2
    BY <2>1, <2>2
  <2>4. Inserted(K, J, p, newkey)
    BY <2>1
  <2>5. QED
    BY <1>1, <2>2, <2>3, <2>4 DEF Inserted
<1>3. /\ \A i \in 1 .. mid : LK[i] = J[i]
      /\ LK[mid + 1] = J[mid + 1]
  <2>1. LJ \in Seq(Keys) /\ Len(LJ) = mid /\ \A i \in 1 .. mid : LJ[i] = J[i]
    BY DEF PartedKeys
  <2>2. J \in Seq(Keys) /\ mid + 1 \in 1 .. Len(J)
    BY <1>2 DEF PartedKeys
  <2>3. J[mid + 1] \in Keys
    BY <2>2, SeqElement
  <2>4. QED
    BY <1>1, <1>2, <2>1, <2>3
<1>4. ASSUME NEW i \in 1 .. a PROVE LK[i] = K[i]
  <2>1. i \in 1 .. c + 1 /\ i < mid + 2 /\ (i \in 1 .. mid \/ i = mid + 1)
    BY <1>1, <1>2
  <2>2. QED
    BY <1>2, <1>3, <2>1
<1>5. ASSUME NEW i \in 1 .. c - a PROVE RJ[i] = K[a + 1 + i]
  <2>1. PICK m : m = a + 1 + i
    OBVIOUS
  <2>2. /\ m \in 1 .. c + 1 /\ ~(m < mid + 2) /\ m # mid + 2
        /\ m - 1 = mid + 1 + i /\ i \in 1 .. c - mid - 1
    BY <1>1, <1>2, <2>1
  <2>3. K[m] = J[m - 1]
    BY <1>2, <2>2
  <2>4. RJ[i] = J[mid + 1 + i]
    BY <2>2 DEF PartedKeys
  <2>5. QED
    BY <2>1, <2>2, <2>3, <2>4
<1>6. newkey = K[a + 1]
  <2>1. a + 1 \in 1 .. c + 1 /\ a + 1 = mid + 2 /\ ~(a + 1 < mid + 2)
    BY <1>1, <1>2
  <2>2. QED
    BY <1>2, <2>1
<1>7. QED
  BY <1>1, <1>4, <1>5, <1>6 DEF DividedKeys

\* The new key goes to the right one.
LEMMA KeyRight ==
  ASSUME NEW c, NEW mid, NEW s, NEW K, NEW J, NEW LJ, NEW RJ,
         PartedKeys(c, mid, J, LJ, RJ), Inserted(K, J, s + 1, newkey),
         newkey \in Keys, s \in mid + 1 .. c, NEW t, t = s - (mid + 1)
  PROVE  DividedKeys(c, mid, K, LJ, InsertAt(RJ, t + 1, newkey), J[mid + 1])
<1>1. /\ c \in Nat /\ mid \in Nat /\ mid + 2 <= c /\ Len(J) = c
      /\ RJ \in Seq(Keys) /\ Len(RJ) = c - mid - 1
  BY DEF PartedKeys
<1>2. PICK u : u = t + 1
  OBVIOUS
<1>3. u \in Nat /\ u >= 1 /\ u \in 1 .. Len(RJ) + 1 /\ s + 1 = mid + 1 + u
  <2>1. PICK p : p = Len(RJ)
    OBVIOUS
  <2>2. p = c - mid - 1 /\ s \in Nat
    BY <1>1, <2>1
  <2>3. u \in Nat /\ u >= 1 /\ u \in 1 .. p + 1 /\ s + 1 = mid + 1 + u
    BY <1>1, <1>2, <2>2
  <2>4. QED
    BY <2>1, <2>3
<1>4. PICK RK : RK = InsertAt(RJ, u, newkey)
  OBVIOUS
<1>5. Inserted(RK, RJ, u, newkey)
  BY <1>1, <1>3, <1>4, InsertAtElement
<1>6. \A j \in 1 .. c + 1 :
        K[j] = IF j < mid + 1 + u THEN J[j]
               ELSE IF j = mid + 1 + u THEN newkey ELSE J[j - 1]
  <2>1. PICK p : p = s + 1
    OBVIOUS
  <2>2. p = mid + 1 + u /\ Inserted(K, J, p, newkey)
    BY <1>3, <2>1
  <2>3. QED
    BY <1>1, <2>2 DEF Inserted
<1>7. ASSUME NEW i \in 1 .. mid PROVE LJ[i] = K[i]
  <2>1. i \in 1 .. c + 1 /\ i < mid + 1 + u
    BY <1>1, <1>3
  <2>2. LJ[i] = J[i]
    BY DEF PartedKeys
  <2>3. QED
    BY <1>6, <2>1, <2>2
<1>8. J[mid + 1] = K[mid + 1]
  <2>1. mid + 1 \in 1 .. c + 1 /\ mid + 1 < mid + 1 + u
    BY <1>1, <1>3
  <2>2. QED
    BY <1>6, <2>1
<1>9. ASSUME NEW i \in 1 .. c - mid PROVE RK[i] = K[mid + 1 + i]
  <2>1. PICK m : m = mid + 1 + i
    OBVIOUS
  <2>2. /\ m \in 1 .. c + 1 /\ (m < mid + 1 + u <=> i < u)
        /\ (m = mid + 1 + u <=> i = u) /\ m - 1 = mid + 1 + (i - 1)
        /\ i \in 1 .. Len(RJ) + 1
    BY <1>1, <1>3, <2>1
  <2>3. K[m] = IF i < u THEN J[m] ELSE IF i = u THEN newkey ELSE J[m - 1]
    BY <1>6, <2>2
  <2>4. RK[i] = IF i < u THEN RJ[i] ELSE IF i = u THEN newkey ELSE RJ[i - 1]
    BY <1>5, <2>2 DEF Inserted
  <2>5. i < u => RJ[i] = J[m]
    <3>1. i < u => i \in 1 .. c - mid - 1
      BY <1>1, <1>3
    <3>2. QED
      BY <2>1, <3>1 DEF PartedKeys
  <2>6. i > u => RJ[i - 1] = J[m - 1]
    <3>1. i > u => i - 1 \in 1 .. c - mid - 1
      BY <1>1, <1>3
    <3>2. i > u => RJ[i - 1] = J[mid + 1 + (i - 1)]
      BY <3>1 DEF PartedKeys
    <3>3. QED
      BY <2>2, <3>2
  <2>7. i < u \/ i = u \/ i > u
    BY <1>3
  <2>8. QED
    BY <2>1, <2>3, <2>4, <2>5, <2>6, <2>7
<1>10. QED
  BY <1>2, <1>4, <1>7, <1>8, <1>9 DEF DividedKeys

\* The new key goes to the left one.
LEMMA KeyLeft ==
  ASSUME NEW c, NEW mid, NEW s, NEW K, NEW J, NEW LJ, NEW RJ,
         PartedKeys(c, mid, J, LJ, RJ), Inserted(K, J, s + 1, newkey),
         newkey \in Keys, s \in 0 .. mid
  PROVE  DividedKeys(c, mid + 1, K, InsertAt(LJ, s + 1, newkey), RJ, J[mid + 1])
<1>1. /\ c \in Nat /\ mid \in Nat /\ mid + 2 <= c /\ Len(J) = c
      /\ LJ \in Seq(Keys) /\ Len(LJ) = mid
  BY DEF PartedKeys
<1>2. PICK u, a : u = s + 1 /\ a = mid + 1
  OBVIOUS
<1>3. u \in 1 .. mid + 1 /\ u \in 1 .. Len(LJ) + 1 /\ a \in Nat
  BY <1>1, <1>2
<1>4. PICK LK : LK = InsertAt(LJ, u, newkey)
  OBVIOUS
<1>5. Inserted(LK, LJ, u, newkey)
  BY <1>1, <1>3, <1>4, InsertAtElement
<1>6. \A j \in 1 .. c + 1 :
        K[j] = IF j < u THEN J[j] ELSE IF j = u THEN newkey ELSE J[j - 1]
  BY <1>1, <1>2 DEF Inserted
<1>7. ASSUME NEW i \in 1 .. a PROVE LK[i] = K[i]
  <2>1. i \in 1 .. c + 1 /\ i \in 1 .. Len(LJ) + 1
    BY <1>1, <1>2
  <2>2. K[i] = IF i < u THEN J[i] ELSE IF i = u THEN newkey ELSE J[i - 1]
    BY <1>6, <2>1
  <2>3. LK[i] = IF i < u THEN LJ[i] ELSE IF i = u THEN newkey ELSE LJ[i - 1]
    BY <1>5, <2>1 DEF Inserted
  <2>4. i < u => LJ[i] = J[i]
    <3>1. i < u => i \in 1 .. mid
      BY <1>1, <1>3
    <3>2. QED
      BY <3>1 DEF PartedKeys
  <2>5. i > u => LJ[i - 1] = J[i - 1]
    <3>1. i > u => i - 1 \in 1 .. mid
      BY <1>1, <1>2, <1>3
    <3>2. QED
      BY <3>1 DEF PartedKeys
  <2>6. i < u \/ i = u \/ i > u
    BY <1>3
  <2>7. QED
    BY <2>2, <2>3, <2>4, <2>5, <2>6
<1>8. ASSUME NEW i \in 1 .. c - a PROVE RJ[i] = K[a + 1 + i]
  <2>1. PICK m : m = a + 1 + i
    OBVIOUS
  <2>2. /\ m \in 1 .. c + 1 /\ ~(m < u) /\ m # u
        /\ m - 1 = mid + 1 + i /\ i \in 1 .. c - mid - 1
    BY <1>1, <1>2, <1>3, <2>1
  <2>3. K[m] = J[m - 1]
    BY <1>6, <2>2
  <2>4. RJ[i] = J[mid + 1 + i]
    BY <2>2 DEF PartedKeys
  <2>5. QED
    BY <2>1, <2>2, <2>3, <2>4
<1>9. J[mid + 1] = K[a + 1]
  <2>1. PICK m : m = a + 1
    OBVIOUS
  <2>2. m \in 1 .. c + 1 /\ ~(m < u) /\ m # u /\ m - 1 = mid + 1
    BY <1>1, <1>2, <1>3, <2>1
  <2>3. K[m] = J[m - 1]
    BY <1>6, <2>2
  <2>4. QED
    BY <2>1, <2>2, <2>3
<1>10. QED
  BY <1>2, <1>4, <1>7, <1>8, <1>9 DEF DividedKeys

OneNodeMore == stats' = [stats EXCEPT !.innernodes = @ + 1]

\* The counters with an inner node more.
LEMMA NodeCounted ==
  ASSUME stats \in Counters, OneNodeMore
  PROVE  MoreNodes(1)
<1>1. PICK l, i, c, f : /\ l = stats.leaves /\ i = stats.innernodes
                        /\ c = stats.itemcount /\ f = stats.ofType
  OBVIOUS
<1>2. /\ stats = Stats(l, i, c, f) /\ f \in [Types -> Int]
      /\ l \in Int /\ i \in Int /\ c \in Int
  BY <1>1 DEF Counters, Stats
<1>3. PICK y : y = i + 1 /\ y \in Int
  BY <1>2
<1>4. stats' = [Stats(l, i, c, f) EXCEPT !.innernodes = y]
  <2>1. stats' = [stats EXCEPT !.innernodes = stats.innernodes + 1]
    BY DEF OneNodeMore
  <2>2. QED
    BY <1>1, <1>2, <1>3, <2>1
<1>5. [Stats(l, i, c, f) EXCEPT !.innernodes = y] = Stats(l, y, c, f)
  BY DEF Stats
<1>6. stats' = Stats(l, y, c, f)
  BY <1>4, <1>5, Zenon
<1>7. /\ stats' \in Counters /\ stats'.leaves = l /\ stats'.innernodes = y
      /\ stats'.itemcount = c /\ stats'.ofType = f
  <2>1. PICK r : r = Stats(l, y, c, f)
    OBVIOUS
  <2>2. /\ r \in Counters /\ r.leaves = l /\ r.innernodes = y
        /\ r.itemcount = c /\ r.ofType = f
    BY <1>2, <1>3, <2>1, CountersGiven
  <2>3. stats' = r
    BY <1>6, <2>1
  <2>4. QED
    BY <2>2, <2>3
<1>8. QED
  BY <1>1, <1>3, <1>7 DEF MoreNodes

\* The node n is split at mid into left and right, with k between them, x is
\* the new one, and the new child comes in behind slot s.
SplitTo(n, s, x, mid, left, right, k) ==
  \/ /\ s = mid + 1 /\ mid < Len(right.slotkey)
     /\ heap' = put(put(heap, n,
                        [left EXCEPT !.slotkey = Append(@, k),
                                     !.childid = Append(@, right.childid[1])]),
                    x, [right EXCEPT !.childid = [@ EXCEPT ![1] = newchild]])
     /\ newkey' = newkey
  \/ /\ s >= mid + 1 /\ ~(s = mid + 1 /\ mid < Len(right.slotkey))
     /\ heap' = put(put(heap, n, left), x, addChild(right, s - (mid + 1)))
     /\ newkey' = k
  \/ /\ s < mid + 1
     /\ heap' = put(put(heap, n, addChild(left, s)), x, right)
     /\ newkey' = k

\* What comes out when they are the halves of a node.
LEMMA SplitHalves ==
  ASSUME NEW n, NEW s, NEW x, NEW mid, NEW k, NEW l, NEW f, NEW g, g = FALSE,
         NEW LJ, NEW LD, NEW RJ, NEW RD,
         SplitTo(n, s, x, mid, InnerNode(l, LJ, LD, f),
                 InnerNode(l, RJ, RD, g), k)
  PROVE  \/ /\ s = mid + 1 /\ mid < Len(RJ) /\ newkey' = newkey
            /\ DividedHeap(n, x, l, Append(LJ, k), Append(LD, RD[1]), f,
                           RJ, [RD EXCEPT ![1] = newchild])
         \/ /\ s >= mid + 1 /\ ~(s = mid + 1 /\ mid < Len(RJ)) /\ newkey' = k
            /\ DividedHeap(n, x, l, LJ, LD, f,
                           InsertAt(RJ, s - (mid + 1) + 1, newkey),
                           InsertAt(RD, s - (mid + 1) + 2, newchild))
         \/ /\ s < mid + 1 /\ newkey' = k
            /\ DividedHeap(n, x, l, InsertAt(LJ, s + 1, newkey),
                           InsertAt(LD, s + 2, newchild), f, RJ, RD)
<1>1. PICK left, right : /\ left = InnerNode(l, LJ, LD, f)
                         /\ right = InnerNode(l, RJ, RD, g)
  OBVIOUS
<1>2. /\ left.slotkey = LJ /\ left.childid = LD
      /\ right.slotkey = RJ /\ right.childid = RD
  BY <1>1, GivenFields
<1>3. SplitTo(n, s, x, mid, left, right, k)
  BY <1>1
<1>4. PICK LK, LC, RC : /\ LK = Append(LJ, k) /\ LC = Append(LD, RD[1])
                        /\ RC = [RD EXCEPT ![1] = newchild]
  OBVIOUS
<1>5. /\ [left EXCEPT !.slotkey = LK, !.childid = LC]
           = InnerNode(l, LK, LC, f)
      /\ [right EXCEPT !.childid = RC] = InnerNode(l, RJ, RC, g)
  <2>1. /\ [InnerNode(l, LJ, LD, f) EXCEPT !.slotkey = LK]
             = InnerNode(l, LK, LD, f)
        /\ [InnerNode(l, LK, LD, f) EXCEPT !.childid = LC]
             = InnerNode(l, LK, LC, f)
        /\ [InnerNode(l, RJ, RD, g) EXCEPT !.childid = RC]
             = InnerNode(l, RJ, RC, g)
    BY DEF InnerNode
  <2>2. [left EXCEPT !.slotkey = LK, !.childid = LC]
          = [[left EXCEPT !.slotkey = LK] EXCEPT !.childid = LC]
    OBVIOUS
  <2>3. [left EXCEPT !.slotkey = LK, !.childid = LC] = InnerNode(l, LK, LC, f)
    BY <1>1, <2>1, <2>2, Zenon
  <2>4. [right EXCEPT !.childid = RC] = InnerNode(l, RJ, RC, g)
    BY <1>1, <2>1, Zenon
  <2>5. QED
    BY <2>3, <2>4
<1>6. CASE /\ s = mid + 1 /\ mid < Len(right.slotkey) /\ newkey' = newkey
           /\ heap' = put(put(heap, n,
                         [left EXCEPT !.slotkey = Append(left.slotkey, k),
                            !.childid = Append(left.childid, right.childid[1])]),
                         x, [right EXCEPT !.childid =
                               [right.childid EXCEPT ![1] = newchild]])
  <2>1. heap' = put(put(heap, n, [left EXCEPT !.slotkey = LK, !.childid = LC]),
                    x, [right EXCEPT !.childid = RC])
    BY <1>2, <1>4, <1>6
  <2>2. heap' = put(put(heap, n, InnerNode(l, LK, LC, f)), x,
                    InnerNode(l, RJ, RC, g))
    BY <1>5, <2>1, Zenon
  <2>3. DividedHeap(n, x, l, LK, LC, f, RJ, RC)
    BY <2>2 DEF DividedHeap
  <2>4. QED
    BY <1>2, <1>4, <1>6, <2>3
<1>7. CASE /\ s >= mid + 1 /\ ~(s = mid + 1 /\ mid < Len(right.slotkey))
           /\ heap' = put(put(heap, n, left), x, addChild(right, s - (mid + 1)))
           /\ newkey' = k
  <2>1. PICK t, RK, RE : /\ t = s - (mid + 1)
                         /\ RK = InsertAt(RJ, t + 1, newkey)
                         /\ RE = InsertAt(RD, t + 2, newchild)
    OBVIOUS
  <2>2. addChild(right, t) = InnerNode(l, RK, RE, g)
    BY <1>1, <2>1, ChildAdded
  <2>3. heap' = put(put(heap, n, InnerNode(l, LJ, LD, f)), x,
                    InnerNode(l, RK, RE, g))
    BY <1>1, <1>7, <2>1, <2>2
  <2>4. DividedHeap(n, x, l, LJ, LD, f, RK, RE)
    BY <2>3 DEF DividedHeap
  <2>5. QED
    BY <1>2, <1>7, <2>1, <2>4
<1>8. CASE /\ s < mid + 1 /\ newkey' = k
           /\ heap' = put(put(heap, n, addChild(left, s)), x, right)
  <2>1. PICK LL, LE : /\ LL = InsertAt(LJ, s + 1, newkey)
                      /\ LE = InsertAt(LD, s + 2, newchild)
    OBVIOUS
  <2>2. addChild(left, s) = InnerNode(l, LL, LE, f)
    BY <1>1, <2>1, ChildAdded
  <2>3. heap' = put(put(heap, n, InnerNode(l, LL, LE, f)), x,
                    InnerNode(l, RJ, RD, g))
    BY <1>1, <1>8, <2>2
  <2>4. DividedHeap(n, x, l, LL, LE, f, RJ, RD)
    BY <2>3 DEF DividedHeap
  <2>5. QED
    BY <1>8, <2>1, <2>4
<1>9. QED
  BY <1>3, <1>6, <1>7, <1>8 DEF SplitTo

\* The keys K and children C of n, the new one among them, are divided
\* between n and x.
SplitEffect(n, s, J, D, K, C, x, a, LK, LC, RK, RC) ==
  /\ Entering(n, s, J, D, K, C)
  /\ isfull(n) /\ ShareEnds(x) /\ newchild' = x
  /\ x \in Nodes \ Allocated
  /\ Divided(innerslotmax, a, C, LK, LC, RK, RC)
  /\ DividedKeys(innerslotmax, a, K, LK, RK, newkey')
  /\ DividedHeap(n, x, heap[n].level, LK, LC, heap[n].alreadycomprerss, RK, RC)

\* A full inner node is split.
LEMMA SplitInnerEffect ==
  ASSUME ElasticInv, SplitInner
  PROVE  \E n, s, J, D, K, C, x, a, LK, LC, RK, RC :
           SplitEffect(n, s, J, D, K, C, x, a, LK, LC, RK, RC)
<1>1. PICK n, s, x : n = above[1] /\ s = above[2] /\ x = fresh
  OBVIOUS
<1>2. PICK J, D : J = heap[n].slotkey /\ D = heap[n].childid
  OBVIOUS
<1>3. PICK c, mid : c = Len(J) /\ mid = splitMid(c, s)
  OBVIOUS
<1>4. PICK left, right, k :
        /\ left = [heap[n] EXCEPT
                     !.slotkey = SubSeq(heap[n].slotkey, 1, mid),
                     !.childid = SubSeq(heap[n].childid, 1, mid + 1)]
        /\ right = [level |-> heap[n].level, alreadycomprerss |-> FALSE,
                    slotkey |-> SubSeq(heap[n].slotkey, mid + 2, c),
                    childid |-> SubSeq(heap[n].childid, mid + 2, c + 1)]
        /\ k = heap[n].slotkey[mid + 1]
  OBVIOUS
<1>5. SplitTo(n, s, x, mid, left, right, k)
  BY <1>1, <1>2, <1>3, <1>4 DEF SplitInner, SplitTo
<1>6. /\ pc = "unwind" /\ newchild # Null /\ path # <<>>
      /\ isfull(n) /\ canAllocate /\ newchild' = x
      /\ OneNodeMore /\ path' = Front(path)
      /\ UNCHANGED <<root, head, tail, limits, pc, key, cur, stored>>
  BY <1>1 DEF SplitInner, OneNodeMore
<1>7. PICK K, C : K = InsertAt(J, s + 1, newkey) /\ C = InsertAt(D, s + 2, newchild)
  OBVIOUS
<1>8. Entering(n, s, J, D, K, C)
  BY <1>1, <1>2, <1>7 DEF Entering
<1>9. /\ n \in Inner /\ s \in 0 .. Len(J)
      /\ J \in Seq(Keys) /\ D \in Seq(Allocated)
      /\ Inserted(C, D, s + 2, newchild) /\ Inserted(K, J, s + 1, newkey)
  BY <1>6, <1>8, NewChildEntered
<1>10. /\ TypeOK /\ InnerFilled(n) /\ stats \in Counters
       /\ innerslotmax \in Nat /\ innerslotmax >= 3
       /\ newchild \in Allocated /\ newkey \in Keys
       /\ x \in Nodes \ Allocated /\ x # Null
  <2>1. newchild \in Allocated /\ newkey \in Keys /\ stats \in Counters
    BY <1>6 DEF ElasticInv, CallUnderWay, SplitAlike, TypeOK, Counters
  <2>2. x \in Nodes /\ x \notin Allocated
    BY <1>1, <1>6, FreshNode
  <2>3. TypeOK /\ InnerFilled(n)
    BY <1>9 DEF ElasticInv, Tree
  <2>4. QED
    BY <2>1, <2>2, <2>3, ElasticAssumption
<1>11. /\ c = innerslotmax /\ c \in Nat /\ c >= 3 /\ s \in 0 .. c
       /\ Len(D) = c + 1
  BY <1>2, <1>3, <1>6, <1>9, <1>10 DEF isfull, InnerFilled
<1>12. /\ mid \in Nat /\ mid + 2 <= c
       /\ s = mid + 1 /\ mid < c - mid - 1 => Fits(c, mid + 1)
       /\ s >= mid + 1 /\ ~(s = mid + 1 /\ mid < c - mid - 1) => Fits(c, mid)
       /\ s < mid + 1 => Fits(c, mid + 1)
  BY <1>3, <1>11, SplitSizes
<1>13. PICK LJ, LD, RJ, RD :
         /\ LJ = SubSeq(J, 1, mid) /\ LD = SubSeq(D, 1, mid + 1)
         /\ RJ = SubSeq(J, mid + 2, c) /\ RD = SubSeq(D, mid + 2, c + 1)
  OBVIOUS
<1>14. Parted(c, mid, D, LJ, LD, RJ, RD) /\ PartedKeys(c, mid, J, LJ, RJ)
  BY <1>3, <1>9, <1>11, <1>12, <1>13, PartedNode, PartedNodeKeys
<1>15. PICK l, f : heap[n] = InnerNode(l, J, D, f) /\ l = heap[n].level
                   /\ f = heap[n].alreadycomprerss
  BY <1>2, <1>9, <1>10, EnteringFields
<1>16. PICK g : g = FALSE
  OBVIOUS
<1>17. left = InnerNode(l, LJ, LD, f) /\ right = InnerNode(l, RJ, RD, g)
  <2>1. /\ [InnerNode(l, J, D, f) EXCEPT !.slotkey = LJ] = InnerNode(l, LJ, D, f)
        /\ [InnerNode(l, LJ, D, f) EXCEPT !.childid = LD]
             = InnerNode(l, LJ, LD, f)
    BY DEF InnerNode
  <2>2. left = [[heap[n] EXCEPT !.slotkey = LJ] EXCEPT !.childid = LD]
    <3>1. left = [heap[n] EXCEPT !.slotkey = LJ, !.childid = LD]
      BY <1>2, <1>4, <1>13
    <3>2. [heap[n] EXCEPT !.slotkey = LJ, !.childid = LD]
            = [[heap[n] EXCEPT !.slotkey = LJ] EXCEPT !.childid = LD]
      OBVIOUS
    <3>3. QED
      BY <3>1, <3>2, Zenon
  <2>3. left = InnerNode(l, LJ, LD, f)
    BY <1>15, <2>1, <2>2, Zenon
  <2>4. right = [level |-> l, alreadycomprerss |-> g, slotkey |-> RJ,
                 childid |-> RD]
    BY <1>2, <1>4, <1>13, <1>15, <1>16
  <2>5. right = InnerNode(l, RJ, RD, g)
    BY <2>4 DEF InnerNode
  <2>6. QED
    BY <2>3, <2>5
<1>18. k \in Keys /\ k = J[mid + 1]
  <2>1. mid + 1 \in 1 .. Len(J)
    BY <1>3, <1>11, <1>12
  <2>2. k = J[mid + 1]
    BY <1>2, <1>4
  <2>3. QED
    BY <1>9, <2>1, <2>2, SeqElement
<1>19. newkey' \in Keys => ShareEnds(x)
  <2>1. MoreNodes(IF x = Null THEN 0 ELSE 1)
    BY <1>6, <1>10, NodeCounted
  <2>2. QED
    BY <1>6, <1>10, <2>1 DEF ShareEnds
<1>20. ASSUME NEW a, NEW LK, NEW LC, NEW RK, NEW RC, newkey' \in Keys,
              Divided(c, a, C, LK, LC, RK, RC),
              DividedKeys(c, a, K, LK, RK, newkey'),
              DividedHeap(n, x, l, LK, LC, f, RK, RC)
       PROVE  \E b, AK, AC, BK, BC :
                SplitEffect(n, s, J, D, K, C, x, b, AK, AC, BK, BC)
  <2>1. SplitEffect(n, s, J, D, K, C, x, a, LK, LC, RK, RC)
    BY <1>6, <1>8, <1>10, <1>11, <1>15, <1>19, <1>20 DEF SplitEffect
  <2>2. QED
    BY <2>1, Zenon
<1>21. Len(RJ) = c - mid - 1
  BY <1>14 DEF Parted
<1>22. SplitTo(n, s, x, mid, InnerNode(l, LJ, LD, f), InnerNode(l, RJ, RD, g), k)
  BY <1>5, <1>17
<1>23. \/ /\ s = mid + 1 /\ mid < Len(RJ) /\ newkey' = newkey
          /\ DividedHeap(n, x, l, Append(LJ, k), Append(LD, RD[1]), f,
                         RJ, [RD EXCEPT ![1] = newchild])
       \/ /\ s >= mid + 1 /\ ~(s = mid + 1 /\ mid < Len(RJ)) /\ newkey' = k
          /\ DividedHeap(n, x, l, LJ, LD, f,
                         InsertAt(RJ, s - (mid + 1) + 1, newkey),
                         InsertAt(RD, s - (mid + 1) + 2, newchild))
       \/ /\ s < mid + 1 /\ newkey' = k
          /\ DividedHeap(n, x, l, InsertAt(LJ, s + 1, newkey),
                         InsertAt(LD, s + 2, newchild), f, RJ, RD)
  BY <1>16, <1>22, SplitHalves
<1>24. CASE /\ s = mid + 1 /\ mid < Len(RJ) /\ newkey' = newkey
            /\ DividedHeap(n, x, l, Append(LJ, k), Append(LD, RD[1]), f,
                           RJ, [RD EXCEPT ![1] = newchild])
  <2>1. Divided(c, mid + 1, C, Append(LJ, k), Append(LD, RD[1]), RJ,
                [RD EXCEPT ![1] = newchild])
    BY <1>9, <1>10, <1>11, <1>12, <1>14, <1>18, <1>21, <1>24, BetweenHalves
  <2>2. DividedKeys(c, mid + 1, K, Append(LJ, k), RJ, newkey)
    BY <1>9, <1>14, <1>18, <1>24, KeyBetween
  <2>3. newkey' \in Keys /\ newkey' = newkey
    BY <1>10, <1>24
  <2>4. \E b, AK, AC, BK, BC :
          SplitEffect(n, s, J, D, K, C, x, b, AK, AC, BK, BC)
    BY <1>20, <1>24, <2>1, <2>2, <2>3
  <2>5. QED
    BY <2>4, Zenon
<1>25. CASE /\ s >= mid + 1 /\ ~(s = mid + 1 /\ mid < Len(RJ)) /\ newkey' = k
            /\ DividedHeap(n, x, l, LJ, LD, f,
                           InsertAt(RJ, s - (mid + 1) + 1, newkey),
                           InsertAt(RD, s - (mid + 1) + 2, newchild))
  <2>1. PICK t : t = s - (mid + 1)
    OBVIOUS
  <2>2. s \in mid + 1 .. c /\ Fits(c, mid)
    BY <1>11, <1>12, <1>21, <1>25
  <2>3. Divided(c, mid, C, LJ, LD, InsertAt(RJ, t + 1, newkey),
                InsertAt(RD, t + 2, newchild))
    BY <1>9, <1>10, <1>11, <1>14, <2>1, <2>2, RightHalf
  <2>4. DividedKeys(c, mid, K, LJ, InsertAt(RJ, t + 1, newkey), k)
    BY <1>9, <1>10, <1>14, <1>18, <2>1, <2>2, KeyRight
  <2>5. newkey' \in Keys /\ newkey' = k
    BY <1>18, <1>25
  <2>6. DividedHeap(n, x, l, LJ, LD, f, InsertAt(RJ, t + 1, newkey),
                    InsertAt(RD, t + 2, newchild))
    BY <1>25, <2>1
  <2>7. \E b, AK, AC, BK, BC :
          SplitEffect(n, s, J, D, K, C, x, b, AK, AC, BK, BC)
    BY <1>20, <2>3, <2>4, <2>5, <2>6
  <2>8. QED
    BY <2>7, Zenon
<1>26. CASE /\ s < mid + 1 /\ newkey' = k
            /\ DividedHeap(n, x, l, InsertAt(LJ, s + 1, newkey),
                           InsertAt(LD, s + 2, newchild), f, RJ, RD)
  <2>1. s \in 0 .. mid /\ Fits(c, mid + 1)
    BY <1>11, <1>12, <1>26
  <2>2. Divided(c, mid + 1, C, InsertAt(LJ, s + 1, newkey),
                InsertAt(LD, s + 2, newchild), RJ, RD)
    BY <1>9, <1>10, <1>11, <1>14, <2>1, LeftHalf
  <2>3. DividedKeys(c, mid + 1, K, InsertAt(LJ, s + 1, newkey), RJ, k)
    BY <1>9, <1>10, <1>14, <1>18, <2>1, KeyLeft
  <2>4. newkey' \in Keys /\ newkey' = k
    BY <1>18, <1>26
  <2>5. \E b, AK, AC, BK, BC :
          SplitEffect(n, s, J, D, K, C, x, b, AK, AC, BK, BC)
    BY <1>20, <1>26, <2>2, <2>3, <2>4
  <2>6. QED
    BY <2>5, Zenon
<1>27. QED
  BY <1>23, <1>24, <1>25, <1>26, Zenon

\* Splitting it keeps the invariant.
LEMMA SplitInnerInv ==
  ASSUME ElasticInv, SplitInner
  PROVE  ElasticInv' /\ stats'.ofType = stats.ofType
<1>1. PICK n, s, J, D, K, C, x, a, LK, LC, RK, RC :
        SplitEffect(n, s, J, D, K, C, x, a, LK, LC, RK, RC)
  BY SplitInnerEffect, Zenon
<1>2. pc = "unwind" /\ newchild # Null /\ path # <<>>
  BY DEF SplitInner
<1>3. /\ Entering(n, s, J, D, K, C) /\ isfull(n) /\ ShareEnds(x)
      /\ x \in Nodes \ Allocated
      /\ Divided(innerslotmax, a, C, LK, LC, RK, RC)
      /\ DividedHeap(n, x, heap[n].level, LK, LC, heap[n].alreadycomprerss,
                     RK, RC)
  BY <1>1 DEF SplitEffect
<1>4. n \in Inner /\ NewChildren(n, K, C)
  BY <1>2, <1>3, NewChildEntered
<1>5. n = above[1]
  BY <1>3 DEF Entering
<1>6. QED
  BY <1>3, <1>4, <1>5, DividedInv

-----------------------------------------------------------------------------
(* The theorems *)

\* Nothing is in the heap at first.
LEMMA ElasticInit == Init => ElasticInv
<1> SUFFICES ASSUME Init PROVE ElasticInv
  OBVIOUS
<1>1. /\ root = Null /\ head = Null /\ tail = Null /\ heap = <<>>
      /\ hybridstatus = "CONTINUE" /\ limit2MustCompress = MustLimit
      /\ pc = "idle" /\ key = Null /\ cur = Null /\ path = <<>>
      /\ newkey = Null /\ newchild = Null /\ stored = {}
  BY DEF Init
<1>2. /\ stats \in [leaves : Nat, innernodes : Nat, itemcount : Nat,
                    ofType : [Types -> Nat]]
      /\ stats.leaves = 0 /\ stats.innernodes = 0 /\ stats.itemcount = 0
      /\ \A t \in Types : stats.ofType[t] = 0
  BY DEF Init
<1>3. Allocated = {} /\ Leaves = {} /\ Inner = {}
  <2>1. Allocated = {}
    BY <1>1 DEF Allocated
  <2>2. QED
    BY <2>1 DEF Leaves, Inner
<1>4. heap \in [Allocated -> LeafNodes \cup InnerNodes]
  BY <1>1, <1>3
<1>5. MustLimit \in 0 .. SizeTop - 1 /\ Null \in Pointers
  BY ElasticAssumption DEF Pointers
<1>6. path \in Seq(Inner \X Nat) /\ Len(path) = 0
  BY <1>1
<1>7. TypeOK
  BY <1>1, <1>2, <1>3, <1>4, <1>5, <1>6 DEF TypeOK
<1>8. Tree
  <2>1. LinkedOnce
    BY <1>1, <1>3 DEF LinkedOnce
  <2>2. ListLinked
    BY <1>1, <1>3 DEF ListLinked
  <2>3. RootLeafPlain
    BY <1>3 DEF RootLeafPlain
  <2>4. UNION {heap[n].items : n \in Leaves} = stored \cup beingStored
    BY <1>1, <1>3 DEF beingStored
  <2>5. QED
    BY <1>3, <2>1, <2>2, <2>3, <2>4 DEF Tree
<1>9. CallUnderWay
  BY <1>1, <1>6 DEF CallUnderWay, PathLeadsDown, SplitAlike
<1>10. Counted
  <2>1. \A t : {n \in Leaves : heap[n].blindileaftype = t} = {}
    BY <1>3
  <2>2. IsFiniteSet({}) /\ Cardinality({}) = 0
    BY FS_EmptySet
  <2>3. QED
    BY <1>1, <1>2, <1>3, <2>1, <2>2 DEF Counted
<1>11. StatusDriven
  <2>1. ~(stats.itemcount > ShouldLimit) /\ stats.itemcount <= ShouldLimit
    BY <1>2, ElasticAssumption
  <2>2. QED
    BY <1>1, <2>1 DEF StatusDriven
<1>12. QED
  BY <1>7, <1>8, <1>9, <1>10, <1>11 DEF ElasticInv

\* Every step keeps the invariant.
LEMMA ElasticStep == ElasticInv /\ [Next]_vars => ElasticInv'
<1> SUFFICES ASSUME ElasticInv, [Next]_vars PROVE ElasticInv'
  OBVIOUS
<1>1. CASE UNCHANGED vars
  BY <1>1 DEF vars, tree, limits, split, ElasticInv, TypeOK, Tree,
     CallUnderWay, Counted, StatusDriven, LinkedOnce, MarkTrue, InnerFilled,
     LeafFilled, ListLinked, RootLeafPlain, PathLeadsDown, SplitAlike,
     Allocated, Leaves, Inner, Slots, beingStored, rootSplit, capacity,
     pathEnd, above, isblindileafnode, isfullbtree
<1>2. CASE Next
  <2>1. ASSUME NEW k \in Keys, Begin(k) PROVE ElasticInv'
    BY <2>1, BeginInv
  <2>2. CASE Descend \/ KeepLeaf \/ StoreRoom \/ Finish
    BY <2>2, DescendInv, KeepLeafInv, StoreRoomInv, FinishInv
  <2>3. CASE TransferLeaf \/ CompressSibling \/ StoreExtend
    BY <2>3, TransferLeafInv, CompressSiblingInv, StoreExtendInv
  <2>4. CASE StoreSplit \/ LinkChild \/ SplitInner
    BY <2>4, StoreSplitInv, LinkChildInv, SplitInnerInv
  <2>5. QED
    BY <1>2, <2>1, <2>2, <2>3, <2>4 DEF Next, Step
<1>3. QED
  BY <1>1, <1>2

\* However leaves are split, replaced and linked, the nodes stay a tree that
\* holds what was stored, and the counters and the status agree with it.
THEOREM StaysTree == Spec => []ElasticInv
  BY ElasticInit, ElasticStep, PTL DEF Spec

\* The variables of insert keep their types: no pointer to a freed leaf is left
\* in a node, the root, or the path of the call.
THEOREM ElasticTypeCorrect == Spec => []TypeOK
<1>1. ElasticInv => TypeOK
  BY DEF ElasticInv
<1>2. QED
  BY <1>1, StaysTree, PTL

\* What verify_node asks of the nodes holds between any two calls: filled to at
\* least one half, not over, and with as many keys as slotuse says.
THEOREM NodesStayFilled == Spec => []NodesFilled
<1>1. ElasticInv => NodesFilled
  BY DEF ElasticInv, Tree, NodesFilled, LeafFilled, InnerFilled, capacity,
     Slots, Quiet
<1>2. QED
  BY <1>1, StaysTree, PTL

\* The mark that spares the scan of a parent's children is never wrong.
THEOREM MarksStayTrue == Spec => []MarkedParentsScanned
<1>1. ElasticInv => MarkedParentsScanned
  BY DEF ElasticInv, Tree, MarkedParentsScanned, MarkTrue
<1>2. QED
  BY <1>1, StaysTree, PTL

\* The slots that point to a node are none for the root and one for others.
LEMMA SlotsCounted ==
  ASSUME ElasticInv, pc = "idle", NEW n \in Allocated
  PROVE  Cardinality(slotsOf(n)) = IF n = root THEN 0 ELSE 1
<1>1. /\ TypeOK /\ LinkedOnce /\ newchild = Null
      /\ \A p \in Inner : InnerFilled(p)
  BY DEF ElasticInv, Tree, CallUnderWay
<1>2. n # Null
  BY <1>1, ElasticAssumption DEF TypeOK
<1>3. \A y : y \in slotsOf(n) <=>
        \E p \in Inner : \E i \in 1 .. innerslotmax + 1 :
          y = <<p, i>> /\ i <= Len(heap[p].childid) /\ heap[p].childid[i] = n
  BY DEF slotsOf
<1>4. CASE n = root
  <2>1. \A p \in Inner : \A i \in Slots(p) : heap[p].childid[i] # n
    BY <1>1, <1>4 DEF LinkedOnce
  <2>2. \A p \in Inner : \A i \in 1 .. innerslotmax + 1 :
          i <= Len(heap[p].childid) => i \in Slots(p)
    <3> TAKE p \in Inner
    <3> TAKE i \in 1 .. innerslotmax + 1
    <3>1. Len(heap[p].childid) \in Nat
      BY <1>1 DEF TypeOK
    <3>2. QED
      BY <3>1 DEF Slots
  <2>3. slotsOf(n) = {}
    BY <1>3, <2>1, <2>2
  <2>4. QED
    BY <1>4, <2>3, FS_EmptySet
<1>5. CASE n # root
  <2>6. PICK p \in Inner : \E i \in Slots(p) : heap[p].childid[i] = n
    BY <1>1, <1>2, <1>5 DEF LinkedOnce
  <2>1. PICK i \in Slots(p) : heap[p].childid[i] = n
    BY <2>6
  <2>2. \A q \in Inner : \A j \in 1 .. innerslotmax + 1 :
          j <= Len(heap[q].childid) /\ heap[q].childid[j] = n => q = p /\ j = i
    <3> TAKE q \in Inner
    <3> TAKE j \in 1 .. innerslotmax + 1
    <3>1. Len(heap[q].childid) \in Nat
      BY <1>1 DEF TypeOK
    <3>2. j <= Len(heap[q].childid) => j \in Slots(q)
      BY <3>1 DEF Slots
    <3>3. QED
      BY <1>1, <2>1, <3>2 DEF LinkedOnce
  <2>3. i \in 1 .. innerslotmax + 1 /\ i <= Len(heap[p].childid)
    <3>1. /\ Len(heap[p].childid) = Len(heap[p].slotkey) + 1
          /\ Len(heap[p].slotkey) \in 1 .. innerslotmax /\ innerslotmax \in Nat
      BY <1>1, <2>1, ElasticAssumption DEF InnerFilled
    <3>2. i \in 1 .. Len(heap[p].childid)
      BY <2>1 DEF Slots
    <3>3. QED
      BY <3>1, <3>2
  <2>4. slotsOf(n) = {<<p, i>>}
    <3>1. <<p, i>> \in slotsOf(n)
      BY <1>3, <2>1, <2>3
    <3>2. \A y \in slotsOf(n) : y = <<p, i>>
      BY <1>3, <2>2
    <3>3. QED
      BY <3>1, <3>2
  <2>5. QED
    BY <1>5, <2>4, FS_Singleton
<1>6. QED
  BY <1>4, <1>5

\* The statistics that drive the status are what is in the tree between any two
\* calls, and every node allocated and not freed hangs in one slot of it.
THEOREM StatsStayExact == Spec => []StatsExact
<1>1. ASSUME ElasticInv, pc = "idle"
      PROVE  stats = [leaves |-> Cardinality(Leaves),
                      innernodes |-> Cardinality(Inner),
                      itemcount |-> Cardinality(stored),
                      ofType |-> [t \in Types |->
                        Cardinality({n \in Leaves : heap[n].blindileaftype = t})]]
  <2>1. TypeOK /\ Counted
    BY <1>1 DEF ElasticInv
  <2>2. PICK l, i, c, f : /\ l = stats.leaves /\ i = stats.innernodes
                          /\ c = stats.itemcount /\ f = stats.ofType
    OBVIOUS
  <2>3. /\ stats = [leaves |-> l, innernodes |-> i, itemcount |-> c,
                    ofType |-> f]
        /\ f \in [Types -> Nat]
    BY <2>1, <2>2 DEF TypeOK
  <2>4. /\ l = Cardinality(Leaves) /\ i = Cardinality(Inner)
        /\ c = Cardinality(stored)
        /\ \A t \in Types :
             f[t] = Cardinality({n \in Leaves : heap[n].blindileaftype = t})
    BY <2>1, <2>2 DEF Counted
  <2>5. f = [t \in Types |->
               Cardinality({n \in Leaves : heap[n].blindileaftype = t})]
    BY <2>3, <2>4
  <2>6. QED
    BY <2>3, <2>4, <2>5
<1>2. ElasticInv => StatsExact
  <2>1. ASSUME ElasticInv PROVE StatsExact
    BY <1>1, <2>1, SlotsCounted DEF StatsExact
  <2>2. QED
    BY <2>1
<1>3. QED
  BY <1>2, StaysTree, PTL

\* No step but one of a tree with few items makes a plain leaf.
LEMMA PlainStep ==
  ASSUME ElasticInv, Next, stats.itemcount > ShouldLimit
  PROVE  stats'.ofType[0] <= stats.ofType[0]
<1>1. stats.ofType[0] \in Nat /\ stats.itemcount \in Nat /\ ShouldLimit \in Nat
  <2>1. 0 \in Types
    BY TypeFacts
  <2>2. QED
    BY <2>1, ElasticAssumption DEF ElasticInv, TypeOK
<1>2. ASSUME NEW k \in Keys, Begin(k) PROVE stats' = stats
  <2>1. pc = "idle"
    BY <1>2 DEF Begin
  <2>2. CASE root = Null
    <3>1. Allocated = {} /\ Counted
      BY <2>2 DEF ElasticInv, Tree
    <3>2. Leaves = {}
      BY <3>1 DEF Leaves
    <3>3. beingStored = {}
      BY <2>1 DEF beingStored
    <3>4. UNION {heap[n].items : n \in Leaves} = stored \cup beingStored
      BY DEF ElasticInv, Tree
    <3>5. stored = {}
      BY <3>2, <3>3, <3>4
    <3>6. stats.itemcount = 0
      BY <3>1, <3>5, FS_EmptySet DEF Counted
    <3>7. QED
      BY <1>1, <3>6
  <2>3. CASE root # Null
    BY <1>2, <2>3 DEF Begin
  <2>4. QED
    BY <2>2, <2>3
<1>3. CASE Descend \/ KeepLeaf \/ StoreRoom
  <2>1. stats' = stats
    BY <1>3 DEF Descend, KeepLeaf, StoreRoom
  <2>2. QED
    BY <1>1, <2>1
<1>4. CASE TransferLeaf \/ CompressSibling \/ StoreExtend
  BY <1>4, TransferLeafInv, CompressSiblingInv, StoreExtendInv
<1>5. CASE StoreSplit
  BY <1>5, StoreSplitInv
<1>6. CASE LinkChild \/ SplitInner
  <2>1. stats'.ofType = stats.ofType
    BY <1>6, LinkChildInv, SplitInnerInv
  <2>2. QED
    BY <1>1, <2>1
<1>7. CASE Finish
  <2>1. stats'.ofType = stats.ofType
    BY <1>7, FinishEnds DEF Ended
  <2>2. QED
    BY <1>1, <2>1
<1>8. QED
  BY <1>1, <1>2, <1>3, <1>4, <1>5, <1>6, <1>7 DEF Next, Step

\* Once the tree has begun to compress, no step of insert, in whatever status,
\* makes the plain leaves more again.
THEOREM PlainLeavesNeverGrow == Spec => PlainLeavesShrink
<1>1. ElasticInv /\ [Next]_vars =>
        [(stats.itemcount > ShouldLimit) =>
           stats'.ofType[0] <= stats.ofType[0]]_vars
  <2>1. ASSUME ElasticInv, Next
        PROVE  (stats.itemcount > ShouldLimit) =>
                 stats'.ofType[0] <= stats.ofType[0]
    BY <2>1, PlainStep
  <2>2. QED
    BY <2>1
<1>2. QED
  BY <1>1, StaysTree, PTL DEF Spec, PlainLeavesShrink

\* Between two calls the leaves hold the keys that were inserted and no others,
\* whatever was split, transferred or extended.
THEOREM LeavesHoldStored ==
  Spec => [](Quiet => UNION {heap[n].items : n \in Leaves} = stored)
<1>1. ElasticInv =>
        (Quiet => UNION {heap[n].items : n \in Leaves} = stored)
  BY DEF ElasticInv, Tree, Quiet, beingStored
<1>2. QED
  BY <1>1, StaysTree, PTL

-----------------------------------------------------------------------------
(* Separators and the keys they part *)

\* The slot that find_lower counts is the one whose keys k is among.
LEMMA SlotOfKey ==
  ASSUME NEW K \in Seq(Keys), Ascending(K), NEW k \in Keys, NEW s,
         s = Cardinality({i \in 1 .. Len(K) : K[i] < k})
  PROVE  /\ s \in 0 .. Len(K)
         /\ \A S \in SUBSET Keys : k \in S => k \in between(K, s + 1, S)
<1>1. Len(K) \in Nat /\ k \in Nat /\ \A i \in 1 .. Len(K) : K[i] \in Nat
  <2>1. \A i \in 1 .. Len(K) : K[i] \in Keys
    BY SeqElement
  <2>2. Len(K) \in Nat
    OBVIOUS
  <2>3. QED
    BY <2>1, <2>2, ElasticAssumption
<1>2. PICK c, T : c = Len(K) /\ T = {i \in 1 .. Len(K) : K[i] < k}
  OBVIOUS
<1>3. \A i \in T : \A j \in 1 .. i : j \in T
  <2>1. SUFFICES ASSUME NEW i \in T, NEW j \in 1 .. i, j # i PROVE j \in T
    OBVIOUS
  <2>2. i \in 1 .. Len(K) /\ j \in 1 .. Len(K) /\ j < i /\ K[i] < k
    BY <1>1, <1>2, <2>1
  <2>3. K[j] < K[i] /\ K[i] \in Nat /\ K[j] \in Nat
    <3>1. K[j] < K[i]
      BY <2>2 DEF Ascending
    <3>2. QED
      BY <1>1, <2>2, <3>1
  <2>4. QED
    BY <1>1, <1>2, <2>2, <2>3
<1>4. s \in 0 .. c /\ T = 1 .. s
  <2>1. c \in Nat /\ T \in SUBSET (1 .. c) /\ s = Cardinality(T)
    BY <1>1, <1>2
  <2>2. QED
    BY <1>3, <2>1, InitialIndexes
<1>5. \A i \in 1 .. c : K[i] < k <=> i <= s
  BY <1>1, <1>2, <1>4
<1>6. ASSUME NEW S \in SUBSET Keys, k \in S PROVE k \in between(K, s + 1, S)
  <2>1. s + 1 > 1 => K[s] < k
    BY <1>1, <1>2, <1>4, <1>5
  <2>2. s + 1 <= c => ~(K[s + 1] < k) /\ K[s + 1] \in Nat
    BY <1>1, <1>2, <1>4, <1>5
  <2>3. PICK i : i = s + 1
    OBVIOUS
  <2>4. /\ i - 1 = s
        /\ i > 1 => K[i - 1] < k
        /\ i <= Len(K) => k <= K[i]
    BY <1>1, <1>2, <1>4, <2>1, <2>2, <2>3
  <2>5. k \in between(K, i, S)
    BY <1>6, <2>4 DEF between
  <2>6. QED
    BY <2>3, <2>5
<1>7. QED
  BY <1>2, <1>4, <1>6

\* The keys and children of a node with a child v, behind its child e, that
\* takes those of the keys led to e that are above q.
LEMMA EnterParts ==
  ASSUME NEW S \in SUBSET Keys, NEW J \in Seq(Keys), NEW D, NEW K, NEW C,
         Len(D) = Len(J) + 1, NEW s \in 0 .. Len(J), NEW own, NEW led,
         Part(J, D, S, led), NEW q, NEW v,
         Inserted(K, J, s + 1, q), Inserted(C, D, s + 2, v),
         q \in led[D[s + 1]], own[v] # {},
         own[D[s + 1]] = {k \in led[D[s + 1]] : k <= q},
         own[v] = {k \in led[D[s + 1]] : k > q},
         \A i \in 1 .. Len(D) : i # s + 1 => own[D[i]] = led[D[i]]
  PROVE  Part(K, C, S, own)
<1>1. /\ Len(J) \in Nat /\ \A k \in S : k \in Nat
      /\ \A i \in 1 .. Len(J) : J[i] \in S /\ J[i] \in Nat
      /\ Ascending(J)
  <2>1. \A k \in S : k \in Nat
    BY ElasticAssumption
  <2>2. Ascending(J) /\ \A i \in 1 .. Len(J) : J[i] \in S
    BY DEF Part
  <2>3. Len(J) \in Nat
    OBVIOUS
  <2>4. QED
    BY <2>1, <2>2, <2>3
<1>2. PICK c : c = Len(J)
  OBVIOUS
<1>3. PICK M : M = led[D[s + 1]]
  OBVIOUS
<1>4. /\ s + 1 \in 1 .. Len(D) /\ M = between(J, s + 1, S) /\ q \in M
  BY <1>1, <1>3 DEF Part
<1>5. M = {k \in S : /\ s + 1 > 1 => J[s] < k
                     /\ s + 1 <= c => k <= J[s + 1]}
  <2>1. s + 1 - 1 = s
    OBVIOUS
  <2>2. QED
    BY <1>2, <1>4, <2>1 DEF between
<1>6. /\ q \in S /\ q \in Nat /\ s \in Nat /\ c \in Nat /\ s <= c
      /\ s > 0 => J[s] < q
      /\ s < c => q < J[s + 1]
  <2>1. q \in S /\ q \in Nat /\ s \in Nat /\ c \in Nat /\ s <= c
    BY <1>1, <1>2, <1>4, <1>5
  <2>2. PICK k \in M : k > q
    BY <1>3
  <2>3. s < c => k <= J[s + 1] /\ J[s + 1] \in Nat /\ k \in Nat
    BY <1>1, <1>2, <1>5, <2>1
  <2>4. s > 0 => J[s] < q
    BY <1>4, <1>5, <2>1
  <2>5. QED
    BY <2>1, <2>2, <2>3, <2>4
<1>7. /\ Len(K) = c + 1 /\ Len(C) = c + 2
      /\ \A j \in 1 .. c + 1 :
           K[j] = IF j < s + 1 THEN J[j] ELSE IF j = s + 1 THEN q ELSE J[j - 1]
      /\ \A j \in 1 .. c + 2 :
           C[j] = IF j < s + 2 THEN D[j] ELSE IF j = s + 2 THEN v ELSE D[j - 1]
  BY <1>1, <1>2 DEF Inserted
<1>8. ASSUME NEW i \in 1 .. c + 1
      PROVE  /\ K[i] \in S /\ K[i] \in Nat
             /\ i <= s => i \in 1 .. c /\ K[i] = J[i]
             /\ i = s + 1 => K[i] = q
             /\ i > s + 1 => i - 1 \in 1 .. c /\ K[i] = J[i - 1]
  BY <1>1, <1>2, <1>6, <1>7
<1>9. Ascending(K)
  <2>1. SUFFICES ASSUME NEW i \in 1 .. c + 1, NEW j \in 1 .. c + 1, i < j
                 PROVE  K[i] < K[j]
    BY <1>7 DEF Ascending
  <2>2. \A x, y \in 1 .. c : x < y => J[x] < J[y]
    BY <1>1, <1>2 DEF Ascending
  <2>3. \A x \in 1 .. c : J[x] \in Nat
    BY <1>1, <1>2
  <2>4. \A x \in 1 .. c : x <= s => J[x] < q
    <3>1. SUFFICES ASSUME NEW x \in 1 .. c, x < s PROVE J[x] < q
      BY <1>6
    <3>2. s \in 1 .. c /\ J[x] < J[s] /\ J[s] < q
      BY <1>6, <2>2, <3>1
    <3>3. QED
      BY <1>6, <2>3, <3>2
  <2>5. \A x \in 1 .. c : x >= s + 1 => q < J[x]
    <3>1. SUFFICES ASSUME NEW x \in 1 .. c, x > s + 1 PROVE q < J[x]
      BY <1>6
    <3>2. s + 1 \in 1 .. c /\ J[s + 1] < J[x] /\ q < J[s + 1]
      BY <1>6, <2>2, <3>1
    <3>3. QED
      BY <1>6, <2>3, <3>2
  <2>6. CASE i <= s /\ j <= s
    BY <1>8, <2>1, <2>2, <2>6
  <2>7. CASE i <= s /\ j = s + 1
    BY <1>8, <2>1, <2>4, <2>7
  <2>8. CASE i <= s /\ j > s + 1
    <3>1. i \in 1 .. c /\ j - 1 \in 1 .. c /\ i < j - 1
      BY <1>6, <2>8
    <3>2. J[i] < J[j - 1]
      BY <2>2, <3>1
    <3>3. QED
      BY <1>8, <2>8, <3>2
  <2>9. CASE i = s + 1
    <3>1. j > s + 1 /\ j - 1 \in 1 .. c /\ j - 1 >= s + 1
      BY <1>6, <2>1, <2>9
    <3>2. q < J[j - 1]
      BY <2>5, <3>1
    <3>3. QED
      BY <1>8, <2>9, <3>1, <3>2
  <2>10. CASE i > s + 1
    <3>1. /\ i - 1 \in 1 .. c /\ j - 1 \in 1 .. c /\ i - 1 < j - 1
          /\ j > s + 1
      BY <1>6, <2>1, <2>10
    <3>2. J[i - 1] < J[j - 1]
      BY <2>2, <3>1
    <3>3. QED
      BY <1>8, <2>10, <3>1, <3>2
  <2>11. QED
    BY <1>6, <2>6, <2>7, <2>8, <2>9, <2>10
<1>10. ASSUME NEW i \in 1 .. c + 2
       PROVE  own[C[i]] = between(K, i, S)
  <2>1. between(K, i, S) = {k \in S : /\ i > 1 => K[i - 1] < k
                                      /\ i <= c + 1 => k <= K[i]}
    BY <1>7 DEF between
  <2>2. \A j \in 1 .. c + 1 : j # s + 1 =>
          own[D[j]] = {k \in S : /\ j > 1 => J[j - 1] < k
                                 /\ j <= c => k <= J[j]}
    BY <1>2 DEF Part, between
  <2>3. CASE i <= s
    <3>1. /\ C[i] = D[i] /\ K[i] = J[i] /\ i # s + 1 /\ i \in 1 .. c + 1
          /\ i <= c + 1 /\ i <= c
      BY <1>6, <1>7, <2>3
    <3>2. i > 1 => K[i - 1] = J[i - 1]
      BY <1>6, <1>7, <2>3
    <3>3. own[D[i]] = {k \in S : /\ i > 1 => J[i - 1] < k
                                 /\ i <= c => k <= J[i]}
      BY <2>2, <3>1
    <3>4. QED
      BY <2>1, <3>1, <3>2, <3>3
  <2>4. CASE i = s + 1
    <3>1. C[i] = D[s + 1] /\ K[i] = q /\ i <= c + 1
      BY <1>6, <1>7, <2>4
    <3>2. i > 1 => K[i - 1] = J[s]
      <4>1. i > 1 => i - 1 = s /\ s \in 1 .. c + 1 /\ s < s + 1
        BY <1>6, <2>4
      <4>2. QED
        BY <1>7, <4>1
    <3>3. own[C[i]] = {k \in M : k <= q}
      BY <1>3, <3>1
    <3>4. \A k \in S : k <= q => (s + 1 <= c => k <= J[s + 1])
      BY <1>1, <1>2, <1>6
    <3>5. \A k \in S : k \in M <=> /\ s + 1 > 1 => J[s] < k
                                   /\ s + 1 <= c => k <= J[s + 1]
      BY <1>5
    <3>6. QED
      BY <1>5, <2>1, <2>4, <3>1, <3>2, <3>3, <3>4, <3>5
  <2>5. CASE i = s + 2
    <3>1. C[i] = v /\ i > 1
      BY <1>6, <1>7, <2>5
    <3>2. K[i - 1] = q
      <4>1. i - 1 = s + 1 /\ s + 1 \in 1 .. c + 1
        BY <1>6, <2>5
      <4>2. QED
        BY <1>7, <4>1
    <3>3. i <= c + 1 => K[i] = J[s + 1] /\ s + 1 <= c
      <4>1. i <= c + 1 => /\ i \in 1 .. c + 1 /\ ~(i < s + 1) /\ i # s + 1
                          /\ i - 1 = s + 1 /\ s + 1 <= c
        BY <1>6, <2>5
      <4>2. QED
        BY <1>7, <4>1
    <3>4. s + 1 <= c => i <= c + 1
      BY <1>6, <2>5
    <3>5. own[C[i]] = {k \in M : k > q}
      BY <1>3, <3>1
    <3>6. \A k \in S : k > q => (s + 1 > 1 => J[s] < k)
      BY <1>1, <1>2, <1>6
    <3>7. \A k \in S : k \in M <=> /\ s + 1 > 1 => J[s] < k
                                   /\ s + 1 <= c => k <= J[s + 1]
      BY <1>5
    <3>8. \A k \in S : k > q <=> q < k
      BY <1>1, <1>6
    <3>9. QED
      BY <1>5, <2>1, <3>1, <3>2, <3>3, <3>4, <3>5, <3>6, <3>7, <3>8
  <2>6. CASE i > s + 2
    <3>1. PICK m : m = i - 1
      OBVIOUS
    <3>2. /\ m \in 1 .. c + 1 /\ m # s + 1 /\ m > s + 1 /\ m > 1 /\ i > 1
          /\ i = m + 1 /\ m - 1 \in 1 .. c
      BY <1>6, <2>6, <3>1
    <3>3. C[i] = D[m]
      BY <1>7, <2>6, <3>1, <3>2
    <3>4. K[m] = J[m - 1]
      BY <1>8, <3>2
    <3>5. i <= c + 1 => K[i] = J[m] /\ m <= c
      <4>1. i <= c + 1 => i \in 1 .. c + 1 /\ i > s + 1
        BY <3>2
      <4>2. QED
        BY <1>8, <3>1, <3>2, <4>1
    <3>6. m <= c => i <= c + 1
      BY <1>6, <3>2
    <3>7. own[D[m]] = {k \in S : /\ m > 1 => J[m - 1] < k
                                 /\ m <= c => k <= J[m]}
      BY <2>2, <3>2
    <3>8. QED
      BY <2>1, <3>1, <3>2, <3>3, <3>4, <3>5, <3>6, <3>7
  <2>7. QED
    BY <1>6, <2>3, <2>4, <2>5, <2>6
<1>11. QED
  BY <1>7, <1>8, <1>9, <1>10 DEF Part

\* Two nodes part the keys of S, q and below at one of them.
PartsDivided(S, q, LK, LC, RK, RC, own) ==
  /\ q \in S /\ {k \in S : k > q} # {}
  /\ Part(LK, LC, {k \in S : k <= q}, own)
  /\ Part(RK, RC, {k \in S : k > q}, own)

\* The keys and children of a node that is divided.
LEMMA DivideParts ==
  ASSUME NEW S \in SUBSET Keys, NEW own, NEW c \in Nat,
         NEW K, NEW C, Len(K) = c + 1, Len(C) = c + 2,
         Part(K, C, S, own), NEW a, NEW q,
         NEW LK, NEW LC, NEW RK, NEW RC,
         Divided(c, a, C, LK, LC, RK, RC), DividedKeys(c, a, K, LK, RK, q)
  PROVE  PartsDivided(S, q, LK, LC, RK, RC, own)
<1>1. /\ \A k \in S : k \in Nat
      /\ \A i \in 1 .. c + 1 : K[i] \in S
      /\ \A i, j \in 1 .. c + 1 : i < j => K[i] < K[j]
      /\ \A i \in 1 .. c + 2 : own[C[i]] =
           {k \in S : /\ i > 1 => K[i - 1] < k
                      /\ i <= c + 1 => k <= K[i]}
  BY ElasticAssumption DEF Part, Ascending, between
<1>2. /\ a \in 1 .. c - 1 /\ a \in Nat
      /\ Len(LK) = a /\ Len(RK) = c - a
      /\ Len(LC) = a + 1 /\ Len(RC) = c - a + 1
      /\ \A i \in 1 .. a + 1 : LC[i] = C[i]
      /\ \A i \in 1 .. c - a + 1 : RC[i] = C[a + 1 + i]
      /\ \A i \in 1 .. a : LK[i] = K[i]
      /\ \A i \in 1 .. c - a : RK[i] = K[a + 1 + i]
      /\ q = K[a + 1]
  BY DEF Divided, DividedKeys
<1>3. /\ q \in S /\ q \in Nat
      /\ \A i \in 1 .. c + 1 : /\ K[i] \in Nat
                               /\ i <= a => K[i] < q
                               /\ i > a + 1 => K[i] > q
  <2>1. a + 1 \in 1 .. c + 1 /\ q \in S /\ q \in Nat
    BY <1>1, <1>2
  <2>2. ASSUME NEW i \in 1 .. c + 1
        PROVE  /\ K[i] \in Nat
               /\ i <= a => K[i] < q
               /\ i > a + 1 => K[i] > q
    <3>1. K[i] \in Nat
      BY <1>1
    <3>2. i <= a => i < a + 1
      BY <1>2
    <3>3. i <= a => K[i] < K[a + 1]
      BY <1>1, <2>1, <3>2
    <3>4. i > a + 1 => K[a + 1] < K[i]
      BY <1>1, <1>2, <2>1
    <3>5. QED
      BY <1>2, <2>1, <3>1, <3>3, <3>4
  <2>3. QED
    BY <2>1, <2>2
<1>4. {k \in S : k > q} # {}
  <2>1. a + 2 \in 1 .. c + 1 /\ a + 2 > a + 1
    BY <1>2
  <2>2. K[a + 2] \in S /\ K[a + 2] > q
    BY <1>1, <1>3, <2>1
  <2>3. QED
    BY <2>2
<1>5. Part(LK, LC, {k \in S : k <= q}, own)
  <2>1. Ascending(LK)
    BY <1>1, <1>2 DEF Ascending
  <2>2. \A i \in 1 .. a : LK[i] \in S /\ LK[i] <= q
    <3>1. \A i \in 1 .. a : i \in 1 .. c + 1 /\ i <= a
      BY <1>2
    <3>2. \A i \in 1 .. a : K[i] \in S /\ K[i] <= q
      BY <1>1, <1>3, <3>1
    <3>3. QED
      BY <1>2, <3>2
  <2>3. ASSUME NEW i \in 1 .. a + 1
        PROVE  own[LC[i]] = between(LK, i, {k \in S : k <= q})
    <3>1. /\ i \in 1 .. c + 2 /\ i <= c + 1 /\ LC[i] = C[i]
      BY <1>2
    <3>2. own[LC[i]] = {k \in S : /\ i > 1 => K[i - 1] < k
                                  /\ k <= K[i]}
      BY <1>1, <3>1
    <3>3. i > 1 => LK[i - 1] = K[i - 1]
      BY <1>2
    <3>4. i <= a => LK[i] = K[i] /\ K[i] < q /\ K[i] \in Nat
      BY <1>2, <1>3
    <3>5. ~(i <= a) => K[i] = q
      BY <1>2
    <3>6. \A k \in S : k <= K[i] <=> k <= q /\ (i <= a => k <= LK[i])
      BY <1>1, <1>3, <3>4, <3>5
    <3>7. between(LK, i, {k \in S : k <= q})
            = {k \in {j \in S : j <= q} : /\ i > 1 => LK[i - 1] < k
                                          /\ i <= a => k <= LK[i]}
      BY <1>2 DEF between
    <3>8. QED
      BY <3>2, <3>3, <3>6, <3>7
  <2>4. QED
    BY <1>2, <2>1, <2>2, <2>3 DEF Part
<1>6. Part(RK, RC, {k \in S : k > q}, own)
  <2>1. \A i \in 1 .. c - a : a + 1 + i \in 1 .. c + 1 /\ a + 1 + i > a + 1
    BY <1>2
  <2>2. Ascending(RK)
    <3>1. SUFFICES ASSUME NEW i \in 1 .. c - a, NEW j \in 1 .. c - a, i < j
                   PROVE  RK[i] < RK[j]
      BY <1>2 DEF Ascending
    <3>2. a + 1 + i < a + 1 + j
      BY <1>2, <3>1
    <3>3. K[a + 1 + i] < K[a + 1 + j]
      BY <1>1, <2>1, <3>2
    <3>4. QED
      BY <1>2, <3>3
  <2>3. \A i \in 1 .. c - a : RK[i] \in S /\ RK[i] > q
    <3>1. \A i \in 1 .. c - a : K[a + 1 + i] \in S /\ K[a + 1 + i] > q
      BY <1>1, <1>3, <2>1
    <3>2. QED
      BY <1>2, <3>1
  <2>4. ASSUME NEW i \in 1 .. c - a + 1
        PROVE  own[RC[i]] = between(RK, i, {k \in S : k > q})
    <3>1. PICK m : m = a + 1 + i
      OBVIOUS
    <3>2. /\ m \in 1 .. c + 2 /\ m > 1 /\ RC[i] = C[m] /\ i \in Nat
          /\ m <= c + 1 <=> i <= c - a
          /\ m - 1 = a + i
      BY <1>2, <3>1
    <3>3. own[RC[i]] = {k \in S : /\ K[m - 1] < k
                                  /\ m <= c + 1 => k <= K[m]}
      BY <1>1, <3>2
    <3>4. i <= c - a => RK[i] = K[m]
      BY <1>2, <3>1
    <3>5. i > 1 => /\ RK[i - 1] = K[m - 1] /\ K[m - 1] > q
                   /\ K[m - 1] \in Nat
      <4>1. i > 1 => /\ i - 1 \in 1 .. c - a /\ a + 1 + (i - 1) = m - 1
                     /\ m - 1 \in 1 .. c + 1 /\ m - 1 > a + 1
        BY <1>2, <3>1
      <4>2. i > 1 => RK[i - 1] = K[a + 1 + (i - 1)]
        BY <1>2, <4>1
      <4>3. QED
        BY <1>3, <4>1, <4>2
    <3>6. ~(i > 1) => K[m - 1] = q
      <4>1. ~(i > 1) => m - 1 = a + 1
        BY <1>2, <3>1
      <4>2. QED
        BY <1>2, <4>1
    <3>7. \A k \in S : K[m - 1] < k <=> k > q /\ (i > 1 => RK[i - 1] < k)
      BY <1>1, <1>3, <3>5, <3>6
    <3>8. between(RK, i, {k \in S : k > q})
            = {k \in {j \in S : j > q} : /\ i > 1 => RK[i - 1] < k
                                         /\ i <= c - a => k <= RK[i]}
      BY <1>2 DEF between
    <3>9. QED
      BY <3>2, <3>3, <3>4, <3>7, <3>8
  <2>5. QED
    BY <1>2, <2>2, <2>3, <2>4 DEF Part
<1>7. QED
  BY <1>3, <1>4, <1>5, <1>6 DEF PartsDivided

-----------------------------------------------------------------------------
(* Steps that move no node *)

\* The facts of ElasticInv that the steps use.
LEMMA OrderFacts ==
  ASSUME ElasticInv
  PROVE  /\ TypeOK /\ LinkedOnce /\ ListLinked /\ PathLeadsDown
         /\ \A n \in Inner : InnerFilled(n)
         /\ \A n \in Inner : /\ heap[n].slotkey \in Seq(Keys)
                             /\ heap[n].childid \in Seq(Allocated)
                             /\ Len(heap[n].childid) = Len(heap[n].slotkey) + 1
         /\ pc \in {"idle", "descend", "store"} => newchild = Null
         /\ pc # "idle" => root \in Allocated /\ key \in Keys
         /\ newchild # Null => newchild \in Allocated
         /\ root \in Allocated \cup {Null}
         /\ Keys \in SUBSET Nat /\ Null \notin Allocated
<1>1. /\ TypeOK /\ LinkedOnce /\ ListLinked /\ PathLeadsDown
      /\ \A n \in Inner : InnerFilled(n)
  BY DEF ElasticInv, Tree, CallUnderWay
<1>2. ASSUME NEW n \in Inner
      PROVE  /\ heap[n].slotkey \in Seq(Keys)
             /\ heap[n].childid \in Seq(Allocated)
             /\ Len(heap[n].childid) = Len(heap[n].slotkey) + 1
  <2>1. heap[n] \in InnerNodes
    BY <1>1, NodeKinds
  <2>2. heap[n].slotkey \in Seq(Keys)
    BY <2>1, InnerFields
  <2>3. QED
    BY <1>1, <2>2 DEF TypeOK, InnerFilled
<1>3. pc \in {"idle", "descend", "store"} => newchild = Null
  BY DEF ElasticInv, CallUnderWay
<1>4. /\ pc # "idle" => root \in Allocated /\ key \in Keys
      /\ root \in Allocated \cup {Null}
  BY <1>1 DEF ElasticInv, CallUnderWay, TypeOK
<1>5. newchild # Null => newchild \in Allocated
  BY <1>1 DEF TypeOK
<1>6. Keys \in SUBSET Nat /\ Null \notin Allocated
  BY <1>1, ElasticAssumption DEF TypeOK
<1>7. QED
  BY <1>1, <1>2, <1>3, <1>4, <1>5, <1>6

\* All keys are where they were but for one that entered a leaf of its own.
SameOwned(own) ==
  /\ Allocated' = Allocated /\ Leaves' = Leaves /\ Inner' = Inner
  /\ root' = root /\ newchild = Null /\ newchild' = Null
  /\ \A n \in Inner : /\ heap'[n].slotkey = heap[n].slotkey
                      /\ heap'[n].childid = heap[n].childid
  /\ \A n \in Leaves : /\ heap'[n].nextleaf = heap[n].nextleaf
                       /\ heap'[n].items \subseteq own[n]

\* The keys are still in order then.
LEMMA SameKeys ==
  ASSUME NEW own \in [Allocated -> SUBSET Keys],
         NEW led \in [Allocated -> SUBSET Keys],
         Placed(own, led), SameOwned(own),
         pc' \in {"descend", "store"} => key' \in own[cur']
  PROVE  Ordered'
<1>1. LeavesInOrder(own)'
  BY DEF Placed, LeavesInOrder, SameOwned
<1>2. Placed(own, led)'
  BY <1>1 DEF Placed, SameOwned
<1>3. /\ own \in [Allocated' -> SUBSET Keys]
      /\ led \in [Allocated' -> SUBSET Keys]
  BY DEF SameOwned
<1>4. QED
  BY <1>2, <1>3 DEF Ordered

\* The heap is what it was, but for marks.
LEMMA SameNodesOwned ==
  ASSUME SameNodes, root' = root, newchild = Null, newchild' = Null,
         NEW own, NEW led, Placed(own, led)
  PROVE  SameOwned(own)
  BY DEF Placed, LeavesInOrder, SameNodes, SameOwned

\* A call begins at the root, to which all keys are led.
LEMMA BeginOrder ==
  ASSUME OrderInv, NEW k \in Keys, Begin(k), root # Null
  PROVE  Ordered'
<1>1. /\ ElasticInv /\ pc = "idle" /\ newchild = Null /\ newchild' = Null
      /\ root' = root /\ heap' = heap /\ key' = k /\ cur' = root
  BY OrderFacts DEF OrderInv, Begin, tree
<1>2. PICK own \in [Allocated -> SUBSET Keys] :
        \E led \in [Allocated -> SUBSET Keys] : Placed(own, led)
  BY DEF OrderInv, Ordered
<1>3. PICK led \in [Allocated -> SUBSET Keys] : Placed(own, led)
  BY <1>2
<1>4. SameOwned(own)
  BY <1>1, <1>3, OrderFacts, HeapKept, SameNodesOwned
<1>5. root \in Allocated /\ own[root] = Keys
  BY <1>1, <1>3, OrderFacts DEF Placed
<1>6. QED
  BY <1>1, <1>2, <1>3, <1>4, <1>5, SameKeys

\* A call goes down where the separators lead its key.
LEMMA DescendOrder ==
  ASSUME OrderInv, Descend
  PROVE  Ordered'
<1>1. /\ ElasticInv /\ pc = "descend" /\ newchild = Null /\ newchild' = Null
      /\ root' = root /\ heap' = heap /\ key' = key /\ pc' = pc
      /\ ~isleafnode(cur)
      /\ cur' = heap[cur].childid[find_lower(cur, key) + 1]
  BY OrderFacts DEF OrderInv, Descend, tree, split
<1>2. PICK own \in [Allocated -> SUBSET Keys] :
        \E led \in [Allocated -> SUBSET Keys] : Placed(own, led)
  BY DEF OrderInv, Ordered
<1>3. PICK led \in [Allocated -> SUBSET Keys] : Placed(own, led)
  BY <1>2
<1>4. SameOwned(own)
  BY <1>1, <1>3, OrderFacts, HeapKept, SameNodesOwned
<1>5. cur \in Inner /\ key \in Keys /\ key \in own[cur]
  <2>1. cur \in Allocated
    BY <1>1 DEF ElasticInv, CallUnderWay
  <2>2. cur \in Inner
    BY <1>1, <2>1 DEF Inner, Leaves, isleafnode
  <2>3. QED
    BY <1>1, <1>3, <2>2, OrderFacts DEF Placed
<1>6. PICK K, C : K = heap[cur].slotkey /\ C = heap[cur].childid
  OBVIOUS
<1>7. /\ K \in Seq(Keys) /\ C \in Seq(Allocated) /\ Len(C) = Len(K) + 1
      /\ Part(K, C, own[cur], led)
  BY <1>1, <1>3, <1>5, <1>6, OrderFacts DEF Placed
<1>8. PICK s : s = find_lower(cur, key)
  OBVIOUS
<1>9. s = Cardinality({i \in 1 .. Len(K) : K[i] < key}) /\ cur' = C[s + 1]
  BY <1>1, <1>6, <1>8 DEF find_lower
<1>10. cur \in Allocated /\ own[cur] \in SUBSET Keys
  BY <1>2, <1>5 DEF Inner
<1>11. s \in 0 .. Len(K) /\ key \in between(K, s + 1, own[cur])
  BY <1>5, <1>7, <1>9, <1>10, SlotOfKey DEF Part
<1>12. Len(K) \in Nat /\ s + 1 \in 1 .. Len(C)
  BY <1>7, <1>11
<1>13. key \in led[cur'] /\ cur' \in Allocated
  BY <1>7, <1>9, <1>11, <1>12, SeqElement DEF Part
<1>14. key' \in own[cur']
  BY <1>1, <1>3, <1>13, OrderFacts DEF Placed
<1>15. QED
  BY <1>2, <1>3, <1>4, <1>14, SameKeys

\* A call stays at its leaf, or marks its parent.
LEMMA KeepLeafOrder ==
  ASSUME OrderInv, SameNodes, pc = "descend", newchild' = newchild,
         root' = root, key' = key, cur' = cur
  PROVE  Ordered'
<1>1. ElasticInv /\ newchild = Null
  BY OrderFacts DEF OrderInv
<1>2. PICK own \in [Allocated -> SUBSET Keys] :
        \E led \in [Allocated -> SUBSET Keys] : Placed(own, led)
  BY DEF OrderInv, Ordered
<1>3. PICK led \in [Allocated -> SUBSET Keys] : Placed(own, led)
  BY <1>2
<1>4. SameOwned(own)
  BY <1>1, <1>3, SameNodesOwned
<1>5. key' \in own[cur']
  BY <1>3 DEF Placed
<1>6. QED
  BY <1>2, <1>3, <1>4, <1>5, SameKeys

\* A key enters the leaf that owns it.
LEMMA StoreRoomOrder ==
  ASSUME OrderInv, StoreRoom
  PROVE  Ordered'
<1>1. /\ ElasticInv /\ pc = "store" /\ newchild = Null /\ newchild' = Null
      /\ root' = root /\ pc' = "unwind"
      /\ heap' = [heap EXCEPT ![cur] = with(@, key)]
  BY OrderFacts DEF OrderInv, StoreRoom, split
<1>2. PICK own \in [Allocated -> SUBSET Keys] :
        \E led \in [Allocated -> SUBSET Keys] : Placed(own, led)
  BY DEF OrderInv, Ordered
<1>3. PICK led \in [Allocated -> SUBSET Keys] : Placed(own, led)
  BY <1>2
<1>4. /\ cur \in Leaves /\ cur \in Allocated /\ TypeOK /\ key \in own[cur]
      /\ heap[cur] \in LeafNodes /\ \A m \in Inner : m \in Allocated /\ m # cur
      /\ \A m \in Leaves : m \in Allocated
      /\ heap = [m \in Allocated |-> heap[m]]
  BY <1>1, <1>3, OrderFacts, NodeKinds
     DEF ElasticInv, CallUnderWay, Placed, TypeOK
<1>5. PICK t, S, u, p, x :
        /\ t = heap[cur].blindileaftype /\ S = heap[cur].items
        /\ u = heap[cur].slotuse /\ p = heap[cur].prevleaf
        /\ x = heap[cur].nextleaf
  OBVIOUS
<1>6. PICK new : new = Leaf(t, S \cup {key}, u + 1, p, x)
  OBVIOUS
<1>7. heap' = [heap EXCEPT ![cur] = new]
  <2>1. heap[cur] = Leaf(t, S, u, p, x)
    BY <1>4, <1>5, LeafFields
  <2>2. with(heap[cur], key) = new
    BY <1>6, <2>1, LeafWith
  <2>3. QED
    BY <1>1, <2>2
<1>8. /\ new.level = 0 /\ new.items = S \cup {key} /\ new.nextleaf = x
  BY <1>6, GivenFields
<1>9. /\ Allocated' = Allocated
      /\ \A m \in Allocated : heap'[m] = IF m = cur THEN new ELSE heap[m]
  BY <1>4, <1>7 DEF Allocated
<1>10. Leaves' = Leaves /\ Inner' = Inner
  <2>1. Leaves' = {m \in Allocated' : heap'[m].level = 0}
    BY DEF Leaves
  <2>2. Leaves' = Leaves
    BY <1>4, <1>8, <1>9, <2>1 DEF Leaves
  <2>3. QED
    BY <1>9, <2>2 DEF Inner
<1>11. SameOwned(own)
  <2>1. \A n \in Leaves : heap[n].items \subseteq own[n]
    BY <1>3 DEF Placed, LeavesInOrder
  <2>2. ASSUME NEW n \in Leaves
        PROVE  /\ heap'[n].nextleaf = heap[n].nextleaf
               /\ heap'[n].items \subseteq own[n]
    BY <1>4, <1>5, <1>8, <1>9, <2>1
  <2>3. QED
    BY <1>1, <1>4, <1>9, <1>10, <2>2 DEF SameOwned
<1>12. QED
  BY <1>1, <1>2, <1>3, <1>11, SameKeys

\* A call that ends below its root moves nothing.
LEMMA FinishBelowOrder ==
  ASSUME OrderInv, Finish, newchild = Null
  PROVE  Ordered'
<1>1. /\ ElasticInv /\ newchild' = Null /\ root' = root /\ heap' = heap
      /\ pc' = "idle"
  BY DEF OrderInv, Finish
<1>2. PICK own \in [Allocated -> SUBSET Keys] :
        \E led \in [Allocated -> SUBSET Keys] : Placed(own, led)
  BY DEF OrderInv, Ordered
<1>3. PICK led \in [Allocated -> SUBSET Keys] : Placed(own, led)
  BY <1>2
<1>4. SameOwned(own)
  BY <1>1, <1>3, OrderFacts, HeapKept, SameNodesOwned
<1>5. QED
  BY <1>1, <1>2, <1>3, <1>4, SameKeys

\* The first call makes a leaf that owns all keys.
LEMMA FirstRootOrder ==
  ASSUME OrderInv, NEW k \in Keys, Begin(k), root = Null
  PROVE  Ordered'
<1>1. /\ ElasticInv /\ canAllocate /\ key' = k /\ newchild' = Null
      /\ root' = fresh /\ cur' = fresh
      /\ heap' = put(heap, fresh,
                     [level |-> 0, blindileaftype |-> 0, items |-> {},
                      slotuse |-> 0, prevleaf |-> Null, nextleaf |-> Null])
  BY DEF OrderInv, Begin
<1>2. PICK f, new : /\ f = fresh
                    /\ new = [level |-> 0, blindileaftype |-> 0, items |-> {},
                              slotuse |-> 0, prevleaf |-> Null,
                              nextleaf |-> Null]
  OBVIOUS
<1>3. new.level = 0 /\ new.items = {} /\ new.nextleaf = Null
  BY <1>2
<1>4. heap' = put(heap, f, new) /\ root' = f /\ cur' = f
  BY <1>1, <1>2
<1>5. Allocated = {}
  BY <1>1 DEF ElasticInv, Tree
<1>6. Allocated' = {f} /\ heap'[f] = new
  <2>1. DOMAIN heap = {}
    BY <1>5 DEF Allocated
  <2>2. QED
    BY <1>4, <2>1 DEF put, Allocated
<1>7. Leaves' = {f} /\ Inner' = {}
  <2>1. Leaves' = {m \in Allocated' : heap'[m].level = 0}
    BY DEF Leaves
  <2>2. Leaves' = {f}
    BY <1>3, <1>6, <2>1
  <2>3. QED
    BY <1>6, <2>2 DEF Inner
<1>8. PICK own : own = [m \in {f} |-> Keys]
  OBVIOUS
<1>9. own \in [Allocated' -> SUBSET Keys] /\ own[f] = Keys
  BY <1>6, <1>8
<1>10. LeavesInOrder(own)'
  BY <1>3, <1>6, <1>7, <1>9 DEF LeavesInOrder
<1>11. Placed(own, own)'
  BY <1>1, <1>4, <1>7, <1>9, <1>10 DEF Placed
<1>12. QED
  BY <1>9, <1>11 DEF Ordered

-----------------------------------------------------------------------------
(* A leaf is replaced or split *)

\* The new leaf owns what the old one did.
LEMMA ReplacedOrder ==
  ASSUME OrderInv, LeafReplaced
  PROVE  Ordered'
<1>1. PICK old \in Leaves :
        \E t, S, u : ReplacedFields(old, t, S, u) /\ ReplacingStep(old, t, S, u)
  BY DEF LeafReplaced
<1>2. PICK t, S, u : ReplacedFields(old, t, S, u) /\ ReplacingStep(old, t, S, u)
  BY <1>1
<1>3. /\ ElasticInv /\ pc \in {"descend", "store"} /\ newchild = Null
      /\ newchild' = Null /\ canAllocate /\ root' = root /\ key' = key
      /\ path # <<>> /\ cur' = Ren(old, cur) /\ cur \in Leaves
      /\ \/ pc' = "store" /\ S = heap[old].items
         \/ pc' = "unwind" /\ S = heap[old].items \cup {key} /\ old = cur
  BY <1>2, OrderFacts DEF OrderInv, LeafReplaced, ReplacingStep, split
<1>4. /\ TypeOK /\ PathLeadsDown /\ ListLinked
      /\ \A n \in Leaves : n \in Allocated
      /\ \A n \in Inner : n \in Allocated /\ n # old
      /\ \A n \in Inner : heap[n].childid \in Seq(Allocated)
  BY <1>1, <1>3, OrderFacts, NodeKinds
<1>5. RenNodes(old)
  BY <1>2, <1>3, <1>4, Renaming
<1>6. PICK own \in [Allocated -> SUBSET Keys] :
        \E led \in [Allocated -> SUBSET Keys] : Placed(own, led)
  BY DEF OrderInv, Ordered
<1>7. PICK led \in [Allocated -> SUBSET Keys] : Placed(own, led)
  BY <1>6
<1>8. PICK f : f = fresh
  OBVIOUS
<1>9. \A c : Ren(old, c) = IF c = old THEN f ELSE c
  BY <1>8 DEF Ren
<1>10. /\ Allocated' = (Allocated \ {old}) \cup {f} /\ f \notin Allocated
       /\ old \in Allocated
  BY <1>1, <1>2, <1>3, <1>4, <1>8, FreshNode DEF ReplacedFields
<1>11. PICK o : o = [m \in Allocated' |-> IF m = f THEN own[old] ELSE own[m]]
  OBVIOUS
<1>12. PICK d : d = [m \in Allocated' |-> IF m = f THEN led[old] ELSE led[m]]
  OBVIOUS
<1>13. o \in [Allocated' -> SUBSET Keys] /\ d \in [Allocated' -> SUBSET Keys]
  BY <1>6, <1>7, <1>10, <1>11, <1>12
<1>14. \A c \in Allocated : /\ Ren(old, c) \in Allocated'
                            /\ o[Ren(old, c)] = own[c]
                            /\ d[Ren(old, c)] = led[c]
  BY <1>9, <1>10, <1>11, <1>12
<1>15. \A m \in Allocated' : \E c \in Allocated : m = Ren(old, c)
  BY <1>9, <1>10
<1>16. \A c \in Allocated : c # old => Ren(old, c) = c
  BY <1>9
<1>17. root' # Null => d[root'] = Keys
  <2>1. root \in Inner
    BY <1>3, <1>4, RootInner
  <2>2. Ren(old, root) = root /\ root \in Allocated /\ root # Null
    BY <1>3, <1>4, <1>16, <2>1, OrderFacts
  <2>3. QED
    BY <1>3, <1>7, <1>14, <2>2 DEF Placed
<1>18. ASSUME NEW n \in Inner'
       PROVE  Part(heap'[n].slotkey, heap'[n].childid, o[n], d)
  <2>1. n \in Inner /\ n \in Allocated /\ n # old
    BY <1>2, <1>4 DEF ReplacedFields
  <2>2. o[n] = own[n]
    BY <1>14, <1>16, <2>1
  <2>3. PICK K, C, D : /\ K = heap[n].slotkey /\ C = heap[n].childid
                       /\ D = heap'[n].childid
    OBVIOUS
  <2>4. /\ heap'[n].slotkey = K /\ Len(D) = Len(C) /\ C \in Seq(Allocated)
        /\ \A i \in 1 .. Len(C) : D[i] = Ren(old, C[i])
    BY <1>2, <1>4, <2>1, <2>3 DEF ReplacedFields, Slots
  <2>5. \A i \in 1 .. Len(C) : C[i] \in Allocated
    BY <2>4, SeqElement
  <2>6. \A i \in 1 .. Len(C) : d[D[i]] = led[C[i]]
    BY <1>14, <2>4, <2>5
  <2>7. Part(K, C, own[n], led)
    BY <1>7, <2>1, <2>3 DEF Placed
  <2>8. QED
    BY <2>2, <2>3, <2>4, <2>6, <2>7 DEF Part
<1>19. \A m \in Allocated' : o[m] = d[m]
  <2>1. \A c \in Allocated : own[c] = led[c]
    BY <1>3, <1>7, OrderFacts DEF Placed
  <2>2. QED
    BY <1>14, <1>15, <2>1
<1>20. key \in own[cur]
  BY <1>3, <1>7 DEF Placed
<1>21. LeavesInOrder(o)'
  <2>1. Leaves' = (Leaves \ {old}) \cup {f}
    BY <1>2, <1>8 DEF ReplacedFields
  <2>2. \A m \in Leaves' : \E c \in Leaves : m = Ren(old, c)
    BY <1>1, <1>9, <2>1
  <2>3. ASSUME NEW c \in Leaves
        PROVE  /\ heap'[Ren(old, c)].items \subseteq own[c]
               /\ heap'[Ren(old, c)].nextleaf = Ren(old, heap[c].nextleaf)
    <3>1. heap[c].items \subseteq own[c]
      BY <1>7 DEF Placed, LeavesInOrder
    <3>2. CASE c = old
      <4>1. heap'[f] = Leaf(t, S, u, heap[old].prevleaf, heap[old].nextleaf)
        BY <1>2, <1>8 DEF ReplacedFields
      <4>2. heap'[f].items = S /\ heap'[f].nextleaf = heap[old].nextleaf
        BY <4>1, GivenFields
      <4>3. heap[old].nextleaf # old
        <5>1. CASE heap[old].nextleaf = Null
          BY <1>3, <1>10, <5>1, OrderFacts
        <5>2. CASE heap[old].nextleaf # Null
          BY <1>1, <1>4, <5>2 DEF ListLinked
        <5>3. QED
          BY <5>1, <5>2
      <4>4. QED
        BY <1>3, <1>9, <1>20, <3>1, <3>2, <4>2, <4>3
    <3>3. CASE c # old
      <4>1. /\ heap'[c].items = heap[c].items
            /\ heap'[c].nextleaf = Ren(old, heap[c].nextleaf)
        BY <1>2, <3>3 DEF ReplacedFields
      <4>2. QED
        BY <1>9, <3>1, <3>3, <4>1
    <3>4. QED
      BY <3>2, <3>3
  <2>4. \A n \in Leaves' : heap'[n].items \subseteq o[n]
    BY <1>4, <1>14, <2>2, <2>3
  <2>5. ASSUME NEW m \in Leaves', NEW n \in Leaves', m # n
        PROVE  o[m] \cap o[n] = {}
    <3>1. PICK a \in Leaves : m = Ren(old, a)
      BY <2>2
    <3>2. PICK b \in Leaves : n = Ren(old, b)
      BY <2>2
    <3>3. a # b /\ own[a] \cap own[b] = {}
      BY <1>7, <2>5, <3>1, <3>2 DEF Placed, LeavesInOrder
    <3>4. o[m] = own[a] /\ o[n] = own[b]
      BY <1>4, <1>14, <3>1, <3>2
    <3>5. QED
      BY <3>3, <3>4
  <2>6. ASSUME NEW n \in Leaves', heap'[n].nextleaf # Null
        PROVE  \A j \in o[n], k \in o[heap'[n].nextleaf] : j < k
    <3>1. PICK a \in Leaves : n = Ren(old, a)
      BY <2>2
    <3>2. PICK b : b = heap[a].nextleaf
      OBVIOUS
    <3>3. heap'[n].nextleaf = Ren(old, b)
      BY <2>3, <3>1, <3>2
    <3>4. b # Null
      <4>1. Null # old
        BY <1>3, <1>10, OrderFacts
      <4>2. Ren(old, Null) = Null
        BY <1>9, <4>1
      <4>3. QED
        BY <2>6, <3>3, <4>2
    <3>5. b \in Leaves
      BY <1>4, <3>2, <3>4 DEF ListLinked
    <3>6. \A j \in own[a], k \in own[b] : j < k
      BY <1>7, <3>2, <3>4 DEF Placed, LeavesInOrder
    <3>7. o[n] = own[a] /\ o[heap'[n].nextleaf] = own[b]
      BY <1>4, <1>14, <3>1, <3>3, <3>5
    <3>8. QED
      BY <3>6, <3>7
  <2>7. QED
    BY <2>4, <2>5, <2>6 DEF LeavesInOrder
<1>22. pc' \in {"descend", "store"} => key' \in o[cur']
  BY <1>3, <1>4, <1>14, <1>20
<1>23. Placed(o, d)'
  BY <1>3, <1>17, <1>18, <1>19, <1>21, <1>22 DEF Placed
<1>24. QED
  BY <1>13, <1>23 DEF Ordered

\* The new leaf owns the keys above the one that its parent will be given.
LEMMA StoreSplitOrder ==
  ASSUME OrderInv, StoreSplit
  PROVE  Ordered'
<1>1. ElasticInv
  BY DEF OrderInv
<1>2. PICK n, L, R :
        /\ Halved(cur, n, L, R) /\ TwoHalves(cur, L, R) /\ newchild' = n
        /\ KeysHalved(L, R)
        /\ newkey' \in Keys
  BY <1>1, StoreSplitHalves
<1>3. PICK c : c = cur
  OBVIOUS
<1>4. /\ pc = "store" /\ newchild = Null /\ root' = root /\ pc' = "unwind"
      /\ path' = path /\ c \in Leaves /\ c = pathEnd
  BY <1>1, <1>3, OrderFacts DEF StoreSplit, ElasticInv, CallUnderWay
<1>5. /\ TypeOK /\ PathLeadsDown /\ ListLinked /\ root \in Allocated
      /\ \A m \in Leaves : m \in Allocated
      /\ \A m \in Inner : m \in Allocated /\ m # c
      /\ \A m \in Inner : heap[m].childid \in Seq(Allocated)
      /\ Null \notin Allocated
  BY <1>1, <1>4, OrderFacts, NodeKinds
<1>6. /\ n \notin Allocated /\ Allocated' = Allocated \cup {n} /\ c \in Allocated
      /\ Leaves' = Leaves \cup {n} /\ Inner' = Inner /\ c # n
      /\ heap'[c] = Leaf(heap[c].blindileaftype, L, Cardinality(L),
                         heap[c].prevleaf, n)
      /\ heap'[n] = Leaf(heap[c].blindileaftype, R, Cardinality(R), c,
                         heap[c].nextleaf)
      /\ \A m \in Leaves \ {c} : /\ heap'[m].level = 0
                                 /\ heap'[m].items = heap[m].items
                                 /\ heap'[m].nextleaf = heap[m].nextleaf
      /\ \A m \in Inner : heap'[m] = heap[m]
  BY <1>2, <1>3, <1>4, <1>5 DEF Halved
<1>7. /\ heap'[c].level = 0
      /\ heap'[c].items = L /\ heap'[c].nextleaf = n
      /\ heap'[n].items = R /\ heap'[n].nextleaf = heap[c].nextleaf
  BY <1>6, GivenFields
<1>8. pathEnd' = c
  <2>1. heap[root].level = heap'[root].level
    <3>1. CASE root \in Leaves
      <4>1. heap[root].level = 0
        BY <3>1 DEF Leaves
      <4>2. QED
        BY <1>6, <1>7, <3>1, <4>1
    <3>2. CASE root \in Inner
      BY <1>6, <3>2
    <3>3. QED
      BY <1>5, <3>1, <3>2 DEF Inner
  <2>2. path # <<>> => pathEnd' = pathEnd
    BY <1>4, <1>5, <1>6, <2>1, KeptPath
  <2>3. path = <<>> => pathEnd' = root /\ pathEnd = root
    BY <1>4 DEF pathEnd
  <2>4. QED
    BY <1>4, <2>2, <2>3
<1>9. PICK own \in [Allocated -> SUBSET Keys] :
        \E led \in [Allocated -> SUBSET Keys] : Placed(own, led)
  BY DEF OrderInv, Ordered
<1>10. PICK led \in [Allocated -> SUBSET Keys] : Placed(own, led)
  BY <1>9
<1>11. PICK q : q = newkey'
  OBVIOUS
<1>12. /\ key \in own[c] /\ led[c] = own[c] /\ heap[c].items \subseteq own[c]
       /\ own[c] \in SUBSET Nat
  <2>1. key \in own[c] /\ heap[c].items \subseteq own[c]
    BY <1>3, <1>4, <1>10 DEF Placed, LeavesInOrder
  <2>2. led[c] = own[c]
    BY <1>4, <1>5, <1>6, <1>10 DEF Placed
  <2>3. own[c] \in SUBSET Keys
    BY <1>6, <1>9
  <2>4. QED
    BY <2>1, <2>2, <2>3, ElasticAssumption
<1>13. /\ L \subseteq own[c] /\ R \subseteq own[c]
       /\ q \in L /\ (\A k \in L : k <= q) /\ R # {} /\ \A k \in R : k > q
  BY <1>2, <1>3, <1>11, <1>12 DEF TwoHalves, KeysHalved
<1>14. PICK low, high : /\ low = {k \in own[c] : k <= q}
                        /\ high = {k \in own[c] : k > q}
  OBVIOUS
<1>15. PICK o : o = [m \in Allocated' |-> IF m = n THEN high
                                          ELSE IF m = c THEN low ELSE own[m]]
  OBVIOUS
<1>16. PICK d : d = [m \in Allocated' |-> IF m = n THEN {} ELSE led[m]]
  OBVIOUS
<1>17. /\ o[n] = high /\ o[c] = low
       /\ \A m \in Allocated : m # c => o[m] = own[m]
       /\ \A m \in Allocated : d[m] = led[m]
  BY <1>6, <1>15, <1>16
<1>18. o \in [Allocated' -> SUBSET Keys] /\ d \in [Allocated' -> SUBSET Keys]
  <2>1. low \in SUBSET Keys /\ high \in SUBSET Keys
    BY <1>6, <1>9, <1>14
  <2>2. o \in [Allocated' -> SUBSET Keys]
    BY <1>6, <1>9, <1>15, <2>1
  <2>3. d \in [Allocated' -> SUBSET Keys]
    BY <1>6, <1>10, <1>16
  <2>4. QED
    BY <2>2, <2>3
<1>19. root' # Null => d[root'] = Keys
  BY <1>4, <1>5, <1>10, <1>17 DEF Placed
<1>20. ASSUME NEW m \in Inner'
       PROVE  Part(heap'[m].slotkey, heap'[m].childid, o[m], d)
  <2>1. m \in Inner /\ heap'[m] = heap[m] /\ o[m] = own[m]
    BY <1>5, <1>6, <1>17
  <2>2. \A i \in 1 .. Len(heap[m].childid) : heap[m].childid[i] \in Allocated
    BY <1>5, <2>1, SeqElement
  <2>3. Part(heap[m].slotkey, heap[m].childid, own[m], led)
    BY <1>10, <2>1 DEF Placed
  <2>4. QED
    BY <1>17, <2>1, <2>2, <2>3 DEF Part
<1>21. \A m \in Allocated' \ {n} : m # c => o[m] = d[m]
  <2>1. \A m \in Allocated : own[m] = led[m]
    BY <1>4, <1>5, <1>10 DEF Placed
  <2>2. QED
    BY <1>6, <1>17, <2>1
<1>22. /\ q \in d[c] /\ o[c] = {k \in d[c] : k <= q}
       /\ o[n] = {k \in d[c] : k > q} /\ o[n] # {}
  BY <1>6, <1>12, <1>13, <1>14, <1>17
<1>23. SplitOwned(o, d)'
  BY <1>2, <1>8, <1>11, <1>22 DEF SplitOwned
<1>24. LeavesInOrder(o)'
  <2>1. /\ \A m \in Leaves : heap[m].items \subseteq own[m]
        /\ \A i, m \in Leaves : i # m => own[i] \cap own[m] = {}
        /\ \A m \in Leaves : heap[m].nextleaf # Null =>
             \A j \in own[m], k \in own[heap[m].nextleaf] : j < k
    BY <1>10 DEF Placed, LeavesInOrder
  <2>2. /\ low \subseteq own[c] /\ high \subseteq own[c]
        /\ L \subseteq low /\ R \subseteq high
        /\ \A j \in low, k \in high : j < k
        /\ low \cap high = {}
    <3>1. q \in Nat /\ \A k \in own[c] : k \in Nat
      BY <1>12, <1>13
    <3>2. low \subseteq own[c] /\ high \subseteq own[c]
          /\ L \subseteq low /\ R \subseteq high
      BY <1>13, <1>14
    <3>3. \A j \in low, k \in high : j < k
      <4>1. \A j \in low, k \in high : j \in Nat /\ k \in Nat /\ j <= q /\ k > q
        BY <1>14, <3>1
      <4>2. QED
        BY <3>1, <4>1
    <3>4. low \cap high = {}
      <4>1. \A k \in low : k \in Nat /\ ~(k < k)
        BY <1>14, <3>1
      <4>2. QED
        BY <3>3, <4>1
    <3>5. QED
      BY <3>2, <3>3, <3>4
  <2>3. \A m \in Leaves : o[m] \subseteq own[m]
    BY <1>5, <1>17, <2>2
  <2>4. ASSUME NEW m \in Leaves' PROVE heap'[m].items \subseteq o[m]
    <3>1. CASE m = n \/ m = c
      BY <1>7, <1>17, <2>2, <3>1
    <3>2. CASE m # n /\ m # c
      <4>1. m \in Leaves /\ heap'[m].items = heap[m].items /\ o[m] = own[m]
        BY <1>5, <1>6, <1>17, <3>2
      <4>2. QED
        BY <2>1, <4>1
    <3>3. QED
      BY <3>1, <3>2
  <2>5. ASSUME NEW i \in Leaves', NEW m \in Leaves', i # m
        PROVE  o[i] \cap o[m] = {}
    <3>1. CASE i # n /\ m # n
      BY <1>6, <2>1, <2>3, <2>5, <3>1
    <3>2. CASE i = n
      <4>1. CASE m = c
        BY <1>17, <2>2, <3>2, <4>1
      <4>2. CASE m # c
        BY <1>4, <1>6, <1>17, <2>1, <2>2, <2>3, <2>5, <3>2, <4>2
      <4>3. QED
        BY <4>1, <4>2
    <3>3. CASE m = n
      <4>1. CASE i = c
        BY <1>17, <2>2, <3>3, <4>1
      <4>2. CASE i # c
        BY <1>4, <1>6, <1>17, <2>1, <2>2, <2>3, <2>5, <3>3, <4>2
      <4>3. QED
        BY <4>1, <4>2
    <3>4. QED
      BY <3>1, <3>2, <3>3
  <2>6. ASSUME NEW m \in Leaves', heap'[m].nextleaf # Null
        PROVE  \A j \in o[m], k \in o[heap'[m].nextleaf] : j < k
    <3>1. CASE m = c
      BY <1>7, <1>17, <2>2, <3>1
    <3>2. CASE m = n
      <4>1. PICK x : x = heap[c].nextleaf
        OBVIOUS
      <4>2. heap'[m].nextleaf = x /\ x # Null
        BY <1>7, <2>6, <3>2, <4>1
      <4>3. x \in Leaves /\ x # c
        BY <1>4, <1>5, <4>1, <4>2 DEF ListLinked
      <4>4. \A j \in own[c], k \in own[x] : j < k
        BY <1>4, <2>1, <4>1, <4>2
      <4>5. o[x] \subseteq own[x] /\ o[m] \subseteq own[c]
        BY <1>17, <2>2, <2>3, <3>2, <4>3
      <4>6. QED
        BY <4>2, <4>4, <4>5
    <3>3. CASE m # c /\ m # n
      <4>1. PICK x : x = heap[m].nextleaf
        OBVIOUS
      <4>2. m \in Leaves /\ heap'[m].nextleaf = x /\ x # Null
        BY <1>6, <2>6, <3>3, <4>1
      <4>3. x \in Leaves
        BY <1>5, <4>1, <4>2 DEF ListLinked
      <4>4. \A j \in own[m], k \in own[x] : j < k
        BY <2>1, <4>1, <4>2
      <4>5. o[x] \subseteq own[x] /\ o[m] \subseteq own[m]
        BY <2>3, <4>2, <4>3
      <4>6. QED
        BY <4>2, <4>4, <4>5
    <3>4. QED
      BY <3>1, <3>2, <3>3
  <2>7. QED
    BY <2>4, <2>5, <2>6 DEF LeavesInOrder
<1>25. Placed(o, d)'
  <2>1. \A m \in Allocated' \ {newchild'} :
          newchild' = Null \/ m # pathEnd' => o[m] = d[m]
    <3>1. newchild' = n /\ n # Null
      BY <1>2, <1>6, ElasticAssumption DEF Halved
    <3>2. QED
      BY <1>8, <1>21, <3>1
  <2>2. ~(pc' \in {"descend", "store"})
    BY <1>4
  <2>3. QED
    BY <1>19, <1>20, <1>23, <1>24, <2>1, <2>2 DEF Placed
<1>26. QED
  BY <1>18, <1>25 DEF Ordered

-----------------------------------------------------------------------------
(* A split on its way up *)

\* Once the new child is entered behind the node that was split, which kept
\* the lower keys, the keys led to each child are those that it owns.
LEMMA ChildEntered ==
  ASSUME ElasticInv, pc = "unwind", newchild # Null, path # <<>>,
         NEW own \in [Allocated -> SUBSET Keys],
         NEW led \in [Allocated -> SUBSET Keys], Placed(own, led),
         NEW n, NEW s, NEW J, NEW D, NEW K, NEW C, Entering(n, s, J, D, K, C)
  PROVE  /\ root # Null => own[root] = Keys
         /\ Part(K, C, own[n], own)
         /\ \A m \in Inner \ {n} :
              Part(heap[m].slotkey, heap[m].childid, own[m], own)
<1>1. /\ TypeOK /\ LinkedOnce /\ PathLeadsDown
      /\ \A m \in Inner : InnerFilled(m) /\ m \in Allocated
      /\ \A m \in Inner : /\ heap[m].childid \in Seq(Allocated)
                          /\ Len(heap[m].childid) = Len(heap[m].slotkey) + 1
      /\ root \in Allocated
  BY OrderFacts, NodeKinds
<1>2. /\ n \in Inner /\ s \in 0 .. Len(J) /\ J \in Seq(Keys)
      /\ Inserted(C, D, s + 2, newchild) /\ Inserted(K, J, s + 1, newkey)
  BY NewChildEntered
<1>3. /\ n = above[1] /\ s = above[2] /\ J = heap[n].slotkey
      /\ D = heap[n].childid
  BY DEF Entering
<1>4. PICK e : e = pathEnd
  OBVIOUS
<1>5. /\ e = D[s + 1] /\ s + 1 \in Slots(n) /\ Len(D) = Len(J) + 1
      /\ e \in Allocated
  BY <1>1, <1>2, <1>3, <1>4, PathEnd DEF PathEndFacts
<1>6. \A m \in Inner : \A i \in Slots(m) :
        /\ heap[m].childid[i] # root /\ heap[m].childid[i] # newchild
        /\ heap[m].childid[i] = e => m = n /\ i = s + 1
  BY <1>2, <1>3, <1>5, <1>1 DEF LinkedOnce
<1>7. \A m \in Allocated : m # newchild /\ m # e => own[m] = led[m]
  BY <1>4 DEF Placed
<1>8. \A m \in Inner : \A i \in Slots(m) : heap[m].childid[i] \in Allocated
  BY <1>1, SeqElement DEF Slots
<1>9. \A m \in Inner : \A i \in Slots(m) :
        ~(m = n /\ i = s + 1) => own[heap[m].childid[i]] = led[heap[m].childid[i]]
  BY <1>6, <1>7, <1>8
<1>10. own[root] = Keys
  <2>1. root # e /\ root # newchild
    BY <1>1, <1>2, <1>3, <1>5, <1>6 DEF LinkedOnce
  <2>2. root # Null
    BY <1>1, OrderFacts
  <2>3. QED
    BY <1>1, <1>7, <2>1, <2>2 DEF Placed
<1>11. \A m \in Inner : Part(heap[m].slotkey, heap[m].childid, own[m], led)
  BY DEF Placed
<1>12. ASSUME NEW m \in Inner \ {n}
       PROVE  Part(heap[m].slotkey, heap[m].childid, own[m], own)
  <2>1. \A i \in 1 .. Len(heap[m].childid) :
          own[heap[m].childid[i]] = led[heap[m].childid[i]]
    BY <1>9 DEF Slots
  <2>2. Part(heap[m].slotkey, heap[m].childid, own[m], led)
    BY <1>11
  <2>3. QED
    BY <2>1, <2>2 DEF Part
<1>13. Part(K, C, own[n], own)
  <2>1. PICK S : S = own[n]
    OBVIOUS
  <2>2. S \in SUBSET Keys /\ Part(J, D, S, led)
    BY <1>1, <1>2, <1>3, <1>11, <2>1
  <2>3. /\ newkey \in led[e] /\ own[newchild] # {}
        /\ own[e] = {k \in led[e] : k <= newkey}
        /\ own[newchild] = {k \in led[e] : k > newkey}
    BY <1>4 DEF Placed, SplitOwned
  <2>4. PICK q, v : q = newkey /\ v = newchild
    OBVIOUS
  <2>5. /\ Inserted(K, J, s + 1, q) /\ Inserted(C, D, s + 2, v)
        /\ q \in led[D[s + 1]] /\ own[v] # {}
        /\ own[D[s + 1]] = {k \in led[D[s + 1]] : k <= q}
        /\ own[v] = {k \in led[D[s + 1]] : k > q}
    BY <1>2, <1>5, <2>3, <2>4
  <2>6. \A i \in 1 .. Len(D) : i # s + 1 => own[D[i]] = led[D[i]]
    BY <1>2, <1>3, <1>9 DEF Slots
  <2>7. Part(K, C, S, own)
    BY <1>2, <1>5, <2>2, <2>5, <2>6, EnterParts
  <2>8. QED
    BY <2>1, <2>7
<1>14. QED
  BY <1>10, <1>12, <1>13

\* The leaves are as they were.
LEMMA SameLeavesOrder ==
  ASSUME ElasticInv, NEW own, NEW o, NEW led, Placed(own, led),
         Leaves' = Leaves, \A m \in Leaves : heap'[m] = heap[m],
         \A m \in Leaves : o[m] = own[m]
  PROVE  LeavesInOrder(o)'
<1>1. /\ \A m \in Leaves : heap[m].items \subseteq own[m]
      /\ \A i, m \in Leaves : i # m => own[i] \cap own[m] = {}
      /\ \A m \in Leaves : heap[m].nextleaf # Null =>
           \A j \in own[m], k \in own[heap[m].nextleaf] : j < k
  BY DEF Placed, LeavesInOrder
<1>2. \A m \in Leaves : heap[m].nextleaf # Null => heap[m].nextleaf \in Leaves
  BY OrderFacts DEF ListLinked
<1>3. /\ \A m \in Leaves' : heap'[m].items \subseteq o[m]
      /\ \A i, m \in Leaves' : i # m => o[i] \cap o[m] = {}
  BY <1>1
<1>4. ASSUME NEW m \in Leaves', heap'[m].nextleaf # Null
      PROVE  \A j \in o[m], k \in o[heap'[m].nextleaf] : j < k
  BY <1>1, <1>2, <1>4
<1>5. QED
  BY <1>3, <1>4 DEF LeavesInOrder

\* The new child enters a node with room.
LEMMA LinkChildOrder ==
  ASSUME OrderInv, LinkChild
  PROVE  Ordered'
<1>1. /\ ElasticInv /\ pc = "unwind" /\ newchild # Null /\ path # <<>>
      /\ root' = root /\ pc' = pc /\ newchild' = Null
  BY DEF OrderInv, LinkChild
<1>2. PICK n, s, J, D, K, C : LinkEffect(n, s, J, D, K, C)
  BY <1>1, LinkChildEffect
<1>3. /\ Entering(n, s, J, D, K, C) /\ DOMAIN heap' = Allocated
      /\ heap'[n] = InnerNode(heap[n].level, K, C, heap[n].alreadycomprerss)
      /\ \A m \in Allocated \ {n} : heap'[m] = heap[m]
  BY <1>2 DEF LinkEffect
<1>4. /\ n \in Inner /\ \A m \in Inner : m \in Allocated
      /\ \A m \in Leaves : m \in Allocated /\ m # n
  BY <1>1, <1>3, NewChildEntered, OrderFacts, NodeKinds
<1>5. /\ heap'[n].level = heap[n].level /\ heap'[n].slotkey = K
      /\ heap'[n].childid = C
  BY <1>3, GivenFields
<1>6. Allocated' = Allocated /\ Leaves' = Leaves /\ Inner' = Inner
  <2>1. Allocated' = Allocated
    BY <1>3 DEF Allocated
  <2>2. Leaves' = {m \in Allocated' : heap'[m].level = 0}
    BY DEF Leaves
  <2>3. \A m \in Allocated : heap'[m].level = heap[m].level
    BY <1>3, <1>5
  <2>4. Leaves' = Leaves
    BY <2>1, <2>2, <2>3 DEF Leaves
  <2>5. QED
    BY <2>1, <2>4 DEF Inner
<1>7. PICK own \in [Allocated -> SUBSET Keys] :
        \E led \in [Allocated -> SUBSET Keys] : Placed(own, led)
  BY DEF OrderInv, Ordered
<1>8. PICK led \in [Allocated -> SUBSET Keys] : Placed(own, led)
  BY <1>7
<1>9. /\ root # Null => own[root] = Keys
      /\ Part(K, C, own[n], own)
      /\ \A m \in Inner \ {n} :
           Part(heap[m].slotkey, heap[m].childid, own[m], own)
  BY <1>1, <1>3, <1>7, <1>8, ChildEntered
<1>10. \A m \in Inner' : Part(heap'[m].slotkey, heap'[m].childid, own[m], own)
  BY <1>3, <1>4, <1>5, <1>6, <1>9
<1>11. LeavesInOrder(own)'
  BY <1>1, <1>3, <1>4, <1>6, <1>8, SameLeavesOrder
<1>12. Placed(own, own)'
  BY <1>1, <1>9, <1>10, <1>11 DEF Placed
<1>13. own \in [Allocated' -> SUBSET Keys]
  BY <1>6, <1>7
<1>14. QED
  BY <1>12, <1>13 DEF Ordered

\* The path after a step back ends at the node that the step was at.
LEMMA StepBack ==
  ASSUME ElasticInv, path # <<>>, root' = root, path' = Front(path), NEW n,
         n = above[1],
         \A m \in Inner : m # n => heap'[m] = heap[m],
         heap'[n].level = heap[n].level
  PROVE  pathEnd' = n
<1>1. TypeOK /\ PathLeadsDown /\ (\A m \in Inner : InnerFilled(m)) /\ PathEndFacts
  <2>1. TypeOK /\ PathLeadsDown /\ \A m \in Inner : InnerFilled(m)
    BY OrderFacts
  <2>2. QED
    BY <2>1, PathEnd
<1>2. /\ path \in Seq(Inner \X Nat) /\ Len(path) \in Nat \ {0}
      /\ n = path[Len(path)][1]
  BY <1>1 DEF TypeOK, PathEndFacts
<1>3. /\ path' \in Seq(Inner \X Nat) /\ Len(path') + 1 = Len(path)
  BY <1>1, FrontOfPath
<1>4. CASE path' = <<>>
  <2>1. Len(path) = 1
    BY <1>3, <1>4
  <2>2. path[1][1] = root
    BY <1>1 DEF PathLeadsDown
  <2>3. QED
    BY <1>2, <1>4, <2>1, <2>2 DEF pathEnd
<1>5. CASE path' # <<>>
  <2>1. PICK b : b = Len(path')
    OBVIOUS
  <2>2. b \in Nat \ {0} /\ b + 1 = Len(path) /\ b \in 1 .. Len(path) - 1
    BY <1>3, <1>5, <2>1
  <2>3. path' = SubSeq(path, 1, Len(path) - 1)
    BY DEF Front
  <2>4. Len(path) - 1 = b
    BY <2>2
  <2>5. path'[b] = path[b]
    <3>1. SubSeq(path, 1, b)[b] = path[1 + b - 1]
      BY <1>2, <2>2, SubSeqElement
    <3>2. 1 + b - 1 = b
      BY <2>2
    <3>3. QED
      BY <2>3, <2>4, <3>1, <3>2
  <2>6. above' = path[b]
    BY <1>5, <2>1, <2>5 DEF above, Last
  <2>7. path[b + 1][1] = heap[path[b][1]].childid[path[b][2] + 1]
    BY <1>1, <2>2 DEF PathLeadsDown
  <2>8. path[b] \in Inner \X Nat
    BY <1>2, <2>2, SeqElement
  <2>9. path[b][1] \in Inner /\ path[b][1] # n
    <3>1. /\ heap[path[b][1]].level + b = heap[root].level + 1
          /\ heap[n].level + (b + 1) = heap[root].level + 1
      BY <1>1, <1>2, <2>2 DEF PathLeadsDown
    <3>2. path[b][1] \in Inner /\ n \in Inner
      BY <1>1, <2>8 DEF PathEndFacts
    <3>3. heap[path[b][1]].level \in Nat
      BY <1>1, <3>2, NodeKinds, InnerFields
    <3>4. heap[n].level \in Nat
      BY <1>1, <3>2, NodeKinds, InnerFields
    <3>5. heap[path[b][1]].level # heap[n].level
      BY <2>2, <3>1, <3>3, <3>4
    <3>6. QED
      BY <3>2, <3>5
  <2>10. pathEnd' = heap'[path[b][1]].childid[path[b][2] + 1]
    BY <1>5, <2>6 DEF pathEnd
  <2>11. QED
    BY <1>2, <2>2, <2>7, <2>9, <2>10
<1>6. QED
  BY <1>4, <1>5

\* A full inner node is divided, and the new one owns the keys above the one
\* that goes up.
LEMMA SplitInnerOrder ==
  ASSUME OrderInv, SplitInner
  PROVE  Ordered'
<1>1. /\ ElasticInv /\ pc = "unwind" /\ newchild # Null /\ path # <<>>
      /\ root' = root /\ pc' = pc /\ path' = Front(path)
  BY Zenon DEF OrderInv, SplitInner
<1>2. PICK n, s, J, D, K, C, x, a, LK, LC, RK, RC :
        SplitEffect(n, s, J, D, K, C, x, a, LK, LC, RK, RC)
  BY <1>1, SplitInnerEffect, Zenon
<1>3. /\ Entering(n, s, J, D, K, C) /\ isfull(n) /\ newchild' = x
      /\ x \in Nodes \ Allocated
      /\ Divided(innerslotmax, a, C, LK, LC, RK, RC)
      /\ DividedKeys(innerslotmax, a, K, LK, RK, newkey')
      /\ DividedHeap(n, x, heap[n].level, LK, LC, heap[n].alreadycomprerss,
                     RK, RC)
  BY <1>2 DEF SplitEffect
<1>4. /\ n \in Inner /\ NewChildren(n, K, C)
  BY <1>1, <1>3, NewChildEntered
<1>5. /\ \A m \in Inner : m \in Allocated
      /\ \A m \in Leaves : m \in Allocated /\ m # n
      /\ \A m \in Inner : heap[m].childid \in Seq(Allocated)
      /\ x \notin Allocated /\ n # x /\ n \in Allocated
      /\ root \in Allocated /\ Null \notin Allocated /\ x # Null
  BY <1>1, <1>3, <1>4, OrderFacts, NodeKinds, ElasticAssumption
<1>6. PICK g : DividedInto(n, x, heap[n].level, LK, LC,
                           heap[n].alreadycomprerss, RK, RC, g)
  BY <1>3, <1>5, DividedNodes
<1>7. /\ DOMAIN heap' = Allocated \cup {n, x}
      /\ heap'[n] = InnerNode(heap[n].level, LK, LC, heap[n].alreadycomprerss)
      /\ heap'[x] = InnerNode(heap[n].level, RK, RC, g)
      /\ \A m \in Allocated \ {n} : heap'[m] = heap[m]
  BY <1>6 DEF DividedInto
<1>8. /\ heap'[n].level = heap[n].level /\ heap'[n].slotkey = LK
      /\ heap'[n].childid = LC
      /\ heap'[x].level = heap[n].level /\ heap'[x].slotkey = RK
      /\ heap'[x].childid = RC
  BY <1>7, GivenFields
<1>9. /\ Allocated' = Allocated \cup {x} /\ Leaves' = Leaves
      /\ Inner' = Inner \cup {x}
  <2>1. Allocated' = Allocated \cup {x}
    BY <1>5, <1>7 DEF Allocated
  <2>2. Leaves' = {m \in Allocated' : heap'[m].level = 0}
    BY DEF Leaves
  <2>3. \A m \in Allocated : heap'[m].level = heap[m].level
    BY <1>7, <1>8
  <2>4. heap'[x].level # 0
    BY <1>4, <1>5, <1>8 DEF Inner, Leaves
  <2>5. Leaves' = Leaves
    BY <1>5, <2>1, <2>2, <2>3, <2>4 DEF Leaves
  <2>6. QED
    BY <1>5, <2>1, <2>5 DEF Inner
<1>10. pathEnd' = n
  <2>1. n = above[1]
    BY <1>3 DEF Entering
  <2>2. \A m \in Inner : m # n => heap'[m] = heap[m]
    BY <1>5, <1>7
  <2>3. QED
    BY <1>1, <1>8, <2>1, <2>2, StepBack
<1>11. PICK own \in [Allocated -> SUBSET Keys] :
         \E led \in [Allocated -> SUBSET Keys] : Placed(own, led)
  BY DEF OrderInv, Ordered
<1>12. PICK led \in [Allocated -> SUBSET Keys] : Placed(own, led)
  BY <1>11
<1>13. /\ root # Null => own[root] = Keys
       /\ Part(K, C, own[n], own)
       /\ \A m \in Inner \ {n} :
            Part(heap[m].slotkey, heap[m].childid, own[m], own)
  BY <1>1, <1>3, <1>11, <1>12, ChildEntered
<1>14. PICK q, S : q = newkey' /\ S = own[n]
  OBVIOUS
<1>15. PICK low, high : low = {k \in S : k <= q} /\ high = {k \in S : k > q}
  OBVIOUS
<1>16. S \in SUBSET Keys
  BY <1>5, <1>11, <1>14
<1>17. /\ q \in S /\ high # {} /\ Part(LK, LC, low, own) /\ Part(RK, RC, high, own)
  <2>1. PICK c : c = innerslotmax
    OBVIOUS
  <2>2. /\ c \in Nat /\ Len(K) = c + 1 /\ Len(C) = c + 2
    BY <1>3, <1>4, <2>1, ElasticAssumption DEF NewChildren, isfull
  <2>3. /\ Divided(c, a, C, LK, LC, RK, RC) /\ DividedKeys(c, a, K, LK, RK, q)
        /\ Part(K, C, S, own)
    BY <1>3, <1>13, <1>14, <2>1
  <2>4. PartsDivided(S, q, LK, LC, RK, RC, own)
    BY <1>16, <2>2, <2>3, DivideParts, Zenon
  <2>5. QED
    BY <1>15, <2>4 DEF PartsDivided
<1>18. PICK o : o = [m \in Allocated' |-> IF m = x THEN high
                                          ELSE IF m = n THEN low ELSE own[m]]
  OBVIOUS
<1>19. PICK d : d = [m \in Allocated' |-> IF m = x THEN {} ELSE own[m]]
  OBVIOUS
<1>20. /\ o[x] = high /\ o[n] = low
       /\ \A m \in Allocated : m # n => o[m] = own[m]
       /\ \A m \in Allocated : d[m] = own[m]
  BY <1>5, <1>9, <1>18, <1>19
<1>21. o \in [Allocated' -> SUBSET Keys] /\ d \in [Allocated' -> SUBSET Keys]
  <2>1. low \in SUBSET Keys /\ high \in SUBSET Keys
    BY <1>15, <1>16
  <2>2. o \in [Allocated' -> SUBSET Keys]
    BY <1>9, <1>11, <1>18, <2>1
  <2>3. d \in [Allocated' -> SUBSET Keys]
    BY <1>9, <1>11, <1>19
  <2>4. QED
    BY <2>2, <2>3
<1>22. root' # Null => d[root'] = Keys
  BY <1>1, <1>5, <1>13, <1>20
<1>23. ASSUME NEW m \in Inner'
       PROVE  Part(heap'[m].slotkey, heap'[m].childid, o[m], d)
  <2>1. /\ LC \in Seq(Allocated) /\ RC \in Seq(Allocated)
    BY <1>3 DEF Divided
  <2>2. CASE m = n
    <3>1. \A i \in 1 .. Len(LC) : d[LC[i]] = own[LC[i]]
      BY <1>20, <2>1, SeqElement
    <3>2. Part(LK, LC, low, d)
      BY <1>17, <3>1 DEF Part
    <3>3. QED
      BY <1>8, <1>20, <2>2, <3>2
  <2>3. CASE m = x
    <3>1. \A i \in 1 .. Len(RC) : d[RC[i]] = own[RC[i]]
      BY <1>20, <2>1, SeqElement
    <3>2. Part(RK, RC, high, d)
      BY <1>17, <3>1 DEF Part
    <3>3. QED
      BY <1>8, <1>20, <2>3, <3>2
  <2>4. CASE m # n /\ m # x
    <3>1. m \in Inner \ {n} /\ heap'[m] = heap[m] /\ o[m] = own[m]
      BY <1>5, <1>7, <1>9, <1>20, <2>4
    <3>2. heap[m].childid \in Seq(Allocated)
      BY <1>5, <3>1
    <3>3. \A i \in 1 .. Len(heap[m].childid) :
            d[heap[m].childid[i]] = own[heap[m].childid[i]]
      BY <1>20, <3>2, SeqElement
    <3>4. Part(heap[m].slotkey, heap[m].childid, own[m], own)
      BY <1>13, <3>1
    <3>5. QED
      BY <3>1, <3>3, <3>4 DEF Part
  <2>5. QED
    BY <2>2, <2>3, <2>4
<1>24. \A m \in Allocated' \ {newchild'} :
         newchild' = Null \/ m # pathEnd' => o[m] = d[m]
  BY <1>3, <1>5, <1>9, <1>10, <1>20
<1>25. SplitOwned(o, d)'
  <2>1. /\ q \in d[n] /\ o[n] = {k \in d[n] : k <= q}
        /\ o[x] = {k \in d[n] : k > q} /\ o[x] # {}
    BY <1>5, <1>14, <1>15, <1>17, <1>20
  <2>2. QED
    BY <1>3, <1>10, <1>14, <2>1 DEF SplitOwned
<1>26. LeavesInOrder(o)'
  <2>1. /\ \A m \in Leaves : heap'[m] = heap[m]
        /\ \A m \in Leaves : o[m] = own[m]
    BY <1>5, <1>7, <1>20
  <2>2. QED
    BY <1>1, <1>9, <1>12, <2>1, SameLeavesOrder
<1>27. ~(pc' \in {"descend", "store"})
  BY <1>1
<1>28. Placed(o, d)'
  BY <1>22, <1>23, <1>24, <1>25, <1>26, <1>27 DEF Placed
<1>29. QED
  BY <1>21, <1>28 DEF Ordered

\* All keys are led to a new root, and its separator parts them as the old
\* one was split.
LEMMA FinishGrownOrder ==
  ASSUME OrderInv, Finish, newchild # Null
  PROVE  Ordered'
<1>1. /\ ElasticInv /\ pc = "unwind" /\ pc' = "idle" /\ newchild' = Null
  BY DEF OrderInv, Finish
<1>2. PICK n : Grown(n)
  BY <1>1, FinishGrows
<1>3. /\ n \notin Allocated /\ root' = n /\ path = <<>>
      /\ Allocated' = Allocated \cup {n} /\ Leaves' = Leaves
      /\ Inner' = Inner \cup {n}
      /\ \A m \in Allocated : heap'[m] = heap[m]
      /\ heap'[n].slotkey = <<newkey>> /\ heap'[n].childid = <<root, newchild>>
  BY <1>2 DEF Grown
<1>4. /\ LinkedOnce /\ root \in Allocated /\ newchild \in Allocated
      /\ \A m \in Inner : m \in Allocated /\ heap[m].childid \in Seq(Allocated)
      /\ \A m \in Leaves : m \in Allocated
      /\ Null \notin Allocated /\ Keys \in SUBSET Nat
  BY <1>1, OrderFacts, NodeKinds
<1>5. PICK own \in [Allocated -> SUBSET Keys] :
        \E led \in [Allocated -> SUBSET Keys] : Placed(own, led)
  BY DEF OrderInv, Ordered
<1>6. PICK led \in [Allocated -> SUBSET Keys] : Placed(own, led)
  BY <1>5
<1>7. PICK q, r, v : q = newkey /\ r = root /\ v = newchild
  OBVIOUS
<1>8. pathEnd = r
  BY <1>3, <1>7 DEF pathEnd
<1>9. /\ q \in Keys /\ own[r] = {k \in Keys : k <= q}
      /\ own[v] = {k \in Keys : k > q}
  <2>1. led[r] = Keys
    BY <1>4, <1>6, <1>7 DEF Placed
  <2>2. QED
    BY <1>6, <1>7, <1>8, <2>1 DEF Placed, SplitOwned
<1>10. PICK o : o = [m \in Allocated' |-> IF m = n THEN Keys ELSE own[m]]
  OBVIOUS
<1>11. /\ o[n] = Keys /\ \A m \in Allocated : o[m] = own[m]
       /\ o \in [Allocated' -> SUBSET Keys]
  BY <1>3, <1>5, <1>10
<1>12. ASSUME NEW m \in Inner'
       PROVE  Part(heap'[m].slotkey, heap'[m].childid, o[m], o)
  <2>1. CASE m = n
    <3>1. PICK K, C : K = <<q>> /\ C = <<r, v>>
      OBVIOUS
    <3>2. /\ Len(K) = 1 /\ Len(C) = 2 /\ K[1] = q /\ C[1] = r /\ C[2] = v
      BY <3>1
    <3>3. Ascending(K) /\ \A i \in 1 .. Len(K) : K[i] \in Keys
      BY <1>9, <3>2 DEF Ascending
    <3>4. o[r] = own[r] /\ o[v] = own[v]
      BY <1>4, <1>7, <1>11
    <3>5. between(K, 1, Keys) = {k \in Keys : k <= q}
      BY <3>2 DEF between
    <3>6. between(K, 2, Keys) = {k \in Keys : q < k}
      BY <3>2 DEF between
    <3>7. \A k \in Keys : q < k <=> k > q
      BY <1>4, <1>9
    <3>8. o[C[1]] = between(K, 1, Keys) /\ o[C[2]] = between(K, 2, Keys)
      BY <1>9, <3>2, <3>4, <3>5, <3>6, <3>7
    <3>9. \A i \in 1 .. Len(C) : o[C[i]] = between(K, i, Keys)
      BY <3>2, <3>8
    <3>10. Part(K, C, Keys, o)
      BY <3>3, <3>9 DEF Part
    <3>11. QED
      BY <1>3, <1>7, <1>11, <2>1, <3>1, <3>10
  <2>2. CASE m # n
    <3>1. m \in Inner /\ heap'[m] = heap[m] /\ o[m] = own[m]
      BY <1>3, <1>4, <1>11, <2>2
    <3>2. \A i \in 1 .. Len(heap[m].childid) :
            heap[m].childid[i] \in Allocated
      BY <1>4, <3>1, SeqElement
    <3>3. \A i \in 1 .. Len(heap[m].childid) :
            heap[m].childid[i] # root /\ heap[m].childid[i] # newchild
      BY <1>4, <3>1 DEF LinkedOnce, Slots
    <3>4. \A c \in Allocated : c # root /\ c # newchild => own[c] = led[c]
      BY <1>6, <1>7, <1>8 DEF Placed
    <3>5. \A i \in 1 .. Len(heap[m].childid) :
            o[heap[m].childid[i]] = led[heap[m].childid[i]]
      BY <1>11, <3>2, <3>3, <3>4
    <3>6. Part(heap[m].slotkey, heap[m].childid, own[m], led)
      BY <1>6, <3>1 DEF Placed
    <3>7. QED
      BY <3>1, <3>5, <3>6 DEF Part
  <2>3. QED
    BY <2>1, <2>2
<1>13. LeavesInOrder(o)'
  BY <1>1, <1>3, <1>4, <1>6, <1>11, SameLeavesOrder
<1>14. Placed(o, o)'
  BY <1>1, <1>3, <1>11, <1>12, <1>13 DEF Placed
<1>15. QED
  BY <1>11, <1>14 DEF Ordered

-----------------------------------------------------------------------------
(* The invariant *)

\* At first there is no node.
LEMMA OrderInit == Init => Ordered
<1>1. SUFFICES ASSUME Init PROVE Ordered
  OBVIOUS
<1>2. Allocated = {}
  <2>1. heap = <<>>
    BY <1>1 DEF Init
  <2>2. QED
    BY <2>1 DEF Allocated
<1>3. PICK own : own = [m \in Allocated |-> {}]
  OBVIOUS
<1>4. own \in [Allocated -> SUBSET Keys]
  BY <1>3
<1>5. Leaves = {} /\ Inner = {}
  BY <1>2 DEF Leaves, Inner
<1>6. Placed(own, own)
  BY <1>1, <1>2, <1>5 DEF Placed, LeavesInOrder, Init
<1>7. QED
  BY <1>4, <1>6 DEF Ordered

\* Every step keeps the keys in order.
LEMMA OrderStep == OrderInv /\ [Next]_vars => OrderInv'
<1>1. SUFFICES ASSUME OrderInv, [Next]_vars PROVE OrderInv'
  OBVIOUS
<1>2. ElasticInv /\ ElasticInv'
  BY <1>1, ElasticStep DEF OrderInv
<1>3. TypeOK
  BY <1>2, OrderFacts
<1>4. SUFFICES Ordered'
  BY <1>2 DEF OrderInv
<1>5. ASSUME NEW k \in Keys, Begin(k) PROVE Ordered'
  BY <1>1, <1>5, BeginOrder, FirstRootOrder
<1>6. CASE Descend
  BY <1>1, <1>6, DescendOrder
<1>7. CASE TransferLeaf
  BY <1>1, <1>2, <1>7, TransferLeafInv, ReplacedOrder
<1>8. CASE CompressSibling
  <2>1. /\ pc = "descend" /\ newchild' = newchild /\ root' = root /\ key' = key
        /\ cur' = cur
    BY <1>8 DEF CompressSibling, split
  <2>2. LeafReplaced \/ SameNodes
    BY <1>2, <1>8, CompressSiblingInv
  <2>3. QED
    BY <1>1, <2>1, <2>2, ReplacedOrder, KeepLeafOrder
<1>9. CASE KeepLeaf
  <2>1. /\ pc = "descend" /\ newchild' = newchild /\ root' = root /\ key' = key
        /\ cur' = cur /\ heap' = heap
    BY <1>9 DEF KeepLeaf, split, tree
  <2>2. QED
    BY <1>1, <1>3, <2>1, HeapKept, KeepLeafOrder
<1>10. CASE StoreRoom
  BY <1>1, <1>10, StoreRoomOrder
<1>11. CASE StoreExtend
  BY <1>1, <1>2, <1>11, StoreExtendInv, ReplacedOrder
<1>12. CASE StoreSplit
  BY <1>1, <1>12, StoreSplitOrder
<1>13. CASE LinkChild
  BY <1>1, <1>13, LinkChildOrder
<1>14. CASE SplitInner
  BY <1>1, <1>14, SplitInnerOrder
<1>15. CASE Finish
  BY <1>1, <1>15, FinishBelowOrder, FinishGrownOrder
<1>16. CASE UNCHANGED vars
  <2>1. /\ UNCHANGED <<root, heap, newkey, newchild, path, pc, key, cur>>
    BY <1>16 DEF vars, tree, split
  <2>2. /\ Allocated' = Allocated /\ Leaves' = Leaves /\ Inner' = Inner
    BY <2>1 DEF Allocated, Leaves, Inner
  <2>3. pathEnd' = pathEnd
    BY <2>1 DEF pathEnd, above
  <2>4. PICK own \in [Allocated -> SUBSET Keys] :
          \E led \in [Allocated -> SUBSET Keys] : Placed(own, led)
    BY <1>1 DEF OrderInv, Ordered
  <2>5. PICK led \in [Allocated -> SUBSET Keys] : Placed(own, led)
    BY <2>4
  <2>6. LeavesInOrder(own)'
    BY <2>1, <2>2, <2>5 DEF Placed, LeavesInOrder
  <2>7. newchild' # Null => SplitOwned(own, led)'
    BY <2>1, <2>3, <2>5 DEF Placed, SplitOwned
  <2>8. Placed(own, led)'
    BY <2>1, <2>2, <2>3, <2>5, <2>6, <2>7 DEF Placed
  <2>9. own \in [Allocated' -> SUBSET Keys] /\ led \in [Allocated' -> SUBSET Keys]
    BY <2>2
  <2>10. QED
    BY <2>8, <2>9 DEF Ordered
<1>17. QED
  BY <1>1, <1>5, <1>6, <1>7, <1>8, <1>9, <1>10, <1>11, <1>12, <1>13, <1>14,
     <1>15, <1>16 DEF Next, Step

\* However leaves are split, replaced and linked and separators moved between
\* inner nodes, the keys of every node are parted among its children.
THEOREM StaysOrdered == Spec => []OrderInv
<1>1. Init => OrderInv
  BY ElasticInit, OrderInit DEF OrderInv
<1>2. QED
  BY <1>1, OrderStep, PTL DEF Spec

-----------------------------------------------------------------------------
(* What a descent finds *)

\* f is where the descents for k end, from each node.
Descents(f, k) ==
  f = [n \in DOMAIN heap |->
         IF isleafnode(n) THEN n
         ELSE f[heap[n].childid[find_lower(n, k) + 1]]]

\* The child that a descent for k goes to.
childFor(n, k) == heap[n].childid[find_lower(n, k) + 1]

\* A child is one level below its parent.
LEMMA ChildBelow ==
  ASSUME ElasticInv, NEW own, NEW led, Placed(own, led), NEW n \in Inner,
         NEW k \in Keys
  PROVE  /\ childFor(n, k) \in Allocated
         /\ heap[n].level \in Nat /\ heap[childFor(n, k)].level \in Nat
         /\ heap[childFor(n, k)].level < heap[n].level
         /\ own[n] \in SUBSET Keys /\ k \in own[n] => k \in led[childFor(n, k)]
<1>1. PICK K, C : K = heap[n].slotkey /\ C = heap[n].childid
  OBVIOUS
<1>2. /\ K \in Seq(Keys) /\ C \in Seq(Allocated) /\ Len(C) = Len(K) + 1
      /\ Part(K, C, own[n], led) /\ InnerFilled(n) /\ TypeOK
  BY <1>1, OrderFacts DEF Placed
<1>3. PICK s : s = find_lower(n, k)
  OBVIOUS
<1>4. ~isleafnode(n)
  BY DEF Inner, Leaves, isleafnode
<1>5. s = Cardinality({i \in 1 .. Len(K) : K[i] < k}) /\ childFor(n, k) = C[s + 1]
  BY <1>1, <1>3, <1>4 DEF find_lower, childFor
<1>6. /\ s \in 0 .. Len(K)
      /\ \A S \in SUBSET Keys : k \in S => k \in between(K, s + 1, S)
  BY <1>2, <1>5, SlotOfKey DEF Part
<1>7. s + 1 \in 1 .. Len(C)
  BY <1>2, <1>6
<1>8. C[s + 1] \in Allocated
  BY <1>2, <1>7, SeqElement
<1>9. heap[C[s + 1]].level + 1 = heap[n].level
  BY <1>1, <1>2, <1>7 DEF InnerFilled, Slots
<1>10. \A m \in Allocated : heap[m].level \in Nat
  <2>1. \A m \in Leaves : heap[m].level \in Nat
    BY <1>2, NodeKinds, LeafFields
  <2>2. \A m \in Inner : heap[m].level \in Nat
    BY <1>2, NodeKinds, InnerFields
  <2>3. QED
    BY <1>2, <2>1, <2>2, NodeKinds
<1>11. /\ heap[n].level \in Nat /\ heap[C[s + 1]].level \in Nat
       /\ heap[C[s + 1]].level < heap[n].level
  BY <1>8, <1>9, <1>10 DEF Inner
<1>12. own[n] \in SUBSET Keys /\ k \in own[n] => k \in led[C[s + 1]]
  BY <1>2, <1>6, <1>7 DEF Part
<1>13. QED
  BY <1>5, <1>8, <1>11, <1>12

\* f is where the descents end from the nodes up to a level.
DescentsTo(f, k, b) ==
  /\ f \in [Allocated -> Allocated]
  /\ \A n \in Allocated : heap[n].level <= b =>
       f[n] = IF isleafnode(n) THEN n ELSE f[childFor(n, k)]

\* Descents end: the levels are natural numbers.
LEMMA DescentsEnd ==
  ASSUME ElasticInv, NEW own, NEW led, Placed(own, led), NEW k \in Keys
  PROVE  \E f : Descents(f, k)
<1>1. /\ IsFiniteSet(Allocated) /\ TypeOK
      /\ \A n \in Inner : n \in Allocated /\ n \notin Leaves
      /\ Allocated = Leaves \cup Inner
  BY OrderFacts, NodeKinds DEF ElasticInv, Counted
<1>2. /\ \A n \in Leaves : heap[n].level = 0
      /\ \A n \in Allocated : heap[n].level \in Nat
      /\ \A n \in Allocated : isleafnode(n) <=> n \in Leaves
  <2>1. \A n \in Leaves : heap[n].level = 0
    BY DEF Leaves
  <2>2. QED
    BY <1>1, <2>1, ChildBelow DEF isleafnode, Leaves
<1>3. \A n \in Inner : /\ childFor(n, k) \in Allocated
                       /\ heap[childFor(n, k)].level < heap[n].level
  BY ChildBelow
<1> DEFINE bad == {b \in Nat : ~\E f : DescentsTo(f, k, b)}
<1>4. bad = {}
  <2>1. SUFFICES ASSUME bad # {} PROVE FALSE
    OBVIOUS
  <2>2. bad \in SUBSET Nat
    OBVIOUS
  <2>3. PICK b \in bad : \A c \in bad : b <= c
    BY <2>1, <2>2, LeastNatural
  <2>4. b \in Nat /\ ~\E f : DescentsTo(f, k, b)
    OBVIOUS
  <2>5. CASE b = 0
    <3>1. PICK f : f = [n \in Allocated |-> n]
      OBVIOUS
    <3>2. ASSUME NEW n \in Allocated, heap[n].level <= 0 PROVE isleafnode(n)
      BY <1>2, <3>2 DEF isleafnode
    <3>3. DescentsTo(f, k, b)
      BY <2>5, <3>1, <3>2 DEF DescentsTo
    <3>4. QED
      BY <2>4, <3>3
  <2>6. CASE b # 0
    <3>1. b - 1 \in Nat /\ ~(b <= b - 1)
      BY <2>4, <2>6
    <3>2. \E f : DescentsTo(f, k, b - 1)
      BY <2>3, <3>1
    <3>3. PICK f : DescentsTo(f, k, b - 1)
      BY <3>2
    <3>4. /\ f \in [Allocated -> Allocated]
          /\ \A n \in Allocated : heap[n].level <= b - 1 =>
               f[n] = IF isleafnode(n) THEN n ELSE f[childFor(n, k)]
      BY <3>3 DEF DescentsTo
    <3>5. PICK g : g = [n \in Allocated |-> IF isleafnode(n) THEN n
                                            ELSE f[childFor(n, k)]]
      OBVIOUS
    <3>6. g \in [Allocated -> Allocated]
      BY <1>1, <1>2, <1>3, <3>4, <3>5
    <3>7. \A n \in Allocated : heap[n].level <= b - 1 => g[n] = f[n]
      BY <3>4, <3>5
    <3>8. \A n \in Inner : heap[n].level <= b =>
            heap[childFor(n, k)].level <= b - 1
      BY <1>1, <1>2, <1>3, <2>4
    <3>9. \A n \in Allocated : heap[n].level <= b =>
            g[n] = IF isleafnode(n) THEN n ELSE g[childFor(n, k)]
      BY <1>1, <1>2, <1>3, <3>5, <3>7, <3>8
    <3>10. DescentsTo(g, k, b)
      BY <3>6, <3>9 DEF DescentsTo
    <3>11. QED
      BY <2>4, <3>10
  <2>7. QED
    BY <2>5, <2>6
<1> HIDE DEF bad
<1>5. \A b \in Nat : \E f : DescentsTo(f, k, b)
  BY <1>4 DEF bad
<1>6. \E b \in Nat : \A n \in Allocated : heap[n].level <= b
  <2>1. CASE Allocated = {}
    BY <2>1
  <2>2. CASE Allocated # {}
    <3>1. PICK S : S = {heap[n].level : n \in Allocated}
      OBVIOUS
    <3>2. S \in SUBSET Nat /\ S # {}
      BY <1>2, <2>2, <3>1
    <3>3. IsFiniteSet(S)
      <4>1. PICK f : f = [n \in Allocated |-> heap[n].level]
        OBVIOUS
      <4>2. f \in Surjection(Allocated, S)
        BY <3>1, <4>1 DEF Surjection
      <4>3. QED
        BY <1>1, <4>2, FS_Surjection
    <3>4. \E b \in S : \A c \in S : c <= b
      BY <3>2, <3>3, GreatestNatural
    <3>5. QED
      BY <3>1, <3>2, <3>4
  <2>3. QED
    BY <2>1, <2>2
<1>7. PICK b \in Nat : \A n \in Allocated : heap[n].level <= b
  BY <1>6
<1>8. PICK f : DescentsTo(f, k, b)
  BY <1>5
<1>9. f = [n \in DOMAIN heap |-> IF isleafnode(n) THEN n
                                 ELSE f[heap[n].childid[find_lower(n, k) + 1]]]
  BY <1>7, <1>8 DEF DescentsTo, childFor, Allocated
<1>10. QED
  BY <1>9 DEF Descents

\* A descent for a key ends, from a node that owns it, at a leaf that does.
LEMMA DescentOwned ==
  ASSUME ElasticInv, newchild = Null, NEW own \in [Allocated -> SUBSET Keys],
         NEW led, Placed(own, led), NEW k \in Keys, NEW f, Descents(f, k),
         NEW r \in Allocated, k \in own[r]
  PROVE  f[r] \in Leaves /\ k \in own[f[r]]
<1>1. /\ \A n \in Leaves : n \in Allocated
      /\ \A n \in Inner : n \in Allocated
      /\ Allocated = Leaves \cup Inner
      /\ Null \notin Allocated
  BY OrderFacts, NodeKinds
<1>2. /\ \A n \in Leaves : f[n] = n
      /\ \A n \in Inner : f[n] = f[childFor(n, k)]
  <2>1. \A n \in Allocated : f[n] = IF isleafnode(n) THEN n ELSE f[childFor(n, k)]
    BY DEF Descents, childFor, Allocated
  <2>2. \A n \in Allocated : isleafnode(n) <=> n \in Leaves
    BY DEF isleafnode, Leaves
  <2>3. \A n \in Inner : n \notin Leaves
    BY DEF Inner
  <2>4. QED
    BY <1>1, <2>1, <2>2, <2>3
<1>3. \A n \in Allocated : own[n] = led[n]
  BY <1>1 DEF Placed
<1>4. \A n \in Inner : k \in own[n] => k \in own[childFor(n, k)]
  BY <1>1, <1>3, ChildBelow
<1>5. PICK wrong : wrong = {n \in Allocated : /\ k \in own[n]
                                              /\ ~(f[n] \in Leaves /\ k \in own[f[n]])}
  OBVIOUS
<1>6. SUFFICES ASSUME wrong # {} PROVE FALSE
  BY <1>5
<1>7. \A n \in wrong : /\ n \in Inner /\ childFor(n, k) \in wrong
                       /\ heap[n].level \in Nat
                       /\ heap[childFor(n, k)].level < heap[n].level
  <2>1. SUFFICES ASSUME NEW n \in wrong
                 PROVE  /\ n \in Inner /\ childFor(n, k) \in wrong
                        /\ heap[n].level \in Nat
                        /\ heap[childFor(n, k)].level < heap[n].level
    OBVIOUS
  <2>2. n \in Inner
    BY <1>1, <1>2, <1>5, <2>1
  <2>3. /\ childFor(n, k) \in Allocated
        /\ heap[n].level \in Nat
        /\ heap[childFor(n, k)].level < heap[n].level
    BY <2>2, ChildBelow
  <2>4. QED
    BY <1>2, <1>4, <1>5, <2>1, <2>2, <2>3
<1>8. PICK S : S = {heap[n].level : n \in wrong}
  OBVIOUS
<1>9. S \in SUBSET Nat /\ S # {}
  BY <1>6, <1>7, <1>8
<1>10. PICK l \in S : \A j \in S : l <= j
  BY <1>9, LeastNatural
<1>11. PICK n \in wrong : heap[n].level = l
  BY <1>8
<1>12. heap[childFor(n, k)].level \in S
  BY <1>7, <1>8, <1>11
<1>13. l \in Nat /\ heap[childFor(n, k)].level \in Nat
  BY <1>9, <1>12
<1>14. QED
  BY <1>7, <1>10, <1>11, <1>12, <1>13

\* leafOf is where the descents end.
LEMMA LeafOfDescent ==
  ASSUME NEW k, NEW g, Descents(g, k)
  PROVE  \E f : Descents(f, k) /\ leafOf(k) = f[root]
<1> DEFINE down == CHOOSE f : Descents(f, k)
<1>1. Descents(down, k)
  OBVIOUS
<1>2. leafOf(k) = down[root]
  BY DEF leafOf, Descents
<1>3. QED
  BY <1>1, <1>2

\* A key that was inserted is in the leaf where the descent for it ends.
LEMMA StoredFound ==
  ASSUME OrderInv, pc = "idle", root # Null, NEW k \in stored
  PROVE  k \in heap[leafOf(k)].items
<1>1. /\ ElasticInv /\ newchild = Null /\ root \in Allocated /\ k \in Keys
  BY OrderFacts DEF OrderInv, TypeOK
<1>2. PICK own \in [Allocated -> SUBSET Keys] :
        \E led \in [Allocated -> SUBSET Keys] : Placed(own, led)
  BY DEF OrderInv, Ordered
<1>3. PICK led \in [Allocated -> SUBSET Keys] : Placed(own, led)
  BY <1>2
<1>4. \E g : Descents(g, k)
  BY <1>1, <1>3, DescentsEnd
<1>5. PICK f : Descents(f, k) /\ leafOf(k) = f[root]
  BY <1>4, LeafOfDescent
<1>6. k \in own[root]
  <2>1. root # newchild /\ led[root] = Keys
    BY <1>1, <1>3 DEF Placed
  <2>2. QED
    BY <1>1, <1>3, <2>1 DEF Placed
<1>7. f[root] \in Leaves /\ k \in own[f[root]]
  BY <1>1, <1>2, <1>3, <1>5, <1>6, DescentOwned
<1>8. PICK n \in Leaves : k \in heap[n].items
  <2>1. UNION {heap[n].items : n \in Leaves} = stored \cup beingStored
    BY <1>1 DEF ElasticInv, Tree
  <2>2. QED
    BY <2>1
<1>9. /\ k \in own[n]
      /\ n # f[root] => own[n] \cap own[f[root]] = {}
  BY <1>3, <1>7, <1>8 DEF Placed, LeavesInOrder
<1>10. n = f[root]
  BY <1>7, <1>9
<1>11. QED
  BY <1>5, <1>8, <1>10

\* A key that was inserted stays where exists and find descend to, whatever
\* was split, transferred or extended since, and so does nothing else.
THEOREM KeysStayFound == Spec => []KeysFound
<1>1. OrderInv => KeysFound
  <2>1. SUFFICES ASSUME OrderInv, Quiet PROVE KeysFound
    BY DEF KeysFound
  <2>2. ElasticInv /\ pc = "idle" /\ root # Null
    BY <2>1 DEF OrderInv, Quiet
  <2>3. \A k \in stored : k \in heap[leafOf(k)].items
    BY <2>1, <2>2, StoredFound
  <2>4. UNION {heap[n].items : n \in Leaves} = stored
    BY <2>2 DEF ElasticInv, Tree, beingStored
  <2>5. QED
    BY <2>3, <2>4 DEF KeysFound
<1>2. QED
  BY <1>1, StaysOrdered, PTL

\* Between two calls the leaves are one doubly linked list in the order of
\* their keys, although leaves are replaced behind their neighbours' backs.
THEOREM LeavesStayLinked == Spec => []LeavesLinked
<1>1. OrderInv => LeavesLinked
  <2>1. SUFFICES ASSUME OrderInv, Quiet PROVE LeavesLinked
    BY DEF LeavesLinked
  <2>2. ElasticInv /\ pc = "idle" /\ root # Null /\ ListLinked
    BY <2>1, OrderFacts DEF OrderInv, Quiet
  <2>3. Cardinality({n \in Leaves : heap[n].prevleaf = Null}) = 1
    <3>1. PICK n \in Leaves : heap[n].prevleaf = Null
      BY <2>2 DEF ListLinked
    <3>2. \A m \in Leaves : heap[m].prevleaf = Null => m = n
      BY <2>2, <3>1 DEF ListLinked
    <3>3. {m \in Leaves : heap[m].prevleaf = Null} = {n}
      BY <3>1, <3>2
    <3>4. QED
      BY <3>3, FS_Singleton
  <2>4. \A n \in Leaves : heap[n].prevleaf # Null =>
          /\ heap[n].prevleaf \in Leaves
          /\ heap[heap[n].prevleaf].nextleaf = n
    BY <2>2 DEF ListLinked
  <2>5. ASSUME NEW n \in Leaves, heap[n].nextleaf # Null
        PROVE  /\ heap[n].nextleaf \in Leaves
               /\ heap[heap[n].nextleaf].prevleaf = n
               /\ \A j \in heap[n].items, k \in heap[heap[n].nextleaf].items :
                    j < k
    <3>1. /\ heap[n].nextleaf \in Leaves
          /\ heap[heap[n].nextleaf].prevleaf = n
      BY <2>2, <2>5 DEF ListLinked
    <3>2. PICK own \in [Allocated -> SUBSET Keys] :
            \E led \in [Allocated -> SUBSET Keys] : Placed(own, led)
      BY <2>1 DEF OrderInv, Ordered
    <3>3. LeavesInOrder(own)
      BY <3>2 DEF Placed
    <3>4. QED
      BY <2>5, <3>1, <3>3 DEF LeavesInOrder
  <2>6. QED
    BY <2>3, <2>4, <2>5 DEF LeavesLinked
<1>2. QED
  BY <1>1, StaysOrdered, PTL
=============================================================================
