---------------------------- MODULE ElasticTree ----------------------------
(***************************************************************************)
(* The elastic B+-tree of blindi_btree_hybrid_nodes.h: leaves are plain    *)
(* B+-tree leaves until the tree holds limit2ShouldCompress items, and     *)
(* from then on leaves are replaced, one at a time and as inserts come by, *)
(* by compact leaves of one, two, four or eight times their slots.         *)
(*                                                                         *)
(* A leaf is modelled by the set of its keys: the slots of both kinds of   *)
(* leaf are in key order, and what a compact node does with its keys is    *)
(* the subject of SeqTreeNode.  What is modelled here is everything that   *)
(* can go wrong around the leaves: the descent, the replacement of a leaf  *)
(* while a list and a parent point to it, the splits on the way back up,   *)
(* the statistics, and the status machine they drive.                      *)
(*                                                                         *)
(* Insertion is the only operation: erase does not compile for this tree.  *)
(* The action of a step is one stretch of insert_start or insert_descend;  *)
(* pc says where the call is.                                              *)
(***************************************************************************)
EXTENDS Integers, Sequences, FiniteSets, FiniteSetsExt, SequencesExt, Functions, TLC

CONSTANTS Keys,          \* the keys that are inserted
          Nodes,         \* the addresses of nodes
          Null,          \* the null pointer
          leafslotmax,   \* slots of a plain leaf
          innerslotmax,  \* slots of an inner node
          MaxMulti,      \* BLINDI_MAX_MULTI_SIZE
          ShouldLimit,   \* initial limit2ShouldCompress, in items,
          MustLimit,     \* and limit2MustCompress
          MustOnly,      \* MUST_ONLY
          NodeBytes,     \* sizeof(node), which the first root takes from
          InnerBytes,    \* limit2MustCompress, sizeof(inner_node), which
                         \* every further root takes from it,
          SizeTop        \* and the number of values of size_type

ASSUME ElasticAssumption ==
  /\ Keys \subseteq Nat
  /\ Nodes \subseteq Nat
  /\ Null \notin Nodes
  /\ leafslotmax \in Nat /\ leafslotmax >= 2
  /\ innerslotmax \in Nat /\ innerslotmax >= 3
  /\ MaxMulti \in {1, 2, 4, 8}
  /\ MustOnly \in BOOLEAN
  /\ NodeBytes \in Nat /\ InnerBytes \in Nat
  /\ SizeTop \in Nat /\ ShouldLimit \in 0 .. SizeTop - 1
  /\ MustLimit \in 0 .. SizeTop - 1
  \* A root that is a leaf is never replaced: the limits are millions.
  /\ ShouldLimit >= leafslotmax

VARIABLES
  root, head, tail,     \* m_root, m_headleaf, m_tailleaf
  heap,                 \* the nodes: a function on the addresses in use
  hybridstatus,         \* m_stats: the status,
  limit2MustCompress,   \* the limit that roots are taken from,
  stats,                \* and the counters
  pc, key,              \* the call under way: where it is, its key,
  cur, path,            \* its node, and the inner nodes and slots above;
  newkey, newchild,     \* the split on its way up
  stored                \* the keys inserted (history)

tree == <<root, head, tail, heap>>
limits == <<hybridstatus, limit2MustCompress>>
split == <<newkey, newchild>>
vars == <<tree, limits, stats, pc, key, cur, path, split, stored>>

-----------------------------------------------------------------------------
(* Nodes.  A leaf of blindileaftype 0 is a plain one. *)

Types == {t \in {0, 1, 2, 4, 8} : t <= MaxMulti}

Pointers == Nodes \cup {Null}

LeafNodes == [level : {0}, blindileaftype : Types, items : SUBSET Keys,
              slotuse : Nat, prevleaf : Pointers, nextleaf : Pointers]

InnerNodes == [level : Nat \ {0}, slotkey : Seq(Keys), childid : Seq(Nodes),
               alreadycomprerss : BOOLEAN]

\* The nodes in use, and that no pointer to a freed one is left.
Allocated == DOMAIN heap
Leaves == {n \in Allocated : heap[n].level = 0}
Inner == Allocated \ Leaves

TypeOK ==
  /\ Allocated \subseteq Nodes
  /\ heap \in [Allocated -> LeafNodes \cup InnerNodes]
  /\ \A n \in Inner : heap[n].childid \in Seq(Allocated)
  /\ root \in Allocated \cup {Null}
  /\ {head, tail} \subseteq Pointers
  /\ hybridstatus \in {"CONTINUE", "SHOULD_COMPRESS", "MUST_COMPRESS"}
  /\ limit2MustCompress \in 0 .. SizeTop - 1
  /\ stats \in [leaves : Nat, innernodes : Nat, itemcount : Nat,
                ofType : [Types -> Nat]]
  /\ pc \in {"idle", "descend", "store", "unwind"}
  /\ key \in Keys \cup {Null} /\ newkey \in Keys \cup {Null}
  /\ {cur, newchild} \subseteq Allocated \cup {Null}
  /\ path \in Seq(Inner \X Nat)
  /\ stored \subseteq Keys

Init ==
  /\ root = Null /\ head = Null /\ tail = Null
  /\ heap = <<>>
  /\ hybridstatus = "CONTINUE"
  /\ limit2MustCompress = MustLimit
  /\ stats = [leaves |-> 0, innernodes |-> 0, itemcount |-> 0,
              ofType |-> [t \in Types |-> 0]]
  /\ pc = "idle"
  /\ key = Null /\ cur = Null /\ path = <<>>
  /\ newkey = Null /\ newchild = Null
  /\ stored = {}

\* What the allocator returns: addresses are used again once freed.
canAllocate == Nodes \ Allocated # {}
fresh == CHOOSE n \in Nodes \ Allocated : TRUE

put(h, n, contents) ==
  [m \in DOMAIN h \cup {n} |-> IF m = n THEN contents ELSE h[m]]
without(h, n) == Restrict(h, DOMAIN h \ {n})

isleafnode(n) == heap[n].level = 0
isblindileafnode(n) == heap[n].blindileaftype > 0
isfullbtree(n) == heap[n].slotuse = leafslotmax
isfullblindi(n) == heap[n].slotuse = leafslotmax * heap[n].blindileaftype
isblindi_can_extend(n) == heap[n].blindileaftype # MaxMulti
isfull(n) == Len(heap[n].slotkey) = innerslotmax

\* The number of slots with a key below k, in an inner node and in a leaf.
find_lower(n, k) ==
  IF isleafnode(n)
  THEN Cardinality({j \in heap[n].items : j < k})
  ELSE Cardinality({i \in 1 .. Len(heap[n].slotkey) : heap[n].slotkey[i] < k})

\* The counters after a leaf of type t is allocated, and after one is freed.
\* The mutant forgets the counter of its type.
allocated(s, t) == [s EXCEPT !.leaves = @ + 1, !.ofType[t] = @ + 1]
freedUncounted(s, t) == [s EXCEPT !.leaves = @ - 1]
freed(s, t) == [s EXCEPT !.leaves = @ - 1, !.ofType[t] = @ - 1]

setNext(h, n, m) == IF n = Null THEN h ELSE [h EXCEPT ![n].nextleaf = m]
setPrev(h, n, m) == IF n = Null THEN h ELSE [h EXCEPT ![n].prevleaf = m]

setChild(h, n, slot, m) ==
  [h EXCEPT ![n].childid = [@ EXCEPT ![slot + 1] = m]]

\* Mutants of replaceLeaf: the parent keeps the freed leaf, and the list is
\* only connected forwards.
replaceLeafUnconnected(old, t, at) ==
  without(put(heap, fresh, [heap[old] EXCEPT !.blindileaftype = t]), old)
replaceLeafOneWay(old, t, at) ==
  LET both == put(heap, fresh, [heap[old] EXCEPT !.blindileaftype = t])
  IN  without(setNext(setChild(both, at[1], at[2], fresh),
                      heap[old].prevleaf, fresh), old)

\* A leaf is replaced by a leaf of another type with the same keys, the
\* child in a slot of the node above; a root that is a leaf has none above.
replaceLeaf(old, t, at) ==
  LET both == put(heap, fresh, [heap[old] EXCEPT !.blindileaftype = t])
      linked == setPrev(setNext(setChild(both, at[1], at[2], fresh),
                                heap[old].prevleaf, fresh),
                        heap[old].nextleaf, fresh)
  IN  without(IF at = <<>> THEN both ELSE linked, old)

-----------------------------------------------------------------------------
(* insert_start: a call, with a root made for the first one. *)

\* Keys are inserted once: "We currently DO NOT support duplicated keys".
Begin(k) ==
  /\ pc = "idle"
  /\ k \notin stored
  /\ key' = k
  /\ pc' = "descend"
  /\ path' = <<>>
  /\ newchild' = Null /\ newkey' = Null
  /\ \/ /\ root # Null
        /\ cur' = root
        /\ UNCHANGED <<tree, limit2MustCompress, stats>>
     \/ /\ root = Null /\ canAllocate
        /\ root' = fresh /\ head' = fresh /\ tail' = fresh /\ cur' = fresh
        /\ heap' = put(heap, fresh,
                       [level |-> 0, blindileaftype |-> 0, items |-> {},
                        slotuse |-> 0, prevleaf |-> Null, nextleaf |-> Null])
        /\ limit2MustCompress' = (limit2MustCompress - NodeBytes) % SizeTop
        /\ stats' = allocated(stats, 0)
  /\ UNCHANGED <<hybridstatus, stored>>

\* insert_descend at an inner node: one level down.
Descend ==
  /\ pc = "descend"
  /\ ~isleafnode(cur)
  /\ LET slot == find_lower(cur, key)
     IN  /\ path' = Append(path, <<cur, slot>>)
         /\ cur' = heap[cur].childid[slot + 1]
  /\ UNCHANGED <<tree, limits, stats, pc, key, split, stored>>

above == IF path = <<>> THEN <<>> ELSE Last(path)

\* Mutant: a full plain leaf is split until the tree must compress.
mustTransferLate == hybridstatus = "MUST_COMPRESS"

\* The plain leaf is transferred before it is inserted into.
mustTransfer ==
  \/ hybridstatus = "MUST_COMPRESS"
  \/ hybridstatus = "SHOULD_COMPRESS" /\ isfullbtree(cur)

\* insert_descend at a plain leaf: transfer_btree_node_blindi1_node, or
\* transfer_btree_node_blindi2_node for a full one.
TransferLeaf ==
  /\ pc = "descend"
  /\ isleafnode(cur) /\ ~isblindileafnode(cur)
  /\ mustTransfer /\ canAllocate
  /\ LET t == IF isfullbtree(cur) /\ MaxMulti > 1 THEN 2 ELSE 1
     IN  /\ heap' = replaceLeaf(cur, t, above)
         /\ stats' = freed(allocated(stats, t), 0)
  /\ cur' = fresh
  /\ pc' = "store"
  /\ UNCHANGED <<root, head, tail, limits, key, path, split, stored>>

\* The slots of the plain leaves that the loop over the children looks at;
\* it ends before the last child.  The mutant also begins too late.
plainSiblingsButFirst(parent) ==
  {i \in 2 .. Len(heap[parent].slotkey) :
     ~isblindileafnode(heap[parent].childid[i])}
plainSiblings(parent) ==
  {i \in 1 .. Len(heap[parent].slotkey) :
     ~isblindileafnode(heap[parent].childid[i])}

\* insert_descend at a compact leaf when the tree must compress: the first
\* plain leaf under the same parent, the last child left out, is
\* transferred; when there is none the parent is marked.
CompressSibling ==
  /\ pc = "descend"
  /\ isleafnode(cur) /\ isblindileafnode(cur)
  /\ hybridstatus = "MUST_COMPRESS"
  /\ ~heap[above[1]].alreadycomprerss
  /\ LET parent == above[1]
         plain == plainSiblings(parent)
     IN  \/ /\ plain # {} /\ canAllocate
            /\ heap' = replaceLeaf(heap[parent].childid[Min(plain)], 1,
                                   <<parent, Min(plain) - 1>>)
            /\ stats' = freed(allocated(stats, 1), 0)
         \/ /\ plain = {}
            /\ heap' = [heap EXCEPT ![parent].alreadycomprerss = TRUE]
            /\ UNCHANGED stats
  /\ pc' = "store"
  /\ UNCHANGED <<root, head, tail, limits, key, cur, path, split, stored>>

\* Neither.
KeepLeaf ==
  /\ pc = "descend"
  /\ isleafnode(cur)
  /\ IF isblindileafnode(cur)
     THEN hybridstatus = "MUST_COMPRESS" => heap[above[1]].alreadycomprerss
     ELSE ~mustTransfer
  /\ pc' = "store"
  /\ UNCHANGED <<tree, limits, stats, key, cur, path, split, stored>>

-----------------------------------------------------------------------------
(* insert_descend: the key is stored. *)

with(leaf, k) == [leaf EXCEPT !.items = @ \cup {k}, !.slotuse = @ + 1]

\* A leaf, plain or compact, with room.
StoreRoom ==
  /\ pc = "store"
  /\ IF isblindileafnode(cur) THEN ~isfullblindi(cur) ELSE ~isfullbtree(cur)
  /\ heap' = [heap EXCEPT ![cur] = with(@, key)]
  /\ pc' = "unwind"
  /\ UNCHANGED <<root, head, tail, limits, stats, key, cur, path, split, stored>>

\* A full compact leaf that may grow: transfer_blindixtoblibdi2x.
StoreExtend ==
  /\ pc = "store"
  /\ isblindileafnode(cur) /\ isfullblindi(cur) /\ isblindi_can_extend(cur)
  /\ canAllocate
  /\ LET t == heap[cur].blindileaftype
         grown == replaceLeaf(cur, 2 * t, above)
     IN  /\ heap' = [grown EXCEPT ![fresh] = with(@, key)]
         /\ stats' = freed(allocated(stats, 2 * t), t)
  /\ cur' = fresh
  /\ pc' = "unwind"
  /\ UNCHANGED <<root, head, tail, limits, key, path, split, stored>>

\* Mutant of halves: the middle key stays.
halvesMiddleStays(n) ==
  LET mid == heap[n].slotuse \div 2
      new == fresh
      low == {k \in heap[n].items : find_lower(n, k) <= mid}
      right == [heap[n] EXCEPT !.items = @ \ low, !.slotuse = @ - mid,
                               !.prevleaf = n]
      left == [heap[n] EXCEPT !.items = low, !.slotuse = mid, !.nextleaf = new]
  IN  setPrev(put(put(heap, n, left), new, right), heap[n].nextleaf, new)

\* split_btree_leaf_node and split_blindi_leaf_node1 .. 8: the upper half
\* goes into a new leaf of the same type behind this one.
halves(n) ==
  LET mid == heap[n].slotuse \div 2
      new == fresh
      low == {k \in heap[n].items : find_lower(n, k) < mid}
      right == [heap[n] EXCEPT !.items = @ \ low, !.slotuse = @ - mid,
                               !.prevleaf = n]
      left == [heap[n] EXCEPT !.items = low, !.slotuse = mid, !.nextleaf = new]
  IN  setPrev(put(put(heap, n, left), new, right), heap[n].nextleaf, new)

\* A full leaf that may not grow is split, and the key goes into the half
\* it belongs to.  A plain leaf compares slots, a compact leaf the key with
\* the largest one that stayed.  A key above it that stays all the same
\* becomes the one the parent is given.
StoreSplit ==
  /\ pc = "store"
  /\ \/ ~isblindileafnode(cur) /\ isfullbtree(cur)
     \/ isblindileafnode(cur) /\ isfullblindi(cur) /\ ~isblindi_can_extend(cur)
  /\ canAllocate
  /\ LET new == fresh
         h == halves(cur)
         splitkey == Max(h[cur].items)
         goesRight == IF isblindileafnode(cur)
                      THEN key > splitkey
                      ELSE find_lower(cur, key) >= h[cur].slotuse
     IN  /\ heap' = [h EXCEPT ![IF goesRight THEN new ELSE cur] = with(@, key)]
         /\ newchild' = new
         /\ newkey' = IF ~goesRight /\ key > splitkey THEN key ELSE splitkey
         /\ tail' = IF heap[cur].nextleaf = Null THEN new ELSE tail
         /\ stats' = allocated(stats, heap[cur].blindileaftype)
  /\ pc' = "unwind"
  /\ UNCHANGED <<root, head, limits, key, cur, path, stored>>

-----------------------------------------------------------------------------
(* insert_descend at the inner nodes, on the way back. *)

\* Mutant: the new child enters before the child it was split from.
addChildBefore(node, slot) ==
  [node EXCEPT !.slotkey = InsertAt(@, slot + 1, newkey),
               !.childid = InsertAt(@, slot + 1, newchild)]

\* The new child and its key enter behind the slot of the descent.
addChild(node, slot) ==
  [node EXCEPT !.slotkey = InsertAt(@, slot + 1, newkey),
               !.childid = InsertAt(@, slot + 2, newchild)]

LinkChild ==
  /\ pc = "unwind"
  /\ newchild # Null /\ path # <<>>
  /\ LET n == above[1]
     IN  /\ ~isfull(n)
         /\ heap' = [heap EXCEPT ![n] = addChild(@, above[2])]
  /\ newchild' = Null /\ newkey' = Null
  /\ path' = Front(path)
  /\ UNCHANGED <<root, head, tail, limits, stats, pc, key, cur, stored>>

\* split_inner_node: where the keys are divided.
splitMid(slots, addslot) ==
  LET mid == slots \div 2
  IN  IF addslot <= mid /\ mid > slots - (mid + 1) THEN mid - 1 ELSE mid

SplitInner ==
  /\ pc = "unwind"
  /\ newchild # Null /\ path # <<>>
  /\ LET n == above[1]
         slot == above[2]
         old == heap[n]
         c == Len(old.slotkey)
         mid == splitMid(c, slot)
         new == fresh
         left == [old EXCEPT !.slotkey = SubSeq(@, 1, mid),
                             !.childid = SubSeq(@, 1, mid + 1)]
         right == [level |-> old.level, alreadycomprerss |-> FALSE,
                   slotkey |-> SubSeq(old.slotkey, mid + 2, c),
                   childid |-> SubSeq(old.childid, mid + 2, c + 1)]
         splitkey == old.slotkey[mid + 1]
         both(l, r) == put(put(heap, n, l), new, r)
     IN  /\ isfull(n) /\ canAllocate
         /\ newchild' = new
         /\ stats' = [stats EXCEPT !.innernodes = @ + 1]
         /\ \/ \* the new child comes between the halves
               /\ slot = mid + 1 /\ mid < Len(right.slotkey)
               /\ heap' = both([left EXCEPT !.slotkey = Append(@, splitkey),
                                           !.childid = Append(@, right.childid[1])],
                              [right EXCEPT !.childid = [@ EXCEPT ![1] = newchild]])
               /\ newkey' = newkey
            \/ /\ slot >= mid + 1 /\ ~(slot = mid + 1 /\ mid < Len(right.slotkey))
               /\ heap' = both(left, addChild(right, slot - (mid + 1)))
               /\ newkey' = splitkey
            \/ /\ slot < mid + 1
               /\ heap' = both(addChild(left, slot), right)
               /\ newkey' = splitkey
  /\ path' = Front(path)
  /\ UNCHANGED <<root, head, tail, limits, pc, key, cur, stored>>

\* The switch at the end of insert_start.  MAY_UNCOMPRESS is never entered,
\* and no capacity is below the limit 0 that leads back from SHOULD_COMPRESS.
nextStatus(s, plain, count, must) ==
  CASE s = "CONTINUE" /\ plain > 0 /\ count > ShouldLimit ->
         IF MustOnly THEN "MUST_COMPRESS" ELSE "SHOULD_COMPRESS"
    [] s = "SHOULD_COMPRESS" /\ count > must -> "MUST_COMPRESS"
    [] s = "MUST_COMPRESS" /\ plain = 0 -> "CONTINUE"
    [] OTHER -> s

\* insert_start after the descent: a new root if the old one was split, the
\* item count and the status.
Finish ==
  /\ pc = "unwind"
  /\ newchild = Null \/ path = <<>>
  /\ LET grows == newchild # Null
         new == fresh
         must == IF grows THEN (limit2MustCompress - InnerBytes) % SizeTop
                          ELSE limit2MustCompress
     IN  /\ root' = IF grows THEN new ELSE root
         /\ grows => canAllocate
         /\ heap' = IF grows
                    THEN put(heap, new, [level |-> heap[root].level + 1,
                                         slotkey |-> <<newkey>>,
                                         childid |-> <<root, newchild>>,
                                         alreadycomprerss |-> FALSE])
                    ELSE heap
         /\ limit2MustCompress' = must
         /\ stats' = [stats EXCEPT !.itemcount = @ + 1,
                                   !.innernodes = @ + IF grows THEN 1 ELSE 0]
         /\ hybridstatus' = nextStatus(hybridstatus, stats.ofType[0],
                                       stats.itemcount + 1, must)
  /\ stored' = stored \cup {key}
  /\ pc' = "idle"
  /\ key' = Null /\ cur' = Null /\ path' = <<>>
  /\ newkey' = Null /\ newchild' = Null
  /\ UNCHANGED <<head, tail>>

\* What a call does next; it runs to its end before another one begins.
Step ==
  \/ Descend
  \/ TransferLeaf \/ CompressSibling \/ KeepLeaf
  \/ StoreRoom \/ StoreExtend \/ StoreSplit
  \/ LinkChild \/ SplitInner \/ Finish

Next == (\E k \in Keys : Begin(k)) \/ Step

Spec == Init /\ [][Next]_vars

-----------------------------------------------------------------------------
(* Properties. *)

\* Between two calls there is a tree to look at.
Quiet == pc = "idle" /\ root # Null

\* The leaves below a node from left to right.
leavesBelow[n \in DOMAIN heap] ==
  IF isleafnode(n) THEN <<n>>
  ELSE FlattenSeq([i \in 1 .. Len(heap[n].childid) |->
                     leavesBelow[heap[n].childid[i]]])

\* The leaf that exists and find descend to.
leafOf(k) ==
  LET down[n \in DOMAIN heap] ==
        IF isleafnode(n) THEN n ELSE down[heap[n].childid[find_lower(n, k) + 1]]
  IN  down[root]

\* A key that was inserted stays where a descent for it ends, whatever was
\* split, transferred or extended since, and so does nothing else: the
\* leaves hold what was stored and no more.
KeysFound ==
  Quiet => /\ \A k \in stored : k \in heap[leafOf(k)].items
           /\ UNION {heap[n].items : n \in Leaves} = stored

\* verify_node of the links: all leaves are one doubly linked list, although
\* leaves are replaced behind their neighbours' backs, and each leaf's keys
\* are above those of the one before.
LeavesLinked ==
  Quiet =>
    /\ Cardinality({n \in Leaves : heap[n].prevleaf = Null}) = 1
    /\ \A n \in Leaves : heap[n].prevleaf # Null =>
         /\ heap[n].prevleaf \in Leaves
         /\ heap[heap[n].prevleaf].nextleaf = n
    /\ \A n \in Leaves : heap[n].nextleaf # Null =>
         /\ heap[n].nextleaf \in Leaves
         /\ heap[heap[n].nextleaf].prevleaf = n
         /\ \A j \in heap[n].items, k \in heap[heap[n].nextleaf].items : j < k

\* The slots that point to a node.
slotsOf(n) ==
  {slot \in Inner \X (1 .. innerslotmax + 1) :
     /\ slot[2] <= Len(heap[slot[1]].childid)
     /\ heap[slot[1]].childid[slot[2]] = n}

\* verify of the statistics: the counters that drive the status machine are
\* what is there, and every node allocated and not freed is in the tree.
StatsExact ==
  pc = "idle" =>
    /\ stats = [leaves |-> Cardinality(Leaves),
                innernodes |-> Cardinality(Inner),
                itemcount |-> Cardinality(stored),
                ofType |-> [t \in Types |->
                   Cardinality({n \in Leaves : heap[n].blindileaftype = t})]]
    /\ \A n \in Allocated :
         Cardinality(slotsOf(n)) = IF n = root THEN 0 ELSE 1

\* verify_node: no node but the root is less than half full, none is over
\* full, and the number of a leaf's keys is what its slotuse says.
NodesFilled ==
  Quiet =>
    /\ \A n \in Leaves :
         /\ heap[n].slotuse = Cardinality(heap[n].items)
         /\ n # root => heap[n].slotuse >= leafslotmax \div 2
         /\ heap[n].slotuse <= IF isblindileafnode(n)
                               THEN leafslotmax * heap[n].blindileaftype
                               ELSE leafslotmax
    /\ \A n \in Inner :
         /\ Len(heap[n].childid) = Len(heap[n].slotkey) + 1
         /\ n # root => Len(heap[n].slotkey) >= innerslotmax \div 2
         /\ Len(heap[n].slotkey) <= innerslotmax
         /\ \A i \in 1 .. Len(heap[n].childid) :
              heap[heap[n].childid[i]].level + 1 = heap[n].level

\* Once the tree has begun to compress it makes no plain leaf any more, in
\* whatever status it is later: the memory the elastic tree gives back is
\* never taken again by a split.
PlainLeavesShrink ==
  [][ (stats.itemcount > ShouldLimit) =>
        stats'.ofType[0] <= stats.ofType[0] ]_vars

\* A parent that is marked has no plain leaf but possibly its last one: the
\* scan that the mark replaces would find nothing, however the children
\* have been moved between inner nodes since.
MarkedParentsScanned ==
  Quiet => \A n \in Inner : heap[n].alreadycomprerss =>
    \A i \in 1 .. Len(heap[n].slotkey) :
      /\ heap[n].childid[i] \in Leaves
      /\ isblindileafnode(heap[n].childid[i])

\* The comments on begin and end, and verify_leaflinks: m_headleaf is the
\* first and m_tailleaf the last leaf of the tree.
EndsOfList ==
  Quiet => /\ head = Head(leavesBelow[root])
           /\ tail = Last(leavesBelow[root])
=============================================================================
