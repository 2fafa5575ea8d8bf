---------------------------- MODULE CompactBTree ----------------------------
(***************************************************************************)
(* The B+-tree of blindi_btree_seqtree.h, of any height: insert with its   *)
(* splits, and erase with its own treatment of underflow.  A leaf that is  *)
(* less than half full is merged with a sibling if the two fit one leaf    *)
(* and is otherwise left as it is; inner nodes are merged and balanced as  *)
(* in the stx B+-tree that the code grew from.                             *)
(*                                                                         *)
(* A leaf is the set of its keys, which its compact node keeps in order    *)
(* (modules SeqTreeNode and SubTrieNode); slotuse is their number.  Slots  *)
(* are counted from 0, as in the code.                                     *)
(*                                                                         *)
(* A call is a sequence of steps.  stack holds one frame per activation of *)
(* insert_descend or erase_one_descend, with the neighbours that erase     *)
(* computes on the way down and uses, unchanged, on the way up.            *)
(***************************************************************************)
EXTENDS Integers, Sequences, FiniteSets, FiniteSetsExt, SequencesExt, Functions

CONSTANTS Keys,          \* the keys of the calls
          Nodes,         \* the addresses of nodes
          Null,          \* the null pointer
          leafslotmax,   \* slots of a leaf
          innerslotmax   \* slots of an inner node

ASSUME CompactAssumption ==
  /\ Keys \subseteq Nat
  /\ Null \notin Nodes /\ Null \notin Keys
  /\ leafslotmax \in Nat /\ leafslotmax >= 2 /\ leafslotmax % 2 = 0
  /\ innerslotmax \in Nat /\ innerslotmax >= 3

VARIABLES
  root, head, tail,     \* m_root, m_headleaf, m_tailleaf
  heap,                 \* the nodes: a function on the addresses in use
  stats,                \* m_stats
  pc, key, stack,       \* the call under way
  newkey, newchild,     \* insert: the split on its way up
  lastkey, fixmerge,    \* erase: the result on its way up (Null: no key)
  stored                \* history: the keys inserted and not erased

tree == <<root, head, tail, heap>>
split == <<newkey, newchild>>
result == <<lastkey, fixmerge>>
vars == <<tree, stats, pc, key, stack, split, result, stored>>

-----------------------------------------------------------------------------
isleafnode(n) == heap[n].level = 0

slotuseIn(h, n) == IF h[n].level = 0 THEN Cardinality(h[n].items)
                                     ELSE Len(h[n].slotkey)
slotuse(n) == slotuseIn(heap, n)

isfull(n) == slotuse(n) = IF isleafnode(n) THEN leafslotmax ELSE innerslotmax
isfew(n) == slotuse(n) <= innerslotmax \div 2

\* The first slot of an inner node whose key is not below k.
find_lower(h, n, k) ==
  IF h[n].level = 0 THEN 0
  ELSE Cardinality({i \in 1 .. Len(h[n].slotkey) : h[n].slotkey[i] < k})

child(n, slot) == heap[n].childid[slot + 1]

\* What the allocator returns: addresses are used again once freed.
canAllocate == Nodes \ DOMAIN heap # {}
fresh == CHOOSE n \in Nodes \ DOMAIN heap : TRUE

put(h, n, contents) ==
  [m \in DOMAIN h \cup {n} |-> IF m = n THEN contents ELSE h[m]]
setPrev(h, n, m) == IF n = Null THEN h ELSE [h EXCEPT ![n].prevleaf = m]

\* (A variant for the mutation runs: the counter follows leaves only.)
freedUncounted(n) == IF isleafnode(n) THEN [stats EXCEPT !.leaves = @ - 1]
                                      ELSE stats

\* free_node and its counter.
without(h, n) == Restrict(h, DOMAIN h \ {n})
freed(n) == IF isleafnode(n) THEN [stats EXCEPT !.leaves = @ - 1]
                             ELSE [stats EXCEPT !.innernodes = @ - 1]

Pointers == Nodes \cup {Null}

LeafNodes == [level : {0}, items : SUBSET Keys,
              prevleaf : Pointers, nextleaf : Pointers]
InnerNodes == [level : Nat \ {0}, slotkey : Seq(Keys), childid : Seq(Nodes)]

Frames == [node : Nodes, left : Pointers, right : Pointers,
           leftparent : Pointers, rightparent : Pointers, slot : Nat]

TypeOK ==
  /\ DOMAIN heap \subseteq Nodes
  /\ heap \in [DOMAIN heap -> LeafNodes \cup InnerNodes]
  /\ root \in DOMAIN heap \cup {Null}
  /\ {head, tail} \subseteq Pointers
  /\ stats \in [leaves : Nat, innernodes : Nat, itemcount : Nat]
  /\ pc \in {"idle", "insert", "link", "erase", "fix", "balance"}
  /\ key \in Keys \cup {Null} /\ stack \in Seq(Frames)
  /\ newkey \in Keys \cup {Null} /\ newchild \in Pointers
  /\ lastkey \in Keys \cup {Null} /\ fixmerge \in BOOLEAN
  /\ stored \subseteq Keys

Init ==
  /\ root = Null /\ head = Null /\ tail = Null
  /\ heap = <<>>
  /\ stats = [leaves |-> 0, innernodes |-> 0, itemcount |-> 0]
  /\ pc = "idle" /\ key = Null /\ stack = <<>>
  /\ newkey = Null /\ newchild = Null
  /\ lastkey = Null /\ fixmerge = FALSE
  /\ stored = {}

\* The call returns.
return ==
  /\ pc' = "idle" /\ key' = Null /\ stack' = <<>>
  /\ newkey' = Null /\ newchild' = Null
  /\ lastkey' = Null /\ fixmerge' = FALSE

-----------------------------------------------------------------------------
(* The descent *)

rootFrame(h, r, k) ==
  [node |-> r, left |-> Null, right |-> Null, leftparent |-> Null,
   rightparent |-> Null, slot |-> find_lower(h, r, k)]

\* The activation for the child: its neighbours are children of the same node
\* or, at its ends, of the node's own neighbours.  (Of a left neighbour the
\* code takes the child at slotuse - 1, which is the last but one.)
childFrame(f) ==
  LET n == f.node
      c == child(n, f.slot)
  IN [node |-> c, slot |-> find_lower(heap, c, key),
      left |-> CASE f.slot > 0 -> child(n, f.slot - 1)
                 [] f.slot = 0 /\ f.left = Null -> Null
                 [] OTHER -> child(f.left, slotuse(f.left) - 1),
      leftparent |-> IF f.slot > 0 THEN n ELSE f.leftparent,
      right |-> CASE f.slot < slotuse(n) -> child(n, f.slot + 1)
                  [] f.slot = slotuse(n) /\ f.right = Null -> Null
                  [] OTHER -> child(f.right, 0),
      rightparent |-> IF f.slot < slotuse(n) THEN n ELSE f.rightparent]

top == Last(stack)
cur == top.node
hasParent == Len(stack) > 1
above == stack[Len(stack) - 1]         \* the frame of the parent
parent == IF hasParent THEN above.node ELSE Null
parentslot == IF hasParent THEN above.slot ELSE 0

\* The parent keeps a key for this node: it is not the last child.
keyAbove == hasParent /\ parentslot < slotuse(parent)

\* insert_start.  Keys are inserted once: "We currently DO NOT support
\* duplicated keys".
BeginInsert(k) ==
  /\ pc = "idle"
  /\ k \notin stored
  /\ key' = k
  /\ pc' = "insert"
  /\ \/ /\ root # Null
        /\ stack' = <<rootFrame(heap, root, k)>>
        /\ UNCHANGED <<tree, stats>>
     \/ /\ root = Null /\ canAllocate
        /\ root' = fresh /\ head' = fresh /\ tail' = fresh
        /\ heap' = put(heap, fresh, [level |-> 0, items |-> {},
                                     prevleaf |-> Null, nextleaf |-> Null])
        /\ stats' = [stats EXCEPT !.leaves = @ + 1]
        /\ stack' = <<rootFrame(heap', fresh, k)>>
  /\ UNCHANGED <<split, result, stored>>

\* erase_one of a tree that is not empty.
BeginErase(k) ==
  /\ pc = "idle"
  /\ root # Null
  /\ key' = k
  /\ pc' = "erase"
  /\ stack' = <<rootFrame(heap, root, k)>>
  /\ UNCHANGED <<tree, stats, split, result, stored>>

Descend ==
  /\ pc \in {"insert", "erase"}
  /\ ~isleafnode(cur)
  /\ stack' = Append(stack, childFrame(top))
  /\ UNCHANGED <<tree, stats, pc, key, split, result, stored>>

-----------------------------------------------------------------------------
(* insert_descend at the leaf *)

with(h, n, k) == [h EXCEPT ![n].items = @ \cup {k}]

StoreRoom ==
  /\ pc = "insert"
  /\ isleafnode(cur) /\ ~isfull(cur)
  /\ heap' = with(heap, cur, key)
  /\ pc' = "link"
  /\ stack' = Front(stack)
  /\ UNCHANGED <<root, head, tail, stats, key, split, result, stored>>

\* split_leaf_node, then the insert into the half the key belongs to.
StoreSplit ==
  /\ pc = "insert"
  /\ isleafnode(cur) /\ isfull(cur) /\ canAllocate
  /\ LET new == fresh
         old == heap[cur]
         mid == slotuse(cur) \div 2
         low == {k \in old.items :
                   Cardinality({j \in old.items : j < k}) < mid}
         left == [old EXCEPT !.items = low, !.nextleaf = new]
         right == [old EXCEPT !.items = @ \ low, !.prevleaf = cur]
         h == setPrev(put(put(heap, cur, left), new, right),
                      old.nextleaf, new)
     IN /\ heap' = with(h, IF key > Max(low) THEN new ELSE cur, key)
        /\ newkey' = Max(low)
        /\ newchild' = new
        /\ tail' = IF old.nextleaf = Null THEN new ELSE tail
  /\ stats' = [stats EXCEPT !.leaves = @ + 1]
  /\ pc' = "link"
  /\ stack' = Front(stack)
  /\ UNCHANGED <<root, head, key, result, stored>>

-----------------------------------------------------------------------------
(* insert_descend at the inner nodes, on the way back *)

\* The new child and its key enter behind the slot of the descent.
addChild(node, slot) ==
  [node EXCEPT !.slotkey = InsertAt(@, slot + 1, newkey),
               !.childid = InsertAt(@, slot + 2, newchild)]

LinkChild ==
  /\ pc = "link"
  /\ stack # <<>> /\ newchild # Null
  /\ ~isfull(cur)
  /\ heap' = [heap EXCEPT ![cur] = addChild(@, top.slot)]
  /\ newkey' = Null /\ newchild' = Null
  /\ stack' = Front(stack)
  /\ UNCHANGED <<root, head, tail, stats, pc, key, result, stored>>

\* split_inner_node: where the keys are divided.
splitMid(slots, addslot) ==
  LET mid == slots \div 2
  IN IF addslot <= mid /\ mid > slots - (mid + 1) THEN mid - 1 ELSE mid

\* A full node is split, and the new child enters one of the halves or comes
\* between them.
SplitInner ==
  /\ pc = "link"
  /\ stack # <<>> /\ newchild # Null
  /\ isfull(cur) /\ canAllocate
  /\ LET old == heap[cur]
         slot == top.slot
         mid == splitMid(innerslotmax, slot)
         new == fresh
         left == [old EXCEPT !.slotkey = SubSeq(@, 1, mid),
                             !.childid = SubSeq(@, 1, mid + 1)]
         right == [old EXCEPT
                     !.slotkey = SubSeq(@, mid + 2, innerslotmax),
                     !.childid = SubSeq(@, mid + 2, innerslotmax + 1)]
         splitkey == old.slotkey[mid + 1]
         between == slot = mid + 1 /\ mid < Len(right.slotkey)
         both(l, r) == put(put(heap, cur, l), new, r)
     IN /\ newchild' = new
        /\ \/ /\ between
              /\ heap' = both([left EXCEPT
                                !.slotkey = Append(@, splitkey),
                                !.childid = Append(@, right.childid[1])],
                             [right EXCEPT !.childid[1] = newchild])
              /\ newkey' = newkey
           \/ /\ ~between /\ slot >= mid + 1
              /\ heap' = both(left, addChild(right, slot - (mid + 1)))
              /\ newkey' = splitkey
           \/ /\ slot < mid + 1
              /\ heap' = both(addChild(left, slot), right)
              /\ newkey' = splitkey
  /\ stats' = [stats EXCEPT !.innernodes = @ + 1]
  /\ stack' = Front(stack)
  /\ UNCHANGED <<root, head, tail, pc, key, result, stored>>

\* insert_start after the descent: a new root if the old one was split.
FinishInsert ==
  /\ pc = "link"
  /\ stack = <<>> \/ newchild = Null
  /\ IF newchild = Null
       THEN /\ stats' = [stats EXCEPT !.itemcount = @ + 1]
            /\ UNCHANGED <<root, heap>>
       ELSE /\ canAllocate
            /\ root' = fresh
            /\ heap' = put(heap, fresh, [level |-> heap[root].level + 1,
                                          slotkey |-> <<newkey>>,
                                          childid |-> <<root, newchild>>])
            /\ stats' = [stats EXCEPT !.itemcount = @ + 1,
                                      !.innernodes = @ + 1]
  /\ stored' = stored \cup {key}
  /\ return
  /\ UNCHANGED <<head, tail>>

-----------------------------------------------------------------------------
(* erase_one_descend at the leaf *)

rest == heap[cur].items \ {key}
fewLeft == Cardinality(rest) < leafslotmax \div 2
lastErased == \A k \in rest : k < key

\* The leaf without the key.  If the key was its last one, the parent's key
\* for the leaf follows it, unless nothing is left to take it from.
erased ==
  LET h == [heap EXCEPT ![cur].items = rest]
  IN IF lastErased /\ keyAbove /\ rest # {}
       THEN [h EXCEPT ![parent].slotkey[parentslot + 1] = Max(rest)]
       ELSE h

\* The parent has no key for the leaf: an ancestor's is to be updated.
scheduled == IF lastErased /\ ~keyAbove /\ rest # {} THEN Max(rest) ELSE Null

\* (A variant for the mutation runs: the leaf behind keeps its prevleaf.)
mergeOneWay(h, l, r) ==
  [h EXCEPT ![l].items = @ \cup h[r].items,
            ![l].nextleaf = h[r].nextleaf,
            ![r].items = {}]

\* merge_leaves: the right leaf's keys move to the left one.
merge_leaves(h, l, r) ==
  LET next == h[r].nextleaf
  IN setPrev([h EXCEPT ![l].items = @ \cup h[r].items,
                       ![l].nextleaf = next,
                       ![r].items = {}], next, l)

\* (A variant for the mutation runs: the bound that merge_leaves asserts.)
canMergeWithRoom(leaf, itsparent) ==
  /\ leaf # Null /\ cur # root
  /\ Cardinality(rest) + slotuse(leaf) < leafslotmax
  /\ itsparent = parent

canMerge(leaf, itsparent) ==
  /\ leaf # Null /\ cur # root
  /\ Cardinality(rest) + slotuse(leaf) <= leafslotmax
  /\ itsparent = parent

mergesLeft == fewLeft /\ canMerge(top.left, top.leftparent)
mergesRight == fewLeft /\ ~mergesLeft /\ canMerge(top.right, top.rightparent)
emptiesRoot == cur = root /\ rest = {} /\ top.left = Null /\ top.right = Null

atKey == pc = "erase" /\ isleafnode(cur) /\ key \in heap[cur].items

\* btree_not_found.
EraseMiss ==
  /\ pc = "erase"
  /\ isleafnode(cur) /\ key \notin heap[cur].items
  /\ return
  /\ UNCHANGED <<tree, stats, stored>>

\* The last key of the tree: all nodes are gone.
EraseEmptyRoot ==
  /\ atKey /\ emptiesRoot
  /\ heap' = without(heap, cur)
  /\ root' = Null /\ head' = Null /\ tail' = Null
  /\ stats' = [freed(cur) EXCEPT !.itemcount = @ - 1]
  /\ stored' = stored \ {key}
  /\ return

fromLeaf ==
  /\ lastkey' = scheduled
  /\ stack' = Front(stack)
  /\ pc' = "fix"
  /\ UNCHANGED <<root, head, stats, key, split, stored>>

mergeInto(l, r) ==
  /\ heap' = merge_leaves(erased, l, r)
  /\ tail' = IF heap[r].nextleaf = Null THEN l ELSE tail
  /\ fixmerge' = TRUE

EraseMergeLeft ==
  /\ atKey /\ mergesLeft
  /\ mergeInto(top.left, cur)
  /\ fromLeaf

EraseMergeRight ==
  /\ atKey /\ mergesRight
  /\ mergeInto(cur, top.right)
  /\ fromLeaf

\* Half full still, or no neighbour to merge with.
EraseKeep ==
  /\ atKey /\ ~mergesLeft /\ ~mergesRight /\ ~emptiesRoot
  /\ heap' = erased
  /\ fixmerge' = FALSE
  /\ fromLeaf
  /\ UNCHANGED tail

-----------------------------------------------------------------------------
(* erase_one_descend at the inner nodes, on the way back *)

\* The child emptied by a merge is freed and leaves the node; above the
\* leaves, the key of the child that took its keys is set anew.
dropChild(h, n, s) ==
  LET inner == h[n]
      removed == [inner EXCEPT !.slotkey = RemoveAt(@, s),
                               !.childid = RemoveAt(@, s + 1)]
      fixed == IF inner.level = 1 /\ s <= Len(removed.slotkey)
                 THEN [removed EXCEPT
                         !.slotkey[s] = Max(h[inner.childid[s]].items)]
                 ELSE removed
  IN put(without(h, inner.childid[s + 1]), n, fixed)

\* The slot of the emptied child: the one descended into, or the next.
emptied == IF slotuse(child(cur, top.slot)) # 0 THEN top.slot + 1 ELSE top.slot

setLastkey == IF lastkey # Null /\ keyAbove
                THEN [heap EXCEPT ![parent].slotkey[parentslot + 1] = lastkey]
                ELSE heap

Fix ==
  /\ pc = "fix" /\ stack # <<>>
  /\ lastkey' = IF keyAbove THEN Null ELSE lastkey
  /\ \/ /\ fixmerge
        /\ heap' = dropChild(setLastkey, cur, emptied)
        /\ stats' = freed(child(cur, emptied))
     \/ /\ ~fixmerge
        /\ heap' = setLastkey
        /\ UNCHANGED stats
  /\ fixmerge' = FALSE
  /\ pc' = "balance"
  /\ UNCHANGED <<root, head, tail, key, stack, split, stored>>

underflow == /\ slotuse(cur) < innerslotmax \div 2
             /\ ~(cur = root /\ slotuse(cur) >= 1)

\* merge_inner of two children of p, the left one at slot s.
merge_inner(l, r, p, s) ==
  [heap EXCEPT
     ![l].slotkey = (@ \o <<heap[p].slotkey[s + 1]>>) \o heap[r].slotkey,
     ![l].childid = @ \o heap[r].childid,
     ![r].slotkey = <<>>]

\* (A variant for the mutation runs: the parent's key stays.)
shiftUnderOldKey(l, r, p, s) ==
  LET n == (slotuse(r) - slotuse(l)) \div 2
  IN [heap EXCEPT
        ![l].slotkey = (@ \o <<heap[p].slotkey[s + 1]>>)
                          \o SubSeq(heap[r].slotkey, 1, n - 1),
        ![l].childid = @ \o SubSeq(heap[r].childid, 1, n),
        ![r].slotkey = SubSeq(@, n + 1, Len(@)),
        ![r].childid = SubSeq(@, n + 1, Len(@))]

\* shift_left_inner: half of what the right node has more.
shift_left_inner(l, r, p, s) ==
  LET n == (slotuse(r) - slotuse(l)) \div 2
      keys == heap[r].slotkey
      children == heap[r].childid
  IN [heap EXCEPT
        ![l].slotkey = (@ \o <<heap[p].slotkey[s + 1]>>)
                          \o SubSeq(keys, 1, n - 1),
        ![l].childid = @ \o SubSeq(children, 1, n),
        ![p].slotkey[s + 1] = keys[n],
        ![r].slotkey = SubSeq(@, n + 1, Len(keys)),
        ![r].childid = SubSeq(@, n + 1, Len(children))]

shift_right_inner(l, r, p, s) ==
  LET keys == heap[l].slotkey
      children == heap[l].childid
      n == (slotuse(l) - slotuse(r)) \div 2
      stay == Len(keys) - n
  IN [heap EXCEPT
        ![r].slotkey = (SubSeq(keys, stay + 2, Len(keys))
                          \o <<heap[p].slotkey[s + 1]>>) \o @,
        ![r].childid = SubSeq(children, stay + 2, Len(children)) \o @,
        ![p].slotkey[s + 1] = keys[stay + 1],
        ![l].slotkey = SubSeq(@, 1, stay),
        ![l].childid = SubSeq(@, 1, stay + 1)]

leftFew == top.left # Null /\ isfew(top.left)
leftMore == top.left # Null /\ ~isfew(top.left)
rightFew == top.right # Null /\ isfew(top.right)
rightMore == top.right # Null /\ ~isfew(top.right)
leftNear == top.leftparent = parent
rightNear == top.rightparent = parent

\* The cases of the underflow, in the order of the code.
balancing ==
  CASE ~leftMore /\ ~rightMore -> IF leftNear THEN "mergeLeft" ELSE "mergeRight"
    [] leftFew /\ rightMore -> IF rightNear THEN "shiftLeft" ELSE "mergeLeft"
    [] leftMore /\ rightFew -> IF leftNear THEN "shiftRight" ELSE "mergeRight"
    [] OTHER -> IF top.leftparent = top.rightparent
                  THEN IF slotuse(top.left) <= slotuse(top.right)
                         THEN "shiftLeft" ELSE "shiftRight"
                  ELSE IF leftNear THEN "shiftRight" ELSE "shiftLeft"

fromInner ==
  /\ stack' = Front(stack)
  /\ pc' = "fix"
  /\ UNCHANGED <<head, tail, key, split, stored>>

onlyNode == top.left = Null /\ top.right = Null

Balanced ==
  /\ pc = "balance" /\ ~underflow
  /\ fromInner
  /\ UNCHANGED <<root, heap, stats, result>>

\* (A variant for the mutation runs: m_root stays where it is.)
ShrinkRootKept ==
  /\ pc = "balance" /\ underflow /\ onlyNode
  /\ heap' = without(heap, cur)
  /\ stats' = freed(cur)
  /\ lastkey' = Null
  /\ fromInner
  /\ UNCHANGED <<root, fixmerge>>

\* The root has one child left, which becomes the root.
ShrinkRoot ==
  /\ pc = "balance" /\ underflow /\ onlyNode
  /\ root' = child(cur, 0)
  /\ heap' = without(heap, cur)
  /\ stats' = freed(cur)
  /\ lastkey' = Null
  /\ fromInner
  /\ UNCHANGED fixmerge

MergeInner ==
  /\ pc = "balance" /\ underflow /\ ~onlyNode
  /\ \/ /\ balancing = "mergeLeft"
        /\ heap' = merge_inner(top.left, cur, top.leftparent, parentslot - 1)
     \/ /\ balancing = "mergeRight"
        /\ heap' = merge_inner(cur, top.right, top.rightparent, parentslot)
  /\ fixmerge' = TRUE
  /\ fromInner
  /\ UNCHANGED <<root, stats, lastkey>>

ShiftInner ==
  /\ pc = "balance" /\ underflow /\ ~onlyNode
  /\ \/ /\ balancing = "shiftLeft"
        /\ heap' = shift_left_inner(cur, top.right, top.rightparent, parentslot)
     \/ /\ balancing = "shiftRight"
        /\ heap' = shift_right_inner(top.left, cur, top.leftparent,
                                     parentslot - 1)
  /\ fromInner
  /\ UNCHANGED <<root, stats, result>>

\* erase_one after the descent.
FinishErase ==
  /\ pc = "fix" /\ stack = <<>>
  /\ stats' = [stats EXCEPT !.itemcount = @ - 1]
  /\ stored' = stored \ {key}
  /\ return
  /\ UNCHANGED tree

-----------------------------------------------------------------------------
Step == \/ Descend \/ StoreRoom \/ StoreSplit \/ LinkChild \/ SplitInner
        \/ FinishInsert
        \/ EraseMiss \/ EraseEmptyRoot
        \/ EraseMergeLeft \/ EraseMergeRight \/ EraseKeep
        \/ Fix \/ Balanced \/ ShrinkRoot \/ MergeInner \/ ShiftInner
        \/ FinishErase

Next == Step \/ \E k \in Keys : BeginInsert(k) \/ BeginErase(k)

Spec == Init /\ [][Next]_vars

-----------------------------------------------------------------------------
(* Properties of the tree between calls: what verify() looks for *)

quiet == pc = "idle" /\ root # Null
Leaves == {n \in DOMAIN heap : isleafnode(n)}
Inner == DOMAIN heap \ Leaves

\* The leaf that the descent for k reaches.
leafOf(k) ==
  LET height == heap[root].level
      at[l \in 0 .. height] ==
        IF l = height THEN root
        ELSE child(at[l + 1], find_lower(heap, at[l + 1], k))
  IN at[0]

\* A descent for any key arrives at the leaf that holds it, if the key was
\* inserted and not erased since, and at a leaf without it otherwise.
KeysFound ==
  /\ quiet => \A k \in Keys : k \in heap[leafOf(k)].items <=> k \in stored
  /\ pc = "idle" /\ root = Null => stored = {}

\* verify_leaflinks: m_headleaf and m_tailleaf are the ends of one list of all
\* the leaves, linked both ways, with their keys in increasing order.
LeavesLinked ==
  quiet =>
    /\ {n \in Leaves : heap[n].prevleaf = Null} = {head}
    /\ {n \in Leaves : heap[n].nextleaf = Null} = {tail}
    /\ \A n \in Leaves \ {tail} :
         LET next == heap[n].nextleaf
         IN /\ next \in Leaves
            /\ heap[next].prevleaf = n
            /\ \A j \in heap[n].items, k \in heap[next].items : j < k

\* The counters of m_stats are exact, and no node is lost or has two parents:
\* every allocated node other than the root is the child of one slot.
StatsExact ==
  pc = "idle" =>
    /\ stats = [leaves |-> Cardinality(Leaves),
                innernodes |-> Cardinality(Inner),
                itemcount |-> Cardinality(stored)]
    /\ \A n \in DOMAIN heap :
         Cardinality({at \in Inner \X (0 .. innerslotmax) :
                        /\ at[2] < Len(heap[at[1]].childid)
                        /\ child(at[1], at[2]) = n})
           = IF n = root THEN 0 ELSE 1

\* verify_node: whatever was merged and shifted, no node is over its slots, no
\* leaf is empty, no inner node other than the root is less than half full, and
\* children are one level down.
NodesFilled ==
  quiet =>
    /\ \A n \in Leaves : slotuse(n) \in 1 .. leafslotmax
    /\ \A n \in Inner :
         /\ slotuse(n) >= IF n = root THEN 1 ELSE innerslotmax \div 2
         /\ slotuse(n) <= innerslotmax
         /\ Len(heap[n].childid) = slotuse(n) + 1
         /\ \A c \in Range(heap[n].childid) : heap[c].level = heap[n].level - 1
=============================================================================
