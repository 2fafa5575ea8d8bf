---------------------------- MODULE CompactLeaves ----------------------------
(***************************************************************************)
(* Two sibling leaves of the B+-trees of blindi_btree_seqtree.h,           *)
(* blindi_btree_subtrie.h and blindi_btree_trie.h, under one parent: a     *)
(* leaf that is the root, its split when it is full, inserts, upserts and  *)
(* erases in both leaves, and the merge when one of them underflows.  The  *)
(* leaves hold the compact nodes of modules SeqTreeNode, SubTrieNode and   *)
(* TrieNode; the parent is the key that separates them.  The code of the   *)
(* trees is the same but for the class of the node and the way to its      *)
(* largest key.                                                            *)
(***************************************************************************)
EXTENDS SeqTreeNode, FiniteSets

Sub == INSTANCE SubTrieNode

CONSTANT TrieSlots         \* NUM_SLOTS of the tree with trie leaves

Trie == INSTANCE TrieNode WITH NumSlots <- TrieSlots

CONSTANTS Keys,            \* the keys that are inserted
          Absent,          \* no leaf
          Builds           \* the programs: each a record of
                           \*   node         "seqtree", "subtrie" or "trie"
                           \*   keys         the keys it uses
                           \*   breathing    see BlindiKeys
                           \*   erasing      which keys it erases: "none";
                           \*                "safe", any but the smaller key
                           \*                of a leaf with two; "siblings",
                           \*                any while there are two leaves;
                           \*                "all"
                           \*   overwriting  which call writes stored keys
                           \*                into nodes that then hold them
                           \*                twice (mayWrite): "insert",
                           \*                "upsert" or "none"

ASSUME LeavesAssumption ==
  /\ Keys \subseteq KeySpace
  /\ TrieSlots \in Nat /\ TrieSlots >= 4 /\ TrieSlots % 2 = 0
  /\ Builds \subseteq [node : {"seqtree", "subtrie", "trie"}, keys : SUBSET Keys,
                       breathing : 1 .. NumSlots,
                       erasing : {"none", "safe", "siblings", "all"},
                       overwriting : {"none", "insert", "upsert"}]

VARIABLES build,     \* the program that runs
          left,      \* the leaf that is the root, or the left sibling
          right,     \* the right sibling
          slotkey,   \* the parent's separator: keys up to it are in left
          stored     \* history: the keys inserted and not erased

vars == <<build, left, right, slotkey, stored>>

Leaves == {left, right} \ {Absent}

subtrie == build.node = "subtrie"
trie == build.node = "trie"

\* leafslotmax
slots == IF trie THEN TrieSlots ELSE NumSlots

\* A leaf has its node and slotuse, the tree's own count of the keys in it.
LeafType(leaf) ==
  LET n == leaf.node
      Bits == 0 .. KeyBits - 1
        \cup IF build.overwriting = "none" THEN {} ELSE {DUPLICATE, Stale}
  IN /\ leaf.slotuse \in 0 .. slots
     /\ n.keys \in Seq(build.keys)
     /\ n.max \in 0 .. slots
     /\ CASE trie -> Trie!TrieType(n)
          [] subtrie -> n.diffs \in Seq(Bits) /\ n.sub \in Seq(1 .. NumSlots)
          [] OTHER -> n.diffs \in Seq(Bits) /\ n.tree \in [0 .. 2 -> 0 .. 255]

TypeOK ==
  /\ build \in Builds
  /\ \A leaf \in Leaves : LeafType(leaf)
  /\ slotkey \in Keys \cup {Absent}
  /\ stored \subseteq Keys
  /\ right # Absent => left # Absent /\ slotkey # Absent

Init ==
  /\ build \in Builds
  /\ left = Absent
  /\ right = Absent
  /\ slotkey = Absent
  /\ stored = {}

-----------------------------------------------------------------------------
(* The node of the build *)

searchPoint(n, k) ==
  CASE trie -> Trie!SearchPoint(n, k)
    [] subtrie -> Sub!SearchPoint(n, k)
    [] OTHER -> SearchPoint(n, k)

firstNode(k) ==
  CASE trie -> Trie!first_insert(k, build.breathing)
    [] subtrie -> Sub!first_insert(k, build.breathing)
    [] OTHER -> first_insert(k, build.breathing)

insertInto(n, k) ==
  CASE trie -> Trie!Insert2BlindiNodeWithKey(n, k)
    [] subtrie -> Sub!Insert2BlindiNodeWithKey(n, k)
    [] OTHER -> Insert2BlindiNodeWithKey(n, k)

upsertInto(n, k) ==
  CASE trie -> Trie!Upsert2BlindiNodeWithKey(n, k)
    [] subtrie -> Sub!Upsert2BlindiNodeWithKey(n, k)
    [] OTHER -> Upsert2BlindiNodeWithKey(n, k)

splitNode(n) ==
  CASE trie -> Trie!SplitBlindiNode(n)
    [] subtrie -> Sub!SplitBlindiNode(n)
    [] OTHER -> SplitBlindiNode(n)

removeFrom(n, k) ==
  CASE trie -> Trie!RemoveFromBlindiNodeWithKey(n, k)
    [] subtrie -> Sub!RemoveFromBlindiNodeWithKey(n, k)
    [] OTHER -> RemoveFromBlindiNodeWithKey(n, k)

mergeNodes(n, m) ==
  CASE trie -> Trie!MergeBlindiNodes(n, m)
    [] subtrie -> Sub!MergeBlindiNodes(n, m)
    [] OTHER -> MergeBlindiNodes(n, m)

\* get_max_key_in_node
largestKey(n) ==
  IF trie THEN Trie!get_max_key_in_node(n) ELSE n.keys[valid_len(n)]

\* The position and the key that an erase takes for the largest of a leaf.
maxSlot(leaf) ==
  IF trie THEN Trie!get_max_pos_node(leaf.node) ELSE leaf.slotuse - 1

maxKey(leaf) ==
  IF trie THEN largestKey(leaf.node) ELSE leaf.node.keys[leaf.slotuse]

-----------------------------------------------------------------------------
(* insert_start and insert_descend *)

\* find_lower in the parent.
goesLeft(k) == right = Absent \/ k <= slotkey

leafOf(k) == IF goesLeft(k) THEN left ELSE right

LeafBecomes(k, leaf) ==
  /\ left' = IF goesLeft(k) THEN leaf ELSE left
  /\ right' = IF goesLeft(k) THEN right ELSE leaf

\* The end of insert_descend: the key enters the node, and slotuse counts it
\* unless the node has answered INSERT_DUPLICATED_KEY, also after
\* INSERT_OVERFLOW.  (A full node refuses an insert before it searches, and an
\* upsert after.)
put(upsert, leaf, k) ==
  LET n == leaf.node
      duplicated == /\ valid_len(n) > 0
                    /\ upsert \/ valid_len(n) < slots
                    /\ searchPoint(n, k).hit
  IN [node |-> IF upsert THEN upsertInto(n, k) ELSE insertInto(n, k),
      slotuse |-> IF duplicated THEN leaf.slotuse ELSE leaf.slotuse + 1]

isfull(leaf) == leaf.slotuse = slots

\* The nodes of subtrie and trie refuse a plain insert of a key that they hold.
\* The seqtree's inserts it again, and so does every upsert: "We currently DO
\* NOT support duplicated keys".
mayWrite(upsert, k) ==
  \/ k \notin stored
  \/ build.overwriting = IF upsert THEN "upsert" ELSE "insert"
  \/ ~upsert /\ build.node # "seqtree"

\* The first key gets a leaf.
InsertFirst(upsert, k) ==
  /\ left = Absent
  /\ left' = [node |-> firstNode(k), slotuse |-> 1]
  /\ stored' = {k}
  /\ UNCHANGED <<build, right, slotkey>>

\* insert_descend at a leaf with room.
InsertRoom(upsert, k) ==
  /\ left # Absent
  /\ mayWrite(upsert, k)
  /\ ~isfull(leafOf(k))
  /\ LeafBecomes(k, put(upsert, leafOf(k), k))
  /\ stored' = stored \cup {k}
  /\ UNCHANGED <<build, slotkey>>

\* split_leaf_node
splitLeaf(nodes) ==
  <<[node |-> nodes.small, slotuse |-> slots \div 2],
    [node |-> nodes.large, slotuse |-> slots - slots \div 2]>>

\* insert_descend at a full leaf: split_leaf_node, then the insert into one of
\* the halves, also of a key that is there already.  (The split of a leaf that
\* has a sibling makes a third leaf, which this model leaves out.)
InsertSplit(upsert, k) ==
  /\ left # Absent
  /\ right = Absent
  /\ isfull(left)
  /\ mayWrite(upsert, k)
  /\ LET halves == splitLeaf(splitNode(left.node))
         splitkey == largestKey(halves[1].node)
     IN /\ slotkey' = splitkey
        /\ left' = IF k > splitkey THEN halves[1] ELSE put(upsert, halves[1], k)
        /\ right' = IF k > splitkey THEN put(upsert, halves[2], k) ELSE halves[2]
  /\ stored' = stored \cup {k}
  /\ UNCHANGED build

-----------------------------------------------------------------------------
(* erase_one and erase_one_descend *)

take(leaf, k) ==
  [node |-> removeFrom(leaf.node, k), slotuse |-> leaf.slotuse - 1]

\* The smaller of the only two keys of a leaf.
headOfTwo(leaf, k) == valid_len(leaf.node) = 2 /\ leaf.node.keys[1] = k

mayErase(leaf, k) ==
  \/ build.erasing = "all"
  \/ build.erasing = "siblings" /\ right # Absent
  \/ build.erasing = "safe" /\ ~headOfTwo(leaf, k)

\* In a leaf that is the root; the last key takes the leaf with it.  (A key
\* that is not found changes nothing.)
EraseRoot(k) ==
  /\ left # Absent
  /\ right = Absent
  /\ mayErase(left, k)
  /\ left' = CASE ~searchPoint(left.node, k).hit -> left
               [] searchPoint(left.node, k).hit /\ left.slotuse = 1 -> Absent
               [] OTHER -> take(left, k)
  /\ stored' = stored \ {k}
  /\ UNCHANGED <<build, right, slotkey>>

\* The parent's key follows the largest key of the left leaf.
newSlotkey(before, after, pos) ==
  IF pos = maxSlot(before) /\ after.slotuse > 0 THEN maxKey(after) ELSE slotkey

\* A key less, the leaf underflows and fits into its sibling.
canMerge(leaf, other) ==
  /\ leaf.slotuse - 1 < slots \div 2
  /\ leaf.slotuse - 1 + other.slotuse <= slots

siblingOf(k) == IF goesLeft(k) THEN right ELSE left

\* In one of two leaves, without a merge.
EraseLeaf(k) ==
  /\ right # Absent
  /\ mayErase(leafOf(k), k)
  /\ LET s == searchPoint(leafOf(k).node, k)
     IN \/ /\ ~s.hit
           /\ UNCHANGED <<left, right, slotkey>>
        \/ /\ s.hit
           /\ ~canMerge(leafOf(k), siblingOf(k))
           /\ LeafBecomes(k, take(leafOf(k), k))
           /\ slotkey' = IF goesLeft(k) THEN newSlotkey(left, left', s.pos) ELSE slotkey
  /\ stored' = stored \ {k}
  /\ UNCHANGED build

\* What merge_leaves makes of the left leaf.
merge_leaves(l, r) ==
  [node |-> mergeNodes(l.node, r.node), slotuse |-> l.slotuse + r.slotuse]

\* With merge_leaves: the leaf has underflowed and fits into its sibling; what
\* is left of the two becomes the root.
EraseMerge(k) ==
  /\ right # Absent
  /\ mayErase(leafOf(k), k)
  /\ searchPoint(leafOf(k).node, k).hit
  /\ canMerge(leafOf(k), siblingOf(k))
  /\ LET rest == take(leafOf(k), k)
     IN left' = IF goesLeft(k) THEN merge_leaves(rest, right)
                               ELSE merge_leaves(left, rest)
  /\ right' = Absent
  /\ slotkey' = Absent
  /\ stored' = stored \ {k}
  /\ UNCHANGED build

-----------------------------------------------------------------------------
Next ==
  \E k \in build.keys :
    \/ \E upsert \in BOOLEAN :
         InsertFirst(upsert, k) \/ InsertRoom(upsert, k) \/ InsertSplit(upsert, k)
    \/ EraseRoot(k) \/ EraseLeaf(k) \/ EraseMerge(k)

Spec == Init /\ [][Next]_vars

-----------------------------------------------------------------------------
(* Properties *)

\* Whatever was inserted, upserted, erased, split and merged, the leaves hold
\* exactly the keys inserted and not erased, each once and in order, on the
\* right side of the parent's key, and slotuse counts them.  (Not where stored
\* keys are written again.)
NothingLost ==
  /\ stored = UNION {Range(leaf.node.keys) : leaf \in Leaves}
  /\ \A leaf \in Leaves :
       /\ IF trie THEN Trie!InOrder(leaf.node) ELSE Ascending(leaf.node)
       /\ leaf.slotuse = valid_len(leaf.node)
  /\ right # Absent =>
       /\ \A k \in Range(left.node.keys) : k <= slotkey
       /\ \A k \in Range(right.node.keys) : k > slotkey

\* blindiKeys, blindiTree and subtrie_array, which every operation patches in
\* place, always are what computing them anew from the keys would give, and the
\* pointers of the trie, which a removal and a merge redirect, form the one blind
\* trie of the keys.
IndexesExact ==
  \A leaf \in Leaves :
    CASE trie -> Trie!Indexed(leaf.node)
      [] subtrie -> Sub!Indexed(leaf.node)
      [] OTHER -> Indexed(leaf.node)

\* A search that never compares more than one key finds what a search of the
\* sorted keys would: the key itself, or its predecessor.
SearchesExact ==
  \A leaf \in Leaves : valid_len(leaf.node) > 0 =>
    \A k \in KeySpace :
      CASE trie -> Trie!SearchRight(leaf.node, k)
        [] subtrie -> Sub!SearchRight(leaf.node, k)
        [] OTHER -> SearchRight(leaf.node, k)

\* No node holds more keys than key_ptr has slots, however little the
\* allocation grows at an insert; and a merge finds room, if the allocation
\* that a split leaves can hold a full leaf.
WithinAllocation ==
  \A leaf \in Leaves :
    valid_len(leaf.node) <= leaf.node.max /\ leaf.node.max <= slots
=============================================================================
