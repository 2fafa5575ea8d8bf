# Elastic indexes: a TLA+ development

This directory specifies, model-checks and partly proves the index code of this
repository: compact ("blindi") B+-tree leaves that keep pointers to keys instead
of the keys, the trees around them, the elastic tree that exchanges plain leaves
for compact ones when memory runs short, and the concurrent tree with optimistic
lock coupling. In what follows

| short | file |
|---|---|
| B | `src/BwTree/benchmark/BTreeOLC/BTreeOLC.hpp` |
| S | `src/BwTree/benchmark/BTreeOLC/blindi_BTreeOLC_seqtree.hpp` |
| Q | `src/blindi_seqtree/blindi_seqtree.hpp` |
| T | `src/BwTree/benchmark/stx_blindi/blindi_btree_seqtree.h` |
| H | `src/BwTree/benchmark/stx_blindi/blindi_btree_hybrid_nodes.h` |
| U | `src/blindi_subtrie/blindi_subtrie.hpp` |
| R | `src/blindi_trie.hpp` |

## 1. The system

| component | state | operations | correct when |
|---|---|---|---|
| optimistic lock (S:42-92) | one word: version, lock bit, obsolete bit | `readLockOrRestart`, `readUnlockOrRestart`, `upgradeToWriteLockOrRestart`, `writeUnlock`, `writeUnlockObsolete` | write sections exclude each other; a read that validates saw one state of the node |
| concurrent B-tree (B, S) | root pointer, inner nodes, leaves, a lock per node | `insert`, `lookup`, `upsert`, `scan` | linearizable; no key lost by a racing split; no lock leaked on a restart; calls return |
| compact node SeqTree (Q) | `key_ptr`, the differing bit of each pair of neighbours (`blindiKeys`), a small tree of minima over them (`blindiTree`) | search, insert, remove, split, merge, conversions | a search with one key comparison is exact; the indexes patched in place equal the ones computed anew; nothing is stored past the allocation |
| compact node SubTrie (U) | `key_ptr`, the differing bits in preorder of the blind trie, the size of each left subtrie | as SeqTree | the sizes on a path are patched exactly, so that every descent stays inside its subtrie |
| compact node trie (R) | `key_ptr` and trie entries in no order, pointers between them | as SeqTree | the pointers always form the one blind trie of the keys |
| B+-trees with compact leaves (T and its copies for U and R) | inner nodes, linked leaves | insert, upsert, erase, find, bounds, bulk load | descents agree with the leaves; splits, merges and balancing lose no key, node or count |
| elastic tree (H) | as above, leaves of two kinds and four sizes, a status and counters | insert, find, bounds | replacing a leaf moves every pointer to it; counters are exact; compression never reverses |
| linear node | a SeqTree node without its tree | as SeqTree | as SeqTree |
| multimap front ends | none | forwarding | - |
| benchmark drivers, unit tests | workloads | - | source of inputs and of the expectations quoted below |
| mcas, BwTree, HOT, ART, cuckoo, Masstree, skip lists, stx B+-tree | third party | - | not part of this development |

How they interact: every concurrent tree embeds an optimistic lock in each of
its nodes and a compact node in each of its leaves; its threads share nothing
else. The sequential trees call the compact node's insert, remove, split and
merge from `insert_descend` and `erase_one_descend` and keep the separators. The
elastic tree copies keys between plain and compact leaves, and its status,
which is computed at the end of each insert, decides what the next insert does
to the leaf it comes to.

What is hard to test:
- *interleavings*: a thread reads nodes without locks and acts on what it read
  many steps later; splits move keys, change the root and fill parents under it;
- *restarts*: every conflict is a `goto restart` out of a path that may already
  hold a lock;
- *in-place patches*: an insert or remove in a compact node shifts two arrays
  and a tree of positions; an error is invisible until a later search takes
  exactly the wrong turn;
- *underflow*: erase carries the neighbours of every level down, and uses them on
  the way up after other levels have been merged;
- *pointers behind one's back*: the elastic tree frees leaves that a parent,
  two neighbours and two list ends refer to.

`PROJECT.json` lists the hazards line by line with the properties aimed at them.

## 2. Modules

| module | models | notes |
|---|---|---|
| `OptLockWord` | the word and its operations as functions | used by the two below |
| `OptLock` | the lock and its callers over a node of several cells | a cell is read or written in a step, so reads really tear |
| `Dictionary` | the abstract specification: a linearizable set of keys | no code: what the tree promises |
| `BTreeOLC` | `insert` and `lookup` of B and S | one step per access to a shared word or the root pointer |
| `BlindiOLC` | the `upsert` of S | extends `BTreeOLC` |
| `BlindiKeys` | bits of keys, allocation of slots | shared by the three nodes |
| `SeqTreeNode` | the compact node of Q with `TREE_LEVELS = 2` | operators only |
| `SubTrieNode` | the compact node of U | operators only |
| `TrieNode` | the compact node of R | operators only |
| `CompactLeaves` | insert, upsert, erase, split and merge of T and its copies on two sibling leaves | composes the three nodes with the tree code around them |
| `CompactBTree` | insert and erase of T in trees of any height | leaves as sets of keys |
| `ElasticTree` | insertion of H | leaves as sets of keys |
| `BTreeOLCOrder` | no code: the invariant that keeps the keys of `BTreeOLC` in order | extends `BTreeOLC` |
| `ElasticShape` | no code: the invariant that keeps the nodes of `ElasticTree` a tree | extends `ElasticTree` |
| `ElasticOrder` | no code: the invariant that keeps the keys of `ElasticTree` in order | extends `ElasticShape` |
| `CompactOrder` | no code: the invariants that keep the nodes, the keys and the leaf list of `CompactBTree` | extends `CompactBTree` |
| `DataFacts` | no code: lemmas about sequences, the lowest elements of a set, and least numbers | used by the proofs of the trees |
| `OptLockProofs`, `BTreeOLCProofs`, `ElasticLeafProofs`, `ElasticTreeProofs`, `CompactTreeProofs`, `CompactEraseProofs`, `CompactOrderProofs` | theorems and proofs | |
| `MCOptLock`, `MCBTreeOLC`, `MCBlindiOLC`, `MCCompactLeaves`, `MCCompactBTree`, `MCElastic` | instances for TLC | |

**OptLock.** `typeVersionLockObsolete` is a natural number with the bits of the
code (obsolete 1, lock 2, version above). Each caller has the local `version`,
its copy of the node and the set of cells it has read. Writers store cell by
cell between `upgradeToWriteLockOrRestart` and `writeUnlock`. The version is not
bounded in the specification; `MaxWord` stops write sections in the run.

**BTreeOLC.** Shared state is the root pointer and, per node, the lock word, the
kind, the separators and children of an inner node or the keys of a leaf. Each
thread has the locals of the code: `node`, `versionNode`, `parent`,
`versionParent`, the separator and the new node of a split, and a `pc` that
names its position. Actions and code:
`LoadRoot`/`LockRoot`/`CheckRoot` S:408-421, `VisitInner`, `Child`, `LockChild`
the loop S:423-479, `VisitLeaf`, `LockLeaf`, `CheckParent`, `InsertLeaf`,
`UnlockLeaf` S:481-556, `LockParent`, `LockNode`, `Split`, `Link`, `UnlockNode`,
`UnlockParent` the eager split S:425-461 and S:500-539, `SearchLeaf`,
`ValidateParent`, `ValidateNode`, `Return` the end of lookup (B:520-540,
S:654-682). Where the code compares a word after reading a node, reading and
comparing are one step, which `OptLock` justifies; where it uses what it read
first (`isFull`, the search of a leaf) the value is arbitrary if a writer may
have overlapped the read (`Observed`). `LookupValidates` tells B (TRUE) from S
(FALSE). Nodes are never freed, as in the code. A node that is split stores its
upper half in a new node that no other thread can reach before `Link`, so the
new node's word stays at its initial value.

**BlindiOLC.** `upsert` (S:558-613) descends with the steps of `BTreeOLC`,
searches the leaf without a lock (`SearchSlot`) and stores through the slot
(`StoreSlot`) without comparing a word. `acked` remembers whose insert has
returned.

**SeqTreeNode, SubTrieNode, TrieNode.** Keys are numbers of `KeyBits` bits; `bit`
is `isNthBitSetInString`. A node is a record with `keys` (what `key_ptr` points
to), `max` (the slots `key_ptr` has) and its encoding: `diffs` (`blindiKeys`)
and `tree` (`blindiTree`, three entries for two levels, `END_TREE` = 255) in Q;
`diffs` in preorder and `sub` (`subtrie_array`) in U; entries with a bit and two
pointers, and `root`, in R. Search, insert, upsert, split, remove and merge are
translated with the patches they make in place. The stack of a descent
(`tree_traverse`) is the path as a sequence. A read past the allocation or past
the last key returns the constant `Stale`: a model value in the passing run, so
that a property can hold only if it is not used.

**CompactLeaves.** One or two leaves, each a node and the tree's own `slotuse`,
and the separator of their parent. `build` is chosen once: the encoding, the
breathing step, the keys, which call writes stored keys again, and what is erased:
"none" as in the concurrent trees, "safe" everything but the one removal that
breaks a SeqTree node (finding 3), "siblings" while there are two leaves, "all".
In the tree of R the largest key is found by its position in the trie; `maxSlot`
and `maxKey` hold that difference.

**CompactBTree.** `heap` is a function on the addresses in use, so a freed node
is outside its domain and any use of it stops TLC; an allocation takes a free
address, and there must be one (`canAllocate`): what the program does when memory
runs out is not modelled. `stack` has a frame per
activation of `insert_descend` or `erase_one_descend` with its node, the slot
taken, and in an erase the neighbours and their parents as they were on the way
down. `Descend` goes down a level, `StoreRoom` and `StoreSplit` (insert),
`EraseMiss`, `EraseEmptyRoot`, `EraseMergeLeft`, `EraseMergeRight` and
`EraseKeep` (erase) act on the leaf; on the way up an insert takes `LinkChild` or
`SplitInner` and an erase `Fix` (`btree_fixmerge`, `btree_update_lastkey`), then
one of `Balanced`, `ShrinkRoot`, `MergeInner`, `ShiftInner` per level. The
balancing of leaves is commented out in the code (T:2893-2932): a leaf that fits
no sibling stays small. That the set of keys stands for the compact node is what
`CompactLeaves` shows.

**ElasticTree.** `heap` is a function on the addresses in use, so a freed leaf
is outside its domain and any use of it stops TLC. An insert is a call of
several steps: `Begin` (`insert_start`), `Descend` per level, one of
`TransferLeaf`, `CompressSibling` and `KeepLeaf` at the leaf, one of `StoreRoom`,
`StoreExtend` and `StoreSplit`, `LinkChild` or `SplitInner` on the way back, and
`Finish` with the new root, the counter and the status machine. The status
MAY_UNCOMPRESS and the way back from SHOULD_COMPRESS are dead code in the build
(nothing sets the one, and no unsigned capacity is below the limit 0 of the
other), as are the blocks under `if(0)`. `limit2MustCompress` is unsigned and
has `sizeof` values subtracted from it: the model subtracts modulo `SizeTop`. A
root that is a leaf has no parent to connect a replacement to; the code then
keeps the freed root. That needs a limit below the slots of a leaf, which
`ElasticAssumption` rules out as the build does (50 million).

Duplicate keys are outside the contract ("We currently DO NOT support duplicated
keys", T:2390, H:3253), and what an insert of a stored key does depends on the
code. A leaf of B overwrites the payload, which for a set of keys changes nothing,
so `BTreeOLC` lets threads insert any key. The compact nodes of U and R return
`INSERT_DUPLICATED_KEY`, and so `CompactLeaves` inserts any key there. The node of
Q, in T, H and S, returns the same answer after it has inserted the key a second
time, on the right of itself, with the difference `DUPLICATE` (254): `insertNew`
does that, and `mayWrite` keeps it, and every upsert of a stored key, to the
builds of finding 4. What `leaf_siblings` shows of a SeqTree leaf is
therefore said of programs that write no stored key. `CompactBTree` and
`ElasticTree` insert a key only when it is not stored. `BTreeOLC` keeps the keys of
a leaf as a set: with `LookupValidates` FALSE and in `BlindiOLC`, which stand for
S, that is right as long as no stored key is inserted again, and the traces of
findings 1 and 2 insert none.

## 3. Runs

| run | instance | states | shows |
|---|---|---|---|
| `optlock` | 3 threads, 2 cells | small | exclusion, untorn validated reads, obsolete nodes final |
| `olc_leaf_splits` | 2 writers, 1 reader, leaves of 2 | 480 000 | racing splits of a root leaf and its halves refine `Dictionary`; locks balanced; separators part the keys in every state (`KeysParted`) |
| `olc_upper_splits` | 2 writers, 1 reader; a full root with 5 leaves, or three levels with a full right inner node | 580 000 | the inductive invariant, room in the parent, no key unreachable or missed while two writers race to replace the root, or to split a node below it |
| `olc_progress` | 2 threads on the three-level tree, with fairness | | every call returns |
| `olc_blindi_lookup` | as `olc_leaf_splits` with S's lookup | violation | finding 1 |
| `olc_upsert` | 2 threads, one leaf | violation | finding 2 |
| `leaf_siblings` | 8 slots, 11 keys of 4 bits, SeqTree and SubTrie; 6 slots, 7 keys, trie | 26 000 | contents, indexes, allocation and every search exact |
| `leaf_erase_head` | SeqTree, 4 slots, 8 keys, every erase | violation | finding 3 |
| `leaf_upsert` | SeqTree and SubTrie, 4 slots, 8 keys, upserts of stored keys; SeqTree, inserts of stored keys | violation | finding 4 |
| `tree_erase` | 10 keys, leaves of 2, inner nodes of 4 | | keys found, leaf list, counters, fill and parents after every order of erasing; the inductive invariant at every step of a call (`KeptInv`, `KeysParted`) |
| `elastic_growth` | 12 keys, leaves of 2, inner nodes of 4, compact leaves of 2 and 4 | 280 000 | keys, links, counters, fill, marks and shrinking plain leaves over the tree's whole life; the inductive invariants `ElasticInv` and `KeysParted` in the middle of every call |
| `elastic_list_ends` | the same | violation | finding 5 |

Every property has a mutant, a changed definition of the code under which TLC
finds it violated, so none of them holds for lack of anything happening.

**Bounds.** *Threads*: the properties of the tree relate at most two writers and
a reader; a third writer can only make one of them restart, which is a behaviour
two already have. *Slots*: leaves of 2 are the smallest that split into halves
with a key each; 5 inner slots are the fewest that leave both halves of a split
a separator (with 4 or fewer a half is left without one; the build has 16).
*Load*: a run begins with keys inserted one after the other, as the benchmarks
begin, so that the races of interest are a few steps away; the loads are chosen
to make the root leaf, the root, and an inner node below the root full.
*Compact nodes*: 4-bit keys and 8 slots give trees whose three entries all move,
with scans of several differences between them; two levels are the build's
`TREE_LEVELS`. The keys are clustered and at both ends of the key space. A node
that allocates slot by slot (`breathing` 1) meets every size of its allocation.
The slots of a trie are in the order of their history, which multiplies its
states: 6 slots are the fewest with which both nodes of a merge can have a spine,
and erasing only while there are two leaves still merges leaves in any order of
slots (erasing always, tried once, gives no violation either).
*Trees with erase*: ten keys in leaves of 2 and inner nodes of 4 slots make three
levels, the fewest in which an inner node below the root underflows; the three
orders of insertion put the splits, and so the sparse nodes, last, first and in
the middle; then every order of erasing follows, with one key that returns.
*Elastic tree*: after three keys every order of the remaining nine; inner nodes
have an even number of slots because only then is a split uneven and a new child
can come between the halves; the limits are such that inner nodes split before,
and leaves are transferred, extended and split after compression begins, and
that the tree finally must compress and marks parents. `Nodes` and `Addresses`
are large enough never to run out.

**Deadlock** is checked in the concurrent runs and in `tree_erase`. The runs whose
builds only insert (`leaf_siblings` has two of them, `elastic_growth` and
`elastic_list_ends`) end when every key is in the tree.

**Fairness** (`olc_progress`): weak fairness of each thread's step while it is
inside a call, which any scheduler that runs each runnable thread provides; no
fairness for making calls, none between alternatives, no strong fairness. The
property is lock-freedom of a closed workload: a restart is caused by another
thread's progress, keys are finite, so restarts end. With threads that insert
for ever a single reader may starve, which the code does not exclude.

## 4. Findings

1. **A lookup of the compact concurrent tree may miss a key** (S:674,
   `olc_blindi_lookup`). It answers from the leaf without comparing the words of
   leaf and parent. The code it replaces, kept in the comment S:656-672, and
   B:528-537 compare both.
2. **An upsert of the compact concurrent tree may replace another key** (S:609,
   `olc_upsert`). It stores through a slot that its unlocked search returned; an
   insert that shifts the slots in between makes it another key's slot, and that
   key is lost. "UPSERT either inserts a new key into the blindi node, or
   overwrites the key pointer" (Q:3453).
3. **Erasing the smaller of two keys breaks a SeqTree node** (Q:2922,
   `leaf_erase_head`). The early return leaves `blindiTree[0]` at 0; the next
   insert of a smaller key moves it past the only difference, and a stored key is
   not found.
4. **An upsert of a stored key inserts it again** (Q:3475, U:773, `leaf_upsert`).
   The insertion does not depend on the hit, so the key is in the node twice, and
   `slotuse` does not count it. So does a plain insert in a SeqTree node (Q:3412):
   the hit only sets the answer and the difference, where the nodes of U and R
   return. "If the tree does not allow duplicate keys, then the insert may fail if it
   is already present" (T:2192): it does fail, and changes the leaf. TLC stops at
   whichever of the two it meets first; either alone violates `NothingLost`.
5. **Ends of the elastic tree's leaf list dangle** (H:3466, `elastic_list_ends`).
   A replaced first or last leaf is freed while `m_headleaf` or `m_tailleaf`
   still points to it; `begin()`, `end()` and the bounds use them.

Smaller disagreements without a run of their own:

- `key_ptr` has NUM_SLOTS/2 + 4 slots after a split (Q:2827), and `MergeBlindiNodes`
  (Q:3073) stores up to NUM_SLOTS keys without enlarging it: too many for leaves of
  more than 8 slots (`src/blindi_seqtree/test_blindi_seqtree.cpp:650` asserts that
  every merged key is found). `leaf_siblings` has 8 slots and merges with the
  program's step of 4, where `WithinAllocation` just holds; the builds with a step
  of 1 only insert, because with a merge they overrun (tried once: 7 steps).
- `erase_one_descend` (T:2886-2891) merges leaves that exactly fill one, while the
  assertion of `merge_leaves` (T:3414) asks for less; with the assertion's bound
  the tree would keep empty leaves (a mutant of `NodesFilled`).
- When the only key of a leaf that is the last child of its parent is erased and
  its left sibling is full, the code reaches `assert(leaf == m_root)` (T:2851),
  which does not hold, and without assertions the separator above stays at the
  erased key. `verify_node` would object (T:3910); descents do not (`KeysFound`).
- The leaf split of the concurrent trees with subtrie and trie leaves
  (`blindi_BTreeOLC_subtrie.hpp:189-210`, `blindi_BTreeOLC_trie.hpp:186-207`)
  gives the lower half to the new leaf, which the parent then links on the right:
  the lower keys cannot be found again, with one thread. The code that the comment
  at `blindi_BTreeOLC_subtrie.hpp:201-203` keeps copied the upper half.
- The `upsert` of B (B:544-598) stores the payload before it compares the words.
- An upsert of a stored key in R follows the pointer to the key as if it were an
  entry, outside the arrays; `TrieNode` leaves that case out.
- The loop H:3208, which by its comment goes "over all the leaves of the same
  parent", ends before the last one, so a marked parent may keep one plain leaf
  (`MarkedParentsScanned` says exactly that and no more).

## 5. Proofs

`OptLockProofs` proves, for any sets of threads, cells and values,
`TypeCorrect`, `WriteSectionsExclusive` (`WriteExclusion`),
`OptimisticReadsSound` (`CommittedReadsAreCurrent`) and `ObsoleteNodesFinal`
(`ObsoleteIsFinal`). The inductive invariant says that a thread in a write
section has the locked word as its version, that a loaded version is readable
and not above the word, and that while the word still is the loaded version all
cells read agree with the node. Arithmetic enters only through the parity and
order of the word, stated as lemmas.

`BTreeOLCProofs` proves for any number of threads, keys, nodes and slots (under
`SlotsAssumption`: at least 2 leaf and 5 inner slots; `SetsAssumption`: keys are
numbers, the null pointer is no node):

- `OptimismJustified`: `Spec => []TreeInv`,
- `TreeTypeCorrect`: `TypeOK`, `NoLockLeaks`: `LocksBalanced`,
  `ParentHasRoom`: `RoomInParent`, each a consequence.

`RoomInParent` is not inductive: that the parent has room is observed before it
is locked. `TreeInv` adds what connects the two: `VersionsBehind` (a version
held by a thread was readable and the word has not fallen below it), so that an
equal word means that no write section has begun since; `FactsStand` (what was
seen of a node, full or with room, is true while the word equals the version,
and after the upgrade while the thread holds the lock); `PointersGood` (a thread
points to allocated nodes, its parent is an inner node and not the node itself);
`NodesWellFormed`; and `LocksBalanced`. The proof is a frame argument: a step of
thread t is `Disciplined` if it changes the contents of a node only while t
holds it and moves words only as lock operations do. The lemma `ThreadFrame`
shows that a disciplined step of t preserves `ThreadInv` of every other thread,
so each action needs its discipline and its own thread's invariant only. Moves,
lock operations, content changes and splits have a lemma each that the actions
are reduced to. TLC checks `TreeInv` in `olc_upper_splits`.

It also proves, under the same assumptions and for any size again,
that the tree of B answers right:

- `KeysInOrder`: `Spec => []OrderInv`,
- `LookupsComplete`: if `LookupValidates` (the lookup of B, not that of S),
  `Spec => []LookupNeverMisses`,
- `TreeIsDictionary`: if `LookupValidates`, `Spec => Linearizable`: the tree
  implements the abstract `Dictionary`, with an insert taking effect when the
  leaf is stored into and a lookup when its last comparison succeeds.

Neither property says why a key is found, and an invariant over paths from the
root would change as a whole with every split. `OrderInv` (module
`BTreeOLCOrder`) says it node by node.
There are two functions that the program does not have: `own[n]`, the keys that
node n is responsible for, and `led[n]`, those that the pointers to n lead there.
`Parted`: the root is led to every key, an inner node's separators ascend, are
its own and part its keys among its children (`led` of a child is what of the
parent's `own` lies between the separators around it), a leaf holds keys of its
own only, and no two leaves own the same; `own` and `led` are equal but for a
node whose split is not linked yet (`Halved`: its upper half is the new node's
while the pointers still lead to the old one). `LinkedOnce`: a node has one
pointer to it, and none while it is pending. On top of that stands what a thread
knows (`OnCourse`): while the word of its parent, or of its node, still is the
version it loaded, the parent owns its key and leads it to the node, or the node
owns it; once it holds the locks it is so without condition. `Answered` and
`Remembered` carry that to the answer of a lookup. The functions are not history
variables: `OrderInv` says that they exist, and each step is shown to keep them
(18 actions), to divide `own` (a split), or to hand over `led` (a link, where the
separator is looked up again in the parent and must fall right of the node that
was split, `LinkPlace`) or to give the new root all keys. `OrderFrame` is the
frame lemma: a careful step of a thread disturbs nothing that another relies on.
TLC checks the invariant as `KeysParted` in `olc_leaf_splits`, with both
functions read off the tree (they are determined by it).

Last comes `NoKeyLost`: `Spec => []KeysReachable`, if there are
finitely many nodes. Here the property is about a recursive descent (`Route`). The
induction theorems of the library take an operator as a parameter, which the
provers cannot instantiate, but a least counterexample serves as well:
`LeastNatural` (every nonempty set of naturals has a least element, from the
well-foundedness of inclusion on finite sets) is applied to the set of depths at
which something would be wrong. It gives that routes exist (`RouteExists`), that
all nodes on the route of a key own the key unless the route comes past a split
that is not linked (`RouteOwned`, from `Parted`), that a route stays in a leaf
(`InnerBefore`) and that it never returns to an inner node (`NoReturn`, from
`LinkedOnce`); a route of `Cardinality(Nodes)` steps within inner nodes would
return by the pigeonhole principle, so it ends in a leaf (`RouteEnds`).

`ElasticTreeProofs`, with the lemmas of `ElasticLeafProofs`, proves for any keys,
any sizes of nodes, any of the four settings of `BLINDI_MAX_MULTI_SIZE` and any
limits (under `ElasticAssumption`: at least 2 leaf and 3 inner slots, and a limit
not below the slots of a leaf):

- `StaysTree`: `Spec => []ElasticInv`,
- `ElasticTypeCorrect`: `TypeOK`, `StatsStayExact`: `StatsExact`,
  `NodesStayFilled`: `NodesFilled`, `MarksStayTrue`: `MarkedParentsScanned`,
- `PlainLeavesNeverGrow`: the action property `PlainLeavesShrink`,
- `LeavesHoldStored`: between calls the leaves hold exactly the keys inserted.

The properties speak of the time between two calls, and most of them are not
inductive even there. `ElasticInv` (module `ElasticShape`) says what is true in
the middle of a call:

- `Tree`. `LinkedOnce`: every node in use has exactly one pointer to it, except the
  root and the new half of a split on its way up. It is what makes a replacement
  safe: `replaceLeaf` redirects one slot and frees the leaf, so there must be no
  other slot with it. `InnerFilled` and `LeafFilled` bound the nodes, and the root
  as well while it waits for the root above it (`rootSplit`). `ListLinked` is the
  doubly linked list with one first leaf. `RootLeafPlain`: a root that is a leaf
  holds all keys, so with a limit above the slots of a leaf it is never replaced,
  which is why `CompressSibling` and `StoreExtend` find a parent. `MarkTrue`: the
  mark of a parent is set only after the limit has been passed, after which no
  plain leaf is split, so no later split brings a plain leaf into it.
- `CallUnderWay`. The path leads down from the root, a level per entry, and ends at
  the node of the call; a split node is replaced by two of the same kind
  (`SplitAlike`), so a compact one in the middle of a marked parent stays two
  compact ones.
- `Counted`: the counters are the cardinalities at every step of a call.
- `StatusDriven`: past the limit the status is CONTINUE only when no plain leaf is
  left, and a full plain leaf is stored into only in CONTINUE. This is what
  `PlainLeavesShrink` needs: past the limit a plain leaf can be split only in
  CONTINUE, and then there is none.

Each of the ten steps of a call, and its beginning, has a lemma that it keeps
`ElasticInv`. Most rest on a description of the step as the heap before and after
(`ReplacedFields`, `HalvedHeap`, `Grown`, ...), from which the parts of the
invariant follow without the definition of the step. Replacing a leaf is a
renaming of one node (`RenNodes`), and a step of the descent changes no node
(`SameNodes`); the two halves of an inner node are the old one with the new child
entered, cut in two (`SplitHalves`), in each of the three ways the code has.

The same module proves of this tree, under the same assumption, the two
properties that speak of the order of the keys:

- `StaysOrdered`: `Spec => []OrderInv`,
- `KeysStayFound`: `KeysFound`: the descent of `exists` and `find` ends, in a tree
  of any height, at the leaf that holds the key,
- `LeavesStayLinked`: `LeavesLinked`, the keys along the leaf list included.

`OrderInv` (module `ElasticOrder`) adds to `ElasticInv` that there are functions
`own` and `led` as in `BTreeOLCOrder` (`Placed`): the root is led to every key, the
separators of an inner node ascend, are its own and part its keys among its
children (`Part`), a leaf holds keys of its own, no two leaves own the same, and
those of the next leaf are above (`LeavesInOrder`). The functions differ only at
the node whose other half is on its way up (`SplitOwned`): there the pointers
still lead all keys to the lower half. A call below the root is at a node that
owns its key. Steps that move no node keep the functions (`SameKeys`,
`SameNodesOwned`); a replaced leaf hands them to the new one (`ReplacedOrder`); a
split of a leaf divides `own` at the new separator (`StoreSplitOrder`); a child
that enters its parent takes its keys from its left neighbour (`EnterParts`,
`ChildEntered`), at the slot that the descent came by, which the code never
searches again; the parent then is the end of the path in turn (`StepBack`); a
full inner node is divided after that (`DivideParts`, `SplitInnerOrder`); a new
root is led to everything (`FinishGrownOrder`). That a
descent ends is again an argument by a least counterexample, on the levels
(`DescentsEnd`), as is that it ends at an owner of the key (`DescentOwned`). Two
leaves that own the key are one, so the leaf it ends at is the one that holds the
key. TLC checks the invariant as `KeysParted` in `elastic_growth`, with both
functions read off the tree.

`CompactEraseProofs`, with the lemmas of `CompactTreeProofs`, proves of the
sequential tree with erase, for any keys and any sizes of nodes the code admits
(`CompactAssumption`: an even number of leaf slots, at least 2, and at least 3
inner slots):

- `TreeKept`: `Spec => []KeptInv`,
- `TreeTyped`: `TypeOK`, `CountersExact`: `StatsExact`, `AllNodesFilled`:
  `NodesFilled`, each a consequence.

The three properties speak of the time between calls. `KeptInv` (module
`CompactOrder`) says what is true at every step of one:

- `Tree`. `LinkedOnce`: every node is the child of exactly one slot, except the
  root, a new node on its way up, and the child that a merge has emptied (`gone`),
  which still hangs in its parent until `Fix` frees it. `InnerFilled` and
  `LeafFilled` bound the nodes; `least` is what an inner node has at least, one key
  less where an underflow is yet to be treated.
- `CallUnderWay`. The stack leads down from the root, a level per frame, and each
  frame was entered at the slot its parent's frame names. What a frame knows of its
  neighbours is right where they have the same parent (`NearbyKnown`); where they do
  not, the code combines nothing (`BesideNodes`), so the left cousin that is not
  adjacent does no harm. `emptied` finds the child that a merge emptied, because no
  other child is empty.
- `Counted`, `Recorded`: the counters at every step.
- `Kept`: each key stored is in one leaf and no leaf has another key, but for the
  key that is being inserted or erased (`present`).

Every step has a lemma that it keeps the shape and one that it keeps the keys.
The steps are described as sequences before and after: a node cut in two around
the new child in the three ways of `split_inner_node` (`SplitNode`), two nodes put
together around the parent's key (`MergedNodes`), or children handed over through
the parent (`ShiftedLeft`, `ShiftedRight`). `Relinked` says that children which
only move between inner nodes stay linked once, whichever the nodes are.

`CompactOrderProofs` proves of the same tree, under the same assumption, that no
key is lost:

- `KeysPartedInside`: `Spec => []FoundInv`,
- `KeysStayInTree`: `KeysFound`: between calls a descent for any key arrives, in a
  tree of any height, at the leaf that holds it if it was inserted and not erased
  since, and at a leaf without it otherwise.

`FoundInv` adds to `KeptInv` that there is a function `kin`, the keys below each
node, such that (`Led`):

- `KeysBelow`: a leaf has its own keys below it, an inner node those of its
  children, and of the node split off below it that is not linked yet (`rising`);
  the root has all; nothing else is below the emptied child.
- `Parted`: the separators part the keys below the children of every node. They
  need not be keys of the tree any more, for an erase that empties a leaf leaves
  its separator; and the separator of an emptied child means nothing until `Fix`
  removes it, which is why it is left out.
- `SplitParted`: the key on its way up parts the split node from the new one.
- `RightWay`: the frames of the descent were entered where the separators part
  the key of the call from the others.
- `LastkeyKnown`: the key that an erase carries up, to become the separator of an
  ancestor, is the last one below the current node.

Each step has a lemma that gives the next `kin`: a new key is added along the path
(`gained`) and an erased one taken from it (`lost`), the left one of two merged
nodes takes the keys of the other (`leftKin`), a split or a shift divides the keys
of the nodes (`dividedKin`). What a step makes of a node is stated of sequences,
without the heap (`JoinParts`, `CutParts`, `InsertParts`, `RemoveParts` and, for
the separator of two nodes that exchange children, `RepairedNode`). That a descent
ends in the right leaf is an argument by a least level (`DescentLeads`).

The same module proves of the list of the leaves:

- `ListStaysInOrder`: `Spec => []CompactInv`,
- `ListStaysLinked`: `LeavesLinked`, which speaks of the time between calls.

`CompactInv` adds to `FoundInv` that the leaves, without one that a merge has
emptied, are one doubly linked list from `m_headleaf` to `m_tailleaf` (`Linked`),
and that it is in the order of their keys (`InOrder`): each leaf is followed by
the leaf with the next keys, so that no keys of a third are between those of two
neighbours. The separators are needed for this in two places. An insert, or the
split of a leaf, keeps the order because the separators that led the key down lead
every other stored key to the same side of it as of the keys of its leaf (`Aside`,
which goes down the stack from the root, `PathAside`). And `merge_leaves`, which
takes the two leaves from the parent but the links from the list, needs them to be
neighbours in the list: nothing is between the keys of two children side by side
(`NoneBetween`), so the leaf behind the left one can be no other than the right one
(`BesideLinked`). The rest is about lists only, without the tree: `LinksGrow` and
`OrderGrows` for a leaf that is put in, `LinksShrink` and `OrderShrinks` for one
that is taken out.

Only model-checked: liveness (`CallsReturn`); everything about compact nodes (what
searches and splits compute for every input is an induction over the data, with
the bits of keys and recursive operators in it). TLC checks `CompactInv` as
`KeptInv` and `KeysParted`, with `kin` read off the tree.

## 6. Not modelled

`scan` and the `upsert` of B in the concurrent tree; the concurrent trees with
subtrie and trie leaves (see the disagreements above: their split leaves no
correct behaviour to check); the linear node; in Q the conversions
(`transfer_btree2blindi`, `transferNode`) and deeper trees; fingerprints and keys
of variable length in all nodes; in T, its copies and H bulk loading, copying,
dump and restore, erase through an iterator, iterators and bounds; erase in H,
which does not compile when instantiated. The version of a lock is unbounded: its
62 bits cannot turn over during one read. Third-party code (most of the lines of
the repository: BwTree, HOT, ART, Masstree, mcas, googletest, ...) is left out.

## 7. Plan

1. *Extend the model.* The conversions of Q between node sizes as operators of
   `SeqTreeNode` (entries change width between nodes of up to 254 slots and
   larger ones), used by `ElasticTree` in place of sets of keys; the linear node
   as a fourth encoding of `CompactLeaves`; erase through an iterator in
   `CompactBTree`, which searches the leaves of equal keys in another way.
2. *Prove more.* That the sequential trees implement an abstract set, of which
   `KeysFound` is the refinement mapping's core; of `CompactLeaves` the parts that
   need no induction over the bits of a key, such as `WithinAllocation`.
