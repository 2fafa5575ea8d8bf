----------------------------- MODULE SeqTreeNode -----------------------------
(***************************************************************************)
(* The compact leaf of blindi_seqtree.hpp.  A node keeps pointers to its   *)
(* keys in ascending order and, instead of the keys themselves, the        *)
(* position of the first bit in which two neighbours differ (blindiKeys).  *)
(* A tree of the two upper levels (blindiTree, TREE_LEVELS = 2) indexes    *)
(* the minima of that array:                                               *)
(*                                                                         *)
(*    tree[0]   the index of the minimum of all                            *)
(*    tree[1]   the index of the minimum left of tree[0]                   *)
(*    tree[2]   the index of the minimum right of it                       *)
(*                                                                         *)
(* with END_TREE for an empty range.  A search walks the tree and scans    *)
(* the rest of the range without reading any key, compares the one key it  *)
(* arrives at, and corrects the position by where the two differ.          *)
(*                                                                         *)
(* This module has no state: it defines what every function of the class   *)
(* returns and what it makes of a node.  A node is a record of BlindiKeys  *)
(* with                                                                    *)
(*                                                                         *)
(*    diffs  blindiKeys[0 .. valid_len - 2]                                *)
(*    tree   blindiTree                                                    *)
(***************************************************************************)
EXTENDS BlindiKeys

END_TREE == 255          \* (idx_t)-1, also the minimum of an empty range
DUPLICATE == 254         \* (bitidx_t)-2, the difference of a key and itself
MAX_HIGH_MISS == 253     \* (bitidx_t)-3

diffAt(n, i) ==
  IF i >= 0 /\ i < Len(n.diffs) THEN n.diffs[i + 1] ELSE Stale

EmptyTree == [i \in 0 .. 2 |-> END_TREE]

-----------------------------------------------------------------------------
(* Variants of single operations that the mutation runs put in their place. *)

\* The scan also takes a bit below a subtree that was missed.
scanForgettingMiss(n, k, from, to, start) ==
  LET pos[i \in from - 1 .. to] ==
        IF i = from - 1 THEN start
        ELSE IF isSet(k, diffAt(n, i)) THEN i + 1 ELSE pos[i - 1]
  IN IF to < from THEN start ELSE pos[to]

\* Removing a key keeps the difference to its right neighbour only.
dropDiffRight(n, pos) ==
  IF pos = valid_len(n) - 1 THEN Front(n.diffs) ELSE RemoveAt(n.diffs, pos + 1)

\* A merge moves END_TREE as if it were an index.
moveEntryUnchecked(i, offset) == i + offset

-----------------------------------------------------------------------------
(* Search *)

\* The scan of the positions from .. to.  A difference is looked at only if it
\* is not below a subtree that the key missed (high_miss).
scan(n, k, from, to, start) ==
  LET at[i \in from - 1 .. to] ==
        IF i = from - 1 THEN [pos |-> start, high_miss |-> MAX_HIGH_MISS]
        ELSE LET idx == diffAt(n, i)
             IN IF idx > at[i - 1].high_miss THEN at[i - 1]
                ELSE IF isSet(k, idx)
                  THEN [pos |-> i + 1, high_miss |-> MAX_HIGH_MISS]
                  ELSE [at[i - 1] EXCEPT !.high_miss = idx]
  IN IF to < from THEN start ELSE at[to].pos

\* The last step of the walk, from tree[at] to the scan; up and subUp are the
\* bits of the key at the two levels.
scanBelow(n, k, up, at, subUp) ==
  LET first == CASE subUp -> n.tree[at] [] ~subUp /\ up -> n.tree[0] [] OTHER -> 0
      last == CASE ~subUp -> n.tree[at] [] subUp /\ ~up -> n.tree[0]
                [] OTHER -> valid_len(n) - 2
      from == IF up \/ subUp THEN first + 1 ELSE first
      to == IF ~up \/ ~subUp THEN last - 1 ELSE last
  IN [pos |-> scan(n, k, from, to, from), at |-> at, first |-> first, last |-> last]

\* The step from tree[0] to tree[at].
walkBelow(n, k, up, at) ==
  IF n.tree[at] = END_TREE
    THEN [pos |-> IF up THEN n.tree[0] + 1 ELSE n.tree[0], at |-> at,
          first |-> 0, last |-> valid_len(n) - 2]
    ELSE scanBelow(n, k, up, at, isSet(k, diffAt(n, n.tree[at])))

\* Where the walk down the tree and the scan arrive.  first and last are
\* tree_traverse[0] and [1] (unsigned 16 bit), at is tree_traverse[2].
SearchFirstStage(n, k) ==
  CASE valid_len(n) = 1 \/ n.tree[0] = END_TREE ->
         [pos |-> 0, at |-> 0, first |-> 0, last |-> (valid_len(n) - 2) % 65536]
    [] OTHER -> LET up == isSet(k, diffAt(n, n.tree[0]))
                IN walkBelow(n, k, up, IF up THEN 2 ELSE 1)

\* The predecessor among the positions around the first stage's, by the
\* differences below diff; smaller when there is none.
SearchSecondStageSeq(n, walk, diff, large) ==
  IF large
    THEN LET below == {i \in walk.pos .. walk.last : diffAt(n, i) < diff}
         IN [pos |-> IF below = {} THEN (walk.last + 1) % 65536
                     ELSE CHOOSE i \in below : \A j \in below : i <= j,
             smaller |-> FALSE]
    ELSE LET below == {i \in walk.first .. walk.pos - 1 : diffAt(n, i) < diff}
         IN IF below = {}
              THEN [pos |-> IF walk.pos = 0 THEN 0 ELSE walk.first,
                    smaller |-> TRUE]
              ELSE [pos |-> CHOOSE i \in below : \A j \in below : i >= j,
                    smaller |-> FALSE]

\* The key belongs next to a whole subtree of the second level, with
\* bring_largest_in_subtree and bring_smallest_in_subtree: at = 1 is the part
\* left of tree[0], at = 2 the part right of it.
SearchSecondStageTree(n, at, large) ==
  CASE large  /\ at = 2 -> [pos |-> valid_len(n) - 1, smaller |-> FALSE]
    [] ~large /\ at = 1 -> [pos |-> 0, smaller |-> TRUE]
    [] OTHER -> [pos |-> n.tree[0], smaller |-> FALSE]

\* A point search: the position and whether the key there is k.
SearchPoint(n, k) ==
  LET pos == SearchFirstStage(n, k).pos
  IN [pos |-> pos, hit |-> keyAt(n, pos) = k]

\* The second stage, for a key that differs in bit diff from the one that the
\* first stage arrives at: where its predecessor is, and if its difference would
\* change the tree (tree_traverse[4]) at index at.
SearchSecondStage(n, walk, diff, large) ==
  LET above(i) == n.tree[i] = END_TREE \/ diff < diffAt(n, n.tree[i])
      found(at, inTree, place) ==
        [pos |-> place.pos, hit |-> FALSE, smaller |-> place.smaller,
         diff |-> diff, large |-> large, inTree |-> inTree, at |-> at]
  IN IF above(walk.at)
       THEN IF above(0)
              THEN found(0, TRUE, [pos |-> IF large THEN valid_len(n) - 1 ELSE 0,
                                   smaller |-> ~large])
              ELSE found(walk.at, TRUE, SearchSecondStageTree(n, walk.at, large))
       ELSE found(walk.at, FALSE, SearchSecondStageSeq(n, walk, diff, large))

\* The comparison of the key with other, the one that the walk arrives at.
SearchFrom(n, k, walk, other) ==
  IF other = k
    THEN [pos |-> walk.pos, hit |-> TRUE, smaller |-> FALSE,
          diff |-> 0, large |-> FALSE, inTree |-> FALSE, at |-> walk.at]
    ELSE SearchSecondStage(n, walk, CompareStage(k, other), k > other)

\* A predecessor search: one key is compared.
SearchBlindiNode(n, k) ==
  LET walk == SearchFirstStage(n, k) IN SearchFrom(n, k, walk, keyAt(n, walk.pos))

-----------------------------------------------------------------------------
(* Indexing the minima *)

\* min_pos_value_in_range
min_pos_value_in_range(diffs, from, to) ==
  IF from > to THEN END_TREE
  ELSE CHOOSE i \in from .. to :
         /\ \A j \in from .. to : diffs[i + 1] <= diffs[j + 1]
         /\ \A j \in from .. i - 1 : diffs[j + 1] > diffs[i + 1]

\* update_blindiTree_from_seq, with bring_edges_seq_from_pos.
update_from_seq(diffs, top, at) ==
  CASE at = 0 -> min_pos_value_in_range(diffs, 0, Len(diffs) - 1)
    [] at = 1 -> min_pos_value_in_range(diffs, 0, top - 1)
    [] at = 2 -> min_pos_value_in_range(diffs, top + 1, Len(diffs) - 1)

-----------------------------------------------------------------------------
(* Insert *)

\* first_insert into a new node.
first_insert(k, breathing) ==
  [keys |-> <<k>>, diffs |-> <<>>, tree |-> EmptyTree,
   max |-> NumSlots, breathing |-> breathing]

\* Entries of the tree behind the new difference move up by one; the level is
\* left at the first entry before it (right to left).
shiftTree(tree, s, diffs) ==
  LET moves(i) ==
        \/ tree[i] # END_TREE /\ tree[i] > s.pos
        \/ tree[i] = s.pos /\ s.diff = diffs[tree[i] + 1]
      stops(i) == ~moves(i) /\ tree[i] < s.pos
  IN [i \in 0 .. 2 |-> IF moves(i) /\ ~(i = 1 /\ stops(2))
                         THEN (tree[i] + 1) % 256 ELSE tree[i]]

\* The new difference becomes entry at; the entry it displaces from the top
\* goes down to its side.
enterTree(tree, at, i) ==
  IF at # 0 THEN [tree EXCEPT ![at] = i]
  ELSE IF tree[0] < i
    THEN 0 :> i @@ 1 :> tree[0] @@ 2 :> END_TREE
    ELSE 0 :> i @@ 1 :> END_TREE @@ 2 :> tree[0]

\* The difference is not stored when the key goes behind the last one and is
\* not larger, which only an upsert of the last key asks for.
Insert2BlindiNodeInPosition(n, k, s) ==
  LET right == IF s.smaller THEN s.pos ELSE s.pos + 1  \* slot of the key
      last == ~s.smaller /\ s.pos = valid_len(n) - 1
      i == IF s.large \/ last THEN s.pos ELSE right     \* and of its diff
      diffs == InsertAt(n.diffs, i + 1, IF last /\ ~s.large THEN Stale ELSE s.diff)
      tree == shiftTree(n.tree, s, diffs)
  IN [n EXCEPT !.keys = InsertAt(@, right + 1, k),
               !.diffs = diffs,
               !.tree = IF s.inTree THEN enterTree(tree, s.at, i) ELSE tree,
               !.max = breath(n)]

\* A key that is there is inserted again on the right of itself.
insertNew(n, k, s) ==
  Insert2BlindiNodeInPosition(n, k,
    IF s.hit THEN [s EXCEPT !.diff = DUPLICATE, !.large = TRUE] ELSE s)

\* A full node refuses (INSERT_OVERFLOW); one that has the key only reports it
\* (INSERT_DUPLICATED_KEY).
Insert2BlindiNodeWithKey(n, k) ==
  CASE valid_len(n) = NumSlots -> n
    [] valid_len(n) = 0 -> first_insert(k, n.breathing)
    [] OTHER -> insertNew(n, k, SearchBlindiNode(n, k))

insertAgain(n, k, s) ==
  IF valid_len(n) = NumSlots /\ ~s.hit THEN n
  ELSE Insert2BlindiNodeInPosition(n, k, s)

\* An upsert inserts, also when the search has hit the key, with a difference
\* of 0.
Upsert2BlindiNodeWithKey(n, k) ==
  IF valid_len(n) = 0 THEN first_insert(k, n.breathing)
  ELSE insertAgain(n, k, SearchBlindiNode(n, k))

-----------------------------------------------------------------------------
(* Split of a full node *)

\* What one half keeps of the tree: the entries that point into the positions
\* from .. to, the first of them on top.
inheritTree(tree, from, to) ==
  LET adopt(t, e) ==
        IF e = END_TREE \/ e < from \/ e > to THEN t
        ELSE LET at == CASE t[0] = END_TREE -> 0
                         [] t[0] # END_TREE /\ e - from < t[0] -> 1
                         [] OTHER -> 2
             IN IF t[at] = END_TREE THEN [t EXCEPT ![at] = e - from] ELSE t
  IN FoldLeft(adopt, EmptyTree, <<tree[0], tree[1], tree[2]>>)

\* The entries it does not inherit are computed from the differences.
completeTree(t, diffs) ==
  LET top == IF t[0] = END_TREE THEN update_from_seq(diffs, 0, 0) ELSE t[0]
  IN [at \in 0 .. 2 |->
        CASE at = 0 -> top
          [] at # 0 /\ t[at] = END_TREE /\ top # END_TREE ->
               update_from_seq(diffs, top, at)
          [] OTHER -> t[at]]

\* (A variant for the mutation runs: the last key of a half is not copied.)
splitHalfShort(n, from) ==
  LET size == valid_len(n) \div 2
      diffs == SubSeq(n.diffs, from + 1, from + size - 2)
  IN [n EXCEPT
        !.keys = SubSeq(@, from + 1, from + size - 1),
        !.diffs = diffs,
        !.tree = completeTree(inheritTree(@, from, from + size - 3), diffs),
        !.max = halfMax(n)]

\* The half with the keys at from .. from + NumSlots / 2 - 1.
splitHalf(n, from) ==
  LET size == valid_len(n) \div 2
      diffs == SubSeq(n.diffs, from + 1, from + size - 1)
  IN [n EXCEPT
        !.keys = SubSeq(@, from + 1, from + size),
        !.diffs = diffs,
        !.tree = completeTree(inheritTree(@, from, from + size - 2), diffs),
        !.max = halfMax(n)]

SplitBlindiNode(n) ==
  [small |-> splitHalf(n, 0), large |-> splitHalf(n, valid_len(n) \div 2)]

-----------------------------------------------------------------------------
(* Remove *)

\* The difference between the neighbours of the key at pos.
dropDiff(n, pos) ==
  CASE pos = valid_len(n) - 1 -> Front(n.diffs)
    [] pos = 0 -> Tail(n.diffs)
    [] OTHER ->
         LET least == IF n.diffs[pos] < n.diffs[pos + 1]
                        THEN n.diffs[pos] ELSE n.diffs[pos + 1]
         IN RemoveAt([n.diffs EXCEPT ![pos] = least], pos + 1)

\* The tree after the key at pos is gone and diffs are left.
removeFromTree(tree, pos, diffs) ==
  LET first == pos = 0
      last == pos = Len(diffs) + 1
      gone(e) == (first /\ e = 0) \/ (last /\ e = Len(diffs))
      down(e) == IF e >= pos THEN e - 1 ELSE e
      top == CASE first /\ tree[0] = 0 -> (tree[2] - 1) % 256
               [] last /\ tree[0] = Len(diffs) -> tree[1]
               [] OTHER -> down(tree[0])
      sub(at) ==
        CASE top = END_TREE -> END_TREE
          [] top = 0 /\ at = 1 -> END_TREE
          [] top = Len(diffs) - 1 /\ at = 2 -> END_TREE
          [] OTHER ->
               IF \/ gone(tree[0])
                  \/ /\ tree[at] # END_TREE
                     /\ \/ gone(tree[at]) \/ tree[at] = top
                        \/ tree[at] = pos - 1 \/ down(tree[at]) = top
                 THEN update_from_seq(diffs, top, at)
                 ELSE IF tree[at] = END_TREE THEN END_TREE ELSE down(tree[at])
  IN [at \in 0 .. 2 |-> IF at = 0 THEN top ELSE sub(at)]

\* The smaller of two keys, and an only key, are removed without the tree.
RemoveFromBlindiNodeInPosition(n, pos) ==
  CASE valid_len(n) = 1 -> [n EXCEPT !.keys = <<>>]
    [] valid_len(n) = 2 /\ pos = 0 ->
         [n EXCEPT !.keys = Tail(@), !.diffs = <<>>]
    [] OTHER ->
         LET diffs == dropDiff(n, pos)
         IN [n EXCEPT !.keys = RemoveAt(@, pos + 1),
                      !.diffs = diffs,
                      !.tree = removeFromTree(@, pos, diffs)]

\* A key that is not found leaves the node alone (REMOVE_KEY_NOT_FOUND).
RemoveFromBlindiNodeWithKey(n, k) ==
  LET s == SearchPoint(n, k)
  IN IF s.hit THEN RemoveFromBlindiNodeInPosition(n, s.pos) ELSE n

-----------------------------------------------------------------------------
(* Merge *)

\* push_down_blindiTree of one entry of the larger node.
moveEntry(i, offset) == IF i = END_TREE THEN END_TREE ELSE i + offset

\* Which minimum is the least: the difference between the two nodes, entry i
\* of the smaller node or entry j of the larger one.
leastOf(mid, n, i, m, j) ==
  CASE /\ i = END_TREE \/ mid < diffAt(n, i)
       /\ j = END_TREE \/ mid < diffAt(m, j) -> "middle"
    [] i # END_TREE /\ (j = END_TREE \/ diffAt(n, i) < diffAt(m, j)) ->
         "small"
    [] OTHER -> "large"

mergeTrees(n, m, mid) ==
  LET size == valid_len(n)
      a == n.tree
      b == m.tree
      entry(winner, i, j) == CASE winner = "middle" -> size - 1
                               [] winner = "small" -> i
                               [] winner = "large" -> moveEntry(j, size)
      winner == leastOf(mid, n, a[0], m, b[0])
  IN [at \in 0 .. 2 |->
       CASE at = 0 -> entry(winner, a[0], b[0])
         [] at = 1 /\ winner = "middle" -> a[0]
         [] at = 1 /\ winner = "small" -> a[1]
         [] at = 1 /\ winner = "large" ->
              entry(leastOf(mid, n, a[0], m, b[1]), a[0], b[1])
         [] at = 2 /\ winner = "middle" -> moveEntry(b[0], size)
         [] at = 2 /\ winner = "small" ->
              entry(leastOf(mid, n, a[2], m, b[0]), a[2], b[0])
         [] at = 2 /\ winner = "large" -> moveEntry(b[2], size)]

\* CopyNode into an empty node, or all keys of the larger node m behind those
\* of n.  The allocation of n stays as it is.
MergeBlindiNodes(n, m) ==
  CASE valid_len(n) = 0 -> [m EXCEPT !.max = n.max]
    [] valid_len(n) # 0 /\ valid_len(m) = 0 -> n
    [] OTHER ->
         LET mid == IF Last(n.keys) = Head(m.keys) THEN DUPLICATE
                    ELSE CompareStage(Last(n.keys), Head(m.keys))
         IN [n EXCEPT !.keys = @ \o m.keys,
                      !.diffs = Append(@, mid) \o m.diffs,
                      !.tree = mergeTrees(n, m, mid)]

-----------------------------------------------------------------------------
(* What a node must be *)

\* The differences are those of the keys and the tree indexes their minima.
Indexed(n) ==
  valid_len(n) >= 1 =>
    /\ Len(n.diffs) = valid_len(n) - 1
    /\ \A i \in 1 .. Len(n.diffs) :
         n.diffs[i] = CompareStage(n.keys[i], n.keys[i + 1])
    /\ n.tree[0] = update_from_seq(n.diffs, 0, 0)
    /\ \A at \in {1, 2} :
         n.tree[at] = IF n.tree[0] = END_TREE THEN END_TREE
                      ELSE update_from_seq(n.diffs, n.tree[0], at)

SearchRight(n, k) ==
  AnswersRight(n, k, SearchPoint(n, k).hit, SearchBlindiNode(n, k))
=============================================================================
