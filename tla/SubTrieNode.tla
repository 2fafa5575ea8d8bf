----------------------------- MODULE SubTrieNode -----------------------------
(***************************************************************************)
(* The compact leaf of blindi_subtrie.hpp.  Like the SeqTree node it keeps *)
(* pointers to its keys in ascending order and the positions of the first  *)
(* bit in which neighbours differ, here as the inner nodes of the blind    *)
(* trie of the keys in preorder: entry i of the two arrays is a node,      *)
(*                                                                         *)
(*    diffs[i]  blindiKeys[i - 1], the bit that the node tests             *)
(*    sub[i]    subtrie_array[i - 1], the number of keys with the bit      *)
(*              clear, those of its left subtrie                           *)
(*                                                                         *)
(* followed by its left subtrie (sub[i] - 1 entries) and its right one.    *)
(*                                                                         *)
(* This module has no state; a node is a record of BlindiKeys with diffs   *)
(* and sub.  The loops of the class walk one path of the trie: here they   *)
(* are functions of the subtrie they have reached, the entry at, counted   *)
(* from 0, and its number m of entries.                                    *)
(***************************************************************************)
EXTENDS BlindiKeys

Entries(n) == 0 .. valid_len(n) - 1
subAt(n, at) == n.sub[at + 1]
diffAt(n, at) == n.diffs[at + 1]

\* Entries from .. to - 1 of both arrays, as pairs, and the arrays of pairs.
pairs(n, from, to) ==
  [i \in 1 .. to - from |-> <<diffAt(n, from + i - 1), subAt(n, from + i - 1)>>]
pairDiffs(s) == [i \in DOMAIN s |-> s[i][1]]
pairSubs(s) == [i \in DOMAIN s |-> s[i][2]]

-----------------------------------------------------------------------------
(* Search *)

\* The key that the bits of k lead to.
SearchFirstStage(n, k) ==
  LET walk[at \in Entries(n), m \in Entries(n)] ==
        IF m = 0 THEN 0
        ELSE LET s == subAt(n, at)
             IN IF isSet(k, diffAt(n, at)) THEN s + walk[at + s, m - s]
                                           ELSE walk[at + 1, s - 1]
  IN walk[0, valid_len(n) - 1]

\* From the root towards the key at position pos, through the nodes that test
\* bits before diff: the entry reached, its size m, the position of its first
\* key, and the entries whose left subtrie was entered.
walkAbove(n, pos, diff) ==
  LET walk[at \in Entries(n), m \in Entries(n), p \in -1 .. valid_len(n)] ==
        IF m = 0 \/ diffAt(n, at) >= diff
          THEN [at |-> at, m |-> m, pos |-> 0, lefts |-> {}]
          ELSE LET s == subAt(n, at)
                   r == walk[at + s, m - s, p - s]
                   l == walk[at + 1, s - 1, p]
               IN IF p >= s THEN [r EXCEPT !.pos = @ + s]
                            ELSE [l EXCEPT !.lefts = @ \cup {at}]
  IN walk[0, valid_len(n) - 1, pos]

\* The predecessor of a key that differs in bit diff from the key at pos: the
\* last key of the subtrie that hangs below that bit, or the one before it.
SearchSecondStage(n, diff, large, pos) ==
  LET w == walkAbove(n, pos, diff)
  IN [pos |-> CASE large -> w.pos + w.m
                [] ~large /\ w.pos = 0 -> 0
                [] OTHER -> w.pos - 1,
      smaller |-> ~large /\ w.pos = 0,
      hit |-> FALSE, diff |-> diff, large |-> large]

firstStage(n, k) == IF valid_len(n) > 1 THEN SearchFirstStage(n, k) ELSE 0

SearchPoint(n, k) ==
  LET pos == firstStage(n, k)
  IN [pos |-> pos, hit |-> keyAt(n, pos) = k]

\* The comparison of the key with other, the one at position pos.
SearchFrom(n, k, pos, other) ==
  IF other = k
    THEN [pos |-> pos, hit |-> TRUE, smaller |-> FALSE,
          diff |-> 0, large |-> FALSE]
    ELSE SearchSecondStage(n, CompareStage(k, other), k > other, pos)

\* The predecessor search of an insert.
SearchBlindiNode(n, k) ==
  LET pos == firstStage(n, k) IN SearchFrom(n, k, pos, keyAt(n, pos))

-----------------------------------------------------------------------------
(* Insert *)

first_insert(k, breathing) ==
  [keys |-> <<k>>, diffs |-> <<>>, sub |-> <<>>,
   max |-> NumSlots, breathing |-> breathing]

\* (A variant for the mutation runs: the left subtries that the key enters do
\* not grow.)
growLeftsNot(n, lefts) == n.sub

\* The key enters the left subtrie of these nodes.
growLefts(n, lefts) ==
  [i \in DOMAIN n.sub |-> IF i - 1 \in lefts THEN n.sub[i] + 1 ELSE n.sub[i]]

\* The new node enters the preorder above the subtrie that tests later bits;
\* that subtrie is on its left if the key is larger than it.
Insert2BlindiNodeInPosition(n, k, s) ==
  LET slot == IF s.smaller THEN s.pos ELSE s.pos + 1
      aim == s.pos + (IF s.large THEN 0 ELSE 1) - (IF s.smaller THEN 1 ELSE 0)
      w == walkAbove(n, aim, s.diff)
      aimThere == aim - w.pos           \* relative to the subtrie
      above == w.m > 0 /\ aimThere >= subAt(n, w.at)
      size == CASE above /\ w.at = 0 -> valid_len(n)
                [] above /\ w.at # 0 -> s.pos - w.pos + 1
                [] OTHER -> 1
  IN [n EXCEPT !.keys = InsertAt(@, slot + 1, k),
               !.diffs = InsertAt(@, w.at + 1, s.diff),
               !.sub = InsertAt(growLefts(n, w.lefts), w.at + 1, size),
               !.max = breath(n)]

insertNew(n, k, s) == IF s.hit THEN n ELSE Insert2BlindiNodeInPosition(n, k, s)

\* A full node refuses (INSERT_OVERFLOW), and so does one that has the key
\* (INSERT_DUPLICATED_KEY).
Insert2BlindiNodeWithKey(n, k) ==
  CASE valid_len(n) = NumSlots -> n
    [] valid_len(n) = 0 -> first_insert(k, n.breathing)
    [] OTHER -> insertNew(n, k, SearchBlindiNode(n, k))

insertAgain(n, k, s) ==
  IF valid_len(n) = NumSlots /\ ~s.hit THEN n
  ELSE Insert2BlindiNodeInPosition(n, k, s)

\* An upsert inserts, also when the search has hit the key.
Upsert2BlindiNodeWithKey(n, k) ==
  IF valid_len(n) = 0 THEN first_insert(k, n.breathing)
  ELSE insertAgain(n, k, SearchBlindiNode(n, k))

-----------------------------------------------------------------------------
(* Split *)

\* Along the path to the divider, the node between the two middle keys: a node
\* left of it goes to the small half with its left subtrie, a node right of it
\* to the large half with its right one, less the keys that left its own left
\* subtrie (moved).
divide(n) ==
  LET mid == valid_len(n) \div 2
      path[at \in Entries(n), m \in Entries(n), pos \in 0 .. valid_len(n)] ==
        LET s == subAt(n, at)
            left == path[at + 1, s - 1, pos]
            right == path[at + s, m - s, pos + s]
        IN CASE pos + s < mid ->
                  [right EXCEPT !.small = pairs(n, at, at + s) \o @,
                                !.moved = @ + s]
             [] pos + s > mid ->
                  [left EXCEPT !.large = (<<<<diffAt(n, at), s - left.moved>>>>
                                            \o @) \o pairs(n, at + s, at + m)]
             [] OTHER ->
                  [small |-> pairs(n, at + 1, at + s),
                   large |-> pairs(n, at + s, at + m), moved |-> s]
  IN path[0, valid_len(n) - 1, 0]

half(n, keys, s) ==
  [n EXCEPT !.keys = keys, !.diffs = pairDiffs(s), !.sub = pairSubs(s),
            !.max = halfMax(n)]

SplitBlindiNode(n) ==
  LET mid == valid_len(n) \div 2
      d == divide(n)
  IN [small |-> half(n, SubSeq(n.keys, 1, mid), d.small),
      large |-> half(n, SubSeq(n.keys, mid + 1, 2 * mid), d.large)]

-----------------------------------------------------------------------------
(* Remove *)

\* The node above the key at pos, which goes with it, and the nodes whose left
\* subtrie loses the key.
parentOf(n, pos) ==
  LET walk[at \in Entries(n), m \in Entries(n), p \in Entries(n)] ==
        LET s == subAt(n, at)
            right == walk[at + s, m - s, p - s]
            left == walk[at + 1, s - 1, p]
        IN CASE p >= s -> IF m = s THEN [at |-> at, lefts |-> {}] ELSE right
             [] OTHER -> IF s = 1 THEN [at |-> at, lefts |-> {at}]
                         ELSE [left EXCEPT !.lefts = @ \cup {at}]
  IN walk[0, valid_len(n) - 1, pos]

RemoveFromBlindiNodeInPosition(n, pos) ==
  LET w == parentOf(n, pos)
      shrunk == [i \in DOMAIN n.sub |->
                   IF i - 1 \in w.lefts THEN n.sub[i] - 1 ELSE n.sub[i]]
  IN [n EXCEPT !.keys = RemoveAt(@, pos + 1),
               !.diffs = RemoveAt(@, w.at + 1),
               !.sub = RemoveAt(shrunk, w.at + 1)]

\* A key that is not found leaves the node alone (REMOVE_KEY_NOT_FOUND).
RemoveFromBlindiNodeWithKey(n, k) ==
  LET s == SearchPoint(n, k)
  IN CASE ~s.hit -> n
       [] s.hit /\ valid_len(n) = 1 -> [n EXCEPT !.keys = <<>>]
       [] OTHER -> RemoveFromBlindiNodeInPosition(n, s.pos)

-----------------------------------------------------------------------------
(* Merge *)

\* Of the right spine of n, from entry i, and the left spine of m, from entry
\* j with its subtrie up to entry to - 1, the node that tests the earlier bit
\* comes first, until the bit mid between the two does.
zip(n, m, mid) ==
  LET size == valid_len(n)
      spine[i \in 0 .. size - 1, j \in Entries(m), to \in Entries(m)] ==
        LET nEnd == i = size - 1
            mEnd == j = to
            midFirst == /\ nEnd \/ mid < diffAt(n, i)
                        /\ mEnd \/ mid < diffAt(m, j)
            nFirst == mEnd \/ (~nEnd /\ diffAt(n, i) < diffAt(m, j))
        IN CASE midFirst ->
                  (<<<<mid, size - i>>>> \o pairs(n, i, size - 1))
                    \o pairs(m, j, to)
             [] ~midFirst /\ nFirst ->
                  pairs(n, i, i + subAt(n, i))
                    \o spine[i + subAt(n, i), j, to]
             [] OTHER ->
                  LET s == subAt(m, j)
                  IN (<<<<diffAt(m, j), s + size - i>>>>
                        \o spine[i, j + 1, j + s]) \o pairs(m, j + s, to)
  IN spine[0, 0, valid_len(m) - 1]

\* CopyNode into an empty node, or all keys of the larger node m behind those
\* of n.  The allocation of n stays as it is.
MergeBlindiNodes(n, m) ==
  CASE valid_len(n) = 0 -> [m EXCEPT !.max = n.max]
    [] valid_len(n) # 0 /\ valid_len(m) = 0 -> n
    [] OTHER ->
         LET s == zip(n, m, CompareStage(Last(n.keys), Head(m.keys)))
         IN [n EXCEPT !.keys = @ \o m.keys,
                      !.diffs = pairDiffs(s), !.sub = pairSubs(s)]

-----------------------------------------------------------------------------
(* What a node must be *)

\* The preorder of the blind trie of the keys, computed anew: the top of a
\* range of neighbours is where they differ in the earliest bit.
Indexed(n) ==
  LET between == [i \in 1 .. valid_len(n) - 1 |->
                    CompareStage(n.keys[i], n.keys[i + 1])]
      trie[i \in 1 .. valid_len(n), j \in 0 .. valid_len(n) - 1] ==
        IF i > j THEN <<>>
        ELSE LET top == CHOOSE t \in i .. j :
                          \A u \in i .. j : between[t] <= between[u]
             IN (<<<<between[top], top - i + 1>>>> \o trie[i, top - 1])
                  \o trie[top + 1, j]
  IN valid_len(n) >= 1 =>
       pairs(n, 0, valid_len(n) - 1) = trie[1, valid_len(n) - 1]
         /\ Len(n.sub) = valid_len(n) - 1

SearchRight(n, k) ==
  AnswersRight(n, k, SearchPoint(n, k).hit, SearchBlindiNode(n, k))
=============================================================================
