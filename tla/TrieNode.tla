------------------------------ MODULE TrieNode ------------------------------
(***************************************************************************)
(* The compact leaf of blindi_trie.hpp: the blind trie of the keys with    *)
(* explicit pointers.  Neither the keys nor the nodes of the trie are in   *)
(* any order; both arrays are filled from their end, and a removal moves   *)
(* the last element into the gap.  A node is a record of BlindiKeys with   *)
(*                                                                         *)
(*    trie   its entries: bit (blindiKeys), small (blindiKeys_small_ptr)   *)
(*           and large (blindiKeys_large_ptr)                              *)
(*    root   blindiKeys_root                                               *)
(*                                                                         *)
(* A pointer below PTR_AREA is the position of an entry, from there on the *)
(* position of a key plus PTR_AREA.  tree_traverse is a path: the pointers *)
(* followed from the root to a key.  The node does not breathe.            *)
(***************************************************************************)
EXTENDS BlindiKeys, FiniteSetsExt

PTR_AREA == 128

Pointers == 0 .. 2 * PTR_AREA - 1
TrieType(n) ==
  /\ n.root \in Pointers
  /\ n.trie \in Seq([bit : 0 .. KeyBits - 1, small : Pointers, large : Pointers])

isKey(p) == p >= PTR_AREA
keyOf(n, p) == keyAt(n, p - PTR_AREA)

-----------------------------------------------------------------------------
(* Paths *)

Entries(n) == 0 .. Len(n.trie) - 1

\* The path from pointer from on that takes the large side at the entries ups.
path(n, from, ups) ==
  LET follow[p \in Pointers] ==
        IF isKey(p) THEN <<p>>
        ELSE LET e == n.trie[p + 1]
             IN <<p>> \o follow[IF p \in ups THEN e.large ELSE e.small]
  IN follow[from]

\* bring_largest_in_subtree and bring_smallest_in_subtree
largest(n, from) == path(n, from, Entries(n))
smallest(n, from) == path(n, from, {})

\* bring_smallest_in_subtree and bring_next_item: the paths to all keys.
paths(n) ==
  LET under(p, all) == [i \in DOMAIN all |-> <<p>> \o all[i]]
      below[p \in Pointers] ==
        IF isKey(p) THEN <<<<p>>>>
        ELSE under(p, below[n.trie[p + 1].small] \o below[n.trie[p + 1].large])
  IN below[n.root]

get_max_pos_node(n) == Last(largest(n, n.root)) - PTR_AREA
get_max_key_in_node(n) == keyAt(n, get_max_pos_node(n))
get_min_key_in_node(n) == keyOf(n, Last(smallest(n, n.root)))

\* The steps of a path that take the large, or the small, side.
upSteps(n, t) == {i \in 1 .. Len(t) - 1 : n.trie[t[i] + 1].large = t[i + 1]}
downSteps(n, t) == {i \in 1 .. Len(t) - 1 : n.trie[t[i] + 1].small = t[i + 1]}

-----------------------------------------------------------------------------
(* Search *)

SearchFirstStage(n, k) ==
  path(n, n.root, {p \in Entries(n) : isSet(k, n.trie[p + 1].bit)})

\* How much of the path tests bits up to diff (tree_traverse_len).
SearchSecondStage(n, t, diff) ==
  Max({0} \cup {i \in 1 .. Len(t) - 1 : n.trie[t[i] + 1].bit <= diff})

\* check_smaller_than_node and bring_item_edge_subtree: the predecessor of a
\* key that leaves path t after len steps.
predecessor(n, t, len, large) ==
  LET ups == upSteps(n, t) \cap 1 .. len
      found(p, smaller) == [pos |-> p - PTR_AREA, smaller |-> smaller]
  IN CASE large -> found(Last(largest(n, t[len + 1])), FALSE)
       [] ~large /\ ups = {} -> found(Last(smallest(n, t[len + 1])), TRUE)
       [] OTHER -> found(Last(largest(n, n.trie[t[Max(ups)] + 1].small)), FALSE)

SearchPoint(n, k) ==
  LET p == Last(SearchFirstStage(n, k))
  IN [pos |-> p - PTR_AREA, hit |-> keyOf(n, p) = k]

\* What an insert learns from its search.
SearchFrom(n, k, t, other) ==
  IF other = k
    THEN [hit |-> TRUE, path |-> t, len |-> Len(t), diff |-> 0, large |-> FALSE]
    ELSE [hit |-> FALSE, path |-> t,
          len |-> SearchSecondStage(n, t, CompareStage(k, other)),
          diff |-> CompareStage(k, other), large |-> k > other]

SearchBlindiNode(n, k) ==
  LET t == SearchFirstStage(n, k) IN SearchFrom(n, k, t, keyOf(n, Last(t)))

-----------------------------------------------------------------------------
(* Insert *)

first_insert(k, breathing) ==
  [keys |-> <<k>>, trie |-> <<>>, root |-> PTR_AREA,
   max |-> NumSlots, breathing |-> breathing]

\* The side of entry p of trie s that leads to from leads to to.
redirect(s, p, from, to) ==
  IF s[p + 1].large = from THEN [s EXCEPT ![p + 1].large = to]
                           ELSE [s EXCEPT ![p + 1].small = to]

\* The new entry and the new key come last in their arrays; the entry takes the
\* place of the subtrie below the last step of the path that is kept.
Insert2BlindiNodeInPosition(n, k, s) ==
  LET new == valid_len(n) - 1
      key == PTR_AREA + valid_len(n)
      below == s.path[s.len + 1]
      entry == [bit |-> s.diff, small |-> IF s.large THEN below ELSE key,
                                large |-> IF s.large THEN key ELSE below]
  IN [n EXCEPT !.keys = Append(@, k),
               !.trie = Append(IF s.len = 0 THEN @
                               ELSE redirect(@, s.path[s.len], below, new),
                               entry),
               !.root = IF s.len = 0 THEN new ELSE @]

insertNew(n, k, s) == IF s.hit THEN n ELSE Insert2BlindiNodeInPosition(n, k, s)

\* A full node refuses (INSERT_OVERFLOW), and so does one that has the key
\* (INSERT_DUPLICATED_KEY).
Insert2BlindiNodeWithKey(n, k) ==
  CASE valid_len(n) = NumSlots -> n
    [] valid_len(n) = 0 -> first_insert(k, n.breathing)
    [] OTHER -> insertNew(n, k, SearchBlindiNode(n, k))

\* An upsert of a key that is not in the node.  (Of a stored key the code
\* follows the pointer to it as if it were an entry, outside the arrays.)
Upsert2BlindiNodeWithKey(n, k) == Insert2BlindiNodeWithKey(n, k)

-----------------------------------------------------------------------------
(* Split *)

\* The entries on path t of the steps chosen are linked to each other, and the
\* last of them to the end of the path, on their side.
cutLarge(n, t, steps) ==
  LET next(i) == IF \A j \in steps : j <= i THEN Last(t)
                 ELSE t[Min({j \in steps : j > i})]
  IN [p \in DOMAIN n.trie |->
        IF \E i \in steps : t[i] + 1 = p
          THEN [n.trie[p] EXCEPT
                  !.large = next(CHOOSE i \in steps : t[i] + 1 = p)]
          ELSE n.trie[p]]

cutSmall(n, t, steps) ==
  LET next(i) == IF \A j \in steps : j <= i THEN Last(t)
                 ELSE t[Min({j \in steps : j > i})]
  IN [p \in DOMAIN n.trie |->
        IF \E i \in steps : t[i] + 1 = p
          THEN [n.trie[p] EXCEPT
                  !.small = next(CHOOSE i \in steps : t[i] + 1 = p)]
          ELSE n.trie[p]]

\* Pointers into a part that is stored behind other entries and keys.
shift(s, entries, keys) ==
  LET to(p) == IF isKey(p) THEN p + keys ELSE p + entries
  IN [i \in DOMAIN s |-> [s[i] EXCEPT !.small = to(@), !.large = to(@)]]

\* fill_node_array: the entries in preorder and the keys in order.
fill_node_array(n, trie, root) ==
  LET at(part, entries, keys) ==
        IF part.trie = <<>> THEN PTR_AREA + keys ELSE entries
      join(b, s, l) ==
        [trie |-> (<<[bit |-> b, small |-> at(s, 1, 0),
                      large |-> at(l, 1 + Len(s.trie), Len(s.keys))]>>
                    \o shift(s.trie, 1, 0))
                    \o shift(l.trie, 1 + Len(s.trie), Len(s.keys)),
         keys |-> s.keys \o l.keys]
      part[p \in Pointers] ==
        IF isKey(p) THEN [trie |-> <<>>, keys |-> <<keyOf(n, p)>>]
        ELSE join(trie[p + 1].bit, part[trie[p + 1].small], part[trie[p + 1].large])
      whole == part[root]
  IN [n EXCEPT !.keys = whole.keys, !.trie = whole.trie, !.root = 0]

\* The last key of the small half is reached by t, the first one of the large
\* half by u.  An entry of these paths stays in the half that it has both sides
\* in.
splitAt(n, t, u) ==
  LET ups == upSteps(n, t)
      downs == downSteps(n, u)
  IN [small |-> fill_node_array(n, cutLarge(n, t, ups), t[Min(ups)]),
      large |-> fill_node_array(n, cutSmall(n, u, downs), u[Min(downs)])]

SplitBlindiNode(n) ==
  LET all == paths(n)
  IN splitAt(n, all[NumSlots \div 2], all[NumSlots \div 2 + 1])

-----------------------------------------------------------------------------
(* Remove *)

\* Where a pointer leads after the last of the m + 1 keys has moved to pointer
\* key, and the last of the m entries to pointer entry.
afterMove(p, m, key, entry) ==
  CASE p = PTR_AREA + m -> key
    [] p = m - 1 -> entry
    [] OTHER -> p

\* The entry above the key goes with it, and its other side takes its place.
\* Then the last key and the last entry move into the gaps.
RemoveFromBlindiNodeInPosition(n, t) ==
  LET m == valid_len(n) - 1
      key == Last(t)
      entry == t[Len(t) - 1]
      e == n.trie[entry + 1]
      other == IF e.small = key THEN e.large ELSE e.small
      trie == IF entry = n.root THEN n.trie
              ELSE redirect(n.trie, t[Len(t) - 2], entry, other)
      packed == [i \in 1 .. m - 1 |-> IF i = entry + 1 THEN trie[m] ELSE trie[i]]
      to(p) == afterMove(p, m, key, entry)
  IN [n EXCEPT
        !.keys = [i \in 1 .. m |-> IF i = key - PTR_AREA + 1 THEN @[m + 1] ELSE @[i]],
        !.trie = [i \in DOMAIN packed |->
                    [packed[i] EXCEPT !.small = to(@), !.large = to(@)]],
        !.root = CASE m = 1 -> PTR_AREA
                   [] m # 1 /\ entry = n.root -> to(other)
                   [] OTHER -> to(n.root)]

\* A key that is not found leaves the node alone (REMOVE_KEY_NOT_FOUND).
RemoveFromBlindiNodeWithKey(n, k) ==
  CASE ~SearchPoint(n, k).hit -> n
    [] SearchPoint(n, k).hit /\ valid_len(n) = 1 -> [n EXCEPT !.keys = <<>>]
    [] OTHER -> RemoveFromBlindiNodeInPosition(n, SearchFirstStage(n, k))

-----------------------------------------------------------------------------
(* Merge *)

\* (A variant for the mutation runs: the new entry always is the root.)
zipAtRoot(trie, s, l, mid) ==
  [trie |-> [trie EXCEPT ![mid + 1].small = s[1], ![mid + 1].large = l[1]],
   root |-> mid]

\* The right spine s of the smaller trie and the left spine l of the larger one
\* are linked into one path in the order of their bits, down to the new entry
\* mid.  trie holds the entries of both and mid.
zip(trie, s, l, mid) ==
  LET tested(p) == trie[p + 1].bit
      after(p) == isKey(p) \/ tested(mid) < tested(p)
      first(p, q) == CASE after(p) /\ after(q) -> mid
                       [] isKey(q) -> p
                       [] OTHER -> IF ~isKey(p) /\ tested(p) < tested(q) THEN p ELSE q
      from[i \in 1 .. Len(s), j \in 1 .. Len(l)] ==
        LET next == first(s[i], l[j])
        IN CASE next = mid ->
                  [trie EXCEPT ![mid + 1].small = s[i], ![mid + 1].large = l[j]]
             [] next = s[i] ->
                  [from[i + 1, j] EXCEPT
                     ![next + 1].large = first(s[i + 1], l[j])]
             [] OTHER ->
                  [from[i, j + 1] EXCEPT
                     ![next + 1].small = first(s[i], l[j + 1])]
  IN [trie |-> from[1, 1], root |-> first(s[1], l[1])]

\* The large node's arrays behind those of n, with the new entry between.
append(n, m, merged, diff) ==
  LET size == valid_len(n)
      z == zip((n.trie \o <<[bit |-> diff, small |-> 0, large |-> 0]>>)
                 \o shift(m.trie, size, size),
               largest(n, n.root),
               [i \in DOMAIN merged |-> merged[i] + size], size - 1)
  IN [n EXCEPT !.keys = @ \o m.keys, !.trie = z.trie, !.root = z.root]

\* CopyNode into an empty node, or all keys of the larger node m behind those
\* of n.
MergeBlindiNodes(n, m) ==
  CASE valid_len(n) = 0 -> m
    [] valid_len(n) # 0 /\ valid_len(m) = 0 -> n
    [] OTHER -> append(n, m, smallest(m, m.root),
                       CompareStage(get_max_key_in_node(n), get_min_key_in_node(m)))

-----------------------------------------------------------------------------
(* What a node must be *)

\* bring_sorted_items
sortedKeys(n) ==
  LET all == paths(n) IN [i \in DOMAIN all |-> keyOf(n, Last(all[i]))]

\* In trie order the keys ascend, each once.
InOrder(n) ==
  valid_len(n) > 0 =>
    LET keys == sortedKeys(n)
    IN /\ Len(keys) = valid_len(n)
       /\ \A i \in 1 .. Len(keys) - 1 : keys[i] < keys[i + 1]

\* The entry where the paths of two neighbours part tests the first bit in which
\* they differ, every entry is such a one, and a path tests ascending bits.
Indexed(n) ==
  valid_len(n) > 0 =>
    LET all == paths(n)
        parting(t, u) == t[Max({i \in 1 .. Len(t) : i <= Len(u) /\ t[i] = u[i]})]
        between == [i \in 1 .. Len(all) - 1 |-> parting(all[i], all[i + 1])]
    IN /\ Len(n.trie) = valid_len(n) - 1
       /\ Range(between) = Entries(n)
       /\ \A i \in 1 .. Len(all) - 1 :
            n.trie[between[i] + 1].bit
              = CompareStage(keyOf(n, Last(all[i])), keyOf(n, Last(all[i + 1])))
       /\ \A i \in 1 .. Len(all), j \in 1 .. Len(n.trie) :
            j + 1 < Len(all[i]) =>
              n.trie[all[i][j] + 1].bit < n.trie[all[i][j + 1] + 1].bit

SearchRight(n, k) ==
  LET s == SearchBlindiNode(n, k)
      place == predecessor(n, s.path, s.len, s.large)
      upTo == {j \in Range(n.keys) : j <= k}
  IN /\ s.hit <=> k \in Range(n.keys)
     /\ SearchPoint(n, k).hit <=> k \in Range(n.keys)
     /\ ~s.hit => /\ place.smaller <=> upTo = {}
                  /\ upTo # {} => keyAt(n, place.pos) = Max(upTo)
=============================================================================
