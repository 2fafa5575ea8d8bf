--------------------------- MODULE MCCompactBTree ---------------------------
(***************************************************************************)
(* Instances of CompactBTree: all keys are inserted in one of the orders   *)
(* of Loads, and then keys are erased in every order, those of Again to be *)
(* inserted and erased again without end.                                  *)
(***************************************************************************)
EXTENDS CompactOrder

CONSTANTS Loads,   \* the orders of the keys at first, sequences
          Again    \* the keys that return after they were erased

VARIABLE load      \* the keys of the order that are still to come

MCInit == Init /\ load \in Loads

Loading == load # <<>>

LoadNext == /\ Loading
            /\ BeginInsert(Head(load))
            /\ load' = Tail(load)

MCBeginInsert == ~Loading /\ UNCHANGED load
                   /\ \E k \in Keys : k \in Again /\ BeginInsert(k)

MCBeginErase == ~Loading /\ UNCHANGED load
                  /\ \E k \in Keys : BeginErase(k)

MCNext == \/ LoadNext \/ MCBeginInsert \/ MCBeginErase
          \/ Step /\ UNCHANGED load

MCSpec == MCInit /\ [][MCNext]_<<vars, load>>

-----------------------------------------------------------------------------
\* The keys below each node, read off the tree.
KeysUnder ==
  LET onPath == {stack[e].node : e \in 1 .. Len(stack)}
      height == IF root = Null THEN 0 ELSE heap[root].level
      at[l \in 0 .. height] ==
        [n \in {m \in DOMAIN heap : heap[m].level = l} |->
           IF n = gone THEN {}
           ELSE IF l = 0 THEN heap[n].items
           ELSE UNION {at[l - 1][heap[n].childid[i]] : i \in Slots(n)}
                  \cup (IF newchild # Null /\ n \in onPath
                         THEN at[heap[newchild].level][newchild] ELSE {})]
  IN [n \in DOMAIN heap |-> at[heap[n].level][n]]

\* Separators part the keys below every node.
KeysParted == \E kin \in {KeysUnder} : Held(kin)

TenKeys == 1 .. 10
Middle == {5}
Addresses == 1 .. 24

\* The leaves that split are the last ones, the first ones, and one in the
\* middle of a full inner node.
LastSplits == <<1, 2, 3, 4, 5, 6, 7, 8, 9, 10>>
FirstSplits == <<10, 9, 8, 7, 6, 5, 4, 3, 2, 1>>
MiddleSplits == <<1, 2, 5, 6, 7, 8, 3, 4, 9, 10>>
AllOrders == {LastSplits, FirstSplits, MiddleSplits}
=============================================================================
