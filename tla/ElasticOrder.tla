---------------------------- MODULE ElasticOrder ----------------------------
(***************************************************************************)
(* Why every key of the elastic tree is found: the inductive invariant     *)
(* behind KeysFound and LeavesLinked.  It speaks of two functions that the *)
(* program does not have: own[n], the keys that node n is responsible for, *)
(* and led[n], those that the pointers to n lead there.  They differ only  *)
(* at a node whose other half is still on its way up.                      *)
(***************************************************************************)
EXTENDS ElasticShape

Ascending(K) == \A i, j \in 1 .. Len(K) : i < j => K[i] < K[j]

\* The keys of S that the separators K lead to child i.
between(K, i, S) == {k \in S : /\ i > 1 => K[i - 1] < k
                               /\ i <= Len(K) => k <= K[i]}

\* Separators K that ascend part the keys S among the children C.
Part(K, C, S, led) ==
  /\ Ascending(K)
  /\ \A i \in 1 .. Len(K) : K[i] \in S
  /\ \A i \in 1 .. Len(C) : led[C[i]] = between(K, i, S)

\* The node that was split keeps the keys up to newkey of those that are led
\* to it, and the new one has the others.
SplitOwned(own, led) ==
  /\ newkey \in led[pathEnd]
  /\ own[pathEnd] = {k \in led[pathEnd] : k <= newkey}
  /\ own[newchild] = {k \in led[pathEnd] : k > newkey}
  /\ own[newchild] # {}

\* A leaf holds keys of its own only, no two leaves own the same, and the
\* next leaf's keys are above.
LeavesInOrder(own) ==
  /\ \A n \in Leaves : heap[n].items \subseteq own[n]
  /\ \A m, n \in Leaves : m # n => own[m] \cap own[n] = {}
  /\ \A n \in Leaves : heap[n].nextleaf # Null =>
       \A j \in own[n], k \in own[heap[n].nextleaf] : j < k

Placed(own, led) ==
  /\ root # Null => led[root] = Keys
  /\ \A n \in Inner : Part(heap[n].slotkey, heap[n].childid, own[n], led)
  /\ \A n \in Allocated \ {newchild} :
       newchild = Null \/ n # pathEnd => own[n] = led[n]
  /\ newchild # Null => SplitOwned(own, led)
  /\ LeavesInOrder(own)
  /\ pc \in {"descend", "store"} => key \in own[cur]

Ordered == \E own, led \in [Allocated -> SUBSET Keys] : Placed(own, led)

\* The inductive invariant.
OrderInv == ElasticInv /\ Ordered

=============================================================================
