--------------------------- MODULE BTreeOLCOrder ---------------------------
(***************************************************************************)
(* Why the lookups of the concurrent B-tree are right: the inductive       *)
(* invariant behind LookupNeverMisses and Linearizable.  It speaks of two  *)
(* functions that are not part of the program: own[n] is the set of keys   *)
(* that node n is responsible for, led[n] the set of those that the        *)
(* pointers to n lead there.  They differ only from a split, which gives   *)
(* the upper half of the node's keys to a new node, until its link.        *)
(***************************************************************************)
EXTENDS BTreeOLC

Inner == {n \in Nodes : kind[n] = "inner"}
Leaves == {n \in Nodes : kind[n] = "leaf"}

Children(n) == 1 .. Len(children[n])

\* k lies between the separators around the i-th child of n.
Between(n, i, k) ==
  /\ i > 1 => keys[n][i - 1] < k
  /\ i <= count(n) => k <= keys[n][i]

Increasing(s) == \A i, j \in 1 .. Len(s) : i < j => s[i] < s[j]

-----------------------------------------------------------------------------
(* The shape of the tree *)

\* The new right node of a split that is not linked yet.
Pending(n) == \E t \in Threads : pc[t] = "link" /\ sibling[t] = n

\* Every node has one pointer to it, the root none, a pending node none.
LinkedOnce ==
  /\ \A p, q \in Inner : \A i \in Children(p), j \in Children(q) :
       children[p][i] = children[q][j] => p = q /\ i = j
  /\ \A p \in Inner : \A i \in Children(p) :
       children[p][i] # root /\ ~Pending(children[p][i])
  /\ ~Pending(root)
  /\ \A t, u \in Threads :
       pc[t] = "link" /\ pc[u] = "link" /\ sibling[t] = sibling[u] => t = u

\* The separators of an inner node ascend, are its own keys and part them
\* among its children; a leaf holds only keys of its own, and no two leaves
\* own the same.
Parted(own, led) ==
  /\ led[root] = Keys
  /\ \A n \in Inner :
       /\ Increasing(keys[n])
       /\ \A i \in 1 .. count(n) : keys[n][i] \in own[n]
       /\ \A i \in Children(n) :
            led[children[n][i]] = {k \in own[n] : Between(n, i, k)}
  /\ \A n \in Nodes :
       /\ IsFiniteSet(leafKeys[n]) /\ leafKeys[n] \subseteq own[n]
       /\ n \notin Leaves => leafKeys[n] = {}
       /\ (\A t \in Threads : pc[t] = "link" => node[t] # n)
            => led[n] = own[n]
  /\ \A m, n \in Leaves : m # n => own[m] \cap own[n] = {}

-----------------------------------------------------------------------------
(* What a thread knows *)

\* What the thread points to is linked, and of the kind its step is for.
Placed(t) ==
  /\ ~Pending(node[t]) /\ ~Pending(parent[t])
  /\ pc[t] \in {"lockLeaf", "checkParent", "insertLeaf", "validateParent",
                "validateNode"} => node[t] \in Leaves
  /\ pc[t] \in {"lockLeaf", "checkParent", "insertLeaf"} => op[t] = "insert"
  /\ pc[t] \in {"validateParent", "validateNode"} => op[t] = "lookup"
  /\ pc[t] \in {"lockChild", "validateParent"} => hasParent(t)
  /\ pc[t] \in {"split", "link"} /\ ~hasParent(t) => node[t] = root

\* The versions compared at a leaf are readable and not newer than the words.
Behind(t) ==
  /\ pc[t] \in {"lockLeaf", "checkParent", "validateParent"} /\ hasParent(t)
       => isReadable(versionParent[t]) /\ versionParent[t] <= word[parent[t]]
  /\ pc[t] \in {"validateParent", "validateNode"}
       => isReadable(versionNode[t]) /\ versionNode[t] <= word[node[t]]

\* The parent owns the thread's key and leads it to the node.
Leads(t, own) ==
  /\ key[t] \in own[parent[t]]
  /\ node[t] = children[parent[t]][lowerBound(parent[t], key[t])]

\* The thread is where its key belongs, as long as the words are the versions
\* it loaded or it holds the locks.
OnCourse(t, own) ==
  /\ pc[t] \in {"lockChild", "visit", "lockParent", "lockLeaf", "checkParent",
                "validateParent"} /\ hasParent(t) =>
       (word[parent[t]] = versionParent[t] => Leads(t, own))
  /\ pc[t] \in {"lockNode", "split", "link"} /\ hasParent(t) => Leads(t, own)
  /\ pc[t] \in {"visit", "lockLeaf"} /\ ~hasParent(t) =>
       (word[node[t]] = versionNode[t] => key[t] \in own[node[t]])
  /\ pc[t] \in {"child", "validateNode"} =>
       (word[node[t]] = versionNode[t] => key[t] \in own[node[t]])
  /\ pc[t] = "checkParent" /\ ~hasParent(t) => key[t] \in own[node[t]]
  /\ pc[t] = "insertLeaf" => key[t] \in own[node[t]]

\* The answer of a lookup is true as long as the leaf's word is the version
\* it loaded.
Answered(t) ==
  pc[t] \in {"validateParent", "validateNode"} =>
    (word[node[t]] = versionNode[t] =>
       (hit[t] <=> key[t] \in leafKeys[node[t]]))

\* A split has given the node's keys above the separator to the new node.
Halved(t, own, led) ==
  pc[t] = "link" =>
    /\ own[node[t]] = {k \in led[node[t]] : k <= sep[t]}
    /\ own[sibling[t]] = {k \in led[node[t]] : k > sep[t]}
    /\ sep[t] \in own[node[t]]
    /\ own[sibling[t]] # {}

\* A key that was in the tree when the call began still is.
Remembered(t) ==
  /\ present[t] => key[t] \in Dict
  /\ LookupValidates /\ pc[t] = "return" /\ present[t] => hit[t]

Informed(t, own, led) ==
  /\ Placed(t) /\ Behind(t) /\ OnCourse(t, own) /\ Answered(t)
  /\ Halved(t, own, led) /\ Remembered(t)

Ordered(own, led) ==
  /\ LinkedOnce
  /\ Parted(own, led)
  /\ \A t \in Threads : Informed(t, own, led)

\* The inductive invariant.
OrderInv ==
  /\ TreeInv
  /\ \E own, led \in [Nodes -> SUBSET Keys] : Ordered(own, led)
=============================================================================
