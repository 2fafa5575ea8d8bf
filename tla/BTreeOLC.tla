----------------------------- MODULE BTreeOLC -----------------------------
(***************************************************************************)
(* The concurrent B-tree with optimistic lock coupling: the baseline of    *)
(* BTreeOLC.hpp and the tree with compact (blindi) leaves of               *)
(* blindi_BTreeOLC_seqtree.hpp, which share the protocol of insert and     *)
(* differ in how a lookup ends (constant LookupValidates).                 *)
(*                                                                         *)
(* A thread's step is what it does between two loads or stores of shared   *)
(* lock words or of the root pointer.  Reading a node and comparing its    *)
(* word afterwards is one step: module OptLock shows that a read whose     *)
(* comparison succeeds saw the current contents, and one whose comparison  *)
(* fails is thrown away.  Reads that are used before such a comparison     *)
(* (isFull, the search of a leaf) may return anything that a concurrent    *)
(* writer lets them see.                                                   *)
(***************************************************************************)
EXTENDS OptLockWord, Sequences, FiniteSets, SequencesExt

CONSTANTS Threads,
          Keys,             \* a set of naturals
          Nodes,            \* addresses the allocator can return
          Null,             \* the null pointer
          LeafSlots,        \* _LeafSlots: keys in a full leaf
          InnerSlots,       \* _InnerSlots: children in a full inner node
          LookupValidates   \* TRUE: BTreeOLC.hpp; FALSE: the blindi variant

\* With 4 inner slots or fewer a split leaves an inner node without any key,
\* whose lowerBound would compare a stale slot; the build uses 16.
ASSUME SlotsAssumption ==
  /\ LeafSlots \in Nat /\ LeafSlots >= 2
  /\ InnerSlots \in Nat /\ InnerSlots >= 5

ASSUME SetsAssumption ==
  /\ Keys \subseteq Nat /\ Keys # {}
  /\ Nodes # {} /\ Null \notin Nodes
  /\ LookupValidates \in BOOLEAN

VARIABLES
  root,        \* the atomic root pointer
  word,        \* [Nodes -> Nat]: each node's lock word
  kind,        \* [Nodes -> {"free", "leaf", "inner"}]
  leafKeys,    \* [Nodes -> SUBSET Keys]: the keys of a leaf
  keys,        \* [Nodes -> Seq(Keys)]: the separators of an inner node
  children,    \* [Nodes -> Seq(Nodes)]: one more than separators
  pc, op, key, \* each thread's position, operation and argument
  node, versionNode, parent, versionParent,   \* locals of the descent
  sep, sibling,   \* locals of a split: the separator and the new right node
  hit,         \* the answer of a lookup
  present      \* history: the key was in the tree when the call began

shared == <<root, word, kind, leafKeys, keys, children>>
call == <<op, key, present>>
descent == <<node, versionNode, parent, versionParent>>
vars == <<shared, pc, call, descent, sep, sibling, hit>>

Steps == {"idle", "loadRoot", "lockRoot", "checkRoot", "visit", "child",
          "lockChild", "validateParent", "validateNode", "return",
          "lockParent", "lockNode", "split", "link", "unlockNode",
          "unlockParent", "lockLeaf", "checkParent", "insertLeaf",
          "abortLeaf", "commitLeaf"}

TypeOK ==
  /\ root \in Nodes
  /\ word \in [Nodes -> Nat]
  /\ kind \in [Nodes -> {"free", "leaf", "inner"}]
  /\ leafKeys \in [Nodes -> SUBSET Keys]
  /\ keys \in [Nodes -> Seq(Keys)]
  /\ children \in [Nodes -> Seq(Nodes)]
  /\ pc \in [Threads -> Steps]
  /\ op \in [Threads -> {"insert", "lookup"}]
  /\ key \in [Threads -> Keys]
  /\ node \in [Threads -> Nodes]
  /\ versionNode \in [Threads -> Nat]
  /\ parent \in [Threads -> Nodes \cup {Null}]
  /\ versionParent \in [Threads -> Nat]
  /\ sep \in [Threads -> Keys]
  /\ sibling \in [Threads -> Nodes]
  /\ hit \in [Threads -> BOOLEAN]
  /\ present \in [Threads -> BOOLEAN]

\* The keys in the tree: those of all leaves, linked or about to be.
Dict == UNION {leafKeys[n] : n \in Nodes}

-----------------------------------------------------------------------------
(* Nodes *)

count(n) == Len(keys[n])

\* (A variant for the mutation runs: inner nodes fill up to the last slot.)
isFullLate(n) ==
  IF kind[n] = "inner" THEN count(n) = InnerSlots
                       ELSE Cardinality(leafKeys[n]) = LeafSlots

isFull(n) ==
  IF kind[n] = "inner" THEN count(n) = InnerSlots - 1
                       ELSE Cardinality(leafKeys[n]) = LeafSlots

\* The index in children of the subtree for k: past the separators below k.
lowerBound(n, k) ==
  Cardinality({i \in 1 .. count(n) : keys[n][i] < k}) + 1

FreeNodes == {n \in Nodes : kind[n] = "free"}

\* A node is being written while the next step of its writer stores into it.
BeingWritten(n) ==
  \E w \in Threads :
    \/ pc[w] \in {"insertLeaf", "split"} /\ node[w] = n
    \/ pc[w] = "link" /\ parent[w] = n

\* What a thread that loaded version v of n may see: the truth, or anything
\* when its read overlaps a write or spans a whole write section.
MayTear(n, v) == BeingWritten(n) \/ word[n] > upgraded(v)

Observed(t, fact) ==
  IF MayTear(node[t], versionNode[t]) THEN BOOLEAN ELSE {fact}

goto(t, step) == pc' = [pc EXCEPT ![t] = step]

hasParent(t) == parent[t] # Null

parentUnchanged(t) ==
  hasParent(t) => word[parent[t]] = versionParent[t]

-----------------------------------------------------------------------------
(* Variants of single operations that the mutation runs put in their place. *)

\* makeRoot forgets the right child.
makeRootLeftOnly(t) ==
  /\ FreeNodes # {}
  /\ LET new == CHOOSE n \in FreeNodes : TRUE
     IN /\ keys' = [keys EXCEPT ![new] = <<sep[t]>>]
        /\ children' = [children EXCEPT ![new] = <<node[t], Null>>]
        /\ kind' = [kind EXCEPT ![new] = "inner"]
        /\ root' = new

\* A failed lock of the node leaves the parent locked.
LockNodeLeakingParent(t) ==
  /\ pc[t] = "lockNode"
  /\ IF word[node[t]] = versionNode[t]
       THEN /\ word' = [word EXCEPT ![node[t]] = upgraded(@)]
            /\ versionNode' = [versionNode EXCEPT ![t] = upgraded(@)]
            /\ goto(t, IF ~hasParent(t) /\ node[t] # root
                         THEN "unlockNode" ELSE "split")
       ELSE /\ goto(t, "loadRoot")
            /\ UNCHANGED <<word, versionNode>>
  /\ UNCHANGED <<root, kind, leafKeys, keys, children, call, node, parent,
                 versionParent, sep, sibling, hit>>

\* The lookup does not compare the parent's word at the leaf.
ValidateParentSkipped(t) ==
  /\ pc[t] = "validateParent"
  /\ goto(t, "validateNode")
  /\ UNCHANGED <<shared, call, descent, sep, sibling, hit>>

\* The insert does not compare the parent's word with the leaf locked.
CheckParentSkipped(t) ==
  /\ pc[t] = "checkParent"
  /\ goto(t, "insertLeaf")
  /\ UNCHANGED <<shared, call, descent, sep, sibling, hit>>

\* The upper half of an inner node starts one separator too far right.
SplitInnerOffByOne(t, new) ==
  LET n == node[t]
      left == count(n) - (count(n) - count(n) \div 2)
  IN /\ kind[n] = "inner"
     /\ keys' = [keys EXCEPT ![n] = SubSeq(@, 1, left),
                             ![new] = SubSeq(keys[n], left + 2, count(n))]
     /\ children' =
          [children EXCEPT ![n] = SubSeq(@, 1, left + 1),
             ![new] = SubSeq(children[n], left + 2, count(n) + 1)]
     /\ kind' = [kind EXCEPT ![new] = "inner"]
     /\ sep' = [sep EXCEPT ![t] = keys[n][left]]
     /\ UNCHANGED leafKeys

-----------------------------------------------------------------------------
\* An empty tree: one empty leaf.  The locals of the threads have no value yet.
Init ==
  LET r == CHOOSE n \in Nodes : TRUE
      k == CHOOSE j \in Keys : TRUE
  IN /\ root = r
     /\ word = [n \in Nodes |-> InitialWord]
     /\ kind = [n \in Nodes |-> IF n = r THEN "leaf" ELSE "free"]
     /\ leafKeys = [n \in Nodes |-> {}]
     /\ keys = [n \in Nodes |-> <<>>]
     /\ children = [n \in Nodes |-> <<>>]
     /\ pc = [t \in Threads |-> "idle"]
     /\ op = [t \in Threads |-> "lookup"]
     /\ key = [t \in Threads |-> k]
     /\ node = [t \in Threads |-> r]
     /\ versionNode = [t \in Threads |-> 0]
     /\ parent = [t \in Threads |-> Null]
     /\ versionParent = [t \in Threads |-> 0]
     /\ sep = [t \in Threads |-> k]
     /\ sibling = [t \in Threads |-> r]
     /\ hit = [t \in Threads |-> FALSE]
     /\ present = [t \in Threads |-> FALSE]

(* Calls.  The workloads insert every key once: the compact leaves do not   *)
(* support duplicates.                                                      *)
BeginInsert(t, k) ==
  /\ pc[t] = "idle"
  /\ k \notin Dict
  /\ \A u \in Threads : pc[u] # "idle" /\ op[u] = "insert" => key[u] # k
  /\ op' = [op EXCEPT ![t] = "insert"]
  /\ key' = [key EXCEPT ![t] = k]
  /\ present' = [present EXCEPT ![t] = FALSE]
  /\ goto(t, "loadRoot")
  /\ UNCHANGED <<shared, descent, sep, sibling, hit>>

BeginLookup(t, k) ==
  /\ pc[t] = "idle"
  /\ op' = [op EXCEPT ![t] = "lookup"]
  /\ key' = [key EXCEPT ![t] = k]
  /\ present' = [present EXCEPT ![t] = k \in Dict]
  /\ goto(t, "loadRoot")
  /\ UNCHANGED <<shared, descent, sep, sibling, hit>>

-----------------------------------------------------------------------------
(* The descent, common to insert and lookup.  "loadRoot" is the label       *)
(* restart.                                                                 *)

LoadRoot(t) ==
  /\ pc[t] = "loadRoot"
  /\ node' = [node EXCEPT ![t] = root]
  /\ parent' = [parent EXCEPT ![t] = Null]
  /\ versionNode' = [versionNode EXCEPT ![t] = 0]
  /\ versionParent' = [versionParent EXCEPT ![t] = 0]
  /\ goto(t, "lockRoot")
  /\ UNCHANGED <<shared, call, sep, sibling, hit>>

readLockOrRestart(t, next) ==
  /\ IF isReadable(word[node[t]])
       THEN /\ versionNode' = [versionNode EXCEPT ![t] = word[node[t]]]
            /\ goto(t, next)
       ELSE /\ goto(t, "loadRoot")
            /\ UNCHANGED versionNode
  /\ UNCHANGED <<shared, call, node, parent, versionParent, sep, sibling, hit>>

LockRoot(t) == pc[t] = "lockRoot" /\ readLockOrRestart(t, "checkRoot")

CheckRoot(t) ==
  /\ pc[t] = "checkRoot"
  /\ goto(t, IF node[t] = root THEN "visit" ELSE "loadRoot")
  /\ UNCHANGED <<shared, call, descent, sep, sibling, hit>>

\* An inner node: an insert splits it eagerly when it is full; otherwise the
\* parent's word is compared before the node becomes the parent.
VisitInner(t) ==
  /\ pc[t] = "visit"
  /\ kind[node[t]] = "inner"
  /\ \E full \in Observed(t, isFull(node[t])) :
       goto(t, CASE op[t] = "insert" /\ full ->
                      IF hasParent(t) THEN "lockParent" ELSE "lockNode"
                 [] OTHER ->
                      IF parentUnchanged(t) THEN "child" ELSE "loadRoot")
  /\ UNCHANGED <<shared, call, descent, sep, sibling, hit>>

\* The node becomes the parent, its child for the key is read and the node's
\* word compared.
Child(t) ==
  /\ pc[t] = "child"
  /\ parent' = [parent EXCEPT ![t] = node[t]]
  /\ versionParent' = [versionParent EXCEPT ![t] = versionNode[t]]
  /\ IF word[node[t]] = versionNode[t]
       THEN /\ node' = [node EXCEPT ![t] =
                         children[node[t]][lowerBound(node[t], key[t])]]
            /\ goto(t, "lockChild")
       ELSE /\ goto(t, "loadRoot")
            /\ UNCHANGED node
  /\ UNCHANGED <<shared, call, versionNode, sep, sibling, hit>>

LockChild(t) == pc[t] = "lockChild" /\ readLockOrRestart(t, "visit")

-----------------------------------------------------------------------------
(* lookup at the leaf *)

SearchLeaf(t) ==
  /\ pc[t] = "visit"
  /\ kind[node[t]] = "leaf"
  /\ op[t] = "lookup"
  /\ \E found \in Observed(t, key[t] \in leafKeys[node[t]]) :
       hit' = [hit EXCEPT ![t] = found]
  /\ goto(t, CASE ~LookupValidates -> "return"
               [] LookupValidates /\ hasParent(t) -> "validateParent"
               [] OTHER -> "validateNode")
  /\ UNCHANGED <<shared, call, descent, sep, sibling>>

ValidateParent(t) ==
  /\ pc[t] = "validateParent"
  /\ goto(t, IF parentUnchanged(t) THEN "validateNode" ELSE "loadRoot")
  /\ UNCHANGED <<shared, call, descent, sep, sibling, hit>>

ValidateNode(t) ==
  /\ pc[t] = "validateNode"
  /\ goto(t, IF word[node[t]] = versionNode[t] THEN "return" ELSE "loadRoot")
  /\ UNCHANGED <<shared, call, descent, sep, sibling, hit>>

Return(t) ==
  /\ pc[t] = "return"
  /\ goto(t, "idle")
  /\ UNCHANGED <<shared, call, descent, sep, sibling, hit>>

-----------------------------------------------------------------------------
(* insert at the leaf *)

VisitLeaf(t) ==
  /\ pc[t] = "visit"
  /\ kind[node[t]] = "leaf"
  /\ op[t] = "insert"
  /\ \E full \in Observed(t, isFull(node[t])) :
       goto(t, CASE ~full -> "lockLeaf"
                 [] full /\ hasParent(t) -> "lockParent"
                 [] OTHER -> "lockNode")
  /\ UNCHANGED <<shared, call, descent, sep, sibling, hit>>

LockLeaf(t) ==
  /\ pc[t] = "lockLeaf"
  /\ IF word[node[t]] = versionNode[t]
       THEN /\ word' = [word EXCEPT ![node[t]] = upgraded(@)]
            /\ versionNode' = [versionNode EXCEPT ![t] = upgraded(@)]
            /\ goto(t, "checkParent")
       ELSE /\ goto(t, "loadRoot")
            /\ UNCHANGED <<word, versionNode>>
  /\ UNCHANGED <<root, kind, leafKeys, keys, children, call, node, parent,
                 versionParent, sep, sibling, hit>>

CheckParent(t) ==
  /\ pc[t] = "checkParent"
  /\ goto(t, IF parentUnchanged(t) THEN "insertLeaf" ELSE "abortLeaf")
  /\ UNCHANGED <<shared, call, descent, sep, sibling, hit>>

InsertLeaf(t) ==
  /\ pc[t] = "insertLeaf"
  /\ leafKeys' = [leafKeys EXCEPT ![node[t]] = @ \cup {key[t]}]
  /\ goto(t, "commitLeaf")
  /\ UNCHANGED <<root, word, kind, keys, children, call, descent, sep,
                 sibling, hit>>

\* node->writeUnlock(), then restart or return.
UnlockLeaf(t) ==
  /\ pc[t] \in {"abortLeaf", "commitLeaf"}
  /\ word' = [word EXCEPT ![node[t]] = writeUnlocked(@)]
  /\ goto(t, IF pc[t] = "abortLeaf" THEN "loadRoot" ELSE "idle")
  /\ UNCHANGED <<root, kind, leafKeys, keys, children, call, descent, sep,
                 sibling, hit>>

-----------------------------------------------------------------------------
(* Splitting a full node, inner or leaf *)

LockParent(t) ==
  /\ pc[t] = "lockParent"
  /\ IF word[parent[t]] = versionParent[t]
       THEN /\ word' = [word EXCEPT ![parent[t]] = upgraded(@)]
            /\ versionParent' = [versionParent EXCEPT ![t] = upgraded(@)]
            /\ goto(t, "lockNode")
       ELSE /\ goto(t, "loadRoot")
            /\ UNCHANGED <<word, versionParent>>
  /\ UNCHANGED <<root, kind, leafKeys, keys, children, call, node,
                 versionNode, parent, sep, sibling, hit>>

\* With the node locked, a thread that came without a parent makes sure that
\* the node still is the root.
LockNode(t) ==
  /\ pc[t] = "lockNode"
  /\ IF word[node[t]] = versionNode[t]
       THEN /\ word' = [word EXCEPT ![node[t]] = upgraded(@)]
            /\ versionNode' = [versionNode EXCEPT ![t] = upgraded(@)]
            /\ goto(t, IF ~hasParent(t) /\ node[t] # root
                         THEN "unlockNode" ELSE "split")
       ELSE /\ goto(t, IF hasParent(t) THEN "unlockParent" ELSE "loadRoot")
            /\ UNCHANGED <<word, versionNode>>
  /\ UNCHANGED <<root, kind, leafKeys, keys, children, call, node, parent,
                 versionParent, sep, sibling, hit>>

\* leaf->split: the lower half stays, the upper half moves to a new leaf, and
\* the separator is the largest key that stays.
SplitLeaf(t, new) ==
  LET n == node[t]
      half == Cardinality(leafKeys[n]) \div 2
      low == {k \in leafKeys[n] :
                Cardinality({j \in leafKeys[n] : j < k}) < half}
  IN /\ kind[n] = "leaf"
     /\ leafKeys' = [leafKeys EXCEPT ![n] = low, ![new] = leafKeys[n] \ low]
     /\ kind' = [kind EXCEPT ![new] = "leaf"]
     /\ \E m \in low : (\A k \in low : k <= m) /\ sep' = [sep EXCEPT ![t] = m]
     /\ UNCHANGED <<keys, children>>

\* inner->split: the middle separator moves up.
SplitInner(t, new) ==
  LET n == node[t]
      left == count(n) - (count(n) - count(n) \div 2) - 1
  IN /\ kind[n] = "inner"
     /\ keys' = [keys EXCEPT ![n] = SubSeq(@, 1, left),
                             ![new] = SubSeq(keys[n], left + 2, count(n))]
     /\ children' =
          [children EXCEPT ![n] = SubSeq(@, 1, left + 1),
             ![new] = SubSeq(children[n], left + 2, count(n) + 1)]
     /\ kind' = [kind EXCEPT ![new] = "inner"]
     /\ sep' = [sep EXCEPT ![t] = keys[n][left + 1]]
     /\ UNCHANGED leafKeys

Split(t) ==
  /\ pc[t] = "split"
  /\ FreeNodes # {}
  /\ LET new == CHOOSE n \in FreeNodes : TRUE
     IN /\ SplitLeaf(t, new) \/ SplitInner(t, new)
        /\ sibling' = [sibling EXCEPT ![t] = new]
  /\ goto(t, "link")
  /\ UNCHANGED <<root, word, call, descent, hit>>

\* parent->insert(sep, newNode): the new node goes right of its sibling.
InsertInner(t) ==
  LET p == parent[t]
      pos == lowerBound(p, sep[t])
  IN /\ keys' = [keys EXCEPT ![p] = InsertAt(@, pos, sep[t])]
     /\ children' = [children EXCEPT ![p] = InsertAt(@, pos + 1, sibling[t])]
     /\ UNCHANGED <<root, kind>>

makeRoot(t) ==
  /\ FreeNodes # {}
  /\ LET new == CHOOSE n \in FreeNodes : TRUE
     IN /\ keys' = [keys EXCEPT ![new] = <<sep[t]>>]
        /\ children' = [children EXCEPT ![new] = <<node[t], sibling[t]>>]
        /\ kind' = [kind EXCEPT ![new] = "inner"]
        /\ root' = new

Link(t) ==
  /\ pc[t] = "link"
  /\ IF hasParent(t) THEN InsertInner(t) ELSE makeRoot(t)
  /\ goto(t, "unlockNode")
  /\ UNCHANGED <<word, leafKeys, call, descent, sep, sibling, hit>>

UnlockNode(t) ==
  /\ pc[t] = "unlockNode"
  /\ word' = [word EXCEPT ![node[t]] = writeUnlocked(@)]
  /\ goto(t, IF hasParent(t) THEN "unlockParent" ELSE "loadRoot")
  /\ UNCHANGED <<root, kind, leafKeys, keys, children, call, descent, sep,
                 sibling, hit>>

UnlockParent(t) ==
  /\ pc[t] = "unlockParent"
  /\ word' = [word EXCEPT ![parent[t]] = writeUnlocked(@)]
  /\ goto(t, "loadRoot")
  /\ UNCHANGED <<root, kind, leafKeys, keys, children, call, descent, sep,
                 sibling, hit>>

-----------------------------------------------------------------------------
Begin(t) == \E k \in Keys : BeginInsert(t, k) \/ BeginLookup(t, k)

\* A step of an operation under way.
Run(t) ==
  \/ LoadRoot(t) \/ LockRoot(t) \/ CheckRoot(t)
  \/ VisitInner(t) \/ Child(t) \/ LockChild(t)
  \/ SearchLeaf(t) \/ ValidateParent(t) \/ ValidateNode(t) \/ Return(t)
  \/ VisitLeaf(t) \/ LockLeaf(t) \/ CheckParent(t) \/ InsertLeaf(t)
  \/ UnlockLeaf(t)
  \/ LockParent(t) \/ LockNode(t) \/ Split(t) \/ Link(t)
  \/ UnlockNode(t) \/ UnlockParent(t)

Next == \E t \in Threads : Begin(t) \/ Run(t)

Spec == Init /\ [][Next]_vars

\* A thread inside an operation is scheduled again and again; clients need not
\* call.
Fairness == \A t \in Threads : WF_vars(Run(t))

FairSpec == Spec /\ Fairness

-----------------------------------------------------------------------------
(* Properties *)

\* The write sections of a thread, read off its position in the code.
HoldsNode(t, n) ==
  /\ node[t] = n
  /\ pc[t] \in {"checkParent", "insertLeaf", "abortLeaf", "commitLeaf",
                "split", "link", "unlockNode"}

HoldsParent(t, n) ==
  /\ parent[t] = n
  /\ pc[t] \in {"lockNode", "split", "link", "unlockNode", "unlockParent"}

Holds(t, n) == HoldsNode(t, n) \/ HoldsParent(t, n)

\* Every path through insert, the failing ones included, releases exactly the
\* locks it took: a node's lock bit is set exactly while one thread is in a
\* write section of it, and no two threads ever are.
LocksBalanced ==
  \A n \in Nodes :
    /\ isLocked(word[n]) <=> \E t \in Threads : Holds(t, n)
    /\ \A t, u \in Threads : Holds(t, n) /\ Holds(u, n) => t = u

\* The assertion of BTreeInner::insert, which NDEBUG compiles out: the parent
\* a split is linked into has room, though it was looked at before it was
\* locked.
RoomInParent ==
  \A t \in Threads :
    pc[t] = "link" /\ hasParent(t) => count(parent[t]) < InnerSlots - 1

\* The nodes a search for k passes when nobody interferes.
Route(k) ==
  LET at[d \in 0 .. Cardinality(Nodes)] ==
        IF d = 0 THEN root
        ELSE LET n == at[d - 1]
             IN IF kind[n] = "inner" THEN children[n][lowerBound(n, k)] ELSE n
  IN at

\* No key is ever lost: following the separators from the root leads every
\* key of the tree to the leaf that holds it, except that the upper half of a
\* node in the middle of a split is not linked yet.
KeysReachable ==
  \A k \in Dict :
    LET at == Route(k)
    IN \/ k \in leafKeys[at[Cardinality(Nodes)]]
       \/ \E t \in Threads, d \in 0 .. Cardinality(Nodes) :
            pc[t] = "link" /\ at[d] = node[t] /\ k > sep[t]

\* A lookup that returns has found its key if the key was in the tree when the
\* lookup was called (keys are never removed).
LookupNeverMisses ==
  \A t \in Threads :
    pc[t] = "return" /\ present[t] => hit[t]

\* The tree is a linearizable dictionary: an insert takes effect when the leaf
\* is stored into, a lookup when its last comparison succeeds.
phaseOf(t) ==
  CASE pc[t] = "idle" -> "idle"
    [] pc[t] \in {"commitLeaf", "return"} -> "done"
    [] OTHER -> "called"

Linear == INSTANCE Dictionary
  WITH dict <- Dict,
       phase <- [t \in Threads |-> phaseOf(t)],
       answer <- [t \in Threads |-> pc[t] = "return" /\ hit[t]]

\* Every answer and every insert is one step of the dictionary.
Linearizable == Linear!Spec

\* Every call returns: optimistic restarts do not go on for ever, because a
\* thread restarts only when another one got somewhere.
CallsReturn == \A t \in Threads : pc[t] # "idle" ~> pc[t] = "idle"
-----------------------------------------------------------------------------
(* The inductive invariant behind TypeOK, LocksBalanced and RoomInParent. *)

Allocated == {n \in Nodes : kind[n] # "free"}

hasRoom(n) == count(n) < InnerSlots - 1

\* The tree links allocated nodes only, an inner node has a child more than it
\* has separators and at most InnerSlots of them, and no node is obsolete.
NodesWellFormed ==
  /\ root \in Allocated
  /\ \A n \in Nodes :
       /\ children[n] \in Seq(Allocated)
       /\ ~isObsolete(word[n])
       /\ kind[n] = "inner" =>
            /\ Len(children[n]) = count(n) + 1
            /\ count(n) <= InnerSlots - 1

\* What a thread points to is allocated, and its parent is an inner node.
PointersGood(t) ==
  /\ node[t] \in Allocated
  /\ hasParent(t) => kind[parent[t]] = "inner"
  /\ pc[t] = "child" => kind[node[t]] = "inner"
  /\ pc[t] = "link" => sibling[t] \in Allocated
  /\ pc[t] \in {"lockRoot", "checkRoot"} => ~hasParent(t)
  /\ pc[t] \in {"lockParent", "unlockParent"} => hasParent(t)
  /\ pc[t] \in {"split", "link", "unlockNode"} => node[t] # parent[t]
  /\ pc[t] = "lockParent" => op[t] = "insert"

\* The version a thread loaded was readable and is not newer than the word.
VersionsBehind(t) ==
  /\ pc[t] \in {"checkRoot", "visit", "child", "lockParent", "lockNode",
                "lockLeaf"} =>
       isReadable(versionNode[t]) /\ versionNode[t] <= word[node[t]]
  /\ pc[t] \in {"lockChild", "visit", "lockParent"} /\ hasParent(t) =>
       isReadable(versionParent[t]) /\ versionParent[t] <= word[parent[t]]

\* What a thread has seen of a node is still so while the word is the version
\* it loaded, and from then on while it holds the node.
FactsStand(t) ==
  /\ pc[t] \in {"lockParent", "lockNode"} /\ word[node[t]] = versionNode[t]
       => isFull(node[t])
  /\ pc[t] = "split" => isFull(node[t])
  /\ pc[t] = "child" /\ op[t] = "insert" /\ word[node[t]] = versionNode[t]
       => hasRoom(node[t])
  /\ pc[t] \in {"lockChild", "visit", "lockParent"} /\ op[t] = "insert" =>
       (hasParent(t) /\ word[parent[t]] = versionParent[t]
          => hasRoom(parent[t]))
  /\ pc[t] \in {"lockNode", "split", "link"} /\ hasParent(t)
       => hasRoom(parent[t])

ThreadInv(t) == PointersGood(t) /\ VersionsBehind(t) /\ FactsStand(t)

\* What a thread learned optimistically is true whenever it acts on it.
TreeInv ==
  /\ TypeOK
  /\ NodesWellFormed
  /\ LocksBalanced
  /\ \A t \in Threads : ThreadInv(t)
=============================================================================
