--------------------------- MODULE BTreeOLCProofs ---------------------------
(***************************************************************************)
(* Proofs about the concurrent B-tree, for any number of threads, keys and *)
(* nodes and any node sizes the code admits.  TreeInv is an inductive      *)
(* invariant, and with it TypeOK, LocksBalanced and RoomInParent hold.     *)
(* OrderInv is one, by which no lookup of BTreeOLC.hpp misses a key and    *)
(* the tree implements the dictionary.  No key is ever lost: a search that *)
(* nobody disturbs ends in the leaf that holds the key, by an argument     *)
(* about a least depth at which something would be wrong.                  *)
(***************************************************************************)
EXTENDS BTreeOLCOrder, DataFacts

-----------------------------------------------------------------------------
(* Lock words and separators *)

\* Taking the lock of a readable word sets the lock bit, releasing a locked
\* one makes it readable again (upgradeToWriteLockOrRestart, writeUnlock).
LEMMA LockBits ==
  ASSUME NEW w \in Nat
  PROVE  /\ isReadable(w) => isLocked(w + 2) /\ ~isObsolete(w + 2)
         /\ isLocked(w) /\ ~isObsolete(w) => isReadable(w + 2)
<1> DEFINE q == w \div 2
<1>1. q \in Nat /\ (w + 2) \div 2 = q + 1 /\ (w + 2) % 2 = w % 2
  OBVIOUS
<1>2. q % 2 = 1 <=> (q + 1) % 2 # 1
  BY <1>1
<1>3. QED
  BY <1>1, <1>2 DEF isReadable, isLocked, isObsolete

\* BTreeInner::lowerBound is the index of a child.
LEMMA LowerBoundRange ==
  ASSUME NEW n \in Nodes, keys[n] \in Seq(Keys), NEW k
  PROVE  lowerBound(n, k) \in 1 .. Len(keys[n]) + 1
<1> DEFINE S == {i \in 1 .. Len(keys[n]) : keys[n][i] < k}
<1>1. Len(keys[n]) \in Nat
  OBVIOUS
<1>2. /\ IsFiniteSet(1 .. Len(keys[n]))
      /\ Cardinality(1 .. Len(keys[n])) = Len(keys[n])
  <2> DEFINE l == Len(keys[n])
  <2>1. l \in Nat /\ 1 \in Int /\ l \in Int
    BY <1>1
  <2> HIDE DEF l
  <2>2. /\ IsFiniteSet(1 .. l)
        /\ Cardinality(1 .. l) = IF 1 > l THEN 0 ELSE l - 1 + 1
    BY <2>1, FS_Interval
  <2>3. Cardinality(1 .. l) = l
    BY <2>1, <2>2
  <2>4. QED
    BY <2>2, <2>3 DEF l
<1>3. IsFiniteSet(S) /\ Cardinality(S) <= Cardinality(1 .. Len(keys[n]))
  BY <1>2, FS_Subset
<1>4. Cardinality(S) \in Nat
  BY <1>3, FS_CardinalityType
<1>5. lowerBound(n, k) = Cardinality(S) + 1
  BY DEF lowerBound, count
<1>6. QED
  BY <1>1, <1>2, <1>3, <1>4, <1>5

-----------------------------------------------------------------------------
(* The steps of one thread as the others see them *)

\* The locals of u that the invariant is about are left alone.
SameLocals(u) ==
  /\ pc'[u] = pc[u] /\ op'[u] = op[u] /\ sibling'[u] = sibling[u]
  /\ node'[u] = node[u] /\ versionNode'[u] = versionNode[u]
  /\ parent'[u] = parent[u] /\ versionParent'[u] = versionParent[u]

\* How a thread t may change shared nodes: words only grow, an allocated node
\* keeps its kind, and what it contains changes only in t's write section.
Disciplined(t) ==
  /\ \A n \in Nodes : word'[n] >= word[n]
  /\ \A n \in Allocated :
       /\ kind'[n] = kind[n]
       /\ \/ keys'[n] = keys[n] /\ leafKeys'[n] = leafKeys[n]
          \/ isLocked(word[n]) /\ Holds(t, n)

\* Disciplined steps of t do not disturb what another thread relies on.
LEMMA ThreadFrame ==
  ASSUME TypeOK, TypeOK', LocksBalanced,
         NEW t \in Threads, Disciplined(t),
         NEW u \in Threads, u # t, ThreadInv(u), SameLocals(u)
  PROVE  ThreadInv(u)'
<1>1. node[u] \in Allocated /\ node[u] \in Nodes /\ node'[u] = node[u]
  BY DEF ThreadInv, PointersGood, SameLocals, Allocated
<1>2. hasParent(u) => parent[u] \in Allocated /\ parent[u] \in Nodes
  BY DEF ThreadInv, PointersGood, Allocated, hasParent, TypeOK
<1>0. /\ \A n \in Nodes :
           word[n] \in Nat /\ word'[n] \in Nat /\ word'[n] >= word[n]
      /\ versionNode[u] \in Nat /\ versionParent[u] \in Nat
      /\ Allocated \subseteq Nodes
  BY DEF TypeOK, Disciplined, Allocated
<1>3. PointersGood(u)'
  <2>1. Allocated \subseteq Allocated'
    BY DEF Disciplined, Allocated
  <2>2. \A n \in Allocated : kind'[n] = kind[n]
    BY DEF Disciplined
  <2>3. PointersGood(u)
    BY DEF ThreadInv
  <2>4. QED
    BY <1>1, <1>2, <2>1, <2>2, <2>3 DEF PointersGood, SameLocals, hasParent
<1>4. VersionsBehind(u)'
  BY <1>0, <1>1, <1>2 DEF ThreadInv, VersionsBehind, SameLocals, hasParent
<1>5. \A n \in Allocated :
        \/ keys'[n] = keys[n] /\ leafKeys'[n] = leafKeys[n] /\ kind'[n] = kind[n]
        \/ isLocked(word[n]) /\ ~Holds(u, n)
  BY DEF Disciplined, LocksBalanced, Allocated
<1>6. \A n \in Allocated :
        \/ (isFull(n)' <=> isFull(n)) /\ (hasRoom(n)' <=> hasRoom(n))
        \/ isLocked(word[n]) /\ ~Holds(u, n)
  BY <1>5 DEF isFull, hasRoom, count
<1>7. \A n \in Allocated, v \in Nat :
        isReadable(v) /\ v <= word[n] /\ word'[n] = v =>
          /\ word[n] = v
          /\ isFull(n)' <=> isFull(n)
          /\ hasRoom(n)' <=> hasRoom(n)
  <2> TAKE n \in Allocated, v \in Nat
  <2> HAVE isReadable(v) /\ v <= word[n] /\ word'[n] = v
  <2>1. word[n] = v
    BY <1>0
  <2>2. ~isLocked(word[n])
    BY <2>1 DEF isReadable
  <2>3. QED
    BY <1>6, <2>1, <2>2
<1>8. \A n \in Allocated : Holds(u, n) =>
        (isFull(n)' <=> isFull(n)) /\ (hasRoom(n)' <=> hasRoom(n))
  BY <1>6
<1>9. FactsStand(u)'
  <2>1. pc[u] \in {"split", "link"} => Holds(u, node[u])
    BY DEF Holds, HoldsNode
  <2>2. pc[u] \in {"lockNode", "split", "link"} => Holds(u, parent[u])
    BY DEF Holds, HoldsParent
  <2>3. FactsStand(u) /\ VersionsBehind(u)
    BY DEF ThreadInv
  <2>4. (pc[u] \in {"lockParent", "lockNode"} /\ word[node[u]] = versionNode[u]
           => isFull(node[u]))'
    BY <1>0, <1>1, <1>7, <2>3 DEF VersionsBehind, FactsStand, SameLocals
  <2>5. (pc[u] = "split" => isFull(node[u]))'
    BY <1>1, <1>8, <2>1, <2>3 DEF FactsStand, SameLocals
  <2>6. (pc[u] = "child" /\ op[u] = "insert" /\ word[node[u]] = versionNode[u]
           => hasRoom(node[u]))'
    BY <1>0, <1>1, <1>7, <2>3 DEF VersionsBehind, FactsStand, SameLocals
  <2>7. (pc[u] \in {"lockChild", "visit", "lockParent"} /\ op[u] = "insert" =>
           (hasParent(u) /\ word[parent[u]] = versionParent[u]
              => hasRoom(parent[u])))'
    BY <1>0, <1>2, <1>7, <2>3
       DEF VersionsBehind, FactsStand, SameLocals, hasParent
  <2>8. (pc[u] \in {"lockNode", "split", "link"} /\ hasParent(u)
           => hasRoom(parent[u]))'
    BY <1>2, <1>8, <2>2, <2>3 DEF FactsStand, SameLocals, hasParent
  <2>9. QED
    BY <2>4, <2>5, <2>6, <2>7, <2>8 DEF FactsStand
<1>10. QED
  BY <1>3, <1>4, <1>9 DEF ThreadInv

\* A thread whose locals stay is in the same write sections.
LEMMA HoldsFrame ==
  ASSUME NEW u \in Threads, SameLocals(u), NEW n
  PROVE  Holds(u, n)' <=> Holds(u, n)
  BY DEF SameLocals, Holds, HoldsNode, HoldsParent

\* What is left to show for a step of t.
LEMMA StepRule ==
  ASSUME TreeInv, NEW t \in Threads, TypeOK', NodesWellFormed',
         LocksBalanced', ThreadInv(t)', Disciplined(t),
         \A u \in Threads : u # t => SameLocals(u)
  PROVE  TreeInv'
<1>1. ASSUME NEW u \in Threads PROVE ThreadInv(u)'
  <2>1. CASE u = t
    BY <2>1
  <2>2. CASE u # t
    BY <2>2, ThreadFrame DEF TreeInv
  <2>3. QED
    BY <2>1, <2>2
<1>2. QED
  BY <1>1 DEF TreeInv

\* A step that leaves the shared nodes alone and takes or releases no lock.
LEMMA QuietStep ==
  ASSUME TreeInv, NEW t \in Threads, UNCHANGED shared, TypeOK',
         ThreadInv(t)',
         \A u \in Threads : u # t => SameLocals(u),
         \A n \in Nodes : Holds(t, n)' <=> Holds(t, n)
  PROVE  TreeInv'
<1>1. NodesWellFormed'
  BY DEF TreeInv, NodesWellFormed, shared, Allocated, count
<1>2. \A u \in Threads, n \in Nodes : Holds(u, n)' <=> Holds(u, n)
  BY HoldsFrame
<1>3. LocksBalanced'
  BY <1>2 DEF TreeInv, LocksBalanced, shared
<1>4. Disciplined(t)
  BY DEF Disciplined, shared, TreeInv, TypeOK
<1>5. QED
  BY <1>1, <1>3, <1>4, StepRule

\* A step of t that only changes lock words, upwards.
LEMMA WordStep ==
  ASSUME TreeInv, NEW t \in Threads, TypeOK',
         UNCHANGED <<root, kind, leafKeys, keys, children>>,
         \A n \in Nodes : word'[n] >= word[n] /\ ~isObsolete(word'[n]),
         LocksBalanced', ThreadInv(t)',
         \A u \in Threads : u # t => SameLocals(u)
  PROVE  TreeInv'
<1>1. NodesWellFormed'
  BY DEF TreeInv, NodesWellFormed, Allocated, count
<1>2. Disciplined(t)
  BY DEF Disciplined
<1>3. QED
  BY <1>1, <1>2, StepRule

\* t takes the lock of m (upgradeToWriteLockOrRestart).
LEMMA TakeLock ==
  ASSUME TreeInv, NEW t \in Threads, NEW m \in Nodes, isReadable(word[m]),
         word' = [word EXCEPT ![m] = upgraded(@)],
         \A u \in Threads : u # t => SameLocals(u),
         \A n \in Nodes : Holds(t, n)' <=> Holds(t, n) \/ n = m
  PROVE  /\ LocksBalanced'
         /\ \A n \in Nodes : word'[n] >= word[n] /\ ~isObsolete(word'[n])
<1>1. /\ word'[m] = word[m] + 2 /\ word[m] \in Nat
      /\ \A n \in Nodes : n # m => word'[n] = word[n]
      /\ \A n \in Nodes : word[n] \in Nat
  BY DEF TreeInv, TypeOK, upgraded
<1>2. isLocked(word'[m]) /\ ~isObsolete(word'[m]) /\ ~isLocked(word[m])
  BY <1>1, LockBits DEF isReadable
<1>3. \A n \in Nodes : word'[n] >= word[n] /\ ~isObsolete(word'[n])
  BY <1>1, <1>2 DEF TreeInv, NodesWellFormed
<1>4. \A u \in Threads : ~Holds(u, m)
  BY <1>2 DEF TreeInv, LocksBalanced
<1>5. \A u \in Threads, n \in Nodes : u # t =>
        (Holds(u, n)' <=> Holds(u, n))
  BY HoldsFrame
<1>6. ASSUME NEW n \in Nodes
      PROVE  /\ isLocked(word'[n]) <=> \E u \in Threads : Holds(u, n)'
             /\ \A u, v \in Threads : Holds(u, n)' /\ Holds(v, n)' => u = v
  <2>1. CASE n = m
    BY <1>2, <1>4, <1>5, <2>1
  <2>2. CASE n # m
    <3>1. \A u \in Threads : Holds(u, n)' <=> Holds(u, n)
      BY <1>5, <2>2
    <3>2. QED
      BY <1>1, <2>2, <3>1 DEF TreeInv, LocksBalanced
  <2>3. QED
    BY <2>1, <2>2
<1>7. LocksBalanced'
  BY <1>6 DEF LocksBalanced
<1>8. QED
  BY <1>3, <1>7

\* t releases the lock of m (writeUnlock).
LEMMA ReleaseLock ==
  ASSUME TreeInv, NEW t \in Threads, NEW m \in Nodes, Holds(t, m),
         word' = [word EXCEPT ![m] = writeUnlocked(@)],
         \A u \in Threads : u # t => SameLocals(u),
         \A n \in Nodes : Holds(t, n)' <=> Holds(t, n) /\ n # m
  PROVE  /\ LocksBalanced'
         /\ \A n \in Nodes : word'[n] >= word[n] /\ ~isObsolete(word'[n])
<1>1. /\ word'[m] = word[m] + 2 /\ word[m] \in Nat
      /\ \A n \in Nodes : n # m => word'[n] = word[n]
      /\ \A n \in Nodes : word[n] \in Nat
  BY DEF TreeInv, TypeOK, writeUnlocked
<1>2. isLocked(word[m]) /\ ~isObsolete(word[m])
  BY DEF TreeInv, LocksBalanced, NodesWellFormed
<1>3. ~isLocked(word'[m]) /\ ~isObsolete(word'[m])
  BY <1>1, <1>2, LockBits DEF isReadable
<1>4. \A n \in Nodes : word'[n] >= word[n] /\ ~isObsolete(word'[n])
  BY <1>1, <1>3 DEF TreeInv, NodesWellFormed
<1>5. \A u \in Threads : u # t => ~Holds(u, m)
  BY DEF TreeInv, LocksBalanced
<1>6. \A u \in Threads, n \in Nodes : u # t =>
        (Holds(u, n)' <=> Holds(u, n))
  BY HoldsFrame
<1>7. ASSUME NEW n \in Nodes
      PROVE  /\ isLocked(word'[n]) <=> \E u \in Threads : Holds(u, n)'
             /\ \A u, v \in Threads : Holds(u, n)' /\ Holds(v, n)' => u = v
  <2>1. CASE n = m
    BY <1>3, <1>5, <1>6, <2>1
  <2>2. CASE n # m
    <3>1. \A u \in Threads : Holds(u, n)' <=> Holds(u, n)
      BY <1>6, <2>2
    <3>2. QED
      BY <1>1, <2>2, <3>1 DEF TreeInv, LocksBalanced
  <2>3. QED
    BY <2>1, <2>2
<1>8. LocksBalanced'
  BY <1>7 DEF LocksBalanced
<1>9. QED
  BY <1>4, <1>8

-----------------------------------------------------------------------------
(* Steps that change no shared node *)

\* Where a thread holds no lock and the invariant asks nothing of what it
\* has loaded.
Resting == {"idle", "loadRoot", "return", "validateParent", "validateNode"}

Unlocked == Resting \cup {"lockRoot", "checkRoot", "visit", "child",
                          "lockChild", "lockLeaf", "lockParent"}

\* A thread at such a place is in no write section.
LEMMA UnlockedHoldsNothing ==
  ASSUME NEW t \in Threads, pc[t] \in Unlocked, NEW n
  PROVE  ~Holds(t, n)
  BY DEF Unlocked, Resting, Holds, HoldsNode, HoldsParent

\* A step into a resting place: a call, a restart, a return.
LEMMA RestStep ==
  ASSUME TreeInv, NEW t \in Threads, UNCHANGED shared, TypeOK',
         \A u \in Threads : u # t => SameLocals(u),
         pc[t] \in Unlocked, pc'[t] \in Resting,
         node'[t] \in Allocated,
         parent'[t] # Null => kind[parent'[t]] = "inner"
  PROVE  TreeInv'
<1>1. PointersGood(t)'
  BY DEF PointersGood, Resting, hasParent, shared, Allocated
<1>2. VersionsBehind(t)' /\ FactsStand(t)'
  BY DEF VersionsBehind, FactsStand, Resting
<1>3. \A n \in Nodes : Holds(t, n)' <=> Holds(t, n)
  BY UnlockedHoldsNothing
     DEF Unlocked, Resting, Holds, HoldsNode, HoldsParent
<1>4. QED
  BY <1>1, <1>2, <1>3, QuietStep DEF ThreadInv

\* A client calls insert or lookup.
LEMMA BeginStep ==
  ASSUME TreeInv, NEW t \in Threads, Begin(t)
  PROVE  TreeInv'
<1>1. PICK k \in Keys : BeginInsert(t, k) \/ BeginLookup(t, k)
  BY DEF Begin
<1>2. /\ pc[t] = "idle" /\ pc' = [pc EXCEPT ![t] = "loadRoot"]
      /\ \E o \in {"insert", "lookup"} : op' = [op EXCEPT ![t] = o]
      /\ key' = [key EXCEPT ![t] = k]
      /\ UNCHANGED <<shared, descent, sep, sibling, hit>>
  BY <1>1 DEF BeginInsert, BeginLookup, goto
<1>0. present' \in [Threads -> BOOLEAN]
  <2>1. present \in [Threads -> BOOLEAN]
    BY DEF TreeInv, TypeOK
  <2>2. ASSUME NEW b \in BOOLEAN, present' = [present EXCEPT ![t] = b]
        PROVE  present' \in [Threads -> BOOLEAN]
    BY <2>1, <2>2
  <2>3. CASE BeginInsert(t, k)
    BY <2>2, <2>3 DEF BeginInsert
  <2>4. CASE BeginLookup(t, k)
    <3> DEFINE b == k \in Dict
    <3>1. b \in BOOLEAN
      OBVIOUS
    <3>2. present' = [present EXCEPT ![t] = b]
      BY <2>4 DEF BeginLookup
    <3> HIDE DEF b
    <3>3. QED
      BY <2>2, <3>1, <3>2
  <2>5. QED
    BY <1>1, <2>3, <2>4
<1>3. TypeOK'
  BY <1>0, <1>2 DEF TreeInv, TypeOK, Steps, shared, descent
<1>4. \A u \in Threads : u # t => SameLocals(u)
  BY <1>2 DEF SameLocals, TreeInv, TypeOK, descent
<1>5. /\ pc[t] \in Unlocked /\ pc'[t] \in Resting
      /\ node'[t] \in Allocated
      /\ parent'[t] # Null => kind[parent'[t]] = "inner"
  BY <1>2 DEF Unlocked, Resting, TreeInv, TypeOK, ThreadInv, PointersGood,
     hasParent, descent
<1>6. QED
  BY <1>2, <1>3, <1>4, <1>5, RestStep

\* A step that only moves on, or writes the answer of a lookup.
Moves(t, step) ==
  /\ pc' = [pc EXCEPT ![t] = step]
  /\ UNCHANGED <<shared, call, descent, sep, sibling>>
  /\ hit' \in [Threads -> BOOLEAN]

\* Such a step keeps the types and what the thread points to.
LEMMA MovesType ==
  ASSUME TreeInv, NEW t \in Threads, NEW step \in Steps, Moves(t, step)
  PROVE  /\ TypeOK'
         /\ \A u \in Threads : u # t => SameLocals(u)
         /\ pc'[t] = step
         /\ node'[t] \in Allocated
         /\ parent'[t] # Null => kind[parent'[t]] = "inner"
<1>1. TypeOK'
  <2>1. pc' \in [Threads -> Steps]
    BY DEF Moves, TreeInv, TypeOK
  <2>2. /\ root' \in Nodes
        /\ word' \in [Nodes -> Nat]
        /\ kind' \in [Nodes -> {"free", "leaf", "inner"}]
        /\ leafKeys' \in [Nodes -> SUBSET Keys]
        /\ keys' \in [Nodes -> Seq(Keys)]
        /\ children' \in [Nodes -> Seq(Nodes)]
    BY DEF Moves, TreeInv, TypeOK, shared
  <2>3. QED
    BY <2>1, <2>2 DEF Moves, TreeInv, TypeOK, call, descent
<1>2. \A u \in Threads : u # t => SameLocals(u)
  BY DEF Moves, SameLocals, TreeInv, TypeOK, call, descent
<1>3. pc'[t] = step
  BY DEF Moves, TreeInv, TypeOK
<1>4. /\ node[t] \in Allocated
      /\ parent[t] # Null => kind[parent[t]] = "inner"
  BY DEF TreeInv, ThreadInv, PointersGood, hasParent
<1>5. node' = node /\ parent' = parent
  BY DEF Moves, descent
<1>6. QED
  BY <1>1, <1>2, <1>3, <1>4, <1>5

\* It may always lead to a resting place.
LEMMA MovesToRest ==
  ASSUME TreeInv, NEW t \in Threads, NEW step \in Resting, Moves(t, step),
         pc[t] \in Unlocked
  PROVE  TreeInv'
<1>1. step \in Steps
  BY DEF Resting, Steps
<1>2. UNCHANGED shared
  BY DEF Moves
<1>3. QED
  BY <1>1, <1>2, MovesType, RestStep

\* A lookup at a leaf answers, compares, returns or restarts.
LEMMA LookupEnds ==
  ASSUME TreeInv, NEW t \in Threads,
         SearchLeaf(t) \/ ValidateParent(t) \/ ValidateNode(t) \/ Return(t)
  PROVE  TreeInv'
<1>1. CASE SearchLeaf(t)
  <2>1. hit' \in [Threads -> BOOLEAN]
    <3> DEFINE fact == key[t] \in leafKeys[node[t]]
    <3>1. fact \in BOOLEAN
      OBVIOUS
    <3>2. hit \in [Threads -> BOOLEAN]
      BY DEF TreeInv, TypeOK
    <3>3. PICK found \in Observed(t, fact) : hit' = [hit EXCEPT ![t] = found]
      BY <1>1 DEF SearchLeaf
    <3> HIDE DEF fact
    <3>4. found \in BOOLEAN
      BY <3>1, <3>3 DEF Observed
    <3>5. QED
      BY <3>2, <3>3, <3>4
  <2>2. PICK step \in {"return", "validateParent", "validateNode"} :
          pc' = [pc EXCEPT ![t] = step]
    <3>1. CASE LookupValidates = FALSE
      BY <1>1, <3>1 DEF SearchLeaf, goto
    <3>2. CASE LookupValidates = TRUE /\ hasParent(t)
      BY <1>1, <3>2 DEF SearchLeaf, goto
    <3>3. CASE LookupValidates = TRUE /\ ~hasParent(t)
      BY <1>1, <3>3 DEF SearchLeaf, goto
    <3>4. QED
      BY <3>1, <3>2, <3>3, SetsAssumption
  <2>3. Moves(t, step) /\ pc[t] \in Unlocked /\ step \in Resting
    BY <1>1, <2>1, <2>2 DEF SearchLeaf, Moves, Unlocked, Resting
  <2>4. QED
    BY <2>3, MovesToRest
<1>2. CASE ValidateParent(t) \/ ValidateNode(t) \/ Return(t)
  <2>1. hit' \in [Threads -> BOOLEAN]
    BY <1>2 DEF TreeInv, TypeOK, ValidateParent, ValidateNode, Return
  <2>2. PICK step \in Resting : pc' = [pc EXCEPT ![t] = step]
    BY <1>2 DEF ValidateParent, ValidateNode, Return, goto, Resting
  <2>3. Moves(t, step) /\ pc[t] \in Unlocked
    BY <1>2, <2>1, <2>2 DEF ValidateParent, ValidateNode, Return, Moves,
       Unlocked, Resting
  <2>4. QED
    BY <2>3, MovesToRest
<1>3. QED
  BY <1>1, <1>2

\* A node whose word still is the version loaded is not being written: what
\* is read of it is true.
LEMMA NoTear ==
  ASSUME TreeInv, NEW t \in Threads, pc[t] = "visit",
         word[node[t]] = versionNode[t]
  PROVE  ~MayTear(node[t], versionNode[t])
<1>1. node[t] \in Nodes /\ versionNode[t] \in Nat
  BY DEF TreeInv, TypeOK
<1>2. ~isLocked(word[node[t]])
  BY DEF TreeInv, ThreadInv, VersionsBehind, isReadable
<1>3. \A w \in Threads : ~Holds(w, node[t])
  BY <1>1, <1>2 DEF TreeInv, LocksBalanced
<1>4. ~BeingWritten(node[t])
  BY <1>3 DEF BeingWritten, Holds, HoldsNode, HoldsParent
<1>5. QED
  BY <1>1, <1>4 DEF MayTear, upgraded

\* A thread goes on only from a node that still was the root.
LEMMA CheckRootStep ==
  ASSUME TreeInv, NEW t \in Threads, CheckRoot(t)
  PROVE  TreeInv'
<1>1. hit' \in [Threads -> BOOLEAN]
  BY DEF TreeInv, TypeOK, CheckRoot
<1>2. CASE node[t] # root
  <2>1. Moves(t, "loadRoot") /\ pc[t] \in Unlocked /\ "loadRoot" \in Resting
    BY <1>1, <1>2 DEF CheckRoot, goto, Moves, Unlocked, Resting
  <2>2. QED
    BY <2>1, MovesToRest
<1>3. CASE node[t] = root
  <2>1. Moves(t, "visit") /\ pc[t] = "checkRoot" /\ "visit" \in Steps
    BY <1>1, <1>3 DEF CheckRoot, goto, Moves, Steps
  <2>2. /\ TypeOK' /\ pc'[t] = "visit" /\ UNCHANGED <<shared, call, descent>>
        /\ \A u \in Threads : u # t => SameLocals(u)
    BY <2>1, MovesType DEF Moves
  <2>3. ThreadInv(t)
    BY DEF TreeInv
  <2>4. parent[t] = Null /\ parent'[t] = Null
    BY <2>1, <2>2, <2>3 DEF ThreadInv, PointersGood, hasParent, descent
  <2>5. PointersGood(t)' /\ VersionsBehind(t)' /\ FactsStand(t)'
    BY <2>1, <2>2, <2>3, <2>4 DEF ThreadInv, PointersGood, VersionsBehind,
       FactsStand, hasParent, shared, call, descent, Allocated
  <2>6. \A n \in Nodes : Holds(t, n)' <=> Holds(t, n)
    BY <2>1, <2>2 DEF Holds, HoldsNode, HoldsParent
  <2>7. QED
    BY <2>2, <2>5, <2>6, QuietStep DEF ThreadInv
<1>4. QED
  BY <1>2, <1>3

\* With the leaf locked, the insert goes on or gives up.
LEMMA CheckParentStep ==
  ASSUME TreeInv, NEW t \in Threads, CheckParent(t)
  PROVE  TreeInv'
<1>1. hit' \in [Threads -> BOOLEAN]
  BY DEF TreeInv, TypeOK, CheckParent
<1>2. PICK step \in {"insertLeaf", "abortLeaf"} : pc' = [pc EXCEPT ![t] = step]
  BY DEF CheckParent, goto
<1>3. Moves(t, step) /\ pc[t] = "checkParent" /\ step \in Steps
  BY <1>1, <1>2 DEF CheckParent, Moves, Steps
<1>4. /\ TypeOK' /\ pc'[t] = step /\ UNCHANGED <<shared, call, descent>>
      /\ \A u \in Threads : u # t => SameLocals(u)
      /\ node'[t] \in Allocated
      /\ parent'[t] # Null => kind[parent'[t]] = "inner"
  BY <1>3, MovesType DEF Moves
<1>5. PointersGood(t)' /\ VersionsBehind(t)' /\ FactsStand(t)'
  BY <1>2, <1>4 DEF PointersGood, VersionsBehind, FactsStand, hasParent,
     shared, Allocated
<1>6. \A n \in Nodes : Holds(t, n)' <=> Holds(t, n)
  BY <1>2, <1>3, <1>4 DEF Holds, HoldsNode, HoldsParent, descent
<1>7. QED
  BY <1>4, <1>5, <1>6, QuietStep DEF ThreadInv

\* The label restart: the descent begins again at the root.
LEMMA LoadRootStep ==
  ASSUME TreeInv, NEW t \in Threads, LoadRoot(t)
  PROVE  TreeInv'
<1>1. TypeOK'
  BY DEF LoadRoot, goto, TreeInv, TypeOK, Steps, shared, call
<1>2. \A u \in Threads : u # t => SameLocals(u)
  BY DEF LoadRoot, goto, SameLocals, TreeInv, TypeOK, call
<1>3. /\ pc[t] = "loadRoot" /\ pc'[t] = "lockRoot" /\ parent'[t] = Null
      /\ node'[t] = root /\ UNCHANGED shared
  BY DEF LoadRoot, goto, TreeInv, TypeOK
<1>4. PointersGood(t)' /\ VersionsBehind(t)' /\ FactsStand(t)'
  BY <1>3 DEF PointersGood, VersionsBehind, FactsStand, hasParent, shared,
     Allocated, TreeInv, NodesWellFormed
<1>5. \A n \in Nodes : Holds(t, n)' <=> Holds(t, n)
  BY <1>3 DEF Holds, HoldsNode, HoldsParent
<1>6. QED
  BY <1>1, <1>2, <1>3, <1>4, <1>5, QuietStep DEF ThreadInv

\* readLockOrRestart: the version loaded is readable and current.
LEMMA ReadLockStep ==
  ASSUME TreeInv, NEW t \in Threads, LockRoot(t) \/ LockChild(t)
  PROVE  TreeInv'
<1>1. PICK next \in {"checkRoot", "visit"} :
        /\ readLockOrRestart(t, next)
        /\ \/ pc[t] = "lockRoot" /\ next = "checkRoot"
           \/ pc[t] = "lockChild" /\ next = "visit"
  BY DEF LockRoot, LockChild
<1>2. TypeOK /\ ThreadInv(t)
  BY DEF TreeInv
<1>3. CASE ~isReadable(word[node[t]])
  <2>1. Moves(t, "loadRoot") /\ pc[t] \in Unlocked /\ "loadRoot" \in Resting
    BY <1>1, <1>2, <1>3 DEF readLockOrRestart, goto, Moves, Unlocked, Resting,
       descent, TypeOK
  <2>2. QED
    BY <2>1, MovesToRest
<1>4. CASE isReadable(word[node[t]])
  <2>1. /\ pc' = [pc EXCEPT ![t] = next]
        /\ versionNode' = [versionNode EXCEPT ![t] = word[node[t]]]
        /\ UNCHANGED <<shared, call, node, parent, versionParent, sep, sibling,
                       hit>>
    BY <1>1, <1>4 DEF readLockOrRestart, goto
  <2>2. TypeOK'
    BY <1>2, <2>1 DEF TypeOK, Steps, shared, call
  <2>3. \A u \in Threads : u # t => SameLocals(u)
    BY <1>2, <2>1 DEF SameLocals, TypeOK, call
  <2>4. /\ pc'[t] = next /\ versionNode'[t] = word[node[t]]
        /\ word[node[t]] \in Nat
    BY <1>2, <2>1 DEF TypeOK
  <2>5. PointersGood(t)'
    BY <1>1, <1>2, <2>1, <2>4 DEF ThreadInv, PointersGood, hasParent, shared,
       Allocated
  <2>6. VersionsBehind(t)'
    BY <1>1, <1>2, <1>4, <2>1, <2>4 DEF ThreadInv, PointersGood,
       VersionsBehind, hasParent, shared
  <2>7. FactsStand(t)'
    BY <1>1, <1>2, <2>1, <2>4 DEF ThreadInv, PointersGood, FactsStand,
       hasParent, hasRoom, count, shared, call
  <2>8. \A n \in Nodes : Holds(t, n)' <=> Holds(t, n)
    BY <1>1, <2>4 DEF Holds, HoldsNode, HoldsParent
  <2>9. UNCHANGED shared
    BY <2>1
  <2>10. QED
    BY <2>2, <2>3, <2>5, <2>6, <2>7, <2>8, <2>9, QuietStep DEF ThreadInv
<1>5. QED
  BY <1>3, <1>4

\* From "visit" a thread goes on with what it has seen of the node.
LEMMA VisitStep ==
  ASSUME TreeInv, NEW t \in Threads, pc[t] = "visit",
         NEW step \in {"lockParent", "lockNode", "child", "lockLeaf"},
         Moves(t, step),
         step = "lockParent" => hasParent(t) /\ op[t] = "insert",
         step = "lockNode" => ~hasParent(t),
         step \in {"lockParent", "lockNode"}
           /\ word[node[t]] = versionNode[t] => isFull(node[t]),
         step = "child" =>
           /\ kind[node[t]] = "inner"
           /\ op[t] = "insert" /\ word[node[t]] = versionNode[t]
                => hasRoom(node[t])
  PROVE  TreeInv'
<1>1. step \in Steps
  BY DEF Steps
<1>2. /\ TypeOK' /\ pc'[t] = step /\ UNCHANGED <<shared, call, descent>>
      /\ \A u \in Threads : u # t => SameLocals(u)
  BY <1>1, MovesType DEF Moves
<1>3. ThreadInv(t)
  BY DEF TreeInv
<1>4. PointersGood(t)'
  BY <1>2, <1>3 DEF ThreadInv, PointersGood, hasParent, shared, descent, call,
     Allocated
<1>5. VersionsBehind(t)'
  BY <1>2, <1>3 DEF ThreadInv, VersionsBehind, hasParent, shared, descent
<1>6. isFull(node[t])' = isFull(node[t])
  BY <1>2 DEF isFull, count, shared, descent
<1>7. \A n : hasRoom(n)' <=> hasRoom(n)
  BY <1>2 DEF hasRoom, count, shared
<1>8. FactsStand(t)'
  BY <1>2, <1>3, <1>6, <1>7 DEF ThreadInv, FactsStand, hasParent, shared,
     descent, call
<1>9. \A n \in Nodes : Holds(t, n)' <=> Holds(t, n)
  BY <1>2, SetsAssumption DEF Holds, HoldsNode, HoldsParent, descent, hasParent
<1>10. QED
  BY <1>2, <1>4, <1>5, <1>8, <1>9, QuietStep DEF ThreadInv

\* What isFull returned is true if the node's word has not changed since.
LEMMA FullObserved ==
  ASSUME TreeInv, NEW t \in Threads, pc[t] = "visit",
         NEW full \in Observed(t, isFull(node[t]))
  PROVE  /\ full \in BOOLEAN
         /\ word[node[t]] = versionNode[t] => full = isFull(node[t])
<1> DEFINE fact == isFull(node[t])
<1>1. fact \in BOOLEAN
  BY DEF isFull
<1>2. word[node[t]] = versionNode[t] => ~MayTear(node[t], versionNode[t])
  BY NoTear
<1>3. full \in Observed(t, fact)
  OBVIOUS
<1> HIDE DEF fact
<1>4. full \in BOOLEAN /\ (word[node[t]] = versionNode[t] => full = fact)
  BY <1>1, <1>2, <1>3 DEF Observed
<1>5. QED
  BY <1>4 DEF fact

\* An inner node: split it, leave it through a child, or restart.
LEMMA VisitInnerStep ==
  ASSUME TreeInv, NEW t \in Threads, VisitInner(t)
  PROVE  TreeInv'
<1>1. PICK full \in Observed(t, isFull(node[t])) :
        goto(t, CASE op[t] = "insert" /\ full ->
                      IF hasParent(t) THEN "lockParent" ELSE "lockNode"
                 [] OTHER ->
                      IF parentUnchanged(t) THEN "child" ELSE "loadRoot")
  BY DEF VisitInner
<1>2. /\ pc[t] = "visit" /\ kind[node[t]] = "inner"
      /\ UNCHANGED <<shared, call, descent, sep, sibling, hit>>
      /\ hit' \in [Threads -> BOOLEAN]
  BY DEF VisitInner, TreeInv, TypeOK
<1>3. /\ full \in BOOLEAN
      /\ word[node[t]] = versionNode[t] => full = isFull(node[t])
  BY <1>2, FullObserved
<1>4. CASE op[t] = "insert" /\ full = TRUE /\ hasParent(t)
  <2>1. Moves(t, "lockParent")
    BY <1>1, <1>2, <1>4 DEF Moves, goto
  <2>2. QED
    BY <1>2, <1>3, <1>4, <2>1, VisitStep
<1>5. CASE op[t] = "insert" /\ full = TRUE /\ ~hasParent(t)
  <2>1. Moves(t, "lockNode")
    BY <1>1, <1>2, <1>5 DEF Moves, goto
  <2>2. QED
    BY <1>2, <1>3, <1>5, <2>1, VisitStep
<1>6. CASE (op[t] # "insert" \/ full = FALSE) /\ parentUnchanged(t)
  <2>1. Moves(t, "child")
    BY <1>1, <1>2, <1>6 DEF Moves, goto
  <2>2. node[t] \in Nodes /\ count(node[t]) \in Nat
    BY DEF TreeInv, TypeOK, count
  <2>3. count(node[t]) <= InnerSlots - 1
    BY <1>2, <2>2 DEF TreeInv, NodesWellFormed
  <2>4. op[t] = "insert" /\ word[node[t]] = versionNode[t] => hasRoom(node[t])
    <3> SUFFICES ASSUME op[t] = "insert", word[node[t]] = versionNode[t]
                 PROVE  hasRoom(node[t])
      OBVIOUS
    <3>1. ~isFull(node[t])
      BY <1>3, <1>6
    <3>2. count(node[t]) # InnerSlots - 1
      BY <1>2, <3>1 DEF isFull
    <3>3. QED
      BY <2>2, <2>3, <3>2, SlotsAssumption DEF hasRoom
  <2>5. QED
    BY <1>2, <2>1, <2>4, VisitStep
<1>7. CASE (op[t] # "insert" \/ full = FALSE) /\ ~parentUnchanged(t)
  <2>1. Moves(t, "loadRoot") /\ pc[t] \in Unlocked /\ "loadRoot" \in Resting
    BY <1>1, <1>2, <1>7 DEF Moves, goto, Unlocked, Resting
  <2>2. QED
    BY <2>1, MovesToRest
<1>8. QED
  BY <1>3, <1>4, <1>5, <1>6, <1>7

\* A leaf: insert into it, or split it first.
LEMMA VisitLeafStep ==
  ASSUME TreeInv, NEW t \in Threads, VisitLeaf(t)
  PROVE  TreeInv'
<1>1. PICK full \in Observed(t, isFull(node[t])) :
        goto(t, CASE ~full -> "lockLeaf"
                  [] full /\ hasParent(t) -> "lockParent"
                  [] OTHER -> "lockNode")
  BY DEF VisitLeaf
<1>2. /\ pc[t] = "visit" /\ op[t] = "insert"
      /\ UNCHANGED <<shared, call, descent, sep, sibling, hit>>
      /\ hit' \in [Threads -> BOOLEAN]
  BY DEF VisitLeaf, TreeInv, TypeOK
<1>3. /\ full \in BOOLEAN
      /\ word[node[t]] = versionNode[t] => full = isFull(node[t])
  BY <1>2, FullObserved
<1>4. CASE full = FALSE
  <2>1. Moves(t, "lockLeaf")
    BY <1>1, <1>2, <1>4 DEF Moves, goto
  <2>2. QED
    BY <1>2, <2>1, VisitStep
<1>5. CASE full = TRUE /\ hasParent(t)
  <2>1. Moves(t, "lockParent")
    BY <1>1, <1>2, <1>5 DEF Moves, goto
  <2>2. QED
    BY <1>2, <1>3, <1>5, <2>1, VisitStep
<1>6. CASE full = TRUE /\ ~hasParent(t)
  <2>1. Moves(t, "lockNode")
    BY <1>1, <1>2, <1>6 DEF Moves, goto
  <2>2. QED
    BY <1>2, <1>3, <1>6, <2>1, VisitStep
<1>7. QED
  BY <1>3, <1>4, <1>5, <1>6

\* The child for the key is an allocated node, and the node left has room.
LEMMA ChildStep ==
  ASSUME TreeInv, NEW t \in Threads, Child(t)
  PROVE  TreeInv'
<1>1. TypeOK /\ ThreadInv(t) /\ pc[t] = "child" /\ UNCHANGED shared
  BY DEF TreeInv, Child
<1>2. /\ node[t] \in Nodes /\ kind[node[t]] = "inner"
      /\ isReadable(versionNode[t]) /\ versionNode[t] <= word[node[t]]
  BY <1>1 DEF TypeOK, ThreadInv, PointersGood, VersionsBehind
<1> DEFINE next == children[node[t]][lowerBound(node[t], key[t])]
<1>3. next \in Allocated /\ next \in Nodes
  <2>1. keys[node[t]] \in Seq(Keys)
    BY <1>1, <1>2 DEF TypeOK
  <2>2. lowerBound(node[t], key[t]) \in 1 .. Len(keys[node[t]]) + 1
    BY <1>2, <2>1, LowerBoundRange
  <2>3. /\ children[node[t]] \in Seq(Allocated)
        /\ Len(children[node[t]]) = Len(keys[node[t]]) + 1
    BY <1>2 DEF TreeInv, NodesWellFormed, count
  <2>4. QED
    BY <2>2, <2>3 DEF Allocated
<1> HIDE DEF next
<1>4. PICK n \in Allocated, step \in {"lockChild", "loadRoot"} :
        /\ node' = [node EXCEPT ![t] = n] /\ pc' = [pc EXCEPT ![t] = step]
        /\ step = "lockChild" => word[node[t]] = versionNode[t]
  <2>1. CASE word[node[t]] = versionNode[t]
    BY <1>3, <2>1 DEF Child, goto, next
  <2>2. CASE word[node[t]] # versionNode[t]
    <3>1. node[t] \in Allocated /\ node' = [node EXCEPT ![t] = node[t]]
      BY <1>1, <2>2 DEF ThreadInv, PointersGood, Child, TypeOK
    <3>2. QED
      BY <2>2, <3>1 DEF Child, goto
  <2>3. QED
    BY <2>1, <2>2
<1>5. /\ parent' = [parent EXCEPT ![t] = node[t]]
      /\ versionParent' = [versionParent EXCEPT ![t] = versionNode[t]]
      /\ UNCHANGED <<shared, call, versionNode, sep, sibling, hit>>
  BY DEF Child
<1>6. TypeOK'
  BY <1>1, <1>4, <1>5 DEF TypeOK, Steps, Allocated, shared, call
<1>7. \A u \in Threads : u # t => SameLocals(u)
  BY <1>1, <1>4, <1>5 DEF TypeOK, SameLocals, call
<1>8. /\ node'[t] = n /\ pc'[t] = step /\ parent'[t] = node[t]
      /\ versionParent'[t] = versionNode[t] /\ op'[t] = op[t]
  BY <1>1, <1>4, <1>5 DEF TypeOK, call
<1>9. PointersGood(t)' /\ VersionsBehind(t)'
  BY <1>2, <1>4, <1>5, <1>8 DEF PointersGood, VersionsBehind, hasParent,
     shared, Allocated
<1>10. FactsStand(t)'
  BY <1>1, <1>2, <1>4, <1>5, <1>8 DEF ThreadInv, FactsStand, hasParent,
     hasRoom, count, shared
<1>11. \A m \in Nodes : Holds(t, m)' <=> Holds(t, m)
  BY <1>1, <1>4, <1>8 DEF Holds, HoldsNode, HoldsParent
<1>12. QED
  BY <1>1, <1>6, <1>7, <1>9, <1>10, <1>11, QuietStep DEF ThreadInv

-----------------------------------------------------------------------------
(* Steps that take or release a lock *)

\* Such a step changes one lock word and, of the locals, one version.
LockType(t, step) ==
  /\ pc' = [pc EXCEPT ![t] = step]
  /\ UNCHANGED <<root, kind, leafKeys, keys, children, call, node, parent, sep,
                 sibling, hit>>
  /\ versionNode' \in [Threads -> Nat] /\ versionParent' \in [Threads -> Nat]
  /\ \A u \in Threads : u # t => /\ versionNode'[u] = versionNode[u]
                                 /\ versionParent'[u] = versionParent[u]

\* Remembering the locked word as the version loaded.
LEMMA UpgradedVersion ==
  ASSUME NEW t \in Threads, NEW v \in [Threads -> Nat], NEW w,
         w = [v EXCEPT ![t] = upgraded(@)]
  PROVE  w \in [Threads -> Nat] /\ \A u \in Threads : u # t => w[u] = v[u]
<1>1. upgraded(v[t]) \in Nat
  BY DEF upgraded
<1>2. QED
  BY <1>1

\* It keeps the types, and what an allocated node contains.
LEMMA LockTypeFrame ==
  ASSUME TreeInv, NEW t \in Threads, NEW step \in Steps, LockType(t, step),
         NEW m \in Nodes,
         word' = [word EXCEPT ![m] = upgraded(@)]
  PROVE  /\ TypeOK'
         /\ \A u \in Threads : u # t => SameLocals(u)
         /\ pc'[t] = step /\ UNCHANGED <<call, node, parent, sibling>>
         /\ Allocated' = Allocated /\ UNCHANGED kind
         /\ \A n \in Nodes : isFull(n)' <=> isFull(n)
         /\ \A n \in Nodes : hasRoom(n)' <=> hasRoom(n)
<1>1. TypeOK'
  <2>1. word' \in [Nodes -> Nat]
    <3>1. word \in [Nodes -> Nat]
      BY DEF TreeInv, TypeOK
    <3>2. upgraded(word[m]) \in Nat
      BY <3>1 DEF upgraded
    <3>3. QED
      BY <3>1, <3>2
  <2>2. pc' \in [Threads -> Steps]
    BY DEF LockType, TreeInv, TypeOK
  <2>3. /\ root' \in Nodes
        /\ kind' \in [Nodes -> {"free", "leaf", "inner"}]
        /\ leafKeys' \in [Nodes -> SUBSET Keys]
        /\ keys' \in [Nodes -> Seq(Keys)]
        /\ children' \in [Nodes -> Seq(Nodes)]
    BY DEF LockType, TreeInv, TypeOK
  <2>4. /\ op' \in [Threads -> {"insert", "lookup"}]
        /\ key' \in [Threads -> Keys] /\ present' \in [Threads -> BOOLEAN]
    BY DEF LockType, TreeInv, TypeOK, call
  <2>5. /\ node' \in [Threads -> Nodes]
        /\ parent' \in [Threads -> Nodes \cup {Null}]
        /\ sep' \in [Threads -> Keys] /\ sibling' \in [Threads -> Nodes]
        /\ hit' \in [Threads -> BOOLEAN]
    BY DEF LockType, TreeInv, TypeOK
  <2>6. versionNode' \in [Threads -> Nat] /\ versionParent' \in [Threads -> Nat]
    BY DEF LockType
  <2>7. QED
    BY <2>1, <2>2, <2>3, <2>4, <2>5, <2>6 DEF TypeOK
<1>2. \A u \in Threads : u # t => SameLocals(u)
  BY DEF LockType, SameLocals, TreeInv, TypeOK, call
<1>3. /\ \A n \in Nodes : isFull(n)' <=> isFull(n)
      /\ \A n \in Nodes : hasRoom(n)' <=> hasRoom(n)
  BY DEF LockType, isFull, hasRoom, count
<1>4. QED
  BY <1>1, <1>2, <1>3 DEF LockType, Allocated, TreeInv, TypeOK

\* The leaf is locked for an insert, or the insert restarts.
LEMMA LockLeafStep ==
  ASSUME TreeInv, NEW t \in Threads, LockLeaf(t)
  PROVE  TreeInv'
<1>1. TypeOK /\ ThreadInv(t) /\ pc[t] = "lockLeaf" /\ node[t] \in Nodes
  BY DEF TreeInv, LockLeaf, TypeOK
<1>2. CASE word[node[t]] # versionNode[t]
  <2>1. Moves(t, "loadRoot") /\ pc[t] \in Unlocked /\ "loadRoot" \in Resting
    BY <1>1, <1>2 DEF LockLeaf, goto, Moves, Unlocked, Resting, descent,
       shared, TypeOK
  <2>2. QED
    BY <2>1, MovesToRest
<1>3. CASE word[node[t]] = versionNode[t]
  <2>1. /\ word' = [word EXCEPT ![node[t]] = upgraded(@)]
        /\ LockType(t, "checkParent") /\ "checkParent" \in Steps
    <3>1. versionNode \in [Threads -> Nat] /\ versionParent \in [Threads -> Nat]
      BY <1>1 DEF TypeOK
    <3>2. versionNode' = [versionNode EXCEPT ![t] = upgraded(@)]
      BY <1>3 DEF LockLeaf
    <3>3. QED
      BY <1>3, <3>1, <3>2, UpgradedVersion DEF LockLeaf, goto, LockType, Steps
  <2>2. /\ TypeOK' /\ \A u \in Threads : u # t => SameLocals(u)
        /\ pc'[t] = "checkParent" /\ UNCHANGED <<node, parent>>
        /\ Allocated' = Allocated /\ UNCHANGED kind
    BY <1>1, <2>1, LockTypeFrame
  <2>3. isReadable(word[node[t]])
    BY <1>1, <1>3 DEF ThreadInv, VersionsBehind
  <2>4. \A n \in Nodes : Holds(t, n)' <=> Holds(t, n) \/ n = node[t]
    BY <1>1, <2>2 DEF Holds, HoldsNode, HoldsParent
  <2>5. ThreadInv(t)'
    BY <1>1, <2>2 DEF ThreadInv, PointersGood, VersionsBehind, FactsStand,
       hasParent
  <2>6. /\ LocksBalanced'
        /\ \A n \in Nodes : word'[n] >= word[n] /\ ~isObsolete(word'[n])
    BY <1>1, <2>1, <2>2, <2>3, <2>4, TakeLock
  <2>7. QED
    BY <2>1, <2>2, <2>5, <2>6, WordStep DEF LockType
<1>4. QED
  BY <1>2, <1>3

\* The parent of a full node is locked, or the insert restarts.
LEMMA LockParentStep ==
  ASSUME TreeInv, NEW t \in Threads, LockParent(t)
  PROVE  TreeInv'
<1>1. /\ TypeOK /\ ThreadInv(t) /\ pc[t] = "lockParent" /\ hasParent(t)
      /\ node[t] \in Nodes /\ op[t] = "insert"
  BY DEF TreeInv, LockParent, TypeOK, ThreadInv, PointersGood
<1>2. parent[t] \in Nodes
  BY <1>1 DEF TypeOK, hasParent
<1>3. CASE word[parent[t]] # versionParent[t]
  <2>1. Moves(t, "loadRoot") /\ pc[t] \in Unlocked /\ "loadRoot" \in Resting
    BY <1>1, <1>3 DEF LockParent, goto, Moves, Unlocked, Resting, descent,
       shared, TypeOK
  <2>2. QED
    BY <2>1, MovesToRest
<1>4. CASE word[parent[t]] = versionParent[t]
  <2>1. /\ word' = [word EXCEPT ![parent[t]] = upgraded(@)]
        /\ LockType(t, "lockNode") /\ "lockNode" \in Steps
        /\ UNCHANGED versionNode
    <3>1. versionNode \in [Threads -> Nat] /\ versionParent \in [Threads -> Nat]
      BY <1>1 DEF TypeOK
    <3>2. versionParent' = [versionParent EXCEPT ![t] = upgraded(@)]
      BY <1>4 DEF LockParent
    <3>3. QED
      BY <1>4, <3>1, <3>2, UpgradedVersion DEF LockParent, goto, LockType, Steps
  <2>2. /\ TypeOK' /\ \A u \in Threads : u # t => SameLocals(u)
        /\ pc'[t] = "lockNode" /\ UNCHANGED <<node, parent>>
        /\ Allocated' = Allocated /\ UNCHANGED kind
        /\ \A n \in Nodes : isFull(n)' <=> isFull(n)
        /\ \A n \in Nodes : hasRoom(n)' <=> hasRoom(n)
    BY <1>2, <2>1, LockTypeFrame
  <2>3. isReadable(word[parent[t]])
    BY <1>1, <1>4 DEF ThreadInv, VersionsBehind
  <2>4. \A n \in Nodes : Holds(t, n)' <=> Holds(t, n) \/ n = parent[t]
    BY <1>1, <2>2 DEF Holds, HoldsNode, HoldsParent
  <2>5. /\ LocksBalanced'
        /\ \A n \in Nodes : word'[n] >= word[n] /\ ~isObsolete(word'[n])
    BY <1>2, <2>1, <2>2, <2>3, <2>4, TakeLock
  <2>6. PointersGood(t)'
    BY <1>1, <2>2 DEF ThreadInv, PointersGood, hasParent
  <2>7. /\ isReadable(versionNode[t]) /\ versionNode[t] <= word[node[t]]
        /\ word[node[t]] \in Nat /\ word'[node[t]] \in Nat
        /\ versionNode[t] \in Nat /\ word'[node[t]] >= word[node[t]]
    BY <1>1, <2>2, <2>5 DEF ThreadInv, VersionsBehind, TypeOK
  <2>8. VersionsBehind(t)'
    BY <2>1, <2>2, <2>7 DEF VersionsBehind
  <2>9. FactsStand(t)'
    BY <1>1, <1>2, <1>4, <2>1, <2>2, <2>7 DEF ThreadInv, FactsStand, hasParent
  <2>10. QED
    BY <2>1, <2>2, <2>5, <2>6, <2>8, <2>9, WordStep DEF LockType, ThreadInv
<1>5. QED
  BY <1>3, <1>4

\* The full node is locked, or the parent is released again.
LEMMA LockNodeStep ==
  ASSUME TreeInv, NEW t \in Threads, LockNode(t)
  PROVE  TreeInv'
<1>1. TypeOK /\ ThreadInv(t) /\ pc[t] = "lockNode" /\ node[t] \in Nodes
  BY DEF TreeInv, LockNode, TypeOK
<1>2. CASE word[node[t]] # versionNode[t]
  <2>1. PICK step \in {"unlockParent", "loadRoot"} :
          /\ Moves(t, step)
          /\ step = "unlockParent" <=> hasParent(t)
    BY <1>1, <1>2 DEF LockNode, goto, Moves, descent, shared, TypeOK
  <2>2. step \in Steps
    BY DEF Steps
  <2>3. /\ TypeOK' /\ pc'[t] = step /\ UNCHANGED <<shared, descent>>
        /\ \A u \in Threads : u # t => SameLocals(u)
    BY <2>1, <2>2, MovesType DEF Moves
  <2>4. ThreadInv(t)'
    BY <1>1, <2>1, <2>3 DEF ThreadInv, PointersGood, VersionsBehind,
       FactsStand, hasParent, Allocated, shared, descent
  <2>5. \A n \in Nodes : Holds(t, n)' <=> Holds(t, n)
    BY <1>1, <2>1, <2>3, SetsAssumption DEF Holds, HoldsNode, HoldsParent,
       hasParent, descent
  <2>6. QED
    BY <2>3, <2>4, <2>5, QuietStep
<1>3. CASE word[node[t]] = versionNode[t]
  <2>1. isReadable(word[node[t]]) /\ isFull(node[t])
    BY <1>1, <1>3 DEF ThreadInv, VersionsBehind, FactsStand
  <2>2. node[t] # parent[t]
    <3>1. ~isLocked(word[node[t]])
      BY <2>1 DEF isReadable
    <3>2. ~Holds(t, node[t])
      BY <1>1, <3>1 DEF TreeInv, LocksBalanced
    <3>3. QED
      BY <1>1, <3>2 DEF Holds, HoldsParent
  <2>3. PICK step \in {"unlockNode", "split"} :
          /\ word' = [word EXCEPT ![node[t]] = upgraded(@)]
          /\ LockType(t, step)
    <3>1. versionNode \in [Threads -> Nat] /\ versionParent \in [Threads -> Nat]
      BY <1>1 DEF TypeOK
    <3>2. versionNode' = [versionNode EXCEPT ![t] = upgraded(@)]
      BY <1>3 DEF LockNode
    <3>3. QED
      BY <1>3, <3>1, <3>2, UpgradedVersion DEF LockNode, goto, LockType
  <2>4. step \in Steps
    BY DEF Steps
  <2>5. /\ TypeOK' /\ \A u \in Threads : u # t => SameLocals(u)
        /\ pc'[t] = step /\ UNCHANGED <<node, parent>>
        /\ Allocated' = Allocated /\ UNCHANGED kind
        /\ \A n \in Nodes : isFull(n)' <=> isFull(n)
        /\ \A n \in Nodes : hasRoom(n)' <=> hasRoom(n)
    BY <1>1, <2>3, <2>4, LockTypeFrame
  <2>6. \A n \in Nodes : Holds(t, n)' <=> Holds(t, n) \/ n = node[t]
    BY <1>1, <2>5 DEF Holds, HoldsNode, HoldsParent
  <2>7. /\ LocksBalanced'
        /\ \A n \in Nodes : word'[n] >= word[n] /\ ~isObsolete(word'[n])
    BY <1>1, <2>1, <2>3, <2>5, <2>6, TakeLock
  <2>8. PointersGood(t)' /\ VersionsBehind(t)'
    BY <1>1, <2>2, <2>5 DEF ThreadInv, PointersGood, VersionsBehind, hasParent
  <2>9. hasParent(t) => parent[t] \in Nodes /\ hasRoom(parent[t])
    BY <1>1 DEF TypeOK, hasParent, ThreadInv, FactsStand
  <2>10. FactsStand(t)'
    BY <1>1, <2>1, <2>5, <2>9 DEF FactsStand, hasParent
  <2>11. QED
    BY <2>3, <2>5, <2>7, <2>8, <2>10, WordStep DEF LockType, ThreadInv
<1>4. QED
  BY <1>2, <1>3

\* The three places that release a lock.
LEMMA UnlockStep ==
  ASSUME TreeInv, NEW t \in Threads,
         UnlockLeaf(t) \/ UnlockNode(t) \/ UnlockParent(t)
  PROVE  TreeInv'
<1>1. TypeOK /\ ThreadInv(t) /\ node[t] \in Nodes
  BY DEF TreeInv, TypeOK
<1>2. PICK m \in Nodes, step \in {"loadRoot", "idle", "unlockParent"} :
        /\ word' = [word EXCEPT ![m] = writeUnlocked(@)]
        /\ LockType(t, step)
        /\ \/ /\ pc[t] \in {"abortLeaf", "commitLeaf"} /\ m = node[t]
              /\ step \in {"loadRoot", "idle"}
           \/ /\ pc[t] = "unlockNode" /\ m = node[t]
              /\ step = IF hasParent(t) THEN "unlockParent" ELSE "loadRoot"
           \/ /\ pc[t] = "unlockParent" /\ m = parent[t] /\ step = "loadRoot"
  <2>1. CASE UnlockLeaf(t)
    BY <1>1, <2>1 DEF UnlockLeaf, goto, LockType, descent, TypeOK
  <2>2. CASE UnlockNode(t)
    BY <1>1, <2>2 DEF UnlockNode, goto, LockType, descent, TypeOK
  <2>3. CASE UnlockParent(t)
    <3>1. parent[t] \in Nodes
      BY <1>1, <2>3 DEF UnlockParent, ThreadInv, PointersGood, hasParent,
         TypeOK
    <3>2. QED
      BY <1>1, <2>3, <3>1 DEF UnlockParent, goto, LockType, descent, TypeOK
  <2>4. QED
    BY <2>1, <2>2, <2>3
<1>3. step \in Steps /\ word' = [word EXCEPT ![m] = upgraded(@)]
  BY <1>2 DEF Steps, upgraded, writeUnlocked
<1>4. /\ TypeOK' /\ \A u \in Threads : u # t => SameLocals(u)
      /\ pc'[t] = step /\ UNCHANGED <<node, parent>>
      /\ Allocated' = Allocated /\ UNCHANGED kind
  BY <1>2, <1>3, LockTypeFrame
<1>5. Holds(t, m)
  BY <1>2 DEF Holds, HoldsNode, HoldsParent
<1>6. pc[t] = "unlockNode" => node[t] # parent[t]
  BY <1>1 DEF ThreadInv, PointersGood
<1>7. \A n \in Nodes : Holds(t, n)' <=> Holds(t, n) /\ n # m
  BY <1>2, <1>4, <1>6, SetsAssumption DEF Holds, HoldsNode, HoldsParent,
     hasParent
<1>8. ThreadInv(t)'
  BY <1>1, <1>2, <1>4 DEF ThreadInv, PointersGood, VersionsBehind, FactsStand,
     hasParent
<1>9. /\ LocksBalanced'
      /\ \A n \in Nodes : word'[n] >= word[n] /\ ~isObsolete(word'[n])
  BY <1>2, <1>4, <1>5, <1>7, ReleaseLock
<1>10. QED
  BY <1>2, <1>4, <1>8, <1>9, WordStep DEF LockType

-----------------------------------------------------------------------------
(* Steps that store into a node *)

\* A store into nodes that t holds or has just allocated.
LEMMA ContentStep ==
  ASSUME TreeInv, NEW t \in Threads, TypeOK', UNCHANGED word,
         NodesWellFormed', ThreadInv(t)',
         \A n \in Allocated :
           /\ kind'[n] = kind[n]
           /\ \/ keys'[n] = keys[n] /\ leafKeys'[n] = leafKeys[n]
              \/ Holds(t, n),
         \A u \in Threads : u # t => SameLocals(u),
         \A n \in Nodes : Holds(t, n)' <=> Holds(t, n)
  PROVE  TreeInv'
<1>1. \A u \in Threads, n \in Nodes : Holds(u, n)' <=> Holds(u, n)
  BY HoldsFrame
<1>2. LocksBalanced'
  BY <1>1 DEF TreeInv, LocksBalanced
<1>3. \A n \in Allocated : Holds(t, n) => isLocked(word[n])
  BY DEF TreeInv, LocksBalanced, Allocated
<1>4. Disciplined(t)
  <2>1. \A n \in Nodes : word[n] \in Nat /\ word'[n] = word[n]
    BY DEF TreeInv, TypeOK
  <2>2. \A n \in Nodes : word'[n] >= word[n]
    BY <2>1
  <2>3. QED
    BY <1>3, <2>2 DEF Disciplined
<1>5. QED
  BY <1>2, <1>4, StepRule

\* The key goes into a leaf that is locked.
LEMMA InsertLeafStep ==
  ASSUME TreeInv, NEW t \in Threads, InsertLeaf(t)
  PROVE  TreeInv'
<1>1. TypeOK /\ ThreadInv(t) /\ pc[t] = "insertLeaf" /\ node[t] \in Nodes
  BY DEF TreeInv, InsertLeaf, TypeOK
<1>2. leafKeys' \in [Nodes -> SUBSET Keys]
  <2>1. leafKeys[node[t]] \cup {key[t]} \in SUBSET Keys
    BY <1>1 DEF TypeOK
  <2>2. leafKeys' = [leafKeys EXCEPT ![node[t]] = leafKeys[node[t]] \cup {key[t]}]
    BY DEF InsertLeaf
  <2>3. QED
    BY <1>1, <2>1, <2>2 DEF TypeOK
<1>3. TypeOK'
  BY <1>1, <1>2 DEF InsertLeaf, goto, TypeOK, Steps, call, descent
<1>4. /\ \A u \in Threads : u # t => SameLocals(u)
      /\ pc'[t] = "commitLeaf" /\ UNCHANGED <<word, kind, keys, children, root,
                                             descent>>
  BY <1>1 DEF InsertLeaf, goto, TypeOK, SameLocals, call, descent
<1>5. NodesWellFormed'
  BY <1>4 DEF TreeInv, NodesWellFormed, Allocated, count
<1>6. ThreadInv(t)'
  BY <1>1, <1>4 DEF ThreadInv, PointersGood, VersionsBehind, FactsStand,
     hasParent, Allocated, descent
<1>7. \A n \in Nodes : Holds(t, n)' <=> Holds(t, n)
  BY <1>1, <1>4 DEF Holds, HoldsNode, HoldsParent, descent
<1>8. \A n \in Allocated :
        /\ kind'[n] = kind[n]
        /\ \/ keys'[n] = keys[n] /\ leafKeys'[n] = leafKeys[n]
           \/ Holds(t, n)
  <2>1. \A n \in Nodes : n # node[t] => leafKeys'[n] = leafKeys[n]
    BY <1>1 DEF InsertLeaf, TypeOK
  <2>2. Holds(t, node[t])
    BY <1>1 DEF Holds, HoldsNode
  <2>3. QED
    BY <1>4, <2>1, <2>2 DEF Allocated
<1>9. QED
  BY <1>3, <1>4, <1>5, <1>6, <1>7, <1>8, ContentStep

\* What a split does to the nodes, whichever kind it splits.
SplitsInto(t, new) ==
  /\ leafKeys' \in [Nodes -> SUBSET Keys]
  /\ keys' \in [Nodes -> Seq(Keys)]
  /\ children' \in [Nodes -> Seq(Allocated)]
  /\ sep' \in [Threads -> Keys]
  /\ \E k \in {"leaf", "inner"} : kind' = [kind EXCEPT ![new] = k]
  /\ \A n \in Nodes : n \notin {node[t], new} =>
       /\ leafKeys'[n] = leafKeys[n] /\ keys'[n] = keys[n]
       /\ children'[n] = children[n]
  /\ \A n \in {node[t], new} : kind'[n] = "inner" =>
       /\ Len(children'[n]) = Len(keys'[n]) + 1
       /\ Len(keys'[n]) <= InnerSlots - 1

\* BTreeLeaf::split keeps every key in one of two leaves.
LEMMA SplitLeafNodes ==
  ASSUME TreeInv, NEW t \in Threads, NEW new \in Nodes, new # node[t],
         SplitLeaf(t, new)
  PROVE  SplitsInto(t, new)
<1> DEFINE n == node[t]
           half == Cardinality(leafKeys[n]) \div 2
           low == {k \in leafKeys[n] :
                     Cardinality({j \in leafKeys[n] : j < k}) < half}
<1>1. /\ n \in Nodes /\ leafKeys \in [Nodes -> SUBSET Keys]
      /\ sep \in [Threads -> Keys] /\ keys \in [Nodes -> Seq(Keys)]
      /\ kind \in [Nodes -> {"free", "leaf", "inner"}]
      /\ \A m \in Nodes : children[m] \in Seq(Allocated)
      /\ children \in [Nodes -> Seq(Nodes)]
  BY DEF TreeInv, TypeOK, NodesWellFormed
<1>2. low \in SUBSET Keys /\ leafKeys[n] \ low \in SUBSET Keys
  BY <1>1
<1>3. /\ kind[n] = "leaf"
      /\ leafKeys' = [leafKeys EXCEPT ![n] = low, ![new] = leafKeys[n] \ low]
      /\ kind' = [kind EXCEPT ![new] = "leaf"]
      /\ \E m \in low : sep' = [sep EXCEPT ![t] = m]
      /\ UNCHANGED <<keys, children>>
  BY DEF SplitLeaf
<1> HIDE DEF low
<1>4. /\ leafKeys' \in [Nodes -> SUBSET Keys]
      /\ \A m \in Nodes : m \notin {n, new} => leafKeys'[m] = leafKeys[m]
  BY <1>1, <1>2, <1>3
<1>5. sep' \in [Threads -> Keys]
  BY <1>1, <1>2, <1>3
<1>6. children' \in [Nodes -> Seq(Allocated)]
  BY <1>1, <1>3
<1>7. \A m \in {n, new} : kind'[m] = "leaf"
  BY <1>1, <1>3
<1>8. QED
  BY <1>1, <1>3, <1>4, <1>5, <1>6, <1>7 DEF SplitsInto

\* BTreeInner::split leaves two inner nodes with one child more than keys.
LEMMA SplitInnerNodes ==
  ASSUME TreeInv, NEW t \in Threads, NEW new \in Nodes, new # node[t],
         isFull(node[t]), SplitInner(t, new)
  PROVE  SplitsInto(t, new)
<1> DEFINE n == node[t]
           c == Len(keys[n])
           left == c - (c - c \div 2) - 1
<1>1. /\ n \in Nodes /\ leafKeys \in [Nodes -> SUBSET Keys]
      /\ sep \in [Threads -> Keys] /\ keys \in [Nodes -> Seq(Keys)]
      /\ kind \in [Nodes -> {"free", "leaf", "inner"}]
      /\ \A m \in Nodes : children[m] \in Seq(Allocated)
      /\ children \in [Nodes -> Seq(Nodes)]
  BY DEF TreeInv, TypeOK, NodesWellFormed
<1>2. kind[n] = "inner"
  BY DEF SplitInner
<1>3. c = InnerSlots - 1 /\ c \in Nat /\ Len(children[n]) = c + 1
  <2>1. c = InnerSlots - 1
    BY <1>2 DEF isFull, count
  <2>2. Len(children[n]) = c + 1
    BY <1>1, <1>2 DEF TreeInv, NodesWellFormed, count
  <2>3. QED
    BY <1>1, <2>1, <2>2
<1>4. left \in Nat /\ left + 2 <= c + 1 /\ left + 1 \in Nat /\ left + 2 \in Nat
  BY <1>3, SlotsAssumption
<1> DEFINE K1 == SubSeq(keys[n], 1, left)
           K2 == SubSeq(keys[n], left + 2, c)
           C1 == SubSeq(children[n], 1, left + 1)
           C2 == SubSeq(children[n], left + 2, c + 1)
<1>5. /\ keys' = [keys EXCEPT ![n] = K1, ![new] = K2]
      /\ children' = [children EXCEPT ![n] = C1, ![new] = C2]
      /\ kind' = [kind EXCEPT ![new] = "inner"]
      /\ sep' = [sep EXCEPT ![t] = keys[n][left + 1]]
      /\ UNCHANGED leafKeys
  BY DEF SplitInner, count
<1>6. keys[n] \in Seq(Keys) /\ children[n] \in Seq(Allocated)
  BY <1>1
<1> HIDE DEF left
<1>7. keys[n][left + 1] \in Keys
  BY <1>3, <1>4, <1>6
<1>8. K1 \in Seq(Keys) /\ Len(K1) = left
  BY <1>3, <1>4, <1>6, SubSeqType
<1>9. K2 \in Seq(Keys) /\ Len(K2) = c + 1 - (left + 2)
  BY <1>3, <1>4, <1>6, SubSeqType
<1>10. C1 \in Seq(Allocated) /\ Len(C1) = left + 1
  BY <1>3, <1>4, <1>6, SubSeqType
<1>11. C2 \in Seq(Allocated) /\ Len(C2) = c + 2 - (left + 2)
  BY <1>3, <1>4, <1>6, SubSeqType
<1> HIDE DEF K1, K2, C1, C2, c
<1>12. /\ keys' \in [Nodes -> Seq(Keys)]
       /\ keys'[n] = K1 /\ keys'[new] = K2
       /\ \A m \in Nodes : m \notin {n, new} => keys'[m] = keys[m]
  BY <1>1, <1>5, <1>8, <1>9
<1>13. /\ children' \in [Nodes -> Seq(Allocated)]
       /\ children'[n] = C1 /\ children'[new] = C2
       /\ \A m \in Nodes : m \notin {n, new} => children'[m] = children[m]
  BY <1>1, <1>5, <1>10, <1>11
<1>14. sep' \in [Threads -> Keys]
  BY <1>1, <1>5, <1>7
<1>15. \A m \in {n, new} : /\ Len(children'[m]) = Len(keys'[m]) + 1
                           /\ Len(keys'[m]) <= InnerSlots - 1
  <2>1. /\ Len(keys'[n]) = left /\ Len(children'[n]) = left + 1
        /\ left <= InnerSlots - 1
    BY <1>3, <1>4, <1>8, <1>10, <1>12, <1>13, SlotsAssumption
  <2>2. /\ Len(keys'[new]) = c + 1 - (left + 2)
        /\ Len(children'[new]) = c + 2 - (left + 2)
    BY <1>9, <1>11, <1>12, <1>13
  <2>3. /\ c + 2 - (left + 2) = (c + 1 - (left + 2)) + 1
        /\ c + 1 - (left + 2) <= InnerSlots - 1
    BY <1>3, <1>4, SlotsAssumption
  <2>4. QED
    BY <2>1, <2>2, <2>3
<1>16. leafKeys' \in [Nodes -> SUBSET Keys] /\ leafKeys' = leafKeys
  BY <1>1, <1>5
<1>17. \E k \in {"leaf", "inner"} : kind' = [kind EXCEPT ![new] = k]
  BY <1>5
<1>18. \A m \in Nodes : m \notin {n, new} =>
         /\ leafKeys'[m] = leafKeys[m] /\ keys'[m] = keys[m]
         /\ children'[m] = children[m]
  BY <1>12, <1>13, <1>16
<1>19. /\ keys' \in [Nodes -> Seq(Keys)]
       /\ children' \in [Nodes -> Seq(Allocated)]
  BY <1>12, <1>13
<1>20. QED
  BY <1>14, <1>15, <1>16, <1>17, <1>18, <1>19, Zenon DEF SplitsInto

\* The full node t holds is split; the parent keeps its room.
LEMMA SplitStep ==
  ASSUME TreeInv, NEW t \in Threads, Split(t)
  PROVE  TreeInv'
<1>1. /\ TypeOK /\ ThreadInv(t) /\ pc[t] = "split" /\ node[t] \in Nodes
      /\ node[t] \in Allocated /\ isFull(node[t])
  BY DEF TreeInv, Split, TypeOK, ThreadInv, PointersGood, FactsStand
<1>2. PICK new \in Nodes : /\ kind[new] = "free"
                           /\ SplitLeaf(t, new) \/ SplitInner(t, new)
                           /\ sibling' = [sibling EXCEPT ![t] = new]
  BY DEF Split, FreeNodes
<1>3. new # node[t] /\ new \notin Allocated
  BY <1>1, <1>2 DEF Allocated
<1>4. SplitsInto(t, new)
  BY <1>1, <1>2, <1>3, SplitLeafNodes, SplitInnerNodes
<1>5. PICK k \in {"leaf", "inner"} : kind' = [kind EXCEPT ![new] = k]
  BY <1>4 DEF SplitsInto
<1>6. /\ kind' \in [Nodes -> {"free", "leaf", "inner"}]
      /\ Allocated' = Allocated \cup {new}
      /\ \A n \in Nodes : n # new => kind'[n] = kind[n]
  BY <1>1, <1>5 DEF TypeOK, Allocated
<1>7. /\ pc' = [pc EXCEPT ![t] = "link"]
      /\ UNCHANGED <<root, word, call, descent, hit>>
  BY DEF Split, goto
<1>8. children' \in [Nodes -> Seq(Nodes)]
  <2>1. Allocated \subseteq Nodes
    BY DEF Allocated
  <2>2. Seq(Allocated) \subseteq Seq(Nodes)
    BY <2>1, SeqMonotone
  <2>3. QED
    BY <1>4, <2>2 DEF SplitsInto
<1>9. TypeOK'
  BY <1>1, <1>2, <1>4, <1>6, <1>7, <1>8 DEF TypeOK, SplitsInto, Steps, call,
     descent
<1>10. /\ \A u \in Threads : u # t => SameLocals(u)
       /\ pc'[t] = "link" /\ sibling'[t] = new
  BY <1>1, <1>2, <1>7 DEF TypeOK, SameLocals, call, descent
<1>11. NodesWellFormed'
  <2>1. root' \in Allocated'
    BY <1>6, <1>7 DEF TreeInv, NodesWellFormed
  <2>2. ASSUME NEW n \in Nodes PROVE children'[n] \in Seq(Allocated')
    <3>1. children'[n] \in Seq(Allocated) /\ Allocated \subseteq Allocated'
      BY <1>4, <1>6 DEF SplitsInto
    <3>2. QED
      BY <3>1, SeqMonotone
  <2>3. ASSUME NEW n \in Nodes, kind'[n] = "inner"
        PROVE  /\ Len(children'[n]) = Len(keys'[n]) + 1
               /\ Len(keys'[n]) <= InnerSlots - 1
    <3>1. CASE n \in {node[t], new}
      BY <1>4, <2>3, <3>1 DEF SplitsInto
    <3>2. CASE n \notin {node[t], new}
      BY <1>4, <1>6, <2>3, <3>2 DEF SplitsInto, TreeInv, NodesWellFormed, count
    <3>3. QED
      BY <3>1, <3>2
  <2>4. QED
    BY <1>7, <2>1, <2>2, <2>3 DEF TreeInv, NodesWellFormed, count
<1>12. hasParent(t) => /\ parent[t] \in Nodes /\ parent[t] \in Allocated
                       /\ parent[t] \notin {node[t], new}
                       /\ kind[parent[t]] = "inner" /\ hasRoom(parent[t])
  BY <1>1, <1>3 DEF TypeOK, ThreadInv, PointersGood, FactsStand, hasParent,
     Allocated
<1>13. node[t] # parent[t]
  BY <1>1 DEF ThreadInv, PointersGood
<1>14. PointersGood(t)' /\ VersionsBehind(t)'
  BY <1>1, <1>6, <1>7, <1>10, <1>12, <1>13 DEF PointersGood, VersionsBehind,
     hasParent, descent
<1>15. FactsStand(t)'
  BY <1>4, <1>7, <1>10, <1>12 DEF FactsStand, SplitsInto, hasParent, hasRoom,
     count, descent
<1>16. \A n \in Nodes : Holds(t, n)' <=> Holds(t, n)
  BY <1>1, <1>7, <1>10 DEF Holds, HoldsNode, HoldsParent, descent
<1>17. \A n \in Allocated :
         /\ kind'[n] = kind[n]
         /\ \/ keys'[n] = keys[n] /\ leafKeys'[n] = leafKeys[n]
            \/ Holds(t, n)
  <2>1. Holds(t, node[t])
    BY <1>1 DEF Holds, HoldsNode
  <2>2. QED
    BY <1>3, <1>4, <1>6, <2>1 DEF SplitsInto, Allocated
<1>18. QED
  BY <1>7, <1>9, <1>10, <1>11, <1>14, <1>15, <1>16, <1>17, ContentStep
     DEF ThreadInv

\* The upper half is linked: into the parent t holds, or below a new root.
LEMMA LinkStep ==
  ASSUME TreeInv, NEW t \in Threads, Link(t)
  PROVE  TreeInv'
<1>1. /\ TypeOK /\ ThreadInv(t) /\ pc[t] = "link" /\ node[t] \in Nodes
      /\ node[t] \in Allocated /\ sibling[t] \in Allocated
      /\ node[t] # parent[t] /\ sep[t] \in Keys
      /\ hasParent(t) => kind[parent[t]] = "inner"
  BY DEF TreeInv, Link, TypeOK, ThreadInv, PointersGood
<1>2. /\ pc' = [pc EXCEPT ![t] = "unlockNode"]
      /\ UNCHANGED <<word, leafKeys, call, descent, sep, sibling, hit>>
  BY DEF Link, goto
<1>3. /\ \A u \in Threads : u # t => SameLocals(u)
      /\ pc'[t] = "unlockNode"
  BY <1>1, <1>2 DEF TypeOK, SameLocals, call, descent
<1>4. \A n \in Nodes : Holds(t, n)' <=> Holds(t, n)
  BY <1>1, <1>2, <1>3 DEF Holds, HoldsNode, HoldsParent, descent
<1>5. /\ keys \in [Nodes -> Seq(Keys)] /\ children \in [Nodes -> Seq(Nodes)]
      /\ kind \in [Nodes -> {"free", "leaf", "inner"}]
      /\ \A n \in Nodes : /\ children[n] \in Seq(Allocated)
                          /\ kind[n] = "inner" =>
                               /\ Len(children[n]) = Len(keys[n]) + 1
                               /\ Len(keys[n]) <= InnerSlots - 1
      /\ Allocated \subseteq Nodes
  BY DEF TreeInv, TypeOK, NodesWellFormed, count, Allocated
<1>6. ASSUME NEW at \in Nodes, NEW K \in Seq(Keys), NEW C \in Seq(Allocated),
             Len(C) = Len(K) + 1, Len(K) <= InnerSlots - 1,
             keys' = [keys EXCEPT ![at] = K],
             children' = [children EXCEPT ![at] = C],
             kind' = [kind EXCEPT ![at] = "inner"],
             at \in Allocated => kind[at] = "inner" /\ Holds(t, at),
             root' \in {root, at}
      PROVE  TreeInv'
  <2>1. /\ kind' \in [Nodes -> {"free", "leaf", "inner"}]
        /\ Allocated' = Allocated \cup {at}
        /\ \A n \in Allocated : kind'[n] = kind[n]
        /\ kind'[at] = "inner"
        /\ \A n \in Nodes : n # at => kind'[n] = kind[n]
    BY <1>5, <1>6 DEF Allocated
  <2>2. Seq(Allocated) \subseteq Seq(Nodes) /\ Seq(Allocated) \subseteq Seq(Allocated')
    BY <1>5, <2>1, SeqMonotone
  <2>3. /\ keys' \in [Nodes -> Seq(Keys)] /\ children' \in [Nodes -> Seq(Nodes)]
        /\ keys'[at] = K /\ children'[at] = C
        /\ \A n \in Nodes : n # at =>
             keys'[n] = keys[n] /\ children'[n] = children[n]
    BY <1>5, <1>6, <2>2
  <2>4. root \in Allocated /\ root' \in Allocated' /\ root' \in Nodes
    BY <1>5, <1>6, <2>1 DEF TreeInv, NodesWellFormed
  <2>5. TypeOK'
    BY <1>1, <1>2, <2>1, <2>3, <2>4 DEF TypeOK, Steps, call, descent
  <2>6. NodesWellFormed'
    <3>1. \A n \in Nodes : children'[n] \in Seq(Allocated')
      BY <1>5, <1>6, <2>2, <2>3
    <3>2. \A n \in Nodes : kind'[n] = "inner" =>
            /\ Len(children'[n]) = Len(keys'[n]) + 1
            /\ Len(keys'[n]) <= InnerSlots - 1
      BY <1>5, <1>6, <2>1, <2>3
    <3>3. \A n \in Nodes : ~isObsolete(word'[n])
      BY <1>2 DEF TreeInv, NodesWellFormed
    <3>4. QED
      BY <2>4, <3>1, <3>2, <3>3 DEF NodesWellFormed, count
  <2>7. hasParent(t) => kind'[parent[t]] = "inner"
    <3>1. hasParent(t) => parent[t] \in Allocated
      BY <1>1 DEF TypeOK, hasParent, Allocated
    <3>2. QED
      BY <1>1, <2>1, <3>1
  <2>8. ThreadInv(t)'
    BY <1>1, <1>2, <1>3, <2>1, <2>7 DEF ThreadInv, PointersGood,
       VersionsBehind, FactsStand, hasParent, descent
  <2>9. \A n \in Allocated :
          /\ kind'[n] = kind[n]
          /\ \/ keys'[n] = keys[n] /\ leafKeys'[n] = leafKeys[n]
             \/ Holds(t, n)
    BY <1>2, <1>5, <1>6, <2>1, <2>3
  <2>10. QED
    BY <1>2, <1>3, <1>4, <2>5, <2>6, <2>8, <2>9, ContentStep
<1>7. CASE hasParent(t)
  <2> DEFINE p == parent[t]
             pos == lowerBound(p, sep[t])
             K == InsertAt(keys[p], pos, sep[t])
             C == InsertAt(children[p], pos + 1, sibling[t])
  <2>1. /\ p \in Nodes /\ kind[p] = "inner" /\ Len(keys[p]) < InnerSlots - 1
        /\ Holds(t, p)
    BY <1>1, <1>7 DEF TypeOK, hasParent, ThreadInv, FactsStand, hasRoom, count,
       Holds, HoldsParent
  <2>2. /\ keys' = [keys EXCEPT ![p] = K] /\ children' = [children EXCEPT ![p] = C]
        /\ UNCHANGED <<root, kind>>
    BY <1>7 DEF Link, InsertInner
  <2>3. /\ keys[p] \in Seq(Keys) /\ children[p] \in Seq(Allocated)
        /\ Len(children[p]) = Len(keys[p]) + 1 /\ Len(keys[p]) \in Nat
    <3> HIDE DEF p
    <3>1. keys[p] \in Seq(Keys)
      BY <1>5, <2>1
    <3>2. QED
      BY <1>5, <2>1, <3>1
  <2>4. pos \in 1 .. Len(keys[p]) + 1
    BY <2>1, <2>3, LowerBoundRange
  <2> HIDE DEF pos
  <2>5. pos + 1 \in 1 .. Len(children[p]) + 1
    BY <2>3, <2>4
  <2>6. K \in Seq(Keys) /\ Len(K) = Len(keys[p]) + 1
    BY <1>1, <2>3, <2>4, InsertAtType
  <2>7. C \in Seq(Allocated) /\ Len(C) = Len(children[p]) + 1
    BY <1>1, <2>3, <2>5, InsertAtType
  <2>8. kind' = [kind EXCEPT ![p] = "inner"]
    BY <1>5, <2>1, <2>2
  <2> HIDE DEF K, C, p
  <2>9. Len(C) = Len(K) + 1 /\ Len(K) <= InnerSlots - 1
    BY <2>1, <2>3, <2>6, <2>7, SlotsAssumption
  <2>10. QED
    BY <1>6, <2>1, <2>2, <2>6, <2>7, <2>8, <2>9
<1>8. CASE ~hasParent(t)
  <2>1. PICK new \in Nodes :
          /\ kind[new] = "free"
          /\ keys' = [keys EXCEPT ![new] = <<sep[t]>>]
          /\ children' = [children EXCEPT ![new] = <<node[t], sibling[t]>>]
          /\ kind' = [kind EXCEPT ![new] = "inner"]
          /\ root' = new
    BY <1>8 DEF Link, makeRoot, FreeNodes
  <2> DEFINE K == <<sep[t]>>
             C == <<node[t], sibling[t]>>
  <2>2. /\ K \in Seq(Keys) /\ C \in Seq(Allocated)
        /\ Len(C) = Len(K) + 1 /\ Len(K) <= InnerSlots - 1
    BY <1>1, SlotsAssumption
  <2>3. new \notin Allocated
    BY <2>1 DEF Allocated
  <2> HIDE DEF K, C
  <2>4. /\ keys' = [keys EXCEPT ![new] = K]
        /\ children' = [children EXCEPT ![new] = C]
    BY <2>1 DEF K, C
  <2>5. QED
    BY <1>6, <2>1, <2>2, <2>3, <2>4
<1>9. QED
  BY <1>7, <1>8

-----------------------------------------------------------------------------
(* The theorems *)

\* The empty tree satisfies the invariant.
LEMMA TreeInvInit == Init => TreeInv
<1> SUFFICES ASSUME Init PROVE TreeInv
  OBVIOUS
<1> DEFINE r == CHOOSE n \in Nodes : TRUE
           k == CHOOSE j \in Keys : TRUE
<1>1. r \in Nodes /\ k \in Keys
  BY SetsAssumption
<1>2. /\ root = r /\ word = [n \in Nodes |-> InitialWord]
      /\ kind = [n \in Nodes |-> IF n = r THEN "leaf" ELSE "free"]
      /\ leafKeys = [n \in Nodes |-> {}]
      /\ keys = [n \in Nodes |-> <<>>] /\ children = [n \in Nodes |-> <<>>]
      /\ pc = [t \in Threads |-> "idle"] /\ op = [t \in Threads |-> "lookup"]
      /\ key = [t \in Threads |-> k] /\ node = [t \in Threads |-> r]
      /\ versionNode = [t \in Threads |-> 0]
      /\ parent = [t \in Threads |-> Null]
      /\ versionParent = [t \in Threads |-> 0]
      /\ sep = [t \in Threads |-> k] /\ sibling = [t \in Threads |-> r]
      /\ hit = [t \in Threads |-> FALSE] /\ present = [t \in Threads |-> FALSE]
  BY DEF Init
<1> HIDE DEF r, k
<1>3. TypeOK
  BY <1>1, <1>2 DEF TypeOK, Steps, InitialWord
<1>4. isReadable(InitialWord)
  BY DEF isReadable, isLocked, isObsolete, InitialWord
<1>5. NodesWellFormed
  BY <1>1, <1>2, <1>4 DEF NodesWellFormed, Allocated, isReadable
<1>6. LocksBalanced
  BY <1>2, <1>4 DEF LocksBalanced, Holds, HoldsNode, HoldsParent, isReadable
<1>7. \A t \in Threads : ThreadInv(t)
  BY <1>1, <1>2 DEF ThreadInv, PointersGood, VersionsBehind, FactsStand,
     hasParent, Allocated
<1>8. QED
  BY <1>3, <1>5, <1>6, <1>7 DEF TreeInv

\* A step that changes nothing keeps the invariant.
LEMMA TreeInvStutter == TreeInv /\ UNCHANGED vars => TreeInv'
<1> SUFFICES ASSUME TreeInv, UNCHANGED vars PROVE TreeInv'
  OBVIOUS
<1>1. UNCHANGED <<shared, call, descent, pc, sep, sibling, hit>>
  BY DEF vars
<1>2. TypeOK' /\ NodesWellFormed'
  BY <1>1 DEF TreeInv, TypeOK, NodesWellFormed, Allocated, count, shared, call,
     descent
<1>3. LocksBalanced'
  BY <1>1 DEF TreeInv, LocksBalanced, Holds, HoldsNode, HoldsParent, shared,
     descent
<1>4. \A t \in Threads : ThreadInv(t)'
  BY <1>1 DEF TreeInv, ThreadInv, PointersGood, VersionsBehind, FactsStand,
     hasParent, Allocated, isFull, hasRoom, count, shared, call, descent
<1>5. QED
  BY <1>2, <1>3, <1>4 DEF TreeInv

\* Every step of every thread keeps the invariant.
LEMMA TreeInvStep == TreeInv /\ [Next]_vars => TreeInv'
<1> SUFFICES ASSUME TreeInv, [Next]_vars PROVE TreeInv'
  OBVIOUS
<1>1. CASE UNCHANGED vars
  BY <1>1, TreeInvStutter
<1>2. CASE Next
  <2>1. PICK t \in Threads : Begin(t) \/ Run(t)
    BY <1>2 DEF Next
  <2>2. CASE Begin(t)
    BY <2>2, BeginStep
  <2>3. CASE LoadRoot(t) \/ LockRoot(t) \/ LockChild(t) \/ CheckRoot(t)
    BY <2>3, LoadRootStep, ReadLockStep, CheckRootStep
  <2>4. CASE VisitInner(t) \/ VisitLeaf(t) \/ Child(t)
    BY <2>4, VisitInnerStep, VisitLeafStep, ChildStep
  <2>5. CASE SearchLeaf(t) \/ ValidateParent(t) \/ ValidateNode(t) \/ Return(t)
    BY <2>5, LookupEnds
  <2>6. CASE LockLeaf(t) \/ CheckParent(t) \/ InsertLeaf(t)
    BY <2>6, LockLeafStep, CheckParentStep, InsertLeafStep
  <2>7. CASE LockParent(t) \/ LockNode(t) \/ Split(t) \/ Link(t)
    BY <2>7, LockParentStep, LockNodeStep, SplitStep, LinkStep
  <2>8. CASE UnlockLeaf(t) \/ UnlockNode(t) \/ UnlockParent(t)
    BY <2>8, UnlockStep
  <2>9. QED
    BY <2>1, <2>2, <2>3, <2>4, <2>5, <2>6, <2>7, <2>8 DEF Run
<1>3. QED
  BY <1>1, <1>2

\* What a thread of insert or lookup has read optimistically is true whenever
\* it acts on it, in every reachable state.
THEOREM OptimismJustified == Spec => []TreeInv
  BY TreeInvInit, TreeInvStep, PTL DEF Spec

\* The variables of insert and lookup keep their types: no step leaves a child
\* pointer or a local at anything but a node.
THEOREM TreeTypeCorrect == Spec => []TypeOK
<1>1. TreeInv => TypeOK
  BY DEF TreeInv
<1>2. QED
  BY <1>1, OptimismJustified, PTL

\* Every path through insert releases exactly the locks it took, and no two
\* threads are in a write section of the same node.
THEOREM NoLockLeaks == Spec => []LocksBalanced
<1>1. TreeInv => LocksBalanced
  BY DEF TreeInv
<1>2. QED
  BY <1>1, OptimismJustified, PTL

\* The assertion of BTreeInner::insert never fails: the parent a split is
\* linked into has room.
THEOREM ParentHasRoom == Spec => []RoomInParent
<1>1. TreeInv => RoomInParent
  BY DEF TreeInv, ThreadInv, FactsStand, RoomInParent, hasRoom
<1>2. QED
  BY <1>1, OptimismJustified, PTL

-----------------------------------------------------------------------------
(* Searching a node *)

\* The separators of a node and their number.
LEMMA SeparatorsAreNaturals ==
  ASSUME NEW n \in Nodes, keys[n] \in Seq(Keys)
  PROVE  /\ count(n) \in Nat
         /\ \A i \in 1 .. count(n) : keys[n][i] \in Keys /\ keys[n][i] \in Nat
<1>1. Len(keys[n]) \in Nat /\ \A i \in 1 .. Len(keys[n]) : keys[n][i] \in Keys
  OBVIOUS
<1>2. QED
  BY <1>1, SetsAssumption DEF count

\* At most one child lies around a key.
LEMMA BetweenOnce ==
  ASSUME NEW n \in Nodes, keys[n] \in Seq(Keys), Increasing(keys[n]),
         NEW k \in Keys,
         NEW i \in 1 .. count(n) + 1, NEW j \in 1 .. count(n) + 1,
         Between(n, i, k), Between(n, j, k)
  PROVE  i = j
<1>1. count(n) \in Nat /\ \A a \in 1 .. count(n) : keys[n][a] \in Nat
  BY SeparatorsAreNaturals
<1>2. \A a, b \in 1 .. count(n) : a <= b => keys[n][a] <= keys[n][b]
  BY <1>1 DEF Increasing, count
<1>3. k \in Nat
  BY SetsAssumption
<1>4. ASSUME NEW a \in 1 .. count(n) + 1, NEW b \in 1 .. count(n) + 1,
             Between(n, a, k), Between(n, b, k), a < b
      PROVE  FALSE
  <2>1. a \in 1 .. count(n) /\ b - 1 \in 1 .. count(n) /\ a <= b - 1 /\ b > 1
    BY <1>1, <1>4
  <2>2. k <= keys[n][a] /\ keys[n][b - 1] < k
    BY <1>4, <2>1 DEF Between
  <2>3. keys[n][a] <= keys[n][b - 1]
    BY <1>2, <2>1
  <2>4. keys[n][a] \in Nat /\ keys[n][b - 1] \in Nat
    BY <1>1, <2>1
  <2>5. QED
    BY <1>3, <2>2, <2>3, <2>4
<1>5. QED
  BY <1>1, <1>4

\* BTreeInner::lowerBound finds the child around the key.
LEMMA LowerBoundBetween ==
  ASSUME NEW n \in Nodes, keys[n] \in Seq(Keys), Increasing(keys[n]),
         NEW k \in Keys
  PROVE  /\ lowerBound(n, k) \in 1 .. count(n) + 1
         /\ Between(n, lowerBound(n, k), k)
         /\ \A i \in 1 .. count(n) + 1 :
              Between(n, i, k) => i = lowerBound(n, k)
<1> DEFINE S == {i \in 1 .. count(n) : keys[n][i] < k}
           m == Cardinality(S)
<1>1. count(n) \in Nat /\ \A a \in 1 .. count(n) : keys[n][a] \in Nat
  BY SeparatorsAreNaturals
<1>2. k \in Nat
  BY SetsAssumption
<1>3. ASSUME NEW i \in S, NEW j \in 1 .. i PROVE j \in S
  <2>1. i \in 1 .. count(n) /\ j \in 1 .. count(n) /\ j <= i
    BY <1>1
  <2>2. keys[n][j] <= keys[n][i]
    BY <1>1, <2>1 DEF Increasing, count
  <2>3. keys[n][i] < k /\ keys[n][j] \in Nat /\ keys[n][i] \in Nat
    BY <1>1, <2>1
  <2>4. keys[n][j] < k
    BY <1>2, <2>2, <2>3
  <2>5. QED
    BY <2>1, <2>4
<1>4. m \in 0 .. count(n) /\ S = 1 .. m
  <2>1. S \in SUBSET (1 .. count(n))
    OBVIOUS
  <2> HIDE DEF S
  <2>2. QED
    BY <1>1, <1>3, <2>1, InitialIndexes
<1>5. lowerBound(n, k) = m + 1
  BY DEF lowerBound
<1>6. \A i \in 1 .. count(n) : keys[n][i] < k <=> i <= m
  <2> TAKE i \in 1 .. count(n)
  <2>1. keys[n][i] < k <=> i \in S
    OBVIOUS
  <2> HIDE DEF S, m
  <2>2. i \in S <=> i <= m
    BY <1>4
  <2>3. QED
    BY <2>1, <2>2
<1> HIDE DEF m, S
<1>7. /\ m >= 1 => keys[n][m] < k
      /\ m + 1 <= count(n) => k <= keys[n][m + 1]
  <2>1. m >= 1 => keys[n][m] < k
    BY <1>1, <1>4, <1>6
  <2>2. ASSUME m + 1 <= count(n) PROVE k <= keys[n][m + 1]
    <3>1. m + 1 \in 1 .. count(n) /\ ~(m + 1 <= m)
      BY <1>1, <1>4, <2>2
    <3>2. ~(keys[n][m + 1] < k) /\ keys[n][m + 1] \in Nat
      BY <1>1, <1>6, <3>1
    <3>3. QED
      BY <1>2, <3>2
  <2>3. QED
    BY <2>1, <2>2
<1>8. Between(n, m + 1, k) /\ m + 1 \in 1 .. count(n) + 1
  BY <1>1, <1>4, <1>7 DEF Between
<1>9. QED
  BY <1>5, <1>8, BetweenOnce

-----------------------------------------------------------------------------
(* The steps of one thread as the others see them *)

\* All locals of u are left alone.
Untouched(u) ==
  /\ SameLocals(u)
  /\ key'[u] = key[u] /\ sep'[u] = sep[u]
  /\ hit'[u] = hit[u] /\ present'[u] = present[u]

\* What is in n, and what n is responsible for, is left alone.
SameNode(n, own, led, own2, led2) ==
  /\ keys'[n] = keys[n] /\ children'[n] = children[n]
  /\ leafKeys'[n] = leafKeys[n]
  /\ own2[n] = own[n] /\ led2[n] = led[n]

\* How a thread t may change shared nodes, and with them the functions own and
\* led to own2 and led2: only in its write sections, and only a new node
\* becomes pending.
Careful(t, own, led, own2, led2) ==
  /\ \A n \in Nodes : word'[n] >= word[n]
  /\ \A n \in Allocated :
       /\ kind'[n] = kind[n]
       /\ SameNode(n, own, led, own2, led2) \/ Holds(t, n)
  /\ root' = root \/ Holds(t, root)
  /\ Dict \subseteq Dict'
  /\ \A n \in Nodes : Pending(n)' => Pending(n) \/ n \notin Allocated

\* What a thread relies on is not disturbed by a careful step of another.
LEMMA OrderFrame ==
  ASSUME TreeInv, TreeInv', NEW t \in Threads, NEW u \in Threads, u # t,
         NEW own, NEW led, NEW own2, NEW led2,
         Careful(t, own, led, own2, led2), Untouched(u),
         Placed(t), Informed(u, own, led)
  PROVE  Informed(u, own2, led2)'
<1>1. /\ node[u] \in Allocated /\ node[u] \in Nodes /\ node'[u] = node[u]
      /\ hasParent(u) => /\ parent[u] \in Allocated /\ parent[u] \in Nodes
                         /\ kind[parent[u]] = "inner"
      /\ parent'[u] = parent[u] /\ (hasParent(u)' <=> hasParent(u))
      /\ pc'[u] = pc[u] /\ op'[u] = op[u] /\ key'[u] = key[u]
      /\ sep'[u] = sep[u] /\ sibling'[u] = sibling[u] /\ hit'[u] = hit[u]
      /\ present'[u] = present[u] /\ versionNode'[u] = versionNode[u]
      /\ versionParent'[u] = versionParent[u]
  BY DEF TreeInv, TypeOK, ThreadInv, PointersGood, hasParent, Allocated,
     Untouched, SameLocals
<1>2. \A n \in Nodes :
        word[n] \in Nat /\ word'[n] \in Nat /\ word'[n] >= word[n]
  BY DEF TreeInv, TypeOK, Careful
<1>3. ASSUME NEW n \in Allocated,
             Holds(u, n) \/ ~isLocked(word[n]) \/ Pending(n)
      PROVE  SameNode(n, own, led, own2, led2)
  <2>1. ~Holds(t, n)
    <3>1. n \in Nodes
      BY DEF Allocated
    <3>2. CASE Pending(n)
      BY <3>2 DEF Placed, Holds, HoldsNode, HoldsParent
    <3>3. CASE Holds(u, n) \/ ~isLocked(word[n])
      BY <3>1, <3>3 DEF TreeInv, LocksBalanced
    <3>4. QED
      BY <1>3, <3>2, <3>3
  <2>2. QED
    BY <2>1 DEF Careful
<1>4. ASSUME NEW n \in Allocated, NEW v \in Nat, isReadable(v),
             v <= word[n], word'[n] = v
      PROVE  word[n] = v /\ SameNode(n, own, led, own2, led2)
  <2>1. n \in Nodes
    BY DEF Allocated
  <2>2. word[n] = v
    BY <1>2, <1>4, <2>1
  <2>3. QED
    BY <1>3, <1>4, <2>2 DEF isReadable
<1>5. ASSUME NEW n \in Allocated, SameNode(n, own, led, own2, led2)
      PROVE  \A k : lowerBound(n, k)' = lowerBound(n, k)
  BY <1>5 DEF SameNode, lowerBound, count
<1>6. /\ Placed(u) /\ Behind(u) /\ OnCourse(u, own) /\ Answered(u)
      /\ Halved(u, own, led) /\ Remembered(u) /\ VersionsBehind(u)
  BY DEF Informed, TreeInv, ThreadInv
<1>7. versionNode[u] \in Nat /\ versionParent[u] \in Nat
  BY DEF TreeInv, TypeOK
<1>8. Placed(u)'
  <2>1. ~Pending(node[u])'
    BY <1>1, <1>6 DEF Careful, Placed
  <2>2. ~Pending(parent[u])'
    <3>1. CASE hasParent(u)
      BY <1>1, <1>6, <3>1 DEF Careful, Placed
    <3>2. CASE ~hasParent(u)
      BY <1>1, <3>2, SetsAssumption DEF hasParent, Pending, TreeInv, TypeOK
    <3>3. QED
      BY <3>1, <3>2
  <2>3. node[u] \in Leaves => node[u] \in Leaves'
    BY <1>1 DEF Careful, Leaves
  <2>4. pc[u] \in {"split", "link"} /\ ~hasParent(u) => node[u] = root'
    <3>1. pc[u] \in {"split", "link"} => ~Holds(t, node[u])
      BY <1>1 DEF TreeInv, LocksBalanced, Holds, HoldsNode
    <3>2. QED
      BY <1>6, <3>1 DEF Careful, Placed
  <2>5. QED
    BY <1>1, <1>6, <2>1, <2>2, <2>3, <2>4 DEF Placed
<1>9. Behind(u)'
  BY <1>1, <1>2, <1>6, <1>7 DEF Behind, Placed
<1>10. ASSUME hasParent(u), Leads(u, own),
              SameNode(parent[u], own, led, own2, led2)
       PROVE  Leads(u, own2)'
  BY <1>1, <1>5, <1>10 DEF Leads, SameNode
<1>11. OnCourse(u, own2)'
  <2>1. (pc[u] \in {"lockChild", "visit", "lockParent", "lockLeaf",
                    "checkParent", "validateParent"} /\ hasParent(u) =>
          (word[parent[u]] = versionParent[u] => Leads(u, own2)))'
    BY <1>1, <1>4, <1>6, <1>7, <1>10 DEF OnCourse, VersionsBehind, Behind
  <2>2. (pc[u] \in {"lockNode", "split", "link"} /\ hasParent(u)
          => Leads(u, own2))'
    BY <1>1, <1>3, <1>6, <1>10 DEF OnCourse, Holds, HoldsParent
  <2>3. (pc[u] \in {"visit", "lockLeaf"} /\ ~hasParent(u) =>
          (word[node[u]] = versionNode[u] => key[u] \in own2[node[u]]))'
    BY <1>1, <1>4, <1>6, <1>7 DEF OnCourse, VersionsBehind, SameNode
  <2>4. (pc[u] \in {"child", "validateNode"} =>
          (word[node[u]] = versionNode[u] => key[u] \in own2[node[u]]))'
    BY <1>1, <1>4, <1>6, <1>7 DEF OnCourse, VersionsBehind, Behind, SameNode
  <2>5. (pc[u] = "checkParent" /\ ~hasParent(u) => key[u] \in own2[node[u]])'
    BY <1>1, <1>3, <1>6 DEF OnCourse, SameNode, Holds, HoldsNode
  <2>6. (pc[u] = "insertLeaf" => key[u] \in own2[node[u]])'
    BY <1>1, <1>3, <1>6 DEF OnCourse, SameNode, Holds, HoldsNode
  <2>7. QED
    BY <2>1, <2>2, <2>3, <2>4, <2>5, <2>6 DEF OnCourse
<1>12. Answered(u)'
  BY <1>1, <1>4, <1>6, <1>7 DEF Answered, Behind, SameNode
<1>13. Halved(u, own2, led2)'
  <2> SUFFICES ASSUME pc[u] = "link" PROVE Halved(u, own2, led2)'
    BY <1>1 DEF Halved
  <2>1. Holds(u, node[u]) /\ sibling[u] \in Allocated /\ Pending(sibling[u])
    BY DEF Holds, HoldsNode, TreeInv, ThreadInv, PointersGood, Pending
  <2>2. /\ SameNode(node[u], own, led, own2, led2)
        /\ SameNode(sibling[u], own, led, own2, led2)
    BY <1>1, <1>3, <2>1
  <2>3. QED
    BY <1>1, <1>6, <2>2 DEF Halved, SameNode
<1>14. Remembered(u)'
  BY <1>1, <1>6 DEF Remembered, Careful
<1>15. QED
  BY <1>8, <1>9, <1>11, <1>12, <1>13, <1>14 DEF Informed

\* A step of t leaves the locals of the other threads alone.
LEMMA OthersUntouched ==
  ASSUME TypeOK, NEW t \in Threads, Begin(t) \/ Run(t),
         NEW u \in Threads, u # t
  PROVE  Untouched(u)
<1> USE DEF Untouched, SameLocals, goto, call, descent
<1>1. CASE Begin(t)
  <2>1. PICK k \in Keys : BeginInsert(t, k) \/ BeginLookup(t, k)
    BY <1>1 DEF Begin
  <2>2. CASE BeginInsert(t, k)
    BY <2>2 DEF BeginInsert, TypeOK
  <2>3. CASE BeginLookup(t, k)
    BY <2>3 DEF BeginLookup, TypeOK
  <2>4. QED
    BY <2>1, <2>2, <2>3
<1>2. CASE LoadRoot(t) \/ CheckRoot(t) \/ Child(t)
  BY <1>2 DEF LoadRoot, CheckRoot, Child, TypeOK
<1>3. CASE LockRoot(t) \/ LockChild(t)
  BY <1>3 DEF LockRoot, LockChild, readLockOrRestart, TypeOK
<1>4. CASE VisitInner(t) \/ VisitLeaf(t)
  <2>1. PICK s : pc' = [pc EXCEPT ![t] = s]
    BY <1>4 DEF VisitInner, VisitLeaf
  <2>2. QED
    BY <1>4, <2>1 DEF VisitInner, VisitLeaf, TypeOK
<1>5. CASE SearchLeaf(t)
  <2>1. PICK h : hit' = [hit EXCEPT ![t] = h]
    BY <1>5 DEF SearchLeaf
  <2>2. QED
    BY <1>5, <2>1 DEF SearchLeaf, TypeOK
<1>6. CASE ValidateParent(t) \/ ValidateNode(t) \/ Return(t)
  BY <1>6 DEF ValidateParent, ValidateNode, Return, TypeOK
<1>7. CASE LockLeaf(t) \/ CheckParent(t) \/ InsertLeaf(t) \/ UnlockLeaf(t)
  BY <1>7 DEF LockLeaf, CheckParent, InsertLeaf, UnlockLeaf, TypeOK
<1>8. CASE LockParent(t) \/ LockNode(t)
  BY <1>8 DEF LockParent, LockNode, TypeOK
<1>9. CASE Split(t)
  <2>1. PICK s, n : /\ sep' = [sep EXCEPT ![t] = s]
                    /\ sibling' = [sibling EXCEPT ![t] = n]
    BY <1>9 DEF Split, SplitLeaf, SplitInner
  <2>2. QED
    BY <1>9, <2>1 DEF Split, TypeOK
<1>10. CASE Link(t) \/ UnlockNode(t) \/ UnlockParent(t)
  BY <1>10 DEF Link, UnlockNode, UnlockParent, TypeOK
<1>11. QED
  BY <1>1, <1>2, <1>3, <1>4, <1>5, <1>6, <1>7, <1>8, <1>9, <1>10 DEF Run

\* Where a thread knows nothing of the tree that it will use.
Carefree == {"idle", "loadRoot", "lockRoot", "checkRoot", "return",
             "abortLeaf", "commitLeaf", "unlockNode", "unlockParent"}

\* There is nothing to keep up for a thread at such a step but its history.
LEMMA CarefreeInformed ==
  ASSUME NEW t \in Threads, pc'[t] \in Carefree, NEW own, NEW led,
         ~Pending(node[t])', ~Pending(parent[t])', Remembered(t)'
  PROVE  Informed(t, own, led)'
  BY DEF Carefree, Informed, Placed, Behind, OnCourse, Answered, Halved

\* A step that leaves what is in the nodes alone.
LEMMA QuietOrder ==
  ASSUME TreeInv, TreeInv', NEW t \in Threads, NEW own, NEW led,
         Ordered(own, led),
         UNCHANGED <<root, kind, leafKeys, keys, children>>,
         \A n \in Nodes : word'[n] >= word[n],
         \A u \in Threads : u # t => Untouched(u),
         pc[t] # "link", pc'[t] # "link",
         Informed(t, own, led)'
  PROVE  Ordered(own, led)'
<1>1. \A u \in Threads :
        /\ pc'[u] = "link" <=> pc[u] = "link"
        /\ pc[u] = "link" => node'[u] = node[u] /\ sibling'[u] = sibling[u]
  BY DEF Untouched, SameLocals
<1>2. \A n : Pending(n)' <=> Pending(n)
  BY <1>1 DEF Pending
<1>3. LinkedOnce'
  BY <1>1, <1>2 DEF Ordered, LinkedOnce, Inner, Children
<1>4. Parted(own, led)'
  BY <1>1 DEF Ordered, Parted, Inner, Leaves, Children, Between, count
<1>5. Careful(t, own, led, own, led)
  BY <1>2 DEF Careful, SameNode, Dict
<1>6. \A u \in Threads : u # t => Informed(u, own, led)'
  BY <1>5, OrderFrame DEF Ordered, Informed
<1>7. QED
  BY <1>3, <1>4, <1>6 DEF Ordered

-----------------------------------------------------------------------------
(* What the tree leads to *)

\* Unless a split of the node is not linked yet, the pointers to a node lead
\* its own keys to it.
LEMMA LedOwned ==
  ASSUME TreeInv, NEW own, NEW led, Parted(own, led), NEW n \in Nodes,
         \A u \in Threads : HoldsNode(u, n) => pc[u] # "link"
  PROVE  led[n] = own[n]
  BY DEF Parted, HoldsNode

\* A node that is not locked is not being split.
LEMMA UnlockedOwned ==
  ASSUME TreeInv, NEW own, NEW led, Parted(own, led), NEW n \in Nodes,
         isReadable(word[n])
  PROVE  led[n] = own[n]
<1>1. \A u \in Threads : ~Holds(u, n)
  BY DEF TreeInv, LocksBalanced, isReadable
<1>2. QED
  BY <1>1, LedOwned DEF Holds

\* The child that lowerBound finds is led to exactly the keys around it.
LEMMA ChildLed ==
  ASSUME TreeInv, NEW own, NEW led, Parted(own, led), NEW p \in Inner,
         NEW k \in Keys, k \in own[p]
  PROVE  /\ lowerBound(p, k) \in Children(p)
         /\ k \in led[children[p][lowerBound(p, k)]]
<1>1. /\ p \in Nodes /\ keys[p] \in Seq(Keys) /\ Increasing(keys[p])
      /\ Len(children[p]) = count(p) + 1
  BY DEF Inner, TreeInv, TypeOK, NodesWellFormed, Parted
<1>2. lowerBound(p, k) \in 1 .. count(p) + 1 /\ Between(p, lowerBound(p, k), k)
  BY <1>1, LowerBoundBetween
<1>3. lowerBound(p, k) \in Children(p)
  BY <1>1, <1>2 DEF Children
<1>4. QED
  BY <1>2, <1>3 DEF Parted

\* A thread whose parent leads it to its node is at the node that owns its key,
\* unless a split of that node is not linked yet.
LEMMA LedToOwner ==
  ASSUME TreeInv, NEW own, NEW led, Parted(own, led), NEW t \in Threads,
         hasParent(t), Leads(t, own),
         \A u \in Threads : HoldsNode(u, node[t]) => pc[u] # "link"
  PROVE  key[t] \in own[node[t]]
<1>1. parent[t] \in Inner /\ key[t] \in Keys /\ node[t] \in Nodes
  BY DEF TreeInv, TypeOK, ThreadInv, PointersGood, hasParent, Inner
<1>2. key[t] \in led[node[t]]
  BY <1>1, ChildLed DEF Leads
<1>3. QED
  BY <1>1, <1>2, LedOwned

-----------------------------------------------------------------------------
(* Steps that leave what is in the nodes alone *)

\* A step into a place where nothing is known: a call, a restart, a return, an
\* unlock.
LEMMA CarefreeStep ==
  ASSUME TreeInv, TreeInv', NEW t \in Threads, NEW own, NEW led,
         Ordered(own, led), Begin(t) \/ Run(t),
         UNCHANGED <<root, kind, leafKeys, keys, children>>,
         \A n \in Nodes : word'[n] >= word[n],
         pc[t] # "link", pc'[t] \in Carefree,
         ~Pending(node'[t]), ~Pending(parent'[t]),
         present'[t] => key'[t] \in Dict,
         LookupValidates /\ pc'[t] = "return" /\ present'[t] => hit'[t]
  PROVE  Ordered(own, led)'
<1>1. \A u \in Threads : u # t => Untouched(u)
  BY OthersUntouched DEF TreeInv
<1>2. \A n : Pending(n) <=> \E u \in Threads : pc'[u] = "link" /\ sibling'[u] = n
  BY <1>1 DEF Pending, Untouched, SameLocals, Carefree
<1>3. (~Pending(node[t]) /\ ~Pending(parent[t]))'
  BY <1>2 DEF Pending
<1>4. Remembered(t)'
  BY DEF Remembered, Dict
<1>5. Informed(t, own, led)'
  BY <1>3, <1>4, CarefreeInformed
<1>6. QED
  BY <1>1, <1>5, QuietOrder DEF Carefree

\* What every thread knows in an ordered tree, and how its words grow.
LEMMA Known ==
  ASSUME TreeInv, NEW own, NEW led, Ordered(own, led), NEW t \in Threads
  PROVE  /\ TypeOK /\ ThreadInv(t) /\ Parted(own, led) /\ LinkedOnce
         /\ Placed(t) /\ Behind(t) /\ OnCourse(t, own) /\ Answered(t)
         /\ Halved(t, own, led) /\ Remembered(t)
         /\ \A n \in Nodes : word[n] >= word[n]
<1>1. \A n \in Nodes : word[n] >= word[n]
  BY DEF TreeInv, TypeOK
<1>2. QED
  BY <1>1 DEF Ordered, Informed, TreeInv

\* A call: a lookup remembers whether its key is in the tree.
LEMMA BeginOrder ==
  ASSUME TreeInv, TreeInv', NEW t \in Threads, NEW own, NEW led,
         Ordered(own, led), Begin(t)
  PROVE  Ordered(own, led)'
<1>1. PICK k \in Keys : BeginInsert(t, k) \/ BeginLookup(t, k)
  BY DEF Begin
<1>2. /\ TypeOK /\ Placed(t) /\ \A n \in Nodes : word[n] >= word[n]
  BY Known
<1>3. /\ pc[t] = "idle" /\ pc'[t] = "loadRoot" /\ key'[t] = k
      /\ UNCHANGED <<shared, descent>>
      /\ present'[t] => k \in Dict
  BY <1>1, <1>2 DEF BeginInsert, BeginLookup, goto, TypeOK
<1>4. QED
  BY <1>2, <1>3, CarefreeStep DEF Carefree, shared, descent, Placed

\* The label restart: the descent begins again at the root.
LEMMA LoadRootOrder ==
  ASSUME TreeInv, TreeInv', NEW t \in Threads, NEW own, NEW led,
         Ordered(own, led), LoadRoot(t)
  PROVE  Ordered(own, led)'
<1>1. TypeOK /\ LinkedOnce /\ Remembered(t) /\ \A n \in Nodes : word[n] >= word[n]
  BY Known
<1>2. /\ pc[t] = "loadRoot" /\ pc'[t] = "lockRoot" /\ node'[t] = root
      /\ parent'[t] = Null /\ UNCHANGED <<shared, call>>
  BY <1>1 DEF LoadRoot, goto, TypeOK
<1>3. ~Pending(root) /\ ~Pending(Null)
  BY <1>1, SetsAssumption DEF LinkedOnce, Pending, TypeOK
<1>4. present'[t] => key'[t] \in Dict
  BY <1>1, <1>2 DEF Remembered, call
<1>5. QED
  BY <1>1, <1>2, <1>3, <1>4, CarefreeStep DEF Carefree, shared, Run

\* A step that only moves on to such a place.
LEMMA MovesCarefree ==
  ASSUME TreeInv, TreeInv', NEW t \in Threads, NEW own, NEW led,
         Ordered(own, led), Run(t), NEW step \in Carefree, Moves(t, step),
         pc[t] # "link",
         LookupValidates /\ step = "return" /\ present[t] => hit'[t]
  PROVE  Ordered(own, led)'
<1>1. /\ TypeOK /\ Placed(t) /\ Remembered(t)
      /\ \A n \in Nodes : word[n] >= word[n]
  BY Known
<1>2. pc'[t] = step /\ UNCHANGED <<shared, call, descent>>
  BY <1>1 DEF Moves, TypeOK
<1>3. present'[t] => key'[t] \in Dict
  BY <1>1, <1>2 DEF Remembered, call
<1>4. QED
  BY <1>1, <1>2, <1>3, CarefreeStep DEF shared, call, descent, Placed

\* The places that release a lock.
LEMMA UnlockOrder ==
  ASSUME TreeInv, TreeInv', NEW t \in Threads, NEW own, NEW led,
         Ordered(own, led),
         UnlockLeaf(t) \/ UnlockNode(t) \/ UnlockParent(t)
  PROVE  Ordered(own, led)'
<1>1. TypeOK /\ Placed(t) /\ Remembered(t)
  BY Known
<1>2. /\ pc[t] # "link" /\ pc'[t] \in Carefree \ {"return"} /\ Run(t)
      /\ UNCHANGED <<root, kind, leafKeys, keys, children, call, descent>>
      /\ \E m : word' = [word EXCEPT ![m] = writeUnlocked(@)]
  BY <1>1 DEF UnlockLeaf, UnlockNode, UnlockParent, goto, TypeOK, Carefree, Run,
     descent
<1>3. \A n \in Nodes : word'[n] >= word[n]
  BY <1>1, <1>2 DEF TypeOK, writeUnlocked
<1>4. present'[t] => key'[t] \in Dict
  BY <1>1, <1>2 DEF Remembered, call
<1>5. QED
  BY <1>1, <1>2, <1>3, <1>4, CarefreeStep DEF Placed, descent

\* A step that only moves on, or writes the answer of a lookup, to a place
\* where the thread relies on what it has read.
LEMMA MovesKnowing ==
  ASSUME TreeInv, TreeInv', NEW t \in Threads, NEW own, NEW led,
         Ordered(own, led), Run(t), pc[t] # "link", NEW step, Moves(t, step),
         step \in {"visit", "child", "lockParent", "lockNode", "lockLeaf",
                   "insertLeaf", "validateParent", "validateNode"},
         step \in {"lockLeaf", "insertLeaf"} =>
           node[t] \in Leaves /\ op[t] = "insert",
         step \in {"validateParent", "validateNode"} =>
           /\ node[t] \in Leaves /\ op[t] = "lookup"
           /\ isReadable(versionNode[t]) /\ versionNode[t] <= word[node[t]]
           /\ word[node[t]] = versionNode[t] =>
                (hit'[t] <=> key[t] \in leafKeys[node[t]]),
         step = "validateParent" => hasParent(t),
         step = "lockNode" => ~hasParent(t),
         step \in {"lockLeaf", "validateParent"} /\ hasParent(t) =>
           isReadable(versionParent[t]) /\ versionParent[t] <= word[parent[t]],
         step \in {"visit", "lockParent", "lockLeaf", "validateParent"} =>
           (hasParent(t) /\ word[parent[t]] = versionParent[t]
              => Leads(t, own)),
         step \in {"visit", "lockLeaf"} /\ ~hasParent(t) =>
           (word[node[t]] = versionNode[t] => key[t] \in own[node[t]]),
         step \in {"child", "validateNode"} =>
           (word[node[t]] = versionNode[t] => key[t] \in own[node[t]]),
         step = "insertLeaf" => key[t] \in own[node[t]]
  PROVE  Ordered(own, led)'
<1>1. /\ TypeOK /\ Placed(t) /\ Remembered(t)
      /\ \A n \in Nodes : word[n] >= word[n]
  BY Known
<1>2. /\ pc'[t] = step /\ pc' = [pc EXCEPT ![t] = step]
      /\ UNCHANGED <<shared, call, descent, sep, sibling>>
  BY <1>1 DEF Moves, TypeOK
<1>3. \A u \in Threads : u # t => Untouched(u)
  BY OthersUntouched DEF TreeInv
<1>4. \A n : Pending(n)' <=> Pending(n)
  BY <1>2, <1>3 DEF Pending, Untouched, SameLocals
<1>5. /\ (hasParent(t)' <=> hasParent(t)) /\ (Leads(t, own)' <=> Leads(t, own))
      /\ (node[t] \in Leaves)' <=> node[t] \in Leaves
      /\ Dict' = Dict
  BY <1>2 DEF hasParent, Leads, Leaves, lowerBound, count, Dict, shared, call,
     descent
<1>6. Placed(t)'
  <2>1. (~Pending(node[t]) /\ ~Pending(parent[t]))'
    BY <1>1, <1>2, <1>4 DEF Placed, descent
  <2>2. QED
    BY <1>2, <1>5, <2>1 DEF Placed, call, descent, shared
<1>7. Behind(t)'
  BY <1>2, <1>5 DEF Behind, descent, shared
<1>8. OnCourse(t, own)'
  BY <1>2, <1>5 DEF OnCourse, descent, shared, call
<1>9. Answered(t)' /\ Halved(t, own, led)' /\ Remembered(t)'
  BY <1>1, <1>2, <1>5 DEF Answered, Halved, Remembered, descent, shared, call
<1>10. Informed(t, own, led)'
  BY <1>6, <1>7, <1>8, <1>9 DEF Informed
<1>11. QED
  BY <1>1, <1>2, <1>3, <1>10, QuietOrder DEF shared

\* A thread goes on only from a node that still was the root: it leads there
\* every key.
LEMMA CheckRootOrder ==
  ASSUME TreeInv, TreeInv', NEW t \in Threads, NEW own, NEW led,
         Ordered(own, led), CheckRoot(t)
  PROVE  Ordered(own, led)'
<1>1. TypeOK /\ ThreadInv(t) /\ Parted(own, led)
  BY Known
<1>2. /\ Run(t) /\ pc[t] = "checkRoot" /\ ~hasParent(t) /\ hit' = hit
      /\ isReadable(versionNode[t]) /\ node[t] \in Nodes /\ key[t] \in Keys
      /\ Moves(t, IF node[t] = root THEN "visit" ELSE "loadRoot")
  BY <1>1 DEF Run, CheckRoot, ThreadInv, PointersGood, VersionsBehind, Moves,
     goto, TypeOK
<1>3. CASE node[t] # root
  BY <1>2, <1>3, MovesCarefree DEF Carefree
<1>4. CASE node[t] = root
  <2>1. word[node[t]] = versionNode[t] => key[t] \in own[node[t]]
    BY <1>1, <1>2, <1>4, UnlockedOwned DEF Parted
  <2>2. Moves(t, "visit")
    BY <1>2, <1>4
  <2>3. QED
    BY <1>2, <2>1, <2>2, MovesKnowing
<1>5. QED
  BY <1>3, <1>4

\* At a node whose word still is the version loaded, with the parent's word
\* unchanged, the thread's key is the node's own.
LEMMA VisitedOwner ==
  ASSUME TreeInv, NEW t \in Threads, NEW own, NEW led,
         Ordered(own, led), pc[t] = "visit", parentUnchanged(t),
         word[node[t]] = versionNode[t]
  PROVE  key[t] \in own[node[t]]
<1>1. /\ TypeOK /\ ThreadInv(t) /\ Parted(own, led) /\ OnCourse(t, own)
  BY Known
<1>2. CASE ~hasParent(t)
  BY <1>1, <1>2 DEF OnCourse
<1>3. CASE hasParent(t)
  <2>1. Leads(t, own)
    BY <1>1, <1>3 DEF OnCourse, parentUnchanged
  <2>2. ~isLocked(word[node[t]]) /\ node[t] \in Nodes
    BY <1>1 DEF TypeOK, ThreadInv, VersionsBehind, isReadable
  <2>3. \A u \in Threads : ~HoldsNode(u, node[t])
    BY <2>2 DEF TreeInv, LocksBalanced, Holds
  <2>4. QED
    BY <1>1, <1>3, <2>1, <2>3, LedToOwner
<1>4. QED
  BY <1>2, <1>3

\* An inner node: split it, leave it through a child, or restart.
LEMMA VisitInnerOrder ==
  ASSUME TreeInv, TreeInv', NEW t \in Threads, NEW own, NEW led,
         Ordered(own, led), VisitInner(t)
  PROVE  Ordered(own, led)'
<1>1. TypeOK /\ OnCourse(t, own)
  BY Known
<1>2. PICK full \in Observed(t, isFull(node[t])) :
        goto(t, CASE op[t] = "insert" /\ full ->
                      IF hasParent(t) THEN "lockParent" ELSE "lockNode"
                 [] OTHER ->
                      IF parentUnchanged(t) THEN "child" ELSE "loadRoot")
  BY DEF VisitInner
<1>3. /\ Run(t) /\ pc[t] = "visit" /\ full \in BOOLEAN /\ hit' = hit
      /\ hit \in [Threads -> BOOLEAN]
      /\ UNCHANGED <<shared, call, descent, sep, sibling, hit>>
  BY <1>1, FullObserved DEF Run, VisitInner, TypeOK
<1>4. PICK step \in {"lockParent", "lockNode", "child", "loadRoot"} :
        /\ Moves(t, step)
        /\ step = "lockParent" => hasParent(t)
        /\ step = "lockNode" => ~hasParent(t)
        /\ step = "child" => parentUnchanged(t)
  <2>1. CASE op[t] = "insert" /\ full = TRUE
    BY <1>2, <1>3, <2>1 DEF goto, Moves
  <2>2. CASE ~(op[t] = "insert" /\ full = TRUE)
    BY <1>2, <1>3, <2>2 DEF goto, Moves
  <2>3. QED
    BY <2>1, <2>2
<1>5. CASE step = "loadRoot"
  BY <1>3, <1>4, <1>5, MovesCarefree DEF Carefree
<1>6. CASE step # "loadRoot"
  <2>1. step = "child" /\ word[node[t]] = versionNode[t]
          => key[t] \in own[node[t]]
    BY <1>3, <1>4, VisitedOwner
  <2>2. step = "lockParent" =>
          (hasParent(t) /\ word[parent[t]] = versionParent[t]
             => Leads(t, own))
    BY <1>1, <1>3 DEF OnCourse
  <2>3. QED
    BY <1>3, <1>4, <1>6, <2>1, <2>2, MovesKnowing
<1>7. QED
  BY <1>5, <1>6

\* A leaf: insert into it, or split it first.
LEMMA VisitLeafOrder ==
  ASSUME TreeInv, TreeInv', NEW t \in Threads, NEW own, NEW led,
         Ordered(own, led), VisitLeaf(t)
  PROVE  Ordered(own, led)'
<1>1. TypeOK /\ ThreadInv(t) /\ OnCourse(t, own)
  BY Known
<1>2. PICK full \in Observed(t, isFull(node[t])) :
        goto(t, CASE ~full -> "lockLeaf"
                  [] full /\ hasParent(t) -> "lockParent"
                  [] OTHER -> "lockNode")
  BY DEF VisitLeaf
<1>3. /\ Run(t) /\ pc[t] = "visit" /\ full \in BOOLEAN /\ hit' = hit
      /\ hit \in [Threads -> BOOLEAN] /\ op[t] = "insert"
      /\ node[t] \in Leaves
      /\ UNCHANGED <<shared, call, descent, sep, sibling, hit>>
  BY <1>1, FullObserved DEF Run, VisitLeaf, TypeOK, Leaves
<1>4. PICK step \in {"lockLeaf", "lockParent", "lockNode"} :
        /\ Moves(t, step)
        /\ step = "lockParent" => hasParent(t)
        /\ step = "lockNode" => ~hasParent(t)
  <2>1. CASE full = FALSE
    BY <1>2, <1>3, <2>1 DEF goto, Moves
  <2>2. CASE full = TRUE /\ hasParent(t)
    BY <1>2, <1>3, <2>2 DEF goto, Moves
  <2>3. CASE full = TRUE /\ ~hasParent(t)
    BY <1>2, <1>3, <2>3 DEF goto, Moves
  <2>4. QED
    BY <1>3, <2>1, <2>2, <2>3
<1>5. /\ hasParent(t) => /\ isReadable(versionParent[t])
                         /\ versionParent[t] <= word[parent[t]]
      /\ hasParent(t) /\ word[parent[t]] = versionParent[t] => Leads(t, own)
      /\ ~hasParent(t) /\ word[node[t]] = versionNode[t]
           => key[t] \in own[node[t]]
  BY <1>1, <1>3 DEF ThreadInv, VersionsBehind, OnCourse
<1>6. QED
  BY <1>3, <1>4, <1>5, MovesKnowing

\* A key that a leaf is responsible for is in the tree exactly if it is in the
\* leaf.
LEMMA LeafDecides ==
  ASSUME TreeInv, NEW own, NEW led, Parted(own, led), NEW n \in Leaves,
         NEW k \in own[n]
  PROVE  k \in Dict <=> k \in leafKeys[n]
<1>1. n \in Nodes
  BY DEF Leaves
<1>2. ASSUME k \in Dict PROVE k \in leafKeys[n]
  <2>1. PICK m \in Nodes : k \in leafKeys[m]
    BY <1>2 DEF Dict
  <2>2. m \in Leaves /\ k \in own[m]
    BY <2>1 DEF Parted
  <2>3. m = n
    BY <2>2 DEF Parted
  <2>4. QED
    BY <2>1, <2>3
<1>3. QED
  BY <1>1, <1>2 DEF Dict

\* When the last comparison of a lookup succeeds, its answer is true.
LEMMA AnswerTrue ==
  ASSUME TreeInv, NEW t \in Threads, NEW own, NEW led,
         Ordered(own, led), pc[t] = "validateNode",
         word[node[t]] = versionNode[t]
  PROVE  hit[t] <=> key[t] \in Dict
<1>1. /\ node[t] \in Leaves /\ key[t] \in own[node[t]] /\ Parted(own, led)
      /\ hit[t] <=> key[t] \in leafKeys[node[t]]
  BY Known DEF Placed, OnCourse, Answered
<1>2. QED
  BY <1>1, LeafDecides

\* A lookup at a leaf: what it finds is true if the leaf's word is unchanged.
LEMMA SearchLeafOrder ==
  ASSUME TreeInv, TreeInv', NEW t \in Threads, NEW own, NEW led,
         Ordered(own, led), SearchLeaf(t)
  PROVE  Ordered(own, led)'
<1> DEFINE fact == key[t] \in leafKeys[node[t]]
<1>1. TypeOK /\ ThreadInv(t) /\ OnCourse(t, own)
  BY Known
<1>2. /\ Run(t) /\ pc[t] = "visit" /\ op[t] = "lookup" /\ node[t] \in Leaves
      /\ UNCHANGED <<shared, call, descent, sep, sibling>>
      /\ goto(t, CASE ~LookupValidates -> "return"
                   [] LookupValidates /\ hasParent(t) -> "validateParent"
                   [] OTHER -> "validateNode")
  BY <1>1 DEF Run, SearchLeaf, TypeOK, Leaves
<1>3. PICK found \in Observed(t, fact) : hit' = [hit EXCEPT ![t] = found]
  BY DEF SearchLeaf
<1>4. word[node[t]] = versionNode[t] => ~MayTear(node[t], versionNode[t])
  BY <1>2, NoTear
<1>5. /\ hit' \in [Threads -> BOOLEAN]
      /\ word[node[t]] = versionNode[t] => (hit'[t] <=> fact)
  <2>1. fact \in BOOLEAN /\ hit \in [Threads -> BOOLEAN]
    BY <1>1 DEF TypeOK
  <2> HIDE DEF fact
  <2>2. /\ found \in BOOLEAN
        /\ word[node[t]] = versionNode[t] => found = fact
    BY <1>3, <1>4, <2>1 DEF Observed
  <2>3. QED
    BY <1>3, <2>1, <2>2
<1>6. CASE LookupValidates = FALSE
  <2>1. Moves(t, "return") /\ ~LookupValidates
    BY <1>2, <1>5, <1>6 DEF goto, Moves
  <2>2. QED
    BY <1>2, <2>1, MovesCarefree DEF Carefree
<1>7. CASE LookupValidates = TRUE
  <2>1. PICK step \in {"validateParent", "validateNode"} :
          /\ Moves(t, step)
          /\ step = "validateParent" <=> hasParent(t)
    <3>1. CASE hasParent(t)
      BY <1>2, <1>5, <1>7, <3>1 DEF goto, Moves
    <3>2. CASE ~hasParent(t)
      BY <1>2, <1>5, <1>7, <3>2 DEF goto, Moves
    <3>3. QED
      BY <3>1, <3>2
  <2>2. /\ isReadable(versionNode[t]) /\ versionNode[t] <= word[node[t]]
        /\ hasParent(t) => /\ isReadable(versionParent[t])
                           /\ versionParent[t] <= word[parent[t]]
        /\ hasParent(t) /\ word[parent[t]] = versionParent[t] => Leads(t, own)
        /\ ~hasParent(t) /\ word[node[t]] = versionNode[t]
             => key[t] \in own[node[t]]
    BY <1>1, <1>2 DEF ThreadInv, VersionsBehind, OnCourse
  <2> HIDE DEF fact
  <2>3. word[node[t]] = versionNode[t]
          => (hit'[t] <=> key[t] \in leafKeys[node[t]])
    BY <1>5 DEF fact
  <2>4. QED
    BY <1>2, <2>1, <2>2, <2>3, MovesKnowing
<1>8. QED
  BY <1>6, <1>7, SetsAssumption

\* The parent's word is unchanged: the leaf was the right one.
LEMMA ValidateParentOrder ==
  ASSUME TreeInv, TreeInv', NEW t \in Threads, NEW own, NEW led,
         Ordered(own, led), ValidateParent(t)
  PROVE  Ordered(own, led)'
<1>1. /\ TypeOK /\ Parted(own, led) /\ Placed(t) /\ OnCourse(t, own)
      /\ Answered(t) /\ Behind(t)
  BY Known
<1>2. /\ Run(t) /\ pc[t] = "validateParent" /\ hit' = hit
      /\ hit \in [Threads -> BOOLEAN]
      /\ Moves(t, IF parentUnchanged(t) THEN "validateNode" ELSE "loadRoot")
  BY <1>1 DEF Run, ValidateParent, TypeOK, Moves, goto
<1>3. CASE ~parentUnchanged(t)
  BY <1>2, <1>3, MovesCarefree DEF Carefree
<1>4. CASE parentUnchanged(t)
  <2>1. hasParent(t) /\ Leads(t, own)
    BY <1>1, <1>2, <1>4 DEF Placed, OnCourse, parentUnchanged
  <2>2. ASSUME word[node[t]] = versionNode[t] PROVE key[t] \in own[node[t]]
    <3>1. ~isLocked(word[node[t]]) /\ node[t] \in Nodes
      BY <1>1, <1>2, <2>2 DEF TypeOK, Behind, isReadable
    <3>2. \A u \in Threads : ~HoldsNode(u, node[t])
      BY <3>1 DEF TreeInv, LocksBalanced, Holds
    <3>3. QED
      BY <1>1, <2>1, <3>2, LedToOwner
  <2>3. Moves(t, "validateNode")
    BY <1>2, <1>4
  <2>4. QED
    BY <1>1, <1>2, <2>2, <2>3, MovesKnowing DEF Placed, Behind, Answered
<1>5. QED
  BY <1>3, <1>4

\* The last comparison of a lookup, and its return.
LEMMA ReturnOrder ==
  ASSUME TreeInv, TreeInv', NEW t \in Threads, NEW own, NEW led,
         Ordered(own, led), ValidateNode(t) \/ Return(t)
  PROVE  Ordered(own, led)'
<1>1. TypeOK /\ Remembered(t)
  BY Known
<1>2. CASE ValidateNode(t)
  <2>1. PICK step \in {"return", "loadRoot"} :
          Moves(t, step) /\ (step = "return" => word[node[t]] = versionNode[t])
    BY <1>1, <1>2 DEF ValidateNode, TypeOK, Moves, goto
  <2>2. Run(t) /\ pc[t] = "validateNode" /\ hit' = hit
    BY <1>2 DEF Run, ValidateNode
  <2>3. step = "return" /\ present[t] => hit'[t]
    BY <1>1, <2>1, <2>2, AnswerTrue DEF Remembered
  <2>4. QED
    BY <2>1, <2>2, <2>3, MovesCarefree DEF Carefree
<1>3. CASE Return(t)
  <2>1. Run(t) /\ pc[t] = "return" /\ Moves(t, "idle")
    BY <1>1, <1>3 DEF Run, Return, TypeOK, Moves, goto
  <2>2. QED
    BY <2>1, MovesCarefree DEF Carefree
<1>4. QED
  BY <1>2, <1>3

\* With the leaf locked, the insert goes on if the parent's word is unchanged.
LEMMA CheckParentOrder ==
  ASSUME TreeInv, TreeInv', NEW t \in Threads, NEW own, NEW led,
         Ordered(own, led), CheckParent(t)
  PROVE  Ordered(own, led)'
<1>1. TypeOK /\ Parted(own, led) /\ Placed(t) /\ OnCourse(t, own)
  BY Known
<1>2. /\ Run(t) /\ pc[t] = "checkParent" /\ node[t] \in Nodes
      /\ Moves(t, IF parentUnchanged(t) THEN "insertLeaf" ELSE "abortLeaf")
  BY <1>1 DEF Run, CheckParent, TypeOK, Moves, goto
<1>3. CASE ~parentUnchanged(t)
  BY <1>2, <1>3, MovesCarefree DEF Carefree
<1>4. CASE parentUnchanged(t)
  <2>1. key[t] \in own[node[t]]
    <3>1. CASE ~hasParent(t)
      BY <1>1, <1>2, <3>1 DEF OnCourse
    <3>2. CASE hasParent(t)
      <4>1. Leads(t, own)
        BY <1>1, <1>2, <1>4, <3>2 DEF OnCourse, parentUnchanged
      <4>2. HoldsNode(t, node[t])
        BY <1>2 DEF HoldsNode
      <4>3. \A u \in Threads : HoldsNode(u, node[t]) => u = t
        BY <1>2, <4>2 DEF TreeInv, LocksBalanced, Holds
      <4>4. \A u \in Threads : HoldsNode(u, node[t]) => pc[u] # "link"
        BY <1>2, <4>3
      <4>5. QED
        BY <1>1, <3>2, <4>1, <4>4, LedToOwner
    <3>3. QED
      BY <3>1, <3>2
  <2>2. Moves(t, "insertLeaf")
    BY <1>2, <1>4
  <2>3. QED
    BY <1>1, <1>2, <2>1, <2>2, MovesKnowing DEF Placed
<1>5. QED
  BY <1>3, <1>4

\* readLockOrRestart: the version loaded is readable and current.
LEMMA ReadLockOrder ==
  ASSUME TreeInv, TreeInv', NEW t \in Threads, NEW own, NEW led,
         Ordered(own, led), LockRoot(t) \/ LockChild(t)
  PROVE  Ordered(own, led)'
<1>1. /\ TypeOK /\ ThreadInv(t) /\ Parted(own, led) /\ Placed(t)
      /\ OnCourse(t, own) /\ Remembered(t)
      /\ \A n \in Nodes : word[n] >= word[n]
  BY Known
<1>2. PICK next \in {"checkRoot", "visit"} :
        /\ readLockOrRestart(t, next)
        /\ \/ pc[t] = "lockRoot" /\ next = "checkRoot"
           \/ pc[t] = "lockChild" /\ next = "visit" /\ hasParent(t)
  BY <1>1 DEF LockRoot, LockChild, Placed
<1>3. /\ Run(t) /\ pc[t] # "link"
      /\ UNCHANGED <<shared, call, node, parent, versionParent, sep, sibling,
                     hit>>
      /\ pc'[t] \in {next, "loadRoot"}
  BY <1>1, <1>2 DEF Run, readLockOrRestart, goto, TypeOK
<1>4. CASE pc'[t] # "visit"
  BY <1>1, <1>2, <1>3, <1>4, CarefreeStep DEF Carefree, shared, call, Placed,
     Remembered
<1>5. CASE pc'[t] = "visit"
  <2>1. \A u \in Threads : u # t => Untouched(u)
    BY <1>3, OthersUntouched DEF TreeInv
  <2>2. \A n : Pending(n)' <=> Pending(n)
    BY <1>3, <1>5, <2>1 DEF Pending, Untouched, SameLocals
  <2>3. /\ (hasParent(t)' <=> hasParent(t)) /\ hasParent(t)
        /\ (Leads(t, own)' <=> Leads(t, own)) /\ Dict' = Dict
    BY <1>2, <1>3, <1>5 DEF hasParent, Leads, lowerBound, count, Dict, shared,
       call
  <2>4. (~Pending(node[t]) /\ ~Pending(parent[t]))'
    BY <1>1, <1>3, <2>2 DEF Placed
  <2>5. Placed(t)' /\ Behind(t)' /\ Answered(t)' /\ Halved(t, own, led)'
    BY <1>5, <2>4 DEF Placed, Behind, Answered, Halved
  <2>6. OnCourse(t, own)' /\ Remembered(t)'
    BY <1>1, <1>2, <1>3, <1>5, <2>3 DEF OnCourse, Remembered, shared, call
  <2>7. Informed(t, own, led)'
    BY <2>5, <2>6 DEF Informed
  <2>8. QED
    BY <1>1, <1>3, <1>5, <2>1, <2>7, QuietOrder DEF shared
<1>6. QED
  BY <1>4, <1>5

\* The node becomes the parent and leads to the child for the key.
LEMMA ChildOrder ==
  ASSUME TreeInv, TreeInv', NEW t \in Threads, NEW own, NEW led,
         Ordered(own, led), Child(t)
  PROVE  Ordered(own, led)'
<1> DEFINE next == children[node[t]][lowerBound(node[t], key[t])]
<1>1. /\ TypeOK /\ ThreadInv(t) /\ Parted(own, led) /\ Placed(t) /\ LinkedOnce
      /\ OnCourse(t, own) /\ Remembered(t)
      /\ \A n \in Nodes : word[n] >= word[n]
  BY Known
<1>2. /\ Run(t) /\ pc[t] = "child" /\ node[t] \in Inner /\ node[t] \in Nodes
      /\ key[t] \in Keys
      /\ parent'[t] = node[t] /\ versionParent'[t] = versionNode[t]
      /\ UNCHANGED <<shared, call, versionNode, sep, sibling, hit>>
  BY <1>1 DEF Run, Child, TypeOK, ThreadInv, PointersGood, Inner
<1>3. CASE word[node[t]] # versionNode[t]
  <2>1. pc'[t] = "loadRoot" /\ node'[t] = node[t]
    BY <1>1, <1>3 DEF Child, goto, TypeOK
  <2>2. QED
    BY <1>1, <1>2, <2>1, CarefreeStep DEF Carefree, shared, call, Placed,
       Remembered
<1>4. CASE word[node[t]] = versionNode[t]
  <2>1. /\ pc'[t] = "lockChild" /\ node'[t] = next
        /\ key[t] \in own[node[t]]
    BY <1>1, <1>2, <1>4 DEF Child, goto, TypeOK, OnCourse
  <2>2. lowerBound(node[t], key[t]) \in Children(node[t])
    BY <1>1, <1>2, <2>1, ChildLed
  <2>3. ~Pending(next)
    BY <1>1, <1>2, <2>2 DEF LinkedOnce
  <2>4. \A u \in Threads : u # t => Untouched(u)
    BY <1>2, OthersUntouched DEF TreeInv
  <2>5. \A n : Pending(n)' <=> Pending(n)
    BY <1>2, <2>1, <2>4 DEF Pending, Untouched, SameLocals
  <2>6. (~Pending(node[t]) /\ ~Pending(parent[t]))'
    BY <1>1, <1>2, <2>1, <2>3, <2>5 DEF Placed
  <2>7. hasParent(t)'
    BY <1>2, SetsAssumption DEF hasParent
  <2>8. Leads(t, own)'
    <3>1. lowerBound(parent[t], key[t])' = lowerBound(node[t], key[t])
      BY <1>2 DEF lowerBound, count, shared, call
    <3>2. QED
      BY <1>2, <2>1, <3>1 DEF Leads, shared, call
  <2>9. Placed(t)' /\ Behind(t)' /\ Answered(t)' /\ Halved(t, own, led)'
    BY <2>1, <2>6, <2>7 DEF Placed, Behind, Answered, Halved
  <2>10. OnCourse(t, own)'
    BY <2>1, <2>8 DEF OnCourse
  <2>11. Remembered(t)'
    BY <1>1, <1>2, <2>1 DEF Remembered, Dict, shared, call
  <2>12. Informed(t, own, led)'
    BY <2>9, <2>10, <2>11 DEF Informed
  <2>13. QED
    BY <1>1, <1>2, <2>1, <2>4, <2>12, QuietOrder DEF shared
<1>5. QED
  BY <1>3, <1>4

\* Taking a lock: the words of the other nodes stay.
LEMMA LockWords ==
  ASSUME TypeOK, NEW m \in Nodes, word' = [word EXCEPT ![m] = upgraded(@)]
  PROVE  \A n \in Nodes : word'[n] >= word[n] /\ (n # m => word'[n] = word[n])
  BY DEF TypeOK, upgraded

\* Taking a lock, the thread goes on to a place that holds it.
LEMMA LockKnowing ==
  ASSUME TreeInv, TreeInv', NEW t \in Threads, NEW own, NEW led,
         Ordered(own, led), Run(t), pc[t] # "link",
         NEW m \in Nodes, word' = [word EXCEPT ![m] = upgraded(@)],
         UNCHANGED <<root, kind, leafKeys, keys, children, call, node, parent,
                     sep, sibling, hit>>,
         pc'[t] \in {"checkParent", "lockNode", "split"},
         pc'[t] = "checkParent" =>
           /\ m = node[t] /\ node[t] \in Leaves /\ op[t] = "insert"
           /\ versionParent' = versionParent
           /\ hasParent(t) => isReadable(versionParent[t])
                              /\ versionParent[t] <= word[parent[t]]
           /\ hasParent(t) /\ word[parent[t]] = versionParent[t]
                => Leads(t, own)
           /\ ~hasParent(t) => key[t] \in own[node[t]],
         pc'[t] = "split" /\ ~hasParent(t) => node[t] = root,
         pc'[t] \in {"lockNode", "split"} /\ hasParent(t) => Leads(t, own)
  PROVE  Ordered(own, led)'
<1>1. /\ TypeOK /\ TypeOK' /\ Placed(t) /\ Remembered(t)
  BY Known DEF TreeInv
<1>2. /\ \A n \in Nodes : word'[n] >= word[n]
      /\ \A n \in Nodes : n # m => word'[n] = word[n]
  BY <1>1, LockWords
<1>3. \A u \in Threads : u # t => Untouched(u)
  BY OthersUntouched, <1>1
<1>4. \A n : Pending(n)' <=> Pending(n)
  BY <1>3 DEF Pending, Untouched, SameLocals
<1>5. /\ (hasParent(t)' <=> hasParent(t)) /\ (Leads(t, own)' <=> Leads(t, own))
      /\ (node[t] \in Leaves)' <=> node[t] \in Leaves
      /\ Dict' = Dict
  BY DEF hasParent, Leads, Leaves, lowerBound, count, Dict, call
<1>6. (~Pending(node[t]) /\ ~Pending(parent[t]))'
  BY <1>1, <1>4 DEF Placed
<1>7. Placed(t)'
  BY <1>5, <1>6 DEF Placed, call
<1>8. /\ hasParent(t) => /\ word[parent[t]] \in Nat /\ word'[parent[t]] \in Nat
                         /\ word'[parent[t]] >= word[parent[t]]
      /\ versionParent[t] \in Nat
  BY <1>1, <1>2 DEF TypeOK, hasParent
<1>9. Behind(t)'
  BY <1>5, <1>8 DEF Behind
<1>10. ASSUME pc'[t] = "checkParent", hasParent(t),
              word'[parent[t]] = versionParent[t]
       PROVE  word[parent[t]] = versionParent[t]
  BY <1>8, <1>10
<1>11. OnCourse(t, own)'
  BY <1>5, <1>10 DEF OnCourse, call
<1>12. Answered(t)' /\ Halved(t, own, led)' /\ Remembered(t)'
  BY <1>1, <1>5 DEF Answered, Halved, Remembered, call
<1>13. Informed(t, own, led)'
  BY <1>7, <1>9, <1>11, <1>12 DEF Informed
<1>14. QED
  BY <1>2, <1>3, <1>13, QuietOrder

\* The leaf is locked for an insert, or the insert restarts.
LEMMA LockLeafOrder ==
  ASSUME TreeInv, TreeInv', NEW t \in Threads, NEW own, NEW led,
         Ordered(own, led), LockLeaf(t)
  PROVE  Ordered(own, led)'
<1>1. TypeOK /\ Placed(t) /\ Behind(t) /\ OnCourse(t, own)
  BY Known
<1>2. Run(t) /\ pc[t] = "lockLeaf" /\ node[t] \in Nodes
  BY <1>1 DEF Run, LockLeaf, TypeOK
<1>3. CASE word[node[t]] # versionNode[t]
  <2>1. Moves(t, "loadRoot")
    BY <1>1, <1>3 DEF LockLeaf, goto, Moves, descent, shared, TypeOK
  <2>2. QED
    BY <1>2, <2>1, MovesCarefree DEF Carefree
<1>4. CASE word[node[t]] = versionNode[t]
  <2>1. /\ word' = [word EXCEPT ![node[t]] = upgraded(@)]
        /\ pc'[t] = "checkParent"
        /\ UNCHANGED <<root, kind, leafKeys, keys, children, call, node, parent,
                       versionParent, sep, sibling, hit>>
    BY <1>1, <1>4 DEF LockLeaf, goto, TypeOK
  <2>2. /\ node[t] \in Leaves /\ op[t] = "insert"
        /\ hasParent(t) => isReadable(versionParent[t])
                           /\ versionParent[t] <= word[parent[t]]
        /\ hasParent(t) /\ word[parent[t]] = versionParent[t] => Leads(t, own)
        /\ ~hasParent(t) => key[t] \in own[node[t]]
    BY <1>1, <1>2, <1>4 DEF Placed, Behind, OnCourse
  <2>3. QED
    BY <1>2, <2>1, <2>2, LockKnowing
<1>5. QED
  BY <1>3, <1>4

\* The parent of a full node is locked, or the insert restarts.
LEMMA LockParentOrder ==
  ASSUME TreeInv, TreeInv', NEW t \in Threads, NEW own, NEW led,
         Ordered(own, led), LockParent(t)
  PROVE  Ordered(own, led)'
<1>1. TypeOK /\ ThreadInv(t) /\ OnCourse(t, own)
  BY Known
<1>2. /\ Run(t) /\ pc[t] = "lockParent" /\ hasParent(t) /\ parent[t] \in Nodes
  BY <1>1 DEF Run, LockParent, TypeOK, ThreadInv, PointersGood, hasParent
<1>3. CASE word[parent[t]] # versionParent[t]
  <2>1. Moves(t, "loadRoot")
    BY <1>1, <1>3 DEF LockParent, goto, Moves, descent, shared, TypeOK
  <2>2. QED
    BY <1>2, <2>1, MovesCarefree DEF Carefree
<1>4. CASE word[parent[t]] = versionParent[t]
  <2>1. /\ word' = [word EXCEPT ![parent[t]] = upgraded(@)]
        /\ pc'[t] = "lockNode"
        /\ UNCHANGED <<root, kind, leafKeys, keys, children, call, node, parent,
                       sep, sibling, hit>>
    BY <1>1, <1>4 DEF LockParent, goto, TypeOK
  <2>2. Leads(t, own)
    BY <1>1, <1>2, <1>4 DEF OnCourse
  <2>3. QED
    BY <1>2, <2>1, <2>2, LockKnowing
<1>5. QED
  BY <1>3, <1>4

\* The full node is locked, or what is locked is released again.
LEMMA LockNodeOrder ==
  ASSUME TreeInv, TreeInv', NEW t \in Threads, NEW own, NEW led,
         Ordered(own, led), LockNode(t)
  PROVE  Ordered(own, led)'
<1>1. TypeOK /\ Placed(t) /\ OnCourse(t, own) /\ Remembered(t)
  BY Known
<1>2. Run(t) /\ pc[t] = "lockNode" /\ node[t] \in Nodes
  BY <1>1 DEF Run, LockNode, TypeOK
<1>3. CASE word[node[t]] # versionNode[t]
  <2>1. PICK step \in {"unlockParent", "loadRoot"} : Moves(t, step)
    BY <1>1, <1>3 DEF LockNode, goto, Moves, descent, shared, TypeOK
  <2>2. QED
    BY <1>2, <2>1, MovesCarefree DEF Carefree
<1>4. CASE word[node[t]] = versionNode[t]
  <2>1. /\ word' = [word EXCEPT ![node[t]] = upgraded(@)]
        /\ pc'[t] \in {"split", "unlockNode"}
        /\ pc'[t] = "split" /\ ~hasParent(t) => node[t] = root
        /\ UNCHANGED <<root, kind, leafKeys, keys, children, call, node, parent,
                       versionParent, sep, sibling, hit>>
    BY <1>1, <1>4 DEF LockNode, goto, TypeOK
  <2>2. CASE pc'[t] = "split"
    <3>1. hasParent(t) => Leads(t, own)
      BY <1>1, <1>2 DEF OnCourse
    <3>2. QED
      BY <1>2, <2>1, <2>2, <3>1, LockKnowing
  <2>3. CASE pc'[t] = "unlockNode"
    <3>1. \A n \in Nodes : word'[n] >= word[n]
      BY <1>1, <1>2, <2>1, LockWords
    <3>2. QED
      BY <1>1, <1>2, <2>1, <2>3, <3>1, CarefreeStep DEF Carefree, call, Placed,
         Remembered
  <2>4. QED
    BY <2>1, <2>2, <2>3
<1>5. QED
  BY <1>3, <1>4

-----------------------------------------------------------------------------
(* Steps that store into a node *)

\* The key goes into the leaf that is responsible for it.
LEMMA InsertLeafOrder ==
  ASSUME TreeInv, TreeInv', NEW t \in Threads, NEW own, NEW led,
         Ordered(own, led), InsertLeaf(t)
  PROVE  Ordered(own, led)'
<1> DEFINE n == node[t]
<1>1. /\ TypeOK /\ Parted(own, led) /\ LinkedOnce /\ Placed(t)
      /\ OnCourse(t, own) /\ Remembered(t) /\ \A m \in Nodes : word[m] >= word[m]
  BY Known
<1>2. /\ Run(t) /\ pc[t] = "insertLeaf" /\ pc'[t] = "commitLeaf"
      /\ n \in Nodes /\ n \in Leaves /\ key[t] \in own[n]
      /\ leafKeys' = [leafKeys EXCEPT ![n] = leafKeys[n] \cup {key[t]}]
      /\ UNCHANGED <<root, word, kind, keys, children, call, descent, sep,
                     sibling, hit>>
  BY <1>1 DEF Run, InsertLeaf, goto, TypeOK, Placed, OnCourse
<1> HIDE DEF n
<1>3. /\ leafKeys'[n] = leafKeys[n] \cup {key[t]}
      /\ \A m \in Nodes : m # n => leafKeys'[m] = leafKeys[m]
  BY <1>1, <1>2 DEF TypeOK
<1>4. Dict \subseteq Dict'
  BY <1>3 DEF Dict
<1>5. \A u \in Threads : u # t => Untouched(u)
  BY <1>1, <1>2, OthersUntouched
<1>6. \A u \in Threads :
        /\ pc'[u] = "link" <=> pc[u] = "link"
        /\ pc[u] = "link" => node'[u] = node[u] /\ sibling'[u] = sibling[u]
  BY <1>2, <1>5 DEF Untouched, SameLocals
<1>7. \A m : Pending(m)' <=> Pending(m)
  BY <1>6 DEF Pending
<1>8. LinkedOnce'
  BY <1>1, <1>2, <1>6, <1>7 DEF LinkedOnce, Inner, Children
<1>9. Parted(own, led)'
  <2>1. led[root]' = Keys
    BY <1>1, <1>2 DEF Parted
  <2>2. \A m \in Inner' :
          /\ Increasing(keys[m])'
          /\ \A i \in 1 .. count(m)' : keys'[m][i] \in own[m]
          /\ \A i \in Children(m)' :
               led[children'[m][i]] = {k \in own[m] : Between(m, i, k)'}
    BY <1>1, <1>2 DEF Parted, Inner, Increasing, Children, Between, count
  <2>3. ASSUME NEW m \in Nodes
        PROVE  /\ IsFiniteSet(leafKeys'[m]) /\ leafKeys'[m] \subseteq own[m]
               /\ m \notin Leaves' => leafKeys'[m] = {}
               /\ (\A u \in Threads : pc'[u] = "link" => node'[u] # m)
                    => led[m] = own[m]
    <3>1. Leaves' = Leaves
      BY <1>2 DEF Leaves
    <3>2. CASE m # n
      BY <1>1, <1>3, <1>6, <3>1, <3>2 DEF Parted
    <3>3. CASE m = n
      <4>1. IsFiniteSet(leafKeys[n])
        BY <1>1, <1>2 DEF Parted
      <4>2. IsFiniteSet(leafKeys[n] \cup {key[t]})
        BY <4>1, FS_AddElement
      <4>3. /\ leafKeys[n] \subseteq own[n] /\ n \in Leaves'
            /\ (\A u \in Threads : pc[u] = "link" => node[u] # n)
                 => led[n] = own[n]
        BY <1>1, <1>2, <3>1 DEF Parted
      <4>4. leafKeys'[n] \subseteq own[n]
        BY <1>2, <1>3, <4>3
      <4>5. (\A u \in Threads : pc'[u] = "link" => node'[u] # n)
              => led[n] = own[n]
        BY <1>6, <4>3
      <4>6. QED
        BY <1>3, <3>3, <4>2, <4>3, <4>4, <4>5
    <3>4. QED
      BY <3>2, <3>3
  <2>4. \A l, m \in Leaves' : l # m => own[l] \cap own[m] = {}
    BY <1>1, <1>2 DEF Parted, Leaves
  <2>5. QED
    BY <2>1, <2>2, <2>3, <2>4 DEF Parted
<1>10. Holds(t, n)
  BY <1>2 DEF Holds, HoldsNode, n
<1>11. Careful(t, own, led, own, led)
  BY <1>1, <1>2, <1>3, <1>4, <1>7, <1>10 DEF Careful, SameNode, Allocated
<1>12. (~Pending(node[t]) /\ ~Pending(parent[t]))' /\ Remembered(t)'
  BY <1>1, <1>2, <1>4, <1>7 DEF Placed, Remembered, call, descent
<1>13. Informed(t, own, led)'
  BY <1>2, <1>12, CarefreeInformed DEF Carefree
<1>14. \A u \in Threads : u # t => Informed(u, own, led)'
  BY <1>1, <1>5, <1>11, OrderFrame DEF Ordered
<1>15. QED
  BY <1>8, <1>9, <1>13, <1>14 DEF Ordered

\* BTreeLeaf::split: the separator is the greatest key that stays, and some key
\* moves.
LEMMA SplitLeafHalves ==
  ASSUME TreeInv, NEW t \in Threads, pc[t] = "split",
         NEW new \in Nodes, new # node[t], SplitLeaf(t, new),
         IsFiniteSet(leafKeys[node[t]])
  PROVE  /\ node[t] \in Leaves /\ sep'[t] \in leafKeys[node[t]]
         /\ leafKeys'[node[t]] = {k \in leafKeys[node[t]] : k <= sep'[t]}
         /\ leafKeys'[new] = {k \in leafKeys[node[t]] : k > sep'[t]}
         /\ leafKeys'[new] # {}
         /\ \A m \in Nodes : m \notin {node[t], new} =>
              leafKeys'[m] = leafKeys[m]
         /\ kind' = [kind EXCEPT ![new] = "leaf"]
         /\ UNCHANGED <<keys, children>>
<1> DEFINE L == leafKeys[node[t]]
           Smaller(k) == {j \in L : j < k}
           half == Cardinality(L) \div 2
           low == {k \in L : Cardinality(Smaller(k)) < half}
<1>1. /\ node[t] \in Nodes /\ kind[node[t]] = "leaf"
      /\ leafKeys \in [Nodes -> SUBSET Keys] /\ sep \in [Threads -> Keys]
      /\ L \subseteq Nat /\ isFull(node[t])
  BY SetsAssumption DEF TreeInv, TypeOK, SplitLeaf, ThreadInv, FactsStand
<1>2. Cardinality(L) = LeafSlots
  BY <1>1 DEF isFull
<1>3. PICK m \in low : (\A k \in low : k <= m) /\ sep' = [sep EXCEPT ![t] = m]
  BY DEF SplitLeaf
<1>4. /\ leafKeys' = [leafKeys EXCEPT ![node[t]] = low, ![new] = L \ low]
      /\ kind' = [kind EXCEPT ![new] = "leaf"] /\ UNCHANGED <<keys, children>>
  BY DEF SplitLeaf
<1>5. \A k \in L : IsFiniteSet(Smaller(k)) /\ Cardinality(Smaller(k)) \in Nat
  <2> TAKE k \in L
  <2>1. Smaller(k) \in SUBSET L
    OBVIOUS
  <2> HIDE DEF Smaller
  <2>2. IsFiniteSet(Smaller(k))
    BY <2>1, FS_Subset
  <2>3. QED
    BY <2>2, FS_CardinalityType
<1>6. ASSUME NEW k \in low, NEW j \in L, j <= k PROVE j \in low
  <2>1. k \in L /\ Cardinality(Smaller(k)) < half
    OBVIOUS
  <2>2. Smaller(j) \in SUBSET Smaller(k)
    BY <1>1, <1>6, <2>1
  <2>3. half \in Nat
    BY <1>2, SlotsAssumption
  <2> HIDE DEF Smaller, half, L
  <2>4. Cardinality(Smaller(j)) <= Cardinality(Smaller(k))
    BY <1>5, <2>1, <2>2, FS_Subset
  <2>5. Cardinality(Smaller(j)) < half
    BY <1>5, <2>1, <2>3, <2>4
  <2>6. QED
    BY <2>5
<1>7. m \in L /\ sep'[t] = m
  BY <1>1, <1>3
<1>8. low = {k \in L : k <= m}
  <2> HIDE DEF L
  <2>1. \A k \in L : k \in low => k <= m
    BY <1>3
  <2>2. \A k \in L : k <= m => k \in low
    BY <1>3, <1>6
  <2>3. low \subseteq L
    OBVIOUS
  <2> HIDE DEF low
  <2>4. QED
    BY <2>1, <2>2, <2>3
<1>9. L \ low = {k \in L : k > m}
  <2> HIDE DEF low, L
  <2>1. QED
    BY <1>1, <1>7, <1>8
<1>10. L \ low # {}
  <2> SUFFICES ASSUME L \subseteq low PROVE FALSE
    OBVIOUS
  <2>1. \A k \in L : k <= m
    BY <1>3
  <2>2. Smaller(m) = L \ {m}
    BY <1>1, <1>7, <2>1
  <2>3. Cardinality(Smaller(m)) < half
    BY <1>3
  <2>4. half < LeafSlots - 1 + 1 /\ half \in Nat /\ half <= LeafSlots - 1
    BY <1>2, SlotsAssumption
  <2> HIDE DEF Smaller, half, low, L
  <2>5. IsFiniteSet(L)
    BY DEF L
  <2>6. Cardinality(L \ {m}) = Cardinality(L) - 1
    BY <1>7, <2>5, FS_RemoveElement
  <2>7. QED
    BY <1>2, <2>2, <2>3, <2>4, <2>6, SlotsAssumption
<1> HIDE DEF low, L
<1>11. /\ leafKeys'[node[t]] = low /\ leafKeys'[new] = L \ low
       /\ \A i \in Nodes : i \notin {node[t], new} => leafKeys'[i] = leafKeys[i]
  BY <1>1, <1>4
<1>12. QED
  BY <1>1, <1>4, <1>7, <1>8, <1>9, <1>10, <1>11 DEF L, Leaves

\* What BTreeInner::split puts where: the separator at left + 1 moves up.
InnerHalves(t, new, left) ==
  LET n == node[t]
      c == count(n)
  IN /\ left \in Nat /\ left + 2 <= c
     /\ Len(keys'[n]) = left /\ Len(keys'[new]) = c - left - 1
     /\ Len(children'[n]) = left + 1 /\ Len(children'[new]) = c - left
     /\ \A i \in 1 .. left : keys'[n][i] = keys[n][i]
     /\ \A i \in 1 .. c - left - 1 : keys'[new][i] = keys[n][left + 1 + i]
     /\ \A i \in 1 .. left + 1 : children'[n][i] = children[n][i]
     /\ \A i \in 1 .. c - left : children'[new][i] = children[n][left + 1 + i]
     /\ sep'[t] = keys[n][left + 1]
     /\ \A m \in Nodes : m \notin {n, new} =>
          keys'[m] = keys[m] /\ children'[m] = children[m]
     /\ kind' = [kind EXCEPT ![new] = "inner"]
     /\ UNCHANGED leafKeys

\* The split of an inner node shares out its separators and children so.
LEMMA SplitInnerHalves ==
  ASSUME TreeInv, NEW t \in Threads, pc[t] = "split",
         NEW new \in Nodes, new # node[t], SplitInner(t, new)
  PROVE  node[t] \in Inner /\ \E left \in Nat : InnerHalves(t, new, left)
<1> DEFINE n == node[t]
           c == count(n)
           left == c - (c - c \div 2) - 1
<1>1. /\ n \in Nodes /\ kind[n] = "inner" /\ isFull(n)
      /\ keys \in [Nodes -> Seq(Keys)] /\ children \in [Nodes -> Seq(Nodes)]
      /\ sep \in [Threads -> Keys]
  BY DEF TreeInv, TypeOK, SplitInner, ThreadInv, FactsStand
<1>2. /\ c = InnerSlots - 1 /\ Len(keys[n]) = c /\ Len(children[n]) = c + 1
  BY <1>1 DEF isFull, TreeInv, NodesWellFormed, count
<1>3. left \in Nat /\ left + 2 <= c /\ c \in Nat
  BY <1>2, SlotsAssumption
<1> DEFINE K1 == SubSeq(keys[n], 1, left)
           K2 == SubSeq(keys[n], left + 2, c)
           C1 == SubSeq(children[n], 1, left + 1)
           C2 == SubSeq(children[n], left + 2, c + 1)
<1>4. /\ keys' = [keys EXCEPT ![n] = K1, ![new] = K2]
      /\ children' = [children EXCEPT ![n] = C1, ![new] = C2]
      /\ kind' = [kind EXCEPT ![new] = "inner"]
      /\ sep' = [sep EXCEPT ![t] = keys[n][left + 1]]
      /\ UNCHANGED leafKeys
  BY DEF SplitInner
<1> HIDE DEF left, c
<1>5. keys[n] \in Seq(Keys) /\ children[n] \in Seq(Nodes)
  BY <1>1
<1> HIDE DEF n
<1>6. /\ Len(K1) = left
      /\ \A i \in 1 .. left : K1[i] = keys[n][i]
  <2>1. \A i \in 1 .. left : 1 + i - 1 = i
    BY <1>3
  <2>2. /\ Len(K1) = left + 1 - 1
        /\ \A i \in 1 .. left + 1 - 1 : K1[i] = keys[n][1 + i - 1]
    BY <1>2, <1>3, <1>5, SubSeqElement
  <2>3. QED
    BY <1>3, <2>1, <2>2
<1>7. /\ Len(K2) = c - left - 1
      /\ \A i \in 1 .. c - left - 1 : K2[i] = keys[n][left + 1 + i]
  <2>1. \A i \in 1 .. c - left - 1 : left + 2 + i - 1 = left + 1 + i
    BY <1>3
  <2>2. /\ Len(K2) = c + 1 - (left + 2)
        /\ \A i \in 1 .. c + 1 - (left + 2) : K2[i] = keys[n][left + 2 + i - 1]
    BY <1>2, <1>3, <1>5, SubSeqElement
  <2>3. c + 1 - (left + 2) = c - left - 1
    BY <1>3
  <2>4. QED
    BY <2>1, <2>2, <2>3
<1>8. /\ Len(C1) = left + 1
      /\ \A i \in 1 .. left + 1 : C1[i] = children[n][i]
  <2>1. \A i \in 1 .. left + 1 : 1 + i - 1 = i
    BY <1>3
  <2>2. /\ Len(C1) = left + 1 + 1 - 1
        /\ \A i \in 1 .. left + 1 + 1 - 1 : C1[i] = children[n][1 + i - 1]
    BY <1>2, <1>3, <1>5, SubSeqElement
  <2>3. left + 1 + 1 - 1 = left + 1
    BY <1>3
  <2>4. QED
    BY <2>1, <2>2, <2>3
<1>9. /\ Len(C2) = c - left
      /\ \A i \in 1 .. c - left : C2[i] = children[n][left + 1 + i]
  <2>1. \A i \in 1 .. c - left : left + 2 + i - 1 = left + 1 + i
    BY <1>3
  <2>2. /\ Len(C2) = c + 1 + 1 - (left + 2)
        /\ \A i \in 1 .. c + 1 + 1 - (left + 2) :
             C2[i] = children[n][left + 2 + i - 1]
    BY <1>2, <1>3, <1>5, SubSeqElement
  <2>3. c + 1 + 1 - (left + 2) = c - left
    BY <1>3
  <2>4. QED
    BY <2>1, <2>2, <2>3
<1> HIDE DEF K1, K2, C1, C2
<1>10. /\ keys'[n] = K1 /\ keys'[new] = K2
       /\ children'[n] = C1 /\ children'[new] = C2
       /\ sep'[t] = keys[n][left + 1]
       /\ \A m \in Nodes : m \notin {n, new} =>
            keys'[m] = keys[m] /\ children'[m] = children[m]
  BY <1>1, <1>4 DEF n
<1>11. InnerHalves(t, new, left)
  BY <1>3, <1>4, <1>6, <1>7, <1>8, <1>9, <1>10 DEF InnerHalves, n, c
<1>12. QED
  BY <1>1, <1>3, <1>11 DEF Inner, n

\* A split of t moves the upper half of its node to the free node new.
SplitsOff(t, new) ==
  /\ pc[t] = "split" /\ kind[new] = "free"
  /\ SplitLeaf(t, new) \/ SplitInner(t, new)
  /\ pc' = [pc EXCEPT ![t] = "link"]
  /\ sibling' = [sibling EXCEPT ![t] = new]
  /\ UNCHANGED <<root, word, call, descent, hit>>

\* A split takes its new node from the free ones.
LEMMA SplitNew ==
  ASSUME TreeInv, NEW t \in Threads, Split(t)
  PROVE  \E new \in Nodes : SplitsOff(t, new)
  BY DEF Split, FreeNodes, SplitsOff, goto

\* The new node is nobody's, and t holds the node it splits.
LEMMA SplitOutset ==
  ASSUME TreeInv, NEW t \in Threads, NEW own, NEW led, Ordered(own, led),
         NEW new \in Nodes, SplitsOff(t, new)
  PROVE  /\ node[t] \in Nodes /\ node[t] \in Allocated
         /\ new \notin Allocated /\ new # node[t] /\ new # root
         /\ new \notin Inner /\ new \notin Leaves /\ leafKeys[new] = {}
         /\ \A p \in Inner : \A i \in Children(p) : children[p][i] # new
         /\ node[t] # parent[t]
         /\ hasParent(t) => parent[t] \in Inner /\ parent[t] # new
         /\ led[node[t]] = own[node[t]]
         /\ IsFiniteSet(leafKeys[node[t]])
         /\ \A u \in Threads : pc[u] = "link" => u # t /\ sibling[u] # new
<1>1. TypeOK /\ ThreadInv(t) /\ Parted(own, led) /\ pc[t] = "split"
  BY Known DEF SplitsOff
<1>2. /\ node[t] \in Nodes /\ node[t] \in Allocated /\ node[t] # parent[t]
      /\ new \notin Allocated /\ new \notin Inner /\ new \notin Leaves
      /\ hasParent(t) => parent[t] \in Inner
  BY <1>1 DEF TypeOK, ThreadInv, PointersGood, SplitsOff, Allocated, Inner,
     Leaves, hasParent
<1>3. root \in Allocated /\ \A p \in Nodes : children[p] \in Seq(Allocated)
  BY DEF TreeInv, NodesWellFormed
<1>4. \A p \in Inner : \A i \in Children(p) : children[p][i] \in Allocated
  <2> TAKE p \in Inner
  <2> TAKE i \in Children(p)
  <2>1. children[p] \in Seq(Allocated)
    BY <1>3 DEF Inner
  <2>2. QED
    BY <2>1 DEF Children
<1>5. \A u \in Threads : pc[u] = "link" => u # t /\ sibling[u] # new
  BY <1>1, <1>2 DEF TreeInv, ThreadInv, PointersGood
<1>6. led[node[t]] = own[node[t]]
  <2>1. \A u \in Threads : HoldsNode(u, node[t]) => u = t
    BY <1>1, <1>2 DEF TreeInv, LocksBalanced, Holds, HoldsNode
  <2>2. QED
    BY <1>1, <1>2, <2>1, LedOwned
<1>7. leafKeys[new] = {} /\ IsFiniteSet(leafKeys[node[t]])
  BY <1>1, <1>2 DEF Parted
<1>8. QED
  BY <1>2, <1>3, <1>4, <1>5, <1>6, <1>7

\* A split keeps every key.
LEMMA SplitDict ==
  ASSUME TreeInv, NEW t \in Threads, NEW own, NEW led, Ordered(own, led),
         NEW new \in Nodes, SplitsOff(t, new)
  PROVE  Dict' = Dict
<1>1. /\ node[t] \in Nodes /\ new # node[t] /\ leafKeys[new] = {}
      /\ IsFiniteSet(leafKeys[node[t]]) /\ pc[t] = "split"
  BY SplitOutset DEF SplitsOff
<1>2. CASE SplitInner(t, new)
  BY <1>2 DEF SplitInner, Dict
<1>3. CASE SplitLeaf(t, new)
  <2>1. /\ leafKeys'[node[t]] = {k \in leafKeys[node[t]] : k <= sep'[t]}
        /\ leafKeys'[new] = {k \in leafKeys[node[t]] : k > sep'[t]}
        /\ sep'[t] \in leafKeys[node[t]]
        /\ \A m \in Nodes : m \notin {node[t], new} =>
             leafKeys'[m] = leafKeys[m]
    BY <1>1, <1>3, SplitLeafHalves
  <2>2. leafKeys[node[t]] \subseteq Nat
    BY <1>1, SetsAssumption DEF TreeInv, TypeOK
  <2>3. leafKeys'[node[t]] \cup leafKeys'[new] = leafKeys[node[t]]
    BY <2>1, <2>2
  <2>4. \A k : k \in Dict' <=> k \in Dict
    BY <1>1, <2>1, <2>3 DEF Dict
  <2>5. QED
    BY <2>4
<1>4. QED
  BY <1>2, <1>3 DEF SplitsOff

\* After a split the new node is pending besides the others.
LEMMA SplitPending ==
  ASSUME TreeInv, NEW t \in Threads, NEW own, NEW led, Ordered(own, led),
         NEW new \in Nodes, SplitsOff(t, new),
         \A u \in Threads : u # t => Untouched(u)
  PROVE  /\ \A u \in Threads : pc'[u] = "link" <=> (pc[u] = "link" \/ u = t)
         /\ \A u \in Threads : node'[u] = node[u]
         /\ sibling'[t] = new
         /\ \A u \in Threads : u # t => sibling'[u] = sibling[u]
         /\ \A n : Pending(n)' <=> (Pending(n) \/ n = new)
<1>1. TypeOK
  BY DEF TreeInv
<1>2. /\ pc'[t] = "link" /\ sibling'[t] = new /\ pc[t] # "link"
      /\ node'[t] = node[t]
  BY <1>1 DEF SplitsOff, TypeOK, descent
<1>3. \A u \in Threads : u # t =>
        pc'[u] = pc[u] /\ sibling'[u] = sibling[u] /\ node'[u] = node[u]
  BY DEF Untouched, SameLocals
<1>4. \A n : Pending(n)' <=> (Pending(n) \/ n = new)
  BY <1>2, <1>3 DEF Pending
<1>5. QED
  BY <1>2, <1>3, <1>4

\* A split links no node twice: each pointer is where it was or moves along.
LEMMA SplitLinked ==
  ASSUME TreeInv, NEW t \in Threads, NEW own, NEW led, Ordered(own, led),
         NEW new \in Nodes, SplitsOff(t, new),
         \A u \in Threads : u # t => Untouched(u)
  PROVE  LinkedOnce'
<1> DEFINE n == node[t]
<1>1. LinkedOnce /\ n \in Nodes /\ new # n /\ pc[t] = "split"
  BY Known, SplitOutset DEF SplitsOff
<1>2. /\ new # root /\ ~Pending(root) /\ root' = root
      /\ \A p \in Inner : \A i \in Children(p) :
           children[p][i] # new /\ children[p][i] # root
             /\ ~Pending(children[p][i])
  <2>1. new # root /\ \A p \in Inner : \A i \in Children(p) : children[p][i] # new
    BY SplitOutset
  <2>2. root' = root
    BY DEF SplitsOff
  <2>3. QED
    BY <1>1, <2>1, <2>2 DEF LinkedOnce
<1>3. ~Pending(root)'
  BY <1>2, SplitPending
<1>4. \A u, v \in Threads :
        pc'[u] = "link" /\ pc'[v] = "link" /\ sibling'[u] = sibling'[v] => u = v
  BY <1>1, SplitOutset, SplitPending DEF LinkedOnce
<1>5. CASE SplitLeaf(t, new)
  <2>1. Inner' = Inner /\ \A p : Children(p)' = Children(p)
        /\ children' = children
    <3>1. kind' = [kind EXCEPT ![new] = "leaf"] /\ children' = children
      BY <1>5 DEF SplitLeaf
    <3>2. kind[new] = "free" /\ kind \in [Nodes -> {"free", "leaf", "inner"}]
      BY DEF SplitsOff, TreeInv, TypeOK
    <3>3. QED
      BY <3>1, <3>2 DEF Inner, Children
  <2>2. \A p \in Inner : \A i \in Children(p) : ~Pending(children[p][i])'
    <3>1. \A m : m # new /\ ~Pending(m) =>
            ~\E u \in Threads : pc'[u] = "link" /\ sibling'[u] = m
      BY SplitPending DEF Pending
    <3>2. QED
      BY <1>2, <2>1, <3>1 DEF Pending
  <2>3. \A p \in Inner' : \A i \in Children(p)' :
          children'[p][i] # root' /\ ~Pending(children[p][i])'
    BY <1>2, <2>1, <2>2
  <2>4. \A p, q \in Inner' : \A i \in Children(p)', j \in Children(q)' :
          children'[p][i] = children'[q][j] => p = q /\ i = j
    BY <1>1, <2>1 DEF LinkedOnce
  <2>5. QED
    BY <1>3, <1>4, <2>3, <2>4 DEF LinkedOnce
<1>6. CASE SplitInner(t, new)
  <2>1. PICK left \in Nat : InnerHalves(t, new, left) /\ n \in Inner
    BY <1>1, <1>6, SplitInnerHalves
  <2>2. /\ Inner' = Inner \cup {new} /\ new \notin Inner
        /\ Len(children[n]) = count(n) + 1 /\ count(n) \in Nat
        /\ left + 2 <= count(n)
    <3>1. kind \in [Nodes -> {"free", "leaf", "inner"}] /\ kind[new] = "free"
          /\ kind' = [kind EXCEPT ![new] = "inner"]
      BY <2>1 DEF TreeInv, TypeOK, SplitsOff, InnerHalves
    <3>2. Len(children[n]) = count(n) + 1 /\ count(n) \in Nat
      <4>1. keys[n] \in Seq(Keys)
        BY <1>1 DEF TreeInv, TypeOK
      <4>2. QED
        BY <1>1, <2>1, <4>1, SeparatorsAreNaturals
           DEF TreeInv, NodesWellFormed, Inner
    <3>3. QED
      BY <2>1, <3>1, <3>2 DEF Inner, InnerHalves
  <2> DEFINE Q(p) == IF p = new THEN n ELSE p
             J(p, i) == IF p = new THEN left + 1 + i ELSE i
  <2>3. ASSUME NEW p \in Inner', NEW i \in Children(p)'
        PROVE  /\ Q(p) \in Inner /\ J(p, i) \in Children(Q(p))
               /\ children'[p][i] = children[Q(p)][J(p, i)]
               /\ p = n => i <= left + 1
               /\ i \in Nat /\ i >= 1
    <3>1. i \in Nat /\ i >= 1 /\ i <= Len(children'[p])
      BY DEF Children
    <3>2. CASE p = new
      <4>1. Len(children'[new]) = count(n) - left
            /\ \A a \in 1 .. count(n) - left :
                 children'[new][a] = children[n][left + 1 + a]
        BY <2>1 DEF InnerHalves
      <4>2. i \in 1 .. count(n) - left /\ left + 1 + i \in 1 .. count(n) + 1
        BY <2>2, <3>1, <3>2, <4>1
      <4>3. QED
        BY <1>1, <2>1, <2>2, <3>1, <3>2, <4>1, <4>2 DEF Children
    <3>3. CASE p = n
      <4>1. Len(children'[n]) = left + 1
            /\ \A a \in 1 .. left + 1 : children'[n][a] = children[n][a]
        BY <2>1 DEF InnerHalves
      <4>2. i \in 1 .. left + 1 /\ i \in 1 .. count(n) + 1
        BY <2>2, <3>1, <3>3, <4>1
      <4>3. QED
        BY <1>1, <2>1, <2>2, <3>1, <3>3, <4>1, <4>2 DEF Children
    <3>4. CASE p \notin {n, new}
      <4>1. p \in Inner /\ p \in Nodes /\ children'[p] = children[p]
        BY <2>1, <2>2, <3>4 DEF InnerHalves, Inner
      <4>2. QED
        BY <3>1, <3>4, <4>1 DEF Children
    <3>5. QED
      BY <3>2, <3>3, <3>4
  <2>4. ASSUME NEW p \in Inner', NEW i \in Children(p)'
        PROVE  children'[p][i] # root' /\ ~Pending(children[p][i])'
    <3>1. /\ children'[p][i] # new /\ children'[p][i] # root
          /\ ~Pending(children'[p][i])
      BY <1>2, <2>3
    <3>2. \A m : m # new /\ ~Pending(m) =>
            ~\E u \in Threads : pc'[u] = "link" /\ sibling'[u] = m
      BY SplitPending DEF Pending
    <3>3. ~Pending(children[p][i])'
      BY <3>1, <3>2 DEF Pending
    <3>4. QED
      BY <1>2, <3>1, <3>3
  <2>5. ASSUME NEW p \in Inner', NEW q \in Inner',
               NEW i \in Children(p)', NEW j \in Children(q)',
               children'[p][i] = children'[q][j]
        PROVE  p = q /\ i = j
    <3>1. Q(p) = Q(q) /\ J(p, i) = J(q, j)
      BY <1>1, <2>3, <2>5 DEF LinkedOnce
    <3>2. /\ p = n => i <= left + 1
          /\ q = n => j <= left + 1
          /\ i \in Nat /\ i >= 1 /\ j \in Nat /\ j >= 1
      BY <2>3
    <3>3. QED
      BY <1>1, <3>1, <3>2
  <2>6. QED
    BY <1>3, <1>4, <2>4, <2>5 DEF LinkedOnce
<1>7. QED
  BY <1>5, <1>6 DEF SplitsOff


\* How a split shares out the keys of its node: those above the separator are
\* the new node's, though the pointers still lead them to the old one.
Shares(t, new, own, led, own2, led2) ==
  LET n == node[t]
  IN /\ own2[n] = {k \in own[n] : k <= sep'[t]}
     /\ own2[new] = {k \in own[n] : k > sep'[t]}
     /\ led2[new] = own2[new]
     /\ \A m \in Nodes : m \notin {n, new} => own2[m] = own[m]
     /\ \A m \in Nodes : m # new => led2[m] = led[m]

\* Both halves of a split have keys.
LEMMA SplitDivides ==
  ASSUME TreeInv, NEW t \in Threads, NEW own, NEW led, Ordered(own, led),
         own \in [Nodes -> SUBSET Keys],
         NEW new \in Nodes, SplitsOff(t, new)
  PROVE  /\ sep'[t] \in own[node[t]] /\ sep'[t] \in Nat
         /\ own[node[t]] \subseteq Nat
         /\ \E k \in own[node[t]] : k > sep'[t]
<1> DEFINE n == node[t]
<1>1. /\ n \in Nodes /\ new # n /\ IsFiniteSet(leafKeys[n]) /\ pc[t] = "split"
      /\ Parted(own, led)
  BY SplitOutset, Known DEF SplitsOff
<1>2. own[n] \subseteq Nat
  BY <1>1, SetsAssumption
<1>3. CASE SplitLeaf(t, new)
  <2>1. /\ sep'[t] \in leafKeys[n] /\ leafKeys'[new] # {}
        /\ leafKeys'[new] = {k \in leafKeys[n] : k > sep'[t]}
    BY <1>1, <1>3, SplitLeafHalves
  <2>2. leafKeys[n] \subseteq own[n]
    BY <1>1 DEF Parted
  <2>3. QED
    BY <1>2, <2>1, <2>2
<1>4. CASE SplitInner(t, new)
  <2>1. PICK left \in Nat : InnerHalves(t, new, left) /\ n \in Inner
    BY <1>1, <1>4, SplitInnerHalves
  <2>2. /\ sep'[t] = keys[n][left + 1] /\ left + 2 <= count(n)
        /\ count(n) \in Nat /\ Increasing(keys[n])
        /\ \A i \in 1 .. count(n) : keys[n][i] \in own[n]
    BY <1>1, <2>1, SeparatorsAreNaturals
       DEF InnerHalves, Parted, TreeInv, TypeOK
  <2>3. left + 1 \in 1 .. count(n) /\ left + 2 \in 1 .. count(n)
    BY <2>2
  <2>4. keys[n][left + 1] < keys[n][left + 2]
    BY <2>2, <2>3 DEF Increasing, count
  <2>5. keys[n][left + 1] \in Nat /\ keys[n][left + 2] \in Nat
    BY <1>2, <2>2, <2>3
  <2>6. QED
    BY <1>2, <2>2, <2>3, <2>4, <2>5
<1>5. QED
  BY <1>3, <1>4 DEF SplitsOff

\* After a split each leaf holds keys of its own, and only the node that is
\* being split is led to more.
LEMMA SplitLeaves ==
  ASSUME TreeInv, NEW t \in Threads, NEW own, NEW led, Ordered(own, led),
         own \in [Nodes -> SUBSET Keys],
         NEW new \in Nodes, SplitsOff(t, new),
         \A u \in Threads : u # t => Untouched(u),
         NEW own2, NEW led2, Shares(t, new, own, led, own2, led2)
  PROVE  /\ \A m \in Nodes :
              /\ IsFiniteSet(leafKeys'[m]) /\ leafKeys'[m] \subseteq own2[m]
              /\ m \notin Leaves' => leafKeys'[m] = {}
              /\ (\A u \in Threads : pc'[u] = "link" => node'[u] # m)
                   => led2[m] = own2[m]
         /\ \A l, m \in Leaves' : l # m => own2[l] \cap own2[m] = {}
<1> DEFINE n == node[t]
<1>1. /\ n \in Nodes /\ new # n /\ IsFiniteSet(leafKeys[n]) /\ pc[t] = "split"
      /\ new \notin Leaves /\ leafKeys[new] = {} /\ Parted(own, led)
  BY SplitOutset, Known DEF SplitsOff
<1>2. own[n] \subseteq Nat /\ sep'[t] \in Nat
  BY SplitDivides
<1>3. /\ own2[n] = {k \in own[n] : k <= sep'[t]}
      /\ own2[new] = {k \in own[n] : k > sep'[t]}
      /\ led2[new] = own2[new]
      /\ \A m \in Nodes : m \notin {n, new} => own2[m] = own[m] /\ led2[m] = led[m]
      /\ Leaves \subseteq Nodes
  BY DEF Shares, Leaves
<1>4. ASSUME NEW m \in Nodes,
             \A u \in Threads : pc'[u] = "link" => node'[u] # m
      PROVE  led2[m] = own2[m]
  <2>1. /\ \A u \in Threads : pc'[u] = "link" <=> pc[u] = "link" \/ u = t
        /\ \A u \in Threads : node'[u] = node[u]
    BY SplitPending
  <2>2. m # n /\ \A u \in Threads : pc[u] = "link" => node[u] # m
    BY <1>4, <2>1
  <2>3. m # new => led[m] = own[m]
    BY <1>1, <2>2 DEF Parted
  <2>4. QED
    BY <1>3, <2>2, <2>3
<1>5. CASE SplitLeaf(t, new)
  <2>1. /\ n \in Leaves
        /\ leafKeys'[n] = {k \in leafKeys[n] : k <= sep'[t]}
        /\ leafKeys'[new] = {k \in leafKeys[n] : k > sep'[t]}
        /\ \A m \in Nodes : m \notin {n, new} => leafKeys'[m] = leafKeys[m]
        /\ kind' = [kind EXCEPT ![new] = "leaf"]
    BY <1>1, <1>5, SplitLeafHalves
  <2>2. Leaves' = Leaves \cup {new}
    BY <2>1 DEF Leaves, TreeInv, TypeOK
  <2>3. leafKeys[n] \subseteq own[n]
    BY <1>1 DEF Parted
  <2>4. IsFiniteSet(leafKeys'[n]) /\ IsFiniteSet(leafKeys'[new])
    <3>1. leafKeys'[n] \in SUBSET leafKeys[n]
          /\ leafKeys'[new] \in SUBSET leafKeys[n]
      BY <2>1
    <3>2. QED
      BY <1>1, <3>1, FS_Subset
  <2>5. leafKeys'[n] \subseteq own2[n] /\ leafKeys'[new] \subseteq own2[new]
    BY <1>3, <2>1, <2>3
  <2>6. ASSUME NEW m \in Nodes
        PROVE  /\ IsFiniteSet(leafKeys'[m]) /\ leafKeys'[m] \subseteq own2[m]
               /\ m \notin Leaves' => leafKeys'[m] = {}
    <3>1. CASE m \in {n, new}
      BY <2>1, <2>2, <2>4, <2>5, <3>1
    <3>2. CASE m \notin {n, new}
      BY <1>1, <1>3, <2>1, <2>2, <3>2 DEF Parted
    <3>3. QED
      BY <3>1, <3>2
  <2>7. own2[n] \cap own2[new] = {}
    BY <1>2, <1>3
  <2>8. /\ own2[n] \subseteq own[n] /\ own2[new] \subseteq own[n]
        /\ \A l, m \in Leaves : l # m => own[l] \cap own[m] = {}
    BY <1>1, <1>3 DEF Parted
  <2>9. ASSUME NEW l \in Leaves', NEW m \in Leaves', l # m
        PROVE  own2[l] \cap own2[m] = {}
    <3>1. CASE l \in {n, new} /\ m \in {n, new}
      BY <2>7, <2>9, <3>1
    <3>2. CASE l \in {n, new} /\ m \notin {n, new}
      <4>1. m \in Leaves /\ own2[l] \subseteq own[n] /\ own2[m] = own[m]
        BY <1>3, <2>2, <2>8, <3>2
      <4>2. own[n] \cap own[m] = {}
        BY <2>1, <2>8, <3>2, <4>1
      <4>3. QED
        BY <4>1, <4>2
    <3>3. CASE l \notin {n, new} /\ m \in {n, new}
      <4>1. l \in Leaves /\ own2[m] \subseteq own[n] /\ own2[l] = own[l]
        BY <1>3, <2>2, <2>8, <3>3
      <4>2. own[n] \cap own[l] = {}
        BY <2>1, <2>8, <3>3, <4>1
      <4>3. QED
        BY <4>1, <4>2
    <3>4. CASE l \notin {n, new} /\ m \notin {n, new}
      BY <1>3, <2>2, <2>8, <2>9, <3>4
    <3>5. QED
      BY <3>1, <3>2, <3>3, <3>4
  <2>10. QED
    BY <1>4, <2>6, <2>9
<1>6. CASE SplitInner(t, new)
  <2>1. PICK left \in Nat : InnerHalves(t, new, left) /\ n \in Inner
    BY <1>1, <1>6, SplitInnerHalves
  <2>2. /\ leafKeys' = leafKeys /\ kind' = [kind EXCEPT ![new] = "inner"]
        /\ n \notin Leaves
    BY <2>1 DEF InnerHalves, Inner, Leaves
  <2>3. Leaves' = Leaves
    BY <1>1, <2>2 DEF Leaves, TreeInv, TypeOK
  <2>4. ASSUME NEW m \in Nodes
        PROVE  /\ IsFiniteSet(leafKeys'[m]) /\ leafKeys'[m] \subseteq own2[m]
               /\ m \notin Leaves' => leafKeys'[m] = {}
    <3>1. /\ IsFiniteSet(leafKeys[m]) /\ leafKeys[m] \subseteq own[m]
          /\ m \notin Leaves => leafKeys[m] = {}
      BY <1>1 DEF Parted
    <3>2. m \in {n, new} => leafKeys[m] = {}
      BY <1>1, <2>2, <3>1
    <3>3. QED
      BY <1>3, <2>2, <2>3, <3>1, <3>2
  <2>5. \A l, m \in Leaves' : l # m => own2[l] \cap own2[m] = {}
    <3>1. \A l \in Leaves : own2[l] = own[l]
      BY <1>1, <1>3, <2>2
    <3>2. QED
      BY <1>1, <2>3, <3>1 DEF Parted
  <2>6. QED
    BY <1>4, <2>4, <2>5
<1>7. QED
  BY <1>5, <1>6 DEF SplitsOff

\* The children of an inner node are allocated nodes.
LEMMA ChildrenAreNodes ==
  ASSUME TreeInv, NEW p \in Inner, NEW i \in Children(p)
  PROVE  children[p][i] \in Allocated /\ children[p][i] \in Nodes
<1>1. children[p] \in Seq(Allocated)
  BY DEF TreeInv, NodesWellFormed, Inner
<1>2. children[p][i] \in Allocated
  BY <1>1 DEF Children
<1>3. QED
  BY <1>2 DEF Allocated

\* After a split the separators still part the keys of every inner node among
\* its children.
LEMMA SplitInners ==
  ASSUME TreeInv, NEW t \in Threads, NEW own, NEW led, Ordered(own, led),
         own \in [Nodes -> SUBSET Keys],
         NEW new \in Nodes, SplitsOff(t, new),
         NEW own2, NEW led2, Shares(t, new, own, led, own2, led2)
  PROVE  \A m \in Inner' :
           /\ Increasing(keys'[m])
           /\ \A i \in 1 .. count(m)' : keys'[m][i] \in own2[m]
           /\ \A i \in Children(m)' :
                led2[children'[m][i]] = {k \in own2[m] : Between(m, i, k)'}
<1>0. PICK n \in Nodes : n = node[t]
  BY SplitOutset
<1>1. /\ n \in Nodes /\ new # n /\ pc[t] = "split" /\ TypeOK
      /\ new \notin Inner /\ Parted(own, led)
      /\ \A p \in Inner : \A i \in Children(p) :
           children[p][i] # new /\ children[p][i] \in Nodes
  <2>1. /\ n \in Nodes /\ new # n /\ pc[t] = "split" /\ TypeOK
        /\ new \notin Inner /\ Parted(own, led)
        /\ \A p \in Inner : \A i \in Children(p) : children[p][i] # new
    BY <1>0, SplitOutset, Known DEF SplitsOff
  <2>2. \A p \in Inner : \A i \in Children(p) : children[p][i] \in Nodes
    BY ChildrenAreNodes
  <2>3. QED
    BY <2>1, <2>2
<1>2. /\ own[n] \subseteq Nat /\ sep'[t] \in Nat /\ sep'[t] \in own[n]
  BY <1>0, SplitDivides
<1>3. /\ own2[n] = {k \in own[n] : k <= sep'[t]}
      /\ own2[new] = {k \in own[n] : k > sep'[t]}
      /\ \A m \in Nodes : m \notin {n, new} => own2[m] = own[m]
      /\ \A m \in Nodes : m # new => led2[m] = led[m]
      /\ Inner \subseteq Nodes
  BY <1>0 DEF Shares, Inner
<1>4. ASSUME NEW m \in Inner, m # n,
             keys'[m] = keys[m], children'[m] = children[m]
      PROVE  /\ Increasing(keys'[m])
             /\ \A i \in 1 .. count(m)' : keys'[m][i] \in own2[m]
             /\ \A i \in Children(m)' :
                  led2[children'[m][i]] = {k \in own2[m] : Between(m, i, k)'}
  <2>1. m # new /\ own2[m] = own[m] /\ count(m)' = count(m)
        /\ Children(m)' = Children(m)
        /\ \A i, k : Between(m, i, k)' <=> Between(m, i, k)
    <3>1. m \in Nodes /\ m \notin {n, new}
      BY <1>1, <1>3, <1>4
    <3>2. QED
      BY <1>3, <1>4, <3>1 DEF count, Children, Between
  <2>2. \A i \in Children(m) : led2[children[m][i]] = led[children[m][i]]
    <3>1. \A i \in Children(m) : children[m][i] # new /\ children[m][i] \in Nodes
      BY <1>1
    <3>2. QED
      BY <1>3, <3>1
  <2>3. /\ Increasing(keys[m])
        /\ \A i \in 1 .. count(m) : keys[m][i] \in own[m]
        /\ \A i \in Children(m) :
             led[children[m][i]] = {k \in own[m] : Between(m, i, k)}
    BY <1>1 DEF Parted
  <2>4. QED
    BY <1>4, <2>1, <2>2, <2>3
<1>5. CASE SplitLeaf(t, new)
  <2>1. kind[n] = "leaf" /\ kind' = [kind EXCEPT ![new] = "leaf"]
        /\ UNCHANGED <<keys, children>>
    BY <1>0, <1>5 DEF SplitLeaf
  <2>2. Inner' = Inner /\ n \notin Inner
    BY <1>1, <2>1 DEF Inner, TypeOK
  <2>3. QED
    BY <1>4, <2>1, <2>2
<1>6. CASE SplitInner(t, new)
  <2>1. PICK left \in Nat : InnerHalves(t, new, left) /\ n \in Inner
    BY <1>0, <1>1, <1>6, SplitInnerHalves
  <2> DEFINE c == count(n)
  <2>2. /\ c \in Nat /\ \A i \in 1 .. c : keys[n][i] \in Nat
        /\ Len(children[n]) = c + 1 /\ Len(keys[n]) = c /\ left + 2 <= c
    <3>1. keys[n] \in Seq(Keys)
      BY <1>1 DEF TypeOK
    <3>2. QED
      BY <1>0, <1>1, <2>1, <3>1, SeparatorsAreNaturals
         DEF TreeInv, NodesWellFormed, Inner, InnerHalves, count
  <2>3. /\ \A i, j \in 1 .. c : i < j => keys[n][i] < keys[n][j]
        /\ \A i \in 1 .. c : keys[n][i] \in own[n]
        /\ \A i \in 1 .. c + 1 :
             led[children[n][i]] = {k \in own[n] : Between(n, i, k)}
        /\ \A i \in 1 .. c + 1 : children[n][i] # new /\ children[n][i] \in Nodes
    <3>1. /\ Increasing(keys[n]) /\ Children(n) = 1 .. c + 1
          /\ \A i \in 1 .. count(n) : keys[n][i] \in own[n]
          /\ \A i \in Children(n) :
               led[children[n][i]] = {k \in own[n] : Between(n, i, k)}
          /\ \A i \in Children(n) : children[n][i] # new /\ children[n][i] \in Nodes
      <4>1. Children(n) = 1 .. c + 1
        BY <2>2 DEF Children
      <4>2. /\ Increasing(keys[n])
            /\ \A i \in 1 .. count(n) : keys[n][i] \in own[n]
            /\ \A i \in Children(n) :
                 led[children[n][i]] = {k \in own[n] : Between(n, i, k)}
        BY <1>1, <2>1 DEF Parted
      <4>3. \A i \in Children(n) :
              children[n][i] # new /\ children[n][i] \in Nodes
        BY <1>1, <2>1
      <4>4. QED
        BY <4>1, <4>2, <4>3
    <3>2. \A i, j \in 1 .. c : i < j => keys[n][i] < keys[n][j]
      BY <2>2, <3>1 DEF Increasing
    <3>3. QED
      BY <3>1, <3>2
  <2>4. /\ Len(keys'[n]) = left /\ Len(keys'[new]) = c - left - 1
        /\ Len(children'[n]) = left + 1 /\ Len(children'[new]) = c - left
        /\ \A i \in 1 .. left : keys'[n][i] = keys[n][i]
        /\ \A i \in 1 .. c - left - 1 : keys'[new][i] = keys[n][left + 1 + i]
        /\ \A i \in 1 .. left + 1 : children'[n][i] = children[n][i]
        /\ \A i \in 1 .. c - left :
             children'[new][i] = children[n][left + 1 + i]
        /\ sep'[t] = keys[n][left + 1]
        /\ kind' = [kind EXCEPT ![new] = "inner"]
        /\ \A m \in Nodes : m \notin {n, new} =>
             keys'[m] = keys[m] /\ children'[m] = children[m]
    BY <1>0, <2>1 DEF InnerHalves
  <2> HIDE DEF c
  <2>5. left + 1 \in 1 .. c /\ 1 .. left \subseteq 1 .. c
        /\ \A i \in 1 .. c - left - 1 : left + 1 + i \in 1 .. c
    BY <2>2
  <2>6. /\ \A i \in 1 .. left : keys[n][i] <= sep'[t]
        /\ \A i \in 1 .. c - left - 1 : keys[n][left + 1 + i] > sep'[t]
    <3>1. ASSUME NEW i \in 1 .. left PROVE keys[n][i] <= sep'[t]
      <4>1. i \in 1 .. c /\ i < left + 1
        BY <2>5
      <4>2. QED
        BY <2>2, <2>3, <2>4, <2>5, <4>1
    <3>2. ASSUME NEW i \in 1 .. c - left - 1
          PROVE  keys[n][left + 1 + i] > sep'[t]
      <4>1. left + 1 + i \in 1 .. c /\ left + 1 < left + 1 + i
        BY <2>2, <2>5
      <4>2. QED
        BY <2>2, <2>3, <2>4, <2>5, <4>1
    <3>3. QED
      BY <3>1, <3>2
  <2>7. /\ Increasing(keys'[n])
        /\ \A i \in 1 .. count(n)' : keys'[n][i] \in own2[n]
        /\ \A i \in Children(n)' :
             led2[children'[n][i]] = {k \in own2[n] : Between(n, i, k)'}
    <3>1. Increasing(keys'[n])
      BY <2>3, <2>4, <2>5 DEF Increasing
    <3>2. count(n)' = left /\ Children(n)' = 1 .. left + 1
      BY <2>4 DEF count, Children
    <3>3. \A i \in 1 .. left : keys'[n][i] \in own2[n]
      BY <1>3, <2>3, <2>4, <2>5, <2>6
    <3>4. ASSUME NEW i \in 1 .. left + 1
          PROVE  led2[children'[n][i]] = {k \in own2[n] : Between(n, i, k)'}
      <4>1. i \in 1 .. c + 1 /\ i <= c /\ i \in Nat
        BY <2>2
      <4>2. led2[children'[n][i]] = {k \in own[n] : Between(n, i, k)}
        <5>1. children'[n][i] = children[n][i] /\ children[n][i] # new
              /\ children[n][i] \in Nodes
          BY <2>3, <2>4, <4>1
        <5>2. led[children[n][i]] = {k \in own[n] : Between(n, i, k)}
          BY <2>3, <4>1
        <5>3. QED
          BY <1>3, <5>1, <5>2
      <4>3. ASSUME NEW k \in own[n]
            PROVE  Between(n, i, k) <=> k <= sep'[t] /\ Between(n, i, k)'
        <5>1. k \in Nat
          BY <1>2
        <5>2. i > 1 => i - 1 \in 1 .. left
          BY <4>1
        <5>3. Between(n, i, k) <=>
                (i > 1 => keys[n][i - 1] < k) /\ k <= keys[n][i]
          BY <4>1 DEF Between, c
        <5>4. Between(n, i, k)' <=>
                (i > 1 => keys'[n][i - 1] < k) /\ (i <= left => k <= keys'[n][i])
          BY <3>2 DEF Between
        <5>5. CASE i = left + 1
          BY <2>4, <5>2, <5>3, <5>4, <5>5
        <5>6. CASE i # left + 1
          <6>1. i \in 1 .. left /\ i \in 1 .. c
            BY <4>1, <5>6
          <6>2. k <= keys[n][i] => k <= sep'[t]
            BY <1>2, <2>2, <2>6, <5>1, <6>1
          <6>3. QED
            BY <2>4, <5>2, <5>3, <5>4, <6>1, <6>2
        <5>7. QED
          BY <5>5, <5>6
      <4>4. QED
        BY <1>3, <4>2, <4>3
    <3>5. QED
      BY <3>1, <3>2, <3>3, <3>4
  <2>8. /\ Increasing(keys'[new])
        /\ \A i \in 1 .. count(new)' : keys'[new][i] \in own2[new]
        /\ \A i \in Children(new)' :
             led2[children'[new][i]] = {k \in own2[new] : Between(new, i, k)'}
    <3>1. Increasing(keys'[new])
      <4>1. ASSUME NEW i \in 1 .. c - left - 1, NEW j \in 1 .. c - left - 1, i < j
            PROVE  keys'[new][i] < keys'[new][j]
        <5>1. left + 1 + i < left + 1 + j
          BY <2>2, <4>1
        <5>2. QED
          BY <2>3, <2>4, <2>5, <5>1
      <4>2. QED
        BY <2>4, <4>1 DEF Increasing
    <3>2. count(new)' = c - left - 1 /\ Children(new)' = 1 .. c - left
      BY <2>4 DEF count, Children
    <3>3. ASSUME NEW i \in 1 .. c - left - 1 PROVE keys'[new][i] \in own2[new]
      <4>1. /\ keys'[new][i] = keys[n][left + 1 + i]
            /\ keys[n][left + 1 + i] > sep'[t]
            /\ left + 1 + i \in 1 .. c
        BY <2>4, <2>5, <2>6
      <4>2. QED
        BY <1>3, <2>3, <4>1
    <3>4. ASSUME NEW i \in 1 .. c - left
          PROVE  led2[children'[new][i]] = {k \in own2[new] : Between(new, i, k)'}
      <4>1. left + 1 + i \in 1 .. c + 1 /\ i \in Nat /\ left + 1 + i > 1
            /\ left + 1 + i - 1 = left + i
            /\ (left + 1 + i <= c <=> i <= c - left - 1)
        BY <2>2
      <4>2. led2[children'[new][i]]
              = {k \in own[n] : Between(n, left + 1 + i, k)}
        <5> DEFINE a == left + 1 + i
        <5>1. children'[new][i] = children[n][a] /\ a \in 1 .. c + 1
          BY <2>4, <4>1
        <5> HIDE DEF a
        <5>2. children[n][a] # new /\ children[n][a] \in Nodes
              /\ led[children[n][a]] = {k \in own[n] : Between(n, a, k)}
          BY <2>3, <5>1
        <5>3. led2[children'[new][i]] = {k \in own[n] : Between(n, a, k)}
          BY <1>3, <5>1, <5>2
        <5>4. QED
          BY <5>3 DEF a
      <4>3. ASSUME NEW k \in own[n]
            PROVE  Between(n, left + 1 + i, k)
                     <=> k > sep'[t] /\ Between(new, i, k)'
        <5>1. k \in Nat
          BY <1>2
        <5>2. Between(n, left + 1 + i, k) <=>
                /\ keys[n][left + i] < k
                /\ i <= c - left - 1 => k <= keys[n][left + 1 + i]
          BY <4>1 DEF Between, c
        <5>3. Between(new, i, k)' <=>
                /\ i > 1 => keys'[new][i - 1] < k
                /\ i <= c - left - 1 => k <= keys'[new][i]
          BY <3>2 DEF Between
        <5>4. i <= c - left - 1 => keys'[new][i] = keys[n][left + 1 + i]
          BY <2>4, <4>1
        <5>5. CASE i = 1
          BY <1>2, <2>4, <5>1, <5>2, <5>3, <5>4, <5>5
        <5>6. CASE i > 1
          <6>1. i - 1 \in 1 .. c - left - 1 /\ left + 1 + (i - 1) = left + i
            BY <2>2, <4>1, <5>6
          <6>2. /\ keys'[new][i - 1] = keys[n][left + 1 + (i - 1)]
                /\ keys[n][left + 1 + (i - 1)] > sep'[t]
                /\ left + 1 + (i - 1) \in 1 .. c
            BY <2>4, <2>5, <2>6, <6>1
          <6>3. keys'[new][i - 1] = keys[n][left + i] /\ keys[n][left + i] > sep'[t]
                /\ keys[n][left + i] \in Nat
            BY <2>2, <6>1, <6>2
          <6>4. QED
            BY <1>2, <5>1, <5>2, <5>3, <5>4, <5>6, <6>3
        <5>7. QED
          BY <4>1, <5>5, <5>6
      <4>4. QED
        BY <1>3, <4>2, <4>3
    <3>5. QED
      BY <3>1, <3>2, <3>3, <3>4
  <2>9. Inner' = Inner \cup {new}
    <3>1. kind \in [Nodes -> {"free", "leaf", "inner"}]
      BY <1>1 DEF TypeOK
    <3>2. kind' = [kind EXCEPT ![new] = "inner"]
      BY <2>4
    <3>3. QED
      BY <3>1, <3>2 DEF Inner
  <2>10. \A m \in Inner : m \in Nodes
    BY DEF Inner
  <2>11. ASSUME NEW m \in Inner, m # n
         PROVE  keys'[m] = keys[m] /\ children'[m] = children[m]
    BY <1>1, <2>4, <2>10, <2>11
  <2>12. QED
    BY <1>4, <2>7, <2>8, <2>9, <2>11
<1>7. QED
  BY <1>5, <1>6 DEF SplitsOff

\* A node becomes two, and only the thread that splits it sees the new one.
LEMMA SplitOrder ==
  ASSUME TreeInv, TreeInv', NEW t \in Threads,
         NEW own \in [Nodes -> SUBSET Keys], NEW led \in [Nodes -> SUBSET Keys],
         Ordered(own, led), Split(t)
  PROVE  \E own2, led2 \in [Nodes -> SUBSET Keys] : Ordered(own2, led2)'
<1>1. PICK new \in Nodes : SplitsOff(t, new)
  BY SplitNew
<1>2. PICK n \in Nodes : n = node[t]
  BY DEF TreeInv, TypeOK
<1>3. /\ n \in Allocated /\ new \notin Allocated /\ new # n
      /\ new \notin Inner /\ n # parent[t]
      /\ hasParent(t) => parent[t] \in Inner /\ parent[t] # new
      /\ led[n] = own[n]
  BY <1>1, <1>2, SplitOutset
<1>4. /\ TypeOK /\ Placed(t) /\ OnCourse(t, own) /\ Remembered(t)
      /\ \A m \in Nodes : word[m] >= word[m]
  BY Known
<1>5. /\ pc[t] = "split" /\ pc'[t] = "link" /\ sibling'[t] = new
      /\ UNCHANGED <<root, word, call, descent, hit>> /\ Run(t)
  BY <1>1, <1>4 DEF SplitsOff, Run, TypeOK
<1>6. \A u \in Threads : u # t => Untouched(u)
  BY <1>4, <1>5, OthersUntouched
<1>7. /\ sep'[t] \in own[n] /\ sep'[t] \in Nat /\ own[n] \subseteq Nat
      /\ \E k \in own[n] : k > sep'[t]
  BY <1>1, <1>2, SplitDivides
<1>8. PICK own2, led2 \in [Nodes -> SUBSET Keys] :
        /\ own2[n] = {k \in own[n] : k <= sep'[t]}
        /\ own2[new] = {k \in own[n] : k > sep'[t]} /\ led2[new] = own2[new]
        /\ \A m \in Nodes : m \notin {n, new} => own2[m] = own[m]
        /\ \A m \in Nodes : m # new => led2[m] = led[m]
  <2>1. PICK low \in SUBSET Keys : low = {k \in own[n] : k <= sep'[t]}
    OBVIOUS
  <2>2. PICK high \in SUBSET Keys : high = {k \in own[n] : k > sep'[t]}
    OBVIOUS
  <2> DEFINE o == [own EXCEPT ![n] = low, ![new] = high]
             l == [led EXCEPT ![new] = high]
  <2>3. o \in [Nodes -> SUBSET Keys] /\ l \in [Nodes -> SUBSET Keys]
    OBVIOUS
  <2>4. /\ o[n] = low /\ o[new] = high /\ l[new] = high
        /\ \A m \in Nodes : m \notin {n, new} => o[m] = own[m]
        /\ \A m \in Nodes : m # new => l[m] = led[m]
    BY <1>3
  <2> HIDE DEF o, l
  <2>5. QED
    BY <2>1, <2>2, <2>3, <2>4
<1> SUFFICES Ordered(own2, led2)'
  OBVIOUS
<1>9. Shares(t, new, own, led, own2, led2)
  BY <1>2, <1>8 DEF Shares
<1>10. LinkedOnce'
  BY <1>1, <1>6, SplitLinked
<1>11. Parted(own2, led2)'
  <2>1. led2[root'] = Keys
    <3>1. root # new /\ root \in Nodes /\ led[root] = Keys
      BY <1>1, <1>4, Known, SplitOutset DEF TypeOK, Parted
    <3>2. QED
      BY <1>5, <1>8, <3>1
  <2>2. /\ \A m \in Nodes :
             /\ IsFiniteSet(leafKeys'[m]) /\ leafKeys'[m] \subseteq own2[m]
             /\ m \notin Leaves' => leafKeys'[m] = {}
             /\ (\A u \in Threads : pc'[u] = "link" => node'[u] # m)
                  => led2[m] = own2[m]
        /\ \A l, m \in Leaves' : l # m => own2[l] \cap own2[m] = {}
    BY <1>1, <1>6, <1>9, SplitLeaves
  <2>3. \A m \in Inner' :
          /\ Increasing(keys'[m])
          /\ \A i \in 1 .. count(m)' : keys'[m][i] \in own2[m]
          /\ \A i \in Children(m)' :
               led2[children'[m][i]] = {k \in own2[m] : Between(m, i, k)'}
    BY <1>1, <1>9, SplitInners
  <2>4. QED
    BY <2>1, <2>2, <2>3 DEF Parted, Increasing
<1>12. \A m : Pending(m)' <=> Pending(m) \/ m = new
  BY <1>1, <1>6, SplitPending
<1>13. Dict' = Dict
  BY <1>1, SplitDict
<1>14. \A m \in Nodes : m \notin {n, new} =>
         keys'[m] = keys[m] /\ children'[m] = children[m]
         /\ leafKeys'[m] = leafKeys[m]
  <2>1. kind \in [Nodes -> {"free", "leaf", "inner"}]
        /\ keys \in [Nodes -> Seq(Keys)] /\ children \in [Nodes -> Seq(Nodes)]
        /\ leafKeys \in [Nodes -> SUBSET Keys]
    BY <1>4 DEF TypeOK
  <2>2. CASE SplitLeaf(t, new)
    BY <1>2, <2>1, <2>2 DEF SplitLeaf
  <2>3. CASE SplitInner(t, new)
    BY <1>2, <2>1, <2>3 DEF SplitInner
  <2>4. QED
    BY <1>1, <2>2, <2>3 DEF SplitsOff
<1>15. \A m \in Allocated : kind'[m] = kind[m]
  <2>1. \E s : kind' = [kind EXCEPT ![new] = s]
    BY <1>1 DEF SplitsOff, SplitLeaf, SplitInner
  <2>2. QED
    BY <1>3, <1>4, <2>1 DEF TypeOK, Allocated
<1>16. Careful(t, own, led, own2, led2)
  <2>1. \A m \in Nodes : word'[m] >= word[m]
    BY <1>4, <1>5
  <2>2. \A m \in Allocated :
          SameNode(m, own, led, own2, led2) \/ Holds(t, m)
    <3> TAKE m \in Allocated
    <3>1. m \in Nodes /\ m # new
      BY <1>3 DEF Allocated
    <3>2. CASE m = n
      BY <1>2, <1>5, <3>2 DEF Holds, HoldsNode
    <3>3. CASE m # n
      BY <1>8, <1>14, <3>1, <3>3 DEF SameNode
    <3>4. QED
      BY <3>2, <3>3
  <2>3. root' = root /\ Dict \subseteq Dict'
        /\ \A m \in Nodes : Pending(m)' => Pending(m) \/ m \notin Allocated
    BY <1>3, <1>5, <1>12, <1>13
  <2>4. QED
    BY <1>15, <2>1, <2>2, <2>3 DEF Careful
<1>17. Informed(t, own2, led2)'
  <2>1. (hasParent(t)' <=> hasParent(t)) /\ node'[t] = n /\ parent'[t] = parent[t]
        /\ key' = key /\ present' = present
    BY <1>2, <1>5 DEF descent, call, hasParent
  <2>2. Placed(t)'
    <3>1. (~Pending(node[t]))'
      BY <1>2, <1>3, <1>4, <1>12, <2>1 DEF Placed
    <3>2. parent[t] # new
      BY <1>3, SetsAssumption DEF hasParent
    <3>3. (~Pending(parent[t]))'
      BY <1>4, <1>12, <2>1, <3>2 DEF Placed
    <3>4. ~hasParent(t) => n = root'
      BY <1>2, <1>4, <1>5 DEF Placed
    <3>5. QED
      BY <1>5, <2>1, <3>1, <3>3, <3>4 DEF Placed
  <2>3. Behind(t)' /\ Answered(t)'
    BY <1>5 DEF Behind, Answered
  <2>4. OnCourse(t, own2)'
    <3>1. ASSUME hasParent(t) PROVE Leads(t, own2)'
      <4>1. parent[t] \in Nodes /\ parent[t] \notin {n, new}
        BY <1>3, <3>1 DEF Inner
      <4>2. Leads(t, own)
        BY <1>4, <1>5, <3>1 DEF OnCourse
      <4>3. /\ own2[parent[t]] = own[parent[t]]
            /\ keys'[parent[t]] = keys[parent[t]]
            /\ children'[parent[t]] = children[parent[t]]
        BY <1>8, <1>14, <4>1
      <4>4. \A k : lowerBound(parent[t], k)' = lowerBound(parent[t], k)
        BY <2>1, <4>3 DEF lowerBound, count
      <4>5. QED
        BY <1>2, <2>1, <4>2, <4>3, <4>4 DEF Leads
    <3>2. QED
      BY <1>5, <2>1, <3>1 DEF OnCourse
  <2>5. Halved(t, own2, led2)'
    <3>1. led2[n] = own[n]
      BY <1>3, <1>8
    <3>2. /\ own2[n] = {k \in led2[n] : k <= sep'[t]}
          /\ own2[new] = {k \in led2[n] : k > sep'[t]}
      BY <1>8, <3>1
    <3>3. sep'[t] \in own2[n] /\ own2[new] # {}
      BY <1>7, <1>8
    <3>4. QED
      BY <1>5, <2>1, <3>2, <3>3 DEF Halved
  <2>6. Remembered(t)'
    BY <1>4, <1>5, <1>13, <2>1 DEF Remembered
  <2>7. QED
    BY <2>2, <2>3, <2>4, <2>5, <2>6 DEF Informed
<1>18. \A u \in Threads : u # t => Informed(u, own2, led2)'
  BY <1>4, <1>6, <1>16, OrderFrame DEF Ordered
<1>19. QED
  BY <1>10, <1>11, <1>17, <1>18 DEF Ordered

\* What Link does besides storing into the tree.
LinksUp(t) ==
  /\ pc[t] = "link" /\ pc' = [pc EXCEPT ![t] = "unlockNode"]
  /\ UNCHANGED <<word, leafKeys, call, descent, sep, sibling, hit>>

\* The two halves that a split left, and the keys that still lead to the first.
LEMMA LinkOutset ==
  ASSUME TreeInv, NEW t \in Threads,
         NEW own \in [Nodes -> SUBSET Keys], NEW led \in [Nodes -> SUBSET Keys],
         Ordered(own, led), pc[t] = "link"
  PROVE  /\ node[t] \in Nodes /\ node[t] \in Allocated
         /\ sibling[t] \in Nodes /\ sibling[t] \in Allocated
         /\ sibling[t] # node[t] /\ sibling[t] # root
         /\ Pending(sibling[t]) /\ ~Pending(node[t])
         /\ \A p \in Inner : \A i \in Children(p) :
              children[p][i] # sibling[t]
         /\ led[sibling[t]] = own[sibling[t]]
         /\ led[node[t]] \subseteq Nat /\ sep[t] \in Nat /\ sep[t] \in Keys
         /\ own[node[t]] = {k \in led[node[t]] : k <= sep[t]}
         /\ own[sibling[t]] = {k \in led[node[t]] : k > sep[t]}
         /\ sep[t] \in led[node[t]]
         /\ \E k \in led[node[t]] : k > sep[t]
<1>1. /\ TypeOK /\ ThreadInv(t) /\ Parted(own, led) /\ LinkedOnce /\ Placed(t)
      /\ Halved(t, own, led)
  BY Known
<1>2. /\ node[t] \in Nodes /\ node[t] \in Allocated
      /\ sibling[t] \in Nodes /\ sibling[t] \in Allocated
      /\ sep[t] \in Keys /\ sep[t] \in Nat
      /\ led[node[t]] \subseteq Nat
  BY <1>1, SetsAssumption DEF TypeOK, ThreadInv, PointersGood
<1>3. Pending(sibling[t]) /\ ~Pending(node[t])
  BY <1>1 DEF Pending, Placed
<1>4. \A p \in Inner : \A i \in Children(p) : children[p][i] # sibling[t]
  BY <1>1, <1>3 DEF LinkedOnce
<1>5. led[sibling[t]] = own[sibling[t]]
  <2>1. \A u \in Threads : pc[u] = "link" => node[u] # sibling[t]
    BY <1>3, Known DEF Placed
  <2>2. QED
    BY <1>1, <1>2, <2>1 DEF Parted
<1>6. sibling[t] # node[t] /\ sibling[t] # root
  BY <1>1, <1>3 DEF LinkedOnce
<1>7. /\ own[node[t]] = {k \in led[node[t]] : k <= sep[t]}
      /\ own[sibling[t]] = {k \in led[node[t]] : k > sep[t]}
      /\ sep[t] \in own[node[t]] /\ own[sibling[t]] # {}
  BY <1>1 DEF Halved
<1>8. sep[t] \in led[node[t]] /\ \E k \in led[node[t]] : k > sep[t]
  BY <1>7
<1>9. QED
  BY <1>2, <1>3, <1>4, <1>5, <1>6, <1>7, <1>8

\* With the link, the new node is pending no more.
LEMMA LinkPending ==
  ASSUME TreeInv, NEW t \in Threads, NEW own, NEW led, Ordered(own, led),
         LinksUp(t), \A u \in Threads : u # t => Untouched(u)
  PROVE  /\ \A u \in Threads : pc'[u] = "link" <=> pc[u] = "link" /\ u # t
         /\ \A u \in Threads : node'[u] = node[u] /\ sibling'[u] = sibling[u]
         /\ \A m : Pending(m)' <=> Pending(m) /\ m # sibling[t]
<1>1. TypeOK /\ LinkedOnce
  BY Known
<1>2. /\ pc[t] = "link" /\ pc'[t] = "unlockNode"
      /\ node'[t] = node[t] /\ sibling'[t] = sibling[t]
  BY <1>1 DEF LinksUp, TypeOK, descent
<1>3. \A u \in Threads : u # t =>
        pc'[u] = pc[u] /\ sibling'[u] = sibling[u] /\ node'[u] = node[u]
  BY DEF Untouched, SameLocals
<1>4. \A u \in Threads : pc[u] = "link" /\ sibling[u] = sibling[t] => u = t
  BY <1>1, <1>2 DEF LinkedOnce
<1>5. \A m : Pending(m)' <=> Pending(m) /\ m # sibling[t]
  BY <1>2, <1>3, <1>4 DEF Pending
<1>6. QED
  BY <1>2, <1>3, <1>5

\* After a link each leaf holds keys of its own, and the node that was split is
\* led to no more than it owns.
LEMMA LinkLeaves ==
  ASSUME TreeInv, NEW t \in Threads, NEW own, NEW led, Ordered(own, led),
         LinksUp(t), \A u \in Threads : u # t => Untouched(u),
         Leaves' = Leaves,
         NEW own2, NEW led2,
         led2[node[t]] = own2[node[t]],
         \A m \in Nodes :
           \/ own2[m] = own[m]
           \/ m \notin Leaves /\ led2[m] = own2[m],
         \A m \in Nodes : m # node[t] =>
           (led2[m] = led[m] /\ own2[m] = own[m]) \/ led2[m] = own2[m]
  PROVE  /\ \A m \in Nodes :
              /\ IsFiniteSet(leafKeys'[m]) /\ leafKeys'[m] \subseteq own2[m]
              /\ m \notin Leaves' => leafKeys'[m] = {}
              /\ (\A u \in Threads : pc'[u] = "link" => node'[u] # m)
                   => led2[m] = own2[m]
         /\ \A l, m \in Leaves' : l # m => own2[l] \cap own2[m] = {}
<1>1. Parted(own, led) /\ leafKeys' = leafKeys
  BY Known DEF LinksUp
<1>2. ASSUME NEW m \in Nodes
      PROVE  /\ IsFiniteSet(leafKeys'[m]) /\ leafKeys'[m] \subseteq own2[m]
             /\ m \notin Leaves' => leafKeys'[m] = {}
  <2>1. /\ IsFiniteSet(leafKeys[m]) /\ leafKeys[m] \subseteq own[m]
        /\ m \notin Leaves => leafKeys[m] = {}
    BY <1>1 DEF Parted
  <2>2. QED
    BY <1>1, <2>1
<1>3. ASSUME NEW m \in Nodes,
             \A u \in Threads : pc'[u] = "link" => node'[u] # m
      PROVE  led2[m] = own2[m]
  <2>1. m # node[t] => \A u \in Threads : pc[u] = "link" => node[u] # m
    BY <1>3, LinkPending
  <2>2. m # node[t] => led[m] = own[m]
    BY <1>1, <2>1 DEF Parted
  <2>3. QED
    BY <2>2
<1>4. \A l, m \in Leaves' : l # m => own2[l] \cap own2[m] = {}
  <2>1. \A l \in Leaves : own2[l] = own[l]
    BY DEF Leaves
  <2>2. QED
    BY <1>1, <2>1 DEF Parted
<1>5. QED
  BY <1>2, <1>3, <1>4

\* What BTreeInner::insert puts where: the separator and the new node go right
\* of the i-th child, the node that was split.
InsertedAt(t, p, i) ==
  /\ i \in 1 .. count(p) + 1 /\ node[t] = children[p][i]
  /\ Inserted(keys'[p], keys[p], i, sep[t])
  /\ Inserted(children'[p], children[p], i + 1, sibling[t])
  /\ \A m \in Nodes : m # p => keys'[m] = keys[m] /\ children'[m] = children[m]

\* The separator belongs where the parent has the node that was split, though
\* it is looked up by itself.
LEMMA LinkPlace ==
  ASSUME TreeInv, NEW t \in Threads,
         NEW own \in [Nodes -> SUBSET Keys], NEW led \in [Nodes -> SUBSET Keys],
         Ordered(own, led), pc[t] = "link", hasParent(t), InsertInner(t)
  PROVE  /\ parent[t] \in Inner
         /\ \E i : InsertedAt(t, parent[t], i)
<1>1. TypeOK /\ ThreadInv(t) /\ Parted(own, led) /\ OnCourse(t, own)
  BY Known
<1>2. PICK p \in Inner : p = parent[t]
  BY <1>1 DEF ThreadInv, PointersGood, Inner, hasParent, TypeOK
<1> DEFINE c == count(p)
           pos == lowerBound(p, key[t])
<1>3. /\ p \in Nodes /\ keys[p] \in Seq(Keys) /\ children[p] \in Seq(Nodes)
      /\ Increasing(keys[p]) /\ c \in Nat
      /\ Len(keys[p]) = c /\ Len(children[p]) = c + 1
  <2>1. p \in Nodes /\ keys[p] \in Seq(Keys) /\ children[p] \in Seq(Nodes)
    BY <1>1 DEF Inner, TypeOK
  <2>2. Increasing(keys[p]) /\ Len(children[p]) = count(p) + 1
    BY <1>1, <2>1 DEF Parted, TreeInv, NodesWellFormed, Inner
  <2>3. QED
    BY <2>1, <2>2, SeparatorsAreNaturals DEF count
<1>4. node[t] = children[p][pos] /\ pos \in 1 .. c + 1
  <2>1. Leads(t, own) /\ key[t] \in Keys
    BY <1>1 DEF OnCourse, TypeOK
  <2>2. QED
    BY <1>2, <1>3, <2>1, LowerBoundBetween DEF Leads
<1>5. sep[t] \in Keys /\ sep[t] \in led[node[t]] /\ sibling[t] \in Nodes
  BY LinkOutset
<1>6. pos = lowerBound(p, sep[t])
  <2>1. pos \in Children(p)
    BY <1>3, <1>4 DEF Children
  <2>2. Between(p, pos, sep[t])
    BY <1>1, <1>4, <1>5, <2>1 DEF Parted
  <2>3. QED
    BY <1>3, <1>4, <1>5, <2>2, LowerBoundBetween
<1> HIDE DEF c, pos
<1> DEFINE ks == InsertAt(keys[p], pos, sep[t])
           cs == InsertAt(children[p], pos + 1, sibling[t])
<1>7. keys' = [keys EXCEPT ![p] = ks] /\ children' = [children EXCEPT ![p] = cs]
  BY <1>2, <1>6 DEF InsertInner
<1>8. Inserted(ks, keys[p], pos, sep[t])
  <2>1. pos \in 1 .. Len(keys[p]) + 1
    BY <1>3, <1>4
  <2>2. QED
    BY <1>3, <1>5, <2>1, InsertAtElement
<1>9. Inserted(cs, children[p], pos + 1, sibling[t])
  <2>1. pos + 1 \in 1 .. Len(children[p]) + 1
    BY <1>3, <1>4
  <2>2. QED
    BY <1>3, <1>5, <2>1, InsertAtElement
<1> HIDE DEF ks, cs
<1>10. /\ keys'[p] = ks /\ children'[p] = cs
       /\ \A m \in Nodes : m # p =>
            keys'[m] = keys[m] /\ children'[m] = children[m]
  BY <1>1, <1>3, <1>7 DEF TypeOK
<1>11. InsertedAt(t, p, pos)
  BY <1>4, <1>8, <1>9, <1>10 DEF InsertedAt, c
<1>12. QED
  BY <1>2, <1>11

\* After the link in a parent each separator still parts the keys on its sides.
LEMMA LinkInners ==
  ASSUME TreeInv, NEW t \in Threads,
         NEW own \in [Nodes -> SUBSET Keys], NEW led \in [Nodes -> SUBSET Keys],
         Ordered(own, led), pc[t] = "link",
         NEW p \in Inner, NEW i, InsertedAt(t, p, i),
         NEW led2, led2[node[t]] = own[node[t]],
         \A m \in Nodes : m # node[t] => led2[m] = led[m]
  PROVE  \A m \in Inner :
           /\ Increasing(keys'[m])
           /\ \A j \in 1 .. count(m)' : keys'[m][j] \in own[m]
           /\ \A j \in Children(m)' :
                led2[children'[m][j]] = {k \in own[m] : Between(m, j, k)'}
<1>1. TypeOK /\ Parted(own, led) /\ LinkedOnce
  BY Known
<1> DEFINE c == count(p)
<1>2. PICK n \in Nodes : n = node[t]
  BY <1>1 DEF TypeOK
<1>3. PICK s \in Nodes : s = sibling[t]
  BY <1>1 DEF TypeOK
<1>4. /\ s # n /\ led[s] = own[s] /\ sep[t] \in Nat
      /\ own[n] = {k \in led[n] : k <= sep[t]}
      /\ own[s] = {k \in led[n] : k > sep[t]}
      /\ sep[t] \in led[n] /\ \E k \in led[n] : k > sep[t]
  BY <1>2, <1>3, LinkOutset
<1>5. /\ p \in Nodes /\ c \in Nat /\ Len(keys[p]) = c /\ Len(children[p]) = c + 1
      /\ Children(p) = 1 .. c + 1
      /\ \A j \in 1 .. c : keys[p][j] \in Nat
  <2>1. p \in Nodes /\ keys[p] \in Seq(Keys) /\ Len(children[p]) = count(p) + 1
    BY <1>1 DEF Inner, TypeOK, TreeInv, NodesWellFormed
  <2>2. QED
    BY <2>1, SeparatorsAreNaturals DEF count, Children
<1>6. /\ i \in 1 .. c + 1 /\ n = children[p][i]
      /\ Len(keys'[p]) = c + 1 /\ Len(children'[p]) = c + 2
      /\ \A j \in 1 .. c + 1 :
           keys'[p][j] = IF j < i THEN keys[p][j]
                         ELSE IF j = i THEN sep[t] ELSE keys[p][j - 1]
      /\ \A j \in 1 .. c + 2 :
           children'[p][j] = IF j < i + 1 THEN children[p][j]
                             ELSE IF j = i + 1 THEN s
                             ELSE children[p][j - 1]
      /\ \A m \in Nodes : m # p =>
           keys'[m] = keys[m] /\ children'[m] = children[m]
  <2>1. c + 1 + 1 = c + 2
    BY <1>5
  <2>2. QED
    BY <1>2, <1>3, <1>5, <2>1 DEF InsertedAt, Inserted
<1>7. /\ \A a, b \in 1 .. c : a < b => keys[p][a] < keys[p][b]
      /\ \A j \in 1 .. c : keys[p][j] \in own[p]
      /\ \A j \in 1 .. c + 1 :
           led[children[p][j]] = {k \in own[p] : Between(p, j, k)}
      /\ own[p] \subseteq Nat
  <2>1. /\ Increasing(keys[p])
        /\ \A j \in 1 .. count(p) : keys[p][j] \in own[p]
        /\ \A j \in Children(p) :
             led[children[p][j]] = {k \in own[p] : Between(p, j, k)}
    BY <1>1 DEF Parted
  <2>2. \A a, b \in 1 .. c : a < b => keys[p][a] < keys[p][b]
    BY <1>5, <2>1 DEF Increasing
  <2>3. QED
    BY <1>5, <2>1, <2>2, SetsAssumption
<1>8. \A m \in Inner : \A j \in Children(m) :
        children[m][j] \in Nodes /\ (children[m][j] = n => m = p /\ j = i)
  <2>1. \A m \in Inner : \A j \in Children(m) : children[m][j] \in Nodes
    BY ChildrenAreNodes
  <2>2. i \in Children(p)
    BY <1>5, <1>6
  <2>3. \A m \in Inner : \A j \in Children(m) :
          children[m][j] = n => m = p /\ j = i
    BY <1>1, <1>6, <2>2 DEF LinkedOnce
  <2>4. QED
    BY <2>1, <2>3
<1>9. \A j \in 1 .. c + 1 : j # i =>
        led2[children[p][j]] = {k \in own[p] : Between(p, j, k)}
  <2> TAKE j \in 1 .. c + 1
  <2> HAVE j # i
  <2>1. children[p][j] \in Nodes /\ children[p][j] # n
    BY <1>5, <1>8
  <2>2. led2[children[p][j]] = led[children[p][j]]
    BY <1>2, <2>1
  <2>3. QED
    BY <1>7, <2>2
<1> HIDE DEF c
<1>10. \A a \in 1 .. c + 1 : \A k :
         Between(p, a, k) <=> (a > 1 => keys[p][a - 1] < k)
                                /\ (a <= c => k <= keys[p][a])
  BY DEF Between, c
<1>11. /\ sep[t] \in own[p]
       /\ i > 1 => keys[p][i - 1] < sep[t]
       /\ i <= c => sep[t] < keys[p][i]
  <2>1. led[n] = {k \in own[p] : Between(p, i, k)}
    BY <1>6, <1>7
  <2>2. sep[t] \in own[p] /\ Between(p, i, sep[t])
    BY <1>4, <2>1
  <2>3. PICK k \in own[p] : Between(p, i, k) /\ k > sep[t]
    BY <1>4, <2>1
  <2>4. i <= c => i \in 1 .. c
    BY <1>5, <1>6
  <2>5. i <= c => k <= keys[p][i] /\ keys[p][i] \in Nat /\ k \in Nat
    BY <1>5, <1>6, <1>7, <1>10, <2>3, <2>4
  <2>6. QED
    BY <1>4, <1>6, <1>10, <2>2, <2>3, <2>5
<1>11a. ASSUME NEW j \in 1 .. c + 1
        PROVE  /\ j < i => j \in 1 .. c /\ keys'[p][j] = keys[p][j]
               /\ j = i => keys'[p][j] = sep[t]
               /\ j > i => j - 1 \in 1 .. c /\ keys'[p][j] = keys[p][j - 1]
  <2>1. keys'[p][j] = IF j < i THEN keys[p][j]
                      ELSE IF j = i THEN sep[t] ELSE keys[p][j - 1]
    BY <1>6
  <2>2. c \in Nat /\ i \in 1 .. c + 1
    BY <1>5, <1>6
  <2>3. (j < i => j \in 1 .. c) /\ (j > i => j - 1 \in 1 .. c)
    BY <2>2
  <2>4. (j = i => ~(j < i)) /\ (j > i => ~(j < i) /\ j # i)
    BY <2>2
  <2>5. QED
    BY <2>1, <2>3, <2>4
<1>12. ASSUME NEW m \in Inner, m # p
       PROVE  /\ Increasing(keys'[m])
              /\ \A j \in 1 .. count(m)' : keys'[m][j] \in own[m]
              /\ \A j \in Children(m)' :
                   led2[children'[m][j]] = {k \in own[m] : Between(m, j, k)'}
  <2>1. m \in Nodes /\ keys'[m] = keys[m] /\ children'[m] = children[m]
    BY <1>6, <1>12 DEF Inner
  <2>2. /\ Increasing(keys[m])
        /\ \A j \in 1 .. count(m) : keys[m][j] \in own[m]
        /\ \A j \in Children(m) :
             led[children[m][j]] = {k \in own[m] : Between(m, j, k)}
    BY <1>1 DEF Parted
  <2>3. /\ count(m)' = count(m) /\ Children(m)' = Children(m)
        /\ \A j, k : Between(m, j, k)' <=> Between(m, j, k)
    BY <2>1 DEF count, Children, Between
  <2>4. \A j \in Children(m) : led2[children[m][j]] = led[children[m][j]]
    <3>1. \A j \in Children(m) : children[m][j] \in Nodes /\ children[m][j] # n
      BY <1>8, <1>12
    <3>2. QED
      BY <1>2, <3>1
  <2>5. QED
    BY <2>1, <2>2, <2>3, <2>4
<1>13. Increasing(keys'[p])
  <2>1. ASSUME NEW a \in 1 .. c + 1, NEW b \in 1 .. c + 1, a < b
        PROVE  keys'[p][a] < keys'[p][b]
    <3>1. /\ a < i => a \in 1 .. c /\ keys'[p][a] = keys[p][a]
          /\ a = i => keys'[p][a] = sep[t]
          /\ a > i => a - 1 \in 1 .. c /\ keys'[p][a] = keys[p][a - 1]
      BY <1>11a
    <3>2. /\ b < i => b \in 1 .. c /\ keys'[p][b] = keys[p][b]
          /\ b = i => keys'[p][b] = sep[t]
          /\ b > i => b - 1 \in 1 .. c /\ keys'[p][b] = keys[p][b - 1]
      BY <1>11a
    <3>3. CASE b < i
      BY <1>5, <1>6, <1>7, <2>1, <3>1, <3>2, <3>3
    <3>4. CASE b = i
      <4>1. a \in 1 .. c /\ i - 1 \in 1 .. c /\ a <= i - 1 /\ i > 1
        BY <1>5, <1>6, <2>1, <3>1, <3>4
      <4>2. keys[p][a] <= keys[p][i - 1]
        BY <1>5, <1>7, <4>1
      <4>3. QED
        BY <1>4, <1>5, <1>11, <2>1, <3>1, <3>2, <3>4, <4>1, <4>2
    <3>5. CASE b > i /\ a = i
      <4>1. b - 1 \in 1 .. c /\ i \in 1 .. c /\ i <= b - 1 /\ i <= c
        BY <1>5, <1>6, <2>1, <3>2, <3>5
      <4>2. keys[p][i] <= keys[p][b - 1]
        BY <1>5, <1>7, <4>1
      <4>3. QED
        BY <1>4, <1>5, <1>11, <3>1, <3>2, <3>5, <4>1, <4>2
    <3>6. CASE b > i /\ a > i
      <4>1. a - 1 \in 1 .. c /\ b - 1 \in 1 .. c /\ a - 1 < b - 1
        BY <1>5, <1>6, <2>1, <3>1, <3>2, <3>6
      <4>2. QED
        BY <1>7, <3>1, <3>2, <3>6, <4>1
    <3>7. CASE b > i /\ a < i
      <4>1. a \in 1 .. c /\ i - 1 \in 1 .. c /\ a <= i - 1 /\ i > 1
            /\ b - 1 \in 1 .. c /\ i \in 1 .. c /\ i <= b - 1 /\ i <= c
        BY <1>5, <1>6, <2>1, <3>1, <3>2, <3>7
      <4>2. keys[p][a] <= keys[p][i - 1] /\ keys[p][i] <= keys[p][b - 1]
        <5>1. \A g, h \in 1 .. c : g <= h => keys[p][g] <= keys[p][h]
          BY <1>5, <1>7
        <5>2. QED
          BY <4>1, <5>1
      <4>3. /\ keys[p][a] \in Nat /\ keys[p][i - 1] \in Nat
            /\ keys[p][b - 1] \in Nat /\ keys[p][i] \in Nat /\ sep[t] \in Nat
            /\ keys[p][i - 1] < sep[t] /\ sep[t] < keys[p][i]
        BY <1>4, <1>5, <1>11, <4>1
      <4>4. keys[p][a] < keys[p][b - 1]
        BY <4>2, <4>3
      <4>5. QED
        BY <3>1, <3>2, <3>7, <4>4
    <3>8. QED
      BY <1>6, <3>3, <3>4, <3>5, <3>6, <3>7
  <2>2. QED
    BY <1>6, <2>1 DEF Increasing
<1>14. count(p)' = c + 1 /\ Children(p)' = 1 .. c + 2
  BY <1>6 DEF count, Children
<1>15. ASSUME NEW j \in 1 .. c + 1 PROVE keys'[p][j] \in own[p]
  <2>1. /\ j < i => j \in 1 .. c /\ keys'[p][j] = keys[p][j]
        /\ j = i => keys'[p][j] = sep[t]
        /\ j > i => j - 1 \in 1 .. c /\ keys'[p][j] = keys[p][j - 1]
    BY <1>11a
  <2>2. j < i \/ j = i \/ j > i
    BY <1>6
  <2>3. QED
    BY <1>7, <1>11, <2>1, <2>2
<1>16. ASSUME NEW j \in 1 .. c + 2
       PROVE  led2[children'[p][j]] = {k \in own[p] : Between(p, j, k)'}
  <2>1. \A k : Between(p, j, k)' <=> (j > 1 => keys'[p][j - 1] < k)
                                       /\ (j <= c + 1 => k <= keys'[p][j])
    BY <1>14 DEF Between
  <2>2. led[n] = {k \in own[p] : Between(p, i, k)}
    BY <1>6, <1>7
  <2>3. CASE j < i
    <3>1. j \in 1 .. c + 1 /\ j <= c /\ j <= c + 1 /\ j # i
          /\ children'[p][j] = children[p][j] /\ keys'[p][j] = keys[p][j]
      BY <1>5, <1>6, <2>3
    <3>2. j > 1 => keys'[p][j - 1] = keys[p][j - 1]
      BY <1>5, <1>6, <2>3
    <3>3. \A k : Between(p, j, k)' <=> Between(p, j, k)
      BY <1>10, <2>1, <3>1, <3>2
    <3>4. QED
      BY <1>9, <3>1, <3>3
  <2>4. CASE j = i
    <3>1. children'[p][j] = n /\ keys'[p][j] = sep[t] /\ j <= c + 1
      BY <1>5, <1>6, <2>4
    <3>2. j > 1 => keys'[p][j - 1] = keys[p][j - 1]
      BY <1>5, <1>6, <2>4
    <3>3. ASSUME NEW k \in own[p]
          PROVE  Between(p, j, k)' <=> Between(p, i, k) /\ k <= sep[t]
      <4>1. k \in Nat
        BY <1>7
      <4>2. i <= c => keys[p][i] \in Nat
        BY <1>5, <1>6
      <4>3. QED
        BY <1>4, <1>6, <1>10, <1>11, <2>1, <2>4, <3>1, <3>2, <4>1, <4>2
    <3>4. QED
      BY <1>2, <1>4, <2>2, <3>1, <3>3
  <2>5. CASE j = i + 1
    <3>1. children'[p][j] = s /\ keys'[p][j - 1] = sep[t] /\ j > 1
          /\ (j <= c + 1 <=> i <= c)
      BY <1>5, <1>6, <2>5
    <3>2. j <= c + 1 => keys'[p][j] = keys[p][i]
      BY <1>5, <1>6, <2>5
    <3>3. ASSUME NEW k \in own[p]
          PROVE  Between(p, j, k)' <=> Between(p, i, k) /\ k > sep[t]
      <4>1. k \in Nat
        BY <1>7
      <4>2. i > 1 => keys[p][i - 1] \in Nat
        <5>1. i > 1 => i - 1 \in 1 .. c
          BY <1>5, <1>6
        <5>2. QED
          BY <1>5, <5>1
      <4>3. Between(p, j, k)' <=> sep[t] < k /\ (i <= c => k <= keys[p][i])
        BY <2>1, <3>1, <3>2
      <4>4. Between(p, i, k) <=> (i > 1 => keys[p][i - 1] < k)
                                   /\ (i <= c => k <= keys[p][i])
        BY <1>6, <1>10
      <4>5. i > 1 /\ k > sep[t] => keys[p][i - 1] < k
        BY <1>4, <1>11, <4>1, <4>2
      <4>6. sep[t] < k <=> k > sep[t]
        BY <1>4, <4>1
      <4>7. QED
        BY <4>3, <4>4, <4>5, <4>6
    <3>4. led2[s] = own[s]
      BY <1>2, <1>4
    <3>5. QED
      BY <1>4, <2>2, <3>1, <3>3, <3>4
  <2>6. CASE j > i + 1
    <3>1. /\ j - 1 \in 1 .. c + 1 /\ j - 1 # i /\ j > 1 /\ j - 1 > 1
          /\ (j <= c + 1 <=> j - 1 <= c)
          /\ children'[p][j] = children[p][j - 1]
          /\ keys'[p][j - 1] = keys[p][j - 1 - 1]
      BY <1>5, <1>6, <2>6
    <3>2. j <= c + 1 => keys'[p][j] = keys[p][j - 1]
      BY <1>5, <1>6, <2>6
    <3>3. \A k : Between(p, j, k)' <=> Between(p, j - 1, k)
      BY <1>10, <2>1, <3>1, <3>2
    <3>4. QED
      BY <1>9, <3>1, <3>3
  <2>7. QED
    BY <1>5, <1>6, <2>3, <2>4, <2>5, <2>6
<1>17. /\ \A j \in 1 .. count(p)' : keys'[p][j] \in own[p]
       /\ \A j \in Children(p)' :
            led2[children'[p][j]] = {k \in own[p] : Between(p, j, k)'}
  BY <1>14, <1>15, <1>16
<1>18. QED
  BY <1>12, <1>13, <1>17

\* A link in a parent links the new node, and no node twice.
LEMMA LinkLinked ==
  ASSUME TreeInv, NEW t \in Threads,
         NEW own \in [Nodes -> SUBSET Keys], NEW led \in [Nodes -> SUBSET Keys],
         Ordered(own, led), LinksUp(t),
         \A u \in Threads : u # t => Untouched(u),
         NEW p \in Inner, NEW i, InsertedAt(t, p, i), UNCHANGED <<root, kind>>
  PROVE  LinkedOnce'
<1>1. TypeOK /\ LinkedOnce /\ pc[t] = "link"
  BY Known DEF LinksUp
<1>2. PICK s : s = sibling[t]
  OBVIOUS
<1>3. /\ s # root /\ \A m \in Inner : \A j \in Children(m) : children[m][j] # s
  BY <1>1, <1>2, LinkOutset
<1>4. /\ \A u \in Threads : pc'[u] = "link" <=> pc[u] = "link" /\ u # t
      /\ \A u \in Threads : sibling'[u] = sibling[u]
      /\ \A m : (\E u \in Threads : pc'[u] = "link" /\ sibling'[u] = m)
                  <=> Pending(m) /\ m # s
  BY <1>2, LinkPending DEF Pending
<1>5. Inner' = Inner /\ Inner \subseteq Nodes /\ root' = root
  BY DEF Inner
<1> DEFINE c == count(p)
<1>6. c \in Nat /\ i \in 1 .. c + 1 /\ Children(p) = 1 .. c + 1
      /\ Len(children[p]) + 1 = c + 2
  <2>1. p \in Nodes /\ keys[p] \in Seq(Keys) /\ Len(children[p]) = count(p) + 1
    BY <1>1 DEF Inner, TypeOK, TreeInv, NodesWellFormed
  <2>2. c \in Nat
    BY <2>1, SeparatorsAreNaturals
  <2>3. QED
    BY <2>1, <2>2 DEF InsertedAt, Children
<1>7. /\ Len(children'[p]) = c + 2
      /\ \A j \in 1 .. c + 2 :
           children'[p][j] = IF j < i + 1 THEN children[p][j]
                             ELSE IF j = i + 1 THEN s ELSE children[p][j - 1]
      /\ \A m \in Nodes : m # p => children'[m] = children[m]
  BY <1>2, <1>6 DEF InsertedAt, Inserted
<1> HIDE DEF c
<1> DEFINE new(m, j) == m = p /\ j = i + 1
           J(m, j) == IF m = p /\ j > i + 1 THEN j - 1 ELSE j
<1>8. ASSUME NEW m \in Inner, NEW j \in Children(m)'
      PROVE  /\ j \in Nat /\ i \in Nat
             /\ new(m, j) => children'[m][j] = s
             /\ ~new(m, j) => /\ J(m, j) \in Children(m)
                              /\ children'[m][j] = children[m][J(m, j)]
  <2>1. j \in Nat /\ i \in Nat /\ j >= 1 /\ j <= Len(children'[m])
    BY <1>6 DEF Children
  <2>2. CASE m # p
    <3>1. children'[m] = children[m]
      BY <1>5, <1>7, <2>2
    <3>2. QED
      BY <2>1, <2>2, <3>1 DEF Children
  <2>3. CASE m = p
    <3>1. j \in 1 .. c + 2
      BY <1>6, <1>7, <2>1, <2>3
    <3>2. CASE j < i + 1
      <4>1. j \in Children(p) /\ J(m, j) = j /\ children'[m][j] = children[m][j]
        BY <1>6, <1>7, <2>3, <3>1, <3>2
      <4>2. QED
        BY <1>6, <2>1, <2>3, <3>2, <4>1
    <3>3. CASE j = i + 1
      BY <1>6, <1>7, <2>1, <2>3, <3>1, <3>3
    <3>4. CASE j > i + 1
      <4>1. j - 1 \in Children(p) /\ J(m, j) = j - 1
            /\ children'[m][j] = children[m][j - 1]
        BY <1>6, <1>7, <2>3, <3>1, <3>4
      <4>2. QED
        BY <1>6, <2>1, <2>3, <3>4, <4>1
    <3>5. QED
      BY <2>1, <3>2, <3>3, <3>4
  <2>4. QED
    BY <2>2, <2>3
<1> HIDE DEF J
<1>9. ASSUME NEW m \in Inner, NEW j \in Children(m)'
      PROVE  /\ children'[m][j] # root
             /\ ~\E u \in Threads : pc'[u] = "link" /\ sibling'[u] = children'[m][j]
  <2>1. CASE new(m, j)
    BY <1>3, <1>4, <1>8, <2>1
  <2>2. CASE ~new(m, j)
    <3>1. children'[m][j] # root /\ ~Pending(children'[m][j])
      BY <1>1, <1>8, <2>2 DEF LinkedOnce
    <3>2. QED
      BY <1>4, <3>1
  <2>3. QED
    BY <2>1, <2>2
<1>10. ASSUME NEW m \in Inner, NEW q \in Inner,
              NEW j \in Children(m)', NEW k \in Children(q)',
              children'[m][j] = children'[q][k]
       PROVE  m = q /\ j = k
  <2>1. j \in Nat /\ k \in Nat /\ i \in Nat
    BY <1>8
  <2>2. CASE new(m, j) /\ new(q, k)
    BY <2>2
  <2>3. CASE new(m, j) /\ ~new(q, k)
    <3>1. children'[m][j] = s
      BY <1>8, <2>3
    <3>2. J(q, k) \in Children(q) /\ children'[q][k] = children[q][J(q, k)]
      BY <1>8, <2>3
    <3>3. children[q][J(q, k)] # s
      BY <1>3, <3>2
    <3>4. QED
      BY <1>10, <3>1, <3>2, <3>3
  <2>4. CASE ~new(m, j) /\ new(q, k)
    <3>1. children'[q][k] = s
      BY <1>8, <2>4
    <3>2. J(m, j) \in Children(m) /\ children'[m][j] = children[m][J(m, j)]
      BY <1>8, <2>4
    <3>3. children[m][J(m, j)] # s
      BY <1>3, <3>2
    <3>4. QED
      BY <1>10, <3>1, <3>2, <3>3
  <2>5. CASE ~new(m, j) /\ ~new(q, k)
    <3>1. J(m, j) \in Children(m) /\ J(q, k) \in Children(q)
          /\ children[m][J(m, j)] = children[q][J(q, k)]
      BY <1>8, <1>10, <2>5
    <3>2. m = q /\ J(m, j) = J(q, k)
      BY <1>1, <3>1 DEF LinkedOnce
    <3>3. QED
      BY <2>1, <2>5, <3>2 DEF J
  <2>6. QED
    BY <2>2, <2>3, <2>4, <2>5
<1>11. ~\E u \in Threads : pc'[u] = "link" /\ sibling'[u] = root'
  BY <1>1, <1>4, <1>5 DEF LinkedOnce
<1>12. \A u, v \in Threads :
         pc'[u] = "link" /\ pc'[v] = "link" /\ sibling'[u] = sibling'[v] => u = v
  BY <1>1, <1>4 DEF LinkedOnce
<1>13. \A m \in Inner' : \A j \in Children(m)' :
         children'[m][j] # root' /\ ~Pending(children[m][j])'
  BY <1>5, <1>9 DEF Pending
<1>14. ~Pending(root)'
  BY <1>11 DEF Pending
<1>15. \A m, q \in Inner' : \A j \in Children(m)', k \in Children(q)' :
         children'[m][j] = children'[q][k] => m = q /\ j = k
  BY <1>5, <1>10
<1>16. QED
  BY <1>12, <1>13, <1>14, <1>15 DEF LinkedOnce

\* What is left to show of a link: what it does to the tree.
LEMMA LinkInformed ==
  ASSUME TreeInv, TreeInv', NEW t \in Threads, NEW own, NEW led,
         Ordered(own, led), Link(t), LinksUp(t),
         \A u \in Threads : u # t => Untouched(u),
         NEW own2, NEW led2, Careful(t, own, led, own2, led2),
         LinkedOnce', Parted(own2, led2)'
  PROVE  Ordered(own2, led2)'
<1>1. /\ TypeOK /\ Placed(t) /\ Remembered(t)
  BY Known
<1>2. /\ \A m : Pending(m)' <=> Pending(m) /\ m # sibling[t]
  BY LinkPending
<1>3. /\ pc'[t] = "unlockNode" /\ node'[t] = node[t] /\ parent'[t] = parent[t]
      /\ key' = key /\ present' = present /\ Dict' = Dict
  BY <1>1 DEF LinksUp, TypeOK, descent, call, Dict
<1>4. Informed(t, own2, led2)'
  <2>1. ~Pending(node[t])' /\ ~Pending(parent[t])'
    <3>1. ~Pending(node[t]) /\ ~Pending(parent[t])
      BY <1>1 DEF Placed
    <3>2. \A m : (\E u \in Threads : pc'[u] = "link" /\ sibling'[u] = m)
                   => Pending(m)
      BY <1>2 DEF Pending
    <3>3. QED
      BY <1>3, <3>1, <3>2 DEF Pending
  <2>2. Remembered(t)'
    BY <1>1, <1>3 DEF Remembered
  <2>3. pc'[t] \in Carefree
    BY <1>3 DEF Carefree
  <2>4. QED
    BY <2>1, <2>2, <2>3, CarefreeInformed
<1>5. \A u \in Threads : u # t => Informed(u, own2, led2)'
  BY <1>1, OrderFrame DEF Ordered
<1>6. QED
  BY <1>4, <1>5 DEF Ordered

\* Where a link has a parent, it takes the keys above the separator from those
\* that lead to the node that was split.
LEMMA LinkInnerOrder ==
  ASSUME TreeInv, TreeInv', NEW t \in Threads,
         NEW own \in [Nodes -> SUBSET Keys], NEW led \in [Nodes -> SUBSET Keys],
         Ordered(own, led), Link(t), hasParent(t)
  PROVE  \E own2, led2 \in [Nodes -> SUBSET Keys] : Ordered(own2, led2)'
<1>1. /\ TypeOK /\ Parted(own, led) /\ LinkedOnce /\ Placed(t)
      /\ \A m \in Nodes : word[m] >= word[m]
  BY Known
<1>2. pc[t] = "link" /\ InsertInner(t) /\ LinksUp(t) /\ Run(t)
  BY DEF Link, LinksUp, goto, Run
<1>3. PICK p \in Inner : p = parent[t]
  BY <1>2, LinkPlace
<1>4. PICK i : InsertedAt(t, p, i)
  BY <1>2, <1>3, LinkPlace
<1>5. \A u \in Threads : u # t => Untouched(u)
  BY <1>1, <1>2, OthersUntouched
<1>6. PICK n \in Nodes : n = node[t]
  BY <1>1 DEF TypeOK
<1>7. root' = root /\ kind' = kind /\ word' = word /\ leafKeys' = leafKeys
      /\ Inner' = Inner /\ Leaves' = Leaves
  BY <1>2 DEF InsertInner, LinksUp, Inner, Leaves
<1>8. PICK led2 \in [Nodes -> SUBSET Keys] :
        led2[n] = own[n] /\ \A m \in Nodes : m # n => led2[m] = led[m]
  <2> DEFINE l == [led EXCEPT ![n] = own[n]]
  <2>1. /\ l \in [Nodes -> SUBSET Keys] /\ l[n] = own[n]
        /\ \A m \in Nodes : m # n => l[m] = led[m]
    OBVIOUS
  <2> HIDE DEF l
  <2>2. QED
    BY <2>1
<1>9. LinkedOnce'
  BY <1>2, <1>3, <1>4, <1>5, <1>7, LinkLinked
<1>10. Parted(own, led2)'
  <2>1. led2[root'] = Keys
    <3>1. root \in Nodes /\ led[root] = Keys
      BY <1>1 DEF TypeOK, Parted
    <3>2. root # n
      <4>1. Leads(t, own) /\ key[t] \in Keys
        BY <1>1, <1>2, Known DEF OnCourse, TypeOK
      <4>2. key[t] \in own[p] /\ n = children[p][lowerBound(p, key[t])]
        BY <1>3, <1>6, <4>1 DEF Leads
      <4>3. lowerBound(p, key[t]) \in Children(p)
        BY <1>1, <4>1, <4>2, ChildLed
      <4>4. QED
        BY <1>1, <4>2, <4>3 DEF LinkedOnce
    <3>3. QED
      BY <1>7, <1>8, <3>1, <3>2
  <2>2. /\ led2[node[t]] = own[node[t]]
        /\ \A m \in Nodes : m # node[t] => led2[m] = led[m]
    BY <1>6, <1>8
  <2>3. /\ \A m \in Nodes :
             /\ IsFiniteSet(leafKeys'[m]) /\ leafKeys'[m] \subseteq own[m]
             /\ m \notin Leaves' => leafKeys'[m] = {}
             /\ (\A u \in Threads : pc'[u] = "link" => node'[u] # m)
                  => led2[m] = own[m]
        /\ \A l, m \in Leaves' : l # m => own[l] \cap own[m] = {}
    BY <1>2, <1>5, <1>7, <2>2, LinkLeaves
  <2>4. \A m \in Inner' :
          /\ Increasing(keys'[m])
          /\ \A j \in 1 .. count(m)' : keys'[m][j] \in own[m]
          /\ \A j \in Children(m)' :
               led2[children'[m][j]] = {k \in own[m] : Between(m, j, k)'}
    BY <1>2, <1>3, <1>4, <1>7, <2>2, LinkInners
  <2>5. QED
    BY <2>1, <2>3, <2>4 DEF Parted, Increasing
<1>11. Careful(t, own, led, own, led2)
  <2>1. \A m \in Allocated : SameNode(m, own, led, own, led2) \/ Holds(t, m)
    <3> TAKE m \in Allocated
    <3>1. m \in Nodes
      BY DEF Allocated
    <3>2. CASE m = n
      BY <1>2, <1>6, <3>2 DEF Holds, HoldsNode
    <3>3. CASE m = p
      BY <1>2, <1>3, <3>3 DEF Holds, HoldsParent
    <3>4. CASE m # n /\ m # p
      BY <1>4, <1>7, <1>8, <3>1, <3>4 DEF SameNode, InsertedAt
    <3>5. QED
      BY <3>2, <3>3, <3>4
  <2>2. Dict' = Dict
    BY <1>7 DEF Dict
  <2>3. \A m \in Nodes : Pending(m)' => Pending(m)
    BY <1>2, <1>5, LinkPending
  <2>4. \A m \in Nodes : word'[m] >= word[m]
    BY <1>1, <1>7
  <2>5. QED
    BY <1>7, <2>1, <2>2, <2>3, <2>4 DEF Careful
<1>12. Ordered(own, led2)'
  BY <1>2, <1>5, <1>9, <1>10, <1>11, LinkInformed
<1>13. QED
  BY <1>12

\* What makeRoot does: the new root has the two halves for its children.
Rooted(t, new) ==
  /\ new \notin Allocated /\ node[t] = root /\ root' = new
  /\ keys'[new] = <<sep[t]>> /\ children'[new] = <<node[t], sibling[t]>>
  /\ \A m \in Nodes : m # new =>
       /\ keys'[m] = keys[m] /\ children'[m] = children[m]
       /\ kind'[m] = kind[m]
  /\ Inner' = Inner \cup {new} /\ Leaves' = Leaves

\* A link without a parent makes a new root.
LEMMA LinkRooted ==
  ASSUME TreeInv, NEW t \in Threads, NEW own, NEW led, Ordered(own, led),
         Link(t), ~hasParent(t)
  PROVE  \E new \in Nodes : Rooted(t, new)
<1>1. TypeOK /\ Placed(t) /\ pc[t] = "link" /\ makeRoot(t)
  BY Known DEF Link
<1>2. PICK new : new = CHOOSE n \in FreeNodes : TRUE
  OBVIOUS
<1>3. /\ new \in Nodes /\ kind[new] = "free"
      /\ keys' = [keys EXCEPT ![new] = <<sep[t]>>]
      /\ children' = [children EXCEPT ![new] = <<node[t], sibling[t]>>]
      /\ kind' = [kind EXCEPT ![new] = "inner"]
      /\ root' = new
  BY <1>1, <1>2 DEF makeRoot, FreeNodes
<1>4. kind'[new] = "inner" /\ \A m \in Nodes : m # new => kind'[m] = kind[m]
  BY <1>1, <1>3 DEF TypeOK
<1>5. Inner' = Inner \cup {new} /\ Leaves' = Leaves
  BY <1>3, <1>4 DEF Inner, Leaves
<1>6. node[t] = root /\ new \notin Allocated
  BY <1>1, <1>3 DEF Placed, Allocated
<1>7. /\ keys'[new] = <<sep[t]>> /\ children'[new] = <<node[t], sibling[t]>>
      /\ \A m \in Nodes : m # new =>
           keys'[m] = keys[m] /\ children'[m] = children[m]
  BY <1>1, <1>3 DEF TypeOK
<1>8. QED
  BY <1>3, <1>4, <1>5, <1>6, <1>7 DEF Rooted

\* A new root links the new node, and no node twice.
LEMMA RootLinked ==
  ASSUME TreeInv, NEW t \in Threads,
         NEW own \in [Nodes -> SUBSET Keys], NEW led \in [Nodes -> SUBSET Keys],
         Ordered(own, led), LinksUp(t),
         \A u \in Threads : u # t => Untouched(u),
         NEW new \in Nodes, Rooted(t, new)
  PROVE  LinkedOnce'
<1>1. TypeOK /\ LinkedOnce /\ pc[t] = "link" /\ root \in Nodes
  BY Known DEF LinksUp, TypeOK
<1>2. PICK s : s = sibling[t]
  OBVIOUS
<1>3. /\ root \in Allocated /\ s \in Allocated /\ s # root
      /\ \A m \in Inner : \A j \in Children(m) : children[m][j] # s
  BY <1>1, <1>2, LinkOutset DEF TreeInv, NodesWellFormed
<1>4. /\ \A u \in Threads : pc'[u] = "link" <=> pc[u] = "link" /\ u # t
      /\ \A u \in Threads : sibling'[u] = sibling[u]
      /\ \A m : Pending(m)' <=> Pending(m) /\ m # s
  BY <1>2, LinkPending
<1>5. \A m : (\E u \in Threads : pc'[u] = "link" /\ sibling'[u] = m)
               => Pending(m) /\ m # s
  BY <1>4 DEF Pending
<1>6. /\ new \notin Allocated /\ new \notin Inner /\ root' = new
      /\ Inner' = Inner \cup {new}
      /\ children'[new] = <<root, s>>
      /\ \A m \in Inner : children'[m] = children[m]
  BY <1>2 DEF Rooted, Inner, Allocated
<1>7. Children(new)' = {1, 2} /\ \A m \in Inner : Children(m)' = Children(m)
  BY <1>6 DEF Children
<1>8. children'[new][1] = root /\ children'[new][2] = s
  BY <1>6
<1>9. \A m \in Inner : \A j \in Children(m) :
        /\ children'[m][j] = children[m][j] /\ children[m][j] \in Allocated
        /\ children[m][j] # root /\ children[m][j] # s
        /\ ~Pending(children[m][j])
  BY <1>1, <1>3, <1>6, ChildrenAreNodes DEF LinkedOnce
<1>10. ~Pending(root) /\ \A m : Pending(m) => m \in Allocated
  BY <1>1 DEF LinkedOnce, Pending, TreeInv, ThreadInv, PointersGood
<1>11. \A m \in Inner' : \A j \in Children(m)' :
         /\ children'[m][j] # root'
         /\ ~\E u \in Threads : pc'[u] = "link" /\ sibling'[u] = children'[m][j]
  <2> TAKE m \in Inner'
  <2> TAKE j \in Children(m)'
  <2>1. CASE m = new
    BY <1>3, <1>5, <1>6, <1>7, <1>8, <1>10, <2>1
  <2>2. CASE m \in Inner
    BY <1>5, <1>6, <1>7, <1>9, <2>2
  <2>3. QED
    BY <1>6, <2>1, <2>2
<1>12. \A m, q \in Inner' : \A j \in Children(m)', k \in Children(q)' :
         children'[m][j] = children'[q][k] => m = q /\ j = k
  <2> TAKE m, q \in Inner'
  <2> TAKE j \in Children(m)', k \in Children(q)'
  <2> HAVE children'[m][j] = children'[q][k]
  <2>1. CASE m = new /\ q = new
    BY <1>3, <1>7, <1>8, <2>1
  <2>2. CASE m = new /\ q \in Inner
    BY <1>7, <1>8, <1>9, <2>2
  <2>3. CASE m \in Inner /\ q = new
    BY <1>7, <1>8, <1>9, <2>3
  <2>4. CASE m \in Inner /\ q \in Inner
    <3>1. j \in Children(m) /\ k \in Children(q)
          /\ children[m][j] = children[q][k]
      BY <1>7, <1>9, <2>4
    <3>2. QED
      BY <1>1, <2>4, <3>1 DEF LinkedOnce
  <2>5. QED
    BY <1>6, <2>1, <2>2, <2>3, <2>4
<1>13. ~\E u \in Threads : pc'[u] = "link" /\ sibling'[u] = root'
  BY <1>5, <1>6, <1>10
<1>14. \A u, v \in Threads :
         pc'[u] = "link" /\ pc'[v] = "link" /\ sibling'[u] = sibling'[v] => u = v
  BY <1>1, <1>4 DEF LinkedOnce
<1>15. \A m \in Inner' : \A j \in Children(m)' : ~Pending(children[m][j])'
  BY <1>11 DEF Pending
<1>16. ~Pending(root)'
  BY <1>13 DEF Pending
<1>17. QED
  BY <1>11, <1>12, <1>14, <1>15, <1>16 DEF LinkedOnce

\* The separator parts all keys among the children of a new root.
LEMMA RootInners ==
  ASSUME TreeInv, NEW t \in Threads,
         NEW own \in [Nodes -> SUBSET Keys], NEW led \in [Nodes -> SUBSET Keys],
         Ordered(own, led), LinksUp(t),
         NEW new \in Nodes, Rooted(t, new),
         NEW own2, NEW led2,
         own2[new] = Keys, \A m \in Nodes : m # new => own2[m] = own[m],
         led2[node[t]] = own[node[t]],
         \A m \in Nodes : m \notin {node[t], new} => led2[m] = led[m]
  PROVE  \A m \in Inner' :
           /\ Increasing(keys'[m])
           /\ \A j \in 1 .. count(m)' : keys'[m][j] \in own2[m]
           /\ \A j \in Children(m)' :
                led2[children'[m][j]] = {k \in own2[m] : Between(m, j, k)'}
<1>1. TypeOK /\ LinkedOnce /\ Parted(own, led) /\ pc[t] = "link"
  BY Known DEF LinksUp
<1>2. PICK s, e : s = sibling[t] /\ e = sep[t]
  OBVIOUS
<1>3. /\ s \in Nodes /\ s \in Allocated /\ s # root /\ led[s] = own[s]
      /\ root \in Nodes /\ root \in Allocated /\ e \in Keys /\ e \in Nat
  <2>1. root \in Nodes /\ root \in Allocated
    BY <1>1 DEF TreeInv, NodesWellFormed, TypeOK
  <2>2. /\ s \in Nodes /\ s \in Allocated /\ s # root /\ led[s] = own[s]
        /\ e \in Keys /\ e \in Nat
    BY <1>1, <1>2, LinkOutset
  <2>3. QED
    BY <2>1, <2>2
<1>4. /\ new \notin Allocated /\ new \notin Inner /\ node[t] = root
      /\ Inner' = Inner \cup {new}
      /\ keys'[new] = <<e>> /\ children'[new] = <<root, s>>
      /\ \A m \in Inner : keys'[m] = keys[m] /\ children'[m] = children[m]
  BY <1>2 DEF Rooted, Inner, Allocated
<1>5. /\ own[root] = {k \in Keys : k <= e} /\ own[s] = {k \in Keys : k > e}
  <2>1. led[root] = Keys
    BY <1>1 DEF Parted
  <2>2. /\ own[root] = {k \in led[root] : k <= e}
        /\ own[s] = {k \in led[root] : k > e}
    BY <1>1, <1>2, <1>4, LinkOutset
  <2>3. QED
    BY <2>1, <2>2
<1>6. /\ Increasing(keys'[new])
      /\ \A j \in 1 .. count(new)' : keys'[new][j] \in own2[new]
      /\ \A j \in Children(new)' :
           led2[children'[new][j]] = {k \in own2[new] : Between(new, j, k)'}
  <2>1. Increasing(keys'[new])
    BY <1>4 DEF Increasing
  <2>2. \A j \in 1 .. count(new)' : keys'[new][j] \in own2[new]
    BY <1>3, <1>4 DEF count
  <2>3. led2[children'[new][1]] = {k \in own2[new] : Between(new, 1, k)'}
    <3>1. led2[children'[new][1]] = {k \in Keys : k <= e}
      BY <1>4, <1>5
    <3>2. \A k \in Keys : Between(new, 1, k)' <=> k <= e
      BY <1>4 DEF Between, count
    <3>3. QED
      BY <3>1, <3>2
  <2>4. led2[children'[new][2]] = {k \in own2[new] : Between(new, 2, k)'}
    <3>1. led2[children'[new][2]] = {k \in Keys : k > e}
      BY <1>3, <1>4, <1>5
    <3>2. \A k \in Keys : Between(new, 2, k)' <=> k > e
      <4>1. \A k \in Keys : k \in Nat
        BY SetsAssumption
      <4>2. QED
        BY <1>3, <1>4, <4>1 DEF Between, count
    <3>3. QED
      BY <3>1, <3>2
  <2>5. Children(new)' = {1, 2}
    BY <1>4 DEF Children
  <2>6. QED
    BY <2>1, <2>2, <2>3, <2>4, <2>5
<1>7. ASSUME NEW m \in Inner
      PROVE  /\ Increasing(keys'[m])
             /\ \A j \in 1 .. count(m)' : keys'[m][j] \in own2[m]
             /\ \A j \in Children(m)' :
                  led2[children'[m][j]] = {k \in own2[m] : Between(m, j, k)'}
  <2>1. /\ Increasing(keys[m])
        /\ \A j \in 1 .. count(m) : keys[m][j] \in own[m]
        /\ \A j \in Children(m) :
             led[children[m][j]] = {k \in own[m] : Between(m, j, k)}
    BY <1>1 DEF Parted
  <2>2. keys'[m] = keys[m] /\ children'[m] = children[m] /\ own2[m] = own[m]
    BY <1>4 DEF Inner
  <2>3. \A j \in Children(m) :
          led2[children[m][j]] = led[children[m][j]]
    <3> TAKE j \in Children(m)
    <3>1. children[m][j] \in Allocated /\ children[m][j] \in Nodes
      BY ChildrenAreNodes
    <3>2. children[m][j] # root
      BY <1>1 DEF LinkedOnce
    <3>3. QED
      BY <1>4, <3>1, <3>2
  <2>4. \A j, k : Between(m, j, k)' <=> Between(m, j, k)
    BY <2>2 DEF Between, count
  <2>5. QED
    BY <2>1, <2>2, <2>3, <2>4 DEF Children, count
<1>8. QED
  BY <1>4, <1>6, <1>7

\* A root that was split becomes a child of a new one.
LEMMA LinkRootOrder ==
  ASSUME TreeInv, TreeInv', NEW t \in Threads,
         NEW own \in [Nodes -> SUBSET Keys], NEW led \in [Nodes -> SUBSET Keys],
         Ordered(own, led), Link(t), ~hasParent(t)
  PROVE  \E own2, led2 \in [Nodes -> SUBSET Keys] : Ordered(own2, led2)'
<1>1. TypeOK /\ \A m \in Nodes : word[m] >= word[m]
  BY Known
<1>2. pc[t] = "link" /\ LinksUp(t) /\ Run(t)
  BY DEF Link, LinksUp, goto, Run
<1>3. PICK new \in Nodes : Rooted(t, new)
  BY LinkRooted
<1>4. \A u \in Threads : u # t => Untouched(u)
  BY <1>1, <1>2, OthersUntouched
<1>5. PICK n \in Nodes : n = node[t]
  BY <1>1 DEF TypeOK
<1>6. /\ new # n /\ new \notin Allocated /\ new \notin Leaves
      /\ root = n /\ root' = new /\ word' = word /\ leafKeys' = leafKeys
      /\ Leaves' = Leaves
  <2>1. n \in Allocated
    BY <1>2, <1>5, LinkOutset
  <2>2. QED
    BY <1>2, <1>3, <1>5, <2>1 DEF Rooted, LinksUp, Leaves, Allocated
<1>7. PICK own2, led2 \in [Nodes -> SUBSET Keys] :
        /\ own2[new] = Keys /\ \A m \in Nodes : m # new => own2[m] = own[m]
        /\ led2[new] = Keys /\ led2[n] = own[n]
        /\ \A m \in Nodes : m \notin {n, new} => led2[m] = led[m]
  <2> DEFINE o == [own EXCEPT ![new] = Keys]
             l == [led EXCEPT ![n] = own[n], ![new] = Keys]
  <2>1. o \in [Nodes -> SUBSET Keys] /\ l \in [Nodes -> SUBSET Keys]
    OBVIOUS
  <2>2. /\ o[new] = Keys /\ \A m \in Nodes : m # new => o[m] = own[m]
        /\ l[new] = Keys /\ l[n] = own[n]
        /\ \A m \in Nodes : m \notin {n, new} => l[m] = led[m]
    BY <1>6
  <2> HIDE DEF o, l
  <2>3. QED
    BY <2>1, <2>2
<1> SUFFICES Ordered(own2, led2)'
  OBVIOUS
<1>8. LinkedOnce'
  BY <1>2, <1>3, <1>4, RootLinked
<1>9. Parted(own2, led2)'
  <2>1. led2[root'] = Keys
    BY <1>6, <1>7
  <2>2. /\ led2[node[t]] = own2[node[t]] /\ led2[node[t]] = own[node[t]]
        /\ \A m \in Nodes : m # new => own2[m] = own[m]
        /\ \A m \in Nodes : m \notin {node[t], new} => led2[m] = led[m]
        /\ led2[new] = own2[new]
    BY <1>5, <1>6, <1>7
  <2>3. \A m \in Nodes :
          own2[m] = own[m] \/ (m \notin Leaves /\ led2[m] = own2[m])
    <3> TAKE m \in Nodes
    <3>1. CASE m = new
      BY <1>6, <2>2, <3>1
    <3>2. m # new => own2[m] = own[m]
      BY <1>7
    <3>3. QED
      BY <3>1, <3>2
  <2>4. \A m \in Nodes : m # node[t] =>
          (led2[m] = led[m] /\ own2[m] = own[m]) \/ led2[m] = own2[m]
    BY <2>2
  <2>5. led2[node[t]] = own2[node[t]] /\ LinksUp(t) /\ Leaves' = Leaves
    BY <1>2, <1>6, <2>2
  <2>6. /\ \A m \in Nodes :
             /\ IsFiniteSet(leafKeys'[m]) /\ leafKeys'[m] \subseteq own2[m]
             /\ m \notin Leaves' => leafKeys'[m] = {}
             /\ (\A u \in Threads : pc'[u] = "link" => node'[u] # m)
                  => led2[m] = own2[m]
        /\ \A l, m \in Leaves' : l # m => own2[l] \cap own2[m] = {}
    BY <1>4, <2>3, <2>4, <2>5, LinkLeaves
  <2>7. \A m \in Inner' :
          /\ Increasing(keys'[m])
          /\ \A j \in 1 .. count(m)' : keys'[m][j] \in own2[m]
          /\ \A j \in Children(m)' :
               led2[children'[m][j]] = {k \in own2[m] : Between(m, j, k)'}
    BY <1>2, <1>3, <1>7, <2>2, RootInners
  <2>8. QED
    BY <2>1, <2>6, <2>7 DEF Parted, Increasing
<1>10. Careful(t, own, led, own2, led2)
  <2>1. \A m \in Allocated :
          kind'[m] = kind[m]
          /\ (SameNode(m, own, led, own2, led2) \/ Holds(t, m))
    <3> TAKE m \in Allocated
    <3>1. m \in Nodes /\ m # new
      BY <1>6 DEF Allocated
    <3>2. kind'[m] = kind[m]
      BY <1>3, <3>1 DEF Rooted
    <3>3. CASE m = n
      BY <1>2, <1>5, <3>2, <3>3 DEF Holds, HoldsNode
    <3>4. CASE m # n
      BY <1>3, <1>6, <1>7, <3>1, <3>2, <3>4 DEF SameNode, Rooted
    <3>5. QED
      BY <3>3, <3>4
  <2>2. Dict' = Dict
    BY <1>6 DEF Dict
  <2>3. \A m \in Nodes : Pending(m)' => Pending(m)
    BY <1>2, <1>4, LinkPending
  <2>4. \A m \in Nodes : word'[m] >= word[m]
    BY <1>1, <1>6
  <2>5. Holds(t, root)
    BY <1>2, <1>5, <1>6 DEF Holds, HoldsNode
  <2>6. QED
    BY <2>1, <2>2, <2>3, <2>4, <2>5 DEF Careful
<1>11. QED
  BY <1>2, <1>4, <1>8, <1>9, <1>10, LinkInformed

-----------------------------------------------------------------------------
(* The invariant *)

\* An empty leaf at the root owns every key.
LEMMA OrderInit == Init => OrderInv
<1> SUFFICES ASSUME Init PROVE OrderInv
  OBVIOUS
<1>1. TreeInv
  BY TreeInvInit
<1>2. PICK r \in Nodes :
        /\ root = r
        /\ kind = [n \in Nodes |-> IF n = r THEN "leaf" ELSE "free"]
        /\ leafKeys = [n \in Nodes |-> {}]
        /\ pc = [t \in Threads |-> "idle"]
        /\ present = [t \in Threads |-> FALSE]
  BY SetsAssumption DEF Init
<1>3. PICK own \in [Nodes -> SUBSET Keys] :
        own[r] = Keys /\ \A n \in Nodes : n # r => own[n] = {}
  <2> DEFINE o == [n \in Nodes |-> IF n = r THEN Keys ELSE {}]
  <2>1. /\ o \in [Nodes -> SUBSET Keys] /\ o[r] = Keys
        /\ \A n \in Nodes : n # r => o[n] = {}
    OBVIOUS
  <2> HIDE DEF o
  <2>2. QED
    BY <2>1
<1>4. Inner = {} /\ Leaves = {r} /\ \A n : ~Pending(n)
  BY <1>2 DEF Inner, Leaves, Pending
<1>5. LinkedOnce
  BY <1>2, <1>4 DEF LinkedOnce
<1>6. Parted(own, own)
  <2>1. \A n \in Nodes : leafKeys[n] = {} /\ IsFiniteSet(leafKeys[n])
    BY <1>2, FS_EmptySet
  <2>2. QED
    BY <1>2, <1>3, <1>4, <2>1 DEF Parted
<1>7. \A t \in Threads : Informed(t, own, own)
  BY <1>2, <1>4 DEF Informed, Placed, Behind, OnCourse, Answered, Halved,
     Remembered
<1>8. QED
  BY <1>1, <1>3, <1>5, <1>6, <1>7 DEF OrderInv, Ordered

\* Where nothing happens nothing is disturbed.
LEMMA OrderStutter == OrderInv /\ UNCHANGED vars => OrderInv'
<1> SUFFICES ASSUME OrderInv, UNCHANGED vars PROVE OrderInv'
  OBVIOUS
<1>1. TreeInv /\ TreeInv'
  BY TreeInvStutter DEF OrderInv
<1>2. PICK own, led \in [Nodes -> SUBSET Keys] : Ordered(own, led)
  BY DEF OrderInv
<1>3. /\ UNCHANGED <<root, word, kind, leafKeys, keys, children>>
      /\ UNCHANGED <<pc, op, key, present, sep, sibling, hit>>
      /\ UNCHANGED <<node, versionNode, parent, versionParent>>
  BY DEF vars, shared, call, descent
<1>4. Inner' = Inner /\ Leaves' = Leaves /\ \A n : Pending(n)' <=> Pending(n)
  BY <1>3 DEF Inner, Leaves, Pending
<1>5. LinkedOnce'
  <2>1. LinkedOnce
    BY <1>2 DEF Ordered
  <2>2. QED
    BY <1>3, <2>1 DEF LinkedOnce, Inner, Children, Pending
<1>6. Parted(own, led)'
  <2>1. Parted(own, led)
    BY <1>2 DEF Ordered
  <2>2. QED
    BY <1>3, <2>1 DEF Parted, Inner, Leaves, Children, Between, count
<1>7. \A t \in Threads : Informed(t, own, led)'
  <2> TAKE t \in Threads
  <2>1. Placed(t) /\ Behind(t) /\ OnCourse(t, own) /\ Answered(t)
        /\ Halved(t, own, led) /\ Remembered(t)
    BY <1>1, <1>2, Known
  <2>2. Placed(t)' /\ Behind(t)'
    BY <1>3, <2>1 DEF Placed, Behind, Pending, Leaves, hasParent
  <2>3. OnCourse(t, own)'
    BY <1>3, <2>1 DEF OnCourse, Leads, lowerBound, count, hasParent
  <2>4. Answered(t)' /\ Halved(t, own, led)' /\ Remembered(t)'
    BY <1>3, <2>1 DEF Answered, Halved, Remembered, Dict
  <2>5. QED
    BY <2>2, <2>3, <2>4 DEF Informed
<1>8. QED
  BY <1>1, <1>2, <1>5, <1>6, <1>7 DEF OrderInv, Ordered

\* A step that neither splits a node nor links one leaves the keys to the nodes
\* they belong to.
LEMMA SteadyOrder ==
  ASSUME TreeInv, TreeInv', NEW t \in Threads,
         NEW own \in [Nodes -> SUBSET Keys], NEW led \in [Nodes -> SUBSET Keys],
         Ordered(own, led), Begin(t) \/ Run(t), ~Split(t), ~Link(t)
  PROVE  Ordered(own, led)'
<1>1. CASE Begin(t) \/ LoadRoot(t)
  BY <1>1, BeginOrder, LoadRootOrder
<1>2. CASE LockRoot(t) \/ LockChild(t) \/ CheckRoot(t)
  BY <1>2, ReadLockOrder, CheckRootOrder
<1>3. CASE VisitInner(t) \/ VisitLeaf(t) \/ Child(t)
  BY <1>3, VisitInnerOrder, VisitLeafOrder, ChildOrder
<1>4. CASE SearchLeaf(t) \/ ValidateParent(t) \/ ValidateNode(t) \/ Return(t)
  BY <1>4, SearchLeafOrder, ValidateParentOrder, ReturnOrder
<1>5. CASE LockLeaf(t) \/ CheckParent(t) \/ InsertLeaf(t)
  BY <1>5, LockLeafOrder, CheckParentOrder, InsertLeafOrder
<1>6. CASE LockParent(t) \/ LockNode(t)
  BY <1>6, LockParentOrder, LockNodeOrder
<1>7. CASE UnlockLeaf(t) \/ UnlockNode(t) \/ UnlockParent(t)
  BY <1>7, UnlockOrder
<1>8. QED
  BY <1>1, <1>2, <1>3, <1>4, <1>5, <1>6, <1>7 DEF Run

\* Every step of every thread keeps the keys in order.
LEMMA OrderStep == OrderInv /\ [Next]_vars => OrderInv'
<1> SUFFICES ASSUME OrderInv, [Next]_vars PROVE OrderInv'
  OBVIOUS
<1>1. CASE UNCHANGED vars
  BY <1>1, OrderStutter
<1>2. CASE Next
  <2>1. TreeInv /\ TreeInv'
    BY TreeInvStep DEF OrderInv
  <2>2. PICK own, led \in [Nodes -> SUBSET Keys] : Ordered(own, led)
    BY DEF OrderInv
  <2>3. PICK t \in Threads : Begin(t) \/ Run(t)
    BY <1>2 DEF Next
  <2>4. CASE Split(t)
    <3>1. \E own2, led2 \in [Nodes -> SUBSET Keys] : Ordered(own2, led2)'
      BY <2>1, <2>2, <2>4, SplitOrder
    <3>2. QED
      BY <2>1, <3>1 DEF OrderInv
  <2>5. CASE Link(t)
    <3>1. \E own2, led2 \in [Nodes -> SUBSET Keys] : Ordered(own2, led2)'
      BY <2>1, <2>2, <2>5, LinkInnerOrder, LinkRootOrder
    <3>2. QED
      BY <2>1, <3>1 DEF OrderInv
  <2>6. CASE ~Split(t) /\ ~Link(t)
    <3>1. Ordered(own, led)'
      BY <2>1, <2>2, <2>3, <2>6, SteadyOrder
    <3>2. QED
      BY <2>1, <2>2, <3>1 DEF OrderInv
  <2>7. QED
    BY <2>4, <2>5, <2>6
<1>3. QED
  BY <1>1, <1>2

\* In every reachable state the separators part all keys among the leaves, no
\* two of which own the same, and every thread is where its key belongs or will
\* notice that it is not, whatever the number of threads, keys and nodes.
THEOREM KeysInOrder == Spec => []OrderInv
  BY OrderInit, OrderStep, PTL DEF Spec

\* A lookup of BTreeOLC.hpp, which compares the words it has seen before it
\* returns, finds every key that was in the tree when it was called.
THEOREM LookupsComplete ==
  ASSUME LookupValidates PROVE Spec => []LookupNeverMisses
<1>1. OrderInv => LookupNeverMisses
  BY DEF OrderInv, Ordered, Informed, Remembered, LookupNeverMisses
<1>2. QED
  BY <1>1, KeysInOrder, PTL

-----------------------------------------------------------------------------
(* The tree as a dictionary *)

\* What Linearizable takes for the phase and the answer of each thread.
Phases == [t \in Threads |-> phaseOf(t)]
Answers == [t \in Threads |-> pc[t] = "return" /\ hit[t]]

\* A step changes the phase and the answer of its own thread only.
LEMMA PhaseStep ==
  ASSUME TypeOK, NEW t \in Threads, Begin(t) \/ Run(t)
  PROVE  /\ Phases' = [Phases EXCEPT ![t] = phaseOf(t)']
         /\ Answers' = [Answers EXCEPT ![t] = pc'[t] = "return" /\ hit'[t]]
<1>1. \A u \in Threads : u # t => pc'[u] = pc[u] /\ hit'[u] = hit[u]
  BY OthersUntouched DEF Untouched, SameLocals
<1>2. \A u \in Threads : u # t => phaseOf(u)' = phaseOf(u)
  BY <1>1 DEF phaseOf
<1>3. Phases' = [Phases EXCEPT ![t] = phaseOf(t)']
  BY <1>2 DEF Phases
<1>4. Answers' = [Answers EXCEPT ![t] = pc'[t] = "return" /\ hit'[t]]
  BY <1>1 DEF Answers
<1>5. QED
  BY <1>3, <1>4

\* The thread's phase and answer as they are, put back, change nothing.
LEMMA PhasePutBack ==
  ASSUME NEW t \in Threads
  PROVE  /\ [Phases EXCEPT ![t] = phaseOf(t)] = Phases
         /\ (pc[t] = "return" /\ hit[t]) = FALSE =>
              [Answers EXCEPT ![t] = FALSE] = Answers
  BY DEF Phases, Answers

\* What a step that only moves its thread on inside a call does to the
\* dictionary: nothing.
LEMMA StepUnseen ==
  ASSUME TypeOK, NEW t \in Threads, Begin(t) \/ Run(t),
         phaseOf(t) = "called", phaseOf(t)' = "called",
         Dict' = Dict, UNCHANGED <<op, key>>
  PROVE  UNCHANGED Linear!vars
<1>1. pc[t] # "return" /\ pc'[t] # "return"
  BY DEF phaseOf
<1>2. Phases' = Phases
  <2>1. Phases' = [Phases EXCEPT ![t] = phaseOf(t)']
    BY PhaseStep
  <2>2. phaseOf(t)' = phaseOf(t)
    OBVIOUS
  <2>3. [Phases EXCEPT ![t] = phaseOf(t)] = Phases
    BY PhasePutBack
  <2>4. QED
    BY <2>1, <2>2, <2>3
<1>3. Answers' = Answers
  <2>1. (pc'[t] = "return" /\ hit'[t]) = FALSE
    BY <1>1
  <2>2. (pc[t] = "return" /\ hit[t]) = FALSE
    BY <1>1
  <2>3. QED
    BY <2>1, <2>2, PhaseStep, PhasePutBack
<1>4. QED
  BY <1>2, <1>3 DEF Linear!vars, Phases, Answers

\* A call of insert or lookup is a call of the dictionary.
LEMMA BeginCalls ==
  ASSUME TypeOK, NEW t \in Threads, Begin(t)
  PROVE  \E o \in {"insert", "lookup"}, k \in Keys : Linear!Call(t, o, k)
<1>1. PICK o \in {"insert", "lookup"}, k \in Keys :
        /\ pc[t] = "idle" /\ pc'[t] = "loadRoot"
        /\ op' = [op EXCEPT ![t] = o] /\ key' = [key EXCEPT ![t] = k]
        /\ leafKeys' = leafKeys
  BY DEF Begin, BeginInsert, BeginLookup, goto, TypeOK, shared
<1>2. phaseOf(t) = "idle" /\ phaseOf(t)' = "called" /\ Dict' = Dict
  BY <1>1 DEF phaseOf, Dict
<1>3. Answers' = Answers
  <2>1. (pc'[t] = "return" /\ hit'[t]) = FALSE
        /\ (pc[t] = "return" /\ hit[t]) = FALSE
    BY <1>1
  <2>2. QED
    BY <2>1, PhaseStep, PhasePutBack
<1>4. Phases[t] = "idle" /\ Phases' = [Phases EXCEPT ![t] = "called"]
  BY <1>2, PhaseStep DEF Phases
<1>5. Linear!Call(t, o, k)
  BY <1>1, <1>2, <1>3, <1>4 DEF Linear!Call, Phases, Answers
<1>6. QED
  BY <1>5

\* An insert takes effect when the leaf is stored into.
LEMMA InsertTakesEffect ==
  ASSUME TreeInv, NEW t \in Threads, NEW own, NEW led, Ordered(own, led),
         InsertLeaf(t)
  PROVE  Linear!TakeEffect(t)
<1>1. TypeOK /\ op[t] = "insert" /\ pc[t] = "insertLeaf" /\ Run(t)
  BY Known DEF Placed, InsertLeaf, Run
<1>2. /\ pc'[t] = "commitLeaf" /\ UNCHANGED <<op, key, hit>>
      /\ leafKeys' = [leafKeys EXCEPT ![node[t]] = @ \cup {key[t]}]
  BY <1>1 DEF InsertLeaf, goto, call, TypeOK
<1>3. phaseOf(t) = "called" /\ phaseOf(t)' = "done"
  BY <1>1, <1>2 DEF phaseOf
<1>4. Dict' = Dict \cup {key[t]}
  <2>1. PICK n \in Nodes : n = node[t]
    BY <1>1 DEF TypeOK
  <2>2. leafKeys'[n] = leafKeys[n] \cup {key[t]}
        /\ \A m \in Nodes : m # n => leafKeys'[m] = leafKeys[m]
    BY <1>1, <1>2, <2>1 DEF TypeOK
  <2>3. QED
    BY <2>2 DEF Dict
<1>5. Answers' = Answers
  <2>1. (pc'[t] = "return" /\ hit'[t]) = FALSE
        /\ (pc[t] = "return" /\ hit[t]) = FALSE
    BY <1>1, <1>2
  <2>2. QED
    BY <1>1, <2>1, PhaseStep, PhasePutBack
<1>6. Phases[t] = "called" /\ Phases' = [Phases EXCEPT ![t] = "done"]
  BY <1>1, <1>3, PhaseStep DEF Phases
<1>7. QED
  BY <1>1, <1>2, <1>4, <1>5, <1>6 DEF Linear!TakeEffect, Phases, Answers

\* A lookup takes effect when its last comparison succeeds: its answer, read
\* before, is true at that instant.
LEMMA LookupTakesEffect ==
  ASSUME TreeInv, NEW t \in Threads, NEW own, NEW led, Ordered(own, led),
         ValidateNode(t), word[node[t]] = versionNode[t]
  PROVE  Linear!TakeEffect(t)
<1>1. TypeOK /\ op[t] = "lookup" /\ pc[t] = "validateNode" /\ Run(t)
  BY Known DEF Placed, ValidateNode, Run
<1>2. /\ pc'[t] = "return" /\ UNCHANGED <<op, key, hit>> /\ Dict' = Dict
  BY <1>1 DEF ValidateNode, goto, call, shared, Dict, TypeOK
<1>3. phaseOf(t) = "called" /\ phaseOf(t)' = "done"
  BY <1>1, <1>2 DEF phaseOf
<1>4. hit[t] <=> key[t] \in Dict
  BY <1>1, AnswerTrue
<1>5. Answers' = [Answers EXCEPT ![t] = key[t] \in Dict]
  <2>1. (pc'[t] = "return" /\ hit'[t]) <=> key[t] \in Dict
    BY <1>2, <1>4
  <2>2. Answers' = [Answers EXCEPT ![t] = pc'[t] = "return" /\ hit'[t]]
    BY <1>1, PhaseStep
  <2>3. (pc'[t] = "return" /\ hit'[t]) = (key[t] \in Dict)
    BY <2>1
  <2>4. QED
    BY <2>2, <2>3, Zenon
<1>6. Phases[t] = "called" /\ Phases' = [Phases EXCEPT ![t] = "done"]
  BY <1>1, <1>3, PhaseStep DEF Phases
<1>7. QED
  BY <1>1, <1>2, <1>5, <1>6 DEF Linear!TakeEffect, Phases, Answers

\* An insert returns when it unlocks the leaf, a lookup a step after its last
\* comparison.
LEMMA CallReturns ==
  ASSUME TypeOK, NEW t \in Threads, Run(t),
         phaseOf(t) = "done", pc'[t] = "idle", Dict' = Dict,
         UNCHANGED <<op, key>>
  PROVE  Linear!Return(t)
<1>1. phaseOf(t)' = "idle" /\ (pc'[t] = "return" /\ hit'[t]) = FALSE
  BY DEF phaseOf
<1>2. Answers' = [Answers EXCEPT ![t] = FALSE]
  <2>1. Answers' = [Answers EXCEPT ![t] = pc'[t] = "return" /\ hit'[t]]
    BY PhaseStep
  <2>2. QED
    BY <1>1, <2>1
<1>3. Phases[t] = "done" /\ Phases' = [Phases EXCEPT ![t] = "idle"]
  BY <1>1, PhaseStep DEF Phases
<1>4. QED
  BY <1>2, <1>3 DEF Linear!Return, Phases, Answers

\* Every other step of a call is a step inside it.
LEMMA RunUnseen ==
  ASSUME TreeInv, LookupValidates, NEW t \in Threads,
         NEW own, NEW led, Ordered(own, led), Run(t),
         ~InsertLeaf(t), ~Return(t), pc[t] # "commitLeaf",
         ~(ValidateNode(t) /\ word[node[t]] = versionNode[t])
  PROVE  UNCHANGED Linear!vars
<1>1. TypeOK
  BY Known
<1>2. UNCHANGED <<op, key>>
  BY DEF Run, LoadRoot, LockRoot, readLockOrRestart, CheckRoot, VisitInner,
     Child, LockChild, SearchLeaf, ValidateParent, ValidateNode, Return,
     VisitLeaf, LockLeaf, CheckParent, InsertLeaf, UnlockLeaf, LockParent,
     LockNode, Split, Link, UnlockNode, UnlockParent, call
<1>3. Dict' = Dict
  <2>1. CASE Split(t)
    BY <2>1, SplitNew, SplitDict
  <2>2. CASE ~Split(t)
    <3>1. leafKeys' = leafKeys
      BY <2>2 DEF Run, LoadRoot, LockRoot, readLockOrRestart, CheckRoot,
         VisitInner, Child, LockChild, SearchLeaf, ValidateParent, ValidateNode,
         Return, VisitLeaf, LockLeaf, CheckParent, UnlockLeaf, LockParent,
         LockNode, Link, UnlockNode, UnlockParent, shared
    <3>2. QED
      BY <3>1 DEF Dict
  <2>3. QED
    BY <2>1, <2>2
<1>4. /\ pc[t] \notin {"idle", "commitLeaf", "return"}
      /\ pc'[t] \notin {"idle", "commitLeaf", "return"}
  <2>1. CASE LoadRoot(t) \/ LockRoot(t) \/ LockChild(t) \/ CheckRoot(t)
             \/ Child(t)
    BY <1>1, <2>1 DEF LoadRoot, LockRoot, LockChild, readLockOrRestart,
       CheckRoot, Child, goto, TypeOK
  <2>2. CASE VisitInner(t) \/ VisitLeaf(t)
    <3>1. pc[t] = "visit"
          /\ pc'[t] \in {"lockParent", "lockNode", "child", "loadRoot",
                         "lockLeaf"}
      BY <1>1, <2>2 DEF VisitInner, VisitLeaf, goto, TypeOK
    <3>2. QED
      BY <3>1
  <2>3. CASE SearchLeaf(t) \/ ValidateParent(t) \/ ValidateNode(t)
    BY <1>1, <2>3 DEF SearchLeaf, ValidateParent, ValidateNode, goto, TypeOK
  <2>4. CASE LockLeaf(t) \/ CheckParent(t) \/ UnlockLeaf(t)
    BY <1>1, <2>4 DEF LockLeaf, CheckParent, UnlockLeaf, goto, TypeOK
  <2>5. CASE LockParent(t) \/ LockNode(t) \/ UnlockNode(t) \/ UnlockParent(t)
    BY <1>1, <2>5 DEF LockParent, LockNode, UnlockNode, UnlockParent, goto,
       TypeOK
  <2>6. CASE Split(t) \/ Link(t)
    BY <1>1, <2>6 DEF Split, Link, goto, TypeOK
  <2>7. QED
    BY <2>1, <2>2, <2>3, <2>4, <2>5, <2>6 DEF Run
<1>5. phaseOf(t) = "called" /\ phaseOf(t)' = "called"
  BY <1>4 DEF phaseOf
<1>6. QED
  BY <1>1, <1>2, <1>3, <1>5, StepUnseen

\* Every step of a thread is one step of the dictionary, or none.
LEMMA LinearStep ==
  ASSUME LookupValidates, OrderInv, [Next]_vars
  PROVE  [Linear!Next]_Linear!vars
<1>1. CASE UNCHANGED vars
  <2>1. UNCHANGED <<leafKeys, pc, op, key, hit>>
    BY <1>1 DEF vars, shared, call
  <2>2. Dict' = Dict /\ Phases' = Phases /\ Answers' = Answers
    BY <2>1 DEF Dict, Phases, phaseOf, Answers
  <2>3. QED
    BY <2>1, <2>2 DEF Linear!vars, Phases, Answers
<1>2. CASE Next
  <2>1. PICK t \in Threads : Begin(t) \/ Run(t)
    BY <1>2 DEF Next
  <2>2. PICK own, led \in [Nodes -> SUBSET Keys] : Ordered(own, led)
    BY DEF OrderInv
  <2>3. TreeInv /\ TypeOK
    BY DEF OrderInv, TreeInv
  <2>4. CASE Begin(t)
    BY <2>3, <2>4, BeginCalls DEF Linear!Next
  <2>5. CASE InsertLeaf(t)
    BY <2>2, <2>3, <2>5, InsertTakesEffect DEF Linear!Next
  <2>6. CASE ValidateNode(t) /\ word[node[t]] = versionNode[t]
    BY <2>2, <2>3, <2>6, LookupTakesEffect DEF Linear!Next
  <2>7. CASE Run(t) /\ (Return(t) \/ pc[t] = "commitLeaf")
    <3>1. /\ phaseOf(t) = "done" /\ pc'[t] = "idle" /\ leafKeys' = leafKeys
          /\ UNCHANGED <<op, key>>
      <4>1. CASE Return(t)
        BY <2>3, <4>1 DEF Return, goto, phaseOf, TypeOK, shared, call
      <4>2. CASE pc[t] = "commitLeaf"
        <5>1. UnlockLeaf(t)
          BY <2>7, <4>2 DEF Run, LoadRoot, LockRoot, CheckRoot, VisitInner,
             Child, LockChild, SearchLeaf, ValidateParent, ValidateNode, Return,
             VisitLeaf, LockLeaf, CheckParent, InsertLeaf, LockParent, LockNode,
             Split, Link, UnlockNode, UnlockParent
        <5>2. QED
          BY <2>3, <4>2, <5>1 DEF UnlockLeaf, goto, phaseOf, TypeOK, call
      <4>3. QED
        BY <2>7, <4>1, <4>2
    <3>2. Linear!Return(t)
      BY <2>3, <2>7, <3>1, CallReturns DEF Dict
    <3>3. QED
      BY <3>2 DEF Linear!Next
  <2>8. CASE /\ Run(t) /\ ~InsertLeaf(t) /\ ~Return(t) /\ pc[t] # "commitLeaf"
             /\ ~(ValidateNode(t) /\ word[node[t]] = versionNode[t])
    BY <2>2, <2>3, <2>8, RunUnseen
  <2>9. QED
    BY <2>1, <2>4, <2>5, <2>6, <2>7, <2>8
<1>3. QED
  BY <1>1, <1>2

\* An empty tree is an empty dictionary that nobody uses.
LEMMA LinearInit == Init => Linear!Init
<1> SUFFICES ASSUME Init PROVE Linear!Init
  OBVIOUS
<1>1. PICK k \in Keys :
        /\ leafKeys = [n \in Nodes |-> {}] /\ pc = [t \in Threads |-> "idle"]
        /\ op = [t \in Threads |-> "lookup"] /\ key = [t \in Threads |-> k]
        /\ hit = [t \in Threads |-> FALSE]
  BY SetsAssumption DEF Init
<1>2. Dict = {}
  BY <1>1 DEF Dict
<1>3. Phases = [t \in Threads |-> "idle"]
  BY <1>1 DEF Phases, phaseOf
<1>4. Answers = [t \in Threads |-> FALSE]
  BY <1>1 DEF Answers
<1>5. QED
  BY <1>1, <1>2, <1>3, <1>4 DEF Linear!Init, Phases, Answers

\* The tree of BTreeOLC.hpp implements the dictionary: every insert and every
\* lookup takes effect at one instant between its call and its return.
THEOREM TreeIsDictionary ==
  ASSUME LookupValidates PROVE Spec => Linearizable
<1>1. OrderInv /\ [Next]_vars => [Linear!Next]_Linear!vars
  BY LinearStep
<1>2. QED
  BY <1>1, LinearInit, KeysInOrder, PTL DEF Spec, Linearizable, Linear!Spec

\* Where a search for k goes on from n.
Onward(n, k) ==
  IF kind[n] = "inner" THEN children[n][lowerBound(n, k)] ELSE n

\* The nodes a search passes down to depth m.
IsRoute(g, k, m) ==
  g = [d \in 0 .. m |-> IF d = 0 THEN root ELSE Onward(g[d - 1], k)]

\* There is a route of every length.
LEMMA RouteExists ==
  ASSUME NEW k, NEW m \in Nat
  PROVE  \E g : IsRoute(g, k, m)
<1> DEFINE S == {n \in Nat : ~\E g : IsRoute(g, k, n)}
<1>1. SUFFICES ASSUME S # {} PROVE FALSE
  OBVIOUS
<1>2. PICK n \in S : \A i \in S : n <= i
  BY <1>1, LeastNatural
<1>3. n \in Nat /\ ~\E g : IsRoute(g, k, n)
  OBVIOUS
<1>4. CASE n = 0
  <2> DEFINE g == [d \in 0 .. 0 |-> root]
  <2>1. IsRoute(g, k, 0)
    BY DEF IsRoute
  <2>2. QED
    BY <1>3, <1>4, <2>1
<1>5. CASE n # 0
  <2>1. n - 1 \in Nat /\ n - 1 \notin S
    BY <1>2, <1>3, <1>5
  <2>2. PICK g : IsRoute(g, k, n - 1)
    BY <2>1
  <2> DEFINE h == [d \in 0 .. n |-> IF d = n THEN Onward(g[n - 1], k) ELSE g[d]]
  <2>3. \A d \in 0 .. n - 1 :
          g[d] = IF d = 0 THEN root ELSE Onward(g[d - 1], k)
    BY <2>2 DEF IsRoute
  <2>4. \A d \in 0 .. n :
          h[d] = IF d = 0 THEN root ELSE Onward(h[d - 1], k)
    <3> TAKE d \in 0 .. n
    <3>1. CASE d = n
      BY <1>3, <1>5, <3>1
    <3>2. CASE d # n
      <4>1. d \in 0 .. n - 1 /\ h[d] = g[d] /\ (d # 0 => h[d - 1] = g[d - 1])
        BY <1>3, <3>2
      <4>2. QED
        BY <2>3, <4>1
    <3>3. QED
      BY <3>1, <3>2
  <2>5. h = [d \in 0 .. n |-> h[d]]
    OBVIOUS
  <2> HIDE DEF h
  <2>6. IsRoute(h, k, n)
    BY <2>4, <2>5 DEF IsRoute
  <2>7. QED
    BY <1>3, <2>6
<1>6. QED
  BY <1>4, <1>5

\* The route of KeysReachable is one.
LEMMA RouteIsRoute ==
  ASSUME NEW k, Cardinality(Nodes) \in Nat
  PROVE  IsRoute(Route(k), k, Cardinality(Nodes))
<1>1. PICK g : IsRoute(g, k, Cardinality(Nodes))
  BY RouteExists
<1>2. QED
  BY <1>1 DEF Route, IsRoute, Onward

-----------------------------------------------------------------------------
(* The keys of the nodes on a route *)

\* The search for k comes to a node whose upper half, with k in its range, is
\* not linked yet.
Diverted(g, k, m) ==
  \E t \in Threads, d \in 0 .. m :
    pc[t] = "link" /\ g[d] = node[t] /\ k > sep[t]

\* k is led to n and n is responsible for it.
Owner(n, k, own, led) ==
  n \in Nodes /\ n \in Allocated /\ k \in led[n] /\ k \in own[n]

\* A node that k is led to owns it, unless the node's split is in the middle.
LEMMA LedNotDiverted ==
  ASSUME TreeInv, NEW own, NEW led, Ordered(own, led), NEW n \in Nodes,
         NEW k \in Keys, k \in led[n],
         \A t \in Threads : pc[t] = "link" /\ n = node[t] => ~(k > sep[t])
  PROVE  k \in own[n]
<1>1. CASE \A t \in Threads : pc[t] = "link" => node[t] # n
  BY <1>1 DEF Ordered, Parted
<1>2. CASE \E t \in Threads : pc[t] = "link" /\ node[t] = n
  <2>1. PICK t \in Threads : pc[t] = "link" /\ node[t] = n
    BY <1>2
  <2>2. Halved(t, own, led)
    BY DEF Ordered, Informed
  <2>3. sep[t] \in Nat /\ k \in Nat
    BY SetsAssumption DEF TreeInv, TypeOK
  <2>4. k <= sep[t]
    BY <2>1, <2>3
  <2>5. QED
    BY <2>1, <2>2, <2>4 DEF Halved
<1>3. QED
  BY <1>1, <1>2

\* A search passes from an owner of the key to a node the key is led to.
LEMMA OnwardLed ==
  ASSUME TreeInv, NEW own, NEW led, Ordered(own, led), NEW k \in Keys,
         NEW n, Owner(n, k, own, led)
  PROVE  /\ Onward(n, k) \in Nodes /\ Onward(n, k) \in Allocated
         /\ k \in led[Onward(n, k)]
<1>1. CASE kind[n] = "inner"
  <2>1. n \in Inner /\ k \in own[n] /\ Parted(own, led)
    BY <1>1 DEF Owner, Inner, Ordered
  <2>2. /\ lowerBound(n, k) \in Children(n)
        /\ k \in led[children[n][lowerBound(n, k)]]
    BY <2>1, ChildLed
  <2>3. children[n][lowerBound(n, k)] \in Allocated \cap Nodes
    BY <2>1, <2>2, ChildrenAreNodes
  <2>4. QED
    BY <1>1, <2>2, <2>3 DEF Onward
<1>2. CASE kind[n] # "inner"
  BY <1>2 DEF Onward, Owner
<1>3. QED
  BY <1>1, <1>2

\* A search for k that is not diverted passes owners of k only.
LEMMA RouteOwned ==
  ASSUME TreeInv, NEW own, NEW led, Ordered(own, led), NEW k \in Keys,
         NEW m \in Nat, NEW g, IsRoute(g, k, m), ~Diverted(g, k, m)
  PROVE  \A d \in 0 .. m : Owner(g[d], k, own, led)
<1> DEFINE S == {d \in 0 .. m : ~Owner(g[d], k, own, led)}
<1>1. SUFFICES ASSUME S # {} PROVE FALSE
  OBVIOUS
<1>2. S \in SUBSET Nat
  OBVIOUS
<1>3. PICK d \in S : \A i \in S : d <= i
  BY <1>1, <1>2, LeastNatural
<1>4. d \in 0 .. m /\ ~Owner(g[d], k, own, led)
  OBVIOUS
<1>5. g[d] = IF d = 0 THEN root ELSE Onward(g[d - 1], k)
  BY <1>4 DEF IsRoute
<1>6. g[d] \in Nodes /\ g[d] \in Allocated /\ k \in led[g[d]]
  <2>1. CASE d = 0
    <3>1. led[root] = Keys /\ root \in Nodes /\ root \in Allocated
      BY DEF Ordered, Parted, TreeInv, TypeOK, NodesWellFormed
    <3>2. QED
      BY <1>5, <2>1, <3>1
  <2>2. CASE d # 0
    <3>1. d - 1 \in 0 .. m /\ d - 1 \notin S
      BY <1>3, <1>4, <2>2
    <3>2. Owner(g[d - 1], k, own, led)
      BY <3>1
    <3>3. QED
      BY <1>5, <2>2, <3>2, OnwardLed
  <2>3. QED
    BY <2>1, <2>2
<1>7. \A t \in Threads : pc[t] = "link" /\ g[d] = node[t] => ~(k > sep[t])
  BY <1>4 DEF Diverted
<1>8. k \in own[g[d]]
  BY <1>6, <1>7, LedNotDiverted
<1>9. QED
  BY <1>4, <1>6, <1>8 DEF Owner

-----------------------------------------------------------------------------
(* A route ends in a leaf *)

\* A search that is in a leaf stays there.
LEMMA InnerBefore ==
  ASSUME NEW k, NEW m \in Nat, NEW g, IsRoute(g, k, m),
         kind[g[m]] = "inner"
  PROVE  \A d \in 0 .. m : kind[g[d]] = "inner"
<1> DEFINE S == {d \in 0 .. m : kind[g[m - d]] # "inner"}
<1>1. SUFFICES ASSUME NEW e \in 0 .. m, kind[g[e]] # "inner" PROVE FALSE
  OBVIOUS
<1>2. S \in SUBSET Nat /\ m - e \in S
  BY <1>1
<1>3. PICK d \in S : \A i \in S : d <= i
  BY <1>2, LeastNatural
<1>4. d \in 0 .. m /\ kind[g[m - d]] # "inner"
  OBVIOUS
<1>5. d # 0
  BY <1>4
<1>6. d - 1 \in 0 .. m /\ d - 1 \notin S
  BY <1>3, <1>4, <1>5
<1>7. kind[g[m - d + 1]] = "inner"
  <2>1. m - (d - 1) = m - d + 1
    BY <1>4
  <2>2. QED
    BY <1>6, <2>1
<1>8. g[m - d + 1] = Onward(g[m - d], k)
  <2>1. m - d + 1 \in 0 .. m /\ m - d + 1 # 0 /\ m - d + 1 - 1 = m - d
    BY <1>4, <1>5
  <2>2. QED
    BY <2>1 DEF IsRoute
<1>9. QED
  BY <1>4, <1>7, <1>8 DEF Onward

\* The i-th and the j-th node of a route are the same.
Meet(g, i, j) == i < j /\ g[i] = g[j]

\* A search for a key never comes to the same inner node again: each node has
\* one pointer to it, and the root none.
LEMMA NoReturn ==
  ASSUME TreeInv, NEW own, NEW led, Ordered(own, led), NEW k \in Keys,
         NEW m \in Nat, NEW g, IsRoute(g, k, m),
         \A d \in 0 .. m : Owner(g[d], k, own, led) /\ kind[g[d]] = "inner"
  PROVE  ~\E i, j \in 0 .. m : Meet(g, i, j)
<1> DEFINE S == {i \in 0 .. m : \E j \in 0 .. m : Meet(g, i, j)}
<1>1. SUFFICES ASSUME S # {} PROVE FALSE
  OBVIOUS
<1>2. S \in SUBSET Nat
  OBVIOUS
<1>3. PICK i \in S : \A h \in S : i <= h
  BY <1>1, <1>2, LeastNatural
<1>4. PICK j \in 0 .. m : Meet(g, i, j)
  OBVIOUS
<1>5. i \in 0 .. m /\ i < j /\ g[i] = g[j]
  BY <1>4 DEF Meet
<1>6. ASSUME NEW d \in 0 .. m, d # 0
      PROVE  /\ g[d - 1] \in Inner
             /\ lowerBound(g[d - 1], k) \in Children(g[d - 1])
             /\ g[d] = children[g[d - 1]][lowerBound(g[d - 1], k)]
  <2>1. d - 1 \in 0 .. m
    BY <1>6
  <2>2. Owner(g[d - 1], k, own, led) /\ kind[g[d - 1]] = "inner"
    BY <2>1
  <2>3. g[d] = Onward(g[d - 1], k)
    BY <1>6 DEF IsRoute
  <2>4. g[d - 1] \in Inner /\ k \in own[g[d - 1]] /\ Parted(own, led)
    BY <2>2 DEF Owner, Inner, Ordered
  <2>5. lowerBound(g[d - 1], k) \in Children(g[d - 1])
    BY <2>4, ChildLed
  <2>6. QED
    BY <2>2, <2>3, <2>4, <2>5 DEF Onward
<1>7. LinkedOnce
  BY DEF Ordered
<1>8. j # 0
  BY <1>5
<1>9. CASE i = 0
  <2>1. g[0] = root
    BY DEF IsRoute
  <2>2. QED
    BY <1>5, <1>6, <1>7, <1>8, <1>9, <2>1 DEF LinkedOnce
<1>10. CASE i # 0
  <2>1. g[i - 1] = g[j - 1]
    BY <1>5, <1>6, <1>7, <1>8, <1>10 DEF LinkedOnce
  <2>2. i - 1 \in 0 .. m /\ j - 1 \in 0 .. m /\ Meet(g, i - 1, j - 1)
    BY <1>5, <1>8, <1>10, <2>1 DEF Meet
  <2>3. i - 1 \in S
    BY <2>2
  <2>4. QED
    BY <1>3, <1>5, <2>3
<1>11. QED
  BY <1>9, <1>10

\* After as many steps as there are nodes a search is in a leaf.
LEMMA RouteEnds ==
  ASSUME IsFiniteSet(Nodes), TreeInv, NEW own, NEW led, Ordered(own, led),
         NEW k \in Keys, NEW g, IsRoute(g, k, Cardinality(Nodes)),
         \A d \in 0 .. Cardinality(Nodes) : Owner(g[d], k, own, led)
  PROVE  g[Cardinality(Nodes)] \in Leaves
<1>1. PICK m \in Nat : m = Cardinality(Nodes)
  BY FS_CardinalityType
<1>2. g[m] \in Nodes /\ kind[g[m]] # "free"
  BY <1>1 DEF Owner, Allocated
<1>3. ASSUME kind[g[m]] = "inner" PROVE FALSE
  <2>1. IsRoute(g, k, m)
    BY <1>1
  <2>2. \A d \in 0 .. m : kind[g[d]] = "inner"
    BY <1>3, <2>1, InnerBefore
  <2>3. \A d \in 0 .. m : Owner(g[d], k, own, led)
    BY <1>1
  <2>4. ~\E i, j \in 0 .. m : Meet(g, i, j)
    BY <2>1, <2>2, <2>3, NoReturn
  <2>5. g \in [0 .. m -> Nodes]
    <3>1. \A d \in 0 .. m : g[d] \in Nodes
      BY <2>3 DEF Owner
    <3>2. g = [d \in 0 .. m |-> g[d]]
      BY <2>1 DEF IsRoute
    <3>3. QED
      BY <3>1, <3>2
  <2>6. IsFiniteSet(0 .. m) /\ Cardinality(0 .. m) = m + 1
    BY FS_Interval
  <2>7. Cardinality(Nodes) < Cardinality(0 .. m)
    BY <1>1, <2>6
  <2>8. \E i, j \in 0 .. m : i # j /\ g[i] = g[j]
    BY <2>5, <2>6, <2>7, FS_PigeonHole
  <2>9. PICK i \in 0 .. m, j \in 0 .. m : i # j /\ g[i] = g[j]
    BY <2>8
  <2>10. Meet(g, i, j) \/ Meet(g, j, i)
    BY <2>9 DEF Meet
  <2>11. QED
    BY <2>4, <2>10
<1>4. kind[g[m]] = "leaf"
  BY <1>2, <1>3 DEF TreeInv, TypeOK
<1>5. QED
  BY <1>1, <1>2, <1>4 DEF Leaves

-----------------------------------------------------------------------------
\* Every search for a key of the tree ends in the leaf that holds the key, or
\* comes past a node in the middle of a split to the half without the key.
LEMMA RoutesReach ==
  ASSUME IsFiniteSet(Nodes), OrderInv
  PROVE  KeysReachable
<1>1. PICK own, led \in [Nodes -> SUBSET Keys] : Ordered(own, led)
  BY DEF OrderInv
<1>2. TreeInv /\ Cardinality(Nodes) \in Nat
  BY FS_CardinalityType DEF OrderInv
<1>3. ASSUME NEW k \in Dict, ~Diverted(Route(k), k, Cardinality(Nodes))
      PROVE  k \in leafKeys[Route(k)[Cardinality(Nodes)]]
  <2>1. k \in Keys
    BY <1>2 DEF Dict, TreeInv, TypeOK
  <2>2. PICK g : g = Route(k)
    OBVIOUS
  <2>3. PICK m \in Nat : m = Cardinality(Nodes)
    BY <1>2
  <2>4. IsRoute(g, k, m) /\ ~Diverted(g, k, m)
    BY <1>2, <1>3, <2>2, <2>3, RouteIsRoute
  <2>5. \A d \in 0 .. m : Owner(g[d], k, own, led)
    BY <1>1, <1>2, <2>1, <2>4, RouteOwned
  <2>6. g[m] \in Leaves
    BY <1>1, <1>2, <2>1, <2>3, <2>4, <2>5, RouteEnds
  <2>7. k \in own[g[m]] /\ Parted(own, led)
    BY <1>1, <2>3, <2>5 DEF Owner, Ordered
  <2>8. k \in leafKeys[g[m]]
    BY <1>2, <1>3, <2>6, <2>7, LeafDecides
  <2>9. QED
    BY <2>2, <2>3, <2>8
<1>4. QED
  BY <1>3 DEF KeysReachable, Diverted

\* No key is ever lost: whatever splits are under way, following the
\* separators from the root leads every key of the tree to the leaf that holds
\* it, unless it comes past a node whose upper half is about to be linked.
THEOREM NoKeyLost ==
  ASSUME IsFiniteSet(Nodes) PROVE Spec => []KeysReachable
<1>1. OrderInv => KeysReachable
  BY RoutesReach
<1>2. QED
  BY <1>1, KeysInOrder, PTL
=============================================================================
