---------------------------- MODULE ElasticShape ----------------------------
(***************************************************************************)
(* Why the elastic tree stays a tree while its leaves are replaced: the    *)
(* inductive invariant behind TypeOK, StatsExact, NodesFilled,             *)
(* MarkedParentsScanned and PlainLeavesShrink.  It holds in the middle of  *)
(* a call too, where a node that was split has a new sibling which no      *)
(* parent points to yet.                                                   *)
(***************************************************************************)
EXTENDS ElasticTree

Slots(p) == 1 .. Len(heap[p].childid)

\* The key under way is in a leaf before the call counts it as stored.
beingStored == IF pc = "unwind" THEN {key} ELSE {}

\* The root was split and has no parent yet.
rootSplit == newchild # Null /\ path = <<>>

capacity(n) == IF isblindileafnode(n) THEN leafslotmax * heap[n].blindileaftype
                                      ELSE leafslotmax

-----------------------------------------------------------------------------
(* The tree *)

\* Every node but the root, and but a new one on its way up, is the child of
\* exactly one slot.
LinkedOnce ==
  /\ \A p, q \in Inner : \A i \in Slots(p), j \in Slots(q) :
       heap[p].childid[i] = heap[q].childid[j] => p = q /\ i = j
  /\ \A p \in Inner : \A i \in Slots(p) :
       heap[p].childid[i] # root /\ heap[p].childid[i] # newchild
  /\ \A n \in Allocated \ {root, newchild} :
       \E p \in Inner : \E i \in Slots(p) : heap[p].childid[i] = n
  /\ newchild # Null => newchild # root

\* A parent with a mark has only compact leaves but possibly the last one.
MarkTrue(n) ==
  heap[n].alreadycomprerss =>
    /\ stats.itemcount > ShouldLimit
    /\ \A i \in 1 .. Len(heap[n].slotkey) :
         heap[n].childid[i] \in Leaves /\ isblindileafnode(heap[n].childid[i])

InnerFilled(n) ==
  /\ Len(heap[n].childid) = Len(heap[n].slotkey) + 1
  /\ Len(heap[n].slotkey) \in 1 .. innerslotmax
  /\ n # root \/ rootSplit => Len(heap[n].slotkey) >= innerslotmax \div 2
  /\ \A i \in Slots(n) : heap[heap[n].childid[i]].level + 1 = heap[n].level

LeafFilled(n) ==
  /\ IsFiniteSet(heap[n].items)
  /\ heap[n].slotuse = Cardinality(heap[n].items)
  /\ heap[n].slotuse <= capacity(n)
  /\ n # root \/ rootSplit => heap[n].slotuse >= leafslotmax \div 2

\* The leaves are doubly linked, with one first leaf.
ListLinked ==
  /\ \A n \in Leaves : heap[n].nextleaf # Null =>
       /\ heap[n].nextleaf \in Leaves \ {n}
       /\ heap[heap[n].nextleaf].prevleaf = n
  /\ \A n \in Leaves : heap[n].prevleaf # Null =>
       /\ heap[n].prevleaf \in Leaves \ {n}
       /\ heap[heap[n].prevleaf].nextleaf = n
  /\ \A m, n \in Leaves :
       heap[m].prevleaf = Null /\ heap[n].prevleaf = Null => m = n
  /\ root # Null => \E n \in Leaves : heap[n].prevleaf = Null

\* A root that is a leaf is plain, holds all keys, and nothing is compressed.
RootLeafPlain ==
  root \in Leaves =>
    /\ hybridstatus = "CONTINUE" /\ heap[root].blindileaftype = 0
    /\ ~rootSplit => stats.itemcount + (IF pc = "unwind" THEN 1 ELSE 0)
                       <= heap[root].slotuse

Tree ==
  /\ LinkedOnce
  /\ \A n \in Inner : InnerFilled(n) /\ MarkTrue(n)
  /\ \A n \in Leaves : LeafFilled(n)
  /\ UNION {heap[n].items : n \in Leaves} = stored \cup beingStored
  /\ ListLinked
  /\ RootLeafPlain
  /\ root = Null => Allocated = {}

-----------------------------------------------------------------------------
(* The call under way *)

\* The path leads down from the root, a level at each step.
PathLeadsDown ==
  /\ path # <<>> => path[1][1] = root
  /\ \A e \in 1 .. Len(path) :
       /\ path[e][2] \in 0 .. Len(heap[path[e][1]].slotkey)
       /\ heap[path[e][1]].level + e = heap[root].level + 1
  /\ \A e \in 1 .. Len(path) - 1 :
       path[e + 1][1] = heap[path[e][1]].childid[path[e][2] + 1]

\* The node that the path leads to.
pathEnd == IF path = <<>> THEN root
           ELSE heap[above[1]].childid[above[2] + 1]

\* A node is split into two of the same kind.
SplitAlike ==
  newchild # Null =>
    /\ newkey \in Keys
    /\ heap[newchild].level + Len(path) = heap[root].level
    /\ newchild \in Leaves =>
         heap[newchild].blindileaftype = heap[pathEnd].blindileaftype

CallUnderWay ==
  /\ pc = "idle" => key = Null /\ path = <<>>
  /\ pc # "idle" => root # Null /\ key \in Keys \ stored
  /\ pc \in {"idle", "descend", "store"} => newchild = Null
  /\ pc \in {"descend", "store"} =>
       /\ cur \in Allocated /\ cur = pathEnd
       /\ heap[cur].level + Len(path) = heap[root].level
  /\ pc = "store" => cur \in Leaves
  /\ PathLeadsDown
  /\ SplitAlike

-----------------------------------------------------------------------------
(* The statistics and the status they drive *)

Counted ==
  /\ IsFiniteSet(Allocated) /\ IsFiniteSet(stored)
  /\ stats.leaves = Cardinality(Leaves)
  /\ stats.innernodes = Cardinality(Inner)
  /\ stats.itemcount = Cardinality(stored)
  /\ \A t \in Types : stats.ofType[t] =
       Cardinality({n \in Leaves : heap[n].blindileaftype = t})

\* Once there are too many items the tree rests only when it has no plain
\* leaf left, and a plain leaf is split only while it rests and before.
StatusDriven ==
  /\ hybridstatus = "CONTINUE" /\ stats.itemcount > ShouldLimit
       => stats.ofType[0] = 0
  /\ hybridstatus # "CONTINUE" => stats.itemcount > ShouldLimit
  /\ pc = "store" /\ ~isblindileafnode(cur) /\ isfullbtree(cur)
       => hybridstatus = "CONTINUE"
  /\ newchild \in Leaves /\ ~isblindileafnode(newchild)
       => stats.itemcount <= ShouldLimit

\* The inductive invariant.
ElasticInv == TypeOK /\ Tree /\ CallUnderWay /\ Counted /\ StatusDriven
=============================================================================
