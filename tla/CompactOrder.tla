---------------------------- MODULE CompactOrder ----------------------------
(***************************************************************************)
(* Why no key of the tree of blindi_btree_seqtree.h is lost when nodes are *)
(* split, merged and balanced: the inductive invariant behind TypeOK,      *)
(* KeysFound, LeavesLinked, StatsExact and NodesFilled.  It holds in the   *)
(* middle of a call too, where a new node may have no parent yet, and a    *)
(* parent still has a child that a merge has emptied.                      *)
(***************************************************************************)
EXTENDS CompactBTree

Slots(p) == 1 .. Len(heap[p].childid)

\* The node that a merge has emptied.
gone == IF fixmerge THEN child(cur, emptied) ELSE Null
Live == DOMAIN heap \ {gone}

\* The root was split and has no parent yet.
rootSplit == newchild # Null /\ stack = <<>>

descending == pc \in {"insert", "erase"}

-----------------------------------------------------------------------------
(* The tree *)

LiveInner == Inner \ {gone}
LiveLeaves == Leaves \ {gone}

\* Every node but the root, and but a new one on its way up, is the child of
\* exactly one slot.
LinkedOnce ==
  /\ \A p, q \in LiveInner : \A i \in Slots(p), j \in Slots(q) :
       heap[p].childid[i] = heap[q].childid[j] => p = q /\ i = j
  /\ \A p \in LiveInner : \A i \in Slots(p) :
       heap[p].childid[i] \in DOMAIN heap \ {root, newchild}
  /\ \A n \in DOMAIN heap \ {root, newchild} :
       \E p \in LiveInner : \E i \in Slots(p) : heap[p].childid[i] = n

\* The keys that an inner node has at least.  One that has lost a child is yet
\* to be merged or balanced.
least(n) == CASE pc = "balance" /\ n = cur ->
                   IF n = root THEN 0 ELSE innerslotmax \div 2 - 1
              [] pc # "balance" /\ n = root /\ ~rootSplit -> 1
              [] pc = "balance" /\ n = root /\ n # cur -> 1
              [] OTHER -> innerslotmax \div 2

InnerFilled(n) ==
  /\ Len(heap[n].childid) = Len(heap[n].slotkey) + 1
  /\ Len(heap[n].slotkey) \in least(n) .. innerslotmax
  /\ \A i \in Slots(n) : heap[heap[n].childid[i]].level + 1 = heap[n].level

LeafFilled(n) ==
  /\ IsFiniteSet(heap[n].items)
  /\ Cardinality(heap[n].items) <= leafslotmax
  /\ n # root \/ pc # "insert" => heap[n].items # {}

Tree ==
  /\ LinkedOnce
  /\ \A n \in LiveInner : InnerFilled(n)
  /\ \A n \in LiveLeaves : LeafFilled(n)
  /\ root = Null => DOMAIN heap = {}

-----------------------------------------------------------------------------
(* The call under way *)

\* A frame has the neighbours below the same parent where there are any, and
\* takes others for them only where there are none.
NearbyKnown(f, g) ==
  /\ f.slot > 0 <=> g.leftparent = f.node
  /\ f.slot > 0 => g.left = child(f.node, f.slot - 1)
  /\ f.slot < slotuse(f.node) <=> g.rightparent = f.node
  /\ f.slot < slotuse(f.node) => g.right = child(f.node, f.slot + 1)

\* The neighbours that the next frame is computed from.
CousinsKnown(f) ==
  /\ f.left # Null => f.left \in DOMAIN heap /\ heap[f.left].level = heap[f.node].level
  /\ f.right # Null => f.right \in DOMAIN heap /\ heap[f.right].level = heap[f.node].level
  /\ \A p \in {f.leftparent, f.rightparent} \ {Null} :
       p \in DOMAIN heap /\ heap[p].level > heap[f.node].level

\* A frame is one level below the one before it.  (The slot of a node that
\* was just given fewer children is not used again.)
FrameAt(e) ==
  /\ stack[e].node \in Live
  /\ heap[stack[e].node].level + e = heap[root].level + 1
  /\ e < Len(stack) \/ ~descending => stack[e].node \in Inner
  /\ stack[e].node \in Inner /\ ~(e = Len(stack) /\ pc = "balance")
       => stack[e].slot \in 0 .. slotuse(stack[e].node)

FramesMeet(e) ==
  /\ stack[e + 1].node = child(stack[e].node, stack[e].slot)
  /\ NearbyKnown(stack[e], stack[e + 1])

StackLeadsDown ==
  /\ stack # <<>> => /\ stack[1].node = root
                     /\ stack[1].left = Null /\ stack[1].right = Null
  /\ \A e \in 1 .. Len(stack) : FrameAt(e)
  /\ \A e \in 1 .. Len(stack) - 1 : FramesMeet(e)
  /\ descending => stack # <<>> /\ CousinsKnown(top)

CallUnderWay ==
  /\ pc = "idle" => stack = <<>>
  /\ pc = "idle" <=> key = Null
  /\ pc # "idle" => root # Null
  /\ pc \in {"insert", "link"} => key \notin stored
  /\ pc = "balance" => stack # <<>>
  /\ newchild # Null => /\ pc = "link" /\ newkey \in Keys
                        /\ newchild \in DOMAIN heap \ {root}
                        /\ heap[newchild].level + Len(stack) = heap[root].level
  /\ fixmerge => /\ pc = "fix" /\ stack # <<>>
                 /\ emptied \in 1 .. slotuse(cur)
                 /\ slotuse(gone) = 0
  /\ StackLeadsDown

Counted ==
  /\ IsFiniteSet(DOMAIN heap)
  /\ stats.leaves = Cardinality(Leaves)
  /\ stats.innernodes = Cardinality(Inner)

\* The shape of the tree, which does not depend on the order of the keys.
ShapeInv == TypeOK /\ Tree /\ CallUnderWay /\ Counted

-----------------------------------------------------------------------------
(* The keys *)

\* The keys that the leaves hold.
present == CASE pc = "link" -> stored \cup {key}
             [] pc \in {"fix", "balance"} -> stored \ {key}
             [] OTHER -> stored

\* Each of them is in one leaf.
Kept ==
  /\ \A n \in LiveLeaves : heap[n].items \subseteq present
  /\ \A k \in present : \E n \in LiveLeaves : k \in heap[n].items
  /\ \A m, n \in LiveLeaves : m # n => heap[m].items \cap heap[n].items = {}

\* The history of the calls.
Recorded ==
  /\ IsFiniteSet(stored) /\ stats.itemcount = Cardinality(stored)
  /\ pc \in {"fix", "balance"} => key \in stored
  /\ root = Null => stored = {}

\* What does not depend on the order of the keys.
KeptInv == ShapeInv /\ Recorded /\ Kept

-----------------------------------------------------------------------------
(* The keys below the nodes.  kin[n] are those below node n. *)

\* The keys of a node that was split off below p and not linked yet.
rising(p, kin) ==
  IF newchild # Null /\ stack # <<>> /\ p = cur THEN kin[newchild] ELSE {}

KeysOf(kin, children) == UNION {kin[children[i]] : i \in 1 .. Len(children)}

KeysBelow(kin) ==
  /\ \A n \in LiveLeaves : kin[n] = heap[n].items
  /\ \A p \in LiveInner :
       kin[p] = KeysOf(kin, heap[p].childid) \cup rising(p, kin)
  /\ root # Null =>
       present = kin[root] \cup (IF rootSplit THEN kin[newchild] ELSE {})
  /\ \A n \in Live : kin[n] # {} \/ (n = root /\ pc = "insert")
  /\ fixmerge => kin[gone] = {}

\* A key belongs below child i if the separators before i are below it and no
\* other.  The separator of an emptied child no longer means anything.
Parted(p, kin) ==
  \A i \in Slots(p), j \in DOMAIN heap[p].slotkey :
    j # (IF fixmerge /\ p = cur THEN emptied ELSE 0) =>
      \A k \in kin[heap[p].childid[i]] : heap[p].slotkey[j] < k <=> j < i

\* The node that was split.
splitNode == IF stack = <<>> THEN root ELSE child(cur, top.slot)

SplitParted(kin) ==
  newchild # Null =>
    /\ \A k \in kin[splitNode] : k <= newkey
    /\ \A k \in kin[newchild] : newkey < k
    /\ stack # <<>> =>
         \A j \in DOMAIN heap[cur].slotkey, k \in kin[newchild] :
           heap[cur].slotkey[j] < k <=> j <= top.slot

\* The descent goes where the separators part its key from the others.
RightWay ==
  descending =>
    \A e \in 1 .. Len(stack) : stack[e].node \in Inner =>
      \A j \in DOMAIN heap[stack[e].node].slotkey :
        heap[stack[e].node].slotkey[j] < key <=> j <= stack[e].slot

\* The key that an ancestor's separator is to become is the last one below.
LastkeyKnown(kin) ==
  lastkey # Null =>
    /\ pc \in {"fix", "balance"}
    /\ stack # <<>> => lastkey \in kin[cur] /\ \A k \in kin[cur] : k <= lastkey
    /\ pc = "balance" => ~keyAbove

Led(kin) ==
  /\ KeysBelow(kin)
  /\ \A p \in LiveInner : Parted(p, kin)
  /\ SplitParted(kin)
  /\ RightWay
  /\ LastkeyKnown(kin)

\* The inductive invariant behind KeysFound.
FoundInv == KeptInv /\ \E kin \in [Nodes -> SUBSET Keys] : Led(kin)

-----------------------------------------------------------------------------
(* The list of the leaves *)

\* The leaves L of the heap h are doubly linked from one end to the other.
Linked(h, L, first, last) ==
  \A n \in L :
    /\ h[n].nextleaf = Null <=> n = last
    /\ h[n].nextleaf # Null => /\ h[n].nextleaf \in L \ {n}
                               /\ h[h[n].nextleaf].prevleaf = n
    /\ h[n].prevleaf = Null <=> n = first
    /\ h[n].prevleaf # Null => /\ h[n].prevleaf \in L \ {n}
                               /\ h[h[n].prevleaf].nextleaf = n

\* The keys A are below the keys B.
Before(A, B) == \A j \in A, k \in B : j < k

\* The keys of leaf m come after those of leaf n, and no others between them.
NextTo(h, L, n, m) ==
  /\ Before(h[n].items, h[m].items)
  /\ \A o \in L \ {n, m} : \/ Before(h[o].items, h[n].items)
                          \/ Before(h[m].items, h[o].items)

\* The keys of leaf n come last.
EndOf(h, L, n) == \A o \in L \ {n} : Before(h[o].items, h[n].items)

\* Each leaf is followed by the one with the next keys.
InOrder(h, L) ==
  \A n \in L : IF h[n].nextleaf = Null THEN EndOf(h, L, n)
                                       ELSE NextTo(h, L, n, h[n].nextleaf)

\* The list has its ends in m_headleaf and m_tailleaf.
ListLinked ==
  /\ root # Null => head \in LiveLeaves /\ tail \in LiveLeaves
  /\ Linked(heap, LiveLeaves, head, tail)

\* What the invariant says of the order of the keys.
Held(kin) == Led(kin) /\ ListLinked /\ InOrder(heap, LiveLeaves)

\* The inductive invariant behind LeavesLinked.
CompactInv == KeptInv /\ \E kin \in [Nodes -> SUBSET Keys] : Held(kin)
=============================================================================
