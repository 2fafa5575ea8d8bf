---------------------------- MODULE MCBTreeOLC ----------------------------
(***************************************************************************)
(* Instances of BTreeOLC.  A scenario first loads keys one after the       *)
(* other, as the benchmarks do, and then lets every thread call at will    *)
(* with its own keys.                                                      *)
(***************************************************************************)
EXTENDS BTreeOLCOrder

CONSTANTS Scenarios,   \* records: load, a sequence of keys, and inserts and
                       \* lookups, [Threads -> SUBSET Keys]: the threads' calls
          Loader       \* the thread that loads

VARIABLE scenario

Loaded == \A i \in 1 .. Len(scenario.load) : scenario.load[i] \in Dict

AllIdle == \A t \in Threads : pc[t] = "idle"

LoadNext ==
  /\ ~Loaded
  /\ AllIdle
  /\ \E i \in 1 .. Len(scenario.load) :
       /\ \A j \in 1 .. i - 1 : scenario.load[j] \in Dict
       /\ BeginInsert(Loader, scenario.load[i])

Call(t) ==
  /\ Loaded
  /\ \/ \E k \in scenario.inserts[t] : BeginInsert(t, k)
     \/ \E k \in scenario.lookups[t] : BeginLookup(t, k)

MCInit == Init /\ scenario \in Scenarios

MCNext == /\ LoadNext \/ \E t \in Threads : Call(t) \/ Run(t)
          /\ UNCHANGED scenario

MCSpec == MCInit /\ [][MCNext]_<<vars, scenario>>

MCFairSpec == MCSpec /\ Fairness

-----------------------------------------------------------------------------
Ascending(n) == [i \in 1 .. n |-> 2 * i]

(* A full root leaf: writers split it, and its halves, under a reader. *)
LeafSplits ==
  [load |-> Ascending(2),
   inserts |-> <<{1, 3}, {5}, {}>>, lookups |-> <<{}, {}, {4}>>]

(* A full root with five leaves: the first insert splits the root. *)
RootSplit ==
  [load |-> Ascending(6),
   inserts |-> <<{13}, {11}, {}>>, lookups |-> <<{}, {}, {12}>>]

(* Three levels, the right inner node full: the first insert below it splits *)
(* it into the root.                                                         *)
InnerSplit ==
  [load |-> Ascending(8),
   inserts |-> <<{17}, {15}, {}>>, lookups |-> <<{}, {}, {16}>>]

(* The same tree with two writers, one of which also reads. *)
TwoWriters ==
  [load |-> Ascending(8),
   inserts |-> <<{17}, {15}>>, lookups |-> <<{}, {16}>>]

Leaf == {LeafSplits}
Upper == {RootSplit, InnerSplit}
Live == {TwoWriters}
-----------------------------------------------------------------------------
(* The functions of OrderInv, read off the tree: the nodes that a search for *)
(* k passes when a split that is under way counts as linked.                *)
Passes(k) ==
  LET Diverts(t, n) == pc[t] = "link" /\ node[t] = n /\ k > sep[t]
      after(n) == IF \E t \in Threads : Diverts(t, n)
                  THEN sibling[CHOOSE t \in Threads : Diverts(t, n)] ELSE n
      at[d \in 0 .. 3] ==
        IF d = 0 THEN root
        ELSE LET n == after(at[d - 1])
             IN IF kind[n] = "inner" THEN children[n][lowerBound(n, k)] ELSE n
  IN [led |-> {at[d] : d \in 0 .. 3}, own |-> {after(at[d]) : d \in 0 .. 3}]

KeysParted ==
  \E passes \in {[k \in Keys |-> Passes(k)]} :
  \E own \in {[n \in Nodes |-> {k \in Keys : n \in passes[k].own}]} :
  \E led \in {[n \in Nodes |-> {k \in Keys :
           n \in passes[k].led \/ (Pending(n) /\ n \in passes[k].own)}]} :
    Ordered(own, led)
=============================================================================
