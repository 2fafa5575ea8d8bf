----------------------------- MODULE MCElastic -----------------------------
(***************************************************************************)
(* Instances of ElasticTree: the keys of Load in their order, and then     *)
(* every order of the others.                                              *)
(***************************************************************************)
EXTENDS ElasticOrder

CONSTANT Load   \* the keys inserted first, a sequence

Loading == {i \in 1 .. Len(Load) : Load[i] \notin stored}

\* The keys that may be inserted now.
Offered == IF Loading = {} THEN Keys ELSE {Load[Min(Loading)]}

MCNext == (\E k \in Keys : k \in Offered /\ Begin(k)) \/ Step

MCSpec == Init /\ [][MCNext]_vars

TwelveKeys == 1 .. 12

\* Spread over the key space, so that what follows splits every child of a
\* full inner node.
SpreadLoad == <<7, 2, 11>>

Addresses == 1 .. 16

-----------------------------------------------------------------------------
(* The functions of OrderInv, read off the tree: the nodes that a descent    *)
(* for k passes when a split that is on its way up counts as linked.         *)
Passes(k) ==
  LET after(n) == IF newchild # Null /\ n = pathEnd /\ k > newkey
                  THEN newchild ELSE n
      below(n) == IF isleafnode(n) THEN n
                  ELSE heap[n].childid[find_lower(n, k) + 1]
      d1 == below(after(root))
      d2 == below(after(d1))
      d3 == below(after(d2))
      d4 == below(after(d3))
      way == {root, d1, d2, d3, d4}
  IN  IF root = Null THEN [led |-> {}, own |-> {}]
      ELSE [led |-> way, own |-> {after(n) : n \in way}]

\* Separators part all keys among the leaves of the elastic tree, in the
\* middle of a call too, and a call is where its key belongs.
KeysParted ==
  \E passes \in {[k \in Keys |-> Passes(k)]} :
  \E own \in {[n \in Allocated |-> {k \in Keys : n \in passes[k].own}]} :
  \E led \in {[n \in Allocated |-> {k \in Keys : n \in passes[k].led}]} :
    Placed(own, led)
=============================================================================
