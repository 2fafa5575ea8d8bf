----------------------------- MODULE BlindiOLC -----------------------------
(***************************************************************************)
(* The upsert of the concurrent tree with SeqTree leaves, beside the       *)
(* inserts and lookups of BTreeOLC: it descends like a lookup and stores   *)
(* the pointer to the new record into the slot that its search returned,   *)
(* without any lock and without comparing a word.                          *)
(***************************************************************************)
EXTENDS BTreeOLC

VARIABLES slot,      \* each thread's local: the slot the search returned
          acked      \* history: the keys whose insert has returned

blindiVars == <<vars, slot, acked>>

BlindiInit == Init /\ slot = [t \in Threads |-> 0] /\ acked = {}

-----------------------------------------------------------------------------
BeginUpsert(t, k) ==
  /\ pc[t] = "idle"
  /\ op' = [op EXCEPT ![t] = "upsert"]
  /\ key' = [key EXCEPT ![t] = k]
  /\ present' = [present EXCEPT ![t] = k \in Dict]
  /\ goto(t, "loadRoot")
  /\ UNCHANGED <<shared, descent, sep, sibling, hit, slot, acked>>

rank(n, k) == Cardinality({j \in leafKeys[n] : j < k})

\* SearchBlindiNode compares the whole key behind the pointer of the slot it
\* returns, so a hit is true at that moment; a miss may come of anything.
SearchSlot(t) ==
  /\ pc[t] = "visit"
  /\ kind[node[t]] = "leaf"
  /\ op[t] = "upsert"
  /\ \/ /\ key[t] \in leafKeys[node[t]]
        /\ hit' = [hit EXCEPT ![t] = TRUE]
        /\ slot' = [slot EXCEPT ![t] = rank(node[t], key[t])]
        /\ goto(t, "storeSlot")
     \/ /\ FALSE \in Observed(t, key[t] \in leafKeys[node[t]])
        /\ hit' = [hit EXCEPT ![t] = FALSE]
        /\ goto(t, "return")
        /\ UNCHANGED slot
  /\ UNCHANGED <<shared, call, descent, sep, sibling, acked>>

\* ptr[slot] = v: the record of whatever key has that slot by now is replaced
\* by the record of the upsert's key.
StoreSlot(t) ==
  /\ pc[t] = "storeSlot"
  /\ LET n == node[t]
         there == {k \in leafKeys[n] : rank(n, k) = slot[t]}
     IN leafKeys' = IF there = {} THEN leafKeys
                    ELSE [leafKeys EXCEPT ![n] = (@ \ there) \cup {key[t]}]
  /\ goto(t, "return")
  /\ UNCHANGED <<root, word, kind, keys, children, call, descent, sep,
                 sibling, hit, slot, acked>>

-----------------------------------------------------------------------------
\* The steps shared with BTreeOLC; an insert that unlocks its leaf returns.
SharedRun(t) ==
  /\ Run(t)
  /\ acked' = IF pc[t] = "commitLeaf" THEN acked \cup {key[t]} ELSE acked
  /\ UNCHANGED slot

BlindiRun(t) == SharedRun(t) \/ SearchSlot(t) \/ StoreSlot(t)

BlindiBegin(t, k) ==
  \/ (BeginInsert(t, k) \/ BeginLookup(t, k)) /\ UNCHANGED <<slot, acked>>
  \/ BeginUpsert(t, k)

BlindiNext == \E t \in Threads : BlindiRun(t) \/ \E k \in Keys : BlindiBegin(t, k)

BlindiSpec == BlindiInit /\ [][BlindiNext]_blindiVars

-----------------------------------------------------------------------------
\* A key whose insert has returned stays in some leaf: upsert may replace a
\* record, never a key.  (It may, when the slot has moved.)
InsertedKeysStay == acked \subseteq Dict
=============================================================================
