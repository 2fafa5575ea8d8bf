---------------------------- MODULE MCBlindiOLC ----------------------------
(***************************************************************************)
(* Instances of BlindiOLC: the loader inserts the keys of Load in their    *)
(* order, and then every thread calls with its own keys.                   *)
(***************************************************************************)
EXTENDS BlindiOLC

CONSTANTS Load,        \* a sequence of keys
          Loader,      \* the thread that loads them
          Inserts,     \* [Threads -> SUBSET Keys]: what a thread inserts,
          Lookups,     \* [Threads -> SUBSET Keys]: looks up,
          Upserts      \* [Threads -> SUBSET Keys]: and upserts

MissingLoad == {i \in 1 .. Len(Load) : Load[i] \notin acked}

LoadNext ==
  /\ \E i \in MissingLoad :
       /\ \A j \in MissingLoad : i <= j
       /\ BeginInsert(Loader, Load[i])
  /\ UNCHANGED <<slot, acked>>

Call(t) ==
  /\ MissingLoad = {}
  /\ \/ \E k \in Inserts[t] : BeginInsert(t, k) /\ UNCHANGED <<slot, acked>>
     \/ \E k \in Lookups[t] : BeginLookup(t, k) /\ UNCHANGED <<slot, acked>>
     \/ \E k \in Upserts[t] : BeginUpsert(t, k)

MCNext == LoadNext \/ \E t \in Threads : Call(t) \/ BlindiRun(t)

MCSpec == BlindiInit /\ [][MCNext]_blindiVars

(* A leaf with room, an insert below the key of an upsert. *)
UpsertLoad == <<2, 4>>
UpsertInserts == <<{3}, {}>>
UpsertLookups == <<{}, {}>>
UpsertUpserts == <<{}, {4}>>
=============================================================================
