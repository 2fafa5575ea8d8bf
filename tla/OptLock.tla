------------------------------ MODULE OptLock ------------------------------
(***************************************************************************)
(* The optimistic lock of the OLC trees (struct OptLock), and the protocol *)
(* its callers follow: load the word, read the node without a lock, then   *)
(* either compare the word again (a read) or upgrade it with a             *)
(* compare-and-swap (a write).  The node a lock protects is an array of    *)
(* cells that are read and written one at a time, so that a reader really  *)
(* sees the half-finished writes of another thread.                        *)
(***************************************************************************)
EXTENDS OptLockWord

CONSTANTS Threads, Cells, Values,
          MaxWord    \* bound: no write section begins at or above this word

ASSUME MaxWordAssumption == MaxWord \in Nat

VARIABLES typeVersionLockObsolete,  \* the lock word
          data,      \* [Cells -> Values]: the contents of the node
          pc,        \* [Threads -> Phases]
          version,   \* [Threads -> Nat]: the caller's local `version'
          copy,      \* [Threads -> [Cells -> Values]]: what the caller read
          seen       \* [Threads -> SUBSET Cells]: the cells it has read

vars == <<typeVersionLockObsolete, data, pc, version, copy, seen>>

Phases == {"start", "reading", "valid", "writing"}

TypeOK ==
  /\ typeVersionLockObsolete \in Nat
  /\ data \in [Cells -> Values]
  /\ pc \in [Threads -> Phases]
  /\ version \in [Threads -> Nat]
  /\ copy \in [Threads -> [Cells -> Values]]
  /\ seen \in [Threads -> SUBSET Cells]

Init ==
  /\ typeVersionLockObsolete = InitialWord
  /\ data \in [Cells -> Values]
  /\ pc = [t \in Threads |-> "start"]
  /\ version = [t \in Threads |-> 0]
  /\ copy = [t \in Threads |-> data]
  /\ seen = [t \in Threads |-> {}]

-----------------------------------------------------------------------------
\* Variants of single operations that the mutation runs put in their place.

\* Locks with a store instead of a compare-and-swap.
upgradeWithoutCompare(t) ==
  /\ pc[t] = "reading"
  /\ version[t] < MaxWord
  /\ typeVersionLockObsolete' = upgraded(version[t])
  /\ version' = [version EXCEPT ![t] = upgraded(version[t])]
  /\ pc' = [pc EXCEPT ![t] = "writing"]
  /\ UNCHANGED <<data, copy, seen>>

\* Copies the lock word instead of the cell.
ReadCellUnset(t, c) ==
  /\ pc[t] = "reading"
  /\ copy' = [copy EXCEPT ![t][c] = typeVersionLockObsolete]
  /\ seen' = [seen EXCEPT ![t] = @ \cup {c}]
  /\ UNCHANGED <<typeVersionLockObsolete, data, pc, version>>

\* Validates when no writer is in, whatever happened in between.
readUnlockIfNotLocked(t) ==
  /\ pc[t] = "reading"
  /\ pc' = [pc EXCEPT ![t] =
             IF ~isLocked(typeVersionLockObsolete) THEN "valid" ELSE "start"]
  /\ UNCHANGED <<typeVersionLockObsolete, data, version, copy, seen>>

\* Accepts obsolete nodes.
readLockOfObsolete(t) ==
  /\ pc[t] = "start"
  /\ ~isLocked(typeVersionLockObsolete)
  /\ version' = [version EXCEPT ![t] = typeVersionLockObsolete]
  /\ seen' = [seen EXCEPT ![t] = {}]
  /\ pc' = [pc EXCEPT ![t] = "reading"]
  /\ UNCHANGED <<typeVersionLockObsolete, data, copy>>

-----------------------------------------------------------------------------
\* The word is loaded; a locked or obsolete word makes the caller restart,
\* which leaves everything as it was.
readLockOrRestart(t) ==
  /\ pc[t] = "start"
  /\ isReadable(typeVersionLockObsolete)
  /\ version' = [version EXCEPT ![t] = typeVersionLockObsolete]
  /\ seen' = [seen EXCEPT ![t] = {}]
  /\ pc' = [pc EXCEPT ![t] = "reading"]
  /\ UNCHANGED <<typeVersionLockObsolete, data, copy>>

\* The caller loads one cell, whatever is in it now.
ReadCell(t, c) ==
  /\ pc[t] = "reading"
  /\ copy' = [copy EXCEPT ![t][c] = data[c]]
  /\ seen' = [seen EXCEPT ![t] = @ \cup {c}]
  /\ UNCHANGED <<typeVersionLockObsolete, data, pc, version>>

\* The word is loaded again; the caller keeps what it read only if the word
\* is still the one it started from.
readUnlockOrRestart(t) ==
  /\ pc[t] = "reading"
  /\ pc' = [pc EXCEPT ![t] =
             IF typeVersionLockObsolete = version[t] THEN "valid" ELSE "start"]
  /\ UNCHANGED <<typeVersionLockObsolete, data, version, copy, seen>>

\* The operation returns what it read.
Return(t) ==
  /\ pc[t] = "valid"
  /\ pc' = [pc EXCEPT ![t] = "start"]
  /\ UNCHANGED <<typeVersionLockObsolete, data, version, copy, seen>>

upgradeToWriteLockOrRestart(t) ==
  /\ pc[t] = "reading"
  /\ version[t] < MaxWord
  /\ IF typeVersionLockObsolete = version[t]
       THEN /\ typeVersionLockObsolete' = upgraded(version[t])
            /\ version' = [version EXCEPT ![t] = upgraded(version[t])]
            /\ pc' = [pc EXCEPT ![t] = "writing"]
       ELSE /\ pc' = [pc EXCEPT ![t] = "start"]
            /\ UNCHANGED <<typeVersionLockObsolete, version>>
  /\ UNCHANGED <<data, copy, seen>>

\* The holder of the lock stores into one cell.
WriteCell(t, c, v) ==
  /\ pc[t] = "writing"
  /\ data' = [data EXCEPT ![c] = v]
  /\ UNCHANGED <<typeVersionLockObsolete, pc, version, copy, seen>>

writeUnlock(t) ==
  /\ pc[t] = "writing"
  /\ typeVersionLockObsolete' = writeUnlocked(typeVersionLockObsolete)
  /\ pc' = [pc EXCEPT ![t] = "start"]
  /\ UNCHANGED <<data, version, copy, seen>>

writeUnlockObsolete(t) ==
  /\ pc[t] = "writing"
  /\ typeVersionLockObsolete' = writeUnlockedObsolete(typeVersionLockObsolete)
  /\ pc' = [pc EXCEPT ![t] = "start"]
  /\ UNCHANGED <<data, version, copy, seen>>

Next ==
  \E t \in Threads :
    \/ readLockOrRestart(t)
    \/ \E c \in Cells : ReadCell(t, c)
    \/ readUnlockOrRestart(t)
    \/ Return(t)
    \/ upgradeToWriteLockOrRestart(t)
    \/ \E c \in Cells, v \in Values : WriteCell(t, c, v)
    \/ writeUnlock(t)
    \/ writeUnlockObsolete(t)

Spec == Init /\ [][Next]_vars
-----------------------------------------------------------------------------
\* A write section is exclusive, and the lock bit says exactly whether one is
\* in progress: only the thread whose compare-and-swap succeeded is between
\* upgradeToWriteLockOrRestart and writeUnlock.
WriteExclusion ==
  /\ \A t, u \in Threads : pc[t] = "writing" /\ pc[u] = "writing" => t = u
  /\ isLocked(typeVersionLockObsolete) <=> \E t \in Threads : pc[t] = "writing"

\* A caller that passes readUnlockOrRestart or upgradeToWriteLockOrRestart has
\* read one state of the node, the current one: no cell it read, at whatever
\* time since readLockOrRestart, differs from what the node holds now.  This
\* is what lets the trees descend and search without locks.
CommittedReadsAreCurrent ==
  [][\A t \in Threads :
       pc[t] = "reading" /\ pc'[t] \in {"valid", "writing"}
         => \A c \in seen[t] : copy[t][c] = data[c]]_vars

\* A node released by writeUnlockObsolete stays as it is for good: callers that
\* loaded the word before can neither lock it nor validate against it.
ObsoleteIsFinal ==
  [][isObsolete(typeVersionLockObsolete)
       => /\ UNCHANGED <<typeVersionLockObsolete, data>>
          /\ \A t \in Threads : pc[t] = "reading" => pc'[t] # "valid"]_vars
=============================================================================
