--------------------------- MODULE OptLockProofs ---------------------------
(***************************************************************************)
(* The optimistic lock is correct for any number of threads, any node      *)
(* layout and any values.                                                  *)
(***************************************************************************)
EXTENDS OptLock, TLAPS

\* Adding 0b10 flips the lock bit and keeps the obsolete bit.
LEMMA AddTwo ==
  ASSUME NEW v \in Nat
  PROVE  /\ isLocked(v + 2) <=> ~isLocked(v)
         /\ isObsolete(v + 2) <=> isObsolete(v)
BY DEF isLocked, isObsolete

\* Adding 0b11 to a locked, live word unlocks it.
LEMMA AddThree ==
  ASSUME NEW v \in Nat, isLocked(v), ~isObsolete(v)
  PROVE  ~isLocked(v + 3)
BY DEF isLocked, isObsolete

-----------------------------------------------------------------------------
\* A reader's word was free when it was loaded and is not newer than the lock's.
ReadersBehind ==
  \A t \in Threads : pc[t] = "reading" =>
    /\ isReadable(version[t])
    /\ version[t] <= typeVersionLockObsolete

\* A writer owns the word: it is locked, live, and the one the writer made.
WritersCurrent ==
  \A t \in Threads : pc[t] = "writing" =>
    /\ isLocked(typeVersionLockObsolete)
    /\ ~isObsolete(typeVersionLockObsolete)
    /\ version[t] = typeVersionLockObsolete

\* While the word is the one a reader started from, the cells it has read are
\* still what the node holds.
CopiesCurrent ==
  \A t \in Threads :
    pc[t] = "reading" /\ version[t] = typeVersionLockObsolete
      => \A c \in seen[t] : copy[t][c] = data[c]

LockInv ==
  /\ TypeOK
  /\ ReadersBehind
  /\ WritersCurrent
  /\ WriteExclusion
  /\ CopiesCurrent

\* The inductive invariant holds initially.
LEMMA LockInvInit == Init => LockInv
<1> SUFFICES ASSUME Init PROVE LockInv
  OBVIOUS
<1>1. TypeOK
  BY DEF Init, TypeOK, InitialWord, Phases
<1>2. ~isLocked(4)
  BY DEF isLocked
<1>3. QED
  BY <1>1, <1>2 DEF Init, LockInv, ReadersBehind, WritersCurrent,
     WriteExclusion, CopiesCurrent, InitialWord

\* Every operation of the lock's callers preserves the inductive invariant.
LEMMA LockInvStep == LockInv /\ [Next]_vars => LockInv'
<1> SUFFICES ASSUME LockInv, [Next]_vars PROVE LockInv'
  OBVIOUS
<1> USE DEF LockInv
<1>1. ASSUME NEW t \in Threads, readLockOrRestart(t) PROVE LockInv'
  <2> USE <1>1 DEF readLockOrRestart
  <2>1. TypeOK'
    BY DEF TypeOK, Phases
  <2>2. ReadersBehind'
    BY DEF TypeOK, ReadersBehind
  <2>3. WritersCurrent'
    BY DEF TypeOK, WritersCurrent
  <2>4. WriteExclusion'
    BY DEF TypeOK, WriteExclusion
  <2>5. CopiesCurrent'
    BY DEF TypeOK, CopiesCurrent
  <2>6. QED
    BY <2>1, <2>2, <2>3, <2>4, <2>5
<1>2. ASSUME NEW t \in Threads, NEW c \in Cells, ReadCell(t, c) PROVE LockInv'
  <2> USE <1>2 DEF ReadCell
  <2>1. TypeOK'
    BY DEF TypeOK
  <2>2. ReadersBehind' /\ WritersCurrent' /\ WriteExclusion'
    BY DEF ReadersBehind, WritersCurrent, WriteExclusion
  <2>3. CopiesCurrent'
    BY DEF TypeOK, CopiesCurrent
  <2>4. QED
    BY <2>1, <2>2, <2>3
<1>3. ASSUME NEW t \in Threads, readUnlockOrRestart(t) \/ Return(t)
      PROVE  LockInv'
  <2>1. PICK p \in {"valid", "start"} :
          /\ pc' = [pc EXCEPT ![t] = p]
          /\ pc[t] # "writing"
          /\ UNCHANGED <<typeVersionLockObsolete, data, version, copy, seen>>
    BY <1>3 DEF readUnlockOrRestart, Return
  <2>2. TypeOK'
    BY <2>1 DEF TypeOK, Phases
  <2>3. ReadersBehind' /\ CopiesCurrent'
    BY <2>1 DEF TypeOK, ReadersBehind, CopiesCurrent
  <2>4. \A u \in Threads : pc'[u] = "writing" <=> pc[u] = "writing"
    BY <2>1 DEF TypeOK
  <2>5. WritersCurrent' /\ WriteExclusion'
    BY <2>1, <2>4 DEF WritersCurrent, WriteExclusion
  <2>6. QED
    BY <2>2, <2>3, <2>5
<1>4. ASSUME NEW t \in Threads, upgradeToWriteLockOrRestart(t) PROVE LockInv'
  <2>1. CASE typeVersionLockObsolete # version[t]
    <3>1. /\ pc' = [pc EXCEPT ![t] = "start"]
          /\ pc[t] # "writing"
          /\ UNCHANGED <<typeVersionLockObsolete, data, version, copy, seen>>
      BY <1>4, <2>1 DEF upgradeToWriteLockOrRestart
    <3>2. TypeOK' /\ ReadersBehind' /\ CopiesCurrent'
      BY <3>1 DEF TypeOK, Phases, ReadersBehind, CopiesCurrent
    <3>3. \A u \in Threads : pc'[u] = "writing" <=> pc[u] = "writing"
      BY <3>1 DEF TypeOK
    <3>4. WritersCurrent' /\ WriteExclusion'
      BY <3>1, <3>3 DEF WritersCurrent, WriteExclusion
    <3>5. QED
      BY <3>2, <3>4
  <2>2. CASE typeVersionLockObsolete = version[t]
    <3>1. /\ pc[t] = "reading"
          /\ typeVersionLockObsolete' = typeVersionLockObsolete + 2
          /\ version' = [version EXCEPT ![t] = typeVersionLockObsolete + 2]
          /\ pc' = [pc EXCEPT ![t] = "writing"]
          /\ UNCHANGED <<data, copy, seen>>
      BY <1>4, <2>2 DEF upgradeToWriteLockOrRestart, upgraded
    <3>2. /\ ~isLocked(typeVersionLockObsolete)
          /\ ~isObsolete(typeVersionLockObsolete)
      BY <2>2, <3>1 DEF ReadersBehind, isReadable
    <3>3. /\ isLocked(typeVersionLockObsolete')
          /\ ~isObsolete(typeVersionLockObsolete')
      BY <3>1, <3>2, AddTwo DEF TypeOK
    <3>4. \A u \in Threads : pc[u] # "writing"
      BY <3>2 DEF WriteExclusion
    <3>5. TypeOK'
      BY <3>1 DEF TypeOK, Phases
    <3>6. ReadersBehind' /\ CopiesCurrent'
      BY <3>1 DEF TypeOK, ReadersBehind, CopiesCurrent
    <3>7. WritersCurrent' /\ WriteExclusion'
      BY <3>1, <3>3, <3>4 DEF TypeOK, WritersCurrent, WriteExclusion
    <3>8. QED
      BY <3>5, <3>6, <3>7
  <2>3. QED
    BY <2>1, <2>2
<1>5. ASSUME NEW t \in Threads, NEW c \in Cells, NEW v \in Values,
             WriteCell(t, c, v)
      PROVE  LockInv'
  <2> USE <1>5 DEF WriteCell
  <2>1. TypeOK'
    BY DEF TypeOK
  <2>2. ReadersBehind' /\ WritersCurrent' /\ WriteExclusion'
    BY DEF ReadersBehind, WritersCurrent, WriteExclusion
  <2>3. \A u \in Threads :
          pc[u] = "reading" => version[u] # typeVersionLockObsolete
    BY DEF ReadersBehind, WritersCurrent, isReadable
  <2>4. CopiesCurrent'
    BY <2>3 DEF CopiesCurrent
  <2>5. QED
    BY <2>1, <2>2, <2>4
<1>6. ASSUME NEW t \in Threads, writeUnlock(t) \/ writeUnlockObsolete(t)
      PROVE  LockInv'
  <2>1. PICK d \in {2, 3} :
          /\ pc[t] = "writing"
          /\ typeVersionLockObsolete' = typeVersionLockObsolete + d
          /\ pc' = [pc EXCEPT ![t] = "start"]
          /\ UNCHANGED <<data, version, copy, seen>>
    BY <1>6 DEF writeUnlock, writeUnlockObsolete, writeUnlocked,
                writeUnlockedObsolete
  <2>2. ~isLocked(typeVersionLockObsolete')
    BY <2>1, AddTwo, AddThree DEF TypeOK, WritersCurrent
  <2>3. \A u \in Threads : pc'[u] # "writing"
    BY <2>1 DEF TypeOK, WriteExclusion
  <2>4. TypeOK'
    BY <2>1 DEF TypeOK, Phases
  <2>5. ReadersBehind' /\ CopiesCurrent'
    BY <2>1 DEF TypeOK, ReadersBehind, CopiesCurrent
  <2>6. WritersCurrent' /\ WriteExclusion'
    BY <2>2, <2>3 DEF WritersCurrent, WriteExclusion
  <2>7. QED
    BY <2>4, <2>5, <2>6
<1>7. CASE UNCHANGED vars
  BY <1>7 DEF vars, TypeOK, ReadersBehind, WritersCurrent, WriteExclusion,
     CopiesCurrent
<1>8. QED
  BY <1>1, <1>2, <1>3, <1>4, <1>5, <1>6, <1>7 DEF Next

\* The inductive invariant holds in every reachable state.
LEMMA LockInvariant == Spec => []LockInv
<1>1. QED
  BY LockInvInit, LockInvStep, PTL DEF Spec

\* Type correctness of the lock and its callers.
THEOREM TypeCorrect == Spec => []TypeOK
<1>1. LockInv => TypeOK
  BY DEF LockInv
<1>2. QED
  BY <1>1, LockInvariant, PTL

\* Write sections exclude each other, and the lock bit tells the truth.
THEOREM WriteSectionsExclusive == Spec => []WriteExclusion
<1>1. LockInv => WriteExclusion
  BY DEF LockInv
<1>2. QED
  BY <1>1, LockInvariant, PTL

\* An optimistic read that validates, or is upgraded, read the current node.
THEOREM OptimisticReadsSound == Spec => CommittedReadsAreCurrent
<1> DEFINE Sound == \A t \in Threads :
       pc[t] = "reading" /\ pc'[t] \in {"valid", "writing"}
         => \A c \in seen[t] : copy[t][c] = data[c]
<1>1. ASSUME LockInv, Next PROVE Sound
  <2> SUFFICES ASSUME NEW t \in Threads,
                      pc[t] = "reading", pc'[t] \in {"valid", "writing"}
               PROVE  typeVersionLockObsolete = version[t]
    BY <1>1 DEF LockInv, CopiesCurrent
  <2> QED
    BY <1>1 DEF Next, LockInv, TypeOK, readLockOrRestart, ReadCell,
       readUnlockOrRestart, Return, upgradeToWriteLockOrRestart, WriteCell,
       writeUnlock, writeUnlockObsolete
<1>2. LockInv /\ [Next]_vars => [Sound]_vars
  BY <1>1
<1>3. QED
  BY <1>2, LockInvariant, PTL DEF Spec, CommittedReadsAreCurrent

\* An obsolete node never changes, is never locked and never validates again.
THEOREM ObsoleteNodesFinal == Spec => ObsoleteIsFinal
<1> DEFINE Final == isObsolete(typeVersionLockObsolete)
       => /\ UNCHANGED <<typeVersionLockObsolete, data>>
          /\ \A t \in Threads : pc[t] = "reading" => pc'[t] # "valid"
<1>1. ASSUME LockInv, Next PROVE Final
  <2> SUFFICES ASSUME isObsolete(typeVersionLockObsolete)
               PROVE  /\ UNCHANGED <<typeVersionLockObsolete, data>>
                      /\ \A t \in Threads : pc[t] = "reading" => pc'[t] # "valid"
    OBVIOUS
  <2>1. \A t \in Threads : pc[t] # "writing"
    BY <1>1 DEF LockInv, WritersCurrent
  <2>2. \A t \in Threads :
          pc[t] = "reading" => version[t] # typeVersionLockObsolete
    BY <1>1 DEF LockInv, ReadersBehind, isReadable
  <2>3. QED
    BY <1>1, <2>1, <2>2 DEF Next, LockInv, TypeOK, readLockOrRestart, ReadCell,
       readUnlockOrRestart, Return, upgradeToWriteLockOrRestart, WriteCell,
       writeUnlock, writeUnlockObsolete
<1>2. LockInv /\ [Next]_vars => [Final]_vars
  BY <1>1
<1>3. QED
  BY <1>2, LockInvariant, PTL DEF Spec, ObsoleteIsFinal
=============================================================================
