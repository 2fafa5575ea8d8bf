---------------------------- MODULE OptLockWord ----------------------------
(***************************************************************************)
(* The word of an optimistic lock (struct OptLock): bit 0 says that the    *)
(* node is obsolete, bit 1 that a writer holds it, the other bits count    *)
(* the write sections.  The word is a uint64_t; it is a natural number     *)
(* here: wrapping it would take 2^62 write sections of one node during a   *)
(* single optimistic read.                                                 *)
(***************************************************************************)
EXTENDS Naturals

InitialWord == 4

isLocked(version) == (version \div 2) % 2 = 1

isObsolete(version) == version % 2 = 1

\* What readLockOrRestart accepts: neither locked nor obsolete.
isReadable(version) == ~isLocked(version) /\ ~isObsolete(version)

\* The successful compare-and-swap of upgradeToWriteLockOrRestart.
upgraded(version) == version + 2

\* fetch_add(0b10): clears the lock bit and carries into the counter.
writeUnlocked(version) == version + 2

\* fetch_add(0b11): the same, and sets the obsolete bit.
writeUnlockedObsolete(version) == version + 3
=============================================================================
