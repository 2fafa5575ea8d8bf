----------------------------- MODULE MCOptLock -----------------------------
(* Three callers of one optimistic lock over a node of two binary cells. *)
EXTENDS OptLock, TLC

CONSTANTS t1, t2, t3, c1, c2

MCThreads == {t1, t2, t3}
MCCells == {c1, c2}
MCSymmetry == Permutations(MCThreads) \cup Permutations(MCCells)
=============================================================================
