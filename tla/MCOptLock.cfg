SPECIFICATION Spec
CONSTANTS
  t1 = t1
  t2 = t2
  t3 = t3
  c1 = c1
  c2 = c2
  Threads <- MCThreads
  Cells <- MCCells
  Values = {0, 1}
  MaxWord = 9
SYMMETRY MCSymmetry
INVARIANTS TypeOK WriteExclusion
PROPERTIES CommittedReadsAreCurrent ObsoleteIsFinal
\* The run stops at MaxWord, and at once when the node becomes obsolete.
CHECK_DEADLOCK FALSE
