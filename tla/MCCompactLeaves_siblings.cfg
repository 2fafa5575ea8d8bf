CONSTANTS
  NumSlots = 8
  KeyBits = 4
  Stale = Stale
  Absent = Absent
  Keys <- SpreadKeys
  TrieSlots = 6
  Builds <- CheckedBuilds
SPECIFICATION Spec
INVARIANT TypeOK
INVARIANT NothingLost
INVARIANT IndexesExact
INVARIANT WithinAllocation
INVARIANT SearchesExact
CHECK_DEADLOCK FALSE
