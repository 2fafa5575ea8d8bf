CONSTANTS
  NumSlots = 4
  KeyBits = 3
  Stale = 0
  Absent = Absent
  Keys <- KeySpace
  TrieSlots = 4
  Builds <- ErasingBuilds
SPECIFICATION Spec
INVARIANT SearchesExact
