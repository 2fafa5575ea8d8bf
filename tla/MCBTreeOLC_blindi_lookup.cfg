SPECIFICATION MCSpec
CONSTANTS
  Threads = {1, 2, 3}
  Keys = {1, 2, 3, 4, 5}
  Nodes = {1, 2, 3, 4, 5, 6, 7}
  Null = 0
  LeafSlots = 2
  InnerSlots = 5
  LookupValidates = FALSE
  Scenarios <- Leaf
  Loader = 1
INVARIANTS LookupNeverMisses
