SPECIFICATION MCFairSpec
CONSTANTS
  Threads = {1, 2}
  Keys = {2, 4, 6, 8, 10, 12, 14, 15, 16, 17}
  Nodes = {1, 2, 3, 4, 5, 6, 7, 8, 9, 10, 11, 12, 13, 14}
  Null = 0
  LeafSlots = 2
  InnerSlots = 5
  LookupValidates = TRUE
  Scenarios <- Live
  Loader = 1
PROPERTIES CallsReturn
