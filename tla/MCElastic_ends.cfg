SPECIFICATION MCSpec
CONSTANTS
  Keys <- TwelveKeys
  Nodes <- Addresses
  Null = 0
  leafslotmax = 2
  innerslotmax = 4
  MaxMulti = 2
  ShouldLimit = 7
  MustLimit = 13
  MustOnly = FALSE
  NodeBytes = 1
  InnerBytes = 2
  SizeTop = 1000
  Load <- SpreadLoad
INVARIANT EndsOfList
CHECK_DEADLOCK FALSE
