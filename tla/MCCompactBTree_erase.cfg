SPECIFICATION MCSpec
CONSTANTS
  Keys <- TenKeys
  Nodes <- Addresses
  Null = 0
  leafslotmax = 2
  innerslotmax = 4
  Loads <- AllOrders
  Again <- Middle
INVARIANTS KeptInv KeysParted TypeOK KeysFound LeavesLinked StatsExact NodesFilled
