SPECIFICATION MCSpec
CONSTANTS
  Threads = {1, 2}
  Keys = {2, 3, 4}
  Nodes = {1, 2, 3, 4, 5}
  Null = 0
  LeafSlots = 4
  InnerSlots = 5
  LookupValidates = FALSE
  Load <- UpsertLoad
  Loader = 1
  Inserts <- UpsertInserts
  Lookups <- UpsertLookups
  Upserts <- UpsertUpserts
INVARIANTS InsertedKeysStay
