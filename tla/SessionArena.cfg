SPECIFICATION ArenaSpec
CONSTANTS
  POOL_SIZE = 32
  TRANSPORT_SIZE = 12
  Sizes <- MCSizes
  StaleFree = FALSE
  MaxFrees = 3
  MaxHeap = 1
INVARIANTS
  BlocksDisjoint
  DeadBlocksAccounted
CHECK_DEADLOCK FALSE
