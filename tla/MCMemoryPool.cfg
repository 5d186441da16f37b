SPECIFICATION MCSpec
CONSTANTS
  MaxSlots = 5
  Base = 2
  PoolBytes = 8
  Align = 2
  Requests = {1, 4}
  FixedAddrs = {4}
  FreeQueueSize = 2
  ByteRange = 4
  Timers = {0, 2}
  LowRam = 3
INVARIANTS
  TypeOK
  BlocksDisjoint
  QueuedOnce
  UsedIsOwned
  ListIntact
  NoAdjacentFree
  FreeRamExact
PROPERTIES
  TickCountsOnce
  HeapSpec
