SPECIFICATION FairSpec
CONSTANTS
  MaxSlots = 5
  Base = 2
  PoolBytes = 6
  Align = 2
  Requests = {1, 4}
  FixedAddrs = {4}
  FreeQueueSize = 2
  ByteRange = 4
  Timers = {0, 2, 4}
  LowRam = 3
PROPERTIES
  ReleasedIsReclaimed
