SPECIFICATION Spec
CONSTANTS
  MaxSlots = 4
  Base = 2
  PoolBytes = 10
  Align = 2
  Requests = {1, 4}
  FixedAddrs = {4, 5}
  FreeQueueSize = 2
  ByteRange = 4
  Timers = {0, 2}
  LowRam = 3
PROPERTIES
  DelayZeroClearsQueue
