SPECIFICATION Spec
CONSTANTS
  a1 = a1
  a2 = a2
  g = g
  b = b
  AudioTasks = {a1, a2}
  Frame <- MCFrame
  LastTasks = {b}
  NoTask = NoTask
  WatchdogLimit = 1
  FrameCounts = {1, 2}
  AudioQSize = 1
  MayBeLate = {a1}
  MayHang = {}
  SyncEarly = FALSE
INVARIANTS
  ReportedIsDone
