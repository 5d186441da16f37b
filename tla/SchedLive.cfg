SPECIFICATION FairSpec
CONSTANTS
  a1 = a1
  a2 = a2
  g = g
  b = b
  AudioTasks = {a1, a2}
  Frame <- MCFrame
  LastTasks = {b}
  NoTask = NoTask
  WatchdogLimit = 1
  FrameCounts = {1}
  AudioQSize = 1
  MayBeLate = {}
  MayHang = {a1, g}
  SyncEarly = FALSE
INVARIANTS
  OnePlace
  ReportedIsDone
PROPERTIES
  EveryTaskAnswered
