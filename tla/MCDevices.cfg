SPECIFICATION Spec
CONSTANTS
  Overlays = {a, b, c}
  Main = main
  Places = {p1, p2}
  NoPlace = NoPlace
  TwoTables = {b}
  MaxExchanges = 3
  MaxVisits = 2
  MaxTries = 4
  Game = game
  Others = {o1, o2}
  MaxChunks = 3
  CmdSlots = 3
  Buffers = {f1, f2}
  NoBuffer = NoBuffer
  Modes = {m1, m2}
  Clients = {sched, fault}
  NoClient = NoClient
  MaxRetraces = 2
  MaxPending = 2
  Windows = {w1, w2}
  StringCount = 4
  Numbers = {0, 1, 254}
  AddressBits = 11
  DataBytes = 3
  DataBlocks <- FewBits
  Codes = 6
  MaxLength = 5
  Asked = {2, 3}
  MaxFrames = 3
  MaxTime = 2
  Steps = {0, 1, 4}
  TimeLimit = 16
INVARIANTS
  DevicesTypeOK
  MainIsLinked
  AnswersFit
  CopyIsWhole
  ContextsAgree
  StringsApart
  CrcIsRemainder
  TablesDecode
  CyclesKeepTime
PROPERTIES
  PadsKeepComing
