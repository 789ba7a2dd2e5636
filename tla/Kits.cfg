SPECIFICATION KitsSpec
CONSTANTS
  TreeNode = {1, 2, 3, 4, 5}
  Nil = 0
  TreeKey <- MCTreeKey
  Conn = {1, 2, 3}
  Fds = {3, 4}
  Delays = {1}
  LazyDelay = 2
  Infinite = 9
  MutexDelay = 2
  Nap = 1
  MaxNow = 2
  MaxReady = 2
  MaxErrors = 1
  Align = 2
  PoolHead = 4
  BlockHead = 2
  BlockSize = 8
  PoolMax = 9
  Patience = 0
  SlotTries = 0
  SlotSize = 2
  NoteSize = 3
  Requests = {0, 3, 6}
  MaxBlocks = 4
  MaxLarge = 2
  Size = 4
  Extra = 2
  Lengths = {1, 3, 4}
  Junk = Junk
  MaxItems = 9
  PoolThread = {"p", "q"}
  MaxTasks = 3
  Lines <- MCLines
  MaxLoads = 3
  Launch = {1, 2, 3}
  Pid <- MCPid
  Options <- MCOptions
  Byte = {0, 62, 63, 127, 128, 255}
  MaxText = 3
  Keys <- MCKeys
  Fronts <- MCFronts
  BitXor <- MCXor
  Console = {"c", "d"}
  Note = {"n"}
  ReadMax = 2
  MaxNotes = 3
  Typed <- MCTyped
  Given <- MCGiven
  Request = {1, 2}
  Domain = {"a", "b"}
  MaxRuns = 2
  Addresses <- MCAddresses
  Api <- MCApi
  NginxSocket = "nginx"
  SocketFd = {3, 4}
  RequestSize = 2
  MaxConnects = 3
  MaxWire = 2
  Word = 32
  FullRate = 4
  Cards <- MCCards
  Ticks <- MCTicks
  Bytes <- MCBytes
  Workers <- MCWorkers
  MaxChanges = 3
INVARIANTS
  TreeSound
  LoopSound
  PoolSound
  PeeksInOrder
  PoolServes
  AsWritten
  LoadsAccounted
  PidFileKept
  CodecsInvert
  NotesInOrder
  RunsAsTyped
  SocketsSound
  FiguresRight
PROPERTIES
  StepsAnswered
CHECK_DEADLOCK FALSE
