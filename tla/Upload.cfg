SPECIFICATION MCSpec
CONSTANTS
  Length = 2
  Domains = 2
  Chunk = 2
  MaxLines = 3
  MaxTime = 2
  Missing <- Second
  Answers <- TheAnswers
  RecvSize = 4
  DataMax = 7
  FdLimit = 2
INVARIANTS
  SerialTells
  DoneIsWhole
  DoneWasDelivered
PROPERTIES
  PassesEnd
CHECK_DEADLOCK FALSE
