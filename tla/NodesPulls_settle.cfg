SPECIFICATION LuckySpec
CONSTANTS
  a = a
  b = b
  c = c
  Task <- TwoTasks
  NoTask = none
  Kind <- TwoKinds
  MaxRetries = 1
  FdLimit = 2
  MasterLost = 0
  MaxExpiries = 1
  MaxDeaths = 1
PROPERTIES
  Settled
CHECK_DEADLOCK FALSE
