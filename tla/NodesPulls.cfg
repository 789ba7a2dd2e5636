SPECIFICATION FairSpec
CONSTANTS
  a = a
  b = b
  c = c
  Task <- Tasks
  NoTask = none
  Kind <- Kinds
  MaxRetries = 1
  FdLimit = 2
  MasterLost = 0
  MaxExpiries = 1
  MaxDeaths = 1
INVARIANTS
  OnceAndNamed
PROPERTIES
  LeavesWhenTold
CHECK_DEADLOCK FALSE
