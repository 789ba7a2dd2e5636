SPECIFICATION FairSpec
CONSTANTS
  Size = 2
  Thread <- Threads
  Index = {0, 1, 2}
  MaxTasks = 2
  Item <- Tasks
  NoItem = none
INVARIANTS
  MissedIdle
  GoneAfterTasks
PROPERTIES
  KeepsOrder
  DispatchedRuns
  DestroyEnds
CHECK_DEADLOCK FALSE
