SPECIFICATION Spec
CONSTANTS
  v1 = v1
  v2 = v2
  Version <- Versions
  Garbled = {v2}
  Task <- Tasks
  NoTask = none
  Empty = empty
  First = first
  Cut = cut
  Fault = {"remove", "rename", "open", "mkdir", "full", "dies"}
  MaxFaults = 2
  MaxTasks = 3
INVARIANTS
  OldKept
  DoneInstalls
CHECK_DEADLOCK FALSE
