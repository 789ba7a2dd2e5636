SPECIFICATION Spec
CONSTANTS
  v1 = v1
  v2 = v2
  Version <- Versions
  Garbled = {v2}
  Task <- Sites
  NoTask = none
  Empty = empty
  First = first
  Cut = cut
  Fault = {"rename", "open", "mkdir", "dies"}
  MaxFaults = 2
  MaxTasks = 2
INVARIANTS
  RejectedNotLive
CHECK_DEADLOCK FALSE
