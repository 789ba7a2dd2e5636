SPECIFICATION FairSpec
CONSTANTS
  Log = log
  PrintTask = print
  NoItem = none
  Thread <- OneThread
  Item <- OneTask
  PageSize = 8
  Slack = 2
  Prefix = 1
  SizeMod = 16
  MaxFile = 8
  Lengths = {1, 3, 7}
  Inherited <- FromMaster
  OpenMayFail = TRUE
  MaxRecords = 3
  MaxSignals = 2
INVARIANTS
  NeverLeaves
  BufferFits
  DiskOrdered
PROPERTIES
  BufferDrains
CHECK_DEADLOCK FALSE
