SPECIFICATION FairSpec
CONSTANTS
  Pid = {1, 2, 3, 4, 5, 6, 7, 8}
  ProcessesMax = 6
  Roles <- TwoRoles
  WorkerProcesses = 1
  FirstDelay = 50
  KillDelay = 100
  DelayCap = 200
  Daemonized = FALSE
  ParentIsLauncher = TRUE
  OpSignals = {"HUP", "USR1", "USR2"}
  Budget <- ReloadBudget
INVARIANTS
  OneActivePerRole
  ChannelsApart
  ExitingWasTold
PROPERTIES
  EveryRoleServed
CHECK_DEADLOCK FALSE
