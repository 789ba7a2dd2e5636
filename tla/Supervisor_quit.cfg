SPECIFICATION FairSpec
CONSTANTS
  Pid = {1, 2, 3}
  ProcessesMax = 3
  Roles <- TwoRoles
  WorkerProcesses = 1
  FirstDelay = 50
  KillDelay = 1000
  DelayCap = 1600
  Daemonized = FALSE
  ParentIsLauncher = FALSE
  OpSignals = {"QUIT"}
  Budget <- QuitBudget
PROPERTIES
  QuitCompletes
CHECK_DEADLOCK FALSE
