SPECIFICATION FairSpec
CONSTANTS
  Pid = {1, 2, 3, 4}
  ProcessesMax = 3
  Roles <- TwoRoles
  WorkerProcesses = 1
  FirstDelay = 50
  KillDelay = 1000
  DelayCap = 1600
  Daemonized = FALSE
  ParentIsLauncher = FALSE
  OpSignals = {"TERM", "QUIT", "USR1"}
  Budget <- StopBudget
PROPERTIES
  KilledWasWarned
  StopCompletes
CHECK_DEADLOCK FALSE
