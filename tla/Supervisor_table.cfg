SPECIFICATION Spec
CONSTANTS
  Pid = {1, 2, 3, 4, 5}
  ProcessesMax = 3
  Roles <- TwoRoles
  WorkerProcesses = 1
  FirstDelay = 50
  KillDelay = 100
  DelayCap = 200
  Daemonized = TRUE
  ParentIsLauncher = FALSE
  OpSignals = {"TERM", "QUIT", "HUP", "USR2", "WINCH"}
  Budget <- TableBudget
INVARIANTS
  Tracked
  NoOrphan
CHECK_DEADLOCK FALSE
