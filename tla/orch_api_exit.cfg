SPECIFICATION Spec
CONSTANTS
  d1 = d1  d2 = d2  cli = cli
  Procs = {d1}
  Kind <- OneDaemon
  Runs = {r1}
  Repos = {"t1|app", "t2|app"}
  Containers = {"app"}
  Jobs <- ApiJobs
  MaxParallel = 0
  MoverHistory = 1
  SnapshotsConfigured = FALSE
  Faults = {}
CHECK_DEADLOCK FALSE
INVARIANT ExitLeavesAppsUp
