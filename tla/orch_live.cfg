SPECIFICATION LiveSpec
CONSTANTS
  d1 = d1  d2 = d2  cli = cli
  Procs = {d1, cli}
  Kind <- DaemonAndCommand
  Runs = {r1, r2}
  Repos = {"t1|app", "t2|app"}
  Containers = {"app"}
  Jobs <- LiveJobs
  MaxParallel = 1
  MoverHistory = 0
  SnapshotsConfigured = TRUE
  Faults = {}
CHECK_DEADLOCK FALSE
INVARIANT SlotBound
PROPERTY NobodyLeftStopped
PROPERTY RunsFinish
PROPERTY AppsRestart
