SPECIFICATION Spec
CONSTANTS
  d1 = d1  d2 = d2  cli = cli
  Procs = {d1, cli}
  Kind <- DaemonAndBackup
  Runs = {r1, r2}
  Repos = {"t1|app", "t2|app"}
  Containers = {"app"}
  Jobs <- FaultJobs
  MaxParallel = 0
  MoverHistory = 1
  SnapshotsConfigured = TRUE
  Faults = {"stop", "start", "snapshot", "remove", "destroy", "crash"}
CHECK_DEADLOCK FALSE
SYMMETRY RunSymmetry
INVARIANT RepoExclusive
INVARIANT RefsCountHolders
INVARIANT PostHooksFollow
PROPERTY SharesDowntime
