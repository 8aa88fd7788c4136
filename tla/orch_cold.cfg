SPECIFICATION Spec
CONSTANTS
  d1 = d1  d2 = d2  cli = cli
  Procs = {d1, d2}
  Kind <- TwoDaemons
  Runs = {r1, r2, r3}
  Repos = {"t1|app", "t2|app"}
  Containers = {"app"}
  Jobs <- ColdJobs
  MaxParallel = 0
  MoverHistory = 1
  SnapshotsConfigured = TRUE
  Faults = {}
CHECK_DEADLOCK FALSE
SYMMETRY RunSymmetry
INVARIANT TypeOK
INVARIANT ColdQuiescence
INVARIANT SnapshotHeld
INVARIANT NoSnapshotLeak
INVARIANT OneMoverPerRepo
