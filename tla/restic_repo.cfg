SPECIFICATION Spec
CONSTANTS
  x = x
  d1 = d1
  Nobody = Nobody
  Procs = {d1}
  Apps <- TwoApps
  Retention <- Policies
  Blobs = {x}
  Contents <- Reading
  Actions = {"backup", "prune", "restore"}
  MaxMovers = 3
  MaxRestarts = 1
  MaxFaults = 1
CHECK_DEADLOCK FALSE
INVARIANT TypeOK
INVARIANT Intact
INVARIANT OnlyStrangersOverrun
INVARIANT Kept
INVARIANT NeverWedged
