SPECIFICATION Spec
CONSTANTS
  d1 = d1
  d2 = d2
  sib = sib
  None = None
  Procs <- Daemons
  Instance <- InstanceNames
  App <- AppNames
  Configured <- SnapshotConfigured
  Mode <- Modes
  Sources <- AppSources
  Datasets <- HostDatasets
  MaxWrites = 1
  MaxFaults = 2
CHECK_DEADLOCK FALSE
INVARIANT TypeOK
INVARIANT SnapshotsHeld
INVARIANT PoolConsistent
INVARIANT ReadsItsSource
INVARIANT NoLeak
INVARIANT OrphansReaped
