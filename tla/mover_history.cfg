SPECIFICATION LiveSpec
CONSTANTS
  Engines = {"docker", "swarm"}
  Keep = 1
  Kinds <- AllKinds
  Reapers = {"loop", "cli"}
  Faults = {"start", "wait", "remove", "tasks", "cancel"}
  MaxMovers = 2
  MaxCrashes = 1
CHECK_DEADLOCK FALSE
INVARIANT TypeOK
 
INVARIANT DroppedOnlyForNewer
 
PROPERTY Trimmed
