SPECIFICATION Spec
CONSTANTS
  Clients = {cold, restore}
  Commands = {restore}
  Counts = {0, 2}
  None = None
  MaxVersion = 4
  MaxCrashes = 2
CHECK_DEADLOCK FALSE
INVARIANT TypeOK
INVARIANT CountPreserved
INVARIANT NotStranded
INVARIANT StoppedForTheBackup
