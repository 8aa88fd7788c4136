SPECIFICATION LiveSpec
CONSTANTS
  Units <- LiveUnits
  Moves <- LiveMoves
  Config <- OneTarget
  BadSchedules = {"bad"}
  ListFaults = {"list", "inspect", "tasks"}
  MaxChanges = 2
PROPERTY Converges
PROPERTY SeenDrains
