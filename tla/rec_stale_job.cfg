SPECIFICATION Spec
CONSTANTS
  Units <- SwarmUnits
  Moves <- SwarmMoves
  Config <- OneTarget
  BadSchedules = {"bad"}
  ListFaults = {}
  MaxChanges = 2
INVARIANT EntriesRunCurrentJob
