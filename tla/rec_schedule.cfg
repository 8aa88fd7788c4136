SPECIFICATION Spec
CONSTANTS
  Units <- MCUnits
  Moves <- MCMoves
  Config <- MCConfig
  BadSchedules = {"bad"}
  ListFaults = {"list"}
  MaxChanges = 3
INVARIANT TypeOK
INVARIANT ScheduleMatches
INVARIANT EntriesRunCurrentSpec
INVARIANT CollisionsUnscheduled
INVARIANT CliReachesSchedule
