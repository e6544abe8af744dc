\* Six windows of every kind, three of them closed and rolled up in every bracketing.
SPECIFICATION Spec
CONSTANTS
  TopKSize = 2
  ReservoirSize = 1
  PerKindCap = 0
  ErrorReserve = 0
  Terminator = 9
  FailureCued = {}
  DefaultHistogramValues = 2
  ShiftSampleFloor = 2
  DurationSchedule = "duration"
  SpellingRank <- MCSpelling
  RoleRank <- MCRoleRank
  Budgeted <- MCBudgeted
  Windows <- MCWindows
  Placements = {"next", "same", "unstamped"}
  MaxDocuments = 3
INVARIANTS
  EveryLineIsAccounted
  ChurnBoundsTheTruth
  ComposeCommutes
  DiffReverses
  UnchangedMeansSame
CHECK_DEADLOCK FALSE
