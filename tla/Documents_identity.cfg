\* A failure known by its text alone, composed with an event-free document.
SPECIFICATION Spec
CONSTANTS
  TopKSize = 2
  ReservoirSize = 1
  PerKindCap = 0
  ErrorReserve = 0
  Terminator = 9
  FailureCued = {2}
  DefaultHistogramValues = 2
  ShiftSampleFloor = 2
  DurationSchedule = "duration"
  SpellingRank <- MCSpelling
  RoleRank <- MCRoleRank
  Budgeted <- MCBudgeted
  Windows <- MCCuedWindows
  Placements = {"next", "same"}
  MaxDocuments = 1
INVARIANT ZeroIsIdentity
CHECK_DEADLOCK FALSE
