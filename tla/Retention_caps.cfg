\* Three slots, a reserve of one and a kind cap of one: every corner where a bound binds.
SPECIFICATION RetentionSpec
CONSTANTS
  TopKSize = 1
  ReservoirSize = 3
  PerKindCap = 1
  ErrorReserve = 1
  Terminator = 9
  FailureCued = {}
  Rare = {2, 3, 4, 5}
  Shapes <- MCMixed
  BusyCount = 101
INVARIANTS
  ReservoirIsReference
  FailureIsNotCrowdedOut
  EveryFailureIsACandidate
