\* Four events over up to two windows of unlike producers, merged and compared.
SPECIFICATION FieldSpec
CONSTANTS
  WellFormed <- MCWellFormed
  RegisterUpdate <- MCRegisterUpdate
  Registers = {0, 1, 2}
  SparseMaxEntries = 1
  Bins <- MCBins
  DefaultHistogramValues = 2
  ShiftSampleFloor = 2
  DurationSchedule = "duration"
  Events <- MCEvents
  Caps <- MCCaps
  Component <- MCComponent
  MaxEvents = 4
  MaxWindows = 2
INVARIANTS
  TablesAreHonest
  SketchDenotesMaxima
  DriftIsTransport
CHECK_DEADLOCK FALSE
