\* Trigrams over two traces with one ring held: the key cap and the eviction bind together.
SPECIFICATION Spec
CONSTANTS
  InternalId = {a, b}
  TraceId = {t1, t2}
  NoTrace = NoTrace
  NgramSize = 3
  MaxNgramKeys = 2
  MaxActiveTraces = 1
  TraceScoping = TRUE
  MaxRecords = 9
SYMMETRY MCSymmetry
INVARIANTS
  FifoIsTheRings
  CountsAreNeverPartial
  EveryObservationAccounted
  GramsAreRealRuns
  EvictionCostIsBounded
PROPERTIES
  NoKeyDisplaced
