\* Windows opened, closed, discarded and misused in every order: what the engine carries over.
SPECIFICATION Spec
CONSTANTS
  s1 = s1
  s2 = s2
  s3 = s3
  t1 = t1
  p1 = p1
  p2 = p2
  NoTrace = NoTrace
  NoSpan = NoSpan
  NoComponent = NoComponent
  TemplateStr <- MCTemplateStr
  TemplateId = {1, 2}
  IdOf <- MCIdOf
  TraceId = {t1}
  SpanId = {p1, p2}
  Component = {1, 2}
  Role = {0, 1, 2}
  Terminator = 2
  NgramSize = 2
  TraceScoping = TRUE
  MaxActiveTraces = 1
  MaxActiveSpans = 0
  MaxSpanEdgeKeys = 9
  SpanEdgesSize = 9
  MaxServiceEdges = 9
  FailureCued = {}
  PerKindCap = 1
  ErrorReserve = 1
  DominantPathMaxSteps = 2
  MaxNgramKeys = 9
  TopKSize = 1
  ReservoirSize = 1
  TopNgramsSize = 2
  Time = {1, 2}
  EmitStability = TRUE
  Events <- MCLedgerEvents
  MaxLines = 3
INVARIANTS
  TypeOK
PROPERTIES
  ImplementsLedger
