\* Windows of up to four lines, traced, declared as spans or neither: what a document says.
SPECIFICATION Spec
CONSTANTS
  s1 = s1
  s2 = s2
  s3 = s3
  t1 = t1
  p1 = p1
  p2 = p2
  NoTrace = NoTrace
  NoSpan = NoSpan
  NoComponent = NoComponent
  TemplateStr <- MCTemplateStr
  TemplateId = {1, 2, 3}
  IdOf <- MCDistinctIds
  TraceId = {t1}
  SpanId = {p1, p2}
  Component = {1, 2}
  Role = {0, 1, 2}
  Terminator = 2
  NgramSize = 2
  TraceScoping = TRUE
  MaxActiveTraces = 1
  MaxActiveSpans = 0
  MaxSpanEdgeKeys = 9
  SpanEdgesSize = 9
  MaxServiceEdges = 9
  FailureCued = {}
  PerKindCap = 1
  ErrorReserve = 1
  DominantPathMaxSteps = 2
  MaxNgramKeys = 2
  TopKSize = 1
  ReservoirSize = 1
  TopNgramsSize = 2
  Time = {1}
  EmitStability = FALSE
  Events <- MCDocumentEvents
  MaxLines = 4
INVARIANTS
  JointAndMarginalsAgree
  DocumentIsOfItsWindow
  DropsAreDeclared
