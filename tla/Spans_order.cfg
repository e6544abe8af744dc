\* Two declared edges and room for one: does the order they resolve in show?
SPECIFICATION Spec
CONSTANTS
  SpanId = {s1, s2}
  NoSpan = NoSpan
  Component = {1, 2}
  NoComponent = NoComponent
  InternalId = {1, 2, 3}
  MCTemplates = {1, 2}
  Records <- MCMixed
  MaxActiveSpans = 0
  MaxSpanEdgeKeys = 1
  SpanEdgesSize = 2
  MaxServiceEdges = 1
  MaxRecords = 4
SYMMETRY MCSymmetry
INVARIANTS
  ResolutionOrderMovesNothing
