\* Three span ids, two held at once, two edge keys and one edge shown: late parents, duplicates, links,
\* evictions, refused edges and spans that come back.
SPECIFICATION Spec
CONSTANTS
  SpanId = {s1, s2, s3}
  NoSpan = NoSpan
  Component = {1, 2}
  NoComponent = NoComponent
  InternalId = {1, 2, 3}
  MCTemplates = {1, 2, 3}
  Records <- MCMixed
  MaxActiveSpans = 2
  MaxSpanEdgeKeys = 2
  SpanEdgesSize = 1
  MaxServiceEdges = 1
  MaxRecords = 4
SYMMETRY MCSymmetry
INVARIANTS
  TypeOK
  FifoIsTheSpans
  EveryReferenceAccounted
  SpanEdgesAreDeclared
  ServiceEdgesAreDeclared
  TruncationIsHonest
