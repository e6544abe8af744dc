---------------------------- MODULE MCAdjacency ----------------------------
(* AdjacencyHistory on small instances: two templates, two traces and the  *)
(* global stream.  The templates are interchangeable, and so are the   *)
(* traces: no rule of the adjacency graph orders them.                     *)
EXTENDS AdjacencyHistory

MCSymmetry == Permutations(InternalId) \cup Permutations(TraceId)

=============================================================================
