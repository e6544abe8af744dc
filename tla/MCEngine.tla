------------------------------ MODULE MCEngine ------------------------------
(* EngineHistory on small instances.  Levels: 2 is Info, 4 Error, 6        *)
(* Unknown.  Roles: 0 is None, 1 another role, 2 the Terminator.           *)
EXTENDS EngineHistory

CONSTANTS s1, s2, s3, t1, p1, p2

MCTemplateStr == {s1, s2, s3}
MCIdOf == [s \in MCTemplateStr |-> CASE s = s1 -> 1 [] s = s2 -> 2 [] s = s3 -> 1]
MCDistinctIds == [s \in MCTemplateStr |-> CASE s = s1 -> 1 [] s = s2 -> 2 [] s = s3 -> 3]

Line(str, level, component) ==
  [str |-> str, level |-> level, declared |-> FALSE, role |-> 0, echoed |-> FALSE,
   component |-> component, trace |-> NoTrace, span |-> NoSpan, parent |-> NoSpan,
   links |-> << >>]

Traced(str) == [Line(str, 2, NoComponent) EXCEPT !.trace = t1]

Span(str, component, span, parent) ==
  [Line(str, 2, component) EXCEPT !.trace = t1, !.span = span, !.parent = parent]

(* s3 has the id of s1, and logs an error. *)
MCLedgerEvents == {Line(s1, 2, 1), Line(s2, 2, NoComponent), Line(s3, 4, 1)}

MCDocumentEvents ==
  {Line(s1, 2, 1), [Line(s2, 4, 2) EXCEPT !.declared = TRUE], Traced(s1), Traced(s2),
   [Line(s3, 2, 2) EXCEPT !.role = 2],
   Span(s1, 1, p1, NoSpan), Span(s2, 2, p2, p1)}

=============================================================================
