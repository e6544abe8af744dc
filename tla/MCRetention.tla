---------------------------- MODULE MCRetention ----------------------------
(* RetentionCases on small instances.  Levels: 2 is Info, 3 Warn, 4 Error, *)
(* 5 Fatal, 6 Unknown.  Role 9 is the Terminator.                          *)
EXTENDS RetentionCases

MCShape(count, level, role, band, early) ==
  [count |-> count, level |-> level, role |-> role, surprise |-> band, early |-> early]

(* Benign, some of it salient or late, and failures by level or by role.   *)
MCMixed ==
  {MCShape(1, 2, 0, 0, TRUE), MCShape(1, 2, 0, 90, TRUE), MCShape(2, 2, 1, 0, FALSE),
   MCShape(1, 3, 0, 90, TRUE), MCShape(1, 4, 0, 0, TRUE), MCShape(13, 4, 0, 0, TRUE),
   MCShape(2, 6, 9, 0, TRUE), MCShape(3, 5, 0, 0, FALSE), MCShape(11, 3, 1, 25, FALSE)}

=============================================================================
