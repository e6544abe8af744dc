------------------------------- MODULE MCCube -------------------------------
(* Small windows over four levels, two components or none, and two roles; a *)
(* budget of nine cells, which any cube without components meets, as it      *)
(* meets the 4096 of the code.                                              *)
EXTENDS CubeLadder

Cell(level, where, role) == <<level, where, role, Star>>

(* Levels: 0 is Trace, 1 Debug, 2 Info, 4 Error.  Roles: 0 none, 9 another. *)
MCRows == {Cell(0, 1, 0), Cell(1, 1, 0), Cell(1, Star, 0), Cell(2, 2, 0), Cell(4, 1, 0),
           Cell(4, 2, 9)}

(* Enough to band the levels up to the failures. *)
MCStacked == {0, 1, 2, 3, 4} \X {1, 2} \X {0} \X {Star} \cup {Cell(4, 3, 0)}

MCWindows ==
  {SetToBag(rows) : rows \in {s \in SUBSET MCRows : Cardinality(s) \in {1, 2, 5}}
                               \cup {MCStacked}}

(* Up strong and down weak. *)
MCShifts == {<< >>, 1 :> 3, 1 :> 4 @@ 2 :> 1}

=============================================================================
