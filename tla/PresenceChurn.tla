--------------------------- MODULE PresenceChurn ---------------------------
(***************************************************************************)
(* How often a template came and went over a range of windows, as one      *)
(* element per template that documents fold at every level of a ladder.    *)
(* An element counts the readable boundaries where presence changed, and   *)
(* those that retention made unreadable.                                   *)
(***************************************************************************)
EXTENDS Naturals

PresenceSymbol == {"EmptyRange", "Unretained", "Absent", "Present"}

Churn == [span : Nat, transitions : Nat, indeterminate : Nat,
          first : PresenceSymbol, last : PresenceSymbol]

EmptyChurn ==
  [span |-> 0, transitions |-> 0, indeterminate |-> 0, first |-> "EmptyRange", last |-> "EmptyRange"]

RetainedWindow ==
  [span |-> 1, transitions |-> 0, indeterminate |-> 0, first |-> "Present", last |-> "Present"]

(* A template that a range of windows did not retain. *)
UnretainedRange(span, exhaustive) ==
  IF span = 0 THEN EmptyChurn
  ELSE LET symbol == IF exhaustive THEN "Absent" ELSE "Unretained" IN
       [span |-> span, transitions |-> 0, indeterminate |-> IF exhaustive THEN 0 ELSE span - 1,
        first |-> symbol, last |-> symbol]

(* The boundary between two non-empty ranges. *)
Readable(earlier, later) == earlier.last # "Unretained" /\ later.first # "Unretained"

Changed(earlier, later) == Readable(earlier, later) /\ earlier.last # later.first

ChurnProduct(earlier, later) ==
  IF earlier.span = 0 THEN later
  ELSE IF later.span = 0 THEN earlier
  ELSE [span |-> earlier.span + later.span,
        transitions |-> earlier.transitions + later.transitions
                          + (IF Changed(earlier, later) THEN 1 ELSE 0),
        indeterminate |-> earlier.indeterminate + later.indeterminate
                            + (IF Readable(earlier, later) THEN 0 ELSE 1),
        first |-> earlier.first,
        last |-> later.last]

JoinSymbol(a, b) ==
  IF a = "Present" \/ b = "Present" THEN "Present"
  ELSE IF a = "EmptyRange" THEN b
  ELSE IF b = "EmptyRange" THEN a
  ELSE IF a = "Absent" /\ b = "Absent" THEN "Absent"
  ELSE "Unretained"

(* One interval seen from two sources: no boundary lies between them. *)
ChurnJoin(a, b) ==
  [span |-> IF a.span < b.span THEN b.span ELSE a.span,
   transitions |-> a.transitions + b.transitions,
   indeterminate |-> a.indeterminate + b.indeterminate,
   first |-> JoinSymbol(a.first, b.first),
   last |-> JoinSymbol(a.last, b.last)]

=============================================================================
