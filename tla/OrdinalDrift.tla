---------------------------- MODULE OrdinalDrift ----------------------------
(***************************************************************************)
(* How far, and which way, the distribution of an ordinal field moved      *)
(* between two documents: the Wasserstein distance of the two histograms,  *)
(* in octaves, reduced to a band and a direction by exact integers; and    *)
(* the components whose durations moved.                                   *)
(***************************************************************************)
EXTENDS Integers, FiniteSets, FiniteSetsExt, Functions

CONSTANTS
  ShiftSampleFloor,  \* kShiftSampleFloor
  DurationSchedule   \* the id of the schedule of durations

NoDrift == [shift |-> "None", direction |-> "None"]

Magnitude(n) == IF n < 0 THEN -n ELSE n

Cumulative(counts, bin) == SumFunctionOnSet(counts, {b \in DOMAIN counts : b <= bin})

(* Fault: the counts are compared as they are, whatever the two totals. *)
TermOfCounts(previous, current, previous_total, current_total, bin) ==
  (Cumulative(current, bin) - Cumulative(previous, bin)) * previous_total

(* The difference of the two cumulative shares, over the product of totals. *)
SignedTerm(previous, current, previous_total, current_total, bin) ==
  Cumulative(current, bin) * previous_total - Cumulative(previous, bin) * current_total

(* Mass that moved up arrives later in the cumulative counts. *)
OrdinalW1(previous, current, previous_total, current_total) ==
  LET term == [bin \in DOMAIN previous \cap DOMAIN current |->
                 SignedTerm(previous, current, previous_total, current_total, bin)]
      numerator == SumFunction([bin \in DOMAIN term |-> Magnitude(term[bin])])
      signed == SumFunction(term)
      Reaches(num, den) == numerator * den >= num * previous_total * current_total
  IN  IF 0 \in {previous_total, current_total} THEN NoDrift
      ELSE [shift |-> IF Reaches(5, 1) THEN "High"
                      ELSE IF Reaches(2, 1) THEN "Med"
                      ELSE IF Reaches(1, 2) THEN "Low" ELSE "None",
            direction |-> IF signed < 0 THEN "Up" ELSE IF signed > 0 THEN "Down" ELSE "None"]

-----------------------------------------------------------------------------
(* A component of a row is << >> or <<label>>; ordinals a function on fields *)

DurationRows(doc, component) ==
  UNION {{<<t, field>> : field \in {f \in DOMAIN doc.top_k[t].ordinals :
                                      doc.top_k[t].ordinals[f].schedule = DurationSchedule}} :
           t \in {u \in DOMAIN doc.top_k : doc.top_k[u].component = <<component>>}}

(* All the durations of a component, whatever template and field they are of. *)
AggregateDuration(doc, component) ==
  LET Of(row) == doc.top_k[row[1]].ordinals[row[2]]
      rows == DurationRows(doc, component)
  IN  [counts |-> [bin \in UNION {DOMAIN Of(row).counts : row \in rows} |->
                     SumFunction([row \in {r \in rows : bin \in DOMAIN Of(r).counts} |->
                                    Of(row).counts[bin]])],
       total |-> SumFunction([row \in rows |-> Of(row).total])]

Components(doc) == UNION {Range(doc.top_k[t].component) : t \in DOMAIN doc.top_k}

(* Below the floor a component is not read at all. *)
ComponentLatencyShifts(previous, current) ==
  LET both == {c \in Components(previous) \cap Components(current) :
                 {} \notin {DurationRows(previous, c), DurationRows(current, c)}}
      drift == [c \in both |->
                  LET prev == AggregateDuration(previous, c)
                      cur == AggregateDuration(current, c)
                  IN  IF Min({prev.total, cur.total}) < ShiftSampleFloor THEN NoDrift
                      ELSE OrdinalW1(prev.counts, cur.counts, prev.total, cur.total)]
  IN  Restrict(drift, {c \in both : drift[c].shift # "None" /\ drift[c].direction # "None"})

=============================================================================
