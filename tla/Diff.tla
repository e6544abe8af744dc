-------------------------------- MODULE Diff --------------------------------
(***************************************************************************)
(* diff(previous, current): what changed between two documents, and        *)
(* whether the comparison is witnessed as changed.  The lists of a diff    *)
(* are sorted by id, so they are sets or functions here.  The divergences  *)
(* stand for whether they are non-zero, a tail's entropy for the           *)
(* distribution it is taken of.  A border of the cube stands for the cells *)
(* of the lines that are on one side alone: it is empty exactly when they  *)
(* are none (BorderIsTheEmergentSet), and the module Cube draws it.        *)
(***************************************************************************)
EXTENDS Compose, OrdinalDrift

-----------------------------------------------------------------------------
(* top_k *)

CountIn(doc, t) == IF t \in DOMAIN doc.top_k THEN doc.top_k[t].count ELSE 0

TemplateDeltas(previous, current) ==
  [t \in DOMAIN previous.top_k \cup DOMAIN current.top_k |->
     [previous |-> CountIn(previous, t), current |-> CountIn(current, t)]]

NewTemplates(deltas) == {t \in DOMAIN deltas : deltas[t].previous = 0 /\ deltas[t].current > 0}

VanishedTemplates(deltas) ==
  {t \in DOMAIN deltas : deltas[t].previous > 0 /\ deltas[t].current = 0}

(* The Jensen-Shannon divergence of the two smoothed distributions over    *)
(* the union of both top_k, zero exactly where they agree; a non-zero      *)
(* Kullback-Leibler divergence implies it.                                 *)
Diverges(deltas, previous, current) ==
  LET keys == Cardinality(DOMAIN deltas)
  IN  \E t \in DOMAIN deltas :
        (deltas[t].current + 1) * (previous.lines + keys)
          # (deltas[t].previous + 1) * (current.lines + keys)

-----------------------------------------------------------------------------
(* Behavior: a block of each document, or none *)

(* Rows where both documents have an entropy, kept only if one of them     *)
(* moved.                                                                  *)
BranchingDelta(previous, current) ==
  LET rows == IF Absent \in {previous, current} THEN << >>
              ELSE [t \in DOMAIN previous[1].branching \cap DOMAIN current[1].branching |->
                      [previous |-> previous[1].branching[t], current |-> current[1].branching[t]]]
  IN  IF \A t \in DOMAIN rows : rows[t].previous = rows[t].current THEN << >> ELSE rows

SameRatio(p, q) == p[1] * q[2] = q[1] * p[2]

(* Two orders are not comparable: the mismatch is recorded instead. *)
NgramDelta(previous, current) ==
  IF Absent \in {previous, current} \/ previous[1].ngram_size # current[1].ngram_size THEN Absent
  ELSE LET prev == previous[1].top_ngrams
           cur == current[1].top_ngrams
           delta == [new |-> DOMAIN cur \ DOMAIN prev,
                     vanished |-> DOMAIN prev \ DOMAIN cur,
                     rate_changed |-> {s \in DOMAIN prev \cap DOMAIN cur :
                                         ~SameRatio(prev[s].probability, cur[s].probability)}]
       IN  IF \A list \in DOMAIN delta : delta[list] = {} THEN Absent ELSE <<delta>>

NgramOrderMismatch(previous, current) ==
  IF Absent \in {previous, current} \/ previous[1].ngram_size = current[1].ngram_size THEN Absent
  ELSE <<[previous |-> previous[1].ngram_size, current |-> current[1].ngram_size]>>

-----------------------------------------------------------------------------
(* Declared topology: defined only when both documents carry the block *)

Emerged(from, to) == Restrict(to, DOMAIN to \ DOMAIN from)

ServiceEdgeDelta(previous, current) ==
  IF Absent \in {previous, current} THEN Absent
  ELSE LET prev == previous[1]
           cur == current[1]
           moved == {e \in DOMAIN prev \cap DOMAIN cur : prev[e] # cur[e]}
           delta == [emerged |-> Emerged(prev, cur), vanished |-> Emerged(cur, prev),
                     weight_changed |-> [e \in moved |-> [previous |-> prev[e], current |-> cur[e]]]]
       IN  IF \A list \in DOMAIN delta : delta[list] = << >> THEN Absent ELSE <<delta>>

(* A move of the count alone is no finding. *)
SpanEdgeDelta(previous, current) ==
  IF Absent \in {previous, current} \/ DOMAIN previous[1] = DOMAIN current[1] THEN Absent
  ELSE <<[new |-> Emerged(previous[1], current[1]), vanished |-> Emerged(current[1], previous[1])]>>

-----------------------------------------------------------------------------
(* Field histograms, tail and salience memory *)

(* A scaled distribution has the entropy it is scaled from. *)
SameEntropy(p, q) ==
  LET Scaled(e, by) == [n \in {c * by : c \in DOMAIN e.counts} |-> e.counts[n \div by]]
  IN  Scaled(p, q.total) = Scaled(q, p.total)

(* The slots, and the ordinal fields, that a template of both top_k has on *)
(* both sides.                                                             *)
RowsOfBoth(previous, current, kind) ==
  LET both == DOMAIN previous.top_k \cap DOMAIN current.top_k
      rows == UNION {{<<t, i>> : i \in DOMAIN previous.top_k[t][kind]
                                       \cap DOMAIN current.top_k[t][kind]} : t \in both}
  IN  [row \in rows |-> [previous |-> previous.top_k[row[1]][kind][row[2]],
                         current |-> current.top_k[row[1]][kind][row[2]]]]

FieldHistogramDeltas(previous, current) == RowsOfBoth(previous, current, "histograms")

OrdinalHistogramDeltas(previous, current) == RowsOfBoth(previous, current, "ordinals")

(* The divergence of two smoothed tables over the union of their values,   *)
(* none when a side has no observation.                                    *)
HistogramDiverges(prev, cur) ==
  LET values == DOMAIN prev.values \cup DOMAIN cur.values
      keys == Cardinality(values)
  IN  /\ 0 \notin {prev.total, cur.total}
      /\ \E v \in values : (Tally(prev.values, v) + 1) * (cur.total + keys)
                             # (Tally(cur.values, v) + 1) * (prev.total + keys)

EntropyOfTable(slot) ==
  EntropyOf(CountsOf([v \in DOMAIN slot.values |-> [count |-> slot.values[v]]],
                     DOMAIN slot.values), slot.total)

FieldHistogramRowMoved(row) ==
  \/ HistogramDiverges(row.previous, row.current)
  \/ ~SameEntropy(EntropyOfTable(row.previous), EntropyOfTable(row.current))
  \/ row.previous.cardinality # row.current.cardinality

(* Findings that the document does not carry. *)
WithheldSignals(d) ==
  IF \E row \in DOMAIN d.field_histogram_deltas :
       FieldHistogramRowMoved(d.field_histogram_deltas[row])
  THEN {"field_histogram_deltas"} ELSE {}

TailDelta(previous, current) ==
  IF Absent \in {previous, current} THEN Absent
  ELSE <<[previous |-> previous[1], current |-> current[1]]>>

TailMoved(delta) ==
  \/ delta.previous.tail_template_count # delta.current.tail_template_count
  \/ ~SameEntropy(delta.previous.entropy, delta.current.entropy)
  \/ ~SameRatio(delta.previous.max_rate, delta.current.max_rate)

LevelIsFailure(level) == level # Absent /\ IsFailureLevel(level[1].value)

Snapshot(doc, ids) ==
  [t \in ids |-> [level |-> doc.reservoir[t].level, role |-> doc.reservoir[t].role,
                  salience |-> doc.reservoir[t].salience, count |-> doc.reservoir[t].count,
                  frequency |-> <<doc.reservoir[t].count, doc.lines>>,
                  axis |-> doc.reservoir[t].axis]]

(* What the reservoir of current holds and previous did not retain at all. *)
NewSalient(previous, current) ==
  Snapshot(current, DOMAIN current.reservoir \ Retained(previous))

FrontierSide(doc, t) ==
  [level |-> Row(doc, t).level, count |-> Row(doc, t).count,
   frequency |-> <<Row(doc, t).count, doc.lines>>]

(* Fault: only what the current reservoir holds is looked at. *)
CrossingsIntoReservoir(previous, current) ==
  [t \in {t \in DOMAIN current.reservoir \cap Retained(previous) :
            LevelIsFailure(Row(previous, t).level) # LevelIsFailure(Row(current, t).level)} |->
     [direction |-> IF LevelIsFailure(Row(current, t).level) THEN "Up" ELSE "Down",
      previous |-> FrontierSide(previous, t), current |-> FrontierSide(current, t)]]

(* A template both documents retain whose level crossed the failure        *)
(* frontier; Up is into failure.                                           *)
FrontierCrossings(previous, current) ==
  [t \in {t \in Retained(previous) \cap Retained(current) :
            LevelIsFailure(Row(previous, t).level) # LevelIsFailure(Row(current, t).level)} |->
     [direction |-> IF LevelIsFailure(Row(current, t).level) THEN "Up" ELSE "Down",
      previous |-> FrontierSide(previous, t), current |-> FrontierSide(current, t)]]

ReservoirDelta(previous, current) ==
  [new_salient |-> NewSalient(previous, current),
   vanished_salient |-> NewSalient(current, previous),
   frontier_crossings |-> FrontierCrossings(previous, current)]

-----------------------------------------------------------------------------
(* The cubes *)

(* signed_shift_id: an up band is its magnitude, a down band that plus the *)
(* number of bands.                                                        *)
SignedShift(drift) ==
  [Low |-> 1, Med |-> 2, High |-> 3][drift.shift] + (IF drift.direction = "Down" THEN 3 ELSE 0)

CellsAt(cube, state) == {Cubes!CollapseCell(c, state) : c \in cube.rows}

(* The components that shifted are marked, on the current side alone. *)
Marked(cells, shifts) ==
  {IF c[Cubes!Where] \in DOMAIN shifts
     THEN [c EXCEPT ![Cubes!LatencyShift] = SignedShift(shifts[c[Cubes!Where]])] ELSE c : c \in cells}

(* The cells of the lines that others has none of. *)
OnlyIn(cells, others) == {c \in cells : \A o \in others : ~Cubes!IsAncestor(c, o)}

(* Both cubes are read at the coarser of their states. *)
CubeDiff(previous, current, shifts) ==
  LET state == Cubes!MinCommonCollapse(previous.state, current.state)
      prev == CellsAt(previous, state)
      cur == Marked(CellsAt(current, state), shifts)
  IN  [state |-> state, shifts |-> shifts,
       emerging |-> OnlyIn(cur, prev), vanishing |-> OnlyIn(prev, cur)]

-----------------------------------------------------------------------------

Difference(previous, current) ==
  LET deltas == TemplateDeltas(previous, current)
  IN  [kind |-> "diff",
       max_text_bytes |-> previous.max_text_bytes,
       previous_window |-> previous.envelope,
       current_window |-> current.envelope,
       diverges |-> IF 0 \in {previous.lines, current.lines} THEN Absent
                    ELSE <<Diverges(deltas, previous, current)>>,
       template_deltas |-> deltas,
       new_templates |-> NewTemplates(deltas),
       vanished_templates |-> VanishedTemplates(deltas),
       branching_delta |-> BranchingDelta(previous.behavior, current.behavior),
       ngram_delta |-> NgramDelta(previous.behavior, current.behavior),
       ngram_order_mismatch |-> NgramOrderMismatch(previous.behavior, current.behavior),
       field_histogram_deltas |-> FieldHistogramDeltas(previous, current),
       ordinal_histogram_deltas |-> OrdinalHistogramDeltas(previous, current),
       tail_delta |-> TailDelta(previous.tail_summary, current.tail_summary),
       reservoir_delta |-> ReservoirDelta(previous, current),
       service_edge_delta |-> ServiceEdgeDelta(previous.service_edges, current.service_edges),
       span_edge_delta |-> SpanEdgeDelta(previous.span_edges, current.span_edges),
       cube_diff |-> IF BothCarryCubes(previous, current)
                     THEN <<CubeDiff(previous.cube[1], current.cube[1],
                                     ComponentLatencyShifts(previous, current))>>
                     ELSE Absent]

diff(previous, current) ==
  IF Comparable(previous, current) THEN Difference(previous, current) ELSE Refusal

(* The border is the finding, its axes are not. *)
CubeMoved(delta) == delta.emerging # {} \/ delta.vanishing # {}

(* Fault: a border does not witness. *)
OutcomeWithoutBorder(d) ==
  IF \/ d.diverges = <<TRUE>>
     \/ \E t \in DOMAIN d.template_deltas :
          d.template_deltas[t].previous # d.template_deltas[t].current
     \/ d.new_templates # {} \/ d.vanished_templates # {}
     \/ d.branching_delta # << >>
     \/ d.ngram_delta # Absent
     \/ d.tail_delta # Absent /\ TailMoved(d.tail_delta[1])
     \/ \E list \in DOMAIN d.reservoir_delta : d.reservoir_delta[list] # << >>
     \/ WithheldSignals(d) # {}
  THEN "changed" ELSE "unchanged"

(* Declared topology and an order mismatch do not decide.                  *)
ComparisonOutcome(d) ==
  IF \/ d.diverges = <<TRUE>>
     \/ \E t \in DOMAIN d.template_deltas :
          d.template_deltas[t].previous # d.template_deltas[t].current
     \/ d.new_templates # {} \/ d.vanished_templates # {}
     \/ d.branching_delta # << >>
     \/ d.ngram_delta # Absent
     \/ d.tail_delta # Absent /\ TailMoved(d.tail_delta[1])
     \/ d.cube_diff # Absent /\ CubeMoved(d.cube_diff[1])
     \/ \E list \in DOMAIN d.reservoir_delta : d.reservoir_delta[list] # << >>
     \/ WithheldSignals(d) # {}
  THEN "changed" ELSE "unchanged"

=============================================================================
