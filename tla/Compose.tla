------------------------------ MODULE Compose ------------------------------
(***************************************************************************)
(* compose(lhs, rhs): two documents merged into one coarser document.      *)
(*                                                                         *)
(* An optional member is << >> or <<value>>.  top_k and reservoir are      *)
(* functions from template ids to their rows; a row's order in its array   *)
(* follows from its count or salience and its id.  Labels are numbers      *)
(* ordered as their bytes are, instants numbers, identifiers any values.   *)
(* A ratio is a pair <<numerator, denominator>>, an entropy the            *)
(* distribution it is taken of.  A cube is determined by its lines and its *)
(* collapse (HeldIsAlwaysOfItsLines): it is the cells they fell on, as     *)
(* they were before any collapse, and the state that its axes declare.     *)
(* Its counts, and the search for that state, are of the module Cube.      *)
(***************************************************************************)
EXTENDS Retention, PresenceChurn, FieldHistograms

CONSTANTS
  SpellingRank,  \* the order of the level spellings, a function on the ordinals
  RoleRank,      \* the order of the role spellings, canon's; NoRole has none
  Budgeted(_, _) \* the state that a cube of these cells is collapsed to from
                 \* an initial one: CollapsedTo of Cube

(* No two levels, and no two roles, are spelled alike. *)
ASSUME SpellingAssumption ==
  /\ SpellingRank \in [0..Unknown -> Nat]
  /\ \A l, m \in 0..Unknown : SpellingRank[l] = SpellingRank[m] => l = m
  /\ DOMAIN RoleRank \subseteq Nat /\ RoleRank \in [DOMAIN RoleRank -> Nat]
  /\ \A r, q \in DOMAIN RoleRank : RoleRank[r] = RoleRank[q] => r = q
  /\ DefaultHistogramValues \in Nat

Cubes == INSTANCE Cube WITH CellBudget <- 4096  \* kCubeCellBudget

Refusal == [kind |-> "invalid_argument"]

-----------------------------------------------------------------------------
(* The comparability gate *)

Identifiers == {"canonicalization_version", "retention_profile", "semantic_identity"}

(* An identifier that one side omits is no disagreement; a text cap is.    *)
Comparable(lhs, rhs) ==
  /\ lhs.max_text_bytes = rhs.max_text_bytes
  /\ \A field \in Identifiers :
       Absent \in {lhs.contract[field], rhs.contract[field]}
       \/ lhs.contract[field] = rhs.contract[field]

CarriedContract(lhs, rhs) ==
  [field \in Identifiers |->
     IF lhs.contract[field] = rhs.contract[field] THEN lhs.contract[field] ELSE Absent]

(* Under one semantic identity, the smaller list of packages. *)
MergeRuleset(lhs, rhs) ==
  IF Absent \in {lhs.packages, rhs.packages} THEN Absent
  ELSE <<Min({lhs.packages[1], rhs.packages[1]})>>

-----------------------------------------------------------------------------
(* Members resolved over both inputs *)

(* fields holds the fleet, service, host and tags that are set. *)
CommonSource(lhs, rhs) ==
  IF lhs = rhs THEN lhs
  ELSE [fields |-> Restrict(lhs.fields, {f \in DOMAIN lhs.fields \cap DOMAIN rhs.fields :
                                           lhs.fields[f] = rhs.fields[f]}),
        host_count |-> IF Absent \in {lhs.host_count, rhs.host_count} THEN Absent
                       ELSE <<lhs.host_count[1] + rhs.host_count[1]>>]

(* The envelope of the merged window; the stamped side's own next to an    *)
(* unstamped one.                                                          *)
ComposedEnvelope(lhs, rhs) ==
  IF lhs = Absent THEN rhs
  ELSE IF rhs = Absent THEN lhs
  ELSE <<[start |-> Min({lhs[1].start, rhs[1].start}), end |-> Max({lhs[1].end, rhs[1].end})]>>

(* lhs ends before rhs starts.  Argument order never supplies an order. *)
Precedes(lhs, rhs) ==
  /\ Absent \notin {lhs, rhs}
  /\ lhs[1].end <= rhs[1].start
  /\ lhs[1].start < rhs[1].start

(* What a document says of one template; top_k and reservoir are disjoint. *)
NotCarried == [count |-> 0, level |-> Absent, component |-> NoLabel, role |-> NoRole,
               where |-> NoLabel]

Retained(doc) == DOMAIN doc.top_k \cup DOMAIN doc.reservoir

InputTemplate(doc, t) ==
  IF t \in DOMAIN doc.top_k
    THEN [NotCarried EXCEPT !.count = doc.top_k[t].count, !.level = doc.top_k[t].level,
                            !.component = doc.top_k[t].component]
  ELSE IF t \in DOMAIN doc.reservoir
    THEN [field \in DOMAIN NotCarried |-> doc.reservoir[t][field]]
  ELSE NotCarried

(* Fault: at equal counts the left operand's label wins. *)
ResolveLabelByPosition(lhs, lhs_count, rhs, rhs_count, rank) ==
  IF lhs = Absent THEN rhs
  ELSE IF rhs = Absent \/ lhs_count >= rhs_count THEN lhs ELSE rhs

(* The label of the higher count, the smaller under rank at equal counts. *)
ResolveLabel(lhs, lhs_count, rhs, rhs_count, rank) ==
  IF lhs = Absent THEN rhs
  ELSE IF rhs = Absent THEN lhs
  ELSE IF lhs_count # rhs_count THEN (IF lhs_count > rhs_count THEN lhs ELSE rhs)
  ELSE IF rank[rhs[1]] < rank[lhs[1]] THEN rhs ELSE lhs

EventLevel == [value : 0..Unknown, declared : BOOLEAN]

(* By spelling, a declared level before an inferred one. *)
LevelRank ==
  [level \in EventLevel |-> 2 * SpellingRank[level.value] + (IF level.declared THEN 0 ELSE 1)]

Itself(label) == [x \in Range(label) |-> x]

(* A level the wire omits never outranks one it writes. *)
ResolveLevel(lhs, rhs) ==
  LET Carried(view) ==
        IF view.level # Absent /\ view.level[1].value # Unknown THEN view.level ELSE Absent
      chosen == ResolveLabel(Carried(lhs), lhs.count, Carried(rhs), rhs.count, LevelRank)
  IN  IF chosen # Absent THEN chosen
      ELSE IF {lhs.level, rhs.level} = {Absent} THEN Absent
      ELSE <<[value |-> Unknown, declared |-> FALSE]>>

ResolveRole(lhs, rhs) ==
  LET Carried(view) == IF view.role = NoRole THEN Absent ELSE <<view.role>>
      chosen == ResolveLabel(Carried(lhs), lhs.count, Carried(rhs), rhs.count, RoleRank)
  IN  IF chosen = Absent THEN NoRole ELSE chosen[1]

MergedTemplate(lhs, rhs) ==
  LET Own(l, r) == ResolveLabel(l, lhs.count, r, rhs.count, Itself(l \o r))
  IN  [count |-> lhs.count + rhs.count,
       level |-> ResolveLevel(lhs, rhs),
       component |-> Own(lhs.component, rhs.component),
       role |-> ResolveRole(lhs, rhs),
       where |-> Own(lhs.where, rhs.where)]

(* Every template that either input retained. *)
MergedTemplates(lhs, rhs) ==
  [t \in Retained(lhs) \cup Retained(rhs) |->
     MergedTemplate(InputTemplate(lhs, t), InputTemplate(rhs, t))]

-----------------------------------------------------------------------------
(* The retained set of the composed document *)

ComposedTopK(merged, size) == Best(DOMAIN merged, [t \in DOMAIN merged |-> merged[t].count], size)

(* The salience derived anew over the merged counts.  A composed row has   *)
(* no template text, so nothing is cued.                                   *)
Rederived(template, lines, surprise, novelty) ==
  LET level == IF template.level = Absent THEN Unknown ELSE template.level[1].value
      verdict == SalienceScore(level, template.role, FALSE, template.count, lines, surprise,
                               novelty)
  IN  [count |-> template.count, level |-> template.level, component |-> template.component,
       role |-> template.role, where |-> template.where, surprise |-> surprise,
       novelty |-> novelty, salience |-> verdict.score, axis |-> verdict.axis,
       churn |-> EmptyChurn]

(* With the highest surprise and novelty that either reservoir saw. *)
ReservoirCandidate(lhs, rhs, merged, lines, t) ==
  LET rows == {doc.reservoir[t] : doc \in {d \in {lhs, rhs} : t \in DOMAIN d.reservoir}}
  IN  Rederived(merged[t], lines, Max({row.surprise : row \in rows}),
                Max({row.novelty : row \in rows}))

(* The most salient rows, bounded by the cap the composed document         *)
(* declares, if it declares one.                                           *)
MostSalient(row, cap) ==
  LET candidates == {t \in DOMAIN row : row[t].salience > 0}
      bound == IF cap = Absent THEN Cardinality(candidates) ELSE cap[1]
  IN  Restrict(row, Best(candidates, [t \in candidates |-> row[t].salience], bound))

(* What was salient below either input's top_k and did not rise into the   *)
(* composed one.                                                           *)
ComposedReservoir(lhs, rhs, merged, top, cap, lines) ==
  MostSalient([t \in (DOMAIN lhs.reservoir \cup DOMAIN rhs.reservoir) \ top |->
                 ReservoirCandidate(lhs, rhs, merged, lines, t)], cap)

(* Fault: the tail the inputs already had is lost. *)
ResidualOfNothing(lhs, rhs) == 0

(* The mass that neither input attributes to a template. *)
Residual(lhs, rhs) == lhs.tail_count + rhs.tail_count

(* The residual enters an entropy as one bucket. *)
WithResidual(counts, lhs, rhs) ==
  IF Residual(lhs, rhs) = 0 THEN counts ELSE BagAdd(counts, Residual(lhs, rhs))

ComposedTail(lhs, rhs, merged, reserved, lines) ==
  LET tail == DOMAIN merged \ reserved
      counts == CountsOf(merged, tail)
      total == CountOf(merged, tail) + Residual(lhs, rhs)
      named == TailSummary(counts, total, lines)
  IN  [tail_count |-> total,
       tail_unique |-> Cardinality(tail),
       tail_summary |-> IF named = Absent THEN Absent
                        ELSE <<[named[1] EXCEPT
                                  !.entropy = EntropyOf(WithResidual(counts, lhs, rhs), total)]>>]

-----------------------------------------------------------------------------
(* Presence churn *)

RetentionIsExhaustive(doc) == doc.tail_count = 0 /\ doc.tail_unique = 0

ChurnSpan(doc) == IF doc.presence_churn = Absent THEN 0 ELSE doc.presence_churn[1].span_windows

Row(doc, t) == IF t \in DOMAIN doc.top_k THEN doc.top_k[t] ELSE doc.reservoir[t]

ElementOf(doc, t) ==
  IF t \in Retained(doc) THEN Row(doc, t).churn
  ELSE UnretainedRange(ChurnSpan(doc), RetentionIsExhaustive(doc))

(* Fault: the product is applied in argument order. *)
FoldInArgumentOrder(lhs, rhs, t) ==
  IF Precedes(lhs.envelope, rhs.envelope) \/ Precedes(rhs.envelope, lhs.envelope)
    THEN ChurnProduct(ElementOf(lhs, t), ElementOf(rhs, t))
  ELSE ChurnJoin(ElementOf(lhs, t), ElementOf(rhs, t))

(* The product in the order of the windows when the envelopes are disjoint, *)
(* the join of two sources of one interval when they are not.               *)
FoldedElement(lhs, rhs, t) ==
  IF Precedes(lhs.envelope, rhs.envelope) THEN ChurnProduct(ElementOf(lhs, t), ElementOf(rhs, t))
  ELSE IF Precedes(rhs.envelope, lhs.envelope)
    THEN ChurnProduct(ElementOf(rhs, t), ElementOf(lhs, t))
  ELSE ChurnJoin(ElementOf(lhs, t), ElementOf(rhs, t))

(* Two inputs without churn leave the rows at the identity. *)
FoldedChurn(lhs, rhs, t) ==
  IF ChurnSpan(lhs) = 0 /\ ChurnSpan(rhs) = 0 THEN EmptyChurn ELSE FoldedElement(lhs, rhs, t)

ChurnSummary(lhs, rhs, ids) ==
  LET element == [t \in ids |-> FoldedChurn(lhs, rhs, t)]
      ordered == Precedes(lhs.envelope, rhs.envelope) \/ Precedes(rhs.envelope, lhs.envelope)
  IN  IF ChurnSpan(lhs) = 0 /\ ChurnSpan(rhs) = 0 THEN Absent
      ELSE <<[span_windows |-> IF ordered THEN ChurnSpan(lhs) + ChurnSpan(rhs)
                               ELSE Max({ChurnSpan(lhs), ChurnSpan(rhs)}),
              templates_with_churn |-> Cardinality({t \in ids : element[t].transitions > 0}),
              total_transitions |-> SumFunction([t \in ids |-> element[t].transitions]),
              total_indeterminate |-> SumFunction([t \in ids |-> element[t].indeterminate])]>>

-----------------------------------------------------------------------------
(* Behavior *)

(* <<n, d>> as a mean of two ratios, weighted by counts. *)
WeightedMean(p, m, q, n) == <<p[1] * m * q[2] + q[1] * n * p[2], p[2] * q[2] * (m + n)>>

MergedNgram(lhs, rhs, sequence) ==
  IF sequence \notin DOMAIN rhs THEN lhs[sequence]
  ELSE IF sequence \notin DOMAIN lhs THEN rhs[sequence]
  ELSE [count |-> lhs[sequence].count + rhs[sequence].count,
        probability |-> WeightedMean(lhs[sequence].probability, lhs[sequence].count,
                                     rhs[sequence].probability, rhs[sequence].count)]

(* Count descending, then the sequence. *)
CutNgrams(ngrams, size) ==
  LET Smaller(s, u) == \E i \in DOMAIN s : s[i] < u[i] /\ \A j \in 1..(i - 1) : s[j] = u[j]
  IN  Restrict(ngrams, {s \in DOMAIN ngrams :
        Cardinality({u \in DOMAIN ngrams :
          ngrams[u].count > ngrams[s].count
          \/ (ngrams[u].count = ngrams[s].count /\ Smaller(u, s))}) < size})

(* Branching, path and edge count are dropped; two orders share no key. *)
MergeBehavior(lhs, rhs) ==
  LET blocks == lhs \o rhs
      ngrams(block) == IF block = Absent THEN << >> ELSE block[1].top_ngrams
      ids == DOMAIN ngrams(lhs) \cup DOMAIN ngrams(rhs)
      size == Min({blocks[i].top_ngrams_size : i \in DOMAIN blocks})
  IN  IF blocks = << >> \/ Cardinality({blocks[i].ngram_size : i \in DOMAIN blocks}) > 1
        THEN Absent
      ELSE <<[ngram_size |-> blocks[1].ngram_size,
              top_ngrams_size |-> size,
              dropped |-> SumFunction([i \in DOMAIN blocks |-> blocks[i].dropped]),
              top_ngrams |-> CutNgrams([s \in ids |-> MergedNgram(ngrams(lhs), ngrams(rhs), s)],
                                       size),
              branching |-> << >>]>>

-----------------------------------------------------------------------------
(* The cube *)

BoundedCube(rows, initial) == [rows |-> rows, state |-> Budgeted(rows, initial)]

BothCarryCubes(lhs, rhs) == Absent \notin {lhs.cube, rhs.cube}

MergedCube(lhs, rhs) ==
  IF BothCarryCubes(lhs, rhs)
    THEN LET l == lhs.cube[1]
             r == rhs.cube[1]
         IN  <<BoundedCube(l.rows \cup r.rows, Cubes!MinCommonCollapse(l.state, r.state))>>
  ELSE Absent

-----------------------------------------------------------------------------
(* Provenance: both inputs' entries and one entry per input, as a bag, the *)
(* order of the wire being a function of it.                               *)

ProvenanceEntry(doc) ==
  [window |-> doc.envelope, source |-> doc.source, lines |-> doc.lines,
   coordinate |-> doc.coordinate]

MergeProvenance(lhs, rhs) ==
  BagAdd(BagAdd(lhs.provenance (+) rhs.provenance, ProvenanceEntry(lhs)), ProvenanceEntry(rhs))

(* The bag of the raw leaves; empty when no input has a coordinate. *)
MergeCoordinate(lhs, rhs) == lhs.coordinate (+) rhs.coordinate

-----------------------------------------------------------------------------

(* The document over its retained templates. *)
DocumentOver(lhs, rhs, merged, cap, top, reservoir) ==
  LET lines == lhs.lines + rhs.lines
      caps == ComposedHistogramCaps(lhs, rhs)
      tail == ComposedTail(lhs, rhs, merged, top \cup DOMAIN reservoir, lines)
  IN
  [kind |-> "document",
   lines |-> lines,
   envelope |-> ComposedEnvelope(lhs.envelope, rhs.envelope),
   source |-> CommonSource(lhs.source, rhs.source),
   contract |-> CarriedContract(lhs, rhs),
   packages |-> MergeRuleset(lhs, rhs),
   max_text_bytes |-> lhs.max_text_bytes,
   transport |-> IF lhs.transport = rhs.transport THEN lhs.transport ELSE Absent,
   unique_templates |-> Cardinality(DOMAIN merged),
   top_k_size |-> Min({lhs.top_k_size, rhs.top_k_size}),
   reservoir_size |-> cap,
   top_k |-> [t \in top |->
                [count |-> merged[t].count, level |-> merged[t].level,
                 component |-> merged[t].component, churn |-> FoldedChurn(lhs, rhs, t),
                 histograms |-> ComposedHistograms(lhs, rhs, t), ordinals |-> << >>]],
   param_histograms_size |-> caps.param_histograms_size,
   value_counts_size |-> caps.value_counts_size,
   reservoir |-> [t \in DOMAIN reservoir |->
                    [reservoir[t] EXCEPT !.where = IF BothCarryCubes(lhs, rhs) THEN @ ELSE NoLabel,
                                         !.churn = FoldedChurn(lhs, rhs, t)]],
   tail_count |-> tail.tail_count,
   tail_unique |-> tail.tail_unique,
   tail_summary |-> tail.tail_summary,
   entropy |-> EntropyOf(WithResidual(CountsOf(merged, DOMAIN merged), lhs, rhs), lines),
   presence_churn |-> ChurnSummary(lhs, rhs, top \cup DOMAIN reservoir),
   provenance |-> MergeProvenance(lhs, rhs),
   coordinate |-> MergeCoordinate(lhs, rhs),
   behavior |-> MergeBehavior(lhs.behavior, rhs.behavior),
   service_edges |-> Absent,
   span_edges |-> Absent,
   cube |-> MergedCube(lhs, rhs)]

(* The reservoir is rederived below the composed top_k. *)
Retaining(lhs, rhs, merged, cap, top) ==
  DocumentOver(lhs, rhs, merged, cap, top,
               ComposedReservoir(lhs, rhs, merged, top, cap, lhs.lines + rhs.lines))

(* The composed document over the merged templates. *)
Composed(lhs, rhs, merged) ==
  Retaining(lhs, rhs, merged, MinDeclaredCap(lhs.reservoir_size, rhs.reservoir_size),
            ComposedTopK(merged, Min({lhs.top_k_size, rhs.top_k_size})))

compose(lhs, rhs) ==
  IF Comparable(lhs, rhs) THEN Composed(lhs, rhs, MergedTemplates(lhs, rhs)) ELSE Refusal

=============================================================================
