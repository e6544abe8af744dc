----------------------------- MODULE Retention -----------------------------
(***************************************************************************)
(* What a closed window keeps of its templates: the top K by frequency,    *)
(* the reservoir admitted by salience below them, and the tail.            *)
(*                                                                         *)
(* A bucket is a record                                                    *)
(*   [str, count, first_seen, levels, declared, roles, echoed, components] *)
(* whose levels, declared, roles and components are bags.  Levels are the  *)
(* ordinals of LogLevel, roles the ordinals of StructuralRole, components  *)
(* numbers ordered as their bytes are, template ids numbers.               *)
(***************************************************************************)
EXTENDS Naturals, Sequences, FiniteSets, BagsExt, FiniteSetsExt, SequencesExt

CONSTANTS
  TopKSize,       \* config_.top_k_size
  ReservoirSize,  \* config_.reservoir_size; 0 disables the reservoir
  PerKindCap,     \* config_.reservoir_per_kind_cap; 0 means no cap
  ErrorReserve,   \* config_.reservoir_error_reserve
  Terminator,     \* the ordinal of StructuralRole::Terminator, canon's
  FailureCued     \* the strings canon's contains_failure_cue accepts

ASSUME RetentionAssumption ==
  {TopKSize, ReservoirSize, PerKindCap, ErrorReserve, Terminator} \subseteq Nat

Warn == 3
Error == 4
Fatal == 5
Unknown == 6
NoRole == 0
NoLabel == << >>  \* a label that is absent from its row

-----------------------------------------------------------------------------
(* Labels of a bucket *)

(* How often a bag holds x. *)
Tally(bag, x) == IF x \in DOMAIN bag THEN bag[x] ELSE 0

(* The key of a non-empty bag with the highest count, ties by rank. *)
Dominant(bag, rank) ==
  CHOOSE k \in DOMAIN bag :
    \A j \in DOMAIN bag : bag[j] < bag[k] \/ (bag[j] = bag[k] /\ rank[j] <= rank[k])

(* Unknown is the highest ordinal and ranks below every real level. *)
Severity(level) == IF level = Unknown THEN 0 ELSE level + 1

DominantLevel(bucket) == Dominant(bucket.levels, [level \in DOMAIN bucket.levels |-> Severity(level)])

(* The level with its provenance: one declared witness is enough. *)
DominantEventLevel(bucket) ==
  LET level == DominantLevel(bucket)
  IN  [value |-> level, declared |-> level \in DOMAIN bucket.declared]

DominantRole(bucket) == Dominant(bucket.roles, [role \in DOMAIN bucket.roles |-> role])

DominantComponent(bucket) ==
  IF bucket.components = << >> THEN NoLabel
  ELSE LET bag == bucket.components IN
       <<CHOOSE c \in DOMAIN bag :
           \A d \in DOMAIN bag : bag[d] < bag[c] \/ (bag[d] = bag[c] /\ c <= d)>>

IsFailureLevel(level) == level \in {Error, Fatal}

ErrorClass(bucket) == DominantRole(bucket) = Terminator \/ IsFailureLevel(DominantLevel(bucket))

(* The kind the per-kind cap counts by. *)
Kind(bucket) == <<DominantRole(bucket), DominantLevel(bucket)>>

-----------------------------------------------------------------------------
(* Salience *)

(* The surprise of a template reached at most by an edge of edge_count out *)
(* of source_outgoing.                                                     *)
SurpriseBand(edge_count, source_outgoing) ==
  IF edge_count < 2 \/ source_outgoing = 0 THEN 0
  ELSE IF edge_count * 50 < source_outgoing THEN 90
  ELSE IF edge_count * 20 < source_outgoing THEN 75
  ELSE IF edge_count * 10 < source_outgoing THEN 50
  ELSE IF edge_count * 5 < source_outgoing THEN 25
  ELSE 0

(* How late in the window a recurring template was first seen. *)
NoveltyBand(first_seen, lines, count) ==
  IF count < 2 \/ lines = 0 THEN 0
  ELSE IF first_seen * 10 > lines * 9 THEN 60
  ELSE IF first_seen * 4 > lines * 3 THEN 40
  ELSE IF first_seen * 2 > lines THEN 20
  ELSE 0

LevelBand(level) ==
  CASE level = Fatal -> 100 [] level = Error -> 80 [] level = Warn -> 30 [] OTHER -> 0

(* Fault: frequent templates lose their salience altogether. *)
RarityGating(count, lines) ==
  IF count * 1000 < lines THEN 100 ELSE IF count * 100 < lines THEN 90 ELSE 0

Rarity(count, lines) ==
  IF lines = 0 \/ count * 1000 < lines THEN 100
  ELSE IF count * 100 < lines THEN 90
  ELSE IF count * 10 < lines THEN 60
  ELSE 30

(* The bands offered to salience_score, in the order it considers them. *)
Offers(level, role, cued, surprise, novelty) ==
  << <<IF role = Terminator THEN 90 ELSE 0, "terminator">>,
     <<LevelBand(level), "level">>,
     <<IF cued THEN 70 ELSE 0, "failure_cue">>,
     <<surprise, "structural_surprise">>,
     <<novelty, "novelty">> >>

(* The first of the highest offers, scaled by rarity. *)
SalienceScore(level, role, cued, count, lines, surprise, novelty) ==
  LET offers == Offers(level, role, cued, surprise, novelty)
      best == CHOOSE i \in DOMAIN offers : \A j \in DOMAIN offers :
                offers[j][1] < offers[i][1] \/ (offers[j][1] = offers[i][1] /\ i <= j)
  IN  IF offers[best][1] = 0 THEN [score |-> 0, axis |-> "none"]
      ELSE [score |-> offers[best][1] * Rarity(count, lines), axis |-> offers[best][2]]

Novelty(bucket, lines) == NoveltyBand(bucket.first_seen, lines, bucket.count)

SalienceVerdict(bucket, lines, surprise) ==
  SalienceScore(DominantLevel(bucket), DominantRole(bucket),
                ~bucket.echoed /\ bucket.str \in FailureCued,
                bucket.count, lines, surprise, Novelty(bucket, lines))

-----------------------------------------------------------------------------
(* Selection over the buckets of a window, keyed by template id *)

(* t comes before u in the ranking by frequency. *)
Outranks(buckets, t, u) ==
  buckets[t].count > buckets[u].count \/ (buckets[t].count = buckets[u].count /\ t < u)

TopK(buckets) ==
  {t \in DOMAIN buckets : Cardinality({u \in DOMAIN buckets : Outranks(buckets, u, t)}) < TopKSize}

Scores(buckets, lines, surprise) ==
  [t \in DOMAIN buckets |-> SalienceVerdict(buckets[t], lines, surprise[t]).score]

Below(buckets, scores) == {t \in DOMAIN buckets \ TopK(buckets) : scores[t] > 0}

MoreSalient(scores, t, u) == scores[t] > scores[u] \/ (scores[t] = scores[u] /\ t < u)

(* The templates below top_k with some salience, the most salient first,   *)
(* ties by id.                                                             *)
Candidates(buckets, scores) ==
  LET below == Below(buckets, scores) IN
  IF ReservoirSize = 0 THEN << >>
  ELSE [i \in 1..Cardinality(below) |->
          CHOOSE t \in below : Cardinality({u \in below : MoreSalient(scores, u, t)}) = i - 1]

(* Fault: the reserve is looked for among the candidates the reservoir has *)
(* room for.                                                               *)
ReservePhaseOfTheBest(buckets, candidates) ==
  FoldLeft(LAMBDA admitted, i :
             IF /\ Len(admitted) < ErrorReserve
                /\ i <= Len(candidates) /\ ErrorClass(buckets[candidates[i]])
             THEN Append(admitted, candidates[i]) ELSE admitted,
           << >>, [i \in 1..ReservoirSize |-> i])

Reserve(buckets, admitted, t) ==
  IF /\ Len(admitted) < ErrorReserve
     /\ Len(admitted) < ReservoirSize
     /\ ErrorClass(buckets[t])
  THEN Append(admitted, t) ELSE admitted

(* The error-class reserve, ahead of the general pool and exempt from its  *)
(* per-kind cap.                                                           *)
ReservePhase(buckets, candidates) ==
  FoldLeft(LAMBDA admitted, t : Reserve(buckets, admitted, t), << >>, candidates)

(* Fault: the reserve counts against the kind cap. *)
GeneralPhaseCountingReserve(buckets, candidates, reserved) ==
  FoldLeft(LAMBDA admitted, t :
             IF \/ Len(admitted) >= ReservoirSize
                \/ t \in Range(reserved)
                \/ Cardinality({u \in Range(admitted) : Kind(buckets[u]) = Kind(buckets[t])})
                     >= PerKindCap
             THEN admitted ELSE Append(admitted, t),
           reserved, candidates)

Admit(buckets, reserved, acc, t) ==
  IF \/ Len(acc.admitted) >= ReservoirSize
     \/ t \in Range(reserved)
     \/ PerKindCap > 0 /\ Tally(acc.kinds, Kind(buckets[t])) >= PerKindCap
  THEN acc
  ELSE [admitted |-> Append(acc.admitted, t), kinds |-> BagAdd(acc.kinds, Kind(buckets[t]))]

(* The general pool, with per-kind counters that start fresh. *)
GeneralPhase(buckets, candidates, reserved) ==
  FoldLeft(LAMBDA acc, t : Admit(buckets, reserved, acc, t),
           [admitted |-> reserved, kinds |-> << >>], candidates).admitted

(* The reservoir in the order it is admitted. *)
Reservoir(buckets, lines, surprise) ==
  LET candidates == Candidates(buckets, Scores(buckets, lines, surprise))
  IN  GeneralPhase(buckets, candidates, ReservePhase(buckets, candidates))

CountOf(buckets, ids) == SumFunction([t \in ids |-> buckets[t].count])

(* A distribution stands for its entropy: the bag of its counts, and the   *)
(* total they are read over.                                               *)
EntropyOf(counts, total) == [counts |-> counts, total |-> total]

CountsOf(buckets, ids) == FoldSet(LAMBDA t, bag : BagAdd(bag, buckets[t].count), << >>, ids)

TailSummary(counts, total, lines) ==
  IF counts = << >> \/ lines = 0 THEN << >>
  ELSE <<[tail_template_count |-> SumFunction(counts), entropy |-> EntropyOf(counts, total),
          max_rate |-> <<Max(DOMAIN counts), lines>>]>>

(* What every row says of its template. *)
RowOf(bucket) ==
  [count |-> bucket.count, level |-> DominantEventLevel(bucket),
   component |-> DominantComponent(bucket)]

ReservoirEntry(id, bucket, lines, surprise) ==
  [id |-> id, row |-> RowOf(bucket), role |-> DominantRole(bucket),
   ordinal |-> bucket.first_seen, surprise |-> surprise, novelty |-> Novelty(bucket, lines),
   verdict |-> SalienceVerdict(bucket, lines, surprise)]

(* The block over its retained templates.  A window whose templates all    *)
(* fit in top_k declares no reservoir cap.                                 *)
StatsOf(buckets, lines, surprise, top, reservoir) ==
  LET tail == DOMAIN buckets \ (top \cup Range(reservoir))
  IN  [unique_templates |-> Cardinality(DOMAIN buckets),
       top_k_size |-> TopKSize,
       reservoir_size |-> IF ReservoirSize = 0 \/ Cardinality(DOMAIN buckets) <= TopKSize
                          THEN << >> ELSE <<ReservoirSize>>,
       top_k |-> [t \in top |-> RowOf(buckets[t])],
       reservoir |-> [i \in DOMAIN reservoir |->
                        ReservoirEntry(reservoir[i], buckets[reservoir[i]], lines,
                                       surprise[reservoir[i]])],
       tail_count |-> CountOf(buckets, tail),
       tail_unique |-> Cardinality(tail),
       tail_summary |-> TailSummary(CountsOf(buckets, tail), CountOf(buckets, tail), lines),
       entropy |-> EntropyOf(CountsOf(buckets, DOMAIN buckets), lines)]

(* The statistics of a closed window. *)
StatsBlock(buckets, lines, surprise) ==
  StatsOf(buckets, lines, surprise, TopK(buckets), Reservoir(buckets, lines, surprise))

=============================================================================
