--------------------------- MODULE RetentionCases ---------------------------
(***************************************************************************)
(* The retention of a closed window over every small set of buckets: one   *)
(* busy template, and one by one the others, each of some shape.           *)
(***************************************************************************)
EXTENDS Retention

CONSTANTS
  Rare,      \* the ids of the other templates, above 1
  Shapes,    \* what such a template may be: count, level, role, the surprise
             \* of its place in the graph, and whether it came early
  BusyCount  \* the count of template 1

ASSUME ShapesAssumption ==
  /\ Rare \subseteq Nat \ {0, 1} /\ BusyCount \in Nat \ {0}
  /\ Shapes \subseteq [count : Nat \ {0}, level : 0..Unknown, role : Nat, surprise : Nat,
                       early : BOOLEAN]

VARIABLES
  buckets,   \* the buckets of the window
  lines,     \* the lines of the window
  surprise   \* template id -> surprise band

retentionVars == <<buckets, lines, surprise>>

BucketOf(count, level, role, first_seen) ==
  [str |-> "", count |-> count, first_seen |-> first_seen, levels |-> level :> count,
   declared |-> << >>, roles |-> role :> count, echoed |-> FALSE, components |-> << >>]

(* The function of template 1 alone, and f with t besides. *)
Alone(x) == [t \in {1} |-> x]
With(f, t, x) == [u \in DOMAIN f \cup {t} |-> IF u = t THEN x ELSE f[u]]

RetentionInit ==
  /\ buckets = Alone(BucketOf(BusyCount, 2, NoRole, 0))
  /\ lines = BusyCount
  /\ surprise = Alone(0)

Add(shape) ==
  LET rest == Rare \ DOMAIN buckets
      t == Min(rest)
  IN  /\ rest # {}
      /\ buckets' = With(buckets, t, BucketOf(shape.count, shape.level, shape.role,
                                               IF shape.early THEN t - 1 ELSE lines))
      /\ lines' = lines + shape.count
      /\ surprise' = With(surprise, t, shape.surprise)

RetentionRestart ==
  /\ buckets' = Alone(BucketOf(BusyCount, 2, NoRole, 0))
  /\ lines' = BusyCount
  /\ surprise' = Alone(0)

RetentionNext == (\E shape \in Shapes : Add(shape)) \/ RetentionRestart

RetentionSpec == RetentionInit /\ [][RetentionNext]_retentionVars

-----------------------------------------------------------------------------

(* The reading without order: the first n of some ids by score, and ids    *)
(* listed by score, ties toward the lower id.                              *)
Precedes(scores, t, u) == scores[t] > scores[u] \/ (scores[t] = scores[u] /\ t < u)

First(scores, ids, n) == {t \in ids : Cardinality({u \in ids : Precedes(scores, u, t)}) < n}

InOrder(scores, ids) ==
  [i \in 1..Cardinality(ids) |->
     CHOOSE t \in ids : Cardinality({u \in ids : Precedes(scores, u, t)}) = i - 1]

OfKind(ids, kind) == {t \in ids : Kind(buckets[t]) = kind}

(* The two greedy phases of admit_reservoir keep what such a reading asks  *)
(* for: the most salient failures up to the reserve, then the most salient *)
(* of the rest, of each kind no more than its cap.                         *)
ReservoirIsReference ==
  LET scores == Scores(buckets, lines, surprise)
      candidates == {t \in DOMAIN buckets \ TopK(buckets) : scores[t] > 0}
      reserved == First(scores, {t \in candidates : ErrorClass(buckets[t])},
                        Min({ErrorReserve, ReservoirSize}))
      rest == candidates \ reserved
      capped == {t \in rest : PerKindCap > 0 =>
                   t \in First(scores, OfKind(rest, Kind(buckets[t])), PerKindCap)}
      general == First(scores, capped, ReservoirSize - Cardinality(reserved))
  IN  Reservoir(buckets, lines, surprise) = InOrder(scores, reserved) \o InOrder(scores, general)

(* Benign salience never crowds out a failure: one that is left out is     *)
(* outranked by a whole reserve of failures that are kept.                 *)
FailureIsNotCrowdedOut ==
  LET scores == Scores(buckets, lines, surprise)
      kept == Range(Reservoir(buckets, lines, surprise))
      failures == {t \in Range(Candidates(buckets, scores)) : ErrorClass(buckets[t])}
  IN  \A t \in failures \ kept :
        Cardinality({u \in failures \cap kept : scores[u] >= scores[t]})
          >= Min({ErrorReserve, ReservoirSize})

(* Severity never disqualifies and rarity never gates: every error-class   *)
(* template below top_k is a candidate, whatever its count.                *)
EveryFailureIsACandidate ==
  LET scores == Scores(buckets, lines, surprise) IN
  ReservoirSize > 0 =>
    \A t \in DOMAIN buckets \ TopK(buckets) :
      ErrorClass(buckets[t]) => t \in Range(Candidates(buckets, scores))

=============================================================================
