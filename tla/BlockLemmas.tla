---------------------------- MODULE BlockLemmas ----------------------------
(***************************************************************************)
(* What the blocks of a document hold, for any table they are read off:    *)
(* the selections of Retention (the ranking by frequency, the candidates   *)
(* in order of salience, the two greedy phases of admit_reservoir, what is *)
(* left to the tail) and the graph and the path of Behavior.               *)
(***************************************************************************)
EXTENDS Retention, Behavior, DataLemmas

(* The buckets of a window, as far as a ranking reads them.                *)
AreBuckets(buckets) ==
  /\ IsFiniteSet(DOMAIN buckets)
  /\ DOMAIN buckets \subseteq Nat
  /\ \A t \in DOMAIN buckets : buckets[t].count \in Nat \ {0} /\ buckets[t].first_seen \in Nat

-----------------------------------------------------------------------------
(* Salience *)

(* The greatest of a row of numbers, the first of several.                 *)
LEMMA FirstGreatest ==
  ASSUME NEW n \in Nat \ {0}, NEW f \in [1..n -> Nat]
  PROVE  \E i \in 1..n : \A j \in 1..n : f[j] < f[i] \/ (f[j] = f[i] /\ i <= j)
<1> DEFINE P == {m \in 0..n : m = 0 \/ \E i \in 1..m : \A j \in 1..m :
                                         f[j] < f[i] \/ (f[j] = f[i] /\ i <= j)}
<1>1. 0 \in P
  OBVIOUS
<1>2. ASSUME NEW m \in 1..n, m - 1 \in P PROVE m \in P
  <2>0. \A j \in 1..m : f[j] \in Nat
    OBVIOUS
  <2>1. CASE m = 1
    <3>1. \A j \in 1..m : f[j] < f[1] \/ (f[j] = f[1] /\ 1 <= j)
      BY <2>1
    <3> QED BY <2>1, <3>1
  <2>2. CASE m # 1
    <3>1. PICK i \in 1..(m - 1) : \A j \in 1..(m - 1) : f[j] < f[i] \/ (f[j] = f[i] /\ i <= j)
      BY <1>2, <2>2
    <3>2. i \in 1..m /\ m \in 1..m /\ f[i] \in Nat /\ f[m] \in Nat
      BY <2>0
    <3>3. CASE f[m] <= f[i]
      <4>1. \A j \in 1..m : f[j] < f[i] \/ (f[j] = f[i] /\ i <= j)
        <5> TAKE j \in 1..m
        <5>1. CASE j = m
          BY <3>2, <3>3, <5>1
        <5>2. CASE j # m
          BY <3>1, <5>2
        <5> QED BY <5>1, <5>2
      <4> QED BY <3>2, <4>1
    <3>4. CASE f[i] < f[m]
      <4>1. \A j \in 1..m : f[j] < f[m] \/ (f[j] = f[m] /\ m <= j)
        <5> TAKE j \in 1..m
        <5>1. CASE j = m
          BY <5>1
        <5>2. CASE j # m
          BY <2>0, <3>1, <3>2, <3>4, <5>2
        <5> QED BY <5>1, <5>2
      <4> QED BY <3>2, <4>1
    <3> QED BY <3>2, <3>3, <3>4
  <2> QED BY <2>1, <2>2
<1>3. 0..n \subseteq P
  <2> HIDE DEF P
  <2> QED BY <1>1, <1>2, RunInduction
<1>4. n \in P /\ n # 0
  <2> HIDE DEF P
  <2> QED BY <1>3
<1> QED BY <1>4

LEMMA BandsAreNat ==
  ASSUME NEW a, NEW b, NEW c
  PROVE  /\ LevelBand(a) \in Nat
         /\ SurpriseBand(a, b) \in Nat
         /\ NoveltyBand(a, b, c) \in Nat
         /\ Rarity(a, b) \in {30, 60, 90, 100}
BY DEF LevelBand, SurpriseBand, NoveltyBand, Rarity

LEMMA BandOfAFailure ==
  ASSUME NEW level, IsFailureLevel(level)
  PROVE  LevelBand(level) \in {80, 100}
<1>1. CASE level = Fatal
  BY <1>1 DEF LevelBand, Error, Fatal, Warn
<1>2. CASE level = Error
  BY <1>2 DEF LevelBand, Error, Fatal, Warn
<1> QED BY <1>1, <1>2 DEF IsFailureLevel

(* The score is a number, and of a failure it is not zero.                 *)
LEMMA ScoreOfAVerdict ==
  ASSUME NEW level, NEW role, NEW cued \in BOOLEAN, NEW count, NEW lines, NEW surprise \in Nat,
         NEW novelty \in Nat
  PROVE  LET verdict == SalienceScore(level, role, cued, count, lines, surprise, novelty) IN
         /\ verdict.score \in Nat
         /\ role = Terminator \/ IsFailureLevel(level) => verdict.score > 0
<1> DEFINE offers == Offers(level, role, cued, surprise, novelty)
           band == [i \in 1..5 |-> offers[i][1]]
           rarity == Rarity(count, lines)
           verdict == SalienceScore(level, role, cued, count, lines, surprise, novelty)
<1>1. DOMAIN offers = 1..5 /\ band \in [1..5 -> Nat]
  BY BandsAreNat DEF Offers
<1>2. role = Terminator => band[1] = 90
  BY DEF Offers
<1>3. IsFailureLevel(level) => band[2] \in {80, 100}
  BY BandOfAFailure DEF Offers
<1>4. rarity \in {30, 60, 90, 100}
  BY BandsAreNat
<1> HIDE DEF rarity
<1>5. PICK first \in 1..5 : \A j \in 1..5 :
        band[j] < band[first] \/ (band[j] = band[first] /\ first <= j)
  <2> HIDE DEF band
  <2> QED BY <1>1, FirstGreatest
<1> DEFINE best == CHOOSE i \in DOMAIN offers : \A j \in DOMAIN offers :
                     offers[j][1] < offers[i][1] \/ (offers[j][1] = offers[i][1] /\ i <= j)
<1>6. best \in 1..5 /\ \A j \in 1..5 : band[j] <= band[best]
  <2>1. \E i \in DOMAIN offers : \A j \in DOMAIN offers :
                     offers[j][1] < offers[i][1] \/ (offers[j][1] = offers[i][1] /\ i <= j)
    <3> HIDE DEF offers
    <3> QED BY <1>1, <1>5
  <2>2. /\ best \in DOMAIN offers
        /\ \A j \in DOMAIN offers :
             offers[j][1] < offers[best][1] \/ (offers[j][1] = offers[best][1] /\ best <= j)
    <3> HIDE DEF offers
    <3> QED BY <2>1
  <2> HIDE DEF offers, best
  <2> QED BY <1>1, <2>2
<1>7. verdict.score = IF band[best] = 0 THEN 0 ELSE band[best] * rarity
  <2>1. verdict = IF offers[best][1] = 0 THEN [score |-> 0, axis |-> "none"]
                  ELSE [score |-> offers[best][1] * rarity, axis |-> offers[best][2]]
    BY Zenon DEF SalienceScore, rarity
  <2> HIDE DEF offers, best, verdict
  <2> QED BY <1>6, <2>1
<1> HIDE DEF offers, best, band, verdict
<1>8. band[best] \in Nat
  BY <1>1, <1>6
<1>9. verdict.score \in Nat /\ (band[best] > 0 => verdict.score > 0)
  BY <1>4, <1>7, <1>8
<1>10. role = Terminator \/ IsFailureLevel(level) => band[best] > 0
  BY <1>2, <1>3, <1>6, <1>8
<1> QED BY <1>9, <1>10 DEF verdict

(* No rarity and no other axis takes the salience of a failure away.       *)
LEMMA ScoreOfABucket ==
  ASSUME NEW buckets, AreBuckets(buckets), NEW lines, NEW surprise, NatOn(surprise, DOMAIN buckets),
         \A t \in DOMAIN buckets : buckets[t].echoed \in BOOLEAN
  PROVE  /\ NatOn(Scores(buckets, lines, surprise), DOMAIN buckets)
         /\ \A t \in DOMAIN buckets :
              ErrorClass(buckets[t]) => Scores(buckets, lines, surprise)[t] > 0
<1> SUFFICES ASSUME NEW t \in DOMAIN buckets
             PROVE  /\ Scores(buckets, lines, surprise)[t] \in Nat
                    /\ ErrorClass(buckets[t]) => Scores(buckets, lines, surprise)[t] > 0
  BY DEF NatOn
<1> DEFINE b == buckets[t]
           cued == ~b.echoed /\ b.str \in FailureCued
           novelty == Novelty(b, lines)
<1>1. surprise[t] \in Nat /\ novelty \in Nat /\ cued \in BOOLEAN
  BY BandsAreNat DEF NatOn, Novelty
<1>2. Scores(buckets, lines, surprise)[t] =
        SalienceScore(DominantLevel(b), DominantRole(b), cued, b.count, lines, surprise[t],
                      novelty).score
  BY DEF Scores, SalienceVerdict
<1> HIDE DEF b, cued, novelty
<1>3. ErrorClass(b) => DominantRole(b) = Terminator \/ IsFailureLevel(DominantLevel(b))
  BY DEF ErrorClass
<1> QED BY <1>1, <1>2, <1>3, ScoreOfAVerdict DEF b

-----------------------------------------------------------------------------
(* Ranking *)

(* The two orders, as sets of pairs.                                       *)
ByCount(buckets) ==
  {p \in (DOMAIN buckets) \X (DOMAIN buckets) : Outranks(buckets, p[1], p[2])}

BySalience(scores, S) == {p \in S \X S : MoreSalient(scores, p[1], p[2])}

LEMMA ByCountIsOrder ==
  ASSUME NEW buckets, AreBuckets(buckets)
  PROVE  /\ IsOrder(ByCount(buckets), DOMAIN buckets)
         /\ \A t \in DOMAIN buckets :
              Ahead(ByCount(buckets), DOMAIN buckets, t)
                = {u \in DOMAIN buckets : Outranks(buckets, u, t)}
<1>1. \A t \in DOMAIN buckets : t \in Nat /\ buckets[t].count \in Nat
  BY DEF AreBuckets
<1> DEFINE S == DOMAIN buckets
           count == [t \in S |-> buckets[t].count]
<1>2. \A t, u \in S : <<t, u>> \in ByCount(buckets)
                         <=> count[t] > count[u] \/ (count[t] = count[u] /\ t < u)
  BY DEF ByCount, Outranks
<1>3. \A t \in S : count[t] \in Nat /\ t \in Nat
  BY <1>1
<1>4. \A t \in S : Ahead(ByCount(buckets), S, t) = {u \in S : Outranks(buckets, u, t)}
  BY DEF Ahead, ByCount
<1> HIDE DEF count, S
<1>5. IsOrder(ByCount(buckets), S)
  BY <1>2, <1>3 DEF IsOrder
<1> QED BY <1>4, <1>5 DEF S

LEMMA BySalienceIsOrder ==
  ASSUME NEW S \in SUBSET Nat, NEW scores, NatOn(scores, S)
  PROVE  /\ IsOrder(BySalience(scores, S), S)
         /\ \A t \in S : Ahead(BySalience(scores, S), S, t) = {u \in S : MoreSalient(scores, u, t)}
<1>1. \A t, u \in S : <<t, u>> \in BySalience(scores, S)
                         <=> scores[t] > scores[u] \/ (scores[t] = scores[u] /\ t < u)
  BY DEF BySalience, MoreSalient
<1>2. \A t \in S : scores[t] \in Nat /\ t \in Nat
  BY DEF NatOn
<1>3. \A t \in S : Ahead(BySalience(scores, S), S, t) = {u \in S : MoreSalient(scores, u, t)}
  BY DEF Ahead, BySalience
<1>4. IsOrder(BySalience(scores, S), S)
  BY <1>1, <1>2 DEF IsOrder
<1> QED BY <1>3, <1>4

(* The top K are K templates, or all of them when no more were seen.       *)
LEMMA TopKCount ==
  ASSUME NEW buckets, AreBuckets(buckets)
  PROVE  /\ TopK(buckets) \in SUBSET DOMAIN buckets
         /\ IsFiniteSet(TopK(buckets))
         /\ Cardinality(TopK(buckets)) =
              IF Cardinality(DOMAIN buckets) <= TopKSize THEN Cardinality(DOMAIN buckets)
              ELSE TopKSize
<1> DEFINE S == DOMAIN buckets
           before == ByCount(buckets)
<1>1. IsFiniteSet(S) /\ TopKSize \in Nat
  BY RetentionAssumption DEF AreBuckets
<1>2. TopK(buckets) = {t \in S : Rank(before, S, t) < TopKSize}
  BY ByCountIsOrder DEF TopK, Rank
<1>3. IsOrder(before, S)
  BY ByCountIsOrder
<1> HIDE DEF S, before
<1>4. Cardinality(TopK(buckets)) = IF Cardinality(S) <= TopKSize THEN Cardinality(S) ELSE TopKSize
  BY <1>1, <1>2, <1>3, FirstByRank
<1>5. TopK(buckets) \in SUBSET S
  BY <1>2
<1> QED BY <1>1, <1>4, <1>5, FS_Subset DEF S

(* The candidates are every salient template below top_k, each once, in    *)
(* order of salience.                                                      *)
LEMMA CandidatesAreListed ==
  ASSUME NEW buckets, AreBuckets(buckets), NEW scores, NatOn(scores, DOMAIN buckets)
  PROVE  LET candidates == Candidates(buckets, scores) IN
         /\ candidates \in Seq(Below(buckets, scores))
         /\ Lists(candidates, IF ReservoirSize = 0 THEN {} ELSE Below(buckets, scores))
         /\ \A i, j \in DOMAIN candidates :
              i < j => /\ scores[candidates[i]] >= scores[candidates[j]]
                       /\ MoreSalient(scores, candidates[i], candidates[j])
<1> DEFINE below == Below(buckets, scores)
           before == BySalience(scores, below)
           list == Candidates(buckets, scores)
<1>1. CASE ReservoirSize = 0
  <2>1. list = << >>
    BY <1>1 DEF Candidates
  <2> QED BY <1>1, <2>1, EmptyFifo
<1>2. CASE ReservoirSize # 0
  <2>1. below \in SUBSET DOMAIN buckets
    BY DEF Below
  <2>2. below \in SUBSET Nat /\ IsFiniteSet(below) /\ NatOn(scores, below)
    BY <2>1, FS_Subset DEF AreBuckets, NatOn
  <2>3. IsOrder(before, below)
    <3> HIDE DEF below
    <3> QED BY <2>2, BySalienceIsOrder
  <2>b. \A t \in below : Ahead(before, below, t) = {u \in below : MoreSalient(scores, u, t)}
    <3> HIDE DEF below
    <3> QED BY <2>2, BySalienceIsOrder
  <2>4. list = [i \in 1..Cardinality(below) |->
                  CHOOSE t \in below : Cardinality({u \in below : MoreSalient(scores, u, t)}) = i - 1]
    BY <1>2 DEF Candidates
  <2> HIDE DEF below, list, before
  <2>a. \A t \in below : Rank(before, below, t) = Cardinality({u \in below : MoreSalient(scores, u, t)})
    BY <2>b DEF Rank
  <2>n. Cardinality(below) \in Nat
    BY <2>2, FS_CardinalityType
  <2>5. ASSUME NEW i \in 1..Cardinality(below)
        PROVE  list[i] \in below /\ Rank(before, below, list[i]) = i - 1
    <3>1. i - 1 \in 0..(Cardinality(below) - 1)
      BY <2>n
    <3>2. \E t \in below : Rank(before, below, t) = i - 1
      <4>1. IsFiniteSet(below)
        BY <2>2
      <4>2. \A k \in 0..(Cardinality(below) - 1) : \E t \in below : Rank(before, below, t) = k
        BY <4>1, <2>3, RankIsOnto
      <4> QED BY <3>1, <4>2
    <3>3. \E t \in below : Cardinality({u \in below : MoreSalient(scores, u, t)}) = i - 1
      BY <2>a, <3>2
    <3>4. list[i] = CHOOSE t \in below : Cardinality({u \in below : MoreSalient(scores, u, t)}) = i - 1
      BY <2>4
    <3>5. list[i] \in below /\ Cardinality({u \in below : MoreSalient(scores, u, list[i])}) = i - 1
      BY <3>3, <3>4
    <3> QED BY <2>a, <3>5
  <2>d. list \in [1..Cardinality(below) -> below]
    BY <2>4, <2>5
  <2>6. list \in Seq(below) /\ Lists(list, below) /\ DOMAIN list = 1..Cardinality(below)
    <3>1. IsFiniteSet(below)
      BY <2>2
    <3>2. \A i \in 1..Cardinality(below) : Rank(before, below, list[i]) = i - 1
      BY <2>5
    <3>3. list \in Seq(below) /\ Lists(list, below)
      BY <3>1, <3>2, <2>3, <2>d, ListedByRank
    <3> QED BY <3>3, <2>d
  <2>7. ASSUME NEW i \in DOMAIN list, NEW j \in DOMAIN list, i < j
        PROVE  scores[list[i]] >= scores[list[j]] /\ MoreSalient(scores, list[i], list[j])
    <3> DEFINE x == list[i]
               y == list[j]
    <3>1. x \in below /\ y \in below /\ Rank(before, below, x) = i - 1 /\ Rank(before, below, y) = j - 1
      BY <2>5, <2>6
    <3>2. i \in Nat /\ j \in Nat /\ x # y
      BY <2>6, <2>7 DEF Lists
    <3> HIDE DEF x, y
    <3>3. <<y, x>> \notin before
      BY <2>2, <2>3, <2>7, <3>1, <3>2, RankGrows
    <3>4. <<x, y>> \in before
      BY <2>3, <3>1, <3>2, <3>3 DEF IsOrder
    <3>5. scores[x] \in Nat /\ scores[y] \in Nat
      BY <2>2, <3>1 DEF NatOn
    <3>6. MoreSalient(scores, x, y)
      BY <3>4 DEF before, BySalience
    <3>7. scores[x] >= scores[y] /\ MoreSalient(scores, x, y)
      BY <3>5, <3>6 DEF MoreSalient
    <3> QED BY <3>7 DEF x, y
  <2> QED BY <1>2, <2>6, <2>7 DEF list, below
<1> QED BY <1>1, <1>2

-----------------------------------------------------------------------------
(* The reserve of error-class templates *)

(* run is the reserve after 0, 1, ... of the candidates.                   *)
IsReserveRun(run, buckets, candidates) ==
  /\ run[0] = << >>
  /\ \A i \in 1..Len(candidates) : run[i] = Reserve(buckets, run[i - 1], candidates[i])

LEMMA ReserveType ==
  ASSUME NEW S, NEW buckets, NEW admitted \in Seq(S), NEW t \in S
  PROVE  Reserve(buckets, admitted, t) \in Seq(S)
BY AppendProperties DEF Reserve

(* The first phase is such a run.                                          *)
LEMMA ReservePhaseIsARun ==
  ASSUME NEW S, NEW buckets, NEW candidates \in Seq(S)
  PROVE  \E run \in [0..Len(candidates) -> Seq(S)] :
           /\ IsReserveRun(run, buckets, candidates)
           /\ ReservePhase(buckets, candidates) = run[Len(candidates)]
<1> DEFINE n == Len(candidates)
           D == DOMAIN candidates
           Step(it, s) == IF s = {} THEN << >>
                          ELSE Reserve(buckets, it[s \ {Max(s)}], candidates[Max(s)])
           IsIter(it) == it = [s \in SUBSET D |-> Step(it, s)]
           iter == CHOOSE it : IsIter(it)
           step == [p \in Seq(S) \X (1..n) |-> Reserve(buckets, p[1], candidates[p[2]])]
           run == [i \in 0..n |-> iter[1..i]]
<1>1. D = 1..n /\ n \in Nat /\ \A i \in 1..n : candidates[i] \in S
  OBVIOUS
<1>2. ReservePhase(buckets, candidates) = iter[D]
  BY Zenon DEF ReservePhase, FoldLeft, MapThenFoldSet
<1> HIDE DEF D, n
<1>3. \E it : IsIter(it)
  <2>0. << >> \in Seq(S)
    OBVIOUS
  <2>1. step \in [Seq(S) \X (1..n) -> Seq(S)]
    <3>1. \A p \in Seq(S) \X (1..n) : p[1] \in Seq(S) /\ candidates[p[2]] \in S
      BY <1>1
    <3>2. ASSUME NEW p \in Seq(S) \X (1..n)
          PROVE  Reserve(buckets, p[1], candidates[p[2]]) \in Seq(S)
      BY <3>1, ReserveType
    <3> QED BY <3>2
  <2>n. n \in Nat
    BY <1>1
  <2> HIDE DEF step
  <2>2. PICK it \in [SUBSET (1..n) -> Seq(S)] : IsFold(it, step, << >>, n)
    BY <2>n, <2>0, <2>1, FoldExists
  <2>3. ASSUME NEW s \in SUBSET (1..n) PROVE it[s] = Step(it, s)
    <3>1. CASE s = {}
      BY <2>2, <3>1 DEF IsFold
    <3>2. CASE s # {}
      <4>1. Max(s) \in 1..n
        BY <1>1, <3>2, MaxOfPart
      <4>2. it[s \ {Max(s)}] \in Seq(S)
        BY <2>2
      <4>3. it[s] = step[<<it[s \ {Max(s)}], Max(s)>>]
        BY <2>2, <3>2 DEF IsFold
      <4> QED BY <3>2, <4>1, <4>2, <4>3 DEF step
    <3> QED BY <3>1, <3>2
  <2>4. IsIter(it)
    BY <1>1, <2>2, <2>3
  <2> QED BY <2>4
<1>4. IsIter(iter)
  BY <1>3
<1> HIDE DEF iter
<1>5. iter[{}] = << >>
  BY <1>4
<1>6. ASSUME NEW i \in 1..n PROVE iter[1..i] = Reserve(buckets, iter[1..(i - 1)], candidates[i])
  <2>1. 1..i \in SUBSET D /\ i \in Nat \ {0} /\ i \in 1..i
    BY <1>1
  <2>2. 1..i # {}
    BY <2>1
  <2>3. Max(1..i) = i /\ (1..i) \ {i} = 1..(i - 1)
    BY <2>1, LastOfPrefix, PrefixBefore
  <2>4. iter[1..i] = Step(iter, 1..i)
    BY <1>4, <2>1
  <2> QED BY <2>2, <2>3, <2>4
<1>7. 1..0 = {}
  OBVIOUS
<1>8. IsReserveRun(run, buckets, candidates)
  BY <1>1, <1>5, <1>6, <1>7 DEF IsReserveRun, n
<1>9. \A i \in 0..n : run[i] \in Seq(S)
  <2> DEFINE P == {i \in 0..n : run[i] \in Seq(S)}
  <2>1. 0 \in P
    <3>1. 0 \in 0..n /\ run[0] = iter[1..0] /\ iter[1..0] = << >>
      BY <1>1, <1>5, <1>7
    <3>2. << >> \in Seq(S)
      OBVIOUS
    <3> QED BY <3>1, <3>2
  <2>2. ASSUME NEW i \in 1..n, i - 1 \in P PROVE i \in P
    <3>1. i - 1 \in 0..n /\ i \in 0..n /\ run[i - 1] = iter[1..(i - 1)] /\ run[i] = iter[1..i]
      BY <1>1
    <3>2. iter[1..(i - 1)] \in Seq(S)
      BY <2>2, <3>1
    <3>c. candidates[i] \in S
      BY <1>1
    <3>3. iter[1..i] \in Seq(S)
      BY <1>6, <3>2, <3>c, ReserveType
    <3> QED BY <3>1, <3>3
  <2>3. 0..n \subseteq P
    <3> HIDE DEF P
    <3> QED BY <1>1, <2>1, <2>2, RunInduction
  <2> QED BY <2>3
<1>10. run \in [0..n -> Seq(S)] /\ run[n] = iter[D]
  BY <1>1, <1>9
<1> HIDE DEF run
<1> QED BY <1>2, <1>8, <1>10 DEF n

(* What is reserved is distinct, of the candidates passed so far, and all  *)
(* of it failures.                                                         *)
IsReserved(admitted, buckets, candidates, i) ==
  /\ Lists(admitted, Range(admitted))
  /\ \A x \in Range(admitted) : ErrorClass(buckets[x]) /\ \E j \in 1..i : x = candidates[j]
  /\ Len(admitted) <= ReservoirSize

LEMMA NoneReserved ==
  ASSUME NEW buckets, NEW candidates PROVE IsReserved(<< >>, buckets, candidates, 0)
<1>1. Lists(<< >>, {}) /\ Range(<< >>) = {}
  BY EmptyFifo DEF Lists
<1>2. Len(<< >>) <= ReservoirSize
  BY RetentionAssumption
<1> DEFINE none == << >>
<1>3. Lists(none, Range(none)) /\ Range(none) = {} /\ Len(none) <= ReservoirSize
  BY <1>1, <1>2
<1> HIDE DEF none
<1>4. IsReserved(none, buckets, candidates, 0)
  BY <1>3 DEF IsReserved
<1> QED BY <1>4 DEF none

LEMMA ReserveKeeps ==
  ASSUME NEW S, NEW buckets, NEW candidates \in Seq(S), NEW held, Lists(candidates, held),
         NEW i \in 1..Len(candidates), NEW admitted \in Seq(S),
         IsReserved(admitted, buckets, candidates, i - 1)
  PROVE  /\ IsReserved(Reserve(buckets, admitted, candidates[i]), buckets, candidates, i)
         /\ Range(admitted) \subseteq Range(Reserve(buckets, admitted, candidates[i]))
<1> DEFINE new == Reserve(buckets, admitted, candidates[i])
           t == candidates[i]
<1>1. t \in S /\ DOMAIN candidates = 1..Len(candidates) /\ i \in Nat /\ i - 1 \in Nat
  OBVIOUS
<1>2. t \notin Range(admitted)
  <2> SUFFICES ASSUME t \in Range(admitted) PROVE FALSE
    OBVIOUS
  <2>1. PICK j \in 1..(i - 1) : t = candidates[j]
    BY DEF IsReserved
  <2>2. j \in DOMAIN candidates /\ i \in DOMAIN candidates /\ j # i
    BY <1>1
  <2> QED BY <2>1, <2>2 DEF Lists
<1>3. \A x \in Range(admitted) : \E j \in 1..i : x = candidates[j]
  <2>1. \A j \in 1..(i - 1) : j \in 1..i
    BY <1>1
  <2> QED BY <2>1 DEF IsReserved
<1>4. CASE new = admitted
  BY <1>3, <1>4 DEF IsReserved
<1>5. CASE new # admitted
  <2>1. new = Append(admitted, t) /\ ErrorClass(buckets[t]) /\ Len(admitted) < ReservoirSize
    BY <1>5 DEF Reserve
  <2>2. Lists(new, Range(admitted) \cup {t})
    BY <1>1, <1>2, <2>1, FifoAppend DEF IsReserved
  <2>3. Range(new) = Range(admitted) \cup {t}
    BY <2>2 DEF Lists
  <2>4. Len(new) = Len(admitted) + 1 /\ Len(admitted) \in Nat /\ ReservoirSize \in Nat
    BY <1>1, <2>1, AppendProperties, RetentionAssumption
  <2>5. \A x \in Range(new) : ErrorClass(buckets[x]) /\ \E j \in 1..i : x = candidates[j]
    BY <1>1, <1>3, <2>1, <2>3 DEF IsReserved
  <2>6. Len(new) <= ReservoirSize
    BY <2>1, <2>4
  <2> QED BY <2>2, <2>3, <2>5, <2>6 DEF IsReserved
<1> QED BY <1>4, <1>5

LEMMA ReservedAlongARun ==
  ASSUME NEW S, NEW buckets, NEW candidates \in Seq(S), NEW held, Lists(candidates, held),
         NEW run \in [0..Len(candidates) -> Seq(S)], IsReserveRun(run, buckets, candidates)
  PROVE  /\ \A i \in 0..Len(candidates) : IsReserved(run[i], buckets, candidates, i)
         /\ \A i \in 0..Len(candidates) : Range(run[i]) \subseteq Range(run[Len(candidates)])
<1> DEFINE n == Len(candidates)
           P == {i \in 0..n : IsReserved(run[i], buckets, candidates, i)}
<1>1. n \in Nat
  OBVIOUS
<1>2. \A i \in 0..n : run[i] \in Seq(S)
  OBVIOUS
<1>3. \A i \in 1..n : i - 1 \in 0..n /\ i \in 0..n
                        /\ run[i] = Reserve(buckets, run[i - 1], candidates[i])
  BY <1>1 DEF IsReserveRun
<1>4. 0 \in P
  <2>1. run[0] = << >> /\ 0 \in 0..n
    BY <1>1 DEF IsReserveRun
  <2> QED BY <2>1, NoneReserved
<1>5. ASSUME NEW i \in 1..n, i - 1 \in P PROVE i \in P
  <2>1. run[i - 1] \in Seq(S) /\ IsReserved(run[i - 1], buckets, candidates, i - 1)
    BY <1>2, <1>3, <1>5
  <2>2. IsReserved(Reserve(buckets, run[i - 1], candidates[i]), buckets, candidates, i)
    BY <2>1, ReserveKeeps
  <2> QED BY <1>3, <2>2
<1>6. 0..n \subseteq P
  <2> HIDE DEF P
  <2> QED BY <1>1, <1>4, <1>5, RunInduction
<1>7. \A i \in 0..n : IsReserved(run[i], buckets, candidates, i)
  BY <1>6
<1>8. ASSUME NEW k \in 0..n PROVE Range(run[k]) \subseteq Range(run[n])
  <2> DEFINE Q == {i \in 0..n : i < k \/ Range(run[k]) \subseteq Range(run[i])}
  <2>1. 0 \in Q
    <3>1. 0 < k \/ k = 0
      OBVIOUS
    <3> QED BY <1>1, <3>1
  <2>2. ASSUME NEW i \in 1..n, i - 1 \in Q PROVE i \in Q
    <3>1. CASE i < k
      BY <1>3, <3>1
    <3>2. CASE i = k
      BY <1>3, <3>2
    <3>3. CASE i > k
      <4>1. Range(run[k]) \subseteq Range(run[i - 1])
        BY <2>2, <3>3
      <4>2. run[i - 1] \in Seq(S) /\ IsReserved(run[i - 1], buckets, candidates, i - 1)
        BY <1>2, <1>3, <1>7
      <4>3. Range(run[i - 1]) \subseteq Range(Reserve(buckets, run[i - 1], candidates[i]))
        BY <4>2, ReserveKeeps
      <4>4. Range(run[k]) \subseteq Range(run[i])
        BY <1>3, <4>1, <4>3
      <4> QED BY <1>3, <4>4
    <3>4. i \in Int /\ k \in Int
      OBVIOUS
    <3> QED BY <3>1, <3>2, <3>3, <3>4
  <2>3. 0..n \subseteq Q
    <3> HIDE DEF Q
    <3> QED BY <1>1, <2>1, <2>2, RunInduction
  <2>4. n \in 0..n /\ ~(n < k)
    BY <1>1
  <2> QED BY <2>3, <2>4
<1> QED BY <1>7, <1>8

-----------------------------------------------------------------------------
(* The general pool *)

(* run is what is admitted, with the counters of kinds, after 0, 1, ... of *)
(* the candidates.                                                         *)
IsAdmitRun(run, buckets, candidates, reserved) ==
  /\ run[0] = [admitted |-> reserved, kinds |-> << >>]
  /\ \A i \in 1..Len(candidates) : run[i] = Admit(buckets, reserved, run[i - 1], candidates[i])

(* Bags of kinds, and what the second phase accumulates.                   *)
BagsOver(K) == UNION {[D -> Nat] : D \in SUBSET K}

Pools(S, K) == [admitted : Seq(S), kinds : BagsOver(K)]

LEMMA BagAddType ==
  ASSUME NEW K, NEW bag \in BagsOver(K), NEW k \in K
  PROVE  BagAdd(bag, k) \in BagsOver(K)
<1>1. PICK D \in SUBSET K : bag \in [D -> Nat]
  BY DEF BagsOver
<1>2. CASE k \in D
  <2>1. BagAdd(bag, k) \in [D -> Nat]
    BY <1>1, <1>2 DEF BagAdd
  <2> QED BY <2>1 DEF BagsOver
<1>3. CASE k \notin D
  <2>1. BagAdd(bag, k) \in [D \cup {k} -> Nat]
    BY <1>1, <1>3 DEF BagAdd
  <2>2. D \cup {k} \in SUBSET K
    OBVIOUS
  <2> QED BY <2>1, <2>2 DEF BagsOver
<1> QED BY <1>2, <1>3

LEMMA AdmitType ==
  ASSUME NEW S, NEW K, NEW buckets, NEW reserved, NEW acc \in Pools(S, K), NEW t \in S,
         Kind(buckets[t]) \in K
  PROVE  Admit(buckets, reserved, acc, t) \in Pools(S, K)
<1>1. acc.admitted \in Seq(S) /\ acc.kinds \in BagsOver(K)
  BY DEF Pools
<1>2. Append(acc.admitted, t) \in Seq(S) /\ BagAdd(acc.kinds, Kind(buckets[t])) \in BagsOver(K)
  BY <1>1, AppendProperties, BagAddType
<1> QED BY <1>2 DEF Pools, Admit

(* The second phase is such a run.                                         *)
LEMMA GeneralPhaseIsARun ==
  ASSUME NEW S, NEW buckets, NEW candidates \in Seq(S), NEW reserved \in Seq(S)
  PROVE  \E run :
           /\ \A i \in 0..Len(candidates) : run[i].admitted \in Seq(S)
           /\ IsAdmitRun(run, buckets, candidates, reserved)
           /\ GeneralPhase(buckets, candidates, reserved) = run[Len(candidates)].admitted
<1> DEFINE n == Len(candidates)
           D == DOMAIN candidates
           K == {Kind(buckets[t]) : t \in S}
           Acc == Pools(S, K)
           start == [admitted |-> reserved, kinds |-> << >>]
           Step(it, s) == IF s = {} THEN start
                          ELSE Admit(buckets, reserved, it[s \ {Max(s)}], candidates[Max(s)])
           IsIter(it) == it = [s \in SUBSET D |-> Step(it, s)]
           iter == CHOOSE it : IsIter(it)
           step == [p \in Acc \X (1..n) |-> Admit(buckets, reserved, p[1], candidates[p[2]])]
           run == [i \in 0..n |-> iter[1..i]]
<1>1. D = 1..n /\ n \in Nat /\ \A i \in 1..n : candidates[i] \in S
  OBVIOUS
<1>2. GeneralPhase(buckets, candidates, reserved) = iter[D].admitted
  BY Zenon DEF GeneralPhase, FoldLeft, MapThenFoldSet
<1>b. start \in Acc
  <2>1. << >> \in [{} -> Nat]
    OBVIOUS
  <2>2. << >> \in BagsOver(K)
    BY <2>1 DEF BagsOver
  <2> QED BY <2>2 DEF Pools
<1>k. \A a \in Acc, t \in S : Admit(buckets, reserved, a, t) \in Acc
  BY AdmitType
<1> HIDE DEF D, n, start, Acc
<1>3. \E it : IsIter(it)
  <2>1. step \in [Acc \X (1..n) -> Acc]
    <3>1. ASSUME NEW p \in Acc \X (1..n)
          PROVE  Admit(buckets, reserved, p[1], candidates[p[2]]) \in Acc
      BY <1>1, <1>k
    <3> QED BY <3>1
  <2>n. n \in Nat
    BY <1>1
  <2> HIDE DEF step
  <2>2. PICK it \in [SUBSET (1..n) -> Acc] : IsFold(it, step, start, n)
    BY <2>n, <1>b, <2>1, FoldExists
  <2>3. ASSUME NEW s \in SUBSET (1..n) PROVE it[s] = Step(it, s)
    <3>1. CASE s = {}
      BY <2>2, <3>1 DEF IsFold
    <3>2. CASE s # {}
      <4>1. Max(s) \in 1..n
        BY <1>1, <3>2, MaxOfPart
      <4>2. it[s \ {Max(s)}] \in Acc
        BY <2>2
      <4>3. it[s] = step[<<it[s \ {Max(s)}], Max(s)>>]
        BY <2>2, <3>2 DEF IsFold
      <4> QED BY <3>2, <4>1, <4>2, <4>3 DEF step
    <3> QED BY <3>1, <3>2
  <2>4. IsIter(it)
    BY <1>1, <2>2, <2>3
  <2> QED BY <2>4
<1>4. IsIter(iter)
  BY <1>3
<1> HIDE DEF iter
<1>5. iter[{}] = start
  BY <1>4
<1>6. ASSUME NEW i \in 1..n
      PROVE  iter[1..i] = Admit(buckets, reserved, iter[1..(i - 1)], candidates[i])
  <2>1. 1..i \in SUBSET D /\ i \in Nat \ {0} /\ i \in 1..i
    BY <1>1
  <2>2. 1..i # {}
    BY <2>1
  <2>3. Max(1..i) = i /\ (1..i) \ {i} = 1..(i - 1)
    BY <2>1, LastOfPrefix, PrefixBefore
  <2>4. iter[1..i] = Step(iter, 1..i)
    BY <1>4, <2>1
  <2> QED BY <2>2, <2>3, <2>4
<1>7. 1..0 = {}
  OBVIOUS
<1>8. IsAdmitRun(run, buckets, candidates, reserved)
  BY <1>1, <1>5, <1>6, <1>7 DEF IsAdmitRun, n, start
<1>9. \A i \in 0..n : run[i] \in Acc
  <2> DEFINE P == {i \in 0..n : run[i] \in Acc}
  <2>1. 0 \in P
    BY <1>1, <1>5, <1>7, <1>b
  <2>2. ASSUME NEW i \in 1..n, i - 1 \in P PROVE i \in P
    <3>1. i - 1 \in 0..n /\ i \in 0..n /\ run[i - 1] = iter[1..(i - 1)] /\ run[i] = iter[1..i]
      BY <1>1
    <3>2. iter[1..(i - 1)] \in Acc
      BY <2>2, <3>1
    <3>c. candidates[i] \in S
      BY <1>1
    <3>3. iter[1..i] \in Acc
      BY <1>6, <3>2, <3>c, <1>k
    <3> QED BY <3>1, <3>3
  <2>3. 0..n \subseteq P
    <3> HIDE DEF P
    <3> QED BY <1>1, <2>1, <2>2, RunInduction
  <2> QED BY <2>3
<1>10. run[n] = iter[D]
  BY <1>1
<1> HIDE DEF run
<1>11. \A i \in 0..n : run[i].admitted \in Seq(S)
  BY <1>9 DEF Acc, Pools
<1> QED BY <1>2, <1>8, <1>10, <1>11 DEF n

(* What is admitted is distinct, the reserve and candidates passed so far, *)
(* and within the reservoir.                                               *)
IsAdmitted(admitted, reserved, candidates, i) ==
  /\ Lists(admitted, Range(admitted))
  /\ Range(reserved) \subseteq Range(admitted)
  /\ \A x \in Range(admitted) : x \in Range(reserved) \/ \E j \in 1..i : x = candidates[j]
  /\ Len(admitted) <= ReservoirSize

LEMMA AdmitKeeps ==
  ASSUME NEW S, NEW buckets, NEW candidates \in Seq(S), NEW held, Lists(candidates, held),
         NEW reserved, NEW i \in 1..Len(candidates), NEW acc, acc.admitted \in Seq(S),
         IsAdmitted(acc.admitted, reserved, candidates, i - 1)
  PROVE  IsAdmitted(Admit(buckets, reserved, acc, candidates[i]).admitted, reserved, candidates, i)
<1> DEFINE t == candidates[i]
           old == acc.admitted
           new == Admit(buckets, reserved, acc, t).admitted
<1>1. t \in S /\ DOMAIN candidates = 1..Len(candidates) /\ i \in Nat /\ i - 1 \in Nat
  OBVIOUS
<1>2. \A x \in Range(old) : x \in Range(reserved) \/ \E j \in 1..i : x = candidates[j]
  <2>1. \A j \in 1..(i - 1) : j \in 1..i
    BY <1>1
  <2> QED BY <2>1 DEF IsAdmitted
<1>3. \/ new = old
      \/ new = Append(old, t) /\ t \notin Range(reserved) /\ ~(Len(old) >= ReservoirSize)
  BY DEF Admit
<1> HIDE DEF new
<1>4. CASE new = old
  BY <1>2, <1>4 DEF IsAdmitted, new
<1>5. CASE new # old
  <2>1. new = Append(old, t) /\ t \notin Range(reserved) /\ ~(Len(old) >= ReservoirSize)
    BY <1>3, <1>5
  <2>2. t \notin Range(old)
    <3> SUFFICES ASSUME t \in Range(old) PROVE FALSE
      OBVIOUS
    <3>1. PICK j \in 1..(i - 1) : t = candidates[j]
      BY <2>1 DEF IsAdmitted
    <3>2. j \in DOMAIN candidates /\ i \in DOMAIN candidates /\ j # i
      BY <1>1
    <3> QED BY <3>1, <3>2 DEF Lists
  <2>3. Lists(new, Range(old) \cup {t})
    BY <1>1, <2>1, <2>2, FifoAppend DEF IsAdmitted
  <2>4. Range(new) = Range(old) \cup {t}
    BY <2>3 DEF Lists
  <2>5. Len(new) = Len(old) + 1 /\ Len(old) \in Nat /\ ReservoirSize \in Nat
    BY <1>1, <2>1, AppendProperties, RetentionAssumption
  <2>6. Len(new) <= ReservoirSize
    BY <2>1, <2>5
  <2>7. \A x \in Range(new) : x \in Range(reserved) \/ \E j \in 1..i : x = candidates[j]
    BY <1>1, <1>2, <2>4
  <2>8. Lists(new, Range(new))
    BY <2>3, <2>4
  <2> QED BY <2>4, <2>6, <2>7, <2>8 DEF IsAdmitted, new
<1> QED BY <1>4, <1>5

LEMMA AdmittedAlongARun ==
  ASSUME NEW S, NEW buckets, NEW candidates \in Seq(S), NEW held, Lists(candidates, held),
         NEW reserved, IsAdmitted(reserved, reserved, candidates, 0),
         NEW run, IsAdmitRun(run, buckets, candidates, reserved),
         \A i \in 0..Len(candidates) : run[i].admitted \in Seq(S)
  PROVE  IsAdmitted(run[Len(candidates)].admitted, reserved, candidates, Len(candidates))
<1> DEFINE n == Len(candidates)
           P == {i \in 0..n : IsAdmitted(run[i].admitted, reserved, candidates, i)}
<1>1. n \in Nat
  OBVIOUS
<1>3. \A i \in 1..n : i - 1 \in 0..n /\ i \in 0..n
                        /\ run[i] = Admit(buckets, reserved, run[i - 1], candidates[i])
  BY <1>1 DEF IsAdmitRun
<1>4. 0 \in P
  <2>1. run[0].admitted = reserved /\ 0 \in 0..n
    BY <1>1 DEF IsAdmitRun
  <2> QED BY <2>1
<1>5. ASSUME NEW i \in 1..n, i - 1 \in P PROVE i \in P
  <2>1. run[i - 1].admitted \in Seq(S)
    BY <1>3
  <2>2. IsAdmitted(run[i - 1].admitted, reserved, candidates, i - 1)
    BY <1>5
  <2>3. IsAdmitted(Admit(buckets, reserved, run[i - 1], candidates[i]).admitted, reserved,
                   candidates, i)
    BY <2>1, <2>2, AdmitKeeps
  <2> QED BY <1>3, <2>3
<1>6. 0..n \subseteq P
  <2> HIDE DEF P
  <2> QED BY <1>1, <1>4, <1>5, RunInduction
<1> QED BY <1>1, <1>6

-----------------------------------------------------------------------------
(* The reservoir *)

(* What a reservoir is made by: the run of either phase over the           *)
(* candidates.                                                             *)
IsMadeBy(reservoir, buckets, candidates, reserves) ==
  LET reserved == reserves[Len(candidates)] IN
  /\ IsReserveRun(reserves, buckets, candidates)
  /\ IsAdmitted(reservoir, reserved, candidates, Len(candidates))

LEMMA ReservoirIsMade ==
  ASSUME NEW buckets, NEW lines, NEW surprise, NEW S, NEW held,
         Candidates(buckets, Scores(buckets, lines, surprise)) \in Seq(S),
         Lists(Candidates(buckets, Scores(buckets, lines, surprise)), held)
  PROVE  LET candidates == Candidates(buckets, Scores(buckets, lines, surprise))
             reservoir == Reservoir(buckets, lines, surprise)
         IN  /\ reservoir \in Seq(S)
             /\ \E reserves \in [0..Len(candidates) -> Seq(S)] :
                  IsMadeBy(reservoir, buckets, candidates, reserves)
<1> DEFINE candidates == Candidates(buckets, Scores(buckets, lines, surprise))
           reservoir == Reservoir(buckets, lines, surprise)
           n == Len(candidates)
<1>1. candidates \in Seq(S) /\ n \in Nat /\ Lists(candidates, held)
  OBVIOUS
<1>2. reservoir = GeneralPhase(buckets, candidates, ReservePhase(buckets, candidates))
  BY DEF Reservoir
<1> HIDE DEF candidates, reservoir
<1>3. PICK reserves \in [0..n -> Seq(S)] :
        /\ IsReserveRun(reserves, buckets, candidates)
        /\ ReservePhase(buckets, candidates) = reserves[n]
  <2>1. candidates \in Seq(S)
    BY <1>1
  <2> QED BY ONLY <2>1, ReservePhaseIsARun
<1> DEFINE reserved == reserves[n]
<1>4. reserved \in Seq(S) /\ n \in 0..n
  BY <1>1, <1>3
<1>5. IsReserved(reserved, buckets, candidates, n)
  BY <1>1, <1>3, <1>4, ReservedAlongARun
<1>6. reservoir = GeneralPhase(buckets, candidates, reserved)
  BY <1>2, <1>3
<1> HIDE DEF reserved
<1>7. PICK run :
        /\ \A i \in 0..n : run[i].admitted \in Seq(S)
        /\ IsAdmitRun(run, buckets, candidates, reserved)
        /\ GeneralPhase(buckets, candidates, reserved) = run[n].admitted
  BY <1>1, <1>4, GeneralPhaseIsARun
<1>8. IsAdmitted(reserved, reserved, candidates, 0)
  BY <1>5 DEF IsReserved, IsAdmitted
<1>9. IsAdmitted(run[n].admitted, reserved, candidates, n)
  BY <1>1, <1>7, <1>8, AdmittedAlongARun
<1>10. reservoir \in Seq(S) /\ IsMadeBy(reservoir, buckets, candidates, reserves)
  BY <1>3, <1>4, <1>6, <1>7, <1>9 DEF IsMadeBy, reserved
<1> QED BY <1>10, <1>3 DEF candidates, reservoir

(* The reservoir lists salient templates below top_k, each once and no     *)
(* more of them than its size.                                             *)
LEMMA ReservoirIsListed ==
  ASSUME NEW buckets, AreBuckets(buckets), NEW lines, NEW surprise,
         NatOn(Scores(buckets, lines, surprise), DOMAIN buckets)
  PROVE  LET reservoir == Reservoir(buckets, lines, surprise) IN
         /\ reservoir \in Seq(DOMAIN buckets \ TopK(buckets))
         /\ Lists(reservoir, Range(reservoir))
         /\ Range(reservoir) \subseteq DOMAIN buckets \ TopK(buckets)
         /\ Len(reservoir) <= ReservoirSize
<1> DEFINE scores == Scores(buckets, lines, surprise)
           candidates == Candidates(buckets, scores)
           reservoir == Reservoir(buckets, lines, surprise)
           rest == DOMAIN buckets \ TopK(buckets)
<1>1. /\ candidates \in Seq(Below(buckets, scores))
      /\ Lists(candidates, IF ReservoirSize = 0 THEN {} ELSE Below(buckets, scores))
  BY CandidatesAreListed
<1>2. Below(buckets, scores) \subseteq rest
  BY DEF Below
<1>3. candidates \in Seq(rest)
  <2> HIDE DEF candidates, rest
  <2> QED BY <1>1, <1>2
<1>4. /\ reservoir \in Seq(rest)
      /\ \E reserves \in [0..Len(candidates) -> Seq(rest)] :
           IsMadeBy(reservoir, buckets, candidates, reserves)
  <2> HIDE DEF rest
  <2> QED BY <1>1, <1>3, ReservoirIsMade
<1> HIDE DEF reservoir, rest
<1>5. Lists(reservoir, Range(reservoir)) /\ Len(reservoir) <= ReservoirSize
  BY <1>4 DEF IsMadeBy, IsAdmitted
<1>6. Range(reservoir) \subseteq rest
  BY <1>4 DEF Range
<1> QED BY <1>4, <1>5, <1>6 DEF reservoir, rest

(* Every failure below top_k is a candidate, whatever its count.           *)
LEMMA FailuresAreCandidates ==
  ASSUME NEW buckets, AreBuckets(buckets), NEW lines, NEW surprise, NatOn(surprise, DOMAIN buckets),
         \A t \in DOMAIN buckets : buckets[t].echoed \in BOOLEAN,
         ReservoirSize > 0, NEW t \in DOMAIN buckets \ TopK(buckets), ErrorClass(buckets[t])
  PROVE  t \in Range(Candidates(buckets, Scores(buckets, lines, surprise)))
<1> DEFINE scores == Scores(buckets, lines, surprise)
<1>1. NatOn(scores, DOMAIN buckets) /\ scores[t] > 0
  BY ScoreOfABucket
<1>2. t \in Below(buckets, scores)
  BY <1>1 DEF Below
<1> HIDE DEF scores
<1>3. Lists(Candidates(buckets, scores), Below(buckets, scores))
  BY <1>1, CandidatesAreListed
<1> QED BY <1>2, <1>3 DEF Lists, scores

(* A failure that is passed over has a whole reserve of failures before it,*)
(* all of them kept: reserved failures enter first, in order of salience,  *)
(* and nothing is ever taken out.                                          *)
LEMMA PassedOverBehindAReserve ==
  ASSUME NEW buckets, AreBuckets(buckets), NEW lines, NEW surprise,
         NatOn(Scores(buckets, lines, surprise), DOMAIN buckets),
         NEW t \in Range(Candidates(buckets, Scores(buckets, lines, surprise))),
         ErrorClass(buckets[t]), t \notin Range(Reservoir(buckets, lines, surprise))
  PROVE  LET scores == Scores(buckets, lines, surprise)
             ahead == {u \in Range(Reservoir(buckets, lines, surprise))
                                \cap Range(Candidates(buckets, scores)) :
                         ErrorClass(buckets[u]) /\ scores[u] >= scores[t]}
         IN  /\ IsFiniteSet(ahead)
             /\ Cardinality(ahead) >= ErrorReserve \/ Cardinality(ahead) >= ReservoirSize
<1> DEFINE scores == Scores(buckets, lines, surprise)
           candidates == Candidates(buckets, scores)
           reservoir == Reservoir(buckets, lines, surprise)
           S == Below(buckets, scores)
           n == Len(candidates)
           held == IF ReservoirSize = 0 THEN {} ELSE S
           ahead == {u \in Range(reservoir) \cap Range(candidates) :
                       ErrorClass(buckets[u]) /\ scores[u] >= scores[t]}
<1>1. candidates \in Seq(S) /\ Lists(candidates, held)
  BY CandidatesAreListed
<1>2. \A i, j \in DOMAIN candidates : i < j => scores[candidates[i]] >= scores[candidates[j]]
  BY CandidatesAreListed
<1>3. PICK reserves \in [0..n -> Seq(S)] : IsMadeBy(reservoir, buckets, candidates, reserves)
  BY <1>1, ReservoirIsMade
<1>4. DOMAIN candidates = 1..n /\ n \in Nat
  BY <1>1
<1>5. PICK i \in 1..n : candidates[i] = t
  BY <1>4 DEF Range
<1> HIDE DEF scores, candidates, reservoir, S, held, ahead
<1>6. IsReserveRun(reserves, buckets, candidates)
  BY <1>3 DEF IsMadeBy
<1>7. Range(reserves[n]) \subseteq Range(reservoir) /\ Lists(reservoir, Range(reservoir))
  BY <1>3 DEF IsMadeBy, IsAdmitted
<1>8. /\ \A k \in 0..n : IsReserved(reserves[k], buckets, candidates, k)
      /\ \A k \in 0..n : Range(reserves[k]) \subseteq Range(reserves[n])
  BY <1>1, <1>6, ReservedAlongARun
<1> DEFINE before == reserves[i - 1]
<1>9. i - 1 \in 0..n /\ i \in 0..n /\ reserves[i] = Reserve(buckets, before, candidates[i])
  BY <1>4, <1>6 DEF IsReserveRun
<1>10. before \in Seq(S) /\ IsReserved(before, buckets, candidates, i - 1)
  BY <1>8, <1>9
<1>11. t \notin Range(reserves[i])
  <2>1. t \notin Range(reservoir)
    BY DEF reservoir
  <2>2. Range(reserves[i]) \subseteq Range(reserves[n])
    BY <1>8, <1>9
  <2> QED BY <1>7, <2>1, <2>2
<1>12. ~(Len(before) < ErrorReserve) \/ ~(Len(before) < ReservoirSize)
  <2> SUFFICES ASSUME Len(before) < ErrorReserve, Len(before) < ReservoirSize PROVE FALSE
    OBVIOUS
  <2>1. reserves[i] = Append(before, t)
    BY <1>5, <1>9 DEF Reserve
  <2>2. t \in Range(Append(before, t))
    <3>1. t \in S
      BY <1>1, <1>4, <1>5
    <3>2. LET m == Len(before) + 1 IN m \in DOMAIN Append(before, t) /\ Append(before, t)[m] = t
      BY <1>10, <3>1, AppendProperties
    <3> QED BY <3>2 DEF Range
  <2> QED BY <1>11, <2>1, <2>2
<1>13. Range(before) \subseteq ahead
  <2> SUFFICES ASSUME NEW u \in Range(before) PROVE u \in ahead
    OBVIOUS
  <2>1. PICK j \in 1..(i - 1) : u = candidates[j]
    BY <1>10 DEF IsReserved
  <2>2. ErrorClass(buckets[u])
    BY <1>10 DEF IsReserved
  <2>3. j \in DOMAIN candidates /\ i \in DOMAIN candidates /\ j < i
    BY <1>4
  <2>4. scores[u] >= scores[t]
    BY <1>2, <1>5, <2>1, <2>3
  <2>5. u \in Range(reservoir) /\ u \in Range(candidates)
    BY <1>7, <1>8, <1>9, <2>1, <2>3 DEF Range
  <2> QED BY <2>2, <2>4, <2>5 DEF ahead
<1>14. IsFiniteSet(ahead) /\ Len(before) <= Cardinality(ahead)
  <2>1. IsFiniteSet(Range(reservoir))
    BY <1>7 DEF Lists
  <2>2. ahead \subseteq Range(reservoir)
    BY DEF ahead
  <2>3. IsFiniteSet(ahead)
    BY <2>1, <2>2, FS_Subset
  <2>4. Cardinality(Range(before)) <= Cardinality(ahead)
    BY <1>13, <2>3, FS_Subset
  <2>5. Len(before) = Cardinality(Range(before))
    BY <1>10 DEF IsReserved, Lists
  <2> QED BY <2>3, <2>4, <2>5
<1>15. Len(before) \in Nat /\ Cardinality(ahead) \in Nat
  BY <1>10, <1>14, FS_CardinalityType
<1>16. Cardinality(ahead) >= ErrorReserve \/ Cardinality(ahead) >= ReservoirSize
  <2>1. ErrorReserve \in Nat /\ ReservoirSize \in Nat
    BY RetentionAssumption
  <2> QED BY <1>12, <1>14, <1>15, <2>1
<1> QED BY <1>14, <1>16 DEF ahead, reservoir, candidates, scores

-----------------------------------------------------------------------------
(* What a block of statistics accounts for *)

Mentioned(stats) ==
  SumFunction([t \in DOMAIN stats.top_k |-> stats.top_k[t].count])
  + SumFunction([i \in DOMAIN stats.reservoir |-> stats.reservoir[i].row.count])
  + stats.tail_count

MentionedTemplates(stats) ==
  Cardinality(DOMAIN stats.top_k) + Len(stats.reservoir) + stats.tail_unique

(* A finite set and a part of it.                                          *)
LEMMA PartCount ==
  ASSUME NEW S, IsFiniteSet(S), NEW T \in SUBSET S
  PROVE  Cardinality(S) = Cardinality(T) + Cardinality(S \ T)
<1>1. IsFiniteSet(T) /\ IsFiniteSet(S \ T) /\ T \cup (S \ T) = S /\ T \cap (S \ T) = {}
  BY FS_Subset
<1>2. Cardinality(T) \in Nat /\ Cardinality(S \ T) \in Nat /\ Cardinality({}) = 0
  BY <1>1, FS_CardinalityType, FS_EmptySet
<1> QED BY <1>1, <1>2, FS_Union

(* The retained templates and the tail share out all the templates and all *)
(* the lines, whatever the bounds.                                         *)
LEMMA StatsShareOutTheWindow ==
  ASSUME NEW buckets, AreBuckets(buckets), NEW lines, NEW surprise, NatOn(surprise, DOMAIN buckets),
         \A t \in DOMAIN buckets : buckets[t].echoed \in BOOLEAN
  PROVE  LET stats == StatsBlock(buckets, lines, surprise) IN
         /\ Mentioned(stats) = SumFunction([t \in DOMAIN buckets |-> buckets[t].count])
         /\ MentionedTemplates(stats) = Cardinality(DOMAIN buckets)
<1> DEFINE stats == StatsBlock(buckets, lines, surprise)
           D == DOMAIN buckets
           counts == [t \in D |-> buckets[t].count]
           top == TopK(buckets)
           reservoir == Reservoir(buckets, lines, surprise)
           named == Range(reservoir)
           tail == D \ (top \cup named)
<1>1. NatOn(Scores(buckets, lines, surprise), D)
  BY ScoreOfABucket
<1>2. Lists(reservoir, named) /\ named \subseteq D \ top /\ reservoir \in Seq(D \ top)
  BY <1>1, ReservoirIsListed
<1>3. top \in SUBSET D
  BY TopKCount
<1>4. IsFiniteSet(D) /\ IsFiniteSet(top) /\ IsFiniteSet(named) /\ IsFiniteSet(tail) /\ IsFiniteSet(D \ top)
  BY <1>2, <1>3, FS_Subset DEF AreBuckets
<1>5. NatOn(counts, D) /\ NatOn(counts, named) /\ NatOn(counts, tail) /\ NatOn(counts, top) /\ NatOn(counts, D \ top)
  BY <1>2, <1>3 DEF NatOn, AreBuckets
<1>6. /\ stats.top_k = [t \in top |-> RowOf(buckets[t])]
      /\ stats.reservoir = [i \in DOMAIN reservoir |->
                              ReservoirEntry(reservoir[i], buckets[reservoir[i]], lines,
                                             surprise[reservoir[i]])]
      /\ stats.tail_count = CountOf(buckets, tail)
      /\ stats.tail_unique = Cardinality(tail)
  BY DEF StatsBlock, StatsOf
<1> HIDE DEF stats, top, reservoir
<1>7. SumFunction([t \in DOMAIN stats.top_k |-> stats.top_k[t].count]) = SumFunctionOnSet(counts, top)
  <2> DEFINE f == [t \in DOMAIN stats.top_k |-> stats.top_k[t].count]
  <2>1. DOMAIN f = top /\ \A t \in top : f[t] = counts[t]
    BY <1>3, <1>6 DEF RowOf
  <2> HIDE DEF f, counts
  <2>2. AgreeOn(f, counts, top)
    BY <2>1 DEF AgreeOn
  <2> QED BY <1>4, <2>1, <2>2, SumSame DEF SumFunction, f
<1>8. SumFunction([i \in DOMAIN stats.reservoir |-> stats.reservoir[i].row.count])
        = SumFunctionOnSet(counts, named)
  <2> DEFINE f == [i \in DOMAIN stats.reservoir |-> stats.reservoir[i].row.count]
  <2>1. DOMAIN f = DOMAIN reservoir
    BY <1>6
  <2>2. \A i \in DOMAIN reservoir : reservoir[i] \in D
    BY <1>2
  <2>3. \A i \in DOMAIN reservoir : f[i] = counts[reservoir[i]]
    BY <1>6, <2>2 DEF RowOf, ReservoirEntry
  <2> HIDE DEF f, counts, named
  <2>4. SumFunction(f) = SumFunctionOnSet(counts, named)
    BY <1>2, <1>5, <2>1, <2>3, SumAlongAList
  <2> QED BY <2>4 DEF f
<1>9. stats.tail_count = SumFunctionOnSet(counts, tail)
  <2> DEFINE f == [t \in tail |-> buckets[t].count]
  <2>1. stats.tail_count = SumFunctionOnSet(f, tail)
    BY <1>6 DEF CountOf, SumFunction
  <2>2. AgreeOn(f, counts, tail)
    BY DEF AgreeOn
  <2> HIDE DEF f, counts, tail
  <2> QED BY <1>4, <2>1, <2>2, SumSame
<1>10. (D \ top) \ named = tail
  OBVIOUS
<1>11. SumFunction(counts) = SumFunctionOnSet(counts, D)
  BY DEF SumFunction
<1> HIDE DEF counts, named, tail
<1>12. SumFunctionOnSet(counts, D) = SumFunctionOnSet(counts, top) + SumFunctionOnSet(counts, D \ top)
  BY <1>3, <1>4, <1>5, SumOfPart
<1>13. SumFunctionOnSet(counts, D \ top) = SumFunctionOnSet(counts, named) + SumFunctionOnSet(counts, tail)
  BY <1>2, <1>4, <1>5, <1>10, SumOfPart
<1>14. /\ SumFunctionOnSet(counts, top) \in Nat
       /\ SumFunctionOnSet(counts, named) \in Nat
       /\ SumFunctionOnSet(counts, tail) \in Nat
  BY <1>4, <1>5, SumIsNat DEF NatOn
<1>15. Mentioned(stats) = SumFunction(counts)
  BY <1>7, <1>8, <1>9, <1>11, <1>12, <1>13, <1>14 DEF Mentioned
<1>16. DOMAIN stats.top_k = top /\ Len(stats.reservoir) = Cardinality(named)
  <2>1. Len(reservoir) = Cardinality(named) /\ Len(reservoir) \in Nat /\ DOMAIN reservoir = 1..Len(reservoir)
    BY <1>2 DEF Lists
  <2>2. Len(stats.reservoir) = Len(reservoir)
    BY <1>6, <2>1
  <2> QED BY <1>6, <2>1, <2>2
<1>17. Cardinality(D) = Cardinality(top) + Cardinality(D \ top)
  BY <1>3, <1>4, PartCount
<1>18. Cardinality(D \ top) = Cardinality(named) + Cardinality(tail)
  BY <1>2, <1>4, <1>10, PartCount
<1>19. Cardinality(top) \in Nat /\ Cardinality(named) \in Nat /\ Cardinality(tail) \in Nat
  BY <1>4, FS_CardinalityType
<1>20. MentionedTemplates(stats) = Cardinality(D)
  BY <1>6, <1>16, <1>17, <1>18, <1>19 DEF MentionedTemplates
<1> QED BY <1>15, <1>20 DEF stats, counts

(* Every row is of a template of the window, with the count of its bucket. *)
LEMMA RowsAreOfBuckets ==
  ASSUME NEW buckets, AreBuckets(buckets), NEW lines, NEW surprise, NatOn(surprise, DOMAIN buckets),
         \A t \in DOMAIN buckets : buckets[t].echoed \in BOOLEAN
  PROVE  LET stats == StatsBlock(buckets, lines, surprise) IN
         /\ \A t \in DOMAIN stats.top_k :
              t \in DOMAIN buckets /\ stats.top_k[t].count = buckets[t].count
         /\ \A i \in DOMAIN stats.reservoir :
              LET entry == stats.reservoir[i] IN
              entry.id \in DOMAIN buckets /\ entry.row.count = buckets[entry.id].count
<1> DEFINE stats == StatsBlock(buckets, lines, surprise)
           top == TopK(buckets)
           reservoir == Reservoir(buckets, lines, surprise)
<1>1. NatOn(Scores(buckets, lines, surprise), DOMAIN buckets)
  BY ScoreOfABucket
<1>2. reservoir \in Seq(DOMAIN buckets \ top) /\ top \in SUBSET DOMAIN buckets
  BY <1>1, ReservoirIsListed, TopKCount
<1>3. /\ stats.top_k = [t \in top |-> RowOf(buckets[t])]
      /\ stats.reservoir = [i \in DOMAIN reservoir |->
                              ReservoirEntry(reservoir[i], buckets[reservoir[i]], lines,
                                             surprise[reservoir[i]])]
  BY DEF StatsBlock, StatsOf
<1> HIDE DEF stats, top, reservoir
<1>4. ASSUME NEW t \in DOMAIN stats.top_k
      PROVE  t \in DOMAIN buckets /\ stats.top_k[t].count = buckets[t].count
  BY <1>2, <1>3 DEF RowOf
<1>5. ASSUME NEW i \in DOMAIN stats.reservoir
      PROVE  /\ stats.reservoir[i].id \in DOMAIN buckets
             /\ stats.reservoir[i].row.count = buckets[stats.reservoir[i].id].count
  <2>1. i \in DOMAIN reservoir /\ reservoir[i] \in DOMAIN buckets
    BY <1>2, <1>3
  <2> QED BY <1>3, <2>1 DEF ReservoirEntry, RowOf
<1> QED BY <1>4, <1>5 DEF stats

-----------------------------------------------------------------------------
(* The transition graph *)

(* A transition graph, and an order that walks all of it.                  *)
IsGraph(g) ==
  /\ IsFiniteSet(DOMAIN g)
  /\ DOMAIN g \subseteq Nat \X Nat
  /\ \A e \in DOMAIN g : g[e] \in Nat \ {0}

Walks(order, g) ==
  /\ order \in Seq(DOMAIN g)
  /\ \A e \in DOMAIN g : \E i \in 1..Len(order) : order[i] = e

(* The n-grams of a table, as far as its graph reads them.                 *)
AreGrams(table) ==
  /\ IsFiniteSet(DOMAIN table)
  /\ \A gram \in DOMAIN table : gram[1] \in Nat /\ gram[2] \in Nat /\ table[gram] \in Nat \ {0}

(* The edges of a table of n-grams are a graph.                            *)
LEMMA TransitionsAreAGraph ==
  ASSUME NEW table, AreGrams(table)
  PROVE  IsGraph(Transitions(table)) /\ DOMAIN Transitions(table) = Edges(table)
<1> DEFINE D == DOMAIN table
           edge == [gram \in D |-> <<gram[1], gram[2]>>]
           Into(e) == {gram \in D : <<gram[1], gram[2]>> = e}
<1>1. \A gram \in D : gram[1] \in Nat /\ gram[2] \in Nat
  BY DEF AreGrams
<1>2. Edges(table) = {edge[gram] : gram \in D} /\ Edges(table) \subseteq Nat \X Nat
  BY <1>1 DEF Edges
<1>3. IsFiniteSet(Edges(table))
  <2>1. IsFiniteSet(D)
    BY DEF AreGrams
  <2> HIDE DEF edge, D
  <2> QED BY <1>2, <2>1, ImageCount
<1>4. ASSUME NEW e \in Edges(table) PROVE SumFunctionOnSet(table, Into(e)) \in Nat \ {0}
  <2>1. PICK gram \in D : <<gram[1], gram[2]>> = e
    BY <1>4 DEF Edges
  <2>2. gram \in Into(e) /\ IsFiniteSet(Into(e)) /\ \A x \in Into(e) : table[x] \in Nat \ {0}
    BY <2>1, FS_Subset DEF AreGrams
  <2> HIDE DEF Into
  <2>3. SumFunctionOnSet(table, Into(e)) = table[gram] + SumFunctionOnSet(table, Into(e) \ {gram})
    BY <2>2, SumRemove
  <2>4. IsFiniteSet(Into(e) \ {gram}) /\ \A x \in Into(e) \ {gram} : table[x] \in Nat
    BY <2>2, FS_Subset
  <2>5. SumFunctionOnSet(table, Into(e) \ {gram}) \in Nat
    BY <2>4, SumIsNat
  <2>6. table[gram] \in Nat \ {0}
    BY <2>2
  <2> QED BY <2>3, <2>5, <2>6
<1>5. DOMAIN Transitions(table) = Edges(table)
      /\ \A e \in Edges(table) : Transitions(table)[e] = SumFunctionOnSet(table, Into(e))
  BY DEF Transitions
<1>6. \A e \in Edges(table) : Transitions(table)[e] \in Nat \ {0}
  <2> HIDE DEF Into
  <2> QED BY <1>4, <1>5
<1> QED BY ONLY <1>2, <1>3, <1>5, <1>6 DEF IsGraph

LEMMA EveryOrderWalks ==
  ASSUME NEW g, IsGraph(g)
  PROVE  (\A order \in SetToSeqs(DOMAIN g) : Walks(order, g)) /\ Walks(AnyOrder(g), g)
<1>1. IsFiniteSet(DOMAIN g)
  BY DEF IsGraph
<1>2. \A order \in SetToSeqs(DOMAIN g) : Walks(order, g)
  BY <1>1, OrdersCover DEF Walks
<1>3. AnyOrder(g) \in SetToSeqs(DOMAIN g)
  BY <1>1, SetToSeqIsAnOrder DEF AnyOrder
<1> QED BY <1>2, <1>3

-----------------------------------------------------------------------------
(* The heaviest edge of a row *)

Hops == [to : Nat, count : Nat]

Nowhere == [to |-> 0, count |-> 0]

TakeFrom(g, from, best, e) ==
  IF e[1] = from /\ (g[e] > best.count \/ (g[e] = best.count /\ e[2] < best.to))
  THEN [to |-> e[2], count |-> g[e]] ELSE best

(* A hop no worse than the edge to node to of this count. *)
NoWorse(to, count, hop) == count < hop.count \/ (count = hop.count /\ hop.to <= to)

LEMMA TakeFromDoes ==
  ASSUME NEW g, IsGraph(g), NEW from, NEW best \in Hops, NEW e \in DOMAIN g
  PROVE  LET new == TakeFrom(g, from, best, e) IN
         /\ new \in Hops
         /\ new = best \/ (e[1] = from /\ new = [to |-> e[2], count |-> g[e]])
         /\ NoWorse(best.to, best.count, new)
         /\ e[1] = from => NoWorse(e[2], g[e], new)
<1>1. g[e] \in Nat /\ e[2] \in Nat /\ best.count \in Nat /\ best.to \in Nat
  BY DEF IsGraph, Hops
<1> QED BY <1>1 DEF TakeFrom, NoWorse, Hops

LEMMA HeaviestIsARun ==
  ASSUME NEW g, IsGraph(g), NEW from, NEW order, Walks(order, g)
  PROVE  \E run \in [0..Len(order) -> Hops] :
           /\ run[0] = Nowhere
           /\ \A i \in 1..Len(order) : run[i] = TakeFrom(g, from, run[i - 1], order[i])
           /\ HeaviestFrom(g, from, order) = run[Len(order)]
<1> DEFINE n == Len(order)
           D == DOMAIN order
           Step(it, s) == IF s = {} THEN Nowhere
                          ELSE TakeFrom(g, from, it[s \ {Max(s)}], order[Max(s)])
           IsIter(it) == it = [s \in SUBSET D |-> Step(it, s)]
           iter == CHOOSE it : IsIter(it)
           step == [p \in Hops \X (1..n) |-> TakeFrom(g, from, p[1], order[p[2]])]
<1>1. D = 1..n /\ n \in Nat /\ \A i \in 1..n : order[i] \in DOMAIN g
  BY DEF Walks
<1>2. HeaviestFrom(g, from, order) = iter[D]
  BY Zenon DEF HeaviestFrom, FoldLeft, MapThenFoldSet, TakeFrom, Nowhere
<1> HIDE DEF D, n
<1>b. Nowhere \in Hops
  BY DEF Nowhere, Hops
<1>3. step \in [Hops \X (1..n) -> Hops]
  <2>1. ASSUME NEW p \in Hops \X (1..n) PROVE TakeFrom(g, from, p[1], order[p[2]]) \in Hops
    BY <1>1, TakeFromDoes
  <2> QED BY <2>1
<1> HIDE DEF step
<1>4. PICK it \in [SUBSET (1..n) -> Hops] : IsFold(it, step, Nowhere, n)
  BY <1>1, <1>3, <1>b, FoldExists
<1>5. IsIter(it)
  <2>1. ASSUME NEW s \in SUBSET (1..n) PROVE it[s] = Step(it, s)
    <3>1. s # {} => Max(s) \in 1..n
      BY <1>1, MaxOfPart
    <3>2. it[s \ {Max(s)}] \in Hops
      BY <1>4
    <3>3. it[s] = IF s = {} THEN Nowhere ELSE step[<<it[s \ {Max(s)}], Max(s)>>]
      BY <1>4 DEF IsFold
    <3> QED BY <3>1, <3>2, <3>3 DEF step
  <2> QED BY <1>1, <1>4, <2>1
<1>6. IsIter(iter)
  BY <1>5
<1> HIDE DEF iter
<1>7. iter[{}] = Nowhere
  BY <1>6
<1>8. ASSUME NEW s \in SUBSET (1..n), s # {}, iter[s \ {Max(s)}] \in Hops
      PROVE  iter[s] = step[<<iter[s \ {Max(s)}], Max(s)>>]
  <2>1. Max(s) \in 1..n
    BY <1>1, <1>8, MaxOfPart
  <2>2. iter[s] = Step(iter, s)
    BY <1>1, <1>6
  <2> QED BY <1>8, <2>1, <2>2 DEF step
<1> HIDE DEF Step, IsIter
<1>n. n \in Nat
  BY <1>1
<1>s. StepsBy(iter, step, n, Hops)
  BY <1>8 DEF StepsBy
<1>9. PICK run \in [0..n -> Hops] : IsStepRun(run, step, Nowhere, n) /\ run[n] = iter[1..n]
  BY ONLY <1>n, <1>3, <1>7, <1>s, <1>b, StepsAreARun
<1>10. ASSUME NEW i \in 1..n PROVE run[i] = TakeFrom(g, from, run[i - 1], order[i])
  <2>1. i - 1 \in 0..n
    BY <1>n
  <2> QED BY <1>9, <2>1 DEF IsStepRun, step
<1> QED BY <1>1, <1>2, <1>9, <1>10 DEF n, IsStepRun

(* What the search finds, said without the order.                          *)
IsHeaviest(g, from, hop) ==
  /\ hop \in Hops
  /\ hop = Nowhere \/ \E e \in Leaving(g, from) : hop = [to |-> e[2], count |-> g[e]]
  /\ \A e \in Leaving(g, from) : NoWorse(e[2], g[e], hop)

LEMMA HeaviestIsHeaviest ==
  ASSUME NEW g, IsGraph(g), NEW from, NEW order, Walks(order, g)
  PROVE  IsHeaviest(g, from, HeaviestFrom(g, from, order))
<1> DEFINE n == Len(order)
           Hop(e) == [to |-> e[2], count |-> g[e]]
<1>1. n \in Nat /\ \A i \in 1..n : order[i] \in DOMAIN g
  BY DEF Walks
<1>2. PICK run \in [0..n -> Hops] :
        /\ run[0] = Nowhere
        /\ \A i \in 1..n : run[i] = TakeFrom(g, from, run[i - 1], order[i])
        /\ HeaviestFrom(g, from, order) = run[n]
  BY HeaviestIsARun
<1> HIDE DEF n, Hop
<1> DEFINE Found(i) == run[i] = Nowhere \/ \E j \in 1..i : order[j][1] = from /\ run[i] = Hop(order[j])
           Beaten(i) == \A j \in 1..i : order[j][1] = from => NoWorse(order[j][2], g[order[j]], run[i])
           P == {i \in 0..n : Found(i) /\ Beaten(i)}
<1>3. 0 \in P
  BY <1>1, <1>2
<1>4. ASSUME NEW i \in 1..n, i - 1 \in P PROVE i \in P
  <2> DEFINE old == run[i - 1]
             new == run[i]
             e == order[i]
  <2>1. i - 1 \in 0..n /\ i \in 0..n /\ i \in Nat /\ old \in Hops /\ new \in Hops
    BY <1>1, <1>2
  <2>2. e \in DOMAIN g /\ new = TakeFrom(g, from, old, e)
    BY <1>1, <1>2
  <2>3. /\ new = old \/ (e[1] = from /\ new = Hop(e))
        /\ NoWorse(old.to, old.count, new)
        /\ e[1] = from => NoWorse(e[2], g[e], new)
    BY <2>1, <2>2, TakeFromDoes DEF Hop
  <2>4. Found(i - 1) /\ Beaten(i - 1)
    BY <1>4
  <2>5. Found(i)
    <3>1. CASE new = old
      BY <2>1, <2>4, <3>1
    <3>2. CASE e[1] = from /\ new = Hop(e)
      BY <2>1, <3>2
    <3> QED BY <2>3, <3>1, <3>2
  <2>6. Beaten(i)
    <3> SUFFICES ASSUME NEW j \in 1..i, order[j][1] = from PROVE NoWorse(order[j][2], g[order[j]], new)
      OBVIOUS
    <3>1. CASE j = i
      BY <2>3, <3>1
    <3>2. CASE j # i
      <4>1. j \in 1..(i - 1) /\ j \in 1..n
        BY <1>1, <2>1, <3>2
      <4>2. NoWorse(order[j][2], g[order[j]], old)
        BY <2>4, <4>1
      <4>3. g[order[j]] \in Nat /\ order[j][2] \in Nat
        BY <1>1, <4>1 DEF IsGraph
      <4>4. old.to \in Nat /\ old.count \in Nat /\ new.to \in Nat /\ new.count \in Nat
        BY <2>1 DEF Hops
      <4> QED BY <2>3, <4>2, <4>3, <4>4 DEF NoWorse
    <3> QED BY <3>1, <3>2
  <2> QED BY <2>1, <2>5, <2>6
<1>5. n \in P
  <2>1. 0..n \subseteq P
    <3> HIDE DEF P
    <3> QED BY <1>1, <1>3, <1>4, RunInduction
  <2> QED BY <1>1, <2>1
<1>6. run[n] \in Hops
  BY <1>1
<1>7. run[n] = Nowhere \/ \E e \in Leaving(g, from) : run[n] = Hop(e)
  BY <1>1, <1>5 DEF Leaving
<1>8. ASSUME NEW e \in Leaving(g, from) PROVE NoWorse(e[2], g[e], run[n])
  <2>1. e \in DOMAIN g /\ e[1] = from
    BY DEF Leaving
  <2>2. PICK j \in 1..n : order[j] = e
    BY <2>1 DEF Walks, n
  <2> QED BY <1>5, <2>1, <2>2
<1> QED BY <1>2, <1>6, <1>7, <1>8 DEF IsHeaviest, Hop

(* Where something leaves, the hop is an edge none of its row outweighs.   *)
LEMMA HopIsAnEdge ==
  ASSUME NEW g, IsGraph(g), NEW from, NEW hop, IsHeaviest(g, from, hop), Leaving(g, from) # {}
  PROVE  /\ hop.to \in Nat
         /\ <<from, hop.to>> \in Leaving(g, from)
         /\ g[<<from, hop.to>>] = hop.count
         /\ \A e \in Leaving(g, from) : g[e] <= hop.count
<1>1. \A e \in Leaving(g, from) : e = <<from, e[2]>> /\ g[e] \in Nat \ {0} /\ e[2] \in Nat
  BY DEF Leaving, IsGraph
<1>2. PICK x : x \in Leaving(g, from)
  OBVIOUS
<1>3. hop # Nowhere
  BY <1>1, <1>2 DEF IsHeaviest, NoWorse, Nowhere
<1>4. PICK e \in Leaving(g, from) : hop = [to |-> e[2], count |-> g[e]]
  BY <1>3 DEF IsHeaviest
<1>5. hop.to = e[2] /\ hop.count = g[e] /\ e = <<from, hop.to>>
  BY <1>1, <1>4
<1>6. \A y \in Leaving(g, from) : g[y] <= hop.count
  BY <1>1, <1>5 DEF IsHeaviest, NoWorse
<1> QED BY <1>1, <1>5, <1>6

(* It says where to: two such lead to the same node.                       *)
LEMMA HeaviestIsOne ==
  ASSUME NEW g, IsGraph(g), NEW from, NEW a, NEW b, IsHeaviest(g, from, a), IsHeaviest(g, from, b)
  PROVE  a.to = b.to
<1>1. CASE Leaving(g, from) = {}
  BY <1>1 DEF IsHeaviest
<1>2. CASE Leaving(g, from) # {}
  <2>1. /\ a.to \in Nat /\ b.to \in Nat
        /\ <<from, a.to>> \in Leaving(g, from) /\ g[<<from, a.to>>] = a.count
        /\ <<from, b.to>> \in Leaving(g, from) /\ g[<<from, b.to>>] = b.count
    BY <1>2, HopIsAnEdge
  <2>2. NoWorse(a.to, a.count, b)
    <3>1. NoWorse(<<from, a.to>>[2], g[<<from, a.to>>], b)
      BY <2>1 DEF IsHeaviest
    <3> QED BY <2>1, <3>1
  <2>3. NoWorse(b.to, b.count, a)
    <3>1. NoWorse(<<from, b.to>>[2], g[<<from, b.to>>], a)
      BY <2>1 DEF IsHeaviest
    <3> QED BY <2>1, <3>1
  <2>4. a.count \in Nat /\ b.count \in Nat
    BY DEF IsHeaviest, Hops
  <2> QED BY <2>1, <2>2, <2>3, <2>4 DEF NoWorse
<1> QED BY <1>1, <1>2

-----------------------------------------------------------------------------
(* The dominant path *)

Paths == Seq(Nat) \ {<< >>}

LEMMA LastIsNat ==
  ASSUME NEW path \in Paths
  PROVE  Last(path) = path[Len(path)] /\ Last(path) \in Nat /\ Len(path) \in Nat \ {0}
BY DEF Paths, Last

(* A step leaves the path as it is, or goes on to the next hop.            *)
LEMMA PathStepDoes ==
  ASSUME NEW g, IsGraph(g), NEW order, Walks(order, g), NEW path \in Paths
  PROVE  LET next == NextHop(g, Last(path), order)
             new == PathStep(g, path, order)
         IN  /\ new \in Paths
             /\ \/ new = path /\ (Leaving(g, Last(path)) = {} \/ next \in Range(path))
                \/ /\ new = Append(path, next)
                   /\ Leaving(g, Last(path)) # {}
                   /\ next \notin Range(path)
<1> DEFINE next == NextHop(g, Last(path), order)
<1>1. next \in Nat
  BY HeaviestIsHeaviest DEF NextHop, IsHeaviest, Hops
<1>2. PathStep(g, path, order) =
        IF Leaving(g, Last(path)) = {} \/ next \in Range(path) THEN path ELSE Append(path, next)
  BY DEF PathStep
<1>3. Append(path, next) \in Paths
  <2>1. path \in Seq(Nat)
    BY DEF Paths
  <2>2. Append(path, next) \in Seq(Nat) /\ Len(Append(path, next)) = Len(path) + 1
    BY <1>1, <2>1, AppendProperties
  <2>3. Len(path) \in Nat
    BY LastIsNat
  <2>4. Len(Append(path, next)) # 0
    BY <2>2, <2>3
  <2> QED BY <2>2, <2>4 DEF Paths
<1> HIDE DEF next
<1>4. CASE Leaving(g, Last(path)) = {} \/ next \in Range(path)
  BY <1>2, <1>4 DEF next
<1>5. CASE ~(Leaving(g, Last(path)) = {} \/ next \in Range(path))
  BY <1>2, <1>3, <1>5 DEF next
<1> QED BY <1>4, <1>5

(* The counts name a template to start from. *)
Start(c) == <<Busiest(c)>>

StartsIn(c) == DOMAIN c # {} /\ Busiest(c) \in Nat

(* The path is a run of such steps.                                        *)
LEMMA PathIsARun ==
  ASSUME NEW g, IsGraph(g), NEW order, Walks(order, g), NEW c, StartsIn(c),
         DominantPathMaxSteps # 0
  PROVE  \E run \in [0..DominantPathMaxSteps -> Paths] :
           /\ run[0] = Start(c)
           /\ \A i \in 1..DominantPathMaxSteps : run[i] = PathStep(g, run[i - 1], order)
           /\ PathInOrder(g, c, order) = run[DominantPathMaxSteps]
<1> DEFINE n == DominantPathMaxSteps
           steps == [i \in 1..n |-> i]
           D == DOMAIN steps
           Step(it, s) == IF s = {} THEN Start(c) ELSE PathStep(g, it[s \ {Max(s)}], order)
           IsIter(it) == it = [s \in SUBSET D |-> Step(it, s)]
           iter == CHOOSE it : IsIter(it)
           step == [p \in Paths \X (1..n) |-> PathStep(g, p[1], order)]
<1>1. D = 1..n /\ n \in Nat
  BY BehaviorAssumption
<1>2. PathInOrder(g, c, order) = iter[D]
  <2>1. PathInOrder(g, c, order) =
          FoldLeft(LAMBDA path, i : PathStep(g, path, order), Start(c), steps)
    BY DEF PathInOrder, StartsIn, Start
  <2> HIDE DEF steps
  <2> QED BY <2>1, Zenon DEF FoldLeft, MapThenFoldSet
<1> HIDE DEF D, n, steps
<1>b. Start(c) \in Paths
  <2>1. Start(c) \in Seq(Nat) /\ Start(c) # << >>
    BY DEF StartsIn, Start
  <2> QED BY <2>1 DEF Paths
<1>3. step \in [Paths \X (1..n) -> Paths]
  <2>1. ASSUME NEW p \in Paths \X (1..n) PROVE PathStep(g, p[1], order) \in Paths
    BY PathStepDoes
  <2> QED BY <2>1
<1> HIDE DEF step
<1>4. PICK it \in [SUBSET (1..n) -> Paths] : IsFold(it, step, Start(c), n)
  BY <1>1, <1>3, <1>b, FoldExists
<1>5. IsIter(it)
  <2>1. ASSUME NEW s \in SUBSET (1..n) PROVE it[s] = Step(it, s)
    <3>1. s # {} => Max(s) \in 1..n
      BY <1>1, MaxOfPart
    <3>2. it[s \ {Max(s)}] \in Paths
      BY <1>4
    <3>3. it[s] = IF s = {} THEN Start(c) ELSE step[<<it[s \ {Max(s)}], Max(s)>>]
      BY <1>4 DEF IsFold
    <3> QED BY <3>1, <3>2, <3>3 DEF step
  <2> QED BY <1>1, <1>4, <2>1
<1>6. IsIter(iter)
  BY <1>5
<1> HIDE DEF iter
<1>7. iter[{}] = Start(c)
  BY <1>6
<1>8. ASSUME NEW s \in SUBSET (1..n), s # {}, iter[s \ {Max(s)}] \in Paths
      PROVE  iter[s] = step[<<iter[s \ {Max(s)}], Max(s)>>]
  <2>1. Max(s) \in 1..n
    BY <1>1, <1>8, MaxOfPart
  <2>2. iter[s] = Step(iter, s)
    BY <1>1, <1>6
  <2> QED BY <1>8, <2>1, <2>2 DEF step
<1> HIDE DEF Step, IsIter
<1>n. n \in Nat
  BY <1>1
<1>s. StepsBy(iter, step, n, Paths)
  BY <1>8 DEF StepsBy
<1>9. PICK run \in [0..n -> Paths] : IsStepRun(run, step, Start(c), n) /\ run[n] = iter[1..n]
  BY ONLY <1>n, <1>3, <1>7, <1>s, <1>b, StepsAreARun
<1>10. ASSUME NEW i \in 1..n PROVE run[i] = PathStep(g, run[i - 1], order)
  <2>1. i - 1 \in 0..n
    BY <1>n
  <2> QED BY <1>9, <2>1 DEF IsStepRun, step
<1> QED BY <1>1, <1>2, <1>9, <1>10 DEF n, IsStepRun, Start

(* The counts of the buckets, some of which there are.                     *)
IsCounts(c) ==
  /\ IsFiniteSet(DOMAIN c)
  /\ DOMAIN c \subseteq Nat
  /\ \E k : k \in DOMAIN c
  /\ \A k \in DOMAIN c : c[k] \in Nat

Busier(c, k, j) == c[j] < c[k] \/ (c[j] = c[k] /\ k <= j)

LEMMA BusiestIsBusiest ==
  ASSUME NEW c, IsCounts(c)
  PROVE  Busiest(c) \in DOMAIN c /\ \A j \in DOMAIN c : c[j] <= c[Busiest(c)]
<1> DEFINE S == DOMAIN c
           Led == {T \in SUBSET S : (\E k : k \in T) => \E k \in T : \A j \in T : Busier(c, k, j)}
<1>1. IsFiniteSet(S) /\ \A k \in S : k \in Nat /\ c[k] \in Nat
  BY DEF IsCounts
<1> HIDE DEF S
<1>2. {} \in Led
  OBVIOUS
<1>3. \A T \in SUBSET S : \A x \in S \ T : T \in Led => T \cup {x} \in Led
  <2> SUFFICES ASSUME NEW T \in SUBSET S, NEW x \in S \ T, T \in Led
               PROVE  \E k \in T \cup {x} : \A j \in T \cup {x} : Busier(c, k, j)
    OBVIOUS
  <2>1. CASE \E k : k \in T
    <3>1. PICK k \in T : \A j \in T : Busier(c, k, j)
      BY <2>1
    <3>2. CASE Busier(c, k, x)
      <4>1. \A j \in T \cup {x} : Busier(c, k, j)
        BY <3>1, <3>2
      <4> QED BY <4>1
    <3>3. CASE ~Busier(c, k, x)
      <4>1. \A j \in T \cup {x} : Busier(c, x, j)
        BY <1>1, <3>1, <3>3 DEF Busier
      <4> QED BY <4>1
    <3> QED BY <3>2, <3>3
  <2>2. CASE ~\E k : k \in T
    <3>1. \A j \in T \cup {x} : Busier(c, x, j)
      BY <1>1, <2>2 DEF Busier
    <3> QED BY <3>1
  <2> QED BY <2>1, <2>2
<1>4. S \in Led
  <2> HIDE DEF Led
  <2> QED BY <1>1, <1>2, <1>3, SubsetInduction
<1>5. PICK k \in S : \A j \in S : Busier(c, k, j)
  BY <1>4 DEF S, IsCounts
<1>6. Busiest(c) = CHOOSE m \in S : \A j \in S : Busier(c, m, j)
  BY DEF Busiest, Busier, S
<1>7. Busiest(c) \in S /\ \A j \in S : Busier(c, Busiest(c), j)
  BY <1>5, <1>6
<1> QED BY <1>1, <1>7 DEF Busier, S

(* A path that leaves every template it visits by the heaviest edge, and   *)
(* visits none twice.                                                      *)
IsGreedy(g, c, path) ==
  /\ path \in Paths
  /\ path[1] = Busiest(c)
  /\ \A i, j \in 1..Len(path) : path[i] = path[j] => i = j
  /\ \A i \in 1..(Len(path) - 1) :
       /\ <<path[i], path[i + 1]>> \in DOMAIN g
       /\ \A e \in Leaving(g, path[i]) : g[e] <= g[<<path[i], path[i + 1]>>]

(* A path that a further step would leave as it is.                        *)
Halted(g, order, path) ==
  Leaving(g, Last(path)) = {} \/ NextHop(g, Last(path), order) \in Range(path)

LEMMA PathStepIsGreedy ==
  ASSUME NEW g, IsGraph(g), NEW order, Walks(order, g), NEW c, NEW path, IsGreedy(g, c, path),
         NEW k \in Nat, Len(path) <= k + 1, Len(path) <= k => Halted(g, order, path)
  PROVE  LET new == PathStep(g, path, order) IN
         /\ IsGreedy(g, c, new)
         /\ Len(new) <= k + 2
         /\ Len(new) <= k + 1 => Halted(g, order, new)
<1> DEFINE next == NextHop(g, Last(path), order)
           new == PathStep(g, path, order)
           n == Len(path)
<1>1. path \in Paths /\ path \in Seq(Nat) /\ n \in Nat \ {0} /\ Last(path) = path[n]
  BY LastIsNat DEF IsGreedy, Paths
<1>2. CASE new = path /\ Halted(g, order, path)
  BY <1>1, <1>2
<1>3. CASE new = Append(path, next) /\ ~Halted(g, order, path)
  <2>1. next \notin Range(path) /\ Leaving(g, Last(path)) # {}
    BY <1>3 DEF Halted
  <2>2. /\ next \in Nat
        /\ <<path[n], next>> \in Leaving(g, path[n])
        /\ \A e \in Leaving(g, path[n]) : g[e] <= g[<<path[n], next>>]
    BY <1>1, <2>1, HeaviestIsHeaviest, HopIsAnEdge DEF NextHop
  <2> HIDE DEF next
  <2>3. /\ new \in Seq(Nat)
        /\ Len(new) = n + 1
        /\ new[n + 1] = next
        /\ \A i \in 1..n : new[i] = path[i]
    BY <1>1, <1>3, <2>2, AppendProperties
  <2>4. \A i \in 1..n : path[i] # next
    BY <1>1, <2>1 DEF Range
  <2> HIDE DEF n, new
  <2>5. ASSUME NEW i \in 1..(n + 1), NEW j \in 1..(n + 1), new[i] = new[j] PROVE i = j
    <3>1. \A x, y \in 1..n : path[x] = path[y] => x = y
      BY DEF IsGreedy, n
    <3>2. CASE i = n + 1 /\ j = n + 1
      BY <3>2
    <3>3. CASE i # n + 1 /\ j = n + 1
      <4>1. i \in 1..n
        BY <1>1, <3>3
      <4> QED BY <2>3, <2>4, <2>5, <3>3, <4>1
    <3>4. CASE i = n + 1 /\ j # n + 1
      <4>1. j \in 1..n
        BY <1>1, <3>4
      <4> QED BY <2>3, <2>4, <2>5, <3>4, <4>1
    <3>5. CASE i # n + 1 /\ j # n + 1
      <4>1. i \in 1..n /\ j \in 1..n
        BY <1>1, <3>5
      <4> QED BY <2>3, <2>5, <3>1, <4>1
    <3> QED BY <3>2, <3>3, <3>4, <3>5
  <2>6. ASSUME NEW i \in 1..n
        PROVE  /\ <<new[i], new[i + 1]>> \in DOMAIN g
               /\ \A e \in Leaving(g, new[i]) : g[e] <= g[<<new[i], new[i + 1]>>]
    <3>1. CASE i = n
      <4>1. new[i] = path[n] /\ new[i + 1] = next
        BY <2>3, <3>1
      <4> QED BY <2>2, <4>1 DEF Leaving
    <3>2. CASE i # n
      <4>1. i \in 1..(n - 1) /\ i + 1 \in 1..n
        BY <1>1, <3>2
      <4>2. new[i] = path[i] /\ new[i + 1] = path[i + 1]
        BY <2>3, <4>1
      <4> QED BY <4>1, <4>2 DEF IsGreedy, n
    <3> QED BY <3>1, <3>2
  <2>7. new[1] = Busiest(c)
    BY <1>1, <2>3 DEF IsGreedy, n
  <2>8. new # << >> /\ (Len(new) - 1) = n
    BY <1>1, <2>3
  <2>9. new \in Paths
    BY <2>3, <2>8 DEF Paths
  <2>10. IsGreedy(g, c, new)
    BY <2>3, <2>5, <2>6, <2>7, <2>8, <2>9 DEF IsGreedy
  <2>11. n = k + 1
    BY <1>1, <1>3 DEF n
  <2>12. Len(new) = k + 2
    BY <2>3, <2>11
  <2> QED BY <2>10, <2>12 DEF new
<1>4. \/ new = path /\ Halted(g, order, path)
      \/ new = Append(path, next) /\ ~Halted(g, order, path)
  BY <1>1, PathStepDoes DEF Halted
<1> QED BY <1>2, <1>3, <1>4

(* The path is greedy, and shorter than the steps allow only when halted.  *)
LEMMA PathIsGreedy ==
  ASSUME NEW g, IsGraph(g), NEW order, Walks(order, g), NEW c, IsCounts(c),
         DominantPathMaxSteps # 0
  PROVE  LET path == PathInOrder(g, c, order) IN
         /\ IsGreedy(g, c, path)
         /\ Len(path) <= DominantPathMaxSteps + 1
         /\ Len(path) <= DominantPathMaxSteps => Halted(g, order, path)
<1> DEFINE n == DominantPathMaxSteps
<1>1. n \in Nat
  BY BehaviorAssumption
<1>2. Busiest(c) \in Nat /\ StartsIn(c)
  BY BusiestIsBusiest DEF IsCounts, StartsIn
<1>3. PICK run \in [0..n -> Paths] :
        /\ run[0] = Start(c)
        /\ \A i \in 1..n : run[i] = PathStep(g, run[i - 1], order)
        /\ PathInOrder(g, c, order) = run[n]
  BY <1>2, PathIsARun
<1> HIDE DEF n
<1> DEFINE Good(path, k) == /\ IsGreedy(g, c, path)
                            /\ Len(path) <= k + 1
                            /\ Len(path) <= k => Halted(g, order, path)
           P == {k \in 0..n : Good(run[k], k)}
<1>4. 0 \in P
  <2>1. run[0] \in Paths /\ Len(run[0]) = 1 /\ run[0][1] = Busiest(c)
    BY <1>1, <1>3 DEF Start
  <2>2. IsGreedy(g, c, run[0])
    BY <2>1 DEF IsGreedy
  <2>3. Good(run[0], 0)
    BY <2>1, <2>2
  <2> HIDE DEF Good
  <2> QED BY <1>1, <2>3
<1>5. ASSUME NEW k \in 1..n, k - 1 \in P PROVE k \in P
  <2> DEFINE path == run[k - 1]
             m == k - 1
  <2>1. Good(path, m) /\ m \in Nat /\ k \in 0..n
    BY <1>1, <1>5
  <2>2. run[k] = PathStep(g, path, order)
    BY <1>3
  <2> HIDE DEF path, m
  <2>3. IsGreedy(g, c, path) /\ Len(path) <= m + 1 /\ (Len(path) <= m => Halted(g, order, path))
    BY <2>1
  <2>4. /\ IsGreedy(g, c, run[k])
        /\ Len(run[k]) <= m + 2
        /\ Len(run[k]) <= m + 1 => Halted(g, order, run[k])
    BY <2>1, <2>2, <2>3, PathStepIsGreedy
  <2>5. m + 2 = k + 1 /\ m + 1 = k
    BY <1>1 DEF m
  <2>6. Good(run[k], k)
    BY <2>4, <2>5
  <2> QED BY <2>1, <2>6
<1>6. n \in P
  <2>1. 0..n \subseteq P
    <3> HIDE DEF P
    <3> QED BY <1>1, <1>4, <1>5, RunInduction
  <2> QED BY <1>1, <2>1
<1>7. Good(run[n], n)
  BY <1>6
<1> QED BY <1>3, <1>7 DEF n

=============================================================================
