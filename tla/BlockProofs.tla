---------------------------- MODULE BlockProofs ----------------------------
(***************************************************************************)
(* The blocks a closing window selects.                                    *)
(*                                                                         *)
(* The two promises of admit_reservoir to failures hold whatever the       *)
(* templates of a window and the bounds of the reservoir, and what it      *)
(* keeps is what its rule says, in order.  The invariant is only that the  *)
(* buckets are ones a window can have; the theorems are about what the     *)
(* selections make of any such buckets.                                    *)
(*                                                                         *)
(* Then what the graph algorithms of Behavior return, for any n-gram table *)
(* and any order in which the hash maps are walked.  Each search for a     *)
(* best edge folds over the edges.  Its invariant says that the best so    *)
(* far is one of the edges seen, and that no edge seen beats it; at the    *)
(* end that describes the result without the order, and describes only     *)
(* one, since the tie-break leaves no two edges equal.                     *)
(***************************************************************************)
EXTENDS BlockLemmas, RetentionCases, BehaviorCases

IInv ==
  /\ AreBuckets(buckets)
  /\ \A t \in DOMAIN buckets : buckets[t].echoed \in BOOLEAN
  /\ DOMAIN surprise = DOMAIN buckets
  /\ NatOn(surprise, DOMAIN buckets)
  /\ lines \in Nat

LEMMA MinIsElement ==
  ASSUME NEW S \in SUBSET Nat, S # {}
  PROVE  Min(S) \in S /\ \A y \in S : Min(S) <= y
<1> SUFFICES \E x \in S : \A y \in S : x <= y
  BY DEF Min
<1> SUFFICES ASSUME ~ \E x \in S : \A y \in S : x <= y PROVE FALSE
  OBVIOUS
<1> DEFINE P == {n \in Nat : \A m \in 0..n : m \notin S}
<1>1. 0 \in P
  <2>1. 0 \notin S
    OBVIOUS
  <2> QED BY <2>1
<1>2. ASSUME NEW n \in Nat, n \in P PROVE n + 1 \in P
  <2>1. n + 1 \notin S
    <3> SUFFICES ASSUME n + 1 \in S PROVE FALSE
      OBVIOUS
    <3>1. PICK y \in S : ~(n + 1 <= y)
      OBVIOUS
    <3>2. y \in 0..n
      BY <3>1
    <3> QED BY <1>2, <3>2
  <2>2. 0..(n + 1) = 0..n \cup {n + 1}
    OBVIOUS
  <2> QED BY <1>2, <2>1, <2>2
<1>3. Nat \subseteq P
  <2> HIDE DEF P
  <2> QED BY <1>1, <1>2, SetInduction
<1>4. ASSUME NEW x \in S PROVE FALSE
  <2>1. x \in P /\ x \in 0..x
    BY <1>3
  <2> QED BY <2>1
<1> QED BY <1>4

-----------------------------------------------------------------------------
(* The invariant *)

LEMMA BucketType ==
  ASSUME NEW count \in Nat \ {0}, NEW level, NEW role, NEW first_seen \in Nat
  PROVE  LET b == BucketOf(count, level, role, first_seen) IN
         b.count \in Nat \ {0} /\ b.first_seen \in Nat /\ b.echoed \in BOOLEAN
BY DEF BucketOf

LEMMA StartIsTyped ==
  ASSUME NEW b, NEW s, NEW l,
         b = Alone(BucketOf(BusyCount, 2, NoRole, 0)), l = BusyCount, s = Alone(0)
  PROVE  /\ AreBuckets(b) /\ \A t \in DOMAIN b : b[t].echoed \in BOOLEAN
         /\ DOMAIN s = DOMAIN b /\ NatOn(s, DOMAIN b) /\ l \in Nat
<1>1. DOMAIN b = {1} /\ b[1] = BucketOf(BusyCount, 2, NoRole, 0) /\ DOMAIN s = {1} /\ s[1] = 0
  BY DEF Alone
<1>2. IsFiniteSet({1})
  BY FS_Singleton
<1>3. b[1].count \in Nat \ {0} /\ b[1].first_seen \in Nat /\ b[1].echoed \in BOOLEAN
  BY <1>1, ShapesAssumption, BucketType
<1> QED BY <1>1, <1>2, <1>3, ShapesAssumption DEF AreBuckets, NatOn

LEMMA AddKeepsIInv ==
  ASSUME IInv, NEW shape \in Shapes, Add(shape)
  PROVE  IInv'
<1> DEFINE rest == Rare \ DOMAIN buckets
           t == Min(rest)
           first == IF shape.early THEN t - 1 ELSE lines
           b == BucketOf(shape.count, shape.level, shape.role, first)
<1>1. t \in rest /\ t \in Nat \ {0, 1} /\ t \notin DOMAIN buckets
  <2>1. rest # {} /\ rest \in SUBSET Nat
    BY ShapesAssumption DEF Add
  <2>2. t \in rest
    BY <2>1, MinIsElement
  <2> QED BY <2>2, ShapesAssumption
<1>2. shape.count \in Nat \ {0} /\ shape.surprise \in Nat /\ shape.early \in BOOLEAN
  BY ShapesAssumption
<1> HIDE DEF t, rest
<1>3. first \in Nat
  BY <1>1, <1>2 DEF IInv
<1>4. b.count \in Nat \ {0} /\ b.first_seen \in Nat /\ b.echoed \in BOOLEAN
  BY <1>2, <1>3, BucketType
<1>5. buckets' = With(buckets, t, b) /\ surprise' = With(surprise, t, shape.surprise)
      /\ lines' = lines + shape.count
  BY DEF Add, t, rest
<1> HIDE DEF b, first
<1>6. /\ DOMAIN buckets' = DOMAIN buckets \cup {t} /\ buckets'[t] = b
      /\ \A u \in DOMAIN buckets : buckets'[u] = buckets[u]
  BY <1>1, <1>5 DEF With
<1>7. /\ DOMAIN surprise' = DOMAIN buckets \cup {t} /\ surprise'[t] = shape.surprise
      /\ \A u \in DOMAIN buckets : surprise'[u] = surprise[u]
  BY <1>1, <1>5 DEF With, IInv
<1>8. AreBuckets(buckets)'
  BY <1>1, <1>4, <1>6, FS_AddElement DEF IInv, AreBuckets
<1>9. \A u \in DOMAIN buckets' : buckets'[u].echoed \in BOOLEAN
  BY <1>4, <1>6 DEF IInv
<1>10. NatOn(surprise, DOMAIN buckets)'
  BY <1>2, <1>6, <1>7 DEF IInv, NatOn
<1> QED BY <1>2, <1>5, <1>6, <1>7, <1>8, <1>9, <1>10 DEF IInv

(* Whatever templates a window holds, their buckets are ones that the      *)
(* selections of close_window can rank and weigh.                          *)
THEOREM CasesAreTyped == RetentionSpec => []IInv
<1>1. RetentionInit => IInv
  BY StartIsTyped DEF RetentionInit, IInv
<1>2. IInv /\ [RetentionNext]_retentionVars => IInv'
  <2> SUFFICES ASSUME IInv, [RetentionNext]_retentionVars PROVE IInv'
    OBVIOUS
  <2>1. CASE \E shape \in Shapes : Add(shape)
    BY <2>1, AddKeepsIInv
  <2>2. CASE RetentionRestart
    <3>1. /\ AreBuckets(buckets') /\ \A t \in DOMAIN buckets' : buckets'[t].echoed \in BOOLEAN
          /\ DOMAIN surprise' = DOMAIN buckets' /\ NatOn(surprise', DOMAIN buckets')
          /\ lines' \in Nat
      BY <2>2, StartIsTyped DEF RetentionRestart
    <3> QED BY <3>1 DEF IInv, AreBuckets, NatOn
  <2>3. CASE UNCHANGED retentionVars
    BY <2>3 DEF retentionVars, IInv, AreBuckets, NatOn
  <2> QED BY <2>1, <2>2, <2>3 DEF RetentionNext
<1> QED BY <1>1, <1>2, PTL DEF RetentionSpec

-----------------------------------------------------------------------------
(* The promises *)

(* A template that ended badly or logs an error is never dropped before    *)
(* the reservoir considers it: collect_reservoir_candidates lists every    *)
(* failure below top_k, however frequent it is and wherever it lies.       *)
THEOREM FailuresAreAlwaysCandidates == RetentionSpec => []EveryFailureIsACandidate
<1>1. IInv => EveryFailureIsACandidate
  BY FailuresAreCandidates DEF IInv, EveryFailureIsACandidate
<1> QED BY <1>1, CasesAreTyped, PTL

(* Benign salience never takes the place of a failure within the reserve   *)
(* of admit_reservoir: a failure is left out only behind a whole reserve   *)
(* of failures at least as salient, all of them kept.                      *)
THEOREM FailuresAreNeverCrowdedOut == RetentionSpec => []FailureIsNotCrowdedOut
<1> DEFINE scores == Scores(buckets, lines, surprise)
           kept == Range(Reservoir(buckets, lines, surprise))
           candidates == Range(Candidates(buckets, scores))
           failures == {t \in candidates : ErrorClass(buckets[t])}
           ahead(t) == {u \in failures \cap kept : scores[u] >= scores[t]}
<1>1. ASSUME IInv, NEW t \in failures \ kept
      PROVE  Cardinality(ahead(t)) >= Min({ErrorReserve, ReservoirSize})
  <2>1. AreBuckets(buckets) /\ NatOn(scores, DOMAIN buckets)
    BY <1>1, ScoreOfABucket DEF IInv
  <2> DEFINE all == {u \in kept \cap candidates : ErrorClass(buckets[u]) /\ scores[u] >= scores[t]}
  <2>2. /\ IsFiniteSet(all)
        /\ Cardinality(all) >= ErrorReserve \/ Cardinality(all) >= ReservoirSize
    BY <1>1, <2>1, PassedOverBehindAReserve
  <2>3. all = ahead(t)
    OBVIOUS
  <2> HIDE DEF all, ahead
  <2>4. ErrorReserve \in Nat /\ ReservoirSize \in Nat
    BY RetentionAssumption
  <2>5. /\ Min({ErrorReserve, ReservoirSize}) \in Nat
        /\ Min({ErrorReserve, ReservoirSize}) <= ErrorReserve
        /\ Min({ErrorReserve, ReservoirSize}) <= ReservoirSize
    <3>1. {ErrorReserve, ReservoirSize} \in SUBSET Nat /\ {ErrorReserve, ReservoirSize} # {}
      BY <2>4
    <3>2. /\ Min({ErrorReserve, ReservoirSize}) \in {ErrorReserve, ReservoirSize}
          /\ \A y \in {ErrorReserve, ReservoirSize} : Min({ErrorReserve, ReservoirSize}) <= y
      BY <3>1, MinIsElement
    <3> QED BY <2>4, <3>2
  <2>6. Cardinality(all) \in Nat
    BY <2>2, FS_CardinalityType
  <2>7. Cardinality(all) >= Min({ErrorReserve, ReservoirSize})
    BY <2>2, <2>4, <2>5, <2>6
  <2> QED BY <2>3, <2>7
<1>2. IInv => FailureIsNotCrowdedOut
  BY <1>1 DEF FailureIsNotCrowdedOut
<1> QED BY <1>2, CasesAreTyped, PTL

-----------------------------------------------------------------------------
(* The reference                                                           *)
(*                                                                         *)
(* Both phases walk the candidates in order of salience and append those   *)
(* there is room for.  What a phase has taken at a place is what the       *)
(* reference takes of the candidates passed: room is left for a candidate  *)
(* just when its rank among its competitors is low enough (RoomIsRank).    *)

Failures(b, ids) == {t \in ids : ErrorClass(b[t])}

(* The reserve phase takes the first m failures, m its room.               *)
LEMMA ReserveIsFirst ==
  ASSUME NEW b, NEW S, IsFiniteSet(S), NEW before, IsOrder(before, S),
         NEW candidates, IsRanking(candidates, before, S),
         NEW run \in [0..Len(candidates) -> Seq(S)], IsReserveRun(run, b, candidates),
         NEW m \in Nat, \A k \in Nat : k < m <=> k < ErrorReserve /\ k < ReservoirSize
  PROVE  IsRanking(run[Len(candidates)], before, RankedBelow(before, Failures(b, S), m))
<1> DEFINE n == Len(candidates)
           F == Failures(b, S)
           G == RankedBelow(before, F, m)
           P == {i \in 0..n : IsRanking(run[i], before, G \cap Passed(candidates, i))}
<1>1. n \in Nat /\ candidates \in Seq(S)
  BY DEF IsRanking
<1>2. F \in SUBSET S /\ G \in SUBSET F
  BY DEF Failures, RankedBelow
<1>3. IsFiniteSet(F) /\ IsOrder(before, F)
  <2> HIDE DEF F
  <2> QED BY <1>2, FS_Subset, OrderOfPart
<1>4. Passed(candidates, 0) = {} /\ Passed(candidates, n) = S
  BY AllArePassed
<1>5. 0 \in P
  <2>1. run[0] = << >> /\ G \cap Passed(candidates, 0) = {} /\ 0 \in 0..n
    BY <1>1, <1>4 DEF IsReserveRun
  <2>2. IsRanking(run[0], before, G \cap Passed(candidates, 0))
    BY <2>1, EmptyRanking
  <2> QED BY <2>1, <2>2
<1>6. ASSUME NEW i \in 1..n, i - 1 \in P PROVE i \in P
  <2> DEFINE t == candidates[i]
             taken == run[i - 1]
  <2>1. i \in 0..n /\ i - 1 \in 0..n /\ run[i] = Reserve(b, taken, t)
    BY <1>1 DEF IsReserveRun
  <2>2. IsRanking(taken, before, G \cap Passed(candidates, i - 1))
    BY <1>6
  <2>3. /\ t \in S /\ Passed(candidates, i - 1) = Ahead(before, S, t)
    BY PassedIsAhead
  <2>4. G \cap Passed(candidates, i - 1) = G \cap Ahead(before, F, t)
    BY <1>2, <2>3 DEF Ahead
  <2>5. Len(taken) = Cardinality(G \cap Passed(candidates, i - 1)) /\ Len(taken) \in Nat
    BY <2>2 DEF IsRanking, Lists
  <2>6. ErrorClass(b[t]) <=> t \in F
    BY <2>3 DEF Failures
  <2>7. t \in F => (Len(taken) < m <=> t \in G)
    <3> SUFFICES ASSUME t \in F PROVE Len(taken) < m <=> t \in G
      OBVIOUS
    <3> HIDE DEF F, t
    <3> QED BY <1>3, <2>4, <2>5, RoomIsRank
  <2>8. Len(taken) < m <=> Len(taken) < ErrorReserve /\ Len(taken) < ReservoirSize
    BY <2>5
  <2>g. G \in SUBSET S
    BY <1>2
  <2> HIDE DEF F, G, t, taken
  <2>9. /\ t \in G => IsRanking(Append(taken, t), before, G \cap Passed(candidates, i))
        /\ t \notin G => IsRanking(taken, before, G \cap Passed(candidates, i))
    BY <2>2, <2>g, RankingGrows DEF t
  <2>10. CASE t \in G
    <3>1. run[i] = Append(taken, t)
      BY <1>2, <2>1, <2>6, <2>7, <2>8, <2>10 DEF Reserve
    <3> QED BY <2>1, <2>9, <2>10, <3>1
  <2>11. CASE t \notin G
    <3>1. run[i] = taken
      BY <2>1, <2>6, <2>7, <2>8, <2>11 DEF Reserve
    <3> QED BY <2>1, <2>9, <2>11, <3>1
  <2> QED BY <2>10, <2>11
<1>7. 0..n \subseteq P
  <2> HIDE DEF P
  <2> QED BY <1>1, <1>5, <1>6, RunInduction
<1>8. IsRanking(run[n], before, G \cap Passed(candidates, n))
  BY <1>1, <1>7
<1>9. G \cap Passed(candidates, n) = G
  BY <1>2, <1>4
<1> QED BY <1>8, <1>9

(* What the kind cap leaves of the rest, and what the reservoir then has   *)
(* room for.                                                               *)
Kin(b, rest, t) == {u \in rest : Kind(b[u]) = Kind(b[t])}

Capped(b, before, rest) ==
  {t \in rest : PerKindCap > 0 => t \in RankedBelow(before, Kin(b, rest, t), PerKindCap)}

General(b, before, S, reserved) ==
  RankedBelow(before, Capped(b, before, S \ Range(reserved)), ReservoirSize - Len(reserved))

(* The pool holds the reserve and then T, and has counted the kinds of T.  *)
IsPool(acc, b, reserved, before, S, T) ==
  /\ \E taken : acc.admitted = reserved \o taken /\ IsRanking(taken, before, T)
  /\ \A t \in S : Tally(acc.kinds, Kind(b[t])) = Cardinality({x \in T : Kind(b[x]) = Kind(b[t])})

LEMMA TallyOfOneMore ==
  ASSUME NEW bag, NEW k, NEW j
  PROVE  Tally(BagAdd(bag, k), j) = IF j = k THEN Tally(bag, k) + 1 ELSE Tally(bag, j)
<1>1. CASE k \in DOMAIN bag
  BY <1>1 DEF Tally, BagAdd
<1>2. CASE k \notin DOMAIN bag
  BY <1>2 DEF Tally, BagAdd
<1> QED BY <1>1, <1>2

(* The general pool admits a candidate exactly when the reference does:    *)
(* what the counter of its kind and the free slots say agrees with its     *)
(* ranks among its kind and among all that the cap leaves.                 *)
LEMMA AdmitsTheReference ==
  ASSUME NEW b, NEW S, IsFiniteSet(S), NEW before, IsOrder(before, S),
         NEW reserved \in Seq(S), Len(reserved) <= ReservoirSize,
         NEW t \in S, NEW acc,
         IsPool(acc, b, reserved, before, S,
                General(b, before, S, reserved) \cap Ahead(before, S, t))
  PROVE  /\ t \in General(b, before, S, reserved) => Admit(b, reserved, acc, t) =
                         [admitted |-> Append(acc.admitted, t),
                          kinds |-> BagAdd(acc.kinds, Kind(b[t]))]
         /\ t \notin General(b, before, S, reserved) => Admit(b, reserved, acc, t) = acc
<1> DEFINE G == General(b, before, S, reserved)
           rest == S \ Range(reserved)
           room == ReservoirSize - Len(reserved)
           A == G \cap Ahead(before, S, t)
           K == Kin(b, rest, t)
           B == RankedBelow(before, K, PerKindCap) \cap Ahead(before, K, t)
           full == Len(acc.admitted) >= ReservoirSize
           counted == Tally(acc.kinds, Kind(b[t]))
           same == {x \in A : Kind(b[x]) = Kind(b[t])}
<1>c. PICK capped : capped = Capped(b, before, rest)
  OBVIOUS
<1>g. G = RankedBelow(before, capped, room)
  BY <1>c DEF General
<1>s. rest = S \ Range(reserved)
  OBVIOUS
<1>p. IsPool(acc, b, reserved, before, S, A)
  OBVIOUS
<1> HIDE DEF G, rest
<1>1. room \in Nat /\ PerKindCap \in Nat /\ ReservoirSize \in Nat /\ Len(reserved) \in Nat
  BY RetentionAssumption
<1>2. rest \in SUBSET S /\ capped \in SUBSET rest /\ G \in SUBSET capped /\ K \in SUBSET rest
  BY <1>c, <1>g, <1>s DEF Capped, RankedBelow, Kin
<1>3. IsFiniteSet(capped) /\ IsOrder(before, capped) /\ IsFiniteSet(K) /\ IsOrder(before, K)
  <2>1. capped \in SUBSET S /\ K \in SUBSET S
    BY <1>2
  <2> HIDE DEF K
  <2> QED BY <2>1, FS_Subset, OrderOfPart
<1>4. /\ IsFiniteSet(A) /\ Cardinality(A) \in Nat
      /\ Len(acc.admitted) = Len(reserved) + Cardinality(A)
      /\ counted = Cardinality(same)
  <2>1. PICK taken : acc.admitted = reserved \o taken /\ IsRanking(taken, before, A)
    BY <1>p DEF IsPool
  <2>2. taken \in Seq(A) /\ IsFiniteSet(A) /\ Len(taken) = Cardinality(A) /\ Len(taken) \in Nat
    <3>1. IsRanking(taken, before, A)
      BY <2>1
    <3> HIDE DEF A
    <3>2. taken \in Seq(A) /\ Lists(taken, A)
      BY <3>1 DEF IsRanking
    <3> QED BY <3>2 DEF Lists
  <2>3. Len(acc.admitted) = Len(reserved) + Len(taken)
    <3>1. A \in SUBSET S
      BY <1>2
    <3> HIDE DEF A
    <3>2. taken \in Seq(S) /\ acc.admitted = reserved \o taken
      BY <2>1, <2>2, <3>1
    <3> QED BY <3>2, ConcatProperties
  <2>4. counted = Cardinality(same)
    BY <1>p DEF IsPool
  <2> HIDE DEF A, same, counted
  <2> QED BY <2>2, <2>3, <2>4
<1>5. full <=> ~(Cardinality(A) < room)
  <2> HIDE DEF A
  <2> QED BY <1>1, <1>4
<1>6. Admit(b, reserved, acc, t) =
        IF full \/ t \notin rest \/ (PerKindCap > 0 /\ counted >= PerKindCap) THEN acc
        ELSE [admitted |-> Append(acc.admitted, t), kinds |-> BagAdd(acc.kinds, Kind(b[t]))]
  <2>1. t \in Range(reserved) <=> t \notin rest
    BY <1>s
  <2> QED BY <2>1 DEF Admit
<1>7. A = G \cap Ahead(before, capped, t)
  BY <1>2 DEF Ahead
<1>8. t \in capped => (Cardinality(A) < room <=> t \in G)
  <2> SUFFICES ASSUME t \in capped PROVE Cardinality(A) < room <=> t \in G
    OBVIOUS
  <2> HIDE DEF A, room
  <2>1. Cardinality(RankedBelow(before, capped, room) \cap Ahead(before, capped, t)) < room
          <=> t \in RankedBelow(before, capped, room)
    BY <1>1, <1>3, RoomIsRank
  <2> QED BY <1>7, <2>1, <1>g
<1>9. Cardinality(A) < room => A = Ahead(before, capped, t)
  <2> SUFFICES ASSUME Cardinality(A) < room, NEW y \in Ahead(before, capped, t), y \notin G
               PROVE  FALSE
    BY <1>7
  <2>1. y \in capped /\ y \in S /\ <<y, t>> \in before
    BY <1>2 DEF Ahead
  <2> DEFINE Y == G \cap Ahead(before, capped, y)
  <2>2. Cardinality(Y) \in Nat /\ ~(Cardinality(Y) < room)
    <3> HIDE DEF room
    <3>1. /\ Cardinality(RankedBelow(before, capped, room) \cap Ahead(before, capped, y)) \in Nat
          /\ Cardinality(RankedBelow(before, capped, room) \cap Ahead(before, capped, y)) < room
               <=> y \in RankedBelow(before, capped, room)
      BY <1>1, <1>3, <2>1, RoomIsRank
    <3> QED BY <3>1, <1>g
  <2>3. Y \in SUBSET A
    <3> SUFFICES ASSUME NEW x \in Y PROVE x \in A
      OBVIOUS
    <3>1. x \in G /\ x \in S /\ <<x, y>> \in before
      BY <1>2 DEF Ahead
    <3>2. <<x, t>> \in before
      BY <2>1, <3>1 DEF IsOrder
    <3> QED BY <3>1, <3>2 DEF Ahead
  <2> HIDE DEF Y, A, room
  <2>4. Cardinality(Y) <= Cardinality(A)
    BY <1>4, <2>3, FS_Subset
  <2> QED BY <1>1, <1>4, <2>2, <2>4
<1>10. t \in rest => /\ IsFiniteSet(B) /\ Cardinality(B) \in Nat
                     /\ Cardinality(B) < PerKindCap <=> t \in RankedBelow(before, K, PerKindCap)
  <2> SUFFICES ASSUME t \in rest
               PROVE  /\ IsFiniteSet(B) /\ Cardinality(B) \in Nat
                      /\ Cardinality(B) < PerKindCap <=> t \in RankedBelow(before, K, PerKindCap)
    OBVIOUS
  <2>1. t \in K
    BY DEF Kin
  <2> HIDE DEF K
  <2> QED BY <1>1, <1>3, <2>1, RoomIsRank
<1>11. PerKindCap > 0 => B = {x \in Ahead(before, capped, t) : Kind(b[x]) = Kind(b[t])}
  <2> SUFFICES ASSUME PerKindCap > 0
               PROVE  B = {x \in Ahead(before, capped, t) : Kind(b[x]) = Kind(b[t])}
    OBVIOUS
  <2>1. ASSUME NEW x \in rest, Kind(b[x]) = Kind(b[t])
        PROVE  x \in RankedBelow(before, K, PerKindCap) <=> x \in capped
    <3>1. Kin(b, rest, x) = K
      BY <2>1 DEF Kin
    <3> QED BY <1>c, <3>1 DEF Capped
  <2>2. \A x \in K : x \in rest /\ Kind(b[x]) = Kind(b[t])
    BY DEF Kin
  <2>3. \A x \in rest : Kind(b[x]) = Kind(b[t]) => x \in K
    BY DEF Kin
  <2> HIDE DEF K
  <2>4. ASSUME NEW x \in B PROVE x \in Ahead(before, capped, t) /\ Kind(b[x]) = Kind(b[t])
    <3>1. x \in K /\ x \in RankedBelow(before, K, PerKindCap) /\ <<x, t>> \in before
      BY DEF Ahead
    <3> QED BY <2>1, <2>2, <3>1 DEF Ahead
  <2>5. ASSUME NEW x \in Ahead(before, capped, t), Kind(b[x]) = Kind(b[t]) PROVE x \in B
    <3>1. x \in capped /\ x \in rest /\ <<x, t>> \in before
      BY <1>2 DEF Ahead
    <3>2. x \in K
      BY <2>3, <2>5, <3>1
    <3> QED BY <2>1, <2>5, <3>1, <3>2 DEF Ahead
  <2> HIDE DEF B
  <2> QED BY <2>4, <2>5
<1>12. ASSUME t \in G PROVE ~full /\ t \in rest /\ ~(PerKindCap > 0 /\ counted >= PerKindCap)
  <2>1. t \in capped /\ t \in rest /\ Cardinality(A) < room
    BY <1>2, <1>8, <1>12
  <2>2. ASSUME PerKindCap > 0 PROVE ~(counted >= PerKindCap)
    <3>1. t \in RankedBelow(before, K, PerKindCap)
      BY <1>c, <2>1, <2>2 DEF Capped
    <3>2. IsFiniteSet(B) /\ Cardinality(B) \in Nat /\ Cardinality(B) < PerKindCap
      BY <1>10, <2>1, <3>1
    <3>3. same = B
      BY <1>9, <1>11, <2>1, <2>2
    <3> HIDE DEF same, B, counted
    <3> QED BY <1>1, <1>4, <3>2, <3>3
  <2> QED BY <1>5, <2>1, <2>2
<1>13. ASSUME t \notin G PROVE full \/ t \notin rest \/ (PerKindCap > 0 /\ counted >= PerKindCap)
  <2> SUFFICES ASSUME ~full, t \in rest PROVE PerKindCap > 0 /\ counted >= PerKindCap
    OBVIOUS
  <2>1. t \notin capped /\ Cardinality(A) < room
    BY <1>5, <1>8, <1>13
  <2>2. PerKindCap > 0 /\ t \notin RankedBelow(before, K, PerKindCap)
    BY <1>c, <2>1 DEF Capped
  <2>3. same = B
    BY <1>9, <1>11, <2>1, <2>2
  <2>4. Cardinality(B) \in Nat /\ ~(Cardinality(B) < PerKindCap)
    BY <1>10, <2>2
  <2> HIDE DEF same, B, counted
  <2> QED BY <1>1, <1>4, <2>2, <2>3, <2>4
<1> HIDE DEF full, counted
<1> QED BY <1>6, <1>12, <1>13 DEF G

(* The general phase appends what the reference takes of the rest.         *)
LEMMA GeneralIsReference ==
  ASSUME NEW b, NEW S, IsFiniteSet(S), NEW before, IsOrder(before, S),
         NEW candidates, IsRanking(candidates, before, S),
         NEW reserved \in Seq(S), Len(reserved) <= ReservoirSize,
         NEW run, IsAdmitRun(run, b, candidates, reserved)
  PROVE  \E taken : /\ run[Len(candidates)].admitted = reserved \o taken
                    /\ IsRanking(taken, before, General(b, before, S, reserved))
<1> DEFINE G == General(b, before, S, reserved)
           n == Len(candidates)
           P == {i \in 0..n : IsPool(run[i], b, reserved, before, S, G \cap Passed(candidates, i))}
<1>1. n \in Nat
  BY DEF IsRanking
<1>2. G \in SUBSET S
  BY DEF General, RankedBelow, Capped
<1> HIDE DEF G
<1>3. Passed(candidates, 0) = {} /\ Passed(candidates, n) = S
  BY AllArePassed
<1>4. 0 \in P
  <2>1. run[0].admitted = reserved /\ run[0].kinds = << >> /\ 0 \in 0..n
    BY <1>1 DEF IsAdmitRun
  <2>2. run[0].admitted = reserved \o << >> /\ IsRanking(<< >>, before, {})
    BY <2>1, EmptyRanking, ConcatEmptySeq
  <2>3. \A k : Tally(run[0].kinds, k) = 0
    BY <2>1 DEF Tally
  <2>4. \A k : {x \in {} : Kind(b[x]) = k} = {}
    OBVIOUS
  <2>5. Cardinality({}) = 0
    BY EmptyCount
  <2>6. IsPool(run[0], b, reserved, before, S, {})
    BY <2>2, <2>3, <2>4, <2>5 DEF IsPool
  <2>7. G \cap Passed(candidates, 0) = {}
    BY <1>3
  <2> QED BY <2>1, <2>6, <2>7
<1>5. ASSUME NEW i \in 1..n, i - 1 \in P PROVE i \in P
  <2> DEFINE t == candidates[i]
             acc == run[i - 1]
             old == G \cap Passed(candidates, i - 1)
             new == G \cap Passed(candidates, i)
  <2>1. i \in 0..n /\ run[i] = Admit(b, reserved, acc, t)
    BY <1>1 DEF IsAdmitRun
  <2>2. IsPool(acc, b, reserved, before, S, old)
    BY <1>5
  <2>3. /\ t \in S /\ Passed(candidates, i - 1) = Ahead(before, S, t)
        /\ Passed(candidates, i) = Passed(candidates, i - 1) \cup {t}
        /\ t \notin Passed(candidates, i - 1)
    BY PassedIsAhead
  <2>4. /\ t \in G => run[i] = [admitted |-> Append(acc.admitted, t),
                                kinds |-> BagAdd(acc.kinds, Kind(b[t]))]
        /\ t \notin G => run[i] = acc
    <3>1. IsPool(acc, b, reserved, before, S, G \cap Ahead(before, S, t))
      BY <2>2, <2>3
    <3>2. t \in S
      BY <2>3
    <3> HIDE DEF t, acc
    <3>3. /\ t \in G => Admit(b, reserved, acc, t) =
                         [admitted |-> Append(acc.admitted, t),
                          kinds |-> BagAdd(acc.kinds, Kind(b[t]))]
          /\ t \notin G => Admit(b, reserved, acc, t) = acc
      BY <3>1, <3>2, AdmitsTheReference DEF G
    <3> QED BY <2>1, <3>3
  <2>5. PICK taken : acc.admitted = reserved \o taken /\ IsRanking(taken, before, old)
    BY <2>2 DEF IsPool
  <2>6. /\ t \in G => IsRanking(Append(taken, t), before, new)
        /\ t \notin G => IsRanking(taken, before, new)
    BY <1>2, <2>5, RankingGrows
  <2>7. \A u \in S : Tally(acc.kinds, Kind(b[u])) = Cardinality({x \in old : Kind(b[x]) = Kind(b[u])})
    BY <2>2 DEF IsPool
  <2>8. IsFiniteSet(old)
    <3>1. old \in SUBSET S
      BY <1>2
    <3> HIDE DEF old
    <3> QED BY <3>1, FS_Subset
  <2>9. CASE t \notin G
    <3>1. new = old /\ run[i] = acc
      BY <2>3, <2>4, <2>9
    <3> HIDE DEF new, old, acc
    <3> QED BY <2>1, <2>2, <3>1 DEF new, old
  <2>10. CASE t \in G
    <3>1. new = old \cup {t} /\ t \notin old
      BY <2>3, <2>10
    <3>2. run[i].admitted = Append(acc.admitted, t) /\ run[i].kinds = BagAdd(acc.kinds, Kind(b[t]))
      BY <2>4, <2>10
    <3>3. IsRanking(Append(taken, t), before, new)
      BY <2>6, <2>10
    <3>4. run[i].admitted = reserved \o Append(taken, t)
      <4>1. taken \in Seq(S)
        <5>1. taken \in Seq(old) /\ old \in SUBSET S
          BY <1>2, <2>5 DEF IsRanking
        <5> HIDE DEF old
        <5> QED BY <5>1
      <4>2. Append(reserved \o taken, t) = reserved \o Append(taken, t)
        BY <2>3, <4>1
      <4> QED BY <2>5, <3>2, <4>2
    <3>5. ASSUME NEW u \in S
          PROVE  Tally(run[i].kinds, Kind(b[u])) = Cardinality({x \in new : Kind(b[x]) = Kind(b[u])})
      <4> DEFINE was == {x \in old : Kind(b[x]) = Kind(b[u])}
                 is == {x \in new : Kind(b[x]) = Kind(b[u])}
      <4>1. Tally(acc.kinds, Kind(b[u])) = Cardinality(was)
        BY <2>7
      <4>2. Tally(run[i].kinds, Kind(b[u])) =
              IF Kind(b[u]) = Kind(b[t]) THEN Tally(acc.kinds, Kind(b[t])) + 1
              ELSE Tally(acc.kinds, Kind(b[u]))
        BY <3>2, TallyOfOneMore
      <4>3. CASE Kind(b[u]) = Kind(b[t])
        <5>1. is = was \cup {t} /\ t \notin was /\ was \in SUBSET old
          BY <3>1, <4>3
        <5> HIDE DEF is, was, old
        <5>2. IsFiniteSet(was)
          BY <2>8, <5>1, FS_Subset
        <5>3. Cardinality(is) = Cardinality(was) + 1
          BY <5>1, <5>2, FS_AddElement
        <5>4. Tally(run[i].kinds, Kind(b[u])) = Cardinality(is)
          BY <4>1, <4>2, <4>3, <5>3
        <5> QED BY <5>4 DEF is
      <4>4. CASE Kind(b[u]) # Kind(b[t])
        <5>1. is = was
          BY <3>1, <4>4
        <5> HIDE DEF is, was
        <5>2. Tally(run[i].kinds, Kind(b[u])) = Cardinality(is)
          BY <4>1, <4>2, <4>4, <5>1
        <5> QED BY <5>2 DEF is
      <4> QED BY <4>3, <4>4
    <3> HIDE DEF new, old, acc, t
    <3>6. IsPool(run[i], b, reserved, before, S, new)
      BY <3>3, <3>4, <3>5 DEF IsPool
    <3> QED BY <2>1, <3>6 DEF new
  <2> QED BY <2>9, <2>10
<1>6. 0..n \subseteq P
  <2> HIDE DEF P
  <2> QED BY <1>1, <1>4, <1>5, RunInduction
<1>7. G \cap Passed(candidates, n) = G
  BY <1>2, <1>3
<1>8. IsPool(run[n], b, reserved, before, S, G)
  <2>1. n \in P
    <3> HIDE DEF P, n
    <3>1. n \in 0..n
      BY <1>1
    <3> QED BY <1>6, <3>1
  <2>2. IsPool(run[n], b, reserved, before, S, G \cap Passed(candidates, n))
    BY <2>1
  <2> HIDE DEF n
  <2> QED BY <1>7, <2>2
<1> QED BY <1>8 DEF IsPool, G

(* The candidates are in order, and the reference reads off that order.    *)
LEMMA CandidatesAreRanked ==
  ASSUME NEW b, AreBuckets(b), NEW scores, NatOn(scores, DOMAIN b), ReservoirSize # 0
  PROVE  LET S == Below(b, scores)
             before == BySalience(scores, S)
         IN  /\ S \in SUBSET Nat /\ NatOn(scores, S) /\ IsFiniteSet(S) /\ IsOrder(before, S)
             /\ IsRanking(Candidates(b, scores), before, S)
<1> DEFINE S == Below(b, scores)
           before == BySalience(scores, S)
           candidates == Candidates(b, scores)
<1>1. S \in SUBSET DOMAIN b
  BY DEF Below
<1>2. S \in SUBSET Nat /\ IsFiniteSet(S) /\ NatOn(scores, S)
  <2> HIDE DEF S
  <2> QED BY <1>1, FS_Subset DEF AreBuckets, NatOn
<1>3. IsOrder(before, S)
  <2> HIDE DEF S
  <2> QED BY <1>2, BySalienceIsOrder
<1>4. /\ candidates \in Seq(S) /\ Lists(candidates, S)
      /\ \A i, j \in DOMAIN candidates : i < j => MoreSalient(scores, candidates[i], candidates[j])
  BY CandidatesAreListed
<1> HIDE DEF S, candidates
<1>5. \A i, j \in DOMAIN candidates : i < j => <<candidates[i], candidates[j]>> \in before
  <2>1. \A i \in DOMAIN candidates : candidates[i] \in S
    BY <1>4
  <2> QED BY <1>4, <2>1 DEF BySalience
<1>6. IsRanking(candidates, before, S)
  BY <1>4, <1>5 DEF IsRanking
<1> QED BY <1>2, <1>3, <1>6 DEF S, candidates

LEMMA FirstIsRankedBelow ==
  ASSUME NEW S, NEW scores, NEW ids \in SUBSET S, NEW n
  PROVE  /\ First(scores, ids, n) = RankedBelow(BySalience(scores, S), ids, n)
         /\ \A t \in ids : Rank(BySalience(scores, S), ids, t)
                            = Cardinality({u \in ids : Precedes(scores, u, t)})
<1>1. \A t \in ids : Ahead(BySalience(scores, S), ids, t) = {u \in ids : Precedes(scores, u, t)}
  BY DEF Ahead, BySalience, MoreSalient, Precedes
<1> QED BY <1>1 DEF First, RankedBelow, Rank

LEMMA RankingIsInOrder ==
  ASSUME NEW S, NEW scores, IsOrder(BySalience(scores, S), S), NEW ids \in SUBSET S, IsFiniteSet(ids),
         NEW list, IsRanking(list, BySalience(scores, S), ids)
  PROVE  list = InOrder(scores, ids)
<1> DEFINE before == BySalience(scores, S)
           n == Cardinality(ids)
           other == InOrder(scores, ids)
<1>1. IsOrder(before, ids)
  <2>1. IsOrder(before, S) /\ ids \in SUBSET S
    OBVIOUS
  <2> HIDE DEF before
  <2> QED BY <2>1, OrderOfPart
<1>2. \A t \in ids : Rank(before, ids, t) = Cardinality({u \in ids : Precedes(scores, u, t)})
  BY FirstIsRankedBelow
<1>3. n \in Nat
  BY FS_CardinalityType
<1>r. IsRanking(list, before, ids)
  OBVIOUS
<1>4. ASSUME NEW i \in 1..n PROVE other[i] \in ids /\ Rank(before, ids, other[i]) = i - 1
  <2>1. i - 1 \in 0..(n - 1)
    BY <1>3
  <2>2. \E t \in ids : Rank(before, ids, t) = i - 1
    <3> HIDE DEF before
    <3> QED BY <1>1, <2>1, RankIsOnto
  <2>3. \E t \in ids : Cardinality({u \in ids : Precedes(scores, u, t)}) = i - 1
    BY <1>2, <2>2
  <2>4. other[i] = CHOOSE t \in ids : Cardinality({u \in ids : Precedes(scores, u, t)}) = i - 1
    BY DEF InOrder
  <2>5. other[i] \in ids /\ Cardinality({u \in ids : Precedes(scores, u, other[i])}) = i - 1
    <3> HIDE DEF other
    <3> QED BY <2>3, <2>4
  <2> QED BY <1>2, <2>5
<1>5. other = [i \in 1..n |-> other[i]]
  <2> DEFINE Ranked(i) == CHOOSE t \in ids : Cardinality({u \in ids : Precedes(scores, u, t)}) = i - 1
  <2>1. other = [i \in 1..n |-> Ranked(i)]
    BY DEF InOrder
  <2> HIDE DEF Ranked, other, n
  <2> QED BY <2>1
<1>f. IsFiniteSet(ids)
  OBVIOUS
<1> HIDE DEF before, other
<1>6. IsListedByRank(other, before, ids)
  BY <1>4, <1>5 DEF IsListedByRank
<1>7. list = other
  BY ONLY <1>1, <1>6, <1>f, <1>r, RankingIsUnique
<1> QED BY <1>7 DEF other

LEMMA RoomOfTheReserve ==
  LET m == Min({ErrorReserve, ReservoirSize}) IN
  /\ m \in Nat /\ m <= ReservoirSize
  /\ \A k \in Nat : k < m <=> k < ErrorReserve /\ k < ReservoirSize
<1>1. ErrorReserve \in Nat /\ ReservoirSize \in Nat
  BY RetentionAssumption
<1>2. /\ Min({ErrorReserve, ReservoirSize}) \in {ErrorReserve, ReservoirSize}
      /\ \A y \in {ErrorReserve, ReservoirSize} : Min({ErrorReserve, ReservoirSize}) <= y
  <2>1. {ErrorReserve, ReservoirSize} \in SUBSET Nat /\ {ErrorReserve, ReservoirSize} # {}
    BY <1>1
  <2> QED BY <2>1, MinIsElement
<1> DEFINE m == Min({ErrorReserve, ReservoirSize})
<1>3. (m = ErrorReserve \/ m = ReservoirSize) /\ m <= ErrorReserve /\ m <= ReservoirSize
  BY <1>2
<1> HIDE DEF m
<1>4. m \in Nat /\ \A k \in Nat : k < m <=> k < ErrorReserve /\ k < ReservoirSize
  BY <1>1, <1>3
<1> QED BY <1>3, <1>4 DEF m

(* The reservoir is a reserve of the first failures, and then the first of *)
(* what the cap leaves of the rest.                                        *)
LEMMA ReservoirIsRanked ==
  ASSUME NEW b, AreBuckets(b), NEW l, NEW sp, NatOn(Scores(b, l, sp), DOMAIN b), ReservoirSize # 0
  PROVE  LET scores == Scores(b, l, sp)
             S == Below(b, scores)
             before == BySalience(scores, S)
         IN  \E reserved, taken :
               /\ Reservoir(b, l, sp) = reserved \o taken
               /\ IsRanking(reserved, before,
                            RankedBelow(before, Failures(b, S), Min({ErrorReserve, ReservoirSize})))
               /\ IsRanking(taken, before, General(b, before, S, reserved))
<1> DEFINE scores == Scores(b, l, sp)
           S == Below(b, scores)
           before == BySalience(scores, S)
           candidates == Candidates(b, scores)
           m == Min({ErrorReserve, ReservoirSize})
           n == Len(candidates)
<1>1. IsFiniteSet(S) /\ IsOrder(before, S) /\ IsRanking(candidates, before, S)
  BY CandidatesAreRanked
<1>2. Reservoir(b, l, sp) = GeneralPhase(b, candidates, ReservePhase(b, candidates))
  BY DEF Reservoir
<1>3. m \in Nat /\ \A k \in Nat : k < m <=> k < ErrorReserve /\ k < ReservoirSize
  BY RoomOfTheReserve
<1> HIDE DEF candidates, before, S, scores, m, n
<1>4. candidates \in Seq(S) /\ Lists(candidates, S) /\ n \in Nat
  BY <1>1 DEF IsRanking, n
<1>5. PICK reserves \in [0..n -> Seq(S)] :
        /\ IsReserveRun(reserves, b, candidates)
        /\ ReservePhase(b, candidates) = reserves[n]
  BY <1>4, ReservePhaseIsARun DEF n
<1>r. PICK reserved : reserved = reserves[n]
  OBVIOUS
<1>6. reserved \in Seq(S) /\ n \in 0..n
  BY <1>4, <1>5, <1>r
<1>7. IsRanking(reserved, before, RankedBelow(before, Failures(b, S), m))
  <2>1. reserves \in [0..Len(candidates) -> Seq(S)]
    BY <1>5 DEF n
  <2>2. IsRanking(reserves[Len(candidates)], before, RankedBelow(before, Failures(b, S), m))
    BY <1>1, <1>3, <1>5, <2>1, ReserveIsFirst
  <2> QED BY <1>r, <2>2 DEF n
<1>8. Len(reserved) <= ReservoirSize
  <2>1. reserves \in [0..Len(candidates) -> Seq(S)]
    BY <1>5 DEF n
  <2>2. \A i \in 0..Len(candidates) : IsReserved(reserves[i], b, candidates, i)
    BY <1>4, <1>5, <2>1, ReservedAlongARun
  <2>3. IsReserved(reserved, b, candidates, n)
    BY <1>6, <1>r, <2>2 DEF n
  <2> QED BY <2>3 DEF IsReserved
<1>9. PICK run :
        /\ \A i \in 0..Len(candidates) : run[i].admitted \in Seq(S)
        /\ IsAdmitRun(run, b, candidates, reserved)
        /\ GeneralPhase(b, candidates, reserved) = run[Len(candidates)].admitted
  <2>1. candidates \in Seq(S)
    BY <1>4
  <2>2. reserved \in Seq(S)
    BY <1>6
  <2> QED BY ONLY <2>1, <2>2, GeneralPhaseIsARun
<1>10. PICK taken : /\ run[Len(candidates)].admitted = reserved \o taken
                   /\ IsRanking(taken, before, General(b, before, S, reserved))
  BY <1>1, <1>6, <1>8, <1>9, GeneralIsReference
<1>11. Reservoir(b, l, sp) = reserved \o taken
  BY <1>2, <1>5, <1>9, <1>10, <1>r
<1> QED BY <1>7, <1>10, <1>11 DEF before, S, scores, m

(* The two greedy phases of admit_reservoir, whose budgets run out one     *)
(* before the other, keep what a reading without order asks for, in order: *)
(* for any buckets, scores, bounds and shapes.                             *)
THEOREM ReservoirIsAlwaysTheReference == RetentionSpec => []ReservoirIsReference
<1> DEFINE scores == Scores(buckets, lines, surprise)
           S == Below(buckets, scores)
           before == BySalience(scores, S)
           reservoir == Reservoir(buckets, lines, surprise)
           m == Min({ErrorReserve, ReservoirSize})
           failures == {t \in S : ErrorClass(buckets[t])}
           first == First(scores, failures, m)
           rest == S \ first
           capped == {t \in rest : PerKindCap > 0 =>
                        t \in First(scores, OfKind(rest, Kind(buckets[t])), PerKindCap)}
           general == First(scores, capped, ReservoirSize - Cardinality(first))
<1>1. ASSUME IInv PROVE reservoir = InOrder(scores, first) \o InOrder(scores, general)
  <2>1. AreBuckets(buckets) /\ NatOn(scores, DOMAIN buckets)
    BY <1>1, ScoreOfABucket DEF IInv
  <2>2. S \in SUBSET DOMAIN buckets /\ IsFiniteSet(S)
    <3>1. S \in SUBSET DOMAIN buckets
      BY DEF Below
    <3> HIDE DEF S
    <3> QED BY <2>1, <3>1, FS_Subset DEF AreBuckets
  <2>3. failures \in SUBSET S /\ first \in SUBSET failures /\ rest \in SUBSET S
        /\ capped \in SUBSET rest /\ general \in SUBSET capped
    BY DEF First
  <2>4. IsFiniteSet(failures) /\ IsFiniteSet(first) /\ IsFiniteSet(capped) /\ IsFiniteSet(general)
    <3>1. failures \in SUBSET S /\ first \in SUBSET S /\ capped \in SUBSET S /\ general \in SUBSET S
      BY <2>3
    <3> HIDE DEF failures, first, capped, general, S
    <3> QED BY <2>2, <3>1, FS_Subset
  <2>5. m \in Nat /\ m <= ReservoirSize /\ ReservoirSize \in Nat /\ PerKindCap \in Nat
    BY RoomOfTheReserve, RetentionAssumption
  <2>6. CASE ReservoirSize = 0
    <3>1. reservoir \in Seq(DOMAIN buckets \ TopK(buckets)) /\ Len(reservoir) <= ReservoirSize
      BY <2>1, ReservoirIsListed
    <3> HIDE DEF reservoir
    <3>2. reservoir = << >>
      BY <2>6, <3>1
    <3>3. ASSUME NEW ids, IsFiniteSet(ids), NEW room, room <= 0, room \in Int
          PROVE  First(scores, ids, room) = {}
      <4> SUFFICES ASSUME NEW t \in ids, Cardinality({u \in ids : Precedes(scores, u, t)}) < room
                   PROVE  FALSE
        BY DEF First
      <4> DEFINE ahead == {u \in ids : Precedes(scores, u, t)}
      <4>1. ahead \in SUBSET ids
        OBVIOUS
      <4> HIDE DEF ahead
      <4>2. IsFiniteSet(ahead)
        BY <3>3, <4>1, FS_Subset
      <4>3. Cardinality(ahead) \in Nat
        BY <4>2, FS_CardinalityType
      <4> QED BY <3>3, <4>3 DEF ahead
    <3>4. m <= 0 /\ m \in Int
      BY <2>5, <2>6
    <3>5. first = {}
      <4> HIDE DEF failures, scores, m
      <4> QED BY <2>4, <3>3, <3>4
    <3>6. Cardinality(first) = 0
      BY <3>5, EmptyCount
    <3>7. general = {}
      <4> DEFINE room == ReservoirSize - Cardinality(first)
      <4>1. room <= 0 /\ room \in Int
        BY <2>6, <3>6
      <4> HIDE DEF capped, room, scores
      <4>2. First(scores, capped, room) = {}
        BY <2>4, <3>3, <4>1
      <4> QED BY <4>2 DEF room
    <3>8. InOrder(scores, {}) = << >>
      <4>1. Cardinality({}) = 0
        BY EmptyCount
      <4> QED BY <4>1 DEF InOrder
    <3>9. << >> \o << >> = << >>
      OBVIOUS
    <3> HIDE DEF first, general, scores
    <3> QED BY <3>2, <3>5, <3>7, <3>8, <3>9
  <2>7. CASE ReservoirSize # 0
    <3>1. IsOrder(before, S)
      BY <2>1, <2>7, CandidatesAreRanked
    <3>2. PICK reserved, taken :
            /\ reservoir = reserved \o taken
            /\ IsRanking(reserved, before, RankedBelow(before, Failures(buckets, S), m))
            /\ IsRanking(taken, before, General(buckets, before, S, reserved))
      BY <2>1, <2>7, ReservoirIsRanked
    <3>3. \A ids \in SUBSET S : \A k : First(scores, ids, k) = RankedBelow(before, ids, k)
      <4> HIDE DEF S, scores
      <4> QED BY FirstIsRankedBelow
    <3>4. first = RankedBelow(before, Failures(buckets, S), m)
      <4>1. failures = Failures(buckets, S)
        BY DEF Failures
      <4> HIDE DEF S, before, scores, m
      <4> QED BY <2>3, <3>3, <4>1
    <3>5. Range(reserved) = first /\ Len(reserved) = Cardinality(first)
      <4>1. IsRanking(reserved, before, first)
        BY <3>2, <3>4
      <4> HIDE DEF first
      <4> QED BY <4>1 DEF IsRanking, Lists
    <3>6. capped = Capped(buckets, before, rest)
      <4>1. \A t \in rest : OfKind(rest, Kind(buckets[t])) = Kin(buckets, rest, t)
        BY DEF OfKind, Kin
      <4>2. \A t \in rest : Kin(buckets, rest, t) \in SUBSET S
        BY <2>3 DEF Kin
      <4> HIDE DEF rest, S, before, scores
      <4>3. \A t \in rest : First(scores, OfKind(rest, Kind(buckets[t])), PerKindCap)
                             = RankedBelow(before, Kin(buckets, rest, t), PerKindCap)
        BY <3>3, <4>1, <4>2
      <4> QED BY <4>3 DEF Capped
    <3>7. general = General(buckets, before, S, reserved)
      <4>1. general = RankedBelow(before, capped, ReservoirSize - Cardinality(first))
        <5>1. capped \in SUBSET S
          BY <2>3
        <5> HIDE DEF capped, S, before, scores, first
        <5> QED BY <3>3, <5>1
      <4>2. rest = S \ Range(reserved)
        BY <3>5
      <4> HIDE DEF capped, S, before, first, general, rest
      <4> QED BY <3>5, <3>6, <4>1, <4>2 DEF General
    <3>8. reserved = InOrder(scores, first)
      <4>1. IsRanking(reserved, before, first) /\ first \in SUBSET S
        BY <2>3, <3>2, <3>4
      <4> HIDE DEF first, S, scores
      <4> QED BY <2>4, <3>1, <4>1, RankingIsInOrder
    <3>9. taken = InOrder(scores, general)
      <4>1. IsRanking(taken, before, general) /\ general \in SUBSET S
        BY <2>3, <3>2, <3>7
      <4> HIDE DEF general, S, scores
      <4> QED BY <2>4, <3>1, <4>1, RankingIsInOrder
    <3> HIDE DEF reservoir, first, general, scores
    <3> QED BY <3>2, <3>8, <3>9
  <2> QED BY <2>6, <2>7
<1>2. IInv => ReservoirIsReference
  <2>1. Below(buckets, scores) = {t \in DOMAIN buckets \ TopK(buckets) : scores[t] > 0}
    BY DEF Below
  <2> QED BY <1>1, <2>1 DEF ReservoirIsReference
<1> QED BY <1>2, CasesAreTyped, PTL


-----------------------------------------------------------------------------
(* Sums of a graph *)

(* What leaves a source is a number, and no less than any one edge of it.  *)
LEMMA OutgoingCovers ==
  ASSUME NEW g, IsGraph(g), NEW from
  PROVE  /\ Outgoing(g, from) \in Nat
         /\ \A e \in Leaving(g, from) : g[e] <= Outgoing(g, from)
<1> DEFINE row == Leaving(g, from)
<1>1. IsFiniteSet(row) /\ \A e \in row : g[e] \in Nat
  BY FS_Subset DEF Leaving, IsGraph
<1> HIDE DEF row
<1>2. NatOn(g, row) /\ SumFunctionOnSet(g, row) \in Nat
  BY <1>1, SumIsNat DEF NatOn
<1>3. ASSUME NEW e \in row PROVE g[e] <= SumFunctionOnSet(g, row)
  <2>1. SumFunctionOnSet(g, row) = g[e] + SumFunctionOnSet(g, row \ {e})
    BY <1>1, SumRemove
  <2>2. IsFiniteSet(row \ {e}) /\ \A x \in row \ {e} : g[x] \in Nat
    BY <1>1, FS_Subset
  <2>3. SumFunctionOnSet(g, row \ {e}) \in Nat
    BY <2>2, SumIsNat
  <2> QED BY <1>1, <2>1, <2>3
<1> QED BY <1>2, <1>3 DEF Outgoing, row

(* The tables of the cases are tables of n-grams over their ids.           *)
IsTable(table) ==
  /\ IsFiniteSet(DOMAIN table)
  /\ DOMAIN table \subseteq Grams
  /\ \A gram \in DOMAIN table : table[gram] \in Nat \ {0}

LEMMA CasesAreAGraph ==
  ASSUME NEW table, IsTable(table)
  PROVE  IsGraph(Transitions(table)) /\ DOMAIN Transitions(table) \subseteq Ids \X Ids
<1>1. \A gram \in DOMAIN table : gram[1] \in Ids /\ gram[2] \in Ids
  BY GramsAssumption DEF IsTable
<1>2. Ids \subseteq Nat
  BY DEF Ids
<1>3. AreGrams(table)
  BY <1>1, <1>2 DEF IsTable, AreGrams
<1>4. Edges(table) \subseteq Ids \X Ids
  BY <1>1 DEF Edges
<1> QED BY <1>3, <1>4, TransitionsAreAGraph

-----------------------------------------------------------------------------
(* The likeliest edge into a node *)

(* The ratios, compared by cross multiplying and then by count.            *)
AtMost(count, total, best) ==
  \/ count * best.total < best.count * total
  \/ count * best.total = best.count * total /\ count <= best.count

Bests == [count : Nat, total : Nat \ {0}]

None == [count |-> 0, total |-> 1]

(* A product is compared as its factors are.                               *)
LEMMA Cancel ==
  ASSUME NEW x \in Nat, NEW y \in Nat, NEW k \in Nat \ {0}
  PROVE  (x * k <= y * k => x <= y) /\ (x <= y => x * k <= y * k)
         /\ (x * k = y * k => x = y)
OBVIOUS

LEMMA AtMostIsTransitive ==
  \A c1, c2, c3 \in Nat, t1, t2, t3 \in Nat \ {0} :
    /\ c1 * t2 < c2 * t1 \/ (c1 * t2 = c2 * t1 /\ c1 <= c2)
    /\ c2 * t3 < c3 * t2 \/ (c2 * t3 = c3 * t2 /\ c2 <= c3)
    => c1 * t3 < c3 * t1 \/ (c1 * t3 = c3 * t1 /\ c1 <= c3)
OBVIOUS

LEMMA RatioBelowAFifth ==
  \A c, bc \in Nat, t, bt \in Nat \ {0} :
    (c * bt < bc * t \/ c * bt = bc * t) /\ bc * 5 < bt => c * 5 < t
OBVIOUS

(* One edge of the walk. *)
TakeInto(g, to, best, e) == IF e[2] = to THEN Likelier(g, best, e) ELSE best

(* The search keeps what it has or takes the edge, and never goes down.    *)
LEMMA TakeIntoDoes ==
  ASSUME NEW g, IsGraph(g), NEW to, NEW best \in Bests, NEW e \in DOMAIN g
  PROVE  LET new == TakeInto(g, to, best, e)
             edge == [count |-> g[e], total |-> Outgoing(g, e[1])]
         IN  /\ new \in Bests
             /\ new = best \/ (e[2] = to /\ new = edge)
             /\ AtMost(best.count, best.total, new)
             /\ e[2] = to => AtMost(g[e], Outgoing(g, e[1]), new)
<1> DEFINE total == Outgoing(g, e[1])
           edge == [count |-> g[e], total |-> total]
           new == TakeInto(g, to, best, e)
<1>1. e \in Leaving(g, e[1])
  BY DEF Leaving
<1>2. g[e] \in Nat \ {0} /\ total \in Nat \ {0}
  <2>1. total \in Nat /\ g[e] <= total /\ g[e] \in Nat \ {0}
    BY <1>1, OutgoingCovers DEF IsGraph
  <2> QED BY <2>1
<1>3. best.count \in Nat /\ best.total \in Nat \ {0} /\ edge \in Bests
  BY <1>2 DEF Bests
<1>4. new = IF e[2] = to
              /\ (g[e] * best.total > best.count * total
                    \/ (g[e] * best.total = best.count * total /\ g[e] > best.count))
            THEN edge ELSE best
  BY DEF TakeInto, Likelier
<1> HIDE DEF total, new
<1>5. g[e] * best.total \in Nat /\ best.count * total \in Nat
  BY <1>2, <1>3
<1>6. AtMost(best.count, best.total, best) /\ AtMost(g[e], total, edge)
  BY <1>2, <1>3 DEF AtMost
<1>7. CASE new = edge /\ e[2] = to /\ (g[e] * best.total > best.count * total
                    \/ (g[e] * best.total = best.count * total /\ g[e] > best.count))
  <2>1. AtMost(best.count, best.total, edge)
    BY <1>2, <1>3, <1>5, <1>7 DEF AtMost
  <2> QED BY <1>3, <1>6, <1>7, <2>1 DEF new, total
<1>8. CASE new = best /\ (e[2] = to => ~(g[e] * best.total > best.count * total
                    \/ (g[e] * best.total = best.count * total /\ g[e] > best.count)))
  <2>1. e[2] = to => AtMost(g[e], total, best)
    BY <1>2, <1>3, <1>5, <1>8 DEF AtMost
  <2> QED BY <1>6, <1>8, <2>1 DEF new, total
<1> QED BY <1>4, <1>7, <1>8

(* The search is a run of such steps.                                      *)
LEMMA LikeliestIsARun ==
  ASSUME NEW g, IsGraph(g), NEW to, NEW order, Walks(order, g)
  PROVE  \E run \in [0..Len(order) -> Bests] :
           /\ run[0] = None
           /\ \A i \in 1..Len(order) : run[i] = TakeInto(g, to, run[i - 1], order[i])
           /\ LikeliestInto(g, to, order) = run[Len(order)]
<1> DEFINE n == Len(order)
           D == DOMAIN order
           Step(it, s) == IF s = {} THEN None
                          ELSE TakeInto(g, to, it[s \ {Max(s)}], order[Max(s)])
           IsIter(it) == it = [s \in SUBSET D |-> Step(it, s)]
           iter == CHOOSE it : IsIter(it)
           step == [p \in Bests \X (1..n) |-> TakeInto(g, to, p[1], order[p[2]])]
<1>1. D = 1..n /\ n \in Nat /\ \A i \in 1..n : order[i] \in DOMAIN g
  BY DEF Walks
<1>2. LikeliestInto(g, to, order) = iter[D]
  BY Zenon DEF LikeliestInto, FoldLeft, MapThenFoldSet, TakeInto, None
<1> HIDE DEF D, n
<1>b. None \in Bests
  BY DEF None, Bests
<1>3. step \in [Bests \X (1..n) -> Bests]
  <2>1. ASSUME NEW p \in Bests \X (1..n) PROVE TakeInto(g, to, p[1], order[p[2]]) \in Bests
    BY <1>1, TakeIntoDoes
  <2> QED BY <2>1
<1> HIDE DEF step
<1>4. PICK it \in [SUBSET (1..n) -> Bests] : IsFold(it, step, None, n)
  BY <1>1, <1>3, <1>b, FoldExists
<1>5. IsIter(it)
  <2>1. ASSUME NEW s \in SUBSET (1..n) PROVE it[s] = Step(it, s)
    <3>1. s # {} => Max(s) \in 1..n
      BY <1>1, MaxOfPart
    <3>2. it[s \ {Max(s)}] \in Bests
      BY <1>4
    <3>3. it[s] = IF s = {} THEN None ELSE step[<<it[s \ {Max(s)}], Max(s)>>]
      BY <1>4 DEF IsFold
    <3> QED BY <3>1, <3>2, <3>3 DEF step
  <2> QED BY <1>1, <1>4, <2>1
<1>6. IsIter(iter)
  BY <1>5
<1> HIDE DEF iter
<1>7. iter[{}] = None
  BY <1>6
<1>8. ASSUME NEW s \in SUBSET (1..n), s # {}, iter[s \ {Max(s)}] \in Bests
      PROVE  iter[s] = step[<<iter[s \ {Max(s)}], Max(s)>>]
  <2>1. Max(s) \in 1..n
    BY <1>1, <1>8, MaxOfPart
  <2>2. iter[s] = Step(iter, s)
    BY <1>1, <1>6
  <2> QED BY <1>8, <2>1, <2>2 DEF step
<1> HIDE DEF Step, IsIter
<1>n. n \in Nat
  BY <1>1
<1>s. StepsBy(iter, step, n, Bests)
  BY <1>8 DEF StepsBy
<1>9. PICK run \in [0..n -> Bests] : IsStepRun(run, step, None, n) /\ run[n] = iter[1..n]
  BY ONLY <1>n, <1>3, <1>7, <1>s, <1>b, StepsAreARun
<1>10. ASSUME NEW i \in 1..n PROVE run[i] = TakeInto(g, to, run[i - 1], order[i])
  <2>1. i - 1 \in 0..n
    BY <1>n
  <2> QED BY <1>9, <2>1 DEF IsStepRun, step
<1> QED BY <1>1, <1>2, <1>9, <1>10 DEF n, IsStepRun

(* What the search finds, said without the order.                          *)
IsLikeliest(g, to, best) ==
  /\ best \in Bests
  /\ best = None \/ \E e \in DOMAIN g : e[2] = to /\ best = [count |-> g[e], total |-> Outgoing(g, e[1])]
  /\ \A e \in DOMAIN g : e[2] = to => AtMost(g[e], Outgoing(g, e[1]), best)

(* What it finds after each step is that, of the edges seen so far.        *)
LEMMA LikeliestIsLikeliest ==
  ASSUME NEW g, IsGraph(g), NEW to, NEW order, Walks(order, g)
  PROVE  IsLikeliest(g, to, LikeliestInto(g, to, order))
<1> DEFINE n == Len(order)
           Edge(e) == [count |-> g[e], total |-> Outgoing(g, e[1])]
<1>1. n \in Nat /\ \A i \in 1..n : order[i] \in DOMAIN g
  BY DEF Walks
<1>2. PICK run \in [0..n -> Bests] :
        /\ run[0] = None
        /\ \A i \in 1..n : run[i] = TakeInto(g, to, run[i - 1], order[i])
        /\ LikeliestInto(g, to, order) = run[n]
  BY LikeliestIsARun
<1> HIDE DEF n, Edge
<1> DEFINE Found(i) == run[i] = None \/ \E j \in 1..i : order[j][2] = to /\ run[i] = Edge(order[j])
           Beaten(i) == \A j \in 1..i : order[j][2] = to =>
                          AtMost(g[order[j]], Outgoing(g, order[j][1]), run[i])
           P == {i \in 0..n : Found(i) /\ Beaten(i)}
<1>3. 0 \in P
  BY <1>1, <1>2
<1>4. ASSUME NEW i \in 1..n, i - 1 \in P PROVE i \in P
  <2> DEFINE old == run[i - 1]
             new == run[i]
             e == order[i]
  <2>1. i - 1 \in 0..n /\ i \in 0..n /\ i \in Nat /\ old \in Bests /\ new \in Bests
    BY <1>1, <1>2
  <2>2. e \in DOMAIN g /\ new = TakeInto(g, to, old, e)
    BY <1>1, <1>2
  <2>3. /\ new = old \/ (e[2] = to /\ new = Edge(e))
        /\ AtMost(old.count, old.total, new)
        /\ e[2] = to => AtMost(g[e], Outgoing(g, e[1]), new)
    BY <2>1, <2>2, TakeIntoDoes DEF Edge
  <2>4. Found(i - 1) /\ Beaten(i - 1)
    BY <1>4
  <2>5. Found(i)
    <3>1. CASE new = old
      BY <2>1, <2>4, <3>1
    <3>2. CASE e[2] = to /\ new = Edge(e)
      BY <2>1, <3>2
    <3> QED BY <2>3, <3>1, <3>2
  <2>6. Beaten(i)
    <3> SUFFICES ASSUME NEW j \in 1..i, order[j][2] = to
                 PROVE  AtMost(g[order[j]], Outgoing(g, order[j][1]), new)
      OBVIOUS
    <3>1. CASE j = i
      BY <2>3, <3>1
    <3>2. CASE j # i
      <4>1. j \in 1..(i - 1) /\ j \in 1..n
        BY <1>1, <2>1, <3>2
      <4>2. AtMost(g[order[j]], Outgoing(g, order[j][1]), old)
        BY <2>4, <4>1
      <4>3. g[order[j]] \in Nat \ {0} /\ Outgoing(g, order[j][1]) \in Nat
            /\ g[order[j]] <= Outgoing(g, order[j][1])
        BY <1>1, <4>1, OutgoingCovers DEF IsGraph, Leaving
      <4> DEFINE c1 == g[order[j]]
                 t1 == Outgoing(g, order[j][1])
                 c2 == old.count
                 t2 == old.total
                 c3 == new.count
                 t3 == new.total
      <4>4. /\ c1 \in Nat /\ c2 \in Nat /\ c3 \in Nat
            /\ t1 \in Nat \ {0} /\ t2 \in Nat \ {0} /\ t3 \in Nat \ {0}
        <5>1. t1 # 0
          BY <4>3
        <5> QED BY <2>1, <4>3, <5>1 DEF Bests
      <4>5. /\ c1 * t2 < c2 * t1 \/ (c1 * t2 = c2 * t1 /\ c1 <= c2)
            /\ c2 * t3 < c3 * t2 \/ (c2 * t3 = c3 * t2 /\ c2 <= c3)
        BY <2>3, <4>2 DEF AtMost
      <4> HIDE DEF c1, c2, c3, t1, t2, t3
      <4>6. c1 * t3 < c3 * t1 \/ (c1 * t3 = c3 * t1 /\ c1 <= c3)
        BY ONLY <4>4, <4>5, AtMostIsTransitive
      <4> QED BY <4>6 DEF AtMost, c1, c3, t1, t3
    <3> QED BY <3>1, <3>2
  <2> QED BY <2>1, <2>5, <2>6
<1>5. n \in P
  <2>1. 0..n \subseteq P
    <3> HIDE DEF P
    <3> QED BY <1>1, <1>3, <1>4, RunInduction
  <2> QED BY <1>1, <2>1
<1>6. run[n] \in Bests
  BY <1>1
<1>7. run[n] = None \/ \E e \in DOMAIN g : e[2] = to /\ run[n] = Edge(e)
  BY <1>1, <1>5
<1>8. ASSUME NEW e \in DOMAIN g, e[2] = to PROVE AtMost(g[e], Outgoing(g, e[1]), run[n])
  <2>1. PICK j \in 1..n : order[j] = e
    BY DEF Walks, n
  <2> QED BY <1>5, <1>8, <2>1
<1> QED BY <1>2, <1>6, <1>7, <1>8 DEF IsLikeliest, Edge

(* It says which ratio that is: two such are equal.                        *)
LEMMA LikeliestIsOne ==
  ASSUME NEW g, IsGraph(g), NEW to, NEW a, NEW b, IsLikeliest(g, to, a), IsLikeliest(g, to, b)
  PROVE  a = b
<1>1. a \in Bests /\ b \in Bests
  BY DEF IsLikeliest
<1>2. ASSUME NEW x, NEW y, IsLikeliest(g, to, x), IsLikeliest(g, to, y), x # None
      PROVE  AtMost(x.count, x.total, y) /\ y # None
  <2>1. PICK e \in DOMAIN g : e[2] = to /\ x = [count |-> g[e], total |-> Outgoing(g, e[1])]
    BY <1>2 DEF IsLikeliest
  <2>2. AtMost(x.count, x.total, y)
    BY <1>2, <2>1 DEF IsLikeliest
  <2>3. x.count \in Nat \ {0} /\ x.total \in Nat
    BY <1>2, <2>1 DEF IsGraph, IsLikeliest, Bests
  <2>4. y # None
    BY <2>2, <2>3 DEF AtMost, None
  <2> QED BY <2>2, <2>4
<1>3. CASE a = None \/ b = None
  BY <1>2, <1>3
<1>4. CASE a # None /\ b # None
  <2>1. AtMost(a.count, a.total, b) /\ AtMost(b.count, b.total, a)
    BY <1>2, <1>4
  <2>2. PICK ac \in Nat, at \in Nat \ {0} : a = [count |-> ac, total |-> at]
    BY <1>1 DEF Bests
  <2>3. PICK bc \in Nat, bt \in Nat \ {0} : b = [count |-> bc, total |-> bt]
    BY <1>1 DEF Bests
  <2>4. ac # 0
    <3>1. a.count # 0
      BY <1>4 DEF IsLikeliest, IsGraph
    <3> QED BY <2>2, <3>1
  <2>5. ac * bt \in Nat /\ bc * at \in Nat
    BY <2>2, <2>3
  <2>6. ac * bt = bc * at /\ ac = bc
    BY <2>1, <2>2, <2>3, <2>5 DEF AtMost
  <2>7. bt * ac = at * ac
    BY <2>2, <2>3, <2>6
  <2>8. bt = at
    BY <2>2, <2>3, <2>4, <2>7, Cancel
  <2> QED BY <2>2, <2>3, <2>6, <2>8
<1> QED BY <1>3, <1>4

(* Whatever order the graph is walked in, a node is as surprising.         *)
LEMMA SurpriseHasNoOrder ==
  ASSUME NEW g, IsGraph(g), NEW to, NEW order, Walks(order, g), NEW other, Walks(other, g)
  PROVE  SurpriseInOrder(g, to, order) = SurpriseInOrder(g, to, other)
<1>1. LikeliestInto(g, to, order) = LikeliestInto(g, to, other)
  BY LikeliestIsLikeliest, LikeliestIsOne
<1> QED BY <1>1 DEF SurpriseInOrder

LEMMA BandOfARareEdge ==
  ASSUME NEW c \in Nat, NEW t \in Nat
  PROVE  Bands!SurpriseBand(c, t) > 0 <=> c >= 2 /\ c * 5 < t
BY DEF Bands!SurpriseBand

(* Of two ratios neither of which is the greater.                          *)
LEMMA EqualRatios ==
  ASSUME NEW c \in Nat, NEW t \in Nat, NEW bc \in Nat, NEW bt \in Nat,
         c * bt < bc * t \/ (c * bt = bc * t /\ c <= bc), bc * t <= c * bt
  PROVE  c <= bc
<1> DEFINE x == c * bt
           y == bc * t
<1>1. x \in Nat /\ y \in Nat
  OBVIOUS
<1>2. (x < y \/ (x = y /\ c <= bc)) /\ y <= x
  OBVIOUS
<1> HIDE DEF x, y
<1> QED BY <1>1, <1>2

(* Every edge into a node is rare, and one of the likeliest no accident.   *)
RareInto(g, to) ==
  /\ \A e \in DOMAIN g : e[2] = to => g[e] * 5 < Outgoing(g, e[1])
  /\ \E e \in DOMAIN g :
       /\ e[2] = to /\ g[e] >= 2
       /\ \A f \in DOMAIN g : f[2] = to => g[f] * Outgoing(g, e[1]) <= g[e] * Outgoing(g, f[1])

LEMMA RarityIsSurprise ==
  ASSUME NEW g, IsGraph(g), NEW to, RareInto(g, to)
  PROVE  IncomingSurprise(g, to) > 0
<1> DEFINE best == LikeliestInto(g, to, AnyOrder(g))
           bc == best.count
           bt == best.total
<1>1. IsLikeliest(g, to, best)
  BY EveryOrderWalks, LikeliestIsLikeliest
<1>2. IncomingSurprise(g, to) = Bands!SurpriseBand(bc, bt)
  BY DEF IncomingSurprise, SurpriseInOrder
<1> HIDE DEF best
<1>3. bc \in Nat /\ bt \in Nat \ {0}
  BY <1>1 DEF IsLikeliest, Bests
<1>4. PICK e \in DOMAIN g :
        /\ e[2] = to /\ g[e] >= 2
        /\ \A f \in DOMAIN g : f[2] = to => g[f] * Outgoing(g, e[1]) <= g[e] * Outgoing(g, f[1])
  BY DEF RareInto
<1> DEFINE c == g[e]
           t == Outgoing(g, e[1])
<1>5. c \in Nat \ {0} /\ t \in Nat /\ c >= 2
  BY <1>4, OutgoingCovers DEF IsGraph
<1>6. c * bt < bc * t \/ (c * bt = bc * t /\ c <= bc)
  BY <1>1, <1>4 DEF IsLikeliest, AtMost
<1>7. best # None
  <2> SUFFICES ASSUME best = None PROVE FALSE
    OBVIOUS
  <2>1. bc = 0 /\ bt = 1
    BY DEF None
  <2> HIDE DEF bc, bt, c, t
  <2> QED BY <1>5, <1>6, <2>1
<1>8. PICK b \in DOMAIN g : b[2] = to /\ best = [count |-> g[b], total |-> Outgoing(g, b[1])]
  BY <1>1, <1>7 DEF IsLikeliest
<1>9. bc * 5 < bt /\ bc * t <= c * bt
  BY <1>4, <1>8 DEF RareInto
<1> HIDE DEF bc, bt, c, t
<1>10. c <= bc
  BY ONLY <1>3, <1>5, <1>6, <1>9, EqualRatios
<1>11. bc >= 2
  BY <1>3, <1>5, <1>10
<1> QED BY <1>2, <1>3, <1>9, <1>11, BandOfARareEdge

(* A surprising node: every edge into it is rare, and one is no accident.  *)
LEMMA SurpriseIsRarity ==
  ASSUME NEW g, IsGraph(g), NEW to, IncomingSurprise(g, to) > 0
  PROVE  RareInto(g, to)
<1> DEFINE best == LikeliestInto(g, to, AnyOrder(g))
<1>1. IsLikeliest(g, to, best)
  BY EveryOrderWalks, LikeliestIsLikeliest
<1>2. IncomingSurprise(g, to) = Bands!SurpriseBand(best.count, best.total)
  BY DEF IncomingSurprise, SurpriseInOrder
<1> HIDE DEF best
<1>3. best.count \in Nat /\ best.total \in Nat \ {0}
  BY <1>1 DEF IsLikeliest, Bests
<1>4. best.count >= 2 /\ best.count * 5 < best.total
  BY <1>2, <1>3, BandOfARareEdge
<1>5. \E e \in DOMAIN g :
        /\ e[2] = to /\ g[e] >= 2
        /\ \A f \in DOMAIN g : f[2] = to => g[f] * Outgoing(g, e[1]) <= g[e] * Outgoing(g, f[1])
  <2>1. best # None
    BY <1>4 DEF None
  <2>2. PICK e \in DOMAIN g : e[2] = to /\ best = [count |-> g[e], total |-> Outgoing(g, e[1])]
    BY <1>1, <2>1 DEF IsLikeliest
  <2>3. ASSUME NEW f \in DOMAIN g, f[2] = to
        PROVE  g[f] * Outgoing(g, e[1]) <= g[e] * Outgoing(g, f[1])
    <3> DEFINE x == g[f] * Outgoing(g, e[1])
               y == g[e] * Outgoing(g, f[1])
    <3>1. x < y \/ x = y
      BY <1>1, <2>2, <2>3 DEF IsLikeliest, AtMost
    <3>2. x \in Nat /\ y \in Nat
      BY OutgoingCovers DEF IsGraph
    <3> HIDE DEF x, y
    <3>3. x <= y
      BY <3>1, <3>2
    <3> QED BY <3>3 DEF x, y
  <2> QED BY <1>4, <2>2, <2>3
<1>6. ASSUME NEW e \in DOMAIN g, e[2] = to PROVE g[e] * 5 < Outgoing(g, e[1])
  <2> DEFINE c == g[e]
             t == Outgoing(g, e[1])
             bc == best.count
             bt == best.total
  <2>1. e \in Leaving(g, e[1])
    BY DEF Leaving
  <2>2. c \in Nat \ {0} /\ t \in Nat /\ c <= t
    BY <2>1, OutgoingCovers DEF IsGraph
  <2>3. AtMost(c, t, best)
    BY <1>1, <1>6 DEF IsLikeliest
  <2>4. c * bt < bc * t \/ c * bt = bc * t
    BY <2>3 DEF AtMost
  <2>5. bc \in Nat /\ bt \in Nat \ {0} /\ bc * 5 < bt
    BY <1>3, <1>4
  <2> HIDE DEF c, t, bc, bt
  <2>6. t \in Nat \ {0}
    BY <2>2
  <2>7. c * 5 < t
    BY ONLY <2>2, <2>4, <2>5, <2>6, RatioBelowAFifth
  <2> QED BY <2>7 DEF c, t
<1> QED BY <1>5, <1>6 DEF RareInto

-----------------------------------------------------------------------------
(* The path, whatever the order *)

LEMMA NextHopHasNoOrder ==
  ASSUME NEW g, IsGraph(g), NEW from, NEW order, Walks(order, g), NEW other, Walks(other, g)
  PROVE  NextHop(g, from, order) = NextHop(g, from, other)
BY HeaviestIsHeaviest, HeaviestIsOne DEF NextHop

(* Whatever order the graph is walked in, the path is the same.            *)
LEMMA PathHasNoOrder ==
  ASSUME NEW g, IsGraph(g), NEW order, Walks(order, g), NEW other, Walks(other, g),
         NEW c, StartsIn(c), DominantPathMaxSteps # 0
  PROVE  PathInOrder(g, c, order) = PathInOrder(g, c, other)
<1> DEFINE n == DominantPathMaxSteps
<1>1. n \in Nat
  BY BehaviorAssumption
<1>2. PICK one \in [0..n -> Paths] :
        /\ one[0] = Start(c)
        /\ \A i \in 1..n : one[i] = PathStep(g, one[i - 1], order)
        /\ PathInOrder(g, c, order) = one[n]
  BY PathIsARun
<1>3. PICK two \in [0..n -> Paths] :
        /\ two[0] = Start(c)
        /\ \A i \in 1..n : two[i] = PathStep(g, two[i - 1], other)
        /\ PathInOrder(g, c, other) = two[n]
  BY PathIsARun
<1> HIDE DEF n
<1> DEFINE P == {i \in 0..n : one[i] = two[i]}
<1>4. 0 \in P
  BY <1>1, <1>2, <1>3
<1>5. ASSUME NEW i \in 1..n, i - 1 \in P PROVE i \in P
  <2>1. NextHop(g, Last(one[i - 1]), order) = NextHop(g, Last(one[i - 1]), other)
    BY NextHopHasNoOrder
  <2>2. PathStep(g, one[i - 1], order) = PathStep(g, one[i - 1], other)
    BY <2>1 DEF PathStep
  <2>3. one[i - 1] = two[i - 1] /\ i \in 0..n
    BY <1>1, <1>5
  <2> QED BY <1>2, <1>3, <2>2, <2>3
<1>6. n \in P
  <2>1. 0..n \subseteq P
    <3> HIDE DEF P
    <3> QED BY <1>1, <1>4, <1>5, RunInduction
  <2> QED BY <1>1, <2>1
<1> QED BY <1>2, <1>3, <1>6

LEMMA CountsAreCounts ==
  ASSUME NEW table, IsTable(table), table = ngrams, NEW gram \in DOMAIN table
  PROVE  IsCounts(counts)
<1> DEFINE g == graph
           Entering(id) == {e \in DOMAIN g : e[2] = id}
           Incoming(id) == SumFunctionOnSet(g, Entering(id))
<1>1. IsGraph(g) /\ DOMAIN g \subseteq Ids \X Ids
  BY CasesAreAGraph DEF graph
<1>2. <<gram[1], gram[2]>> \in DOMAIN g
  BY DEF graph, Transitions, Edges
<1>3. counts = [id \in UNION {{e[1], e[2]} : e \in DOMAIN g} |->
                  IF Outgoing(g, id) < Incoming(id) THEN Incoming(id) ELSE Outgoing(g, id)]
  BY DEF counts
<1> HIDE DEF g
<1>4. ASSUME NEW id PROVE Outgoing(g, id) \in Nat /\ Incoming(id) \in Nat
  <2>1. IsFiniteSet(Entering(id)) /\ \A e \in Entering(id) : g[e] \in Nat
    BY <1>1, FS_Subset DEF IsGraph
  <2> HIDE DEF Entering
  <2>2. Incoming(id) \in Nat
    BY <2>1, SumIsNat
  <2> QED BY <1>1, <2>2, OutgoingCovers
<1>5. DOMAIN counts \subseteq Ids /\ gram[1] \in DOMAIN counts
  BY <1>1, <1>2, <1>3
<1>6. \A k \in DOMAIN counts : counts[k] \in Nat
  <2> HIDE DEF Incoming
  <2> QED BY <1>3, <1>4
<1>7. IsFiniteSet(Ids) /\ Ids \subseteq Nat
  <2>1. Len(Templates) \in Nat
    BY GramsAssumption
  <2>2. 0 \in Int /\ Len(Templates) - 1 \in Int
    BY <2>1
  <2> QED BY <2>2, FS_Interval DEF Ids
<1>8. IsFiniteSet(DOMAIN counts)
  BY <1>5, <1>7, FS_Subset
<1>9. DOMAIN counts \subseteq Nat
  BY <1>5, <1>7
<1> QED BY <1>5, <1>6, <1>8, <1>9 DEF IsCounts

-----------------------------------------------------------------------------
(* The top n-grams *)

Sequences == [1..NgramSize -> Nat]

(* Functions that agree everywhere are one.                                *)
LEMMA SameFunction ==
  ASSUME NEW A, NEW B, NEW f \in [A -> B], NEW h \in [A -> B], AgreeOn(f, h, A)
  PROVE  f = h
<1>1. f = [x \in A |-> f[x]] /\ h = [x \in A |-> h[x]]
  OBVIOUS
<1>2. [x \in A |-> f[x]] = [x \in A |-> h[x]]
  BY DEF AgreeOn
<1> QED BY ONLY <1>1, <1>2

(* Sequences are ordered by the first place where they differ.             *)
LEMMA SequencesAreOrdered ==
  /\ \A s \in Sequences : ~SequenceLess(s, s)
  /\ \A s, t, u \in Sequences : SequenceLess(s, t) /\ SequenceLess(t, u) => SequenceLess(s, u)
  /\ \A s, t \in Sequences : s = t \/ SequenceLess(s, t) \/ SequenceLess(t, s)
<1>n. NgramSize \in Nat
  BY GramsAssumption
<1>1. ASSUME NEW s \in Sequences PROVE ~SequenceLess(s, s)
  BY DEF SequenceLess, Sequences
<1>2. ASSUME NEW s \in Sequences, NEW t \in Sequences, NEW u \in Sequences,
             SequenceLess(s, t), SequenceLess(t, u)
      PROVE  SequenceLess(s, u)
  <2>1. PICK i \in 1..NgramSize : s[i] < t[i] /\ \A j \in 1..(i - 1) : s[j] = t[j]
    BY <1>2 DEF SequenceLess, Sequences
  <2>2. PICK k \in 1..NgramSize : t[k] < u[k] /\ \A j \in 1..(k - 1) : t[j] = u[j]
    BY <1>2 DEF SequenceLess, Sequences
  <2>3. \A j \in 1..NgramSize : s[j] \in Nat /\ t[j] \in Nat /\ u[j] \in Nat
    BY DEF Sequences
  <2>4. DOMAIN s = 1..NgramSize
    BY DEF Sequences
  <2>5. CASE i <= k
    <3>1. s[i] < u[i]
      <4>1. i = k \/ i \in 1..(k - 1)
        BY <1>n, <2>5
      <4> QED BY <2>1, <2>2, <2>3, <4>1
    <3>2. \A j \in 1..(i - 1) : s[j] = u[j]
      <4>1. \A j \in 1..(i - 1) : j \in 1..(k - 1)
        BY <1>n, <2>5
      <4> QED BY <2>1, <2>2, <4>1
    <3> QED BY <2>4, <3>1, <3>2 DEF SequenceLess
  <2>6. CASE k < i
    <3>1. s[k] < u[k]
      <4>1. k \in 1..(i - 1)
        BY <1>n, <2>6
      <4> QED BY <2>1, <2>2, <4>1
    <3>2. \A j \in 1..(k - 1) : s[j] = u[j]
      <4>1. \A j \in 1..(k - 1) : j \in 1..(i - 1)
        BY <1>n, <2>6
      <4> QED BY <2>1, <2>2, <4>1
    <3> QED BY <2>4, <3>1, <3>2 DEF SequenceLess
  <2> QED BY <1>n, <2>5, <2>6
<1>3. ASSUME NEW s \in Sequences, NEW t \in Sequences, s # t
      PROVE  SequenceLess(s, t) \/ SequenceLess(t, s)
  <2> DEFINE Differ == {i \in 1..NgramSize : s[i] # t[i]}
  <2>1. \E i : i \in Differ
    <3> SUFFICES ASSUME \A i \in 1..NgramSize : s[i] = t[i] PROVE FALSE
      OBVIOUS
    <3>1. AgreeOn(s, t, 1..NgramSize)
      BY DEF AgreeOn
    <3>2. s \in [1..NgramSize -> Nat] /\ t \in [1..NgramSize -> Nat]
      BY DEF Sequences
    <3> QED BY <1>3, <3>1, <3>2, SameFunction
  <2>2. PICK i \in Differ : \A k \in Differ : i <= k
    <3>1. Differ \in SUBSET Nat
      OBVIOUS
    <3> HIDE DEF Differ
    <3> QED BY <2>1, <3>1, LeastExists
  <2>3. \A j \in 1..(i - 1) : s[j] = t[j]
    BY <1>n, <2>2
  <2>4. s[i] \in Nat /\ t[i] \in Nat /\ DOMAIN s = 1..NgramSize /\ DOMAIN t = 1..NgramSize
    BY DEF Sequences
  <2>5. s[i] < t[i] \/ t[i] < s[i]
    BY <2>2, <2>4
  <2> QED BY <2>2, <2>3, <2>4, <2>5 DEF SequenceLess
<1> QED BY <1>1, <1>2, <1>3

(* The ids of an n-gram render to one sequence of template ids.            *)
LEMMA RenderedIsOne ==
  /\ \A g \in Grams : Rendered(g, Templates) \in Sequences
  /\ \A g, h \in Grams : Rendered(g, Templates) = Rendered(h, Templates) => g = h
<1>1. \A g \in Grams : g \in [1..NgramSize -> Ids]
  BY GramsAssumption
<1>2. \A i \in Ids : i + 1 \in DOMAIN Templates /\ Templates[i + 1] \in Nat /\ i \in Nat
  BY GramsAssumption DEF Ids
<1>3. ASSUME NEW g \in Grams PROVE Rendered(g, Templates) \in Sequences
  <2>1. \A i \in 1..NgramSize : g[i] \in Ids
    BY <1>1
  <2> QED BY <1>1, <1>2, <2>1 DEF Rendered, Sequences
<1>4. ASSUME NEW g \in Grams, NEW h \in Grams, Rendered(g, Templates) = Rendered(h, Templates)
      PROVE  g = h
  <2>1. g \in [1..NgramSize -> Ids] /\ h \in [1..NgramSize -> Ids]
    BY <1>1
  <2>2. ASSUME NEW i \in 1..NgramSize PROVE g[i] = h[i]
    <3>1. Rendered(g, Templates)[i] = Templates[g[i] + 1] /\ Rendered(h, Templates)[i] = Templates[h[i] + 1]
      BY <2>1 DEF Rendered
    <3>2. g[i] \in Ids /\ h[i] \in Ids
      BY <2>1
    <3>3. g[i] + 1 = h[i] + 1
      BY <1>2, <1>4, <3>1, <3>2, GramsAssumption
    <3> QED BY <1>2, <3>2, <3>3
  <2>3. AgreeOn(g, h, 1..NgramSize)
    BY <2>2 DEF AgreeOn
  <2> QED BY <2>1, <2>3, SameFunction
<1> QED BY <1>3, <1>4

(* The order of the top n-grams, as a set of pairs.                        *)
ByFrequency(table) ==
  {p \in (DOMAIN table) \X (DOMAIN table) : MoreFrequent(table, Templates, p[1], p[2])}

LEMMA ByFrequencyIsOrder ==
  ASSUME NEW table, IsTable(table)
  PROVE  /\ IsOrder(ByFrequency(table), DOMAIN table)
         /\ \A g \in DOMAIN table : Ahead(ByFrequency(table), DOMAIN table, g)
                                      = {h \in DOMAIN table : MoreFrequent(table, Templates, h, g)}
<1> DEFINE S == DOMAIN table
           before == ByFrequency(table)
           shown == [g \in S |-> Rendered(g, Templates)]
           Less(g, h) == SequenceLess(shown[g], shown[h])
<1>1. \A g \in S : table[g] \in Nat /\ shown[g] \in Sequences /\ g \in Grams
  BY RenderedIsOne DEF IsTable
<1>2. \A g, h \in S : shown[g] = shown[h] => g = h
  BY <1>1, RenderedIsOne
<1>3. \A g, h \in S : <<g, h>> \in before
                         <=> table[g] > table[h] \/ (table[g] = table[h] /\ Less(g, h))
  BY DEF ByFrequency, MoreFrequent
<1>4. \A g \in S : Ahead(before, S, g) = {h \in S : MoreFrequent(table, Templates, h, g)}
  BY DEF Ahead, ByFrequency
<1> HIDE DEF shown, before
<1>5. /\ \A g \in S : ~Less(g, g)
      /\ \A g, h, k \in S : Less(g, h) /\ Less(h, k) => Less(g, k)
      /\ \A g, h \in S : g = h \/ Less(g, h) \/ Less(h, g)
  BY <1>1, <1>2, SequencesAreOrdered
<1> HIDE DEF S, Less
<1>6. IsOrder(before, S)
  <2>1. \A g \in S : table[g] \in Nat
    BY <1>1
  <2> QED BY <1>3, <1>5, <2>1 DEF IsOrder
<1> QED BY <1>4, <1>6 DEF S, before

LEMMA TopGramsAreFirst ==
  ASSUME NEW table, IsTable(table)
  PROVE  LET top == TopGrams(table, Templates)
             D == DOMAIN table
         IN  /\ top \in SUBSET D
             /\ IsFiniteSet(top)
             /\ Cardinality(top) = IF Cardinality(D) <= TopNgramsSize THEN Cardinality(D)
                                   ELSE TopNgramsSize
             /\ \A g \in top, h \in D \ top : MoreFrequent(table, Templates, g, h)
<1> DEFINE S == DOMAIN table
           before == ByFrequency(table)
           top == TopGrams(table, Templates)
<1>1. IsFiniteSet(S) /\ TopNgramsSize \in Nat
  BY BehaviorAssumption DEF IsTable
<1>2. top = {g \in S : Rank(before, S, g) < TopNgramsSize}
  BY ByFrequencyIsOrder DEF TopGrams, Rank
<1>3. IsOrder(before, S)
  BY ByFrequencyIsOrder
<1>4. ASSUME NEW g \in top, NEW h \in S \ top PROVE MoreFrequent(table, Templates, g, h)
  <2>1. g \in S /\ h \in S /\ g # h
    BY <1>2
  <2>2. ~(<<h, g>> \in before)
    <3> SUFFICES ASSUME <<h, g>> \in before PROVE FALSE
      OBVIOUS
    <3> HIDE DEF before, S, top
    <3>1. Rank(before, S, h) < Rank(before, S, g)
      BY <1>1, <1>3, <2>1, RankGrows
    <3>2. Rank(before, S, h) \in Nat /\ Rank(before, S, g) \in Nat
      BY <1>1, <1>3, <2>1, RankIsBounded
    <3> QED BY <1>1, <1>2, <3>1, <3>2
  <2>3. <<g, h>> \in before
    <3> HIDE DEF before, S, top
    <3> QED BY <1>3, <2>1, <2>2 DEF IsOrder
  <2> QED BY <2>3 DEF ByFrequency
<1> HIDE DEF before, S, top
<1>5. Cardinality(top) = IF Cardinality(S) <= TopNgramsSize THEN Cardinality(S) ELSE TopNgramsSize
  BY <1>1, <1>2, <1>3, FirstByRank
<1>6. top \in SUBSET S /\ IsFiniteSet(top)
  BY <1>1, <1>2, FS_Subset
<1> QED BY <1>4, <1>5, <1>6 DEF S, top

(* What is more frequent, or as frequent and earlier.                      *)
LEMMA MoreFrequentIs ==
  ASSUME NEW table, IsTable(table), NEW g \in DOMAIN table, NEW h \in DOMAIN table,
         MoreFrequent(table, Templates, g, h)
  PROVE  \/ table[h] < table[g]
         \/ table[h] = table[g] /\ Earlier(Rendered(g, Templates), Rendered(h, Templates))
<1> DEFINE s == Rendered(g, Templates)
           t == Rendered(h, Templates)
<1>1. table[g] \in Nat /\ table[h] \in Nat /\ s \in Sequences /\ t \in Sequences
  BY RenderedIsOne DEF IsTable
<1>2. table[g] > table[h] \/ (table[g] = table[h] /\ SequenceLess(s, t))
  BY DEF MoreFrequent
<1> HIDE DEF s, t
<1>3. ASSUME SequenceLess(s, t) PROVE Earlier(s, t)
  <2>1. NgramSize \in Nat /\ DOMAIN s = 1..NgramSize
    BY <1>1, GramsAssumption DEF Sequences
  <2>2. PICK i \in 1..NgramSize : s[i] < t[i] /\ \A j \in 1..(i - 1) : s[j] = t[j]
    BY <1>3, <2>1 DEF SequenceLess
  <2>3. \A j \in 1..NgramSize : s[j] # t[j] => i <= j
    BY <2>1, <2>2
  <2> QED BY <2>1, <2>2, <2>3 DEF Earlier
<1> QED BY <1>1, <1>2, <1>3 DEF s, t

(* Each of them is one entry of the block.                                 *)
LEMMA TopIsTheTop ==
  ASSUME NEW table, IsTable(table)
  PROVE  LET top == TopNgrams(table, Templates)
             kept == {n.sequence : n \in top}
         IN  /\ \A n \in top : n.count <= n.out_of
             /\ Cardinality(top) = (IF Cardinality(DOMAIN table) <= TopNgramsSize
                                    THEN Cardinality(DOMAIN table) ELSE TopNgramsSize)
             /\ \A g, h \in DOMAIN table :
                  LET s == Rendered(g, Templates)
                      t == Rendered(h, Templates)
                  IN  (s \in kept /\ t \notin kept) =>
                        table[h] < table[g] \/ (table[h] = table[g] /\ Earlier(s, t))
<1> DEFINE grams == TopGrams(table, Templates)
           D == DOMAIN table
           Entry(g) == [sequence |-> Rendered(g, Templates), count |-> table[g],
                        out_of |-> PrefixTotal(table, g)]
           entry == [g \in grams |-> Entry(g)]
           top == TopNgrams(table, Templates)
           kept == {n.sequence : n \in top}
<1>1. top = {Entry(g) : g \in grams}
  BY DEF TopNgrams
<1>2. /\ grams \in SUBSET D
      /\ IsFiniteSet(grams)
      /\ Cardinality(grams) = IF Cardinality(D) <= TopNgramsSize THEN Cardinality(D)
                               ELSE TopNgramsSize
      /\ \A g \in grams, h \in D \ grams : MoreFrequent(table, Templates, g, h)
  BY TopGramsAreFirst
<1>3. IsFiniteSet(D) /\ D \subseteq Grams /\ \A g \in D : table[g] \in Nat
  BY DEF IsTable
<1> HIDE DEF grams, D, top
<1>4. ASSUME NEW n \in top PROVE n.count <= n.out_of
  <2>1. PICK g \in grams : n = Entry(g)
    BY <1>1
  <2> DEFINE same == {h \in D : Prefix(h) = Prefix(g)}
  <2>2. g \in same /\ IsFiniteSet(same) /\ \A h \in same : table[h] \in Nat
    BY <1>2, <1>3, FS_Subset
  <2>3. n.count = table[g] /\ n.out_of = SumFunctionOnSet(table, same)
    BY <2>1 DEF PrefixTotal, D
  <2> HIDE DEF same
  <2>4. SumFunctionOnSet(table, same) = table[g] + SumFunctionOnSet(table, same \ {g})
    BY <2>2, SumRemove
  <2>5. IsFiniteSet(same \ {g}) /\ \A h \in same \ {g} : table[h] \in Nat
    BY <2>2, FS_Subset
  <2>6. SumFunctionOnSet(table, same \ {g}) \in Nat
    BY <2>5, SumIsNat
  <2> QED BY <2>2, <2>3, <2>4, <2>6
<1>5. Cardinality(top) = Cardinality(grams)
  <2>1. \A g, h \in grams : Entry(g) = Entry(h) => g = h
    <3> TAKE g, h \in grams
    <3>1. Entry(g).sequence = Rendered(g, Templates) /\ Entry(h).sequence = Rendered(h, Templates)
      OBVIOUS
    <3>2. g \in Grams /\ h \in Grams
      BY <1>2, <1>3
    <3> HIDE DEF Entry
    <3> QED BY <3>1, <3>2, RenderedIsOne
  <2> HIDE DEF Entry
  <2>2. top = {entry[g] : g \in grams} /\ \A g, h \in grams : entry[g] = entry[h] => g = h
    BY <1>1, <2>1
  <2> HIDE DEF entry
  <2> QED BY <1>2, <2>2, ImageCount
<1>6. ASSUME NEW g \in D PROVE Rendered(g, Templates) \in kept <=> g \in grams
  <2>1. ASSUME Rendered(g, Templates) \in kept PROVE g \in grams
    <3>1. PICK h \in grams : Rendered(g, Templates) = Entry(h).sequence
      BY <1>1, <2>1
    <3>2. g = h
      BY <1>2, <1>3, <3>1, RenderedIsOne
    <3> QED BY <3>2
  <2>2. ASSUME g \in grams PROVE Rendered(g, Templates) \in kept
    <3>1. Entry(g) \in top /\ Entry(g).sequence = Rendered(g, Templates)
      BY <1>1, <2>2
    <3> QED BY <3>1
  <2> QED BY <2>1, <2>2
<1>7. ASSUME NEW g \in D, NEW h \in D, Rendered(g, Templates) \in kept,
             ~(Rendered(h, Templates) \in kept)
      PROVE  \/ table[h] < table[g]
             \/ table[h] = table[g] /\ Earlier(Rendered(g, Templates), Rendered(h, Templates))
  <2>1. MoreFrequent(table, Templates, g, h)
    BY <1>2, <1>6, <1>7
  <2> QED BY <2>1, MoreFrequentIs DEF D
<1> QED BY <1>2, <1>4, <1>5, <1>7 DEF top, D

-----------------------------------------------------------------------------
(* Every table *)

TableInv == IsTable(ngrams)

LEMMA AlwaysTableInv == BehaviorSpec => []TableInv
<1>1. BehaviorInit => TableInv
  BY EmptyCount DEF BehaviorInit, TableInv, IsTable
<1>2. TableInv /\ [BehaviorNext]_ngrams => TableInv'
  <2> SUFFICES ASSUME TableInv, [BehaviorNext]_ngrams PROVE TableInv'
    OBVIOUS
  <2>1. ASSUME NEW gram \in Grams, NEW weight \in Weights, Count(gram, weight) PROVE TableInv'
    <3>1. ngrams' = [g \in DOMAIN ngrams \cup {gram} |-> IF g = gram THEN weight ELSE ngrams[g]]
      BY <2>1 DEF Count
    <3>2. IsFiniteSet(DOMAIN ngrams \cup {gram})
      BY CountOneMore DEF TableInv, IsTable
    <3>3. weight \in Nat \ {0}
      BY GramsAssumption
    <3> QED BY <3>1, <3>2, <3>3 DEF TableInv, IsTable
  <2>2. CASE BehaviorRestart
    BY <2>2, EmptyCount DEF BehaviorRestart, TableInv, IsTable
  <2>3. CASE UNCHANGED ngrams
    BY <2>3 DEF TableInv, IsTable
  <2> QED BY <2>1, <2>2, <2>3 DEF BehaviorNext
<1> QED BY <1>1, <1>2, PTL DEF BehaviorSpec

LEMMA GraphIsAGraph ==
  ASSUME TableInv
  PROVE  /\ IsGraph(graph)
         /\ \A order \in SetToSeqs(DOMAIN graph) : Walks(order, graph)
         /\ Walks(AnyOrder(graph), graph)
         /\ (\E gram : gram \in DOMAIN ngrams) => IsCounts(counts)
         /\ ~(\E gram : gram \in DOMAIN ngrams) => DOMAIN counts = {}
<1>1. PICK table : table = ngrams
  OBVIOUS
<1>2. IsTable(table)
  BY <1>1 DEF TableInv
<1>3. IsGraph(graph)
  BY <1>1, <1>2, CasesAreAGraph DEF graph
<1>4. (\E gram : gram \in DOMAIN ngrams) => IsCounts(counts)
  BY <1>1, <1>2, CountsAreCounts
<1>5. ~(\E gram : gram \in DOMAIN ngrams) => DOMAIN counts = {}
  BY DEF counts, graph, Transitions, Edges
<1> QED BY <1>3, <1>4, <1>5, EveryOrderWalks

(* build_transition_graph and build_dominant_path loop over unordered      *)
(* maps, and what they return does not show it: the surprise of every      *)
(* template and the dominant path are functions of the table's contents,   *)
(* for any n-gram size, templates and counts.                              *)
THEOREM IterationOrderIsAlwaysInvisible == BehaviorSpec => []IterationOrderIsInvisible
<1>1. TableInv => IterationOrderIsInvisible
  <2> SUFFICES ASSUME TableInv PROVE IterationOrderIsInvisible
    OBVIOUS
  <2>1. PICK g : g = graph
    OBVIOUS
  <2>2. PICK c : c = counts
    OBVIOUS
  <2>3. /\ IsGraph(g)
        /\ \A order \in SetToSeqs(DOMAIN g) : Walks(order, g)
        /\ Walks(AnyOrder(g), g)
    BY <2>1, GraphIsAGraph
  <2>4. IsCounts(c) \/ DOMAIN c = {}
    BY <2>2, GraphIsAGraph
  <2>5. ASSUME NEW order \in SetToSeqs(DOMAIN g)
        PROVE  /\ \A to \in Ids : SurpriseInOrder(g, to, order) = IncomingSurprise(g, to)
               /\ PathInOrder(g, c, order) = DominantPath(g, c)
    <3>1. Walks(order, g)
      BY <2>3
    <3>2. \A to \in Ids : SurpriseInOrder(g, to, order) = IncomingSurprise(g, to)
      BY <2>3, <3>1, SurpriseHasNoOrder DEF IncomingSurprise
    <3>3. CASE DominantPathMaxSteps = 0 \/ DOMAIN c = {}
      BY <3>2, <3>3 DEF PathInOrder, DominantPath
    <3>4. CASE DominantPathMaxSteps # 0 /\ IsCounts(c)
      <4>1. StartsIn(c)
        BY <3>4, BusiestIsBusiest DEF StartsIn, IsCounts
      <4>2. PathInOrder(g, c, order) = PathInOrder(g, c, AnyOrder(g))
        BY <2>3, <3>1, <3>4, <4>1, PathHasNoOrder
      <4> QED BY <3>2, <4>2 DEF DominantPath
    <3> QED BY <2>4, <3>3, <3>4
  <2> QED BY <2>1, <2>2, <2>5 DEF IterationOrderIsInvisible
<1> QED BY <1>1, AlwaysTableInv, PTL

(* surprise_of marks a template when each edge into it has less than a     *)
(* fifth of what leaves its source and a likeliest one was seen twice, and *)
(* only then.                                                              *)
THEOREM SurpriseAlwaysMeansRare == BehaviorSpec => []SurpriseMeansRare
<1>1. TableInv => SurpriseMeansRare
  <2> SUFFICES ASSUME TableInv PROVE SurpriseMeansRare
    OBVIOUS
  <2>1. PICK g : g = graph
    OBVIOUS
  <2>2. IsGraph(g) /\ DOMAIN g \subseteq Ids \X Ids
    <3>1. PICK table : table = ngrams
      OBVIOUS
    <3> QED BY <2>1, <3>1, CasesAreAGraph DEF TableInv, graph
  <2>3. ASSUME NEW to \in Ids
        PROVE  LET into == {e \in DOMAIN g : e[2] = to}
                   out == [id \in Ids |-> Outgoing(g, id)]
               IN  IncomingSurprise(g, to) > 0 <=>
                   /\ \A e \in into : g[e] * 5 < out[e[1]]
                   /\ \E e \in into :
                        /\ g[e] >= 2
                        /\ \A f \in into : g[f] * out[e[1]] <= g[e] * out[f[1]]
    <3> DEFINE into == {e \in DOMAIN g : e[2] = to}
               out == [id \in Ids |-> Outgoing(g, id)]
    <3>1. IncomingSurprise(g, to) > 0 <=> RareInto(g, to)
      BY <2>2, RarityIsSurprise, SurpriseIsRarity
    <3>2. \A e \in DOMAIN g : out[e[1]] = Outgoing(g, e[1])
      BY <2>2
    <3> HIDE DEF out
    <3>3. RareInto(g, to) <=>
            /\ \A e \in into : g[e] * 5 < out[e[1]]
            /\ \E e \in into :
                 /\ g[e] >= 2
                 /\ \A f \in into : g[f] * out[e[1]] <= g[e] * out[f[1]]
      BY <3>2 DEF RareInto
    <3> QED BY <3>1, <3>3 DEF out
  <2> QED BY <2>1, <2>3 DEF SurpriseMeansRare
<1> QED BY <1>1, AlwaysTableInv, PTL

(* build_dominant_path starts at a busiest template, follows a heaviest    *)
(* edge at each step, visits no template twice, and stops before           *)
(* dominant_path_max_steps only where nothing leaves or the heaviest edge  *)
(* leads back: for any graph and any number of steps.                      *)
THEOREM DominantPathIsAlwaysGreedy == BehaviorSpec => []DominantPathIsGreedy
<1>1. TableInv => DominantPathIsGreedy
  <2> SUFFICES ASSUME TableInv PROVE DominantPathIsGreedy
    OBVIOUS
  <2>1. PICK g : g = graph
    OBVIOUS
  <2>2. PICK c : c = counts
    OBVIOUS
  <2>3. PICK path : path = DominantPath(g, c)
    OBVIOUS
  <2>4. IsGraph(g) /\ Walks(AnyOrder(g), g)
    BY <2>1, GraphIsAGraph
  <2>5. CASE ngrams = << >> \/ DominantPathMaxSteps = 0
    <3>1. DominantPathMaxSteps = 0 \/ DOMAIN c = {}
      BY <2>2, <2>5, GraphIsAGraph
    <3>2. path = << >>
      BY <2>3, <3>1 DEF DominantPath, PathInOrder
    <3> QED BY <2>1, <2>2, <2>3, <2>5, <3>2 DEF DominantPathIsGreedy
  <2>6. CASE ~(ngrams = << >> \/ DominantPathMaxSteps = 0)
    <3>1. \E gram : gram \in DOMAIN ngrams
      BY <2>6 DEF TableInv, IsTable
    <3>2. IsCounts(c)
      BY <2>2, <3>1, GraphIsAGraph
    <3>3. /\ IsGreedy(g, c, path)
          /\ Len(path) <= DominantPathMaxSteps + 1
          /\ Len(path) <= DominantPathMaxSteps => Halted(g, AnyOrder(g), path)
      BY <2>3, <2>4, <2>6, <3>2, PathIsGreedy DEF DominantPath
    <3>4. /\ path \in Paths
          /\ path[1] = Busiest(c)
          /\ \A i, j \in 1..Len(path) : path[i] = path[j] => i = j
          /\ \A i \in 1..(Len(path) - 1) :
               /\ <<path[i], path[i + 1]>> \in DOMAIN g
               /\ \A e \in Leaving(g, path[i]) : g[e] <= g[<<path[i], path[i + 1]>>]
      BY <3>3 DEF IsGreedy
    <3>5. path # << >> /\ DOMAIN path = 1..Len(path)
      BY <3>4 DEF Paths
    <3>6. \A id \in DOMAIN c : c[id] <= c[path[1]]
      BY <3>2, <3>4, BusiestIsBusiest
    <3>7. ASSUME Len(path) <= DominantPathMaxSteps, Leaving(g, Last(path)) # {}
          PROVE  \E e \in Leaving(g, Last(path)) :
                   /\ e[2] \in Range(path)
                   /\ \A other \in Leaving(g, Last(path)) : g[other] <= g[e]
      <4> DEFINE next == NextHop(g, Last(path), AnyOrder(g))
                 edge == <<Last(path), next>>
      <4>1. next \in Range(path)
        BY <3>3, <3>7 DEF Halted
      <4>2. edge \in Leaving(g, Last(path)) /\ \A e \in Leaving(g, Last(path)) : g[e] <= g[edge]
        BY <2>4, <3>7, HeaviestIsHeaviest, HopIsAnEdge DEF NextHop
      <4>3. edge[2] = next
        OBVIOUS
      <4> HIDE DEF edge, next
      <4> QED BY <4>1, <4>2, <4>3
    <3> QED BY <2>1, <2>2, <2>3, <2>6, <3>3, <3>4, <3>5, <3>6, <3>7 DEF DominantPathIsGreedy
  <2> QED BY <2>5, <2>6
<1> QED BY <1>1, AlwaysTableInv, PTL

(* build_behavior keeps the top_ngrams_size most frequent n-grams, of      *)
(* equally frequent ones the first in the order of the template ids, or    *)
(* all there are, and counts none more often than its prefix.              *)
THEOREM TopNgramsAreAlwaysTheTop == BehaviorSpec => []TopNgramsAreTheTop
<1>1. TableInv => TopNgramsAreTheTop
  <2> SUFFICES ASSUME TableInv PROVE TopNgramsAreTheTop
    OBVIOUS
  <2>1. PICK table : table = ngrams
    OBVIOUS
  <2>2. IsTable(table)
    BY <2>1 DEF TableInv
  <2> QED BY <2>1, <2>2, TopIsTheTop DEF TopNgramsAreTheTop
<1> QED BY <1>1, AlwaysTableInv, PTL

=============================================================================
