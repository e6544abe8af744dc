-------------------------- MODULE AdjacencyProofs --------------------------
(***************************************************************************)
(* The invariants of the adjacency graph hold for any templates, traces    *)
(* and bounds, and for windows of any length.  The inductive invariant     *)
(* adds to the checked ones that the FIFO has no duplicate and that the    *)
(* table and the bag of what was formed are finite, which the bound and    *)
(* the sums are counted on.                                                *)
(*                                                                         *)
(* HistoryInv relates a ring to the records of its stream: it is the end   *)
(* of them, and what it is short of (Deficit) is still to be lost.  An     *)
(* eviction adds NgramSize - 1 to what may be lost and sets the deficit to *)
(* at most that; a record lowers the deficit by the one it loses.          *)
(***************************************************************************)
EXTENDS AdjacencyHistory, DataLemmas

IInv ==
  /\ TypeOK
  /\ Lists(trace_ring_fifo, DOMAIN trace_rings)
  /\ MaxActiveTraces > 0 => Cardinality(DOMAIN trace_rings) <= MaxActiveTraces
  /\ IsFiniteSet(DOMAIN ngram_counts)
  /\ IsFiniteSet(DOMAIN formed)
  /\ TableIsBounded
  /\ CountsAreNeverPartial
  /\ EveryObservationAccounted

-----------------------------------------------------------------------------
(* Rings *)

LEMMA EmptyIsRing == << >> \in Ring
BY DEF Ring

(* The ring an event goes through, and the ring it leaves, hold at most two*)
(* template ids.                                                           *)
LEMMA RingOfIsRing ==
  ASSUME AdjacencyTypeOK, NEW stream
  PROVE  RingOf(stream) \in Ring /\ RingFor(stream) \in Ring
<1>1. RingFor(stream) \in Ring
  BY EmptyIsRing DEF RingFor, AdjacencyTypeOK
<1> QED BY <1>1 DEF RingOf, AdjacencyTypeOK

LEMMA ShiftIsRing ==
  ASSUME NEW ring \in Ring, NEW id \in InternalId
  PROVE  Shift(ring, id) \in Ring
<1>1. ring # << >> => ring[1] \in InternalId
  BY DEF Ring
<1> QED BY <1>1 DEF Shift, Ring

LEMMA NGramOfIsNGram ==
  ASSUME NEW ring \in Ring, NEW id \in InternalId, Forms(ring)
  PROVE  NGramOf(ring, id) \in NGram
<1>1. CASE NgramSize = 2
  <2>1. ring[1] \in InternalId
    BY <1>1 DEF Ring, Forms
  <2> QED BY <1>1, <2>1 DEF NGramOf, NGram
<1>2. CASE NgramSize = 3
  <2>1. ring[1] \in InternalId /\ ring[2] \in InternalId
    BY <1>2 DEF Ring, Forms
  <2> QED BY <1>2, <2>1 DEF NGramOf, NGram
<1> QED BY <1>1, <1>2, AdjacencyAssumption

LEMMA BagAddIs ==
  ASSUME NEW bag, NEW new, NEW x, bag \in [DOMAIN bag -> Nat \ {0}], new = BagAdd(bag, x)
  PROVE  OneMore(bag, new, x)
<1>1. CASE x \in DOMAIN bag
  BY <1>1 DEF BagAdd, OneMore
<1>2. CASE x \notin DOMAIN bag
  BY <1>2 DEF BagAdd, OneMore
<1> QED BY <1>1, <1>2

-----------------------------------------------------------------------------
(* The parts of a record's step *)

(* What a record does to the table and to the history of what was formed.  *)
TableStep(trace, id) ==
  LET ring == RingOf(Stream(trace)) IN
  \/ /\ ~Forms(ring)
     /\ UNCHANGED <<ngram_counts, ngram_total, ngram_dropped, formed>>
  \/ /\ Forms(ring)
     /\ CountNgram(NGramOf(ring, id))
     /\ formed' = BagAdd(formed, NGramOf(ring, id))

LEMMA RecordIsTableStep ==
  ASSUME NEW trace \in TraceId \cup {NoTrace}, NEW id \in InternalId, Record(trace, id)
  PROVE  TableStep(trace, id)
<1>1. AccountNgram(RingOf(Stream(trace)), id)
  BY AdjacencyAssumption
  DEF Record, Observe, ObserveInTrace, ObserveGlobally, RingOf, Stream
<1> QED BY <1>1 DEF Record, TableStep, AccountNgram, table

(* The sums follow: the one observation is counted or dropped.             *)
LEMMA TableStepAccounts ==
  ASSUME IInv, NEW trace \in TraceId \cup {NoTrace}, NEW id \in InternalId, TableStep(trace, id)
  PROVE  IsFiniteSet(DOMAIN formed') /\ EveryObservationAccounted'
<1> DEFINE ring == RingOf(Stream(trace))
           gram == NGramOf(ring, id)
<1>1. IsFiniteBag(formed) /\ IsFiniteBag(ngram_counts)
  BY DEF IInv, TypeOK, AdjacencyTypeOK, IsFiniteBag
<1>2. CASE ~Forms(ring)
  BY <1>2 DEF TableStep, IInv, EveryObservationAccounted
<1>3. CASE Forms(ring)
  <2>1. CountNgram(gram) /\ formed' = BagAdd(formed, gram)
    BY <1>3 DEF TableStep
  <2> HIDE DEF gram
  <2>2. IsFiniteBag(formed') /\ SumFunction(formed') = SumFunction(formed) + 1
    <3>1. OneMore(formed, formed', gram)
      BY <1>1, <2>1, BagAddIs DEF IsFiniteBag
    <3> QED BY <1>1, <3>1, OneMoreSum
  <2>3. /\ ngram_total = SumFunction(ngram_counts)
        /\ ngram_total + ngram_dropped = SumFunction(formed)
        /\ ngram_total \in Nat /\ ngram_dropped \in Nat
    BY DEF IInv, EveryObservationAccounted, TypeOK, AdjacencyTypeOK
  <2>4. CASE Admits(gram)
    <3>1. /\ ngram_counts' = BagAdd(ngram_counts, gram)
          /\ ngram_total' = ngram_total + 1 /\ ngram_dropped' = ngram_dropped
      BY <2>1, <2>4 DEF CountNgram
    <3>2. OneMore(ngram_counts, ngram_counts', gram)
      BY <1>1, <3>1, BagAddIs DEF IsFiniteBag
    <3>3. SumFunction(ngram_counts') = SumFunction(ngram_counts) + 1
      BY <1>1, <3>2, OneMoreSum
    <3>4. ngram_total' = SumFunction(ngram_counts')
          /\ ngram_total' + ngram_dropped' = SumFunction(formed')
      BY <2>2, <2>3, <3>1, <3>3
    <3> QED BY <2>2, <3>4 DEF EveryObservationAccounted, IsFiniteBag
  <2>5. CASE ~Admits(gram)
    <3>1. UNCHANGED <<ngram_counts, ngram_total>> /\ ngram_dropped' = ngram_dropped + 1
      BY <2>1, <2>5 DEF CountNgram
    <3>2. ngram_total' = SumFunction(ngram_counts')
          /\ ngram_total' + ngram_dropped' = SumFunction(formed')
      BY <2>2, <2>3, <3>1
    <3> QED BY <2>2, <3>2 DEF EveryObservationAccounted, IsFiniteBag
  <2> QED BY <2>4, <2>5
<1> QED BY <1>2, <1>3

LEMMA TableStepKeeps ==
  ASSUME IInv, NEW trace \in TraceId \cup {NoTrace}, NEW id \in InternalId, TableStep(trace, id)
  PROVE  /\ DOMAIN ngram_counts' \subseteq NGram
         /\ ngram_counts' \in [DOMAIN ngram_counts' -> Nat \ {0}]
         /\ ngram_total' \in Nat /\ ngram_dropped' \in Nat
         /\ DOMAIN formed' \subseteq NGram
         /\ formed' \in [DOMAIN formed' -> Nat \ {0}]
         /\ IsFiniteSet(DOMAIN ngram_counts')
         /\ TableIsBounded'
         /\ CountsAreNeverPartial'
<1> DEFINE ring == RingOf(Stream(trace))
           gram == NGramOf(ring, id)
<1>1. CASE ~Forms(ring)
  BY <1>1 DEF TableStep, IInv, TypeOK, AdjacencyTypeOK, TableIsBounded, CountsAreNeverPartial
<1>2. CASE Forms(ring)
  <2>1. CountNgram(gram) /\ formed' = BagAdd(formed, gram)
    BY <1>2 DEF TableStep
  <2>2. gram \in NGram
    BY <1>2, RingOfIsRing, NGramOfIsNGram DEF IInv, TypeOK
  <2> HIDE DEF gram
  <2>3. /\ DOMAIN formed' = (DOMAIN formed) \cup {gram}
        /\ formed' \in [DOMAIN formed' -> Nat \ {0}]
        /\ formed'[gram] = IF gram \in DOMAIN formed THEN formed[gram] + 1 ELSE 1
        /\ \A y \in (DOMAIN formed) \ {gram} : formed'[y] = formed[y]
    <3>1. formed \in [DOMAIN formed -> Nat \ {0}] /\ formed' = BagAdd(formed, gram)
      BY <2>1 DEF IInv, TypeOK
    <3>2. OneMore(formed, formed', gram)
      BY ONLY <3>1, BagAddIs
    <3> QED BY ONLY <3>2 DEF OneMore
  <2> DEFINE held == Cardinality(DOMAIN ngram_counts)
  <2>n. held \in Nat
    BY CountIsNat DEF IInv
  <2>4. CASE ~Admits(gram)
    <3>1. UNCHANGED <<ngram_counts, ngram_total>> /\ ngram_dropped' = ngram_dropped + 1
      BY <2>1, <2>4 DEF CountNgram
    <3>2. gram \notin DOMAIN ngram_counts /\ ~(Cardinality(DOMAIN ngram_counts) < MaxNgramKeys)
      BY <2>4 DEF Admits
    <3>3. Cardinality(DOMAIN ngram_counts) >= MaxNgramKeys
      BY <2>n, <3>2, AdjacencyAssumption
    <3>4. CountsAreNeverPartial'
      BY <2>3, <3>1, <3>2, <3>3 DEF IInv, CountsAreNeverPartial
    <3> QED BY <2>2, <2>3, <3>1, <3>4 DEF IInv, TypeOK, AdjacencyTypeOK, TableIsBounded
  <2>5. CASE Admits(gram)
    <3>1. /\ ngram_counts' = BagAdd(ngram_counts, gram)
          /\ ngram_total' = ngram_total + 1
          /\ UNCHANGED ngram_dropped
      BY <2>1, <2>5 DEF CountNgram
    <3>2. /\ DOMAIN ngram_counts' = (DOMAIN ngram_counts) \cup {gram}
          /\ ngram_counts' \in [DOMAIN ngram_counts' -> Nat \ {0}]
          /\ ngram_counts'[gram] =
               IF gram \in DOMAIN ngram_counts THEN ngram_counts[gram] + 1 ELSE 1
          /\ \A y \in (DOMAIN ngram_counts) \ {gram} : ngram_counts'[y] = ngram_counts[y]
      <4>1. /\ ngram_counts \in [DOMAIN ngram_counts -> Nat \ {0}]
            /\ ngram_counts' = BagAdd(ngram_counts, gram)
        BY <3>1 DEF IInv, TypeOK, AdjacencyTypeOK
      <4>2. OneMore(ngram_counts, ngram_counts', gram)
        BY ONLY <4>1, BagAddIs
      <4> QED BY ONLY <4>2 DEF OneMore
    <3>3. /\ IsFiniteSet(DOMAIN ngram_counts')
          /\ Cardinality(DOMAIN ngram_counts') =
               IF gram \in DOMAIN ngram_counts THEN Cardinality(DOMAIN ngram_counts)
               ELSE Cardinality(DOMAIN ngram_counts) + 1
      BY <3>2, CountOneMore DEF IInv
    <3>4. TableIsBounded'
      BY <2>n, <2>5, <3>3, AdjacencyAssumption DEF IInv, TableIsBounded, Admits
    <3>5. CASE gram \in DOMAIN ngram_counts
      <4>1. DOMAIN ngram_counts' = DOMAIN ngram_counts /\ gram \in DOMAIN formed
        BY <3>2, <3>5 DEF IInv, CountsAreNeverPartial
      <4>2. CountsAreNeverPartial'
        BY <2>3, <3>2, <3>5, <4>1 DEF IInv, CountsAreNeverPartial
      <4> QED BY <2>2, <2>3, <3>1, <3>2, <3>3, <3>4, <4>2 DEF IInv, TypeOK, AdjacencyTypeOK
    <3>6. CASE gram \notin DOMAIN ngram_counts
      <4>1. ~(Cardinality(DOMAIN ngram_counts) >= MaxNgramKeys)
        BY <2>n, <2>5, <3>6, AdjacencyAssumption DEF Admits
      <4>2. DOMAIN formed = DOMAIN ngram_counts
        BY <4>1 DEF IInv, CountsAreNeverPartial
      <4>3. CountsAreNeverPartial'
        BY <2>3, <3>2, <3>6, <4>2 DEF IInv, CountsAreNeverPartial
      <4> QED BY <2>2, <2>3, <3>1, <3>2, <3>3, <3>4, <4>3 DEF IInv, TypeOK, AdjacencyTypeOK
    <3> QED BY <3>5, <3>6
  <2> QED BY <2>4, <2>5
<1> QED BY <1>1, <1>2

(* What holding the ring of trace t leaves of the rings and of their FIFO. *)
LEMMA HoldKeepsFifo ==
  ASSUME IInv, NEW t \in TraceId, NEW id \in InternalId, ObserveInTrace(t, id)
  PROVE  /\ DOMAIN trace_rings' \subseteq TraceId
         /\ trace_rings' \in [DOMAIN trace_rings' -> Ring]
         /\ trace_ring_fifo' \in Seq(TraceId)
         /\ Lists(trace_ring_fifo', DOMAIN trace_rings')
         /\ MaxActiveTraces > 0 => Cardinality(DOMAIN trace_rings') <= MaxActiveTraces
<1> DEFINE held == DOMAIN trace_rings
           kept == held \ Evicted(t)
<1>1. /\ held \subseteq TraceId /\ trace_rings \in [held -> Ring]
      /\ trace_ring_fifo \in Seq(TraceId) /\ Lists(trace_ring_fifo, held)
      /\ MaxActiveTraces > 0 => Cardinality(held) <= MaxActiveTraces
  BY DEF IInv, TypeOK, AdjacencyTypeOK
<1>2. DOMAIN trace_rings' = kept \cup {t} /\ trace_rings' \in [kept \cup {t} -> Ring]
  <2>1. Shift(RingFor(t), id) \in Ring
    BY RingOfIsRing, ShiftIsRing DEF IInv, TypeOK
  <2>2. trace_rings' = [u \in kept \cup {t} |->
                          IF u = t THEN Shift(RingFor(t), id) ELSE trace_rings[u]]
    BY DEF ObserveInTrace
  <2> QED BY <1>1, <2>1, <2>2
<1>3. HoldTrace(t)
  BY DEF ObserveInTrace
<1>4. CASE t \in held
  <2>1. kept \cup {t} = held /\ trace_ring_fifo' = trace_ring_fifo
    BY <1>3, <1>4 DEF HoldTrace, Evicted
  <2> QED BY <1>1, <1>2, <2>1
<1>5. CASE t \notin held
  <2>1. /\ Evicted(t) = Displaced(trace_ring_fifo, held, MaxActiveTraces)
        /\ trace_ring_fifo' = AfterHold(trace_ring_fifo, held, MaxActiveTraces, t)
    BY <1>3, <1>5 DEF HoldTrace, Evicted, Displaced, AfterHold
  <2>2. FifoOfBounded(TraceId, trace_ring_fifo, held, MaxActiveTraces)
    BY <1>1 DEF FifoOfBounded
  <2>3. FifoOfBounded(TraceId, trace_ring_fifo', kept \cup {t}, MaxActiveTraces)
    BY <1>5, <2>1, <2>2, FifoHold, AdjacencyAssumption
  <2> QED BY <1>1, <1>2, <2>3 DEF FifoOfBounded
<1> QED BY <1>4, <1>5

LEMMA RingStepKeeps ==
  ASSUME IInv, NEW trace \in TraceId \cup {NoTrace}, NEW id \in InternalId, Record(trace, id)
  PROVE  /\ global_ring' \in Ring
         /\ DOMAIN trace_rings' \subseteq TraceId
         /\ trace_rings' \in [DOMAIN trace_rings' -> Ring]
         /\ trace_ring_fifo' \in Seq(TraceId)
         /\ Lists(trace_ring_fifo', DOMAIN trace_rings')
         /\ MaxActiveTraces > 0 => Cardinality(DOMAIN trace_rings') <= MaxActiveTraces
         /\ evictions' \in [DOMAIN evictions' -> Nat \ {0}]
<1>1. evictions' \in [DOMAIN evictions' -> Nat \ {0}]
  <2>1. evictions \in [DOMAIN evictions -> Nat \ {0}]
    BY DEF IInv, TypeOK
  <2>2. CASE UNCHANGED evictions
    BY <2>1, <2>2
  <2>3. CASE evictions' = BagAdd(evictions, Head(trace_ring_fifo))
    <3>1. OneMore(evictions, evictions', Head(trace_ring_fifo))
      BY ONLY <2>1, <2>3, BagAddIs
    <3> QED BY <3>1 DEF OneMore
  <2> QED BY <2>2, <2>3 DEF Record
<1>2. CASE TraceScoping /\ trace # NoTrace
  <2>1. trace \in TraceId /\ ObserveInTrace(trace, id)
    BY <1>2 DEF Record, Observe
  <2>2. global_ring' \in Ring
    BY <2>1 DEF ObserveInTrace, IInv, TypeOK, AdjacencyTypeOK
  <2> QED BY <1>1, <2>1, <2>2, HoldKeepsFifo
<1>3. CASE ~(TraceScoping /\ trace # NoTrace)
  <2>1. ObserveGlobally(id)
    BY <1>3 DEF Record, Observe
  <2>2. global_ring' \in Ring
    BY <2>1, ShiftIsRing DEF ObserveGlobally, IInv, TypeOK, AdjacencyTypeOK
  <2> QED BY <1>1, <2>1, <2>2 DEF ObserveGlobally, IInv, TypeOK, AdjacencyTypeOK
<1> QED BY <1>2, <1>3

-----------------------------------------------------------------------------
(* The ring of a stream, against the records of the stream *)

Seen == [id : InternalId, formed : BOOLEAN]

(* A ring is the end of its stream, newest first; it is short of it after  *)
(* an eviction.                                                            *)
IsEndOf(ring, mine) ==
  /\ Len(ring) <= Len(mine)
  /\ \A j \in 1..Len(ring) : ring[j] = mine[Len(mine) + 1 - j].id

(* The runs a stream is still to lose by the evictions it has suffered.    *)
Deficit(r, n) ==
  IF r >= NgramSize - 1 THEN 0
  ELSE IF n <= NgramSize - 1 THEN n - r
  ELSE NgramSize - 1 - r

(* What a stream lost, and will lose, its evictions pay for.               *)
StreamInv(ring, mine, times) ==
  /\ IsEndOf(ring, mine)
  /\ LostIn(mine) \in Nat
  /\ LostIn(mine) + Deficit(Len(ring), Len(mine)) <= (NgramSize - 1) * times

(* No n-gram is formed but by a run, and by every run if none is evicted.  *)
RunsInv(gram) ==
  /\ IsFiniteSet(Runs(gram))
  /\ Times(formed, gram) <= Occurrences(gram)
  /\ evictions = << >> => Times(formed, gram) = Occurrences(gram)

HistoryInv ==
  /\ \A s \in Streams : StreamInv(RingOf(s), observed[s], Times(evictions, s))
  /\ \A gram \in NGram : RunsInv(gram)

LEMMA RingLength ==
  ASSUME NEW ring \in Ring
  PROVE  ring \in Seq(InternalId) /\ Len(ring) \in 0..2
<1>1. ring \in Seq(InternalId) /\ Len(ring) <= 2
  BY DEF Ring
<1>2. Len(ring) \in Nat
  BY <1>1
<1>3. \A n \in Nat : n <= 2 => n \in 0..2
  OBVIOUS
<1> QED BY <1>1, <1>2, <1>3

LEMMA SeenAppend ==
  ASSUME NEW mine \in Seq(Seen), NEW e \in Seen
  PROVE  LET n == Len(mine)
             new == Append(mine, e)
         IN  /\ n \in Nat /\ Len(new) = n + 1 /\ new \in Seq(Seen)
             /\ new[n + 1] = e
             /\ \A i \in 1..n : new[i] = mine[i]
BY AppendProperties

(* One record more: one run more is lost, or none.                         *)
LEMMA LostStep ==
  ASSUME NEW mine \in Seq(Seen), NEW e \in Seen, LostIn(mine) \in Nat
  PROVE  LET n == Len(mine) IN
         LostIn(Append(mine, e)) =
           LostIn(mine) + (IF n + 1 >= NgramSize /\ ~e.formed THEN 1 ELSE 0)
<1> DEFINE n == Len(mine)
           new == Append(mine, e)
           old == {i \in NgramSize..n : ~mine[i].formed}
           now == {i \in NgramSize..(n + 1) : ~new[i].formed}
<1>1. /\ n \in Nat /\ Len(new) = n + 1 /\ new[n + 1] = e
      /\ \A i \in 1..n : new[i] = mine[i]
  BY SeenAppend
<1>2. NgramSize \in Nat /\ NgramSize >= 1
  BY AdjacencyAssumption
<1>3. old \in SUBSET (1..n) /\ n + 1 \notin old
  BY <1>1, <1>2
<1>4. IsFiniteSet(old)
  BY <1>1, <1>3, PartOfUpTo
<1>5. LostIn(mine) = Cardinality(old) /\ LostIn(new) = Cardinality(now)
  BY <1>1 DEF LostIn
<1> HIDE DEF n, new
<1>6. CASE n + 1 >= NgramSize /\ ~e.formed
  <2>1. now = old \cup {n + 1}
    BY <1>1, <1>2, <1>6
  <2>2. Cardinality(old \cup {n + 1}) = Cardinality(old) + 1
    BY <1>3, <1>4, CountOneMore
  <2> QED BY <1>5, <1>6, <2>1, <2>2 DEF n, new
<1>7. CASE ~(n + 1 >= NgramSize /\ ~e.formed)
  <2>1. now = old
    BY <1>1, <1>2, <1>7
  <2> HIDE DEF old, now
  <2> QED BY <1>5, <1>7, <2>1 DEF n, new
<1> QED BY <1>6, <1>7

(* A ring that is the end of its stream stays so when both move on.        *)
LEMMA ShiftIsEnd ==
  ASSUME NEW ring \in Ring, NEW mine \in Seq(Seen), IsEndOf(ring, mine), NEW e \in Seen
  PROVE  /\ IsEndOf(Shift(ring, e.id), Append(mine, e))
         /\ Len(Shift(ring, e.id)) = IF Len(ring) = 2 THEN 2 ELSE Len(ring) + 1
<1> DEFINE n == Len(mine)
           new == Append(mine, e)
           next == Shift(ring, e.id)
<1>1. /\ n \in Nat /\ Len(new) = n + 1 /\ new[n + 1] = e
      /\ \A i \in 1..n : new[i] = mine[i]
  BY SeenAppend
<1>2. Len(ring) \in 0..2 /\ ring \in Seq(InternalId)
  BY RingLength
<1>3. CASE Len(ring) = 0
  <2>1. next = <<e.id>> /\ Len(next) = 1 /\ next[1] = e.id
    BY <1>2, <1>3 DEF Shift
  <2> HIDE DEF next, new, n
  <2> QED BY <1>1, <1>3, <2>1 DEF IsEndOf, new, next
<1>4. CASE Len(ring) # 0
  <2>1. next = <<e.id, ring[1]>> /\ Len(next) = 2 /\ next[1] = e.id /\ next[2] = ring[1]
    BY <1>2, <1>4 DEF Shift
  <2>2. n >= 1 /\ ring[1] = mine[n].id
    BY <1>1, <1>2, <1>4 DEF IsEndOf
  <2>3. new[n] = mine[n]
    BY <1>1, <2>2
  <2> HIDE DEF next, new, n
  <2>4. ASSUME NEW j \in 1..2 PROVE next[j] = new[n + 1 + 1 - j].id
    <3>1. CASE j = 1
      <4>1. n + 1 + 1 - j = n + 1
        BY <1>1, <3>1
      <4> QED BY <1>1, <2>1, <3>1, <4>1
    <3>2. CASE j = 2
      <4>1. n + 1 + 1 - j = n
        BY <1>1, <3>2
      <4> QED BY <2>1, <2>2, <2>3, <3>2, <4>1
    <3> QED BY <3>1, <3>2
  <2>5. Len(next) <= Len(new) /\ Len(next) = 2 /\ Len(new) = n + 1
    BY <1>1, <2>1, <2>2
  <2>6. IsEndOf(next, new)
    BY <2>4, <2>5 DEF IsEndOf
  <2> QED BY <1>2, <1>4, <2>1, <2>6 DEF new, next
<1> QED BY <1>3, <1>4

(* A record that forms no n-gram brings the ring nearer to forming one.    *)
LEMMA DeficitStep ==
  ASSUME NEW r \in 0..2, NEW n \in Nat, r <= n
  PROVE  LET s == IF r = 2 THEN 2 ELSE r + 1 IN
         /\ Deficit(r, n) \in Nat /\ Deficit(s, n + 1) \in Nat
         /\ r >= NgramSize - 1 => Deficit(s, n + 1) = Deficit(r, n)
         /\ r < NgramSize - 1 => Deficit(s, n + 1) + (IF n + 1 >= NgramSize THEN 1 ELSE 0) = Deficit(r, n)
         /\ Deficit(r, n) = 0 /\ r < NgramSize - 1 => n + 1 < NgramSize
         /\ Deficit(0, n) <= NgramSize - 1
<1>1. CASE NgramSize = 2
  BY <1>1 DEF Deficit
<1>2. CASE NgramSize = 3
  BY <1>2 DEF Deficit
<1> QED BY <1>1, <1>2, AdjacencyAssumption

(* A record of the stream: what it loses, the deficit pays for.            *)
LEMMA RecordKeepsStream ==
  ASSUME NEW ring \in Ring, NEW mine \in Seq(Seen), NEW times \in Nat, StreamInv(ring, mine, times),
         NEW e \in Seen, e.formed = Forms(ring)
  PROVE  StreamInv(Shift(ring, e.id), Append(mine, e), times)
<1> DEFINE n == Len(mine)
           r == Len(ring)
           new == Append(mine, e)
           next == Shift(ring, e.id)
           s == IF r = 2 THEN 2 ELSE r + 1
           lost == LostIn(mine)
           more == LostIn(new)
           bound == (NgramSize - 1) * times
<1>1. n \in Nat /\ r \in 0..2 /\ r <= n /\ lost \in Nat /\ lost + Deficit(r, n) <= bound
  BY RingLength DEF StreamInv, IsEndOf
<1>2. IsEndOf(next, new) /\ Len(next) = s /\ Len(new) = n + 1
  BY ShiftIsEnd, SeenAppend DEF StreamInv
<1>3. more = lost + (IF n + 1 >= NgramSize /\ ~(r >= NgramSize - 1) THEN 1 ELSE 0)
  BY LostStep DEF StreamInv, Forms
<1>4. /\ Deficit(r, n) \in Nat /\ Deficit(s, n + 1) \in Nat
      /\ r >= NgramSize - 1 => Deficit(s, n + 1) = Deficit(r, n)
      /\ r < NgramSize - 1 => Deficit(s, n + 1) + (IF n + 1 >= NgramSize THEN 1 ELSE 0) = Deficit(r, n)
  BY <1>1, DeficitStep
<1>5. bound \in Nat /\ NgramSize \in Nat
  BY AdjacencyAssumption
<1> HIDE DEF n, r, new, next, s, lost, more, bound
<1>6. more \in Nat /\ more + Deficit(s, n + 1) <= bound
  BY <1>1, <1>3, <1>4, <1>5
<1> QED BY <1>2, <1>6 DEF StreamInv, new, next, bound, more

(* An eviction: the whole deficit is paid for by the one eviction more.    *)
LEMMA EvictionKeepsStream ==
  ASSUME NEW ring \in Ring, NEW mine \in Seq(Seen), NEW times \in Nat, StreamInv(ring, mine, times)
  PROVE  StreamInv(<< >>, mine, times + 1)
<1> DEFINE n == Len(mine)
           lost == LostIn(mine)
<1>1. n \in Nat /\ Len(ring) \in 0..2 /\ Len(ring) <= n /\ lost \in Nat
      /\ lost + Deficit(Len(ring), n) <= (NgramSize - 1) * times
  BY RingLength DEF StreamInv, IsEndOf
<1>2. Deficit(Len(ring), n) \in Nat /\ Deficit(0, n) <= NgramSize - 1 /\ Deficit(0, n) \in Nat
  <2>1. 0 \in 0..2 /\ 0 <= n
    BY <1>1
  <2> QED BY <1>1, <2>1, DeficitStep
<1>3. lost + Deficit(0, n) <= (NgramSize - 1) * (times + 1)
  <2>1. (NgramSize - 1) * (times + 1) = (NgramSize - 1) * times + (NgramSize - 1)
    <3>1. CASE NgramSize = 2
      BY <3>1
    <3>2. CASE NgramSize = 3
      BY <3>2
    <3> QED BY <3>1, <3>2, AdjacencyAssumption
  <2>2. (NgramSize - 1) * times \in Nat /\ NgramSize - 1 \in Nat
    BY AdjacencyAssumption
  <2> HIDE DEF n, lost
  <2> QED BY <1>1, <1>2, <2>1, <2>2
<1>4. Len(<< >>) = 0 /\ IsEndOf(<< >>, mine)
  BY <1>1 DEF IsEndOf
<1> QED BY <1>1, <1>3, <1>4 DEF StreamInv

(* One record more: its last n ids may be one run more.                    *)
LEMMA RunsStep ==
  ASSUME NEW ring \in Ring, NEW mine \in Seq(Seen), IsEndOf(ring, mine), NEW e \in Seen,
         NEW gram \in NGram
  PROVE  LET n == Len(mine)
             new == RunsOf(Append(mine, e), gram)
             old == RunsOf(mine, gram)
         IN  /\ n + 1 \notin old
             /\ new = old \/ (new = old \cup {n + 1} /\ n + 1 >= NgramSize)
             /\ Forms(ring) => new = old \cup (IF NGramOf(ring, e.id) = gram THEN {n + 1} ELSE {})
<1> DEFINE n == Len(mine)
           seen == Append(mine, e)
           old == RunsOf(mine, gram)
           reads(i) == \A j \in 1..NgramSize : seen[i - NgramSize + j].id = gram[j]
<1>1. /\ n \in Nat /\ Len(seen) = n + 1 /\ seen[n + 1] = e
      /\ \A i \in 1..n : seen[i] = mine[i]
  BY SeenAppend
<1>2. NgramSize \in {2, 3}
  BY AdjacencyAssumption
<1>3. \A i \in NgramSize..n, j \in 1..NgramSize : i - NgramSize + j \in 1..n
  BY <1>1, <1>2
<1>4. old = {i \in NgramSize..n : reads(i)}
  BY <1>1, <1>3 DEF RunsOf
<1>5. RunsOf(seen, gram) = {i \in NgramSize..(n + 1) : reads(i)}
  BY <1>1 DEF RunsOf
<1> HIDE DEF n, seen, old
<1>r. reads(n + 1) <=> \A j \in 1..NgramSize : seen[(n + 1) - NgramSize + j].id = gram[j]
  OBVIOUS
<1> HIDE DEF reads
<1>6. n + 1 \notin old
  BY <1>1, <1>2, <1>4
<1>7. RunsOf(seen, gram) = old \cup (IF n + 1 >= NgramSize /\ reads(n + 1) THEN {n + 1} ELSE {})
  BY <1>1, <1>2, <1>4, <1>5
<1>8. ASSUME Forms(ring) PROVE n + 1 >= NgramSize /\ (reads(n + 1) <=> NGramOf(ring, e.id) = gram)
  <2>1. Len(ring) >= NgramSize - 1 /\ Len(ring) <= n /\ Len(ring) \in 0..2
        /\ \A j \in 1..Len(ring) : ring[j] = mine[n + 1 - j].id
    BY <1>8, RingLength DEF Forms, IsEndOf, n
  <2>2. ring[1] = seen[n].id
    BY <1>1, <1>2, <2>1
  <2>3. n + 1 >= NgramSize
    BY <1>1, <1>2, <2>1
  <2>4. CASE NgramSize = 2
    <3>1. reads(n + 1) <=> seen[n].id = gram[1] /\ seen[n + 1].id = gram[2]
      <4>1. (n + 1) - 2 + 1 = n /\ (n + 1) - 2 + 2 = n + 1
        BY <1>1
      <4>2. reads(n + 1) <=> \A j \in {1, 2} : seen[(n + 1) - 2 + j].id = gram[j]
        <5>1. \A j : j \in 1..NgramSize <=> j \in {1, 2}
          BY <2>4
        <5> QED BY <1>1, <1>r, <2>4, <5>1
      <4> QED BY <4>1, <4>2
    <3>2. gram = <<gram[1], gram[2]>>
      BY <2>4 DEF NGram
    <3>3. NGramOf(ring, e.id) = <<ring[1], e.id>>
      BY <2>4 DEF NGramOf
    <3> QED BY <1>1, <2>2, <2>3, <3>1, <3>2, <3>3
  <2>5. CASE NgramSize = 3
    <3>1. reads(n + 1) <=> seen[n - 1].id = gram[1] /\ seen[n].id = gram[2] /\ seen[n + 1].id = gram[3]
      <4>1. (n + 1) - 3 + 1 = n - 1 /\ (n + 1) - 3 + 2 = n /\ (n + 1) - 3 + 3 = n + 1
        BY <1>1
      <4>2. reads(n + 1) <=> \A j \in {1, 2, 3} : seen[(n + 1) - 3 + j].id = gram[j]
        <5>1. \A j : j \in 1..NgramSize <=> j \in {1, 2, 3}
          BY <2>5
        <5> QED BY <1>1, <1>r, <2>5, <5>1
      <4> QED BY <4>1, <4>2
    <3>2. gram = <<gram[1], gram[2], gram[3]>>
      BY <2>5 DEF NGram
    <3>3. NGramOf(ring, e.id) = <<ring[2], ring[1], e.id>>
      BY <2>5 DEF NGramOf
    <3>4. ring[2] = seen[n - 1].id
      BY <1>1, <2>1, <2>5
    <3> QED BY <1>1, <2>2, <2>3, <3>1, <3>2, <3>3, <3>4
  <2> QED BY <1>2, <2>4, <2>5
<1> QED BY <1>6, <1>7, <1>8 DEF n, seen, old

(* A bag with one element more.                                            *)
LEMMA TimesOneMore ==
  ASSUME NEW bag, NEW new, NEW x, bag \in [DOMAIN bag -> Nat \ {0}], OneMore(bag, new, x), NEW y
  PROVE  /\ Times(bag, y) \in Nat
         /\ Times(new, y) = Times(bag, y) + (IF x = y THEN 1 ELSE 0)
         /\ new # << >>
<1>1. Times(bag, y) \in Nat
  BY DEF Times
<1>2. x \in DOMAIN new
  BY DEF OneMore
<1>3. new # << >>
  BY <1>2
<1>4. CASE x = y
  BY <1>4 DEF Times, OneMore
<1>5. CASE x # y
  <2>1. Times(new, y) = Times(bag, y)
    BY <1>5 DEF Times, OneMore
  <2> QED BY <1>1, <1>3, <1>5, <2>1
<1> QED BY <1>1, <1>3, <1>4, <1>5

(* What a record adds to its stream.                                       *)
LEMMA ObservedStep ==
  ASSUME TypeOK, NEW trace \in TraceId \cup {NoTrace}, NEW id \in InternalId, Record(trace, id),
         NEW s, s = Stream(trace), NEW e, e = [id |-> id, formed |-> Forms(RingOf(s))]
  PROVE  /\ s \in Streams /\ e \in Seen
         /\ observed \in [Streams -> Seq(Seen)]
         /\ observed' = [observed EXCEPT ![s] = Append(@, e)]
         /\ observed' \in [Streams -> Seq(Seen)]
<1>1. s \in Streams
  BY DEF Stream, Streams
<1>2. e \in Seen
  BY DEF Seen, Forms
<1>3. observed \in [Streams -> Seq(Seen)]
  BY DEF TypeOK, Seen
<1>4. observed' = [observed EXCEPT ![s] = Append(@, e)]
  BY DEF Record
<1>5. Append(observed[s], e) \in Seq(Seen)
  BY <1>1, <1>2, <1>3, SeenAppend
<1> QED BY <1>1, <1>2, <1>3, <1>4, <1>5

(* A record moves the ring of its own stream; any other keeps its ring, or *)
(* loses it to an eviction that is counted.                                *)
LEMMA RingsStep ==
  ASSUME IInv, NEW trace \in TraceId \cup {NoTrace}, NEW id \in InternalId, Record(trace, id),
         NEW s, s = Stream(trace)
  PROVE  /\ RingOf(s)' = Shift(RingOf(s), id)
         /\ Times(evictions, s)' = Times(evictions, s)
         /\ \A u \in Streams \ {s} :
              \/ RingOf(u)' = RingOf(u) /\ Times(evictions, u)' = Times(evictions, u)
              \/ RingOf(u)' = << >> /\ Times(evictions, u)' = Times(evictions, u) + 1
         /\ evictions' = << >> => evictions = << >>
<1>1. evictions \in [DOMAIN evictions -> Nat \ {0}]
  BY DEF IInv, TypeOK
<1>2. CASE TraceScoping /\ trace # NoTrace
  <2>1. s = trace /\ s \in TraceId /\ s # NoTrace /\ ObserveInTrace(s, id)
    BY <1>2 DEF Record, Observe, Stream
  <2>2. /\ global_ring' = global_ring
        /\ trace_rings' = [u \in (DOMAIN trace_rings \ Evicted(s)) \cup {s} |->
                             IF u = s THEN Shift(RingFor(s), id) ELSE trace_rings[u]]
    BY <2>1 DEF ObserveInTrace
  <2>3. RingOf(s)' = Shift(RingOf(s), id)
    BY <2>1, <2>2 DEF RingOf, RingFor
  <2>4. CASE Evicted(s) = {}
    <3>1. evictions' = evictions
      BY <2>1, <2>4 DEF Record
    <3>2. ASSUME NEW u \in Streams \ {s} PROVE RingOf(u)' = RingOf(u)
      BY <2>2, <2>4, <3>2 DEF RingOf, RingFor
    <3> QED BY <2>3, <3>1, <3>2
  <2>5. CASE Evicted(s) # {}
    <3>0. PICK head : head = Head(trace_ring_fifo)
      OBVIOUS
    <3>1. /\ Evicted(s) = {head} /\ s \notin DOMAIN trace_rings /\ trace_ring_fifo # << >>
      BY <2>5, <3>0 DEF Evicted
    <3>2. head \in DOMAIN trace_rings
      <4>1. Range(trace_ring_fifo) = DOMAIN trace_rings /\ trace_ring_fifo \in Seq(TraceId)
        BY DEF IInv, Lists, TypeOK, AdjacencyTypeOK
      <4>2. 1 \in DOMAIN trace_ring_fifo /\ head = trace_ring_fifo[1]
        BY <3>0, <3>1, <4>1
      <4> QED BY <4>1, <4>2 DEF Range
    <3>3. head \in TraceId /\ head # NoTrace /\ head # s
      BY <3>1, <3>2, AdjacencyAssumption DEF IInv, TypeOK, AdjacencyTypeOK
    <3>4. evictions' = BagAdd(evictions, head)
      BY <2>1, <2>5, <3>0 DEF Record
    <3>5. OneMore(evictions, evictions', head)
      BY ONLY <1>1, <3>4, BagAddIs
    <3>6. \A u : /\ Times(evictions, u) \in Nat
                 /\ Times(evictions', u) = Times(evictions, u) + (IF head = u THEN 1 ELSE 0)
                 /\ evictions' # << >>
      BY <1>1, <3>5, TimesOneMore
    <3>7. RingOf(head)' = << >>
      BY <2>2, <3>1, <3>3 DEF RingOf, RingFor
    <3>8. ASSUME NEW u \in Streams \ {s}, u # head PROVE RingOf(u)' = RingOf(u)
      BY <2>2, <3>1, <3>8 DEF RingOf, RingFor
    <3>9. \A u : u # head => Times(evictions, u)' = Times(evictions, u)
      BY <3>6
    <3>10. Times(evictions, head)' = Times(evictions, head) + 1
      BY <3>6
    <3> QED BY <2>3, <3>3, <3>6, <3>7, <3>8, <3>9, <3>10
  <2> QED BY <2>4, <2>5
<1>3. CASE ~(TraceScoping /\ trace # NoTrace)
  <2>1. s = NoTrace /\ ObserveGlobally(id)
    BY <1>3 DEF Record, Observe, Stream
  <2>2. global_ring' = Shift(global_ring, id) /\ trace_rings' = trace_rings
    BY <2>1 DEF ObserveGlobally
  <2>3. evictions' = evictions
    BY <2>1 DEF Record
  <2>4. RingOf(s)' = Shift(RingOf(s), id)
    BY <2>1, <2>2 DEF RingOf
  <2>5. ASSUME NEW u \in Streams \ {s} PROVE RingOf(u)' = RingOf(u)
    BY <2>1, <2>2, <2>5 DEF RingOf, RingFor
  <2> QED BY <2>3, <2>4, <2>5
<1> QED BY <1>2, <1>3

(* Every stream keeps its invariant: that of the record, the evicted and the rest. *)
LEMMA RecordKeepsStreams ==
  ASSUME IInv, HistoryInv, NEW trace \in TraceId \cup {NoTrace}, NEW id \in InternalId,
         Record(trace, id), NEW u \in Streams
  PROVE  StreamInv(RingOf(u), observed[u], Times(evictions, u))'
<1>1. PICK s : s = Stream(trace)
  OBVIOUS
<1>2. PICK e : e = [id |-> id, formed |-> Forms(RingOf(s))]
  OBVIOUS
<1>3. /\ s \in Streams /\ e \in Seen /\ observed \in [Streams -> Seq(Seen)]
      /\ observed' = [observed EXCEPT ![s] = Append(@, e)]
  BY <1>1, <1>2, ObservedStep DEF IInv
<1>4. /\ RingOf(s)' = Shift(RingOf(s), id)
      /\ Times(evictions, s)' = Times(evictions, s)
      /\ \A v \in Streams \ {s} :
           \/ RingOf(v)' = RingOf(v) /\ Times(evictions, v)' = Times(evictions, v)
           \/ RingOf(v)' = << >> /\ Times(evictions, v)' = Times(evictions, v) + 1
  BY <1>1, RingsStep
<1>5. \A v \in Streams : /\ StreamInv(RingOf(v), observed[v], Times(evictions, v))
                         /\ RingOf(v) \in Ring /\ Times(evictions, v) \in Nat
                         /\ observed[v] \in Seq(Seen)
  BY <1>3, RingOfIsRing DEF HistoryInv, IInv, TypeOK, Times
<1>6. CASE u = s
  <2>1. StreamInv(Shift(RingOf(s), e.id), Append(observed[s], e), Times(evictions, s))
    BY <1>2, <1>3, <1>5, RecordKeepsStream
  <2>2. e.id = id /\ observed'[s] = Append(observed[s], e)
    BY <1>2, <1>3
  <2> QED BY <1>4, <1>6, <2>1, <2>2
<1>7. CASE u # s
  <2>1. observed'[u] = observed[u]
    BY <1>3, <1>7
  <2>2. StreamInv(<< >>, observed[u], Times(evictions, u) + 1)
    BY <1>5, EvictionKeepsStream
  <2> QED BY <1>4, <1>5, <1>7, <2>1, <2>2
<1> QED BY <1>6, <1>7

(* A record forms its n-gram only at the end of a run of its own stream.   *)
LEMMA RecordKeepsRuns ==
  ASSUME IInv, HistoryInv, NEW trace \in TraceId \cup {NoTrace}, NEW id \in InternalId,
         Record(trace, id), NEW gram \in NGram
  PROVE  RunsInv(gram)'
<1>1. PICK s : s = Stream(trace)
  OBVIOUS
<1>2. PICK e : e = [id |-> id, formed |-> Forms(RingOf(s))]
  OBVIOUS
<1>3. /\ s \in Streams /\ e \in Seen /\ observed \in [Streams -> Seq(Seen)]
      /\ observed' = [observed EXCEPT ![s] = Append(@, e)]
  BY <1>1, <1>2, ObservedStep DEF IInv
<1>4. PICK ring : ring = RingOf(s)
  OBVIOUS
<1>5. PICK mine : mine = observed[s]
  OBVIOUS
<1> DEFINE n == Len(mine)
           old == RunsOf(mine, gram)
           new == RunsOf(Append(mine, e), gram)
           count == Cardinality(Runs(gram))
<1>6. ring \in Ring /\ mine \in Seq(Seen) /\ n \in Nat /\ StreamInv(ring, mine, Times(evictions, s))
  BY <1>3, <1>4, <1>5, RingOfIsRing DEF HistoryInv, IInv, TypeOK
<1>7. /\ n + 1 \notin old
      /\ new = old \/ (new = old \cup {n + 1} /\ n + 1 >= NgramSize)
      /\ Forms(ring) => new = old \cup (IF NGramOf(ring, id) = gram THEN {n + 1} ELSE {})
  BY <1>2, <1>3, <1>6, RunsStep DEF StreamInv
<1>8. /\ IsFiniteSet(Runs(gram)) /\ count \in Nat
      /\ Times(formed, gram) <= count
      /\ evictions = << >> => Times(formed, gram) = count
  BY CountIsNat DEF HistoryInv, RunsInv, Occurrences
<1>9. /\ observed'[s] = Append(mine, e)
      /\ \A u \in Streams \ {s} : observed'[u] = observed[u]
  BY <1>3, <1>5
<1>10. \A x : x \in Runs(gram) <=> \E u \in Streams : x \in {u} \X RunsOf(observed[u], gram)
  BY DEF Runs
<1>11. \A x : x \in Runs(gram)' <=> \E u \in Streams : x \in {u} \X RunsOf(observed'[u], gram)
  BY DEF Runs
<1>12. ASSUME NEW x
       PROVE  x \in Runs(gram)' <=> x \in Runs(gram) \/ x \in {s} \X new
  <2> HIDE DEF old, new, n
  <2>1. ASSUME NEW u \in Streams, u # s
        PROVE  RunsOf(observed'[u], gram) = RunsOf(observed[u], gram)
    BY <1>9, <2>1
  <2>2. RunsOf(observed'[s], gram) = new /\ RunsOf(observed[s], gram) = old
    BY <1>5, <1>9 DEF new, old
  <2>3. old \subseteq new
    BY <1>7
  <2> QED BY <1>3, <1>10, <1>11, <2>1, <2>2, <2>3
<1>13. \A i \in old : <<s, i>> \in Runs(gram)
  BY <1>3, <1>5, <1>10
<1>14. <<s, n + 1>> \notin Runs(gram)
  BY <1>5, <1>7, <1>10
<1> HIDE DEF old, new, n, count
<1>15. new = old => IsFiniteSet(Runs(gram)') /\ Cardinality(Runs(gram)') = count
  <2>1. ASSUME new = old PROVE Runs(gram)' = Runs(gram)
    BY <1>12, <1>13, <2>1
  <2> QED BY <1>8, <2>1 DEF count
<1>16. new = old \cup {n + 1} =>
         IsFiniteSet(Runs(gram)') /\ Cardinality(Runs(gram)') = count + 1
  <2>1. ASSUME new = old \cup {n + 1} PROVE Runs(gram)' = Runs(gram) \cup {<<s, n + 1>>}
    BY <1>12, <1>13, <2>1
  <2> QED BY <1>8, <1>14, <2>1, CountOneMore DEF count
<1>17. Occurrences(gram)' = Cardinality(Runs(gram)')
  BY DEF Occurrences
<1>18. TableStep(trace, id)
  BY RecordIsTableStep
<1>19. evictions' = << >> => evictions = << >>
  BY <1>1, RingsStep
<1>20. formed \in [DOMAIN formed -> Nat \ {0}] /\ Times(formed, gram) \in Nat
  BY DEF IInv, TypeOK, Times
<1>21. CASE Forms(ring)
  <2>1. formed' = BagAdd(formed, NGramOf(ring, id))
    BY <1>1, <1>4, <1>18, <1>21 DEF TableStep
  <2>2. OneMore(formed, formed', NGramOf(ring, id))
    BY ONLY <1>20, <2>1, BagAddIs
  <2>3. Times(formed', gram) = Times(formed, gram) + (IF NGramOf(ring, id) = gram THEN 1 ELSE 0)
    BY <1>20, <2>2, TimesOneMore
  <2>4. CASE NGramOf(ring, id) = gram
    <3>1. IsFiniteSet(Runs(gram)') /\ Cardinality(Runs(gram)') = count + 1
      BY <1>7, <1>16, <1>21, <2>4
    <3>2. Times(formed', gram) = Times(formed, gram) + 1
      BY <2>3, <2>4
    <3> QED BY <1>8, <1>17, <1>19, <1>20, <3>1, <3>2 DEF RunsInv
  <2>5. CASE NGramOf(ring, id) # gram
    <3>1. IsFiniteSet(Runs(gram)') /\ Cardinality(Runs(gram)') = count
      BY <1>7, <1>15, <1>21, <2>5
    <3>2. Times(formed', gram) = Times(formed, gram)
      BY <1>20, <2>3, <2>5
    <3> QED BY <1>8, <1>17, <1>19, <3>1, <3>2 DEF RunsInv
  <2> QED BY <2>4, <2>5
<1>22. CASE ~Forms(ring)
  <2>1. formed' = formed
    BY <1>1, <1>4, <1>18, <1>22 DEF TableStep
  <2>2. /\ IsFiniteSet(Runs(gram)')
        /\ Cardinality(Runs(gram)') = count \/ Cardinality(Runs(gram)') = count + 1
    BY <1>7, <1>15, <1>16
  <2>3. Times(formed, gram) <= Cardinality(Runs(gram)')
    BY <1>8, <1>20, <2>2
  <2>4. ASSUME evictions' = << >> PROVE Times(formed, gram) = Cardinality(Runs(gram)')
    <3>1. Times(evictions, s) = 0
      BY <1>19, <2>4 DEF Times
    <3>2. /\ Len(ring) \in 0..2 /\ Len(ring) <= n /\ Len(ring) < NgramSize - 1
          /\ LostIn(mine) \in Nat
          /\ LostIn(mine) + Deficit(Len(ring), n) <= (NgramSize - 1) * Times(evictions, s)
      <4>1. Len(ring) \in 0..2 /\ ~(Len(ring) >= NgramSize - 1)
        BY <1>6, <1>22, RingLength DEF Forms
      <4>2. Len(ring) < NgramSize - 1
        BY <4>1, AdjacencyAssumption
      <4> QED BY <1>6, <4>1, <4>2 DEF StreamInv, IsEndOf, n
    <3>3. (NgramSize - 1) * Times(evictions, s) = 0
      BY <3>1, AdjacencyAssumption
    <3>4. Deficit(Len(ring), n) \in Nat
          /\ (Deficit(Len(ring), n) = 0 /\ Len(ring) < NgramSize - 1 => n + 1 < NgramSize)
      BY <1>6, <3>2, DeficitStep
    <3>5. Deficit(Len(ring), n) = 0
      BY <3>2, <3>3, <3>4
    <3>6. ~(n + 1 >= NgramSize)
      BY <1>6, <3>2, <3>4, <3>5, AdjacencyAssumption
    <3> QED BY <1>7, <1>8, <1>15, <1>19, <2>4, <3>6
  <2> QED BY <1>17, <2>1, <2>2, <2>3, <2>4 DEF RunsInv
<1> QED BY <1>21, <1>22

LEMMA NothingIsObserved ==
  ASSUME Init
  PROVE  /\ observed \in [Streams -> Seq(Seen)]
         /\ HistoryInv
<1>1. /\ << >> \in Seq(Seen) /\ Len(<< >>) = 0 /\ DOMAIN << >> = {}
      /\ \A s \in Streams : observed[s] = << >>
  BY DEF Init, NothingObserved
<1>2. observed \in [Streams -> Seq(Seen)]
  BY <1>1 DEF Init, NothingObserved
<1>3. Cardinality({}) = 0 /\ IsFiniteSet({})
  BY EmptyCount
<1>4. ASSUME NEW s \in Streams PROVE StreamInv(RingOf(s), observed[s], Times(evictions, s))
  <2>1. RingOf(s) = << >> /\ observed[s] = << >> /\ Times(evictions, s) = 0
    BY <1>1 DEF Init, AdjacencyInit, RingOf, RingFor, Times
  <2>2. Deficit(0, 0) = 0
    BY AdjacencyAssumption DEF Deficit
  <2>3. LostIn(<< >>) = 0
    <3>1. {i \in NgramSize..Len(<< >>) : ~(<< >>)[i].formed} = {}
      BY <1>1, AdjacencyAssumption
    <3> QED BY <1>3, <3>1 DEF LostIn
  <2>4. (NgramSize - 1) * 0 = 0
    BY AdjacencyAssumption
  <2>5. IsEndOf(<< >>, << >>)
    BY <1>1 DEF IsEndOf
  <2>6. StreamInv(<< >>, << >>, 0)
    BY <1>1, <2>2, <2>3, <2>4, <2>5 DEF StreamInv
  <2> QED BY <2>1, <2>6
<1>5. ASSUME NEW gram \in NGram PROVE RunsInv(gram)
  <2>1. \A s \in Streams : RunsOf(observed[s], gram) = {}
    BY <1>1, AdjacencyAssumption DEF RunsOf
  <2>2. Runs(gram) = {}
    BY <2>1 DEF Runs
  <2>3. Times(formed, gram) = 0
    BY <1>1 DEF Init, Times
  <2> QED BY <1>3, <2>2, <2>3 DEF RunsInv, Occurrences
<1> QED BY <1>2, <1>4, <1>5 DEF HistoryInv

-----------------------------------------------------------------------------
(* The inductive invariant *)

LEMMA InitHasIInv == Init => IInv
<1> SUFFICES ASSUME Init PROVE IInv
  OBVIOUS
<1>0. observed \in [Streams -> Seq(Seen)]
  BY NothingIsObserved
<1> USE DEF Init, AdjacencyInit
<1>1. DOMAIN << >> = {}
  OBVIOUS
<1>2. TypeOK
  <2>1. AdjacencyTypeOK
    BY <1>1, EmptyIsRing DEF AdjacencyTypeOK
  <2>2. /\ DOMAIN formed \subseteq NGram /\ formed \in [DOMAIN formed -> Nat \ {0}]
        /\ evictions \in [DOMAIN evictions -> Nat \ {0}]
    BY <1>1
  <2> QED BY ONLY <1>0, <2>1, <2>2 DEF TypeOK, Seen
<1>3. Cardinality({}) = 0 /\ IsFiniteSet({})
  BY EmptyCount
<1>4. Lists(trace_ring_fifo, DOMAIN trace_rings)
  BY <1>1, EmptyFifo
<1>5. TableIsBounded /\ CountsAreNeverPartial /\ IsFiniteSet(DOMAIN ngram_counts)
  BY <1>1, <1>3, AdjacencyAssumption DEF TableIsBounded, CountsAreNeverPartial
<1>6. EveryObservationAccounted /\ IsFiniteSet(DOMAIN formed)
  BY <1>1, <1>3, EmptyBagSum DEF EveryObservationAccounted
<1> QED BY <1>1, <1>2, <1>3, <1>4, <1>5, <1>6, AdjacencyAssumption DEF IInv

LEMMA NextKeepsIInv == IInv /\ [Next]_vars => IInv'
<1> SUFFICES ASSUME IInv, [Next]_vars PROVE IInv'
  OBVIOUS
<1>1. ASSUME NEW trace \in TraceId \cup {NoTrace}, NEW id \in InternalId, Record(trace, id)
      PROVE  IInv'
  <2>1. TableStep(trace, id)
    BY <1>1, RecordIsTableStep
  <2>2. TypeOK'
    <3>1. observed' \in [Streams -> Seq(Seen)]
      BY <1>1, ObservedStep DEF IInv
    <3> QED BY <1>1, <2>1, <3>1, TableStepKeeps, RingStepKeeps DEF TypeOK, AdjacencyTypeOK, Seen
  <2>3. /\ Lists(trace_ring_fifo, DOMAIN trace_rings)'
        /\ (MaxActiveTraces > 0 => Cardinality(DOMAIN trace_rings) <= MaxActiveTraces)'
    BY <1>1, RingStepKeeps
  <2>4. IsFiniteSet(DOMAIN ngram_counts)' /\ TableIsBounded' /\ CountsAreNeverPartial'
    BY <1>1, <2>1, TableStepKeeps
  <2>5. IsFiniteSet(DOMAIN formed)' /\ EveryObservationAccounted'
    BY <1>1, <2>1, TableStepAccounts
  <2> QED BY <2>2, <2>3, <2>4, <2>5 DEF IInv
<1>2. CASE Reset
  <2>1. Init'
    BY <1>2 DEF Reset, ResetAdjacency, Init, AdjacencyInit
  <2>2. (Init => IInv)'
    BY InitHasIInv, PTL
  <2> QED BY <2>1, <2>2
<1>3. CASE UNCHANGED vars
  BY <1>3
  DEF vars, adjacencyVars, table, historyVars, IInv, TypeOK, AdjacencyTypeOK,
      TableIsBounded, CountsAreNeverPartial, EveryObservationAccounted
<1> QED BY <1>1, <1>2, <1>3 DEF Next

LEMMA NextKeepsHistory == IInv /\ HistoryInv /\ [Next]_vars => HistoryInv'
<1> SUFFICES ASSUME IInv, HistoryInv, [Next]_vars PROVE HistoryInv'
  OBVIOUS
<1>1. ASSUME NEW trace \in TraceId \cup {NoTrace}, NEW id \in InternalId, Record(trace, id)
      PROVE  HistoryInv'
  BY <1>1, RecordKeepsStreams, RecordKeepsRuns DEF HistoryInv
<1>2. CASE Reset
  <2>1. Init'
    BY <1>2 DEF Reset, ResetAdjacency, Init, AdjacencyInit
  <2>2. (Init => HistoryInv)'
    BY NothingIsObserved, PTL
  <2> QED BY <2>1, <2>2
<1>3. CASE UNCHANGED vars
  BY <1>3 DEF vars, adjacencyVars, historyVars, HistoryInv, StreamInv, RunsInv, RingOf, RingFor,
              Runs, Occurrences, Times
<1> QED BY <1>1, <1>2, <1>3 DEF Next

LEMMA AlwaysIInv == Spec => []IInv
BY InitHasIInv, NextKeepsIInv, PTL DEF Spec

LEMMA AlwaysHistoryInv == Spec => []HistoryInv
<1>1. Init => HistoryInv
  BY NothingIsObserved
<1> QED BY <1>1, InitHasIInv, NextKeepsIInv, NextKeepsHistory, PTL DEF Spec

-----------------------------------------------------------------------------
(* The theorems *)

LEMMA IInvImpliesFifo == IInv => FifoIsTheRings
BY DEF IInv, FifoIsTheRings, Lists

(* Whatever the stream of records, the state keeps its types, the FIFO of  *)
(* trace_ring_for lists exactly the rings held and bounds them, the table  *)
(* of account_ngram_into stays within max_ngram_keys, and no key it holds  *)
(* misses an observation.                                                  *)
THEOREM AdjacencyInvariants ==
  Spec => [](TypeOK /\ FifoIsTheRings /\ TableIsBounded /\ CountsAreNeverPartial)
<1>1. IInv => TypeOK /\ FifoIsTheRings /\ TableIsBounded /\ CountsAreNeverPartial
  BY IInvImpliesFifo DEF IInv
<1> QED BY <1>1, AlwaysIInv, PTL

(* trace_ring_for always evicts a ring it holds, the oldest one, and keeps *)
(* to max_active_traces.                                                   *)
THEOREM FifoIsAlwaysTheRings == Spec => []FifoIsTheRings
BY IInvImpliesFifo, AlwaysIInv, PTL

(* The table of account_ngram_into keeps to max_ngram_keys.                *)
THEOREM TableIsAlwaysBounded == Spec => []TableIsBounded
<1>1. IInv => TableIsBounded
  BY DEF IInv
<1> QED BY <1>1, AlwaysIInv, PTL

(* Whatever the cap refuses is counted: the total is the sum of the table, *)
(* and with what was dropped the number of n-grams the window formed.      *)
THEOREM EveryObservationIsAccounted == Spec => []EveryObservationAccounted
<1>1. IInv => EveryObservationAccounted
  BY DEF IInv
<1> QED BY <1>1, AlwaysIInv, PTL

(* A counted n-gram is a run of consecutive records of one stream, and     *)
(* every such run is counted when no ring was evicted.                     *)
THEOREM GramsAreAlwaysRealRuns == Spec => []GramsAreRealRuns
<1>1. IInv /\ HistoryInv => GramsAreRealRuns
  <2> SUFFICES ASSUME IInv, HistoryInv, NEW gram \in DOMAIN formed
               PROVE  /\ formed[gram] <= Occurrences(gram)
                      /\ evictions = << >> => formed[gram] = Occurrences(gram)
    BY DEF GramsAreRealRuns
  <2>1. gram \in NGram /\ Times(formed, gram) = formed[gram]
    BY DEF IInv, TypeOK, Times
  <2> QED BY <2>1 DEF HistoryInv, RunsInv
<1> QED BY <1>1, AlwaysIInv, AlwaysHistoryInv, PTL

(* What a stream loses its evictions pay for: at most NgramSize - 1 runs   *)
(* for each, and nothing without one.                                      *)
THEOREM EvictionCostIsAlwaysBounded == Spec => []EvictionCostIsBounded
<1>1. IInv /\ HistoryInv => EvictionCostIsBounded
  <2> SUFFICES ASSUME IInv, HistoryInv, NEW s \in Streams
               PROVE  Lost(s) \in 0..((NgramSize - 1) * Times(evictions, s))
    BY DEF EvictionCostIsBounded
  <2> DEFINE ring == RingOf(s)
             mine == observed[s]
             lost == LostIn(mine)
             due == Deficit(Len(ring), Len(mine))
             paid == (NgramSize - 1) * Times(evictions, s)
  <2>1. ring \in Ring /\ mine \in Seq(Seen) /\ Times(evictions, s) \in Nat
        /\ StreamInv(ring, mine, Times(evictions, s))
    BY RingOfIsRing DEF IInv, TypeOK, HistoryInv, Seen, Times
  <2>2. lost \in Nat /\ lost + due <= paid /\ Len(ring) <= Len(mine)
    BY <2>1 DEF StreamInv, IsEndOf
  <2>3. due \in Nat
    <3>1. Len(ring) \in 0..2 /\ Len(mine) \in Nat
      BY <2>1, RingLength
    <3> QED BY <2>2, <3>1, DeficitStep
  <2>4. paid \in Nat
    BY <2>1, AdjacencyAssumption
  <2> HIDE DEF lost, due, paid
  <2>5. lost \in 0..paid
    BY <2>2, <2>3, <2>4
  <2> QED BY <2>5 DEF Lost, lost, paid
<1> QED BY <1>1, AlwaysIInv, AlwaysHistoryInv, PTL

(* Within a window no step of the engine takes a key out of the table or   *)
(* lowers its count: max_ngram_keys refuses, it never displaces.           *)
THEOREM NoKeyIsDisplaced == Spec => NoKeyDisplaced
<1> DEFINE Grows == observed' # NothingObserved =>
             \A gram \in DOMAIN ngram_counts :
               gram \in DOMAIN ngram_counts' /\ ngram_counts'[gram] >= ngram_counts[gram]
<1>1. ASSUME IInv, [Next]_vars PROVE Grows
  <2>1. ngram_counts \in [DOMAIN ngram_counts -> Nat \ {0}]
    BY <1>1 DEF IInv, TypeOK, AdjacencyTypeOK
  <2>2. CASE UNCHANGED ngram_counts
    BY <2>1, <2>2
  <2>3. ASSUME NEW gram, ngram_counts' = BagAdd(ngram_counts, gram)
        PROVE  Grows
    <3>1. OneMore(ngram_counts, ngram_counts', gram)
      BY ONLY <2>1, <2>3, BagAddIs
    <3> QED BY <2>1, <3>1 DEF OneMore
  <2>4. ASSUME NEW trace \in TraceId \cup {NoTrace}, NEW id \in InternalId, Record(trace, id)
        PROVE  Grows
    <3>1. TableStep(trace, id)
      BY <2>4, RecordIsTableStep
    <3> QED BY <2>2, <2>3, <3>1 DEF TableStep, CountNgram
  <2>5. CASE Reset
    BY <2>5 DEF Reset
  <2>6. CASE UNCHANGED vars
    BY <2>2, <2>6 DEF vars, adjacencyVars, table
  <2> QED BY <1>1, <2>4, <2>5, <2>6 DEF Next
<1>2. IInv /\ [Next]_vars => [Grows]_vars
  BY <1>1
<1> QED BY <1>2, AlwaysIInv, PTL DEF Spec, NoKeyDisplaced

=============================================================================
