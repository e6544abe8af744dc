-------------------------- MODULE AdjacencyHistory --------------------------
(***************************************************************************)
(* Adjacency with the history of the open window beside it: the records of *)
(* the window, and the n-grams they formed and the traces evicted.         *)
(***************************************************************************)
EXTENDS Adjacency, FiniteSetsExt, SequencesExt

CONSTANT MaxRecords  \* bounds the records of one window, for TLC

ASSUME MaxRecords \in Nat

VARIABLES
  observed,  \* the records of each observation stream of the window, in order
  formed,    \* the bag of the n-grams formed, refused ones included
  evictions  \* the bag of the traces evicted

historyVars == <<observed, formed, evictions>>
vars == <<adjacencyVars, historyVars>>

Streams == TraceId \cup {NoTrace}

NothingObserved == [s \in Streams |-> << >>]

(* The observation stream a record belongs to, and the ring it goes by. *)
Stream(trace) == IF TraceScoping THEN trace ELSE NoTrace
RingOf(stream) == IF stream = NoTrace THEN global_ring ELSE RingFor(stream)

Init ==
  /\ AdjacencyInit
  /\ observed = NothingObserved
  /\ formed = << >>
  /\ evictions = << >>

RecordsSeen == MapThenSumSet(LAMBDA s : Len(observed[s]), {s \in Streams : observed[s] # << >>})

Record(trace, id) ==
  LET ring == RingOf(Stream(trace)) IN
  /\ RecordsSeen < MaxRecords
  /\ Observe(trace, id)
  /\ observed' = [observed EXCEPT ![Stream(trace)] = Append(@, [id |-> id, formed |-> Forms(ring)])]
  /\ formed' = IF Forms(ring) THEN BagAdd(formed, NGramOf(ring, id)) ELSE formed
  /\ evictions' = IF Stream(trace) # NoTrace /\ Evicted(trace) # {}
                  THEN BagAdd(evictions, Head(trace_ring_fifo)) ELSE evictions

Reset ==
  /\ ResetAdjacency
  /\ observed' = NothingObserved
  /\ formed' = << >>
  /\ evictions' = << >>

Next ==
  \/ \E trace \in TraceId \cup {NoTrace}, id \in InternalId : Record(trace, id)
  \/ Reset

Spec == Init /\ [][Next]_vars

-----------------------------------------------------------------------------
(* Reading the history *)

Times(bag, x) == IF x \in DOMAIN bag THEN bag[x] ELSE 0

(* Where the records of a stream read as gram, by the last of them.        *)
RunsOf(mine, gram) ==
  {i \in NgramSize..Len(mine) : \A j \in 1..NgramSize : mine[i - NgramSize + j].id = gram[j]}

Runs(gram) == UNION {{s} \X RunsOf(observed[s], gram) : s \in Streams}

Occurrences(gram) == Cardinality(Runs(gram))

(* The runs of a stream that formed no n-gram. *)
LostIn(mine) == Cardinality({i \in NgramSize..Len(mine) : ~mine[i].formed})

Lost(stream) == LostIn(observed[stream])

-----------------------------------------------------------------------------

(* Type invariant. *)
TypeOK ==
  /\ AdjacencyTypeOK
  /\ observed \in [Streams -> Seq([id : InternalId, formed : BOOLEAN])]
  /\ DOMAIN formed \subseteq NGram
  /\ formed \in [DOMAIN formed -> Nat \ {0}]
  /\ evictions \in [DOMAIN evictions -> Nat \ {0}]

(* trace_ring_fifo_ lists exactly the rings held, each once and within the *)
(* bound: the head trace_ring_for evicts is always a ring that is held.    *)
FifoIsTheRings ==
  /\ Range(trace_ring_fifo) = DOMAIN trace_rings
  /\ Len(trace_ring_fifo) = Cardinality(DOMAIN trace_rings)
  /\ MaxActiveTraces > 0 => Cardinality(DOMAIN trace_rings) <= MaxActiveTraces

(* The table never holds more keys than account_ngram allows. *)
TableIsBounded == Cardinality(DOMAIN ngram_counts) <= MaxNgramKeys

(* A key the table holds has never missed an observation: it entered with  *)
(* its first one and counts on past the cap, and a key is left out only of *)
(* a table that is full.                                                   *)
CountsAreNeverPartial ==
  /\ \A gram \in DOMAIN ngram_counts :
       gram \in DOMAIN formed /\ ngram_counts[gram] = formed[gram]
  /\ DOMAIN ngram_counts # DOMAIN formed => Cardinality(DOMAIN ngram_counts) >= MaxNgramKeys

(* Every n-gram formed is counted or declared dropped, exactly once.       *)
EveryObservationAccounted ==
  /\ ngram_total = SumFunction(ngram_counts)
  /\ ngram_total + ngram_dropped = SumFunction(formed)

(* A counted n-gram is a run of consecutive records of ONE observation     *)
(* stream: never across two traces, never across the span boundary of an   *)
(* evicted ring, and all such runs when no ring was evicted.               *)
GramsAreRealRuns ==
  \A gram \in DOMAIN formed :
    /\ formed[gram] <= Occurrences(gram)
    /\ evictions = << >> => formed[gram] = Occurrences(gram)

(* An eviction costs edges and never membership: what a trace lost is at   *)
(* most NgramSize - 1 observations for each time its ring was evicted, and *)
(* the global stream and a trace never evicted lose nothing.               *)
EvictionCostIsBounded ==
  \A s \in Streams : Lost(s) \in 0..((NgramSize - 1) * Times(evictions, s))

(* Past the cap, counts on existing keys keep updating and no key loses    *)
(* its place: within a window the table only grows.                        *)
NoKeyDisplaced ==
  [][observed' # NothingObserved =>
       \A gram \in DOMAIN ngram_counts :
         gram \in DOMAIN ngram_counts' /\ ngram_counts'[gram] >= ngram_counts[gram]]_vars

=============================================================================
