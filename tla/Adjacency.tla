----------------------------- MODULE Adjacency -----------------------------
(***************************************************************************)
(* The log-order adjacency graph of MetaLogEngine: the rings of recent     *)
(* template ids, one for the global stream and one per active trace, and   *)
(* the bounded table of the n-grams they form.                             *)
(*                                                                         *)
(* A ring is the sequence of its last ids, newest first; an n-gram is a    *)
(* sequence of ids, oldest first, and the table a bag of n-grams.          *)
(***************************************************************************)
EXTENDS Naturals, BagsExt, Sequences, FiniteSets

CONSTANTS
  InternalId,       \* the compact per-window template ids
  TraceId,          \* trace ids
  NoTrace,          \* stands for a record without trace context
  NgramSize,        \* config_.ngram_size
  MaxNgramKeys,     \* config_.max_ngram_keys
  MaxActiveTraces,  \* config_.max_active_traces; 0 disables the bound
  TraceScoping      \* config_.trace_scoped_adjacency

ASSUME AdjacencyAssumption ==
  /\ NoTrace \notin TraceId
  /\ NgramSize \in {2, 3}
  /\ {MaxNgramKeys, MaxActiveTraces} \subseteq Nat
  /\ TraceScoping \in BOOLEAN

VARIABLES
  global_ring,      \* the ring of the records that no trace scopes
  trace_rings,      \* the ring of each trace held
  trace_ring_fifo,  \* the traces held, oldest inserted first
  ngram_counts,     \* the bag of n-grams counted
  ngram_total,      \* the observations counted
  ngram_dropped     \* the observations refused at MaxNgramKeys

table == <<ngram_counts, ngram_total, ngram_dropped>>
adjacencyVars == <<global_ring, trace_rings, trace_ring_fifo, table>>

Ring == {ring \in Seq(InternalId) : Len(ring) <= 2}
NGram == [1..NgramSize -> InternalId]

AdjacencyTypeOK ==
  /\ global_ring \in Ring
  /\ DOMAIN trace_rings \subseteq TraceId
  /\ trace_rings \in [DOMAIN trace_rings -> Ring]
  /\ trace_ring_fifo \in Seq(TraceId)
  /\ DOMAIN ngram_counts \subseteq NGram
  /\ ngram_counts \in [DOMAIN ngram_counts -> Nat \ {0}]
  /\ ngram_total \in Nat
  /\ ngram_dropped \in Nat

-----------------------------------------------------------------------------

(* A bigram needs one prior id in the ring and a trigram two. *)
Forms(ring) == Len(ring) >= NgramSize - 1

NGramOf(ring, id) == IF NgramSize = 2 THEN <<ring[1], id>> ELSE <<ring[2], ring[1], id>>

(* Fault: the ring restarts after each n-gram. *)
ShiftWithoutOverlap(ring, id) ==
  IF Forms(ring) THEN << >> ELSE <<id>> \o ring

Shift(ring, id) == IF ring = << >> THEN <<id>> ELSE <<id, ring[1]>>

(* Fault: at the cap every observation is refused. *)
AdmitsBelowCap(gram) == Cardinality(DOMAIN ngram_counts) < MaxNgramKeys

(* A new key is refused at the cap; a key already held keeps counting. *)
Admits(gram) ==
  gram \in DOMAIN ngram_counts \/ Cardinality(DOMAIN ngram_counts) < MaxNgramKeys

(* Faults: a refusal nobody counts; a full table that gives up a key. *)
CountNgramSilently(gram) ==
  /\ ngram_counts' = IF Admits(gram) THEN BagAdd(ngram_counts, gram) ELSE ngram_counts
  /\ ngram_total' = IF Admits(gram) THEN ngram_total + 1 ELSE ngram_total
  /\ UNCHANGED ngram_dropped
CountNgramDisplacing(gram) ==
  /\ \E lost \in {{}} \cup {{g} : g \in DOMAIN ngram_counts} :
       /\ lost = {} <=> Admits(gram)
       /\ ngram_counts' = BagAdd([g \in DOMAIN ngram_counts \ lost |-> ngram_counts[g]], gram)
  /\ ngram_total' = ngram_total + 1
  /\ UNCHANGED ngram_dropped

CountNgram(gram) ==
  IF Admits(gram)
    THEN /\ ngram_counts' = BagAdd(ngram_counts, gram)
         /\ ngram_total' = ngram_total + 1
         /\ UNCHANGED ngram_dropped
    ELSE /\ ngram_dropped' = ngram_dropped + 1
         /\ UNCHANGED <<ngram_counts, ngram_total>>

(* account_ngram_into's effect on the table; its caller shifts the ring. *)
AccountNgram(ring, id) ==
  IF Forms(ring) THEN CountNgram(NGramOf(ring, id)) ELSE UNCHANGED table

(* The trace evicted by trace_ring_for when t needs a new ring at the bound. *)
Evicted(t) ==
  IF /\ t \notin DOMAIN trace_rings
     /\ MaxActiveTraces > 0
     /\ Cardinality(DOMAIN trace_rings) >= MaxActiveTraces
     /\ trace_ring_fifo # << >>
  THEN {Head(trace_ring_fifo)}
  ELSE {}

(* Fault: a new trace inherits the ring of the one it evicts. *)
RingRecycled(t) ==
  IF t \in DOMAIN trace_rings THEN trace_rings[t]
  ELSE IF Evicted(t) = {} THEN << >> ELSE trace_rings[Head(trace_ring_fifo)]

RingFor(t) == IF t \in DOMAIN trace_rings THEN trace_rings[t] ELSE << >>

(* Fault: the evicted trace stays in the FIFO. *)
HoldTraceWithoutPop(t) ==
  trace_ring_fifo' = IF t \in DOMAIN trace_rings THEN trace_ring_fifo
                     ELSE Append(trace_ring_fifo, t)

HoldTrace(t) ==
  trace_ring_fifo' =
    IF t \in DOMAIN trace_rings THEN trace_ring_fifo
    ELSE Append(IF Evicted(t) = {} THEN trace_ring_fifo ELSE Tail(trace_ring_fifo), t)

ObserveInTrace(t, id) ==
  /\ AccountNgram(RingFor(t), id)
  /\ HoldTrace(t)
  /\ trace_rings' = [u \in (DOMAIN trace_rings \ Evicted(t)) \cup {t} |->
                       IF u = t THEN Shift(RingFor(t), id) ELSE trace_rings[u]]
  /\ UNCHANGED global_ring

ObserveGlobally(id) ==
  /\ AccountNgram(global_ring, id)
  /\ global_ring' = Shift(global_ring, id)
  /\ UNCHANGED <<trace_rings, trace_ring_fifo>>

(* The adjacency part of the ingest of one record that is not a span. *)
Observe(trace, id) ==
  IF TraceScoping /\ trace # NoTrace THEN ObserveInTrace(trace, id) ELSE ObserveGlobally(id)

AdjacencyInit ==
  /\ global_ring = << >>
  /\ trace_rings = << >>
  /\ trace_ring_fifo = << >>
  /\ ngram_counts = << >>
  /\ ngram_total = 0
  /\ ngram_dropped = 0

(* The adjacency part of reset_window_state: open, close and discard. *)
ResetAdjacency ==
  /\ global_ring' = << >>
  /\ trace_rings' = << >>
  /\ trace_ring_fifo' = << >>
  /\ ngram_counts' = << >>
  /\ ngram_total' = 0
  /\ ngram_dropped' = 0

AdjacencyNext ==
  \/ \E t \in TraceId \cup {NoTrace}, id \in InternalId : Observe(t, id)
  \/ ResetAdjacency

AdjacencySpec == AdjacencyInit /\ [][AdjacencyNext]_adjacencyVars

=============================================================================
