------------------------------ MODULE Behavior ------------------------------
(***************************************************************************)
(* What close_window reads off the n-gram table: the transition graph, the *)
(* incoming surprise of each template, and the behavior block.             *)
(*                                                                         *)
(* An n-gram is a sequence of internal ids, oldest first; templates maps   *)
(* an internal id plus one to its template id.  A bag of n-grams is the    *)
(* table; the graph drawn from it has an edge from the first id of an      *)
(* n-gram to its second.                                                   *)
(***************************************************************************)
EXTENDS Naturals, Sequences, FiniteSets, Functions, SequencesExt

CONSTANTS
  TopNgramsSize,       \* config_.top_ngrams_size; 0 disables the block
  DominantPathMaxSteps \* config_.dominant_path_max_steps; 0 disables the path

ASSUME BehaviorAssumption == {TopNgramsSize, DominantPathMaxSteps} \subseteq Nat

Bands == INSTANCE Retention WITH
  TopKSize <- 0, ReservoirSize <- 0, PerKindCap <- 0, ErrorReserve <- 0,
  Terminator <- 0, FailureCued <- {}

-----------------------------------------------------------------------------
(* build_transition_graph *)

Edges(ngrams) == {<<gram[1], gram[2]>> : gram \in DOMAIN ngrams}

(* The transition graph: the weight of each edge. *)
Transitions(ngrams) ==
  [e \in Edges(ngrams) |->
     SumFunctionOnSet(ngrams, {g \in DOMAIN ngrams : <<g[1], g[2]>> = e})]

(* The row of a source. *)
Leaving(graph, from) == {e \in DOMAIN graph : e[1] = from}

Outgoing(graph, from) == SumFunctionOnSet(graph, Leaving(graph, from))

(* The tables are unordered maps: a loop over one visits its edges in an   *)
(* order nobody chose, which is the argument order below.                  *)
AnyOrder(graph) == SetToSeq(DOMAIN graph)

(* Faults: the tie of two equal ratios left to the order; counts compared  *)
(* where ratios should be.                                                 *)
LikelierUntied(graph, best, e) ==
  IF graph[e] * best.total > best.count * Outgoing(graph, e[1])
  THEN [count |-> graph[e], total |-> Outgoing(graph, e[1])] ELSE best
LikelierByCount(graph, best, e) ==
  IF graph[e] > best.count
  THEN [count |-> graph[e], total |-> Outgoing(graph, e[1])] ELSE best

(* One step of the search for the most likely edge into a node: ratios are *)
(* compared by cross multiplying, and of two equal ratios the edge         *)
(* observed more often wins.                                               *)
Likelier(graph, best, e) ==
  LET total == Outgoing(graph, e[1])
      candidate == graph[e] * best.total
      incumbent == best.count * total
  IN  IF candidate > incumbent \/ (candidate = incumbent /\ graph[e] > best.count)
      THEN [count |-> graph[e], total |-> total] ELSE best

LikeliestInto(graph, to, order) ==
  FoldLeft(LAMBDA best, e : IF e[2] = to THEN Likelier(graph, best, e) ELSE best,
           [count |-> 0, total |-> 1], order)

SurpriseInOrder(graph, to, order) ==
  Bands!SurpriseBand(LikeliestInto(graph, to, order).count, LikeliestInto(graph, to, order).total)

IncomingSurprise(graph, to) == SurpriseInOrder(graph, to, AnyOrder(graph))

-----------------------------------------------------------------------------
(* build_behavior *)

Rendered(gram, templates) == [i \in DOMAIN gram |-> templates[gram[i] + 1]]

(* Fault: only the first ids are compared. *)
SequenceLessByHead(s, t) == s[1] < t[1]

SequenceLess(s, t) ==
  \E i \in DOMAIN s : s[i] < t[i] /\ \A j \in 1..(i - 1) : s[j] = t[j]

Prefix(gram) == SubSeq(gram, 1, Len(gram) - 1)

(* The counted n-grams that open with the same ids as gram. *)
PrefixTotal(ngrams, gram) ==
  SumFunctionOnSet(ngrams, {g \in DOMAIN ngrams : Prefix(g) = Prefix(gram)})

MoreFrequent(ngrams, templates, g, h) ==
  \/ ngrams[g] > ngrams[h]
  \/ ngrams[g] = ngrams[h] /\ SequenceLess(Rendered(g, templates), Rendered(h, templates))

(* The most frequent n-grams, with count and count of their prefix. *)
TopGrams(ngrams, templates) ==
  {g \in DOMAIN ngrams :
     Cardinality({h \in DOMAIN ngrams : MoreFrequent(ngrams, templates, h, g)}) < TopNgramsSize}

TopNgrams(ngrams, templates) ==
  {[sequence |-> Rendered(g, templates), count |-> ngrams[g], out_of |-> PrefixTotal(ngrams, g)]
     : g \in TopGrams(ngrams, templates)}

(* dominant_path_start, over the counts of the buckets by internal id: the *)
(* busiest template, ties toward the lower internal id.                    *)
Busiest(counts) ==
  CHOOSE k \in DOMAIN counts : \A j \in DOMAIN counts :
    counts[j] < counts[k] \/ (counts[j] = counts[k] /\ k <= j)

(* The heaviest edge of the row of a source, ties toward the lower target. *)
HeaviestFrom(graph, from, order) ==
  FoldLeft(LAMBDA best, e :
             IF e[1] = from /\ (graph[e] > best.count \/ (graph[e] = best.count /\ e[2] < best.to))
             THEN [to |-> e[2], count |-> graph[e]] ELSE best,
           [to |-> 0, count |-> 0], order)

NextHop(graph, from, order) == HeaviestFrom(graph, from, order).to

(* Fault: a template may be visited again. *)
PathStepRevisiting(graph, path, order) ==
  IF Leaving(graph, Last(path)) = {} THEN path ELSE Append(path, NextHop(graph, Last(path), order))

(* The greedy walk, until it leads nowhere new or the steps run out.       *)
PathStep(graph, path, order) ==
  LET next == NextHop(graph, Last(path), order) IN
  IF Leaving(graph, Last(path)) = {} \/ next \in Range(path) THEN path ELSE Append(path, next)

PathInOrder(graph, counts, order) ==
  IF DominantPathMaxSteps = 0 \/ DOMAIN counts = {} THEN << >>
  ELSE FoldLeft(LAMBDA path, step : PathStep(graph, path, order),
                <<Busiest(counts)>>, [i \in 1..DominantPathMaxSteps |-> i])

DominantPath(graph, counts) == PathInOrder(graph, counts, AnyOrder(graph))

(* The rows of build_branching before its entropy-ranked cut. *)
Branching(graph) ==
  [from \in {e[1] : e \in DOMAIN graph} |->
     [fanout |-> Cardinality(Leaving(graph, from)),
      total_outgoing |-> Outgoing(graph, from)]]

(* Fault: a block for distributions longer than the ranking only. *)
SilentWhenShort(total) == TopNgramsSize = 0 \/ total <= TopNgramsSize

Silent(total) == TopNgramsSize = 0 \/ total = 0

BehaviorBlock(ngrams, total, dropped, templates, counts) ==
  IF Silent(total) THEN << >>
  ELSE LET graph == Transitions(ngrams) IN
       <<[top_ngrams |-> TopNgrams(ngrams, templates),
          dropped |-> dropped,
          graph_edge_count |-> Cardinality(DOMAIN graph),
          branching |-> Branching(graph),
          dominant_path |-> [i \in DOMAIN DominantPath(graph, counts) |->
                               templates[DominantPath(graph, counts)[i] + 1]]]>>

=============================================================================
