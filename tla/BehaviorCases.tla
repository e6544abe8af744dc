--------------------------- MODULE BehaviorCases ---------------------------
(***************************************************************************)
(* The graph algorithms of Behavior over every small n-gram table.  A      *)
(* table is built up gram by gram.                                         *)
(***************************************************************************)
EXTENDS Behavior

CONSTANTS
  NgramSize,  \* the ids of an n-gram
  Templates,  \* the template ids by internal id; numbers stand for the strings
  Grams,      \* the n-grams considered
  Weights,    \* the counts considered
  MaxKeys     \* bounds the grams of a table, for TLC

Ids == 0..(Len(Templates) - 1)

ASSUME GramsAssumption ==
  /\ NgramSize \in Nat /\ NgramSize >= 2
  /\ Templates \in Seq(Nat)
  /\ \A i, j \in DOMAIN Templates : Templates[i] = Templates[j] => i = j
  /\ Grams \subseteq [1..NgramSize -> Ids]
  /\ Weights \subseteq Nat \ {0}
  /\ MaxKeys \in Nat

VARIABLE ngrams

BehaviorInit == ngrams = << >>

Count(gram, weight) ==
  /\ Cardinality(DOMAIN ngrams) < MaxKeys
  /\ gram \notin DOMAIN ngrams
  /\ ngrams' = [g \in DOMAIN ngrams \cup {gram} |-> IF g = gram THEN weight ELSE ngrams[g]]

BehaviorRestart == ngrams' = << >>

BehaviorNext == (\E gram \in Grams, weight \in Weights : Count(gram, weight)) \/ BehaviorRestart

BehaviorSpec == BehaviorInit /\ [][BehaviorNext]_ngrams

-----------------------------------------------------------------------------

graph == Transitions(ngrams)

(* The counts of the buckets a stream with these edges has at the least.   *)
counts ==
  LET g == graph
      Incoming(id) == SumFunctionOnSet(g, {e \in DOMAIN g : e[2] = id})
  IN  [id \in UNION {{e[1], e[2]} : e \in DOMAIN g} |->
         IF Outgoing(g, id) < Incoming(id) THEN Incoming(id) ELSE Outgoing(g, id)]

(* Whatever order the hash maps are walked in, surprise and path come out  *)
(* the same: every tie is broken.                                          *)
IterationOrderIsInvisible ==
  LET g == graph
      c == counts
  IN  \A order \in SetToSeqs(DOMAIN g) :
        /\ \A to \in Ids : SurpriseInOrder(g, to, order) = IncomingSurprise(g, to)
        /\ PathInOrder(g, c, order) = DominantPath(g, c)

(* A template is surprising exactly when every way into it is rare where   *)
(* it leaves from, and the likeliest one, or one as likely, was observed   *)
(* more than once: a lone observation is nobody's surprise.                *)
SurpriseMeansRare ==
  LET g == graph
      out == [id \in Ids |-> Outgoing(g, id)]
  IN  \A to \in Ids :
        LET into == {e \in DOMAIN g : e[2] = to} IN
        IncomingSurprise(g, to) > 0 <=>
        /\ \A e \in into : g[e] * 5 < out[e[1]]
        /\ \E e \in into : /\ g[e] >= 2
                          /\ \A f \in into : g[f] * out[e[1]] <= g[e] * out[f[1]]

(* The dominant path starts at a template nothing outnumbers, never visits *)
(* one twice, takes at each step an edge none of its siblings outweighs,   *)
(* and stops early only where it must.                                     *)
DominantPathIsGreedy ==
  LET g == graph
      c == counts
      path == DominantPath(g, c)
  IN  IF ngrams = << >> \/ DominantPathMaxSteps = 0 THEN path = << >>
      ELSE /\ path # << >>
           /\ \A id \in DOMAIN c : c[id] <= c[path[1]]
           /\ \A i, j \in DOMAIN path : path[i] = path[j] => i = j
           /\ \A i \in 1..(Len(path) - 1) :
                /\ <<path[i], path[i + 1]>> \in DOMAIN g
                /\ \A e \in Leaving(g, path[i]) : g[e] <= g[<<path[i], path[i + 1]>>]
           /\ Len(path) <= DominantPathMaxSteps + 1
           /\ Len(path) <= DominantPathMaxSteps =>
                \/ Leaving(g, Last(path)) = {}
                \/ \E e \in Leaving(g, Last(path)) :
                     /\ e[2] \in Range(path)
                     /\ \A other \in Leaving(g, Last(path)) : g[other] <= g[e]

(* Told by the first place where two sequences differ. *)
Earlier(s, t) == \E i \in DOMAIN s : s[i] < t[i] /\ \A j \in DOMAIN s : s[j] # t[j] => i <= j

(* The conditional counts of the top n-grams are honest: an n-gram is      *)
(* never counted more often than its prefix.  What the cut removed is less *)
(* frequent than what it kept, or as frequent and later in the order of    *)
(* the template ids, and the cut is full unless the table ran out.         *)
TopNgramsAreTheTop ==
  LET top == TopNgrams(ngrams, Templates)
      kept == {n.sequence : n \in top}
  IN  /\ \A n \in top : n.count <= n.out_of
      /\ Cardinality(top) = (IF Cardinality(DOMAIN ngrams) <= TopNgramsSize
                             THEN Cardinality(DOMAIN ngrams) ELSE TopNgramsSize)
      /\ \A g, h \in DOMAIN ngrams :
           LET s == Rendered(g, Templates)
               t == Rendered(h, Templates)
           IN  (s \in kept /\ t \notin kept) =>
                 ngrams[h] < ngrams[g] \/ (ngrams[h] = ngrams[g] /\ Earlier(s, t))

=============================================================================
