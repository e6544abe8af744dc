-------------------------- MODULE FieldHistograms --------------------------
(***************************************************************************)
(* The field histograms of two documents merged.  A histogram is the       *)
(* number of observations of its slot, the values its table kept and the   *)
(* estimate of their cardinality; a template's histograms are a function   *)
(* on the slots it has.  Values are numbers, ordered as their bytes are.   *)
(***************************************************************************)
EXTENDS Naturals, FiniteSets, FiniteSetsExt, Functions, Bags

CONSTANT DefaultHistogramValues  \* kDefaultMaxHistogramValues

Absent == << >>

MinDeclaredCap(lhs, rhs) ==
  IF lhs = Absent THEN rhs
  ELSE IF rhs = Absent THEN lhs
  ELSE <<Min({lhs[1], rhs[1]})>>

(* The n best of ids: score descending, then id. *)
Best(ids, score, n) ==
  {t \in ids : Cardinality({u \in ids : score[u] > score[t]
                                        \/ (score[u] = score[t] /\ u < t)}) < n}

(* A merged table under the cap the merged document declares. *)
ReadmitSlot(slot, cap) ==
  [slot EXCEPT !.values = Restrict(@, Best(DOMAIN @, @, cap))]

(* No registers are on the wire: the greater estimate stands for both. *)
MergedSlot(lhs, rhs) ==
  [total |-> lhs.total + rhs.total,
   values |-> lhs.values (+) rhs.values,
   cardinality |-> Max({lhs.cardinality, rhs.cardinality})]

(* Slots that the composed document does not admit are dropped. *)
MergeFieldHistograms(lhs, rhs, slot_cap, value_cap) ==
  [i \in {i \in DOMAIN lhs \cup DOMAIN rhs : slot_cap = Absent \/ i <= slot_cap[1]} |->
     ReadmitSlot(IF i \notin DOMAIN rhs THEN lhs[i]
                 ELSE IF i \notin DOMAIN lhs THEN rhs[i]
                 ELSE MergedSlot(lhs[i], rhs[i]), value_cap)]

(* The caps a composed document declares: the value cap always. *)
ComposedHistogramCaps(lhs, rhs) ==
  LET values == MinDeclaredCap(lhs.value_counts_size, rhs.value_counts_size)
  IN  [param_histograms_size |->
         MinDeclaredCap(lhs.param_histograms_size, rhs.param_histograms_size),
       value_counts_size |-> IF values = Absent THEN <<DefaultHistogramValues>> ELSE values]

HistogramsIn(doc, t) == IF t \in DOMAIN doc.top_k THEN doc.top_k[t].histograms ELSE << >>

(* The histograms of a template of the composed top_k. *)
ComposedHistograms(lhs, rhs, t) ==
  LET caps == ComposedHistogramCaps(lhs, rhs)
  IN  MergeFieldHistograms(HistogramsIn(lhs, t), HistogramsIn(rhs, t),
                           caps.param_histograms_size, caps.value_counts_size[1])

=============================================================================
