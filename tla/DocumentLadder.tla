--------------------------- MODULE DocumentLadder ---------------------------
(***************************************************************************)
(* Documents rolled up a ladder: a producer closes windows, a consumer     *)
(* composes any two of the documents it holds, in any order and any        *)
(* bracketing, and may diff any two.  What the windows really contained is *)
(* kept beside the documents; no action reads it.                          *)
(***************************************************************************)
EXTENDS Diff

CONSTANTS
  Windows,      \* the windows considered, records of what close_window reads
  Placements,   \* where a window may lie in time
  MaxDocuments  \* bounds the windows closed, for TLC

(* A bucket as the engine keeps it: a template that was seen has a level   *)
(* and a role.                                                             *)
IsBucket(bucket) ==
  /\ bucket.count \in Nat \ {0} /\ bucket.first_seen \in Nat /\ bucket.echoed \in BOOLEAN
  /\ \A bag \in {bucket.levels, bucket.roles, bucket.components} :
       IsABag(bag) /\ IsFiniteSet(DOMAIN bag)
  /\ DOMAIN bucket.levels \in (SUBSET (0..Unknown)) \ {{}}
  /\ DOMAIN bucket.roles \in (SUBSET (DOMAIN RoleRank \cup {NoRole})) \ {{}}
  /\ DOMAIN bucket.components \subseteq Nat \ {Cubes!Star}

(* A slot took at most one value of each line, and its table kept no more. *)
IsSlotOf(slot, lines) ==
  /\ slot = [values |-> slot.values, cardinality |-> slot.cardinality, total |-> slot.total]
  /\ IsABag(slot.values) /\ IsFiniteSet(DOMAIN slot.values)
  /\ slot.total \in Nat /\ slot.total <= lines
  /\ SumFunction(slot.values) <= slot.total

(* The counts of the bins of an ordinal field. *)
AreOrdinals(ordinals) ==
  /\ IsFiniteSet(DOMAIN ordinals)
  /\ \A f \in DOMAIN ordinals :
       /\ ordinals[f].total \in Nat
       /\ IsFiniteSet(DOMAIN ordinals[f].counts)
       /\ \A bin \in DOMAIN ordinals[f].counts : ordinals[f].counts[bin] \in Nat

IsBehavior(block) ==
  /\ block.dropped \in Nat
  /\ \A s \in DOMAIN block.top_ngrams :
       /\ block.top_ngrams[s].count \in Nat \ {0}
       /\ block.top_ngrams[s].probability \in Nat \X (Nat \ {0})

(* The cells of the lines; a line of a component is on a cell of it. *)
IsJointOf(joint, buckets) ==
  /\ \A c \in joint :
       /\ c \in [Cubes!Dims -> Nat]
       /\ c[Cubes!Level] \in 0..Unknown
       /\ c[Cubes!Role] # Cubes!Star /\ c[Cubes!LatencyShift] = Cubes!Star
  /\ \A t \in DOMAIN buckets : \A label \in DOMAIN buckets[t].components :
       \E c \in joint : c[Cubes!Where] = label

IsWindow(w) ==
  /\ IsFiniteSet(DOMAIN w.buckets) /\ DOMAIN w.buckets \subseteq Nat
  /\ \A t \in DOMAIN w.buckets : IsBucket(w.buckets[t]) /\ w.surprise[t] \in Nat
  /\ DOMAIN w.fields \subseteq DOMAIN w.buckets
  /\ \A t \in DOMAIN w.fields :
       /\ AreOrdinals(w.fields[t].ordinals)
       /\ \A i \in DOMAIN w.fields[t].histograms :
            IsSlotOf(w.fields[t].histograms[i], w.buckets[t].count)
  /\ w.behavior = Absent \/ (w.behavior = <<w.behavior[1]>> /\ IsBehavior(w.behavior[1]))
  /\ IsJointOf(w.joint, w.buckets)

CollapseStates == [floor : 0..Cubes!MaxLevelBandFloor, depth : {0, 1}]

Rows == UNION {w.joint : w \in Windows}

ASSUME LadderAssumption ==
  /\ \A w \in Windows : IsWindow(w)
  /\ Placements \subseteq {"next", "same", "unstamped"}
  /\ MaxDocuments \in Nat

(* A collapse ends in a state of collapse. *)
ASSUME BudgetedAssumption ==
  \A rows \in SUBSET Rows, state \in CollapseStates : Budgeted(rows, state) \in CollapseStates

VARIABLES
  closed,  \* the windows closed, with their envelopes
  pool     \* the documents held: their leaves in closed, and whether the
           \* ladder was folded along time up to them

vars == <<closed, pool>>

LinesOf(w) == CountOf(w.buckets, DOMAIN w.buckets)

(* Silence is no observation: an event-free window stamps nothing. *)
BaseChurn(w) ==
  IF LinesOf(w) = 0 THEN Absent
  ELSE <<[span_windows |-> 1, templates_with_churn |-> 0, total_transitions |-> 0,
          total_indeterminate |-> 0]>>

FieldsOf(w, t) ==
  IF t \in DOMAIN w.fields THEN w.fields[t] ELSE [histograms |-> << >>, ordinals |-> << >>]

TopRow(w, t, row) ==
  [count |-> row.count, level |-> <<row.level>>, component |-> row.component,
   churn |-> RetainedWindow, histograms |-> FieldsOf(w, t).histograms,
   ordinals |-> FieldsOf(w, t).ordinals]

ReservoirRow(entry) ==
  [count |-> entry.row.count, level |-> <<entry.row.level>>, component |-> entry.row.component,
   churn |-> RetainedWindow, role |-> entry.role, where |-> entry.row.component,
   surprise |-> entry.surprise, novelty |-> entry.novelty, salience |-> entry.verdict.score,
   axis |-> entry.verdict.axis]

DocumentOf(w, envelope, leaf, stats) ==
  [kind |-> "document", lines |-> LinesOf(w), envelope |-> envelope,
   source |-> [fields |-> w.source, host_count |-> <<1>>],
   contract |-> w.contract, packages |-> w.packages, max_text_bytes |-> w.max_text_bytes,
   transport |-> w.transport,
   unique_templates |-> stats.unique_templates, top_k_size |-> stats.top_k_size,
   reservoir_size |-> stats.reservoir_size,
   top_k |-> [t \in DOMAIN stats.top_k |-> TopRow(w, t, stats.top_k[t])],
   param_histograms_size |-> w.param_histograms_size,
   value_counts_size |-> w.value_counts_size,
   reservoir |-> [t \in {e.id : e \in Range(stats.reservoir)} |->
                    ReservoirRow(CHOOSE e \in Range(stats.reservoir) : e.id = t)],
   tail_count |-> stats.tail_count, tail_unique |-> stats.tail_unique,
   tail_summary |-> stats.tail_summary, entropy |-> stats.entropy,
   presence_churn |-> BaseChurn(w),
   provenance |-> << >>, coordinate |-> SetToBag({leaf}),
   behavior |-> w.behavior, service_edges |-> w.service_edges, span_edges |-> w.span_edges,
   cube |-> <<BoundedCube(w.joint, Cubes!Full)>>]

(* The document close_window builds of w. *)
BaseDocument(w, envelope, leaf) ==
  DocumentOf(w, envelope, leaf, StatsBlock(w.buckets, LinesOf(w), w.surprise))

-----------------------------------------------------------------------------
(* Closing windows and rolling documents up *)

Stamped == {i \in DOMAIN closed : closed[i].envelope # Absent}

Latest == closed[Max(Stamped)].envelope[1]

Envelope(placement) ==
  IF placement = "unstamped" THEN Absent
  ELSE IF Stamped = {} THEN <<[start |-> 0, end |-> 1]>>
  ELSE IF placement = "same" THEN <<Latest>>
  ELSE <<[start |-> Latest.end, end |-> Latest.end + 1]>>

Init ==
  /\ closed = << >>
  /\ pool = {}

Close(w, placement) ==
  /\ Len(closed) < MaxDocuments
  /\ closed' = Append(closed, [window |-> w, envelope |-> Envelope(placement)])
  /\ pool' = pool \cup {[leaves |-> {Len(closed) + 1}, timely |-> TRUE,
                         doc |-> BaseDocument(w, Envelope(placement), Len(closed) + 1)]}

(* Two stamped rungs that lie apart in time, or are shards of one base     *)
(* window, or of which one observed nothing.                               *)
InTime(a, b) ==
  /\ Absent \notin {a.doc.envelope, b.doc.envelope}
  /\ \/ Precedes(a.doc.envelope, b.doc.envelope)
     \/ Precedes(b.doc.envelope, a.doc.envelope)
     \/ /\ a.doc.envelope = b.doc.envelope
        /\ \E i \in a.leaves : closed[i].envelope = a.doc.envelope
     \/ 0 \in {ChurnSpan(a.doc), ChurnSpan(b.doc)}

Roll(a, b) ==
  LET doc == compose(a.doc, b.doc)
  IN  /\ a # b
      /\ doc # Refusal
      /\ pool' = (pool \ {a, b})
                   \cup {[leaves |-> a.leaves \cup b.leaves, doc |-> doc,
                          timely |-> a.timely /\ b.timely /\ InTime(a, b)]}
      /\ UNCHANGED closed

Next ==
  \/ \E w \in Windows, placement \in Placements : Close(w, placement)
  \/ \E a, b \in pool : Roll(a, b)

Spec == Init /\ [][Next]_vars

-----------------------------------------------------------------------------
(* What the windows contained *)

TrueCount(leaves, t) ==
  SumFunction([i \in leaves |-> IF t \in DOMAIN closed[i].window.buckets
                                THEN closed[i].window.buckets[t].count ELSE 0])

TrueTemplates(leaves) == UNION {DOMAIN closed[i].window.buckets : i \in leaves}

TrueLines(leaves) == SumFunction([i \in leaves |-> LinesOf(closed[i].window)])

(* Windows of one interval start together; one that is not stamped lies    *)
(* nowhere.                                                                *)
Instant(list, i) == IF list[i].envelope = Absent THEN 0 ELSE list[i].envelope[1].start

(* The intervals in which something was observed, by their instants. *)
Instants(list, leaves) == {Instant(list, i) : i \in {j \in leaves : LinesOf(list[j].window) > 0}}

(* Those in which the template was. *)
Presence(list, leaves, t) ==
  {Instant(list, i) : i \in {j \in leaves : t \in DOMAIN list[j].window.buckets}}

(* The instants after which presence changed by the next one. *)
Changes(seen, present) ==
  {x \in seen : \E y \in seen :
     /\ x < y /\ \A z \in seen : z <= x \/ y <= z
     /\ x \in present <=> y \notin present}

Earliest(seen) == {x \in seen : \A y \in seen : x <= y}

Newest(seen) == {x \in seen : \A y \in seen : y <= x}

-----------------------------------------------------------------------------
(* Properties *)

(* Every line of every leaf is in top_k, in the reservoir or in the tail of *)
(* a document exactly once, whatever was composed into it and in whatever   *)
(* bracketing; no retained count exceeds what was observed, and the unique  *)
(* templates claimed are no more than there were.  A document with an empty *)
(* tail therefore retains every template it covers, with its exact count.   *)
EveryLineIsAccounted ==
  \A e \in pool :
    LET doc == e.doc IN
    /\ DOMAIN doc.top_k \cap DOMAIN doc.reservoir = {}
    /\ doc.lines = TrueLines(e.leaves)
    /\ doc.lines = doc.tail_count + SumFunction([t \in Retained(doc) |-> Row(doc, t).count])
    /\ \A t \in Retained(doc) : Row(doc, t).count <= TrueCount(e.leaves, t)
    /\ \A t \in DOMAIN doc.top_k : \A i \in DOMAIN doc.top_k[t].histograms :
         LET slot == doc.top_k[t].histograms[i]
         IN  SumFunction(slot.values) <= slot.total /\ slot.total <= doc.top_k[t].count
    /\ doc.unique_templates = Cardinality(Retained(doc)) + doc.tail_unique
    /\ doc.unique_templates <= Cardinality(TrueTemplates(e.leaves))

(* What the end of an element tells of the instant it is about. *)
Tells(symbol, end, present) ==
  symbol = "Unretained" \/ \A x \in end : symbol = (IF x \in present THEN "Present" ELSE "Absent")

Bounds(churn, seen, present) ==
  /\ churn.span = Cardinality(seen)
  /\ churn.transitions <= Cardinality(Changes(seen, present))
  /\ Cardinality(Changes(seen, present)) <= churn.transitions + churn.indeterminate
  /\ Tells(churn.first, Earliest(seen), present)
  /\ Tells(churn.last, Newest(seen), present)

(* Over windows rolled up along time, by shards or by time, in any order   *)
(* of the arguments, the churn of a retained template counts no transition *)
(* that did not happen and misses none beyond those it declares            *)
(* indeterminate; its ends are right where they are readable.              *)
ChurnBoundsTheTruth ==
  \A e \in {f \in pool : f.timely} :
    LET seen == Instants(closed, e.leaves) IN
    /\ ChurnSpan(e.doc) = Cardinality(seen)
    /\ \A t \in Retained(e.doc) :
         Bounds(Row(e.doc, t).churn, seen, Presence(closed, e.leaves, t))

(* compose(A, B) and compose(B, A) are the same document, or the same      *)
(* refusal, whatever the two disagree on.                                  *)
ComposeCommutes ==
  \A a, b \in pool : compose(a.doc, b.doc) = compose(b.doc, a.doc)

Swap(row) == [previous |-> row.current, current |-> row.previous]

SwapAll(rows) == [x \in DOMAIN rows |-> Swap(rows[x])]

SwapAny(row) == IF row = Absent THEN Absent ELSE <<Swap(row[1])>>

Turned(direction) == IF direction = "Up" THEN "Down" ELSE "Up"

MirroredNgrams(delta) ==
  [new |-> delta.vanished, vanished |-> delta.new, rate_changed |-> delta.rate_changed]

MirroredEdges(delta) ==
  [emerged |-> delta.vanished, vanished |-> delta.emerged,
   weight_changed |-> SwapAll(delta.weight_changed)]

MirroredReservoir(delta) ==
  [new_salient |-> delta.vanished_salient, vanished_salient |-> delta.new_salient,
   frontier_crossings |->
     [t \in DOMAIN delta.frontier_crossings |->
        [direction |-> Turned(delta.frontier_crossings[t].direction),
         previous |-> delta.frontier_crossings[t].current,
         current |-> delta.frontier_crossings[t].previous]]]

MirroredShifts(shifts) ==
  [c \in DOMAIN shifts |-> [shift |-> shifts[c].shift, direction |-> Turned(shifts[c].direction)]]

(* What emerged without a shift vanishes the other way, where no component *)
(* of it shifted; a shift is marked on the current side alone.             *)
EmergedIsVanished(there, back) ==
  {c \in there.emerging : c[Cubes!LatencyShift] = Cubes!Star}
    = {c \in back.vanishing : c[Cubes!Where] \notin DOMAIN there.shifts}

CubesMirrored(there, back) ==
  IF Absent \in {there, back} THEN there = back
  ELSE /\ there[1].state = back[1].state
       /\ back[1].shifts = MirroredShifts(there[1].shifts)
       /\ EmergedIsVanished(there[1], back[1]) /\ EmergedIsVanished(back[1], there[1])

(* All of d but its cubes, next to the other way's. *)
Mirrored(d, cube_diff) ==
  [kind |-> d.kind, max_text_bytes |-> d.max_text_bytes,
   previous_window |-> d.current_window, current_window |-> d.previous_window,
   diverges |-> d.diverges,
   template_deltas |-> SwapAll(d.template_deltas),
   new_templates |-> d.vanished_templates, vanished_templates |-> d.new_templates,
   branching_delta |-> SwapAll(d.branching_delta),
   ngram_delta |-> IF d.ngram_delta = Absent THEN Absent
                   ELSE <<MirroredNgrams(d.ngram_delta[1])>>,
   ngram_order_mismatch |-> SwapAny(d.ngram_order_mismatch),
   field_histogram_deltas |-> SwapAll(d.field_histogram_deltas),
   ordinal_histogram_deltas |-> SwapAll(d.ordinal_histogram_deltas),
   tail_delta |-> SwapAny(d.tail_delta),
   reservoir_delta |-> MirroredReservoir(d.reservoir_delta),
   service_edge_delta |-> IF d.service_edge_delta = Absent THEN Absent
                          ELSE <<MirroredEdges(d.service_edge_delta[1])>>,
   span_edge_delta |-> IF d.span_edge_delta = Absent THEN Absent
                       ELSE <<[new |-> d.span_edge_delta[1].vanished,
                               vanished |-> d.span_edge_delta[1].new]>>,
   cube_diff |-> cube_diff]

Opposite(there, back) ==
  IF there = Refusal THEN back = Refusal
  ELSE /\ back = Mirrored(there, back.cube_diff)
       /\ CubesMirrored(there.cube_diff, back.cube_diff)
       /\ ComparisonOutcome(there) = ComparisonOutcome(back)

(* Read the other way round, a comparison says the opposite and decides    *)
(* the same: nothing is new one way without having vanished the other, but *)
(* the cells of a component at its latency shift, which emerge both ways.  *)
DiffReverses == \A a, b \in pool : Opposite(diff(a.doc, b.doc), diff(b.doc, a.doc))

(* The same combinations of level and role, and the same of level,         *)
(* component and role, as far as both cubes tell them apart; and no        *)
(* component that they tell apart shifted.                                 *)
SameCells(a, b, delta) ==
  LET Of(cube) == CellsAt(cube, delta.state)
      Located(cells) == {c \in cells : c[Cubes!Where] # Cubes!Star}
      Pairs(cells) == {<<c[Cubes!Level], c[Cubes!Role]>> : c \in cells}
  IN  /\ Pairs(Of(a)) = Pairs(Of(b))
      /\ Located(Of(a)) = Located(Of(b))
      /\ delta.state.depth > 0 => delta.shifts = << >>

SaysTheTruth(a, b, d) ==
  /\ a = b => ComparisonOutcome(d) = "unchanged"
  /\ d # Refusal /\ ComparisonOutcome(d) = "unchanged" =>
       /\ \A t \in DOMAIN a.top_k \cup DOMAIN b.top_k : CountIn(a, t) = CountIn(b, t)
       /\ DOMAIN a.top_k # {} => a.lines = b.lines
       /\ DOMAIN a.reservoir \subseteq Retained(b)
       /\ DOMAIN b.reservoir \subseteq Retained(a)
       /\ \A row \in DOMAIN d.field_histogram_deltas :
            LET delta == d.field_histogram_deltas[row]
            IN  delta.previous.total = delta.current.total => delta.previous = delta.current
       /\ \A t \in Retained(a) \cap Retained(b) :
            LevelIsFailure(Row(a, t).level) = LevelIsFailure(Row(b, t).level)
       /\ d.cube_diff # Absent => SameCells(a.cube[1], b.cube[1], d.cube_diff[1])

(* Unchanged is a positive result: the same top_k counts over as many      *)
(* lines, no salient template on one side only, none across the failure    *)
(* frontier, the slots of as many observations alike, the lines on the     *)
(* same cells and no latency shifted; and nothing changed since itself.    *)
UnchangedMeansSame == \A a, b \in pool : SaysTheTruth(a.doc, b.doc, diff(a.doc, b.doc))

(* A document of an event-free window: it carries nothing and declares no  *)
(* reservoir cap.                                                          *)
Zero(e) ==
  BaseDocument([closed[CHOOSE i \in e.leaves : TRUE].window EXCEPT
                  !.buckets = << >>, !.joint = {}, !.surprise = << >>,
                  !.behavior = Absent],
               e.doc.envelope, 0)

Keeps(doc, composed) == Retained(composed) = Retained(doc) /\ composed.tail_count = 0

(* Composing with such a document keeps what a document without a tail     *)
(* retains, as test_compose_algebra.cpp:194 asserts and metalog.md:76      *)
(* calls a MUST of the specification.                                      *)
ZeroIsIdentity ==
  \A e \in pool : RetentionIsExhaustive(e.doc) => Keeps(e.doc, compose(e.doc, Zero(e)))

=============================================================================
