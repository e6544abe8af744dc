---------------------------- MODULE FieldLadder ----------------------------
(***************************************************************************)
(* The field tables of a window filled event by event, closed into the     *)
(* rows of a document, and the documents merged and compared in any order. *)
(* Each window is of a producer with its own caps.  top_k holds every      *)
(* template.  The events behind a document are kept beside it; no action   *)
(* reads them.                                                             *)
(***************************************************************************)
EXTENDS FieldTables, FieldHistograms, OrdinalDrift

CONSTANTS
  Events,     \* the events considered: template, params and ordinals
  Caps,       \* the caps of the producers: slots, 0 for none, and values
  Component,  \* the component of each template, << >> or <<label>>
  MaxEvents,  \* bounds the events ingested, for TLC
  MaxWindows  \* bounds the windows closed, for TLC

Event ==
  [template : DOMAIN Component, params : Seq(DOMAIN WellFormed),
   ordinals : Seq([field : STRING, schedule : DOMAIN Bins, value : Nat])]

ASSUME FieldLadderAssumption ==
  /\ Events \subseteq Event
  /\ Caps \subseteq [slots : Nat, values : Nat]
  /\ {DefaultHistogramValues, MaxEvents, MaxWindows, ShiftSampleFloor} \subseteq Nat
  /\ DurationSchedule \in DOMAIN Bins

(* A template declares the schedule of each of its ordinal fields once. *)
ASSUME ScheduleAssumption ==
  \A d, e \in Events : d.template = e.template =>
    \A i \in DOMAIN d.ordinals, j \in DOMAIN e.ordinals :
      d.ordinals[i].field = e.ordinals[j].field => d.ordinals[i].schedule = e.ordinals[j].schedule

VARIABLES
  caps,    \* of the producer of each window, in their order
  tables,  \* template -> its slots and ordinals
  seen,    \* the bag of events of the open window
  steps,   \* how many events were ingested, and which window is open
  pool     \* the documents held, with the bag of events they tabled

fieldVars == <<caps, tables, seen, steps, pool>>

FieldInit ==
  /\ caps \in [1..MaxWindows -> Caps]
  /\ tables = << >> /\ seen = << >> /\ pool = {}
  /\ steps = [events |-> 0, window |-> 1]

Open == caps[steps.window]

EmptyTables == [slots |-> << >>, ordinals |-> << >>]

Ingest(e) ==
  LET found == IF e.template \in DOMAIN tables THEN tables[e.template] ELSE EmptyTables
  IN  /\ steps.events < MaxEvents /\ steps.window <= MaxWindows
      /\ tables' = [t \in DOMAIN tables \cup {e.template} |->
                      IF t # e.template THEN tables[t]
                      ELSE [slots |-> ObserveParams(found.slots, e.params, Open),
                            ordinals |-> ObserveOrdinals(found.ordinals, e.ordinals, Open)]]
      /\ seen' = seen (+) SetToBag({e})
      /\ steps' = [steps EXCEPT !.events = @ + 1]
      /\ UNCHANGED <<caps, pool>>

Declared(cap) == IF Open.slots = 0 THEN Absent ELSE <<cap>>

RowsOf ==
  [param_histograms_size |-> Declared(Open.slots), value_counts_size |-> Declared(Open.values),
   top_k |-> [t \in DOMAIN tables |->
                [component |-> Component[t], histograms |-> FieldHistogramsOf(tables[t].slots),
                 ordinals |-> tables[t].ordinals]]]

Close ==
  /\ steps.window <= MaxWindows
  /\ pool' = pool \cup {[doc |-> RowsOf, leaves |-> {steps.window},
                         tabled |-> IF Open.slots = 0 THEN << >> ELSE seen]}
  /\ tables' = << >> /\ seen' = << >>
  /\ steps' = [steps EXCEPT !.window = @ + 1]
  /\ UNCHANGED caps

Composed(lhs, rhs) ==
  LET declared == ComposedHistogramCaps(lhs, rhs)
  IN  [param_histograms_size |-> declared.param_histograms_size,
       value_counts_size |-> declared.value_counts_size,
       top_k |-> [t \in DOMAIN lhs.top_k \cup DOMAIN rhs.top_k |->
                    [component |-> Component[t], histograms |-> ComposedHistograms(lhs, rhs, t),
                     ordinals |-> << >>]]]

MergeRows(a, b) ==
  /\ a # b
  /\ pool' = (pool \ {a, b}) \cup {[doc |-> Composed(a.doc, b.doc),
                                    leaves |-> a.leaves \cup b.leaves,
                                    tabled |-> a.tabled (+) b.tabled]}
  /\ UNCHANGED <<caps, tables, seen, steps>>

FieldNext ==
  \/ \E e \in Events : Ingest(e)
  \/ Close
  \/ \E a, b \in pool : MergeRows(a, b)

FieldSpec == FieldInit /\ [][FieldNext]_fieldVars

-----------------------------------------------------------------------------
(* Properties *)

(* No action on the documents depends on the open window: they are looked  *)
(* at while it has no event.                                               *)
BetweenWindows == seen = << >>

(* The events of a bag that fill a slot of a template, how often they put  *)
(* a value tabled under one of the keys in it, and the raw values.         *)
Filling(events, t, i) == {e \in DOMAIN events : e.template = t /\ i <= Len(e.params)}

Times(events, t, i, keys) ==
  SumFunctionOnSet(events, {e \in Filling(events, t, i) : WellFormed[e.params[i]] \in keys})

Values(events, t, i) == {e.params[i] : e \in Filling(events, t, i)}

Kept(table, key) == IF key \in DOMAIN table THEN table[key] ELSE 0

(* The total counts every value, no key counts more than it occurred, the  *)
(* table is within its cap and has lost nothing below it, and the          *)
(* cardinality is of no more values than were seen.                        *)
Honest(slot, events, t, i, cap) ==
  /\ slot.total = Times(events, t, i, Range(WellFormed))
  /\ \A key \in DOMAIN slot.values : slot.values[key] <= Times(events, t, i, {key})
  /\ Cardinality(DOMAIN slot.values) <= cap
  /\ Cardinality(DOMAIN slot.values) < cap =>
       \A key \in Range(WellFormed) : Kept(slot.values, key) = Times(events, t, i, {key})
  /\ slot.cardinality \in 1..Cardinality(Values(events, t, i))

(* A table that a reader finds in a document, however often that was       *)
(* merged, is honest about what was observed, under the caps the document  *)
(* declares, and no slot within them is missing.                           *)
TablesAreHonest ==
  BetweenWindows => \A p \in pool : \A t \in DOMAIN p.doc.top_k :
    LET slots == p.doc.top_k[t].histograms
    IN  /\ \A i \in DOMAIN slots :
             Honest(slots[i], p.tabled, t, i, p.doc.value_counts_size[1])
        /\ p.doc.param_histograms_size # Absent =>
             /\ DOMAIN slots \subseteq 1..p.doc.param_histograms_size[1]
             /\ \A i \in 1..p.doc.param_histograms_size[1] :
                  Values(p.tabled, t, i) # {} => i \in DOMAIN slots

(* A sketch holds for every register the highest rank that a value of its  *)
(* slot offered, those of the values the table refused included, in        *)
(* whatever order they came and in whichever store; a sparse store is      *)
(* never above its bound.                                                  *)
SketchDenotesMaxima ==
  \A t \in DOMAIN tables : \A i \in DOMAIN tables[t].slots :
    LET sketch == tables[t].slots[i].sketch
        Offers(index) ==
          {RegisterUpdate[v].rank :
             v \in {u \in Values(seen, t, i) : RegisterUpdate[u].index = index}}
    IN  /\ \A index \in Registers : RegistersOf(sketch)[index] = Max({0} \cup Offers(index))
        /\ Estimate(sketch) = Cardinality({index \in Registers : Offers(index) # {}})
        /\ ~sketch.dense => Cardinality(DOMAIN sketch.store) <= SparseMaxEntries

(* The durations of a component in a bag of events: how many are in each   *)
(* octave.                                                                 *)
Timings(e, c, bin) ==
  {k \in DOMAIN e.ordinals :
     /\ Component[e.template] = <<c>> /\ e.ordinals[k].schedule = DurationSchedule
     /\ OrdinalBinIndex(DurationSchedule, e.ordinals[k].value) = bin}

InOctave(events, c, bin) ==
  SumFunction([e \in DOMAIN events |-> events[e] * Cardinality(Timings(e, c, bin))])

Durations(events, c) == [bin \in 0..(Bins[DurationSchedule] - 1) |-> InOctave(events, c, bin)]

(* The octave of the k-th duration, each of them repeated by times. *)
Quantile(counts, by, k) ==
  Min({bin \in DOMAIN counts : by * SumFunctionOnSet(counts, 0..bin) >= k})

(* How far two windows' durations are apart, and how far their mean moved, *)
(* both over as many pairs as there are of one from each.                  *)
Distance(prev, cur) ==
  LET prevs == SumFunction(prev)
      curs == SumFunction(cur)
  IN  SumFunction([k \in 1..(prevs * curs) |->
                     Magnitude(Quantile(prev, curs, k) - Quantile(cur, prevs, k))])

Octaves(counts) == SumFunction([bin \in DOMAIN counts |-> bin * counts[bin]])

Moved(prev, cur) == Octaves(cur) * SumFunction(prev) - Octaves(prev) * SumFunction(cur)

(* A component is reported as shifted exactly when both windows observed   *)
(* enough of its durations and, paired quantile by quantile, these lie at  *)
(* least half an octave apart on average; the band is that distance's, and *)
(* the direction is the one in which the mean octave moved.                *)
DriftIsTransport ==
  BetweenWindows => \A p, q \in {r \in pool : Cardinality(r.leaves) = 1} :
    \A c \in Components(p.doc) \cup Components(q.doc) :
      LET prev == Durations(p.tabled, c)
          cur == Durations(q.tabled, c)
          pairs == SumFunction(prev) * SumFunction(cur)
          apart == Distance(prev, cur)
          moved == Moved(prev, cur)
          shifts == ComponentLatencyShifts(p.doc, q.doc)
      IN  /\ c \in DOMAIN shifts <=>
               /\ SumFunction(prev) >= ShiftSampleFloor /\ SumFunction(cur) >= ShiftSampleFloor
               /\ pairs > 0 /\ 2 * apart >= pairs /\ moved # 0
          /\ c \in DOMAIN shifts =>
               shifts[c] = [shift |-> IF apart >= 5 * pairs THEN "High"
                                      ELSE IF apart >= 2 * pairs THEN "Med" ELSE "Low",
                            direction |-> IF moved > 0 THEN "Up" ELSE "Down"]

=============================================================================
