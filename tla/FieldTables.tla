---------------------------- MODULE FieldTables ----------------------------
(***************************************************************************)
(* What the engine accumulates of the fields of a template while a window  *)
(* is open: for each parameter slot a capped table of values and a sketch  *)
(* of their cardinality, and for each ordinal field the counts of its      *)
(* octaves.  Only the sketch's registers decide its estimate; the number   *)
(* of those that are set stands for it.                                    *)
(***************************************************************************)
EXTENDS Integers, Sequences, FiniteSets, FiniteSetsExt, SequencesExt, Functions, Bags

CONSTANTS
  WellFormed,        \* the key a raw value is tabled under, a function on the values
  RegisterUpdate,    \* the register a raw value selects and the rank it offers
  Registers,         \* the registers of a sketch
  SparseMaxEntries,  \* kSparseMaxEntries
  Bins               \* the bins of a schedule, a function on the schedules

ASSUME FieldTablesAssumption ==
  /\ WellFormed \in [DOMAIN RegisterUpdate -> Nat]
  /\ \A value \in DOMAIN RegisterUpdate :
       RegisterUpdate[value].index \in Registers /\ RegisterUpdate[value].rank \in Nat \ {0}
  /\ SparseMaxEntries \in Nat
  /\ \A schedule \in DOMAIN Bins : Bins[schedule] \in Nat

-----------------------------------------------------------------------------
(* The sketch: a sparse store of the registers that are set, or all of them *)

EmptySketch == [dense |-> FALSE, store |-> << >>]

Register(store, index) == IF index \in DOMAIN store THEN store[index] ELSE 0

RegistersOf(sketch) == [index \in Registers |-> Register(sketch.store, index)]

(* The register selected keeps the greater rank. *)
Offered(store, update) ==
  [index \in DOMAIN store \cup {update.index} |->
     IF index = update.index THEN Max({Register(store, index), update.rank}) ELSE store[index]]

(* A sparse store that is full and has not the register selected. *)
Overflows(sketch, update) ==
  /\ ~sketch.dense /\ update.index \notin DOMAIN sketch.store
  /\ Cardinality(DOMAIN sketch.store) = SparseMaxEntries

(* Fault: the value that overflows the store is lost in the promotion. *)
AddOrPromote(sketch, value) ==
  LET update == RegisterUpdate[value]
  IN  IF Overflows(sketch, update) THEN [dense |-> TRUE, store |-> RegistersOf(sketch)]
      ELSE [dense |-> sketch.dense, store |-> Offered(sketch.store, update)]

AddToSketch(sketch, value) ==
  LET update == RegisterUpdate[value]
  IN  IF Overflows(sketch, update)
        THEN [dense |-> TRUE, store |-> Offered(RegistersOf(sketch), update)]
      ELSE [dense |-> sketch.dense, store |-> Offered(sketch.store, update)]

Estimate(sketch) ==
  IF sketch.dense THEN Cardinality({index \in Registers : sketch.store[index] > 0})
  ELSE Cardinality(DOMAIN sketch.store)

-----------------------------------------------------------------------------
(* Parameter slots; a cap of zero slots builds none *)

EmptySlot == [total |-> 0, values |-> << >>, sketch |-> EmptySketch]

(* Fault: a value the full table refuses is not counted. *)
CountAdmittedOnly(slot, value, cap) ==
  LET key == WellFormed[value]
      admitted == key \in DOMAIN slot.values \/ Cardinality(DOMAIN slot.values) < cap
  IN  [total |-> IF admitted THEN slot.total + 1 ELSE slot.total,
       values |-> IF admitted THEN slot.values (+) SetToBag({key}) ELSE slot.values,
       sketch |-> AddToSketch(slot.sketch, value)]

(* The total counts what the full table refuses; the sketch sees the raw   *)
(* value whether it was admitted or not.                                   *)
ObserveValue(slot, value, cap) ==
  LET key == WellFormed[value]
      admitted == key \in DOMAIN slot.values \/ Cardinality(DOMAIN slot.values) < cap
  IN  [total |-> slot.total + 1,
       values |-> IF admitted THEN slot.values (+) SetToBag({key}) ELSE slot.values,
       sketch |-> AddToSketch(slot.sketch, value)]

(* The slots grow to the widest event seen, up to the cap. *)
ObserveParams(slots, params, caps) ==
  LET n == Min({caps.slots, Len(params)})
      grown == slots \o [i \in 1..(n - Len(slots)) |-> EmptySlot]
  IN  [i \in DOMAIN grown |->
         IF i <= n THEN ObserveValue(grown[i], params[i], caps.values) ELSE grown[i]]

-----------------------------------------------------------------------------
(* Ordinal fields *)

(* The octave of a value: 0 and 1 share the first, the last is open. *)
OrdinalBinIndex(schedule, value) ==
  IF Bins[schedule] = 0 \/ value <= 1 THEN 0
  ELSE Max({octave \in 0..(Bins[schedule] - 1) : 2 ^ octave <= value})

NoOctaves(schedule) ==
  [schedule |-> schedule, counts |-> [bin \in 0..(Bins[schedule] - 1) |-> 0], total |-> 0]

(* A field keeps the schedule it was first seen with. *)
ObserveOrdinal(ordinals, observation) ==
  LET field == observation.field
      bin == OrdinalBinIndex(observation.schedule, observation.value)
      found == IF field \in DOMAIN ordinals THEN ordinals[field] ELSE NoOctaves(observation.schedule)
      counted == [schedule |-> found.schedule, counts |-> [found.counts EXCEPT ![bin] = @ + 1],
                  total |-> found.total + 1]
  IN  [f \in DOMAIN ordinals \cup {field} |->
         IF f # field THEN ordinals[f] ELSE IF bin \in DOMAIN found.counts THEN counted ELSE found]

ObserveOrdinals(ordinals, observations, caps) ==
  IF caps.slots = 0 THEN ordinals ELSE FoldLeft(ObserveOrdinal, ordinals, observations)

-----------------------------------------------------------------------------
(* The rows a template of top_k carries *)

FieldHistogramsOf(slots) ==
  [i \in DOMAIN slots |->
     [total |-> slots[i].total, values |-> slots[i].values,
      cardinality |-> Estimate(slots[i].sketch)]]

=============================================================================
