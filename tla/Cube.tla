-------------------------------- MODULE Cube --------------------------------
(***************************************************************************)
(* The cube of a window: how many lines fell on every combination of       *)
(* level, component and structural role, stored as its closed cells and    *)
(* collapsed to a cell budget; cubes composed, and two cubes compared by   *)
(* the border of what emerged and of what vanished.                        *)
(*                                                                         *)
(* A cell gives each dimension a value or Star.  A base is a bag of cells  *)
(* that pin level and role.  Components are numbers: the per-block         *)
(* dictionaries that intern them, and remap them when two blocks meet, are *)
(* injective and leave no trace here.                                      *)
(***************************************************************************)
EXTENDS Naturals, Sequences, FiniteSets, FiniteSetsExt, SequencesExt, Functions, Bags

CONSTANT CellBudget  \* kCubeCellBudget

ASSUME CubeAssumption == CellBudget \in Nat

Error == 4
Star == 99  \* kStar, above every value of a dimension
NoBase == << >>

Level == 1
Where == 2
Role == 3
LatencyShift == 4
Dims == 1..4

-----------------------------------------------------------------------------
(* Cells *)

Pinned(cell) == {dim \in Dims : cell[dim] # Star}

Generalize(cell, mask) == [dim \in Dims |-> IF dim \in mask THEN cell[dim] ELSE Star]

(* The meet of a set of cells: what they agree on. *)
Meet(cells) ==
  [dim \in Dims |->
     IF \A c, d \in cells : c[dim] = d[dim] THEN (CHOOSE c \in cells : TRUE)[dim] ELSE Star]

IsAncestor(general, cell) == \A dim \in Pinned(general) : general[dim] = cell[dim]

SumOver(bag, cells) == MapThenSumSet(LAMBDA c : bag[c], cells)

(* Every generalization of a base cell, with its count and its closure. *)
Populate(base) ==
  LET below(cell) == {c \in DOMAIN base : IsAncestor(cell, c)}
  IN  [cell \in UNION {{Generalize(c, mask) : mask \in SUBSET Dims} : c \in DOMAIN base} |->
         [count |-> SumOver(base, below(cell)), closure |-> Meet(below(cell))]]

CountIn(populated, cell) == IF cell \in DOMAIN populated THEN populated[cell].count ELSE 0

(* The closed cells: those no further dimension of which is decided. *)
Closed(base) ==
  LET populated == Populate(base)
  IN  [cell \in {c \in DOMAIN populated : populated[c].closure = c} |-> populated[cell].count]

(* What a reader of the closed cells counts in any cell. *)
CountInClosed(closed, cell) ==
  Max({closed[c] : c \in {d \in DOMAIN closed : IsAncestor(cell, d)}} \cup {0})

-----------------------------------------------------------------------------
(* The base of a cube *)

FullyPinned(closed) == {c \in DOMAIN closed : Cardinality(Pinned(c)) = 3}

LevelRole(cell) == Generalize(cell, {Level, Role})

Aggregates(closed) ==
  {LevelRole(c) : c \in {d \in DOMAIN closed : {Level, Role} \subseteq Pinned(d)}}

(* Fault: the components' lines are counted again without a component. *)
RecoverWholeAggregates(closed) ==
  [c \in FullyPinned(closed) \cup Aggregates(closed) |-> CountInClosed(closed, c)]

(* The fully pinned closed cells, and for each level and role what they    *)
(* leave of its aggregate: the lines without a component.                  *)
RecoverBase(closed) ==
  LET total(a) == CountInClosed(closed, a)
      pinned_sum(a) == SumOver(closed, {c \in FullyPinned(closed) : IsAncestor(a, c)})
      residual == {a \in Aggregates(closed) : total(a) > pinned_sum(a)}
  IN  [c \in FullyPinned(closed) \cup residual |->
         IF c \in residual THEN total(c) - pinned_sum(c) ELSE closed[c]]

(* A cube read from the wire has lost its base. *)
BaseOf(cube) == IF cube.base # NoBase THEN cube.base ELSE RecoverBase(cube.cells)

-----------------------------------------------------------------------------
(* Collapse: levels below the floor are one band, the component is dropped *)
(* at depth 0                                                              *)

Full == [floor |-> 0, depth |-> 1]

CollapseCell(cell, state) ==
  [cell EXCEPT ![Level] = IF @ < state.floor THEN state.floor - 1 ELSE @,
               ![Where] = IF state.depth < 1 THEN Star ELSE @]

CollapsedBase(base, state) ==
  LET image == {CollapseCell(c, state) : c \in DOMAIN base}
  IN  [cell \in image |-> SumOver(base, {c \in DOMAIN base : CollapseCell(c, state) = cell})]

(* Fault: a band may take in the failures. *)
FloorAboveFailures == Error + 1

(* No band crosses the frontier of the failures. *)
MaxLevelBandFloor == Error

(* Fault: the component is never dropped. *)
BandsOnly(state) ==
  IF state.floor < MaxLevelBandFloor
    THEN << [state EXCEPT !.floor = IF @ = 0 THEN 2 ELSE @ + 1] >> ELSE << >>

(* The level step before the component step, which breaks the ties. *)
NextCollapseSteps(state) ==
  (IF state.floor < MaxLevelBandFloor
     THEN << [state EXCEPT !.floor = IF @ = 0 THEN 2 ELSE @ + 1] >> ELSE << >>)
  \o (IF state.depth > 0 THEN << [state EXCEPT !.depth = @ - 1] >> ELSE << >>)

CollapseStepCost(source, target) == IF target.floor # source.floor THEN target.floor ELSE 100

CellsAt(base, state) == Cardinality(DOMAIN Closed(CollapsedBase(base, state)))

(* The next steps, by their place, that save cells. *)
Saving(base, cells, state) ==
  LET steps == NextCollapseSteps(state)
  IN  {i \in DOMAIN steps : CellsAt(base, steps[i]) < cells}

(* The most cells saved for its cost, the earlier step on a tie. *)
PickCollapseStep(base, cells, state) ==
  LET steps == NextCollapseSteps(state)
      saving == Saving(base, cells, state)
      Saved(i) == cells - CellsAt(base, steps[i])
      Cost(i) == CollapseStepCost(state, steps[i])
  IN  steps[CHOOSE i \in saving : \A j \in saving :
              \/ Saved(j) * Cost(i) < Saved(i) * Cost(j)
              \/ Saved(j) * Cost(i) = Saved(i) * Cost(j) /\ i <= j]

(* One turn of the loop, or the same state when it ends: the budget met or *)
(* no step that saves.                                                     *)
CollapseTurn(base, state) ==
  LET cells == CellsAt(base, state)
  IN  IF cells <= CellBudget \/ Saving(base, cells, state) = {} THEN state
      ELSE PickCollapseStep(base, cells, state)

(* Four steps collapse everything there is to collapse. *)
CollapsedTo(base, initial) ==
  FoldLeft(LAMBDA state, turn : CollapseTurn(base, state), initial, [turn \in 1..4 |-> turn])

(* The axes of the block declare the state. *)
BuildBoundedCube(base, initial) ==
  LET state == CollapsedTo(base, initial)
      collapsed == CollapsedBase(base, state)
  IN  [cells |-> Closed(collapsed), base |-> collapsed, state |-> state]

BuildClosedCube(rows) == BuildBoundedCube(rows, Full)

(* The values of each axis, told from the closed cells alone. *)
CubeCardinality(cube) ==
  [cells |-> Cardinality(DOMAIN cube.cells),
   per_axis |-> [dim \in {Level, Where, Role} |->
                   Cardinality({c[dim] : c \in DOMAIN cube.cells} \ {Star})]]

-----------------------------------------------------------------------------
(* Two cubes *)

(* The coarser state on each axis. *)
MinCommonCollapse(lhs, rhs) ==
  [floor |-> Max({lhs.floor, rhs.floor}), depth |-> Min({lhs.depth, rhs.depth})]

ComposeCubes(lhs, rhs) ==
  BuildBoundedCube(BaseOf(lhs) (+) BaseOf(rhs), MinCommonCollapse(lhs.state, rhs.state))

(* Fault: emergence is a matter of degree. *)
EmergentByDegree(anti, mono) ==
  {cell \in DOMAIN mono : CountIn(anti, cell) < CountIn(mono, cell)}

(* Populated cells of mono that anti does not have: kThetaWas, kThetaNow. *)
Emergent(anti, mono) == {cell \in DOMAIN mono : CountIn(anti, cell) <= 0 /\ CountIn(mono, cell) >= 1}

Parents(cell) == {Generalize(cell, Pinned(cell) \ {dim}) : dim \in Pinned(cell)}

(* The emergent cells without an emergent parent, and those without a child. *)
BorderOf(anti, mono, previous, current) ==
  LET emergent == Emergent(anti, mono)
      upper == {c \in emergent : Parents(c) \cap emergent = {}}
      lower == emergent \ UNION {Parents(c) : c \in emergent}
      counts == [c \in upper \cup lower |->
                   [previous |-> CountIn(previous, c), current |-> CountIn(current, c)]]
  IN  [upper |-> Restrict(counts, upper), lower |-> Restrict(counts, lower)]

(* shifts gives some components of the current window the signed band their *)
(* latency moved by.                                                        *)
Shifted(base, shifts) ==
  LET Mark(c) == IF c[Where] \in DOMAIN shifts THEN [c EXCEPT ![LatencyShift] = shifts[c[Where]]]
                 ELSE c
  IN  [cell \in {Mark(c) : c \in DOMAIN base} |-> base[[cell EXCEPT ![LatencyShift] = Star]]]

(* Fault: each cube is read at its own depth. *)
DiffAtOwnDepth(previous, current, shifts) ==
  LET prev == Populate(BaseOf(previous))
      cur == Populate(Shifted(BaseOf(current), shifts))
  IN  [state |-> MinCommonCollapse(previous.state, current.state),
       emerging |-> BorderOf(prev, cur, prev, cur),
       vanishing |-> BorderOf(cur, prev, prev, cur)]

CubeDiffOf(previous, current, shifts) ==
  LET common == MinCommonCollapse(previous.state, current.state)
      prev == Populate(CollapsedBase(BaseOf(previous), common))
      cur == Populate(Shifted(CollapsedBase(BaseOf(current), common), shifts))
  IN  [state |-> common,
       emerging |-> BorderOf(prev, cur, prev, cur),
       vanishing |-> BorderOf(cur, prev, prev, cur)]

=============================================================================
