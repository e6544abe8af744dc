----------------------------- MODULE CubeLadder -----------------------------
(***************************************************************************)
(* Cubes held by a consumer: built of windows, read from the wire, which   *)
(* carries no base, composed in any order, and any two of them compared.   *)
(* The lines behind a cube are kept beside it; no action reads them.       *)
(***************************************************************************)
EXTENDS Cube

CONSTANTS
  Windows,  \* the windows considered, bags of base cells
  Shifts,   \* the latency shifts considered
  MaxBuilt  \* bounds the windows built, for TLC

(* A line pins its level and its role, its component if it has one, and no *)
(* shift.                                                                  *)
IsRow(cell) ==
  /\ cell \in [Dims -> Nat]
  /\ Star \notin {cell[Level], cell[Role]} /\ cell[LatencyShift] = Star

IsBase(bag) == IsABag(bag) /\ IsFiniteSet(DOMAIN bag) /\ \A c \in DOMAIN bag : IsRow(c)

ASSUME CubeLadderAssumption ==
  /\ \A rows \in Windows : IsBase(rows)
  /\ \A shifts \in Shifts :
       DOMAIN shifts \subseteq Nat \ {Star} /\ shifts \in [DOMAIN shifts -> Nat \ {Star}]
  /\ MaxBuilt \in Nat

Lines == UNION {DOMAIN rows : rows \in Windows}

(* The cells that some of the lines decide, and could thus close. *)
Decidable(state) ==
  LET image == {CollapseCell(r, state) : r \in Lines}
  IN  {Meet(part) : part \in (SUBSET image) \ {{}}}

(* Levels and roles are few: without their components, any lines fit.      *)
ASSUME BudgetAssumption ==
  \A floor \in {0, 2, 3, 4} :
    LET cells == Decidable([floor |-> floor, depth |-> 0])
    IN  IsFiniteSet(cells) /\ Cardinality(cells) <= CellBudget

VARIABLES
  built,  \* how many windows were built
  held    \* the cubes held, with the lines behind them

vars == <<built, held>>

Init ==
  /\ built = 0
  /\ held = {}

Build(rows) ==
  /\ built < MaxBuilt
  /\ built' = built + 1
  /\ held' = held \cup {[rows |-> rows, cube |-> BuildClosedCube(rows)]}

Wire(h) ==
  /\ h.cube.base # NoBase
  /\ held' = (held \ {h}) \cup {[h EXCEPT !.cube = [@ EXCEPT !.base = NoBase]]}
  /\ UNCHANGED built

Merge(g, h) ==
  /\ g # h
  /\ held' = (held \ {g, h})
               \cup {[rows |-> g.rows (+) h.rows, cube |-> ComposeCubes(g.cube, h.cube)]}
  /\ UNCHANGED built

Next ==
  \/ \E rows \in Windows : Build(rows)
  \/ \E h \in held : Wire(h)
  \/ \E g, h \in held : Merge(g, h)

Spec == Init /\ [][Next]_vars

-----------------------------------------------------------------------------
(* Properties *)

(* The lines on a cell, read at a state of collapse. *)
TrueCount(rows, state, cell) ==
  SumOver(rows, {r \in DOMAIN rows : IsAncestor(cell, CollapseCell(r, state))})

CellsOf(rows, state) == DOMAIN Populate(CollapsedBase(rows, state))

(* Whatever was composed and whatever was read from the wire, a reader of  *)
(* the closed cells counts in every cell the lines that fell on it, at the *)
(* collapse the axes declare, and each failure level stays apart from all  *)
(* others.                                                                 *)
CountsAreExact ==
  \A h \in held :
    /\ \A cell \in CellsOf(h.rows, h.cube.state) :
         CountInClosed(h.cube.cells, cell) = TrueCount(h.rows, h.cube.state, cell)
    /\ \A level \in {r[Level] : r \in DOMAIN h.rows} : level >= Error =>
         LET cell == [Meet(DOMAIN h.rows) EXCEPT ![Level] = level, ![Where] = Star, ![Role] = Star]
         IN  CountInClosed(h.cube.cells, cell) = TrueCount(h.rows, Full, cell)

(* The base recovered from the closed cells is the base they closed, and   *)
(* the axes' cardinalities are those of the lines, so that a cube from the *)
(* wire composes and compares as the one it was written from.              *)
WireIsLossless ==
  \A h \in held :
    LET base == CollapsedBase(h.rows, h.cube.state) IN
    /\ BaseOf(h.cube) = base
    /\ RecoverBase(h.cube.cells) = base
    /\ \A dim \in {Level, Where, Role} :
         CubeCardinality(h.cube).per_axis[dim] = Cardinality({c[dim] : c \in DOMAIN base} \ {Star})

(* Every cube meets the budget, a composed one and one of the wire         *)
(* included: the loop never stops short of a step that would save.         *)
BudgetIsMet == \A h \in held : CubeCardinality(h.cube).cells <= CellBudget

(* The lines on a cell of a base. *)
Below(base, cell) == {c \in DOMAIN base : IsAncestor(cell, c)}

On(base, cell) == SumOver(base, Below(base, cell))

(* The cells with lines on one side alone. *)
Apart(from, to) == {cell \in DOMAIN Populate(to) : On(from, cell) = 0}

Between(border, cells) ==
  {cell \in cells : /\ \E u \in DOMAIN border.upper : IsAncestor(u, cell)
                    /\ \E l \in DOMAIN border.lower : IsAncestor(cell, l)}

Tells(border, previous, current) ==
  \A side \in {border.upper, border.lower} : \A cell \in DOMAIN side :
    side[cell] = [previous |-> On(previous, cell), current |-> On(current, cell)]

Encloses(diff, before, after) ==
  LET cells == DOMAIN Populate(before) \cup DOMAIN Populate(after) IN
  /\ Between(diff.emerging, cells) = Apart(before, after)
  /\ Between(diff.vanishing, cells) = Apart(after, before)
  /\ \A border \in {diff.emerging, diff.vanishing} : Tells(border, before, after)

(* A cell lies between the two borders of a diff exactly when its lines    *)
(* are all on one side, a shifted component counting as new at its shift   *)
(* alone; and the border states the two counts as they are.                *)
BorderIsTheEmergentSet ==
  \A g, h \in held, shifts \in Shifts :
    LET diff == CubeDiffOf(g.cube, h.cube, shifts)
    IN  Encloses(diff, CollapsedBase(g.rows, diff.state),
                 Shifted(CollapsedBase(h.rows, diff.state), shifts))

(* Two cubes of the same lines show no difference, whatever bracketing,    *)
(* collapse or wire lies between them.                                     *)
NothingEmergesOfTheSame ==
  \A h \in held :
    LET diffs == {CubeDiffOf(BuildClosedCube(h.rows), h.cube, << >>),
                  CubeDiffOf(h.cube, BuildClosedCube(h.rows), << >>)}
    IN  \A diff \in diffs : \A border \in {diff.emerging, diff.vanishing} :
          border.upper = << >> /\ border.lower = << >>

=============================================================================
