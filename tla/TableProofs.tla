---------------------------- MODULE TableProofs ----------------------------
(***************************************************************************)
(* What the tables a document carries say of the lines behind them: its    *)
(* cube, and the field tables of its templates.                            *)
(*                                                                         *)
(* Cubes, whatever was composed and whatever was read from the wire:       *)
(* counts are exact, the base is recovered from the closed cells, a diff's *)
(* borders enclose what emerged, and equal lines show no difference.  A    *)
(* cube is determined by its lines and its state of collapse: that is the  *)
(* invariant, and collapsing further, composing and the wire keep it.      *)
(* First what the closed cells of any bag of cells say of the bag, then    *)
(* what collapse makes of the bag, then the cubes held.                    *)
(*                                                                         *)
(* Field tables: the sketch and the values of each slot of the open window *)
(* are those of the events it took, and the histograms of a document are   *)
(* those of the events it tabled, however often it was merged: merging two *)
(* tables of values keeps both counts and what their caps promise.         *)
(*                                                                         *)
(* Drift: the ordinal rows of a window count every duration of its events, *)
(* those of a component add up to its durations, and the distance of two   *)
(* histograms by their cumulative shares is the mean distance of their     *)
(* quantiles: the pairs of a quantile and an octave it has yet to pass are *)
(* counted both ways.                                                      *)
(***************************************************************************)
EXTENDS DataLemmas, CubeLadder, FieldLadder

-----------------------------------------------------------------------------
(* Cells *)

Cells == [Dims -> Nat]

LEMMA DimsAre ==
  /\ Dims = {1, 2, 3, 4} /\ Level \in Dims /\ Where \in Dims /\ Role \in Dims
  /\ LatencyShift \in Dims /\ IsFiniteSet(Dims)
<1>1. Dims = {1, 2, 3, 4}
  BY SMT DEF Dims
<1>2. IsFiniteSet(1..4)
  <2>1. 1..4 \in SUBSET (1..4) /\ 4 \in Nat
    OBVIOUS
  <2> QED BY <2>1, PartOfUpTo
<1> QED BY <1>1, <1>2 DEF Dims, Level, Where, Role, LatencyShift

LEMMA Generalized ==
  ASSUME NEW c \in Cells, NEW mask
  PROVE  Generalize(c, mask) \in Cells /\ IsAncestor(Generalize(c, mask), c)
<1>1. Star \in Nat
  BY DEF Star
<1>2. Generalize(c, mask) \in Cells
  BY <1>1 DEF Generalize, Cells
<1>3. IsAncestor(Generalize(c, mask), c)
  BY DEF Generalize, IsAncestor, Pinned
<1> QED BY <1>2, <1>3

(* An ancestor is a generalization, by what it pins.                       *)
LEMMA AncestorIsGeneralized ==
  ASSUME NEW c \in Cells, NEW general \in Cells, IsAncestor(general, c)
  PROVE  general = Generalize(c, Pinned(general)) /\ Pinned(general) \in SUBSET Dims
<1>1. \A dim \in Dims : general[dim] = Generalize(c, Pinned(general))[dim]
  BY DEF IsAncestor, Generalize, Pinned
<1>2. DOMAIN general = Dims /\ DOMAIN Generalize(c, Pinned(general)) = Dims
  BY DEF Cells, Generalize
<1>3. Generalize(c, Pinned(general)) \in Cells
  BY Generalized
<1>4. general = Generalize(c, Pinned(general))
  BY <1>1, <1>3 DEF Cells
<1> QED BY <1>4 DEF Pinned

LEMMA SumIs == \A bag, cells : SumOver(bag, cells) = SumFunctionOnSet(bag, cells)
BY Zenon DEF SumOver, MapThenSumSet, MapThenFoldSet, SumFunctionOnSet, FoldFunctionOnSet

LEMMA AncestorIsTransitive ==
  ASSUME NEW a, NEW b, NEW c, IsAncestor(a, b), IsAncestor(b, c)
  PROVE  IsAncestor(a, c)
BY DEF IsAncestor, Pinned

LEMMA AncestorIsReflexive == ASSUME NEW c PROVE IsAncestor(c, c)
BY DEF IsAncestor

(* The meet is the nearest common ancestor.                                *)
LEMMA MeetIsCommon ==
  ASSUME NEW S \in SUBSET Cells, S # {}
  PROVE  /\ Meet(S) \in Cells
         /\ \A c \in S : IsAncestor(Meet(S), c)
         /\ \A general : (\A c \in S : IsAncestor(general, c)) => IsAncestor(general, Meet(S))
<1> DEFINE any == CHOOSE c \in S : TRUE
<1>1. any \in S
  OBVIOUS
<1>2. Meet(S) = [dim \in Dims |-> IF \A c, d \in S : c[dim] = d[dim] THEN any[dim] ELSE Star]
  BY DEF Meet
<1> HIDE DEF any
<1>3. Meet(S) \in Cells
  BY <1>1, <1>2 DEF Cells, Star
<1>4. ASSUME NEW c \in S PROVE IsAncestor(Meet(S), c)
  <2> SUFFICES ASSUME NEW dim \in Dims, Meet(S)[dim] # Star PROVE Meet(S)[dim] = c[dim]
    BY DEF IsAncestor, Pinned
  <2> QED BY <1>1, <1>2
<1>5. ASSUME NEW general, \A c \in S : IsAncestor(general, c)
      PROVE  IsAncestor(general, Meet(S))
  <2> SUFFICES ASSUME NEW dim \in Dims, general[dim] # Star PROVE general[dim] = Meet(S)[dim]
    BY DEF IsAncestor, Pinned
  <2>1. \A c \in S : general[dim] = c[dim]
    BY <1>5 DEF IsAncestor, Pinned
  <2> QED BY <1>1, <1>2, <2>1
<1> QED BY <1>3, <1>4, <1>5

-----------------------------------------------------------------------------
(* A bag of cells, populated and closed *)

IsCells(bag) == IsFiniteBag(bag) /\ DOMAIN bag \subseteq Cells

LEMMA CountOfPart ==
  ASSUME NEW bag, IsCells(bag), NEW S \in SUBSET DOMAIN bag, NEW T \in SUBSET S
  PROVE  /\ SumOver(bag, S) \in Nat /\ SumOver(bag, T) \in Nat
         /\ SumOver(bag, T) <= SumOver(bag, S)
<1>1. IsFiniteSet(S) /\ IsFiniteSet(T) /\ NatOn(bag, S) /\ NatOn(bag, T)
  BY FS_Subset DEF IsCells, IsFiniteBag, NatOn
<1>2. SumFunctionOnSet(bag, S) \in Nat /\ SumFunctionOnSet(bag, T) \in Nat
  BY <1>1, SumIsNat DEF NatOn
<1>3. SumFunctionOnSet(bag, T) <= SumFunctionOnSet(bag, S)
  BY <1>1, SumOfPart
<1> QED BY <1>2, <1>3, SumIs

LEMMA CountIsOfSome ==
  ASSUME NEW bag, IsCells(bag), NEW S \in SUBSET DOMAIN bag
  PROVE  /\ SumOver(bag, S) \in Nat
         /\ SumOver(bag, S) = 0 <=> S = {}
<1>1. SumOver(bag, S) \in Nat
  BY CountOfPart
<1>2. SumOver(bag, {}) = 0
  BY SumEmpty, SumIs
<1>3. ASSUME NEW c \in S PROVE SumOver(bag, S) # 0
  <2>1. {c} \in SUBSET S /\ IsFiniteSet({}) /\ bag[c] \in Nat \ {0} /\ NatOn(bag, {} \cup {c})
    BY FS_EmptySet DEF IsCells, IsFiniteBag, NatOn
  <2>2. SumFunctionOnSet(bag, {} \cup {c}) = bag[c] + SumFunctionOnSet(bag, {})
    BY <2>1, SumAdd
  <2>3. SumFunctionOnSet(bag, {c}) = bag[c]
    BY <2>1, <2>2, SumEmpty
  <2>4. SumOver(bag, {c}) <= SumOver(bag, S)
    BY <2>1, CountOfPart
  <2> QED BY <1>1, <2>1, <2>3, <2>4, SumIs
<1> QED BY <1>1, <1>2, <1>3

LEMMA PopulatedCells ==
  ASSUME NEW bag, IsCells(bag)
  PROVE  /\ DOMAIN Populate(bag) = {cell \in Cells : Below(bag, cell) # {}}
         /\ \A cell \in DOMAIN Populate(bag) :
              /\ Populate(bag)[cell].count = On(bag, cell)
              /\ Populate(bag)[cell].closure = Meet(Below(bag, cell))
         /\ IsFiniteSet(DOMAIN Populate(bag))
<1> DEFINE Of(c) == {Generalize(c, mask) : mask \in SUBSET Dims}
           D == UNION {Of(c) : c \in DOMAIN bag}
<1>1. /\ DOMAIN Populate(bag) = D
      /\ \A cell \in D : /\ Populate(bag)[cell].count = On(bag, cell)
                         /\ Populate(bag)[cell].closure = Meet(Below(bag, cell))
  BY DEF Populate, On, Below
<1>2. ASSUME NEW cell \in D PROVE cell \in Cells /\ Below(bag, cell) # {}
  <2>1. PICK c \in DOMAIN bag, mask \in SUBSET Dims : cell = Generalize(c, mask)
    OBVIOUS
  <2>2. cell \in Cells /\ IsAncestor(cell, c)
    BY <2>1, Generalized DEF IsCells
  <2> QED BY <2>2 DEF Below
<1>3. ASSUME NEW cell \in Cells, Below(bag, cell) # {} PROVE cell \in D
  <2>1. PICK c \in DOMAIN bag : IsAncestor(cell, c)
    BY <1>3 DEF Below
  <2>2. cell = Generalize(c, Pinned(cell)) /\ Pinned(cell) \in SUBSET Dims
    BY <2>1, AncestorIsGeneralized DEF IsCells
  <2> QED BY <2>2
<1>4. IsFiniteSet(D)
  <2>1. IsFiniteSet(SUBSET Dims)
    BY DimsAre, FS_SUBSET
  <2>2. ASSUME NEW c PROVE IsFiniteSet(Of(c))
    <3> DEFINE g == [mask \in SUBSET Dims |-> Generalize(c, mask)]
    <3>1. Of(c) = {g[mask] : mask \in SUBSET Dims}
      OBVIOUS
    <3> HIDE DEF g
    <3>2. IsFiniteSet({g[mask] : mask \in SUBSET Dims})
      BY <2>1, ImageCount
    <3> QED BY <3>1, <3>2
  <2> DEFINE h == [c \in DOMAIN bag |-> Of(c)]
             All == {h[c] : c \in DOMAIN bag}
  <2>3. D = UNION All /\ \A s \in All : IsFiniteSet(s)
    BY <2>2
  <2> HIDE DEF h, D
  <2>4. IsFiniteSet(All)
    BY ImageCount DEF IsCells, IsFiniteBag
  <2> HIDE DEF All
  <2> QED BY <2>3, <2>4, FS_UNION
<1> HIDE DEF D
<1>5. D = {cell \in Cells : Below(bag, cell) # {}}
  BY <1>2, <1>3
<1> QED BY <1>1, <1>4, <1>5

LEMMA CountOfACell ==
  ASSUME NEW bag, IsCells(bag), NEW cell \in Cells
  PROVE  CountIn(Populate(bag), cell) = On(bag, cell)
<1>1. CASE cell \in DOMAIN Populate(bag)
  BY <1>1, PopulatedCells DEF CountIn
<1>2. CASE cell \notin DOMAIN Populate(bag)
  <2>1. Below(bag, cell) = {}
    BY <1>2, PopulatedCells
  <2> QED BY <1>2, <2>1, SumEmpty, SumIs DEF CountIn, On
<1> QED BY <1>1, <1>2

LEMMA ClosedCells ==
  ASSUME NEW bag, IsCells(bag)
  PROVE  /\ DOMAIN Closed(bag)
              = {cell \in Cells : Below(bag, cell) # {} /\ Meet(Below(bag, cell)) = cell}
         /\ \A cell \in DOMAIN Closed(bag) : Closed(bag)[cell] = On(bag, cell)
         /\ IsFiniteSet(DOMAIN Closed(bag))
<1>1. /\ DOMAIN Closed(bag) = {c \in DOMAIN Populate(bag) : Populate(bag)[c].closure = c}
      /\ \A cell \in DOMAIN Closed(bag) : Closed(bag)[cell] = Populate(bag)[cell].count
  BY DEF Closed
<1>2. IsFiniteSet(DOMAIN Closed(bag))
  BY <1>1, PopulatedCells, FS_Subset
<1> QED BY <1>1, <1>2, PopulatedCells

(* Every populated cell closes to one with the same lines below.           *)
LEMMA ClosureOfACell ==
  ASSUME NEW bag, IsCells(bag), NEW cell \in Cells, Below(bag, cell) # {}
  PROVE  LET closure == Meet(Below(bag, cell)) IN
         /\ Below(bag, closure) = Below(bag, cell)
         /\ closure \in DOMAIN Closed(bag)
         /\ Closed(bag)[closure] = On(bag, cell)
         /\ IsAncestor(cell, closure)
<1> DEFINE S == Below(bag, cell)
           closure == Meet(S)
<1>1. S \in SUBSET Cells /\ S # {}
  BY DEF Below, IsCells
<1>2. /\ closure \in Cells /\ \A c \in S : IsAncestor(closure, c)
      /\ (\A c \in S : IsAncestor(cell, c)) => IsAncestor(cell, closure)
  <2> HIDE DEF S
  <2> QED BY <1>1, MeetIsCommon
<1>3. IsAncestor(cell, closure)
  BY <1>2 DEF Below
<1>4. Below(bag, closure) = S
  BY <1>2, <1>3, AncestorIsTransitive DEF Below
<1> HIDE DEF closure
<1>5. closure \in DOMAIN Closed(bag)
  BY <1>1, <1>2, <1>4, ClosedCells DEF closure
<1> QED BY <1>3, <1>4, <1>5, ClosedCells DEF On, closure

(* A reader of the closed cells finds every count.                         *)
LEMMA CountInClosedIsExact ==
  ASSUME NEW bag, IsCells(bag), NEW cell \in Cells
  PROVE  CountInClosed(Closed(bag), cell) = On(bag, cell)
<1> DEFINE closed == Closed(bag)
           found == {closed[c] : c \in {d \in DOMAIN closed : IsAncestor(cell, d)}} \cup {0}
<1>1. On(bag, cell) \in Nat /\ (On(bag, cell) = 0 <=> Below(bag, cell) = {})
  BY CountIsOfSome DEF On, Below
<1>2. On(bag, cell) \in found
  <2>1. CASE Below(bag, cell) = {}
    BY <1>1, <2>1
  <2>2. CASE Below(bag, cell) # {}
    BY <2>2, ClosureOfACell
  <2> QED BY <2>1, <2>2
<1>3. ASSUME NEW n \in found PROVE n \in Nat /\ n <= On(bag, cell)
  <2>1. CASE n = 0
    BY <1>1, <2>1
  <2>2. CASE n # 0
    <3>1. PICK d \in DOMAIN closed : IsAncestor(cell, d) /\ n = closed[d]
      BY <2>2
    <3>2. n = On(bag, d) /\ d \in Cells
      BY <3>1, ClosedCells
    <3>3. Below(bag, d) \in SUBSET Below(bag, cell)
      BY <3>1, AncestorIsTransitive DEF Below
    <3> QED BY <3>2, <3>3, CountOfPart DEF On, Below
  <2> QED BY <2>1, <2>2
<1> HIDE DEF found
<1>4. Max(found) = On(bag, cell)
  <2>1. \A y \in found : On(bag, cell) >= y
    BY <1>1, <1>3
  <2>2. \A x \in found : (\A y \in found : x >= y) => x = On(bag, cell)
    BY <1>1, <1>2, <1>3
  <2> QED BY <1>2, <2>1, <2>2 DEF Max
<1> QED BY <1>4 DEF CountInClosed, found

-----------------------------------------------------------------------------
(* Collapse *)

States == [floor : {0, 2, 3, 4}, depth : {0, 1}]

Coarser(target, source) == target.floor >= source.floor /\ target.depth <= source.depth

LEMMA BasesAreCells ==
  ASSUME NEW base, IsBase(base)
  PROVE  IsCells(base)
BY DEF IsBase, IsABag, IsCells, IsFiniteBag, IsRow, Cells

LEMMA CollapsedCell ==
  ASSUME NEW c, IsRow(c), NEW s \in States
  PROVE  /\ IsRow(CollapseCell(c, s))
         /\ CollapseCell(c, s)[Level] = IF c[Level] < s.floor THEN s.floor - 1 ELSE c[Level]
         /\ CollapseCell(c, s)[Where] = IF s.depth < 1 THEN Star ELSE c[Where]
         /\ CollapseCell(c, s)[Role] = c[Role]
<1>1. c \in [{1, 2, 3, 4} -> Nat] /\ c[1] # Star /\ c[3] # Star /\ c[4] = Star
  BY DimsAre DEF IsRow, Level, Role, LatencyShift
<1>2. s.floor \in {0, 2, 3, 4} /\ s.depth \in {0, 1}
  BY DEF States
<1> DEFINE d == CollapseCell(c, s)
           level == IF c[1] < s.floor THEN s.floor - 1 ELSE c[1]
           where == IF s.depth < 1 THEN Star ELSE c[2]
<1>3. d = [c EXCEPT ![1] = level, ![2] = where]
  BY DEF CollapseCell, Level, Where
<1>4. level \in Nat /\ level # Star /\ where \in Nat
  BY <1>1, <1>2, SMT DEF Star
<1>5. d \in [{1, 2, 3, 4} -> Nat] /\ d[1] = level /\ d[2] = where /\ d[3] = c[3] /\ d[4] = c[4]
  <2> HIDE DEF level, where, d
  <2> QED BY <1>1, <1>3, <1>4
<1> HIDE DEF d
<1>6. IsRow(d)
  BY <1>1, <1>4, <1>5, DimsAre DEF IsRow, Level, Role, LatencyShift
<1> QED BY <1>5, <1>6 DEF Level, Where, Role, d

(* Rows are alike when they agree on level, component and role.            *)
LEMMA RowsAreAlike ==
  ASSUME NEW c, NEW d, IsRow(c), IsRow(d), c[Level] = d[Level], c[Where] = d[Where],
         c[Role] = d[Role]
  PROVE  c = d
<1>1. /\ c \in [{1, 2, 3, 4} -> Nat] /\ d \in [{1, 2, 3, 4} -> Nat]
      /\ c[1] = d[1] /\ c[2] = d[2] /\ c[3] = d[3] /\ c[4] = d[4]
  BY DimsAre DEF IsRow, Level, Where, Role, LatencyShift
<1>2. \A dim \in {1, 2, 3, 4} : c[dim] = d[dim]
  BY <1>1
<1> QED BY ONLY <1>1, <1>2

LEMMA CollapseTwice ==
  ASSUME NEW c, IsRow(c), NEW s \in States, NEW t \in States, Coarser(t, s)
  PROVE  CollapseCell(CollapseCell(c, s), t) = CollapseCell(c, t)
<1> DEFINE d == CollapseCell(c, s)
           e == CollapseCell(d, t)
           f == CollapseCell(c, t)
<1>1. /\ IsRow(d) /\ d[Role] = c[Role]
      /\ d[Level] = IF c[Level] < s.floor THEN s.floor - 1 ELSE c[Level]
      /\ d[Where] = IF s.depth < 1 THEN Star ELSE c[Where]
  BY CollapsedCell
<1>2. /\ IsRow(f) /\ f[Role] = c[Role]
      /\ f[Level] = IF c[Level] < t.floor THEN t.floor - 1 ELSE c[Level]
      /\ f[Where] = IF t.depth < 1 THEN Star ELSE c[Where]
  BY CollapsedCell
<1> HIDE DEF d, f
<1>3. /\ IsRow(e) /\ e[Role] = d[Role]
      /\ e[Level] = IF d[Level] < t.floor THEN t.floor - 1 ELSE d[Level]
      /\ e[Where] = IF t.depth < 1 THEN Star ELSE d[Where]
  BY <1>1, CollapsedCell
<1> HIDE DEF e
<1>4. /\ s.floor \in {0, 2, 3, 4} /\ s.depth \in {0, 1}
      /\ t.floor \in {0, 2, 3, 4} /\ t.depth \in {0, 1}
      /\ t.floor >= s.floor /\ t.depth <= s.depth
  BY DEF States, Coarser
<1>5. c[Level] \in Nat
  BY DimsAre DEF IsRow
<1>6. e[Level] = f[Level]
  BY <1>1, <1>2, <1>3, <1>4, <1>5, SMT
<1>7. e[Where] = f[Where]
  BY <1>1, <1>2, <1>3, <1>4
<1>8. e = f
  BY <1>1, <1>2, <1>3, <1>6, <1>7, RowsAreAlike
<1> QED BY <1>8 DEF d, e, f

(* A collapsed base is a base, and counts in it are counts of the lines    *)
(* that collapse to what is counted.                                       *)
Fibre(base, s, cell) == {c \in DOMAIN base : CollapseCell(c, s) = cell}

Into(base, s, T) == {c \in DOMAIN base : CollapseCell(c, s) \in T}

IsCollapsed(g, base, s) ==
  /\ IsBase(g)
  /\ DOMAIN g = {CollapseCell(c, s) : c \in DOMAIN base}
  /\ \A cell \in DOMAIN g : g[cell] = SumOver(base, Fibre(base, s, cell))
  /\ \A T \in SUBSET DOMAIN g : SumOver(g, T) = SumOver(base, Into(base, s, T))

LEMMA CollapsedCounts ==
  ASSUME NEW base, IsBase(base), NEW s \in States
  PROVE  IsCollapsed(CollapsedBase(base, s), base, s)
<1> DEFINE D == DOMAIN base
           m == [c \in D |-> CollapseCell(c, s)]
           image == {CollapseCell(c, s) : c \in D}
           Fib(cell) == {c \in D : CollapseCell(c, s) = cell}
           g == CollapsedBase(base, s)
<1>1. IsCells(base) /\ IsFiniteSet(D) /\ NatOn(base, D)
  BY BasesAreCells DEF IsCells, IsFiniteBag, NatOn
<1>2. g = [cell \in image |-> SumOver(base, Fib(cell))]
  BY DEF CollapsedBase
<1>3. image = {m[c] : c \in D}
  OBVIOUS
<1>4. IsFiniteSet(image)
  <2> HIDE DEF m, image
  <2> QED BY <1>1, <1>3, ImageCount
<1>5. \A cell \in image : g[cell] \in Nat \ {0}
  <2> SUFFICES ASSUME NEW cell \in image PROVE g[cell] \in Nat \ {0}
    OBVIOUS
  <2>1. Fib(cell) # {} /\ Fib(cell) \in SUBSET D
    OBVIOUS
  <2>2. g[cell] = SumOver(base, Fib(cell))
    BY <1>2
  <2> HIDE DEF Fib, g
  <2> QED BY <1>1, <2>1, <2>2, CountIsOfSome
<1>6. \A cell \in image : IsRow(cell)
  BY CollapsedCell DEF IsBase
<1>7. IsBase(g) /\ DOMAIN g = image
  <2>1. g \in [image -> Nat \ {0}]
    BY <1>2, <1>5
  <2> HIDE DEF g, image
  <2> QED BY <1>4, <1>6, <2>1 DEF IsBase, IsABag
<1>8. ASSUME NEW T \in SUBSET image
      PROVE  SumOver(g, T) = SumOver(base, {c \in D : CollapseCell(c, s) \in T})
  <2>1. \A y \in T : g[y] = SumFunctionOnSet(base, {c \in D : m[c] = y})
    <3> SUFFICES ASSUME NEW y \in T PROVE g[y] = SumFunctionOnSet(base, {c \in D : m[c] = y})
      OBVIOUS
    <3>1. Fib(y) = {c \in D : m[c] = y}
      OBVIOUS
    <3>2. g[y] = SumOver(base, Fib(y))
      BY <1>2
    <3> QED BY <3>1, <3>2, SumIs
  <2>2. IsFiniteSet(T)
    BY <1>4, FS_Subset
  <2>3. {c \in D : CollapseCell(c, s) \in T} = {c \in D : m[c] \in T}
    OBVIOUS
  <2> HIDE DEF g, m, image, Fib, D
  <2>4. SumFunctionOnSet(g, T) = SumFunctionOnSet(base, {c \in D : m[c] \in T})
    BY <1>1, <2>1, <2>2, SumByImage, SMTT(30)
  <2> QED BY <2>3, <2>4, SumIs
<1>9. \A cell \in DOMAIN g : g[cell] = SumOver(base, Fibre(base, s, cell))
  BY <1>2 DEF Fibre
<1>10. \A T \in SUBSET DOMAIN g : SumOver(g, T) = SumOver(base, Into(base, s, T))
  <2> HIDE DEF g, image
  <2> QED BY <1>7, <1>8 DEF Into
<1>11. DOMAIN g = {CollapseCell(c, s) : c \in DOMAIN base}
  BY <1>7
<1> HIDE DEF g
<1>12. IsCollapsed(g, base, s)
  BY <1>7, <1>9, <1>10, <1>11 DEF IsCollapsed
<1> QED BY <1>12 DEF g

LEMMA SameFunctions ==
  ASSUME NEW f, NEW g, NEW D, f = [x \in D |-> f[x]], g = [x \in D |-> g[x]],
         \A x \in D : f[x] = g[x]
  PROVE  f = g
<1>1. [x \in D |-> f[x]] = [x \in D |-> g[x]]
  OBVIOUS
<1> QED BY ONLY <1>1, f = [x \in D |-> f[x]], g = [x \in D |-> g[x]]

LEMMA BaseIsAFunction ==
  ASSUME NEW base, IsBase(base)
  PROVE  base = [c \in DOMAIN base |-> base[c]]
BY DEF IsBase, IsABag

(* To collapse by way of a finer state is to collapse.                     *)
LEMMA CollapseComposes ==
  ASSUME NEW base, IsBase(base), NEW s \in States, NEW t \in States, Coarser(t, s)
  PROVE  CollapsedBase(CollapsedBase(base, s), t) = CollapsedBase(base, t)
<1> DEFINE mid == CollapsedBase(base, s)
           f == CollapsedBase(mid, t)
           g == CollapsedBase(base, t)
<1>1. IsCollapsed(mid, base, s)
  BY CollapsedCounts
<1> HIDE DEF mid
<1>2. IsCollapsed(f, mid, t)
  BY <1>1, CollapsedCounts DEF IsCollapsed
<1>3. IsCollapsed(g, base, t)
  BY CollapsedCounts
<1> HIDE DEF f, g
<1>4. \A c \in DOMAIN base : CollapseCell(CollapseCell(c, s), t) = CollapseCell(c, t)
  BY CollapseTwice DEF IsBase
<1>5. DOMAIN f = DOMAIN g
  BY <1>1, <1>2, <1>3, <1>4 DEF IsCollapsed
<1>6. ASSUME NEW cell \in DOMAIN f PROVE f[cell] = g[cell]
  <2> DEFINE T == Fibre(mid, t, cell)
  <2>1. Into(base, s, T) = Fibre(base, t, cell)
    BY <1>1, <1>4 DEF IsCollapsed, Into, Fibre
  <2>2. f[cell] = SumOver(mid, T) /\ T \in SUBSET DOMAIN mid
    BY <1>2 DEF IsCollapsed, Fibre
  <2> HIDE DEF T
  <2>3. SumOver(mid, T) = SumOver(base, Into(base, s, T))
    BY <1>1, <2>2 DEF IsCollapsed
  <2> QED BY <1>3, <1>5, <2>1, <2>2, <2>3 DEF IsCollapsed
<1>7. f = g
  BY <1>2, <1>3, <1>5, <1>6, BaseIsAFunction, SameFunctions DEF IsCollapsed
<1> QED BY <1>7 DEF f, g, mid

(* To collapse two bases together is to collapse both.                     *)
LEMMA CollapseOfBoth ==
  ASSUME NEW a, NEW b, IsBase(a), IsBase(b), NEW s \in States
  PROVE  /\ IsBase(a (+) b)
         /\ CollapsedBase(a (+) b, s) = CollapsedBase(a, s) (+) CollapsedBase(b, s)
<1> DEFINE u == a (+) b
           A == CollapsedBase(a, s)
           B == CollapsedBase(b, s)
           U == CollapsedBase(u, s)
<1>1. IsABag(u) /\ DOMAIN u = DOMAIN a \cup DOMAIN b /\ IsUnionSum(u, a, b)
  BY BagsJoin DEF IsBase
<1>2. IsBase(u)
  BY <1>1, FS_Union DEF IsBase
<1>3. /\ IsFiniteSet(DOMAIN a) /\ IsFiniteSet(DOMAIN b)
      /\ NatOn(a, DOMAIN a) /\ NatOn(b, DOMAIN b)
  BY DEF IsBase, IsABag, NatOn
<1> HIDE DEF u
<1>4. IsCollapsed(U, u, s)
  BY <1>2, CollapsedCounts
<1>5. IsCollapsed(A, a, s)
  BY CollapsedCounts
<1>6. IsCollapsed(B, b, s)
  BY CollapsedCounts
<1> HIDE DEF U, A, B
<1>7. /\ IsABag(A (+) B) /\ DOMAIN (A (+) B) = DOMAIN A \cup DOMAIN B
      /\ IsUnionSum(A (+) B, A, B)
  BY <1>5, <1>6, BagsJoin DEF IsBase, IsCollapsed
<1>8. DOMAIN U = DOMAIN A \cup DOMAIN B
  BY <1>1, <1>4, <1>5, <1>6 DEF IsCollapsed
<1>9. \A cell : At(A, cell) = SumOver(a, Fibre(a, s, cell))
  <2> SUFFICES ASSUME NEW cell PROVE At(A, cell) = SumOver(a, Fibre(a, s, cell))
    OBVIOUS
  <2>1. CASE cell \in DOMAIN A
    BY <1>5, <2>1 DEF At, IsCollapsed
  <2>2. CASE cell \notin DOMAIN A
    <3>1. Fibre(a, s, cell) = {}
      BY <1>5, <2>2 DEF IsCollapsed, Fibre
    <3> QED BY <2>2, <3>1, SumEmpty, SumIs DEF At
  <2> QED BY <2>1, <2>2
<1>10. \A cell : At(B, cell) = SumOver(b, Fibre(b, s, cell))
  <2> SUFFICES ASSUME NEW cell PROVE At(B, cell) = SumOver(b, Fibre(b, s, cell))
    OBVIOUS
  <2>1. CASE cell \in DOMAIN B
    BY <1>6, <2>1 DEF At, IsCollapsed
  <2>2. CASE cell \notin DOMAIN B
    <3>1. Fibre(b, s, cell) = {}
      BY <1>6, <2>2 DEF IsCollapsed, Fibre
    <3> QED BY <2>2, <3>1, SumEmpty, SumIs DEF At
  <2> QED BY <2>1, <2>2
<1>11. ASSUME NEW cell \in DOMAIN U PROVE U[cell] = (A (+) B)[cell]
  <2> DEFINE P == Fibre(u, s, cell)
  <2>1. /\ DOMAIN u \cap P = Fibre(u, s, cell) /\ DOMAIN a \cap P = Fibre(a, s, cell)
        /\ DOMAIN b \cap P = Fibre(b, s, cell)
    BY <1>1 DEF Fibre
  <2> HIDE DEF P
  <2>2. SumFunctionOnSet(u, DOMAIN u \cap P)
          = SumFunctionOnSet(a, DOMAIN a \cap P) + SumFunctionOnSet(b, DOMAIN b \cap P)
    BY <1>1, <1>3, SumOfTwoWithin
  <2>3. (A (+) B)[cell] = At(A, cell) + At(B, cell)
    BY <1>7, <1>8 DEF IsUnionSum
  <2> QED BY <1>4, <1>9, <1>10, <2>1, <2>2, <2>3, SumIs DEF IsCollapsed
<1>12. A (+) B = [cell \in DOMAIN (A (+) B) |-> (A (+) B)[cell]]
  BY <1>7 DEF IsABag
<1>13. U = A (+) B
  <2> DEFINE AB == A (+) B
  <2>1. AB = [cell \in DOMAIN U |-> AB[cell]] /\ \A cell \in DOMAIN U : U[cell] = AB[cell]
    BY <1>7, <1>8, <1>11, <1>12
  <2>2. U = [cell \in DOMAIN U |-> U[cell]]
    BY <1>4, BaseIsAFunction DEF IsCollapsed
  <2> HIDE DEF AB
  <2>3. U = AB
    BY <2>1, <2>2, SameFunctions
  <2> QED BY <2>3 DEF AB
<1> QED BY <1>2, <1>13 DEF u, U, A, B

-----------------------------------------------------------------------------
(* The loop that collapses *)

LEMMA CoarserIsTransitive ==
  ASSUME NEW s \in States, NEW t \in States, NEW u \in States, Coarser(t, s), Coarser(u, t)
  PROVE  Coarser(u, s)
BY SMT DEF States, Coarser

LEMMA CoarserIsReflexive == ASSUME NEW s \in States PROVE Coarser(s, s)
BY SMT DEF States, Coarser

LEMMA CellsAreCounted ==
  ASSUME NEW base, IsBase(base), NEW s \in States
  PROVE  CellsAt(base, s) \in Nat
<1>1. IsFiniteSet(DOMAIN Closed(CollapsedBase(base, s)))
  BY CollapsedCounts, BasesAreCells, ClosedCells DEF IsCollapsed
<1> QED BY <1>1, CountIsNat DEF CellsAt

Steps(state) == {t \in States : Coarser(t, state) /\ CollapseStepCost(state, t) \in Nat \ {0}}

LEMMA NextStepsAreSteps ==
  ASSUME NEW state \in States
  PROVE  LET choices == NextCollapseSteps(state) IN
         /\ DOMAIN choices \subseteq {1, 2} /\ \A i \in DOMAIN choices : choices[i] \in Steps(state)
         /\ state.depth = 1 => \E i \in DOMAIN choices : choices[i] = [floor |-> state.floor, depth |-> 0]
<1>1. /\ state = [floor |-> state.floor, depth |-> state.depth]
      /\ state.floor \in {0, 2, 3, 4} /\ state.depth \in {0, 1}
  BY DEF States
<1> DEFINE level == [state EXCEPT !.floor = IF @ = 0 THEN 2 ELSE @ + 1]
           where == [state EXCEPT !.depth = @ - 1]
           l == IF state.floor < MaxLevelBandFloor THEN <<level>> ELSE << >>
           w == IF state.depth > 0 THEN <<where>> ELSE << >>
<1>2. ASSUME state.floor < MaxLevelBandFloor PROVE level \in Steps(state)
  <2>1. level = [floor |-> IF state.floor = 0 THEN 2 ELSE state.floor + 1, depth |-> state.depth]
    BY <1>1
  <2> DEFINE floor == IF state.floor = 0 THEN 2 ELSE state.floor + 1
  <2>2. floor \in {2, 3, 4} /\ floor > state.floor
    BY <1>1, <1>2, SMT DEF MaxLevelBandFloor, Error
  <2> HIDE DEF floor, level
  <2>3. level \in States /\ level.floor = floor /\ level.depth = state.depth
    BY <1>1, <2>1, <2>2 DEF States, floor
  <2> QED BY <1>1, <2>2, <2>3 DEF Steps, Coarser, CollapseStepCost
<1>3. ASSUME state.depth > 0 PROVE where \in Steps(state)
  <2>1. where = [floor |-> state.floor, depth |-> 0]
    BY <1>1, <1>3
  <2> HIDE DEF where
  <2>2. where \in States /\ where.floor = state.floor /\ where.depth = 0
    BY <1>1, <2>1 DEF States
  <2> QED BY <1>1, <2>2 DEF Steps, Coarser, CollapseStepCost
<1> HIDE DEF level, where
<1>4. l \in Seq(Steps(state)) /\ Len(l) \in {0, 1}
  BY <1>2
<1>5. w \in Seq(Steps(state)) /\ Len(w) \in {0, 1}
  BY <1>3
<1>6. NextCollapseSteps(state) = l \o w
  BY DEF NextCollapseSteps, level, where
<1> HIDE DEF l, w
<1>7. l \o w \in Seq(Steps(state)) /\ Len(l \o w) = Len(l) + Len(w)
  BY <1>4, <1>5, ConcatProperties
<1> DEFINE choices == l \o w
<1>8. choices \in Seq(Steps(state)) /\ Len(choices) \in {0, 1, 2}
  <2>1. \A m, n \in {0, 1} : m + n \in {0, 1, 2}
    OBVIOUS
  <2>2. Len(choices) \in {0, 1, 2}
    BY <1>4, <1>5, <1>7, <2>1, Zenon
  <2> QED BY <1>7, <2>2
<1> HIDE DEF choices
<1>9. DOMAIN choices \subseteq {1, 2} /\ \A i \in DOMAIN choices : choices[i] \in Steps(state)
  BY <1>8
<1>10. ASSUME state.depth = 1
       PROVE  \E i \in DOMAIN choices : choices[i] = [floor |-> state.floor, depth |-> 0]
  <2>1. where = [floor |-> state.floor, depth |-> 0]
    BY <1>1, <1>10 DEF where
  <2>2. w = <<where>>
    BY <1>10 DEF w
  <2>3. Len(l) \in Nat /\ Len(w) = 1 /\ w[1] = where
    BY <1>4, <2>2
  <2> DEFINE i == Len(l) + 1
  <2>4. i \in DOMAIN choices /\ choices[i] = where
    <3>1. DOMAIN choices = 1..Len(choices) /\ Len(choices) = Len(l) + Len(w)
      BY <1>7, <1>8 DEF choices
    <3>2. i \in 1..Len(choices)
      BY <2>3, <3>1
    <3>3. (l \o w)[i] = w[1]
      BY <1>4, <1>5, <2>3
    <3> QED BY <2>3, <3>1, <3>2, <3>3 DEF choices
  <2> QED BY <2>1, <2>4
<1> QED BY <1>6, <1>9, <1>10 DEF choices

(* A turn of the loop coarsens the state and saves cells, or leaves it.    *)
Ends(base, state) ==
  \/ CellsAt(base, state) <= CellBudget
  \/ Saving(base, CellsAt(base, state), state) = {}

LEMMA TurnCoarsens ==
  ASSUME NEW base, IsBase(base), NEW state \in States
  PROVE  /\ CollapseTurn(base, state) \in States /\ Coarser(CollapseTurn(base, state), state)
         /\ Ends(base, state) => CollapseTurn(base, state) = state
         /\ ~Ends(base, state) => CellsAt(base, CollapseTurn(base, state)) < CellsAt(base, state)
<1> DEFINE cells == CellsAt(base, state)
           choices == NextCollapseSteps(state)
           saving == Saving(base, cells, state)
           Saved(i) == cells - CellsAt(base, choices[i])
           Cost(i) == CollapseStepCost(state, choices[i])
           Better(i, j) == \/ Saved(j) * Cost(i) < Saved(i) * Cost(j)
                           \/ Saved(j) * Cost(i) = Saved(i) * Cost(j) /\ i <= j
<1>1. DOMAIN choices \subseteq {1, 2} /\ \A i \in DOMAIN choices : choices[i] \in Steps(state)
  BY NextStepsAreSteps
<1>2. CASE cells <= CellBudget \/ saving = {}
  BY <1>2, CoarserIsReflexive DEF CollapseTurn, Ends
<1>3. CASE ~(cells <= CellBudget \/ saving = {})
  <2>1. CollapseTurn(base, state) = choices[CHOOSE i \in saving : \A j \in saving : Better(i, j)]
    <3>1. CollapseTurn(base, state) = PickCollapseStep(base, cells, state)
      BY <1>3 DEF CollapseTurn
    <3> HIDE DEF cells
    <3>2. PickCollapseStep(base, cells, state)
            = choices[CHOOSE i \in saving : \A j \in saving : Better(i, j)]
      BY Zenon DEF PickCollapseStep
    <3> QED BY <3>1, <3>2
  <2>2. /\ saving \subseteq DOMAIN choices
        /\ \A i \in saving : CellsAt(base, choices[i]) < CellsAt(base, state)
        /\ ~Ends(base, state)
    BY <1>3 DEF Saving, Ends
  <2>3. \A i \in saving : Saved(i) \in Int /\ Cost(i) \in Nat
    <3> SUFFICES ASSUME NEW i \in saving PROVE Saved(i) \in Int /\ Cost(i) \in Nat
      OBVIOUS
    <3>1. choices[i] \in Steps(state)
      BY <1>1, <2>2
    <3>2. choices[i] \in States /\ Cost(i) \in Nat
      BY <3>1 DEF Steps
    <3>3. cells \in Nat /\ CellsAt(base, choices[i]) \in Nat
      BY <3>2, CellsAreCounted
    <3> QED BY <3>2, <3>3
  <2> HIDE DEF cells, choices, saving, Saved, Cost
  <2>4. \E i \in saving : \A j \in saving : Better(i, j)
    <3>1. saving \subseteq {1, 2} /\ saving # {}
      BY <1>1, <1>3, <2>2
    <3>2. \A i, j \in saving : Saved(i) * Cost(j) \in Int
      BY <2>3
    <3>3. CASE \E i \in saving : \A j \in saving : j = i
      BY <3>2, <3>3, <3>1
    <3>4. CASE saving = {1, 2}
      <4> DEFINE p == Saved(1) * Cost(2)
                 q == Saved(2) * Cost(1)
      <4>1. p \in Int /\ q \in Int /\ Saved(1) * Cost(1) \in Int /\ Saved(2) * Cost(2) \in Int
        BY <3>2, <3>4
      <4>2. Better(1, 1) /\ Better(2, 2)
        BY <4>1
      <4>3. Better(1, 2) \/ Better(2, 1)
        <5>1. q < p \/ q = p \/ p < q
          BY <4>1
        <5> QED BY <5>1
      <4> QED BY <3>4, <4>2, <4>3
    <3> QED BY <3>1, <3>3, <3>4
  <2> DEFINE i == CHOOSE i \in saving : \A j \in saving : Better(i, j)
  <2>5. i \in saving
    BY <2>4
  <2> HIDE DEF i, Better
  <2>6. choices[i] \in Steps(state)
    BY <1>1, <2>2, <2>5
  <2>7. CollapseTurn(base, state) = choices[i]
    BY <2>1 DEF i
  <2>8. CellsAt(base, choices[i]) < CellsAt(base, state)
    BY <2>2, <2>5
  <2> QED BY <2>2, <2>6, <2>7, <2>8 DEF Steps
<1> QED BY <1>2, <1>3

(* The loop is a run of four turns.                                        *)
LEMMA LoopIsTurns ==
  ASSUME NEW base, IsBase(base), NEW initial \in States
  PROVE  \E run \in [0..4 -> {s \in States : Coarser(s, initial)}] :
           /\ run[0] = initial /\ run[4] = CollapsedTo(base, initial)
           /\ \A i \in 1..4 : run[i] = CollapseTurn(base, run[i - 1])
<1> DEFINE Coarse == {s \in States : Coarser(s, initial)}
           turns == [turn \in 1..4 |-> turn]
           D == DOMAIN turns
           Step(it, s) == IF s = {} THEN initial ELSE CollapseTurn(base, it[s \ {Max(s)}])
           IsIter(it) == it = [s \in SUBSET D |-> Step(it, s)]
           iter == CHOOSE it : IsIter(it)
           step == [p \in Coarse \X (1..4) |-> CollapseTurn(base, p[1])]
<1>1. D = 1..4 /\ 4 \in Nat
  OBVIOUS
<1>2. CollapsedTo(base, initial) = iter[D]
  BY Zenon DEF CollapsedTo, FoldLeft, MapThenFoldSet
<1> HIDE DEF D
<1>3. initial \in Coarse
  BY CoarserIsReflexive
<1>4. \A state \in Coarse : CollapseTurn(base, state) \in Coarse
  <2> SUFFICES ASSUME NEW state \in Coarse PROVE CollapseTurn(base, state) \in Coarse
    OBVIOUS
  <2>1. CollapseTurn(base, state) \in States /\ Coarser(CollapseTurn(base, state), state)
    BY TurnCoarsens
  <2> QED BY <2>1, CoarserIsTransitive
<1> HIDE DEF Coarse
<1>5. step \in [Coarse \X (1..4) -> Coarse]
  BY <1>4
<1> HIDE DEF step
<1>6. PICK it \in [SUBSET (1..4) -> Coarse] : IsFold(it, step, initial, 4)
  BY <1>1, <1>3, <1>5, FoldExists
<1>7. IsIter(it)
  <2>1. ASSUME NEW s \in SUBSET (1..4) PROVE it[s] = Step(it, s)
    <3>1. s # {} => Max(s) \in 1..4
      BY <1>1, MaxOfPart
    <3>2. it[s \ {Max(s)}] \in Coarse
      BY <1>6
    <3>3. it[s] = IF s = {} THEN initial ELSE step[<<it[s \ {Max(s)}], Max(s)>>]
      BY <1>6 DEF IsFold
    <3> QED BY <3>1, <3>2, <3>3 DEF step
  <2> QED BY <1>1, <1>6, <2>1
<1>8. IsIter(iter)
  BY <1>7
<1> HIDE DEF iter
<1>9. iter[{}] = initial
  BY <1>8
<1>10. ASSUME NEW s \in SUBSET (1..4), s # {}
       PROVE  iter[s] = CollapseTurn(base, iter[s \ {Max(s)}])
  BY <1>1, <1>8, <1>10
<1> HIDE DEF Step, IsIter
<1> DEFINE at(i) == iter[1..i]
<1>11. ASSUME NEW i \in 1..4 PROVE at(i) = CollapseTurn(base, at(i - 1))
  <2>1. i \in Nat \ {0} /\ 1..i \in SUBSET (1..4) /\ 1..i # {}
    OBVIOUS
  <2>2. Max(1..i) = i /\ (1..i) \ {i} = 1..(i - 1)
    BY <2>1, LastOfPrefix, PrefixBefore
  <2> QED BY <1>10, <2>1, <2>2
<1>12. at(0) = initial /\ at(4) = CollapsedTo(base, initial)
  <2>1. 1..0 = {}
    OBVIOUS
  <2> QED BY <1>1, <1>2, <1>9, <2>1
<1> HIDE DEF at
<1>13. at(1) = CollapseTurn(base, at(0)) /\ at(2) = CollapseTurn(base, at(1))
  BY <1>11
<1>14. at(3) = CollapseTurn(base, at(2)) /\ at(4) = CollapseTurn(base, at(3))
  BY <1>11
<1>15. \A i \in 0..4 : at(i) \in Coarse
  <2>1. at(0) \in Coarse
    BY <1>3, <1>12
  <2>2. at(1) \in Coarse
    BY <1>4, <1>13, <2>1
  <2>3. at(2) \in Coarse
    BY <1>4, <1>13, <2>2
  <2>4. at(3) \in Coarse
    BY <1>4, <1>14, <2>3
  <2>5. at(4) \in Coarse
    BY <1>4, <1>14, <2>4
  <2>6. \A i \in 0..4 : i \in {0, 1, 2, 3, 4}
    OBVIOUS
  <2> QED BY <2>1, <2>2, <2>3, <2>4, <2>5, <2>6
<1> DEFINE run == [i \in 0..4 |-> at(i)]
<1>16. run \in [0..4 -> Coarse] /\ run[0] = initial /\ run[4] = CollapsedTo(base, initial)
  BY <1>12, <1>15
<1>17. \A i \in 1..4 : run[i] = CollapseTurn(base, run[i - 1])
  <2>1. \A i \in 1..4 : i \in 0..4 /\ i - 1 \in 0..4
    OBVIOUS
  <2> QED BY <1>11, <2>1
<1> HIDE DEF run
<1> QED BY <1>16, <1>17 DEF Coarse

LEMMA LoopCoarsens ==
  ASSUME NEW base, IsBase(base), NEW initial \in States
  PROVE  CollapsedTo(base, initial) \in States /\ Coarser(CollapsedTo(base, initial), initial)
BY LoopIsTurns

(* While a cube exceeds the budget and would not without its components,   *)
(* a turn coarsens it, and it keeps the components only if it bands a      *)
(* further level.                                                          *)
FitsWithout(base, s) ==
  \A t \in States : Coarser(t, s) /\ t.depth = 0 => CellsAt(base, t) <= CellBudget

Bands(state) == IF state.floor = 0 THEN 0 ELSE state.floor - 1

LEMMA TurnAdvances ==
  ASSUME NEW base, IsBase(base), NEW state \in States, FitsWithout(base, state),
         NEW next, next = CollapseTurn(base, state), ~(CellsAt(base, next) <= CellBudget)
  PROVE  next.depth = 1 /\ Bands(next) > Bands(state)
<1> DEFINE without == [floor |-> state.floor, depth |-> 0]
           cells == CellsAt(base, state)
<1>1. /\ state = [floor |-> state.floor, depth |-> state.depth]
      /\ state.floor \in {0, 2, 3, 4} /\ state.depth \in {0, 1}
  BY DEF States
<1>2. without \in States /\ Coarser(without, state) /\ without.depth = 0
  BY <1>1 DEF States, Coarser
<1>3. CellsAt(base, without) <= CellBudget
  BY <1>2 DEF FitsWithout
<1>4. next \in States /\ Coarser(next, state)
  BY TurnCoarsens
<1>5. next.depth = 1
  BY <1>4 DEF FitsWithout, States
<1>6. state.depth = 1
  BY <1>1, <1>4, <1>5, SMT DEF Coarser
<1>7. ~(cells <= CellBudget)
  BY TurnCoarsens DEF Ends
<1>8. Saving(base, cells, state) # {}
  <2> DEFINE choices == NextCollapseSteps(state)
  <2>1. PICK i \in DOMAIN choices : choices[i] = without
    BY <1>6, NextStepsAreSteps
  <2>2. cells \in Nat /\ CellsAt(base, without) \in Nat
    BY <1>2, CellsAreCounted
  <2>3. CellsAt(base, without) < cells
    BY <1>3, <1>7, <2>2, CubeAssumption
  <2> QED BY <2>1, <2>3 DEF Saving
<1>9. next # state
  <2>1. cells \in Nat /\ CellsAt(base, next) < cells
    BY <1>7, <1>8, TurnCoarsens, CellsAreCounted DEF Ends
  <2> QED BY <2>1
<1> HIDE DEF cells, without
<1>10. next = [floor |-> next.floor, depth |-> next.depth] /\ next.floor \in {0, 2, 3, 4}
  BY <1>4 DEF States
<1>11. next.floor # state.floor
  BY <1>1, <1>5, <1>6, <1>9, <1>10
<1>12. next.floor >= state.floor
  BY <1>4 DEF Coarser
<1> QED BY <1>1, <1>5, <1>10, <1>11, <1>12, SMT DEF Bands

LEMMA LoopMeetsBudget ==
  ASSUME NEW base, IsBase(base), NEW initial \in States, FitsWithout(base, initial)
  PROVE  CellsAt(base, CollapsedTo(base, initial)) <= CellBudget
<1> DEFINE Met(s) == CellsAt(base, s) <= CellBudget
<1>1. PICK run \in [0..4 -> {s \in States : Coarser(s, initial)}] :
        /\ run[0] = initial /\ run[4] = CollapsedTo(base, initial)
        /\ \A i \in 1..4 : run[i] = CollapseTurn(base, run[i - 1])
  BY LoopIsTurns
<1>2. ASSUME NEW i \in 1..4, ~Met(run[i])
      PROVE  ~Met(run[i - 1]) /\ Bands(run[i]) > Bands(run[i - 1]) /\ Bands(run[i]) \in 0..3
  <2>1. i - 1 \in 0..4 /\ i \in 0..4
    OBVIOUS
  <2>2. /\ run[i - 1] \in States /\ Coarser(run[i - 1], initial) /\ run[i] \in States
        /\ run[i] = CollapseTurn(base, run[i - 1])
    BY <1>1, <2>1
  <2>3. FitsWithout(base, run[i - 1])
    BY <2>2, CoarserIsTransitive DEF FitsWithout
  <2>4. ~Met(run[i - 1])
    BY <1>2, <2>2, TurnCoarsens DEF Ends
  <2>5. Bands(run[i]) > Bands(run[i - 1])
    BY <1>2, <2>2, <2>3, TurnAdvances
  <2>6. Bands(run[i]) \in 0..3
    BY <2>2 DEF Bands, States
  <2> QED BY <2>4, <2>5, <2>6
<1>3. Bands(run[0]) \in 0..3
  BY <1>1 DEF Bands, States
<1> HIDE DEF Met
<1>4. SUFFICES ASSUME ~Met(run[4]) PROVE FALSE
  BY <1>1 DEF Met
<1>5. Bands(run[4]) > Bands(run[3]) /\ Bands(run[4]) \in 0..3 /\ ~Met(run[3])
  BY <1>2, <1>4
<1>6. Bands(run[3]) > Bands(run[2]) /\ Bands(run[3]) \in 0..3 /\ ~Met(run[2])
  BY <1>2, <1>5
<1>7. Bands(run[2]) > Bands(run[1]) /\ Bands(run[2]) \in 0..3 /\ ~Met(run[1])
  BY <1>2, <1>6
<1>8. Bands(run[1]) > Bands(run[0]) /\ Bands(run[1]) \in 0..3
  BY <1>2, <1>7
<1> HIDE DEF Bands
<1> QED BY <1>3, <1>5, <1>6, <1>7, <1>8

(* The coarser of two states on each axis is coarser than both.            *)
LEMMA CommonIsCoarser ==
  ASSUME NEW s \in States, NEW t \in States
  PROVE  LET common == MinCommonCollapse(s, t) IN
         /\ common \in States /\ Coarser(common, s) /\ Coarser(common, t)
         /\ common = MinCommonCollapse(t, s)
<1>1. /\ s.floor \in {0, 2, 3, 4} /\ t.floor \in {0, 2, 3, 4}
      /\ s.depth \in {0, 1} /\ t.depth \in {0, 1}
  BY DEF States
<1>2. Max({s.floor, t.floor}) = IF s.floor >= t.floor THEN s.floor ELSE t.floor
  <2> DEFINE S == {s.floor, t.floor}
             m == IF s.floor >= t.floor THEN s.floor ELSE t.floor
  <2>1. m \in S /\ (\A y \in S : m >= y) /\ \A x \in S : (\A y \in S : x >= y) => x = m
    BY <1>1, SMT
  <2> HIDE DEF S, m
  <2>2. Max(S) = m
    BY <2>1 DEF Max
  <2> QED BY <2>2 DEF S, m
<1>3. Min({s.depth, t.depth}) = IF s.depth <= t.depth THEN s.depth ELSE t.depth
  <2> DEFINE S == {s.depth, t.depth}
             m == IF s.depth <= t.depth THEN s.depth ELSE t.depth
  <2>1. m \in S /\ (\A y \in S : m <= y) /\ \A x \in S : (\A y \in S : x <= y) => x = m
    BY <1>1, SMT
  <2> HIDE DEF S, m
  <2>2. Min(S) = m
    BY <2>1 DEF Min
  <2> QED BY <2>2 DEF S, m
<1>4. {s.floor, t.floor} = {t.floor, s.floor} /\ {s.depth, t.depth} = {t.depth, s.depth}
  OBVIOUS
<1>5. MinCommonCollapse(s, t) = MinCommonCollapse(t, s)
  BY <1>4 DEF MinCommonCollapse
<1>6. /\ MinCommonCollapse(s, t) = [floor |-> Max({s.floor, t.floor}), depth |-> Min({s.depth, t.depth})]
  BY DEF MinCommonCollapse
<1> QED BY <1>1, <1>2, <1>3, <1>5, <1>6 DEF States, Coarser

-----------------------------------------------------------------------------
(* The base recovered *)

LEMMA AncestorIsAntisymmetric ==
  ASSUME NEW a \in Cells, NEW b \in Cells, IsAncestor(a, b), IsAncestor(b, a)
  PROVE  a = b
<1>1. \A dim \in Dims : a[dim] = b[dim]
  BY DEF IsAncestor, Pinned
<1> QED BY <1>1 DEF Cells

LEMMA RowPins ==
  ASSUME NEW c, IsRow(c)
  PROVE  /\ c \in Cells
         /\ Pinned(c) = IF c[Where] # Star THEN {Level, Where, Role} ELSE {Level, Role}
<1>1. c \in Cells
  BY DEF IsRow, Cells
<1>2. c[1] # Star /\ c[3] # Star /\ c[4] = Star
  BY DEF IsRow, Level, Role, LatencyShift
<1>3. Pinned(c) = {dim \in {1, 2, 3, 4} : c[dim] # Star}
  BY DimsAre DEF Pinned
<1>4. Pinned(c) = IF c[2] # Star THEN {1, 2, 3} ELSE {1, 3}
  BY <1>2, <1>3
<1> QED BY <1>1, <1>4 DEF Level, Where, Role

LEMMA ThreeAreThree ==
  /\ IsFiniteSet({Level, Where, Role}) /\ Cardinality({Level, Where, Role}) = 3
  /\ IsFiniteSet({Level, Role}) /\ Cardinality({Level, Role}) = 2
<1>1. IsFiniteSet({}) /\ Cardinality({}) = 0
  BY EmptyCount
<1>2. IsFiniteSet({} \cup {1}) /\ Cardinality({} \cup {1}) = 1
  BY <1>1, CountOneMore
<1>3. {} \cup {1} = {1}
  OBVIOUS
<1>4. IsFiniteSet({1} \cup {3}) /\ Cardinality({1} \cup {3}) = 2
  BY <1>2, <1>3, CountOneMore
<1>5. {1} \cup {3} = {1, 3}
  OBVIOUS
<1>6. IsFiniteSet({1, 3} \cup {2}) /\ Cardinality({1, 3} \cup {2}) = 3
  BY <1>4, <1>5, CountOneMore
<1>7. {1, 3} \cup {2} = {1, 2, 3}
  OBVIOUS
<1> QED BY <1>4, <1>5, <1>6, <1>7 DEF Level, Where, Role

(* What lies below a cell of a base is below a row.                        *)
LEMMA PinsOfAClosedCell ==
  ASSUME NEW base, IsBase(base), NEW d \in DOMAIN Closed(base)
  PROVE  \E c \in DOMAIN base : IsAncestor(d, c) /\ Pinned(d) \subseteq Pinned(c)
<1>0. Below(base, d) # {}
  BY BasesAreCells, ClosedCells
<1>1. PICK c \in DOMAIN base : IsAncestor(d, c)
  BY <1>0 DEF Below
<1>2. Pinned(d) \subseteq Pinned(c)
  BY <1>1 DEF IsAncestor, Pinned
<1> QED BY <1>1, <1>2

LEMMA PinnedRowIsClosed ==
  ASSUME NEW base, IsBase(base), NEW c \in DOMAIN base, c[Where] # Star
  PROVE  c \in FullyPinned(Closed(base)) /\ Closed(base)[c] = base[c]
<1>1. IsCells(base) /\ IsRow(c) /\ c \in Cells /\ Pinned(c) = {Level, Where, Role}
  BY BasesAreCells, RowPins DEF IsBase
<1>2. Below(base, c) = {c}
  <2>1. ASSUME NEW d \in DOMAIN base, IsAncestor(c, d) PROVE c = d
    <3>1. IsRow(d) /\ c[Level] = d[Level] /\ c[Where] = d[Where] /\ c[Role] = d[Role]
      BY <1>1, <2>1 DEF IsAncestor, IsBase
    <3> QED BY <1>1, <3>1, RowsAreAlike
  <2> QED BY <2>1, AncestorIsReflexive DEF Below
<1>3. Meet({c}) = c
  <2>1. {c} \in SUBSET Cells /\ {c} # {} /\ IsAncestor(c, c)
    BY <1>1, AncestorIsReflexive
  <2>2. Meet({c}) \in Cells /\ IsAncestor(Meet({c}), c) /\ IsAncestor(c, Meet({c}))
    BY <2>1, MeetIsCommon
  <2> QED BY <1>1, <2>2, AncestorIsAntisymmetric
<1>4. c \in DOMAIN Closed(base) /\ Closed(base)[c] = On(base, c)
  BY <1>1, <1>2, <1>3, ClosedCells
<1>5. On(base, c) = base[c]
  <2>1. NatOn(base, {} \cup {c}) /\ c \notin {} /\ base[c] \in Nat
    BY <1>1 DEF IsCells, IsFiniteBag, NatOn
  <2>2. SumFunctionOnSet(base, {} \cup {c}) = base[c] + SumFunctionOnSet(base, {})
    BY <2>1, EmptyCount, SumAdd
  <2>3. {} \cup {c} = {c}
    OBVIOUS
  <2>4. SumFunctionOnSet(base, {c}) = base[c]
    BY <2>1, <2>2, <2>3, SumEmpty
  <2> QED BY <1>2, <2>4, SumIs DEF On
<1> QED BY <1>1, <1>4, <1>5, ThreeAreThree DEF FullyPinned

LEMMA FullyPinnedAre ==
  ASSUME NEW base, IsBase(base)
  PROVE  /\ FullyPinned(Closed(base)) = {c \in DOMAIN base : c[Where] # Star}
         /\ \A c \in FullyPinned(Closed(base)) : Closed(base)[c] = base[c]
<1>1. ASSUME NEW d \in FullyPinned(Closed(base))
      PROVE  d \in DOMAIN base /\ d[Where] # Star
  <2>1. d \in DOMAIN Closed(base) /\ Cardinality(Pinned(d)) = 3
    BY DEF FullyPinned
  <2>2. PICK c \in DOMAIN base : IsAncestor(d, c) /\ Pinned(d) \subseteq Pinned(c)
    BY <2>1, PinsOfAClosedCell
  <2>3. IsRow(c) /\ c \in Cells /\ d \in Cells
    BY <2>1, RowPins, BasesAreCells, ClosedCells DEF IsBase
  <2>4. Pinned(c) = {Level, Where, Role}
    <3>1. SUFFICES ASSUME Pinned(c) = {Level, Role} PROVE FALSE
      BY <2>3, RowPins
    <3>2. Cardinality(Pinned(d)) <= 2
      BY <2>2, <3>1, ThreeAreThree, FS_Subset
    <3> QED BY <2>1, <3>2
  <2>5. Pinned(d) = Pinned(c)
    BY <2>1, <2>2, <2>4, ThreeAreThree, FS_Subset
  <2>6. \A dim \in Dims : d[dim] = c[dim]
    BY <2>2, <2>5 DEF IsAncestor, Pinned
  <2>7. d = c
    BY <2>3, <2>6 DEF Cells
  <2>8. d[Where] # Star
    BY <2>4, <2>5 DEF Pinned
  <2> QED BY <2>7, <2>8
<1> QED BY <1>1, PinnedRowIsClosed

LEMMA LevelRoleOfARow ==
  ASSUME NEW c, IsRow(c)
  PROVE  /\ IsRow(LevelRole(c)) /\ LevelRole(c) \in Cells
         /\ LevelRole(c)[Level] = c[Level] /\ LevelRole(c)[Role] = c[Role]
         /\ LevelRole(c)[Where] = Star
         /\ c[Where] = Star => LevelRole(c) = c
<1>1. /\ LevelRole(c)[Level] = c[Level] /\ LevelRole(c)[Role] = c[Role]
      /\ LevelRole(c)[Where] = Star /\ LevelRole(c)[LatencyShift] = Star
  BY DimsAre DEF LevelRole, Generalize, Level, Where, Role, LatencyShift
<1>2. LevelRole(c) \in Cells
  BY RowPins, Generalized DEF LevelRole
<1>3. IsRow(LevelRole(c))
  BY <1>1, <1>2 DEF IsRow, Cells
<1> QED BY <1>1, <1>2, <1>3, RowsAreAlike

LEMMA LevelRoleAgrees ==
  ASSUME NEW c, NEW d, c[Level] = d[Level], c[Role] = d[Role]
  PROVE  LevelRole(c) = LevelRole(d)
BY DEF LevelRole, Generalize

LEMMA AggregatesAre ==
  ASSUME NEW base, IsBase(base)
  PROVE  Aggregates(Closed(base)) = {LevelRole(c) : c \in DOMAIN base}
<1>1. ASSUME NEW c \in DOMAIN base PROVE LevelRole(c) \in Aggregates(Closed(base))
  <2> DEFINE g == LevelRole(c)
  <2>1. IsRow(c) /\ c \in Cells /\ IsCells(base)
    BY RowPins, BasesAreCells DEF IsBase
  <2>2. g \in Cells /\ IsAncestor(g, c) /\ g[Level] = c[Level] /\ g[Role] = c[Role]
    BY <2>1, LevelRoleOfARow, Generalized DEF LevelRole
  <2> HIDE DEF g
  <2>3. Below(base, g) # {}
    BY <2>2 DEF Below
  <2>4. PICK d \in DOMAIN Closed(base) : IsAncestor(g, d)
    BY <2>1, <2>2, <2>3, ClosureOfACell
  <2>5. Level \in Pinned(g) /\ Role \in Pinned(g)
    BY <2>1, <2>2, DimsAre DEF Pinned, IsRow
  <2>6. d[Level] = c[Level] /\ d[Role] = c[Role]
    BY <2>2, <2>4, <2>5 DEF IsAncestor
  <2>7. {Level, Role} \subseteq Pinned(d)
    BY <2>1, <2>6, DimsAre DEF Pinned, IsRow
  <2>8. LevelRole(d) = LevelRole(c)
    BY <2>6, LevelRoleAgrees
  <2> QED BY <2>7, <2>8 DEF Aggregates
<1>2. ASSUME NEW a \in Aggregates(Closed(base)) PROVE \E c \in DOMAIN base : a = LevelRole(c)
  <2>1. PICK d \in DOMAIN Closed(base) : {Level, Role} \subseteq Pinned(d) /\ a = LevelRole(d)
    BY DEF Aggregates
  <2>2. PICK c \in DOMAIN base : IsAncestor(d, c)
    BY PinsOfAClosedCell
  <2>3. d[Level] = c[Level] /\ d[Role] = c[Role]
    BY <2>1, <2>2 DEF IsAncestor
  <2> QED BY <2>1, <2>3, LevelRoleAgrees
<1> QED BY <1>1, <1>2

(* The lines of an aggregate are those of its components and those without *)
(* one.                                                                    *)
LEMMA AggregateSplits ==
  ASSUME NEW base, IsBase(base), NEW a \in Aggregates(Closed(base)), NEW S,
         S = {c \in FullyPinned(Closed(base)) : IsAncestor(a, c)}
  PROVE  /\ SumOver(Closed(base), S) \in Nat
         /\ CountInClosed(Closed(base), a) = SumOver(Closed(base), S) + At(base, a)
         /\ At(base, a) \in Nat
<1>1. PICK e \in DOMAIN base : a = LevelRole(e)
  BY AggregatesAre
<1>2. IsRow(e) /\ IsRow(a) /\ a \in Cells /\ a[Where] = Star /\ IsCells(base)
  BY <1>1, LevelRoleOfARow, BasesAreCells DEF IsBase
<1>3. S \in SUBSET DOMAIN base /\ \A c \in S : c[Where] # Star
  BY FullyPinnedAre
<1>4. Below(base, a) = S \cup (DOMAIN base \cap {a})
  <2>1. ASSUME NEW c \in DOMAIN base, IsAncestor(a, c), c \notin S PROVE c = a
    <3>1. c[Where] = Star
      BY <2>1, FullyPinnedAre
    <3>2. Level \in Pinned(a) /\ Role \in Pinned(a)
      BY <1>2, DimsAre DEF Pinned, IsRow
    <3>3. IsRow(c) /\ c[Level] = a[Level] /\ c[Role] = a[Role]
      BY <2>1, <3>2 DEF IsAncestor, IsBase
    <3> QED BY <1>2, <3>1, <3>3, RowsAreAlike
  <2> QED BY <1>3, <2>1, AncestorIsReflexive DEF Below
<1>5. /\ IsFiniteSet(S) /\ NatOn(base, S) /\ a \notin S /\ NatOn(base, DOMAIN base)
      /\ SumOver(base, S) \in Nat
  BY <1>2, <1>3, FS_Subset, CountOfPart DEF IsCells, IsFiniteBag, NatOn
<1>6. SumOver(Closed(base), S) = SumOver(base, S)
  <2>1. AgreeOn(Closed(base), base, S)
    BY FullyPinnedAre DEF AgreeOn
  <2> QED BY <1>5, <2>1, SumSame, SumIs
<1>7. SumOver(base, Below(base, a)) = SumOver(base, S) + At(base, a) /\ At(base, a) \in Nat
  <2>1. CASE a \in DOMAIN base
    <3>1. Below(base, a) = S \cup {a} /\ NatOn(base, S \cup {a}) /\ At(base, a) = base[a]
      BY <1>4, <1>5, <2>1 DEF NatOn, At
    <3>2. SumFunctionOnSet(base, S \cup {a}) = base[a] + SumFunctionOnSet(base, S)
      BY <1>5, <3>1, SumAdd
    <3> QED BY <1>5, <2>1, <3>1, <3>2, SumIs DEF NatOn
  <2>2. CASE a \notin DOMAIN base
    <3>1. Below(base, a) = S /\ At(base, a) = 0
      BY <1>4, <2>2 DEF At
    <3> QED BY <1>5, <3>1
  <2> QED BY <2>1, <2>2
<1>8. CountInClosed(Closed(base), a) = SumOver(base, Below(base, a))
  BY <1>2, CountInClosedIsExact DEF On
<1> QED BY <1>5, <1>6, <1>7, <1>8

LEMMA RecoveredBase ==
  ASSUME NEW base, IsBase(base)
  PROVE  RecoverBase(Closed(base)) = base
<1> DEFINE closed == Closed(base)
           full == FullyPinned(closed)
           total(a) == CountInClosed(closed, a)
           part(a) == SumOver(closed, {c \in full : IsAncestor(a, c)})
           residual == {a \in Aggregates(closed) : total(a) > part(a)}
           g == RecoverBase(closed)
<1>1. g = [c \in full \cup residual |-> IF c \in residual THEN total(c) - part(c) ELSE closed[c]]
  BY DEF RecoverBase
<1>2. \A a \in Aggregates(closed) :
        total(a) = part(a) + At(base, a) /\ part(a) \in Nat /\ At(base, a) \in Nat
  BY AggregateSplits
<1> HIDE DEF total, part
<1>3. \A c \in DOMAIN base : base[c] \in Nat \ {0} /\ IsRow(c)
  BY DEF IsBase, IsABag
<1>4. residual = {c \in DOMAIN base : c[Where] = Star}
  <2>1. ASSUME NEW a \in residual PROVE a \in DOMAIN base /\ a[Where] = Star
    <3>1. At(base, a) # 0
      BY <1>2
    <3>2. a \in DOMAIN base
      BY <3>1 DEF At
    <3>3. a[Where] = Star
      BY <1>3, AggregatesAre, LevelRoleOfARow
    <3> QED BY <3>2, <3>3
  <2>2. ASSUME NEW c \in DOMAIN base, c[Where] = Star PROVE c \in residual
    <3>1. c \in Aggregates(closed)
      BY <1>3, <2>2, AggregatesAre, LevelRoleOfARow
    <3>2. At(base, c) \in Nat \ {0}
      BY <1>3 DEF At
    <3> QED BY <1>2, <3>1, <3>2
  <2> QED BY <2>1, <2>2
<1>5. full = {c \in DOMAIN base : c[Where] # Star} /\ \A c \in full : closed[c] = base[c]
  BY FullyPinnedAre
<1>6. \A c \in residual : total(c) - part(c) = base[c]
  <2> SUFFICES ASSUME NEW c \in residual PROVE total(c) - part(c) = base[c]
    OBVIOUS
  <2>1. c \in Aggregates(closed) /\ At(base, c) = base[c]
    BY <1>4 DEF At
  <2> QED BY <1>2, <2>1
<1> HIDE DEF g, residual, full, closed
<1>7. DOMAIN g = DOMAIN base /\ g = [c \in DOMAIN base |-> g[c]]
  BY <1>1, <1>4, <1>5
<1>8. \A c \in DOMAIN base : g[c] = base[c]
  BY <1>1, <1>4, <1>5, <1>6
<1>9. g = base
  BY <1>7, <1>8, BaseIsAFunction, SameFunctions
<1> QED BY <1>9 DEF g, closed

(* Each axis has the values of its lines.                                  *)
LEMMA AxisValues ==
  ASSUME NEW base, IsBase(base), NEW dim \in Dims
  PROVE  {c[dim] : c \in DOMAIN Closed(base)} \ {Star} = {c[dim] : c \in DOMAIN base} \ {Star}
<1>1. ASSUME NEW d \in DOMAIN Closed(base), d[dim] # Star
      PROVE  \E c \in DOMAIN base : d[dim] = c[dim]
  BY <1>1, PinsOfAClosedCell DEF IsAncestor, Pinned
<1>2. ASSUME NEW c \in DOMAIN base, c[dim] # Star
      PROVE  \E d \in DOMAIN Closed(base) : d[dim] = c[dim]
  <2>1. c \in Cells /\ IsCells(base) /\ Below(base, c) # {}
    BY RowPins, BasesAreCells, AncestorIsReflexive DEF IsBase, Below
  <2>2. PICK d \in DOMAIN Closed(base) : IsAncestor(c, d)
    BY <2>1, ClosureOfACell
  <2> QED BY <1>2, <2>2 DEF IsAncestor, Pinned
<1> QED BY <1>1, <1>2

-----------------------------------------------------------------------------
(* The cubes held *)

(* A cube is determined by its lines and its state, but for the base the   *)
(* wire took.                                                              *)
IsCubeOf(cube, rows) ==
  /\ cube = [cells |-> cube.cells, base |-> cube.base, state |-> cube.state]
  /\ cube.state \in States
  /\ cube.cells = Closed(CollapsedBase(rows, cube.state))
  /\ cube.base \in {NoBase, CollapsedBase(rows, cube.state)}

HeldInv ==
  \A h \in held :
    /\ h = [rows |-> h.rows, cube |-> h.cube]
    /\ IsBase(h.rows) /\ IsCubeOf(h.cube, h.rows)

LEMMA CubeHasItsBase ==
  ASSUME NEW rows, IsBase(rows), NEW cube, IsCubeOf(cube, rows)
  PROVE  BaseOf(cube) = CollapsedBase(rows, cube.state)
<1>1. IsBase(CollapsedBase(rows, cube.state))
  BY CollapsedCounts DEF IsCollapsed, IsCubeOf
<1>2. RecoverBase(cube.cells) = CollapsedBase(rows, cube.state)
  BY <1>1, RecoveredBase DEF IsCubeOf
<1> QED BY <1>2 DEF BaseOf, IsCubeOf

(* Collapsed as far as needed, a base that collapses as the lines do makes *)
(* a cube of the lines.                                                    *)
CollapsesAs(base, rows, s) ==
  \A t \in States : Coarser(t, s) => CollapsedBase(base, t) = CollapsedBase(rows, t)

LEMMA BoundedIsCubeOf ==
  ASSUME NEW rows, IsBase(rows), NEW base, IsBase(base), NEW s \in States,
         CollapsesAs(base, rows, s)
  PROVE  IsCubeOf(BuildBoundedCube(base, s), rows)
<1> DEFINE state == CollapsedTo(base, s)
           cube == BuildBoundedCube(base, s)
<1>1. state \in States /\ Coarser(state, s)
  BY LoopCoarsens
<1>2. cube = [cells |-> Closed(CollapsedBase(base, state)), base |-> CollapsedBase(base, state),
              state |-> state]
  BY DEF BuildBoundedCube
<1> HIDE DEF cube, state
<1>3. CollapsedBase(base, state) = CollapsedBase(rows, state)
  BY <1>1 DEF CollapsesAs
<1>4. IsCubeOf(cube, rows)
  BY <1>1, <1>2, <1>3 DEF IsCubeOf
<1> QED BY <1>4 DEF cube

LEMMA FullIsAState == Full \in States
BY DEF Full, States

LEMMA BuiltIsCubeOf ==
  ASSUME NEW rows, IsBase(rows)
  PROVE  IsCubeOf(BuildClosedCube(rows), rows)
BY FullIsAState, BoundedIsCubeOf DEF BuildClosedCube, CollapsesAs

LEMMA WiredIsCubeOf ==
  ASSUME NEW rows, NEW cube, IsCubeOf(cube, rows)
  PROVE  IsCubeOf([cube EXCEPT !.base = NoBase], rows)
<1> DEFINE wired == [cube EXCEPT !.base = NoBase]
<1>1. wired = [cells |-> cube.cells, base |-> NoBase, state |-> cube.state]
  BY DEF IsCubeOf
<1> HIDE DEF wired
<1>2. IsCubeOf(wired, rows)
  BY <1>1 DEF IsCubeOf
<1> QED BY <1>2 DEF wired

(* Composing collapses the lines of both, from a state and a base that     *)
(* collapse as they do.                                                    *)
LEMMA ComposedIsBounded ==
  ASSUME NEW r, NEW q, IsBase(r), IsBase(q), NEW a, NEW b, IsCubeOf(a, r), IsCubeOf(b, q)
  PROVE  /\ IsBase(r (+) q)
         /\ \E base : \E s \in States :
              /\ IsBase(base) /\ CollapsesAs(base, r (+) q, s)
              /\ ComposeCubes(a, b) = BuildBoundedCube(base, s)
<1> DEFINE s == a.state
           u == b.state
           R == CollapsedBase(r, s)
           Q == CollapsedBase(q, u)
           common == MinCommonCollapse(s, u)
<1>1. s \in States /\ u \in States /\ BaseOf(a) = R /\ BaseOf(b) = Q
  BY CubeHasItsBase DEF IsCubeOf
<1>2. IsBase(R) /\ IsBase(Q)
  BY <1>1, CollapsedCounts DEF IsCollapsed
<1>3. common \in States /\ Coarser(common, s) /\ Coarser(common, u)
  BY <1>1, CommonIsCoarser
<1>4. IsBase(r (+) q)
  BY FullIsAState, CollapseOfBoth
<1>5. IsBase(R (+) Q)
  BY <1>2, FullIsAState, CollapseOfBoth
<1>6. ComposeCubes(a, b) = BuildBoundedCube(R (+) Q, common)
  BY <1>1 DEF ComposeCubes
<1> HIDE DEF s, u, common
<1>7. CollapsesAs(R (+) Q, r (+) q, common)
  <2> SUFFICES ASSUME NEW t \in States, Coarser(t, common)
               PROVE  CollapsedBase(R (+) Q, t) = CollapsedBase(r (+) q, t)
    BY DEF CollapsesAs
  <2>1. Coarser(t, s) /\ Coarser(t, u)
    BY <1>1, <1>3, CoarserIsTransitive
  <2>2. CollapsedBase(R, t) = CollapsedBase(r, t) /\ CollapsedBase(Q, t) = CollapsedBase(q, t)
    BY <1>1, <2>1, CollapseComposes
  <2>3. CollapsedBase(r (+) q, t) = CollapsedBase(r, t) (+) CollapsedBase(q, t)
    BY CollapseOfBoth
  <2> HIDE DEF R, Q
  <2>4. CollapsedBase(R (+) Q, t) = CollapsedBase(R, t) (+) CollapsedBase(Q, t)
    BY <1>2, CollapseOfBoth
  <2> QED BY <2>2, <2>3, <2>4
<1> HIDE DEF R, Q
<1> QED BY <1>3, <1>4, <1>5, <1>6, <1>7

LEMMA ComposedIsCubeOf ==
  ASSUME NEW r, NEW q, IsBase(r), IsBase(q), NEW a, NEW b, IsCubeOf(a, r), IsCubeOf(b, q)
  PROVE  IsBase(r (+) q) /\ IsCubeOf(ComposeCubes(a, b), r (+) q)
BY ComposedIsBounded, BoundedIsCubeOf

(* Whatever lines a cube of compose_cubes or of the wire stands for, its    *)
(* closed cells and its base are those lines collapsed by its state.       *)
THEOREM HeldIsAlwaysOfItsLines == Spec => []HeldInv
<1>1. Init => HeldInv
  BY DEF Init, HeldInv
<1>2. HeldInv /\ [Next]_vars => HeldInv'
  <2> SUFFICES ASSUME HeldInv, [Next]_vars PROVE HeldInv'
    OBVIOUS
  <2> DEFINE Says(h) == /\ h = [rows |-> h.rows, cube |-> h.cube]
                        /\ IsBase(h.rows) /\ IsCubeOf(h.cube, h.rows)
  <2>1. ASSUME NEW rows \in Windows, Build(rows) PROVE HeldInv'
    <3> DEFINE new == [rows |-> rows, cube |-> BuildClosedCube(rows)]
    <3>1. IsBase(rows) /\ held' = held \cup {new}
      BY <2>1, CubeLadderAssumption DEF Build
    <3>2. new.rows = rows /\ new.cube = BuildClosedCube(rows)
      OBVIOUS
    <3>3. Says(new)
      BY <3>1, <3>2, BuiltIsCubeOf
    <3> HIDE DEF new
    <3> QED BY <3>1, <3>3 DEF HeldInv
  <2>2. ASSUME NEW h \in held, Wire(h) PROVE HeldInv'
    <3> DEFINE new == [h EXCEPT !.cube = [@ EXCEPT !.base = NoBase]]
    <3>1. Says(h) /\ held' = (held \ {h}) \cup {new}
      BY <2>2 DEF HeldInv, Wire
    <3>2. new = [rows |-> h.rows, cube |-> [h.cube EXCEPT !.base = NoBase]]
      BY <3>1
    <3>3. new.rows = h.rows /\ new.cube = [h.cube EXCEPT !.base = NoBase]
      BY <3>2
    <3> HIDE DEF new
    <3>4. Says(new)
      BY <3>1, <3>2, <3>3, WiredIsCubeOf
    <3> QED BY <3>1, <3>4 DEF HeldInv
  <2>3. ASSUME NEW g \in held, NEW h \in held, Merge(g, h) PROVE HeldInv'
    <3> DEFINE new == [rows |-> g.rows (+) h.rows, cube |-> ComposeCubes(g.cube, h.cube)]
    <3>1. Says(g) /\ Says(h) /\ held' = (held \ {g, h}) \cup {new}
      BY <2>3 DEF HeldInv, Merge
    <3>2. new.rows = g.rows (+) h.rows /\ new.cube = ComposeCubes(g.cube, h.cube)
      OBVIOUS
    <3>3. Says(new)
      BY <3>1, <3>2, ComposedIsCubeOf
    <3> HIDE DEF new
    <3> QED BY <3>1, <3>3 DEF HeldInv
  <2>4. CASE UNCHANGED vars
    BY <2>4 DEF vars, HeldInv
  <2> QED BY <2>1, <2>2, <2>3, <2>4 DEF Next
<1> QED BY <1>1, <1>2, PTL DEF Spec

(* The lines a cell counts, told from the lines themselves.                *)
LEMMA CountOfTheLines ==
  ASSUME NEW rows, IsBase(rows), NEW state \in States, NEW cell \in Cells
  PROVE  /\ On(CollapsedBase(rows, state), cell) = TrueCount(rows, state, cell)
         /\ CountInClosed(Closed(CollapsedBase(rows, state)), cell) = TrueCount(rows, state, cell)
<1> DEFINE base == CollapsedBase(rows, state)
<1>1. IsCollapsed(base, rows, state)
  BY CollapsedCounts
<1> HIDE DEF base
<1>2. IsCells(base)
  BY <1>1, BasesAreCells DEF IsCollapsed
<1>3. Into(rows, state, Below(base, cell))
        = {r \in DOMAIN rows : IsAncestor(cell, CollapseCell(r, state))}
  BY <1>1 DEF IsCollapsed, Into, Below
<1>4. On(base, cell) = SumOver(rows, Into(rows, state, Below(base, cell)))
  <2>1. Below(base, cell) \in SUBSET DOMAIN base
    BY DEF Below
  <2> QED BY <1>1, <2>1 DEF IsCollapsed, On
<1>5. CountInClosed(Closed(base), cell) = On(base, cell)
  BY <1>2, CountInClosedIsExact
<1> QED BY <1>3, <1>4, <1>5 DEF TrueCount, base

(* No collapse takes a line into a failure level or out of one.            *)
LEMMA FailuresStayApart ==
  ASSUME NEW rows, IsBase(rows), NEW state \in States, NEW level \in Nat, level >= Error,
         level # Star, NEW cell \in Cells, cell[Level] = level, cell[Where] = Star,
         cell[Role] = Star, cell[LatencyShift] = Star
  PROVE  TrueCount(rows, state, cell) = TrueCount(rows, Full, cell)
<1>1. Pinned(cell) = {Level}
  <2>1. cell[1] # Star /\ cell[2] = Star /\ cell[3] = Star /\ cell[4] = Star
    BY DEF Level, Where, Role, LatencyShift
  <2> QED BY <2>1, DimsAre DEF Pinned, Level
<1>2. \A c : IsAncestor(cell, c) <=> c[Level] = level
  BY <1>1 DEF IsAncestor
<1>3. ASSUME NEW r \in DOMAIN rows
      PROVE  IsAncestor(cell, CollapseCell(r, state)) <=> IsAncestor(cell, CollapseCell(r, Full))
  <2>1. IsRow(r) /\ r[Level] \in Nat
    BY DimsAre DEF IsBase, IsRow
  <2>2. /\ CollapseCell(r, state)[Level] = IF r[Level] < state.floor THEN state.floor - 1 ELSE r[Level]
        /\ CollapseCell(r, Full)[Level] = IF r[Level] < Full.floor THEN Full.floor - 1 ELSE r[Level]
    BY <2>1, CollapsedCell, FullIsAState
  <2>3. state.floor \in {0, 2, 3, 4} /\ Full.floor = 0
    BY DEF States, Full
  <2>4. CollapseCell(r, state)[Level] = level <=> CollapseCell(r, Full)[Level] = level
    BY <2>1, <2>2, <2>3, SMT DEF Error
  <2> QED BY <1>2, <2>4
<1> QED BY <1>3 DEF TrueCount

(* A consumer reads its cubes rightly whatever the producers composed and  *)
(* the wire dropped: in every populated cell the closed cells count the    *)
(* lines that fell on it, and a failure level keeps its count however far  *)
(* the cube collapsed.                                                     *)
THEOREM CountsAreAlwaysExact == Spec => []CountsAreExact
<1>1. HeldInv => CountsAreExact
  <2> SUFFICES ASSUME HeldInv, NEW h \in held
               PROVE  /\ \A cell \in CellsOf(h.rows, h.cube.state) :
                           CountInClosed(h.cube.cells, cell) = TrueCount(h.rows, h.cube.state, cell)
                      /\ \A level \in {r[Level] : r \in DOMAIN h.rows} : level >= Error =>
                           LET cell == [Meet(DOMAIN h.rows) EXCEPT
                                          ![Level] = level, ![Where] = Star, ![Role] = Star]
                           IN  CountInClosed(h.cube.cells, cell) = TrueCount(h.rows, Full, cell)
    BY DEF CountsAreExact
  <2> DEFINE rows == h.rows
             state == h.cube.state
  <2>1. IsBase(rows) /\ state \in States /\ h.cube.cells = Closed(CollapsedBase(rows, state))
    BY DEF HeldInv, IsCubeOf
  <2>2. CellsOf(rows, state) \subseteq Cells
    BY <2>1, CollapsedCounts, BasesAreCells, PopulatedCells DEF CellsOf, IsCollapsed
  <2>3. \A cell \in Cells : CountInClosed(h.cube.cells, cell) = TrueCount(rows, state, cell)
    BY <2>1, CountOfTheLines
  <2>4. ASSUME NEW level \in {r[Level] : r \in DOMAIN rows}, level >= Error,
               NEW cell, cell = [Meet(DOMAIN rows) EXCEPT
                                   ![Level] = level, ![Where] = Star, ![Role] = Star]
        PROVE  CountInClosed(h.cube.cells, cell) = TrueCount(rows, Full, cell)
    <3> DEFINE meet == Meet(DOMAIN rows)
    <3>1. DOMAIN rows \subseteq Cells /\ DOMAIN rows # {} /\ \A r \in DOMAIN rows : IsRow(r)
      BY <2>1, BasesAreCells DEF IsCells, IsBase
    <3>2. level \in Nat /\ level # Star
      BY <3>1, DimsAre DEF IsRow
    <3>3. meet \in Cells
      BY <3>1, MeetIsCommon
    <3>4. meet[LatencyShift] = Star
      BY <3>1, DimsAre DEF Meet, IsRow
    <3> HIDE DEF meet
    <3>5. meet \in [{1, 2, 3, 4} -> Nat] /\ meet[4] = Star /\ Star \in Nat
      BY <3>3, <3>4, DimsAre DEF Cells, LatencyShift, Star
    <3>6. cell = [meet EXCEPT ![1] = level, ![2] = Star, ![3] = Star]
      BY <2>4 DEF meet, Level, Where, Role
    <3>7. /\ cell \in [{1, 2, 3, 4} -> Nat]
          /\ cell[1] = level /\ cell[2] = Star /\ cell[3] = Star /\ cell[4] = Star
      BY <3>2, <3>5, <3>6
    <3>8. /\ cell \in Cells /\ cell[Level] = level /\ cell[Where] = Star
          /\ cell[Role] = Star /\ cell[LatencyShift] = Star
      BY <3>7, DimsAre DEF Cells, Level, Where, Role, LatencyShift
    <3>9. TrueCount(rows, state, cell) = TrueCount(rows, Full, cell)
      BY <2>1, <2>4, <3>2, <3>8, FailuresStayApart
    <3> QED BY <2>3, <3>8, <3>9
  <2> QED BY <2>2, <2>3, <2>4
<1> QED BY <1>1, HeldIsAlwaysOfItsLines, PTL

(* What the wire drops is recovered: the base of any cube is what its      *)
(* lines collapse to, and so are the values of each axis.                  *)
THEOREM WireIsAlwaysLossless == Spec => []WireIsLossless
<1>1. HeldInv => WireIsLossless
  <2> SUFFICES ASSUME HeldInv, NEW h \in held, NEW base,
                      base = CollapsedBase(h.rows, h.cube.state)
               PROVE  /\ BaseOf(h.cube) = base
                      /\ RecoverBase(h.cube.cells) = base
                      /\ \A dim \in {Level, Where, Role} :
                           CubeCardinality(h.cube).per_axis[dim]
                             = Cardinality({c[dim] : c \in DOMAIN base} \ {Star})
    BY DEF WireIsLossless
  <2>1. IsBase(h.rows) /\ IsCubeOf(h.cube, h.rows)
    BY DEF HeldInv
  <2>2. h.cube.state \in States /\ h.cube.cells = Closed(base)
    BY <2>1 DEF IsCubeOf
  <2>3. IsBase(base)
    BY <2>1, <2>2, CollapsedCounts DEF IsCollapsed
  <2>4. BaseOf(h.cube) = base
    BY <2>1, CubeHasItsBase
  <2>5. RecoverBase(h.cube.cells) = base
    BY <2>2, <2>3, RecoveredBase
  <2>6. ASSUME NEW dim \in {Level, Where, Role}
        PROVE  CubeCardinality(h.cube).per_axis[dim]
                 = Cardinality({c[dim] : c \in DOMAIN base} \ {Star})
    <3>1. dim \in Dims
      BY DimsAre
    <3>2. CubeCardinality(h.cube).per_axis[dim]
            = Cardinality({c[dim] : c \in DOMAIN h.cube.cells} \ {Star})
      BY DEF CubeCardinality
    <3> QED BY <2>2, <2>3, <3>1, <3>2, AxisValues
  <2> QED BY <2>4, <2>5, <2>6
<1> QED BY <1>1, HeldIsAlwaysOfItsLines, PTL

-----------------------------------------------------------------------------
(* Two cubes compared *)

(* Without shifts a base stays as it is.                                   *)
LEMMA NothingShifted ==
  ASSUME NEW base, IsBase(base)
  PROVE  Shifted(base, << >>) = base
<1> DEFINE g == Shifted(base, << >>)
<1>1. DOMAIN << >> = {}
  OBVIOUS
<1>2. g = [cell \in DOMAIN base |-> base[[cell EXCEPT ![LatencyShift] = Star]]]
  BY <1>1 DEF Shifted
<1>3. ASSUME NEW cell \in DOMAIN base PROVE [cell EXCEPT ![LatencyShift] = Star] = cell
  <2>1. cell \in [{1, 2, 3, 4} -> Nat] /\ cell[4] = Star
    BY DimsAre DEF IsBase, IsRow, LatencyShift
  <2> QED BY <2>1 DEF LatencyShift
<1>4. g = [cell \in DOMAIN base |-> g[cell]] /\ \A cell \in DOMAIN base : g[cell] = base[cell]
  BY <1>2, <1>3
<1> HIDE DEF g
<1>5. g = base
  BY <1>4, BaseIsAFunction, SameFunctions
<1> QED BY <1>5 DEF g

(* A base with some components shifted is a bag of cells.                  *)
LEMMA ShiftedIsCells ==
  ASSUME NEW base, IsBase(base), NEW shifts \in Shifts
  PROVE  IsCells(Shifted(base, shifts))
<1> DEFINE Mark(c) == IF c[Where] \in DOMAIN shifts
                      THEN [c EXCEPT ![LatencyShift] = shifts[c[Where]]] ELSE c
           m == [c \in DOMAIN base |-> Mark(c)]
           image == {Mark(c) : c \in DOMAIN base}
           g == Shifted(base, shifts)
<1>1. g = [cell \in image |-> base[[cell EXCEPT ![LatencyShift] = Star]]]
  BY DEF Shifted
<1>2. ASSUME NEW c \in DOMAIN base
      PROVE  Mark(c) \in Cells /\ [Mark(c) EXCEPT ![LatencyShift] = Star] = c
  <2>1. c \in [{1, 2, 3, 4} -> Nat] /\ c[4] = Star
    BY DimsAre DEF IsBase, IsRow, LatencyShift
  <2>2. c[Where] \in DOMAIN shifts => shifts[c[Where]] \in Nat
    BY CubeLadderAssumption
  <2>3. CASE c[Where] \in DOMAIN shifts
    <3> DEFINE v == shifts[c[Where]]
               d == Mark(c)
    <3>1. d = [c EXCEPT ![4] = v] /\ v \in Nat
      BY <2>2, <2>3 DEF LatencyShift
    <3> HIDE DEF d, v
    <3>2. d \in [{1, 2, 3, 4} -> Nat] /\ [d EXCEPT ![4] = Star] = c
      BY <2>1, <3>1
    <3>3. d \in Cells /\ [d EXCEPT ![LatencyShift] = Star] = c
      BY <3>2, DimsAre DEF Cells, LatencyShift
    <3> QED BY <3>3 DEF d
  <2>4. CASE c[Where] \notin DOMAIN shifts
    BY <2>1, <2>4, DimsAre DEF Cells, LatencyShift
  <2> QED BY <2>3, <2>4
<1>3. \A c \in DOMAIN base : base[c] \in Nat \ {0}
  BY DEF IsBase, IsABag
<1>4. ASSUME NEW cell \in image
      PROVE  cell \in Cells /\ base[[cell EXCEPT ![LatencyShift] = Star]] \in Nat \ {0}
  <2>1. PICK c \in DOMAIN base : cell = Mark(c)
    OBVIOUS
  <2> HIDE DEF Mark
  <2> QED BY <1>2, <1>3, <2>1
<1>5. IsFiniteSet(image)
  <2>1. image = {m[c] : c \in DOMAIN base} /\ IsFiniteSet(DOMAIN base)
    BY DEF IsBase
  <2> HIDE DEF m, image
  <2> QED BY <2>1, ImageCount
<1> HIDE DEF image, g
<1>6. DOMAIN g = image /\ image \subseteq Cells /\ g \in [image -> Nat \ {0}]
  BY <1>1, <1>4
<1>7. IsCells(g)
  BY <1>5, <1>6 DEF IsCells, IsFiniteBag
<1> QED BY <1>7 DEF g

(* Emergent are the cells with lines on one side alone.                    *)
LEMMA EmergentAre ==
  ASSUME NEW from, NEW to, IsCells(from), IsCells(to)
  PROVE  /\ Emergent(Populate(from), Populate(to)) = Apart(from, to)
         /\ Apart(from, to)
              = {cell \in Cells : Below(from, cell) = {} /\ Below(to, cell) # {}}
<1>1. DOMAIN Populate(to) = {cell \in Cells : Below(to, cell) # {}}
  BY PopulatedCells
<1>2. ASSUME NEW cell \in Cells
      PROVE  /\ CountIn(Populate(from), cell) = On(from, cell)
             /\ CountIn(Populate(to), cell) = On(to, cell)
             /\ On(from, cell) \in Nat /\ (On(from, cell) = 0 <=> Below(from, cell) = {})
             /\ On(to, cell) \in Nat /\ (On(to, cell) = 0 <=> Below(to, cell) = {})
  <2>1. /\ Below(from, cell) \in SUBSET DOMAIN from /\ Below(to, cell) \in SUBSET DOMAIN to
    BY DEF Below
  <2>2. On(from, cell) \in Nat /\ (On(from, cell) = 0 <=> Below(from, cell) = {})
    BY <2>1, CountIsOfSome DEF On
  <2>3. On(to, cell) \in Nat /\ (On(to, cell) = 0 <=> Below(to, cell) = {})
    BY <2>1, CountIsOfSome DEF On
  <2> QED BY <2>2, <2>3, CountOfACell
<1>3. \A cell \in DOMAIN Populate(to) :
        CountIn(Populate(from), cell) <= 0 /\ CountIn(Populate(to), cell) >= 1
          <=> On(from, cell) = 0
  BY <1>1, <1>2
<1>4. Emergent(Populate(from), Populate(to)) = Apart(from, to)
  BY <1>3 DEF Emergent, Apart
<1>5. Apart(from, to) = {cell \in Cells : Below(from, cell) = {} /\ Below(to, cell) # {}}
  BY <1>1, <1>2 DEF Apart
<1> QED BY <1>4, <1>5

LEMMA NothingApart ==
  ASSUME NEW bag, IsCells(bag), NEW previous, NEW current
  PROVE  LET border == BorderOf(Populate(bag), Populate(bag), previous, current) IN
         border.upper = << >> /\ border.lower = << >>
<1>1. Emergent(Populate(bag), Populate(bag)) = {}
  BY EmergentAre
<1> DEFINE p == Populate(bag)
           border == BorderOf(p, p, previous, current)
<1>2. \A f : Restrict(f, {}) = << >>
  BY DEF Restrict
<1>3. \E f : border = [upper |-> Restrict(f, {}), lower |-> Restrict(f, {})]
  <2> DEFINE E == Emergent(p, p)
             upper == {c \in E : Parents(c) \cap E = {}}
             lower == E \ UNION {Parents(c) : c \in E}
             counts == [c \in upper \cup lower |->
                   [previous |-> CountIn(previous, c), current |-> CountIn(current, c)]]
  <2>1. border = [upper |-> Restrict(counts, upper), lower |-> Restrict(counts, lower)]
    BY DEF BorderOf
  <2>2. upper = {} /\ lower = {}
    BY <1>1
  <2> HIDE DEF upper, lower, counts, border
  <2> QED BY <2>1, <2>2
<1> HIDE DEF border
<1>4. border.upper = << >> /\ border.lower = << >>
  BY <1>2, <1>3
<1> QED BY <1>4 DEF border

(* Two cubes of the same lines are compared as one bag with itself.        *)
LEMMA SameLinesShowNothing ==
  ASSUME NEW rows, IsBase(rows), NEW a, NEW b, IsCubeOf(a, rows), IsCubeOf(b, rows)
  PROVE  LET diff == CubeDiffOf(a, b, << >>) IN
         \A border \in {diff.emerging, diff.vanishing} :
           border.upper = << >> /\ border.lower = << >>
<1> DEFINE common == MinCommonCollapse(a.state, b.state)
           base == CollapsedBase(rows, common)
           p == Populate(base)
<1>1. a.state \in States /\ b.state \in States
  BY DEF IsCubeOf
<1>2. common \in States /\ Coarser(common, a.state) /\ Coarser(common, b.state)
  BY <1>1, CommonIsCoarser
<1>3. /\ BaseOf(a) = CollapsedBase(rows, a.state) /\ BaseOf(b) = CollapsedBase(rows, b.state)
  BY CubeHasItsBase
<1> HIDE DEF common
<1>4. /\ CollapsedBase(BaseOf(a), common) = base
      /\ CollapsedBase(BaseOf(b), common) = base
  BY <1>1, <1>2, <1>3, CollapseComposes
<1>5. IsBase(base)
  BY <1>2, CollapsedCounts DEF IsCollapsed
<1> HIDE DEF base
<1>6. IsCells(base) /\ Shifted(base, << >>) = base
  BY <1>5, BasesAreCells, NothingShifted
<1> DEFINE diff == CubeDiffOf(a, b, << >>)
<1>7. diff = [state |-> common, emerging |-> BorderOf(p, p, p, p),
              vanishing |-> BorderOf(p, p, p, p)]
  BY <1>4, <1>6 DEF CubeDiffOf, common
<1>8. BorderOf(p, p, p, p).upper = << >> /\ BorderOf(p, p, p, p).lower = << >>
  BY <1>6, NothingApart
<1> HIDE DEF p, diff
<1>9. diff.emerging = BorderOf(p, p, p, p) /\ diff.vanishing = BorderOf(p, p, p, p)
  BY <1>7
<1> QED BY <1>8, <1>9 DEF diff

(* Equal lines show no difference, in either direction: no bracketing of   *)
(* compositions, no collapse and no passage over the wire makes a cell     *)
(* emerge or vanish.                                                       *)
THEOREM NothingEverEmergesOfTheSame == Spec => []NothingEmergesOfTheSame
<1>1. HeldInv => NothingEmergesOfTheSame
  <2> SUFFICES ASSUME HeldInv, NEW h \in held
               PROVE  LET diffs == {CubeDiffOf(BuildClosedCube(h.rows), h.cube, << >>),
                                    CubeDiffOf(h.cube, BuildClosedCube(h.rows), << >>)}
                      IN  \A diff \in diffs : \A border \in {diff.emerging, diff.vanishing} :
                            border.upper = << >> /\ border.lower = << >>
    BY DEF NothingEmergesOfTheSame
  <2>1. IsBase(h.rows) /\ IsCubeOf(h.cube, h.rows)
    BY DEF HeldInv
  <2>2. IsCubeOf(BuildClosedCube(h.rows), h.rows)
    BY <2>1, BuiltIsCubeOf
  <2> QED BY <2>1, <2>2, SameLinesShowNothing
<1> QED BY <1>1, HeldIsAlwaysOfItsLines, PTL

-----------------------------------------------------------------------------
(* The borders of a difference *)

Pins(cell) == Cardinality(Pinned(cell))

LEMMA PinsAreFew ==
  ASSUME NEW cell
  PROVE  IsFiniteSet(Pinned(cell)) /\ Pins(cell) \in 0..4
<1>1. IsFiniteSet(1..4) /\ Cardinality(1..4) = 4
  <2>1. IsFiniteSet({1, 2, 3}) /\ Cardinality({1, 2, 3}) = 3 /\ 4 \notin {1, 2, 3}
    BY ThreeAreThree DEF Level, Where, Role
  <2>2. IsFiniteSet({1, 2, 3} \cup {4}) /\ Cardinality({1, 2, 3} \cup {4}) = 4
    BY <2>1, CountOneMore
  <2>3. 1..4 = {1, 2, 3} \cup {4}
    BY SMT
  <2> QED BY <2>2, <2>3
<1>2. Pinned(cell) \in SUBSET (1..4)
  BY DEF Pinned, Dims
<1>3. IsFiniteSet(Pinned(cell)) /\ Cardinality(Pinned(cell)) <= 4
  BY <1>1, <1>2, FS_Subset
<1>4. Cardinality(Pinned(cell)) \in Nat
  BY <1>3, CountIsNat
<1> QED BY <1>3, <1>4 DEF Pins

LEMMA ParentIsAbove ==
  ASSUME NEW cell \in Cells, NEW parent \in Parents(cell)
  PROVE  parent \in Cells /\ IsAncestor(parent, cell) /\ Pins(parent) < Pins(cell)
<1>1. PICK dim \in Pinned(cell) : parent = Generalize(cell, Pinned(cell) \ {dim})
  BY DEF Parents
<1>2. parent \in Cells /\ IsAncestor(parent, cell)
  BY <1>1, Generalized
<1>3. Pinned(parent) \in SUBSET Pinned(cell) /\ dim \notin Pinned(parent)
  BY <1>1 DEF Pinned, Generalize
<1>4. IsFiniteSet(Pinned(cell)) /\ Pins(cell) \in 0..4 /\ Pins(parent) \in 0..4
  BY PinsAreFew
<1>5. Pins(parent) <= Pins(cell) /\ Pins(cell) # Pins(parent)
  BY <1>3, <1>4, FS_Subset DEF Pins
<1> QED BY <1>2, <1>4, <1>5

Upper(E) == {c \in E : Parents(c) \cap E = {}}

Lower(E) == E \ UNION {Parents(c) : c \in E}

(* Above every cell of a set of cells lies one without a parent in it, and *)
(* below it one without a child.                                           *)
LEMMA BordersEnclose ==
  ASSUME NEW E \in SUBSET Cells, NEW cell \in E
  PROVE  /\ \E u \in Upper(E) : IsAncestor(u, cell)
         /\ \E l \in Lower(E) : IsAncestor(cell, l)
<1>1. \A c : Pins(c) \in 0..4
  BY PinsAreFew
<1>2. \E u \in Upper(E) : IsAncestor(u, cell)
  <2> DEFINE S == {c \in E : IsAncestor(c, cell)}
             Ns == {Pins(c) : c \in S}
  <2>1. cell \in S
    BY AncestorIsReflexive
  <2>2. Ns \in SUBSET Nat /\ Ns # {}
    BY <1>1, <2>1
  <2> HIDE DEF Ns
  <2>3. PICK n \in Ns : \A k \in Ns : n <= k
    BY <2>2, LeastExists
  <2>4. PICK u \in S : n = Pins(u)
    BY <2>3 DEF Ns
  <2>5. ASSUME NEW parent \in Parents(u), parent \in E PROVE FALSE
    <3>1. IsAncestor(parent, u) /\ Pins(parent) < Pins(u) /\ IsAncestor(u, cell)
      BY <2>4, ParentIsAbove
    <3>2. parent \in S
      BY <2>5, <3>1, AncestorIsTransitive
    <3>3. n <= Pins(parent)
      BY <2>3, <3>2 DEF Ns
    <3>4. Pins(parent) \in 0..4 /\ Pins(u) \in 0..4
      BY <1>1
    <3> QED BY <2>4, <3>1, <3>3, <3>4
  <2> QED BY <2>4, <2>5 DEF Upper
<1>3. \E l \in Lower(E) : IsAncestor(cell, l)
  <2> DEFINE S == {c \in E : IsAncestor(cell, c)}
             Ns == {4 - Pins(c) : c \in S}
  <2>1. cell \in S
    BY AncestorIsReflexive
  <2>2. Ns \in SUBSET Nat /\ Ns # {}
    BY <1>1, <2>1
  <2> HIDE DEF Ns
  <2>3. PICK n \in Ns : \A k \in Ns : n <= k
    BY <2>2, LeastExists
  <2>4. PICK l \in S : n = 4 - Pins(l)
    BY <2>3 DEF Ns
  <2>5. ASSUME NEW child \in E, l \in Parents(child) PROVE FALSE
    <3>1. IsAncestor(l, child) /\ Pins(l) < Pins(child) /\ IsAncestor(cell, l)
      BY <2>4, <2>5, ParentIsAbove
    <3>2. child \in S
      BY <3>1, AncestorIsTransitive
    <3>3. n <= 4 - Pins(child)
      BY <2>3, <3>2 DEF Ns
    <3>4. Pins(child) \in 0..4 /\ Pins(l) \in 0..4
      BY <1>1
    <3> QED BY <2>4, <3>1, <3>3, <3>4
  <2> QED BY <2>4, <2>5 DEF Lower
<1> QED BY <1>2, <1>3

IsBorderOf(border, from, to, previous, current) ==
  /\ DOMAIN border.upper = Upper(Apart(from, to))
  /\ DOMAIN border.lower = Lower(Apart(from, to))
  /\ Tells(border, previous, current)

LEMMA BorderIs ==
  ASSUME NEW from, NEW to, NEW previous, NEW current, IsCells(from), IsCells(to),
         IsCells(previous), IsCells(current)
  PROVE  IsBorderOf(BorderOf(Populate(from), Populate(to), Populate(previous), Populate(current)),
                    from, to, previous, current)
<1> DEFINE E == Emergent(Populate(from), Populate(to))
           upper == {c \in E : Parents(c) \cap E = {}}
           lower == E \ UNION {Parents(c) : c \in E}
           counts == [c \in upper \cup lower |->
                        [previous |-> CountIn(Populate(previous), c),
                         current |-> CountIn(Populate(current), c)]]
           border == BorderOf(Populate(from), Populate(to), Populate(previous), Populate(current))
<1>1. border = [upper |-> Restrict(counts, upper), lower |-> Restrict(counts, lower)]
  BY DEF BorderOf
<1>2. E = Apart(from, to) /\ E \subseteq Cells
  BY EmergentAre
<1>3. upper = Upper(Apart(from, to)) /\ lower = Lower(Apart(from, to))
  BY <1>2 DEF Upper, Lower
<1>4. upper \subseteq Cells /\ lower \subseteq Cells
  BY <1>2
<1>5. \A cell \in upper \cup lower :
        counts[cell] = [previous |-> On(previous, cell), current |-> On(current, cell)]
  BY <1>4, CountOfACell
<1> HIDE DEF upper, lower, counts, border
<1>6. border.upper = Restrict(counts, upper) /\ border.lower = Restrict(counts, lower)
  BY <1>1
<1>7. /\ DOMAIN border.upper = upper /\ \A cell \in upper : border.upper[cell] = counts[cell]
      /\ DOMAIN border.lower = lower /\ \A cell \in lower : border.lower[cell] = counts[cell]
  BY <1>6 DEF Restrict
<1>8. IsBorderOf(border, from, to, previous, current)
  BY <1>3, <1>5, <1>7 DEF IsBorderOf, Tells
<1> QED BY <1>8 DEF border

(* Between the borders lie the emergent cells and no others: what lies     *)
(* below a cell without lines has none, and what lies above one with lines *)
(* has some.                                                               *)
LEMMA BetweenIsApart ==
  ASSUME NEW from, NEW to, IsCells(from), IsCells(to), NEW upper, NEW lower,
         upper = Upper(Apart(from, to)), lower = Lower(Apart(from, to)),
         NEW C, DOMAIN Populate(to) \subseteq C, C \subseteq Cells
  PROVE  {cell \in C : /\ \E u \in upper : IsAncestor(u, cell)
                       /\ \E l \in lower : IsAncestor(cell, l)} = Apart(from, to)
<1> DEFINE E == Apart(from, to)
<1>1. E = {cell \in Cells : Below(from, cell) = {} /\ Below(to, cell) # {}}
  BY EmergentAre
<1>2. E \subseteq C /\ upper \subseteq E /\ lower \subseteq E
  BY DEF Apart, Upper, Lower
<1>3. ASSUME NEW cell \in C, NEW u \in upper, NEW l \in lower,
             IsAncestor(u, cell), IsAncestor(cell, l)
      PROVE  cell \in E
  <2>1. Below(from, u) = {} /\ Below(to, l) # {}
    BY <1>1, <1>2
  <2>2. Below(from, cell) \subseteq Below(from, u) /\ Below(to, l) \subseteq Below(to, cell)
    BY <1>3, AncestorIsTransitive DEF Below
  <2> QED BY <1>1, <2>1, <2>2
<1>4. ASSUME NEW cell \in E
      PROVE  /\ cell \in C /\ \E u \in upper : IsAncestor(u, cell)
             /\ \E l \in lower : IsAncestor(cell, l)
  <2>1. E \in SUBSET Cells /\ cell \in E
    BY <1>1
  <2> HIDE DEF E
  <2>2. (\E u \in Upper(E) : IsAncestor(u, cell)) /\ \E l \in Lower(E) : IsAncestor(cell, l)
    BY <2>1, BordersEnclose
  <2> QED BY <1>2, <2>1, <2>2 DEF E
<1> QED BY <1>3, <1>4

LEMMA DiffEncloses ==
  ASSUME HeldInv, NEW g \in held, NEW h \in held, NEW shifts \in Shifts,
         NEW diff, diff = CubeDiffOf(g.cube, h.cube, shifts),
         NEW before, before = CollapsedBase(g.rows, diff.state),
         NEW after, after = Shifted(CollapsedBase(h.rows, diff.state), shifts)
  PROVE  Encloses(diff, before, after)
<1> DEFINE common == MinCommonCollapse(g.cube.state, h.cube.state)
           prev == Populate(CollapsedBase(BaseOf(g.cube), common))
           cur == Populate(Shifted(CollapsedBase(BaseOf(h.cube), common), shifts))
<1>1. /\ IsBase(g.rows) /\ IsCubeOf(g.cube, g.rows)
      /\ IsBase(h.rows) /\ IsCubeOf(h.cube, h.rows)
  BY DEF HeldInv
<1>2. g.cube.state \in States /\ h.cube.state \in States
  BY <1>1 DEF IsCubeOf
<1>3. /\ common \in States
      /\ Coarser(common, g.cube.state) /\ Coarser(common, h.cube.state)
  BY <1>2, CommonIsCoarser
<1>4. diff = [state |-> common, emerging |-> BorderOf(prev, cur, prev, cur),
              vanishing |-> BorderOf(cur, prev, prev, cur)]
  BY DEF CubeDiffOf
<1>5. /\ diff.state = common /\ diff.emerging = BorderOf(prev, cur, prev, cur)
      /\ diff.vanishing = BorderOf(cur, prev, prev, cur)
  BY <1>4
<1>6. CollapsedBase(BaseOf(g.cube), common) = CollapsedBase(g.rows, common)
  BY <1>1, <1>2, <1>3, CubeHasItsBase, CollapseComposes
<1>7. CollapsedBase(BaseOf(h.cube), common) = CollapsedBase(h.rows, common)
  BY <1>1, <1>2, <1>3, CubeHasItsBase, CollapseComposes
<1>8. prev = Populate(before) /\ cur = Populate(after)
  BY <1>5, <1>6, <1>7
<1> HIDE DEF prev, cur, common
<1>9. IsBase(CollapsedBase(g.rows, common)) /\ IsBase(CollapsedBase(h.rows, common))
  BY <1>1, <1>3, CollapsedCounts DEF IsCollapsed
<1>10. IsCells(before) /\ IsCells(after)
  BY <1>5, <1>9, BasesAreCells, ShiftedIsCells
<1>11. /\ IsBorderOf(diff.emerging, before, after, before, after)
       /\ IsBorderOf(diff.vanishing, after, before, before, after)
  BY <1>5, <1>8, <1>10, BorderIs
<1> DEFINE cells == DOMAIN Populate(before) \cup DOMAIN Populate(after)
<1>12. /\ DOMAIN Populate(before) \subseteq cells /\ DOMAIN Populate(after) \subseteq cells
       /\ cells \subseteq Cells
  BY <1>10, PopulatedCells
<1> HIDE DEF cells
<1>13. Between(diff.emerging, cells) = Apart(before, after)
  <2>1. /\ DOMAIN diff.emerging.upper = Upper(Apart(before, after))
        /\ DOMAIN diff.emerging.lower = Lower(Apart(before, after))
    BY <1>11 DEF IsBorderOf
  <2> QED BY <1>10, <1>12, <2>1, BetweenIsApart DEF Between
<1>14. Between(diff.vanishing, cells) = Apart(after, before)
  <2>1. /\ DOMAIN diff.vanishing.upper = Upper(Apart(after, before))
        /\ DOMAIN diff.vanishing.lower = Lower(Apart(after, before))
    BY <1>11 DEF IsBorderOf
  <2> QED BY <1>10, <1>12, <2>1, BetweenIsApart DEF Between
<1>15. Tells(diff.emerging, before, after) /\ Tells(diff.vanishing, before, after)
  BY <1>11 DEF IsBorderOf
<1> QED BY <1>13, <1>14, <1>15 DEF Encloses, cells

(* The difference of two cubes tells every cell that emerged and every     *)
(* cell that vanished: those between its borders, at the collapse it       *)
(* declares and with the shifts of latency marked, have lines in one       *)
(* window and none in the other, no other cell has, and the counts on the  *)
(* borders are those of the two windows.                                   *)
THEOREM BorderIsAlwaysTheEmergentSet == Spec => []BorderIsTheEmergentSet
<1>1. HeldInv => BorderIsTheEmergentSet
  <2> SUFFICES ASSUME HeldInv PROVE BorderIsTheEmergentSet
    OBVIOUS
  <2>1. ASSUME NEW g \in held, NEW h \in held, NEW shifts \in Shifts,
               NEW diff, diff = CubeDiffOf(g.cube, h.cube, shifts),
               NEW before, before = CollapsedBase(g.rows, diff.state),
               NEW after, after = Shifted(CollapsedBase(h.rows, diff.state), shifts)
        PROVE  Encloses(diff, before, after)
    BY <2>1, DiffEncloses
  <2> QED BY <2>1 DEF BorderIsTheEmergentSet
<1> QED BY <1>1, HeldIsAlwaysOfItsLines, PTL

-----------------------------------------------------------------------------
(* The budget *)

(* A cell a cube stores is what some lines have in common, so without the  *)
(* components no more are stored than the assumption admits.               *)
LEMMA FitsWithoutComponents ==
  ASSUME NEW rows, IsBase(rows), DOMAIN rows \subseteq Lines,
         NEW state \in States, state.depth = 0
  PROVE  CellsAt(rows, state) <= CellBudget
<1> DEFINE base == CollapsedBase(rows, state)
           image == {CollapseCell(r, state) : r \in Lines}
           cells == Decidable(state)
<1>1. IsFiniteSet(cells) /\ Cardinality(cells) <= CellBudget
  <2>1. state = [floor |-> state.floor, depth |-> 0] /\ state.floor \in {0, 2, 3, 4}
    BY DEF States
  <2> QED BY <2>1, BudgetAssumption
<1>2. DOMAIN base \subseteq image
  BY DEF CollapsedBase
<1>3. cells = {Meet(part) : part \in (SUBSET image) \ {{}}}
  BY DEF Decidable
<1>4. IsCells(base)
  BY CollapsedCounts, BasesAreCells DEF IsCollapsed
<1> HIDE DEF base, image, cells
<1>5. DOMAIN Closed(base) \subseteq cells
  <2> SUFFICES ASSUME NEW cell \in DOMAIN Closed(base) PROVE cell \in cells
    OBVIOUS
  <2>1. Below(base, cell) # {} /\ Meet(Below(base, cell)) = cell
    BY <1>4, ClosedCells
  <2>2. Below(base, cell) \subseteq image
    BY <1>2 DEF Below
  <2> QED BY <1>3, <2>1, <2>2
<1>6. Cardinality(DOMAIN Closed(base)) <= Cardinality(cells)
  BY <1>1, <1>5, PartIsFewer
<1>7. Cardinality(DOMAIN Closed(base)) \in Nat /\ Cardinality(cells) \in Nat
  BY <1>1, <1>4, CountIsNat, ClosedCells
<1>8. CellsAt(rows, state) = Cardinality(DOMAIN Closed(base))
  BY DEF CellsAt, base
<1> QED BY <1>1, <1>6, <1>7, <1>8, CubeAssumption

LEMMA BoundedMeetsBudget ==
  ASSUME NEW rows, IsBase(rows), DOMAIN rows \subseteq Lines, NEW base, IsBase(base),
         NEW s \in States, CollapsesAs(base, rows, s)
  PROVE  Cardinality(DOMAIN BuildBoundedCube(base, s).cells) <= CellBudget
<1>1. FitsWithout(base, s)
  <2> SUFFICES ASSUME NEW t \in States, Coarser(t, s), t.depth = 0
               PROVE  CellsAt(base, t) <= CellBudget
    BY DEF FitsWithout
  <2>1. CellsAt(base, t) = CellsAt(rows, t)
    BY DEF CollapsesAs, CellsAt
  <2> QED BY <2>1, FitsWithoutComponents
<1>2. CellsAt(base, CollapsedTo(base, s)) <= CellBudget
  BY <1>1, LoopMeetsBudget
<1> QED BY <1>2 DEF BuildBoundedCube, CellsAt

LEMMA ComposedMeetsBudget ==
  ASSUME NEW r, NEW q, IsBase(r), IsBase(q), NEW a, NEW b, IsCubeOf(a, r), IsCubeOf(b, q),
         DOMAIN (r (+) q) \subseteq Lines
  PROVE  Cardinality(DOMAIN ComposeCubes(a, b).cells) <= CellBudget
BY ComposedIsBounded, BoundedMeetsBudget

BudgetInv ==
  \A h \in held : DOMAIN h.rows \subseteq Lines /\ Cardinality(DOMAIN h.cube.cells) <= CellBudget

(* However many components the lines have and however the cubes are        *)
(* composed, none exceeds its budget: the greedy loop may stop at a state  *)
(* from which no single step saves a cell, but never above the budget.     *)
THEOREM BudgetIsAlwaysMet == Spec => []BudgetIsMet
<1>1. Init => BudgetInv
  BY DEF Init, BudgetInv
<1>2. HeldInv /\ BudgetInv /\ [Next]_vars => BudgetInv'
  <2> SUFFICES ASSUME HeldInv, BudgetInv, [Next]_vars PROVE BudgetInv'
    OBVIOUS
  <2> DEFINE Says(h) == /\ h = [rows |-> h.rows, cube |-> h.cube]
                        /\ IsBase(h.rows) /\ IsCubeOf(h.cube, h.rows)
             Fits(h) == /\ DOMAIN h.rows \subseteq Lines
                        /\ Cardinality(DOMAIN h.cube.cells) <= CellBudget
  <2>1. ASSUME NEW rows \in Windows, Build(rows) PROVE BudgetInv'
    <3> DEFINE new == [rows |-> rows, cube |-> BuildClosedCube(rows)]
    <3>1. IsBase(rows) /\ DOMAIN rows \subseteq Lines /\ held' = held \cup {new}
      BY <2>1, CubeLadderAssumption DEF Build, Lines
    <3>2. new.rows = rows /\ new.cube = BuildClosedCube(rows)
      OBVIOUS
    <3>3. CollapsesAs(rows, rows, Full)
      BY DEF CollapsesAs
    <3>4. Cardinality(DOMAIN BuildClosedCube(rows).cells) <= CellBudget
      BY <3>1, <3>3, FullIsAState, BoundedMeetsBudget DEF BuildClosedCube
    <3> HIDE DEF new
    <3> QED BY <3>1, <3>2, <3>4 DEF BudgetInv
  <2>2. ASSUME NEW h \in held, Wire(h) PROVE BudgetInv'
    <3> DEFINE new == [h EXCEPT !.cube = [@ EXCEPT !.base = NoBase]]
    <3>1. Says(h) /\ Fits(h) /\ held' = (held \ {h}) \cup {new}
      BY <2>2 DEF HeldInv, BudgetInv, Wire
    <3>2. h.cube = [cells |-> h.cube.cells, base |-> h.cube.base, state |-> h.cube.state]
      BY <3>1 DEF IsCubeOf
    <3>3. new = [rows |-> h.rows, cube |-> [h.cube EXCEPT !.base = NoBase]]
      BY <3>1
    <3>4. new.rows = h.rows /\ new.cube.cells = h.cube.cells
      BY <3>2, <3>3
    <3> HIDE DEF new
    <3> QED BY <3>1, <3>4 DEF BudgetInv
  <2>3. ASSUME NEW g \in held, NEW h \in held, Merge(g, h) PROVE BudgetInv'
    <3> DEFINE new == [rows |-> g.rows (+) h.rows, cube |-> ComposeCubes(g.cube, h.cube)]
    <3>1. Says(g) /\ Says(h) /\ Fits(g) /\ Fits(h) /\ held' = (held \ {g, h}) \cup {new}
      BY <2>3 DEF HeldInv, BudgetInv, Merge
    <3>2. new.rows = g.rows (+) h.rows /\ new.cube = ComposeCubes(g.cube, h.cube)
      OBVIOUS
    <3>3. DOMAIN (g.rows (+) h.rows) \subseteq Lines
      BY <3>1 DEF (+)
    <3>4. Cardinality(DOMAIN ComposeCubes(g.cube, h.cube).cells) <= CellBudget
      BY <3>1, <3>3, ComposedMeetsBudget
    <3> HIDE DEF new
    <3> QED BY <3>1, <3>2, <3>3, <3>4 DEF BudgetInv
  <2>4. CASE UNCHANGED vars
    BY <2>4 DEF vars, BudgetInv
  <2> QED BY <2>1, <2>2, <2>3, <2>4 DEF Next
<1>3. BudgetInv => BudgetIsMet
  BY DEF BudgetInv, BudgetIsMet, CubeCardinality
<1> QED BY <1>1, <1>2, <1>3, HeldIsAlwaysOfItsLines, PTL DEF Spec

-----------------------------------------------------------------------------
(* Sketches *)

(* The greatest rank offered to a register by the values seen, 0 when none *)
(* was.                                                                    *)
IsTop(rank, values, index) ==
  /\ rank \in Nat
  /\ \A v \in values : RegisterUpdate[v].index = index => RegisterUpdate[v].rank <= rank
  /\ rank = 0 \/ \E v \in values : RegisterUpdate[v].index = index /\ RegisterUpdate[v].rank = rank

Selected(values) == {RegisterUpdate[v].index : v \in values}

IsStore(store, values) ==
  /\ DOMAIN store \subseteq Registers
  /\ Selected(values) \subseteq DOMAIN store
  /\ \A index \in Registers : IsTop(Register(store, index), values, index)

IsSketchOf(sketch, values) ==
  /\ IsStore(sketch.store, values)
  /\ sketch.dense => DOMAIN sketch.store = Registers
  /\ ~sketch.dense => /\ DOMAIN sketch.store = Selected(values)
                      /\ Cardinality(DOMAIN sketch.store) <= SparseMaxEntries

LEMMA UpdateIs ==
  ASSUME NEW v \in DOMAIN RegisterUpdate
  PROVE  RegisterUpdate[v].index \in Registers /\ RegisterUpdate[v].rank \in Nat \ {0}
BY FieldTablesAssumption

LEMMA MaxOfTwo ==
  ASSUME NEW m \in Nat, NEW n \in Nat
  PROVE  Max({m, n}) = IF m >= n THEN m ELSE n
<1> DEFINE S == {m, n}
           top == IF m >= n THEN m ELSE n
<1>1. top \in S /\ (\A y \in S : top >= y) /\ \A x \in S : (\A y \in S : x >= y) => x = top
  OBVIOUS
<1> HIDE DEF S, top
<1>2. Max(S) = top
  BY <1>1 DEF Max
<1> QED BY <1>2 DEF S, top

(* One value more, in either store.                                        *)
LEMMA OfferedIsStore ==
  ASSUME NEW values \in SUBSET DOMAIN RegisterUpdate, NEW store, IsStore(store, values),
         NEW v \in DOMAIN RegisterUpdate
  PROVE  /\ IsStore(Offered(store, RegisterUpdate[v]), values \cup {v})
         /\ DOMAIN Offered(store, RegisterUpdate[v]) = DOMAIN store \cup {RegisterUpdate[v].index}
<1> DEFINE update == RegisterUpdate[v]
           new == Offered(store, update)
<1>1. update.index \in Registers /\ update.rank \in Nat \ {0}
  BY UpdateIs
<1>2. DOMAIN new = DOMAIN store \cup {update.index}
  BY DEF Offered
<1>3. ASSUME NEW index \in Registers, index # update.index
      PROVE  IsTop(Register(new, index), values \cup {v}, index)
  <2>1. Register(new, index) = Register(store, index)
    BY <1>3 DEF Offered, Register
  <2>2. IsTop(Register(store, index), values, index)
    BY DEF IsStore
  <2> QED BY <1>3, <2>1, <2>2 DEF IsTop
<1>4. IsTop(Register(new, update.index), values \cup {v}, update.index)
  <2> DEFINE old == Register(store, update.index)
  <2>1. IsTop(old, values, update.index) /\ old \in Nat
    BY <1>1 DEF IsStore, IsTop
  <2>2. Register(new, update.index) = Max({old, update.rank})
    BY DEF Offered, Register
  <2>3. Register(new, update.index) = IF old >= update.rank THEN old ELSE update.rank
    BY <1>1, <2>1, <2>2, MaxOfTwo
  <2> HIDE DEF old, new
  <2>4. \A u \in values \cup {v} : RegisterUpdate[u].index = update.index =>
          RegisterUpdate[u].rank <= Register(new, update.index)
    <3> SUFFICES ASSUME NEW u \in values \cup {v}, RegisterUpdate[u].index = update.index
                 PROVE  RegisterUpdate[u].rank <= Register(new, update.index)
      OBVIOUS
    <3>1. RegisterUpdate[u].rank \in Nat
      BY UpdateIs
    <3>2. u = v \/ RegisterUpdate[u].rank <= old
      BY <2>1 DEF IsTop
    <3> QED BY <1>1, <2>1, <2>3, <3>1, <3>2
  <2> QED BY <1>1, <2>1, <2>3, <2>4 DEF IsTop
<1>5. Selected(values \cup {v}) = Selected(values) \cup {update.index}
  BY DEF Selected
<1> HIDE DEF new, update
<1>6. IsStore(new, values \cup {v})
  BY <1>1, <1>2, <1>3, <1>4, <1>5 DEF IsStore
<1> QED BY <1>2, <1>6 DEF new, update

LEMMA SelectedCount ==
  ASSUME NEW values, IsFiniteSet(values)
  PROVE  IsFiniteSet(Selected(values)) /\ Cardinality(Selected(values)) <= Cardinality(values)
         /\ Cardinality(Selected(values)) \in Nat
<1> DEFINE g == [v \in values |-> RegisterUpdate[v].index]
           T == {g[v] : v \in values}
<1>1. T = Selected(values)
  BY DEF Selected
<1> HIDE DEF g
<1>3. IsFiniteSet(T) /\ Cardinality(T) <= Cardinality(values)
  BY ImageBound
<1> HIDE DEF T
<1> QED BY <1>1, <1>3, CountIsNat

LEMMA AddedToSketch ==
  ASSUME NEW values \in SUBSET DOMAIN RegisterUpdate, IsFiniteSet(values), NEW sketch,
         IsSketchOf(sketch, values), NEW v \in DOMAIN RegisterUpdate
  PROVE  IsSketchOf(AddToSketch(sketch, v), values \cup {v})
<1> DEFINE update == RegisterUpdate[v]
           new == AddToSketch(sketch, v)
           both == values \cup {v}
<1>1. update.index \in Registers /\ update.rank \in Nat \ {0}
  BY UpdateIs
<1>2. IsStore(sketch.store, values) /\ Selected(both) = Selected(values) \cup {update.index}
  BY DEF IsSketchOf, Selected
<1>3. ASSUME Overflows(sketch, update) PROVE IsSketchOf(new, both)
  <2>1. new.dense = TRUE /\ new.store = Offered(RegistersOf(sketch), update)
    BY <1>3 DEF AddToSketch
  <2>2. IsStore(RegistersOf(sketch), values) /\ DOMAIN RegistersOf(sketch) = Registers
    <3>1. DOMAIN RegistersOf(sketch) = Registers
      BY DEF RegistersOf
    <3>2. \A index \in Registers : Register(RegistersOf(sketch), index) = Register(sketch.store, index)
      BY DEF RegistersOf, Register
    <3> QED BY <1>2, <3>1, <3>2 DEF IsStore
  <2>3. /\ IsStore(Offered(RegistersOf(sketch), update), both)
        /\ DOMAIN Offered(RegistersOf(sketch), update) = Registers \cup {update.index}
    BY <2>2, OfferedIsStore
  <2> HIDE DEF new, both
  <2>4. IsStore(new.store, both) /\ DOMAIN new.store = Registers
    BY <1>1, <2>1, <2>3
  <2> QED BY <2>1, <2>4, Zenon DEF IsSketchOf
<1>4. ASSUME ~Overflows(sketch, update) PROVE IsSketchOf(new, both)
  <2>1. new.dense = sketch.dense /\ new.store = Offered(sketch.store, update)
    BY <1>4 DEF AddToSketch
  <2>0. /\ IsStore(Offered(sketch.store, update), both)
        /\ DOMAIN Offered(sketch.store, update) = DOMAIN sketch.store \cup {update.index}
    BY <1>2, OfferedIsStore
  <2> HIDE DEF new, both
  <2>2. IsStore(new.store, both) /\ DOMAIN new.store = DOMAIN sketch.store \cup {update.index}
    BY <2>0, <2>1
  <2>3. CASE sketch.dense
    <3>1. DOMAIN sketch.store = Registers
      BY <2>3, Zenon DEF IsSketchOf
    <3>2. DOMAIN new.store = Registers
      BY <1>1, <2>2, <3>1
    <3> QED BY <2>1, <2>2, <2>3, <3>2, Zenon DEF IsSketchOf
  <2>4. CASE ~sketch.dense
    <3>1. /\ DOMAIN sketch.store = Selected(values)
          /\ Cardinality(DOMAIN sketch.store) <= SparseMaxEntries
      BY <2>4, Zenon DEF IsSketchOf
    <3>2. IsFiniteSet(DOMAIN sketch.store) /\ Cardinality(DOMAIN sketch.store) \in Nat
      BY <3>1, SelectedCount
    <3>3. Cardinality(DOMAIN new.store) <= SparseMaxEntries
      <4>1. update.index \in DOMAIN sketch.store
            \/ Cardinality(DOMAIN sketch.store) # SparseMaxEntries
        BY <1>4, <2>4 DEF Overflows
      <4>2. Cardinality(DOMAIN new.store)
              = IF update.index \in DOMAIN sketch.store THEN Cardinality(DOMAIN sketch.store)
                ELSE Cardinality(DOMAIN sketch.store) + 1
        BY <2>2, <3>2, CountOneMore
      <4> QED BY <3>1, <3>2, <4>1, <4>2, FieldTablesAssumption
    <3>4. DOMAIN new.store = Selected(both)
      BY <1>2, <2>2, <3>1
    <3> QED BY <2>1, <2>2, <2>4, <3>3, <3>4, Zenon DEF IsSketchOf
  <2> QED BY <2>3, <2>4
<1> QED BY <1>3, <1>4

LEMMA EmptyIsSketch == IsSketchOf(EmptySketch, {})
<1>1. EmptySketch.dense = FALSE /\ EmptySketch.store = << >> /\ DOMAIN << >> = {}
  BY DEF EmptySketch
<1>2. \A index : Register(<< >>, index) = 0
  BY <1>1 DEF Register
<1>3. Selected({}) = {}
  BY DEF Selected
<1>4. Cardinality({}) <= SparseMaxEntries
  BY EmptyCount, FieldTablesAssumption
<1>5. IsStore(<< >>, {})
  BY <1>1, <1>2, <1>3 DEF IsStore, IsTop
<1> QED BY <1>1, <1>3, <1>4, <1>5, Zenon DEF IsSketchOf

(* The estimate counts the registers the values selected.                  *)
LEMMA EstimateIs ==
  ASSUME NEW values \in SUBSET DOMAIN RegisterUpdate, NEW sketch, IsSketchOf(sketch, values)
  PROVE  Estimate(sketch) = Cardinality(Selected(values))
<1>1. CASE sketch.dense
  <2>1. \A index \in Registers : sketch.store[index] = Register(sketch.store, index)
    BY <1>1 DEF IsSketchOf, Register
  <2>2. \A index \in Registers : sketch.store[index] > 0 <=> index \in Selected(values)
    <3> SUFFICES ASSUME NEW index \in Registers
                 PROVE  Register(sketch.store, index) > 0 <=> index \in Selected(values)
      BY <2>1
    <3>1. IsTop(Register(sketch.store, index), values, index)
      BY DEF IsSketchOf, IsStore
    <3>2. \A v \in values : RegisterUpdate[v].rank \in Nat \ {0}
      BY UpdateIs
    <3> QED BY <3>1, <3>2 DEF IsTop, Selected
  <2>3. Selected(values) \subseteq Registers
    BY UpdateIs DEF Selected
  <2>4. {index \in Registers : sketch.store[index] > 0} = Selected(values)
    BY <2>2, <2>3
  <2> QED BY <1>1, <2>4 DEF Estimate
<1>2. CASE ~sketch.dense
  BY <1>2 DEF IsSketchOf, Estimate
<1> QED BY <1>1, <1>2

-----------------------------------------------------------------------------
(* The events that fill a slot *)

OfEvents(events) == IsFiniteBag(events) /\ DOMAIN events \subseteq Events

Fills(e, t, i) == e.template = t /\ i <= Len(e.params)

Putting(t, i, keys) == {e \in Events : Fills(e, t, i) /\ WellFormed[e.params[i]] \in keys}

LEMMA ParamsAre ==
  ASSUME NEW e \in Events
  PROVE  /\ e.params \in Seq(DOMAIN WellFormed) /\ Len(e.params) \in Nat
         /\ \A i \in Nat \ {0} : i <= Len(e.params) =>
              /\ e.params[i] \in DOMAIN RegisterUpdate
              /\ WellFormed[e.params[i]] \in Range(WellFormed)
<1>1. e \in Event
  BY FieldLadderAssumption
<1>2. e.params \in Seq(DOMAIN WellFormed)
  BY <1>1 DEF Event
<1>3. ASSUME NEW i \in Nat \ {0}, i <= Len(e.params)
      PROVE  e.params[i] \in DOMAIN WellFormed
  BY <1>2, <1>3
<1>4. DOMAIN WellFormed = DOMAIN RegisterUpdate
  BY FieldTablesAssumption
<1> QED BY <1>2, <1>3, <1>4 DEF Range

LEMMA KeysAreNumbers == Range(WellFormed) \subseteq Nat
BY FieldTablesAssumption DEF Range

LEMMA TimesIs ==
  ASSUME NEW events, OfEvents(events), NEW t, NEW i, NEW keys
  PROVE  /\ Times(events, t, i, keys)
              = SumFunctionOnSet(events, DOMAIN events \cap Putting(t, i, keys))
         /\ Times(events, t, i, keys) \in Nat
<1> DEFINE S == DOMAIN events \cap Putting(t, i, keys)
<1>1. {e \in Filling(events, t, i) : WellFormed[e.params[i]] \in keys} = S
  BY DEF Filling, Putting, Fills, OfEvents
<1>2. IsFiniteSet(S)
  <2>1. S \in SUBSET DOMAIN events /\ IsFiniteSet(DOMAIN events)
    BY DEF OfEvents, IsFiniteBag
  <2> QED BY <2>1, PartIsFinite
<1>3. \A e \in S : events[e] \in Nat
  BY DEF OfEvents, IsFiniteBag
<1> HIDE DEF S
<1>4. SumFunctionOnSet(events, S) \in Nat
  BY <1>2, <1>3, SumIsNat
<1>5. Times(events, t, i, keys) = SumFunctionOnSet(events, S)
  BY <1>1 DEF Times
<1> QED BY <1>4, <1>5 DEF S

LEMMA TimesOneMore ==
  ASSUME NEW events, OfEvents(events), NEW e \in Events, NEW new, OneMore(events, new, e)
  PROVE  /\ OfEvents(new)
         /\ \A t, i, keys :
              Times(new, t, i, keys)
                = Times(events, t, i, keys) + (IF e \in Putting(t, i, keys) THEN 1 ELSE 0)
<1>1. IsFiniteBag(new)
  BY OneMoreSum DEF OfEvents
<1>2. OfEvents(new)
  BY <1>1 DEF OfEvents, OneMore
<1>3. ASSUME NEW t, NEW i, NEW keys
      PROVE  Times(new, t, i, keys)
               = Times(events, t, i, keys) + (IF e \in Putting(t, i, keys) THEN 1 ELSE 0)
  <2> DEFINE P == Putting(t, i, keys)
  <2>1. /\ Times(new, t, i, keys) = SumFunctionOnSet(new, DOMAIN new \cap P)
        /\ Times(events, t, i, keys) = SumFunctionOnSet(events, DOMAIN events \cap P)
    BY <1>2, TimesIs
  <2> HIDE DEF P
  <2>2. SumFunctionOnSet(new, DOMAIN new \cap P)
          = SumFunctionOnSet(events, DOMAIN events \cap P) + (IF e \in P THEN 1 ELSE 0)
    BY OneMoreInPart DEF OfEvents
  <2> QED BY <2>1, <2>2 DEF P
<1> QED BY <1>2, <1>3

LEMMA ValuesOneMore ==
  ASSUME NEW events, NEW e, NEW new, OneMore(events, new, e), NEW t, NEW i
  PROVE  Values(new, t, i) = Values(events, t, i) \cup (IF Fills(e, t, i) THEN {e.params[i]} ELSE {})
<1>1. Filling(new, t, i) = Filling(events, t, i) \cup (IF Fills(e, t, i) THEN {e} ELSE {})
  BY DEF Filling, Fills, OneMore
<1> QED BY <1>1 DEF Values

LEMMA ValuesAre ==
  ASSUME NEW events, OfEvents(events), NEW t, NEW i \in Nat \ {0}
  PROVE  /\ Values(events, t, i) \in SUBSET DOMAIN RegisterUpdate
         /\ IsFiniteSet(Values(events, t, i))
<1> DEFINE F == Filling(events, t, i)
           f == [e \in F |-> e.params[i]]
<1>1. IsFiniteSet(F)
  <2>1. F \in SUBSET DOMAIN events /\ IsFiniteSet(DOMAIN events)
    BY DEF Filling, OfEvents, IsFiniteBag
  <2> QED BY <2>1, PartIsFinite
<1>2. \A e \in F : e \in Events /\ i <= Len(e.params)
  BY DEF Filling, OfEvents
<1>3. \A e \in F : e.params[i] \in DOMAIN RegisterUpdate
  BY <1>2, ParamsAre
<1>4. Values(events, t, i) = {f[e] : e \in F}
  BY DEF Values
<1> HIDE DEF f
<1>5. IsFiniteSet({f[e] : e \in F})
  BY <1>1, ImageBound
<1> QED BY <1>3, <1>4, <1>5 DEF f

LEMMA UnseenTimes ==
  ASSUME NEW events, NEW t, NEW i, Values(events, t, i) = {}, NEW keys
  PROVE  Times(events, t, i, keys) = 0
<1>1. Filling(events, t, i) = {}
  BY DEF Values
<1>2. {e \in Filling(events, t, i) : WellFormed[e.params[i]] \in keys} = {}
  BY <1>1
<1> QED BY <1>2, SumEmpty DEF Times

-----------------------------------------------------------------------------
(* A table of a slot *)

(* What a table that is admitted at most cap keys says of the events.      *)
IsTabled(slot, events, t, i, cap) ==
  /\ IsFiniteBag(slot.values)
  /\ DOMAIN slot.values \subseteq Range(WellFormed)
  /\ slot.total = Times(events, t, i, Range(WellFormed))
  /\ \A key \in DOMAIN slot.values : slot.values[key] <= Times(events, t, i, {key})
  /\ Cardinality(DOMAIN slot.values) < cap =>
       \A key \in Range(WellFormed) : Kept(slot.values, key) = Times(events, t, i, {key})

IsFieldSlot(slot, events, t, i, cap) ==
  /\ IsTabled(slot, events, t, i, cap)
  /\ Cardinality(DOMAIN slot.values) <= cap
  /\ IsSketchOf(slot.sketch, Values(events, t, i))

LEMMA EmptyFieldSlot ==
  ASSUME NEW events, NEW t, NEW i, Values(events, t, i) = {}, NEW cap \in Nat
  PROVE  IsFieldSlot(EmptySlot, events, t, i, cap)
<1>1. EmptySlot.total = 0 /\ EmptySlot.values = << >> /\ EmptySlot.sketch = EmptySketch
  BY DEF EmptySlot
<1>2. \A keys : Times(events, t, i, keys) = 0
  BY UnseenTimes
<1>3. DOMAIN << >> = {} /\ IsFiniteBag(<< >>) /\ Cardinality({}) = 0
  BY EmptyBagSum, EmptyCount
<1>4. \A key : Kept(<< >>, key) = 0
  BY <1>3 DEF Kept
<1> QED BY <1>1, <1>2, <1>3, <1>4, EmptyIsSketch DEF IsFieldSlot, IsTabled

(* An event that does not fill the slot.                                   *)
LEMMA FieldSlotKept ==
  ASSUME NEW events, OfEvents(events), NEW e \in Events, NEW new, OneMore(events, new, e),
         NEW t, NEW i, ~Fills(e, t, i), NEW cap, NEW slot, IsFieldSlot(slot, events, t, i, cap)
  PROVE  IsFieldSlot(slot, new, t, i, cap)
<1>1. \A keys : Times(new, t, i, keys) = Times(events, t, i, keys)
  <2>1. \A keys : e \notin Putting(t, i, keys) /\ Times(events, t, i, keys) \in Nat
    BY TimesIs DEF Putting
  <2> QED BY <2>1, TimesOneMore
<1>2. Values(new, t, i) = Values(events, t, i)
  BY ValuesOneMore
<1> QED BY <1>1, <1>2 DEF IsFieldSlot, IsTabled

LEMMA BagAdded ==
  ASSUME NEW bag, IsFiniteBag(bag), NEW x, NEW new, new = bag (+) SetToBag({x})
  PROVE  OneMore(bag, new, x)
<1> DEFINE one == SetToBag({x})
<1>1. bag \in [DOMAIN bag -> Nat \ {0}]
  BY DEF IsFiniteBag
<1>2. one = [e \in {x} |-> 1]
  BY DEF SetToBag
<1>3. IsABag(bag) /\ IsABag(one) /\ DOMAIN one = {x} /\ one[x] = 1
  BY <1>1, <1>2 DEF IsABag
<1> HIDE DEF one
<1>4. IsABag(new) /\ DOMAIN new = DOMAIN bag \cup {x} /\ IsUnionSum(new, bag, one)
  BY <1>3, BagsJoin DEF one
<1>5. \A y \in DOMAIN new : new[y] = At(bag, y) + At(one, y)
  BY <1>4 DEF IsUnionSum
<1>6. \A y \in DOMAIN new : new[y] = IF y = x THEN At(bag, x) + 1 ELSE bag[y]
  BY <1>1, <1>3, <1>4, <1>5 DEF At
<1> QED BY <1>1, <1>4, <1>6 DEF OneMore, At, IsABag

(* A value that fills it is counted, and tabled if it may be.              *)
LEMMA FieldSlotObserves ==
  ASSUME NEW events, OfEvents(events), NEW e \in Events, NEW new, OneMore(events, new, e),
         NEW i \in Nat \ {0}, i <= Len(e.params), NEW cap \in Nat, NEW slot,
         IsFieldSlot(slot, events, e.template, i, cap)
  PROVE  IsFieldSlot(ObserveValue(slot, e.params[i], cap), new, e.template, i, cap)
<1> DEFINE t == e.template
           v == e.params[i]
           key == WellFormed[v]
           old == slot.values
           next == ObserveValue(slot, v, cap)
           admitted == key \in DOMAIN old \/ Cardinality(DOMAIN old) < cap
<1>1. /\ v \in DOMAIN RegisterUpdate /\ key \in Range(WellFormed)
      /\ Fills(e, t, i)
  BY ParamsAre DEF Fills
<1>2. \A k : Times(new, t, i, {k}) = Times(events, t, i, {k}) + (IF k = key THEN 1 ELSE 0)
  <2> SUFFICES ASSUME NEW k
               PROVE  Times(new, t, i, {k}) = Times(events, t, i, {k}) + (IF k = key THEN 1 ELSE 0)
    OBVIOUS
  <2>1. e \in Putting(t, i, {k}) <=> k = key
    BY <1>1 DEF Putting
  <2>2. Times(new, t, i, {k})
          = Times(events, t, i, {k}) + (IF e \in Putting(t, i, {k}) THEN 1 ELSE 0)
    BY TimesOneMore
  <2> HIDE DEF t, key
  <2> QED BY <2>1, <2>2
<1>3. Times(new, t, i, Range(WellFormed)) = Times(events, t, i, Range(WellFormed)) + 1
  <2>1. e \in Putting(t, i, Range(WellFormed))
    BY <1>1 DEF Putting
  <2> QED BY <2>1, TimesOneMore
<1>4. \A keys : Times(events, t, i, keys) \in Nat
  BY TimesIs
<1>5. /\ next.total = slot.total + 1
      /\ next.values = IF admitted THEN old (+) SetToBag({key}) ELSE old
      /\ next.sketch = AddToSketch(slot.sketch, v)
  BY DEF ObserveValue
<1>6. /\ IsFiniteBag(old) /\ DOMAIN old \subseteq Range(WellFormed)
      /\ Cardinality(DOMAIN old) <= cap /\ slot.total = Times(events, t, i, Range(WellFormed))
      /\ \A k \in DOMAIN old : old[k] <= Times(events, t, i, {k})
      /\ Cardinality(DOMAIN old) < cap =>
           \A k \in Range(WellFormed) : Kept(old, k) = Times(events, t, i, {k})
      /\ IsSketchOf(slot.sketch, Values(events, t, i))
  BY DEF IsFieldSlot, IsTabled
<1>7. \A k \in DOMAIN old : old[k] \in Nat
  BY <1>6 DEF IsFiniteBag
<1>8. IsFiniteSet(DOMAIN old) /\ Cardinality(DOMAIN old) \in Nat
  BY <1>6, CountIsNat DEF IsFiniteBag
<1>9. IsSketchOf(next.sketch, Values(new, t, i))
  <2>1. Values(new, t, i) = Values(events, t, i) \cup {v}
    BY <1>1, ValuesOneMore
  <2>2. /\ Values(events, t, i) \in SUBSET DOMAIN RegisterUpdate
        /\ IsFiniteSet(Values(events, t, i))
    BY ValuesAre
  <2>3. IsSketchOf(AddToSketch(slot.sketch, v), Values(events, t, i) \cup {v})
    BY <1>1, <1>6, <2>2, AddedToSketch
  <2> QED BY <1>5, <2>1, <2>3
<1> HIDE DEF next, v, t, key, old
<1>10. ASSUME admitted PROVE IsFieldSlot(next, new, t, i, cap)
  <2>1. next.values = old (+) SetToBag({key})
    BY <1>5, <1>10
  <2>2. OneMore(old, next.values, key)
    BY <1>6, <2>1, BagAdded
  <2>3. IsFiniteBag(next.values)
    BY <1>6, <2>2, OneMoreSum
  <2>4. Cardinality(DOMAIN next.values)
          = IF key \in DOMAIN old THEN Cardinality(DOMAIN old) ELSE Cardinality(DOMAIN old) + 1
    BY <1>8, <2>2, CountOneMore DEF OneMore
  <2>5. DOMAIN next.values \subseteq Range(WellFormed)
    BY <1>1, <1>6, <2>2 DEF OneMore
  <2>6. \A k \in DOMAIN next.values : next.values[k] <= Times(new, t, i, {k})
    <3> SUFFICES ASSUME NEW k \in DOMAIN next.values
                 PROVE  next.values[k] <= Times(new, t, i, {k})
      OBVIOUS
    <3>0. Times(events, t, i, {k}) \in Nat
      BY <1>4
    <3>1. CASE k = key
      <4>1. next.values[k] = IF k \in DOMAIN old THEN old[k] + 1 ELSE 1
        BY <2>2, <3>1 DEF OneMore
      <4>2. Times(new, t, i, {k}) = Times(events, t, i, {k}) + 1
        BY <1>2, <3>1
      <4>3. k \in DOMAIN old => old[k] \in Nat /\ old[k] <= Times(events, t, i, {k})
        BY <1>6, <1>7
      <4> QED BY <3>0, <4>1, <4>2, <4>3
    <3>2. CASE k # key
      <4>1. k \in DOMAIN old /\ next.values[k] = old[k]
        BY <2>2, <3>2 DEF OneMore
      <4>2. Times(new, t, i, {k}) = Times(events, t, i, {k}) + 0
        BY <1>2, <3>2
      <4> QED BY <1>6, <3>0, <4>1, <4>2
    <3> QED BY <3>1, <3>2
  <2>7. ASSUME Cardinality(DOMAIN next.values) < cap, NEW k \in Range(WellFormed)
        PROVE  Kept(next.values, k) = Times(new, t, i, {k})
    <3>1. Kept(old, k) = Times(events, t, i, {k})
      BY <1>6, <1>8, <2>4, <2>7
    <3>2. Kept(next.values, k) = Kept(old, k) + (IF k = key THEN 1 ELSE 0)
      BY <1>7, <2>2 DEF OneMore, Kept
    <3> QED BY <1>2, <3>1, <3>2
  <2>8. Cardinality(DOMAIN next.values) <= cap
    BY <1>6, <1>8, <1>10, <2>4
  <2>9. next.total = Times(new, t, i, Range(WellFormed))
    BY <1>3, <1>5, <1>6
  <2>10. IsTabled(next, new, t, i, cap)
    BY <2>3, <2>5, <2>6, <2>7, <2>9 DEF IsTabled
  <2> QED BY <1>9, <2>8, <2>10 DEF IsFieldSlot
<1>11. ASSUME ~admitted PROVE IsFieldSlot(next, new, t, i, cap)
  <2>1. next.values = old
    BY <1>5, <1>11
  <2>2. ~(Cardinality(DOMAIN old) < cap)
    BY <1>11
  <2>3. ASSUME NEW k \in DOMAIN old PROVE old[k] <= Times(new, t, i, {k})
    <3>1. old[k] \in Nat /\ old[k] <= Times(events, t, i, {k}) /\ Times(events, t, i, {k}) \in Nat
      BY <1>4, <1>6, <1>7
    <3>2. Times(new, t, i, {k}) = Times(events, t, i, {k}) + (IF k = key THEN 1 ELSE 0)
      BY <1>2
    <3> QED BY <3>1, <3>2
  <2>4. IsTabled(next, new, t, i, cap)
    BY <1>3, <1>5, <1>6, <2>1, <2>2, <2>3 DEF IsTabled
  <2>5. Cardinality(DOMAIN next.values) <= cap
    BY <1>6, <2>1
  <2> QED BY <1>9, <2>4, <2>5 DEF IsFieldSlot
<1>12. IsFieldSlot(next, new, t, i, cap)
  BY <1>10, <1>11
<1> QED BY <1>12 DEF next, t, v

-----------------------------------------------------------------------------
(* The slots of a template *)

(* Slots are those of the positions seen, up to the cap.                   *)
IsTableOf(slots, events, t, cap) ==
  /\ slots \in Seq(Range(slots))
  /\ DOMAIN slots \subseteq 1..cap.slots
  /\ \A i \in DOMAIN slots : IsFieldSlot(slots[i], events, t, i, cap.values)
                             /\ Values(events, t, i) # {}
  /\ \A i \in 1..cap.slots : Values(events, t, i) # {} => i \in DOMAIN slots

LEMMA MinOfTwo ==
  ASSUME NEW m \in Nat, NEW n \in Nat
  PROVE  Min({m, n}) = IF m <= n THEN m ELSE n
<1> DEFINE S == {m, n}
           least == IF m <= n THEN m ELSE n
<1>1. least \in S /\ (\A y \in S : least <= y) /\ \A x \in S : (\A y \in S : x <= y) => x = least
  OBVIOUS
<1> HIDE DEF S, least
<1>2. Min(S) = least
  BY <1>1 DEF Min
<1> QED BY <1>2 DEF S, least

LEMMA SeqOfItsRange ==
  ASSUME NEW n \in Nat, NEW s, s = [i \in 1..n |-> s[i]]
  PROVE  s \in Seq(Range(s))
<1>1. DOMAIN s = 1..n
  BY Zenon
<1>2. s \in [1..n -> Range(s)]
  BY <1>1 DEF Range
<1> QED BY <1>2

(* What the slots are after an event: the same, or new ones, each shown    *)
(* its parameter.                                                          *)
IsGrown(grown, slots, m, x) ==
  /\ DOMAIN grown = 1..m
  /\ \A i \in 1..m : grown[i] = IF i <= Len(slots) THEN slots[i] ELSE x

LEMMA GrownIs ==
  ASSUME NEW slots, slots \in Seq(Range(slots)), NEW k \in Int, NEW x
  PROVE  IsGrown(slots \o [i \in 1..(k - Len(slots)) |-> x], slots,
                 IF Len(slots) >= k THEN Len(slots) ELSE k, x)
<1> DEFINE S == Range(slots) \cup {x}
           more == [i \in 1..(k - Len(slots)) |-> x]
           grown == slots \o more
           m == IF Len(slots) >= k THEN Len(slots) ELSE k
           d == IF Len(slots) >= k THEN 0 ELSE k - Len(slots)
<1>1. slots \in Seq(S) /\ Len(slots) \in Nat /\ DOMAIN slots = 1..Len(slots)
  OBVIOUS
<1>2. d \in Nat /\ 1..(k - Len(slots)) = 1..d /\ m = Len(slots) + d
  <2>1. CASE Len(slots) >= k
    <3>1. 1..(k - Len(slots)) = {} /\ 1..0 = {}
      BY <1>1, <2>1
    <3>2. d = 0 /\ m = Len(slots)
      BY <2>1
    <3> HIDE DEF d, m
    <3> QED BY <1>1, <3>1, <3>2
  <2>2. CASE ~(Len(slots) >= k)
    <3>1. d = k - Len(slots) /\ m = k
      BY <2>2
    <3> HIDE DEF d, m
    <3> QED BY <1>1, <2>2, <3>1
  <2> QED BY <2>1, <2>2
<1>3. more \in [1..d -> S] /\ \A i \in 1..d : more[i] = x
  BY <1>2
<1> HIDE DEF more, d, S
<1>4. more \in Seq(S) /\ Len(more) = d
  BY <1>2, <1>3
<1>5. /\ Len(grown) = Len(slots) + d /\ DOMAIN grown = 1..(Len(slots) + d)
      /\ \A i \in 1..(Len(slots) + d) :
           grown[i] = IF i <= Len(slots) THEN slots[i] ELSE more[i - Len(slots)]
  BY <1>1, <1>2, <1>4
<1>6. \A i \in 1..m : grown[i] = IF i <= Len(slots) THEN slots[i] ELSE x
  <2> SUFFICES ASSUME NEW i \in 1..m PROVE grown[i] = IF i <= Len(slots) THEN slots[i] ELSE x
    OBVIOUS
  <2> HIDE DEF grown, m
  <2>1. i \in 1..(Len(slots) + d)
    BY <1>2
  <2>2. ~(i <= Len(slots)) => i - Len(slots) \in 1..d
    BY <1>1, <1>2, <2>1
  <2> QED BY <1>3, <1>5, <2>1, <2>2
<1>7. DOMAIN grown = 1..m
  BY <1>2, <1>5
<1> HIDE DEF grown, m
<1>8. IsGrown(grown, slots, m, x)
  BY <1>6, <1>7 DEF IsGrown
<1> QED BY <1>8 DEF grown, m, more

LEMMA ParamsObserved ==
  ASSUME NEW slots, slots \in Seq(Range(slots)), NEW P, NEW params \in Seq(P),
         NEW cap, cap.slots \in Nat
  PROVE  LET n == IF cap.slots <= Len(params) THEN cap.slots ELSE Len(params)
             m == IF Len(slots) >= n THEN Len(slots) ELSE n
             new == ObserveParams(slots, params, cap)
             Old(i) == IF i <= Len(slots) THEN slots[i] ELSE EmptySlot
         IN  /\ n \in Nat /\ m \in Nat /\ Len(slots) \in Nat /\ DOMAIN slots = 1..Len(slots)
             /\ new \in Seq(Range(new)) /\ DOMAIN new = 1..m
             /\ \A i \in 1..m :
                  new[i] = IF i <= n THEN ObserveValue(Old(i), params[i], cap.values) ELSE Old(i)
<1> DEFINE n == IF cap.slots <= Len(params) THEN cap.slots ELSE Len(params)
           m == IF Len(slots) >= n THEN Len(slots) ELSE n
           new == ObserveParams(slots, params, cap)
           grown == slots \o [i \in 1..(n - Len(slots)) |-> EmptySlot]
           Old(i) == IF i <= Len(slots) THEN slots[i] ELSE EmptySlot
           Observed(i) == IF i <= n THEN ObserveValue(grown[i], params[i], cap.values) ELSE grown[i]
<1>1. /\ Len(params) \in Nat /\ Len(slots) \in Nat /\ DOMAIN slots = 1..Len(slots)
      /\ n \in Nat /\ m \in Nat
  OBVIOUS
<1>2. Min({cap.slots, Len(params)}) = n
  BY <1>1, MinOfTwo
<1>3. new = [i \in DOMAIN grown |-> Observed(i)]
  BY <1>2 DEF ObserveParams
<1> HIDE DEF n
<1>4. DOMAIN grown = 1..m /\ \A i \in 1..m : grown[i] = Old(i)
  <2>1. n \in Int
    BY <1>1
  <2>2. IsGrown(grown, slots, m, EmptySlot)
    BY <2>1, GrownIs
  <2> QED BY <2>2 DEF IsGrown
<1> HIDE DEF grown, Old, m, Observed
<1>5. new = [i \in 1..m |-> Observed(i)] /\ DOMAIN new = 1..m
  BY <1>3, <1>4
<1> HIDE DEF new
<1>6. \A i \in 1..m :
        new[i] = IF i <= n THEN ObserveValue(Old(i), params[i], cap.values) ELSE Old(i)
  BY <1>4, <1>5 DEF Observed
<1>7. new = [i \in 1..m |-> new[i]]
  BY <1>5
<1>8. new \in Seq(Range(new))
  BY <1>1, <1>7, SeqOfItsRange
<1> QED BY <1>1, <1>5, <1>6, <1>8 DEF n, m, new, Old

(* One event more of the template.                                         *)
LEMMA TableObserves ==
  ASSUME NEW events, OfEvents(events), NEW e \in Events, NEW new, OneMore(events, new, e),
         NEW cap \in Caps, NEW slots, IsTableOf(slots, events, e.template, cap)
  PROVE  IsTableOf(ObserveParams(slots, e.params, cap), new, e.template, cap)
<1> DEFINE t == e.template
           params == e.params
           next == ObserveParams(slots, params, cap)
           n == IF cap.slots <= Len(params) THEN cap.slots ELSE Len(params)
           m == IF Len(slots) >= n THEN Len(slots) ELSE n
           Old(i) == IF i <= Len(slots) THEN slots[i] ELSE EmptySlot
<1>1. cap.slots \in Nat /\ cap.values \in Nat
  BY FieldLadderAssumption
<1>2. params \in Seq(DOMAIN WellFormed) /\ Len(params) \in Nat
  BY ParamsAre
<1>3. slots \in Seq(Range(slots))
  BY DEF IsTableOf
<1>4. /\ n \in Nat /\ m \in Nat /\ Len(slots) \in Nat /\ DOMAIN slots = 1..Len(slots)
      /\ next \in Seq(Range(next)) /\ DOMAIN next = 1..m
      /\ \A i \in 1..m :
           next[i] = IF i <= n THEN ObserveValue(Old(i), params[i], cap.values) ELSE Old(i)
  BY <1>1, <1>2, <1>3, ParamsObserved
<1>5. Len(slots) <= cap.slots /\ n <= cap.slots /\ n <= Len(params)
      /\ m <= cap.slots /\ n <= m /\ Len(slots) <= m
  <2>1. DOMAIN slots \subseteq 1..cap.slots
    BY DEF IsTableOf
  <2>2. Len(slots) <= cap.slots
    BY <1>1, <1>4, <2>1
  <2> QED BY <1>1, <1>2, <1>4, <2>2
<1>6. \A i : n < i /\ i \in 1..m => i <= Len(slots) /\ ~(i <= Len(params))
  BY <1>1, <1>2, <1>4, <1>5
<1>7. ASSUME NEW i \in 1..m PROVE IsFieldSlot(Old(i), events, t, i, cap.values)
  <2>1. CASE i <= Len(slots)
    <3>1. i \in DOMAIN slots
      BY <1>4, <2>1
    <3> QED BY <2>1, <3>1 DEF IsTableOf
  <2>2. CASE ~(i <= Len(slots))
    <3>1. i \in 1..cap.slots /\ i \notin DOMAIN slots
      BY <1>1, <1>4, <1>5, <2>2
    <3>2. Values(events, t, i) = {}
      BY <3>1 DEF IsTableOf
    <3> QED BY <1>1, <2>2, <3>2, EmptyFieldSlot
  <2> QED BY <2>1, <2>2
<1>8. \A i : Values(new, t, i)
               = Values(events, t, i) \cup (IF i <= Len(params) THEN {params[i]} ELSE {})
  BY ValuesOneMore DEF Fills
<1> HIDE DEF n, m, Old, next
<1>9. ASSUME NEW i \in 1..m
      PROVE  IsFieldSlot(next[i], new, t, i, cap.values) /\ Values(new, t, i) # {}
  <2>1. i \in Nat \ {0} /\ next[i] = IF i <= n THEN ObserveValue(Old(i), params[i], cap.values) ELSE Old(i)
    BY <1>4
  <2>2. CASE i <= n
    <3>1. i <= Len(params)
      BY <1>2, <1>4, <1>5, <2>2
    <3>2. IsFieldSlot(ObserveValue(Old(i), params[i], cap.values), new, t, i, cap.values)
      BY <1>1, <1>7, <2>1, <3>1, FieldSlotObserves
    <3> QED BY <1>8, <2>1, <2>2, <3>1, <3>2
  <2>3. CASE ~(i <= n)
    <3>1. i <= Len(slots) /\ ~(i <= Len(params))
      BY <1>4, <1>6, <2>3
    <3>2. ~Fills(e, t, i)
      BY <3>1 DEF Fills
    <3>3. IsFieldSlot(Old(i), new, t, i, cap.values)
      BY <1>7, <3>2, FieldSlotKept
    <3>4. i \in DOMAIN slots
      BY <1>4, <3>1
    <3>5. Values(events, t, i) # {}
      BY <3>4 DEF IsTableOf
    <3> QED BY <1>8, <2>1, <2>3, <3>3, <3>5
  <2> QED BY <2>2, <2>3
<1>10. ASSUME NEW i \in 1..cap.slots, Values(new, t, i) # {}
       PROVE  i \in 1..m
  <2>1. CASE i <= Len(params)
    BY <1>1, <1>2, <1>4, <1>5, <2>1 DEF n
  <2>2. CASE ~(i <= Len(params))
    <3>1. Values(events, t, i) # {}
      BY <1>8, <1>10, <2>2
    <3>2. i \in DOMAIN slots
      BY <3>1 DEF IsTableOf
    <3> QED BY <1>4, <1>5, <3>2
  <2> QED BY <2>1, <2>2
<1>11. 1..m \subseteq 1..cap.slots
  BY <1>1, <1>4, <1>5
<1>12. IsTableOf(next, new, t, cap)
  BY <1>4, <1>9, <1>10, <1>11 DEF IsTableOf
<1> QED BY <1>12 DEF next

(* An event of another template.                                           *)
LEMMA TableKept ==
  ASSUME NEW events, OfEvents(events), NEW e \in Events, NEW new, OneMore(events, new, e),
         NEW t, t # e.template, NEW cap, NEW slots, IsTableOf(slots, events, t, cap)
  PROVE  IsTableOf(slots, new, t, cap)
<1>1. \A i : ~Fills(e, t, i)
  BY DEF Fills
<1>2. \A i : Values(new, t, i) = Values(events, t, i)
  BY <1>1, ValuesOneMore
<1>3. ASSUME NEW i \in DOMAIN slots PROVE IsFieldSlot(slots[i], new, t, i, cap.values)
  <2>1. IsFieldSlot(slots[i], events, t, i, cap.values)
    BY DEF IsTableOf
  <2> QED BY <1>1, <2>1, FieldSlotKept
<1> QED BY <1>2, <1>3 DEF IsTableOf

LEMMA EmptyTable ==
  ASSUME NEW events, NEW t, \A i : Values(events, t, i) = {}, NEW cap
  PROVE  IsTableOf(<< >>, events, t, cap)
<1>1. DOMAIN << >> = {} /\ << >> \in Seq(Range(<< >>))
  OBVIOUS
<1> QED BY <1>1 DEF IsTableOf

-----------------------------------------------------------------------------
(* The open window *)

WindowTypeOK ==
  /\ caps \in [1..MaxWindows -> Caps]
  /\ steps \in [events : Nat, window : 1..(MaxWindows + 1)]

(* The tables of the open window are those of the events seen in it.       *)
WindowInv ==
  /\ WindowTypeOK
  /\ OfEvents(seen)
  /\ \A e \in DOMAIN seen : e.template \in DOMAIN tables
  /\ \A t \in DOMAIN tables : IsTableOf(tables[t].slots, seen, t, Open)

LEMMA NothingSeen ==
  /\ OfEvents(<< >>) /\ DOMAIN << >> = {}
  /\ \A t, i : Values(<< >>, t, i) = {}
<1>1. DOMAIN << >> = {} /\ IsFiniteBag(<< >>)
  BY EmptyBagSum
<1>2. \A t, i : Values(<< >>, t, i) = {}
  BY <1>1 DEF Values, Filling
<1> QED BY <1>1, <1>2 DEF OfEvents

LEMMA InitWindowInv == FieldInit => WindowInv
<1> SUFFICES ASSUME FieldInit PROVE WindowInv
  OBVIOUS
<1>1. WindowTypeOK
  <2>1. steps = [events |-> 0, window |-> 1] /\ MaxWindows \in Nat
    BY FieldLadderAssumption DEF FieldInit
  <2>2. caps \in [1..MaxWindows -> Caps]
    BY DEF FieldInit
  <2> QED BY <2>1, <2>2 DEF WindowTypeOK
<1>2. seen = << >> /\ tables = << >>
  BY DEF FieldInit
<1> QED BY <1>1, <1>2, NothingSeen DEF WindowInv

LEMMA IngestKeepsWindow ==
  ASSUME WindowInv, NEW e \in Events, Ingest(e)
  PROVE  WindowInv'
<1> DEFINE t == e.template
           found == IF t \in DOMAIN tables THEN tables[t] ELSE EmptyTables
           old == found.slots
           slots == ObserveParams(old, e.params, Open)
<1>1. /\ steps.window <= MaxWindows /\ caps' = caps
      /\ steps' = [steps EXCEPT !.events = @ + 1]
      /\ seen' = seen (+) SetToBag({e})
  BY DEF Ingest
<1>2. WindowTypeOK' /\ steps'.window = steps.window /\ Open' = Open
  <2>1. steps \in [events : Nat, window : 1..(MaxWindows + 1)]
    BY DEF WindowInv, WindowTypeOK
  <2>2. steps' = [events |-> steps.events + 1, window |-> steps.window]
    BY <1>1, <2>1
  <2>3. steps' \in [events : Nat, window : 1..(MaxWindows + 1)] /\ steps'.window = steps.window
    BY <2>1, <2>2
  <2> QED BY <1>1, <2>3 DEF WindowTypeOK, Open, WindowInv
<1>3. Open \in Caps
  <2>1. steps.window \in 1..MaxWindows
    BY <1>1, FieldLadderAssumption DEF WindowInv, WindowTypeOK
  <2> QED BY <2>1 DEF WindowInv, WindowTypeOK, Open
<1>4. OfEvents(seen)
  BY DEF WindowInv
<1>5. OneMore(seen, seen', e)
  BY <1>1, <1>4, BagAdded DEF OfEvents
<1>6. OfEvents(seen')
  BY <1>4, <1>5, TimesOneMore
<1>7. IsTableOf(old, seen, t, Open)
  <2>1. CASE t \in DOMAIN tables
    BY <2>1 DEF WindowInv
  <2>2. CASE t \notin DOMAIN tables
    <3>1. old = << >>
      BY <2>2 DEF EmptyTables
    <3>2. \A d \in DOMAIN seen : d.template # t
      BY <2>2 DEF WindowInv
    <3>3. \A i : Values(seen, t, i) = {}
      BY <3>2 DEF Values, Filling
    <3>4. IsTableOf(<< >>, seen, t, Open)
      BY <3>3, EmptyTable
    <3> HIDE DEF t, found
    <3> QED BY <3>1, <3>4
  <2> QED BY <2>1, <2>2
<1>8. /\ DOMAIN tables' = DOMAIN tables \cup {t}
      /\ tables'[t].slots = slots
      /\ \A u \in DOMAIN tables : u # t => tables'[u] = tables[u]
  BY DEF Ingest
<1> HIDE DEF found
<1>9. IsTableOf(slots, seen', t, Open)
  BY <1>3, <1>4, <1>5, <1>7, TableObserves
<1> HIDE DEF slots, old
<1>10. ASSUME NEW u \in DOMAIN tables' PROVE IsTableOf(tables'[u].slots, seen', u, Open')
  <2>1. CASE u = t
    BY <1>2, <1>8, <1>9, <2>1
  <2>2. CASE u # t
    <3>1. u \in DOMAIN tables /\ tables'[u] = tables[u]
      BY <1>8, <2>2
    <3>2. IsTableOf(tables[u].slots, seen, u, Open)
      BY <3>1 DEF WindowInv
    <3>3. IsTableOf(tables[u].slots, seen', u, Open)
      BY <1>4, <1>5, <2>2, <3>2, TableKept
    <3> QED BY <1>2, <3>1, <3>3
  <2> QED BY <2>1, <2>2
<1>11. \A d \in DOMAIN seen' : d.template \in DOMAIN tables'
  BY <1>5, <1>8 DEF OneMore, WindowInv
<1> QED BY <1>2, <1>6, <1>10, <1>11 DEF WindowInv

LEMMA CloseKeepsWindow ==
  ASSUME WindowInv, Close
  PROVE  WindowInv'
<1>1. /\ steps.window <= MaxWindows /\ caps' = caps
      /\ steps' = [steps EXCEPT !.window = @ + 1]
      /\ seen' = << >> /\ tables' = << >>
  BY DEF Close
<1>2. WindowTypeOK'
  <2>1. steps \in [events : Nat, window : 1..(MaxWindows + 1)] /\ MaxWindows \in Nat
    BY FieldLadderAssumption DEF WindowInv, WindowTypeOK
  <2>2. steps' = [events |-> steps.events, window |-> steps.window + 1]
    BY <1>1, <2>1
  <2>3. steps.window + 1 \in 1..(MaxWindows + 1)
    BY <1>1, <2>1
  <2>4. steps' \in [events : Nat, window : 1..(MaxWindows + 1)]
    BY <2>1, <2>2, <2>3
  <2> QED BY <1>1, <2>4 DEF WindowTypeOK, WindowInv
<1> QED BY <1>1, <1>2, NothingSeen DEF WindowInv

LEMMA WindowInvIsInductive == WindowInv /\ [FieldNext]_fieldVars => WindowInv'
<1> SUFFICES ASSUME WindowInv, [FieldNext]_fieldVars PROVE WindowInv'
  OBVIOUS
<1>1. ASSUME NEW e \in Events, Ingest(e) PROVE WindowInv'
  BY <1>1, IngestKeepsWindow
<1>2. CASE Close
  BY <1>2, CloseKeepsWindow
<1>3. ASSUME NEW a \in pool, NEW b \in pool, MergeRows(a, b) PROVE WindowInv'
  BY <1>3 DEF MergeRows, WindowInv, WindowTypeOK, Open
<1>4. CASE UNCHANGED fieldVars
  BY <1>4 DEF fieldVars, WindowInv, WindowTypeOK, Open
<1> QED BY <1>1, <1>2, <1>3, <1>4 DEF FieldNext

(* The slots that ingest_looked_up_event fills are, after every event, the *)
(* tables and sketches of exactly the events of the open window.           *)
THEOREM WindowIsAlwaysOfItsEvents == FieldSpec => []WindowInv
BY InitWindowInv, WindowInvIsInductive, PTL DEF FieldSpec

LEMMA MaxIsGreatest ==
  ASSUME NEW S \in SUBSET Nat, NEW m \in S, \A y \in S : m >= y
  PROVE  Max(S) = m
<1>1. \A x \in S : (\A y \in S : x >= y) => x = m
  OBVIOUS
<1> QED BY <1>1 DEF Max

LEMMA SketchIsOfMaxima ==
  ASSUME NEW values \in SUBSET DOMAIN RegisterUpdate, NEW sketch, IsSketchOf(sketch, values),
         NEW index \in Registers
  PROVE  RegistersOf(sketch)[index]
           = Max({0} \cup {RegisterUpdate[v].rank :
                             v \in {u \in values : RegisterUpdate[u].index = index}})
<1> DEFINE rank == Register(sketch.store, index)
           S == {0} \cup {RegisterUpdate[v].rank :
                            v \in {u \in values : RegisterUpdate[u].index = index}}
<1>1. IsTop(rank, values, index)
  BY DEF IsSketchOf, IsStore
<1>2. S \in SUBSET Nat
  BY UpdateIs
<1>3. rank \in S /\ \A y \in S : rank >= y
  BY <1>1, <1>2 DEF IsTop
<1> HIDE DEF S, rank
<1>4. Max(S) = rank
  BY <1>2, <1>3, MaxIsGreatest
<1>5. RegistersOf(sketch)[index] = rank
  BY DEF RegistersOf, rank
<1> QED BY <1>4, <1>5 DEF S

(* A sketch holds the greatest rank that any value of its slot offered     *)
(* each register, in whatever order the values came, whether the table     *)
(* took them or not, and through its promotion to a dense store; and its   *)
(* estimate counts the registers they selected (ObserveParams, add_hash).  *)
THEOREM SketchAlwaysDenotesMaxima == FieldSpec => []SketchDenotesMaxima
<1>1. WindowInv => SketchDenotesMaxima
  <2> SUFFICES ASSUME WindowInv, NEW t \in DOMAIN tables, NEW i \in DOMAIN tables[t].slots
               PROVE  LET sketch == tables[t].slots[i].sketch
                          Offers(index) ==
                            {RegisterUpdate[v].rank :
                               v \in {u \in Values(seen, t, i) : RegisterUpdate[u].index = index}}
                      IN  /\ \A index \in Registers :
                               RegistersOf(sketch)[index] = Max({0} \cup Offers(index))
                          /\ Estimate(sketch) = Cardinality({index \in Registers : Offers(index) # {}})
                          /\ ~sketch.dense => Cardinality(DOMAIN sketch.store) <= SparseMaxEntries
    BY DEF SketchDenotesMaxima
  <2> DEFINE sketch == tables[t].slots[i].sketch
             values == Values(seen, t, i)
             Offers(index) == {RegisterUpdate[v].rank :
                                 v \in {u \in values : RegisterUpdate[u].index = index}}
  <2>1. IsTableOf(tables[t].slots, seen, t, Open) /\ OfEvents(seen)
    BY DEF WindowInv
  <2>2. i \in Nat \ {0} /\ IsSketchOf(sketch, values)
    BY <2>1 DEF IsTableOf, IsFieldSlot
  <2>3. values \in SUBSET DOMAIN RegisterUpdate
    BY <2>1, <2>2, ValuesAre
  <2> HIDE DEF sketch, values
  <2>4. \A index \in Registers : RegistersOf(sketch)[index] = Max({0} \cup Offers(index))
    BY <2>2, <2>3, SketchIsOfMaxima
  <2>5. {index \in Registers : Offers(index) # {}} = Selected(values)
    BY <2>3, UpdateIs DEF Selected
  <2>6. Estimate(sketch) = Cardinality(Selected(values))
    BY <2>2, <2>3, EstimateIs
  <2>7. ~sketch.dense => Cardinality(DOMAIN sketch.store) <= SparseMaxEntries
    BY <2>2, Zenon DEF IsSketchOf
  <2> HIDE DEF Offers
  <2>8. Estimate(sketch) = Cardinality({index \in Registers : Offers(index) # {}})
    BY <2>5, <2>6
  <2> QED BY <2>4, <2>7, <2>8 DEF sketch, values, Offers
<1> QED BY <1>1, WindowIsAlwaysOfItsEvents, PTL

-----------------------------------------------------------------------------
(* Events joined *)

LEMMA JoinedEvents ==
  ASSUME NEW a, NEW b, OfEvents(a), OfEvents(b)
  PROVE  /\ OfEvents(a (+) b) /\ a (+) b = b (+) a
         /\ DOMAIN (a (+) b) = DOMAIN a \cup DOMAIN b
         /\ IsUnionSum(a (+) b, a, b)
<1>1. IsABag(a) /\ IsABag(b) /\ IsFiniteSet(DOMAIN a) /\ IsFiniteSet(DOMAIN b)
  BY DEF OfEvents, IsFiniteBag, IsABag
<1>2. /\ a (+) b = b (+) a /\ IsABag(a (+) b)
      /\ DOMAIN (a (+) b) = DOMAIN a \cup DOMAIN b
      /\ IsUnionSum(a (+) b, a, b)
  BY <1>1, BagsJoin
<1>3. IsFiniteSet(DOMAIN (a (+) b))
  BY <1>1, <1>2, JoinIsFinite
<1>4. a (+) b \in [DOMAIN (a (+) b) -> Nat \ {0}]
  BY <1>2 DEF IsABag
<1>5. OfEvents(a (+) b)
  BY <1>2, <1>3, <1>4 DEF OfEvents, IsFiniteBag
<1> QED BY <1>2, <1>5

LEMMA JoinedTimes ==
  ASSUME NEW a, NEW b, OfEvents(a), OfEvents(b), NEW t, NEW i, NEW keys
  PROVE  /\ Times(a (+) b, t, i, keys) = Times(a, t, i, keys) + Times(b, t, i, keys)
         /\ Times(a, t, i, keys) \in Nat /\ Times(b, t, i, keys) \in Nat
<1> DEFINE P == Putting(t, i, keys)
           both == a (+) b
<1>1. OfEvents(both) /\ IsUnionSum(both, a, b)
  BY JoinedEvents
<1>2. /\ Times(both, t, i, keys) = SumFunctionOnSet(both, DOMAIN both \cap P)
      /\ Times(a, t, i, keys) = SumFunctionOnSet(a, DOMAIN a \cap P)
      /\ Times(b, t, i, keys) = SumFunctionOnSet(b, DOMAIN b \cap P)
      /\ Times(a, t, i, keys) \in Nat /\ Times(b, t, i, keys) \in Nat
  BY <1>1, TimesIs
<1> HIDE DEF P, both
<1>3. /\ IsFiniteSet(DOMAIN a) /\ IsFiniteSet(DOMAIN b)
      /\ NatOn(a, DOMAIN a) /\ NatOn(b, DOMAIN b)
  BY DEF OfEvents, IsFiniteBag, NatOn
<1>4. SumFunctionOnSet(both, DOMAIN both \cap P)
        = SumFunctionOnSet(a, DOMAIN a \cap P) + SumFunctionOnSet(b, DOMAIN b \cap P)
  <2>1. IsUnionSum(both, a, b)
    BY <1>1
  <2> QED BY <1>3, <2>1, SumOfTwoWithin
<1> QED BY <1>2, <1>4 DEF both

LEMMA JoinedValues ==
  ASSUME NEW a, NEW b, OfEvents(a), OfEvents(b), NEW t, NEW i
  PROVE  Values(a (+) b, t, i) = Values(a, t, i) \cup Values(b, t, i)
<1>1. DOMAIN (a (+) b) = DOMAIN a \cup DOMAIN b
  BY JoinedEvents
<1> QED BY <1>1 DEF Values, Filling

-----------------------------------------------------------------------------
(* The histogram of a slot *)

(* A histogram before it is cut to a cap.                                  *)
IsLoose(h, events, t, i, cap) ==
  /\ h = [total |-> h.total, values |-> h.values, cardinality |-> h.cardinality]
  /\ IsTabled(h, events, t, i, cap)
  /\ h.cardinality \in 1..Cardinality(Values(events, t, i))

IsHistogramOf(h, events, t, i, cap) ==
  IsLoose(h, events, t, i, cap) /\ Cardinality(DOMAIN h.values) <= cap

LEMMA HistogramIsHonest ==
  ASSUME NEW h, NEW events, NEW t, NEW i, NEW cap, IsHistogramOf(h, events, t, i, cap)
  PROVE  Honest(h, events, t, i, cap)
BY DEF IsHistogramOf, IsLoose, IsTabled, Honest

(* Whose value an id is: the ids before it in a table.                     *)
Precedes(score) == {p \in (DOMAIN score) \X (DOMAIN score) :
                      score[p[1]] > score[p[2]] \/ (score[p[1]] = score[p[2]] /\ p[1] < p[2])}

LEMMA BestAreCounted ==
  ASSUME NEW table, IsFiniteBag(table), DOMAIN table \subseteq Nat, NEW cap \in Nat
  PROVE  LET best == Best(DOMAIN table, table, cap)
             n == Cardinality(DOMAIN table)
         IN  /\ best \in SUBSET DOMAIN table
             /\ Cardinality(best) = IF n <= cap THEN n ELSE cap
             /\ Cardinality(best) < cap => best = DOMAIN table
<1> DEFINE D == DOMAIN table
           before == Precedes(table)
           best == Best(D, table, cap)
           n == Cardinality(D)
<1>1. /\ IsFiniteSet(D) /\ n \in Nat /\ \A x \in D : table[x] \in Nat
  BY CountIsNat DEF IsFiniteBag
<1>2. IsOrder(before, D)
  BY <1>1 DEF IsOrder, Precedes
<1>3. \A x \in D : {u \in D : table[u] > table[x] \/ (table[u] = table[x] /\ u < x)}
                     = Ahead(before, D, x)
  BY DEF Ahead, Precedes
<1>4. best = {x \in D : Rank(before, D, x) < cap}
  BY <1>3 DEF Best, Rank
<1> HIDE DEF before, D
<1>5. Cardinality(best) = IF n <= cap THEN n ELSE cap
  BY <1>1, <1>2, <1>4, FirstByRank
<1>6. best \in SUBSET D
  BY <1>4
<1>7. ASSUME Cardinality(best) < cap PROVE best = D
  <2>1. n < cap
    BY <1>1, <1>5, <1>7
  <2>2. \A x \in D : Rank(before, D, x) \in 0..(n - 1)
    BY <1>1, <1>2, RankIsBounded
  <2>3. \A x \in D : Rank(before, D, x) < cap
    BY <1>1, <2>1, <2>2
  <2> QED BY <1>4, <2>3
<1> QED BY <1>5, <1>6, <1>7 DEF D

LEMMA LooseIsReadmitted ==
  ASSUME NEW h, NEW events, NEW t, NEW i, NEW cap \in Nat, IsLoose(h, events, t, i, cap)
  PROVE  IsHistogramOf(ReadmitSlot(h, cap), events, t, i, cap)
<1> DEFINE v == h.values
           best == Best(DOMAIN v, v, cap)
           kept == Restrict(v, best)
           n == Cardinality(DOMAIN v)
           new == ReadmitSlot(h, cap)
<1>1. /\ h = [total |-> h.total, values |-> v, cardinality |-> h.cardinality]
      /\ IsFiniteBag(v) /\ DOMAIN v \subseteq Range(WellFormed)
      /\ h.total = Times(events, t, i, Range(WellFormed))
      /\ \A key \in DOMAIN v : v[key] <= Times(events, t, i, {key})
      /\ n < cap => \A key \in Range(WellFormed) : Kept(v, key) = Times(events, t, i, {key})
      /\ h.cardinality \in 1..Cardinality(Values(events, t, i))
  BY DEF IsLoose, IsTabled
<1>2. new = [h EXCEPT !.values = kept]
  BY DEF ReadmitSlot
<1>3. DOMAIN v \subseteq Nat
  BY <1>1, KeysAreNumbers
<1> HIDE DEF v
<1>4. /\ best \in SUBSET DOMAIN v
      /\ Cardinality(best) = IF n <= cap THEN n ELSE cap
      /\ Cardinality(best) < cap => best = DOMAIN v
  BY <1>1, <1>3, BestAreCounted
<1>5. IsFiniteSet(DOMAIN v) /\ v \in [DOMAIN v -> Nat \ {0}]
  BY <1>1 DEF IsFiniteBag
<1>6. IsFiniteSet(best) /\ n \in Nat
  BY <1>4, <1>5, PartIsFinite, CountIsNat
<1>7. new = [total |-> h.total, values |-> kept, cardinality |-> h.cardinality]
  BY ONLY <1>1, <1>2
<1> HIDE DEF best
<1>8. kept = [key \in best |-> v[key]] /\ DOMAIN kept = best
  BY DEF Restrict
<1> HIDE DEF kept
<1>9. IsFiniteBag(kept)
  BY <1>4, <1>5, <1>6, <1>8 DEF IsFiniteBag
<1>10. new.total = h.total /\ new.values = kept /\ new.cardinality = h.cardinality
  BY <1>7
<1>11. Cardinality(DOMAIN kept) <= cap
  BY <1>4, <1>6, <1>8
<1>12. ASSUME Cardinality(DOMAIN kept) < cap, NEW key \in Range(WellFormed)
       PROVE  Kept(kept, key) = Times(events, t, i, {key})
  <2>1. best = DOMAIN v /\ n < cap
    BY <1>4, <1>6, <1>8, <1>12
  <2>2. Kept(kept, key) = Kept(v, key)
    BY <1>8, <2>1 DEF Kept
  <2> QED BY <1>1, <2>1, <2>2
<1>13. \A key \in DOMAIN kept : kept[key] <= Times(events, t, i, {key})
  BY <1>1, <1>4, <1>8
<1>14. DOMAIN kept \subseteq Range(WellFormed)
  BY <1>1, <1>4, <1>8
<1> HIDE DEF new
<1>15. IsTabled(new, events, t, i, cap)
  BY <1>1, <1>9, <1>10, <1>12, <1>13, <1>14 DEF IsTabled
<1>16. IsHistogramOf(new, events, t, i, cap)
  BY <1>1, <1>7, <1>10, <1>11, <1>15 DEF IsHistogramOf, IsLoose
<1> QED BY <1>16 DEF new

(* A slot that one document has and the other saw nothing of.              *)
LEMMA LoneHistogram ==
  ASSUME NEW a, NEW b, OfEvents(a), OfEvents(b), NEW t, NEW i, NEW own \in Nat, NEW cap \in Nat,
         cap <= own, NEW h, IsHistogramOf(h, a, t, i, own), Values(b, t, i) = {}
  PROVE  IsLoose(h, a (+) b, t, i, cap)
<1>1. \A keys : Times(a (+) b, t, i, keys) = Times(a, t, i, keys)
  <2> SUFFICES ASSUME NEW keys PROVE Times(a (+) b, t, i, keys) = Times(a, t, i, keys)
    OBVIOUS
  <2>1. Times(b, t, i, keys) = 0
    BY UnseenTimes
  <2>2. /\ Times(a (+) b, t, i, keys) = Times(a, t, i, keys) + Times(b, t, i, keys)
        /\ Times(a, t, i, keys) \in Nat
    BY JoinedTimes
  <2> QED BY <2>1, <2>2
<1>2. Values(a (+) b, t, i) = Values(a, t, i)
  BY JoinedValues
<1> DEFINE both == a (+) b
<1> HIDE DEF both
<1>3. /\ \A keys : Times(both, t, i, keys) = Times(a, t, i, keys)
      /\ Values(both, t, i) = Values(a, t, i)
  BY <1>1, <1>2 DEF both
<1>4. Cardinality(DOMAIN h.values) \in Nat
  BY CountIsNat DEF IsHistogramOf, IsLoose, IsTabled, IsFiniteBag
<1>5. Cardinality(DOMAIN h.values) < cap => Cardinality(DOMAIN h.values) < own
  BY <1>4
<1>6. IsTabled(h, both, t, i, cap)
  BY <1>3, <1>5 DEF IsHistogramOf, IsLoose, IsTabled
<1>7. IsLoose(h, both, t, i, cap)
  BY <1>3, <1>6 DEF IsHistogramOf, IsLoose
<1> QED BY <1>7 DEF both

(* A slot that both have.                                                  *)
LEMMA MergedHistogram ==
  ASSUME NEW a, NEW b, OfEvents(a), OfEvents(b), NEW t, NEW i \in Nat \ {0},
         NEW c \in Nat, NEW d \in Nat, NEW cap \in Nat, cap <= c, cap <= d,
         NEW l, NEW r, IsHistogramOf(l, a, t, i, c), IsHistogramOf(r, b, t, i, d)
  PROVE  IsLoose(MergedSlot(l, r), a (+) b, t, i, cap)
<1> DEFINE both == a (+) b
           x == l.values
           y == r.values
           z == x (+) y
           h == MergedSlot(l, r)
<1>1. h = [total |-> l.total + r.total, values |-> z,
           cardinality |-> Max({l.cardinality, r.cardinality})]
  BY DEF MergedSlot
<1>2. /\ \A keys : Times(both, t, i, keys) = Times(a, t, i, keys) + Times(b, t, i, keys)
      /\ \A keys : Times(a, t, i, keys) \in Nat /\ Times(b, t, i, keys) \in Nat
  BY JoinedTimes
<1>3. Values(both, t, i) = Values(a, t, i) \cup Values(b, t, i)
  BY JoinedValues
<1>4. /\ IsFiniteBag(x) /\ DOMAIN x \subseteq Range(WellFormed)
      /\ l.total = Times(a, t, i, Range(WellFormed))
      /\ \A key \in DOMAIN x : x[key] <= Times(a, t, i, {key})
      /\ Cardinality(DOMAIN x) < c =>
           \A key \in Range(WellFormed) : Kept(x, key) = Times(a, t, i, {key})
      /\ l.cardinality \in 1..Cardinality(Values(a, t, i))
  BY DEF IsHistogramOf, IsLoose, IsTabled
<1>5. /\ IsFiniteBag(y) /\ DOMAIN y \subseteq Range(WellFormed)
      /\ r.total = Times(b, t, i, Range(WellFormed))
      /\ \A key \in DOMAIN y : y[key] <= Times(b, t, i, {key})
      /\ Cardinality(DOMAIN y) < d =>
           \A key \in Range(WellFormed) : Kept(y, key) = Times(b, t, i, {key})
      /\ r.cardinality \in 1..Cardinality(Values(b, t, i))
  BY DEF IsHistogramOf, IsLoose, IsTabled
<1>6. /\ IsFiniteSet(Values(a, t, i)) /\ IsFiniteSet(Values(b, t, i))
      /\ OfEvents(a (+) b)
  BY ValuesAre, JoinedEvents
<1> HIDE DEF both, x, y, h
<1>7. IsABag(x) /\ IsABag(y) /\ IsFiniteSet(DOMAIN x) /\ IsFiniteSet(DOMAIN y)
  BY <1>4, <1>5 DEF IsFiniteBag, IsABag
<1>8. IsABag(z) /\ DOMAIN z = DOMAIN x \cup DOMAIN y /\ IsUnionSum(z, x, y)
  BY <1>7, BagsJoin
<1>9. /\ Cardinality(DOMAIN x) \in Nat /\ Cardinality(DOMAIN y) \in Nat
      /\ Cardinality(DOMAIN z) \in Nat /\ IsFiniteSet(DOMAIN z)
      /\ Cardinality(DOMAIN x) <= Cardinality(DOMAIN z)
      /\ Cardinality(DOMAIN y) <= Cardinality(DOMAIN z)
  <2>1. IsFiniteSet(DOMAIN z)
    BY <1>7, <1>8, JoinIsFinite
  <2>2. DOMAIN x \in SUBSET DOMAIN z /\ DOMAIN y \in SUBSET DOMAIN z
    BY <1>8
  <2> HIDE DEF z
  <2> QED BY <1>7, <2>1, <2>2, CountIsNat, PartIsFewer
<1> HIDE DEF z
<1>10. IsFiniteBag(z)
  BY <1>8, <1>9 DEF IsABag, IsFiniteBag
<1>11. DOMAIN z \subseteq Range(WellFormed)
  BY <1>4, <1>5, <1>8
<1>12. \A key : Kept(z, key) = Kept(x, key) + Kept(y, key)
  <2> SUFFICES ASSUME NEW key PROVE Kept(z, key) = Kept(x, key) + Kept(y, key)
    OBVIOUS
  <2>1. At(x, key) \in Nat /\ At(y, key) \in Nat
    BY <1>4, <1>5 DEF IsFiniteBag, At
  <2>2. key \notin DOMAIN z => At(x, key) = 0 /\ At(y, key) = 0
    BY <1>8 DEF At
  <2>3. key \in DOMAIN z => z[key] = At(x, key) + At(y, key)
    BY <1>8 DEF IsUnionSum
  <2>4. Kept(x, key) = At(x, key) /\ Kept(y, key) = At(y, key) /\ Kept(z, key) = At(z, key)
    BY DEF Kept, At
  <2>5. At(z, key) = IF key \in DOMAIN z THEN z[key] ELSE 0
    BY DEF At
  <2> QED BY <2>1, <2>2, <2>3, <2>4, <2>5
<1>13. ASSUME NEW key
       PROVE  /\ Kept(x, key) \in Nat /\ Kept(x, key) <= Times(a, t, i, {key})
              /\ Kept(y, key) \in Nat /\ Kept(y, key) <= Times(b, t, i, {key})
  <2>1. Times(a, t, i, {key}) \in Nat /\ Times(b, t, i, {key}) \in Nat
    BY <1>2
  <2>2. key \in DOMAIN x => x[key] \in Nat /\ x[key] <= Times(a, t, i, {key})
    BY <1>4 DEF IsFiniteBag
  <2>3. key \in DOMAIN y => y[key] \in Nat /\ y[key] <= Times(b, t, i, {key})
    BY <1>5 DEF IsFiniteBag
  <2> QED BY <2>1, <2>2, <2>3 DEF Kept
<1>14. ASSUME NEW key \in DOMAIN z PROVE z[key] <= Times(both, t, i, {key})
  <2>1. z[key] = Kept(x, key) + Kept(y, key)
    BY <1>12 DEF Kept
  <2>2. Times(both, t, i, {key}) = Times(a, t, i, {key}) + Times(b, t, i, {key})
    BY <1>2
  <2>3. Times(a, t, i, {key}) \in Nat /\ Times(b, t, i, {key}) \in Nat
    BY <1>2
  <2> QED BY <1>13, <2>1, <2>2, <2>3
<1>15. ASSUME Cardinality(DOMAIN z) < cap, NEW key \in Range(WellFormed)
       PROVE  Kept(z, key) = Times(both, t, i, {key})
  <2>1. Cardinality(DOMAIN x) < c /\ Cardinality(DOMAIN y) < d
    BY <1>9, <1>15
  <2>2. Kept(x, key) = Times(a, t, i, {key}) /\ Kept(y, key) = Times(b, t, i, {key})
    BY <1>4, <1>5, <2>1
  <2> QED BY <1>2, <1>12, <2>2
<1>16. h.total = l.total + r.total /\ h.values = z
       /\ h.cardinality = Max({l.cardinality, r.cardinality})
       /\ h = [total |-> h.total, values |-> h.values, cardinality |-> h.cardinality]
  BY ONLY <1>1
<1>17. h.total = Times(both, t, i, Range(WellFormed))
  BY <1>2, <1>4, <1>5, <1>16
<1>18. h.cardinality \in 1..Cardinality(Values(both, t, i))
  <2> DEFINE A == Values(a, t, i)
             B == Values(b, t, i)
             V == Values(both, t, i)
  <2>1. l.cardinality \in 1..Cardinality(A) /\ r.cardinality \in 1..Cardinality(B)
        /\ IsFiniteSet(A) /\ IsFiniteSet(B) /\ V = A \cup B
    BY <1>3, <1>4, <1>5, <1>6
  <2> HIDE DEF A, B, V
  <2>2. IsFiniteSet(V) /\ A \in SUBSET V /\ B \in SUBSET V
    BY <2>1, JoinIsFinite
  <2>3. Cardinality(A) <= Cardinality(V) /\ Cardinality(B) <= Cardinality(V)
        /\ Cardinality(A) \in Nat /\ Cardinality(B) \in Nat /\ Cardinality(V) \in Nat
    BY <2>1, <2>2, PartIsFewer, CountIsNat
  <2>4. l.cardinality \in Nat /\ r.cardinality \in Nat
    BY <2>1
  <2>5. Max({l.cardinality, r.cardinality})
          = IF l.cardinality >= r.cardinality THEN l.cardinality ELSE r.cardinality
    BY <2>4, MaxOfTwo
  <2>6. Max({l.cardinality, r.cardinality}) \in 1..Cardinality(V)
    BY <2>1, <2>3, <2>5
  <2> QED BY <1>16, <2>6 DEF V
<1>19. IsTabled(h, both, t, i, cap)
  BY <1>10, <1>11, <1>14, <1>15, <1>16, <1>17 DEF IsTabled
<1>20. IsLoose(h, both, t, i, cap)
  BY <1>16, <1>18, <1>19 DEF IsLoose
<1> QED BY <1>20 DEF h, both

-----------------------------------------------------------------------------
(* Documents *)

Caplike == {Absent} \cup {<<n>> : n \in Nat}

(* The histograms of a document are those of the events it tabled, and all *)
(* of them that its cap of slots admits.                                   *)
IsDocOf(doc, events) ==
  /\ OfEvents(events)
  /\ doc.param_histograms_size \in Caplike /\ doc.value_counts_size \in Caplike
  /\ doc.param_histograms_size = Absent => DOMAIN events = {}
  /\ doc.param_histograms_size # Absent => doc.value_counts_size # Absent
  /\ \A t : \A i \in DOMAIN HistogramsIn(doc, t) :
       /\ doc.param_histograms_size # Absent /\ i \in 1..doc.param_histograms_size[1]
       /\ IsHistogramOf(HistogramsIn(doc, t)[i], events, t, i, doc.value_counts_size[1])
  /\ doc.param_histograms_size # Absent =>
       \A t : \A i \in 1..doc.param_histograms_size[1] :
         Values(events, t, i) # {} => i \in DOMAIN HistogramsIn(doc, t)

LEMMA CapsAre ==
  ASSUME NEW cap \in Caplike
  PROVE  (cap # Absent <=> \E n \in Nat : cap = <<n>>) /\ (cap # Absent => cap[1] \in Nat /\ cap = <<cap[1]>>)
<1>1. \A n \in Nat : <<n>> # << >>
  OBVIOUS
<1> QED BY <1>1 DEF Caplike, Absent

LEMMA LeastCap ==
  ASSUME NEW l \in Caplike, NEW r \in Caplike
  PROVE  LET cap == MinDeclaredCap(l, r) IN
         /\ cap \in Caplike
         /\ cap = Absent <=> l = Absent /\ r = Absent
         /\ l # Absent => cap[1] <= l[1] /\ cap # Absent
         /\ r # Absent => cap[1] <= r[1] /\ cap # Absent
<1>1. CASE l = Absent
  <2>1. MinDeclaredCap(l, r) = r
    BY <1>1 DEF MinDeclaredCap
  <2>2. r # Absent => r[1] \in Nat
    BY CapsAre
  <2> QED BY <1>1, <2>1, <2>2
<1>2. CASE l # Absent /\ r = Absent
  <2>1. MinDeclaredCap(l, r) = l
    BY <1>2 DEF MinDeclaredCap
  <2>2. l[1] \in Nat
    BY <1>2, CapsAre
  <2> QED BY <1>2, <2>1, <2>2
<1>3. CASE l # Absent /\ r # Absent
  <2> DEFINE n == Min({l[1], r[1]})
  <2>1. l[1] \in Nat /\ r[1] \in Nat
    BY <1>3, CapsAre
  <2>2. n = IF l[1] <= r[1] THEN l[1] ELSE r[1]
    BY <2>1, MinOfTwo
  <2>3. MinDeclaredCap(l, r) = <<n>>
    BY <1>3 DEF MinDeclaredCap
  <2> HIDE DEF n
  <2>4. n \in Nat /\ n <= l[1] /\ n <= r[1]
    BY <2>1, <2>2
  <2>5. <<n>> \in Caplike /\ <<n>> # Absent /\ <<n>>[1] = n
    BY <2>4 DEF Caplike, Absent
  <2> QED BY <1>3, <2>3, <2>4, <2>5
<1> QED BY <1>1, <1>2, <1>3

(* The rows of a window closed.                                            *)
LEMMA RowsAreOfTheWindow ==
  ASSUME WindowInv, steps.window <= MaxWindows
  PROVE  IsDocOf(RowsOf, IF Open.slots = 0 THEN << >> ELSE seen)
<1> DEFINE events == IF Open.slots = 0 THEN << >> ELSE seen
           doc == RowsOf
           rows == [t \in DOMAIN tables |->
                      [component |-> Component[t],
                       histograms |-> FieldHistogramsOf(tables[t].slots),
                       ordinals |-> tables[t].ordinals]]
           slots == Open.slots
           values == Open.values
<1>1. Open \in Caps /\ slots \in Nat /\ values \in Nat
  <2>1. steps.window \in 1..MaxWindows
    BY FieldLadderAssumption DEF WindowInv, WindowTypeOK
  <2> QED BY <2>1, FieldLadderAssumption DEF WindowInv, WindowTypeOK, Open
<1>2. /\ OfEvents(seen) /\ OfEvents(events)
      /\ slots = 0 => events = << >>
      /\ slots # 0 => events = seen
  BY NothingSeen DEF WindowInv
<1>3. /\ doc.param_histograms_size = IF slots = 0 THEN Absent ELSE <<slots>>
      /\ doc.value_counts_size = IF slots = 0 THEN Absent ELSE <<values>>
      /\ doc.top_k = rows
  BY DEF RowsOf, Declared
<1> HIDE DEF doc, events
<1>4. /\ doc.param_histograms_size \in Caplike /\ doc.value_counts_size \in Caplike
      /\ slots = 0 <=> doc.param_histograms_size = Absent
      /\ slots = 0 <=> doc.value_counts_size = Absent
      /\ slots # 0 => doc.param_histograms_size[1] = slots /\ doc.value_counts_size[1] = values
  <2>1. <<slots>> # << >> /\ <<values>> # << >> /\ <<slots>>[1] = slots /\ <<values>>[1] = values
    BY <1>1
  <2> QED BY <1>1, <1>3, <2>1 DEF Caplike, Absent
<1>5. ASSUME NEW t
      PROVE  HistogramsIn(doc, t) = IF t \in DOMAIN tables THEN FieldHistogramsOf(tables[t].slots)
                                    ELSE << >>
  BY <1>3 DEF HistogramsIn
<1>6. ASSUME NEW t, NEW i \in DOMAIN HistogramsIn(doc, t)
      PROVE  /\ slots # 0 /\ i \in 1..slots
             /\ IsHistogramOf(HistogramsIn(doc, t)[i], seen, t, i, values)
  <2> DEFINE own == tables[t].slots
             h == HistogramsIn(doc, t)[i]
             V == Values(seen, t, i)
  <2>1. t \in DOMAIN tables /\ HistogramsIn(doc, t) = FieldHistogramsOf(own)
    BY <1>5, <1>6
  <2>2. /\ i \in DOMAIN own
        /\ h = [total |-> own[i].total, values |-> own[i].values,
                cardinality |-> Estimate(own[i].sketch)]
    BY <1>6, <2>1 DEF FieldHistogramsOf
  <2>3. IsTableOf(own, seen, t, Open)
    BY <2>1 DEF WindowInv
  <2>4. i \in 1..slots /\ IsFieldSlot(own[i], seen, t, i, values) /\ V # {}
    BY <2>2, <2>3 DEF IsTableOf
  <2>5. V \in SUBSET DOMAIN RegisterUpdate /\ IsFiniteSet(V) /\ IsSketchOf(own[i].sketch, V)
    BY <1>2, <2>4, ValuesAre DEF IsFieldSlot
  <2>6. Estimate(own[i].sketch) = Cardinality(Selected(V))
    BY <2>5, EstimateIs
  <2>7. /\ IsFiniteSet(Selected(V)) /\ Cardinality(Selected(V)) \in Nat
        /\ Cardinality(Selected(V)) <= Cardinality(V) /\ Cardinality(V) \in Nat
    BY <2>5, SelectedCount, CountIsNat
  <2>8. Selected(V) # {}
    BY <2>4 DEF Selected
  <2>9. Cardinality(Selected(V)) # 0
    BY <2>7, <2>8, CountIsZero
  <2>10. Estimate(own[i].sketch) \in 1..Cardinality(V)
    BY <2>6, <2>7, <2>9
  <2>11. h.total = own[i].total /\ h.values = own[i].values
         /\ h.cardinality = Estimate(own[i].sketch)
         /\ h = [total |-> h.total, values |-> h.values, cardinality |-> h.cardinality]
    BY ONLY <2>2
  <2> HIDE DEF h, V, own
  <2>12. IsHistogramOf(h, seen, t, i, values)
    BY <2>4, <2>10, <2>11 DEF IsHistogramOf, IsLoose, IsTabled, IsFieldSlot, V
  <2> QED BY <1>1, <2>4, <2>12 DEF h
<1>7. ASSUME slots # 0, NEW t, NEW i \in 1..slots, Values(seen, t, i) # {}
      PROVE  i \in DOMAIN HistogramsIn(doc, t)
  <2>1. t \in DOMAIN tables
    BY <1>7 DEF Values, Filling, WindowInv
  <2>2. IsTableOf(tables[t].slots, seen, t, Open)
    BY <2>1 DEF WindowInv
  <2>3. i \in DOMAIN tables[t].slots
    BY <1>7, <2>2 DEF IsTableOf
  <2>4. DOMAIN FieldHistogramsOf(tables[t].slots) = DOMAIN tables[t].slots
    BY DEF FieldHistogramsOf
  <2> QED BY <1>5, <2>1, <2>3, <2>4
<1> HIDE DEF slots, values
<1>8. IsDocOf(doc, events)
  <2>1. doc.param_histograms_size = Absent => DOMAIN events = {}
    BY <1>2, <1>4, NothingSeen
  <2>2. doc.param_histograms_size # Absent => doc.value_counts_size # Absent
    BY <1>4
  <2>3. ASSUME NEW t, NEW i \in DOMAIN HistogramsIn(doc, t)
        PROVE  /\ doc.param_histograms_size # Absent /\ i \in 1..doc.param_histograms_size[1]
               /\ IsHistogramOf(HistogramsIn(doc, t)[i], events, t, i, doc.value_counts_size[1])
    BY <1>2, <1>4, <1>6
  <2>4. ASSUME doc.param_histograms_size # Absent, NEW t, NEW i \in 1..doc.param_histograms_size[1],
               Values(events, t, i) # {}
        PROVE  i \in DOMAIN HistogramsIn(doc, t)
    BY <1>2, <1>4, <1>7, <2>4
  <2> QED BY <1>2, <1>4, <2>1, <2>2, <2>3, <2>4 DEF IsDocOf
<1> QED BY <1>8 DEF doc, events

(* The histograms of a template of two documents composed.                 *)
LEMMA ComposedHistogramIs ==
  ASSUME NEW lhs, NEW rhs, NEW a, NEW b, IsDocOf(lhs, a), IsDocOf(rhs, b), NEW t
  PROVE  LET caps_of == ComposedHistogramCaps(lhs, rhs)
             slots == caps_of.param_histograms_size
             both == ComposedHistograms(lhs, rhs, t)
         IN  /\ \A i \in DOMAIN both :
                  /\ slots # Absent /\ i \in 1..slots[1]
                  /\ IsHistogramOf(both[i], a (+) b, t, i, caps_of.value_counts_size[1])
             /\ slots # Absent => \A i \in 1..slots[1] :
                  Values(a (+) b, t, i) # {} => i \in DOMAIN both
<1> DEFINE caps_of == ComposedHistogramCaps(lhs, rhs)
           slots == caps_of.param_histograms_size
           cap == caps_of.value_counts_size[1]
           least == MinDeclaredCap(lhs.value_counts_size, rhs.value_counts_size)
           f == HistogramsIn(lhs, t)
           g == HistogramsIn(rhs, t)
           D == {i \in DOMAIN f \cup DOMAIN g : slots = Absent \/ i <= slots[1]}
           Of(i) == IF i \notin DOMAIN g THEN f[i] ELSE IF i \notin DOMAIN f THEN g[i]
                    ELSE MergedSlot(f[i], g[i])
           both == ComposedHistograms(lhs, rhs, t)
           events == a (+) b
<1>1. both = [i \in D |-> ReadmitSlot(Of(i), cap)]
  BY DEF ComposedHistograms, MergeFieldHistograms
<1>2. /\ lhs.param_histograms_size \in Caplike /\ lhs.value_counts_size \in Caplike
      /\ rhs.param_histograms_size \in Caplike /\ rhs.value_counts_size \in Caplike
      /\ OfEvents(a) /\ OfEvents(b)
  BY DEF IsDocOf
<1>3. /\ slots \in Caplike
      /\ slots = Absent <=> lhs.param_histograms_size = Absent /\ rhs.param_histograms_size = Absent
      /\ lhs.param_histograms_size # Absent => slots[1] <= lhs.param_histograms_size[1]
      /\ rhs.param_histograms_size # Absent => slots[1] <= rhs.param_histograms_size[1]
  <2>1. slots = MinDeclaredCap(lhs.param_histograms_size, rhs.param_histograms_size)
    BY DEF ComposedHistogramCaps
  <2> HIDE DEF slots
  <2> QED BY <1>2, <2>1, LeastCap
<1>4. /\ cap \in Nat
      /\ lhs.value_counts_size # Absent => cap <= lhs.value_counts_size[1]
      /\ rhs.value_counts_size # Absent => cap <= rhs.value_counts_size[1]
  <2>1. /\ least \in Caplike
        /\ lhs.value_counts_size # Absent => least[1] <= lhs.value_counts_size[1] /\ least # Absent
        /\ rhs.value_counts_size # Absent => least[1] <= rhs.value_counts_size[1] /\ least # Absent
    BY <1>2, LeastCap
  <2>2. caps_of.value_counts_size = IF least = Absent THEN <<DefaultHistogramValues>> ELSE least
    BY DEF ComposedHistogramCaps
  <2> HIDE DEF least
  <2>3. cap = IF least = Absent THEN DefaultHistogramValues ELSE least[1]
    BY <2>2
  <2>4. least # Absent => least[1] \in Nat
    BY <2>1, CapsAre
  <2> HIDE DEF cap
  <2> QED BY <2>1, <2>3, <2>4, FieldLadderAssumption
<1>5. /\ \A n : lhs.param_histograms_size = Absent => Values(a, t, n) = {}
      /\ \A n : rhs.param_histograms_size = Absent => Values(b, t, n) = {}
  BY DEF IsDocOf, Values, Filling
<1>6. \A i : Values(events, t, i) = Values(a, t, i) \cup Values(b, t, i)
  BY <1>2, JoinedValues
<1> HIDE DEF slots, cap, least
<1>7. /\ slots # Absent => slots[1] \in Nat
      /\ lhs.param_histograms_size # Absent => lhs.param_histograms_size[1] \in Nat
      /\ rhs.param_histograms_size # Absent => rhs.param_histograms_size[1] \in Nat
      /\ lhs.value_counts_size # Absent => lhs.value_counts_size[1] \in Nat
      /\ rhs.value_counts_size # Absent => rhs.value_counts_size[1] \in Nat
  BY <1>2, <1>3, CapsAre
<1>8. ASSUME NEW i \in DOMAIN f
      PROVE  /\ lhs.param_histograms_size # Absent /\ i \in 1..lhs.param_histograms_size[1]
             /\ lhs.value_counts_size # Absent
             /\ IsHistogramOf(f[i], a, t, i, lhs.value_counts_size[1])
  BY DEF IsDocOf
<1>9. ASSUME NEW i \in DOMAIN g
      PROVE  /\ rhs.param_histograms_size # Absent /\ i \in 1..rhs.param_histograms_size[1]
             /\ rhs.value_counts_size # Absent
             /\ IsHistogramOf(g[i], b, t, i, rhs.value_counts_size[1])
  BY DEF IsDocOf
<1>10. ASSUME lhs.param_histograms_size # Absent, NEW i \in 1..lhs.param_histograms_size[1],
              Values(a, t, i) # {}
       PROVE  i \in DOMAIN f
  BY <1>10 DEF IsDocOf
<1>11. ASSUME rhs.param_histograms_size # Absent, NEW i \in 1..rhs.param_histograms_size[1],
              Values(b, t, i) # {}
       PROVE  i \in DOMAIN g
  BY <1>11 DEF IsDocOf
<1> HIDE DEF f, g
<1>12. ASSUME NEW i \in D
       PROVE  slots # Absent /\ i \in 1..slots[1] /\ i \in Nat \ {0}
  <2>1. slots # Absent /\ i \in Nat \ {0}
    BY <1>3, <1>7, <1>8, <1>9
  <2> QED BY <1>7, <2>1
<1>13. ASSUME NEW i \in D PROVE IsLoose(Of(i), events, t, i, cap)
  <2>0. slots # Absent /\ i \in 1..slots[1] /\ i \in Nat \ {0} /\ slots[1] \in Nat
    BY <1>7, <1>12
  <2>1. CASE i \in DOMAIN f /\ i \in DOMAIN g
    <3>1. /\ IsHistogramOf(f[i], a, t, i, lhs.value_counts_size[1])
          /\ IsHistogramOf(g[i], b, t, i, rhs.value_counts_size[1])
          /\ lhs.value_counts_size[1] \in Nat /\ cap <= lhs.value_counts_size[1]
          /\ rhs.value_counts_size[1] \in Nat /\ cap <= rhs.value_counts_size[1]
      BY <1>4, <1>7, <1>8, <1>9, <2>1
    <3>2. IsLoose(MergedSlot(f[i], g[i]), events, t, i, cap)
      BY <1>2, <1>4, <2>0, <3>1, MergedHistogram
    <3> QED BY <2>1, <3>2
  <2>2. CASE i \in DOMAIN f /\ i \notin DOMAIN g
    <3>1. /\ IsHistogramOf(f[i], a, t, i, lhs.value_counts_size[1])
          /\ lhs.value_counts_size[1] \in Nat /\ cap <= lhs.value_counts_size[1]
      BY <1>4, <1>7, <1>8, <2>2
    <3>2. Values(b, t, i) = {}
      <4>1. CASE rhs.param_histograms_size = Absent
        BY <1>5, <4>1
      <4>2. CASE rhs.param_histograms_size # Absent
        <5>1. i \in 1..rhs.param_histograms_size[1]
          BY <1>3, <1>7, <2>0, <4>2
        <5> QED BY <1>11, <2>2, <4>2, <5>1
      <4> QED BY <4>1, <4>2
    <3>3. IsLoose(f[i], events, t, i, cap)
      BY <1>2, <1>4, <3>1, <3>2, LoneHistogram
    <3> QED BY <2>2, <3>3
  <2>3. CASE i \notin DOMAIN f /\ i \in DOMAIN g
    <3>1. /\ IsHistogramOf(g[i], b, t, i, rhs.value_counts_size[1])
          /\ rhs.value_counts_size[1] \in Nat /\ cap <= rhs.value_counts_size[1]
      BY <1>4, <1>7, <1>9, <2>3
    <3>2. Values(a, t, i) = {}
      <4>1. CASE lhs.param_histograms_size = Absent
        BY <1>5, <4>1
      <4>2. CASE lhs.param_histograms_size # Absent
        <5>1. i \in 1..lhs.param_histograms_size[1]
          BY <1>3, <1>7, <2>0, <4>2
        <5> QED BY <1>10, <2>3, <4>2, <5>1
      <4> QED BY <4>1, <4>2
    <3>3. IsLoose(g[i], b (+) a, t, i, cap)
      BY <1>2, <1>4, <3>1, <3>2, LoneHistogram
    <3>4. b (+) a = events
      BY <1>2, JoinedEvents
    <3> QED BY <2>3, <3>3, <3>4
  <2> QED BY <2>1, <2>2, <2>3
<1> HIDE DEF Of, events
<1>14. ASSUME NEW i \in D PROVE IsHistogramOf(ReadmitSlot(Of(i), cap), events, t, i, cap)
  BY <1>4, <1>13, LooseIsReadmitted
<1>15. ASSUME slots # Absent, NEW i \in 1..slots[1], Values(events, t, i) # {}
       PROVE  i \in D
  <2>1. slots[1] \in Nat /\ i \in Nat /\ i <= slots[1] /\ 1 <= i
    BY <1>7, <1>15
  <2>2. CASE Values(a, t, i) # {}
    <3>1. lhs.param_histograms_size # Absent
      BY <1>5, <2>2
    <3>2. i \in 1..lhs.param_histograms_size[1]
      BY <1>3, <1>7, <2>1, <3>1
    <3> QED BY <1>10, <2>1, <2>2, <3>1, <3>2
  <2>3. CASE Values(b, t, i) # {}
    <3>1. rhs.param_histograms_size # Absent
      BY <1>5, <2>3
    <3>2. i \in 1..rhs.param_histograms_size[1]
      BY <1>3, <1>7, <2>1, <3>1
    <3> QED BY <1>11, <2>1, <2>3, <3>1, <3>2
  <2> QED BY <1>6, <1>15, <2>2, <2>3
<1> HIDE DEF D, both
<1>16. DOMAIN both = D /\ \A i \in D : both[i] = ReadmitSlot(Of(i), cap)
  BY <1>1
<1>17. \A i \in DOMAIN both :
         slots # Absent /\ i \in 1..slots[1] /\ IsHistogramOf(both[i], events, t, i, cap)
  BY <1>12, <1>14, <1>16
<1>18. slots # Absent => \A i \in 1..slots[1] : Values(events, t, i) # {} => i \in DOMAIN both
  BY <1>15, <1>16
<1> QED BY <1>17, <1>18 DEF slots, cap, both, events

LEMMA ComposedIsOfBoth ==
  ASSUME NEW lhs, NEW rhs, NEW a, NEW b, IsDocOf(lhs, a), IsDocOf(rhs, b)
  PROVE  IsDocOf(Composed(lhs, rhs), a (+) b)
<1> DEFINE doc == Composed(lhs, rhs)
           declared == ComposedHistogramCaps(lhs, rhs)
           slots == declared.param_histograms_size
           values == declared.value_counts_size
           events == a (+) b
           rows == [t \in DOMAIN lhs.top_k \cup DOMAIN rhs.top_k |->
                      [component |-> Component[t], histograms |-> ComposedHistograms(lhs, rhs, t),
                       ordinals |-> << >>]]
<1>1. /\ doc.param_histograms_size = slots /\ doc.value_counts_size = values
      /\ doc.top_k = rows
  BY DEF Composed
<1>2. /\ lhs.param_histograms_size \in Caplike /\ lhs.value_counts_size \in Caplike
      /\ rhs.param_histograms_size \in Caplike /\ rhs.value_counts_size \in Caplike
      /\ OfEvents(a) /\ OfEvents(b)
      /\ lhs.param_histograms_size = Absent => DOMAIN a = {}
      /\ rhs.param_histograms_size = Absent => DOMAIN b = {}
  BY DEF IsDocOf
<1>3. /\ slots \in Caplike
      /\ slots = Absent <=> lhs.param_histograms_size = Absent /\ rhs.param_histograms_size = Absent
  <2>1. slots = MinDeclaredCap(lhs.param_histograms_size, rhs.param_histograms_size)
    BY DEF ComposedHistogramCaps
  <2> HIDE DEF slots
  <2> QED BY <1>2, <2>1, LeastCap
<1>4. values \in Caplike /\ values # Absent
  <2> DEFINE least == MinDeclaredCap(lhs.value_counts_size, rhs.value_counts_size)
  <2>1. least \in Caplike
    BY <1>2, LeastCap
  <2>2. values = IF least = Absent THEN <<DefaultHistogramValues>> ELSE least
    BY DEF ComposedHistogramCaps
  <2> HIDE DEF least, values
  <2>3. <<DefaultHistogramValues>> \in Caplike /\ <<DefaultHistogramValues>> # Absent
    BY FieldLadderAssumption DEF Caplike, Absent
  <2> QED BY <2>1, <2>2, <2>3
<1>5. OfEvents(events) /\ DOMAIN events = DOMAIN a \cup DOMAIN b
  BY <1>2, JoinedEvents
<1> HIDE DEF doc
<1>6. ASSUME NEW t PROVE HistogramsIn(doc, t) = ComposedHistograms(lhs, rhs, t)
  <2>1. CASE t \in DOMAIN lhs.top_k \cup DOMAIN rhs.top_k
    BY <1>1, <2>1 DEF HistogramsIn
  <2>2. CASE t \notin DOMAIN lhs.top_k \cup DOMAIN rhs.top_k
    <3>1. HistogramsIn(lhs, t) = << >> /\ HistogramsIn(rhs, t) = << >>
          /\ HistogramsIn(doc, t) = << >>
      BY <1>1, <2>2 DEF HistogramsIn
    <3>2. MergeFieldHistograms(<< >>, << >>, slots, values[1]) = << >>
      <4>1. DOMAIN << >> = {}
        OBVIOUS
      <4>2. {i \in DOMAIN << >> \cup DOMAIN << >> : slots = Absent \/ i <= slots[1]} = {}
        BY <4>1
      <4>3. DOMAIN MergeFieldHistograms(<< >>, << >>, slots, values[1]) = {}
        BY <4>2 DEF MergeFieldHistograms
      <4> QED BY <4>1, <4>2, <4>3 DEF MergeFieldHistograms
    <3>3. ComposedHistograms(lhs, rhs, t) = MergeFieldHistograms(<< >>, << >>, slots, values[1])
      BY <3>1 DEF ComposedHistograms
    <3> QED BY <3>1, <3>2, <3>3
  <2> QED BY <2>1, <2>2
<1> HIDE DEF declared, slots, values, events
<1>7. ASSUME NEW t
      PROVE  /\ \A i \in DOMAIN HistogramsIn(doc, t) :
                  /\ slots # Absent /\ i \in 1..slots[1]
                  /\ IsHistogramOf(HistogramsIn(doc, t)[i], events, t, i, values[1])
             /\ slots # Absent => \A i \in 1..slots[1] :
                  Values(events, t, i) # {} => i \in DOMAIN HistogramsIn(doc, t)
  BY <1>6, ComposedHistogramIs DEF declared, slots, values, events
<1>8. slots = Absent => DOMAIN events = {}
  BY <1>2, <1>3, <1>5
<1>9. IsDocOf(doc, events)
  BY <1>1, <1>3, <1>4, <1>5, <1>7, <1>8 DEF IsDocOf
<1> QED BY <1>9 DEF doc, events

(* Every document held is that of its events.                              *)
PoolInv == \A p \in pool : IsDocOf(p.doc, p.tabled)

LEMMA PoolInvIsInductive == WindowInv /\ PoolInv /\ [FieldNext]_fieldVars => PoolInv'
<1> SUFFICES ASSUME WindowInv, PoolInv, [FieldNext]_fieldVars PROVE PoolInv'
  OBVIOUS
<1>1. ASSUME NEW e \in Events, Ingest(e) PROVE PoolInv'
  BY <1>1 DEF Ingest, PoolInv
<1>2. CASE Close
  <2> DEFINE new == [doc |-> RowsOf, leaves |-> {steps.window},
                     tabled |-> IF Open.slots = 0 THEN << >> ELSE seen]
  <2>1. steps.window <= MaxWindows /\ pool' = pool \cup {new}
    BY <1>2 DEF Close
  <2>2. IsDocOf(new.doc, new.tabled)
    BY <2>1, RowsAreOfTheWindow
  <2> HIDE DEF new
  <2> QED BY <2>1, <2>2 DEF PoolInv
<1>3. ASSUME NEW a \in pool, NEW b \in pool, MergeRows(a, b) PROVE PoolInv'
  <2> DEFINE new == [doc |-> Composed(a.doc, b.doc), leaves |-> a.leaves \cup b.leaves,
                     tabled |-> a.tabled (+) b.tabled]
  <2>1. pool' = (pool \ {a, b}) \cup {new}
    BY <1>3 DEF MergeRows
  <2>2. IsDocOf(a.doc, a.tabled) /\ IsDocOf(b.doc, b.tabled)
    BY DEF PoolInv
  <2>3. IsDocOf(new.doc, new.tabled)
    BY <2>2, ComposedIsOfBoth
  <2> HIDE DEF new
  <2> QED BY <2>1, <2>3 DEF PoolInv
<1>4. CASE UNCHANGED fieldVars
  BY <1>4 DEF fieldVars, PoolInv
<1> QED BY <1>1, <1>2, <1>3, <1>4 DEF FieldNext

(* The histograms build_top_k or compose leaves in a document are tables   *)
(* of the events behind it, under the least of the caps declared.          *)
THEOREM DocumentsAreAlwaysOfTheirEvents == FieldSpec => []PoolInv
<1>1. FieldInit => PoolInv
  BY DEF FieldInit, PoolInv
<1> QED BY <1>1, PoolInvIsInductive, WindowIsAlwaysOfItsEvents, PTL DEF FieldSpec

(* Every table a reader finds in a document, however often that was merged *)
(* and whatever the caps of its producers, totals every value of its slot, *)
(* counts no key more often than it occurred, has lost nothing while it is *)
(* below the cap the document declares, and no slot within the declared    *)
(* caps is missing (build_field_histograms, merge_field_histograms).       *)
THEOREM TablesAreAlwaysHonest == FieldSpec => []TablesAreHonest
<1>1. PoolInv => TablesAreHonest
  <2> SUFFICES ASSUME PoolInv, NEW p \in pool, NEW t \in DOMAIN p.doc.top_k
               PROVE  LET slots == p.doc.top_k[t].histograms
                      IN  /\ \A i \in DOMAIN slots :
                               Honest(slots[i], p.tabled, t, i, p.doc.value_counts_size[1])
                          /\ p.doc.param_histograms_size # Absent =>
                               /\ DOMAIN slots \subseteq 1..p.doc.param_histograms_size[1]
                               /\ \A i \in 1..p.doc.param_histograms_size[1] :
                                    Values(p.tabled, t, i) # {} => i \in DOMAIN slots
    BY DEF TablesAreHonest
  <2>1. IsDocOf(p.doc, p.tabled)
    BY DEF PoolInv
  <2>2. HistogramsIn(p.doc, t) = p.doc.top_k[t].histograms
    BY DEF HistogramsIn
  <2> DEFINE slots == p.doc.top_k[t].histograms
             cap == p.doc.value_counts_size[1]
             size == p.doc.param_histograms_size
  <2>3. /\ \A i \in DOMAIN slots : /\ i \in 1..size[1]
                                   /\ IsHistogramOf(slots[i], p.tabled, t, i, cap)
        /\ size # Absent => \A i \in 1..size[1] : Values(p.tabled, t, i) # {} => i \in DOMAIN slots
    BY <2>1, <2>2 DEF IsDocOf
  <2> HIDE DEF slots, cap, size
  <2>4. \A i \in DOMAIN slots : Honest(slots[i], p.tabled, t, i, cap)
    BY <2>3, HistogramIsHonest
  <2> QED BY <2>3, <2>4 DEF slots, cap, size
<1> QED BY <1>1, DocumentsAreAlwaysOfTheirEvents, PTL

-----------------------------------------------------------------------------
(* The distance of two windows' durations *)

(* The elements of S in P are as many as a sum of ones counts.             *)
LEMMA CountIsSum ==
  ASSUME NEW S, IsFiniteSet(S), NEW P, NEW f, \A x \in S : f[x] = IF x \in P THEN 1 ELSE 0
  PROVE  NatOn(f, S) /\ SumFunctionOnSet(f, S) = Cardinality(S \cap P)
<1> DEFINE Counted == {U \in SUBSET S : SumFunctionOnSet(f, U) = Cardinality(U \cap P)}
<1>1. NatOn(f, S)
  BY DEF NatOn
<1>2. {} \in Counted
  <2>1. {} \cap P = {}
    OBVIOUS
  <2> QED BY <2>1, SumEmpty, EmptyCount
<1>3. ASSUME NEW U \in SUBSET S, NEW x \in S \ U, U \in Counted PROVE U \cup {x} \in Counted
  <2>1. IsFiniteSet(U) /\ IsFiniteSet(U \cap P) /\ NatOn(f, U \cup {x})
    BY <1>1, FS_Subset DEF NatOn
  <2>2. SumFunctionOnSet(f, U \cup {x}) = f[x] + SumFunctionOnSet(f, U)
    BY <2>1, SumAdd
  <2>3. Cardinality(U \cap P) \in Nat
    BY <2>1, CountIsNat
  <2>4. CASE x \in P
    <3>1. (U \cup {x}) \cap P = (U \cap P) \cup {x} /\ x \notin U \cap P
      BY <2>4
    <3>2. Cardinality((U \cup {x}) \cap P) = Cardinality(U \cap P) + 1
      BY <2>1, <3>1, CountOneMore
    <3> QED BY <1>3, <2>2, <2>3, <2>4, <3>2
  <2>5. CASE x \notin P
    <3>1. (U \cup {x}) \cap P = U \cap P
      BY <2>5
    <3>2. f[x] = 0 /\ U \cup {x} \in SUBSET S
      BY <2>5
    <3>3. SumFunctionOnSet(f, U \cup {x}) = Cardinality(U \cap P)
      BY <1>3, <2>2, <2>3, <3>2
    <3> QED BY <3>1, <3>2, <3>3
  <2> QED BY <2>4, <2>5
<1>4. S \in Counted
  <2> HIDE DEF Counted
  <2> QED BY <1>2, <1>3, SubsetInduction
<1>5. S \cap P = S \cap P /\ SumFunctionOnSet(f, S) = Cardinality(S \cap P)
  BY <1>4
<1> QED BY <1>1, <1>5

(* A double sum may be taken in either order.                              *)
IsGrid(a, R, E) == \A r \in R : NatOn(a[r], E)

ColumnSum(a, R, x) == SumFunctionOnSet([r \in R |-> a[r][x]], R)

LEMMA SumsSwap ==
  ASSUME NEW R, IsFiniteSet(R), NEW E, IsFiniteSet(E), NEW a, IsGrid(a, R, E),
         NEW g, \A r \in R : g[r] = SumFunctionOnSet(a[r], E),
         NEW h, \A x \in E : h[x] = ColumnSum(a, R, x)
  PROVE  /\ NatOn(g, R) /\ NatOn(h, E)
         /\ SumFunctionOnSet(g, R) = SumFunctionOnSet(h, E)
<1> DEFINE Column(x) == [r \in R |-> a[r][x]]
           Upto(U) == [x \in E |-> SumFunctionOnSet(Column(x), U)]
           Swapped == {U \in SUBSET R : SumFunctionOnSet(g, U) = SumFunctionOnSet(Upto(U), E)}
<1>1. NatOn(g, R)
  <2> SUFFICES ASSUME NEW r \in R PROVE g[r] \in Nat
    BY DEF NatOn
  <2>1. \A x \in E : a[r][x] \in Nat
    BY DEF IsGrid, NatOn
  <2>2. SumFunctionOnSet(a[r], E) \in Nat
    BY <2>1, SumIsNat
  <2> QED BY <2>2
<1>2. \A x \in E : NatOn(Column(x), R)
  BY DEF IsGrid, NatOn
<1>3. \A U \in SUBSET R : IsFiniteSet(U)
  BY FS_Subset
<1>4. ASSUME NEW U \in SUBSET R PROVE NatOn(Upto(U), E)
  <2> SUFFICES ASSUME NEW x \in E PROVE SumFunctionOnSet(Column(x), U) \in Nat
    BY DEF NatOn
  <2>1. \A r \in U : Column(x)[r] \in Nat
    BY <1>2 DEF NatOn
  <2> HIDE DEF Column
  <2> QED BY <1>3, <2>1, SumIsNat
<1>5. {} \in Swapped
  <2>1. \A x \in E : Upto({})[x] = 0
    BY SumEmpty
  <2> HIDE DEF Upto
  <2>2. SumFunctionOnSet(Upto({}), E) = 0
    BY <2>1, ZeroSum
  <2> QED BY <2>2, SumEmpty
<1>6. ASSUME NEW U \in SUBSET R, NEW r \in R \ U, U \in Swapped PROVE U \cup {r} \in Swapped
  <2>1. SumFunctionOnSet(g, U \cup {r}) = g[r] + SumFunctionOnSet(g, U)
    <3>1. NatOn(g, U \cup {r})
      BY <1>1 DEF NatOn
    <3> QED BY <1>3, <3>1, SumAdd
  <2>2. IsPlus(Upto(U \cup {r}), a[r], Upto(U), E)
    <3> SUFFICES ASSUME NEW x \in E
                 PROVE  Upto(U \cup {r})[x] = a[r][x] + Upto(U)[x]
      BY DEF IsPlus
    <3>1. NatOn(Column(x), U \cup {r}) /\ Column(x)[r] = a[r][x]
      BY <1>2 DEF NatOn
    <3> HIDE DEF Column
    <3>2. SumFunctionOnSet(Column(x), U \cup {r}) = Column(x)[r] + SumFunctionOnSet(Column(x), U)
      BY <1>3, <3>1, SumAdd
    <3> QED BY <3>1, <3>2
  <2>3. NatOn(Upto(U), E) /\ NatOn(a[r], E)
    BY <1>4 DEF IsGrid
  <2> HIDE DEF Upto
  <2>4. SumFunctionOnSet(Upto(U \cup {r}), E)
          = SumFunctionOnSet(a[r], E) + SumFunctionOnSet(Upto(U), E)
    BY <2>2, <2>3, SumPlus
  <2>5. U \cup {r} \in SUBSET R /\ SumFunctionOnSet(g, U) = SumFunctionOnSet(Upto(U), E)
    BY <1>6
  <2> QED BY <2>1, <2>4, <2>5
<1>7. SumFunctionOnSet(g, R) = SumFunctionOnSet(Upto(R), E)
  <2>1. R \in Swapped
    <3> HIDE DEF Swapped
    <3> QED BY <1>5, <1>6, SubsetInduction
  <2> QED BY <2>1
<1>8. AgreeOn(h, Upto(R), E) /\ NatOn(h, E)
  <2>1. \A x \in E : h[x] = Upto(R)[x]
    BY DEF ColumnSum
  <2>2. NatOn(Upto(R), E)
    BY <1>4
  <2> HIDE DEF Upto
  <2> QED BY <2>1, <2>2 DEF AgreeOn, NatOn
<1> HIDE DEF Upto
<1>9. SumFunctionOnSet(h, E) = SumFunctionOnSet(Upto(R), E)
  BY <1>8, SumSame
<1> QED BY <1>1, <1>7, <1>8, <1>9

(* A sum of differences, each of the two sides weighed.                    *)
LEMMA SumOfDifferences ==
  ASSUME NEW S, IsFiniteSet(S), NEW f, NatOn(f, S), NEW g, NatOn(g, S), NEW m \in Nat, NEW n \in Nat,
         NEW d, \A x \in S : d[x] = g[x] * m - f[x] * n
  PROVE  SumFunctionOnSet(d, S) = SumFunctionOnSet(g, S) * m - SumFunctionOnSet(f, S) * n
<1> DEFINE P == {T \in SUBSET S :
             SumFunctionOnSet(d, T) = SumFunctionOnSet(g, T) * m - SumFunctionOnSet(f, T) * n}
           N == {i \in Nat : \A T \in SUBSET S : Cardinality(T) = i => T \in P}
<1>1. \A T \in SUBSET S : IsFiniteSet(T) /\ Cardinality(T) \in Nat
  BY FS_Subset, FS_CardinalityType
<1>2. 0 \in N
  <2> SUFFICES ASSUME NEW T \in SUBSET S, Cardinality(T) = 0 PROVE T \in P
    OBVIOUS
  <2>1. T = {}
    BY <1>1, FS_EmptySet
  <2>2. 0 = 0 * m - 0 * n
    OBVIOUS
  <2> QED BY <2>1, <2>2, SumEmpty
<1>3. ASSUME NEW i \in Nat, i \in N PROVE i + 1 \in N
  <2> SUFFICES ASSUME NEW T \in SUBSET S, Cardinality(T) = i + 1 PROVE T \in P
    BY <1>3
  <2> DEFINE x == One(T)
             U == T \ {x}
             F == SumFunctionOnSet(f, U)
             G == SumFunctionOnSet(g, U)
             D == SumFunctionOnSet(d, U)
  <2>1. T # {} /\ IsFiniteSet(T)
    BY <1>1, FS_EmptySet
  <2>2. /\ SumFunctionOnSet(f, T) = f[x] + F
        /\ SumFunctionOnSet(g, T) = g[x] + G
        /\ SumFunctionOnSet(d, T) = d[x] + D
    BY <2>1, SumUnfold
  <2>3. x \in T
    BY <2>1, AnyIsElement
  <2>4. U \in SUBSET S /\ Cardinality(U) = i
    BY <2>1, <2>3, WithoutAny
  <2>5. D = G * m - F * n
    <3>1. U \in P
      BY <1>3, <2>4
    <3> QED BY <3>1
  <2>6. F \in Nat /\ G \in Nat /\ f[x] \in Nat /\ g[x] \in Nat
    <3>1. IsFiniteSet(U) /\ \A y \in U : f[y] \in Nat /\ g[y] \in Nat
      BY <1>1, <2>4 DEF NatOn
    <3> HIDE DEF U
    <3>2. F \in Nat /\ G \in Nat
      BY <3>1, SumIsNat
    <3> QED BY <2>3, <3>2 DEF NatOn
  <2>7. d[x] = g[x] * m - f[x] * n
    BY <2>3
  <2> HIDE DEF x, F, G, D
  <2>8. (g[x] + G) * m = g[x] * m + G * m /\ (f[x] + F) * n = f[x] * n + F * n
    BY <2>6
  <2>9. g[x] * m \in Int /\ G * m \in Int /\ f[x] * n \in Int /\ F * n \in Int
    BY <2>6
  <2>10. d[x] + D = (g[x] + G) * m - (f[x] + F) * n
    BY <2>5, <2>7, <2>8, <2>9
  <2> QED BY <2>2, <2>10
<1>4. Cardinality(S) \in N
  <2> HIDE DEF N
  <2> QED BY <1>1, <1>2, <1>3, SetInduction
<1> QED BY <1>4

LEMMA MinIsElement ==
  ASSUME NEW S \in SUBSET Nat, S # {}
  PROVE  Min(S) \in S /\ \A y \in S : Min(S) <= y
<1>1. PICK m \in S : \A y \in S : m <= y
  BY LeastExists
<1>2. \E x \in S : \A y \in S : x <= y
  BY <1>1
<1> QED BY <1>2 DEF Min

(* Counts of the octaves of a schedule of n bins.                          *)
AreOctaves(counts, n) == n \in Nat /\ counts \in [0..(n - 1) -> Nat]

UpTo(counts, b) == SumFunctionOnSet(counts, 0..b)

LEMMA UpToGrows ==
  ASSUME NEW n, NEW counts, AreOctaves(counts, n), NEW b \in 0..(n - 1)
  PROVE  /\ UpTo(counts, b) \in Nat /\ UpTo(counts, b) <= SumFunction(counts)
         /\ SumFunction(counts) \in Nat
         /\ \A a \in 0..b : UpTo(counts, a) <= UpTo(counts, b)
<1>1. n \in Nat /\ DOMAIN counts = 0..(n - 1) /\ \A x \in 0..(n - 1) : counts[x] \in Nat
  BY DEF AreOctaves
<1>2. IsFiniteSet(0..(n - 1)) /\ NatOn(counts, 0..(n - 1)) /\ 0..b \in SUBSET (0..(n - 1))
  BY <1>1, FS_Interval DEF NatOn
<1>3. UpTo(counts, b) \in Nat /\ SumFunctionOnSet(counts, 0..(n - 1)) \in Nat
  <2>1. IsFiniteSet(0..b) /\ \A x \in 0..b : counts[x] \in Nat
    BY <1>1, <1>2, FS_Subset
  <2> QED BY <1>1, <1>2, <2>1, SumIsNat DEF UpTo
<1>4. UpTo(counts, b) <= SumFunctionOnSet(counts, 0..(n - 1))
  BY <1>2, SumOfPart DEF UpTo
<1>5. ASSUME NEW a \in 0..b PROVE UpTo(counts, a) <= UpTo(counts, b)
  <2>1. 0..a \in SUBSET (0..b) /\ IsFiniteSet(0..b) /\ NatOn(counts, 0..b)
    BY <1>1, <1>2, FS_Subset DEF NatOn
  <2> QED BY <2>1, SumOfPart DEF UpTo
<1> QED BY <1>1, <1>3, <1>4, <1>5 DEF SumFunction

LEMMA AllAreUpToTheLast ==
  ASSUME NEW n, NEW counts, AreOctaves(counts, n)
  PROVE  /\ n = 0 => SumFunction(counts) = 0
         /\ n > 0 => n - 1 \in 0..(n - 1) /\ UpTo(counts, n - 1) = SumFunction(counts)
<1>1. n \in Nat /\ DOMAIN counts = 0..(n - 1)
  BY DEF AreOctaves
<1>2. n = 0 => 0..(n - 1) = {}
  BY <1>1
<1> QED BY <1>1, <1>2, SumEmpty DEF SumFunction, UpTo

LEMMA ScaledGrows ==
  ASSUME NEW m \in Nat, NEW x \in Nat, NEW y \in Nat, x <= y
  PROVE  m * x \in Nat /\ m * y \in Nat /\ m * x <= m * y
<1>1. y - x \in Nat /\ m * (y - x) \in Nat /\ m * y = m * x + m * (y - x)
  OBVIOUS
<1>2. m * x \in Nat /\ m * y \in Nat
  OBVIOUS
<1> QED BY <1>1, <1>2

(* The octave of the k-th of the counts repeated is the first up to which  *)
(* there are k of them.                                                    *)
LEMMA QuantileIs ==
  ASSUME NEW n, NEW counts, AreOctaves(counts, n), NEW by \in Nat, NEW k \in 1..(by * SumFunction(counts))
  PROVE  /\ Quantile(counts, by, k) \in 0..(n - 1)
         /\ \A b \in 0..(n - 1) : Quantile(counts, by, k) <= b <=> by * UpTo(counts, b) >= k
<1> DEFINE Q == {b \in 0..(n - 1) : by * UpTo(counts, b) >= k}
           total == SumFunction(counts)
<1>1. n \in Nat /\ DOMAIN counts = 0..(n - 1)
  BY DEF AreOctaves
<1>2. Quantile(counts, by, k) = Min(Q)
  BY <1>1 DEF Quantile, UpTo
<1>3. n > 0
  <2>1. CASE n = 0
    <3>1. total = 0
      BY <2>1, AllAreUpToTheLast
    <3>2. by * total = 0
      BY <3>1
    <3>3. FALSE
      BY <3>2
    <3> QED BY <3>3
  <2> QED BY <1>1, <2>1
<1>4. n - 1 \in 0..(n - 1) /\ UpTo(counts, n - 1) = total
  BY <1>3, AllAreUpToTheLast
<1>5. n - 1 \in Q
  <2>1. total \in Nat
    BY <1>4, UpToGrows
  <2>2. by * total \in Nat /\ k <= by * total
    BY <2>1
  <2> HIDE DEF total
  <2> QED BY <1>4, <2>2
<1>6. Min(Q) \in Q /\ \A b \in Q : Min(Q) <= b
  <2>1. Q \in SUBSET Nat /\ Q # {}
    BY <1>1, <1>5
  <2> HIDE DEF Q
  <2> QED BY <2>1, MinIsElement
<1> DEFINE q == Min(Q)
<1> HIDE DEF total
<1>7. ASSUME NEW b \in 0..(n - 1), q <= b PROVE by * UpTo(counts, b) >= k
  <2>1. q \in 0..b /\ by * UpTo(counts, q) >= k /\ q \in 0..(n - 1)
    BY <1>1, <1>6, <1>7
  <2> HIDE DEF q
  <2>2. UpTo(counts, q) \in Nat /\ UpTo(counts, b) \in Nat /\ UpTo(counts, q) <= UpTo(counts, b)
    BY <2>1, UpToGrows
  <2>3. by * UpTo(counts, q) \in Nat /\ by * UpTo(counts, b) \in Nat
        /\ by * UpTo(counts, q) <= by * UpTo(counts, b)
    BY <2>2, ScaledGrows
  <2>4. k \in Int
    OBVIOUS
  <2> QED BY <2>1, <2>3, <2>4
<1>8. q \in 0..(n - 1) /\ \A b \in 0..(n - 1) : by * UpTo(counts, b) >= k => q <= b
  BY <1>6
<1> HIDE DEF q
<1>9. Quantile(counts, by, k) = q
  BY <1>2 DEF q
<1> QED BY <1>7, <1>8, <1>9

(* The octaves between p and q, from which the one is passed and the other *)
(* is not; and the ranks between x and y.                                  *)
LEMMA OctavesBetween ==
  ASSUME NEW n \in Nat, NEW p \in 0..(n - 1), NEW q \in 0..(n - 1)
  PROVE  /\ Cardinality({b \in 0..(n - 1) : ~(p <= b <=> q <= b)}) = Magnitude(p - q)
         /\ Magnitude(p - q) \in Nat
<1> DEFINE B == {b \in 0..(n - 1) : ~(p <= b <=> q <= b)}
<1>1. Magnitude(p - q) = IF p <= q THEN q - p ELSE p - q
  BY DEF Magnitude
<1>2. B = IF p <= q THEN p..(q - 1) ELSE q..(p - 1)
  OBVIOUS
<1>3. p <= q => Cardinality(p..(q - 1)) = q - p
  <2>1. p \in Int /\ q - 1 \in Int
    OBVIOUS
  <2>2. Cardinality(p..(q - 1)) = IF p > q - 1 THEN 0 ELSE (q - 1) - p + 1
    BY <2>1, FS_Interval
  <2> QED BY <2>2
<1>4. ~(p <= q) => Cardinality(q..(p - 1)) = p - q
  <2>1. q \in Int /\ p - 1 \in Int
    OBVIOUS
  <2>2. Cardinality(q..(p - 1)) = IF q > p - 1 THEN 0 ELSE (p - 1) - q + 1
    BY <2>1, FS_Interval
  <2> QED BY <2>2
<1>5. Cardinality(B) = Magnitude(p - q)
  <2> HIDE DEF B
  <2> QED BY <1>1, <1>2, <1>3, <1>4
<1> QED BY <1>1, <1>5

LEMMA RanksBetween ==
  ASSUME NEW m \in Nat, NEW x \in 0..m, NEW y \in 0..m
  PROVE  /\ Cardinality({k \in 1..m : ~(x >= k <=> y >= k)}) = Magnitude(x - y)
         /\ Magnitude(x - y) \in Nat
<1> DEFINE B == {k \in 1..m : ~(x >= k <=> y >= k)}
<1>1. Magnitude(x - y) = IF x <= y THEN y - x ELSE x - y
  BY DEF Magnitude
<1>2. B = IF x <= y THEN (x + 1)..y ELSE (y + 1)..x
  OBVIOUS
<1>3. x <= y => Cardinality((x + 1)..y) = y - x
  <2>1. x + 1 \in Int /\ y \in Int
    OBVIOUS
  <2>2. Cardinality((x + 1)..y) = IF x + 1 > y THEN 0 ELSE y - (x + 1) + 1
    BY <2>1, FS_Interval
  <2> QED BY <2>2
<1>4. ~(x <= y) => Cardinality((y + 1)..x) = x - y
  <2>1. y + 1 \in Int /\ x \in Int
    OBVIOUS
  <2>2. Cardinality((y + 1)..x) = IF y + 1 > x THEN 0 ELSE x - (y + 1) + 1
    BY <2>1, FS_Interval
  <2> QED BY <2>2
<1>5. Cardinality(B) = Magnitude(x - y)
  <2> HIDE DEF B
  <2> QED BY <1>1, <1>2, <1>3, <1>4
<1> QED BY <1>1, <1>5

(* Paired quantile by quantile, two windows are as far apart as their      *)
(* cumulative counts are, each over the other's total.                     *)
Gap(prev, cur, b) ==
  Magnitude(UpTo(cur, b) * SumFunction(prev) - UpTo(prev, b) * SumFunction(cur))

LEMMA DistanceIs ==
  ASSUME NEW n, NEW prev, NEW cur, AreOctaves(prev, n), AreOctaves(cur, n)
  PROVE  Distance(prev, cur)
           = SumFunctionOnSet([b \in 0..(n - 1) |-> Gap(prev, cur, b)], 0..(n - 1))
<1> DEFINE P == SumFunction(prev)
           C == SumFunction(cur)
           E == 0..(n - 1)
           R == 1..(P * C)
           p(k) == Quantile(prev, C, k)
           q(k) == Quantile(cur, P, k)
           Crossed(k) == {b \in E : ~(p(k) <= b <=> q(k) <= b)}
           Passing(b) == {k \in R : ~(p(k) <= b <=> q(k) <= b)}
           a == [k \in R |-> [b \in E |-> IF b \in Crossed(k) THEN 1 ELSE 0]]
           g == [k \in R |-> Magnitude(p(k) - q(k))]
           h == [b \in E |-> Gap(prev, cur, b)]
<1>1. n \in Nat /\ P \in Nat /\ C \in Nat
  <2>1. n \in Nat
    BY DEF AreOctaves
  <2>2. CASE n = 0
    BY <2>1, <2>2, AllAreUpToTheLast
  <2>3. CASE n > 0
    <3>1. n - 1 \in 0..(n - 1)
      BY <2>1, <2>3
    <3> QED BY <2>1, <3>1, UpToGrows
  <2> QED BY <2>1, <2>2, <2>3
<1>2. P * C \in Nat /\ P * C = C * P
  BY <1>1
<1>3. IsFiniteSet(E) /\ IsFiniteSet(R)
  BY <1>1, <1>2, FS_Interval
<1>4. ASSUME NEW k \in R
      PROVE  /\ p(k) \in E /\ q(k) \in E
             /\ \A b \in E : p(k) <= b <=> C * UpTo(prev, b) >= k
             /\ \A b \in E : q(k) <= b <=> P * UpTo(cur, b) >= k
  <2>1. k \in 1..(C * P) /\ k \in 1..(P * C)
    BY <1>2
  <2> QED BY <1>1, <2>1, QuantileIs
<1> HIDE DEF p, q
<1>5. ASSUME NEW k \in R
      PROVE  NatOn(a[k], E) /\ g[k] = SumFunctionOnSet(a[k], E)
  <2>1. g[k] = Magnitude(p(k) - q(k)) /\ a[k] = [b \in E |-> IF b \in Crossed(k) THEN 1 ELSE 0]
    OBVIOUS
  <2>2. \A b \in E : a[k][b] = IF b \in Crossed(k) THEN 1 ELSE 0
    BY <2>1
  <2>3. E \cap Crossed(k) = Crossed(k)
    OBVIOUS
  <2>4. Cardinality(Crossed(k)) = Magnitude(p(k) - q(k))
    BY <1>1, <1>4, OctavesBetween
  <2> HIDE DEF a, g, Between, E, R
  <2>5. NatOn(a[k], E) /\ SumFunctionOnSet(a[k], E) = Cardinality(E \cap Crossed(k))
    BY <1>3, <2>2, CountIsSum
  <2> QED BY <2>1, <2>3, <2>4, <2>5
<1>6. ASSUME NEW b \in E PROVE h[b] = ColumnSum(a, R, b)
  <2> DEFINE x == C * UpTo(prev, b)
             y == P * UpTo(cur, b)
             m == P * C
             f == [k \in R |-> a[k][b]]
  <2>1. /\ UpTo(prev, b) \in Nat /\ UpTo(prev, b) <= P
        /\ UpTo(cur, b) \in Nat /\ UpTo(cur, b) <= C
    BY UpToGrows
  <2>2. x \in 0..m /\ y \in 0..m
    <3>1. x \in Nat /\ x <= C * P
      BY <1>1, <2>1, ScaledGrows
    <3>2. y \in Nat /\ y <= P * C
      BY <1>1, <2>1, ScaledGrows
    <3> QED BY <1>2, <3>1, <3>2
  <2>3. Passing(b) = {k \in 1..m : ~(x >= k <=> y >= k)}
    BY <1>4
  <2>4. \A k \in R : f[k] = IF k \in Passing(b) THEN 1 ELSE 0
    OBVIOUS
  <2>5. h[b] = Magnitude(UpTo(cur, b) * P - UpTo(prev, b) * C)
    BY DEF Gap
  <2>6. ColumnSum(a, R, b) = SumFunctionOnSet(f, R)
    BY DEF ColumnSum
  <2>7. Magnitude(UpTo(cur, b) * P - UpTo(prev, b) * C) = Magnitude(x - y)
    <3>1. x = UpTo(prev, b) * C /\ y = UpTo(cur, b) * P /\ x \in Int /\ y \in Int
      BY <1>1, <2>1
    <3> HIDE DEF x, y
    <3> QED BY <3>1 DEF Magnitude
  <2>8. R \cap Passing(b) = Passing(b)
    OBVIOUS
  <2> HIDE DEF f, Passing, x, y, m, a, h, E
  <2>9. Cardinality(Passing(b)) = Magnitude(x - y)
    <3>1. m \in Nat
      BY <1>2 DEF m
    <3> QED BY <2>2, <2>3, <3>1, RanksBetween
  <2> HIDE DEF R
  <2>10. SumFunctionOnSet(f, R) = Cardinality(R \cap Passing(b))
    BY <1>3, <2>4, CountIsSum
  <2> QED BY <2>5, <2>6, <2>7, <2>8, <2>9, <2>10
<1>7. IsGrid(a, R, E)
  BY <1>5 DEF IsGrid
<1>8. Distance(prev, cur) = SumFunctionOnSet(g, R)
  BY DEF Distance, SumFunction, p, q
<1> HIDE DEF a, g, h, R, E, P, C
<1>9. SumFunctionOnSet(g, R) = SumFunctionOnSet(h, E)
  BY <1>3, <1>5, <1>6, <1>7, SumsSwap
<1> QED BY <1>8, <1>9 DEF h, E

(* The cumulative counts add up to what the octaves leave of all of them.  *)
LEMMA SharesAndOctaves ==
  ASSUME NEW n, NEW counts, AreOctaves(counts, n)
  PROVE  /\ SumFunction(counts) \in Nat /\ Octaves(counts) \in Nat
         /\ NatOn([b \in 0..(n - 1) |-> UpTo(counts, b)], 0..(n - 1))
         /\ SumFunctionOnSet([b \in 0..(n - 1) |-> UpTo(counts, b)], 0..(n - 1))
              = n * SumFunction(counts) - Octaves(counts)
<1> DEFINE E == 0..(n - 1)
           F == [b \in E |-> UpTo(counts, b)]
           w == [b \in E |-> b * counts[b]]
           To(f, i) == SumFunctionOnSet(f, 0..(i - 1))
           Even == {i \in 0..n : To(F, i) + To(w, i) = i * To(counts, i)}
<1>1. n \in Nat /\ DOMAIN counts = E /\ \A x \in E : counts[x] \in Nat
  BY DEF AreOctaves
<1>2. IsFiniteSet(E) /\ NatOn(counts, E)
  BY <1>1, FS_Interval DEF NatOn
<1>3. NatOn(F, E) /\ NatOn(w, E)
  <2>1. \A b \in E : UpTo(counts, b) \in Nat
    BY UpToGrows
  <2>2. \A b \in E : b * counts[b] \in Nat
    BY <1>1
  <2> QED BY <2>1, <2>2 DEF NatOn
<1>4. 0 \in Even
  <2>1. 0..(0 - 1) = {} /\ 0 \in 0..n
    BY <1>1
  <2>2. To(F, 0) = 0 /\ To(w, 0) = 0 /\ To(counts, 0) = 0
    BY <2>1, SumEmpty
  <2> HIDE DEF To
  <2> QED BY <2>1, <2>2
<1>t. ASSUME NEW f, NatOn(f, E), NEW i \in 1..n
      PROVE  To(f, i) = f[i - 1] + To(f, i - 1) /\ f[i - 1] \in Nat /\ To(f, i - 1) \in Nat
  <2> DEFINE x == i - 1
             S == 0..(x - 1)
  <2>1. x \in E /\ x \notin S /\ S \cup {x} = 0..x /\ 0..x \in SUBSET E
    BY <1>1
  <2>2. IsFiniteSet(S) /\ NatOn(f, S \cup {x}) /\ \A y \in S : f[y] \in Nat
    <3>1. IsFiniteSet(S)
      BY <1>1, FS_Interval
    <3> HIDE DEF S, x, E
    <3>2. S \cup {x} \in SUBSET E
      BY <2>1
    <3> QED BY <1>t, <3>1, <3>2 DEF NatOn
  <2> HIDE DEF S, x
  <2>3. SumFunctionOnSet(f, S \cup {x}) = f[x] + SumFunctionOnSet(f, S) /\ SumFunctionOnSet(f, S) \in Nat
    BY <2>1, <2>2, SumAdd, SumIsNat
  <2>4. f[x] \in Nat
    BY <2>2 DEF NatOn
  <2> QED BY <2>1, <2>3, <2>4 DEF S, x
<1>5. ASSUME NEW i \in 1..n, i - 1 \in Even PROVE i \in Even
  <2> DEFINE x == i - 1
             A == To(F, x)
             B == To(w, x)
             T == To(counts, x)
             c == counts[x]
  <2>1. /\ To(F, i) = F[x] + A /\ To(w, i) = w[x] + B /\ To(counts, i) = c + T
        /\ A \in Nat /\ B \in Nat /\ T \in Nat /\ c \in Nat
    BY <1>2, <1>3, <1>t
  <2>2. x \in E /\ x \in Nat /\ i \in 0..n /\ i = x + 1
    BY <1>1
  <2>3. F[x] = To(counts, i) /\ w[x] = x * c
    BY <2>2 DEF UpTo
  <2>4. A + B = x * T
    BY <1>5
  <2> HIDE DEF x, A, B, T, c, To, F, w
  <2>5. (x + 1) * (c + T) = x * c + x * T + c + T
    BY <2>1, <2>2
  <2>6. x * c \in Nat /\ x * T \in Nat
    BY <2>1, <2>2
  <2>7. To(F, i) + To(w, i) = (x + 1) * (c + T)
    BY <2>1, <2>3, <2>4, <2>5, <2>6
  <2>8. To(F, i) + To(w, i) = i * To(counts, i)
    BY <2>1, <2>2, <2>7
  <2> QED BY <2>2, <2>8
<1>6. To(F, n) + To(w, n) = n * To(counts, n)
  <2>1. 0..n \subseteq Even
    <3> HIDE DEF Even
    <3> QED BY <1>1, <1>4, <1>5, RunInduction
  <2>2. n \in 0..n
    BY <1>1
  <2>3. n \in Even
    BY <2>1, <2>2
  <2> QED BY <2>3
<1>7. To(counts, n) = SumFunction(counts) /\ To(w, n) = Octaves(counts)
  <2>1. DOMAIN w = E /\ [b \in DOMAIN counts |-> b * counts[b]] = w
    BY <1>1
  <2> QED BY <1>1, <2>1 DEF SumFunction, Octaves
<1>8. To(F, n) \in Nat /\ To(w, n) \in Nat /\ To(counts, n) \in Nat
  <2>1. \A x \in E : F[x] \in Nat /\ w[x] \in Nat /\ counts[x] \in Nat
    BY <1>2, <1>3 DEF NatOn
  <2> HIDE DEF F, w, E
  <2>2. SumFunctionOnSet(F, E) \in Nat /\ SumFunctionOnSet(w, E) \in Nat /\ SumFunctionOnSet(counts, E) \in Nat
    BY <1>2, <2>1, SumIsNat
  <2> QED BY <2>2 DEF E
<1>9. To(F, n) = SumFunctionOnSet(F, E)
  OBVIOUS
<1> HIDE DEF F, w, To
<1>10. n * To(counts, n) \in Nat
  BY <1>1, <1>8
<1> QED BY <1>3, <1>6, <1>7, <1>8, <1>9, <1>10 DEF F

(* Where both windows observed durations, the band of ordinal_w1 is that   *)
(* of their distance, and its direction the one their mean octave moved.   *)
LEMMA DriftIs ==
  ASSUME NEW n, NEW prev, NEW cur, AreOctaves(prev, n), AreOctaves(cur, n),
         SumFunction(prev) # 0, SumFunction(cur) # 0
  PROVE  LET pairs == SumFunction(prev) * SumFunction(cur)
             apart == Distance(prev, cur)
             moved == Moved(prev, cur)
         IN  /\ pairs \in Nat /\ pairs > 0 /\ apart \in Nat /\ moved \in Int
             /\ OrdinalW1(prev, cur, SumFunction(prev), SumFunction(cur))
                  = [shift |-> IF apart >= 5 * pairs THEN "High"
                               ELSE IF apart >= 2 * pairs THEN "Med"
                               ELSE IF 2 * apart >= pairs THEN "Low" ELSE "None",
                     direction |-> IF moved > 0 THEN "Up" ELSE IF moved < 0 THEN "Down" ELSE "None"]
<1> DEFINE P == SumFunction(prev)
           C == SumFunction(cur)
           E == 0..(n - 1)
           apart == Distance(prev, cur)
           moved == Moved(prev, cur)
           term == [bin \in DOMAIN prev \cap DOMAIN cur |-> SignedTerm(prev, cur, P, C, bin)]
           far == [bin \in DOMAIN term |-> Magnitude(term[bin])]
           F == [b \in E |-> UpTo(prev, b)]
           G == [b \in E |-> UpTo(cur, b)]
<1>1. n \in Nat /\ DOMAIN prev = E /\ DOMAIN cur = E /\ IsFiniteSet(E)
  BY FS_Interval DEF AreOctaves
<1>2. /\ P \in Nat /\ Octaves(prev) \in Nat /\ NatOn(F, E)
      /\ SumFunctionOnSet(F, E) = n * P - Octaves(prev)
      /\ C \in Nat /\ Octaves(cur) \in Nat /\ NatOn(G, E)
      /\ SumFunctionOnSet(G, E) = n * C - Octaves(cur)
  BY SharesAndOctaves
<1>3. DOMAIN term = E /\ DOMAIN far = E
  BY <1>1
<1>4. \A b \in E : term[b] = G[b] * P - F[b] * C
  <2>1. \A b \in E : {x \in E : x <= b} = 0..b
    BY <1>1
  <2>2. \A b \in E : Cumulative(prev, b) = UpTo(prev, b) /\ Cumulative(cur, b) = UpTo(cur, b)
    BY <1>1, <2>1 DEF Cumulative, UpTo
  <2> QED BY <1>1, <2>2 DEF SignedTerm
<1>5. SumFunction(far) = apart
  <2>1. \A b \in E : far[b] = Gap(prev, cur, b)
    BY <1>3, <1>4 DEF Gap
  <2>2. far = [b \in E |-> Gap(prev, cur, b)]
    BY <1>3, <2>1
  <2> HIDE DEF far
  <2>3. apart = SumFunctionOnSet(far, E)
    BY <2>2, DistanceIs
  <2> QED BY <1>3, <2>3 DEF SumFunction
<1>6. apart \in Nat
  <2>1. \A b \in E : term[b] \in Int
    <3>1. \A b \in E : G[b] \in Nat /\ F[b] \in Nat
      BY <1>2 DEF NatOn
    <3> HIDE DEF F, G, term, P, C
    <3> QED BY <1>2, <1>4, <3>1
  <2>2. \A b \in E : far[b] = Magnitude(term[b])
    BY <1>3
  <2> HIDE DEF far, apart, term
  <2>4. \A b \in E : far[b] \in Nat
    BY <2>1, <2>2 DEF Magnitude
  <2>3. SumFunctionOnSet(far, E) \in Nat
    BY <1>1, <2>4, SumIsNat
  <2> QED BY <1>3, <1>5, <2>3 DEF SumFunction
<1>7. SumFunction(term) = -moved /\ moved \in Int
  <2> HIDE DEF term, F, G
  <2>1. SumFunctionOnSet(term, E) = SumFunctionOnSet(G, E) * P - SumFunctionOnSet(F, E) * C
    <3> HIDE DEF E, P, C
    <3>1. /\ IsFiniteSet(E) /\ NatOn(F, E) /\ NatOn(G, E) /\ P \in Nat /\ C \in Nat
          /\ \A b \in E : term[b] = G[b] * P - F[b] * C
      BY <1>1, <1>2, <1>4
    <3> QED BY ONLY <3>1, SumOfDifferences
  <2> DEFINE p == Octaves(prev)
             q == Octaves(cur)
  <2>2. moved = q * P - p * C
    BY DEF Moved
  <2>3. SumFunctionOnSet(term, E) = (n * C - q) * P - (n * P - p) * C
    BY <1>2, <2>1
  <2> HIDE DEF p, q, P, C, moved
  <2>4. p \in Nat /\ q \in Nat /\ P \in Nat /\ C \in Nat /\ n \in Nat
    BY <1>1, <1>2 DEF p, q
  <2>5. (n * C - q) * P = (n * C) * P - q * P /\ (n * P - p) * C = (n * P) * C - p * C
    BY <2>4
  <2>6. (n * C) * P = (n * P) * C
    BY <2>4
  <2>7. q * P \in Int /\ p * C \in Int /\ (n * C) * P \in Int
    BY <2>4
  <2>8. (n * C - q) * P - (n * P - p) * C = -(q * P - p * C)
    BY <2>5, <2>6, <2>7
  <2>9. SumFunctionOnSet(term, E) = -moved /\ moved \in Int
    BY <2>2, <2>3, <2>7, <2>8
  <2> QED BY <1>3, <2>9 DEF SumFunction
<1>8. P * C \in Nat /\ P * C > 0
  <2>1. P \in Nat /\ C \in Nat /\ P # 0 /\ C # 0
    BY <1>2
  <2> HIDE DEF P, C
  <2> QED BY <2>1
<1> DEFINE pairs == P * C
           Band == IF apart * 1 >= 5 * P * C THEN "High" ELSE IF apart * 1 >= 2 * P * C THEN "Med"
                   ELSE IF apart * 2 >= 1 * P * C THEN "Low" ELSE "None"
           Way(s) == IF s < 0 THEN "Up" ELSE IF s > 0 THEN "Down" ELSE "None"
<1>9. OrdinalW1(prev, cur, P, C) = [shift |-> Band, direction |-> Way(SumFunction(term))]
  <2>1. 0 \notin {P, C}
    OBVIOUS
  <2> DEFINE Total == IF 0 \in {P, C} THEN NoDrift ELSE
                       [shift |-> IF SumFunction(far) * 1 >= 5 * P * C THEN "High"
                                  ELSE IF SumFunction(far) * 1 >= 2 * P * C THEN "Med"
                                  ELSE IF SumFunction(far) * 2 >= 1 * P * C THEN "Low" ELSE "None",
                        direction |-> Way(SumFunction(term))]
  <2>2. OrdinalW1(prev, cur, P, C) = Total
    BY DEF OrdinalW1
  <2> HIDE DEF term, far, P, C, apart
  <2> QED BY <1>5, <2>1, <2>2
<1>10. Band = IF apart >= 5 * pairs THEN "High" ELSE IF apart >= 2 * pairs THEN "Med"
              ELSE IF 2 * apart >= pairs THEN "Low" ELSE "None"
  <2>1. 5 * P * C = 5 * pairs /\ 2 * P * C = 2 * pairs /\ 1 * P * C = pairs
    <3>1. P \in Nat /\ C \in Nat
      BY <1>2
    <3> HIDE DEF P, C
    <3> QED BY <3>1
  <2>2. apart * 1 = apart /\ apart * 2 = 2 * apart
    BY <1>6
  <2> HIDE DEF pairs, apart, P, C
  <2> QED BY <2>1, <2>2
<1>11. Way(SumFunction(term)) = IF moved > 0 THEN "Up" ELSE IF moved < 0 THEN "Down" ELSE "None"
  <2> HIDE DEF term, moved
  <2> QED BY <1>7
<1> HIDE DEF Band, Way, apart, moved, term
<1>12. OrdinalW1(prev, cur, P, C)
         = [shift |-> IF apart >= 5 * pairs THEN "High" ELSE IF apart >= 2 * pairs THEN "Med"
                      ELSE IF 2 * apart >= pairs THEN "Low" ELSE "None",
            direction |-> IF moved > 0 THEN "Up" ELSE IF moved < 0 THEN "Down" ELSE "None"]
  BY <1>9, <1>10, <1>11
<1> QED BY <1>6, <1>7, <1>8, <1>12 DEF apart, moved

-----------------------------------------------------------------------------
(* The durations tabled in a window *)

DurationBins == 0..(Bins[DurationSchedule] - 1)

(* The observations of a field of an event that are durations in an octave. *)
Hits(e, f, bin) ==
  {k \in DOMAIN e.ordinals :
     /\ e.ordinals[k].field = f /\ e.ordinals[k].schedule = DurationSchedule
     /\ OrdinalBinIndex(DurationSchedule, e.ordinals[k].value) = bin}

Weighed(events, t, f, bin) ==
  [e \in DOMAIN events |-> IF e.template = t THEN events[e] * Cardinality(Hits(e, f, bin)) ELSE 0]

HitsIn(events, t, f, bin) == SumFunction(Weighed(events, t, f, bin))

(* The schedule of every observation of the field.                         *)
Declares(t, f, s) ==
  \A e \in Events : e.template = t => \A k \in DOMAIN e.ordinals :
    e.ordinals[k].field = f => e.ordinals[k].schedule = s

OrdinalRow == [schedule : DOMAIN Bins,
               counts : UNION {[0..(Bins[s] - 1) -> Nat] : s \in DOMAIN Bins}, total : Nat]

OrdinalTables == UNION {[F -> OrdinalRow] : F \in SUBSET STRING}

IsRowOf(row, t, f) ==
  /\ AreOctaves(row.counts, Bins[row.schedule]) /\ row.total = SumFunction(row.counts)
  /\ Declares(t, f, row.schedule)

AreRowsOf(ords, t) ==
  /\ ords \in OrdinalTables /\ IsFiniteSet(DOMAIN ords)
  /\ \A f \in DOMAIN ords : IsRowOf(ords[f], t, f)

Timed(ords, f, bin) ==
  IF f \in DOMAIN ords /\ ords[f].schedule = DurationSchedule THEN ords[f].counts[bin] ELSE 0

(* The rows count every duration of the events, field by field.            *)
IsTimedOf(ords, events, t) ==
  /\ AreRowsOf(ords, t)
  /\ \A f \in STRING, bin \in DurationBins : Timed(ords, f, bin) = HitsIn(events, t, f, bin)

LEMMA DurationsHaveBins ==
  /\ Bins[DurationSchedule] \in Nat /\ IsFiniteSet(DurationBins)
  /\ \A s \in DOMAIN Bins : Bins[s] \in Nat /\ IsFiniteSet(0..(Bins[s] - 1))
<1>1. \A s \in DOMAIN Bins : Bins[s] \in Nat
  BY FieldTablesAssumption
<1>2. ASSUME NEW s \in DOMAIN Bins PROVE IsFiniteSet(0..(Bins[s] - 1))
  <2>1. Bins[s] - 1 \in Int
    BY <1>1
  <2> QED BY <2>1, FS_Interval
<1> QED BY <1>1, <1>2, FieldLadderAssumption DEF DurationBins

LEMMA ObservationsAre ==
  ASSUME NEW e \in Events
  PROVE  /\ e.ordinals \in Seq([field : STRING, schedule : DOMAIN Bins, value : Nat])
         /\ Len(e.ordinals) \in Nat /\ DOMAIN e.ordinals = 1..Len(e.ordinals)
         /\ \A k \in DOMAIN e.ordinals :
              e.ordinals[k].field \in STRING /\ e.ordinals[k].schedule \in DOMAIN Bins
<1>1. e \in Event
  BY FieldLadderAssumption
<1>2. e.ordinals \in Seq([field : STRING, schedule : DOMAIN Bins, value : Nat])
  BY <1>1 DEF Event
<1> DEFINE q == e.ordinals
           Observation == [field : STRING, schedule : DOMAIN Bins, value : Nat]
<1>3. q \in Seq(Observation)
  BY <1>2 DEF q
<1> HIDE DEF q, Observation
<1>4. Len(q) \in Nat /\ DOMAIN q = 1..Len(q)
  BY <1>3
<1>5. \A k \in DOMAIN q : q[k] \in Observation
  BY <1>3, <1>4, ElementOfSeq
<1>6. \A k \in DOMAIN q : q[k].field \in STRING /\ q[k].schedule \in DOMAIN Bins
  BY <1>5 DEF Observation
<1> QED BY <1>3, <1>4, <1>6 DEF q, Observation

LEMMA RowsAreTyped ==
  ASSUME NEW t, NEW ords, AreRowsOf(ords, t), NEW f \in DOMAIN ords
  PROVE  /\ f \in STRING
         /\ ords[f].schedule \in DOMAIN Bins /\ ords[f].total \in Nat
         /\ ords[f].counts \in [0..(Bins[ords[f].schedule] - 1) -> Nat]
<1>1. PICK F \in SUBSET STRING : ords \in [F -> OrdinalRow]
  BY DEF AreRowsOf, OrdinalTables
<1>2. f \in F /\ ords[f] \in OrdinalRow
  BY <1>1
<1> QED BY <1>1, <1>2 DEF OrdinalRow, AreRowsOf, IsRowOf, AreOctaves

LEMMA TimedIsNat ==
  ASSUME NEW t, NEW ords, AreRowsOf(ords, t), NEW f, NEW bin \in DurationBins
  PROVE  Timed(ords, f, bin) \in Nat
<1>1. CASE f \in DOMAIN ords /\ ords[f].schedule = DurationSchedule
  <2>1. ords[f].counts \in [DurationBins -> Nat]
    BY <1>1, RowsAreTyped DEF DurationBins
  <2> QED BY <1>1, <2>1 DEF Timed
<1>2. CASE ~(f \in DOMAIN ords /\ ords[f].schedule = DurationSchedule)
  BY <1>2 DEF Timed
<1> QED BY <1>1, <1>2

(* A row made for a field first seen counts nothing.                       *)
LEMMA NoOctavesIsRow ==
  ASSUME NEW s \in DOMAIN Bins
  PROVE  LET row == NoOctaves(s) IN
         /\ row \in OrdinalRow /\ row.schedule = s
         /\ row.counts = [bin \in 0..(Bins[s] - 1) |-> 0]
         /\ AreOctaves(row.counts, Bins[s]) /\ row.total = SumFunction(row.counts)
<1> DEFINE zeros == [bin \in 0..(Bins[s] - 1) |-> 0]
<1>1. NoOctaves(s) = [schedule |-> s, counts |-> zeros, total |-> 0]
  BY DEF NoOctaves
<1>2. zeros \in [0..(Bins[s] - 1) -> Nat] /\ DOMAIN zeros = 0..(Bins[s] - 1)
  OBVIOUS
<1>3. SumFunction(zeros) = 0
  <2>1. IsFiniteSet(DOMAIN zeros) /\ \A x \in DOMAIN zeros : zeros[x] = 0
    BY <1>2, DurationsHaveBins
  <2> HIDE DEF zeros
  <2> QED BY <2>1, ZeroSum DEF SumFunction
<1>4. AreOctaves(zeros, Bins[s])
  BY <1>2, DurationsHaveBins DEF AreOctaves
<1>5. NoOctaves(s) \in OrdinalRow
  BY <1>1, <1>2 DEF OrdinalRow
<1> QED BY <1>1, <1>3, <1>4, <1>5

(* One observation counts in its own row and nowhere else.                 *)
LEMMA OrdinalObserved ==
  ASSUME NEW e \in Events, NEW k \in DOMAIN e.ordinals, NEW ords, AreRowsOf(ords, e.template)
  PROVE  LET new == ObserveOrdinal(ords, e.ordinals[k]) IN
         /\ AreRowsOf(new, e.template)
         /\ \A f \in STRING, bin \in DurationBins :
              Timed(new, f, bin) = Timed(ords, f, bin) + (IF k \in Hits(e, f, bin) THEN 1 ELSE 0)
<1> DEFINE t == e.template
           o == e.ordinals[k]
           field == o.field
           s == o.schedule
           b == OrdinalBinIndex(s, o.value)
           found == IF field \in DOMAIN ords THEN ords[field] ELSE NoOctaves(s)
           more == [found.counts EXCEPT ![b] = @ + 1]
           counted == [schedule |-> found.schedule, counts |-> more, total |-> found.total + 1]
           row == IF b \in DOMAIN found.counts THEN counted ELSE found
           D == DOMAIN ords \cup {field}
           new == [f \in D |-> IF f # field THEN ords[f]
                               ELSE IF b \in DOMAIN found.counts THEN counted ELSE found]
<1>1. ObserveOrdinal(ords, o) = new
  BY DEF ObserveOrdinal
<1>2. field \in STRING /\ s \in DOMAIN Bins
  BY ObservationsAre
<1>3. Declares(t, field, s)
  <2>1. \A d \in Events : d.template = t => \A i \in DOMAIN d.ordinals :
          d.ordinals[i].field = field => d.ordinals[i].schedule = s
    BY ScheduleAssumption
  <2> QED BY <2>1 DEF Declares
<1>4. /\ found \in OrdinalRow /\ found.schedule = s
      /\ AreOctaves(found.counts, Bins[s]) /\ found.total = SumFunction(found.counts)
      /\ field \notin DOMAIN ords => found.counts = [bin \in 0..(Bins[s] - 1) |-> 0]
  <2>1. CASE field \in DOMAIN ords
    <3>1. found = ords[field] /\ IsRowOf(ords[field], t, field)
      BY <2>1 DEF AreRowsOf
    <3>2. Declares(t, field, ords[field].schedule)
      BY <3>1 DEF IsRowOf
    <3>3. ords[field].schedule = s
      BY <3>2 DEF Declares
    <3>4. ords[field] \in OrdinalRow
      BY <2>1 DEF AreRowsOf, OrdinalTables
    <3> QED BY <2>1, <3>1, <3>3, <3>4 DEF IsRowOf
  <2>2. CASE field \notin DOMAIN ords
    <3>1. found = NoOctaves(s)
      BY <2>2
    <3> HIDE DEF found, s
    <3> QED BY <1>2, <3>1, NoOctavesIsRow
  <2> QED BY <2>1, <2>2
<1> DEFINE E == 0..(Bins[s] - 1)
<1>5. Bins[s] \in Nat /\ found.counts \in [E -> Nat] /\ DOMAIN found.counts = E /\ IsFiniteSet(E)
  BY <1>2, <1>4, DurationsHaveBins DEF AreOctaves
<1> HIDE DEF found
<1>6. /\ row \in OrdinalRow /\ row.schedule = s
      /\ AreOctaves(row.counts, Bins[s]) /\ row.total = SumFunction(row.counts)
      /\ \A bin \in E : row.counts[bin] = found.counts[bin] + (IF bin = b THEN 1 ELSE 0)
  <2>1. CASE b \notin E
    <3>1. row = found
      BY <1>5, <2>1
    <3>2. \A bin \in E : bin # b /\ found.counts[bin] \in Nat
      BY <1>5, <2>1
    <3> HIDE DEF row, found, b
    <3> QED BY <1>4, <3>1, <3>2
  <2>2. CASE b \in E
    <3>1. row = counted
      BY <1>5, <2>2
    <3> DEFINE old == found.counts
               tot == found.total
    <3>2. /\ more \in [E -> Nat] /\ DOMAIN more = E /\ more[b] = old[b] + 1
          /\ \A bin \in E : bin # b => more[bin] = old[bin]
          /\ \A bin \in E : old[bin] \in Nat
      BY <1>5, <2>2
    <3>3. SumFunction(more) = SumFunction(old) + 1
      <4>1. NatOn(old, DOMAIN old) /\ AgreeOn(more, old, DOMAIN old \ {b}) /\ DOMAIN old = E
        BY <1>5, <3>2 DEF NatOn, AgreeOn
      <4>2. DOMAIN more = DOMAIN old \cup {b} /\ more[b] = (IF b \in DOMAIN old THEN old[b] ELSE 0) + 1
        BY <2>2, <3>2, <4>1
      <4> HIDE DEF more, old, E, b
      <4> QED BY <1>5, <4>1, <4>2, SumGrows
    <3>4. tot \in Nat /\ tot = SumFunction(old) /\ s \in DOMAIN Bins
      BY <1>2, <1>4 DEF OrdinalRow
    <3>5. row.schedule = s /\ row.counts = more /\ row.total = tot + 1
      BY <1>4, <3>1
    <3>6. row = [schedule |-> s, counts |-> more, total |-> tot + 1]
      BY <1>4, <3>1
    <3> HIDE DEF row, more, old, tot, found, b, s
    <3>7. row \in OrdinalRow
      BY <1>5, <3>2, <3>4, <3>6 DEF OrdinalRow, E
    <3>8. AreOctaves(more, Bins[s])
      BY <1>5, <3>2 DEF AreOctaves, E
    <3>9. \A bin \in E : more[bin] = old[bin] + (IF bin = b THEN 1 ELSE 0)
      BY <3>2
    <3> QED BY <3>3, <3>4, <3>5, <3>7, <3>8, <3>9 DEF old
  <2> QED BY <2>1, <2>2
<1>7. new = [f \in D |-> IF f # field THEN ords[f] ELSE row] /\ DOMAIN new = D
  OBVIOUS
<1> HIDE DEF row, found, more, counted, new
<1>8. AreRowsOf(new, t)
  <2>1. PICK F \in SUBSET STRING : ords \in [F -> OrdinalRow]
    BY DEF AreRowsOf, OrdinalTables
  <2>2. D \in SUBSET STRING /\ new \in [D -> OrdinalRow]
    BY <1>2, <1>6, <1>7, <2>1
  <2>3. IsFiniteSet(D)
    BY FS_AddElement DEF AreRowsOf
  <2>4. ASSUME NEW f \in D PROVE IsRowOf(new[f], t, f)
    <3>1. CASE f = field
      <4>1. new[f] = row
        BY <1>7, <3>1
      <4> HIDE DEF field, s, t
      <4> QED BY <1>3, <1>6, <3>1, <4>1 DEF IsRowOf
    <3>2. CASE f # field
      <4>1. f \in DOMAIN ords /\ new[f] = ords[f]
        BY <1>7, <3>2
      <4> QED BY <4>1 DEF AreRowsOf
    <3> QED BY <3>1, <3>2
  <2> HIDE DEF D
  <2> QED BY <1>7, <2>2, <2>3, <2>4 DEF AreRowsOf, OrdinalTables
<1>9. ASSUME NEW f \in STRING, NEW bin \in DurationBins
      PROVE  Timed(new, f, bin) = Timed(ords, f, bin) + (IF k \in Hits(e, f, bin) THEN 1 ELSE 0)
  <2>1. k \in Hits(e, f, bin) <=> field = f /\ s = DurationSchedule /\ b = bin
    BY DEF Hits
  <2>2. Timed(ords, f, bin) \in Nat
    BY TimedIsNat
  <2>3. CASE f # field
    <3>1. f \in DOMAIN new <=> f \in DOMAIN ords
      BY <1>7, <2>3
    <3>2. f \in DOMAIN ords => new[f] = ords[f]
      BY <1>7, <2>3
    <3>3. Timed(new, f, bin) = Timed(ords, f, bin)
      BY <3>1, <3>2 DEF Timed
    <3> QED BY <2>1, <2>2, <2>3, <3>3
  <2>4. CASE f = field /\ s # DurationSchedule
    <3>1. Timed(new, f, bin) = 0
      BY <1>6, <1>7, <2>4 DEF Timed
    <3>2. Timed(ords, f, bin) = 0
      BY <1>4, <2>4 DEF Timed, found
    <3> QED BY <2>1, <2>4, <3>1, <3>2
  <2>5. CASE f = field /\ s = DurationSchedule
    <3>1. E = DurationBins
      BY <2>5 DEF DurationBins
    <3>2. Timed(new, f, bin) = row.counts[bin]
      BY <1>6, <1>7, <2>5 DEF Timed
    <3>3. Timed(ords, f, bin) = found.counts[bin]
      <4>1. CASE f \in DOMAIN ords
        BY <1>4, <2>5, <4>1 DEF Timed, found
      <4>2. CASE f \notin DOMAIN ords
        <5>1. found.counts = [x \in E |-> 0]
          BY <1>4, <2>5, <4>2
        <5>2. found.counts[bin] = 0
          BY <3>1, <5>1
        <5> QED BY <4>2, <5>2 DEF Timed
      <4> QED BY <4>1, <4>2
    <3>4. row.counts[bin] = found.counts[bin] + (IF bin = b THEN 1 ELSE 0)
      BY <1>6, <3>1
    <3> HIDE DEF b, s, field
    <3> QED BY <2>1, <2>5, <3>2, <3>3, <3>4
  <2> QED BY <2>3, <2>4, <2>5
<1> QED BY <1>1, <1>8, <1>9

(* An event's observations are counted one after the other, each once.     *)
LEMMA OrdinalsObserved ==
  ASSUME NEW e \in Events, NEW base, AreRowsOf(base, e.template)
  PROVE  LET new == FoldLeft(ObserveOrdinal, base, e.ordinals) IN
         /\ AreRowsOf(new, e.template)
         /\ \A f \in STRING, bin \in DurationBins :
              Timed(new, f, bin) = Timed(base, f, bin) + Cardinality(Hits(e, f, bin))
<1> DEFINE t == e.template
           os == e.ordinals
           n == Len(os)
           D == DOMAIN os
           Acc == {x \in OrdinalTables : AreRowsOf(x, t)}
           Step(it, s) == IF s = {} THEN base ELSE ObserveOrdinal(it[s \ {Max(s)}], os[Max(s)])
           IsIter(it) == it = [s \in SUBSET D |-> Step(it, s)]
           iter == CHOOSE it : IsIter(it)
           step == [p \in Acc \X (1..n) |-> ObserveOrdinal(p[1], os[p[2]])]
           Counts(x, y, k) == \A f \in STRING, bin \in DurationBins :
             Timed(y, f, bin) = Timed(x, f, bin) + (IF k \in Hits(e, f, bin) THEN 1 ELSE 0)
           R == {r \in Acc \X Acc \X (1..n) : Counts(r[1], r[2], r[3])}
<1>1. D = 1..n /\ n \in Nat
  BY ObservationsAre
<1>2. FoldLeft(ObserveOrdinal, base, os) = iter[D]
  BY Zenon DEF FoldLeft, MapThenFoldSet
<1>a. base \in Acc
  BY DEF AreRowsOf
<1>o. ASSUME NEW x \in Acc, NEW k \in 1..n
      PROVE  ObserveOrdinal(x, os[k]) \in Acc /\ Counts(x, ObserveOrdinal(x, os[k]), k)
  <2>1. k \in DOMAIN e.ordinals /\ AreRowsOf(x, t)
    BY <1>1
  <2>2. AreRowsOf(ObserveOrdinal(x, os[k]), t) /\ Counts(x, ObserveOrdinal(x, os[k]), k)
    BY <2>1, OrdinalObserved
  <2> QED BY <2>2 DEF AreRowsOf
<1> HIDE DEF D, n, Acc, os, Counts
<1>3. \E it : IsIter(it)
  <2>1. step \in [Acc \X (1..n) -> Acc]
    <3>1. ASSUME NEW p \in Acc \X (1..n) PROVE ObserveOrdinal(p[1], os[p[2]]) \in Acc
      <4>1. p[1] \in Acc /\ p[2] \in 1..n
        OBVIOUS
      <4> QED BY <1>o, <4>1
    <3> QED BY <3>1
  <2> HIDE DEF step
  <2>2. n \in Nat
    BY <1>1
  <2>3. PICK it \in [SUBSET (1..n) -> Acc] : IsFold(it, step, base, n)
    BY <1>a, <2>1, <2>2, FoldExists
  <2>4. ASSUME NEW s \in SUBSET (1..n) PROVE it[s] = Step(it, s)
    <3>1. CASE s = {}
      BY <2>3, <3>1 DEF IsFold
    <3>2. CASE s # {}
      <4>1. Max(s) \in 1..n
        BY <1>1, <3>2, MaxOfPart
      <4>2. it[s \ {Max(s)}] \in Acc
        BY <2>3
      <4>3. it[s] = step[<<it[s \ {Max(s)}], Max(s)>>]
        BY <2>3, <3>2 DEF IsFold
      <4> QED BY <3>2, <4>1, <4>2, <4>3 DEF step
    <3> QED BY <3>1, <3>2
  <2>5. IsIter(it)
    BY <1>1, <2>3, <2>4
  <2> QED BY <2>5
<1>4. IsIter(iter)
  BY <1>3
<1> HIDE DEF iter
<1>5. iter[{}] = base
  BY <1>4
<1>6. ASSUME NEW s \in SUBSET (1..n), s # {}, iter[s \ {Max(s)}] \in Acc
      PROVE  iter[s] \in Acc /\ <<iter[s \ {Max(s)}], iter[s], Max(s)>> \in R
  <2> DEFINE old == iter[s \ {Max(s)}]
  <2>1. Max(s) \in 1..n
    BY <1>1, <1>6, MaxOfPart
  <2>2. iter[s] = ObserveOrdinal(old, os[Max(s)])
    BY <1>1, <1>4, <1>6
  <2>3. iter[s] \in Acc /\ Counts(old, iter[s], Max(s))
    BY <1>6, <1>o, <2>1, <2>2
  <2> QED BY <1>6, <2>1, <2>3
<1> HIDE DEF R, Step, IsIter
<1>7. StepsIn(iter, n, Acc, R)
  BY <1>6 DEF StepsIn
<1>n. n \in Nat
  BY <1>1
<1>8. PICK run : IsFoldRun(run, n, Acc, base, R) /\ run[n] = iter[1..n]
  BY <1>n, <1>5, <1>7, <1>a, RunOfAFold
<1>9. run \in [0..n -> Acc] /\ run[0] = base
  BY <1>8 DEF IsFoldRun
<1>10. \A i \in 1..n : Counts(run[i - 1], run[i], i)
  BY <1>8 DEF IsFoldRun, R
<1>11. AreRowsOf(run[n], t)
  <2>1. run[n] \in Acc
    BY <1>9, <1>n
  <2> QED BY <2>1 DEF Acc
<1>12. ASSUME NEW f \in STRING, NEW bin \in DurationBins
       PROVE  Timed(run[n], f, bin) = Timed(base, f, bin) + Cardinality(Hits(e, f, bin))
  <2> DEFINE H == Hits(e, f, bin)
             Seen == {i \in 0..n : Timed(run[i], f, bin) = Timed(base, f, bin) + Cardinality((1..i) \cap H)}
  <2>b. Timed(base, f, bin) \in Nat
    BY TimedIsNat
  <2>1. 0 \in Seen
    <3>1. (1..0) \cap H = {}
      OBVIOUS
    <3>2. Timed(base, f, bin) = Timed(base, f, bin) + 0 /\ 0 \in 0..n
      BY <1>n, <2>b
    <3> HIDE DEF H
    <3> QED BY <1>9, <3>1, <3>2, EmptyCount
  <2>2. ASSUME NEW i \in 1..n, i - 1 \in Seen PROVE i \in Seen
    <3>1. Timed(run[i], f, bin) = Timed(run[i - 1], f, bin) + (IF i \in H THEN 1 ELSE 0)
      BY <1>10 DEF Counts
    <3>2. i \in Nat \ {0} /\ i \in 0..n
      BY <1>n
    <3> HIDE DEF H
    <3>3. /\ Cardinality((1..(i - 1)) \cap H) \in Nat
          /\ Cardinality((1..i) \cap H) = Cardinality((1..(i - 1)) \cap H) + (IF i \in H THEN 1 ELSE 0)
      BY <3>2, PrefixCount
    <3>4. Timed(run[i - 1], f, bin) = Timed(base, f, bin) + Cardinality((1..(i - 1)) \cap H)
      BY <2>2
    <3>5. Timed(run[i], f, bin) = Timed(base, f, bin) + Cardinality((1..i) \cap H)
      BY <2>b, <3>1, <3>3, <3>4
    <3> QED BY <3>2, <3>5
  <2>3. n \in Seen
    <3>1. 0..n \subseteq Seen
      <4> HIDE DEF Seen
      <4> QED BY <1>n, <2>1, <2>2, RunInduction
    <3>2. n \in 0..n
      BY <1>n
    <3> QED BY <3>1, <3>2
  <2>4. (1..n) \cap H = H
    BY <1>1 DEF Hits, D, os
  <2> QED BY <2>3, <2>4
<1>13. FoldLeft(ObserveOrdinal, base, os) = run[n]
  BY <1>1, <1>2, <1>8
<1> QED BY <1>11, <1>12, <1>13 DEF os

LEMMA HitsAre ==
  ASSUME NEW e \in Events, NEW f, NEW bin
  PROVE  IsFiniteSet(Hits(e, f, bin)) /\ Cardinality(Hits(e, f, bin)) \in Nat
<1>1. IsFiniteSet(DOMAIN e.ordinals)
  BY ObservationsAre, FS_Interval
<1>2. Hits(e, f, bin) \in SUBSET DOMAIN e.ordinals
  BY DEF Hits
<1>3. IsFiniteSet(Hits(e, f, bin))
  BY <1>1, <1>2, PartIsFinite
<1> QED BY <1>3, CountIsNat

LEMMA WeighedIs ==
  ASSUME NEW events, OfEvents(events), NEW t, NEW f, NEW bin
  PROVE  LET w == Weighed(events, t, f, bin) IN
         /\ DOMAIN w = DOMAIN events /\ IsFiniteSet(DOMAIN w) /\ NatOn(w, DOMAIN w)
         /\ HitsIn(events, t, f, bin) = SumFunctionOnSet(w, DOMAIN events)
         /\ HitsIn(events, t, f, bin) \in Nat
<1> DEFINE w == Weighed(events, t, f, bin)
<1>1. DOMAIN w = DOMAIN events /\ IsFiniteSet(DOMAIN w)
  BY DEF Weighed, OfEvents, IsFiniteBag
<1>2. \A e \in DOMAIN events : w[e] \in Nat
  <2> SUFFICES ASSUME NEW e \in DOMAIN events PROVE w[e] \in Nat
    OBVIOUS
  <2>1. e \in Events /\ events[e] \in Nat
    BY DEF OfEvents, IsFiniteBag
  <2>2. Cardinality(Hits(e, f, bin)) \in Nat
    BY <2>1, HitsAre
  <2>3. events[e] * Cardinality(Hits(e, f, bin)) \in Nat
    BY <2>1, <2>2
  <2> QED BY <2>3 DEF Weighed
<1> HIDE DEF w
<1>3. SumFunctionOnSet(w, DOMAIN events) \in Nat
  BY <1>1, <1>2, SumIsNat
<1>4. HitsIn(events, t, f, bin) = SumFunctionOnSet(w, DOMAIN events)
  BY <1>1 DEF HitsIn, SumFunction, w
<1> QED BY <1>1, <1>2, <1>3, <1>4 DEF NatOn, w

LEMMA HitsOneMore ==
  ASSUME NEW events, OfEvents(events), NEW e \in Events, NEW new, OneMore(events, new, e),
         NEW t, NEW f, NEW bin
  PROVE  HitsIn(new, t, f, bin)
           = HitsIn(events, t, f, bin) + (IF e.template = t THEN Cardinality(Hits(e, f, bin)) ELSE 0)
<1> DEFINE w == Weighed(events, t, f, bin)
           v == Weighed(new, t, f, bin)
           more == IF e.template = t THEN Cardinality(Hits(e, f, bin)) ELSE 0
<1>1. DOMAIN w = DOMAIN events /\ IsFiniteSet(DOMAIN w) /\ NatOn(w, DOMAIN w)
  BY WeighedIs
<1>2. more \in Nat /\ Cardinality(Hits(e, f, bin)) \in Nat
  BY HitsAre
<1>3. DOMAIN new = DOMAIN events \cup {e} /\ DOMAIN v = DOMAIN new
  BY DEF OneMore, Weighed
<1>4. AgreeOn(v, w, DOMAIN w \ {e})
  <2> SUFFICES ASSUME NEW d \in DOMAIN events \ {e} PROVE v[d] = w[d]
    BY <1>1 DEF AgreeOn
  <2>1. new[d] = events[d] /\ d \in DOMAIN new
    BY DEF OneMore
  <2> QED BY <2>1 DEF Weighed
<1>5. v[e] = (IF e \in DOMAIN w THEN w[e] ELSE 0) + more
  <2>1. e \in DOMAIN new /\ new[e] = IF e \in DOMAIN events THEN events[e] + 1 ELSE 1
    BY DEF OneMore
  <2> DEFINE H == Cardinality(Hits(e, f, bin))
  <2>2. v[e] = IF e.template = t THEN new[e] * H ELSE 0
    BY <2>1 DEF Weighed
  <2>3. e \in DOMAIN events => w[e] = (IF e.template = t THEN events[e] * H ELSE 0) /\ events[e] \in Nat
    BY DEF Weighed, OfEvents, IsFiniteBag
  <2>4. H \in Nat
    BY <1>2
  <2> HIDE DEF H, w, v
  <2>5. CASE e \in DOMAIN events
    <3>1. (events[e] + 1) * H = events[e] * H + H
      BY <2>3, <2>4, <2>5
    <3> QED BY <1>1, <2>1, <2>2, <2>3, <2>4, <2>5, <3>1 DEF H
  <2>6. CASE e \notin DOMAIN events
    BY <1>1, <2>1, <2>2, <2>4, <2>6 DEF H
  <2> QED BY <2>5, <2>6
<1> HIDE DEF w, v, more
<1>6. SumFunction(v) = SumFunction(w) + more
  BY <1>1, <1>2, <1>3, <1>4, <1>5, SumGrows
<1> QED BY <1>6 DEF HitsIn, w, v, more

(* Where no event of the template was seen there is nothing to count.      *)
LEMMA NoRows ==
  ASSUME NEW events, OfEvents(events), NEW t, \A e \in DOMAIN events : e.template # t
  PROVE  IsTimedOf(<< >>, events, t)
<1>1. DOMAIN << >> = {} /\ IsFiniteSet({})
  BY EmptyBagSum, EmptyCount
<1>2. AreRowsOf(<< >>, t)
  <2>1. << >> \in [{} -> OrdinalRow]
    BY <1>1
  <2>2. << >> \in OrdinalTables
    BY <2>1 DEF OrdinalTables
  <2> QED BY <1>1, <2>2 DEF AreRowsOf
<1>3. ASSUME NEW f \in STRING, NEW bin \in DurationBins
      PROVE  Timed(<< >>, f, bin) = HitsIn(events, t, f, bin)
  <2>1. Timed(<< >>, f, bin) = 0
    BY <1>1 DEF Timed
  <2>2. \A e \in DOMAIN events : Weighed(events, t, f, bin)[e] = 0
    BY DEF Weighed
  <2>3. IsFiniteSet(DOMAIN events)
    BY DEF OfEvents, IsFiniteBag
  <2>4. SumFunctionOnSet(Weighed(events, t, f, bin), DOMAIN events) = 0
    BY <2>2, <2>3, ZeroSum
  <2> QED BY <2>1, <2>4, WeighedIs
<1> QED BY <1>2, <1>3 DEF IsTimedOf

(* The rows of an event's template after it, and those of the others.      *)
LEMMA RowsObserve ==
  ASSUME NEW events, OfEvents(events), NEW e \in Events, NEW new, OneMore(events, new, e),
         NEW ords, IsTimedOf(ords, events, e.template)
  PROVE  IsTimedOf(FoldLeft(ObserveOrdinal, ords, e.ordinals), new, e.template)
<1> DEFINE after == FoldLeft(ObserveOrdinal, ords, e.ordinals)
           t == e.template
<1>1. AreRowsOf(ords, t)
  BY DEF IsTimedOf
<1>2. /\ AreRowsOf(after, t)
      /\ \A f \in STRING, bin \in DurationBins :
           Timed(after, f, bin) = Timed(ords, f, bin) + Cardinality(Hits(e, f, bin))
  BY <1>1, OrdinalsObserved
<1> HIDE DEF after
<1>3. ASSUME NEW f \in STRING, NEW bin \in DurationBins
      PROVE  Timed(after, f, bin) = HitsIn(new, t, f, bin)
  <2>1. HitsIn(new, t, f, bin) = HitsIn(events, t, f, bin) + Cardinality(Hits(e, f, bin))
    BY HitsOneMore
  <2>2. Timed(ords, f, bin) = HitsIn(events, t, f, bin)
    BY DEF IsTimedOf
  <2> QED BY <1>2, <2>1, <2>2
<1>4. IsTimedOf(after, new, t)
  BY <1>2, <1>3 DEF IsTimedOf
<1> QED BY <1>4 DEF after

LEMMA RowsKept ==
  ASSUME NEW events, OfEvents(events), NEW e \in Events, NEW new, OneMore(events, new, e),
         NEW t, t # e.template, NEW ords, IsTimedOf(ords, events, t)
  PROVE  IsTimedOf(ords, new, t)
<1>1. ASSUME NEW f \in STRING, NEW bin \in DurationBins
      PROVE  HitsIn(new, t, f, bin) = HitsIn(events, t, f, bin)
  <2>1. HitsIn(new, t, f, bin) = HitsIn(events, t, f, bin) + 0
    BY HitsOneMore
  <2>2. HitsIn(events, t, f, bin) \in Nat
    BY WeighedIs
  <2> QED BY <2>1, <2>2
<1> QED BY <1>1 DEF IsTimedOf

-----------------------------------------------------------------------------
(* The documents of one window *)

(* The rows of a document count the durations of the events it tabled.     *)
IsTimedDoc(doc, events) ==
  /\ OfEvents(events) /\ IsFiniteSet(DOMAIN doc.top_k)
  /\ \A e \in DOMAIN events : e.template \in DOMAIN doc.top_k
  /\ \A t \in DOMAIN doc.top_k :
       doc.top_k[t].component = Component[t] /\ IsTimedOf(doc.top_k[t].ordinals, events, t)

(* A producer without slots observes no ordinals.                          *)
OrdinalInv ==
  /\ IsFiniteSet(DOMAIN tables)
  /\ \A t \in DOMAIN tables :
       /\ Open.slots = 0 => tables[t].ordinals = << >>
       /\ Open.slots # 0 => IsTimedOf(tables[t].ordinals, seen, t)

(* The windows behind two documents held are apart, so a document of one   *)
(* window was never composed.                                              *)
LeafInv ==
  /\ \A p \in pool : p.leaves # {} /\ p.leaves \subseteq 1..(steps.window - 1)
  /\ \A p, q \in pool : p # q => p.leaves \cap q.leaves = {}
  /\ \A p \in pool : Cardinality(p.leaves) = 1 => IsTimedDoc(p.doc, p.tabled)

LEMMA OpenIsOfTheWindow ==
  ASSUME WindowInv, steps.window <= MaxWindows
  PROVE  Open \in Caps /\ Open.slots \in Nat /\ steps.window \in Nat \ {0}
<1>1. steps.window \in 1..MaxWindows
  BY FieldLadderAssumption DEF WindowInv, WindowTypeOK
<1>2. Open \in Caps
  BY <1>1 DEF WindowInv, WindowTypeOK, Open
<1> QED BY <1>1, <1>2, FieldLadderAssumption

LEMMA IngestKeepsOrdinals ==
  ASSUME WindowInv, OrdinalInv, NEW e \in Events, Ingest(e)
  PROVE  OrdinalInv'
<1> DEFINE t == e.template
           found == IF t \in DOMAIN tables THEN tables[t] ELSE EmptyTables
           old == found.ordinals
<1>1. /\ steps.window <= MaxWindows /\ caps' = caps
      /\ steps' = [steps EXCEPT !.events = @ + 1]
      /\ seen' = seen (+) SetToBag({e})
  BY DEF Ingest
<1>2. Open' = Open
  <2>1. steps \in [events : Nat, window : 1..(MaxWindows + 1)]
    BY DEF WindowInv, WindowTypeOK
  <2>2. steps'.window = steps.window
    BY <1>1, <2>1
  <2> QED BY <1>1, <2>2 DEF Open
<1>3. OfEvents(seen) /\ OneMore(seen, seen', e)
  BY <1>1, BagAdded DEF OfEvents, WindowInv
<1>4. /\ DOMAIN tables' = DOMAIN tables \cup {t}
      /\ tables'[t].ordinals = ObserveOrdinals(old, e.ordinals, Open)
      /\ \A u \in DOMAIN tables : u # t => tables'[u] = tables[u]
  BY DEF Ingest
<1>5. Open.slots = 0 => old = << >>
  BY DEF OrdinalInv, EmptyTables
<1>6. Open.slots # 0 => IsTimedOf(old, seen, t)
  <2>1. CASE t \in DOMAIN tables
    BY <2>1 DEF OrdinalInv
  <2>2. CASE t \notin DOMAIN tables
    <3>1. old = << >>
      BY <2>2 DEF EmptyTables
    <3>2. \A d \in DOMAIN seen : d.template # t
      BY <2>2 DEF WindowInv
    <3> HIDE DEF old, t
    <3> QED BY <1>3, <3>1, <3>2, NoRows
  <2> QED BY <2>1, <2>2
<1> HIDE DEF found, old
<1>7. ASSUME NEW u \in DOMAIN tables'
      PROVE  /\ Open.slots = 0 => tables'[u].ordinals = << >>
             /\ Open.slots # 0 => IsTimedOf(tables'[u].ordinals, seen', u)
  <2>1. CASE u = t /\ Open.slots = 0
    BY <1>4, <1>5, <2>1 DEF ObserveOrdinals
  <2>2. CASE u = t /\ Open.slots # 0
    <3>1. tables'[t].ordinals = FoldLeft(ObserveOrdinal, old, e.ordinals)
      BY <1>4, <2>2 DEF ObserveOrdinals
    <3>2. IsTimedOf(FoldLeft(ObserveOrdinal, old, e.ordinals), seen', t)
      BY <1>3, <1>6, <2>2, RowsObserve
    <3> QED BY <2>2, <3>1, <3>2
  <2>3. CASE u # t
    <3>1. u \in DOMAIN tables /\ tables'[u] = tables[u]
      BY <1>4, <2>3
    <3>2. Open.slots # 0 => IsTimedOf(tables[u].ordinals, seen, u)
      BY <3>1 DEF OrdinalInv
    <3>3. Open.slots # 0 => IsTimedOf(tables[u].ordinals, seen', u)
      BY <1>3, <2>3, <3>2, RowsKept
    <3> QED BY <3>1, <3>3 DEF OrdinalInv
  <2> QED BY <2>1, <2>2, <2>3
<1>8. IsFiniteSet(DOMAIN tables')
  BY <1>4, FS_AddElement DEF OrdinalInv
<1> QED BY <1>2, <1>7, <1>8 DEF OrdinalInv

LEMMA OrdinalInvIsInductive == WindowInv /\ OrdinalInv /\ [FieldNext]_fieldVars => OrdinalInv'
<1> SUFFICES ASSUME WindowInv, OrdinalInv, [FieldNext]_fieldVars PROVE OrdinalInv'
  OBVIOUS
<1>1. ASSUME NEW e \in Events, Ingest(e) PROVE OrdinalInv'
  BY <1>1, IngestKeepsOrdinals
<1>2. CASE Close
  <2>1. tables' = << >>
    BY <1>2 DEF Close
  <2>2. DOMAIN tables' = {}
    BY <2>1
  <2> QED BY <2>2, EmptyCount DEF OrdinalInv
<1>3. ASSUME NEW a \in pool, NEW b \in pool, MergeRows(a, b) PROVE OrdinalInv'
  BY <1>3 DEF MergeRows, OrdinalInv, Open
<1>4. CASE UNCHANGED fieldVars
  BY <1>4 DEF fieldVars, OrdinalInv, Open
<1> QED BY <1>1, <1>2, <1>3, <1>4 DEF FieldNext

(* The rows of a window closed count the durations of its events.          *)
LEMMA RowsAreTimed ==
  ASSUME WindowInv, OrdinalInv, steps.window <= MaxWindows
  PROVE  IsTimedDoc(RowsOf, IF Open.slots = 0 THEN << >> ELSE seen)
<1> DEFINE events == IF Open.slots = 0 THEN << >> ELSE seen
           doc == RowsOf
           top == [t \in DOMAIN tables |->
                     [component |-> Component[t],
                      histograms |-> FieldHistogramsOf(tables[t].slots),
                      ordinals |-> tables[t].ordinals]]
<1>1. doc.top_k = top
  BY DEF RowsOf
<1>2. OfEvents(events)
  BY NothingSeen DEF WindowInv
<1>3. \A e \in DOMAIN events : e.template \in DOMAIN tables
  BY NothingSeen DEF WindowInv
<1>4. ASSUME NEW t \in DOMAIN tables
      PROVE  top[t].component = Component[t] /\ IsTimedOf(top[t].ordinals, events, t)
  <2>1. top[t].component = Component[t] /\ top[t].ordinals = tables[t].ordinals
    OBVIOUS
  <2>2. CASE Open.slots = 0
    <3>1. tables[t].ordinals = << >> /\ events = << >>
      BY <2>2 DEF OrdinalInv
    <3>2. \A e \in DOMAIN << >> : e.template # t
      BY NothingSeen
    <3>3. IsTimedOf(<< >>, << >>, t)
      BY <3>2, NothingSeen, NoRows
    <3> HIDE DEF events, top
    <3> QED BY <2>1, <3>1, <3>3
  <2>3. CASE Open.slots # 0
    <3>1. events = seen /\ IsTimedOf(tables[t].ordinals, seen, t)
      BY <2>3 DEF OrdinalInv
    <3> HIDE DEF events, top
    <3> QED BY <2>1, <3>1
  <2> QED BY <2>2, <2>3
<1>5. DOMAIN top = DOMAIN tables /\ IsFiniteSet(DOMAIN tables)
  BY DEF OrdinalInv
<1> HIDE DEF top, doc, events
<1>6. IsTimedDoc(doc, events)
  BY <1>1, <1>2, <1>3, <1>4, <1>5 DEF IsTimedDoc
<1> QED BY <1>6 DEF doc, events

LEMMA TwoLeaves ==
  ASSUME NEW S, NEW T, IsFiniteSet(S), IsFiniteSet(T), S # {}, T # {}, S \cap T = {}
  PROVE  Cardinality(S \cup T) # 1
<1>1. Cardinality(S \cup T) = Cardinality(S) + Cardinality(T) - 0
  BY EmptyCount, FS_Union
<1>2. Cardinality(S) \in Nat /\ Cardinality(S) # 0 /\ Cardinality(T) \in Nat /\ Cardinality(T) # 0
  BY CountIsNat, CountIsZero
<1> QED BY <1>1, <1>2

LEMMA LeafInvIsInductive ==
  WindowInv /\ OrdinalInv /\ LeafInv /\ [FieldNext]_fieldVars => LeafInv'
<1> SUFFICES ASSUME WindowInv, OrdinalInv, LeafInv, [FieldNext]_fieldVars PROVE LeafInv'
  OBVIOUS
<1>t. steps \in [events : Nat, window : 1..(MaxWindows + 1)] /\ MaxWindows \in Nat
  BY FieldLadderAssumption DEF WindowInv, WindowTypeOK
<1>1. ASSUME NEW e \in Events, Ingest(e) PROVE LeafInv'
  <2>1. steps'.window = steps.window /\ pool' = pool
    BY <1>1, <1>t DEF Ingest
  <2> QED BY <2>1 DEF LeafInv
<1>2. CASE Close
  <2> DEFINE new == [doc |-> RowsOf, leaves |-> {steps.window},
                     tabled |-> IF Open.slots = 0 THEN << >> ELSE seen]
             w == steps.window
  <2>1. steps.window <= MaxWindows /\ pool' = pool \cup {new} /\ steps'.window = w + 1
    BY <1>2, <1>t DEF Close
  <2>2. IsTimedDoc(new.doc, new.tabled) /\ new.leaves = {w}
    BY <2>1, RowsAreTimed
  <2> HIDE DEF new
  <2>3. w \in Nat \ {0} /\ w \notin 1..(w - 1) /\ {w} \subseteq 1..(w + 1 - 1) /\ 1..(w - 1) \subseteq 1..(w + 1 - 1)
    BY <1>t
  <2>4. \A p \in pool : p.leaves # {} /\ p.leaves \subseteq 1..(w - 1)
    BY DEF LeafInv
  <2> HIDE DEF w
  <2>5. \A p \in pool' : p.leaves # {} /\ p.leaves \subseteq 1..(w + 1 - 1)
    BY <2>1, <2>2, <2>3, <2>4
  <2>6. ASSUME NEW p \in pool', NEW q \in pool', p # q PROVE p.leaves \cap q.leaves = {}
    <3>1. CASE p \in pool /\ q \in pool
      BY <2>6, <3>1 DEF LeafInv
    <3>2. CASE p \in pool /\ q = new
      BY <2>2, <2>3, <2>4, <3>2
    <3>3. CASE p = new /\ q \in pool
      BY <2>2, <2>3, <2>4, <3>3
    <3> QED BY <2>1, <2>6, <3>1, <3>2, <3>3
  <2>7. \A p \in pool' : Cardinality(p.leaves) = 1 => IsTimedDoc(p.doc, p.tabled)
    BY <2>1, <2>2 DEF LeafInv
  <2>8. \A p \in pool' : p.leaves # {} /\ p.leaves \subseteq 1..(steps'.window - 1)
    <3>1. steps'.window - 1 = w + 1 - 1
      BY <1>t, <2>1 DEF w
    <3> QED BY <2>5, <3>1
  <2> QED BY <2>6, <2>7, <2>8 DEF LeafInv
<1>3. ASSUME NEW a \in pool, NEW b \in pool, MergeRows(a, b) PROVE LeafInv'
  <2> DEFINE new == [doc |-> Composed(a.doc, b.doc), leaves |-> a.leaves \cup b.leaves,
                     tabled |-> a.tabled (+) b.tabled]
             w == steps.window
  <2>1. a # b /\ pool' = (pool \ {a, b}) \cup {new} /\ steps' = steps
    BY <1>3 DEF MergeRows
  <2>2. new.leaves = a.leaves \cup b.leaves
    OBVIOUS
  <2> HIDE DEF new, w
  <2>3. /\ a.leaves # {} /\ a.leaves \subseteq 1..(w - 1)
        /\ b.leaves # {} /\ b.leaves \subseteq 1..(w - 1)
        /\ a.leaves \cap b.leaves = {}
    BY <2>1 DEF LeafInv, w
  <2>4. Cardinality(new.leaves) # 1
    <3>1. IsFiniteSet(1..(w - 1))
      BY <1>t, FS_Interval DEF w
    <3>2. IsFiniteSet(a.leaves) /\ IsFiniteSet(b.leaves)
      BY <2>3, <3>1, FS_Subset
    <3> QED BY <2>2, <2>3, <3>2, TwoLeaves
  <2>5. \A p \in pool' : p.leaves # {} /\ p.leaves \subseteq 1..(w - 1)
    BY <2>1, <2>2, <2>3 DEF LeafInv, w
  <2>6. ASSUME NEW p \in pool', NEW q \in pool', p # q PROVE p.leaves \cap q.leaves = {}
    <3>1. CASE p \in pool \ {a, b} /\ q \in pool \ {a, b}
      BY <2>6, <3>1 DEF LeafInv
    <3>2. CASE p \in pool \ {a, b} /\ q = new
      <4>1. p.leaves \cap a.leaves = {} /\ p.leaves \cap b.leaves = {}
        BY <3>2 DEF LeafInv
      <4> QED BY <2>2, <3>2, <4>1
    <3>3. CASE p = new /\ q \in pool \ {a, b}
      <4>1. q.leaves \cap a.leaves = {} /\ q.leaves \cap b.leaves = {}
        BY <3>3 DEF LeafInv
      <4> QED BY <2>2, <3>3, <4>1
    <3> QED BY <2>1, <2>6, <3>1, <3>2, <3>3
  <2>7. \A p \in pool' : Cardinality(p.leaves) = 1 => IsTimedDoc(p.doc, p.tabled)
    BY <2>1, <2>4 DEF LeafInv
  <2> QED BY <2>1, <2>5, <2>6, <2>7 DEF LeafInv, w
<1>4. CASE UNCHANGED fieldVars
  BY <1>4 DEF fieldVars, LeafInv
<1> QED BY <1>1, <1>2, <1>3, <1>4 DEF FieldNext

(* The ordinal rows of the open window count every duration of its events, *)
(* field by field (ingest_looked_up_event), and so do those of a document  *)
(* that was never composed.                                                *)
THEOREM DurationsAreAlwaysTabled == FieldSpec => [](OrdinalInv /\ LeafInv)
<1>1. FieldInit => OrdinalInv /\ LeafInv
  <2> SUFFICES ASSUME FieldInit PROVE OrdinalInv /\ LeafInv
    OBVIOUS
  <2>1. tables = << >> /\ pool = {}
    BY DEF FieldInit
  <2>2. DOMAIN tables = {}
    BY <2>1
  <2> QED BY <2>1, <2>2, EmptyCount DEF OrdinalInv, LeafInv
<1>2. WindowInv /\ (OrdinalInv /\ LeafInv) /\ [FieldNext]_fieldVars => (OrdinalInv /\ LeafInv)'
  BY OrdinalInvIsInductive, LeafInvIsInductive
<1> QED BY <1>1, <1>2, WindowIsAlwaysOfItsEvents, PTL DEF FieldSpec

-----------------------------------------------------------------------------
(* The durations of a component *)

LEMMA ConstantSum ==
  ASSUME NEW S, IsFiniteSet(S), NEW v \in Nat, NEW f, \A x \in S : f[x] = v
  PROVE  SumFunctionOnSet(f, S) = v * Cardinality(S)
<1> DEFINE P == {U \in SUBSET S : SumFunctionOnSet(f, U) = v * Cardinality(U)}
<1>1. {} \in P
  <2>1. v * 0 = 0
    OBVIOUS
  <2> QED BY <2>1, SumEmpty, EmptyCount
<1>2. ASSUME NEW U \in SUBSET S, NEW x \in S \ U, U \in P PROVE U \cup {x} \in P
  <2>1. IsFiniteSet(U) /\ NatOn(f, U \cup {x})
    BY FS_Subset DEF NatOn
  <2>2. SumFunctionOnSet(f, U \cup {x}) = f[x] + SumFunctionOnSet(f, U)
    BY <2>1, SumAdd
  <2>3. Cardinality(U) \in Nat /\ Cardinality(U \cup {x}) = Cardinality(U) + 1
    BY <2>1, CountIsNat, CountOneMore
  <2>4. v * (Cardinality(U) + 1) = v + v * Cardinality(U)
    BY <2>3
  <2> QED BY <1>2, <2>2, <2>3, <2>4
<1>3. S \in P
  <2> HIDE DEF P
  <2> QED BY <1>1, <1>2, SubsetInduction
<1> QED BY <1>3

RowOf(doc, row) == doc.top_k[row[1]].ordinals[row[2]]

LEMMA DurationRowsAre ==
  ASSUME NEW doc, NEW events, IsTimedDoc(doc, events), NEW c
  PROVE  LET rows == DurationRows(doc, c) IN
         /\ IsFiniteSet(rows)
         /\ \A t, f : <<t, f>> \in rows <=>
              /\ t \in DOMAIN doc.top_k /\ Component[t] = <<c>>
              /\ f \in DOMAIN doc.top_k[t].ordinals
              /\ doc.top_k[t].ordinals[f].schedule = DurationSchedule
         /\ \A row \in rows :
              /\ row = <<row[1], row[2]>> /\ row[2] \in STRING
              /\ AreOctaves(RowOf(doc, row).counts, Bins[DurationSchedule])
              /\ RowOf(doc, row).total = SumFunction(RowOf(doc, row).counts)
              /\ \A bin \in DurationBins :
                   RowOf(doc, row).counts[bin] = HitsIn(events, row[1], row[2], bin)
<1> DEFINE ords(t) == doc.top_k[t].ordinals
           timed(t) == {f \in DOMAIN ords(t) : ords(t)[f].schedule = DurationSchedule}
           its(t) == {<<t, f>> : f \in timed(t)}
           here == {u \in DOMAIN doc.top_k : doc.top_k[u].component = <<c>>}
           rows == UNION {its(t) : t \in here}
<1>1. DurationRows(doc, c) = rows
  BY DEF DurationRows
<1>2. \A t \in DOMAIN doc.top_k : doc.top_k[t].component = Component[t] /\ IsTimedOf(ords(t), events, t)
  BY DEF IsTimedDoc
<1>3. ASSUME NEW t \in here PROVE IsFiniteSet(its(t))
  <2>1. IsFiniteSet(timed(t))
    <3>1. IsFiniteSet(DOMAIN ords(t))
      BY <1>2 DEF IsTimedOf, AreRowsOf
    <3>2. timed(t) \in SUBSET DOMAIN ords(t)
      OBVIOUS
    <3> HIDE DEF timed
    <3> QED BY <3>1, <3>2, PartIsFinite
  <2> DEFINE pair == [f \in timed(t) |-> <<t, f>>]
  <2>2. its(t) = {pair[f] : f \in timed(t)}
    OBVIOUS
  <2> HIDE DEF pair, timed, its
  <2> QED BY <2>1, <2>2, ImageCount
<1>4. IsFiniteSet(rows)
  <2>1. IsFiniteSet(here)
    <3>1. here \in SUBSET DOMAIN doc.top_k /\ IsFiniteSet(DOMAIN doc.top_k)
      BY DEF IsTimedDoc
    <3> HIDE DEF here
    <3> QED BY <3>1, PartIsFinite
  <2> DEFINE all == [t \in here |-> its(t)]
             sets == {all[t] : t \in here}
  <2>2. sets = {its(t) : t \in here}
    OBVIOUS
  <2>3. \A T \in sets : IsFiniteSet(T)
    BY <1>3, <2>2
  <2>4. IsFiniteSet(sets)
    <3> HIDE DEF all, here
    <3> QED BY <2>1, ImageCount
  <2>5. rows = UNION sets
    BY <2>2
  <2> HIDE DEF sets, rows
  <2> QED BY <2>3, <2>4, <2>5, FS_UNION
<1>5. ASSUME NEW t, NEW f
      PROVE  <<t, f>> \in rows <=>
               /\ t \in DOMAIN doc.top_k /\ Component[t] = <<c>>
               /\ f \in DOMAIN ords(t) /\ ords(t)[f].schedule = DurationSchedule
  <2>1. <<t, f>> \in rows <=> t \in here /\ f \in timed(t)
    OBVIOUS
  <2>2. t \in here <=> t \in DOMAIN doc.top_k /\ Component[t] = <<c>>
    BY <1>2
  <2> QED BY <2>1, <2>2
<1>6. ASSUME NEW row \in rows
      PROVE  /\ row = <<row[1], row[2]>> /\ row[2] \in STRING
             /\ AreOctaves(RowOf(doc, row).counts, Bins[DurationSchedule])
             /\ RowOf(doc, row).total = SumFunction(RowOf(doc, row).counts)
             /\ \A bin \in DurationBins :
                  RowOf(doc, row).counts[bin] = HitsIn(events, row[1], row[2], bin)
  <2>0. PICK t \in here : row \in its(t)
    OBVIOUS
  <2>1. PICK f \in timed(t) : row = <<t, f>>
    <3> HIDE DEF timed
    <3> QED BY <2>0
  <2>2. row[1] = t /\ row[2] = f /\ RowOf(doc, row) = ords(t)[f]
    BY <2>1 DEF RowOf
  <2>3. /\ AreRowsOf(ords(t), t) /\ f \in DOMAIN ords(t) /\ ords(t)[f].schedule = DurationSchedule
        /\ \A g \in STRING, bin \in DurationBins : Timed(ords(t), g, bin) = HitsIn(events, t, g, bin)
    BY <1>2, <2>1 DEF IsTimedOf
  <2> HIDE DEF ords, timed, here, rows
  <2>4. f \in STRING
    BY <2>3, RowsAreTyped
  <2>5. IsRowOf(ords(t)[f], t, f)
    BY <2>3 DEF AreRowsOf
  <2>6. \A bin \in DurationBins : Timed(ords(t), f, bin) = ords(t)[f].counts[bin]
    BY <2>3 DEF Timed
  <2> QED BY <2>1, <2>2, <2>3, <2>4, <2>5, <2>6 DEF IsRowOf
<1> HIDE DEF rows
<1> QED BY <1>1, <1>4, <1>5, <1>6

LEMMA TimingsAre ==
  ASSUME NEW e \in Events, NEW c, NEW bin
  PROVE  IsFiniteSet(Timings(e, c, bin)) /\ Cardinality(Timings(e, c, bin)) \in Nat
<1>1. IsFiniteSet(DOMAIN e.ordinals)
  BY ObservationsAre, FS_Interval
<1>2. Timings(e, c, bin) \in SUBSET DOMAIN e.ordinals
  BY DEF Timings
<1>3. IsFiniteSet(Timings(e, c, bin))
  BY <1>1, <1>2, PartIsFinite
<1> QED BY <1>3, CountIsNat

(* A duration of an event seen has a row.                                  *)
LEMMA TimingsHaveRows ==
  ASSUME NEW doc, NEW events, IsTimedDoc(doc, events), NEW c, NEW bin \in DurationBins,
         NEW e \in DOMAIN events, NEW k \in Timings(e, c, bin)
  PROVE  <<e.template, e.ordinals[k].field>> \in DurationRows(doc, c)
<1> DEFINE t == e.template
           f == e.ordinals[k].field
           ords == doc.top_k[t].ordinals
<1>1. e \in Events /\ OfEvents(events) /\ events[e] \in Nat \ {0}
  BY DEF IsTimedDoc, OfEvents, IsFiniteBag
<1>2. /\ k \in DOMAIN e.ordinals /\ Component[t] = <<c>> /\ f \in STRING
      /\ k \in Hits(e, f, bin)
  BY <1>1, ObservationsAre DEF Timings, Hits
<1>3. t \in DOMAIN doc.top_k /\ IsTimedOf(ords, events, t)
  BY DEF IsTimedDoc
<1>4. HitsIn(events, t, f, bin) # 0
  <2> DEFINE w == Weighed(events, t, f, bin)
             H == Hits(e, f, bin)
  <2>1. w[e] = events[e] * Cardinality(H)
    BY DEF Weighed
  <2>2. IsFiniteSet(H) /\ Cardinality(H) \in Nat /\ k \in H
    BY <1>1, <1>2, HitsAre
  <2> HIDE DEF H
  <2>3. Cardinality(H) # 0
    <3>1. H # {}
      BY <2>2
    <3> QED BY <2>2, <3>1, CountIsZero
  <2>4. w[e] \in Nat /\ w[e] # 0
    BY <1>1, <2>1, <2>2, <2>3
  <2>5. /\ IsFiniteSet(DOMAIN events) /\ NatOn(w, DOMAIN events) /\ DOMAIN w = DOMAIN events
        /\ HitsIn(events, t, f, bin) = SumFunctionOnSet(w, DOMAIN events)
    BY <1>1, WeighedIs
  <2> HIDE DEF w
  <2>6. /\ SumFunctionOnSet(w, DOMAIN events) = w[e] + SumFunctionOnSet(w, DOMAIN events \ {e})
        /\ SumFunctionOnSet(w, DOMAIN events \ {e}) \in Nat
    <3>1. IsFiniteSet(DOMAIN events \ {e}) /\ \A x \in DOMAIN events : w[x] \in Nat
      BY <2>5, FS_Subset DEF NatOn
    <3> QED BY <2>5, <3>1, SumRemove, SumIsNat
  <2> QED BY <2>4, <2>5, <2>6
<1>5. Timed(ords, f, bin) # 0
  BY <1>2, <1>3, <1>4 DEF IsTimedOf
<1>6. f \in DOMAIN ords /\ ords[f].schedule = DurationSchedule
  BY <1>5 DEF Timed
<1> HIDE DEF t, f
<1> QED BY <1>2, <1>3, <1>6, DurationRowsAre DEF t, f

(* Every element is of some image: the images' sums add up.                *)
LEMMA SumOverImages ==
  ASSUME NEW f, NEW S, IsFiniteSet(S), NatOn(f, S), NEW T, IsFiniteSet(T),
         NEW m, \A x \in S : m[x] \in T,
         NEW g, \A y \in T : g[y] = SumFunctionOnSet(f, {x \in S : m[x] = y})
  PROVE  SumFunctionOnSet(g, T) = SumFunctionOnSet(f, S)
<1>1. SumFunctionOnSet(g, T) = SumFunctionOnSet(f, {x \in S : m[x] \in T})
  BY SumByImage, SMTT(60)
<1>2. {x \in S : m[x] \in T} = S
  OBVIOUS
<1> QED BY <1>1, <1>2

(* What an event adds to each row adds up to what it adds to its octave.   *)
LEMMA RowsOfAnEvent ==
  ASSUME NEW doc, NEW events, IsTimedDoc(doc, events), NEW c, NEW bin \in DurationBins,
         NEW e \in DOMAIN events, NEW g,
         \A row \in DurationRows(doc, c) : g[row] = Weighed(events, row[1], row[2], bin)[e]
  PROVE  SumFunctionOnSet(g, DurationRows(doc, c)) = events[e] * Cardinality(Timings(e, c, bin))
<1> DEFINE rows == DurationRows(doc, c)
           S == Timings(e, c, bin)
           v == events[e]
           f == [k \in S |-> v]
           m == [k \in S |-> <<e.template, e.ordinals[k].field>>]
           Hitting(row) == {k \in S : m[k] = row}
<1>1. e \in Events /\ v \in Nat /\ IsFiniteSet(S) /\ IsFiniteSet(rows)
  <2>1. e \in Events /\ v \in Nat
    BY DEF IsTimedDoc, OfEvents, IsFiniteBag
  <2> QED BY <2>1, TimingsAre, DurationRowsAre
<1>2. ASSUME NEW row \in rows PROVE g[row] = SumFunctionOnSet(f, Hitting(row))
  <2>1. row = <<row[1], row[2]>> /\ Component[row[1]] = <<c>>
    BY DurationRowsAre
  <2>2. Hitting(row) = IF e.template = row[1] THEN Hits(e, row[2], bin) ELSE {}
    <3>1. \A k \in S : m[k] = row <=> e.template = row[1] /\ e.ordinals[k].field = row[2]
      BY <2>1
    <3>2. CASE e.template = row[1]
      <4>1. \A k : k \in S /\ e.ordinals[k].field = row[2] <=> k \in Hits(e, row[2], bin)
        BY <2>1, <3>2 DEF Timings, Hits
      <4>2. \A k : k \in Hitting(row) <=> k \in Hits(e, row[2], bin)
        BY <3>1, <3>2, <4>1
      <4> HIDE DEF Hitting
      <4>3. Hitting(row) = Hits(e, row[2], bin)
        BY <4>2
      <4> QED BY <3>2, <4>3
    <3>3. CASE e.template # row[1]
      <4>1. Hitting(row) = {}
        BY <3>1, <3>3
      <4> QED BY <3>3, <4>1
    <3> QED BY <3>2, <3>3
  <2>3. IsFiniteSet(Hitting(row)) /\ \A k \in Hitting(row) : f[k] = v
    BY <1>1, FS_Subset
  <2>4. g[row] = IF e.template = row[1] THEN v * Cardinality(Hits(e, row[2], bin)) ELSE 0
    BY DEF Weighed
  <2> HIDE DEF Hitting, f, v
  <2>5. SumFunctionOnSet(f, Hitting(row)) = v * Cardinality(Hitting(row))
    BY <1>1, <2>3, ConstantSum
  <2>6. v * 0 = 0
    BY <1>1
  <2> QED BY <2>2, <2>4, <2>5, <2>6, EmptyCount
<1>3. NatOn(f, S) /\ \A k \in S : m[k] \in rows /\ f[k] = v
  BY <1>1, TimingsHaveRows DEF NatOn
<1>4. \A row \in rows : g[row] = SumFunctionOnSet(f, {k \in S : m[k] = row})
  BY <1>2
<1> HIDE DEF f, m, v, rows, S
<1>5. SumFunctionOnSet(g, rows) = SumFunctionOnSet(f, S)
  BY <1>1, <1>3, <1>4, SumOverImages, SMTT(60)
<1>6. SumFunctionOnSet(f, S) = v * Cardinality(S)
  BY <1>1, <1>3, ConstantSum
<1> QED BY <1>5, <1>6 DEF v, rows, S

(* The rows of a component add up to its durations.                        *)
LEMMA RowsAddUp ==
  ASSUME NEW doc, NEW events, IsTimedDoc(doc, events), NEW c, NEW bin \in DurationBins,
         NEW g, \A row \in DurationRows(doc, c) : g[row] = RowOf(doc, row).counts[bin]
  PROVE  /\ NatOn(g, DurationRows(doc, c))
         /\ SumFunctionOnSet(g, DurationRows(doc, c)) = InOctave(events, c, bin)
         /\ InOctave(events, c, bin) \in Nat
<1> DEFINE rows == DurationRows(doc, c)
           D == DOMAIN events
           a == [row \in rows |-> Weighed(events, row[1], row[2], bin)]
           h == [e \in D |-> events[e] * Cardinality(Timings(e, c, bin))]
<1>1. OfEvents(events) /\ IsFiniteSet(D) /\ IsFiniteSet(rows)
  BY DurationRowsAre DEF IsTimedDoc, OfEvents, IsFiniteBag
<1>2. ASSUME NEW row \in rows
      PROVE  NatOn(a[row], D) /\ g[row] = SumFunctionOnSet(a[row], D)
  <2>1. a[row] = Weighed(events, row[1], row[2], bin)
    OBVIOUS
  <2>2. g[row] = HitsIn(events, row[1], row[2], bin)
    BY DurationRowsAre
  <2> HIDE DEF a
  <2> QED BY <1>1, <2>1, <2>2, WeighedIs
<1>3. ASSUME NEW e \in D PROVE h[e] = ColumnSum(a, rows, e)
  <2> DEFINE column == [row \in rows |-> a[row][e]]
  <2>1. \A row \in rows : column[row] = Weighed(events, row[1], row[2], bin)[e]
    OBVIOUS
  <2>2. ColumnSum(a, rows, e) = SumFunctionOnSet(column, rows)
    BY DEF ColumnSum
  <2>3. h[e] = events[e] * Cardinality(Timings(e, c, bin))
    OBVIOUS
  <2> HIDE DEF column, a, h
  <2>4. SumFunctionOnSet(column, rows) = events[e] * Cardinality(Timings(e, c, bin))
    BY <2>1, RowsOfAnEvent
  <2> QED BY <2>2, <2>3, <2>4
<1>4. IsGrid(a, rows, D)
  BY <1>2 DEF IsGrid
<1>5. InOctave(events, c, bin) = SumFunctionOnSet(h, D)
  BY DEF InOctave, SumFunction
<1> HIDE DEF a, h, rows, D
<1>6. NatOn(g, rows) /\ NatOn(h, D) /\ SumFunctionOnSet(g, rows) = SumFunctionOnSet(h, D)
  BY <1>1, <1>2, <1>3, <1>4, SumsSwap
<1>7. SumFunctionOnSet(h, D) \in Nat
  BY <1>1, <1>6, SumIsNat DEF NatOn
<1> QED BY <1>5, <1>6, <1>7 DEF rows

(* The durations of a component with a row, as compute_latency_shifts      *)
(* gathers them, are those of the events.                                  *)
LEMMA AggregateIs ==
  ASSUME NEW doc, NEW events, IsTimedDoc(doc, events), NEW c, DurationRows(doc, c) # {}
  PROVE  LET all == AggregateDuration(doc, c)
         IN  all.counts = Durations(events, c) /\ all.total = SumFunction(Durations(events, c))
<1> DEFINE rows == DurationRows(doc, c)
           bins == UNION {DOMAIN RowOf(doc, row).counts : row \in rows}
           here(bin) == {r \in rows : bin \in DOMAIN RowOf(doc, r).counts}
           column(bin) == [row \in here(bin) |-> RowOf(doc, row).counts[bin]]
           counts == [bin \in bins |-> SumFunction(column(bin))]
           totals == [row \in rows |-> RowOf(doc, row).total]
           its == Durations(events, c)
           a == [row \in rows |-> RowOf(doc, row).counts]
<1>1. AggregateDuration(doc, c) = [counts |-> counts, total |-> SumFunction(totals)]
  BY DEF AggregateDuration, RowOf
<1>2. IsFiniteSet(rows) /\ rows # {} /\ IsFiniteSet(DurationBins)
  BY DurationRowsAre, DurationsHaveBins
<1>3. ASSUME NEW row \in rows
      PROVE  /\ RowOf(doc, row).counts \in [DurationBins -> Nat]
             /\ DOMAIN RowOf(doc, row).counts = DurationBins
             /\ RowOf(doc, row).total = SumFunction(RowOf(doc, row).counts)
  <2>1. /\ AreOctaves(RowOf(doc, row).counts, Bins[DurationSchedule])
        /\ RowOf(doc, row).total = SumFunction(RowOf(doc, row).counts)
    BY DurationRowsAre
  <2> QED BY <2>1 DEF AreOctaves, DurationBins
<1>4. bins = DurationBins
  <2> HIDE DEF rows
  <2> QED BY <1>2, <1>3
<1>5. ASSUME NEW bin \in DurationBins PROVE here(bin) = rows
  <2> HIDE DEF rows
  <2> QED BY <1>3
<1>6. ASSUME NEW bin \in DurationBins
      PROVE  /\ counts[bin] = InOctave(events, c, bin)
             /\ its[bin] = ColumnSum(a, rows, bin)
  <2> DEFINE g == [row \in rows |-> RowOf(doc, row).counts[bin]]
             h == [row \in rows |-> a[row][bin]]
  <2>1. column(bin) = g
    BY <1>5
  <2>2. \A row \in rows : g[row] = RowOf(doc, row).counts[bin]
    OBVIOUS
  <2>3. h = g
    OBVIOUS
  <2>4. counts[bin] = SumFunction(g)
    BY <1>4, <2>1
  <2>5. SumFunction(g) = SumFunctionOnSet(g, rows) /\ ColumnSum(a, rows, bin) = SumFunctionOnSet(h, rows)
    BY DEF SumFunction, ColumnSum
  <2>6. its[bin] = InOctave(events, c, bin)
    BY DEF Durations, DurationBins
  <2> HIDE DEF g, h, a, counts, its, column
  <2>7. SumFunctionOnSet(g, DurationRows(doc, c)) = InOctave(events, c, bin)
    BY <2>2, RowsAddUp
  <2> QED BY <2>3, <2>4, <2>5, <2>6, <2>7
<1>7. DOMAIN its = DurationBins /\ DOMAIN totals = rows /\ DOMAIN counts = DurationBins
  BY <1>4 DEF Durations, DurationBins
<1>8. counts = its
  <2>1. \A bin \in DurationBins : counts[bin] = its[bin]
    <3>1. \A bin \in DurationBins : its[bin] = InOctave(events, c, bin)
      BY DEF Durations, DurationBins
    <3> HIDE DEF counts, its
    <3> QED BY <1>6, <3>1
  <2>2. its = [bin \in DOMAIN its |-> its[bin]] /\ counts = [bin \in DOMAIN counts |-> counts[bin]]
    BY DEF Durations
  <2> HIDE DEF counts, its
  <2> QED BY <1>7, <2>1, <2>2
<1>9. SumFunction(totals) = SumFunction(its)
  <2>1. \A row \in rows : totals[row] = SumFunctionOnSet(a[row], DurationBins) /\ NatOn(a[row], DurationBins)
    BY <1>3 DEF SumFunction, NatOn
  <2>2. \A bin \in DurationBins : its[bin] = ColumnSum(a, rows, bin)
    BY <1>6
  <2>3. IsGrid(a, rows, DurationBins)
    BY <2>1 DEF IsGrid
  <2> HIDE DEF a, rows, totals, its
  <2>4. SumFunctionOnSet(totals, rows) = SumFunctionOnSet(its, DurationBins)
    BY <1>2, <2>1, <2>2, <2>3, SumsSwap
  <2> QED BY <1>7, <2>4 DEF SumFunction
<1> HIDE DEF counts, totals, its
<1>10. AggregateDuration(doc, c).counts = its /\ AggregateDuration(doc, c).total = SumFunction(its)
  BY <1>1, <1>8, <1>9
<1> QED BY <1>10 DEF its

LEMMA DurationsAre ==
  ASSUME NEW doc, NEW events, IsTimedDoc(doc, events), NEW c
  PROVE  /\ AreOctaves(Durations(events, c), Bins[DurationSchedule])
         /\ SumFunction(Durations(events, c)) \in Nat
         /\ DurationRows(doc, c) = {} => SumFunction(Durations(events, c)) = 0
         /\ DurationRows(doc, c) # {} => c \in Components(doc)
<1> DEFINE its == Durations(events, c)
           rows == DurationRows(doc, c)
<1>1. ASSUME NEW bin \in DurationBins
      PROVE  InOctave(events, c, bin) \in Nat /\ (rows = {} => InOctave(events, c, bin) = 0)
  <2> DEFINE g == [row \in rows |-> RowOf(doc, row).counts[bin]]
  <2>1. \A row \in rows : g[row] = RowOf(doc, row).counts[bin]
    OBVIOUS
  <2> HIDE DEF g
  <2>2. /\ SumFunctionOnSet(g, rows) = InOctave(events, c, bin)
        /\ InOctave(events, c, bin) \in Nat
    BY <2>1, RowsAddUp
  <2> QED BY <2>2, SumEmpty
<1>2. its \in [DurationBins -> Nat] /\ DOMAIN its = DurationBins
  BY <1>1 DEF Durations, DurationBins
<1>3. Bins[DurationSchedule] \in Nat /\ IsFiniteSet(DurationBins)
  BY DurationsHaveBins
<1>4. AreOctaves(its, Bins[DurationSchedule])
  BY <1>2, <1>3 DEF AreOctaves, DurationBins
<1>5. \A bin \in DurationBins : its[bin] = InOctave(events, c, bin)
  BY DEF Durations, DurationBins
<1> HIDE DEF its, rows
<1>6. SumFunction(its) \in Nat
  BY <1>2, <1>3, SumIsNat DEF SumFunction
<1>7. rows = {} => SumFunction(its) = 0
  <2> SUFFICES ASSUME rows = {} PROVE SumFunction(its) = 0
    OBVIOUS
  <2>1. \A bin \in DurationBins : its[bin] = 0
    BY <1>1, <1>5
  <2>2. SumFunctionOnSet(its, DurationBins) = 0 * Cardinality(DurationBins)
    BY <1>3, <2>1, ConstantSum
  <2>3. Cardinality(DurationBins) \in Nat
    BY <1>3, CountIsNat
  <2> QED BY <1>2, <2>2, <2>3 DEF SumFunction
<1>8. rows # {} => c \in Components(doc)
  <2> SUFFICES ASSUME NEW row \in rows PROVE c \in Components(doc)
    OBVIOUS
  <2>1. row = <<row[1], row[2]>>
    BY DurationRowsAre DEF rows
  <2>2. row[1] \in DOMAIN doc.top_k /\ Component[row[1]] = <<c>>
    BY <2>1, DurationRowsAre DEF rows
  <2>3. doc.top_k[row[1]].component = <<c>>
    BY <2>2 DEF IsTimedDoc
  <2>4. c \in Range(<<c>>)
    BY DEF Range
  <2> QED BY <2>2, <2>3, <2>4 DEF Components
<1> QED BY <1>4, <1>6, <1>7, <1>8 DEF its, rows

-----------------------------------------------------------------------------
(* The shifts reported *)

(* The band and the direction that quantile transport gives.               *)
Transport(apart, moved, pairs) ==
  [shift |-> IF apart >= 5 * pairs THEN "High"
             ELSE IF apart >= 2 * pairs THEN "Med"
             ELSE IF 2 * apart >= pairs THEN "Low" ELSE "None",
   direction |-> IF moved > 0 THEN "Up" ELSE IF moved < 0 THEN "Down" ELSE "None"]

LEMMA ShiftsAre ==
  ASSUME NEW previous, NEW past, IsTimedDoc(previous, past),
         NEW current, NEW now, IsTimedDoc(current, now), NEW c
  PROVE  LET prev == Durations(past, c)
             cur == Durations(now, c)
             pairs == SumFunction(prev) * SumFunction(cur)
             apart == Distance(prev, cur)
             moved == Moved(prev, cur)
             shifts == ComponentLatencyShifts(previous, current)
         IN  /\ c \in DOMAIN shifts <=>
                  /\ SumFunction(prev) >= ShiftSampleFloor /\ SumFunction(cur) >= ShiftSampleFloor
                  /\ pairs > 0 /\ 2 * apart >= pairs /\ moved # 0
             /\ c \in DOMAIN shifts =>
                  shifts[c] = [shift |-> IF apart >= 5 * pairs THEN "High"
                                         ELSE IF apart >= 2 * pairs THEN "Med" ELSE "Low",
                               direction |-> IF moved > 0 THEN "Up" ELSE "Down"]
<1> DEFINE prev == Durations(past, c)
           cur == Durations(now, c)
           P == SumFunction(prev)
           C == SumFunction(cur)
           pairs == P * C
           apart == Distance(prev, cur)
           moved == Moved(prev, cur)
           shifts == ComponentLatencyShifts(previous, current)
           both == {k \in Components(previous) \cap Components(current) :
                      {} \notin {DurationRows(previous, k), DurationRows(current, k)}}
           Of(k) == LET old == AggregateDuration(previous, k)
                        new == AggregateDuration(current, k)
                    IN  IF Min({old.total, new.total}) < ShiftSampleFloor THEN NoDrift
                        ELSE OrdinalW1(old.counts, new.counts, old.total, new.total)
           drift == [k \in both |-> Of(k)]
           shown == {k \in both : drift[k].shift # "None" /\ drift[k].direction # "None"}
           enough == P >= ShiftSampleFloor /\ C >= ShiftSampleFloor
<1>1. shifts = [k \in shown |-> drift[k]]
  BY DEF ComponentLatencyShifts, Restrict
<1>2. /\ P \in Nat /\ AreOctaves(prev, Bins[DurationSchedule])
      /\ DurationRows(previous, c) = {} => P = 0
      /\ DurationRows(previous, c) # {} => c \in Components(previous)
      /\ C \in Nat /\ AreOctaves(cur, Bins[DurationSchedule])
      /\ DurationRows(current, c) = {} => C = 0
      /\ DurationRows(current, c) # {} => c \in Components(current)
  BY DurationsAre
<1>3. c \in both <=> DurationRows(previous, c) # {} /\ DurationRows(current, c) # {}
  BY <1>2
<1>4. DOMAIN shifts = shown /\ (c \in shown => shifts[c] = Of(c))
  BY <1>1
<1>5. c \in shown <=> c \in both /\ Of(c).shift # "None" /\ Of(c).direction # "None"
  OBVIOUS
<1>6. c \in both => Of(c) = IF enough THEN OrdinalW1(prev, cur, P, C) ELSE NoDrift
  <2> SUFFICES ASSUME c \in both
               PROVE  Of(c) = IF enough THEN OrdinalW1(prev, cur, P, C) ELSE NoDrift
    OBVIOUS
  <2> DEFINE old == AggregateDuration(previous, c)
             new == AggregateDuration(current, c)
  <2>1. old.counts = prev /\ old.total = P /\ new.counts = cur /\ new.total = C
    BY <1>3, AggregateIs
  <2>2. Min({P, C}) = IF P <= C THEN P ELSE C
    BY <1>2, MinOfTwo
  <2>3. ShiftSampleFloor \in Nat
    BY FieldLadderAssumption
  <2>4. Of(c) = IF Min({old.total, new.total}) < ShiftSampleFloor THEN NoDrift
                ELSE OrdinalW1(old.counts, new.counts, old.total, new.total)
    OBVIOUS
  <2> HIDE DEF old, new, prev, cur, P, C, Of
  <2>5. Min({P, C}) < ShiftSampleFloor <=> ~enough
    BY <1>2, <2>2, <2>3
  <2> QED BY <2>1, <2>4, <2>5
<1>7. pairs > 0 <=> P # 0 /\ C # 0
  <2> HIDE DEF P, C
  <2>1. P * C \in Nat
    BY <1>2
  <2>2. P = 0 \/ C = 0 => P * C = 0
    BY <1>2
  <2>3. P # 0 /\ C # 0 => P * C # 0
    BY <1>2
  <2> QED BY <2>1, <2>2, <2>3
<1>8. pairs > 0 =>
        /\ pairs \in Nat /\ apart \in Nat /\ moved \in Int
        /\ OrdinalW1(prev, cur, P, C) = Transport(apart, moved, pairs)
  BY <1>2, <1>7, DriftIs DEF Transport
<1>9. ~(pairs > 0) /\ c \in both => OrdinalW1(prev, cur, P, C) = NoDrift
  <2>1. ~(pairs > 0) => P = 0 \/ C = 0
    BY <1>7
  <2> HIDE DEF P, C, prev, cur
  <2> QED BY <2>1 DEF OrdinalW1
<1>10. pairs > 0 => c \in both
  BY <1>2, <1>3, <1>7
<1> HIDE DEF shifts, shown, drift, both, Of, prev, cur, P, C, pairs, apart, moved
<1>11. CASE ~(pairs > 0) \/ ~enough
  <2>1. c \notin shown
    BY <1>5, <1>6, <1>9, <1>11 DEF NoDrift
  <2> QED BY <1>4, <2>1, <1>11 DEF shifts, prev, cur, P, C, pairs
<1>12. CASE pairs > 0 /\ enough
  <2> DEFINE found == Transport(apart, moved, pairs)
  <2>1. c \in both /\ Of(c) = found /\ pairs \in Nat /\ apart \in Nat /\ moved \in Int
    BY <1>6, <1>8, <1>10, <1>12
  <2>2. found.shift # "None" <=> 2 * apart >= pairs
    BY <2>1, <1>12 DEF Transport
  <2>3. found.direction # "None" <=> moved # 0
    BY <2>1 DEF Transport
  <2>4. c \in shown <=> 2 * apart >= pairs /\ moved # 0
    <3> HIDE DEF found
    <3> QED BY <1>5, <2>1, <2>2, <2>3
  <2>5. 2 * apart >= pairs /\ moved # 0 =>
          found = [shift |-> IF apart >= 5 * pairs THEN "High"
                             ELSE IF apart >= 2 * pairs THEN "Med" ELSE "Low",
                   direction |-> IF moved > 0 THEN "Up" ELSE "Down"]
    BY <2>1 DEF Transport
  <2> HIDE DEF found
  <2> QED BY <1>4, <1>12, <2>1, <2>4, <2>5 DEF shifts, prev, cur, P, C, pairs, apart, moved
<1> QED BY <1>11, <1>12

(* A component is reported as shifted exactly when both windows observed   *)
(* enough of its durations and these lie at least half an octave apart, in *)
(* the band of that distance and the direction of the mean                 *)
(* (compute_latency_shifts, ordinal_w1).                                   *)
THEOREM DriftIsAlwaysTransport == FieldSpec => []DriftIsTransport
<1>1. LeafInv => DriftIsTransport
  <2> SUFFICES ASSUME LeafInv PROVE DriftIsTransport
    OBVIOUS
  <2> DEFINE Leaves == {r \in pool : Cardinality(r.leaves) = 1}
  <2>1. ASSUME NEW p \in Leaves, NEW q \in Leaves,
               NEW c \in Components(p.doc) \cup Components(q.doc)
        PROVE  LET prev == Durations(p.tabled, c)
                   cur == Durations(q.tabled, c)
                   pairs == SumFunction(prev) * SumFunction(cur)
                   apart == Distance(prev, cur)
                   moved == Moved(prev, cur)
                   shifts == ComponentLatencyShifts(p.doc, q.doc)
               IN  /\ c \in DOMAIN shifts <=>
                        /\ SumFunction(prev) >= ShiftSampleFloor /\ SumFunction(cur) >= ShiftSampleFloor
                        /\ pairs > 0 /\ 2 * apart >= pairs /\ moved # 0
                   /\ c \in DOMAIN shifts =>
                        shifts[c] = [shift |-> IF apart >= 5 * pairs THEN "High"
                                               ELSE IF apart >= 2 * pairs THEN "Med" ELSE "Low",
                                     direction |-> IF moved > 0 THEN "Up" ELSE "Down"]
    <3>1. IsTimedDoc(p.doc, p.tabled) /\ IsTimedDoc(q.doc, q.tabled)
      BY DEF LeafInv
    <3> QED BY <3>1, ShiftsAre
  <2> QED BY <2>1, Zenon DEF DriftIsTransport
<1> QED BY <1>1, DurationsAreAlwaysTabled, PTL

=============================================================================
