--------------------------- MODULE DocumentProofs ---------------------------
(***************************************************************************)
(* What holds of every document of every ladder: every line is in one      *)
(* place of it, compose commutes, a diff reverses, unchanged means the     *)
(* same, and the churn of a ladder folded along time bounds what happened. *)
(* The presence-churn algebra comes first; then what makes a record a      *)
(* document, that a window closes to one and that two compose to one, the  *)
(* invariant of the pool and its theorems; and last the elements of a      *)
(* ladder, with an invariant of their own.                                 *)
(***************************************************************************)
EXTENDS BlockLemmas, DocumentLadder

-----------------------------------------------------------------------------
(* Presence churn *)

(* An element a document can carry: the empty range is the identity alone, *)
(* and there are no more boundaries than windows to have them between.     *)
WellFormed(c) ==
  /\ c \in Churn
  /\ c.span = 0 => c = EmptyChurn
  /\ c.span > 0 => c.transitions + c.indeterminate < c.span

(* Every element a window or a document contributes is well formed: one    *)
(* window, an exhaustive range and a truncated one alike.                  *)
THEOREM BaseElementsAreWellFormed ==
  /\ WellFormed(EmptyChurn)
  /\ WellFormed(RetainedWindow)
  /\ \A span \in Nat, exhaustive \in BOOLEAN : WellFormed(UnretainedRange(span, exhaustive))
<1>1. WellFormed(EmptyChurn)
  BY SMT DEF WellFormed, EmptyChurn, Churn, PresenceSymbol
<1>2. WellFormed(RetainedWindow)
  BY SMT DEF WellFormed, RetainedWindow, Churn, PresenceSymbol
<1>3. ASSUME NEW span \in Nat, NEW exhaustive \in BOOLEAN
      PROVE  WellFormed(UnretainedRange(span, exhaustive))
  <2>1. CASE span = 0
    BY <1>1, <2>1 DEF UnretainedRange
  <2>2. CASE span # 0 /\ exhaustive
    BY <2>2, SMT DEF UnretainedRange, WellFormed, Churn, PresenceSymbol
  <2>3. CASE span # 0 /\ ~exhaustive
    BY <2>3, SMT DEF UnretainedRange, WellFormed, Churn, PresenceSymbol
  <2> QED BY <2>1, <2>2, <2>3
<1> QED BY <1>1, <1>2, <1>3

(* The default element is the identity of the product from both sides, so  *)
(* a document with no churn observation changes nothing.                   *)
THEOREM EmptyIsIdentity ==
  \A c \in Churn : WellFormed(c) =>
    ChurnProduct(EmptyChurn, c) = c /\ ChurnProduct(c, EmptyChurn) = c
BY SMT DEF ChurnProduct, EmptyChurn, WellFormed, Churn

(* The product keeps elements well formed: a boundary is counted once, as  *)
(* a transition or as indeterminate, at whatever level it is met.          *)
THEOREM ProductIsWellFormed ==
  \A a, b \in Churn : WellFormed(a) /\ WellFormed(b) => WellFormed(ChurnProduct(a, b))
<1> SUFFICES ASSUME NEW a \in Churn, NEW b \in Churn, WellFormed(a), WellFormed(b)
             PROVE  WellFormed(ChurnProduct(a, b))
  OBVIOUS
<1>1. CASE a.span = 0 \/ b.span = 0
  BY <1>1 DEF ChurnProduct
<1>2. CASE a.span # 0 /\ b.span # 0
  BY <1>2, SMT DEF ChurnProduct, WellFormed, Churn, PresenceSymbol, Readable, Changed
<1> QED BY <1>1, <1>2

(* The fold of compose gives the same element whatever documents of a      *)
(* ladder are merged first.                                                *)
THEOREM ProductIsAssociative ==
  \A a, b, c \in Churn :
    ChurnProduct(ChurnProduct(a, b), c) = ChurnProduct(a, ChurnProduct(b, c))
<1> SUFFICES ASSUME NEW a \in Churn, NEW b \in Churn, NEW c \in Churn
             PROVE  ChurnProduct(ChurnProduct(a, b), c) = ChurnProduct(a, ChurnProduct(b, c))
  OBVIOUS
<1>1. CASE a.span = 0
  BY <1>1, SMT DEF ChurnProduct, Churn
<1>2. CASE b.span = 0
  BY <1>2, SMT DEF ChurnProduct, Churn
<1>3. CASE c.span = 0
  BY <1>3, SMT DEF ChurnProduct, Churn
<1>4. CASE a.span # 0 /\ b.span # 0 /\ c.span # 0
  BY <1>4, SMT DEF ChurnProduct, Churn, Readable, Changed
<1> QED BY <1>1, <1>2, <1>3, <1>4

(* The join of two shards has no order to get wrong. *)
THEOREM JoinIsSymmetric ==
  \A a, b \in Churn : ChurnJoin(a, b) = ChurnJoin(b, a)
<1> SUFFICES ASSUME NEW a \in Churn, NEW b \in Churn
             PROVE  ChurnJoin(a, b) = ChurnJoin(b, a)
  OBVIOUS
<1>1. \A x, y \in PresenceSymbol : JoinSymbol(x, y) = JoinSymbol(y, x)
  BY SMT DEF JoinSymbol, PresenceSymbol
<1> QED BY <1>1, SMT DEF ChurnJoin, Churn

(* Nor does it matter which shards are joined first. *)
THEOREM JoinIsAssociative ==
  \A a, b, c \in Churn : ChurnJoin(ChurnJoin(a, b), c) = ChurnJoin(a, ChurnJoin(b, c))
<1> SUFFICES ASSUME NEW a \in Churn, NEW b \in Churn, NEW c \in Churn
             PROVE  ChurnJoin(ChurnJoin(a, b), c) = ChurnJoin(a, ChurnJoin(b, c))
  OBVIOUS
<1>1. \A x, y, z \in PresenceSymbol :
        JoinSymbol(JoinSymbol(x, y), z) = JoinSymbol(x, JoinSymbol(y, z))
  BY SMT DEF JoinSymbol, PresenceSymbol
<1> QED BY <1>1, SMT DEF ChurnJoin, Churn

-----------------------------------------------------------------------------
(* Documents *)

Optional(S) == {Absent} \cup {<<x>> : x \in S}

Roles == DOMAIN RoleRank \cup {NoRole}

Interval == [start : Nat, end : Nat]

(* What every row says of its template.                                    *)
IsLabelled(row) ==
  /\ row.count \in Nat \ {0}
  /\ row.level \in Optional(EventLevel)
  /\ row.component \in Optional(Nat)
  /\ row.churn \in Churn

IsTopRow(row) ==
  /\ IsLabelled(row)
  /\ \A i \in DOMAIN row.histograms : IsSlotOf(row.histograms[i], row.count)
  /\ AreOrdinals(row.ordinals)

IsReservoirRow(row) ==
  /\ IsLabelled(row)
  /\ row.role \in Roles
  /\ row.where \in Optional(Nat)

(* The rows of a document: no template is in both arrays.                  *)
HasRows(doc) ==
  /\ IsFiniteSet(Retained(doc)) /\ Retained(doc) \subseteq Nat
  /\ DOMAIN doc.top_k \cap DOMAIN doc.reservoir = {}
  /\ \A t \in DOMAIN doc.top_k : IsTopRow(doc.top_k[t])
  /\ \A t \in DOMAIN doc.reservoir : IsReservoirRow(doc.reservoir[t])

(* A cube: the cells of lines of the windows, and its state.               *)
Cubed == [rows : SUBSET Rows, state : CollapseStates]

(* What stands around them.                                                *)
HasFrame(doc) ==
  /\ doc.lines \in Nat /\ doc.tail_count \in Nat /\ doc.tail_unique \in Nat
  /\ doc.cube \in Optional(Cubed)
  /\ doc.envelope \in Optional(Interval)
  /\ doc.source.host_count \in Optional(Nat)
  /\ doc.presence_churn = Absent \/ doc.presence_churn[1].span_windows \in Nat
  /\ IsABag(doc.provenance) /\ IsABag(doc.coordinate)
  /\ doc.behavior = Absent \/ (doc.behavior = <<doc.behavior[1]>> /\ IsBehavior(doc.behavior[1]))

(* Where lines with an ordinal field are of a component, the cube has it.  *)
IsLocated(doc) ==
  \A t \in DOMAIN doc.top_k : \A label :
    doc.top_k[t].ordinals # << >> /\ doc.top_k[t].component = <<label>> =>
      /\ label # Cubes!Star
      /\ doc.cube # Absent => \E r \in doc.cube[1].rows : r[Cubes!Where] = label

IsDocument(doc) == HasRows(doc) /\ HasFrame(doc) /\ IsLocated(doc)

-----------------------------------------------------------------------------
(* Labels merged *)

(* Labels that a ranking tells apart.                                      *)
IsRankingOf(rank, S) ==
  /\ \A x \in S : rank[x] \in Nat
  /\ \A x, y \in S : rank[x] = rank[y] => x = y

(* The label resolved is one of the two, whichever comes first.            *)
LEMMA LabelIsResolved ==
  ASSUME NEW S, NEW rank, IsRankingOf(rank, S), NEW l \in Optional(S), NEW r \in Optional(S),
         NEW m \in Nat, NEW n \in Nat
  PROVE  /\ ResolveLabel(l, m, r, n, rank) = ResolveLabel(r, n, l, m, rank)
         /\ ResolveLabel(l, m, r, n, rank) \in Optional(S)
<1>1. (l = Absent \/ \E x \in S : l = <<x>>) /\ (r = Absent \/ \E x \in S : r = <<x>>)
  BY DEF Optional
<1>2. ResolveLabel(l, m, r, n, rank) \in {l, r}
  BY DEF ResolveLabel
<1>3. CASE l = Absent \/ r = Absent
  BY <1>2, <1>3 DEF ResolveLabel
<1>4. CASE \E x, y \in S : l = <<x>> /\ r = <<y>>
  <2>1. PICK x \in S, y \in S : l = <<x>> /\ r = <<y>>
    BY <1>4
  <2>2. l[1] = x /\ r[1] = y /\ l # Absent /\ r # Absent
    BY <2>1 DEF Absent
  <2>3. rank[x] \in Nat /\ rank[y] \in Nat /\ (rank[x] = rank[y] => l = r)
    BY <2>1 DEF IsRankingOf
  <2> QED BY <1>2, <2>2, <2>3 DEF ResolveLabel
<1> QED BY <1>1, <1>2, <1>3, <1>4

(* What a concatenation holds.                                             *)
LEMMA RangeOfConcat ==
  ASSUME NEW S, NEW a \in Seq(S), NEW b \in Seq(S)
  PROVE  Range(a \o b) = Range(a) \cup Range(b)
<1> DEFINE c == a \o b
           m == Len(a)
           n == Len(b)
<1>1. m \in Nat /\ n \in Nat /\ DOMAIN a = 1..m /\ DOMAIN b = 1..n /\ DOMAIN c = 1..(m + n)
  OBVIOUS
<1>2. /\ \A i \in 1..m : c[i] = a[i]
      /\ \A i \in 1..n : m + i \in 1..(m + n) /\ c[m + i] = b[i]
      /\ \A i \in 1..(m + n) : i \in 1..m \/ (i - m \in 1..n /\ c[i] = b[i - m])
  BY <1>1
<1> HIDE DEF c, m, n
<1>3. Range(c) \subseteq Range(a) \cup Range(b)
  BY <1>1, <1>2 DEF Range
<1>4. Range(a) \subseteq Range(c) /\ Range(b) \subseteq Range(c)
  <2>1. ASSUME NEW i \in 1..m PROVE a[i] \in Range(c)
    <3>1. i \in 1..(m + n) /\ c[i] = a[i]
      BY <1>1, <1>2
    <3> QED BY <1>1, <3>1 DEF Range
  <2>2. ASSUME NEW i \in 1..n PROVE b[i] \in Range(c)
    <3>1. m + i \in 1..(m + n) /\ c[m + i] = b[i]
      BY <1>1, <1>2
    <3> QED BY <1>1, <3>1 DEF Range
  <2> QED BY <1>1, <2>1, <2>2 DEF Range
<1> QED BY <1>3, <1>4 DEF c

(* Components are ranked by themselves.                                    *)
LEMMA ComponentsAreRanked ==
  ASSUME NEW l \in Optional(Nat), NEW r \in Optional(Nat), NEW m \in Nat, NEW n \in Nat
  PROVE  /\ ResolveLabel(l, m, r, n, Itself(l \o r)) = ResolveLabel(r, n, l, m, Itself(r \o l))
         /\ ResolveLabel(l, m, r, n, Itself(l \o r)) \in Optional(Nat)
<1>1. (l = << >> \/ \E x \in Nat : l = <<x>>) /\ (r = << >> \/ \E x \in Nat : r = <<x>>)
  BY DEF Optional, Absent
<1>2. << >> \in Seq(Nat) /\ \A x \in Nat : <<x>> \in Seq(Nat)
  OBVIOUS
<1>3. l \in Seq(Nat) /\ r \in Seq(Nat)
  BY <1>1, <1>2
<1>10. Range(l \o r) = Range(l) \cup Range(r) /\ Range(r \o l) = Range(r) \cup Range(l)
  BY <1>3, RangeOfConcat
<1>4. Itself(l \o r) = Itself(r \o l)
  BY <1>10 DEF Itself
<1> DEFINE rank == Itself(l \o r)
           S == Range(l) \cup Range(r)
<1>5. S \subseteq Nat /\ l \in Optional(S) /\ r \in Optional(S)
  BY <1>1 DEF Range, Optional, Absent
<1>6. \A x \in S : rank[x] = x
  BY <1>10 DEF Itself
<1> HIDE DEF rank, S
<1>7. IsRankingOf(rank, S)
  BY <1>5, <1>6 DEF IsRankingOf
<1>8. /\ ResolveLabel(l, m, r, n, rank) = ResolveLabel(r, n, l, m, rank)
      /\ ResolveLabel(l, m, r, n, rank) \in Optional(S)
  BY <1>5, <1>7, LabelIsResolved
<1>9. Optional(S) \subseteq Optional(Nat)
  BY <1>5 DEF Optional
<1> QED BY <1>4, <1>8, <1>9 DEF rank

(* The levels, by spelling and provenance.                                 *)
LEMMA LevelsAreRanked == IsRankingOf(LevelRank, EventLevel)
<1>1. \A x \in EventLevel : /\ x.value \in 0..Unknown /\ x.declared \in BOOLEAN
                            /\ SpellingRank[x.value] \in Nat
                            /\ LevelRank[x] = 2 * SpellingRank[x.value] + (IF x.declared THEN 0 ELSE 1)
  BY SpellingAssumption DEF EventLevel, LevelRank
<1>2. ASSUME NEW x \in EventLevel, NEW y \in EventLevel, LevelRank[x] = LevelRank[y]
      PROVE  x = y
  <2>1. SpellingRank[x.value] = SpellingRank[y.value] /\ x.declared = y.declared
    BY <1>1, <1>2
  <2>2. x.value = y.value
    BY <1>1, <2>1, SpellingAssumption
  <2> QED BY <2>1, <2>2 DEF EventLevel
<1> QED BY <1>1, <1>2 DEF IsRankingOf

LEMMA NoOrdinals == AreOrdinals(<< >>)
<1>1. DOMAIN << >> = {} /\ IsFiniteSet({})
  BY FS_EmptySet
<1> QED BY <1>1 DEF AreOrdinals

(* What a document says of a template.                                     *)
IsView(view) ==
  /\ view.count \in Nat
  /\ view.level \in Optional(EventLevel)
  /\ view.component \in Optional(Nat)
  /\ view.role \in Roles
  /\ view.where \in Optional(Nat)

LEMMA InputIsAView ==
  ASSUME NEW doc, HasRows(doc), NEW t
  PROVE  /\ IsView(InputTemplate(doc, t))
         /\ InputTemplate(doc, t).count = IF t \in Retained(doc) THEN Row(doc, t).count ELSE 0
<1>1. NotCarried = [count |-> 0, level |-> Absent, component |-> Absent, role |-> NoRole,
                    where |-> Absent]
  BY DEF NotCarried, NoLabel, Absent
<1>2. Absent \in Optional(EventLevel) /\ Absent \in Optional(Nat) /\ NoRole \in Roles
  BY DEF Optional, Roles
<1>3. CASE t \in DOMAIN doc.top_k
  <2> DEFINE row == doc.top_k[t]
  <2>1. row.count \in Nat /\ row.level \in Optional(EventLevel) /\ row.component \in Optional(Nat)
    BY <1>3 DEF HasRows, IsTopRow, IsLabelled
  <2>2. InputTemplate(doc, t) = [count |-> row.count, level |-> row.level,
                                 component |-> row.component, role |-> NoRole, where |-> Absent]
    BY <1>1, <1>3 DEF InputTemplate
  <2>3. t \in Retained(doc) /\ Row(doc, t) = row
    BY <1>3 DEF Retained, Row
  <2> HIDE DEF row
  <2> QED BY <1>2, <2>1, <2>2, <2>3 DEF IsView
<1>4. CASE t \notin DOMAIN doc.top_k /\ t \in DOMAIN doc.reservoir
  <2> DEFINE row == doc.reservoir[t]
  <2>1. /\ row.count \in Nat /\ row.level \in Optional(EventLevel)
        /\ row.component \in Optional(Nat) /\ row.role \in Roles /\ row.where \in Optional(Nat)
    BY <1>4 DEF HasRows, IsReservoirRow, IsLabelled
  <2>2. InputTemplate(doc, t) = [count |-> row.count, level |-> row.level,
                                 component |-> row.component, role |-> row.role,
                                 where |-> row.where]
    <3>1. InputTemplate(doc, t) = [field \in DOMAIN NotCarried |-> row[field]]
      BY <1>4 DEF InputTemplate
    <3> HIDE DEF row
    <3> QED BY <1>1, <3>1
  <2>3. t \in Retained(doc) /\ Row(doc, t) = row
    BY <1>4 DEF Retained, Row
  <2> HIDE DEF row
  <2> QED BY <2>1, <2>2, <2>3 DEF IsView
<1>5. CASE t \notin Retained(doc)
  <2>1. InputTemplate(doc, t) = NotCarried
    BY <1>5 DEF InputTemplate, Retained
  <2> QED BY <1>1, <1>2, <1>5, <2>1 DEF IsView
<1> QED BY <1>3, <1>4, <1>5 DEF Retained

(* The level that compose reads of a view: one the wire writes.            *)
LevelOf(view) ==
  IF view.level # Absent /\ view.level[1].value # Unknown THEN view.level ELSE Absent

LEMMA LevelIsResolved ==
  ASSUME NEW l, NEW r, IsView(l), IsView(r)
  PROVE  ResolveLevel(l, r) = ResolveLevel(r, l) /\ ResolveLevel(l, r) \in Optional(EventLevel)
<1> DEFINE there == ResolveLabel(LevelOf(l), l.count, LevelOf(r), r.count, LevelRank)
           back == ResolveLabel(LevelOf(r), r.count, LevelOf(l), l.count, LevelRank)
           none == <<[value |-> Unknown, declared |-> FALSE]>>
<1>1. LevelOf(l) \in Optional(EventLevel) /\ LevelOf(r) \in Optional(EventLevel)
  BY DEF LevelOf, IsView, Optional
<1>2. l.count \in Nat /\ r.count \in Nat
  BY DEF IsView
<1>3. there = back /\ there \in Optional(EventLevel)
  BY <1>1, <1>2, LevelsAreRanked, LabelIsResolved
<1>4. none \in Optional(EventLevel) /\ Absent \in Optional(EventLevel)
  <2>1. [value |-> Unknown, declared |-> FALSE] \in EventLevel
    BY DEF EventLevel, Unknown
  <2> QED BY <2>1 DEF Optional
<1>5. /\ ResolveLevel(l, r) = IF there # Absent THEN there
                              ELSE IF {l.level, r.level} = {Absent} THEN Absent ELSE none
      /\ ResolveLevel(r, l) = IF back # Absent THEN back
                              ELSE IF {r.level, l.level} = {Absent} THEN Absent ELSE none
  BY DEF ResolveLevel, LevelOf
<1>6. {l.level, r.level} = {r.level, l.level}
  OBVIOUS
<1> HIDE DEF there, back, none
<1> QED BY <1>3, <1>4, <1>5, <1>6

(* The role, None being none.                                              *)
RoleOf(view) == IF view.role = NoRole THEN Absent ELSE <<view.role>>

LEMMA RoleIsResolved ==
  ASSUME NEW l, NEW r, IsView(l), IsView(r)
  PROVE  ResolveRole(l, r) = ResolveRole(r, l) /\ ResolveRole(l, r) \in Roles
<1> DEFINE S == DOMAIN RoleRank
           there == ResolveLabel(RoleOf(l), l.count, RoleOf(r), r.count, RoleRank)
           back == ResolveLabel(RoleOf(r), r.count, RoleOf(l), l.count, RoleRank)
<1>1. RoleOf(l) \in Optional(S) /\ RoleOf(r) \in Optional(S)
  BY DEF RoleOf, IsView, Optional, Roles
<1>2. IsRankingOf(RoleRank, S)
  BY SpellingAssumption DEF IsRankingOf
<1>3. l.count \in Nat /\ r.count \in Nat
  BY DEF IsView
<1> HIDE DEF S
<1>4. there = back /\ there \in Optional(S)
  BY <1>1, <1>2, <1>3, LabelIsResolved
<1>5. /\ ResolveRole(l, r) = IF there = Absent THEN NoRole ELSE there[1]
      /\ ResolveRole(r, l) = IF back = Absent THEN NoRole ELSE back[1]
  BY DEF ResolveRole, RoleOf
<1> HIDE DEF there, back
<1>6. there = Absent \/ \E x \in S : there = <<x>>
  BY <1>4 DEF Optional
<1>7. S \subseteq Roles /\ NoRole \in Roles
  BY DEF S, Roles
<1> QED BY <1>4, <1>5, <1>6, <1>7

(* Two views merge to one, in either order, of both their counts.          *)
LEMMA ViewsMerge ==
  ASSUME NEW l, NEW r, IsView(l), IsView(r)
  PROVE  /\ MergedTemplate(l, r) = MergedTemplate(r, l)
         /\ IsView(MergedTemplate(l, r))
         /\ MergedTemplate(l, r).count = l.count + r.count
<1> DEFINE Own(x, y, m, n) == ResolveLabel(x, m, y, n, Itself(x \o y))
<1>1. /\ l.count \in Nat /\ r.count \in Nat
      /\ l.component \in Optional(Nat) /\ r.component \in Optional(Nat)
      /\ l.where \in Optional(Nat) /\ r.where \in Optional(Nat)
  BY DEF IsView
<1>2. /\ Own(l.component, r.component, l.count, r.count)
           = Own(r.component, l.component, r.count, l.count)
      /\ Own(l.component, r.component, l.count, r.count) \in Optional(Nat)
  BY <1>1, ComponentsAreRanked
<1>3. /\ Own(l.where, r.where, l.count, r.count) = Own(r.where, l.where, r.count, l.count)
      /\ Own(l.where, r.where, l.count, r.count) \in Optional(Nat)
  BY <1>1, ComponentsAreRanked
<1>4. ResolveLevel(l, r) = ResolveLevel(r, l) /\ ResolveLevel(l, r) \in Optional(EventLevel)
  BY LevelIsResolved
<1>5. ResolveRole(l, r) = ResolveRole(r, l) /\ ResolveRole(l, r) \in Roles
  BY RoleIsResolved
<1>6. /\ MergedTemplate(l, r) =
           [count |-> l.count + r.count, level |-> ResolveLevel(l, r),
            component |-> Own(l.component, r.component, l.count, r.count),
            role |-> ResolveRole(l, r), where |-> Own(l.where, r.where, l.count, r.count)]
      /\ MergedTemplate(r, l) =
           [count |-> r.count + l.count, level |-> ResolveLevel(r, l),
            component |-> Own(r.component, l.component, r.count, l.count),
            role |-> ResolveRole(r, l), where |-> Own(r.where, l.where, r.count, l.count)]
  BY DEF MergedTemplate
<1>7. l.count + r.count = r.count + l.count /\ l.count + r.count \in Nat
  BY <1>1
<1> HIDE DEF Own
<1>8. MergedTemplate(l, r) = MergedTemplate(r, l)
  BY ONLY <1>2, <1>3, <1>4, <1>5, <1>6, <1>7
<1>9. IsView(MergedTemplate(l, r))
  BY ONLY <1>2, <1>3, <1>4, <1>5, <1>6, <1>7 DEF IsView
<1> QED BY <1>6, <1>8, <1>9

(* The templates of two documents, merged.                                 *)
LEMMA TemplatesMerge ==
  ASSUME NEW lhs, NEW rhs, HasRows(lhs), HasRows(rhs)
  PROVE  /\ MergedTemplates(lhs, rhs) = MergedTemplates(rhs, lhs)
         /\ DOMAIN MergedTemplates(lhs, rhs) = Retained(lhs) \cup Retained(rhs)
         /\ \A t \in DOMAIN MergedTemplates(lhs, rhs) :
              /\ IsView(MergedTemplates(lhs, rhs)[t])
              /\ MergedTemplates(lhs, rhs)[t].count \in Nat \ {0}
              /\ MergedTemplates(lhs, rhs)[t].count
                   = InputTemplate(lhs, t).count + InputTemplate(rhs, t).count
<1> DEFINE D == Retained(lhs) \cup Retained(rhs)
           there == [t \in D |-> MergedTemplate(InputTemplate(lhs, t), InputTemplate(rhs, t))]
           back == [t \in D |-> MergedTemplate(InputTemplate(rhs, t), InputTemplate(lhs, t))]
<1>1. MergedTemplates(lhs, rhs) = there
  BY DEF MergedTemplates
<1>2. MergedTemplates(rhs, lhs) = back
  <2>1. Retained(rhs) \cup Retained(lhs) = D
    OBVIOUS
  <2> QED BY <2>1 DEF MergedTemplates
<1>3. \A t \in D : IsView(InputTemplate(lhs, t)) /\ IsView(InputTemplate(rhs, t))
  BY InputIsAView
<1>4. \A t \in D : there[t] = back[t]
  BY <1>3, ViewsMerge
<1>5. ASSUME NEW t \in D
      PROVE  /\ IsView(there[t]) /\ there[t].count \in Nat \ {0}
             /\ there[t].count = InputTemplate(lhs, t).count + InputTemplate(rhs, t).count
  <2>1. /\ IsView(there[t])
        /\ there[t].count = InputTemplate(lhs, t).count + InputTemplate(rhs, t).count
    BY <1>3, ViewsMerge
  <2>2. InputTemplate(lhs, t).count \in Nat /\ InputTemplate(rhs, t).count \in Nat
    BY <1>3 DEF IsView
  <2>3. InputTemplate(lhs, t).count # 0 \/ InputTemplate(rhs, t).count # 0
    <3>1. \A doc \in {lhs, rhs} : t \in Retained(doc) => Row(doc, t).count \in Nat \ {0}
      BY DEF HasRows, IsTopRow, IsReservoirRow, IsLabelled, Retained, Row
    <3> QED BY <3>1, InputIsAView
  <2> QED BY <2>1, <2>2, <2>3
<1> HIDE DEF D
<1>6. there = back
  BY <1>4
<1> HIDE DEF there, back
<1>7. DOMAIN there = D
  BY DEF there
<1> QED BY <1>1, <1>2, <1>5, <1>6, <1>7 DEF D

-----------------------------------------------------------------------------
(* Churn merged *)

LEMMA ChurnIsClosed ==
  ASSUME NEW a \in Churn, NEW b \in Churn
  PROVE  ChurnProduct(a, b) \in Churn /\ ChurnJoin(a, b) \in Churn
<1>1. ChurnProduct(a, b) \in Churn
  BY SMT DEF ChurnProduct, Churn
<1>2. \A x, y \in PresenceSymbol : JoinSymbol(x, y) \in PresenceSymbol
  BY SMT DEF JoinSymbol, PresenceSymbol
<1>3. ChurnJoin(a, b) \in Churn
  BY <1>2, SMT DEF ChurnJoin, Churn
<1> QED BY <1>1, <1>3

LEMMA ElementIsTyped ==
  ASSUME NEW doc, IsDocument(doc), NEW t
  PROVE  ElementOf(doc, t) \in Churn /\ ChurnSpan(doc) \in Nat
<1>1. ChurnSpan(doc) \in Nat
  BY DEF IsDocument, HasFrame, ChurnSpan
<1>2. RetentionIsExhaustive(doc) \in BOOLEAN
  BY DEF RetentionIsExhaustive
<1>3. CASE t \in Retained(doc)
  BY <1>1, <1>3 DEF IsDocument, HasRows, Retained, Row, ElementOf, IsTopRow, IsReservoirRow, IsLabelled
<1>4. CASE t \notin Retained(doc)
  <2>1. UnretainedRange(ChurnSpan(doc), RetentionIsExhaustive(doc)) \in Churn
    BY <1>1, <1>2, BaseElementsAreWellFormed DEF WellFormed
  <2> QED BY <1>1, <1>4, <2>1 DEF ElementOf
<1> QED BY <1>3, <1>4

(* Of two documents at most one ends before the other starts.              *)
LEMMA OneIsEarlier ==
  ASSUME NEW l \in Optional(Interval), NEW r \in Optional(Interval), Precedes(l, r)
  PROVE  ~Precedes(r, l)
<1>1. PICK x \in Interval, y \in Interval : l = <<x>> /\ r = <<y>>
  BY DEF Optional, Precedes
<1>2. l[1] = x /\ r[1] = y /\ x.start \in Nat /\ y.start \in Nat
  BY <1>1 DEF Interval
<1> QED BY <1>2 DEF Precedes

(* The fold of two documents takes their order from the windows alone.     *)
LEMMA ChurnIsFolded ==
  ASSUME NEW lhs, NEW rhs, IsDocument(lhs), IsDocument(rhs), NEW t
  PROVE  /\ FoldedChurn(lhs, rhs, t) = FoldedChurn(rhs, lhs, t)
         /\ FoldedChurn(lhs, rhs, t) \in Churn
<1> DEFINE a == ElementOf(lhs, t)
           b == ElementOf(rhs, t)
           before == Precedes(lhs.envelope, rhs.envelope)
           after == Precedes(rhs.envelope, lhs.envelope)
           silent == ChurnSpan(lhs) = 0 /\ ChurnSpan(rhs) = 0
<1>1. a \in Churn /\ b \in Churn
  BY ElementIsTyped
<1>2. ~(before /\ after)
  <2>1. lhs.envelope \in Optional(Interval) /\ rhs.envelope \in Optional(Interval)
    BY DEF IsDocument, HasFrame
  <2> QED BY <2>1, OneIsEarlier
<1>3. ChurnJoin(a, b) = ChurnJoin(b, a)
  BY <1>1, JoinIsSymmetric
<1>4. /\ ChurnProduct(a, b) \in Churn /\ ChurnProduct(b, a) \in Churn /\ ChurnJoin(a, b) \in Churn
      /\ EmptyChurn \in Churn
  BY <1>1, ChurnIsClosed, BaseElementsAreWellFormed DEF WellFormed
<1>5. /\ FoldedChurn(lhs, rhs, t) = IF silent THEN EmptyChurn
                                    ELSE IF before THEN ChurnProduct(a, b)
                                    ELSE IF after THEN ChurnProduct(b, a) ELSE ChurnJoin(a, b)
      /\ FoldedChurn(rhs, lhs, t) = IF silent THEN EmptyChurn
                                    ELSE IF after THEN ChurnProduct(b, a)
                                    ELSE IF before THEN ChurnProduct(a, b) ELSE ChurnJoin(b, a)
  BY DEF FoldedChurn, FoldedElement
<1> HIDE DEF a, b, before, after, silent
<1> QED BY <1>2, <1>3, <1>4, <1>5

LEMMA PairIsFinite == ASSUME NEW x, NEW y PROVE IsFiniteSet({x, y})
<1>1. {x, y} = ({} \cup {x}) \cup {y}
  OBVIOUS
<1> QED BY <1>1, EmptyCount, CountOneMore

(* The summary of the rows, and how many windows it is of.                 *)
LEMMA SummaryIsOfBoth ==
  ASSUME NEW lhs, NEW rhs, IsDocument(lhs), IsDocument(rhs), NEW ids
  PROVE  /\ ChurnSummary(lhs, rhs, ids) = ChurnSummary(rhs, lhs, ids)
         /\ ChurnSummary(lhs, rhs, ids) = Absent
            \/ ChurnSummary(lhs, rhs, ids)[1].span_windows \in Nat
<1> DEFINE there == [t \in ids |-> FoldedChurn(lhs, rhs, t)]
           back == [t \in ids |-> FoldedChurn(rhs, lhs, t)]
           m == ChurnSpan(lhs)
           n == ChurnSpan(rhs)
           ordered == Precedes(lhs.envelope, rhs.envelope) \/ Precedes(rhs.envelope, lhs.envelope)
           Totals(element, span) ==
             <<[span_windows |-> span,
                templates_with_churn |-> Cardinality({t \in ids : element[t].transitions > 0}),
                total_transitions |-> SumFunction([t \in ids |-> element[t].transitions]),
                total_indeterminate |-> SumFunction([t \in ids |-> element[t].indeterminate])]>>
           span == IF ordered THEN m + n ELSE Max({m, n})
<1>1. there = back
  BY ChurnIsFolded
<1>2. m \in Nat /\ n \in Nat
  BY ElementIsTyped
<1>3. span \in Nat
  <2>1. {m, n} \in SUBSET Nat /\ {m, n} # {} /\ IsFiniteSet({m, n})
    BY <1>2, PairIsFinite
  <2>2. Max({m, n}) \in {m, n}
    BY <2>1, MaxIsElement
  <2> QED BY <1>2, <2>2
<1>4. /\ ChurnSummary(lhs, rhs, ids) = IF m = 0 /\ n = 0 THEN Absent ELSE Totals(there, span)
      /\ ChurnSummary(rhs, lhs, ids)
           = IF n = 0 /\ m = 0 THEN Absent
             ELSE Totals(back, IF Precedes(rhs.envelope, lhs.envelope)
                                  \/ Precedes(lhs.envelope, rhs.envelope)
                               THEN n + m ELSE Max({n, m}))
  BY DEF ChurnSummary
<1>5. {m, n} = {n, m} /\ m + n = n + m
  BY <1>2
<1>6. ChurnSummary(rhs, lhs, ids) = IF m = 0 /\ n = 0 THEN Absent ELSE Totals(back, span)
  BY <1>4, <1>5
<1>7. Totals(there, span)[1].span_windows = span
  OBVIOUS
<1> HIDE DEF there, back, span, Totals
<1> QED BY <1>1, <1>3, <1>4, <1>6, <1>7

-----------------------------------------------------------------------------
(* Histograms merged *)

LEMMA CapIsOfBoth == ASSUME NEW l, NEW r PROVE MinDeclaredCap(l, r) = MinDeclaredCap(r, l)
<1>1. {l[1], r[1]} = {r[1], l[1]}
  OBVIOUS
<1> QED BY <1>1 DEF MinDeclaredCap

LEMMA CapsAreOfBoth ==
  ASSUME NEW lhs, NEW rhs
  PROVE  ComposedHistogramCaps(lhs, rhs) = ComposedHistogramCaps(rhs, lhs)
BY CapIsOfBoth DEF ComposedHistogramCaps

LEMMA SlotsMerge ==
  ASSUME NEW l, NEW r, NEW m \in Nat, NEW n \in Nat, IsSlotOf(l, m), IsSlotOf(r, n)
  PROVE  MergedSlot(l, r) = MergedSlot(r, l) /\ IsSlotOf(MergedSlot(l, r), m + n)
<1> DEFINE a == l.values
           b == r.values
<1>1. /\ IsABag(a) /\ IsABag(b) /\ IsFiniteSet(DOMAIN a) /\ IsFiniteSet(DOMAIN b)
      /\ l.total \in Nat /\ r.total \in Nat /\ l.total <= m /\ r.total <= n
      /\ SumFunction(a) <= l.total /\ SumFunction(b) <= r.total
  BY DEF IsSlotOf
<1>2. NatOn(a, DOMAIN a) /\ NatOn(b, DOMAIN b)
  BY <1>1 DEF IsABag, NatOn
<1> HIDE DEF a, b
<1>3. /\ a (+) b = b (+) a /\ IsABag(a (+) b)
      /\ DOMAIN (a (+) b) = DOMAIN a \cup DOMAIN b
      /\ IsUnionSum(a (+) b, a, b)
  BY <1>1, BagsJoin
<1>4. IsFiniteSet(DOMAIN (a (+) b))
  BY <1>1, <1>3, FS_Union
<1>5. SumFunction(a (+) b) = SumFunction(a) + SumFunction(b)
  BY <1>1, <1>2, <1>3, SumOfTwo
<1>6. SumFunction(a) \in Nat /\ SumFunction(b) \in Nat
  BY <1>1, <1>2, SumIsNat DEF SumFunction, NatOn
<1>7. SumFunction(a (+) b) <= l.total + r.total /\ l.total + r.total <= m + n
  BY <1>1, <1>5, <1>6
<1>8. {l.cardinality, r.cardinality} = {r.cardinality, l.cardinality} /\ l.total + r.total = r.total + l.total
  BY <1>1
<1>9. /\ MergedSlot(l, r) = [total |-> l.total + r.total, values |-> a (+) b,
                             cardinality |-> Max({l.cardinality, r.cardinality})]
      /\ MergedSlot(r, l) = [total |-> r.total + l.total, values |-> b (+) a,
                             cardinality |-> Max({r.cardinality, l.cardinality})]
  BY DEF MergedSlot, a, b
<1>10. MergedSlot(l, r) = MergedSlot(r, l)
  BY ONLY <1>3, <1>8, <1>9
<1> DEFINE slot == MergedSlot(l, r)
<1>11. /\ slot = [values |-> slot.values, cardinality |-> slot.cardinality, total |-> slot.total]
       /\ slot.values = a (+) b /\ slot.total = l.total + r.total
  BY ONLY <1>9
<1> HIDE DEF slot
<1>12. IsSlotOf(slot, m + n)
  BY <1>1, <1>3, <1>4, <1>7, <1>11 DEF IsSlotOf
<1> QED BY <1>10, <1>12 DEF slot

(* What a table keeps of its values is no more than it took.               *)
LEMMA SlotIsReadmitted ==
  ASSUME NEW slot, NEW n \in Nat, IsSlotOf(slot, n), NEW cap
  PROVE  IsSlotOf(ReadmitSlot(slot, cap), n)
<1> DEFINE v == slot.values
           B == Best(DOMAIN v, v, cap)
           kept == Restrict(v, B)
<1>1. /\ slot = [values |-> v, cardinality |-> slot.cardinality, total |-> slot.total]
      /\ IsABag(v) /\ IsFiniteSet(DOMAIN v) /\ slot.total \in Nat /\ slot.total <= n
      /\ SumFunction(v) <= slot.total
  BY DEF IsSlotOf
<1>2. B \in SUBSET DOMAIN v
  BY DEF Best
<1>3. ReadmitSlot(slot, cap) = [slot EXCEPT !.values = kept]
  BY DEF ReadmitSlot
<1> HIDE DEF v, B
<1>4. NatOn(v, DOMAIN v) /\ \A x \in DOMAIN v : v[x] \in Nat \ {0}
  BY <1>1 DEF IsABag, NatOn
<1>5. DOMAIN kept = B /\ (\A x \in B : kept[x] = v[x]) /\ kept = [x \in B |-> v[x]]
  BY <1>2 DEF Restrict
<1>6. IsABag(kept)
  <2>1. kept \in [B -> Nat \ {0}]
    BY <1>2, <1>4, <1>5
  <2> QED BY <1>5, <2>1 DEF IsABag
<1>7. IsFiniteSet(B)
  BY <1>1, <1>2, FS_Subset
<1>8. SumFunctionOnSet(kept, B) = SumFunctionOnSet(v, B)
  BY <1>5, <1>7, SumSame DEF AgreeOn
<1>9. SumFunctionOnSet(v, B) <= SumFunctionOnSet(v, DOMAIN v)
  BY <1>1, <1>2, <1>4, SumOfPart
<1>10. SumFunctionOnSet(v, B) \in Nat /\ SumFunctionOnSet(v, DOMAIN v) \in Nat
  BY <1>1, <1>2, <1>4, <1>7, SumIsNat DEF NatOn
<1> HIDE DEF kept
<1>11. SumFunction(kept) <= slot.total
  BY <1>1, <1>5, <1>8, <1>9, <1>10 DEF SumFunction
<1> DEFINE new == ReadmitSlot(slot, cap)
<1>12. /\ new = [values |-> kept, cardinality |-> slot.cardinality, total |-> slot.total]
       /\ new.values = kept /\ new.cardinality = slot.cardinality /\ new.total = slot.total
  BY ONLY <1>1, <1>3
<1> HIDE DEF new
<1>13. IsSlotOf(new, n)
  BY <1>1, <1>5, <1>6, <1>7, <1>11, <1>12 DEF IsSlotOf
<1> QED BY <1>13 DEF new

LEMMA SlotOfMore ==
  ASSUME NEW slot, NEW m \in Nat, NEW n \in Nat, m <= n, IsSlotOf(slot, m)
  PROVE  IsSlotOf(slot, n)
BY DEF IsSlotOf

LEMMA HistogramsAreOfRows ==
  ASSUME NEW doc, HasRows(doc), NEW t
  PROVE  \A i \in DOMAIN HistogramsIn(doc, t) :
           IsSlotOf(HistogramsIn(doc, t)[i], InputTemplate(doc, t).count)
<1>1. CASE t \in DOMAIN doc.top_k
  <2>1. HistogramsIn(doc, t) = doc.top_k[t].histograms
    BY <1>1 DEF HistogramsIn
  <2>2. InputTemplate(doc, t).count = doc.top_k[t].count
    <3>1. t \in Retained(doc) /\ Row(doc, t) = doc.top_k[t]
      BY <1>1 DEF Retained, Row
    <3> QED BY <3>1, InputIsAView
  <2>3. IsTopRow(doc.top_k[t])
    BY <1>1 DEF HasRows
  <2> QED BY <2>1, <2>2, <2>3 DEF IsTopRow
<1>2. CASE t \notin DOMAIN doc.top_k
  <2>1. HistogramsIn(doc, t) = << >>
    BY <1>2 DEF HistogramsIn
  <2> QED BY <2>1
<1> QED BY <1>1, <1>2

(* The histograms of a composed row are slots of its lines.                *)
LEMMA HistogramsMerge ==
  ASSUME NEW lhs, NEW rhs, HasRows(lhs), HasRows(rhs), NEW t
  PROVE  /\ ComposedHistograms(lhs, rhs, t) = ComposedHistograms(rhs, lhs, t)
         /\ \A i \in DOMAIN ComposedHistograms(lhs, rhs, t) :
              IsSlotOf(ComposedHistograms(lhs, rhs, t)[i],
                       InputTemplate(lhs, t).count + InputTemplate(rhs, t).count)
<1> DEFINE f == HistogramsIn(lhs, t)
           g == HistogramsIn(rhs, t)
           m == InputTemplate(lhs, t).count
           n == InputTemplate(rhs, t).count
           caps == ComposedHistogramCaps(lhs, rhs)
           slots == caps.param_histograms_size
           values == caps.value_counts_size[1]
           D == {i \in DOMAIN f \cup DOMAIN g : slots = Absent \/ i <= slots[1]}
           There(i) == IF i \notin DOMAIN g THEN f[i] ELSE IF i \notin DOMAIN f THEN g[i]
                       ELSE MergedSlot(f[i], g[i])
           Back(i) == IF i \notin DOMAIN f THEN g[i] ELSE IF i \notin DOMAIN g THEN f[i]
                      ELSE MergedSlot(g[i], f[i])
           there == [i \in D |-> ReadmitSlot(There(i), values)]
           back == [i \in D |-> ReadmitSlot(Back(i), values)]
<1>1. /\ \A i \in DOMAIN f : IsSlotOf(f[i], m)
      /\ \A i \in DOMAIN g : IsSlotOf(g[i], n)
  BY HistogramsAreOfRows
<1>2. m \in Nat /\ n \in Nat
  BY InputIsAView DEF IsView
<1>3. ComposedHistograms(lhs, rhs, t) = there
  BY DEF ComposedHistograms, MergeFieldHistograms
<1>4. ComposedHistograms(rhs, lhs, t) = back
  <2>1. ComposedHistogramCaps(rhs, lhs) = caps
    BY CapsAreOfBoth
  <2>2. {i \in DOMAIN g \cup DOMAIN f : slots = Absent \/ i <= slots[1]} = D
    OBVIOUS
  <2> QED BY <2>1, <2>2 DEF ComposedHistograms, MergeFieldHistograms
<1>5. D \subseteq DOMAIN f \cup DOMAIN g
  OBVIOUS
<1> HIDE DEF f, g, m, n, D, values
<1>6. ASSUME NEW i \in D
      PROVE  There(i) = Back(i) /\ IsSlotOf(There(i), m + n)
  <2>1. CASE i \in DOMAIN f /\ i \in DOMAIN g
    <3>1. IsSlotOf(f[i], m) /\ IsSlotOf(g[i], n)
      BY <1>1, <2>1
    <3>2. MergedSlot(f[i], g[i]) = MergedSlot(g[i], f[i]) /\ IsSlotOf(MergedSlot(f[i], g[i]), m + n)
      BY <1>2, <3>1, SlotsMerge
    <3> QED BY <2>1, <3>2
  <2>2. CASE i \in DOMAIN f /\ i \notin DOMAIN g
    <3>1. IsSlotOf(f[i], m) /\ m + n \in Nat /\ m <= m + n
      BY <1>1, <1>2, <2>2
    <3>2. IsSlotOf(f[i], m + n)
      BY <1>2, <3>1, SlotOfMore
    <3> QED BY <2>2, <3>2
  <2>3. CASE i \notin DOMAIN f /\ i \in DOMAIN g
    <3>1. IsSlotOf(g[i], n) /\ m + n \in Nat /\ n <= m + n
      BY <1>1, <1>2, <2>3
    <3>2. IsSlotOf(g[i], m + n)
      BY <1>2, <3>1, SlotOfMore
    <3> QED BY <2>3, <3>2
  <2> QED BY <1>5, <2>1, <2>2, <2>3
<1> HIDE DEF There, Back
<1>7. \A i \in D : there[i] = back[i] /\ IsSlotOf(there[i], m + n)
  BY <1>2, <1>6, SlotIsReadmitted
<1>8. DOMAIN there = D /\ there = back
  BY <1>7
<1> HIDE DEF there, back
<1>9. \A i \in DOMAIN there : IsSlotOf(there[i], m + n)
  BY <1>7, <1>8
<1> QED BY <1>3, <1>4, <1>8, <1>9 DEF m, n

-----------------------------------------------------------------------------
(* The retained set selected *)

LEMMA BestArePart ==
  ASSUME NEW ids, NEW score, NEW n
  PROVE  Best(ids, score, n) \subseteq ids
BY DEF Best

(* What of the inputs' reservoirs stays below the composed top_k.          *)
LEMMA ReservoirIsRederived ==
  ASSUME NEW lhs, NEW rhs, NEW merged, NEW top, NEW cap, NEW lines
  PROVE  LET reservoir == ComposedReservoir(lhs, rhs, merged, top, cap, lines) IN
         /\ reservoir = ComposedReservoir(rhs, lhs, merged, top, cap, lines)
         /\ DOMAIN reservoir \subseteq (DOMAIN lhs.reservoir \cup DOMAIN rhs.reservoir) \ top
         /\ \A t \in DOMAIN reservoir :
              \E surprise, novelty : reservoir[t] = Rederived(merged[t], lines, surprise, novelty)
<1> DEFINE D == (DOMAIN lhs.reservoir \cup DOMAIN rhs.reservoir) \ top
           row == [t \in D |-> ReservoirCandidate(lhs, rhs, merged, lines, t)]
           wor == [t \in D |-> ReservoirCandidate(rhs, lhs, merged, lines, t)]
           candidates == {t \in DOMAIN row : row[t].salience > 0}
           bound == IF cap = Absent THEN Cardinality(candidates) ELSE cap[1]
           B == Best(candidates, [t \in candidates |-> row[t].salience], bound)
           kept == Restrict(row, B)
<1>1. {lhs, rhs} = {rhs, lhs}
  OBVIOUS
<1>2. \A t : ReservoirCandidate(lhs, rhs, merged, lines, t)
               = ReservoirCandidate(rhs, lhs, merged, lines, t)
  BY <1>1 DEF ReservoirCandidate
<1>3. row = wor
  BY <1>2
<1>4. /\ ComposedReservoir(lhs, rhs, merged, top, cap, lines) = MostSalient(row, cap)
      /\ ComposedReservoir(rhs, lhs, merged, top, cap, lines) = MostSalient(wor, cap)
  <2>1. (DOMAIN rhs.reservoir \cup DOMAIN lhs.reservoir) \ top = D
    OBVIOUS
  <2> QED BY <2>1 DEF ComposedReservoir
<1>5. MostSalient(row, cap) = kept
  BY DEF MostSalient
<1>6. \A t \in D : \E surprise, novelty :
        row[t] = Rederived(merged[t], lines, surprise, novelty)
  BY DEF ReservoirCandidate
<1>7. DOMAIN row = D
  OBVIOUS
<1> HIDE DEF D, row, wor
<1>8. B \subseteq D
  BY <1>7, BestArePart
<1> HIDE DEF B
<1>9. DOMAIN kept = B /\ \A t \in B : kept[t] = row[t]
  BY <1>7, <1>8 DEF Restrict
<1> HIDE DEF kept
<1>10. /\ DOMAIN kept \subseteq D
       /\ \A t \in DOMAIN kept : \E surprise, novelty :
            kept[t] = Rederived(merged[t], lines, surprise, novelty)
  BY <1>6, <1>8, <1>9
<1> QED BY <1>3, <1>4, <1>5, <1>10 DEF D

-----------------------------------------------------------------------------
(* The members resolved over both inputs *)

LEMMA PairExtremes ==
  ASSUME NEW m \in Nat, NEW n \in Nat
  PROVE  /\ Min({m, n}) \in {m, n} /\ Max({m, n}) \in {m, n}
         /\ Min({m, n}) = Min({n, m}) /\ Max({m, n}) = Max({n, m})
<1>1. {m, n} = {n, m}
  OBVIOUS
<1>2. Max({m, n}) \in {m, n}
  BY PairIsFinite, MaxIsElement
<1>3. Min({m, n}) \in {m, n}
  <2>1. \E x \in {m, n} : \A y \in {m, n} : x <= y
    <3>1. m <= n \/ n <= m
      OBVIOUS
    <3> QED BY <3>1
  <2> QED BY <2>1 DEF Min
<1> QED BY <1>1, <1>2, <1>3

LEMMA SourceIsOfBoth ==
  ASSUME NEW l, NEW r, l.host_count \in Optional(Nat), r.host_count \in Optional(Nat)
  PROVE  /\ CommonSource(l, r) = CommonSource(r, l)
         /\ CommonSource(l, r).host_count \in Optional(Nat)
<1> DEFINE S == {f \in DOMAIN l.fields \cap DOMAIN r.fields : l.fields[f] = r.fields[f]}
           T == {f \in DOMAIN r.fields \cap DOMAIN l.fields : r.fields[f] = l.fields[f]}
           there == Restrict(l.fields, S)
           back == Restrict(r.fields, T)
           m == IF Absent \in {l.host_count, r.host_count} THEN Absent
                ELSE <<l.host_count[1] + r.host_count[1]>>
           n == IF Absent \in {r.host_count, l.host_count} THEN Absent
                ELSE <<r.host_count[1] + l.host_count[1]>>
<1>1. S = T /\ \A f \in S : l.fields[f] = r.fields[f]
  OBVIOUS
<1>2. there = back
  BY <1>1 DEF Restrict
<1>3. m = n /\ m \in Optional(Nat)
  <2>1. \A x \in Optional(Nat) : x = Absent \/ (x[1] \in Nat /\ x # Absent)
    BY DEF Optional, Absent
  <2>2. CASE Absent \in {l.host_count, r.host_count}
    BY <2>2 DEF Optional
  <2>3. CASE Absent \notin {l.host_count, r.host_count}
    <3>1. l.host_count[1] \in Nat /\ r.host_count[1] \in Nat
      BY <2>1, <2>3
    <3>2. l.host_count[1] + r.host_count[1] = r.host_count[1] + l.host_count[1]
          /\ l.host_count[1] + r.host_count[1] \in Nat
      BY <3>1
    <3> QED BY <2>3, <3>2 DEF Optional
  <2> QED BY <2>2, <2>3
<1>4. /\ CommonSource(l, r) = IF l = r THEN l ELSE [fields |-> there, host_count |-> m]
      /\ CommonSource(r, l) = IF r = l THEN r ELSE [fields |-> back, host_count |-> n]
  BY DEF CommonSource
<1> HIDE DEF there, back, m, n
<1> QED BY <1>2, <1>3, <1>4

LEMMA EnvelopeIsOfBoth ==
  ASSUME NEW l \in Optional(Interval), NEW r \in Optional(Interval)
  PROVE  /\ ComposedEnvelope(l, r) = ComposedEnvelope(r, l)
         /\ ComposedEnvelope(l, r) \in Optional(Interval)
<1>1. (l = Absent \/ \E x \in Interval : l = <<x>>) /\ (r = Absent \/ \E x \in Interval : r = <<x>>)
  BY DEF Optional
<1>2. CASE l = Absent \/ r = Absent
  BY <1>2 DEF ComposedEnvelope
<1>3. CASE \E x, y \in Interval : l = <<x>> /\ r = <<y>>
  <2>1. PICK x \in Interval, y \in Interval : l = <<x>> /\ r = <<y>>
    BY <1>3
  <2>2. x.start \in Nat /\ x.end \in Nat /\ y.start \in Nat /\ y.end \in Nat
    BY DEF Interval
  <2>3. /\ Min({x.start, y.start}) \in Nat /\ Max({x.end, y.end}) \in Nat
        /\ Min({x.start, y.start}) = Min({y.start, x.start})
        /\ Max({x.end, y.end}) = Max({y.end, x.end})
    BY <2>2, PairExtremes
  <2>4. l # Absent /\ r # Absent /\ l[1] = x /\ r[1] = y
    BY <2>1 DEF Absent
  <2>5. /\ ComposedEnvelope(l, r)
             = <<[start |-> Min({x.start, y.start}), end |-> Max({x.end, y.end})]>>
        /\ ComposedEnvelope(r, l)
             = <<[start |-> Min({y.start, x.start}), end |-> Max({y.end, x.end})]>>
    BY <2>4 DEF ComposedEnvelope
  <2>6. [start |-> Min({x.start, y.start}), end |-> Max({x.end, y.end})] \in Interval
    BY <2>3 DEF Interval
  <2> QED BY <2>3, <2>5, <2>6 DEF Optional
<1> QED BY <1>1, <1>2, <1>3

LEMMA ContractIsOfBoth ==
  ASSUME NEW l, NEW r
  PROVE  CarriedContract(l, r) = CarriedContract(r, l)
BY DEF CarriedContract

LEMMA RulesetIsOfBoth ==
  ASSUME NEW l, NEW r
  PROVE  MergeRuleset(l, r) = MergeRuleset(r, l)
<1>1. {l.packages, r.packages} = {r.packages, l.packages}
      /\ {l.packages[1], r.packages[1]} = {r.packages[1], l.packages[1]}
  OBVIOUS
<1> QED BY <1>1 DEF MergeRuleset

LEMMA GateIsOfBoth ==
  ASSUME NEW l, NEW r
  PROVE  Comparable(l, r) <=> Comparable(r, l)
BY DEF Comparable

-----------------------------------------------------------------------------
(* Provenance merged *)

(* new is bag with x once more.                                            *)
Gains(new, bag, x) ==
  /\ IsABag(new) /\ DOMAIN new = DOMAIN bag \cup {x}
  /\ \A y \in DOMAIN bag \cup {x} : new[y] = At(bag, y) + (IF y = x THEN 1 ELSE 0)

LEMMA BagTakesOne ==
  ASSUME NEW bag, IsABag(bag), NEW x
  PROVE  Gains(BagAdd(bag, x), bag, x)
<1> DEFINE new == BagAdd(bag, x)
<1>1. \A y \in DOMAIN bag : bag[y] \in Nat \ {0}
  BY DEF IsABag
<1>2. DOMAIN new = DOMAIN bag \cup {x}
  BY DEF BagAdd
<1>3. \A y \in DOMAIN bag \cup {x} : new[y] = At(bag, y) + (IF y = x THEN 1 ELSE 0)
  BY <1>1 DEF BagAdd, At
<1>4. new = [y \in DOMAIN new |-> new[y]]
  BY DEF BagAdd
<1>5. \A y \in DOMAIN bag \cup {x} : At(bag, y) + (IF y = x THEN 1 ELSE 0) \in Nat \ {0}
  BY <1>1 DEF At
<1> HIDE DEF new
<1>6. new \in [DOMAIN new -> Nat \ {0}]
  BY <1>2, <1>3, <1>4, <1>5
<1>7. IsABag(new)
  BY <1>6 DEF IsABag
<1>8. Gains(new, bag, x)
  BY <1>2, <1>3, <1>7 DEF Gains
<1> QED BY <1>8 DEF new

LEMMA BagTakesTwo ==
  ASSUME NEW bag, IsABag(bag), NEW x, NEW y
  PROVE  /\ BagAdd(BagAdd(bag, x), y) = BagAdd(BagAdd(bag, y), x)
         /\ IsABag(BagAdd(BagAdd(bag, x), y))
<1> DEFINE one == BagAdd(bag, x)
           two == BagAdd(bag, y)
           there == BagAdd(one, y)
           back == BagAdd(two, x)
           D == DOMAIN bag \cup {x, y}
<1>1. \A z : At(bag, z) \in Nat
  BY DEF IsABag, At
<1>2. Gains(one, bag, x) /\ Gains(two, bag, y)
  BY BagTakesOne
<1> HIDE DEF one, two
<1>3. IsABag(one) /\ IsABag(two)
  BY <1>2 DEF Gains
<1>4. Gains(there, one, y) /\ Gains(back, two, x)
  BY <1>3, BagTakesOne
<1> HIDE DEF there, back
<1>6. DOMAIN there = D /\ DOMAIN back = D /\ IsABag(there) /\ IsABag(back)
  BY <1>2, <1>4 DEF Gains
<1>7. ASSUME NEW z \in D PROVE there[z] = back[z]
  <2>1. At(one, z) = At(bag, z) + (IF z = x THEN 1 ELSE 0)
    BY <1>1, <1>2 DEF At, Gains
  <2>2. At(two, z) = At(bag, z) + (IF z = y THEN 1 ELSE 0)
    BY <1>1, <1>2 DEF At, Gains
  <2>3. /\ there[z] = At(one, z) + (IF z = y THEN 1 ELSE 0)
        /\ back[z] = At(two, z) + (IF z = x THEN 1 ELSE 0)
    BY <1>4, <1>6 DEF Gains
  <2> QED BY <1>1, <2>1, <2>2, <2>3
<1>8. there \in [D -> Nat \ {0}] /\ back \in [D -> Nat \ {0}]
  BY <1>6 DEF IsABag
<1>9. there = back
  BY <1>7, <1>8
<1> QED BY <1>6, <1>9 DEF there, back, one, two

LEMMA ProvenanceIsOfBoth ==
  ASSUME NEW l, NEW r, IsABag(l.provenance), IsABag(r.provenance)
  PROVE  /\ MergeProvenance(l, r) = MergeProvenance(r, l)
         /\ IsABag(MergeProvenance(l, r))
<1> DEFINE a == l.provenance
           b == r.provenance
           x == ProvenanceEntry(l)
           y == ProvenanceEntry(r)
<1>1. a (+) b = b (+) a /\ IsABag(a (+) b)
  BY BagsJoin
<1>2. /\ MergeProvenance(l, r) = BagAdd(BagAdd(a (+) b, x), y)
      /\ MergeProvenance(r, l) = BagAdd(BagAdd(b (+) a, y), x)
  BY DEF MergeProvenance
<1> HIDE DEF a, b, x, y
<1>3. /\ BagAdd(BagAdd(a (+) b, x), y) = BagAdd(BagAdd(a (+) b, y), x)
      /\ IsABag(BagAdd(BagAdd(a (+) b, x), y))
  BY <1>1, BagTakesTwo
<1> QED BY <1>1, <1>2, <1>3

-----------------------------------------------------------------------------
(* Behavior merged *)

IsMean(p) == p \in Nat \X (Nat \ {0})

LEMMA MeanIsOfBoth ==
  ASSUME NEW p, NEW q, IsMean(p), IsMean(q), NEW m \in Nat \ {0}, NEW n \in Nat \ {0}
  PROVE  /\ WeightedMean(p, m, q, n) = WeightedMean(q, n, p, m)
         /\ IsMean(WeightedMean(p, m, q, n))
<1> DEFINE a == p[1]
           b == p[2]
           c == q[1]
           d == q[2]
<1>1. a \in Nat /\ b \in Nat \ {0} /\ c \in Nat /\ d \in Nat \ {0}
  BY DEF IsMean
<1>2. /\ WeightedMean(p, m, q, n) = <<a * m * d + c * n * b, b * d * (m + n)>>
      /\ WeightedMean(q, n, p, m) = <<c * n * b + a * m * d, d * b * (n + m)>>
  BY DEF WeightedMean
<1> HIDE DEF a, b, c, d
<1>3. \A x, y \in Nat : x * y \in Nat /\ x * y = y * x
  OBVIOUS
<1>4. \A x, y \in Nat \ {0} : x * y # 0
  BY SMT
<1>5. a * m * d \in Nat /\ c * n * b \in Nat
  BY <1>1, <1>3
<1>6. a * m * d + c * n * b = c * n * b + a * m * d /\ a * m * d + c * n * b \in Nat
  <2>1. \A x, y \in Nat : x + y = y + x /\ x + y \in Nat
    OBVIOUS
  <2> QED BY ONLY <1>5, <2>1
<1>7. b * d = d * b /\ m + n = n + m /\ b * d \in Nat \ {0} /\ m + n \in Nat \ {0}
  BY <1>1, <1>3, <1>4
<1>8. b * d * (m + n) = d * b * (n + m) /\ b * d * (m + n) \in Nat \ {0}
  <2>1. b * d * (m + n) \in Nat
    BY <1>3, <1>7
  <2> QED BY ONLY <1>4, <1>7, <2>1
<1>9. WeightedMean(p, m, q, n) = WeightedMean(q, n, p, m)
  BY ONLY <1>2, <1>6, <1>8
<1>10. IsMean(WeightedMean(p, m, q, n))
  BY ONLY <1>2, <1>6, <1>8 DEF IsMean
<1> QED BY <1>9, <1>10

(* The table of one block, or of none.                                     *)
AreNgrams(table) ==
  \A s \in DOMAIN table : table[s].count \in Nat \ {0} /\ IsMean(table[s].probability)

LEMMA NgramsMerge ==
  ASSUME NEW f, NEW g, AreNgrams(f), AreNgrams(g)
  PROVE  /\ \A s \in DOMAIN f \cup DOMAIN g : MergedNgram(f, g, s) = MergedNgram(g, f, s)
         /\ AreNgrams([s \in DOMAIN f \cup DOMAIN g |-> MergedNgram(f, g, s)])
<1> DEFINE ids == DOMAIN f \cup DOMAIN g
           there == [s \in ids |-> MergedNgram(f, g, s)]
<1>1. ASSUME NEW s \in ids
      PROVE  /\ MergedNgram(f, g, s) = MergedNgram(g, f, s)
             /\ MergedNgram(f, g, s).count \in Nat \ {0}
             /\ IsMean(MergedNgram(f, g, s).probability)
  <2>1. CASE s \in DOMAIN f /\ s \notin DOMAIN g
    BY <2>1 DEF MergedNgram, AreNgrams
  <2>2. CASE s \notin DOMAIN f /\ s \in DOMAIN g
    BY <2>2 DEF MergedNgram, AreNgrams
  <2>3. CASE s \in DOMAIN f /\ s \in DOMAIN g
    <3> DEFINE p == f[s].probability
               q == g[s].probability
               m == f[s].count
               n == g[s].count
    <3>1. m \in Nat \ {0} /\ n \in Nat \ {0} /\ IsMean(p) /\ IsMean(q)
      BY <2>3 DEF AreNgrams
    <3>2. /\ MergedNgram(f, g, s) = [count |-> m + n, probability |-> WeightedMean(p, m, q, n)]
          /\ MergedNgram(g, f, s) = [count |-> n + m, probability |-> WeightedMean(q, n, p, m)]
      BY <2>3 DEF MergedNgram
    <3> HIDE DEF p, q, m, n
    <3>3. /\ WeightedMean(p, m, q, n) = WeightedMean(q, n, p, m)
          /\ IsMean(WeightedMean(p, m, q, n))
      BY <3>1, MeanIsOfBoth
    <3>4. m + n = n + m /\ m + n \in Nat \ {0}
      BY <3>1
    <3> QED BY <3>2, <3>3, <3>4
  <2> QED BY <2>1, <2>2, <2>3
<1>2. AreNgrams(there)
  BY <1>1 DEF AreNgrams
<1> QED BY <1>1, <1>2

LEMMA NgramsAreCut ==
  ASSUME NEW table, AreNgrams(table), NEW size
  PROVE  AreNgrams(CutNgrams(table, size))
<1> DEFINE cut == CutNgrams(table, size)
<1>1. PICK S \in SUBSET DOMAIN table : cut = Restrict(table, S)
  BY DEF CutNgrams
<1> HIDE DEF cut
<1>2. DOMAIN cut = S /\ \A s \in S : cut[s] = table[s]
  BY <1>1 DEF Restrict
<1>3. AreNgrams(cut)
  BY <1>2 DEF AreNgrams
<1> QED BY <1>3 DEF cut

LEMMA TwoAreCounted ==
  ASSUME NEW x, NEW y, ~(Cardinality({x, y}) > 1)
  PROVE  x = y
<1>1. SUFFICES ASSUME x # y PROVE FALSE
  OBVIOUS
<1>2. Cardinality({}) = 0 /\ IsFiniteSet({})
  BY EmptyCount
<1>3. IsFiniteSet({} \cup {x}) /\ Cardinality({} \cup {x}) = 1
  BY <1>2, CountOneMore
<1>4. {} \cup {x} = {x} /\ {x} \cup {y} = {x, y} /\ y \notin {x}
  BY <1>1
<1>5. Cardinality({x} \cup {y}) = Cardinality({x}) + 1
  BY <1>3, <1>4, CountOneMore
<1> QED BY <1>3, <1>4, <1>5

LEMMA TwoAreSummed ==
  ASSUME NEW f, DOMAIN f = 1..2, f[1] \in Nat, f[2] \in Nat
  PROVE  SumFunction(f) = f[1] + f[2]
<1>1. 1..2 = ({} \cup {1}) \cup {2}
  OBVIOUS
<1>2. IsFiniteSet({}) /\ IsFiniteSet({} \cup {1})
  BY EmptyCount, CountOneMore
<1>3. NatOn(f, {} \cup {1}) /\ NatOn(f, ({} \cup {1}) \cup {2})
  BY DEF NatOn
<1>4. SumFunctionOnSet(f, {} \cup {1}) = f[1] + SumFunctionOnSet(f, {})
  BY <1>2, <1>3, SumAdd
<1>5. 2 \notin {} \cup {1}
  OBVIOUS
<1>6. SumFunctionOnSet(f, ({} \cup {1}) \cup {2}) = f[2] + SumFunctionOnSet(f, {} \cup {1})
  BY <1>2, <1>3, <1>5, SumAdd
<1>7. SumFunctionOnSet(f, {}) = 0
  BY SumEmpty
<1>8. SumFunctionOnSet(f, 1..2) = f[1] + f[2]
  <2> DEFINE one == SumFunctionOnSet(f, {} \cup {1})
             both == SumFunctionOnSet(f, ({} \cup {1}) \cup {2})
  <2>1. one = f[1] + 0 /\ both = f[2] + one
    BY <1>4, <1>6, <1>7
  <2>2. both = SumFunctionOnSet(f, 1..2)
    BY ONLY <1>1
  <2> HIDE DEF one, both
  <2> QED BY <2>1, <2>2
<1> QED BY <1>8 DEF SumFunction

(* A block or none.                                                        *)
MayBehave(b) == b = Absent \/ (b = <<b[1]>> /\ IsBehavior(b[1]))

LEMMA BehaviorIsOfBoth ==
  ASSUME NEW l, NEW r, MayBehave(l), MayBehave(r)
  PROVE  MergeBehavior(l, r) = MergeBehavior(r, l) /\ MayBehave(MergeBehavior(l, r))
<1> DEFINE Table(b) == IF b = Absent THEN << >> ELSE b[1].top_ngrams
           f == Table(l)
           g == Table(r)
           ids == DOMAIN f \cup DOMAIN g
           there == [s \in ids |-> MergedNgram(f, g, s)]
           back == [s \in ids |-> MergedNgram(g, f, s)]
           Block(gram, size, dropped, table) ==
             <<[ngram_size |-> gram, top_ngrams_size |-> size, dropped |-> dropped,
                top_ngrams |-> CutNgrams(table, size), branching |-> << >>]>>
           Merged(blocks, table) ==
             IF blocks = << >> \/ Cardinality({blocks[i].ngram_size : i \in DOMAIN blocks}) > 1
               THEN Absent
             ELSE Block(blocks[1].ngram_size,
                        Min({blocks[i].top_ngrams_size : i \in DOMAIN blocks}),
                        SumFunction([i \in DOMAIN blocks |-> blocks[i].dropped]), table)
<1>1. AreNgrams(f) /\ AreNgrams(g)
  BY DEF MayBehave, IsBehavior, AreNgrams, IsMean, Absent
<1>2. there = back /\ AreNgrams(there)
  <2> HIDE DEF f, g
  <2>1. there = back
    <3>1. \A s \in ids : MergedNgram(f, g, s) = MergedNgram(g, f, s)
      BY <1>1, NgramsMerge
    <3> QED BY <3>1
  <2>2. AreNgrams(there)
    BY <1>1, NgramsMerge
  <2> QED BY <2>1, <2>2
<1>3. MergeBehavior(l, r) = Merged(l \o r, there)
  BY DEF MergeBehavior
<1>4. MergeBehavior(r, l) = Merged(r \o l, back)
  <2>1. DOMAIN g \cup DOMAIN f = ids
    OBVIOUS
  <2> QED BY <2>1 DEF MergeBehavior
<1>5. ASSUME NEW gram, NEW size, NEW dropped \in Nat
      PROVE  MayBehave(Block(gram, size, dropped, there))
  <2> DEFINE b == Block(gram, size, dropped, there)
             cut == CutNgrams(there, size)
  <2>1. AreNgrams(cut)
    BY <1>2, NgramsAreCut
  <2> HIDE DEF cut
  <2>2. b[1].dropped = dropped /\ b[1].top_ngrams = cut /\ b = <<b[1]>>
    BY DEF cut
  <2> HIDE DEF b
  <2>3. IsBehavior(b[1])
    BY <1>5, <2>1, <2>2 DEF IsBehavior, AreNgrams, IsMean
  <2> QED BY <2>2, <2>3 DEF MayBehave, b
<1> HIDE DEF f, g, there, back
<1>6. CASE l = Absent /\ r = Absent
  <2>1. l \o r = << >> /\ r \o l = << >>
    BY <1>6 DEF Absent
  <2> QED BY <1>3, <1>4, <2>1 DEF MayBehave, Absent
<1>7. ASSUME NEW b, b = <<b[1]>>, IsBehavior(b[1])
      PROVE  MayBehave(Merged(b, there))
  <2>1. DOMAIN b = 1..1 /\ b # << >>
    <3>1. PICK c : b = <<c>>
      BY <1>7
    <3> QED BY <3>1
  <2>2. b[1].dropped \in Nat
    BY <1>7 DEF IsBehavior
  <2> DEFINE d == [i \in DOMAIN b |-> b[i].dropped]
  <2>3. SumFunction(d) \in Nat
    <3>1. IsFiniteSet(DOMAIN b) /\ \A i \in DOMAIN b : d[i] \in Nat
      <4>1. 1..1 = {} \cup {1}
        OBVIOUS
      <4>2. IsFiniteSet({} \cup {1})
        BY EmptyCount, CountOneMore
      <4>3. \A i \in DOMAIN b : i = 1
        BY <2>1
      <4> QED BY <2>1, <2>2, <4>1, <4>2, <4>3
    <3>2. DOMAIN d = DOMAIN b
      OBVIOUS
    <3> HIDE DEF d
    <3> QED BY <3>1, <3>2, SumIsNat DEF SumFunction
  <2> HIDE DEF d, Block
  <2>4. Merged(b, there) = Absent
        \/ \E gram, size : Merged(b, there) = Block(gram, size, SumFunction(d), there)
    BY DEF d
  <2> QED BY <1>5, <2>3, <2>4 DEF MayBehave
<1>8. CASE l = Absent /\ r # Absent
  <2>1. r = <<r[1]>> /\ IsBehavior(r[1])
    BY <1>8 DEF MayBehave
  <2>2. l \o r = r /\ r \o l = r
    BY <1>8, <2>1 DEF Absent
  <2> HIDE DEF Merged
  <2> QED BY <1>2, <1>3, <1>4, <1>7, <2>1, <2>2
<1>9. CASE l # Absent /\ r = Absent
  <2>1. l = <<l[1]>> /\ IsBehavior(l[1])
    BY <1>9 DEF MayBehave
  <2>2. l \o r = l /\ r \o l = l
    BY <1>9, <2>1 DEF Absent
  <2> HIDE DEF Merged
  <2> QED BY <1>2, <1>3, <1>4, <1>7, <2>1, <2>2
<1>10. CASE l # Absent /\ r # Absent
  <2> DEFINE a == l[1]
             b == r[1]
             p == l \o r
             q == r \o l
  <2>1. l = <<a>> /\ r = <<b>> /\ a.dropped \in Nat /\ b.dropped \in Nat
    BY <1>10 DEF MayBehave, IsBehavior
  <2> HIDE DEF a, b
  <2>2. ASSUME NEW x, NEW y
        PROVE  LET s == <<x>> \o <<y>> IN
               DOMAIN s = 1..2 /\ s[1] = x /\ s[2] = y /\ s # << >>
    OBVIOUS
  <2>3. /\ DOMAIN p = 1..2 /\ p[1] = a /\ p[2] = b /\ p # << >>
        /\ DOMAIN q = 1..2 /\ q[1] = b /\ q[2] = a /\ q # << >>
    BY ONLY <2>1, <2>2 DEF p, q
  <2> HIDE DEF p, q
  <2>4. /\ {p[i].ngram_size : i \in DOMAIN p} = {a.ngram_size, b.ngram_size}
        /\ {q[i].ngram_size : i \in DOMAIN q} = {a.ngram_size, b.ngram_size}
        /\ {p[i].top_ngrams_size : i \in DOMAIN p} = {a.top_ngrams_size, b.top_ngrams_size}
        /\ {q[i].top_ngrams_size : i \in DOMAIN q} = {a.top_ngrams_size, b.top_ngrams_size}
    <3>1. 1..2 = {1, 2}
      OBVIOUS
    <3> QED BY <2>3, <3>1
  <2>5. /\ SumFunction([i \in DOMAIN p |-> p[i].dropped]) = a.dropped + b.dropped
        /\ SumFunction([i \in DOMAIN q |-> q[i].dropped]) = b.dropped + a.dropped
    <3>1. ASSUME NEW f0, DOMAIN f0 = 1..2, NEW x, NEW y, x.dropped \in Nat, y.dropped \in Nat,
                 f0[1] = x.dropped, f0[2] = y.dropped
          PROVE  SumFunction(f0) = x.dropped + y.dropped
      <4>1. f0[1] \in Nat /\ f0[2] \in Nat
        BY <3>1
      <4> QED BY <3>1, <4>1, TwoAreSummed
    <3>2. 1 \in 1..2 /\ 2 \in 1..2
      OBVIOUS
    <3> QED BY <2>1, <2>3, <3>1, <3>2
  <2>6. a.dropped + b.dropped = b.dropped + a.dropped /\ a.dropped + b.dropped \in Nat
    BY <2>1
  <2> DEFINE some == Cardinality({a.ngram_size, b.ngram_size}) > 1
             size == Min({a.top_ngrams_size, b.top_ngrams_size})
  <2>7. ~some => a.ngram_size = b.ngram_size
    BY TwoAreCounted
  <2> HIDE DEF Block
  <2>8. /\ Merged(p, there) = IF some THEN Absent
                              ELSE Block(a.ngram_size, size, a.dropped + b.dropped, there)
        /\ Merged(q, back) = IF some THEN Absent
                             ELSE Block(b.ngram_size, size, b.dropped + a.dropped, back)
    BY <2>3, <2>4, <2>5
  <2> HIDE DEF Merged, some, size
  <2>9. Merged(p, there) = Merged(q, back)
    BY <1>2, <2>6, <2>7, <2>8
  <2>10. MayBehave(Merged(p, there))
    BY <1>5, <2>6, <2>8 DEF MayBehave
  <2> QED BY <1>3, <1>4, <2>9, <2>10 DEF p, q
<1> QED BY <1>6, <1>8, <1>9, <1>10

-----------------------------------------------------------------------------
(* Cubes merged *)

LEMMA CommonIsAState ==
  ASSUME NEW s \in CollapseStates, NEW t \in CollapseStates
  PROVE  /\ Cubes!MinCommonCollapse(s, t) \in CollapseStates
         /\ Cubes!MinCommonCollapse(s, t) = Cubes!MinCommonCollapse(t, s)
<1> DEFINE floors == {s.floor, t.floor}
           depths == {s.depth, t.depth}
           floor == IF s.floor >= t.floor THEN s.floor ELSE t.floor
           depth == IF s.depth <= t.depth THEN s.depth ELSE t.depth
<1>1. /\ s.floor \in 0..4 /\ t.floor \in 0..4 /\ s.depth \in {0, 1} /\ t.depth \in {0, 1}
  BY DEF CollapseStates, Cubes!MaxLevelBandFloor, Cubes!Error
<1>2. Cubes!Max(floors) = floor
  <2>1. floor \in floors /\ (\A y \in floors : floor >= y)
        /\ \A x \in floors : (\A y \in floors : x >= y) => x = floor
    BY <1>1, SMT
  <2> HIDE DEF floors, floor
  <2> QED BY <2>1 DEF Cubes!Max
<1>3. Cubes!Min(depths) = depth
  <2>1. depth \in depths /\ (\A y \in depths : depth <= y)
        /\ \A x \in depths : (\A y \in depths : x <= y) => x = depth
    BY <1>1, SMT
  <2> HIDE DEF depths, depth
  <2> QED BY <2>1 DEF Cubes!Min
<1>4. Cubes!MinCommonCollapse(s, t) = [floor |-> floor, depth |-> depth]
  BY <1>2, <1>3 DEF Cubes!MinCommonCollapse
<1>5. floors = {t.floor, s.floor} /\ depths = {t.depth, s.depth}
  OBVIOUS
<1>6. Cubes!MinCommonCollapse(s, t) = Cubes!MinCommonCollapse(t, s)
  BY <1>5 DEF Cubes!MinCommonCollapse
<1> QED BY <1>1, <1>4, <1>6 DEF CollapseStates, Cubes!MaxLevelBandFloor, Cubes!Error

LEMMA CubeIsBounded ==
  ASSUME NEW rows \in SUBSET Rows, NEW state \in CollapseStates
  PROVE  BoundedCube(rows, state) \in Cubed
BY BudgetedAssumption DEF BoundedCube, Cubed

LEMMA CubeIsOfBoth ==
  ASSUME NEW lhs, NEW rhs, lhs.cube \in Optional(Cubed), rhs.cube \in Optional(Cubed)
  PROVE  MergedCube(lhs, rhs) = MergedCube(rhs, lhs) /\ MergedCube(lhs, rhs) \in Optional(Cubed)
<1> DEFINE l == lhs.cube[1]
           r == rhs.cube[1]
           state == Cubes!MinCommonCollapse(l.state, r.state)
<1>1. BothCarryCubes(lhs, rhs) <=> BothCarryCubes(rhs, lhs)
  BY DEF BothCarryCubes
<1>2. CASE ~BothCarryCubes(lhs, rhs)
  BY <1>1, <1>2 DEF MergedCube, Optional
<1>3. CASE BothCarryCubes(lhs, rhs)
  <2>1. l \in Cubed /\ r \in Cubed
    BY <1>3 DEF BothCarryCubes, Optional
  <2>2. /\ l.rows \in SUBSET Rows /\ r.rows \in SUBSET Rows
        /\ l.state \in CollapseStates /\ r.state \in CollapseStates
    BY <2>1 DEF Cubed
  <2>3. MergedCube(lhs, rhs) = <<BoundedCube(l.rows \cup r.rows, state)>>
    BY <1>3 DEF MergedCube
  <2>4. MergedCube(rhs, lhs)
          = <<BoundedCube(r.rows \cup l.rows, Cubes!MinCommonCollapse(r.state, l.state))>>
    BY <1>1, <1>3 DEF MergedCube
  <2> HIDE DEF l, r
  <2>5. state \in CollapseStates /\ state = Cubes!MinCommonCollapse(r.state, l.state)
    BY <2>2, CommonIsAState
  <2>6. l.rows \cup r.rows = r.rows \cup l.rows /\ l.rows \cup r.rows \in SUBSET Rows
    BY <2>2
  <2> HIDE DEF state
  <2>7. BoundedCube(l.rows \cup r.rows, state) \in Cubed
    BY <2>5, <2>6, CubeIsBounded
  <2> QED BY <2>3, <2>4, <2>5, <2>6, <2>7 DEF Optional
<1> QED BY <1>2, <1>3

-----------------------------------------------------------------------------
(* Documents composed *)

LEMMA TailIsOfBoth ==
  ASSUME NEW lhs, NEW rhs, IsDocument(lhs), IsDocument(rhs), NEW merged, NEW reserved, NEW lines
  PROVE  /\ Residual(lhs, rhs) = Residual(rhs, lhs) /\ Residual(lhs, rhs) \in Nat
         /\ ComposedTail(lhs, rhs, merged, reserved, lines)
              = ComposedTail(rhs, lhs, merged, reserved, lines)
         /\ \A counts : WithResidual(counts, lhs, rhs) = WithResidual(counts, rhs, lhs)
<1>1. Residual(lhs, rhs) = Residual(rhs, lhs) /\ Residual(lhs, rhs) \in Nat
  BY DEF Residual, IsDocument, HasFrame
<1>2. \A counts : WithResidual(counts, lhs, rhs) = WithResidual(counts, rhs, lhs)
  BY <1>1 DEF WithResidual
<1>3. ComposedTail(lhs, rhs, merged, reserved, lines)
        = ComposedTail(rhs, lhs, merged, reserved, lines)
  BY <1>1, <1>2 DEF ComposedTail
<1> QED BY <1>1, <1>2, <1>3

(* The rows of a composed top_k and of a composed reservoir.               *)
TopRows(lhs, rhs, merged, top) ==
  [t \in top |->
     [count |-> merged[t].count, level |-> merged[t].level,
      component |-> merged[t].component, churn |-> FoldedChurn(lhs, rhs, t),
      histograms |-> ComposedHistograms(lhs, rhs, t), ordinals |-> << >>]]

ReservoirRows(lhs, rhs, reservoir) ==
  [t \in DOMAIN reservoir |->
     [reservoir[t] EXCEPT !.where = IF BothCarryCubes(lhs, rhs) THEN @ ELSE NoLabel,
                          !.churn = FoldedChurn(lhs, rhs, t)]]

LEMMA RowsAreOfBoth ==
  ASSUME NEW lhs, NEW rhs, IsDocument(lhs), IsDocument(rhs), NEW merged, NEW top, NEW reservoir
  PROVE  /\ TopRows(lhs, rhs, merged, top) = TopRows(rhs, lhs, merged, top)
         /\ ReservoirRows(lhs, rhs, reservoir) = ReservoirRows(rhs, lhs, reservoir)
<1>1. \A t : FoldedChurn(lhs, rhs, t) = FoldedChurn(rhs, lhs, t)
  BY ChurnIsFolded
<1>2. \A t : ComposedHistograms(lhs, rhs, t) = ComposedHistograms(rhs, lhs, t)
  BY HistogramsMerge DEF IsDocument
<1>3. BothCarryCubes(lhs, rhs) <=> BothCarryCubes(rhs, lhs)
  BY DEF BothCarryCubes
<1>4. TopRows(lhs, rhs, merged, top) = TopRows(rhs, lhs, merged, top)
  BY <1>1, <1>2 DEF TopRows
<1>5. ReservoirRows(lhs, rhs, reservoir) = ReservoirRows(rhs, lhs, reservoir)
  BY <1>1, <1>3 DEF ReservoirRows
<1> QED BY <1>4, <1>5

(* A composed document, by its members.                                    *)
LEMMA DocumentIsOver ==
  ASSUME NEW lhs, NEW rhs, NEW merged, NEW cap, NEW top, NEW reservoir
  PROVE  DocumentOver(lhs, rhs, merged, cap, top, reservoir) =
           LET lines == lhs.lines + rhs.lines
               caps == ComposedHistogramCaps(lhs, rhs)
               tail == ComposedTail(lhs, rhs, merged, top \cup DOMAIN reservoir, lines)
           IN  [kind |-> "document", lines |-> lines,
                envelope |-> ComposedEnvelope(lhs.envelope, rhs.envelope),
                source |-> CommonSource(lhs.source, rhs.source),
                contract |-> CarriedContract(lhs, rhs), packages |-> MergeRuleset(lhs, rhs),
                max_text_bytes |-> lhs.max_text_bytes,
                transport |-> IF lhs.transport = rhs.transport THEN lhs.transport ELSE Absent,
                unique_templates |-> Cardinality(DOMAIN merged),
                top_k_size |-> Min({lhs.top_k_size, rhs.top_k_size}),
                reservoir_size |-> cap, top_k |-> TopRows(lhs, rhs, merged, top),
                param_histograms_size |-> caps.param_histograms_size,
                value_counts_size |-> caps.value_counts_size,
                reservoir |-> ReservoirRows(lhs, rhs, reservoir),
                tail_count |-> tail.tail_count, tail_unique |-> tail.tail_unique,
                tail_summary |-> tail.tail_summary,
                entropy |-> EntropyOf(WithResidual(CountsOf(merged, DOMAIN merged), lhs, rhs), lines),
                presence_churn |-> ChurnSummary(lhs, rhs, top \cup DOMAIN reservoir),
                provenance |-> MergeProvenance(lhs, rhs), coordinate |-> MergeCoordinate(lhs, rhs),
                behavior |-> MergeBehavior(lhs.behavior, rhs.behavior),
                service_edges |-> Absent, span_edges |-> Absent, cube |-> MergedCube(lhs, rhs)]
BY DEF DocumentOver, TopRows, ReservoirRows

LEMMA DocumentIsOfBoth ==
  ASSUME NEW lhs, NEW rhs, IsDocument(lhs), IsDocument(rhs), Comparable(lhs, rhs),
         NEW merged, NEW cap, NEW top, NEW reservoir
  PROVE  DocumentOver(lhs, rhs, merged, cap, top, reservoir)
           = DocumentOver(rhs, lhs, merged, cap, top, reservoir)
<1> DEFINE lines == lhs.lines + rhs.lines
           reserved == top \cup DOMAIN reservoir
<1>1. lines = rhs.lines + lhs.lines
  BY DEF IsDocument, HasFrame
<1>2. ComposedEnvelope(lhs.envelope, rhs.envelope) = ComposedEnvelope(rhs.envelope, lhs.envelope)
  BY EnvelopeIsOfBoth DEF IsDocument, HasFrame
<1>3. CommonSource(lhs.source, rhs.source) = CommonSource(rhs.source, lhs.source)
  BY SourceIsOfBoth DEF IsDocument, HasFrame
<1>4. CarriedContract(lhs, rhs) = CarriedContract(rhs, lhs)
  BY ContractIsOfBoth
<1>5. MergeRuleset(lhs, rhs) = MergeRuleset(rhs, lhs)
  BY RulesetIsOfBoth
<1>6. lhs.max_text_bytes = rhs.max_text_bytes
  BY DEF Comparable
<1>7. (IF lhs.transport = rhs.transport THEN lhs.transport ELSE Absent)
        = (IF rhs.transport = lhs.transport THEN rhs.transport ELSE Absent)
  OBVIOUS
<1>8. {lhs.top_k_size, rhs.top_k_size} = {rhs.top_k_size, lhs.top_k_size}
  OBVIOUS
<1>9. Min({lhs.top_k_size, rhs.top_k_size}) = Min({rhs.top_k_size, lhs.top_k_size})
  BY <1>8
<1>10. ComposedHistogramCaps(lhs, rhs) = ComposedHistogramCaps(rhs, lhs)
  BY CapsAreOfBoth
<1>11. /\ TopRows(lhs, rhs, merged, top) = TopRows(rhs, lhs, merged, top)
       /\ ReservoirRows(lhs, rhs, reservoir) = ReservoirRows(rhs, lhs, reservoir)
  BY RowsAreOfBoth
<1>12. /\ ComposedTail(lhs, rhs, merged, reserved, lines)
            = ComposedTail(rhs, lhs, merged, reserved, lines)
       /\ WithResidual(CountsOf(merged, DOMAIN merged), lhs, rhs)
            = WithResidual(CountsOf(merged, DOMAIN merged), rhs, lhs)
  BY TailIsOfBoth
<1>13. ChurnSummary(lhs, rhs, reserved) = ChurnSummary(rhs, lhs, reserved)
  BY SummaryIsOfBoth
<1>14. MergeProvenance(lhs, rhs) = MergeProvenance(rhs, lhs)
  BY ProvenanceIsOfBoth DEF IsDocument, HasFrame
<1>15. MergeCoordinate(lhs, rhs) = MergeCoordinate(rhs, lhs)
  BY BagsJoin DEF MergeCoordinate, IsDocument, HasFrame
<1>16. MergeBehavior(lhs.behavior, rhs.behavior) = MergeBehavior(rhs.behavior, lhs.behavior)
  BY BehaviorIsOfBoth DEF MayBehave, IsDocument, HasFrame
<1>17. MergedCube(lhs, rhs) = MergedCube(rhs, lhs)
  BY CubeIsOfBoth DEF IsDocument, HasFrame
<1> QED BY ONLY <1>1, <1>2, <1>3, <1>4, <1>5, <1>6, <1>7, <1>9, <1>10, <1>11, <1>12, <1>13, <1>14,
                <1>15, <1>16, <1>17, DocumentIsOver

(* compose takes its operands in either order.                             *)
LEMMA ComposeIsSymmetric ==
  ASSUME NEW lhs, NEW rhs, IsDocument(lhs), IsDocument(rhs)
  PROVE  compose(lhs, rhs) = compose(rhs, lhs)
<1>1. CASE ~Comparable(lhs, rhs)
  <2>1. ~Comparable(rhs, lhs)
    BY <1>1, GateIsOfBoth
  <2> QED BY <1>1, <2>1 DEF compose
<1>2. CASE Comparable(lhs, rhs)
  <2> DEFINE merged == MergedTemplates(lhs, rhs)
             cap == MinDeclaredCap(lhs.reservoir_size, rhs.reservoir_size)
             top == ComposedTopK(merged, Min({lhs.top_k_size, rhs.top_k_size}))
             lines == lhs.lines + rhs.lines
             reservoir == ComposedReservoir(lhs, rhs, merged, top, cap, lines)
  <2>1. Comparable(rhs, lhs)
    BY <1>2, GateIsOfBoth
  <2>2. merged = MergedTemplates(rhs, lhs)
    BY TemplatesMerge DEF IsDocument
  <2>3. cap = MinDeclaredCap(rhs.reservoir_size, lhs.reservoir_size)
    BY CapIsOfBoth
  <2>4. {lhs.top_k_size, rhs.top_k_size} = {rhs.top_k_size, lhs.top_k_size}
    OBVIOUS
  <2>5. lines = rhs.lines + lhs.lines
    BY DEF IsDocument, HasFrame
  <2>6. top = ComposedTopK(merged, Min({rhs.top_k_size, lhs.top_k_size}))
    BY <2>4
  <2>7. /\ compose(lhs, rhs) = Retaining(lhs, rhs, merged, cap, top)
        /\ compose(rhs, lhs) = Retaining(rhs, lhs, merged, cap, top)
    <3> HIDE DEF merged, cap, top
    <3> QED BY <1>2, <2>1, <2>2, <2>3, <2>6 DEF compose, Composed, merged, cap, top
  <2> HIDE DEF merged, cap, top, lines
  <2>8. reservoir = ComposedReservoir(rhs, lhs, merged, top, cap, lines)
    BY ReservoirIsRederived
  <2>9. /\ Retaining(lhs, rhs, merged, cap, top)
             = DocumentOver(lhs, rhs, merged, cap, top, reservoir)
        /\ Retaining(rhs, lhs, merged, cap, top)
             = DocumentOver(rhs, lhs, merged, cap, top,
                            ComposedReservoir(rhs, lhs, merged, top, cap, rhs.lines + lhs.lines))
    BY DEF Retaining, lines
  <2> HIDE DEF reservoir
  <2>10. Retaining(rhs, lhs, merged, cap, top)
           = DocumentOver(rhs, lhs, merged, cap, top, reservoir)
    BY ONLY <2>5, <2>8, <2>9
  <2>11. DocumentOver(lhs, rhs, merged, cap, top, reservoir)
           = DocumentOver(rhs, lhs, merged, cap, top, reservoir)
    BY <1>2, DocumentIsOfBoth
  <2> QED BY <2>7, <2>9, <2>10, <2>11
<1> QED BY <1>1, <1>2

(* The lines of a template in both inputs.                                 *)
BothCounts(lhs, rhs, t) == InputTemplate(lhs, t).count + InputTemplate(rhs, t).count

(* What a composed document says of its inputs.                            *)
IsShareOf(doc, lhs, rhs) ==
  LET ids == Retained(lhs) \cup Retained(rhs)
      tail == ids \ Retained(doc)
  IN  /\ Retained(doc) \subseteq ids
      /\ \A t \in Retained(doc) : Row(doc, t).count = BothCounts(lhs, rhs, t)
      /\ doc.lines = lhs.lines + rhs.lines
      /\ doc.tail_count
           = SumFunction([t \in tail |-> BothCounts(lhs, rhs, t)]) + Residual(lhs, rhs)
      /\ doc.tail_unique = Cardinality(tail)
      /\ doc.unique_templates = Cardinality(ids)

LEMMA TopRowsAreRows ==
  ASSUME NEW lhs, NEW rhs, IsDocument(lhs), IsDocument(rhs),
         NEW t \in Retained(lhs) \cup Retained(rhs)
  PROVE  LET merged == MergedTemplates(lhs, rhs)
             row == [count |-> merged[t].count, level |-> merged[t].level,
                     component |-> merged[t].component, churn |-> FoldedChurn(lhs, rhs, t),
                     histograms |-> ComposedHistograms(lhs, rhs, t), ordinals |-> << >>]
         IN  IsTopRow(row) /\ row.count = BothCounts(lhs, rhs, t)
<1> DEFINE view == MergedTemplates(lhs, rhs)[t]
           churn == FoldedChurn(lhs, rhs, t)
           histograms == ComposedHistograms(lhs, rhs, t)
           row == [count |-> view.count, level |-> view.level, component |-> view.component,
                   churn |-> churn, histograms |-> histograms, ordinals |-> << >>]
<1>1. HasRows(lhs) /\ HasRows(rhs)
  BY DEF IsDocument
<1>2. IsView(view) /\ view.count \in Nat \ {0} /\ view.count = BothCounts(lhs, rhs, t)
  BY <1>1, TemplatesMerge DEF BothCounts
<1>3. churn \in Churn
  BY ChurnIsFolded
<1>4. \A i \in DOMAIN histograms : IsSlotOf(histograms[i], BothCounts(lhs, rhs, t))
  BY <1>1, HistogramsMerge DEF BothCounts
<1> HIDE DEF view, churn, histograms
<1>5. /\ row.count = view.count /\ row.level = view.level /\ row.component = view.component
      /\ row.churn = churn /\ row.histograms = histograms /\ row.ordinals = << >>
  OBVIOUS
<1> HIDE DEF row
<1>6. IsTopRow(row) /\ row.count = BothCounts(lhs, rhs, t)
  BY <1>2, <1>3, <1>4, <1>5, NoOrdinals DEF IsTopRow, IsLabelled, IsView
<1> QED BY <1>6 DEF row, view, churn, histograms

LEMMA ReservoirRowsAreRows ==
  ASSUME NEW lhs, NEW rhs, IsDocument(lhs), IsDocument(rhs),
         NEW t \in Retained(lhs) \cup Retained(rhs), NEW lines, NEW surprise, NEW novelty
  PROVE  LET entry == Rederived(MergedTemplates(lhs, rhs)[t], lines, surprise, novelty)
             row == [entry EXCEPT !.where = IF BothCarryCubes(lhs, rhs) THEN @ ELSE NoLabel,
                                  !.churn = FoldedChurn(lhs, rhs, t)]
         IN  IsReservoirRow(row) /\ row.count = BothCounts(lhs, rhs, t)
<1> DEFINE view == MergedTemplates(lhs, rhs)[t]
           churn == FoldedChurn(lhs, rhs, t)
           entry == Rederived(view, lines, surprise, novelty)
           row == [entry EXCEPT !.where = IF BothCarryCubes(lhs, rhs) THEN @ ELSE NoLabel,
                                !.churn = churn]
<1>1. HasRows(lhs) /\ HasRows(rhs)
  BY DEF IsDocument
<1>2. IsView(view) /\ view.count \in Nat \ {0} /\ view.count = BothCounts(lhs, rhs, t)
  BY <1>1, TemplatesMerge DEF BothCounts
<1>3. churn \in Churn
  BY ChurnIsFolded
<1>4. PICK salience, axis :
        entry = [count |-> view.count, level |-> view.level, component |-> view.component,
                 role |-> view.role, where |-> view.where, surprise |-> surprise,
                 novelty |-> novelty, salience |-> salience, axis |-> axis, churn |-> EmptyChurn]
  BY DEF Rederived
<1> HIDE DEF view, churn, entry
<1>5. /\ row.count = view.count /\ row.level = view.level /\ row.component = view.component
      /\ row.role = view.role /\ row.churn = churn /\ row.where \in {view.where, NoLabel}
  BY <1>4
<1> HIDE DEF row
<1>6. NoLabel \in Optional(Nat)
  BY DEF NoLabel, Optional, Absent
<1>7. IsReservoirRow(row) /\ row.count = BothCounts(lhs, rhs, t)
  BY <1>2, <1>3, <1>5, <1>6 DEF IsReservoirRow, IsLabelled, IsView
<1> QED BY <1>7 DEF row, churn, entry, view

(* The frame of two documents over any rows.                               *)
LEMMA FrameIsOfBoth ==
  ASSUME NEW lhs, NEW rhs, IsDocument(lhs), IsDocument(rhs), NEW ids
  PROVE  /\ lhs.lines + rhs.lines \in Nat
         /\ MergedCube(lhs, rhs) \in Optional(Cubed)
         /\ ComposedEnvelope(lhs.envelope, rhs.envelope) \in Optional(Interval)
         /\ CommonSource(lhs.source, rhs.source).host_count \in Optional(Nat)
         /\ ChurnSummary(lhs, rhs, ids) = Absent
            \/ ChurnSummary(lhs, rhs, ids)[1].span_windows \in Nat
         /\ IsABag(MergeProvenance(lhs, rhs)) /\ IsABag(MergeCoordinate(lhs, rhs))
         /\ MayBehave(MergeBehavior(lhs.behavior, rhs.behavior))
<1>1. \A doc \in {lhs, rhs} :
        /\ doc.lines \in Nat /\ doc.cube \in Optional(Cubed) /\ doc.envelope \in Optional(Interval)
        /\ doc.source.host_count \in Optional(Nat)
        /\ IsABag(doc.provenance) /\ IsABag(doc.coordinate) /\ MayBehave(doc.behavior)
  BY DEF IsDocument, HasFrame, MayBehave
<1>2. lhs.lines + rhs.lines \in Nat /\ MergedCube(lhs, rhs) \in Optional(Cubed)
  BY <1>1, CubeIsOfBoth
<1>3. ComposedEnvelope(lhs.envelope, rhs.envelope) \in Optional(Interval)
  BY <1>1, EnvelopeIsOfBoth
<1>4. CommonSource(lhs.source, rhs.source).host_count \in Optional(Nat)
  BY <1>1, SourceIsOfBoth
<1>5. ChurnSummary(lhs, rhs, ids) = Absent \/ ChurnSummary(lhs, rhs, ids)[1].span_windows \in Nat
  BY SummaryIsOfBoth
<1>6. IsABag(MergeProvenance(lhs, rhs))
  BY <1>1, ProvenanceIsOfBoth
<1>7. IsABag(MergeCoordinate(lhs, rhs))
  BY <1>1, BagsJoin DEF MergeCoordinate
<1>8. MayBehave(MergeBehavior(lhs.behavior, rhs.behavior))
  BY <1>1, BehaviorIsOfBoth
<1> QED BY <1>1, <1>2, <1>3, <1>4, <1>5, <1>6, <1>7, <1>8

(* What DocumentOver makes of templates that the inputs carry.             *)
LEMMA OverIsADocument ==
  ASSUME NEW lhs, NEW rhs, IsDocument(lhs), IsDocument(rhs), NEW cap, NEW top, NEW reservoir,
         top \subseteq Retained(lhs) \cup Retained(rhs),
         DOMAIN reservoir \subseteq (DOMAIN lhs.reservoir \cup DOMAIN rhs.reservoir) \ top,
         NEW lines,
         \A t \in DOMAIN reservoir : \E surprise, novelty :
           reservoir[t] = Rederived(MergedTemplates(lhs, rhs)[t], lines, surprise, novelty)
  PROVE  LET doc == DocumentOver(lhs, rhs, MergedTemplates(lhs, rhs), cap, top, reservoir)
         IN  IsDocument(doc) /\ IsShareOf(doc, lhs, rhs)
<1> DEFINE merged == MergedTemplates(lhs, rhs)
           ids == Retained(lhs) \cup Retained(rhs)
           reserved == top \cup DOMAIN reservoir
           all == lhs.lines + rhs.lines
           tail == ComposedTail(lhs, rhs, merged, reserved, all)
           doc == DocumentOver(lhs, rhs, merged, cap, top, reservoir)
           tops == TopRows(lhs, rhs, merged, top)
           rows == ReservoirRows(lhs, rhs, reservoir)
<1>1. /\ doc.lines = all /\ doc.envelope = ComposedEnvelope(lhs.envelope, rhs.envelope)
      /\ doc.source = CommonSource(lhs.source, rhs.source)
      /\ doc.unique_templates = Cardinality(DOMAIN merged)
      /\ doc.top_k = tops /\ doc.reservoir = rows
      /\ doc.tail_count = tail.tail_count /\ doc.tail_unique = tail.tail_unique
      /\ doc.presence_churn = ChurnSummary(lhs, rhs, reserved)
      /\ doc.provenance = MergeProvenance(lhs, rhs) /\ doc.coordinate = MergeCoordinate(lhs, rhs)
      /\ doc.behavior = MergeBehavior(lhs.behavior, rhs.behavior)
      /\ doc.cube = MergedCube(lhs, rhs)
  <2> HIDE DEF merged, all, tail, tops, rows, reserved
  <2> QED BY DocumentIsOver DEF doc, merged, all, tail, tops, rows, reserved
<1>2. HasRows(lhs) /\ HasRows(rhs)
  BY DEF IsDocument
<1>3. /\ DOMAIN merged = ids
      /\ \A t \in ids : merged[t].count \in Nat \ {0} /\ merged[t].count = BothCounts(lhs, rhs, t)
  BY <1>2, TemplatesMerge DEF BothCounts
<1>4. IsFiniteSet(ids) /\ ids \subseteq Nat
  BY <1>2, FS_Union DEF HasRows
<1>5. reserved \subseteq ids
  BY DEF Retained
<1>6. ASSUME NEW t \in top
      PROVE  /\ IsTopRow(tops[t]) /\ tops[t].count = BothCounts(lhs, rhs, t)
             /\ tops[t].ordinals = << >>
  <2>1. t \in Retained(lhs) \cup Retained(rhs)
    BY <1>6
  <2>2. tops[t] = [count |-> merged[t].count, level |-> merged[t].level,
                   component |-> merged[t].component, churn |-> FoldedChurn(lhs, rhs, t),
                   histograms |-> ComposedHistograms(lhs, rhs, t), ordinals |-> << >>]
    BY <1>6 DEF TopRows
  <2> HIDE DEF tops
  <2> QED BY <2>1, <2>2, TopRowsAreRows
<1>7. ASSUME NEW t \in DOMAIN reservoir
      PROVE  IsReservoirRow(rows[t]) /\ rows[t].count = BothCounts(lhs, rhs, t)
  <2>1. t \in Retained(lhs) \cup Retained(rhs)
    BY <1>7 DEF Retained
  <2>2. PICK surprise, novelty :
          reservoir[t] = Rederived(MergedTemplates(lhs, rhs)[t], lines, surprise, novelty)
    BY <1>7
  <2> DEFINE entry == Rederived(MergedTemplates(lhs, rhs)[t], lines, surprise, novelty)
             row == [entry EXCEPT !.where = IF BothCarryCubes(lhs, rhs) THEN @ ELSE NoLabel,
                                  !.churn = FoldedChurn(lhs, rhs, t)]
  <2>3. IsReservoirRow(row) /\ row.count = BothCounts(lhs, rhs, t)
    <3> HIDE DEF merged, rows, reserved, tail, all, tops
    <3> QED BY ONLY IsDocument(lhs), IsDocument(rhs), <2>1, ReservoirRowsAreRows
  <2>4. rows[t] = row
    BY <1>7, <2>2 DEF ReservoirRows
  <2> HIDE DEF rows, row
  <2> QED BY ONLY <2>3, <2>4
<1>8. DOMAIN tops = top /\ DOMAIN rows = DOMAIN reservoir
  BY DEF TopRows, ReservoirRows
<1>9. /\ tail.tail_count = CountOf(merged, ids \ reserved) + Residual(lhs, rhs)
      /\ tail.tail_unique = Cardinality(ids \ reserved)
  <2> HIDE DEF merged, ids, reserved, all
  <2> QED BY <1>3 DEF ComposedTail
<1>10. CountOf(merged, ids \ reserved)
         = SumFunction([t \in ids \ reserved |-> BothCounts(lhs, rhs, t)])
  <2> DEFINE f == [t \in ids \ reserved |-> merged[t].count]
             g == [t \in ids \ reserved |-> BothCounts(lhs, rhs, t)]
  <2>1. f = g
    <3> HIDE DEF merged, ids, reserved
    <3> QED BY <1>3
  <2>2. CountOf(merged, ids \ reserved) = SumFunction(f)
    BY DEF CountOf
  <2> HIDE DEF f, g
  <2>3. SumFunction(f) = SumFunction(g)
    BY <2>1
  <2> QED BY <2>2, <2>3 DEF g
<1>11. CountOf(merged, ids \ reserved) \in Nat /\ Cardinality(ids \ reserved) \in Nat
  <2> DEFINE f == [t \in ids \ reserved |-> merged[t].count]
  <2>1. IsFiniteSet(ids \ reserved)
    BY <1>4, FS_Subset
  <2>2. \A t \in ids \ reserved : f[t] \in Nat
    <3> HIDE DEF merged, ids, reserved
    <3> QED BY <1>3
  <2>3. CountOf(merged, ids \ reserved) = SumFunctionOnSet(f, ids \ reserved)
    BY DEF CountOf, SumFunction
  <2> HIDE DEF f, merged, ids, reserved
  <2> QED BY <2>1, <2>2, <2>3, SumIsNat, CountIsNat
<1>12. Residual(lhs, rhs) \in Nat
  BY TailIsOfBoth
<1>13. /\ all \in Nat
       /\ MergedCube(lhs, rhs) \in Optional(Cubed)
       /\ ComposedEnvelope(lhs.envelope, rhs.envelope) \in Optional(Interval)
       /\ CommonSource(lhs.source, rhs.source).host_count \in Optional(Nat)
       /\ ChurnSummary(lhs, rhs, reserved) = Absent
          \/ ChurnSummary(lhs, rhs, reserved)[1].span_windows \in Nat
       /\ IsABag(MergeProvenance(lhs, rhs)) /\ IsABag(MergeCoordinate(lhs, rhs))
       /\ MayBehave(MergeBehavior(lhs.behavior, rhs.behavior))
  BY FrameIsOfBoth
<1>14. top \cap DOMAIN reservoir = {}
  OBVIOUS
<1> HIDE DEF merged, all, tail, tops, rows, doc
<1>15. Retained(doc) = reserved
  BY <1>1, <1>8 DEF Retained
<1>16. \A t \in reserved : Row(doc, t) = IF t \in top THEN tops[t] ELSE rows[t]
  BY <1>1, <1>8 DEF Row
<1>17. HasRows(doc)
  <2>1. IsFiniteSet(reserved) /\ reserved \subseteq Nat
    BY <1>4, <1>5, FS_Subset
  <2> QED BY <1>1, <1>6, <1>7, <1>8, <1>14, <1>15, <2>1 DEF HasRows
<1>18. HasFrame(doc)
  <2>1. doc.lines \in Nat /\ doc.tail_count \in Nat /\ doc.tail_unique \in Nat
    BY <1>1, <1>9, <1>11, <1>12, <1>13
  <2>2. doc.behavior = Absent \/ (doc.behavior = <<doc.behavior[1]>> /\ IsBehavior(doc.behavior[1]))
    BY <1>1, <1>13 DEF MayBehave
  <2> QED BY <1>1, <1>13, <2>1, <2>2 DEF HasFrame
<1> HIDE DEF reserved
<1>19. IsShareOf(doc, lhs, rhs)
  <2>1. \A t \in reserved : Row(doc, t).count = BothCounts(lhs, rhs, t)
    BY <1>6, <1>7, <1>16 DEF reserved
  <2>2. doc.lines = lhs.lines + rhs.lines
    BY <1>1 DEF all
  <2>3. doc.tail_count = SumFunction([t \in ids \ reserved |-> BothCounts(lhs, rhs, t)])
                           + Residual(lhs, rhs)
    BY ONLY <1>1, <1>9, <1>10
  <2>4. doc.tail_unique = Cardinality(ids \ reserved) /\ doc.unique_templates = Cardinality(ids)
    BY <1>1, <1>3, <1>9
  <2> QED BY <1>5, <1>15, <2>1, <2>2, <2>3, <2>4 DEF IsShareOf
<1>20. IsLocated(doc)
  BY <1>1, <1>6, <1>8 DEF IsLocated
<1> QED BY <1>17, <1>18, <1>19, <1>20 DEF IsDocument, doc, merged

(* Two documents that are comparable compose into one.                     *)
LEMMA ComposedIsADocument ==
  ASSUME NEW lhs, NEW rhs, IsDocument(lhs), IsDocument(rhs), compose(lhs, rhs) # Refusal
  PROVE  IsDocument(compose(lhs, rhs)) /\ IsShareOf(compose(lhs, rhs), lhs, rhs)
<1> DEFINE merged == MergedTemplates(lhs, rhs)
           cap == MinDeclaredCap(lhs.reservoir_size, rhs.reservoir_size)
           top == ComposedTopK(merged, Min({lhs.top_k_size, rhs.top_k_size}))
           lines == lhs.lines + rhs.lines
           reservoir == ComposedReservoir(lhs, rhs, merged, top, cap, lines)
<1>1. Comparable(lhs, rhs)
  BY DEF compose
<1>2. compose(lhs, rhs) = DocumentOver(lhs, rhs, merged, cap, top, reservoir)
  BY <1>1 DEF compose, Composed, Retaining
<1>3. top \subseteq Retained(lhs) \cup Retained(rhs)
  <2>1. DOMAIN merged = Retained(lhs) \cup Retained(rhs)
    BY TemplatesMerge DEF IsDocument
  <2> HIDE DEF merged
  <2> QED BY <2>1, BestArePart DEF ComposedTopK
<1> HIDE DEF cap, top, lines
<1>4. /\ DOMAIN reservoir \subseteq (DOMAIN lhs.reservoir \cup DOMAIN rhs.reservoir) \ top
      /\ \A t \in DOMAIN reservoir : \E surprise, novelty :
           reservoir[t] = Rederived(merged[t], lines, surprise, novelty)
  BY ReservoirIsRederived
<1> HIDE DEF reservoir
<1> QED BY <1>2, <1>3, <1>4, OverIsADocument

-----------------------------------------------------------------------------
(* The document of a window *)

(* The keys that a bag counts most.                                        *)
Heaviest(bag) == {k \in DOMAIN bag : \A j \in DOMAIN bag : bag[j] <= bag[k]}

LEMMA SomeKeyIsHeaviest ==
  ASSUME NEW bag, IsFiniteSet(DOMAIN bag), NEW x \in DOMAIN bag, NatOn(bag, DOMAIN bag)
  PROVE  \E k : k \in Heaviest(bag)
<1> DEFINE counts == {bag[k] : k \in DOMAIN bag}
<1>1. counts \in SUBSET Nat /\ counts # {} /\ IsFiniteSet(counts)
  BY ImageCount DEF NatOn
<1>2. Max(counts) \in counts /\ \A y \in counts : Max(counts) >= y
  BY <1>1, MaxIsElement
<1>3. PICK k \in DOMAIN bag : bag[k] = Max(counts)
  BY <1>2
<1>4. \A j \in DOMAIN bag : bag[j] <= bag[k]
  BY <1>2, <1>3 DEF NatOn
<1> QED BY <1>4 DEF Heaviest

LEMMA DominantIsAKey ==
  ASSUME NEW bag, IsFiniteSet(DOMAIN bag), NEW x \in DOMAIN bag, NatOn(bag, DOMAIN bag),
         NEW rank, NatOn(rank, DOMAIN bag)
  PROVE  Dominant(bag, rank) \in DOMAIN bag
<1> DEFINE K == Heaviest(bag)
           ranks == {rank[k] : k \in K}
<1>1. K \subseteq DOMAIN bag /\ IsFiniteSet(K) /\ K # {}
  <2>1. K \subseteq DOMAIN bag
    BY DEF Heaviest
  <2> QED BY <2>1, SomeKeyIsHeaviest, FS_Subset
<1>2. ranks \in SUBSET Nat /\ ranks # {} /\ IsFiniteSet(ranks)
  BY <1>1, ImageCount DEF NatOn
<1>3. Max(ranks) \in ranks /\ \A y \in ranks : Max(ranks) >= y
  BY <1>2, MaxIsElement
<1>4. PICK k \in K : rank[k] = Max(ranks)
  BY <1>3
<1>5. ASSUME NEW j \in DOMAIN bag
      PROVE  bag[j] < bag[k] \/ (bag[j] = bag[k] /\ rank[j] <= rank[k])
  <2>1. bag[j] \in Nat /\ bag[k] \in Nat /\ bag[j] <= bag[k]
    BY <1>1 DEF NatOn, Heaviest
  <2>2. CASE bag[j] = bag[k]
    <3>1. j \in K
      BY <2>2 DEF Heaviest
    <3>2. rank[j] \in ranks
      BY <3>1
    <3>3. rank[j] <= rank[k]
      BY <1>3, <1>4, <3>2
    <3> QED BY <2>2, <3>3
  <2> QED BY <2>1, <2>2
<1>6. k \in DOMAIN bag
  BY <1>1
<1> QED BY <1>5, <1>6 DEF Dominant

LEMMA ComponentIsAKey ==
  ASSUME NEW bucket, IsABag(bucket.components), IsFiniteSet(DOMAIN bucket.components),
         DOMAIN bucket.components \subseteq Nat
  PROVE  DominantComponent(bucket) = NoLabel
         \/ \E e \in DOMAIN bucket.components : DominantComponent(bucket) = <<e>>
<1> DEFINE bag == bucket.components
           K == Heaviest(bag)
<1>1. CASE DOMAIN bag = {}
  <2>1. bag \in [DOMAIN bag -> Nat \ {0}]
    BY DEF IsABag
  <2>2. bag = << >>
    BY <1>1, <2>1
  <2> QED BY <2>2 DEF DominantComponent, NoLabel
<1>2. CASE DOMAIN bag # {}
  <2>1. PICK x : x \in DOMAIN bag
    BY <1>2
  <2>2. \A j \in DOMAIN bag : bag[j] \in Nat
    BY DEF IsABag
  <2>3. PICK k : k \in K
    BY <2>1, <2>2, SomeKeyIsHeaviest DEF NatOn
  <2>4. K \in SUBSET Nat /\ K # {} /\ K \subseteq DOMAIN bag
    BY <2>3 DEF Heaviest
  <2>5. PICK c \in K : \A d \in K : c <= d
    BY <2>4, LeastExists
  <2>6. \A d \in DOMAIN bag : bag[d] < bag[c] \/ (bag[d] = bag[c] /\ c <= d)
    <3>1. TAKE d \in DOMAIN bag
    <3>2. bag[d] \in Nat /\ bag[c] \in Nat /\ bag[d] <= bag[c]
      BY <2>2, <2>4 DEF Heaviest
    <3>3. bag[d] = bag[c] => d \in K
      BY DEF Heaviest
    <3> QED BY <2>5, <3>2, <3>3
  <2> QED BY <2>4, <2>6 DEF DominantComponent
<1> QED BY <1>1, <1>2

LEMMA LabelIsAKey ==
  ASSUME NEW bucket, IsBucket(bucket), NEW label, DominantComponent(bucket) = <<label>>
  PROVE  label \in DOMAIN bucket.components
<1>1. /\ IsABag(bucket.components) /\ IsFiniteSet(DOMAIN bucket.components)
      /\ DOMAIN bucket.components \subseteq Nat
  BY DEF IsBucket
<1>2. \A e : <<e>> # NoLabel /\ (<<e>> = <<label>> => e = label)
  BY DEF NoLabel
<1> QED BY <1>1, <1>2, ComponentIsAKey

(* The labels of a bucket are labels of a row.                             *)
LEMMA BucketIsLabelled ==
  ASSUME NEW bucket, IsBucket(bucket)
  PROVE  /\ DominantEventLevel(bucket) \in EventLevel
         /\ DominantRole(bucket) \in Roles
         /\ DominantComponent(bucket) \in Optional(Nat)
<1>1. /\ IsABag(bucket.levels) /\ IsFiniteSet(DOMAIN bucket.levels)
      /\ IsABag(bucket.roles) /\ IsFiniteSet(DOMAIN bucket.roles)
      /\ IsABag(bucket.components) /\ IsFiniteSet(DOMAIN bucket.components)
      /\ DOMAIN bucket.levels \subseteq 0..Unknown /\ DOMAIN bucket.levels # {}
      /\ DOMAIN bucket.roles \subseteq Roles /\ DOMAIN bucket.roles # {}
      /\ DOMAIN bucket.components \subseteq Nat
  BY DEF IsBucket, Roles
<1>2. DominantLevel(bucket) \in 0..Unknown
  <2> DEFINE bag == bucket.levels
             rank == [level \in DOMAIN bag |-> Severity(level)]
  <2>1. PICK x : x \in DOMAIN bag
    BY <1>1
  <2>2. NatOn(bag, DOMAIN bag)
    BY <1>1 DEF IsABag, NatOn
  <2>3. NatOn(rank, DOMAIN bag)
    BY <1>1 DEF NatOn, Severity
  <2>4. DominantLevel(bucket) = Dominant(bag, rank)
    BY DEF DominantLevel
  <2> HIDE DEF bag, rank
  <2>5. Dominant(bag, rank) \in DOMAIN bag
    BY <1>1, <2>1, <2>2, <2>3, DominantIsAKey DEF bag
  <2> QED BY <1>1, <2>4, <2>5 DEF bag
<1>3. DominantRole(bucket) \in Roles
  <2> DEFINE bag == bucket.roles
             rank == [role \in DOMAIN bag |-> role]
  <2>1. PICK x : x \in DOMAIN bag
    BY <1>1
  <2>2. NatOn(bag, DOMAIN bag)
    BY <1>1 DEF IsABag, NatOn
  <2>3. NatOn(rank, DOMAIN bag)
    <3>1. Roles \subseteq Nat
      BY SpellingAssumption DEF Roles, NoRole
    <3> QED BY <1>1, <3>1 DEF NatOn
  <2>4. DominantRole(bucket) = Dominant(bag, rank)
    BY DEF DominantRole
  <2> HIDE DEF bag, rank
  <2>5. Dominant(bag, rank) \in DOMAIN bag
    BY <1>1, <2>1, <2>2, <2>3, DominantIsAKey DEF bag
  <2> QED BY <1>1, <2>4, <2>5 DEF bag
<1>4. DominantEventLevel(bucket) \in EventLevel
  BY <1>2 DEF DominantEventLevel, EventLevel
<1>5. DominantComponent(bucket) \in Optional(Nat)
  BY <1>1, ComponentIsAKey DEF NoLabel, Optional, Absent
<1> QED BY <1>3, <1>4, <1>5

LEMMA WindowHasBuckets ==
  ASSUME NEW w, IsWindow(w)
  PROVE  /\ AreBuckets(w.buckets)
         /\ NatOn(w.surprise, DOMAIN w.buckets)
         /\ \A t \in DOMAIN w.buckets : w.buckets[t].echoed \in BOOLEAN
BY DEF IsWindow, IsBucket, AreBuckets, NatOn

(* The templates that a window retains: its top_k and its reservoir.       *)
Admitted(w) == Range(Reservoir(w.buckets, LinesOf(w), w.surprise))

LEMMA WindowRetains ==
  ASSUME NEW w, IsWindow(w)
  PROVE  /\ TopK(w.buckets) \subseteq DOMAIN w.buckets
         /\ Admitted(w) \subseteq DOMAIN w.buckets \ TopK(w.buckets)
<1>1. /\ AreBuckets(w.buckets) /\ NatOn(w.surprise, DOMAIN w.buckets)
      /\ \A t \in DOMAIN w.buckets : w.buckets[t].echoed \in BOOLEAN
  BY WindowHasBuckets
<1>2. NatOn(Scores(w.buckets, LinesOf(w), w.surprise), DOMAIN w.buckets)
  BY <1>1, ScoreOfABucket
<1>3. Admitted(w) \subseteq DOMAIN w.buckets \ TopK(w.buckets)
  BY <1>1, <1>2, ReservoirIsListed DEF Admitted
<1>4. TopK(w.buckets) \in SUBSET DOMAIN w.buckets
  BY <1>1, TopKCount
<1> QED BY <1>3, <1>4

(* The reservoir of the document, keyed by template.                       *)
LEMMA ReservoirIsKeyed ==
  ASSUME NEW w, NEW list
  PROVE  LET entries == Range([i \in DOMAIN list |->
                                 ReservoirEntry(list[i], w.buckets[list[i]], LinesOf(w),
                                                w.surprise[list[i]])])
         IN  /\ {e.id : e \in entries} = Range(list)
             /\ \A t \in Range(list) :
                  (CHOOSE e \in entries : e.id = t)
                    = ReservoirEntry(t, w.buckets[t], LinesOf(w), w.surprise[t])
<1> DEFINE Entry(t) == ReservoirEntry(t, w.buckets[t], LinesOf(w), w.surprise[t])
           entries == Range([i \in DOMAIN list |-> Entry(list[i])])
<1>1. entries = {Entry(t) : t \in Range(list)}
  <2> HIDE DEF Entry
  <2> QED BY DEF Range
<1>2. \A t : Entry(t).id = t
  BY DEF ReservoirEntry
<1> HIDE DEF Entry, entries
<1>3. {e.id : e \in entries} = Range(list)
  BY <1>1, <1>2
<1>4. ASSUME NEW t \in Range(list)
      PROVE  (CHOOSE e \in entries : e.id = t) = Entry(t)
  <2>1. Entry(t) \in entries
    BY <1>1
  <2>2. \A e \in entries : e.id = t => e = Entry(t)
    BY <1>1, <1>2
  <2> QED BY <1>2, <2>1, <2>2
<1> QED BY <1>3, <1>4 DEF Entry, entries

(* What close_window says of the retained templates of a window.           *)
BaseTop(w) == [t \in TopK(w.buckets) |-> TopRow(w, t, RowOf(w.buckets[t]))]

BaseReservoir(w) ==
  [t \in Admitted(w) |->
     ReservoirRow(ReservoirEntry(t, w.buckets[t], LinesOf(w), w.surprise[t]))]

BaseCube(w) == <<BoundedCube(w.joint, Cubes!Full)>>

BaseTail(w) == DOMAIN w.buckets \ (TopK(w.buckets) \cup Admitted(w))

(* The cube of a window's document.                                        *)
LEMMA BaseIsCubed ==
  ASSUME NEW w \in Windows
  PROVE  BaseCube(w) \in Optional(Cubed)
<1>1. w.joint \in SUBSET Rows
  BY DEF Rows
<1>2. Cubes!Full \in CollapseStates
  BY DEF CollapseStates, Cubes!Full, Cubes!MaxLevelBandFloor, Cubes!Error
<1>3. BoundedCube(w.joint, Cubes!Full) \in Cubed
  BY <1>1, <1>2, CubeIsBounded
<1> QED BY <1>3 DEF Optional, BaseCube

(* What the document says of the window it is of.                         *)
IsOver(doc, w, envelope, leaf) ==
  /\ doc.lines = LinesOf(w) /\ doc.envelope = envelope
  /\ doc.source = [fields |-> w.source, host_count |-> <<1>>]
  /\ doc.unique_templates = Cardinality(DOMAIN w.buckets)
  /\ doc.top_k = BaseTop(w) /\ doc.reservoir = BaseReservoir(w)
  /\ doc.tail_count = CountOf(w.buckets, BaseTail(w))
  /\ doc.tail_unique = Cardinality(BaseTail(w))
  /\ doc.presence_churn = BaseChurn(w)
  /\ doc.provenance = << >> /\ doc.coordinate = SetToBag({leaf})
  /\ doc.behavior = w.behavior /\ doc.cube = BaseCube(w)

LEMMA BaseIsOver ==
  ASSUME NEW w, NEW envelope, NEW leaf
  PROVE  IsOver(BaseDocument(w, envelope, leaf), w, envelope, leaf)
<1> DEFINE list == Reservoir(w.buckets, LinesOf(w), w.surprise)
           rows == [i \in DOMAIN list |->
                      ReservoirEntry(list[i], w.buckets[list[i]], LinesOf(w), w.surprise[list[i]])]
           stats == StatsBlock(w.buckets, LinesOf(w), w.surprise)
           doc == BaseDocument(w, envelope, leaf)
           tops == [t \in DOMAIN stats.top_k |-> TopRow(w, t, stats.top_k[t])]
           kept == [t \in {e.id : e \in Range(stats.reservoir)} |->
                      ReservoirRow(CHOOSE e \in Range(stats.reservoir) : e.id = t)]
<1>1. /\ doc.lines = LinesOf(w) /\ doc.envelope = envelope
      /\ doc.source = [fields |-> w.source, host_count |-> <<1>>]
      /\ doc.unique_templates = stats.unique_templates
      /\ doc.top_k = tops /\ doc.reservoir = kept
      /\ doc.tail_count = stats.tail_count /\ doc.tail_unique = stats.tail_unique
      /\ doc.presence_churn = BaseChurn(w)
      /\ doc.provenance = << >> /\ doc.coordinate = SetToBag({leaf})
      /\ doc.behavior = w.behavior /\ doc.cube = BaseCube(w)
  <2> HIDE DEF stats, tops, kept
  <2>1. doc = DocumentOf(w, envelope, leaf, stats)
    BY DEF BaseDocument, stats, doc
  <2> HIDE DEF doc
  <2> QED BY <2>1 DEF DocumentOf, tops, kept, BaseCube
<1>2. /\ stats.unique_templates = Cardinality(DOMAIN w.buckets)
      /\ stats.top_k = [t \in TopK(w.buckets) |-> RowOf(w.buckets[t])]
      /\ stats.reservoir = rows
      /\ stats.tail_count = CountOf(w.buckets, BaseTail(w))
      /\ stats.tail_unique = Cardinality(BaseTail(w))
  BY DEF StatsBlock, StatsOf, BaseTail, Admitted
<1>3. tops = BaseTop(w)
  <2> HIDE DEF stats
  <2> QED BY <1>2 DEF BaseTop
<1>4. kept = BaseReservoir(w)
  <2>1. /\ {e.id : e \in Range(rows)} = Range(list)
        /\ \A t \in Range(list) :
             (CHOOSE e \in Range(rows) : e.id = t)
               = ReservoirEntry(t, w.buckets[t], LinesOf(w), w.surprise[t])
    <3> HIDE DEF list
    <3> QED BY ReservoirIsKeyed
  <2> DEFINE Entry(t) == CHOOSE e \in Range(rows) : e.id = t
             ids == {e.id : e \in Range(rows)}
  <2>2. kept = [t \in ids |-> ReservoirRow(Entry(t))]
    <3> HIDE DEF stats, rows
    <3> QED BY <1>2
  <2>3. ids = Admitted(w)
    BY <2>1 DEF Admitted
  <2>4. \A t \in Admitted(w) : Entry(t) = ReservoirEntry(t, w.buckets[t], LinesOf(w), w.surprise[t])
    BY <2>1 DEF Admitted
  <2> HIDE DEF Entry, ids, kept, rows, list
  <2> QED BY ONLY <2>2, <2>3, <2>4 DEF BaseReservoir
<1> HIDE DEF stats, tops, kept, doc
<1>5. IsOver(doc, w, envelope, leaf)
  BY <1>1, <1>2, <1>3, <1>4 DEF IsOver
<1> QED BY <1>5 DEF doc

LEMMA BaseTopRow ==
  ASSUME NEW w, IsWindow(w), NEW t \in DOMAIN w.buckets
  PROVE  LET row == TopRow(w, t, RowOf(w.buckets[t]))
         IN  /\ IsTopRow(row) /\ row.count = w.buckets[t].count
             /\ row.component = DominantComponent(w.buckets[t])
<1> DEFINE bucket == w.buckets[t]
           level == DominantEventLevel(bucket)
           component == DominantComponent(bucket)
           fields == FieldsOf(w, t)
           row == TopRow(w, t, RowOf(bucket))
<1>1. IsBucket(bucket) /\ bucket.count \in Nat \ {0}
  BY DEF IsWindow, IsBucket
<1>2. level \in EventLevel /\ component \in Optional(Nat)
  BY <1>1, BucketIsLabelled
<1>3. RetainedWindow \in Churn
  BY BaseElementsAreWellFormed DEF WellFormed
<1>4. \A i \in DOMAIN fields.histograms : IsSlotOf(fields.histograms[i], bucket.count)
  <2>1. CASE t \in DOMAIN w.fields
    BY <2>1 DEF IsWindow, FieldsOf
  <2>2. CASE t \notin DOMAIN w.fields
    BY <2>2 DEF FieldsOf
  <2> QED BY <2>1, <2>2
<1>5. /\ row.count = bucket.count /\ row.level = <<level>> /\ row.component = component
      /\ row.churn = RetainedWindow /\ row.histograms = fields.histograms
      /\ row.ordinals = fields.ordinals
  <2> HIDE DEF bucket, fields
  <2> QED BY DEF TopRow, RowOf, fields
<1> HIDE DEF bucket, level, component, fields, row
<1>6. <<level>> \in Optional(EventLevel)
  BY <1>2 DEF Optional
<1>7. AreOrdinals(fields.ordinals)
  <2>1. CASE t \in DOMAIN w.fields
    BY <2>1 DEF IsWindow, FieldsOf, fields
  <2>2. CASE t \notin DOMAIN w.fields
    BY <2>2, NoOrdinals DEF FieldsOf, fields
  <2> QED BY <2>1, <2>2
<1>8. IsTopRow(row)
  BY <1>1, <1>2, <1>3, <1>4, <1>5, <1>6, <1>7 DEF IsTopRow, IsLabelled
<1> QED BY <1>5, <1>8 DEF row, bucket, component

LEMMA BaseReservoirRow ==
  ASSUME NEW w, IsWindow(w), NEW t \in DOMAIN w.buckets
  PROVE  LET row == ReservoirRow(ReservoirEntry(t, w.buckets[t], LinesOf(w), w.surprise[t]))
         IN  IsReservoirRow(row) /\ row.count = w.buckets[t].count
<1> DEFINE bucket == w.buckets[t]
           level == DominantEventLevel(bucket)
           component == DominantComponent(bucket)
           role == DominantRole(bucket)
           row == ReservoirRow(ReservoirEntry(t, bucket, LinesOf(w), w.surprise[t]))
<1>1. IsBucket(bucket) /\ bucket.count \in Nat \ {0}
  BY DEF IsWindow, IsBucket
<1>2. level \in EventLevel /\ component \in Optional(Nat) /\ role \in Roles
  BY <1>1, BucketIsLabelled
<1>3. RetainedWindow \in Churn
  BY BaseElementsAreWellFormed DEF WellFormed
<1>4. /\ row.count = bucket.count /\ row.level = <<level>> /\ row.component = component
      /\ row.churn = RetainedWindow /\ row.role = role /\ row.where = component
  <2> HIDE DEF bucket
  <2> QED BY DEF ReservoirRow, ReservoirEntry, RowOf
<1> HIDE DEF bucket, level, component, role, row
<1>5. <<level>> \in Optional(EventLevel)
  BY <1>2 DEF Optional
<1>6. IsReservoirRow(row)
  BY <1>1, <1>2, <1>3, <1>4, <1>5 DEF IsReservoirRow, IsLabelled
<1> QED BY <1>4, <1>6 DEF row, bucket

(* What a window's document says of it.                                    *)
IsShareOfWindow(doc, w) ==
  /\ Retained(doc) \subseteq DOMAIN w.buckets
  /\ \A t \in Retained(doc) : Row(doc, t).count = w.buckets[t].count
  /\ doc.lines = LinesOf(w)
  /\ doc.tail_count = CountOf(w.buckets, DOMAIN w.buckets \ Retained(doc))
  /\ doc.tail_unique = Cardinality(DOMAIN w.buckets \ Retained(doc))
  /\ doc.unique_templates = Cardinality(DOMAIN w.buckets)

LEMMA CountOfIsNat ==
  ASSUME NEW w, IsWindow(w), NEW ids \in SUBSET DOMAIN w.buckets
  PROVE  CountOf(w.buckets, ids) \in Nat /\ Cardinality(ids) \in Nat
<1> DEFINE f == [t \in ids |-> w.buckets[t].count]
<1>1. IsFiniteSet(ids)
  BY FS_Subset DEF IsWindow
<1>2. \A t \in ids : f[t] \in Nat
  BY DEF IsWindow, IsBucket
<1>3. CountOf(w.buckets, ids) = SumFunctionOnSet(f, ids)
  BY DEF CountOf, SumFunction
<1> HIDE DEF f
<1> QED BY <1>1, <1>2, <1>3, SumIsNat, CountIsNat

LEMMA BaseIsADocument ==
  ASSUME NEW w \in Windows, IsWindow(w), NEW envelope \in Optional(Interval), NEW leaf
  PROVE  /\ IsDocument(BaseDocument(w, envelope, leaf))
         /\ IsShareOfWindow(BaseDocument(w, envelope, leaf), w)
<1> DEFINE doc == BaseDocument(w, envelope, leaf)
           reserved == TopK(w.buckets) \cup Admitted(w)
           tops == BaseTop(w)
           rows == BaseReservoir(w)
<1>1. /\ doc.lines = LinesOf(w) /\ doc.envelope = envelope
      /\ doc.source = [fields |-> w.source, host_count |-> <<1>>]
      /\ doc.unique_templates = Cardinality(DOMAIN w.buckets)
      /\ doc.top_k = tops /\ doc.reservoir = rows
      /\ doc.tail_count = CountOf(w.buckets, BaseTail(w))
      /\ doc.tail_unique = Cardinality(BaseTail(w))
      /\ doc.presence_churn = BaseChurn(w)
      /\ doc.provenance = << >> /\ doc.coordinate = SetToBag({leaf})
      /\ doc.behavior = w.behavior /\ doc.cube = BaseCube(w)
  <2>1. IsOver(doc, w, envelope, leaf)
    BY BaseIsOver
  <2> HIDE DEF doc
  <2> QED BY <2>1 DEF IsOver
<1>2. /\ TopK(w.buckets) \subseteq DOMAIN w.buckets
      /\ Admitted(w) \subseteq DOMAIN w.buckets \ TopK(w.buckets)
  BY WindowRetains
<1>3. DOMAIN tops = TopK(w.buckets) /\ DOMAIN rows = Admitted(w)
  BY DEF BaseTop, BaseReservoir
<1>4. ASSUME NEW t \in TopK(w.buckets)
      PROVE  /\ IsTopRow(tops[t]) /\ tops[t].count = w.buckets[t].count
             /\ tops[t].component = DominantComponent(w.buckets[t])
  <2>1. tops[t] = TopRow(w, t, RowOf(w.buckets[t]))
    BY DEF BaseTop
  <2> HIDE DEF tops
  <2> QED BY <1>2, <2>1, BaseTopRow
<1>5. ASSUME NEW t \in Admitted(w)
      PROVE  IsReservoirRow(rows[t]) /\ rows[t].count = w.buckets[t].count
  <2>1. rows[t] = ReservoirRow(ReservoirEntry(t, w.buckets[t], LinesOf(w), w.surprise[t]))
    BY DEF BaseReservoir
  <2> HIDE DEF rows
  <2> QED BY <1>2, <2>1, BaseReservoirRow
<1> HIDE DEF doc, tops, rows
<1>6. Retained(doc) = reserved
  BY <1>1, <1>3 DEF Retained
<1>7. BaseTail(w) = DOMAIN w.buckets \ Retained(doc)
  BY <1>6 DEF BaseTail
<1>8. /\ LinesOf(w) \in Nat /\ CountOf(w.buckets, BaseTail(w)) \in Nat
      /\ Cardinality(BaseTail(w)) \in Nat
  BY CountOfIsNat DEF LinesOf, BaseTail
<1>9. HasRows(doc)
  <2>1. IsFiniteSet(reserved) /\ reserved \subseteq Nat
    BY <1>2, FS_Subset DEF IsWindow
  <2>2. DOMAIN doc.top_k \cap DOMAIN doc.reservoir = {}
    BY <1>1, <1>2, <1>3
  <2> QED BY <1>1, <1>3, <1>4, <1>5, <1>6, <2>1, <2>2 DEF HasRows
<1>10. HasFrame(doc)
  <2>1. doc.source.host_count \in Optional(Nat)
    <3>1. <<1>> \in Optional(Nat)
      BY DEF Optional
    <3> QED BY <1>1, <3>1
  <2>2. doc.presence_churn = Absent \/ doc.presence_churn[1].span_windows \in Nat
    BY <1>1 DEF BaseChurn
  <2>3. IsABag(doc.provenance) /\ IsABag(doc.coordinate)
    <3>1. IsABag(<< >>)
      BY DEF IsABag
    <3>2. IsABag(SetToBag({leaf}))
      BY DEF IsABag, SetToBag
    <3> QED BY <1>1, <3>1, <3>2
  <2>4. doc.behavior = Absent \/ (doc.behavior = <<doc.behavior[1]>> /\ IsBehavior(doc.behavior[1]))
    BY <1>1 DEF IsWindow
  <2>5. doc.cube \in Optional(Cubed) /\ doc.envelope \in Optional(Interval)
    BY <1>1, BaseIsCubed
  <2> QED BY <1>1, <1>8, <2>1, <2>2, <2>3, <2>4, <2>5 DEF HasFrame
<1>11. IsShareOfWindow(doc, w)
  <2>1. \A t \in reserved : Row(doc, t) = IF t \in TopK(w.buckets) THEN tops[t] ELSE rows[t]
    BY <1>1, <1>3 DEF Row
  <2>2. \A t \in reserved : Row(doc, t).count = w.buckets[t].count
    BY <1>4, <1>5, <2>1
  <2>3. reserved \subseteq DOMAIN w.buckets
    BY <1>2
  <2> QED BY <1>1, <1>6, <1>7, <2>2, <2>3 DEF IsShareOfWindow
<1>12. IsLocated(doc)
  <2> SUFFICES ASSUME NEW t \in DOMAIN doc.top_k, NEW label, doc.top_k[t].component = <<label>>
               PROVE  /\ label # Cubes!Star
                      /\ \E r \in doc.cube[1].rows : r[Cubes!Where] = label
    BY DEF IsLocated
  <2>1. t \in TopK(w.buckets) /\ t \in DOMAIN w.buckets
    BY <1>1, <1>2, <1>3
  <2>2. DominantComponent(w.buckets[t]) = <<label>>
    BY <1>1, <1>4, <2>1
  <2>3. IsBucket(w.buckets[t])
    BY <2>1 DEF IsWindow
  <2>4. label \in DOMAIN w.buckets[t].components
    BY <2>2, <2>3, LabelIsAKey
  <2>5. doc.cube[1].rows = w.joint
    BY <1>1 DEF BaseCube, BoundedCube
  <2> QED BY <2>1, <2>3, <2>4, <2>5 DEF IsWindow, IsBucket, IsJointOf
<1> QED BY <1>9, <1>10, <1>11, <1>12 DEF IsDocument, doc

-----------------------------------------------------------------------------
(* The accounts of a document *)

(* What the windows at the leaves contained, as TrueCount, TrueTemplates   *)
(* and TrueLines read it off the windows closed.                           *)
CountAt(list, i, t) ==
  IF t \in DOMAIN list[i].window.buckets THEN list[i].window.buckets[t].count ELSE 0

CountOver(list, leaves, t) == SumFunction([i \in leaves |-> CountAt(list, i, t)])

TemplatesOver(list, leaves) == UNION {DOMAIN list[i].window.buckets : i \in leaves}

LinesOver(list, leaves) == SumFunction([i \in leaves |-> LinesOf(list[i].window)])

IsLog(list) == list \in Seq([window : Windows, envelope : Optional(Interval)])

AreLeaves(leaves, list) == leaves \subseteq 1..Len(list) /\ IsFiniteSet(leaves)

RetainedCount(doc) == SumFunction([t \in Retained(doc) |-> Row(doc, t).count])

Accounts(doc, list, leaves) ==
  /\ doc.lines = LinesOver(list, leaves)
  /\ doc.lines = doc.tail_count + RetainedCount(doc)
  /\ \A t \in Retained(doc) : Row(doc, t).count <= CountOver(list, leaves, t)
  /\ Retained(doc) \subseteq TemplatesOver(list, leaves)
  /\ doc.unique_templates = Cardinality(Retained(doc)) + doc.tail_unique
  /\ doc.unique_templates <= Cardinality(TemplatesOver(list, leaves))

LEMMA LogHasWindows ==
  ASSUME NEW list, IsLog(list), NEW i \in 1..Len(list)
  PROVE  /\ list[i].window \in Windows /\ IsWindow(list[i].window)
         /\ LinesOf(list[i].window) \in Nat
         /\ \A t : CountAt(list, i, t) \in Nat
<1>1. list[i].window \in Windows
  <2> DEFINE Closings == [window : Windows, envelope : Optional(Interval)]
  <2>1. list \in Seq(Closings)
    BY DEF IsLog
  <2>2. \A x \in Closings : x.window \in Windows
    OBVIOUS
  <2> HIDE DEF Closings
  <2>3. list[i] \in Closings
    BY <2>1
  <2> QED BY <2>2, <2>3
<1>2. IsWindow(list[i].window)
  BY <1>1, LadderAssumption
<1>3. LinesOf(list[i].window) \in Nat
  BY <1>2, CountOfIsNat DEF LinesOf
<1>4. \A t : CountAt(list, i, t) \in Nat
  BY <1>2 DEF CountAt, IsWindow, IsBucket
<1> QED BY <1>1, <1>2, <1>3, <1>4

(* A sum over leaves.                                                      *)
LEMMA LeafSum ==
  ASSUME NEW f, NEW S, DOMAIN f = S, IsFiniteSet(S), NatOn(f, S)
  PROVE  SumFunction(f) = SumFunctionOnSet(f, S) /\ SumFunction(f) \in Nat
<1>1. SumFunction(f) = SumFunctionOnSet(f, S)
  BY DEF SumFunction
<1> QED BY <1>1, SumIsNat DEF NatOn

LEMMA LeafSums ==
  ASSUME NEW f, NEW g, NEW h, NEW S, NEW T, DOMAIN f = S, DOMAIN g = T, DOMAIN h = S \cup T,
         IsFiniteSet(S), IsFiniteSet(T), S \cap T = {}, NatOn(f, S), NatOn(g, T),
         AgreeOn(h, f, S), AgreeOn(h, g, T)
  PROVE  SumFunction(h) = SumFunction(f) + SumFunction(g)
<1>1. NatOn(h, S) /\ NatOn(h, T) /\ NatOn(h, S \cup T)
  BY DEF NatOn, AgreeOn
<1>2. SumFunctionOnSet(h, S \cup T) = SumFunctionOnSet(h, S) + SumFunctionOnSet(h, T)
  BY <1>1, SumDisjoint
<1>3. SumFunctionOnSet(h, S) = SumFunctionOnSet(f, S)
  BY SumSame
<1>4. SumFunctionOnSet(h, T) = SumFunctionOnSet(g, T)
  BY SumSame
<1> QED BY <1>2, <1>3, <1>4 DEF SumFunction

LEMMA TemplatesAreFinite ==
  ASSUME NEW list, IsLog(list), NEW leaves, AreLeaves(leaves, list)
  PROVE  IsFiniteSet(TemplatesOver(list, leaves))
<1> DEFINE f == [i \in leaves |-> DOMAIN list[i].window.buckets]
           images == {f[i] : i \in leaves}
<1>1. IsFiniteSet(images)
  BY ImageCount DEF AreLeaves
<1>2. \A x \in images : IsFiniteSet(x)
  <2>1. \A i \in leaves : IsFiniteSet(f[i])
    BY LogHasWindows DEF AreLeaves, IsWindow
  <2> QED BY <2>1
<1>3. TemplatesOver(list, leaves) = UNION images
  BY DEF TemplatesOver
<1> HIDE DEF images
<1> QED BY <1>1, <1>2, <1>3, FS_UNION

Apart(a, b) == a \cap b = {}

(* What the leaves of both contain is what the leaves of each contain.     *)
AddsUp(list, a, b) ==
  /\ LinesOver(list, a \cup b) = LinesOver(list, a) + LinesOver(list, b)
  /\ \A t : CountOver(list, a \cup b, t) = CountOver(list, a, t) + CountOver(list, b, t)
  /\ TemplatesOver(list, a \cup b) = TemplatesOver(list, a) \cup TemplatesOver(list, b)

LEMMA OverTwo ==
  ASSUME NEW list, IsLog(list), NEW a, NEW b, AreLeaves(a, list), AreLeaves(b, list), Apart(a, b)
  PROVE  /\ AddsUp(list, a, b)
         /\ LinesOver(list, a) \in Nat
         /\ \A t : CountOver(list, a, t) \in Nat
<1>1. /\ IsFiniteSet(a) /\ IsFiniteSet(b) /\ a \subseteq 1..Len(list) /\ b \subseteq 1..Len(list)
      /\ a \cap b = {}
  BY DEF AreLeaves, Apart
<1>2. LinesOver(list, a \cup b) = LinesOver(list, a) + LinesOver(list, b) /\ LinesOver(list, a) \in Nat
  <2> DEFINE f == [i \in a |-> LinesOf(list[i].window)]
             g == [i \in b |-> LinesOf(list[i].window)]
             h == [i \in a \cup b |-> LinesOf(list[i].window)]
  <2>1. NatOn(f, a) /\ NatOn(g, b)
    BY <1>1, LogHasWindows DEF NatOn
  <2>2. AgreeOn(h, f, a) /\ AgreeOn(h, g, b) /\ DOMAIN f = a /\ DOMAIN g = b /\ DOMAIN h = a \cup b
    BY DEF AgreeOn
  <2> HIDE DEF f, g, h
  <2>3. SumFunction(h) = SumFunction(f) + SumFunction(g)
    BY <1>1, <2>1, <2>2, LeafSums
  <2>4. SumFunction(f) \in Nat
    BY <1>1, <2>1, <2>2, LeafSum
  <2> QED BY <2>3, <2>4 DEF LinesOver, f, g, h
<1>3. ASSUME NEW t
      PROVE  /\ CountOver(list, a \cup b, t) = CountOver(list, a, t) + CountOver(list, b, t)
             /\ CountOver(list, a, t) \in Nat
  <2> DEFINE f == [i \in a |-> CountAt(list, i, t)]
             g == [i \in b |-> CountAt(list, i, t)]
             h == [i \in a \cup b |-> CountAt(list, i, t)]
  <2>1. NatOn(f, a) /\ NatOn(g, b)
    BY <1>1, LogHasWindows DEF NatOn
  <2>2. AgreeOn(h, f, a) /\ AgreeOn(h, g, b) /\ DOMAIN f = a /\ DOMAIN g = b /\ DOMAIN h = a \cup b
    BY DEF AgreeOn
  <2> HIDE DEF f, g, h
  <2>3. SumFunction(h) = SumFunction(f) + SumFunction(g)
    BY <1>1, <2>1, <2>2, LeafSums
  <2>4. SumFunction(f) \in Nat
    BY <1>1, <2>1, <2>2, LeafSum
  <2> QED BY <2>3, <2>4 DEF CountOver, f, g, h
<1>4. TemplatesOver(list, a \cup b) = TemplatesOver(list, a) \cup TemplatesOver(list, b)
  BY DEF TemplatesOver
<1> QED BY <1>2, <1>3, <1>4 DEF AddsUp

(* Another window closed changes nothing at the leaves there were.         *)
LEMMA OverLonger ==
  ASSUME NEW list, IsLog(list), NEW leaves, AreLeaves(leaves, list), NEW x
  PROVE  /\ LinesOver(Append(list, x), leaves) = LinesOver(list, leaves)
         /\ \A t : CountOver(Append(list, x), leaves, t) = CountOver(list, leaves, t)
         /\ TemplatesOver(Append(list, x), leaves) = TemplatesOver(list, leaves)
<1>1. \A i \in leaves : Append(list, x)[i] = list[i]
  BY DEF AreLeaves, IsLog
<1>2. LinesOver(Append(list, x), leaves) = LinesOver(list, leaves)
  BY <1>1 DEF LinesOver
<1>3. \A t : CountOver(Append(list, x), leaves, t) = CountOver(list, leaves, t)
  BY <1>1 DEF CountOver, CountAt
<1>4. TemplatesOver(Append(list, x), leaves) = TemplatesOver(list, leaves)
  BY <1>1 DEF TemplatesOver
<1> QED BY <1>2, <1>3, <1>4

LEMMA OverOne ==
  ASSUME NEW list, IsLog(list), NEW i \in 1..Len(list)
  PROVE  /\ AreLeaves({i}, list)
         /\ LinesOver(list, {i}) = LinesOf(list[i].window)
         /\ \A t : CountOver(list, {i}, t) = CountAt(list, i, t)
         /\ TemplatesOver(list, {i}) = DOMAIN list[i].window.buckets
<1>1. IsFiniteSet({}) /\ IsFiniteSet({} \cup {i}) /\ {} \cup {i} = {i}
  BY EmptyCount, CountOneMore
<1>2. ASSUME NEW f, DOMAIN f = {i}, f[i] \in Nat
      PROVE  SumFunction(f) = f[i]
  <2>1. NatOn(f, {} \cup {i})
    BY <1>2 DEF NatOn
  <2>2. SumFunctionOnSet(f, {} \cup {i}) = f[i] + SumFunctionOnSet(f, {})
    BY <1>1, <2>1, SumAdd
  <2>3. SumFunctionOnSet(f, {}) = 0
    BY SumEmpty
  <2>4. SumFunctionOnSet(f, {i}) = f[i]
    BY <1>1, <1>2, <2>2, <2>3
  <2> QED BY <1>2, <2>4 DEF SumFunction
<1>3. LinesOver(list, {i}) = LinesOf(list[i].window)
  <2> DEFINE f == [j \in {i} |-> LinesOf(list[j].window)]
  <2>1. DOMAIN f = {i} /\ f[i] = LinesOf(list[i].window) /\ f[i] \in Nat
    BY LogHasWindows
  <2> HIDE DEF f
  <2>2. SumFunction(f) = f[i]
    BY <1>2, <2>1
  <2> QED BY <2>1, <2>2 DEF LinesOver, f
<1>4. ASSUME NEW t PROVE CountOver(list, {i}, t) = CountAt(list, i, t)
  <2> DEFINE f == [j \in {i} |-> CountAt(list, j, t)]
  <2>1. DOMAIN f = {i} /\ f[i] = CountAt(list, i, t) /\ f[i] \in Nat
    BY LogHasWindows
  <2> HIDE DEF f
  <2>2. SumFunction(f) = f[i]
    BY <1>2, <2>1
  <2> QED BY <2>1, <2>2 DEF CountOver, f
<1>5. TemplatesOver(list, {i}) = DOMAIN list[i].window.buckets
  BY DEF TemplatesOver
<1>6. AreLeaves({i}, list)
  BY <1>1 DEF AreLeaves
<1> QED BY <1>3, <1>4, <1>5, <1>6

(* The document of a window accounts for it.                               *)
LEMMA BaseAccounts ==
  ASSUME NEW list, IsLog(list), NEW i \in 1..Len(list), NEW doc, HasRows(doc),
         IsShareOfWindow(doc, list[i].window)
  PROVE  Accounts(doc, list, {i})
<1> DEFINE w == list[i].window
           D == DOMAIN w.buckets
           R == Retained(doc)
           tail == D \ R
           f == [t \in D |-> w.buckets[t].count]
           g == [t \in tail |-> w.buckets[t].count]
           h == [t \in R |-> Row(doc, t).count]
<1>1. IsWindow(w)
  BY LogHasWindows
<1>2. /\ LinesOver(list, {i}) = LinesOf(w)
      /\ \A t : CountOver(list, {i}, t) = CountAt(list, i, t)
      /\ TemplatesOver(list, {i}) = D
  BY OverOne
<1>3. /\ R \subseteq D
      /\ \A t \in R : Row(doc, t).count = w.buckets[t].count
      /\ doc.lines = LinesOf(w)
      /\ doc.tail_count = CountOf(w.buckets, tail)
      /\ doc.tail_unique = Cardinality(tail)
      /\ doc.unique_templates = Cardinality(D)
  BY DEF IsShareOfWindow
<1>4. /\ LinesOf(w) = SumFunction(f) /\ CountOf(w.buckets, tail) = SumFunction(g)
      /\ RetainedCount(doc) = SumFunction(h)
  BY DEF LinesOf, CountOf, RetainedCount
<1>5. IsFiniteSet(D) /\ \A t \in D : w.buckets[t].count \in Nat
  BY <1>1 DEF IsWindow, IsBucket
<1>6. \A t \in R : CountAt(list, i, t) = w.buckets[t].count
  BY <1>3 DEF CountAt
<1>7. /\ DOMAIN f = D /\ DOMAIN g = tail /\ DOMAIN h = R
      /\ NatOn(f, D) /\ NatOn(g, tail) /\ NatOn(h, R)
      /\ AgreeOn(f, h, R) /\ AgreeOn(f, g, tail)
  BY <1>3, <1>5 DEF NatOn, AgreeOn
<1>8. IsFiniteSet(R) /\ IsFiniteSet(tail) /\ D = R \cup tail /\ R \cap tail = {}
  BY <1>3, <1>5, FS_Subset
<1> HIDE DEF w, f, g, h
<1>9. SumFunction(f) = SumFunction(h) + SumFunction(g)
  <2> HIDE DEF tail, R, D
  <2> QED BY <1>7, <1>8, LeafSums
<1>10. SumFunction(g) \in Nat /\ SumFunction(h) \in Nat
  <2> HIDE DEF tail, R, D
  <2> QED BY <1>7, <1>8, LeafSum
<1>11. doc.lines = doc.tail_count + RetainedCount(doc)
  BY <1>3, <1>4, <1>9, <1>10
<1>12. Cardinality(D) = Cardinality(R) + Cardinality(tail) /\ Cardinality(D) <= Cardinality(D)
  <2>1. R \in SUBSET D
    BY <1>3
  <2>2. Cardinality(D) = Cardinality(R) + Cardinality(tail)
    BY <1>5, <2>1, PartCount
  <2>3. Cardinality(D) \in Nat
    BY <1>5, CountIsNat
  <2> QED BY <2>2, <2>3
<1>13. \A t \in R : Row(doc, t).count <= CountAt(list, i, t)
  BY <1>3, <1>5, <1>6
<1> QED BY <1>2, <1>3, <1>11, <1>12, <1>13 DEF Accounts

(* The lines of what both inputs retain, each template once.               *)
LEMMA BothAreCounted ==
  ASSUME NEW lhs, NEW rhs, HasRows(lhs), HasRows(rhs)
  PROVE  LET ids == Retained(lhs) \cup Retained(rhs) IN
         /\ SumFunction([t \in ids |-> BothCounts(lhs, rhs, t)])
              = RetainedCount(lhs) + RetainedCount(rhs)
         /\ \A t \in ids : BothCounts(lhs, rhs, t) \in Nat
         /\ RetainedCount(lhs) \in Nat /\ RetainedCount(rhs) \in Nat
<1> DEFINE f == [t \in Retained(lhs) |-> Row(lhs, t).count]
           g == [t \in Retained(rhs) |-> Row(rhs, t).count]
           h == [t \in Retained(lhs) \cup Retained(rhs) |-> BothCounts(lhs, rhs, t)]
<1>1. /\ DOMAIN f = Retained(lhs) /\ DOMAIN g = Retained(rhs)
      /\ IsFiniteSet(DOMAIN f) /\ IsFiniteSet(DOMAIN g)
  BY DEF HasRows
<1>2. \A t : /\ InputTemplate(lhs, t).count = IF t \in Retained(lhs) THEN Row(lhs, t).count ELSE 0
             /\ InputTemplate(lhs, t).count \in Nat
  BY InputIsAView DEF IsView
<1>3. \A t : /\ InputTemplate(rhs, t).count = IF t \in Retained(rhs) THEN Row(rhs, t).count ELSE 0
             /\ InputTemplate(rhs, t).count \in Nat
  BY InputIsAView DEF IsView
<1>4. NatOn(f, DOMAIN f) /\ NatOn(g, DOMAIN g)
  <2>1. \A t \in Retained(lhs) : Row(lhs, t).count \in Nat
    BY <1>2
  <2>2. \A t \in Retained(rhs) : Row(rhs, t).count \in Nat
    BY <1>3
  <2> QED BY <2>1, <2>2 DEF NatOn
<1>5. IsUnionSum(h, f, g)
  BY <1>2, <1>3 DEF IsUnionSum, At, BothCounts
<1> HIDE DEF f, g
<1>6. SumFunction(h) = SumFunction(f) + SumFunction(g)
  <2> HIDE DEF h
  <2> QED BY <1>1, <1>4, <1>5, SumOfTwo
<1>7. SumFunction(f) \in Nat /\ SumFunction(g) \in Nat
  BY <1>1, <1>4, LeafSum
<1>8. \A t : BothCounts(lhs, rhs, t) \in Nat
  BY <1>2, <1>3 DEF BothCounts
<1> QED BY <1>6, <1>7, <1>8 DEF RetainedCount, f, g

(* A document composed of two that account for disjoint leaves accounts    *)
(* for them all.                                                           *)
LEMMA ComposedAccounts ==
  ASSUME NEW list, IsLog(list), NEW a, NEW b, AreLeaves(a, list), AreLeaves(b, list), Apart(a, b),
         NEW lhs, NEW rhs, IsDocument(lhs), IsDocument(rhs),
         Accounts(lhs, list, a), Accounts(rhs, list, b),
         NEW doc, IsShareOf(doc, lhs, rhs)
  PROVE  Accounts(doc, list, a \cup b)
<1> DEFINE ids == Retained(lhs) \cup Retained(rhs)
           R == Retained(doc)
           tail == ids \ R
           f == [t \in ids |-> BothCounts(lhs, rhs, t)]
           g == [t \in tail |-> BothCounts(lhs, rhs, t)]
           h == [t \in R |-> Row(doc, t).count]
<1>1. HasRows(lhs) /\ HasRows(rhs) /\ lhs.tail_count \in Nat /\ rhs.tail_count \in Nat
  BY DEF IsDocument, HasFrame
<1>2. /\ R \subseteq ids
      /\ \A t \in R : Row(doc, t).count = BothCounts(lhs, rhs, t)
      /\ doc.lines = lhs.lines + rhs.lines
      /\ doc.tail_count = SumFunction(g) + Residual(lhs, rhs)
      /\ doc.tail_unique = Cardinality(tail)
      /\ doc.unique_templates = Cardinality(ids)
  BY DEF IsShareOf
<1>3. /\ SumFunction(f) = RetainedCount(lhs) + RetainedCount(rhs)
      /\ \A t \in ids : BothCounts(lhs, rhs, t) \in Nat
      /\ RetainedCount(lhs) \in Nat /\ RetainedCount(rhs) \in Nat
  BY <1>1, BothAreCounted
<1>4. /\ LinesOver(list, a \cup b) = LinesOver(list, a) + LinesOver(list, b)
      /\ \A t : CountOver(list, a \cup b, t) = CountOver(list, a, t) + CountOver(list, b, t)
      /\ TemplatesOver(list, a \cup b) = TemplatesOver(list, a) \cup TemplatesOver(list, b)
      /\ \A t : CountOver(list, a, t) \in Nat
  <2>1. AddsUp(list, a, b)
    BY OverTwo
  <2>2. \A t : CountOver(list, a, t) \in Nat
    BY OverTwo
  <2> QED BY ONLY <2>1, <2>2 DEF AddsUp
<1>5. \A t : CountOver(list, b, t) \in Nat
  <2>1. Apart(b, a)
    BY DEF Apart
  <2> QED BY <2>1, OverTwo
<1>6. /\ lhs.lines = LinesOver(list, a) /\ lhs.lines = lhs.tail_count + RetainedCount(lhs)
      /\ rhs.lines = LinesOver(list, b) /\ rhs.lines = rhs.tail_count + RetainedCount(rhs)
      /\ \A t \in Retained(lhs) : Row(lhs, t).count <= CountOver(list, a, t)
      /\ \A t \in Retained(rhs) : Row(rhs, t).count <= CountOver(list, b, t)
      /\ Retained(lhs) \subseteq TemplatesOver(list, a)
      /\ Retained(rhs) \subseteq TemplatesOver(list, b)
  BY DEF Accounts
<1>7. /\ DOMAIN f = ids /\ DOMAIN g = tail /\ DOMAIN h = R
      /\ NatOn(f, ids) /\ NatOn(g, tail) /\ NatOn(h, R)
      /\ AgreeOn(f, h, R) /\ AgreeOn(f, g, tail)
  BY <1>2, <1>3 DEF NatOn, AgreeOn
<1>8. /\ IsFiniteSet(ids) /\ IsFiniteSet(R) /\ IsFiniteSet(tail)
      /\ ids = R \cup tail /\ R \cap tail = {}
  BY <1>1, <1>2, FS_Union, FS_Subset DEF HasRows
<1>9. SumFunction(f) = SumFunction(h) + SumFunction(g)
  <2> HIDE DEF f, g, h, tail, R, ids
  <2> QED BY <1>7, <1>8, LeafSums
<1>10. SumFunction(g) \in Nat /\ SumFunction(h) \in Nat
  <2> HIDE DEF f, g, h, tail, R, ids
  <2> QED BY <1>7, <1>8, LeafSum
<1>11. RetainedCount(doc) = SumFunction(h)
  BY DEF RetainedCount
<1>12. Residual(lhs, rhs) = lhs.tail_count + rhs.tail_count
  BY DEF Residual
<1> HIDE DEF f, g, h
<1>13. doc.lines = doc.tail_count + RetainedCount(doc)
  BY <1>1, <1>2, <1>3, <1>6, <1>9, <1>10, <1>11, <1>12
<1>14. doc.lines = LinesOver(list, a \cup b)
  BY <1>2, <1>4, <1>6
<1>15. ASSUME NEW t \in R
       PROVE  Row(doc, t).count <= CountOver(list, a \cup b, t)
  <2>1. /\ InputTemplate(lhs, t).count = IF t \in Retained(lhs) THEN Row(lhs, t).count ELSE 0
        /\ InputTemplate(lhs, t).count \in Nat
    BY <1>1, InputIsAView DEF IsView
  <2>2. /\ InputTemplate(rhs, t).count = IF t \in Retained(rhs) THEN Row(rhs, t).count ELSE 0
        /\ InputTemplate(rhs, t).count \in Nat
    BY <1>1, InputIsAView DEF IsView
  <2>3. CountOver(list, a, t) \in Nat /\ CountOver(list, b, t) \in Nat
    BY <1>4, <1>5
  <2>4. InputTemplate(lhs, t).count <= CountOver(list, a, t)
    BY <1>6, <2>1, <2>3
  <2>5. InputTemplate(rhs, t).count <= CountOver(list, b, t)
    BY <1>6, <2>2, <2>3
  <2>6. /\ Row(doc, t).count = InputTemplate(lhs, t).count + InputTemplate(rhs, t).count
        /\ CountOver(list, a \cup b, t) = CountOver(list, a, t) + CountOver(list, b, t)
    BY <1>2, <1>4 DEF BothCounts
  <2> HIDE DEF R, ids
  <2> QED BY <2>1, <2>2, <2>3, <2>4, <2>5, <2>6
<1>16. Retained(doc) \subseteq TemplatesOver(list, a \cup b) /\ ids \subseteq TemplatesOver(list, a \cup b)
  BY <1>2, <1>4, <1>6
<1>17. doc.unique_templates = Cardinality(Retained(doc)) + doc.tail_unique
  <2>1. R \in SUBSET ids
    BY <1>2
  <2> HIDE DEF ids
  <2>2. Cardinality(ids) = Cardinality(R) + Cardinality(ids \ R)
    BY <1>8, <2>1, PartCount
  <2> QED BY <1>2, <2>2
<1>18. doc.unique_templates <= Cardinality(TemplatesOver(list, a \cup b))
  <2> DEFINE T == TemplatesOver(list, a \cup b)
  <2>1. AreLeaves(a \cup b, list)
    BY FS_Union DEF AreLeaves
  <2>2. IsFiniteSet(T)
    BY <2>1, TemplatesAreFinite
  <2>3. ids \in SUBSET T
    BY <1>16
  <2> HIDE DEF T, ids
  <2>4. Cardinality(T) = Cardinality(ids) + Cardinality(T \ ids) /\ IsFiniteSet(T \ ids)
    BY <2>2, <2>3, PartCount, FS_Subset
  <2>5. Cardinality(ids) \in Nat /\ Cardinality(T \ ids) \in Nat
    BY <1>8, <2>4, CountIsNat
  <2> QED BY <1>2, <2>4, <2>5 DEF T
<1> QED BY <1>13, <1>14, <1>15, <1>16, <1>17, <1>18 DEF Accounts

-----------------------------------------------------------------------------
(* The documents held *)

(* An entry of the pool over the windows closed so far.                    *)
IsEntry(e, list) ==
  /\ AreLeaves(e.leaves, list)
  /\ IsDocument(e.doc)
  /\ Accounts(e.doc, list, e.leaves)

(* Every document held accounts for its leaves, and no window is a leaf of *)
(* two of them: rolling up neither loses a window nor counts one twice.    *)
PoolInv ==
  /\ IsLog(closed)
  /\ \A e \in pool : IsEntry(e, closed)
  /\ \A a, b \in pool : a = b \/ Apart(a.leaves, b.leaves)

Closing(w, envelope) == [window |-> w, envelope |-> envelope]

LEMMA LogGrows ==
  ASSUME NEW list, IsLog(list), NEW w \in Windows, NEW envelope \in Optional(Interval)
  PROVE  LET new == Append(list, Closing(w, envelope)) IN
         /\ IsLog(new) /\ Len(new) = Len(list) + 1 /\ Len(list) \in Nat
         /\ new[Len(list) + 1] = Closing(w, envelope)
<1> DEFINE Closings == [window : Windows, envelope : Optional(Interval)]
           x == Closing(w, envelope)
<1>1. list \in Seq(Closings) /\ x \in Closings
  BY DEF IsLog, Closing
<1> HIDE DEF Closings, x
<1>2. /\ Append(list, x) \in Seq(Closings) /\ Len(Append(list, x)) = Len(list) + 1
      /\ Append(list, x)[Len(list) + 1] = x /\ Len(list) \in Nat
  BY <1>1
<1> QED BY <1>2 DEF IsLog, Closings, x

LEMMA EntryStays ==
  ASSUME NEW list, IsLog(list), NEW w \in Windows, NEW envelope \in Optional(Interval),
         NEW e, IsEntry(e, list)
  PROVE  IsEntry(e, Append(list, Closing(w, envelope)))
<1> DEFINE new == Append(list, Closing(w, envelope))
<1>1. AreLeaves(e.leaves, list) /\ IsDocument(e.doc) /\ Accounts(e.doc, list, e.leaves)
  BY DEF IsEntry
<1>2. Len(new) = Len(list) + 1 /\ Len(list) \in Nat
  BY LogGrows
<1>3. /\ LinesOver(new, e.leaves) = LinesOver(list, e.leaves)
      /\ \A t : CountOver(new, e.leaves, t) = CountOver(list, e.leaves, t)
      /\ TemplatesOver(new, e.leaves) = TemplatesOver(list, e.leaves)
  <2>1. LinesOver(new, e.leaves) = LinesOver(list, e.leaves)
    BY <1>1, OverLonger
  <2>2. \A t : CountOver(new, e.leaves, t) = CountOver(list, e.leaves, t)
    BY <1>1, OverLonger
  <2>3. TemplatesOver(new, e.leaves) = TemplatesOver(list, e.leaves)
    BY <1>1, OverLonger
  <2> QED BY ONLY <2>1, <2>2, <2>3
<1> HIDE DEF new
<1>4. AreLeaves(e.leaves, new)
  BY <1>1, <1>2 DEF AreLeaves
<1>5. Accounts(e.doc, new, e.leaves)
  BY <1>1, <1>3 DEF Accounts
<1> QED BY <1>1, <1>4, <1>5 DEF IsEntry, new

LEMMA EntryIsNew ==
  ASSUME NEW list, IsLog(list), NEW w \in Windows, NEW envelope \in Optional(Interval),
         NEW e, e.leaves = {Len(list) + 1}, e.doc = BaseDocument(w, envelope, Len(list) + 1)
  PROVE  IsEntry(e, Append(list, Closing(w, envelope)))
<1> DEFINE new == Append(list, Closing(w, envelope))
           i == Len(list) + 1
<1>1. /\ IsLog(new) /\ Len(new) = i /\ i \in 1..Len(new)
      /\ new[i] = Closing(w, envelope)
  <2>1. IsLog(new) /\ Len(new) = i /\ new[i] = Closing(w, envelope) /\ Len(list) \in Nat
    BY LogGrows
  <2> QED BY <2>1
<1>2. IsWindow(w) /\ new[i].window = w
  BY <1>1, LadderAssumption DEF Closing
<1> HIDE DEF new, i
<1>3. IsDocument(e.doc) /\ IsShareOfWindow(e.doc, w)
  BY <1>2, BaseIsADocument
<1>4. HasRows(e.doc) /\ IsShareOfWindow(e.doc, new[i].window)
  BY <1>2, <1>3 DEF IsDocument
<1>5. Accounts(e.doc, new, {i})
  BY <1>1, <1>4, BaseAccounts
<1>6. AreLeaves({i}, new)
  BY <1>1, OverOne
<1>7. e.leaves = {i}
  BY DEF i
<1> QED BY <1>3, <1>5, <1>6, <1>7 DEF IsEntry, new

LEMMA EntryIsRolled ==
  ASSUME NEW list, IsLog(list), NEW a, NEW b, IsEntry(a, list), IsEntry(b, list),
         Apart(a.leaves, b.leaves), compose(a.doc, b.doc) # Refusal,
         NEW e, e.leaves = a.leaves \cup b.leaves, e.doc = compose(a.doc, b.doc)
  PROVE  IsEntry(e, list)
<1>1. /\ AreLeaves(a.leaves, list) /\ IsDocument(a.doc) /\ Accounts(a.doc, list, a.leaves)
      /\ AreLeaves(b.leaves, list) /\ IsDocument(b.doc) /\ Accounts(b.doc, list, b.leaves)
  BY DEF IsEntry
<1>2. IsDocument(e.doc) /\ IsShareOf(e.doc, a.doc, b.doc)
  BY <1>1, ComposedIsADocument
<1>3. Accounts(e.doc, list, a.leaves \cup b.leaves)
  BY <1>1, <1>2, ComposedAccounts
<1>4. AreLeaves(a.leaves \cup b.leaves, list)
  BY <1>1, FS_Union DEF AreLeaves
<1> QED BY <1>2, <1>3, <1>4 DEF IsEntry

(* The latest envelope is that of the last window stamped.                 *)
LEMMA LatestIsClosed ==
  ASSUME IsLog(closed), Stamped # {}
  PROVE  \E m \in 1..Len(closed) : \E x \in Interval :
           closed[m].envelope = <<x>> /\ Latest = x /\ \A i \in Stamped : i <= m
<1> DEFINE Closings == [window : Windows, envelope : Optional(Interval)]
           m == Max(Stamped)
<1>1. closed \in Seq(Closings)
  BY DEF IsLog
<1>2. \A x \in Closings : x.envelope \in Optional(Interval)
  OBVIOUS
<1> HIDE DEF Closings
<1>3. Len(closed) \in Nat /\ DOMAIN closed = 1..Len(closed)
  BY <1>1
<1>4. Stamped \in SUBSET (1..Len(closed))
  BY <1>3 DEF Stamped
<1>5. m \in Stamped /\ \A i \in Stamped : m >= i
  <2>1. PICK n \in Nat : n = Len(closed)
    BY <1>3
  <2>2. Stamped \in SUBSET (1..n)
    BY <1>4, <2>1
  <2>3. IsFiniteSet(Stamped)
    BY <2>2, PartOfUpTo
  <2>4. Stamped \in SUBSET Nat
    BY <2>2
  <2> QED BY <2>3, <2>4, MaxIsElement
<1>6. m \in 1..Len(closed)
  BY <1>4, <1>5
<1>7. closed[m].envelope \in Optional(Interval) /\ closed[m].envelope # Absent
  BY <1>1, <1>2, <1>5, <1>6 DEF Stamped
<1>8. PICK x \in Interval : closed[m].envelope = <<x>>
  BY <1>7 DEF Optional
<1>9. Latest = x
  BY <1>8 DEF Latest
<1>10. \A i \in Stamped : i <= m
  <2> HIDE DEF m
  <2> QED BY <1>4, <1>5, <1>6
<1> HIDE DEF m
<1> QED BY <1>6, <1>8, <1>9, <1>10

(* An envelope placed after, or on, the latest one.                        *)
LEMMA EnvelopeIsPlaced ==
  ASSUME IsLog(closed), NEW placement
  PROVE  Envelope(placement) \in Optional(Interval)
<1>1. CASE placement = "unstamped"
  BY <1>1 DEF Envelope, Optional
<1>2. CASE Stamped = {}
  <2>1. [start |-> 0, end |-> 1] \in Interval
    BY DEF Interval
  <2> QED BY <1>2, <2>1 DEF Envelope, Optional
<1>3. CASE Stamped # {}
  <2>1. PICK x \in Interval : Latest = x
    BY <1>3, LatestIsClosed
  <2>2. x.end \in Nat /\ [start |-> x.end, end |-> x.end + 1] \in Interval
    BY DEF Interval
  <2>3. Envelope(placement) \in {Absent, <<x>>, <<[start |-> x.end, end |-> x.end + 1]>>}
    BY <1>3, <2>1 DEF Envelope
  <2> QED BY <2>2, <2>3 DEF Optional
<1> QED BY <1>1, <1>2, <1>3

LEMMA PoolStarts == Init => PoolInv
<1> SUFFICES ASSUME Init PROVE PoolInv
  OBVIOUS
<1>1. IsLog(closed)
  BY DEF Init, IsLog
<1> QED BY <1>1 DEF Init, PoolInv

LEMMA PoolTakesAWindow ==
  ASSUME PoolInv, NEW w \in Windows, NEW placement, Close(w, placement)
  PROVE  PoolInv'
<1>1. PICK list, old, envelope : list = closed /\ old = pool /\ envelope = Envelope(placement)
  OBVIOUS
<1> DEFINE i == Len(list) + 1
           new == Append(list, Closing(w, envelope))
           one == [leaves |-> {i}, timely |-> TRUE, doc |-> BaseDocument(w, envelope, i)]
<1>2. /\ IsLog(list) /\ \A e \in old : IsEntry(e, list)
      /\ \A a, b \in old : a = b \/ Apart(a.leaves, b.leaves)
      /\ envelope \in Optional(Interval)
  BY <1>1, EnvelopeIsPlaced DEF PoolInv
<1>3. closed' = new /\ pool' = old \cup {one}
  BY <1>1 DEF Close, Closing
<1>4. one.leaves = {i} /\ one.doc = BaseDocument(w, envelope, i)
  OBVIOUS
<1>5. IsLog(new)
  BY <1>2, LogGrows
<1> HIDE DEF one, new
<1>6. IsEntry(one, new)
  BY <1>2, <1>4, EntryIsNew DEF new
<1>7. \A e \in old : IsEntry(e, new)
  BY <1>2, EntryStays DEF new
<1>8. ASSUME NEW e \in old PROVE Apart(e.leaves, one.leaves) /\ Apart(one.leaves, e.leaves)
  <2>1. AreLeaves(e.leaves, list)
    BY <1>2 DEF IsEntry
  <2>2. i \notin e.leaves
    <3>1. Len(list) \in Nat
      BY <1>2 DEF IsLog
    <3> QED BY <2>1, <3>1 DEF AreLeaves
  <2> QED BY <1>4, <2>2 DEF Apart
<1>9. \A e \in old \cup {one} : IsEntry(e, new)
  BY <1>6, <1>7
<1>10. \A a, b \in old \cup {one} : a = b \/ Apart(a.leaves, b.leaves)
  BY <1>2, <1>8
<1> QED BY <1>3, <1>5, <1>9, <1>10 DEF PoolInv

LEMMA PoolRolls ==
  ASSUME PoolInv, NEW a \in pool, NEW b \in pool, Roll(a, b)
  PROVE  PoolInv'
<1>1. PICK list, old, timely :
        list = closed /\ old = pool /\ timely = (a.timely /\ b.timely /\ InTime(a, b))
  OBVIOUS
<1> DEFINE doc == compose(a.doc, b.doc)
           one == [leaves |-> a.leaves \cup b.leaves, doc |-> doc, timely |-> timely]
<1>2. /\ IsLog(list) /\ \A e \in old : IsEntry(e, list)
      /\ \A d, e \in old : d = e \/ Apart(d.leaves, e.leaves)
      /\ a \in old /\ b \in old
  BY <1>1 DEF PoolInv
<1>3. /\ closed' = list /\ pool' = (old \ {a, b}) \cup {one}
      /\ a # b /\ doc # Refusal
  BY <1>1 DEF Roll
<1>4. one.leaves = a.leaves \cup b.leaves /\ one.doc = doc
  OBVIOUS
<1> HIDE DEF one, doc
<1>5. IsEntry(one, list)
  <2>1. IsEntry(a, list) /\ IsEntry(b, list) /\ Apart(a.leaves, b.leaves)
    BY <1>2, <1>3
  <2> QED BY <1>2, <1>3, <1>4, <2>1, EntryIsRolled DEF doc
<1>6. ASSUME NEW e \in old \ {a, b} PROVE Apart(e.leaves, one.leaves) /\ Apart(one.leaves, e.leaves)
  <2>1. Apart(e.leaves, a.leaves) /\ Apart(e.leaves, b.leaves)
    BY <1>2
  <2> QED BY <1>4, <2>1 DEF Apart
<1>7. \A e \in (old \ {a, b}) \cup {one} : IsEntry(e, list)
  BY <1>2, <1>5
<1>8. \A d, e \in (old \ {a, b}) \cup {one} : d = e \/ Apart(d.leaves, e.leaves)
  BY <1>2, <1>6
<1> QED BY <1>2, <1>3, <1>7, <1>8 DEF PoolInv

(* PoolInv is inductive.                                                   *)
LEMMA PoolStaysWhole == Spec => []PoolInv
<1>1. PoolInv /\ [Next]_vars => PoolInv'
  <2> SUFFICES ASSUME PoolInv, [Next]_vars PROVE PoolInv'
    OBVIOUS
  <2>1. CASE UNCHANGED vars
    BY <2>1 DEF PoolInv, vars
  <2>2. CASE \E w \in Windows, placement \in Placements : Close(w, placement)
    BY <2>2, PoolTakesAWindow
  <2>3. CASE \E a, b \in pool : Roll(a, b)
    BY <2>3, PoolRolls
  <2> QED BY <2>1, <2>2, <2>3 DEF Next
<1> QED BY <1>1, PoolStarts, PTL DEF Spec

(* Every line of every leaf is in exactly one place of every document,     *)
(* however it was rolled up: compose only moves counts between top_k, the  *)
(* reservoir and the tail.                                                 *)
THEOREM EveryLineIsAlwaysAccounted == Spec => []EveryLineIsAccounted
<1>1. PoolInv => EveryLineIsAccounted
  <2> SUFFICES ASSUME PoolInv, NEW e \in pool
               PROVE  LET doc == e.doc IN
                      /\ DOMAIN doc.top_k \cap DOMAIN doc.reservoir = {}
                      /\ doc.lines = TrueLines(e.leaves)
                      /\ doc.lines = doc.tail_count + SumFunction([t \in Retained(doc) |-> Row(doc, t).count])
                      /\ \A t \in Retained(doc) : Row(doc, t).count <= TrueCount(e.leaves, t)
                      /\ \A t \in DOMAIN doc.top_k : \A i \in DOMAIN doc.top_k[t].histograms :
                           LET slot == doc.top_k[t].histograms[i]
                           IN  SumFunction(slot.values) <= slot.total /\ slot.total <= doc.top_k[t].count
                      /\ doc.unique_templates = Cardinality(Retained(doc)) + doc.tail_unique
                      /\ doc.unique_templates <= Cardinality(TrueTemplates(e.leaves))
    BY DEF EveryLineIsAccounted
  <2> DEFINE doc == e.doc
  <2>1. HasRows(doc) /\ Accounts(doc, closed, e.leaves)
    BY DEF PoolInv, IsEntry, IsDocument
  <2>2. /\ TrueLines(e.leaves) = LinesOver(closed, e.leaves)
        /\ TrueTemplates(e.leaves) = TemplatesOver(closed, e.leaves)
        /\ \A t : TrueCount(e.leaves, t) = CountOver(closed, e.leaves, t)
    BY DEF TrueLines, LinesOver, TrueTemplates, TemplatesOver, TrueCount, CountOver, CountAt
  <2> HIDE DEF doc
  <2>3. DOMAIN doc.top_k \cap DOMAIN doc.reservoir = {}
    BY <2>1 DEF HasRows
  <2>4. \A t \in DOMAIN doc.top_k : \A i \in DOMAIN doc.top_k[t].histograms :
          LET slot == doc.top_k[t].histograms[i]
          IN  SumFunction(slot.values) <= slot.total /\ slot.total <= doc.top_k[t].count
    BY <2>1 DEF HasRows, IsTopRow, IsSlotOf
  <2>5. /\ doc.lines = TrueLines(e.leaves)
        /\ doc.lines = doc.tail_count + SumFunction([t \in Retained(doc) |-> Row(doc, t).count])
        /\ \A t \in Retained(doc) : Row(doc, t).count <= TrueCount(e.leaves, t)
        /\ doc.unique_templates = Cardinality(Retained(doc)) + doc.tail_unique
        /\ doc.unique_templates <= Cardinality(TrueTemplates(e.leaves))
    BY <2>1, <2>2 DEF Accounts, RetainedCount
  <2> QED BY <2>3, <2>4, <2>5 DEF doc
<1> QED BY <1>1, PoolStaysWhole, PTL

(* The documents that windows close to and compose to are composed in      *)
(* either order to the same document, or refused in both.                  *)
THEOREM ComposeAlwaysCommutes == Spec => []ComposeCommutes
<1>1. PoolInv => ComposeCommutes
  <2> SUFFICES ASSUME PoolInv, NEW a \in pool, NEW b \in pool
               PROVE  compose(a.doc, b.doc) = compose(b.doc, a.doc)
    BY DEF ComposeCommutes
  <2>1. IsDocument(a.doc) /\ IsDocument(b.doc)
    BY DEF PoolInv, IsEntry
  <2> QED BY <2>1, ComposeIsSymmetric
<1> QED BY <1>1, PoolStaysWhole, PTL

-----------------------------------------------------------------------------
(* The cells of two cubes *)

(* A cell of lines, collapsed or not: only its component may be starred.   *)
IsCell(c) == c \in [1..4 -> Nat] /\ c[1] # Cubes!Star /\ c[3] # Cubes!Star /\ c[4] = Cubes!Star

(* The shift of every component is one of the six bands.                   *)
AreShifts(shifts) == \A label \in DOMAIN shifts : SignedShift(shifts[label]) \in 1..6

Moves(c, shifts) == c[2] \in DOMAIN shifts

Mark(c, shifts) == IF Moves(c, shifts) THEN [c EXCEPT ![4] = SignedShift(shifts[c[2]])] ELSE c

LEMMA DimensionsAre ==
  /\ Cubes!Dims = 1..4 /\ Cubes!Level = 1 /\ Cubes!Where = 2 /\ Cubes!Role = 3
  /\ Cubes!LatencyShift = 4 /\ Cubes!Star = 99
BY DEF Cubes!Dims, Cubes!Level, Cubes!Where, Cubes!Role, Cubes!LatencyShift, Cubes!Star

LEMMA MarkedAre ==
  ASSUME NEW cells, NEW shifts
  PROVE  Marked(cells, shifts) = {Mark(c, shifts) : c \in cells}
BY DimensionsAre DEF Marked, Mark, Moves

(* A cell of lines covers those of its level and role, and component.      *)
LEMMA CoversWhat ==
  ASSUME NEW c, IsCell(c), NEW o, DOMAIN o = 1..4
  PROVE  Cubes!IsAncestor(c, o)
           <=> c[1] = o[1] /\ c[3] = o[3] /\ (c[2] = Cubes!Star \/ c[2] = o[2])
<1>1. Cubes!Pinned(c) = {dim \in 1..4 : c[dim] # Cubes!Star}
  BY DimensionsAre DEF Cubes!Pinned
<1>2. 1..4 = {1, 2, 3, 4}
  OBVIOUS
<1>3. Cubes!IsAncestor(c, o) <=> \A dim \in {1, 2, 3, 4} : c[dim] # Cubes!Star => c[dim] = o[dim]
  BY <1>1, <1>2 DEF Cubes!IsAncestor
<1> QED BY <1>3 DEF IsCell

(* A marked cell is still one of its level, role and component, and covers *)
(* no cell that is not marked.                                             *)
LEMMA MarkIs ==
  ASSUME NEW c, IsCell(c), NEW shifts, AreShifts(shifts)
  PROVE  /\ DOMAIN Mark(c, shifts) = 1..4
         /\ \A dim \in 1..3 : Mark(c, shifts)[dim] = c[dim]
         /\ Mark(c, shifts)[4] = Cubes!Star <=> ~Moves(c, shifts)
         /\ ~Moves(c, shifts) => Mark(c, shifts) = c
         /\ Moves(c, shifts) => \A o : IsCell(o) => ~Cubes!IsAncestor(Mark(c, shifts), o)
<1> DEFINE m == Mark(c, shifts)
<1>1. CASE ~Moves(c, shifts)
  BY <1>1 DEF Mark, IsCell
<1>2. CASE Moves(c, shifts)
  <2>1. PICK band : band = SignedShift(shifts[c[2]])
    OBVIOUS
  <2>2. band \in 1..6 /\ band # Cubes!Star
    BY <1>2, <2>1, DimensionsAre DEF AreShifts, Moves
  <2>3. m = [c EXCEPT ![4] = band]
    BY <1>2, <2>1 DEF Mark
  <2>4. /\ DOMAIN m = 1..4 /\ m[1] = c[1] /\ m[2] = c[2] /\ m[3] = c[3] /\ m[4] = band
    BY <2>3 DEF IsCell
  <2> HIDE DEF m
  <2>5. ASSUME NEW o, IsCell(o) PROVE ~Cubes!IsAncestor(m, o)
    <3>1. 4 \in Cubes!Pinned(m) /\ o[4] = Cubes!Star
      BY <2>2, <2>4, <2>5, DimensionsAre DEF Cubes!Pinned, IsCell
    <3> QED BY <2>2, <2>4, <3>1 DEF Cubes!IsAncestor
  <2>6. \A dim \in 1..3 : m[dim] = c[dim]
    BY <2>4
  <2> QED BY <1>2, <2>2, <2>4, <2>5, <2>6 DEF m
<1> QED BY <1>1, <1>2

(* What a cell covers of marked cells is what it covers without the marks. *)
LEMMA CoveredMarked ==
  ASSUME NEW c, IsCell(c), NEW o, IsCell(o), NEW shifts, AreShifts(shifts)
  PROVE  Cubes!IsAncestor(c, Mark(o, shifts)) <=> Cubes!IsAncestor(c, o)
<1>1. /\ DOMAIN Mark(o, shifts) = 1..4
      /\ \A dim \in 1..3 : Mark(o, shifts)[dim] = o[dim]
  BY MarkIs
<1>2. /\ Mark(o, shifts)[1] = o[1] /\ Mark(o, shifts)[2] = o[2] /\ Mark(o, shifts)[3] = o[3]
  BY <1>1
<1>3. DOMAIN o = 1..4
  BY DEF IsCell
<1> QED BY <1>1, <1>2, <1>3, CoversWhat

(* Two sets of cells and the components that shifted from one to the       *)
(* other: at depth 1 both have a cell of each, at depth 0 neither has.     *)
AreCompared(P, C, shifts) ==
  /\ \A c \in P \cup C : IsCell(c)
  /\ AreShifts(shifts)
  /\ (\E c \in P : Moves(c, shifts)) <=> (\E c \in C : Moves(c, shifts))

(* What is on one side alone: of the marked side, the marked cells too.    *)
LEMMA OneSided ==
  ASSUME NEW P, NEW C, NEW shifts, AreCompared(P, C, shifts)
  PROVE  /\ OnlyIn(P, Marked(C, shifts)) = OnlyIn(P, C)
         /\ {c \in OnlyIn(Marked(C, shifts), P) : c[4] = Cubes!Star}
              = {c \in OnlyIn(C, P) : ~Moves(c, shifts)}
         /\ \A c \in C : Moves(c, shifts) => Mark(c, shifts) \in OnlyIn(Marked(C, shifts), P)
<1> DEFINE D == Marked(C, shifts)
<1>1. D = {Mark(c, shifts) : c \in C}
  BY MarkedAre
<1> HIDE DEF D
<1>2. \A c \in P \cup C : IsCell(c)
  BY DEF AreCompared
<1>3. ASSUME NEW c \in P
      PROVE  (\A o \in D : ~Cubes!IsAncestor(c, o)) <=> \A o \in C : ~Cubes!IsAncestor(c, o)
  <2>1. \A o \in C : Cubes!IsAncestor(c, Mark(o, shifts)) <=> Cubes!IsAncestor(c, o)
    BY <1>2, CoveredMarked DEF AreCompared
  <2> QED BY <1>1, <2>1
<1>4. OnlyIn(P, D) = OnlyIn(P, C)
  BY <1>3 DEF OnlyIn
<1>5. \A c \in C : /\ Mark(c, shifts)[4] = Cubes!Star <=> ~Moves(c, shifts)
                   /\ ~Moves(c, shifts) => Mark(c, shifts) = c
                   /\ Moves(c, shifts) => \A o \in P : ~Cubes!IsAncestor(Mark(c, shifts), o)
  <2>1. AreShifts(shifts)
    BY DEF AreCompared
  <2> QED BY <1>2, <2>1, MarkIs
<1>6. {c \in OnlyIn(D, P) : c[4] = Cubes!Star} = {c \in OnlyIn(C, P) : ~Moves(c, shifts)}
  BY <1>1, <1>5 DEF OnlyIn
<1>7. \A c \in C : Moves(c, shifts) => Mark(c, shifts) \in OnlyIn(D, P)
  BY <1>1, <1>5 DEF OnlyIn
<1> QED BY <1>4, <1>6, <1>7 DEF D

(* The borders of one comparison, of the cells as they lie.                *)
Emerging(P, C, shifts) == OnlyIn(Marked(C, shifts), P)

Vanishing(P, C, shifts) == OnlyIn(P, Marked(C, shifts))

(* A border moves one way when it moves the other.                         *)
LEMMA BordersMoveBothWays ==
  ASSUME NEW P, NEW C, NEW shifts, NEW turned, AreCompared(P, C, shifts),
         AreCompared(C, P, turned), DOMAIN turned = DOMAIN shifts,
         Emerging(P, C, shifts) # {} \/ Vanishing(P, C, shifts) # {}
  PROVE  Emerging(C, P, turned) # {} \/ Vanishing(C, P, turned) # {}
<1>1. \A c : Moves(c, turned) <=> Moves(c, shifts)
  BY DEF Moves
<1>2. CASE \E c \in P : Moves(c, shifts)
  <2>1. PICK c \in P : Moves(c, turned)
    BY <1>1, <1>2
  <2>2. Mark(c, turned) \in Emerging(C, P, turned)
    BY <2>1, OneSided DEF Emerging
  <2> QED BY <2>2
<1>3. CASE ~\E c \in P : Moves(c, shifts)
  <2>1. \A c \in P \cup C : ~Moves(c, shifts) /\ ~Moves(c, turned)
    BY <1>1, <1>3 DEF AreCompared
  <2>2. Marked(C, shifts) = C /\ Marked(P, turned) = P
    BY <2>1, MarkedAre DEF Mark
  <2> QED BY <2>2, OneSided DEF Emerging, Vanishing
<1> QED BY <1>2, <1>3

(* Without a border no component moved, and the cells are the same as far  *)
(* as their components are told apart.                                     *)
LEMMA NoBorderOfTheSame ==
  ASSUME NEW P, NEW C, NEW shifts, AreCompared(P, C, shifts),
         Emerging(P, C, shifts) = {}, Vanishing(P, C, shifts) = {}
  PROVE  /\ \A c \in P \cup C : ~Moves(c, shifts)
         /\ {<<c[1], c[3]>> : c \in P} = {<<c[1], c[3]>> : c \in C}
         /\ {c \in P : c[2] # Cubes!Star} = {c \in C : c[2] # Cubes!Star}
<1>1. \A c \in C : ~Moves(c, shifts)
  BY OneSided DEF Emerging
<1>2. \A c \in P : ~Moves(c, shifts)
  BY <1>1 DEF AreCompared
<1>3. Marked(C, shifts) = C
  BY <1>1, MarkedAre DEF Mark
<1>4. \A c \in P \cup C : IsCell(c) /\ DOMAIN c = 1..4
  BY DEF AreCompared, IsCell
<1>5. ASSUME NEW c \in C
      PROVE  \E o \in P : c[1] = o[1] /\ c[3] = o[3] /\ (c[2] = Cubes!Star \/ c[2] = o[2])
  <2>1. PICK o \in P : Cubes!IsAncestor(c, o)
    BY <1>3 DEF Emerging, OnlyIn
  <2> QED BY <1>4, <2>1, CoversWhat
<1>6. ASSUME NEW c \in P
      PROVE  \E o \in C : c[1] = o[1] /\ c[3] = o[3] /\ (c[2] = Cubes!Star \/ c[2] = o[2])
  <2>1. PICK o \in C : Cubes!IsAncestor(c, o)
    BY <1>3 DEF Vanishing, OnlyIn
  <2> QED BY <1>4, <2>1, CoversWhat
<1>7. \A c, o \in P \cup C : c[1] = o[1] /\ c[2] = o[2] /\ c[3] = o[3] => c = o
  <2> SUFFICES ASSUME NEW c \in P \cup C, NEW o \in P \cup C, c[1] = o[1], c[2] = o[2], c[3] = o[3]
               PROVE  c = o
    OBVIOUS
  <2>1. c \in [1..4 -> Nat] /\ o \in [1..4 -> Nat] /\ c[4] = o[4]
    BY <1>4 DEF IsCell
  <2>2. \A dim \in 1..4 : c[dim] = o[dim]
    <3>1. 1..4 = {1, 2, 3, 4}
      OBVIOUS
    <3> QED BY <2>1, <3>1
  <2> QED BY <2>1, <2>2
<1>8. {<<c[1], c[3]>> : c \in P} = {<<c[1], c[3]>> : c \in C}
  BY <1>5, <1>6
<1>9. {c \in P : c[2] # Cubes!Star} = {c \in C : c[2] # Cubes!Star}
  BY <1>5, <1>6, <1>7
<1> QED BY <1>1, <1>2, <1>8, <1>9

-----------------------------------------------------------------------------
(* Documents compared the other way round *)

LEMMA TemplatesAreMirrored ==
  ASSUME NEW a, NEW b
  PROVE  LET there == TemplateDeltas(a, b)
             back == TemplateDeltas(b, a)
         IN  /\ back = SwapAll(there)
             /\ NewTemplates(back) = VanishedTemplates(there)
             /\ VanishedTemplates(back) = NewTemplates(there)
             /\ Diverges(back, b, a) <=> Diverges(there, a, b)
<1> DEFINE there == TemplateDeltas(a, b)
           back == TemplateDeltas(b, a)
           D == DOMAIN a.top_k \cup DOMAIN b.top_k
<1>1. /\ DOMAIN there = D /\ DOMAIN back = D
      /\ there = [t \in D |-> [previous |-> CountIn(a, t), current |-> CountIn(b, t)]]
      /\ back = [t \in D |-> [previous |-> CountIn(b, t), current |-> CountIn(a, t)]]
  BY DEF TemplateDeltas
<1>2. back = SwapAll(there)
  BY <1>1 DEF SwapAll, Swap
<1>3. \A t \in D : /\ back[t].previous = there[t].current
                   /\ back[t].current = there[t].previous
  BY <1>1
<1> HIDE DEF there, back, D
<1>4. NewTemplates(back) = VanishedTemplates(there) /\ VanishedTemplates(back) = NewTemplates(there)
  BY <1>1, <1>3 DEF NewTemplates, VanishedTemplates
<1>5. Diverges(back, b, a) <=> Diverges(there, a, b)
  BY <1>1, <1>3 DEF Diverges
<1> QED BY <1>2, <1>4, <1>5 DEF there, back

LEMMA BranchingIsMirrored ==
  ASSUME NEW p, NEW q
  PROVE  BranchingDelta(q, p) = SwapAll(BranchingDelta(p, q))
<1> DEFINE D == DOMAIN p[1].branching \cap DOMAIN q[1].branching
           there == [t \in D |-> [previous |-> p[1].branching[t], current |-> q[1].branching[t]]]
           back == [t \in D |-> [previous |-> q[1].branching[t], current |-> p[1].branching[t]]]
<1>1. SwapAll(<< >>) = << >>
  BY DEF SwapAll
<1>2. CASE Absent \in {p, q}
  BY <1>1, <1>2 DEF BranchingDelta
<1>3. CASE Absent \notin {p, q}
  <2>1. BranchingDelta(p, q) =
          IF \A t \in DOMAIN there : there[t].previous = there[t].current THEN << >> ELSE there
    BY <1>3 DEF BranchingDelta
  <2>2. BranchingDelta(q, p) =
          IF \A t \in DOMAIN back : back[t].previous = back[t].current THEN << >> ELSE back
    BY <1>3 DEF BranchingDelta
  <2>3. back = SwapAll(there)
    BY DEF SwapAll, Swap
  <2>4. DOMAIN there = D /\ DOMAIN back = D
    OBVIOUS
  <2>5. \A t \in D : back[t].previous = there[t].current /\ back[t].current = there[t].previous
    OBVIOUS
  <2> HIDE DEF there, back, D
  <2> QED BY <1>1, <2>1, <2>2, <2>3, <2>4, <2>5
<1> QED BY <1>2, <1>3

LEMMA NgramsAreMirrored ==
  ASSUME NEW p, NEW q
  PROVE  /\ NgramDelta(q, p) = (IF NgramDelta(p, q) = Absent THEN Absent
                                ELSE <<MirroredNgrams(NgramDelta(p, q)[1])>>)
         /\ NgramOrderMismatch(q, p) = SwapAny(NgramOrderMismatch(p, q))
<1>1. NgramOrderMismatch(q, p) = SwapAny(NgramOrderMismatch(p, q))
  <2> DEFINE row == [previous |-> p[1].ngram_size, current |-> q[1].ngram_size]
  <2>1. CASE Absent \in {p, q} \/ p[1].ngram_size = q[1].ngram_size
    BY <2>1 DEF NgramOrderMismatch, SwapAny
  <2>2. CASE ~(Absent \in {p, q} \/ p[1].ngram_size = q[1].ngram_size)
    <3>1. NgramOrderMismatch(p, q) = <<row>>
      BY <2>2 DEF NgramOrderMismatch
    <3>2. NgramOrderMismatch(q, p) = <<Swap(row)>>
      BY <2>2 DEF NgramOrderMismatch, Swap
    <3> HIDE DEF row
    <3>3. <<row>> # Absent /\ <<row>>[1] = row
      BY DEF Absent
    <3> QED BY <3>1, <3>2, <3>3 DEF SwapAny
  <2> QED BY <2>1, <2>2
<1> DEFINE P == p[1].top_ngrams
           Q == q[1].top_ngrams
           rates == {s \in DOMAIN P \cap DOMAIN Q : ~SameRatio(P[s].probability, Q[s].probability)}
           there == [new |-> DOMAIN Q \ DOMAIN P, vanished |-> DOMAIN P \ DOMAIN Q,
                     rate_changed |-> rates]
           back == [new |-> DOMAIN P \ DOMAIN Q, vanished |-> DOMAIN Q \ DOMAIN P,
                    rate_changed |-> rates]
           none == Absent \in {p, q} \/ p[1].ngram_size # q[1].ngram_size
<1>2. NgramDelta(p, q) = IF none THEN Absent
                         ELSE IF \A list \in DOMAIN there : there[list] = {} THEN Absent ELSE <<there>>
  BY DEF NgramDelta
<1>3. NgramDelta(q, p) = IF none THEN Absent
                         ELSE IF \A list \in DOMAIN back : back[list] = {} THEN Absent ELSE <<back>>
  <2>1. rates = {s \in DOMAIN Q \cap DOMAIN P : ~SameRatio(Q[s].probability, P[s].probability)}
    BY DEF SameRatio
  <2>2. none <=> Absent \in {q, p} \/ q[1].ngram_size # p[1].ngram_size
    OBVIOUS
  <2> HIDE DEF rates, none
  <2> QED BY <2>1, <2>2 DEF NgramDelta
<1>4. /\ (\A list \in DOMAIN there : there[list] = {}) <=> (\A list \in DOMAIN back : back[list] = {})
      /\ back = MirroredNgrams(there)
  <2> HIDE DEF rates, P, Q
  <2> QED BY DEF MirroredNgrams
<1> HIDE DEF there, back, none
<1>5. <<there>> # Absent /\ <<there>>[1] = there
  BY DEF Absent
<1> QED BY <1>1, <1>2, <1>3, <1>4, <1>5

LEMMA EdgesAreMirrored ==
  ASSUME NEW p, NEW q
  PROVE  ServiceEdgeDelta(q, p) = IF ServiceEdgeDelta(p, q) = Absent THEN Absent
                                  ELSE <<MirroredEdges(ServiceEdgeDelta(p, q)[1])>>
<1> DEFINE P == p[1]
           Q == q[1]
           moved == {e \in DOMAIN P \cap DOMAIN Q : P[e] # Q[e]}
           ahead == [e \in moved |-> [previous |-> P[e], current |-> Q[e]]]
           behind == [e \in moved |-> [previous |-> Q[e], current |-> P[e]]]
           there == [emerged |-> Emerged(P, Q), vanished |-> Emerged(Q, P), weight_changed |-> ahead]
           back == [emerged |-> Emerged(Q, P), vanished |-> Emerged(P, Q), weight_changed |-> behind]
           none == Absent \in {p, q}
<1>1. ServiceEdgeDelta(p, q) =
        IF none THEN Absent
        ELSE IF \A list \in DOMAIN there : there[list] = << >> THEN Absent ELSE <<there>>
  BY DEF ServiceEdgeDelta
<1>2. ServiceEdgeDelta(q, p) =
        IF none THEN Absent
        ELSE IF \A list \in DOMAIN back : back[list] = << >> THEN Absent ELSE <<back>>
  <2>1. moved = {e \in DOMAIN Q \cap DOMAIN P : Q[e] # P[e]}
    OBVIOUS
  <2>2. none <=> Absent \in {q, p}
    OBVIOUS
  <2> HIDE DEF moved, none
  <2> QED BY <2>1, <2>2 DEF ServiceEdgeDelta
<1>3. behind = SwapAll(ahead)
  BY DEF SwapAll, Swap
<1>4. ahead = << >> <=> behind = << >>
  <2>1. DOMAIN ahead = moved /\ DOMAIN behind = moved
    OBVIOUS
  <2>2. moved = {} => ahead = << >> /\ behind = << >>
    <3> HIDE DEF moved
    <3> QED OBVIOUS
  <2> HIDE DEF ahead, behind, moved
  <2>3. DOMAIN << >> = {}
    OBVIOUS
  <2> QED BY <2>1, <2>2, <2>3
<1> HIDE DEF ahead, behind, none, P, Q, moved
<1>5. /\ (\A list \in DOMAIN there : there[list] = << >>)
          <=> (\A list \in DOMAIN back : back[list] = << >>)
      /\ back = MirroredEdges(there)
  BY <1>3, <1>4 DEF MirroredEdges
<1> HIDE DEF there, back
<1>6. <<there>> # Absent /\ <<there>>[1] = there
  BY DEF Absent
<1> QED BY <1>1, <1>2, <1>5, <1>6

LEMMA SpansAreMirrored ==
  ASSUME NEW p, NEW q
  PROVE  SpanEdgeDelta(q, p) = IF SpanEdgeDelta(p, q) = Absent THEN Absent
                               ELSE <<[new |-> SpanEdgeDelta(p, q)[1].vanished,
                                       vanished |-> SpanEdgeDelta(p, q)[1].new]>>
<1> DEFINE there == [new |-> Emerged(p[1], q[1]), vanished |-> Emerged(q[1], p[1])]
           back == [new |-> Emerged(q[1], p[1]), vanished |-> Emerged(p[1], q[1])]
           none == Absent \in {p, q} \/ DOMAIN p[1] = DOMAIN q[1]
<1>1. SpanEdgeDelta(p, q) = IF none THEN Absent ELSE <<there>>
  BY DEF SpanEdgeDelta
<1>2. SpanEdgeDelta(q, p) = IF none THEN Absent ELSE <<back>>
  BY DEF SpanEdgeDelta
<1>3. back = [new |-> there.vanished, vanished |-> there.new]
  OBVIOUS
<1> HIDE DEF there, back, none
<1>4. <<there>> # Absent /\ <<there>>[1] = there
  BY DEF Absent
<1> QED BY <1>1, <1>2, <1>3, <1>4

LEMMA RowsAreMirrored ==
  ASSUME NEW a, NEW b, NEW kind
  PROVE  /\ RowsOfBoth(b, a, kind) = SwapAll(RowsOfBoth(a, b, kind))
         /\ DOMAIN RowsOfBoth(b, a, kind) = DOMAIN RowsOfBoth(a, b, kind)
         /\ \A row \in DOMAIN RowsOfBoth(a, b, kind) :
              /\ RowsOfBoth(b, a, kind)[row].previous = RowsOfBoth(a, b, kind)[row].current
              /\ RowsOfBoth(b, a, kind)[row].current = RowsOfBoth(a, b, kind)[row].previous
<1> DEFINE both == DOMAIN a.top_k \cap DOMAIN b.top_k
           rows == UNION {{<<t, i>> : i \in DOMAIN a.top_k[t][kind] \cap DOMAIN b.top_k[t][kind]} :
                            t \in both}
<1>1. RowsOfBoth(a, b, kind) =
        [row \in rows |-> [previous |-> a.top_k[row[1]][kind][row[2]],
                           current |-> b.top_k[row[1]][kind][row[2]]]]
  BY DEF RowsOfBoth
<1>2. RowsOfBoth(b, a, kind) =
        [row \in rows |-> [previous |-> b.top_k[row[1]][kind][row[2]],
                           current |-> a.top_k[row[1]][kind][row[2]]]]
  <2>1. both = DOMAIN b.top_k \cap DOMAIN a.top_k
    OBVIOUS
  <2>2. \A t : {<<t, i>> : i \in DOMAIN b.top_k[t][kind] \cap DOMAIN a.top_k[t][kind]}
                 = {<<t, i>> : i \in DOMAIN a.top_k[t][kind] \cap DOMAIN b.top_k[t][kind]}
    OBVIOUS
  <2>3. rows = UNION {{<<t, i>> : i \in DOMAIN b.top_k[t][kind] \cap DOMAIN a.top_k[t][kind]} :
                        t \in DOMAIN b.top_k \cap DOMAIN a.top_k}
    <3> HIDE DEF both
    <3> QED BY <2>1, <2>2
  <2> HIDE DEF rows
  <2> QED BY <2>3 DEF RowsOfBoth
<1> HIDE DEF rows
<1> QED BY <1>1, <1>2 DEF SwapAll, Swap

LEMMA FieldsAreMirrored ==
  ASSUME NEW a, NEW b
  PROVE  /\ FieldHistogramDeltas(b, a) = SwapAll(FieldHistogramDeltas(a, b))
         /\ OrdinalHistogramDeltas(b, a) = SwapAll(OrdinalHistogramDeltas(a, b))
BY RowsAreMirrored DEF FieldHistogramDeltas, OrdinalHistogramDeltas

LEMMA ComparisonsAreSymmetric ==
  ASSUME NEW p, NEW q
  PROVE  /\ SameEntropy(p, q) <=> SameEntropy(q, p)
         /\ SameRatio(p, q) <=> SameRatio(q, p)
<1>1. SameEntropy(p, q) <=> SameEntropy(q, p)
  BY DEF SameEntropy
<1>2. SameRatio(p, q) <=> SameRatio(q, p)
  BY DEF SameRatio
<1> QED BY <1>1, <1>2

LEMMA TailIsMirrored ==
  ASSUME NEW p, NEW q
  PROVE  /\ TailDelta(q, p) = SwapAny(TailDelta(p, q))
         /\ TailDelta(q, p) = Absent <=> TailDelta(p, q) = Absent
         /\ TailDelta(p, q) # Absent => (TailMoved(TailDelta(q, p)[1]) <=> TailMoved(TailDelta(p, q)[1]))
<1> DEFINE there == [previous |-> p[1], current |-> q[1]]
           back == [previous |-> q[1], current |-> p[1]]
           none == Absent \in {p, q}
<1>1. TailDelta(p, q) = IF none THEN Absent ELSE <<there>>
  BY DEF TailDelta
<1>2. TailDelta(q, p) = IF none THEN Absent ELSE <<back>>
  BY DEF TailDelta
<1>3. back = Swap(there)
  BY DEF Swap
<1>4. TailMoved(back) <=> TailMoved(there)
  <2>1. there.previous = p[1] /\ there.current = q[1] /\ back.previous = q[1] /\ back.current = p[1]
    OBVIOUS
  <2>2. SameEntropy(p[1].entropy, q[1].entropy) <=> SameEntropy(q[1].entropy, p[1].entropy)
    BY ComparisonsAreSymmetric
  <2>3. SameRatio(p[1].max_rate, q[1].max_rate) <=> SameRatio(q[1].max_rate, p[1].max_rate)
    BY ComparisonsAreSymmetric
  <2> HIDE DEF there, back
  <2> QED BY <2>1, <2>2, <2>3 DEF TailMoved
<1> HIDE DEF there, back, none
<1>5. <<there>> # Absent /\ <<there>>[1] = there /\ <<back>> # Absent /\ <<back>>[1] = back
  BY DEF Absent
<1> QED BY <1>1, <1>2, <1>3, <1>4, <1>5 DEF SwapAny

LEMMA SlotsMoveBothWays ==
  ASSUME NEW there, NEW back, back.previous = there.current, back.current = there.previous
  PROVE  FieldHistogramRowMoved(back) <=> FieldHistogramRowMoved(there)
<1>1. PICK p, q : p = there.previous /\ q = there.current
  OBVIOUS
<1>2. HistogramDiverges(q, p) <=> HistogramDiverges(p, q)
  BY DEF HistogramDiverges
<1>3. SameEntropy(EntropyOfTable(q), EntropyOfTable(p)) <=> SameEntropy(EntropyOfTable(p), EntropyOfTable(q))
  BY ComparisonsAreSymmetric
<1> QED BY <1>1, <1>2, <1>3 DEF FieldHistogramRowMoved

LEMMA CrossingsAreMirrored ==
  ASSUME NEW a, NEW b
  PROVE  LET there == FrontierCrossings(a, b)
         IN  /\ FrontierCrossings(b, a) = MirroredReservoir(ReservoirDelta(a, b)).frontier_crossings
             /\ DOMAIN FrontierCrossings(b, a) = DOMAIN there
<1> DEFINE Fails(doc, t) == LevelIsFailure(Row(doc, t).level)
           S == {t \in Retained(a) \cap Retained(b) : Fails(a, t) # Fails(b, t)}
           there == FrontierCrossings(a, b)
           back == FrontierCrossings(b, a)
<1>1. \A doc, t : Fails(doc, t) \in BOOLEAN
  BY DEF LevelIsFailure
<1>2. there = [t \in S |-> [direction |-> IF Fails(b, t) THEN "Up" ELSE "Down",
                            previous |-> FrontierSide(a, t), current |-> FrontierSide(b, t)]]
  BY DEF FrontierCrossings
<1>3. back = [t \in S |-> [direction |-> IF Fails(a, t) THEN "Up" ELSE "Down",
                           previous |-> FrontierSide(b, t), current |-> FrontierSide(a, t)]]
  <2>1. S = {t \in Retained(b) \cap Retained(a) : Fails(b, t) # Fails(a, t)}
    <3> HIDE DEF Fails
    <3> QED OBVIOUS
  <2> HIDE DEF S
  <2> QED BY <2>1 DEF FrontierCrossings
<1>4. \A t \in S : Fails(a, t) <=> ~Fails(b, t)
  <2>1. \A t \in S : Fails(a, t) # Fails(b, t)
    OBVIOUS
  <2> HIDE DEF Fails, S
  <2> QED BY Zenon, <1>1, <2>1
<1> HIDE DEF Fails, S, there, back
<1>5. \A t \in S : (IF Fails(a, t) THEN "Up" ELSE "Down")
                     = Turned(IF Fails(b, t) THEN "Up" ELSE "Down")
  BY <1>4 DEF Turned
<1>6. DOMAIN there = S /\ DOMAIN back = S
  BY <1>2, <1>3
<1>7. \A t \in S : /\ there[t].direction = (IF Fails(b, t) THEN "Up" ELSE "Down")
                   /\ there[t].previous = FrontierSide(a, t) /\ there[t].current = FrontierSide(b, t)
  BY <1>2
<1>8. back = [t \in S |-> [direction |-> Turned(there[t].direction),
                           previous |-> there[t].current, current |-> there[t].previous]]
  BY <1>3, <1>5, <1>7
<1>9. ReservoirDelta(a, b).frontier_crossings = there
  BY DEF ReservoirDelta, there
<1> QED BY <1>6, <1>8, <1>9 DEF MirroredReservoir, there, back

LEMMA ReservoirIsMirrored ==
  ASSUME NEW a, NEW b
  PROVE  /\ ReservoirDelta(b, a) = MirroredReservoir(ReservoirDelta(a, b))
         /\ (\A list \in DOMAIN ReservoirDelta(b, a) : ReservoirDelta(b, a)[list] = << >>)
              <=> (\A list \in DOMAIN ReservoirDelta(a, b) : ReservoirDelta(a, b)[list] = << >>)
<1>1. PICK x, y, there, back :
        /\ x = NewSalient(a, b) /\ y = NewSalient(b, a)
        /\ there = FrontierCrossings(a, b) /\ back = FrontierCrossings(b, a)
  OBVIOUS
<1>2. /\ ReservoirDelta(a, b) = [new_salient |-> x, vanished_salient |-> y, frontier_crossings |-> there]
      /\ ReservoirDelta(b, a) = [new_salient |-> y, vanished_salient |-> x, frontier_crossings |-> back]
  BY <1>1 DEF ReservoirDelta
<1>3. /\ back = MirroredReservoir(ReservoirDelta(a, b)).frontier_crossings
      /\ DOMAIN back = DOMAIN there
  BY <1>1, CrossingsAreMirrored
<1>4. ReservoirDelta(b, a) = MirroredReservoir(ReservoirDelta(a, b))
  BY <1>2, <1>3 DEF MirroredReservoir
<1>5. back = << >> <=> there = << >>
  <2>1. DOMAIN << >> = {}
    OBVIOUS
  <2>2. \A p, q : DOMAIN FrontierCrossings(p, q) = {} => FrontierCrossings(p, q) = << >>
    <3> SUFFICES ASSUME NEW p, NEW q, DOMAIN FrontierCrossings(p, q) = {}
                 PROVE  FrontierCrossings(p, q) = << >>
      OBVIOUS
    <3>1. {t \in Retained(p) \cap Retained(q) :
             LevelIsFailure(Row(p, t).level) # LevelIsFailure(Row(q, t).level)} = {}
      BY DEF FrontierCrossings
    <3> QED BY <3>1 DEF FrontierCrossings
  <2> QED BY <1>1, <1>3, <2>1, <2>2
<1>6. (\A list \in DOMAIN ReservoirDelta(b, a) : ReservoirDelta(b, a)[list] = << >>)
        <=> (\A list \in DOMAIN ReservoirDelta(a, b) : ReservoirDelta(a, b)[list] = << >>)
  BY <1>2, <1>5
<1> QED BY <1>4, <1>6

LEMMA SumOfNegated ==
  ASSUME NEW f, NEW g, NEW S, IsFiniteSet(S), \A x \in S : f[x] \in Int, \A x \in S : g[x] = -f[x]
  PROVE  SumFunctionOnSet(f, S) \in Int /\ SumFunctionOnSet(g, S) = -SumFunctionOnSet(f, S)
<1> DEFINE P == {T \in SUBSET S : /\ SumFunctionOnSet(f, T) \in Int
                                  /\ SumFunctionOnSet(g, T) = -SumFunctionOnSet(f, T)}
           N == {n \in Nat : \A T \in SUBSET S : Cardinality(T) = n => T \in P}
<1>1. \A T \in SUBSET S : IsFiniteSet(T) /\ Cardinality(T) \in Nat
  BY FS_Subset, FS_CardinalityType
<1>2. 0 \in N
  <2> SUFFICES ASSUME NEW T \in SUBSET S, Cardinality(T) = 0 PROVE T \in P
    OBVIOUS
  <2>1. T = {}
    BY <1>1, FS_EmptySet
  <2> QED BY <2>1, SumEmpty
<1>3. ASSUME NEW n \in Nat, n \in N PROVE n + 1 \in N
  <2> SUFFICES ASSUME NEW T \in SUBSET S, Cardinality(T) = n + 1 PROVE T \in P
    BY <1>3
  <2>1. T # {} /\ IsFiniteSet(T)
    BY <1>1, FS_EmptySet
  <2>2. /\ SumFunctionOnSet(f, T) = f[One(T)] + SumFunctionOnSet(f, T \ {One(T)})
        /\ SumFunctionOnSet(g, T) = g[One(T)] + SumFunctionOnSet(g, T \ {One(T)})
    BY <2>1, SumUnfold
  <2>3. One(T) \in T
    BY <2>1, AnyIsElement
  <2>4. T \ {One(T)} \in SUBSET S /\ Cardinality(T \ {One(T)}) = n
    BY <2>1, <2>3, WithoutAny
  <2>5. T \ {One(T)} \in P
    BY <1>3, <2>4
  <2>6. f[One(T)] \in Int /\ g[One(T)] = -f[One(T)]
    BY <2>3
  <2> QED BY <2>2, <2>5, <2>6
<1>4. Cardinality(S) \in N
  <2> HIDE DEF N
  <2> QED BY <1>1, <1>2, <1>3, SetInduction
<1> QED BY <1>4

AreCounts(counts) ==
  IsFiniteSet(DOMAIN counts) /\ \A bin \in DOMAIN counts : counts[bin] \in Nat

LEMMA TermsAreNegated ==
  ASSUME NEW p, NEW q, AreCounts(p), AreCounts(q), NEW m \in Nat, NEW n \in Nat, NEW bin
  PROVE  /\ SignedTerm(p, q, m, n, bin) \in Int
         /\ SignedTerm(q, p, n, m, bin) = -SignedTerm(p, q, m, n, bin)
<1>1. ASSUME NEW counts, AreCounts(counts) PROVE Cumulative(counts, bin) \in Nat
  <2> DEFINE S == {b \in DOMAIN counts : b <= bin}
  <2>1. IsFiniteSet(S) /\ \A b \in S : counts[b] \in Nat
    BY <1>1, FS_Subset DEF AreCounts
  <2> HIDE DEF S
  <2>2. SumFunctionOnSet(counts, S) \in Nat
    BY <2>1, SumIsNat
  <2> QED BY <2>2 DEF Cumulative, S
<1>2. PICK x, y : x = Cumulative(p, bin) /\ y = Cumulative(q, bin)
  OBVIOUS
<1>3. x \in Nat /\ y \in Nat
  BY <1>1, <1>2
<1>4. SignedTerm(p, q, m, n, bin) = y * m - x * n /\ SignedTerm(q, p, n, m, bin) = x * n - y * m
  BY <1>2 DEF SignedTerm
<1>5. x * n \in Int /\ y * m \in Int
  BY <1>3
<1> QED BY <1>4, <1>5

(* The drift of two distributions read the other way round: as far, and    *)
(* the other way.                                                          *)
LEMMA DriftIsTurned ==
  ASSUME NEW p, NEW q, AreCounts(p), AreCounts(q), NEW m \in Nat, NEW n \in Nat
  PROVE  LET there == OrdinalW1(p, q, m, n)
             back == OrdinalW1(q, p, n, m)
         IN  /\ back.shift = there.shift
             /\ there.direction = "None" <=> back.direction = "None"
             /\ there.direction # "None" => back.direction = Turned(there.direction)
<1> DEFINE D == DOMAIN p \cap DOMAIN q
           f == [bin \in D |-> SignedTerm(p, q, m, n, bin)]
           g == [bin \in D |-> SignedTerm(q, p, n, m, bin)]
           F == SumFunction([bin \in D |-> Magnitude(f[bin])])
           G == SumFunction([bin \in D |-> Magnitude(g[bin])])
<1>1. \A bin \in D : f[bin] \in Int /\ g[bin] = -f[bin]
  BY TermsAreNegated
<1>2. DOMAIN f = D /\ DOMAIN g = D /\ IsFiniteSet(D)
  BY FS_Subset DEF AreCounts
<1>3. SumFunction(f) \in Int /\ SumFunction(g) = -SumFunction(f)
  <2> HIDE DEF f, g, D
  <2>1. \A bin \in D : f[bin] \in Int
    BY <1>1
  <2>2. \A bin \in D : g[bin] = -f[bin]
    BY <1>1
  <2> QED BY <1>2, <2>1, <2>2, SumOfNegated DEF SumFunction
<1>4. F = G
  <2> HIDE DEF f, g, D
  <2>1. \A bin \in D : Magnitude(f[bin]) = Magnitude(g[bin])
    BY <1>1 DEF Magnitude
  <2>2. [bin \in D |-> Magnitude(f[bin])] = [bin \in D |-> Magnitude(g[bin])]
    BY <2>1
  <2> QED BY <2>2
<1> DEFINE Far(num, den) == F * den >= num * m * n
           Band == IF Far(5, 1) THEN "High" ELSE IF Far(2, 1) THEN "Med"
                   ELSE IF Far(1, 2) THEN "Low" ELSE "None"
           Way(s) == IF s < 0 THEN "Up" ELSE IF s > 0 THEN "Down" ELSE "None"
<1>5. OrdinalW1(p, q, m, n) = IF 0 \in {m, n} THEN NoDrift
                              ELSE [shift |-> Band, direction |-> Way(SumFunction(f))]
  BY <1>2 DEF OrdinalW1
<1>6. OrdinalW1(q, p, n, m) = IF 0 \in {n, m} THEN NoDrift
                              ELSE [shift |-> Band, direction |-> Way(SumFunction(g))]
  <2>1. D = DOMAIN q \cap DOMAIN p
    OBVIOUS
  <2> DEFINE FarBack(num, den) == G * den >= num * n * m
  <2>2. OrdinalW1(q, p, n, m) = IF 0 \in {n, m} THEN NoDrift
          ELSE [shift |-> IF FarBack(5, 1) THEN "High" ELSE IF FarBack(2, 1) THEN "Med"
                          ELSE IF FarBack(1, 2) THEN "Low" ELSE "None",
                direction |-> Way(SumFunction(g))]
    <3> HIDE DEF D
    <3> QED BY <1>2, <2>1 DEF OrdinalW1, g
  <2>3. 5 * n * m = 5 * m * n /\ 2 * n * m = 2 * m * n /\ 1 * n * m = 1 * m * n
    OBVIOUS
  <2> HIDE DEF F, G, Way
  <2> QED BY <1>4, <2>2, <2>3
<1>7. /\ Way(SumFunction(f)) = "None" <=> Way(SumFunction(g)) = "None"
      /\ Way(SumFunction(f)) # "None" => Way(SumFunction(g)) = Turned(Way(SumFunction(f)))
  <2> HIDE DEF f, g
  <2> QED BY <1>3 DEF Turned
<1> HIDE DEF f, g, Band, Way
<1> QED BY <1>5, <1>6, <1>7 DEF NoDrift

LEMMA UnionIsFinite ==
  ASSUME NEW S, IsFiniteSet(S), NEW f, \A x \in S : IsFiniteSet(f[x])
  PROVE  IsFiniteSet(UNION {f[x] : x \in S})
<1> DEFINE images == {f[x] : x \in S}
<1>1. IsFiniteSet(images)
  BY ImageCount
<1>2. \A y \in images : IsFiniteSet(y)
  OBVIOUS
<1> HIDE DEF images
<1>3. IsFiniteSet(UNION images)
  BY <1>1, <1>2, FS_UNION
<1> QED BY <1>3 DEF images

LEMMA DurationRowsAreFinite ==
  ASSUME NEW doc, HasRows(doc), NEW c
  PROVE  IsFiniteSet(DurationRows(doc, c))
<1> DEFINE U == {u \in DOMAIN doc.top_k : doc.top_k[u].component = <<c>>}
           Fields(t) == {f \in DOMAIN doc.top_k[t].ordinals :
                           doc.top_k[t].ordinals[f].schedule = DurationSchedule}
           F == [t \in U |-> {<<t, field>> : field \in Fields(t)}]
<1>1. IsFiniteSet(U)
  <2>1. U \subseteq Retained(doc) /\ IsFiniteSet(Retained(doc))
    BY DEF HasRows, Retained
  <2> QED BY <2>1, FS_Subset
<1>2. ASSUME NEW t \in U PROVE IsFiniteSet(F[t])
  <2>1. IsFiniteSet(Fields(t))
    <3>1. IsFiniteSet(DOMAIN doc.top_k[t].ordinals)
      BY DEF HasRows, IsTopRow, AreOrdinals
    <3>2. Fields(t) \subseteq DOMAIN doc.top_k[t].ordinals
      OBVIOUS
    <3> HIDE DEF Fields
    <3> QED BY <3>1, <3>2, FS_Subset
  <2> HIDE DEF U, Fields
  <2> DEFINE pair == [field \in Fields(t) |-> <<t, field>>]
  <2>2. IsFiniteSet({pair[field] : field \in Fields(t)})
    <3> HIDE DEF pair
    <3> QED BY <2>1, ImageCount
  <2>3. F[t] = {pair[field] : field \in Fields(t)}
    OBVIOUS
  <2> QED BY <2>2, <2>3
<1>3. DurationRows(doc, c) = UNION {F[t] : t \in U}
  <2>1. DurationRows(doc, c) = UNION {{<<t, field>> : field \in Fields(t)} : t \in U}
    BY DEF DurationRows
  <2> HIDE DEF U, Fields
  <2>2. {F[t] : t \in U} = {{<<t, field>> : field \in Fields(t)} : t \in U}
    OBVIOUS
  <2> QED BY <2>1, <2>2
<1> HIDE DEF F, U
<1>4. IsFiniteSet(UNION {F[t] : t \in U})
  BY <1>1, <1>2, UnionIsFinite
<1> QED BY <1>3, <1>4

LEMMA DurationsAreCounts ==
  ASSUME NEW doc, HasRows(doc), NEW c
  PROVE  /\ AreCounts(AggregateDuration(doc, c).counts)
         /\ AggregateDuration(doc, c).total \in Nat
<1> DEFINE Of(row) == doc.top_k[row[1]].ordinals[row[2]]
           rows == DurationRows(doc, c)
           bins == [row \in rows |-> DOMAIN Of(row).counts]
           all == UNION {bins[row] : row \in rows}
           Here(bin) == {r \in rows : bin \in DOMAIN Of(r).counts}
           counts == [bin \in all |-> SumFunction([row \in Here(bin) |-> Of(row).counts[bin]])]
<1>1. IsFiniteSet(rows)
  BY DurationRowsAreFinite
<1>2. ASSUME NEW row \in rows
      PROVE  /\ Of(row).total \in Nat /\ IsFiniteSet(DOMAIN Of(row).counts)
             /\ \A bin \in DOMAIN Of(row).counts : Of(row).counts[bin] \in Nat
  <2>1. PICK t \in DOMAIN doc.top_k : \E f \in DOMAIN doc.top_k[t].ordinals : row = <<t, f>>
    BY DEF DurationRows
  <2>2. PICK f \in DOMAIN doc.top_k[t].ordinals : row = <<t, f>>
    BY <2>1
  <2>3. Of(row) = doc.top_k[t].ordinals[f]
    BY <2>2
  <2>4. AreOrdinals(doc.top_k[t].ordinals)
    BY <2>1 DEF HasRows, IsTopRow
  <2> HIDE DEF Of, rows
  <2> QED BY <2>2, <2>3, <2>4 DEF AreOrdinals
<1>3. /\ AggregateDuration(doc, c).counts = counts
      /\ AggregateDuration(doc, c).total = SumFunction([row \in rows |-> Of(row).total])
  <2>1. all = UNION {DOMAIN Of(row).counts : row \in rows}
    OBVIOUS
  <2> HIDE DEF all
  <2> QED BY <2>1 DEF AggregateDuration
<1> HIDE DEF rows, Of
<1>4. IsFiniteSet(all)
  <2>1. \A row \in rows : IsFiniteSet(bins[row])
    BY <1>2
  <2> HIDE DEF bins
  <2> QED BY <1>1, <2>1, UnionIsFinite
<1> HIDE DEF all
<1>5. ASSUME NEW bin \in all PROVE counts[bin] \in Nat
  <2> DEFINE f == [row \in Here(bin) |-> Of(row).counts[bin]]
  <2>1. IsFiniteSet(Here(bin))
    BY <1>1, FS_Subset
  <2>2. \A row \in Here(bin) : f[row] \in Nat
    BY <1>2
  <2>3. DOMAIN f = Here(bin) /\ counts[bin] = SumFunction(f)
    OBVIOUS
  <2> HIDE DEF f, Here
  <2> QED BY <2>1, <2>2, <2>3, SumIsNat DEF SumFunction
<1>6. SumFunction([row \in rows |-> Of(row).total]) \in Nat
  <2> DEFINE f == [row \in rows |-> Of(row).total]
  <2>1. DOMAIN f = rows /\ \A row \in rows : f[row] \in Nat
    BY <1>2
  <2> HIDE DEF f
  <2>2. SumFunction(f) \in Nat
    BY <1>1, <2>1, SumIsNat DEF SumFunction
  <2> QED BY <2>2 DEF f
<1>7. DOMAIN counts = all
  OBVIOUS
<1> HIDE DEF counts
<1> QED BY <1>3, <1>4, <1>5, <1>6, <1>7 DEF AreCounts

(* The components whose durations moved, read the other way round.         *)
LEMMA ShiftsAreMirrored ==
  ASSUME NEW a, NEW b, HasRows(a), HasRows(b)
  PROVE  ComponentLatencyShifts(b, a) = MirroredShifts(ComponentLatencyShifts(a, b))
<1> DEFINE A(c) == AggregateDuration(a, c)
           B(c) == AggregateDuration(b, c)
           both == {c \in Components(a) \cap Components(b) :
                      {} \notin {DurationRows(a, c), DurationRows(b, c)}}
           There(c) == IF Min({A(c).total, B(c).total}) < ShiftSampleFloor THEN NoDrift
                       ELSE OrdinalW1(A(c).counts, B(c).counts, A(c).total, B(c).total)
           Back(c) == IF Min({B(c).total, A(c).total}) < ShiftSampleFloor THEN NoDrift
                      ELSE OrdinalW1(B(c).counts, A(c).counts, B(c).total, A(c).total)
           there == [c \in both |-> There(c)]
           back == [c \in both |-> Back(c)]
           S == {c \in both : there[c].shift # "None" /\ there[c].direction # "None"}
           R == {c \in both : back[c].shift # "None" /\ back[c].direction # "None"}
<1>1. ComponentLatencyShifts(a, b) = Restrict(there, S)
  BY DEF ComponentLatencyShifts
<1>2. ComponentLatencyShifts(b, a) = Restrict(back, R)
  <2>1. both = {c \in Components(b) \cap Components(a) :
                  {} \notin {DurationRows(b, c), DurationRows(a, c)}}
    OBVIOUS
  <2> HIDE DEF both
  <2> QED BY <2>1 DEF ComponentLatencyShifts
<1>3. ASSUME NEW c
      PROVE  /\ Back(c).shift = There(c).shift
             /\ There(c).direction = "None" <=> Back(c).direction = "None"
             /\ There(c).direction # "None" => Back(c).direction = Turned(There(c).direction)
             /\ Back(c) = [shift |-> Back(c).shift, direction |-> Back(c).direction]
  <2>1. /\ AreCounts(A(c).counts) /\ A(c).total \in Nat
        /\ AreCounts(B(c).counts) /\ B(c).total \in Nat
    BY DurationsAreCounts
  <2> HIDE DEF A, B
  <2>2. {A(c).total, B(c).total} = {B(c).total, A(c).total}
    OBVIOUS
  <2>3. CASE Min({A(c).total, B(c).total}) < ShiftSampleFloor
    BY <2>2, <2>3 DEF NoDrift
  <2>4. CASE ~(Min({A(c).total, B(c).total}) < ShiftSampleFloor)
    <3>1. /\ There(c) = OrdinalW1(A(c).counts, B(c).counts, A(c).total, B(c).total)
          /\ Back(c) = OrdinalW1(B(c).counts, A(c).counts, B(c).total, A(c).total)
      BY <2>2, <2>4
    <3>2. \A p, q, m, n : OrdinalW1(p, q, m, n) = [shift |-> OrdinalW1(p, q, m, n).shift,
                                                  direction |-> OrdinalW1(p, q, m, n).direction]
      BY DEF OrdinalW1, NoDrift
    <3> HIDE DEF There, Back
    <3> QED BY <2>1, <3>1, <3>2, DriftIsTurned
  <2> QED BY <2>3, <2>4
<1> HIDE DEF A, B, There, Back, both
<1>4. \A c \in both : there[c] = There(c) /\ back[c] = Back(c)
  OBVIOUS
<1>5. DOMAIN there = both /\ DOMAIN back = both
  OBVIOUS
<1> HIDE DEF there, back
<1>6. S = R
  BY <1>3, <1>4
<1>7. \A c \in S : back[c] = [shift |-> there[c].shift, direction |-> Turned(there[c].direction)]
  BY <1>3, <1>4
<1>8. S \subseteq both
  OBVIOUS
<1> HIDE DEF S, R
<1>9. Restrict(there, S) = [c \in S |-> there[c]] /\ Restrict(back, R) = [c \in S |-> back[c]]
  BY <1>5, <1>6, <1>8 DEF Restrict
<1> QED BY <1>1, <1>2, <1>7, <1>9 DEF MirroredShifts

-----------------------------------------------------------------------------
(* The cubes compared *)

LEMMA RowsAreCells ==
  ASSUME NEW r \in Rows
  PROVE  r \in [1..4 -> Nat] /\ r[1] \in 0..Unknown /\ r[3] # Cubes!Star /\ r[4] = Cubes!Star
<1>1. PICK w \in Windows : r \in w.joint
  BY DEF Rows
<1>2. IsJointOf(w.joint, w.buckets)
  BY LadderAssumption DEF IsWindow
<1> QED BY <1>1, <1>2, DimensionsAre DEF IsJointOf

LEMMA CollapsedIsACell ==
  ASSUME NEW r \in Rows, NEW s \in CollapseStates
  PROVE  /\ IsCell(Cubes!CollapseCell(r, s))
         /\ Cubes!CollapseCell(r, s)[2] = IF s.depth < 1 THEN Cubes!Star ELSE r[2]
<1> DEFINE d == Cubes!CollapseCell(r, s)
           level == IF r[1] < s.floor THEN s.floor - 1 ELSE r[1]
           where == IF s.depth < 1 THEN Cubes!Star ELSE r[2]
<1>1. r \in [1..4 -> Nat] /\ r[1] \in 0..6 /\ r[3] # Cubes!Star /\ r[4] = Cubes!Star
  BY RowsAreCells DEF Unknown
<1>2. s.floor \in 0..4 /\ s.depth \in {0, 1}
  BY DEF CollapseStates, Cubes!MaxLevelBandFloor, Cubes!Error
<1>3. d = [r EXCEPT ![1] = level, ![2] = where]
  BY DimensionsAre DEF Cubes!CollapseCell
<1>4. level \in 0..6 /\ level # Cubes!Star
  BY <1>1, <1>2, DimensionsAre
<1>5. where \in Nat
  BY <1>1, <1>2, DimensionsAre
<1>6. d \in [1..4 -> Nat] /\ d[1] = level /\ d[2] = where /\ d[3] = r[3] /\ d[4] = r[4]
  <2> HIDE DEF level, where, d
  <2> QED BY <1>1, <1>3, <1>4, <1>5
<1> HIDE DEF d, level
<1>7. IsCell(d)
  BY <1>1, <1>4, <1>6 DEF IsCell
<1> QED BY <1>6, <1>7 DEF d

(* The cells of a carried cube, at any state.                              *)
LEMMA CellsAreCells ==
  ASSUME NEW cube \in Cubed, NEW s \in CollapseStates
  PROVE  /\ \A c \in CellsAt(cube, s) : IsCell(c) /\ (s.depth < 1 => c[2] = Cubes!Star)
         /\ s.depth >= 1 => \A r \in cube.rows : \E c \in CellsAt(cube, s) : c[2] = r[2]
<1>1. CellsAt(cube, s) = {Cubes!CollapseCell(r, s) : r \in cube.rows}
  BY DEF CellsAt
<1>2. cube.rows \subseteq Rows
  BY DEF Cubed
<1>3. s.depth \in {0, 1}
  BY DEF CollapseStates
<1>4. \A r \in cube.rows : /\ IsCell(Cubes!CollapseCell(r, s))
                           /\ Cubes!CollapseCell(r, s)[2] = IF s.depth < 1 THEN Cubes!Star ELSE r[2]
  BY <1>2, CollapsedIsACell
<1> QED BY <1>1, <1>3, <1>4

LEMMA DurationsAreLocated ==
  ASSUME NEW doc, IsDocument(doc), NEW label, DurationRows(doc, label) # {}
  PROVE  /\ label # Cubes!Star
         /\ doc.cube # Absent => \E r \in doc.cube[1].rows : r[2] = label
<1>1. PICK t \in DOMAIN doc.top_k : /\ doc.top_k[t].component = <<label>>
                                    /\ \E f : f \in DOMAIN doc.top_k[t].ordinals
  BY DEF DurationRows
<1>2. doc.top_k[t].ordinals # << >>
  BY <1>1
<1> QED BY <1>1, <1>2, DimensionsAre DEF IsDocument, IsLocated

LEMMA ShiftsAreOfBoth ==
  ASSUME NEW a, NEW b, NEW label \in DOMAIN ComponentLatencyShifts(a, b)
  PROVE  /\ DurationRows(a, label) # {} /\ DurationRows(b, label) # {}
         /\ ComponentLatencyShifts(a, b)[label].shift \in {"Low", "Med", "High"}
<1> DEFINE both == {c \in Components(a) \cap Components(b) :
                      {} \notin {DurationRows(a, c), DurationRows(b, c)}}
           Drift(c) == IF Min({AggregateDuration(a, c).total, AggregateDuration(b, c).total})
                            < ShiftSampleFloor
                         THEN NoDrift
                       ELSE OrdinalW1(AggregateDuration(a, c).counts, AggregateDuration(b, c).counts,
                                      AggregateDuration(a, c).total, AggregateDuration(b, c).total)
           drift == [c \in both |-> Drift(c)]
           S == {c \in both : drift[c].shift # "None" /\ drift[c].direction # "None"}
<1>1. ComponentLatencyShifts(a, b) = Restrict(drift, S)
  BY DEF ComponentLatencyShifts
<1>2. \A c \in both : drift[c] = Drift(c)
  OBVIOUS
<1>3. \A c : Drift(c).shift \in {"None", "Low", "Med", "High"}
  <2>1. \A p, q, m, n : OrdinalW1(p, q, m, n).shift \in {"None", "Low", "Med", "High"}
    BY DEF OrdinalW1, NoDrift
  <2>2. NoDrift.shift = "None"
    BY DEF NoDrift
  <2> QED BY <2>1, <2>2
<1> HIDE DEF Drift, drift
<1>4. label \in S /\ ComponentLatencyShifts(a, b)[label] = drift[label]
  BY <1>1 DEF Restrict
<1>5. label \in both /\ drift[label].shift # "None"
  BY <1>4
<1> QED BY <1>2, <1>3, <1>4, <1>5

LEMMA ShiftsAreShifts ==
  ASSUME NEW a, NEW b
  PROVE  AreShifts(ComponentLatencyShifts(a, b))
<1> SUFFICES ASSUME NEW label \in DOMAIN ComponentLatencyShifts(a, b)
             PROVE  SignedShift(ComponentLatencyShifts(a, b)[label]) \in 1..6
  BY DEF AreShifts
<1>1. PICK drift : drift = ComponentLatencyShifts(a, b)[label]
  OBVIOUS
<1>2. drift.shift \in {"Low", "Med", "High"}
  BY <1>1, ShiftsAreOfBoth
<1>3. [Low |-> 1, Med |-> 2, High |-> 3][drift.shift] \in 1..3
  BY <1>2
<1>4. SignedShift(drift) \in 1..6
  BY <1>3 DEF SignedShift
<1> QED BY <1>1, <1>4

(* What a cube diff is of: the cells of both at the coarser state, and the *)
(* components that shifted.                                                *)
StateOf(a, b) == Cubes!MinCommonCollapse(a.cube[1].state, b.cube[1].state)

CubeOf(doc, s) == CellsAt(doc.cube[1], s)

LEMMA CubeDiffIs ==
  ASSUME NEW a, NEW b, BothCarryCubes(a, b)
  PROVE  LET delta == Difference(a, b).cube_diff
             P == CubeOf(a, StateOf(a, b))
             C == CubeOf(b, StateOf(a, b))
             shifts == ComponentLatencyShifts(a, b)
         IN  /\ delta # Absent
             /\ delta[1].state = StateOf(a, b) /\ delta[1].shifts = shifts
             /\ delta[1].emerging = Emerging(P, C, shifts)
             /\ delta[1].vanishing = Vanishing(P, C, shifts)
<1> DEFINE shifts == ComponentLatencyShifts(a, b)
<1>1. Difference(a, b).cube_diff = <<CubeDiff(a.cube[1], b.cube[1], shifts)>>
  BY DEF Difference
<1>2. \A x : <<x>> # Absent /\ <<x>>[1] = x
  BY DEF Absent
<1> HIDE DEF shifts
<1>3. CubeDiff(a.cube[1], b.cube[1], shifts) =
        [state |-> StateOf(a, b), shifts |-> shifts,
         emerging |-> Emerging(CubeOf(a, StateOf(a, b)), CubeOf(b, StateOf(a, b)), shifts),
         vanishing |-> Vanishing(CubeOf(a, StateOf(a, b)), CubeOf(b, StateOf(a, b)), shifts)]
  BY DEF CubeDiff, StateOf, CubeOf, Emerging, Vanishing
<1> QED BY <1>1, <1>2, <1>3 DEF shifts

LEMMA CubesAreCompared ==
  ASSUME NEW a, NEW b, IsDocument(a), IsDocument(b), BothCarryCubes(a, b)
  PROVE  LET s == StateOf(a, b)
             shifts == ComponentLatencyShifts(a, b)
         IN  /\ s \in CollapseStates /\ s = StateOf(b, a)
             /\ AreCompared(CubeOf(a, s), CubeOf(b, s), shifts)
             /\ s.depth > 0 /\ (\A c \in CubeOf(b, s) : ~Moves(c, shifts)) => DOMAIN shifts = {}
<1> DEFINE s == StateOf(a, b)
           shifts == ComponentLatencyShifts(a, b)
<1>1. \A doc \in {a, b} : doc.cube # Absent /\ doc.cube[1] \in Cubed
  BY DEF IsDocument, HasFrame, BothCarryCubes, Optional
<1>2. a.cube[1].state \in CollapseStates /\ b.cube[1].state \in CollapseStates
  BY <1>1 DEF Cubed
<1>3. s \in CollapseStates /\ s = StateOf(b, a)
  BY <1>2, CommonIsAState DEF StateOf
<1> HIDE DEF s, shifts
<1>4. s.depth \in {0, 1}
  BY <1>3 DEF CollapseStates
<1>5. AreShifts(shifts)
  BY ShiftsAreShifts DEF shifts
<1>6. \A label \in DOMAIN shifts :
        /\ label # Cubes!Star
        /\ \A doc \in {a, b} : \E r \in doc.cube[1].rows : r[2] = label
  BY <1>1, ShiftsAreOfBoth, DurationsAreLocated DEF shifts
<1>7. ASSUME NEW doc \in {a, b}
      PROVE  /\ \A c \in CubeOf(doc, s) : IsCell(c) /\ (s.depth < 1 => c[2] = Cubes!Star)
             /\ s.depth >= 1 => \A r \in doc.cube[1].rows : \E c \in CubeOf(doc, s) : c[2] = r[2]
  BY <1>1, <1>3, CellsAreCells DEF CubeOf
<1>8. ASSUME NEW doc \in {a, b}
      PROVE  (\E c \in CubeOf(doc, s) : Moves(c, shifts)) <=> (s.depth >= 1 /\ DOMAIN shifts # {})
  <2>1. CASE s.depth < 1
    BY <1>4, <1>6, <1>7, <2>1 DEF Moves
  <2>2. CASE s.depth >= 1 /\ DOMAIN shifts # {}
    <3>1. PICK label : label \in DOMAIN shifts
      BY <2>2
    <3>2. PICK c \in CubeOf(doc, s) : c[2] = label
      BY <1>6, <1>7, <2>2, <3>1
    <3> QED BY <2>2, <3>1, <3>2 DEF Moves
  <2>3. CASE s.depth >= 1 /\ DOMAIN shifts = {}
    BY <2>3 DEF Moves
  <2> QED BY <1>4, <2>1, <2>2, <2>3
<1>9. AreCompared(CubeOf(a, s), CubeOf(b, s), shifts)
  BY <1>5, <1>7, <1>8 DEF AreCompared
<1>10. s.depth > 0 /\ (\A c \in CubeOf(b, s) : ~Moves(c, shifts)) => DOMAIN shifts = {}
  <2> SUFFICES ASSUME s.depth > 0, \A c \in CubeOf(b, s) : ~Moves(c, shifts)
               PROVE  DOMAIN shifts = {}
    OBVIOUS
  <2>1. (\E c \in CubeOf(b, s) : Moves(c, shifts)) <=> (s.depth >= 1 /\ DOMAIN shifts # {})
    BY <1>8
  <2>2. s.depth >= 1
    BY <1>4
  <2>3. ~(\E c \in CubeOf(b, s) : Moves(c, shifts))
    OBVIOUS
  <2> QED BY ONLY <2>1, <2>2, <2>3
<1> QED BY <1>3, <1>9, <1>10 DEF s, shifts

(* The cubes read the other way round: an unshifted cell that emerged      *)
(* vanishes, and a border one way is a border the other.                   *)
LEMMA CubesAreMirrored ==
  ASSUME NEW a, NEW b, IsDocument(a), IsDocument(b), BothCarryCubes(a, b)
  PROVE  LET there == Difference(a, b).cube_diff
             back == Difference(b, a).cube_diff
         IN  /\ CubesMirrored(there, back)
             /\ CubeMoved(there[1]) <=> CubeMoved(back[1])
<1> DEFINE there == Difference(a, b).cube_diff
           back == Difference(b, a).cube_diff
           s == StateOf(a, b)
           P == CubeOf(a, s)
           C == CubeOf(b, s)
           shifts == ComponentLatencyShifts(a, b)
           turned == ComponentLatencyShifts(b, a)
<1>1. BothCarryCubes(b, a)
  BY DEF BothCarryCubes
<1>2. /\ StateOf(b, a) = s
      /\ AreCompared(P, C, shifts) /\ AreCompared(C, P, turned)
  BY <1>1, CubesAreCompared
<1>3. /\ there # Absent /\ there[1].state = s /\ there[1].shifts = shifts
      /\ there[1].emerging = Emerging(P, C, shifts) /\ there[1].vanishing = Vanishing(P, C, shifts)
  BY CubeDiffIs
<1>4. /\ back # Absent /\ back[1].state = s /\ back[1].shifts = turned
      /\ back[1].emerging = Emerging(C, P, turned) /\ back[1].vanishing = Vanishing(C, P, turned)
  BY <1>1, <1>2, CubeDiffIs
<1>5. turned = MirroredShifts(shifts)
  BY ShiftsAreMirrored DEF IsDocument
<1> HIDE DEF there, back, s, P, C, shifts, turned
<1>6. DOMAIN turned = DOMAIN shifts
  BY <1>5 DEF MirroredShifts
<1>7. \A c : Moves(c, turned) <=> Moves(c, shifts)
  BY <1>6 DEF Moves
<1>8. EmergedIsVanished(there[1], back[1])
  <2>1. {c \in Emerging(P, C, shifts) : c[4] = Cubes!Star} = {c \in OnlyIn(C, P) : ~Moves(c, shifts)}
    BY <1>2, OneSided DEF Emerging
  <2>2. Vanishing(C, P, turned) = OnlyIn(C, P)
    BY <1>2, OneSided DEF Vanishing
  <2> QED BY <1>3, <1>4, <2>1, <2>2, DimensionsAre DEF EmergedIsVanished, Moves
<1>9. EmergedIsVanished(back[1], there[1])
  <2>1. {c \in Emerging(C, P, turned) : c[4] = Cubes!Star} = {c \in OnlyIn(P, C) : ~Moves(c, turned)}
    BY <1>2, OneSided DEF Emerging
  <2>2. Vanishing(P, C, shifts) = OnlyIn(P, C)
    BY <1>2, OneSided DEF Vanishing
  <2> QED BY <1>3, <1>4, <2>1, <2>2, DimensionsAre DEF EmergedIsVanished, Moves
<1>10. CubesMirrored(there, back)
  BY <1>3, <1>4, <1>5, <1>8, <1>9 DEF CubesMirrored
<1>11. CubeMoved(there[1]) <=> CubeMoved(back[1])
  BY <1>2, <1>3, <1>4, <1>6, BordersMoveBothWays DEF CubeMoved
<1> QED BY <1>10, <1>11 DEF there, back

LEMMA CubesAreCarriedByBoth ==
  ASSUME NEW a, NEW b
  PROVE  /\ BothCarryCubes(a, b) <=> BothCarryCubes(b, a)
         /\ ~BothCarryCubes(a, b) => Difference(a, b).cube_diff = Absent
<1>1. BothCarryCubes(a, b) <=> BothCarryCubes(b, a)
  BY DEF BothCarryCubes
<1>2. ~BothCarryCubes(a, b) => Difference(a, b).cube_diff = Absent
  BY DEF Difference
<1> QED BY <1>1, <1>2

LEMMA ComparableBothWays ==
  ASSUME NEW a, NEW b
  PROVE  Comparable(a, b) <=> Comparable(b, a)
BY DEF Comparable

(* A difference read the other way round, but for the cubes.               *)
LEMMA DifferenceIsMirrored ==
  ASSUME NEW a, NEW b, HasRows(a), HasRows(b), a.max_text_bytes = b.max_text_bytes
  PROVE  Difference(b, a) = Mirrored(Difference(a, b), Difference(b, a).cube_diff)
<1> DEFINE d == Difference(a, b)
<1>1. /\ d.kind = "diff" /\ d.max_text_bytes = b.max_text_bytes
      /\ d.previous_window = a.envelope /\ d.current_window = b.envelope
      /\ d.diverges = (IF 0 \in {a.lines, b.lines} THEN Absent
                       ELSE <<Diverges(TemplateDeltas(a, b), a, b)>>)
      /\ d.template_deltas = TemplateDeltas(a, b)
      /\ d.new_templates = NewTemplates(TemplateDeltas(a, b))
      /\ d.vanished_templates = VanishedTemplates(TemplateDeltas(a, b))
  BY DEF Difference
<1>2. /\ d.branching_delta = BranchingDelta(a.behavior, b.behavior)
      /\ d.ngram_delta = NgramDelta(a.behavior, b.behavior)
      /\ d.ngram_order_mismatch = NgramOrderMismatch(a.behavior, b.behavior)
      /\ d.field_histogram_deltas = FieldHistogramDeltas(a, b)
      /\ d.ordinal_histogram_deltas = OrdinalHistogramDeltas(a, b)
      /\ d.tail_delta = TailDelta(a.tail_summary, b.tail_summary)
      /\ d.reservoir_delta = ReservoirDelta(a, b)
      /\ d.service_edge_delta = ServiceEdgeDelta(a.service_edges, b.service_edges)
      /\ d.span_edge_delta = SpanEdgeDelta(a.span_edges, b.span_edges)
  BY DEF Difference
<1>3. PICK cubes : cubes = IF BothCarryCubes(b, a)
                           THEN <<CubeDiff(b.cube[1], a.cube[1], ComponentLatencyShifts(b, a))>>
                           ELSE Absent
  OBVIOUS
<1> HIDE DEF d
<1>4. (IF 0 \in {b.lines, a.lines} THEN Absent ELSE <<Diverges(TemplateDeltas(b, a), b, a)>>)
        = d.diverges
  <2>1. PICK x, y : x = Diverges(TemplateDeltas(b, a), b, a) /\ y = Diverges(TemplateDeltas(a, b), a, b)
    OBVIOUS
  <2>2. Diverges(TemplateDeltas(b, a), b, a) <=> Diverges(TemplateDeltas(a, b), a, b)
    BY TemplatesAreMirrored
  <2>3. x = y
    <3>1. x \in BOOLEAN /\ y \in BOOLEAN
      BY Zenon, <2>1 DEF Diverges
    <3>2. x <=> y
      BY <2>1, <2>2
    <3> QED BY Zenon, <3>1, <3>2
  <2>4. 0 \in {b.lines, a.lines} <=> 0 \in {a.lines, b.lines}
    OBVIOUS
  <2> QED BY <1>1, <2>1, <2>3, <2>4
<1>5. Difference(b, a).cube_diff = cubes
  BY <1>3 DEF Difference
<1>6. /\ TemplateDeltas(b, a) = SwapAll(d.template_deltas)
      /\ NewTemplates(TemplateDeltas(b, a)) = d.vanished_templates
      /\ VanishedTemplates(TemplateDeltas(b, a)) = d.new_templates
  BY <1>1, TemplatesAreMirrored
<1>7. /\ BranchingDelta(b.behavior, a.behavior) = SwapAll(d.branching_delta)
      /\ NgramDelta(b.behavior, a.behavior) = (IF d.ngram_delta = Absent THEN Absent
                                               ELSE <<MirroredNgrams(d.ngram_delta[1])>>)
      /\ NgramOrderMismatch(b.behavior, a.behavior) = SwapAny(d.ngram_order_mismatch)
  BY <1>2, BranchingIsMirrored, NgramsAreMirrored
<1>8. /\ FieldHistogramDeltas(b, a) = SwapAll(d.field_histogram_deltas)
      /\ OrdinalHistogramDeltas(b, a) = SwapAll(d.ordinal_histogram_deltas)
      /\ TailDelta(b.tail_summary, a.tail_summary) = SwapAny(d.tail_delta)
      /\ ReservoirDelta(b, a) = MirroredReservoir(d.reservoir_delta)
  BY <1>2, FieldsAreMirrored, TailIsMirrored, ReservoirIsMirrored
<1>9. /\ ServiceEdgeDelta(b.service_edges, a.service_edges) =
           (IF d.service_edge_delta = Absent THEN Absent
            ELSE <<MirroredEdges(d.service_edge_delta[1])>>)
      /\ SpanEdgeDelta(b.span_edges, a.span_edges) =
           (IF d.span_edge_delta = Absent THEN Absent
            ELSE <<[new |-> d.span_edge_delta[1].vanished, vanished |-> d.span_edge_delta[1].new]>>)
  BY <1>2, EdgesAreMirrored, SpansAreMirrored
<1>10. Difference(b, a) = Mirrored(d, cubes)
  BY <1>1, <1>3, <1>4, <1>6, <1>7, <1>8, <1>9 DEF Difference, Mirrored
<1> QED BY <1>5, <1>10 DEF d

(* Either way round, a comparison decides the same.                        *)
LEMMA OutcomeBothWays ==
  ASSUME NEW a, NEW b, IsDocument(a), IsDocument(b), a.max_text_bytes = b.max_text_bytes
  PROVE  ComparisonOutcome(Difference(b, a)) = ComparisonOutcome(Difference(a, b))
<1> DEFINE d == Difference(a, b)
           m == Difference(b, a)
           deltas == TemplateDeltas(a, b)
<1>0. HasRows(a) /\ HasRows(b)
  BY DEF IsDocument
<1>1. m = Mirrored(d, m.cube_diff)
  BY <1>0, DifferenceIsMirrored
<1>2. /\ m.diverges = d.diverges /\ m.template_deltas = SwapAll(d.template_deltas)
      /\ m.new_templates = d.vanished_templates /\ m.vanished_templates = d.new_templates
      /\ m.branching_delta = SwapAll(d.branching_delta)
      /\ m.ngram_delta = (IF d.ngram_delta = Absent THEN Absent
                          ELSE <<MirroredNgrams(d.ngram_delta[1])>>)
  <2> HIDE DEF d, m
  <2> QED BY <1>1 DEF Mirrored
<1>3. /\ d.tail_delta = TailDelta(a.tail_summary, b.tail_summary)
      /\ d.reservoir_delta = ReservoirDelta(a, b)
      /\ d.field_histogram_deltas = RowsOfBoth(a, b, "histograms")
      /\ d.branching_delta = BranchingDelta(a.behavior, b.behavior)
  BY DEF Difference, FieldHistogramDeltas
<1>4. /\ m.tail_delta = TailDelta(b.tail_summary, a.tail_summary)
      /\ m.reservoir_delta = ReservoirDelta(b, a)
      /\ m.field_histogram_deltas = RowsOfBoth(b, a, "histograms")
  BY DEF Difference, FieldHistogramDeltas
<1> HIDE DEF d, m
<1>5. (\E t \in DOMAIN m.template_deltas : m.template_deltas[t].previous # m.template_deltas[t].current)
      <=> (\E t \in DOMAIN d.template_deltas : d.template_deltas[t].previous # d.template_deltas[t].current)
  BY <1>2 DEF SwapAll, Swap
<1>6. m.branching_delta = << >> <=> d.branching_delta = << >>
  <2>1. DOMAIN m.branching_delta = DOMAIN d.branching_delta
    BY <1>2 DEF SwapAll
  <2>2. DOMAIN << >> = {}
    OBVIOUS
  <2>3. DOMAIN d.branching_delta = {} => d.branching_delta = << >>
    <3>1. \A p, q : DOMAIN BranchingDelta(p, q) = {} => BranchingDelta(p, q) = << >>
      BY DEF BranchingDelta
    <3> QED BY <1>3, <3>1
  <2>4. d.branching_delta = << >> => m.branching_delta = << >>
    BY <1>2 DEF SwapAll
  <2> QED BY <2>1, <2>2, <2>3, <2>4
<1>7. m.ngram_delta = Absent <=> d.ngram_delta = Absent
  <2>1. \A x : <<x>> # Absent
    BY DEF Absent
  <2> QED BY <1>2, <2>1
<1>8. (m.tail_delta # Absent /\ TailMoved(m.tail_delta[1]))
      <=> (d.tail_delta # Absent /\ TailMoved(d.tail_delta[1]))
  BY <1>3, <1>4, TailIsMirrored
<1>9. (\A list \in DOMAIN m.reservoir_delta : m.reservoir_delta[list] = << >>)
      <=> (\A list \in DOMAIN d.reservoir_delta : d.reservoir_delta[list] = << >>)
  BY <1>3, <1>4, ReservoirIsMirrored
<1>10. WithheldSignals(m) # {} <=> WithheldSignals(d) # {}
  <2>1. DOMAIN m.field_histogram_deltas = DOMAIN d.field_histogram_deltas
    BY <1>3, <1>4, RowsAreMirrored
  <2>2. ASSUME NEW row \in DOMAIN d.field_histogram_deltas
        PROVE  FieldHistogramRowMoved(m.field_histogram_deltas[row])
               <=> FieldHistogramRowMoved(d.field_histogram_deltas[row])
    <3>1. /\ m.field_histogram_deltas[row].previous = d.field_histogram_deltas[row].current
          /\ m.field_histogram_deltas[row].current = d.field_histogram_deltas[row].previous
      BY <1>3, <1>4, RowsAreMirrored
    <3> QED BY <3>1, SlotsMoveBothWays
  <2> QED BY <2>1, <2>2 DEF WithheldSignals
<1>11. (m.cube_diff # Absent /\ CubeMoved(m.cube_diff[1]))
       <=> (d.cube_diff # Absent /\ CubeMoved(d.cube_diff[1]))
  <2>1. CASE BothCarryCubes(a, b)
    <3>1. m.cube_diff # Absent /\ d.cube_diff # Absent
      BY <2>1, CubeDiffIs, CubesAreCarriedByBoth DEF m, d
    <3>2. CubeMoved(d.cube_diff[1]) <=> CubeMoved(m.cube_diff[1])
      BY <2>1, CubesAreMirrored DEF m, d
    <3> QED BY <3>1, <3>2
  <2>2. CASE ~BothCarryCubes(a, b)
    BY <2>2, CubesAreCarriedByBoth DEF m, d
  <2> QED BY <2>1, <2>2
<1>12. ComparisonOutcome(m) = ComparisonOutcome(d)
  BY <1>2, <1>5, <1>6, <1>7, <1>8, <1>9, <1>10, <1>11 DEF ComparisonOutcome
<1> QED BY <1>12 DEF m, d

(* diff(A, B) and diff(B, A) mirror each other, member by member and cell  *)
(* by cell of the cubes' borders, and decide the same; or both are refused.*)
THEOREM DiffAlwaysReverses == Spec => []DiffReverses
<1>1. PoolInv => DiffReverses
  <2> SUFFICES ASSUME PoolInv, NEW e \in pool, NEW f \in pool
               PROVE  Opposite(diff(e.doc, f.doc), diff(f.doc, e.doc))
    BY DEF DiffReverses
  <2>1. PICK a, b : a = e.doc /\ b = f.doc
    OBVIOUS
  <2>2. IsDocument(a) /\ IsDocument(b) /\ HasRows(a) /\ HasRows(b)
    BY <2>1 DEF PoolInv, IsEntry, IsDocument
  <2>3. Comparable(a, b) <=> Comparable(b, a)
    BY ComparableBothWays
  <2>4. CASE Comparable(a, b)
    <3>1. a.max_text_bytes = b.max_text_bytes
      BY <2>4 DEF Comparable
    <3>2. diff(a, b) = Difference(a, b) /\ diff(b, a) = Difference(b, a)
      BY <2>3, <2>4 DEF diff
    <3>3. Difference(a, b) # Refusal
      <4>1. Difference(a, b).kind = "diff"
        BY DEF Difference
      <4> QED BY <4>1 DEF Refusal
    <3>4. CubesMirrored(Difference(a, b).cube_diff, Difference(b, a).cube_diff)
      <4>1. CASE BothCarryCubes(a, b)
        BY <2>2, <4>1, CubesAreMirrored
      <4>2. CASE ~BothCarryCubes(a, b)
        BY <4>2, CubesAreCarriedByBoth DEF CubesMirrored
      <4> QED BY <4>1, <4>2
    <3>5. Opposite(diff(a, b), diff(b, a))
      BY <2>2, <3>1, <3>2, <3>3, <3>4, DifferenceIsMirrored, OutcomeBothWays DEF Opposite
    <3> QED BY <2>1, <3>5
  <2>5. CASE ~Comparable(a, b)
    <3>1. diff(a, b) = Refusal /\ diff(b, a) = Refusal
      BY <2>3, <2>5 DEF diff
    <3> QED BY <2>1, <3>1 DEF Opposite
  <2> QED BY <2>4, <2>5
<1> QED BY <1>1, PoolStaysWhole, PTL

-----------------------------------------------------------------------------
(* Documents compared *)

LEMMA TimesCancels ==
  ASSUME NEW x \in Nat \ {0}, NEW p \in Nat, NEW q \in Nat, x * p = x * q
  PROVE  p = q
OBVIOUS

LEMMA ZeroSumIsEmpty ==
  ASSUME NEW bag, IsABag(bag), IsFiniteSet(DOMAIN bag), SumFunction(bag) <= 0
  PROVE  DOMAIN bag = {}
<1>1. \A x \in DOMAIN bag : bag[x] \in Nat \ {0}
  BY DEF IsABag
<1>2. NatOn(bag, DOMAIN bag)
  BY <1>1 DEF NatOn
<1>3. ASSUME NEW x \in DOMAIN bag PROVE FALSE
  <2>1. SumFunction(bag) = bag[x] + SumFunctionOnSet(bag, DOMAIN bag \ {x})
    <3>1. \A y \in DOMAIN bag : bag[y] \in Nat
      BY <1>1
    <3> QED BY <3>1, SumRemove DEF SumFunction
  <2>2. SumFunctionOnSet(bag, DOMAIN bag \ {x}) \in Nat
    <3>1. IsFiniteSet(DOMAIN bag \ {x}) /\ \A y \in DOMAIN bag \ {x} : bag[y] \in Nat
      BY <1>1, FS_Subset
    <3> QED BY <3>1, SumIsNat
  <2> QED BY <1>1, <2>1, <2>2
<1> QED BY <1>3

(* Slots that no divergence tells apart, of as many observations.          *)
LEMMA SlotsAreTheSame ==
  ASSUME NEW p, NEW q, NEW m, NEW n, IsSlotOf(p, m), IsSlotOf(q, n), p.total = q.total,
         ~HistogramDiverges(p, q), p.cardinality = q.cardinality
  PROVE  p = q
<1> DEFINE values == DOMAIN p.values \cup DOMAIN q.values
           keys == Cardinality(values)
<1>1. /\ p = [values |-> p.values, cardinality |-> p.cardinality, total |-> p.total]
      /\ q = [values |-> q.values, cardinality |-> q.cardinality, total |-> q.total]
      /\ IsABag(p.values) /\ IsABag(q.values)
      /\ IsFiniteSet(DOMAIN p.values) /\ IsFiniteSet(DOMAIN q.values)
      /\ p.total \in Nat /\ q.total \in Nat
      /\ SumFunction(p.values) <= p.total /\ SumFunction(q.values) <= q.total
  BY DEF IsSlotOf
<1>2. /\ p.values \in [DOMAIN p.values -> Nat \ {0}]
      /\ q.values \in [DOMAIN q.values -> Nat \ {0}]
  BY <1>1 DEF IsABag
<1>3. p.values = q.values
  <2>1. CASE p.total = 0
    <3>1. DOMAIN p.values = {} /\ DOMAIN q.values = {}
      BY <1>1, <2>1, ZeroSumIsEmpty
    <3> QED BY <1>2, <3>1
  <2>2. CASE p.total # 0
    <3>1. \A v \in values : (Tally(p.values, v) + 1) * (q.total + keys)
                              = (Tally(q.values, v) + 1) * (p.total + keys)
      BY <2>2 DEF HistogramDiverges
    <3>2. keys \in Nat
      BY <1>1, FS_Union, CountIsNat
    <3>3. ASSUME NEW v \in values PROVE Tally(p.values, v) = Tally(q.values, v)
      <4>1. PICK x, y, z : x = Tally(p.values, v) /\ y = Tally(q.values, v) /\ z = p.total + keys
        OBVIOUS
      <4>2. x \in Nat /\ y \in Nat
        BY <1>2, <4>1 DEF Tally
      <4>3. z \in Nat \ {0}
        BY <1>1, <2>2, <3>2, <4>1
      <4>4. (x + 1) * z = (y + 1) * z
        BY <3>1, <4>1
      <4>5. z * (x + 1) = z * (y + 1)
        BY <4>2, <4>3, <4>4
      <4>6. x + 1 = y + 1
        <5>1. x + 1 \in Nat /\ y + 1 \in Nat
          BY <4>2
        <5> QED BY <4>3, <4>5, <5>1, TimesCancels
      <4> QED BY <4>1, <4>2, <4>6
    <3>4. DOMAIN p.values = DOMAIN q.values
      <4>1. \A v \in values : v \in DOMAIN p.values <=> Tally(p.values, v) # 0
        BY <1>2 DEF Tally
      <4>2. \A v \in values : v \in DOMAIN q.values <=> Tally(q.values, v) # 0
        BY <1>2 DEF Tally
      <4> QED BY <3>3, <4>1, <4>2
    <3>5. \A v \in DOMAIN p.values : p.values[v] = q.values[v]
      BY <3>3, <3>4 DEF Tally
    <3> QED BY <1>2, <3>4, <3>5
  <2> QED BY <2>1, <2>2
<1> QED BY <1>1, <1>3

LEMMA NothingMovesOfTheSame ==
  ASSUME NEW row, row.previous = row.current
  PROVE  ~FieldHistogramRowMoved(row)
<1>1. ~HistogramDiverges(row.previous, row.current)
  BY DEF HistogramDiverges
<1>2. SameEntropy(EntropyOfTable(row.previous), EntropyOfTable(row.current))
  BY DEF SameEntropy
<1> QED BY <1>1, <1>2 DEF FieldHistogramRowMoved

LEMMA BehaviorOfTheSame ==
  ASSUME NEW block
  PROVE  BranchingDelta(block, block) = << >> /\ NgramDelta(block, block) = Absent
<1>1. BranchingDelta(block, block) = << >>
  BY DEF BranchingDelta
<1>2. NgramDelta(block, block) = Absent
  <2> DEFINE grams == block[1].top_ngrams
             delta == [new |-> DOMAIN grams \ DOMAIN grams,
                       vanished |-> DOMAIN grams \ DOMAIN grams,
                       rate_changed |-> {s \in DOMAIN grams \cap DOMAIN grams :
                          ~SameRatio(grams[s].probability, grams[s].probability)}]
  <2>1. \A list \in DOMAIN delta : delta[list] = {}
    BY DEF SameRatio
  <2>2. NgramDelta(block, block) =
          IF Absent \in {block, block} \/ block[1].ngram_size # block[1].ngram_size THEN Absent
          ELSE IF \A list \in DOMAIN delta : delta[list] = {} THEN Absent ELSE <<delta>>
    BY DEF NgramDelta
  <2> HIDE DEF delta
  <2> QED BY <2>1, <2>2
<1> QED BY <1>1, <1>2

LEMMA ReservoirOfTheSame ==
  ASSUME NEW doc, NEW list \in DOMAIN ReservoirDelta(doc, doc)
  PROVE  ReservoirDelta(doc, doc)[list] = << >>
<1>1. DOMAIN doc.reservoir \ Retained(doc) = {}
  BY DEF Retained
<1>2. Snapshot(doc, {}) = << >>
  BY DEF Snapshot
<1>3. NewSalient(doc, doc) = << >>
  BY <1>1, <1>2 DEF NewSalient
<1>4. FrontierCrossings(doc, doc) = << >>
  BY DEF FrontierCrossings
<1> QED BY <1>3, <1>4 DEF ReservoirDelta

(* No component shifted since itself, and no cell is on one side alone.    *)
LEMMA CubeOfTheSame ==
  ASSUME NEW doc, IsDocument(doc), Difference(doc, doc).cube_diff # Absent
  PROVE  ~CubeMoved(Difference(doc, doc).cube_diff[1])
<1> DEFINE delta == Difference(doc, doc).cube_diff
           shifts == ComponentLatencyShifts(doc, doc)
           P == CubeOf(doc, StateOf(doc, doc))
<1>1. BothCarryCubes(doc, doc)
  BY CubesAreCarriedByBoth
<1>2. delta[1].emerging = Emerging(P, P, shifts) /\ delta[1].vanishing = Vanishing(P, P, shifts)
  BY <1>1, CubeDiffIs
<1>3. shifts = MirroredShifts(shifts)
  BY ShiftsAreMirrored DEF IsDocument
<1> HIDE DEF delta, shifts, P
<1>4. DOMAIN shifts = {}
  <2> SUFFICES ASSUME NEW c \in DOMAIN shifts PROVE FALSE
    OBVIOUS
  <2>1. MirroredShifts(shifts)[c].direction = Turned(shifts[c].direction)
    BY DEF MirroredShifts
  <2>2. shifts[c].direction = Turned(shifts[c].direction)
    BY <1>3, <2>1
  <2> QED BY <2>2 DEF Turned
<1>5. Marked(P, shifts) = P
  BY <1>4, MarkedAre DEF Mark, Moves
<1>6. \A c \in P : Cubes!IsAncestor(c, c)
  BY DEF Cubes!IsAncestor
<1>7. ~CubeMoved(delta[1])
  BY <1>2, <1>5, <1>6 DEF CubeMoved, Emerging, Vanishing, OnlyIn
<1> QED BY <1>7 DEF delta

(* Nothing changed since itself.                                           *)
LEMMA SameIsUnchanged ==
  ASSUME NEW doc, IsDocument(doc)
  PROVE  ComparisonOutcome(diff(doc, doc)) = "unchanged"
<1> DEFINE deltas == TemplateDeltas(doc, doc)
           d == Difference(doc, doc)
<1>1. diff(doc, doc) = d
  BY DEF diff, Comparable
<1>2. /\ d.diverges = (IF 0 \in {doc.lines, doc.lines} THEN Absent ELSE <<Diverges(deltas, doc, doc)>>)
      /\ d.template_deltas = deltas
      /\ d.new_templates = NewTemplates(deltas) /\ d.vanished_templates = VanishedTemplates(deltas)
      /\ d.branching_delta = BranchingDelta(doc.behavior, doc.behavior)
      /\ d.ngram_delta = NgramDelta(doc.behavior, doc.behavior)
      /\ d.field_histogram_deltas = FieldHistogramDeltas(doc, doc)
      /\ d.tail_delta = TailDelta(doc.tail_summary, doc.tail_summary)
      /\ d.reservoir_delta = ReservoirDelta(doc, doc)
  BY DEF Difference
<1>3. \A t \in DOMAIN deltas : deltas[t].previous = deltas[t].current
  BY DEF TemplateDeltas
<1>4. ~Diverges(deltas, doc, doc)
  <2> HIDE DEF deltas
  <2> QED BY <1>3 DEF Diverges
<1>5. NewTemplates(deltas) = {} /\ VanishedTemplates(deltas) = {}
  <2> HIDE DEF deltas
  <2> QED BY <1>3 DEF NewTemplates, VanishedTemplates
<1>6. TailDelta(doc.tail_summary, doc.tail_summary) = Absent
      \/ ~TailMoved(TailDelta(doc.tail_summary, doc.tail_summary)[1])
  BY DEF TailDelta, TailMoved, SameEntropy, SameRatio
<1>7. \A row \in DOMAIN FieldHistogramDeltas(doc, doc) :
        ~FieldHistogramRowMoved(FieldHistogramDeltas(doc, doc)[row])
  <2>1. \A row \in DOMAIN FieldHistogramDeltas(doc, doc) :
          FieldHistogramDeltas(doc, doc)[row].previous = FieldHistogramDeltas(doc, doc)[row].current
    BY DEF FieldHistogramDeltas, RowsOfBoth
  <2> QED BY <2>1, NothingMovesOfTheSame
<1>12. d.cube_diff = Absent \/ ~CubeMoved(d.cube_diff[1])
  BY CubeOfTheSame
<1> HIDE DEF d, deltas
<1>8. d.diverges # <<TRUE>>
  <2>1. PICK b : b = Diverges(deltas, doc, doc)
    OBVIOUS
  <2>2. b = FALSE
    BY Zenon, <1>4, <2>1 DEF Diverges
  <2>3. d.diverges = Absent \/ d.diverges = <<b>>
    BY <1>2, <2>1
  <2>4. d.diverges = Absent \/ d.diverges[1] = b
    BY <2>3
  <2>5. d.diverges = <<TRUE>> => d.diverges[1] = TRUE
    OBVIOUS
  <2>6. Absent # <<TRUE>>
    BY DEF Absent
  <2> QED BY Zenon, <2>2, <2>4, <2>5, <2>6
<1>9. WithheldSignals(d) = {}
  BY <1>2, <1>7 DEF WithheldSignals
<1>10. \A list \in DOMAIN d.reservoir_delta : d.reservoir_delta[list] = << >>
  BY <1>2, ReservoirOfTheSame
<1>11. d.branching_delta = << >> /\ d.ngram_delta = Absent
  BY <1>2, BehaviorOfTheSame
<1> QED BY <1>1, <1>2, <1>3, <1>5, <1>6, <1>8, <1>9, <1>10, <1>11, <1>12 DEF ComparisonOutcome

LEMMA RowsAreOfLines ==
  ASSUME NEW doc, IsDocument(doc), doc.lines = doc.tail_count + RetainedCount(doc),
         NEW t \in DOMAIN doc.top_k
  PROVE  doc.lines > 0
<1> DEFINE f == [u \in Retained(doc) |-> Row(doc, u).count]
<1>1. \A u \in Retained(doc) : Row(doc, u).count \in Nat \ {0}
  BY DEF IsDocument, HasRows, IsTopRow, IsReservoirRow, IsLabelled, Retained, Row
<1>2. IsFiniteSet(Retained(doc)) /\ t \in Retained(doc) /\ doc.tail_count \in Nat
  BY DEF IsDocument, HasRows, HasFrame, Retained
<1>3. \A u \in Retained(doc) : f[u] \in Nat
  BY <1>1
<1>4. f[t] > 0 /\ DOMAIN f = Retained(doc)
  BY <1>1, <1>2
<1>5. RetainedCount(doc) = SumFunction(f)
  BY DEF RetainedCount
<1> HIDE DEF f
<1>6. SumFunctionOnSet(f, Retained(doc)) = f[t] + SumFunctionOnSet(f, Retained(doc) \ {t})
  BY <1>2, <1>3, SumRemove
<1>7. SumFunctionOnSet(f, Retained(doc) \ {t}) \in Nat
  BY <1>2, <1>3, FS_Subset, SumIsNat
<1> QED BY <1>2, <1>3, <1>4, <1>5, <1>6, <1>7 DEF SumFunction

(* Equal counts that diverge nowhere are of as many lines.                 *)
LEMMA LinesAreTheSame ==
  ASSUME NEW a, NEW b, IsDocument(a), IsDocument(b), NEW t \in DOMAIN a.top_k,
         ~Diverges(TemplateDeltas(a, b), a, b), CountIn(a, t) = CountIn(b, t)
  PROVE  a.lines = b.lines
<1> DEFINE deltas == TemplateDeltas(a, b)
           keys == Cardinality(DOMAIN deltas)
<1>1. t \in DOMAIN deltas /\ deltas[t].previous = CountIn(a, t) /\ deltas[t].current = CountIn(b, t)
  BY DEF TemplateDeltas
<1>2. DOMAIN deltas \subseteq Retained(a) \cup Retained(b)
  BY DEF TemplateDeltas, Retained
<1>3. a.lines \in Nat /\ b.lines \in Nat /\ CountIn(a, t) \in Nat
  BY DEF IsDocument, HasFrame, HasRows, IsTopRow, IsLabelled, CountIn
<1>4. IsFiniteSet(Retained(a)) /\ IsFiniteSet(Retained(b))
  BY DEF IsDocument, HasRows
<1> HIDE DEF deltas
<1>5. (deltas[t].current + 1) * (a.lines + keys) = (deltas[t].previous + 1) * (b.lines + keys)
  BY <1>1 DEF Diverges, deltas
<1>6. keys \in Nat
  BY <1>2, <1>4, FS_Union, FS_Subset, CountIsNat
<1>7. PICK x, p, q : x = CountIn(a, t) + 1 /\ p = a.lines + keys /\ q = b.lines + keys
  OBVIOUS
<1> HIDE DEF keys
<1>8. x \in Nat \ {0} /\ p \in Nat /\ q \in Nat /\ x * p = x * q
  BY <1>1, <1>3, <1>5, <1>6, <1>7
<1>9. p = q
  BY <1>8, TimesCancels
<1> QED BY <1>3, <1>6, <1>7, <1>9

LEMMA RowsOfBothAreSlots ==
  ASSUME NEW a, NEW b, IsDocument(a), IsDocument(b),
         NEW row \in DOMAIN FieldHistogramDeltas(a, b)
  PROVE  \E m, n : /\ IsSlotOf(FieldHistogramDeltas(a, b)[row].previous, m)
                   /\ IsSlotOf(FieldHistogramDeltas(a, b)[row].current, n)
<1>1. PICK t \in DOMAIN a.top_k \cap DOMAIN b.top_k :
        \E i \in DOMAIN a.top_k[t].histograms \cap DOMAIN b.top_k[t].histograms : row = <<t, i>>
  BY DEF FieldHistogramDeltas, RowsOfBoth
<1>2. PICK i \in DOMAIN a.top_k[t].histograms \cap DOMAIN b.top_k[t].histograms : row = <<t, i>>
  BY <1>1
<1>3. /\ FieldHistogramDeltas(a, b)[row].previous = a.top_k[t].histograms[i]
      /\ FieldHistogramDeltas(a, b)[row].current = b.top_k[t].histograms[i]
  BY <1>2 DEF FieldHistogramDeltas, RowsOfBoth
<1>4. /\ IsSlotOf(a.top_k[t].histograms[i], a.top_k[t].count)
      /\ IsSlotOf(b.top_k[t].histograms[i], b.top_k[t].count)
  BY <1>1, <1>2 DEF IsDocument, HasRows, IsTopRow
<1> QED BY <1>3, <1>4

(* Without a border the lines of both are on the same cells.               *)
LEMMA CellsAreTheSame ==
  ASSUME NEW a, NEW b, IsDocument(a), IsDocument(b), BothCarryCubes(a, b),
         ~CubeMoved(Difference(a, b).cube_diff[1])
  PROVE  SameCells(a.cube[1], b.cube[1], Difference(a, b).cube_diff[1])
<1> DEFINE delta == Difference(a, b).cube_diff[1]
           s == StateOf(a, b)
           P == CubeOf(a, s)
           C == CubeOf(b, s)
           shifts == ComponentLatencyShifts(a, b)
<1>1. /\ delta.state = s /\ delta.shifts = shifts
      /\ delta.emerging = Emerging(P, C, shifts) /\ delta.vanishing = Vanishing(P, C, shifts)
  BY CubeDiffIs
<1>2. /\ AreCompared(P, C, shifts)
      /\ s.depth > 0 /\ (\A c \in C : ~Moves(c, shifts)) => DOMAIN shifts = {}
  BY CubesAreCompared
<1>3. DOMAIN shifts = {} => shifts = << >>
  <2>1. shifts = [label \in DOMAIN shifts |-> shifts[label]]
    BY DEF ComponentLatencyShifts, RestrictValues, RestrictDomain, Restrict
  <2> HIDE DEF shifts
  <2> QED BY <2>1
<1>4. CellsAt(a.cube[1], s) = P /\ CellsAt(b.cube[1], s) = C
  BY DEF CubeOf
<1> HIDE DEF delta, s, P, C, shifts
<1>5. Emerging(P, C, shifts) = {} /\ Vanishing(P, C, shifts) = {}
  BY <1>1 DEF CubeMoved, delta
<1>6. /\ \A c \in P \cup C : ~Moves(c, shifts)
      /\ {<<c[1], c[3]>> : c \in P} = {<<c[1], c[3]>> : c \in C}
      /\ {c \in P : c[2] # Cubes!Star} = {c \in C : c[2] # Cubes!Star}
  BY <1>2, <1>5, NoBorderOfTheSame
<1>7. s.depth > 0 => shifts = << >>
  BY <1>2, <1>3, <1>6
<1>8. SameCells(a.cube[1], b.cube[1], delta)
  BY <1>1, <1>4, <1>6, <1>7, DimensionsAre DEF SameCells
<1> QED BY <1>8 DEF delta

LEMMA UnchangedIsTheSame ==
  ASSUME NEW a, NEW b, IsDocument(a), IsDocument(b),
         a.lines = a.tail_count + RetainedCount(a), b.lines = b.tail_count + RetainedCount(b),
         diff(a, b) # Refusal, ComparisonOutcome(diff(a, b)) = "unchanged"
  PROVE  /\ \A t \in DOMAIN a.top_k \cup DOMAIN b.top_k : CountIn(a, t) = CountIn(b, t)
         /\ DOMAIN a.top_k # {} => a.lines = b.lines
         /\ DOMAIN a.reservoir \subseteq Retained(b)
         /\ DOMAIN b.reservoir \subseteq Retained(a)
         /\ \A row \in DOMAIN diff(a, b).field_histogram_deltas :
              LET delta == diff(a, b).field_histogram_deltas[row]
              IN  delta.previous.total = delta.current.total => delta.previous = delta.current
         /\ \A t \in Retained(a) \cap Retained(b) :
              LevelIsFailure(Row(a, t).level) = LevelIsFailure(Row(b, t).level)
         /\ diff(a, b).cube_diff # Absent =>
              SameCells(a.cube[1], b.cube[1], diff(a, b).cube_diff[1])
<1> DEFINE deltas == TemplateDeltas(a, b)
           d == Difference(a, b)
           crossings == FrontierCrossings(a, b)
<1>1. diff(a, b) = d
  BY DEF diff
<1>2. /\ d.diverges = (IF 0 \in {a.lines, b.lines} THEN Absent ELSE <<Diverges(deltas, a, b)>>)
      /\ d.template_deltas = deltas
      /\ d.field_histogram_deltas = FieldHistogramDeltas(a, b)
      /\ d.reservoir_delta = ReservoirDelta(a, b)
  BY DEF Difference
<1> HIDE DEF d
<1>3. /\ d.diverges # <<TRUE>>
      /\ \A t \in DOMAIN d.template_deltas : d.template_deltas[t].previous = d.template_deltas[t].current
      /\ \A list \in DOMAIN d.reservoir_delta : d.reservoir_delta[list] = << >>
      /\ WithheldSignals(d) = {}
      /\ d.cube_diff = Absent \/ ~CubeMoved(d.cube_diff[1])
  BY <1>1 DEF ComparisonOutcome
<1>4. \A t \in DOMAIN a.top_k \cup DOMAIN b.top_k : CountIn(a, t) = CountIn(b, t)
  <2>1. \A t \in DOMAIN a.top_k \cup DOMAIN b.top_k :
          /\ t \in DOMAIN deltas
          /\ deltas[t].previous = CountIn(a, t) /\ deltas[t].current = CountIn(b, t)
    BY DEF TemplateDeltas
  <2> HIDE DEF deltas
  <2>2. \A t \in DOMAIN deltas : deltas[t].previous = deltas[t].current
    BY <1>2, <1>3
  <2> QED BY <2>1, <2>2
<1>5. DOMAIN a.top_k # {} => a.lines = b.lines
  <2> SUFFICES ASSUME NEW t \in DOMAIN a.top_k PROVE a.lines = b.lines
    OBVIOUS
  <2>1. CountIn(a, t) = CountIn(b, t)
    BY <1>4
  <2>2. a.lines > 0
    BY RowsAreOfLines
  <2>3. t \in DOMAIN b.top_k
    BY <2>1 DEF CountIn, IsDocument, HasRows, IsTopRow, IsLabelled
  <2>4. b.lines > 0
    BY <2>3, RowsAreOfLines
  <2>5. a.lines # 0 /\ b.lines # 0
    BY <2>2, <2>4
  <2>6. d.diverges = <<Diverges(deltas, a, b)>>
    BY <1>2, <2>5
  <2>7. ~Diverges(deltas, a, b)
    <3>1. PICK c : c = Diverges(deltas, a, b)
      OBVIOUS
    <3>2. c = TRUE \/ c = FALSE
      BY Zenon, <3>1 DEF Diverges
    <3>3. c = TRUE => d.diverges = <<TRUE>>
      BY <2>6, <3>1
    <3>4. c = FALSE
      BY Zenon, <1>3, <3>2, <3>3
    <3> QED BY Zenon, <3>1, <3>4
  <2> QED BY <2>1, <2>7, LinesAreTheSame
<1>6. /\ NewSalient(a, b) = << >> /\ NewSalient(b, a) = << >> /\ crossings = << >>
  BY <1>2, <1>3 DEF ReservoirDelta
<1>7. \A x, y : NewSalient(x, y) = << >> => DOMAIN y.reservoir \subseteq Retained(x)
  <2> SUFFICES ASSUME NEW x, NEW y, NewSalient(x, y) = << >>
               PROVE  DOMAIN y.reservoir \subseteq Retained(x)
    OBVIOUS
  <2>1. DOMAIN NewSalient(x, y) = DOMAIN y.reservoir \ Retained(x)
    BY DEF NewSalient, Snapshot
  <2>2. DOMAIN << >> = {}
    OBVIOUS
  <2> QED BY <2>1, <2>2
<1>8. \A t \in Retained(a) \cap Retained(b) :
        LevelIsFailure(Row(a, t).level) = LevelIsFailure(Row(b, t).level)
  <2>1. DOMAIN crossings = {t \in Retained(a) \cap Retained(b) :
            LevelIsFailure(Row(a, t).level) # LevelIsFailure(Row(b, t).level)}
    BY DEF FrontierCrossings
  <2>2. DOMAIN crossings = {}
    BY <1>6
  <2> QED BY <2>1, <2>2
<1>9. \A row \in DOMAIN d.field_histogram_deltas :
        LET delta == d.field_histogram_deltas[row]
        IN  delta.previous.total = delta.current.total => delta.previous = delta.current
  <2> SUFFICES ASSUME NEW row \in DOMAIN FieldHistogramDeltas(a, b),
                      FieldHistogramDeltas(a, b)[row].previous.total =
                      FieldHistogramDeltas(a, b)[row].current.total
               PROVE  FieldHistogramDeltas(a, b)[row].previous =
                      FieldHistogramDeltas(a, b)[row].current
    BY <1>2
  <2> DEFINE delta == FieldHistogramDeltas(a, b)[row]
  <2>1. ~FieldHistogramRowMoved(delta)
    BY <1>2, <1>3 DEF WithheldSignals
  <2>2. ~HistogramDiverges(delta.previous, delta.current)
    BY <2>1 DEF FieldHistogramRowMoved
  <2>3. delta.previous.cardinality = delta.current.cardinality
    BY <2>1 DEF FieldHistogramRowMoved
  <2>4. PICK m, n : IsSlotOf(delta.previous, m) /\ IsSlotOf(delta.current, n)
    BY RowsOfBothAreSlots
  <2> QED BY <2>2, <2>3, <2>4, SlotsAreTheSame
<1>10. d.cube_diff # Absent => SameCells(a.cube[1], b.cube[1], d.cube_diff[1])
  BY <1>3, CellsAreTheSame, CubesAreCarriedByBoth DEF d
<1> QED BY <1>1, <1>4, <1>5, <1>6, <1>7, <1>8, <1>9, <1>10

(* A diff reads unchanged of a document and itself, and of two documents   *)
(* only where top_k counts, lines, salient templates, failure levels,      *)
(* comparable slots and the cells of the cubes are the same, and no        *)
(* component's latency shifted.                                            *)
THEOREM UnchangedAlwaysMeansSame == Spec => []UnchangedMeansSame
<1>1. PoolInv => UnchangedMeansSame
  <2> SUFFICES ASSUME PoolInv, NEW e \in pool, NEW f \in pool
               PROVE  SaysTheTruth(e.doc, f.doc, diff(e.doc, f.doc))
    BY DEF UnchangedMeansSame
  <2> DEFINE a == e.doc
             b == f.doc
  <2>1. /\ IsDocument(a) /\ IsDocument(b)
        /\ a.lines = a.tail_count + RetainedCount(a)
        /\ b.lines = b.tail_count + RetainedCount(b)
    BY DEF PoolInv, IsEntry, Accounts
  <2> HIDE DEF a, b
  <2>2. a = b => ComparisonOutcome(diff(a, b)) = "unchanged"
    BY <2>1, SameIsUnchanged
  <2>3. SaysTheTruth(a, b, diff(a, b))
    <3>1. CASE diff(a, b) # Refusal /\ ComparisonOutcome(diff(a, b)) = "unchanged"
      BY <2>1, <2>2, <3>1, UnchangedIsTheSame DEF SaysTheTruth
    <3>2. CASE ~(diff(a, b) # Refusal /\ ComparisonOutcome(diff(a, b)) = "unchanged")
      BY <2>2, <3>2 DEF SaysTheTruth
    <3> QED BY <3>1, <3>2
  <2> QED BY <2>3 DEF a, b
<1> QED BY <1>1, PoolStaysWhole, PTL

-----------------------------------------------------------------------------
(* Changes of presence *)

LEMMA NoChangeOfOne ==
  ASSUME NEW x \in Nat, NEW seen \in SUBSET {x}, NEW present
  PROVE  Changes(seen, present) = {} /\ Earliest(seen) \subseteq {x} /\ Newest(seen) \subseteq {x}
BY DEF Changes, Earliest, Newest

(* There is one boundary less than there are instants.                     *)
LEMMA ChangesAreFew ==
  ASSUME NEW seen \in SUBSET Nat, IsFiniteSet(seen), NEW present
  PROVE  /\ IsFiniteSet(Changes(seen, present)) /\ Cardinality(Changes(seen, present)) \in Nat
         /\ seen # {} => Cardinality(Changes(seen, present)) <= Cardinality(seen) - 1
<1> DEFINE changes == Changes(seen, present)
<1>1. changes \in SUBSET seen
  BY DEF Changes
<1>2. IsFiniteSet(changes) /\ Cardinality(changes) \in Nat
  BY <1>1, FS_Subset, CountIsNat
<1>3. ASSUME seen # {} PROVE Cardinality(changes) <= Cardinality(seen) - 1
  <2>1. PICK m \in seen : \A x \in seen : m >= x
    BY <1>3, MaxIsElement
  <2>2. m \notin changes
    BY <2>1 DEF Changes
  <2> DEFINE rest == seen \ {m}
  <2>3. IsFiniteSet(rest) /\ Cardinality(rest) = Cardinality(seen) - 1 /\ Cardinality(seen) \in Nat
    BY <1>3, <2>1, WithoutAny
  <2>4. changes \in SUBSET rest
    BY <1>1, <2>2
  <2> HIDE DEF changes, rest
  <2>5. Cardinality(rest) = Cardinality(changes) + Cardinality(rest \ changes)
    BY <2>3, <2>4, PartCount
  <2>6. Cardinality(rest \ changes) \in Nat
    <3>1. IsFiniteSet(rest \ changes)
      BY <2>3, FS_Subset
    <3> QED BY <3>1, CountIsNat
  <2> QED BY <1>2, <2>3, <2>5, <2>6
<1> QED BY <1>2, <1>3

Before(early, late) == \A x \in early : \A y \in late : x < y

(* Two ranges one after the other, and when the template was there.        *)
AreInOrder(early, late, p, q) ==
  /\ early \subseteq Nat /\ late \subseteq Nat /\ Before(early, late)
  /\ p \subseteq early /\ q \subseteq late

(* Whether presence changes from m to n.                                   *)
Boundary(m, n, p, q) == IF m \in p <=> n \notin q THEN {m} ELSE {}

(* m and the elements of two sets that are apart, m if it is at the end.   *)
AreJoined(all, before, after, m, end) ==
  /\ all = (before \cup after) \cup end
  /\ m \notin before /\ m \notin after /\ before \cap after = {}

IsTop(m, seen) == \A x \in seen : m >= x

IsBottom(n, seen) == \A x \in seen : n <= x

(* Of two ranges one after the other the only new boundary is between the  *)
(* newest instant of one and the earliest of the other.                    *)
LEMMA ChangesOfBoth ==
  ASSUME NEW early, NEW late, NEW p, NEW q, AreInOrder(early, late, p, q),
         NEW m \in early, IsTop(m, early), NEW n \in late, IsBottom(n, late)
  PROVE  AreJoined(Changes(early \cup late, p \cup q), Changes(early, p), Changes(late, q),
                   m, Boundary(m, n, p, q))
<1> DEFINE both == early \cup late
           present == p \cup q
           all == Changes(both, present)
<1>1. /\ early \subseteq Nat /\ late \subseteq Nat
      /\ \A x \in early, y \in late : x < y
      /\ \A x \in early : m >= x
      /\ \A y \in late : n <= y
      /\ \A x \in early : x \in present <=> x \in p
      /\ \A y \in late : y \in present <=> y \in q
  BY DEF AreInOrder, Before, IsTop, IsBottom
<1>2. ASSUME NEW x \in early, x # m PROVE x \in all <=> x \in Changes(early, p)
  <2>1. ASSUME x \in all PROVE x \in Changes(early, p)
    <3>1. PICK y \in both : /\ x < y /\ \A z \in both : z <= x \/ y <= z
                            /\ x \in present <=> y \notin present
      BY <2>1 DEF Changes
    <3>2. y \in early
      <4>1. m <= x \/ y <= m
        BY <3>1
      <4>2. m >= x
        BY <1>1
      <4>3. y \in late => m < y
        BY <1>1
      <4> QED BY <1>1, <1>2, <3>1, <4>1, <4>2, <4>3
    <3> QED BY <1>1, <3>1, <3>2 DEF Changes
  <2>2. ASSUME x \in Changes(early, p) PROVE x \in all
    <3>1. PICK y \in early : /\ x < y /\ \A z \in early : z <= x \/ y <= z
                             /\ x \in p <=> y \notin p
      BY <2>2 DEF Changes
    <3>2. \A z \in both : z <= x \/ y <= z
      BY <1>1, <3>1
    <3>3. x \in present <=> y \notin present
      BY <1>1, <3>1
    <3> QED BY <3>1, <3>2, <3>3 DEF Changes
  <2> QED BY <2>1, <2>2
<1>3. m \in all <=> (m \in p <=> n \notin q)
  <2>1. ASSUME m \in all PROVE m \in p <=> n \notin q
    <3>1. PICK y \in both : /\ m < y /\ \A z \in both : z <= m \/ y <= z
                            /\ m \in present <=> y \notin present
      BY <2>1 DEF Changes
    <3>2. y \in late
      BY <1>1, <3>1
    <3>3. n <= m \/ y <= n
      BY <3>1
    <3>4. m < n /\ n <= y
      BY <1>1, <3>2
    <3>5. y = n
      BY <1>1, <3>2, <3>3, <3>4
    <3> QED BY <1>1, <3>1, <3>5
  <2>2. ASSUME m \in p <=> n \notin q PROVE m \in all
    <3>1. m < n
      BY <1>1
    <3>2. \A z \in both : z <= m \/ n <= z
      BY <1>1
    <3>3. m \in present <=> n \notin present
      BY <1>1, <2>2
    <3> QED BY <3>1, <3>2, <3>3 DEF Changes
  <2> QED BY <2>1, <2>2
<1>4. ASSUME NEW x \in late PROVE x \in all <=> x \in Changes(late, q)
  <2>1. ASSUME x \in all PROVE x \in Changes(late, q)
    <3>1. PICK y \in both : /\ x < y /\ \A z \in both : z <= x \/ y <= z
                            /\ x \in present <=> y \notin present
      BY <2>1 DEF Changes
    <3>2. y \in late
      BY <1>1, <3>1
    <3> QED BY <1>1, <3>1, <3>2 DEF Changes
  <2>2. ASSUME x \in Changes(late, q) PROVE x \in all
    <3>1. PICK y \in late : /\ x < y /\ \A z \in late : z <= x \/ y <= z
                            /\ x \in q <=> y \notin q
      BY <2>2 DEF Changes
    <3>2. \A z \in both : z <= x \/ y <= z
      BY <1>1, <3>1
    <3>3. x \in present <=> y \notin present
      BY <1>1, <3>1
    <3> QED BY <3>1, <3>2, <3>3 DEF Changes
  <2> QED BY <2>1, <2>2
<1>5. Changes(early, p) \subseteq early /\ Changes(late, q) \subseteq late /\ all \subseteq both
  BY DEF Changes
<1>6. m \notin Changes(early, p)
  BY <1>1 DEF Changes
<1>7. early \cap late = {}
  BY <1>1
<1> HIDE DEF both, present, all
<1>8. all = (Changes(early, p) \cup Changes(late, q))
              \cup (IF m \in p <=> n \notin q THEN {m} ELSE {})
  <2>1. CASE m \in p <=> n \notin q
    <3>1. all = (Changes(early, p) \cup Changes(late, q)) \cup {m}
      BY <1>2, <1>3, <1>4, <1>5, <2>1 DEF both
    <3> QED BY <2>1, <3>1
  <2>2. CASE ~(m \in p <=> n \notin q)
    <3>1. all = Changes(early, p) \cup Changes(late, q)
      BY <1>2, <1>3, <1>4, <1>5, <1>6, <2>2 DEF both
    <3> QED BY <2>2, <3>1
  <2> QED BY <2>1, <2>2
<1> QED BY <1>5, <1>6, <1>7, <1>8 DEF all, both, present, Boundary, AreJoined

LEMMA ApartCount ==
  ASSUME NEW S, NEW T, IsFiniteSet(S), IsFiniteSet(T), S \cap T = {}
  PROVE  IsFiniteSet(S \cup T) /\ Cardinality(S \cup T) = Cardinality(S) + Cardinality(T)
<1>1. S \in SUBSET (S \cup T) /\ (S \cup T) \ S = T /\ IsFiniteSet(S \cup T)
  BY FS_Union
<1> QED BY <1>1, PartCount

LEMMA CountOfOne == ASSUME NEW x PROVE Cardinality({x}) = 1
<1>1. Cardinality({} \cup {x}) = 0 + 1
  BY EmptyCount, CountOneMore
<1>2. {} \cup {x} = {x}
  OBVIOUS
<1> QED BY <1>1, <1>2

(* The element of a template over the instants seen, when it was present.  *)
IsElementOf(c, seen, present) == c \in Churn /\ WellFormed(c) /\ Bounds(c, seen, present)

(* One that observed nothing is the identity, and saw nothing.             *)
LEMMA NothingSeen ==
  ASSUME NEW seen \in SUBSET Nat, IsFiniteSet(seen), NEW present \in SUBSET seen,
         NEW c, IsElementOf(c, seen, present), c.span = 0
  PROVE  seen = {} /\ present = {} /\ c = EmptyChurn
<1>1. Cardinality(seen) = 0
  BY DEF IsElementOf, Bounds
<1>2. seen = {}
  BY <1>1, FS_EmptySet
<1> QED BY <1>2 DEF IsElementOf, WellFormed

LEMMA SomethingSeen ==
  ASSUME NEW seen \in SUBSET Nat, IsFiniteSet(seen), NEW present,
         NEW c, IsElementOf(c, seen, present), c.span # 0
  PROVE  /\ seen # {}
         /\ \E m \in seen : /\ \A x \in seen : m >= x
                            /\ c.last = "Unretained" \/ c.last = (IF m \in present THEN "Present" ELSE "Absent")
         /\ \E n \in seen : /\ \A x \in seen : n <= x
                            /\ c.first = "Unretained" \/ c.first = (IF n \in present THEN "Present" ELSE "Absent")
<1>1. /\ Cardinality(seen) # 0
      /\ Tells(c.first, Earliest(seen), present) /\ Tells(c.last, Newest(seen), present)
  BY DEF IsElementOf, Bounds
<1>2. seen # {}
  BY <1>1, EmptyCount
<1>3. PICK m \in seen : \A x \in seen : m >= x
  BY <1>2, MaxIsElement
<1>4. PICK n \in seen : \A x \in seen : n <= x
  BY <1>2, LeastExists
<1>5. m \in Newest(seen)
  BY <1>3 DEF Newest
<1>6. n \in Earliest(seen)
  BY <1>4 DEF Earliest
<1>7. c.last = "Unretained" \/ c.last = (IF m \in present THEN "Present" ELSE "Absent")
  BY <1>1, <1>5 DEF Tells
<1>8. c.first = "Unretained" \/ c.first = (IF n \in present THEN "Present" ELSE "Absent")
  BY <1>1, <1>6 DEF Tells
<1> QED BY <1>2, <1>3, <1>4, <1>7, <1>8

(* The product over two ranges, one after the other.                       *)
LEMMA ProductBounds ==
  ASSUME NEW early \in SUBSET Nat, NEW late \in SUBSET Nat, IsFiniteSet(early), IsFiniteSet(late),
         Before(early, late), NEW p \in SUBSET early, NEW q \in SUBSET late,
         NEW a, NEW b, IsElementOf(a, early, p), IsElementOf(b, late, q)
  PROVE  IsElementOf(ChurnProduct(a, b), early \cup late, p \cup q)
<1> DEFINE c == ChurnProduct(a, b)
           both == early \cup late
           present == p \cup q
<1>1. a \in Churn /\ b \in Churn /\ WellFormed(a) /\ WellFormed(b)
  BY DEF IsElementOf
<1>2. c \in Churn /\ WellFormed(c)
  BY <1>1, ChurnIsClosed, ProductIsWellFormed
<1>3. CASE a.span = 0
  <2>1. early = {} /\ p = {}
    BY <1>3, NothingSeen
  <2>2. c = b
    BY <1>3 DEF ChurnProduct
  <2>3. early \cup late = late /\ p \cup q = q
    BY <2>1
  <2> HIDE DEF c
  <2> QED BY <2>2, <2>3 DEF c
<1>4. CASE a.span # 0 /\ b.span = 0
  <2>1. late = {} /\ q = {}
    BY <1>4, NothingSeen
  <2>2. c = a
    BY <1>4 DEF ChurnProduct
  <2>3. early \cup late = early /\ p \cup q = p
    BY <2>1
  <2> HIDE DEF c
  <2> QED BY <2>2, <2>3 DEF c
<1>5. CASE a.span # 0 /\ b.span # 0
  <2>1. PICK m \in early :
          /\ \A x \in early : m >= x
          /\ a.last = "Unretained" \/ a.last = (IF m \in p THEN "Present" ELSE "Absent")
    BY <1>5, SomethingSeen
  <2>2. PICK n \in late :
          /\ \A y \in late : n <= y
          /\ b.first = "Unretained" \/ b.first = (IF n \in q THEN "Present" ELSE "Absent")
    BY <1>5, SomethingSeen
  <2> DEFINE boundary == Boundary(m, n, p, q)
             before == Changes(early, p)
             after == Changes(late, q)
             all == Changes(both, present)
  <2>3. all = (before \cup after) \cup boundary /\ m \notin before /\ m \notin after /\ before \cap after = {}
    <3>1. IsTop(m, early)
      BY <2>1 DEF IsTop
    <3>2. IsBottom(n, late)
      BY <2>2 DEF IsBottom
    <3>3. m \in early /\ n \in late
      BY <2>1, <2>2
    <3>4. AreInOrder(early, late, p, q)
      BY DEF AreInOrder
    <3>5. AreJoined(Changes(early \cup late, p \cup q), before, after, m, boundary)
      BY <3>1, <3>2, <3>3, <3>4, ChangesOfBoth
    <3> HIDE DEF before, after, boundary
    <3> QED BY <3>5 DEF AreJoined
  <2>4. /\ IsFiniteSet(before) /\ Cardinality(before) \in Nat
        /\ IsFiniteSet(after) /\ Cardinality(after) \in Nat
    BY ChangesAreFew
  <2>5. /\ a.span = Cardinality(early) /\ b.span = Cardinality(late)
        /\ a.transitions <= Cardinality(before)
        /\ Cardinality(before) <= a.transitions + a.indeterminate
        /\ b.transitions <= Cardinality(after)
        /\ Cardinality(after) <= b.transitions + b.indeterminate
        /\ Tells(a.first, Earliest(early), p) /\ Tells(b.last, Newest(late), q)
    BY DEF IsElementOf, Bounds
  <2>6. c = [span |-> a.span + b.span,
             transitions |-> a.transitions + b.transitions + (IF Changed(a, b) THEN 1 ELSE 0),
             indeterminate |-> a.indeterminate + b.indeterminate + (IF Readable(a, b) THEN 0 ELSE 1),
             first |-> a.first, last |-> b.last]
    BY <1>5 DEF ChurnProduct
  <2>7. /\ c.span = a.span + b.span
        /\ c.transitions = a.transitions + b.transitions + (IF Changed(a, b) THEN 1 ELSE 0)
        /\ c.indeterminate = a.indeterminate + b.indeterminate + (IF Readable(a, b) THEN 0 ELSE 1)
        /\ c.first = a.first /\ c.last = b.last
    BY <2>6
  <2>8. Cardinality(all) = Cardinality(before) + Cardinality(after)
                             + (IF m \in p <=> n \notin q THEN 1 ELSE 0)
    <3> HIDE DEF before, after, all
    <3>1. /\ IsFiniteSet(before \cup after)
          /\ Cardinality(before \cup after) = Cardinality(before) + Cardinality(after)
      BY <2>3, <2>4, ApartCount
    <3>2. CASE m \in p <=> n \notin q
      <4>1. all = (before \cup after) \cup {m} /\ m \notin before \cup after
        BY <2>3, <3>2 DEF Boundary
      <4>2. Cardinality(all) = Cardinality(before \cup after) + 1
        BY <3>1, <4>1, CountOneMore
      <4> QED BY <3>1, <3>2, <4>2
    <3>3. CASE ~(m \in p <=> n \notin q)
      <4>1. all = before \cup after
        BY <2>3, <3>3 DEF Boundary
      <4> QED BY <2>4, <3>1, <3>3, <4>1
    <3> QED BY <3>2, <3>3
  <2>9. Readable(a, b) => (Changed(a, b) <=> (m \in p <=> n \notin q))
    BY <2>1, <2>2 DEF Readable, Changed
  <2>10. ~Readable(a, b) => ~Changed(a, b)
    BY DEF Changed
  <2>11. early \cap late = {}
    BY DEF Before
  <2>12. c.span = Cardinality(both)
    <3>1. Cardinality(both) = Cardinality(early) + Cardinality(late)
      BY <2>11, ApartCount
    <3> HIDE DEF c, both
    <3> QED BY <2>5, <2>7, <3>1
  <2>13. c.transitions <= Cardinality(all) /\ Cardinality(all) <= c.transitions + c.indeterminate
    <3>1. /\ a.transitions \in Nat /\ b.transitions \in Nat
          /\ a.indeterminate \in Nat /\ b.indeterminate \in Nat
      BY <1>1 DEF Churn
    <3> HIDE DEF c, all, before, after
    <3>2. CASE Readable(a, b)
      <4>1. PICK k \in {0, 1} :
              /\ k = (IF Changed(a, b) THEN 1 ELSE 0)
              /\ k = (IF m \in p <=> n \notin q THEN 1 ELSE 0)
        BY <2>9, <3>2
      <4>2. /\ c.transitions = a.transitions + b.transitions + k
            /\ c.indeterminate = a.indeterminate + b.indeterminate + 0
            /\ Cardinality(all) = Cardinality(before) + Cardinality(after) + k
        BY <2>7, <2>8, <3>2, <4>1
      <4> QED BY <2>4, <2>5, <3>1, <4>2
    <3>3. CASE ~Readable(a, b)
      <4>1. PICK k \in {0, 1} : k = (IF m \in p <=> n \notin q THEN 1 ELSE 0)
        OBVIOUS
      <4>2. /\ c.transitions = a.transitions + b.transitions + 0
            /\ c.indeterminate = a.indeterminate + b.indeterminate + 1
            /\ Cardinality(all) = Cardinality(before) + Cardinality(after) + k
        BY <2>7, <2>8, <2>10, <3>3, <4>1
      <4> QED BY <2>4, <2>5, <3>1, <4>2
    <3> QED BY <3>2, <3>3
  <2>14. Tells(c.first, Earliest(both), present)
    <3>1. Earliest(both) \subseteq Earliest(early)
      <4>1. ASSUME NEW x \in Earliest(both) PROVE x \in Earliest(early)
        <5>1. x \in both /\ \A y \in both : x <= y
          BY DEF Earliest
        <5>2. x \in early
          <6>1. x <= m
            BY <5>1
          <6>2. x \in late => m < x
            BY DEF Before
          <6> QED BY <5>1, <6>1, <6>2
        <5> QED BY <5>1, <5>2 DEF Earliest
      <4> QED BY <4>1
    <3>2. \A x \in early : x \in present <=> x \in p
      BY <2>11
    <3>3. Earliest(early) \subseteq early
      BY DEF Earliest
    <3> HIDE DEF c, both, present
    <3> QED BY <2>5, <2>7, <3>1, <3>2, <3>3 DEF Tells
  <2>15. Tells(c.last, Newest(both), present)
    <3>1. Newest(both) \subseteq Newest(late)
      <4>1. ASSUME NEW x \in Newest(both) PROVE x \in Newest(late)
        <5>1. x \in both /\ \A y \in both : y <= x
          BY DEF Newest
        <5>2. x \in late
          <6>1. n <= x
            BY <5>1
          <6>2. x \in early => x < n
            BY DEF Before
          <6> QED BY <5>1, <6>1, <6>2
        <5> QED BY <5>1, <5>2 DEF Newest
      <4> QED BY <4>1
    <3>2. \A x \in late : x \in present <=> x \in q
      BY <2>11
    <3>3. Newest(late) \subseteq late
      BY DEF Newest
    <3> HIDE DEF c, both, present
    <3> QED BY <2>5, <2>7, <3>1, <3>2, <3>3 DEF Tells
  <2> HIDE DEF c, both, present
  <2>16. Bounds(c, both, present)
    BY <2>12, <2>13, <2>14, <2>15 DEF Bounds
  <2> QED BY <1>2, <2>16 DEF IsElementOf, c, both, present
<1> QED BY <1>3, <1>4, <1>5

LEMMA EmptyIsIdentityOfJoin ==
  ASSUME NEW c \in Churn
  PROVE  ChurnJoin(EmptyChurn, c) = c /\ ChurnJoin(c, EmptyChurn) = c
<1>1. \A x \in PresenceSymbol : JoinSymbol("EmptyRange", x) = x /\ JoinSymbol(x, "EmptyRange") = x
  BY SMT DEF JoinSymbol, PresenceSymbol
<1> QED BY <1>1, SMT DEF ChurnJoin, Churn, EmptyChurn

(* The join over shards of one window, or with a range of silence.         *)
LEMMA JoinBounds ==
  ASSUME NEW one \in SUBSET Nat, NEW other \in SUBSET Nat, IsFiniteSet(one), IsFiniteSet(other),
         NEW p \in SUBSET one, NEW q \in SUBSET other,
         NEW a, NEW b, IsElementOf(a, one, p), IsElementOf(b, other, q),
         a.span = 0 \/ b.span = 0 \/ \E x \in Nat : one \subseteq {x} /\ other \subseteq {x}
  PROVE  IsElementOf(ChurnJoin(a, b), one \cup other, p \cup q)
<1> DEFINE c == ChurnJoin(a, b)
<1>1. a \in Churn /\ b \in Churn /\ WellFormed(a) /\ WellFormed(b)
  BY DEF IsElementOf
<1>2. CASE a.span = 0
  <2>1. one = {} /\ p = {} /\ a = EmptyChurn
    BY <1>2, NothingSeen
  <2>2. c = b
    BY <1>1, <2>1, EmptyIsIdentityOfJoin
  <2>3. one \cup other = other /\ p \cup q = q
    BY <2>1
  <2> HIDE DEF c
  <2> QED BY <2>2, <2>3 DEF c
<1>3. CASE b.span = 0
  <2>1. other = {} /\ q = {} /\ b = EmptyChurn
    BY <1>3, NothingSeen
  <2>2. c = a
    BY <1>1, <2>1, EmptyIsIdentityOfJoin
  <2>3. one \cup other = one /\ p \cup q = p
    BY <2>1
  <2> HIDE DEF c
  <2> QED BY <2>2, <2>3 DEF c
<1>4. CASE a.span # 0 /\ b.span # 0
  <2>1. PICK x \in Nat : one \subseteq {x} /\ other \subseteq {x}
    BY <1>4
  <2>2. one # {} /\ other # {}
    BY <1>4, SomethingSeen
  <2>3. one = {x} /\ other = {x} /\ one \cup other = {x}
    BY <2>1, <2>2
  <2>4. /\ a.span = Cardinality({x}) /\ b.span = Cardinality({x})
        /\ Tells(a.first, Earliest(one), p) /\ Tells(a.last, Newest(one), p)
        /\ Tells(b.first, Earliest(other), q) /\ Tells(b.last, Newest(other), q)
    BY <2>3 DEF IsElementOf, Bounds
  <2>5. Cardinality({x}) = 1
    BY CountOfOne
  <2>6. /\ a.transitions = 0 /\ a.indeterminate = 0 /\ b.transitions = 0 /\ b.indeterminate = 0
    BY <1>1, <2>4, <2>5 DEF WellFormed, Churn
  <2>7. c = [span |-> 1, transitions |-> 0, indeterminate |-> 0,
             first |-> JoinSymbol(a.first, b.first), last |-> JoinSymbol(a.last, b.last)]
    BY <2>4, <2>5, <2>6 DEF ChurnJoin
  <2>8. c \in Churn
    BY <1>1, ChurnIsClosed
  <2>9. WellFormed(c)
    BY <2>7, <2>8 DEF WellFormed
  <2>10. x \in Earliest(one) /\ x \in Newest(one) /\ x \in Earliest(other) /\ x \in Newest(other)
    BY <2>3 DEF Earliest, Newest
  <2>11. \A v, w \in PresenceSymbol :
           /\ v = "Unretained" \/ v = (IF x \in p THEN "Present" ELSE "Absent")
           /\ w = "Unretained" \/ w = (IF x \in q THEN "Present" ELSE "Absent")
           => \/ JoinSymbol(v, w) = "Unretained"
              \/ JoinSymbol(v, w) = (IF x \in p \cup q THEN "Present" ELSE "Absent")
    BY SMT DEF JoinSymbol, PresenceSymbol
  <2>12. /\ a.first \in PresenceSymbol /\ a.last \in PresenceSymbol
         /\ b.first \in PresenceSymbol /\ b.last \in PresenceSymbol
    BY <1>1 DEF Churn
  <2>13. /\ a.first = "Unretained" \/ a.first = (IF x \in p THEN "Present" ELSE "Absent")
         /\ b.first = "Unretained" \/ b.first = (IF x \in q THEN "Present" ELSE "Absent")
         /\ a.last = "Unretained" \/ a.last = (IF x \in p THEN "Present" ELSE "Absent")
         /\ b.last = "Unretained" \/ b.last = (IF x \in q THEN "Present" ELSE "Absent")
    BY <2>4, <2>10 DEF Tells
  <2>14. /\ c.first = "Unretained" \/ c.first = (IF x \in p \cup q THEN "Present" ELSE "Absent")
         /\ c.last = "Unretained" \/ c.last = (IF x \in p \cup q THEN "Present" ELSE "Absent")
    BY <2>7, <2>11, <2>12, <2>13
  <2>15. /\ Changes(one \cup other, p \cup q) = {}
         /\ Earliest(one \cup other) \subseteq {x} /\ Newest(one \cup other) \subseteq {x}
    BY <2>3, NoChangeOfOne
  <2>16. /\ Tells(c.first, Earliest(one \cup other), p \cup q)
         /\ Tells(c.last, Newest(one \cup other), p \cup q)
    BY <2>14, <2>15 DEF Tells
  <2>17. /\ c.span = Cardinality(one \cup other)
         /\ c.transitions = 0 /\ c.indeterminate = 0
         /\ Cardinality(Changes(one \cup other, p \cup q)) = 0
    BY <2>3, <2>5, <2>7, <2>15, EmptyCount
  <2> HIDE DEF c
  <2>18. Bounds(c, one \cup other, p \cup q)
    BY <2>16, <2>17 DEF Bounds
  <2> QED BY <2>8, <2>9, <2>18 DEF IsElementOf, c
<1> QED BY <1>2, <1>3, <1>4

(* What a range says of a template it does not retain.                     *)
LEMMA UnretainedBounds ==
  ASSUME NEW seen \in SUBSET Nat, IsFiniteSet(seen), NEW present \in SUBSET seen,
         NEW exhaustive \in BOOLEAN, exhaustive => present = {}
  PROVE  IsElementOf(UnretainedRange(Cardinality(seen), exhaustive), seen, present)
<1> DEFINE n == Cardinality(seen)
           c == UnretainedRange(n, exhaustive)
<1>1. n \in Nat
  BY CountIsNat
<1>2. WellFormed(c) /\ c \in Churn
  BY <1>1, BaseElementsAreWellFormed DEF WellFormed
<1>3. /\ Cardinality(Changes(seen, present)) \in Nat
      /\ seen # {} => Cardinality(Changes(seen, present)) <= n - 1
  BY ChangesAreFew
<1>4. CASE n = 0
  <2>1. seen = {}
    BY <1>4, FS_EmptySet
  <2>2. Changes(seen, present) = {} /\ Earliest(seen) = {} /\ Newest(seen) = {}
    BY <2>1 DEF Changes, Earliest, Newest
  <2>3. Cardinality(Changes(seen, present)) = 0
    BY <2>2, EmptyCount
  <2>4. c.span = 0 /\ c.transitions = 0 /\ c.indeterminate = 0
    BY <1>4 DEF UnretainedRange, EmptyChurn
  <2> HIDE DEF c
  <2>5. Bounds(c, seen, present)
    BY <1>4, <2>2, <2>3, <2>4 DEF Bounds, Tells
  <2> QED BY <1>2, <2>5 DEF IsElementOf, c
<1>5. CASE n # 0 /\ exhaustive
  <2>1. present = {}
    BY <1>5
  <2>2. Changes(seen, present) = {}
    BY <2>1 DEF Changes
  <2>3. Cardinality(Changes(seen, present)) = 0
    BY <2>2, EmptyCount
  <2>4. /\ c.span = n /\ c.transitions = 0 /\ c.indeterminate = 0
        /\ c.first = "Absent" /\ c.last = "Absent"
    BY <1>5 DEF UnretainedRange
  <2> HIDE DEF c
  <2>5. Bounds(c, seen, present)
    BY <2>1, <2>3, <2>4 DEF Bounds, Tells
  <2> QED BY <1>2, <2>5 DEF IsElementOf, c
<1>6. CASE n # 0 /\ ~exhaustive
  <2>1. seen # {}
    BY <1>6, EmptyCount
  <2>2. /\ c.span = n /\ c.transitions = 0 /\ c.indeterminate = n - 1
        /\ c.first = "Unretained" /\ c.last = "Unretained"
    BY <1>6 DEF UnretainedRange
  <2> HIDE DEF c
  <2>3. Bounds(c, seen, present)
    BY <1>1, <1>3, <2>1, <2>2 DEF Bounds, Tells
  <2> QED BY <1>2, <2>3 DEF IsElementOf, c
<1> QED BY <1>4, <1>5, <1>6

(* What one window says of a template it does.                             *)
LEMMA RetainedBounds ==
  ASSUME NEW x \in Nat
  PROVE  IsElementOf(RetainedWindow, {x}, {x})
<1>1. Cardinality({x}) = 1
  BY CountOfOne
<1>2. /\ Changes({x}, {x}) = {} /\ Earliest({x}) \subseteq {x} /\ Newest({x}) \subseteq {x}
  BY NoChangeOfOne
<1>3. Cardinality(Changes({x}, {x})) = 0
  BY <1>2, EmptyCount
<1>4. Tells("Present", Earliest({x}), {x}) /\ Tells("Present", Newest({x}), {x})
  BY <1>2 DEF Tells
<1>5. /\ RetainedWindow.span = 1 /\ RetainedWindow.transitions = 0
      /\ RetainedWindow.indeterminate = 0
      /\ RetainedWindow.first = "Present" /\ RetainedWindow.last = "Present"
  BY DEF RetainedWindow
<1>6. Bounds(RetainedWindow, {x}, {x})
  BY <1>1, <1>3, <1>4, <1>5 DEF Bounds
<1> QED BY <1>6, BaseElementsAreWellFormed DEF IsElementOf, WellFormed

-----------------------------------------------------------------------------
(* The instants of the leaves *)

LEMMA LogHasEnvelopes ==
  ASSUME NEW list, IsLog(list), NEW i \in 1..Len(list)
  PROVE  /\ list[i].envelope = Absent \/ \E x \in Interval : list[i].envelope = <<x>>
         /\ Instant(list, i) \in Nat
<1> DEFINE Closings == [window : Windows, envelope : Optional(Interval)]
<1>1. list \in Seq(Closings)
  BY DEF IsLog
<1>2. \A x \in Closings : x.envelope \in Optional(Interval)
  OBVIOUS
<1> HIDE DEF Closings
<1>3. list[i].envelope \in Optional(Interval)
  BY <1>1, <1>2
<1>4. list[i].envelope = Absent \/ \E x \in Interval : list[i].envelope = <<x>>
  BY <1>3 DEF Optional
<1>5. Instant(list, i) \in Nat
  BY <1>4 DEF Instant, Interval
<1> QED BY <1>4, <1>5

LEMMA LinesOfATemplate ==
  ASSUME NEW w, IsWindow(w), NEW t \in DOMAIN w.buckets
  PROVE  LinesOf(w) > 0
<1> DEFINE D == DOMAIN w.buckets
           f == [u \in D |-> w.buckets[u].count]
<1>1. IsFiniteSet(D) /\ \A u \in D : w.buckets[u].count \in Nat \ {0}
  BY DEF IsWindow, IsBucket
<1>2. \A u \in D : f[u] \in Nat \ {0}
  BY <1>1
<1>3. LinesOf(w) = SumFunctionOnSet(f, D)
  BY DEF LinesOf, CountOf, SumFunction
<1> HIDE DEF f, D
<1>4. t \in D
  BY DEF D
<1>5. SumFunctionOnSet(f, D) = f[t] + SumFunctionOnSet(f, D \ {t})
  <2>1. \A u \in D : f[u] \in Nat
    BY <1>2
  <2> QED BY <1>1, <1>4, <2>1, SumRemove
<1>6. SumFunctionOnSet(f, D \ {t}) \in Nat
  <2>1. IsFiniteSet(D \ {t}) /\ \A u \in D \ {t} : f[u] \in Nat
    BY <1>1, <1>2, FS_Subset
  <2> QED BY <2>1, SumIsNat
<1> QED BY <1>2, <1>3, <1>4, <1>5, <1>6

(* A template is present when something was observed.                      *)
LEMMA LeavesHaveInstants ==
  ASSUME NEW list, IsLog(list), NEW leaves, AreLeaves(leaves, list)
  PROVE  /\ Instants(list, leaves) \in SUBSET Nat /\ IsFiniteSet(Instants(list, leaves))
         /\ \A t : Presence(list, leaves, t) \in SUBSET Instants(list, leaves)
<1> DEFINE heard == {j \in leaves : LinesOf(list[j].window) > 0}
           f == [i \in heard |-> Instant(list, i)]
<1>1. leaves \subseteq 1..Len(list) /\ IsFiniteSet(leaves)
  BY DEF AreLeaves
<1>2. heard \in SUBSET leaves /\ IsFiniteSet(heard)
  BY <1>1, FS_Subset
<1>3. Instants(list, leaves) \in SUBSET Nat
  BY <1>1, LogHasEnvelopes DEF Instants
<1>4. IsFiniteSet(Instants(list, leaves))
  <2>1. Instants(list, leaves) = {f[i] : i \in heard}
    BY DEF Instants
  <2> HIDE DEF f, heard
  <2> QED BY <1>2, <2>1, ImageCount
<1>5. ASSUME NEW t, NEW j \in leaves, t \in DOMAIN list[j].window.buckets
      PROVE  j \in heard
  <2>1. IsWindow(list[j].window)
    BY <1>1, LogHasWindows
  <2> QED BY <1>5, <2>1, LinesOfATemplate
<1>6. \A t : Presence(list, leaves, t) \in SUBSET Instants(list, leaves)
  BY <1>5 DEF Presence, Instants
<1> QED BY <1>3, <1>4, <1>6

LEMMA InstantsOfOne ==
  ASSUME NEW list, NEW i
  PROVE  /\ LinesOf(list[i].window) > 0 => Instants(list, {i}) = {Instant(list, i)}
         /\ ~(LinesOf(list[i].window) > 0) => Instants(list, {i}) = {}
         /\ \A t : t \in DOMAIN list[i].window.buckets
                     => Presence(list, {i}, t) = {Instant(list, i)}
         /\ \A t : t \notin DOMAIN list[i].window.buckets => Presence(list, {i}, t) = {}
<1>1. LinesOf(list[i].window) > 0 => Instants(list, {i}) = {Instant(list, i)}
  BY DEF Instants
<1>2. ~(LinesOf(list[i].window) > 0) => Instants(list, {i}) = {}
  BY DEF Instants
<1>3. \A t : t \in DOMAIN list[i].window.buckets => Presence(list, {i}, t) = {Instant(list, i)}
  BY DEF Presence
<1>4. \A t : t \notin DOMAIN list[i].window.buckets => Presence(list, {i}, t) = {}
  BY DEF Presence
<1> QED BY <1>1, <1>2, <1>3, <1>4

LEMMA InstantsStay ==
  ASSUME NEW list, IsLog(list), NEW leaves, AreLeaves(leaves, list), NEW x
  PROVE  /\ Instants(Append(list, x), leaves) = Instants(list, leaves)
         /\ \A t : Presence(Append(list, x), leaves, t) = Presence(list, leaves, t)
         /\ TemplatesOver(Append(list, x), leaves) = TemplatesOver(list, leaves)
<1>1. \A i \in leaves : Append(list, x)[i] = list[i]
  BY DEF AreLeaves, IsLog
<1>2. \A i \in leaves : Instant(Append(list, x), i) = Instant(list, i)
  BY <1>1 DEF Instant
<1>3. Instants(Append(list, x), leaves) = Instants(list, leaves)
  BY <1>1, <1>2 DEF Instants
<1>4. \A t : Presence(Append(list, x), leaves, t) = Presence(list, leaves, t)
  BY <1>1, <1>2 DEF Presence
<1>5. TemplatesOver(Append(list, x), leaves) = TemplatesOver(list, leaves)
  BY OverLonger
<1> QED BY <1>3, <1>4, <1>5

-----------------------------------------------------------------------------
(* Documents that observe their leaves *)

(* What the envelope is of is stamped, and within it.                      *)
LiesWithin(list, leaves, envelope) ==
  envelope # Absent =>
    \A i \in leaves : /\ list[i].envelope # Absent
                      /\ envelope[1].start <= list[i].envelope[1].start
                      /\ list[i].envelope[1].end <= envelope[1].end

(* The windows follow one another, or are of one interval.                 *)
IsInOrder(list) ==
  /\ \A i \in 1..Len(list) :
       list[i].envelope # Absent => list[i].envelope[1].start < list[i].envelope[1].end
  /\ \A i, j \in 1..Len(list) :
       i < j /\ list[i].envelope # Absent /\ list[j].envelope # Absent =>
         \/ list[i].envelope = list[j].envelope
         \/ list[i].envelope[1].end <= list[j].envelope[1].start

Observes(doc, list, leaves) ==
  /\ ChurnSpan(doc) = Cardinality(Instants(list, leaves))
  /\ \A t : IsElementOf(ElementOf(doc, t), Instants(list, leaves), Presence(list, leaves, t))

(* Without a tail nothing is lost.                                         *)
IsComplete(doc, list, leaves) ==
  doc.tail_count = 0 => TemplatesOver(list, leaves) \subseteq Retained(doc)

(* As InTime says of two entries.                                          *)
AreRungs(list, leaves, lhs, rhs) ==
  /\ Absent \notin {lhs.envelope, rhs.envelope}
  /\ \/ Precedes(lhs.envelope, rhs.envelope)
     \/ Precedes(rhs.envelope, lhs.envelope)
     \/ lhs.envelope = rhs.envelope /\ \E i \in leaves : list[i].envelope = lhs.envelope
     \/ 0 \in {ChurnSpan(lhs), ChurnSpan(rhs)}

IsSilent(doc) == ChurnSpan(doc) = 0

AreShards(one, other) == \E x \in Nat : one \subseteq {x} /\ other \subseteq {x}

LEMMA EarlierLeaves ==
  ASSUME NEW list, IsLog(list), IsInOrder(list),
         NEW a, NEW b, AreLeaves(a, list), AreLeaves(b, list),
         NEW l \in Optional(Interval), NEW r \in Optional(Interval), Precedes(l, r),
         LiesWithin(list, a, l), LiesWithin(list, b, r)
  PROVE  Before(Instants(list, a), Instants(list, b))
<1>1. PICK x \in Interval, y \in Interval : l = <<x>> /\ r = <<y>>
  BY DEF Optional, Precedes
<1>2. /\ l # Absent /\ r # Absent /\ l[1] = x /\ r[1] = y
      /\ x.end \in Nat /\ y.start \in Nat /\ x.end <= y.start
  BY <1>1 DEF Interval, Precedes
<1>3. ASSUME NEW i \in a, NEW j \in b PROVE Instant(list, i) < Instant(list, j)
  <2>1. i \in 1..Len(list) /\ j \in 1..Len(list)
    BY DEF AreLeaves
  <2>2. /\ list[i].envelope # Absent /\ list[i].envelope[1].end <= x.end
        /\ list[j].envelope # Absent /\ y.start <= list[j].envelope[1].start
    BY <1>2 DEF LiesWithin
  <2>3. PICK u \in Interval : list[i].envelope = <<u>>
    BY <2>1, <2>2, LogHasEnvelopes
  <2>4. PICK v \in Interval : list[j].envelope = <<v>>
    BY <2>1, <2>2, LogHasEnvelopes
  <2>5. u.start < u.end
    <3>1. list[i].envelope[1].start < list[i].envelope[1].end
      BY <2>1, <2>2 DEF IsInOrder
    <3> QED BY <2>3, <3>1
  <2>6. Instant(list, i) = u.start /\ Instant(list, j) = v.start
    BY <2>2, <2>3, <2>4 DEF Instant
  <2>7. u.start \in Nat /\ u.end \in Nat /\ v.start \in Nat /\ u.end <= x.end /\ y.start <= v.start
    BY <2>2, <2>3, <2>4 DEF Interval
  <2> QED BY <1>2, <2>5, <2>6, <2>7
<1> QED BY <1>3 DEF Before, Instants

(* Leaves within the interval of a window are of that interval.            *)
LEMMA LeavesOfOneInterval ==
  ASSUME NEW list, IsLog(list), IsInOrder(list), NEW k \in 1..Len(list),
         list[k].envelope # Absent,
         NEW a, AreLeaves(a, list), LiesWithin(list, a, list[k].envelope)
  PROVE  Instants(list, a) \subseteq {Instant(list, k)}
<1>1. PICK x \in Interval : list[k].envelope = <<x>>
  BY LogHasEnvelopes
<1>2. x.start \in Nat /\ x.end \in Nat /\ x.start < x.end
  <2>1. list[k].envelope[1].start < list[k].envelope[1].end
    BY DEF IsInOrder
  <2> QED BY <1>1, <2>1 DEF Interval
<1>3. ASSUME NEW i \in a PROVE Instant(list, i) = Instant(list, k)
  <2>1. i \in 1..Len(list)
    BY DEF AreLeaves
  <2>2. /\ list[i].envelope # Absent /\ list[k].envelope[1].start <= list[i].envelope[1].start
        /\ list[i].envelope[1].end <= list[k].envelope[1].end
    BY DEF LiesWithin
  <2>3. PICK u \in Interval : list[i].envelope = <<u>>
    BY <2>1, <2>2, LogHasEnvelopes
  <2>4. u.start \in Nat /\ u.end \in Nat /\ u.start < u.end
    <3>1. list[i].envelope[1].start < list[i].envelope[1].end
      BY <2>1, <2>2 DEF IsInOrder
    <3> QED BY <2>3, <3>1 DEF Interval
  <2>5. x.start <= u.start /\ u.end <= x.end
    BY <1>1, <2>2, <2>3
  <2>6. Instant(list, i) = u.start /\ Instant(list, k) = x.start
    BY <1>1, <2>2, <2>3 DEF Instant
  <2>7. CASE i = k
    BY <2>7
  <2>8. CASE i < k
    <3>1. list[i].envelope = list[k].envelope \/ list[i].envelope[1].end <= list[k].envelope[1].start
      BY <2>1, <2>2, <2>8 DEF IsInOrder
    <3>2. u = x \/ u.end <= x.start
      BY <1>1, <2>3, <3>1
    <3> QED BY <1>2, <2>4, <2>5, <2>6, <3>2
  <2>9. CASE k < i
    <3>1. list[k].envelope = list[i].envelope \/ list[k].envelope[1].end <= list[i].envelope[1].start
      BY <2>1, <2>2, <2>9 DEF IsInOrder
    <3>2. u = x \/ x.end <= u.start
      BY <1>1, <2>3, <3>1
    <3> QED BY <1>2, <2>4, <2>5, <2>6, <3>2
  <2> QED BY <2>1, <2>7, <2>8, <2>9
<1> QED BY <1>3 DEF Instants

-----------------------------------------------------------------------------
(* Two rungs folded *)

(* How the instants of two rungs lie to one another when neither precedes. *)
LEMMA RungsMeet ==
  ASSUME NEW list, IsLog(list), IsInOrder(list),
         NEW a, NEW b, AreLeaves(a, list), AreLeaves(b, list),
         NEW lhs, NEW rhs, LiesWithin(list, a, lhs.envelope), LiesWithin(list, b, rhs.envelope),
         AreRungs(list, a, lhs, rhs),
         ~Precedes(lhs.envelope, rhs.envelope), ~Precedes(rhs.envelope, lhs.envelope)
  PROVE  IsSilent(lhs) \/ IsSilent(rhs) \/ AreShards(Instants(list, a), Instants(list, b))
<1>1. \/ lhs.envelope = rhs.envelope /\ \E i \in a : list[i].envelope = lhs.envelope
      \/ 0 \in {ChurnSpan(lhs), ChurnSpan(rhs)}
  BY DEF AreRungs
<1>2. CASE 0 \in {ChurnSpan(lhs), ChurnSpan(rhs)}
  BY <1>2 DEF IsSilent
<1>3. CASE lhs.envelope = rhs.envelope /\ \E i \in a : list[i].envelope = lhs.envelope
  <2>1. PICK k \in a : list[k].envelope = lhs.envelope
    BY <1>3
  <2>2. k \in 1..Len(list)
    BY <2>1 DEF AreLeaves
  <2>3. list[k].envelope # Absent
    BY <2>1 DEF AreRungs
  <2>4. LiesWithin(list, a, list[k].envelope) /\ LiesWithin(list, b, list[k].envelope)
    BY <1>3, <2>1
  <2>5. Instants(list, a) \subseteq {Instant(list, k)}
    BY <2>2, <2>3, <2>4, LeavesOfOneInterval
  <2>6. Instants(list, b) \subseteq {Instant(list, k)}
    BY <2>2, <2>3, <2>4, LeavesOfOneInterval
  <2>7. Instant(list, k) \in Nat
    BY <2>2, LogHasEnvelopes
  <2> QED BY <2>5, <2>6, <2>7 DEF AreShards
<1> QED BY <1>1, <1>2, <1>3

LEMMA NothingIsObserved == IsElementOf(EmptyChurn, {}, {})
<1>1. IsFiniteSet({}) /\ Cardinality({}) = 0
  BY EmptyCount
<1>2. UnretainedRange(0, TRUE) = EmptyChurn
  BY DEF UnretainedRange
<1>3. IsElementOf(UnretainedRange(Cardinality({}), TRUE), {}, {})
  <2>1. {} \in SUBSET Nat
    OBVIOUS
  <2> QED BY <1>1, <2>1, UnretainedBounds
<1> QED BY <1>1, <1>2, <1>3

(* What composing says of its inputs' churn.                               *)
IsFoldOf(doc, lhs, rhs) ==
  /\ doc.envelope = ComposedEnvelope(lhs.envelope, rhs.envelope)
  /\ doc.presence_churn = ChurnSummary(lhs, rhs, Retained(doc))
  /\ \A t \in Retained(doc) : Row(doc, t).churn = FoldedChurn(lhs, rhs, t)

(* Two ranges of instants, as AreRungs has them.                           *)
DoMeet(lhs, rhs, one, other) ==
  /\ Precedes(lhs.envelope, rhs.envelope) => Before(one, other)
  /\ Precedes(rhs.envelope, lhs.envelope) => Before(other, one)
  /\ \/ Precedes(lhs.envelope, rhs.envelope)
     \/ Precedes(rhs.envelope, lhs.envelope)
     \/ IsSilent(lhs) \/ IsSilent(rhs) \/ AreShards(one, other)

LEMMA RungsDoMeet ==
  ASSUME NEW list, IsLog(list), IsInOrder(list),
         NEW a, NEW b, AreLeaves(a, list), AreLeaves(b, list),
         NEW lhs, NEW rhs, IsDocument(lhs), IsDocument(rhs),
         LiesWithin(list, a, lhs.envelope), LiesWithin(list, b, rhs.envelope),
         AreRungs(list, a, lhs, rhs)
  PROVE  DoMeet(lhs, rhs, Instants(list, a), Instants(list, b))
<1>1. lhs.envelope \in Optional(Interval) /\ rhs.envelope \in Optional(Interval)
  BY DEF IsDocument, HasFrame
<1>2. Precedes(lhs.envelope, rhs.envelope) => Before(Instants(list, a), Instants(list, b))
  BY <1>1, EarlierLeaves
<1>3. Precedes(rhs.envelope, lhs.envelope) => Before(Instants(list, b), Instants(list, a))
  BY <1>1, EarlierLeaves
<1>4. \/ Precedes(lhs.envelope, rhs.envelope) \/ Precedes(rhs.envelope, lhs.envelope)
      \/ IsSilent(lhs) \/ IsSilent(rhs) \/ AreShards(Instants(list, a), Instants(list, b))
  BY RungsMeet
<1> QED BY <1>2, <1>3, <1>4 DEF DoMeet

(* Instants a document has seen.                                           *)
IsRange(one) == one \in SUBSET Nat /\ IsFiniteSet(one)

(* The span of the fold is the number of instants both have seen.          *)
LEMMA SpanIsFolded ==
  ASSUME NEW lhs, NEW rhs, IsDocument(lhs), IsDocument(rhs),
         NEW one, NEW other, IsRange(one), IsRange(other),
         ChurnSpan(lhs) = Cardinality(one), ChurnSpan(rhs) = Cardinality(other),
         DoMeet(lhs, rhs, one, other), NEW doc, IsFoldOf(doc, lhs, rhs)
  PROVE  ChurnSpan(doc) = Cardinality(one \cup other)
<1> DEFINE m == ChurnSpan(lhs)
           n == ChurnSpan(rhs)
           ordered == Precedes(lhs.envelope, rhs.envelope) \/ Precedes(rhs.envelope, lhs.envelope)
           span == IF ordered THEN m + n ELSE Max({m, n})
<1>1. m \in Nat /\ n \in Nat /\ m = Cardinality(one) /\ n = Cardinality(other)
  BY ElementIsTyped
<1>2. ChurnSpan(doc) = IF m = 0 /\ n = 0 THEN 0 ELSE span
  <2>1. PICK x, y, z : ChurnSummary(lhs, rhs, Retained(doc)) =
                         IF m = 0 /\ n = 0 THEN Absent
                         ELSE <<[span_windows |-> span, templates_with_churn |-> x,
                                 total_transitions |-> y, total_indeterminate |-> z]>>
    <3> HIDE DEF m, n, ordered
    <3> QED BY DEF ChurnSummary, m, n, ordered
  <2>2. doc.presence_churn = ChurnSummary(lhs, rhs, Retained(doc))
    BY DEF IsFoldOf
  <2> HIDE DEF span, m, n
  <2>3. CASE m = 0 /\ n = 0
    BY <2>1, <2>2, <2>3 DEF ChurnSpan
  <2>4. CASE ~(m = 0 /\ n = 0)
    <3>1. doc.presence_churn = <<[span_windows |-> span, templates_with_churn |-> x,
                                  total_transitions |-> y, total_indeterminate |-> z]>>
      BY <2>1, <2>2, <2>4
    <3>2. doc.presence_churn # Absent /\ doc.presence_churn[1].span_windows = span
      BY <3>1 DEF Absent
    <3> QED BY <2>4, <3>2 DEF ChurnSpan
  <2> QED BY <2>3, <2>4
<1>3. IsFiniteSet(one) /\ IsFiniteSet(other) /\ one \subseteq Nat /\ other \subseteq Nat
  BY DEF IsRange
<1>4. m = 0 => one = {}
  BY <1>1, <1>3, FS_EmptySet
<1>5. n = 0 => other = {}
  BY <1>1, <1>3, FS_EmptySet
<1>6. CASE ordered
  <2>1. one \cap other = {}
    BY <1>3, <1>6 DEF DoMeet, Before
  <2>2. Cardinality(one \cup other) = m + n
    <3>1. IsFiniteSet(one) /\ IsFiniteSet(other)
      BY <1>3
    <3>2. Cardinality(one \cup other) = Cardinality(one) + Cardinality(other)
      BY <2>1, <3>1, ApartCount
    <3> QED BY <1>1, <3>2
  <2>3. span = m + n
    BY <1>6
  <2> HIDE DEF m, n, span
  <2> QED BY <1>1, <1>2, <2>2, <2>3
<1>7. CASE ~ordered
  <2>1. span = Max({m, n})
    BY <1>7
  <2>2. m = 0 \/ n = 0 \/ AreShards(one, other)
    BY <1>7 DEF DoMeet, IsSilent
  <2>3. Max({m, n}) \in {m, n} /\ \A k \in {m, n} : Max({m, n}) >= k
    <3>1. {m, n} \in SUBSET Nat /\ {m, n} # {} /\ IsFiniteSet({m, n})
      BY <1>1, PairIsFinite
    <3> QED BY <3>1, MaxIsElement
  <2>4. Cardinality(one \cup other) = Max({m, n})
    <3>1. CASE m = 0
      <4>1. one \cup other = other
        BY <1>4, <3>1
      <4>2. Max({m, n}) = n
        BY <1>1, <2>3, <3>1
      <4> QED BY <1>1, <4>1, <4>2
    <3>2. CASE n = 0
      <4>1. one \cup other = one
        BY <1>5, <3>2
      <4>2. Max({m, n}) = m
        BY <1>1, <2>3, <3>2
      <4> QED BY <1>1, <4>1, <4>2
    <3>3. CASE m # 0 /\ n # 0
      <4>1. PICK x \in Nat : one \subseteq {x} /\ other \subseteq {x}
        BY <2>2, <3>3 DEF AreShards
      <4>2. one # {} /\ other # {}
        BY <1>1, <3>3, EmptyCount
      <4>3. one = {x} /\ other = {x} /\ one \cup other = {x}
        BY <4>1, <4>2
      <4>4. m = 1 /\ n = 1 /\ Cardinality(one \cup other) = 1
        BY <1>1, <4>3, CountOfOne
      <4> QED BY <2>3, <4>4
    <3> QED BY <3>1, <3>2, <3>3
  <2> HIDE DEF m, n, span
  <2> QED BY <1>1, <1>2, <2>1, <2>3, <2>4
<1> QED BY <1>6, <1>7

(* And the folded element is of the instants both have seen.               *)
LEMMA ElementIsFolded ==
  ASSUME NEW lhs, NEW rhs, NEW one, NEW other, IsRange(one), IsRange(other), NEW t,
         NEW p \in SUBSET one, NEW q \in SUBSET other,
         ChurnSpan(lhs) = Cardinality(one), ChurnSpan(rhs) = Cardinality(other),
         IsElementOf(ElementOf(lhs, t), one, p), IsElementOf(ElementOf(rhs, t), other, q),
         DoMeet(lhs, rhs, one, other)
  PROVE  IsElementOf(FoldedChurn(lhs, rhs, t), one \cup other, p \cup q)
<1> DEFINE x == ElementOf(lhs, t)
           y == ElementOf(rhs, t)
<1>1. IsFiniteSet(one) /\ IsFiniteSet(other) /\ one \in SUBSET Nat /\ other \in SUBSET Nat
  BY DEF IsRange
<1>2. x.span = ChurnSpan(lhs) /\ y.span = ChurnSpan(rhs)
  BY DEF IsElementOf, Bounds
<1>3. CASE ChurnSpan(lhs) = 0 /\ ChurnSpan(rhs) = 0
  <2>1. one = {} /\ p = {}
    BY <1>1, <1>2, <1>3, NothingSeen
  <2>2. other = {} /\ q = {}
    BY <1>1, <1>2, <1>3, NothingSeen
  <2>3. one \cup other = {} /\ p \cup q = {}
    BY <2>1, <2>2
  <2>4. FoldedChurn(lhs, rhs, t) = EmptyChurn
    BY <1>3 DEF FoldedChurn
  <2> QED BY <2>3, <2>4, NothingIsObserved
<1> HIDE DEF x, y
<1>4. /\ IsElementOf(x, one, p) /\ IsElementOf(y, other, q)
  BY DEF x, y
<1>5. CASE ~(ChurnSpan(lhs) = 0 /\ ChurnSpan(rhs) = 0)
  <2>1. FoldedChurn(lhs, rhs, t) =
          IF Precedes(lhs.envelope, rhs.envelope) THEN ChurnProduct(x, y)
          ELSE IF Precedes(rhs.envelope, lhs.envelope) THEN ChurnProduct(y, x)
          ELSE ChurnJoin(x, y)
    BY <1>5 DEF FoldedChurn, FoldedElement, x, y
  <2>2. CASE Precedes(lhs.envelope, rhs.envelope)
    <3>1. Before(one, other)
      BY <2>2 DEF DoMeet
    <3>2. IsElementOf(ChurnProduct(x, y), one \cup other, p \cup q)
      BY <1>1, <1>4, <3>1, ProductBounds
    <3> QED BY <2>1, <2>2, <3>2
  <2>3. CASE ~Precedes(lhs.envelope, rhs.envelope) /\ Precedes(rhs.envelope, lhs.envelope)
    <3>1. Before(other, one)
      BY <2>3 DEF DoMeet
    <3>2. IsElementOf(ChurnProduct(y, x), other \cup one, q \cup p)
      BY <1>1, <1>4, <3>1, ProductBounds
    <3>3. other \cup one = one \cup other /\ q \cup p = p \cup q
      OBVIOUS
    <3> QED BY <2>1, <2>3, <3>2, <3>3
  <2>4. CASE ~Precedes(lhs.envelope, rhs.envelope) /\ ~Precedes(rhs.envelope, lhs.envelope)
    <3>1. x.span = 0 \/ y.span = 0 \/ \E z \in Nat : one \subseteq {z} /\ other \subseteq {z}
      BY <1>2, <2>4 DEF DoMeet, IsSilent, AreShards
    <3>2. IsElementOf(ChurnJoin(x, y), one \cup other, p \cup q)
      BY <1>1, <1>4, <3>1, JoinBounds
    <3> QED BY <2>1, <2>4, <3>2
  <2> QED BY <2>2, <2>3, <2>4
<1> QED BY <1>3, <1>5

(* A fold observes the leaves of both.                                     *)
LEMMA FoldObserves ==
  ASSUME NEW list, IsLog(list), NEW a, NEW b, AreLeaves(a, list), AreLeaves(b, list),
         NEW lhs, NEW rhs, IsDocument(lhs), IsDocument(rhs),
         Observes(lhs, list, a), Observes(rhs, list, b),
         DoMeet(lhs, rhs, Instants(list, a), Instants(list, b)),
         NEW doc, IsFoldOf(doc, lhs, rhs), IsComplete(doc, list, a \cup b)
  PROVE  Observes(doc, list, a \cup b)
<1> DEFINE one == Instants(list, a)
           other == Instants(list, b)
           P(t) == Presence(list, a, t)
           Q(t) == Presence(list, b, t)
<1>1. IsRange(one) /\ IsRange(other)
  BY LeavesHaveInstants DEF IsRange
<1>2. \A t : P(t) \in SUBSET one
  BY LeavesHaveInstants
<1>3. \A t : Q(t) \in SUBSET other
  BY LeavesHaveInstants
<1>4. ChurnSpan(lhs) = Cardinality(one) /\ ChurnSpan(rhs) = Cardinality(other)
  BY DEF Observes
<1>5. ChurnSpan(doc) = Cardinality(one \cup other)
  BY <1>1, <1>4, SpanIsFolded
<1>6. ASSUME NEW t PROVE IsElementOf(FoldedChurn(lhs, rhs, t), one \cup other, P(t) \cup Q(t))
  <2>1. IsElementOf(ElementOf(lhs, t), one, P(t)) /\ IsElementOf(ElementOf(rhs, t), other, Q(t))
    BY DEF Observes
  <2>2. P(t) \in SUBSET one /\ Q(t) \in SUBSET other
    BY <1>2, <1>3
  <2> HIDE DEF P, Q
  <2> QED BY <1>1, <1>4, <2>1, <2>2, ElementIsFolded
<1>7. /\ Instants(list, a \cup b) = one \cup other
      /\ \A t : Presence(list, a \cup b, t) = P(t) \cup Q(t)
  <2>1. Instants(list, a \cup b) = one \cup other
    BY DEF Instants
  <2>2. \A t : Presence(list, a \cup b, t) = P(t) \cup Q(t)
    BY DEF Presence
  <2> QED BY ONLY <2>1, <2>2
<1> HIDE DEF P, Q, one, other
<1>8. ASSUME NEW t PROVE IsElementOf(ElementOf(doc, t), one \cup other, P(t) \cup Q(t))
  <2>1. CASE t \in Retained(doc)
    <3>1. ElementOf(doc, t) = FoldedChurn(lhs, rhs, t)
      BY <2>1 DEF ElementOf, IsFoldOf
    <3> QED BY <1>6, <3>1
  <2>2. CASE t \notin Retained(doc)
    <3> DEFINE exhaustive == RetentionIsExhaustive(doc)
    <3>1. ElementOf(doc, t) = UnretainedRange(Cardinality(one \cup other), exhaustive)
      BY <1>5, <2>2 DEF ElementOf
    <3>2. exhaustive \in BOOLEAN
      BY DEF RetentionIsExhaustive
    <3>3. ASSUME exhaustive PROVE P(t) \cup Q(t) = {}
      <4>1. t \notin TemplatesOver(list, a \cup b)
        BY <2>2, <3>3 DEF IsComplete, RetentionIsExhaustive
      <4>2. Presence(list, a \cup b, t) = {}
        BY <4>1 DEF Presence, TemplatesOver
      <4> QED BY <1>7, <4>2
    <3>4. /\ one \cup other \in SUBSET Nat /\ IsFiniteSet(one \cup other)
          /\ P(t) \cup Q(t) \in SUBSET (one \cup other)
      <4>1. IsFiniteSet(one \cup other)
        BY <1>1, FS_Union DEF IsRange
      <4> QED BY <1>1, <1>2, <1>3, <4>1 DEF IsRange
    <3> HIDE DEF exhaustive
    <3>5. IsElementOf(UnretainedRange(Cardinality(one \cup other), exhaustive),
                      one \cup other, P(t) \cup Q(t))
      BY <3>2, <3>3, <3>4, UnretainedBounds
    <3> QED BY <3>1, <3>5
  <2> QED BY <2>1, <2>2
<1>9. ChurnSpan(doc) = Cardinality(Instants(list, a \cup b))
  BY <1>5, <1>7
<1>10. \A t : IsElementOf(ElementOf(doc, t), Instants(list, a \cup b), Presence(list, a \cup b, t))
  BY <1>7, <1>8
<1> QED BY <1>9, <1>10 DEF Observes

(* The hull of two intervals.                                              *)
LEMMA EnvelopeIsAround ==
  ASSUME NEW list, IsLog(list), NEW a, NEW b, AreLeaves(a, list), AreLeaves(b, list),
         NEW l \in Optional(Interval), NEW r \in Optional(Interval), l # Absent, r # Absent,
         LiesWithin(list, a, l), LiesWithin(list, b, r)
  PROVE  LiesWithin(list, a \cup b, ComposedEnvelope(l, r))
<1>1. PICK x \in Interval, y \in Interval : l = <<x>> /\ r = <<y>>
  BY DEF Optional
<1>2. l[1] = x /\ r[1] = y /\ x.start \in Nat /\ x.end \in Nat /\ y.start \in Nat /\ y.end \in Nat
  BY <1>1 DEF Interval
<1> DEFINE first == Min({x.start, y.start})
           final == Max({x.end, y.end})
<1>3. first \in Nat /\ first <= x.start /\ first <= y.start
  <2>1. \E s \in {x.start, y.start} : \A u \in {x.start, y.start} : s <= u
    <3>1. x.start <= y.start \/ y.start <= x.start
      BY <1>2
    <3> QED BY <1>2, <3>1
  <2>2. first \in {x.start, y.start} /\ \A u \in {x.start, y.start} : first <= u
    BY <2>1 DEF Min
  <2> QED BY <1>2, <2>2
<1>4. final \in Nat /\ x.end <= final /\ y.end <= final
  <2>1. {x.end, y.end} \in SUBSET Nat /\ {x.end, y.end} # {} /\ IsFiniteSet({x.end, y.end})
    BY <1>2, PairIsFinite
  <2>2. final \in {x.end, y.end} /\ \A u \in {x.end, y.end} : final >= u
    BY <2>1, MaxIsElement
  <2> QED BY <1>2, <2>2
<1> HIDE DEF first, final
<1>5. ComposedEnvelope(l, r) = <<[start |-> first, end |-> final]>>
  BY <1>1, <1>2 DEF ComposedEnvelope, Absent, first, final
<1>6. ASSUME NEW i \in a \cup b
      PROVE  /\ list[i].envelope # Absent
             /\ first <= list[i].envelope[1].start /\ list[i].envelope[1].end <= final
  <2>1. i \in 1..Len(list)
    BY DEF AreLeaves
  <2>2. /\ list[i].envelope # Absent
        /\ \/ x.start <= list[i].envelope[1].start /\ list[i].envelope[1].end <= x.end
           \/ y.start <= list[i].envelope[1].start /\ list[i].envelope[1].end <= y.end
    BY <1>2 DEF LiesWithin
  <2>3. PICK u \in Interval : list[i].envelope = <<u>>
    BY <2>1, <2>2, LogHasEnvelopes
  <2>4. list[i].envelope[1] = u /\ u.start \in Nat /\ u.end \in Nat
    BY <2>3 DEF Interval
  <2> QED BY <1>2, <1>3, <1>4, <2>2, <2>4
<1> QED BY <1>5, <1>6 DEF LiesWithin

(* The rows a composed document carries are folded.                        *)
LEMMA ComposedIsAFold ==
  ASSUME NEW lhs, NEW rhs, IsDocument(lhs), IsDocument(rhs), compose(lhs, rhs) # Refusal
  PROVE  IsFoldOf(compose(lhs, rhs), lhs, rhs)
<1> DEFINE merged == MergedTemplates(lhs, rhs)
           cap == MinDeclaredCap(lhs.reservoir_size, rhs.reservoir_size)
           top == ComposedTopK(merged, Min({lhs.top_k_size, rhs.top_k_size}))
           lines == lhs.lines + rhs.lines
           reservoir == ComposedReservoir(lhs, rhs, merged, top, cap, lines)
           reserved == top \cup DOMAIN reservoir
           tops == TopRows(lhs, rhs, merged, top)
           rows == ReservoirRows(lhs, rhs, reservoir)
           doc == compose(lhs, rhs)
<1>1. Comparable(lhs, rhs)
  BY DEF compose
<1>2. doc = DocumentOver(lhs, rhs, merged, cap, top, reservoir)
  BY <1>1 DEF compose, Composed, Retaining
<1>3. \A t \in DOMAIN reservoir : \E surprise, novelty :
        reservoir[t] = Rederived(merged[t], lines, surprise, novelty)
  <2> HIDE DEF merged, cap, top, lines
  <2> QED BY ReservoirIsRederived
<1> HIDE DEF merged, cap, top, lines, reservoir
<1>4. /\ doc.envelope = ComposedEnvelope(lhs.envelope, rhs.envelope)
      /\ doc.top_k = tops /\ doc.reservoir = rows
      /\ doc.presence_churn = ChurnSummary(lhs, rhs, reserved)
  <2> HIDE DEF doc, tops, rows, reserved
  <2> QED BY <1>2, DocumentIsOver DEF tops, rows, reserved
<1>5. DOMAIN tops = top /\ \A t \in top : tops[t].churn = FoldedChurn(lhs, rhs, t)
  BY DEF TopRows
<1>6. DOMAIN rows = DOMAIN reservoir
  BY DEF ReservoirRows
<1>7. ASSUME NEW t \in DOMAIN reservoir PROVE rows[t].churn = FoldedChurn(lhs, rhs, t)
  <2>1. PICK surprise, novelty : reservoir[t] = Rederived(merged[t], lines, surprise, novelty)
    BY <1>3
  <2>2. \E salience, axis :
          reservoir[t] = [count |-> merged[t].count, level |-> merged[t].level,
                 component |-> merged[t].component,
                 role |-> merged[t].role, where |-> merged[t].where, surprise |-> surprise,
                 novelty |-> novelty, salience |-> salience, axis |-> axis, churn |-> EmptyChurn]
    BY <2>1 DEF Rederived
  <2> DEFINE entry == reservoir[t]
             row == [entry EXCEPT !.where = IF BothCarryCubes(lhs, rhs) THEN @ ELSE NoLabel,
                                  !.churn = FoldedChurn(lhs, rhs, t)]
  <2>3. rows[t] = row
    BY DEF ReservoirRows
  <2> HIDE DEF rows, entry
  <2>4. row.churn = FoldedChurn(lhs, rhs, t)
    BY <2>2 DEF entry
  <2> QED BY <2>3, <2>4
<1> HIDE DEF doc, tops, rows
<1>8. Retained(doc) = reserved
  BY <1>4, <1>5, <1>6 DEF Retained
<1>9. \A t \in reserved : Row(doc, t).churn = FoldedChurn(lhs, rhs, t)
  BY <1>4, <1>5, <1>6, <1>7 DEF Row
<1> HIDE DEF reserved
<1>10. IsFoldOf(doc, lhs, rhs)
  BY <1>4, <1>8, <1>9 DEF IsFoldOf
<1> QED BY <1>10 DEF doc

(* A composed document without a tail retains what both inputs did.        *)
LEMMA ComposedIsComplete ==
  ASSUME NEW list, IsLog(list), NEW a, NEW b, AreLeaves(a, list), AreLeaves(b, list),
         NEW lhs, NEW rhs, IsDocument(lhs), IsDocument(rhs),
         IsComplete(lhs, list, a), IsComplete(rhs, list, b),
         NEW doc, IsShareOf(doc, lhs, rhs)
  PROVE  IsComplete(doc, list, a \cup b)
<1> SUFFICES ASSUME doc.tail_count = 0
             PROVE  TemplatesOver(list, a \cup b) \subseteq Retained(doc)
  BY DEF IsComplete
<1> DEFINE ids == Retained(lhs) \cup Retained(rhs)
           tail == ids \ Retained(doc)
           g == [t \in tail |-> BothCounts(lhs, rhs, t)]
<1>1. /\ HasRows(lhs) /\ HasRows(rhs)
      /\ lhs.tail_count \in Nat /\ rhs.tail_count \in Nat
  BY DEF IsDocument, HasFrame
<1>2. /\ doc.tail_count = SumFunction(g) + Residual(lhs, rhs)
      /\ Residual(lhs, rhs) = lhs.tail_count + rhs.tail_count
  BY DEF IsShareOf, Residual
<1>3. \A t \in ids : BothCounts(lhs, rhs, t) \in Nat \ {0}
  <2>1. \A t \in ids : MergedTemplates(lhs, rhs)[t].count \in Nat \ {0}
                       /\ MergedTemplates(lhs, rhs)[t].count = BothCounts(lhs, rhs, t)
    BY <1>1, TemplatesMerge DEF BothCounts
  <2> QED BY <2>1
<1>4. IsFiniteSet(tail)
  BY <1>1, FS_Union, FS_Subset DEF HasRows
<1>5. DOMAIN g = tail /\ IsABag(g)
  BY <1>3 DEF IsABag
<1>6. SumFunction(g) \in Nat
  <2>1. NatOn(g, tail)
    BY <1>3 DEF NatOn
  <2> HIDE DEF g, tail, ids
  <2> QED BY <1>4, <1>5, <2>1, LeafSum
<1> HIDE DEF g
<1>7. SumFunction(g) <= 0 /\ lhs.tail_count = 0 /\ rhs.tail_count = 0
  BY <1>1, <1>2, <1>6
<1>8. tail = {}
  BY <1>4, <1>5, <1>7, ZeroSumIsEmpty
<1>9. TemplatesOver(list, a) \subseteq Retained(lhs) /\ TemplatesOver(list, b) \subseteq Retained(rhs)
  BY <1>7 DEF IsComplete
<1>10. TemplatesOver(list, a \cup b) = TemplatesOver(list, a) \cup TemplatesOver(list, b)
  BY DEF TemplatesOver
<1> QED BY <1>8, <1>9, <1>10

IsCarried(doc, w, envelope) ==
  /\ doc.envelope = envelope /\ doc.top_k = BaseTop(w)
  /\ doc.reservoir = BaseReservoir(w) /\ doc.presence_churn = BaseChurn(w)

LEMMA BaseCarries ==
  ASSUME NEW w, NEW envelope, NEW leaf
  PROVE  IsCarried(BaseDocument(w, envelope, leaf), w, envelope)
<1> DEFINE doc == BaseDocument(w, envelope, leaf)
           tops == BaseTop(w)
           rows == BaseReservoir(w)
<1>1. /\ doc.lines = LinesOf(w) /\ doc.envelope = envelope
      /\ doc.source = [fields |-> w.source, host_count |-> <<1>>]
      /\ doc.unique_templates = Cardinality(DOMAIN w.buckets)
      /\ doc.top_k = tops /\ doc.reservoir = rows
      /\ doc.tail_count = CountOf(w.buckets, BaseTail(w))
      /\ doc.tail_unique = Cardinality(BaseTail(w))
      /\ doc.presence_churn = BaseChurn(w)
      /\ doc.provenance = << >> /\ doc.coordinate = SetToBag({leaf})
      /\ doc.behavior = w.behavior /\ doc.cube = BaseCube(w)
  <2>1. IsOver(doc, w, envelope, leaf)
    BY BaseIsOver
  <2> HIDE DEF doc
  <2> QED BY <2>1 DEF IsOver
<1> HIDE DEF doc, tops, rows
<1>2. IsCarried(doc, w, envelope)
  BY <1>1 DEF IsCarried, tops, rows
<1> QED BY <1>2 DEF doc

(* What a window's document says of its churn.                             *)
LEMMA BaseObserves ==
  ASSUME NEW list, IsLog(list), NEW i \in 1..Len(list), NEW leaf,
         NEW doc, doc = BaseDocument(list[i].window, list[i].envelope, leaf)
  PROVE  /\ LiesWithin(list, {i}, doc.envelope)
         /\ Observes(doc, list, {i})
         /\ IsComplete(doc, list, {i})
<1> DEFINE w == list[i].window
           x == Instant(list, i)
           D == DOMAIN w.buckets
           seen == Instants(list, {i})
           tail == D \ Retained(doc)
<1>1. w \in Windows /\ IsWindow(w) /\ LinesOf(w) \in Nat /\ x \in Nat
  BY LogHasWindows, LogHasEnvelopes
<1>2. list[i].envelope = Absent \/ \E y \in Interval : list[i].envelope = <<y>>
  BY LogHasEnvelopes
<1>3. list[i].envelope \in Optional(Interval)
  BY <1>2 DEF Optional
<1>4. IsDocument(doc) /\ IsShareOfWindow(doc, w)
  BY <1>1, <1>3, BaseIsADocument
<1>5. /\ doc.envelope = list[i].envelope /\ doc.top_k = BaseTop(w)
      /\ doc.reservoir = BaseReservoir(w) /\ doc.presence_churn = BaseChurn(w)
  <2>1. IsCarried(doc, w, list[i].envelope)
    BY BaseCarries
  <2> HIDE DEF w
  <2> QED BY ONLY <2>1 DEF IsCarried
<1> HIDE DEF w
<1>6. /\ Retained(doc) \subseteq D
      /\ doc.tail_count = CountOf(w.buckets, tail)
  BY <1>4 DEF IsShareOfWindow
<1>7. LiesWithin(list, {i}, doc.envelope)
  <2>1. ASSUME NEW y \in Interval PROVE y.start <= y.start /\ y.end <= y.end
    BY DEF Interval
  <2> QED BY <1>2, <1>5, <2>1 DEF LiesWithin
<1>8. IsComplete(doc, list, {i})
  <2>1. TemplatesOver(list, {i}) = D
    BY DEF TemplatesOver, w
  <2>2. ASSUME doc.tail_count = 0 PROVE tail = {}
    <3> DEFINE g == [t \in tail |-> w.buckets[t].count]
    <3>1. IsFiniteSet(tail) /\ \A t \in tail : w.buckets[t].count \in Nat \ {0}
      BY <1>1, FS_Subset DEF IsWindow, IsBucket
    <3>2. DOMAIN g = tail /\ IsABag(g)
      BY <3>1 DEF IsABag
    <3>3. SumFunction(g) = 0
      BY <1>6, <2>2 DEF CountOf
    <3> HIDE DEF g, tail
    <3>4. SumFunction(g) <= 0
      BY <3>3
    <3> QED BY <3>1, <3>2, <3>4, ZeroSumIsEmpty
  <2> QED BY <2>1, <2>2 DEF IsComplete
<1>9. \A t \in Retained(doc) : Row(doc, t).churn = RetainedWindow
  <2>1. \A t \in TopK(w.buckets) : BaseTop(w)[t].churn = RetainedWindow
    BY DEF BaseTop, TopRow
  <2>2. \A t \in Admitted(w) : BaseReservoir(w)[t].churn = RetainedWindow
    BY DEF BaseReservoir, ReservoirRow
  <2>3. DOMAIN BaseTop(w) = TopK(w.buckets) /\ DOMAIN BaseReservoir(w) = Admitted(w)
    BY DEF BaseTop, BaseReservoir
  <2> QED BY <1>5, <2>1, <2>2, <2>3 DEF Row, Retained
<1>10. /\ LinesOf(w) > 0 => seen = {x}
       /\ ~(LinesOf(w) > 0) => seen = {}
  BY InstantsOfOne DEF w
<1>11. /\ \A t \in D : Presence(list, {i}, t) = {x}
       /\ \A t : t \notin D => Presence(list, {i}, t) = {}
  BY InstantsOfOne DEF w
<1>12. \A t \in D : LinesOf(w) > 0
  BY <1>1, LinesOfATemplate
<1> HIDE DEF x, D, seen
<1>13. ChurnSpan(doc) = Cardinality(seen)
  <2>1. CASE LinesOf(w) = 0
    <3>1. ChurnSpan(doc) = 0
      BY <1>5, <2>1 DEF ChurnSpan, BaseChurn
    <3>2. seen = {}
      BY <1>10, <2>1
    <3> QED BY <3>1, <3>2, EmptyCount
  <2>2. CASE LinesOf(w) # 0
    <3>1. ChurnSpan(doc) = 1
      BY <1>5, <2>2 DEF ChurnSpan, BaseChurn, Absent
    <3>2. seen = {x}
      BY <1>1, <1>10, <2>2
    <3> QED BY <3>1, <3>2, CountOfOne
  <2> QED BY <2>1, <2>2
<1>14. ASSUME NEW t PROVE IsElementOf(ElementOf(doc, t), seen, Presence(list, {i}, t))
  <2>1. CASE t \in Retained(doc)
    <3>1. ElementOf(doc, t) = RetainedWindow
      BY <1>9, <2>1 DEF ElementOf
    <3>2. seen = {x} /\ Presence(list, {i}, t) = {x}
      BY <1>6, <1>10, <1>11, <1>12, <2>1
    <3> QED BY <1>1, <3>1, <3>2, RetainedBounds
  <2>2. CASE t \notin Retained(doc)
    <3> DEFINE exhaustive == RetentionIsExhaustive(doc)
    <3>1. ElementOf(doc, t) = UnretainedRange(Cardinality(seen), exhaustive)
      BY <1>13, <2>2 DEF ElementOf
    <3>2. exhaustive \in BOOLEAN
      BY DEF RetentionIsExhaustive
    <3>3. ASSUME exhaustive PROVE Presence(list, {i}, t) = {}
      <4>1. t \notin TemplatesOver(list, {i})
        BY <1>8, <2>2, <3>3 DEF IsComplete, RetentionIsExhaustive
      <4>2. TemplatesOver(list, {i}) = D
        BY DEF TemplatesOver, D, w
      <4> QED BY <1>11, <4>1, <4>2
    <3>4. /\ seen \in SUBSET Nat /\ IsFiniteSet(seen)
          /\ Presence(list, {i}, t) \in SUBSET seen
      <4>1. AreLeaves({i}, list)
        BY OverOne
      <4> QED BY <4>1, LeavesHaveInstants DEF seen
    <3> HIDE DEF exhaustive
    <3>5. IsElementOf(UnretainedRange(Cardinality(seen), exhaustive), seen, Presence(list, {i}, t))
      BY <3>2, <3>3, <3>4, UnretainedBounds
    <3> QED BY <3>1, <3>5
  <2> QED BY <2>1, <2>2
<1>15. Observes(doc, list, {i})
  BY <1>13, <1>14 DEF Observes, seen
<1> QED BY <1>7, <1>8, <1>15

-----------------------------------------------------------------------------
(* The churn of the documents held *)

IsTold(e, list) ==
  /\ IsComplete(e.doc, list, e.leaves)
  /\ e.timely => LiesWithin(list, e.leaves, e.doc.envelope) /\ Observes(e.doc, list, e.leaves)

(* The windows are stamped in order, a document without a tail retains all *)
(* its leaves did, and one rolled up along time has seen what they have.   *)
ChurnInv ==
  /\ IsInOrder(closed)
  /\ \A e \in pool : IsTold(e, closed)

LEMMA OrderIsKept ==
  ASSUME IsLog(closed), IsInOrder(closed), NEW w \in Windows, NEW placement
  PROVE  IsInOrder(Append(closed, Closing(w, Envelope(placement))))
<1> DEFINE envelope == Envelope(placement)
           new == Append(closed, Closing(w, envelope))
           n == Len(closed)
<1>1. envelope \in Optional(Interval)
  BY EnvelopeIsPlaced
<1>2. IsLog(new) /\ Len(new) = n + 1 /\ n \in Nat /\ new[n + 1].envelope = envelope
  <2> HIDE DEF envelope
  <2> QED BY <1>1, LogGrows DEF Closing
<1>3. \A i \in 1..n : new[i] = closed[i]
  BY DEF IsLog
<1>4. DOMAIN closed = 1..n
  BY DEF IsLog
<1>5. \/ envelope = Absent
      \/ Stamped = {} /\ envelope = <<[start |-> 0, end |-> 1]>>
      \/ \E m \in 1..n : \E x \in Interval :
           /\ closed[m].envelope = <<x>> /\ \A i \in Stamped : i <= m
           /\ envelope \in {<<x>>, <<[start |-> x.end, end |-> x.end + 1]>>}
  <2>1. CASE placement = "unstamped" \/ Stamped = {}
    BY <2>1 DEF Envelope
  <2>2. CASE placement # "unstamped" /\ Stamped # {}
    <3>1. PICK m \in 1..n, x \in Interval :
            closed[m].envelope = <<x>> /\ Latest = x /\ \A i \in Stamped : i <= m
      BY <2>2, LatestIsClosed
    <3>2. envelope \in {<<x>>, <<[start |-> x.end, end |-> x.end + 1]>>}
      BY <2>2, <3>1 DEF Envelope
    <3> QED BY <3>1, <3>2
  <2> QED BY <2>1, <2>2
<1> HIDE DEF new, envelope
<1>6. ASSUME NEW i \in 1..n, closed[i].envelope # Absent
      PROVE  \E u \in Interval : closed[i].envelope = <<u>> /\ u.start < u.end
  <2>1. PICK u \in Interval : closed[i].envelope = <<u>>
    BY <1>6, LogHasEnvelopes
  <2>2. closed[i].envelope[1].start < closed[i].envelope[1].end
    BY <1>6 DEF IsInOrder
  <2> QED BY <2>1, <2>2
<1>12. ASSUME NEW m \in 1..n, NEW x \in Interval, closed[m].envelope = <<x>>
       PROVE  x.start < x.end
  <2>1. closed[m].envelope # Absent
    BY <1>12 DEF Absent
  <2>2. PICK u \in Interval : closed[m].envelope = <<u>> /\ u.start < u.end
    BY <1>6, <2>1
  <2>3. u = x
    BY <1>12, <2>2
  <2> QED BY <2>2, <2>3
<1>7. envelope # Absent => envelope[1].start < envelope[1].end
  <2>1. ASSUME NEW m \in 1..n, NEW x \in Interval, closed[m].envelope = <<x>>,
               envelope \in {<<x>>, <<[start |-> x.end, end |-> x.end + 1]>>}
        PROVE  envelope[1].start < envelope[1].end
    <3>1. x.start < x.end /\ x.end \in Nat
      BY <1>12, <2>1 DEF Interval
    <3> QED BY <2>1, <3>1
  <2> QED BY <1>5, <2>1
<1>8. ASSUME NEW i \in 1..n, closed[i].envelope # Absent, envelope # Absent
      PROVE  closed[i].envelope = envelope \/ closed[i].envelope[1].end <= envelope[1].start
  <2>1. i \in Stamped
    BY <1>4, <1>8 DEF Stamped
  <2>2. PICK m \in 1..n, x \in Interval :
          /\ closed[m].envelope = <<x>> /\ \A j \in Stamped : j <= m
          /\ envelope \in {<<x>>, <<[start |-> x.end, end |-> x.end + 1]>>}
    BY <1>5, <1>8, <2>1
  <2>3. PICK u \in Interval : closed[i].envelope = <<u>> /\ u.start < u.end
    BY <1>6, <1>8
  <2>4. x.start < x.end
    BY <1>12, <2>2
  <2>5. u.start \in Nat /\ u.end \in Nat /\ x.start \in Nat /\ x.end \in Nat
    BY DEF Interval
  <2>6. u = x \/ u.end <= x.start
    <3>1. CASE i = m
      BY <2>2, <2>3, <3>1
    <3>2. CASE i < m
      <4>1. closed[i].envelope = closed[m].envelope \/ closed[i].envelope[1].end <= closed[m].envelope[1].start
        BY <1>8, <2>2, <3>2 DEF IsInOrder, Absent
      <4> QED BY <2>2, <2>3, <4>1
    <3> QED BY <1>2, <2>1, <2>2, <3>1, <3>2
  <2> QED BY <2>2, <2>3, <2>4, <2>5, <2>6
<1>9. ASSUME NEW i \in 1..(n + 1), new[i].envelope # Absent
      PROVE  new[i].envelope[1].start < new[i].envelope[1].end
  <2>1. CASE i = n + 1
    BY <1>2, <1>7, <1>9, <2>1
  <2>2. CASE i # n + 1
    <3>1. i \in 1..n
      BY <1>2, <2>2
    <3> QED BY <1>3, <1>9, <3>1 DEF IsInOrder
  <2> QED BY <2>1, <2>2
<1>10. ASSUME NEW i \in 1..(n + 1), NEW j \in 1..(n + 1), i < j,
              new[i].envelope # Absent, new[j].envelope # Absent
       PROVE  new[i].envelope = new[j].envelope \/ new[i].envelope[1].end <= new[j].envelope[1].start
  <2>1. i \in 1..n
    BY <1>2, <1>10
  <2>2. CASE j = n + 1
    BY <1>2, <1>3, <1>8, <1>10, <2>1, <2>2
  <2>3. CASE j # n + 1
    <3>1. j \in 1..n
      BY <1>2, <2>3
    <3> QED BY <1>3, <1>10, <2>1, <3>1 DEF IsInOrder
  <2> QED BY <2>2, <2>3
<1>11. IsInOrder(new)
  BY <1>2, <1>9, <1>10 DEF IsInOrder
<1> QED BY <1>11 DEF new, envelope

LEMMA ChurnStays ==
  ASSUME NEW list, IsLog(list), NEW e, AreLeaves(e.leaves, list), IsTold(e, list), NEW x
  PROVE  IsTold(e, Append(list, x))
<1> DEFINE new == Append(list, x)
<1>1. \A i \in e.leaves : new[i] = list[i]
  BY DEF AreLeaves, IsLog
<1>2. /\ Instants(new, e.leaves) = Instants(list, e.leaves)
      /\ \A t : Presence(new, e.leaves, t) = Presence(list, e.leaves, t)
      /\ TemplatesOver(new, e.leaves) = TemplatesOver(list, e.leaves)
  <2>1. Instants(new, e.leaves) = Instants(list, e.leaves)
    BY InstantsStay
  <2>2. \A t : Presence(new, e.leaves, t) = Presence(list, e.leaves, t)
    BY InstantsStay
  <2>3. TemplatesOver(new, e.leaves) = TemplatesOver(list, e.leaves)
    BY InstantsStay
  <2> QED BY ONLY <2>1, <2>2, <2>3
<1> HIDE DEF new
<1>3. IsComplete(e.doc, new, e.leaves)
  BY <1>2 DEF IsTold, IsComplete
<1>4. ASSUME e.timely PROVE LiesWithin(new, e.leaves, e.doc.envelope)
  <2>1. LiesWithin(list, e.leaves, e.doc.envelope)
    BY <1>4 DEF IsTold
  <2> QED BY <1>1, <2>1 DEF LiesWithin
<1>5. ASSUME e.timely PROVE Observes(e.doc, new, e.leaves)
  <2>1. Observes(e.doc, list, e.leaves)
    BY <1>5 DEF IsTold
  <2> QED BY <1>2, <2>1 DEF Observes
<1> QED BY <1>3, <1>4, <1>5 DEF IsTold, new

LEMMA ChurnStarts == Init => ChurnInv
<1> SUFFICES ASSUME Init PROVE ChurnInv
  OBVIOUS
<1>1. IsInOrder(closed)
  BY DEF Init, IsInOrder
<1> QED BY <1>1 DEF Init, ChurnInv

LEMMA ChurnTakesAWindow ==
  ASSUME PoolInv, ChurnInv, NEW w \in Windows, NEW placement, Close(w, placement)
  PROVE  ChurnInv'
<1>1. PICK list, old, envelope : list = closed /\ old = pool /\ envelope = Envelope(placement)
  OBVIOUS
<1> DEFINE i == Len(list) + 1
           new == Append(list, Closing(w, envelope))
           one == [leaves |-> {i}, timely |-> TRUE, doc |-> BaseDocument(w, envelope, i)]
<1>2. /\ IsLog(list) /\ \A e \in old : AreLeaves(e.leaves, list) /\ IsTold(e, list)
      /\ envelope \in Optional(Interval)
  BY <1>1, EnvelopeIsPlaced DEF PoolInv, ChurnInv, IsEntry
<1>3. closed' = new /\ pool' = old \cup {one}
  BY <1>1 DEF Close, Closing
<1>4. IsInOrder(new)
  BY <1>1, OrderIsKept DEF PoolInv, ChurnInv
<1>5. /\ one.leaves = {i} /\ one.doc = BaseDocument(w, envelope, i)
  OBVIOUS
<1> HIDE DEF one, new
<1>6. \A e \in old : IsTold(e, new)
  BY <1>2, ChurnStays DEF new
<1>7. /\ IsLog(new) /\ Len(new) = i /\ i \in 1..Len(new)
      /\ new[i].window = w /\ new[i].envelope = envelope
  <2>1. IsLog(new) /\ Len(new) = i /\ new[i] = Closing(w, envelope) /\ Len(list) \in Nat
    BY <1>2, LogGrows DEF new
  <2> QED BY <2>1 DEF Closing
<1> HIDE DEF i
<1>8. one.doc = BaseDocument(new[i].window, new[i].envelope, i)
  BY <1>5, <1>7
<1>9. /\ LiesWithin(new, {i}, one.doc.envelope) /\ Observes(one.doc, new, {i})
      /\ IsComplete(one.doc, new, {i})
  BY <1>7, <1>8, BaseObserves
<1>10. IsTold(one, new)
  BY <1>5, <1>9 DEF IsTold
<1> QED BY <1>3, <1>4, <1>6, <1>10 DEF ChurnInv

(* Only rungs that are in time of one another stay timely.                 *)
LEMMA ChurnIsRolled ==
  ASSUME NEW list, IsLog(list), IsInOrder(list), NEW a, NEW b, IsEntry(a, list), IsEntry(b, list),
         IsTold(a, list), IsTold(b, list), compose(a.doc, b.doc) # Refusal,
         NEW e, e.leaves = a.leaves \cup b.leaves, e.doc = compose(a.doc, b.doc),
         e.timely => a.timely /\ b.timely /\ AreRungs(list, a.leaves, a.doc, b.doc)
  PROVE  IsTold(e, list)
<1>1. /\ AreLeaves(a.leaves, list) /\ IsDocument(a.doc) /\ AreLeaves(b.leaves, list) /\ IsDocument(b.doc)
      /\ IsComplete(a.doc, list, a.leaves) /\ IsComplete(b.doc, list, b.leaves)
  BY DEF IsEntry, IsTold
<1>2. IsShareOf(e.doc, a.doc, b.doc)
  BY <1>1, ComposedIsADocument
<1>3. IsFoldOf(e.doc, a.doc, b.doc)
  BY <1>1, ComposedIsAFold
<1>4. IsComplete(e.doc, list, a.leaves \cup b.leaves)
  BY <1>1, <1>2, ComposedIsComplete
<1>5. ASSUME e.timely
      PROVE  /\ LiesWithin(list, a.leaves \cup b.leaves, e.doc.envelope)
             /\ Observes(e.doc, list, a.leaves \cup b.leaves)
  <2>1. /\ LiesWithin(list, a.leaves, a.doc.envelope) /\ Observes(a.doc, list, a.leaves)
        /\ LiesWithin(list, b.leaves, b.doc.envelope) /\ Observes(b.doc, list, b.leaves)
        /\ AreRungs(list, a.leaves, a.doc, b.doc)
    BY <1>5 DEF IsTold
  <2>2. DoMeet(a.doc, b.doc, Instants(list, a.leaves), Instants(list, b.leaves))
    BY <1>1, <2>1, RungsDoMeet
  <2>3. Observes(e.doc, list, a.leaves \cup b.leaves)
    BY <1>1, <1>3, <1>4, <2>1, <2>2, FoldObserves
  <2>4. /\ a.doc.envelope \in Optional(Interval) /\ b.doc.envelope \in Optional(Interval)
        /\ a.doc.envelope # Absent /\ b.doc.envelope # Absent
    BY <1>1, <2>1 DEF IsDocument, HasFrame, AreRungs
  <2>5. LiesWithin(list, a.leaves \cup b.leaves, ComposedEnvelope(a.doc.envelope, b.doc.envelope))
    BY <1>1, <2>1, <2>4, EnvelopeIsAround
  <2> QED BY <1>3, <2>3, <2>5 DEF IsFoldOf
<1> QED BY <1>4, <1>5 DEF IsTold

LEMMA ChurnRolls ==
  ASSUME PoolInv, ChurnInv, NEW a \in pool, NEW b \in pool, Roll(a, b)
  PROVE  ChurnInv'
<1>1. PICK list, old, timely :
        list = closed /\ old = pool /\ timely = (a.timely /\ b.timely /\ InTime(a, b))
  OBVIOUS
<1> DEFINE doc == compose(a.doc, b.doc)
           one == [leaves |-> a.leaves \cup b.leaves, doc |-> doc, timely |-> timely]
<1>2. /\ IsLog(list) /\ IsInOrder(list) /\ \A e \in old : IsEntry(e, list) /\ IsTold(e, list)
      /\ a \in old /\ b \in old
  BY <1>1 DEF PoolInv, ChurnInv
<1>3. /\ closed' = list /\ pool' = (old \ {a, b}) \cup {one} /\ doc # Refusal
  BY <1>1 DEF Roll
<1>4. one.leaves = a.leaves \cup b.leaves /\ one.doc = doc /\ one.timely = timely
  OBVIOUS
<1>5. timely => a.timely /\ b.timely /\ InTime(a, b)
  BY <1>1, Zenon
<1>6. InTime(a, b) => AreRungs(list, a.leaves, a.doc, b.doc)
  BY <1>1 DEF InTime, AreRungs
<1> HIDE DEF one
<1>7. one.timely => a.timely /\ b.timely /\ AreRungs(list, a.leaves, a.doc, b.doc)
  BY <1>4, <1>5, <1>6, Zenon
<1>8. IsTold(one, list)
  <2>1. IsEntry(a, list) /\ IsEntry(b, list) /\ IsTold(a, list) /\ IsTold(b, list)
    BY <1>2
  <2> QED BY <1>2, <1>3, <1>4, <1>7, <2>1, ChurnIsRolled
<1>9. \A e \in (old \ {a, b}) \cup {one} : IsTold(e, list)
  BY <1>2, <1>8
<1> QED BY <1>2, <1>3, <1>9 DEF ChurnInv

(* ChurnInv is inductive beside PoolInv.                                   *)
LEMMA ChurnIsAlwaysTold == Spec => []ChurnInv
<1>1. PoolInv /\ ChurnInv /\ [Next]_vars => ChurnInv'
  <2> SUFFICES ASSUME PoolInv, ChurnInv, [Next]_vars PROVE ChurnInv'
    OBVIOUS
  <2>1. CASE UNCHANGED vars
    BY <2>1 DEF ChurnInv, vars
  <2>2. CASE \E w \in Windows, placement \in Placements : Close(w, placement)
    BY <2>2, ChurnTakesAWindow
  <2>3. CASE \E a, b \in pool : Roll(a, b)
    BY <2>3, ChurnRolls
  <2> QED BY <2>1, <2>2, <2>3 DEF Next
<1> QED BY <1>1, ChurnStarts, PoolStaysWhole, PTL DEF Spec

(* However a ladder is rolled up along time, the churn of a template says  *)
(* nothing that did not happen, and declares what it cannot say: compose   *)
(* orders two documents by their envelopes and joins the shards of one     *)
(* window, and an element it makes up for a template that a side lost is   *)
(* as indeterminate as that side was long.                                 *)
THEOREM ChurnAlwaysBoundsTheTruth == Spec => []ChurnBoundsTheTruth
<1>1. ChurnInv => ChurnBoundsTheTruth
  <2> SUFFICES ASSUME ChurnInv, NEW e \in pool, e.timely
               PROVE  LET seen == Instants(closed, e.leaves) IN
                      /\ ChurnSpan(e.doc) = Cardinality(seen)
                      /\ \A t \in Retained(e.doc) :
                           Bounds(Row(e.doc, t).churn, seen, Presence(closed, e.leaves, t))
    BY DEF ChurnBoundsTheTruth
  <2>1. Observes(e.doc, closed, e.leaves)
    BY DEF ChurnInv, IsTold
  <2>2. ASSUME NEW t \in Retained(e.doc)
        PROVE  Bounds(Row(e.doc, t).churn, Instants(closed, e.leaves), Presence(closed, e.leaves, t))
    <3>1. IsElementOf(ElementOf(e.doc, t), Instants(closed, e.leaves), Presence(closed, e.leaves, t))
      BY <2>1 DEF Observes
    <3> QED BY <3>1 DEF ElementOf, IsElementOf
  <2> QED BY <2>1, <2>2 DEF Observes
<1> QED BY <1>1, ChurnIsAlwaysTold, PTL
=============================================================================
