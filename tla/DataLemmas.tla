----------------------------- MODULE DataLemmas -----------------------------
(***************************************************************************)
(* What the proofs of several components need of the data they are about:  *)
(* sums over finite sets, bags, the FIFO of a bounded map, ranks in a      *)
(* strict order, folds over a sequence, orders of a set and least elements.*)
(*                                                                         *)
(* The provers cannot instantiate an induction theorem that takes a        *)
(* predicate.  A set can stand for the predicate: SetInduction is proved   *)
(* from the well-foundedness of < on Nat, and every induction here is an   *)
(* instance of it.                                                         *)
(***************************************************************************)
EXTENDS Naturals, Sequences, FiniteSets, Functions, FiniteSetsExt, SequencesExt, Bags, TLAPS,
        FiniteSetTheorems, SequenceTheorems, WellFoundedInduction

(* Induction over the naturals, of a set instead of a predicate.           *)
LEMMA SetInduction ==
  ASSUME NEW S, 0 \in S, \A n \in Nat : n \in S => n + 1 \in S
  PROVE  Nat \subseteq S
<1> DEFINE R == OpToRel(<, Nat)
           T == Nat \ S
<1> SUFFICES ASSUME T # {} PROVE FALSE
  OBVIOUS
<1>1. IsWellFoundedOn(R, Nat)
  BY NatLessThanWellFounded
<1>2. T \subseteq Nat
  OBVIOUS
<1>3. \A x, y \in Nat : y < x => <<y, x>> \in R
  BY DEF OpToRel
<1> HIDE DEF R, T
<1>4. PICK x \in T : \A y \in T : ~ (<<y, x>> \in R)
  BY <1>1, <1>2, WFMin
<1>5. x \in Nat /\ x # 0 /\ x \notin S
  BY <1>2 DEF T
<1>6. x - 1 \in Nat /\ x - 1 < x /\ x = (x - 1) + 1
  BY <1>5
<1>7. x - 1 \in S
  BY <1>3, <1>4, <1>5, <1>6 DEF T
<1> QED BY <1>5, <1>6, <1>7

-----------------------------------------------------------------------------
(* Sums *)

(* The equation of a sum, at the element CHOOSE takes out first.           *)
One(s) == CHOOSE x \in s : TRUE

SumStep(iter, fun, s) == IF s = {} THEN 0 ELSE fun[One(s)] + iter[s \ {One(s)}]

IsSum(iter, fun, S) == iter = [s \in SUBSET S |-> SumStep(iter, fun, s)]

(* SumFunctionOnSet reads the function that solves the equation.           *)
LEMMA SumIsChoice ==
  ASSUME NEW fun, NEW S
  PROVE  SumFunctionOnSet(fun, S) = (CHOOSE iter : IsSum(iter, fun, S))[S]
BY Zenon DEF SumFunctionOnSet, FoldFunctionOnSet, MapThenFoldSet, SumStep, IsSum, One

(* CHOOSE takes an element of a set that has one.                          *)
LEMMA AnyIsElement == ASSUME NEW s, s # {} PROVE One(s) \in s
BY DEF One

(* A finite set without one of its elements.                               *)
LEMMA WithoutAny ==
  ASSUME NEW s, IsFiniteSet(s), s # {}, NEW x \in s
  PROVE  /\ IsFiniteSet(s \ {x})
         /\ Cardinality(s) \in Nat /\ Cardinality(s) > 0
         /\ Cardinality(s \ {x}) = Cardinality(s) - 1
BY FS_RemoveElement, FS_CardinalityType, FS_EmptySet

(* Such a function exists, by induction on the sizes of its arguments.     *)
LEMMA SumExists ==
  ASSUME NEW fun, NEW S, IsFiniteSet(S)
  PROVE  \E iter : IsSum(iter, fun, S)
<1> DEFINE Small(n) == {s \in SUBSET S : Cardinality(s) <= n}
           Sized == {n \in Nat : \E f : f = [s \in Small(n) |-> SumStep(f, fun, s)]}
<1>1. \A s \in SUBSET S : IsFiniteSet(s) /\ Cardinality(s) \in Nat
  BY FS_Subset, FS_CardinalityType
<1>2. 0 \in Sized
  <2> DEFINE f == [s \in Small(0) |-> 0]
  <2>1. \A s \in Small(0) : s = {}
    <3> TAKE s \in Small(0)
    <3>1. IsFiniteSet(s) /\ Cardinality(s) = 0
      BY <1>1
    <3> QED BY <3>1, FS_EmptySet
  <2>2. f = [s \in Small(0) |-> SumStep(f, fun, s)]
    BY <2>1 DEF SumStep
  <2> HIDE DEF f
  <2> QED BY <2>2
<1>3. ASSUME NEW n \in Nat, n \in Sized PROVE n + 1 \in Sized
  <2>1. PICK f : f = [s \in Small(n) |-> SumStep(f, fun, s)]
    BY <1>3
  <2> DEFINE g == [s \in Small(n + 1) |-> SumStep(f, fun, s)]
  <2>2. \A s \in Small(n) : s \in Small(n + 1) /\ g[s] = f[s]
    <3> TAKE s \in Small(n)
    <3>1. s \in Small(n + 1)
      BY <1>1
    <3>2. f[s] = SumStep(f, fun, s)
      BY <2>1
    <3> QED BY <3>1, <3>2
  <2>3. \A s \in Small(n + 1) : SumStep(g, fun, s) = SumStep(f, fun, s)
    <3> TAKE s \in Small(n + 1)
    <3>1. CASE s = {}
      BY <3>1 DEF SumStep
    <3>2. CASE s # {}
      <4> DEFINE x == One(s)
      <4>1. x \in s /\ s \in SUBSET S
        BY <3>2, AnyIsElement
      <4> HIDE DEF x
      <4>2. s \ {x} \in Small(n)
        <5>1. IsFiniteSet(s) /\ Cardinality(s) <= n + 1 /\ s \ {x} \in SUBSET S
          BY <1>1, <4>1
        <5>2. Cardinality(s \ {x}) = Cardinality(s) - 1 /\ Cardinality(s) \in Nat
          BY <3>2, <4>1, <5>1, WithoutAny
        <5> QED BY <5>1, <5>2
      <4>3. g[s \ {x}] = f[s \ {x}]
        BY <2>2, <4>2
      <4> HIDE DEF g
      <4> QED BY <3>2, <4>3 DEF SumStep, x
    <3> QED BY <3>1, <3>2
  <2>4. g = [s \in Small(n + 1) |-> SumStep(g, fun, s)]
    BY <2>3
  <2> HIDE DEF g
  <2> QED BY <2>4
<1>4. Nat \subseteq Sized
  <2> HIDE DEF Sized
  <2> QED BY <1>2, <1>3, SetInduction
<1>5. Cardinality(S) \in Sized
  BY <1>1, <1>4
<1>6. PICK f : f = [s \in Small(Cardinality(S)) |-> SumStep(f, fun, s)]
  BY <1>5
<1>7. Small(Cardinality(S)) = SUBSET S
  <2>1. \A s \in SUBSET S : Cardinality(s) <= Cardinality(S)
    BY FS_Subset
  <2> QED BY <2>1
<1>8. IsSum(f, fun, S)
  BY <1>6, <1>7 DEF IsSum
<1> QED BY <1>8

(* Three relations between functions on a set, named so that a lemma can   *)
(* be given one.                                                           *)
AgreeOn(f, g, S) == \A x \in S : f[x] = g[x]

NatOn(f, S) == \A x \in S : f[x] \in Nat

IsPlus(h, f, g, S) == \A x \in S : h[x] = f[x] + g[x]

(* Two of them agree on a set both are defined on, if what is summed does. *)
LEMMA SumsAgree ==
  ASSUME NEW f, NEW g, NEW S, NEW T, NEW U, IsFiniteSet(U), U \subseteq S, U \subseteq T,
         AgreeOn(f, g, U), NEW h, NEW k, IsSum(h, f, S), IsSum(k, g, T)
  PROVE  h[U] = k[U]
<1> DEFINE Agree == {n \in Nat : \A s \in SUBSET U : Cardinality(s) = n => h[s] = k[s]}
<1>1. \A s \in SUBSET U : IsFiniteSet(s) /\ Cardinality(s) \in Nat
  BY FS_Subset, FS_CardinalityType
<1>2. \A s \in SUBSET U : h[s] = SumStep(h, f, s) /\ k[s] = SumStep(k, g, s)
  BY DEF IsSum
<1>3. 0 \in Agree
  <2> SUFFICES ASSUME NEW s \in SUBSET U, Cardinality(s) = 0 PROVE h[s] = k[s]
    OBVIOUS
  <2>1. s = {}
    BY <1>1, FS_EmptySet
  <2> QED BY <1>2, <2>1 DEF SumStep
<1>4. ASSUME NEW n \in Nat, n \in Agree PROVE n + 1 \in Agree
  <2> SUFFICES ASSUME NEW s \in SUBSET U, Cardinality(s) = n + 1 PROVE h[s] = k[s]
    BY <1>4
  <2> DEFINE x == One(s)
  <2>1. s # {}
    BY FS_EmptySet
  <2>2. x \in s
    BY <2>1, AnyIsElement
  <2> HIDE DEF x
  <2>3. s \ {x} \in SUBSET U /\ Cardinality(s \ {x}) = n
    BY <1>1, <2>1, <2>2, WithoutAny
  <2>4. h[s \ {x}] = k[s \ {x}]
    BY <1>4, <2>3
  <2>5. f[x] = g[x]
    BY <2>2 DEF AgreeOn
  <2> QED BY <1>2, <2>1, <2>4, <2>5 DEF SumStep, x
<1>5. Cardinality(U) \in Agree
  <2> HIDE DEF Agree
  <2> QED BY <1>1, <1>3, <1>4, SetInduction
<1> QED BY <1>5

(* A sum is a value of a function that solves the equation.                *)
LEMMA SumIsOfASum ==
  ASSUME NEW f, NEW S, IsFiniteSet(S)
  PROVE  \E iter : IsSum(iter, f, S) /\ SumFunctionOnSet(f, S) = iter[S]
<1> DEFINE iter == CHOOSE iter : IsSum(iter, f, S)
<1>1. IsSum(iter, f, S)
  BY SumExists
<1>2. SumFunctionOnSet(f, S) = iter[S]
  BY SumIsChoice
<1> HIDE DEF iter
<1> QED BY <1>1, <1>2

(* A sum depends on what is summed only. *)
LEMMA SumSame ==
  ASSUME NEW f, NEW g, NEW S, IsFiniteSet(S), AgreeOn(f, g, S)
  PROVE  SumFunctionOnSet(f, S) = SumFunctionOnSet(g, S)
<1>1. PICK h : IsSum(h, f, S) /\ SumFunctionOnSet(f, S) = h[S]
  BY SumIsOfASum
<1>2. PICK k : IsSum(k, g, S) /\ SumFunctionOnSet(g, S) = k[S]
  BY SumIsOfASum
<1>3. AgreeOn(f, g, S) /\ S \subseteq S
  BY DEF AgreeOn
<1>4. h[S] = k[S]
  BY <1>1, <1>2, <1>3, SumsAgree
<1> QED BY <1>1, <1>2, <1>4

(* Nothing sums to nothing.                                                *)
LEMMA SumEmpty == ASSUME NEW f PROVE SumFunctionOnSet(f, {}) = 0
<1>1. PICK h : IsSum(h, f, {}) /\ SumFunctionOnSet(f, {}) = h[{}]
  BY SumIsOfASum, FS_EmptySet
<1> QED BY <1>1 DEF IsSum, SumStep

(* The equation of the sum itself. *)
LEMMA SumUnfold ==
  ASSUME NEW f, NEW S, IsFiniteSet(S), S # {}
  PROVE  SumFunctionOnSet(f, S) = f[One(S)] + SumFunctionOnSet(f, S \ {One(S)})
<1> DEFINE T == S \ {One(S)}
<1>1. IsFiniteSet(T)
  BY FS_Subset
<1>2. PICK h : IsSum(h, f, S) /\ SumFunctionOnSet(f, S) = h[S]
  BY SumIsOfASum
<1>3. PICK k : IsSum(k, f, T) /\ SumFunctionOnSet(f, T) = k[T]
  BY <1>1, SumIsOfASum
<1>4. h[T] = k[T]
  <2>1. AgreeOn(f, f, T)
    BY DEF AgreeOn
  <2> QED BY <2>1, <1>1, <1>2, <1>3, SumsAgree
<1>5. h[S] = SumStep(h, f, S)
  BY <1>2 DEF IsSum
<1> QED BY <1>2, <1>3, <1>4, <1>5 DEF SumStep

(* A sum of naturals is a natural.                                         *)
LEMMA SumIsNat ==
  ASSUME NEW f, NEW S, IsFiniteSet(S), \A x \in S : f[x] \in Nat
  PROVE  SumFunctionOnSet(f, S) \in Nat
<1> DEFINE Typed == {n \in Nat : \A s \in SUBSET S : Cardinality(s) = n => SumFunctionOnSet(f, s) \in Nat}
<1>1. \A s \in SUBSET S : IsFiniteSet(s) /\ Cardinality(s) \in Nat
  BY FS_Subset, FS_CardinalityType
<1>2. 0 \in Typed
  <2> SUFFICES ASSUME NEW s \in SUBSET S, Cardinality(s) = 0 PROVE SumFunctionOnSet(f, s) \in Nat
    OBVIOUS
  <2>1. s = {}
    BY <1>1, FS_EmptySet
  <2> QED BY <2>1, SumEmpty
<1>3. ASSUME NEW n \in Nat, n \in Typed PROVE n + 1 \in Typed
  <2> SUFFICES ASSUME NEW s \in SUBSET S, Cardinality(s) = n + 1 PROVE SumFunctionOnSet(f, s) \in Nat
    BY <1>3
  <2>1. s # {} /\ IsFiniteSet(s)
    BY <1>1, FS_EmptySet
  <2>2. SumFunctionOnSet(f, s) = f[One(s)] + SumFunctionOnSet(f, s \ {One(s)})
    BY <2>1, SumUnfold
  <2>3. One(s) \in s
    BY <2>1, AnyIsElement
  <2>4. s \ {One(s)} \in SUBSET S /\ Cardinality(s \ {One(s)}) = n
    BY <2>1, <2>3, WithoutAny
  <2>5. SumFunctionOnSet(f, s \ {One(s)}) \in Nat
    BY <1>3, <2>4
  <2> QED BY <2>2, <2>3, <2>5
<1>4. Cardinality(S) \in Typed
  <2> HIDE DEF Typed
  <2> QED BY <1>1, <1>2, <1>3, SetInduction
<1> QED BY <1>4

(* Any element may be taken out first. *)
LEMMA SumRemove ==
  ASSUME NEW f, NEW S, IsFiniteSet(S), \A x \in S : f[x] \in Nat, NEW e \in S
  PROVE  SumFunctionOnSet(f, S) = f[e] + SumFunctionOnSet(f, S \ {e})
<1> DEFINE Free == {n \in Nat : \A s \in SUBSET S : Cardinality(s) = n =>
                      \A x \in s : SumFunctionOnSet(f, s) = f[x] + SumFunctionOnSet(f, s \ {x})}
<1>1. \A s \in SUBSET S : IsFiniteSet(s) /\ Cardinality(s) \in Nat
  BY FS_Subset, FS_CardinalityType
<1>2. 0 \in Free
  BY <1>1, FS_EmptySet
<1>3. ASSUME NEW n \in Nat, n \in Free PROVE n + 1 \in Free
  <2> SUFFICES ASSUME NEW s \in SUBSET S, Cardinality(s) = n + 1, NEW x \in s
               PROVE  SumFunctionOnSet(f, s) = f[x] + SumFunctionOnSet(f, s \ {x})
    BY <1>3
  <2> DEFINE y == One(s)
  <2>1. s # {} /\ IsFiniteSet(s)
    BY <1>1
  <2>2. y \in s /\ SumFunctionOnSet(f, s) = f[y] + SumFunctionOnSet(f, s \ {y})
    BY <2>1, SumUnfold, AnyIsElement
  <2> HIDE DEF y
  <2>3. CASE x = y
    BY <2>2, <2>3
  <2>4. CASE x # y
    <3>1. /\ s \ {y} \in SUBSET S /\ Cardinality(s \ {y}) = n /\ x \in s \ {y}
          /\ s \ {x} \in SUBSET S /\ Cardinality(s \ {x}) = n /\ y \in s \ {x}
      BY <2>1, <2>2, <2>4, WithoutAny
    <3>2. /\ SumFunctionOnSet(f, s \ {y}) = f[x] + SumFunctionOnSet(f, (s \ {y}) \ {x})
          /\ SumFunctionOnSet(f, s \ {x}) = f[y] + SumFunctionOnSet(f, (s \ {x}) \ {y})
      BY <1>3, <3>1
    <3>3. (s \ {y}) \ {x} = (s \ {x}) \ {y}
      OBVIOUS
    <3>4. f[x] \in Nat /\ f[y] \in Nat
      BY <2>2
    <3>5. SumFunctionOnSet(f, (s \ {y}) \ {x}) \in Nat
      <4>1. IsFiniteSet((s \ {y}) \ {x}) /\ \A z \in (s \ {y}) \ {x} : f[z] \in Nat
        BY <1>1
      <4> QED BY <4>1, SumIsNat
    <3> QED BY <2>2, <3>2, <3>3, <3>4, <3>5
  <2> QED BY <2>3, <2>4
<1>4. Cardinality(S) \in Free
  <2> HIDE DEF Free
  <2> QED BY <1>1, <1>2, <1>3, SetInduction
<1> QED BY <1>4

(* Induction over the subsets of a finite set, element by element.         *)
LEMMA SubsetInduction ==
  ASSUME NEW S, IsFiniteSet(S), NEW P, {} \in P,
         \A T \in SUBSET S : \A x \in S \ T : T \in P => T \cup {x} \in P
  PROVE  S \in P
<1> DEFINE Sized == {n \in Nat : \A T \in SUBSET S : Cardinality(T) = n => T \in P}
<1>1. \A T \in SUBSET S : IsFiniteSet(T) /\ Cardinality(T) \in Nat
  BY FS_Subset, FS_CardinalityType
<1>2. 0 \in Sized
  BY <1>1, FS_EmptySet
<1>3. ASSUME NEW n \in Nat, n \in Sized PROVE n + 1 \in Sized
  <2> SUFFICES ASSUME NEW T \in SUBSET S, Cardinality(T) = n + 1 PROVE T \in P
    BY <1>3
  <2>e. T # {}
    <3>1. IsFiniteSet(T) /\ Cardinality(T) # 0
      BY <1>1
    <3> QED BY <3>1, FS_EmptySet
  <2>1. PICK x : x \in T
    BY <2>e
  <2>2. T \ {x} \in SUBSET S /\ Cardinality(T \ {x}) = n
    BY <1>1, <2>1, WithoutAny
  <2>3. T \ {x} \in P /\ x \in S \ (T \ {x}) /\ T = (T \ {x}) \cup {x}
    BY <1>3, <2>1, <2>2
  <2> QED BY <2>2, <2>3
<1>4. Cardinality(S) \in Sized
  <2> HIDE DEF Sized
  <2> QED BY <1>1, <1>2, <1>3, SetInduction
<1> QED BY <1>4

(* An element more.                                                        *)
LEMMA SumAdd ==
  ASSUME NEW f, NEW S, IsFiniteSet(S), NEW x, x \notin S, NatOn(f, S \cup {x})
  PROVE  SumFunctionOnSet(f, S \cup {x}) = f[x] + SumFunctionOnSet(f, S)
<1>1. IsFiniteSet(S \cup {x}) /\ (S \cup {x}) \ {x} = S
  BY FS_AddElement
<1>2. \A y \in S \cup {x} : f[y] \in Nat
  BY DEF NatOn
<1> QED BY <1>1, <1>2, SumRemove

(* Two disjoint sets.                                                      *)
LEMMA SumDisjoint ==
  ASSUME NEW f, NEW S, NEW T, IsFiniteSet(S), IsFiniteSet(T), S \cap T = {}, NatOn(f, S \cup T)
  PROVE  SumFunctionOnSet(f, S \cup T) = SumFunctionOnSet(f, S) + SumFunctionOnSet(f, T)
<1> DEFINE Split == {U \in SUBSET T :
             SumFunctionOnSet(f, S \cup U) = SumFunctionOnSet(f, S) + SumFunctionOnSet(f, U)}
<1>1. \A U \in SUBSET T : IsFiniteSet(U) /\ IsFiniteSet(S \cup U)
  BY FS_Subset, FS_Union
<1>2. \A U \in SUBSET (S \cup T) : NatOn(f, U)
  BY DEF NatOn
<1>3. {} \in Split
  <2>1. SumFunctionOnSet(f, S) \in Nat
    BY <1>2, SumIsNat DEF NatOn
  <2> QED BY <2>1, SumEmpty
<1>4. ASSUME NEW U \in SUBSET T, NEW x \in T \ U, U \in Split PROVE U \cup {x} \in Split
  <2>n. NatOn(f, U \cup {x}) /\ NatOn(f, (S \cup U) \cup {x}) /\ x \notin U /\ x \notin S \cup U
    BY DEF NatOn
  <2>1. SumFunctionOnSet(f, U \cup {x}) = f[x] + SumFunctionOnSet(f, U)
    BY <1>1, <2>n, SumAdd
  <2>2. SumFunctionOnSet(f, (S \cup U) \cup {x}) = f[x] + SumFunctionOnSet(f, S \cup U)
    BY <1>1, <2>n, SumAdd
  <2>3. (S \cup U) \cup {x} = S \cup (U \cup {x})
    OBVIOUS
  <2>4. f[x] \in Nat /\ SumFunctionOnSet(f, U) \in Nat /\ SumFunctionOnSet(f, S) \in Nat
    BY <1>1, <1>2, <2>n, SumIsNat DEF NatOn
  <2>5. SumFunctionOnSet(f, S \cup U) = SumFunctionOnSet(f, S) + SumFunctionOnSet(f, U)
    BY <1>4
  <2>6. U \cup {x} \in SUBSET T
    BY <1>4
  <2>7. SumFunctionOnSet(f, S \cup (U \cup {x})) = f[x] + SumFunctionOnSet(f, S \cup U)
    BY Zenon, <2>2, <2>3
  <2>8. SumFunctionOnSet(f, S \cup (U \cup {x})) =
          SumFunctionOnSet(f, S) + SumFunctionOnSet(f, U \cup {x})
    BY ONLY <2>1, <2>4, <2>5, <2>7
  <2> QED BY <2>6, <2>8
<1>5. T \in Split
  <2> HIDE DEF Split
  <2> QED BY <1>3, <1>4, SubsetInduction
<1> QED BY <1>5

(* A part of a set weighs no more than the set.                            *)
LEMMA SumOfPart ==
  ASSUME NEW f, NEW S, IsFiniteSet(S), NEW T \in SUBSET S, NatOn(f, S)
  PROVE  /\ SumFunctionOnSet(f, S) = SumFunctionOnSet(f, T) + SumFunctionOnSet(f, S \ T)
         /\ SumFunctionOnSet(f, T) <= SumFunctionOnSet(f, S)
<1>1. IsFiniteSet(T) /\ IsFiniteSet(S \ T) /\ T \cup (S \ T) = S /\ T \cap (S \ T) = {}
  BY FS_Subset
<1>2. NatOn(f, T) /\ NatOn(f, S \ T)
  BY DEF NatOn
<1>3. SumFunctionOnSet(f, T) \in Nat /\ SumFunctionOnSet(f, S \ T) \in Nat
  BY <1>1, <1>2, SumIsNat DEF NatOn
<1> QED BY <1>1, <1>3, SumDisjoint

(* A change at one element.                                                *)
LEMMA SumChange ==
  ASSUME NEW f, NEW g, NEW S, IsFiniteSet(S), NEW e \in S, NatOn(f, S), NatOn(g, S),
         AgreeOn(f, g, S \ {e})
  PROVE  SumFunctionOnSet(g, S) + f[e] = SumFunctionOnSet(f, S) + g[e]
<1>1. /\ SumFunctionOnSet(f, S) = f[e] + SumFunctionOnSet(f, S \ {e})
      /\ SumFunctionOnSet(g, S) = g[e] + SumFunctionOnSet(g, S \ {e})
  BY SumRemove DEF NatOn
<1>2. IsFiniteSet(S \ {e}) /\ NatOn(f, S \ {e})
  BY FS_Subset DEF NatOn
<1>3. SumFunctionOnSet(f, S \ {e}) = SumFunctionOnSet(g, S \ {e})
  BY <1>2, SumSame
<1>4. SumFunctionOnSet(f, S \ {e}) \in Nat /\ f[e] \in Nat /\ g[e] \in Nat
  BY <1>2, SumIsNat DEF NatOn
<1> QED BY <1>1, <1>3, <1>4

(* A sum of sums.                                                          *)
LEMMA SumPlus ==
  ASSUME NEW f, NEW g, NEW h, NEW S, IsFiniteSet(S), NatOn(f, S), NatOn(g, S),
         IsPlus(h, f, g, S)
  PROVE  SumFunctionOnSet(h, S) = SumFunctionOnSet(f, S) + SumFunctionOnSet(g, S)
<1> DEFINE Split == {U \in SUBSET S :
             SumFunctionOnSet(h, U) = SumFunctionOnSet(f, U) + SumFunctionOnSet(g, U)}
<1>1. \A U \in SUBSET S : IsFiniteSet(U) /\ NatOn(f, U) /\ NatOn(g, U) /\ NatOn(h, U)
  BY FS_Subset DEF NatOn, IsPlus
<1>2. {} \in Split
  BY SumEmpty
<1>3. ASSUME NEW U \in SUBSET S, NEW x \in S \ U, U \in Split PROVE U \cup {x} \in Split
  <2>1. /\ SumFunctionOnSet(f, U \cup {x}) = f[x] + SumFunctionOnSet(f, U)
        /\ SumFunctionOnSet(g, U \cup {x}) = g[x] + SumFunctionOnSet(g, U)
        /\ SumFunctionOnSet(h, U \cup {x}) = h[x] + SumFunctionOnSet(h, U)
    BY <1>1, SumAdd
  <2>2. /\ f[x] \in Nat /\ g[x] \in Nat /\ h[x] = f[x] + g[x]
        /\ SumFunctionOnSet(f, U) \in Nat /\ SumFunctionOnSet(g, U) \in Nat
    BY <1>1, SumIsNat DEF NatOn, IsPlus
  <2> QED BY <1>3, <2>1, <2>2
<1>4. S \in Split
  <2> HIDE DEF Split
  <2> QED BY <1>2, <1>3, SubsetInduction
<1> QED BY <1>4

-----------------------------------------------------------------------------
(* Sums over two functions, and over an image *)

LEMMA ZeroSum ==
  ASSUME NEW f, NEW S, IsFiniteSet(S), \A x \in S : f[x] = 0
  PROVE  SumFunctionOnSet(f, S) = 0
<1> DEFINE P == {T \in SUBSET S : SumFunctionOnSet(f, T) = 0}
<1>1. {} \in P
  BY SumEmpty
<1>2. ASSUME NEW T \in SUBSET S, NEW x \in S \ T, T \in P
      PROVE  T \cup {x} \in P
  <2>1. IsFiniteSet(T) /\ x \notin T /\ NatOn(f, T \cup {x}) /\ f[x] = 0
    BY FS_Subset DEF NatOn
  <2>2. SumFunctionOnSet(f, T \cup {x}) = f[x] + SumFunctionOnSet(f, T)
    BY <2>1, SumAdd
  <2> QED BY <1>2, <2>1, <2>2
<1> HIDE DEF P
<1>3. S \in P
  BY <1>1, <1>2, SubsetInduction
<1> QED BY <1>3 DEF P

(* A function extended by zeros.                                           *)
LEMMA SumExtended ==
  ASSUME NEW f, NEW e, NEW S, IsFiniteSet(S), NEW T \in SUBSET S, NatOn(f, T), AgreeOn(e, f, T),
         \A x \in S \ T : e[x] = 0
  PROVE  NatOn(e, S) /\ SumFunctionOnSet(e, S) = SumFunctionOnSet(f, T)
<1>1. NatOn(e, S)
  BY DEF NatOn, AgreeOn
<1>2. IsFiniteSet(T) /\ IsFiniteSet(S \ T)
  BY FS_Subset
<1>3. SumFunctionOnSet(e, S) = SumFunctionOnSet(e, T) + SumFunctionOnSet(e, S \ T)
  BY <1>1, SumOfPart
<1>4. SumFunctionOnSet(e, S \ T) = 0
  BY <1>2, ZeroSum
<1>5. SumFunctionOnSet(e, T) = SumFunctionOnSet(f, T)
  BY <1>2, SumSame
<1>6. SumFunctionOnSet(f, T) \in Nat
  BY <1>2, SumIsNat DEF NatOn
<1> QED BY <1>1, <1>3, <1>4, <1>5, <1>6

At(f, x) == IF x \in DOMAIN f THEN f[x] ELSE 0

(* h is f and g added, each zero where it is not defined.                  *)
IsUnionSum(h, f, g) ==
  /\ DOMAIN h = DOMAIN f \cup DOMAIN g
  /\ \A x \in DOMAIN h : h[x] = At(f, x) + At(g, x)

LEMMA SumOfTwoWithin ==
  ASSUME NEW f, NEW g, NEW h, IsFiniteSet(DOMAIN f), IsFiniteSet(DOMAIN g),
         NatOn(f, DOMAIN f), NatOn(g, DOMAIN g), IsUnionSum(h, f, g), NEW P
  PROVE  SumFunctionOnSet(h, DOMAIN h \cap P)
           = SumFunctionOnSet(f, DOMAIN f \cap P) + SumFunctionOnSet(g, DOMAIN g \cap P)
<1> DEFINE F == DOMAIN f \cap P
           G == DOMAIN g \cap P
           D == F \cup G
           e == [x \in D |-> At(f, x)]
           d == [x \in D |-> At(g, x)]
<1>1. IsFiniteSet(D)
  <2>1. IsFiniteSet(F) /\ IsFiniteSet(G)
    BY FS_Subset
  <2> QED BY <2>1, FS_Union
<1>2. NatOn(e, D) /\ SumFunctionOnSet(e, D) = SumFunctionOnSet(f, F)
  <2>1. F \in SUBSET D /\ AgreeOn(e, f, F) /\ NatOn(f, F) /\ \A x \in D \ F : e[x] = 0
    BY DEF AgreeOn, At, NatOn
  <2> HIDE DEF D, e, F
  <2> QED BY <1>1, <2>1, SumExtended
<1>3. NatOn(d, D) /\ SumFunctionOnSet(d, D) = SumFunctionOnSet(g, G)
  <2>1. G \in SUBSET D /\ AgreeOn(d, g, G) /\ NatOn(g, G) /\ \A x \in D \ G : d[x] = 0
    BY DEF AgreeOn, At, NatOn
  <2> HIDE DEF D, d, G
  <2> QED BY <1>1, <2>1, SumExtended
<1>4. IsPlus(h, e, d, D) /\ DOMAIN h \cap P = D
  BY DEF IsPlus, IsUnionSum
<1> HIDE DEF D, e, d, F, G
<1>5. SumFunctionOnSet(h, D) = SumFunctionOnSet(e, D) + SumFunctionOnSet(d, D)
  BY <1>1, <1>2, <1>3, <1>4, SumPlus
<1> QED BY <1>2, <1>3, <1>4, <1>5 DEF F, G

LEMMA SumOfTwo ==
  ASSUME NEW f, NEW g, NEW h, IsFiniteSet(DOMAIN f), IsFiniteSet(DOMAIN g),
         NatOn(f, DOMAIN f), NatOn(g, DOMAIN g), IsUnionSum(h, f, g)
  PROVE  SumFunction(h) = SumFunction(f) + SumFunction(g)
<1> DEFINE P == DOMAIN h
<1>1. DOMAIN h \cap P = DOMAIN h /\ DOMAIN f \cap P = DOMAIN f /\ DOMAIN g \cap P = DOMAIN g
  BY DEF IsUnionSum
<1>2. SumFunctionOnSet(h, DOMAIN h \cap P)
        = SumFunctionOnSet(f, DOMAIN f \cap P) + SumFunctionOnSet(g, DOMAIN g \cap P)
  BY SumOfTwoWithin
<1> QED BY <1>1, <1>2 DEF SumFunction

(* g sums f over what m maps to each element of T.                         *)
LEMMA SumByImage ==
  ASSUME NEW f, NEW S, IsFiniteSet(S), NatOn(f, S), NEW m, NEW T, IsFiniteSet(T),
         NEW g, \A y \in T : g[y] = SumFunctionOnSet(f, {x \in S : m[x] = y})
  PROVE  /\ NatOn(g, T)
         /\ SumFunctionOnSet(g, T) = SumFunctionOnSet(f, {x \in S : m[x] \in T})
<1> DEFINE Of(U) == {x \in S : m[x] \in U}
           Fibre(y) == {x \in S : m[x] = y}
           P == {U \in SUBSET T : SumFunctionOnSet(g, U) = SumFunctionOnSet(f, Of(U))}
<1>1. \A U : IsFiniteSet(Of(U)) /\ NatOn(f, Of(U))
  BY FS_Subset DEF NatOn
<1>2. \A y : IsFiniteSet(Fibre(y)) /\ NatOn(f, Fibre(y))
  BY FS_Subset DEF NatOn
<1>3. NatOn(g, T)
  <2> SUFFICES ASSUME NEW y \in T PROVE g[y] \in Nat
    BY DEF NatOn
  <2>1. g[y] = SumFunctionOnSet(f, Fibre(y))
    OBVIOUS
  <2>2. IsFiniteSet(Fibre(y)) /\ \A x \in Fibre(y) : f[x] \in Nat
    BY <1>2 DEF NatOn
  <2> HIDE DEF Fibre
  <2>3. SumFunctionOnSet(f, Fibre(y)) \in Nat
    BY <2>2, SumIsNat
  <2> QED BY <2>1, <2>3
<1>4. {} \in P
  <2>1. Of({}) = {}
    OBVIOUS
  <2> QED BY <2>1, SumEmpty
<1>5. ASSUME NEW U \in SUBSET T, NEW y \in T \ U, U \in P
      PROVE  U \cup {y} \in P
  <2>1. IsFiniteSet(U) /\ y \notin U /\ NatOn(g, U \cup {y})
    BY <1>3, FS_Subset DEF NatOn
  <2>2. SumFunctionOnSet(g, U \cup {y}) = g[y] + SumFunctionOnSet(g, U)
    BY <2>1, SumAdd
  <2>3. Of(U \cup {y}) = Fibre(y) \cup Of(U) /\ Fibre(y) \cap Of(U) = {}
    OBVIOUS
  <2>4. NatOn(f, Fibre(y) \cup Of(U))
    BY DEF NatOn
  <2>5. g[y] = SumFunctionOnSet(f, Fibre(y)) /\ SumFunctionOnSet(g, U) = SumFunctionOnSet(f, Of(U))
    BY <1>5
  <2> HIDE DEF Of, Fibre
  <2>6. SumFunctionOnSet(f, Fibre(y) \cup Of(U))
          = SumFunctionOnSet(f, Fibre(y)) + SumFunctionOnSet(f, Of(U))
    BY <1>1, <1>2, <2>3, <2>4, SumDisjoint
  <2> QED BY <2>2, <2>3, <2>5, <2>6
<1> HIDE DEF P
<1>6. T \in P
  BY <1>4, <1>5, SubsetInduction
<1> QED BY <1>3, <1>6 DEF P

-----------------------------------------------------------------------------
(* Bags *)

(* new is the bag of positive counts bag with one more x.                  *)
OneMore(bag, new, x) ==
  /\ DOMAIN new = (DOMAIN bag) \cup {x}
  /\ new \in [DOMAIN new -> Nat \ {0}]
  /\ new[x] = IF x \in DOMAIN bag THEN bag[x] + 1 ELSE 1
  /\ \A y \in (DOMAIN bag) \ {x} : new[y] = bag[y]

(* A finite bag, and what one more element makes of it.                    *)
IsFiniteBag(bag) == IsFiniteSet(DOMAIN bag) /\ bag \in [DOMAIN bag -> Nat \ {0}]

(* The empty bag.                                                          *)
LEMMA EmptyBagSum == IsFiniteBag(<< >>) /\ SumFunction(<< >>) = 0
<1>1. DOMAIN << >> = {} /\ IsFiniteSet({})
  BY FS_EmptySet
<1>2. SumFunctionOnSet(<< >>, {}) = 0
  BY SumEmpty
<1> QED BY <1>1, <1>2 DEF IsFiniteBag, SumFunction

(* The weight of a finite bag.                                             *)
LEMMA BagSumIsNat ==
  ASSUME NEW bag, IsFiniteBag(bag)
  PROVE  SumFunction(bag) \in Nat /\ NatOn(bag, DOMAIN bag)
<1>1. \A x \in DOMAIN bag : bag[x] \in Nat
  BY DEF IsFiniteBag
<1>2. SumFunctionOnSet(bag, DOMAIN bag) \in Nat
  BY <1>1, SumIsNat DEF IsFiniteBag
<1> QED BY <1>1, <1>2 DEF SumFunction, NatOn

(* One more element weighs one more.                                       *)
LEMMA OneMoreSum ==
  ASSUME NEW bag, NEW new, NEW x, IsFiniteBag(bag), OneMore(bag, new, x)
  PROVE  IsFiniteBag(new) /\ SumFunction(new) = SumFunction(bag) + 1
<1> DEFINE old == DOMAIN bag
<1>1. OneMore(bag, new, x)
  OBVIOUS
<1>2. DOMAIN new = old \cup {x} /\ IsFiniteBag(new)
  BY <1>1, FS_AddElement DEF OneMore, IsFiniteBag
<1>3. NatOn(bag, old) /\ NatOn(new, old \cup {x}) /\ SumFunction(bag) \in Nat
  BY <1>2, BagSumIsNat
<1>4. SumFunction(new) = SumFunction(bag) + 1
  <2>1. CASE x \in old
    <3>1. old \cup {x} = old /\ DOMAIN new = old
      BY <1>2, <2>1
    <3>2. SumFunctionOnSet(new, old) + bag[x] = SumFunctionOnSet(bag, old) + new[x]
      <4>1. AgreeOn(bag, new, old \ {x})
        BY <1>1 DEF AgreeOn, OneMore
      <4>2. IsFiniteSet(old) /\ NatOn(new, old)
        BY <1>3 DEF IsFiniteBag, NatOn
      <4> HIDE DEF old
      <4> QED BY <1>3, <2>1, <4>1, <4>2, SumChange
    <3>3. bag[x] \in Nat /\ new[x] = bag[x] + 1
      BY <1>1, <2>1 DEF OneMore, IsFiniteBag
    <3>4. SumFunctionOnSet(new, old) = SumFunction(new) /\ SumFunctionOnSet(bag, old) = SumFunction(bag)
      BY <3>1 DEF SumFunction
    <3>5. SumFunctionOnSet(new, old) \in Nat
      BY <1>2, <3>4, BagSumIsNat
    <3> QED BY <1>3, <3>2, <3>3, <3>4, <3>5
  <2>2. CASE x \notin old
    <3>1. IsFiniteSet(old)
      BY DEF IsFiniteBag
    <3>2. SumFunctionOnSet(new, old \cup {x}) = new[x] + SumFunctionOnSet(new, old)
      BY <1>3, <2>2, <3>1, SumAdd
    <3>3. SumFunctionOnSet(new, old) = SumFunctionOnSet(bag, old)
      <4>1. AgreeOn(new, bag, old)
        BY <1>1, <2>2 DEF AgreeOn, OneMore
      <4> QED BY <3>1, <4>1, SumSame
    <3>4. new[x] = 1
      BY <1>1, <2>2 DEF OneMore
    <3>5. SumFunction(new) = SumFunctionOnSet(new, old \cup {x})
      BY <1>2 DEF SumFunction
    <3>6. SumFunction(bag) = SumFunctionOnSet(bag, old)
      BY DEF SumFunction
    <3> QED BY <1>3, <3>2, <3>3, <3>4, <3>5, <3>6
  <2> QED BY <2>1, <2>2
<1> QED BY <1>2, <1>4

(* The finite bags over K.                                                 *)
FiniteBags(K) == {bag \in UNION {[D -> Nat \ {0}] : D \in SUBSET K} : IsFiniteSet(DOMAIN bag)}

LEMMA FiniteBagType ==
  ASSUME NEW K, NEW bag, IsFiniteBag(bag), DOMAIN bag \in SUBSET K
  PROVE  bag \in FiniteBags(K)
BY DEF FiniteBags, IsFiniteBag

LEMMA FiniteBagOver ==
  ASSUME NEW K, NEW bag \in FiniteBags(K)
  PROVE  IsFiniteBag(bag) /\ DOMAIN bag \subseteq K
BY DEF FiniteBags, IsFiniteBag

LEMMA OneMoreType ==
  ASSUME NEW K, NEW bag \in FiniteBags(K), NEW x \in K, NEW new, OneMore(bag, new, x)
  PROVE  new \in FiniteBags(K)
<1>1. IsFiniteBag(new)
  BY FiniteBagOver, OneMoreSum
<1>2. DOMAIN new \in SUBSET K
  BY FiniteBagOver DEF OneMore
<1> QED BY <1>1, <1>2, FiniteBagType

(* Of the part of a bag within P, one more element of P weighs one more.   *)
LEMMA OneMoreInPart ==
  ASSUME NEW bag, NEW new, NEW x, IsFiniteBag(bag), OneMore(bag, new, x), NEW P
  PROVE  SumFunctionOnSet(new, DOMAIN new \cap P)
           = SumFunctionOnSet(bag, DOMAIN bag \cap P) + (IF x \in P THEN 1 ELSE 0)
<1> DEFINE D == DOMAIN bag \cap P
           part == [y \in D |-> bag[y]]
           next == [y \in D \cup {x} |-> new[y]]
<1>1. IsFiniteSet(D) /\ DOMAIN new = DOMAIN bag \cup {x}
  BY FS_Intersection DEF IsFiniteBag, OneMore
<1>2. IsFiniteBag(part) /\ DOMAIN part = D
  BY <1>1 DEF IsFiniteBag
<1>3. SumFunction(part) = SumFunctionOnSet(bag, D)
  <2>1. AgreeOn(part, bag, D)
    BY DEF AgreeOn
  <2> HIDE DEF part, D
  <2> QED BY <1>1, <1>2, <2>1, SumSame DEF SumFunction
<1>4. CASE x \in P
  <2>1. OneMore(part, next, x)
    BY <1>4 DEF OneMore, IsFiniteBag
  <2>2. SumFunction(next) = SumFunction(part) + 1
    <3> HIDE DEF part, next
    <3> QED BY <1>2, <2>1, OneMoreSum
  <2>3. DOMAIN new \cap P = D \cup {x}
    BY <1>1, <1>4
  <2>4. SumFunction(next) = SumFunctionOnSet(new, D \cup {x})
    <3>1. AgreeOn(next, new, D \cup {x}) /\ DOMAIN next = D \cup {x} /\ IsFiniteSet(D \cup {x})
      BY <1>1, FS_AddElement DEF AgreeOn
    <3> HIDE DEF next, D
    <3> QED BY <3>1, SumSame DEF SumFunction
  <2> HIDE DEF next, part, D
  <2>5. SumFunctionOnSet(new, DOMAIN new \cap P) = SumFunctionOnSet(bag, D) + 1
    BY <1>3, <2>2, <2>3, <2>4
  <2> QED BY <1>4, <2>5 DEF D
<1>5. CASE x \notin P
  <2>1. DOMAIN new \cap P = D
    BY <1>1, <1>5
  <2>2. AgreeOn(new, bag, D)
    BY <1>5 DEF AgreeOn, OneMore
  <2>3. SumFunctionOnSet(bag, D) \in Nat
    <3>1. \A y \in D : bag[y] \in Nat
      BY DEF IsFiniteBag
    <3> HIDE DEF D
    <3> QED BY <1>1, <3>1, SumIsNat
  <2> HIDE DEF D
  <2>4. SumFunctionOnSet(new, D) = SumFunctionOnSet(bag, D)
    BY <1>1, <2>2, SumSame
  <2>5. SumFunctionOnSet(new, DOMAIN new \cap P) = SumFunctionOnSet(bag, D) + 0
    BY <2>1, <2>3, <2>4
  <2> QED BY <1>5, <2>5 DEF D
<1> QED BY <1>4, <1>5

(* A sum of which one term, or a new one, grows by n.                      *)
LEMMA SumGrows ==
  ASSUME NEW f, IsFiniteSet(DOMAIN f), NatOn(f, DOMAIN f), NEW x, NEW n \in Nat,
         NEW g, DOMAIN g = DOMAIN f \cup {x}, AgreeOn(g, f, DOMAIN f \ {x}),
         g[x] = (IF x \in DOMAIN f THEN f[x] ELSE 0) + n
  PROVE  SumFunction(g) = SumFunction(f) + n
<1> DEFINE D == DOMAIN f
<1>1. NatOn(g, D \cup {x}) /\ g[x] \in Nat
  BY DEF NatOn, AgreeOn
<1>2. SumFunctionOnSet(f, D) \in Nat
  BY SumIsNat DEF NatOn
<1>3. CASE x \in D
  <2>1. D \cup {x} = D /\ AgreeOn(f, g, D \ {x})
    BY <1>3 DEF AgreeOn
  <2>2. NatOn(g, D)
    BY <1>1, <2>1
  <2>3. SumFunctionOnSet(g, D) + f[x] = SumFunctionOnSet(f, D) + g[x]
    BY <1>3, <2>1, <2>2, SumChange
  <2>4. SumFunctionOnSet(g, D) \in Nat /\ f[x] \in Nat /\ g[x] = f[x] + n
    BY <1>3, <2>2, SumIsNat DEF NatOn
  <2>5. SumFunction(g) = SumFunctionOnSet(g, D)
    BY <2>1 DEF SumFunction
  <2> QED BY <1>2, <2>3, <2>4, <2>5 DEF SumFunction
<1>4. CASE x \notin D
  <2>1. SumFunctionOnSet(g, D \cup {x}) = g[x] + SumFunctionOnSet(g, D)
    BY <1>1, <1>4, SumAdd
  <2>2. AgreeOn(g, f, D)
    BY <1>4 DEF AgreeOn
  <2>3. SumFunctionOnSet(g, D) = SumFunctionOnSet(f, D)
    BY <2>2, SumSame
  <2>4. g[x] = n
    BY <1>4
  <2> QED BY <1>2, <2>1, <2>3, <2>4 DEF SumFunction
<1> QED BY <1>3, <1>4

(* Two bags added.                                                        *)
LEMMA BagsJoin ==
  ASSUME NEW a, NEW b, IsABag(a), IsABag(b)
  PROVE  /\ a (+) b = b (+) a /\ IsABag(a (+) b)
         /\ DOMAIN (a (+) b) = DOMAIN a \cup DOMAIN b
         /\ IsUnionSum(a (+) b, a, b)
<1>1. /\ \A x \in DOMAIN a : a[x] \in Nat \ {0}
      /\ \A x \in DOMAIN b : b[x] \in Nat \ {0}
  BY DEF IsABag
<1>2. DOMAIN (a (+) b) = DOMAIN a \cup DOMAIN b
  BY DEF (+)
<1>3. IsUnionSum(a (+) b, a, b)
  BY <1>1, <1>2 DEF (+), IsUnionSum, At
<1>4. a (+) b = b (+) a
  BY <1>1 DEF (+)
<1>5. a (+) b \in [DOMAIN (a (+) b) -> Nat \ {0}]
  BY <1>1 DEF (+)
<1>6. IsABag(a (+) b)
  BY <1>5 DEF IsABag
<1> QED BY <1>2, <1>3, <1>4, <1>6

-----------------------------------------------------------------------------
(* Bounded maps with a FIFO of their keys *)

(* fifo lists the elements of held, each once.                             *)
Lists(fifo, held) ==
  /\ Range(fifo) = held
  /\ \A i, j \in DOMAIN fifo : fifo[i] = fifo[j] => i = j
  /\ IsFiniteSet(held)
  /\ Len(fifo) = Cardinality(held)

(* An empty FIFO.                                                          *)
LEMMA EmptyFifo == Lists(<< >>, {})
BY FS_EmptySet DEF Lists, Range

(* The sum along a list is the sum over what it lists.                     *)
LEMMA SumAlongAList ==
  ASSUME NEW list, NEW held, Lists(list, held), NEW f, NatOn(f, held),
         NEW h, DOMAIN h = DOMAIN list, \A i \in DOMAIN list : h[i] = f[list[i]]
  PROVE  SumFunction(h) = SumFunctionOnSet(f, held)
<1> DEFINE D == DOMAIN list
           Named(U) == {list[i] : i \in U}
           Same == {U \in SUBSET D : SumFunctionOnSet(h, U) = SumFunctionOnSet(f, Named(U))}
<1>1. Named(D) = held /\ \A i, j \in D : list[i] = list[j] => i = j
  BY DEF Lists, Range
<1>2. IsFiniteSet(D) /\ \A U \in SUBSET D : IsFiniteSet(Named(U))
  <2>1. IsFiniteSet(held)
    BY DEF Lists
  <2>2. \A U \in SUBSET D : Named(U) \in SUBSET held
    BY <1>1
  <2>3. \E g : g \in Injection(D, held)
    <3>1. [i \in D |-> list[i]] \in Injection(D, held)
      BY <1>1 DEF Injection, IsInjective
    <3> QED BY <3>1
  <2>4. IsFiniteSet(D)
    BY <2>1, <2>3, FS_Injection
  <2> QED BY <2>1, <2>2, <2>4, FS_Subset
<1>3. {} \in Same
  <2>1. Named({}) = {}
    OBVIOUS
  <2> HIDE DEF Named
  <2> QED BY <2>1, SumEmpty
<1>4. ASSUME NEW U \in SUBSET D, NEW x \in D \ U, U \in Same PROVE U \cup {x} \in Same
  <2>1. Named(U \cup {x}) = Named(U) \cup {list[x]} /\ list[x] \notin Named(U)
    BY <1>1
  <2>2. Named(U) \cup {list[x]} \subseteq held
    BY <1>1
  <2>3. h[x] = f[list[x]] /\ NatOn(f, Named(U) \cup {list[x]}) /\ NatOn(h, U \cup {x})
    BY <1>1 DEF NatOn
  <2>4. IsFiniteSet(U) /\ IsFiniteSet(Named(U))
    BY <1>2, FS_Subset
  <2>5. SumFunctionOnSet(h, U) = SumFunctionOnSet(f, Named(U))
    BY <1>4
  <2> HIDE DEF Named, D
  <2>6. SumFunctionOnSet(h, U \cup {x}) = h[x] + SumFunctionOnSet(h, U)
    BY <2>3, <2>4, SumAdd
  <2>7. SumFunctionOnSet(f, Named(U) \cup {list[x]}) = f[list[x]] + SumFunctionOnSet(f, Named(U))
    BY <2>1, <2>3, <2>4, SumAdd
  <2>8. SumFunctionOnSet(h, U \cup {x}) = SumFunctionOnSet(f, Named(U \cup {x}))
    BY <2>1, <2>3, <2>5, <2>6, <2>7
  <2> QED BY <2>8
<1>5. D \in Same
  <2> HIDE DEF Same, D
  <2> QED BY <1>2, <1>3, <1>4, SubsetInduction
<1>6. SumFunctionOnSet(h, D) = SumFunctionOnSet(f, held)
  <2> HIDE DEF D, Named
  <2> QED BY <1>1, <1>5
<1> QED BY <1>6 DEF SumFunction

(* Two lists of different things, one after the other.                     *)
LEMMA ListsConcat ==
  ASSUME NEW S, NEW a \in Seq(S), NEW b \in Seq(S), NEW A, NEW B,
         Lists(a, A), Lists(b, B), A \cap B = {}
  PROVE  Lists(a \o b, A \cup B)
<1> DEFINE c == a \o b
           m == Len(a)
           n == Len(b)
<1>1. /\ c \in Seq(S) /\ m \in Nat /\ n \in Nat /\ Len(c) = m + n
      /\ DOMAIN a = 1..m /\ DOMAIN b = 1..n /\ DOMAIN c = 1..(m + n)
  BY ConcatProperties
<1>2. /\ \A i \in 1..m : c[i] = a[i]
      /\ \A i \in (m + 1)..(m + n) : c[i] = b[i - m] /\ i - m \in 1..n
      /\ \A i \in 1..n : i + m \in (m + 1)..(m + n) /\ (i + m) - m = i
  BY <1>1, ConcatProperties
<1>3. /\ \A i \in 1..m : a[i] \in A
      /\ \A i \in 1..n : b[i] \in B
      /\ \A x \in A : \E i \in 1..m : x = a[i]
      /\ \A x \in B : \E i \in 1..n : x = b[i]
  BY <1>1 DEF Lists, Range
<1> HIDE DEF c, m, n
<1>4. 1..(m + n) = (1..m) \cup ((m + 1)..(m + n))
  BY <1>1
<1>5. Range(c) = A \cup B
  <2>1. \A i \in 1..(m + n) : c[i] \in A \cup B
    BY <1>2, <1>3, <1>4
  <2>2. \A x \in A \cup B : \E i \in 1..(m + n) : c[i] = x
    <3>1. ASSUME NEW x \in A PROVE \E i \in 1..(m + n) : c[i] = x
      <4>1. PICK i \in 1..m : x = a[i]
        BY <1>3
      <4> QED BY <4>1, <1>2, <1>4
    <3>2. ASSUME NEW x \in B PROVE \E i \in 1..(m + n) : c[i] = x
      <4>1. PICK i \in 1..n : x = b[i]
        BY <1>3
      <4>2. c[i + m] = x /\ i + m \in 1..(m + n)
        BY <4>1, <1>2, <1>4
      <4> QED BY <4>2
    <3> QED BY <3>1, <3>2
  <2>3. DOMAIN c = 1..(m + n)
    BY <1>1
  <2>4. Range(c) = {c[i] : i \in 1..(m + n)}
    BY <2>3 DEF Range
  <2>5. ASSUME NEW x \in Range(c) PROVE x \in A \cup B
    <3>1. PICK i \in 1..(m + n) : x = c[i]
      BY <2>4
    <3> QED BY <3>1, <2>1
  <2>6. ASSUME NEW x \in A \cup B PROVE x \in Range(c)
    <3>1. PICK i \in 1..(m + n) : c[i] = x
      BY <2>2
    <3> QED BY <3>1, <2>4
  <2> QED BY <2>5, <2>6
<1>6. \A i, j \in DOMAIN c : c[i] = c[j] => i = j
  <2> SUFFICES ASSUME NEW i \in 1..(m + n), NEW j \in 1..(m + n), c[i] = c[j] PROVE i = j
    BY <1>1
  <2>1. CASE i \in 1..m /\ j \in 1..m
    BY <1>1, <1>2, <2>1 DEF Lists
  <2>2. CASE i \in (m + 1)..(m + n) /\ j \in (m + 1)..(m + n)
    <3>1. b[i - m] = b[j - m] /\ i - m \in 1..n /\ j - m \in 1..n
      BY <1>2, <2>2
    <3>2. i - m = j - m
      BY <1>1, <3>1 DEF Lists
    <3> QED BY <1>1, <3>2
  <2>3. CASE i \in 1..m /\ j \in (m + 1)..(m + n)
    <3>1. c[i] \in A /\ c[j] \in B
      BY <1>2, <1>3, <2>3
    <3> QED BY <3>1
  <2>4. CASE j \in 1..m /\ i \in (m + 1)..(m + n)
    <3>1. c[j] \in A /\ c[i] \in B
      BY <1>2, <1>3, <2>4
    <3> QED BY <3>1
  <2> QED BY <1>4, <2>1, <2>2, <2>3, <2>4
<1>7. IsFiniteSet(A \cup B) /\ Cardinality(A \cup B) = m + n
  <2>1. IsFiniteSet(A) /\ IsFiniteSet(B) /\ Cardinality(A) = m /\ Cardinality(B) = n
    BY DEF Lists, m, n
  <2>2. IsFiniteSet(A \cup B)
        /\ Cardinality(A \cup B) = Cardinality(A) + Cardinality(B) - Cardinality(A \cap B)
    BY <2>1, FS_Union
  <2>3. Cardinality(A \cap B) = 0
    BY FS_EmptySet
  <2> QED BY <1>1, <2>1, <2>2, <2>3
<1> QED BY <1>1, <1>5, <1>6, <1>7 DEF Lists, c

(* As many places of a list as things at those places.                     *)
LEMMA PlacesCount ==
  ASSUME NEW S, NEW list \in Seq(S), NEW held, Lists(list, held), NEW J \in SUBSET (1..Len(list))
  PROVE  /\ {list[k] : k \in J} \in SUBSET held
         /\ Cardinality({list[k] : k \in J}) = Cardinality(J)
<1> DEFINE T == {list[k] : k \in J}
           f == [k \in J |-> list[k]]
<1>1. DOMAIN list = 1..Len(list) /\ Len(list) \in Nat
  OBVIOUS
<1>2. IsFiniteSet(J)
  <2>1. IsFiniteSet(1..Len(list))
    BY <1>1, FS_Interval
  <2> QED BY <2>1, FS_Subset
<1>3. f \in Surjection(J, T)
  BY DEF Surjection
<1>4. f \in Injection(J, T)
  BY <1>1 DEF Injection, IsInjective, Lists
<1>5. T \in SUBSET held
  BY <1>1 DEF Lists, Range
<1> HIDE DEF f, T
<1>6. Cardinality(T) = Cardinality(J)
  BY <1>2, <1>3, <1>4, FS_Surjection
<1> QED BY <1>5, <1>6 DEF T

(* As many places of a list as things at the places, or no more.           *)
LEMMA PlacesMatch ==
  ASSUME NEW S, NEW list \in Seq(S), NEW held, Lists(list, held),
         NEW J \in SUBSET (1..Len(list)), NEW D \in SUBSET held
  PROVE  /\ Cardinality(J) \in Nat /\ Cardinality(D) \in Nat
         /\ (\A k \in 1..Len(list) : k \in J => list[k] \in D) => Cardinality(J) <= Cardinality(D)
         /\ (\A k \in 1..Len(list) : k \in J <=> list[k] \in D) => Cardinality(J) = Cardinality(D)
<1> DEFINE T == {list[k] : k \in J}
<1>1. Cardinality(T) = Cardinality(J)
  BY PlacesCount
<1>2. IsFiniteSet(D)
  BY FS_Subset DEF Lists
<1>3. ASSUME \A k \in 1..Len(list) : k \in J => list[k] \in D PROVE Cardinality(J) <= Cardinality(D)
  <2>1. T \in SUBSET D
    BY <1>3
  <2> HIDE DEF T
  <2>2. Cardinality(T) <= Cardinality(D)
    BY <1>2, <2>1, FS_Subset
  <2> QED BY <1>1, <2>2
<1>4. ASSUME \A k \in 1..Len(list) : k \in J <=> list[k] \in D PROVE Cardinality(J) = Cardinality(D)
  <2>1. \A x \in D : \E k \in 1..Len(list) : list[k] = x
    BY DEF Lists, Range
  <2>2. T = D
    BY <1>4, <2>1
  <2> HIDE DEF T
  <2> QED BY <1>1, <2>2
<1>5. Cardinality(J) \in Nat /\ Cardinality(D) \in Nat
  <2>1. IsFiniteSet(1..Len(list))
    BY FS_Interval
  <2>2. IsFiniteSet(J)
    BY <2>1, FS_Subset
  <2> QED BY <1>2, <2>2, FS_CardinalityType
<1> QED BY <1>3, <1>4, <1>5

(* The pairs of a thing with the first q numbers.                          *)
LEMMA PairsAreListed ==
  ASSUME NEW a, NEW q \in Nat, NEW list, list = [i \in 1..q |-> <<a, i>>]
  PROVE  Lists(list, {a} \X (1..q))
<1> DEFINE T == {a} \X (1..q)
<1>1. DOMAIN list = 1..q /\ Len(list) = q /\ \A i \in 1..q : list[i] = <<a, i>>
  OBVIOUS
<1>2. Range(list) = T
  <2>1. \A i \in 1..q : list[i] \in T
    BY <1>1
  <2>2. \A l \in T : l[2] \in 1..q /\ l = list[l[2]]
    BY <1>1
  <2> HIDE DEF T
  <2> QED BY <1>1, <2>1, <2>2 DEF Range
<1>3. \A i, j \in DOMAIN list : list[i] = list[j] => i = j
  BY <1>1
<1>4. list \in [1..q -> T]
  BY <1>1
<1> HIDE DEF T
<1>5. list \in Surjection(1..q, T) /\ list \in Injection(1..q, T)
  BY <1>1, <1>2, <1>3, <1>4 DEF Surjection, Injection, IsInjective, Range
<1>6. IsFiniteSet(1..q) /\ Cardinality(1..q) = q
  BY FS_Interval
<1>7. IsFiniteSet(T) /\ Cardinality(T) = q
  BY <1>5, <1>6, FS_Surjection
<1> QED BY <1>1, <1>2, <1>3, <1>7 DEF Lists, T

(* The first i places, of those in P.                                      *)
LEMMA PrefixCount ==
  ASSUME NEW P, NEW i \in Nat \ {0}
  PROVE  /\ Cardinality((1..(i - 1)) \cap P) \in Nat
         /\ Cardinality((1..i) \cap P)
              = Cardinality((1..(i - 1)) \cap P) + (IF i \in P THEN 1 ELSE 0)
<1> DEFINE before == (1..(i - 1)) \cap P
<1>1. 1..i = (1..(i - 1)) \cup {i} /\ i \notin before
  OBVIOUS
<1>2. IsFiniteSet(before)
  <2>1. IsFiniteSet(1..(i - 1))
    BY FS_Interval
  <2> QED BY <2>1, FS_Intersection
<1>3. Cardinality(before) \in Nat
  BY <1>2, FS_CardinalityType
<1>4. CASE i \in P
  <2>1. (1..i) \cap P = before \cup {i}
    BY <1>1, <1>4
  <2>2. Cardinality(before \cup {i}) = Cardinality(before) + 1
    BY <1>1, <1>2, FS_AddElement
  <2> QED BY <1>3, <1>4, <2>1, <2>2
<1>5. CASE i \notin P
  <2>1. (1..i) \cap P = before
    BY <1>1, <1>5
  <2> HIDE DEF before
  <2>2. Cardinality((1..i) \cap P) = Cardinality(before) + 0
    BY <1>3, <2>1
  <2> QED BY <1>3, <1>5, <2>2 DEF before
<1> QED BY <1>3, <1>4, <1>5

(* Appending an element that is not held.                                  *)
LEMMA FifoAppend ==
  ASSUME NEW S, NEW fifo \in Seq(S), NEW x \in S, NEW held,
         Lists(fifo, held), x \notin held
  PROVE  Lists(Append(fifo, x), held \cup {x})
<1> DEFINE new == Append(fifo, x)
           n == Len(fifo)
<1>1. /\ new \in Seq(S) /\ n \in Nat /\ Len(new) = n + 1
      /\ DOMAIN fifo = 1..n /\ DOMAIN new = 1..(n + 1)
      /\ new[n + 1] = x
      /\ \A i \in 1..n : new[i] = fifo[i]
  BY AppendProperties
<1>2. \A i \in 1..n : fifo[i] \in held
  BY <1>1 DEF Lists, Range
<1> HIDE DEF new, n
<1>3. Range(new) = held \cup {x}
  <2>1. 1..(n + 1) = (1..n) \cup {n + 1}
    BY <1>1
  <2> QED BY <1>1, <2>1 DEF Range, Lists
<1>4. ASSUME NEW i \in DOMAIN new, NEW j \in DOMAIN new, new[i] = new[j] PROVE i = j
  <2>1. CASE i \in 1..n /\ j \in 1..n
    BY <1>1, <1>4, <2>1 DEF Lists
  <2>2. CASE i = n + 1 \/ j = n + 1
    BY <1>1, <1>2, <1>4, <2>2
  <2> QED BY <1>1, <2>1, <2>2
<1>5. IsFiniteSet(held \cup {x}) /\ Cardinality(held \cup {x}) = n + 1
  BY FS_AddElement DEF Lists, n
<1> QED BY <1>1, <1>3, <1>4, <1>5 DEF Lists, new

(* Dropping the head.                                                      *)
LEMMA FifoTail ==
  ASSUME NEW S, NEW fifo \in Seq(S), NEW held, Lists(fifo, held), fifo # << >>
  PROVE  /\ Head(fifo) \in held
         /\ Tail(fifo) \in Seq(S)
         /\ Lists(Tail(fifo), held \ {Head(fifo)})
<1> DEFINE new == Tail(fifo)
           n == Len(fifo)
<1>1. /\ new \in Seq(S) /\ n \in Nat /\ n > 0 /\ Len(new) = n - 1
      /\ DOMAIN fifo = 1..n /\ DOMAIN new = 1..(n - 1)
      /\ \A i \in 1..(n - 1) : new[i] = fifo[i + 1]
      /\ Head(fifo) = fifo[1]
  BY HeadTailProperties
<1> HIDE DEF new, n
<1>2. Head(fifo) \in held
  BY <1>1 DEF Lists, Range
<1>3. Range(new) = held \ {Head(fifo)}
  <2>1. \A y \in held \ {Head(fifo)} : \E i \in 2..n : fifo[i] = y
    BY <1>1 DEF Lists, Range
  <2>2. \A y \in held \ {Head(fifo)} : \E i \in 1..(n - 1) : new[i] = y
    <3> TAKE y \in held \ {Head(fifo)}
    <3>1. PICK i \in 2..n : fifo[i] = y
      BY <2>1
    <3>2. i - 1 \in 1..(n - 1) /\ new[i - 1] = fifo[i]
      BY <1>1
    <3> QED BY <3>1, <3>2
  <2>3. ASSUME NEW i \in 1..(n - 1) PROVE new[i] \in held \ {Head(fifo)}
    <3>1. new[i] = fifo[i + 1] /\ i + 1 \in 1..n /\ 1 \in 1..n /\ i + 1 # 1
      BY <1>1
    <3>2. fifo[i + 1] \in held /\ fifo[i + 1] # fifo[1]
      BY <1>1, <3>1 DEF Lists, Range
    <3> QED BY <1>1, <3>1, <3>2
  <2>4. Range(new) = {new[i] : i \in 1..(n - 1)}
    BY <1>1 DEF Range
  <2> QED BY <2>2, <2>3, <2>4
<1>4. ASSUME NEW i \in DOMAIN new, NEW j \in DOMAIN new, new[i] = new[j] PROVE i = j
  <2>1. /\ i \in Int /\ j \in Int
        /\ i + 1 \in DOMAIN fifo /\ j + 1 \in DOMAIN fifo
        /\ fifo[i + 1] = fifo[j + 1]
    BY <1>1, <1>4
  <2>2. i + 1 = j + 1
    BY <2>1 DEF Lists
  <2> QED BY <2>1, <2>2
<1>5. /\ IsFiniteSet(held \ {Head(fifo)})
      /\ Cardinality(held \ {Head(fifo)}) = n - 1
  BY <1>2, FS_RemoveElement DEF Lists, n
<1> QED BY <1>1, <1>2, <1>3, <1>4, <1>5 DEF Lists, new

(* The table of trace_ring_for and of record_span: its keys held are those *)
(* of its FIFO and within bound, and a new key displaces the oldest.       *)
FifoOfBounded(S, fifo, held, bound) ==
  /\ fifo \in Seq(S)
  /\ Lists(fifo, held)
  /\ bound > 0 => Cardinality(held) <= bound

Displaced(fifo, held, bound) ==
  IF bound > 0 /\ Cardinality(held) >= bound /\ fifo # << >> THEN {Head(fifo)} ELSE {}

AfterHold(fifo, held, bound, x) ==
  Append(IF Displaced(fifo, held, bound) = {} THEN fifo ELSE Tail(fifo), x)

(* Nothing to count.                                                       *)
LEMMA EmptyCount == Cardinality({}) = 0 /\ IsFiniteSet({})
BY FS_EmptySet

LEMMA CountIsNat == ASSUME NEW S, IsFiniteSet(S) PROVE Cardinality(S) \in Nat
BY FS_CardinalityType

LEMMA PartOfUpTo ==
  ASSUME NEW n \in Nat, NEW T \in SUBSET (1..n)
  PROVE  IsFiniteSet(T)
<1>1. IsFiniteSet(1..n)
  BY FS_Interval
<1> QED BY <1>1, FS_Subset

LEMMA PartIsFinite ==
  ASSUME NEW S, IsFiniteSet(S), NEW T \in SUBSET S
  PROVE  IsFiniteSet(T)
BY FS_Subset

LEMMA JoinIsFinite ==
  ASSUME NEW S, IsFiniteSet(S), NEW T, IsFiniteSet(T)
  PROVE  IsFiniteSet(S \cup T)
BY FS_Union

LEMMA PartIsFewer ==
  ASSUME NEW S, IsFiniteSet(S), NEW T \in SUBSET S
  PROVE  Cardinality(T) <= Cardinality(S)
BY FS_Subset

LEMMA CountIsZero ==
  ASSUME NEW S, IsFiniteSet(S), Cardinality(S) = 0
  PROVE  S = {}
BY FS_EmptySet

LEMMA CountOneMore ==
  ASSUME NEW S, IsFiniteSet(S), NEW x
  PROVE  /\ IsFiniteSet(S \cup {x})
         /\ Cardinality(S \cup {x}) = IF x \in S THEN Cardinality(S) ELSE Cardinality(S) + 1
BY FS_AddElement

(* The values of a finite set are finitely many, and as many where they    *)
(* differ.                                                                 *)
LEMMA ImageCount ==
  ASSUME NEW S, IsFiniteSet(S), NEW f
  PROVE  /\ IsFiniteSet({f[x] : x \in S})
         /\ (\A x, y \in S : f[x] = f[y] => x = y) => Cardinality({f[x] : x \in S}) = Cardinality(S)
<1> DEFINE T == {f[x] : x \in S}
           h == [x \in S |-> f[x]]
<1>1. h \in Surjection(S, T)
  BY DEF Surjection
<1>2. (\A x, y \in S : f[x] = f[y] => x = y) => h \in Injection(S, T)
  BY <1>1 DEF Surjection, Injection, IsInjective
<1> HIDE DEF h, T
<1>3. IsFiniteSet(T) /\ (h \in Injection(S, T) => Cardinality(T) = Cardinality(S))
  BY <1>1, FS_Surjection
<1> QED BY <1>2, <1>3 DEF T

(* An empty table is within any bound.                                     *)
LEMMA ImageBound ==
  ASSUME NEW S, IsFiniteSet(S), NEW f
  PROVE  IsFiniteSet({f[x] : x \in S}) /\ Cardinality({f[x] : x \in S}) <= Cardinality(S)
<1> DEFINE T == {f[x] : x \in S}
           h == [x \in S |-> f[x]]
<1>1. h \in Surjection(S, T)
  BY DEF Surjection
<1> HIDE DEF h, T
<1>2. IsFiniteSet(T) /\ Cardinality(T) <= Cardinality(S)
  BY <1>1, FS_Surjection
<1> QED BY <1>2 DEF T

LEMMA EmptyFifoBounded ==
  ASSUME NEW S, NEW bound \in Nat
  PROVE  FifoOfBounded(S, << >>, {}, bound)
BY EmptyFifo, EmptyCount DEF FifoOfBounded

(* At most one key is displaced.                                           *)
LEMMA DisplacedCount ==
  ASSUME NEW fifo, NEW held, NEW bound
  PROVE  /\ Cardinality(Displaced(fifo, held, bound)) \in {0, 1}
         /\ Cardinality(Displaced(fifo, held, bound)) = 0 => Displaced(fifo, held, bound) = {}
<1>1. Displaced(fifo, held, bound) = {} \/ \E x : Displaced(fifo, held, bound) = {x}
  BY DEF Displaced
<1>2. Cardinality({}) = 0 /\ \A x : Cardinality({x}) = 1
  BY FS_EmptySet, FS_Singleton
<1>3. CASE Displaced(fifo, held, bound) = {}
  BY <1>2, <1>3
<1>4. CASE \E x : Displaced(fifo, held, bound) = {x}
  <2>1. Cardinality(Displaced(fifo, held, bound)) = 1
    BY <1>2, <1>4
  <2> QED BY <2>1
<1> QED BY <1>1, <1>3, <1>4

(* Holding a new key keeps the table a bounded FIFO.                       *)
LEMMA FifoHold ==
  ASSUME NEW S, NEW fifo, NEW x \in S, NEW held, NEW bound \in Nat,
         FifoOfBounded(S, fifo, held, bound), x \notin held
  PROVE  FifoOfBounded(S, AfterHold(fifo, held, bound, x),
                       (held \ Displaced(fifo, held, bound)) \cup {x}, bound)
<1> DEFINE evicted == Displaced(fifo, held, bound)
           new == AfterHold(fifo, held, bound, x)
<1>e. evicted = IF bound > 0 /\ Cardinality(held) >= bound /\ fifo # << >>
                THEN {Head(fifo)} ELSE {}
  BY DEF Displaced
<1>n. new = Append(IF evicted = {} THEN fifo ELSE Tail(fifo), x)
  BY DEF AfterHold
<1>h. fifo \in Seq(S) /\ Lists(fifo, held) /\ (bound > 0 => Cardinality(held) <= bound)
  BY DEF FifoOfBounded
<1> HIDE DEF evicted, new
<1> DEFINE n == Cardinality(held)
           head == Head(fifo)
           rest == Tail(fifo)
<1>1. IsFiniteSet(held) /\ n \in Nat
  BY <1>h, FS_CardinalityType DEF Lists
<1>2. CASE evicted = {}
  <2>1. new = Append(fifo, x) /\ (held \ evicted) \cup {x} = held \cup {x}
    BY <1>2, <1>n
  <2>2. Lists(Append(fifo, x), held \cup {x}) /\ Append(fifo, x) \in Seq(S)
    BY <1>h, FifoAppend, AppendProperties
  <2>3. Cardinality(held \cup {x}) = n + 1
    BY <1>1, FS_AddElement
  <2>4. fifo = << >> => n = 0
    BY <1>h DEF Lists
  <2>5. bound > 0 /\ n >= bound => fifo = << >>
    BY <1>2, <1>e
  <2> HIDE DEF n
  <2>6. bound > 0 => Cardinality(held \cup {x}) <= bound
    BY ONLY <1>1, <2>3, <2>4, <2>5, bound \in Nat
  <2> QED BY ONLY <2>1, <2>2, <2>6 DEF FifoOfBounded, evicted, new
<1>3. CASE evicted # {}
  <2>1. fifo # << >> /\ evicted = {head} /\ new = Append(rest, x) /\ bound > 0
    BY <1>3, <1>e, <1>n
  <2>2. head \in held /\ rest \in Seq(S) /\ Lists(rest, held \ {head})
    BY <1>h, <2>1, FifoTail
  <2> HIDE DEF head, rest, n
  <2> DEFINE kept == held \ {head}
  <2>3. x \notin kept /\ held \ evicted = kept
    BY <2>1
  <2>4. IsFiniteSet(kept) /\ Cardinality(kept) = n - 1
    BY <1>1, <2>2, FS_RemoveElement DEF n
  <2> HIDE DEF kept
  <2>5. Lists(rest, kept)
    BY <2>2 DEF kept
  <2>6. Lists(Append(rest, x), kept \cup {x})
    BY ONLY <2>2, <2>3, <2>5, x \in S, FifoAppend
  <2>7. Append(rest, x) \in Seq(S)
    BY <2>2, AppendProperties
  <2>8. Cardinality(kept \cup {x}) = n
    <3>1. Cardinality(kept \cup {x}) = Cardinality(kept) + 1
      BY <2>3, <2>4, FS_AddElement
    <3> QED BY <1>1, <2>4, <3>1
  <2>9. bound > 0 => n <= bound
    BY <1>h DEF n
  <2> QED BY ONLY <2>1, <2>3, <2>6, <2>7, <2>8, <2>9 DEF FifoOfBounded, evicted, new
<1> QED BY <1>2, <1>3

-----------------------------------------------------------------------------
(* Ranks in a strict order *)

(* The order is a set of pairs, so that a lemma can speak of any.          *)
IsOrder(before, S) ==
  /\ \A x \in S : <<x, x>> \notin before
  /\ \A x, y, z \in S : <<x, y>> \in before /\ <<y, z>> \in before => <<x, z>> \in before
  /\ \A x, y \in S : x = y \/ <<x, y>> \in before \/ <<y, x>> \in before

Ahead(before, S, x) == {y \in S : <<y, x>> \in before}

Rank(before, S, x) == Cardinality(Ahead(before, S, x))

(* A rank is a number of elements ahead.                                   *)
LEMMA RankIsBounded ==
  ASSUME NEW S, IsFiniteSet(S), NEW before, IsOrder(before, S), NEW x \in S
  PROVE  Rank(before, S, x) \in 0..(Cardinality(S) - 1)
<1> DEFINE ahead == Ahead(before, S, x)
<1>1. ahead \in SUBSET S /\ x \notin ahead
  BY DEF Ahead, IsOrder
<1> HIDE DEF ahead
<1>2. ahead # S
  BY <1>1
<1>3. IsFiniteSet(ahead) /\ Cardinality(ahead) <= Cardinality(S) /\ Cardinality(S) # Cardinality(ahead)
  BY <1>1, <1>2, FS_Subset
<1>4. Cardinality(ahead) \in Nat /\ Cardinality(S) \in Nat
  BY <1>3, FS_CardinalityType
<1>5. Cardinality(ahead) \in 0..(Cardinality(S) - 1)
  BY <1>3, <1>4
<1> QED BY <1>5 DEF Rank, ahead

(* What comes before ranks lower.                                          *)
LEMMA RankGrows ==
  ASSUME NEW S, IsFiniteSet(S), NEW before, IsOrder(before, S), NEW x \in S, NEW y \in S,
         <<x, y>> \in before
  PROVE  Rank(before, S, x) < Rank(before, S, y)
<1> DEFINE less == Ahead(before, S, x)
           more == Ahead(before, S, y)
<1>1. less \in SUBSET more /\ x \in more /\ x \notin less /\ more \in SUBSET S
  BY DEF Ahead, IsOrder
<1> HIDE DEF less, more
<1>2. IsFiniteSet(more)
  BY <1>1, FS_Subset
<1>3. Cardinality(less) <= Cardinality(more) /\ Cardinality(more) # Cardinality(less) /\ IsFiniteSet(less)
  BY <1>1, <1>2, FS_Subset
<1>4. Cardinality(less) \in Nat /\ Cardinality(more) \in Nat
  BY <1>2, <1>3, FS_CardinalityType
<1>5. Cardinality(less) < Cardinality(more)
  BY <1>3, <1>4
<1> QED BY <1>5 DEF Rank, less, more

(* No two elements have one rank.                                          *)
LEMMA RankIsInjective ==
  ASSUME NEW S, IsFiniteSet(S), NEW before, IsOrder(before, S), NEW x \in S, NEW y \in S,
         Rank(before, S, x) = Rank(before, S, y)
  PROVE  x = y
<1>1. Rank(before, S, x) \in Nat
  BY RankIsBounded
<1>2. CASE <<x, y>> \in before
  BY <1>1, <1>2, RankGrows
<1>3. CASE <<y, x>> \in before
  BY <1>1, <1>3, RankGrows
<1> QED BY <1>2, <1>3 DEF IsOrder

(* Every rank is somebody's.                                               *)
LEMMA RankIsOnto ==
  ASSUME NEW S, IsFiniteSet(S), NEW before, IsOrder(before, S)
  PROVE  \A i \in 0..(Cardinality(S) - 1) : \E x \in S : Rank(before, S, x) = i
<1> DEFINE n == Cardinality(S)
           T == 0..(n - 1)
           rank == [x \in S |-> Rank(before, S, x)]
<1>1. n \in Nat
  BY FS_CardinalityType
<1>2. rank \in [S -> T]
  BY RankIsBounded
<1>3. \A x, y \in S : rank[x] = rank[y] => x = y
  BY RankIsInjective
<1> HIDE DEF rank
<1>4. rank \in Injection(S, T)
  BY <1>2, <1>3 DEF Injection, IsInjective
<1>5. IsFiniteSet(T) /\ Cardinality(T) = n
  <2>1. 0 \in Int /\ n - 1 \in Int
    BY <1>1
  <2>2. IsFiniteSet(0..(n - 1)) /\ Cardinality(0..(n - 1)) = IF 0 > n - 1 THEN 0 ELSE (n - 1) - 0 + 1
    BY <2>1, FS_Interval
  <2> QED BY <1>1, <2>2
<1> HIDE DEF T
<1>6. rank \in Surjection(S, T)
  BY <1>4, <1>5, FS_Injection
<1>7. \A i \in T : \E x \in S : rank[x] = i
  BY <1>6 DEF Surjection
<1> QED BY <1>7 DEF rank, T

(* The n elements of lowest rank are n, or all of them.                    *)
LEMMA FirstByRank ==
  ASSUME NEW S, IsFiniteSet(S), NEW before, IsOrder(before, S), NEW n \in Nat
  PROVE  Cardinality({x \in S : Rank(before, S, x) < n}) =
           IF Cardinality(S) <= n THEN Cardinality(S) ELSE n
<1> DEFINE c == Cardinality(S)
           m == IF c <= n THEN c ELSE n
           first == {x \in S : Rank(before, S, x) < n}
           T == 0..(m - 1)
           rank == [x \in first |-> Rank(before, S, x)]
<1>1. c \in Nat /\ m \in Nat /\ first \in SUBSET S
  BY FS_CardinalityType
<1>2. rank \in [first -> T]
  <2> SUFFICES ASSUME NEW x \in first PROVE Rank(before, S, x) \in T
    OBVIOUS
  <2>1. Rank(before, S, x) \in 0..(c - 1) /\ Rank(before, S, x) < n
    BY <1>1, RankIsBounded
  <2> QED BY <1>1, <2>1
<1>3. \A x, y \in first : rank[x] = rank[y] => x = y
  BY <1>1, RankIsInjective
<1>4. \A i \in T : \E x \in first : rank[x] = i
  <2> TAKE i \in T
  <2>1. i \in 0..(c - 1) /\ i < n
    BY <1>1
  <2>2. PICK x \in S : Rank(before, S, x) = i
    BY <2>1, RankIsOnto
  <2> QED BY <2>1, <2>2
<1>5. IsFiniteSet(first)
  BY <1>1, FS_Subset
<1> HIDE DEF rank, first
<1>6. rank \in Injection(first, T) /\ rank \in Surjection(first, T)
  BY <1>2, <1>3, <1>4 DEF Injection, IsInjective, Surjection
<1>7. IsFiniteSet(T) /\ Cardinality(T) = m
  <2>1. 0 \in Int /\ m - 1 \in Int
    BY <1>1
  <2>2. IsFiniteSet(0..(m - 1)) /\ Cardinality(0..(m - 1)) = IF 0 > m - 1 THEN 0 ELSE (m - 1) - 0 + 1
    BY <2>1, FS_Interval
  <2> QED BY <1>1, <2>2
<1> HIDE DEF T, m
<1>8. Cardinality(first) = Cardinality(T)
  BY <1>6, <1>7, FS_Injection
<1> QED BY <1>7, <1>8 DEF first, m

(* A set listed by rank is listed whole, and each element once.            *)
LEMMA ListedByRank ==
  ASSUME NEW S, IsFiniteSet(S), NEW before, IsOrder(before, S),
         NEW list \in [1..Cardinality(S) -> S],
         \A i \in 1..Cardinality(S) : Rank(before, S, list[i]) = i - 1
  PROVE  list \in Seq(S) /\ Lists(list, S)
<1> DEFINE n == Cardinality(S)
<1>1. n \in Nat
  BY FS_CardinalityType
<1>2. \A i \in 1..n : list[i] \in S /\ Rank(before, S, list[i]) = i - 1
  OBVIOUS
<1> HIDE DEF n
<1>3. list \in Seq(S) /\ Len(list) = n /\ DOMAIN list = 1..n
  BY <1>1, <1>2 DEF n
<1>4. ASSUME NEW i \in 1..n, NEW j \in 1..n, list[i] = list[j] PROVE i = j
  <2>1. Rank(before, S, list[i]) = i - 1 /\ Rank(before, S, list[j]) = j - 1
    BY <1>2
  <2>2. i - 1 = j - 1
    BY <1>4, <2>1
  <2> QED BY <1>1, <2>2
<1>5. \A x \in S : \E i \in 1..n : list[i] = x
  <2> TAKE x \in S
  <2>1. Rank(before, S, x) \in 0..(n - 1)
    BY RankIsBounded DEF n
  <2> DEFINE i == Rank(before, S, x) + 1
  <2>2. i \in 1..n /\ i - 1 = Rank(before, S, x)
    BY <1>1, <2>1
  <2>3. list[i] = x
    BY <1>2, <2>2, RankIsInjective
  <2> QED BY <2>2, <2>3
<1>6. Range(list) = S
  BY <1>2, <1>3, <1>5 DEF Range
<1> QED BY <1>3, <1>4, <1>6 DEF n, Lists

-----------------------------------------------------------------------------
(* Folds over a sequence *)

(* A finite set of numbers has a greatest element.                         *)
LEMMA MaxIsElement ==
  ASSUME NEW S \in SUBSET Nat, IsFiniteSet(S), S # {}
  PROVE  Max(S) \in S /\ \A y \in S : Max(S) >= y
<1> DEFINE Bounded == {T \in SUBSET S : T # {} => \E x \in T : \A y \in T : x >= y}
<1>1. {} \in Bounded
  OBVIOUS
<1>2. ASSUME NEW T \in SUBSET S, NEW x \in S \ T, T \in Bounded PROVE T \cup {x} \in Bounded
  <2>1. CASE T = {}
    BY <2>1
  <2>2. CASE T # {}
    <3>1. PICK m \in T : \A y \in T : m >= y
      BY <1>2, <2>2
    <3>2. CASE x >= m
      <4>1. \A y \in T \cup {x} : x >= y
        BY <3>1, <3>2
      <4> QED BY <4>1
    <3>3. CASE ~(x >= m)
      <4>1. \A y \in T \cup {x} : m >= y
        BY <3>1, <3>3
      <4> QED BY <3>1, <4>1
    <3> QED BY <3>2, <3>3
  <2> QED BY <2>1, <2>2
<1>3. S \in Bounded
  <2> HIDE DEF Bounded
  <2> QED BY <1>1, <1>2, SubsetInduction
<1> QED BY <1>3 DEF Max

LEMMA MaxOfPart ==
  ASSUME NEW n \in Nat, NEW s \in SUBSET (1..n), s # {}
  PROVE  Max(s) \in 1..n
<1>1. IsFiniteSet(1..n)
  BY FS_Interval
<1>2. IsFiniteSet(s)
  BY <1>1, FS_Subset
<1>n. s \in SUBSET Nat
  OBVIOUS
<1>3. Max(s) \in s
  BY <1>2, <1>n, MaxIsElement
<1> QED BY <1>3

(* iter folds step over the elements of 1..n, greatest last.               *)
IsFold(iter, step, base, n) ==
  \A s \in SUBSET (1..n) :
    iter[s] = IF s = {} THEN base ELSE step[<<iter[s \ {Max(s)}], Max(s)>>]

(* The function a fold is read from exists when its step stays in Acc.     *)
LEMMA FoldExists ==
  ASSUME NEW Acc, NEW base \in Acc, NEW n \in Nat, NEW step \in [Acc \X (1..n) -> Acc]
  PROVE  \E iter \in [SUBSET (1..n) -> Acc] : IsFold(iter, step, base, n)
<1> DEFINE S == 1..n
           Small(k) == {s \in SUBSET S : Cardinality(s) <= k}
           Step(f, s) == IF s = {} THEN base ELSE step[<<f[s \ {Max(s)}], Max(s)>>]
           Sized == {k \in Nat : \E f \in [Small(k) -> Acc] : f = [s \in Small(k) |-> Step(f, s)]}
<1>1. IsFiniteSet(S)
  BY FS_Interval
<1>2. \A s \in SUBSET S : IsFiniteSet(s) /\ Cardinality(s) \in Nat
  BY <1>1, FS_Subset, FS_CardinalityType
<1>3. \A s \in SUBSET S : s # {} => Max(s) \in s
  <2>1. S \subseteq Nat
    OBVIOUS
  <2> QED BY <1>2, <2>1, MaxIsElement
<1>4. 0 \in Sized
  <2> DEFINE f == [s \in Small(0) |-> base]
  <2>1. \A s \in Small(0) : s = {}
    BY <1>2, FS_EmptySet
  <2>2. f = [s \in Small(0) |-> Step(f, s)] /\ f \in [Small(0) -> Acc]
    BY <2>1
  <2> HIDE DEF f
  <2> QED BY <2>2
<1>5. ASSUME NEW k \in Nat, k \in Sized PROVE k + 1 \in Sized
  <2>1. PICK f \in [Small(k) -> Acc] : f = [s \in Small(k) |-> Step(f, s)]
    BY <1>5
  <2> DEFINE g == [s \in Small(k + 1) |-> Step(f, s)]
  <2>a. \A s \in Small(k + 1) : s # {} => s \ {Max(s)} \in Small(k) /\ Max(s) \in S
    <3> TAKE s \in Small(k + 1)
    <3> HAVE s # {}
    <3>1. IsFiniteSet(s) /\ s \in SUBSET S /\ Cardinality(s) <= k + 1 /\ Max(s) \in s
      BY <1>2, <1>3
    <3>2. Cardinality(s \ {Max(s)}) = Cardinality(s) - 1 /\ Cardinality(s) \in Nat
      BY <3>1, WithoutAny
    <3>3. Cardinality(s \ {Max(s)}) <= k
      BY ONLY <3>1, <3>2, k \in Nat
    <3>4. s \ {Max(s)} \in SUBSET S
      BY ONLY <3>1
    <3> QED BY <3>1, <3>3, <3>4
  <2>b. \A s \in Small(k + 1) : Step(f, s) \in Acc
    BY <2>a
  <2>c. \A s \in Small(k) : s \in Small(k + 1)
    BY <1>2
  <2>2. \A s \in Small(k) : g[s] = f[s]
    <3> TAKE s \in Small(k)
    <3>1. f[s] = Step(f, s)
      BY <2>1
    <3> QED BY <3>1, <2>c
  <2>3. \A s \in Small(k + 1) : Step(g, s) = Step(f, s)
    <3> TAKE s \in Small(k + 1)
    <3>1. s # {} => g[s \ {Max(s)}] = f[s \ {Max(s)}]
      BY <2>a, <2>2
    <3> HIDE DEF g
    <3> QED BY <3>1
  <2>4. g = [s \in Small(k + 1) |-> Step(g, s)] /\ g \in [Small(k + 1) -> Acc]
    BY <2>3, <2>b
  <2> HIDE DEF g, Step, Small
  <2>5. \E h \in [Small(k + 1) -> Acc] : h = [s \in Small(k + 1) |-> Step(h, s)]
    BY <2>4
  <2>6. k + 1 \in Nat
    OBVIOUS
  <2> QED BY <2>5, <2>6
<1>6. n \in Sized
  <2> HIDE DEF Sized
  <2> QED BY <1>4, <1>5, SetInduction
<1>7. PICK f \in [Small(n) -> Acc] : f = [s \in Small(n) |-> Step(f, s)]
  BY <1>6
<1>8. Small(n) = SUBSET S
  <2>1. Cardinality(S) = n
    BY FS_Interval
  <2>2. \A s \in SUBSET S : Cardinality(s) <= Cardinality(S)
    BY <1>1, FS_Subset
  <2> QED BY <2>1, <2>2
<1>9. IsFold(f, step, base, n)
  BY <1>7, <1>8 DEF IsFold
<1> QED BY <1>7, <1>8, <1>9

(* What holds at the start of a run and after each step holds at its end.  *)
LEMMA RunInduction ==
  ASSUME NEW n \in Nat, NEW P, 0 \in P, \A i \in 1..n : i - 1 \in P => i \in P
  PROVE  0..n \subseteq P
<1> DEFINE Q == {i \in Nat : i <= n => i \in P}
<1>1. 0 \in Q
  OBVIOUS
<1>2. ASSUME NEW i \in Nat, i \in Q PROVE i + 1 \in Q
  BY <1>2
<1>3. Nat \subseteq Q
  <2> HIDE DEF Q
  <2> QED BY <1>1, <1>2, SetInduction
<1> QED BY <1>3

(* The prefixes of 1..n, which is the order a fold takes its elements in.  *)
LEMMA LastOfPrefix ==
  ASSUME NEW i \in Nat \ {0}
  PROVE  Max(1..i) = i
<1>1. 1..i \in SUBSET Nat /\ i \in 1..i
  OBVIOUS
<1>2. 1..i # {}
  BY <1>1
<1>3. IsFiniteSet(1..i)
  BY FS_Interval
<1>4. Max(1..i) \in 1..i /\ \A y \in 1..i : Max(1..i) >= y
  BY <1>1, <1>2, <1>3, MaxIsElement
<1>5. Max(1..i) \in Nat /\ Max(1..i) <= i /\ Max(1..i) >= i
  BY <1>1, <1>4
<1> QED BY <1>5

LEMMA PrefixBefore ==
  ASSUME NEW i \in Nat \ {0}
  PROVE  (1..i) \ {i} = 1..(i - 1)
OBVIOUS

(* The steps of iter, and those of a run, are in R.                        *)
StepsIn(iter, n, Acc, R) ==
  \A s \in SUBSET (1..n) :
    s # {} /\ iter[s \ {Max(s)}] \in Acc =>
      iter[s] \in Acc /\ <<iter[s \ {Max(s)}], iter[s], Max(s)>> \in R

IsFoldRun(run, n, Acc, base, R) ==
  /\ run \in [0..n -> Acc]
  /\ run[0] = base
  /\ \A i \in 1..n : <<run[i - 1], run[i], i>> \in R

(* The accumulators of a fold form such a run.                             *)
LEMMA RunOfAFold ==
  ASSUME NEW n \in Nat, NEW Acc, NEW base \in Acc, NEW R, NEW iter, iter[{}] = base,
         StepsIn(iter, n, Acc, R)
  PROVE  \E run : IsFoldRun(run, n, Acc, base, R) /\ run[n] = iter[1..n]
<1> DEFINE run == [i \in 0..n |-> iter[1..i]]
           P == {i \in 0..n : iter[1..i] \in Acc}
<1>1. 1..0 = {}
  OBVIOUS
<1>s. \A s \in SUBSET (1..n) :
        s # {} /\ iter[s \ {Max(s)}] \in Acc =>
          iter[s] \in Acc /\ <<iter[s \ {Max(s)}], iter[s], Max(s)>> \in R
  BY DEF StepsIn
<1>2. ASSUME NEW i \in 1..n, iter[1..(i - 1)] \in Acc
      PROVE  iter[1..i] \in Acc /\ <<iter[1..(i - 1)], iter[1..i], i>> \in R
  <2>1. 1..i \in SUBSET (1..n) /\ i \in Nat \ {0} /\ i \in 1..i
    OBVIOUS
  <2>2. 1..i # {}
    BY <2>1
  <2>3. Max(1..i) = i /\ (1..i) \ {i} = 1..(i - 1)
    BY <2>1, LastOfPrefix, PrefixBefore
  <2>4. iter[(1..i) \ {Max(1..i)}] \in Acc
    BY <1>2, <2>3
  <2>5. iter[1..i] \in Acc /\ <<iter[(1..i) \ {Max(1..i)}], iter[1..i], Max(1..i)>> \in R
    BY <1>s, <2>1, <2>2, <2>4
  <2> QED BY <2>3, <2>5
<1>3. 0..n \subseteq P
  <2>1. 0 \in P
    BY <1>1
  <2>2. ASSUME NEW i \in 1..n, i - 1 \in P PROVE i \in P
    <3>1. iter[1..(i - 1)] \in Acc
      BY <2>2
    <3>2. iter[1..i] \in Acc
      BY <1>2, <3>1, Zenon
    <3>3. i \in 0..n
      OBVIOUS
    <3> QED BY <3>2, <3>3
  <2> HIDE DEF P
  <2> QED BY <2>1, <2>2, RunInduction
<1>4. run \in [0..n -> Acc] /\ run[0] = base /\ run[n] = iter[1..n]
  BY <1>1, <1>3
<1>5. ASSUME NEW i \in 1..n PROVE <<run[i - 1], run[i], i>> \in R
  <2>1. i - 1 \in 0..n /\ i \in 0..n
    OBVIOUS
  <2>2. run[i - 1] = iter[1..(i - 1)] /\ run[i] = iter[1..i] /\ iter[1..(i - 1)] \in Acc
    BY <1>3, <2>1
  <2> QED BY <1>2, <2>2
<1> HIDE DEF run
<1>6. IsFoldRun(run, n, Acc, base, R)
  BY <1>4, <1>5 DEF IsFoldRun
<1> QED BY <1>4, <1>6

(* The same for a fold whose step is a function: run is the accumulator    *)
(* after 0, 1, ... elements.                                               *)
IsStepRun(run, step, base, n) ==
  /\ run[0] = base
  /\ \A i \in 1..n : run[i] = step[<<run[i - 1], i>>]

(* iter steps so wherever it is still in Acc. *)
StepsBy(iter, step, n, Acc) ==
  \A s \in SUBSET (1..n) :
    s # {} /\ iter[s \ {Max(s)}] \in Acc => iter[s] = step[<<iter[s \ {Max(s)}], Max(s)>>]

LEMMA StepsAreARun ==
  ASSUME NEW n \in Nat, NEW Acc, NEW base \in Acc, NEW step \in [Acc \X (1..n) -> Acc],
         NEW iter, iter[{}] = base, StepsBy(iter, step, n, Acc)
  PROVE  \E run \in [0..n -> Acc] : IsStepRun(run, step, base, n) /\ run[n] = iter[1..n]
<1> DEFINE R == {t \in Acc \X Acc \X (1..n) : t[2] = step[<<t[1], t[3]>>]}
<1>1. StepsIn(iter, n, Acc, R)
  <2> SUFFICES ASSUME NEW s \in SUBSET (1..n), s # {}, iter[s \ {Max(s)}] \in Acc
               PROVE  iter[s] \in Acc /\ <<iter[s \ {Max(s)}], iter[s], Max(s)>> \in R
    BY DEF StepsIn
  <2>1. Max(s) \in 1..n
    BY MaxOfPart
  <2>2. iter[s] = step[<<iter[s \ {Max(s)}], Max(s)>>]
    BY DEF StepsBy
  <2>3. iter[s] \in Acc
    BY <2>1, <2>2
  <2> QED BY <2>1, <2>2, <2>3
<1> HIDE DEF R
<1>2. PICK run : IsFoldRun(run, n, Acc, base, R) /\ run[n] = iter[1..n]
  BY <1>1, RunOfAFold
<1>3. run \in [0..n -> Acc] /\ IsStepRun(run, step, base, n)
  BY <1>2 DEF IsFoldRun, IsStepRun, R
<1> QED BY <1>2, <1>3

(* iter stays in Acc at every step. *)
StaysIn(iter, n, Acc) ==
  \A s \in SUBSET (1..n) : s # {} /\ iter[s \ {Max(s)}] \in Acc => iter[s] \in Acc

(* What a fold keeps at each step it keeps to the end.                     *)
LEMMA FoldStaysIn ==
  ASSUME NEW n \in Nat, NEW Acc, NEW iter, iter[{}] \in Acc, StaysIn(iter, n, Acc)
  PROVE  iter[1..n] \in Acc
<1> DEFINE P == {i \in 0..n : iter[1..i] \in Acc}
<1>1. 0 \in P
  <2>1. 1..0 = {}
    OBVIOUS
  <2> QED BY <2>1
<1>2. ASSUME NEW i \in 1..n, i - 1 \in P PROVE i \in P
  <2>1. i \in Nat \ {0} /\ i \in 0..n /\ 1..i \in SUBSET (1..n) /\ 1..i # {}
    OBVIOUS
  <2>2. Max(1..i) = i /\ (1..i) \ {i} = 1..(i - 1)
    BY <2>1, LastOfPrefix, PrefixBefore
  <2>3. iter[1..i] \in Acc
    BY <1>2, <2>1, <2>2 DEF StaysIn
  <2> QED BY <2>1, <2>3
<1>3. 0..n \subseteq P
  <2> HIDE DEF P
  <2> QED BY <1>1, <1>2, RunInduction
<1> QED BY <1>3

(* Two neighbours in a sequence.                                           *)
LEMMA TwoOfASeq ==
  ASSUME NEW S, NEW seq \in Seq(S), NEW i \in 1..(Len(seq) - 1)
  PROVE  SubSeq(seq, i, i + 1) = <<seq[i], seq[i + 1]>>
<1>1. Len(seq) \in Nat /\ i \in Nat /\ i + 1 <= Len(seq)
  OBVIOUS
<1>2. SubSeq(seq, i, i + 1) = [k \in 1..2 |-> seq[i + k - 1]]
  BY <1>1
<1> DEFINE pair == [k \in 1..2 |-> seq[i + k - 1]]
<1>3. /\ pair \in Seq(S) /\ Len(pair) = 2
      /\ pair[1] = seq[i] /\ pair[2] = seq[i + 1]
  BY <1>1
<1> HIDE DEF pair
<1>4. pair = <<pair[1], pair[2]>>
  BY <1>3
<1> QED BY <1>2, <1>3, <1>4 DEF pair

-----------------------------------------------------------------------------
(* Orders of a set, and least elements *)

(* A sequence of all elements of a set, each once, covers the set.         *)
LEMMA OrdersCover ==
  ASSUME NEW S, IsFiniteSet(S), NEW order \in SetToSeqs(S)
  PROVE  order \in Seq(S) /\ \A x \in S : \E i \in 1..Len(order) : order[i] = x
<1> DEFINE n == Cardinality(S)
           D == 1..n
<1>1. n \in Nat
  BY FS_CardinalityType
<1>2. order \in [D -> S] /\ \A i, j \in D : i # j => order[i] # order[j]
  BY DEF SetToSeqs
<1>3. IsFiniteSet(D) /\ Cardinality(D) = n
  BY <1>1, FS_Interval
<1> HIDE DEF n
<1>4. order \in Injection(D, S)
  BY <1>2 DEF Injection, IsInjective
<1>5. order \in Surjection(D, S)
  BY <1>3, <1>4, FS_Injection DEF n
<1>6. order \in Seq(S) /\ Len(order) = n
  BY <1>1, <1>2
<1> QED BY <1>5, <1>6 DEF Surjection

(* The order SetToSeq takes is one of them.                                *)
LEMMA SetToSeqIsAnOrder ==
  ASSUME NEW S, IsFiniteSet(S)
  PROVE  SetToSeq(S) \in SetToSeqs(S)
<1> DEFINE n == Cardinality(S)
<1>1. n \in Nat
  BY FS_CardinalityType
<1>2. PICK f : f \in Bijection(1..n, S)
  BY FS_CardinalityType DEF ExistsBijection
<1>3. f \in [1..n -> S] /\ IsInjective(f)
  BY <1>2 DEF Bijection, Injection
<1>4. SetToSeq(S) \in [1..n -> S] /\ IsInjective(SetToSeq(S))
  BY <1>3 DEF SetToSeq
<1> HIDE DEF n
<1>5. SetToSeq(S) \in {g \in [1..n -> S] : \A i, j \in 1..n : i # j => g[i] # g[j]}
  BY <1>4 DEF IsInjective
<1> QED BY <1>5 DEF SetToSeqs, n

(* Some number of a set of numbers is the least.                           *)
LEMMA LeastExists ==
  ASSUME NEW S \in SUBSET Nat, S # {}
  PROVE  \E m \in S : \A k \in S : m <= k
<1> DEFINE Above == {n \in Nat : \A k \in S : n <= k}
<1> SUFFICES ASSUME \A m \in S : m \notin Above PROVE FALSE
  OBVIOUS
<1>1. 0 \in Above
  OBVIOUS
<1>2. ASSUME NEW n \in Nat, n \in Above PROVE n + 1 \in Above
  <2>1. \A k \in S : n <= k /\ n # k
    BY <1>2
  <2> QED BY <2>1
<1>3. Nat \subseteq Above
  <2> HIDE DEF Above
  <2> QED BY <1>1, <1>2, SetInduction
<1>4. PICK k \in S : TRUE
  OBVIOUS
<1>5. k + 1 \in Above
  BY <1>3
<1> QED BY <1>4, <1>5

-----------------------------------------------------------------------------
(* Rankings                                                                *)

(* list is S from the first to the last of an order.                       *)
IsRanking(list, before, S) ==
  /\ list \in Seq(S)
  /\ Lists(list, S)
  /\ \A i, j \in DOMAIN list : i < j => <<list[i], list[j]>> \in before

(* The first m of S, and the places 1..i of a list.                        *)
RankedBelow(before, S, m) == {x \in S : Rank(before, S, x) < m}

Passed(list, i) == {list[j] : j \in 1..i}

LEMMA OrderOfPart ==
  ASSUME NEW S, NEW T \in SUBSET S, NEW before, IsOrder(before, S)
  PROVE  IsOrder(before, T)
BY DEF IsOrder

(* Of the first m, as many lie ahead of x as make room for it just when x  *)
(* is one of them: a count of what was taken so far decides as the rank    *)
(* does.                                                                   *)
LEMMA RoomIsRank ==
  ASSUME NEW S, IsFiniteSet(S), NEW before, IsOrder(before, S), NEW x \in S, NEW m \in Nat
  PROVE  /\ IsFiniteSet(RankedBelow(before, S, m) \cap Ahead(before, S, x))
         /\ Cardinality(RankedBelow(before, S, m) \cap Ahead(before, S, x)) \in Nat
         /\ Cardinality(RankedBelow(before, S, m) \cap Ahead(before, S, x)) < m
              <=> x \in RankedBelow(before, S, m)
         /\ x \in RankedBelow(before, S, m)
              => RankedBelow(before, S, m) \cap Ahead(before, S, x) = Ahead(before, S, x)
<1> DEFINE first == RankedBelow(before, S, m)
           ahead == Ahead(before, S, x)
           both == first \cap ahead
           r == Rank(before, S, x)
<1>1. r \in 0..(Cardinality(S) - 1) /\ Cardinality(S) \in Nat
  BY RankIsBounded, FS_CardinalityType
<1>2. both \in SUBSET S /\ ahead \in SUBSET S /\ first \in SUBSET S
  BY DEF Ahead, RankedBelow
<1>3. IsFiniteSet(both) /\ Cardinality(both) \in Nat
  <2> HIDE DEF both
  <2>1. IsFiniteSet(both)
    BY <1>2, FS_Subset
  <2> QED BY <2>1, FS_CardinalityType
<1>4. x \in first <=> r < m
  BY DEF RankedBelow
<1>5. \A y \in S : Rank(before, S, y) \in Nat
  <2> TAKE y \in S
  <2>1. Rank(before, S, y) \in 0..(Cardinality(S) - 1)
    BY RankIsBounded
  <2> QED BY <1>1, <2>1
<1>6. CASE r < m
  <2>1. \A y \in ahead : y \in first
    <3> TAKE y \in ahead
    <3>1. y \in S /\ <<y, x>> \in before
      BY DEF Ahead
    <3>2. Rank(before, S, y) < r
      BY <3>1, RankGrows
    <3>3. Rank(before, S, y) < m
      BY <1>1, <1>5, <1>6, <3>1, <3>2
    <3> QED BY <3>1, <3>3 DEF RankedBelow
  <2>2. both = ahead
    BY <2>1
  <2>3. Cardinality(both) = r
    BY <2>2 DEF Rank
  <2> QED BY <1>3, <1>4, <1>6, <2>2, <2>3
<1>7. CASE ~(r < m)
  <2>1. \A y \in first : y \in ahead
    <3> TAKE y \in first
    <3>1. y \in S /\ Rank(before, S, y) < m
      BY DEF RankedBelow
    <3>2. ~(r < Rank(before, S, y)) /\ r # Rank(before, S, y)
      BY <1>1, <1>5, <1>7, <3>1
    <3>3. <<x, y>> \notin before
      BY <3>1, <3>2, RankGrows
    <3>4. x # y
      BY <3>2
    <3>5. <<y, x>> \in before
      BY <3>1, <3>3, <3>4 DEF IsOrder
    <3> QED BY <3>1, <3>5 DEF Ahead
  <2>2. both = first
    BY <2>1
  <2>3. Cardinality(first) = IF Cardinality(S) <= m THEN Cardinality(S) ELSE m
    BY FirstByRank DEF RankedBelow
  <2>4. ~(Cardinality(S) <= m)
    BY <1>1, <1>7
  <2>5. ~(Cardinality(both) < m)
    BY <2>2, <2>3, <2>4
  <2> QED BY <1>3, <1>4, <1>7, <2>5
<1> QED BY <1>6, <1>7

(* What a ranking has passed at a place is what lies ahead of it.          *)
LEMMA PassedIsAhead ==
  ASSUME NEW S, NEW before, IsOrder(before, S), NEW list, IsRanking(list, before, S),
         NEW i \in 1..Len(list)
  PROVE  /\ list[i] \in S
         /\ Passed(list, i - 1) = Ahead(before, S, list[i])
         /\ Passed(list, i) = Passed(list, i - 1) \cup {list[i]}
         /\ list[i] \notin Passed(list, i - 1)
<1> DEFINE n == Len(list)
<1>1. n \in Nat /\ DOMAIN list = 1..n /\ \A j \in 1..n : list[j] \in S
  BY DEF IsRanking
<1>2. \A x \in S : \E j \in 1..n : list[j] = x
  BY <1>1 DEF IsRanking, Lists, Range
<1>3. \A j, k \in 1..n : j < k => <<list[j], list[k]>> \in before
  BY <1>1 DEF IsRanking
<1> HIDE DEF n
<1>4. i \in 1..n /\ i \in Nat /\ list[i] \in S
  BY <1>1 DEF n
<1>5. ASSUME NEW j \in 1..n PROVE <<list[j], list[i]>> \in before <=> j < i
  <2>1. CASE j < i
    BY <1>3, <1>4, <2>1
  <2>2. CASE j = i
    BY <1>4, <2>2 DEF IsOrder
  <2>3. CASE i < j
    <3>1. <<list[i], list[j]>> \in before /\ list[j] \in S
      BY <1>1, <1>3, <1>4, <2>3
    <3>2. <<list[j], list[i]>> \notin before
      BY <1>4, <3>1 DEF IsOrder
    <3> QED BY <1>4, <2>3, <3>2
  <2> QED BY <1>4, <2>1, <2>2, <2>3
<1>6. Passed(list, i - 1) = Ahead(before, S, list[i])
  <2>1. ASSUME NEW x \in Passed(list, i - 1) PROVE x \in Ahead(before, S, list[i])
    <3>1. PICK j \in 1..(i - 1) : x = list[j]
      BY DEF Passed
    <3>2. j \in 1..n /\ j < i
      BY <1>1, <1>4, <3>1
    <3> QED BY <1>1, <1>5, <3>1, <3>2 DEF Ahead
  <2>2. ASSUME NEW x \in Ahead(before, S, list[i]) PROVE x \in Passed(list, i - 1)
    <3>1. PICK j \in 1..n : list[j] = x
      BY <1>2 DEF Ahead
    <3>2. j < i
      BY <1>5, <3>1 DEF Ahead
    <3>3. j \in 1..(i - 1)
      BY <1>4, <3>2
    <3> QED BY <3>1, <3>3 DEF Passed
  <2> QED BY <2>1, <2>2
<1>7. Passed(list, i) = Passed(list, i - 1) \cup {list[i]}
  <2>1. 1..i = (1..(i - 1)) \cup {i}
    BY <1>4
  <2> QED BY <2>1 DEF Passed
<1>8. list[i] \notin Passed(list, i - 1)
  BY <1>4, <1>6 DEF Ahead, IsOrder
<1> QED BY <1>4, <1>6, <1>7, <1>8

(* A ranking of those of G passed so far grows into one.                   *)
LEMMA RankingGrows ==
  ASSUME NEW S, NEW before, IsOrder(before, S), NEW list, IsRanking(list, before, S),
         NEW i \in 1..Len(list), NEW G \in SUBSET S,
         NEW taken, IsRanking(taken, before, G \cap Passed(list, i - 1))
  PROVE  /\ list[i] \in G => IsRanking(Append(taken, list[i]), before, G \cap Passed(list, i))
         /\ list[i] \notin G => IsRanking(taken, before, G \cap Passed(list, i))
<1> DEFINE x == list[i]
           old == G \cap Passed(list, i - 1)
           new == G \cap Passed(list, i)
<1>1. /\ x \in S /\ Passed(list, i - 1) = Ahead(before, S, x)
      /\ Passed(list, i) = Passed(list, i - 1) \cup {x} /\ x \notin Passed(list, i - 1)
  BY PassedIsAhead
<1>2. \A y \in old : <<y, x>> \in before
  BY <1>1 DEF Ahead
<1>3. x \notin old
  BY <1>1
<1>4. CASE x \notin G
  <2>1. new = old
    BY <1>1, <1>4
  <2> HIDE DEF new, old
  <2> QED BY <1>4, <2>1 DEF new, old
<1>5. CASE x \in G
  <2>1. new = old \cup {x}
    BY <1>1, <1>5
  <2>a. IsRanking(taken, before, old)
    OBVIOUS
  <2> HIDE DEF new, old, x
  <2>2. taken \in Seq(old) /\ Lists(taken, old)
    BY <2>a DEF IsRanking
  <2>3. taken \in Seq(new) /\ x \in new
    BY <2>1, <2>2
  <2>4. Lists(Append(taken, x), new)
    BY <1>3, <2>1, <2>2, <2>3, FifoAppend
  <2>5. Append(taken, x) \in Seq(new)
    BY <2>3, AppendProperties
  <2> DEFINE m == Len(taken)
  <2>6. /\ m \in Nat /\ DOMAIN taken = 1..m /\ DOMAIN Append(taken, x) = 1..(m + 1)
        /\ Append(taken, x)[m + 1] = x
        /\ \A j \in 1..m : Append(taken, x)[j] = taken[j] /\ taken[j] \in old
    BY <2>2, <2>3, AppendProperties
  <2> HIDE DEF m
  <2>7. ASSUME NEW j \in 1..(m + 1), NEW k \in 1..(m + 1), j < k
        PROVE  <<Append(taken, x)[j], Append(taken, x)[k]>> \in before
    <3>1. j \in 1..m
      BY <2>6, <2>7
    <3>2. CASE k \in 1..m
      BY <2>6, <2>7, <2>a, <3>1, <3>2 DEF IsRanking
    <3>3. CASE k = m + 1
      BY <1>2, <2>6, <3>1, <3>3
    <3> QED BY <2>6, <3>2, <3>3
  <2>8. IsRanking(Append(taken, x), before, new)
    BY <2>4, <2>5, <2>6, <2>7 DEF IsRanking
  <2> QED BY <1>5, <2>8 DEF new, x
<1> QED BY <1>4, <1>5

(* At its end a ranking has passed all.                                    *)
LEMMA AllArePassed ==
  ASSUME NEW S, NEW before, NEW list, IsRanking(list, before, S)
  PROVE  Passed(list, 0) = {} /\ Passed(list, Len(list)) = S
<1>1. DOMAIN list = 1..Len(list)
  BY DEF IsRanking
<1>2. Passed(list, Len(list)) = S
  BY <1>1 DEF Passed, IsRanking, Lists, Range
<1>3. 1..0 = {}
  OBVIOUS
<1> QED BY <1>2, <1>3 DEF Passed

LEMMA EmptyRanking ==
  ASSUME NEW before
  PROVE  IsRanking(<< >>, before, {})
<1>1. Lists(<< >>, {})
  BY EmptyFifo
<1> QED BY <1>1 DEF IsRanking

(* An element of a ranking has as many ahead as there are places before.   *)
LEMMA PlaceIsRank ==
  ASSUME NEW S, IsFiniteSet(S), NEW before, IsOrder(before, S),
         NEW list, IsRanking(list, before, S), NEW i \in 1..Len(list)
  PROVE  Rank(before, S, list[i]) = i - 1
<1> DEFINE J == 1..(i - 1)
<1>1. list \in Seq(S) /\ Lists(list, S) /\ Len(list) \in Nat
  BY DEF IsRanking
<1>2. J \in SUBSET (1..Len(list)) /\ i \in Nat
  BY <1>1
<1>3. Passed(list, i - 1) = Ahead(before, S, list[i])
  BY PassedIsAhead
<1>4. Cardinality({list[k] : k \in J}) = Cardinality(J)
  <2> HIDE DEF J
  <2> QED BY <1>1, <1>2, PlacesCount
<1>5. Cardinality(1..(i - 1)) = i - 1
  BY <1>2, FS_Interval
<1> QED BY <1>3, <1>4, <1>5 DEF Passed, Rank

(* A set has one ranking, the listing by rank.                             *)
IsListedByRank(list, before, S) ==
  /\ list \in [1..Cardinality(S) -> S]
  /\ \A i \in 1..Cardinality(S) : Rank(before, S, list[i]) = i - 1

LEMMA RankingIsUnique ==
  ASSUME NEW S, IsFiniteSet(S), NEW before, IsOrder(before, S),
         NEW list, IsRanking(list, before, S),
         NEW other, IsListedByRank(other, before, S)
  PROVE  list = other
<1> DEFINE n == Cardinality(S)
<1>1. list \in Seq(S) /\ Len(list) = n /\ n \in Nat
  BY FS_CardinalityType DEF IsRanking, Lists
<1>2. list = [i \in 1..n |-> list[i]] /\ \A i \in 1..n : list[i] \in S
  BY <1>1
<1>3. ASSUME NEW i \in 1..n PROVE list[i] = other[i]
  <2>1. Rank(before, S, list[i]) = i - 1
    BY <1>1, PlaceIsRank
  <2>2. Rank(before, S, other[i]) = i - 1 /\ other[i] \in S
    BY DEF IsListedByRank
  <2>3. list[i] \in S
    BY <1>2
  <2> QED BY <2>1, <2>2, <2>3, RankIsInjective
<1>4. other = [i \in 1..n |-> other[i]]
  BY DEF IsListedByRank
<1> HIDE DEF n
<1> QED BY <1>2, <1>3, <1>4

=============================================================================
