---------------------------- MODULE EngineProofs ----------------------------
(***************************************************************************)
(* The engine implements the ledger, for any events, hash and bounds.      *)
(*                                                                         *)
(* The vocabulary, which the engine extends, comes first: its invariants   *)
(* are steps of the engine's.                                              *)
(*                                                                         *)
(* The inductive invariant relates the accumulations of a window: the      *)
(* buckets are keyed as the index of the vocabulary is, their counts sum   *)
(* to the lines observed, and what is kept of the last window closed is a  *)
(* bag of templates the registry knows.  A document then adds up because   *)
(* top_k, reservoir and tail share out the buckets, and its drift is the   *)
(* ledger's because a window without lines is one without buckets.         *)
(***************************************************************************)
EXTENDS EngineHistory, BlockLemmas

-----------------------------------------------------------------------------
(* The vocabulary                                                          *)
(*                                                                         *)
(* Its invariants hold for any template strings and any hash, collisions   *)
(* included.  Their conjunction is inductive: that a cache hit is coherent *)
(* rests on the index being a bijection, and that the bijection is kept    *)
(* rests on a new internal id being the number of templates.               *)

VocabularyInv ==
  /\ VocabularyTypeOK
  /\ IndexIsABijection
  /\ CacheIsCoherent
  /\ WindowIdsResolve

(* Extend stays within a set of values that holds the old and the new.     *)
LEMMA ExtendType ==
  ASSUME NEW f, NEW x, NEW y, NEW T, f \in [DOMAIN f -> T], y \in T
  PROVE  Extend(f, x, y) \in [DOMAIN Extend(f, x, y) -> T]
BY DEF Extend

LEMMA InitHasVocabularyInv == VocabularyInit => VocabularyInv
<1> SUFFICES ASSUME VocabularyInit PROVE VocabularyInv
  OBVIOUS
<1>1. VocabularyTypeOK
  BY DEF VocabularyInit, VocabularyTypeOK
<1>2. IndexIsABijection
  BY DEF VocabularyInit, IndexIsABijection
<1>3. CacheIsCoherent /\ WindowIdsResolve
  BY DEF VocabularyInit, CacheIsCoherent, WindowIdsResolve
<1> QED BY <1>1, <1>2, <1>3 DEF VocabularyInv

LEMMA ResetKeepsVocabularyInv == VocabularyInv /\ ResetVocabulary => VocabularyInv'
<1> SUFFICES ASSUME VocabularyInv, ResetVocabulary PROVE VocabularyInv'
  OBVIOUS
<1> USE DEF VocabularyInv, ResetVocabulary
<1>1. VocabularyTypeOK'
  BY DEF VocabularyTypeOK
<1>2. IndexIsABijection'
  BY DEF IndexIsABijection
<1>3. CacheIsCoherent' /\ WindowIdsResolve'
  BY DEF CacheIsCoherent, WindowIdsResolve
<1> QED BY <1>1, <1>2, <1>3

(* A lookup of an id that the window holds moves only the cache, and by an *)
(* entry that agrees with the index.                                       *)
LEMMA HeldLookUpKeepsVocabularyInv ==
  ASSUME VocabularyInv, NEW str \in TemplateStr, LookUp(str), IdOf[str] \in DOMAIN template_index
  PROVE  VocabularyInv'
<1> DEFINE entry == [content_id |-> IdOf[str], internal_id |-> InternalIdFor(str)]
<1>1. UNCHANGED <<template_index, templates, registry>>
  BY DEF LookUp
<1>2. InternalIdFor(str) = template_index[IdOf[str]]
  BY DEF InternalIdFor, VocabularyInv, CacheIsCoherent
<1>3. IdOf[str] \in TemplateId /\ template_index[IdOf[str]] \in Nat
  BY VocabularyAssumption DEF VocabularyInv, VocabularyTypeOK
<1>4. CASE str \in DOMAIN template_str_cache
  <2>1. template_str_cache' = template_str_cache
    BY <1>4 DEF LookUp, Cache
  <2> QED BY <1>1, <2>1 DEF VocabularyInv, VocabularyTypeOK, IndexIsABijection, CacheIsCoherent,
             WindowIdsResolve
<1>5. CASE str \notin DOMAIN template_str_cache
  <2>1. template_str_cache' = Extend(template_str_cache, str, entry)
    BY <1>5 DEF LookUp, Cache
  <2>2. /\ DOMAIN template_str_cache' = DOMAIN template_str_cache \cup {str}
        /\ template_str_cache'[str] = entry
        /\ \A z \in (DOMAIN template_str_cache) \ {str} :
             template_str_cache'[z] = template_str_cache[z]
    BY <2>1 DEF Extend
  <2>3. template_str_cache' \in [DOMAIN template_str_cache' -> [content_id : TemplateId, internal_id : Nat]]
    BY <2>1, <1>2, <1>3, ExtendType DEF VocabularyInv, VocabularyTypeOK
  <2>4. VocabularyTypeOK'
    BY <1>1, <2>2, <2>3 DEF VocabularyInv, VocabularyTypeOK
  <2>5. CacheIsCoherent'
    BY <1>1, <1>2, <2>2 DEF VocabularyInv, CacheIsCoherent
  <2> QED BY <1>1, <2>4, <2>5 DEF VocabularyInv, IndexIsABijection, WindowIdsResolve
<1> QED BY <1>4, <1>5

(* A lookup of an id new to the window gives it the next internal id.      *)
LEMMA NewLookUpKeepsVocabularyInv ==
  ASSUME VocabularyInv, NEW str \in TemplateStr, LookUp(str), IdOf[str] \notin DOMAIN template_index
  PROVE  VocabularyInv'
<1> DEFINE id == IdOf[str]
           n == Len(templates)
           entry == [content_id |-> id, internal_id |-> InternalIdFor(str)]
<1>1. str \notin DOMAIN template_str_cache
  BY DEF VocabularyInv, CacheIsCoherent
<1>2. InternalIdFor(str) = n
  BY <1>1 DEF InternalIdFor
<1>3. /\ template_str_cache' = Extend(template_str_cache, str, entry)
      /\ template_index' = Extend(template_index, id, n)
      /\ templates' = Append(templates, id)
      /\ Intern(id, str)
  BY <1>1 DEF LookUp, Cache
<1>4. id \in TemplateId /\ n \in Nat /\ templates \in Seq(TemplateId)
  BY VocabularyAssumption DEF VocabularyInv, VocabularyTypeOK
<1>5. /\ DOMAIN template_str_cache' = DOMAIN template_str_cache \cup {str}
      /\ template_str_cache'[str] = entry
      /\ \A z \in (DOMAIN template_str_cache) \ {str} :
           template_str_cache'[z] = template_str_cache[z]
  BY <1>3 DEF Extend
<1>6. /\ DOMAIN template_index' = DOMAIN template_index \cup {id}
      /\ template_index'[id] = n
      /\ \A z \in (DOMAIN template_index) \ {id} : template_index'[z] = template_index[z]
  BY <1>3 DEF Extend
<1>7. /\ templates' \in Seq(TemplateId)
      /\ Len(templates') = n + 1
      /\ templates'[n + 1] = id
      /\ \A i \in 1..n : templates'[i] = templates[i]
  BY <1>3, <1>4, AppendProperties
<1>8. registry' = registry \/ registry' = Extend(registry, id, str)
  BY <1>3 DEF Intern
<1>9. /\ id \in DOMAIN registry'
      /\ DOMAIN registry' = DOMAIN registry \cup {id}
      /\ \A z \in DOMAIN registry : registry'[z] = registry[z]
      /\ id \notin DOMAIN registry => registry'[id] = str
  BY <1>3 DEF Intern, Extend
<1>10. VocabularyTypeOK'
  <2>1. template_str_cache' \in [DOMAIN template_str_cache' -> [content_id : TemplateId, internal_id : Nat]]
    BY <1>2, <1>3, <1>4, ExtendType DEF VocabularyInv, VocabularyTypeOK
  <2>2. template_index' \in [DOMAIN template_index' -> Nat]
    BY <1>3, <1>4, ExtendType DEF VocabularyInv, VocabularyTypeOK
  <2>3. registry' \in [DOMAIN registry' -> TemplateStr]
    BY <1>8, ExtendType DEF VocabularyInv, VocabularyTypeOK
  <2> QED BY <1>4, <1>5, <1>6, <1>7, <1>9, <2>1, <2>2, <2>3 DEF VocabularyInv, VocabularyTypeOK
<1>11. IndexIsABijection'
  <2>1. \A i \in 1..n : templates[i] \in DOMAIN template_index /\ template_index[templates[i]] = i - 1
    BY DEF VocabularyInv, IndexIsABijection
  <2>2. \A i \in 1..(n + 1) : template_index'[templates'[i]] = i - 1
    BY <1>4, <1>6, <1>7, <2>1
  <2>3. DOMAIN template_index' = {templates'[i] : i \in 1..(n + 1)}
    <3>1. DOMAIN template_index = {templates[i] : i \in 1..n}
      BY DEF VocabularyInv, IndexIsABijection
    <3>2. 1..(n + 1) = (1..n) \cup {n + 1}
      BY <1>4
    <3> QED BY <1>4, <1>6, <1>7, <3>1, <3>2
  <2> QED BY <1>7, <2>2, <2>3 DEF IndexIsABijection
<1>12. CacheIsCoherent'
  <2>1. \A s \in DOMAIN template_str_cache :
          /\ template_str_cache[s].content_id \in (DOMAIN template_index) \ {id}
          /\ template_str_cache[s].content_id = IdOf[s]
          /\ template_str_cache[s].internal_id = template_index[template_str_cache[s].content_id]
    BY DEF VocabularyInv, CacheIsCoherent
  <2> QED BY <1>1, <1>2, <1>5, <1>6, <2>1 DEF CacheIsCoherent
<1>13. WindowIdsResolve'
  BY <1>6, <1>9 DEF VocabularyInv, WindowIdsResolve
<1> QED BY <1>10, <1>11, <1>12, <1>13 DEF VocabularyInv

LEMMA NextKeepsVocabularyInv == VocabularyInv /\ [VocabularyNext]_vocabularyVars => VocabularyInv'
<1> SUFFICES ASSUME VocabularyInv, [VocabularyNext]_vocabularyVars PROVE VocabularyInv'
  OBVIOUS
<1>1. CASE ResetVocabulary
  BY <1>1, ResetKeepsVocabularyInv
<1>2. CASE \E str \in TemplateStr, admit \in BOOLEAN : ~Refuses(str, admit) /\ LookUp(str)
  BY <1>2, HeldLookUpKeepsVocabularyInv, NewLookUpKeepsVocabularyInv
<1>3. CASE UNCHANGED vocabularyVars
  BY <1>3 DEF vocabularyVars, VocabularyInv, VocabularyTypeOK, IndexIsABijection, CacheIsCoherent,
              WindowIdsResolve
<1> QED BY <1>1, <1>2, <1>3 DEF VocabularyNext

LEMMA AlwaysVocabularyInv == VocabularySpec => []VocabularyInv
BY InitHasVocabularyInv, NextKeepsVocabularyInv, PTL DEF VocabularySpec

(* The vocabulary is well typed, an internal id always renders to the id   *)
(* it was given for, a cache hit never disagrees with the index, and every *)
(* id of the window has a display string: content_template_id_for, for any *)
(* templates and any hash.                                                 *)
THEOREM VocabularyInvariants ==
  VocabularySpec => [](VocabularyTypeOK /\ IndexIsABijection /\ CacheIsCoherent /\ WindowIdsResolve)
<1>1. VocabularyInv => VocabularyTypeOK /\ IndexIsABijection /\ CacheIsCoherent /\ WindowIdsResolve
  BY DEF VocabularyInv
<1> QED BY <1>1, AlwaysVocabularyInv, PTL

(* A hit of template_str_cache_ answers what content_template_id_for would *)
(* have got from the hash and from template_index_.                        *)
THEOREM CacheIsAlwaysCoherent == VocabularySpec => []CacheIsCoherent
<1>1. VocabularyInv => CacheIsCoherent
  BY DEF VocabularyInv
<1> QED BY <1>1, AlwaysVocabularyInv, PTL

(* The registry of TemplateRegistry::intern only accumulates: an id that   *)
(* an older document names resolves to the same string for ever.           *)
THEOREM RegistryAccumulates == VocabularySpec => RegistryOnlyGrows
<1> DEFINE Grows == \A id \in DOMAIN registry : id \in DOMAIN registry' /\ registry'[id] = registry[id]
<1>1. VocabularyNext => Grows
  <2>1. ASSUME NEW str \in TemplateStr, LookUp(str) PROVE Grows
    <3>1. \/ registry' = registry
          \/ IdOf[str] \notin DOMAIN registry /\ registry' = Extend(registry, IdOf[str], str)
      BY <2>1 DEF LookUp, Intern
    <3> QED BY <3>1 DEF Extend
  <2>2. CASE ResetVocabulary
    BY <2>2 DEF ResetVocabulary
  <2> QED BY <2>1, <2>2 DEF VocabularyNext
<1>2. [VocabularyNext]_vocabularyVars => [Grows]_registry
  BY <1>1 DEF vocabularyVars
<1> QED BY <1>2, PTL DEF VocabularySpec, RegistryOnlyGrows

-----------------------------------------------------------------------------
(* The state of the engine *)

BucketsInv ==
  /\ AreBuckets(buckets)
  /\ \A t \in DOMAIN buckets : buckets[t].echoed \in BOOLEAN
  /\ DOMAIN buckets = DOMAIN template_index
  /\ lines_observed = SumFunction(Frequencies)

PrevInv ==
  /\ IsFiniteBag(prev_freq)
  /\ prev_total = SumFunction(prev_freq)

WindowInv ==
  /\ window_start \in {<< >>} \cup {<<t>> : t \in Time}
  /\ window_start = << >> => buckets = << >>

EngineInv == VocabularyInv /\ BucketsInv /\ PrevInv /\ WindowInv

-----------------------------------------------------------------------------
(* The operators of the library, as the ledger and the engine name them    *)

LEMMA LedgerSum == ASSUME NEW f PROVE Ledger!SumFunction(f) = SumFunction(f)
BY Zenon DEF Ledger!SumFunction, SumFunction, Ledger!SumFunctionOnSet, SumFunctionOnSet,
             Ledger!FoldFunctionOnSet, FoldFunctionOnSet, Ledger!MapThenFoldSet, MapThenFoldSet

LEMMA LedgerCount == ASSUME NEW ids PROVE Ledger!Cardinality(ids) = Cardinality(ids)
BY DEF Ledger!Cardinality, Cardinality

LEMMA LedgerAdd == ASSUME NEW f, NEW x PROVE Ledger!BagAdd(f, x) = BagAdd(f, x)
BY DEF Ledger!BagAdd, BagAdd

-----------------------------------------------------------------------------
(* Bags *)

(* A bag of positive counts weighs nothing only when it is empty.          *)
LEMMA WeightlessBag ==
  ASSUME NEW bag, IsFiniteBag(bag)
  PROVE  SumFunction(bag) = 0 <=> bag = << >>
<1>1. CASE DOMAIN bag = {}
  <2>1. bag = << >>
    BY <1>1 DEF IsFiniteBag
  <2> QED BY <2>1, EmptyBagSum
<1>2. CASE DOMAIN bag # {}
  <2>1. PICK x : x \in DOMAIN bag
    BY <1>2
  <2>2. IsFiniteSet(DOMAIN bag) /\ NatOn(bag, DOMAIN bag) /\ bag[x] \in Nat \ {0}
    BY <2>1, BagSumIsNat DEF IsFiniteBag
  <2>3. IsFiniteSet(DOMAIN bag \ {x}) /\ NatOn(bag, DOMAIN bag \ {x})
    BY <2>2, FS_Subset DEF NatOn
  <2>4. SumFunction(bag) = bag[x] + SumFunctionOnSet(bag, DOMAIN bag \ {x})
    BY <2>1, <2>2, SumRemove DEF SumFunction, NatOn
  <2>5. SumFunctionOnSet(bag, DOMAIN bag \ {x}) \in Nat
    BY <2>3, SumIsNat DEF NatOn
  <2>6. bag # << >>
    BY <1>2
  <2> QED BY <2>2, <2>4, <2>5, <2>6
<1> QED BY <1>1, <1>2

(* BagAdd adds one.                                                        *)
LEMMA BagAddIsOneMore ==
  ASSUME NEW bag, IsFiniteBag(bag), NEW x
  PROVE  OneMore(bag, BagAdd(bag, x), x)
BY DEF BagAdd, OneMore, IsFiniteBag

(* The frequencies of a window are a bag.                                  *)
LEMMA FrequenciesAreABag ==
  ASSUME AreBuckets(buckets)
  PROVE  IsFiniteBag(Frequencies) /\ DOMAIN Frequencies = DOMAIN buckets
BY DEF AreBuckets, Frequencies, IsFiniteBag

-----------------------------------------------------------------------------
(* The invariant *)

LEMMA InitHasEngineInv == HistoryInit => EngineInv
<1> SUFFICES ASSUME HistoryInit PROVE EngineInv
  OBVIOUS
<1>1. VocabularyInv
  BY InitHasVocabularyInv DEF HistoryInit, Init
<1>2. buckets = << >> /\ template_index = << >> /\ lines_observed = 0 /\ window_start = << >>
      /\ prev_freq = << >> /\ prev_total = 0
  BY DEF HistoryInit, Init, VocabularyInit
<1>3. DOMAIN buckets = {} /\ IsFiniteSet(DOMAIN buckets) /\ Frequencies = << >>
  BY <1>2, FS_EmptySet DEF Frequencies
<1>4. BucketsInv
  BY <1>2, <1>3, EmptyBagSum DEF BucketsInv, AreBuckets
<1>5. PrevInv /\ WindowInv
  BY <1>2, EmptyBagSum DEF PrevInv, WindowInv
<1> QED BY <1>1, <1>4, <1>5 DEF EngineInv

(* A reset leaves no window in the tables.                                 *)
LEMMA ResetKeepsEngineInv ==
  ASSUME EngineInv, ResetWindowState, PrevInv',
         window_start' \in {<< >>} \cup {<<t>> : t \in Time}
  PROVE  EngineInv' /\ Frequencies' = << >> /\ registry' = registry
<1>1. VocabularyInv' /\ template_index' = << >> /\ registry' = registry
  BY ResetKeepsVocabularyInv DEF EngineInv, ResetWindowState, ResetVocabulary
<1>2. buckets' = << >> /\ lines_observed' = 0
  BY DEF ResetWindowState
<1>3. DOMAIN buckets' = {} /\ IsFiniteSet(DOMAIN buckets') /\ Frequencies' = << >>
  BY <1>2, FS_EmptySet DEF Frequencies
<1>4. BucketsInv'
  BY <1>1, <1>2, <1>3, EmptyBagSum DEF BucketsInv, AreBuckets
<1>5. WindowInv'
  BY <1>2 DEF WindowInv
<1> QED BY <1>1, <1>3, <1>4, <1>5 DEF EngineInv

(* An event accepted is one more occurrence of its template.               *)
LEMMA IngestCounts ==
  ASSUME EngineInv, NEW e \in Event, LookUp(e.str), IngestLookedUpEvent(e)
  PROVE  /\ VocabularyInv' /\ BucketsInv'
         /\ Frequencies' = BagAdd(Frequencies, IdOf[e.str])
         /\ DOMAIN registry' = DOMAIN registry \cup {IdOf[e.str]}
<1> DEFINE id == IdOf[e.str]
<1>1. e.str \in TemplateStr /\ e.echoed \in BOOLEAN /\ id \in TemplateId /\ id \in Nat
  BY VocabularyAssumption, EngineAssumption DEF Event
<1>2. VocabularyInv /\ VocabularyTypeOK /\ CacheIsCoherent /\ WindowIdsResolve
  BY DEF EngineInv, VocabularyInv
<1>3. VocabularyInv'
  BY <1>1, <1>2, HeldLookUpKeepsVocabularyInv, NewLookUpKeepsVocabularyInv
<1>4. e.str \in DOMAIN template_str_cache => id \in DOMAIN template_index
  BY <1>2 DEF CacheIsCoherent
<1>5. /\ DOMAIN template_index' = DOMAIN template_index \cup {id}
      /\ DOMAIN registry' = DOMAIN registry \cup {id}
  <2>1. CASE id \in DOMAIN template_index
    <3>1. UNCHANGED <<template_index, templates, registry>>
      BY <2>1 DEF LookUp
    <3>2. id \in DOMAIN registry
      BY <1>2, <2>1 DEF WindowIdsResolve
    <3> QED BY <2>1, <3>1, <3>2
  <2>2. CASE id \notin DOMAIN template_index
    BY <1>4, <2>2 DEF LookUp, Extend, Intern
  <2> QED BY <2>1, <2>2
<1>6. /\ AreBuckets(buckets) /\ DOMAIN buckets = DOMAIN template_index
      /\ lines_observed = SumFunction(Frequencies)
      /\ \A t \in DOMAIN buckets : buckets[t].echoed \in BOOLEAN
  BY DEF EngineInv, BucketsInv
<1>7. IsFiniteBag(Frequencies) /\ DOMAIN Frequencies = DOMAIN buckets
  BY <1>6, FrequenciesAreABag
<1>8. lines_observed \in Nat
  BY <1>6, <1>7, BagSumIsNat
<1> DEFINE old == IF id \in DOMAIN buckets THEN buckets[id] ELSE NewBucket(e)
           seen == Seen(old, e)
<1>9. buckets' = Extend(buckets, id, seen) /\ lines_observed' = lines_observed + 1
  BY DEF IngestLookedUpEvent
<1>10. /\ seen.count = old.count + 1 /\ seen.first_seen = old.first_seen
       /\ seen.echoed \in BOOLEAN
       /\ old.count = (IF id \in DOMAIN buckets THEN buckets[id].count ELSE 0)
       /\ old.first_seen \in Nat
  <2>1. CASE id \in DOMAIN buckets
    BY <1>1, <1>6, <2>1 DEF Seen, AreBuckets
  <2>2. CASE id \notin DOMAIN buckets
    BY <1>1, <1>8, <2>2 DEF Seen, NewBucket
  <2> QED BY <2>1, <2>2
<1> HIDE DEF seen, old
<1>11. /\ DOMAIN buckets' = DOMAIN buckets \cup {id} /\ buckets'[id] = seen
       /\ \A t \in DOMAIN buckets \ {id} : buckets'[t] = buckets[t]
  BY <1>9 DEF Extend
<1>12. AreBuckets(buckets')
  <2>1. IsFiniteSet(DOMAIN buckets')
    BY <1>6, <1>11, FS_AddElement DEF AreBuckets
  <2>2. seen.count \in Nat \ {0} /\ seen.first_seen \in Nat
    BY <1>6, <1>10 DEF AreBuckets
  <2> QED BY <1>1, <1>6, <1>11, <2>1, <2>2 DEF AreBuckets
<1>13. Frequencies' = BagAdd(Frequencies, id)
  <2> DEFINE D == DOMAIN buckets
  <2>1. Frequencies' = [t \in D \cup {id} |-> buckets'[t].count]
    BY <1>11 DEF Frequencies
  <2>2. DOMAIN Frequencies = D /\ \A t \in D : Frequencies[t] = buckets[t].count
    BY DEF Frequencies
  <2>3. /\ \A t \in D \ {id} : buckets'[t].count = Frequencies[t]
        /\ buckets'[id].count = IF id \in D THEN Frequencies[id] + 1 ELSE 1
    BY <1>10, <1>11, <2>2
  <2>4. BagAdd(Frequencies, id) = [t \in D \cup {id} |-> IF t = id THEN buckets'[id].count ELSE Frequencies[t]]
    <3>1. CASE id \in D
      <4>1. D \cup {id} = D
        BY <3>1
      <4> HIDE DEF D
      <4> QED BY <2>2, <2>3, <3>1, <4>1 DEF BagAdd
    <3>2. CASE id \notin D
      BY <2>2, <2>3, <3>2 DEF BagAdd
    <3> QED BY <3>1, <3>2
  <2> QED BY <2>1, <2>3, <2>4
<1>14. lines_observed' = SumFunction(Frequencies')
  BY <1>6, <1>7, <1>9, <1>13, BagAddIsOneMore, OneMoreSum
<1>15. \A t \in DOMAIN buckets' : buckets'[t].echoed \in BOOLEAN
  BY <1>6, <1>10, <1>11
<1>16. BucketsInv'
  BY <1>5, <1>6, <1>11, <1>12, <1>14, <1>15 DEF BucketsInv
<1> QED BY <1>3, <1>5, <1>13, <1>16

-----------------------------------------------------------------------------
(* Closing *)

(* The surprise of a template is one of the bands.                         *)
LEMMA SurpriseIsNat ==
  ASSUME NEW graph, NEW to
  PROVE  IncomingSurprise(graph, to) \in Nat
BY DEF IncomingSurprise, SurpriseInOrder, Bands!SurpriseBand

(* What a document published now accounts for, and what it says of drift.  *)
LEMMA DocumentIsTheLedgers ==
  ASSUME EngineInv, NEW end, NEW reported
  PROVE  LET published == Document(end, reported) IN
         /\ Mass(published.stats) = SumFunction(Frequencies)
         /\ Templates(published.stats) = Cardinality(DOMAIN Frequencies)
         /\ [i \in DOMAIN published.stability |->
               [new_templates |-> published.stability[i].new_templates,
                vanished_templates |-> published.stability[i].vanished_templates,
                since |-> published.stability[i].previous_window_end]] = Ledger!Drift
<1> DEFINE published == Document(end, reported)
           graph == Transitions(ngram_counts)
           surprise == [t \in DOMAIN buckets |-> IncomingSurprise(graph, template_index[t])]
<1>1. /\ published.stats = StatsBlock(buckets, lines_observed, surprise)
      /\ published.stability = StabilityBlock
  BY DEF Document
<1>2. NatOn(surprise, DOMAIN buckets)
  BY SurpriseIsNat DEF NatOn
<1>3. /\ AreBuckets(buckets) /\ lines_observed = SumFunction(Frequencies)
      /\ \A t \in DOMAIN buckets : buckets[t].echoed \in BOOLEAN
      /\ IsFiniteBag(prev_freq) /\ prev_total = SumFunction(prev_freq)
  BY DEF EngineInv, BucketsInv, PrevInv
<1> HIDE DEF published, surprise
<1>4. /\ Mentioned(published.stats) = SumFunction([t \in DOMAIN buckets |-> buckets[t].count])
      /\ MentionedTemplates(published.stats) = Cardinality(DOMAIN buckets)
  BY <1>1, <1>2, <1>3, StatsShareOutTheWindow
<1>5. IsFiniteBag(Frequencies) /\ DOMAIN Frequencies = DOMAIN buckets
  BY <1>3, FrequenciesAreABag
<1>6. /\ Mass(published.stats) = SumFunction(Frequencies)
      /\ Templates(published.stats) = Cardinality(DOMAIN Frequencies)
  BY <1>4, <1>5 DEF Mass, Templates, Mentioned, MentionedTemplates, Frequencies
<1>7. /\ lines_observed = 0 <=> Frequencies = << >>
      /\ prev_total = 0 <=> prev_freq = << >>
  BY <1>3, <1>5, WeightlessBag
<1> DEFINE Told(stability) ==
             [i \in DOMAIN stability |->
               [new_templates |-> stability[i].new_templates,
                vanished_templates |-> stability[i].vanished_templates,
                since |-> stability[i].previous_window_end]]
<1>8. Told(StabilityBlock) = Ledger!Drift
  <2>1. CASE ~EmitStability \/ prev_total = 0 \/ lines_observed = 0
    <3>1. StabilityBlock = << >> /\ Ledger!Drift = << >>
      BY <1>7, <2>1 DEF StabilityBlock, Ledger!Drift
    <3>2. Told(<< >>) = << >>
      OBVIOUS
    <3> QED BY <3>1, <3>2
  <2>2. CASE ~(~EmitStability \/ prev_total = 0 \/ lines_observed = 0)
    <3> DEFINE new == Cardinality(DOMAIN buckets \ DOMAIN prev_freq)
               gone == Cardinality(DOMAIN prev_freq \ DOMAIN buckets)
    <3>1. StabilityBlock = <<[previous_window_end |-> prev_window_end,
                              new_templates |-> new, vanished_templates |-> gone]>>
      BY <2>2 DEF StabilityBlock
    <3>2. Ledger!Drift = <<[new_templates |-> new, vanished_templates |-> gone,
                            since |-> prev_window_end]>>
      <4>1. EmitStability /\ prev_freq # << >> /\ Frequencies # << >>
        BY <1>7, <2>2
      <4>2. Ledger!Drift =
              <<[new_templates |-> Ledger!Cardinality(DOMAIN Frequencies \ DOMAIN prev_freq),
                 vanished_templates |-> Ledger!Cardinality(DOMAIN prev_freq \ DOMAIN Frequencies),
                 since |-> prev_window_end]>>
        BY <4>1 DEF Ledger!Drift
      <4>3. /\ Ledger!Cardinality(DOMAIN Frequencies \ DOMAIN prev_freq) = new
            /\ Ledger!Cardinality(DOMAIN prev_freq \ DOMAIN Frequencies) = gone
        BY <1>5, LedgerCount
      <4> QED BY <4>2, <4>3
    <3> HIDE DEF new, gone
    <3>3. Told(<<[previous_window_end |-> prev_window_end,
                  new_templates |-> new, vanished_templates |-> gone]>>)
            = <<[new_templates |-> new, vanished_templates |-> gone, since |-> prev_window_end]>>
      OBVIOUS
    <3> QED BY <3>1, <3>2, <3>3
  <2> QED BY <2>1, <2>2
<1> QED BY <1>1, <1>6, <1>8 DEF published

-----------------------------------------------------------------------------
(* Every step *)

(* The end of a document's envelope is the caller's, or a reported one.    *)
LEMMA EnvelopeEnds ==
  ASSUME NEW end \in Time, NEW reported \in Reports, window_start \in {<<t>> : t \in Time},
         NEW published, published.envelope = Envelope(end, reported)
  PROVE  [i \in DOMAIN published.envelope |-> published.envelope[i].end]
           \in {<< >>} \cup {<<t>> : t \in Time}
<1> DEFINE reports == [i \in DOMAIN published.envelope |-> published.envelope[i].end]
<1>1. Envelope(end, reported) = << >>
      \/ \E u \in Time : /\ DOMAIN Envelope(end, reported) = {1}
                         /\ Envelope(end, reported)[1].end = u
  <2>1. CASE reported.said /\ reported.envelope = << >>
    BY <2>1 DEF Envelope
  <2>2. CASE ~reported.said
    BY <2>2 DEF Envelope
  <2>3. CASE \E t, u \in Time : /\ reported.said
                                /\ reported.envelope = <<[start |-> t, end |-> u]>>
    BY <2>3 DEF Envelope
  <2> QED BY <2>1, <2>2, <2>3 DEF Reports
<1>2. CASE Envelope(end, reported) = << >>
  BY <1>2
<1>3. ASSUME NEW u \in Time, DOMAIN Envelope(end, reported) = {1}, Envelope(end, reported)[1].end = u
      PROVE  reports = <<u>>
  <2>1. reports = [i \in {1} |-> u]
    BY <1>3
  <2> QED BY <2>1
<1> QED BY <1>1, <1>2, <1>3

(* A call that closes publishes the ledger's document and starts again.    *)
LEMMA CloseStep ==
  ASSUME EngineInv, NEW end \in Time, NEW reported \in Reports, CloseWindow(end, reported)
  PROVE  EngineInv' /\ \E t \in {<< >>} \cup {<<u>> : u \in Time} : Ledger!Close(t)
<1> DEFINE published == Document(end, reported)
           reports == [i \in DOMAIN published.envelope |-> published.envelope[i].end]
<1>1. /\ window_start # << >> /\ answer' = [kind |-> "document", doc |-> published]
      /\ StashPrevWindow(published) /\ ResetWindowState /\ window_start' = << >>
  BY DEF CloseWindow
<1>2. reports \in {<< >>} \cup {<<u>> : u \in Time}
  <2>1. published.envelope = Envelope(end, reported)
    BY DEF Document
  <2>2. window_start \in {<<t>> : t \in Time}
    BY <1>1 DEF EngineInv, WindowInv
  <2> HIDE DEF published
  <2> QED BY <2>1, <2>2, EnvelopeEnds
<1> HIDE DEF published
<1>3. /\ prev_freq' = IF EmitStability THEN Frequencies ELSE prev_freq
      /\ prev_total' = IF EmitStability THEN lines_observed ELSE prev_total
      /\ prev_window_end' = IF EmitStability THEN reports ELSE prev_window_end
  BY <1>1 DEF StashPrevWindow, prevVars
<1>4. PrevInv'
  <2>1. IsFiniteBag(Frequencies) /\ lines_observed = SumFunction(Frequencies)
    BY FrequenciesAreABag DEF EngineInv, BucketsInv
  <2>2. CASE EmitStability
    BY <1>3, <2>1, <2>2 DEF PrevInv
  <2>3. CASE ~EmitStability
    BY <1>3, <2>3 DEF PrevInv, EngineInv
  <2> QED BY <2>2, <2>3
<1>5. EngineInv' /\ Frequencies' = << >> /\ registry' = registry
  BY <1>1, <1>4, ResetKeepsEngineInv
<1>6. Summary' = Ledger!Document(reports)
  <2>1. /\ Mass(published.stats) = SumFunction(Frequencies)
        /\ Templates(published.stats) = Cardinality(DOMAIN Frequencies)
        /\ [i \in DOMAIN published.stability |->
              [new_templates |-> published.stability[i].new_templates,
               vanished_templates |-> published.stability[i].vanished_templates,
               since |-> published.stability[i].previous_window_end]] = Ledger!Drift
    BY DocumentIsTheLedgers DEF published
  <2>2. Summary' = [kind |-> "document", end |-> reports, lines |-> Mass(published.stats),
                    templates |-> Templates(published.stats),
                    drift |-> [i \in DOMAIN published.stability |->
                       [new_templates |-> published.stability[i].new_templates,
                        vanished_templates |-> published.stability[i].vanished_templates,
                        since |-> published.stability[i].previous_window_end]]]
    BY <1>1 DEF Summary, Published, doc, Mass, Templates
  <2>3. Ledger!SumFunction(Frequencies) = SumFunction(Frequencies)
    BY LedgerSum
  <2>4. Ledger!Cardinality(DOMAIN Frequencies) = Cardinality(DOMAIN Frequencies)
    BY LedgerCount
  <2>5. Ledger!Document(reports) =
          [kind |-> "document", end |-> reports, lines |-> SumFunction(Frequencies),
           templates |-> Cardinality(DOMAIN Frequencies), drift |-> Ledger!Drift]
    BY <2>3, <2>4 DEF Ledger!Document
  <2> QED BY <2>1, <2>2, <2>5
<1>7. Ledger!Close(reports)
  <2>1. CASE EmitStability
    BY <1>1, <1>3, <1>5, <1>6, <2>1 DEF Ledger!Close
  <2>2. CASE ~EmitStability
    BY <1>1, <1>3, <1>5, <1>6, <2>2 DEF Ledger!Close
  <2> QED BY <2>1, <2>2
<1> QED BY <1>2, <1>5, <1>7

(* Opening and discarding forget the window and keep the last one closed.  *)
LEMMA OpenStep ==
  ASSUME EngineInv, NEW start \in Time, OpenWindow(start) PROVE EngineInv' /\ Ledger!Start
<1>1. /\ ResetWindowState /\ window_start' = <<start>> /\ answer' = Nothing
      /\ UNCHANGED <<prev_freq, prev_total, prev_window_end>>
  BY DEF OpenWindow, prevVars
<1>2. PrevInv'
  BY <1>1 DEF EngineInv, PrevInv
<1>3. EngineInv' /\ Frequencies' = << >> /\ registry' = registry
  BY <1>1, <1>2, ResetKeepsEngineInv
<1>4. Summary' = Ledger!Nothing
  BY <1>1 DEF Summary, Published, Nothing, Ledger!Nothing
<1> QED BY <1>1, <1>3, <1>4 DEF Ledger!Start

LEMMA DiscardStep ==
  ASSUME EngineInv, DiscardWindow PROVE EngineInv' /\ Ledger!Discard
<1>1. /\ ResetWindowState /\ window_start' = << >> /\ answer' = Nothing
      /\ UNCHANGED <<prev_freq, prev_total, prev_window_end>>
  BY DEF DiscardWindow, prevVars
<1>2. PrevInv'
  BY <1>1 DEF EngineInv, PrevInv
<1>3. EngineInv' /\ Frequencies' = << >> /\ registry' = registry
  BY <1>1, <1>2, ResetKeepsEngineInv
<1>4. Summary' = Ledger!Nothing
  BY <1>1 DEF Summary, Published, Nothing, Ledger!Nothing
<1> QED BY <1>1, <1>3, <1>4 DEF Ledger!Discard

(* A call that only answers moves nothing.                                 *)
LEMMA EngineUnchanged ==
  ASSUME EngineInv, UNCHANGED engineVars
  PROVE  /\ EngineInv' /\ Frequencies' = Frequencies
         /\ UNCHANGED <<registry, window_start, prev_freq, prev_window_end>>
<1>1. /\ UNCHANGED <<template_str_cache, template_index, templates, registry>>
      /\ UNCHANGED <<window_start, lines_observed, buckets>>
      /\ UNCHANGED <<prev_freq, prev_total, prev_window_end>>
  BY DEF engineVars, vocabularyVars, windowVars, prevVars
<1>2. VocabularyInv'
  BY <1>1, NextKeepsVocabularyInv DEF EngineInv, vocabularyVars
<1>3. Frequencies' = Frequencies
  BY <1>1 DEF Frequencies
<1>4. BucketsInv' /\ PrevInv' /\ WindowInv'
  BY <1>1, <1>3 DEF EngineInv, BucketsInv, AreBuckets, PrevInv, WindowInv
<1> QED BY <1>1, <1>2, <1>3, <1>4 DEF EngineInv

LEMMA MisuseStep ==
  ASSUME EngineInv, Misuse PROVE EngineInv' /\ Ledger!Misuse
<1>1. window_start = << >> /\ answer' = LogicError /\ UNCHANGED engineVars
  BY DEF Misuse
<1>2. Summary' = Ledger!LogicError
  BY <1>1 DEF Summary, Published, LogicError, Ledger!LogicError
<1> QED BY <1>1, <1>2, EngineUnchanged DEF Ledger!Misuse

LEMMA RefuseStep ==
  ASSUME EngineInv, NEW e \in Event, NEW admit \in BOOLEAN, RefuseEvent(e, admit)
  PROVE  EngineInv' /\ Ledger!Refuse(IdOf[e.str])
<1>1. window_start # << >> /\ answer' = Refused /\ UNCHANGED engineVars
      /\ IdOf[e.str] \notin DOMAIN registry
  BY DEF RefuseEvent, Refuses
<1>2. Summary' = Ledger!Refused
  BY <1>1 DEF Summary, Published, Refused, Ledger!Refused
<1> QED BY <1>1, <1>2, EngineUnchanged DEF Ledger!Refuse

LEMMA IngestStep ==
  ASSUME EngineInv, NEW e \in Event, NEW admit \in BOOLEAN, IngestEvent(e, admit)
  PROVE  EngineInv' /\ Ledger!Accept(IdOf[e.str])
<1>1. /\ window_start # << >> /\ LookUp(e.str) /\ IngestLookedUpEvent(e) /\ answer' = Accepted
      /\ UNCHANGED <<window_start, prev_freq, prev_total, prev_window_end>>
  BY DEF IngestEvent, prevVars
<1>2. /\ VocabularyInv' /\ BucketsInv'
      /\ Frequencies' = BagAdd(Frequencies, IdOf[e.str])
      /\ DOMAIN registry' = DOMAIN registry \cup {IdOf[e.str]}
  BY <1>1, IngestCounts
<1>3. PrevInv' /\ WindowInv'
  BY <1>1 DEF EngineInv, PrevInv, WindowInv
<1>4. Summary' = Ledger!Accepted
  BY <1>1 DEF Summary, Published, Accepted, Ledger!Accepted
<1>5. Frequencies' = Ledger!BagAdd(Frequencies, IdOf[e.str])
  BY <1>2, LedgerAdd
<1>6. Ledger!Accept(IdOf[e.str])
  BY <1>1, <1>2, <1>4, <1>5 DEF Ledger!Accept
<1> QED BY <1>2, <1>3, <1>6 DEF EngineInv

LEMMA StutterStep ==
  ASSUME EngineInv, UNCHANGED allVars PROVE EngineInv' /\ UNCHANGED Ledger!vars
<1>1. UNCHANGED engineVars /\ answer' = answer
  BY DEF allVars, vars
<1>2. Summary' = Summary
  BY <1>1 DEF Summary, Published, doc, Mass, Templates
<1> QED BY <1>1, <1>2, EngineUnchanged DEF Ledger!vars

LEMMA EveryStepIsTheLedgers ==
  ASSUME EngineInv, [Next]_allVars
  PROVE  EngineInv' /\ [Ledger!Next]_(Ledger!vars)
<1>1. CASE UNCHANGED allVars
  BY <1>1, StutterStep
<1>2. ASSUME NEW e \in Events, NEW admit \in BOOLEAN, Ingest(e, admit) \/ Refuse(e, admit)
      PROVE  EngineInv' /\ Ledger!Next
  <2>1. e \in Event /\ IdOf[e.str] \in TemplateId
    BY HistoryAssumption, VocabularyAssumption DEF Event
  <2>2. CASE Ingest(e, admit)
    BY <2>1, <2>2, IngestStep DEF Ingest, Ledger!Next
  <2>3. CASE Refuse(e, admit)
    BY <2>1, <2>3, RefuseStep DEF Refuse, Ledger!Next
  <2> QED BY <1>2, <2>2, <2>3
<1>3. CASE Call
  <2>1. ASSUME NEW start \in Time, OpenWindow(start) PROVE EngineInv' /\ Ledger!Next
    BY <2>1, OpenStep DEF Ledger!Next
  <2>2. ASSUME NEW end \in Time, NEW reported \in Reports, CloseWindow(end, reported)
        PROVE  EngineInv' /\ Ledger!Next
    BY <2>2, CloseStep DEF Ledger!Next
  <2>3. CASE DiscardWindow
    BY <2>3, DiscardStep DEF Ledger!Next
  <2>4. CASE Misuse
    BY <2>4, MisuseStep DEF Ledger!Next
  <2> QED BY <1>3, <2>1, <2>2, <2>3, <2>4 DEF Call, Lifecycle
<1> QED BY <1>1, <1>2, <1>3 DEF Next

(* The engine implements the ledger: ingest_event, open_window,            *)
(* close_window and discard_window are the steps of a bag that is counted, *)
(* reported whole and compared with the last one reported.                 *)
THEOREM EngineImplementsLedger == Spec => ImplementsLedger
<1>1. HistoryInit => EngineInv
  BY InitHasEngineInv
<1>2. HistoryInit => Ledger!Init
  <2> SUFFICES ASSUME HistoryInit PROVE Ledger!Init
    OBVIOUS
  <2>1. /\ window_start = << >> /\ buckets = << >> /\ registry = << >>
        /\ prev_freq = << >> /\ prev_window_end = << >> /\ answer = Nothing
    BY DEF HistoryInit, Init, VocabularyInit
  <2>2. Frequencies = << >> /\ DOMAIN registry = {}
    BY <2>1 DEF Frequencies
  <2>3. Summary = Ledger!Nothing
    BY <2>1 DEF Summary, Published, Nothing, Ledger!Nothing
  <2> QED BY <2>1, <2>2, <2>3 DEF Ledger!Init, Ledger!NoClose
<1>3. EngineInv /\ [Next]_allVars => EngineInv' /\ [Ledger!Next]_(Ledger!vars)
  BY EveryStepIsTheLedgers
<1> QED BY <1>1, <1>2, <1>3, PTL DEF Spec, ImplementsLedger, Ledger!Spec

-----------------------------------------------------------------------------
(* The joint and the marginals *)

(* The accumulations are bags, and views of one stream.                    *)
JointInv ==
  /\ IsFiniteBag(cube_base)
  /\ \A t \in DOMAIN buckets : /\ IsFiniteBag(buckets[t].levels)
                               /\ IsFiniteBag(buckets[t].components)
                               /\ IsFiniteBag(buckets[t].roles)
  /\ JointAndMarginalsAgree

LEMMA TallyOfOneMore ==
  ASSUME NEW bag, IsFiniteBag(bag), NEW y, NEW x
  PROVE  /\ IsFiniteBag(BagAdd(bag, y))
         /\ Tally(bag, x) \in Nat
         /\ Tally(BagAdd(bag, y), x) = Tally(bag, x) + (IF y = x THEN 1 ELSE 0)
<1>1. OneMore(bag, BagAdd(bag, y), y)
  BY BagAddIsOneMore
<1>2. IsFiniteBag(BagAdd(bag, y))
  BY <1>1, OneMoreSum
<1>3. Tally(bag, x) \in Nat
  BY DEF Tally, IsFiniteBag
<1>4. Tally(BagAdd(bag, y), x) = Tally(bag, x) + (IF y = x THEN 1 ELSE 0)
  <2> DEFINE new == BagAdd(bag, y)
  <2> HIDE DEF new
  <2>1. CASE y = x
    BY <1>1, <1>3, <2>1 DEF Tally, OneMore, new
  <2>2. CASE y # x
    BY <1>1, <1>3, <2>2 DEF Tally, OneMore, new
  <2> QED BY <2>1, <2>2
<1> QED BY <1>2, <1>3, <1>4

(* A joint more is one more line on each of its axes.                      *)
LEMMA AxisGrows ==
  ASSUME IsFiniteBag(cube_base), NEW joint, cube_base' = BagAdd(cube_base, joint),
         NEW axis \in 1..3, NEW x
  PROVE  LinesWith(axis, x)' = LinesWith(axis, x) + (IF joint[axis] = x THEN 1 ELSE 0)
<1> DEFINE new == cube_base'
           P == {k \in DOMAIN new : k[axis] = x}
<1>1. OneMore(cube_base, new, joint)
  BY BagAddIsOneMore
<1>2. DOMAIN new = DOMAIN cube_base \cup {joint}
  BY <1>1 DEF OneMore
<1>3. /\ DOMAIN new \cap P = P
      /\ DOMAIN cube_base \cap P = {k \in DOMAIN cube_base : k[axis] = x}
      /\ joint \in P <=> joint[axis] = x
  BY <1>2
<1> HIDE DEF new
<1>4. SumFunctionOnSet(new, DOMAIN new \cap P)
        = SumFunctionOnSet(cube_base, DOMAIN cube_base \cap P) + (IF joint \in P THEN 1 ELSE 0)
  <2> HIDE DEF P
  <2> QED BY <1>1, OneMoreInPart
<1>5. LinesWith(axis, x)' = SumFunctionOnSet(new, P)
  BY DEF LinesWith, new
<1>6. LinesWith(axis, x) = SumFunctionOnSet(cube_base, DOMAIN cube_base \cap P)
  BY <1>3 DEF LinesWith
<1> QED BY <1>3, <1>4, <1>5, <1>6

(* One bag of a row of bags grows.                                         *)
LEMMA MarginalGrows ==
  ASSUME NEW bags, IsFiniteSet(DOMAIN bags), \A t \in DOMAIN bags : IsFiniteBag(bags[t]),
         NEW id, NEW new, DOMAIN new = DOMAIN bags \cup {id}, AgreeOn(new, bags, DOMAIN bags \ {id}),
         NEW x, NEW n \in Nat,
         Tally(new[id], x) = (IF id \in DOMAIN bags THEN Tally(bags[id], x) ELSE 0) + n
  PROVE  TalliedIn(new, x) = TalliedIn(bags, x) + n
<1> DEFINE f == [t \in DOMAIN bags |-> Tally(bags[t], x)]
           g == [t \in DOMAIN new |-> Tally(new[t], x)]
<1>1. NatOn(f, DOMAIN f) /\ DOMAIN f = DOMAIN bags
  BY TallyOfOneMore DEF NatOn
<1>2. DOMAIN g = DOMAIN f \cup {id} /\ AgreeOn(g, f, DOMAIN f \ {id})
  BY DEF AgreeOn
<1>3. g[id] = (IF id \in DOMAIN f THEN f[id] ELSE 0) + n
  OBVIOUS
<1> HIDE DEF f, g
<1>4. SumFunction(g) = SumFunction(f) + n
  BY <1>1, <1>2, <1>3, SumGrows
<1> QED BY <1>4 DEF TalliedIn, f, g

(* A window without events.                                                *)
LEMMA EmptyJoint == buckets = << >> /\ cube_base = << >> /\ lines_observed = 0 => JointInv
<1> SUFFICES ASSUME buckets = << >>, cube_base = << >>, lines_observed = 0 PROVE JointInv
  OBVIOUS
<1>1. \A axis, x : LinesWith(axis, x) = 0
  <2> TAKE axis, x
  <2>1. {k \in DOMAIN cube_base : k[axis] = x} = {}
    OBVIOUS
  <2> QED BY <2>1, SumEmpty DEF LinesWith
<1>2. \A bags, x : DOMAIN bags = {} => TalliedIn(bags, x) = 0
  <2> TAKE bags, x
  <2>1. [t \in {} |-> Tally(bags[t], x)] = << >>
    OBVIOUS
  <2> QED BY <2>1, EmptyBagSum DEF TalliedIn
<1>3. JointAndMarginalsAgree
  BY <1>1, <1>2, EmptyBagSum DEF JointAndMarginalsAgree
<1> QED BY <1>3, EmptyBagSum DEF JointInv

LEMMA IngestKeepsJoint ==
  ASSUME JointInv, AreBuckets(buckets), NEW e \in Event, IngestLookedUpEvent(e)
  PROVE  JointInv'
<1> DEFINE id == IdOf[e.str]
           joint == <<e.level, e.component, e.role>>
           D == DOMAIN buckets
           old == IF id \in D THEN buckets[id] ELSE NewBucket(e)
           seen == Seen(old, e)
<1>1. /\ buckets' = Extend(buckets, id, seen) /\ lines_observed' = lines_observed + 1
      /\ cube_base' = BagAdd(cube_base, joint)
  BY DEF IngestLookedUpEvent
<1>2. /\ IsFiniteBag(old.levels) /\ IsFiniteBag(old.components) /\ IsFiniteBag(old.roles)
      /\ id \notin D => old.levels = << >> /\ old.components = << >> /\ old.roles = << >>
      /\ id \in D => old = buckets[id]
  BY EmptyBagSum DEF JointInv, NewBucket
<1>3. /\ seen.levels = BagAdd(old.levels, e.level)
      /\ seen.components = (IF e.component = NoComponent THEN old.components
                            ELSE BagAdd(old.components, e.component))
      /\ seen.roles = BagAdd(old.roles, e.role)
  <2>1. CASE id \in D
    BY <2>1 DEF Seen
  <2>2. CASE id \notin D
    BY <2>2 DEF Seen, NewBucket
  <2> QED BY <2>1, <2>2
<1> HIDE DEF old, seen
<1>4. /\ DOMAIN buckets' = D \cup {id} /\ buckets'[id] = seen
      /\ \A t \in D \ {id} : buckets'[t] = buckets[t]
  BY <1>1 DEF Extend
<1>5. IsFiniteBag(seen.levels) /\ IsFiniteBag(seen.components) /\ IsFiniteBag(seen.roles)
  BY <1>2, <1>3, TallyOfOneMore
<1>6. IsFiniteBag(cube_base) /\ IsFiniteSet(D)
      /\ \A t \in D : /\ IsFiniteBag(buckets[t].levels)
                      /\ IsFiniteBag(buckets[t].components)
                      /\ IsFiniteBag(buckets[t].roles)
  BY DEF JointInv, AreBuckets
<1>7. \A t \in DOMAIN buckets' : /\ IsFiniteBag(buckets'[t].levels)
                                 /\ IsFiniteBag(buckets'[t].components)
                                 /\ IsFiniteBag(buckets'[t].roles)
  BY <1>4, <1>5, <1>6
<1>8. IsFiniteBag(cube_base') /\ SumFunction(cube_base') = SumFunction(cube_base) + 1
  BY <1>1, <1>6, BagAddIsOneMore, OneMoreSum
<1> HIDE DEF id, D
<1>9. \A l \in 0..Unknown :
        LinesWith(1, l)' = TalliedIn([t \in DOMAIN buckets |-> buckets[t].levels], l)'
  <2> TAKE l \in 0..Unknown
  <2> DEFINE bags == [t \in D |-> buckets[t].levels]
             new == [t \in DOMAIN buckets' |-> buckets'[t].levels]
             n == IF e.level = l THEN 1 ELSE 0
  <2>1. LinesWith(1, l) = TalliedIn(bags, l)
    BY DEF JointInv, JointAndMarginalsAgree, D
  <2>2. LinesWith(1, l)' = LinesWith(1, l) + n
    BY <1>1, <1>6, AxisGrows
  <2>3. Tally(new[id], l) = (IF id \in DOMAIN bags THEN Tally(bags[id], l) ELSE 0) + n
    <3>1. Tally(seen.levels, l) = Tally(old.levels, l) + n
      BY <1>2, <1>3, TallyOfOneMore
    <3>2. id \notin D => Tally(old.levels, l) = 0
      BY <1>2 DEF Tally
    <3> QED BY <1>2, <1>4, <3>1, <3>2
  <2>4. DOMAIN new = DOMAIN bags \cup {id} /\ DOMAIN bags = D /\ AgreeOn(new, bags, DOMAIN bags \ {id})
    BY <1>4 DEF AgreeOn
  <2>5. \A t \in DOMAIN bags : IsFiniteBag(bags[t])
    BY <1>6
  <2>6. n \in Nat
    OBVIOUS
  <2> HIDE DEF bags, new, n
  <2>7. TalliedIn(new, l) = TalliedIn(bags, l) + n
    BY <1>6, <2>3, <2>4, <2>5, <2>6, MarginalGrows
  <2>8. TalliedIn(new, l) = TalliedIn([t \in DOMAIN buckets |-> buckets[t].levels], l)'
    BY DEF new, TalliedIn
  <2> QED BY <2>1, <2>2, <2>7, <2>8
<1>10. \A c \in Component :
        LinesWith(2, c)' = TalliedIn([t \in DOMAIN buckets |-> buckets[t].components], c)'
  <2> TAKE c \in Component
  <2> DEFINE bags == [t \in D |-> buckets[t].components]
             new == [t \in DOMAIN buckets' |-> buckets'[t].components]
             n == IF e.component = c THEN 1 ELSE 0
  <2>1. LinesWith(2, c) = TalliedIn(bags, c)
    BY DEF JointInv, JointAndMarginalsAgree, D
  <2>2. LinesWith(2, c)' = LinesWith(2, c) + n
    BY <1>1, <1>6, AxisGrows
  <2>3. Tally(new[id], c) = (IF id \in DOMAIN bags THEN Tally(bags[id], c) ELSE 0) + n
    <3>1. Tally(seen.components, c) = Tally(old.components, c) + n
      <4>1. CASE e.component = NoComponent
        <5>1. n = 0
          BY <4>1, EngineAssumption
        <5>2. Tally(old.components, c) \in Nat
          BY <1>2, TallyOfOneMore
        <5> QED BY <1>3, <4>1, <5>1, <5>2
      <4>2. CASE e.component # NoComponent
        BY <1>2, <1>3, <4>2, TallyOfOneMore
      <4> QED BY <4>1, <4>2
    <3>2. id \notin D => Tally(old.components, c) = 0
      BY <1>2 DEF Tally
    <3> QED BY <1>2, <1>4, <3>1, <3>2
  <2>4. DOMAIN new = DOMAIN bags \cup {id} /\ DOMAIN bags = D /\ AgreeOn(new, bags, DOMAIN bags \ {id})
    BY <1>4 DEF AgreeOn
  <2>5. \A t \in DOMAIN bags : IsFiniteBag(bags[t])
    BY <1>6
  <2>6. n \in Nat
    OBVIOUS
  <2> HIDE DEF bags, new, n
  <2>7. TalliedIn(new, c) = TalliedIn(bags, c) + n
    BY <1>6, <2>3, <2>4, <2>5, <2>6, MarginalGrows
  <2>8. TalliedIn(new, c) = TalliedIn([t \in DOMAIN buckets |-> buckets[t].components], c)'
    BY DEF new, TalliedIn
  <2> QED BY <2>1, <2>2, <2>7, <2>8
<1>11. \A r \in Role :
        LinesWith(3, r)' = TalliedIn([t \in DOMAIN buckets |-> buckets[t].roles], r)'
  <2> TAKE r \in Role
  <2> DEFINE bags == [t \in D |-> buckets[t].roles]
             new == [t \in DOMAIN buckets' |-> buckets'[t].roles]
             n == IF e.role = r THEN 1 ELSE 0
  <2>1. LinesWith(3, r) = TalliedIn(bags, r)
    BY DEF JointInv, JointAndMarginalsAgree, D
  <2>2. LinesWith(3, r)' = LinesWith(3, r) + n
    BY <1>1, <1>6, AxisGrows
  <2>3. Tally(new[id], r) = (IF id \in DOMAIN bags THEN Tally(bags[id], r) ELSE 0) + n
    <3>1. Tally(seen.roles, r) = Tally(old.roles, r) + n
      BY <1>2, <1>3, TallyOfOneMore
    <3>2. id \notin D => Tally(old.roles, r) = 0
      BY <1>2 DEF Tally
    <3> QED BY <1>2, <1>4, <3>1, <3>2
  <2>4. DOMAIN new = DOMAIN bags \cup {id} /\ DOMAIN bags = D /\ AgreeOn(new, bags, DOMAIN bags \ {id})
    BY <1>4 DEF AgreeOn
  <2>5. \A t \in DOMAIN bags : IsFiniteBag(bags[t])
    BY <1>6
  <2>6. n \in Nat
    OBVIOUS
  <2> HIDE DEF bags, new, n
  <2>7. TalliedIn(new, r) = TalliedIn(bags, r) + n
    BY <1>6, <2>3, <2>4, <2>5, <2>6, MarginalGrows
  <2>8. TalliedIn(new, r) = TalliedIn([t \in DOMAIN buckets |-> buckets[t].roles], r)'
    BY DEF new, TalliedIn
  <2> QED BY <2>1, <2>2, <2>7, <2>8
<1>12. lines_observed' = SumFunction(cube_base')
  BY <1>1, <1>8 DEF JointInv, JointAndMarginalsAgree
<1>13. JointAndMarginalsAgree'
  BY <1>9, <1>10, <1>11, <1>12 DEF JointAndMarginalsAgree
<1> QED BY <1>7, <1>8, <1>13 DEF JointInv

LEMMA NextKeepsJoint ==
  ASSUME EngineInv, JointInv, [Next]_allVars PROVE JointInv'
<1>1. CASE UNCHANGED engineVars
  BY <1>1 DEF engineVars, windowVars, JointInv, JointAndMarginalsAgree, LinesWith
<1>2. CASE ResetWindowState
  <2>1. (buckets = << >> /\ cube_base = << >> /\ lines_observed = 0)'
    BY <1>2 DEF ResetWindowState
  <2> QED BY <2>1, EmptyJoint, PTL
<1>3. ASSUME NEW e \in Events, IngestLookedUpEvent(e) PROVE JointInv'
  BY <1>3, HistoryAssumption, IngestKeepsJoint DEF EngineInv, BucketsInv
<1>4. UNCHANGED allVars => UNCHANGED engineVars
  BY DEF allVars, vars
<1>5. Call => ResetWindowState \/ UNCHANGED engineVars
  BY DEF Call, Lifecycle, OpenWindow, CloseWindow, DiscardWindow, Misuse
<1> QED BY <1>1, <1>2, <1>3, <1>4, <1>5 DEF Next, Ingest, IngestEvent, Refuse, RefuseEvent

(* No path of ingest_event updates one of the bucket counters, the joint   *)
(* of the cube and the number of lines without the others.                 *)
THEOREM JointAndMarginalsAlwaysAgree == Spec => []JointAndMarginalsAgree
<1>1. HistoryInit => EngineInv /\ JointInv
  BY InitHasEngineInv, EmptyJoint DEF HistoryInit, Init
<1>2. EngineInv /\ JointInv /\ [Next]_allVars => (EngineInv /\ JointInv)'
  BY EveryStepIsTheLedgers, NextKeepsJoint
<1>3. JointInv => JointAndMarginalsAgree
  BY DEF JointInv
<1> QED BY <1>1, <1>2, <1>3, PTL DEF Spec

-----------------------------------------------------------------------------
(* The drops of the n-gram table *)

(* Something is counted before anything is refused.                        *)
DropsInv ==
  /\ ngram_total \in Nat /\ ngram_dropped \in Nat
  /\ DOMAIN ngram_counts # {} => ngram_total > 0
  /\ ngram_dropped > 0 => ngram_total > 0

LEMMA CountKeepsDropsInv ==
  ASSUME MaxNgramKeys > 0, DropsInv, NEW gram, A!CountNgram(gram) PROVE DropsInv'
<1>1. MaxNgramKeys \in Nat
  BY EngineAssumption
<1>2. CASE A!Admits(gram)
  BY <1>2 DEF A!CountNgram, DropsInv
<1>3. CASE ~A!Admits(gram)
  <2>1. DOMAIN ngram_counts # {}
    <3> SUFFICES ASSUME DOMAIN ngram_counts = {} PROVE FALSE
      OBVIOUS
    <3>1. A!Cardinality({}) = Cardinality({})
      BY DEF A!Cardinality, Cardinality
    <3>2. A!Cardinality(DOMAIN ngram_counts) = 0
      BY <3>1, EmptyCount
    <3> QED BY <1>1, <1>3, <3>2 DEF A!Admits
  <2> QED BY <1>3, <2>1 DEF A!CountNgram, DropsInv
<1> QED BY <1>2, <1>3

LEMMA ObserveKeepsDropsInv ==
  ASSUME MaxNgramKeys > 0, DropsInv, NEW trace, NEW id, A!Observe(trace, id) PROVE DropsInv'
<1>1. ASSUME NEW ring, A!AccountNgram(ring, id) PROVE DropsInv'
  <2>1. CASE A!Forms(ring)
    BY <1>1, <2>1, CountKeepsDropsInv DEF A!AccountNgram
  <2>2. CASE ~A!Forms(ring)
    BY <1>1, <2>2 DEF A!AccountNgram, A!table, DropsInv
  <2> QED BY <2>1, <2>2
<1> QED BY <1>1 DEF A!Observe, A!ObserveInTrace, A!ObserveGlobally

LEMMA NextKeepsDrops ==
  ASSUME MaxNgramKeys > 0, TopNgramsSize > 0, DropsInv, DropsAreDeclared, [Next]_allVars
  PROVE  DropsInv' /\ DropsAreDeclared'
<1>1. CASE UNCHANGED allVars
  BY <1>1 DEF allVars, vars, engineVars, adjacencyVars, DropsInv, DropsAreDeclared, Published, doc
<1>2. CASE UNCHANGED adjacencyVars /\ answer'.kind # "document"
  BY <1>2 DEF adjacencyVars, DropsInv, DropsAreDeclared, Published
<1>3. ASSUME ResetWindowState PROVE DropsInv'
  BY <1>3 DEF ResetWindowState, A!ResetAdjacency, DropsInv
<1>4. ASSUME NEW e, IngestLookedUpEvent(e), answer' = Accepted
      PROVE  DropsInv' /\ DropsAreDeclared'
  <2>1. DropsAreDeclared'
    BY <1>4 DEF DropsAreDeclared, Published, Accepted
  <2>2. CASE e.span # NoSpan
    BY <1>2, <1>4, <2>2 DEF IngestLookedUpEvent, Topology, Accepted
  <2>3. CASE e.span = NoSpan
    BY <1>4, <2>1, <2>3, ObserveKeepsDropsInv DEF IngestLookedUpEvent, Topology
  <2> QED BY <2>2, <2>3
<1>5. ASSUME NEW end, NEW reported, CloseWindow(end, reported)
      PROVE  DropsInv' /\ DropsAreDeclared'
  <2> DEFINE published == Document(end, reported)
  <2>1. answer' = [kind |-> "document", doc |-> published] /\ ResetWindowState
    BY <1>5 DEF CloseWindow
  <2>2. published.last_dropped = ngram_dropped
    BY DEF Document
  <2>3. \E blocks : /\ published.behavior = blocks
                    /\ ngram_dropped > 0 => \E b \in Range(blocks) : b.dropped = ngram_dropped
    <3>1. \E counts : published.behavior =
             BehaviorBlock(ngram_counts, ngram_total, ngram_dropped, templates, counts)
      BY DEF Document
    <3>2. PICK counts : published.behavior =
             BehaviorBlock(ngram_counts, ngram_total, ngram_dropped, templates, counts)
      BY <3>1
    <3>3. ASSUME ngram_dropped > 0
          PROVE  \E b \in Range(published.behavior) : b.dropped = ngram_dropped
      <4>1. ~Silent(ngram_total)
        BY <3>3, EngineAssumption DEF Silent, DropsInv
      <4>2. \E top, edges, rows, path :
              published.behavior = <<[top_ngrams |-> top, dropped |-> ngram_dropped,
                                      graph_edge_count |-> edges, branching |-> rows,
                                      dominant_path |-> path]>>
        BY <3>2, <4>1 DEF BehaviorBlock
      <4>3. PICK b : published.behavior = <<b>> /\ b.dropped = ngram_dropped
        BY <4>2
      <4>4. b \in Range(<<b>>)
        BY DEF Range
      <4> QED BY <4>3, <4>4
    <3> QED BY <3>3
  <2> HIDE DEF published
  <2>4. DropsAreDeclared'
    BY <2>1, <2>2, <2>3 DEF DropsAreDeclared, Published, doc
  <2> QED BY <1>3, <2>1, <2>4
<1>6. ASSUME Call PROVE DropsInv' /\ DropsAreDeclared'
  <2>1. ASSUME NEW start, OpenWindow(start) PROVE DropsInv' /\ DropsAreDeclared'
    BY <1>3, <2>1 DEF OpenWindow, DropsAreDeclared, Published, Nothing
  <2>2. CASE DiscardWindow
    BY <1>3, <2>2 DEF DiscardWindow, DropsAreDeclared, Published, Nothing
  <2>3. CASE Misuse
    BY <1>2, <2>3 DEF Misuse, LogicError, engineVars
  <2> QED BY <1>5, <1>6, <2>1, <2>2, <2>3 DEF Call, Lifecycle
<1>7. ASSUME NEW e, NEW admit, Refuse(e, admit) PROVE DropsInv' /\ DropsAreDeclared'
  BY <1>2, <1>7 DEF Refuse, RefuseEvent, Refused, engineVars
<1>8. ASSUME NEW e, NEW admit, Ingest(e, admit) PROVE DropsInv' /\ DropsAreDeclared'
  BY <1>4, <1>8 DEF Ingest, IngestEvent
<1> QED BY <1>1, <1>6, <1>7, <1>8 DEF Next

(* What the accessor says was dropped is what the document declares, as    *)
(* long as the configuration asks for a behavior block at all              *)
(* (top_ngrams_size) and lets it count something (max_ngram_keys).         *)
THEOREM DropsAreAlwaysDeclared ==
  ASSUME MaxNgramKeys > 0, TopNgramsSize > 0 PROVE Spec => []DropsAreDeclared
<1>1. HistoryInit => DropsInv /\ DropsAreDeclared
  BY DEF HistoryInit, Init, A!AdjacencyInit, DropsInv, DropsAreDeclared, Published, Nothing
<1>2. DropsInv /\ DropsAreDeclared /\ [Next]_allVars => (DropsInv /\ DropsAreDeclared)'
  BY NextKeepsDrops
<1> QED BY <1>1, <1>2, PTL DEF Spec

-----------------------------------------------------------------------------
(* Types *)

(* What a record does to the table of n-grams.                             *)
LEMMA TableStaysTyped ==
  ASSUME A!AdjacencyTypeOK, NEW ring \in A!Ring, NEW id \in Nat, A!AccountNgram(ring, id)
  PROVE  /\ DOMAIN ngram_counts' \subseteq A!NGram
         /\ ngram_counts' \in [DOMAIN ngram_counts' -> Nat \ {0}]
         /\ ngram_total' \in Nat /\ ngram_dropped' \in Nat
<1> DEFINE gram == A!NGramOf(ring, id)
<1>1. CASE A!Forms(ring)
  <2>1. gram \in A!NGram
    <3>1. CASE NgramSize = 2
      <4>1. ring[1] \in Nat
        BY <1>1, <3>1 DEF A!Ring, A!Forms
      <4> QED BY <3>1, <4>1 DEF A!NGramOf, A!NGram
    <3>2. CASE NgramSize = 3
      <4>1. ring[1] \in Nat /\ ring[2] \in Nat
        BY <1>1, <3>2 DEF A!Ring, A!Forms
      <4> QED BY <3>2, <4>1 DEF A!NGramOf, A!NGram
    <3> QED BY <3>1, <3>2, EngineAssumption
  <2>2. A!CountNgram(gram)
    BY <1>1 DEF A!AccountNgram
  <2> HIDE DEF gram
  <2>3. CASE A!Admits(gram)
    <3>1. ngram_counts' = A!BagAdd(ngram_counts, gram)
          /\ ngram_total' = ngram_total + 1 /\ ngram_dropped' = ngram_dropped
      BY <2>2, <2>3 DEF A!CountNgram
    <3>2. ngram_counts \in [DOMAIN ngram_counts -> Nat \ {0}] /\ DOMAIN ngram_counts \subseteq A!NGram
      BY DEF A!AdjacencyTypeOK
    <3>3. /\ DOMAIN ngram_counts' = DOMAIN ngram_counts \cup {gram}
          /\ ngram_counts' \in [DOMAIN ngram_counts' -> Nat \ {0}]
      <4>1. CASE gram \in DOMAIN ngram_counts
        <5>1. ngram_counts' = [x \in DOMAIN ngram_counts |->
                                IF x = gram THEN ngram_counts[x] + 1 ELSE ngram_counts[x]]
          BY <3>1, <4>1 DEF A!BagAdd
        <5>2. DOMAIN ngram_counts' = DOMAIN ngram_counts \cup {gram}
          BY <4>1, <5>1
        <5>3. \A x \in DOMAIN ngram_counts : ngram_counts'[x] \in Nat \ {0}
          BY <3>2, <5>1
        <5>4. DOMAIN ngram_counts' = DOMAIN ngram_counts
          BY <5>1
        <5> QED BY <5>1, <5>2, <5>3, <5>4
      <4>2. CASE gram \notin DOMAIN ngram_counts
        BY <3>1, <3>2, <4>2 DEF A!BagAdd
      <4> QED BY <4>1, <4>2
    <3> QED BY <2>1, <3>1, <3>2, <3>3 DEF A!AdjacencyTypeOK
  <2>4. CASE ~A!Admits(gram)
    BY <2>2, <2>4 DEF A!CountNgram, A!AdjacencyTypeOK
  <2> QED BY <2>3, <2>4
<1>2. CASE ~A!Forms(ring)
  BY <1>2 DEF A!AccountNgram, A!table, A!AdjacencyTypeOK
<1> QED BY <1>1, <1>2

LEMMA AdjacencyStaysTyped ==
  ASSUME A!AdjacencyTypeOK, NEW trace \in TraceId \cup {NoTrace}, NEW id \in Nat,
         A!Observe(trace, id)
  PROVE  A!AdjacencyTypeOK'
<1>1. ASSUME NEW ring \in A!Ring PROVE A!Shift(ring, id) \in A!Ring
  <2>1. ring # << >> => ring[1] \in Nat
    BY DEF A!Ring
  <2> QED BY <2>1 DEF A!Shift, A!Ring
<1>2. CASE TraceScoping /\ trace # NoTrace
  <2>1. A!ObserveInTrace(trace, id) /\ trace \in TraceId
    BY <1>2 DEF A!Observe
  <2>2. A!RingFor(trace) \in A!Ring
    <3>1. << >> \in A!Ring
      BY DEF A!Ring
    <3> QED BY <3>1 DEF A!RingFor, A!AdjacencyTypeOK
  <2>3. /\ DOMAIN ngram_counts' \subseteq A!NGram
        /\ ngram_counts' \in [DOMAIN ngram_counts' -> Nat \ {0}]
        /\ ngram_total' \in Nat /\ ngram_dropped' \in Nat
    BY <2>1, <2>2, TableStaysTyped DEF A!ObserveInTrace
  <2> DEFINE kept == (DOMAIN trace_rings \ A!Evicted(trace)) \cup {trace}
             shifted == A!Shift(A!RingFor(trace), id)
  <2>4. shifted \in A!Ring
    BY <1>1, <2>2
  <2>5. trace_rings' = [u \in kept |-> IF u = trace THEN shifted ELSE trace_rings[u]]
    BY <2>1 DEF A!ObserveInTrace
  <2>6. kept \subseteq TraceId /\ \A u \in kept \ {trace} : trace_rings[u] \in A!Ring
    BY <2>1 DEF A!AdjacencyTypeOK
  <2> HIDE DEF kept, shifted
  <2>7. DOMAIN trace_rings' \subseteq TraceId /\ trace_rings' \in [DOMAIN trace_rings' -> A!Ring]
    BY <2>4, <2>5, <2>6
  <2>8. trace_ring_fifo' \in Seq(TraceId)
    <3>1. trace_ring_fifo \in Seq(TraceId) /\ A!HoldTrace(trace)
      BY <2>1 DEF A!AdjacencyTypeOK, A!ObserveInTrace
    <3>2. A!Evicted(trace) # {} => trace_ring_fifo # << >>
      BY DEF A!Evicted
    <3> QED BY <2>1, <3>1, <3>2 DEF A!HoldTrace
  <2>9. global_ring' \in A!Ring
    BY <2>1 DEF A!ObserveInTrace, A!AdjacencyTypeOK
  <2> QED BY <2>3, <2>7, <2>8, <2>9 DEF A!AdjacencyTypeOK
<1>3. CASE ~(TraceScoping /\ trace # NoTrace)
  <2>1. A!ObserveGlobally(id) /\ global_ring \in A!Ring
    BY <1>3 DEF A!Observe, A!AdjacencyTypeOK
  <2>2. /\ DOMAIN ngram_counts' \subseteq A!NGram
        /\ ngram_counts' \in [DOMAIN ngram_counts' -> Nat \ {0}]
        /\ ngram_total' \in Nat /\ ngram_dropped' \in Nat
    BY <2>1, TableStaysTyped DEF A!ObserveGlobally
  <2>3. global_ring' \in A!Ring /\ UNCHANGED <<trace_rings, trace_ring_fifo>>
    BY <1>1, <2>1 DEF A!ObserveGlobally
  <2> QED BY <2>2, <2>3 DEF A!AdjacencyTypeOK
<1> QED BY <1>2, <1>3

LEMMA SpansStayTyped ==
  ASSUME S!SpanTypeOK, NEW r \in S!SpanRecord, S!RecordSpan(r)
  PROVE  S!SpanTypeOK'
<1>1. /\ r.span \in SpanId /\ r.parent \in SpanId \cup {NoSpan} /\ r.links \in Seq(SpanId)
      /\ r.template \in Nat /\ r.component \in S!AnyComponent
  BY DEF S!SpanRecord
<1>2. /\ DOMAIN span_templates' \subseteq SpanId
      /\ span_templates' \in [DOMAIN span_templates' -> S!SpanNode]
      /\ span_fifo' \in Seq(SpanId)
  <2> DEFINE node == [template |-> r.template, component |-> r.component]
             kept == (DOMAIN span_templates \ S!EvictedSpan(r.span)) \cup {r.span}
  <2>1. /\ DOMAIN span_templates \subseteq SpanId /\ span_fifo \in Seq(SpanId)
        /\ \A s \in DOMAIN span_templates : span_templates[s] \in S!SpanNode
        /\ S!HoldSpan(r.span, node) /\ node \in S!SpanNode
    BY <1>1 DEF S!SpanTypeOK, S!RecordSpan, S!SpanNode
  <2> HIDE DEF node
  <2>2. CASE r.span \in DOMAIN span_templates
    BY <2>1, <2>2 DEF S!HoldSpan, S!SpanTypeOK
  <2>3. CASE r.span \notin DOMAIN span_templates
    <3>1. span_templates' = [s \in kept |-> IF s = r.span THEN node ELSE span_templates[s]]
      BY <2>1, <2>3 DEF S!HoldSpan
    <3>2. kept \subseteq SpanId /\ \A s \in kept \ {r.span} : span_templates[s] \in S!SpanNode
      BY <1>1, <2>1
    <3>3. span_fifo' = Append(IF S!EvictedSpan(r.span) = {} THEN span_fifo ELSE Tail(span_fifo),
                              r.span)
          /\ (S!EvictedSpan(r.span) # {} => span_fifo # << >>)
      BY <2>1, <2>3 DEF S!HoldSpan, S!EvictedSpan
    <3>4. span_fifo' \in Seq(SpanId)
      BY <1>1, <2>1, <3>3
    <3> HIDE DEF kept
    <3> QED BY <2>1, <3>1, <3>2, <3>4
  <2> QED BY <2>2, <2>3
<1>3. pending_span_edges' \in Seq(S!PendingSpanEdge)
  <2>1. pending_span_edges \in Seq(S!PendingSpanEdge)
    BY DEF S!SpanTypeOK
  <2>2. CASE r.parent = NoSpan
    BY <2>1, <2>2 DEF S!RecordSpan
  <2>3. CASE r.parent # NoSpan
    <3> DEFINE edge == [child |-> r.template, parent |-> r.parent, component |-> r.component]
    <3>1. edge \in S!PendingSpanEdge /\ pending_span_edges' = Append(pending_span_edges, edge)
      BY <1>1, <2>3 DEF S!RecordSpan, S!PendingSpanEdge
    <3> HIDE DEF edge
    <3> QED BY <2>1, <3>1
  <2> QED BY <2>2, <2>3
<1>4. pending_link_edges' \in Seq(S!PendingLinkEdge)
  <2> DEFINE links == [i \in DOMAIN r.links |->
                         [component |-> r.component, linked |-> r.links[i]]]
  <2>1. DOMAIN r.links = 1..Len(r.links) /\ \A i \in DOMAIN r.links : r.links[i] \in SpanId
    BY <1>1
  <2>2. links \in Seq(S!PendingLinkEdge)
    BY <1>1, <2>1 DEF S!PendingLinkEdge
  <2>3. pending_link_edges \in Seq(S!PendingLinkEdge)
        /\ pending_link_edges' = pending_link_edges \o links
    BY DEF S!SpanTypeOK, S!RecordSpan
  <2> HIDE DEF links
  <2> QED BY <2>2, <2>3
<1>5. span_records' \in Nat /\ resolution' = S!EmptyResolution
  BY DEF S!SpanTypeOK, S!RecordSpan
<1> QED BY <1>2, <1>3, <1>4, <1>5 DEF S!SpanTypeOK

(* What the engine keeps beside the invariant of its accumulations.        *)
TypeInv ==
  /\ A!AdjacencyTypeOK /\ S!SpanTypeOK
  /\ \A t \in DOMAIN buckets : buckets[t].str \in TemplateStr
  /\ DOMAIN prev_freq \subseteq DOMAIN registry
  /\ prev_window_end \in {<< >>} \cup {<<t>> : t \in Time}

LEMMA TypesFollow == EngineInv /\ TypeInv => TypeOK
<1> SUFFICES ASSUME EngineInv, TypeInv PROVE TypeOK
  OBVIOUS
<1>1. VocabularyTypeOK /\ DOMAIN buckets = DOMAIN template_index
  BY DEF EngineInv, VocabularyInv, BucketsInv
<1>2. lines_observed \in Nat /\ prev_total \in Nat
  BY FrequenciesAreABag, BagSumIsNat DEF EngineInv, BucketsInv, PrevInv
<1>3. \A t \in DOMAIN buckets :
        buckets[t].str \in TemplateStr /\ buckets[t].count \in Nat \ {0} /\ buckets[t].first_seen \in Nat
  BY DEF EngineInv, BucketsInv, AreBuckets, TypeInv
<1>4. window_start \in {<< >>} \cup {<<t>> : t \in Time}
  BY DEF EngineInv, WindowInv
<1> QED BY <1>1, <1>2, <1>3, <1>4 DEF TypeInv, TypeOK

LEMMA EmptyTablesAreTyped ==
  /\ A!AdjacencyInit => A!AdjacencyTypeOK
  /\ S!SpanInit => S!SpanTypeOK
<1>1. A!AdjacencyInit => A!AdjacencyTypeOK
  BY DEF A!AdjacencyInit, A!AdjacencyTypeOK, A!Ring
<1>2. S!SpanInit => S!SpanTypeOK
  BY DEF S!SpanInit, S!SpanTypeOK
<1> QED BY <1>1, <1>2

LEMMA ResetKeepsTypes ==
  ASSUME ResetWindowState, DOMAIN prev_freq' \subseteq DOMAIN registry,
         prev_window_end' \in {<< >>} \cup {<<t>> : t \in Time}
  PROVE  TypeInv'
<1>1. A!AdjacencyInit' /\ S!SpanInit'
  BY DEF ResetWindowState, A!ResetAdjacency, A!AdjacencyInit, S!ResetSpans, S!SpanInit
<1>2. A!AdjacencyTypeOK' /\ S!SpanTypeOK'
  BY <1>1, EmptyTablesAreTyped, PTL
<1>3. buckets' = << >> /\ registry' = registry
  BY DEF ResetWindowState, ResetVocabulary
<1> QED BY <1>2, <1>3 DEF TypeInv

(* An event accepted is typed in every table it enters.                    *)
LEMMA IngestKeepsTypes ==
  ASSUME EngineInv, TypeInv, NEW e \in Event, NEW admit \in BOOLEAN, IngestEvent(e, admit)
  PROVE  TypeInv'
<1> DEFINE id == IdOf[e.str]
           internal == InternalIdFor(e.str)
<1>1. /\ LookUp(e.str) /\ IngestLookedUpEvent(e)
      /\ UNCHANGED <<prev_freq, prev_window_end>>
  BY DEF IngestEvent, prevVars
<1>2. /\ e.str \in TemplateStr /\ e.component \in Component \cup {NoComponent}
      /\ e.trace \in TraceId \cup {NoTrace} /\ e.span \in SpanId \cup {NoSpan}
      /\ e.parent \in SpanId \cup {NoSpan} /\ e.links \in Seq(SpanId)
  BY DEF Event
<1>3. DOMAIN registry' = DOMAIN registry \cup {id}
  BY <1>1, IngestCounts
<1>4. internal \in Nat
  BY <1>2 DEF InternalIdFor, EngineInv, VocabularyInv, VocabularyTypeOK
<1>5. \A t \in DOMAIN buckets' : buckets'[t].str \in TemplateStr
  <2> DEFINE old == IF id \in DOMAIN buckets THEN buckets[id] ELSE NewBucket(e)
  <2>1. buckets' = Extend(buckets, id, Seen(old, e))
    BY <1>1 DEF IngestLookedUpEvent
  <2>2. old.str \in TemplateStr
    BY <1>2 DEF TypeInv, NewBucket
  <2>3. Seen(old, e).str = old.str
    <3>1. CASE id \in DOMAIN buckets
      BY <3>1 DEF Seen
    <3>2. CASE id \notin DOMAIN buckets
      BY <3>2 DEF Seen, NewBucket
    <3> QED BY <3>1, <3>2
  <2> HIDE DEF old
  <2> QED BY <2>1, <2>2, <2>3 DEF Extend, TypeInv
<1>6. A!AdjacencyTypeOK' /\ S!SpanTypeOK'
  <2>1. Topology(e, internal)
    BY <1>1 DEF IngestLookedUpEvent
  <2> HIDE DEF internal
  <2>2. CASE e.span # NoSpan
    <3> DEFINE r == [span |-> e.span, parent |-> e.parent, links |-> e.links,
                     template |-> internal, component |-> e.component]
    <3>1. S!RecordSpan(r) /\ UNCHANGED adjacencyVars
      BY <2>1, <2>2 DEF Topology
    <3>2. r \in S!SpanRecord
      BY <1>2, <1>4, <2>2 DEF S!SpanRecord, S!AnyComponent
    <3> HIDE DEF r
    <3>3. S!SpanTypeOK'
      BY <3>1, <3>2, SpansStayTyped DEF TypeInv
    <3>4. A!AdjacencyTypeOK'
      BY <3>1 DEF adjacencyVars, TypeInv, A!AdjacencyTypeOK
    <3> QED BY <3>3, <3>4
  <2>3. CASE e.span = NoSpan
    <3>1. A!Observe(e.trace, internal) /\ UNCHANGED spanVars
      BY <2>1, <2>3 DEF Topology
    <3>2. A!AdjacencyTypeOK'
      BY <1>2, <1>4, <3>1, AdjacencyStaysTyped DEF TypeInv
    <3>3. S!SpanTypeOK'
      BY <3>1 DEF spanVars, TypeInv, S!SpanTypeOK
    <3> QED BY <3>2, <3>3
  <2> QED BY <2>2, <2>3
<1> QED BY <1>1, <1>3, <1>5, <1>6 DEF TypeInv

LEMMA NextKeepsTypes ==
  ASSUME EngineInv, TypeInv, [Next]_allVars PROVE TypeInv'
<1>1. ASSUME UNCHANGED engineVars PROVE TypeInv'
  BY <1>1 DEF engineVars, vocabularyVars, adjacencyVars, spanVars, windowVars, prevVars, TypeInv,
              A!AdjacencyTypeOK, S!SpanTypeOK
<1>2. ASSUME NEW e \in Events, NEW admit \in BOOLEAN, Ingest(e, admit) \/ Refuse(e, admit)
      PROVE  TypeInv'
  <2>1. e \in Event
    BY HistoryAssumption
  <2>2. CASE Ingest(e, admit)
    BY <2>1, <2>2, IngestKeepsTypes DEF Ingest
  <2>3. CASE Refuse(e, admit)
    BY <1>1, <2>3 DEF Refuse, RefuseEvent
  <2> QED BY <1>2, <2>2, <2>3
<1>3. ASSUME ResetWindowState, UNCHANGED prevVars PROVE TypeInv'
  BY <1>3, ResetKeepsTypes DEF prevVars, TypeInv
<1>4. CASE Call
  <2>1. ASSUME NEW start \in Time, OpenWindow(start) PROVE TypeInv'
    BY <1>3, <2>1 DEF OpenWindow
  <2>2. ASSUME NEW end \in Time, NEW reported \in Reports, CloseWindow(end, reported)
        PROVE  TypeInv'
    <3> DEFINE published == Document(end, reported)
    <3>1. /\ window_start # << >> /\ StashPrevWindow(published) /\ ResetWindowState
          /\ published.envelope = Envelope(end, reported)
      BY <2>2 DEF CloseWindow, Document
    <3> HIDE DEF published
    <3>2. [i \in DOMAIN published.envelope |-> published.envelope[i].end]
             \in {<< >>} \cup {<<t>> : t \in Time}
      BY <3>1, EnvelopeEnds DEF EngineInv, WindowInv
    <3>3. DOMAIN Frequencies \subseteq DOMAIN registry
      BY DEF Frequencies, EngineInv, BucketsInv, VocabularyInv, WindowIdsResolve
    <3>4. CASE EmitStability
      BY <3>1, <3>2, <3>3, <3>4, ResetKeepsTypes DEF StashPrevWindow
    <3>5. CASE ~EmitStability
      BY <1>3, <3>1, <3>5 DEF StashPrevWindow
    <3> QED BY <3>4, <3>5
  <2>3. CASE DiscardWindow
    BY <1>3, <2>3 DEF DiscardWindow
  <2>4. CASE Misuse
    BY <1>1, <2>4 DEF Misuse
  <2> QED BY <1>4, <2>1, <2>2, <2>3, <2>4 DEF Call, Lifecycle
<1>5. CASE UNCHANGED allVars
  BY <1>1, <1>5 DEF allVars, vars
<1> QED BY <1>2, <1>4, <1>5 DEF Next

(* Every table of the engine stays well formed from window to window: the  *)
(* buckets are keyed as the index is, counted, and named by their strings; *)
(* what is kept of the last window closed is still known to the registry.  *)
THEOREM EngineIsWellTyped == Spec => []TypeOK
<1>1. HistoryInit => EngineInv /\ TypeInv
  <2> SUFFICES ASSUME HistoryInit PROVE TypeInv
    BY InitHasEngineInv
  <2>1. A!AdjacencyInit /\ S!SpanInit /\ buckets = << >> /\ prev_freq = << >> /\ prev_window_end = << >>
    BY DEF HistoryInit, Init
  <2> QED BY <2>1, EmptyTablesAreTyped DEF TypeInv
<1>2. EngineInv /\ TypeInv /\ [Next]_allVars => (EngineInv /\ TypeInv)'
  BY EveryStepIsTheLedgers, NextKeepsTypes
<1> QED BY <1>1, <1>2, TypesFollow, PTL DEF Spec

-----------------------------------------------------------------------------
(* The log: what the tables of a window remember of its events *)

(* The internal id of the event at a place of a log.                       *)
IdAt(index, events, i) == index[Id(events[i])]

Latest(events, stream, i) ==
  InStream(events[i], stream) /\ \A k \in (i + 1)..Len(events) : ~InStream(events[k], stream)

(* A ring holds the last ids of its stream, up to where it was last empty. *)
Recalls(events, index, stream, ring) ==
  \/ ring = << >>
  \/ \E i \in DOMAIN events :
       Latest(events, stream, i) /\ ring = <<IdAt(index, events, i)>>
  \/ \E h, i \in DOMAIN events :
       /\ Latest(events, stream, i) /\ Adjoin(events, stream, h, i)
       /\ ring = <<IdAt(index, events, i), IdAt(index, events, h)>>

(* A counted n-gram is a run of events that follow each other in a stream. *)
Formed(events, index, gram) ==
  \E stream \in TraceId \cup {NoTrace}, at \in [1..NgramSize -> DOMAIN events] :
    /\ \A j \in 1..NgramSize : gram[j] = IdAt(index, events, at[j])
    /\ \A j \in 1..(NgramSize - 1) : Adjoin(events, stream, at[j], at[j + 1])

(* A span held, and a reference queued, are what an event declared.        *)
SpanAt(events, index, span, number) ==
  \E i \in DOMAIN events : events[i].span = span /\ IdAt(index, events, i) = number

ChildAt(events, index, parent, number) ==
  \E i \in DOMAIN events :
    /\ events[i].span # NoSpan /\ events[i].parent = parent
    /\ IdAt(index, events, i) = number

(* One more event, and the numbers of those before as they were.           *)
Grown(events, index, new, renumbered, e) ==
  /\ events \in Seq(Event) /\ e \in Event
  /\ new = Append(events, e)
  /\ \A i \in DOMAIN events : IdAt(renumbered, new, i) = IdAt(index, events, i)

LEMMA GrownPlaces ==
  ASSUME NEW events, NEW index, NEW new, NEW renumbered, NEW e,
         Grown(events, index, new, renumbered, e)
  PROVE  /\ Len(events) \in Nat /\ DOMAIN events = 1..Len(events)
         /\ new \in Seq(Event) /\ Len(new) = Len(events) + 1 /\ DOMAIN new = 1..(Len(events) + 1)
         /\ new[Len(events) + 1] = e
         /\ \A i \in DOMAIN events : i \in DOMAIN new /\ new[i] = events[i]
BY AppendProperties DEF Grown

(* Places that follow each other still do; the last of a stream stays the  *)
(* last, or is followed by the new event.                                  *)
LEMMA StreamsGrow ==
  ASSUME NEW events, NEW index, NEW new, NEW renumbered, NEW e,
         Grown(events, index, new, renumbered, e), NEW stream
  PROVE  /\ \A h, i \in DOMAIN events :
              Adjoin(events, stream, h, i) => Adjoin(new, stream, h, i)
         /\ ~InStream(e, stream) =>
              \A i \in DOMAIN events : Latest(events, stream, i) => Latest(new, stream, i)
         /\ InStream(e, stream) =>
              /\ Latest(new, stream, Len(new))
              /\ \A i \in DOMAIN events :
                   Latest(events, stream, i) => Adjoin(new, stream, i, Len(new))
<1> DEFINE n == Len(events)
<1>1. /\ n \in Nat /\ DOMAIN events = 1..n /\ Len(new) = n + 1 /\ new[n + 1] = e
      /\ \A i \in 1..n : new[i] = events[i]
  BY GrownPlaces
<1> HIDE DEF n
<1>2. ASSUME NEW h \in 1..n, NEW i \in 1..n, Adjoin(events, stream, h, i)
      PROVE  Adjoin(new, stream, h, i)
  <2>1. \A k \in (h + 1)..(i - 1) : k \in 1..n
    BY <1>1
  <2> QED BY <1>1, <1>2, <2>1 DEF Adjoin
<1>3. ASSUME ~InStream(e, stream), NEW i \in 1..n, Latest(events, stream, i)
      PROVE  Latest(new, stream, i)
  <2>1. \A k \in (i + 1)..(n + 1) : k = n + 1 \/ (k \in 1..n /\ k \in (i + 1)..n)
    BY <1>1
  <2>2. \A k \in (i + 1)..n : ~InStream(events[k], stream)
    BY <1>3 DEF Latest, n
  <2> QED BY <1>1, <1>3, <2>1, <2>2 DEF Latest
<1>4. ASSUME InStream(e, stream)
      PROVE  Latest(new, stream, n + 1)
  BY <1>1, <1>4 DEF Latest
<1>5. ASSUME InStream(e, stream), NEW i \in 1..n, Latest(events, stream, i)
      PROVE  Adjoin(new, stream, i, n + 1)
  <2>1. \A k \in (i + 1)..(n + 1 - 1) : k \in 1..n /\ k \in (i + 1)..n
    BY <1>1
  <2>2. \A k \in (i + 1)..n : ~InStream(events[k], stream)
    BY <1>5 DEF Latest, n
  <2>3. i < n + 1 /\ InStream(new[i], stream)
    BY <1>1, <1>5 DEF Latest
  <2> QED BY <1>1, <1>5, <2>1, <2>2, <2>3 DEF Adjoin
<1> QED BY <1>1, <1>2, <1>3, <1>4, <1>5

LEMMA FormedStays ==
  ASSUME NEW events, NEW index, NEW new, NEW renumbered, NEW e,
         Grown(events, index, new, renumbered, e), NEW gram, Formed(events, index, gram)
  PROVE  Formed(new, renumbered, gram)
<1>1. PICK stream \in TraceId \cup {NoTrace}, at \in [1..NgramSize -> DOMAIN events] :
        /\ \A j \in 1..NgramSize : gram[j] = IdAt(index, events, at[j])
        /\ \A j \in 1..(NgramSize - 1) : Adjoin(events, stream, at[j], at[j + 1])
  BY DEF Formed
<1>2. NgramSize \in Nat
  BY EngineAssumption
<1>3. \A j \in 1..(NgramSize - 1) : j \in 1..NgramSize /\ j + 1 \in 1..NgramSize
  BY <1>2
<1>4. at \in [1..NgramSize -> DOMAIN new]
  BY GrownPlaces
<1>5. \A j \in 1..NgramSize : gram[j] = IdAt(renumbered, new, at[j])
  BY <1>1 DEF Grown
<1>6. \A j \in 1..(NgramSize - 1) : Adjoin(new, stream, at[j], at[j + 1])
  BY <1>1, <1>3, StreamsGrow
<1> QED BY <1>4, <1>5, <1>6 DEF Formed

LEMMA RecallsStays ==
  ASSUME NEW events, NEW index, NEW new, NEW renumbered, NEW e,
         Grown(events, index, new, renumbered, e), NEW stream, ~InStream(e, stream),
         NEW ring, Recalls(events, index, stream, ring)
  PROVE  Recalls(new, renumbered, stream, ring)
<1>1. \A i \in DOMAIN events : IdAt(renumbered, new, i) = IdAt(index, events, i) /\ i \in DOMAIN new
  BY GrownPlaces DEF Grown
<1>2. /\ \A h, i \in DOMAIN events : Adjoin(events, stream, h, i) => Adjoin(new, stream, h, i)
      /\ \A i \in DOMAIN events : Latest(events, stream, i) => Latest(new, stream, i)
  BY StreamsGrow
<1> QED BY <1>1, <1>2 DEF Recalls

(* The ring of the new event's stream shifts, and the n-gram it forms is a *)
(* run of events that ends in the new one.                                 *)
LEMMA ShiftRecalls ==
  ASSUME NEW events, NEW index, NEW new, NEW renumbered, NEW e,
         Grown(events, index, new, renumbered, e),
         NEW stream \in TraceId \cup {NoTrace}, InStream(e, stream),
         NEW ring, Recalls(events, index, stream, ring),
         NEW id, id = IdAt(renumbered, new, Len(new))
  PROVE  /\ Recalls(new, renumbered, stream, A!Shift(ring, id))
         /\ A!Forms(ring) => Formed(new, renumbered, A!NGramOf(ring, id))
<1> DEFINE n == Len(new)
<1>1. /\ \A i \in DOMAIN events : IdAt(renumbered, new, i) = IdAt(index, events, i) /\ i \in DOMAIN new
      /\ n \in DOMAIN new
  BY GrownPlaces DEF Grown
<1>2. /\ Latest(new, stream, n)
      /\ \A h, i \in DOMAIN events : Adjoin(events, stream, h, i) => Adjoin(new, stream, h, i)
      /\ \A i \in DOMAIN events : Latest(events, stream, i) => Adjoin(new, stream, i, n)
  BY StreamsGrow
<1> HIDE DEF n
<1>0. id = IdAt(renumbered, new, n)
  BY DEF n
<1>3. CASE ring = << >>
  <2>1. A!Shift(ring, id) = <<IdAt(renumbered, new, n)>>
    BY <1>0, <1>3 DEF A!Shift
  <2>2. ~A!Forms(ring)
    BY <1>3, EngineAssumption DEF A!Forms
  <2> QED BY <1>1, <1>2, <2>1, <2>2 DEF Recalls
<1>4. ASSUME NEW i \in DOMAIN events, Latest(events, stream, i), ring # << >>, ring[1] = IdAt(index, events, i)
      PROVE  /\ Recalls(new, renumbered, stream, A!Shift(ring, id))
             /\ NgramSize = 2 => Formed(new, renumbered, A!NGramOf(ring, id))
  <2>1. A!Shift(ring, id) = <<IdAt(renumbered, new, n), IdAt(renumbered, new, i)>>
    BY <1>0, <1>1, <1>4 DEF A!Shift
  <2>2. Adjoin(new, stream, i, n)
    BY <1>2, <1>4
  <2>3. Recalls(new, renumbered, stream, A!Shift(ring, id))
    BY <1>1, <1>2, <2>1, <2>2 DEF Recalls
  <2>4. ASSUME NgramSize = 2 PROVE Formed(new, renumbered, A!NGramOf(ring, id))
    <3> DEFINE at == [j \in 1..2 |-> IF j = 1 THEN i ELSE n]
               gram == A!NGramOf(ring, id)
    <3>1. gram[1] = IdAt(renumbered, new, i) /\ gram[2] = IdAt(renumbered, new, n)
      BY <1>0, <1>1, <1>4, <2>4 DEF A!NGramOf
    <3>2. at \in [1..NgramSize -> DOMAIN new] /\ at[1] = i /\ at[2] = n
      BY <1>1, <2>4
    <3> HIDE DEF at, gram
    <3>3. \A j \in 1..NgramSize : gram[j] = IdAt(renumbered, new, at[j])
      BY <2>4, <3>1, <3>2
    <3>4. \A j \in 1..(NgramSize - 1) : Adjoin(new, stream, at[j], at[j + 1])
      BY <2>2, <2>4, <3>2
    <3>5. Formed(new, renumbered, gram)
      BY <3>2, <3>3, <3>4 DEF Formed
    <3> QED BY <3>5 DEF gram
  <2> QED BY <2>3, <2>4
<1>5. CASE \E i \in DOMAIN events : Latest(events, stream, i) /\ ring = <<IdAt(index, events, i)>>
  <2>1. PICK i \in DOMAIN events : Latest(events, stream, i) /\ ring = <<IdAt(index, events, i)>>
    BY <1>5
  <2>2. ring # << >> /\ ring[1] = IdAt(index, events, i) /\ Len(ring) = 1
    BY <2>1
  <2>3. A!Forms(ring) => NgramSize = 2
    BY <2>2, EngineAssumption DEF A!Forms
  <2> QED BY <1>4, <2>1, <2>2, <2>3
<1>6. CASE \E h, i \in DOMAIN events :
             /\ Latest(events, stream, i) /\ Adjoin(events, stream, h, i)
             /\ ring = <<IdAt(index, events, i), IdAt(index, events, h)>>
  <2>1. PICK h \in DOMAIN events, i \in DOMAIN events :
             /\ Latest(events, stream, i) /\ Adjoin(events, stream, h, i)
             /\ ring = <<IdAt(index, events, i), IdAt(index, events, h)>>
    BY <1>6
  <2>2. ring # << >> /\ ring[1] = IdAt(index, events, i) /\ ring[2] = IdAt(index, events, h)
    BY <2>1
  <2>3. ASSUME NgramSize = 3 PROVE Formed(new, renumbered, A!NGramOf(ring, id))
    <3> DEFINE at == [j \in 1..3 |-> IF j = 1 THEN h ELSE IF j = 2 THEN i ELSE n]
               gram == A!NGramOf(ring, id)
    <3>1. /\ gram[1] = IdAt(renumbered, new, h) /\ gram[2] = IdAt(renumbered, new, i)
          /\ gram[3] = IdAt(renumbered, new, n)
      BY <1>0, <1>1, <2>2, <2>3 DEF A!NGramOf
    <3>2. at \in [1..NgramSize -> DOMAIN new] /\ at[1] = h /\ at[2] = i /\ at[3] = n
      BY <1>1, <2>3
    <3> HIDE DEF at, gram
    <3>3. \A j \in 1..NgramSize : gram[j] = IdAt(renumbered, new, at[j])
      BY <2>3, <3>1, <3>2
    <3>4. Adjoin(new, stream, h, i) /\ Adjoin(new, stream, i, n)
      BY <1>2, <2>1
    <3>5. \A j \in 1..(NgramSize - 1) : Adjoin(new, stream, at[j], at[j + 1])
      BY <2>3, <3>2, <3>4
    <3>6. Formed(new, renumbered, gram)
      BY <3>2, <3>3, <3>5 DEF Formed
    <3> QED BY <3>6 DEF gram
  <2> QED BY <1>4, <2>1, <2>2, <2>3, EngineAssumption
<1> QED BY <1>3, <1>5, <1>6 DEF Recalls

(* The tables against the log.                                             *)
CountsAreLogged(events) ==
  /\ DOMAIN Frequencies = IdsIn(events)
  /\ \A t \in DOMAIN Frequencies : Frequencies[t] = CountIn(events, t)

AdjacencyIsLogged(events, index) ==
  /\ IsFiniteSet(DOMAIN ngram_counts)
  /\ Recalls(events, index, NoTrace, global_ring)
  /\ \A t \in DOMAIN trace_rings : Recalls(events, index, t, trace_rings[t])
  /\ \A gram \in DOMAIN ngram_counts : Formed(events, index, gram)

SpansAreLogged(events, index) ==
  /\ \A s \in DOMAIN span_templates : SpanAt(events, index, s, span_templates[s].template)
  /\ \A i \in DOMAIN pending_span_edges :
       ChildAt(events, index, pending_span_edges[i].parent, pending_span_edges[i].child)

LogInv ==
  /\ log \in Seq(Event)
  /\ CountsAreLogged(log)
  /\ AdjacencyIsLogged(log, template_index)
  /\ SpansAreLogged(log, template_index)

LEMMA CountGrows ==
  ASSUME NEW events \in Seq(Event), NEW e \in Event, NEW t
  PROVE  /\ CountIn(events, t) \in Nat
         /\ CountIn(Append(events, e), t) = CountIn(events, t) + (IF Id(e) = t THEN 1 ELSE 0)
         /\ t \notin IdsIn(events) => CountIn(events, t) = 0
         /\ IdsIn(Append(events, e)) = IdsIn(events) \cup {Id(e)}
<1> DEFINE n == Len(events)
           new == Append(events, e)
           before == {i \in DOMAIN events : Id(events[i]) = t}
           after == {i \in DOMAIN new : Id(new[i]) = t}
<1>1. /\ n \in Nat /\ DOMAIN events = 1..n /\ DOMAIN new = 1..(n + 1) /\ new[n + 1] = e
      /\ \A i \in 1..n : new[i] = events[i]
  BY AppendProperties
<1> HIDE DEF n, new
<1>2. IsFiniteSet(before)
  <2>1. IsFiniteSet(1..n)
    BY <1>1, FS_Interval
  <2> QED BY <1>1, <2>1, FS_Subset
<1>3. after = IF Id(e) = t THEN before \cup {n + 1} ELSE before
  BY <1>1
<1>4. n + 1 \notin before
  BY <1>1
<1>5. CountIn(events, t) = Cardinality(before) /\ CountIn(new, t) = Cardinality(after)
  BY DEF CountIn
<1>6. t \notin IdsIn(events) => before = {}
  BY DEF IdsIn
<1>7. IdsIn(new) = IdsIn(events) \cup {Id(e)}
  BY <1>1 DEF IdsIn
<1> HIDE DEF before, after
<1>8. Cardinality(before) \in Nat /\ Cardinality(before \cup {n + 1}) = Cardinality(before) + 1
  BY <1>2, <1>4, CountOneMore, CountIsNat
<1>9. before = {} => Cardinality(before) = 0
  BY EmptyCount
<1> QED BY <1>3, <1>5, <1>6, <1>7, <1>8, <1>9 DEF new

LEMMA IngestCountsTheLog ==
  ASSUME EngineInv, LogInv, NEW e \in Event, LookUp(e.str), IngestLookedUpEvent(e),
         NEW new, new = Append(log, e)
  PROVE  CountsAreLogged(new)'
<1> DEFINE id == Id(e)
<1>1. Frequencies' = BagAdd(Frequencies, id)
  BY IngestCounts DEF Id
<1>2. /\ DOMAIN Frequencies = IdsIn(log) /\ log \in Seq(Event)
      /\ \A t \in DOMAIN Frequencies : Frequencies[t] = CountIn(log, t)
  BY DEF LogInv, CountsAreLogged
<1>3. /\ IdsIn(new) = IdsIn(log) \cup {id}
      /\ \A t : CountIn(new, t) = CountIn(log, t) + (IF id = t THEN 1 ELSE 0)
      /\ \A t : CountIn(log, t) \in Nat /\ (t \notin IdsIn(log) => CountIn(log, t) = 0)
  BY <1>2, CountGrows
<1> HIDE DEF id
<1>4. /\ DOMAIN Frequencies' = DOMAIN Frequencies \cup {id}
      /\ \A t \in DOMAIN Frequencies \ {id} : Frequencies'[t] = Frequencies[t]
      /\ Frequencies'[id] = IF id \in DOMAIN Frequencies THEN Frequencies[id] + 1 ELSE 1
  <2>1. CASE id \in DOMAIN Frequencies
    BY <1>1, <2>1 DEF BagAdd
  <2>2. CASE id \notin DOMAIN Frequencies
    BY <1>1, <2>2 DEF BagAdd
  <2> QED BY <2>1, <2>2
<1>5. ASSUME NEW t \in DOMAIN Frequencies' PROVE Frequencies'[t] = CountIn(new, t)
  <2>1. CASE t = id /\ id \in DOMAIN Frequencies
    BY <1>2, <1>3, <1>4, <2>1
  <2>2. CASE t = id /\ id \notin DOMAIN Frequencies
    BY <1>2, <1>3, <1>4, <2>2
  <2>3. CASE t # id
    BY <1>2, <1>3, <1>4, <2>3
  <2> QED BY <2>1, <2>2, <2>3
<1> QED BY <1>2, <1>3, <1>4, <1>5 DEF CountsAreLogged

(* A look-up numbers the event's template and renumbers none.              *)
LEMMA LookUpGrows ==
  ASSUME EngineInv, LogInv, NEW e \in Event, LookUp(e.str), NEW new, new = Append(log, e),
         NEW renumbered, renumbered = template_index'
  PROVE  /\ Grown(log, template_index, new, renumbered, e)
         /\ InternalIdFor(e.str) = IdAt(renumbered, new, Len(new))
<1> DEFINE id == IdOf[e.str]
<1>1. CacheIsCoherent /\ DOMAIN template_index = DOMAIN buckets /\ log \in Seq(Event)
  BY DEF EngineInv, VocabularyInv, BucketsInv, LogInv
<1>2. \A i \in DOMAIN log : Id(log[i]) \in DOMAIN template_index
  BY <1>1 DEF LogInv, CountsAreLogged, Frequencies, IdsIn
<1>3. /\ DOMAIN log = 1..Len(log) /\ Len(log) \in Nat /\ Len(new) = Len(log) + 1
      /\ new[Len(new)] = e /\ \A i \in DOMAIN log : new[i] = log[i]
  BY <1>1, AppendProperties
<1>4. /\ \A t \in DOMAIN template_index : renumbered[t] = template_index[t]
      /\ renumbered[id] = InternalIdFor(e.str)
  <2>1. CASE e.str \in DOMAIN template_str_cache \/ id \in DOMAIN template_index
    <3>1. template_index' = template_index
      BY <2>1 DEF LookUp
    <3>2. CASE e.str \in DOMAIN template_str_cache
      BY <1>1, <3>1, <3>2 DEF InternalIdFor, CacheIsCoherent
    <3>3. CASE e.str \notin DOMAIN template_str_cache
      BY <2>1, <3>1, <3>3 DEF InternalIdFor
    <3> QED BY <3>1, <3>2, <3>3
  <2>2. CASE ~(e.str \in DOMAIN template_str_cache \/ id \in DOMAIN template_index)
    BY <2>2 DEF LookUp, Extend, InternalIdFor
  <2> QED BY <2>1, <2>2
<1>5. \A i \in DOMAIN log : IdAt(renumbered, new, i) = IdAt(template_index, log, i)
  BY <1>2, <1>3, <1>4 DEF IdAt
<1>6. IdAt(renumbered, new, Len(new)) = renumbered[id]
  BY <1>3 DEF IdAt, Id
<1> QED BY <1>1, <1>4, <1>5, <1>6 DEF Grown

LEMMA TableIsLogged ==
  ASSUME NEW ring, NEW id, A!AccountNgram(ring, id), NEW events, NEW index,
         IsFiniteSet(DOMAIN ngram_counts),
         \A gram \in DOMAIN ngram_counts : Formed(events, index, gram),
         A!Forms(ring) => Formed(events, index, A!NGramOf(ring, id))
  PROVE  /\ IsFiniteSet(DOMAIN ngram_counts')
         /\ \A gram \in DOMAIN ngram_counts' : Formed(events, index, gram)
<1>1. CASE A!Forms(ring)
  <2> DEFINE gram == A!NGramOf(ring, id)
  <2>1. A!CountNgram(gram)
    BY <1>1 DEF A!AccountNgram
  <2> HIDE DEF gram
  <2>2. DOMAIN ngram_counts' \subseteq DOMAIN ngram_counts \cup {gram}
    BY <2>1 DEF A!CountNgram, A!BagAdd
  <2>3. IsFiniteSet(DOMAIN ngram_counts')
    BY <2>2, CountOneMore, FS_Subset
  <2> QED BY <1>1, <2>2, <2>3 DEF gram
<1>2. CASE ~A!Forms(ring)
  BY <1>2 DEF A!AccountNgram, A!table
<1> QED BY <1>1, <1>2

LEMMA SpanPlacesStay ==
  ASSUME NEW events, NEW index, NEW new, NEW renumbered, NEW e,
         Grown(events, index, new, renumbered, e), NEW key, NEW number
  PROVE  /\ SpanAt(events, index, key, number) => SpanAt(new, renumbered, key, number)
         /\ ChildAt(events, index, key, number) => ChildAt(new, renumbered, key, number)
<1>1. \A i \in DOMAIN events :
        i \in DOMAIN new /\ new[i] = events[i] /\ IdAt(renumbered, new, i) = IdAt(index, events, i)
  BY GrownPlaces DEF Grown
<1> QED BY <1>1 DEF SpanAt, ChildAt

(* A record that is not a span enters the ring of its stream.              *)
LEMMA ObserveIsLogged ==
  ASSUME A!AdjacencyTypeOK, AdjacencyIsLogged(log, template_index),
         NEW new, NEW renumbered, NEW e \in Event, Grown(log, template_index, new, renumbered, e),
         e.span = NoSpan, NEW id, id = IdAt(renumbered, new, Len(new)), A!Observe(e.trace, id)
  PROVE  AdjacencyIsLogged(new, renumbered)'
<1>1. /\ Recalls(log, template_index, NoTrace, global_ring)
      /\ \A t \in DOMAIN trace_rings : Recalls(log, template_index, t, trace_rings[t])
      /\ DOMAIN trace_rings \subseteq TraceId
      /\ e.trace \in TraceId \cup {NoTrace}
      /\ NoTrace \notin TraceId
  BY EngineAssumption DEF AdjacencyIsLogged, A!AdjacencyTypeOK, Event
<1>2. /\ IsFiniteSet(DOMAIN ngram_counts)
      /\ \A gram \in DOMAIN ngram_counts : Formed(new, renumbered, gram)
  BY FormedStays DEF AdjacencyIsLogged
<1>3. CASE TraceScoping /\ e.trace # NoTrace
  <2> DEFINE t == e.trace
             ring == A!RingFor(t)
             kept == (DOMAIN trace_rings \ A!Evicted(t)) \cup {t}
  <2>1. A!ObserveInTrace(t, id) /\ InStream(e, t) /\ t \in TraceId
    BY <1>1, <1>3 DEF A!Observe, InStream
  <2>2. Recalls(log, template_index, t, ring)
    BY <1>1 DEF A!RingFor, Recalls
  <2>3. A!AccountNgram(ring, id)
    BY <2>1 DEF A!ObserveInTrace
  <2>4. trace_rings' = [u \in kept |-> IF u = t THEN A!Shift(ring, id) ELSE trace_rings[u]]
        /\ global_ring' = global_ring
    BY <2>1 DEF A!ObserveInTrace
  <2>5. kept \subseteq TraceId /\ kept \ {t} \subseteq DOMAIN trace_rings
    BY <1>1, <2>1
  <2>6. \A u \in TraceId \cup {NoTrace} : u # t => ~InStream(e, u)
    BY <1>3 DEF InStream
  <2> HIDE DEF ring, kept, t
  <2>7. /\ Recalls(new, renumbered, t, A!Shift(ring, id))
        /\ A!Forms(ring) => Formed(new, renumbered, A!NGramOf(ring, id))
    BY <2>1, <2>2, ShiftRecalls
  <2>8. /\ IsFiniteSet(DOMAIN ngram_counts')
       /\ \A gram \in DOMAIN ngram_counts' : Formed(new, renumbered, gram)
    BY <1>2, <2>3, <2>7, TableIsLogged
  <2>9. Recalls(new, renumbered, NoTrace, global_ring')
    BY <1>1, <2>1, <2>4, <2>6, RecallsStays
  <2>10. ASSUME NEW u \in DOMAIN trace_rings' PROVE Recalls(new, renumbered, u, trace_rings'[u])
    <3>1. CASE u = t
      BY <2>4, <2>7, <3>1
    <3>2. CASE u # t
      <4>1. u \in DOMAIN trace_rings /\ u \in TraceId /\ trace_rings'[u] = trace_rings[u]
        BY <2>4, <2>5, <3>2
      <4>2. ~InStream(e, u) /\ Recalls(log, template_index, u, trace_rings[u])
        BY <1>1, <2>6, <3>2, <4>1
      <4> QED BY <4>1, <4>2, RecallsStays
    <3> QED BY <3>1, <3>2
  <2> QED BY <2>8, <2>9, <2>10 DEF AdjacencyIsLogged
<1>4. CASE ~(TraceScoping /\ e.trace # NoTrace)
  <2>1. A!ObserveGlobally(id) /\ InStream(e, NoTrace)
    BY <1>4 DEF A!Observe, InStream
  <2>2. \A u \in TraceId : ~InStream(e, u)
    BY <1>1, <1>4 DEF InStream
  <2>3. /\ A!AccountNgram(global_ring, id)
        /\ global_ring' = A!Shift(global_ring, id) /\ trace_rings' = trace_rings
    BY <2>1 DEF A!ObserveGlobally
  <2>4. /\ Recalls(new, renumbered, NoTrace, A!Shift(global_ring, id))
        /\ A!Forms(global_ring) => Formed(new, renumbered, A!NGramOf(global_ring, id))
    BY <1>1, <2>1, ShiftRecalls
  <2>5. /\ IsFiniteSet(DOMAIN ngram_counts')
       /\ \A gram \in DOMAIN ngram_counts' : Formed(new, renumbered, gram)
    BY <1>2, <2>3, <2>4, TableIsLogged
  <2>6. \A u \in DOMAIN trace_rings : Recalls(new, renumbered, u, trace_rings[u])
    BY <1>1, <2>2, RecallsStays
  <2> QED BY <2>3, <2>4, <2>5, <2>6 DEF AdjacencyIsLogged
<1> QED BY <1>3, <1>4

(* Tables that do not move are logged as before.                           *)
LEMMA StillLogged ==
  ASSUME NEW new, NEW renumbered, NEW e, Grown(log, template_index, new, renumbered, e)
  PROVE  /\ (/\ AdjacencyIsLogged(log, template_index) /\ e.span # NoSpan
             /\ UNCHANGED <<global_ring, trace_rings, ngram_counts>>)
              => AdjacencyIsLogged(new, renumbered)'
         /\ (/\ SpansAreLogged(log, template_index)
             /\ UNCHANGED <<span_templates, pending_span_edges>>)
              => SpansAreLogged(new, renumbered)'
<1>1. ASSUME AdjacencyIsLogged(log, template_index), e.span # NoSpan,
             UNCHANGED <<global_ring, trace_rings, ngram_counts>>
      PROVE  AdjacencyIsLogged(new, renumbered)'
  <2>1. \A stream : ~InStream(e, stream)
    BY <1>1 DEF InStream
  <2>2. Recalls(new, renumbered, NoTrace, global_ring)
    BY <1>1, <2>1, RecallsStays DEF AdjacencyIsLogged
  <2>3. \A t \in DOMAIN trace_rings : Recalls(new, renumbered, t, trace_rings[t])
    BY <1>1, <2>1, RecallsStays DEF AdjacencyIsLogged
  <2>4. \A gram \in DOMAIN ngram_counts : Formed(new, renumbered, gram)
    BY <1>1, FormedStays DEF AdjacencyIsLogged
  <2> QED BY <1>1, <2>2, <2>3, <2>4 DEF AdjacencyIsLogged
<1>2. ASSUME SpansAreLogged(log, template_index),
             UNCHANGED <<span_templates, pending_span_edges>>
      PROVE  SpansAreLogged(new, renumbered)'
  BY <1>2, SpanPlacesStay DEF SpansAreLogged
<1> QED BY <1>1, <1>2

(* A span record is held and queues its reference, if it has one.          *)
LEMMA SpanIsLogged ==
  ASSUME S!SpanTypeOK, SpansAreLogged(log, template_index),
         NEW new, NEW renumbered, NEW e \in Event, Grown(log, template_index, new, renumbered, e),
         e.span # NoSpan, NEW id, id = IdAt(renumbered, new, Len(new)),
         S!RecordSpan([span |-> e.span, parent |-> e.parent, links |-> e.links,
                       template |-> id, component |-> e.component])
  PROVE  SpansAreLogged(new, renumbered)'
<1> DEFINE node == [template |-> id, component |-> e.component]
           edge == [child |-> id, parent |-> e.parent, component |-> e.component]
           kept == (DOMAIN span_templates \ S!EvictedSpan(e.span)) \cup {e.span}
<1>1. /\ S!HoldSpan(e.span, node)
      /\ pending_span_edges' = IF e.parent = NoSpan THEN pending_span_edges
                               ELSE Append(pending_span_edges, edge)
  BY DEF S!RecordSpan
<1>2. pending_span_edges \in Seq(S!PendingSpanEdge)
  BY DEF S!SpanTypeOK
<1>3. /\ \A s, number : SpanAt(log, template_index, s, number) => SpanAt(new, renumbered, s, number)
      /\ \A parent, number :
           ChildAt(log, template_index, parent, number) => ChildAt(new, renumbered, parent, number)
      /\ SpanAt(new, renumbered, e.span, id)
      /\ ChildAt(new, renumbered, e.parent, id)
  <2>1. Len(new) \in DOMAIN new /\ new[Len(new)] = e
    BY GrownPlaces
  <2>2. SpanAt(new, renumbered, e.span, id) /\ ChildAt(new, renumbered, e.parent, id)
    BY <2>1 DEF SpanAt, ChildAt
  <2> QED BY <2>2, SpanPlacesStay
<1>4. ASSUME NEW s \in DOMAIN span_templates'
      PROVE  SpanAt(new, renumbered, s, span_templates'[s].template)
  <2>1. CASE e.span \in DOMAIN span_templates
    BY <1>1, <1>3, <2>1 DEF S!HoldSpan, SpansAreLogged
  <2>2. CASE e.span \notin DOMAIN span_templates
    <3>1. span_templates' = [u \in kept |-> IF u = e.span THEN node ELSE span_templates[u]]
      BY <1>1, <2>2 DEF S!HoldSpan
    <3>2. CASE s = e.span
      BY <1>3, <3>1, <3>2
    <3>3. CASE s # e.span
      BY <1>3, <3>1, <3>3 DEF SpansAreLogged
    <3> QED BY <3>2, <3>3
  <2> QED BY <2>1, <2>2
<1> HIDE DEF node, kept
<1>5. ASSUME NEW i \in DOMAIN pending_span_edges'
      PROVE  ChildAt(new, renumbered, pending_span_edges'[i].parent, pending_span_edges'[i].child)
  <2>1. \A k \in DOMAIN pending_span_edges :
          ChildAt(new, renumbered, pending_span_edges[k].parent, pending_span_edges[k].child)
    BY <1>3 DEF SpansAreLogged
  <2>2. CASE e.parent = NoSpan
    BY <1>1, <2>1, <2>2
  <2>3. CASE e.parent # NoSpan
    <3>1. edge.parent = e.parent /\ edge.child = id
      OBVIOUS
    <3> HIDE DEF edge
    <3>2. \/ i \in DOMAIN pending_span_edges /\ pending_span_edges'[i] = pending_span_edges[i]
          \/ pending_span_edges'[i] = edge
      BY <1>1, <1>2, <2>3, AppendProperties
    <3> QED BY <1>3, <2>1, <3>1, <3>2
  <2> QED BY <2>2, <2>3
<1> QED BY <1>4, <1>5 DEF SpansAreLogged

(* An event accepted is logged in every table it enters.                   *)
LEMMA IngestKeepsLog ==
  ASSUME EngineInv, TypeInv, LogInv, NEW e \in Event, NEW admit \in BOOLEAN,
         IngestEvent(e, admit), log' = Append(log, e)
  PROVE  LogInv'
<1>1. PICK new : new = Append(log, e)
  OBVIOUS
<1>2. PICK renumbered : renumbered = template_index'
  OBVIOUS
<1>3. PICK id : id = InternalIdFor(e.str)
  OBVIOUS
<1>4. LookUp(e.str) /\ IngestLookedUpEvent(e)
  BY DEF IngestEvent
<1>5. /\ Grown(log, template_index, new, renumbered, e)
      /\ id = IdAt(renumbered, new, Len(new))
  BY <1>1, <1>2, <1>3, <1>4, LookUpGrows
<1>6. CountsAreLogged(new)'
  BY <1>1, <1>4, IngestCountsTheLog
<1>7. Topology(e, id)
  BY <1>3, <1>4 DEF IngestLookedUpEvent
<1>8. AdjacencyIsLogged(new, renumbered)' /\ SpansAreLogged(new, renumbered)'
  <2>1. /\ A!AdjacencyTypeOK /\ S!SpanTypeOK
        /\ AdjacencyIsLogged(log, template_index) /\ SpansAreLogged(log, template_index)
    BY DEF TypeInv, LogInv
  <2>2. CASE e.span # NoSpan
    <3>1. /\ S!RecordSpan([span |-> e.span, parent |-> e.parent, links |-> e.links,
                           template |-> id, component |-> e.component])
          /\ UNCHANGED <<global_ring, trace_rings, ngram_counts>>
      BY <1>7, <2>2 DEF Topology, adjacencyVars
    <3> QED BY <1>5, <2>1, <2>2, <3>1, StillLogged, SpanIsLogged
  <2>3. CASE e.span = NoSpan
    <3>1. A!Observe(e.trace, id) /\ UNCHANGED <<span_templates, pending_span_edges>>
      BY <1>7, <2>3 DEF Topology, spanVars
    <3> QED BY <1>5, <2>1, <2>3, <3>1, StillLogged, ObserveIsLogged
  <2> QED BY <2>2, <2>3
<1>9. log' \in Seq(Event)
  BY AppendProperties DEF LogInv
<1>10. CountsAreLogged(log)'
  BY <1>1, <1>6 DEF CountsAreLogged
<1>11. AdjacencyIsLogged(log, template_index)'
  BY <1>1, <1>2, <1>8 DEF AdjacencyIsLogged
<1>12. SpansAreLogged(log, template_index)'
  BY <1>1, <1>2, <1>8 DEF SpansAreLogged
<1> QED BY <1>9, <1>10, <1>11, <1>12 DEF LogInv

LEMMA EmptyLog ==
  /\ buckets = << >> /\ log = << >> /\ A!AdjacencyInit /\ S!SpanInit
  => LogInv
<1> SUFFICES ASSUME buckets = << >>, log = << >>, A!AdjacencyInit, S!SpanInit PROVE LogInv
  OBVIOUS
<1>1. CountsAreLogged(log)
  BY DEF CountsAreLogged, Frequencies, IdsIn
<1>2. AdjacencyIsLogged(log, template_index)
  BY EmptyCount DEF AdjacencyIsLogged, Recalls, A!AdjacencyInit
<1>3. SpansAreLogged(log, template_index)
  BY DEF SpansAreLogged, S!SpanInit
<1> QED BY <1>1, <1>2, <1>3 DEF LogInv

LEMMA NextKeepsLog ==
  ASSUME EngineInv, TypeInv, LogInv, [Next]_allVars PROVE LogInv'
<1>1. ASSUME UNCHANGED <<engineVars, log>> PROVE LogInv'
  BY <1>1 DEF engineVars, vocabularyVars, adjacencyVars, spanVars, windowVars, LogInv,
              CountsAreLogged, AdjacencyIsLogged, SpansAreLogged, Frequencies
<1>2. ASSUME NEW e \in Events, NEW admit \in BOOLEAN, Ingest(e, admit) \/ Refuse(e, admit)
      PROVE  LogInv'
  <2>1. e \in Event
    BY HistoryAssumption
  <2>2. CASE Ingest(e, admit)
    BY <2>1, <2>2, IngestKeepsLog DEF Ingest
  <2>3. CASE Refuse(e, admit)
    BY <1>1, <2>3 DEF Refuse, RefuseEvent
  <2> QED BY <1>2, <2>2, <2>3
<1>3. ASSUME ResetWindowState, log' = << >> PROVE LogInv'
  <2>1. (buckets = << >> /\ log = << >> /\ A!AdjacencyInit /\ S!SpanInit)'
    BY <1>3 DEF ResetWindowState, A!ResetAdjacency, A!AdjacencyInit, S!ResetSpans, S!SpanInit
  <2> QED BY <2>1, EmptyLog, PTL
<1>4. CASE Call
  <2>1. log' = IF answer'.kind = "logic_error" THEN log ELSE << >>
    BY <1>4 DEF Call
  <2>2. ASSUME NEW start \in Time, OpenWindow(start) PROVE LogInv'
    BY <1>3, <2>1, <2>2 DEF OpenWindow, Nothing
  <2>3. ASSUME NEW end \in Time, NEW reported \in Reports, CloseWindow(end, reported)
        PROVE  LogInv'
    BY <1>3, <2>1, <2>3 DEF CloseWindow
  <2>4. CASE DiscardWindow
    BY <1>3, <2>1, <2>4 DEF DiscardWindow, Nothing
  <2>5. CASE Misuse
    BY <1>1, <2>1, <2>5 DEF Misuse, LogicError
  <2> QED BY <1>4, <2>2, <2>3, <2>4, <2>5 DEF Call, Lifecycle
<1>5. CASE UNCHANGED allVars
  BY <1>1, <1>5 DEF allVars, vars, historyVars
<1> QED BY <1>2, <1>4, <1>5 DEF Next

(* The templates render a number as the id it was given to.                *)
LEMMA NumbersRender ==
  ASSUME EngineInv
  PROVE  \A t \in DOMAIN template_index :
           /\ template_index[t] \in 0..(Len(templates) - 1)
           /\ templates[template_index[t] + 1] = t
<1> SUFFICES ASSUME NEW t \in DOMAIN template_index
             PROVE  /\ template_index[t] \in 0..(Len(templates) - 1)
                    /\ templates[template_index[t] + 1] = t
  OBVIOUS
<1>1. IndexIsABijection /\ Len(templates) \in Nat
  BY DEF EngineInv, VocabularyInv, VocabularyTypeOK
<1>2. PICK i \in 1..Len(templates) : t = templates[i] /\ template_index[t] = i - 1
  BY <1>1 DEF IndexIsABijection
<1>3. template_index[t] + 1 = i /\ i - 1 \in 0..(Len(templates) - 1)
  BY <1>1, <1>2
<1> QED BY <1>2, <1>3

LEMMA PlacesRender ==
  ASSUME EngineInv, LogInv, NEW i \in DOMAIN log
  PROVE  /\ IdAt(template_index, log, i) \in 0..(Len(templates) - 1)
         /\ templates[IdAt(template_index, log, i) + 1] = Id(log[i])
         /\ Id(log[i]) \in IdsIn(log)
<1>1. Id(log[i]) \in IdsIn(log) /\ IdsIn(log) = DOMAIN template_index
  BY DEF IdsIn, LogInv, CountsAreLogged, Frequencies, EngineInv, BucketsInv
<1> QED BY <1>1, NumbersRender DEF IdAt

(* A counted n-gram, rendered, was logged; so was the edge it opens with.  *)
LEMMA GramIsObserved ==
  ASSUME EngineInv, TypeInv, LogInv, NEW gram \in DOMAIN ngram_counts
  PROVE  /\ Observed(log, Rendered(gram, templates))
         /\ Observed(log, <<templates[gram[1] + 1], templates[gram[2] + 1]>>)
         /\ templates[gram[2] + 1] \in IdsIn(log)
<1>1. gram \in [1..NgramSize -> Nat] /\ NgramSize \in {2, 3}
  BY EngineAssumption DEF TypeInv, A!AdjacencyTypeOK, A!NGram
<1>2. PICK stream \in TraceId \cup {NoTrace}, at \in [1..NgramSize -> DOMAIN log] :
        /\ \A j \in 1..NgramSize : gram[j] = IdAt(template_index, log, at[j])
        /\ \A j \in 1..(NgramSize - 1) : Adjoin(log, stream, at[j], at[j + 1])
  BY DEF LogInv, AdjacencyIsLogged, Formed
<1>3. \A j \in 1..NgramSize : templates[gram[j] + 1] = Id(log[at[j]]) /\ Id(log[at[j]]) \in IdsIn(log)
  BY <1>2, PlacesRender
<1>4. Observed(log, Rendered(gram, templates))
  <2> DEFINE shown == Rendered(gram, templates)
  <2>1. DOMAIN shown = 1..NgramSize /\ Len(shown) = NgramSize
    BY <1>1 DEF Rendered
  <2>2. \A j \in DOMAIN shown : shown[j] = Id(log[at[j]])
    BY <1>1, <1>3 DEF Rendered
  <2> HIDE DEF shown
  <2>3. at \in [DOMAIN shown -> DOMAIN log]
    BY <2>1
  <2>4. \A j \in 1..(Len(shown) - 1) : Adjoin(log, stream, at[j], at[j + 1])
    BY <1>2, <2>1
  <2>5. Observed(log, shown)
    BY <2>2, <2>3, <2>4 DEF Observed
  <2> QED BY <2>5 DEF shown
<1>5. Observed(log, <<templates[gram[1] + 1], templates[gram[2] + 1]>>)
  <2> DEFINE shown == <<templates[gram[1] + 1], templates[gram[2] + 1]>>
             places == [j \in 1..2 |-> at[j]]
  <2>1. 1 \in 1..NgramSize /\ 2 \in 1..NgramSize /\ 1 \in 1..(NgramSize - 1)
    BY <1>1
  <2>2. DOMAIN shown = 1..2 /\ Len(shown) = 2
    OBVIOUS
  <2>3. \A j \in DOMAIN shown : shown[j] = Id(log[places[j]])
    BY <1>3, <2>1
  <2>4. places \in [DOMAIN shown -> DOMAIN log]
    BY <2>1, <2>2
  <2>5. \A j \in 1..(Len(shown) - 1) : Adjoin(log, stream, places[j], places[j + 1])
    <3>1. Adjoin(log, stream, at[1], at[2])
      BY <1>2, <2>1
    <3> QED BY <2>2, <3>1
  <2> HIDE DEF shown, places
  <2>6. Observed(log, shown)
    BY <2>3, <2>4, <2>5 DEF Observed
  <2> QED BY <2>6 DEF shown
<1>6. templates[gram[2] + 1] \in IdsIn(log)
  <2>1. 2 \in 1..NgramSize
    BY <1>1
  <2> QED BY <1>3, <2>1
<1> QED BY <1>4, <1>5, <1>6

(* The counts of the window by internal id, as close_window gathers them.  *)
CountsByNumber ==
  [i \in {template_index[t] : t \in DOMAIN buckets} |-> buckets[TemplateAt(i)].count]

(* What the dominant path visits was logged, and what it follows too.      *)
LEMMA PathIsObserved ==
  ASSUME EngineInv, TypeInv, LogInv
  PROVE  LET path == DominantPath(Transitions(ngram_counts), CountsByNumber)
             shown == [i \in DOMAIN path |-> templates[path[i] + 1]]
         IN  /\ Range(shown) \subseteq IdsIn(log)
             /\ \A i \in 1..(Len(shown) - 1) : Observed(log, SubSeq(shown, i, i + 1))
<1> DEFINE graph == Transitions(ngram_counts)
           counts == CountsByNumber
           path == DominantPath(graph, counts)
           shown == [i \in DOMAIN path |-> templates[path[i] + 1]]
<1>1. path = PathInOrder(graph, counts, AnyOrder(graph))
  BY DEF DominantPath
<1>2. CASE DominantPathMaxSteps = 0 \/ DOMAIN counts = {}
  <2>1. path = << >>
    BY <1>1, <1>2 DEF PathInOrder
  <2> HIDE DEF path
  <2>2. shown = << >>
    BY <2>1
  <2> HIDE DEF shown
  <2>3. Range(shown) = {} /\ Len(shown) = 0
    BY <2>2 DEF Range
  <2> QED BY <2>3 DEF shown, path
<1>3. CASE DominantPathMaxSteps # 0 /\ DOMAIN counts # {}
  <2>1. AreGrams(ngram_counts)
    <3>1. NgramSize \in {2, 3} /\ IsFiniteSet(DOMAIN ngram_counts)
      BY EngineAssumption DEF LogInv, AdjacencyIsLogged
    <3>2. ASSUME NEW gram \in DOMAIN ngram_counts
          PROVE  gram[1] \in Nat /\ gram[2] \in Nat /\ ngram_counts[gram] \in Nat \ {0}
      <4>1. gram \in [1..NgramSize -> Nat] /\ ngram_counts[gram] \in Nat \ {0}
        BY DEF TypeInv, A!AdjacencyTypeOK, A!NGram
      <4> QED BY <3>1, <4>1
    <3> QED BY <3>1, <3>2 DEF AreGrams
  <2>2. IsGraph(graph) /\ DOMAIN graph = Edges(ngram_counts)
    BY <2>1, TransitionsAreAGraph
  <2> HIDE DEF graph, path
  <2>3. Walks(AnyOrder(graph), graph)
    BY <2>2, EveryOrderWalks
  <2>4. DOMAIN counts = {template_index[t] : t \in DOMAIN buckets} /\ DOMAIN buckets = DOMAIN template_index
    BY DEF CountsByNumber, EngineInv, BucketsInv
  <2>5. \A k \in DOMAIN counts : k \in Nat /\ templates[k + 1] \in IdsIn(log) /\ counts[k] \in Nat
    <3> SUFFICES ASSUME NEW t \in DOMAIN buckets
                 PROVE  /\ template_index[t] \in Nat
                        /\ templates[template_index[t] + 1] \in IdsIn(log)
                        /\ counts[template_index[t]] \in Nat
      BY <2>4
    <3>1. template_index[t] \in Nat /\ templates[template_index[t] + 1] = t
      BY <2>4, NumbersRender
    <3>2. t \in IdsIn(log) /\ buckets[t].count \in Nat
      BY DEF LogInv, CountsAreLogged, Frequencies, EngineInv, BucketsInv, AreBuckets
    <3>3. counts[template_index[t]] = buckets[t].count
      BY <3>1 DEF CountsByNumber, TemplateAt
    <3> QED BY <3>1, <3>2, <3>3
  <2>6. IsFiniteSet(DOMAIN counts)
    <3>1. IsFiniteSet(DOMAIN buckets)
      BY DEF EngineInv, BucketsInv, AreBuckets
    <3>2. IsFiniteSet({template_index[t] : t \in DOMAIN buckets})
      BY <3>1, ImageCount
    <3> QED BY <2>4, <3>2
  <2> HIDE DEF counts
  <2>7. IsCounts(counts)
    BY <1>3, <2>5, <2>6 DEF IsCounts
  <2>8. IsGreedy(graph, counts, path)
    BY <1>1, <1>3, <2>2, <2>3, <2>7, PathIsGreedy
  <2>9. /\ path \in Seq(Nat) /\ path[1] \in DOMAIN counts
        /\ \A i \in 1..(Len(path) - 1) : <<path[i], path[i + 1]>> \in Edges(ngram_counts)
    BY <2>2, <2>7, <2>8, BusiestIsBusiest DEF IsGreedy, Paths
  <2>10. Len(path) \in Nat /\ DOMAIN path = 1..Len(path) /\ DOMAIN shown = 1..Len(path)
    BY <2>9
  <2>11. ASSUME NEW i \in 1..(Len(path) - 1)
         PROVE  Observed(log, <<shown[i], shown[i + 1]>>) /\ shown[i + 1] \in IdsIn(log)
    <3>1. PICK gram \in DOMAIN ngram_counts : <<path[i], path[i + 1]>> = <<gram[1], gram[2]>>
      BY <2>9 DEF Edges
    <3>2. i \in DOMAIN path /\ i + 1 \in DOMAIN path
      BY <2>10
    <3>3. shown[i] = templates[gram[1] + 1] /\ shown[i + 1] = templates[gram[2] + 1]
      BY <3>1, <3>2
    <3> HIDE DEF shown
    <3> QED BY <3>3, GramIsObserved
  <2>12. \A i \in DOMAIN path : shown[i] \in IdsIn(log)
    <3> TAKE i \in DOMAIN path
    <3>1. CASE i = 1
      BY <2>5, <2>9, <3>1
    <3>2. CASE i # 1
      <4>1. i - 1 \in 1..(Len(path) - 1) /\ (i - 1) + 1 = i
        BY <2>10, <3>2
      <4> HIDE DEF shown
      <4> QED BY <2>11, <4>1
    <3> QED BY <3>1, <3>2
  <2>13. shown \in Seq(IdsIn(log)) /\ Len(shown) = Len(path)
    BY <2>10, <2>12
  <2> HIDE DEF shown
  <2>14. \A i \in 1..(Len(shown) - 1) : Observed(log, SubSeq(shown, i, i + 1))
    BY <2>11, <2>13, TwoOfASeq
  <2>15. Range(shown) \subseteq IdsIn(log)
    BY <2>10, <2>12, <2>13 DEF Range
  <2> QED BY <2>14, <2>15 DEF shown, path, counts, graph
<1> QED BY <1>2, <1>3

-----------------------------------------------------------------------------
(* The edges close resolves *)

LEMMA SpanMaxIsMax == ASSUME NEW s PROVE S!Max(s) = Max(s)
BY DEF S!Max, Max

LEMMA SpanAdd == ASSUME NEW bag, NEW x PROVE S!BagAdd(bag, x) = BagAdd(bag, x)
BY DEF S!BagAdd, BagAdd

(* Resolutions whose edges are among some pairs.                           *)
EdgesAmong(pairs) ==
  [edges : BagsOver(pairs), refused : Nat, services : BagsOver(S!AnyComponent \X S!AnyComponent),
   orphan_parents : Nat, orphan_links : Nat]

LEMMA CountersStayAmong ==
  ASSUME NEW pairs, NEW res \in EdgesAmong(pairs)
  PROVE  /\ [res EXCEPT !.refused = @ + 1] \in EdgesAmong(pairs)
         /\ [res EXCEPT !.orphan_parents = @ + 1] \in EdgesAmong(pairs)
         /\ [res EXCEPT !.orphan_links = @ + 1] \in EdgesAmong(pairs)
<1> DEFINE edges == BagsOver(pairs)
           services == BagsOver(S!AnyComponent \X S!AnyComponent)
<1>2. res \in [edges : edges, refused : Nat, services : services,
              orphan_parents : Nat, orphan_links : Nat]
  BY DEF EdgesAmong
<1> HIDE DEF edges, services
<1>3. /\ [res EXCEPT !.refused = @ + 1]
           \in [edges : edges, refused : Nat, services : services,
               orphan_parents : Nat, orphan_links : Nat]
      /\ [res EXCEPT !.orphan_parents = @ + 1]
           \in [edges : edges, refused : Nat, services : services,
               orphan_parents : Nat, orphan_links : Nat]
      /\ [res EXCEPT !.orphan_links = @ + 1]
           \in [edges : edges, refused : Nat, services : services,
               orphan_parents : Nat, orphan_links : Nat]
  BY <1>2
<1> QED BY <1>3 DEF EdgesAmong, edges, services

(* The pairs the references queued may resolve to.                         *)
Reach(parents, pairs) ==
  \A i \in 1..Len(parents) :
    parents[i].parent \in DOMAIN span_templates =>
      <<span_templates[parents[i].parent].template, parents[i].child>> \in pairs

LEMMA ServiceStaysAmong ==
  ASSUME NEW pairs, NEW res \in EdgesAmong(pairs), NEW a \in S!AnyComponent, NEW b \in S!AnyComponent
  PROVE  S!AccountService(res, a, b) \in EdgesAmong(pairs)
<1>1. res.services \in BagsOver(S!AnyComponent \X S!AnyComponent)
  BY DEF EdgesAmong
<1>2. S!BagAdd(res.services, <<a, b>>) \in BagsOver(S!AnyComponent \X S!AnyComponent)
  BY <1>1, SpanAdd, BagAddType
<1>3. CASE a # NoComponent /\ b # NoComponent /\ a # b
  <2>1. S!AccountService(res, a, b) = [res EXCEPT !.services = S!BagAdd(res.services, <<a, b>>)]
    BY <1>3 DEF S!AccountService
  <2> QED BY <1>2, <2>1 DEF EdgesAmong
<1>4. CASE ~(a # NoComponent /\ b # NoComponent /\ a # b)
  BY <1>4 DEF S!AccountService
<1> QED BY <1>3, <1>4

LEMMA EdgeStaysAmong ==
  ASSUME NEW pairs, NEW res \in EdgesAmong(pairs), NEW edge \in pairs
  PROVE  S!AccountSpanEdge(res, edge) \in EdgesAmong(pairs)
<1>1. res.edges \in BagsOver(pairs) /\ res.refused \in Nat
  BY DEF EdgesAmong
<1>2. S!BagAdd(res.edges, edge) \in BagsOver(pairs)
  BY <1>1, SpanAdd, BagAddType
<1>3. \/ S!AccountSpanEdge(res, edge) = [res EXCEPT !.edges = S!BagAdd(res.edges, edge)]
      \/ S!AccountSpanEdge(res, edge) = [res EXCEPT !.refused = @ + 1]
  BY DEF S!AccountSpanEdge
<1>4. [res EXCEPT !.edges = S!BagAdd(res.edges, edge)] \in EdgesAmong(pairs)
  BY <1>2 DEF EdgesAmong
<1> QED BY <1>3, <1>4, CountersStayAmong

LEMMA ParentStaysAmong ==
  ASSUME S!SpanTypeOK, NEW pairs, NEW res \in EdgesAmong(pairs),
         NEW parents \in Seq(S!PendingSpanEdge), Reach(parents, pairs), NEW i \in 1..Len(parents)
  PROVE  S!ResolveParent(res, parents[i]) \in EdgesAmong(pairs)
<1> DEFINE pending == parents[i]
<1>1. pending \in S!PendingSpanEdge
  OBVIOUS
<1>2. pending.parent \in DOMAIN span_templates =>
        <<span_templates[pending.parent].template, pending.child>> \in pairs
  BY DEF Reach
<1> SUFFICES S!ResolveParent(res, pending) \in EdgesAmong(pairs)
  OBVIOUS
<1> HIDE DEF pending
<1>3. CASE pending.parent \notin DOMAIN span_templates
  BY <1>3, CountersStayAmong DEF S!ResolveParent
<1>4. CASE pending.parent \in DOMAIN span_templates
  <2> DEFINE parent == span_templates[pending.parent]
             mid == S!AccountSpanEdge(res, <<parent.template, pending.child>>)
  <2>1. parent.component \in S!AnyComponent /\ pending.component \in S!AnyComponent
    BY <1>1, <1>4 DEF S!SpanTypeOK, S!SpanNode, S!PendingSpanEdge
  <2>2. mid \in EdgesAmong(pairs)
    BY <1>2, <1>4, EdgeStaysAmong
  <2>3. S!ResolveParent(res, pending) = S!AccountService(mid, parent.component, pending.component)
    BY <1>4 DEF S!ResolveParent
  <2> HIDE DEF mid, parent
  <2> QED BY <2>1, <2>2, <2>3, ServiceStaysAmong
<1> QED BY <1>3, <1>4

LEMMA LinkStaysAmong ==
  ASSUME S!SpanTypeOK, NEW pairs, NEW res \in EdgesAmong(pairs), NEW pending \in S!PendingLinkEdge
  PROVE  S!ResolveLink(res, pending) \in EdgesAmong(pairs)
<1>1. CASE pending.linked \notin DOMAIN span_templates
  BY <1>1, CountersStayAmong DEF S!ResolveLink
<1>2. CASE pending.linked \in DOMAIN span_templates
  <2> DEFINE other == span_templates[pending.linked].component
  <2>1. other \in S!AnyComponent /\ pending.component \in S!AnyComponent
    BY <1>2 DEF S!SpanTypeOK, S!SpanNode, S!PendingLinkEdge
  <2>2. S!ResolveLink(res, pending) = S!AccountService(res, pending.component, other)
    BY <1>2 DEF S!ResolveLink
  <2> HIDE DEF other
  <2> QED BY <2>1, <2>2, ServiceStaysAmong
<1> QED BY <1>1, <1>2

LEMMA ParentsStayAmong ==
  ASSUME S!SpanTypeOK, NEW pairs, NEW base \in EdgesAmong(pairs),
         NEW parents \in Seq(S!PendingSpanEdge), Reach(parents, pairs)
  PROVE  S!FoldLeft(S!ResolveParent, base, parents) \in EdgesAmong(pairs)
<1> DEFINE n == Len(parents)
           D == DOMAIN parents
           Acc == EdgesAmong(pairs)
           Step(it, s) == IF s = {} THEN base
                          ELSE S!ResolveParent(it[s \ {S!Max(s)}], parents[S!Max(s)])
           IsIter(it) == it = [s \in SUBSET D |-> Step(it, s)]
           iter == CHOOSE it : IsIter(it)
           step == [p \in Acc \X (1..n) |-> S!ResolveParent(p[1], parents[p[2]])]
<1>1. D = 1..n /\ n \in Nat
  OBVIOUS
<1>2. S!FoldLeft(S!ResolveParent, base, parents) = iter[D]
  BY Zenon DEF S!FoldLeft, S!MapThenFoldSet
<1> HIDE DEF D, n
<1>3. step \in [Acc \X (1..n) -> Acc]
  <2>1. ASSUME NEW p \in Acc \X (1..n) PROVE S!ResolveParent(p[1], parents[p[2]]) \in Acc
    BY ParentStaysAmong DEF n
  <2> QED BY <2>1
<1> HIDE DEF step, Acc
<1>4. PICK it \in [SUBSET (1..n) -> Acc] : IsFold(it, step, base, n)
  BY <1>1, <1>3, FoldExists DEF Acc
<1>m. ASSUME NEW s \in SUBSET (1..n), s # {} PROVE S!Max(s) = Max(s) /\ Max(s) \in 1..n
  BY <1>1, <1>m, MaxOfPart, SpanMaxIsMax
<1>5. IsIter(it)
  <2>1. ASSUME NEW s \in SUBSET (1..n) PROVE it[s] = Step(it, s)
    <3>1. it[s \ {Max(s)}] \in Acc
      BY <1>4
    <3>2. it[s] = IF s = {} THEN base ELSE step[<<it[s \ {Max(s)}], Max(s)>>]
      BY <1>4 DEF IsFold
    <3> QED BY <1>m, <3>1, <3>2 DEF step
  <2> QED BY <1>1, <1>4, <2>1
<1>6. IsIter(iter)
  BY <1>5
<1> HIDE DEF iter
<1>7. iter[{}] = base
  BY <1>6
<1>8. ASSUME NEW s \in SUBSET (1..n), s # {}, iter[s \ {Max(s)}] \in Acc
      PROVE  iter[s] \in Acc
  <2>1. iter[s] = Step(iter, s) /\ iter[s] = step[<<iter[s \ {Max(s)}], Max(s)>>]
    BY <1>1, <1>6, <1>8, <1>m DEF step
  <2> QED BY <1>3, <1>8, <1>m, <2>1
<1> HIDE DEF Step, IsIter
<1>9. StaysIn(iter, n, Acc)
  BY <1>8 DEF StaysIn
<1>10. n \in Nat /\ iter[{}] \in Acc
  BY <1>1, <1>7 DEF Acc
<1>11. iter[1..n] \in Acc
  BY ONLY <1>9, <1>10, FoldStaysIn
<1> QED BY <1>1, <1>2, <1>11 DEF Acc

LEMMA LinksStayAmong ==
  ASSUME S!SpanTypeOK, NEW pairs, NEW base \in EdgesAmong(pairs),
         NEW links \in Seq(S!PendingLinkEdge)
  PROVE  S!FoldLeft(S!ResolveLink, base, links) \in EdgesAmong(pairs)
<1> DEFINE n == Len(links)
           D == DOMAIN links
           Acc == EdgesAmong(pairs)
           Step(it, s) == IF s = {} THEN base
                          ELSE S!ResolveLink(it[s \ {S!Max(s)}], links[S!Max(s)])
           IsIter(it) == it = [s \in SUBSET D |-> Step(it, s)]
           iter == CHOOSE it : IsIter(it)
           step == [p \in Acc \X (1..n) |-> S!ResolveLink(p[1], links[p[2]])]
<1>1. D = 1..n /\ n \in Nat /\ \A i \in 1..n : links[i] \in S!PendingLinkEdge
  OBVIOUS
<1>2. S!FoldLeft(S!ResolveLink, base, links) = iter[D]
  BY Zenon DEF S!FoldLeft, S!MapThenFoldSet
<1> HIDE DEF D, n
<1>3. step \in [Acc \X (1..n) -> Acc]
  <2>1. ASSUME NEW p \in Acc \X (1..n) PROVE S!ResolveLink(p[1], links[p[2]]) \in Acc
    BY <1>1, LinkStaysAmong
  <2> QED BY <2>1
<1> HIDE DEF step, Acc
<1>4. PICK it \in [SUBSET (1..n) -> Acc] : IsFold(it, step, base, n)
  BY <1>1, <1>3, FoldExists DEF Acc
<1>m. ASSUME NEW s \in SUBSET (1..n), s # {} PROVE S!Max(s) = Max(s) /\ Max(s) \in 1..n
  BY <1>1, <1>m, MaxOfPart, SpanMaxIsMax
<1>5. IsIter(it)
  <2>1. ASSUME NEW s \in SUBSET (1..n) PROVE it[s] = Step(it, s)
    <3>1. it[s \ {Max(s)}] \in Acc
      BY <1>4
    <3>2. it[s] = IF s = {} THEN base ELSE step[<<it[s \ {Max(s)}], Max(s)>>]
      BY <1>4 DEF IsFold
    <3> QED BY <1>m, <3>1, <3>2 DEF step
  <2> QED BY <1>1, <1>4, <2>1
<1>6. IsIter(iter)
  BY <1>5
<1> HIDE DEF iter
<1>7. iter[{}] = base
  BY <1>6
<1>8. ASSUME NEW s \in SUBSET (1..n), s # {}, iter[s \ {Max(s)}] \in Acc
      PROVE  iter[s] \in Acc
  <2>1. iter[s] = Step(iter, s) /\ iter[s] = step[<<iter[s \ {Max(s)}], Max(s)>>]
    BY <1>1, <1>6, <1>8, <1>m DEF step
  <2> QED BY <1>3, <1>8, <1>m, <2>1
<1> HIDE DEF Step, IsIter
<1>9. StaysIn(iter, n, Acc)
  BY <1>8 DEF StaysIn
<1>10. n \in Nat /\ iter[{}] \in Acc
  BY <1>1, <1>7 DEF Acc
<1>11. iter[1..n] \in Acc
  BY ONLY <1>9, <1>10, FoldStaysIn
<1> QED BY <1>1, <1>2, <1>11 DEF Acc

(* Every edge resolved joins a span held to the child of a reference to it.*)
LEMMA ResolvedEdges ==
  ASSUME S!SpanTypeOK, NEW pairs, Reach(pending_span_edges, pairs)
  PROVE  DOMAIN S!Resolved.edges \subseteq pairs
<1>1. /\ pending_span_edges \in Seq(S!PendingSpanEdge)
      /\ pending_link_edges \in Seq(S!PendingLinkEdge)
      /\ resolution = S!EmptyResolution
  BY DEF S!SpanTypeOK
<1>2. \A K : << >> \in BagsOver(K)
  <2> SUFFICES ASSUME NEW K PROVE << >> \in BagsOver(K)
    OBVIOUS
  <2>1. << >> \in [{} -> Nat]
    OBVIOUS
  <2> QED BY <2>1 DEF BagsOver
<1>3. resolution \in EdgesAmong(pairs)
  BY <1>1, <1>2 DEF EdgesAmong, S!EmptyResolution
<1>4. S!FoldLeft(S!ResolveParent, resolution, pending_span_edges) \in EdgesAmong(pairs)
  BY <1>1, <1>3, ParentsStayAmong
<1>5. S!Resolved \in EdgesAmong(pairs)
  BY <1>1, <1>4, LinksStayAmong DEF S!Resolved, S!ResolveIn
<1> QED BY <1>5 DEF EdgesAmong, BagsOver

-----------------------------------------------------------------------------
(* A document closed now is of the log *)

(* The numbers of two spans of the log, one the declared parent of other.  *)
LoggedPairs ==
  {q \in Nat \X Nat : \E i, j \in DOMAIN log :
     /\ log[i].span # NoSpan /\ log[j].span # NoSpan /\ log[j].parent = log[i].span
     /\ q = <<IdAt(template_index, log, i), IdAt(template_index, log, j)>>}

LEMMA ResolvedAreLogged ==
  ASSUME EngineInv, TypeInv, LogInv PROVE DOMAIN S!Resolved.edges \subseteq LoggedPairs
<1>1. S!SpanTypeOK /\ pending_span_edges \in Seq(S!PendingSpanEdge)
  BY DEF TypeInv, S!SpanTypeOK
<1>2. ASSUME NEW k \in 1..Len(pending_span_edges),
             pending_span_edges[k].parent \in DOMAIN span_templates
      PROVE  <<span_templates[pending_span_edges[k].parent].template, pending_span_edges[k].child>>
               \in LoggedPairs
  <2> DEFINE parent == pending_span_edges[k].parent
             number == span_templates[parent].template
             child == pending_span_edges[k].child
  <2>1. parent \in SpanId /\ parent # NoSpan
    BY <1>1, <1>2, EngineAssumption DEF S!SpanTypeOK
  <2>2. SpanAt(log, template_index, parent, number) /\ ChildAt(log, template_index, parent, child)
    BY <1>1, <1>2 DEF LogInv, SpansAreLogged
  <2> HIDE DEF parent, number, child
  <2>3. PICK i \in DOMAIN log : log[i].span = parent /\ IdAt(template_index, log, i) = number
    BY <2>2 DEF SpanAt
  <2>4. PICK j \in DOMAIN log : /\ log[j].span # NoSpan /\ log[j].parent = parent
                                /\ IdAt(template_index, log, j) = child
    BY <2>2 DEF ChildAt
  <2>5. number \in Nat /\ child \in Nat
    BY <2>3, <2>4, PlacesRender
  <2>6. <<number, child>> \in LoggedPairs
    BY <2>1, <2>3, <2>4, <2>5 DEF LoggedPairs
  <2> QED BY <2>6 DEF parent, number, child
<1>3. Reach(pending_span_edges, LoggedPairs)
  BY <1>2 DEF Reach
<1> QED BY <1>1, <1>3, ResolvedEdges

(* The edges of the block are those resolved, rendered.                    *)
LEMMA EdgesOfTheBlock ==
  ASSUME NEW res, NEW template_of, NEW block \in Range(S!SpanBlocks(res, template_of)),
         NEW edge \in DOMAIN block.span.edges
  PROVE  \E q \in DOMAIN res.edges : edge = <<template_of[q[1]], template_of[q[2]]>>
<1>1. block.span = S!SpanEdgeBlock(res, template_of)
  <2>1. span_records # 0
    BY DEF S!SpanBlocks, Range
  <2>2. block = [service |-> S!ServiceEdgeBlock(res.services), span |-> S!SpanEdgeBlock(res, template_of)]
    BY <2>1 DEF S!SpanBlocks, Range
  <2> QED BY <2>2
<1> DEFINE rendered == [e \in {<<template_of[p[1]], template_of[p[2]]>> : p \in DOMAIN res.edges} |->
                          S!MapThenSumSet(LAMBDA p : res.edges[p],
                            {p \in DOMAIN res.edges : <<template_of[p[1]], template_of[p[2]]>> = e})]
           top == S!TopByCount(rendered, SpanEdgesSize)
<1>2. S!SpanEdgeBlock(res, template_of) = [edges |-> S!Restrict(rendered, top), dropped |-> res.refused]
  BY DEF S!SpanEdgeBlock
<1>3. DOMAIN rendered = {<<template_of[p[1]], template_of[p[2]]>> : p \in DOMAIN res.edges}
  OBVIOUS
<1> HIDE DEF rendered
<1>4. top \subseteq DOMAIN rendered
  BY DEF S!TopByCount
<1> HIDE DEF top
<1>5. DOMAIN block.span.edges = top
  BY <1>1, <1>2 DEF S!Restrict
<1> QED BY <1>3, <1>4, <1>5

(* A document that speaks of the events of a log only.                     *)
IsOf(document, events) ==
  /\ \A t \in DOMAIN document.stats.top_k : document.stats.top_k[t].count = CountIn(events, t)
  /\ \A i \in DOMAIN document.stats.reservoir :
       document.stats.reservoir[i].row.count = CountIn(events, document.stats.reservoir[i].id)
  /\ \A b \in Range(document.behavior) :
       /\ \A n \in b.top_ngrams : Observed(events, n.sequence)
       /\ Range(b.dominant_path) \subseteq IdsIn(events)
       /\ \A i \in 1..(Len(b.dominant_path) - 1) :
            Observed(events, SubSeq(b.dominant_path, i, i + 1))
  /\ \A edge \in UNION {DOMAIN u.span.edges : u \in Range(document.topology)} :
       \E p, c \in Spans(events) : c.parent = p.span /\ <<Id(p), Id(c)>> = edge

LEMMA DocumentIsOfTheLog ==
  ASSUME EngineInv, TypeInv, LogInv, NEW end, NEW reported
  PROVE  IsOf(Document(end, reported), log)
<1> DEFINE published == Document(end, reported)
           graph == Transitions(ngram_counts)
           surprise == [t \in DOMAIN buckets |-> IncomingSurprise(graph, template_index[t])]
           template_of == [i \in 0..(Len(templates) - 1) |-> TemplateAt(i)]
<1>1. /\ published.stats = StatsBlock(buckets, lines_observed, surprise)
      /\ published.behavior = BehaviorBlock(ngram_counts, ngram_total, ngram_dropped, templates,
                                            CountsByNumber)
      /\ published.topology = S!SpanBlocks(S!Resolved, template_of)
  BY DEF Document, CountsByNumber
<1>2. /\ NatOn(surprise, DOMAIN buckets)
      /\ AreBuckets(buckets)
      /\ \A t \in DOMAIN buckets : buckets[t].echoed \in BOOLEAN
  BY SurpriseIsNat DEF NatOn, EngineInv, BucketsInv
<1> HIDE DEF published, surprise
<1>3. \A t \in DOMAIN buckets : buckets[t].count = CountIn(log, t)
  BY DEF LogInv, CountsAreLogged, Frequencies
<1>4. /\ \A t \in DOMAIN published.stats.top_k :
           t \in DOMAIN buckets /\ published.stats.top_k[t].count = buckets[t].count
      /\ \A i \in DOMAIN published.stats.reservoir :
           LET entry == published.stats.reservoir[i] IN
           entry.id \in DOMAIN buckets /\ entry.row.count = buckets[entry.id].count
  BY <1>1, <1>2, RowsAreOfBuckets
<1>5. /\ \A t \in DOMAIN published.stats.top_k : published.stats.top_k[t].count = CountIn(log, t)
      /\ \A i \in DOMAIN published.stats.reservoir :
           published.stats.reservoir[i].row.count = CountIn(log, published.stats.reservoir[i].id)
  BY <1>3, <1>4
<1>6. ASSUME NEW b \in Range(published.behavior)
      PROVE  /\ \A n \in b.top_ngrams : Observed(log, n.sequence)
             /\ Range(b.dominant_path) \subseteq IdsIn(log)
             /\ \A i \in 1..(Len(b.dominant_path) - 1) :
                  Observed(log, SubSeq(b.dominant_path, i, i + 1))
  <2> DEFINE path == DominantPath(graph, CountsByNumber)
             shown == [i \in DOMAIN path |-> templates[path[i] + 1]]
  <2>1. b.top_ngrams = TopNgrams(ngram_counts, templates) /\ b.dominant_path = shown
    <3>1. ~Silent(ngram_total)
      <4> SUFFICES ASSUME Silent(ngram_total) PROVE FALSE
        OBVIOUS
      <4>1. BehaviorBlock(ngram_counts, ngram_total, ngram_dropped, templates, CountsByNumber) = << >>
        BY DEF BehaviorBlock
      <4>2. Range(<< >>) = {}
        BY DEF Range
      <4> QED BY <1>1, <4>1, <4>2
    <3>2. \E edges, rows :
            published.behavior = <<[top_ngrams |-> TopNgrams(ngram_counts, templates),
                                    dropped |-> ngram_dropped, graph_edge_count |-> edges,
                                    branching |-> rows, dominant_path |-> shown]>>
      BY <1>1, <3>1, Zenon DEF BehaviorBlock
    <3> HIDE DEF shown
    <3> QED BY <3>2 DEF Range
  <2>2. ASSUME NEW n \in b.top_ngrams PROVE Observed(log, n.sequence)
    <3>1. n \in TopNgrams(ngram_counts, templates)
      BY <2>1
    <3>2. PICK gram \in TopGrams(ngram_counts, templates) : n.sequence = Rendered(gram, templates)
      BY ONLY <3>1 DEF TopNgrams
    <3>3. gram \in DOMAIN ngram_counts
      BY DEF TopGrams
    <3> QED BY <3>2, <3>3, GramIsObserved
  <2>3. /\ Range(shown) \subseteq IdsIn(log)
        /\ \A i \in 1..(Len(shown) - 1) : Observed(log, SubSeq(shown, i, i + 1))
    BY PathIsObserved
  <2> HIDE DEF shown
  <2> QED BY <2>1, <2>2, <2>3
<1>7. ASSUME NEW edge \in UNION {DOMAIN u.span.edges : u \in Range(published.topology)}
      PROVE  \E p, c \in Spans(log) : c.parent = p.span /\ <<Id(p), Id(c)>> = edge
  <2>1. PICK block \in Range(published.topology) : edge \in DOMAIN block.span.edges
    OBVIOUS
  <2>2. PICK q \in DOMAIN S!Resolved.edges : edge = <<template_of[q[1]], template_of[q[2]]>>
    <3> HIDE DEF template_of
    <3> QED BY <1>1, <2>1, EdgesOfTheBlock
  <2>3. PICK i \in DOMAIN log, j \in DOMAIN log :
          /\ log[i].span # NoSpan /\ log[j].span # NoSpan /\ log[j].parent = log[i].span
          /\ q = <<IdAt(template_index, log, i), IdAt(template_index, log, j)>>
    BY ResolvedAreLogged DEF LoggedPairs
  <2>4. \A k \in DOMAIN log : template_of[IdAt(template_index, log, k)] = Id(log[k])
    BY PlacesRender DEF TemplateAt
  <2>5. log[i] \in Spans(log) /\ log[j] \in Spans(log)
    BY <2>3 DEF Spans
  <2> HIDE DEF template_of
  <2>6. edge = <<Id(log[i]), Id(log[j])>>
    BY <2>2, <2>3, <2>4
  <2> QED BY <2>3, <2>5, <2>6
<1> QED BY <1>5, <1>6, <1>7 DEF IsOf, published

(* What every call leaves published is of the window it closed.            *)
LEMMA NextPublishesItsWindow ==
  ASSUME EngineInv, TypeInv, LogInv, DocumentIsOfItsWindow, [Next]_allVars
  PROVE  DocumentIsOfItsWindow'
<1>1. CASE UNCHANGED allVars
  BY <1>1 DEF allVars, vars, historyVars, DocumentIsOfItsWindow, Published, doc
<1>2. ASSUME answer'.kind # "document" PROVE DocumentIsOfItsWindow'
  BY <1>2 DEF DocumentIsOfItsWindow, Published
<1>3. ASSUME NEW e, NEW admit, Ingest(e, admit) \/ Refuse(e, admit)
      PROVE  DocumentIsOfItsWindow'
  BY <1>2, <1>3 DEF Ingest, IngestEvent, Accepted, Refuse, RefuseEvent, Refused
<1>4. CASE Call
  <2>1. ASSUME NEW end, NEW reported, CloseWindow(end, reported)
        PROVE  DocumentIsOfItsWindow'
    <3> DEFINE published == Document(end, reported)
    <3>1. IsOf(published, log)
      BY DocumentIsOfTheLog
    <3>2. answer' = [kind |-> "document", doc |-> published]
      BY <2>1 DEF CloseWindow
    <3> HIDE DEF published
    <3>3. doc' = published /\ closed' = log
      BY <1>4, <3>2 DEF Call, doc
    <3> QED BY <3>1, <3>3 DEF IsOf, DocumentIsOfItsWindow
  <2>2. CASE \E start \in Time : OpenWindow(start)
    BY <1>2, <2>2 DEF OpenWindow, Nothing
  <2>3. CASE DiscardWindow
    BY <1>2, <2>3 DEF DiscardWindow, Nothing
  <2>4. CASE Misuse
    BY <1>2, <2>4 DEF Misuse, LogicError
  <2> QED BY <1>4, <2>1, <2>2, <2>3, <2>4 DEF Call, Lifecycle
<1> QED BY <1>1, <1>3, <1>4 DEF Next

(* A document speaks of the window it closed and of no other: counts are   *)
(* of lines logged in it, and every n-gram, step of the dominant path and  *)
(* span edge is one its events had, whatever the bounds evicted on the way *)
(* and although internal ids are given out afresh at each window.          *)
THEOREM DocumentIsAlwaysOfItsWindow == Spec => []DocumentIsOfItsWindow
<1> DEFINE Inv == EngineInv /\ TypeInv /\ LogInv /\ DocumentIsOfItsWindow
<1>1. HistoryInit => Inv
  <2> SUFFICES ASSUME HistoryInit PROVE TypeInv /\ LogInv /\ DocumentIsOfItsWindow
    BY InitHasEngineInv
  <2>1. /\ A!AdjacencyInit /\ S!SpanInit /\ buckets = << >> /\ prev_freq = << >>
        /\ prev_window_end = << >> /\ log = << >> /\ answer = Nothing
    BY DEF HistoryInit, Init
  <2>2. TypeInv
    BY <2>1, EmptyTablesAreTyped DEF TypeInv
  <2>3. DocumentIsOfItsWindow
    BY <2>1 DEF DocumentIsOfItsWindow, Published, Nothing
  <2> QED BY <2>1, <2>2, <2>3, EmptyLog
<1>2. Inv /\ [Next]_allVars => Inv'
  BY EveryStepIsTheLedgers, NextKeepsTypes, NextKeepsLog, NextPublishesItsWindow
<1> QED BY <1>1, <1>2, PTL DEF Spec

=============================================================================
