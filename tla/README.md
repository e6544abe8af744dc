# Verification of insight-metalog

insight-metalog turns a stream of canonical log events into bounded *documents*, one per
window: which templates were seen, which of them are kept by name, how they follow one
another, which spans call which, what changed since the last window.  Documents are then
composed up a ladder (minute, hour, day) and diffed.  This directory holds TLA+ models of
that code, the TLC runs that check them on small instances, and TLAPS proofs of what
matters most for every size.

Paths below are relative to the repository; `engine.cpp` is `src/engine/engine.cpp`,
`metalog.cppm` and `metalog.api.cppm` are in `api/`.

## 1. Inventory

| Component | State | Operations | What makes it correct |
|---|---|---|---|
| Template vocabulary (`content_template_id_for`, `TemplateRegistry`) | string cache, id index, id vector: per window; registry: across windows | look up, intern, ask the admission, reset | the three per-window tables are one bijection; a cache hit answers what the hash would; an id once named always resolves, to the same string |
| Log-order adjacency (`account_ngram*`, `trace_ring_for`) | global ring, a ring per trace, FIFO of traces, bounded n-gram table, refusals | observe in a trace, observe globally, evict, reset | a counted n-gram is a run of one stream; counts are never partial; bounds lose what they declare and no more |
| Declared span topology (`record_span`, `resolve_span_edges`) | span table and its FIFO, queues of parent and link references, edge table, service edges, orphans | record a span, resolve at close, emit blocks, reset | every reference becomes exactly one edge, refusal or orphan; no edge is guessed; truncation is declared |
| Salience and retention (`salience.cpp`, `admit_reservoir`) | none of its own: reads the buckets of a closing window | dominant labels, bands, score, top k, reserve phase, general phase, tail | benign salience never crowds out a failure; caps buy coverage; the tail is the exact rest |
| Behavior block (`build_transition_graph`, `build_behavior` ...) | none: reads the n-gram table | transition graph, surprise, top n-grams, branching, dominant path | hash-map order never reaches the document; surprise means rare; the path is greedy and simple |
| Window engine (`MetaLogEngine`) | all of the above, buckets, cube joint, line count, the last closed window | open, ingest (with an admission), close, discard | a document is of its own window and accounts every line; drift is against the last closed window; misuse changes nothing |
| Presence churn (`metalog.api.cppm:238`) | a value per template and document | base elements, product, join | the product is a monoid in time order, the join is symmetric |
| Composition (`compose.cpp`) | none: two documents to one | gates, merge, re-rank, rederive the reservoir, tail, churn | mass conserved, commutative, bounded by declared caps, exhaustive claims sound |
| Diff (`diff.cpp`) | none | deltas, frontier crossings, comparison outcome | unchanged means the same, crossings and borders antisymmetric |
| Cube (`cube.cpp`) | base multiset of cells | closure, collapse to a budget, recover the base, borders, compose | counts of every generalised cell exact, collapse monotone and terminating |
| Field tables and sketches (`engine.cpp:463`, `metalog.detail.stats.cppm`) | value tables per parameter slot, ordinal bins, cardinality sketch | observe, densify, estimate | totals exact past the caps; sparse and dense stores denote the same registers |
| Text cap (`cap_window_text`, `cap_text`) | none | re-key the tables of a closing window by the capped texts | the map is injective, so it only renames |
| Statistics, wire format, serialization | none | entropies, divergences, JSON | numerics and layout |

How they interact.  A caller drives one `MetaLogEngine` method at a time; there are no
threads, no callbacks but the admission (asked synchronously before any state moves), and
nothing is persisted.  `ingest_event` resolves the template through the vocabulary, then
writes the bucket, the cube joint and either the span topology (a span record) or one
adjacency ring.  `close_window` resolves the queued span references, caps text, ranks the
buckets, builds each block from the tables, stashes what the next window compares with and
clears everything by one reset, which `open_window` and `discard_window` share.  Documents
are values; `compose` and `diff` are functions of two of them.

What is hard here.  Not concurrency in the usual sense: the hazards are *long sequences of
legal calls*.  Internal ids restart at each window, so any table that escapes the reset
mislabels the next window.  Five independent bounds (n-gram keys, traces held, spans held,
edge keys, reservoir) each drop something and owe a declaration of it.  Documents are merged
by consumers who choose the bracketing and the operand order, and what one merge forgets
(a template's text, a cube's base, a slot's registers) the next must not pretend to know.  Records of many
traces interleave, children arrive before parents, span ids repeat, two strings may hash to
one id.  Order must not leak: neither hash-map order nor, where promised, ingest order.
`PROJECT.json` lists each hazard at its line with the properties that would catch it.

## 2. Modules

| Module | Models |
|---|---|
| `Vocabulary` | `content_template_id_for`, `TemplateRegistry`, the vocabulary part of `reset_window_state` |
| `Adjacency` | rings, trace FIFO, bounded n-gram table: `account_ngram`, `account_ngram_into`, `trace_ring_for` |
| `AdjacencyHistory` | `Adjacency` with the records of each stream of the window, and the n-grams and evictions, as history |
| `SpanTopology` | `record_span`, `resolve_span_edges`, `account_span_edge`, the service and span edge blocks |
| `SpanHistory` | `SpanTopology` with close and discard, the records of the window as history, and what was published |
| `Retention` | `salience.cpp`, `analyze_window`'s ranking, `admit_reservoir`, the tail; operators only |
| `RetentionCases` | builds every small set of buckets for `Retention` |
| `Behavior` | `build_transition_graph`, `surprise_of`, `build_behavior` and its parts; operators only |
| `BehaviorCases` | builds every small n-gram table for `Behavior` |
| `WindowLedger` | the abstract specification: what the engine promises its caller, whatever it retains |
| `Engine` | `MetaLogEngine`, one action per public call: extends `Vocabulary` and `Retention`, composes adjacency, spans and behavior by INSTANCE |
| `EngineHistory` | `Engine` with the log of the open window, and the refinement mapping to `WindowLedger` |
| `PresenceChurn` | the churn elements, their product and their join (`metalog.api.cppm:238-352`) |
| `FieldTables` | the field part of `ingest_looked_up_event`, `CardinalitySketch`, the rows `build_top_k` makes of them |
| `FieldHistograms` | `min_declared_cap`, `readmit_slot`, `merge_field_histograms` |
| `OrdinalDrift` | `ordinal_w1`, `aggregate_duration_by_component`, `component_latency_shifts` |
| `FieldLadder` | the three above as one system: windows of unlike producers filled, closed, merged and compared |
| `Compose` | `compose.cpp`: gate, merged rows and labels, rederived reservoir, tail, churn fold, behavior, provenance; operators only |
| `Diff` | `diff.cpp`: every delta, the frontier crossings, the cube diff, `comparison_outcome_of`; operators only |
| `DocumentLadder` | windows closed into documents, any two documents composed in any order, any two diffed |
| `Cube` | `cube.cpp`: closure, collapse to the budget, recovery of the base, composition, borders; operators only |
| `CubeLadder` | cubes built, sent over the wire, composed in any order, any two compared |
| `AdjacencyProofs`, `SpanProofs`, `BlockProofs`, `EngineProofs`, `DocumentProofs`, `TableProofs` | the theorems: of `BlockProofs` on retention and behavior, of `EngineProofs` on the vocabulary and the engine, of `DocumentProofs` on churn, composition and diff, of `TableProofs` on the cube, the field tables and the drift |
| `BlockLemmas` | what the selections of `Retention` and the loops of `Behavior` return, for any buckets and counts; shared by the proofs of retention, behavior, engine and documents |
| `DataLemmas` | sums, bags, rankings, bounded FIFOs and folds: what the proofs need of data, independent of this system |
| `MC*` | the small instances |

`Compose` extends `Retention`, `PresenceChurn` and `FieldHistograms`; `Diff` extends
`Compose` and `OrdinalDrift`; `DocumentLadder` builds its base documents with `Retention`'s
own `StatsBlock`, so the composer works on what the engine's selection produces.  A document's
cube is there the set of cells its lines lie on with its state of collapse, taken from `Cube`, and
a border of a cube diff is the set of cells that it stands for: it is empty when that set is
(`BorderIsTheEmergentSet` of `CubeLadder`), and `Cube` has its two ends and the counts.

*The engine.*  State and actions correspond name for name: `template_str_cache`,
`trace_ring_fifo`, `pending_span_edges`, `lines_observed`, `prev_window_end` are the members
of `metalog.cppm:311-415` without their trailing underscore (`content_template_index_` is
`template_index`, `content_templates_by_internal_id_` is `templates`).  The two orphan
counters, the refused edges and both edge tables of the span topology are one record,
`resolution`: the code fills and clears them within one call, `close_window`.  An action
models a whole public call: `CloseWindow` is resolution, every block of the document, the
stash and the reset, and `answer` is what the call returned.  `OpenWindow` on an open
window is the discard the code makes.  `RefuseEvent` and `Misuse` are the early return
and the throw.

*Documents and cubes.*  `compose`, `diff`, `compose_cubes` and `cube_diff_of` are pure, so
they are operators, and the system around them is the consumer's: a `pool` of documents
(`held` cubes) of which any two may be merged.  Each document is kept with the windows it
came of (`leaves`, `rows`, `tabled`), which no action reads and every property compares
with.  A document is a record whose `top_k` and `reservoir` are functions from template ids
to rows, since the order of an array follows from its counts and ids.  `RowsOf` of
`FieldLadder` is the field part of `build_top_k`; `Wire` of `CubeLadder` is the loss of a
cube's base that `interned_base_of` repairs.

Abstractions.  Template strings are model values and their hash an arbitrary function
`IdOf`, not assumed injective.  A component is a number ordered as its bytes are, and
stands for its capped text (`cap_window_text` maps distinct texts to distinct texts, by
`metalog.cppm:217`).  Times are numbers.  Levels and roles are their ordinals; the order of
their spellings, by which composition breaks ties, is a constant.  Counters are unbounded
naturals: the code's are 64-bit and count lines of one window.  A probability or a rate is
kept as the pair of counts it divides, an entropy as the distribution it is taken of, a
divergence as whether it is zero; the entropy-ranked cut of `branching` is left out (its
rows are modelled before the cut).  The cardinality a sketch estimates is the number of its
registers that are set, which decides it up to the ranks.  A value's hash is an arbitrary
function to a register and a rank.  In `Compose` the provenance is a bag of entries: their
order, by canonical JSON bytes, is not modelled, nor is the refusal of a malformed time
stamp.  In `Cube` component labels are numbers throughout: the dictionaries that
intern and merge them are injective.  The guard `need_graph` of `build_transition_graph` is
not modelled: without it the same graph would be built where nothing reads it.  The
engine's constructor refuses an invalid `max_text_bytes`; `take_registry` ends an engine's
life; neither is an action.

Operators whose comment begins with *Fault* are not part of the system.  Each is a
plausible wrong version of the definition that follows it and is never used by it; the
`mutants` of `PROJECT.json` say which property notices when it takes its place.  They are
there to show that no property holds merely by the shape of the model.

## 3. Runs

| Run | Question | Bounds |
|---|---|---|
| `vocabulary_windows` | Do cache, index and registry agree across windows? | four strings, two sharing an id; all interleavings of look-ups, refusals and resets (the registry saturates, so no further bound) |
| `adjacency_trigram` | Is the n-gram table exact up to what it declares? | two templates, two traces and the global stream, one ring held, two keys, nine records: a trace can be evicted twice and return, and the table fills before the streams end |
| `spans_window` | Is what a close publishes what its window declared, and what do the bounds cost? | three span ids of which two are held, two edge keys, one service edge and one span edge on the wire, four records: children before parents, links, repeated ids, orphans, evictions, refused edges |
| `spans_order` | Is resolution order invisible (`metalog.cppm:224`)? **Violated** when the edge cap binds. | two span ids, one edge key, four records |
| `retention_caps` | Do the two greedy phases keep what the reservoir is for? | four templates of nine shapes under a busy one, three slots, a reserve of one, a kind cap of one: each budget runs out before the others somewhere |
| `behavior_graph` | Do surprise, path and ranking mean what they say, whatever the map order? | every graph of up to four edges over three templates whose ids do not sort as they were met, weights on both sides of the bands, all orders of its edges |
| `engine_ledger` | Does the engine implement `WindowLedger`? | three strings, one collision of ids, admissions that refuse, two times, all orders of calls |
| `engine_document` | Is a document of its own window only? | four lines of plain, traced and span events; the n-gram cap, the retention caps and the path cap bind, the trace and span bounds have runs of their own |
| `documents_ladder` | Does a ladder of documents account for its windows, and does a comparison mean what it says? | three windows out of six, following, beside or without a time stamp, in every bracketing: failures in top_k and in the reservoir, templates lost to the tail, labels that disagree, profiles that may not meet, a window with the same counts but slower and with a line at another level (only the cube border tells), cubes collapsed unlike, silence, unlike n-gram orders and histogram caps |
| `documents_identity` | Is an event-free document the identity of compose (`test_compose_algebra.cpp:188`)? **Violated** for a template known as a failure by its text alone. | one window |
| `cube_ladder` | Are counts, base and borders of a cube those of its lines? | two windows out of many over four levels, two components or none, two roles, and a stacked one that forces every band; a budget of nine cells; wire and merges in every order |
| `fields_ladder` | Do field tables say what was observed, however merged? | four events over up to two windows, three producers' caps (none, one slot of two values, two slots of one), two of four raw values sharing a key, a sketch whose sparse store holds one register |

Bounds on records, lines, keys, windows and documents (`MaxRecords`, `MaxLines`, `MaxKeys`,
`MaxDocuments`, `MaxBuilt`, `MaxEvents`, `MaxWindows`) are the only ones in guards; they cap
the length of one window or the width of one ladder and are large enough that each bound of
the code binds, is passed, and the stream goes on after it.  `CountsAreNeverPartial` speaks
of the time after the table fills; `EvictionCostIsBounded` needs a trace to be evicted,
return and form again (five records of it and one of another).  `DocumentIsOfItsWindow` is
reached in windows that follow others, where internal ids have been reused.  Three documents
give both bracketings of a fold and a merge of a merged document with a base one, which is
where a residual, a churn boundary or a label can go wrong.

`ChurnBoundsTheTruth` is claimed of ladders folded along time (`timely`): two stamped rungs
that lie apart, are shards of one base window, or of which one observed nothing.  Rungs
whose ranges overlap in part are accepted by the code and have no meaning of which windows
are counted; every other property is claimed of them too.  Two hulls of one envelope are
shards only if each is of one window: where windows between them were silent, equal
envelopes do not mean equal intervals observed, and the join that the code declares exact
over base windows (`metalog.api.cppm:338`) only bounds there.

`TablesAreHonest` does not say that a composed cardinality is at least the number of values
its table keeps: the code takes the greater of the two estimates, registers being absent
from the wire, so two tables of disjoint values may hold more than either estimate.

`BudgetIsMet` rests on `BudgetAssumption` of `CubeLadder`, which TLC evaluates: without
components, the cells that the lines of all windows together can decide fit the budget at
every floor.  The loop tries single steps only and stops when none saves a cell, so it is not
complete in general.  Levels and roles are fixed enumerators, of which there are far fewer
combinations than the code's 4096 cells, so the assumption holds of the code whatever the
lines are.  It is stated for each floor because a band that merges levels can split what was
closed together, and raise the number of cells.

The runs expected to be violated each check one sentence of the repository, quoted in
`findings`; the neighbouring passing properties say what does hold.  Three more sentences say
more than the code does, and the models show it although no run is kept for them:

* `metalog.api.cppm:1267` has an eviction lose "at most one cross-record edge"; at
  `ngram_size` 3 it loses two (`EvictionCostIsBounded` gives the exact bound).
* `metalog.api.cppm:1304` caps the dominant path at `dominant_path_max_steps`; the start is
  pushed before the steps are counted, so it may hold one template more.
* `engine.cpp:242` counts every refused n-gram so that a consumer can tell; with
  `max_ngram_keys` 0 no behavior block is emitted and nothing declares the drops
  (`DropsAreDeclared` is claimed, and checked, for a positive cap).

Fairness.  None is assumed and no liveness is claimed: every operation is a synchronous
call that terminates by a bounded loop, nothing is awaited, retried or scheduled, and a
caller that never calls again is a legal one.  That the collapse loop ends with the budget
met is a safety property of its result (`BudgetIsMet`).  Deadlock is checked in the engine's
runs, where some call is always possible, and not in the three ladders, which stop when their
windows are used up and all is merged.

## 4. Proofs

`tlapm` checks, for every set of templates, traces, spans and ids, every hash, every bound
and windows of any length, the theorems below.  Each names the property of a run it states
without bounds.

**Vocabulary** (`EngineProofs`, which extends it).  `VocabularyInvariants` (types, `IndexIsABijection`, every
id of the window resolves), `CacheIsAlwaysCoherent` (`CacheIsCoherent`) and
`RegistryAccumulates` (`RegistryOnlyGrows`).  The conjuncts are inductive together: the
bijection needs `templates` to be duplicate free, which is its own second half, and the cache
needs the bijection when a second string of one id is looked up.

**Adjacency** (`AdjacencyProofs`).

* `FifoIsAlwaysTheRings`.  The property is stated with a cardinality, which does not induct
  by itself; `IInv` strengthens it to `Lists`: the FIFO enumerates the finite set of traces
  held, injectively.  `FifoHold` of `DataLemmas` says once what holding a new key under a bound
  does to such a table: the code writes it twice, in `trace_ring_for` and in `record_span`.
* `AdjacencyInvariants` (types, `TableIsBounded`, `CountsAreNeverPartial`),
  `EveryObservationIsAccounted` and `NoKeyIsDisplaced`.  `TableStepKeeps` shows that counting
  one n-gram keeps the table equal to the bag of what was formed, on the keys held, whether
  the cap binds or not: the table is full from the first refusal on, and a full table never
  admits.  The totals are sums over those two bags.
* `GramsAreAlwaysRealRuns` and `EvictionCostIsAlwaysBounded`.  `HistoryInv` relates a ring to
  the records of its stream.  The ring is the end of them (`IsEndOf`), so what it forms is a
  run of theirs; and a potential, `Deficit`, is what the ring is short of.  The runs lost and
  the deficit together never exceed `NgramSize - 1` for each eviction: an eviction pays for a
  whole deficit, a record that forms nothing lowers the deficit by the run it loses.  Without
  evictions no deficit arises after the first records, and the counts are those of all runs.

**Spans** (`SpanProofs`).  `SpansAreWellFormed` (`TypeOK`) and `FifoIsAlwaysTheSpans` are as
above.  `EveryReferenceIsAlwaysAccounted`, `SpanEdgesAreAlwaysDeclared`,
`ServiceEdgesAreAlwaysDeclared` and `TruncationIsAlwaysHonest` speak of what a close publishes.
`HistoryInv` relates the open window to its records: each queue enumerates the references the
records declare, a span held is one of theirs, and of its first record while nothing was
evicted.  Resolution is a fold over the queues; the proof takes the run of its intermediate
results (`ParentsAreARun`, `LinksAreARun`) and shows for every prefix that orphans, refusals
and edges account for the references of that prefix.  What is published is a cut of a ranking
of the edges, and a ranking by weight, ties by pair, never drops an edge that goes before one it
keeps.  A service edge counts references that the records declare with both components, whatever
was evicted: it joins spans held, which are records of the window (`CallsAreClaimed`).

**Retention** (`BlockProofs`).  `FailuresAreAlwaysCandidates` (`EveryFailureIsACandidate`)
and `FailuresAreNeverCrowdedOut` (`FailureIsNotCrowdedOut`).  The invariant only types the
buckets; the weight is in `BlockLemmas`, which proves of any buckets that `TopK` and
`Candidates` are rankings (the `CHOOSE` of the element with `i - 1` above it exists and is
unique because the order is total), and of the two folds of `admit_reservoir` that a failure
passed over by the reserve phase met a full reserve, all of it more salient, and that the
general phase only appends.
`ReservoirIsAlwaysTheReference` (`ReservoirIsReference`) compares the folds with the rule as a
definition over the whole set of candidates: the first failures up to the reserve, then the
first of each kind up to the cap, then the first of what is left up to `reservoir_k`.  Both
phases walk the candidates in order, and the invariant of the walk is that what is taken at a
place is what the reference takes of the candidates passed.  The code decides by a count of
what it took so far and the reference by a candidate's rank; the two agree (`RoomIsRank`), for
a phase as a whole and for each kind by itself.  The order of the result follows since a set
has one ranking (`RankingIsUnique`).

**Behavior** (`BlockProofs`).  The four properties of `behavior_graph`, for any templates,
sizes and positive counts: `IterationOrderIsAlwaysInvisible`, `SurpriseAlwaysMeansRare`,
`DominantPathIsAlwaysGreedy`, `TopNgramsAreAlwaysTheTop`.  The state is only typed
(`TableInv`); the weight is in what the loops over hash maps compute, most of it stated in
`BlockLemmas`.  Each is a fold over an
order of the edges, and the invariant of the fold is that the best so far is one of the edges
seen and that none seen beats it.  At the end all edges are seen, so the result is described
without the order; the tie-breaks (the more observed of two equal ratios, the lower target of
two equal counts) leave one value that fits the description, so two orders give the same.
Ratios are compared by cross multiplying, and the proof needs that comparison to be transitive.
`SurpriseMeansRare` is an equivalence: a template has a surprise exactly when its likeliest edge
in was observed twice and is as rare as the band says.
The path is a run of single steps, each of which is greedy, keeps the path free of repetitions
and, once it halts, stays halted.  The ranking of n-grams is by a total order because two
different sequences differ at a least place and because `templates` is duplicate free; the
cut keeps ranks below its size, so an n-gram left out is behind every one listed, in count or in
the order that settles equal counts.

**Engine** (`EngineProofs`).  `EngineImplementsLedger` is the refinement that
`engine_ledger` checks: initial states map to initial states, and each call is the step of
`WindowLedger` of that name.  Drift is dated by the end that the envelope of the last closed
document reported, which the ledger reads off its own answer.  `EngineInv` keys the buckets as the vocabulary's index is keyed,
has their counts sum to the lines observed, and has what is kept of the last window be a
finite bag.  The step for `CloseWindow` needs that `top_k`, reservoir and tail share out the
buckets; it rests on `BlockLemmas`.  `JointAndMarginalsAlwaysAgree` adds to it that each
counter of a bucket sums to the bucket's count and the joint's marginals to the sums of the
counters, one step of `ingest_event` at a time.  `DropsAreAlwaysDeclared` assumes
`MaxNgramKeys > 0` and `TopNgramsSize > 0`: with either at zero the code builds no behavior
block and declares nothing (the third remark of section 3), so the statement without them is
false of the code.
`EngineIsWellTyped` is the type invariant of the composed state, from `TypeInv`: the parts of
each component keep their types under the calls the engine makes of them, and what `close`
retains is a document.
`DocumentIsAlwaysOfItsWindow` (`DocumentIsOfItsWindow`) is the isolation of windows.  Its
invariant `LogInv` ties every table of the open window to the log of the events it accepted:
the counts are the bag of the logged ids; each ring recalls the last ids of its stream in the
log (`Recalls`); each counted n-gram is a run of adjoining events of one stream (`Formed`);
every span held, and every reference queued, is declared by a logged event; and the internal
ids render to the logged ids through the bijection of `IndexIsABijection`.  The log only grows
while the window is open, so what was found in it stays found (`GrownPlaces`, `StillLogged`),
and the step to prove is the one new event.  `close` then reads the blocks off these tables:
an n-gram is rendered from its numbers (`GramIsObserved`), a step of the path is an edge of
the transition graph, hence the head of an n-gram counted (`PathIsObserved`), and the folds
that resolve references only make edges between spans held (`ResolvedAreLogged`).  The maps
being emptied by close and discard alike is what makes the next log start from nothing.

**Documents** (`DocumentProofs`).  First the laws `metalog.api.cppm:246` claims of the churn
element.  The product is associative with the default element as identity
(`ProductIsAssociative`, `EmptyIsIdentity`) and the join of shards is associative and
symmetric, so the bracketing of a ladder cannot change what is counted;
`ProductIsWellFormed` keeps transitions and indeterminate boundaries together fewer than the
windows.  Then the five properties of `documents_ladder`, for any windows and any ladder:

* `EveryLineIsAlwaysAccounted`.  The invariant is `PoolInv`: what was closed is a log of windows,
  every entry is a well-typed document which accounts for the windows of its leaves, and
  two entries have leaves in common only if they are the same.  Apart leaves are what makes
  counts add up; a document accounts for its leaves if its rows and its tail are a partition
  of the lines, and the reservoir that compose re-derives takes from the rows that top_k left.
* `ComposeAlwaysCommutes` and `DiffAlwaysReverses` hold of any two documents of that type.  In
  compose the operands meet in sums, in minima of caps and in labels; a label that disagrees
  is resolved by count and then by the rank of its spelling, which is injective
  (`SpellingAssumption`).  A diff is mirrored delta by delta: what emerged has vanished, each
  delta is negated and so is the signed sum behind a drift's direction.  Cells that emerged have
  vanished the other way; those of a shifted component emerge in both.
* `UnchangedAlwaysMeansSame`.  Equal counts are read off the template deltas; that the two windows
  are also of as many lines is what a divergence of zero adds: the smoothed shares of a template
  with equal counts agree, and cancelling leaves the totals.  What is salient on one side only, or
  crosses the failure frontier, is in a list that the outcome requires to be empty.  So are the two
  borders of the cubes: without them every line of one lies in a cell that the other has lines in, at
  the coarser of the two states, and a shift would mark a cell that emerges.
* `ChurnAlwaysBoundsTheTruth` has an invariant of its own, `ChurnInv`: windows are closed in the order
  of their envelopes; an entry folded along time lies within its envelope; without a tail it knows
  every template of its leaves; and the element of each template, retained or made up for
  one that is not, observes the windows of its leaves: the first and last presence are those
  of windows, and true changes lie between the transitions counted and these plus the
  indeterminate boundaries.  A product of two rungs that lie apart adds one boundary, whose
  two sides are the last of the one and the first of the other.

**Cube** (`TableProofs`).  The five properties of `cube_ladder`, for any rows, shifts and
budget.  The invariant `HeldInv` says that a cube is determined by its lines and its state of
collapse: collapsing the collapsed is collapsing further, and collapse distributes over the sum of two
bags of lines, so a composed cube is the cube of all lines at the coarser state
(`HeldIsAlwaysOfItsLines`).  On that rest

* `CountsAreAlwaysExact`: a closure's count is the greatest of the counts of the closed cells
  below it, closure keeps which lines lie below, and failure levels stay apart because no
  band has a floor above `Error`;
* `WireIsAlwaysLossless`: the fully pinned cells of a base are all closed with their counts, and
  what they leave of the aggregate of their level and role are the lines without a component,
  so the base recovered is the base that was closed;
* `NothingEverEmergesOfTheSame` and `BorderIsAlwaysTheEmergentSet`: a cell emerged exactly when it
  lies under a cell of the upper border and over one of the lower: for one that did, take the
  least pinned emergent cell above it and the most pinned one below;
* `BudgetIsAlwaysMet`: while a cube is over its budget with components, dropping all of them
  saves cells by `BudgetAssumption`, so the loop never halts there; each turn drops
  components or bands one level more, and four turns are more than there are bands.

**Field tables** (`TableProofs`).  `WindowIsAlwaysOfItsEvents` is the invariant of the open window: the
slots of a template are the positions seen within the cap, the table of each is a table of
the values its events put there and its sketch one of all of them, those that the table refused included.
One step of `add` keeps each register at the highest rank offered, and neither store forgets
one, hence `SketchAlwaysDenotesMaxima`.  `DocumentsAreAlwaysOfTheirEvents` is the invariant of the documents: totals add,
a merged table below the least cap has lost nothing because the best n of fewer than n are all
of them, a slot of only one operand stands alone because the other observed nothing there,
and a cap not declared means that nothing was tabled.  `TablesAreAlwaysHonest` reads the property off it.

**Drift** (`TableProofs`).  `DriftIsAlwaysTransport` says that the code's integer arithmetic on cumulative counts
is the comparison of quantiles it stands for.  `DurationsAreAlwaysTabled` is its invariant: the ordinal
rows of the open window, and of every document that was never composed, count each duration
of its events, field by field (`OrdinalInv`, `LeafInv`; the windows behind two documents held are
apart, so a document of one window has not been composed).  The rows of a component then add
up to its durations, in each octave and in total: a double sum, swapped (`SumsSwap`).  For the
distance, let every duration be repeated so that both windows have as many; the pairs of a
quantile and an octave that it has passed in one window only, counted quantile by quantile, are the
distances between paired quantiles, and counted octave by octave the differences of the
cumulative counts (`DistanceIs`).  The sign of the sum of those differences is the opposite of
that of the move of the mean, by summation by parts (`SharesAndOctaves`).

**Data** (`DataLemmas`).  Induction over data is not available as a rule, since the library
states it with an operator parameter.  Where a proof needs it, it is done by a first-order
detour: the set of the counterexamples is a subset of `Nat`, a least one exists, and its
predecessor is none.  In this way the module proves what a sum over a function is when a value
is added, changed or removed, that a sum splits along a partition, that a ranking by a total
order lists a set and is the only one, that a fold over a list is the last of a run of single steps, what a
bounded FIFO keeps, that a finite set has an order, and that least elements exist.
`SubsetInduction` does the same for the parts of a finite set, and sums over the images of
a map or over a grid follow from it.
`SetInduction` packs the detour into one lemma: a set of naturals that holds 0 and the
successor of each of its members holds all.

The assumptions are those of the modules (`VocabularyAssumption`, `AdjacencyAssumption`,
`SpanAssumption`, `RecordsAssumption`, `RetentionAssumption`, `ShapesAssumption`,
`BehaviorAssumption`, `GramsAssumption`, `SpellingAssumption`, `LadderAssumption`,
`BudgetedAssumption`,
`CubeAssumption`, `CubeLadderAssumption`, `BudgetAssumption`, `FieldTablesAssumption`,
`FieldLadderAssumption`, `ScheduleAssumption`, and those of the engine's constants).  Most
say what kind of value a constant is: ids are numbers, the hash is a function, `NgramSize` is 2
or 3 (the code clamps it), the trace-less marker is not a trace, a window of a ladder is what an
engine can close, in the cases of the behavior block the ids of templates differ and counts are
positive.  Three say more.  Distinct labels and roles are spelled differently
(`SpellingAssumption`).  The cells without a component fit the budget (`BudgetAssumption`,
section 3).  A template declares the schedule of each of its ordinal fields once
(`ScheduleAssumption`: an ordinal field is a *declared* field, `metalog.api.cppm:394`, and a
row carries one schedule id); were one field to come under two schedules, the code would count
both into the bins of the first.

Every property that a passing run checks is stated by a theorem, the two action properties and
the refinement of the ledger included.

Only model-checked:

* The two runs that expect a violation: there the counterexample is the result.
* That the bounds of section 3 are reached, and that each property notices a wrong version of the
  definition it is about.

## 5. Plan

1. *Done.*  The engine and its five components, the ledger it implements, and the proofs of
   their safety: every property the runs check of vocabulary, adjacency, spans, retention, the
   behavior block and the engine, the refinement of the ledger included.
2. *Done.*  Presence churn with its laws proved; composition and diff over ladders of
   documents; the cube and its ladder; field tables, sketches and drift.
3. *Done.*  The proofs of composition, diff, cube, field tables and drift.
4. Still worth having: an order of the provenance in `Compose`, the cut of `branching` by
   entropy, and the text layout that the canonical order of arrays depends on.

Not modelled:

* Entropies and divergences: fixed-point numerics of a library outside this repository.
* JSON reading and writing (`serialize.cpp`, `json_egress.hpp`): layout.  The one loss that
  matters to the algebra, a cube's base, is an action of `CubeLadder`.
* The text cap: an injective renaming, as above.
* Benchmarks, fixtures, packaging.
