---------------------------- MODULE SpanHistory ----------------------------
(***************************************************************************)
(* SpanTopology with the history of the open window beside it, and with    *)
(* the close of the window: what close_window publishes is compared with   *)
(* what the records of that window declared.                               *)
(***************************************************************************)
EXTENDS SpanTopology

CONSTANTS
  Records,     \* the span records considered
  MaxRecords   \* bounds the records of one window, for TLC

ASSUME RecordsAssumption == Records \subseteq SpanRecord /\ MaxRecords \in Nat

VARIABLES
  records,    \* the span records of the open window, in order
  evictions,  \* the spans evicted in the open window
  published   \* what the last call published, if it closed a window

vars == <<spanVars, records, evictions, published>>

Init ==
  /\ SpanInit
  /\ records = << >>
  /\ evictions = 0
  /\ published = << >>

Record(r) ==
  /\ Len(records) < MaxRecords
  /\ RecordSpan(r)
  /\ records' = Append(records, r)
  /\ evictions' = evictions + Cardinality(EvictedSpan(r.span))
  /\ published' = << >>

(* Templates are rendered by Engine; here an internal id stands for itself. *)
Itself == [id \in InternalId |-> id]

Publication ==
  [res |-> Resolved, blocks |-> SpanBlocks(Resolved, Itself), acquisition |-> SpanAcquisition(Resolved),
   records |-> records, evictions |-> evictions]

Close ==
  /\ published' = <<Publication>>
  /\ ResetSpans
  /\ records' = << >>
  /\ evictions' = 0

Discard ==
  /\ ResetSpans
  /\ records' = << >>
  /\ evictions' = 0
  /\ published' = << >>

Next ==
  \/ \E r \in Records : Record(r)
  \/ Close
  \/ Discard

Spec == Init /\ [][Next]_vars

-----------------------------------------------------------------------------
(* What the records of a window declared *)

FirstOf(recs, span) ==
  LET at == {i \in DOMAIN recs : recs[i].span = span}
  IN  recs[CHOOSE i \in at : \A j \in at : i <= j]

SpansOf(recs) == {recs[i].span : i \in DOMAIN recs}

Children(recs) == {i \in DOMAIN recs : recs[i].parent # NoSpan}

LinksOf(recs) == UNION {{i} \X DOMAIN recs[i].links : i \in DOMAIN recs}

(* The children with template c whose parent span was recorded as p, by    *)
(* some record of the window (Claimed), by its first record (Declared).    *)
Claimed(recs, p, c) ==
  {i \in Children(recs) :
     /\ recs[i].template = c
     /\ \E k \in DOMAIN recs : recs[k].span = recs[i].parent /\ recs[k].template = p}

Declared(recs, p, c) ==
  {i \in Children(recs) :
     /\ recs[i].template = c
     /\ recs[i].parent \in SpansOf(recs)
     /\ FirstOf(recs, recs[i].parent).template = p}

(* The calls and links from caller to callee, with the component of the    *)
(* other span by some record (ClaimedCalls), by its first (DeclaredCalls). *)
ClaimedCalls(recs, caller, callee) ==
  LET Recorded(span, component) ==
        \E k \in DOMAIN recs : recs[k].span = span /\ recs[k].component = component
  IN  Cardinality({i \in Children(recs) :
                     recs[i].component = callee /\ Recorded(recs[i].parent, caller)})
      + Cardinality({l \in LinksOf(recs) :
                     /\ recs[l[1]].component = caller
                     /\ Recorded(recs[l[1]].links[l[2]], callee)})

DeclaredCalls(recs, caller, callee) ==
  Cardinality({i \in Children(recs) :
                 /\ recs[i].component = callee
                 /\ recs[i].parent \in SpansOf(recs)
                 /\ FirstOf(recs, recs[i].parent).component = caller})
  + Cardinality({l \in LinksOf(recs) :
                 /\ recs[l[1]].component = caller
                 /\ recs[l[1]].links[l[2]] \in SpansOf(recs)
                 /\ FirstOf(recs, recs[l[1]].links[l[2]]).component = callee})

Counted(bag, key) == IF key \in DOMAIN bag THEN bag[key] ELSE 0

LastClose == published[1]

-----------------------------------------------------------------------------

(* Type invariant. *)
TypeOK ==
  /\ SpanTypeOK
  /\ records \in Seq(Records)
  /\ evictions \in Nat
  /\ Len(published) <= 1

(* span_fifo_ lists exactly the spans held, each once and within the bound:*)
(* the head record_span evicts is always a span that is held.              *)
FifoIsTheSpans ==
  /\ Range(span_fifo) = DOMAIN span_templates
  /\ Len(span_fifo) = Cardinality(DOMAIN span_templates)
  /\ MaxActiveSpans > 0 => Cardinality(DOMAIN span_templates) <= MaxActiveSpans

(* Every declared parent and every declared link of the closed window is   *)
(* accounted exactly once: an edge, a refused observation or an orphan.    *)
EveryReferenceAccounted ==
  published # << >> =>
    LET res == LastClose.res IN
    /\ Cardinality(Children(LastClose.records))
         = SumFunction(res.edges) + res.refused + res.orphan_parents
    /\ SumFunction(res.services) + res.orphan_parents + res.orphan_links
         <= Cardinality(Children(LastClose.records)) + Cardinality(LinksOf(LastClose.records))
    /\ LastClose.acquisition.span_records = Len(LastClose.records)

(* "Counted, never guessed": an emitted edge joins a child to a template   *)
(* its parent span really was recorded with in that window.  When no span  *)
(* was evicted and no edge refused, the table is the declared relation     *)
(* with the first record of a span id winning, whichever of parent and     *)
(* child was recorded first.                                               *)
SpanEdgesAreDeclared ==
  published # << >> =>
    LET res == LastClose.res
        recs == LastClose.records IN
    \A p, c \in InternalId :
      /\ Counted(res.edges, <<p, c>>) <= Cardinality(Claimed(recs, p, c))
      /\ (LastClose.evictions = 0 /\ res.refused = 0) =>
           Counted(res.edges, <<p, c>>) = Cardinality(Declared(recs, p, c))

(* A service edge joins two different known components and is made of      *)
(* calls and links to spans really recorded with those components; without *)
(* an eviction its weight is the number of calls and links declared.       *)
ServiceEdgesAreDeclared ==
  published # << >> =>
    LET res == LastClose.res
        recs == LastClose.records IN
    /\ \A e \in DOMAIN res.services : e[1] # e[2] /\ NoComponent \notin {e[1], e[2]}
    /\ \A a, b \in Component :
         a # b =>
           /\ Counted(res.services, <<a, b>>) <= ClaimedCalls(recs, a, b)
           /\ LastClose.evictions = 0 =>
                Counted(res.services, <<a, b>>) = DeclaredCalls(recs, a, b)

(* Every edge cut weighs less than every edge kept, or as much and comes   *)
(* later by its pair.                                                      *)
KeepsTheHeaviest(all, edges) ==
  \A kept \in DOMAIN edges, cut \in DOMAIN all \ DOMAIN edges :
    all[cut] < all[kept] \/ (all[cut] = all[kept] /\ PairLess(kept, cut))

(* A truncated block keeps the heaviest edges, whatever order the tables   *)
(* are walked in; the service block says how many it lacks, and the span   *)
(* block lacks none while there is room.                                   *)
TruncationIsHonest ==
  (published # << >> /\ LastClose.blocks # << >>) =>
    LET service == LastClose.blocks[1].service
        span == LastClose.blocks[1].span
        res == LastClose.res IN
    /\ Cardinality(DOMAIN service.edges) + service.dropped_edges = Cardinality(DOMAIN res.services)
    /\ KeepsTheHeaviest(res.services, service.edges)
    /\ Cardinality(DOMAIN span.edges) = Min({SpanEdgesSize, Cardinality(DOMAIN res.edges)})
    /\ KeepsTheHeaviest(res.edges, span.edges)

Reorderings(seq) ==
  {[i \in DOMAIN seq |-> seq[perm[i]]] :
     perm \in {f \in [DOMAIN seq -> DOMAIN seq] : IsInjective(f)}}

(* resolve_span_edges's comment: "counts are commutative and integer-only  *)
(* with no wall-clock read, so the resolution order cannot move a byte".   *)
ResolutionOrderMovesNothing ==
  \A parents \in Reorderings(pending_span_edges) :
    SpanBlocks(ResolveIn(parents, pending_link_edges), Itself) = SpanBlocks(Resolved, Itself)

=============================================================================
