---------------------------- MODULE SpanTopology ----------------------------
(***************************************************************************)
(* The declared topology of MetaLogEngine: the table of spans seen in the  *)
(* window, the parent and link references queued until close, and their    *)
(* resolution into template edges and service edges.                       *)
(*                                                                         *)
(* The parent of a span routinely arrives after it, so nothing is resolved *)
(* before close; a reference whose span is not held then is an orphan.     *)
(***************************************************************************)
EXTENDS Naturals, Sequences, FiniteSets, BagsExt, FiniteSetsExt, SequencesExt

CONSTANTS
  SpanId,           \* span ids; they are matched across traces
  NoSpan,           \* stands for a record without a declared parent
  Component,        \* the components (service names), ordered as their bytes are
  NoComponent,      \* the empty component
  InternalId,       \* the compact per-window template ids, numbers
  MaxActiveSpans,   \* config_.max_active_spans; 0 disables the bound
  MaxSpanEdgeKeys,  \* config_.max_span_edge_keys
  SpanEdgesSize,    \* config_.span_edges_size, the ranking cut
  MaxServiceEdges   \* config_.max_service_edges, the wire cap

ASSUME SpanAssumption ==
  /\ NoSpan \notin SpanId
  /\ Component \subseteq Nat
  /\ NoComponent \notin Component
  /\ InternalId \subseteq Nat
  /\ {MaxActiveSpans, MaxSpanEdgeKeys, SpanEdgesSize, MaxServiceEdges} \subseteq Nat

VARIABLES
  span_templates,      \* the spans held: their template and component
  span_fifo,           \* the spans held, oldest inserted first
  pending_span_edges,  \* declared parent references, in ingest order
  pending_link_edges,  \* declared links, in ingest order
  span_records,        \* the span records of the window
  resolution           \* what close resolves into; empty between two calls

spanVars == <<span_templates, span_fifo, pending_span_edges, pending_link_edges,
              span_records, resolution>>

AnyComponent == Component \cup {NoComponent}
SpanNode == [template : InternalId, component : AnyComponent]
PendingSpanEdge == [child : InternalId, parent : SpanId, component : AnyComponent]
PendingLinkEdge == [component : AnyComponent, linked : SpanId]

(* A span record: its id, declared parent or NoSpan, links and template. *)
SpanRecord ==
  [span : SpanId, parent : SpanId \cup {NoSpan}, links : Seq(SpanId),
   template : InternalId, component : AnyComponent]

EmptyResolution ==
  [edges |-> << >>, refused |-> 0, services |-> << >>,
   orphan_parents |-> 0, orphan_links |-> 0]

SpanTypeOK ==
  /\ DOMAIN span_templates \subseteq SpanId
  /\ span_templates \in [DOMAIN span_templates -> SpanNode]
  /\ span_fifo \in Seq(SpanId)
  /\ pending_span_edges \in Seq(PendingSpanEdge)
  /\ pending_link_edges \in Seq(PendingLinkEdge)
  /\ span_records \in Nat
  /\ resolution = EmptyResolution

-----------------------------------------------------------------------------
(* record_span *)

EvictedSpan(span) ==
  IF /\ span \notin DOMAIN span_templates
     /\ MaxActiveSpans > 0
     /\ Cardinality(DOMAIN span_templates) >= MaxActiveSpans
     /\ span_fifo # << >>
  THEN {Head(span_fifo)}
  ELSE {}

(* Fault: the FIFO keeps the evicted span. *)
HoldSpanWithoutPop(span, node) ==
  IF span \in DOMAIN span_templates
    THEN UNCHANGED <<span_templates, span_fifo>>
    ELSE /\ span_templates' = [s \in (DOMAIN span_templates \ EvictedSpan(span)) \cup {span} |->
                                 IF s = span THEN node ELSE span_templates[s]]
         /\ span_fifo' = Append(span_fifo, span)

(* A span id already held keeps its first node. *)
HoldSpan(span, node) ==
  IF span \in DOMAIN span_templates
    THEN UNCHANGED <<span_templates, span_fifo>>
    ELSE /\ span_templates' = [s \in (DOMAIN span_templates \ EvictedSpan(span)) \cup {span} |->
                                 IF s = span THEN node ELSE span_templates[s]]
         /\ span_fifo' = Append(IF EvictedSpan(span) = {} THEN span_fifo ELSE Tail(span_fifo), span)

(* Fault: a root span queues the parent it does not have. *)
RecordSpanAlwaysParented(r) ==
  /\ span_records' = span_records + 1
  /\ HoldSpan(r.span, [template |-> r.template, component |-> r.component])
  /\ pending_span_edges' =
       Append(pending_span_edges,
              [child |-> r.template, parent |-> r.parent, component |-> r.component])
  /\ UNCHANGED <<pending_link_edges, resolution>>

RecordSpan(r) ==
  /\ span_records' = span_records + 1
  /\ HoldSpan(r.span, [template |-> r.template, component |-> r.component])
  /\ pending_span_edges' =
       IF r.parent = NoSpan THEN pending_span_edges
       ELSE Append(pending_span_edges,
                   [child |-> r.template, parent |-> r.parent, component |-> r.component])
  /\ pending_link_edges' =
       pending_link_edges \o
         [i \in DOMAIN r.links |-> [component |-> r.component, linked |-> r.links[i]]]
  /\ UNCHANGED resolution

-----------------------------------------------------------------------------
(* resolve_span_edges, over what is held at close *)

AccountSpanEdge(res, edge) ==
  IF edge \in DOMAIN res.edges \/ Cardinality(DOMAIN res.edges) < MaxSpanEdgeKeys
    THEN [res EXCEPT !.edges = BagAdd(@, edge)]
    ELSE [res EXCEPT !.refused = @ + 1]

(* An unknown endpoint and a self edge are not topology. *)
AccountService(res, caller, callee) ==
  IF caller # NoComponent /\ callee # NoComponent /\ caller # callee
    THEN [res EXCEPT !.services = BagAdd(@, <<caller, callee>>)]
    ELSE res

(* Faults: an orphan dropped; parent and child exchanged. *)
ResolveParentOrNothing(res, pending) ==
  IF pending.parent \notin DOMAIN span_templates THEN res
  ELSE AccountSpanEdge(res, <<span_templates[pending.parent].template, pending.child>>)
ResolveParentBackwards(res, pending) ==
  IF pending.parent \notin DOMAIN span_templates
    THEN [res EXCEPT !.orphan_parents = @ + 1]
    ELSE AccountSpanEdge(res, <<pending.child, span_templates[pending.parent].template>>)

ResolveParent(res, pending) ==
  IF pending.parent \notin DOMAIN span_templates
    THEN [res EXCEPT !.orphan_parents = @ + 1]
    ELSE LET parent == span_templates[pending.parent]
         IN  AccountService(AccountSpanEdge(res, <<parent.template, pending.child>>),
                            parent.component, pending.component)

(* Fault: a link read as a call from the linked span. *)
ResolveLinkBackwards(res, pending) ==
  IF pending.linked \notin DOMAIN span_templates
    THEN [res EXCEPT !.orphan_links = @ + 1]
    ELSE AccountService(res, span_templates[pending.linked].component, pending.component)

ResolveLink(res, pending) ==
  IF pending.linked \notin DOMAIN span_templates
    THEN [res EXCEPT !.orphan_links = @ + 1]
    ELSE AccountService(res, pending.component, span_templates[pending.linked].component)

ResolveIn(parents, links) ==
  FoldLeft(ResolveLink, FoldLeft(ResolveParent, resolution, parents), links)

Resolved == ResolveIn(pending_span_edges, pending_link_edges)

-----------------------------------------------------------------------------
(* The blocks close_window emits *)

PairLess(p, q) == p[1] < q[1] \/ (p[1] = q[1] /\ p[2] < q[2])

(* Fault: the first n keys in key order, whatever their counts. *)
TopByKey(bag, n) ==
  {p \in DOMAIN bag : Cardinality({q \in DOMAIN bag : PairLess(q, p)}) < n}

(* The first n keys of a bag by count descending, then by key. *)
TopByCount(bag, n) ==
  LET outranks(p, q) == bag[p] > bag[q] \/ (bag[p] = bag[q] /\ PairLess(p, q))
  IN  {p \in DOMAIN bag : Cardinality({q \in DOMAIN bag : outranks(q, p)}) < n}

ServiceEdgeBlock(services) ==
  [edges |-> Restrict(services, TopByCount(services, MaxServiceEdges)),
   dropped_edges |-> IF Cardinality(DOMAIN services) <= MaxServiceEdges THEN 0
                     ELSE Cardinality(DOMAIN services) - MaxServiceEdges]

(* The edges between the templates that internal ids stand for. *)
SpanEdgeBlock(res, template_of) ==
  LET rendered == [e \in {<<template_of[p[1]], template_of[p[2]]>> : p \in DOMAIN res.edges} |->
                     MapThenSumSet(LAMBDA p : res.edges[p],
                       {p \in DOMAIN res.edges : <<template_of[p[1]], template_of[p[2]]>> = e})]
  IN  [edges |-> Restrict(rendered, TopByCount(rendered, SpanEdgesSize)),
       dropped |-> res.refused]

(* Present exactly when the window had a span record. *)
SpanBlocks(res, template_of) ==
  IF span_records = 0 THEN << >>
  ELSE <<[service |-> ServiceEdgeBlock(res.services), span |-> SpanEdgeBlock(res, template_of)]>>

SpanAcquisition(res) ==
  [span_records |-> span_records, orphan_parents |-> res.orphan_parents,
   orphan_links |-> res.orphan_links]

-----------------------------------------------------------------------------

SpanInit ==
  /\ span_templates = << >>
  /\ span_fifo = << >>
  /\ pending_span_edges = << >>
  /\ pending_link_edges = << >>
  /\ span_records = 0
  /\ resolution = EmptyResolution

(* The span part of reset_window_state. *)
ResetSpans ==
  /\ span_templates' = << >>
  /\ span_fifo' = << >>
  /\ pending_span_edges' = << >>
  /\ pending_link_edges' = << >>
  /\ span_records' = 0
  /\ resolution' = EmptyResolution

=============================================================================
