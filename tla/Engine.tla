------------------------------- MODULE Engine -------------------------------
(***************************************************************************)
(* MetaLogEngine: one window at a time is opened, fed and closed into a    *)
(* document.  The engine composes the vocabulary, the adjacency graph and  *)
(* the span topology, keeps a bucket per template and the joint of level,  *)
(* component and role, and reads the document off them at close.           *)
(*                                                                         *)
(* Its callers call one method at a time; answer is what the last call     *)
(* returned.  Components stand for the capped component texts, times for   *)
(* their RFC 3339 form.  Parameter histograms, entropies, divergences and  *)
(* the closure of the cube are not modelled here.                          *)
(***************************************************************************)
EXTENDS Vocabulary, Retention, Behavior

CONSTANTS
  TraceId, NoTrace, NgramSize, MaxNgramKeys,              \* Adjacency
  MaxActiveTraces, TraceScoping,
  SpanId, NoSpan, Component, NoComponent, MaxActiveSpans, \* SpanTopology
  MaxSpanEdgeKeys, SpanEdgesSize, MaxServiceEdges,
  Role,           \* the ordinals of the structural roles
  Time,           \* the times of windows and of their lines, numbers
  EmitStability   \* config_.emit_stability

ASSUME EngineAssumption ==
  /\ TemplateId \subseteq Nat
  /\ NoTrace \notin TraceId /\ NgramSize \in {2, 3} /\ TraceScoping \in BOOLEAN
  /\ NoSpan \notin SpanId /\ NoComponent \notin Component /\ Component \subseteq Nat
  /\ {MaxNgramKeys, MaxActiveTraces, MaxActiveSpans, MaxSpanEdgeKeys, SpanEdgesSize,
      MaxServiceEdges} \subseteq Nat
  /\ Time \subseteq Nat /\ EmitStability \in BOOLEAN

VARIABLES
  global_ring, trace_rings, trace_ring_fifo, ngram_counts, ngram_total, ngram_dropped,
  span_templates, span_fifo, pending_span_edges, pending_link_edges, span_records, resolution,
  window_start,        \* empty, or the start of the open window
  lines_observed,
  buckets,             \* template id -> bucket, as Retention describes it
  cube_base,           \* the bag of <<level, component, role>> joints
  prev_freq, prev_total, prev_window_end,  \* of the last window closed
  answer               \* what the last call returned

A == INSTANCE Adjacency WITH InternalId <- Nat
S == INSTANCE SpanTopology WITH InternalId <- Nat

adjacencyVars ==
  <<global_ring, trace_rings, trace_ring_fifo, ngram_counts, ngram_total, ngram_dropped>>
spanVars == <<span_templates, span_fifo, pending_span_edges, pending_link_edges, span_records,
              resolution>>
windowVars == <<window_start, lines_observed, buckets, cube_base>>
prevVars == <<prev_freq, prev_total, prev_window_end>>
engineVars == <<vocabularyVars, adjacencyVars, spanVars, windowVars, prevVars>>
vars == <<engineVars, answer>>

Nothing == [kind |-> "nothing"]
Accepted == [kind |-> "accepted"]
Refused == [kind |-> "refused"]
LogicError == [kind |-> "logic_error"]

(* A canonical event; a span record has a span id and its references. *)
Event ==
  [str : TemplateStr, level : 0..Unknown, declared : BOOLEAN, role : Role, echoed : BOOLEAN,
   component : Component \cup {NoComponent}, trace : TraceId \cup {NoTrace},
   span : SpanId \cup {NoSpan}, parent : SpanId \cup {NoSpan}, links : Seq(SpanId)]

TypeOK ==
  /\ VocabularyTypeOK /\ A!AdjacencyTypeOK /\ S!SpanTypeOK
  /\ window_start \in {<< >>} \cup {<<t>> : t \in Time}
  /\ lines_observed \in Nat
  /\ DOMAIN buckets = DOMAIN template_index
  /\ \A t \in DOMAIN buckets :
       buckets[t].str \in TemplateStr /\ buckets[t].count \in Nat \ {0} /\ buckets[t].first_seen \in Nat
  /\ DOMAIN prev_freq \subseteq DOMAIN registry
  /\ prev_total \in Nat
  /\ prev_window_end \in {<< >>} \cup {<<t>> : t \in Time}

-----------------------------------------------------------------------------
(* Opening, refusing, ingesting *)

(* Faults: a table of the window that is not cleared. *)
ResetKeepingBuckets ==
  /\ ResetVocabulary /\ A!ResetAdjacency /\ S!ResetSpans
  /\ lines_observed' = 0 /\ cube_base' = << >>
  /\ UNCHANGED buckets
ResetKeepingCube ==
  /\ ResetVocabulary /\ A!ResetAdjacency /\ S!ResetSpans
  /\ lines_observed' = 0 /\ buckets' = << >>
  /\ UNCHANGED cube_base

ResetWindowState ==
  /\ ResetVocabulary
  /\ A!ResetAdjacency
  /\ S!ResetSpans
  /\ lines_observed' = 0
  /\ buckets' = << >>
  /\ cube_base' = << >>

OpenWindow(start) ==
  /\ ResetWindowState
  /\ window_start' = <<start>>
  /\ answer' = Nothing
  /\ UNCHANGED prevVars

DiscardWindow ==
  /\ ResetWindowState
  /\ window_start' = << >>
  /\ answer' = Nothing
  /\ UNCHANGED prevVars

NewBucket(e) ==
  [str |-> e.str, count |-> 0, first_seen |-> lines_observed, levels |-> << >>,
   declared |-> << >>, roles |-> << >>, echoed |-> TRUE, components |-> << >>]

Seen(bucket, e) ==
  [bucket EXCEPT
     !.count = @ + 1,
     !.levels = BagAdd(@, e.level),
     !.declared = IF e.declared THEN BagAdd(@, e.level) ELSE @,
     !.roles = BagAdd(@, e.role),
     !.echoed = @ /\ e.echoed,
     !.components = IF e.component = NoComponent THEN @ ELSE BagAdd(@, e.component)]

(* Fault: a span record enters the adjacency rings as well. *)
TopologyThroughTheRings(e, internal_id) ==
  /\ A!Observe(e.trace, internal_id)
  /\ IF e.span = NoSpan THEN UNCHANGED spanVars
     ELSE S!RecordSpan([span |-> e.span, parent |-> e.parent, links |-> e.links,
                        template |-> internal_id, component |-> e.component])

(* A span record is declared topology and never enters an adjacency ring. *)
Topology(e, internal_id) ==
  IF e.span # NoSpan
    THEN /\ S!RecordSpan([span |-> e.span, parent |-> e.parent, links |-> e.links,
                          template |-> internal_id, component |-> e.component])
         /\ UNCHANGED adjacencyVars
    ELSE /\ A!Observe(e.trace, internal_id)
         /\ UNCHANGED spanVars

IngestLookedUpEvent(e) ==
  LET id == IdOf[e.str] IN
  /\ buckets' = Extend(buckets, id, Seen(IF id \in DOMAIN buckets THEN buckets[id]
                                           ELSE NewBucket(e), e))
  /\ lines_observed' = lines_observed + 1
  /\ cube_base' = BagAdd(cube_base, <<e.level, e.component, e.role>>)
  /\ Topology(e, InternalIdFor(e.str))

IngestEvent(e, admit) ==
  /\ window_start # << >>
  /\ ~Refuses(e.str, admit)
  /\ LookUp(e.str)
  /\ IngestLookedUpEvent(e)
  /\ answer' = Accepted
  /\ UNCHANGED <<window_start, prevVars>>

RefuseEvent(e, admit) ==
  /\ window_start # << >>
  /\ Refuses(e.str, admit)
  /\ answer' = Refused
  /\ UNCHANGED engineVars

(* ingest_event or close_window with no window open. *)
Misuse ==
  /\ window_start = << >>
  /\ answer' = LogicError
  /\ UNCHANGED engineVars

-----------------------------------------------------------------------------
(* Closing *)

(* What close_window may be asked to report: nothing said, no event time,  *)
(* or an envelope of event times.                                          *)
Reports == {[said |-> FALSE, envelope |-> << >>], [said |-> TRUE, envelope |-> << >>]}
             \cup {[said |-> TRUE, envelope |-> <<[start |-> s, end |-> t]>>] : s, t \in Time}

(* Machinery times are reported only when the caller says nothing. *)
Envelope(end, reported) ==
  LET bounds == IF reported.said THEN reported.envelope
                ELSE <<[start |-> window_start[1], end |-> end]>>
  IN  [i \in DOMAIN bounds |->
         [start |-> bounds[i].start, end |-> bounds[i].end,
          duration |-> IF bounds[i].end < bounds[i].start THEN 0
                       ELSE bounds[i].end - bounds[i].start]]

Frequencies == [t \in DOMAIN buckets |-> buckets[t].count]

StabilityBlock ==
  IF ~EmitStability \/ prev_total = 0 \/ lines_observed = 0 THEN << >>
  ELSE <<[previous_window_end |-> prev_window_end,
          new_templates |-> Cardinality(DOMAIN buckets \ DOMAIN prev_freq),
          vanished_templates |-> Cardinality(DOMAIN prev_freq \ DOMAIN buckets)]>>

AcquisitionBlock(res) ==
  [records_with_component |->
     MapThenSumSet(LAMBDA t : SumFunction(buckets[t].components), DOMAIN buckets),
   distinct_components |->
     Cardinality(UNION {DOMAIN buckets[t].components : t \in DOMAIN buckets}),
   spans |-> S!SpanAcquisition(res)]

Document(end, reported) ==
  LET res == S!Resolved
      graph == Transitions(ngram_counts)
      surprise == [t \in DOMAIN buckets |-> IncomingSurprise(graph, template_index[t])]
      by_internal_id == [i \in {template_index[t] : t \in DOMAIN buckets} |->
                           buckets[TemplateAt(i)].count]
  IN  [envelope |-> Envelope(end, reported),
       lines |-> lines_observed,
       stats |-> StatsBlock(buckets, lines_observed, surprise),
       presence_churn |-> lines_observed > 0,
       behavior |-> BehaviorBlock(ngram_counts, ngram_total, ngram_dropped, templates,
                                  by_internal_id),
       stability |-> StabilityBlock,
       cube |-> cube_base,
       acquisition |-> AcquisitionBlock(res),
       topology |-> S!SpanBlocks(res, [i \in 0..(Len(templates) - 1) |-> TemplateAt(i)]),
       last_dropped |-> ngram_dropped]

(* Fault: a document without an envelope leaves the end of an earlier one. *)
StashKeepingTheEnd(doc) ==
  IF EmitStability
    THEN /\ prev_freq' = Frequencies
         /\ prev_total' = lines_observed
         /\ prev_window_end' = IF doc.envelope = << >> THEN prev_window_end
                               ELSE <<doc.envelope[1].end>>
    ELSE UNCHANGED prevVars

StashPrevWindow(doc) ==
  IF EmitStability
    THEN /\ prev_freq' = Frequencies
         /\ prev_total' = lines_observed
         /\ prev_window_end' = [i \in DOMAIN doc.envelope |-> doc.envelope[i].end]
    ELSE UNCHANGED prevVars

CloseWindow(end, reported) ==
  LET doc == Document(end, reported) IN
  /\ window_start # << >>
  /\ answer' = [kind |-> "document", doc |-> doc]
  /\ StashPrevWindow(doc)
  /\ ResetWindowState
  /\ window_start' = << >>

-----------------------------------------------------------------------------

Init ==
  /\ VocabularyInit
  /\ A!AdjacencyInit
  /\ S!SpanInit
  /\ window_start = << >>
  /\ lines_observed = 0
  /\ buckets = << >>
  /\ cube_base = << >>
  /\ prev_freq = << >>
  /\ prev_total = 0
  /\ prev_window_end = << >>
  /\ answer = Nothing

(* Every call but the ingests, which the modules that extend this one      *)
(* enumerate.                                                              *)
Lifecycle ==
  \/ \E start \in Time : OpenWindow(start)
  \/ \E end \in Time, reported \in Reports : CloseWindow(end, reported)
  \/ DiscardWindow
  \/ Misuse

=============================================================================
