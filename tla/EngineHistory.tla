--------------------------- MODULE EngineHistory ---------------------------
(***************************************************************************)
(* Engine with the log of the open window beside it: the events accepted,  *)
(* in order.  A published document is compared with the log of the window  *)
(* it closed; no action of the engine reads the log.                       *)
(***************************************************************************)
EXTENDS Engine

CONSTANTS
  Events,    \* the events considered
  MaxLines   \* bounds the lines of one window, for TLC

ASSUME HistoryAssumption == Events \subseteq Event /\ MaxLines \in Nat

VARIABLES
  log,    \* the events accepted in the open window
  closed  \* the log of the window the last call closed, if it closed one

historyVars == <<log, closed>>
allVars == <<vars, historyVars>>

HistoryInit == Init /\ log = << >> /\ closed = << >>

Ingest(e, admit) ==
  /\ lines_observed < MaxLines
  /\ IngestEvent(e, admit)
  /\ log' = Append(log, e)
  /\ closed' = << >>

Refuse(e, admit) ==
  /\ RefuseEvent(e, admit)
  /\ closed' = << >>
  /\ UNCHANGED log

Call ==
  /\ Lifecycle
  /\ log' = IF answer'.kind = "logic_error" THEN log ELSE << >>
  /\ closed' = IF answer'.kind = "document" THEN log ELSE << >>

Next ==
  \/ \E e \in Events, admit \in BOOLEAN : Ingest(e, admit) \/ Refuse(e, admit)
  \/ Call

Spec == HistoryInit /\ [][Next]_allVars

-----------------------------------------------------------------------------
(* Reading a document and a log *)

Published == answer.kind = "document"

doc == answer.doc

Id(e) == IdOf[e.str]

IdsIn(events) == {Id(events[i]) : i \in DOMAIN events}

(* The mass a document accounts for. *)
Mass(stats) ==
  SumFunction([t \in DOMAIN stats.top_k |-> stats.top_k[t].count])
  + SumFunction([i \in DOMAIN stats.reservoir |-> stats.reservoir[i].row.count])
  + stats.tail_count

Templates(stats) ==
  Cardinality(DOMAIN stats.top_k) + Len(stats.reservoir) + stats.tail_unique

(* Whether an event is of an observation stream; a span record is of none. *)
InStream(e, stream) ==
  e.span = NoSpan /\ stream = IF TraceScoping THEN e.trace ELSE NoTrace

(* One event of a stream and the next.                                     *)
Adjoin(events, stream, i, j) ==
  /\ i < j /\ InStream(events[i], stream) /\ InStream(events[j], stream)
  /\ \A k \in (i + 1)..(j - 1) : ~InStream(events[k], stream)

(* The ids of an n-gram, logged one after the other in one stream.         *)
Observed(events, gram) ==
  \E stream \in TraceId \cup {NoTrace}, at \in [DOMAIN gram -> DOMAIN events] :
    /\ \A j \in DOMAIN gram : gram[j] = Id(events[at[j]])
    /\ \A j \in 1..(Len(gram) - 1) : Adjoin(events, stream, at[j], at[j + 1])

Spans(events) == {events[i] : i \in {j \in DOMAIN events : events[j].span # NoSpan}}

(* The occurrences of t, as the log has them. *)
CountIn(events, t) == Cardinality({i \in DOMAIN events : Id(events[i]) = t})

-----------------------------------------------------------------------------
(* Implementation of the ledger *)

Summary ==
  IF ~Published THEN answer
  ELSE [kind |-> "document", end |-> [i \in DOMAIN doc.envelope |-> doc.envelope[i].end],
        lines |-> Mass(doc.stats), templates |-> Templates(doc.stats),
        drift |-> [i \in DOMAIN doc.stability |->
                     [new_templates |-> doc.stability[i].new_templates,
                      vanished_templates |-> doc.stability[i].vanished_templates,
                      since |-> doc.stability[i].previous_window_end]]]

Ledger == INSTANCE WindowLedger WITH
  open <- window_start # << >>,
  tally <- Frequencies,
  known <- DOMAIN registry,
  last <- [freq |-> prev_freq, end |-> prev_window_end],
  answer <- Summary

(* The engine implements the ledger: top_k, reservoir and tail together    *)
(* account every line of the window whatever the retention bounds, drift   *)
(* is told against the last window closed and dated by the end that        *)
(* window's document reported, by none when it reported none, a discarded  *)
(* window leaves no trace in it, and a template once accepted is never     *)
(* refused.                                                                *)
ImplementsLedger == Ledger!Spec

-----------------------------------------------------------------------------

(* The lines whose joint has x for an axis, as the cube and the buckets     *)
(* count them.                                                             *)
LinesWith(axis, x) == SumFunctionOnSet(cube_base, {k \in DOMAIN cube_base : k[axis] = x})

TalliedIn(bags, x) == SumFunction([t \in DOMAIN bags |-> Tally(bags[t], x)])

(* The three accumulations of ingest never drift apart: the joint of the   *)
(* cube, the counters of the buckets and the number of lines are views of  *)
(* one stream of events, in every axis.                                    *)
JointAndMarginalsAgree ==
  LET levels == [t \in DOMAIN buckets |-> buckets[t].levels]
      components == [t \in DOMAIN buckets |-> buckets[t].components]
      roles == [t \in DOMAIN buckets |-> buckets[t].roles]
  IN  /\ lines_observed = SumFunction(cube_base)
      /\ \A l \in 0..Unknown : LinesWith(1, l) = TalliedIn(levels, l)
      /\ \A c \in Component : LinesWith(2, c) = TalliedIn(components, c)
      /\ \A r \in Role : LinesWith(3, r) = TalliedIn(roles, r)

(* A document speaks of its own window only: every template it names was   *)
(* logged in that window with the count it is given, and every n-gram,     *)
(* path step and span edge is a relation that window's events really had.  *)
(* Nothing of an earlier window shows through, although internal ids start *)
(* again from 0 at each one.                                               *)
DocumentIsOfItsWindow ==
  Published =>
    /\ \A t \in DOMAIN doc.stats.top_k : doc.stats.top_k[t].count = CountIn(closed, t)
    /\ \A i \in DOMAIN doc.stats.reservoir :
         doc.stats.reservoir[i].row.count = CountIn(closed, doc.stats.reservoir[i].id)
    /\ \A b \in Range(doc.behavior) :
         /\ \A n \in b.top_ngrams : Observed(closed, n.sequence)
         /\ Range(b.dominant_path) \subseteq IdsIn(closed)
         /\ \A i \in 1..(Len(b.dominant_path) - 1) :
              Observed(closed, SubSeq(b.dominant_path, i, i + 1))
    /\ \A edge \in UNION {DOMAIN u.span.edges : u \in Range(doc.topology)} :
         \E p, c \in Spans(closed) : c.parent = p.span /\ <<Id(p), Id(c)>> = edge

(* A truncated n-gram distribution never passes for a complete one: what   *)
(* the last_window_ngram_observations_dropped accessor says after close is *)
(* what the document declares.                                             *)
DropsAreDeclared ==
  (Published /\ doc.last_dropped > 0) =>
    \E b \in Range(doc.behavior) : b.dropped = doc.last_dropped

=============================================================================
