----------------------------- MODULE SpanProofs -----------------------------
(***************************************************************************)
(* For any spans, components and bounds, and windows of any length, what   *)
(* record_span holds is what its FIFO lists, and what a close publishes is *)
(* what its window declared, less what it counts as lost.                  *)
(*                                                                         *)
(* The argument for the second.  HistoryInv relates the open window to its *)
(* records: a queue is a listing of what the records declare, and a span   *)
(* held is one of theirs, of its first record while nothing was evicted.   *)
(* Resolution is a fold over the queues; a prefix of it accounts for every *)
(* reference of the prefix once (ParentStep, LinkStep), so the whole of it *)
(* for all of them.  The blocks published are then a ranking of the edges. *)
(***************************************************************************)
EXTENDS SpanHistory, DataLemmas

(* The checked FifoIsTheSpans does not say that the FIFO has no duplicate, *)
(* without which dropping its head could leave the head held.              *)
IInv ==
  /\ TypeOK
  /\ FifoOfBounded(SpanId, span_fifo, DOMAIN span_templates, MaxActiveSpans)

(* Holding a span keeps the table and its FIFO, whatever it evicts.        *)
LEMMA HoldKeepsSpans ==
  ASSUME IInv, NEW span \in SpanId, NEW node \in SpanNode, HoldSpan(span, node)
  PROVE  /\ DOMAIN span_templates' \subseteq SpanId
         /\ span_templates' \in [DOMAIN span_templates' -> SpanNode]
         /\ FifoOfBounded(SpanId, span_fifo, DOMAIN span_templates, MaxActiveSpans)'
<1> DEFINE held == DOMAIN span_templates
           kept == held \ EvictedSpan(span)
<1>1. /\ held \subseteq SpanId /\ span_templates \in [held -> SpanNode]
      /\ FifoOfBounded(SpanId, span_fifo, held, MaxActiveSpans)
  BY DEF IInv, TypeOK, SpanTypeOK
<1>2. CASE span \in held
  BY <1>1, <1>2 DEF HoldSpan
<1>3. CASE span \notin held
  <2>1. span_templates' = [s \in kept \cup {span} |->
                             IF s = span THEN node ELSE span_templates[s]]
    BY <1>3 DEF HoldSpan
  <2>2. DOMAIN span_templates' = kept \cup {span} /\ kept \cup {span} \subseteq SpanId
    BY <1>1, <2>1
  <2>3. span_templates' \in [kept \cup {span} -> SpanNode]
    BY <1>1, <2>1
  <2>4. /\ EvictedSpan(span) = Displaced(span_fifo, held, MaxActiveSpans)
        /\ span_fifo' = AfterHold(span_fifo, held, MaxActiveSpans, span)
    BY <1>3 DEF HoldSpan, EvictedSpan, Displaced, AfterHold
  <2>5. FifoOfBounded(SpanId, span_fifo', kept \cup {span}, MaxActiveSpans)
    BY <1>1, <1>3, <2>4, FifoHold, SpanAssumption
  <2> QED BY <2>2, <2>3, <2>5
<1> QED BY <1>2, <1>3

(* The references a record queues are those of its parent and its links.   *)
LEMMA QueuedReferences ==
  ASSUME SpanTypeOK, NEW r \in SpanRecord, RecordSpan(r)
  PROVE  /\ pending_span_edges' \in Seq(PendingSpanEdge)
         /\ pending_link_edges' \in Seq(PendingLinkEdge)
<1>1. /\ r.parent \in SpanId \cup {NoSpan} /\ r.template \in InternalId
      /\ r.component \in AnyComponent /\ r.links \in Seq(SpanId)
  BY DEF SpanRecord
<1>2. pending_span_edges' \in Seq(PendingSpanEdge)
  <2>1. CASE r.parent = NoSpan
    BY <2>1 DEF RecordSpan, SpanTypeOK
  <2>2. CASE r.parent # NoSpan
    <3> DEFINE edge == [child |-> r.template, parent |-> r.parent, component |-> r.component]
    <3>1. edge \in PendingSpanEdge
      BY <1>1, <2>2 DEF PendingSpanEdge
    <3>2. pending_span_edges' = Append(pending_span_edges, edge)
      BY <2>2 DEF RecordSpan
    <3> HIDE DEF edge
    <3> QED BY <3>1, <3>2, AppendProperties DEF SpanTypeOK
  <2> QED BY <2>1, <2>2
<1>3. pending_link_edges' \in Seq(PendingLinkEdge)
  <2> DEFINE linked == [i \in DOMAIN r.links |->
                          [component |-> r.component, linked |-> r.links[i]]]
  <2>1. DOMAIN r.links = 1..Len(r.links) /\ Len(r.links) \in Nat
        /\ \A i \in DOMAIN r.links : r.links[i] \in SpanId
    BY <1>1
  <2>2. \A i \in DOMAIN r.links :
          [component |-> r.component, linked |-> r.links[i]] \in PendingLinkEdge
    BY <1>1, <2>1 DEF PendingLinkEdge
  <2>3. linked \in [1..Len(r.links) -> PendingLinkEdge]
    BY <2>1, <2>2
  <2>4. pending_link_edges' = pending_link_edges \o linked
    BY DEF RecordSpan
  <2> HIDE DEF linked
  <2>5. linked \in Seq(PendingLinkEdge)
    BY <2>1, <2>3, IsASeq
  <2> QED BY <2>4, <2>5, ConcatProperties DEF SpanTypeOK
<1> QED BY <1>2, <1>3

LEMMA EmptyWindow ==
  ASSUME SpanInit
  PROVE  SpanTypeOK /\ FifoOfBounded(SpanId, span_fifo, DOMAIN span_templates, MaxActiveSpans)
<1>1. DOMAIN << >> = {}
  OBVIOUS
<1>2. SpanTypeOK
  BY <1>1 DEF SpanInit, SpanTypeOK
<1>3. FifoOfBounded(SpanId, span_fifo, DOMAIN span_templates, MaxActiveSpans)
  BY <1>1, EmptyFifoBounded, SpanAssumption DEF SpanInit
<1> QED BY <1>2, <1>3

LEMMA InitHasIInv == Init => IInv
BY EmptyWindow DEF Init, IInv, TypeOK

LEMMA NextKeepsIInv == IInv /\ [Next]_vars => IInv'
<1> SUFFICES ASSUME IInv, [Next]_vars PROVE IInv'
  OBVIOUS
<1>1. ASSUME NEW r \in Records, Record(r) PROVE IInv'
  <2>1. r \in SpanRecord /\ RecordSpan(r) /\ UNCHANGED resolution
    BY <1>1, RecordsAssumption DEF Record, RecordSpan
  <2> DEFINE node == [template |-> r.template, component |-> r.component]
  <2>2. r.span \in SpanId /\ node \in SpanNode /\ HoldSpan(r.span, node)
    BY <2>1 DEF SpanRecord, SpanNode, RecordSpan
  <2> HIDE DEF node
  <2>3. /\ DOMAIN span_templates' \subseteq SpanId
        /\ span_templates' \in [DOMAIN span_templates' -> SpanNode]
        /\ FifoOfBounded(SpanId, span_fifo, DOMAIN span_templates, MaxActiveSpans)'
    BY <2>2, HoldKeepsSpans
  <2>4. /\ pending_span_edges' \in Seq(PendingSpanEdge)
        /\ pending_link_edges' \in Seq(PendingLinkEdge)
    BY <2>1, QueuedReferences DEF IInv, TypeOK
  <2>5. span_records' \in Nat
    BY <2>1 DEF RecordSpan, IInv, TypeOK, SpanTypeOK
  <2>6. SpanTypeOK'
    BY <2>1, <2>3, <2>4, <2>5 DEF IInv, TypeOK, SpanTypeOK, FifoOfBounded
  <2>7. records' \in Seq(Records)
    BY <1>1, AppendProperties DEF Record, IInv, TypeOK
  <2>8. evictions' \in Nat
    <3>1. evictions \in Nat /\ evictions' = evictions + Cardinality(EvictedSpan(r.span))
      BY <1>1 DEF Record, IInv, TypeOK
    <3>2. CASE r.span \in DOMAIN span_templates
      <4>1. EvictedSpan(r.span) = {}
        BY <3>2 DEF EvictedSpan
      <4> QED BY <3>1, <4>1, EmptyCount
    <3>3. CASE r.span \notin DOMAIN span_templates
      <4>1. EvictedSpan(r.span) = Displaced(span_fifo, DOMAIN span_templates, MaxActiveSpans)
        BY <3>3 DEF EvictedSpan, Displaced
      <4>2. Cardinality(EvictedSpan(r.span)) \in {0, 1}
        BY ONLY <4>1, DisplacedCount
      <4> QED BY <3>1, <4>2
    <3> QED BY <3>2, <3>3
  <2>9. Len(published') <= 1
    BY <1>1 DEF Record
  <2> QED BY <2>3, <2>6, <2>7, <2>8, <2>9 DEF IInv, TypeOK
<1>2. CASE Close \/ Discard
  <2>1. SpanInit'
    BY <1>2 DEF Close, Discard, ResetSpans, SpanInit
  <2>2. (SpanInit => SpanTypeOK /\ FifoOfBounded(SpanId, span_fifo, DOMAIN span_templates,
                                                  MaxActiveSpans))'
    BY EmptyWindow, PTL
  <2>3. records' = << >> /\ evictions' = 0
    BY <1>2 DEF Close, Discard
  <2>4. Len(published') <= 1
    <3>1. published' = << >> \/ \E p : published' = <<p>>
      BY <1>2 DEF Close, Discard
    <3>2. Len(<< >>) = 0 /\ \A p : Len(<<p>>) = 1
      OBVIOUS
    <3>3. CASE published' = << >>
      BY <3>3
    <3>4. CASE \E p : published' = <<p>>
      <4>1. PICK p : published' = <<p>>
        BY <3>4
      <4> QED BY <4>1
    <3> QED BY <3>1, <3>3, <3>4
  <2> QED BY <2>1, <2>2, <2>3, <2>4 DEF IInv, TypeOK
<1>3. CASE UNCHANGED vars
  BY <1>3 DEF vars, spanVars, IInv, TypeOK, SpanTypeOK, FifoOfBounded
<1> QED BY <1>1, <1>2, <1>3 DEF Next

LEMMA AlwaysIInv == Spec => []IInv
BY InitHasIInv, NextKeepsIInv, PTL DEF Spec

-----------------------------------------------------------------------------
(* What is held and queued, against the records of the window *)

(* A list of the elements of S, each once, is what a queue is compared     *)
(* with: the k-th reference queued is the one that at[k] declared.         *)
ParentsAreQueued(recs, at) ==
  /\ at \in Seq(Nat)
  /\ Lists(at, Children(recs))
  /\ Len(at) = Len(pending_span_edges)
  /\ \A k \in 1..Len(at) :
       /\ pending_span_edges[k].child = recs[at[k]].template
       /\ pending_span_edges[k].parent = recs[at[k]].parent
       /\ pending_span_edges[k].component = recs[at[k]].component

LinksAreQueued(recs, at) ==
  /\ at \in Seq(Nat \X Nat)
  /\ Lists(at, LinksOf(recs))
  /\ Len(at) = Len(pending_link_edges)
  /\ \A k \in 1..Len(at) :
       /\ pending_link_edges[k].component = recs[at[k][1]].component
       /\ pending_link_edges[k].linked = recs[at[k][1]].links[at[k][2]]

NodeOf(r) == [template |-> r.template, component |-> r.component]

IsFirst(recs, span, i) ==
  /\ i \in DOMAIN recs
  /\ recs[i].span = span
  /\ \A j \in DOMAIN recs : recs[j].span = span => i <= j

(* A span held is one of the window's, with the node of a record of it; of *)
(* its first record, as long as nothing was evicted.                       *)
HeldAreRecorded(recs) ==
  \A s \in DOMAIN span_templates :
    \E i \in DOMAIN recs : recs[i].span = s /\ span_templates[s] = NodeOf(recs[i])

FirstAreHeld(recs) ==
  /\ SpansOf(recs) \subseteq DOMAIN span_templates
  /\ \A s \in DOMAIN span_templates :
       \E i \in DOMAIN recs : IsFirst(recs, s, i) /\ span_templates[s] = NodeOf(recs[i])

HistoryInv ==
  /\ span_records = Len(records)
  /\ \E at : ParentsAreQueued(records, at)
  /\ \E at : LinksAreQueued(records, at)
  /\ HeldAreRecorded(records)
  /\ evictions = 0 => FirstAreHeld(records)

(* A record more.                                                          *)
LEMMA RecordsAppend ==
  ASSUME NEW recs \in Seq(Records), NEW r \in Records
  PROVE  LET n == Len(recs)
             new == Append(recs, r)
         IN  /\ n \in Nat /\ DOMAIN recs = 1..n /\ DOMAIN new = (1..n) \cup {n + 1}
             /\ new[n + 1] = r
             /\ \A i \in 1..n : new[i] = recs[i] /\ i # n + 1
             /\ Children(new) = Children(recs) \cup (IF r.parent = NoSpan THEN {} ELSE {n + 1})
             /\ LinksOf(new) = LinksOf(recs) \cup ({n + 1} \X DOMAIN r.links)
             /\ SpansOf(new) = SpansOf(recs) \cup {r.span}
<1> DEFINE n == Len(recs)
           new == Append(recs, r)
<1>1. /\ n \in Nat /\ DOMAIN recs = 1..n /\ DOMAIN new = 1..(n + 1)
      /\ new[n + 1] = r
      /\ \A i \in 1..n : new[i] = recs[i] /\ i # n + 1
  BY AppendProperties
<1>2. 1..(n + 1) = (1..n) \cup {n + 1}
  BY <1>1
<1> HIDE DEF n, new
<1>3. Children(new) = Children(recs) \cup (IF r.parent = NoSpan THEN {} ELSE {n + 1})
  BY <1>1, <1>2 DEF Children
<1>4. LinksOf(new) = LinksOf(recs) \cup ({n + 1} \X DOMAIN r.links)
  <2>1. LinksOf(new) = UNION {{i} \X DOMAIN new[i].links : i \in (1..n) \cup {n + 1}}
    BY <1>1, <1>2 DEF LinksOf
  <2>2. LinksOf(recs) = UNION {{i} \X DOMAIN new[i].links : i \in 1..n}
    BY <1>1 DEF LinksOf
  <2>3. \A l : l \in LinksOf(new) <=> l \in LinksOf(recs) \/ l \in {n + 1} \X DOMAIN r.links
    BY <1>1, <2>1, <2>2
  <2> QED BY <2>3
<1>5. SpansOf(new) = SpansOf(recs) \cup {r.span}
  BY <1>1, <1>2 DEF SpansOf
<1> QED BY <1>1, <1>2, <1>3, <1>4, <1>5 DEF n, new

(* A record queues its parent, when it has one, behind those queued.       *)
LEMMA ParentsStayQueued ==
  ASSUME IInv, NEW r \in Records, Record(r), NEW at, ParentsAreQueued(records, at)
  PROVE  \E new : ParentsAreQueued(records, new)'
<1> DEFINE n == Len(records)
           m == Len(at)
<1>1. records \in Seq(Records) /\ records' = Append(records, r)
  BY DEF Record, IInv, TypeOK
<1>2. /\ at \in Seq(Nat) /\ Lists(at, Children(records)) /\ m = Len(pending_span_edges)
      /\ DOMAIN at = 1..m /\ m \in Nat
  BY DEF ParentsAreQueued
<1>3. \A k \in 1..m : at[k] \in Children(records)
  BY <1>2 DEF Lists, Range
<1>4. /\ n \in Nat /\ DOMAIN records = 1..n
      /\ records'[n + 1] = r
      /\ \A i \in 1..n : records'[i] = records[i] /\ i # n + 1
      /\ Children(records') = Children(records) \cup (IF r.parent = NoSpan THEN {} ELSE {n + 1})
  BY <1>1, RecordsAppend
<1>5. Children(records) \subseteq 1..n
  BY <1>4 DEF Children
<1>6. \A k \in 1..m : records'[at[k]] = records[at[k]]
  BY <1>3, <1>4, <1>5
<1>7. \A k \in 1..m :
        /\ pending_span_edges[k].child = records[at[k]].template
        /\ pending_span_edges[k].parent = records[at[k]].parent
        /\ pending_span_edges[k].component = records[at[k]].component
  BY DEF ParentsAreQueued
<1> HIDE DEF n, m
<1>8. CASE r.parent = NoSpan
  <2>1. pending_span_edges' = pending_span_edges
    BY <1>8 DEF Record, RecordSpan
  <2>2. Lists(at, Children(records'))
    BY <1>2, <1>4, <1>8
  <2>3. Len(at) = Len(pending_span_edges')
    BY <1>2, <2>1 DEF m
  <2>4. ParentsAreQueued(records, at)'
    BY <1>2, <1>6, <1>7, <2>1, <2>2, <2>3 DEF ParentsAreQueued, m
  <2> QED BY <2>4
<1>9. CASE r.parent # NoSpan
  <2> DEFINE new == Append(at, n + 1)
             edge == [child |-> r.template, parent |-> r.parent, component |-> r.component]
  <2>1. pending_span_edges' = Append(pending_span_edges, edge)
    BY <1>9 DEF Record, RecordSpan
  <2>2. /\ edge.child = r.template /\ edge.parent = r.parent /\ edge.component = r.component
        /\ edge \in PendingSpanEdge
    BY <1>9, RecordsAssumption DEF PendingSpanEdge, SpanRecord
  <2> HIDE DEF edge
  <2>3. pending_span_edges \in Seq(PendingSpanEdge)
    BY DEF IInv, TypeOK, SpanTypeOK
  <2>4. /\ Len(pending_span_edges') = m + 1
        /\ pending_span_edges'[m + 1] = edge
        /\ \A k \in 1..m : pending_span_edges'[k] = pending_span_edges[k]
    BY <1>2, <2>1, <2>2, <2>3, AppendProperties
  <2>5. n + 1 \in Nat /\ n + 1 \notin Children(records)
    BY <1>4, <1>5
  <2>6. Lists(new, Children(records'))
    <3>1. Lists(new, Children(records) \cup {n + 1})
      BY <1>2, <2>5, FifoAppend
    <3> QED BY <1>4, <1>9, <3>1
  <2>7. /\ new \in Seq(Nat) /\ Len(new) = m + 1 /\ new[m + 1] = n + 1
        /\ \A k \in 1..m : new[k] = at[k]
    BY <1>2, <2>5, AppendProperties DEF m
  <2> HIDE DEF new
  <2>8. ASSUME NEW k \in 1..Len(new)
        PROVE  /\ pending_span_edges'[k].child = records'[new[k]].template
               /\ pending_span_edges'[k].parent = records'[new[k]].parent
               /\ pending_span_edges'[k].component = records'[new[k]].component
    <3>1. CASE k \in 1..m
      BY <1>6, <1>7, <2>4, <2>7, <3>1
    <3>2. CASE k = m + 1
      BY <1>4, <2>2, <2>4, <2>7, <3>2
    <3> QED BY <1>2, <2>7, <3>1, <3>2
  <2>9. PICK now : now = new
    OBVIOUS
  <2>10. ParentsAreQueued(records, now)'
    BY <2>4, <2>6, <2>7, <2>8, <2>9 DEF ParentsAreQueued
  <2> QED BY <2>10
<1> QED BY <1>8, <1>9

(* A record queues its links in their order, behind those queued.          *)
LEMMA LinksStayQueued ==
  ASSUME IInv, NEW r \in Records, Record(r), NEW at, LinksAreQueued(records, at)
  PROVE  \E new : LinksAreQueued(records, new)'
<1> DEFINE n == Len(records)
           m == Len(at)
           q == Len(r.links)
           queued == [i \in DOMAIN r.links |-> [component |-> r.component, linked |-> r.links[i]]]
           more == [i \in 1..q |-> <<n + 1, i>>]
           new == at \o more
<1>1. records \in Seq(Records) /\ records' = Append(records, r)
  BY DEF Record, IInv, TypeOK
<1>2. /\ at \in Seq(Nat \X Nat) /\ Lists(at, LinksOf(records)) /\ m = Len(pending_link_edges)
      /\ DOMAIN at = 1..m /\ m \in Nat
  BY DEF LinksAreQueued
<1>3. \A k \in 1..m : at[k] \in LinksOf(records)
  BY <1>2 DEF Lists, Range
<1>4. /\ n \in Nat /\ DOMAIN records = 1..n
      /\ records'[n + 1] = r
      /\ \A i \in 1..n : records'[i] = records[i] /\ i # n + 1
      /\ LinksOf(records') = LinksOf(records) \cup ({n + 1} \X DOMAIN r.links)
  BY <1>1, RecordsAppend
<1>5. \A l \in LinksOf(records) : l[1] \in 1..n
  BY <1>4 DEF LinksOf
<1>6. \A k \in 1..m : records'[at[k][1]] = records[at[k][1]]
  BY <1>3, <1>4, <1>5
<1>7. \A k \in 1..m :
        /\ pending_link_edges[k].component = records[at[k][1]].component
        /\ pending_link_edges[k].linked = records[at[k][1]].links[at[k][2]]
  BY DEF LinksAreQueued
<1>8. r.component \in AnyComponent /\ r.links \in Seq(SpanId) /\ q \in Nat /\ DOMAIN r.links = 1..q
  BY RecordsAssumption DEF SpanRecord
<1>9. pending_link_edges' = pending_link_edges \o queued
  BY DEF Record, RecordSpan
<1>10. /\ queued \in Seq(PendingLinkEdge) /\ Len(queued) = q
       /\ \A i \in 1..q : queued[i].component = r.component /\ queued[i].linked = r.links[i]
  <2>1. \A i \in 1..q : [component |-> r.component, linked |-> r.links[i]] \in PendingLinkEdge
    BY <1>8 DEF PendingLinkEdge
  <2>2. queued \in [1..q -> PendingLinkEdge]
    BY <1>8, <2>1
  <2>3. \A i \in 1..q : queued[i].component = r.component /\ queued[i].linked = r.links[i]
    BY <1>8
  <2> HIDE DEF queued, q
  <2>4. queued \in Seq(PendingLinkEdge) /\ Len(queued) = q
    BY <1>8, <2>2, IsASeq
  <2> QED BY <2>3, <2>4
<1>11. /\ more \in Seq(Nat \X Nat) /\ Len(more) = q /\ DOMAIN more = 1..q
       /\ \A i \in 1..q : more[i] = <<n + 1, i>>
  <2>1. more \in [1..q -> Nat \X Nat]
    BY <1>4, <1>8
  <2> HIDE DEF more
  <2>2. more \in Seq(Nat \X Nat) /\ Len(more) = q /\ DOMAIN more = 1..q
    BY <1>8, <2>1, IsASeq
  <2> QED BY <2>2 DEF more
<1>12. Lists(more, {n + 1} \X DOMAIN r.links)
  BY <1>8, PairsAreListed
<1>13. LinksOf(records) \cap ({n + 1} \X DOMAIN r.links) = {}
  BY <1>4, <1>5
<1> HIDE DEF n, m, q, queued, more, new
<1>14. Lists(new, LinksOf(records'))
  <2>1. Lists(at \o more, LinksOf(records) \cup ({n + 1} \X DOMAIN r.links))
    BY <1>2, <1>11, <1>12, <1>13, ListsConcat
  <2> QED BY <1>4, <2>1 DEF new
<1>15. /\ new \in Seq(Nat \X Nat) /\ Len(new) = m + q
       /\ \A k \in 1..m : new[k] = at[k]
       /\ \A k \in (m + 1)..(m + q) : k - m \in 1..q /\ new[k] = <<n + 1, k - m>>
  <2>0. at \in Seq(Nat \X Nat) /\ more \in Seq(Nat \X Nat) /\ Len(at) = m /\ Len(more) = q
    BY <1>2, <1>11 DEF m
  <2>a. new \in Seq(Nat \X Nat) /\ Len(new) = m + q
    BY <2>0, ConcatProperties DEF new
  <2>1. ASSUME NEW k \in 1..m PROVE new[k] = at[k]
    <3>1. k \in 1..(m + q) /\ k <= m
      BY <1>2, <1>8
    <3> QED BY <2>0, <3>1, ConcatProperties DEF new
  <2>2. ASSUME NEW k \in (m + 1)..(m + q) PROVE k - m \in 1..q /\ new[k] = <<n + 1, k - m>>
    <3>1. k - m \in 1..q /\ k \in 1..(m + q) /\ ~(k <= m)
      BY <1>2, <1>8
    <3>2. new[k] = more[k - m]
      BY <2>0, <3>1, ConcatProperties DEF new
    <3> QED BY <1>11, <3>1, <3>2
  <2> QED BY <2>a, <2>1, <2>2
<1>16. /\ Len(pending_link_edges') = m + q
       /\ \A k \in 1..m : pending_link_edges'[k] = pending_link_edges[k]
       /\ \A k \in (m + 1)..(m + q) : pending_link_edges'[k] = queued[k - m]
  <2>1. pending_link_edges \in Seq(PendingLinkEdge)
    BY DEF IInv, TypeOK, SpanTypeOK
  <2> QED BY <1>2, <1>8, <1>9, <1>10, <2>1, ConcatProperties
<1>17. ASSUME NEW k \in 1..Len(new)
       PROVE  /\ pending_link_edges'[k].component = records'[new[k][1]].component
              /\ pending_link_edges'[k].linked = records'[new[k][1]].links[new[k][2]]
  <2>1. CASE k \in 1..m
    <3>1. new[k] = at[k] /\ pending_link_edges'[k] = pending_link_edges[k]
      BY <1>15, <1>16, <2>1
    <3>2. records'[at[k][1]] = records[at[k][1]]
      BY <1>6, <2>1
    <3> QED BY <1>7, <2>1, <3>1, <3>2
  <2>2. CASE k \in (m + 1)..(m + q)
    BY <1>4, <1>10, <1>15, <1>16, <2>2
  <2> QED BY <1>2, <1>8, <1>15, <2>1, <2>2
<1>18. PICK now : now = new
  OBVIOUS
<1>19. LinksAreQueued(records, now)'
  BY <1>14, <1>15, <1>16, <1>17, <1>18 DEF LinksAreQueued
<1> QED BY <1>19

(* An eviction takes a span away; a record adds one that is its own.       *)
LEMMA HeldStayRecorded ==
  ASSUME IInv, HistoryInv, NEW r \in Records, Record(r)
  PROVE  HeldAreRecorded(records)' /\ (evictions' = 0 => FirstAreHeld(records)')
<1> DEFINE n == Len(records)
           held == DOMAIN span_templates
           node == NodeOf(r)
           out == EvictedSpan(r.span)
<1>1. records \in Seq(Records) /\ records' = Append(records, r)
  BY DEF Record, IInv, TypeOK
<1>2. /\ n \in Nat /\ DOMAIN records = 1..n /\ DOMAIN records' = (1..n) \cup {n + 1}
      /\ records'[n + 1] = r
      /\ \A i \in 1..n : records'[i] = records[i] /\ i # n + 1
      /\ SpansOf(records') = SpansOf(records) \cup {r.span}
  BY <1>1, RecordsAppend
<1>3. HoldSpan(r.span, node)
  BY DEF Record, RecordSpan, NodeOf
<1>4. HeldAreRecorded(records) /\ (evictions = 0 => FirstAreHeld(records))
  BY DEF HistoryInv
<1> HIDE DEF n, node
<1>5. \A s, i : IsFirst(records, s, i) => IsFirst(records, s, i)'
  <2> SUFFICES ASSUME NEW s, NEW i, IsFirst(records, s, i) PROVE IsFirst(records, s, i)'
    OBVIOUS
  <2>1. i \in 1..n /\ \A j \in (1..n) \cup {n + 1} : records'[j].span = s => i <= j
    BY <1>2 DEF IsFirst
  <2> QED BY <1>2, <2>1 DEF IsFirst
<1>6. CASE r.span \in held
  <2>1. span_templates' = span_templates /\ out = {}
    BY <1>3, <1>6 DEF HoldSpan, EvictedSpan
  <2>2. HeldAreRecorded(records)'
    BY <1>2, <1>4, <2>1 DEF HeldAreRecorded
  <2>3. ASSUME evictions' = 0 PROVE FirstAreHeld(records)'
    <3>1. evictions \in Nat /\ evictions' = evictions + Cardinality(out)
      BY DEF Record, IInv, TypeOK
    <3>2. evictions = 0
      BY <2>1, <2>3, <3>1, EmptyCount
    <3>3. SpansOf(records') \subseteq DOMAIN span_templates'
      BY <1>2, <1>4, <1>6, <2>1, <3>2 DEF FirstAreHeld
    <3>4. \A s \in DOMAIN span_templates' :
            \E i \in DOMAIN records' :
              IsFirst(records, s, i)' /\ span_templates'[s] = NodeOf(records'[i])
      <4> TAKE s \in DOMAIN span_templates'
      <4>1. PICK i \in 1..n : IsFirst(records, s, i) /\ span_templates[s] = NodeOf(records[i])
        BY <1>2, <1>4, <2>1, <3>2 DEF FirstAreHeld
      <4> QED BY <1>2, <1>5, <2>1, <4>1
    <3> QED BY <3>3, <3>4 DEF FirstAreHeld
  <2> QED BY <2>2, <2>3
<1>7. CASE r.span \notin held
  <2>1. /\ DOMAIN span_templates' = (held \ out) \cup {r.span}
        /\ span_templates'[r.span] = node
        /\ \A s \in held \ out : span_templates'[s] = span_templates[s]
    BY <1>3, <1>7 DEF HoldSpan
  <2> HIDE DEF out
  <2>2. HeldAreRecorded(records)'
    <3> SUFFICES ASSUME NEW s \in DOMAIN span_templates'
                 PROVE  \E i \in DOMAIN records' :
                          records'[i].span = s /\ span_templates'[s] = NodeOf(records'[i])
      BY DEF HeldAreRecorded
    <3>1. CASE s = r.span
      BY <1>2, <2>1, <3>1 DEF node
    <3>2. CASE s # r.span
      <4>1. PICK i \in 1..n : records[i].span = s /\ span_templates[s] = NodeOf(records[i])
        BY <1>2, <1>4, <2>1, <3>2 DEF HeldAreRecorded
      <4> QED BY <1>2, <2>1, <3>2, <4>1
    <3> QED BY <3>1, <3>2
  <2>3. ASSUME evictions' = 0 PROVE FirstAreHeld(records)'
    <3>1. evictions \in Nat /\ evictions' = evictions + Cardinality(out)
      BY DEF Record, IInv, TypeOK, out
    <3>2. Cardinality(out) \in {0, 1} /\ (Cardinality(out) = 0 => out = {})
      <4>1. out = Displaced(span_fifo, held, MaxActiveSpans)
        BY <1>7 DEF EvictedSpan, Displaced, out
      <4> QED BY ONLY <4>1, DisplacedCount
    <3>3. evictions = 0 /\ out = {}
      BY <2>3, <3>1, <3>2
    <3>4. SpansOf(records) \subseteq held
      BY <1>4, <3>3 DEF FirstAreHeld
    <3>5. SpansOf(records') \subseteq DOMAIN span_templates'
      BY <1>2, <2>1, <3>3, <3>4
    <3>k. PICK k : k = n + 1
      OBVIOUS
    <3>6. IsFirst(records, r.span, k)'
      <4>1. \A j \in 1..n : records[j].span \in SpansOf(records)
        BY <1>2 DEF SpansOf
      <4>2. \A j \in (1..n) \cup {n + 1} : records'[j].span = r.span => n + 1 <= j
        BY <1>2, <1>7, <3>4, <4>1
      <4> QED BY <1>2, <3>k, <4>2 DEF IsFirst
    <3>7. ASSUME NEW s \in DOMAIN span_templates'
          PROVE  \E i \in DOMAIN records' :
                   IsFirst(records, s, i)' /\ span_templates'[s] = NodeOf(records'[i])
      <4>1. CASE s = r.span
        BY <1>2, <2>1, <3>k, <3>6, <4>1 DEF node
      <4>2. CASE s # r.span
        <5>1. PICK i \in 1..n : IsFirst(records, s, i) /\ span_templates[s] = NodeOf(records[i])
          BY <1>2, <1>4, <2>1, <3>3, <4>2 DEF FirstAreHeld
        <5> QED BY <1>2, <1>5, <2>1, <4>2, <5>1
      <4> QED BY <4>1, <4>2
    <3> QED BY <3>5, <3>7 DEF FirstAreHeld
  <2> QED BY <2>2, <2>3
<1> QED BY <1>6, <1>7

LEMMA EmptyWindowHasHistory ==
  ASSUME SpanInit, records = << >>
  PROVE  HistoryInv
<1>1. DOMAIN << >> = {} /\ Len(<< >>) = 0 /\ << >> \in Seq(Nat) /\ << >> \in Seq(Nat \X Nat)
  OBVIOUS
<1>2. Children(records) = {} /\ LinksOf(records) = {} /\ SpansOf(records) = {}
  BY <1>1 DEF Children, LinksOf, SpansOf
<1>3. ParentsAreQueued(records, << >>) /\ LinksAreQueued(records, << >>)
  <2>1. /\ pending_span_edges = << >> /\ pending_link_edges = << >>
        /\ Lists(<< >>, Children(records)) /\ Lists(<< >>, LinksOf(records))
    BY <1>2, EmptyFifo DEF SpanInit
  <2>2. ~ \E k \in 1..Len(<< >>) : TRUE
    BY <1>1
  <2> QED BY <1>1, <2>1, <2>2 DEF ParentsAreQueued, LinksAreQueued
<1>4. HeldAreRecorded(records) /\ FirstAreHeld(records)
  BY <1>1, <1>2 DEF HeldAreRecorded, FirstAreHeld, SpanInit
<1> QED BY <1>1, <1>3, <1>4 DEF HistoryInv, SpanInit

LEMMA NextKeepsHistory == IInv /\ HistoryInv /\ [Next]_vars => HistoryInv'
<1> SUFFICES ASSUME IInv, HistoryInv, [Next]_vars PROVE HistoryInv'
  OBVIOUS
<1>1. ASSUME NEW r \in Records, Record(r) PROVE HistoryInv'
  <2>1. span_records' = Len(records')
    <3>1. records \in Seq(Records) /\ records' = Append(records, r) /\ span_records' = span_records + 1
      BY <1>1 DEF Record, RecordSpan, IInv, TypeOK
    <3>2. Len(records') = Len(records) + 1
      BY <3>1, AppendProperties
    <3> QED BY <3>1, <3>2 DEF HistoryInv
  <2>2. \E at : ParentsAreQueued(records, at)'
    <3>1. PICK at : ParentsAreQueued(records, at)
      BY DEF HistoryInv
    <3> QED BY <1>1, <3>1, ParentsStayQueued
  <2>3. \E at : LinksAreQueued(records, at)'
    <3>1. PICK at : LinksAreQueued(records, at)
      BY DEF HistoryInv
    <3> QED BY <1>1, <3>1, LinksStayQueued
  <2>4. HeldAreRecorded(records)' /\ (evictions' = 0 => FirstAreHeld(records)')
    BY <1>1, HeldStayRecorded
  <2> QED BY <2>1, <2>2, <2>3, <2>4 DEF HistoryInv
<1>2. CASE Close \/ Discard
  <2>1. SpanInit' /\ records' = << >>
    BY <1>2 DEF Close, Discard, ResetSpans, SpanInit
  <2>2. (SpanInit /\ records = << >> => HistoryInv)'
    BY EmptyWindowHasHistory, PTL
  <2> QED BY <2>1, <2>2
<1>3. CASE UNCHANGED vars
  <2>1. /\ span_records' = span_records /\ records' = records /\ evictions' = evictions
        /\ span_templates' = span_templates /\ pending_span_edges' = pending_span_edges
        /\ pending_link_edges' = pending_link_edges
    BY <1>3 DEF vars, spanVars
  <2>2. \A at : ParentsAreQueued(records, at) => ParentsAreQueued(records, at)'
    BY <2>1 DEF ParentsAreQueued
  <2>3. \A at : LinksAreQueued(records, at) => LinksAreQueued(records, at)'
    BY <2>1 DEF LinksAreQueued
  <2>4. HeldAreRecorded(records)' = HeldAreRecorded(records) /\ FirstAreHeld(records)' = FirstAreHeld(records)
    BY <2>1 DEF HeldAreRecorded, FirstAreHeld, IsFirst
  <2> QED BY <2>1, <2>2, <2>3, <2>4 DEF HistoryInv
<1> QED BY <1>1, <1>2, <1>3 DEF Next

-----------------------------------------------------------------------------
(* What the resolution counts *)

Resolutions ==
  [edges : FiniteBags(InternalId \X InternalId), refused : Nat,
   services : FiniteBags(Component \X Component), orphan_parents : Nat, orphan_links : Nat]

IsCall(a, b) == a # NoComponent /\ b # NoComponent /\ a # b

(* new is old with an edge e accounted, with a call from a to b accounted. *)
EdgeDone(old, new, e) ==
  \/ OneMore(old.edges, new.edges, e) /\ new.refused = old.refused
  \/ new.edges = old.edges /\ new.refused = old.refused + 1

CallDone(old, new, a, b) ==
  \/ IsCall(a, b) /\ OneMore(old.services, new.services, <<a, b>>)
  \/ ~IsCall(a, b) /\ new.services = old.services

SameEdges(old, new) == new.edges = old.edges /\ new.refused = old.refused

(* new is old with one pending reference resolved.                         *)
ParentDone(old, new, pending) ==
  /\ new.orphan_links = old.orphan_links
  /\ IF pending.parent \in DOMAIN span_templates
       THEN /\ EdgeDone(old, new, <<span_templates[pending.parent].template, pending.child>>)
            /\ CallDone(old, new, span_templates[pending.parent].component, pending.component)
            /\ new.orphan_parents = old.orphan_parents
       ELSE /\ SameEdges(old, new)
            /\ new.services = old.services
            /\ new.orphan_parents = old.orphan_parents + 1

LinkDone(old, new, pending) ==
  /\ new.orphan_parents = old.orphan_parents
  /\ SameEdges(old, new)
  /\ IF pending.linked \in DOMAIN span_templates
       THEN /\ CallDone(old, new, pending.component, span_templates[pending.linked].component)
            /\ new.orphan_links = old.orphan_links
       ELSE /\ new.services = old.services
            /\ new.orphan_links = old.orphan_links + 1

LEMMA BagAddOverK ==
  ASSUME NEW K, NEW bag \in FiniteBags(K), NEW x \in K
  PROVE  BagAdd(bag, x) \in FiniteBags(K) /\ OneMore(bag, BagAdd(bag, x), x)
<1>1. IsFiniteBag(bag)
  BY FiniteBagOver
<1>2. OneMore(bag, BagAdd(bag, x), x)
  BY <1>1 DEF BagAdd, OneMore, IsFiniteBag
<1> QED BY <1>2, OneMoreType

LEMMA AccountSpanEdgeDoes ==
  ASSUME NEW res \in Resolutions, NEW e \in InternalId \X InternalId
  PROVE  LET new == AccountSpanEdge(res, e) IN
         /\ new \in Resolutions
         /\ EdgeDone(res, new, e)
         /\ new.services = res.services
         /\ new.orphan_parents = res.orphan_parents
         /\ new.orphan_links = res.orphan_links
<1>1. /\ BagAdd(res.edges, e) \in FiniteBags(InternalId \X InternalId)
      /\ OneMore(res.edges, BagAdd(res.edges, e), e)
  BY BagAddOverK DEF Resolutions
<1> QED BY <1>1 DEF AccountSpanEdge, Resolutions, EdgeDone

LEMMA AccountServiceDoes ==
  ASSUME NEW res \in Resolutions, NEW a \in AnyComponent, NEW b \in AnyComponent
  PROVE  LET new == AccountService(res, a, b) IN
         /\ new \in Resolutions
         /\ CallDone(res, new, a, b)
         /\ SameEdges(res, new)
         /\ new.orphan_parents = res.orphan_parents
         /\ new.orphan_links = res.orphan_links
<1>1. CASE IsCall(a, b)
  <2>1. <<a, b>> \in Component \X Component
    BY <1>1 DEF IsCall, AnyComponent
  <2>2. /\ BagAdd(res.services, <<a, b>>) \in FiniteBags(Component \X Component)
        /\ OneMore(res.services, BagAdd(res.services, <<a, b>>), <<a, b>>)
    BY <2>1, BagAddOverK DEF Resolutions
  <2> QED BY <1>1, <2>2 DEF AccountService, Resolutions, CallDone, SameEdges, IsCall
<1>2. CASE ~IsCall(a, b)
  BY <1>2 DEF AccountService, CallDone, SameEdges, IsCall
<1> QED BY <1>1, <1>2

LEMMA ResolveParentDoes ==
  ASSUME SpanTypeOK, NEW res \in Resolutions, NEW pending \in PendingSpanEdge
  PROVE  /\ ResolveParent(res, pending) \in Resolutions
         /\ ParentDone(res, ResolveParent(res, pending), pending)
<1>1. CASE pending.parent \notin DOMAIN span_templates
  <2>1. ResolveParent(res, pending) = [res EXCEPT !.orphan_parents = @ + 1]
    BY <1>1 DEF ResolveParent
  <2> QED BY <1>1, <2>1 DEF ParentDone, SameEdges, Resolutions
<1>2. CASE pending.parent \in DOMAIN span_templates
  <2> DEFINE parent == span_templates[pending.parent]
             mid == AccountSpanEdge(res, <<parent.template, pending.child>>)
             new == AccountService(mid, parent.component, pending.component)
  <2>1. /\ parent.template \in InternalId /\ parent.component \in AnyComponent
        /\ pending.child \in InternalId /\ pending.component \in AnyComponent
    BY <1>2 DEF SpanTypeOK, SpanNode, PendingSpanEdge
  <2>2. ResolveParent(res, pending) = new
    BY <1>2 DEF ResolveParent
  <2> HIDE DEF parent
  <2>3. /\ mid \in Resolutions
        /\ EdgeDone(res, mid, <<parent.template, pending.child>>)
        /\ mid.services = res.services
        /\ mid.orphan_parents = res.orphan_parents
        /\ mid.orphan_links = res.orphan_links
    BY <2>1, AccountSpanEdgeDoes
  <2> HIDE DEF mid
  <2>4. /\ new \in Resolutions
        /\ CallDone(mid, new, parent.component, pending.component)
        /\ SameEdges(mid, new)
        /\ new.orphan_parents = mid.orphan_parents
        /\ new.orphan_links = mid.orphan_links
    BY <2>1, <2>3, AccountServiceDoes
  <2> HIDE DEF new
  <2>5. EdgeDone(res, new, <<parent.template, pending.child>>)
    BY <2>3, <2>4 DEF EdgeDone, SameEdges
  <2>6. CallDone(res, new, parent.component, pending.component)
    BY <2>3, <2>4 DEF CallDone
  <2>7. ParentDone(res, new, pending)
    BY <1>2, <2>3, <2>4, <2>5, <2>6 DEF ParentDone, parent
  <2> QED BY <2>2, <2>4, <2>7
<1> QED BY <1>1, <1>2

LEMMA ResolveLinkDoes ==
  ASSUME SpanTypeOK, NEW res \in Resolutions, NEW pending \in PendingLinkEdge
  PROVE  /\ ResolveLink(res, pending) \in Resolutions
         /\ LinkDone(res, ResolveLink(res, pending), pending)
<1>1. CASE pending.linked \notin DOMAIN span_templates
  <2>1. ResolveLink(res, pending) = [res EXCEPT !.orphan_links = @ + 1]
    BY <1>1 DEF ResolveLink
  <2> QED BY <1>1, <2>1 DEF LinkDone, SameEdges, Resolutions
<1>2. CASE pending.linked \in DOMAIN span_templates
  <2> DEFINE other == span_templates[pending.linked].component
             new == AccountService(res, pending.component, other)
  <2>1. other \in AnyComponent /\ pending.component \in AnyComponent
    BY <1>2 DEF SpanTypeOK, SpanNode, PendingLinkEdge
  <2>2. ResolveLink(res, pending) = new
    BY <1>2 DEF ResolveLink
  <2> HIDE DEF other
  <2>3. /\ new \in Resolutions
        /\ CallDone(res, new, pending.component, other)
        /\ SameEdges(res, new)
        /\ new.orphan_parents = res.orphan_parents
        /\ new.orphan_links = res.orphan_links
    BY <2>1, AccountServiceDoes
  <2> HIDE DEF new
  <2>4. LinkDone(res, new, pending)
    BY <1>2, <2>3 DEF LinkDone, other
  <2> QED BY <2>2, <2>3, <2>4
<1> QED BY <1>1, <1>2

(* The parent references of a window resolve in a run of such steps.       *)
LEMMA ParentsAreARun ==
  ASSUME SpanTypeOK, NEW base \in Resolutions, NEW parents \in Seq(PendingSpanEdge)
  PROVE  \E run \in [0..Len(parents) -> Resolutions] :
           /\ run[0] = base
           /\ \A i \in 1..Len(parents) : ParentDone(run[i - 1], run[i], parents[i])
           /\ FoldLeft(ResolveParent, base, parents) = run[Len(parents)]
<1> DEFINE n == Len(parents)
           D == DOMAIN parents
           Step(it, s) == IF s = {} THEN base
                          ELSE ResolveParent(it[s \ {Max(s)}], parents[Max(s)])
           IsIter(it) == it = [s \in SUBSET D |-> Step(it, s)]
           iter == CHOOSE it : IsIter(it)
           step == [p \in Resolutions \X (1..n) |-> ResolveParent(p[1], parents[p[2]])]
           R == {t \in Resolutions \X Resolutions \X (1..n) : ParentDone(t[1], t[2], parents[t[3]])}
<1>1. D = 1..n /\ n \in Nat /\ \A i \in 1..n : parents[i] \in PendingSpanEdge
  OBVIOUS
<1>2. FoldLeft(ResolveParent, base, parents) = iter[D]
  BY Zenon DEF FoldLeft, MapThenFoldSet
<1> HIDE DEF D, n
<1>3. \E it : IsIter(it)
  <2>1. step \in [Resolutions \X (1..n) -> Resolutions]
    <3>1. ASSUME NEW p \in Resolutions \X (1..n) PROVE ResolveParent(p[1], parents[p[2]]) \in Resolutions
      <4>1. p[1] \in Resolutions /\ parents[p[2]] \in PendingSpanEdge
        BY <1>1
      <4> QED BY <4>1, ResolveParentDoes
    <3> QED BY <3>1
  <2> HIDE DEF step
  <2>2. n \in Nat
    BY <1>1
  <2>3. PICK it \in [SUBSET (1..n) -> Resolutions] : IsFold(it, step, base, n)
    BY <2>1, <2>2, FoldExists
  <2>4. ASSUME NEW s \in SUBSET (1..n) PROVE it[s] = Step(it, s)
    <3>1. CASE s = {}
      BY <2>3, <3>1 DEF IsFold
    <3>2. CASE s # {}
      <4>1. Max(s) \in 1..n
        BY <1>1, <3>2, MaxOfPart
      <4>2. it[s \ {Max(s)}] \in Resolutions
        BY <2>3
      <4>3. it[s] = step[<<it[s \ {Max(s)}], Max(s)>>]
        BY <2>3, <3>2 DEF IsFold
      <4> QED BY <3>2, <4>1, <4>2, <4>3 DEF step
    <3> QED BY <3>1, <3>2
  <2>5. IsIter(it)
    BY <1>1, <2>3, <2>4
  <2> QED BY <2>5
<1>4. IsIter(iter)
  BY <1>3
<1> HIDE DEF iter
<1>5. iter[{}] = base
  BY <1>4
<1>6. ASSUME NEW s \in SUBSET (1..n), s # {}, iter[s \ {Max(s)}] \in Resolutions
      PROVE  iter[s] \in Resolutions /\ <<iter[s \ {Max(s)}], iter[s], Max(s)>> \in R
  <2> DEFINE old == iter[s \ {Max(s)}]
             pending == parents[Max(s)]
  <2>1. Max(s) \in 1..n /\ pending \in PendingSpanEdge
    BY <1>1, <1>6, MaxOfPart
  <2>2. iter[s] = ResolveParent(old, pending)
    BY <1>1, <1>4, <1>6
  <2>3. iter[s] \in Resolutions /\ ParentDone(old, iter[s], pending)
    BY <1>6, <2>1, <2>2, ResolveParentDoes
  <2> QED BY <1>6, <2>1, <2>3
<1> HIDE DEF R, Step, IsIter
<1>7. StepsIn(iter, n, Resolutions, R)
  BY <1>6 DEF StepsIn
<1>n. n \in Nat
  BY <1>1
<1>8. PICK run : IsFoldRun(run, n, Resolutions, base, R) /\ run[n] = iter[1..n]
  BY <1>n, <1>5, <1>7, RunOfAFold
<1>9. run \in [0..n -> Resolutions] /\ run[0] = base
  BY <1>8 DEF IsFoldRun
<1>10. \A i \in 1..n : ParentDone(run[i - 1], run[i], parents[i])
  BY <1>8 DEF IsFoldRun, R
<1> QED BY <1>1, <1>2, <1>8, <1>9, <1>10 DEF n

(* The links of a window resolve in a run of such steps.                   *)
LEMMA LinksAreARun ==
  ASSUME SpanTypeOK, NEW base \in Resolutions, NEW links \in Seq(PendingLinkEdge)
  PROVE  \E run \in [0..Len(links) -> Resolutions] :
           /\ run[0] = base
           /\ \A i \in 1..Len(links) : LinkDone(run[i - 1], run[i], links[i])
           /\ FoldLeft(ResolveLink, base, links) = run[Len(links)]
<1> DEFINE n == Len(links)
           D == DOMAIN links
           Step(it, s) == IF s = {} THEN base
                          ELSE ResolveLink(it[s \ {Max(s)}], links[Max(s)])
           IsIter(it) == it = [s \in SUBSET D |-> Step(it, s)]
           iter == CHOOSE it : IsIter(it)
           step == [p \in Resolutions \X (1..n) |-> ResolveLink(p[1], links[p[2]])]
           R == {t \in Resolutions \X Resolutions \X (1..n) : LinkDone(t[1], t[2], links[t[3]])}
<1>1. D = 1..n /\ n \in Nat /\ \A i \in 1..n : links[i] \in PendingLinkEdge
  OBVIOUS
<1>2. FoldLeft(ResolveLink, base, links) = iter[D]
  BY Zenon DEF FoldLeft, MapThenFoldSet
<1> HIDE DEF D, n
<1>3. \E it : IsIter(it)
  <2>1. step \in [Resolutions \X (1..n) -> Resolutions]
    <3>1. ASSUME NEW p \in Resolutions \X (1..n) PROVE ResolveLink(p[1], links[p[2]]) \in Resolutions
      <4>1. p[1] \in Resolutions /\ links[p[2]] \in PendingLinkEdge
        BY <1>1
      <4> QED BY <4>1, ResolveLinkDoes
    <3> QED BY <3>1
  <2> HIDE DEF step
  <2>2. n \in Nat
    BY <1>1
  <2>3. PICK it \in [SUBSET (1..n) -> Resolutions] : IsFold(it, step, base, n)
    BY <2>1, <2>2, FoldExists
  <2>4. ASSUME NEW s \in SUBSET (1..n) PROVE it[s] = Step(it, s)
    <3>1. CASE s = {}
      BY <2>3, <3>1 DEF IsFold
    <3>2. CASE s # {}
      <4>1. Max(s) \in 1..n
        BY <1>1, <3>2, MaxOfPart
      <4>2. it[s \ {Max(s)}] \in Resolutions
        BY <2>3
      <4>3. it[s] = step[<<it[s \ {Max(s)}], Max(s)>>]
        BY <2>3, <3>2 DEF IsFold
      <4> QED BY <3>2, <4>1, <4>2, <4>3 DEF step
    <3> QED BY <3>1, <3>2
  <2>5. IsIter(it)
    BY <1>1, <2>3, <2>4
  <2> QED BY <2>5
<1>4. IsIter(iter)
  BY <1>3
<1> HIDE DEF iter
<1>5. iter[{}] = base
  BY <1>4
<1>6. ASSUME NEW s \in SUBSET (1..n), s # {}, iter[s \ {Max(s)}] \in Resolutions
      PROVE  iter[s] \in Resolutions /\ <<iter[s \ {Max(s)}], iter[s], Max(s)>> \in R
  <2> DEFINE old == iter[s \ {Max(s)}]
             pending == links[Max(s)]
  <2>1. Max(s) \in 1..n /\ pending \in PendingLinkEdge
    BY <1>1, <1>6, MaxOfPart
  <2>2. iter[s] = ResolveLink(old, pending)
    BY <1>1, <1>4, <1>6
  <2>3. iter[s] \in Resolutions /\ LinkDone(old, iter[s], pending)
    BY <1>6, <2>1, <2>2, ResolveLinkDoes
  <2> QED BY <1>6, <2>1, <2>3
<1> HIDE DEF R, Step, IsIter
<1>7. StepsIn(iter, n, Resolutions, R)
  BY <1>6 DEF StepsIn
<1>n. n \in Nat
  BY <1>1
<1>8. PICK run : IsFoldRun(run, n, Resolutions, base, R) /\ run[n] = iter[1..n]
  BY <1>n, <1>5, <1>7, RunOfAFold
<1>9. run \in [0..n -> Resolutions] /\ run[0] = base
  BY <1>8 DEF IsFoldRun
<1>10. \A i \in 1..n : LinkDone(run[i - 1], run[i], links[i])
  BY <1>8 DEF IsFoldRun, R
<1> QED BY <1>1, <1>2, <1>8, <1>9, <1>10 DEF n

(* The queued references whose edge, whose call, whose link is between two *)
(* templates or components, by the spans held at close.                    *)
Joined(parents, p, c) ==
  {k \in 1..Len(parents) :
     /\ parents[k].parent \in DOMAIN span_templates
     /\ span_templates[parents[k].parent].template = p
     /\ parents[k].child = c}

Calling(parents, a, b) ==
  {k \in 1..Len(parents) :
     /\ parents[k].parent \in DOMAIN span_templates
     /\ span_templates[parents[k].parent].component = a
     /\ parents[k].component = b}

Linking(links, a, b) ==
  {k \in 1..Len(links) :
     /\ links[k].linked \in DOMAIN span_templates
     /\ links[k].component = a
     /\ span_templates[links[k].linked].component = b}

UpTo(i, P) == Cardinality((1..i) \cap P)

(* What holds of res when the first i references are resolved.             *)
ParentsAccounted(res, i) ==
  /\ SumFunction(res.edges) + res.refused + res.orphan_parents = i
  /\ SumFunction(res.services) + res.orphan_parents <= i
  /\ res.orphan_links = 0

EdgesCounted(res, parents, i) ==
  \A p, c \in InternalId :
    /\ Counted(res.edges, <<p, c>>) <= UpTo(i, Joined(parents, p, c))
    /\ res.refused = 0 => Counted(res.edges, <<p, c>>) = UpTo(i, Joined(parents, p, c))

CallsCounted(res, parents, i) ==
  /\ \A e \in DOMAIN res.services : e[1] # e[2]
  /\ \A a, b \in Component : a # b => Counted(res.services, <<a, b>>) = UpTo(i, Calling(parents, a, b))

LinksAccounted(res, base, i) ==
  /\ SumFunction(res.services) + res.orphan_links <= SumFunction(base.services) + base.orphan_links + i
  /\ SameEdges(base, res)
  /\ res.orphan_parents = base.orphan_parents

LinksCounted(res, base, links, i) ==
  /\ \A e \in DOMAIN res.services : e[1] # e[2]
  /\ \A a, b \in Component :
       a # b => Counted(res.services, <<a, b>>)
                  = Counted(base.services, <<a, b>>) + UpTo(i, Linking(links, a, b))

LEMMA CountedOneMore ==
  ASSUME NEW bag, NEW new, NEW x, IsFiniteBag(bag), OneMore(bag, new, x), NEW y
  PROVE  Counted(bag, y) \in Nat /\ Counted(new, y) = Counted(bag, y) + (IF y = x THEN 1 ELSE 0)
<1>1. Counted(bag, y) \in Nat
  BY DEF Counted, IsFiniteBag
<1>2. CASE y = x
  BY <1>2 DEF Counted, OneMore, IsFiniteBag
<1>3. CASE y # x
  <2>1. Counted(new, y) = Counted(bag, y)
    BY <1>3 DEF Counted, OneMore
  <2> QED BY <1>1, <1>3, <2>1
<1> QED BY <1>1, <1>2, <1>3

LEMMA ResolutionType ==
  ASSUME NEW res \in Resolutions
  PROVE  /\ IsFiniteBag(res.edges) /\ SumFunction(res.edges) \in Nat
         /\ IsFiniteBag(res.services) /\ SumFunction(res.services) \in Nat
         /\ res.refused \in Nat /\ res.orphan_parents \in Nat /\ res.orphan_links \in Nat
         /\ DOMAIN res.services \subseteq Component \X Component
         /\ DOMAIN res.edges \subseteq InternalId \X InternalId
<1>1. /\ res.edges \in FiniteBags(InternalId \X InternalId)
      /\ res.services \in FiniteBags(Component \X Component)
      /\ res.refused \in Nat /\ res.orphan_parents \in Nat /\ res.orphan_links \in Nat
  BY DEF Resolutions
<1>2. IsFiniteBag(res.edges) /\ IsFiniteBag(res.services)
  BY <1>1, FiniteBagOver
<1>3. /\ DOMAIN res.services \subseteq Component \X Component
      /\ DOMAIN res.edges \subseteq InternalId \X InternalId
  BY <1>1, FiniteBagOver
<1> QED BY <1>1, <1>2, <1>3, BagSumIsNat

(* An edge more, a call more.                                              *)
LEMMA EdgeDoneSum ==
  ASSUME NEW old \in Resolutions, NEW new \in Resolutions, NEW e, EdgeDone(old, new, e)
  PROVE  SumFunction(new.edges) + new.refused = SumFunction(old.edges) + old.refused + 1
<1>1. /\ IsFiniteBag(old.edges) /\ SumFunction(old.edges) \in Nat /\ old.refused \in Nat
      /\ SumFunction(new.edges) \in Nat /\ new.refused \in Nat
  BY ResolutionType
<1>2. CASE OneMore(old.edges, new.edges, e) /\ new.refused = old.refused
  <2>1. SumFunction(new.edges) = SumFunction(old.edges) + 1
    BY <1>1, <1>2, OneMoreSum
  <2> QED BY <1>1, <1>2, <2>1
<1>3. CASE new.edges = old.edges /\ new.refused = old.refused + 1
  BY <1>1, <1>3
<1> QED BY <1>2, <1>3 DEF EdgeDone

LEMMA CallDoneSum ==
  ASSUME NEW old \in Resolutions, NEW new \in Resolutions, NEW a, NEW b, CallDone(old, new, a, b)
  PROVE  /\ SumFunction(new.services) <= SumFunction(old.services) + 1
         /\ (\A e \in DOMAIN old.services : e[1] # e[2]) => \A e \in DOMAIN new.services : e[1] # e[2]
         /\ \A x, y \in Component :
              x # y => Counted(new.services, <<x, y>>)
                         = Counted(old.services, <<x, y>>) + (IF a = x /\ b = y THEN 1 ELSE 0)
<1>1. /\ IsFiniteBag(old.services) /\ SumFunction(old.services) \in Nat
      /\ SumFunction(new.services) \in Nat
  BY ResolutionType
<1>2. CASE IsCall(a, b) /\ OneMore(old.services, new.services, <<a, b>>)
  <2>1. SumFunction(new.services) = SumFunction(old.services) + 1
    BY <1>1, <1>2, OneMoreSum
  <2>2. DOMAIN new.services = DOMAIN old.services \cup {<<a, b>>} /\ a # b
    BY <1>2 DEF OneMore, IsCall
  <2>3. ASSUME NEW x \in Component, NEW y \in Component
        PROVE  Counted(new.services, <<x, y>>)
                 = Counted(old.services, <<x, y>>) + (IF a = x /\ b = y THEN 1 ELSE 0)
    <3>1. Counted(new.services, <<x, y>>)
            = Counted(old.services, <<x, y>>) + (IF <<x, y>> = <<a, b>> THEN 1 ELSE 0)
      BY <1>1, <1>2, CountedOneMore
    <3>2. <<x, y>> = <<a, b>> <=> a = x /\ b = y
      OBVIOUS
    <3> QED BY <3>1, <3>2
  <2> QED BY <1>1, <2>1, <2>2, <2>3
<1>3. CASE ~IsCall(a, b) /\ new.services = old.services
  <2>1. ASSUME NEW x \in Component, NEW y \in Component, x # y
        PROVE  Counted(new.services, <<x, y>>)
                 = Counted(old.services, <<x, y>>) + (IF a = x /\ b = y THEN 1 ELSE 0)
    <3>1. ~(a = x /\ b = y)
      BY <1>3, <2>1, SpanAssumption DEF IsCall
    <3>2. Counted(old.services, <<x, y>>) \in Nat
      BY <1>1 DEF Counted, IsFiniteBag
    <3> QED BY <1>3, <3>1, <3>2
  <2> QED BY <1>1, <1>3, <2>1
<1> QED BY <1>2, <1>3 DEF CallDone

LEMMA OneAccountedMore ==
  \A edges, refused, more, still, orphans, i \in Nat :
    more + still = edges + refused + 1 /\ edges + refused + orphans = i - 1
      => more + still + orphans = i
OBVIOUS

(* One reference more.                                                     *)
LEMMA ParentStep ==
  ASSUME NEW parents \in Seq(PendingSpanEdge), NEW i \in 1..Len(parents),
         NEW old \in Resolutions, NEW new \in Resolutions, ParentDone(old, new, parents[i])
  PROVE  /\ ParentsAccounted(old, i - 1) => ParentsAccounted(new, i)
         /\ EdgesCounted(old, parents, i - 1) => EdgesCounted(new, parents, i)
         /\ CallsCounted(old, parents, i - 1) => CallsCounted(new, parents, i)
<1> DEFINE ref == parents[i]
           held == ref.parent \in DOMAIN span_templates
           node == span_templates[ref.parent]
<1>1. /\ IsFiniteBag(old.edges) /\ SumFunction(old.edges) \in Nat /\ old.refused \in Nat
      /\ SumFunction(old.services) \in Nat /\ old.orphan_parents \in Nat /\ old.orphan_links \in Nat
      /\ SumFunction(new.edges) \in Nat /\ new.refused \in Nat
      /\ SumFunction(new.services) \in Nat /\ new.orphan_parents \in Nat
  BY ResolutionType
<1>2. new.orphan_links = old.orphan_links
  BY DEF ParentDone
<1>3. held => /\ EdgeDone(old, new, <<node.template, ref.child>>)
              /\ CallDone(old, new, node.component, ref.component)
              /\ new.orphan_parents = old.orphan_parents
  BY DEF ParentDone
<1>4. ~held => /\ SameEdges(old, new)
               /\ new.services = old.services
               /\ new.orphan_parents = old.orphan_parents + 1
  BY DEF ParentDone
<1>5. i \in Nat \ {0} /\ i - 1 \in Nat
  OBVIOUS
<1>6. /\ \A p, c : i \in Joined(parents, p, c) <=> held /\ node.template = p /\ ref.child = c
      /\ \A a, b : i \in Calling(parents, a, b) <=> held /\ node.component = a /\ ref.component = b
  BY DEF Joined, Calling
<1>7. \A P : UpTo(i - 1, P) \in Nat /\ UpTo(i, P) = UpTo(i - 1, P) + (IF i \in P THEN 1 ELSE 0)
  BY <1>5, PrefixCount DEF UpTo
<1> HIDE DEF ref, held, node
<1>8. ASSUME ParentsAccounted(old, i - 1) PROVE ParentsAccounted(new, i)
  <2>a. /\ SumFunction(old.edges) + old.refused + old.orphan_parents = i - 1
        /\ SumFunction(old.services) + old.orphan_parents <= i - 1
        /\ new.orphan_links = 0
    BY <1>2, <1>8 DEF ParentsAccounted
  <2>1. CASE held
    <3>1. SumFunction(new.edges) + new.refused = SumFunction(old.edges) + old.refused + 1
      BY <1>3, <2>1, EdgeDoneSum
    <3>2. SumFunction(new.services) <= SumFunction(old.services) + 1
      BY <1>3, <2>1, CallDoneSum
    <3>3. new.orphan_parents = old.orphan_parents
      BY <1>3, <2>1
    <3>4. SumFunction(new.edges) + new.refused + new.orphan_parents = i
      <4> DEFINE edges == SumFunction(old.edges)
                 more == SumFunction(new.edges)
                 refused == old.refused
                 still == new.refused
                 orphans == old.orphan_parents
      <4>1. /\ edges \in Nat /\ more \in Nat /\ refused \in Nat /\ still \in Nat
            /\ orphans \in Nat /\ i \in Nat
        BY <1>1, <1>5
      <4>2. more + still = edges + refused + 1
        BY <3>1
      <4>3. edges + refused + orphans = i - 1
        BY <2>a
      <4> HIDE DEF edges, more, refused, still, orphans
      <4>4. more + still + orphans = i
        BY ONLY <4>1, <4>2, <4>3, OneAccountedMore
      <4> QED BY <3>3, <4>4 DEF more, still, orphans
    <3>5. SumFunction(new.services) + new.orphan_parents <= i
      BY ONLY <1>1, <1>5, <2>a, <3>2, <3>3
    <3> QED BY <2>a, <3>4, <3>5 DEF ParentsAccounted
  <2>2. CASE ~held
    <3>1. /\ SumFunction(new.edges) = SumFunction(old.edges) /\ new.refused = old.refused
          /\ SumFunction(new.services) = SumFunction(old.services)
          /\ new.orphan_parents = old.orphan_parents + 1
      BY <1>4, <2>2 DEF SameEdges
    <3>4. SumFunction(new.edges) + new.refused + new.orphan_parents = i
      BY ONLY <1>1, <1>5, <2>a, <3>1
    <3>5. SumFunction(new.services) + new.orphan_parents <= i
      BY ONLY <1>1, <1>5, <2>a, <3>1
    <3> QED BY <2>a, <3>4, <3>5 DEF ParentsAccounted
  <2> QED BY <2>1, <2>2
<1>9. ASSUME EdgesCounted(old, parents, i - 1) PROVE EdgesCounted(new, parents, i)
  <2> SUFFICES ASSUME NEW p \in InternalId, NEW c \in InternalId
               PROVE  /\ Counted(new.edges, <<p, c>>) <= UpTo(i, Joined(parents, p, c))
                      /\ new.refused = 0 =>
                           Counted(new.edges, <<p, c>>) = UpTo(i, Joined(parents, p, c))
    BY DEF EdgesCounted
  <2> DEFINE before == UpTo(i - 1, Joined(parents, p, c))
             after == UpTo(i, Joined(parents, p, c))
             was == Counted(old.edges, <<p, c>>)
             is == Counted(new.edges, <<p, c>>)
             e == <<node.template, ref.child>>
  <2>1. was <= before /\ (old.refused = 0 => was = before)
    BY <1>9 DEF EdgesCounted
  <2>2. before \in Nat /\ after = before + (IF i \in Joined(parents, p, c) THEN 1 ELSE 0)
    BY <1>7
  <2>3. i \in Joined(parents, p, c) <=> held /\ <<p, c>> = e
    BY <1>6
  <2>4. was \in Nat
    BY <1>1 DEF Counted, IsFiniteBag
  <2>5. CASE held /\ OneMore(old.edges, new.edges, e) /\ new.refused = old.refused
    <3>1. is = was + (IF <<p, c>> = e THEN 1 ELSE 0)
      BY <1>1, <2>5, CountedOneMore
    <3> HIDE DEF before, after, was, is, e
    <3>2. is <= after /\ (new.refused = 0 => is = after)
      BY <2>1, <2>2, <2>3, <2>4, <2>5, <3>1
    <3> QED BY <3>2 DEF is, after
  <2>6. CASE held /\ new.edges = old.edges /\ new.refused = old.refused + 1
    <3>1. is = was /\ new.refused # 0
      BY <1>1, <2>6
    <3> HIDE DEF before, after, was, is, e
    <3>2. is <= after /\ (new.refused = 0 => is = after)
      BY <2>1, <2>2, <2>4, <3>1
    <3> QED BY <3>2 DEF is, after
  <2>7. CASE ~held
    <3>1. is = was /\ new.refused = old.refused
      BY <1>4, <2>7 DEF SameEdges
    <3> HIDE DEF before, after, was, is, e
    <3>2. is <= after /\ (new.refused = 0 => is = after)
      BY <2>1, <2>2, <2>3, <2>4, <2>7, <3>1
    <3> QED BY <3>2 DEF is, after
  <2> QED BY <1>3, <2>5, <2>6, <2>7 DEF EdgeDone
<1>10. ASSUME CallsCounted(old, parents, i - 1) PROVE CallsCounted(new, parents, i)
  <2>1. CASE held
    <3>1. \A e \in DOMAIN new.services : e[1] # e[2]
      BY <1>3, <1>10, <2>1, CallDoneSum DEF CallsCounted
    <3>2. ASSUME NEW a \in Component, NEW b \in Component, a # b
          PROVE  Counted(new.services, <<a, b>>) = UpTo(i, Calling(parents, a, b))
      <4>1. Counted(old.services, <<a, b>>) = UpTo(i - 1, Calling(parents, a, b))
        BY <1>10, <3>2 DEF CallsCounted
      <4>2. Counted(new.services, <<a, b>>)
              = Counted(old.services, <<a, b>>)
                + (IF node.component = a /\ ref.component = b THEN 1 ELSE 0)
        BY <1>3, <2>1, <3>2, CallDoneSum
      <4>3. i \in Calling(parents, a, b) <=> node.component = a /\ ref.component = b
        BY <1>6, <2>1
      <4>4. UpTo(i, Calling(parents, a, b))
              = UpTo(i - 1, Calling(parents, a, b)) + (IF i \in Calling(parents, a, b) THEN 1 ELSE 0)
        BY <1>7
      <4> QED BY ONLY <4>1, <4>2, <4>3, <4>4
    <3> QED BY <3>1, <3>2 DEF CallsCounted
  <2>2. CASE ~held
    <3>1. new.services = old.services
      BY <1>4, <2>2
    <3>2. ASSUME NEW a \in Component, NEW b \in Component, a # b
          PROVE  Counted(new.services, <<a, b>>) = UpTo(i, Calling(parents, a, b))
      <4>1. Counted(old.services, <<a, b>>) = UpTo(i - 1, Calling(parents, a, b))
        BY <1>10, <3>2 DEF CallsCounted
      <4>2. i \notin Calling(parents, a, b)
        BY <1>6, <2>2
      <4>3. /\ UpTo(i - 1, Calling(parents, a, b)) \in Nat
            /\ UpTo(i, Calling(parents, a, b))
                 = UpTo(i - 1, Calling(parents, a, b)) + (IF i \in Calling(parents, a, b) THEN 1 ELSE 0)
        BY <1>7
      <4> QED BY <3>1, <4>1, <4>2, <4>3
    <3> QED BY <1>10, <3>1, <3>2 DEF CallsCounted
  <2> QED BY <2>1, <2>2
<1> QED BY <1>8, <1>9, <1>10

(* One link resolved weighs on one service edge, or on none, or is an orphan. *)
LEMMA LinkStep ==
  ASSUME NEW links \in Seq(PendingLinkEdge), NEW i \in 1..Len(links), NEW base \in Resolutions,
         NEW old \in Resolutions, NEW new \in Resolutions, LinkDone(old, new, links[i])
  PROVE  /\ LinksAccounted(old, base, i - 1) => LinksAccounted(new, base, i)
         /\ LinksCounted(old, base, links, i - 1) => LinksCounted(new, base, links, i)
<1> DEFINE ref == links[i]
           held == ref.linked \in DOMAIN span_templates
           other == span_templates[ref.linked].component
<1>1. /\ SumFunction(old.services) \in Nat /\ old.orphan_links \in Nat
      /\ SumFunction(new.services) \in Nat /\ new.orphan_links \in Nat
      /\ IsFiniteBag(base.services) /\ SumFunction(base.services) \in Nat /\ base.orphan_links \in Nat
  BY ResolutionType
<1>2. new.orphan_parents = old.orphan_parents /\ SameEdges(old, new)
  BY DEF LinkDone
<1>3. held => CallDone(old, new, ref.component, other) /\ new.orphan_links = old.orphan_links
  BY DEF LinkDone
<1>4. ~held => new.services = old.services /\ new.orphan_links = old.orphan_links + 1
  BY DEF LinkDone
<1>5. i \in Nat \ {0} /\ i - 1 \in Nat
  OBVIOUS
<1>6. \A a, b : i \in Linking(links, a, b) <=> held /\ ref.component = a /\ other = b
  BY DEF Linking
<1>7. \A P : UpTo(i - 1, P) \in Nat /\ UpTo(i, P) = UpTo(i - 1, P) + (IF i \in P THEN 1 ELSE 0)
  BY <1>5, PrefixCount DEF UpTo
<1> HIDE DEF ref, held, other
<1>8. ASSUME LinksAccounted(old, base, i - 1) PROVE LinksAccounted(new, base, i)
  <2>1. CASE held
    <3>1. SumFunction(new.services) <= SumFunction(old.services) + 1
      BY <1>3, <2>1, CallDoneSum
    <3> QED BY <1>1, <1>2, <1>3, <1>5, <1>8, <2>1, <3>1 DEF LinksAccounted, SameEdges
  <2>2. CASE ~held
    BY <1>1, <1>2, <1>4, <1>5, <1>8, <2>2 DEF LinksAccounted, SameEdges
  <2> QED BY <2>1, <2>2
<1>9. ASSUME LinksCounted(old, base, links, i - 1) PROVE LinksCounted(new, base, links, i)
  <2>1. \A e \in DOMAIN new.services : e[1] # e[2]
    <3>1. CASE held
      BY <1>3, <1>9, <3>1, CallDoneSum DEF LinksCounted
    <3>2. CASE ~held
      BY <1>4, <1>9, <3>2 DEF LinksCounted
    <3> QED BY <3>1, <3>2
  <2>2. ASSUME NEW a \in Component, NEW b \in Component, a # b
        PROVE  Counted(new.services, <<a, b>>)
                 = Counted(base.services, <<a, b>>) + UpTo(i, Linking(links, a, b))
    <3> DEFINE before == UpTo(i - 1, Linking(links, a, b))
    <3>1. Counted(old.services, <<a, b>>) = Counted(base.services, <<a, b>>) + before
      BY <1>9, <2>2 DEF LinksCounted
    <3>2. before \in Nat /\ Counted(base.services, <<a, b>>) \in Nat
      BY <1>1, <1>7 DEF Counted, IsFiniteBag
    <3>3. UpTo(i, Linking(links, a, b)) = before + (IF i \in Linking(links, a, b) THEN 1 ELSE 0)
      BY <1>7
    <3> HIDE DEF before
    <3>4. CASE held
      <4>1. Counted(new.services, <<a, b>>)
              = Counted(old.services, <<a, b>>) + (IF ref.component = a /\ other = b THEN 1 ELSE 0)
        BY <1>3, <2>2, <3>4, CallDoneSum
      <4>2. i \in Linking(links, a, b) <=> ref.component = a /\ other = b
        BY <1>6, <3>4
      <4> QED BY ONLY <3>1, <3>2, <3>3, <4>1, <4>2
    <3>5. CASE ~held
      <4>1. new.services = old.services /\ i \notin Linking(links, a, b)
        BY <1>4, <1>6, <3>5
      <4> QED BY <3>1, <3>2, <3>3, <4>1
    <3> QED BY <3>4, <3>5
  <2> QED BY <2>1, <2>2 DEF LinksCounted
<1> QED BY <1>8, <1>9

LEMMA NoneUpTo == \A P : UpTo(0, P) = 0
<1> TAKE P
<1>1. (1..0) \cap P = {}
  OBVIOUS
<1> QED BY <1>1, EmptyCount DEF UpTo

LEMMA NothingResolved ==
  /\ EmptyResolution \in Resolutions
  /\ ParentsAccounted(EmptyResolution, 0)
  /\ \A parents : EdgesCounted(EmptyResolution, parents, 0) /\ CallsCounted(EmptyResolution, parents, 0)
<1>1. DOMAIN << >> = {} /\ IsFiniteBag(<< >>) /\ SumFunction(<< >>) = 0
  BY EmptyBagSum
<1>2. \A K : << >> \in FiniteBags(K)
  BY <1>1, FiniteBagType
<1>3. \A x : Counted(<< >>, x) = 0
  BY <1>1 DEF Counted
<1>4. EmptyResolution \in Resolutions
  BY <1>2 DEF EmptyResolution, Resolutions
<1>5. ParentsAccounted(EmptyResolution, 0)
  BY <1>1 DEF EmptyResolution, ParentsAccounted
<1>6. \A parents : EdgesCounted(EmptyResolution, parents, 0)
  BY <1>3, NoneUpTo DEF EmptyResolution, EdgesCounted
<1>7. \A parents : CallsCounted(EmptyResolution, parents, 0)
  BY <1>1, <1>3, NoneUpTo DEF EmptyResolution, CallsCounted
<1> QED BY <1>4, <1>5, <1>6, <1>7

LEMMA ParentsResolved ==
  ASSUME SpanTypeOK, NEW parents \in Seq(PendingSpanEdge)
  PROVE  LET res == FoldLeft(ResolveParent, resolution, parents) IN
         /\ res \in Resolutions
         /\ ParentsAccounted(res, Len(parents))
         /\ EdgesCounted(res, parents, Len(parents))
         /\ CallsCounted(res, parents, Len(parents))
<1> DEFINE n == Len(parents)
<1>1. resolution = EmptyResolution /\ EmptyResolution \in Resolutions
  BY NothingResolved DEF SpanTypeOK
<1>2. PICK run \in [0..n -> Resolutions] :
        /\ run[0] = resolution
        /\ \A i \in 1..n : ParentDone(run[i - 1], run[i], parents[i])
        /\ FoldLeft(ResolveParent, resolution, parents) = run[n]
  BY <1>1, ParentsAreARun
<1>3. n \in Nat /\ n \in 0..n
  OBVIOUS
<1> DEFINE Holds(i) == /\ ParentsAccounted(run[i], i)
                       /\ EdgesCounted(run[i], parents, i)
                       /\ CallsCounted(run[i], parents, i)
           P == {i \in 0..n : Holds(i)}
<1>4. 0 \in P
  BY <1>1, <1>2, <1>3, NothingResolved
<1>5. ASSUME NEW i \in 1..n, i - 1 \in P PROVE i \in P
  <2>1. i \in 0..n /\ i - 1 \in 0..n
    BY <1>3
  <2>2. run[i - 1] \in Resolutions /\ run[i] \in Resolutions
    BY <1>2, <2>1
  <2>3. ParentDone(run[i - 1], run[i], parents[i])
    BY <1>2
  <2>4. /\ ParentsAccounted(run[i - 1], i - 1) => ParentsAccounted(run[i], i)
        /\ EdgesCounted(run[i - 1], parents, i - 1) => EdgesCounted(run[i], parents, i)
        /\ CallsCounted(run[i - 1], parents, i - 1) => CallsCounted(run[i], parents, i)
    BY <2>2, <2>3, ParentStep
  <2> QED BY <1>5, <2>1, <2>4
<1> HIDE DEF P, n
<1>6. 0..n \subseteq P
  BY <1>3, <1>4, <1>5, RunInduction
<1>7. Holds(n) /\ run[n] \in Resolutions
  BY <1>2, <1>3, <1>6 DEF P
<1> QED BY <1>2, <1>7 DEF n

LEMMA LinksResolved ==
  ASSUME SpanTypeOK, NEW base \in Resolutions, NEW links \in Seq(PendingLinkEdge),
         \A e \in DOMAIN base.services : e[1] # e[2]
  PROVE  LET res == FoldLeft(ResolveLink, base, links) IN
         /\ res \in Resolutions
         /\ LinksAccounted(res, base, Len(links))
         /\ LinksCounted(res, base, links, Len(links))
<1> DEFINE n == Len(links)
<1>1. PICK run \in [0..n -> Resolutions] :
        /\ run[0] = base
        /\ \A i \in 1..n : LinkDone(run[i - 1], run[i], links[i])
        /\ FoldLeft(ResolveLink, base, links) = run[n]
  BY LinksAreARun
<1>2. n \in Nat /\ n \in 0..n
  OBVIOUS
<1> DEFINE Holds(i) == /\ LinksAccounted(run[i], base, i)
                       /\ LinksCounted(run[i], base, links, i)
           P == {i \in 0..n : Holds(i)}
<1>3. 0 \in P
  <2>1. /\ IsFiniteBag(base.services) /\ SumFunction(base.services) \in Nat
        /\ base.orphan_links \in Nat
    BY ResolutionType
  <2>2. LinksAccounted(base, base, 0)
    BY <2>1 DEF LinksAccounted, SameEdges
  <2>3. \A x : Counted(base.services, x) \in Nat
    BY <2>1 DEF Counted, IsFiniteBag
  <2>4. LinksCounted(base, base, links, 0)
    BY <2>3, NoneUpTo DEF LinksCounted
  <2> QED BY <1>1, <1>2, <2>2, <2>4
<1>4. ASSUME NEW i \in 1..n, i - 1 \in P PROVE i \in P
  <2>1. i \in 0..n /\ i - 1 \in 0..n
    BY <1>2
  <2>2. run[i - 1] \in Resolutions /\ run[i] \in Resolutions
    BY <1>1, <2>1
  <2>3. LinkDone(run[i - 1], run[i], links[i])
    BY <1>1
  <2>4. /\ LinksAccounted(run[i - 1], base, i - 1) => LinksAccounted(run[i], base, i)
        /\ LinksCounted(run[i - 1], base, links, i - 1) => LinksCounted(run[i], base, links, i)
    BY <2>2, <2>3, LinkStep
  <2> QED BY <1>4, <2>1, <2>4
<1> HIDE DEF P, n
<1>5. 0..n \subseteq P
  BY <1>2, <1>3, <1>4, RunInduction
<1>6. Holds(n) /\ run[n] \in Resolutions
  BY <1>1, <1>2, <1>5 DEF P
<1> QED BY <1>1, <1>6 DEF n

LEMMA AllUpTo ==
  ASSUME NEW n \in Nat, NEW P \in SUBSET (1..n)
  PROVE  UpTo(n, P) = Cardinality(P)
<1>1. (1..n) \cap P = P
  OBVIOUS
<1> QED BY <1>1 DEF UpTo

(* What close resolves: every reference is accounted, every edge and every *)
(* call counts the queued references that are it.                          *)
LEMMA ResolvedCounts ==
  ASSUME SpanTypeOK
  PROVE  /\ Resolved \in Resolutions
         /\ SumFunction(Resolved.edges) + Resolved.refused + Resolved.orphan_parents
              = Len(pending_span_edges)
         /\ SumFunction(Resolved.services) + Resolved.orphan_parents + Resolved.orphan_links
              <= Len(pending_span_edges) + Len(pending_link_edges)
         /\ \A p, c \in InternalId :
              LET joined == Cardinality(Joined(pending_span_edges, p, c)) IN
              /\ Counted(Resolved.edges, <<p, c>>) <= joined
              /\ Resolved.refused = 0 => Counted(Resolved.edges, <<p, c>>) = joined
         /\ \A e \in DOMAIN Resolved.services : e[1] # e[2]
         /\ \A a, b \in Component :
              a # b => Counted(Resolved.services, <<a, b>>)
                         = Cardinality(Calling(pending_span_edges, a, b))
                           + Cardinality(Linking(pending_link_edges, a, b))
<1> DEFINE parents == pending_span_edges
           links == pending_link_edges
           mid == FoldLeft(ResolveParent, resolution, parents)
           res == FoldLeft(ResolveLink, mid, links)
<1>1. parents \in Seq(PendingSpanEdge) /\ links \in Seq(PendingLinkEdge)
      /\ Len(parents) \in Nat /\ Len(links) \in Nat
  BY DEF SpanTypeOK
<1>2. Resolved = res
  BY DEF Resolved, ResolveIn
<1>3. /\ mid \in Resolutions
      /\ ParentsAccounted(mid, Len(parents))
      /\ EdgesCounted(mid, parents, Len(parents))
      /\ CallsCounted(mid, parents, Len(parents))
  BY <1>1, ParentsResolved
<1> HIDE DEF mid
<1>4. \A e \in DOMAIN mid.services : e[1] # e[2]
  BY <1>3 DEF CallsCounted
<1>5. /\ res \in Resolutions
      /\ LinksAccounted(res, mid, Len(links))
      /\ LinksCounted(res, mid, links, Len(links))
  BY <1>1, <1>3, <1>4, LinksResolved
<1> HIDE DEF res
<1>6. res.edges = mid.edges /\ res.refused = mid.refused /\ res.orphan_parents = mid.orphan_parents
  BY <1>5 DEF LinksAccounted, SameEdges
<1>7. SumFunction(res.edges) + res.refused + res.orphan_parents = Len(parents)
  BY <1>3, <1>6 DEF ParentsAccounted
<1>8. SumFunction(res.services) + res.orphan_parents + res.orphan_links <= Len(parents) + Len(links)
  <2> DEFINE calls == SumFunction(mid.services)
             more == SumFunction(res.services)
             orphans == mid.orphan_parents
             lost == res.orphan_links
             n == Len(parents)
             m == Len(links)
  <2>1. calls \in Nat /\ more \in Nat /\ orphans \in Nat /\ lost \in Nat /\ n \in Nat /\ m \in Nat
    BY <1>1, <1>3, <1>5, ResolutionType
  <2>2. calls + orphans <= n /\ mid.orphan_links = 0
    BY <1>3 DEF ParentsAccounted
  <2>3. more + lost <= calls + mid.orphan_links + m
    BY <1>5 DEF LinksAccounted
  <2>4. more + lost <= calls + 0 + m
    BY <2>2, <2>3
  <2> HIDE DEF calls, more, orphans, lost, n, m
  <2>5. more + orphans + lost <= n + m
    BY <2>1, <2>2, <2>4
  <2> QED BY <1>6, <2>5 DEF more, orphans, lost, n, m
<1>9. ASSUME NEW p \in InternalId, NEW c \in InternalId
      PROVE  LET joined == Cardinality(Joined(parents, p, c)) IN
             /\ Counted(res.edges, <<p, c>>) <= joined
             /\ res.refused = 0 => Counted(res.edges, <<p, c>>) = joined
  <2>1. Joined(parents, p, c) \in SUBSET (1..Len(parents))
    BY DEF Joined
  <2>2. UpTo(Len(parents), Joined(parents, p, c)) = Cardinality(Joined(parents, p, c))
    BY <1>1, <2>1, AllUpTo
  <2> QED BY <1>3, <1>6, <2>2 DEF EdgesCounted
<1>10. \A e \in DOMAIN res.services : e[1] # e[2]
  BY <1>5 DEF LinksCounted
<1>11. ASSUME NEW a \in Component, NEW b \in Component, a # b
       PROVE  Counted(res.services, <<a, b>>)
                = Cardinality(Calling(parents, a, b)) + Cardinality(Linking(links, a, b))
  <2>1. Calling(parents, a, b) \in SUBSET (1..Len(parents)) /\ Linking(links, a, b) \in SUBSET (1..Len(links))
    BY DEF Calling, Linking
  <2>2. /\ UpTo(Len(parents), Calling(parents, a, b)) = Cardinality(Calling(parents, a, b))
        /\ UpTo(Len(links), Linking(links, a, b)) = Cardinality(Linking(links, a, b))
    BY <1>1, <2>1, AllUpTo
  <2>3. Counted(mid.services, <<a, b>>) = Cardinality(Calling(parents, a, b))
    BY <1>3, <1>11, <2>2 DEF CallsCounted
  <2>4. Counted(res.services, <<a, b>>)
          = Counted(mid.services, <<a, b>>) + Cardinality(Linking(links, a, b))
    BY <1>5, <1>11, <2>2 DEF LinksCounted
  <2> QED BY <2>3, <2>4
<1> QED BY <1>2, <1>5, <1>7, <1>8, <1>9, <1>10, <1>11

-----------------------------------------------------------------------------
(* What close publishes, against the records of the window *)

LEMMA FirstIsUnique ==
  ASSUME NEW recs \in Seq(Records), NEW span, NEW i, IsFirst(recs, span, i)
  PROVE  FirstOf(recs, span) = recs[i] /\ span \in SpansOf(recs)
<1> DEFINE at == {j \in DOMAIN recs : recs[j].span = span}
<1>1. DOMAIN recs \subseteq Nat
  OBVIOUS
<1>2. i \in at /\ \A j \in at : i <= j
  BY DEF IsFirst
<1>3. \A k \in at : (\A j \in at : k <= j) => k = i
  BY <1>1, <1>2
<1>4. FirstOf(recs, span) = recs[CHOOSE k \in at : \A j \in at : k <= j]
  BY DEF FirstOf
<1> HIDE DEF at
<1>5. (CHOOSE k \in at : \A j \in at : k <= j) = i
  BY <1>2, <1>3
<1> QED BY <1>2, <1>4, <1>5 DEF at, SpansOf

LEMMA HeldAreFirst ==
  ASSUME NEW recs \in Seq(Records), FirstAreHeld(recs), NEW s
  PROVE  /\ s \in DOMAIN span_templates <=> s \in SpansOf(recs)
         /\ s \in SpansOf(recs) => /\ span_templates[s].template = FirstOf(recs, s).template
                                   /\ span_templates[s].component = FirstOf(recs, s).component
<1>1. ASSUME s \in DOMAIN span_templates
      PROVE  /\ s \in SpansOf(recs)
             /\ span_templates[s].template = FirstOf(recs, s).template
             /\ span_templates[s].component = FirstOf(recs, s).component
  <2>1. PICK i \in DOMAIN recs : IsFirst(recs, s, i) /\ span_templates[s] = NodeOf(recs[i])
    BY <1>1 DEF FirstAreHeld
  <2>2. FirstOf(recs, s) = recs[i] /\ s \in SpansOf(recs)
    BY <2>1, FirstIsUnique
  <2> QED BY <2>1, <2>2 DEF NodeOf
<1>2. SpansOf(recs) \subseteq DOMAIN span_templates
  BY DEF FirstAreHeld
<1> QED BY <1>1, <1>2

(* Every child resolved to a parent had recorded that parent.              *)
LEMMA EdgesAreClaimed ==
  ASSUME IInv, HistoryInv, NEW p \in InternalId, NEW c \in InternalId
  PROVE  LET joined == Cardinality(Joined(pending_span_edges, p, c)) IN
         /\ joined \in Nat /\ Cardinality(Claimed(records, p, c)) \in Nat
         /\ joined <= Cardinality(Claimed(records, p, c))
         /\ evictions = 0 => joined = Cardinality(Declared(records, p, c))
<1> DEFINE children == Children(records)
           J == Joined(pending_span_edges, p, c)
           C == Claimed(records, p, c)
           D == Declared(records, p, c)
<1>1. PICK at : ParentsAreQueued(records, at)
  BY DEF HistoryInv
<1>2. /\ at \in Seq(Nat) /\ Lists(at, children) /\ Len(at) = Len(pending_span_edges)
      /\ DOMAIN at = 1..Len(at)
  BY <1>1 DEF ParentsAreQueued
<1>3. \A k \in 1..Len(at) :
        /\ at[k] \in children
        /\ pending_span_edges[k].child = records[at[k]].template
        /\ pending_span_edges[k].parent = records[at[k]].parent
  BY <1>1, <1>2 DEF ParentsAreQueued, Lists, Range
<1>4. \A k \in 1..Len(at) :
        k \in J <=> LET parent == records[at[k]].parent IN
                    /\ parent \in DOMAIN span_templates
                    /\ span_templates[parent].template = p
                    /\ records[at[k]].template = c
  BY <1>2, <1>3 DEF Joined
<1>5. J \in SUBSET (1..Len(at)) /\ C \in SUBSET children /\ D \in SUBSET children
  BY <1>2 DEF Joined, Claimed, Declared
<1>6. records \in Seq(Records)
  BY DEF IInv, TypeOK
<1>7. Cardinality(J) <= Cardinality(C) /\ Cardinality(J) \in Nat /\ Cardinality(C) \in Nat
  <2>1. ASSUME NEW k \in 1..Len(at), k \in J PROVE at[k] \in C
    <3>1. records[at[k]].parent \in DOMAIN span_templates
      BY <1>4, <2>1
    <3>2. PICK i \in DOMAIN records :
            /\ records[i].span = records[at[k]].parent
            /\ span_templates[records[at[k]].parent] = NodeOf(records[i])
      BY <3>1 DEF HistoryInv, HeldAreRecorded
    <3>3. records[i].template = p /\ records[at[k]].template = c
      BY <1>4, <2>1, <3>2 DEF NodeOf
    <3> QED BY <1>3, <3>2, <3>3 DEF Claimed
  <2> HIDE DEF J, C, children
  <2> QED BY <1>2, <1>5, <2>1, PlacesMatch
<1>8. ASSUME evictions = 0 PROVE Cardinality(J) = Cardinality(D)
  <2>1. FirstAreHeld(records)
    BY <1>8 DEF HistoryInv
  <2>2. ASSUME NEW k \in 1..Len(at) PROVE k \in J <=> at[k] \in D
    <3> DEFINE parent == records[at[k]].parent
    <3>1. /\ parent \in DOMAIN span_templates <=> parent \in SpansOf(records)
          /\ parent \in SpansOf(records) =>
               span_templates[parent].template = FirstOf(records, parent).template
      BY <1>6, <2>1, HeldAreFirst
    <3>2. at[k] \in D <=> /\ records[at[k]].template = c
                          /\ parent \in SpansOf(records)
                          /\ FirstOf(records, parent).template = p
      BY <1>3 DEF Declared
    <3>3. k \in J <=> /\ parent \in DOMAIN span_templates
                      /\ span_templates[parent].template = p
                      /\ records[at[k]].template = c
      BY <1>4
    <3> HIDE DEF parent, J, D
    <3> QED BY <3>1, <3>2, <3>3
  <2> HIDE DEF J, D, children
  <2> QED BY <1>2, <1>5, <2>2, PlacesMatch
<1> QED BY <1>7, <1>8

(* Every call and link resolved to a component had recorded it.            *)
LEMMA CallsAreClaimed ==
  ASSUME IInv, HistoryInv, NEW a \in Component, NEW b \in Component
  PROVE  Cardinality(Calling(pending_span_edges, a, b)) + Cardinality(Linking(pending_link_edges, a, b))
           <= ClaimedCalls(records, a, b)
<1> DEFINE children == Children(records)
           links == LinksOf(records)
           Recorded(span, component) ==
             \E k \in DOMAIN records : records[k].span = span /\ records[k].component = component
           called == {i \in children : /\ records[i].component = b
                                       /\ Recorded(records[i].parent, a)}
           linked == {l \in links : /\ records[l[1]].component = a
                                    /\ Recorded(records[l[1]].links[l[2]], b)}
           J == Calling(pending_span_edges, a, b)
           K == Linking(pending_link_edges, a, b)
<1>1. \A s \in DOMAIN span_templates : Recorded(s, span_templates[s].component)
  <2> SUFFICES ASSUME NEW s \in DOMAIN span_templates
               PROVE  Recorded(s, span_templates[s].component)
    OBVIOUS
  <2>1. PICK i \in DOMAIN records : records[i].span = s /\ span_templates[s] = NodeOf(records[i])
    BY DEF HistoryInv, HeldAreRecorded
  <2> QED BY <2>1 DEF NodeOf
<1> HIDE DEF Recorded
<1>2. Cardinality(J) <= Cardinality(called) /\ Cardinality(J) \in Nat /\ Cardinality(called) \in Nat
  <2>1. PICK at : ParentsAreQueued(records, at)
    BY DEF HistoryInv
  <2>2. /\ at \in Seq(Nat) /\ Lists(at, children) /\ Len(at) = Len(pending_span_edges)
        /\ DOMAIN at = 1..Len(at)
    BY <2>1 DEF ParentsAreQueued
  <2>3. J \in SUBSET (1..Len(at)) /\ called \in SUBSET children
    BY <2>2 DEF Calling
  <2>4. ASSUME NEW k \in 1..Len(at), k \in J PROVE at[k] \in called
    <3> DEFINE parent == records[at[k]].parent
    <3>1. /\ at[k] \in children
          /\ pending_span_edges[k].component = records[at[k]].component
          /\ pending_span_edges[k].parent = parent
      BY <2>1, <2>2 DEF ParentsAreQueued, Lists, Range
    <3>2. /\ parent \in DOMAIN span_templates
          /\ span_templates[parent].component = a
          /\ records[at[k]].component = b
      BY <2>4, <3>1 DEF Calling
    <3> HIDE DEF parent
    <3>3. Recorded(parent, a)
      BY <1>1, <3>2
    <3> QED BY <3>1, <3>2, <3>3 DEF parent
  <2> HIDE DEF J, called, children
  <2> QED BY <2>2, <2>3, <2>4, PlacesMatch
<1>3. Cardinality(K) <= Cardinality(linked) /\ Cardinality(K) \in Nat /\ Cardinality(linked) \in Nat
  <2>1. PICK at : LinksAreQueued(records, at)
    BY DEF HistoryInv
  <2>2. /\ at \in Seq(Nat \X Nat) /\ Lists(at, links) /\ Len(at) = Len(pending_link_edges)
        /\ DOMAIN at = 1..Len(at)
    BY <2>1 DEF LinksAreQueued
  <2>3. K \in SUBSET (1..Len(at)) /\ linked \in SUBSET links
    BY <2>2 DEF Linking
  <2>4. ASSUME NEW k \in 1..Len(at), k \in K PROVE at[k] \in linked
    <3> DEFINE other == records[at[k][1]].links[at[k][2]]
    <3>1. /\ at[k] \in links
          /\ pending_link_edges[k].component = records[at[k][1]].component
          /\ pending_link_edges[k].linked = other
      BY <2>1, <2>2 DEF LinksAreQueued, Lists, Range
    <3>2. /\ other \in DOMAIN span_templates
          /\ span_templates[other].component = b
          /\ records[at[k][1]].component = a
      BY <2>4, <3>1 DEF Linking
    <3> HIDE DEF other
    <3>3. Recorded(other, b)
      BY <1>1, <3>2
    <3> QED BY <3>1, <3>2, <3>3 DEF other
  <2> HIDE DEF K, linked, links
  <2>5. at \in Seq(Nat \X Nat) /\ Lists(at, links)
    BY <2>2
  <2> QED BY ONLY <2>3, <2>4, <2>5, PlacesMatch
<1>4. ClaimedCalls(records, a, b) = Cardinality(called) + Cardinality(linked)
  BY DEF ClaimedCalls, Recorded
<1> HIDE DEF J, K, called, linked
<1>5. Cardinality(J) + Cardinality(K) <= Cardinality(called) + Cardinality(linked)
  BY <1>2, <1>3
<1> QED BY <1>4, <1>5 DEF J, K

(* Every service edge is made of calls and links between two components.   *)
LEMMA CallsAreDeclared ==
  ASSUME IInv, HistoryInv, evictions = 0, NEW a \in Component, NEW b \in Component
  PROVE  Cardinality(Calling(pending_span_edges, a, b)) + Cardinality(Linking(pending_link_edges, a, b))
           = DeclaredCalls(records, a, b)
<1> DEFINE children == Children(records)
           links == LinksOf(records)
           called == {i \in children : /\ records[i].component = b
                                       /\ records[i].parent \in SpansOf(records)
                                       /\ FirstOf(records, records[i].parent).component = a}
           linked == {l \in links : /\ records[l[1]].component = a
                                    /\ records[l[1]].links[l[2]] \in SpansOf(records)
                                    /\ FirstOf(records, records[l[1]].links[l[2]]).component = b}
           J == Calling(pending_span_edges, a, b)
           K == Linking(pending_link_edges, a, b)
<1>1. records \in Seq(Records) /\ FirstAreHeld(records)
  BY DEF IInv, TypeOK, HistoryInv
<1>2. \A s : /\ s \in DOMAIN span_templates <=> s \in SpansOf(records)
             /\ s \in SpansOf(records) =>
                  span_templates[s].component = FirstOf(records, s).component
  BY <1>1, HeldAreFirst
<1>3. Cardinality(J) = Cardinality(called)
  <2>1. PICK at : ParentsAreQueued(records, at)
    BY DEF HistoryInv
  <2>2. /\ at \in Seq(Nat) /\ Lists(at, children) /\ Len(at) = Len(pending_span_edges)
        /\ DOMAIN at = 1..Len(at)
    BY <2>1 DEF ParentsAreQueued
  <2>3. J \in SUBSET (1..Len(at)) /\ called \in SUBSET children
    BY <2>2 DEF Calling
  <2>4. ASSUME NEW k \in 1..Len(at) PROVE k \in J <=> at[k] \in called
    <3> DEFINE parent == records[at[k]].parent
    <3>1. /\ at[k] \in children
          /\ pending_span_edges[k].component = records[at[k]].component
          /\ pending_span_edges[k].parent = parent
      BY <2>1, <2>2 DEF ParentsAreQueued, Lists, Range
    <3>2. at[k] \in called <=> /\ records[at[k]].component = b
                               /\ parent \in SpansOf(records)
                               /\ FirstOf(records, parent).component = a
      BY <3>1
    <3>3. k \in J <=> /\ parent \in DOMAIN span_templates
                      /\ span_templates[parent].component = a
                      /\ records[at[k]].component = b
      BY <2>2, <3>1 DEF Calling
    <3> HIDE DEF parent, J, called
    <3> QED BY <1>2, <3>2, <3>3
  <2> HIDE DEF J, called, children
  <2> QED BY <2>2, <2>3, <2>4, PlacesMatch
<1>4. Cardinality(K) = Cardinality(linked)
  <2>1. PICK at : LinksAreQueued(records, at)
    BY DEF HistoryInv
  <2>2. /\ at \in Seq(Nat \X Nat) /\ Lists(at, links) /\ Len(at) = Len(pending_link_edges)
        /\ DOMAIN at = 1..Len(at)
    BY <2>1 DEF LinksAreQueued
  <2>3. K \in SUBSET (1..Len(at)) /\ linked \in SUBSET links
    BY <2>2 DEF Linking
  <2>4. ASSUME NEW k \in 1..Len(at) PROVE k \in K <=> at[k] \in linked
    <3> DEFINE other == records[at[k][1]].links[at[k][2]]
    <3>1. /\ at[k] \in links
          /\ pending_link_edges[k].component = records[at[k][1]].component
          /\ pending_link_edges[k].linked = other
      BY <2>1, <2>2 DEF LinksAreQueued, Lists, Range
    <3>2. at[k] \in linked <=> /\ records[at[k][1]].component = a
                               /\ other \in SpansOf(records)
                               /\ FirstOf(records, other).component = b
      BY <3>1
    <3>3. k \in K <=> /\ other \in DOMAIN span_templates
                      /\ span_templates[other].component = b
                      /\ records[at[k][1]].component = a
      BY <2>2, <3>1 DEF Linking
    <3> HIDE DEF other, K, linked
    <3> QED BY <1>2, <3>2, <3>3
  <2> HIDE DEF K, linked, links
  <2>5. at \in Seq(Nat \X Nat) /\ Lists(at, links)
    BY <2>2
  <2> QED BY ONLY <2>3, <2>4, <2>5, PlacesMatch
<1>5. DeclaredCalls(records, a, b) = Cardinality(called) + Cardinality(linked)
  BY DEF DeclaredCalls
<1> HIDE DEF J, K, called, linked
<1> QED BY <1>3, <1>4, <1>5 DEF J, K

-----------------------------------------------------------------------------
(* The heaviest keys of a bag *)

Heavier(bag, p, q) == bag[p] > bag[q] \/ (bag[p] = bag[q] /\ PairLess(p, q))

ByWeight(bag) ==
  {pq \in (DOMAIN bag) \X (DOMAIN bag) : Heavier(bag, pq[1], pq[2])}

LEMMA ByWeightIsOrder ==
  ASSUME NEW bag, IsFiniteBag(bag), DOMAIN bag \subseteq Nat \X Nat
  PROVE  /\ IsOrder(ByWeight(bag), DOMAIN bag)
         /\ \A p \in DOMAIN bag :
              Ahead(ByWeight(bag), DOMAIN bag, p) = {q \in DOMAIN bag : Heavier(bag, q, p)}
<1> DEFINE S == DOMAIN bag
<1>1. \A p \in S : bag[p] \in Nat /\ p[1] \in Nat /\ p[2] \in Nat /\ p = <<p[1], p[2]>>
  BY DEF IsFiniteBag
<1>2. \A p, q \in S : <<p, q>> \in ByWeight(bag) <=> Heavier(bag, p, q)
  BY DEF ByWeight
<1>3. \A p \in S : Ahead(ByWeight(bag), S, p) = {q \in S : Heavier(bag, q, p)}
  BY <1>2 DEF Ahead
<1> HIDE DEF S
<1>4. ASSUME NEW p \in S PROVE ~Heavier(bag, p, p)
  BY <1>1 DEF Heavier, PairLess
<1>5. ASSUME NEW p \in S, NEW q \in S, NEW r \in S, Heavier(bag, p, q), Heavier(bag, q, r)
      PROVE  Heavier(bag, p, r)
  BY <1>1, <1>5 DEF Heavier, PairLess
<1>6. ASSUME NEW p \in S, NEW q \in S PROVE p = q \/ Heavier(bag, p, q) \/ Heavier(bag, q, p)
  <2>1. p[1] = q[1] /\ p[2] = q[2] => p = q
    BY <1>1
  <2> QED BY <1>1, <2>1 DEF Heavier, PairLess
<1>7. IsOrder(ByWeight(bag), S)
  BY <1>2, <1>4, <1>5, <1>6 DEF IsOrder
<1> QED BY <1>3, <1>7 DEF S

(* The edges a cut keeps are heavier than those it drops, ties broken.     *)
LEMMA TopByCountIsHeaviest ==
  ASSUME NEW bag, IsFiniteBag(bag), DOMAIN bag \subseteq Nat \X Nat, NEW n \in Nat
  PROVE  LET top == TopByCount(bag, n) IN
         /\ top \subseteq DOMAIN bag
         /\ Cardinality(DOMAIN bag) \in Nat
         /\ Cardinality(top) = IF Cardinality(DOMAIN bag) <= n THEN Cardinality(DOMAIN bag) ELSE n
         /\ \A kept \in top, cut \in DOMAIN bag \ top : Heavier(bag, kept, cut)
<1> DEFINE S == DOMAIN bag
           before == ByWeight(bag)
           top == TopByCount(bag, n)
<1>1. IsFiniteSet(S) /\ \A p \in S : bag[p] \in Nat
  BY DEF IsFiniteBag
<1>2. IsOrder(before, S) /\ \A p \in S : Ahead(before, S, p) = {q \in S : Heavier(bag, q, p)}
  BY ByWeightIsOrder
<1>3. \A p, q \in S : <<p, q>> \in before <=> Heavier(bag, p, q)
  BY DEF ByWeight
<1>4. top = {p \in S : Rank(before, S, p) < n}
  BY <1>2 DEF TopByCount, Heavier, Rank
<1> HIDE DEF S, before, top
<1>5. Cardinality(S) \in Nat
  BY <1>1, CountIsNat
<1>6. Cardinality(top) = IF Cardinality(S) <= n THEN Cardinality(S) ELSE n
  BY <1>1, <1>2, <1>4, FirstByRank
<1>7. ASSUME NEW kept \in top, NEW cut \in S \ top PROVE Heavier(bag, kept, cut)
  <2>1. /\ kept \in S /\ cut \in S
        /\ Rank(before, S, kept) < n /\ ~(Rank(before, S, cut) < n)
    BY <1>4
  <2>2. ASSUME <<cut, kept>> \in before PROVE FALSE
    <3>2. Rank(before, S, cut) < Rank(before, S, kept)
      BY <1>1, <1>2, <2>1, <2>2, RankGrows
    <3>3. Rank(before, S, cut) \in Nat /\ Rank(before, S, kept) \in Nat
      <4>1. Rank(before, S, cut) \in 0..(Cardinality(S) - 1)
        BY <1>1, <1>2, <2>1, RankIsBounded
      <4>2. Rank(before, S, kept) \in 0..(Cardinality(S) - 1)
        BY <1>1, <1>2, <2>1, RankIsBounded
      <4> QED BY <4>1, <4>2
    <3> QED BY <2>1, <3>2, <3>3
  <2>3. <<kept, cut>> \in before
    BY <1>2, <1>4, <2>1, <2>2 DEF IsOrder
  <2> QED BY <1>3, <2>1, <2>3
<1>8. top \subseteq S
  BY <1>4
<1> QED BY <1>5, <1>6, <1>7, <1>8 DEF S, top

(* The edges of the span block, when an internal id stands for itself.     *)
LEMMA SpanEdgesStand ==
  ASSUME NEW res, IsFiniteBag(res.edges), DOMAIN res.edges \subseteq InternalId \X InternalId
  PROVE  SpanEdgeBlock(res, Itself).edges
           = Restrict(res.edges, TopByCount(res.edges, SpanEdgesSize))
<1> DEFINE bag == res.edges
           D == DOMAIN bag
           Shown(p) == <<Itself[p[1]], Itself[p[2]]>>
           Weight(e) == MapThenSumSet(LAMBDA p : res.edges[p], {p \in D : Shown(p) = e})
           rendered == [e \in {Shown(p) : p \in D} |-> Weight(e)]
<1>1. \A p \in D : Shown(p) = p
  BY DEF Itself
<1>2. \A e : Weight(e) = SumFunctionOnSet(bag, {p \in D : Shown(p) = e})
  BY Zenon DEF MapThenSumSet, MapThenFoldSet, SumFunctionOnSet, FoldFunctionOnSet
<1>3. bag = [p \in D |-> bag[p]] /\ \A p \in D : bag[p] \in Nat
  BY DEF IsFiniteBag
<1> HIDE DEF bag, D, Shown
<1>4. ASSUME NEW e \in D PROVE SumFunctionOnSet(bag, {p \in D : Shown(p) = e}) = bag[e]
  <2>1. {p \in D : Shown(p) = e} = {e}
    BY <1>1
  <2>2. SumFunctionOnSet(bag, {e}) = bag[e] + SumFunctionOnSet(bag, {e} \ {e})
    <3>1. IsFiniteSet({e}) /\ \A x \in {e} : bag[x] \in Nat
      BY <1>3, FS_Singleton
    <3> QED BY <3>1, SumRemove
  <2>3. SumFunctionOnSet(bag, {e} \ {e}) = 0
    <3>1. {e} \ {e} = {}
      OBVIOUS
    <3> QED BY <3>1, SumEmpty
  <2> QED BY <1>3, <2>1, <2>2, <2>3
<1> HIDE DEF Weight
<1>5. {Shown(p) : p \in D} = D
  BY <1>1
<1>6. rendered = bag
  BY <1>2, <1>3, <1>4, <1>5
<1>7. SpanEdgeBlock(res, Itself).edges = Restrict(rendered, TopByCount(rendered, SpanEdgesSize))
  BY DEF SpanEdgeBlock, bag, D, Shown, Weight
<1> QED BY <1>6, <1>7 DEF bag

(* What a window publishes, from its records.                              *)
LEMMA PublicationIsOfTheRecords ==
  ASSUME IInv, HistoryInv, NEW pub, pub = Publication, published' = <<pub>>
  PROVE  /\ EveryReferenceAccounted'
         /\ SpanEdgesAreDeclared'
         /\ ServiceEdgesAreDeclared'
         /\ TruncationIsHonest'
<1> DEFINE res == pub.res
           recs == pub.records
<1>1. /\ pub.res = Resolved /\ pub.records = records /\ pub.evictions = evictions
      /\ pub.blocks = SpanBlocks(Resolved, Itself)
      /\ pub.acquisition.span_records = span_records
  BY DEF Publication, SpanAcquisition
<1>2. LastClose' = pub
  BY DEF LastClose
<1>3. SpanTypeOK /\ span_records = Len(records)
  BY DEF IInv, TypeOK, HistoryInv
<1>4. Resolved \in Resolutions
  BY <1>3, ResolvedCounts
<1>5. EveryReferenceAccounted'
  <2>1. Cardinality(Children(records)) = Len(pending_span_edges)
    <3>1. PICK at : ParentsAreQueued(records, at)
      BY DEF HistoryInv
    <3> QED BY <3>1 DEF ParentsAreQueued, Lists
  <2>2. Cardinality(LinksOf(records)) = Len(pending_link_edges)
    <3>1. PICK at : LinksAreQueued(records, at)
      BY DEF HistoryInv
    <3> QED BY <3>1 DEF LinksAreQueued, Lists
  <2>3. /\ SumFunction(Resolved.edges) + Resolved.refused + Resolved.orphan_parents
             = Len(pending_span_edges)
        /\ SumFunction(Resolved.services) + Resolved.orphan_parents + Resolved.orphan_links
             <= Len(pending_span_edges) + Len(pending_link_edges)
    BY <1>3, ResolvedCounts
  <2>4. /\ Cardinality(Children(recs)) = SumFunction(res.edges) + res.refused + res.orphan_parents
        /\ SumFunction(res.services) + res.orphan_parents + res.orphan_links
             <= Cardinality(Children(recs)) + Cardinality(LinksOf(recs))
        /\ pub.acquisition.span_records = Len(recs)
    BY <1>1, <1>3, <2>1, <2>2, <2>3
  <2> QED BY <1>2, <2>4 DEF EveryReferenceAccounted
<1>6. SpanEdgesAreDeclared'
  <2>1. ASSUME NEW p \in InternalId, NEW c \in InternalId
        PROVE  /\ Counted(res.edges, <<p, c>>) <= Cardinality(Claimed(recs, p, c))
               /\ (pub.evictions = 0 /\ res.refused = 0) =>
                    Counted(res.edges, <<p, c>>) = Cardinality(Declared(recs, p, c))
    <3> DEFINE joined == Cardinality(Joined(pending_span_edges, p, c))
               count == Counted(Resolved.edges, <<p, c>>)
               claimed == Cardinality(Claimed(records, p, c))
    <3>1. count <= joined /\ (Resolved.refused = 0 => count = joined)
      BY <1>3, ResolvedCounts
    <3>2. joined <= claimed /\ (evictions = 0 => joined = Cardinality(Declared(records, p, c)))
      BY EdgesAreClaimed
    <3>3. count \in Nat /\ joined \in Nat /\ claimed \in Nat
      <4>1. IsFiniteBag(Resolved.edges)
        BY <1>4, ResolutionType
      <4> QED BY <4>1, EdgesAreClaimed DEF Counted, IsFiniteBag
    <3> HIDE DEF count, joined, claimed
    <3>4. count <= claimed
      BY <3>1, <3>2, <3>3
    <3> QED BY <1>1, <3>1, <3>2, <3>4 DEF count, claimed
  <2> QED BY <1>2, <2>1 DEF SpanEdgesAreDeclared
<1>7. ServiceEdgesAreDeclared'
  <2>1. ASSUME NEW e \in DOMAIN res.services PROVE e[1] # e[2] /\ NoComponent \notin {e[1], e[2]}
    <3>1. DOMAIN Resolved.services \subseteq Component \X Component
      BY <1>4, ResolutionType
    <3>2. e[1] # e[2]
      BY <1>1, <1>3, <2>1, ResolvedCounts
    <3>3. e[1] \in Component /\ e[2] \in Component
      BY <1>1, <2>1, <3>1
    <3> QED BY <3>2, <3>3, SpanAssumption
  <2>2. ASSUME NEW a \in Component, NEW b \in Component, a # b
        PROVE  /\ Counted(res.services, <<a, b>>) <= ClaimedCalls(recs, a, b)
               /\ pub.evictions = 0 =>
                    Counted(res.services, <<a, b>>) = DeclaredCalls(recs, a, b)
    <3>1. Counted(Resolved.services, <<a, b>>)
            = Cardinality(Calling(pending_span_edges, a, b))
              + Cardinality(Linking(pending_link_edges, a, b))
      BY <1>3, <2>2, ResolvedCounts
    <3>2. Counted(Resolved.services, <<a, b>>) <= ClaimedCalls(records, a, b)
      BY <3>1, CallsAreClaimed
    <3>3. evictions = 0 => Counted(Resolved.services, <<a, b>>) = DeclaredCalls(records, a, b)
      BY <3>1, CallsAreDeclared
    <3> QED BY <1>1, <3>2, <3>3
  <2> QED BY <1>2, <2>1, <2>2 DEF ServiceEdgesAreDeclared
<1>8. TruncationIsHonest'
  <2> DEFINE all == Resolved.services
             service == ServiceEdgeBlock(all)
             top == TopByCount(all, MaxServiceEdges)
             shown == SpanEdgeBlock(Resolved, Itself).edges
             edges == Resolved.edges
             first == TopByCount(edges, SpanEdgesSize)
  <2>1. /\ IsFiniteBag(all) /\ DOMAIN all \subseteq Nat \X Nat /\ MaxServiceEdges \in Nat
        /\ IsFiniteBag(edges) /\ DOMAIN edges \subseteq InternalId \X InternalId
        /\ DOMAIN edges \subseteq Nat \X Nat /\ SpanEdgesSize \in Nat
    BY <1>4, ResolutionType, SpanAssumption
  <2>2. /\ top \subseteq DOMAIN all
        /\ Cardinality(DOMAIN all) \in Nat
        /\ Cardinality(top) = IF Cardinality(DOMAIN all) <= MaxServiceEdges
                              THEN Cardinality(DOMAIN all) ELSE MaxServiceEdges
        /\ \A kept \in top, cut \in DOMAIN all \ top : Heavier(all, kept, cut)
    BY <2>1, TopByCountIsHeaviest
  <2>s. /\ first \subseteq DOMAIN edges
        /\ Cardinality(DOMAIN edges) \in Nat
        /\ Cardinality(first) = IF Cardinality(DOMAIN edges) <= SpanEdgesSize
                                THEN Cardinality(DOMAIN edges) ELSE SpanEdgesSize
        /\ \A kept \in first, cut \in DOMAIN edges \ first : Heavier(edges, kept, cut)
    BY <2>1, TopByCountIsHeaviest
  <2>e. DOMAIN shown = first
    <3>1. shown = Restrict(edges, first)
      BY <2>1, SpanEdgesStand
    <3> HIDE DEF shown, edges, first
    <3> QED BY <3>1 DEF Restrict
  <2>3. /\ DOMAIN service.edges = top
        /\ service.dropped_edges = IF Cardinality(DOMAIN all) <= MaxServiceEdges THEN 0
                                   ELSE Cardinality(DOMAIN all) - MaxServiceEdges
    BY DEF ServiceEdgeBlock, Restrict
  <2>4. pub.blocks # << >> => /\ pub.blocks[1].service = service
                              /\ pub.blocks[1].span.edges = shown
    BY <1>1 DEF SpanBlocks
  <2>c. \A p, q \in DOMAIN all : all[p] \in Nat /\ all[q] \in Nat
    BY <2>1 DEF IsFiniteBag
  <2>d. \A p, q \in DOMAIN edges : edges[p] \in Nat /\ edges[q] \in Nat
    BY <2>1 DEF IsFiniteBag
  <2> HIDE DEF all, service, top, shown, edges, first
  <2>5. Cardinality(DOMAIN service.edges) + service.dropped_edges = Cardinality(DOMAIN all)
    BY <2>1, <2>2, <2>3
  <2>6. KeepsTheHeaviest(all, service.edges)
    BY <2>2, <2>3, <2>c DEF KeepsTheHeaviest, Heavier
  <2>7. pub.res.services = all /\ pub.res.edges = edges
    BY <1>1 DEF all, edges
  <2>8. KeepsTheHeaviest(edges, shown)
    BY <2>s, <2>e, <2>d DEF KeepsTheHeaviest, Heavier
  <2>9. Cardinality(DOMAIN shown) = Min({SpanEdgesSize, Cardinality(DOMAIN edges)})
    <3> DEFINE n == Cardinality(DOMAIN edges)
    <3>1. n \in Nat /\ SpanEdgesSize \in Nat
      BY <2>1, <2>s
    <3>2. Cardinality(DOMAIN shown) = IF n <= SpanEdgesSize THEN n ELSE SpanEdgesSize
      BY <2>s, <2>e
    <3> HIDE DEF n
    <3> QED BY <3>1, <3>2 DEF Min, n
  <2> QED BY <1>2, <2>4, <2>5, <2>6, <2>7, <2>8, <2>9 DEF TruncationIsHonest
<1> QED BY <1>5, <1>6, <1>7, <1>8

ClosesHonestly ==
  /\ EveryReferenceAccounted
  /\ SpanEdgesAreDeclared
  /\ ServiceEdgesAreDeclared
  /\ TruncationIsHonest

LEMMA NothingPublished == published = << >> => ClosesHonestly
BY DEF ClosesHonestly, EveryReferenceAccounted, SpanEdgesAreDeclared, ServiceEdgesAreDeclared,
       TruncationIsHonest

LEMMA NextClosesHonestly == IInv /\ HistoryInv /\ ClosesHonestly /\ [Next]_vars => ClosesHonestly'
<1> SUFFICES ASSUME IInv, HistoryInv, ClosesHonestly, [Next]_vars PROVE ClosesHonestly'
  OBVIOUS
<1>1. (published = << >> => ClosesHonestly)'
  BY NothingPublished, PTL
<1>2. ASSUME NEW r \in Records, Record(r) PROVE ClosesHonestly'
  BY <1>1, <1>2 DEF Record
<1>3. CASE Close
  <2>1. PICK pub : pub = Publication
    OBVIOUS
  <2>2. published' = <<pub>>
    BY <1>3, <2>1 DEF Close
  <2> QED BY <2>1, <2>2, PublicationIsOfTheRecords DEF ClosesHonestly
<1>4. CASE Discard
  BY <1>1, <1>4 DEF Discard
<1>5. CASE UNCHANGED vars
  BY <1>5 DEF vars, ClosesHonestly, LastClose, EveryReferenceAccounted, SpanEdgesAreDeclared,
              ServiceEdgesAreDeclared, TruncationIsHonest
<1> QED BY <1>2, <1>3, <1>4, <1>5 DEF Next

LEMMA AlwaysClosesHonestly == Spec => []ClosesHonestly
<1>1. Init => HistoryInv
  BY EmptyWindowHasHistory DEF Init
<1>2. Init => ClosesHonestly
  BY NothingPublished DEF Init
<1> QED BY <1>1, <1>2, InitHasIInv, NextKeepsIInv, NextKeepsHistory, NextClosesHonestly, PTL DEF Spec

-----------------------------------------------------------------------------
(* The theorems *)

(* record_span's table, FIFO and queues are well formed in every window,   *)
(* and nothing is resolved before close.                                   *)
THEOREM SpansAreWellFormed == Spec => []TypeOK
<1>1. IInv => TypeOK
  BY DEF IInv
<1> QED BY <1>1, AlwaysIInv, PTL

(* span_fifo_ lists exactly the spans held, each once and within           *)
(* max_active_spans, so that the head record_span evicts is always held.   *)
THEOREM FifoIsAlwaysTheSpans == Spec => []FifoIsTheSpans
<1>1. IInv => FifoIsTheSpans
  BY DEF IInv, FifoOfBounded, Lists, FifoIsTheSpans
<1> QED BY <1>1, AlwaysIInv, PTL

(* Whatever the order the spans of a trace arrive in, every declared       *)
(* parent and link of a closed window is an edge, refused or an orphan.    *)
THEOREM EveryReferenceIsAlwaysAccounted == Spec => []EveryReferenceAccounted
<1>1. ClosesHonestly => EveryReferenceAccounted
  BY DEF ClosesHonestly
<1> QED BY <1>1, AlwaysClosesHonestly, PTL

(* The span edges published are counted and never guessed: no more of an   *)
(* edge than children whose parent was recorded so, and exactly the        *)
(* declared relation when nothing was evicted or refused.                  *)
THEOREM SpanEdgesAreAlwaysDeclared == Spec => []SpanEdgesAreDeclared
<1>1. ClosesHonestly => SpanEdgesAreDeclared
  BY DEF ClosesHonestly
<1> QED BY <1>1, AlwaysClosesHonestly, PTL

(* The service edges join two different known components and weigh no more *)
(* than the calls and links to spans recorded so, and exactly what was     *)
(* declared when nothing was evicted.                                      *)
THEOREM ServiceEdgesAreAlwaysDeclared == Spec => []ServiceEdgesAreDeclared
<1>1. ClosesHonestly => ServiceEdgesAreDeclared
  BY DEF ClosesHonestly
<1> QED BY <1>1, AlwaysClosesHonestly, PTL

(* A truncated service block says how many edges it lacks, none of which   *)
(* outweighs one it kept.                                                  *)
THEOREM TruncationIsAlwaysHonest == Spec => []TruncationIsHonest
<1>1. ClosesHonestly => TruncationIsHonest
  BY DEF ClosesHonestly
<1> QED BY <1>1, AlwaysClosesHonestly, PTL

=============================================================================
