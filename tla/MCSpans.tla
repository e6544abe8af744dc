------------------------------ MODULE MCSpans ------------------------------
(* SpanHistory on small instances.  Template 1 is logged by component 1,   *)
(* template 2 by component 2 and template 3 by no component.  A record has *)
(* a parent, or links, or neither.                                         *)
EXTENDS SpanHistory

CONSTANT MCTemplates

MCComponentOf(t) == IF t = 3 THEN NoComponent ELSE t

MCRecords ==
  {[span |-> s, parent |-> p, links |-> l, template |-> t, component |-> MCComponentOf(t)] :
     s \in SpanId, p \in SpanId \cup {NoSpan}, t \in MCTemplates,
     l \in {<< >>} \cup {<<x>> : x \in SpanId}}

MCOneReference == {r \in MCRecords : r.parent = NoSpan \/ r.links = << >>}

(* Parents between templates 1 and 2, links from template 1, roots of any. *)
MCMixed ==
  {r \in MCOneReference : \/ r.parent = NoSpan /\ r.links = << >>
                          \/ r.parent # NoSpan /\ r.template \in {1, 2}
                          \/ r.links # << >> /\ r.template = 1}

MCSymmetry == Permutations(SpanId)

=============================================================================
