---------------------------- MODULE MCVocabulary ----------------------------
(* Vocabulary on four template strings, two of which share an id, as two   *)
(* strings with one hash would.                                            *)
EXTENDS Vocabulary

CONSTANTS s1, s2, s3, s4

MCTemplateStr == {s1, s2, s3, s4}

MCIdOf == [s \in MCTemplateStr |-> CASE s = s1 -> 1 [] s = s2 -> 2 [] s = s3 -> 3 [] s = s4 -> 1]

=============================================================================
