------------------------------ MODULE MCFields ------------------------------
(* Two templates of one component; three raw values, two of which are one   *)
(* key, over three registers, two of which fill the sparse store; octaves   *)
(* up to 64 and more.                                                       *)
EXTENDS FieldLadder

MCWellFormed == (1 :> 1) @@ (2 :> 2) @@ (3 :> 2) @@ (4 :> 4)

MCRegisterUpdate ==
  (1 :> [index |-> 0, rank |-> 1]) @@ (2 :> [index |-> 1, rank |-> 2])
  @@ (3 :> [index |-> 0, rank |-> 3]) @@ (4 :> [index |-> 2, rank |-> 1])

MCBins == "duration" :> 7 @@ "size" :> 3

Took(value) == << [value |-> value, field |-> "took", schedule |-> "duration"] >>

MCEvents ==
  {[template |-> 1, params |-> <<1>>, ordinals |-> Took(1)],
   [template |-> 1, params |-> <<2, 1>>, ordinals |-> Took(100)],
   [template |-> 1, params |-> <<3, 4>>,
    ordinals |-> Took(5) \o << [value |-> 64, field |-> "waited", schedule |-> "duration"] >>],
   [template |-> 2, params |-> <<4>>,
    ordinals |-> Took(2) \o << [value |-> 9, field |-> "bytes", schedule |-> "size"] >>]}

MCCaps == {[slots |-> 0, values |-> 1], [slots |-> 1, values |-> 2], [slots |-> 2, values |-> 1]}

MCComponent == <<(<<1>>), (<<1>>)>>

=============================================================================
