---------------------------- MODULE MCDocuments ----------------------------
(* DocumentLadder on small instances: two rows in top_k, a reservoir of     *)
(* one.  Levels: 2 is Info, 4 Error, 6 Unknown.  Role 9 is the Terminator.  *)
EXTENDS DocumentLadder

MCSpelling == [level \in 0..6 |-> CASE level = 0 -> 4 [] level = 1 -> 0 [] level = 2 -> 3
                                    [] level = 3 -> 6 [] level = 4 -> 1 [] level = 5 -> 2
                                    [] level = 6 -> 5]

MCRoleRank == [role \in {1, 9} |-> role]

Bucket(t, count, level, components) ==
  [str |-> t, count |-> count, first_seen |-> 0, levels |-> level :> count,
   declared |-> IF level = 4 THEN level :> count ELSE << >>, roles |-> 0 :> count,
   echoed |-> FALSE, components |-> components]

(* All of a bucket's lines at its one level; those without a component. *)
Lines(bucket) ==
  LET labels == DOMAIN bucket.components
      located == SumFunction(bucket.components)
  IN  {<<level, label, 0, Cubes!Star>> : level \in DOMAIN bucket.levels,
         label \in labels \cup (IF located < bucket.count THEN {Cubes!Star} ELSE {})}

(* A cube of more than three cells drops its components. *)
MCBudgeted(rows, state) == IF Cardinality(rows) > 3 THEN [state EXCEPT !.depth = 0] ELSE state

Window(buckets) ==
  [buckets |-> buckets, joint |-> UNION {Lines(buckets[t]) : t \in DOMAIN buckets},
   surprise |-> [t \in DOMAIN buckets |-> 0],
   contract |-> [field \in Identifiers |-> Absent], packages |-> <<1>>,
   max_text_bytes |-> Absent, transport |-> Absent, source |-> [service |-> 1],
   behavior |-> Absent, service_edges |-> Absent, span_edges |-> Absent,
   param_histograms_size |-> Absent, value_counts_size |-> Absent, fields |-> << >>]

Slot(values, cardinality, total) ==
  [values |-> values, cardinality |-> cardinality, total |-> total]

(* n durations of the octave bin. *)
Took(n, bin) ==
  "took" :> [schedule |-> "duration", counts |-> [b \in 0..6 |-> IF b = bin THEN n ELSE 0],
             total |-> n]

Ngrams(size, ngrams) ==
  <<[ngram_size |-> size, top_ngrams_size |-> 1, dropped |-> 0, top_ngrams |-> ngrams,
     branching |-> [t \in {s[1] : s \in DOMAIN ngrams} |-> Cardinality(DOMAIN ngrams)]]>>

Gram(count, of) == [count |-> count, probability |-> <<count, of>>]

(* Everything fits in top_k, a failure included; no reservoir cap declared. *)
Quiet == [Window(1 :> Bucket(1, 2, 2, 1 :> 2) @@ 2 :> Bucket(2, 1, 4, 2 :> 1)) EXCEPT
            !.behavior = Ngrams(2, <<1, 2>> :> Gram(1, 1)),
            !.service_edges = <<(<<1, 2>> :> 1)>>, !.span_edges = <<(<<1, 2>> :> 1)>>,
            !.param_histograms_size = <<2>>, !.value_counts_size = <<2>>,
            !.fields = 1 :> [histograms |-> <<Slot(1 :> 1 @@ 2 :> 1, 2, 2), Slot(7 :> 1, 1, 1)>>,
                             ordinals |-> Took(2, 0)]]
(* Of the same counts, one value of a slot another. *)
Moved == [Quiet EXCEPT !.fields = [Quiet.fields EXCEPT ![1].histograms[1] = Slot(1 :> 2, 1, 2)]]
(* Of the same counts, slower and with a line at another level; refused next *)
(* to a document under the other profile.                                    *)
Slower == [Quiet EXCEPT !.joint = @ \cup {<<3, 1, 0, Cubes!Star>>},
                        !.buckets[1].levels = 2 :> 1 @@ 3 :> 1,
                        !.fields[1].ordinals = Took(2, 5),
                        !.contract.retention_profile = <<2>>]
(* The failure is below top_k, in the reservoir. *)
Busy == [Window(1 :> Bucket(1, 3, 2, 2 :> 3) @@ 3 :> Bucket(3, 2, 2, << >>)
                @@ 2 :> Bucket(2, 1, 4, 1 :> 1)) EXCEPT
           !.behavior = Ngrams(2, <<1, 3>> :> Gram(2, 3) @@ <<1, 2>> :> Gram(1, 3)),
           !.contract = [field \in Identifiers |-> <<1>>],
           !.service_edges = <<(<<1, 2>> :> 2)>>, !.source = [service |-> 2],
           !.param_histograms_size = <<1>>, !.value_counts_size = <<1>>,
           !.fields = 1 :> [histograms |-> <<Slot(2 :> 2, 2, 3)>>, ordinals |-> Took(3, 5)]]
(* The failure of the others is frequent here, and no failure; a benign       *)
(* template of theirs is lost to the tail.                                   *)
Relabelled == [Window(4 :> Bucket(4, 3, 4, 1 :> 2) @@ 2 :> Bucket(2, 2, 6, << >>)
                      @@ 3 :> Bucket(3, 1, 2, << >>)) EXCEPT
                 !.behavior = Ngrams(3, <<2, 4, 4>> :> Gram(1, 1)), !.packages = <<2>>,
                 !.span_edges = <<(<<2, 4>> :> 1)>>]
Silent == Window(<< >>)

MCWindows == {Quiet, Moved, Slower, Busy, Relabelled, Silent}

(* A failure told by its text alone. *)
MCCuedWindows ==
  {Window(1 :> Bucket(1, 3, 2, << >>) @@ 3 :> Bucket(3, 2, 2, << >>) @@ 2 :> Bucket(2, 1, 6, << >>)),
   Quiet}

=============================================================================
