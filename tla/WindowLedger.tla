---------------------------- MODULE WindowLedger ----------------------------
(***************************************************************************)
(* What MetaLogEngine promises its caller, whatever it retains: a ledger   *)
(* of template occurrences.  A document accounts every line of its window  *)
(* and nothing else, drift is told against the last window that was closed *)
(* (never one that was discarded), and a template once accepted is never   *)
(* refused again.                                                          *)
(***************************************************************************)
EXTENDS Naturals, BagsExt, FiniteSets, Functions

CONSTANTS
  TemplateId,    \* the ids of templates
  Time,          \* the times a document may report
  EmitStability  \* config_.emit_stability

VARIABLES
  open,   \* a window is open
  tally,  \* the bag of the template ids ingested in it
  known,  \* the ids accepted so far, in any window
  last,   \* the tally and reported end of the last window closed
  answer  \* what the last call answered

vars == <<open, tally, known, last, answer>>

NoClose == [freq |-> << >>, end |-> << >>]

Nothing == [kind |-> "nothing"]
Accepted == [kind |-> "accepted"]
Refused == [kind |-> "refused"]
LogicError == [kind |-> "logic_error"]

(* Reported only between two windows that both had lines. *)
Drift ==
  IF ~EmitStability \/ last.freq = << >> \/ tally = << >> THEN << >>
  ELSE <<[new_templates |-> Cardinality(DOMAIN tally \ DOMAIN last.freq),
          vanished_templates |-> Cardinality(DOMAIN last.freq \ DOMAIN tally),
          since |-> last.end]>>

(* What a document that reports this end, or none, says of its window. *)
Document(end) == [kind |-> "document", end |-> end, lines |-> SumFunction(tally),
                  templates |-> Cardinality(DOMAIN tally), drift |-> Drift]

Init ==
  /\ open = FALSE
  /\ tally = << >>
  /\ known = {}
  /\ last = NoClose
  /\ answer = Nothing

(* Opening discards a window that is still open. *)
Start ==
  /\ open' = TRUE
  /\ tally' = << >>
  /\ answer' = Nothing
  /\ UNCHANGED <<known, last>>

Accept(id) ==
  /\ open
  /\ tally' = BagAdd(tally, id)
  /\ known' = known \cup {id}
  /\ answer' = Accepted
  /\ UNCHANGED <<open, last>>

Refuse(id) ==
  /\ open
  /\ id \notin known
  /\ answer' = Refused
  /\ UNCHANGED <<open, tally, known, last>>

(* Ingest or close with no window open. *)
Misuse ==
  /\ ~open
  /\ answer' = LogicError
  /\ UNCHANGED <<open, tally, known, last>>

(* The end remembered for the drift of the next document is the one this   *)
(* document reports.                                                       *)
Close(end) ==
  /\ open
  /\ answer' = Document(end)
  /\ last' = IF EmitStability THEN [freq |-> tally, end |-> end] ELSE last
  /\ open' = FALSE
  /\ tally' = << >>
  /\ UNCHANGED known

Discard ==
  /\ open' = FALSE
  /\ tally' = << >>
  /\ answer' = Nothing
  /\ UNCHANGED <<known, last>>

Next ==
  \/ Start
  \/ \E id \in TemplateId : Accept(id) \/ Refuse(id)
  \/ Misuse
  \/ \E end \in {<< >>} \cup {<<t>> : t \in Time} : Close(end)
  \/ Discard

Spec == Init /\ [][Next]_vars

=============================================================================
