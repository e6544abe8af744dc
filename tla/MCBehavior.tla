----------------------------- MODULE MCBehavior -----------------------------
(* BehaviorCases on small instances.                                       *)
EXTENDS BehaviorCases

(* Three templates, whose ids do not sort in the order they were met. *)
MCTemplates == <<3, 1, 2>>

(* Every edge between two templates, and one template that follows itself. *)
MCGrams == {g \in Ids \X Ids : g[1] # g[2] \/ g[1] = 1}

=============================================================================
