------------------------- MODULE MCPublicationJournal -------------------------
(* Every plan of at most three actions over the constants of the cfg. *)
EXTENDS PublicationJournal

MCPlans == {actions \in UNION {[1..n -> PlanAction] : n \in 0..MaxActions} :
               ValidPlan(actions)}

=============================================================================
