-------------------------- MODULE OrderedPublication --------------------------
(***************************************************************************)
(* What a publication journal promises, without its mechanism: a list of   *)
(* actions is worked through in order; each is first intended and then     *)
(* settled, exactly once; an intent may be withdrawn and made again; work  *)
(* may be abandoned before its end but a settled action stays settled, and *)
(* publication is finished only when every action is.                      *)
(***************************************************************************)
EXTENDS Naturals

VARIABLES total,    \* how many actions the plan has
          settled,  \* how many of them have a recorded outcome
          phase     \* what the publisher is doing

vars == <<total, settled, phase>>

Init ==
    /\ total \in Nat
    /\ settled = 0
    /\ phase = IF total = 0 THEN "finished" ELSE "idle"

Intend ==
    /\ phase = "idle"
    /\ phase' = "intended"
    /\ UNCHANGED <<total, settled>>

Withdraw ==
    /\ phase = "intended"
    /\ phase' = "idle"
    /\ UNCHANGED <<total, settled>>

Settle ==
    /\ phase = "intended"
    /\ settled' = settled + 1
    /\ phase' = IF settled' = total THEN "finished" ELSE "idle"
    /\ UNCHANGED total

Abandon ==
    /\ phase \in {"idle", "intended"}
    /\ phase' = "abandoned"
    /\ UNCHANGED <<total, settled>>

Next == Intend \/ Withdraw \/ Settle \/ Abandon

Spec == Init /\ [][Next]_vars

=============================================================================
