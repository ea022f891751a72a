--------------------------- MODULE MCReviewEngine ---------------------------
(***************************************************************************)
(* Two files, each a work unit of its own with one anchor.                 *)
(***************************************************************************)
EXTENDS ReviewEngine, TLC

CONSTANTS a1, a2

TwoFiles == a1 :> "f1" @@ a2 :> "f2"

TwoUnits == a1 :> "u1" @@ a2 :> "u2"

=============================================================================
