------------------------- MODULE MCGitHubPublication -------------------------
(***************************************************************************)
(* Two instances in one run: a single lineage within all bounds, and two   *)
(* lineages that meet in one publication, at one line and in one wording.  *)
(* Lineages, lines and wordings are only compared and so interchangeable.  *)
(***************************************************************************)
EXTENDS GitHubPublication, TLC

CONSTANT
    MaxJobsOfTwo  \* bound: publications when there are two lineages

Interchangeable ==
    {p @@ q @@ r : p \in Permutations(Lineage), q \in Permutations(Line),
                   r \in Permutations(Body)}

Seen == Range(threads)

OneLineage == Cardinality({t.lineage : t \in Seen} \cup DOMAIN findings) <= 1

OneComment ==
    Cardinality({[line |-> t.line, body |-> t.body] : t \in Seen}
                  \cup Range(findings)) <= 1

\* Two lineages, late writes and people are looked at one at a time.
Instance ==
    /\ OneLineage \/ (OneComment /\ jobs <= MaxJobsOfTwo /\ ~lingers)
    /\ human = 0 \/ (OneLineage /\ ~lingers)

=============================================================================
