------------------------- MODULE MCGitLabPublication -------------------------
(***************************************************************************)
(* Two instances in one run: a finding that moves over three lines in one  *)
(* wording, and one that moves over two lines in two wordings.             *)
(***************************************************************************)
EXTENDS GitLabPublication

Seen == ToSet(notes) \cup Range(findings)

Instance ==
    \/ \A c \in Seen : c.body = 1
    \/ \A c \in Seen : c.line \in {1, 2}

=============================================================================
