-------------------------- MODULE MCGitLabSnapshot --------------------------
(***************************************************************************)
(* Three revisions: two files added; a push that renames a file and        *)
(* changes one whose diff is collapsed, four blobs where two may be asked  *)
(* for; and the first head on another base, whose diff is collapsed.       *)
(***************************************************************************)
EXTENDS GitLabSnapshot

Changed(old, new, flag, collapsed) ==
    [f \in {"new", "renamed", "deleted"} |-> f = flag] @@
    [old_path |-> old, new_path |-> new, collapsed |-> collapsed, too_large |-> FALSE,
     diff |-> IF collapsed THEN 0 ELSE 1, form |-> "text"]

MCRefsOf == <<[base |-> "b0", start |-> "b0", head |-> "h1"],
              [base |-> "b0", start |-> "b0", head |-> "h2"],
              [base |-> "b1", start |-> "b1", head |-> "h1"]>>

MCFilesOf == <<<<Changed(1, 1, "new", FALSE), Changed(3, 3, "new", FALSE)>>,
               <<Changed(1, 2, "renamed", FALSE), Changed(3, 3, "none", TRUE)>>,
               <<Changed(1, 1, "new", TRUE)>>>>
=============================================================================
