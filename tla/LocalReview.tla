----------------------------- MODULE LocalReview -----------------------------
(***************************************************************************)
(* The review of a working tree (local_review.rs): a capture of what       *)
(* changed since the merge base, made file by file while the developer     *)
(* goes on working, the review of what was captured, and a second capture  *)
(* that decides whether the first still says what the tree is.             *)
(*                                                                         *)
(* Commits of the target branch are numbered along it; a head leaves it at *)
(* ForkOf[head].  The tree maps a path to its content, None without a file.*)
(***************************************************************************)
EXTENDS ReviewContext

CONSTANTS
    Paths,
    Trees,          \* the working trees a review may start from
    Ignored,        \* paths that are ignored unless they are tracked
    Tracked,        \* paths of the index
    ContentsOf,     \* the contents a path may have in the working tree
    BaseFiles,      \* the files of each commit of the target branch
    ForkOf,         \* a head |-> its merge base with the target branch
    References,     \* the references a repository may have
    Policies,       \* the selections a configuration may make
    MaxFileLines,   \* MAX_FILE_DIFF_BYTES, MAX_BLOB_BYTES
    MaxMoves        \* what the developer does during one review

\* Every commit and every tree is over Paths; 0 stands for HEAD in past.
ASSUME TreeAssumption ==
    /\ Paths \subseteq Nat \ {0} /\ IsFiniteSet(Paths)
    /\ \A t \in Trees : t = [p \in Paths |-> t[p]]
    /\ \A c \in DOMAIN BaseFiles : DOMAIN BaseFiles[c] = Paths
    /\ \A h \in DOMAIN ForkOf : ForkOf[h] \in DOMAIN BaseFiles
    /\ \A r \in References : \A n \in DOMAIN r.commits : r.commits[n] \in DOMAIN BaseFiles
    /\ None \notin {"fresh", "Diff", "DiffIdentityMismatch", "Anchor", "Partition"}

\* A file is a list of lines, or there is none.
IsContent(content) == content = None \/ content \in Seq(ToSet(content))

ASSUME ContentAssumption ==
    /\ \A t \in Trees : \A p \in Paths : IsContent(t[p])
    /\ \A p \in Paths : \A content \in ContentsOf[p] : IsContent(content)
    /\ \A c \in DOMAIN BaseFiles : \A p \in Paths : IsContent(BaseFiles[c][p])

\* A configuration is refused before the review when its policy or its limits
\* are (selection_policy, partition_limits).
ASSUME PolicyAssumption ==
    /\ \A policy \in Policies : PolicyVerdict(policy) = "accepted"
    /\ Budget \in [{"files", "bytes", "units", "unit_files", "unit_bytes", "unit_anchors"} -> Nat]
    /\ LimitsVerdict(Budget) = "accepted"

VARIABLES
    tree, head, conflict,   \* the working tree, HEAD, an unmerged index
    local,                  \* the review
    past, reverted, moves,  \* every content and head so far; one came back
    begun                   \* tree and head when the review proper began
localVars == <<tree, head, conflict, local, past, reverted, moves, begun>>

-----------------------------------------------------------------------------
(* The base.  References are [explicit, origin, others, branches, commits]. *)

\* validate_base_ref and infer_base_ref: a name, or why there is none.
BaseReference(refs) ==
    CASE refs.explicit = "invalid" -> "InvalidBase"
      [] refs.explicit \notin {None, "invalid"} -> refs.explicit
      [] refs.explicit = None /\ refs.origin # None -> refs.origin
      [] refs.explicit = None /\ refs.origin = None /\ Cardinality(refs.others) = 1 ->
            CHOOSE r \in refs.others : TRUE
      [] OTHER ->
            LET resolvable == refs.branches \cap DOMAIN refs.commits
            IN  IF Cardinality(resolvable) = 1 THEN CHOOSE r \in resolvable : TRUE
                ELSE "BaseAmbiguous"

\* merge_base of a commit of the target branch and a head.
MergeBase(commit, h) == IF ForkOf[h] < commit THEN ForkOf[h] ELSE commit

-----------------------------------------------------------------------------
(* A capture.                                                              *)

Files(t) == {p \in DOMAIN t : t[p] # None}

\* working_paths: files of the index, and others that are not ignored.
WorkingPaths(t) == {p \in Files(t) : p \in Tracked \/ p \notin Ignored}

\* Every pair of equal contents is a rename.
RenamesOfAny(base, ids) ==
    {r \in (DOMAIN base \ DOMAIN ids) \X (DOMAIN ids \ DOMAIN base) : base[r[1]] = ids[r[2]]}

\* A rename is the only removed and the only added path of a content.
Renames(base, ids) ==
    LET removed == DOMAIN base \ DOMAIN ids
        added == DOMAIN ids \ DOMAIN base
    IN  {r \in removed \X added :
            /\ base[r[1]] = ids[r[2]]
            /\ \A p \in removed : base[p] = base[r[1]] => p = r[1]
            /\ \A p \in added : ids[p] = ids[r[2]] => p = r[2]}

Change(old, new, kind, old_id, new_id) ==
    [path |-> [old |-> old, new |-> new, kind |-> kind], old_id |-> old_id, new_id |-> new_id]

\* What became of each path.
ChangeSet(base, ids) ==
    LET renames == Renames(base, ids)
        removed == (DOMAIN base \ DOMAIN ids) \ {r[1] : r \in renames}
        added == (DOMAIN ids \ DOMAIN base) \ {r[2] : r \in renames}
        modified == {p \in DOMAIN base \cap DOMAIN ids : base[p] # ids[p]}
    IN  {Change(r[1], r[2], "Renamed", base[r[1]], ids[r[2]]) : r \in renames}
        \cup {Change(p, p, "Deleted", base[p], None) : p \in removed}
        \cup {Change(p, p, "Added", None, ids[p]) : p \in added}
        \cup {Change(p, p, "Modified", base[p], ids[p]) : p \in modified}

\* In the order of the new paths, which are distinct.
Ordered(changes) == InOrder(changes, LAMBDA c, d : c.path.new < d.path.new)

\* classify_changes.
Changes(base, ids) == Ordered(ChangeSet(base, ids))

TooLong(content) == Len(content) > MaxFileLines
Binary(content) == "NUL" \in ToSet(content)
Side(content) == IF content = None THEN <<>> ELSE content

Bounded(diff) == IF diff # None /\ Len(diff) > MaxFileLines THEN None ELSE diff

\* render_file_diff with the file as it is read now; None when it is omitted.
FileDiff(change, now) ==
    LET old == Side(change.old_id)
        new == IF change.new_id = None THEN <<>> ELSE now
    IN  IF TooLong(old) \/ TooLong(new) \/ Binary(old) \/ Binary(new) THEN None
        ELSE Bounded(UnifiedDiff(old, new))

\* The file is opened, unless the old side alone is too long.
Unreadable(change, t) ==
    ~TooLong(Side(change.old_id)) /\ change.new_id # None /\ t[change.path.new] = None

Captured(change, t) ==
    [path |-> change.path, old_id |-> change.old_id, new_id |-> change.new_id,
     diff |-> FileDiff(change, t[change.path.new]),
     read |-> IF change.new_id = None THEN None ELSE t[change.path.new]]

\* An identity that leaves out what has no diff.
IdentityOfDiffs(base, h, captured) ==
    LET shown == SelectSeq(captured, LAMBDA c : c.diff # None)
    IN  [base |-> base, head |-> h, state |-> <<>>,
         manifest |-> [i \in DOMAIN shown |-> <<shown[i].path, shown[i].diff>>]]

\* LocalSnapshotIdentity.
Identity(base, h, captured) ==
    LET shown == SelectSeq(captured, LAMBDA c : c.diff # None)
    IN  [base |-> base, head |-> h,
         state |-> [i \in DOMAIN captured |->
            <<captured[i].path, captured[i].old_id, captured[i].new_id, captured[i].diff>>],
         manifest |-> [i \in DOMAIN shown |-> <<shown[i].path, shown[i].diff>>]]

BaseIds(base) == [p \in Files(BaseFiles[base]) |-> BaseFiles[base][p]]

-----------------------------------------------------------------------------
(* The review.                                                             *)

Idle == [phase |-> "idle", round |-> 1, refs |-> None, policy |-> None, head |-> None,
         base |-> None, paths |-> {}, ids |-> <<>>, changes |-> <<>>, captured |-> <<>>,
         first |-> None, context |-> None, outcome |-> None]

Ending(outcome) == local' = [local EXCEPT !.phase = "ended", !.outcome = outcome]

\* A capture that fails is an error, or makes the review stale.
CaptureFails(error) == Ending(IF local.round = 1 THEN error ELSE "stale")

Opened(base) ==
    [local EXCEPT !.phase = "list", !.head = head, !.base = base, !.ids = <<>>,
                  !.changes = <<>>, !.captured = <<>>]

\* The start of capture_local_git: HEAD and the merge base.
OpenCapture ==
    /\ local.phase = "open"
    /\ LET name == BaseReference(local.refs)
       IN  CASE local.round = 2 -> local' = Opened(MergeBase(local.first.base, head))
             [] local.round = 1 /\ name \in {"InvalidBase", "BaseAmbiguous"} -> CaptureFails(name)
             [] local.round = 1 /\ name \notin {"InvalidBase", "BaseAmbiguous"} ->
                    IF name \notin DOMAIN local.refs.commits THEN CaptureFails("HistoryUnavailable")
                    ELSE local' = Opened(MergeBase(local.refs.commits[name], head))

\* base_files and working_paths.
List ==
    /\ local.phase = "list"
    /\ IF conflict THEN CaptureFails("Conflict")
       ELSE local' = [local EXCEPT !.phase = "hash", !.paths = WorkingPaths(tree)]

\* One more path, with the identity of its content.
Noting(ids, path, content) ==
    [p \in DOMAIN ids \cup {path} |-> IF p = path THEN content ELSE ids[p]]

\* hash_worktree_blob of the next path, and the classification after the last.
Hash ==
    /\ local.phase = "hash"
    /\ LET left == local.paths \ DOMAIN local.ids
           next == Min(left)
       IN  CASE left = {} ->
                    local' = [local EXCEPT !.phase = "render",
                                           !.changes = Changes(BaseIds(local.base), local.ids)]
             [] left # {} /\ tree[next] = None -> CaptureFails("InvalidPath")
             [] OTHER -> local' = [local EXCEPT !.ids = Noting(@, next, tree[next])]

\* The loop over the changes.
Render ==
    /\ local.phase = "render" /\ Len(local.captured) < Len(local.changes)
    /\ LET change == local.changes[Len(local.captured) + 1]
       IN  IF Unreadable(change, tree) THEN CaptureFails("InvalidPath")
           ELSE local' = [local EXCEPT !.captured = Append(@, Captured(change, tree))]

CaptureDone == local.phase = "render" /\ Len(local.captured) = Len(local.changes)

WithContext(review, context) ==
    LET built == [review EXCEPT !.context = context]
        ended(outcome) == [built EXCEPT !.phase = "ended", !.outcome = outcome]
    IN  CASE context.error # None -> ended(context.error)
          [] context.error = None /\ context.plan.units = {} -> ended("no model")
          [] OTHER -> [built EXCEPT !.phase = "review"]

\* run_local_review after the first capture; the two reports without a model
\* are final.
Build ==
    /\ CaptureDone /\ local.round = 1
    /\ LET identity == Identity(local.base, local.head, local.captured)
           first == [local EXCEPT !.first = identity]
       IN  local' = IF local.captured = <<>>
                    THEN [first EXCEPT !.phase = "ended", !.outcome = "no changes"]
                    ELSE WithContext(first,
                            BuildLocalContext(identity, local.captured, local.policy))

\* The engine reviews; then local_snapshot_is_fresh captures again, with the
\* base of the first capture.
Reviewed ==
    /\ local.phase = "review"
    /\ local' = [local EXCEPT !.phase = "open", !.round = 2]

Compare ==
    /\ CaptureDone /\ local.round = 2
    /\ Ending(IF Identity(local.base, local.head, local.captured) = local.first
              THEN "fresh" ELSE "stale")

Developed == UNCHANGED <<tree, head, conflict, past, reverted, moves>>

StartReview(refs, policy) ==
    /\ local.phase = "idle"
    /\ local' = [local EXCEPT !.phase = "open", !.refs = refs, !.policy = policy]

LocalStep ==
    /\ \/ \E refs \in References, policy \in Policies : StartReview(refs, policy)
       \/ OpenCapture \/ List \/ Hash \/ Render \/ Reviewed \/ Compare
    /\ Developed /\ UNCHANGED begun

BuildStep == Build /\ Developed /\ begun' = [tree |-> tree, head |-> head]

-----------------------------------------------------------------------------
(* The developer.                                                          *)

Working == local.phase \notin {"idle", "ended"} /\ moves < MaxMoves

HeadFile == 0   \* in past, HEAD is one more file that changes

Edit(p, content) ==
    /\ Working /\ content # tree[p]
    /\ tree' = [tree EXCEPT ![p] = content]
    /\ past' = past \cup {<<p, content>>}
    /\ reverted' = (reverted \/ <<p, content>> \in past)
    /\ moves' = moves + 1
    /\ UNCHANGED <<head, conflict, local, begun>>

Commit(h) ==
    /\ Working /\ h # head
    /\ head' = h
    /\ past' = past \cup {<<HeadFile, h>>}
    /\ reverted' = (reverted \/ <<HeadFile, h>> \in past)
    /\ moves' = moves + 1
    /\ UNCHANGED <<tree, conflict, local, begun>>

Merge ==
    /\ Working
    /\ conflict' = ~conflict
    /\ moves' = moves + 1
    /\ UNCHANGED <<tree, head, local, past, reverted, begun>>

Developer ==
    \/ \E p \in Paths : \E content \in ContentsOf[p] : Edit(p, content)
    \/ \E h \in DOMAIN ForkOf : Commit(h)
    \/ Merge

LocalInit ==
    /\ tree \in Trees
    /\ head \in DOMAIN ForkOf
    /\ conflict = FALSE
    /\ local = Idle
    /\ past = {<<p, tree[p]>> : p \in Paths} \cup {<<HeadFile, head>>}
    /\ reverted = FALSE /\ moves = 0 /\ begun = None

LocalNext == LocalStep \/ BuildStep \/ Developer

-----------------------------------------------------------------------------
(* Properties.                                                             *)

\* What a capture would give that read everything at one moment.
Instantly(t, h, base) ==
    LET ids == [p \in WorkingPaths(t) |-> t[p]]
        changes == Changes(BaseIds(base), ids)
    IN  Identity(base, h, [i \in DOMAIN changes |-> Captured(changes[i], t)])

\* local_snapshot_is_fresh: although files are read one after the other, and
\* each twice, a review that is not called stale is of the working tree as it
\* was at the moment the review began, unless a content or a head came back.
CurrentWhenFresh ==
    local.outcome = "fresh" /\ ~reverted =>
        local.first = Instantly(begun.tree, begun.head, local.first.base)

\* classify_changes: the changes take the base to what was hashed, and no path
\* is the subject of two of them.
ChangesExplain ==
    local.phase \in {"render", "review"} =>
        LET base == BaseIds(local.base)
            changes == ToSet(local.changes)
            about(p) == {c \in changes : p \in {c.path.old, c.path.new}}
            after == [p \in (DOMAIN base \ {c.path.old : c \in changes})
                            \cup {c.path.new : c \in {d \in changes : d.new_id # None}} |->
                        IF about(p) = {} THEN base[p]
                        ELSE (CHOOSE c \in about(p) : TRUE).new_id]
        IN  /\ \A p \in Paths : Cardinality(about(p)) <= 1
            /\ after = local.ids

At(content, line, text) == line \in DOMAIN content /\ content[line] = text

\* parse_gitlab_file_diff to AnchorTable: an anchor is at the line of the file
\* whose content it was made from, and the anchors show every changed line.
AnchorsExact ==
    local.phase = "review" =>
        \A c \in ToSet(local.captured) :
            LET own == {a \in local.context.anchors : a.path = c.path}
                of(kind) == Cardinality({a \in own : a.position.kind = kind})
            IN  c.diff # None =>
                /\ \A a \in own :
                    /\ a.position.kind # "Addition" =>
                            At(Side(c.old_id), a.position.old, a.line.content)
                    /\ a.position.kind # "Deletion" =>
                            At(Side(c.read), a.position.new, a.line.content)
                /\ of("Addition") - of("Deletion") = Len(Side(c.read)) - Len(Side(c.old_id))

\* build_partition_plan: a change is in one work unit or omitted with a reason,
\* a secret is in none, anchors are issued with their file, and no plan is
\* refused by the check the builder ends with.
PlanAccounts ==
    local.context # None /\ local.round = 1 =>
    /\ Len(local.captured) <= MaxPlanFiles => local.context.error # "Partition"
    /\ local.context.error = None =>
        LET plan == local.context.plan
            omitted == {o.path : o \in plan.omitted}
            included == {f.path : f \in UNION plan.units}
        IN  /\ included \cup omitted = {c.path.new : c \in ToSet(local.captured)}
            /\ included \cap omitted = {}
            /\ \A p \in included : "secret" \notin RolesOf[p]
            /\ UNION {local.context.issued[u] : u \in plan.units} =
                    {a.id : a \in {b \in local.context.anchors : b.path.new \in included}}

\* The same file as each host lists it.
HostFile(c) ==
    LET edits == IF c.diff = None THEN <<>> ELSE Edits(Side(c.old_id), Side(c.read))
        gone == Count(edits, {"-"})
        fresh == Count(edits, {"+"})
    IN  [name |-> c.path.new, previous |-> c.path.old, patch |-> c.diff,
         status |-> [Added |-> "added", Deleted |-> "removed", Modified |-> "modified",
                     Renamed |-> "renamed"][c.path.kind],
         additions |-> fresh, deletions |-> gone, changes |-> fresh + gone]

SnapshotFile(c) ==
    [path |-> c.path, diff |-> c.diff, generated |-> FALSE,
     stated |-> IF c.diff = None THEN "Missing" ELSE "Available"]

\* The three builders: the same change makes the same work units with the same
\* anchors, from a working tree, from a pull request and from a merge request.
SameForEveryHost ==
    local.phase = "review" =>
        LET sequence(Op(_)) == [i \in DOMAIN local.captured |-> Op(local.captured[i])]
            contexts == {BuildGitHubContext(local.first, sequence(HostFile), local.policy),
                         BuildGitLabContext(local.first, "Complete", local.head, local.head,
                                            sequence(SnapshotFile), local.policy)}
        IN  \A other \in contexts :
                /\ other.error = None
                /\ other.plan.units = local.context.plan.units
                /\ other.issued = local.context.issued
=============================================================================
