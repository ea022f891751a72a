---------------------------- MODULE ReviewContext ----------------------------
(***************************************************************************)
(* How a change becomes the inputs of a review: the exact diffs, the table *)
(* of anchors, the plan of work units and the invocation.  The code has    *)
(* one builder for each source of a change (gitlab_review_context.rs,      *)
(* github_review.rs, local_review.rs); what they share is said once.       *)
(*                                                                         *)
(* A content is a sequence of lines.  A path is a number; a changed path   *)
(* is [old, new, kind].  A diff is a sequence of lines of Diff.            *)
(***************************************************************************)
EXTENDS Diff, Partition

CONSTANTS
    RolesOf,        \* the tests of the classification each path passes
    ContextLines,   \* the lines a producer of diffs puts around a change
    Budget          \* PartitionLimits

-----------------------------------------------------------------------------
(* The producer of a diff: the crate similar for a working tree, git on the *)
(* hosts.  An alignment pairs lines of the two contents.                   *)

Alignment(old, new) ==
    LET pairs == {p \in (DOMAIN old) \X (DOMAIN new) : old[p[1]] = new[p[2]]}
        ordered(M) == \A p, q \in M : p[1] < q[1] <=> p[2] < q[2]
        all == {M \in SUBSET pairs : ordered(M)}
    IN  CHOOSE M \in all : \A N \in all : Cardinality(N) <= Cardinality(M)

\* The lines of both contents in the order of a diff: between two paired lines
\* first what is gone, then what is new.
EditsBetween(old, new, M) ==
    LET gone == DOMAIN old \ {p[1] : p \in M}
        fresh == DOMAIN new \ {p[2] : p \in M}
        edits == {[at |-> <<Cardinality({p \in M : p[1] < i}), 0, i>>,
                   kind |-> "-", content |-> old[i]] : i \in gone}
                 \cup {[at |-> <<Cardinality({p \in M : p[2] < j}), 1, j>>,
                        kind |-> "+", content |-> new[j]] : j \in fresh}
                 \cup {[at |-> <<Cardinality({q \in M : q[1] < p[1]}), 2, 0>>,
                        kind |-> " ", content |-> old[p[1]]] : p \in M}
        before(e, f) == \E k \in 1..3 :
            e.at[k] < f.at[k] /\ \A l \in 1..(k - 1) : e.at[l] = f.at[l]
    IN  InOrder(edits, before)

Edits(old, new) == EditsBetween(old, new, Alignment(old, new))

Count(edits, kinds) == Cardinality({i \in DOMAIN edits : edits[i].kind \in kinds})

\* A range names the line before it when it is empty.
RangeOf(before, inside, kinds) ==
    LET n == Count(inside, kinds)
    IN  [start |-> Count(before, kinds) + (IF n > 0 THEN 1 ELSE 0), count |-> n]

HunkOf(edits, first, last) ==
    LET before == SubSeq(edits, 1, first - 1)
        inside == SubSeq(edits, first, last)
    IN  <<[kind |-> "hunk", fault |-> None,
           old |-> RangeOf(before, inside, {" ", "-"}),
           new |-> RangeOf(before, inside, {" ", "+"})]>>
        \o [i \in DOMAIN inside |-> [kind |-> inside[i].kind, content |-> inside[i].content]]

\* None when there is no edit.
DiffOf(edits) ==
    LET shown == {i \in DOMAIN edits : \E j \in DOMAIN edits :
                    edits[j].kind # " " /\ j \in (i - ContextLines)..(i + ContextLines)}
        firsts == Ascending({i \in shown : i - 1 \notin shown})
        last(i) == Min({j \in shown : j >= i /\ j + 1 \notin shown})
    IN  IF shown = {} THEN None
        ELSE FlattenSeq([n \in DOMAIN firsts |-> HunkOf(edits, firsts[n], last(firsts[n]))])

UnifiedDiff(old, new) == DiffOf(Edits(old, new))

-----------------------------------------------------------------------------
(* The material of one file, from each source.                             *)

AddedLines(diff) == {diff[i].content : i \in {j \in DOMAIN diff : diff[j].kind = "+"}}

Material(class, diff, lines, omitted) ==
    [error |-> None, class |-> class, diff |-> diff, lines |-> lines, omitted |-> omitted]
NoDiff(class) == Material(class, None, <<>>, TRUE)
Broken(error) == [NoDiff("Text") EXCEPT !.error = error]

ParsedMaterial(class, diff, parsed) ==
    IF parsed.error # None THEN Broken("Diff")
    ELSE Material(class, diff, parsed.lines, FALSE)

\* The loop of build_local_review_context.
LocalMaterial(path, diff) ==
    IF diff = None THEN NoDiff("Binary")
    ELSE ParsedMaterial("Text", diff, ParseDiff(path, diff))

\* changed_path of a file of a pull request; None when it is refused.
GitHubKind(status) ==
    CASE status \in {"added", "copied"} -> "Added"
      [] status = "removed" -> "Deleted"
      [] status \in {"modified", "changed"} -> "Modified"
      [] status = "renamed" -> "Renamed"
      [] OTHER -> None

GitHubPath(file) ==
    LET path == [old |-> IF file.status = "renamed" THEN file.previous ELSE file.name,
                 new |-> file.name, kind |-> GitHubKind(file.status)]
    IN  IF path.kind = None \/ path.old = None \/ SemanticIssue(path) # None THEN None ELSE path

OfKind(lines, kind) == Cardinality({i \in DOMAIN lines : lines[i].position.kind = kind})

\* Counts that forget that an edited line is both gone and new.
CountsAgreeOnChanges(file, lines) ==
    file.changes = OfKind(lines, "Addition") /\ file.additions + file.deletions = file.changes

\* The patch of a file shows what the host counted, or it is not the whole.
CountsAgree(file, lines) ==
    /\ file.additions = OfKind(lines, "Addition") /\ file.deletions = OfKind(lines, "Deletion")
    /\ file.changes = file.additions + file.deletions

CountedMaterial(file, material) ==
    IF material.error = None /\ ~CountsAgree(file, material.lines) THEN NoDiff("Text")
    ELSE material

\* The loop of build_context.
GitHubMaterial(file, path) ==
    CASE path = None -> Broken("InvalidFile")
      [] path # None /\ file.patch = None -> NoDiff("Binary")
      [] OTHER -> CountedMaterial(file,
            ParsedMaterial("Text", file.patch, ParseDiff(path, file.patch)))

\* exact_diff_material and classify_file of a validated file of a snapshot:
\* stated and diff are what the evidence says of its diff and the diff.
GitLabMaterial(path, file) ==
    LET class == CASE file.stated = "Binary" -> "Binary"
                   [] file.stated # "Binary" /\ file.generated -> "Generated"
                   [] OTHER -> "Text"
    IN  CASE (file.stated = "Available") # (file.diff # None) -> Broken("DiffIdentityMismatch")
          [] file.stated # "Available" /\ file.diff = None -> NoDiff(class)
          [] file.stated = "Available" /\ file.diff # None ->
                ParsedMaterial(class, file.diff, ParseDiff(path, file.diff))

-----------------------------------------------------------------------------
(* The context.  files is a sequence of [path, material].                  *)

AutomaticTools(source) ==
    {"ReadFile", "Search", "ListFiles", "InspectChangedFile", "InspectTests", "ShowDiff",
     "GetExistingRevootFindings", "ListChangeCommits", "ShowCommitContext",
     "SubmitCandidateFinding", "SubmitReviewSummary",
     IF source = "gitlab" THEN "GetMergeRequestMetadata" ELSE "GetPullRequestMetadata"}

\* AnchorTable::build: every commentable line gets an identifier.
Anchors(identity, files) ==
    LET lines == FlattenSeq([i \in DOMAIN files |-> files[i].material.lines])
    IN  [i \in DOMAIN lines |->
            [path |-> lines[i].path, position |-> lines[i].position, line |-> lines[i].line,
             context |-> lines[i].context, id |-> AnchorIdOf(identity, lines[i])]]

\* ReviewFileInput after issue_file_anchors: the anchors of its own path.
Input(file, anchors) ==
    LET own == Ascending({i \in DOMAIN anchors : anchors[i].path = file.path})
        material == file.material
    IN  [path |-> file.path.new, old_path |-> file.path.old, kind |-> file.path.kind,
         roles |-> RolesOf[file.path.new], class |-> material.class,
         added |-> IF material.diff = None THEN {} ELSE AddedLines(material.diff),
         objects |-> IF material.diff = None THEN <<>>
                     ELSE <<[role |-> "ExactDiff", size |-> Len(material.diff)]>>,
         anchors |-> [i \in DOMAIN own |-> anchors[own[i]].id]]

\* issued_anchors.
IssuedAnchors(plan) == [unit \in plan.units |-> UNION {f.anchors : f \in unit}]

Failed(error) == [error |-> error]

Built(source, identity, anchors, plan) ==
    [error |-> None, anchors |-> ToSet(anchors), plan |-> plan, issued |-> IssuedAnchors(plan),
     invocation |-> IF plan.units = {} THEN None
                    ELSE [review |-> <<source, identity>>, units |-> plan.units,
                          tools |-> AutomaticTools(source)]]

BuildPlanned(source, identity, anchors, inputs, plan, policy) ==
    CASE AnchorTableVerdict(identity, anchors) # "accepted" -> Failed("Anchor")
      [] PlanVerdict(inputs, policy, Budget) # "accepted" -> Failed("Partition")
      [] ReplayVerdict(plan, Budget) # "accepted" -> Failed("Partition")
      [] OTHER -> Built(source, identity, anchors, plan)

BuildAnchored(source, identity, anchors, inputs, policy) ==
    BuildPlanned(source, identity, anchors, inputs, Plan(inputs, policy, Budget), policy)

\* build_review_materials: the first error, or what a review is started with.
BuildMaterials(source, identity, files, policy) ==
    LET broken == {i \in DOMAIN files : files[i].material.error # None}
        anchors == Anchors(identity, files)
        inputs == {Input(files[i], anchors) : i \in DOMAIN files}
    IN  CASE broken # {} -> Failed(files[Min(broken)].material.error)
          [] Cardinality({files[i].path : i \in DOMAIN files}) # Len(files) ->
                Failed("DiffIdentityMismatch")
          [] OTHER -> BuildAnchored(source, identity, anchors, inputs, policy)

\* build_gitlab_review_context: a partial snapshot is reviewed, a blocked one
\* or one of another head than the checkout's is not.
BuildGitLabContext(identity, readiness, checkout_head, head, files, policy) ==
    CASE readiness = "Invalid" -> Failed("SnapshotReplay")
      [] readiness = "Blocked" -> Failed("SnapshotBlocked")
      [] checkout_head # head -> Failed("Checkout")
      [] OTHER -> BuildMaterials("gitlab", identity,
            [i \in DOMAIN files |->
                [path |-> files[i].path, material |-> GitLabMaterial(files[i].path, files[i])]],
            policy)

BuildDistinct(identity, materials, policy) ==
    IF \E i, j \in DOMAIN materials :
            i # j /\ materials[i].path = materials[j].path /\ materials[i].path # None
    THEN Failed("DuplicateFile")
    ELSE BuildMaterials("github", identity, materials, policy)

\* build_context, of the files of a pull request.
BuildGitHubContext(identity, files, policy) ==
    BuildDistinct(identity,
        [i \in DOMAIN files |->
            LET path == GitHubPath(files[i])
            IN  [path |-> path, material |-> GitHubMaterial(files[i], path)]],
        policy)

\* build_local_review_context, of captured [path, diff].
BuildLocalContext(identity, captured, policy) ==
    BuildMaterials("local", identity,
        [i \in DOMAIN captured |->
            [path |-> captured[i].path,
             material |-> LocalMaterial(captured[i].path, captured[i].diff)]],
        policy)
=============================================================================
