-------------------------- MODULE SnapshotEvidence --------------------------
(***************************************************************************)
(* What snapshot.rs derives from acquired evidence: whether a listing is   *)
(* complete, which diff version is the one to review, whether the evidence *)
(* makes a complete, a partial or no snapshot, and which anchors a review  *)
(* of it may use.  A blocker or a gap is a tuple that starts with its name.*)
(***************************************************************************)
EXTENDS Integers, Sequences, FiniteSets, SequencesExt, FiniteSetsExt, Optional

If(condition, item) == IF condition THEN {item} ELSE {}

\* ChangedFileCount
Exact(n) == [kind |-> "Exact", count |-> n]
CappedAt(n) == [kind |-> "CappedAt", count |-> n]
Unavailable == [kind |-> "Unavailable", count |-> 0]

Repeated(seq) ==
    {seq[i] : i \in {j \in DOMAIN seq : \E k \in 1..(j - 1) : seq[k] = seq[j]}}

-----------------------------------------------------------------------------
(* Listings.                                                               *)

\* PaginatedAcquisition::completeness: the issues, none when complete.
PaginationIssues(listing) ==
    LET pages == listing.pages
        later == {i \in DOMAIN pages : i > 1}
    IN  If(pages = <<>>, <<"NoPages">>)
        \cup If(\E p \in ToSet(pages) : p.number = 0, <<"PageNumberZero">>)
        \cup If(pages # <<>> /\ Head(pages).number # 1, <<"FirstPageMissing">>)
        \cup {<<"PageAfterTerminal", pages[i].number>> :
                i \in {j \in later : ~pages[j - 1].more}}
        \cup {<<"NonSequentialPage", pages[i].number>> :
                i \in {j \in later : pages[j].number # pages[j - 1].number + 1}}
        \cup If(pages # <<>> /\ Last(pages).more, <<"ContinuationNotFetched">>)
        \cup If(MapThenSumSet(LAMBDA i : pages[i].items, DOMAIN pages) # Len(listing.items),
                <<"ItemCountMismatch">>)

ListingComplete(listing) == PaginationIssues(listing) = {}

-----------------------------------------------------------------------------
(* The diff version to review.                                             *)

\* bind_latest_snapshot: refs are those of the merge request or None, a
\* version is a record with an id and refs.
BindingBlockers(refs, versions) ==
    LET items == versions.items
    IN  If(refs = None, <<"MergeRequestDiffRefsNotPrepared">>)
        \cup If(~ListingComplete(versions), <<"DiffVersionsPaginationIncomplete">>)
        \cup If(items = <<>>, <<"NoDiffVersions">>)
        \cup {<<"DiffVersionsNotNewestFirst", items[i].id>> :
                i \in {j \in 1..(Len(items) - 1) : items[j].id <= items[j + 1].id}}
        \cup If(refs # None /\ items # <<>> /\ Head(items).refs # refs,
                <<"LatestDiffRefsMismatch">>)

-----------------------------------------------------------------------------
(* Changed paths and their blobs.                                          *)

SemanticIssue(path) ==
    CASE path.kind = "Renamed" /\ path.old = path.new -> "DistinctPathsRequired"
      [] path.kind # "Renamed" /\ path.old # path.new -> "SamePathRequired"
      [] OTHER -> None

\* The old side is read at the base, the new one at the head; the start of the
\* diff is never read.
ExpectedBlobs(path, refs) ==
    LET old == [side |-> "Old", path |-> path.old, commit_sha |-> refs.base]
        new == [side |-> "New", path |-> path.new, commit_sha |-> refs.head]
    IN  CASE path.kind \in {"Modified", "Renamed"} -> {old, new}
          [] path.kind = "Added" -> {new}
          [] path.kind = "Deleted" -> {old}

-----------------------------------------------------------------------------
(* The assessment.  Evidence e is a record: refs, state, reported, files   *)
(* (a sequence of [path, diff]), current (a listing of paths) and blobs (a *)
(* sequence of [request, outcome, size], the outcome being "FileContent",  *)
(* "LfsPointer" or why the blob is not there).                             *)

Expected(e) == UNION {ExpectedBlobs(f.path, e.refs) : f \in ToSet(e.files)}
Acquired(b) == b.outcome \in {"FileContent", "LfsPointer"}

\* The first answer to every expected request.
Observed(e) == {e.blobs[i] : i \in {j \in DOMAIN e.blobs :
    /\ e.blobs[j].request \in Expected(e)
    /\ \A k \in 1..(j - 1) : e.blobs[k].request # e.blobs[j].request}}

VersionBlockers(e) ==
    If(e.state = "WithoutFiles", <<"DiffVersionWithoutFiles">>)
    \cup If(e.state = "Unknown", <<"UnknownDiffVersionState">>)

VersionGaps(e) ==
    If(e.state = "Overflow", <<"DiffVersionOverflow">>)
    \cup If(e.reported.kind = "Exact" /\ e.reported.count # Len(e.files),
            <<"ReportedChangedFilesMismatch", e.reported.count>>)
    \cup If(e.reported.kind # "Exact", <<"ReportedChangedFiles", e.reported.kind>>)
    \cup If(~ListingComplete(e.current), <<"CurrentDiffPaginationIncomplete">>)

PathBlockers(e) ==
    LET exact == [i \in DOMAIN e.files |-> e.files[i].path]
    IN  {<<"InvalidChangedPath", p>> : p \in {q \in ToSet(exact) \cup ToSet(e.current.items) :
            SemanticIssue(q) # None}}
        \cup {<<"DuplicateExactChangedPath", p>> : p \in Repeated(exact)}
        \cup {<<"DuplicateCurrentChangedPath", p>> : p \in Repeated(e.current.items)}

\* Mutant: a diff that GitLab did not send is no gap.
PathGapsWithoutDiffs(e) ==
    If(Len(e.current.items) # Len(e.files), <<"CurrentDiffCountMismatch">>)
    \cup If(ToSet(e.current.items) # {f.path : f \in ToSet(e.files)},
            <<"CurrentDiffPathMismatch">>)

PathGaps(e) ==
    {<<"DiffUnavailable", f.path, f.diff>> : f \in {g \in ToSet(e.files) : g.diff # "Available"}}
    \cup If(Len(e.current.items) # Len(e.files), <<"CurrentDiffCountMismatch">>)
    \cup If(ToSet(e.current.items) # {f.path : f \in ToSet(e.files)},
            <<"CurrentDiffPathMismatch">>)

BlobBlockers(e) ==
    {<<"UnexpectedBlobEvidence", b.request>> : b \in {c \in ToSet(e.blobs) :
        c.request \notin Expected(e)}}
    \cup {<<"DuplicateBlobEvidence", r>> :
            r \in Repeated([i \in DOMAIN e.blobs |-> e.blobs[i].request]) \cap Expected(e)}

BlobGaps(e) ==
    {<<"BlobNotObserved", r>> : r \in Expected(e) \ {b.request : b \in Observed(e)}}
    \cup {<<"BlobUnavailable", b.request, b.outcome>> :
            b \in {c \in Observed(e) : ~Acquired(c)}}
    \cup {<<"LfsPointerNotExpanded", b.request>> :
            b \in {c \in Observed(e) : c.outcome = "LfsPointer"}}

Blockers(e) == VersionBlockers(e) \cup PathBlockers(e) \cup BlobBlockers(e)
Gaps(e) == VersionGaps(e) \cup PathGaps(e) \cup BlobGaps(e)

\* A file is reviewable when its diff is there and all its blobs are content.
Reviewable(e, f) ==
    /\ f.diff = "Available"
    /\ \A r \in ExpectedBlobs(f.path, e.refs) :
        \E b \in Observed(e) : b.request = r /\ b.outcome = "FileContent"

\* How many changed files the host knows of that the evidence does not show.
Unrepresented(e) ==
    CASE e.reported.kind = "Exact" /\ e.reported.count >= Len(e.files) ->
            Exact(e.reported.count - Len(e.files))
      [] e.reported.kind = "CappedAt" ->
            CappedAt(IF e.reported.count > Len(e.files)
                     THEN e.reported.count - Len(e.files) ELSE 0)
      [] OTHER -> Unavailable

Assess(e) ==
    [readiness |-> IF Blockers(e) # {} THEN "Blocked"
                   ELSE IF Gaps(e) # {} THEN "Partial" ELSE "Complete",
     represented |-> Len(e.files),
     reviewable |-> Cardinality({i \in DOMAIN e.files : Reviewable(e, e.files[i])}),
     unrepresented |-> Unrepresented(e),
     expected |-> Cardinality(Expected(e)),
     included |-> Cardinality({b \in Observed(e) : Acquired(b)}),
     bytes |-> MapThenSumSet(LAMBDA b : b.size, {c \in Observed(e) : Acquired(c)})]

-----------------------------------------------------------------------------
(* Anchors.  A position is [kind, old, new], line 0 for the side it is not *)
(* on; an identifier is the snapshot and the line it was derived from.     *)

PositionValid(p) ==
    CASE p.kind = "Addition" -> p.new # 0
      [] p.kind = "Deletion" -> p.old # 0
      [] p.kind = "Context" -> p.old # 0 /\ p.new # 0

\* derive_anchor_id: a digest over every field of the snapshot and the line.
AnchorIdOf(snapshot, anchor) ==
    <<snapshot, anchor.path, anchor.position, anchor.line, anchor.context>>

Compatible(path, position) ==
    CASE path.kind = "Added" -> position.kind = "Addition"
      [] path.kind = "Deleted" -> position.kind = "Deletion"
      [] OTHER -> TRUE

\* AnchorTable::from_anchors: the first anchor that is refused decides.
AnchorError(snapshot, anchors, i) ==
    LET a == anchors[i]
        before == {anchors[k] : k \in 1..(i - 1)}
    IN  CASE ~PositionValid(a.position) -> "InvalidPosition"
          [] SemanticIssue(a.path) # None -> "InvalidChangedPath"
          [] ~Compatible(a.path, a.position) -> "PositionIncompatibleWithFileChange"
          [] \E b \in before : b.path = a.path /\ b.position = a.position ->
                "DuplicateCoordinate"
          [] \E b \in before : b.id = a.id -> "DuplicateAnchorId"
          [] a.id # AnchorIdOf(snapshot, a) -> "IdentityMismatch"
          [] OTHER -> None

AnchorTableVerdict(snapshot, anchors) ==
    LET bad == {i \in DOMAIN anchors : AnchorError(snapshot, anchors, i) # None}
    IN  IF bad = {} THEN "accepted" ELSE AnchorError(snapshot, anchors, Min(bad))
=============================================================================
