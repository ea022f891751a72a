--------------------------- MODULE GitLabSnapshot ---------------------------
(***************************************************************************)
(* The acquisition of one merge request snapshot (gitlab_snapshot.rs): a   *)
(* read-only controller asks for the merge request, its projects, its diff *)
(* versions, the exact version, the current diffs, the blobs and once more *)
(* for the merge request, each read retried within one budget, while       *)
(* people push and GitLab prepares the refs and the versions of a push in  *)
(* its own time.                                                           *)
(*                                                                         *)
(* A revision is a state of the source and target branches: RefsOf gives   *)
(* its refs, FilesOf its changed files.  Time is counted in units of the   *)
(* first backoff; only reads and waits take time.                          *)
(***************************************************************************)
EXTENDS GitLabWire

CONSTANTS
    Revision,           \* 1..n; the review starts at revision 1
    RefsOf,             \* [Revision -> [base, start, head]]
    FilesOf,            \* [Revision -> Seq(changed file on the wire)]
    Capped,             \* the revisions whose number of files GitLab caps
    Pointers,           \* paths whose blobs are LFS pointers
    MaxPushes,          \* bound of the model
    MaxTrouble,         \* bound of the model: pushes and faults together
    MaxBody,            \* max_body_bytes of the transport
    MaxRetryAfter,      \* MAX_RETRY_AFTER_SECONDS
    PerPage,            \* limits.per_page
    MaxBlobRequests,    \* limits.max_blob_requests
    MaxBlobBytes,       \* limits.max_total_blob_bytes
    MaxRequests,        \* limits.max_total_requests
    Deadline,           \* limits.acquisition_timeout
    MaxAttempts,        \* retry.max_read_attempts
    MaxPolls,           \* retry.max_preparation_polls
    InitialBackoff,     \* retry.initial_backoff
    MaxBackoff,         \* retry.max_backoff
    MaxRetryWait        \* retry.max_retry_after

ASSUME LimitsAssumption ==
    /\ {PerPage, MaxBlobRequests, MaxBlobBytes, MaxRequests, Deadline, MaxAttempts,
        MaxPolls, InitialBackoff, MaxRetryWait} \subseteq Nat \ {0}
    /\ {MaxPages, MaxItems, MaxBlob} \subseteq Nat
    /\ InitialBackoff <= MaxBackoff
    /\ PerPage <= MaxItems
    /\ MaxBlobRequests <= 2 * MaxItems

\* A path is a number for its place in the order of paths.
WireFile ==
    [old_path : Nat \cup {Malformed}, new_path : Nat \cup {Malformed},
     new : BOOLEAN, renamed : BOOLEAN, deleted : BOOLEAN,
     collapsed : BOOLEAN \cup {Absent}, too_large : BOOLEAN \cup {Absent},
     diff : Nat, form : {"text", "binary"}]

\* A revision is what its refs name: commits do not change.
ASSUME RevisionAssumption ==
    /\ 1 \in Revision
    /\ \A r \in Revision : FilesOf[r] \in Seq(WireFile)
    /\ \A q, r \in Revision : RefsOf[q] = RefsOf[r] => q = r
    /\ \A r \in Revision : RefsOf[r] \notin {Absent, None}

\* What is not there, or cannot be parsed, is no value of a field.
ASSUME AbsentAssumption ==
    /\ Absent # Malformed
    /\ {Absent, Malformed} \cap (Nat \cup [digits : Nat, plus : BOOLEAN]) = {}
    /\ Malformed \notin [kind : {"Exact", "CappedAt", "Unavailable"}, count : Nat]
    /\ {Absent, Malformed} \cap {"feature", "main", "sha"} = {}
    /\ None \notin [id : Nat, path : {"group/project", "fork/project"}]

T == INSTANCE GitLabTransport
Context == INSTANCE GitLabContext

VARIABLES
    \* the host
    revision,   \* what the branches are at
    refs,       \* the diff_refs it shows: Absent while they are prepared
    versions,   \* the diff versions, newest first: [id, revision, state]
    totals,     \* its listings say how many items they have
    pushes,
    faults,     \* reads that went wrong so far
    \* the controller
    hinted,     \* a merge request pipeline started it, at revision 1
    stage, attempt, poll,
    pages,      \* the pages of the listing that is being read
    got,        \* what the stages before this one left
    requests, now,
    outcome     \* None until the acquisition ends

host == <<revision, refs, versions, totals, pushes>>
vars == <<host, faults, hinted, stage, attempt, poll, pages, got, requests, now, outcome>>

-----------------------------------------------------------------------------
(* The host.                                                               *)

Target == [id |-> 1, path |-> "group/project"]
Source == [id |-> 2, path |-> "fork/project"]
Iid == 1
MergeRequestId == 7

Files(r) == FilesOf[r]
RevisionOf(shown) == CHOOSE r \in Revision : RefsOf[r] = shown

\* The merge request as the API answers it: counts are those of the version
\* the refs belong to.
Answered ==
    [state |-> "opened", id |-> MergeRequestId, iid |-> Iid, project |-> Target.id,
     target |-> Target.id, source |-> Source.id, head |-> RefsOf[revision].head,
     source_ref |-> "feature", target_ref |-> "main", refs |-> refs,
     changes |-> IF refs = Absent THEN Absent
                 ELSE [digits |-> Len(Files(RevisionOf(refs))), plus |-> FALSE]]

VersionAnswer(v) ==
    [id |-> v.id, refs |-> RefsOf[v.revision], mr |-> MergeRequestId, state |-> v.state,
     real_size |-> [digits |-> Len(Files(v.revision)), plus |-> v.revision \in Capped]]

NewVersion(old, r) == [id |-> Len(old) + 1, revision |-> r, state |-> "collected"]

Published == versions # <<>> /\ Head(versions).revision = revision

HostInit ==
    /\ revision = 1
    /\ refs \in {Absent, RefsOf[1]}
    /\ versions \in {<<>>, <<NewVersion(<<>>, 1)>>}
    /\ totals \in BOOLEAN
    /\ pushes = 0

\* Something may still go wrong.
Trouble == pushes + faults < MaxTrouble

\* After a push the old refs may still be shown.
Push ==
    /\ pushes < MaxPushes
    /\ Trouble
    /\ \E r \in Revision \ {revision}, shown \in {Absent, refs} :
        /\ revision' = r
        /\ refs' = shown
    /\ pushes' = pushes + 1
    /\ UNCHANGED <<versions, totals, faults, hinted, stage, attempt, poll, pages, got, requests, now, outcome>>

PublishRefs ==
    /\ refs # RefsOf[revision]
    /\ refs' = RefsOf[revision]
    /\ UNCHANGED <<revision, versions, totals, pushes, faults, hinted, stage, attempt, poll, pages, got,
                   requests, now, outcome>>

PublishVersion ==
    /\ ~Published
    /\ versions' = <<NewVersion(versions, revision)>> \o versions
    /\ UNCHANGED <<revision, refs, totals, pushes, faults, hinted, stage, attempt, poll, pages, got,
                   requests, now, outcome>>

\* GitLab drops the files of a version it no longer needs.
DropFiles ==
    /\ \E i \in DOMAIN versions :
        /\ versions[i].state = "collected"
        /\ versions[i].revision # revision \/ pushes = MaxPushes
        /\ versions' = [versions EXCEPT ![i].state = "without_files"]
    /\ UNCHANGED <<revision, refs, totals, pushes, faults, hinted, stage, attempt, poll, pages, got,
                   requests, now, outcome>>

-----------------------------------------------------------------------------
(* The budget of the acquisition.                                          *)

Fail(kind, why) ==
    /\ stage' = "done"
    /\ outcome' = [kind |-> "Failed", failure |-> kind, why |-> why, stage |-> stage]
    /\ pages' = <<>>
    /\ got' = [mr |-> None]
    /\ attempt' = 1
    /\ poll' = 1

\* deterministic_jitter: the multiplier is 0 modulo 5, so the slot is the same
\* for every ordinal until the product wraps.
Jitter(base) == base + (base * ((1664525 * requests + 1013904223) % 5)) \div 20

Least(S) == CHOOSE x \in S : \A y \in S : x <= y

Backoff(exponent) ==
    Least({Jitter(Least({InitialBackoff * 2 ^ exponent, MaxBackoff})), MaxBackoff})

\* AcquisitionBudget::wait_backoff: the wait, or the failure, when it would
\* reach the deadline.
Waits(start, delay) == start + delay < Deadline /\ now' = start + delay

\* The stage has a read to make: all but the end, and blobs past the last one
\* or the limit on requests for them.
AskBlob == got.todo # <<>> /\ Len(got.blobs) < MaxBlobRequests
Pending == stage # "done" /\ (stage = "RawBlob" => AskBlob)

\* No further read may start.  The deadline is met in reads and waits, where
\* the time goes by.
OutOfBudget ==
    /\ Pending
    /\ requests >= MaxRequests
    /\ Fail("Budget", "RequestLimit")
    /\ UNCHANGED <<host, faults, hinted, requests, now>>

\* A read is started and answered after d units; a slow one counts as a fault.
Started ==
    /\ Pending
    /\ requests < MaxRequests
    /\ requests' = requests + 1

Reads ==
    /\ Started
    /\ \E d \in {0, 1} :
        /\ d = 1 => Trouble
        /\ faults' = faults + d
        /\ now + d < Deadline
        /\ now' = now + d
    /\ attempt' = 1

\* timeout_at: the deadline passes while the client waits.
DeadlinePasses ==
    /\ Started
    /\ Trouble
    /\ now + 1 >= Deadline
    /\ now' = Deadline
    /\ faults' = faults + 1
    /\ Fail("Budget", "Deadline")
    /\ UNCHANGED <<host, hinted>>

Endpoint ==
    [kind |-> CASE stage \in {"InitialMergeRequest", "RefreshedMergeRequest", "FinalMergeRequest"} ->
                        "MergeRequest"
                [] stage \in {"TargetProject", "SourceProject"} -> "Project"
                [] stage = "CurrentDiffs" -> "ChangedFiles"
                [] stage = "RawBlob" -> "RawRepositoryFile"
                [] OTHER -> stage]

Exchange ==
    [send |-> "answered", status |-> 200, many |-> FALSE,
     type |-> IF stage = "RawBlob" THEN "octet-stream" ELSE "json",
     encoding |-> Absent, length |-> Absent, retry |-> Absent, body |-> 1,
     end |-> "whole"]

Faulty ==
    {[Exchange EXCEPT !.send = "timeout"], [Exchange EXCEPT !.send = "broken"],
     [Exchange EXCEPT !.status = 404],
     [Exchange EXCEPT !.status = 503, !.retry = 1],
     [Exchange EXCEPT !.status = 429, !.retry = MaxRetryWait + 1],
     [Exchange EXCEPT !.body = MaxBody + 1]}

RecoverableBlobFailure(kind) ==
    CASE kind = "NotFound" -> "Missing"
      [] kind = "Forbidden" -> "UnauthorizedPrivateFork"
      [] kind = "BodyTooLarge" -> "TooLarge"
      [] kind \in {"MissingContentType", "UnsupportedContentType",
                   "UnsupportedContentEncoding"} -> "UnsupportedEncoding"
      [] OTHER -> None

Repeatable(failure) ==
    /\ attempt < MaxAttempts
    /\ failure.retryable
    /\ failure.after # Absent => failure.after <= MaxRetryWait

\* One attempt of AcquisitionBudget::get fails.
ReadFails ==
    /\ Started
    /\ Trouble
    /\ faults' = faults + 1
    /\ \E x \in Faulty :
        LET failure == T!Read(Endpoint, x)
            delay == IF failure.after # Absent THEN failure.after
                     ELSE Backoff(attempt - 1)
        IN  \/ /\ Repeatable(failure)
               /\ Waits(now, delay)
               /\ attempt' = attempt + 1
               /\ UNCHANGED <<stage, poll, pages, got, outcome>>
            \/ /\ Repeatable(failure)
               /\ now + delay >= Deadline
               /\ Fail("Budget", "Deadline")
               /\ UNCHANGED now
            \/ /\ ~Repeatable(failure)
               /\ stage # "RawBlob" \/ RecoverableBlobFailure(failure.kind) = None
               /\ Fail("Transport", failure.kind)
               /\ UNCHANGED now
            \/ /\ ~Repeatable(failure)
               /\ stage = "RawBlob"
               /\ RecoverableBlobFailure(failure.kind) # None
               /\ got' = [got EXCEPT !.blobs = Append(@,
                            [request |-> Head(got.todo), size |-> 0,
                             outcome |-> RecoverableBlobFailure(failure.kind)]),
                          !.todo = Tail(@)]
               /\ attempt' = 1
               /\ UNCHANGED <<stage, poll, pages, outcome, now>>
    /\ UNCHANGED <<host, hinted>>

-----------------------------------------------------------------------------
(* The stages.  Each handles the answer to its read.                       *)

Ends(kind, why) == Reads /\ Fail(kind, why) /\ UNCHANGED <<host, hinted>>

\* A read that answers, and the stage that follows.
Goes(next) ==
    /\ Reads
    /\ stage' = next
    /\ UNCHANGED <<host, hinted, outcome>>

\* A read whose answer says that GitLab is not there yet: wait, then poll.
GoesAfterWait(next) ==
    /\ Started
    /\ \/ /\ Waits(now, Backoff(poll - 1))
          /\ stage' = next
          /\ UNCHANGED <<outcome, got>>
          /\ pages' = <<>>
          /\ attempt' = 1
          /\ poll' = IF next = "InitialMergeRequest" THEN poll + 1 ELSE poll
       \/ /\ now + Backoff(poll - 1) >= Deadline
          /\ Fail("Budget", "Deadline")
          /\ UNCHANGED now
    /\ UNCHANGED <<host, hinted, faults>>

\* The answer cannot be parsed.
Garbled ==
    /\ Started
    /\ Trouble
    /\ faults' = faults + 1
    /\ \E r \in {[status |-> 200, size |-> 1, headers |-> "fine", type |-> "json",
                  length |-> Absent, text |-> Malformed]} :
        Fail("Wire", JsonVerdict(r, 200))
    /\ UNCHANGED <<host, hinted, now>>

\* acquire_prepared_merge_request.
InitialMergeRequest ==
    /\ stage = "InitialMergeRequest"
    /\ LET verdict == MergeRequestVerdict(Answered)
       IN  \/ verdict # "accepted" /\ Ends("Wire", verdict)
           \/ /\ verdict = "accepted"
              /\ refs # Absent
              /\ Goes("TargetProject")
              /\ got' = [mr |-> MergeRequest(Answered)]
              /\ poll' = 1
              /\ UNCHANGED pages
           \/ /\ verdict = "accepted"
              /\ refs = Absent
              /\ poll < MaxPolls
              /\ GoesAfterWait("InitialMergeRequest")
           \/ /\ verdict = "accepted"
              /\ refs = Absent
              /\ poll = MaxPolls
              /\ Ends("Preparation", "InitialMergeRequest")

TargetProject ==
    /\ stage = "TargetProject"
    /\ Goes("SourceProject")
    /\ UNCHANGED <<got, poll, pages>>

\* The hint names the head the pipeline was started for.
Selection ==
    [origin |-> "gitlab", project |-> Target, iid |-> Iid,
     hint |-> IF ~hinted THEN None ELSE [origin |-> "gitlab", pipeline |-> Target, target |-> Target,
               source |-> Source, iid |-> Iid, source_ref |-> "feature",
               target_ref |-> "main", head |-> RefsOf[1].head]]

Authoritative ==
    [target |-> Target, source |-> Source, iid |-> got.mr.iid,
     source_ref |-> got.mr.source_ref, target_ref |-> got.mr.target_ref,
     head |-> got.mr.head]

\* acquire_verified_context ends with the source project.
SourceProject ==
    /\ stage = "SourceProject"
    /\ IF Context!Mismatches(Selection, Authoritative) = {}
       THEN /\ Goes("DiffVersions")
            /\ got' = [mr |-> got.mr, context |-> Context!Verified(Selection, Authoritative)]
            /\ UNCHANGED <<poll, pages>>
       ELSE Ends("Identity", "VerificationMismatch")

\* A page of a listing, with totals or without, and what its parse makes of it.
PageAnswer(items) ==
    LET page == Len(pages) + 1
        total == Len(items)
    IN  [echo |-> page, per |-> PerPage, prev |-> Absent, link |-> Absent,
         next |-> NextOf(total, page, PerPage),
         total |-> IF totals THEN total ELSE Absent,
         pages |-> IF totals THEN PagesOf(total, PerPage) ELSE Absent,
         items |-> SubSeq(items, (page - 1) * PerPage + 1,
                          (page - 1) * PerPage + ItemsOnPage(total, page, PerPage))]

\* The pages read so far with the one that is answered now, and whether they
\* are all and make a listing.
PagesRead(items) ==
    Append(pages, Page(PageAnswer(items), Len(pages) + 1, PerPage))

Collected(items) ==
    LET r == PageAnswer(items)
        page == Len(pages) + 1
    IN  /\ PageVerdict(r, page, PerPage) = "accepted"
        /\ NextPage(r, page, PerPage) = Terminal
        /\ CollectVerdict(PagesRead(items)) = "accepted"

\* The loop over the pages of a listing: a refused page, one more page, or a
\* last page that does not fit the others.
ReadPage(items) ==
    LET r == PageAnswer(items)
        page == Len(pages) + 1
    IN  \/ PageVerdict(r, page, PerPage) # "accepted"
            /\ Ends("Wire", PageVerdict(r, page, PerPage))
        \/ /\ PageVerdict(r, page, PerPage) = "accepted"
           /\ NextPage(r, page, PerPage) # Terminal
           /\ IF NextPage(r, page, PerPage) > MaxPages
              THEN Ends("Wire", "TooManyPages")
              ELSE /\ Goes(stage)
                   /\ pages' = PagesRead(items)
                   /\ UNCHANGED <<got, poll>>
        \/ /\ PageVerdict(r, page, PerPage) = "accepted"
           /\ NextPage(r, page, PerPage) = Terminal
           /\ CollectVerdict(PagesRead(items)) # "accepted"
           /\ Ends("Wire", CollectVerdict(PagesRead(items)))

PreparationOnly(blockers) ==
    blockers # {} /\ {b[1] : b \in blockers} \subseteq {"NoDiffVersions", "LatestDiffRefsMismatch"}

\* acquire_bound_version after one complete listing of the versions.
Bind(listing) ==
    LET items == [i \in DOMAIN listing.items |-> Version(listing.items[i])]
        bound == [listing EXCEPT !.items = items]
        blockers == BindingBlockers(got.mr.refs, bound)
    IN  CASE \E v \in ToSet(items) : v.mr \notin {Absent, got.mr.id} ->
                Ends("Identity", "DiffVersionMergeRequestMismatch")
          [] blockers = {} ->
                /\ Goes("ExactDiffVersion")
                /\ got' = [mr |-> got.mr, context |-> got.context, version |-> Head(items)]
                /\ poll' = 1
                /\ pages' = <<>>
          [] PreparationOnly(blockers) /\ poll < MaxPolls ->
                GoesAfterWait("RefreshedMergeRequest")
          [] PreparationOnly(blockers) /\ poll = MaxPolls ->
                Ends("Preparation", "DiffVersions")
          [] OTHER -> Ends("Identity", "LatestVersionBinding")

DiffVersions ==
    /\ stage = "DiffVersions"
    /\ LET items == [i \in DOMAIN versions |-> VersionAnswer(versions[i])]
       IN  \/ ReadPage(items)
           \/ Collected(items) /\ Bind(Listing(PagesRead(items)))

\* Between two polls the merge request must not have changed.
RefreshedMergeRequest ==
    /\ stage = "RefreshedMergeRequest"
    /\ LET verdict == MergeRequestVerdict(Answered)
       IN  CASE verdict # "accepted" -> Ends("Wire", verdict)
             [] verdict = "accepted" /\ MergeRequest(Answered) # got.mr ->
                    Ends("Identity", "SnapshotChangedDuringAcquisition")
             [] OTHER ->
                    /\ Goes("DiffVersions")
                    /\ poll' = poll + 1
                    /\ UNCHANGED <<got, pages>>

\* reconcile_changed_file_counts; Malformed for a conflict.
Reconciled(left, right) ==
    LET exact == {c \in {left, right} : c.kind = "Exact"}
        capped == {c \in {left, right} : c.kind = "CappedAt"}
        most == CHOOSE c \in capped : \A d \in capped : d.count <= c.count
    IN  CASE Unavailable \in {left, right} -> Unavailable
          [] capped = {} -> IF left = right THEN left ELSE Malformed
          [] \E c \in exact : c.count < most.count -> Malformed
          [] OTHER -> most

\* The order of FileChangeKind.
KindOrder == [Modified |-> 1, Renamed |-> 2, Added |-> 3, Deleted |-> 4]

PathOrder(f, g) ==
    \/ f.path.old < g.path.old
    \/ f.path.old = g.path.old /\ f.path.new < g.path.new
    \/ /\ f.path.old = g.path.old
       /\ f.path.new = g.path.new
       /\ KindOrder[f.path.kind] < KindOrder[g.path.kind]

\* The paths are distinct by then, so that there is one such order.
Sorted(files) ==
    CHOOSE s \in [DOMAIN files -> ToSet(files)] :
        \A i, k \in DOMAIN s : i < k => PathOrder(s[i], s[k])

ExactDiffVersion ==
    /\ stage = "ExactDiffVersion"
    /\ LET shown == CHOOSE v \in ToSet(versions) : v.id = got.version.id
           wire == IF shown.state = "collected" THEN Files(shown.revision) ELSE <<>>
           version == Version(VersionAnswer(shown))
           files == [i \in DOMAIN wire |-> ChangedFile(wire[i])]
           reported == Reconciled(got.mr.changes, version.reported)
       IN  CASE \E f \in ToSet(wire) : ChangedFileVerdict(f) # "accepted" ->
                    Ends("Wire", "ChangedFile")
             [] ExactVersionVerdict(version, files) # "accepted" ->
                    Ends("Wire", "InvalidExactVersion")
             [] \/ <<version.id, version.refs>> # <<got.version.id, got.version.refs>>
                \/ version.mr \notin {Absent, got.mr.id} ->
                    Ends("Identity", "ExactVersionMismatch")
             [] reported = Malformed -> Ends("Identity", "ChangedFileCountConflict")
             [] OTHER ->
                    /\ Goes("CurrentDiffs")
                    /\ got' = [mr |-> got.mr, context |-> got.context,
                               version |-> version, reported |-> reported,
                               files |-> Sorted(files)]
                    /\ UNCHANGED <<poll, pages>>

\* acquire_current_diffs after one complete listing of the paths.  The blobs to
\* ask for follow from the files of the exact version.
Current(listing) ==
    LET paths == [listing EXCEPT !.items =
                    [i \in DOMAIN listing.items |-> ChangedPathOf(listing.items[i])]]
        expected == UNION {ExpectedBlobs(f.path, got.version.refs) : f \in ToSet(got.files)}
    IN  /\ Goes(IF expected = {} THEN "FinalMergeRequest" ELSE "RawBlob")
        /\ got' = [mr |-> got.mr, context |-> got.context, version |-> got.version,
                   reported |-> got.reported, files |-> got.files, current |-> paths,
                   todo |-> SetToSeq(expected), blobs |-> <<>>, retained |-> <<>>]
        /\ pages' = <<>>
        /\ UNCHANGED poll

CurrentDiffs ==
    /\ stage = "CurrentDiffs"
    /\ LET items == Files(revision)
       IN  \/ ReadPage(items)
           \/ Collected(items) /\ Current(Listing(PagesRead(items)))

\* What a request for a blob is answered with: content is of one path at one
\* commit, forever.
BlobAnswer(request) ==
    LET content == <<request.path, request.commit_sha>>
    IN  [status |-> 200, headers |-> "fine", size |-> 1, length |-> 1, blob |-> "sha",
         commit |-> request.commit_sha, ref |-> request.commit_sha, path |-> request.path,
         encoding |-> "base64", declared |-> 1, digest |-> content, content |-> content,
         mode |-> "false", pointer |-> request.path \in Pointers]

BytesOf(blobs) == MapThenSumSet(LAMBDA i : blobs[i].size, DOMAIN blobs)

Unfetched(request) ==
    got' = [got EXCEPT !.blobs = Append(@,
                [request |-> request, outcome |-> "SkippedByPolicy", size |-> 0]),
            !.todo = Tail(@)]

\* Mutant: a blob past the limit goes back to the queue.
SkipBlobRequeues ==
    /\ stage = "RawBlob"
    /\ got.todo # <<>>
    /\ Len(got.blobs) >= MaxBlobRequests
    /\ got' = [got EXCEPT !.todo = Append(Tail(@), Head(@))]
    /\ UNCHANGED <<host, faults, hinted, stage, attempt, poll, pages, requests, now, outcome>>

\* Past the limit on requests nothing is asked.
SkipBlob ==
    /\ stage = "RawBlob"
    /\ got.todo # <<>>
    /\ Len(got.blobs) >= MaxBlobRequests
    /\ Unfetched(Head(got.todo))
    /\ UNCHANGED <<host, faults, hinted, stage, attempt, poll, pages, requests, now, outcome>>

\* acquire_blobs: one blob, retained unless it exceeds the limit on bytes.
RawBlob ==
    /\ stage = "RawBlob"
    /\ AskBlob
    /\ LET request == Head(got.todo)
           r == BlobAnswer(request)
           blob == Blob(request, r)
           bytes == BytesOf(got.retained) + blob.size
       IN  IF BlobVerdict(request, r) # "accepted"
           THEN Ends("Wire", BlobVerdict(request, r))
           ELSE /\ Goes("RawBlob")
                /\ IF bytes > MaxBlobBytes
                   THEN Unfetched(request)
                   ELSE got' = [got EXCEPT !.retained = Append(@, blob),
                                !.blobs = Append(@, [request |-> request, size |-> blob.size,
                                                     outcome |-> blob.representation]),
                                !.todo = Tail(@)]
                /\ UNCHANGED <<poll, pages>>

BlobsRead ==
    /\ stage = "RawBlob"
    /\ got.todo = <<>>
    /\ stage' = "FinalMergeRequest"
    /\ UNCHANGED <<host, faults, hinted, attempt, poll, pages, got, requests, now, outcome>>

-----------------------------------------------------------------------------
(* The end.                                                                *)

\* exact_diff_manifest_digest: a digest over the version and its files.
ManifestOf(version, files) == <<version.id, version.refs, files>>

Evidence ==
    [refs |-> got.version.refs, state |-> got.version.state, reported |-> got.reported,
     files |-> got.files, current |-> got.current, blobs |-> got.blobs]

Snapshot ==
    [kind |-> Assess(Evidence).readiness, context |-> got.context, version |-> got.version,
     files |-> got.files, retained |-> got.retained, evidence |-> Evidence,
     manifest |-> ManifestOf(got.version, got.files), assessment |-> Assess(Evidence)]

\* Mutant: the second answer is not compared with the first.
FinalMergeRequestTrusted ==
    /\ stage = "FinalMergeRequest"
    /\ IF MergeRequestVerdict(Answered) # "accepted"
       THEN Ends("Wire", MergeRequestVerdict(Answered))
       ELSE /\ Reads
            /\ stage' = "done"
            /\ outcome' = Snapshot
            /\ got' = [mr |-> None]
            /\ pages' = <<>>
            /\ poll' = 1
            /\ UNCHANGED <<host, hinted>>

FinalMergeRequest ==
    /\ stage = "FinalMergeRequest"
    /\ LET verdict == MergeRequestVerdict(Answered)
       IN  CASE verdict # "accepted" -> Ends("Wire", verdict)
             [] verdict = "accepted" /\ MergeRequest(Answered) # got.mr ->
                    Ends("Identity", "SnapshotChangedDuringAcquisition")
             [] OTHER ->
                    /\ Reads
                    /\ stage' = "done"
                    /\ outcome' = Snapshot
                    /\ got' = [mr |-> None]
                    /\ pages' = <<>>
                    /\ poll' = 1
                    /\ UNCHANGED <<host, hinted>>

\* AcquiredGitLabSnapshot::replay: everything that binds the snapshot is
\* computed again.
Replay(s) ==
    LET retained == [i \in DOMAIN s.retained |-> s.retained[i].request]
        acquired == {b \in ToSet(s.evidence.blobs) : Acquired(b)}
    IN  CASE s.context.head # s.version.refs.head -> "ContextIdentity"
          [] s.manifest # ManifestOf(s.version, s.files) -> "ExactDiffManifest"
          [] s.files # s.evidence.files -> "ExactFiles"
          [] ~IsInjective(retained) -> "BlobContent"
          [] ToSet(retained) # {b.request : b \in acquired} -> "BlobEvidence"
          [] s.assessment # Assess(s.evidence) -> "Assessment"
          [] OTHER -> "accepted"

Init ==
    /\ HostInit
    /\ faults = 0
    /\ hinted \in BOOLEAN
    /\ stage = "InitialMergeRequest"
    /\ attempt = 1
    /\ poll = 1
    /\ pages = <<>>
    /\ got = [mr |-> None]
    /\ requests = 0
    /\ now = 0
    /\ outcome = None

HostStep == Push \/ PublishRefs \/ PublishVersion \/ DropFiles

Controller ==
    \/ OutOfBudget \/ DeadlinePasses \/ ReadFails \/ Garbled
    \/ InitialMergeRequest \/ TargetProject \/ SourceProject
    \/ DiffVersions \/ RefreshedMergeRequest \/ ExactDiffVersion \/ CurrentDiffs
    \/ SkipBlob \/ RawBlob \/ BlobsRead \/ FinalMergeRequest

\* The end of the task is not a deadlock; any other state without a step is.
Ended == stage = "done" /\ UNCHANGED vars

Next == HostStep \/ Controller \/ Ended
Spec == Init /\ [][Next]_vars

\* The controller is a task that is polled until it ends: weak fairness of
\* Controller, which is enabled until stage is "done".
FairSpec == Spec /\ ([]<>(stage = "done") \/ []<><<Controller>>_vars)

-----------------------------------------------------------------------------
(* Properties.                                                             *)

Taken == outcome # None /\ outcome.kind # "Failed"

\* The acquired evidence against what the host holds at the bound revision.
TrueFiles(r) == {ChangedFile(f) : f \in ToSet(Files(r))}
TrueBlobs(r) ==
    {Blob(b, BlobAnswer(b)) : b \in UNION {ExpectedBlobs(f.path, RefsOf[r]) : f \in TrueFiles(r)}}

\* A snapshot that is called complete holds every changed file of one revision
\* with its diff and every blob of it, each at its own commit, and nothing
\* else, however pushes, dropped versions, shifted pages, missing blobs and
\* limits fell into the acquisition; a snapshot that is not complete holds
\* nothing else either.  Any of them passes its own replay.
EvidenceTrue ==
    Taken =>
        LET r == RevisionOf(outcome.version.refs)
        IN  /\ ToSet(outcome.files) \subseteq TrueFiles(r)
            /\ ToSet(outcome.retained) \subseteq TrueBlobs(r)
            /\ outcome.kind = "Complete" =>
                /\ ToSet(outcome.files) = TrueFiles(r)
                /\ ToSet(outcome.retained) = TrueBlobs(r)
                /\ \A f \in TrueFiles(r) : f.diff = "Available"
                /\ \A b \in TrueBlobs(r) : b.representation = "FileContent"
                /\ r \notin Capped
            /\ Replay(outcome) = "accepted"

\* What the host shows of a revision is what the parser and the limits accept.
Readable(r) ==
    /\ {RefsOf[r].base, RefsOf[r].start, RefsOf[r].head} \cap {Absent, Malformed} = {}
    /\ \A w \in ToSet(Files(r)) : ChangedFileVerdict(w) = "accepted"
    /\ \A i, k \in DOMAIN Files(r) :
        ChangedPathOf(Files(r)[i]) = ChangedPathOf(Files(r)[k]) => i = k
    /\ Len(Files(r)) <= MaxItems
    /\ PagesOf(Len(Files(r)), PerPage) <= MaxPages
    /\ MaxBlob >= 1

\* An acquisition of a readable revision that nothing disturbed, and that
\* failed nevertheless, has run out of polls, reads or time, mostly while
\* GitLab was preparing; and one that did not fail says partial only of files
\* that are not all there: one without its diff, blobs that are pointers or
\* more than the limits allow, or more files than GitLab lists.
FailsForCause ==
    (outcome # None /\ pushes = 0 /\ faults = 0 /\ Readable(1)) =>
        CASE outcome.kind = "Failed" -> outcome.failure \in {"Preparation", "Budget"}
          [] outcome.kind = "Partial" ->
                \/ \E f \in TrueFiles(1) : f.diff # "Available"
                \/ \E b \in TrueBlobs(1) : b.representation # "FileContent"
                \/ Cardinality(TrueBlobs(1)) > MaxBlobRequests
                \/ Cardinality(TrueBlobs(1)) > MaxBlobBytes
                \/ 1 \in Capped
          [] OTHER -> TRUE

\* A snapshot is handed out only while its head is the head of the merge
\* request (GitLabSnapshotController reads the merge request last and compares
\* all of it): a push in the middle is never reviewed as the old head.
HeadStillCurrent ==
    [][(outcome = None /\ outcome' # None /\ outcome'.kind # "Failed")
        => RefsOf[revision].head = outcome'.version.refs.head]_vars

\* Whatever the host answers, and however often, the acquisition ends.
AcquisitionEnds == <>(stage = "done")
=============================================================================
