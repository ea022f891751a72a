----------------------------- MODULE GitLabWire -----------------------------
(***************************************************************************)
(* The strict parser of GitLab responses (gitlab_wire.rs): which responses *)
(* it refuses, what it makes of the ones it accepts, and how pages are     *)
(* collected into one listing.                                             *)
(*                                                                         *)
(* A parse has a verdict, "accepted" or the error, and a value.  A field   *)
(* that does not parse (a bad SHA, path, ref or number) is Malformed, one  *)
(* that is not sent is Absent; strings stand for what they decode to.      *)
(***************************************************************************)
EXTENDS Integers, Sequences, FiniteSets, SequencesExt, SnapshotEvidence

CONSTANTS
    MaxPages,       \* GitLabWireLimits.max_pages
    MaxItems,       \* max_total_items
    MaxDiff,        \* max_diff_bytes
    MaxJson,        \* max_json_body_bytes
    MaxBlob,        \* max_blob_body_bytes
    MaxNotes,       \* max_notes_per_discussion
    Absent,
    Malformed

OneOrMore(n) == n # Malformed /\ n > 0

-----------------------------------------------------------------------------
(* Responses.                                                              *)

\* The header list: too many, a bad name or value, or one the parser looks at
\* sent twice.
HeaderError(r) ==
    CASE r.headers = "many" -> "TooManyHeaders"
      [] r.headers = "long name" -> "HeaderNameTooLong"
      [] r.headers = "long value" -> "HeaderValueTooLong"
      [] r.headers = "bad name" -> "InvalidHeaderName"
      [] r.headers = "bad value" -> "InvalidHeaderValue"
      [] r.headers = "twice" -> "DuplicateHeader"
      [] r.length = Malformed -> "InvalidHeaderNumber"
      [] r.length \notin {Absent, r.size} -> "ContentLengthMismatch"
      [] OTHER -> "accepted"

\* parse_json_response_with_status, up to the typed value.
JsonVerdict(r, status) ==
    CASE r.status # status -> "UnexpectedStatus"
      [] r.size = 0 -> "EmptyBody"
      [] r.size > MaxJson -> "BodyTooLarge"
      [] HeaderError(r) # "accepted" -> HeaderError(r)
      [] r.type \notin {Absent, "json"} -> "WrongContentType"
      [] r.text = "not utf8" -> "InvalidUtf8"
      [] r.text = Malformed -> "MalformedJson"
      [] OTHER -> "accepted"

\* parse_raw_blob_response: every header names the request the blob answers.
BlobVerdict(request, r) ==
    CASE r.status # 200 -> "UnexpectedStatus"
      [] r.size > MaxBlob -> "BodyTooLarge"
      [] HeaderError(r) # "accepted" -> HeaderError(r)
      [] r.blob = Absent \/ r.commit = Absent -> "BlobMetadataMissing"
      [] r.blob = Malformed -> "BlobMetadataMismatch"
      [] r.commit # request.commit_sha \/ r.ref # request.commit_sha ->
            "BlobMetadataMismatch"
      [] r.path # request.path \/ r.encoding # "base64" -> "BlobMetadataMismatch"
      [] r.declared # r.size -> "BlobSizeMismatch"
      [] r.digest # r.content -> "BlobDigestMismatch"
      [] r.mode \notin {"true", "false"} -> "BlobMetadataMismatch"
      [] OTHER -> "accepted"

Blob(request, r) ==
    [request |-> request, content |-> r.content, size |-> r.size,
     representation |-> IF r.pointer THEN "LfsPointer" ELSE "FileContent"]

-----------------------------------------------------------------------------
(* Values.                                                                 *)

\* changes_count and real_size: Absent, Malformed, or digits with an optional
\* plus sign.
CountVerdict(c) ==
    IF c = Malformed \/ (c # Absent /\ c.plus /\ c.digits = 0)
    THEN "InvalidChangedFileCount" ELSE "accepted"

Count(c) ==
    IF c = Absent THEN Unavailable
    ELSE IF c.plus THEN CappedAt(c.digits) ELSE Exact(c.digits)

RefsVerdict(refs) ==
    IF Malformed \in {refs.base, refs.start, refs.head} THEN "InvalidSha" ELSE "accepted"

\* validate_merge_request; the diff refs of a merge request that is still
\* being prepared are Absent, and those of a prepared one name its head.
MergeRequestVerdict(w) ==
    CASE w.state \notin {"opened", "closed", "merged", "locked"} ->
            "InvalidMergeRequestState"
      [] ~OneOrMore(w.id) \/ ~OneOrMore(w.iid) -> "InvalidIdentifier"
      [] w.project # w.target -> "InvalidIdentifier"
      [] w.head = Malformed -> "InvalidSha"
      [] Malformed \in {w.source_ref, w.target_ref} -> "InvalidRef"
      [] w.refs # Absent /\ RefsVerdict(w.refs) # "accepted" -> "InvalidSha"
      [] w.refs # Absent /\ w.refs.head # w.head -> "DiffRefsHeadMismatch"
      [] OTHER -> CountVerdict(w.changes)

MergeRequest(w) == [w EXCEPT !.changes = Count(w.changes)]

Version(w) ==
    LET count == Count(w.real_size)
    IN  [id |-> w.id, refs |-> w.refs, mr |-> w.mr, reported |-> count,
         state |-> IF count.kind = "CappedAt" THEN "Overflow"
                   ELSE CASE w.state = "collected" -> "Collected"
                          [] w.state = "overflow" -> "Overflow"
                          [] w.state = "without_files" -> "WithoutFiles"
                          [] OTHER -> "Unknown"]

ChangeKind(w) ==
    CASE w.new -> "Added"
      [] w.renamed -> "Renamed"
      [] w.deleted -> "Deleted"
      [] OTHER -> "Modified"

ChangedPathOf(w) == [old |-> w.old_path, new |-> w.new_path, kind |-> ChangeKind(w)]

\* validate_changed_file: w.diff is the length of the text and w.form what the
\* text is; collapsed and too_large are TRUE, FALSE or Absent.
ChangedFileVerdict(w) ==
    LET flags == {f \in {"new", "renamed", "deleted"} : w[f]}
        hidden == w.collapsed = TRUE \/ w.too_large = TRUE
    IN  CASE Cardinality(flags) > 1 -> "ContradictoryDiffFlags"
          [] w.collapsed = TRUE /\ w.too_large = TRUE -> "ContradictoryDiffFlags"
          [] Malformed \in {w.old_path, w.new_path} -> "InvalidPath"
          [] SemanticIssue(ChangedPathOf(w)) # None -> "InvalidChangedPath"
          [] w.diff > MaxDiff -> "DiffTooLarge"
          [] hidden /\ w.diff > 0 -> "ContradictoryDiffFlags"
          [] OTHER -> "accepted"

ChangedFile(w) ==
    [path |-> ChangedPathOf(w),
     diff |-> CASE w.too_large = TRUE -> "TooLarge"
                [] w.collapsed = TRUE -> "Collapsed"
                [] w.diff > 0 /\ w.form = "binary" -> "Binary"
                [] w.diff > 0 -> "Available"
                [] w.collapsed = Absent \/ w.too_large = Absent -> "Unknown"
                [] OTHER -> "Missing"]

\* parse_exact_diff_version_response, after its version and files are parsed.
ExactVersionVerdict(version, files) ==
    IF \/ Cardinality({f.path : f \in ToSet(files)}) # Len(files)
       \/ version.state = "WithoutFiles" /\ files # <<>>
       \/ version.reported.kind = "Exact" /\ version.reported.count < Len(files)
    THEN "InvalidExactVersion" ELSE "accepted"

\* validate_discussion: the position of a note keeps the side it is on.
DiscussionVerdict(d) ==
    CASE d.id = "" -> "InvalidDiscussion"
      [] Len(d.notes) \notin 1..MaxNotes -> "TooManyDiscussionNotes"
      [] \E n \in ToSet(d.notes) : n.id = 0 \/ n.author = 0 -> "DuplicateNoteId"
      [] ~IsInjective([i \in DOMAIN d.notes |-> d.notes[i].id]) -> "DuplicateNoteId"
      [] \E n \in ToSet(d.notes) : n.body = "too large" -> "NoteBodyTooLarge"
      [] \E n \in ToSet(d.notes) : n.body = "nul" -> "InvalidDiscussion"
      [] OTHER -> "accepted"

\* What the answer to a write must say for the write to count as confirmed.
CreatedDiscussionConfirmed(d, body, bot) ==
    /\ ~d.individual
    /\ Len(d.notes) = 1
    /\ ~d.notes[1].system
    /\ d.notes[1].type = "DiffNote"
    /\ DiscussionVerdict(d) = "accepted"
    /\ bot # 0 /\ d.notes[1].author = bot /\ d.notes[1].body = body

ResolutionConfirmed(d, id, note, bot, resolved) ==
    /\ d.id = id
    /\ ~d.individual
    /\ DiscussionVerdict(d) = "accepted"
    /\ \E n \in ToSet(d.notes) :
        n.id = note /\ n.author = bot /\ n.resolvable /\ n.resolved = resolved

-----------------------------------------------------------------------------
(* Pages.  A page record carries what the headers of one response say:     *)
(* echo and per (the page and page size it claims), prev, next and link    *)
(* (a page number, Terminal or Absent), total and pages, and its items.    *)

Terminal == 0

\* The items a listing of total items puts on a page, and the page after it.
ItemsOnPage(total, page, per) ==
    LET left == total - (page - 1) * per
    IN  IF left < 0 THEN 0 ELSE IF left < per THEN left ELSE per
PagesOf(total, per) == IF total = 0 THEN 1 ELSE (total + per - 1) \div per
NextOf(total, page, per) == IF page < PagesOf(total, per) THEN page + 1 ELSE Terminal

TotalsFit(total, pages, page, per, items) ==
    /\ pages = PagesOf(total, per)
    /\ page <= pages
    /\ items = ItemsOnPage(total, page, per)

EchoVerdict(r, page, per) ==
    CASE r.echo \notin {Absent, page} -> "PaginationPageMismatch"
      [] r.per \notin {Absent, per} -> "PaginationPerPageMismatch"
      [] r.prev \notin {Absent, IF page = 1 THEN Terminal ELSE page - 1} ->
            "PaginationPreviousMismatch"
      [] OTHER -> "accepted"

\* x-next-page and the link header, which must agree when both are there.
NextSignal(r) == IF r.next = Absent THEN r.link ELSE r.next

\* The page that follows: from the totals when they are sent, otherwise from
\* the signals, otherwise a short page is the last one.
NextPage(r, page, per) ==
    CASE r.total # Absent -> NextOf(r.total, page, per)
      [] NextSignal(r) # Absent -> NextSignal(r)
      [] OTHER -> Terminal

\* Mutant: a full page is ambiguous even if a signal names the next one.
PageVerdictIgnoresSignal(r, page, per) ==
    IF r.total = Absent /\ Len(r.items) = per THEN "PaginationAmbiguousContinuation"
    ELSE IF r.total # Absent /\ ~TotalsFit(r.total, r.pages, page, per, Len(r.items))
    THEN "PaginationTotalMismatch" ELSE "accepted"

\* parse_pagination.
PageVerdict(r, page, per) ==
    LET items == Len(r.items)
        next == NextPage(r, page, per)
    IN  CASE EchoVerdict(r, page, per) # "accepted" -> EchoVerdict(r, page, per)
          [] (r.total = Absent) # (r.pages = Absent) -> "PaginationTotalMismatch"
          [] items > per -> "TooManyPageItems"
          [] r.next # Absent /\ r.link # Absent /\ r.next # r.link ->
                "PaginationNextMismatch"
          [] r.total # Absent /\ ~TotalsFit(r.total, r.pages, page, per, items) ->
                "PaginationTotalMismatch"
          [] r.total # Absent /\ NextSignal(r) \notin {Absent, next} ->
                "PaginationNextMismatch"
          [] r.total = Absent /\ NextSignal(r) = Absent /\ items = per ->
                "PaginationAmbiguousContinuation"
          [] next # Terminal /\ next <= page -> "PaginationCycle"
          [] next # Terminal /\ next # page + 1 -> "PaginationGap"
          [] next # Terminal /\ items = 0 -> "PaginationNextMismatch"
          [] OTHER -> "accepted"

Page(r, page, per) ==
    [number |-> page, per |-> per, items |-> r.items, total |-> r.total,
     pages |-> r.pages, next |-> NextPage(r, page, per)]

\* collect_complete_pages over the pages that were read.
CollectVerdict(pages) ==
    LET last == pages[Len(pages)]
        items == FlattenSeq([i \in DOMAIN pages |-> pages[i].items])
    IN  CASE pages = <<>> -> "PaginationContinuationMissing"
          [] Len(pages) > MaxPages -> "TooManyPages"
          [] \E i \in DOMAIN pages : pages[i].number < i -> "PaginationCycle"
          [] \E i \in DOMAIN pages : pages[i].number > i -> "PaginationGap"
          [] \E i \in DOMAIN pages : i > 1 /\ pages[i - 1].next # i ->
                "PaginationAfterTerminal"
          [] \E i \in DOMAIN pages :
                \/ pages[i].per # pages[1].per
                \/ pages[i].total # pages[1].total
                \/ pages[i].pages # pages[1].pages -> "PaginationTotalMismatch"
          [] Len(items) > MaxItems -> "TooManyTotalItems"
          [] last.next # Terminal -> "PaginationContinuationMissing"
          [] pages[1].total \notin {Absent, Len(items)} -> "PaginationTotalMismatch"
          [] OTHER -> "accepted"

\* The listing with its receipts, the input of SnapshotEvidence's Completeness.
Listing(pages) ==
    [items |-> FlattenSeq([i \in DOMAIN pages |-> pages[i].items]),
     pages |-> [i \in DOMAIN pages |->
        [number |-> i, items |-> Len(pages[i].items),
         more |-> pages[i].next # Terminal]]]

=============================================================================
