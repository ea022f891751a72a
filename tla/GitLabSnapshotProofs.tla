------------------------ MODULE GitLabSnapshotProofs ------------------------
(***************************************************************************)
(* For any revisions, limits and faults: a snapshot is of the head that    *)
(* the merge request has when it is handed out, and it holds what it says. *)
(*                                                                         *)
(* The head is read last and compared with the first answer; the version   *)
(* was bound to the refs of that answer; and an answer that shows refs of  *)
(* another head than its own is refused.  What has to be shown is that the *)
(* stages between carry both the answer and the version along (IInv).      *)
(*                                                                         *)
(* What it holds follows the version: listed among those the host has      *)
(* (PagesOK, ListedOK), its files those of its revision (FilesOK), and its *)
(* blobs acquired, kept and told of request by request (Kept).             *)
(*                                                                         *)
(* When nothing disturbs it (Calm), no check refuses an answer, the pages  *)
(* of a listing join to the whole of it (Paged), and the version, the      *)
(* current files and the blobs leave no gap that the host did not make     *)
(* (FiledCalm, SettledCalm): a failure is for want of polls, reads or      *)
(* time, a partial snapshot for something that is not there to be had.     *)
(***************************************************************************)
EXTENDS GitLabSnapshot, SharedLemmas

Bound == {"ExactDiffVersion", "CurrentDiffs", "RawBlob", "FinalMergeRequest"}

\* From the first prepared answer on there are refs to compare with.
PreparedOK == stage \notin {"InitialMergeRequest", "done"} => got.mr.refs # Absent

\* The version of a bound snapshot is the one of those refs.
BoundOK ==
    stage \in Bound =>
        /\ {"mr", "version"} \subseteq DOMAIN got
        /\ got.version.refs = got.mr.refs

IInv == PreparedOK /\ BoundOK

\* The step of HeadStillCurrent.
HeadCurrent ==
    (outcome = None /\ outcome' # None /\ outcome'.kind # "Failed")
        => RefsOf[revision].head = outcome'.version.refs.head

-----------------------------------------------------------------------------
(* Lemmas.                                                                 *)

\* The parser refuses an answer whose refs are of another head.
LEMMA AcceptedHead ==
    ASSUME NEW w, MergeRequestVerdict(w) = "accepted", w.refs # Absent
    PROVE  w.refs.head = w.head
BY DEF MergeRequestVerdict

\* The refs and the head that an answer shows.
LEMMA AnsweredFields ==
    /\ Answered.refs = refs
    /\ Answered.head = RefsOf[revision].head
    /\ MergeRequest(Answered).refs = refs
BY DEF Answered, MergeRequest

\* An end that hands out nothing.
LEMMA FailKeeps ==
    ASSUME NEW kind, NEW why, Fail(kind, why)
    PROVE  IInv' /\ HeadCurrent
BY DEF Fail, IInv, PreparedOK, BoundOK, Bound, HeadCurrent

\* A step that stays at its stage, or goes to one of the same kind, with what
\* it has.
LEMMA CarriesKeeps ==
    ASSUME IInv, got' = got, outcome' = outcome,
           stage' \in {"InitialMergeRequest", "done"} \/ stage \notin {"InitialMergeRequest", "done"},
           stage' \in Bound => stage \in Bound
    PROVE  IInv' /\ HeadCurrent
BY DEF IInv, PreparedOK, BoundOK, Bound, HeadCurrent

\* A blob is settled, fetched or not.
LEMMA BlobKeeps ==
    ASSUME IInv, stage = "RawBlob", stage' = stage, outcome' = outcome,
           DOMAIN got' = DOMAIN got, got'.mr = got.mr, got'.version = got.version
    PROVE  IInv' /\ HeadCurrent
BY DEF IInv, PreparedOK, BoundOK, Bound, HeadCurrent

\* One more page, or the failure of a listing.
LEMMA ReadPageKeeps ==
    ASSUME IInv, NEW items, ReadPage(items)
    PROVE  IInv' /\ HeadCurrent
  <1>1. \/ \E why : Ends("Wire", why)
        \/ Goes(stage) /\ UNCHANGED got
    BY DEF ReadPage
  <1>2. CASE \E why : Ends("Wire", why)
    BY <1>2, FailKeeps DEF Ends
  <1>3. CASE Goes(stage) /\ UNCHANGED got
    BY <1>3, CarriesKeeps DEF Goes
  <1> QED BY <1>1, <1>2, <1>3

\* A wait before the next poll.
LEMMA WaitKeeps ==
    ASSUME IInv, NEW next, GoesAfterWait(next),
           \/ next = "InitialMergeRequest"
           \/ next = "RefreshedMergeRequest" /\ stage = "DiffVersions"
    PROVE  IInv' /\ HeadCurrent
  <1>1. \/ stage' = next /\ UNCHANGED <<outcome, got>>
        \/ Fail("Budget", "Deadline")
    BY DEF GoesAfterWait
  <1> QED BY <1>1, FailKeeps, CarriesKeeps DEF Bound

\* No blocker means that the newest version is of the refs that were shown.
LEMMA UnblockedRefs ==
    ASSUME NEW shown, NEW bound, BindingBlockers(shown, bound) = {}
    PROVE  Head(bound.items).refs = shown
BY DEF BindingBlockers, If

LEMMA BindKeeps ==
    ASSUME IInv, stage = "DiffVersions", NEW listing, "items" \in DOMAIN listing, Bind(listing)
    PROVE  IInv' /\ HeadCurrent
  <1> DEFINE items == [i \in DOMAIN listing.items |-> Version(listing.items[i])]
             bound == [listing EXCEPT !.items = items]
             blockers == BindingBlockers(got.mr.refs, bound)
  <1>1. \/ \E kind, why : Ends(kind, why)
        \/ GoesAfterWait("RefreshedMergeRequest")
        \/ /\ blockers = {}
           /\ Goes("ExactDiffVersion")
           /\ got' = [mr |-> got.mr, context |-> got.context, version |-> Head(items)]
    BY DEF Bind
  <1>2. CASE \E kind, why : Ends(kind, why)
    BY <1>2, FailKeeps DEF Ends
  <1>3. CASE GoesAfterWait("RefreshedMergeRequest")
    BY <1>3, WaitKeeps
  <1>4. CASE /\ blockers = {}
             /\ Goes("ExactDiffVersion")
             /\ got' = [mr |-> got.mr, context |-> got.context, version |-> Head(items)]
    <2>1. Head(bound.items).refs = got.mr.refs
      BY <1>4, UnblockedRefs
    <2>2. bound.items = items
      OBVIOUS
    <2> HIDE DEF items, bound
    <2> QED BY <1>4, <2>1, <2>2 DEF IInv, PreparedOK, BoundOK, Bound, HeadCurrent, Goes
  <1> QED BY <1>1, <1>2, <1>3, <1>4

-----------------------------------------------------------------------------
(* The steps.                                                              *)

LEMMA InitOK == Init => IInv
BY DEF Init, IInv, PreparedOK, BoundOK, Bound

LEMMA HostKeeps == IInv /\ HostStep => IInv' /\ HeadCurrent
BY CarriesKeeps DEF HostStep, Push, PublishRefs, PublishVersion, DropFiles

LEMMA ReadFailsKeeps == IInv /\ ReadFails => IInv' /\ HeadCurrent
  <1> SUFFICES ASSUME IInv, ReadFails PROVE IInv' /\ HeadCurrent
    OBVIOUS
  <1>1. \/ stage' = stage /\ UNCHANGED <<got, outcome>> /\ stage # "done"
        \/ \E kind, why : Fail(kind, why)
        \/ /\ stage = "RawBlob" /\ stage' = stage /\ outcome' = outcome
           /\ \E blobs, todo : got' = [got EXCEPT !.blobs = blobs, !.todo = todo]
    BY DEF ReadFails, Started, Pending
  <1>2. CASE stage' = stage /\ UNCHANGED <<got, outcome>> /\ stage # "done"
    BY <1>2, CarriesKeeps
  <1>3. CASE \E kind, why : Fail(kind, why)
    BY <1>3, FailKeeps
  <1>4. CASE /\ stage = "RawBlob" /\ stage' = stage /\ outcome' = outcome
             /\ \E blobs, todo : got' = [got EXCEPT !.blobs = blobs, !.todo = todo]
    <2>1. {"mr", "version"} \subseteq DOMAIN got
      BY <1>4 DEF IInv, BoundOK, Bound
    <2>2. DOMAIN got' = DOMAIN got /\ got'.mr = got.mr /\ got'.version = got.version
      BY <1>4, <2>1
    <2> QED BY <1>4, <2>2, BlobKeeps
  <1> QED BY <1>1, <1>2, <1>3, <1>4

LEMMA InitialKeeps == IInv /\ InitialMergeRequest => IInv' /\ HeadCurrent
  <1> SUFFICES ASSUME IInv, InitialMergeRequest PROVE IInv' /\ HeadCurrent
    OBVIOUS
  <1>1. \/ \E kind, why : Ends(kind, why)
        \/ GoesAfterWait("InitialMergeRequest")
        \/ /\ refs # Absent
           /\ Goes("TargetProject")
           /\ got' = [mr |-> MergeRequest(Answered)]
    BY DEF InitialMergeRequest
  <1>2. CASE \E kind, why : Ends(kind, why)
    BY <1>2, FailKeeps DEF Ends
  <1>3. CASE GoesAfterWait("InitialMergeRequest")
    BY <1>3, WaitKeeps
  <1>4. CASE /\ refs # Absent
             /\ Goes("TargetProject")
             /\ got' = [mr |-> MergeRequest(Answered)]
    BY <1>4, AnsweredFields DEF IInv, PreparedOK, BoundOK, Bound, HeadCurrent, Goes
  <1> QED BY <1>1, <1>2, <1>3, <1>4

LEMMA TargetKeeps == IInv /\ TargetProject => IInv' /\ HeadCurrent
BY CarriesKeeps DEF TargetProject, Goes, Bound

LEMMA SourceKeeps == IInv /\ SourceProject => IInv' /\ HeadCurrent
  <1> SUFFICES ASSUME IInv, SourceProject PROVE IInv' /\ HeadCurrent
    OBVIOUS
  <1>1. \/ \E kind, why : Ends(kind, why)
        \/ /\ stage = "SourceProject"
           /\ Goes("DiffVersions")
           /\ got'.mr = got.mr
    BY DEF SourceProject
  <1>2. CASE \E kind, why : Ends(kind, why)
    BY <1>2, FailKeeps DEF Ends
  <1>3. CASE /\ stage = "SourceProject"
             /\ Goes("DiffVersions")
             /\ got'.mr = got.mr
    BY <1>3 DEF IInv, PreparedOK, BoundOK, Bound, HeadCurrent, Goes
  <1> QED BY <1>1, <1>2, <1>3

LEMMA VersionsKeeps == IInv /\ DiffVersions => IInv' /\ HeadCurrent
  <1> SUFFICES ASSUME IInv, DiffVersions PROVE IInv' /\ HeadCurrent
    OBVIOUS
  <1>1. stage = "DiffVersions" /\ \E items : ReadPage(items) \/ Bind(Listing(PagesRead(items)))
    BY DEF DiffVersions
  <1>2. ASSUME NEW read PROVE "items" \in DOMAIN Listing(read)
    BY DEF Listing
  <1> QED BY <1>1, <1>2, ReadPageKeeps, BindKeeps

LEMMA RefreshedKeeps == IInv /\ RefreshedMergeRequest => IInv' /\ HeadCurrent
  <1> SUFFICES ASSUME IInv, RefreshedMergeRequest PROVE IInv' /\ HeadCurrent
    OBVIOUS
  <1>1. \/ \E kind, why : Ends(kind, why)
        \/ stage = "RefreshedMergeRequest" /\ Goes("DiffVersions") /\ UNCHANGED got
    BY DEF RefreshedMergeRequest
  <1>2. CASE \E kind, why : Ends(kind, why)
    BY <1>2, FailKeeps DEF Ends
  <1>3. CASE stage = "RefreshedMergeRequest" /\ Goes("DiffVersions") /\ UNCHANGED got
    BY <1>3, CarriesKeeps DEF Goes, Bound
  <1> QED BY <1>1, <1>2, <1>3

\* The exact version replaces the listed one only when its refs are the same.
LEMMA ExactKeeps == IInv /\ ExactDiffVersion => IInv' /\ HeadCurrent
  <1> SUFFICES ASSUME IInv, ExactDiffVersion PROVE IInv' /\ HeadCurrent
    OBVIOUS
  <1> DEFINE shown == CHOOSE v \in ToSet(versions) : v.id = got.version.id
             version == Version(VersionAnswer(shown))
  <1>1. \/ \E kind, why : Ends(kind, why)
        \/ /\ stage = "ExactDiffVersion"
           /\ <<version.id, version.refs>> = <<got.version.id, got.version.refs>>
           /\ Goes("CurrentDiffs")
           /\ \E reported, files :
                got' = [mr |-> got.mr, context |-> got.context, version |-> version,
                        reported |-> reported, files |-> files]
    BY DEF ExactDiffVersion
  <1>2. CASE \E kind, why : Ends(kind, why)
    BY <1>2, FailKeeps DEF Ends
  <1>3. CASE /\ stage = "ExactDiffVersion"
             /\ <<version.id, version.refs>> = <<got.version.id, got.version.refs>>
             /\ Goes("CurrentDiffs")
             /\ \E reported, files :
                  got' = [mr |-> got.mr, context |-> got.context, version |-> version,
                          reported |-> reported, files |-> files]
    <2> HIDE DEF version
    <2> QED BY <1>3 DEF IInv, PreparedOK, BoundOK, Bound, HeadCurrent, Goes
  <1> QED BY <1>1, <1>2, <1>3

LEMMA CurrentKeeps == IInv /\ CurrentDiffs => IInv' /\ HeadCurrent
  <1> SUFFICES ASSUME IInv, CurrentDiffs PROVE IInv' /\ HeadCurrent
    OBVIOUS
  <1>1. stage = "CurrentDiffs" /\ \E items : ReadPage(items) \/ Current(Listing(PagesRead(items)))
    BY DEF CurrentDiffs
  <1>2. ASSUME NEW listing, Current(listing)
        PROVE  /\ Goes("FinalMergeRequest") \/ Goes("RawBlob")
               /\ {"mr", "version"} \subseteq DOMAIN got'
               /\ got'.mr = got.mr
               /\ got'.version = got.version
    BY <1>2 DEF Current
  <1>3. ASSUME NEW listing, Current(listing) PROVE IInv' /\ HeadCurrent
    BY <1>1, <1>2, <1>3 DEF IInv, PreparedOK, BoundOK, Bound, HeadCurrent, Goes
  <1> QED BY <1>1, <1>3, ReadPageKeeps

LEMMA BlobsKeeps == IInv /\ (SkipBlob \/ RawBlob \/ BlobsRead) => IInv' /\ HeadCurrent
  <1> SUFFICES ASSUME IInv, SkipBlob \/ RawBlob \/ BlobsRead PROVE IInv' /\ HeadCurrent
    OBVIOUS
  <1>1. stage = "RawBlob"
    BY DEF SkipBlob, RawBlob, BlobsRead
  <1>2. CASE BlobsRead
    BY <1>1, <1>2, CarriesKeeps DEF BlobsRead, Bound
  <1>3. CASE \E kind, why : Ends(kind, why)
    BY <1>3, FailKeeps DEF Ends
  <1>4. CASE /\ stage' = stage /\ outcome' = outcome
             /\ DOMAIN got' = DOMAIN got /\ got'.mr = got.mr /\ got'.version = got.version
    BY <1>1, <1>4, BlobKeeps
  <1>5. {"mr", "version"} \subseteq DOMAIN got
    BY <1>1 DEF IInv, BoundOK, Bound
  <1>6. ASSUME NEW request, Unfetched(request)
        PROVE  DOMAIN got' = DOMAIN got /\ got'.mr = got.mr /\ got'.version = got.version
    BY <1>5, <1>6 DEF Unfetched
  <1>7. CASE SkipBlob
    BY <1>4, <1>6, <1>7 DEF SkipBlob
  <1>8. CASE RawBlob
    <2> DEFINE request == Head(got.todo)
               answer == BlobAnswer(request)
               blob == Blob(request, answer)
    <2>1. CASE BlobVerdict(request, answer) # "accepted"
      BY <1>3, <1>8, <2>1 DEF RawBlob
    <2>2. CASE BlobVerdict(request, answer) = "accepted"
      <3>1. /\ stage' = stage /\ outcome' = outcome
            /\ \/ Unfetched(request)
               \/ got' = [got EXCEPT !.retained = Append(@, blob),
                          !.blobs = Append(@, [request |-> request, size |-> blob.size,
                                               outcome |-> blob.representation]),
                          !.todo = Tail(@)]
        BY <1>1, <1>8, <2>2 DEF RawBlob, Goes
      <3> HIDE DEF request, answer, blob
      <3> QED BY <1>4, <1>5, <1>6, <3>1
    <2> QED BY <2>1, <2>2
  <1> QED BY <1>2, <1>7, <1>8

\* The last answer is the first one, so its refs are those of the version; and
\* it was accepted, so they are of its head.
LEMMA FinalKeeps == IInv /\ FinalMergeRequest => IInv' /\ HeadCurrent
  <1> SUFFICES ASSUME IInv, FinalMergeRequest PROVE IInv' /\ HeadCurrent
    OBVIOUS
  <1>1. \/ \E kind, why : Ends(kind, why)
        \/ /\ stage = "FinalMergeRequest"
           /\ MergeRequestVerdict(Answered) = "accepted"
           /\ MergeRequest(Answered) = got.mr
           /\ stage' = "done"
           /\ outcome' = Snapshot
    BY DEF FinalMergeRequest
  <1>2. CASE \E kind, why : Ends(kind, why)
    BY <1>2, FailKeeps DEF Ends
  <1>3. CASE /\ stage = "FinalMergeRequest"
             /\ MergeRequestVerdict(Answered) = "accepted"
             /\ MergeRequest(Answered) = got.mr
             /\ stage' = "done"
             /\ outcome' = Snapshot
    <2>1. got.mr.refs = refs /\ refs # Absent /\ got.version.refs = got.mr.refs
      BY <1>3, AnsweredFields DEF IInv, PreparedOK, BoundOK, Bound
    <2>2. refs.head = RefsOf[revision].head
      BY <1>3, <2>1, AcceptedHead, AnsweredFields
    <2>3. outcome'.version = got.version
      BY <1>3 DEF Snapshot
    <2> QED BY <1>3, <2>1, <2>2, <2>3 DEF IInv, PreparedOK, BoundOK, Bound, HeadCurrent
  <1> QED BY <1>1, <1>2, <1>3

LEMMA StepOK == IInv /\ [Next]_vars => IInv' /\ [HeadCurrent]_vars
  <1> SUFFICES ASSUME IInv, [Next]_vars PROVE IInv' /\ (HeadCurrent \/ UNCHANGED vars)
    OBVIOUS
  <1>1. CASE HostStep
    BY <1>1, HostKeeps
  <1>2. CASE OutOfBudget \/ DeadlinePasses \/ Garbled
    BY <1>2, FailKeeps DEF OutOfBudget, DeadlinePasses, Garbled
  <1>3. CASE ReadFails
    BY <1>3, ReadFailsKeeps
  <1>4. CASE InitialMergeRequest \/ TargetProject \/ SourceProject
    BY <1>4, InitialKeeps, TargetKeeps, SourceKeeps
  <1>5. CASE DiffVersions \/ RefreshedMergeRequest \/ ExactDiffVersion \/ CurrentDiffs
    BY <1>5, VersionsKeeps, RefreshedKeeps, ExactKeeps, CurrentKeeps
  <1>6. CASE SkipBlob \/ RawBlob \/ BlobsRead
    BY <1>6, BlobsKeeps
  <1>7. CASE FinalMergeRequest
    BY <1>7, FinalKeeps
  <1>8. CASE UNCHANGED vars
    BY <1>8 DEF vars, host, IInv, PreparedOK, BoundOK, Bound
  <1> QED
    BY <1>1, <1>2, <1>3, <1>4, <1>5, <1>6, <1>7, <1>8 DEF Next, Controller, Ended

-----------------------------------------------------------------------------
(* The head.                                                               *)

\* Whatever is pushed, prepared late, dropped, garbled or lost while the
\* acquisition runs, a snapshot is handed out only while its head is the head
\* of the merge request: the comparison with the first answer is enough.
THEOREM HeadAlwaysCurrent == Spec => HeadStillCurrent
  <1>1. IInv /\ [Next]_vars => [HeadCurrent]_vars
    BY StepOK
  <1>2. IInv /\ [Next]_vars => IInv'
    BY StepOK
  <1>3. Spec => [][HeadCurrent]_vars
    BY InitOK, <1>1, <1>2, PTL DEF Spec
  <1> QED BY <1>3 DEF HeadStillCurrent, HeadCurrent

-----------------------------------------------------------------------------
(* Files in the order of their paths.                                      *)

\* The kinds a path may have.
Kind == {"Modified", "Renamed", "Added", "Deleted"}

LEMMA KindOrderTotal ==
    /\ \A k \in Kind : KindOrder[k] \in Nat
    /\ \A k, l \in Kind : k # l => KindOrder[k] < KindOrder[l] \/ KindOrder[l] < KindOrder[k]
BY DEF Kind, KindOrder

\* The order is total on files of different paths.
LEMMA PathOrderStrict ==
    ASSUME NEW f, NEW g, NEW h,
           f.path \in [old : Nat, new : Nat, kind : Kind],
           g.path \in [old : Nat, new : Nat, kind : Kind],
           h.path \in [old : Nat, new : Nat, kind : Kind]
    PROVE  /\ ~ PathOrder(f, f)
           /\ PathOrder(f, g) /\ PathOrder(g, h) => PathOrder(f, h)
           /\ f.path # g.path => PathOrder(f, g) \/ PathOrder(g, f)
  <1>1. /\ f.path.old \in Nat /\ g.path.old \in Nat /\ h.path.old \in Nat
        /\ f.path.new \in Nat /\ g.path.new \in Nat /\ h.path.new \in Nat
        /\ f.path.kind \in Kind /\ g.path.kind \in Kind /\ h.path.kind \in Kind
    OBVIOUS
  <1>2. PICK i, j, k \in Nat : /\ i = KindOrder[f.path.kind]
                               /\ j = KindOrder[g.path.kind]
                               /\ k = KindOrder[h.path.kind]
    BY <1>1, KindOrderTotal
  <1>3. f.path # g.path =>
            \/ f.path.old # g.path.old
            \/ f.path.new # g.path.new
            \/ f.path.kind # g.path.kind
    OBVIOUS
  <1>4. f.path.kind # g.path.kind => i < j \/ j < i
    BY <1>1, <1>2, KindOrderTotal
  <1>5. ~ PathOrder(f, f)
    BY <1>1, <1>2 DEF PathOrder
  <1>6. PathOrder(f, g) /\ PathOrder(g, h) => PathOrder(f, h)
    BY <1>1, <1>2 DEF PathOrder
  <1>7. f.path # g.path => PathOrder(f, g) \/ PathOrder(g, f)
    BY <1>1, <1>2, <1>3, <1>4 DEF PathOrder
  <1> QED BY <1>5, <1>6, <1>7

\* Files of different paths can be put in order: each at the number of those
\* before it.
LEMMA SortExists ==
    ASSUME NEW n \in Nat, NEW files, DOMAIN files = 1..n, IsInjective(files),
           \A f \in ToSet(files) : f.path \in [old : Nat, new : Nat, kind : Kind],
           \A f, g \in ToSet(files) : f # g => f.path # g.path
    PROVE  \E s \in [1..n -> ToSet(files)] :
                \A i, k \in 1..n : i < k => PathOrder(s[i], s[k])
  <1> DEFINE F == ToSet(files)
             Below(f) == {g \in F : PathOrder(g, f)}
             rank == [f \in F |-> Cardinality(Below(f))]
  <1>1. IsFiniteSet(F) /\ Cardinality(F) = n
    BY DistinctCount
  <1>2. \A f, g, h \in F :
            /\ ~ PathOrder(f, f)
            /\ PathOrder(f, g) /\ PathOrder(g, h) => PathOrder(f, h)
            /\ f # g => PathOrder(f, g) \/ PathOrder(g, f)
    BY PathOrderStrict
  <1> HIDE DEF F
  <1>3. ASSUME NEW f \in F
        PROVE  IsFiniteSet(Below(f)) /\ Cardinality(Below(f)) \in 0..(n - 1)
    <2>1. Below(f) \in SUBSET F /\ f \notin Below(f)
      BY <1>2
    <2>2. IsFiniteSet(Below(f)) /\ Cardinality(Below(f)) <= n /\ Cardinality(Below(f)) # n
      <3> HIDE DEF Below
      <3> QED BY <1>1, <2>1, FS_Subset
    <2>3. Cardinality(Below(f)) \in Nat
      BY <2>2, FS_CardinalityType
    <2> QED BY <2>2, <2>3
  <1>4. ASSUME NEW f \in F, NEW g \in F, PathOrder(f, g)
        PROVE  rank[f] < rank[g]
    <2>1. Below(f) \in SUBSET Below(g) /\ f \in Below(g) /\ f \notin Below(f)
      BY <1>2, <1>4
    <2>2. Cardinality(Below(f)) <= Cardinality(Below(g)) /\ Cardinality(Below(f)) # Cardinality(Below(g))
      <3>1. IsFiniteSet(Below(g))
        BY <1>3
      <3> HIDE DEF Below
      <3> QED BY <2>1, <3>1, FS_Subset
    <2>3. Cardinality(Below(f)) \in Int /\ Cardinality(Below(g)) \in Int
      <3> HIDE DEF Below
      <3>1. Cardinality(Below(f)) \in 0..(n - 1) /\ Cardinality(Below(g)) \in 0..(n - 1)
        BY <1>3
      <3> QED BY <3>1
    <2> QED BY <2>2, <2>3
  <1>5. rank \in [F -> 0..(n - 1)]
    BY <1>3
  <1> HIDE DEF rank
  <1>6. rank \in Injection(F, 0..(n - 1))
    <2>1. \A f, g \in F : rank[f] = rank[g] => f = g
      <3> SUFFICES ASSUME NEW f \in F, NEW g \in F, rank[f] = rank[g], f # g PROVE FALSE
        OBVIOUS
      <3>1. rank[f] < rank[g] \/ rank[g] < rank[f]
        BY <1>2, <1>4
      <3>2. rank[f] \in Int /\ rank[g] \in Int
        BY <1>5
      <3> QED BY <3>1, <3>2
    <2> QED BY <1>5, <2>1 DEF Injection, IsInjective
  <1>7. rank \in Surjection(F, 0..(n - 1))
    <2>1. IsFiniteSet(0..(n - 1)) /\ Cardinality(0..(n - 1)) = n
      <3>1. 0 \in Int /\ n - 1 \in Int
        OBVIOUS
      <3>2. Cardinality(0..(n - 1)) = IF 0 > n - 1 THEN 0 ELSE n - 1 - 0 + 1
        BY <3>1, FS_Interval
      <3> QED BY <3>1, <3>2, FS_Interval
    <2> QED BY <1>1, <1>6, <2>1, FS_Injection
  <1> DEFINE s == [i \in 1..n |-> CHOOSE f \in F : rank[f] = i - 1]
  <1>8. ASSUME NEW i \in 1..n PROVE s[i] \in F /\ rank[s[i]] = i - 1
    <2>1. i - 1 \in 0..(n - 1)
      OBVIOUS
    <2>2. \E f \in F : rank[f] = i - 1
      BY <1>7, <2>1 DEF Surjection
    <2> QED BY <2>2
  <1>9. ASSUME NEW i \in 1..n, NEW k \in 1..n, i < k PROVE PathOrder(s[i], s[k])
    <2>1. s[i] \in F /\ s[k] \in F /\ rank[s[i]] = i - 1 /\ rank[s[k]] = k - 1
      BY <1>8
    <2> HIDE DEF s
    <2>2. s[i] # s[k]
      BY <1>9, <2>1
    <2>3. ~ (rank[s[k]] < rank[s[i]])
      BY <1>9, <2>1
    <2> QED BY <1>2, <1>4, <2>1, <2>2, <2>3
  <1>10. s \in [1..n -> F]
    BY <1>8
  <1> QED BY <1>9, <1>10 DEF F

\* Sorted lists what it is given.
LEMMA SortedLists ==
    ASSUME NEW n \in Nat, NEW files, DOMAIN files = 1..n, IsInjective(files),
           \A f \in ToSet(files) : f.path \in [old : Nat, new : Nat, kind : Kind],
           \A f, g \in ToSet(files) : f # g => f.path # g.path
    PROVE  ToSet(Sorted(files)) = ToSet(files) /\ Len(Sorted(files)) = n
  <1> DEFINE F == ToSet(files)
             s == Sorted(files)
  <1>1. IsFiniteSet(F) /\ Cardinality(F) = n
    BY DistinctCount
  <1>2. \E t \in [DOMAIN files -> F] : \A i, k \in DOMAIN t : i < k => PathOrder(t[i], t[k])
    <2>1. PICK t \in [1..n -> F] : \A i, k \in 1..n : i < k => PathOrder(t[i], t[k])
      BY SortExists
    <2>2. DOMAIN t = 1..n
      OBVIOUS
    <2> QED BY <2>1, <2>2
  <1>3. s \in [1..n -> F] /\ \A i, k \in DOMAIN s : i < k => PathOrder(s[i], s[k])
    BY <1>2 DEF Sorted
  <1>4. \A f \in F : ~ PathOrder(f, f)
    BY PathOrderStrict
  <1> HIDE DEF F, s
  <1>5. IsInjective(s)
    <2> SUFFICES ASSUME NEW i \in 1..n, NEW k \in 1..n, s[i] = s[k], i # k PROVE FALSE
      BY <1>3 DEF IsInjective
    <2>1. i < k \/ k < i
      OBVIOUS
    <2> QED BY <1>3, <1>4, <2>1
  <1>6. s \in Injection(1..n, F)
    BY <1>3, <1>5 DEF Injection
  <1>7. IsFiniteSet(1..n) /\ Cardinality(1..n) = n
    BY FS_Interval
  <1>8. s \in Surjection(1..n, F)
    BY <1>1, <1>6, <1>7, FS_Injection
  <1>9. ToSet(s) = F
    BY <1>3, <1>8 DEF ToSet, Surjection
  <1>10. Len(s) = n
    BY <1>3
  <1> QED BY <1>9, <1>10 DEF F, s

-----------------------------------------------------------------------------
(* What a snapshot holds: the invariant.                                   *)

Verified == Bound \cup {"DiffVersions", "RefreshedMergeRequest"}
Filed == Bound \ {"ExactDiffVersion"}
Settling == {"RawBlob", "FinalMergeRequest"}

Stored == [id : Nat, revision : Revision, state : {"collected", "without_files"}]

\* The versions are numbered in the order they were made, newest first.
VersionsOK ==
    /\ revision \in Revision
    /\ versions \in Seq(Stored)
    /\ \A i \in DOMAIN versions : versions[i].id = Len(versions) + 1 - i

\* What a listing of the versions may show: an id that is taken.
Listable ==
    {VersionAnswer(v) :
        v \in [id : 1..Len(versions), revision : Revision, state : {"collected", "without_files"}]}

PagesOK ==
    stage # "CurrentDiffs" =>
        /\ pages \in Seq(ToSet(pages))
        /\ \A p \in ToSet(pages) : p.items \in Seq(Listable)

\* The first answer names the head of its refs, and the context is of it.
ContextOK ==
    /\ stage \notin {"InitialMergeRequest", "done"} => got.mr.refs.head = got.mr.head
    /\ stage \in Verified =>
        /\ {"mr", "context"} \subseteq DOMAIN got
        /\ got.context.head = got.mr.head

\* The version that was bound is one the host has.
ListedOK == stage \in Bound => got.version.id \in 1..Len(versions)

Whole(version) == version.state \notin {"WithoutFiles", "Overflow"}

\* The files are those of the version's revision, and all of them unless the
\* state of the version says otherwise.
FilesOK ==
    stage \in Filed =>
        /\ {"mr", "context", "version", "reported", "files"} \subseteq DOMAIN got
        /\ \E r \in Revision :
            /\ got.version.refs = RefsOf[r]
            /\ IsFiniteSet(ToSet(got.files))
            /\ ToSet(got.files) \subseteq TrueFiles(r)
            /\ Whole(got.version) => ToSet(got.files) = TrueFiles(r) /\ r \notin Capped

WantedOf(files, shown) == UNION {ExpectedBlobs(f.path, shown) : f \in ToSet(files)}
Wanted == WantedOf(got.files, got.version.refs)

TrueBlob(request) == Blob(request, BlobAnswer(request))

\* What was acquired of the blobs and what is kept agree, request by request,
\* and what is still to be asked for is asked for once.
Kept(todo, blobs, retained, wanted) ==
    /\ todo \in Seq(wanted)
    /\ IsInjective(todo)
    /\ blobs \in Seq(ToSet(blobs))
    /\ retained \in Seq({TrueBlob(q) : q \in wanted})
    /\ \A i, k \in DOMAIN retained : retained[i].request = retained[k].request => i = k
    /\ \A q \in ToSet(todo) : \A b \in ToSet(retained) : b.request # q
    /\ {b.request : b \in {c \in ToSet(blobs) : Acquired(c)}} = {b.request : b \in ToSet(retained)}
    /\ \A b \in ToSet(blobs) : Acquired(b) => b.outcome = TrueBlob(b.request).representation

BlobsOK ==
    stage \in Settling =>
        /\ {"current", "todo", "blobs", "retained"} \subseteq DOMAIN got
        /\ Kept(got.todo, got.blobs, got.retained, Wanted)

EInv ==
    /\ IInv
    /\ VersionsOK
    /\ PagesOK
    /\ ContextOK
    /\ ListedOK
    /\ FilesOK
    /\ BlobsOK
    /\ EvidenceTrue

-----------------------------------------------------------------------------
(* Steps that carry what there is.                                         *)

LEMMA NoPages == pages' = <<>> => PagesOK'
BY DEF PagesOK, ToSet

LEMMA SamePages ==
    ASSUME PagesOK, UNCHANGED <<versions, pages>>, stage # "CurrentDiffs"
    PROVE  PagesOK'
BY DEF PagesOK, Listable

LEMMA SameVersions == VersionsOK /\ UNCHANGED <<revision, versions>> => VersionsOK'
BY DEF VersionsOK

LEMMA EvidenceStays ==
    ASSUME EvidenceTrue, outcome' = outcome \/ outcome'.kind = "Failed"
    PROVE  EvidenceTrue'
BY DEF EvidenceTrue, Taken

LEMMA FailTrue ==
    ASSUME EInv, UNCHANGED <<revision, versions>>, NEW kind, NEW why, Fail(kind, why)
    PROVE  EInv'
  <1>1. stage' = "done" /\ pages' = <<>> /\ outcome'.kind = "Failed"
    BY DEF Fail
  <1>2. IInv'
    BY FailKeeps
  <1>3. VersionsOK' /\ PagesOK' /\ EvidenceTrue'
    BY <1>1, NoPages, SameVersions, EvidenceStays DEF EInv
  <1>4. ContextOK' /\ ListedOK' /\ FilesOK' /\ BlobsOK'
    BY <1>1 DEF ContextOK, ListedOK, FilesOK, BlobsOK, Verified, Filed, Settling, Bound
  <1> QED BY <1>2, <1>3, <1>4 DEF EInv

\* A step that goes on with what it has, to a stage that asks for no more.
LEMMA CarriesTrue ==
    ASSUME EInv, IInv', VersionsOK', PagesOK', UNCHANGED <<got, outcome>>,
           Len(versions) <= Len(versions'),
           stage' \in {"InitialMergeRequest", "done"} \/ stage \notin {"InitialMergeRequest", "done"},
           stage' \in Verified => stage \in Verified,
           stage' \in Bound => stage \in Bound,
           stage' \in Filed => stage \in Filed,
           stage' \in Settling => stage \in Settling
    PROVE  EInv'
  <1>1. EvidenceTrue'
    BY EvidenceStays DEF EInv
  <1>2. ContextOK'
    BY DEF EInv, ContextOK
  <1>3. ListedOK'
    <2>1. Len(versions) \in Nat /\ Len(versions') \in Nat
      BY DEF EInv, VersionsOK
    <2> QED BY <2>1 DEF EInv, ListedOK
  <1>4. FilesOK'
    BY DEF EInv, FilesOK
  <1>5. BlobsOK'
    BY DEF EInv, BlobsOK, Wanted
  <1> QED BY <1>1, <1>2, <1>3, <1>4, <1>5 DEF EInv

LEMMA HostTrue == EInv /\ HostStep => EInv'
  <1> SUFFICES ASSUME EInv, HostStep PROVE EInv'
    OBVIOUS
  <1>1. UNCHANGED <<stage, pages, got, outcome>>
    BY DEF HostStep, Push, PublishRefs, PublishVersion, DropFiles
  <1>2. IInv'
    BY HostKeeps DEF EInv
  <1>3. VersionsOK' /\ Len(versions) <= Len(versions')
    <2>1. CASE Push \/ PublishRefs
      <3>1. revision' \in Revision /\ versions' = versions
        BY <2>1 DEF Push, PublishRefs, EInv, VersionsOK
      <3>2. Len(versions) \in Nat
        BY DEF EInv, VersionsOK
      <3> QED BY <3>1, <3>2 DEF EInv, VersionsOK
    <2>2. CASE PublishVersion
      <3> DEFINE new == NewVersion(versions, revision)
      <3>1. versions \in Seq(Stored) /\ revision \in Revision /\ Len(versions) \in Nat
        BY DEF EInv, VersionsOK
      <3>2. new \in Stored /\ new.id = Len(versions) + 1
        BY <3>1 DEF NewVersion, Stored
      <3>3. versions' = <<new>> \o versions /\ revision' = revision
        BY <2>2 DEF PublishVersion
      <3> HIDE DEF new
      <3>4. /\ versions' \in Seq(Stored)
            /\ Len(versions') = Len(versions) + 1
            /\ \A i \in 1..(Len(versions) + 1) :
                versions'[i] = IF i = 1 THEN new ELSE versions[i - 1]
        BY <3>1, <3>2, <3>3
      <3>5. ASSUME NEW i \in DOMAIN versions'
            PROVE  versions'[i].id = Len(versions') + 1 - i
        <4>1. i \in 1..(Len(versions) + 1)
          BY <3>4
        <4>2. CASE i = 1
          BY <3>1, <3>2, <3>4, <4>1, <4>2
        <4>3. CASE i # 1
          <5>1. i - 1 \in DOMAIN versions
            BY <3>1, <4>1, <4>3
          <5>2. versions[i - 1].id = Len(versions) + 1 - (i - 1)
            BY <5>1 DEF EInv, VersionsOK
          <5> QED BY <3>1, <3>4, <4>1, <4>3, <5>2
        <4> QED BY <4>2, <4>3
      <3> QED BY <3>1, <3>3, <3>4, <3>5 DEF VersionsOK
    <2>3. CASE DropFiles
      <3>1. PICK i \in DOMAIN versions :
                versions' = [versions EXCEPT ![i].state = "without_files"]
        BY <2>3 DEF DropFiles
      <3>2. versions \in Seq(Stored) /\ revision \in Revision /\ Len(versions) \in Nat
        BY DEF EInv, VersionsOK
      <3> DEFINE dropped == [versions[i] EXCEPT !.state = "without_files"]
      <3>3. dropped \in Stored /\ dropped.id = versions[i].id
        <4>1. versions[i] \in Stored
          BY <3>2
        <4> QED BY <4>1 DEF Stored
      <3>4. versions' = [versions EXCEPT ![i] = dropped]
        BY <3>1
      <3> HIDE DEF dropped
      <3>5. /\ versions' \in Seq(Stored) /\ Len(versions') = Len(versions)
            /\ DOMAIN versions' = DOMAIN versions
            /\ \A k \in DOMAIN versions : versions'[k] = IF k = i THEN dropped ELSE versions[k]
        BY <3>2, <3>3, <3>4
      <3>6. revision' = revision
        BY <2>3 DEF DropFiles
      <3> QED BY <3>2, <3>3, <3>5, <3>6 DEF EInv, VersionsOK
    <2> QED BY <2>1, <2>2, <2>3 DEF HostStep
  <1>4. PagesOK'
    <2>1. Len(versions) \in Nat /\ Len(versions)' \in Nat
      BY <1>3 DEF EInv, VersionsOK
    <2>2. 1..Len(versions) \subseteq 1..Len(versions)'
      BY <1>3, <2>1
    <2>3. Listable \subseteq Listable'
      BY <2>2 DEF Listable
    <2>4. \A s : s \in Seq(Listable) => s \in Seq(Listable')
      BY <2>3
    <2> QED BY <1>1, <2>4 DEF EInv, PagesOK
  <1> QED BY <1>1, <1>2, <1>3, <1>4, CarriesTrue

-----------------------------------------------------------------------------
(* The stages up to the version.                                           *)

\* The answers that change nothing but the stage.
LEMMA SimpleTrue ==
    ASSUME EInv, IInv', UNCHANGED <<revision, versions, got, outcome>>, PagesOK',
           \/ stage' = stage
           \/ stage' = "InitialMergeRequest"
           \/ stage = "TargetProject" /\ stage' = "SourceProject"
           \/ stage = "DiffVersions" /\ stage' = "RefreshedMergeRequest"
           \/ stage = "RefreshedMergeRequest" /\ stage' = "DiffVersions"
           \/ stage = "RawBlob" /\ stage' = "FinalMergeRequest"
    PROVE  EInv'
  <1>1. VersionsOK' /\ Len(versions) \in Nat /\ Len(versions) <= Len(versions')
    BY SameVersions DEF EInv, VersionsOK
  <1> QED BY <1>1, CarriesTrue DEF Verified, Filed, Settling, Bound

LEMMA WaitTrue ==
    ASSUME EInv, NEW next, GoesAfterWait(next),
           \/ next = "InitialMergeRequest"
           \/ next = "RefreshedMergeRequest" /\ stage = "DiffVersions"
    PROVE  EInv'
  <1>1. UNCHANGED <<revision, versions>>
    BY DEF GoesAfterWait, host
  <1>2. IInv'
    BY WaitKeeps DEF EInv
  <1>3. \/ stage' = next /\ UNCHANGED <<outcome, got>> /\ pages' = <<>>
        \/ Fail("Budget", "Deadline")
    BY DEF GoesAfterWait
  <1> QED BY <1>1, <1>2, <1>3, FailTrue, NoPages, SimpleTrue

LEMMA EndsTrue ==
    ASSUME EInv, NEW kind, NEW why, Ends(kind, why)
    PROVE  EInv'
BY FailTrue DEF Ends, host

\* What a page shows of a listing.
LEMMA PageLists ==
    ASSUME NEW S, NEW items \in Seq(S), NEW page \in Nat \ {0}
    PROVE  SubSeq(items, (page - 1) * PerPage + 1,
                  (page - 1) * PerPage + ItemsOnPage(Len(items), page, PerPage)) \in Seq(S)
  <1>1. PerPage \in Nat
    BY LimitsAssumption
  <1>2. PICK x \in Nat : x = (page - 1) * PerPage
    <2>1. page - 1 \in Nat
      OBVIOUS
    <2>2. \A a, b \in Nat : a * b \in Nat
      OBVIOUS
    <2> QED BY <1>1, <2>1, <2>2
  <1>3. PICK y \in Nat : y = ItemsOnPage(Len(items), page, PerPage) /\ (x + y <= Len(items) \/ y = 0)
    <2> DEFINE left == Len(items) - x
               y == IF left < 0 THEN 0 ELSE IF left < PerPage THEN left ELSE PerPage
    <2>1. y = ItemsOnPage(Len(items), page, PerPage)
      BY <1>2 DEF ItemsOnPage
    <2>2. y \in Nat /\ (x + y <= Len(items) \/ y = 0)
      <3>1. Len(items) \in Nat /\ left \in Int
        OBVIOUS
      <3>2. x + left = Len(items)
        BY <3>1
      <3> HIDE DEF left
      <3> QED BY <1>1, <3>1, <3>2
    <2> QED BY <2>1, <2>2
  <1>4. \A k \in 1..(x + y - (x + 1) + 1) : items[x + 1 + k - 1] \in S
    BY <1>3
  <1>5. SubSeq(items, x + 1, x + y) \in Seq(S)
    BY <1>3, <1>4
  <1> QED BY <1>2, <1>3, <1>5

\* A listing shows what the host can show, page by page.
LEMMA PagesReadLists ==
    ASSUME pages \in Seq(ToSet(pages)), NEW S, \A p \in ToSet(pages) : p.items \in Seq(S),
           NEW items \in Seq(S)
    PROVE  /\ PagesRead(items) \in Seq(ToSet(PagesRead(items)))
           /\ \A p \in ToSet(PagesRead(items)) : p.items \in Seq(S)
  <1> DEFINE n == Len(pages)
             last == Page(PageAnswer(items), n + 1, PerPage)
             read == PagesRead(items)
  <1>1. n \in Nat /\ DOMAIN pages = 1..n
    OBVIOUS
  <1>2. last.items \in Seq(S)
    <2>1. n + 1 \in Nat \ {0}
      BY <1>1
    <2> DEFINE page == n + 1
    <2>2. last.items = SubSeq(items, (page - 1) * PerPage + 1,
                              (page - 1) * PerPage + ItemsOnPage(Len(items), page, PerPage))
      BY Zenon DEF Page, PageAnswer
    <2> HIDE DEF last, page
    <2> QED BY <2>1, <2>2, PageLists DEF page
  <1>3. read = Append(pages, last)
    BY DEF PagesRead
  <1> HIDE DEF last, read
  <1>4. DOMAIN read = 1..(n + 1) /\ \A i \in 1..(n + 1) : read[i] = IF i = n + 1 THEN last ELSE pages[i]
    BY <1>1, <1>3
  <1>5. \A i \in 1..n : pages[i] \in ToSet(pages)
    BY DEF ToSet
  <1>6. \A i \in 1..(n + 1) : read[i].items \in Seq(S)
    BY <1>1, <1>2, <1>4, <1>5
  <1>7. ToSet(read) = ToSet(pages) \cup {last}
    <2>1. \A i \in 1..n : read[i] = pages[i] /\ i \in 1..(n + 1)
      BY <1>1, <1>4
    <2>2. n + 1 \in 1..(n + 1) /\ read[n + 1] = last /\ \A i \in 1..(n + 1) : i = n + 1 \/ i \in 1..n
      BY <1>1, <1>4
    <2> HIDE DEF n
    <2> QED BY <1>1, <1>4, <2>1, <2>2, Zenon DEF ToSet
  <1>8. read \in Seq(ToSet(read))
    <2>1. pages \in Seq(ToSet(pages) \cup {last})
      OBVIOUS
    <2> QED BY <1>3, <1>7, <2>1
  <1> QED BY <1>4, <1>6, <1>8 DEF ToSet, read

\* And so does what is collected of it.
LEMMA ListingLists ==
    ASSUME NEW S, NEW read, read \in Seq(ToSet(read)), \A p \in ToSet(read) : p.items \in Seq(S)
    PROVE  Listing(read).items \in Seq(S)
  <1> DEFINE seqs == [i \in DOMAIN read |-> read[i].items]
  <1>1. \A i \in DOMAIN read : read[i].items \in Seq(S)
    BY DEF ToSet
  <1>2. seqs \in Seq(Seq(S))
    <2>1. Len(read) \in Nat /\ DOMAIN read = 1..Len(read)
      OBVIOUS
    <2> QED BY <1>1, <2>1
  <1>3. FlattenSeq(seqs) \in Seq(S)
    <2> HIDE DEF seqs
    <2> QED BY <1>2, FlattenLists
  <1> QED BY <1>3 DEF Listing

\* The versions the host answers with are listable.
LEMMA AnswersListable ==
    VersionsOK => [i \in DOMAIN versions |-> VersionAnswer(versions[i])] \in Seq(Listable)
  <1> SUFFICES ASSUME VersionsOK
               PROVE  [i \in DOMAIN versions |-> VersionAnswer(versions[i])] \in Seq(Listable)
    OBVIOUS
  <1>1. versions \in Seq(Stored) /\ Len(versions) \in Nat /\ DOMAIN versions = 1..Len(versions)
    BY DEF VersionsOK
  <1>2. ASSUME NEW i \in DOMAIN versions PROVE VersionAnswer(versions[i]) \in Listable
    <2>1. versions[i].id \in 1..Len(versions)
      BY <1>1 DEF VersionsOK
    <2>2. versions[i] \in Stored
      BY <1>1
    <2>3. versions[i] \in [id : 1..Len(versions), revision : Revision, state : {"collected", "without_files"}]
      BY <2>1, <2>2 DEF Stored
    <2> QED BY <2>3 DEF Listable
  <1> DEFINE a == [i \in DOMAIN versions |-> VersionAnswer(versions[i])]
  <1>3. a \in [1..Len(versions) -> Listable]
    BY <1>1, <1>2
  <1> HIDE DEF a
  <1> QED BY <1>1, <1>3 DEF a

LEMMA ReadPageTrue ==
    ASSUME EInv, NEW items, ReadPage(items), PagesOK' \/ stage = "CurrentDiffs"
    PROVE  EInv'
  <1>1. IInv'
    BY ReadPageKeeps DEF EInv
  <1>2. \/ \E why : Ends("Wire", why)
        \/ Goes(stage) /\ UNCHANGED got
    BY DEF ReadPage
  <1>3. CASE \E why : Ends("Wire", why)
    BY <1>3, EndsTrue
  <1>4. CASE Goes(stage) /\ UNCHANGED got
    <2>1. UNCHANGED <<revision, versions, outcome, got>> /\ stage' = stage
      BY <1>4 DEF Goes, host
    <2>2. PagesOK'
      BY <2>1 DEF PagesOK
    <2> QED BY <1>1, <2>1, <2>2, SimpleTrue
  <1> QED BY <1>2, <1>3, <1>4

LEMMA InitialTrue == EInv /\ InitialMergeRequest => EInv'
  <1> SUFFICES ASSUME EInv, InitialMergeRequest PROVE EInv'
    OBVIOUS
  <1>1. IInv'
    BY InitialKeeps DEF EInv
  <1>2. \/ \E kind, why : Ends(kind, why)
        \/ GoesAfterWait("InitialMergeRequest")
        \/ /\ MergeRequestVerdict(Answered) = "accepted"
           /\ stage = "InitialMergeRequest"
           /\ refs # Absent
           /\ Goes("TargetProject")
           /\ got' = [mr |-> MergeRequest(Answered)]
           /\ UNCHANGED pages
    BY DEF InitialMergeRequest
  <1>3. CASE \E kind, why : Ends(kind, why)
    BY <1>3, EndsTrue
  <1>4. CASE GoesAfterWait("InitialMergeRequest")
    BY <1>4, WaitTrue
  <1>5. CASE /\ MergeRequestVerdict(Answered) = "accepted"
             /\ stage = "InitialMergeRequest"
             /\ refs # Absent
             /\ Goes("TargetProject")
             /\ got' = [mr |-> MergeRequest(Answered)]
             /\ UNCHANGED pages
    <2>1. UNCHANGED <<revision, versions, outcome, pages>> /\ stage' = "TargetProject"
      BY <1>5 DEF Goes, host
    <2>2. got'.mr.refs.head = got'.mr.head
      <3>1. Answered.refs.head = Answered.head
        BY <1>5, AcceptedHead, AnsweredFields
      <3>2. MergeRequest(Answered).refs = Answered.refs /\ MergeRequest(Answered).head = Answered.head
        BY DEF MergeRequest, Answered
      <3> QED BY <1>5, <3>1, <3>2
    <2>3. VersionsOK' /\ PagesOK' /\ EvidenceTrue'
      BY <1>5, <2>1, SameVersions, SamePages, EvidenceStays DEF EInv
    <2>4. ContextOK' /\ ListedOK' /\ FilesOK' /\ BlobsOK'
      BY <2>1, <2>2 DEF ContextOK, ListedOK, FilesOK, BlobsOK, Verified, Filed, Settling, Bound
    <2> QED BY <1>1, <2>3, <2>4 DEF EInv
  <1> QED BY <1>2, <1>3, <1>4, <1>5

LEMMA TargetTrue == EInv /\ TargetProject => EInv'
  <1> SUFFICES ASSUME EInv, TargetProject PROVE EInv'
    OBVIOUS
  <1>1. /\ stage = "TargetProject" /\ stage' = "SourceProject"
        /\ UNCHANGED <<revision, versions, got, outcome, pages>>
    BY DEF TargetProject, Goes, host
  <1>2. IInv' /\ PagesOK'
    BY <1>1, TargetKeeps, SamePages DEF EInv
  <1> QED BY <1>1, <1>2, SimpleTrue

LEMMA SourceTrue == EInv /\ SourceProject => EInv'
  <1> SUFFICES ASSUME EInv, SourceProject PROVE EInv'
    OBVIOUS
  <1>1. IInv'
    BY SourceKeeps DEF EInv
  <1>2. \/ \E kind, why : Ends(kind, why)
        \/ /\ stage = "SourceProject"
           /\ Goes("DiffVersions")
           /\ got' = [mr |-> got.mr, context |-> Context!Verified(Selection, Authoritative)]
           /\ UNCHANGED pages
    BY DEF SourceProject
  <1>3. CASE \E kind, why : Ends(kind, why)
    BY <1>3, EndsTrue
  <1>4. CASE /\ stage = "SourceProject"
             /\ Goes("DiffVersions")
             /\ got' = [mr |-> got.mr, context |-> Context!Verified(Selection, Authoritative)]
             /\ UNCHANGED pages
    <2>1. UNCHANGED <<revision, versions, outcome, pages>> /\ stage' = "DiffVersions"
      BY <1>4 DEF Goes, host
    <2>2. Context!Verified(Selection, Authoritative).head = got.mr.head
      BY DEF Context!Verified, Authoritative
    <2>3. got.mr.refs.head = got.mr.head
      BY <1>4 DEF EInv, ContextOK
    <2>4. /\ {"mr", "context"} \subseteq DOMAIN got'
          /\ got'.mr.refs.head = got'.mr.head
          /\ got'.context.head = got'.mr.head
      BY <1>4, <2>2, <2>3
    <2>5. VersionsOK' /\ PagesOK' /\ EvidenceTrue'
      BY <1>4, <2>1, SameVersions, SamePages, EvidenceStays DEF EInv
    <2>6. ContextOK' /\ ListedOK' /\ FilesOK' /\ BlobsOK'
      BY <2>1, <2>4 DEF ContextOK, ListedOK, FilesOK, BlobsOK, Verified, Filed, Settling, Bound
    <2> QED BY <1>1, <2>5, <2>6 DEF EInv
  <1> QED BY <1>2, <1>3, <1>4

\* A version that is bound was listed, so the host has it.
LEMMA UnblockedListed ==
    ASSUME NEW shown, NEW bound, BindingBlockers(shown, bound) = {}
    PROVE  bound.items # <<>>
BY DEF BindingBlockers, If

LEMMA BindTrue ==
    ASSUME EInv, stage = "DiffVersions", NEW listing, "items" \in DOMAIN listing,
           listing.items \in Seq(Listable), Bind(listing)
    PROVE  EInv'
  <1> DEFINE items == [i \in DOMAIN listing.items |-> Version(listing.items[i])]
             bound == [listing EXCEPT !.items = items]
             blockers == BindingBlockers(got.mr.refs, bound)
  <1>1. IInv'
    BY BindKeeps DEF EInv
  <1>2. \/ \E kind, why : Ends(kind, why)
        \/ GoesAfterWait("RefreshedMergeRequest")
        \/ /\ blockers = {}
           /\ Goes("ExactDiffVersion")
           /\ got' = [mr |-> got.mr, context |-> got.context, version |-> Head(items)]
           /\ pages' = <<>>
    BY DEF Bind
  <1>3. CASE \E kind, why : Ends(kind, why)
    BY <1>3, EndsTrue
  <1>4. CASE GoesAfterWait("RefreshedMergeRequest")
    BY <1>4, WaitTrue
  <1>5. CASE /\ blockers = {}
             /\ Goes("ExactDiffVersion")
             /\ got' = [mr |-> got.mr, context |-> got.context, version |-> Head(items)]
             /\ pages' = <<>>
    <2>1. UNCHANGED <<revision, versions, outcome>> /\ stage' = "ExactDiffVersion"
      BY <1>5 DEF Goes, host
    <2>2. bound.items = items
      OBVIOUS
    <2>3. items # <<>>
      BY <1>5, <2>2, UnblockedListed
    <2>4. listing.items # <<>>
      BY <2>3
    <2>5. Head(items).id \in 1..Len(versions)
      <3>1. 1 \in DOMAIN listing.items /\ listing.items[1] \in Listable
        BY <2>4
      <3>2. Head(items) = Version(listing.items[1])
        BY <3>1
      <3>3. Head(items).id = listing.items[1].id
        BY <3>2 DEF Version
      <3>4. listing.items[1].id \in 1..Len(versions)
        BY <3>1 DEF Listable, VersionAnswer
      <3> QED BY <3>3, <3>4
    <2> HIDE DEF items, bound
    <2>6. VersionsOK' /\ PagesOK' /\ EvidenceTrue'
      BY <1>5, <2>1, SameVersions, NoPages, EvidenceStays DEF EInv
    <2>7. {"mr", "context"} \subseteq DOMAIN got /\ got.context.head = got.mr.head
          /\ got.mr.refs.head = got.mr.head
      BY DEF EInv, ContextOK, Verified
    <2>8. ContextOK'
      BY <1>5, <2>7 DEF ContextOK
    <2>9. ListedOK' /\ FilesOK' /\ BlobsOK'
      BY <1>5, <2>1, <2>5 DEF ListedOK, FilesOK, BlobsOK, Verified, Filed, Settling, Bound
    <2> QED BY <1>1, <2>6, <2>8, <2>9 DEF EInv
  <1> QED BY <1>2, <1>3, <1>4, <1>5

LEMMA VersionsTrue == EInv /\ DiffVersions => EInv'
  <1> SUFFICES ASSUME EInv, DiffVersions PROVE EInv'
    OBVIOUS
  <1> DEFINE items == [i \in DOMAIN versions |-> VersionAnswer(versions[i])]
  <1>1. stage = "DiffVersions" /\ (ReadPage(items) \/ Bind(Listing(PagesRead(items))))
    BY DEF DiffVersions
  <1>2. items \in Seq(Listable)
    BY AnswersListable DEF EInv
  <1> HIDE DEF items
  <1>3. pages \in Seq(ToSet(pages)) /\ \A p \in ToSet(pages) : p.items \in Seq(Listable)
    BY <1>1 DEF EInv, PagesOK
  <1>4. /\ PagesRead(items) \in Seq(ToSet(PagesRead(items)))
        /\ \A p \in ToSet(PagesRead(items)) : p.items \in Seq(Listable)
    BY <1>2, <1>3, PagesReadLists
  <1>5. CASE ReadPage(items)
    <2>1. \/ \E why : Ends("Wire", why)
          \/ /\ pages' = PagesRead(items)
             /\ UNCHANGED <<versions>>
      BY <1>5 DEF ReadPage, Goes, host
    <2>2. CASE \E why : Ends("Wire", why)
      BY <2>2, EndsTrue
    <2>3. CASE pages' = PagesRead(items) /\ UNCHANGED <<versions>>
      <3>1. Listable' = Listable
        BY <2>3 DEF Listable
      <3>2. PagesOK'
        BY <1>4, <2>3, <3>1 DEF PagesOK
      <3> QED BY <1>5, <3>2, ReadPageTrue
    <2> QED BY <2>1, <2>2, <2>3
  <1>6. CASE Bind(Listing(PagesRead(items)))
    <2>1. Listing(PagesRead(items)).items \in Seq(Listable)
      BY <1>4, ListingLists
    <2>2. "items" \in DOMAIN Listing(PagesRead(items))
      BY DEF Listing
    <2> QED BY <1>1, <1>6, <2>1, <2>2, BindTrue
  <1> QED BY <1>1, <1>5, <1>6

LEMMA RefreshedTrue == EInv /\ RefreshedMergeRequest => EInv'
  <1> SUFFICES ASSUME EInv, RefreshedMergeRequest PROVE EInv'
    OBVIOUS
  <1>1. \/ \E kind, why : Ends(kind, why)
        \/ stage = "RefreshedMergeRequest" /\ Goes("DiffVersions") /\ UNCHANGED <<got, pages>>
    BY DEF RefreshedMergeRequest
  <1>2. CASE \E kind, why : Ends(kind, why)
    BY <1>2, EndsTrue
  <1>3. CASE stage = "RefreshedMergeRequest" /\ Goes("DiffVersions") /\ UNCHANGED <<got, pages>>
    <2>1. UNCHANGED <<revision, versions, got, outcome, pages>> /\ stage' = "DiffVersions"
      BY <1>3 DEF Goes, host
    <2>2. IInv' /\ PagesOK'
      BY <1>3, <2>1, RefreshedKeeps, SamePages DEF EInv
    <2> QED BY <1>3, <2>1, <2>2, SimpleTrue
  <1> QED BY <1>1, <1>2, <1>3

-----------------------------------------------------------------------------
(* The exact version and its files.                                        *)

\* An accepted file is of paths that have a place in the order.
LEMMA AcceptedPath ==
    ASSUME NEW w \in WireFile, ChangedFileVerdict(w) = "accepted"
    PROVE  ChangedFile(w).path \in [old : Nat, new : Nat, kind : Kind]
  <1>1. Malformed \notin {w.old_path, w.new_path}
    BY DEF ChangedFileVerdict
  <1>2. w.old_path \in Nat /\ w.new_path \in Nat
    BY <1>1 DEF WireFile
  <1>3. ChangeKind(w) \in Kind
    BY DEF ChangeKind, Kind
  <1> QED BY <1>2, <1>3 DEF ChangedFile, ChangedPathOf

\* The exact version lists its files once each.
LEMMA ExactFilesListed ==
    ASSUME NEW wire \in Seq(WireFile), NEW version,
           \A w \in ToSet(wire) : ChangedFileVerdict(w) = "accepted",
           ExactVersionVerdict(version, [i \in DOMAIN wire |-> ChangedFile(wire[i])]) = "accepted"
    PROVE  LET files == [i \in DOMAIN wire |-> ChangedFile(wire[i])]
           IN  /\ IsFiniteSet(ToSet(Sorted(files)))
               /\ ToSet(Sorted(files)) = {ChangedFile(w) : w \in ToSet(wire)}
               /\ Len(Sorted(files)) = Len(wire)
  <1> DEFINE n == Len(wire)
             files == [i \in DOMAIN wire |-> ChangedFile(wire[i])]
             paths == [i \in 1..n |-> files[i].path]
  <1>1. n \in Nat /\ DOMAIN wire = 1..n /\ DOMAIN files = 1..n /\ Len(files) = n
    OBVIOUS
  <1>2. ToSet(files) = {ChangedFile(w) : w \in ToSet(wire)}
    BY DEF ToSet
  <1>3. \A f \in ToSet(files) : f.path \in [old : Nat, new : Nat, kind : Kind]
    <2>1. ToSet(wire) \subseteq WireFile
      BY DEF ToSet
    <2> QED BY <1>2, <2>1, AcceptedPath
  <1>4. Cardinality({f.path : f \in ToSet(files)}) = n
    <2> HIDE DEF files
    <2> QED BY <1>1 DEF ExactVersionVerdict, files
  <1> HIDE DEF files
  <1>5. ToSet(paths) = {f.path : f \in ToSet(files)}
    BY <1>1 DEF ToSet
  <1>6. IsInjective(paths)
    <2>1. DOMAIN paths = 1..n
      OBVIOUS
    <2> HIDE DEF paths, n
    <2> QED BY <1>1, <1>4, <1>5, <2>1, DistinctCount
  <1>7. \A i, k \in 1..n : files[i].path = files[k].path => i = k
    BY <1>6 DEF IsInjective
  <1>8. IsInjective(files) /\ \A f, g \in ToSet(files) : f # g => f.path # g.path
    BY <1>1, <1>7 DEF IsInjective, ToSet
  <1>9. ToSet(Sorted(files)) = ToSet(files) /\ Len(Sorted(files)) = n
    <2> HIDE DEF n
    <2> QED BY <1>1, <1>3, <1>8, SortedLists
  <1>10. IsFiniteSet(ToSet(files))
    <2> HIDE DEF n
    <2> QED BY <1>1, DistinctCount
  <1> QED BY <1>2, <1>9, <1>10 DEF files

\* A version that shows itself whole has its files and is not capped.
LEMMA WholeVersion ==
    ASSUME NEW v \in Stored, Whole(Version(VersionAnswer(v)))
    PROVE  v.state = "collected" /\ v.revision \notin Capped
  <1> DEFINE size == [digits |-> Len(Files(v.revision)), plus |-> v.revision \in Capped]
             answer == VersionAnswer(v)
  <1>1. v.revision \in Revision /\ v.state \in {"collected", "without_files"}
    BY DEF Stored
  <1>2. Len(Files(v.revision)) \in Nat
    BY <1>1, RevisionAssumption DEF Files
  <1>3. size \in [digits : Nat, plus : BOOLEAN]
    BY <1>2
  <1>4. size # Absent
    BY <1>3, AbsentAssumption
  <1>5. answer.real_size = size /\ answer.state = v.state
    BY DEF VersionAnswer
  <1>6. Count(size) = IF v.revision \in Capped THEN CappedAt(Len(Files(v.revision)))
                      ELSE Exact(Len(Files(v.revision)))
    BY <1>4 DEF Count
  <1>7. /\ Count(size).kind = "CappedAt" => Version(answer).state = "Overflow"
        /\ Count(size).kind # "CappedAt" /\ v.state = "without_files"
                => Version(answer).state = "WithoutFiles"
    <2> HIDE DEF size, answer
    <2> QED BY <1>5 DEF Version
  <1>8. Version(answer).state \notin {"WithoutFiles", "Overflow"}
    BY DEF Whole
  <1> HIDE DEF answer, size
  <1>9. v.revision \in Capped => Count(size).kind = "CappedAt"
    BY <1>6 DEF CappedAt
  <1> QED BY <1>1, <1>7, <1>8, <1>9

LEMMA ExactTrue == EInv /\ ExactDiffVersion => EInv'
  <1> SUFFICES ASSUME EInv, ExactDiffVersion PROVE EInv'
    OBVIOUS
  <1> DEFINE shown == CHOOSE v \in ToSet(versions) : v.id = got.version.id
             wire == IF shown.state = "collected" THEN Files(shown.revision) ELSE <<>>
             version == Version(VersionAnswer(shown))
             files == [i \in DOMAIN wire |-> ChangedFile(wire[i])]
             reported == Reconciled(got.mr.changes, version.reported)
  <1>1. IInv'
    BY ExactKeeps DEF EInv
  <1>2. stage = "ExactDiffVersion"
    BY DEF ExactDiffVersion
  <1>3. \/ \E kind, why : Ends(kind, why)
        \/ /\ \A f \in ToSet(wire) : ChangedFileVerdict(f) = "accepted"
           /\ ExactVersionVerdict(version, files) = "accepted"
           /\ <<version.id, version.refs>> = <<got.version.id, got.version.refs>>
           /\ Goes("CurrentDiffs")
           /\ got' = [mr |-> got.mr, context |-> got.context,
                      version |-> version, reported |-> reported,
                      files |-> Sorted(files)]
    BY DEF ExactDiffVersion
  <1>4. CASE \E kind, why : Ends(kind, why)
    BY <1>4, EndsTrue
  <1>5. CASE /\ \A f \in ToSet(wire) : ChangedFileVerdict(f) = "accepted"
             /\ ExactVersionVerdict(version, files) = "accepted"
             /\ <<version.id, version.refs>> = <<got.version.id, got.version.refs>>
             /\ Goes("CurrentDiffs")
             /\ got' = [mr |-> got.mr, context |-> got.context,
                        version |-> version, reported |-> reported,
                        files |-> Sorted(files)]
    <2>1. UNCHANGED <<revision, versions, outcome>> /\ stage' = "CurrentDiffs"
      BY <1>5 DEF Goes, host
    <2>2. shown \in Stored
      <3>1. versions \in Seq(Stored) /\ Len(versions) \in Nat /\ DOMAIN versions = 1..Len(versions)
        BY DEF EInv, VersionsOK
      <3>2. got.version.id \in 1..Len(versions)
        BY <1>2 DEF EInv, ListedOK, Bound
      <3> DEFINE i == Len(versions) + 1 - got.version.id
      <3>3. i \in DOMAIN versions /\ Len(versions) + 1 - i = got.version.id
        BY <3>1, <3>2
      <3>4. versions[i].id = got.version.id
        BY <3>3 DEF EInv, VersionsOK
      <3>5. \E v \in ToSet(versions) : v.id = got.version.id
        BY <3>3, <3>4 DEF ToSet
      <3>6. shown \in ToSet(versions)
        BY <3>5
      <3>7. ToSet(versions) \subseteq Stored
        BY <3>1 DEF ToSet
      <3> QED BY <3>6, <3>7
    <2>3. shown.revision \in Revision
      BY <2>2 DEF Stored
    <2>4. version.refs = RefsOf[shown.revision]
      BY DEF Version, VersionAnswer
    <2>5. Whole(version) => shown.state = "collected" /\ shown.revision \notin Capped
      <3> HIDE DEF shown
      <3> QED BY <2>2, WholeVersion
    <2> HIDE DEF shown
    <2>6. wire \in Seq(WireFile)
      BY <2>3, RevisionAssumption DEF Files
    <2>7. /\ IsFiniteSet(ToSet(Sorted(files)))
          /\ ToSet(Sorted(files)) = {ChangedFile(w) : w \in ToSet(wire)}
      <3> HIDE DEF wire, version
      <3> QED BY <1>5, <2>6, ExactFilesListed
    <2>8. /\ ToSet(Sorted(files)) \subseteq TrueFiles(shown.revision)
          /\ Whole(version) => ToSet(Sorted(files)) = TrueFiles(shown.revision)
      <3>1. CASE shown.state = "collected"
        BY <2>7, <3>1 DEF TrueFiles
      <3>2. CASE shown.state # "collected"
        <4>1. ToSet(wire) = {}
          BY <3>2 DEF ToSet
        <4> HIDE DEF files, wire
        <4> QED BY <2>5, <2>7, <3>2, <4>1
      <3> QED BY <3>1, <3>2
    <2> HIDE DEF files, wire, version, reported
    <2>9. FilesOK'
      <3>1. /\ {"mr", "context", "version", "reported", "files"} \subseteq DOMAIN got'
            /\ got'.version = version /\ got'.files = Sorted(files)
        BY <1>5
      <3>2. \E r \in Revision :
              /\ got'.version.refs = RefsOf[r]
              /\ IsFiniteSet(ToSet(got'.files))
              /\ ToSet(got'.files) \subseteq TrueFiles(r)
              /\ Whole(got'.version) => ToSet(got'.files) = TrueFiles(r) /\ r \notin Capped
        BY <2>3, <2>4, <2>5, <2>7, <2>8, <3>1
      <3> QED BY <3>1, <3>2 DEF FilesOK
    <2>10. VersionsOK' /\ PagesOK' /\ EvidenceTrue'
      BY <2>1, SameVersions, EvidenceStays DEF EInv, PagesOK
    <2>11. ContextOK'
      <3>1. got.context.head = got.mr.head /\ got.mr.refs.head = got.mr.head
        BY <1>2 DEF EInv, ContextOK, Verified, Bound
      <3>2. {"mr", "context"} \subseteq DOMAIN got' /\ got'.mr = got.mr /\ got'.context = got.context
        BY <1>5
      <3> QED BY <3>1, <3>2 DEF ContextOK
    <2>12. ListedOK'
      <3>1. got'.version.id = got.version.id
        BY <1>5
      <3> QED BY <1>2, <2>1, <3>1 DEF EInv, ListedOK, Bound
    <2>13. BlobsOK'
      BY <2>1 DEF BlobsOK, Settling
    <2> QED BY <1>1, <2>9, <2>10, <2>11, <2>12, <2>13 DEF EInv
  <1> QED BY <1>3, <1>4, <1>5

-----------------------------------------------------------------------------
(* The blobs.                                                              *)

LEMMA TrueKinds == \A r : \A f \in TrueFiles(r) : f.path.kind \in Kind
  <1>1. \A w : ChangeKind(w) \in Kind
    BY DEF ChangeKind, Kind
  <1> QED BY <1>1 DEF TrueFiles, ChangedFile, ChangedPathOf

\* Finitely many files have finitely many blobs: an old and a new one each.
LEMMA WantedFinite ==
    ASSUME NEW files, NEW shown, IsFiniteSet(ToSet(files)),
           \A f \in ToSet(files) : f.path.kind \in Kind
    PROVE  IsFiniteSet(WantedOf(files, shown))
  <1> DEFINE F == ToSet(files)
             old == [f \in F |-> [side |-> "Old", path |-> f.path.old, commit_sha |-> shown.base]]
             new == [f \in F |-> [side |-> "New", path |-> f.path.new, commit_sha |-> shown.head]]
             Old == {old[f] : f \in F}
             New == {new[f] : f \in F}
  <1>1. \A f \in F : ExpectedBlobs(f.path, shown) \subseteq {old[f], new[f]}
    BY DEF ExpectedBlobs, Kind
  <1>2. IsFiniteSet(Old) /\ IsFiniteSet(New)
    <2> HIDE DEF old, new, F
    <2> QED BY FiniteImage DEF F
  <1>3. WantedOf(files, shown) \in SUBSET (Old \cup New)
    <2> HIDE DEF old, new
    <2> QED BY <1>1 DEF WantedOf
  <1> HIDE DEF Old, New
  <1> QED BY <1>2, <1>3, FS_Union, FS_Subset

LEMMA CurrentTrue == EInv /\ CurrentDiffs => EInv'
  <1> SUFFICES ASSUME EInv, CurrentDiffs PROVE EInv'
    OBVIOUS
  <1> DEFINE items == Files(revision)
             expected == WantedOf(got.files, got.version.refs)
  <1>1. stage = "CurrentDiffs" /\ (ReadPage(items) \/ Current(Listing(PagesRead(items))))
    BY DEF CurrentDiffs
  <1>2. IInv'
    BY CurrentKeeps DEF EInv
  <1>3. CASE ReadPage(items)
    BY <1>1, <1>3, ReadPageTrue
  <1>4. CASE Current(Listing(PagesRead(items)))
    <2>1. PICK current :
            got' = [mr |-> got.mr, context |-> got.context, version |-> got.version,
                    reported |-> got.reported, files |-> got.files, current |-> current,
                    todo |-> SetToSeq(expected), blobs |-> <<>>, retained |-> <<>>]
      BY <1>4, Zenon DEF Current, WantedOf
    <2>2. UNCHANGED <<revision, versions, outcome>> /\ stage' \in Settling /\ pages' = <<>>
      BY <1>4 DEF Current, Goes, host, Settling
    <2>3. VersionsOK' /\ PagesOK' /\ EvidenceTrue'
      BY <2>2, SameVersions, NoPages, EvidenceStays DEF EInv
    <2>4. ContextOK'
      <3>1. got.context.head = got.mr.head /\ got.mr.refs.head = got.mr.head
        BY <1>1 DEF EInv, ContextOK, Verified, Bound
      <3>2. {"mr", "context"} \subseteq DOMAIN got' /\ got'.mr = got.mr /\ got'.context = got.context
        BY <2>1
      <3> QED BY <3>1, <3>2 DEF ContextOK
    <2>5. got'.version = got.version /\ got'.files = got.files
          /\ {"mr", "context", "version", "reported", "files", "current", "todo", "blobs", "retained"}
                \subseteq DOMAIN got'
      BY <2>1
    <2>6. ListedOK'
      BY <1>1, <2>2, <2>5 DEF EInv, ListedOK, Bound
    <2>7. FilesOK'
      BY <1>1, <2>5 DEF EInv, FilesOK, Filed, Bound
    <2>8. BlobsOK'
      <3>1. PICK r \in Revision : IsFiniteSet(ToSet(got.files)) /\ ToSet(got.files) \subseteq TrueFiles(r)
        BY <1>1 DEF EInv, FilesOK, Filed, Bound
      <3>6. \A f \in ToSet(got.files) : f.path.kind \in Kind
        BY <3>1, TrueKinds
      <3>2. SetToSeq(expected) \in Seq(expected) /\ IsInjective(SetToSeq(expected))
        BY <3>1, <3>6, WantedFinite, SetToSeqLists
      <3> HIDE DEF expected
      <3>3. Kept(SetToSeq(expected), <<>>, <<>>, expected)
        BY <3>2 DEF Kept, ToSet
      <3>4. Wanted' = expected
        BY <2>5 DEF Wanted, expected
      <3>5. got'.todo = SetToSeq(expected) /\ got'.blobs = <<>> /\ got'.retained = <<>>
        BY <2>1
      <3> QED BY <2>5, <3>3, <3>4, <3>5 DEF BlobsOK
    <2> QED BY <1>2, <2>3, <2>4, <2>6, <2>7, <2>8 DEF EInv
  <1> QED BY <1>1, <1>3, <1>4

\* A blob that was not acquired is told and settled.
LEMMA KeptWithout ==
    ASSUME NEW todo, NEW blobs, NEW retained, NEW wanted, Kept(todo, blobs, retained, wanted),
           todo # <<>>, NEW b, b.request = Head(todo), ~ Acquired(b)
    PROVE  Kept(Tail(todo), Append(blobs, b), retained, wanted)
  <1>1. todo \in Seq(wanted) /\ IsInjective(todo) /\ blobs \in Seq(ToSet(blobs))
    BY DEF Kept
  <1>2. /\ Tail(todo) \in Seq(wanted) /\ IsInjective(Tail(todo))
        /\ ToSet(Tail(todo)) \subseteq ToSet(todo)
    BY <1>1, TailSet
  <1>3. ToSet(Append(blobs, b)) = ToSet(blobs) \cup {b} /\ Append(blobs, b) \in Seq(ToSet(Append(blobs, b)))
    BY <1>1, AppendMore
  <1> DEFINE more == Append(blobs, b)
  <1>4. {c \in ToSet(more) : Acquired(c)} = {c \in ToSet(blobs) : Acquired(c)}
    BY <1>3
  <1>5. more \in Seq(ToSet(more))
    BY <1>3
  <1> HIDE DEF more
  <1>6. Kept(Tail(todo), more, retained, wanted)
    BY <1>2, <1>4, <1>5 DEF Kept
  <1> QED BY <1>6 DEF more

\* A blob that was acquired is told, kept and settled.
LEMMA KeptWith ==
    ASSUME NEW todo, NEW blobs, NEW retained, NEW wanted, Kept(todo, blobs, retained, wanted),
           todo # <<>>, NEW b, b.request = Head(todo),
           b.outcome = TrueBlob(Head(todo)).representation
    PROVE  Kept(Tail(todo), Append(blobs, b), Append(retained, TrueBlob(Head(todo))), wanted)
  <1> DEFINE q == Head(todo)
             x == TrueBlob(q)
             S == {TrueBlob(p) : p \in wanted}
             more == Append(blobs, b)
             kept == Append(retained, x)
             n == Len(retained)
  <1>1. /\ todo \in Seq(wanted) /\ IsInjective(todo)
        /\ blobs \in Seq(ToSet(blobs)) /\ retained \in Seq(S)
        /\ \A i, k \in DOMAIN retained : retained[i].request = retained[k].request => i = k
        /\ \A p \in ToSet(todo) : \A c \in ToSet(retained) : c.request # p
        /\ {c.request : c \in {d \in ToSet(blobs) : Acquired(d)}} = {c.request : c \in ToSet(retained)}
        /\ \A c \in ToSet(blobs) : Acquired(c) => c.outcome = TrueBlob(c.request).representation
    BY DEF Kept
  <1>2. /\ q \in wanted /\ q \in ToSet(todo)
        /\ Tail(todo) \in Seq(wanted) /\ IsInjective(Tail(todo))
        /\ ToSet(Tail(todo)) \subseteq ToSet(todo) \ {q}
    BY <1>1, TailSet
  <1>3. x.request = q /\ x \in S
    BY <1>2 DEF TrueBlob, Blob
  <1>4. Acquired(b)
    BY DEF Acquired, TrueBlob, Blob
  <1>5. ToSet(more) = ToSet(blobs) \cup {b} /\ more \in Seq(ToSet(more))
    BY <1>1, AppendMore
  <1>6. /\ ToSet(kept) = ToSet(retained) \cup {x} /\ kept \in Seq(S)
        /\ DOMAIN kept = 1..(n + 1)
        /\ \A i \in 1..(n + 1) : kept[i] = IF i = n + 1 THEN x ELSE retained[i]
    <2> HIDE DEF S, x
    <2>1. S \cup {x} = S
      BY <1>3
    <2> QED BY <1>1, <2>1, AppendSet
  <1>7. n \in Nat /\ DOMAIN retained = 1..n /\ \A i \in 1..n : retained[i] \in ToSet(retained)
    <2>1. n \in Nat /\ DOMAIN retained = 1..n
      BY <1>1
    <2> QED BY <2>1 DEF ToSet
  <1> HIDE DEF q, x, S, more, kept, n
  <1>8. \A i, k \in DOMAIN kept : kept[i].request = kept[k].request => i = k
    <2>1. \A i \in 1..n : kept[i] = retained[i] /\ retained[i].request # q
      BY <1>1, <1>2, <1>6, <1>7
    <2>2. kept[n + 1].request = q
      BY <1>3, <1>6, <1>7
    <2>3. \A i \in 1..(n + 1) : i = n + 1 \/ i \in 1..n
      BY <1>7
    <2> QED BY <1>1, <1>6, <1>7, <2>1, <2>2, <2>3
  <1>9. \A p \in ToSet(Tail(todo)) : \A c \in ToSet(kept) : c.request # p
    BY <1>1, <1>2, <1>3, <1>6
  <1>10. b.request = q
    BY DEF q
  <1>11. {c.request : c \in {d \in ToSet(more) : Acquired(d)}} = {c.request : c \in ToSet(kept)}
    <2>1. {d \in ToSet(more) : Acquired(d)} = {d \in ToSet(blobs) : Acquired(d)} \cup {b}
      BY <1>4, <1>5
    <2>2. {c.request : c \in {d \in ToSet(blobs) : Acquired(d)} \cup {b}}
            = {c.request : c \in {d \in ToSet(blobs) : Acquired(d)}} \cup {q}
      BY <1>10, Zenon
    <2>3. {c.request : c \in ToSet(retained) \cup {x}} = {c.request : c \in ToSet(retained)} \cup {q}
      BY <1>3, Zenon
    <2> QED BY <1>1, <1>6, <2>1, <2>2, <2>3
  <1>12. \A c \in ToSet(more) : Acquired(c) => c.outcome = TrueBlob(c.request).representation
    BY <1>1, <1>5 DEF q
  <1>13. Kept(Tail(todo), more, kept, wanted)
    BY <1>2, <1>5, <1>6, <1>8, <1>9, <1>11, <1>12 DEF Kept, S
  <1> QED BY <1>13 DEF more, kept, x, q

\* A blob is settled: the rest of what there is stays.
LEMMA SettledTrue ==
    ASSUME EInv, IInv', stage = "RawBlob", stage' = stage,
           UNCHANGED <<revision, versions, pages, outcome>>,
           DOMAIN got' = DOMAIN got, got'.mr = got.mr, got'.context = got.context,
           got'.version = got.version, got'.files = got.files,
           Kept(got'.todo, got'.blobs, got'.retained, Wanted)
    PROVE  EInv'
  <1>1. VersionsOK' /\ PagesOK' /\ EvidenceTrue'
    BY SameVersions, SamePages, EvidenceStays DEF EInv
  <1>2. ContextOK' /\ ListedOK'
    BY DEF EInv, ContextOK, ListedOK
  <1>3. FilesOK'
    BY DEF EInv, FilesOK
  <1>4. Wanted' = Wanted
    BY DEF Wanted
  <1>5. BlobsOK'
    BY <1>4 DEF EInv, BlobsOK, Settling
  <1> QED BY <1>1, <1>2, <1>3, <1>5 DEF EInv

\* While blobs are read, everything before them is there.
LEMMA RawBlobHas ==
    ASSUME EInv, stage = "RawBlob"
    PROVE  /\ {"mr", "context", "version", "reported", "files", "current", "todo", "blobs", "retained"}
                \subseteq DOMAIN got
           /\ Kept(got.todo, got.blobs, got.retained, Wanted)
BY DEF EInv, FilesOK, BlobsOK, Filed, Settling, Bound

\* A blob that was asked for in vain, or not at all.
LEMMA VainTrue ==
    ASSUME EInv, IInv', stage = "RawBlob", stage' = stage,
           UNCHANGED <<revision, versions, pages, outcome>>, got.todo # <<>>,
           NEW b, b.request = Head(got.todo), ~ Acquired(b),
           got' = [got EXCEPT !.blobs = Append(@, b), !.todo = Tail(@)]
    PROVE  EInv'
  <1>1. /\ {"mr", "context", "version", "reported", "files", "current", "todo", "blobs", "retained"}
                \subseteq DOMAIN got
        /\ Kept(got.todo, got.blobs, got.retained, Wanted)
    BY RawBlobHas
  <1>2. Kept(Tail(got.todo), Append(got.blobs, b), got.retained, Wanted)
    BY <1>1, KeptWithout
  <1>3. /\ DOMAIN got' = DOMAIN got /\ got'.mr = got.mr /\ got'.context = got.context
        /\ got'.version = got.version /\ got'.files = got.files
        /\ got'.todo = Tail(got.todo) /\ got'.blobs = Append(got.blobs, b)
        /\ got'.retained = got.retained
    BY <1>1
  <1> QED BY <1>2, <1>3, SettledTrue

LEMMA UnfetchedTrue ==
    ASSUME EInv, IInv', stage = "RawBlob", stage' = stage,
           UNCHANGED <<revision, versions, pages, outcome>>, got.todo # <<>>,
           Unfetched(Head(got.todo))
    PROVE  EInv'
  <1> DEFINE b == [request |-> Head(got.todo), outcome |-> "SkippedByPolicy", size |-> 0]
  <1>1. got' = [got EXCEPT !.blobs = Append(@, b), !.todo = Tail(@)]
    BY DEF Unfetched
  <1>2. b.request = Head(got.todo) /\ ~ Acquired(b)
    BY DEF Acquired
  <1> HIDE DEF b
  <1> QED BY <1>1, <1>2, VainTrue

LEMMA ReadFailsTrue == EInv /\ ReadFails => EInv'
  <1> SUFFICES ASSUME EInv, ReadFails PROVE EInv'
    OBVIOUS
  <1>1. IInv'
    BY ReadFailsKeeps DEF EInv
  <1>2. UNCHANGED <<revision, versions>>
    BY DEF ReadFails, host
  <1>3. \/ UNCHANGED <<stage, pages, got, outcome>>
        \/ \E kind, why : Fail(kind, why)
        \/ /\ stage = "RawBlob"
           /\ UNCHANGED <<stage, pages, outcome>>
           /\ got.todo # <<>>
           /\ \E kind :
                /\ RecoverableBlobFailure(kind) # None
                /\ got' = [got EXCEPT !.blobs = Append(@,
                                [request |-> Head(got.todo), size |-> 0,
                                 outcome |-> RecoverableBlobFailure(kind)]),
                              !.todo = Tail(@)]
    BY DEF ReadFails, Started, Pending, AskBlob
  <1>4. CASE UNCHANGED <<stage, pages, got, outcome>>
    <2>1. PagesOK'
      <3>1. CASE stage = "CurrentDiffs"
        BY <1>4, <3>1 DEF PagesOK
      <3>2. CASE stage # "CurrentDiffs"
        BY <1>2, <1>4, <3>2, SamePages DEF EInv
      <3> QED BY <3>1, <3>2
    <2> QED BY <1>1, <1>2, <1>4, <2>1, SimpleTrue
  <1>5. CASE \E kind, why : Fail(kind, why)
    BY <1>2, <1>5, FailTrue
  <1>6. ASSUME stage = "RawBlob",
               UNCHANGED <<stage, pages, outcome>>,
               got.todo # <<>>,
               NEW kind,
               RecoverableBlobFailure(kind) # None,
               got' = [got EXCEPT !.blobs = Append(@,
                            [request |-> Head(got.todo), size |-> 0,
                             outcome |-> RecoverableBlobFailure(kind)]),
                          !.todo = Tail(@)]
        PROVE  EInv'
    <2> DEFINE b == [request |-> Head(got.todo), size |-> 0, outcome |-> RecoverableBlobFailure(kind)]
    <2>1. RecoverableBlobFailure(kind) \in {"Missing", "UnauthorizedPrivateFork", "TooLarge", "UnsupportedEncoding"}
      BY <1>6 DEF RecoverableBlobFailure
    <2>2. b.request = Head(got.todo) /\ ~ Acquired(b)
      BY <2>1 DEF Acquired
    <2>3. got' = [got EXCEPT !.blobs = Append(@, b), !.todo = Tail(@)]
      BY <1>6
    <2> HIDE DEF b
    <2> QED BY <1>1, <1>2, <1>6, <2>2, <2>3, VainTrue
  <1> QED BY <1>3, <1>4, <1>5, <1>6

LEMMA BlobsTrue == EInv /\ (SkipBlob \/ RawBlob \/ BlobsRead) => EInv'
  <1> SUFFICES ASSUME EInv, SkipBlob \/ RawBlob \/ BlobsRead PROVE EInv'
    OBVIOUS
  <1>1. stage = "RawBlob"
    BY DEF SkipBlob, RawBlob, BlobsRead
  <1>2. IInv'
    BY BlobsKeeps DEF EInv
  <1>3. CASE SkipBlob
    BY <1>1, <1>2, <1>3, UnfetchedTrue DEF SkipBlob, host
  <1>4. CASE BlobsRead
    <2>1. UNCHANGED <<revision, versions, got, outcome, pages>> /\ stage' = "FinalMergeRequest"
      BY <1>4 DEF BlobsRead, host
    <2>2. PagesOK'
      BY <1>1, <2>1, SamePages DEF EInv
    <2> QED BY <1>1, <1>2, <2>1, <2>2, SimpleTrue
  <1>5. CASE RawBlob
    <2> DEFINE request == Head(got.todo)
               answer == BlobAnswer(request)
               blob == Blob(request, answer)
               told == [request |-> request, size |-> blob.size, outcome |-> blob.representation]
    <2>1. \/ \E kind, why : Ends(kind, why)
          \/ /\ Goes("RawBlob")
             /\ UNCHANGED pages
             /\ got.todo # <<>>
             /\ \/ Unfetched(request)
                \/ got' = [got EXCEPT !.retained = Append(@, blob),
                           !.blobs = Append(@, told), !.todo = Tail(@)]
      BY <1>5 DEF RawBlob, AskBlob
    <2>2. CASE \E kind, why : Ends(kind, why)
      BY <2>2, EndsTrue
    <2>3. CASE /\ Goes("RawBlob")
               /\ UNCHANGED pages
               /\ got.todo # <<>>
               /\ \/ Unfetched(request)
                  \/ got' = [got EXCEPT !.retained = Append(@, blob),
                             !.blobs = Append(@, told), !.todo = Tail(@)]
      <3>1. UNCHANGED <<revision, versions, outcome, pages>> /\ stage' = stage
        BY <1>1, <2>3 DEF Goes, host
      <3>2. CASE Unfetched(request)
        BY <1>1, <1>2, <2>3, <3>1, <3>2, UnfetchedTrue
      <3>3. CASE got' = [got EXCEPT !.retained = Append(@, blob),
                         !.blobs = Append(@, told), !.todo = Tail(@)]
        <4>1. /\ {"mr", "context", "version", "reported", "files", "current", "todo", "blobs", "retained"}
                      \subseteq DOMAIN got
              /\ Kept(got.todo, got.blobs, got.retained, Wanted)
          BY <1>1, RawBlobHas
        <4>2. blob = TrueBlob(Head(got.todo))
          BY DEF TrueBlob
        <4>3. told.request = Head(got.todo) /\ told.outcome = TrueBlob(Head(got.todo)).representation
          BY <4>2
        <4> HIDE DEF request, answer, blob, told
        <4>4. Kept(Tail(got.todo), Append(got.blobs, told), Append(got.retained, blob), Wanted)
          BY <2>3, <4>1, <4>2, <4>3, KeptWith
        <4>5. /\ DOMAIN got' = DOMAIN got /\ got'.mr = got.mr /\ got'.context = got.context
              /\ got'.version = got.version /\ got'.files = got.files
              /\ got'.todo = Tail(got.todo) /\ got'.blobs = Append(got.blobs, told)
              /\ got'.retained = Append(got.retained, blob)
          BY <3>3, <4>1
        <4> QED BY <1>1, <1>2, <3>1, <4>4, <4>5, SettledTrue
      <3> QED BY <2>3, <3>2, <3>3
    <2> QED BY <2>1, <2>2, <2>3
  <1> QED BY <1>3, <1>4, <1>5

-----------------------------------------------------------------------------
(* The end.                                                                *)

\* A revision is found by its refs.
LEMMA RevisionFound == \A r \in Revision : RevisionOf(RefsOf[r]) = r
BY RevisionAssumption DEF RevisionOf

\* No gap and no blocker: the version is whole, every diff is there, and every
\* blob was observed and is content.
LEMMA CompleteMeans ==
    ASSUME NEW e, Assess(e).readiness = "Complete"
    PROVE  /\ e.state \notin {"WithoutFiles", "Overflow"}
           /\ \A f \in ToSet(e.files) : f.diff = "Available"
           /\ \A q \in Expected(e) : \E b \in ToSet(e.blobs) : b.request = q /\ b.outcome = "FileContent"
  <1>1. Blockers(e) = {} /\ Gaps(e) = {}
    BY DEF Assess
  <1>2. VersionBlockers(e) = {} /\ VersionGaps(e) = {} /\ PathGaps(e) = {} /\ BlobGaps(e) = {}
    BY <1>1 DEF Blockers, Gaps
  <1>3. e.state # "WithoutFiles"
    BY <1>2 DEF VersionBlockers, If
  <1>4. e.state # "Overflow"
    BY <1>2 DEF VersionGaps, If
  <1>5. \A f \in ToSet(e.files) : f.diff = "Available"
    <2> SUFFICES ASSUME NEW f \in ToSet(e.files), f.diff # "Available" PROVE FALSE
      OBVIOUS
    <2> DEFINE hidden == {g \in ToSet(e.files) : g.diff # "Available"}
               gaps == {<<"DiffUnavailable", g.path, g.diff>> : g \in hidden}
    <2>1. f \in hidden
      OBVIOUS
    <2>2. gaps \subseteq PathGaps(e)
      BY DEF PathGaps
    <2> HIDE DEF hidden
    <2>3. gaps # {}
      BY <2>1
    <2> HIDE DEF gaps
    <2> QED BY <1>2, <2>2, <2>3
  <1>6. ASSUME NEW q \in Expected(e)
        PROVE  \E b \in ToSet(e.blobs) : b.request = q /\ b.outcome = "FileContent"
    <2>1. /\ q \in {b.request : b \in Observed(e)}
          /\ \A b \in Observed(e) : Acquired(b) /\ b.outcome # "LfsPointer"
      BY <1>2, Zenon DEF BlobGaps
    <2>2. PICK b \in Observed(e) : b.request = q
      BY <2>1
    <2>3. b.outcome = "FileContent"
      BY <2>1 DEF Acquired
    <2>4. b \in ToSet(e.blobs)
      BY DEF Observed, ToSet
    <2> QED BY <2>2, <2>3, <2>4
  <1> QED BY <1>3, <1>4, <1>5, <1>6

LEMMA FinalTrue == EInv /\ FinalMergeRequest => EInv'
  <1> SUFFICES ASSUME EInv, FinalMergeRequest PROVE EInv'
    OBVIOUS
  <1>1. IInv'
    BY FinalKeeps DEF EInv
  <1>2. \/ \E kind, why : Ends(kind, why)
        \/ /\ stage = "FinalMergeRequest"
           /\ UNCHANGED <<revision, versions>>
           /\ stage' = "done"
           /\ outcome' = Snapshot
           /\ pages' = <<>>
    BY DEF FinalMergeRequest, host
  <1>3. CASE \E kind, why : Ends(kind, why)
    BY <1>3, EndsTrue
  <1>4. CASE /\ stage = "FinalMergeRequest"
             /\ UNCHANGED <<revision, versions>>
             /\ stage' = "done"
             /\ outcome' = Snapshot
             /\ pages' = <<>>
    <2>1. VersionsOK' /\ PagesOK'
      BY <1>4, SameVersions, NoPages DEF EInv
    <2>2. ContextOK' /\ ListedOK' /\ FilesOK' /\ BlobsOK'
      BY <1>4 DEF ContextOK, ListedOK, FilesOK, BlobsOK, Verified, Filed, Settling, Bound
    <2>3. PICK r \in Revision :
            /\ got.version.refs = RefsOf[r]
            /\ ToSet(got.files) \subseteq TrueFiles(r)
            /\ Whole(got.version) => ToSet(got.files) = TrueFiles(r) /\ r \notin Capped
      BY <1>4 DEF EInv, FilesOK, Filed, Bound
    <2>4. Kept(got.todo, got.blobs, got.retained, Wanted)
      BY <1>4 DEF EInv, BlobsOK, Settling
    <2>5. got.context.head = got.version.refs.head
      BY <1>4 DEF EInv, ContextOK, Verified, IInv, BoundOK, Bound
    <2> DEFINE e == Evidence
               s == Snapshot
    <2>6. /\ s.kind = Assess(e).readiness /\ s.context = got.context /\ s.version = got.version
          /\ s.files = got.files /\ s.retained = got.retained /\ s.evidence = e
          /\ s.manifest = ManifestOf(got.version, got.files) /\ s.assessment = Assess(e)
      BY DEF Snapshot
    <2>7. /\ e.refs = got.version.refs /\ e.state = got.version.state /\ e.files = got.files
          /\ e.blobs = got.blobs
      BY DEF Evidence
    <2>8. Expected(e) = Wanted
      BY <2>7 DEF Expected, Wanted, WantedOf
    <2> HIDE DEF e, s
    <2>9. RevisionOf(s.version.refs) = r
      BY <2>3, <2>6, RevisionFound
    <2> DEFINE all == UNION {ExpectedBlobs(f.path, RefsOf[r]) : f \in TrueFiles(r)}
    <2>10. Wanted \subseteq all
      BY <2>3 DEF Wanted, WantedOf
    <2>11. TrueBlobs(r) = {TrueBlob(q) : q \in all}
      BY DEF TrueBlobs, TrueBlob
    <2>12. Whole(got.version) => Wanted = all
      BY <2>3 DEF Wanted, WantedOf
    <2> HIDE DEF all
    <2>13. ToSet(got.retained) \subseteq {TrueBlob(q) : q \in Wanted}
      BY <2>4 DEF Kept, ToSet
    <2>14. ToSet(got.retained) \subseteq TrueBlobs(r)
      BY <2>10, <2>11, <2>13
    <2>15. ASSUME s.kind = "Complete"
           PROVE  /\ ToSet(s.files) = TrueFiles(r)
                  /\ ToSet(s.retained) = TrueBlobs(r)
                  /\ \A f \in TrueFiles(r) : f.diff = "Available"
                  /\ \A b \in TrueBlobs(r) : b.representation = "FileContent"
                  /\ r \notin Capped
      <3>1. /\ e.state \notin {"WithoutFiles", "Overflow"}
            /\ \A f \in ToSet(e.files) : f.diff = "Available"
            /\ \A q \in Expected(e) : \E b \in ToSet(e.blobs) : b.request = q /\ b.outcome = "FileContent"
        <4>1. Assess(e).readiness = "Complete"
          BY <2>6, <2>15
        <4> QED BY <4>1, CompleteMeans
      <3>2. Whole(got.version)
        BY <2>7, <3>1 DEF Whole
      <3>3. ASSUME NEW q \in all
            PROVE  TrueBlob(q) \in ToSet(got.retained) /\ TrueBlob(q).representation = "FileContent"
        <4>1. PICK b \in ToSet(got.blobs) : b.request = q /\ b.outcome = "FileContent"
          BY <2>7, <2>8, <2>12, <3>1, <3>2
        <4>2. Acquired(b)
          BY <4>1 DEF Acquired
        <4>3. TrueBlob(q).representation = "FileContent"
          BY <2>4, <4>1, <4>2 DEF Kept
        <4>4. q \in {c.request : c \in ToSet(got.retained)}
          BY <2>4, <4>1, <4>2 DEF Kept
        <4>5. PICK x \in ToSet(got.retained) : x.request = q
          BY <4>4
        <4>6. PICK p \in Wanted : x = TrueBlob(p)
          BY <2>13
        <4>7. x.request = p
          BY <4>6 DEF TrueBlob, Blob
        <4> QED BY <4>3, <4>5, <4>6, <4>7
      <3> QED BY <2>3, <2>6, <2>7, <2>11, <2>14, <3>1, <3>2, <3>3
    <2>16. Replay(s) = "accepted"
      <3> DEFINE kept == [i \in DOMAIN s.retained |-> s.retained[i].request]
                 acquired == {b \in ToSet(s.evidence.blobs) : Acquired(b)}
      <3>1. s.context.head = s.version.refs.head /\ s.manifest = ManifestOf(s.version, s.files)
            /\ s.files = s.evidence.files /\ s.assessment = Assess(s.evidence)
        BY <2>5, <2>6, <2>7
      <3>2. IsInjective(kept)
        BY <2>4, <2>6 DEF Kept, IsInjective
      <3>3. ToSet(kept) = {b.request : b \in ToSet(s.retained)}
        BY DEF ToSet
      <3>4. {b.request : b \in ToSet(s.retained)} = {b.request : b \in acquired}
        BY <2>4, <2>6, <2>7 DEF Kept
      <3>5. ToSet(kept) = {b.request : b \in acquired}
        BY <3>3, <3>4
      <3> HIDE DEF kept, acquired
      <3> QED BY <3>1, <3>2, <3>5 DEF Replay, kept, acquired
    <2>17. EvidenceTrue'
      <3>1. outcome' = s
        BY <1>4 DEF s
      <3>2. LET q == RevisionOf(s.version.refs)
            IN  /\ ToSet(s.files) \subseteq TrueFiles(q)
                /\ ToSet(s.retained) \subseteq TrueBlobs(q)
                /\ s.kind = "Complete" =>
                    /\ ToSet(s.files) = TrueFiles(q)
                    /\ ToSet(s.retained) = TrueBlobs(q)
                    /\ \A f \in TrueFiles(q) : f.diff = "Available"
                    /\ \A b \in TrueBlobs(q) : b.representation = "FileContent"
                    /\ q \notin Capped
                /\ Replay(s) = "accepted"
        BY <2>3, <2>6, <2>9, <2>14, <2>15, <2>16
      <3> QED BY <3>1, <3>2, Zenon DEF EvidenceTrue
    <2> QED BY <1>1, <2>1, <2>2, <2>17 DEF EInv
  <1> QED BY <1>2, <1>3, <1>4

LEMMA InitTrue == Init => EInv
  <1> SUFFICES ASSUME Init PROVE EInv
    OBVIOUS
  <1>1. stage = "InitialMergeRequest" /\ pages = <<>> /\ outcome = None /\ revision = 1
        /\ versions \in {<<>>, <<NewVersion(<<>>, 1)>>}
    BY DEF Init, HostInit
  <1>2. VersionsOK
    <2>1. NewVersion(<<>>, 1) \in Stored /\ NewVersion(<<>>, 1).id = 1
      BY RevisionAssumption DEF NewVersion, Stored
    <2>2. CASE versions = <<>>
      BY <1>1, <2>2, RevisionAssumption DEF VersionsOK
    <2>3. CASE versions = <<NewVersion(<<>>, 1)>>
      <3> DEFINE v == NewVersion(<<>>, 1)
      <3> HIDE DEF v
      <3>1. v \in Stored /\ v.id = 1 /\ versions = <<v>>
        BY <2>1, <2>3 DEF v
      <3> QED BY <1>1, <3>1, RevisionAssumption DEF VersionsOK
    <2> QED BY <1>1, <2>2, <2>3
  <1>3. PagesOK
    BY <1>1 DEF PagesOK, ToSet
  <1>4. ContextOK /\ ListedOK /\ FilesOK /\ BlobsOK
    BY <1>1 DEF ContextOK, ListedOK, FilesOK, BlobsOK, Verified, Filed, Settling, Bound
  <1>5. EvidenceTrue
    BY <1>1 DEF EvidenceTrue, Taken
  <1> QED BY <1>2, <1>3, <1>4, <1>5, InitOK DEF EInv

LEMMA StepTrue == EInv /\ [Next]_vars => EInv'
  <1> SUFFICES ASSUME EInv, [Next]_vars PROVE EInv'
    OBVIOUS
  <1>1. CASE HostStep
    BY <1>1, HostTrue
  <1>2. CASE OutOfBudget \/ DeadlinePasses \/ Garbled
    BY <1>2, FailTrue DEF OutOfBudget, DeadlinePasses, Garbled, host
  <1>3. CASE ReadFails
    BY <1>3, ReadFailsTrue
  <1>4. CASE InitialMergeRequest \/ TargetProject \/ SourceProject
    BY <1>4, InitialTrue, TargetTrue, SourceTrue
  <1>5. CASE DiffVersions \/ RefreshedMergeRequest \/ ExactDiffVersion \/ CurrentDiffs
    BY <1>5, VersionsTrue, RefreshedTrue, ExactTrue, CurrentTrue
  <1>6. CASE SkipBlob \/ RawBlob \/ BlobsRead
    BY <1>6, BlobsTrue
  <1>7. CASE FinalMergeRequest
    BY <1>7, FinalTrue
  <1>8. CASE UNCHANGED vars
    <2>1. UNCHANGED <<revision, versions, stage, pages, got, outcome>>
      BY <1>8 DEF vars, host
    <2>2. IInv'
      BY <2>1 DEF EInv, IInv, PreparedOK, BoundOK
    <2>3. PagesOK'
      BY <2>1, SamePages DEF EInv, PagesOK
    <2> QED BY <2>1, <2>2, <2>3, SimpleTrue
  <1> QED
    BY <1>1, <1>2, <1>3, <1>4, <1>5, <1>6, <1>7, <1>8 DEF Next, Controller, Ended

\* What a snapshot claims is so, for any revisions, limits and faults: a
\* complete one is every file and every blob of one revision, any other holds
\* nothing else, and each passes its own replay.
THEOREM EvidenceTrueHolds == Spec => []EvidenceTrue
  <1>1. EInv => EvidenceTrue
    BY DEF EInv
  <1> QED BY InitTrue, StepTrue, <1>1, PTL DEF Spec

-----------------------------------------------------------------------------
(* The pages of a listing.                                                 *)

\* As many pages as the items fill, the last one with what is left.
LEMMA PagesFill ==
    ASSUME NEW n \in Nat, NEW per \in Nat \ {0}
    PROVE  /\ PagesOf(n, per) \in Nat \ {0}
           /\ \A k \in 1..PagesOf(n, per) :
                /\ (k - 1) * per \in Nat
                /\ ItemsOnPage(n, k, per) \in 0..per
                /\ (k - 1) * per + ItemsOnPage(n, k, per) =
                    IF k = PagesOf(n, per) THEN n ELSE k * per
                /\ k # PagesOf(n, per) => ItemsOnPage(n, k, per) = per
  <1> DEFINE m == PagesOf(n, per)
  <1>1. m \in Nat \ {0} /\ (m - 1) * per <= n /\ n <= m * per
    <2>1. CASE n = 0
      <3>1. m = 1
        BY <2>1 DEF PagesOf
      <3>2. 0 * per = 0 /\ 1 * per = per
        OBVIOUS
      <3> HIDE DEF m
      <3> QED BY <2>1, <3>1, <3>2
    <2>2. CASE n # 0
      <3> DEFINE x == n + per - 1
                 r == x % per
      <3>1. m = x \div per
        BY <2>2 DEF PagesOf
      <3>2. x \in Nat /\ x >= per
        BY <2>2
      <3>3. m \in Int /\ r \in 0..(per - 1) /\ x = per * m + r
        <4> HIDE DEF x
        <4> QED BY <3>1, <3>2
      <3> HIDE DEF m, r
      <3>4. m \in Nat \ {0}
        <4>1. CASE m <= 0
          <5>1. per * m <= 0
            BY <3>3, <4>1
          <5> QED BY <3>2, <3>3, <5>1
        <4> QED BY <3>3, <4>1
      <3>5. (m - 1) * per = per * m - per /\ m * per = per * m /\ per * m \in Nat
        BY <3>4
      <3> DEFINE y == per * m
      <3> HIDE DEF y
      <3>6. x = y + r /\ (m - 1) * per = y - per /\ m * per = y /\ y \in Nat
        BY <3>3, <3>5 DEF y
      <3>7. y - per <= n /\ n <= y
        BY <3>3, <3>6
      <3> QED BY <3>4, <3>6, <3>7
    <2> QED BY <2>1, <2>2
  <1> HIDE DEF m
  <1>2. ASSUME NEW k \in 1..m
        PROVE  /\ (k - 1) * per \in Nat
               /\ ItemsOnPage(n, k, per) \in 0..per
               /\ (k - 1) * per + ItemsOnPage(n, k, per) = IF k = m THEN n ELSE k * per
               /\ k # m => ItemsOnPage(n, k, per) = per
    <2> DEFINE x == (k - 1) * per
               y == k * per
    <2>1. x \in Nat /\ y = x + per
      <3>1. k - 1 \in Nat
        OBVIOUS
      <3>2. \A a, b \in Nat : a * b \in Nat /\ (a + 1) * b = a * b + b
        OBVIOUS
      <3>3. (k - 1) + 1 = k
        OBVIOUS
      <3> QED BY <3>1, <3>2, <3>3
    <2>2. k = m => x <= n /\ n <= y
      BY <1>1
    <2>3. k # m => y <= n
      <3>1. ASSUME k # m PROVE y <= (m - 1) * per
        <4>1. PICK d \in Nat : m - 1 = k + d
          <5>1. m - 1 - k \in Nat /\ m - 1 = k + (m - 1 - k)
            BY <1>1, <3>1
          <5> QED BY <5>1
        <4>2. (k + d) * per = y + d * per /\ d * per \in Nat
          OBVIOUS
        <4>3. y \in Nat
          BY <2>1
        <4> HIDE DEF y
        <4> QED BY <4>1, <4>2, <4>3
      <3>2. (m - 1) * per \in Int /\ y \in Int
        BY <1>1
      <3> HIDE DEF y
      <3> QED BY <1>1, <3>1, <3>2
    <2>4. ItemsOnPage(n, k, per) = IF n - x < 0 THEN 0 ELSE IF n - x < per THEN n - x ELSE per
      BY DEF ItemsOnPage
    <2> HIDE DEF x, y
    <2>5. /\ ItemsOnPage(n, k, per) \in 0..per
          /\ x + ItemsOnPage(n, k, per) = IF k = m THEN n ELSE y
          /\ k # m => ItemsOnPage(n, k, per) = per
      BY <2>1, <2>2, <2>3, <2>4
    <2> QED BY <2>1, <2>5 DEF x, y
  <1> QED BY <1>1, <1>2 DEF m

\* Page k of a listing of the items, and its first k pages.
PageOf(items, k) ==
    [number |-> k, per |-> PerPage,
     items |-> SubSeq(items, (k - 1) * PerPage + 1,
                      (k - 1) * PerPage + ItemsOnPage(Len(items), k, PerPage)),
     total |-> IF totals THEN Len(items) ELSE Absent,
     pages |-> IF totals THEN PagesOf(Len(items), PerPage) ELSE Absent,
     next |-> NextOf(Len(items), k, PerPage)]

FirstPages(items, k) == [i \in 1..k |-> PageOf(items, i)]

\* A listing that is read has its first pages, and not yet the last one.
Paged(items) == \E k \in 0..(PagesOf(Len(items), PerPage) - 1) : pages = FirstPages(items, k)

\* The same for the items of a listing and the page size of the limits.
LEMMA PagesOfItems ==
    ASSUME NEW S, NEW items \in Seq(S)
    PROVE  /\ Len(items) \in Nat
           /\ PagesOf(Len(items), PerPage) \in Nat \ {0}
           /\ \A k \in 1..PagesOf(Len(items), PerPage) :
                /\ (k - 1) * PerPage \in Nat
                /\ ItemsOnPage(Len(items), k, PerPage) \in 0..PerPage
                /\ (k - 1) * PerPage + ItemsOnPage(Len(items), k, PerPage) =
                    IF k = PagesOf(Len(items), PerPage) THEN Len(items) ELSE k * PerPage
                /\ k # PagesOf(Len(items), PerPage) =>
                    ItemsOnPage(Len(items), k, PerPage) = PerPage
                /\ (k - 1) * PerPage + ItemsOnPage(Len(items), k, PerPage) <= Len(items)
  <1> DEFINE n == Len(items)
             m == PagesOf(n, PerPage)
  <1>1. n \in Nat /\ PerPage \in Nat \ {0}
    BY LimitsAssumption
  <1> HIDE DEF n
  <1>2. m \in Nat \ {0} /\ \A k \in 1..m :
            /\ (k - 1) * PerPage \in Nat
            /\ ItemsOnPage(n, k, PerPage) \in 0..PerPage
            /\ (k - 1) * PerPage + ItemsOnPage(n, k, PerPage) = IF k = m THEN n ELSE k * PerPage
            /\ k # m => ItemsOnPage(n, k, PerPage) = PerPage
    BY <1>1, PagesFill
  <1>3. ASSUME NEW k \in 1..m
        PROVE  (k - 1) * PerPage + ItemsOnPage(n, k, PerPage) <= n
    <2> DEFINE x == (k - 1) * PerPage
    <2>1. x \in Nat /\ ItemsOnPage(n, k, PerPage) \in 0..PerPage
      BY <1>2
    <2> HIDE DEF x
    <2>2. ItemsOnPage(n, k, PerPage) = IF n - x < 0 THEN 0 ELSE IF n - x < PerPage THEN n - x ELSE PerPage
      BY DEF ItemsOnPage, x
    <2>3. x + ItemsOnPage(n, k, PerPage) <= n \/ ItemsOnPage(n, k, PerPage) = 0
      BY <1>1, <2>1, <2>2
    <2>4. k = m => x + ItemsOnPage(n, k, PerPage) = n
      BY <1>2 DEF x
    <2>5. k # m => ItemsOnPage(n, k, PerPage) # 0
      BY <1>1, <1>2
    <2>6. x + ItemsOnPage(n, k, PerPage) <= n
      BY <1>1, <2>3, <2>4, <2>5
    <2> QED BY <2>6 DEF x
  <1> HIDE DEF m
  <1> QED BY <1>1, <1>2, <1>3 DEF n, m

\* The items of page k.
LEMMA PageItems ==
    ASSUME NEW S, NEW items \in Seq(S), NEW k \in 1..PagesOf(Len(items), PerPage)
    PROVE  /\ PageOf(items, k).items \in Seq(S)
           /\ Len(PageOf(items, k).items) = ItemsOnPage(Len(items), k, PerPage)
  <1>1. PICK x \in Nat : x = (k - 1) * PerPage
    BY PagesOfItems
  <1>2. PICK y \in Nat : y = ItemsOnPage(Len(items), k, PerPage) /\ x + y <= Len(items)
    BY <1>1, PagesOfItems
  <1>3. \A i \in (x + 1)..(x + y) : items[i] \in S
    BY <1>2
  <1>4. /\ SubSeq(items, x + 1, x + y) \in Seq(S)
        /\ Len(SubSeq(items, x + 1, x + y)) = IF x + 1 <= x + y THEN x + y - (x + 1) + 1 ELSE 0
    BY <1>3, SubSeqProperties
  <1>5. Len(SubSeq(items, x + 1, x + y)) = y
    BY <1>4
  <1>6. PageOf(items, k).items = SubSeq(items, x + 1, x + y)
    BY <1>1, <1>2 DEF PageOf
  <1> QED BY <1>2, <1>4, <1>5, <1>6

\* The page that follows is the listing's next one, the parser accepts it, and
\* knows whether it is the last.
LEMMA NextOfPages ==
    ASSUME NEW S, NEW items \in Seq(S), NEW k \in 0..(PagesOf(Len(items), PerPage) - 1),
           pages = FirstPages(items, k)
    PROVE  /\ Len(pages) = k
           /\ PageVerdict(PageAnswer(items), Len(pages) + 1, PerPage) = "accepted"
           /\ NextPage(PageAnswer(items), Len(pages) + 1, PerPage) =
                NextOf(Len(items), k + 1, PerPage)
           /\ PagesRead(items) = FirstPages(items, k + 1)
  <1> DEFINE n == Len(items)
             m == PagesOf(n, PerPage)
             page == k + 1
             r == PageAnswer(items)
             next == NextOf(n, page, PerPage)
  <1>1. n \in Nat /\ m \in Nat \ {0} /\ PerPage \in Nat \ {0}
    BY PagesOfItems, LimitsAssumption
  <1>2. page \in 1..m /\ k \in Nat
    BY <1>1
  <1>3. Len(pages) = k
    <2>1. DOMAIN pages = 1..k
      BY DEF FirstPages
    <2>2. pages \in Seq({PageOf(items, i) : i \in 1..k})
      BY <1>2 DEF FirstPages
    <2> QED BY <1>2, <2>1, <2>2
  <1>4. /\ Len(r.items) = ItemsOnPage(n, page, PerPage)
        /\ Len(r.items) \in 0..PerPage
        /\ page # m => Len(r.items) = PerPage
    <2>1. r.items = PageOf(items, page).items
      BY <1>3 DEF PageAnswer, PageOf
    <2> HIDE DEF r, page, m, n
    <2> QED BY <1>2, <2>1, PageItems, PagesOfItems DEF n, m
  <1>5. /\ r.echo = page /\ r.per = PerPage /\ r.prev = Absent /\ r.link = Absent
        /\ r.next = next
        /\ r.total = IF totals THEN n ELSE Absent
        /\ r.pages = IF totals THEN m ELSE Absent
    BY <1>3 DEF PageAnswer
  <1>6. Absent \notin Nat
    BY AbsentAssumption
  <1>7. next \in Nat /\ (next # Terminal => next = page + 1 /\ page # m) /\ (page # m => next # Terminal)
    BY <1>1, <1>2 DEF NextOf, Terminal
  <1>8. (r.total # Absent) <=> totals
    BY <1>1, <1>5, <1>6
  <1>9. NextPage(r, page, PerPage) = next
    <2> HIDE DEF r, n, m, page, next
    <2> QED BY <1>5, <1>6, <1>7, <1>8 DEF NextPage, NextSignal, next
  <1>10. PageVerdict(r, page, PerPage) = "accepted"
    <2> HIDE DEF r, n, m, page, next
    <2>1. EchoVerdict(r, page, PerPage) = "accepted"
      BY <1>5 DEF EchoVerdict
    <2>2. NextSignal(r) = next /\ next # Absent
      BY <1>5, <1>6, <1>7 DEF NextSignal
    <2>3. (r.total = Absent) <=> (r.pages = Absent)
      BY <1>1, <1>5, <1>6
    <2>4. r.total # Absent => TotalsFit(r.total, r.pages, page, PerPage, Len(r.items))
      BY <1>1, <1>2, <1>4, <1>5, <1>8 DEF TotalsFit, m
    <2>5. ~ (Len(r.items) > PerPage)
      BY <1>1, <1>4
    <2>6. next # Terminal => ~ (next <= page) /\ next = page + 1 /\ Len(r.items) # 0
      BY <1>1, <1>2, <1>4, <1>7
    <2> QED BY <1>5, <1>9, <2>1, <2>2, <2>3, <2>4, <2>5, <2>6 DEF PageVerdict
  <1>11. PagesRead(items) = FirstPages(items, k + 1)
    <2> DEFINE last == Page(r, page, PerPage)
    <2>1. last = PageOf(items, page)
      <3>1. /\ r.items = PageOf(items, page).items
            /\ r.total = PageOf(items, page).total
            /\ r.pages = PageOf(items, page).pages
        BY <1>3 DEF PageAnswer, PageOf
      <3> HIDE DEF r
      <3> QED BY <1>9, <3>1 DEF Page, PageOf
    <2>2. PagesRead(items) = Append(pages, last)
      BY <1>3 DEF PagesRead
    <2> HIDE DEF last, r, page, next, n, m
    <2>3. pages \in Seq({PageOf(items, i) : i \in 1..k})
      BY <1>2 DEF FirstPages
    <2>4. Append(pages, last) = [i \in 1..(k + 1) |-> IF i = k + 1 THEN last ELSE pages[i]]
      <3> DEFINE P == {PageOf(items, i) : i \in 1..k}
      <3>1. /\ DOMAIN Append(pages, last) = 1..(k + 1)
            /\ \A i \in 1..(k + 1) : Append(pages, last)[i] = IF i = k + 1 THEN last ELSE pages[i]
            /\ Append(pages, last) \in Seq(P \cup {last})
        <4> HIDE DEF P
        <4> QED BY <1>3, <2>3, AppendSet DEF P
      <3> DEFINE more == Append(pages, last)
      <3> HIDE DEF P, more
      <3>2. more \in Seq(P \cup {last}) /\ DOMAIN more = 1..(k + 1)
        BY <3>1 DEF more
      <3>3. more \in [1..(k + 1) -> P \cup {last}]
        BY <3>2, LenProperties
      <3>4. \A i \in 1..(k + 1) : more[i] = IF i = k + 1 THEN last ELSE pages[i]
        BY <3>1 DEF more
      <3>5. more = [i \in 1..(k + 1) |-> IF i = k + 1 THEN last ELSE pages[i]]
        BY <3>3, <3>4
      <3> QED BY <3>5 DEF more
    <2>5. \A i \in 1..(k + 1) : (IF i = k + 1 THEN last ELSE pages[i]) = PageOf(items, i)
      <3>1. \A i \in 1..k : pages[i] = PageOf(items, i)
        BY DEF FirstPages
      <3>2. \A i \in 1..(k + 1) : i = k + 1 \/ i \in 1..k
        BY <1>2
      <3> QED BY <2>1, <3>1, <3>2 DEF page
    <2> QED BY <2>2, <2>4, <2>5 DEF FirstPages
  <1> QED BY <1>3, <1>9, <1>10, <1>11

\* All pages of a listing put together are its items.
LEMMA PagesJoin ==
    ASSUME NEW S, NEW items \in Seq(S)
    PROVE  LET read == FirstPages(items, PagesOf(Len(items), PerPage))
           IN  FlattenSeq([i \in DOMAIN read |-> read[i].items]) = items
  <1> DEFINE n == Len(items)
             m == PagesOf(n, PerPage)
             seqs == [i \in 1..m |-> PageOf(items, i).items]
             c == [i \in 0..m |-> IF i = m THEN n ELSE i * PerPage]
  <1>1. n \in Nat /\ m \in Nat \ {0}
    BY PagesOfItems
  <1>2. \A k \in 1..m :
            /\ (k - 1) * PerPage \in Nat
            /\ (k - 1) * PerPage + ItemsOnPage(n, k, PerPage) = IF k = m THEN n ELSE k * PerPage
            /\ (k - 1) * PerPage + ItemsOnPage(n, k, PerPage) <= n
            /\ ItemsOnPage(n, k, PerPage) \in Nat
    BY PagesOfItems
  <1> HIDE DEF n, m
  <1>3. \A k \in 1..m : c[k - 1] = (k - 1) * PerPage /\ c[k - 1] \in Nat
    <2>1. \A k \in 1..m : k - 1 \in 0..m /\ k - 1 # m
      BY <1>1
    <2> QED BY <1>2, <2>1
  <1>4. \A k \in 1..m : c[k] = (k - 1) * PerPage + ItemsOnPage(n, k, PerPage)
    <2>1. \A k \in 1..m : k \in 0..m
      BY <1>1
    <2> QED BY <1>2, <2>1
  <1>5. c[0] = 0 /\ c[m] = n
    <2>1. 0 * PerPage = 0 /\ 0 # m /\ m \in 0..m /\ 0 \in 0..m
      BY <1>1, LimitsAssumption
    <2> QED BY <2>1
  <1>6. DOMAIN c = 0..m /\ c = [i \in 0..m |-> c[i]]
    OBVIOUS
  <1> HIDE DEF c
  <1>7. \A k \in 1..m : c[k - 1] <= c[k] /\ c[k - 1] \in 0..n
    <2> TAKE k \in 1..m
    <2> DEFINE x == (k - 1) * PerPage
               y == ItemsOnPage(n, k, PerPage)
    <2>1. x \in Nat /\ y \in Nat /\ x + y <= n /\ c[k - 1] = x /\ c[k] = x + y
      BY <1>2, <1>3, <1>4
    <2> HIDE DEF x, y
    <2> QED BY <1>1, <2>1
  <1>8. c \in [0..m -> 0..n]
    <2>1. ASSUME NEW i \in 0..m PROVE c[i] \in 0..n
      <3>1. CASE i = m
        BY <1>1, <1>5, <3>1
      <3>2. CASE i # m
        <4>1. i + 1 \in 1..m /\ i = i + 1 - 1
          BY <1>1, <3>2
        <4> QED BY <1>7, <4>1
      <3> QED BY <3>1, <3>2
    <2> QED BY <1>6, <2>1
  <1>9. \A i \in 1..m : seqs[i] = SubSeq(items, c[i - 1] + 1, c[i])
    BY <1>3, <1>4 DEF PageOf, n
  <1>10. DOMAIN seqs = 1..m /\ Len(seqs) = m
    BY <1>1
  <1> HIDE DEF seqs
  <1>11. FlattenSeq(seqs) = items
    BY <1>1, <1>5, <1>7, <1>8, <1>9, <1>10, FlattenCuts DEF n
  <1>12. [i \in DOMAIN FirstPages(items, m) |-> FirstPages(items, m)[i].items] = seqs
    BY DEF FirstPages, seqs
  <1> QED BY <1>11, <1>12 DEF m, n

\* They make one listing.
LEMMA PagesCollect ==
    ASSUME NEW S, NEW items \in Seq(S),
           Len(items) <= MaxItems, PagesOf(Len(items), PerPage) <= MaxPages
    PROVE  CollectVerdict(FirstPages(items, PagesOf(Len(items), PerPage))) = "accepted"
  <1> DEFINE n == Len(items)
             m == PagesOf(n, PerPage)
             read == FirstPages(items, m)
             joined == FlattenSeq([i \in DOMAIN read |-> read[i].items])
  <1>1. n \in Nat /\ m \in Nat \ {0}
    BY PagesOfItems
  <1>2. joined = items
    BY PagesJoin
  <1> HIDE DEF n, m, joined
  <1>3. DOMAIN read = 1..m /\ Len(read) = m /\ \A i \in 1..m : read[i] = PageOf(items, i)
    BY <1>1 DEF FirstPages
  <1>4. read # <<>> /\ 1 \in 1..m /\ m \in 1..m
    BY <1>1, <1>3
  <1> HIDE DEF read
  <1>5. \A i \in 1..m : /\ read[i].number = i
                        /\ read[i].per = PerPage
                        /\ read[i].next = NextOf(n, i, PerPage)
                        /\ read[i].total = (IF totals THEN n ELSE Absent)
                        /\ read[i].pages = (IF totals THEN m ELSE Absent)
    BY <1>3 DEF PageOf, n, m
  <1>6. \A i \in 1..m : i > 1 => i - 1 \in 1..m /\ read[i - 1].next = i
    <2> TAKE i \in 1..m
    <2> HAVE i > 1
    <2>1. i - 1 \in 1..m /\ i - 1 < m /\ i - 1 + 1 = i
      BY <1>1
    <2>2. NextOf(n, i - 1, PerPage) = i
      BY <2>1 DEF NextOf, m
    <2> QED BY <1>5, <2>1, <2>2
  <1>7. read[m].next = Terminal
    BY <1>1, <1>4, <1>5 DEF NextOf, m
  <1>8. ~ (Len(read) > MaxPages) /\ ~ (Len(items) > MaxItems)
    <2>1. m <= MaxPages /\ n <= MaxItems /\ MaxPages \in Nat /\ MaxItems \in Nat
      BY LimitsAssumption DEF m, n
    <2>2. ~ (m > MaxPages) /\ ~ (n > MaxItems)
      BY <1>1, <2>1
    <2> QED BY <1>3, <2>2 DEF n
  <1>9. \A i \in 1..m : ~ (i < i) /\ ~ (i > i)
    OBVIOUS
  <1>10. read[1].total \in {Absent, n}
    BY <1>4, <1>5
  <1>11. joined = FlattenSeq([i \in DOMAIN read |-> read[i].items])
    BY DEF joined
  <1>12. CollectVerdict(read) = "accepted"
    BY <1>2, <1>3, <1>4, <1>5, <1>6, <1>7, <1>8, <1>9, <1>10, <1>11 DEF CollectVerdict, n
  <1> QED BY <1>12 DEF read, m, n

\* And the listing says so itself: its pages are numbered, only the last one has
\* no successor, and the items they count are those that are there.
Receipts(items, receipts) ==
    receipts = [i \in 1..PagesOf(Len(items), PerPage) |->
                    [number |-> i, items |-> Len(PageOf(items, i).items),
                     more |-> PageOf(items, i).next # Terminal]]

\* The pages are collected into the whole listing, with a receipt of each.
LEMMA PagesListed ==
    ASSUME NEW S, NEW items \in Seq(S)
    PROVE  LET listing == Listing(FirstPages(items, PagesOf(Len(items), PerPage)))
           IN  listing.items = items /\ Receipts(items, listing.pages)
  <1> DEFINE m == PagesOf(Len(items), PerPage)
             read == FirstPages(items, m)
  <1>1. Listing(read).items = items
    BY PagesJoin DEF Listing
  <1>2. Listing(read).pages = [i \in DOMAIN read |-> [number |-> i, items |-> Len(read[i].items),
                                                     more |-> read[i].next # Terminal]]
    BY DEF Listing
  <1>3. DOMAIN read = 1..m /\ \A i \in 1..m : read[i] = PageOf(items, i)
    BY DEF FirstPages
  <1> HIDE DEF read, m
  <1>4. Listing(read).pages = [i \in 1..m |-> [number |-> i, items |-> Len(PageOf(items, i).items),
                                              more |-> PageOf(items, i).next # Terminal]]
    BY <1>2, <1>3
  <1> QED BY <1>1, <1>4 DEF Receipts, read, m

\* What the receipts count, and what leaves nothing to say against a listing.
ItemsTold(receipts) == MapThenSumSet(LAMBDA i : receipts[i].items, DOMAIN receipts)

\* Receipts that count up from the first page and tell every item have no issue.
LEMMA NoIssues ==
    ASSUME NEW listing, NEW receipts, listing.pages = receipts, receipts # <<>>,
           \A p \in ToSet(receipts) : p.number # 0,
           Head(receipts).number = 1, ~ Last(receipts).more,
           ItemsTold(receipts) = Len(listing.items),
           \A j \in DOMAIN receipts : j > 1 =>
                receipts[j - 1].more /\ receipts[j].number = receipts[j - 1].number + 1
    PROVE  PaginationIssues(listing) = {}
  <1>1. {j \in {i \in DOMAIN receipts : i > 1} : ~receipts[j - 1].more} = {}
    OBVIOUS
  <1>2. {j \in {i \in DOMAIN receipts : i > 1} :
            receipts[j].number # receipts[j - 1].number + 1} = {}
    OBVIOUS
  <1> QED BY <1>1, <1>2 DEF PaginationIssues, If, ItemsTold

\* A listing with the receipt of every page of it is complete.
LEMMA PagesComplete ==
    ASSUME NEW S, NEW items \in Seq(S), NEW listing, NEW receipts, listing.pages = receipts,
           Receipts(items, receipts), Len(listing.items) = Len(items)
    PROVE  ListingComplete(listing)
  <1> DEFINE n == Len(items)
             m == PagesOf(n, PerPage)
             more == [i \in 1..m |-> receipts[i].items]
  <1>1. n \in Nat /\ m \in Nat \ {0}
    BY PagesOfItems
  <1>3. /\ DOMAIN receipts = 1..m /\ receipts \in Seq({receipts[i] : i \in 1..m})
        /\ \A i \in 1..m : receipts[i] =
                [number |-> i, items |-> Len(PageOf(items, i).items),
                 more |-> PageOf(items, i).next # Terminal]
    <2> HIDE DEF m
    <2>3. DOMAIN receipts = 1..m /\ receipts = [i \in 1..m |-> receipts[i]]
      BY DEF Receipts, m
    <2>4. receipts \in [1..m -> {receipts[i] : i \in 1..m}]
      BY <2>3
    <2>5. \A i \in 1..m : receipts[i] =
                [number |-> i, items |-> Len(PageOf(items, i).items),
                 more |-> PageOf(items, i).next # Terminal]
      BY DEF Receipts, m
    <2> HIDE DEF more
    <2> QED BY <1>1, <2>3, <2>4, <2>5
  <1>4. \A i \in 1..m : /\ receipts[i].number = i
                        /\ receipts[i].items = ItemsOnPage(n, i, PerPage)
                        /\ receipts[i].more <=> i < m
    <2> TAKE i \in 1..m
    <2>1. Len(PageOf(items, i).items) = ItemsOnPage(n, i, PerPage)
      BY PageItems
    <2>2. (PageOf(items, i).next # Terminal) <=> i < m
      BY <1>1 DEF PageOf, NextOf, Terminal
    <2> HIDE DEF more, m
    <2>3. receipts[i] = [number |-> i, items |-> Len(PageOf(items, i).items),
                         more |-> PageOf(items, i).next # Terminal]
      BY <1>3
    <2>4. receipts[i].number = i /\ receipts[i].items = ItemsOnPage(n, i, PerPage)
      BY <2>1, <2>3
    <2>5. receipts[i].more <=> PageOf(items, i).next # Terminal
      <3> DEFINE b == PageOf(items, i).next # Terminal
                 k == Len(PageOf(items, i).items)
      <3>1. receipts[i] = [number |-> i, items |-> k, more |-> b]
        BY <2>3
      <3> HIDE DEF b, k
      <3>2. receipts[i].more = b
        BY <3>1
      <3> QED BY <3>2 DEF b
    <2> QED BY <2>2, <2>4, <2>5
  <1>5. \A k \in 1..m :
            /\ (k - 1) * PerPage \in Nat
            /\ (k - 1) * PerPage + ItemsOnPage(n, k, PerPage) = IF k = m THEN n ELSE k * PerPage
            /\ ItemsOnPage(n, k, PerPage) \in Nat
    BY PagesOfItems
  <1> HIDE DEF n, m
  <1>6. MapThenSumSet(LAMBDA i : receipts[i].items, DOMAIN receipts) = n
    <2> DEFINE c == [i \in 0..m |-> IF i = m THEN n ELSE i * PerPage]
    <2>1. DOMAIN more = 1..m /\ \A i \in 1..m : more[i] = ItemsOnPage(n, i, PerPage)
      BY <1>4
    <2>2. \A k \in 1..m : c[k - 1] = (k - 1) * PerPage
      <3>1. \A k \in 1..m : k - 1 \in 0..m /\ k - 1 # m
        BY <1>1
      <3> QED BY <3>1
    <2>3. \A k \in 1..m : c[k] = c[k - 1] + more[k]
      <3>1. \A k \in 1..m : k \in 0..m
        BY <1>1
      <3> QED BY <1>5, <2>1, <2>2, <3>1
    <2>4. c[0] = 0 /\ c[m] = n
      <3>1. 0 * PerPage = 0 /\ 0 # m /\ m \in 0..m /\ 0 \in 0..m
        BY <1>1, LimitsAssumption
      <3> QED BY <3>1
    <2>5. c \in [0..m -> Nat]
      <3>1. \A i \in 0..m : i # m => i * PerPage \in Nat
        <4>1. PerPage \in Nat /\ \A a, b \in Nat : a * b \in Nat
          BY LimitsAssumption
        <4> QED BY <4>1
      <3> QED BY <1>1, <3>1
    <2> HIDE DEF c, more
    <2>6. IsFiniteSet(DOMAIN more)
      <3>1. IsFiniteSet(1..m)
        BY <1>1, FS_Interval
      <3> QED BY <2>1, <3>1
    <2>7. \A d \in DOMAIN more : more[d] \in Nat
      BY <1>5, <2>1
    <2>8. PICK g : Sums(more, g) /\ MapThenSumSet(LAMBDA i : receipts[i].items, DOMAIN receipts) = g[DOMAIN more]
      <3> DEFINE total(g, s) == IF s = {} THEN 0
                                ELSE receipts[CHOOSE x \in s : TRUE].items + g[s \ {CHOOSE x \in s : TRUE}]
                 g == CHOOSE h : h = [s \in SUBSET DOMAIN receipts |-> total(h, s)]
      <3>1. MapThenSumSet(LAMBDA i : receipts[i].items, DOMAIN receipts) = g[DOMAIN receipts]
        BY DEF MapThenSumSet, MapThenFoldSet
      <3>2. DOMAIN receipts = DOMAIN more
        BY <1>3, <2>1
      <3>3. \A h, s : s \in SUBSET DOMAIN more => total(h, s) = Plus(more, h, s)
        <4> SUFFICES ASSUME NEW h, NEW s \in SUBSET DOMAIN more PROVE total(h, s) = Plus(more, h, s)
          OBVIOUS
        <4>1. CASE s = {}
          BY <4>1 DEF Plus
        <4>2. CASE s # {}
          <5>1. OneOf(s) \in 1..m
            BY <2>1, <4>2, OneOfIt
          <5>2. more[OneOf(s)] = receipts[OneOf(s)].items
            BY <5>1 DEF more
          <5> QED BY <4>2, <5>2 DEF Plus, OneOf
        <4> QED BY <4>1, <4>2
      <3>4. PICK h : h = [s \in SUBSET DOMAIN more |-> Plus(more, h, s)]
        BY <2>6, SumExists
      <3>5. \E x : x = [s \in SUBSET DOMAIN receipts |-> total(x, s)]
        <4>1. \A s \in SUBSET DOMAIN more : total(h, s) = Plus(more, h, s)
          BY <3>3
        <4> HIDE DEF total
        <4>2. h = [s \in SUBSET DOMAIN receipts |-> total(h, s)]
          BY <3>2, <3>4, <4>1
        <4> QED BY <4>2
      <3>6. g = [s \in SUBSET DOMAIN receipts |-> total(g, s)]
        BY <3>5
      <3> HIDE DEF g
      <3>7. Sums(more, g)
        <4>1. \A s \in SUBSET DOMAIN more : total(g, s) = Plus(more, g, s)
          BY <3>3
        <4> HIDE DEF total
        <4> QED BY <3>2, <3>6, <4>1 DEF Sums
      <3> QED BY <3>1, <3>2, <3>7
    <2>9. g[DOMAIN more] = c[m]
      <3>1. \A k \in Nat : \A d \in [0..k -> Nat] :
                DOMAIN more = 1..k /\ d[0] = 0 /\ (\A i \in 1..k : d[i] = d[i - 1] + more[i])
                    => g[DOMAIN more] = d[k]
        BY <2>6, <2>7, <2>8, SumRuns
      <3> QED BY <1>1, <2>1, <2>3, <2>4, <2>5, <3>1
    <2> QED BY <2>4, <2>8, <2>9
  <1>7. receipts # <<>> /\ Len(receipts) = m /\ Head(receipts) = receipts[1] /\ Last(receipts) = receipts[m]
    BY <1>1, <1>3 DEF Last
  <1>8. PaginationIssues(listing) = {}
    <2>2. \A p \in ToSet(receipts) : p.number # 0
      BY <1>3, <1>4 DEF ToSet
    <2>3. Head(receipts).number = 1
      BY <1>1, <1>4, <1>7
    <2>4. \A j \in 1..m : j > 1 => receipts[j - 1].more /\ receipts[j].number = receipts[j - 1].number + 1
      <3> TAKE j \in 1..m
      <3> HAVE j > 1
      <3>1. j - 1 \in 1..m /\ j - 1 < m /\ j = j - 1 + 1
        BY <1>1
      <3> QED BY <1>4, <3>1
    <2>5. ~ Last(receipts).more
      BY <1>1, <1>4, <1>7
    <2>6. ItemsTold(receipts) = Len(listing.items)
      BY <1>6 DEF n, ItemsTold
    <2>7. \A j \in DOMAIN receipts : j > 1 =>
                receipts[j - 1].more /\ receipts[j].number = receipts[j - 1].number + 1
      <3>1. DOMAIN receipts = 1..m
        BY <1>3
      <3> QED BY <2>4, <3>1
    <2>8. receipts # <<>>
      BY <1>7
    <2> HIDE DEF more
    <2> QED BY <2>2, <2>3, <2>5, <2>6, <2>7, <2>8, NoIssues
  <1> QED BY <1>8 DEF ListingComplete

-----------------------------------------------------------------------------
(* An acquisition that nothing disturbs: the invariant.                    *)

Calm == pushes = 0 /\ faults = 0 /\ Readable(1)

CountsOK ==
    /\ pushes \in Nat /\ faults \in Nat
    /\ poll \in 1..MaxPolls
    /\ stage = "RefreshedMergeRequest" => poll < MaxPolls

\* What every prepared answer is of.
First ==
    [state |-> "opened", id |-> MergeRequestId, iid |-> Iid, project |-> Target.id,
     target |-> Target.id, source |-> Source.id, head |-> RefsOf[1].head,
     source_ref |-> "feature", target_ref |-> "main", refs |-> RefsOf[1],
     changes |-> Exact(Len(Files(1)))]

HostCalm ==
    /\ revision = 1
    /\ refs \in {Absent, RefsOf[1]}
    /\ Len(versions) <= 1
    /\ \A i \in DOMAIN versions : versions[i].revision = 1
    /\ stage \notin {"InitialMergeRequest", "done"} => refs = RefsOf[1] /\ got.mr = First

PagesCalm == IF stage = "CurrentDiffs" THEN Paged(Files(1)) ELSE pages = <<>>

\* No excuse for a snapshot that is not complete.
Plain ==
    /\ 1 \notin Capped
    /\ \A f \in TrueFiles(1) : f.diff = "Available"
    /\ \A b \in TrueBlobs(1) : b.representation = "FileContent"
    /\ Cardinality(TrueBlobs(1)) <= MaxBlobRequests
    /\ Cardinality(TrueBlobs(1)) <= MaxBlobBytes

\* The version has its files, or says that it has not.
FiledCalm ==
    stage \in Filed /\ Plain =>
        \/ got.version.state = "WithoutFiles"
        \/ /\ got.version.state = "Collected"
           /\ got.reported = Exact(Len(Files(1)))
           /\ Len(got.files) = Len(Files(1))

\* The current listing is the same files, and every blob that is wanted was
\* acquired or is still to be asked for, within the limits.
SettledCalm ==
    stage \in Settling /\ Plain /\ got.version.state # "WithoutFiles" =>
        /\ ListingComplete(got.current)
        /\ Len(got.current.items) = Len(Files(1))
        /\ ToSet(got.current.items) = {ChangedPathOf(w) : w \in ToSet(Files(1))}
        /\ Wanted \subseteq ToSet(got.todo) \cup {b.request : b \in ToSet(got.blobs)}
        /\ \A b \in ToSet(got.blobs) : b.outcome = "FileContent"
        /\ Len(got.blobs) + Len(got.todo) <= Cardinality(Wanted)
        /\ Len(got.retained) = Len(got.blobs)
        /\ stage = "FinalMergeRequest" => got.todo = <<>>

Undisturbed == HostCalm /\ PagesCalm /\ FiledCalm /\ SettledCalm

CInv ==
    /\ EInv
    /\ CountsOK
    /\ Calm => Undisturbed
    /\ FailsForCause

\* The parts of the invariant beyond EInv, after a step.
StaysCalm == CountsOK' /\ (Calm => Undisturbed)' /\ FailsForCause'

\* A push or a fault: nothing is promised any more.
LEMMA TroubledCalm ==
    ASSUME CInv, CountsOK', pushes' = pushes + 1 \/ faults' = faults + 1
    PROVE  (Calm => Undisturbed)' /\ FailsForCause'
  <1>1. ~ (pushes' = 0 /\ faults' = 0)
    BY DEF CInv, CountsOK
  <1> QED BY <1>1 DEF Calm, FailsForCause

\* The constants of the invariant are the same in the next state.
LEMMA SamePlain ==
    /\ Plain' <=> Plain
    /\ Readable(1)' <=> Readable(1)
BY DEF Plain, Readable, TrueFiles, TrueBlobs, BlobAnswer, Files

\* No more pushes and faults than before, and no end but one for the cause.
LEMMA CauseStays ==
    ASSUME CInv, UNCHANGED <<pushes, faults>>,
           \/ outcome' = outcome
           \/ outcome'.kind = "Failed" /\ outcome'.failure \in {"Preparation", "Budget"}
    PROVE  FailsForCause'
  <1>1. CASE outcome' = outcome
    BY <1>1 DEF CInv, FailsForCause, Readable, TrueFiles, TrueBlobs, BlobAnswer, Files
  <1>2. CASE outcome'.kind = "Failed" /\ outcome'.failure \in {"Preparation", "Budget"}
    BY <1>2 DEF FailsForCause
  <1> QED BY <1>1, <1>2

\* An end leaves nothing to be said of its stage.
LEMMA EndCalm ==
    ASSUME CInv, NEW kind, NEW why, Fail(kind, why),
           UNCHANGED host,
           \/ faults' = faults + 1
           \/ faults' = faults /\ (Calm => kind \in {"Preparation", "Budget"})
    PROVE  StaysCalm
  <1>1. /\ stage' = "done" /\ pages' = <<>> /\ poll' = 1
        /\ outcome'.kind = "Failed" /\ outcome'.failure = kind
    BY DEF Fail
  <1>2. UNCHANGED <<revision, refs, versions, totals, pushes>>
    BY DEF host
  <1>3. CountsOK'
    BY <1>1, <1>2, LimitsAssumption DEF CInv, CountsOK
  <1>4. CASE faults' = faults + 1
    BY <1>3, <1>4, TroubledCalm DEF StaysCalm
  <1>5. CASE faults' = faults /\ (Calm => kind \in {"Preparation", "Budget"})
    <2>1. Calm' <=> Calm
      BY <1>2, <1>5, SamePlain DEF Calm
    <2>2. (Calm => Undisturbed)'
      BY <1>1, <1>2, <2>1 DEF CInv, Undisturbed, HostCalm, PagesCalm, FiledCalm, SettledCalm,
                               Filed, Settling, Bound
    <2>3. FailsForCause'
      <3>1. CASE Calm
        BY <1>1, <1>2, <1>5, <3>1, CauseStays
      <3>2. CASE ~ Calm
        BY <2>1, <3>2 DEF FailsForCause, Calm
      <3> QED BY <3>1, <3>2
    <2> QED BY <1>3, <2>2, <2>3 DEF StaysCalm
  <1> QED BY <1>4, <1>5 DEF StaysCalm

\* A step of neither the host nor the record of what was read.
LEMMA SameCalm ==
    ASSUME CInv, UNCHANGED <<host, faults, stage, pages, got, outcome>>, CountsOK'
    PROVE  StaysCalm
  <1>1. UNCHANGED <<revision, refs, versions, totals, pushes>>
    BY DEF host
  <1>2. Calm' <=> Calm
    BY <1>1, SamePlain DEF Calm
  <1>3. Undisturbed => Undisturbed'
    <2>1. HostCalm => HostCalm'
      BY <1>1 DEF HostCalm, First, Files
    <2>2. PagesCalm => PagesCalm'
      BY <1>1 DEF PagesCalm, Paged, FirstPages, PageOf, Files
    <2>3. FiledCalm => FiledCalm'
      BY SamePlain DEF FiledCalm, Files
    <2>4. SettledCalm => SettledCalm'
      BY SamePlain DEF SettledCalm, Files, Wanted
    <2> QED BY <2>1, <2>2, <2>3, <2>4 DEF Undisturbed
  <1>4. FailsForCause'
    BY <1>1, CauseStays
  <1> QED BY <1>2, <1>3, <1>4 DEF CInv, StaysCalm

LEMMA HostStaysCalm == CInv /\ HostStep => StaysCalm
  <1> SUFFICES ASSUME CInv, HostStep PROVE StaysCalm
    OBVIOUS
  <1>1. UNCHANGED <<faults, stage, poll, pages, got, totals, outcome>>
    BY DEF HostStep, Push, PublishRefs, PublishVersion, DropFiles
  <1>2. CASE Push
    <2>1. pushes' = pushes + 1
      BY <1>2 DEF Push
    <2>2. CountsOK'
      BY <1>1, <2>1 DEF CInv, CountsOK
    <2> QED BY <2>1, <2>2, TroubledCalm DEF StaysCalm
  <1>3. CASE PublishRefs \/ PublishVersion \/ DropFiles
    <2>1. UNCHANGED <<revision, pushes>>
      BY <1>3 DEF PublishRefs, PublishVersion, DropFiles
    <2>2. CountsOK'
      BY <1>1, <2>1 DEF CInv, CountsOK
    <2>3. Calm' <=> Calm
      BY <1>1, <2>1, SamePlain DEF Calm
    <2>4. PagesCalm => PagesCalm'
      BY <1>1 DEF PagesCalm, Paged, FirstPages, PageOf, Files
    <2>5. FiledCalm => FiledCalm'
      BY <1>1, SamePlain DEF FiledCalm, Files
    <2>6. SettledCalm => SettledCalm'
      BY <1>1, SamePlain DEF SettledCalm, Files, Wanted
    <2>7. HostCalm => HostCalm'
      <3> SUFFICES ASSUME HostCalm PROVE HostCalm'
        OBVIOUS
      <3>1. refs' \in {refs, RefsOf[1]}
        BY <1>3, <2>1 DEF PublishRefs, PublishVersion, DropFiles, HostCalm
      <3>2. Len(versions') <= 1 /\ \A i \in DOMAIN versions' : versions'[i].revision = 1
        <4>1. versions \in Seq(Stored) /\ Len(versions) \in Nat /\ DOMAIN versions = 1..Len(versions)
          BY DEF CInv, EInv, VersionsOK
        <4>2. CASE PublishRefs
          BY <4>2 DEF PublishRefs, HostCalm
        <4>3. CASE PublishVersion
          <5> DEFINE new == NewVersion(versions, revision)
          <5>1. ~ Published /\ versions' = <<new>> \o versions
            BY <4>3 DEF PublishVersion
          <5>2. versions = <<>>
            <6> SUFFICES ASSUME versions # <<>> PROVE FALSE
              OBVIOUS
            <6>1. 1 \in DOMAIN versions /\ Head(versions) = versions[1]
              BY <4>1
            <6> QED BY <5>1, <6>1 DEF Published, HostCalm
          <5>3. new.revision = 1
            BY DEF NewVersion, HostCalm
          <5> HIDE DEF new
          <5>4. versions' = <<new>>
            BY <5>1, <5>2
          <5> QED BY <5>3, <5>4
        <4>4. CASE DropFiles
          <5>1. PICK i \in DOMAIN versions :
                    versions' = [versions EXCEPT ![i].state = "without_files"]
            BY <4>4 DEF DropFiles
          <5>2. DOMAIN versions' = DOMAIN versions /\ Len(versions') = Len(versions)
            BY <4>1, <5>1
          <5>3. versions[i] \in Stored
            BY <4>1
          <5>4. \A k \in DOMAIN versions : versions'[k].revision = versions[k].revision
            BY <4>1, <5>1, <5>3 DEF Stored
          <5> QED BY <5>2, <5>4 DEF HostCalm
        <4> QED BY <1>3, <4>2, <4>3, <4>4
      <3> QED BY <1>1, <2>1, <3>1, <3>2 DEF HostCalm, First, Files
    <2>8. FailsForCause'
      BY <1>1, <2>1, CauseStays
    <2> QED BY <2>2, <2>3, <2>4, <2>5, <2>6, <2>7, <2>8 DEF CInv, StaysCalm, Undisturbed
  <1> QED BY <1>2, <1>3 DEF HostStep

LEMMA TroubleStaysCalm ==
    CInv /\ (OutOfBudget \/ DeadlinePasses \/ ReadFails \/ Garbled) => StaysCalm
  <1> SUFFICES ASSUME CInv, OutOfBudget \/ DeadlinePasses \/ ReadFails \/ Garbled PROVE StaysCalm
    OBVIOUS
  <1>1. CASE OutOfBudget
    BY <1>1, EndCalm DEF OutOfBudget
  <1>2. CASE DeadlinePasses
    BY <1>2, EndCalm DEF DeadlinePasses
  <1>3. CASE Garbled
    BY <1>3, EndCalm DEF Garbled
  <1>4. CASE ReadFails
    <2>1. faults' = faults + 1 /\ UNCHANGED <<pushes>>
      BY <1>4 DEF ReadFails, host
    <2>2. \/ UNCHANGED <<stage, poll>>
          \/ stage' = "done" /\ poll' = 1
      BY <1>4 DEF ReadFails, Fail
    <2>3. CountsOK'
      BY <2>1, <2>2, LimitsAssumption DEF CInv, CountsOK
    <2> QED BY <2>1, <2>3, TroubledCalm DEF StaysCalm
  <1> QED BY <1>1, <1>2, <1>3, <1>4

-----------------------------------------------------------------------------
(* The steps of an undisturbed acquisition.                                *)

\* The host's answer is refused by no check, and a prepared one is the first.
LEMMA AnsweredCalm ==
    ASSUME Calm, HostCalm
    PROVE  /\ MergeRequestVerdict(Answered) = "accepted"
           /\ refs # Absent => refs = RefsOf[1] /\ MergeRequest(Answered) = First
  <1> DEFINE w == Answered
             n == Len(Files(1))
             size == [digits |-> n, plus |-> FALSE]
  <1>1. n \in Nat
    BY RevisionAssumption DEF Files
  <1> HIDE DEF n
  <1>2. size \in [digits : Nat, plus : BOOLEAN]
    BY <1>1
  <1>3. size # Absent /\ size # Malformed
    BY <1>2, AbsentAssumption
  <1>4. size.digits = n /\ size.plus = FALSE
    OBVIOUS
  <1>5. revision = 1 /\ refs \in {Absent, RefsOf[1]} /\ RevisionOf(RefsOf[1]) = 1
        /\ RefsOf[1] # Absent
    BY RevisionFound, RevisionAssumption DEF HostCalm
  <1>6. {RefsOf[1].base, RefsOf[1].start, RefsOf[1].head} \cap {Absent, Malformed} = {}
    BY DEF Calm, Readable
  <1>7. w.changes = IF refs = Absent THEN Absent ELSE size
    BY <1>5 DEF Answered, n
  <1>8. w = [state |-> "opened", id |-> 7, iid |-> 1, project |-> 1,
             target |-> 1, source |-> 2, head |-> RefsOf[1].head,
             source_ref |-> "feature", target_ref |-> "main", refs |-> refs,
             changes |-> w.changes]
    BY <1>5 DEF Answered, MergeRequestId, Iid, Target, Source
  <1> HIDE DEF w, size
  <1>9. /\ w.state = "opened" /\ w.id = 7 /\ w.iid = 1 /\ w.project = 1 /\ w.target = 1
        /\ w.head = RefsOf[1].head /\ w.source_ref = "feature" /\ w.target_ref = "main"
        /\ w.refs = refs
    BY <1>8
  <1>10. OneOrMore(w.id) /\ OneOrMore(w.iid)
    BY <1>9, AbsentAssumption DEF OneOrMore
  <1>11. Malformed \notin {w.source_ref, w.target_ref} /\ w.head # Malformed
    BY <1>6, <1>9, AbsentAssumption
  <1>12. refs # Absent => RefsVerdict(w.refs) = "accepted" /\ w.refs.head = w.head
    BY <1>5, <1>6, <1>9 DEF RefsVerdict
  <1>13. CountVerdict(w.changes) = "accepted"
    BY <1>3, <1>4, <1>7, AbsentAssumption DEF CountVerdict
  <1>14. MergeRequestVerdict(w) = "accepted"
    BY <1>9, <1>10, <1>11, <1>12, <1>13 DEF MergeRequestVerdict
  <1>15. ASSUME refs # Absent PROVE MergeRequest(w) = First
    <2>1. Count(w.changes) = Exact(n)
      BY <1>3, <1>4, <1>7, <1>15 DEF Count
    <2>2. MergeRequest(w) = [w EXCEPT !.changes = Exact(n)]
      BY <2>1 DEF MergeRequest
    <2>3. refs = RefsOf[1]
      BY <1>5, <1>15
    <2> QED BY <1>8, <2>2, <2>3 DEF First, MergeRequestId, Iid, Target, Source, n
  <1> QED BY <1>5, <1>14, <1>15 DEF w

\* A failed read of the answer: the deadline, or one of the causes.
LEMMA EndsCalm ==
    ASSUME CInv, NEW kind, NEW why, Ends(kind, why), Calm => kind \in {"Preparation", "Budget"}
    PROVE  StaysCalm
  <1>1. faults' = faults + 0 \/ faults' = faults + 1
    BY DEF Ends, Reads
  <1>2. faults' = faults \/ faults' = faults + 1
    BY <1>1 DEF CInv, CountsOK
  <1> QED BY <1>2, EndCalm DEF Ends

\* A read that goes on: slow, and nothing more is promised; or in time.
LEMMA GoesCalm ==
    ASSUME CInv, NEW next, Goes(next), poll' \in 1..MaxPolls,
           next # "RefreshedMergeRequest",
           Calm => Undisturbed'
    PROVE  StaysCalm
  <1>1. faults' = faults + 0 \/ faults' = faults + 1
    BY DEF Goes, Reads
  <1>2. faults' = faults \/ faults' = faults + 1
    BY <1>1 DEF CInv, CountsOK
  <1>3. UNCHANGED <<revision, refs, versions, totals, pushes, outcome>> /\ stage' = next
    BY DEF Goes, host
  <1>4. CountsOK'
    BY <1>2, <1>3 DEF CInv, CountsOK
  <1>5. CASE faults' = faults + 1
    BY <1>4, <1>5, TroubledCalm DEF StaysCalm
  <1>6. CASE faults' = faults
    <2>1. Calm' <=> Calm
      BY <1>3, <1>6, SamePlain DEF Calm
    <2>2. FailsForCause'
      BY <1>3, <1>6, CauseStays
    <2> QED BY <1>4, <1>6, <2>1, <2>2 DEF StaysCalm
  <1> QED BY <1>2, <1>5, <1>6

\* A wait, within the polls.
LEMMA WaitCalm ==
    ASSUME CInv, NEW next, GoesAfterWait(next), poll < MaxPolls,
           \/ next = "InitialMergeRequest" /\ stage = next
           \/ next = "RefreshedMergeRequest" /\ stage = "DiffVersions"
    PROVE  StaysCalm
  <1>1. UNCHANGED <<revision, refs, versions, totals, pushes, faults>> /\ UNCHANGED host
    BY DEF GoesAfterWait, host
  <1>2. CASE Fail("Budget", "Deadline")
    BY <1>1, <1>2, EndCalm
  <1>3. CASE /\ stage' = next
             /\ UNCHANGED <<outcome, got>>
             /\ pages' = <<>>
             /\ poll' = IF next = "InitialMergeRequest" THEN poll + 1 ELSE poll
    <2>1. CountsOK'
      <3>1. MaxPolls \in Nat /\ poll \in 1..MaxPolls
        BY LimitsAssumption DEF CInv, CountsOK
      <3>2. poll' \in 1..MaxPolls /\ (next # "InitialMergeRequest" => poll' < MaxPolls)
        BY <1>3, <3>1
      <3> QED BY <1>1, <1>3, <3>2 DEF CInv, CountsOK
    <2>2. Calm' <=> Calm
      BY <1>1, SamePlain DEF Calm
    <2>3. FailsForCause'
      BY <1>1, <1>3, CauseStays
    <2>4. Undisturbed => Undisturbed'
      <3> SUFFICES ASSUME Undisturbed PROVE Undisturbed'
        OBVIOUS
      <3>1. HostCalm'
        BY <1>1, <1>3 DEF Undisturbed, HostCalm, First, Files
      <3>2. PagesCalm' /\ FiledCalm' /\ SettledCalm'
        BY <1>3 DEF PagesCalm, FiledCalm, SettledCalm, Filed, Settling, Bound
      <3> QED BY <3>1, <3>2 DEF Undisturbed
    <2> QED BY <2>1, <2>2, <2>3, <2>4 DEF CInv, StaysCalm
  <1> QED BY <1>2, <1>3 DEF GoesAfterWait

LEMMA InitialCalm == CInv /\ InitialMergeRequest => StaysCalm
  <1> SUFFICES ASSUME CInv, InitialMergeRequest PROVE StaysCalm
    OBVIOUS
  <1> DEFINE verdict == MergeRequestVerdict(Answered)
  <1>1. stage = "InitialMergeRequest" /\ poll \in 1..MaxPolls
    BY DEF InitialMergeRequest, CInv, CountsOK
  <1>2. \/ verdict # "accepted" /\ Ends("Wire", verdict)
        \/ /\ refs # Absent
           /\ Goes("TargetProject")
           /\ got' = [mr |-> MergeRequest(Answered)]
           /\ poll' = 1
           /\ UNCHANGED pages
        \/ poll < MaxPolls /\ GoesAfterWait("InitialMergeRequest")
        \/ Ends("Preparation", "InitialMergeRequest")
    BY Zenon DEF InitialMergeRequest
  <1>3. CASE verdict # "accepted" /\ Ends("Wire", verdict)
    <2>1. ~ Calm
      BY <1>3, AnsweredCalm DEF CInv, Undisturbed
    <2> QED BY <1>3, <2>1, EndsCalm
  <1>4. CASE /\ refs # Absent
             /\ Goes("TargetProject")
             /\ got' = [mr |-> MergeRequest(Answered)]
             /\ poll' = 1
             /\ UNCHANGED pages
    <2>1. poll' \in 1..MaxPolls
      BY <1>4, LimitsAssumption
    <2>2. ASSUME Calm PROVE Undisturbed'
      <3>1. HostCalm /\ PagesCalm
        BY <2>2 DEF CInv, Undisturbed
      <3>2. refs = RefsOf[1] /\ MergeRequest(Answered) = First
        BY <1>4, <2>2, <3>1, AnsweredCalm
      <3>3. UNCHANGED <<revision, refs, versions>> /\ stage' = "TargetProject"
        BY <1>4 DEF Goes, host
      <3>4. got'.mr = First
        BY <1>4, <3>2
      <3>5. HostCalm'
        BY <3>1, <3>2, <3>3, <3>4 DEF HostCalm, First, Files
      <3>6. PagesCalm' /\ FiledCalm' /\ SettledCalm'
        BY <1>1, <1>4, <3>1, <3>3 DEF PagesCalm, FiledCalm, SettledCalm, Filed, Settling, Bound
      <3> QED BY <3>5, <3>6 DEF Undisturbed
    <2> QED BY <1>4, <2>1, <2>2, GoesCalm
  <1>5. CASE poll < MaxPolls /\ GoesAfterWait("InitialMergeRequest")
    BY <1>1, <1>5, WaitCalm
  <1>6. CASE Ends("Preparation", "InitialMergeRequest")
    BY <1>6, EndsCalm
  <1> QED BY <1>2, <1>3, <1>4, <1>5, <1>6

LEMMA TargetCalm == CInv /\ TargetProject => StaysCalm
  <1> SUFFICES ASSUME CInv, TargetProject PROVE StaysCalm
    OBVIOUS
  <1>1. /\ stage = "TargetProject" /\ stage' = "SourceProject" /\ Goes("SourceProject")
        /\ UNCHANGED <<revision, refs, versions, got, pages, poll>>
    BY DEF TargetProject, Goes, host
  <1>2. poll' \in 1..MaxPolls
    BY <1>1 DEF CInv, CountsOK
  <1>3. ASSUME Calm PROVE Undisturbed'
    <2>1. HostCalm /\ PagesCalm
      BY <1>3 DEF CInv, Undisturbed
    <2>2. HostCalm'
      BY <1>1, <2>1 DEF HostCalm, First, Files
    <2>3. PagesCalm' /\ FiledCalm' /\ SettledCalm'
      BY <1>1, <2>1 DEF PagesCalm, FiledCalm, SettledCalm, Filed, Settling, Bound
    <2> QED BY <2>2, <2>3 DEF Undisturbed
  <1> QED BY <1>1, <1>2, <1>3, GoesCalm

\* The pipeline that started the review names the merge request as it is.
LEMMA VerifiedCalm ==
    ASSUME got.mr = First
    PROVE  Context!Mismatches(Selection, Authoritative) = {}
  <1> DEFINE input == Selection
             api == Authoritative
             h == [origin |-> "gitlab", pipeline |-> Target, target |-> Target,
                   source |-> Source, iid |-> Iid, source_ref |-> "feature",
                   target_ref |-> "main", head |-> RefsOf[1].head]
  <1>1. /\ input.origin = "gitlab" /\ input.project = Target /\ input.iid = Iid
        /\ input.hint = IF ~hinted THEN None ELSE h
    BY DEF Selection
  <1>2. api = [target |-> Target, source |-> Source, iid |-> Iid,
               source_ref |-> "feature", target_ref |-> "main", head |-> RefsOf[1].head]
    BY DEF Authoritative, First
  <1> HIDE DEF input, api
  <1>3. /\ h.origin = "gitlab" /\ h.pipeline = Target /\ h.target = Target /\ h.source = Source
        /\ h.iid = Iid /\ h.source_ref = "feature" /\ h.target_ref = "main"
        /\ h.head = RefsOf[1].head
    OBVIOUS
  <1> HIDE DEF h
  <1>4. /\ api.target = Target /\ api.source = Source /\ api.iid = Iid
        /\ api.source_ref = "feature" /\ api.target_ref = "main" /\ api.head = RefsOf[1].head
    BY <1>2
  <1>5. \A p : \A name : Context!ProjectMismatches(name, p, p) = {}
    BY DEF Context!ProjectMismatches, Context!If
  <1>6. ASSUME input.hint = h PROVE Context!HintMismatches(input, api) = {}
    <2>1. Context!PipelineProject(h, api) = Target
      BY <1>3, <1>4 DEF Context!PipelineProject, Target, Source
    <2>2. Target # None
      BY AbsentAssumption DEF Target
    <2> QED BY <1>1, <1>3, <1>4, <1>5, <1>6, <2>1, <2>2 DEF Context!HintMismatches, Context!If
  <1>7. Context!Mismatches(input, api) = {}
    BY <1>1, <1>4, <1>5, <1>6 DEF Context!Mismatches, Context!If
  <1> QED BY <1>7 DEF input, api

LEMMA SourceCalm == CInv /\ SourceProject => StaysCalm
  <1> SUFFICES ASSUME CInv, SourceProject PROVE StaysCalm
    OBVIOUS
  <1>1. stage = "SourceProject" /\ poll \in 1..MaxPolls
    BY DEF SourceProject, CInv, CountsOK
  <1>2. Calm => HostCalm /\ PagesCalm /\ got.mr = First
    BY <1>1 DEF CInv, Undisturbed, HostCalm
  <1>3. CASE Context!Mismatches(Selection, Authoritative) # {}
    <2>1. ~ Calm
      BY <1>2, <1>3, VerifiedCalm
    <2> QED BY <1>3, <2>1, EndsCalm DEF SourceProject
  <1>4. CASE Context!Mismatches(Selection, Authoritative) = {}
    <2>1. /\ Goes("DiffVersions") /\ stage' = "DiffVersions"
          /\ got'.mr = got.mr
          /\ UNCHANGED <<poll, pages, revision, refs, versions>>
      BY <1>4 DEF SourceProject, Goes, host
    <2>2. ASSUME Calm PROVE Undisturbed'
      <3>1. HostCalm'
        BY <1>1, <1>2, <2>1, <2>2 DEF HostCalm, First, Files
      <3>2. PagesCalm' /\ FiledCalm' /\ SettledCalm'
        BY <1>1, <1>2, <2>1, <2>2 DEF PagesCalm, FiledCalm, SettledCalm, Filed, Settling, Bound
      <3> QED BY <3>1, <3>2 DEF Undisturbed
    <2> QED BY <1>1, <2>1, <2>2, GoesCalm
  <1> QED BY <1>3, <1>4

LEMMA RefreshedCalm == CInv /\ RefreshedMergeRequest => StaysCalm
  <1> SUFFICES ASSUME CInv, RefreshedMergeRequest PROVE StaysCalm
    OBVIOUS
  <1> DEFINE verdict == MergeRequestVerdict(Answered)
  <1>1. stage = "RefreshedMergeRequest" /\ poll \in 1..MaxPolls /\ poll < MaxPolls
    BY DEF RefreshedMergeRequest, CInv, CountsOK
  <1>2. ASSUME Calm
        PROVE  HostCalm /\ PagesCalm /\ got.mr = First /\ verdict = "accepted"
               /\ MergeRequest(Answered) = got.mr
    <2>1. HostCalm /\ PagesCalm /\ got.mr = First /\ refs = RefsOf[1]
      BY <1>1, <1>2 DEF CInv, Undisturbed, HostCalm
    <2>2. refs # Absent
      BY <2>1, RevisionAssumption
    <2> QED BY <1>2, <2>1, <2>2, AnsweredCalm
  <1>3. \/ verdict # "accepted" /\ Ends("Wire", verdict)
        \/ /\ MergeRequest(Answered) # got.mr
           /\ Ends("Identity", "SnapshotChangedDuringAcquisition")
        \/ /\ Goes("DiffVersions")
           /\ poll' = poll + 1
           /\ UNCHANGED <<got, pages>>
    BY Zenon DEF RefreshedMergeRequest
  <1>4. CASE verdict # "accepted" /\ Ends("Wire", verdict)
    BY <1>2, <1>4, EndsCalm
  <1>5. CASE /\ MergeRequest(Answered) # got.mr
             /\ Ends("Identity", "SnapshotChangedDuringAcquisition")
    BY <1>2, <1>5, EndsCalm
  <1>6. CASE /\ Goes("DiffVersions")
             /\ poll' = poll + 1
             /\ UNCHANGED <<got, pages>>
    <2>1. stage' = "DiffVersions" /\ UNCHANGED <<revision, refs, versions>>
      BY <1>6 DEF Goes, host
    <2>2. poll' \in 1..MaxPolls
      BY <1>1, <1>6, LimitsAssumption
    <2>3. ASSUME Calm PROVE Undisturbed'
      <3>1. HostCalm'
        BY <1>1, <1>2, <1>6, <2>1, <2>3 DEF HostCalm, First, Files
      <3>2. PagesCalm' /\ FiledCalm' /\ SettledCalm'
        BY <1>1, <1>2, <1>6, <2>1, <2>3 DEF PagesCalm, FiledCalm, SettledCalm, Filed, Settling, Bound
      <3> QED BY <3>1, <3>2 DEF Undisturbed
    <2> QED BY <1>6, <2>2, <2>3, GoesCalm
  <1> QED BY <1>3, <1>4, <1>5, <1>6

\* A listing within the limits is read page by page and then collected.
LEMMA PagesNext ==
    ASSUME NEW S, NEW items \in Seq(S), NEW k \in 0..(PagesOf(Len(items), PerPage) - 1),
           pages = FirstPages(items, k),
           Len(items) <= MaxItems, PagesOf(Len(items), PerPage) <= MaxPages
    PROVE  /\ ReadPage(items) =>
                /\ k + 1 < PagesOf(Len(items), PerPage)
                /\ Goes(stage)
                /\ pages' = FirstPages(items, k + 1)
                /\ UNCHANGED <<got, poll>>
           /\ Collected(items) =>
                PagesRead(items) = FirstPages(items, PagesOf(Len(items), PerPage))
  <1> DEFINE n == Len(items)
             m == PagesOf(n, PerPage)
             r == PageAnswer(items)
             page == Len(pages) + 1
  <1>1. n \in Nat /\ m \in Nat \ {0} /\ MaxPages \in Nat
    BY PagesOfItems, LimitsAssumption
  <1>2. /\ PageVerdict(r, page, PerPage) = "accepted"
        /\ NextPage(r, page, PerPage) = NextOf(n, k + 1, PerPage)
        /\ PagesRead(items) = FirstPages(items, k + 1)
    BY NextOfPages
  <1>3. CollectVerdict(FirstPages(items, m)) = "accepted"
    BY PagesCollect
  <1>4. m <= MaxPages
    OBVIOUS
  <1>5. NextOf(n, k + 1, PerPage) = IF k + 1 < m THEN k + 2 ELSE Terminal
    BY <1>1 DEF NextOf
  <1>6. ReadPage(items) =>
            \/ PageVerdict(r, page, PerPage) # "accepted"
            \/ /\ NextPage(r, page, PerPage) # Terminal
               /\ NextPage(r, page, PerPage) > MaxPages
            \/ /\ NextPage(r, page, PerPage) # Terminal
               /\ Goes(stage)
               /\ pages' = PagesRead(items)
               /\ UNCHANGED <<got, poll>>
            \/ /\ NextPage(r, page, PerPage) = Terminal
               /\ CollectVerdict(PagesRead(items)) # "accepted"
    BY Zenon DEF ReadPage
  <1>7. Collected(items) => NextPage(r, page, PerPage) = Terminal
    BY Zenon DEF Collected
  <1> HIDE DEF n, m, r, page
  <1>8. k \in Nat /\ k <= m - 1
    BY <1>1 DEF n, m
  <1>9. k + 1 < m \/ k + 1 = m
    BY <1>1, <1>8
  <1>10. k + 1 < m => k + 2 # Terminal /\ ~ (k + 2 > MaxPages)
    BY <1>1, <1>4, <1>8 DEF Terminal
  <1>11. ReadPage(items) =>
            k + 1 < m /\ Goes(stage) /\ pages' = FirstPages(items, k + 1) /\ UNCHANGED <<got, poll>>
    BY <1>1, <1>2, <1>3, <1>5, <1>6, <1>8, <1>9, <1>10
  <1>12. Collected(items) => k + 1 = m
    BY <1>2, <1>5, <1>7, <1>9, <1>10
  <1> QED BY <1>2, <1>11, <1>12 DEF n, m

\* One version at most makes one page.
LEMMA OnePage ==
    ASSUME CInv, Calm, stage = "DiffVersions"
    PROVE  LET items == [i \in DOMAIN versions |-> VersionAnswer(versions[i])]
           IN  /\ items \in Seq(Listable) /\ Len(items) <= 1
               /\ \A i \in DOMAIN items : \E v \in Stored : items[i] = VersionAnswer(v) /\ v.revision = 1
               /\ ~ ReadPage(items)
               /\ Collected(items) => PagesRead(items) = FirstPages(items, PagesOf(Len(items), PerPage))
  <1> DEFINE items == [i \in DOMAIN versions |-> VersionAnswer(versions[i])]
             n == Len(items)
             m == PagesOf(n, PerPage)
  <1>1. VersionsOK /\ HostCalm /\ PagesCalm
    BY DEF CInv, EInv, Undisturbed
  <1>2. items \in Seq(Listable)
    BY <1>1, AnswersListable
  <1>3. versions \in Seq(Stored) /\ Len(versions) \in Nat /\ Len(versions) <= 1
        /\ DOMAIN versions = 1..Len(versions)
    BY <1>1 DEF VersionsOK, HostCalm
  <1>4. n <= 1 /\ n \in Nat
    <2>1. DOMAIN items = 1..Len(versions)
      BY <1>3
    <2>2. n = Len(versions)
      BY <1>2, <1>3, <2>1, LenProperties
    <2> QED BY <1>3, <2>2
  <1>5. \A i \in DOMAIN items : \E v \in Stored : items[i] = VersionAnswer(v) /\ v.revision = 1
    BY <1>1, <1>3 DEF HostCalm
  <1> HIDE DEF items, n
  <1>6. m = 1
    <2>1. PerPage \in Nat \ {0}
      BY LimitsAssumption
    <2>2. CASE n = 0
      BY <2>2 DEF PagesOf
    <2>3. CASE n = 1
      <3>1. PagesOf(n, PerPage) = (1 + PerPage - 1) \div PerPage
        BY <2>3 DEF PagesOf
      <3>2. 1 + PerPage - 1 = PerPage /\ PerPage \div PerPage = 1
        BY <2>1
      <3> QED BY <3>1, <3>2
    <2> QED BY <1>4, <2>2, <2>3
  <1>7. m <= MaxPages
    <2>1. PagesOf(Len(Files(1)), PerPage) \in Nat \ {0}
      BY PagesOfItems, RevisionAssumption DEF Files
    <2>2. PagesOf(Len(Files(1)), PerPage) <= MaxPages /\ MaxPages \in Nat
      BY LimitsAssumption DEF Calm, Readable
    <2> QED BY <1>6, <2>1, <2>2
  <1>8. n <= MaxItems
    BY <1>4, LimitsAssumption
  <1>9. pages = FirstPages(items, 0)
    <2>1. pages = <<>>
      BY <1>1 DEF PagesCalm
    <2>2. FirstPages(items, 0) = <<>>
      BY DEF FirstPages
    <2> QED BY <2>1, <2>2
  <1>10. 0 \in 0..(m - 1)
    BY <1>6
  <1>11. ~ ReadPage(items) /\ (Collected(items) => PagesRead(items) = FirstPages(items, m))
    BY <1>2, <1>6, <1>7, <1>8, <1>9, <1>10, PagesNext DEF n
  <1> QED BY <1>2, <1>4, <1>5, <1>11 DEF items, n

\* A listing of no version, or of the one of the refs that were shown: the only
\* thing against it is that there is none.
LEMMA BlockersCalm ==
    ASSUME NEW S, NEW items \in Seq(S), NEW read,
           read = FirstPages(items, PagesOf(Len(items), PerPage)),
           Len(items) <= 1, \A i \in DOMAIN items : items[i].refs = RefsOf[1]
    PROVE  LET listing == Listing(read)
               bound == [listing EXCEPT !.items =
                            [i \in DOMAIN listing.items |-> Version(listing.items[i])]]
           IN  /\ listing.items = items
               /\ BindingBlockers(RefsOf[1], bound) = IF items = <<>> THEN {<<"NoDiffVersions">>} ELSE {}
  <1> DEFINE listing == Listing(read)
             parsed == [i \in DOMAIN items |-> Version(items[i])]
             bound == [listing EXCEPT !.items = parsed]
  <1>1. listing.items = items /\ Receipts(items, listing.pages)
    BY PagesListed
  <1>2. bound.pages = listing.pages /\ bound.items = parsed
    <2>1. listing = [items |-> listing.items, pages |-> listing.pages]
      BY DEF Listing
    <2> HIDE DEF listing, parsed
    <2> QED BY <2>1
  <1>3. bound = [listing EXCEPT !.items = [i \in DOMAIN listing.items |-> Version(listing.items[i])]]
    BY <1>1
  <1>4. Len(items) \in Nat /\ DOMAIN items = 1..Len(items) /\ DOMAIN parsed = 1..Len(items)
    OBVIOUS
  <1>5. Len(parsed) = Len(items)
    BY <1>4
  <1>6. RefsOf[1] # None
    BY RevisionAssumption
  <1> HIDE DEF listing, bound
  <1>7. ListingComplete(bound)
    <2> HIDE DEF parsed
    <2> DEFINE receipts == listing.pages
    <2>1. Receipts(items, receipts) /\ bound.pages = receipts /\ Len(bound.items) = Len(items)
      BY <1>1, <1>2, <1>5
    <2> HIDE DEF receipts
    <2> QED BY <2>1, PagesComplete
  <1>8. parsed = <<>> <=> items = <<>>
    BY <1>4, <1>5
  <1>9. items # <<>> => Head(parsed).refs = RefsOf[1]
    <2> SUFFICES ASSUME items # <<>> PROVE Head(parsed).refs = RefsOf[1]
      OBVIOUS
    <2>1. 1 \in DOMAIN items
      BY <1>4
    <2>2. Head(parsed) = Version(items[1])
      BY <1>4, <2>1
    <2> QED BY <2>1, <2>2 DEF Version
  <1>10. 1..(Len(parsed) - 1) = {}
    BY <1>4, <1>5
  <1> HIDE DEF parsed
  <1>11. BindingBlockers(RefsOf[1], bound) = IF items = <<>> THEN {<<"NoDiffVersions">>} ELSE {}
    BY <1>2, <1>6, <1>7, <1>8, <1>9, <1>10 DEF BindingBlockers, If
  <1> QED BY <1>1, <1>3, <1>11 DEF listing

\* A complete listing of the versions binds the newest, or is polled again.
LEMMA BindCalm ==
    ASSUME CInv, stage = "DiffVersions", NEW listing, Bind(listing),
           Calm => LET items == [i \in DOMAIN listing.items |-> Version(listing.items[i])]
                       bound == [listing EXCEPT !.items = items]
                   IN  /\ \A v \in ToSet(items) : v.mr = MergeRequestId
                       /\ BindingBlockers(RefsOf[1], bound) \in {{}, {<<"NoDiffVersions">>}}
    PROVE  StaysCalm
  <1> DEFINE items == [i \in DOMAIN listing.items |-> Version(listing.items[i])]
             bound == [listing EXCEPT !.items = items]
             blockers == BindingBlockers(got.mr.refs, bound)
  <1>1. poll \in 1..MaxPolls /\ MaxPolls \in Nat
    BY LimitsAssumption DEF CInv, CountsOK
  <1>2. Calm => HostCalm /\ PagesCalm /\ got.mr = First
    BY DEF CInv, Undisturbed, HostCalm
  <1>3. \/ /\ \E v \in ToSet(items) : v.mr \notin {Absent, got.mr.id}
           /\ Ends("Identity", "DiffVersionMergeRequestMismatch")
        \/ /\ Goes("ExactDiffVersion")
           /\ got' = [mr |-> got.mr, context |-> got.context, version |-> Head(items)]
           /\ poll' = 1
           /\ pages' = <<>>
        \/ poll < MaxPolls /\ GoesAfterWait("RefreshedMergeRequest")
        \/ Ends("Preparation", "DiffVersions")
        \/ /\ blockers # {}
           /\ ~ (PreparationOnly(blockers) /\ poll < MaxPolls)
           /\ ~ (PreparationOnly(blockers) /\ poll = MaxPolls)
           /\ Ends("Identity", "LatestVersionBinding")
    BY Zenon DEF Bind
  <1>4. CASE /\ \E v \in ToSet(items) : v.mr \notin {Absent, got.mr.id}
             /\ Ends("Identity", "DiffVersionMergeRequestMismatch")
    <2>1. got.mr = First => got.mr.id = MergeRequestId
      BY DEF First
    <2>2. ~ Calm
      BY <1>2, <1>4, <2>1
    <2> QED BY <1>4, <2>2, EndsCalm
  <1>5. CASE /\ Goes("ExactDiffVersion")
             /\ got' = [mr |-> got.mr, context |-> got.context, version |-> Head(items)]
             /\ poll' = 1
             /\ pages' = <<>>
    <2>1. stage' = "ExactDiffVersion" /\ UNCHANGED <<revision, refs, versions>> /\ poll' \in 1..MaxPolls
      BY <1>1, <1>5 DEF Goes, host
    <2>2. got'.mr = got.mr
      BY <1>5
    <2>3. ASSUME Calm PROVE Undisturbed'
      <3>1. HostCalm'
        BY <1>2, <2>1, <2>2, <2>3 DEF HostCalm, First, Files
      <3>2. PagesCalm' /\ FiledCalm' /\ SettledCalm'
        BY <1>5, <2>1 DEF PagesCalm, FiledCalm, SettledCalm, Filed, Settling, Bound
      <3> QED BY <3>1, <3>2 DEF Undisturbed
    <2> QED BY <1>5, <2>1, <2>3, GoesCalm
  <1>6. CASE poll < MaxPolls /\ GoesAfterWait("RefreshedMergeRequest")
    BY <1>6, WaitCalm
  <1>7. CASE Ends("Preparation", "DiffVersions")
    BY <1>7, EndsCalm
  <1>8. CASE /\ blockers # {}
             /\ ~ (PreparationOnly(blockers) /\ poll < MaxPolls)
             /\ ~ (PreparationOnly(blockers) /\ poll = MaxPolls)
             /\ Ends("Identity", "LatestVersionBinding")
    <2>1. ASSUME Calm PROVE FALSE
      <3>1. got.mr.refs = RefsOf[1]
        BY <1>2, <2>1 DEF First
      <3>2. blockers = {<<"NoDiffVersions">>}
        BY <1>8, <2>1, <3>1
      <3> HIDE DEF blockers
      <3>3. PreparationOnly(blockers)
        BY <3>2 DEF PreparationOnly
      <3> QED BY <1>1, <1>8, <3>3
    <2> QED BY <1>8, <2>1, EndsCalm
  <1> QED BY <1>3, <1>4, <1>5, <1>6, <1>7, <1>8

LEMMA VersionsCalm == CInv /\ DiffVersions => StaysCalm
  <1> SUFFICES ASSUME CInv, DiffVersions PROVE StaysCalm
    OBVIOUS
  <1> DEFINE items == [i \in DOMAIN versions |-> VersionAnswer(versions[i])]
             listing == Listing(PagesRead(items))
             parsed == [i \in DOMAIN listing.items |-> Version(listing.items[i])]
             bound == [listing EXCEPT !.items = parsed]
  <1>1. stage = "DiffVersions" /\ (ReadPage(items) \/ (Collected(items) /\ Bind(listing)))
    BY DEF DiffVersions
  <1>2. CASE ReadPage(items)
    <2>1. ~ Calm
      BY <1>1, <1>2, OnePage
    <2>2. \/ \E why : Ends("Wire", why)
          \/ Goes(stage) /\ UNCHANGED poll
      BY <1>2 DEF ReadPage
    <2>3. CASE \E why : Ends("Wire", why)
      BY <2>1, <2>3, EndsCalm
    <2>4. CASE Goes(stage) /\ UNCHANGED poll
      <3>1. poll' \in 1..MaxPolls
        BY <2>4 DEF CInv, CountsOK
      <3> QED BY <1>1, <2>1, <2>4, <3>1, GoesCalm
    <2> QED BY <2>2, <2>3, <2>4
  <1>3. CASE Collected(items) /\ Bind(listing)
    <2>1. ASSUME Calm
          PROVE  /\ \A v \in ToSet(parsed) : v.mr = MergeRequestId
                 /\ BindingBlockers(RefsOf[1], bound) \in {{}, {<<"NoDiffVersions">>}}
      <3>1. /\ items \in Seq(Listable) /\ Len(items) <= 1
            /\ \A i \in DOMAIN items : \E v \in Stored : items[i] = VersionAnswer(v) /\ v.revision = 1
            /\ PagesRead(items) = FirstPages(items, PagesOf(Len(items), PerPage))
        BY <1>1, <1>3, <2>1, OnePage
      <3> HIDE DEF items
      <3>2. \A i \in DOMAIN items : items[i].refs = RefsOf[1] /\ items[i].mr = MergeRequestId
        BY <3>1 DEF VersionAnswer
      <3>3. /\ listing.items = items
            /\ BindingBlockers(RefsOf[1], bound) = IF items = <<>> THEN {<<"NoDiffVersions">>} ELSE {}
        <4> DEFINE read == PagesRead(items)
        <4>1. \A i \in DOMAIN items : items[i].refs = RefsOf[1]
          BY <3>2
        <4>2. read = FirstPages(items, PagesOf(Len(items), PerPage))
          BY <3>1
        <4> HIDE DEF read
        <4>3. LET l == Listing(read)
                  b == [l EXCEPT !.items = [i \in DOMAIN l.items |-> Version(l.items[i])]]
              IN  /\ l.items = items
                  /\ BindingBlockers(RefsOf[1], b) = IF items = <<>> THEN {<<"NoDiffVersions">>} ELSE {}
          BY <3>1, <4>1, <4>2, BlockersCalm
        <4> QED BY <4>3 DEF read
      <3>4. \A v \in ToSet(parsed) : v.mr = MergeRequestId
        BY <3>2, <3>3 DEF ToSet, Version
      <3> QED BY <3>3, <3>4
    <2> HIDE DEF listing
    <2> QED BY <1>1, <1>3, <2>1, BindCalm
  <1> QED BY <1>1, <1>2, <1>3

\* What the host shows of a version of the first revision.
LEMMA VersionShown ==
    ASSUME NEW v \in Stored, v.revision = 1
    PROVE  LET version == Version(VersionAnswer(v))
               n == Len(Files(1))
           IN  /\ version.id = v.id /\ version.refs = RefsOf[1] /\ version.mr = MergeRequestId
               /\ version.reported = IF 1 \in Capped THEN CappedAt(n) ELSE Exact(n)
               /\ version.state = IF 1 \in Capped THEN "Overflow"
                                  ELSE IF v.state = "collected" THEN "Collected" ELSE "WithoutFiles"
  <1> DEFINE n == Len(Files(1))
             size == [digits |-> n, plus |-> 1 \in Capped]
             answer == VersionAnswer(v)
  <1>1. n \in Nat /\ v.state \in {"collected", "without_files"}
    BY RevisionAssumption DEF Files, Stored
  <1> HIDE DEF n
  <1>2. size \in [digits : Nat, plus : BOOLEAN]
    BY <1>1
  <1>3. size # Absent
    BY <1>2, AbsentAssumption
  <1>4. Count(size) = IF 1 \in Capped THEN CappedAt(n) ELSE Exact(n)
    BY <1>3 DEF Count
  <1>5. answer.real_size = size /\ answer.state = v.state /\ answer.id = v.id
        /\ answer.refs = RefsOf[1] /\ answer.mr = MergeRequestId
    BY DEF VersionAnswer, n
  <1> HIDE DEF size, answer
  <1>6. Count(size).kind = IF 1 \in Capped THEN "CappedAt" ELSE "Exact"
    BY <1>4 DEF CappedAt, Exact
  <1>7. Version(answer).state = IF 1 \in Capped THEN "Overflow"
                                ELSE IF v.state = "collected" THEN "Collected" ELSE "WithoutFiles"
    BY <1>1, <1>5, <1>6 DEF Version
  <1>8. /\ Version(answer).id = v.id /\ Version(answer).refs = RefsOf[1]
        /\ Version(answer).mr = MergeRequestId /\ Version(answer).reported = Count(size)
    BY <1>5 DEF Version
  <1> QED BY <1>4, <1>7, <1>8 DEF answer, n

\* The counts of the merge request and of its version agree.
LEMMA ReconciledCalm ==
    ASSUME NEW n \in Nat
    PROVE  /\ Reconciled(Exact(n), Exact(n)) = Exact(n)
           /\ Reconciled(Exact(n), CappedAt(n)) = CappedAt(n)
           /\ Exact(n) # Malformed /\ CappedAt(n) # Malformed
  <1> DEFINE e == Exact(n)
             c == CappedAt(n)
  <1>1. e.kind = "Exact" /\ c.kind = "CappedAt" /\ e.count = n /\ c.count = n
        /\ e # Unavailable /\ c # Unavailable
    <2>1. e.kind = "Exact" /\ c.kind = "CappedAt" /\ e.count = n /\ c.count = n
      BY DEF Exact, CappedAt
    <2>2. Unavailable.kind = "Unavailable"
      BY DEF Unavailable
    <2> QED BY <2>1, <2>2
  <1>2. e \in [kind : {"Exact", "CappedAt", "Unavailable"}, count : Nat]
        /\ c \in [kind : {"Exact", "CappedAt", "Unavailable"}, count : Nat]
    BY DEF Exact, CappedAt
  <1>3. e # Malformed /\ c # Malformed
    BY <1>2, AbsentAssumption
  <1> HIDE DEF e, c
  <1>4. Reconciled(e, e) = e
    <2>1. {x \in {e, e} : x.kind = "CappedAt"} = {}
      BY <1>1
    <2> QED BY <1>1, <2>1 DEF Reconciled
  <1>5. Reconciled(e, c) = c
    <2>1. {x \in {e, c} : x.kind = "CappedAt"} = {c} /\ {x \in {e, c} : x.kind = "Exact"} = {e}
      BY <1>1
    <2> DEFINE most == CHOOSE x \in {c} : \A d \in {c} : d.count <= x.count
    <2>2. most = c
      <3>1. c \in {c} /\ \A d \in {c} : d.count <= c.count
        BY <1>1
      <3> QED BY <3>1
    <2>3. ~ \E x \in {e} : x.count < most.count
      BY <1>1, <2>2
    <2>4. {c} # {} /\ Unavailable \notin {e, c}
      BY <1>1
    <2> QED BY <2>1, <2>2, <2>3, <2>4, Zenon DEF Reconciled
  <1> QED BY <1>3, <1>4, <1>5 DEF e, c

\* The files that are shown are taken, each path once.
LEMMA FilesShown ==
    ASSUME Readable(1), NEW v \in Stored, v.revision = 1
    PROVE  LET wire == IF v.state = "collected" THEN Files(1) ELSE <<>>
               files == [i \in DOMAIN wire |-> ChangedFile(wire[i])]
           IN  /\ \A f \in ToSet(wire) : ChangedFileVerdict(f) = "accepted"
               /\ ExactVersionVerdict(Version(VersionAnswer(v)), files) = "accepted"
               /\ Len(Sorted(files)) = Len(wire)
  <1> DEFINE wire == IF v.state = "collected" THEN Files(1) ELSE <<>>
             files == [i \in DOMAIN wire |-> ChangedFile(wire[i])]
             n == Len(wire)
             version == Version(VersionAnswer(v))
             paths == [i \in 1..n |-> ChangedPathOf(wire[i])]
  <1>1. wire \in Seq(WireFile) /\ Files(1) \in Seq(WireFile)
    BY RevisionAssumption DEF Files
  <1>2. n \in Nat /\ DOMAIN wire = 1..n /\ Len(Files(1)) \in Nat
    BY <1>1
  <1>3. \A f \in ToSet(wire) : ChangedFileVerdict(f) = "accepted"
    BY DEF Readable, ToSet
  <1>4. n <= Len(Files(1))
    BY <1>2
  <1>5. \A i, k \in 1..n : ChangedPathOf(wire[i]) = ChangedPathOf(wire[k]) => i = k
    BY <1>2 DEF Readable
  <1>6. v.state # "collected" => wire = <<>>
    OBVIOUS
  <1>7. /\ version.reported = IF 1 \in Capped THEN CappedAt(Len(Files(1))) ELSE Exact(Len(Files(1)))
        /\ version.state = IF 1 \in Capped THEN "Overflow"
                           ELSE IF v.state = "collected" THEN "Collected" ELSE "WithoutFiles"
    BY VersionShown
  <1> HIDE DEF wire, version
  <1>8. Len(files) = n /\ DOMAIN files = 1..n
    BY <1>1, <1>2
  <1>9. Cardinality({f.path : f \in ToSet(files)}) = n
    <2>1. DOMAIN paths = 1..n /\ \A i, k \in 1..n : paths[i] = paths[k] => i = k
      BY <1>5
    <2>2. {f.path : f \in ToSet(files)} = ToSet(paths)
      <3>1. \A i \in 1..n : files[i].path = paths[i]
        BY <1>8 DEF ChangedFile
      <3> HIDE DEF files, paths, n
      <3>2. ToSet(files) = {files[i] : i \in 1..n} /\ ToSet(paths) = {paths[i] : i \in 1..n}
        BY <1>8, <2>1 DEF ToSet
      <3> QED BY <3>1, <3>2
    <2> HIDE DEF paths, n
    <2>3. IsInjective(paths)
      BY <2>1 DEF IsInjective
    <2>4. Cardinality(ToSet(paths)) = n
      BY <1>2, <2>1, <2>3, DistinctCount
    <2> QED BY <2>2, <2>4
  <1>10. version.state = "WithoutFiles" => files = <<>>
    <2>1. version.state = "WithoutFiles" => wire = <<>>
      BY <1>6, <1>7
    <2> QED BY <2>1
  <1>11. ~ (version.reported.kind = "Exact" /\ version.reported.count < Len(files))
    BY <1>2, <1>4, <1>7, <1>8 DEF Exact, CappedAt
  <1>12. ExactVersionVerdict(version, files) = "accepted"
    <2> HIDE DEF files, n
    <2> QED BY <1>8, <1>9, <1>10, <1>11 DEF ExactVersionVerdict
  <1>13. Len(Sorted(files)) = n
    <2> HIDE DEF n
    <2> QED BY <1>1, <1>3, <1>12, ExactFilesListed DEF n
  <1> QED BY <1>3, <1>12, <1>13 DEF wire, version

LEMMA ExactCalm == CInv /\ ExactDiffVersion => StaysCalm
  <1> SUFFICES ASSUME CInv, ExactDiffVersion PROVE StaysCalm
    OBVIOUS
  <1> DEFINE shown == CHOOSE v \in ToSet(versions) : v.id = got.version.id
             wire == IF shown.state = "collected" THEN Files(shown.revision) ELSE <<>>
             version == Version(VersionAnswer(shown))
             files == [i \in DOMAIN wire |-> ChangedFile(wire[i])]
             reported == Reconciled(got.mr.changes, version.reported)
             n == Len(Files(1))
  <1>1. stage = "ExactDiffVersion" /\ poll \in 1..MaxPolls
    BY DEF ExactDiffVersion, CInv, CountsOK
  <1>2. Calm => HostCalm /\ got.mr = First /\ pages = <<>>
    BY <1>1 DEF CInv, Undisturbed, HostCalm, PagesCalm
  <1>3. ASSUME Calm
        PROVE  shown \in Stored /\ shown.revision = 1 /\ shown.id = got.version.id
    <2>1. versions \in Seq(Stored) /\ Len(versions) \in Nat /\ DOMAIN versions = 1..Len(versions)
      BY DEF CInv, EInv, VersionsOK
    <2>2. got.version.id \in 1..Len(versions)
      BY <1>1 DEF CInv, EInv, ListedOK, Bound
    <2> DEFINE i == Len(versions) + 1 - got.version.id
    <2>3. i \in DOMAIN versions /\ Len(versions) + 1 - i = got.version.id
      BY <2>1, <2>2
    <2>4. versions[i].id = got.version.id
      BY <2>3 DEF CInv, EInv, VersionsOK
    <2>5. \E v \in ToSet(versions) : v.id = got.version.id
      BY <2>3, <2>4 DEF ToSet
    <2>6. shown \in ToSet(versions) /\ shown.id = got.version.id
      BY <2>5
    <2>7. \A v \in ToSet(versions) : v \in Stored /\ v.revision = 1
      BY <1>2, <1>3, <2>1 DEF ToSet, HostCalm
    <2> QED BY <2>6, <2>7
  <1>4. \/ /\ \E f \in ToSet(wire) : ChangedFileVerdict(f) # "accepted"
           /\ Ends("Wire", "ChangedFile")
        \/ /\ ExactVersionVerdict(version, files) # "accepted"
           /\ Ends("Wire", "InvalidExactVersion")
        \/ /\ \/ <<version.id, version.refs>> # <<got.version.id, got.version.refs>>
              \/ version.mr \notin {Absent, got.mr.id}
           /\ Ends("Identity", "ExactVersionMismatch")
        \/ /\ reported = Malformed
           /\ Ends("Identity", "ChangedFileCountConflict")
        \/ /\ Goes("CurrentDiffs")
           /\ got' = [mr |-> got.mr, context |-> got.context,
                      version |-> version, reported |-> reported,
                      files |-> Sorted(files)]
           /\ UNCHANGED <<poll, pages>>
    BY Zenon DEF ExactDiffVersion
  <1>5. ASSUME Calm
        PROVE  /\ \A f \in ToSet(wire) : ChangedFileVerdict(f) = "accepted"
               /\ ExactVersionVerdict(version, files) = "accepted"
               /\ Len(Sorted(files)) = Len(wire)
    <2>1. shown \in Stored /\ shown.revision = 1 /\ Readable(1)
      BY <1>3, <1>5 DEF Calm
    <2>2. wire = IF shown.state = "collected" THEN Files(1) ELSE <<>>
      BY <2>1
    <2> HIDE DEF shown, wire
    <2>3. LET w == IF shown.state = "collected" THEN Files(1) ELSE <<>>
              fs == [i \in DOMAIN w |-> ChangedFile(w[i])]
          IN  /\ \A f \in ToSet(w) : ChangedFileVerdict(f) = "accepted"
              /\ ExactVersionVerdict(Version(VersionAnswer(shown)), fs) = "accepted"
              /\ Len(Sorted(fs)) = Len(w)
      BY <2>1, FilesShown
    <2> QED BY <2>2, <2>3
  <1>6. ASSUME Calm
        PROVE  /\ version.id = got.version.id /\ version.refs = RefsOf[1]
               /\ version.mr = MergeRequestId
               /\ version.reported = IF 1 \in Capped THEN CappedAt(n) ELSE Exact(n)
               /\ version.state = IF 1 \in Capped THEN "Overflow"
                                  ELSE IF shown.state = "collected" THEN "Collected" ELSE "WithoutFiles"
    <2>1. shown \in Stored /\ shown.revision = 1 /\ shown.id = got.version.id
      BY <1>3, <1>6
    <2> HIDE DEF shown
    <2> QED BY <2>1, VersionShown
  <1>7. ASSUME Calm
        PROVE  /\ <<version.id, version.refs>> = <<got.version.id, got.version.refs>>
               /\ version.mr \in {Absent, got.mr.id}
    <2>1. got.version.refs = RefsOf[1]
      BY <1>1, <1>2, <1>7 DEF CInv, EInv, IInv, BoundOK, Bound, First
    <2>2. got.mr.id = MergeRequestId
      BY <1>2, <1>7 DEF First
    <2> HIDE DEF version
    <2> QED BY <1>6, <1>7, <2>1, <2>2
  <1>8. ASSUME Calm
        PROVE  reported # Malformed /\ (1 \notin Capped => reported = Exact(n))
    <2>1. n \in Nat
      BY RevisionAssumption DEF Files
    <2>2. got.mr.changes = Exact(n)
      BY <1>2, <1>8 DEF First
    <2> HIDE DEF version, n
    <2> QED BY <1>6, <1>8, <2>1, <2>2, ReconciledCalm
  <1>9. ASSUME Calm, shown.state = "collected" PROVE Len(Sorted(files)) = n
    <2>1. wire = Files(1)
      BY <1>3, <1>9
    <2> HIDE DEF wire
    <2> QED BY <1>5, <1>9, <2>1
  <1> HIDE DEF shown, wire, version, files, reported, n
  <1>10. CASE /\ \E f \in ToSet(wire) : ChangedFileVerdict(f) # "accepted"
              /\ Ends("Wire", "ChangedFile")
    BY <1>5, <1>10, EndsCalm
  <1>11. CASE /\ ExactVersionVerdict(version, files) # "accepted"
              /\ Ends("Wire", "InvalidExactVersion")
    BY <1>5, <1>11, EndsCalm
  <1>12. CASE /\ \/ <<version.id, version.refs>> # <<got.version.id, got.version.refs>>
                 \/ version.mr \notin {Absent, got.mr.id}
              /\ Ends("Identity", "ExactVersionMismatch")
    BY <1>7, <1>12, EndsCalm
  <1>13. CASE /\ reported = Malformed
              /\ Ends("Identity", "ChangedFileCountConflict")
    BY <1>8, <1>13, EndsCalm
  <1>14. CASE /\ Goes("CurrentDiffs")
              /\ got' = [mr |-> got.mr, context |-> got.context,
                         version |-> version, reported |-> reported,
                         files |-> Sorted(files)]
              /\ UNCHANGED <<poll, pages>>
    <2>1. stage' = "CurrentDiffs" /\ UNCHANGED <<revision, refs, versions, totals>>
      BY <1>14 DEF Goes, host
    <2>2. got'.mr = got.mr /\ got'.version = version /\ got'.reported = reported
          /\ got'.files = Sorted(files)
      BY <1>14
    <2>3. ASSUME Calm PROVE Undisturbed'
      <3>1. HostCalm'
        BY <1>1, <1>2, <2>1, <2>2, <2>3 DEF HostCalm, First, Files
      <3>2. PagesCalm'
        <4>1. FirstPages(Files(1), 0)' = <<>>
          BY DEF FirstPages
        <4>2. 0 \in 0..(PagesOf(Len(Files(1)), PerPage) - 1)
          <5>1. PagesOf(Len(Files(1)), PerPage) \in Nat \ {0}
            BY PagesOfItems, RevisionAssumption DEF Files
          <5> QED BY <5>1
        <4>3. pages' = <<>>
          BY <1>2, <1>14, <2>3
        <4>4. Paged(Files(1))'
          BY <4>1, <4>2, <4>3 DEF Paged, Files
        <4> QED BY <2>1, <4>4 DEF PagesCalm, Files
      <3>3. SettledCalm'
        BY <2>1 DEF SettledCalm, Settling
      <3>4. FiledCalm'
        <4> SUFFICES ASSUME Plain
                     PROVE  \/ got'.version.state = "WithoutFiles"
                            \/ /\ got'.version.state = "Collected"
                               /\ got'.reported = Exact(n)
                               /\ Len(got'.files) = n
          BY SamePlain DEF FiledCalm, n, Files
        <4>1. 1 \notin Capped
          BY DEF Plain
        <4> QED BY <1>6, <1>8, <1>9, <2>2, <2>3, <4>1
      <3> QED BY <3>1, <3>2, <3>3, <3>4 DEF Undisturbed
    <2>4. poll' \in 1..MaxPolls
      BY <1>1, <1>14
    <2> QED BY <1>14, <2>3, <2>4, GoesCalm
  <1> QED BY <1>4, <1>10, <1>11, <1>12, <1>13, <1>14

\* A listing of the paths, as it is kept.
LEMMA PathsListed ==
    ASSUME NEW S, NEW items \in Seq(S), NEW read,
           read = FirstPages(items, PagesOf(Len(items), PerPage))
    PROVE  LET listing == Listing(read)
               paths == [listing EXCEPT !.items =
                            [i \in DOMAIN listing.items |-> ChangedPathOf(listing.items[i])]]
           IN  /\ ListingComplete(paths)
               /\ Len(paths.items) = Len(items)
               /\ ToSet(paths.items) = {ChangedPathOf(w) : w \in ToSet(items)}
  <1> DEFINE listing == Listing(read)
             mapped == [i \in DOMAIN items |-> ChangedPathOf(items[i])]
             paths == [listing EXCEPT !.items = mapped]
  <1>1. listing.items = items /\ Receipts(items, listing.pages)
    BY PagesListed
  <1>2. paths.pages = listing.pages /\ paths.items = mapped
    <2>1. listing = [items |-> listing.items, pages |-> listing.pages]
      BY DEF Listing
    <2> HIDE DEF listing, mapped
    <2> QED BY <2>1
  <1>3. paths = [listing EXCEPT !.items = [i \in DOMAIN listing.items |-> ChangedPathOf(listing.items[i])]]
    BY <1>1
  <1>4. Len(mapped) = Len(items) /\ ToSet(mapped) = {ChangedPathOf(w) : w \in ToSet(items)}
    BY DEF ToSet
  <1> HIDE DEF listing, paths, mapped
  <1>5. ListingComplete(paths)
    <2> DEFINE receipts == listing.pages
    <2>1. Receipts(items, receipts) /\ paths.pages = receipts /\ Len(paths.items) = Len(items)
      BY <1>1, <1>2, <1>4
    <2> HIDE DEF receipts
    <2> QED BY <2>1, PagesComplete
  <1> QED BY <1>2, <1>3, <1>4, <1>5 DEF listing

LEMMA CurrentCalm == CInv /\ CurrentDiffs => StaysCalm
  <1> SUFFICES ASSUME CInv, CurrentDiffs PROVE StaysCalm
    OBVIOUS
  <1> DEFINE items == Files(revision)
             m == PagesOf(Len(items), PerPage)
             read == PagesRead(items)
             expected == WantedOf(got.files, got.version.refs)
  <1>1. stage = "CurrentDiffs" /\ (ReadPage(items) \/ (Collected(items) /\ Current(Listing(read))))
    BY DEF CurrentDiffs
  <1>2. poll \in 1..MaxPolls
    BY DEF CInv, CountsOK
  <1>3. ASSUME Calm
        PROVE  HostCalm /\ got.mr = First /\ FiledCalm /\ items = Files(1) /\ items \in Seq(WireFile)
               /\ \E k \in 0..(m - 1) : pages = FirstPages(items, k)
               /\ Len(items) <= MaxItems /\ m <= MaxPages
    <2>1. HostCalm /\ FiledCalm /\ PagesCalm
      BY <1>3 DEF CInv, Undisturbed
    <2>2. items = Files(1)
      BY <2>1 DEF HostCalm
    <2>3. items \in Seq(WireFile)
      BY <2>2, RevisionAssumption DEF Files
    <2>4. Paged(Files(1))
      BY <1>1, <2>1 DEF PagesCalm
    <2>5. got.mr = First
      BY <1>1, <2>1 DEF HostCalm
    <2>6. Len(Files(1)) <= MaxItems /\ PagesOf(Len(Files(1)), PerPage) <= MaxPages
      BY <1>3 DEF Calm, Readable
    <2> QED BY <2>1, <2>2, <2>3, <2>4, <2>5, <2>6 DEF Paged
  <1> HIDE DEF items
  <1>4. CASE ReadPage(items)
    <2>1. \/ \E why : Ends("Wire", why)
          \/ Goes(stage) /\ UNCHANGED <<poll, got>>
      BY <1>4 DEF ReadPage
    <2>2. ASSUME Calm
          PROVE  \E k \in 0..(m - 1) :
                    k + 1 < m /\ Goes(stage) /\ pages' = FirstPages(items, k + 1) /\ UNCHANGED <<got, poll>>
      <3>1. PICK k \in 0..(m - 1) : pages = FirstPages(items, k)
        BY <1>3, <2>2
      <3> QED BY <1>3, <1>4, <2>2, <3>1, PagesNext
    <2>3. CASE Calm
      <3>1. PICK k \in 0..(m - 1) :
                k + 1 < m /\ Goes(stage) /\ pages' = FirstPages(items, k + 1) /\ UNCHANGED <<got, poll>>
        BY <2>2, <2>3
      <3>2. UNCHANGED <<revision, refs, versions, totals, stage, got, poll>>
        BY <3>1 DEF Goes, host
      <3>3. Undisturbed'
        <4>1. HostCalm'
          BY <1>3, <2>3, <3>2 DEF HostCalm, First, Files
        <4>2. PagesCalm'
          <5>1. FirstPages(items, k + 1)' = FirstPages(items', k + 1)
            BY <3>2 DEF FirstPages, PageOf
          <5>2. items' = Files(1)' /\ items' = items
            BY <1>3, <2>3, <3>2 DEF items, Files
          <5>3. k + 1 \in 0..(m - 1)
            <6>1. m \in Nat \ {0}
              BY <1>3, <2>3, PagesOfItems
            <6> HIDE DEF m
            <6> QED BY <3>1, <6>1
          <5>4. FirstPages(items, k + 1)' = FirstPages(items, k + 1)
            BY <3>2, <5>2 DEF FirstPages, PageOf
          <5>5. Paged(Files(1))'
            BY <3>1, <5>1, <5>2, <5>3, <5>4 DEF Paged
          <5> QED BY <1>1, <3>2, <5>5 DEF PagesCalm
        <4>3. FiledCalm'
          BY <1>3, <2>3, <3>2, SamePlain DEF FiledCalm, Files
        <4>4. SettledCalm'
          BY <1>1, <3>2 DEF SettledCalm, Settling
        <4> QED BY <4>1, <4>2, <4>3, <4>4 DEF Undisturbed
      <3> QED BY <1>1, <1>2, <3>1, <3>2, <3>3, GoesCalm
    <2>4. CASE ~ Calm
      <3>1. CASE \E why : Ends("Wire", why)
        BY <2>4, <3>1, EndsCalm
      <3>2. CASE Goes(stage) /\ UNCHANGED <<poll, got>>
        BY <1>1, <1>2, <2>4, <3>2, GoesCalm
      <3> QED BY <2>1, <3>1, <3>2
    <2> QED BY <2>3, <2>4
  <1>5. CASE Collected(items) /\ Current(Listing(read))
    <2> DEFINE listing == Listing(read)
               paths == [listing EXCEPT !.items =
                            [i \in DOMAIN listing.items |-> ChangedPathOf(listing.items[i])]]
    <2>1. /\ Goes(IF expected = {} THEN "FinalMergeRequest" ELSE "RawBlob")
          /\ got' = [mr |-> got.mr, context |-> got.context, version |-> got.version,
                     reported |-> got.reported, files |-> got.files, current |-> paths,
                     todo |-> SetToSeq(expected), blobs |-> <<>>, retained |-> <<>>]
          /\ pages' = <<>> /\ UNCHANGED poll
      BY <1>5, Zenon DEF Current, WantedOf
    <2> DEFINE next == IF expected = {} THEN "FinalMergeRequest" ELSE "RawBlob"
    <2>2. ASSUME Calm
          PROVE  /\ ListingComplete(paths)
                 /\ Len(paths.items) = Len(items)
                 /\ ToSet(paths.items) = {ChangedPathOf(w) : w \in ToSet(items)}
      <3>1. read = FirstPages(items, m)
        <4>1. PICK k \in 0..(m - 1) : pages = FirstPages(items, k)
          BY <1>3, <2>2
        <4> QED BY <1>3, <1>5, <2>2, <4>1, PagesNext
      <3> HIDE DEF read
      <3> QED BY <1>3, <2>2, <3>1, PathsListed
    <2>3. /\ SetToSeq(expected) \in Seq(expected)
          /\ Len(SetToSeq(expected)) = Cardinality(expected)
          /\ ToSet(SetToSeq(expected)) = expected
          /\ IsFiniteSet(expected)
      <3>1. PICK r \in Revision : IsFiniteSet(ToSet(got.files)) /\ ToSet(got.files) \subseteq TrueFiles(r)
        BY <1>1 DEF CInv, EInv, FilesOK, Filed, Bound
      <3>2. \A f \in ToSet(got.files) : f.path.kind \in Kind
        BY <3>1, TrueKinds
      <3> QED BY <3>1, <3>2, WantedFinite, SetToSeqLists
    <2> HIDE DEF paths, expected, read
    <2>4. UNCHANGED <<revision, refs, versions, outcome>> /\ stage' = next /\ poll' = poll
      BY <2>1 DEF Goes, host
    <2>5. /\ got'.mr = got.mr /\ got'.version = got.version /\ got'.files = got.files
          /\ got'.reported = got.reported /\ got'.current = paths
          /\ got'.todo = SetToSeq(expected) /\ got'.blobs = <<>> /\ got'.retained = <<>>
      BY <2>1
    <2>6. Wanted' = expected
      BY <2>5 DEF Wanted, expected
    <2>7. expected = {} => SetToSeq(expected) = <<>>
      <3>1. expected = {} => Len(SetToSeq(expected)) = 0
        BY <2>3, FS_EmptySet
      <3> DEFINE t == SetToSeq(expected)
      <3>2. t \in Seq(expected) /\ (expected = {} => Len(t) = 0)
        BY <2>3, <3>1
      <3> HIDE DEF t
      <3>3. expected = {} => t = <<>>
        BY <3>2
      <3> QED BY <3>3 DEF t
    <2>8. ASSUME Calm PROVE Undisturbed'
      <3>1. HostCalm'
        BY <1>1, <1>3, <2>4, <2>5, <2>8 DEF HostCalm, First, Files
      <3>2. PagesCalm'
        BY <2>1, <2>4 DEF PagesCalm
      <3>3. FiledCalm'
        BY <1>1, <1>3, <2>4, <2>5, <2>8, SamePlain DEF FiledCalm, Filed, Bound, Files
      <3>4. SettledCalm'
        <4>1. ListingComplete(got.current)' /\ Len(got'.current.items) = Len(Files(1))
              /\ ToSet(got'.current.items) = {ChangedPathOf(w) : w \in ToSet(Files(1))}
          <5>1. ListingComplete(got.current)' = ListingComplete(got'.current)
            OBVIOUS
          <5> QED BY <1>3, <2>2, <2>5, <2>8, <5>1
        <4>2. /\ Wanted' \subseteq ToSet(got'.todo) \cup {b.request : b \in ToSet(got'.blobs)}
              /\ ToSet(got'.blobs) = {}
          BY <2>3, <2>5, <2>6 DEF ToSet
        <4>3. Len(got'.blobs) + Len(got'.todo) <= Cardinality(Wanted)' /\ Len(got'.retained) = Len(got'.blobs)
          <5>1. Cardinality(Wanted)' = Cardinality(expected)
            BY <2>6
          <5>2. Cardinality(expected) \in Nat
            BY <2>3, FS_CardinalityType
          <5> QED BY <2>3, <2>5, <5>1, <5>2
        <4>4. stage' = "FinalMergeRequest" => got'.todo = <<>>
          BY <2>4, <2>5, <2>7
        <4> QED BY <4>1, <4>2, <4>3, <4>4 DEF SettledCalm, Files
      <3> QED BY <3>1, <3>2, <3>3, <3>4 DEF Undisturbed
    <2>9. Goes(next) /\ poll' \in 1..MaxPolls /\ next # "RefreshedMergeRequest"
      BY <1>2, <2>1, <2>4
    <2> HIDE DEF next
    <2> QED BY <2>8, <2>9, GoesCalm
  <1> QED BY <1>1, <1>4, <1>5

AllBlobs(r) == UNION {ExpectedBlobs(f.path, RefsOf[r]) : f \in TrueFiles(r)}

\* The blobs of a revision are finitely many, one to a request.
LEMMA BlobsCount ==
    /\ IsFiniteSet(AllBlobs(1))
    /\ TrueBlobs(1) = {TrueBlob(q) : q \in AllBlobs(1)}
    /\ IsFiniteSet(TrueBlobs(1))
    /\ Cardinality(TrueBlobs(1)) \in Nat
    /\ Cardinality(AllBlobs(1)) <= Cardinality(TrueBlobs(1))
  <1> DEFINE n == Len(Files(1))
             files == [i \in 1..n |-> ChangedFile(Files(1)[i])]
             all == AllBlobs(1)
             f == [q \in all |-> TrueBlob(q)]
  <1>1. n \in Nat /\ DOMAIN Files(1) = 1..n
    BY RevisionAssumption DEF Files
  <1>2. ToSet(files) = TrueFiles(1)
    <2>1. DOMAIN files = 1..n /\ \A i \in 1..n : files[i] = ChangedFile(Files(1)[i])
      OBVIOUS
    <2> HIDE DEF files, n
    <2> QED BY <1>1, <2>1 DEF TrueFiles, ToSet
  <1>3. IsFiniteSet(ToSet(files))
    <2>1. DOMAIN files = 1..n
      OBVIOUS
    <2> HIDE DEF files, n
    <2> QED BY <1>1, <2>1, DistinctCount
  <1>4. IsFiniteSet(all)
    <2> HIDE DEF files
    <2>1. \A g \in ToSet(files) : g.path.kind \in Kind
      BY <1>2, TrueKinds
    <2>2. IsFiniteSet(WantedOf(files, RefsOf[1]))
      BY <1>3, <2>1, WantedFinite
    <2> QED BY <1>2, <2>2 DEF WantedOf, AllBlobs
  <1>5. TrueBlobs(1) = {TrueBlob(q) : q \in all}
    BY DEF TrueBlobs, TrueBlob, AllBlobs
  <1>6. f \in Bijection(all, TrueBlobs(1))
    <2>1. \A q : TrueBlob(q).request = q
      BY DEF TrueBlob, Blob
    <2>2. \A p, q \in all : f[p] = f[q] => p = q
      BY <2>1
    <2> HIDE DEF all
    <2> QED BY <1>5, <2>2 DEF Bijection, Injection, Surjection, IsInjective
  <1> HIDE DEF f, all, files, n
  <1>7. IsFiniteSet(TrueBlobs(1)) /\ Cardinality(TrueBlobs(1)) = Cardinality(all)
    BY <1>4, <1>6, FS_Bijection DEF ExistsBijection
  <1>8. Cardinality(TrueBlobs(1)) \in Nat
    BY <1>7, FS_CardinalityType
  <1> QED BY <1>4, <1>5, <1>7, <1>8 DEF all

\* What is wanted of an undisturbed acquisition are blobs of its revision.
LEMMA WantedCalm ==
    ASSUME EInv, HostCalm, stage \in Settling
    PROVE  /\ got.version.refs = RefsOf[1]
           /\ ToSet(got.files) \subseteq TrueFiles(1)
           /\ Whole(got.version) => ToSet(got.files) = TrueFiles(1)
           /\ Wanted \subseteq AllBlobs(1)
           /\ Cardinality(Wanted) \in Nat
           /\ Cardinality(Wanted) <= Cardinality(TrueBlobs(1))
  <1>1. got.version.refs = RefsOf[1]
    BY DEF EInv, IInv, BoundOK, Bound, Settling, HostCalm, First
  <1>2. PICK r \in Revision :
            /\ got.version.refs = RefsOf[r]
            /\ ToSet(got.files) \subseteq TrueFiles(r)
            /\ Whole(got.version) => ToSet(got.files) = TrueFiles(r)
    BY DEF EInv, FilesOK, Filed, Settling, Bound
  <1>3. r = 1
    BY <1>1, <1>2, RevisionAssumption
  <1>4. Wanted \in SUBSET AllBlobs(1)
    BY <1>1, <1>2, <1>3 DEF Wanted, WantedOf, AllBlobs
  <1>5. IsFiniteSet(Wanted) /\ Cardinality(Wanted) <= Cardinality(AllBlobs(1))
    BY <1>4, BlobsCount, FS_Subset
  <1>6. Cardinality(Wanted) \in Nat /\ Cardinality(AllBlobs(1)) \in Nat
    BY <1>5, BlobsCount, FS_CardinalityType
  <1> QED BY <1>1, <1>2, <1>3, <1>4, <1>5, <1>6, BlobsCount

\* The answer for a blob of a readable revision is accepted.
LEMMA BlobAccepted ==
    ASSUME Readable(1), NEW q \in AllBlobs(1)
    PROVE  BlobVerdict(q, BlobAnswer(q)) = "accepted"
  <1> DEFINE r == BlobAnswer(q)
  <1>1. q.commit_sha \in {RefsOf[1].base, RefsOf[1].head}
    <2>1. PICK f \in TrueFiles(1) : q \in ExpectedBlobs(f.path, RefsOf[1])
      BY DEF AllBlobs
    <2>2. f.path.kind \in Kind
      BY TrueKinds
    <2> QED BY <2>1, <2>2 DEF ExpectedBlobs, Kind
  <1>2. q.commit_sha # Absent /\ q.commit_sha # Malformed /\ MaxBlob >= 1 /\ MaxBlob \in Nat
    BY <1>1, LimitsAssumption DEF Readable
  <1>3. /\ r.status = 200 /\ r.headers = "fine" /\ r.size = 1 /\ r.length = 1 /\ r.blob = "sha"
        /\ r.commit = q.commit_sha /\ r.ref = q.commit_sha /\ r.path = q.path
        /\ r.encoding = "base64" /\ r.declared = 1 /\ r.digest = r.content /\ r.mode = "false"
    BY DEF BlobAnswer
  <1> HIDE DEF r
  <1>4. 1 # Malformed /\ "sha" # Absent /\ "sha" # Malformed
    <2>1. \A x \in Nat : x # Malformed
      BY AbsentAssumption
    <2>2. 1 \in Nat
      OBVIOUS
    <2>3. 1 # Malformed
      BY <2>1, <2>2
    <2>4. "sha" # Absent /\ "sha" # Malformed
      BY AbsentAssumption, Zenon
    <2> QED BY <2>3, <2>4
  <1>5. HeaderError(r) = "accepted"
    BY <1>3, <1>4 DEF HeaderError
  <1>6. BlobVerdict(q, r) = "accepted"
    BY <1>2, <1>3, <1>4, <1>5 DEF BlobVerdict
  <1> QED BY <1>6 DEF r

\* Blobs of one unit each take as many units as they are.
LEMMA BytesCount ==
    ASSUME NEW S, NEW blobs \in Seq(S), \A b \in S : b.size = 1
    PROVE  BytesOf(blobs) = Len(blobs)
  <1> DEFINE n == Len(blobs)
             sizes == [i \in 1..n |-> blobs[i].size]
             c == [i \in 0..n |-> i]
             total(g, s) == IF s = {} THEN 0
                            ELSE blobs[CHOOSE x \in s : TRUE].size + g[s \ {CHOOSE x \in s : TRUE}]
             g == CHOOSE h : h = [s \in SUBSET DOMAIN blobs |-> total(h, s)]
  <1>1. n \in Nat /\ DOMAIN blobs = 1..n /\ IsFiniteSet(1..n)
    BY FS_Interval
  <1>2. \A i \in 1..n : blobs[i].size = 1
    BY <1>1
  <1>3. DOMAIN sizes = 1..n /\ \A i \in 1..n : sizes[i] = 1
    BY <1>2
  <1>4. BytesOf(blobs) = g[DOMAIN blobs]
    BY DEF BytesOf, MapThenSumSet, MapThenFoldSet
  <1>5. \A h, s : s \in SUBSET DOMAIN sizes => total(h, s) = Plus(sizes, h, s)
    <2> SUFFICES ASSUME NEW h, NEW s \in SUBSET DOMAIN sizes PROVE total(h, s) = Plus(sizes, h, s)
      OBVIOUS
    <2>1. CASE s = {}
      BY <2>1 DEF Plus
    <2>2. CASE s # {}
      <3>1. OneOf(s) \in 1..n
        BY <1>3, <2>2, OneOfIt
      <3>2. sizes[OneOf(s)] = blobs[OneOf(s)].size
        BY <3>1
      <3> QED BY <2>2, <3>2 DEF Plus, OneOf
    <2> QED BY <2>1, <2>2
  <1>6. c \in [0..n -> Nat] /\ c[0] = 0 /\ c[n] = n /\ \A i \in 1..n : c[i] = c[i - 1] + 1
    BY <1>1
  <1> HIDE DEF sizes, total, c, n
  <1>7. IsFiniteSet(DOMAIN sizes) /\ \A d \in DOMAIN sizes : sizes[d] \in Nat
    BY <1>1, <1>3
  <1>8. PICK h : h = [s \in SUBSET DOMAIN sizes |-> Plus(sizes, h, s)]
    BY <1>7, SumExists
  <1>9. DOMAIN blobs = DOMAIN sizes
    BY <1>1, <1>3
  <1>10. h = [s \in SUBSET DOMAIN blobs |-> total(h, s)]
    BY <1>5, <1>8, <1>9
  <1>11. g = [s \in SUBSET DOMAIN blobs |-> total(g, s)]
    BY <1>10
  <1> HIDE DEF g
  <1>12. Sums(sizes, g)
    BY <1>5, <1>9, <1>11 DEF Sums
  <1>13. \A m \in Nat : \A d \in [0..m -> Nat] :
            DOMAIN sizes = 1..m /\ d[0] = 0 /\ (\A i \in 1..m : d[i] = d[i - 1] + sizes[i])
                => g[DOMAIN sizes] = d[m]
    BY <1>7, <1>12, SumRuns
  <1>14. g[DOMAIN sizes] = n
    BY <1>1, <1>3, <1>6, <1>13
  <1> QED BY <1>4, <1>9, <1>14 DEF n

\* A blob is settled in an undisturbed acquisition: what is said of the others
\* stays.
LEMMA SettledStays ==
    ASSUME CInv, HostCalm, PagesCalm, FiledCalm, stage = "RawBlob", stage' = stage,
           UNCHANGED <<revision, refs, versions, totals, pages>>,
           got'.mr = got.mr, got'.version = got.version, got'.files = got.files,
           got'.reported = got.reported, got'.current = got.current,
           SettledCalm'
    PROVE  Undisturbed'
  <1>1. HostCalm'
    BY DEF HostCalm, First, Files
  <1>2. PagesCalm'
    BY DEF PagesCalm
  <1>3. FiledCalm'
    BY SamePlain DEF FiledCalm, Files
  <1> QED BY <1>1, <1>2, <1>3 DEF Undisturbed

\* What there is while blobs are read.
LEMMA RawBlobCalm ==
    ASSUME CInv, Calm, stage = "RawBlob"
    PROVE  /\ HostCalm /\ PagesCalm /\ FiledCalm /\ SettledCalm
           /\ {"mr", "context", "version", "reported", "files", "current", "todo", "blobs", "retained"}
                \subseteq DOMAIN got
           /\ got.todo \in Seq(Wanted) /\ got.blobs \in Seq(ToSet(got.blobs))
           /\ got.retained \in Seq({TrueBlob(q) : q \in Wanted})
           /\ Wanted \subseteq AllBlobs(1)
           /\ BytesOf(got.retained) = Len(got.retained)
  <1>1. HostCalm /\ PagesCalm /\ FiledCalm /\ SettledCalm
    BY DEF CInv, Undisturbed
  <1>2. EInv /\ stage \in Settling
    BY DEF CInv, Settling
  <1>3. /\ {"mr", "context", "version", "reported", "files", "current", "todo", "blobs", "retained"}
                \subseteq DOMAIN got
        /\ Kept(got.todo, got.blobs, got.retained, Wanted)
    BY <1>2, RawBlobHas
  <1>4. /\ got.todo \in Seq(Wanted) /\ got.blobs \in Seq(ToSet(got.blobs))
        /\ got.retained \in Seq({TrueBlob(q) : q \in Wanted})
    BY <1>3 DEF Kept
  <1>5. Wanted \subseteq AllBlobs(1)
    BY <1>1, <1>2, WantedCalm
  <1>6. \A b \in {TrueBlob(q) : q \in Wanted} : b.size = 1
    BY DEF TrueBlob, Blob, BlobAnswer
  <1>7. BytesOf(got.retained) = Len(got.retained)
    BY <1>4, <1>6, BytesCount
  <1> QED BY <1>1, <1>3, <1>4, <1>5, <1>7

\* Within the limits there is room for every blob.
LEMMA RoomCalm ==
    ASSUME CInv, Calm, Plain, stage = "RawBlob", got.version.state # "WithoutFiles",
           got.todo # <<>>
    PROVE  /\ Len(got.blobs) < MaxBlobRequests
           /\ BytesOf(got.retained) + 1 <= MaxBlobBytes
  <1>1. /\ SettledCalm /\ HostCalm
        /\ got.todo \in Seq(Wanted) /\ got.blobs \in Seq(ToSet(got.blobs))
        /\ BytesOf(got.retained) = Len(got.retained)
    BY RawBlobCalm
  <1>2. Len(got.blobs) + Len(got.todo) <= Cardinality(Wanted) /\ Len(got.retained) = Len(got.blobs)
    BY <1>1 DEF SettledCalm, Settling
  <1>3. EInv /\ stage \in Settling
    BY DEF CInv, Settling
  <1>4. Cardinality(Wanted) \in Nat /\ Cardinality(Wanted) <= Cardinality(TrueBlobs(1))
    BY <1>1, <1>3, WantedCalm
  <1>5. Cardinality(TrueBlobs(1)) \in Nat
    BY BlobsCount
  <1>6. Cardinality(TrueBlobs(1)) <= MaxBlobRequests /\ Cardinality(TrueBlobs(1)) <= MaxBlobBytes
    BY DEF Plain
  <1> DEFINE t == got.todo
             b == got.blobs
  <1>7. Len(t) \in Nat /\ Len(t) # 0 /\ Len(b) \in Nat
    <2>1. t \in Seq(Wanted) /\ t # <<>> /\ b \in Seq(ToSet(b))
      BY <1>1
    <2> HIDE DEF t, b
    <2> QED BY <2>1
  <1>8. MaxBlobRequests \in Nat /\ MaxBlobBytes \in Nat
    BY LimitsAssumption
  <1> DEFINE x == Len(b)
             y == Len(t)
             w == Cardinality(Wanted)
             z == Cardinality(TrueBlobs(1))
             k == BytesOf(got.retained)
  <1>9. /\ x \in Nat /\ y \in Nat /\ y # 0 /\ w \in Nat /\ z \in Nat
        /\ x + y <= w /\ w <= z /\ k = x /\ z <= MaxBlobRequests /\ z <= MaxBlobBytes
    BY <1>1, <1>2, <1>4, <1>5, <1>6, <1>7
  <1> HIDE DEF x, y, w, z, k
  <1>10. x < MaxBlobRequests /\ k + 1 <= MaxBlobBytes
    BY <1>8, <1>9
  <1> QED BY <1>10 DEF x, k

\* A blob was read and kept.
LEMMA ReadCalm ==
    ASSUME CInv, Calm, stage = "RawBlob", stage' = stage, got.todo # <<>>,
           UNCHANGED <<revision, refs, versions, totals, pages>>,
           NEW blob, blob = TrueBlob(Head(got.todo)),
           NEW told, told.request = Head(got.todo), told.outcome = blob.representation,
           got' = [got EXCEPT !.retained = Append(@, blob),
                              !.blobs = Append(@, told), !.todo = Tail(@)]
    PROVE  Undisturbed'
  <1>1. /\ HostCalm /\ PagesCalm /\ FiledCalm /\ SettledCalm
        /\ {"mr", "context", "version", "reported", "files", "current", "todo", "blobs", "retained"}
                \subseteq DOMAIN got
        /\ got.todo \in Seq(Wanted) /\ got.blobs \in Seq(ToSet(got.blobs))
        /\ got.retained \in Seq({TrueBlob(q) : q \in Wanted})
        /\ Wanted \subseteq AllBlobs(1)
    BY RawBlobCalm
  <1>2. /\ got'.mr = got.mr /\ got'.version = got.version /\ got'.files = got.files
        /\ got'.reported = got.reported /\ got'.current = got.current
        /\ got'.retained = Append(got.retained, blob)
        /\ got'.blobs = Append(got.blobs, told) /\ got'.todo = Tail(got.todo)
    BY <1>1
  <1> DEFINE t == got.todo
             b == got.blobs
             k == got.retained
  <1>3. Wanted' = Wanted
    BY <1>2 DEF Wanted
  <1>4. Head(t) \in Wanted /\ t \in Seq(Wanted) /\ t # <<>>
    <2>1. t \in Seq(Wanted) /\ t # <<>>
      BY <1>1
    <2> HIDE DEF t
    <2> QED BY <2>1
  <1>5. ToSet(b') = ToSet(b) \cup {told} /\ Len(b') = Len(b) + 1 /\ Len(b) \in Nat
    <2>1. b \in Seq(ToSet(b)) /\ b' = Append(b, told)
      BY <1>1, <1>2
    <2> HIDE DEF b
    <2>2. ToSet(Append(b, told)) = ToSet(b) \cup {told}
      BY <2>1, AppendMore
    <2>3. Len(Append(b, told)) = Len(b) + 1 /\ Len(b) \in Nat
      BY <2>1
    <2> QED BY <2>1, <2>2, <2>3
  <1>6. Len(k') = Len(k) + 1
    <2>1. k \in Seq({TrueBlob(q) : q \in Wanted}) /\ k' = Append(k, blob)
      BY <1>1, <1>2
    <2> HIDE DEF k
    <2> QED BY <2>1
  <1>7. ToSet(t) \subseteq {Head(t)} \cup ToSet(Tail(t)) /\ Len(Tail(t)) = Len(t) - 1 /\ Len(t) \in Nat
    <2> HIDE DEF t
    <2> DEFINE n == Len(t)
               u == Tail(t)
    <2>1. n \in Nat /\ n # 0 /\ DOMAIN t = 1..n /\ Head(t) = t[1]
      BY <1>4
    <2>2. DOMAIN u = 1..(n - 1) /\ \A i \in 1..(n - 1) : u[i] = t[i + 1]
      BY <1>4
    <2>3. Len(u) = n - 1
      BY <1>4
    <2> HIDE DEF n, u
    <2>4. \A i \in 1..n : i = 1 \/ (i - 1 \in 1..(n - 1) /\ (i - 1) + 1 = i)
      BY <2>1
    <2>5. \A i \in 1..n : t[i] = Head(t) \/ \E j \in 1..(n - 1) : t[i] = u[j]
      BY <2>1, <2>2, <2>4
    <2> QED BY <2>1, <2>2, <2>3, <2>5 DEF ToSet, n, u
  <1>8. SettledCalm'
    <2> SUFFICES ASSUME Plain, got.version.state # "WithoutFiles"
                 PROVE  /\ ListingComplete(got.current)'
                        /\ Len(got'.current.items) = Len(Files(1))
                        /\ ToSet(got'.current.items) = {ChangedPathOf(w) : w \in ToSet(Files(1))}
                        /\ Wanted \subseteq ToSet(t') \cup {c.request : c \in ToSet(b')}
                        /\ \A c \in ToSet(b') : c.outcome = "FileContent"
                        /\ Len(b') + Len(t') <= Cardinality(Wanted)
                        /\ Len(k') = Len(b')
      BY <1>2, <1>3, SamePlain DEF SettledCalm, Files
    <2>1. /\ ListingComplete(got.current)
          /\ Len(got.current.items) = Len(Files(1))
          /\ ToSet(got.current.items) = {ChangedPathOf(w) : w \in ToSet(Files(1))}
          /\ Wanted \subseteq ToSet(t) \cup {c.request : c \in ToSet(b)}
          /\ \A c \in ToSet(b) : c.outcome = "FileContent"
          /\ Len(b) + Len(t) <= Cardinality(Wanted)
          /\ Len(k) = Len(b)
      BY <1>1 DEF SettledCalm, Settling
    <2>2. ListingComplete(got.current)'
      <3>1. ListingComplete(got.current)' = ListingComplete(got'.current)
        OBVIOUS
      <3> QED BY <1>2, <2>1, <3>1
    <2>3. told.outcome = "FileContent"
      <3>1. TrueBlob(Head(t)) \in TrueBlobs(1)
        BY <1>1, <1>4, BlobsCount
      <3> QED BY <3>1 DEF Plain
    <2>4. t' = Tail(t)
      BY <1>2
    <2>5. Wanted \subseteq ToSet(t') \cup {c.request : c \in ToSet(b')}
      <3>1. told.request = Head(t)
        OBVIOUS
      <3> HIDE DEF t, b
      <3> QED BY <1>5, <1>7, <2>1, <2>4, <3>1
    <2>6. \A c \in ToSet(b') : c.outcome = "FileContent"
      <3> HIDE DEF b
      <3> QED BY <1>5, <2>1, <2>3
    <2>7. Len(b') + Len(t') <= Cardinality(Wanted) /\ Len(k') = Len(b')
      <3>1. Cardinality(Wanted) \in Nat
        <4>1. EInv /\ stage \in Settling
          BY DEF CInv, Settling
        <4> QED BY <1>1, <4>1, WantedCalm
      <3> DEFINE x == Len(b)
                 y == Len(t)
                 z == Cardinality(Wanted)
      <3>2. /\ x \in Nat /\ y \in Nat /\ z \in Nat /\ x + y <= z
            /\ Len(b') = x + 1 /\ Len(t') = y - 1 /\ Len(k') = x + 1
        BY <1>5, <1>6, <1>7, <2>1, <2>4, <3>1
      <3> HIDE DEF x, y, z, t, b, k
      <3>3. Len(b') + Len(t') <= z /\ Len(k') = Len(b')
        BY <3>2
      <3> QED BY <3>3 DEF z
    <2> QED BY <1>2, <2>1, <2>2, <2>5, <2>6, <2>7
  <1> HIDE DEF t, b, k
  <1> QED BY <1>1, <1>2, <1>8, SettledStays

\* A blob was not kept: with an excuse.
LEMMA SkippedCalm ==
    ASSUME CInv, Calm, stage = "RawBlob", stage' = stage,
           UNCHANGED <<revision, refs, versions, totals, pages>>, Unfetched(Head(got.todo)),
           ~ (Plain /\ got.version.state # "WithoutFiles")
    PROVE  Undisturbed'
  <1>1. /\ HostCalm /\ PagesCalm /\ FiledCalm /\ SettledCalm
        /\ {"mr", "context", "version", "reported", "files", "current", "todo", "blobs", "retained"}
                \subseteq DOMAIN got
    BY RawBlobCalm
  <1>2. /\ got'.mr = got.mr /\ got'.version = got.version /\ got'.files = got.files
        /\ got'.reported = got.reported /\ got'.current = got.current
    BY <1>1 DEF Unfetched
  <1>3. SettledCalm'
    BY <1>2, SamePlain DEF SettledCalm
  <1> QED BY <1>1, <1>2, <1>3, SettledStays

LEMMA SkipCalm == CInv /\ SkipBlob => StaysCalm
  <1> SUFFICES ASSUME CInv, SkipBlob PROVE StaysCalm
    OBVIOUS
  <1>1. /\ stage = "RawBlob" /\ stage' = stage /\ got.todo # <<>>
        /\ Len(got.blobs) >= MaxBlobRequests
        /\ Unfetched(Head(got.todo))
        /\ UNCHANGED <<revision, refs, versions, totals, pushes, faults, poll, pages, outcome>>
    BY DEF SkipBlob, host
  <1>2. CountsOK'
    BY <1>1 DEF CInv, CountsOK
  <1>3. FailsForCause'
    BY <1>1, CauseStays
  <1>4. Calm' <=> Calm
    BY <1>1, SamePlain DEF Calm
  <1>5. ASSUME Calm PROVE Undisturbed'
    <2>1. ~ (Plain /\ got.version.state # "WithoutFiles")
      <3> SUFFICES ASSUME Plain, got.version.state # "WithoutFiles" PROVE FALSE
        OBVIOUS
      <3>1. Len(got.blobs) < MaxBlobRequests
        BY <1>1, <1>5, RoomCalm
      <3>2. Len(got.blobs) \in Nat /\ MaxBlobRequests \in Nat
        <4> DEFINE b == got.blobs
        <4>1. b \in Seq(ToSet(b))
          BY <1>1, <1>5, RawBlobCalm
        <4> HIDE DEF b
        <4>2. Len(b) \in Nat
          BY <4>1
        <4> QED BY <4>2, LimitsAssumption DEF b
      <3> QED BY <1>1, <3>1, <3>2
    <2> QED BY <1>1, <1>5, <2>1, SkippedCalm
  <1> QED BY <1>2, <1>3, <1>4, <1>5 DEF StaysCalm

LEMMA BlobsReadCalm == CInv /\ BlobsRead => StaysCalm
  <1> SUFFICES ASSUME CInv, BlobsRead PROVE StaysCalm
    OBVIOUS
  <1>1. /\ stage = "RawBlob" /\ stage' = "FinalMergeRequest" /\ got.todo = <<>>
        /\ UNCHANGED <<revision, refs, versions, totals, pushes, faults, poll, pages, got, outcome>>
    BY DEF BlobsRead, host
  <1>2. CountsOK'
    BY <1>1 DEF CInv, CountsOK
  <1>3. FailsForCause'
    BY <1>1, CauseStays
  <1>4. Calm' <=> Calm
    BY <1>1, SamePlain DEF Calm
  <1>5. ASSUME Calm PROVE Undisturbed'
    <2>1. HostCalm /\ PagesCalm /\ FiledCalm /\ SettledCalm
      BY <1>5 DEF CInv, Undisturbed
    <2>2. HostCalm'
      BY <1>1, <2>1 DEF HostCalm, First, Files
    <2>3. PagesCalm'
      BY <1>1, <2>1 DEF PagesCalm
    <2>4. FiledCalm'
      BY <1>1, <2>1, SamePlain DEF FiledCalm, Filed, Bound, Files
    <2>5. SettledCalm'
      BY <1>1, <2>1, SamePlain DEF SettledCalm, Settling, Files, Wanted
    <2> QED BY <2>2, <2>3, <2>4, <2>5 DEF Undisturbed
  <1> QED BY <1>2, <1>3, <1>4, <1>5 DEF StaysCalm

LEMMA BlobCalm == CInv /\ RawBlob => StaysCalm
  <1> SUFFICES ASSUME CInv, RawBlob PROVE StaysCalm
    OBVIOUS
  <1> DEFINE request == Head(got.todo)
             answer == BlobAnswer(request)
             blob == Blob(request, answer)
             told == [request |-> request, size |-> blob.size, outcome |-> blob.representation]
             bytes == BytesOf(got.retained) + blob.size
  <1>1. stage = "RawBlob" /\ got.todo # <<>> /\ poll \in 1..MaxPolls
    BY DEF RawBlob, AskBlob, CInv, CountsOK
  <1>2. \/ /\ BlobVerdict(request, answer) # "accepted"
           /\ Ends("Wire", BlobVerdict(request, answer))
        \/ /\ Goes("RawBlob")
           /\ UNCHANGED <<poll, pages>>
           /\ \/ bytes > MaxBlobBytes /\ Unfetched(request)
              \/ got' = [got EXCEPT !.retained = Append(@, blob),
                         !.blobs = Append(@, told), !.todo = Tail(@)]
    BY Zenon DEF RawBlob
  <1>3. blob = TrueBlob(request) /\ blob.size = 1
    BY DEF TrueBlob, Blob, BlobAnswer
  <1>4. told.request = request /\ told.outcome = blob.representation
    OBVIOUS
  <1>5. ASSUME Calm PROVE BlobVerdict(request, answer) = "accepted"
    <2>1. got.todo \in Seq(Wanted) /\ Wanted \subseteq AllBlobs(1) /\ Readable(1)
      BY <1>1, <1>5, RawBlobCalm DEF Calm
    <2> DEFINE t == got.todo
    <2>2. Head(t) \in Wanted
      <3>1. t \in Seq(Wanted) /\ t # <<>>
        BY <1>1, <2>1
      <3> HIDE DEF t
      <3> QED BY <3>1
    <2>3. request \in AllBlobs(1)
      BY <2>1, <2>2
    <2> HIDE DEF request
    <2> QED BY <2>1, <2>3, BlobAccepted
  <1> HIDE DEF answer, blob, told
  <1>6. CASE /\ BlobVerdict(request, answer) # "accepted"
             /\ Ends("Wire", BlobVerdict(request, answer))
    BY <1>5, <1>6, EndsCalm
  <1>7. CASE /\ Goes("RawBlob")
             /\ UNCHANGED <<poll, pages>>
             /\ \/ bytes > MaxBlobBytes /\ Unfetched(request)
                \/ got' = [got EXCEPT !.retained = Append(@, blob),
                           !.blobs = Append(@, told), !.todo = Tail(@)]
    <2>1. UNCHANGED <<revision, refs, versions, totals>> /\ stage' = stage
      BY <1>1, <1>7 DEF Goes, host
    <2>2. ASSUME Calm PROVE Undisturbed'
      <3>1. CASE bytes > MaxBlobBytes /\ Unfetched(request)
        <4>1. ~ (Plain /\ got.version.state # "WithoutFiles")
          <5> SUFFICES ASSUME Plain, got.version.state # "WithoutFiles" PROVE FALSE
            OBVIOUS
          <5>1. BytesOf(got.retained) + 1 <= MaxBlobBytes
            BY <1>1, <2>2, RoomCalm
          <5>2. BytesOf(got.retained) = Len(got.retained)
                /\ got.retained \in Seq({TrueBlob(q) : q \in Wanted})
            BY <1>1, <2>2, RawBlobCalm
          <5> DEFINE k == got.retained
          <5>3. Len(k) \in Nat
            <6>1. k \in Seq({TrueBlob(q) : q \in Wanted})
              BY <5>2
            <6> HIDE DEF k
            <6> QED BY <6>1
          <5>4. BytesOf(got.retained) \in Nat /\ MaxBlobBytes \in Nat
            BY <5>2, <5>3, LimitsAssumption
          <5> QED BY <1>3, <3>1, <5>1, <5>4
        <4> QED BY <1>1, <1>7, <2>1, <2>2, <3>1, <4>1, SkippedCalm
      <3>2. CASE got' = [got EXCEPT !.retained = Append(@, blob),
                         !.blobs = Append(@, told), !.todo = Tail(@)]
        BY <1>1, <1>3, <1>4, <1>7, <2>1, <2>2, <3>2, ReadCalm
      <3> QED BY <1>7, <3>1, <3>2
    <2> QED BY <1>1, <1>7, <2>2, GoesCalm
  <1> QED BY <1>2, <1>6, <1>7

\* Every expected blob that was answered has a first answer.
LEMMA FirstObserved ==
    ASSUME NEW e, NEW S, e.blobs \in Seq(S), NEW q \in Expected(e),
           q \in {b.request : b \in ToSet(e.blobs)}
    PROVE  q \in {b.request : b \in Observed(e)}
  <1> DEFINE blobs == e.blobs
             J == {j \in DOMAIN blobs : blobs[j].request = q}
  <1>1. DOMAIN blobs \in SUBSET Nat /\ \A j \in DOMAIN blobs : \A k \in 1..(j - 1) : k \in DOMAIN blobs /\ ~ (j <= k)
    <2>1. blobs \in Seq(S)
      OBVIOUS
    <2> HIDE DEF blobs
    <2> DEFINE n == Len(blobs)
    <2>2. n \in Nat /\ DOMAIN blobs = 1..n
      BY <2>1
    <2> HIDE DEF n
    <2> QED BY <2>2
  <1>2. J \in SUBSET Nat /\ J # {}
    BY <1>1 DEF ToSet
  <1>3. PICK j \in J : \A k \in J : j <= k
    <2> HIDE DEF J
    <2> QED BY <1>2, LeastNumber
  <1>4. \A k \in 1..(j - 1) : blobs[k].request # q
    BY <1>1, <1>3
  <1>5. j \in DOMAIN blobs /\ blobs[j].request = q
    BY <1>3
  <1>6. blobs[j] \in Observed(e)
    BY <1>4, <1>5 DEF Observed
  <1> QED BY <1>5, <1>6

\* Whole evidence has no gap.
LEMMA NoGaps ==
    ASSUME NEW e, NEW n, e.state = "Collected", e.reported = Exact(n), Len(e.files) = n,
           ListingComplete(e.current), Len(e.current.items) = n,
           ToSet(e.current.items) = {f.path : f \in ToSet(e.files)},
           \A f \in ToSet(e.files) : f.diff = "Available",
           NEW S, e.blobs \in Seq(S),
           Expected(e) \subseteq {b.request : b \in ToSet(e.blobs)},
           \A b \in ToSet(e.blobs) : b.outcome = "FileContent"
    PROVE  Gaps(e) = {}
  <1>1. VersionGaps(e) = {}
    <2>1. e.reported.kind = "Exact" /\ e.reported.count = n
      BY DEF Exact
    <2> QED BY <2>1 DEF VersionGaps, If
  <1>2. PathGaps(e) = {}
    <2>1. {g \in ToSet(e.files) : g.diff # "Available"} = {}
      OBVIOUS
    <2>2. {<<"DiffUnavailable", f.path, f.diff>> : f \in {g \in ToSet(e.files) : g.diff # "Available"}} = {}
      BY <2>1
    <2> QED BY <2>2, Zenon DEF PathGaps, If
  <1>3. BlobGaps(e) = {}
    <2>1. \A b \in Observed(e) : b.outcome = "FileContent" /\ Acquired(b)
      BY DEF Observed, ToSet, Acquired
    <2>2. Expected(e) \ {b.request : b \in Observed(e)} = {}
      BY FirstObserved
    <2>3. {c \in Observed(e) : ~Acquired(c)} = {} /\ {c \in Observed(e) : c.outcome = "LfsPointer"} = {}
      BY <2>1
    <2>4. /\ {<<"BlobNotObserved", r>> : r \in Expected(e) \ {b.request : b \in Observed(e)}} = {}
          /\ {<<"BlobUnavailable", b.request, b.outcome>> : b \in {c \in Observed(e) : ~Acquired(c)}} = {}
          /\ {<<"LfsPointerNotExpanded", b.request>> :
                b \in {c \in Observed(e) : c.outcome = "LfsPointer"}} = {}
      BY <2>2, <2>3
    <2> QED BY <2>4, Zenon DEF BlobGaps
  <1> QED BY <1>1, <1>2, <1>3 DEF Gaps

\* An undisturbed acquisition that is partial has an excuse.
LEMMA PartialCalm ==
    ASSUME CInv, Calm, stage = "FinalMergeRequest", Plain
    PROVE  Assess(Evidence).readiness # "Partial"
  <1> DEFINE e == Evidence
             n == Len(Files(1))
  <1>1. /\ e.refs = got.version.refs /\ e.state = got.version.state /\ e.files = got.files
        /\ e.blobs = got.blobs /\ e.reported = got.reported /\ e.current = got.current
    BY DEF Evidence
  <1>2. HostCalm /\ FiledCalm /\ SettledCalm /\ EInv /\ stage \in Settling /\ stage \in Filed
    BY DEF CInv, Undisturbed, Settling, Filed, Bound
  <1>3. Expected(e) = Wanted
    BY <1>1 DEF Expected, Wanted, WantedOf
  <1>4. Kept(got.todo, got.blobs, got.retained, Wanted)
    BY <1>2 DEF EInv, BlobsOK
  <1> HIDE DEF e
  <1>5. CASE got.version.state = "WithoutFiles"
    <2>1. VersionBlockers(e) # {}
      BY <1>1, <1>5 DEF VersionBlockers, If
    <2> QED BY <2>1 DEF Assess, Blockers, e
  <1>6. CASE got.version.state # "WithoutFiles"
    <2>1. got.version.state = "Collected" /\ got.reported = Exact(n) /\ Len(got.files) = n
      BY <1>2, <1>6 DEF FiledCalm
    <2>2. /\ ListingComplete(got.current)
          /\ Len(got.current.items) = n
          /\ ToSet(got.current.items) = {ChangedPathOf(w) : w \in ToSet(Files(1))}
          /\ Wanted \subseteq ToSet(got.todo) \cup {b.request : b \in ToSet(got.blobs)}
          /\ \A b \in ToSet(got.blobs) : b.outcome = "FileContent"
          /\ got.todo = <<>>
      BY <1>2, <1>6 DEF SettledCalm
    <2>3. ToSet(got.files) = TrueFiles(1)
      BY <1>2, <2>1, WantedCalm DEF Whole
    <2>4. {f.path : f \in TrueFiles(1)} = {ChangedPathOf(w) : w \in ToSet(Files(1))}
      <3>1. \A w : ChangedFile(w).path = ChangedPathOf(w)
        BY DEF ChangedFile
      <3> QED BY <3>1 DEF TrueFiles
    <2>5. Wanted \subseteq {b.request : b \in ToSet(got.blobs)}
      BY <2>2 DEF ToSet
    <2>6. \A f \in ToSet(got.files) : f.diff = "Available"
      BY <2>3 DEF Plain
    <2>7. got.blobs \in Seq(ToSet(got.blobs))
      BY <1>4 DEF Kept
    <2> HIDE DEF n
    <2>8. Gaps(e) = {}
      BY <1>1, <1>3, <2>1, <2>2, <2>3, <2>4, <2>5, <2>6, <2>7, NoGaps
    <2> QED BY <2>8 DEF Assess, e
  <1> QED BY <1>5, <1>6

LEMMA FinalCalm == CInv /\ FinalMergeRequest => StaysCalm
  <1> SUFFICES ASSUME CInv, FinalMergeRequest PROVE StaysCalm
    OBVIOUS
  <1> DEFINE verdict == MergeRequestVerdict(Answered)
  <1>1. stage = "FinalMergeRequest"
    BY DEF FinalMergeRequest
  <1>2. ASSUME Calm
        PROVE  verdict = "accepted" /\ MergeRequest(Answered) = got.mr
    <2>1. HostCalm /\ got.mr = First /\ refs = RefsOf[1]
      BY <1>1, <1>2 DEF CInv, Undisturbed, HostCalm
    <2>2. refs # Absent
      BY <2>1, RevisionAssumption
    <2> QED BY <1>2, <2>1, <2>2, AnsweredCalm
  <1>3. \/ verdict # "accepted" /\ Ends("Wire", verdict)
        \/ /\ MergeRequest(Answered) # got.mr
           /\ Ends("Identity", "SnapshotChangedDuringAcquisition")
        \/ /\ Reads
           /\ stage' = "done"
           /\ outcome' = Snapshot
           /\ got' = [mr |-> None]
           /\ pages' = <<>>
           /\ poll' = 1
           /\ UNCHANGED <<host, hinted>>
    BY Zenon DEF FinalMergeRequest
  <1>4. CASE verdict # "accepted" /\ Ends("Wire", verdict)
    BY <1>2, <1>4, EndsCalm
  <1>5. CASE /\ MergeRequest(Answered) # got.mr
             /\ Ends("Identity", "SnapshotChangedDuringAcquisition")
    BY <1>2, <1>5, EndsCalm
  <1>6. CASE /\ Reads
             /\ stage' = "done"
             /\ outcome' = Snapshot
             /\ got' = [mr |-> None]
             /\ pages' = <<>>
             /\ poll' = 1
             /\ UNCHANGED <<host, hinted>>
    <2>1. faults' = faults + 0 \/ faults' = faults + 1
      BY <1>6 DEF Reads
    <2>2. faults' = faults \/ faults' = faults + 1
      BY <2>1 DEF CInv, CountsOK
    <2>3. UNCHANGED <<revision, refs, versions, totals, pushes>>
      BY <1>6 DEF host
    <2>4. CountsOK'
      <3>1. faults' \in Nat /\ pushes' \in Nat
        BY <2>2, <2>3 DEF CInv, CountsOK
      <3>2. poll' \in 1..MaxPolls
        BY <1>6, LimitsAssumption
      <3>3. stage' # "RefreshedMergeRequest"
        BY <1>6
      <3> QED BY <3>1, <3>2, <3>3 DEF CountsOK
    <2>5. CASE faults' = faults + 1
      BY <2>4, <2>5, TroubledCalm DEF StaysCalm
    <2>6. CASE faults' = faults
      <3>1. Calm' <=> Calm
        BY <2>3, <2>6, SamePlain DEF Calm
      <3>2. (Calm => Undisturbed)'
        BY <1>6, <2>3, <3>1 DEF CInv, Undisturbed, HostCalm, PagesCalm, FiledCalm, SettledCalm,
                                 Filed, Settling, Bound
      <3>3. FailsForCause'
        <4>1. ASSUME Calm
              PROVE  /\ outcome'.kind # "Failed"
                     /\ outcome'.kind = "Partial" => ~ Plain
          <5>1. outcome'.kind = Assess(Evidence).readiness
            BY <1>6 DEF Snapshot
          <5>2. Assess(Evidence).readiness \in {"Blocked", "Partial", "Complete"}
            BY DEF Assess
          <5> QED BY <1>1, <4>1, <5>1, <5>2, PartialCalm
        <4>2. ASSUME ~ Plain
              PROVE  \/ \E f \in TrueFiles(1) : f.diff # "Available"
                     \/ \E b \in TrueBlobs(1) : b.representation # "FileContent"
                     \/ Cardinality(TrueBlobs(1)) > MaxBlobRequests
                     \/ Cardinality(TrueBlobs(1)) > MaxBlobBytes
                     \/ 1 \in Capped
          <5>1. Cardinality(TrueBlobs(1)) \in Nat /\ MaxBlobRequests \in Nat /\ MaxBlobBytes \in Nat
            BY BlobsCount, LimitsAssumption
          <5> QED BY <4>2, <5>1 DEF Plain
        <4>3. /\ TrueFiles(1)' = TrueFiles(1) /\ TrueBlobs(1)' = TrueBlobs(1)
          BY DEF TrueFiles, TrueBlobs, BlobAnswer, Files
        <4>4. CASE ~ Calm
          BY <3>1, <4>4 DEF FailsForCause, Calm
        <4>5. CASE Calm
          BY <4>1, <4>2, <4>3, <4>5, Zenon DEF FailsForCause
        <4> QED BY <4>4, <4>5
      <3> QED BY <2>4, <3>2, <3>3 DEF StaysCalm
    <2> QED BY <2>2, <2>5, <2>6
  <1> QED BY <1>3, <1>4, <1>5, <1>6

LEMMA InitCalm == Init => CInv
  <1> SUFFICES ASSUME Init PROVE CInv
    OBVIOUS
  <1>1. /\ stage = "InitialMergeRequest" /\ pages = <<>> /\ outcome = None /\ revision = 1
        /\ poll = 1 /\ pushes = 0 /\ faults = 0 /\ refs \in {Absent, RefsOf[1]}
        /\ versions \in {<<>>, <<NewVersion(<<>>, 1)>>}
    BY DEF Init, HostInit
  <1>2. EInv
    BY InitTrue
  <1>3. CountsOK
    BY <1>1, LimitsAssumption DEF CountsOK
  <1>4. HostCalm
    <2>1. Len(versions) <= 1 /\ \A i \in DOMAIN versions : versions[i].revision = 1
      <3> DEFINE v == NewVersion(<<>>, 1)
      <3>1. v.revision = 1 /\ versions \in {<<>>, <<v>>}
        BY <1>1 DEF NewVersion
      <3> HIDE DEF v
      <3>2. CASE versions = <<>>
        BY <3>2
      <3>3. CASE versions = <<v>>
        <4>1. Len(<<v>>) = 1 /\ DOMAIN <<v>> = {1} /\ <<v>>[1] = v
          OBVIOUS
        <4> QED BY <3>1, <3>3, <4>1
      <3> QED BY <3>1, <3>2, <3>3
    <2> QED BY <1>1, <2>1 DEF HostCalm
  <1>5. PagesCalm /\ FiledCalm /\ SettledCalm
    BY <1>1 DEF PagesCalm, FiledCalm, SettledCalm, Filed, Settling, Bound
  <1>6. FailsForCause
    BY <1>1 DEF FailsForCause
  <1> QED BY <1>2, <1>3, <1>4, <1>5, <1>6 DEF CInv, Undisturbed

LEMMA StepCalm == CInv /\ [Next]_vars => CInv'
  <1> SUFFICES ASSUME CInv, [Next]_vars PROVE CInv'
    OBVIOUS
  <1>1. EInv'
    BY StepTrue DEF CInv
  <1>2. StaysCalm
    <2>1. CASE HostStep
      BY <2>1, HostStaysCalm
    <2>2. CASE OutOfBudget \/ DeadlinePasses \/ ReadFails \/ Garbled
      BY <2>2, TroubleStaysCalm
    <2>3. CASE InitialMergeRequest \/ TargetProject \/ SourceProject
      BY <2>3, InitialCalm, TargetCalm, SourceCalm
    <2>4. CASE DiffVersions \/ RefreshedMergeRequest \/ ExactDiffVersion \/ CurrentDiffs
      BY <2>4, VersionsCalm, RefreshedCalm, ExactCalm, CurrentCalm
    <2>5. CASE SkipBlob \/ RawBlob \/ BlobsRead
      BY <2>5, SkipCalm, BlobCalm, BlobsReadCalm
    <2>6. CASE FinalMergeRequest
      BY <2>6, FinalCalm
    <2>7. CASE UNCHANGED vars
      <3>1. UNCHANGED <<host, faults, stage, poll, pages, got, outcome>> /\ UNCHANGED pushes
        BY <2>7 DEF vars, host
      <3>2. CountsOK'
        BY <3>1 DEF CInv, CountsOK
      <3> QED BY <3>1, <3>2, SameCalm
    <2> QED BY <2>1, <2>2, <2>3, <2>4, <2>5, <2>6, <2>7 DEF Next, Controller, Ended
  <1> QED BY <1>1, <1>2 DEF StaysCalm, CInv

\* Left alone, an acquisition of a readable revision fails only for want of
\* polls, reads or time, and is partial only where something is not there to
\* be had: for any revisions, limits, page size and order of the host's steps.
THEOREM FailsForCauseHolds == Spec => []FailsForCause
  <1>1. CInv => FailsForCause
    BY DEF CInv
  <1> QED BY InitCalm, StepCalm, <1>1, PTL DEF Spec
=============================================================================
