--------------------------- MODULE ReviewPipeline ---------------------------
(***************************************************************************)
(* One change request over its life: jobs that run `revoot review` one     *)
(* after the other (review_command.rs), people who push, retarget, edit    *)
(* the description and discuss in between, and the description that carries*)
(* the checkpoint from one job to the next (review_checkpoint.rs,          *)
(* review_overview.rs).  The snapshot of a GitLab job is taken in one step *)
(* (GitLabSnapshot is its detail), as are the review (ReviewEngine) and the*)
(* publication of its findings (GitLabPublication, GitHubPublication).     *)
(*                                                                         *)
(* A commit stands for its SHA; Tree gives its files.  A description is    *)
(* what people wrote and the blocks of Revoot in it, a block its           *)
(* checkpoint.                                                             *)
(***************************************************************************)
EXTENDS JobEnvironment

CONSTANTS
    Heads,          \* the commits that are pushed; the first job sees FirstHead
    FirstHead,
    Tree,           \* [commit -> [path -> content]]
    Ancestors,      \* [commit -> its ancestors]
    BasesOf,        \* [head -> the bases it can be compared with]
    Generated,      \* the paths the selection policy omits
    Environments,   \* the environments a job may find itself in
    TheChange,      \* the project and iid of the merge request
    MaxGeneration,  \* MAX_INCREMENTAL_GENERATION
    MaxDeltaPaths,  \* MAX_DELTA_PATHS
    MaxJobs,        \* bound of the model
    MaxMoves,       \* bound of the model: pushes and retargets
    MaxEdits,       \* bound of the model: of the description
    MaxPolicy,      \* bound of the model: versions of REVIEWER_POLICY_VERSION
    MaxTrouble      \* bound of the model: of these three together

ASSUME PipelineAssumption ==
    /\ {MaxGeneration, MaxDeltaPaths, MaxJobs, MaxMoves, MaxEdits, MaxPolicy, MaxTrouble}
            \subseteq Nat
    /\ FirstHead \in Heads
    /\ \A h \in Heads : BasesOf[h] # {} /\ BasesOf[h] \subseteq DOMAIN Tree

Bases == UNION {BasesOf[h] : h \in Heads}

\* What a block says.
Checkpoints == [base : Bases, head : Heads, policy : Nat, complete : BOOLEAN, generation : Nat]

\* None is neither a checkpoint nor a report of why nothing is published.
ASSUME NoneAssumption ==
    /\ None \notin Checkpoints
    /\ None \notin [state : {"report_only", "skipped", "unavailable", "stopped", "failed"},
                    reason : {"publication_disabled", "write_credential_unavailable", "fork_policy",
                              "readiness_failed", "discussion_changed", "PublicationStateChanged"}]

VARIABLES
    branch,         \* [base, head]
    description,    \* [text, blocks]
    earlier,        \* the description before the last write of a job
    policy,         \* the version of the reviewer that is deployed
    job,            \* the job that runs, NoJob between two jobs
    result,         \* what the last job reported, see Report
    \* bounds and history
    jobs, moves, edits,
    latest,         \* what people last wrote in the description
    raced,          \* that was between the last read and the write of a job
    attended        \* <<policy, path, content at the base, content>> that a
                    \* complete review was told to attend to

vars == <<branch, description, earlier, policy, job, result,
          jobs, moves, edits, latest, raced, attended>>
people == <<branch, description, earlier, policy, moves, edits, latest>>
ghosts == <<raced, attended>>

-----------------------------------------------------------------------------
(* The checkpoint.                                                         *)

Paths == DOMAIN Tree[FirstHead]
Changed(base, head) == {p \in Paths : Tree[base][p] # Tree[head][p]}
Selected(base, head) == Changed(base, head) \ Generated

Full == [kind |-> "Full", paths |-> {}, generation |-> 0]
Incremental(paths, generation) ==
    [kind |-> "Incremental", paths |-> paths, generation |-> generation]

\* extract_checkpoint: one block or none at all.
ExtractCheckpoint(d) == IF Len(d.blocks) = 1 THEN Head(d.blocks) ELSE None

Usable(checkpoint, base, head, version) ==
    /\ checkpoint # None
    /\ checkpoint.complete
    /\ checkpoint.base = base
    /\ checkpoint.policy = version
    /\ checkpoint.generation < MaxGeneration
    /\ checkpoint.head # head
    /\ checkpoint.head \in Ancestors[head]

\* A checkpoint that is taken for one of the base at hand.
PlanAttentionOfAnyBase(checkpoint, base, head, version) ==
    LET delta == Changed(checkpoint.head, head) \cap Changed(base, head)
    IN  IF /\ checkpoint # None
           /\ Usable([checkpoint EXCEPT !.base = base], base, head, version)
           /\ Cardinality(delta) \in 1..MaxDeltaPaths
        THEN Incremental(delta, checkpoint.generation)
        ELSE Full

\* plan_attention.
PlanAttention(checkpoint, base, head, version) ==
    LET delta == Changed(checkpoint.head, head) \cap Changed(base, head)
    IN  IF Usable(checkpoint, base, head, version) /\ Cardinality(delta) \in 1..MaxDeltaPaths
        THEN Incremental(delta, checkpoint.generation)
        ELSE Full

NextGeneration(attention) ==
    IF attention.kind = "Full" THEN 0 ELSE attention.generation + 1

\* What the model is told to look at.
Attention(attention, base, head) ==
    IF attention.kind = "Full" THEN Selected(base, head)
    ELSE attention.paths \cap Selected(base, head)

-----------------------------------------------------------------------------
(* The job.  written says what it changed on the host, whether or not it   *)
(* knows; attempts what it counts.  What a stage no longer uses is cleared. *)

NoJob == [stage |-> "idle"]

Setups == {Setup(e) : e \in Environments}

\* An environment in which a GitLab job gets to its review is one of this
\* merge request: the API shows it there.
ASSUME ChangeAssumption ==
    \A e \in Environments : Setup(e).host = "gitlab" =>
        e.api.target.id = TheChange.project /\ e.api.iid = TheChange.iid

Prepared(setup) ==
    [stage |-> "started", setup |-> setup, policy |-> policy, checkout |-> branch.head,
     config |-> IF setup.pinned THEN branch.base ELSE None,
     base |-> None, head |-> None, listed |-> None, moves |-> moves,
     description |-> None, discussed |-> FALSE,
     attention |-> Full, report |-> None, attempts |-> 0, written |-> {}, update |-> None]

\* The report a job ends with; a diagnostic is a job without a report.
Ended(j, publication) ==
    [publication |-> publication, written |-> j.written,
     setup |-> IF j.written = {} THEN None ELSE j.setup,
     head |-> IF j.written = {} THEN None ELSE j.head, shown |-> None]
Diagnostic(j) == Ended(j, Published("diagnostic", None))
Untouched(publication) ==
    [publication |-> publication, written |-> {}, setup |-> None, head |-> None, shown |-> None]

End(r) == job' = NoJob /\ result' = r

\* run_async up to the acquisition.  A fork's review may be skipped before any
\* request; a local review and the help are not about the change.
Start ==
    /\ job = NoJob /\ jobs < MaxJobs
    /\ jobs' = jobs + 1
    /\ \E s \in Setups :
        CASE s.host \in {"gitlab", "github"} -> job' = Prepared(s) /\ result' = None
          [] s.host = "skip" -> End(Untouched(Published("skipped", "fork_policy")))
          [] OTHER -> End(Untouched(Published(s.host, None)))
    /\ UNCHANGED <<people, ghosts>>

\* acquire_github_review_context reads the pull request, its files and the
\* pull request again; the GitLab controller hands out a consistent snapshot.
AcquireGitLab ==
    /\ job.stage = "started" /\ job.setup.host = "gitlab"
    /\ IF job.setup.acquires[branch.head # job.checkout]
       THEN /\ job' = [job EXCEPT !.stage = "acquired", !.checkout = None,
                                  !.base = branch.base, !.head = branch.head, !.listed = branch]
            /\ UNCHANGED result
       ELSE End(Diagnostic(job))
    /\ UNCHANGED <<people, ghosts, jobs>>

ReadPull ==
    /\ job.stage = "started" /\ job.setup.host = "github"
    /\ IF job.config \in {None, branch.base} /\ branch.head = job.checkout
       THEN /\ job' = [job EXCEPT !.stage = "pull", !.base = branch.base,
                                  !.head = branch.head, !.moves = moves,
                                  !.description = description]
            /\ UNCHANGED result
       ELSE End(Diagnostic(job))
    /\ UNCHANGED <<people, ghosts, jobs>>

ListFiles ==
    /\ job.stage = "pull"
    /\ job' = [job EXCEPT !.stage = "files", !.listed = branch]
    /\ UNCHANGED <<people, ghosts, jobs, result>>

\* The second read taken for the first.
SamePullAssumed == TRUE
SamePull ==
    branch = [base |-> job.base, head |-> job.head] /\ description = job.description

ConfirmPull ==
    /\ job.stage = "files"
    /\ IF SamePull
       THEN job' = [job EXCEPT !.stage = "acquired", !.checkout = None] /\ UNCHANGED result
       ELSE End(Diagnostic(job))
    /\ UNCHANGED <<people, ghosts, jobs>>

\* The discussions, then the checkpoint: GitHub's stands in the description
\* that was read with the pull request, GitLab's is read now.
ReadHistory ==
    /\ job.stage = "acquired"
    /\ job' = [job EXCEPT !.stage = "history", !.listed = None, !.moves = 0]
    /\ UNCHANGED <<people, ghosts, jobs, result>>

CheckpointHint(j) ==
    IF j.setup.host = "github" THEN ExtractCheckpoint(j.description)
    ELSE IF branch.head = j.head THEN ExtractCheckpoint(description) ELSE None

NothingSelected ==
    [state |-> "no_findings", findings |-> 0,
     omissions |-> InitialOmissions(job.setup.host,
        IF Changed(job.base, job.head) = {} THEN {} ELSE {"GeneratedPolicy"}, FALSE),
     omitted |-> Cardinality(Changed(job.base, job.head))]

\* A configuration that is not compared with the snapshot.
ConfigurationAssumed(j) == TRUE
ConfigurationFits(j) == j.config \in {None, j.base}

\* The base of the configuration is compared with the snapshot; a change
\* nothing of which is selected needs neither a provider nor a model.
Plan ==
    /\ job.stage = "history"
    /\ LET hint == CheckpointHint(job)
       IN  IF ~ConfigurationFits(job) \/ Refusal(job.setup.run) THEN End(Diagnostic(job))
           ELSE IF Selected(job.base, job.head) = {}
           THEN /\ job' = [job EXCEPT !.stage = "reviewed", !.report = NothingSelected]
                /\ UNCHANGED result
           ELSE IF Refusal(job.setup.model) THEN End(Diagnostic(job))
           ELSE /\ job' = [job EXCEPT !.stage = "planned",
                            !.attention = PlanAttention(hint, job.base, job.head, job.policy)]
                /\ UNCHANGED result
    /\ UNCHANGED <<people, ghosts, jobs>>

Outcomes ==
    {[kind |-> "Complete", findings |-> 1], [kind |-> "NoFindings", omissions |-> {}, findings |-> 0],
     [kind |-> "NoFindings", omissions |-> {"omitted"}, findings |-> 0],
     [kind |-> "Partial", omissions |-> {"omitted"}, findings |-> 1],
     [kind |-> "Failed", findings |-> 0]}

ReportOf(outcome) ==
    LET r == ReportState(outcome)
    IN  [state |-> r.state, omissions |-> r.omissions, findings |-> outcome.findings,
         omitted |-> Cardinality(Changed(job.base, job.head) \cap Generated)]

Review ==
    /\ job.stage = "planned"
    /\ \E o \in Outcomes :
        /\ job' = [job EXCEPT !.stage = "reviewed", !.report = ReportOf(o)]
        /\ attended' = IF CheckpointComplete(ReportOf(o))
                       THEN attended \cup {<<job.policy, p, Tree[job.base][p], Tree[job.head][p]>> :
                                p \in Attention(job.attention, job.base, job.head)}
                       ELSE attended
    /\ UNCHANGED <<people, jobs, result, raced>>

-----------------------------------------------------------------------------
(* Publication.                                                            *)

Readiness(j) ==
    [ci |-> j.setup.class,
     fork |-> j.setup.behaviour, trusted |-> FALSE, bound |-> TRUE, provider |-> TRUE,
     publication |-> IF j.setup.enabled THEN "Publish" ELSE "ReportOnly",
     credential |-> j.setup.credential, user |-> j.setup.user]

\* publish_gitlab_review up to the controller: why nothing is published, or
\* None.
GitLabGate(j) ==
    CASE ~j.setup.enabled -> Published("report_only", "publication_disabled")
      [] j.setup.credential = "CiJobToken" ->
            Published("report_only", "write_credential_unavailable")
      [] Context!Mode(Readiness(j)) = "Skip" -> Published("skipped", "fork_policy")
      [] Context!Mode(Readiness(j)) = "ReportOnly" -> Published("report_only", "fork_policy")
      [] ~Context!Authorized(Readiness(j)) -> Published("unavailable", "readiness_failed")
      [] j.discussed -> Published("unavailable", "discussion_changed")
      [] OTHER -> None

GitHubGate(j) ==
    CASE j.setup.fork -> Published("report_only", "fork_policy")
      [] ~j.setup.enabled -> Published("report_only", "publication_disabled")
      [] j.discussed -> GitHubFailure("PublicationStateChanged", j.attempts)
      [] OTHER -> None

Gate ==
    /\ job.stage = "reviewed"
    /\ LET closed == IF job.setup.host = "gitlab" THEN GitLabGate(job) ELSE GitHubGate(job)
       IN  IF closed = None
           THEN job' = [job EXCEPT !.stage = "findings"] /\ UNCHANGED result
           ELSE End(Ended(job, closed))
    /\ UNCHANGED <<people, ghosts, jobs>>

Failure(j) ==
    Ended(j, IF j.setup.host = "gitlab" THEN Published("failed", "publication_stopped")
             ELSE GitHubFailure("PublicationStale", j.attempts))

Checkpoint(j) ==
    [base |-> j.base, head |-> j.head, policy |-> j.policy,
     complete |-> CheckpointComplete(j.report), generation |-> NextGeneration(j.attention)]
Completed(j) == [Ended(j, Published("completed", None)) EXCEPT !.shown = Checkpoint(j)]

\* The host still shows the change that was reviewed; only GitHub's overview
\* asks about the base.
SameHead(j) == branch.head = j.head
SameChange(j) == SameHead(j) /\ (j.setup.host = "github" => branch.base = j.base)

\* The findings, in one step: none is written for a head that has moved.
PublishFindings ==
    /\ job.stage = "findings"
    /\ IF job.report.findings = 0
       THEN job' = [job EXCEPT !.stage = "overview"] /\ UNCHANGED result
       ELSE IF ~SameHead(job) THEN End(Failure(job))
       ELSE /\ job' = [job EXCEPT !.stage = "overview", !.attempts = @ + 1,
                                  !.written = @ \cup {"finding"}]
            /\ UNCHANGED result
    /\ UNCHANGED <<people, ghosts, jobs>>

\* update_overview and update_github_overview read the description again, and
\* do not take the one the snapshot came with.
AcquiredDescription(j) == IF j.description = None THEN description ELSE j.description
CurrentDescription(j) == description

ReadOverview ==
    /\ job.stage = "overview"
    /\ LET now == CurrentDescription(job)
           update == UpdateDescription(now, Checkpoint(job))
       IN  IF ~HasOverview(job.report) THEN End([Completed(job) EXCEPT !.shown = None])
           ELSE IF ~SameChange(job) \/ update = Malformed THEN End(Failure(job))
           ELSE IF update = now THEN End(Completed(job))
           ELSE job' = [job EXCEPT !.stage = "writing", !.update = update] /\ UNCHANGED result
    /\ UNCHANGED <<people, ghosts, jobs>>

\* The host replaces the description; the answer shows the change as it is
\* now, or is lost.
WriteOverview ==
    /\ job.stage = "writing"
    /\ description' = job.update /\ earlier' = description
    /\ LET j == [job EXCEPT !.attempts = @ + 1, !.written = @ \cup {"overview"}]
       IN  \E lost \in BOOLEAN :
            End(IF ~lost /\ SameChange(j) THEN Completed(j) ELSE Failure(j))
    /\ UNCHANGED <<branch, policy, moves, edits, latest, ghosts, jobs>>

\* A request that fails for good: a diagnostic before there is a report, a
\* failed publication after.
Unreachable ==
    /\ job.stage \in {"started", "pull", "files", "acquired", "history", "findings", "overview"}
    /\ End(IF job.stage \in {"findings", "overview"} THEN Failure(job) ELSE Diagnostic(job))
    /\ UNCHANGED <<people, ghosts, jobs>>

\* The runner is stopped; nobody reports anything.
Kill ==
    /\ job # NoJob
    /\ job' = NoJob
    /\ UNCHANGED <<people, ghosts, jobs, result>>

-----------------------------------------------------------------------------
(* Everyone else.                                                          *)

Calm == moves + edits + (policy - 1) < MaxTrouble

Moves(b) == /\ moves < MaxMoves /\ Calm /\ b # branch
            /\ branch' = b /\ moves' = moves + 1
            /\ UNCHANGED <<description, earlier, policy, edits, latest,
                           job, result, jobs, ghosts>>
Push == \E h \in Heads \ {branch.head} : \E b \in BasesOf[h] : Moves([base |-> b, head |-> h])
Retarget == \E b \in BasesOf[branch.head] : Moves([branch EXCEPT !.base = b])

Edits(d) == /\ edits < MaxEdits /\ Calm /\ d # description
            /\ edits' = edits + 1
            /\ description' = d /\ latest' = d.text
            /\ raced' = (job # NoJob /\ job.stage = "writing")
            /\ UNCHANGED <<branch, earlier, policy, moves, job, result, jobs, attended>>

EditText == Edits([description EXCEPT !.text = edits + 1])
DeleteBlocks == Edits([description EXCEPT !.blocks = <<>>])
\* A block is copied within the description, or into it from an old version.
PasteBlocks == Edits([description EXCEPT !.blocks = @ \o earlier.blocks])
Restore == Edits(earlier)
\* Somebody touches the discussions that a job has read; nothing looks at them
\* before the review is done, so that it may as well happen then.
Discuss == /\ job # NoJob /\ job.stage = "reviewed"
           /\ ~job.discussed
           /\ job' = [job EXCEPT !.discussed = TRUE]
           /\ UNCHANGED <<people, ghosts, jobs, result>>

\* A new version of Revoot is deployed for the next job.
Upgrade == /\ policy < MaxPolicy /\ Calm
           /\ policy' = policy + 1
           /\ UNCHANGED <<branch, description, earlier, moves, edits, latest,
                          job, result, jobs, ghosts>>

Init ==
    /\ branch = [base |-> CHOOSE b \in BasesOf[FirstHead] : TRUE, head |-> FirstHead]
    /\ description = [text |-> 0, blocks |-> <<>>] /\ earlier = description
    /\ policy = 1
    /\ job = NoJob /\ result = None
    /\ jobs = 0 /\ moves = 0 /\ edits = 0
    /\ latest = 0 /\ raced = FALSE /\ attended = {}

Next ==
    \/ Start \/ AcquireGitLab \/ ReadPull \/ ListFiles \/ ConfirmPull \/ ReadHistory
    \/ Plan \/ Review \/ Gate \/ PublishFindings \/ ReadOverview \/ WriteOverview
    \/ Unreachable \/ Kill
    \/ Push \/ Retarget \/ EditText \/ DeleteBlocks \/ PasteBlocks \/ Restore
    \/ Discuss \/ Upgrade

Spec == Init /\ [][Next]_vars

-----------------------------------------------------------------------------
(* Properties.                                                             *)

\* A description is never authority to omit code: whatever block stands in it,
\* a job that is told to look at a part of the change only (plan_attention)
\* leaves out no path whose present change, from the present base, a complete
\* review under the same reviewer was not already told to look at.
AttentionCovers ==
    job # NoJob /\ job.attention.kind = "Incremental" =>
        \A p \in Selected(job.base, job.head) \ job.attention.paths :
            <<job.policy, p, Tree[job.base][p], Tree[job.head][p]>> \in attended

\* What people wrote around the block survives every job, unless they wrote
\* it between a job's last read of the description and its write
\* (update_description, update_overview, update_github_overview).
TextKept == raced \/ description.text = latest

\* The publication a report states is what the host has seen: "completed"
\* shows the block of the reviewed head, and every state but "failed" and
\* "completed" means that nothing was written (publish_prepared_review).
ReportTruthful ==
    result # None =>
        /\ result.publication.state \notin {"completed", "failed"} => result.written = {}
        /\ ExitCode(result.publication) = 0 /\ "overview" \in result.written =>
                result.shown # None /\ result.shown.head = result.head

\* A job without authority leaves the change request alone: a fork's, one that
\* is told to publish nothing, one with the CI job token only, one on GitLab
\* that no merge request pipeline runs; and what it writes goes to the change
\* that was reviewed (run_async, publish_gitlab_review, publish_github_review).
AuthorityKept ==
    \A j \in {job, result} :
        j \notin {NoJob, None} /\ j.written # {} =>
            /\ j.setup.enabled /\ ~j.setup.fork
            /\ j.setup.host = "gitlab" =>
                /\ j.setup.class = "Ready"
                /\ j.setup.address.header # "InvalidAccessToken"
                /\ j.setup.address.path = Transport!MergeRequestSegments(TheChange)

\* The files a job reviews are those of the head it reports on, unless the
\* branch left that head and came back while they were listed
\* (acquire_github_review_context, try_acquire).
FilesOfHead ==
    job # NoJob /\ job.stage = "acquired" =>
        job.listed = [base |-> job.base, head |-> job.head] \/ moves >= job.moves + 2

\* A review in CI goes by the configuration of its own base (run_async).
OwnConfiguration ==
    job # NoJob /\ job.stage \in {"planned", "reviewed", "findings", "overview", "writing"} =>
        job.config \in {None, job.base}
=============================================================================
