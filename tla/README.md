# Revoot: verification project

Revoot reviews a merge or pull request with a language model and publishes its
findings as threads on the host.  This directory holds TLA+ specifications of
the parts of it that are state machines, the TLC configurations that check
them on small instances, and proofs that TLAPS checks for every value of the
constants.  All definitions follow the Rust sources; `PROJECT.json` maps each
one to the lines it models.

Paths below are relative to the repository; `revoot` stands for
`crates/revoot/src` and `core` for `crates/revoot-core/src`.

## 1. The system

```
 CI job / command line
        |
  review_command ---- configuration, checkout, snapshot acquisition (fenced
        |              by the head the review is for)
        |---- prior_review: open threads of earlier reviews (acquired before
        |                   the review, compared again after it)
        |---- review_engine -- AgentRun + AgentBudget (core/agent.rs)
        |           |              |---- provider (through the egress gateway)
        |           |              `---- repository tools, partition, diff
        |           `---- candidates, dispositions of prior findings
        `---- publication, one of
                gitlab_publication  (PublicationLease, PublicationJournal,
                                     incremental plan, settlement, overview)
                github_review       (per-candidate loop, resolution,
                                     superseding, overview)
 evaluation and multi-node runs: execution_graph
```

### Components

| Component | State it keeps | Operations | Interacts with |
|---|---|---|---|
| GitLab publication (`revoot/gitlab_publication.rs`, `gitlab_incremental.rs`) | the controller's attempt counters, its journal, the plan, the threads left to settle | `publish`, `create`, `reconcile_ambiguous`, `set_discussion_resolved`, `update_overview` | host API, journal, lease |
| Publication journal (`core/publication.rs`) | snapshot, actions, entries, next action, state | `begin_next`, `confirm`, `mark_ambiguous`, `reconcile_ambiguous`, `stop_stale`, `fail`, `validate_replay` | called by the controller |
| Publication lease (`revoot/gitlab_publication.rs`, `PUBLICATION_LOCKS`) | a process-wide table from merge request to mutex | `acquire`, drop, `cleanup_lock` | tasks of one process |
| GitHub publication (`revoot/github_review.rs`) | nothing durable; what it reads from the host | `publish_github_findings`, `reconcile_thread_resolution`, `create_comment`, `supersede_comment`, `update_github_overview` | host API |
| Agent run and budget (`core/agent.rs`) | run state, ledger of use, reservation, accepted envelopes | `complete_provider_turn`, `charge_*`, `submit_candidate`, `finish`, terminal calls | provider, tools, review engine |
| Review engine (`revoot/review_engine.rs`) | conversation, admission sink (prior-review cursor, inspected evidence, dispositions) | `run_review`, `execute_tool` | agent run, tools |
| Prior review history (`revoot/prior_review.rs`) | the acquired open findings and a fingerprint of them | `acquire_*`, `PriorReviewContext::try_new` | host API |
| Review checkpoint and overview (`revoot/review_checkpoint.rs`, `review_overview.rs`) | a checkpoint inside the description of the change request | `plan_attention`, `extract_checkpoint`, `update_description` | host description |
| Review command (`revoot/review_command.rs`) | the job: what is prepared, the report, what was written | `run_async`, `acquire_*_context`, `execute_prepared_review`, `publish_prepared_review` | everything above |
| Execution graph (`core/execution_graph.rs`) | compiled plan, node states, events, reduced use | `compile`, `ready_nodes`, `start`, `complete`, `fail`, `cancel_remaining` | evaluation |
| Snapshot acquisition (`revoot/gitlab_snapshot.rs`, `core/snapshot.rs`; GitHub's in `github_review.rs`) | counters of one acquisition | read, poll, verify, read again | host API, transport, wire |
| Transports (`revoot/gitlab_transport.rs`, `github_transport.rs`) | the client: address, token, pinned addresses | reads, writes, classification of answers | network, egress |
| GitLab wire and context (`core/gitlab_wire.rs`, `gitlab_context.rs`) | none | parsing of answers, classification of CI variables | snapshot, review command |
| Checkouts and CI runtime (`revoot/gitlab_checkout.rs`, `github_checkout.rs`, `gitlab_ci_runtime.rs`) | none | discovery of the repository, event, credentials, probe | git, review command |
| Local review (`revoot/local_review.rs`, `embedded_git.rs`) | the capture it compares with | capture, classify, review, capture again | working tree |
| Diff and anchors (`core/diff.rs`), Partition (`core/partition.rs`), review contexts (`revoot/gitlab_review_context.rs`) | the parser's accounting; none | from a change to anchors and work units | snapshot, local review |
| Egress gateway (`core/egress.rs`, `revoot/egress_setup.rs`) | none | authorization of a destination and its addresses | transports, providers |
| Findings (`core/findings.rs`) | none | validation, admission, ranking, rendering | engine, publication |
| Providers, repository tools, configuration, evaluation, command line, CI components and release scripts | none or counters | conversions, validation, I/O | |

`PROJECT.json` lists every component with its sources and status.

### What is hard here

* **No transaction with the host.**  A publication is a series of HTTP calls.
  Between any two of them the job may be killed (`interruptible: true`), the
  head may move, a person may resolve or reopen a thread, and any answer may
  be lost after the host acted on the request.
* **Recovery is by re-reading.**  Nothing of the journal survives the process.
  A later job learns what an earlier one did only from markers in the notes
  on the host.
* **Several identities of one finding.**  A note carries a marker for the
  snapshot and position (the fingerprint), and the lineage, which survives new
  heads.  Plans match by the first and fall back to the second.
* **A ledger that must not be bypassed.**  A provider call that fails, answers
  late or is cancelled has still spent tokens.
* **Everything is read more than once.**  The head, the description, the
  discussions, the files of a pull request, the configuration and the working
  tree are read early and compared, or not, late.  What holds between the
  reads is what a review is worth.
* **A checkpoint in a text that people own.**  A complete review narrows the
  next one by a block in the description, which may be deleted, pasted back
  or belong to another base or reviewer.
* **Authority is assembled.**  Whether a job may write follows from CI
  variables, remotes, tokens, an API answer and a configuration file, of which
  any may contradict the others.
* **A lock table that forgets.**  Entries are removed when the last user
  leaves, decided from the strong count of an `Arc` while other tasks clone
  and drop it.

The list of hazards in `PROJECT.json` names the line where each bites and the
properties that would catch it; a hazard that no property covers yet says why.

### What makes each part correct

* GitLab publication: a finding is posted at most once for one snapshot and
  position; completion means convergence; a person's resolution is respected;
  a thread is resolved only for a reason; at most one write lands after the
  head moved; a later review can start; a plan can be made; a job ends.
* GitHub publication: the same of its own loop, which has no journal and
  repeats no write; and where the token cannot resolve threads, a lineage
  keeps the one thread it has.
* Review engine: an accepted finding rests on evidence; a conclusion disposes
  of the whole history and agrees with what was accepted; only a review that
  left nothing out authorizes a thread to be resolved; a review ends.
* Review command: a narrowed review leaves out only what was attended to; what
  people write survives; a report says what was written; a job without
  authority writes nothing; the files are of the head and the configuration of
  the base.
* Snapshot acquisition: what evidence claims is true of its head, complete
  means complete, the head is current when it is handed out, a failure has a
  cause, and an acquisition ends.
* Local review: a fresh review is of a state the tree was in; changes explain
  the tree.
* Diff, partition and contexts: anchors are at their lines; every file is in
  one unit or omitted for a reason; three sources of one change give one plan.
* Egress and transports: the token goes only where event, operator and policy
  permit, whatever names come to resolve to.
* Journal: only journals that replay accepts are reachable; history is
  append-only; every outcome follows a recorded intent.
* Lease: mutual exclusion per merge request; a table entry outlives its users;
  the table is bounded; waiters are served.
* Agent run: charged and reserved use never exceed a limit; what the provider
  spent is covered; run and ledger agree about the turn in flight; accepted
  findings were charged; a run ends once.
* Execution graph: dependencies first; bounded parallelism; room in the
  journal for every end; the journal replays to the states; no deadlock.

## 2. Modules

| Module | Models | Used by |
|---|---|---|
| `Optional` | the value that stands for none | most others |
| `JournalOps` | values and value-level operations of the journal, `validate_replay` as `ValidReplay` | `PublicationJournal`, `GitLabPublication` |
| `PublicationJournal` | the journal driven by an arbitrary caller | `MCPublicationJournal`, `PublicationProofs` |
| `OrderedPublication` | abstract specification: ordered, exactly-once settlement with withdrawable intents | instantiated by `PublicationJournal` |
| `PublicationLease` | the lock table | `PublicationProofs` |
| `GitLabTransport` | URLs, clients, and what a read or write reports of an exchange | `GitLabAnswers`, `GitLabSnapshot`, `JobEnvironment` |
| `SnapshotEvidence` | completeness of listings, choice of a version, evidence, replay, anchor table | `GitLabWire`, `Diff` |
| `GitLabWire` | which answers the strict parser refuses, and pages | `GitLabAnswers`, `GitLabSnapshot` |
| `GitLabAnswers` | what a publication makes of an answer to a write | `GitLabPublication` |
| `GitLabPublication` | controller, incremental plan, journal and host of one merge request | `MCGitLabPublication`, `GitLabPublicationProofs` |
| `GitLabSnapshot` | the acquisition of a merge request | `MCGitLabSnapshot`, `GitLabSnapshotProofs` |
| `GitHubPublication` | the loops of a publication and the host of one pull request | `MCGitHubPublication`, `GitHubPublicationProofs` |
| `GitLabContext` | CI variables to a merge request and the authority to publish | `JobEnvironment` |
| `ReviewCommand` | decisions of the command line, credentials, reports, the overview | `JobEnvironment` |
| `JobEnvironment` | from an environment to what a job may do | `ReviewPipeline` |
| `ReviewPipeline` | jobs of one change request over its life, and people | `MCReviewPipeline`, `ReviewPipelineProofs` |
| `Diff`, `Partition` | the parser of diffs; selection and packing | `ReviewContext` |
| `ReviewContext` | the three builders of a review's input | `LocalReview` |
| `LocalReview` | the review of a working tree while a developer works | `MCReviewSources`, `ReviewProofs` |
| `Egress` | the decision over destinations and addresses | `GitHubHost` |
| `GitHubHost` | events, remotes, tokens and the REST client | `GitHubJob` |
| `GitHubJob` | a job's way to the REST interface while names move | `MCReviewSources`, `ReviewProofs` |
| `ReviewEngine` | the conversation of a review and what becomes of its report | `MCReviewEngine`, `ReviewProofs` |
| `AgentRun` | agent run and budget | `MCAgentRun`, `RunProofs` |
| `ExecutionGraph` | plan compilation and execution | `RunProofs` |
| `SharedLemmas` | lemmas about sequences, ranking, finite sets, sums and measures | `RunProofs`, `GitLabSnapshotProofs`, `ReviewProofs` |

The composition: `ReviewPipeline` takes the acquisition of a GitLab snapshot
(`GitLabSnapshot`), the review (`ReviewEngine`) and the publication of findings
(`GitLabPublication`, `GitHubPublication`) in one step each, with every outcome
those modules have; what it keeps of an environment comes from `JobEnvironment`.

An operator described as "a mutant of X" is a plausible bug in the code that X
models.  It is used by no specification; replacing X by it makes a property
fail, which shows that the property depends on that code.

### GitLabPublication

State to code:

* `head`, `notes`, `overview`, `late`, `human` are the host.  A note is a
  record of its lineage, line, wording, head and who resolved it, which is what
  the inventory (`list_merge_request_discussions`) and the markers tell.
* `pc` is the point in `publish` between two awaits; `journal` is the value
  `self.journal`; `tried`/`attempts` are `action_fingerprint` and
  `action_attempts`; `todo` is what is left of the loops over threads to
  resolve and reopen; `tries` counts inside `set_discussion_resolved`.
* `born`, `belated`, `given`, `touched` and `astray` are history variables for
  the properties.  `born` are the notes created while the publication waited
  for the answer; `belated` those created by a request it had given up on;
  `given` is the head at which it gave up on the request in `late`; `astray`
  are the writes that landed under a newer head, each with the head when its
  exchange ended.  A request that a publication gave up on, and perhaps sent
  again, may land while the publication still runs: `LandLate` records what it
  does as `Landed` does.  A request left by an earlier publication counts for
  none.

Actions to code: `MakePlan`/`PlanFails` are the inventory and
`build_incremental_publication_plan`; `ActionStale`, `RefreshFails`,
`ConfirmNoOp` and `SendCreate` are one round of the loop of `publish`;
`CreateAnswered`, `CreateLost`, `CreateUnusable`, `CreateRefused` are the
ways a create may end.  Which of them an exchange leads to, and whether it may
be tried again, is computed: `GitLabAnswers` enumerates the exchanges a host or
a proxy may produce (statuses, cut or long bodies, answers that say something
else), `GitLabTransport` gives the report of the transport, `GitLabWire` the
confirmation, and `create`, `set_discussion_resolved` and `update_overview` the
decision; `Reconcile`/`ReconcileFails` are
`reconcile_ambiguous`; `SendSettle` to `SettleRetry` are
`set_discussion_resolved`; `OverviewKept` to `OverviewAnswered` are
`update_overview`.  `Push`, `HumanAct`, `LandLate` and `Crash` are the
environment.

Abstractions, each chosen so that the properties cannot tell the difference:

* A snapshot is the number of its head.  GitLab's merge request versions only
  grow, and the refs compared by `refresh_before_action` change with them.  A
  merge request that is closed fails the same comparison as a new head.
* A thread keeps the line it was created at.  GitLab tracks a position across
  pushes only for display; the controller compares the recorded anchor.
* The marker is any injection of head, lineage, line and wording (a number
  here).  The wording is part of the fingerprint and is chosen anew by every
  review, so a second review of one head may not match the first exactly.
* A review reports at most one finding per lineage; two admitted envelopes of
  one lineage are a hazard listed against the review engine.
* A lineage may be declared fixed and reported, because the engine admits
  candidates after the summary.
* The inventory of all pages is read in one step, and so is a write together
  with the host's answer.
* `BeginPublish` starts from a review that is already done: its history was
  acquired and found unchanged, otherwise the job ended earlier.  It ranges
  over every set of findings and every set of fixed lineages a complete review
  can authorize (`authorized_fixed_lineages`).
* Jobs of one merge request do not overlap: the component puts them in one
  `resource_group`, and the lease excludes them inside one process.  The lease
  itself is verified separately.
* `LateWrites` says whether the host may still apply a request after the
  client has given up on it.  HTTP does not exclude it; the runs say which
  properties need it excluded.

### GitHubPublication

State to code:

* `threads` are the review threads of the bot; a thread stands for its first
  comment, whose marker gives lineage, line, wording and head.  `rank` is the
  order of thread identities by which the code sorts; a new thread sorts
  before or after all others.  `outdated` is what a push makes of a thread
  whose code changed; which threads those are is arbitrary.
* `granted` says whether the token may resolve threads.  It is chosen once,
  and so is `lingers`: whether the host may act on a write whose client is
  gone.  Most properties speak of a host that does not.
* `history` is `prior_review`, `comments` the listed comments that end in
  their marker, `available` is `thread_resolution_available`, `left` what the
  current loop has not come to, `current` and `after` are the place in
  `reconcile_thread_resolution` to return to.

Actions to code: `ListComments`/`ListFails` are the list at the start of
`publish_github_findings`; `ResolveOld`, `KeepOld`, `PostAnchored`, `Post`,
`Reopen`, `Keep` and `Ambiguous` are the arms of the loop over candidates;
`Fix` is the loop over fixed lineages, `Supersede` that over comments nobody
knows; `OverviewKept`, `SendOverview` and `OverviewFails` are
`update_github_overview`.  `Answered`, `Denied` and `Unconfirmed` are the
classes of answers; no write is repeated.  The workflow's concurrency group
cancels a job for the next one, which is `Crash`.

What the model makes visible:

* `Supersede` is reached only when a create of an earlier job lands between
  the acquisition of the threads and the list of comments.
* A lineage that is declared fixed and reported is left out of `Converged`:
  the loops undo one another, in the order of the code.
* The ambiguity check of the loop over fixed lineages cannot fail, because a
  fixed lineage had an open thread when it was acquired.
* A kill between resolving the old thread and creating the new one leaves the
  finding without an open thread until a review reports it again.  Nothing in
  the repository promises otherwise, so this is described and not a property.

### ReviewEngine

The model behind the engine is arbitrary: in every state it may call any tool
with any argument, or stop.  `turns`, `calls` and `offered` are the counters of
the budget that the conversation moves; the budget itself is `AgentRun`.
`cursor`, `context`, `inspected`, `admitted`, `summary` and `dispositions` are
the fields of the admission sink and of `execute_tool`.  `gaps` stands for all
omissions (inventory, unselected files, truncated searches).

Actions to code: `Request` and `Stop` are a provider turn and its finish
reason, `EndAnswer` returns the results; `Browse`, `ReadContext`, `ShowDiff`
and `GetExisting` are the evidence tools, `Browse` also a charged call that is
refused; `Misuse` is a call refused before it was charged; `Admit` and
`Suppress` are `submit_candidate` through `RestrainedAdmission::admit`;
`SubmitSummary` is the summary.  `Fail` is everything that ends a review from
outside: time, tokens, bytes, provider, cancellation, a repeated call identity.
`Rank`, `RankStale` and `RankFails` are `canonicalize_report`, where one
finding is left of those with one anchor and title.  The threshold of
confidence is a free choice.

### GitLabSnapshot

`revision`, `refs`, `versions` and `totals` are GitLab: the state of the
branches, what the merge request shows of it, the diff versions, and whether
listings come with totals.  After a push GitLab prepares refs and versions in
its own time (`PublishRefs`, `PublishVersion`), shows the old ones meanwhile,
and drops the files of versions it no longer needs (`DropFiles`).  `stage` is
the point between two reads of `try_acquire`, `got` what it holds there, `pages`
the listing that is being collected, `attempt`, `poll`, `requests` and `now` the
counters of `AcquisitionBudget`.  There is one action per stage; `ReadFails`,
`OutOfBudget`, `DeadlinePasses` and `Garbled` are what may happen to any read.
Waits are computed, including the jitter.

The evidence is judged by `SnapshotEvidence` (`core/snapshot.rs`): the gaps of a
listing, of paths and of blobs, the blockers of a version, and the replay check
(`Replay`) a later reader makes.  The two are different functions in the code,
and `EvidenceTrue` says that they agree on what the acquisition hands out.
`FailsForCause` is the other direction: an acquisition of a revision that the
parser and the limits accept (`Readable`), with no push and no failed read, ends
in a failure only for want of polls, reads or time, and is partial only when a
diff, a blob's content or the room for it is not there to be had.  What GitLab
does on its own (preparing, dropping the files of a version once no push is to
come) is not excluded.

### ReviewPipeline and JobEnvironment

`branch`, `description` and `policy` are the change request and the deployed
reviewer; `job` is the one job that runs, a record whose `stage` is the point
in `run_async`; `result` is what the last job reported.  A description is what
people wrote (a number that counts their edits) and the blocks in it.  The
identity of a reviewer, a digest of several versions in the code, is the number
`policy`.

An environment (`JobEnvironment`) is everything a job finds: arguments, CI
variables, remotes, tokens, network, configuration, model keys and what the API
says.  `Setup` takes it through the decisions of the code in their order and
leaves what the pipeline needs: the host, whether publication is on, the class
of the CI context, the credential, the verdicts.  `acquires` is computed for a
head that moved since the checkout and for one that did not.

Actions to code: `Start` is `run_async` up to the acquisition; `ReadPull`,
`ListFiles`, `ConfirmPull` are the two reads of `acquire_github_review_context`
around the pages, `AcquireGitLab` its counterpart; `ReadHistory` is the history,
`Plan` the comparison of configuration and base, the checkpoint and the model;
`Review` ends in any report the engine can give; `Gate` is what stands before
a publication; `PublishFindings`, `ReadOverview`, `WriteOverview` are the
publication; `Unreachable` is a request that fails for good and `Kill` a
cancelled job.  `Push`, `Retarget`, `EditText`, `DeleteBlocks`, `PasteBlocks`,
`Restore` (an old version of the description put back), `Discuss` and `Upgrade`
are everyone else.

What the model makes visible:

* `base_sha` of a GitHub review is the tip of the base branch, while the files
  GitHub lists are against the merge base.  A commit here is compared with the
  bases it can be compared with (`BasesOf`).
* The two reads of a pull request are compared by value, so a branch that
  leaves its head and comes back in between is not noticed; `FilesOfHead`
  excuses this.
* An edit of the description between a job's last read and its write is lost;
  `TextKept` excuses it (`raced`).
* A GitLab review that no merge request pipeline runs never publishes, and a
  GitHub one by `--pr` never counts as a fork's.  `--ci` without a CI context in
  a checkout of GitHub finds both hosts and ends with a diagnostic.
* `fork_behavior` has no value that leads to the trusted pipeline of a target
  project, which `GitLabContext` knows.

### LocalReview, ReviewContext, Diff and Partition

`tree`, `head` and `conflict` are the developer's; `local` is the review with its
phase.  A capture opens the repository, lists the paths, hashes them one by
one, classifies the changes and renders them one by one, each step on the tree
as it is then; the review is built of it and a second capture decides whether
it is fresh.  A content is a sequence of lines, and a hash is the content.  The
producer of diffs (the crate `similar`, git on a host) is external: the hunks of
a longest common subsequence.  `Diff` is the parser of such a diff as a fold
over its lines, with the accounting of hunks; `Partition` is selection,
preparation, packing and the replay check of a plan; `ReviewContext` has the
three builders.  What the code sorts is ranked (`InOrder`: a member comes after
as many as are before it), a work unit is the set of its files, which have
different paths, and its identity is that set.

* A content that comes back between two reads is not noticed; `CurrentWhenFresh`
  excuses this (`reverted`).  A report without changes or without a model is not
  compared again.
* A pure rename has no diff, and local review omits it.
* Files of equal tier, score and size are taken in the order of their new
  paths, which are distinct.  The code compares a `ChangedPath`, the old path
  first, so two renames of equal rank may be packed in the other order;
  `PlanAccounts` does not depend on which.
* The checks of `validated_lines` on bytes (UTF-8, carriage returns, the final
  line feed, the length of a line) are text: a diff is a list of lines here.
* The run of `PlanAccounts` is narrow: units of one file, and no file of low
  signal.  `PlanAccountsHolds` is about every valid limit and every tier.

### GitHubJob, GitHubHost and Egress

`net` is what names resolve to, `checkout` where the checkout is, `job` the job
at its phase, `sent` every request on the wire.  The phases are the awaits of
`run_async` and `acquire_github_context`: the event, the discovery of the
repository, the selection of a target and a token, the authorization of the
endpoint with the addresses it resolves to at that moment, and the calls over
the client that is pinned to them.  The path of a request is its root, the
repository and the segments of the call.  `Egress` holds the classes of addresses
(v4, v6, mapped), private blocks, policies and the decision; a path rule, an
origin and a lifetime are checked as in the code, with the standard policy as
the code sets it up.

### PublicationJournal and OrderedPublication

Every public method is an action, called in any order with any argument.  A
call that returns an error and leaves the journal alone is a stuttering step.
`ConfirmNothing` (`confirm(0)`) is separate because the code fails the journal
before it looks at its state.  Text bodies and marker parsing are abstracted to
fingerprints.

### PublicationLease

One step is what a task does between two points where others may run.  An
`Arc` is an element of `Mutex`; the strong count is computed from who holds a
clone: the table, the task's own handle, and the future or guard made from a
second clone.  `Drop` is the three steps `Unlock` (the guard), `Cleanup` (under
the table's mutex) and `Leave` (the remaining handle).  A task that finds the
table full stays idle.

### AgentRun

`state`, `used`, `last`, `inFlight`, `accepted` are the fields of `AgentRun`
and its `AgentBudget`.  The dimensions of the budget fall into four classes by
how the code treats them: `Reported` by the provider (tokens), `Priced` at the
reservation (cost), `Drawn` by tools, `Counted` by one or by the number of
findings.  A sum that overflows its integer is over every limit
(`ensure_u32`, `ensure_u64`), so no width is needed.  `awaiting` is the
suspension inside `complete_provider_turn`, during which the run is borrowed
and only the clock and the cancellation change.  `spent` and `overrun` are
history: what the provider used, and whether it ever used more than reserved.
The terminal calls `stale`, `blocked`, `failed` and `cancelled` are one action:
they differ in the reason they record.  An envelope without findings still
counts as accepted, so such a run ends `Complete`, as in the code.

### ExecutionGraph

A node identity is a number, ordered as identifiers are.  The four counters of
use are reduced to one, since each is added and checked alike; the facts a node
contributes guard nothing.  `Kahn` is `validate_acyclic`, including the order
in which it takes nodes.  `CancelRemaining` is the loop that stops at the first
node for which the journal is full.

## 3. Runs

| Run | Instance | Checks | Shows |
|---|---|---|---|
| `publication_journal` | every valid plan of up to 3 actions, 2 snapshots | `ReplayAccepted`, `ImplementsPromise` | no sequence of calls leads to a journal its own replay refuses, and the journal implements ordered publication |
| `publication_lease` | 3 tasks, 3 keys, room for 2 | `MutualExclusion`, `WaitersServed` | removal and re-creation of entries never breaks exclusion nor strands a waiter |
| `gitlab_publication` | 1 lineage, 3 lines, 2 wordings, 2 heads, 3 jobs, 1 human step | `NoDuplicates`, `Converged`, `HumanResolutionKept`, `ResolvedForReason` | what a publication leaves behind and respects |
| `gitlab_two_findings` | 2 lineages, 2 heads, 2 jobs, late writes, fairness | `JournalTruthful`, `OneWriteAstray`, `JobsEnd` | the journal agrees with the host across several actions, retries and late landings, what a push between them may lead to, and that every publication ends |
| `gitlab_interrupted` | 1 lineage, 2 lines, 2 jobs | `ReviewCanStart` (violated) | the finding below |
| `github_publication` | 2 heads and both kinds of token; 1 lineage, 2 lines, 2 wordings, 3 jobs, with 1 human step or with late writes; 2 lineages with 1 line, 1 wording, 2 jobs | `LineageRetained`, `Converged`, `HumanResolutionKept` | what a publication leaves behind and respects without a journal |
| `review_engine` | 2 files in 2 units, every history of up to 2 discussions, 2 requests, 5 charged calls, 2 findings | `EvidenceFirst`, `Concluded`, `FixedAuthorized`, `ReviewEnds` | what a review may conclude from any conversation |
| `execution_graph` | every plan over 3 identities and every limit | `JournalSuffices`, `JournalReplays`, `NeverStuck` | every order of starts, ends, failures and cancellation |
| `agent_run` | 2 work units, one dimension of each class (two drawn), deadline 1, clock 2 | `BudgetRespected`, `SpendingCovered`, `TurnsAgree` | failures, late and expensive answers, tools and candidates on one budget |
| `snapshot_acquisition` | 3 revisions, 2 pushes, 2 troubles, pages of 1, 2 attempts, 2 polls, 12 requests, deadline 3, fairness | `EvidenceTrue`, `FailsForCause`, `HeadStillCurrent`, `AcquisitionEnds` | what a snapshot is worth, and that its acquisition ends |
| `review_pipeline` | 3 heads, 2 bases, 3 jobs, 44 environments, 3 troubles (pushes and retargets, an edit, a new reviewer) | `AttentionCovers`, `TextKept`, `ReportTruthful`, `AuthorityKept`, `FilesOfHead`, `OwnConfiguration` | checkpoint, description, report and authority over several jobs |
| `review_sources` | 5 paths, 2 heads, 4 sets of references, 2 policies, 2 steps of a developer; 14 GitHub setups, 4 sets of addresses, 2 rebinds, 2 requests | `CurrentWhenFresh`, `ChangesExplain`, `AnchorsExact`, `PlanAccounts`, `SameForEveryHost`, `TokenStaysHome` | where a review gets its input, and where its token goes |

Each module also states its type invariant, and some state properties that are
proved (section 4) or that held of these instances, without a run of their own:
`HistoryKept`, `EntryOutlivesUsers`, `TableBounded`, `DependenciesFirst`,
`ParallelismBounded`, `AcceptedCharged`, `EndsOnce`, and `NoDuplicates`,
`OneWriteAstray` and `ResolvedForReason` of `GitHubPublication`.

`CHECK_DEADLOCK FALSE` is set where the system may really stop: a finished run,
a terminal journal, or a merge request whose bounds on pushes and jobs are used
up.

### Bounds

* Three jobs on two heads and two lines are the least in which a thread is
  created, re-anchored and then matched again after a person or a crash
  interfered; the violated properties are found within them.  A third line is
  needed for a finding that moved twice while a person resolved one of its
  threads.  `MCGitLabPublication` looks at three lines in one wording and at
  two lines in two wordings.  Two write
  attempts give one retry, which is where an answer of the first write can
  still be outstanding.
* On GitHub the same bounds cover a thread that is created, re-anchored and
  matched again; two wordings make a rerun for one head that does not match
  exactly.  A thread that is kept because an earlier thread of the same
  publication could not be resolved needs a second lineage: the constraint
  `Instance` of `MCGitHubPublication` adds two lineages with two jobs, and
  looks at late writes and human steps separately.  Lineages, lines and
  wordings are only compared, so they are interchanged by symmetry.
* `NoDuplicates` of GitLab is checked with `LateWrites = FALSE`.  The code
  authorizes a retry of a create when one complete inventory does not show the
  note; a host that applied the first request after that inventory would post
  twice, and neither the code nor its documents exclude it.  Where it does
  (`gitlab_two_findings`), the second note is of an action on record or still
  open (`JournalTruthful`), and a request given up on may land under a newer
  head beside the one write that was under way (`OneWriteAstray`); the stronger
  statements, that every note is recorded and that one write in all lands
  there, do not hold of that instance.  One request at a time is overdue.
* Snapshot: three revisions are the head under review, a push that renames and
  collapses (four blobs where two may be asked for, a capped count), and the
  first head on another base.  `MaxTrouble` bounds pushes and faults together:
  two are a push in the middle of a retry or a failure after a push.  Twelve
  requests are enough for an undisturbed acquisition and not for every
  disturbed one.
* Pipeline: three jobs are the two generations a checkpoint may grow
  (`MAX_INCREMENTAL_GENERATION`) and the full review that must follow.  Three
  heads are one, a push on it, and a merge of a newer base that takes the
  branch's side, where the change against the old base is not that against the
  new.  `MaxTrouble` bounds pushes, retargets, edits and upgrades together.
  Twenty of the environments contradict themselves in one way each.
* Sources: the paths are two sources that take each other's contents (renames),
  a test, a tracked secret and an ignored file; contents are two short files of
  which one extends the other at both ends, one too long and one binary.  The
  budget has room for some of them.  `MCReviewSources` composes two parts that
  share no state: a behaviour is of one of them, and each is explored whole.
* Two files in two units have a finding whose file was not shown and one bound
  to another unit.  Five calls are a whole review of one finding: history,
  context, diff, candidate and summary; a history of two discussions is read
  in one page or in two.
* Two lineages are needed for a journal with a recorded and an open action; a
  second line adds nothing to its truthfulness.
* Three tasks on one key have a holder, a waiter and a newcomer; three keys
  with room for two reach the full table and the forgotten entry.
* Three nodes have a chain, a fork and a join.  The limit of uses lies within
  the sum of two nodes.  `MaxEvents = 6` is exactly what a plan of three nodes
  must have.
* The agent's budget admits two turns and not a third, and a clock that runs
  one unit past the deadline.

### Fairness

* `gitlab_two_findings`: weak fairness of the controller's own steps.  The runtime
  polls the task, and every request is answered or times out, which in the
  model are the outcomes of one step.  Nothing is assumed about people, pushes,
  late writes or kills.
* `review_engine`: weak fairness of `Next`.  The task is polled, requests have
  a deadline, and an answer has finitely many calls (`EndAnswer` follows the
  last one); what bounds the conversation is the budget.
* `snapshot_acquisition`: weak fairness of the controller's own steps.  Nothing
  is assumed about GitLab: it may never prepare a version.
* `publication_lease`: weak fairness of `Lock`, `Unlock`, `Cleanup` and
  `Leave`.  Tokio's mutex is fair (waiters are served in order), a publication
  has a deadline, and `drop` runs to its end.  `TimeOut` is not assumed.

### Findings

`gitlab_interrupted`: a finding that moved to another line is published by
creating the new thread, and the old one is resolved after all creates.  A
kill, a push or a failure in between leaves two open threads of one lineage,
which `PriorReviewContext::try_new` refuses: every later review of that merge
request fails until a person intervenes.  The document this disagrees with is
quoted in `PROJECT.json`.

The models also show four behaviours that nothing in the repository speaks
against plainly, and that are therefore described and not run:

* GitLab: after re-anchoring, a person who resolves the old thread (or reopens
  and resolves it) makes two threads match the lineage at the next head, and
  the plan is ambiguous for good (`PlanUnambiguous`).
* GitLab: a thread that a person resolved matches its lineage at every line.
  When the finding moves on, the plan takes that thread for the finding, creates
  nothing at the new line and resolves the open one: the person's "resolved"
  outlives the line it was said of.  This is why `ResolvedForReason` accepts a
  thread that people resolved as the one that stands for a finding.
* GitHub: after a finding was re-anchored, the thread that stands for its
  lineage may be the old, resolved one.  The next publication reopens it, or
  posts again beside the open one (`OneActiveConversation`).
* Calls of one answer run in order, and admission looks at what was gathered up
  to that call.  One answer may read a file, show a diff and submit a finding,
  written before either result was sent.

## 4. Proofs

TLAPS checks, for every value of the constants under the named assumptions:

| Module | Theorems | Inductive invariant |
|---|---|---|
| `PublicationProofs` | `TypeCorrect`, `ReplayAlwaysAccepted`, `HistoryAlwaysKept`, `JournalImplementsPromise` | `TypeOK` and `ReplayAccepted`: the replay check is strong enough to be inductive by itself, which is why it is a good check |
| | `MutualExclusionHolds`, `EntryOutlivesUsersHolds`, `TableBoundedHolds` | `EntryOutlivesUsers` with three facts it needs: handles belong to tasks outside idle, two keys never share a mutex, and one task holds a mutex. A strong count of two leaves nobody but the caller and the table (`CountOfTwo`), which is what makes the removal safe |
| `RunProofs` | `GraphTypeCorrect`, `ParallelismAlwaysBounded`, `JournalAlwaysSuffices`, `DependenciesAlwaysFirst`, `JournalAlwaysReplays`, `NeverStuckHolds` | the conjunction of these with `LastIsLatest`; `JournalSuffices` counts two events for a pending and one for a running node, so that every transition keeps it. `ParallelismBounded` is proved only. `NeverStuckHolds`: Kahn's recursion defines a function (induction on the nodes left) and takes no node of a cycle, so an accepted plan is `Acyclic`, and its least runnable node is ready |
| `RunProofs` | `RunTypeCorrect`, `BudgetAlwaysRespected`, `SpendingAlwaysCovered`, `TurnsAlwaysAgree`, `RunEndsOnce`, `AcceptedAlwaysCharged` | these with `SpentBefore`: before the answer, the provider's past use is covered by the charges alone, so that the reservation is left for the turn in flight. The sum of the accepted envelopes is a recursion over sets: it defines a function, does not depend on the order it takes (`SumTakes` of `SharedLemmas`), and grows by one envelope (`TotalGrows`) |
| `ReviewProofs` | `ReviewTypeCorrect`, `EvidenceAlwaysFirst`, `AlwaysConcluded`, `FixedAlwaysAuthorized` | these with three facts: admitted lineages are those of accepted findings (`AdmittedAccepted`), a review that is done was concluded (`DoneConcluded`), and nothing is fixed before it is over (`FixedLast`). The first is what makes a summary's "still present" mean a finding |
| | `ChangesExplainHolds` | `LocalShape`: what each phase of a capture holds, the changes being `Changes(base, hashes)`. `Ordered` lists every change of a set once (`Ranks`, `OrderedAll`), no path is in two of them (`OneAbout`), and so the changes tell which paths differ from the base and how (`ChangesDetermine`) |
| | `CurrentWhenFreshHolds` | `FreshInv`: unless something was reverted, what was recorded and is no longer so stays lost (`DeveloperKeeps`); the first capture saw what was recorded (`FirstSaw`); when the review began each path it had hashed was as recorded or lost (`Standing`). What the second capture finds the same is not lost, hence stood all along (`SecondSaw`); and equal identities are of the same hashes (`SameIdentity`, `SameHashes`) |
| | `PlanAccountsHolds` | `PlanInv`: `LocalShape`, what was rendered so far has a diff that is a list of lines (`IsDiff`), and the context that was built accounts for what was captured (`ContextAccounts`). It rests on two invariants of the loops of `Partition`: the files prepared so far are included or omitted, those included selected by the policy, which selects no secret, and with anchors of their own (`PreparedAs`); those packed so far have a place in one unit or a reason, no unit passes a limit, and the counters are what the units measure (`PackedAs`). Bytes, anchors, files and low-signal bytes add up over disjoint sets of files (`Additive`), so the sum over the units is that of their union, which is what the replay compares (`ReplayAccepts`). No captured file has the path of another (`ChangesDistinct`), and a parse collects lines of its own path only (`ParseInv`), so the anchors issued are those of the files included |
| | `TokenStaysHomeHolds` | `JobInv`, phase by phase: the contexts agree with the setup (`SetOut`), the discovery found the server the setup names and a repository of it (`FoundHome`), the target is the event's or the operator's (`Aimed`), and the client is of that server's interface and pinned to permitted addresses (`Connected`), whatever its name resolves to afterwards. That no denial of the gateway passes for a permission is `NoBadAnswer` |
| `ReviewPipelineProofs` | `AttentionTheorem`, `TextTheorem`, `ReportTheorem`, `FilesTheorem`, `ConfigurationTheorem`, `AuthorityTheorem` | `IInv`. Wherever a description is kept (on the host, as its earlier version, by a job that read it, by one about to write it), each complete block in it vouches only for paths that a complete review under the same reviewer attended to (`Sound`). Such a block is written only by a job that attended to every selected path, or found a path unchanged since the head of a sound block of its base and reviewer (`AttentionOK`). For the files: while a job is between its two reads, either the branch is what it read or the branch has moved since (`ListingOK`). For the authority: all that the publication gate asks is a function of the environment the job was set up from (`AuthorityOK`) |
| `GitLabPublicationProofs` | `OneWriteAstrayHolds` | `HeadsOK`, and `AstrayOK` over `Loose`: the writes already counted and the one that may still be (in `late`, given up on under a newer head). A write is sent only for the reviewed head, and a resolution that is repeated without asking is the same write; heads only grow, so a publication that has one such write is past its last, or is still at that resolution. A request given up on before the head moved is not one of them, whenever it lands |
| | `JournalTruthfulHolds` | `JInv`: the plan reports each finding once, in the order of the marks (`PlanOK`), each entry is of its action (`EntriesOK`), a note created and not recorded belongs to the action in doubt (`BornOK`), and the place in the code fits the state of the journal (`PlacesOK`). For what lands late, `LInv`: a create the publication gave up on, and every note such a create made, is of an action that was begun (`Begun`), that is one on record or the current one; the journal only moves ahead, so what was begun stays so |
| | `NoDuplicatesHolds`, `ConvergedHolds`, `HumanResolutionKeptHolds`, `ResolvedForReasonHolds`, under `~LateWrites` | `JInv` with `TInv`: one thread of a lineage per line (`OnePerLine`), none yet where a create is still to come but the one whose answer was lost (`Pending`), every thread as the plan wants it, or due, or acted on by people (`ThreadsOK`), what is due is due for a reason (`TodoOK`), and what a no-op found goes on standing for its finding (`NoOpsOK`) |
| `GitHubPublicationProofs` | `TypeCorrect`, `LineageRetainedHolds`, `OneWriteAstrayHolds` | `TypeInv`, for any host: a rank tells its thread, so that `First` picks a member, and what is fixed has a thread (`FixedOpen`); `AstrayOK`, for any host: heads only grow and a write is sent for the reviewed one; the one request that may land after the publication gave up on it is the one it stopped on (`Overdue`) |
| | `NoDuplicatesHolds`, `ConvergedHolds`, `HumanResolutionKeptHolds`, `ResolvedForReasonHolds`, each of which says `~lingers` itself | `Prompt`: what the acquired threads have become since (`AcquiredOK`); the write under way is one of six, for a lineage taken from those left, while the threads of the lineages left are as acquired or touched by people, those taken have an open thread, and those fixed have none but the one under way (`ProgressOK`); with `Unduplicated` and `Unresolved` |
| `GitLabSnapshotProofs` | `HeadAlwaysCurrent` | `PreparedOK` and `BoundOK`: the stages between the first answer and the last carry the answer and the version bound to its refs. The last answer equals the first, and the parser refuses one whose refs are of another head than its own |
| | `EvidenceTrueHolds` | `EInv`: versions are numbered, and what a listing shows or has kept is a version the host has (`VersionsOK`, `PagesOK`, `ListedOK`); the bound version is of the refs the request showed (`ContextOK`); the files are those of the version's revision, and all of them unless its own state says otherwise (`FilesOK`); blobs asked for, kept and given up agree request by request (`Kept`). The replay then finds the gaps the acquisition found, as both are functions of the same lists |
| | `FailsForCauseHolds` | `CInv`: `EInv` and, while nothing was pushed, failed or slow, `Undisturbed`: the host shows revision 1 and the first answer was of it (`HostCalm`); the pages are the first ones of the listing, each accepted (`PagesCalm`); the version has its files and its count or says that it has none (`FiledCalm`); the current files are complete and the same, every blob wanted was acquired or is to be asked for, and there is room for it (`SettledCalm`). The pages join to the listing (`PagesJoin`, from `FlattenCuts`) and their receipts add up to it (`PagesComplete`, from `SumRuns`), so whole evidence has no gap (`NoGaps`) |

The assumptions are the `ASSUME`s of the specifications: finiteness of tasks,
keys and nodes, natural bounds, disjoint classes of dimensions, `None` outside
the values it stands apart from, and that a head's tree, its base's and what
changed between them are of the shapes `ReviewPipeline` reads
(`ChangeAssumption`).  For `GitLabSnapshot`: that a revision is what its refs
name, that its files are files of the wire, and that refs are not the value of
their absence (`RevisionAssumption`; a path is a number, its place in the order
of paths); that `Absent`, `Malformed` and `None` are apart from each other's
fields (`AbsentAssumption`); and that the limits are numbers, a page fits the
items of a listing, and the limits on blobs follow from that on items
(`LimitsAssumption`).
`TreeAssumption`, for `LocalReview`: the paths are finitely many positive numbers
(0 stands for `HEAD`), trees and commits are over them, heads and references name
known commits, and no capture and no error (`None`) is neither a fresh one nor a named one.
`ContentAssumption`: what a path holds is a list of lines or nothing.
`PolicyAssumption`: a policy of a review and the limits of a plan are valid, as
the configuration is refused before the review when they are not.  `PartitionAssumption`: no
reason for an omission is `None`.
`SetupAssumption` and `EgressAssumption`, for `GitHubJob`: repositories are named
by strings, one on the command line has been parsed, and `None` is no name, event,
server or denial.

Four theorems of `GitLabPublication` have the hypothesis `~LateWrites`, and four
properties of `GitHubPublication` say `~lingers`: a create that times out and
lands after the next job's inventory posts a second thread, which the code does
not exclude.  `JournalTruthfulHolds`, both `OneWriteAstrayHolds` and
`LineageRetainedHolds` are proved without the hypothesis: they count what lands
late and say what remains true then.

Induction is by a least counterexample: the naturals are well founded, and a
recursive function is first shown to satisfy its equation (`OrderExists`,
`KahnVisits`, `FirstIsOne`, `FlattenExists`, `SumExists`, and `TurnsExist` for the
loops that are folds, of which `FoldRuns` makes a run, turn by turn).

What stays with TLC:

* All liveness: fairness and `ENABLED` are outside the prover's reach.
* `AnchorsExact` and `SameForEveryHost` of `LocalReview`: they are about what the
  parser of `Diff` computes from the hunks of a longest common subsequence, an
  induction over two texts at once, and about two builders that compute the same.
  The theorem about the plan needs less of it: what a parse collects is of the
  path that was parsed.

## 5. Plan

What is left, the most consequential first.

1. `PriorReview`: reading discussions page by page while people write, and what
   the comparison after the review then finds.
2. A composition of `ReviewEngine` with `AgentRun`, in which the counters of the
   conversation implement those of the budget.
3. The ranking of findings, and the bounded queries of the repository tools.

## 6. Not modelled

Text (marker syntax, rendering, escaping, the words of a report, its risks and
their validation), JSON itself, sizes of fields on the wire, globs beyond the
forms of `Partition`, temporary files and artifacts, and redaction are about
content.  `bind_github_checkout`, `compare_dns_rebinding` and
`authorize_redirect` are called by tests only.  Layered configuration is a table of merges;
providers convert between formats, and what their answers may be is in
`AgentRun`; evaluation scores files offline; CI scripts and file generation keep
no state.  The reasons are listed per component in `PROJECT.json`.
