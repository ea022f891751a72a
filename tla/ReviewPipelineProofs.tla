------------------------ MODULE ReviewPipelineProofs ------------------------
(***************************************************************************)
(* What ReviewPipeline promises for every tree, every history of pushes    *)
(* and every set of environments.                                          *)
(*                                                                         *)
(* The argument for the attention: a complete block is only ever written   *)
(* by a job whose review was complete, and such a job was told to look at  *)
(* every selected path or found the path unchanged since the head of a     *)
(* complete block with the same base and reviewer; so whatever block stands*)
(* anywhere in the system, all that it vouches for has been attended to.   *)
(* IInv says that of the description, of its earlier version, of the       *)
(* description a job holds and of the one it is about to write.            *)
(*                                                                         *)
(* The argument for the authority: all that the gate of publication asks of*)
(* a job is a function of the environment it was set up from, and what it  *)
(* asks is what AuthorityKept says of the setup of a job that has written. *)
(***************************************************************************)
EXTENDS ReviewPipeline, TLAPS

Descriptions == [text : Nat, blocks : Seq(Checkpoints)]

\* All selected paths between two commits were attended to under a version.
AllAttended(version, base, head, seen) ==
    \A p \in Selected(base, head) : <<version, p, Tree[base][p], Tree[head][p]>> \in seen

\* A block vouches for no more than was attended to.
Covers(c, seen) == c.complete => AllAttended(c.policy, c.base, c.head, seen)

Sound(d, seen) ==
    /\ d \in Descriptions
    /\ \A i \in DOMAIN d.blocks : Covers(d.blocks[i], seen)

JobFields == {"stage", "setup", "policy", "checkout", "config", "base", "head", "listed",
              "moves", "description", "discussed", "attention", "report", "attempts",
              "written", "update"}
Unplanned == {"started", "pull", "files", "acquired", "history"}
Concluding == {"reviewed", "findings", "overview", "writing"}
Stages == Unplanned \cup {"planned"} \cup Concluding

PeopleOK ==
    /\ branch \in [base : Bases, head : Heads]
    /\ policy \in Nat /\ moves \in Nat /\ edits \in Nat
    /\ Sound(description, attended) /\ Sound(earlier, attended)

JobOK ==
    \/ job = NoJob
    \/ /\ job = [f \in JobFields |-> job[f]]
       /\ job.stage \in Stages
       /\ job.policy \in Nat
       /\ job.stage # "started" =>
            /\ job.base \in Bases /\ job.head \in Heads
            /\ job.setup.host = "github" => Sound(job.description, attended)

ListingOK ==
    /\ job.stage = "pull" =>
        /\ job.moves \in Nat /\ job.moves <= moves
        /\ branch = [base |-> job.base, head |-> job.head] \/ moves >= job.moves + 1
    /\ job.stage = "files" =>
        /\ job.moves \in Nat /\ job.moves <= moves
        /\ \/ job.listed = [base |-> job.base, head |-> job.head]
           \/ moves >= job.moves + 1 /\ job.listed = branch
           \/ moves >= job.moves + 2
    /\ job.stage = "acquired" =>
        \/ job.listed = [base |-> job.base, head |-> job.head]
        \/ job.moves \in Nat /\ moves >= job.moves + 2

AttentionOK ==
    /\ job.stage \in Unplanned => job.attention = Full
    /\ job.stage \in Stages =>
        /\ job.attention.kind \in {"Full", "Incremental"}
        /\ job.attention.generation \in Nat
        /\ job.attention.kind = "Incremental" =>
            \A p \in Selected(job.base, job.head) \ job.attention.paths :
                <<job.policy, p, Tree[job.base][p], Tree[job.head][p]>> \in attended
    /\ job.stage \in Concluding /\ CheckpointComplete(job.report) =>
        AllAttended(job.policy, job.base, job.head, attended)

ConfigurationOK ==
    job.stage \in {"planned"} \cup Concluding => job.config \in {None, job.base}

WrittenOK ==
    /\ job.stage \in Stages \ {"overview", "writing"} => job.written = {}
    /\ job.stage \in {"overview", "writing"} => "overview" \notin job.written

UpdateOK ==
    job.stage = "writing" =>
        Sound(job.update, attended) /\ (raced \/ job.update.text = latest)

IInv ==
    /\ PeopleOK /\ JobOK /\ ListingOK /\ AttentionOK /\ ConfigurationOK /\ WrittenOK
    /\ UpdateOK /\ TextKept /\ ReportTruthful

-----------------------------------------------------------------------------
(* Lemmas.                                                                 *)

\* What is known of the blocks of a description stays known as more is attended
\* to.
LEMMA SoundGrows ==
    ASSUME NEW d, NEW seen, NEW more, Sound(d, seen), seen \subseteq more
    PROVE  Sound(d, more)
BY DEF Sound, Covers, AllAttended

\* extract_checkpoint returns a block of the description or nothing.
LEMMA ExtractSound ==
    ASSUME NEW d, NEW seen, Sound(d, seen), ExtractCheckpoint(d) # None
    PROVE  ExtractCheckpoint(d) \in Checkpoints /\ Covers(ExtractCheckpoint(d), seen)
BY DEF Sound, Descriptions, ExtractCheckpoint

\* plan_attention leaves out only what the block it goes by vouches for.
LEMMA PlanCovers ==
    ASSUME NEW c, NEW base, NEW head, NEW version, NEW seen,
           c # None => c \in Checkpoints /\ Covers(c, seen)
    PROVE  LET a == PlanAttention(c, base, head, version)
           IN  /\ a.kind \in {"Full", "Incremental"} /\ a.generation \in Nat
               /\ a.kind = "Incremental" =>
                    \A p \in Selected(base, head) \ a.paths :
                        <<version, p, Tree[base][p], Tree[head][p]>> \in seen
BY DEF PlanAttention, Usable, Full, Incremental, Changed, Selected, Covers, AllAttended, Checkpoints

\* The block of a job whose review attended to everything vouches for no more.
LEMMA CheckpointSound ==
    ASSUME NEW j, j.base \in Bases, j.head \in Heads, j.policy \in Nat,
           j.attention.kind \in {"Full", "Incremental"}, j.attention.generation \in Nat, NEW seen,
           CheckpointComplete(j.report) => AllAttended(j.policy, j.base, j.head, seen)
    PROVE  Checkpoint(j) \in Checkpoints /\ Covers(Checkpoint(j), seen)
BY DEF Checkpoint, Checkpoints, NextGeneration, CheckpointComplete, Covers

\* update_description keeps the text and leaves one block, the new one.
LEMMA UpdateSound ==
    ASSUME NEW d, NEW seen, NEW c, Sound(d, seen), c \in Checkpoints, Covers(c, seen),
           UpdateDescription(d, c) # Malformed
    PROVE  Sound(UpdateDescription(d, c), seen) /\ UpdateDescription(d, c).text = d.text
<1>1. UpdateDescription(d, c) = [d EXCEPT !.blocks = <<c>>]
  BY DEF UpdateDescription
<1>2. <<c>> \in Seq(Checkpoints) /\ DOMAIN <<c>> = {1} /\ <<c>>[1] = c
  OBVIOUS
<1> QED  BY <1>1, <1>2 DEF Sound, Descriptions

-----------------------------------------------------------------------------
(* The invariant.                                                          *)

LEMMA InitInvariant == Init => IInv
<1> SUFFICES ASSUME Init PROVE IInv
  OBVIOUS
<1>1. branch \in [base : Bases, head : Heads]
  BY PipelineAssumption DEF Init, Bases
<1>2. Sound(description, attended) /\ Sound(earlier, attended)
  BY DEF Init, Sound, Descriptions
<1> QED
  BY <1>1, <1>2 DEF Init, IInv, PeopleOK, JobOK, ListingOK, AttentionOK, ConfigurationOK, WrittenOK,
     UpdateOK, TextKept, ReportTruthful, NoJob, Stages, Unplanned, Concluding

\* What a report may say: ReportTruthful of one report.
Truthful(r) ==
    r # None =>
        /\ r.publication.state \notin {"completed", "failed"} => r.written = {}
        /\ ExitCode(r.publication) = 0 /\ "overview" \in r.written =>
                r.shown # None /\ r.shown.head = r.head

\* A failed publication claims nothing (publish_with_checkpoint).
LEMMA FailureTruthful == ASSUME NEW j PROVE Truthful(Failure(j))
BY DEF Truthful, Failure, Ended, Published, GitHubFailure, ExitCode

\* A job that wrote nothing may report anything.
LEMMA UnwrittenTruthful ==
    ASSUME NEW j, j.written = {}, NEW publication
    PROVE  Truthful(Ended(j, publication)) /\ Truthful(Diagnostic(j))
BY DEF Truthful, Diagnostic, Ended

\* A completed publication shows the block of the head it reports on.
LEMMA CompletedTruthful ==
    ASSUME NEW j, Checkpoint(j) \in Checkpoints
    PROVE  /\ Truthful(Completed(j))
           /\ "overview" \notin j.written => Truthful([Completed(j) EXCEPT !.shown = None])
BY NoneAssumption DEF Truthful, Completed, Ended, Published, ExitCode, Checkpoint

\* Nothing is claimed between two jobs.
LEMMA NoJobInvariant ==
    ASSUME job' = NoJob, PeopleOK', TextKept', ReportTruthful'
    PROVE  IInv'
BY DEF IInv, JobOK, ListingOK, AttentionOK, ConfigurationOK, WrittenOK, UpdateOK, NoJob, Stages,
       Unplanned, Concluding

\* A job that ends without a last write leaves the rest as it is.
LEMMA EndInvariant ==
    ASSUME IInv, NEW r, End(r), Truthful(r), UNCHANGED <<people, ghosts>>
    PROVE  IInv'
<1>1. PeopleOK' /\ TextKept'
  BY DEF IInv, PeopleOK, TextKept, people, ghosts
<1>2. ReportTruthful'
  BY DEF End, Truthful, ReportTruthful
<1> QED
  BY <1>1, <1>2, NoJobInvariant DEF End

\* What is known of a job that is past its first step.
LEMMA RunningJob ==
    ASSUME IInv, job.stage \in Stages
    PROVE  /\ job = [f \in JobFields |-> job[f]] /\ job.policy \in Nat
           /\ job.stage # "started" =>
                /\ job.base \in Bases /\ job.head \in Heads
                /\ job.setup.host = "github" => Sound(job.description, attended)
BY DEF IInv, JobOK, NoJob, Stages, Unplanned, Concluding

\* The part of the invariant that is not about the job.
LEMMA Quiet ==
    ASSUME IInv, UNCHANGED <<people, ghosts, result>>
    PROVE  PeopleOK' /\ TextKept' /\ ReportTruthful'
BY DEF IInv, PeopleOK, TextKept, ReportTruthful, people, ghosts

LEMMA StartStep == IInv /\ Start => IInv'
<1> SUFFICES ASSUME IInv, Start PROVE IInv'
  OBVIOUS
<1>1. UNCHANGED <<people, ghosts>>
  BY DEF Start
<1>2. PICK s \in Setups :
        \/ job' = Prepared(s) /\ result' = None
        \/ \E publication : End(Untouched(publication))
  BY DEF Start
<1>3. CASE \E publication : End(Untouched(publication))
  <2>1. PICK publication : End(Untouched(publication))
    BY <1>3
  <2>2. Truthful(Untouched(publication))
    BY DEF Truthful, Untouched
  <2> QED
    BY <2>1, <2>2, <1>1, EndInvariant
<1>4. CASE job' = Prepared(s) /\ result' = None
  <2>1. PeopleOK' /\ TextKept' /\ ReportTruthful'
    BY <1>1, <1>4 DEF IInv, PeopleOK, TextKept, ReportTruthful, people, ghosts
  <2>2. /\ job' = [f \in JobFields |-> job'[f]]
        /\ job'.stage = "started" /\ job'.policy = policy /\ job'.attention = Full
        /\ job'.written = {}
    BY <1>4 DEF Prepared, JobFields
  <2>3. JobOK'
    BY <1>1, <2>2 DEF IInv, PeopleOK, JobOK, Stages, Unplanned, people
  <2>4. ListingOK' /\ AttentionOK' /\ ConfigurationOK' /\ WrittenOK' /\ UpdateOK'
    BY <2>2 DEF ListingOK, AttentionOK, ConfigurationOK, WrittenOK, UpdateOK, Full, Stages,
                Unplanned, Concluding
  <2> QED
    BY <2>1, <2>3, <2>4 DEF IInv
<1> QED
  BY <1>2, <1>3, <1>4

LEMMA AcquireGitLabStep == IInv /\ AcquireGitLab => IInv'
<1> SUFFICES ASSUME IInv, AcquireGitLab PROVE IInv'
  OBVIOUS
<1>1. job.stage = "started" /\ job.stage \in Stages /\ job.setup.host = "gitlab"
  BY DEF AcquireGitLab, Stages, Unplanned
<1>2. job = [f \in JobFields |-> job[f]] /\ job.policy \in Nat
  BY <1>1, RunningJob
<1>3. CASE End(Diagnostic(job)) /\ UNCHANGED <<people, ghosts>>
  BY <1>1, <1>3, EndInvariant, UnwrittenTruthful DEF IInv, WrittenOK
<1>4. CASE /\ job' = [job EXCEPT !.stage = "acquired", !.checkout = None,
                                 !.base = branch.base, !.head = branch.head, !.listed = branch]
           /\ UNCHANGED <<people, ghosts, result>>
  <2>1. PeopleOK' /\ TextKept' /\ ReportTruthful'
    BY <1>4, Quiet
  <2>2. /\ job' = [f \in JobFields |-> job'[f]]
        /\ job'.stage = "acquired" /\ job'.listed = branch
        /\ job'.base = branch.base /\ job'.head = branch.head
        /\ job'.setup = job.setup /\ job'.policy = job.policy
        /\ job'.attention = job.attention /\ job'.written = job.written
    BY <1>2, <1>4 DEF JobFields
  <2>3. branch.base \in Bases /\ branch.head \in Heads
        /\ branch = [base |-> branch.base, head |-> branch.head]
    BY DEF IInv, PeopleOK
  <2>4. JobOK'
    BY <1>1, <1>2, <2>2, <2>3 DEF JobOK, Stages, Unplanned
  <2>5. ListingOK' /\ AttentionOK' /\ ConfigurationOK' /\ WrittenOK' /\ UpdateOK'
    BY <1>1, <2>2, <2>3 DEF IInv, ListingOK, AttentionOK, ConfigurationOK, WrittenOK, UpdateOK, Full,
       Stages, Unplanned, Concluding
  <2> QED
    BY <2>1, <2>4, <2>5 DEF IInv
<1> QED
  BY <1>3, <1>4 DEF AcquireGitLab

LEMMA ReadPullStep == IInv /\ ReadPull => IInv'
<1> SUFFICES ASSUME IInv, ReadPull PROVE IInv'
  OBVIOUS
<1>1. job.stage = "started" /\ job.stage \in Stages
  BY DEF ReadPull, Stages, Unplanned
<1>2. job = [f \in JobFields |-> job[f]] /\ job.policy \in Nat
  BY <1>1, RunningJob
<1>3. CASE End(Diagnostic(job)) /\ UNCHANGED <<people, ghosts>>
  BY <1>1, <1>3, EndInvariant, UnwrittenTruthful DEF IInv, WrittenOK
<1>4. CASE /\ job' = [job EXCEPT !.stage = "pull", !.base = branch.base,
                                 !.head = branch.head, !.moves = moves,
                                 !.description = description]
           /\ UNCHANGED <<people, ghosts, result>>
  <2>1. PeopleOK' /\ TextKept' /\ ReportTruthful'
    BY <1>4, Quiet
  <2>2. /\ job' = [f \in JobFields |-> job'[f]]
        /\ job'.stage = "pull" /\ job'.moves = moves /\ job'.description = description
        /\ job'.base = branch.base /\ job'.head = branch.head
        /\ job'.setup = job.setup /\ job'.policy = job.policy
        /\ job'.attention = job.attention /\ job'.written = job.written
    BY <1>2, <1>4 DEF JobFields
  <2>3. /\ branch.base \in Bases /\ branch.head \in Heads
        /\ branch = [base |-> branch.base, head |-> branch.head]
        /\ moves \in Nat /\ Sound(description, attended)
    BY DEF IInv, PeopleOK
  <2>4. UNCHANGED <<branch, moves, attended>>
    BY <1>4 DEF people, ghosts
  <2>5. JobOK'
    BY <1>2, <2>2, <2>3, <2>4 DEF JobOK, Stages, Unplanned
  <2>6. ListingOK'
    BY <2>2, <2>3, <2>4 DEF ListingOK
  <2>7. AttentionOK' /\ ConfigurationOK' /\ WrittenOK' /\ UpdateOK'
    BY <1>1, <2>2 DEF IInv, AttentionOK, ConfigurationOK, WrittenOK, UpdateOK, Full,
       Stages, Unplanned, Concluding
  <2> QED
    BY <2>1, <2>5, <2>6, <2>7 DEF IInv
<1> QED
  BY <1>3, <1>4 DEF ReadPull

LEMMA ListFilesStep == IInv /\ ListFiles => IInv'
<1> SUFFICES ASSUME IInv, ListFiles PROVE IInv'
  OBVIOUS
<1>1. job.stage = "pull" /\ job.stage \in Stages
  BY DEF ListFiles, Stages, Unplanned
<1>2. /\ job = [f \in JobFields |-> job[f]] /\ job.policy \in Nat
      /\ job.base \in Bases /\ job.head \in Heads
      /\ job.setup.host = "github" => Sound(job.description, attended)
  BY <1>1, RunningJob
<1>3. UNCHANGED <<people, ghosts, result>> /\ UNCHANGED <<branch, moves, attended>>
  BY DEF ListFiles, people, ghosts
<1>4. PeopleOK' /\ TextKept' /\ ReportTruthful'
  BY <1>3, Quiet
<1>5. /\ job' = [f \in JobFields |-> job'[f]]
      /\ job'.stage = "files" /\ job'.listed = branch
      /\ job'.base = job.base /\ job'.head = job.head /\ job'.moves = job.moves
      /\ job'.policy = job.policy /\ job'.setup = job.setup
      /\ job'.description = job.description /\ job'.attention = job.attention
      /\ job'.written = job.written
  BY <1>2 DEF ListFiles, JobFields
<1>6. JobOK'
  BY <1>2, <1>3, <1>5 DEF JobOK, Stages, Unplanned
<1>7. ListingOK'
  BY <1>1, <1>3, <1>5 DEF IInv, ListingOK, PeopleOK
<1>8. AttentionOK' /\ ConfigurationOK' /\ WrittenOK' /\ UpdateOK'
  BY <1>1, <1>3, <1>5 DEF IInv, AttentionOK, ConfigurationOK, WrittenOK, UpdateOK, Full,
     Stages, Unplanned, Concluding
<1> QED
  BY <1>4, <1>6, <1>7, <1>8 DEF IInv

LEMMA ConfirmPullStep == IInv /\ ConfirmPull => IInv'
<1> SUFFICES ASSUME IInv, ConfirmPull PROVE IInv'
  OBVIOUS
<1>1. job.stage = "files" /\ job.stage \in Stages
  BY DEF ConfirmPull, Stages, Unplanned
<1>2. /\ job = [f \in JobFields |-> job[f]] /\ job.policy \in Nat
      /\ job.base \in Bases /\ job.head \in Heads
      /\ job.setup.host = "github" => Sound(job.description, attended)
  BY <1>1, RunningJob
<1>3. CASE End(Diagnostic(job)) /\ UNCHANGED <<people, ghosts>>
  BY <1>1, <1>3, EndInvariant, UnwrittenTruthful DEF IInv, WrittenOK
<1>4. CASE /\ SamePull /\ job' = [job EXCEPT !.stage = "acquired", !.checkout = None]
           /\ UNCHANGED <<people, ghosts, result>>
  <2>1. PeopleOK' /\ TextKept' /\ ReportTruthful'
    BY <1>4, Quiet
  <2>2. /\ job' = [f \in JobFields |-> job'[f]]
        /\ job'.stage = "acquired" /\ job'.listed = job.listed
        /\ job'.base = job.base /\ job'.head = job.head /\ job'.moves = job.moves
        /\ job'.policy = job.policy /\ job'.setup = job.setup
        /\ job'.description = job.description /\ job'.attention = job.attention
        /\ job'.written = job.written
    BY <1>2, <1>4 DEF JobFields
  <2>3. UNCHANGED <<branch, moves, attended>>
    BY <1>4 DEF people, ghosts
  <2>4. JobOK'
    BY <1>2, <2>2, <2>3 DEF JobOK, Stages, Unplanned
  <2>5. ListingOK'
    BY <1>1, <1>4, <2>2, <2>3 DEF IInv, ListingOK, SamePull
  <2>6. AttentionOK' /\ ConfigurationOK' /\ WrittenOK' /\ UpdateOK'
    BY <1>1, <2>2 DEF IInv, AttentionOK, ConfigurationOK, WrittenOK, UpdateOK, Full,
       Stages, Unplanned, Concluding
  <2> QED
    BY <2>1, <2>4, <2>5, <2>6 DEF IInv
<1> QED
  BY <1>3, <1>4 DEF ConfirmPull

LEMMA ReadHistoryStep == IInv /\ ReadHistory => IInv'
<1> SUFFICES ASSUME IInv, ReadHistory PROVE IInv'
  OBVIOUS
<1>1. job.stage = "acquired" /\ job.stage \in Stages
  BY DEF ReadHistory, Stages, Unplanned
<1>2. /\ job = [f \in JobFields |-> job[f]] /\ job.policy \in Nat
      /\ job.base \in Bases /\ job.head \in Heads
      /\ job.setup.host = "github" => Sound(job.description, attended)
  BY <1>1, RunningJob
<1>3. UNCHANGED <<people, ghosts, result>> /\ UNCHANGED attended
  BY DEF ReadHistory, people, ghosts
<1>4. PeopleOK' /\ TextKept' /\ ReportTruthful'
  BY <1>3, Quiet
<1>5. /\ job' = [f \in JobFields |-> job'[f]]
      /\ job'.stage = "history" /\ job'.base = job.base /\ job'.head = job.head
      /\ job'.policy = job.policy /\ job'.setup = job.setup
      /\ job'.description = job.description /\ job'.attention = job.attention
      /\ job'.written = job.written
  BY <1>2 DEF ReadHistory, JobFields
<1>6. JobOK'
  BY <1>2, <1>3, <1>5 DEF JobOK, Stages, Unplanned
<1>7. ListingOK' /\ AttentionOK' /\ ConfigurationOK' /\ WrittenOK' /\ UpdateOK'
  BY <1>1, <1>3, <1>5 DEF IInv, ListingOK, AttentionOK, ConfigurationOK, WrittenOK, UpdateOK, Full,
     Stages, Unplanned, Concluding
<1> QED
  BY <1>4, <1>6, <1>7 DEF IInv

\* The block a job goes by is one that stands in a description.
LEMMA HintSound ==
    ASSUME IInv, job.stage = "history", CheckpointHint(job) # None
    PROVE  CheckpointHint(job) \in Checkpoints /\ Covers(CheckpointHint(job), attended)
<1>1. job.stage \in Stages
  BY DEF Stages, Unplanned
<1>2. CASE job.setup.host = "github"
  <2>1. Sound(job.description, attended) /\ CheckpointHint(job) = ExtractCheckpoint(job.description)
    BY <1>1, <1>2, RunningJob DEF CheckpointHint
  <2> QED
    BY <2>1, ExtractSound
<1>3. CASE job.setup.host # "github"
  <2>1. Sound(description, attended) /\ CheckpointHint(job) = ExtractCheckpoint(description)
    BY <1>3 DEF CheckpointHint, IInv, PeopleOK
  <2> QED
    BY <2>1, ExtractSound
<1> QED
  BY <1>2, <1>3

LEMMA PlanStep == IInv /\ Plan => IInv'
<1> SUFFICES ASSUME IInv, Plan PROVE IInv'
  OBVIOUS
<1>1. job.stage = "history" /\ job.stage \in Stages
  BY DEF Plan, Stages, Unplanned
<1>2. /\ job = [f \in JobFields |-> job[f]] /\ job.policy \in Nat
      /\ job.base \in Bases /\ job.head \in Heads
      /\ job.setup.host = "github" => Sound(job.description, attended)
  BY <1>1, RunningJob
<1>3. UNCHANGED <<people, ghosts>> /\ UNCHANGED attended
  BY DEF Plan, people, ghosts
<1> DEFINE a == PlanAttention(CheckpointHint(job), job.base, job.head, job.policy)
<1>4. \/ End(Diagnostic(job))
      \/ /\ ConfigurationFits(job) /\ Selected(job.base, job.head) = {}
         /\ job' = [job EXCEPT !.stage = "reviewed", !.report = NothingSelected]
         /\ UNCHANGED result
      \/ /\ ConfigurationFits(job)
         /\ job' = [job EXCEPT !.stage = "planned", !.attention = a]
         /\ UNCHANGED result
  BY DEF Plan
<1>5. CASE End(Diagnostic(job))
  BY <1>1, <1>3, <1>5, EndInvariant, UnwrittenTruthful DEF IInv, WrittenOK
<1>6. CASE /\ ConfigurationFits(job) /\ Selected(job.base, job.head) = {}
           /\ job' = [job EXCEPT !.stage = "reviewed", !.report = NothingSelected]
           /\ UNCHANGED result
  <2>1. PeopleOK' /\ TextKept' /\ ReportTruthful'
    BY <1>3, <1>6, Quiet
  <2>2. /\ job' = [f \in JobFields |-> job'[f]]
        /\ job'.stage = "reviewed" /\ job'.base = job.base /\ job'.head = job.head
        /\ job'.policy = job.policy /\ job'.setup = job.setup /\ job'.config = job.config
        /\ job'.description = job.description /\ job'.attention = job.attention
        /\ job'.written = job.written
    BY <1>2, <1>6 DEF JobFields
  <2>3. JobOK'
    BY <1>2, <1>3, <2>2 DEF JobOK, Stages, Concluding
  <2>4. AllAttended(job'.policy, job'.base, job'.head, attended')
    BY <1>6, <2>2 DEF AllAttended
  <2>5. AttentionOK'
    BY <1>1, <2>2, <2>4 DEF IInv, AttentionOK, Full, Stages, Unplanned, Concluding
  <2>6. ListingOK' /\ ConfigurationOK' /\ WrittenOK' /\ UpdateOK'
    BY <1>1, <1>6, <2>2 DEF IInv, ListingOK, ConfigurationOK, ConfigurationFits, WrittenOK, UpdateOK,
       Stages, Unplanned, Concluding
  <2> QED
    BY <2>1, <2>3, <2>5, <2>6 DEF IInv
<1>7. CASE /\ ConfigurationFits(job)
           /\ job' = [job EXCEPT !.stage = "planned", !.attention = a]
           /\ UNCHANGED result
  <2>1. PeopleOK' /\ TextKept' /\ ReportTruthful'
    BY <1>3, <1>7, Quiet
  <2>2. /\ job' = [f \in JobFields |-> job'[f]]
        /\ job'.stage = "planned" /\ job'.base = job.base /\ job'.head = job.head
        /\ job'.policy = job.policy /\ job'.setup = job.setup /\ job'.config = job.config
        /\ job'.description = job.description /\ job'.attention = a
        /\ job'.written = job.written
    BY <1>2, <1>7 DEF JobFields
  <2>3. JobOK'
    BY <1>2, <1>3, <2>2 DEF JobOK, Stages
  <2>4. /\ a.kind \in {"Full", "Incremental"} /\ a.generation \in Nat
        /\ a.kind = "Incremental" =>
            \A p \in Selected(job.base, job.head) \ a.paths :
                <<job.policy, p, Tree[job.base][p], Tree[job.head][p]>> \in attended
    BY <1>1, HintSound, PlanCovers
  <2>5. AttentionOK'
    BY <1>3, <2>2, <2>4 DEF AttentionOK, Stages, Unplanned, Concluding
  <2>6. ListingOK' /\ ConfigurationOK' /\ WrittenOK' /\ UpdateOK'
    BY <1>1, <1>7, <2>2 DEF IInv, ListingOK, ConfigurationOK, ConfigurationFits, WrittenOK, UpdateOK,
       Stages, Unplanned, Concluding
  <2> QED
    BY <2>1, <2>3, <2>5, <2>6 DEF IInv
<1> QED
  BY <1>4, <1>5, <1>6, <1>7

LEMMA ReviewStep == IInv /\ Review => IInv'
<1> SUFFICES ASSUME IInv, Review PROVE IInv'
  OBVIOUS
<1>1. job.stage = "planned" /\ job.stage \in Stages
  BY DEF Review, Stages
<1>2. /\ job = [f \in JobFields |-> job[f]] /\ job.policy \in Nat
      /\ job.base \in Bases /\ job.head \in Heads
      /\ job.setup.host = "github" => Sound(job.description, attended)
  BY <1>1, RunningJob
<1>3. UNCHANGED <<branch, description, earlier, policy, moves, edits, latest, raced, result>>
  BY DEF Review, people
<1> DEFINE told == {<<job.policy, p, Tree[job.base][p], Tree[job.head][p]>> :
                        p \in Attention(job.attention, job.base, job.head)}
<1>4. PICK o \in Outcomes :
        /\ job' = [job EXCEPT !.stage = "reviewed", !.report = ReportOf(o)]
        /\ attended' = IF CheckpointComplete(ReportOf(o)) THEN attended \cup told ELSE attended
  BY DEF Review
<1>5. attended \subseteq attended'
  BY <1>4
<1>6. PeopleOK' /\ TextKept' /\ ReportTruthful'
  BY <1>3, <1>5, SoundGrows DEF IInv, PeopleOK, TextKept, ReportTruthful
<1>7. /\ job' = [f \in JobFields |-> job'[f]]
      /\ job'.stage = "reviewed" /\ job'.base = job.base /\ job'.head = job.head
      /\ job'.policy = job.policy /\ job'.setup = job.setup /\ job'.config = job.config
      /\ job'.description = job.description /\ job'.attention = job.attention
      /\ job'.written = job.written /\ job'.report = ReportOf(o)
  BY <1>2, <1>4 DEF JobFields
<1>8. JobOK'
  BY <1>2, <1>5, <1>7, SoundGrows DEF JobOK, Stages, Concluding
<1>9. ASSUME CheckpointComplete(ReportOf(o))
      PROVE  AllAttended(job.policy, job.base, job.head, attended')
  <2>1. attended' = attended \cup told
    BY <1>4, <1>9
  <2>2. SUFFICES ASSUME NEW p \in Selected(job.base, job.head)
                 PROVE  <<job.policy, p, Tree[job.base][p], Tree[job.head][p]>> \in attended'
    BY DEF AllAttended
  <2>3. CASE p \in Attention(job.attention, job.base, job.head)
    BY <2>1, <2>3
  <2>4. CASE p \notin Attention(job.attention, job.base, job.head)
    <3>1. job.attention.kind = "Incremental" /\ p \notin job.attention.paths
      BY <1>1, <2>4 DEF Attention, IInv, AttentionOK
    <3> QED
      BY <1>1, <2>1, <3>1 DEF IInv, AttentionOK
  <2> QED
    BY <2>3, <2>4
<1>10. AttentionOK'
  BY <1>1, <1>5, <1>7, <1>9 DEF IInv, AttentionOK, Stages, Unplanned, Concluding
<1>11. ListingOK' /\ ConfigurationOK' /\ WrittenOK' /\ UpdateOK'
  BY <1>1, <1>7 DEF IInv, ListingOK, ConfigurationOK, WrittenOK, UpdateOK, Stages, Unplanned, Concluding
<1> QED
  BY <1>6, <1>8, <1>10, <1>11 DEF IInv

\* A later step of publication that changes nothing but what is listed.
LEMMA ConcludingStep ==
    ASSUME IInv, job.stage \in Concluding, job'.stage \in Concluding,
           job' = [f \in JobFields |-> job'[f]],
           job'.base = job.base, job'.head = job.head, job'.policy = job.policy,
           job'.setup = job.setup, job'.config = job.config,
           job'.description = job.description, job'.attention = job.attention,
           job'.report = job.report, UNCHANGED <<people, ghosts, result>>,
           WrittenOK', UpdateOK'
    PROVE  IInv'
<1>1. job.stage \in Stages /\ job.stage # "started" /\ job.stage \notin Unplanned
  BY DEF Stages, Unplanned, Concluding
<1>2. /\ job.policy \in Nat /\ job.base \in Bases /\ job.head \in Heads
      /\ job.setup.host = "github" => Sound(job.description, attended)
  BY <1>1, RunningJob
<1>3. UNCHANGED attended
  BY DEF ghosts
<1>4. PeopleOK' /\ TextKept' /\ ReportTruthful'
  BY Quiet
<1>5. JobOK'
  BY <1>2, <1>3 DEF JobOK, Stages
<1>6. ListingOK' /\ ConfigurationOK'
  BY DEF IInv, ListingOK, ConfigurationOK, Concluding
<1>7. AttentionOK'
  BY <1>1, <1>3 DEF IInv, AttentionOK, Concluding, Unplanned
<1> QED
  BY <1>4, <1>5, <1>6, <1>7 DEF IInv

LEMMA GateStep == IInv /\ Gate => IInv'
<1> SUFFICES ASSUME IInv, Gate PROVE IInv'
  OBVIOUS
<1>1. job.stage = "reviewed" /\ job.stage \in Stages /\ job.stage \in Concluding /\ job.written = {}
  BY DEF Gate, IInv, WrittenOK, Stages, Concluding
<1>2. job = [f \in JobFields |-> job[f]]
  BY <1>1, RunningJob
<1>3. UNCHANGED <<people, ghosts>>
  BY DEF Gate
<1>4. CASE job' = [job EXCEPT !.stage = "findings"] /\ UNCHANGED result
  <2>1. /\ job' = [f \in JobFields |-> job'[f]]
        /\ job'.stage = "findings" /\ job'.base = job.base /\ job'.head = job.head
        /\ job'.policy = job.policy /\ job'.setup = job.setup /\ job'.config = job.config
        /\ job'.description = job.description /\ job'.attention = job.attention
        /\ job'.report = job.report /\ job'.written = job.written
    BY <1>2, <1>4 DEF JobFields
  <2>2. WrittenOK' /\ UpdateOK'
    BY <1>1, <2>1 DEF WrittenOK, UpdateOK
  <2> QED
    BY <1>1, <1>3, <1>4, <2>1, <2>2, ConcludingStep DEF Concluding
<1>5. CASE \E closed : End(Ended(job, closed))
  BY <1>1, <1>3, <1>5, EndInvariant, UnwrittenTruthful
<1> QED
  BY <1>4, <1>5 DEF Gate

LEMMA PublishFindingsStep == IInv /\ PublishFindings => IInv'
<1> SUFFICES ASSUME IInv, PublishFindings PROVE IInv'
  OBVIOUS
<1>1. job.stage = "findings" /\ job.stage \in Stages /\ job.stage \in Concluding /\ job.written = {}
  BY DEF PublishFindings, IInv, WrittenOK, Stages, Concluding
<1>2. job = [f \in JobFields |-> job[f]]
  BY <1>1, RunningJob
<1>3. UNCHANGED <<people, ghosts>>
  BY DEF PublishFindings
<1>4. \/ End(Failure(job))
      \/ /\ UNCHANGED result
         /\ \/ job' = [job EXCEPT !.stage = "overview"]
            \/ job' = [job EXCEPT !.stage = "overview", !.attempts = @ + 1,
                                  !.written = @ \cup {"finding"}]
  BY DEF PublishFindings
<1>5. CASE End(Failure(job))
  BY <1>3, <1>5, EndInvariant, FailureTruthful
<1>6. CASE /\ UNCHANGED result
           /\ \/ job' = [job EXCEPT !.stage = "overview"]
              \/ job' = [job EXCEPT !.stage = "overview", !.attempts = @ + 1,
                                    !.written = @ \cup {"finding"}]
  <2>1. /\ job' = [f \in JobFields |-> job'[f]]
        /\ job'.stage = "overview" /\ job'.base = job.base /\ job'.head = job.head
        /\ job'.policy = job.policy /\ job'.setup = job.setup /\ job'.config = job.config
        /\ job'.description = job.description /\ job'.attention = job.attention
        /\ job'.report = job.report /\ job'.written \in {{}, {"finding"}}
    BY <1>1, <1>2, <1>6 DEF JobFields
  <2>2. WrittenOK' /\ UpdateOK'
    BY <2>1 DEF WrittenOK, UpdateOK
  <2> QED
    BY <1>1, <1>3, <1>6, <2>1, <2>2, ConcludingStep DEF Concluding
<1> QED
  BY <1>4, <1>5, <1>6

LEMMA ReadOverviewStep == IInv /\ ReadOverview => IInv'
<1> SUFFICES ASSUME IInv, ReadOverview PROVE IInv'
  OBVIOUS
<1>1. /\ job.stage = "overview" /\ job.stage \in Stages /\ job.stage \in Concluding
      /\ "overview" \notin job.written
  BY DEF ReadOverview, IInv, WrittenOK, Stages, Concluding
<1>2. /\ job = [f \in JobFields |-> job[f]] /\ job.policy \in Nat
      /\ job.base \in Bases /\ job.head \in Heads
  BY <1>1, RunningJob
<1>3. UNCHANGED <<people, ghosts>> /\ UNCHANGED <<attended, raced, latest>>
  BY DEF ReadOverview, people, ghosts
<1>4. Checkpoint(job) \in Checkpoints /\ Covers(Checkpoint(job), attended)
  <2>1. /\ job.attention.kind \in {"Full", "Incremental"} /\ job.attention.generation \in Nat
        /\ CheckpointComplete(job.report) => AllAttended(job.policy, job.base, job.head, attended)
    BY <1>1 DEF IInv, AttentionOK
  <2> QED
    BY <1>2, <2>1, CheckpointSound
<1> DEFINE update == UpdateDescription(description, Checkpoint(job))
<1>5. \/ \E r : End(r) /\ Truthful(r)
      \/ /\ update # Malformed
         /\ job' = [job EXCEPT !.stage = "writing", !.update = update]
         /\ UNCHANGED result
  BY <1>1, <1>4, FailureTruthful, CompletedTruthful DEF ReadOverview, CurrentDescription
<1>6. CASE \E r : End(r) /\ Truthful(r)
  BY <1>3, <1>6, EndInvariant
<1>7. CASE /\ update # Malformed
           /\ job' = [job EXCEPT !.stage = "writing", !.update = update]
           /\ UNCHANGED result
  <2>1. /\ job' = [f \in JobFields |-> job'[f]]
        /\ job'.stage = "writing" /\ job'.base = job.base /\ job'.head = job.head
        /\ job'.policy = job.policy /\ job'.setup = job.setup /\ job'.config = job.config
        /\ job'.description = job.description /\ job'.attention = job.attention
        /\ job'.report = job.report /\ job'.written = job.written /\ job'.update = update
    BY <1>2, <1>7 DEF JobFields
  <2>2. Sound(update, attended) /\ update.text = description.text
    BY <1>4, <1>7, UpdateSound DEF IInv, PeopleOK
  <2>3. WrittenOK' /\ UpdateOK'
    BY <1>1, <1>3, <2>1, <2>2 DEF IInv, TextKept, WrittenOK, UpdateOK
  <2> QED
    BY <1>1, <1>3, <1>7, <2>1, <2>3, ConcludingStep DEF Concluding
<1> QED
  BY <1>5, <1>6, <1>7

LEMMA WriteOverviewStep == IInv /\ WriteOverview => IInv'
<1> SUFFICES ASSUME IInv, WriteOverview PROVE IInv'
  OBVIOUS
<1>1. job.stage = "writing" /\ job.stage \in Stages
  BY DEF WriteOverview, Stages, Concluding
<1>2. /\ job = [f \in JobFields |-> job[f]] /\ job.policy \in Nat
      /\ job.base \in Bases /\ job.head \in Heads
  BY <1>1, RunningJob
<1>3. /\ UNCHANGED <<branch, policy, moves, edits, latest, raced, attended>>
      /\ description' = job.update /\ earlier' = description
  BY DEF WriteOverview, ghosts
<1> DEFINE j == [job EXCEPT !.attempts = @ + 1, !.written = @ \cup {"overview"}]
<1>4. Checkpoint(j) \in Checkpoints
  <2>1. /\ job.attention.kind \in {"Full", "Incremental"} /\ job.attention.generation \in Nat
        /\ CheckpointComplete(job.report) => AllAttended(job.policy, job.base, job.head, attended)
    BY <1>1 DEF IInv, AttentionOK, Concluding
  <2>2. Checkpoint(job) \in Checkpoints
    BY <1>2, <2>1, CheckpointSound
  <2>3. Checkpoint(j) = Checkpoint(job)
    BY <1>2 DEF Checkpoint, JobFields
  <2> QED
    BY <2>2, <2>3
<1>5. job' = NoJob /\ Truthful(result')
  <2>1. Truthful(Completed(j)) /\ Truthful(Failure(j))
    BY <1>4, FailureTruthful, CompletedTruthful
  <2>2. End(Completed(j)) \/ End(Failure(j))
    BY DEF WriteOverview
  <2> QED
    BY <2>1, <2>2 DEF End
<1>6. PeopleOK' /\ TextKept'
  BY <1>1, <1>3 DEF IInv, PeopleOK, UpdateOK, TextKept
<1>7. ReportTruthful'
  BY <1>5 DEF Truthful, ReportTruthful
<1> QED
  BY <1>5, <1>6, <1>7, NoJobInvariant

LEMMA UnreachableStep == IInv /\ Unreachable => IInv'
<1> SUFFICES ASSUME IInv, Unreachable PROVE IInv'
  OBVIOUS
<1>1. UNCHANGED <<people, ghosts>>
  BY DEF Unreachable
<1>2. CASE End(Failure(job))
  BY <1>1, <1>2, EndInvariant, FailureTruthful
<1>3. CASE job.stage \in Unplanned /\ End(Diagnostic(job))
  <2>1. job.written = {}
    BY <1>3 DEF IInv, WrittenOK, Stages, Unplanned
  <2> QED
    BY <1>1, <1>3, <2>1, EndInvariant, UnwrittenTruthful
<1> QED
  BY <1>2, <1>3 DEF Unreachable, Unplanned

LEMMA KillStep == IInv /\ Kill => IInv'
<1> SUFFICES ASSUME IInv, Kill PROVE IInv'
  OBVIOUS
<1> QED
  BY Quiet, NoJobInvariant DEF Kill

\* A step of the people leaves the job and what was attended to alone.
LEMMA PeopleInvariant ==
    ASSUME IInv, UNCHANGED <<job, result, attended>>, PeopleOK', TextKept', ListingOK', UpdateOK'
    PROVE  IInv'
BY DEF IInv, JobOK, AttentionOK, ConfigurationOK, WrittenOK, ReportTruthful

LEMMA MovesStep ==
    ASSUME IInv, NEW b \in [base : Bases, head : Heads], Moves(b)
    PROVE  IInv'
<1>1. /\ UNCHANGED <<job, result, attended, description, earlier, policy, edits, latest, raced>>
      /\ branch' = b /\ moves' = moves + 1 /\ b # branch
  BY DEF Moves, ghosts
<1>2. PeopleOK' /\ TextKept' /\ UpdateOK'
  BY <1>1 DEF IInv, PeopleOK, TextKept, UpdateOK
<1>3. ListingOK'
  BY <1>1 DEF IInv, PeopleOK, ListingOK
<1> QED
  BY <1>1, <1>2, <1>3, PeopleInvariant

LEMMA PushStep == IInv /\ Push => IInv'
<1> SUFFICES ASSUME IInv, Push PROVE IInv'
  OBVIOUS
<1>1. PICK h \in Heads : \E b \in BasesOf[h] : Moves([base |-> b, head |-> h])
  BY DEF Push
<1>2. PICK b \in BasesOf[h] : Moves([base |-> b, head |-> h])
  BY <1>1
<1>3. [base |-> b, head |-> h] \in [base : Bases, head : Heads]
  BY DEF Bases
<1> QED
  BY <1>2, <1>3, MovesStep

LEMMA RetargetStep == IInv /\ Retarget => IInv'
<1> SUFFICES ASSUME IInv, Retarget PROVE IInv'
  OBVIOUS
<1>1. PICK b \in BasesOf[branch.head] : Moves([branch EXCEPT !.base = b])
  BY DEF Retarget
<1>2. branch \in [base : Bases, head : Heads]
  BY DEF IInv, PeopleOK
<1>3. [branch EXCEPT !.base = b] \in [base : Bases, head : Heads]
  BY <1>2 DEF Bases
<1> QED
  BY <1>1, <1>3, MovesStep

LEMMA EditsStep ==
    ASSUME IInv, NEW d, Sound(d, attended), Edits(d)
    PROVE  IInv'
<1>1. /\ UNCHANGED <<job, result, attended, branch, earlier, policy, moves>>
      /\ description' = d /\ latest' = d.text /\ edits' = edits + 1
      /\ raced' = (job # NoJob /\ job.stage = "writing")
  BY DEF Edits
<1>2. PeopleOK' /\ TextKept'
  BY <1>1 DEF IInv, PeopleOK, TextKept
<1>3. ListingOK'
  BY <1>1 DEF IInv, ListingOK
<1>4. UpdateOK'
  <2>1. ASSUME job.stage = "writing" PROVE raced' /\ Sound(job.update, attended)
    <3>1. job # NoJob
      BY <2>1 DEF NoJob
    <3>2. raced'
      BY <1>1, <2>1, <3>1
    <3> QED
      BY <2>1, <3>2 DEF IInv, UpdateOK
  <2> QED
    BY <1>1, <2>1 DEF UpdateOK
<1> QED
  BY <1>1, <1>2, <1>3, <1>4, PeopleInvariant

\* An element of a concatenation is one of its parts'.
LEMMA ConcatElements ==
    ASSUME NEW S, NEW s \in Seq(S), NEW t \in Seq(S), NEW i \in DOMAIN (s \o t)
    PROVE  \/ i \in DOMAIN s /\ (s \o t)[i] = s[i]
           \/ \E k \in DOMAIN t : (s \o t)[i] = t[k]
<1>1. /\ s \o t \in Seq(S) /\ Len(s \o t) = Len(s) + Len(t)
      /\ Len(s) \in Nat /\ Len(t) \in Nat
      /\ DOMAIN s = 1..Len(s) /\ DOMAIN t = 1..Len(t) /\ DOMAIN (s \o t) = 1..Len(s \o t)
  OBVIOUS
<1>2. i \in 1..(Len(s) + Len(t))
  BY <1>1
<1>3. CASE i <= Len(s)
  BY <1>1, <1>2, <1>3
<1>4. CASE i > Len(s)
  <2>1. i - Len(s) \in DOMAIN t
    BY <1>1, <1>2, <1>4
  <2>2. (s \o t)[i] = t[i - Len(s)]
    BY <1>1, <1>2, <1>4
  <2> QED
    BY <2>1, <2>2
<1> QED
  BY <1>1, <1>2, <1>3, <1>4

LEMMA EditTextStep == IInv /\ EditText => IInv'
<1> SUFFICES ASSUME IInv, EditText PROVE IInv'
  OBVIOUS
<1>1. Sound([description EXCEPT !.text = edits + 1], attended)
  BY DEF IInv, PeopleOK, Sound, Descriptions
<1> QED
  BY <1>1, EditsStep DEF EditText

LEMMA DeleteBlocksStep == IInv /\ DeleteBlocks => IInv'
<1> SUFFICES ASSUME IInv, DeleteBlocks PROVE IInv'
  OBVIOUS
<1> DEFINE d == [description EXCEPT !.blocks = <<>>]
<1>1. /\ description \in Descriptions
      /\ <<>> \in Seq(Checkpoints) /\ DOMAIN <<>> = {}
  BY DEF IInv, PeopleOK, Sound
<1>2. d \in Descriptions /\ d.blocks = <<>>
  BY <1>1 DEF Descriptions
<1>3. Sound(d, attended)
  BY <1>1, <1>2 DEF Sound
<1> QED
  BY <1>3, EditsStep DEF DeleteBlocks

LEMMA PasteBlocksStep == IInv /\ PasteBlocks => IInv'
<1> SUFFICES ASSUME IInv, PasteBlocks PROVE IInv'
  OBVIOUS
<1> DEFINE s == description.blocks
           t == earlier.blocks
<1>1. /\ description \in Descriptions
      /\ s \in Seq(Checkpoints) /\ \A i \in DOMAIN s : Covers(s[i], attended)
      /\ t \in Seq(Checkpoints) /\ \A i \in DOMAIN t : Covers(t[i], attended)
  BY DEF IInv, PeopleOK, Sound, Descriptions
<1>2. Edits([description EXCEPT !.blocks = s \o t])
  BY <1>1 DEF PasteBlocks, Descriptions
<1> HIDE DEF s, t
<1>3. s \o t \in Seq(Checkpoints)
  BY <1>1
<1>4. \A i \in DOMAIN (s \o t) : Covers((s \o t)[i], attended)
  BY <1>1, ConcatElements
<1> DEFINE d == [description EXCEPT !.blocks = s \o t]
<1>5. d \in Descriptions /\ d.blocks = s \o t
  BY <1>1, <1>3 DEF Descriptions
<1>6. Sound(d, attended)
  BY <1>4, <1>5 DEF Sound
<1> QED
  BY <1>2, <1>6, EditsStep

LEMMA RestoreStep == IInv /\ Restore => IInv'
BY EditsStep DEF Restore, IInv, PeopleOK

LEMMA DiscussStep == IInv /\ Discuss => IInv'
<1> SUFFICES ASSUME IInv, Discuss PROVE IInv'
  OBVIOUS
<1>1. job.stage = "reviewed" /\ job.stage \in Stages /\ job.stage \in Concluding /\ job.written = {}
  BY DEF Discuss, IInv, WrittenOK, Stages, Concluding
<1>2. job = [f \in JobFields |-> job[f]]
  BY <1>1, RunningJob
<1>3. /\ job' = [f \in JobFields |-> job'[f]]
      /\ job'.stage = "reviewed" /\ job'.base = job.base /\ job'.head = job.head
      /\ job'.policy = job.policy /\ job'.setup = job.setup /\ job'.config = job.config
      /\ job'.description = job.description /\ job'.attention = job.attention
      /\ job'.report = job.report /\ job'.written = job.written
      /\ UNCHANGED <<people, ghosts, result>>
  BY <1>2 DEF Discuss, JobFields
<1>4. WrittenOK' /\ UpdateOK'
  BY <1>1, <1>3 DEF WrittenOK, UpdateOK
<1> QED
  BY <1>1, <1>3, <1>4, ConcludingStep DEF Concluding

LEMMA UpgradeStep == IInv /\ Upgrade => IInv'
<1> SUFFICES ASSUME IInv, Upgrade PROVE IInv'
  OBVIOUS
<1>1. /\ UNCHANGED <<job, result, attended, branch, description, earlier, moves, edits, latest, raced>>
      /\ policy' = policy + 1
  BY DEF Upgrade, ghosts
<1>2. PeopleOK' /\ TextKept' /\ ListingOK' /\ UpdateOK'
  BY <1>1 DEF IInv, PeopleOK, TextKept, ListingOK, UpdateOK
<1> QED
  BY <1>1, <1>2, PeopleInvariant

\* Every step keeps the invariant.
LEMMA StepInvariant == IInv /\ [Next]_vars => IInv'
<1> SUFFICES ASSUME IInv, [Next]_vars PROVE IInv'
  OBVIOUS
<1>1. CASE UNCHANGED vars
  BY <1>1 DEF vars, IInv, PeopleOK, JobOK, ListingOK, AttentionOK, ConfigurationOK, WrittenOK,
     UpdateOK, TextKept, ReportTruthful
<1>2. CASE Start \/ AcquireGitLab \/ ReadPull \/ ListFiles \/ ConfirmPull \/ ReadHistory
  BY <1>2, StartStep, AcquireGitLabStep, ReadPullStep, ListFilesStep, ConfirmPullStep, ReadHistoryStep
<1>3. CASE Plan \/ Review \/ Gate \/ PublishFindings \/ ReadOverview \/ WriteOverview
  BY <1>3, PlanStep, ReviewStep, GateStep, PublishFindingsStep, ReadOverviewStep, WriteOverviewStep
<1>4. CASE Unreachable \/ Kill \/ Push \/ Retarget \/ EditText \/ DeleteBlocks
  BY <1>4, UnreachableStep, KillStep, PushStep, RetargetStep, EditTextStep, DeleteBlocksStep
<1>5. CASE PasteBlocks \/ Restore \/ Discuss \/ Upgrade
  BY <1>5, PasteBlocksStep, RestoreStep, DiscussStep, UpgradeStep
<1> QED
  BY <1>1, <1>2, <1>3, <1>4, <1>5 DEF Next

-----------------------------------------------------------------------------
(* The theorems.                                                           *)

\* The inductive invariant.
THEOREM Invariance == Spec => []IInv
<1> QED
  BY InitInvariant, StepInvariant, PTL DEF Spec

\* plan_attention never leaves out a path that no complete review under the
\* same reviewer was told to look at, whatever people do to the description.
THEOREM AttentionTheorem == Spec => []AttentionCovers
<1>1. IInv => AttentionCovers
  BY DEF IInv, JobOK, AttentionOK, AttentionCovers
<1> QED
  BY <1>1, Invariance, PTL

\* update_description and the two reads before it keep what people wrote.
THEOREM TextTheorem == Spec => []TextKept
<1>1. IInv => TextKept
  BY DEF IInv
<1> QED
  BY <1>1, Invariance, PTL

\* What publish_prepared_review reports is what the host has seen.
THEOREM ReportTheorem == Spec => []ReportTruthful
<1>1. IInv => ReportTruthful
  BY DEF IInv
<1> QED
  BY <1>1, Invariance, PTL

\* The two reads of acquire_github_review_context bind the files to the head.
THEOREM FilesTheorem == Spec => []FilesOfHead
<1>1. IInv => FilesOfHead
  BY DEF IInv, ListingOK, FilesOfHead
<1> QED
  BY <1>1, Invariance, PTL

\* run_async compares the base of the configuration with that of the snapshot.
THEOREM ConfigurationTheorem == Spec => []OwnConfiguration
<1>1. IInv => OwnConfiguration
  BY DEF IInv, ConfigurationOK, OwnConfiguration, Concluding
<1> QED
  BY <1>1, Invariance, PTL
-----------------------------------------------------------------------------
(* Authority.  Everything that opens the gate of publication is fixed when *)
(* the job is set up from its environment, so that it goes on holding of   *)
(* the setup until the job has written and reported.                       *)

\* A setup that may write: AuthorityKept of one setup.
Entitled(setup) ==
    /\ setup.enabled /\ ~setup.fork
    /\ setup.host = "gitlab" =>
        /\ setup.class = "Ready"
        /\ setup.address.header # "InvalidAccessToken"
        /\ setup.address.path = Transport!MergeRequestSegments(TheChange)

AuthorityOK ==
    /\ job.stage \in Stages => job.setup \in Setups /\ job.setup.host \in {"gitlab", "github"}
    /\ job.stage \in Stages \ {"started"} /\ job.setup.host = "gitlab" =>
        \E moved \in BOOLEAN : job.setup.acquires[moved]
    /\ job.stage \in {"findings", "overview", "writing"} => Entitled(job.setup)
    /\ result # None /\ result.written # {} => Entitled(result.setup)

\* load_gitlab_credentials names one of its sources.
LEMMA SourceKnown ==
    ASSUME NEW tokens, Context!LoadCredentials(tokens, {}).verdict = "accepted"
    PROVE  Context!LoadCredentials(tokens, {}).source
                \in {"RevootPrivateToken", "GitLabPrivateToken", "RevootBearerToken", "CiJobToken"}
<1> DEFINE set == {i \in DOMAIN Context!CredentialSources : tokens[Context!CredentialSources[i]] # Absent}
           first == CHOOSE i \in set : \A k \in set : i <= k
<1>1. DOMAIN Context!CredentialSources = 1..4
  BY DEF Context!CredentialSources
<1>2. set # {} /\ Context!LoadCredentials(tokens, {}).source = Context!CredentialSources[first]
  BY DEF Context!LoadCredentials
<1>3. first \in 1..4
  <2>1. \E i \in set : \A k \in set : i <= k
    <3> set \subseteq 1..4
      BY <1>1
    <3>1. CASE 1 \in set
      BY <3>1
    <3>2. CASE 1 \notin set /\ 2 \in set
      BY <3>2
    <3>3. CASE 1 \notin set /\ 2 \notin set /\ 3 \in set
      BY <3>3
    <3>4. CASE 1 \notin set /\ 2 \notin set /\ 3 \notin set
      BY <1>2, <3>4
    <3> QED
      BY <3>1, <3>2, <3>3, <3>4
  <2>2. first \in set
    BY <2>1, Zenon
  <2> QED
    BY <1>1, <2>2
<1> QED
  BY <1>2, <1>3 DEF Context!CredentialSources

\* classify_gitlab_ci_environment knows four classes.
LEMMA ClassKnown ==
    ASSUME NEW e
    PROVE  CiContext(e).class \in {"Missing", "Ambiguous", "ForkMismatch", "Ready"}
BY DEF CiContext, Context!Classify, Context!ClassifyProjects, Context!Classified

\* A job on GitLab is set up by acquire_gitlab_context.
LEMMA SetupKnown ==
    ASSUME NEW e, Setup(e).host = "gitlab"
    PROVE  \E remote, selected : Setup(e) = GitLabSetup(e, CiContext(e), remote, selected)
<1> DEFINE ci == CiContext(e)
           found == Discovered(e, ci.hint)
           remote == found.remote
           selected == Selection(e, ci, remote)
<1>1. \/ Setup(e) = GitHubSetup(e)
      \/ Entry(e, ci, found) \in {"skip", "local", "help"} /\ Setup(e) = NoSetup(Entry(e, ci, found))
      \/ Setup(e) = NoSetup("diagnostic")
      \/ Setup(e) = GitLabSetup(e, ci, remote, selected)
  <2>1. Setup(e) = SetupFound(e, ci, found)
    BY DEF Setup
  <2> HIDE DEF ci, found
  <2> QED
    BY <2>1 DEF SetupFound
<1>2. /\ GitHubSetup(e).host = "github"
      /\ \A host : NoSetup(host).host = host
  BY DEF GitHubSetup, NoSetup
<1> QED
  BY <1>1, <1>2

\* What the acquisition has checked: a credential, the selected merge request
\* against the API's answer, and the behaviour on forks.
LEMMA AcquisitionChecks ==
    ASSUME NEW e, NEW remote, NEW selected, NEW moved \in BOOLEAN,
           Acquisition(e, remote, selected, moved) = "accepted"
    PROVE  /\ Context!LoadCredentials(e.tokens, {}).verdict = "accepted"
           /\ selected.project.id = e.api.target.id /\ selected.iid = e.api.iid
           /\ ForkBehaviour(e.fork) \in {"Skip", "ReportOnly"}
<1>1. /\ Context!LoadCredentials(e.tokens, {}).verdict = "accepted"
      /\ Context!Mismatches(selected, Api(e, moved)) = {}
      /\ ForkBehaviour(e.fork) # Malformed
  BY DEF Acquisition, Refusal
<1>2. selected.project.id = e.api.target.id /\ selected.iid = e.api.iid
  <2>1. /\ Context!ProjectMismatches("ConfiguredProject", selected.project, e.api.target) = {}
        /\ Context!If(selected.iid # e.api.iid, "ConfiguredMergeRequestIid") = {}
    BY <1>1 DEF Context!Mismatches, Api
  <2>2. Context!If(selected.project.id # e.api.target.id, "ConfiguredProject" \o "Id") = {}
    BY <2>1 DEF Context!ProjectMismatches
  <2> QED
    BY <2>1, <2>2 DEF Context!If
<1> QED
  BY <1>1, <1>2 DEF ForkBehaviour

\* The segments of a write of the description are those of its merge request.
LEMMA AddressOf ==
    ASSUME NEW source, NEW selected
    PROVE  /\ Address(source, selected).header = Transport!WriteAuthentication(TokenKind(source))
           /\ Address(source, selected).path =
                Transport!MergeRequestSegments(
                    [project |-> selected.project.id, iid |-> selected.iid])
<1> DEFINE endpoint == [kind |-> "UpdateMergeRequestDescription",
                        project |-> selected.project.id, iid |-> selected.iid]
           path == <<"projects", selected.project.id, "merge_requests", selected.iid>>
<1>1. Transport!WriteSegments(endpoint) = path \o <<>>
  BY DEF Transport!WriteSegments, Transport!MergeRequestSegments
<1>2. path \o <<>> = path
  <2>1. path \in Seq({"projects", selected.project.id, "merge_requests", selected.iid})
    OBVIOUS
  <2> QED
    BY <2>1
<1> QED
  BY <1>1, <1>2 DEF Address, Transport!MergeRequestSegments

\* publish_gitlab_review opens the gate for a ready context and a token that
\* can write, publish_github_review for an enabled job of no fork.
LEMMA GateEntitles ==
    ASSUME NEW j, j.setup \in Setups, j.setup.host \in {"gitlab", "github"},
           j.setup.host = "gitlab" => \E moved \in BOOLEAN : j.setup.acquires[moved],
           (IF j.setup.host = "gitlab" THEN GitLabGate(j) ELSE GitHubGate(j)) = None
    PROVE  Entitled(j.setup)
<1>1. /\ Published("report_only", "publication_disabled") # None
      /\ Published("report_only", "write_credential_unavailable") # None
      /\ Published("skipped", "fork_policy") # None /\ Published("report_only", "fork_policy") # None
      /\ Published("unavailable", "readiness_failed") # None
      /\ Published("unavailable", "discussion_changed") # None
  BY NoneAssumption DEF Published
<1>2. CASE j.setup.host = "github"
  <2>1. GitHubGate(j) = None
    BY <1>2
  <2> QED
    <3>1. GitHubFailure("PublicationStateChanged", j.attempts) # None
      BY NoneAssumption DEF GitHubFailure, Published
    <3>2. j.setup.enabled /\ ~j.setup.fork
      BY <1>1, <2>1, <3>1, Zenon DEF GitHubGate
    <3> QED
      BY <1>2, <3>2 DEF Entitled
<1>3. CASE j.setup.host = "gitlab"
  <2>1. GitLabGate(j) = None
    BY <1>3
  <2>2. /\ j.setup.enabled /\ j.setup.credential # "CiJobToken"
        /\ Context!Authorized(Readiness(j))
    BY <1>1, <2>1, Zenon DEF GitLabGate
  <2>3. PICK e \in Environments : j.setup = Setup(e)
    BY DEF Setups
  <2>4. PICK remote, selected : j.setup = GitLabSetup(e, CiContext(e), remote, selected)
    BY <1>3, <2>3, SetupKnown
  <2> DEFINE source == Context!LoadCredentials(e.tokens, {}).source
  <2>5. PICK moved \in BOOLEAN : j.setup.acquires[moved]
    BY <1>3
  <2>6. Acquisition(e, remote, selected, moved) = "accepted"
    <3>1. j.setup.acquires = [m \in BOOLEAN |-> Acquisition(e, remote, selected, m) = "accepted"]
      BY <2>4 DEF GitLabSetup
    <3> QED
      BY <2>5, <3>1, Zenon
  <2>7. /\ Context!LoadCredentials(e.tokens, {}).verdict = "accepted"
        /\ selected.project.id = e.api.target.id /\ selected.iid = e.api.iid
        /\ ForkBehaviour(e.fork) \in {"Skip", "ReportOnly"}
    BY <2>6, AcquisitionChecks
  <2>8. /\ j.setup.class = CiContext(e).class /\ j.setup.behaviour = ForkBehaviour(e.fork)
        /\ j.setup.fork = (CiContext(e).class = "ForkMismatch")
        /\ j.setup.credential = source /\ j.setup.address = Address(source, selected)
    BY <2>4 DEF GitLabSetup
  <2>9. j.setup.class = "Ready" /\ ~j.setup.fork
    <3>1. Context!Mode(Readiness(j)) = "Publish" /\ Context!ContextBlocks(Readiness(j)) = {}
      BY <2>2 DEF Context!Authorized, Context!Blocking
    <3>2. j.setup.class \notin {"Missing", "Ambiguous"}
      BY <3>1 DEF Context!ContextBlocks, Context!If, Readiness
    <3>3. j.setup.class # "ForkMismatch"
      BY <2>7, <2>8, <3>1 DEF Context!Mode, Readiness
    <3> QED
      BY <2>8, <3>2, <3>3, ClassKnown
  <2>10. j.setup.address.header # "InvalidAccessToken"
    <3>1. source \in {"RevootPrivateToken", "GitLabPrivateToken", "RevootBearerToken"}
      BY <2>2, <2>7, <2>8, SourceKnown
    <3>2. TokenKind(source) \in {"PrivateToken", "Bearer"}
      BY <3>1 DEF TokenKind
    <3>3. Transport!WriteAuthentication(TokenKind(source)) # "InvalidAccessToken"
      BY <3>2 DEF Transport!WriteAuthentication, Transport!ReadAuthentication
    <3>4. Address(source, selected).header = Transport!WriteAuthentication(TokenKind(source))
      BY AddressOf
    <3> QED
      BY <2>8, <3>3, <3>4
  <2>11. j.setup.address.path = Transport!MergeRequestSegments(TheChange)
    <3>1. j.setup.address.path = Transport!MergeRequestSegments(
                    [project |-> selected.project.id, iid |-> selected.iid])
      BY <2>8, AddressOf
    <3>2. selected.project.id = TheChange.project /\ selected.iid = TheChange.iid
      BY <1>3, <2>3, <2>7, ChangeAssumption
    <3> QED
      BY <3>1, <3>2 DEF Transport!MergeRequestSegments
  <2> QED
    BY <2>2, <2>9, <2>10, <2>11 DEF Entitled
<1> QED
  BY <1>2, <1>3

\* A report that says what was written says by which setup.
LEMMA EndAuthority ==
    ASSUME AuthorityOK, NEW r, End(r), r.written # {} => Entitled(r.setup)
    PROVE  AuthorityOK'
BY DEF End, AuthorityOK, NoJob, Stages, Unplanned, Concluding

\* A job that has written nothing may report anything.
LEMMA UnwrittenAuthority ==
    ASSUME AuthorityOK, job.written = {}, NEW publication,
           End(Ended(job, publication)) \/ End(Diagnostic(job))
    PROVE  AuthorityOK'
<1>1. Ended(job, publication).written = {} /\ Diagnostic(job).written = {}
  BY DEF Ended, Diagnostic
<1> QED
  BY <1>1, EndAuthority

\* A job beyond the gate reports with its own setup.
LEMMA EntitledAuthority ==
    ASSUME AuthorityOK, NEW j, Entitled(j.setup),
           End(Failure(j)) \/ End(Completed(j)) \/ End([Completed(j) EXCEPT !.shown = None])
    PROVE  AuthorityOK'
<1>1. ASSUME NEW publication
      PROVE  Ended(j, publication).written # {} => Ended(j, publication).setup = j.setup
  BY DEF Ended
<1>2. Failure(j).written # {} => Failure(j).setup = j.setup
  BY <1>1 DEF Failure
<1>3. /\ Completed(j).written # {} => Completed(j).setup = j.setup
      /\ LET r == [Completed(j) EXCEPT !.shown = None]
         IN  r.written # {} => r.setup = j.setup
  BY DEF Completed, Ended
<1> QED
  BY <1>2, <1>3, EndAuthority

\* A job that goes on keeps its setup.
LEMMA GoingOnAuthority ==
    ASSUME AuthorityOK, UNCHANGED result, job.stage \in Stages, job'.stage \in Stages,
           job'.setup = job.setup,
           job.stage = "started" /\ job.setup.host = "gitlab" =>
                \E moved \in BOOLEAN : job.setup.acquires[moved],
           job'.stage \in {"findings", "overview", "writing"} => Entitled(job.setup)
    PROVE  AuthorityOK'
BY DEF AuthorityOK

LEMMA StartAuthority == AuthorityOK /\ Start => AuthorityOK'
<1> SUFFICES ASSUME AuthorityOK, Start PROVE AuthorityOK'
  OBVIOUS
<1>1. PICK s \in Setups :
        \/ s.host \in {"gitlab", "github"} /\ job' = Prepared(s) /\ result' = None
        \/ \E publication : End(Untouched(publication))
  BY DEF Start
<1>2. CASE \E publication : End(Untouched(publication))
  BY <1>2, EndAuthority DEF Untouched
<1>3. CASE s.host \in {"gitlab", "github"} /\ job' = Prepared(s) /\ result' = None
  <2>1. job'.stage = "started" /\ job'.setup = s
    BY <1>3 DEF Prepared
  <2> QED
    BY <1>3, <2>1 DEF AuthorityOK
<1> QED
  BY <1>1, <1>2, <1>3

LEMMA AcquireAuthority == IInv /\ AuthorityOK /\ AcquireGitLab => AuthorityOK'
<1> SUFFICES ASSUME IInv, AuthorityOK, AcquireGitLab PROVE AuthorityOK'
  OBVIOUS
<1>1. job.stage = "started" /\ job.stage \in Stages /\ job.written = {}
  BY DEF AcquireGitLab, IInv, WrittenOK, Stages, Unplanned
<1>2. job = [f \in JobFields |-> job[f]]
  BY <1>1, RunningJob
<1>3. CASE End(Diagnostic(job))
  BY <1>1, <1>3, UnwrittenAuthority
<1>4. CASE /\ job.setup.acquires[branch.head # job.checkout]
           /\ job' = [job EXCEPT !.stage = "acquired", !.checkout = None,
                                 !.base = branch.base, !.head = branch.head, !.listed = branch]
           /\ UNCHANGED result
  <2>1. job'.stage = "acquired" /\ job'.setup = job.setup
    BY <1>2, <1>4 DEF JobFields
  <2>2. job'.stage \in Stages /\ job'.stage \notin {"findings", "overview", "writing"}
    BY <2>1 DEF Stages, Unplanned
  <2>3. \E moved \in BOOLEAN : job.setup.acquires[moved]
    BY <1>4, Zenon
  <2> QED
    BY <1>1, <1>4, <2>1, <2>2, <2>3, GoingOnAuthority
<1> QED
  BY <1>3, <1>4 DEF AcquireGitLab

\* A job in front of the gate has written nothing.
LEMMA ReadingAuthority ==
    ASSUME IInv, AuthorityOK, job.stage \in Stages \ {"findings", "overview", "writing"},
           job.stage = "started" => job.setup.host # "gitlab",
           \/ End(Diagnostic(job))
           \/ /\ UNCHANGED result /\ job'.setup = job.setup
              /\ job'.stage \in Stages \ {"findings", "overview", "writing"}
    PROVE  AuthorityOK'
<1>1. job.written = {}
  BY DEF IInv, WrittenOK
<1>2. CASE End(Diagnostic(job))
  BY <1>1, <1>2, UnwrittenAuthority
<1>3. CASE /\ UNCHANGED result /\ job'.setup = job.setup
           /\ job'.stage \in Stages \ {"findings", "overview", "writing"}
  BY <1>3, GoingOnAuthority
<1> QED
  BY <1>2, <1>3

\* The reads of a pull request.
LEMMA PullAuthority ==
    IInv /\ AuthorityOK /\ (ReadPull \/ ListFiles \/ ConfirmPull \/ ReadHistory) => AuthorityOK'
<1> SUFFICES ASSUME IInv, AuthorityOK, ReadPull \/ ListFiles \/ ConfirmPull \/ ReadHistory
             PROVE  AuthorityOK'
  OBVIOUS
<1>1. /\ job.stage \in {"started", "pull", "files", "acquired"}
      /\ job.stage = "started" => job.setup.host # "gitlab"
  BY DEF ReadPull, ListFiles, ConfirmPull, ReadHistory
<1>2. job.stage \in Stages \ {"findings", "overview", "writing"}
  BY <1>1 DEF Stages, Unplanned
<1>3. job = [f \in JobFields |-> job[f]]
  BY <1>2, RunningJob
<1>4. \/ End(Diagnostic(job))
      \/ /\ UNCHANGED result /\ job'.setup = job.setup
         /\ job'.stage \in {"pull", "files", "acquired", "history"}
  <2>1. CASE ReadPull
    BY <1>3, <2>1 DEF ReadPull, JobFields
  <2>2. CASE ListFiles
    BY <1>3, <2>2 DEF ListFiles, JobFields
  <2>3. CASE ConfirmPull
    BY <1>3, <2>3 DEF ConfirmPull, JobFields
  <2>4. CASE ReadHistory
    BY <1>3, <2>4 DEF ReadHistory, JobFields
  <2> QED
    BY <2>1, <2>2, <2>3, <2>4
<1>5. {"pull", "files", "acquired", "history"} \subseteq Stages \ {"findings", "overview", "writing"}
  BY DEF Stages, Unplanned
<1> QED
  BY <1>1, <1>2, <1>4, <1>5, ReadingAuthority

\* The plan, the review, and what people say while it runs.
LEMMA ReviewAuthority == IInv /\ AuthorityOK /\ (Plan \/ Review \/ Discuss) => AuthorityOK'
<1> SUFFICES ASSUME IInv, AuthorityOK, Plan \/ Review \/ Discuss PROVE AuthorityOK'
  OBVIOUS
<1>1. job.stage \in {"history", "planned", "reviewed"}
  BY Zenon DEF Plan, Review, Discuss
<1>2. /\ job.stage \in Stages \ {"findings", "overview", "writing"}
      /\ {"planned", "reviewed"} \subseteq Stages \ {"findings", "overview", "writing"}
  BY <1>1 DEF Stages, Unplanned, Concluding
<1>3. job = [f \in JobFields |-> job[f]]
  BY <1>2, RunningJob
<1>4. CASE Plan
  <2> DEFINE a == PlanAttention(CheckpointHint(job), job.base, job.head, job.policy)
  <2>1. \/ End(Diagnostic(job))
        \/ job' = [job EXCEPT !.stage = "reviewed", !.report = NothingSelected] /\ UNCHANGED result
        \/ job' = [job EXCEPT !.stage = "planned", !.attention = a] /\ UNCHANGED result
    BY <1>4 DEF Plan
  <2> HIDE DEF a
  <2>2. \/ End(Diagnostic(job))
        \/ UNCHANGED result /\ job'.setup = job.setup /\ job'.stage \in {"planned", "reviewed"}
    BY <1>3, <2>1 DEF JobFields
  <2> QED
    BY <1>1, <1>2, <2>2, ReadingAuthority
<1>5. CASE Review
  <2>1. PICK o \in Outcomes : job' = [job EXCEPT !.stage = "reviewed", !.report = ReportOf(o)]
    BY <1>5, Zenon DEF Review
  <2>2. UNCHANGED result
    BY <1>5, Zenon DEF Review
  <2>3. job'.setup = job.setup /\ job'.stage = "reviewed"
    BY <1>3, <2>1 DEF JobFields
  <2> QED
    BY <1>1, <1>2, <2>2, <2>3, ReadingAuthority
<1>6. CASE Discuss
  <2>1. UNCHANGED result /\ job'.setup = job.setup /\ job'.stage = "reviewed"
    BY <1>3, <1>6 DEF Discuss, JobFields
  <2> QED
    BY <1>1, <1>2, <2>1, ReadingAuthority
<1> QED
  BY <1>4, <1>5, <1>6

LEMMA GateAuthority == IInv /\ AuthorityOK /\ Gate => AuthorityOK'
<1> SUFFICES ASSUME IInv, AuthorityOK, Gate PROVE AuthorityOK'
  OBVIOUS
<1>1. job.stage = "reviewed" /\ job.stage \in Stages /\ job.written = {}
  BY DEF Gate, IInv, WrittenOK, Stages, Concluding
<1>2. job = [f \in JobFields |-> job[f]]
  BY <1>1, RunningJob
<1> DEFINE closed == IF job.setup.host = "gitlab" THEN GitLabGate(job) ELSE GitHubGate(job)
<1>3. CASE End(Ended(job, closed))
  BY <1>1, <1>3, UnwrittenAuthority
<1>4. CASE closed = None /\ job' = [job EXCEPT !.stage = "findings"] /\ UNCHANGED result
  <2>1. job'.stage = "findings" /\ job'.setup = job.setup
    BY <1>2, <1>4 DEF JobFields
  <2>2. job'.stage \in Stages
    BY <2>1 DEF Stages, Concluding
  <2>3. /\ job.setup \in Setups /\ job.setup.host \in {"gitlab", "github"}
        /\ job.setup.host = "gitlab" => \E moved \in BOOLEAN : job.setup.acquires[moved]
    BY <1>1 DEF AuthorityOK
  <2>4. Entitled(job.setup)
    BY <1>4, <2>3, GateEntitles
  <2> QED
    BY <1>1, <1>4, <2>1, <2>2, <2>4, GoingOnAuthority
<1> QED
  BY <1>3, <1>4 DEF Gate

LEMMA FindingsAuthority == IInv /\ AuthorityOK /\ PublishFindings => AuthorityOK'
<1> SUFFICES ASSUME IInv, AuthorityOK, PublishFindings PROVE AuthorityOK'
  OBVIOUS
<1>1. job.stage = "findings" /\ job.stage \in Stages /\ Entitled(job.setup)
  BY DEF PublishFindings, AuthorityOK, Stages, Concluding
<1>2. job = [f \in JobFields |-> job[f]]
  BY <1>1, RunningJob
<1>3. CASE End(Failure(job))
  BY <1>1, <1>3, EntitledAuthority
<1>4. CASE /\ UNCHANGED result
           /\ \/ job' = [job EXCEPT !.stage = "overview"]
              \/ job' = [job EXCEPT !.stage = "overview", !.attempts = @ + 1,
                                    !.written = @ \cup {"finding"}]
  <2>1. job'.setup = job.setup /\ job'.stage = "overview"
    BY <1>2, <1>4 DEF JobFields
  <2>2. job'.stage \in Stages
    BY <2>1 DEF Stages, Concluding
  <2> QED
    BY <1>1, <1>4, <2>1, <2>2, GoingOnAuthority
<1> QED
  BY <1>3, <1>4 DEF PublishFindings

LEMMA ReadOverviewAuthority == IInv /\ AuthorityOK /\ ReadOverview => AuthorityOK'
<1> SUFFICES ASSUME IInv, AuthorityOK, ReadOverview PROVE AuthorityOK'
  OBVIOUS
<1>1. job.stage = "overview" /\ job.stage \in Stages /\ Entitled(job.setup)
  BY DEF ReadOverview, AuthorityOK, Stages, Concluding
<1>2. job = [f \in JobFields |-> job[f]]
  BY <1>1, RunningJob
<1> DEFINE update == UpdateDescription(CurrentDescription(job), Checkpoint(job))
           silent == [Completed(job) EXCEPT !.shown = None]
<1>3. CASE End(Failure(job)) \/ End(Completed(job)) \/ End(silent)
  BY <1>1, <1>3, EntitledAuthority
<1>4. CASE job' = [job EXCEPT !.stage = "writing", !.update = update] /\ UNCHANGED result
  <2> HIDE DEF update
  <2>1. job'.setup = job.setup /\ job'.stage = "writing"
    BY <1>2, <1>4 DEF JobFields
  <2>2. job'.stage \in Stages
    BY <2>1 DEF Stages, Concluding
  <2> QED
    BY <1>1, <1>4, <2>1, <2>2, GoingOnAuthority
<1> QED
  BY <1>3, <1>4, Zenon DEF ReadOverview

LEMMA WriteOverviewAuthority == IInv /\ AuthorityOK /\ WriteOverview => AuthorityOK'
<1> SUFFICES ASSUME IInv, AuthorityOK, WriteOverview PROVE AuthorityOK'
  OBVIOUS
<1>1. job.stage = "writing" /\ job.stage \in Stages /\ Entitled(job.setup)
  BY DEF WriteOverview, AuthorityOK, Stages, Concluding
<1>2. job = [f \in JobFields |-> job[f]]
  BY <1>1, RunningJob
<1> DEFINE j == [job EXCEPT !.attempts = @ + 1, !.written = @ \cup {"overview"}]
<1>3. j.setup = job.setup
  BY <1>2 DEF JobFields
<1>4. End(Failure(j)) \/ End(Completed(j))
  BY DEF WriteOverview
<1> HIDE DEF j
<1> QED
  BY <1>1, <1>3, <1>4, EntitledAuthority

LEMMA StopAuthority == IInv /\ AuthorityOK /\ (Unreachable \/ Kill) => AuthorityOK'
<1> SUFFICES ASSUME IInv, AuthorityOK, Unreachable \/ Kill PROVE AuthorityOK'
  OBVIOUS
<1>1. CASE Unreachable /\ job.stage \in {"findings", "overview"}
  <2>1. Entitled(job.setup) /\ End(Failure(job))
    BY <1>1 DEF Unreachable, AuthorityOK
  <2> QED
    BY <2>1, EntitledAuthority
<1>2. CASE Unreachable /\ job.stage \notin {"findings", "overview"}
  <2>1. job.written = {} /\ End(Diagnostic(job))
    BY <1>2 DEF Unreachable, IInv, WrittenOK, Stages, Unplanned
  <2> QED
    BY <2>1, UnwrittenAuthority
<1>3. CASE Kill
  BY <1>3 DEF Kill, AuthorityOK, NoJob, Stages, Unplanned, Concluding
<1> QED
  BY <1>1, <1>2, <1>3

LEMMA StepAuthority == IInv /\ AuthorityOK /\ [Next]_vars => AuthorityOK'
<1> SUFFICES ASSUME IInv, AuthorityOK, [Next]_vars PROVE AuthorityOK'
  OBVIOUS
<1>1. CASE UNCHANGED <<job, result>>
  BY <1>1 DEF AuthorityOK
<1>2. CASE Start \/ AcquireGitLab
  BY <1>2, StartAuthority, AcquireAuthority
<1>3. CASE ReadPull \/ ListFiles \/ ConfirmPull \/ ReadHistory \/ Plan \/ Review \/ Discuss
  BY <1>3, PullAuthority, ReviewAuthority
<1>4. CASE Gate \/ PublishFindings \/ ReadOverview \/ WriteOverview
  BY <1>4, GateAuthority, FindingsAuthority, ReadOverviewAuthority, WriteOverviewAuthority
<1>5. CASE Unreachable \/ Kill
  BY <1>5, StopAuthority
<1>6. CASE Push \/ Retarget \/ EditText \/ DeleteBlocks \/ PasteBlocks \/ Restore \/ Upgrade
  <2>1. UNCHANGED <<job, result>>
    BY <1>6 DEF Push, Retarget, Moves, EditText, DeleteBlocks, PasteBlocks, Restore, Edits, Upgrade
  <2> QED
    BY <1>1, <2>1
<1>7. CASE UNCHANGED vars
  BY <1>1, <1>7 DEF vars
<1> QED
  BY <1>2, <1>3, <1>4, <1>5, <1>6, <1>7 DEF Next

\* Only a job with authority over the merge request writes, and to nothing
\* else (publish_gitlab_review, publish_github_review,
\* GitLabVerificationInput::verify).
THEOREM AuthorityTheorem == Spec => []AuthorityKept
<1>1. Init => AuthorityOK
  BY DEF Init, AuthorityOK, NoJob, Stages, Unplanned, Concluding
<1>2. IInv /\ AuthorityOK /\ [Next]_vars => AuthorityOK'
  BY StepAuthority
<1>3. IInv /\ AuthorityOK => AuthorityKept
  <2> SUFFICES ASSUME IInv, AuthorityOK, NEW j \in {job, result},
                      j \notin {NoJob, None}, j.written # {}
               PROVE  Entitled(j.setup)
    BY DEF AuthorityKept, Entitled
  <2>1. CASE j = result
    BY <2>1 DEF AuthorityOK
  <2>2. CASE j = job
    <3>1. job.stage \in {"findings", "overview", "writing"}
      BY <2>2 DEF IInv, JobOK, WrittenOK, Stages, Unplanned, Concluding
    <3> QED
      BY <2>2, <3>1 DEF AuthorityOK
  <2> QED
    BY <2>1, <2>2
<1> QED
  BY <1>1, <1>2, <1>3, Invariance, PTL DEF Spec
=============================================================================
