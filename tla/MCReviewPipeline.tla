-------------------------- MODULE MCReviewPipeline --------------------------
(***************************************************************************)
(* A branch of two commits on a base, the merge of a newer base into it    *)
(* that takes the branch's side, and the environments of jobs: ones that   *)
(* may publish, ones that may review only, and one for each way in which   *)
(* an environment can contradict itself, the command line or the API.      *)
(***************************************************************************)
EXTENDS ReviewPipeline, TLC

Files(p, q, g) == "p" :> p @@ "q" :> q @@ "g" :> g

\* "b1" changes q; the merge "m" of b1 into h1 keeps the old q and changes p;
\* "h2" changes q and a generated file.
ThreeHeads ==
    "b0" :> Files(0, 0, 0) @@ "b1" :> Files(0, 1, 0)
    @@ "h1" :> Files(1, 0, 0) @@ "h2" :> Files(1, 2, 1) @@ "m" :> Files(2, 0, 0)

TheirAncestors == "h1" :> {"b0"} @@ "h2" :> {"b0", "h1"} @@ "m" :> {"b0", "b1", "h1"}

TheirBases == "h1" :> {"b0"} @@ "h2" :> {"b0"} @@ "m" :> {"b0", "b1"}

-----------------------------------------------------------------------------

Host == "gitlab.example"
ServerUrl == [scheme |-> "https", extra |-> "", slashes |-> 1, host |-> Host, port |-> Absent]
Ours == [id |-> 1, path |-> <<"group", "project">>]
Theirs == [id |-> 2, path |-> <<"fork", "project">>]
OurMergeRequest == [project |-> Ours.id, iid |-> 3]

NoVariables == [f \in Context!CiFields |-> Absent]

\* The variables of a detached merge request pipeline that runs in a project.
Pipeline(project, source) ==
    "ServerUrl" :> ServerUrl @@ "PipelineSource" :> "merge_request_event"
    @@ "PipelineProjectId" :> project.id @@ "PipelineProjectPath" :> project.path
    @@ "MergeRequestProjectId" :> Ours.id @@ "MergeRequestProjectPath" :> Ours.path
    @@ "MergeRequestIid" :> 3
    @@ "MergeRequestSourceProjectId" :> source.id
    @@ "MergeRequestSourceProjectPath" :> source.path
    @@ "MergeRequestSourceBranch" :> <<"feature", "name">>
    @@ "MergeRequestTargetBranch" :> <<"main">>
    @@ "MergeRequestEventType" :> "detached" @@ "CommitSha" :> "checkout"
    @@ "MergeRequestSourceBranchSha" :> Absent

Remote(host, path) ==
    [form |-> "https", user |-> "", password |-> FALSE, extra |-> "", host |-> host,
     port |-> 443, path |-> path]
Runner(path) == [Remote(Host, path) EXCEPT !.user = "gitlab-ci-token", !.password = TRUE]

Tokens(source) ==
    [s \in {"RevootPrivateToken", "GitLabPrivateToken", "RevootBearerToken", "CiJobToken"} |->
        IF s \in {source, "CiJobToken"} THEN "token" ELSE Absent]

Job ==
    [args |-> <<<<"--ci", None>>>>, github |-> None, forked |-> FALSE, pulls |-> FALSE,
     ci |-> Pipeline(Ours, Ours), twice |-> {}, fork |-> <<>>, base |-> <<"base">>,
     url |-> <<[origin |-> [host |-> Host, port |-> 443]]>>,
     remotes |-> "origin" :> Runner(Ours.path) @@ "fork" :> Remote("other.example", Theirs.path),
     tokens |-> Tokens("RevootPrivateToken"), cidrs |-> {}, bundle |-> None,
     pins |-> {"public"}, include |-> {}, exclude |-> {[form |-> "suffix", text |-> ".min.js"]},
     context |-> {}, keys |-> "ANTHROPIC_API_KEY" :> "key" @@ "OPENAI_API_KEY" :> None,
     provider |-> "auto", model |-> "auto", enabled |-> TRUE, user |-> 200,
     api |-> [target |-> Ours, source |-> Ours, iid |-> 3,
              source_ref |-> <<"feature", "name">>, target_ref |-> <<"main">>]]

Action ==
    [Job EXCEPT !.github = "ready", !.pulls = TRUE, !.ci = NoVariables,
                !.remotes = "origin" :> Remote("github.example", Ours.path), !.url = <<17>>]

\* The pipeline of a fork's merge request, which runs in the fork.
Fork(behaviour) ==
    [Job EXCEPT !.ci = Pipeline(Theirs, Theirs), !.fork = behaviour,
                !.remotes = "origin" :> Runner(Theirs.path), !.api.source = Theirs]

\* Somebody's own checkout.
ByHand == [Job EXCEPT !.ci = NoVariables, !.args = <<<<"--mr", 3>>>>, !.url = <<>>, !.base = <<>>,
                      !.remotes = "upstream" :> Remote(Host, Ours.path)]

Publishing == {Action, Job}

ReviewOnly ==
    {[Action EXCEPT !.forked = TRUE],
     [Job EXCEPT !.tokens = Tokens("CiJobToken")], [Job EXCEPT !.user = 403],
     [Job EXCEPT !.enabled = FALSE, !.base = <<>>], Fork(<<"report-only">>), ByHand}

NoReview ==
    {Fork(<<>>), Fork(<<"skip", "skip">>), [ByHand EXCEPT !.args = <<>>],
     [Job EXCEPT !.args = <<<<"--ci", None>>, <<"--help", None>>>>]}

\* A second value wins: the map on the left of @@.
Other(field, value) == [Job EXCEPT !.ci = field :> value @@ @]

Contradictions ==
    {Other("ServerUrl", [ServerUrl EXCEPT !.scheme = "http"]),
     Other("ServerUrl", [ServerUrl EXCEPT !.port = 8443]),
     Other("MergeRequestProjectPath", <<"group">>),
     Other("MergeRequestSourceBranch", <<"feature", "lock">>),
     Other("MergeRequestSourceBranchSha", "newer"),
     Other("MergeRequestEventType", "merge_train"),
     Other("MergeRequestIid", 4),
     Other("PipelineProjectId", 9),
     Other("MergeRequestTargetBranch", <<"release">>)}
    \cup {[Job EXCEPT !.twice = {"CommitSha"}], [Job EXCEPT !.args = <<<<"--mr", 4>>>>],
          [Job EXCEPT !.args = <<<<"--mr", 3>>, <<"--pr", 3>>>>],
          [Job EXCEPT !.args = <<<<"--base", "main">>>>],
          [Job EXCEPT !.github = "ready"], [Job EXCEPT !.github = Malformed],
          [Job EXCEPT !.remotes = "origin" :> Remote("other.example", Ours.path)],
          [Job EXCEPT !.remotes = "origin" :> Runner(Theirs.path)],
          [ByHand EXCEPT !.remotes = "a" :> Remote(Host, Ours.path) @@ "b" :> Remote(Host, Theirs.path)],
          [ByHand EXCEPT !.args = <<<<"--ci", None>>>>],
          [ByHand EXCEPT !.api.target = Theirs],
          [Job EXCEPT !.api.source = Theirs], [Job EXCEPT !.api.target.id = 9],
          [Job EXCEPT !.base = <<"base", "base">>], [Job EXCEPT !.fork = <<"publish">>]}

Unequipped ==
    {[Job EXCEPT !.tokens = [s \in DOMAIN @ |-> Absent]],
     [Job EXCEPT !.cidrs = {[private |-> FALSE]}],
     [Job EXCEPT !.bundle = [absolute |-> FALSE, size |-> 1, kind |-> "file", certificates |-> 1]],
     [Job EXCEPT !.pins = {}], [Job EXCEPT !.include = {[form |-> "other", text |-> "a?b"]}],
     [Job EXCEPT !.url = <<[origin |-> [host |-> "other.example", port |-> 443]]>>],
     [Action EXCEPT !.provider = "openai"],
     [Action EXCEPT !.keys = [k \in DOMAIN @ |-> Malformed]]}

AllEnvironments == Publishing \cup ReviewOnly \cup NoReview \cup Contradictions \cup Unequipped

TwoModels == <<[adapter |-> "openai", model |-> "large"], [adapter |-> "anthropic", model |-> "small"]>>
=============================================================================
