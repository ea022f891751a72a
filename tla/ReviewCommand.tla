---------------------------- MODULE ReviewCommand ----------------------------
(***************************************************************************)
(* The decisions of the review command (review_command.rs) that depend on  *)
(* nothing but their arguments: what the command line means, which host is *)
(* reviewed, which provider and model are used, what a review is reported  *)
(* as, and what a description becomes (review_overview.rs); ReviewPipeline *)
(* strings them together.                                                  *)
(*                                                                         *)
(* A verdict is "accepted" or the reason of a refusal.                     *)
(***************************************************************************)
EXTENDS Integers, Sequences, FiniteSets, SequencesExt

CONSTANTS
    None,
    Malformed       \* a value that does not parse

Refusal(v) == v # "accepted"

-----------------------------------------------------------------------------
(* The command line: a sequence of <<option, value>>, the value None when  *)
(* the line ends.                                                          *)

Switches == {"--ci", "--help", "-h"}
Valued == {"--base", "--format", "--output", "--mr", "--pr", "--repo"}

Uses(args, option) == {i \in DOMAIN args : args[i][1] = option}

\* What is wrong with argument i, in the order of the line.
ArgumentError(args, i) ==
    LET option == args[i][1]
        value == args[i][2]
        again == \E j \in Uses(args, option) : j < i
    IN  CASE option \notin Switches \cup Valued -> "unknown"
          [] option \in Valued /\ value = None -> "value missing"
          [] option \in Valued \ {"--output"} /\ value = Malformed -> "value invalid"
          [] option # "--format" /\ again -> "twice"
          [] OTHER -> "accepted"

\* --help ends the parse where it stands; the options may then conflict.
ArgsVerdict(args) ==
    LET help == Uses(args, "--help") \cup Uses(args, "-h")
        wrong == {i \in DOMAIN args : Refusal(ArgumentError(args, i))}
        given(option) == Uses(args, option) # {}
    IN  CASE wrong # {} /\ \A h \in help : \E i \in wrong : i < h ->
                ArgumentError(args, CHOOSE i \in wrong : \A j \in wrong : i <= j)
          [] help # {} -> "help"
          [] given("--mr") /\ (given("--pr") \/ given("--repo")) -> "conflict"
          [] /\ given("--base")
             /\ \E o \in {"--ci", "--mr", "--pr", "--repo"} : given(o) -> "conflict"
          [] OTHER -> "accepted"

-----------------------------------------------------------------------------
(* Which review it is.  The input is a record: github (the Actions context:*)
(* None, Malformed or "ready"), gitlab (the class of the CI context), fork *)
(* (the configured behaviour), ci, base, mr, pr, repo (what the command    *)
(* line names), and the remotes found in the checkout.                     *)

ExplicitHost(in) == in.ci \/ in.mr \/ in.pr \/ in.repo
GitLabActive(in) == in.gitlab # "Missing"

\* Which of the two hosts is asked, once it is known that one is.
HostAsked(in) ==
    CASE in.github = "ready" -> "github"
      [] GitLabActive(in) -> "gitlab"
      [] in.pr \/ in.repo -> "github"
      [] in.mr -> "gitlab"
      [] {"github", "gitlab"} \subseteq in.remotes -> "both"
      [] in.remotes = {} -> "neither"
      [] OTHER -> CHOOSE h \in in.remotes : TRUE

\* run_async up to the acquisition: "skip", "local", "github", "gitlab" or a
\* refusal.
Dispatch(in) ==
    CASE in.mr /\ (in.pr \/ in.repo) -> "conflict"
      [] in.github = Malformed -> "invalid context"
      [] in.github = "ready" /\ GitLabActive(in) -> "two contexts"
      [] in.gitlab = "ForkMismatch" /\ in.fork = Malformed -> "invalid fork behaviour"
      [] in.gitlab = "ForkMismatch" /\ in.fork = "Skip" -> "skip"
      [] in.github = None /\ ~GitLabActive(in) /\ ~ExplicitHost(in) -> "local"
      [] in.base -> "base is local"
      [] HostAsked(in) \in {"both", "neither"} -> HostAsked(in)
      [] HostAsked(in) \notin in.remotes -> "no checkout"
      [] OTHER -> HostAsked(in)

\* The revision the configuration is read from in CI: the base of the change,
\* as the CI context states it; None for the checkout.
ConfigurationBase(in, github, gitlab) ==
    CASE in.github = "ready" -> github
      [] GitLabActive(in) -> gitlab
      [] OTHER -> None

-----------------------------------------------------------------------------
(* Provider and model.  credentials is the set of providers with a key.    *)

\* DiscoveredCredentials::discover over a function from the variables to None,
\* Malformed or a secret; two variables name the same purpose.
Purpose(name) == IF name = "ANTHROPIC_API_KEY" THEN "anthropic" ELSE "openai"
SecretsVerdict(env) ==
    LET set == {n \in DOMAIN env : env[n] # None}
    IN  CASE \E n \in set : env[n] = Malformed -> "InvalidValue"
          [] \E n, o \in set : n # o /\ Purpose(n) = Purpose(o) -> "Ambiguous"
          [] OTHER -> "accepted"
Secrets(env) == {Purpose(n) : n \in {o \in DOMAIN env : env[o] # None}}

SelectProvider(configured, credentials) ==
    CASE configured \notin {"auto", "anthropic", "openai"} -> "unsupported"
      [] configured = "auto" /\ credentials = {} -> "no credential"
      [] configured = "auto" ->
            IF "anthropic" \in credentials THEN "anthropic" ELSE "openai"
      [] configured \notin credentials -> "no credential"
      [] OTHER -> configured

\* catalog is a sequence of [adapter, model]; the first entry of the adapter
\* counts.
SelectModel(provider, configured, catalog) ==
    LET entries == SelectSeq(catalog, LAMBDA c : c.adapter = provider)
    IN  CASE configured # "auto" -> configured
          [] Len(catalog) \notin 1..64 -> "invalid catalog"
          [] entries = <<>> \/ Head(entries).model = Malformed -> "no default model"
          [] OTHER -> Head(entries).model

-----------------------------------------------------------------------------
(* What the configuration becomes.                                         *)

\* compile_selection_patterns: a pattern is [form, text]; the forms are an exact
\* path, "directory/**", "**/*suffix" and what none of them is.
CompilePatterns(patterns) ==
    IF \E p \in patterns : p.form = "other" \/ p.text \in {Malformed, ""}
    THEN Malformed
    ELSE [form \in {"exact", "prefix", "suffix"} |->
            {p.text : p \in {q \in patterns : q.form = form}}]

\* selection_policy: what the repository excludes from the model's context is
\* excluded from the review as well.
SelectionPolicy(include, exclude, context, generated) ==
    LET compiled == {CompilePatterns(include), CompilePatterns(exclude), CompilePatterns(context)}
    IN  IF Malformed \in compiled THEN Malformed
        ELSE [included |-> CompilePatterns(include),
              excluded |-> [form \in {"exact", "prefix", "suffix"} |->
                                CompilePatterns(exclude)[form] \cup CompilePatterns(context)[form]
                                \cup CASE form = "prefix" -> {".git/", "vendor/"}
                                       [] form = "suffix" -> {".generated"}
                                       [] OTHER -> {}],
              generated |-> generated]

\* code_host_network_policy; a bundle is None or [absolute, size,
\* kind, certificates].
NetworkVerdict(cidrs, bundle, limit) ==
    CASE \E c \in cidrs : c = Malformed \/ ~c.private -> "invalid"
      [] bundle = None -> "accepted"
      [] ~bundle.absolute \/ bundle.kind # "file" -> "invalid"
      [] bundle.size \notin 1..limit -> "invalid"
      [] bundle.certificates = Malformed -> "invalid"
      [] OTHER -> "accepted"

\* exact_environment_value, gitlab_diff_base_sha: set at most once.
ExactValue(values) ==
    IF Len(values) > 1 \/ Malformed \in ToSet(values) THEN Malformed
    ELSE IF values = <<>> THEN None ELSE Head(values)

\* ci_job_url: a GitLab URL is taken only from the reviewed host; a GitHub one
\* is built from the number of the run.
JobUrlVerdict(host, values, origin) ==
    LET value == ExactValue(values)
    IN  CASE value = Malformed -> "invalid"
          [] value = None -> "accepted"
          [] host = "gitlab" /\ value.origin # origin -> "not bound"
          [] OTHER -> "accepted"

-----------------------------------------------------------------------------
(* Reports.                                                                *)

Omission(reason) ==
    CASE reason = "Binary" -> <<"partition:binary", "BinaryFile">>
      [] reason = "UnsupportedEncoding" -> <<"partition:encoding", "UnsupportedEncoding">>
      [] reason = "FileTooLarge" -> <<"partition:file-too-large", "FileTooLarge">>
      [] reason = "LowSignalBudget" -> <<"partition:low-signal", "LowSignalDeferred">>
      [] reason \in {"MissingExactDiff", "EmptyObjectSet"} ->
            <<"partition:diff-unavailable", "DiffUnavailable">>
      [] reason \in {"ExactPathPolicy", "NotIncludedPolicy", "PrefixPolicy",
                     "SuffixPolicy", "GeneratedPolicy"} ->
            <<"partition:policy", "PolicyExcluded">>
      [] OTHER -> <<"partition:budget", "BudgetExhausted">>

\* initial_omissions: what the model will not have seen.
InitialOmissions(host, reasons, short) ==
    {Omission(r) : r \in reasons}
    \cup IF ~short THEN {}
         ELSE {<<CASE host = "github" -> "github:patches"
                   [] host = "gitlab" -> "gitlab:snapshot"
                   [] host = "local" -> "local:diffs", "DiffUnavailable">>}

\* canonicalize_report: the state of the report; only a partial review and one
\* without findings carry their omissions along.
ReportState(outcome) ==
    CASE outcome.kind = "Complete" -> [state |-> "complete", omissions |-> {}]
      [] outcome.kind = "Partial" -> [state |-> "partial", omissions |-> outcome.omissions]
      [] outcome.kind = "NoFindings" -> [state |-> "no_findings", omissions |-> outcome.omissions]
      [] outcome.kind = "Stale" -> [state |-> "stale", omissions |-> {}]
      [] outcome.kind = "Blocked" -> [state |-> "blocked", omissions |-> {}]
      [] outcome.kind = "Failed" -> [state |-> "failed", omissions |-> {}]
      [] outcome.kind = "Cancelled" -> [state |-> "cancelled", omissions |-> {}]

HasOverview(report) == report.state \in {"complete", "partial", "no_findings"}

CheckpointComplete(report) ==
    /\ report.state \in {"complete", "no_findings"}
    /\ report.omissions = {}
    /\ report.omitted = 0

Published(state, reason) == [state |-> state, reason |-> reason]

\* A failure that is reported as if nothing had happened yet.
GitHubFailureStopped(error, attempts) == Published("stopped", error)
\* github_publication_failure.
GitHubFailure(error, attempts) ==
    Published(IF error = "PublicationStateChanged" /\ attempts = 0 THEN "stopped" ELSE "failed",
              error)

\* run: the exit code; 2 is that of a diagnostic (main.rs).
ExitCode(publication) == IF publication.state \in {"failed", "unavailable"} THEN 3 ELSE 0

-----------------------------------------------------------------------------
(* Descriptions: [text, blocks], the blocks of Revoot that stand in it.    *)

\* update_description: Malformed when the markers are ambiguous.
UpdateDescription(description, block) ==
    IF Len(description.blocks) > 1 THEN Malformed
    ELSE [description EXCEPT !.blocks = <<block>>]
=============================================================================
