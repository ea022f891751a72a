--------------------------- MODULE JobEnvironment ---------------------------
(***************************************************************************)
(* From the environment a job finds itself in to what it may do with it:   *)
(* run_async, acquire_gitlab_context and select_review of                  *)
(* review_command.rs over the decisions of ReviewCommand, GitLabContext    *)
(* and GitLabTransport.                                                    *)
(*                                                                         *)
(* An environment is a record:                                             *)
(*   args          the command line, see ReviewCommand                     *)
(*   github        the Actions context: None, Malformed or "ready"         *)
(*   forked        it is that of a fork's pull request                     *)
(*   pulls         the checkout has a GitHub remote                        *)
(*   ci            the variables of GitLab CI, Absent or what they hold    *)
(*   twice         those that are set twice                                *)
(*   fork          the values of REVOOT_FORK_BEHAVIOR                      *)
(*   base          the values of the variable for the diff base            *)
(*   url           the values of CI_JOB_URL or GITHUB_RUN_ID               *)
(*   remotes       the other remotes of the checkout, by name              *)
(*   tokens        the GitLab tokens, by source                            *)
(*   cidrs, bundle, pins   the network policy, the addresses of the host   *)
(*   include, exclude, context   the patterns of the configuration         *)
(*   keys, provider, model, enabled   provider keys and configuration      *)
(*   user          the status GitLab answers a probe of the user with      *)
(*   api           the projects and refs of the merge request for the API  *)
(* A commit is "checkout", the one that is checked out, or another.        *)
(***************************************************************************)
EXTENDS ReviewCommand

CONSTANTS
    Absent,         \* of GitLabContext
    Ports,          \* the ports a GitLab origin may have besides the default
    Literals,       \* the host names that are addresses
    Catalog         \* the models, see SelectModel

Context == INSTANCE GitLabContext
Transport == INSTANCE GitLabTransport WITH MaxBody <- 1, MaxRetryAfter <- 600

ASSUME PolicyAssumption == Context!PolicyVerdict(Ports) = "accepted"

MaxProjectDepth == 20
MaxBundle == 1

-----------------------------------------------------------------------------
(* The command line and the contexts.                                      *)

Given(e, option) == Uses(e.args, option) # {}

ValueOf(e, option) ==
    IF Given(e, option) THEN e.args[CHOOSE i \in Uses(e.args, option) : TRUE][2] ELSE None

\* parse_ci_value: one variable of the CI environment.
ParsedField(field, raw) ==
    LET verdict ==
            CASE raw \in {Absent, Malformed} -> "as is"
              [] field = "ServerUrl" -> Context!OriginVerdict(raw, Ports)
              [] field \in {"PipelineProjectPath", "MergeRequestProjectPath",
                            "MergeRequestSourceProjectPath"} ->
                    Context!ProjectPathVerdict(raw, MaxProjectDepth)
              [] field \in {"MergeRequestSourceBranch", "MergeRequestTargetBranch"} ->
                    Context!RefVerdict(raw)
              [] OTHER -> "as is"
    IN  CASE verdict = "as is" -> raw
          [] verdict # "accepted" -> Malformed
          [] OTHER -> IF field = "ServerUrl" THEN Context!Origin(raw) ELSE raw

CiContext(e) ==
    Context!Classify([value |-> [f \in Context!CiFields |-> ParsedField(f, e.ci[f])],
                      twice |-> e.twice])

\* fork_behavior: a fork is skipped unless the job says otherwise.
ForkBehaviour(values) ==
    CASE values = <<>> \/ values = <<"skip">> -> "Skip"
      [] values = <<"report-only">> -> "ReportOnly"
      [] OTHER -> Malformed

\* discover_gitlab_repository: remotes that do not parse are left out.
Discovered(e, hint) ==
    LET expected == IF hint = None THEN None ELSE hint.origin
        usable == {n \in DOMAIN e.remotes :
                        Context!RemoteVerdict(e.remotes[n], Ports, expected) = "accepted"}
    IN  Context!SelectRemote([n \in usable |-> Context!Remote(e.remotes[n], expected)])

Hosts(e, found) ==
    (IF e.pulls THEN {"github"} ELSE {})
    \cup (IF found.verdict = "accepted" THEN {"gitlab"} ELSE {})

\* parse_args and run_async up to the acquisition.
Entry(e, ci, found) ==
    LET asked == Dispatch([github |-> e.github, gitlab |-> ci.class,
                           fork |-> ForkBehaviour(e.fork), ci |-> Given(e, "--ci"),
                           base |-> Given(e, "--base"), mr |-> Given(e, "--mr"),
                           pr |-> Given(e, "--pr"), repo |-> Given(e, "--repo"),
                           remotes |-> Hosts(e, found)])
        base == ConfigurationBase([github |-> e.github, gitlab |-> ci.class],
                                  "base", ExactValue(e.base))
    IN  CASE Refusal(ArgsVerdict(e.args)) -> ArgsVerdict(e.args)
          [] asked \in {"github", "gitlab"} /\ base = Malformed -> "configuration"
          [] OTHER -> asked

\* The job knows the base that its configuration comes from.
Pinned(e, ci) ==
    ConfigurationBase([github |-> e.github, gitlab |-> ci.class], "base",
                      ExactValue(e.base)) # None

-----------------------------------------------------------------------------
(* A GitLab review.                                                        *)

\* select_review: --mr must agree with the pipeline; without a pipeline the
\* project is looked up by the path of the remote.
Selection(e, ci, remote) ==
    LET asked == ValueOf(e, "--mr")
    IN  CASE ci.class = "Ambiguous" -> Context!Refused("Ambiguous")
          [] ci.class = "Missing" /\ asked = None -> Context!Refused("MergeRequestSelectionMissing")
          [] ci.class = "Missing" /\ e.api.target.path # remote.path ->
                Context!Refused("RemoteProjectMismatch")
          [] ci.class = "Missing" ->
                Context!Select(remote, None, [origin |-> remote.origin,
                                              project |-> e.api.target, iid |-> asked])
          [] asked \notin {None, ci.hint.iid} -> Context!Refused("MergeRequestSelectionMismatch")
          [] OTHER -> Context!Select(remote, ci, None)

\* The API's word when the branch is at the commit of the checkout, or has
\* moved on.
Api(e, moved) ==
    [target |-> e.api.target, source |-> e.api.source, iid |-> e.api.iid,
     source_ref |-> e.api.source_ref, target_ref |-> e.api.target_ref,
     head |-> IF moved THEN "newer" ELSE "checkout"]

\* The clients are built for the origin of the remote.
ClientVerdict(e, origin) ==
    LET ca == IF e.bundle = None THEN "bundled" ELSE "custom"
    IN  Transport!BuildVerdict(
            [origin |-> origin, literal |-> origin.host \in Literals, ca |-> ca],
            [adapter |-> "gitlab-rest", route |-> "direct", ca |-> ca, origin |-> origin,
             path |-> "/api/v4", resolved |-> origin.host, pins |-> e.pins])

\* acquire_gitlab_context: the first thing that does not fit, or "accepted".
Acquisition(e, remote, selected, moved) ==
    CASE Context!LoadCredentials(e.tokens, {}).verdict # "accepted" -> "no credential"
      [] Refusal(NetworkVerdict(e.cidrs, e.bundle, MaxBundle)) -> "network"
      [] Refusal(ClientVerdict(e, remote.origin)) -> ClientVerdict(e, remote.origin)
      [] Refusal(selected.verdict) -> selected.verdict
      [] Context!Mismatches(selected, Api(e, moved)) # {} -> "identity"
      [] OTHER ->
            LET context == Context!Verified(selected, Api(e, moved))
                checkout == Context!CheckoutVerdict(remote, "checkout", context,
                                                    [head |-> context.head])
            IN  CASE Refusal(checkout) -> checkout
                  [] SelectionPolicy(e.include, e.exclude, e.context, TRUE) = Malformed -> "patterns"
                  [] ForkBehaviour(e.fork) = Malformed -> "fork behaviour"
                  [] OTHER -> "accepted"

\* ci_job_url, then the provider and its model.
RunVerdict(e, host, origin) == JobUrlVerdict(host, e.url, origin)
ModelVerdict(e) ==
    LET provider == SelectProvider(e.provider, Secrets(e.keys))
    IN  CASE Refusal(SecretsVerdict(e.keys)) -> "no credential"
          [] provider \in {"unsupported", "no credential"} -> provider
          [] SelectModel(provider, e.model, Catalog)
                \in {"invalid catalog", "no default model"} -> "no model"
          [] OTHER -> "accepted"

\* probe_gitlab_user.
User(status) ==
    IF status = 200 THEN [id |-> 1, failure |-> None]
    ELSE [id |-> 0, failure |-> Context!ProbeFailure(Transport!StatusKind(status))]

\* The header a token is sent in, and the merge request it is sent to.
TokenKind(source) ==
    CASE source \in {"RevootPrivateToken", "GitLabPrivateToken"} -> "PrivateToken"
      [] source = "RevootBearerToken" -> "Bearer"
      [] source = "CiJobToken" -> "JobToken"
Address(source, selected) ==
    [header |-> Transport!WriteAuthentication(TokenKind(source)),
     path |-> Transport!WriteSegments([kind |-> "UpdateMergeRequestDescription",
                 project |-> selected.project.id, iid |-> selected.iid])]

-----------------------------------------------------------------------------
(* What a job makes of its environment.                                    *)

NoSetup(host) == [host |-> host]

GitHubSetup(e) ==
    [host |-> "github", pinned |-> e.github = "ready", class |-> "Missing",
     fork |-> e.github = "ready" /\ e.forked, behaviour |-> "Skip", enabled |-> e.enabled,
     credential |-> "token", user |-> User(200), address |-> None,
     run |-> RunVerdict(e, "github", None), model |-> ModelVerdict(e)]

GitLabSetup(e, ci, remote, selected) ==
    LET source == Context!LoadCredentials(e.tokens, {}).source
    IN  [host |-> "gitlab", pinned |-> Pinned(e, ci), class |-> ci.class,
         fork |-> ci.class = "ForkMismatch", behaviour |-> ForkBehaviour(e.fork),
         enabled |-> e.enabled, credential |-> source, user |-> User(e.user),
         address |-> Address(source, selected),
         acquires |-> [moved \in BOOLEAN |->
                          Acquisition(e, remote, selected, moved) = "accepted"],
         run |-> RunVerdict(e, "gitlab", remote.origin), model |-> ModelVerdict(e)]

\* A job is set up for the host it asks; "skip", "local", "help" and
\* "diagnostic" end it before any request that names the change.
SetupFound(e, ci, found) ==
    LET entry == Entry(e, ci, found)
    IN  CASE entry = "github" -> GitHubSetup(e)
          [] entry \in {"skip", "local", "help"} -> NoSetup(entry)
          [] entry # "gitlab" -> NoSetup("diagnostic")
          [] \E selected \in {Selection(e, ci, found.remote)} :
                Refusal(Acquisition(e, found.remote, selected, FALSE)) ->
                NoSetup("diagnostic")
          [] OTHER -> GitLabSetup(e, ci, found.remote, Selection(e, ci, found.remote))

Setup(e) ==
    LET ci == CiContext(e)
    IN  SetupFound(e, ci, Discovered(e, ci.hint))
=============================================================================
