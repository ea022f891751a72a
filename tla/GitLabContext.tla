---------------------------- MODULE GitLabContext ----------------------------
(***************************************************************************)
(* From the variables of a CI job to the authority to publish: how the     *)
(* untrusted environment is classified (gitlab_context.rs), which merge    *)
(* request is selected and how the API's answer confirms it                *)
(* (gitlab_checkout.rs, gitlab_context.rs), and what the job may then do   *)
(* (gitlab_ci_runtime.rs).                                                 *)
(*                                                                         *)
(* An environment is a record: value (a function from the fields to what   *)
(* they parse to, Absent when not set or empty, Malformed when refused)    *)
(* and twice (the fields that are set more than once).  A project is a     *)
(* record of id and path; a path and an origin stand for their canonical   *)
(* form.                                                                   *)
(***************************************************************************)
EXTENDS Integers, Sequences, FiniteSets, SequencesExt

CONSTANTS Absent, Malformed, None

If(condition, item) == IF condition THEN {item} ELSE {}

-----------------------------------------------------------------------------
(* Names.  An origin is described by the parts of its text; a path or a    *)
(* ref is a sequence of components, each one of                            *)
(*   "name", "", "long", "dots", "hidden", "lock", "bad character"         *)

DefaultPort == 443

PolicyVerdict(ports) ==
    CASE 0 \in ports -> "ZeroPort"
      [] DefaultPort \in ports -> "DefaultPort"
      [] OTHER -> "accepted"

\* GitLabOrigin::parse over [scheme, extra, slashes, host, port]: the parts
\* beyond the authority are refused in this order; one trailing slash is not
\* a path.
OriginVerdict(o, ports) ==
    CASE o.scheme # "https" -> "Scheme"
      [] o.extra \in {"UserInfo", "Query", "Fragment"} -> o.extra
      [] o.slashes > 1 \/ o.extra = "Path" -> "Path"
      [] o.port = Malformed -> "Port"
      [] o.host \in {"", Malformed} -> "Host"
      [] o.port \notin {Absent, DefaultPort} \cup ports -> "UnsupportedPort"
      [] OTHER -> "accepted"

\* Host names are lower case and the default port is not written, so that one
\* origin has one form.
Origin(o) ==
    [host |-> o.host, port |-> IF o.port = Absent THEN DefaultPort ELSE o.port]

ComponentError(c) ==
    CASE c \in {"", "long", "dots"} -> "Component"
      [] c = "bad character" -> "Character"
      [] OTHER -> "accepted"

FirstError(verdicts) ==
    LET bad == SelectSeq(verdicts, LAMBDA v : v # "accepted")
    IN  IF bad = <<>> THEN "accepted" ELSE Head(bad)

\* GitLabProjectPath::try_from; "a.lock" and ".hidden" are fine for a project.
ProjectPathVerdict(components, deepest) ==
    CASE components = <<>> -> "Empty"
      [] Len(components) \notin 2..deepest -> "Depth"
      [] OTHER -> FirstError([i \in DOMAIN components |-> ComponentError(components[i])])

\* GitRefName::try_from: an empty component is an ambiguous sequence already.
RefVerdict(components) ==
    CASE components = <<>> -> "Empty"
      [] "" \in ToSet(components) \/ "dots" \in ToSet(components) -> "Ambiguous"
      [] OTHER -> FirstError([i \in DOMAIN components |->
            IF components[i] \in {"hidden", "lock"} THEN "Component"
            ELSE ComponentError(components[i])])

-----------------------------------------------------------------------------
(* The environment of the job.                                             *)

RequiredFields ==
    {"ServerUrl", "PipelineSource", "PipelineProjectId", "PipelineProjectPath",
     "MergeRequestProjectId", "MergeRequestProjectPath", "MergeRequestIid",
     "MergeRequestSourceProjectId", "MergeRequestSourceProjectPath",
     "MergeRequestSourceBranch", "MergeRequestTargetBranch",
     "MergeRequestEventType", "CommitSha"}
CiFields == RequiredFields \cup {"MergeRequestSourceBranchSha"}

\* Fields whose text is compared and not parsed.
TextFields == {"PipelineSource", "MergeRequestEventType"}

MissingFields(env) == {f \in RequiredFields : env.value[f] = Absent}

InvalidFields(env) == {f \in CiFields \ TextFields : env.value[f] = Malformed}

\* validate_ci_execution.
ExecutionReasons(env) ==
    LET v == env.value
    IN  If(v["PipelineSource"] \notin {Absent, "merge_request_event"},
           <<"UnsupportedPipelineSource">>)
        \cup If(v["MergeRequestEventType"] \notin {Absent, "detached"},
                <<"UnsupportedMergeRequestEventType">>)
        \cup If(/\ {v["MergeRequestSourceBranchSha"], v["CommitSha"]}
                        \cap {Absent, Malformed} = {}
                /\ v["MergeRequestSourceBranchSha"] # v["CommitSha"],
                <<"ConflictingHeadSha">>)

Reasons(env) ==
    {<<"DuplicateVariable", f>> : f \in env.twice \cap CiFields}
    \cup {<<"InvalidValue", f>> : f \in InvalidFields(env)}
    \cup ExecutionReasons(env)

Project(env, prefix) ==
    [id |-> env.value[prefix \o "ProjectId"], path |-> env.value[prefix \o "ProjectPath"]]

Hint(env) ==
    [origin |-> env.value["ServerUrl"],
     pipeline |-> Project(env, "Pipeline"),
     target |-> Project(env, "MergeRequest"),
     source |-> Project(env, "MergeRequestSource"),
     iid |-> env.value["MergeRequestIid"],
     source_ref |-> env.value["MergeRequestSourceBranch"],
     target_ref |-> env.value["MergeRequestTargetBranch"],
     head |-> env.value["CommitSha"]]

\* Two projects have the same identifier exactly if they have the same path.
Consistent(p, q) == (p.id = q.id) = (p.path = q.path)

Classified(class, hint) == [class |-> class, hint |-> hint]

\* classify_project_relationship.
ClassifyProjects(h) ==
    CASE ~(/\ Consistent(h.pipeline, h.target)
           /\ Consistent(h.pipeline, h.source)
           /\ Consistent(h.source, h.target)) -> Classified("Ambiguous", None)
      [] h.pipeline \notin {h.target, h.source} -> Classified("Ambiguous", None)
      [] h.source # h.target -> Classified("ForkMismatch", h)
      [] OTHER -> Classified("Ready", h)

\* classify_gitlab_ci_environment: what is wrong decides before what is
\* missing.
Classify(env) ==
    CASE Reasons(env) # {} -> Classified("Ambiguous", None)
      [] MissingFields(env) # {} -> Classified("Missing", None)
      [] OTHER -> ClassifyProjects(Hint(env))

-----------------------------------------------------------------------------
(* The checkout's remote and the selection of a merge request.             *)

\* parse_gitlab_remote_url over [form, user, password, extra, host, port, path]:
\* the runner's credentials are accepted only next to an expected origin.
RemoteVerdict(r, ports, expected) ==
    LET runner == expected # None /\ r.user = "gitlab-ci-token" /\ r.password
        credentials == r.user # "" \/ r.password
        origin == [host |-> r.host, port |-> r.port]
    IN  CASE r.form \notin {"https", "ssh", "scp"} -> "UnsupportedRemote"
          [] r.form = "https" /\ credentials /\ ~runner -> "UnsupportedRemote"
          [] r.form = "ssh" /\ (r.user # "git" \/ r.password) -> "UnsupportedRemote"
          [] r.form # "scp" /\ r.extra \in {"Query", "Fragment"} -> "UnsupportedRemote"
          [] r.host = "" -> "UnsupportedRemote"
          [] expected # None /\ r.host # expected.host -> "RemoteOriginMismatch"
          [] r.form = "https" /\ r.port \notin {DefaultPort} \cup ports -> "UnsupportedRemote"
          [] r.form = "https" /\ expected # None /\ origin # expected -> "RemoteOriginMismatch"
          [] r.path = Malformed -> "UnsupportedRemote"
          [] OTHER -> "accepted"

\* The port of an ssh remote says nothing of the API.
Remote(r, expected) ==
    [origin |-> CASE expected # None -> expected
                  [] r.form = "https" -> [host |-> r.host, port |-> r.port]
                  [] OTHER -> [host |-> r.host, port |-> DefaultPort],
     path |-> r.path]

\* select_remote over a function from the remotes' names.
SelectRemote(remotes) ==
    LET found == {remotes[n] : n \in DOMAIN remotes}
    IN  CASE "origin" \in DOMAIN remotes ->
                [verdict |-> "accepted", remote |-> remotes["origin"]]
          [] found = {} -> [verdict |-> "NoRemote"]
          [] Cardinality(found) > 1 -> [verdict |-> "AmbiguousRemote"]
          [] OTHER -> [verdict |-> "accepted", remote |-> CHOOSE r \in found : TRUE]

Refused(error) == [verdict |-> error, origin |-> None, project |-> None, iid |-> None, hint |-> None]
Selected(origin, project, iid, hint) ==
    [verdict |-> "accepted", origin |-> origin, project |-> project, iid |-> iid, hint |-> hint]

\* select_gitlab_merge_request: ci is a classification or None, explicit a
\* selection or None, remote what the checkout was cloned from.
Select(remote, ci, explicit) ==
    IF ci = None
    THEN CASE explicit = None -> Refused("MergeRequestSelectionMissing")
           [] explicit.origin # remote.origin -> Refused("RemoteOriginMismatch")
           [] OTHER -> Selected(explicit.origin, explicit.project, explicit.iid, None)
    ELSE CASE ci.hint = None -> Refused("MergeRequestSelectionMismatch")
           [] remote.origin # ci.hint.origin -> Refused("RemoteOriginMismatch")
           [] remote.path # ci.hint.source.path -> Refused("RemoteProjectMismatch")
           [] explicit # None
                /\ explicit # [origin |-> ci.hint.origin, project |-> ci.hint.target,
                               iid |-> ci.hint.iid] ->
                Refused("MergeRequestSelectionMismatch")
           [] OTHER -> Selected(ci.hint.origin, ci.hint.target, ci.hint.iid, ci.hint)

-----------------------------------------------------------------------------
(* The API's word.                                                         *)

\* The project the pipeline claims to run in, as the API knows it; None when
\* the hint is neither.
PipelineProject(hint, api) ==
    CASE hint.pipeline = hint.source -> api.source
      [] hint.pipeline = hint.target -> api.target
      [] OTHER -> None

ProjectMismatches(name, p, q) ==
    If(p.id # q.id, name \o "Id") \cup If(p.path # q.path, name \o "Path")

HintMismatches(input, api) ==
    LET h == input.hint
        pipeline == PipelineProject(h, api)
    IN  If(h.origin # input.origin, "CiOrigin")
        \cup (IF pipeline = None
              THEN {"CiPipelineProjectId", "CiPipelineProjectPath"}
              ELSE ProjectMismatches("CiPipelineProject", h.pipeline, pipeline))
        \cup ProjectMismatches("CiTargetProject", h.target, api.target)
        \cup ProjectMismatches("CiSourceProject", h.source, api.source)
        \cup If(h.iid # api.iid, "CiMergeRequestIid")
        \cup If(h.source_ref # api.source_ref, "CiSourceRef")
        \cup If(h.target_ref # api.target_ref, "CiTargetRef")
        \cup If(h.head # api.head, "CiHeadSha")

\* GitLabVerificationInput::verify: the mismatches, none when verified.
Mismatches(input, api) ==
    ProjectMismatches("ConfiguredProject", input.project, api.target)
    \cup If(input.iid # api.iid, "ConfiguredMergeRequestIid")
    \cup (IF input.hint = None THEN {} ELSE HintMismatches(input, api))

Verified(input, api) ==
    [origin |-> input.origin, target |-> api.target, source |-> api.source,
     iid |-> api.iid, source_ref |-> api.source_ref, target_ref |-> api.target_ref,
     head |-> api.head]

\* bind_checkout_to_snapshot.
CheckoutVerdict(remote, head, context, refs) ==
    CASE remote.origin # context.origin -> "RemoteOriginMismatch"
      [] remote.path # context.source.path -> "RemoteProjectMismatch"
      [] head # context.head \/ head # refs.head -> "CheckoutHeadMismatch"
      [] OTHER -> "accepted"

-----------------------------------------------------------------------------
(* Credentials and readiness.                                              *)

CredentialSources ==
    <<"RevootPrivateToken", "GitLabPrivateToken", "RevootBearerToken", "CiJobToken">>

\* load_gitlab_credentials: the first source in order that is set.  tokens is
\* a function from the sources to Absent, Malformed or a token.
LoadCredentials(tokens, twice) ==
    LET set == {i \in DOMAIN CredentialSources : tokens[CredentialSources[i]] # Absent}
        source == CredentialSources[CHOOSE i \in set : \A k \in set : i <= k]
    IN  CASE twice # {} -> [verdict |-> "DuplicateVariable"]
          [] set = {} -> [verdict |-> "Missing"]
          [] tokens[source] = Malformed -> [verdict |-> "Invalid"]
          [] OTHER -> [verdict |-> "accepted", source |-> source,
                       write |-> source # "CiJobToken"]

\* classify_probe_transport; a failure kind of the transport.
ProbeFailure(kind) ==
    CASE kind = "Authentication" -> "Authentication"
      [] kind \in {"Forbidden", "NotFound"} -> "Authorization"
      [] OTHER -> "Unavailable"

\* A mode that is what the configuration asks for, whoever's change it is.
ModeIgnoresFork(in) == in.publication
\* What diagnose_gitlab_readiness makes of its input: the mode of execution.
Mode(in) ==
    CASE in.ci = "ForkMismatch" /\ in.fork = "ReportOnly" -> "ReportOnly"
      [] in.ci = "ForkMismatch" /\ in.fork = "Skip" -> "Skip"
      [] OTHER -> in.publication

\* The codes that block, in no order: any of them withholds the authority.
ContextBlocks(in) ==
    If(in.ci = "Missing", "MissingCiContext")
    \cup If(in.ci = "Ambiguous", "AmbiguousCiContext")
    \cup If(in.ci = "ForkMismatch" /\ in.fork = "TrustedTargetPipeline" /\ ~in.trusted,
            "ForkTargetPipelineRequired")

UserBlocks(user) ==
    CASE user.id > 0 -> {}
      [] user.failure \in {None, "InvalidResponse"} -> {"BotIdentityUnavailable"}
      [] user.failure = "Authentication" -> {"GitLabAuthenticationFailed"}
      [] user.failure = "Authorization" -> {"GitLabAuthorizationFailed"}
      [] user.failure = "Unavailable" -> {"GitLabUnavailable"}

Blocking(in) ==
    ContextBlocks(in)
    \cup If(~in.bound /\ Mode(in) # "Skip", "CheckoutUnbound")
    \cup If(~in.provider /\ Mode(in) # "Skip", "ProviderUnavailable")
    \cup (IF Mode(in) = "Publish"
          THEN If(in.credential = None, "MissingCredential")
               \cup If(in.credential = "CiJobToken", "JobTokenCannotPublish")
               \cup UserBlocks(in.user)
          ELSE {})

\* GitLabReadiness::publication_authorization.
Authorized(in) == Mode(in) = "Publish" /\ Blocking(in) = {}
=============================================================================
