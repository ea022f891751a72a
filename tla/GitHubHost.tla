----------------------------- MODULE GitHubHost -----------------------------
(***************************************************************************)
(* GitHub from outside the review: which repository, pull request and head *)
(* a job is for (github_checkout.rs), and the client that talks to the     *)
(* REST interface (github_transport.rs) behind an authorization of the     *)
(* egress gateway (Egress).                                                *)
(*                                                                         *)
(* An environment is a sequence of [name, value].  A repository is         *)
(* [name, id].  A url is [scheme, user, host, port, path, extra], where    *)
(* path is a sequence of segments and extra says what a url of its kind    *)
(* must not have (a password, a query, a fragment).                        *)
(***************************************************************************)
EXTENDS Egress

CONSTANTS
    MaxEventBytes,  \* MAX_EVENT_BYTES
    MaxTokenBytes,  \* MAX_TOKEN_BYTES
    MaxBodyBytes,   \* MAX_BODY_BYTES
    MaxCertificates, MaxCertificateBytes, MaxBundleBytes

Port(url) == IF url.port = None THEN 443 ELSE url.port

-----------------------------------------------------------------------------
(* The job and its event.                                                  *)

EventNames == {"GITHUB_ACTIONS", "GITHUB_EVENT_NAME", "GITHUB_EVENT_PATH", "GITHUB_SERVER_URL"}
TokenNames == {"REVOOT_GITHUB_TOKEN", "GH_TOKEN", "GITHUB_TOKEN"}

ValuesOf(environment, name) ==
    {environment[i].value : i \in {j \in DOMAIN environment : environment[j].name = name}}
Value(environment, name) ==
    IF ValuesOf(environment, name) = {} THEN None
    ELSE CHOOSE v \in ValuesOf(environment, name) : TRUE

\* unique_environment: names of other variables may repeat.
Repeats(environment, names) ==
    \E i, j \in DOMAIN environment :
        i # j /\ environment[i].name = environment[j].name /\ environment[i].name \in names

\* GitHubRepositorySlug::parse over the components of a name.
SlugValid(slug) == Len(slug) = 2 /\ \A i \in DOMAIN slug : slug[i] \notin {"", ".", "..", "invalid"}

\* GitHubServer::from_web_origin.
ServerVerdict(url) ==
    IF url.scheme # "https" \/ url.user # "" \/ url.extra # None \/ url.path # <<>> \/ url.host = ""
    THEN "InvalidServer" ELSE "accepted"

Public == [scheme |-> "https", user |-> "", host |-> "github.com", port |-> None,
           path |-> <<>>, extra |-> None]

Server(url) ==
    [host |-> url.host, port |-> Port(url),
     api |-> IF url.host = "github.com" /\ Port(url) = 443
             THEN [host |-> "api.github.com", port |-> 443, path |-> <<>>]
             ELSE [host |-> url.host, port |-> Port(url), path |-> <<"api", "v3">>]]

Refused(why) == [accepted |-> FALSE, why |-> why]

\* parse_github_event; the event names each repository twice.
EventVerdict(event, url) ==
    CASE event.bytes > MaxEventBytes -> "EventTooLarge"
      [] event.malformed \/ event.action = "" \/ event.state # "open" -> "InvalidEvent"
      [] \E r \in {event.repository, event.head.repo, event.base.repo} : ~SlugValid(r.name) ->
            "InvalidRepository"
      [] event.repository # event.base.repo \/ event.number # event.pull_number ->
            "ContextMismatch"
      [] ServerVerdict(url) # "accepted" -> "InvalidServer"
      [] event.repository.id = 0 \/ event.number = 0 -> "InvalidEvent"
      [] "invalid" \in {event.base.sha, event.head.sha} -> "InvalidEvent"
      [] OTHER -> "accepted"

Event(event, url) ==
    IF EventVerdict(event, url) # "accepted" THEN Refused(EventVerdict(event, url))
    ELSE [accepted |-> TRUE, server |-> Server(url),
          target |-> event.repository.name, target_id |-> event.repository.id,
          source |-> event.head.repo.name, number |-> event.number,
          base |-> event.base.sha, head |-> event.head.sha,
          fork |-> event.head.repo.id # event.base.repo.id]

\* classify_github_actions: None away from Actions.  file is what opening the
\* path of the event gives.
Classified(environment, file) ==
    CASE Repeats(environment, EventNames) -> Refused("ContextMismatch")
      [] Value(environment, "GITHUB_ACTIONS") # "true" -> None
      [] Value(environment, "GITHUB_EVENT_NAME") = None -> Refused("MissingActionsContext")
      [] Value(environment, "GITHUB_EVENT_NAME") # "pull_request" ->
            Refused("UnsupportedActionsEvent")
      [] Value(environment, "GITHUB_EVENT_PATH") = None -> Refused("MissingActionsContext")
      [] file.fault = "unavailable" -> Refused("EventUnavailable")
      [] file.fault = "not a file" \/ file.event.bytes > MaxEventBytes -> Refused("EventTooLarge")
      [] OTHER -> Event(file.event,
            IF Value(environment, "GITHUB_SERVER_URL") = None THEN Public
            ELSE Value(environment, "GITHUB_SERVER_URL"))

-----------------------------------------------------------------------------
(* The checkout.  Its remotes are a set of [name, url].                    *)

RemoteUrlValid(url) ==
    /\ url.scheme \in {"https", "ssh", "scp"} /\ url.extra = None /\ url.host # ""
    /\ url.user = IF url.scheme = "https" THEN "" ELSE "git"

\* parse_github_remote: the server and repository, None if it is no remote of
\* GitHub; expected is a server or None.  Only the host of a server is compared.
Remote(url, expected) ==
    CASE ~RemoteUrlValid(url) \/ ~SlugValid(url.path) -> None
      [] expected # None /\ url.host # expected.host -> None
      [] expected = None /\ url.host # Public.host -> None
      [] OTHER -> [server |-> IF expected = None THEN Server(Public) ELSE expected,
                   repository |-> url.path]

\* discover_github_repository: origin, or what all the others agree on.
Discovered(checkout, expected) ==
    LET known == {r \in checkout.remotes : Remote(r.url, expected) # None}
        named == {r \in known : r.name = "origin"}
        candidates == {Remote(r.url, expected) : r \in IF named # {} THEN named ELSE known}
    IN  CASE ~checkout.repository -> Refused("NotRepository")
          [] checkout.head = "invalid" -> Refused("InvalidHead")
          [] \E r \in checkout.remotes : r.name = "invalid" -> Refused("UnsupportedRemote")
          [] candidates = {} -> Refused("NoRemote")
          [] Cardinality(candidates) > 1 -> Refused("AmbiguousRemote")
          [] OTHER -> [accepted |-> TRUE, head |-> checkout.head,
                       remote |-> CHOOSE c \in candidates : TRUE]

\* discover_github_actions_repository: the remotes of a mounted checkout are
\* ignored, the event says which repository it is.
DiscoveredInActions(checkout, context) ==
    CASE ~checkout.repository -> Refused("NotRepository")
      [] checkout.head = "invalid" -> Refused("InvalidHead")
      [] OTHER -> [accepted |-> TRUE, head |-> checkout.head,
                   remote |-> [server |-> context.server, repository |-> context.target]]

-----------------------------------------------------------------------------
(* The client.                                                             *)

TokenValid(token) == token.bytes \in 1..MaxTokenBytes /\ token.printable

TokenOrder == <<"REVOOT_GITHUB_TOKEN", "GH_TOKEN", "GITHUB_TOKEN">>

\* load_github_token: an empty value is passed over, an invalid one is not.
LoadedToken(environment) ==
    LET present == SelectSeq(TokenOrder, LAMBDA n :
                        Value(environment, n) # None /\ Value(environment, n).bytes > 0)
    IN  CASE Repeats(environment, TokenNames) -> Refused("DuplicateCredential")
          [] present = <<>> -> Refused("MissingCredential")
          [] ~TokenValid(Value(environment, Head(present))) -> Refused("InvalidCredential")
          [] OTHER -> [accepted |-> TRUE, source |-> Head(present),
                       token |-> Value(environment, Head(present))]

\* GitHubCustomCaBundle::from_der: sizes of the certificates, and their digest.
BundleVerdict(sizes, digest, expected) ==
    IF \/ Len(sizes) \notin 1..MaxCertificates
       \/ \E i \in DOMAIN sizes : sizes[i] \notin 1..MaxCertificateBytes
       \/ FoldLeft(LAMBDA n, s : n + s, 0, sizes) > MaxBundleBytes
       \/ digest # expected
    THEN "InvalidConfiguration" ELSE "accepted"

\* parse_api_root.
ApiRootValid(url) ==
    /\ url.scheme = "https" /\ url.user = "" /\ url.extra = None
    /\ url.host \notin {"", "literal"} /\ url.path \in {<<>>, <<"api", "v3">>}

\* validate_authorization: a client is for what the gateway authorized.
AuthorizationFits(url, ca, auth) ==
    /\ auth.allowed /\ auth.adapter = "github-rest" /\ auth.route = "Direct" /\ auth.ca = ca
    /\ auth.endpoint.origin = [host |-> url.host, port |-> Port(url)]
    /\ auth.endpoint.path = url.path /\ auth.resolution.host = url.host

\* GitHubClient::new_with_ca.
Client(url, ca, auth) ==
    IF ~ApiRootValid(url) \/ ~AuthorizationFits(url, ca, auth) \/ auth.resolution.pins = {}
       \/ \E a \in auth.resolution.pins : Class(a) = "Unspecified"
    THEN Refused("InvalidConfiguration")
    ELSE [accepted |-> TRUE, host |-> url.host, port |-> Port(url), root |-> url.path,
          pins |-> auth.resolution.pins]

\* request: the path of a call is its root, "repos" and the repository (None for
\* calls outside one), and the segments of the call.
RequestPath(client, slug, segments) ==
    [root |-> client.root, repository |-> slug, call |-> segments]

\* graphql: a sibling of the root of an Enterprise server.
GraphqlPath(client) ==
    [root |-> IF client.root = <<"api", "v3">> THEN <<"api">> ELSE <<>>,
     repository |-> None, call |-> <<"graphql">>]

StatusKind(status) ==
    CASE status \in 500..599 -> "Server"
      [] status = 401 -> "Unauthorized"
      [] status = 403 -> "Forbidden"
      [] status = 404 -> "NotFound"
      [] status = 409 -> "Conflict"
      [] status = 422 -> "Unprocessable"
      [] status = 429 -> "RateLimited"
      [] OTHER -> "UnexpectedStatus"

\* send: sizes are those of the chunks; broken is where the connection ends,
\* None if it does not.
Answer(r) ==
    CASE r.broken = "before the answer" -> "Transport"
      [] r.encoding \notin {None, "identity"} -> "InvalidResponse"
      [] r.length # None /\ r.length > MaxBodyBytes -> "ResponseTooLarge"
      [] r.bytes > MaxBodyBytes -> "ResponseTooLarge"
      [] r.broken = "in the body" -> "Transport"
      [] r.status \notin 200..299 -> StatusKind(r.status)
      [] OTHER -> "success"
=============================================================================
