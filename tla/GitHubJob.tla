------------------------------ MODULE GitHubJob ------------------------------
(***************************************************************************)
(* The way of a review of a pull request to the REST interface             *)
(* (run_async and acquire_github_context of review_command.rs): the event  *)
(* or the command line names the pull request, the checkout its server,    *)
(* the platform resolver the addresses, once, and every request goes to    *)
(* one of these.  Meanwhile the names may come to resolve to other         *)
(* addresses and the checkout may move.                                    *)
(*                                                                         *)
(* A setup is what a job finds: environment, event (what opening the event *)
(* file gives), number and repository (of the command line, or None),      *)
(* remotes, blocks and bundle (None, or the certificates [sizes, digest])  *)
(* of the network section of the configuration.                            *)
(***************************************************************************)
EXTENDS GitHubHost

CONSTANTS
    Setups,         \* what a job may find
    Heads,          \* the commits a checkout may be at
    Hosts,          \* the names that resolve
    AnswerSets,     \* the sets of addresses a name may resolve to
    Responses,      \* the responses to a request
    MaxRebinds, MaxRequests

VARIABLES
    net,            \* host |-> the addresses it resolves to now
    checkout,       \* the head of the checkout now
    rebinds,
    job,            \* the job, at its phase
    sent            \* every request on the wire
githubVars == <<net, checkout, rebinds, job, sent>>

\* configured_github_server: None when the variable is not set.
ConfiguredServer(environment) ==
    LET url == Value(environment, "REVOOT_GITHUB_SERVER_URL")
    IN  CASE Repeats(environment, {"REVOOT_GITHUB_SERVER_URL"}) -> Refused("defined twice")
          [] url = None -> None
          [] url # None /\ ServerVerdict(url) # "accepted" -> Refused("not an origin")
          [] OTHER -> [accepted |-> TRUE, server |-> Server(url)]

\* Repositories are named by strings, and what stands for nothing is neither an
\* event of a job of Actions nor a server that was configured.
ASSUME SetupAssumption ==
    /\ None \notin Seq(STRING)
    /\ \A setup \in Setups :
        LET url == Value(setup.environment, "REVOOT_GITHUB_SERVER_URL")
        IN  /\ \/ setup.repository = None
               \/ setup.repository \in Seq(STRING) /\ SlugValid(setup.repository)
            /\ setup.event.fault \in {None, "unavailable", "not a file"}
            /\ setup.event.fault = None => setup.event.event.repository.name \in Seq(STRING)
            /\ \A r \in setup.remotes : r.url.path \in Seq(STRING)
            /\ Value(setup.environment, "GITHUB_ACTIONS") = "true" =>
                    Classified(setup.environment, setup.event) # None
            /\ url # None =>
                    Server(url) # None /\ ConfiguredServer(setup.environment) # None

NoSetup == [phase |-> "idle", setup |-> None, event |-> None, expected |-> None,
            found |-> None, target |-> None, token |-> None, client |-> None,
            requests |-> 0, outcome |-> None]

JobEnds(outcome) ==
    /\ job' = [job EXCEPT !.phase = "ended", !.outcome = outcome]
    /\ UNCHANGED sent

Advance(next) == job' = next /\ UNCHANGED sent

\* The contexts: the event of Actions, else the configured server.
BeginJob(setup) ==
    LET event == Classified(setup.environment, setup.event)
        configured == ConfiguredServer(setup.environment)
        begun == [NoSetup EXCEPT !.phase = "discover", !.setup = setup, !.event = event]
    IN  /\ job.phase = "idle"
        /\ CASE event # None /\ ~event.accepted -> JobEnds(event.why)
             [] configured # None /\ ~configured.accepted -> JobEnds(configured.why)
             [] OTHER -> Advance([begun EXCEPT
                    !.expected = IF event # None THEN event.server
                                 ELSE IF configured # None THEN configured.server ELSE None])

\* The discovery: the head and the remotes of the checkout are read here.
Discover ==
    /\ job.phase = "discover"
    /\ LET repository == [repository |-> TRUE, head |-> checkout, remotes |-> job.setup.remotes]
           found == IF job.event # None THEN DiscoveredInActions(repository, job.event)
                    ELSE Discovered(repository, job.expected)
       IN  IF found.accepted
           THEN Advance([job EXCEPT !.phase = "target", !.found = found])
           ELSE JobEnds(found.why)

\* Which repository, pull request and token.
Target(j) ==
    LET setup == j.setup
        named == IF setup.repository # None THEN setup.repository
                 ELSE j.found.remote.repository
    IN  CASE j.event # None /\ setup.number \notin {None, j.event.number} ->
                Refused("--pr conflicts")
          [] /\ j.event # None /\ setup.number \in {None, j.event.number}
             /\ setup.repository \notin {None, j.event.target} -> Refused("--repo conflicts")
          [] j.event = None /\ setup.number = None -> Refused("--pr required")
          [] OTHER ->
                IF j.event = None
                THEN [accepted |-> TRUE, repository |-> named, number |-> setup.number,
                      fork |-> FALSE]
                ELSE [accepted |-> TRUE, repository |-> j.event.target,
                      number |-> j.event.number, fork |-> j.event.fork]

NetworkRefused(setup) ==
    \/ \E b \in ToSet(setup.blocks) : CidrVerdict(b) # "accepted"
    \/ setup.bundle # None
       /\ BundleVerdict(setup.bundle.sizes, setup.bundle.digest, setup.bundle.digest) # "accepted"

Select ==
    /\ job.phase = "target"
    /\ LET target == Target(job)
           token == LoadedToken(job.setup.environment)
       IN  CASE ~target.accepted -> JobEnds(target.why)
             [] target.accepted /\ ~token.accepted -> JobEnds(token.why)
             [] target.accepted /\ token.accepted /\ NetworkRefused(job.setup) ->
                    JobEnds("network")
             [] OTHER -> Advance([job EXCEPT !.phase = "connect", !.target = target,
                                             !.token = token.source])

\* authorize_configured_provider with what the resolver says now, and the
\* client that is built from it.
Authorization(api, addresses, ca, blocks) ==
    IF EndpointVerdict(api) # "accepted" THEN Denied(<<EndpointVerdict(api)>>)
    ELSE AuthorizeResolved("github-rest", Endpoint(api), addresses, ca, blocks)

ConnectWith(client) ==
    IF client.accepted THEN Advance([job EXCEPT !.phase = "talk", !.client = client])
    ELSE JobEnds(client.why)

ConnectAuthorized(api, ca, auth) ==
    IF auth.allowed THEN ConnectWith(Client(api, ca, auth)) ELSE JobEnds(auth.why)

Connect ==
    /\ job.phase = "connect"
    /\ LET root == job.found.remote.server.api
           api == [scheme |-> "https", user |-> "", host |-> root.host, port |-> root.port,
                   path |-> root.path, extra |-> None]
           ca == IF job.setup.bundle = None THEN "bundled" ELSE job.setup.bundle.digest
           addresses == IF api.host \in Hosts THEN net[api.host] ELSE {}
       IN  ConnectAuthorized(api, ca, Authorization(api, addresses, ca, job.setup.blocks))

\* The calls of a review: the pull request, its files, its comments, and its
\* threads in GraphQL.
Calls(target) ==
    LET number == ToString(target.number)
    IN  {<<"pulls", number>>, <<"pulls", number, "files">>, <<"pulls", number, "comments">>,
         <<"graphql">>}

\* request or graphql over send; redirects are answers like any other.
SendRequest ==
    /\ job.phase = "talk" /\ job.requests < MaxRequests
    /\ \E call \in Calls(job.target), address \in job.client.pins, r \in Responses :
        /\ sent' = sent \cup
            {[address |-> address, host |-> job.client.host, port |-> job.client.port,
              token |-> job.token,
              path |-> IF call = <<"graphql">> THEN GraphqlPath(job.client)
                       ELSE RequestPath(job.client, job.target.repository, call)]}
        /\ job' = IF Answer(r) = "success" THEN [job EXCEPT !.requests = @ + 1]
                  ELSE [job EXCEPT !.phase = "ended", !.outcome = Answer(r)]

Finish ==
    /\ job.phase = "talk" /\ job.requests = MaxRequests
    /\ JobEnds("answered")

JobStep ==
    /\ \/ \E setup \in Setups : BeginJob(setup)
       \/ Discover \/ Select \/ Connect \/ SendRequest \/ Finish
    /\ UNCHANGED <<net, checkout, rebinds>>

\* Whoever owns a name, and the checkout.
Rebind(host, addresses) ==
    /\ job.phase \notin {"idle", "ended"} /\ rebinds < MaxRebinds
    /\ net[host] # addresses
    /\ net' = [net EXCEPT ![host] = addresses]
    /\ rebinds' = rebinds + 1
    /\ UNCHANGED <<checkout, job, sent>>

MoveCheckout(h) ==
    /\ job.phase \in {"discover", "target"} /\ rebinds < MaxRebinds /\ h # checkout
    /\ checkout' = h
    /\ rebinds' = rebinds + 1
    /\ UNCHANGED <<net, job, sent>>

GitHubInit ==
    /\ net \in [Hosts -> AnswerSets]
    /\ checkout \in Heads /\ rebinds = 0
    /\ job = NoSetup /\ sent = {}

GitHubNext ==
    \/ JobStep
    \/ \E host \in Hosts, addresses \in AnswerSets : Rebind(host, addresses)
    \/ \E h \in Heads : MoveCheckout(h)

-----------------------------------------------------------------------------
\* authorize_configured_provider, resolve_to_addrs, acquire_github_context:
\* whatever the names resolve to later and wherever the job runs, the token is
\* sent only to the REST interface of the server the event or the operator
\* names, at addresses of a class and block the operator permits, and in
\* Actions only about the pull request of the event.
TokenStaysHome ==
    \A s \in sent :
        LET setup == job.setup
            event == setup.event.event
            environment == setup.environment
            named(v) == IF Value(environment, v) = None THEN Public ELSE Value(environment, v)
            actions == Value(environment, "GITHUB_ACTIONS") = "true"
            server == IF actions THEN named("GITHUB_SERVER_URL")
                      ELSE named("REVOOT_GITHUB_SERVER_URL")
            public == server.host = "github.com" /\ Port(server) = 443
        IN  /\ Class(s.address) \notin {"Metadata", "Loopback", "LinkLocal", "Unspecified"}
            /\ Class(s.address) = "Private" =>
                    \E b \in ToSet(setup.blocks) : InBlock(b, s.address)
            /\ s.host = IF public THEN "api.github.com" ELSE server.host
            /\ s.port = Port(server)
            /\ s.path.root = IF public THEN <<>> ELSE
                             IF s.path.repository = None THEN <<"api">> ELSE <<"api", "v3">>
            /\ s.path.repository # None =>
                IF actions
                THEN /\ s.path.repository = event.repository.name
                     /\ s.path.call[2] = ToString(event.number)
                ELSE s.path.repository \in {setup.repository} \cup {r.url.path : r \in setup.remotes}
=============================================================================
