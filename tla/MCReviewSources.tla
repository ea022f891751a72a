--------------------------- MODULE MCReviewSources ---------------------------
(***************************************************************************)
(* The two ways a review gets its input outside a merge request: from a    *)
(* working tree and from GitHub.  They share no state; a behaviour is of   *)
(* one of them and the other stays where it starts.                        *)
(***************************************************************************)
EXTENDS LocalReview, GitHubJob

VARIABLE source

-----------------------------------------------------------------------------
(* The working tree: 1 and 2 are sources, 3 a test, 4 a secret that is *)
(* tracked although it is ignored; 5 is ignored.                           *)

Short == <<"a", "b">>
Wide == <<"a", "b", "c", "d">>
Ends == <<"z", "a", "b", "c">>
Much == [i \in 1..7 |-> "l"]
Binaries == <<"NUL">>
Key == <<"k">>

MCRolesOf == <<{"source"}, {"source"}, {"test"}, {"secret"}, {"secret"}>>
MCContentsOf ==
    <<{Wide, Ends, None}, {None, Wide, Binaries}, {None, Wide, Much}, {Key, Short}, {Key}>>
MCTrees ==
    {<<None, Wide, Wide, Key, Key>>, <<Ends, Wide, Wide, Short, Key>>,
     <<Wide, Binaries, Much, Key, Key>>}
MCBaseFiles ==
    <<[p \in 1..5 |-> <<Wide, None, None, Key, None>>[p]],
      [p \in 1..5 |-> <<Ends, None, None, Key, None>>[p]]>>
MCForkOf == 1 :> 1 @@ 2 :> 2

NoRefs == [explicit |-> None, origin |-> None, others |-> {}, branches |-> {},
           commits |-> "origin/main" :> 2 @@ "main" :> 1]
MCReferences ==
    {[NoRefs EXCEPT !.origin = "origin/main"],
     [NoRefs EXCEPT !.branches = {"main", "master"}, !.commits = "master" :> 1 @@ "main" :> 1],
     [NoRefs EXCEPT !.explicit = "gone"],
     [NoRefs EXCEPT !.others = {"origin/main", "upstream/main"}, !.commits = <<>>]}

Pattern(role) == [form |-> "prefix", role |-> role, fault |-> FALSE, twice |-> FALSE]
Everything == [version |-> 1, included |-> {}, excluded |-> {}, generated |-> FALSE, max_file |-> 20]
MCPolicies ==
    {Everything,
     [Everything EXCEPT !.included = {Pattern("source"), Pattern("secret")}, !.max_file = 8]}
MCBudget ==
    [files |-> 3, bytes |-> 20, units |-> 2, unit_files |-> 1, unit_bytes |-> 12, unit_anchors |-> 9]

-----------------------------------------------------------------------------
(* GitHub.  A name may come to resolve to an address of the network the job *)
(* runs in, to its metadata service, or to more than one.                  *)

Internet == <<140, 82, 112, 5>>
Intranet == <<10, 0, 0, 7>>
Metadata == <<169, 254, 169, 254>>
Mapped == <<0, 0, 0, 0, 0, 65535, 43518, 43518>>
MCAnswerSets == {{Internet}, {Intranet}, {Internet, Metadata}, {Intranet, Mapped}}

Enterprise == [Public EXCEPT !.host = "ghe.example"]
OtherPort == [Enterprise EXCEPT !.port = 8443]
MCHosts == {"api.github.com", "ghe.example"}

Repository == [name |-> <<"org", "repo">>, id |-> 1]
Fork == [name |-> <<"dev", "repo">>, id |-> 2]
Opened_ == [bytes |-> 1, malformed |-> FALSE, action |-> "opened", state |-> "open",
            repository |-> Repository, number |-> 7, pull_number |-> 7,
            base |-> [repo |-> Repository, sha |-> "b1"], head |-> [repo |-> Fork, sha |-> "h1"]]
File(event) == [fault |-> None, event |-> event]

Entry(name, value) == [name |-> name, value |-> value]
Token(n) == [bytes |-> n, printable |-> TRUE]
Actions ==
    <<Entry("GITHUB_ACTIONS", "true"), Entry("GITHUB_EVENT_NAME", "pull_request"),
      Entry("GITHUB_EVENT_PATH", "event.json"), Entry("GITHUB_TOKEN", Token(4))>>
Desk == <<Entry("GH_TOKEN", Token(4)), Entry("GITHUB_TOKEN", Token(0))>>

Url(scheme, host, slug) ==
    [scheme |-> scheme, user |-> IF scheme = "https" THEN "" ELSE "git", host |-> host,
     port |-> None, path |-> slug, extra |-> None]
Named(name, url) == [name |-> name, url |-> url]
Own == Named("origin", Url("ssh", "github.com", Repository.name))
Mine == Named("mine", Url("https", "github.com", Fork.name))
Upstream == Named("upstream", Url("scp", "github.com", Repository.name))
Inside == Named("origin", Url("https", "ghe.example", Repository.name))

Block == [network |-> <<10, 0, 0, 0>>, length |-> 24]
Setup(environment, event, remotes) ==
    [environment |-> environment, event |-> File(event), number |-> None, repository |-> None,
     remotes |-> remotes, blocks |-> <<>>, bundle |-> None]

MCSetups ==
    LET desk == [Setup(Desk, Opened_, {Own, Mine}) EXCEPT !.number = 7]
        server(url) == Append(Desk, Entry("REVOOT_GITHUB_SERVER_URL", url))
        enterprise == Append(Actions, Entry("GITHUB_SERVER_URL", Enterprise))
    IN  {Setup(Actions, Opened_, {Mine}),
         [Setup(enterprise, Opened_, {}) EXCEPT
            !.blocks = <<Block>>, !.bundle = [sizes |-> <<2, 2>>, digest |-> "ca"]],
         [Setup(enterprise, Opened_, {}) EXCEPT !.blocks = <<[Block EXCEPT !.length = 4]>>],
         [Setup(Actions, Opened_, {}) EXCEPT !.repository = Fork.name],
         [Setup(Actions, Opened_, {}) EXCEPT !.number = 8],
         Setup(Actions, [Opened_ EXCEPT !.state = "closed"], {}),
         Setup(Append(Actions, Entry("GITHUB_ACTIONS", "true")), Opened_, {}),
         desk,
         [desk EXCEPT !.repository = Fork.name],
         [desk EXCEPT !.remotes = {Mine, Upstream}],
         [desk EXCEPT !.number = None],
         [desk EXCEPT !.environment = server(OtherPort), !.remotes = {Inside}, !.blocks = <<Block>>],
         [desk EXCEPT !.environment = server([Enterprise EXCEPT !.path = <<"x">>])],
         [desk EXCEPT !.environment = <<Entry("GH_TOKEN", [Token(4) EXCEPT !.printable = FALSE])>>]}

Response(status) == [broken |-> None, encoding |-> None, length |-> None, bytes |-> 1, status |-> status]
MCResponses ==
    {Response(200), Response(302), Response(403), [Response(200) EXCEPT !.bytes = 3],
     [Response(200) EXCEPT !.broken = "in the body"]}

-----------------------------------------------------------------------------
Init ==
    /\ LocalInit /\ GitHubInit
    /\ source \in {"tree", "github"}
    /\ source = "tree" => net = [h \in Hosts |-> {Internet}] /\ checkout = "h1"
    /\ source = "github" => tree = (CHOOSE t \in Trees : TRUE) /\ head = 1

Next ==
    \/ source = "tree" /\ LocalNext /\ UNCHANGED <<githubVars, source>>
    \/ source = "github" /\ GitHubNext /\ UNCHANGED <<localVars, source>>

Spec == Init /\ [][Next]_<<localVars, githubVars, source>>
=============================================================================
