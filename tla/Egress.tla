------------------------------- MODULE Egress -------------------------------
(***************************************************************************)
(* The egress gateway (egress.rs) and its standard set-up                  *)
(* (egress_setup.rs): which destination an adapter may open a connection   *)
(* to, over which route, and to which addresses the connection is pinned.  *)
(*                                                                         *)
(* An address is its sequence of parts: four octets or eight segments of   *)
(* sixteen bits.  A path is the sequence of its segments.  An observation  *)
(* is [host, answers], an answer [address, ttl].                           *)
(***************************************************************************)
EXTENDS Integers, Sequences, FiniteSets, SequencesExt, Optional

CONSTANTS
    MaxDnsAnswers,      \* MAX_DNS_ANSWERS
    MaxTtl,             \* MAX_DNS_TTL_SECONDS
    PinLifetime,        \* STANDARD_PIN_LIFETIME_SECONDS
    StandardAnswers     \* the answers authorize_resolved_provider takes

\* The classes of addresses, and the denials of a resolution.
Classes ==
    {"Unspecified", "Metadata", "Loopback", "Private", "Shared", "LinkLocal", "Documentation",
     "Benchmark", "Transition", "Multicast", "Reserved", "Public"}
Denials ==
    {<<"NoAnswers">>, <<"TooManyAnswers">>, <<"TtlOutOfBounds">>, <<"DuplicateAddress">>}
        \cup ({"AddressClassDenied"} \X Classes)

ASSUME EgressAssumption == StandardAnswers \in Nat /\ None \notin Denials

-----------------------------------------------------------------------------
(* Endpoints.                                                              *)

\* validate_path over segments; the root is the empty sequence.
PathValid(path) == \A i \in DOMAIN path : path[i] \notin {"", ".", "..", "invalid"}

\* CanonicalHttpsEndpoint::parse over the parts of the text; port is None when
\* it is not written.
EndpointVerdict(u) ==
    CASE u.scheme # "https" -> "HttpsRequired"
      [] u.extra # None -> u.extra
      [] u.host = "" /\ u.port = None -> "MissingAuthority"
      [] u.host = "[literal]" -> "IpLiteralNotAllowed"
      [] u.port # None /\ u.port \notin 1..65535 -> "InvalidPort"
      [] u.host \in {"", "literal", "invalid"} -> "InvalidHostname"
      [] ~PathValid(u.path) -> "InvalidPath"
      [] OTHER -> "accepted"

Endpoint(u) ==
    [origin |-> [host |-> u.host, port |-> IF u.port = None THEN 443 ELSE u.port],
     path |-> u.path]

\* EndpointPathRule::permits: a prefix ends at a segment.
RulePermits(rule, path) ==
    IF rule.form = "exact" THEN path = rule.path ELSE IsPrefix(rule.path, path)

\* ProviderAdapterEgressPolicy::try_new and ProviderEgressPolicy::try_new; what
\* is listed twice is refused.
AdapterVerdict(adapter) ==
    CASE adapter.id = "invalid" -> "InvalidAdapterId"
      [] adapter.origins = <<>> -> "EmptyOriginAllowlist"
      [] ~IsInjective([i \in DOMAIN adapter.origins |-> adapter.origins[i].origin]) ->
            "DuplicateOrigin"
      [] OTHER -> "accepted"

EgressPolicyVerdict(policy) ==
    CASE policy.adapters = <<>> -> "EmptyAdapterAllowlist"
      [] ~IsInjective([i \in DOMAIN policy.adapters |-> policy.adapters[i].id]) ->
            "DuplicateAdapter"
      [] policy.ca \in {"custom without identity", "both without identity"} ->
            "InvalidCaBundleIdentity"
      [] OTHER -> "accepted"

\* ProviderAdapterEgressPolicy::permits; no two entries share an origin.
AdapterDenial(adapter, endpoint) ==
    LET same == SelectSeq(adapter.origins, LAMBDA o : o.origin = endpoint.origin)
    IN  CASE same = <<>> -> "OriginNotAllowed"
          [] \A i \in DOMAIN Head(same).rules :
                ~RulePermits(Head(same).rules[i], endpoint.path) -> "PathNotAllowed"
          [] OTHER -> None

-----------------------------------------------------------------------------
(* Addresses.                                                              *)

IsV4(a) == Len(a) = 4
Width(a) == IF IsV4(a) THEN 8 ELSE 16
Bits(a) == Len(a) * Width(a)

Starts(a, first) == SubSeq(a, 1, Len(first)) = first

MetadataV4 ==
    {<<169, 254, 169, 254>>, <<169, 254, 169, 123>>, <<169, 254, 170, 2>>,
     <<169, 254, 170, 23>>, <<100, 100, 100, 200>>, <<168, 63, 129, 16>>}
MetadataV6 == {<<64768, 3778, 0, 0, 0, 0, 0, 596>>, <<65152, 0, 0, 0, 0, 0, 43518, 43518>>}

\* classify_ipv4, classify_ipv6: the first class in this order.
ClassV4(a) ==
    CASE a = <<0, 0, 0, 0>> -> "Unspecified"
      [] a \in MetadataV4 -> "Metadata"
      [] a[1] = 127 -> "Loopback"
      [] a[1] = 10 \/ (a[1] = 172 /\ a[2] \in 16..31) \/ Starts(a, <<192, 168>>) -> "Private"
      [] a[1] = 100 /\ a[2] \in 64..127 -> "Shared"
      [] Starts(a, <<169, 254>>) -> "LinkLocal"
      [] \E net \in {<<192, 0, 2>>, <<198, 51, 100>>, <<203, 0, 113>>} : Starts(a, net) ->
            "Documentation"
      [] a[1] = 198 /\ a[2] \in {18, 19} -> "Benchmark"
      [] Starts(a, <<192, 88, 99>>) -> "Transition"
      [] a[1] \in 224..239 -> "Multicast"
      [] a[1] = 0 \/ a[1] >= 240 \/ Starts(a, <<192, 0, 0>>) -> "Reserved"
      [] OTHER -> "Public"

ClassV6(a) ==
    CASE a = <<0, 0, 0, 0, 0, 0, 0, 0>> -> "Unspecified"
      [] a = <<0, 0, 0, 0, 0, 0, 0, 1>> -> "Loopback"
      [] a \in MetadataV6 -> "Metadata"
      [] \/ Starts(a, <<0, 0, 0, 0, 0, 65535>>) \/ Starts(a, <<100, 65435>>) \/ a[1] = 8194 ->
            "Transition"
      [] a[1] \in 64512..65023 -> "Private"
      [] a[1] \in 65152..65215 -> "LinkLocal"
      [] a[1] >= 65280 -> "Multicast"
      [] Starts(a, <<8193, 3512>>) \/ (a[1] = 16383 /\ a[2] < 4096) -> "Documentation"
      [] Starts(a, <<8193, 2, 0>>) -> "Benchmark"
      [] (a[1] = 8193 /\ a[2] <= 511) \/ Starts(a, <<256, 0, 0, 0>>) -> "Reserved"
      [] a[1] \in 8192..16383 -> "Public"
      [] OTHER -> "Reserved"

Class(a) == IF IsV4(a) THEN ClassV4(a) ELSE ClassV6(a)

\* masked_address: the first p bits of the parts.
Masked(a, p) ==
    [i \in DOMAIN a |->
        LET left == p - (i - 1) * Width(a)
            keep == IF left < 0 THEN 0 ELSE IF left > Width(a) THEN Width(a) ELSE left
        IN  a[i] - (a[i] % 2 ^ (Width(a) - keep))]

PrivateNetworks ==
    {[network |-> <<10, 0, 0, 0>>, length |-> 8], [network |-> <<172, 16, 0, 0>>, length |-> 12],
     [network |-> <<192, 168, 0, 0>>, length |-> 16],
     [network |-> <<64512, 0, 0, 0, 0, 0, 0, 0>>, length |-> 7]}

\* A block [network, length] contains an address of its own family.
InBlock(block, a) ==
    IsV4(block.network) = IsV4(a) /\ Masked(a, block.length) = block.network

\* IpCidr::private.
CidrVerdict(block) ==
    CASE block.length > Bits(block.network) -> "InvalidPrefixLength"
      [] Masked(block.network, block.length) # block.network -> "HostBitsSet"
      [] \A n \in PrivateNetworks :
            ~(block.length >= n.length /\ InBlock(n, block.network)) -> "NotPrivate"
      [] OTHER -> "accepted"

-----------------------------------------------------------------------------
(* Name resolution.  A policy is [most, least_ttl, most_ttl, blocks].       *)

DnsPolicyVerdict(p) ==
    CASE p.most \notin 1..MaxDnsAnswers -> "InvalidAnswerBound"
      [] p.least_ttl = 0 \/ p.most_ttl < p.least_ttl \/ p.most_ttl > MaxTtl -> "InvalidTtlBounds"
      [] ~IsInjective(p.blocks) -> "DuplicatePrivateCidr"
      [] OTHER -> "accepted"

AddressPermitted(p, a) ==
    \/ Class(a) = "Public"
    \/ Class(a) = "Private" /\ \E b \in ToSet(p.blocks) : InBlock(b, a)

\* An answer that one good address is enough for.
AnswerDenialOfFirst(p, answers, i) ==
    IF AddressPermitted(p, answers[1].address) THEN None
    ELSE <<"AddressClassDenied", Class(answers[1].address)>>

\* DnsPolicy::validate: the denial of answer i, None when it passes.
AnswerDenial(p, answers, i) ==
    CASE answers[i].ttl \notin p.least_ttl..p.most_ttl -> <<"TtlOutOfBounds">>
      [] \E j \in 1..(i - 1) : answers[j].address = answers[i].address -> <<"DuplicateAddress">>
      [] ~AddressPermitted(p, answers[i].address) ->
            <<"AddressClassDenied", Class(answers[i].address)>>
      [] OTHER -> None

DnsDenial(p, answers) ==
    LET bad == {i \in DOMAIN answers : AnswerDenial(p, answers, i) # None}
    IN  CASE answers = <<>> -> <<"NoAnswers">>
          [] Len(answers) > p.most -> <<"TooManyAnswers">>
          [] bad # {} -> AnswerDenial(p, answers, CHOOSE i \in bad : \A j \in bad : i <= j)
          [] OTHER -> None

\* The pinned set; the code keeps it sorted.
Resolution(observed) ==
    [host |-> observed.host,
     pins |-> {observed.answers[i].address : i \in DOMAIN observed.answers},
     ttl |-> LET ttls == {observed.answers[i].ttl : i \in DOMAIN observed.answers}
             IN  CHOOSE t \in ttls : \A u \in ttls : t <= u]

-----------------------------------------------------------------------------
(* Authorization.  A route is [kind, proxy, dns]: what the resolver says of *)
(* the upstream host or of the proxy.                                      *)

Denied(why) == [allowed |-> FALSE, why |-> why]

\* ProviderEgressPolicy::authorize.
Authorize(policy, adapter, endpoint, route) ==
    LET known == {i \in DOMAIN policy.adapters : policy.adapters[i].id = adapter}
        chosen == policy.adapters[CHOOSE i \in known : TRUE]
        host == IF policy.proxy = None THEN endpoint.origin.host ELSE policy.proxy.host
        dns == IF policy.proxy = None THEN policy.upstream_dns ELSE policy.proxy_dns
    IN  CASE known = {} -> Denied(<<"UnknownAdapter">>)
          [] known # {} /\ AdapterDenial(chosen, endpoint) # None ->
                Denied(<<AdapterDenial(chosen, endpoint)>>)
          [] (policy.proxy = None) # (route.kind = "Direct") -> Denied(<<"RouteMismatch">>)
          [] route.kind = "ExplicitProxy" /\ route.proxy # policy.proxy ->
                Denied(<<"ProxyMismatch">>)
          [] route.dns.host # host -> Denied(<<"HostnameMismatch">>)
          [] DnsDenial(dns, route.dns.answers) # None -> Denied(DnsDenial(dns, route.dns.answers))
          [] OTHER -> [allowed |-> TRUE, adapter |-> adapter, endpoint |-> endpoint,
                       route |-> route.kind, ca |-> policy.ca,
                       resolution |-> Resolution(route.dns)]

\* authorize_resolved_provider: the set-up every client goes through.
\* addresses is a set; the policy permits nothing but the endpoint.
StandardPolicy(adapter, endpoint, ca, blocks) ==
    [adapters |-> <<[id |-> adapter,
                     origins |-> <<[origin |-> endpoint.origin,
                                    rules |-> <<[form |-> "exact", path |-> endpoint.path]>>]>>]>>,
     proxy |-> None, ca |-> ca,
     upstream_dns |-> [most |-> StandardAnswers, least_ttl |-> 1, most_ttl |-> 3600,
                       blocks |-> blocks],
     proxy_dns |-> [most |-> StandardAnswers, least_ttl |-> 1, most_ttl |-> 3600,
                    blocks |-> <<>>]]

StandardRoute(endpoint, addresses) ==
    [kind |-> "Direct", proxy |-> None,
     dns |-> [host |-> endpoint.origin.host,
              answers |-> [i \in 1..Cardinality(addresses) |->
                [address |-> SetToSeq(addresses)[i], ttl |-> PinLifetime]]]]

AuthorizeResolved(adapter, endpoint, addresses, ca, blocks) ==
    LET policy == StandardPolicy(adapter, endpoint, ca, blocks)
    IN  CASE Cardinality(addresses) \notin 1..StandardAnswers -> Denied(<<"Resolution">>)
          [] AdapterVerdict(policy.adapters[1]) # "accepted"
             \/ DnsPolicyVerdict(policy.upstream_dns) # "accepted"
             \/ EgressPolicyVerdict(policy) # "accepted" -> Denied(<<"Policy">>)
          [] OTHER -> Authorize(policy, adapter, endpoint, StandardRoute(endpoint, addresses))
=============================================================================
