-------------------------- MODULE GitLabTransport --------------------------
(***************************************************************************)
(* The hardened GitLab transport (gitlab_transport.rs): which URL an       *)
(* endpoint becomes, when a client may be built at all, and what a read or *)
(* a write reports of an HTTP exchange.  Everything here is a function of  *)
(* its arguments; GitLabSnapshot puts them to use.                        *)
(*                                                                         *)
(* A header, a token or a body is abstracted to the facts the code tests:  *)
(* an exchange is a record                                                 *)
(*   send      "answered", or how the request failed                       *)
(*   status    the HTTP status                                             *)
(*   many      more than 256 headers                                       *)
(*   type      the content type                                            *)
(*   encoding  the content encoding                                        *)
(*   length    the declared length, Absent or Malformed                    *)
(*   retry     the Retry-After header in seconds, Absent or Malformed      *)
(*   body      the bytes that arrive                                       *)
(*   end       "whole", or how the body was cut                            *)
(***************************************************************************)
EXTENDS Integers, Sequences

CONSTANTS
    MaxBody,        \* GitLabTransportLimits.max_body_bytes
    MaxRetryAfter,  \* MAX_RETRY_AFTER_SECONDS
    Absent,         \* not sent
    Malformed       \* sent twice, empty, or not a number

-----------------------------------------------------------------------------
(* Endpoints and their URLs.                                               *)

MergeRequestSegments(e) ==
    <<"projects", e.project, "merge_requests", e.iid>>

WriteSegments(e) ==
    MergeRequestSegments(e) \o
        CASE e.kind = "Discussion" -> <<"discussions">>
          [] e.kind = "SetDiscussionResolved" -> <<"discussions", e.discussion>>
          [] e.kind = "SummaryNote" -> <<"notes">>
          [] e.kind = "UpdateMergeRequestDescription" -> <<>>

\* A write that changes what exists is a PUT and answers 200, one that
\* creates is a POST and answers 201.
Updates(e) == e.kind \in {"SetDiscussionResolved", "UpdateMergeRequestDescription"}
ExpectedStatus(e) == IF Updates(e) THEN 200 ELSE 201

ExpectedContent(e) == IF e.kind = "RawRepositoryFile" THEN "raw" ELSE "json"

-----------------------------------------------------------------------------
(* Building a client.                                                      *)

\* The first reason the authorization of the egress gateway does not fit the
\* configuration, or "accepted".  Both are records over origin, path, ca, ...
AuthorizationVerdict(config, auth) ==
    CASE auth.adapter # "gitlab-rest" -> "WrongAdapter"
      [] auth.route # "direct" -> "ProxyNotSupported"
      [] (config.ca = "bundled") # (auth.ca = "bundled") ->
            "CertificateAuthorityMismatch"
      [] config.ca # auth.ca -> "CustomCaIdentityMismatch"
      [] auth.origin # config.origin -> "WrongAuthorizedOrigin"
      [] auth.path # "/api/v4" -> "WrongAuthorizedPath"
      [] \/ auth.resolved # config.origin.host
         \/ auth.pins = {} -> "DnsPinMismatch"
      [] OTHER -> "accepted"

\* What the constructor itself refuses of the host and the pinned addresses.
BuildVerdict(config, auth) ==
    CASE AuthorizationVerdict(config, auth) # "accepted" ->
            AuthorizationVerdict(config, auth)
      [] config.literal -> "InvalidOrigin"
      [] "unspecified" \in auth.pins -> "DnsPinMismatch"
      [] OTHER -> "accepted"

\* The header that carries the token; a job token cannot write.
ReadAuthentication(kind) ==
    CASE kind = "PrivateToken" -> "private-token"
      [] kind = "JobToken" -> "job-token"
      [] kind = "Bearer" -> "authorization"
WriteAuthentication(kind) ==
    IF kind = "JobToken" THEN "InvalidAccessToken" ELSE ReadAuthentication(kind)

-----------------------------------------------------------------------------
(* What an exchange is reported as.                                        *)

StatusKind(status) ==
    CASE status = 401 -> "Authentication"
      [] status = 403 -> "Forbidden"
      [] status = 404 -> "NotFound"
      [] status = 409 -> "Conflict"
      [] status = 429 -> "RateLimited"
      [] status \in 300..399 -> "RedirectDenied"
      [] status \in 500..599 -> "ServerUnavailable"
      [] OTHER -> "UnexpectedStatus"

SendKind(x) ==
    CASE x.send = "connect timeout" -> "ConnectTimeout"
      [] x.send = "timeout" -> "RequestTimeout"
      [] x.send = "connect" -> "Connection"
      [] x.send = "broken" -> "Protocol"

BodyKind(x) ==
    CASE x.end = "timeout" -> "BodyTimeout"
      [] x.end = "cut" -> "Connection"
      [] x.end = "broken" -> "Protocol"

ContentTypeAllowed(type, expected) ==
    type \in IF expected = "json" THEN {"json"} ELSE {"octet-stream", "text"}

\* A header value above MAX_RETRY_AFTER_SECONDS counts as malformed: no delay.
RetryAfter(x) ==
    IF x.retry \in {Absent, Malformed} \/ x.retry > MaxRetryAfter
    THEN Absent ELSE x.retry

\* The checks of the headers, in the order of the code: "accepted", or the
\* kind of the first that fails.
HeaderVerdict(x, expected) ==
    CASE x.many -> "TooManyHeaders"
      [] x.type = Malformed -> "UnsupportedContentType"
      [] x.type = Absent -> "MissingContentType"
      [] ~ContentTypeAllowed(x.type, expected) -> "UnsupportedContentType"
      [] x.encoding \notin {Absent, "identity"} -> "UnsupportedContentEncoding"
      [] OTHER -> "accepted"

LengthVerdict(x) ==
    CASE x.length = Malformed -> "MalformedContentLength"
      [] x.length # Absent /\ x.length > MaxBody -> "BodyTooLarge"
      [] OTHER -> "accepted"

ReadFailure(kind, retryable, after) ==
    [kind |-> kind, retryable |-> retryable,
     after |-> IF retryable THEN after ELSE Absent]

Answer == [kind |-> "answer", retryable |-> FALSE, after |-> Absent]

\* GitLabReadClient::get: the body is read chunk by chunk, so a body that is
\* both too large and cut short fails by what comes first.
Read(e, x) ==
    IF x.send # "answered"
    THEN ReadFailure(SendKind(x), SendKind(x) # "Protocol", Absent)
    ELSE IF x.status # 200
    THEN ReadFailure(StatusKind(x.status),
                     StatusKind(x.status) \in {"RateLimited", "ServerUnavailable"},
                     RetryAfter(x))
    ELSE IF HeaderVerdict(x, ExpectedContent(e)) # "accepted"
    THEN ReadFailure(HeaderVerdict(x, ExpectedContent(e)), FALSE, Absent)
    ELSE IF LengthVerdict(x) # "accepted"
    THEN ReadFailure(LengthVerdict(x), FALSE, Absent)
    ELSE IF x.body > MaxBody
    THEN ReadFailure("BodyTooLarge", FALSE, Absent)
    ELSE IF x.end # "whole"
    THEN ReadFailure(BodyKind(x), BodyKind(x) # "Protocol", RetryAfter(x))
    ELSE Answer

WriteFailure(kind, effect, retryable) ==
    [kind |-> kind, effect |-> effect, retryable |-> retryable]

\* The statuses that say the host refused the write before it did anything.
RefusingStatuses == {400, 401, 403, 404, 409, 422}

WriteStatusFailure(x) ==
    WriteFailure(StatusKind(x.status),
                 IF x.status \in RefusingStatuses THEN "NoEffect" ELSE "Ambiguous",
                 x.status = 429 \/ x.status \in 500..599)

\* A write that was sent and whose answer cannot be used: the host may have
\* done it.
Unusable(kind) == WriteFailure(kind, "Ambiguous", FALSE)

\* collect_write_response and the header checks it makes.
WriteAnswer(x) ==
    CASE HeaderVerdict(x, "json") # "accepted" -> Unusable(HeaderVerdict(x, "json"))
      [] LengthVerdict(x) # "accepted" -> Unusable(LengthVerdict(x))
      [] x.body > MaxBody -> Unusable("BodyTooLarge")
      [] x.end # "whole" -> Unusable(BodyKind(x))
      [] x.length # Absent /\ x.length # x.body -> Unusable("MalformedContentLength")
      [] OTHER -> WriteFailure("answer", "Applied", FALSE)

\* GitLabWriteClient::mutate; size is the length of the request body.
Write(e, size, x) ==
    IF size > MaxBody
    THEN WriteFailure("BodyTooLarge", "NoEffect", FALSE)
    ELSE IF x.send # "answered"
    THEN WriteFailure(SendKind(x),
                      IF x.send \in {"connect", "connect timeout"}
                      THEN "NoEffect" ELSE "Ambiguous",
                      SendKind(x) # "Protocol")
    ELSE IF x.status # ExpectedStatus(e)
    THEN WriteStatusFailure(x)
    ELSE WriteAnswer(x)
=============================================================================
