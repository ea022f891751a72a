---------------------------- MODULE GitLabAnswers ----------------------------
(***************************************************************************)
(* What a publication learns from one exchange of a write with GitLab: the *)
(* report of the transport (GitLabTransport), the confirmation the strict  *)
(* parser demands (GitLabWire) and the decision that create,               *)
(* set_discussion_resolved and update_overview of gitlab_publication.rs    *)
(* take from both.                                                         *)
(*                                                                         *)
(* An exchange is a record of GitLabTransport with two more fields: asked, *)
(* the length of the request body, and says, what the body of the answer   *)
(* says of the write: "done", "other" (something else was done),           *)
(* "individual" (a note without a thread) or "garbage".                    *)
(***************************************************************************)
EXTENDS GitLabTransport, Optional

CONSTANT MaxNotes       \* max_notes_per_discussion

Wire == INSTANCE GitLabWire WITH MaxPages <- 1, MaxItems <- 1, MaxDiff <- MaxBody,
                                 MaxJson <- MaxBody, MaxBlob <- MaxBody

-----------------------------------------------------------------------------
(* Exchanges.                                                              *)

Answering(status, says) ==
    [send |-> "answered", status |-> status, says |-> says, asked |-> 1,
     many |-> FALSE, type |-> "json", encoding |-> Absent, length |-> 1,
     retry |-> Absent, body |-> 1, end |-> "whole"]

NotAnswered(how) == [Answering(0, "garbage") EXCEPT !.send = how]

\* The answers GitLab, or a proxy before it, may give to a write whose success
\* has the given status.
Exchanges(success) ==
    LET done == Answering(success, "done")
    IN  {Answering(success, says) : says \in {"done", "other", "individual", "garbage"}}
        \cup {Answering(status, "garbage") : status \in {302, 403, 422, 429, 502}}
        \cup {NotAnswered(how) : how \in {"timeout", "connect", "broken"}}
        \cup {[done EXCEPT !.end = "cut"], [done EXCEPT !.body = MaxBody + 1],
              [done EXCEPT !.body = 0], [done EXCEPT !.asked = MaxBody + 1]}

\* What may have become of the write at the host when the exchange ends: a
\* write that was answered as done did land; one that got no further than the
\* connection, or was refused, did not; a gateway may answer for a host that
\* is still at it.
Unsent(x) == x.send \in {"connect", "connect timeout"} \/ x.asked > MaxBody
Fates(x) ==
    IF Unsent(x) \/ x.status \in RefusingStatuses THEN {"refused"}
    ELSE {"landed"}
        \cup (IF x.says = "done" THEN {} ELSE {"refused"})
        \cup (IF x.send = "timeout" \/ x.status \in 500..599 THEN {"delayed"} ELSE {})

-----------------------------------------------------------------------------
(* Confirmation.                                                           *)

Bot == 5

Parsed(x, success) ==
    Wire!JsonVerdict([status |-> x.status, size |-> x.body, headers |-> "fine",
                      length |-> x.length, type |-> x.type,
                      text |-> IF x.says = "garbage" THEN Malformed ELSE "discussion"],
                     success) = "accepted"

\* The thread the answer shows: the note of the write, or another one.
Shown(x) ==
    [id |-> "thread", individual |-> x.says = "individual",
     notes |-> <<[id |-> 1, author |-> Bot, system |-> FALSE, resolvable |-> TRUE,
                  type |-> IF x.says = "individual" THEN Absent ELSE "DiffNote",
                  body |-> IF x.says = "other" THEN "other" ELSE "sent",
                  resolved |-> x.says # "other"]>>]

Confirms(kind, x) ==
    /\ Parsed(x, ExpectedStatus([kind |-> kind]))
    /\ CASE kind = "Discussion" ->
              Wire!CreatedDiscussionConfirmed(Shown(x), "sent", Bot)
         [] kind = "SetDiscussionResolved" ->
              Wire!ResolutionConfirmed(Shown(x), "thread", 1, Bot, TRUE)
         [] kind = "UpdateMergeRequestDescription" -> x.says = "done"

-----------------------------------------------------------------------------
(* Decisions: the result, whether the write may be sent again, and what    *)
(* may have become of it.                                                  *)

\* The ways an exchange may end: the report of the transport, whether the
\* answer confirms the write, and its fate.
Ends(kind) ==
    UNION {[sent : {Write([kind |-> kind], x.asked, x)},
            confirmed : {Confirms(kind, x)}, fate : Fates(x)] :
           x \in Exchanges(ExpectedStatus([kind |-> kind]))}

Outcome(result, again, fate) == [result |-> result, again |-> again, fate |-> fate]

\* create: an answer that was taken but does not confirm the write is
\* ambiguous and final; a failure that may be retried counts as ambiguous
\* even if it had no effect.
CreateOutcome(sent, confirmed, fate) ==
    IF sent.effect = "Applied"
    THEN Outcome(IF confirmed THEN "created" ELSE "ambiguous", FALSE, fate)
    ELSE IF sent.effect = "Ambiguous" \/ sent.retryable
    THEN Outcome("ambiguous", sent.retryable, fate)
    ELSE Outcome("failed", FALSE, fate)

\* set_discussion_resolved: unconfirmed answers lead to an inventory, and only
\* a failure the transport calls final forbids another try.
SettleOutcome(sent, confirmed, fate) ==
    IF sent.effect = "Applied"
    THEN Outcome(IF confirmed THEN "confirmed" ELSE "unconfirmed", ~confirmed, fate)
    ELSE Outcome("unconfirmed", sent.retryable, fate)

\* update_overview: whatever is not confirmed ends the publication.
OverviewOutcome(sent, confirmed, fate) ==
    Outcome(IF sent.effect = "Applied" /\ confirmed THEN "confirmed" ELSE "failed",
            FALSE, fate)

CreateOutcomes ==
    {CreateOutcome(e.sent, e.confirmed, e.fate) : e \in Ends("Discussion")}
SettleOutcomes ==
    {SettleOutcome(e.sent, e.confirmed, e.fate) : e \in Ends("SetDiscussionResolved")}
OverviewOutcomes ==
    {OverviewOutcome(e.sent, e.confirmed, e.fate) :
        e \in Ends("UpdateMergeRequestDescription")}
=============================================================================
