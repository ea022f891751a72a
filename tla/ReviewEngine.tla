----------------------------- MODULE ReviewEngine -----------------------------
(***************************************************************************)
(* The conversation of one review (run_review and execute_tool of          *)
(* crates/revoot/src/review_engine.rs) and what becomes of its report      *)
(* (canonicalize_report and authorized_fixed_lineages of                   *)
(* review_command.rs), up to the publication.                              *)
(*                                                                         *)
(* The model answers each request with calls of tools or with a stop.  The *)
(* calls of one answer run one after the other, and their results are sent *)
(* together with the next request.  What the model says is arbitrary: a    *)
(* call is any call.  A call that is refused before anything was charged   *)
(* changes nothing.  The budget is that of AgentRun, reduced to the        *)
(* counters that the conversation moves; what else may end a review (time, *)
(* tokens, bytes, the provider, cancellation) may do so at every step.     *)
(***************************************************************************)
EXTENDS Integers, FiniteSets, Sequences, Functions, Optional

CONSTANTS
    Anchor,       \* anchors that were issued
    FileOf,       \* the file each is in
    UnitOf,       \* the work unit each was issued to
    Title,        \* titles of findings
    Lineage,      \* lineages that earlier reviews published
    MaxPrior,     \* bound: discussions of earlier reviews
    MaxPage,      \* discussions that one call may ask for
    MaxTurns,     \* budget of model requests
    MaxCalls,     \* budget of charged tool calls
    MaxFindings   \* budget of candidate findings

ASSUME EngineAssumption ==
    /\ None \notin Lineage
    /\ MaxPrior \in Nat /\ MaxPage \in Nat \ {0}
    /\ MaxTurns \in Nat /\ MaxCalls \in Nat /\ MaxFindings \in Nat

VARIABLES
    prior,        \* prior_review.discussions()
    pc,           \* where the review is
    turns,        \* model requests made
    calls,        \* tool calls charged
    offered,      \* candidate findings charged
    cursor,       \* prior_review_cursor
    context,      \* inspected_repository_context
    inspected,    \* inspected_diff_paths
    accepted,     \* accepted candidates: the findings of some work units
    admitted,     \* admitted_lineages
    summary,      \* was a summary accepted
    dispositions, \* prior_finding_dispositions
    gaps,         \* omissions
    reported,     \* the findings that go to the publication
    fixed         \* the lineages that go to it as fixed

budget == <<turns, calls, offered>>
evidence == <<cursor, context, inspected, gaps>>
conclusion == <<summary, dispositions>>
report == <<reported, fixed>>
vars == <<prior, pc, budget, evidence, accepted, admitted, conclusion,
          report>>

File == {FileOf[a] : a \in Anchor}

Unit == {UnitOf[a] : a \in Anchor}

Finding == [anchor : Anchor, title : Title, lineage : Lineage \cup {None}]

\* A discussion of other authors has no lineage.
Discussion == [lineage : Lineage \cup {None}, resolved : BOOLEAN]

Disposition == {"still_present", "fixed", "uncertain"}

Omission == {"acquisition", "search"}

Place == {"turn", "answered", "tools", "done", "ranked", "failed"}

TypeOK ==
    /\ prior \in Seq(Discussion) /\ Len(prior) <= MaxPrior
    /\ pc \in Place
    /\ turns \in 0..MaxTurns /\ calls \in 0..MaxCalls
    /\ offered \in 0..MaxFindings
    /\ cursor \in 0..Len(prior)
    /\ context \in BOOLEAN
    /\ inspected \subseteq File
    /\ DOMAIN accepted \subseteq Unit
    /\ accepted = [u \in DOMAIN accepted |-> accepted[u]]
    /\ \A u \in DOMAIN accepted : accepted[u] \subseteq Finding
    /\ admitted \subseteq Lineage
    /\ summary \in BOOLEAN
    /\ dispositions \in [DOMAIN dispositions -> Disposition]
    /\ DOMAIN dispositions \subseteq Lineage
    /\ gaps \subseteq Omission
    /\ reported \subseteq Finding /\ fixed \subseteq Lineage

-----------------------------------------------------------------------------
(* The history of earlier reviews.                                         *)

Owned == {prior[n].lineage : n \in DOMAIN prior} \ {None}

\* The lineages that a summary has to dispose of.
Open == {prior[n].lineage : n \in {m \in DOMAIN prior : ~prior[m].resolved}}
          \ {None}

\* PriorReviewContext::try_new: at most one open discussion of a lineage.
OneOpenEach(history) ==
    \A m, n \in DOMAIN history :
       (/\ history[m].lineage = history[n].lineage /\ history[m].lineage # None
        /\ ~history[m].resolved /\ ~history[n].resolved) => m = n

Histories == UNION {[1..n -> Discussion] : n \in 0..MaxPrior}

Nothing == [x \in {} |-> {}]

Init ==
    /\ prior \in {history \in Histories : OneOpenEach(history)}
    /\ pc = "turn"
    /\ turns = 0 /\ calls = 0 /\ offered = 0
    /\ cursor = 0 /\ context = FALSE /\ inspected = {}
    /\ gaps \in {{}, {"acquisition"}}
    /\ accepted = Nothing /\ admitted = {}
    /\ summary = FALSE /\ dispositions = Nothing
    /\ reported = {} /\ fixed = {}

-----------------------------------------------------------------------------
(* Requests and answers.                                                   *)

\* A mutant of Request: a request is not charged.
RequestFree ==
    /\ pc = "turn" /\ turns < MaxTurns
    /\ pc' = "answered"
    /\ UNCHANGED <<prior, turns, calls, offered, evidence, accepted, admitted,
                   conclusion, report>>

\* complete_provider_turn, with all results so far.
Request ==
    /\ pc = "turn" /\ turns < MaxTurns
    /\ turns' = turns + 1
    /\ pc' = "answered"
    /\ UNCHANGED <<prior, calls, offered, evidence, accepted, admitted,
                   conclusion, report>>

\* ModelFinishReason::Stop: without a summary the review fails.
Stop ==
    /\ pc = "answered"
    /\ pc' = IF summary THEN "done" ELSE "failed"
    /\ UNCHANGED <<prior, budget, evidence, accepted, admitted, conclusion,
                   report>>

\* Any call of a tool.
Call ==
    /\ pc \in {"answered", "tools"}
    /\ pc' = "tools"
    /\ UNCHANGED <<prior, turns, report>>

Charge ==
    /\ calls < MaxCalls
    /\ calls' = calls + 1

\* The results of the answer are complete.
EndAnswer ==
    /\ pc = "tools"
    /\ pc' = "turn"
    /\ UNCHANGED <<prior, budget, evidence, accepted, admitted, conclusion,
                   report>>

\* A refused call: the error is a result the model may react to.
Misuse ==
    /\ pc = "answered" /\ Call
    /\ UNCHANGED <<calls, offered, evidence, accepted, admitted, conclusion>>

\* Cancellation, an exhausted budget, a result that is too large, a call
\* with the identity of an earlier one, a provider that fails or breaks its
\* contract.
Fail ==
    /\ pc \in {"turn", "answered", "tools"}
    /\ pc' = "failed"
    /\ UNCHANGED <<prior, budget, evidence, accepted, admitted, conclusion,
                   report>>

-----------------------------------------------------------------------------
(* Evidence.                                                               *)

\* list_files, the history of commits, and charged calls that are refused.
Browse ==
    /\ Call /\ Charge
    /\ UNCHANGED <<offered, evidence, accepted, admitted, conclusion>>

\* read_file and search; only the latter may have left something out.
ReadContext ==
    /\ Call /\ Charge
    /\ context' = TRUE
    /\ gaps' \in {gaps, gaps \cup {"search"}}
    /\ UNCHANGED <<offered, cursor, inspected, accepted, admitted, conclusion>>

ShowDiff(f) ==
    /\ Call /\ Charge
    /\ inspected' = inspected \cup {f}
    /\ UNCHANGED <<offered, cursor, context, gaps, accepted, admitted,
                   conclusion>>

\* get_existing_revoot_findings from the cursor on.
GetExisting(max_results) ==
    /\ Call /\ Charge
    /\ cursor' = IF cursor + max_results < Len(prior)
                 THEN cursor + max_results ELSE Len(prior)
    /\ UNCHANGED <<offered, context, inspected, gaps, accepted, admitted,
                   conclusion>>

-----------------------------------------------------------------------------
(* Candidates.                                                             *)

HistoryRead == cursor = Len(prior)

\* A mutant of Admissible: one inspected file is enough.
AdmissibleAnyFile(findings) ==
    /\ HistoryRead
    /\ context
    /\ findings # {} => \E f \in findings : FileOf[f.anchor] \in inspected
    /\ \A f \in findings : f.lineage \in Owned \cup {None}

\* RestrainedAdmission::admit, the threshold of confidence left aside.
Admissible(findings) ==
    /\ HistoryRead
    /\ context
    /\ \A f \in findings : FileOf[f.anchor] \in inspected
    /\ \A f \in findings : f.lineage \in Owned \cup {None}

LineagesOf(findings) == {f.lineage : f \in findings} \ {None}

\* submit_candidate: the findings are charged before anything is decided.
Offer(findings) ==
    /\ Call /\ Charge
    /\ offered + Cardinality(findings) <= MaxFindings
    /\ offered' = offered + Cardinality(findings)
    /\ UNCHANGED <<evidence, conclusion>>

Admit(unit, findings) ==
    /\ Offer(findings)
    /\ unit \notin DOMAIN accepted
    /\ Admissible(findings)
    /\ accepted' = [u \in DOMAIN accepted \cup {unit} |->
                       IF u = unit THEN findings ELSE accepted[u]]
    /\ admitted' = admitted \cup LineagesOf(findings)

\* A mutant of Suppress: what was suppressed counts as submitted.
SuppressButCount(unit, findings) ==
    /\ Offer(findings)
    /\ unit \in DOMAIN accepted \/ ~Admissible(findings) \/ findings # {}
    /\ admitted' = admitted \cup LineagesOf(findings)
    /\ UNCHANGED accepted

\* Any finding may be below the threshold of confidence.
Suppress(unit, findings) ==
    /\ Offer(findings)
    /\ unit \in DOMAIN accepted \/ ~Admissible(findings) \/ findings # {}
    /\ UNCHANGED <<accepted, admitted>>

-----------------------------------------------------------------------------
(* The summary.                                                            *)

\* One summary, with a disposition of every open lineage.
SubmitSummary(d) ==
    /\ Call
    /\ HistoryRead
    /\ Charge
    /\ ~summary
    /\ DOMAIN d = Open
    /\ \A l \in Open : d[l] = "still_present" => l \in admitted
    /\ summary' = TRUE
    /\ dispositions' = d
    /\ UNCHANGED <<offered, evidence, accepted, admitted>>

-----------------------------------------------------------------------------
(* What goes to the publication.                                           *)

Accepted == UNION {accepted[u] : u \in DOMAIN accepted}

\* validate_rank_and_render: an anchor of another unit fails everything.
Rankable ==
    \A u \in DOMAIN accepted : \A f \in accepted[u] : UnitOf[f.anchor] = u

Key(f) == <<f.anchor, f.title>>

\* Of the findings with one key one is left, unless the repository
\* suppresses that key.
Ranked(findings) ==
    /\ findings \subseteq Accepted
    /\ \A f, g \in findings : Key(f) = Key(g) => f = g

\* A mutant of AuthorizedFixed: gaps do not matter.
AuthorizedFixedAlways ==
    {l \in DOMAIN dispositions : dispositions[l] = "fixed"}

\* authorized_fixed_lineages: of a complete review only.
AuthorizedFixed ==
    {l \in DOMAIN dispositions : dispositions[l] = "fixed" /\ gaps = {}}

\* canonicalize_report of a review whose snapshot is still current ...
Rank ==
    /\ pc = "done" /\ Rankable
    /\ \E findings \in SUBSET Accepted : Ranked(findings) /\ reported' = findings
    /\ fixed' = AuthorizedFixed
    /\ pc' = "ranked"
    /\ UNCHANGED <<prior, budget, evidence, accepted, admitted, conclusion>>

\* ... and of one that is stale.
RankStale ==
    /\ pc = "done"
    /\ pc' = "ranked"
    /\ UNCHANGED <<prior, budget, evidence, accepted, admitted, conclusion,
                   report>>

RankFails ==
    /\ pc = "done" /\ ~Rankable
    /\ pc' = "failed"
    /\ UNCHANGED <<prior, budget, evidence, accepted, admitted, conclusion,
                   report>>

-----------------------------------------------------------------------------

\* The findings of an envelope, more than the budget left aside.
Envelopes == {F \in SUBSET Finding :
                 IsFiniteSet(F) /\ Cardinality(F) <= MaxFindings}

Candidate ==
    \E unit \in Unit, findings \in Envelopes :
       Admit(unit, findings) \/ Suppress(unit, findings)

Evidence ==
    \/ Browse \/ ReadContext
    \/ \E f \in File : ShowDiff(f)
    \/ \E max_results \in 1..MaxPage : GetExisting(max_results)

Engine ==
    \/ Request \/ Stop \/ Misuse \/ EndAnswer
    \/ Evidence \/ Candidate
    \/ \E d \in [Open -> Disposition] : SubmitSummary(d)
    \/ Rank \/ RankStale \/ RankFails

Next == Engine \/ Fail

Spec == Init /\ [][Next]_vars

FairSpec == Spec /\ WF_vars(Next)

-----------------------------------------------------------------------------
(* Properties.                                                             *)

(***************************************************************************)
(* Whatever is accepted rests on evidence: the history was read to its     *)
(* end, the repository was looked into, the diff of every file a finding   *)
(* is anchored in was shown, and only lineages of the history are reused.  *)
(***************************************************************************)
EvidenceFirst ==
    DOMAIN accepted # {} =>
        /\ HistoryRead /\ context
        /\ \A f \in Accepted : /\ FileOf[f.anchor] \in inspected
                               /\ f.lineage \in Owned \cup {None}

(***************************************************************************)
(* A review that concludes has disposed of every open lineage, and one     *)
(* that it calls still present is among the findings it accepted.          *)
(***************************************************************************)
Concluded ==
    summary =>
        /\ HistoryRead
        /\ DOMAIN dispositions = Open
        /\ \A l \in Open : dispositions[l] = "still_present"
                             => l \in LineagesOf(Accepted)

(***************************************************************************)
(* A lineage goes to the publication as fixed only from a review that read *)
(* the whole history, left nothing out, concluded, and found it open.      *)
(***************************************************************************)
FixedAuthorized ==
    fixed # {} => gaps = {} /\ HistoryRead /\ summary /\ fixed \subseteq Open

(***************************************************************************)
(* Every review ends.                                                      *)
(***************************************************************************)
ReviewEnds == <>(pc \in {"ranked", "failed"})

=============================================================================
