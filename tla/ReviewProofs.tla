----------------------------- MODULE ReviewProofs -----------------------------
(***************************************************************************)
(* Proofs about one review: about the conversation of the engine, for any  *)
(* anchors, lineages, histories and budgets; about a review of a working   *)
(* tree, for any trees, edits, heads and references, that what is called   *)
(* fresh is what there was, and that the plan accounts for what was        *)
(* captured; and about a job of GitHub, for any setups, names and          *)
(* addresses, where its token goes.  The three are separate machines.      *)
(* That a review ends is left to TLC.                                      *)
(***************************************************************************)
EXTENDS ReviewEngine, LocalReview, GitHubJob, SharedLemmas

-----------------------------------------------------------------------------
(* The conversation.                                                       *)

\* The lineages that count as submitted are those of accepted findings.
AdmittedAccepted == admitted = LineagesOf(Accepted)

\* Only a review that was concluded ends well.
DoneConcluded == pc \in {"done", "ranked"} => summary

\* Nothing goes to the publication before the review is over.
FixedLast == fixed # {} => pc = "ranked"

IInv ==
    /\ TypeOK
    /\ EvidenceFirst
    /\ Concluded
    /\ FixedAuthorized
    /\ AdmittedAccepted
    /\ DoneConcluded
    /\ FixedLast

-----------------------------------------------------------------------------

LEMMA Initially == Init => IInv
  <1>. SUFFICES ASSUME Init  PROVE IInv
    OBVIOUS
  <1>1. prior \in Seq(Discussion) /\ Len(prior) \in 0..MaxPrior
    <2>1. PICK n \in 0..MaxPrior : prior \in [1..n -> Discussion]
      BY DEF Init, Histories
    <2>. QED
      BY <2>1, EngineAssumption
  <1>2. DOMAIN Nothing = {} /\ Nothing = [u \in DOMAIN Nothing |-> Nothing[u]]
        /\ Nothing \in [DOMAIN Nothing -> Disposition]
    BY DEF Nothing
  <1>3. TypeOK
    <2>1. 0 \in 0..Len(prior) /\ Len(prior) <= MaxPrior
      BY <1>1, EngineAssumption
    <2>2. DOMAIN accepted = {} /\ DOMAIN dispositions = {}
      BY <1>2 DEF Init
    <2>3. /\ accepted = [u \in DOMAIN accepted |-> accepted[u]]
          /\ dispositions \in [DOMAIN dispositions -> Disposition]
      BY <1>2 DEF Init
    <2>4. /\ prior \in Seq(Discussion) /\ Len(prior) <= MaxPrior
          /\ pc \in Place
          /\ turns \in 0..MaxTurns /\ calls \in 0..MaxCalls
          /\ offered \in 0..MaxFindings /\ cursor \in 0..Len(prior)
      BY <1>1, <2>1, EngineAssumption DEF Init, Place
    <2>5. /\ context \in BOOLEAN /\ summary \in BOOLEAN
          /\ inspected = {} /\ admitted = {}
          /\ reported = {} /\ fixed = {} /\ gaps \subseteq Omission
      BY DEF Init, Omission
    <2>. QED
      BY <2>2, <2>3, <2>4, <2>5 DEF TypeOK
  <1>4. Accepted = {} /\ LineagesOf(Accepted) = {}
    BY <1>2 DEF Init, Accepted, LineagesOf
  <1>. QED
    BY <1>2, <1>3, <1>4 DEF Init, IInv, EvidenceFirst, Concluded,
       FixedAuthorized, AdmittedAccepted, DoneConcluded, FixedLast

\* Evidence is only ever added; what rests on it stands.
LEMMA EvidenceGrows ==
    ASSUME IInv,
           UNCHANGED <<prior, accepted, admitted, conclusion>>,
           HistoryRead => HistoryRead',
           context => context',
           inspected \subseteq inspected'
    PROVE  EvidenceFirst' /\ Concluded' /\ AdmittedAccepted'
  <1>1. UNCHANGED <<Accepted, Owned, Open>> /\ UNCHANGED LineagesOf(Accepted)
    BY DEF Accepted, Owned, Open, LineagesOf
  <1>. QED
    BY <1>1 DEF IInv, EvidenceFirst, Concluded, AdmittedAccepted, conclusion

\* A step that moves only the place in the conversation and its counters.
LEMMA Quiet ==
    ASSUME IInv,
           UNCHANGED <<prior, evidence, accepted, admitted, conclusion>>
    PROVE  EvidenceFirst' /\ Concluded' /\ AdmittedAccepted'
  BY EvidenceGrows DEF evidence, HistoryRead

\* Every call stays within the tools' place and leaves the report empty.
LEMMA CallType ==
    ASSUME IInv, Call
    PROVE  /\ pc' \in Place /\ DoneConcluded' /\ FixedLast' /\ FixedAuthorized'
           /\ fixed = {} /\ UNCHANGED <<prior, turns, report>>
  BY DEF IInv, Call, Place, DoneConcluded, FixedLast, FixedAuthorized, report

\* A charged call is within the budget of calls.
LEMMA ChargeType ==
    ASSUME IInv, Charge
    PROVE  calls' \in 0..MaxCalls
  BY EngineAssumption DEF IInv, TypeOK, Charge

LEMMA EvidenceKeeps == IInv /\ Evidence => IInv'
  <1>. SUFFICES ASSUME IInv, Evidence  PROVE IInv'
    OBVIOUS
  <1>1. CASE Browse
    <2>1. EvidenceFirst' /\ Concluded' /\ AdmittedAccepted'
      BY <1>1, Quiet DEF Browse, Call
    <2>2. TypeOK'
      BY <1>1, CallType, ChargeType DEF Browse, IInv, TypeOK, evidence, conclusion,
         report
    <2>. QED
      BY <1>1, <2>1, <2>2, CallType DEF IInv, Browse
  <1>2. CASE ReadContext
    <2>1. EvidenceFirst' /\ Concluded' /\ AdmittedAccepted'
      BY <1>2, EvidenceGrows DEF ReadContext, Call, HistoryRead
    <2>2. TypeOK'
      BY <1>2, CallType, ChargeType DEF ReadContext, IInv, TypeOK, conclusion,
         report, Omission
    <2>. QED
      BY <1>2, <2>1, <2>2, CallType DEF IInv, ReadContext
  <1>3. ASSUME NEW f \in File, ShowDiff(f)  PROVE IInv'
    <2>1. EvidenceFirst' /\ Concluded' /\ AdmittedAccepted'
      BY <1>3, EvidenceGrows DEF ShowDiff, Call, HistoryRead
    <2>2. TypeOK'
      BY <1>3, CallType, ChargeType DEF ShowDiff, IInv, TypeOK, conclusion, report
    <2>. QED
      BY <1>3, <2>1, <2>2, CallType DEF IInv, ShowDiff
  <1>4. ASSUME NEW max_results \in 1..MaxPage, GetExisting(max_results)
        PROVE  IInv'
    <2>1. /\ cursor' \in 0..Len(prior) /\ prior' = prior
          /\ cursor = Len(prior) => cursor' = Len(prior)
      BY <1>4, EngineAssumption, LenProperties
         DEF GetExisting, Call, IInv, TypeOK
    <2>2. EvidenceFirst' /\ Concluded' /\ AdmittedAccepted'
      BY <1>4, <2>1, EvidenceGrows DEF GetExisting, HistoryRead
    <2>3. TypeOK'
      BY <1>4, <2>1, CallType, ChargeType
         DEF GetExisting, IInv, TypeOK, conclusion, report
    <2>. QED
      BY <1>4, <2>2, <2>3, CallType DEF IInv, GetExisting
  <1>. QED
    BY <1>1, <1>2, <1>3, <1>4 DEF Evidence

\* A budget that is charged before the decision stays within its limit.
LEMMA OfferType ==
    ASSUME IInv, NEW findings \in Envelopes, Offer(findings)
    PROVE  calls' \in 0..MaxCalls /\ offered' \in 0..MaxFindings
  <1>1. Cardinality(findings) \in Nat
    BY FS_CardinalityType DEF Envelopes
  <1>. QED
    BY <1>1, EngineAssumption DEF Offer, Charge, IInv, TypeOK

\* An admitted envelope rests on the evidence of this moment, and its
\* lineages join those of the envelopes accepted before.
LEMMA AdmitKeeps ==
    ASSUME IInv, NEW unit \in Unit, NEW findings \in Envelopes,
           Admit(unit, findings)
    PROVE  IInv'
  <1>1. /\ Call /\ Offer(findings) /\ Admissible(findings)
        /\ UNCHANGED <<prior, evidence, conclusion>>
        /\ findings \subseteq Finding
    BY DEF Admit, Offer, Call, Envelopes
  <1>2. /\ DOMAIN accepted' = DOMAIN accepted \cup {unit}
        /\ accepted' = [u \in DOMAIN accepted' |-> accepted'[u]]
        /\ accepted'[unit] = findings
        /\ \A u \in DOMAIN accepted : accepted'[u] = accepted[u]
    BY DEF Admit
  <1>3. Accepted' = Accepted \cup findings
    BY <1>2 DEF Accepted
  <1>4. LineagesOf(Accepted)' = LineagesOf(Accepted) \cup LineagesOf(findings)
    BY <1>3 DEF LineagesOf
  <1>5. LineagesOf(findings) \subseteq Lineage
    BY <1>1 DEF LineagesOf, Finding
  <1>6. TypeOK'
    <2>1. \A u \in DOMAIN accepted' : accepted'[u] \subseteq Finding
      BY <1>1, <1>2 DEF IInv, TypeOK
    <2>2. DOMAIN accepted' \subseteq Unit /\ admitted' \subseteq Lineage
      BY <1>2, <1>5 DEF IInv, TypeOK, Admit
    <2>. QED
      BY <1>1, <1>2, <2>1, <2>2, OfferType, CallType
         DEF IInv, TypeOK, evidence, conclusion, report
  <1>7. EvidenceFirst'
    <2>1. UNCHANGED <<Owned, HistoryRead, context, inspected>>
      BY <1>1 DEF Owned, HistoryRead, evidence
    <2>2. \A f \in Accepted : /\ FileOf[f.anchor] \in inspected
                              /\ f.lineage \in Owned \cup {None}
      <3>1. CASE DOMAIN accepted = {}
        BY <3>1 DEF Accepted
      <3>2. CASE DOMAIN accepted # {}
        BY <3>2 DEF IInv, EvidenceFirst
      <3>. QED
        BY <3>1, <3>2
    <2>. QED
      BY <1>1, <1>3, <2>1, <2>2 DEF EvidenceFirst, Admissible
  <1>8. Concluded'
    <2>1. UNCHANGED <<Open, HistoryRead, summary, dispositions>>
      BY <1>1 DEF Open, HistoryRead, evidence, conclusion
    <2>. QED
      BY <1>4, <2>1 DEF IInv, Concluded
  <1>9. AdmittedAccepted'
    BY <1>4 DEF IInv, AdmittedAccepted, Admit
  <1>. QED
    BY <1>1, <1>6, <1>7, <1>8, <1>9, CallType DEF IInv

LEMMA SuppressKeeps ==
    ASSUME IInv, NEW unit \in Unit, NEW findings \in Envelopes,
           Suppress(unit, findings)
    PROVE  IInv'
  <1>1. /\ Call /\ Offer(findings)
        /\ UNCHANGED <<prior, evidence, accepted, admitted, conclusion>>
    BY DEF Suppress, Offer, Call
  <1>2. TypeOK'
    BY <1>1, OfferType, CallType DEF IInv, TypeOK, evidence, conclusion, report
  <1>. QED
    BY <1>1, <1>2, Quiet, CallType DEF IInv

\* A summary is accepted with a disposition of every open lineage; what it
\* calls still present was admitted, and so is accepted.
LEMMA SummaryKeeps ==
    ASSUME IInv, NEW d \in [Open -> Disposition], SubmitSummary(d)
    PROVE  IInv'
  <1>1. /\ Call /\ Charge /\ HistoryRead
        /\ UNCHANGED <<prior, offered, evidence, accepted, admitted>>
        /\ summary' = TRUE /\ dispositions' = d /\ DOMAIN d = Open
    BY DEF SubmitSummary, Call
  <1>2. Open \subseteq Lineage
    <2>1. \A n \in DOMAIN prior : prior[n] \in Discussion
      BY DEF IInv, TypeOK
    <2>. QED
      BY <2>1 DEF Open, Discussion
  <1>3. UNCHANGED <<Accepted, Owned, Open, HistoryRead, LineagesOf(Accepted)>>
    BY <1>1 DEF Accepted, Owned, Open, HistoryRead, evidence, LineagesOf
  <1>4. TypeOK'
    BY <1>1, <1>2, CallType, ChargeType DEF IInv, TypeOK, evidence, report
  <1>5. EvidenceFirst'
    BY <1>1, <1>3 DEF IInv, EvidenceFirst, evidence
  <1>6. Concluded'
    BY <1>1, <1>3 DEF SubmitSummary, IInv, AdmittedAccepted, Concluded
  <1>7. AdmittedAccepted'
    BY <1>1, <1>3 DEF IInv, AdmittedAccepted
  <1>. QED
    BY <1>1, <1>4, <1>5, <1>6, <1>7, CallType DEF IInv

\* A complete review hands over the open lineages it calls fixed.
LEMMA RankKeeps == IInv /\ Rank => IInv'
  <1>. SUFFICES ASSUME IInv, Rank  PROVE IInv'
    OBVIOUS
  <1>1. /\ UNCHANGED <<prior, budget, evidence, accepted, admitted,
                       conclusion>>
        /\ pc = "done" /\ pc' = "ranked" /\ fixed' = AuthorizedFixed
        /\ reported' \subseteq Accepted
    BY DEF Rank, Ranked
  <1>2. summary /\ HistoryRead /\ DOMAIN dispositions = Open
    BY <1>1 DEF IInv, DoneConcluded, Concluded
  <1>3. /\ fixed' \subseteq Open /\ fixed' \subseteq Lineage
        /\ fixed' # {} => gaps = {}
    BY <1>1, <1>2 DEF AuthorizedFixed, IInv, TypeOK
  <1>4. Accepted \subseteq Finding
    BY DEF Accepted, IInv, TypeOK
  <1>5. TypeOK'
    BY <1>1, <1>3, <1>4
       DEF IInv, TypeOK, budget, evidence, conclusion, Place
  <1>6. FixedAuthorized' /\ DoneConcluded' /\ FixedLast'
    BY <1>1, <1>2, <1>3 DEF FixedAuthorized, DoneConcluded, FixedLast,
       HistoryRead, Open, evidence, conclusion
  <1>. QED
    BY <1>1, <1>5, <1>6, Quiet DEF IInv

\* The steps that only move the review along.
Along == Stop \/ EndAnswer \/ Misuse \/ Fail \/ RankStale \/ RankFails

LEMMA AlongKeeps == IInv /\ (Request \/ Along) => IInv'
  <1>. SUFFICES ASSUME IInv, Request \/ Along  PROVE IInv'
    OBVIOUS
  <1>1. /\ UNCHANGED <<prior, calls, offered, evidence, accepted, admitted,
                       conclusion, report>>
        /\ pc # "ranked" /\ pc' \in Place
        /\ pc' \in {"done", "ranked"} => summary
    BY DEF Request, Along, Stop, EndAnswer, Misuse, Fail, RankStale, RankFails,
       Call, Place, budget, report, IInv, DoneConcluded
  <1>2. turns' \in 0..MaxTurns
    BY EngineAssumption DEF Request, Along, Stop, EndAnswer, Misuse, Fail,
       RankStale, RankFails, Call, budget, IInv, TypeOK
  <1>3. TypeOK'
    BY <1>1, <1>2 DEF IInv, TypeOK, evidence, conclusion, report
  <1>4. FixedAuthorized' /\ DoneConcluded' /\ FixedLast'
    BY <1>1 DEF IInv, FixedAuthorized, DoneConcluded, FixedLast, report,
       conclusion
  <1>. QED
    BY <1>1, <1>3, <1>4, Quiet DEF IInv

LEMMA Inductive == IInv /\ [Next]_vars => IInv'
  <1>. SUFFICES ASSUME IInv, [Next]_vars  PROVE IInv'
    OBVIOUS
  <1>1. CASE Request \/ Along
    BY <1>1, AlongKeeps
  <1>2. CASE Evidence
    BY <1>2, EvidenceKeeps
  <1>3. CASE Candidate
    BY <1>3, AdmitKeeps, SuppressKeeps DEF Candidate
  <1>4. CASE \E d \in [Open -> Disposition] : SubmitSummary(d)
    BY <1>4, SummaryKeeps
  <1>5. CASE Rank
    BY <1>5, RankKeeps
  <1>6. CASE UNCHANGED vars
    <2>1. UNCHANGED <<prior, pc, budget, evidence, accepted, admitted,
                      conclusion, report>>
      BY <1>6 DEF vars
    <2>. QED
      BY <2>1, Quiet DEF IInv, TypeOK, FixedAuthorized, DoneConcluded,
         FixedLast, HistoryRead, Open, budget, evidence, conclusion, report
  <1>. QED
    BY <1>1, <1>2, <1>3, <1>4, <1>5, <1>6 DEF Next, Engine, Along

\* The inductive invariant holds in every state of every conversation
\* (run_review).
THEOREM Invariant == Spec => []IInv
  BY Initially, Inductive, PTL DEF Spec

\* The review's state is well formed, and its counters stay within the
\* budget.
THEOREM ReviewTypeCorrect == Spec => []TypeOK
  <1>1. IInv => TypeOK
    BY DEF IInv
  <1>. QED
    BY <1>1, Invariant, PTL

\* Every accepted finding rests on evidence, in any conversation
\* (RestrainedAdmission::admit).
THEOREM EvidenceAlwaysFirst == Spec => []EvidenceFirst
  <1>1. IInv => EvidenceFirst
    BY DEF IInv
  <1>. QED
    BY <1>1, Invariant, PTL

\* A concluded review has disposed of every open lineage, and what it calls
\* still present it accepted a finding of (submit_review_summary).
THEOREM AlwaysConcluded == Spec => []Concluded
  <1>1. IInv => Concluded
    BY DEF IInv
  <1>. QED
    BY <1>1, Invariant, PTL

\* Lineages go to the publication as fixed only from a complete review
\* (authorized_fixed_lineages).
THEOREM FixedAlwaysAuthorized == Spec => []FixedAuthorized
  <1>1. IInv => FixedAuthorized
    BY DEF IInv
  <1>. QED
    BY <1>1, Invariant, PTL

-----------------------------------------------------------------------------
(* The classification of what changed.                                     *)

RemovedPaths(base, ids) ==
    (DOMAIN base \ DOMAIN ids) \ {r[1] : r \in Renames(base, ids)}
AddedPaths(base, ids) ==
    (DOMAIN ids \ DOMAIN base) \ {r[2] : r \in Renames(base, ids)}

\* A path that was removed or added is of one rename at most.
LEMMA RenamePairs ==
    ASSUME NEW base, NEW ids, NEW r \in Renames(base, ids)
    PROVE  /\ r = <<r[1], r[2]>>
           /\ r[1] \in DOMAIN base \ DOMAIN ids
           /\ r[2] \in DOMAIN ids \ DOMAIN base
           /\ \A q \in Renames(base, ids) : r[1] = q[1] \/ r[2] = q[2] => r = q
  <1>1. \A q \in Renames(base, ids) :
            /\ q = <<q[1], q[2]>>
            /\ q[1] \in DOMAIN base \ DOMAIN ids
            /\ q[2] \in DOMAIN ids \ DOMAIN base
            /\ base[q[1]] = ids[q[2]]
            /\ \A p \in DOMAIN base \ DOMAIN ids : base[p] = base[q[1]] => p = q[1]
            /\ \A p \in DOMAIN ids \ DOMAIN base : ids[p] = ids[q[2]] => p = q[2]
    BY DEF Renames
  <1>2. ASSUME NEW q \in Renames(base, ids), r[1] = q[1] \/ r[2] = q[2]
        PROVE  r = q
    <2>1. r[1] = q[1] /\ r[2] = q[2]
      BY <1>1, <1>2
    <2>. QED
      BY <1>1, <2>1
  <1>. QED
    BY <1>1, <1>2

\* The four ways a path appears in a change.
LEMMA ChangeShape ==
    ASSUME NEW base, NEW ids, NEW c \in ChangeSet(base, ids)
    PROVE  /\ c = Change(c.path.old, c.path.new, c.path.kind, c.old_id, c.new_id)
           /\ \/ /\ <<c.path.old, c.path.new>> \in Renames(base, ids)
                 /\ c = Change(c.path.old, c.path.new, "Renamed",
                               base[c.path.old], ids[c.path.new])
              \/ /\ c.path.new \in RemovedPaths(base, ids)
                 /\ c = Change(c.path.new, c.path.new, "Deleted", base[c.path.new], None)
              \/ /\ c.path.new \in AddedPaths(base, ids)
                 /\ c = Change(c.path.new, c.path.new, "Added", None, ids[c.path.new])
              \/ /\ c.path.new \in DOMAIN base \cap DOMAIN ids
                 /\ base[c.path.new] # ids[c.path.new]
                 /\ c = Change(c.path.new, c.path.new, "Modified",
                               base[c.path.new], ids[c.path.new])
  <1>1. CASE \E r \in Renames(base, ids) :
                c = Change(r[1], r[2], "Renamed", base[r[1]], ids[r[2]])
    <2>1. PICK r \in Renames(base, ids) :
                c = Change(r[1], r[2], "Renamed", base[r[1]], ids[r[2]])
      BY <1>1
    <2>2. r = <<r[1], r[2]>>
      BY RenamePairs
    <2>. QED
      BY <2>1, <2>2 DEF Change
  <1>2. CASE \E p \in RemovedPaths(base, ids) : c = Change(p, p, "Deleted", base[p], None)
    BY <1>2 DEF Change
  <1>3. CASE \E p \in AddedPaths(base, ids) : c = Change(p, p, "Added", None, ids[p])
    BY <1>3 DEF Change
  <1>4. CASE \E p \in DOMAIN base \cap DOMAIN ids :
                base[p] # ids[p] /\ c = Change(p, p, "Modified", base[p], ids[p])
    BY <1>4 DEF Change
  <1>. QED
    BY <1>1, <1>2, <1>3, <1>4 DEF ChangeSet, RemovedPaths, AddedPaths

\* A change is its path and its identities.
LEMMA ChangeFields ==
    ASSUME NEW base, NEW ids, NEW c \in ChangeSet(base, ids)
    PROVE  c = Change(c.path.old, c.path.new, c.path.kind, c.old_id, c.new_id)
BY ChangeShape

\* Every path that is not the same on both sides is in a change.
LEMMA ChangesCover ==
    ASSUME NEW base, NEW ids
    PROVE  /\ \A p \in DOMAIN ids : p \notin DOMAIN base =>
                \E c \in ChangeSet(base, ids) : c.path.new = p /\ c.new_id = ids[p]
           /\ \A p \in DOMAIN base : p \notin DOMAIN ids =>
                \E c \in ChangeSet(base, ids) : c.path.old = p
           /\ \A p \in DOMAIN base \cap DOMAIN ids : base[p] # ids[p] =>
                \E c \in ChangeSet(base, ids) : c.path.old = p /\ c.path.new = p
                                                /\ c.new_id = ids[p]
  <1> DEFINE S == ChangeSet(base, ids)
  <1>1. /\ \A r \in Renames(base, ids) :
                Change(r[1], r[2], "Renamed", base[r[1]], ids[r[2]]) \in S
        /\ \A p \in RemovedPaths(base, ids) : Change(p, p, "Deleted", base[p], None) \in S
        /\ \A p \in AddedPaths(base, ids) : Change(p, p, "Added", None, ids[p]) \in S
        /\ \A p \in DOMAIN base \cap DOMAIN ids :
                base[p] # ids[p] => Change(p, p, "Modified", base[p], ids[p]) \in S
    BY DEF ChangeSet, RemovedPaths, AddedPaths
  <1>2. \A a, b, k, o, n :
            /\ Change(a, b, k, o, n).path.old = a /\ Change(a, b, k, o, n).path.new = b
            /\ Change(a, b, k, o, n).new_id = n
    BY DEF Change
  <1>3. ASSUME NEW p \in DOMAIN ids, p \notin DOMAIN base
        PROVE  \E c \in S : c.path.new = p /\ c.new_id = ids[p]
    <2>1. CASE p \in AddedPaths(base, ids)
      BY <1>1, <1>2, <2>1
    <2>2. CASE p \notin AddedPaths(base, ids)
      <3>1. PICK r \in Renames(base, ids) : r[2] = p
        BY <1>3, <2>2 DEF AddedPaths
      <3>. QED
        BY <1>1, <1>2, <3>1
    <2>. QED
      BY <2>1, <2>2
  <1>4. ASSUME NEW p \in DOMAIN base, p \notin DOMAIN ids
        PROVE  \E c \in S : c.path.old = p
    <2>1. CASE p \in RemovedPaths(base, ids)
      BY <1>1, <1>2, <2>1
    <2>2. CASE p \notin RemovedPaths(base, ids)
      <3>1. PICK r \in Renames(base, ids) : r[1] = p
        BY <1>4, <2>2 DEF RemovedPaths
      <3>. QED
        BY <1>1, <1>2, <3>1
    <2>. QED
      BY <2>1, <2>2
  <1>5. ASSUME NEW p \in DOMAIN base \cap DOMAIN ids, base[p] # ids[p]
        PROVE  \E c \in S : c.path.old = p /\ c.path.new = p /\ c.new_id = ids[p]
    BY <1>1, <1>2, <1>5
  <1>. QED
    BY <1>3, <1>4, <1>5

\* No path is in two changes.
LEMMA OneAbout ==
    ASSUME NEW base, NEW ids, NEW c \in ChangeSet(base, ids), NEW d \in ChangeSet(base, ids),
           NEW p, p \in {c.path.old, c.path.new}, p \in {d.path.old, d.path.new}
    PROVE  c = d
  <1>1. ASSUME NEW e \in ChangeSet(base, ids), p \in {e.path.old, e.path.new}
        PROVE  \/ \E r \in Renames(base, ids) :
                    p \in {r[1], r[2]} /\ e = Change(r[1], r[2], "Renamed", base[r[1]], ids[r[2]])
               \/ p \in RemovedPaths(base, ids) /\ e = Change(p, p, "Deleted", base[p], None)
               \/ p \in AddedPaths(base, ids) /\ e = Change(p, p, "Added", None, ids[p])
               \/ p \in DOMAIN base \cap DOMAIN ids /\ e = Change(p, p, "Modified", base[p], ids[p])
    <2>1. CASE /\ <<e.path.old, e.path.new>> \in Renames(base, ids)
               /\ e = Change(e.path.old, e.path.new, "Renamed",
                             base[e.path.old], ids[e.path.new])
      <3> DEFINE r == <<e.path.old, e.path.new>>
      <3>1. r[1] = e.path.old /\ r[2] = e.path.new
        OBVIOUS
      <3>2. p \in {r[1], r[2]} /\ e = Change(r[1], r[2], "Renamed", base[r[1]], ids[r[2]])
        BY <1>1, <2>1, <3>1
      <3>. QED
        BY <2>1, <3>2
    <2>2. CASE /\ e.path.new \in RemovedPaths(base, ids)
               /\ e = Change(e.path.new, e.path.new, "Deleted", base[e.path.new], None)
      <3>1. e.path.old = e.path.new
        BY <2>2 DEF Change
      <3>. QED
        BY <1>1, <2>2, <3>1
    <2>3. CASE /\ e.path.new \in AddedPaths(base, ids)
               /\ e = Change(e.path.new, e.path.new, "Added", None, ids[e.path.new])
      <3>1. e.path.old = e.path.new
        BY <2>3 DEF Change
      <3>. QED
        BY <1>1, <2>3, <3>1
    <2>4. CASE /\ e.path.new \in DOMAIN base \cap DOMAIN ids
               /\ e = Change(e.path.new, e.path.new, "Modified",
                             base[e.path.new], ids[e.path.new])
      <3>1. e.path.old = e.path.new
        BY <2>4 DEF Change
      <3>. QED
        BY <1>1, <2>4, <3>1
    <2>. QED
      BY <2>1, <2>2, <2>3, <2>4, ChangeShape
  <1>2. \A r \in Renames(base, ids) :
            /\ r[1] \in DOMAIN base \ DOMAIN ids /\ r[1] \notin RemovedPaths(base, ids)
            /\ r[2] \in DOMAIN ids \ DOMAIN base /\ r[2] \notin AddedPaths(base, ids)
            /\ \A q \in Renames(base, ids) :
                {r[1], r[2]} \cap {q[1], q[2]} # {} => r = q
    <2>1. SUFFICES ASSUME NEW r \in Renames(base, ids)
                   PROVE  /\ r[1] \in DOMAIN base \ DOMAIN ids /\ r[1] \notin RemovedPaths(base, ids)
                          /\ r[2] \in DOMAIN ids \ DOMAIN base /\ r[2] \notin AddedPaths(base, ids)
                          /\ \A q \in Renames(base, ids) :
                                {r[1], r[2]} \cap {q[1], q[2]} # {} => r = q
      OBVIOUS
    <2>2. /\ r[1] \in DOMAIN base \ DOMAIN ids /\ r[2] \in DOMAIN ids \ DOMAIN base
          /\ \A q \in Renames(base, ids) : r[1] = q[1] \/ r[2] = q[2] => r = q
      BY RenamePairs
    <2>3. \A q \in Renames(base, ids) :
            q[1] \in DOMAIN base \ DOMAIN ids /\ q[2] \in DOMAIN ids \ DOMAIN base
      BY RenamePairs
    <2>. QED
      BY <2>2, <2>3 DEF RemovedPaths, AddedPaths
  <1>3. /\ RemovedPaths(base, ids) \subseteq DOMAIN base \ DOMAIN ids
        /\ AddedPaths(base, ids) \subseteq DOMAIN ids \ DOMAIN base
    BY DEF RemovedPaths, AddedPaths
  <1>4. CASE \E r \in Renames(base, ids) :
                p \in {r[1], r[2]} /\ c = Change(r[1], r[2], "Renamed", base[r[1]], ids[r[2]])
    <2>1. PICK r \in Renames(base, ids) :
                p \in {r[1], r[2]} /\ c = Change(r[1], r[2], "Renamed", base[r[1]], ids[r[2]])
      BY <1>4
    <2>2. /\ p \notin RemovedPaths(base, ids) /\ p \notin AddedPaths(base, ids)
          /\ p \notin DOMAIN base \cap DOMAIN ids
      BY <1>2, <1>3, <2>1
    <2>3. PICK q \in Renames(base, ids) :
                p \in {q[1], q[2]} /\ d = Change(q[1], q[2], "Renamed", base[q[1]], ids[q[2]])
      BY <1>1, <2>2
    <2>. QED
      BY <1>2, <2>1, <2>3
  <1>5. CASE /\ p \notin DOMAIN base \cap DOMAIN ids
             /\ \A r \in Renames(base, ids) : p \notin {r[1], r[2]}
    BY <1>1, <1>3, <1>5
  <1>6. CASE p \in DOMAIN base \cap DOMAIN ids
    BY <1>1, <1>2, <1>3, <1>6
  <1>7. CASE \E r \in Renames(base, ids) : p \in {r[1], r[2]}
    BY <1>1, <1>2, <1>3, <1>4, <1>7
  <1>. QED
    BY <1>5, <1>6, <1>7

\* The changes say what was hashed of every path: that of a change that has
\* it, else that of the base, unless a change takes the path away.
LEMMA ChangesDetermine ==
    ASSUME NEW base, NEW ids, None \notin {ids[p] : p \in DOMAIN ids}
    PROVE  /\ \A c \in ChangeSet(base, ids) : c.new_id # None =>
                c.path.new \in DOMAIN ids /\ ids[c.path.new] = c.new_id
           /\ \A p \in DOMAIN ids :
                \/ \E c \in ChangeSet(base, ids) : c.path.new = p /\ c.new_id = ids[p]
                \/ /\ p \in DOMAIN base /\ ids[p] = base[p]
                   /\ \A c \in ChangeSet(base, ids) : p \notin {c.path.old, c.path.new}
           /\ \A p \in DOMAIN base :
                (\A c \in ChangeSet(base, ids) : c.path.old # p) => p \in DOMAIN ids /\ ids[p] = base[p]
  <1> DEFINE S == ChangeSet(base, ids)
  <1>1. ASSUME NEW c \in S, c.new_id # None
        PROVE  c.path.new \in DOMAIN ids /\ ids[c.path.new] = c.new_id
    <2>1. <<c.path.old, c.path.new>> \in Renames(base, ids) => c.path.new \in DOMAIN ids
      BY DEF Renames
    <2>2. AddedPaths(base, ids) \subseteq DOMAIN ids
      BY DEF AddedPaths
    <2>. QED
      BY <1>1, <2>1, <2>2, ChangeShape DEF Change
  <1>2. ASSUME NEW p \in DOMAIN base, \A c \in S : c.path.old # p
        PROVE  p \in DOMAIN ids /\ ids[p] = base[p]
    BY <1>2, ChangesCover
  <1>3. ASSUME NEW p \in DOMAIN ids, ~\E c \in S : c.path.new = p /\ c.new_id = ids[p]
        PROVE  /\ p \in DOMAIN base /\ ids[p] = base[p]
               /\ \A c \in S : p \notin {c.path.old, c.path.new}
    <2>1. p \in DOMAIN base /\ ids[p] = base[p]
      BY <1>3, ChangesCover
    <2>2. ASSUME NEW c \in S, p \in {c.path.old, c.path.new}
          PROVE  FALSE
      <3>1. /\ <<c.path.old, c.path.new>> \in Renames(base, ids) =>
                c.path.old \notin DOMAIN ids /\ c.path.new \notin DOMAIN base
            /\ RemovedPaths(base, ids) \cap DOMAIN ids = {}
            /\ AddedPaths(base, ids) \cap DOMAIN base = {}
        BY DEF Renames, RemovedPaths, AddedPaths
      <3>. QED
        BY <1>3, <2>1, <2>2, <3>1, ChangeShape DEF Change
    <2>. QED
      BY <2>1, <2>2
  <1>. QED
    BY <1>1, <1>2, <1>3

\* Two captures with the same base and the same changes hashed the same files.
LEMMA SameHashes ==
    ASSUME NEW base, NEW ids, NEW other,
           ids = [p \in DOMAIN ids |-> ids[p]], other = [p \in DOMAIN other |-> other[p]],
           None \notin {ids[p] : p \in DOMAIN ids}, None \notin {other[p] : p \in DOMAIN other},
           ChangeSet(base, ids) = ChangeSet(base, other)
    PROVE  ids = other
  <1> DEFINE S == ChangeSet(base, ids)
  <1>1. ASSUME NEW p \in DOMAIN ids
        PROVE  p \in DOMAIN other /\ other[p] = ids[p]
    <2>1. CASE \E c \in S : c.path.new = p /\ c.new_id = ids[p]
      BY <2>1, ChangesDetermine
    <2>2. CASE /\ p \in DOMAIN base /\ ids[p] = base[p]
               /\ \A c \in S : p \notin {c.path.old, c.path.new}
      BY <2>2, ChangesDetermine
    <2>. QED
      BY <2>1, <2>2, ChangesDetermine
  <1>2. ASSUME NEW p \in DOMAIN other
        PROVE  p \in DOMAIN ids
    <2>1. CASE \E c \in S : c.path.new = p /\ c.new_id = other[p]
      BY <2>1, ChangesDetermine
    <2>2. CASE /\ p \in DOMAIN base /\ other[p] = base[p]
               /\ \A c \in S : p \notin {c.path.old, c.path.new}
      BY <2>2, ChangesDetermine
    <2>. QED
      BY <2>1, <2>2, ChangesDetermine
  <1>. QED
    BY <1>1, <1>2

-----------------------------------------------------------------------------
(* The order of the changes.                                               *)

\* A finite set of changes of distinct new paths.
Distinct(changes) ==
    /\ IsFiniteSet(changes)
    /\ \A c \in changes : c.path.new \in Int
    /\ \A c, d \in changes : c.path.new = d.path.new => c = d

Smaller(changes, c) == {d \in changes : d.path.new < c.path.new}

\* The sequence has every change once, and nothing else.
LEMMA OrderedAll ==
    ASSUME NEW changes, Distinct(changes)
    PROVE  /\ Ordered(changes) \in Seq(changes)
           /\ Len(Ordered(changes)) = Cardinality(changes)
           /\ ToSet(Ordered(changes)) = changes
           /\ IsInjective(Ordered(changes))
  <1> DEFINE R == {p \in changes \X changes : p[1].path.new < p[2].path.new}
             s == Ordered(changes)
  <1>1. StrictOrder(changes, R)
    BY DEF StrictOrder, Distinct
  <1>2. \A x \in changes : Smaller(changes, x) = Above(changes, R, x)
    BY DEF Above, Smaller
  <1>3. DOMAIN s = 1..Cardinality(changes) /\ s = [i \in 1..Cardinality(changes) |-> s[i]]
    <2> DEFINE at(i) == CHOOSE x \in changes : Cardinality({y \in changes : y.path.new < x.path.new}) = i - 1
    <2>1. s = [i \in 1..Cardinality(changes) |-> at(i)]
      BY DEF Ordered, InOrder
    <2> HIDE DEF at, s
    <2> QED BY <2>1
  <1>4. ASSUME NEW i \in 1..Cardinality(changes),
               \E x \in changes : Cardinality(Above(changes, R, x)) = i - 1
        PROVE  s[i] \in changes /\ Cardinality(Above(changes, R, s[i])) = i - 1
    <2>1. s[i] = CHOOSE x \in changes : Cardinality(Smaller(changes, x)) = i - 1
      BY DEF Ordered, InOrder, Smaller
    <2> HIDE DEF R, s
    <2>2. \E x \in changes : Cardinality(Smaller(changes, x)) = i - 1
      BY <1>2, <1>4
    <2>3. s[i] \in changes /\ Cardinality(Smaller(changes, s[i])) = i - 1
      BY <2>1, <2>2
    <2> QED BY <1>2, <2>3
  <1> HIDE DEF s, R
  <1>5. RankedBy(s, changes, R)
    BY <1>3, <1>4 DEF RankedBy
  <1>6. IsFiniteSet(changes)
    BY DEF Distinct
  <1> QED BY <1>1, <1>5, <1>6, RankLists DEF s

\* What classify_changes makes of trees over Paths can be put in order.
LEMMA ChangesDistinct ==
    ASSUME NEW base, NEW ids, DOMAIN base \subseteq Paths, DOMAIN ids \subseteq Paths
    PROVE  Distinct(ChangeSet(base, ids))
  <1> DEFINE S == ChangeSet(base, ids)
             new == [c \in S |-> c.path.new]
  <1>1. Paths \subseteq Int /\ IsFiniteSet(Paths)
    BY TreeAssumption
  <1>2. ASSUME NEW c \in S
        PROVE  c.path.new \in Paths
    <2>1. <<c.path.old, c.path.new>> \in Renames(base, ids) => c.path.new \in DOMAIN ids
      BY DEF Renames
    <2>2. RemovedPaths(base, ids) \subseteq DOMAIN base /\ AddedPaths(base, ids) \subseteq DOMAIN ids
      BY DEF RemovedPaths, AddedPaths
    <2>. QED
      BY <2>1, <2>2, ChangeShape
  <1>3. ASSUME NEW c \in S, NEW d \in S, c.path.new = d.path.new
        PROVE  c = d
    BY <1>3, OneAbout
  <1>4. new \in Injection(S, Paths)
    BY <1>2, <1>3 DEF Injection, IsInjective
  <1>5. IsFiniteSet(S)
    BY <1>1, <1>4, FS_Injection
  <1>. QED
    BY <1>1, <1>2, <1>3, <1>5 DEF Distinct

LEMMA SequenceOfChanges ==
    ASSUME NEW base, NEW ids, DOMAIN base \subseteq Paths, DOMAIN ids \subseteq Paths
    PROVE  /\ Changes(base, ids) \in Seq(ChangeSet(base, ids))
           /\ ToSet(Changes(base, ids)) = ChangeSet(base, ids)
           /\ IsInjective(Changes(base, ids))
  BY ChangesDistinct, OrderedAll DEF Changes

\* What ChangesExplain asks of the changes from base to ids.
Explains(base, ids, changes) ==
    LET about(p) == {c \in changes : p \in {c.path.old, c.path.new}}
        after == [p \in (DOMAIN base \ {c.path.old : c \in changes})
                        \cup {c.path.new : c \in {d \in changes : d.new_id # None}} |->
                    IF about(p) = {} THEN base[p]
                    ELSE (CHOOSE c \in about(p) : TRUE).new_id]
    IN  /\ \A p \in Paths : Cardinality(about(p)) <= 1
        /\ after = ids

\* The changes put to the base give what was hashed.
LEMMA Explained ==
    ASSUME NEW base, NEW ids, base = [p \in DOMAIN base |-> base[p]],
           ids = [p \in DOMAIN ids |-> ids[p]], None \notin {ids[p] : p \in DOMAIN ids},
           NEW changes, changes = ChangeSet(base, ids)
    PROVE  Explains(base, ids, changes)
  <1> DEFINE about(p) == {c \in changes : p \in {c.path.old, c.path.new}}
             kept == DOMAIN base \ {c.path.old : c \in changes}
             new == {c.path.new : c \in {d \in changes : d.new_id # None}}
             value(p) == IF about(p) = {} THEN base[p]
                         ELSE (CHOOSE c \in about(p) : TRUE).new_id
             after == [p \in kept \cup new |-> value(p)]
  <1>1. ASSUME NEW p, NEW c \in about(p)
        PROVE  about(p) = {c}
    BY OneAbout
  <1>2. ASSUME NEW p
        PROVE  Cardinality(about(p)) <= 1
    <2> HIDE DEF about
    <2>1. CASE about(p) = {}
      <3>1. Cardinality({}) = 0
        BY FS_EmptySet
      <3>. QED
        BY <2>1, <3>1
    <2>2. CASE about(p) # {}
      <3>1. PICK c : c \in about(p)
        BY <2>2
      <3>2. about(p) = {c}
        BY <1>1, <3>1
      <3>3. Cardinality({c}) = 1
        BY FS_Singleton
      <3>. QED
        BY <3>2, <3>3
    <2>. QED
      BY <2>1, <2>2
  <1>3. ASSUME NEW p \in new
        PROVE  p \in DOMAIN ids /\ value(p) = ids[p]
    <2>1. PICK c \in changes : c.path.new = p /\ c.new_id # None
      OBVIOUS
    <2>2. about(p) = {c}
      BY <1>1, <2>1
    <2>3. value(p) = c.new_id
      BY <2>2
    <2>. QED
      BY <2>1, <2>3, ChangesDetermine
  <1>4. ASSUME NEW p \in kept
        PROVE  p \in DOMAIN ids /\ value(p) = ids[p]
    <2>1. p \in DOMAIN ids /\ ids[p] = base[p]
      BY <1>4, ChangesDetermine
    <2>2. CASE about(p) = {}
      BY <2>1, <2>2
    <2>3. CASE about(p) # {}
      <3>1. PICK c \in changes : p \in {c.path.old, c.path.new}
        BY <2>3
      <3>2. c.path.new = p /\ c.path.old # p
        BY <1>4, <3>1
      <3>3. PICK d \in changes : d.path.new = p /\ d.new_id = ids[p]
        BY <2>1, <3>1, ChangesDetermine
      <3>4. d = c
        BY <3>1, <3>3, OneAbout
      <3>5. about(p) = {c}
        BY <1>1, <3>1
      <3>. QED
        BY <2>1, <3>3, <3>4, <3>5
    <2>. QED
      BY <2>2, <2>3
  <1>5. ASSUME NEW p \in DOMAIN ids
        PROVE  p \in kept \cup new
    <2>1. CASE \E c \in changes : c.path.new = p /\ c.new_id = ids[p]
      BY <2>1
    <2>2. CASE p \in DOMAIN base /\ \A c \in changes : p \notin {c.path.old, c.path.new}
      BY <2>2
    <2>. QED
      BY <2>1, <2>2, ChangesDetermine
  <1>6. kept \cup new = DOMAIN ids
    BY <1>3, <1>4, <1>5
  <1>7. \A p \in DOMAIN ids : value(p) = ids[p]
    BY <1>3, <1>4, <1>6
  <1>8. after = ids
    <2> HIDE DEF kept, new, value
    <2>. QED
      BY <1>6, <1>7
  <1>. QED
    BY <1>2, <1>8 DEF Explains

-----------------------------------------------------------------------------
(* The shape of a review.                                                  *)

\* The paths a capture may list.
Eligible == {p \in Paths : p \in Tracked \/ p \notin Ignored}

\* Hashes of files that exist.
Hashed(ids) ==
    /\ ids = [p \in DOMAIN ids |-> ids[p]]
    /\ DOMAIN ids \subseteq Eligible
    /\ \A p \in DOMAIN ids : ids[p] # None

\* The first of the changes, each read.
CapturedOf(captured, changes) ==
    /\ \E S : captured \in Seq(S)
    /\ Len(captured) <= Len(changes)
    /\ \A i \in DOMAIN captured :
        /\ captured[i].path = changes[i].path
        /\ captured[i].old_id = changes[i].old_id
        /\ captured[i].new_id = changes[i].new_id

LocalTypeOK ==
    /\ DOMAIN tree = Paths
    /\ head \in DOMAIN ForkOf
    /\ DOMAIN local = DOMAIN Idle
    /\ local.round \in {1, 2}
    /\ local.phase \in {"idle", "open", "list", "hash", "render", "review", "ended"}
    /\ local.phase \in {"idle", "review"} => local.round = 1
    /\ local.phase # "idle" => local.refs \in References
    /\ local.phase # "ended" => local.outcome = None

\* The second capture compares with a first one.
HasFirst == local.phase = "review" \/ (local.round = 2 /\ local.phase # "ended")

CaptureInv ==
    /\ local.phase \in {"list", "hash", "render", "review"} => local.base \in DOMAIN BaseFiles
    /\ local.phase = "list" => local.ids = <<>>
    /\ local.phase \in {"list", "hash"} => local.captured = <<>>
    /\ local.phase \in {"hash", "render", "review"} =>
        local.paths \subseteq Eligible /\ Hashed(local.ids) /\ DOMAIN local.ids \subseteq local.paths
    /\ local.phase \in {"render", "review"} =>
        /\ DOMAIN local.ids = local.paths
        /\ local.changes = Changes(BaseIds(local.base), local.ids)
        /\ CapturedOf(local.captured, local.changes)
    /\ HasFirst => local.first.base \in DOMAIN BaseFiles

LocalShape == LocalTypeOK /\ CaptureInv

\* The files of a commit.
LEMMA BaseOverPaths ==
    ASSUME NEW base \in DOMAIN BaseFiles
    PROVE  /\ DOMAIN BaseIds(base) \subseteq Paths
           /\ BaseIds(base) = [p \in DOMAIN BaseIds(base) |-> BaseIds(base)[p]]
  <1>1. Files(BaseFiles[base]) \subseteq Paths
    BY TreeAssumption DEF Files
  <1>. QED
    BY <1>1 DEF BaseIds

\* What a context may be refused for.
LEMMA ContextErrors ==
    ASSUME NEW identity, NEW S, NEW captured \in Seq(S), NEW policy
    PROVE  BuildLocalContext(identity, captured, policy).error
                \in {None, "Diff", "DiffIdentityMismatch", "Anchor", "Partition"}
  <1> DEFINE files == [i \in DOMAIN captured |->
                        [path |-> captured[i].path,
                         material |-> LocalMaterial(captured[i].path, captured[i].diff)]]
             broken == {i \in DOMAIN files : files[i].material.error # None}
             anchors == Anchors(identity, files)
             inputs == {Input(files[i], anchors) : i \in DOMAIN files}
             Errors == {None, "Diff", "DiffIdentityMismatch", "Anchor", "Partition"}
  <1>1. ASSUME NEW i \in DOMAIN files
        PROVE  files[i].material.error \in Errors
    <2>1. \A path, diff : LocalMaterial(path, diff).error \in {None, "Diff"}
      BY DEF LocalMaterial, ParsedMaterial, NoDiff, Material, Broken
    <2>. QED
      BY <2>1
  <1>2. broken # {} => Min(broken) \in broken
    <2>1. DOMAIN files \subseteq Nat
      OBVIOUS
    <2>. QED
      BY <2>1, MinIsOne
  <1>3. \A e : Failed(e).error = e
    BY DEF Failed
  <1>4. \A a, i, p : BuildPlanned("local", identity, a, i, p, policy).error
                        \in {None, "Anchor", "Partition"}
    BY <1>3 DEF BuildPlanned, Built
  <1>5. BuildAnchored("local", identity, anchors, inputs, policy).error \in Errors
    BY <1>4 DEF BuildAnchored
  <1>6. BuildMaterials("local", identity, files, policy).error \in Errors
    <2>1. broken # {} => files[Min(broken)].material.error \in Errors
      BY <1>1, <1>2
    <2> DEFINE built == BuildMaterials("local", identity, files, policy)
    <2>2. built \in {Failed(files[Min(broken)].material.error), Failed("DiffIdentityMismatch"),
                     BuildAnchored("local", identity, anchors, inputs, policy)}
      <3> HIDE DEF files, Errors
      <3>. QED
        BY Zenon DEF BuildMaterials
    <2>3. broken = {} =>
            built \in {Failed("DiffIdentityMismatch"),
                       BuildAnchored("local", identity, anchors, inputs, policy)}
      <3> HIDE DEF files, Errors
      <3>. QED
        BY DEF BuildMaterials
    <2>4. Failed("DiffIdentityMismatch").error \in Errors
      BY <1>3
    <2> HIDE DEF files, broken, anchors, inputs, Errors, built
    <2>5. built.error \in Errors
      BY <1>3, <1>5, <2>1, <2>2, <2>3, <2>4
    <2>. QED
      BY <2>5 DEF built
  <1>. QED
    BY <1>6 DEF BuildLocalContext

LEMMA ShapeInitially == LocalInit => LocalShape
  <1>. SUFFICES ASSUME LocalInit  PROVE LocalShape
    OBVIOUS
  <1>1. DOMAIN tree = Paths
    BY TreeAssumption DEF LocalInit
  <1>2. LocalTypeOK
    BY <1>1 DEF LocalInit, LocalTypeOK, Idle
  <1>3. CaptureInv
    BY DEF LocalInit, CaptureInv, HasFirst, Idle
  <1>. QED
    BY <1>2, <1>3 DEF LocalShape

\* Where a capture leaves the target branch is a commit of it.
LEMMA MergeBaseKnown ==
    ASSUME NEW commit \in DOMAIN BaseFiles, NEW h \in DOMAIN ForkOf
    PROVE  MergeBase(commit, h) \in DOMAIN BaseFiles
BY TreeAssumption DEF MergeBase

\* A review that ends: its outcome is not "fresh" unless it was compared.
LEMMA EndingEffect ==
    ASSUME LocalShape, NEW outcome, Ending(outcome), UNCHANGED <<tree, head>>, local.phase # "idle"
    PROVE  /\ LocalShape'
           /\ local'.phase = "ended" /\ local'.outcome = outcome /\ local'.first = local.first
  <1>1. /\ DOMAIN local' = DOMAIN Idle /\ local'.phase = "ended" /\ local'.outcome = outcome
        /\ local'.round = local.round /\ local'.refs = local.refs /\ local'.first = local.first
    BY DEF LocalShape, LocalTypeOK, Ending, Idle
  <1>. QED
    BY <1>1 DEF LocalShape, LocalTypeOK, CaptureInv, HasFirst

LEMMA OpenEffect ==
    ASSUME LocalShape, NEW base \in DOMAIN BaseFiles, local' = Opened(base),
           UNCHANGED <<tree, head>>, local.phase = "open"
    PROVE  /\ LocalShape'
           /\ local'.phase = "list" /\ local'.round = local.round /\ local'.head = head
           /\ local'.first = local.first
  <1>1. /\ DOMAIN local' = DOMAIN Idle /\ local'.phase = "list" /\ local'.round = local.round
        /\ local'.refs = local.refs /\ local'.head = head /\ local'.base = base
        /\ local'.ids = <<>> /\ local'.captured = <<>> /\ local'.first = local.first
        /\ local'.outcome = local.outcome
    BY DEF LocalShape, LocalTypeOK, Opened, Idle
  <1>2. LocalTypeOK'
    BY <1>1 DEF LocalShape, LocalTypeOK
  <1>3. CaptureInv'
    BY <1>1 DEF LocalShape, CaptureInv, HasFirst
  <1>. QED
    BY <1>1, <1>2, <1>3 DEF LocalShape

\* A step of OpenCapture opens a capture or ends the review.
LEMMA OpenCases ==
    ASSUME LocalShape, OpenCapture
    PROVE  \/ \E base \in DOMAIN BaseFiles : local' = Opened(base)
           \/ \E outcome : outcome # "fresh" /\ Ending(outcome)
  <1>1. head \in DOMAIN ForkOf
    BY DEF LocalShape, LocalTypeOK
  <1>2. CASE local.round = 2
    <2>1. local.first.base \in DOMAIN BaseFiles
      BY <1>2 DEF LocalShape, CaptureInv, HasFirst, OpenCapture
    <2>. QED
      BY <1>1, <1>2, <2>1, MergeBaseKnown DEF OpenCapture
  <1>3. CASE local.round = 1
    <2> DEFINE name == BaseReference(local.refs)
    <2>1. CASE name \in {"InvalidBase", "BaseAmbiguous"}
      BY <1>3, <2>1 DEF OpenCapture, CaptureFails
    <2>2. CASE name \notin {"InvalidBase", "BaseAmbiguous"} /\ name \notin DOMAIN local.refs.commits
      BY <1>3, <2>2 DEF OpenCapture, CaptureFails
    <2>3. CASE name \notin {"InvalidBase", "BaseAmbiguous"} /\ name \in DOMAIN local.refs.commits
      <3>1. local.refs \in References
        BY DEF LocalShape, LocalTypeOK, OpenCapture
      <3>2. local.refs.commits[name] \in DOMAIN BaseFiles
        BY <2>3, <3>1, TreeAssumption
      <3>. QED
        BY <1>1, <1>3, <2>3, <3>2, MergeBaseKnown DEF OpenCapture
    <2>. QED
      BY <2>1, <2>2, <2>3
  <1>. QED
    BY <1>2, <1>3 DEF LocalShape, LocalTypeOK

LEMMA ListEffect ==
    ASSUME LocalShape, List, ~conflict, UNCHANGED <<tree, head>>
    PROVE  /\ LocalShape'
           /\ local'.phase = "hash" /\ local'.round = local.round /\ local'.head = local.head
           /\ local'.first = local.first /\ local'.paths = WorkingPaths(tree) /\ local'.ids = <<>>
  <1>1. /\ DOMAIN local' = DOMAIN Idle /\ local'.phase = "hash" /\ local'.round = local.round
        /\ local'.refs = local.refs /\ local'.head = local.head /\ local'.base = local.base
        /\ local'.ids = local.ids /\ local'.captured = local.captured
        /\ local'.first = local.first /\ local'.outcome = local.outcome
        /\ local'.paths = WorkingPaths(tree)
    BY DEF LocalShape, LocalTypeOK, List, Idle
  <1>2. LocalTypeOK'
    BY <1>1 DEF LocalShape, LocalTypeOK, List
  <1>3. WorkingPaths(tree) \subseteq Eligible
    BY DEF WorkingPaths, Files, Eligible, LocalShape, LocalTypeOK
  <1>4. local.ids = <<>> /\ Hashed(<<>>) /\ DOMAIN <<>> = {}
    BY DEF LocalShape, CaptureInv, List, Hashed
  <1>5. CaptureInv'
    BY <1>1, <1>3, <1>4 DEF LocalShape, CaptureInv, HasFirst, List
  <1>. QED
    BY <1>1, <1>2, <1>4, <1>5 DEF LocalShape

LEMMA HashCases ==
    ASSUME LocalShape, Hash
    PROVE  \/ /\ DOMAIN local.ids = local.paths
              /\ local' = [local EXCEPT !.phase = "render",
                                        !.changes = Changes(BaseIds(local.base), local.ids)]
           \/ \E p \in local.paths \ DOMAIN local.ids :
                /\ tree[p] # None
                /\ local' = [local EXCEPT !.ids = Noting(local.ids, p, tree[p])]
           \/ CaptureFails("InvalidPath")
  <1> DEFINE left == local.paths \ DOMAIN local.ids
             next == Min(left)
  <1>1. local.paths \subseteq Eligible /\ DOMAIN local.ids \subseteq local.paths
    BY DEF LocalShape, CaptureInv, Hash
  <1>2. left \in SUBSET Nat
    BY <1>1, TreeAssumption DEF Eligible
  <1>3. CASE left = {}
    BY <1>1, <1>3 DEF Hash
  <1>4. CASE left # {}
    <2>1. next \in left
      BY <1>2, <1>4, MinIsOne
    <2>2. CASE tree[next] = None
      BY <1>4, <2>2 DEF Hash
    <2>3. CASE tree[next] # None
      <3>1. local' = [local EXCEPT !.ids = Noting(local.ids, next, tree[next])]
        BY <1>4, <2>3 DEF Hash
      <3>. QED
        BY <2>1, <2>3, <3>1
    <2>. QED
      BY <2>2, <2>3
  <1>. QED
    BY <1>3, <1>4

LEMMA HashEffect ==
    ASSUME LocalShape, local.phase = "hash", UNCHANGED <<tree, head>>,
           NEW p \in local.paths \ DOMAIN local.ids, tree[p] # None,
           local' = [local EXCEPT !.ids = Noting(local.ids, p, tree[p])]
    PROVE  /\ LocalShape'
           /\ local'.phase = "hash" /\ local'.round = local.round /\ local'.head = local.head
           /\ local'.first = local.first /\ local'.paths = local.paths
           /\ DOMAIN local'.ids = {p} \cup DOMAIN local.ids /\ local'.ids[p] = tree[p]
           /\ \A q \in DOMAIN local.ids : local'.ids[q] = local.ids[q]
  <1> DEFINE more == Noting(local.ids, p, tree[p])
  <1>1. /\ DOMAIN local' = DOMAIN Idle /\ local'.phase = local.phase /\ local'.round = local.round
        /\ local'.refs = local.refs /\ local'.head = local.head /\ local'.base = local.base
        /\ local'.ids = more /\ local'.captured = local.captured
        /\ local'.first = local.first /\ local'.outcome = local.outcome
        /\ local'.paths = local.paths
    <2> HIDE DEF more
    <2>1. local' = [local EXCEPT !.ids = more]
      BY DEF more
    <2>. QED
      BY <2>1 DEF LocalShape, LocalTypeOK, Idle
  <1>2. /\ more = [q \in DOMAIN more |-> more[q]]
        /\ DOMAIN more = {p} \cup DOMAIN local.ids
        /\ more[p] = tree[p]
        /\ \A q \in DOMAIN local.ids : q # p => more[q] = local.ids[q]
    BY DEF Noting
  <1>3. local.paths \subseteq Eligible /\ Hashed(local.ids) /\ DOMAIN local.ids \subseteq local.paths
    BY DEF LocalShape, CaptureInv
  <1> HIDE DEF more
  <1>4. Hashed(more) /\ DOMAIN more \subseteq local.paths
    BY <1>2, <1>3 DEF Hashed
  <1>5. LocalTypeOK'
    BY <1>1 DEF LocalShape, LocalTypeOK
  <1>6. CaptureInv'
    BY <1>1, <1>3, <1>4 DEF LocalShape, CaptureInv, HasFirst
  <1>. QED
    BY <1>1, <1>2, <1>5, <1>6 DEF LocalShape

LEMMA ClassifyEffect ==
    ASSUME LocalShape, local.phase = "hash", UNCHANGED <<tree, head>>,
           DOMAIN local.ids = local.paths,
           local' = [local EXCEPT !.phase = "render",
                                  !.changes = Changes(BaseIds(local.base), local.ids)]
    PROVE  /\ LocalShape'
           /\ local'.phase = "render" /\ local'.round = local.round /\ local'.head = local.head
           /\ local'.first = local.first /\ local'.paths = local.paths /\ local'.ids = local.ids
           /\ local'.captured = <<>> /\ local'.base = local.base
  <1> DEFINE changes == Changes(BaseIds(local.base), local.ids)
  <1>1. /\ DOMAIN local' = DOMAIN Idle /\ local'.phase = "render" /\ local'.round = local.round
        /\ local'.refs = local.refs /\ local'.head = local.head /\ local'.base = local.base
        /\ local'.ids = local.ids /\ local'.captured = local.captured
        /\ local'.first = local.first /\ local'.outcome = local.outcome
        /\ local'.paths = local.paths /\ local'.changes = changes
    <2> HIDE DEF changes
    <2>1. local' = [local EXCEPT !.phase = "render", !.changes = changes]
      BY DEF changes
    <2>. QED
      BY <2>1 DEF LocalShape, LocalTypeOK, Idle
  <1>2. local.captured = <<>>
    BY DEF LocalShape, CaptureInv
  <1>3. CapturedOf(<<>>, changes)
    <2>1. changes \in Seq(ChangeSet(BaseIds(local.base), local.ids))
      <3>1. local.base \in DOMAIN BaseFiles /\ DOMAIN local.ids \subseteq Paths
        BY DEF LocalShape, CaptureInv, Hashed, Eligible
      <3>. QED
        BY <3>1, BaseOverPaths, SequenceOfChanges
    <2>2. <<>> \in Seq({}) /\ Len(<<>>) = 0 /\ DOMAIN <<>> = {}
      OBVIOUS
    <2> HIDE DEF changes
    <2>. QED
      BY <2>1, <2>2 DEF CapturedOf
  <1> HIDE DEF changes
  <1>4. LocalTypeOK'
    BY <1>1 DEF LocalShape, LocalTypeOK
  <1>5. CaptureInv'
    BY <1>1, <1>2, <1>3 DEF LocalShape, CaptureInv, HasFirst, changes
  <1>. QED
    BY <1>1, <1>2, <1>4, <1>5 DEF LocalShape

LEMMA RenderEffect ==
    ASSUME LocalShape, Render, UNCHANGED <<tree, head>>,
           ~Unreadable(local.changes[Len(local.captured) + 1], tree)
    PROVE  LET change == local.changes[Len(local.captured) + 1]
           IN  /\ LocalShape'
               /\ local'.phase = "render" /\ local'.round = local.round /\ local'.head = local.head
               /\ local'.first = local.first /\ local'.paths = local.paths /\ local'.ids = local.ids
               /\ local'.changes = local.changes
               /\ DOMAIN local'.captured = DOMAIN local.captured \cup {Len(local.captured) + 1}
               /\ Len(local.captured) + 1 \in DOMAIN local.changes
               /\ local'.captured[Len(local.captured) + 1] = Captured(change, tree)
               /\ \A i \in DOMAIN local.captured : local'.captured[i] = local.captured[i]
               /\ local'.base = local.base
  <1> DEFINE n == Len(local.captured) + 1
             change == local.changes[n]
             one == Captured(change, tree)
             more == Append(local.captured, one)
  <1>1. /\ DOMAIN local' = DOMAIN Idle /\ local'.phase = local.phase /\ local'.round = local.round
        /\ local'.refs = local.refs /\ local'.head = local.head /\ local'.base = local.base
        /\ local'.ids = local.ids /\ local'.captured = more
        /\ local'.first = local.first /\ local'.outcome = local.outcome
        /\ local'.paths = local.paths /\ local'.changes = local.changes
    <2>1. local' = [local EXCEPT !.captured = more]
      BY DEF Render
    <2> HIDE DEF more
    <2>. QED
      BY <2>1 DEF LocalShape, LocalTypeOK, Idle
  <1>2. /\ local.phase = "render" /\ Len(local.captured) < Len(local.changes)
        /\ CapturedOf(local.captured, local.changes)
        /\ local.changes = Changes(BaseIds(local.base), local.ids)
    BY DEF LocalShape, CaptureInv, Render
  <1>3. local.changes \in Seq(ChangeSet(BaseIds(local.base), local.ids))
    <2>1. local.base \in DOMAIN BaseFiles /\ DOMAIN local.ids \subseteq Paths
      BY <1>2 DEF LocalShape, CaptureInv, Hashed, Eligible
    <2>. QED
      BY <1>2, <2>1, BaseOverPaths, SequenceOfChanges
  <1>4. PICK S : local.captured \in Seq(S)
    BY <1>2 DEF CapturedOf
  <1>5. one.path = change.path /\ one.old_id = change.old_id /\ one.new_id = change.new_id
    BY DEF Captured
  <1> HIDE DEF one
  <1>6. /\ more \in Seq(S \cup {one}) /\ Len(more) = n /\ more[n] = one
        /\ DOMAIN more = DOMAIN local.captured \cup {n}
        /\ \A i \in DOMAIN local.captured : more[i] = local.captured[i]
    <2>1. local.captured \in Seq(S \cup {one})
      BY <1>4
    <2>. QED
      BY <2>1
  <1>7. n \in DOMAIN local.changes /\ n <= Len(local.changes)
    BY <1>2, <1>3, <1>4
  <1> HIDE DEF more, n
  <1>8. CapturedOf(more, local.changes)
    BY <1>2, <1>5, <1>6, <1>7 DEF CapturedOf
  <1>9. LocalTypeOK'
    BY <1>1 DEF LocalShape, LocalTypeOK
  <1>10. CaptureInv'
    BY <1>1, <1>2, <1>8 DEF LocalShape, CaptureInv, HasFirst
  <1>. QED
    BY <1>1, <1>2, <1>6, <1>7, <1>9, <1>10 DEF LocalShape, n, one

\* The first capture goes into review, or the review ends without a model.
LEMMA BuildEffect ==
    ASSUME LocalShape, Build, UNCHANGED <<tree, head>>
    PROVE  /\ LocalShape'
           /\ local'.phase \in {"review", "ended"} /\ local'.round = 1
           /\ local'.phase = "ended" => local'.outcome # "fresh"
           /\ local'.first = Identity(local.base, local.head, local.captured)
  <1> DEFINE identity == Identity(local.base, local.head, local.captured)
             first == [local EXCEPT !.first = identity]
             made == BuildLocalContext(identity, local.captured, local.policy)
             Same(r) == /\ DOMAIN r = DOMAIN Idle /\ r.round = 1 /\ r.refs = local.refs
                        /\ r.first = identity /\ r.base = local.base /\ r.paths = local.paths
                        /\ r.ids = local.ids /\ r.changes = local.changes
                        /\ r.captured = local.captured
  <1>1. /\ local.phase = "render" /\ local.round = 1 /\ DOMAIN local = DOMAIN Idle
        /\ local.outcome = None
    BY DEF LocalShape, LocalTypeOK, Build, CaptureDone
  <1>2. Same(first) /\ first.outcome = None
    BY <1>1 DEF Idle
  <1>3. made.error # "fresh"
    <2>1. PICK S : local.captured \in Seq(S)
      BY <1>1 DEF LocalShape, CaptureInv, CapturedOf
    <2>2. made.error \in {None, "Diff", "DiffIdentityMismatch", "Anchor", "Partition"}
      BY <2>1, ContextErrors
    <2>. QED
      BY <2>2, TreeAssumption
  <1>4. \/ local' = [first EXCEPT !.phase = "ended", !.outcome = "no changes"]
        \/ local' = WithContext(first, made)
    BY DEF Build
  <1>5. identity.base = local.base
    BY DEF Identity
  <1> HIDE DEF first, identity, made
  <1>6. /\ Same(local') /\ local'.phase \in {"review", "ended"}
        /\ local'.phase = "ended" => local'.outcome # "fresh"
        /\ local'.phase = "review" => local'.outcome = None
    <2>1. CASE local' = [first EXCEPT !.phase = "ended", !.outcome = "no changes"]
      BY <1>2, <2>1 DEF Idle
    <2>2. CASE local' = WithContext(first, made)
      <3> DEFINE built == [first EXCEPT !.context = made]
      <3>1. Same(built) /\ built.outcome = None
        BY <1>2 DEF Idle
      <3>2. \/ local' = [built EXCEPT !.phase = "ended", !.outcome = made.error]
            \/ local' = [built EXCEPT !.phase = "ended", !.outcome = "no model"]
            \/ local' = [built EXCEPT !.phase = "review"]
        BY <2>2 DEF WithContext
      <3> HIDE DEF built
      <3>3. DOMAIN built = DOMAIN Idle
        BY <3>1
      <3>4. CASE local' = [built EXCEPT !.phase = "ended", !.outcome = made.error]
        BY <1>3, <3>1, <3>3, <3>4 DEF Idle
      <3>5. CASE local' = [built EXCEPT !.phase = "ended", !.outcome = "no model"]
        BY <3>1, <3>3, <3>5 DEF Idle
      <3>6. CASE local' = [built EXCEPT !.phase = "review"]
        BY <3>1, <3>3, <3>6 DEF Idle
      <3>. QED
        BY <3>2, <3>4, <3>5, <3>6
    <2>. QED
      BY <1>4, <2>1, <2>2
  <1>7. LocalTypeOK'
    BY <1>1, <1>6 DEF LocalShape, LocalTypeOK
  <1>8. CaptureInv'
    BY <1>1, <1>5, <1>6 DEF LocalShape, CaptureInv, HasFirst
  <1>. QED
    BY <1>6, <1>7, <1>8 DEF LocalShape, identity

LEMMA ReviewedEffect ==
    ASSUME LocalShape, Reviewed, UNCHANGED <<tree, head>>
    PROVE  /\ LocalShape'
           /\ local'.phase = "open" /\ local'.round = 2 /\ local'.first = local.first
  <1>1. /\ DOMAIN local' = DOMAIN Idle /\ local'.phase = "open" /\ local'.round = 2
        /\ local'.refs = local.refs /\ local'.first = local.first /\ local'.outcome = local.outcome
    BY DEF LocalShape, LocalTypeOK, Reviewed, Idle
  <1>. QED
    BY <1>1 DEF LocalShape, LocalTypeOK, CaptureInv, HasFirst, Reviewed

LEMMA StartEffect ==
    ASSUME LocalShape, NEW refs \in References, NEW policy, StartReview(refs, policy),
           UNCHANGED <<tree, head>>
    PROVE  LocalShape' /\ local'.phase = "open" /\ local'.round = 1
  <1>1. /\ DOMAIN local' = DOMAIN Idle /\ local'.phase = "open" /\ local'.round = local.round
        /\ local'.refs = refs /\ local'.outcome = local.outcome
    BY DEF LocalShape, LocalTypeOK, StartReview, Idle
  <1>. QED
    BY <1>1 DEF LocalShape, LocalTypeOK, CaptureInv, HasFirst, StartReview

LEMMA DeveloperShape ==
    ASSUME LocalShape, Developer
    PROVE  LocalShape'
  <1>1. UNCHANGED local /\ DOMAIN tree' = Paths /\ head' \in DOMAIN ForkOf
    BY DEF LocalShape, LocalTypeOK, Developer, Edit, Commit, Merge
  <1>. QED
    BY <1>1 DEF LocalShape, LocalTypeOK, CaptureInv, HasFirst

\* Every step keeps the shape.
LEMMA ShapeKept == LocalShape /\ [LocalNext]_localVars => LocalShape'
  <1>. SUFFICES ASSUME LocalShape, [LocalNext]_localVars  PROVE LocalShape'
    OBVIOUS
  <1>1. CASE UNCHANGED localVars
    BY <1>1 DEF localVars, LocalShape, LocalTypeOK, CaptureInv, HasFirst
  <1>2. CASE Developer
    BY <1>2, DeveloperShape
  <1>3. CASE BuildStep
    BY <1>3, BuildEffect DEF BuildStep, Developed
  <1>4. CASE LocalStep
    <2>1. UNCHANGED <<tree, head>>
      BY <1>4 DEF LocalStep, Developed
    <2>2. CASE \E refs \in References, policy \in Policies : StartReview(refs, policy)
      BY <2>1, <2>2, StartEffect
    <2>3. CASE OpenCapture
      <3>1. local.phase = "open"
        BY <2>3 DEF OpenCapture
      <3>. QED
        BY <2>1, <2>3, <3>1, OpenCases, OpenEffect, EndingEffect
    <2>4. CASE List
      <3>1. CASE conflict
        BY <2>1, <2>4, <3>1, EndingEffect DEF List, CaptureFails
      <3>. QED
        BY <2>1, <2>4, <3>1, ListEffect
    <2>5. CASE Hash
      <3>1. local.phase = "hash"
        BY <2>5 DEF Hash
      <3>. QED
        BY <2>1, <2>5, <3>1, HashCases, HashEffect, ClassifyEffect, EndingEffect DEF CaptureFails
    <2>6. CASE Render
      <3>1. local.phase = "render"
        BY <2>6 DEF Render
      <3>2. CASE Unreadable(local.changes[Len(local.captured) + 1], tree)
        BY <2>1, <2>6, <3>1, <3>2, EndingEffect DEF Render, CaptureFails
      <3>. QED
        BY <2>1, <2>6, <3>2, RenderEffect
    <2>7. CASE Reviewed
      BY <2>1, <2>7, ReviewedEffect
    <2>8. CASE Compare
      BY <2>1, <2>8, EndingEffect DEF Compare, CaptureDone
    <2>. QED
      BY <1>4, <2>2, <2>3, <2>4, <2>5, <2>6, <2>7, <2>8 DEF LocalStep
  <1>. QED
    BY <1>1, <1>2, <1>3, <1>4 DEF LocalNext

LEMMA ShapeExplains == LocalShape => ChangesExplain
  <1>. SUFFICES ASSUME LocalShape, local.phase \in {"render", "review"}  PROVE ChangesExplain
    BY DEF ChangesExplain
  <1> DEFINE base == BaseIds(local.base)
             ids == local.ids
  <1>1. /\ local.base \in DOMAIN BaseFiles /\ Hashed(ids)
        /\ local.changes = Changes(base, ids)
    BY DEF LocalShape, CaptureInv
  <1>2. /\ DOMAIN base \subseteq Paths /\ base = [p \in DOMAIN base |-> base[p]]
        /\ DOMAIN ids \subseteq Paths /\ ids = [p \in DOMAIN ids |-> ids[p]]
        /\ None \notin {ids[p] : p \in DOMAIN ids}
    BY <1>1, BaseOverPaths DEF Hashed, Eligible
  <1>3. ToSet(local.changes) = ChangeSet(base, ids)
    BY <1>1, <1>2, SequenceOfChanges
  <1>4. Explains(BaseIds(local.base), local.ids, ToSet(local.changes))
    BY <1>2, <1>3, Explained
  <1>. QED
    BY <1>4 DEF ChangesExplain, Explains

\* classify_changes: whatever was edited while files were hashed, the changes
\* account for every path once and take the base to what was hashed.
THEOREM ChangesExplainHolds == LocalInit /\ [][LocalNext]_localVars => []ChangesExplain
  <1>1. LocalShape /\ [LocalNext]_localVars => LocalShape'
    BY ShapeKept
  <1>. QED
    BY <1>1, ShapeInitially, ShapeExplains, PTL

-----------------------------------------------------------------------------
(* A fresh review.                                                         *)

\* A content a path had, or a head, and has no longer: without a revert it
\* never comes back.
Lost(p, content) == <<p, content>> \in past /\ tree[p] # content
LostHead(h) == <<HeadFile, h>> \in past /\ head # h

\* What there is now is on record.
Recorded ==
    /\ \A p \in Paths : <<p, tree[p]>> \in past
    /\ <<HeadFile, head>> \in past

\* What a change is captured as when its file is read as it was hashed.
Steady(change) ==
    [path |-> change.path, old_id |-> change.old_id, new_id |-> change.new_id,
     diff |-> FileDiff(change, change.new_id), read |-> change.new_id]

\* The first capture: what it saw was there, and a file that was read other
\* than it was hashed has lost what was hashed.
FirstSaw ==
    local.round = 1 /\ local.phase \in {"list", "hash", "render"} =>
        /\ <<HeadFile, local.head>> \in past
        /\ local.phase \in {"hash", "render"} =>
            /\ \A p \in Eligible \ local.paths : <<p, None>> \in past
            /\ \A p \in DOMAIN local.ids : <<p, local.ids[p]>> \in past
        /\ local.phase = "render" =>
            \A i \in DOMAIN local.captured :
                LET change == local.changes[i]
                IN  IF change.new_id = None THEN local.captured[i] = Steady(change)
                    ELSE \/ local.captured[i] = Steady(change)
                         \/ Lost(change.path.new, change.new_id)

\* The hashes and the captured files the first identity was made of.
MadeOf(ids, captured) ==
    LET changes == Changes(BaseIds(local.first.base), ids)
    IN  /\ Hashed(ids)
        /\ CapturedOf(captured, changes) /\ Len(captured) = Len(changes)
        /\ local.first = Identity(local.first.base, local.first.head, captured)
        /\ \A i \in DOMAIN captured :
            changes[i].new_id = None => captured[i] = Steady(changes[i])

\* A path is as it was hashed when the review began, and was read so.
Firm(ids, captured, p) ==
    LET changes == Changes(BaseIds(local.first.base), ids)
    IN  /\ begun.tree[p] = ids[p]
        /\ \A i \in DOMAIN captured :
            changes[i].path.new = p /\ changes[i].new_id # None =>
                captured[i] = Steady(changes[i])

\* Whatever was not so when the review began is lost.
Standing(ids, captured) ==
    /\ begun.head = local.first.head \/ LostHead(local.first.head)
    /\ \A p \in DOMAIN ids : Firm(ids, captured, p) \/ Lost(p, ids[p])
    /\ \A p \in Eligible \ DOMAIN ids : begun.tree[p] = None \/ Lost(p, None)

\* What the second capture finds the same was so when the review began.
SecondSaw(ids, captured) ==
    local.round = 2 /\ local.phase \in {"list", "hash", "render"} =>
        /\ local.head = local.first.head => begun.head = local.first.head
        /\ local.phase \in {"hash", "render"} =>
            /\ \A p \in Eligible \ DOMAIN ids : p \notin local.paths => begun.tree[p] = None
            /\ \A p \in DOMAIN ids \cap DOMAIN local.ids :
                local.ids[p] = ids[p] => Firm(ids, captured, p)

\* The inductive invariant.
Compared ==
    \E ids, captured :
        MadeOf(ids, captured) /\ Standing(ids, captured) /\ SecondSaw(ids, captured)

FreshInv ==
    /\ LocalShape
    /\ Recorded
    /\ local.outcome = "fresh" => local.phase = "ended"
    /\ HasFirst => DOMAIN begun.tree = Paths
    /\ ~reverted => FirstSaw /\ (HasFirst => Compared) /\ CurrentWhenFresh

LEMMA FreshInitially == LocalInit => FreshInv
  <1>. SUFFICES ASSUME LocalInit  PROVE FreshInv
    OBVIOUS
  <1>1. LocalShape
    BY ShapeInitially
  <1>2. Recorded
    BY DEF LocalInit, Recorded
  <1>3. /\ local.outcome = None /\ local.phase = "idle" /\ local.round = 1
    BY DEF LocalInit, Idle
  <1>. QED
    BY <1>1, <1>2, <1>3, TreeAssumption DEF FreshInv, HasFirst, FirstSaw, CurrentWhenFresh

\* What the developer does keeps what is recorded and what is lost, unless
\* something came back.
LEMMA DeveloperKeeps ==
    ASSUME LocalShape, Recorded, Developer, ~reverted'
    PROVE  /\ ~reverted /\ UNCHANGED <<local, begun>> /\ Recorded'
           /\ past \subseteq past'
           /\ \A p \in Paths : \A content : Lost(p, content) => Lost(p, content)'
           /\ \A h : LostHead(h) => LostHead(h)'
  <1>0. HeadFile \notin Paths
    BY TreeAssumption DEF HeadFile
  <1>1. ASSUME NEW q \in Paths, NEW content, Edit(q, content)
        PROVE  /\ ~reverted /\ UNCHANGED <<local, begun>> /\ Recorded'
               /\ past \subseteq past'
               /\ \A p \in Paths : \A c : Lost(p, c) => Lost(p, c)'
               /\ \A h : LostHead(h) => LostHead(h)'
    <2>1. /\ tree' = [tree EXCEPT ![q] = content] /\ DOMAIN tree = Paths
          /\ past' = past \cup {<<q, content>>} /\ UNCHANGED <<head, local, begun>>
          /\ ~reverted /\ <<q, content>> \notin past
      BY <1>1 DEF Edit, LocalShape, LocalTypeOK
    <2>2. Recorded'
      BY <2>1 DEF Recorded
    <2>. QED
      BY <2>1, <2>2 DEF Lost, LostHead
  <1>2. ASSUME NEW h \in DOMAIN ForkOf, Commit(h)
        PROVE  /\ ~reverted /\ UNCHANGED <<local, begun>> /\ Recorded'
               /\ past \subseteq past'
               /\ \A p \in Paths : \A c : Lost(p, c) => Lost(p, c)'
               /\ \A g : LostHead(g) => LostHead(g)'
    <2>1. /\ head' = h /\ past' = past \cup {<<HeadFile, h>>}
          /\ UNCHANGED <<tree, local, begun>>
          /\ ~reverted /\ <<HeadFile, h>> \notin past
      BY <1>2 DEF Commit
    <2>2. Recorded'
      BY <2>1 DEF Recorded
    <2>. QED
      BY <2>1, <2>2 DEF Lost, LostHead
  <1>3. CASE Merge
    BY <1>3 DEF Merge, Recorded, Lost, LostHead
  <1>. QED
    BY <1>1, <1>2, <1>3 DEF Developer

LEMMA RecordedKept ==
    ASSUME LocalShape, Recorded, [LocalNext]_localVars
    PROVE  Recorded' /\ (~reverted' => ~reverted)
  <1>1. CASE UNCHANGED <<tree, head, past, reverted>>
    BY <1>1 DEF Recorded
  <1>2. ASSUME NEW q \in Paths, NEW content, Edit(q, content)
        PROVE  Recorded' /\ (~reverted' => ~reverted)
    BY <1>2 DEF Edit, Recorded, LocalShape, LocalTypeOK
  <1>3. ASSUME NEW h \in DOMAIN ForkOf, Commit(h)
        PROVE  Recorded' /\ (~reverted' => ~reverted)
    BY <1>3 DEF Commit, Recorded
  <1>. QED
    BY <1>1, <1>2, <1>3 DEF LocalNext, LocalStep, BuildStep, Developed, Developer, Merge, localVars

LEMMA DeveloperFresh ==
    ASSUME FreshInv, Developer
    PROVE  FreshInv'
  <1>1. /\ LocalShape' /\ Recorded' /\ UNCHANGED <<local, begun>>
        /\ (~reverted' => ~reverted)
    <2>1. UNCHANGED <<local, begun>>
      BY DEF Developer, Edit, Commit, Merge
    <2>2. LocalNext
      BY DEF LocalNext
    <2>. QED
      BY <2>1, <2>2, ShapeKept, RecordedKept DEF FreshInv
  <1>2. ASSUME ~reverted'
        PROVE  /\ past \subseteq past'
               /\ \A p \in Paths : \A content : Lost(p, content) => Lost(p, content)'
               /\ \A h : LostHead(h) => LostHead(h)'
    BY <1>2, DeveloperKeeps DEF FreshInv
  <1>3. ASSUME ~reverted'
        PROVE  FirstSaw'
    <2>1. FirstSaw /\ past \subseteq past'
      BY <1>1, <1>2, <1>3 DEF FreshInv
    <2>2. ASSUME local.phase = "render", NEW i \in DOMAIN local.captured,
                 local.changes[i].new_id # None
          PROVE  local.changes[i].path.new \in Paths
      <3>1. /\ local.base \in DOMAIN BaseFiles /\ Hashed(local.ids)
            /\ local.changes = Changes(BaseIds(local.base), local.ids)
            /\ CapturedOf(local.captured, local.changes)
        BY <2>2 DEF FreshInv, LocalShape, CaptureInv
      <3>2. DOMAIN BaseIds(local.base) \subseteq Paths /\ DOMAIN local.ids \subseteq Paths
        BY <3>1, BaseOverPaths DEF Hashed, Eligible
      <3>3. local.changes \in Seq(ChangeSet(BaseIds(local.base), local.ids))
        BY <3>1, <3>2, SequenceOfChanges
      <3>4. i \in DOMAIN local.changes
        BY <2>2, <3>1, <3>3 DEF CapturedOf
      <3>5. local.changes[i] \in ChangeSet(BaseIds(local.base), local.ids)
        BY <3>3, <3>4
      <3>6. None \notin {local.ids[p] : p \in DOMAIN local.ids}
        BY <3>1 DEF Hashed
      <3>. QED
        BY <2>2, <3>2, <3>5, <3>6, ChangesDetermine
    <2>3. ASSUME local.phase = "render", NEW i \in DOMAIN local.captured,
                 NEW change, change = local.changes[i],
                 IF change.new_id = None THEN local.captured[i] = Steady(change)
                 ELSE \/ local.captured[i] = Steady(change)
                      \/ Lost(change.path.new, change.new_id)
          PROVE  IF change.new_id = None THEN local.captured[i] = Steady(change)
                 ELSE \/ local.captured[i] = Steady(change)
                      \/ Lost(change.path.new, change.new_id)'
      BY <1>2, <1>3, <2>2, <2>3
    <2>. QED
      BY <1>1, <2>1, <2>3 DEF FirstSaw
  <1>4. ASSUME ~reverted', HasFirst'
        PROVE  Compared'
    <2>1. HasFirst /\ Compared
      BY <1>1, <1>4 DEF FreshInv, HasFirst
    <2>2. PICK ids, captured :
            MadeOf(ids, captured) /\ Standing(ids, captured) /\ SecondSaw(ids, captured)
      BY <2>1 DEF Compared
    <2>3. /\ MadeOf(ids, captured)' /\ SecondSaw(ids, captured)'
          /\ \A p : Firm(ids, captured, p)' <=> Firm(ids, captured, p)
      BY <1>1, <2>2 DEF MadeOf, SecondSaw, Firm
    <2>4. DOMAIN ids \subseteq Paths /\ Eligible \subseteq Paths
      BY <2>2 DEF MadeOf, Hashed, Eligible
    <2>5. Standing(ids, captured)'
      BY <1>1, <1>2, <1>4, <2>2, <2>3, <2>4 DEF Standing
    <2>. QED
      BY <2>3, <2>5 DEF Compared
  <1>5. CurrentWhenFresh => CurrentWhenFresh'
    BY <1>1 DEF CurrentWhenFresh
  <1>. QED
    BY <1>1, <1>3, <1>4, <1>5 DEF FreshInv, HasFirst

\* The steps of the review change nothing of what the developer has.
LEMMA ComparedKept ==
    ASSUME Compared, UNCHANGED <<tree, head, past, begun>>, local'.first = local.first,
           \A ids, captured : MadeOf(ids, captured) /\ Standing(ids, captured)
                                /\ SecondSaw(ids, captured) => SecondSaw(ids, captured)'
    PROVE  Compared'
  <1>1. PICK ids, captured :
            MadeOf(ids, captured) /\ Standing(ids, captured) /\ SecondSaw(ids, captured)
    BY DEF Compared
  <1>2. MadeOf(ids, captured)'
    BY <1>1 DEF MadeOf
  <1>3. \A p : Firm(ids, captured, p)' <=> Firm(ids, captured, p)
    BY DEF Firm
  <1>4. Standing(ids, captured)'
    BY <1>1, <1>3 DEF Standing, Lost, LostHead
  <1>. QED
    BY <1>1, <1>2, <1>4 DEF Compared

\* A file that is read as it was hashed, or that is gone.
LEMMA CapturedSteady ==
    ASSUME NEW change, NEW t, change.new_id = None \/ t[change.path.new] = change.new_id
    PROVE  Captured(change, t) = Steady(change)
  <1>1. FileDiff(change, t[change.path.new]) = FileDiff(change, change.new_id)
    BY DEF FileDiff
  <1>. QED
    BY <1>1 DEF Captured, Steady

LEMMA EndingFresh ==
    ASSUME FreshInv, NEW outcome, Ending(outcome), outcome # "fresh", local.phase # "idle",
           UNCHANGED <<tree, head, past, reverted, begun>>
    PROVE  FreshInv'
  <1>1. LocalShape' /\ local'.phase = "ended" /\ local'.outcome = outcome
    BY EndingEffect DEF FreshInv
  <1>2. Recorded'
    BY DEF FreshInv, Recorded
  <1>. QED
    BY <1>1, <1>2 DEF FreshInv, HasFirst, FirstSaw, CurrentWhenFresh

LEMMA OpenFresh ==
    ASSUME FreshInv, NEW base \in DOMAIN BaseFiles, local' = Opened(base), local.phase = "open",
           UNCHANGED <<tree, head, past, reverted, begun>>
    PROVE  FreshInv'
  <1>1. /\ LocalShape' /\ local'.phase = "list" /\ local'.round = local.round
        /\ local'.head = head /\ local'.first = local.first
    BY OpenEffect DEF FreshInv
  <1>2. Recorded' /\ local'.outcome = None
    BY <1>1 DEF FreshInv, Recorded, LocalShape, LocalTypeOK
  <1>3. FirstSaw'
    BY <1>1, <1>2 DEF FirstSaw, Recorded
  <1>4. ASSUME ~reverted, HasFirst'
        PROVE  Compared'
    <2>1. Compared
      BY <1>1, <1>4 DEF FreshInv, HasFirst
    <2>2. ASSUME NEW ids, NEW captured, Standing(ids, captured)
          PROVE  SecondSaw(ids, captured)'
      BY <1>1, <2>2 DEF Standing, LostHead, SecondSaw
    <2>. QED
      BY <1>1, <2>1, <2>2, ComparedKept
  <1>. QED
    BY <1>1, <1>2, <1>3, <1>4, TreeAssumption DEF FreshInv, HasFirst, CurrentWhenFresh

LEMMA ListFresh ==
    ASSUME FreshInv, List, ~conflict, UNCHANGED <<tree, head, past, reverted, begun>>
    PROVE  FreshInv'
  <1>1. /\ LocalShape' /\ local'.phase = "hash" /\ local'.round = local.round
        /\ local'.head = local.head /\ local'.first = local.first
        /\ local'.paths = WorkingPaths(tree) /\ local'.ids = <<>>
    BY ListEffect DEF FreshInv
  <1>2. Recorded' /\ local'.outcome = None /\ local.phase = "list"
    BY <1>1 DEF FreshInv, Recorded, LocalShape, LocalTypeOK, List
  <1>3. \A p \in Eligible : p \notin WorkingPaths(tree) => p \in Paths /\ tree[p] = None
    BY DEF FreshInv, LocalShape, LocalTypeOK, Eligible, WorkingPaths, Files
  <1>4. DOMAIN <<>> = {}
    OBVIOUS
  <1>5. FirstSaw => FirstSaw'
    BY <1>1, <1>2, <1>3, <1>4 DEF FreshInv, FirstSaw, Recorded
  <1>6. ASSUME ~reverted, HasFirst'
        PROVE  Compared'
    <2>1. Compared
      BY <1>1, <1>2, <1>6 DEF FreshInv, HasFirst
    <2>2. ASSUME NEW ids, NEW captured, Standing(ids, captured), SecondSaw(ids, captured)
          PROVE  SecondSaw(ids, captured)'
      BY <1>1, <1>2, <1>3, <1>4, <2>2 DEF Standing, Lost, SecondSaw
    <2>. QED
      BY <1>1, <2>1, <2>2, ComparedKept
  <1>. QED
    BY <1>1, <1>2, <1>5, <1>6, TreeAssumption DEF FreshInv, HasFirst, CurrentWhenFresh

LEMMA HashFresh ==
    ASSUME FreshInv, local.phase = "hash", NEW p \in local.paths \ DOMAIN local.ids,
           tree[p] # None, local' = [local EXCEPT !.ids = Noting(local.ids, p, tree[p])],
           UNCHANGED <<tree, head, past, reverted, begun>>
    PROVE  FreshInv'
  <1>1. /\ LocalShape' /\ local'.phase = "hash" /\ local'.round = local.round
        /\ local'.head = local.head /\ local'.first = local.first /\ local'.paths = local.paths
        /\ DOMAIN local'.ids = {p} \cup DOMAIN local.ids /\ local'.ids[p] = tree[p]
        /\ \A q \in DOMAIN local.ids : local'.ids[q] = local.ids[q]
    BY HashEffect DEF FreshInv
  <1>2. Recorded' /\ local'.outcome = None
    BY <1>1 DEF FreshInv, Recorded, LocalShape, LocalTypeOK
  <1>3. <<p, tree[p]>> \in past
    BY DEF FreshInv, Recorded, LocalShape, CaptureInv, Eligible
  <1>4. FirstSaw => FirstSaw'
    BY <1>1, <1>3 DEF FirstSaw
  <1>5. ASSUME ~reverted, HasFirst'
        PROVE  Compared'
    <2>1. Compared
      BY <1>1, <1>5 DEF FreshInv, HasFirst
    <2>2. ASSUME NEW ids, NEW captured, Standing(ids, captured), SecondSaw(ids, captured)
          PROVE  SecondSaw(ids, captured)'
      <3>1. \A q : Firm(ids, captured, q)' <=> Firm(ids, captured, q)
        BY <1>1 DEF Firm
      <3>2. p \in DOMAIN ids /\ tree[p] = ids[p] => Firm(ids, captured, p)
        BY <2>2 DEF Standing, Lost
      <3>. QED
        BY <1>1, <2>2, <3>1, <3>2 DEF SecondSaw
    <2>. QED
      BY <1>1, <2>1, <2>2, ComparedKept
  <1>. QED
    BY <1>1, <1>2, <1>4, <1>5, TreeAssumption DEF FreshInv, HasFirst, CurrentWhenFresh

LEMMA ClassifyFresh ==
    ASSUME FreshInv, local.phase = "hash", DOMAIN local.ids = local.paths,
           local' = [local EXCEPT !.phase = "render",
                                  !.changes = Changes(BaseIds(local.base), local.ids)],
           UNCHANGED <<tree, head, past, reverted, begun>>
    PROVE  FreshInv'
  <1>1. /\ LocalShape' /\ local'.phase = "render" /\ local'.round = local.round
        /\ local'.head = local.head /\ local'.first = local.first /\ local'.paths = local.paths
        /\ local'.ids = local.ids /\ local'.captured = <<>>
    BY ClassifyEffect DEF FreshInv
  <1>2. Recorded' /\ local'.outcome = None
    BY <1>1 DEF FreshInv, Recorded, LocalShape, LocalTypeOK
  <1>3. DOMAIN <<>> = {}
    OBVIOUS
  <1>4. FirstSaw => FirstSaw'
    BY <1>1, <1>3 DEF FirstSaw
  <1>5. ASSUME ~reverted, HasFirst'
        PROVE  Compared'
    <2>1. Compared
      BY <1>1, <1>5 DEF FreshInv, HasFirst
    <2>2. ASSUME NEW ids, NEW captured, SecondSaw(ids, captured)
          PROVE  SecondSaw(ids, captured)'
      BY <1>1, <2>2 DEF SecondSaw, Firm
    <2>. QED
      BY <1>1, <2>1, <2>2, ComparedKept
  <1>. QED
    BY <1>1, <1>2, <1>4, <1>5, TreeAssumption DEF FreshInv, HasFirst, CurrentWhenFresh

\* The new side of a captured change that has one was hashed as it says.
LEMMA NewSideHashed ==
    ASSUME NEW base \in DOMAIN BaseFiles, NEW ids, Hashed(ids),
           NEW i \in DOMAIN Changes(BaseIds(base), ids)
    PROVE  LET change == Changes(BaseIds(base), ids)[i]
           IN  /\ change \in ChangeSet(BaseIds(base), ids)
               /\ change.new_id # None =>
                    /\ change.path.new \in DOMAIN ids
                    /\ ids[change.path.new] = change.new_id
  <1> DEFINE changes == Changes(BaseIds(base), ids)
  <1>1. DOMAIN BaseIds(base) \subseteq Paths /\ DOMAIN ids \subseteq Paths
    BY BaseOverPaths DEF Hashed, Eligible
  <1>2. changes \in Seq(ChangeSet(BaseIds(base), ids))
    BY <1>1, SequenceOfChanges
  <1>3. changes[i] \in ChangeSet(BaseIds(base), ids)
    BY <1>2
  <1>4. None \notin {ids[p] : p \in DOMAIN ids}
    BY DEF Hashed
  <1>. QED
    BY <1>3, <1>4, ChangesDetermine

LEMMA RenderFresh ==
    ASSUME FreshInv, Render, ~Unreadable(local.changes[Len(local.captured) + 1], tree),
           UNCHANGED <<tree, head, past, reverted, begun>>
    PROVE  FreshInv'
  <1> DEFINE n == Len(local.captured) + 1
             change == local.changes[n]
  <1>1. /\ LocalShape' /\ local'.phase = "render" /\ local'.round = local.round
        /\ local'.head = local.head /\ local'.first = local.first /\ local'.paths = local.paths
        /\ local'.ids = local.ids /\ local'.changes = local.changes
        /\ DOMAIN local'.captured = DOMAIN local.captured \cup {n}
        /\ n \in DOMAIN local.changes
        /\ local'.captured[n] = Captured(change, tree)
        /\ \A i \in DOMAIN local.captured : local'.captured[i] = local.captured[i]
    BY RenderEffect DEF FreshInv
  <1>2. Recorded' /\ local'.outcome = None /\ local.phase = "render"
    BY <1>1 DEF FreshInv, Recorded, LocalShape, LocalTypeOK, Render
  <1> HIDE DEF n
  <1>3. ASSUME FirstSaw
        PROVE  FirstSaw'
    <2>1. CASE local.round = 1
      <3>1. /\ local.base \in DOMAIN BaseFiles /\ Hashed(local.ids)
            /\ local.changes = Changes(BaseIds(local.base), local.ids)
        BY <1>2 DEF FreshInv, LocalShape, CaptureInv
      <3>2. change.new_id # None =>
                change.path.new \in DOMAIN local.ids /\ local.ids[change.path.new] = change.new_id
        BY <1>1, <3>1, NewSideHashed
      <3>3. IF change.new_id = None THEN Captured(change, tree) = Steady(change)
            ELSE Captured(change, tree) = Steady(change) \/ Lost(change.path.new, change.new_id)
        <4>1. CASE change.new_id = None \/ tree[change.path.new] = change.new_id
          BY <4>1, CapturedSteady
        <4>2. CASE change.new_id # None /\ tree[change.path.new] # change.new_id
          BY <1>2, <1>3, <2>1, <3>2, <4>2 DEF FirstSaw, Lost
        <4>. QED
          BY <4>1, <4>2
      <3>4. \A p, content : Lost(p, content)' <=> Lost(p, content)
        BY DEF Lost
      <3>. QED
        BY <1>1, <1>2, <1>3, <2>1, <3>3, <3>4 DEF FirstSaw
    <2>. QED
      BY <1>1, <2>1 DEF FirstSaw
  <1>4. ASSUME ~reverted, HasFirst'
        PROVE  Compared'
    <2>1. Compared
      BY <1>1, <1>2, <1>4 DEF FreshInv, HasFirst
    <2>2. ASSUME NEW ids, NEW captured, SecondSaw(ids, captured)
          PROVE  SecondSaw(ids, captured)'
      BY <1>1, <1>2, <2>2 DEF SecondSaw, Firm
    <2>. QED
      BY <1>1, <2>1, <2>2, ComparedKept
  <1>. QED
    BY <1>1, <1>2, <1>3, <1>4, TreeAssumption DEF FreshInv, HasFirst, CurrentWhenFresh

LEMMA BuildFresh ==
    ASSUME FreshInv, BuildStep
    PROVE  FreshInv'
  <1>1. /\ LocalShape' /\ local'.phase \in {"review", "ended"} /\ local'.round = 1
        /\ local'.phase = "ended" => local'.outcome # "fresh"
        /\ local'.first = Identity(local.base, local.head, local.captured)
        /\ UNCHANGED <<tree, head, past, reverted>>
        /\ begun' = [tree |-> tree, head |-> head]
    BY BuildEffect DEF FreshInv, BuildStep, Developed
  <1>2. /\ local.phase = "render" /\ local.round = 1
        /\ Len(local.captured) = Len(local.changes)
    BY DEF BuildStep, Build, CaptureDone
  <1>3. /\ local.base \in DOMAIN BaseFiles /\ Hashed(local.ids) /\ DOMAIN local.ids = local.paths
        /\ local.changes = Changes(BaseIds(local.base), local.ids)
        /\ CapturedOf(local.captured, local.changes)
        /\ DOMAIN tree = Paths
    BY <1>2 DEF FreshInv, LocalShape, LocalTypeOK, CaptureInv
  <1>4. /\ local'.first.base = local.base /\ local'.first.head = local.head
        /\ begun'.tree = tree /\ begun'.head = head
    BY <1>1 DEF Identity
  <1>5. Recorded' /\ (local'.outcome = "fresh" => local'.phase = "ended")
        /\ local'.outcome # "fresh"
    BY <1>1, TreeAssumption DEF FreshInv, Recorded, LocalShape, LocalTypeOK
  <1>6. ASSUME ~reverted
        PROVE  Compared'
    <2> DEFINE ids == local.ids
               captured == local.captured
               changes == local.changes
    <2>1. /\ <<HeadFile, local.head>> \in past
          /\ \A p \in Eligible \ DOMAIN ids : <<p, None>> \in past
          /\ \A p \in DOMAIN ids : <<p, ids[p]>> \in past
          /\ \A i \in DOMAIN captured :
                IF changes[i].new_id = None THEN captured[i] = Steady(changes[i])
                ELSE \/ captured[i] = Steady(changes[i])
                     \/ Lost(changes[i].path.new, changes[i].new_id)
      BY <1>2, <1>3, <1>6 DEF FreshInv, FirstSaw
    <2>2. \A i \in DOMAIN captured : i \in DOMAIN changes
      <3>1. PICK S : captured \in Seq(S)
        BY <1>3 DEF CapturedOf
      <3>2. DOMAIN BaseIds(local.base) \subseteq Paths /\ DOMAIN ids \subseteq Paths
        BY <1>3, BaseOverPaths DEF Hashed, Eligible
      <3>3. changes \in Seq(ChangeSet(BaseIds(local.base), ids))
        BY <1>3, <3>2, SequenceOfChanges
      <3>. QED
        BY <1>2, <3>1, <3>3
    <2>3. ASSUME NEW p \in DOMAIN ids, tree[p] = ids[p], NEW i \in DOMAIN captured,
                 changes[i].path.new = p, changes[i].new_id # None
          PROVE  captured[i] = Steady(changes[i])
      <3>1. ids[p] = changes[i].new_id
        BY <1>3, <2>2, <2>3, NewSideHashed
      <3>. QED
        BY <2>1, <2>3, <3>1 DEF Lost
    <2> HIDE DEF ids, captured, changes
    <2>4. /\ Hashed(ids) /\ CapturedOf(captured, changes) /\ Len(captured) = Len(changes)
          /\ local'.first = Identity(local.base, local.head, captured)
          /\ changes = Changes(BaseIds(local.base), ids)
      BY <1>1, <1>2, <1>3 DEF ids, captured, changes
    <2>5. \E i, c : i = ids /\ c = captured /\ MadeOf(i, c)' /\ Standing(i, c)' /\ SecondSaw(i, c)'
      <3>1. ASSUME NEW i, NEW c, i = ids, c = captured
            PROVE  MadeOf(i, c)' /\ Standing(i, c)' /\ SecondSaw(i, c)'
        <4>1. Changes(BaseIds(local'.first.base), i) = changes
          BY <1>4, <2>4, <3>1
        <4>2. MadeOf(i, c)'
          BY <1>4, <2>1, <2>4, <3>1, <4>1 DEF MadeOf
        <4>3. ASSUME NEW p \in DOMAIN i
              PROVE  Firm(i, c, p)' \/ Lost(p, i[p])'
          <5>1. CASE tree[p] = i[p]
            BY <1>4, <2>3, <3>1, <4>1, <4>3, <5>1 DEF Firm
          <5>2. CASE tree[p] # i[p]
            BY <1>1, <2>1, <3>1, <4>3, <5>2 DEF Lost
          <5>. QED
            BY <5>1, <5>2
        <4>4. ASSUME NEW p \in Eligible \ DOMAIN i
              PROVE  begun'.tree[p] = None \/ Lost(p, None)'
          BY <1>1, <1>4, <2>1, <3>1 DEF Lost
        <4>5. (begun.head = local.first.head \/ LostHead(local.first.head))'
          BY <1>1, <1>4, <2>1 DEF LostHead
        <4>6. Standing(i, c)'
          BY <4>3, <4>4, <4>5 DEF Standing
        <4>7. SecondSaw(i, c)'
          BY <1>1 DEF SecondSaw
        <4>. QED
          BY <4>2, <4>6, <4>7
      <3>. QED
        BY <3>1
    <2>. QED
      BY <2>5 DEF Compared
  <1>7. FirstSaw' /\ CurrentWhenFresh'
    BY <1>1, <1>5 DEF FirstSaw, CurrentWhenFresh
  <1>. QED
    BY <1>1, <1>3, <1>4, <1>5, <1>6, <1>7 DEF FreshInv

LEMMA ReviewedFresh ==
    ASSUME FreshInv, Reviewed, UNCHANGED <<tree, head, past, reverted, begun>>
    PROVE  FreshInv'
  <1>1. /\ LocalShape' /\ local'.phase = "open" /\ local'.round = 2 /\ local'.first = local.first
        /\ local.phase = "review"
    BY ReviewedEffect DEF FreshInv, Reviewed
  <1>2. Recorded' /\ local'.outcome = None
    BY <1>1 DEF FreshInv, Recorded, LocalShape, LocalTypeOK
  <1>3. ASSUME ~reverted
        PROVE  Compared'
    <2>1. Compared
      BY <1>1, <1>3 DEF FreshInv, HasFirst
    <2>2. ASSUME NEW ids, NEW captured
          PROVE  SecondSaw(ids, captured)'
      BY <1>1 DEF SecondSaw
    <2>. QED
      BY <1>1, <2>1, <2>2, ComparedKept
  <1>. QED
    BY <1>1, <1>2, <1>3, TreeAssumption DEF FreshInv, HasFirst, FirstSaw, CurrentWhenFresh

\* Equal identities name the same changes.
LEMMA SameIdentity ==
    ASSUME NEW b1, NEW h1, NEW captured1, NEW changes1,
           NEW b2, NEW h2, NEW captured2, NEW changes2,
           NEW S1, NEW S2, NEW base1, NEW base2, NEW ids1, NEW ids2,
           captured1 \in Seq(S1), captured2 \in Seq(S2),
           changes1 \in Seq(ChangeSet(base1, ids1)), changes2 \in Seq(ChangeSet(base2, ids2)),
           CapturedOf(captured1, changes1), Len(captured1) = Len(changes1),
           CapturedOf(captured2, changes2), Len(captured2) = Len(changes2),
           Identity(b1, h1, captured1) = Identity(b2, h2, captured2)
    PROVE  b1 = b2 /\ h1 = h2 /\ changes1 = changes2
  <1> DEFINE State(c) == [i \in DOMAIN c |-> <<c[i].path, c[i].old_id, c[i].new_id, c[i].diff>>]
  <1>1. b1 = b2 /\ h1 = h2 /\ State(captured1) = State(captured2)
    BY DEF Identity
  <1>2. DOMAIN captured1 = DOMAIN captured2
    <2>1. DOMAIN State(captured1) = DOMAIN captured1 /\ DOMAIN State(captured2) = DOMAIN captured2
      OBVIOUS
    <2> HIDE DEF State
    <2>. QED
      BY <1>1, <2>1
  <1>3. Len(changes1) = Len(changes2) /\ DOMAIN changes1 = DOMAIN captured1
    BY <1>2
  <1>4. ASSUME NEW i \in DOMAIN captured1
        PROVE  /\ captured1[i].path = captured2[i].path
               /\ captured1[i].old_id = captured2[i].old_id
               /\ captured1[i].new_id = captured2[i].new_id
    <2>1. /\ State(captured1)[i] = <<captured1[i].path, captured1[i].old_id,
                                      captured1[i].new_id, captured1[i].diff>>
          /\ State(captured2)[i] = <<captured2[i].path, captured2[i].old_id,
                                      captured2[i].new_id, captured2[i].diff>>
      BY <1>2
    <2> HIDE DEF State
    <2>. QED
      BY <1>1, <2>1
  <1>5. ASSUME NEW i \in DOMAIN changes1
        PROVE  changes1[i] = changes2[i]
    <2>1. /\ changes1[i].path = changes2[i].path
          /\ changes1[i].old_id = changes2[i].old_id
          /\ changes1[i].new_id = changes2[i].new_id
      BY <1>2, <1>3, <1>4 DEF CapturedOf
    <2>2. changes1[i] \in ChangeSet(base1, ids1) /\ changes2[i] \in ChangeSet(base2, ids2)
      BY <1>3
    <2>3. ASSUME NEW c, NEW d, c = changes1[i], d = changes2[i]
          PROVE  c = d
      <3>1. /\ c = Change(c.path.old, c.path.new, c.path.kind, c.old_id, c.new_id)
            /\ d = Change(d.path.old, d.path.new, d.path.kind, d.old_id, d.new_id)
        BY <2>2, <2>3, ChangeFields
      <3>. QED
        BY <2>1, <2>3, <3>1
    <2>. QED
      BY <2>3
  <1>. QED
    BY <1>1, <1>3, <1>5

\* A tree that was hashed as it stands is captured at one moment.
LEMMA InstantlyMade ==
    ASSUME NEW ids, NEW captured, MadeOf(ids, captured),
           local.first.base \in DOMAIN BaseFiles, DOMAIN begun.tree = Paths,
           begun.head = local.first.head,
           \A p \in DOMAIN ids : Firm(ids, captured, p),
           \A p \in Eligible \ DOMAIN ids : begun.tree[p] = None
    PROVE  local.first = Instantly(begun.tree, begun.head, local.first.base)
  <1> DEFINE base == local.first.base
             changes == Changes(BaseIds(base), ids)
             now == [p \in WorkingPaths(begun.tree) |-> begun.tree[p]]
             all == [i \in DOMAIN changes |-> Captured(changes[i], begun.tree)]
  <1>1. Hashed(ids) /\ CapturedOf(captured, changes) /\ Len(captured) = Len(changes)
        /\ local.first = Identity(base, local.first.head, captured)
    BY DEF MadeOf
  <1>2. WorkingPaths(begun.tree) = DOMAIN ids
    BY <1>1 DEF WorkingPaths, Files, Eligible, Hashed, Firm
  <1>3. now = ids
    BY <1>1, <1>2 DEF Hashed, Firm
  <1>4. changes \in Seq(ChangeSet(BaseIds(base), ids))
    BY <1>1, BaseOverPaths, SequenceOfChanges DEF Hashed, Eligible
  <1>5. PICK S : captured \in Seq(S)
    BY <1>1 DEF CapturedOf
  <1>6. ASSUME NEW i \in DOMAIN changes
        PROVE  captured[i] = Captured(changes[i], begun.tree)
    <2>1. i \in DOMAIN captured
      BY <1>1, <1>4, <1>5
    <2>2. CASE changes[i].new_id = None
      BY <2>1, <2>2, CapturedSteady DEF MadeOf
    <2>3. CASE changes[i].new_id # None
      <3>1. /\ changes[i].path.new \in DOMAIN ids
            /\ ids[changes[i].path.new] = changes[i].new_id
        BY <1>1, <2>3, NewSideHashed
      <3>2. /\ begun.tree[changes[i].path.new] = changes[i].new_id
            /\ captured[i] = Steady(changes[i])
        BY <2>1, <2>3, <3>1 DEF Firm
      <3>. QED
        BY <3>2, CapturedSteady
    <2>. QED
      BY <2>2, <2>3
  <1>7. captured = all
    <2>1. DOMAIN captured = DOMAIN changes
      BY <1>1, <1>4, <1>5
    <2>2. captured = [i \in DOMAIN captured |-> captured[i]]
      BY <1>5
    <2> HIDE DEF changes
    <2>. QED
      BY <1>6, <2>1, <2>2
  <1>8. Instantly(begun.tree, begun.head, base) = Identity(base, begun.head, all)
    <2>1. Changes(BaseIds(base), now) = changes
      BY <1>3
    <2> HIDE DEF now, changes
    <2>. QED
      BY <2>1 DEF Instantly, now
  <1>. QED
    BY <1>1, <1>7, <1>8

LEMMA CompareFresh ==
    ASSUME FreshInv, Compare, UNCHANGED <<tree, head, past, reverted, begun>>
    PROVE  FreshInv'
  <1>1. /\ local.phase = "render" /\ local.round = 2 /\ Len(local.captured) = Len(local.changes)
        /\ Ending(IF Identity(local.base, local.head, local.captured) = local.first
                  THEN "fresh" ELSE "stale")
    BY DEF Compare, CaptureDone
  <1>2. CASE Identity(local.base, local.head, local.captured) # local.first
    BY <1>1, <1>2, EndingFresh
  <1>3. CASE Identity(local.base, local.head, local.captured) = local.first
    <2>1. LocalShape' /\ local'.phase = "ended" /\ local'.first = local.first
      BY <1>1, EndingEffect DEF FreshInv
    <2>2. Recorded'
      BY DEF FreshInv, Recorded
    <2>3. ASSUME ~reverted
          PROVE  local.first = Instantly(begun.tree, begun.head, local.first.base)
      <3>1. HasFirst /\ Compared /\ DOMAIN begun.tree = Paths
        BY <1>1, <2>3 DEF FreshInv, HasFirst
      <3>2. PICK ids, captured :
                MadeOf(ids, captured) /\ Standing(ids, captured) /\ SecondSaw(ids, captured)
        BY <3>1 DEF Compared
      <3> DEFINE first == local.first
                 changes == Changes(BaseIds(first.base), ids)
      <3>3. /\ local.base \in DOMAIN BaseFiles /\ first.base \in DOMAIN BaseFiles
            /\ Hashed(local.ids) /\ DOMAIN local.ids = local.paths
            /\ local.changes = Changes(BaseIds(local.base), local.ids)
            /\ CapturedOf(local.captured, local.changes)
        BY <1>1, <3>1 DEF FreshInv, LocalShape, CaptureInv
      <3>4. /\ Hashed(ids) /\ CapturedOf(captured, changes) /\ Len(captured) = Len(changes)
            /\ first = Identity(first.base, first.head, captured)
        BY <3>2 DEF MadeOf
      <3>5. /\ local.changes \in Seq(ChangeSet(BaseIds(local.base), local.ids))
            /\ ToSet(local.changes) = ChangeSet(BaseIds(local.base), local.ids)
        BY <3>3, BaseOverPaths, SequenceOfChanges DEF Hashed, Eligible
      <3>6. /\ changes \in Seq(ChangeSet(BaseIds(first.base), ids))
            /\ ToSet(changes) = ChangeSet(BaseIds(first.base), ids)
        BY <3>3, <3>4, BaseOverPaths, SequenceOfChanges DEF Hashed, Eligible
      <3>7. PICK S1 : local.captured \in Seq(S1)
        BY <3>3 DEF CapturedOf
      <3>8. PICK S2 : captured \in Seq(S2)
        BY <3>4 DEF CapturedOf
      <3>9. Identity(local.base, local.head, local.captured)
                = Identity(first.base, first.head, captured)
        BY <1>3, <3>4
      <3>10. local.base = first.base /\ local.head = first.head /\ local.changes = changes
        <4> HIDE DEF first, changes
        <4>. QED
          BY <1>1, <3>3, <3>4, <3>5, <3>6, <3>7, <3>8, <3>9, SameIdentity
      <3>11. ids = local.ids
        <4>1. ChangeSet(BaseIds(first.base), ids) = ChangeSet(BaseIds(first.base), local.ids)
          BY <3>5, <3>6, <3>10
        <4>. QED
          BY <3>3, <3>4, <4>1, SameHashes DEF Hashed
      <3>12. /\ begun.head = first.head
             /\ \A p \in Eligible \ DOMAIN ids : begun.tree[p] = None
             /\ \A p \in DOMAIN ids : Firm(ids, captured, p)
        BY <1>1, <3>2, <3>3, <3>10, <3>11 DEF SecondSaw
      <3>. QED
        BY <3>1, <3>2, <3>3, <3>12, InstantlyMade
    <2>4. (~reverted => CurrentWhenFresh)'
      BY <2>1, <2>3 DEF CurrentWhenFresh
    <2>. QED
      BY <2>1, <2>2, <2>4 DEF FreshInv, HasFirst, FirstSaw
  <1>. QED
    BY <1>2, <1>3

LEMMA FreshKept == FreshInv /\ [LocalNext]_localVars => FreshInv'
  <1>. SUFFICES ASSUME FreshInv, [LocalNext]_localVars  PROVE FreshInv'
    OBVIOUS
  <1>1. CASE UNCHANGED localVars
    <2>1. LocalShape'
      BY ShapeKept DEF FreshInv
    <2>2. Recorded'
      BY <1>1 DEF FreshInv, Recorded, localVars
    <2>3. ASSUME Compared  PROVE Compared'
      BY <1>1, <2>3, ComparedKept DEF localVars, SecondSaw, Firm
    <2>4. /\ FirstSaw => FirstSaw'
          /\ CurrentWhenFresh => CurrentWhenFresh'
      BY <1>1 DEF localVars, FirstSaw, CurrentWhenFresh, Lost
    <2>. QED
      BY <1>1, <2>1, <2>2, <2>3, <2>4 DEF localVars, FreshInv, HasFirst
  <1>2. CASE Developer
    BY <1>2, DeveloperFresh
  <1>3. CASE BuildStep
    BY <1>3, BuildFresh
  <1>4. CASE LocalStep
    <2>1. UNCHANGED <<tree, head, past, reverted, begun>>
      BY <1>4 DEF LocalStep, Developed
    <2>2. CASE \E refs \in References, policy \in Policies : StartReview(refs, policy)
      <3>1. LocalShape' /\ local'.phase = "open" /\ local'.round = 1
        BY <2>1, <2>2, StartEffect DEF FreshInv
      <3>2. Recorded' /\ local'.outcome = None
        BY <2>1, <3>1 DEF FreshInv, Recorded, LocalShape, LocalTypeOK
      <3>. QED
        BY <3>1, <3>2, TreeAssumption DEF FreshInv, HasFirst, FirstSaw, CurrentWhenFresh
    <2>3. CASE OpenCapture
      <3>1. local.phase = "open"
        BY <2>3 DEF OpenCapture
      <3>. QED
        BY <2>1, <2>3, <3>1, OpenCases, OpenFresh, EndingFresh DEF FreshInv
    <2>4. CASE List
      <3>1. local.phase = "list"
        BY <2>4 DEF List
      <3>2. CASE conflict
        <4>1. Ending(IF local.round = 1 THEN "Conflict" ELSE "stale")
          BY <2>4, <3>2 DEF List, CaptureFails
        <4>. QED
          BY <2>1, <3>1, <4>1, EndingFresh
      <3>. QED
        BY <2>1, <2>4, <3>2, ListFresh
    <2>5. CASE Hash
      <3>1. local.phase = "hash"
        BY <2>5 DEF Hash
      <3>2. CASE CaptureFails("InvalidPath")
        BY <2>1, <3>1, <3>2, EndingFresh DEF CaptureFails
      <3>. QED
        BY <2>1, <2>5, <3>1, <3>2, HashCases, HashFresh, ClassifyFresh DEF FreshInv
    <2>6. CASE Render
      <3>1. local.phase = "render"
        BY <2>6 DEF Render
      <3>2. CASE Unreadable(local.changes[Len(local.captured) + 1], tree)
        <4>1. Ending(IF local.round = 1 THEN "InvalidPath" ELSE "stale")
          BY <2>6, <3>2 DEF Render, CaptureFails
        <4>. QED
          BY <2>1, <3>1, <4>1, EndingFresh
      <3>. QED
        BY <2>1, <2>6, <3>2, RenderFresh
    <2>7. CASE Reviewed
      BY <2>1, <2>7, ReviewedFresh
    <2>8. CASE Compare
      BY <2>1, <2>8, CompareFresh
    <2>. QED
      BY <1>4, <2>2, <2>3, <2>4, <2>5, <2>6, <2>7, <2>8 DEF LocalStep
  <1>. QED
    BY <1>1, <1>2, <1>3, <1>4 DEF LocalNext

\* local_snapshot_is_fresh: files are listed, hashed and read one after the
\* other while the developer edits, and a review may still say fresh; then,
\* unless a content or a head came back, the first capture is what one taken
\* at the moment the review began would have been.
THEOREM CurrentWhenFreshHolds == LocalInit /\ [][LocalNext]_localVars => []CurrentWhenFresh
  <1>1. FreshInv /\ [LocalNext]_localVars => FreshInv'
    BY FreshKept
  <1>2. FreshInv => CurrentWhenFresh
    BY DEF FreshInv, CurrentWhenFresh
  <1>. QED
    BY <1>1, <1>2, FreshInitially, PTL

-----------------------------------------------------------------------------
(* The folds of a plan and of a parse.                                     *)

\* One turn of a fold: which fold it is, and what it is given throughout.
Turn(of, with, s, e) ==
    CASE of = "prepare" -> PrepareFile(s, e, with)
      [] of = "pack" -> PlaceFile(s, e, with)
      [] OTHER -> Step(s, with, e)

\* The equation of the recursion in FoldLeft, on the subsets of D.
TurnOn(h, of, with, start, order, s) ==
    IF s = {} THEN start ELSE Turn(of, with, h[s \ {Max(s)}], order[Max(s)])

\* The same equation on all of D.
Turns(h, of, with, start, order, D) ==
    \A s \in SUBSET D : h[s] = TurnOn(h, of, with, start, order, s)

\* g satisfies the equation, if anything does.
Solves(g, of, with, start, order) ==
    \A h : h = [s \in SUBSET DOMAIN order |-> TurnOn(h, of, with, start, order, s)]
            => g = [s \in SUBSET DOMAIN order |-> TurnOn(g, of, with, start, order, s)]

LEMMA LastOfThem ==
    ASSUME NEW m \in Nat \ {0}, NEW s \in SUBSET (1..m), m \in s
    PROVE  Max(s) = m
  <1>1. \A y \in s : m >= y
    OBVIOUS
  <1>2. \A x \in s : (\A y \in s : x >= y) => x = m
    <2> SUFFICES ASSUME NEW x \in s, \A y \in s : x >= y PROVE x = m
      OBVIOUS
    <2>1. x \in Nat /\ x >= m /\ m >= x
      BY <1>1
    <2> QED BY <2>1
  <1> QED BY <1>1, <1>2 DEF Max

\* The recursion defines a function: one on m - 1 items extends to m.
LEMMA TurnsExist ==
    ASSUME NEW of, NEW with, NEW start, NEW order, NEW n \in Nat
    PROVE  \E h : Turns(h, of, with, start, order, 1..n)
  <1> DEFINE Bad == {k \in Nat : ~ \E h : Turns(h, of, with, start, order, 1..k)}
  <1>1. SUFFICES ASSUME Bad # {} PROVE FALSE
    OBVIOUS
  <1>2. PICK k \in Bad : \A l \in Bad : k <= l
    <2>1. Bad \in SUBSET Nat
      OBVIOUS
    <2> HIDE DEF Bad
    <2> QED BY <1>1, <2>1, LeastNumber
  <1>3. k \in Nat /\ ~ \E h : Turns(h, of, with, start, order, 1..k)
    OBVIOUS
  <1>4. CASE k = 0
    <2> DEFINE h == [s \in SUBSET (1..0) |-> start]
    <2>1. \A s \in SUBSET (1..0) : s = {} /\ h[s] = start
      OBVIOUS
    <2> HIDE DEF h
    <2>2. Turns(h, of, with, start, order, 1..0)
      BY <2>1 DEF Turns, TurnOn
    <2> QED BY <1>3, <1>4, <2>2
  <1>5. CASE k # 0
    <2>1. k - 1 \in Nat /\ k - 1 \notin Bad
      <3>1. k - 1 \in Nat /\ ~ (k <= k - 1)
        BY <1>3, <1>5
      <3> HIDE DEF Bad
      <3> QED BY <1>2, <3>1
    <2>2. PICK h : Turns(h, of, with, start, order, 1..(k - 1))
      BY <2>1
    <2> DEFINE small == SUBSET (1..(k - 1))
               g == [s \in SUBSET (1..k) |-> IF s \in small THEN h[s]
                                             ELSE Turn(of, with, h[s \ {k}], order[k])]
    <2>3. \A s \in small : s \in SUBSET (1..k)
      <3>1. \A x \in 1..(k - 1) : x \in 1..k
        BY <1>3
      <3> QED BY <3>1
    <2>4. \A s \in small : g[s] = h[s]
      BY <2>3
    <2>5. ASSUME NEW s \in SUBSET (1..k)
          PROVE  g[s] = TurnOn(g, of, with, start, order, s)
      <3>1. CASE s \in small
        <4>1. s \ {Max(s)} \in small
          BY <3>1
        <4>2. h[s] = TurnOn(h, of, with, start, order, s)
          BY <2>2, <3>1 DEF Turns
        <4>3. g[s] = h[s] /\ g[s \ {Max(s)}] = h[s \ {Max(s)}]
          BY <2>4, <3>1, <4>1
        <4> HIDE DEF g
        <4> QED BY <4>2, <4>3 DEF TurnOn
      <3>2. CASE s \notin small
        <4>1. \A x \in 1..k : x = k \/ x \in 1..(k - 1)
          BY <1>3
        <4>2. k \in s /\ s \ {k} \in small
          BY <3>2, <4>1
        <4>3. Max(s) = k
          BY <1>3, <1>5, <4>2, LastOfThem
        <4>4. g[s] = Turn(of, with, h[s \ {k}], order[k])
          BY <3>2
        <4>5. g[s \ {k}] = h[s \ {k}]
          BY <2>4, <4>2
        <4> HIDE DEF g
        <4> QED BY <4>2, <4>3, <4>4, <4>5 DEF TurnOn
      <3> QED BY <3>1, <3>2
    <2> HIDE DEF g
    <2>6. Turns(g, of, with, start, order, 1..k)
      BY <2>5 DEF Turns
    <2> QED BY <1>3, <2>6
  <1> QED BY <1>4, <1>5

\* Through every item, in their order.
RunsTo(end, of, with, start, order, n) ==
    \E c : /\ c[0] = start /\ end = c[n]
           /\ \A i \in 1..n : c[i] = Turn(of, with, c[i - 1], order[i])

\* A fold runs from its start through every item.
LEMMA FoldRuns ==
    ASSUME NEW of, NEW with, NEW start, NEW order, NEW n \in Nat, DOMAIN order = 1..n,
           NEW g, Solves(g, of, with, start, order)
    PROVE  RunsTo(g[DOMAIN order], of, with, start, order, n)
  <1>1. PICK h : Turns(h, of, with, start, order, 1..n)
    BY TurnsExist
  <1> DEFINE k == [s \in SUBSET (1..n) |-> h[s]]
  <1>2. ASSUME NEW s \in SUBSET (1..n)
        PROVE  k[s] = TurnOn(k, of, with, start, order, s)
    <2>1. k[s] = h[s] /\ k[s \ {Max(s)}] = h[s \ {Max(s)}]
      OBVIOUS
    <2>2. h[s] = TurnOn(h, of, with, start, order, s)
      BY <1>1 DEF Turns
    <2> HIDE DEF k
    <2> QED BY <2>1, <2>2 DEF TurnOn
  <1>3. k = [s \in SUBSET (1..n) |-> k[s]]
    OBVIOUS
  <1> HIDE DEF k
  <1>4. k = [s \in SUBSET DOMAIN order |-> TurnOn(k, of, with, start, order, s)]
    BY <1>2, <1>3
  <1>5. g = [s \in SUBSET DOMAIN order |-> TurnOn(g, of, with, start, order, s)]
    BY <1>4 DEF Solves
  <1>6. \A s \in SUBSET (1..n) : g[s] = TurnOn(g, of, with, start, order, s)
    BY <1>5
  <1> DEFINE c == [i \in 0..n |-> g[1..i]]
  <1>7. c[0] = start
    <2>1. 0 \in 0..n /\ 1..0 = {}
      OBVIOUS
    <2>2. {} \in SUBSET (1..n) /\ g[{}] = start
      BY <1>6 DEF TurnOn
    <2> QED BY <2>1, <2>2
  <1>8. ASSUME NEW i \in 1..n
        PROVE  c[i] = Turn(of, with, c[i - 1], order[i])
    <2>1. i \in 0..n /\ i - 1 \in 0..n /\ i \in Nat \ {0} /\ i \in 1..i
      OBVIOUS
    <2>2. 1..i \in SUBSET (1..n)
      OBVIOUS
    <2>3. 1..i \ {i} = 1..(i - 1)
      BY <2>1, OneShorter
    <2>4. Max(1..i) = i
      BY <2>1, LastOfThem
    <2>5. 1..i # {}
      BY <2>1
    <2>6. g[1..i] = Turn(of, with, g[1..(i - 1)], order[i])
      BY <1>6, <2>2, <2>3, <2>4, <2>5 DEF TurnOn
    <2> QED BY <2>1, <2>6
  <1>9. g[DOMAIN order] = c[n]
    OBVIOUS
  <1> HIDE DEF c
  <1> QED BY <1>7, <1>8, <1>9 DEF RunsTo

\* What the loops of a plan and of a parse keep, they keep to their end.
LEMMA PrepareRuns ==
    ASSUME NEW files, NEW policy, NEW n \in Nat, DOMAIN ByPath(files) = 1..n
    PROVE  RunsTo(Prepare(files, policy), "prepare", policy,
                  [included |-> {}, omitted |-> {}, anchors |-> {}], ByPath(files), n)
  <1> DEFINE order == ByPath(files)
             start == [included |-> {}, omitted |-> {}, anchors |-> {}]
             turn(h, s) == IF s = {} THEN start ELSE PrepareFile(h[s \ {Max(s)}], order[Max(s)], policy)
             g == CHOOSE h : h = [s \in SUBSET DOMAIN order |-> turn(h, s)]
  <1>1. Prepare(files, policy) = g[DOMAIN order]
    BY DEF Prepare, FoldLeft, MapThenFoldSet
  <1>2. \A h, s : turn(h, s) = TurnOn(h, "prepare", policy, start, order, s)
    BY DEF TurnOn, Turn
  <1> HIDE DEF turn, start, order
  <1>3. Solves(g, "prepare", policy, start, order)
    <2> SUFFICES ASSUME NEW h,
                        h = [s \in SUBSET DOMAIN order |-> TurnOn(h, "prepare", policy, start, order, s)]
                 PROVE  g = [s \in SUBSET DOMAIN order |-> TurnOn(g, "prepare", policy, start, order, s)]
      BY DEF Solves
    <2>1. h = [s \in SUBSET DOMAIN order |-> turn(h, s)]
      BY <1>2
    <2>2. g = [s \in SUBSET DOMAIN order |-> turn(g, s)]
      BY <2>1
    <2> HIDE DEF g
    <2> QED BY <1>2, <2>2
  <1> HIDE DEF g
  <1>4. DOMAIN order = 1..n
    BY DEF order
  <1>5. RunsTo(g[DOMAIN order], "prepare", policy, start, order, n)
    BY <1>3, <1>4, FoldRuns
  <1> QED BY <1>1, <1>5 DEF order, start

LEMMA PackRuns ==
    ASSUME NEW prepared, NEW l, NEW n \in Nat, DOMAIN ByValue(prepared.included) = 1..n
    PROVE  RunsTo(Pack(prepared, l), "pack", l,
                  [units |-> <<>>, omitted |-> prepared.omitted, files |-> 0, bytes |-> 0, low |-> 0],
                  ByValue(prepared.included), n)
  <1> DEFINE order == ByValue(prepared.included)
             start == [units |-> <<>>, omitted |-> prepared.omitted, files |-> 0, bytes |-> 0, low |-> 0]
             turn(h, s) == IF s = {} THEN start ELSE PlaceFile(h[s \ {Max(s)}], order[Max(s)], l)
             g == CHOOSE h : h = [s \in SUBSET DOMAIN order |-> turn(h, s)]
  <1>1. Pack(prepared, l) = g[DOMAIN order]
    BY DEF Pack, FoldLeft, MapThenFoldSet
  <1>2. \A h, s : turn(h, s) = TurnOn(h, "pack", l, start, order, s)
    BY DEF TurnOn, Turn
  <1> HIDE DEF turn, start, order
  <1>3. Solves(g, "pack", l, start, order)
    <2> SUFFICES ASSUME NEW h,
                        h = [s \in SUBSET DOMAIN order |-> TurnOn(h, "pack", l, start, order, s)]
                 PROVE  g = [s \in SUBSET DOMAIN order |-> TurnOn(g, "pack", l, start, order, s)]
      BY DEF Solves
    <2>1. h = [s \in SUBSET DOMAIN order |-> turn(h, s)]
      BY <1>2
    <2>2. g = [s \in SUBSET DOMAIN order |-> turn(g, s)]
      BY <2>1
    <2> HIDE DEF g
    <2> QED BY <1>2, <2>2
  <1> HIDE DEF g
  <1>4. DOMAIN order = 1..n
    BY DEF order
  <1>5. RunsTo(g[DOMAIN order], "pack", l, start, order, n)
    BY <1>3, <1>4, FoldRuns
  <1> QED BY <1>1, <1>5 DEF order, start

\* The states of a parse, line by line.
ParsedBy(c, path, lines, n) ==
    /\ c[0] = Start
    /\ ParseDiff(path, lines) = Parsed(path, AtEnd(c[n], path))
    /\ \A i \in 1..n : c[i] = Step(c[i - 1], path, lines[i])

LEMMA ParseRuns ==
    ASSUME NEW path, NEW lines, NEW n \in Nat, DOMAIN lines = 1..n
    PROVE  \E c : ParsedBy(c, path, lines, n)
  <1> DEFINE turn(h, s) == IF s = {} THEN Start ELSE Step(h[s \ {Max(s)}], path, lines[Max(s)])
             g == CHOOSE h : h = [s \in SUBSET DOMAIN lines |-> turn(h, s)]
  <1>1. ParseDiff(path, lines) = Parsed(path, AtEnd(g[DOMAIN lines], path))
    BY DEF ParseDiff, FoldLeft, MapThenFoldSet
  <1>2. \A h, s : turn(h, s) = TurnOn(h, "parse", path, Start, lines, s)
    BY DEF TurnOn, Turn
  <1> HIDE DEF turn
  <1>3. Solves(g, "parse", path, Start, lines)
    <2> SUFFICES ASSUME NEW h,
                        h = [s \in SUBSET DOMAIN lines |-> TurnOn(h, "parse", path, Start, lines, s)]
                 PROVE  g = [s \in SUBSET DOMAIN lines |-> TurnOn(g, "parse", path, Start, lines, s)]
      BY DEF Solves
    <2>1. h = [s \in SUBSET DOMAIN lines |-> turn(h, s)]
      BY <1>2
    <2>2. g = [s \in SUBSET DOMAIN lines |-> turn(g, s)]
      BY <2>1
    <2> HIDE DEF g
    <2> QED BY <1>2, <2>2
  <1> HIDE DEF g
  <1>4. RunsTo(g[DOMAIN lines], "parse", path, Start, lines, n)
    BY <1>3, FoldRuns
  <1>5. PICK c : /\ c[0] = Start /\ g[DOMAIN lines] = c[n]
                 /\ \A i \in 1..n : c[i] = Turn("parse", path, c[i - 1], lines[i])
    BY <1>4 DEF RunsTo
  <1>6. ParsedBy(c, path, lines, n)
    BY <1>1, <1>5 DEF ParsedBy, Turn
  <1> QED BY <1>6

-----------------------------------------------------------------------------
(* What a parse collects is of the path that is parsed.                    *)

ParseInv(s, path) ==
    /\ DOMAIN s = DOMAIN Start
    /\ s.phase \in {"prelude", "hunk", "complete", "between"}
    /\ s.records \in Seq(ToSet(s.records))
    /\ s.lines \in Seq(ToSet(s.lines))
    /\ \A x \in ToSet(s.lines) : x.path = path

\* A parse starts so, and every line keeps it so.
LEMMA StartParses == \A path : ParseInv(Start, path)
  <1>1. <<>> \in Seq({}) /\ ToSet(<<>>) = {}
    BY DEF ToSet
  <1>2. ToSet(<<>>) = {}
    BY <1>1
  <1> QED BY <1>1, <1>2 DEF ParseInv, Start

LEMMA RejectParses ==
    ASSUME NEW path, NEW s, ParseInv(s, path), NEW error
    PROVE  ParseInv(Reject(s, error), path)
  BY DEF ParseInv, Reject, Start

LEMMA OpenParses ==
    ASSUME NEW path, NEW s, ParseInv(s, path), NEW l
    PROVE  ParseInv(OpenHunk(s, l), path)
  <1> DEFINE t == [s EXCEPT !.phase = "hunk", !.header = [old |-> l.old, new |-> l.new],
                            !.old_seen = 0, !.new_seen = 0,
                            !.old_line = l.old.start, !.new_line = l.new.start,
                            !.records = <<>>]
  <1>1. /\ DOMAIN t = DOMAIN Start /\ t.phase = "hunk" /\ t.records = <<>> /\ t.lines = s.lines
    BY DEF ParseInv, Start
  <1>2. <<>> \in Seq({}) /\ ToSet(<<>>) = {}
    BY DEF ToSet
  <1> HIDE DEF t
  <1>3. ParseInv(t, path)
    BY <1>1, <1>2 DEF ParseInv
  <1>4. OpenHunk(s, l) = t \/ \E e : OpenHunk(s, l) = Reject(s, e)
    BY DEF OpenHunk, t
  <1> QED BY <1>3, <1>4, RejectParses

LEMMA ConsumeParses ==
    ASSUME NEW path, NEW s, ParseInv(s, path), NEW l
    PROVE  ParseInv(Consume(s, path, l), path)
  <1> DEFINE more == Append(s.records, RecordOf(s, l))
             next == [Consumed(s, l.kind) EXCEPT !.records = Append(@, RecordOf(s, l))]
             t == [next EXCEPT !.phase = IF Complete(next) THEN "complete" ELSE "hunk"]
  <1>1. /\ DOMAIN Consumed(s, l.kind) = DOMAIN Start
        /\ Consumed(s, l.kind).records = s.records /\ Consumed(s, l.kind).lines = s.lines
    BY DEF ParseInv, Start, Consumed
  <1>2. DOMAIN next = DOMAIN Start /\ next.records = more /\ next.lines = s.lines
    BY <1>1 DEF Start
  <1> HIDE DEF next
  <1>3. DOMAIN t = DOMAIN Start /\ t.records = more /\ t.lines = s.lines /\ t.phase \in {"complete", "hunk"}
    BY <1>2 DEF Start
  <1> HIDE DEF t, more
  <1>4. more \in Seq(ToSet(more))
    BY AppendMore DEF more, ParseInv
  <1>5. ParseInv(t, path)
    BY <1>3, <1>4 DEF ParseInv
  <1>6. Consume(s, path, l) = t \/ \E e : Consume(s, path, l) = Reject(s, e)
    <2> DEFINE unexpected == l.kind \notin {" ", "-", "+"}
               mismatch == ~LineAllowed(path, l.kind)
               exceeded == \/ OldSide(l.kind) /\ s.old_seen >= s.header.old.count
                           \/ NewSide(l.kind) /\ s.new_seen >= s.header.new.count
               invalid == ~PositionValid(Position(s, l.kind))
               many == Len(next.records) > MaxHunkLines
    <2>1. Consume(s, path, l) =
            CASE unexpected -> Reject(s, "UnexpectedHunkLine")
              [] mismatch -> Reject(s, "FileChangeLineMismatch")
              [] exceeded -> Reject(s, "HunkCountExceeded")
              [] invalid -> Reject(s, "InvalidRangeStart")
              [] many -> Reject(s, "TooManyLinesInHunk")
              [] OTHER -> t
      BY DEF Consume, t, next
    <2> HIDE DEF unexpected, mismatch, exceeded, invalid, many
    <2> QED BY <2>1
  <1> QED BY <1>5, <1>6, RejectParses

LEMMA MarkParses ==
    ASSUME NEW path, NEW s, ParseInv(s, path)
    PROVE  ParseInv(Mark(s), path)
  <1> DEFINE last == Len(s.records)
             marked == [s.records EXCEPT ![last].newline = FALSE]
             t == [s EXCEPT !.records[last].newline = FALSE]
  <1>1. DOMAIN t = DOMAIN Start /\ t.records = marked /\ t.lines = s.lines /\ t.phase = s.phase
    BY DEF ParseInv, Start
  <1>2. DOMAIN marked = DOMAIN s.records /\ marked = [i \in DOMAIN s.records |-> marked[i]]
    OBVIOUS
  <1>3. \E n \in Nat : DOMAIN s.records = 1..n
    BY DEF ParseInv
  <1> HIDE DEF marked
  <1>4. marked \in Seq(ToSet(marked))
    <2>1. PICK n \in Nat : DOMAIN s.records = 1..n
      BY <1>3
    <2>2. \A i \in 1..n : marked[i] \in ToSet(marked)
      BY <1>2, <2>1 DEF ToSet
    <2>3. marked = [i \in 1..n |-> marked[i]]
      BY <1>2, <2>1
    <2> QED BY <2>2, <2>3
  <1> HIDE DEF t
  <1>5. ParseInv(t, path)
    BY <1>1, <1>4 DEF ParseInv
  <1>6. Mark(s) = t \/ \E e : Mark(s) = Reject(s, e)
    BY DEF Mark, t
  <1> QED BY <1>5, <1>6, RejectParses

LEMMA JoinSet ==
    ASSUME NEW a, a \in Seq(ToSet(a)), NEW b, b \in Seq(ToSet(b))
    PROVE  a \o b \in Seq(ToSet(a \o b)) /\ ToSet(a \o b) = ToSet(a) \cup ToSet(b)
  <1> DEFINE m == Len(a)
             n == Len(b)
             c == a \o b
  <1>1. m \in Nat /\ n \in Nat /\ DOMAIN a = 1..m /\ DOMAIN b = 1..n
    OBVIOUS
  <1>2. a \in Seq(ToSet(a) \cup ToSet(b)) /\ b \in Seq(ToSet(a) \cup ToSet(b))
    OBVIOUS
  <1>3. /\ c \in Seq(ToSet(a) \cup ToSet(b)) /\ Len(c) = m + n
        /\ \A i \in 1..(m + n) : c[i] = IF i <= m THEN a[i] ELSE b[i - m]
    BY <1>2
  <1> HIDE DEF m, n, c
  <1>4. DOMAIN c = 1..(m + n)
    BY <1>1, <1>3
  <1>5. \A i \in 1..m : i \in 1..(m + n) /\ c[i] = a[i]
    BY <1>1, <1>3
  <1>6. \A i \in 1..n : m + i \in 1..(m + n) /\ c[m + i] = b[i]
    <2> SUFFICES ASSUME NEW i \in 1..n PROVE m + i \in 1..(m + n) /\ c[m + i] = b[i]
      OBVIOUS
    <2>1. m + i \in 1..(m + n) /\ ~ (m + i <= m) /\ (m + i) - m = i
      BY <1>1
    <2> QED BY <1>3, <2>1
  <1>7. ToSet(a) \cup ToSet(b) \subseteq ToSet(c)
    BY <1>1, <1>4, <1>5, <1>6 DEF ToSet
  <1>8. ToSet(c) \subseteq ToSet(a) \cup ToSet(b)
    <2>1. \A i \in 1..(m + n) : c[i] \in ToSet(a) \cup ToSet(b)
      BY <1>3, <1>4
    <2> QED BY <1>4, <2>1 DEF ToSet
  <1>9. ToSet(c) = ToSet(a) \cup ToSet(b)
    BY <1>7, <1>8
  <1> QED BY <1>3, <1>9 DEF c

LEMMA CloseParses ==
    ASSUME NEW path, NEW s, ParseInv(s, path)
    PROVE  ParseInv(Close(s, path), path)
  <1> DEFINE new == [i \in DOMAIN s.records |->
                        [path |-> path, position |-> s.records[i].position,
                         line |-> s.records[i], context |-> Around(s.records, i)]]
             t == [s EXCEPT !.phase = "between", !.hunks = @ + 1, !.lines = @ \o new]
  <1>1. DOMAIN t = DOMAIN Start /\ t.records = s.records /\ t.lines = s.lines \o new
        /\ t.phase = "between"
    BY DEF ParseInv, Start
  <1>2. DOMAIN new = DOMAIN s.records /\ \A i \in DOMAIN new : new[i].path = path
    OBVIOUS
  <1>3. new = [i \in DOMAIN new |-> new[i]]
    OBVIOUS
  <1>4. PICK n \in Nat : DOMAIN s.records = 1..n
    BY DEF ParseInv
  <1>5. Close(s, path) = t \/ \E e : Close(s, path) = Reject(s, e)
    BY DEF Close
  <1> HIDE DEF new, t
  <1>6. new \in Seq(ToSet(new))
    <2>1. \A i \in 1..n : new[i] \in ToSet(new)
      BY <1>2, <1>4 DEF ToSet
    <2>2. new = [i \in 1..n |-> new[i]]
      BY <1>2, <1>3, <1>4
    <2> QED BY <2>1, <2>2
  <1>7. \A x \in ToSet(new) : x.path = path
    BY <1>2 DEF ToSet
  <1>8. s.lines \in Seq(ToSet(s.lines))
    BY DEF ParseInv
  <1>9. s.lines \o new \in Seq(ToSet(s.lines \o new))
        /\ ToSet(s.lines \o new) = ToSet(s.lines) \cup ToSet(new)
    BY <1>6, <1>8, JoinSet
  <1>10. ParseInv(t, path)
    BY <1>1, <1>7, <1>9 DEF ParseInv
  <1> QED BY <1>5, <1>10, RejectParses

LEMMA PreludeParses ==
    ASSUME NEW path, NEW s, ParseInv(s, path), NEW l
    PROVE  ParseInv(Prelude(s, path, l), path)
  <1>1. \A seen : ParseInv([s EXCEPT !.seen = seen], path)
    BY DEF ParseInv, Start
  <1>2. \/ \E e : Prelude(s, path, l) = Reject(s, e)
        \/ Prelude(s, path, l) = OpenHunk(s, l)
        \/ \E seen : Prelude(s, path, l) = [s EXCEPT !.seen = seen]
        \/ Prelude(s, path, l) = s
    <2>1. CASE l.kind = "hunk"
      BY <2>1 DEF Prelude
    <2>2. CASE l.kind = "old"
      <3> DEFINE repeated == s.seen \cap {"old", "new"} # {}
                 other == l.path # ExpectedOld(path)
      <3>1. Prelude(s, path, l) = CASE repeated -> Reject(s, "DuplicateFileHeader")
                                    [] other -> Reject(s, "FileHeaderMismatch")
                                    [] OTHER -> [s EXCEPT !.seen = s.seen \cup {"old"}]
        BY <2>2 DEF Prelude
      <3> HIDE DEF repeated, other
      <3> QED BY <3>1
    <2>3. CASE l.kind = "new"
      <3> DEFINE repeated == "old" \notin s.seen \/ "new" \in s.seen
                 other == l.path # ExpectedNew(path)
      <3>1. Prelude(s, path, l) = CASE repeated -> Reject(s, "DuplicateFileHeader")
                                    [] other -> Reject(s, "FileHeaderMismatch")
                                    [] OTHER -> [s EXCEPT !.seen = s.seen \cup {"new"}]
        BY <2>3 DEF Prelude
      <3> HIDE DEF repeated, other
      <3> QED BY <3>1
    <2>4. CASE l.kind \notin {"hunk", "old", "new"}
      BY <2>4 DEF Prelude
    <2> QED BY <2>1, <2>2, <2>3, <2>4
  <1> QED BY <1>1, <1>2, RejectParses, OpenParses

LEMMA BetweenParses ==
    ASSUME NEW path, NEW s, ParseInv(s, path), NEW l
    PROVE  ParseInv(Between(s, l), path)
  BY RejectParses, OpenParses DEF Between

LEMMA AfterHunkParses ==
    ASSUME NEW path, NEW s, ParseInv(s, path), NEW l
    PROVE  ParseInv(AfterHunk(s, path, l), path)
  <1>1. ParseInv(Close(s, path), path)
    BY CloseParses
  <1>2. ParseInv(Between(Close(s, path), l), path)
    BY <1>1, BetweenParses
  <1> QED BY <1>1, <1>2, MarkParses DEF AfterHunk

LEMMA StepParses ==
    ASSUME NEW path, NEW s, ParseInv(s, path), NEW l
    PROVE  ParseInv(Step(s, path, l), path)
  <1>1. \/ Step(s, path, l) = s
        \/ \E e : Step(s, path, l) = Reject(s, e)
        \/ Step(s, path, l) = Prelude(s, path, l)
        \/ Step(s, path, l) = Mark(s)
        \/ Step(s, path, l) = Consume(s, path, l)
        \/ Step(s, path, l) = AfterHunk(s, path, l)
        \/ Step(s, path, l) = Between(s, l)
    BY DEF Step, ParseInv
  <1> QED BY <1>1, RejectParses, PreludeParses, MarkParses, ConsumeParses, AfterHunkParses,
             BetweenParses

\* The commentable lines of a diff are a sequence of lines of its path.
LEMMA ParsedLines ==
    ASSUME NEW path, NEW S, NEW lines \in Seq(S)
    PROVE  /\ ParseDiff(path, lines).lines \in Seq(ToSet(ParseDiff(path, lines).lines))
           /\ \A x \in ToSet(ParseDiff(path, lines).lines) : x.path = path
  <1> DEFINE n == Len(lines)
  <1>1. n \in Nat /\ DOMAIN lines = 1..n
    OBVIOUS
  <1>2. PICK c : ParsedBy(c, path, lines, n)
    <2> HIDE DEF n
    <2> QED BY <1>1, ParseRuns
  <1> DEFINE Bad == {k \in 0..n : ~ ParseInv(c[k], path)}
  <1> HIDE DEF n
  <1>3. ASSUME Bad # {} PROVE FALSE
    <2>1. PICK k \in Bad : \A l \in Bad : k <= l
      <3>1. Bad \in SUBSET Nat
        OBVIOUS
      <3> HIDE DEF Bad
      <3> QED BY <1>3, <3>1, LeastNumber
    <2>2. k \in 0..n /\ ~ ParseInv(c[k], path)
      OBVIOUS
    <2>3. k # 0
      BY <1>2, <2>2, StartParses DEF ParsedBy
    <2>4. k \in 1..n /\ k - 1 \in 0..n /\ ~ (k <= k - 1)
      BY <1>1, <2>2, <2>3
    <2>5. ParseInv(c[k - 1], path)
      BY <2>1, <2>4
    <2>6. c[k] = Step(c[k - 1], path, lines[k])
      BY <1>2, <2>4 DEF ParsedBy
    <2> QED BY <2>2, <2>5, <2>6, StepParses
  <1>4. ParseInv(c[n], path)
    <2>1. n \in 0..n
      BY <1>1
    <2> QED BY <1>3, <2>1
  <1>5. ParseInv(AtEnd(c[n], path), path)
    BY <1>4, RejectParses, CloseParses DEF AtEnd
  <1>6. ParseDiff(path, lines) = Parsed(path, AtEnd(c[n], path))
    BY <1>2 DEF ParsedBy
  <1> QED BY <1>5, <1>6 DEF Parsed, ParseInv

-----------------------------------------------------------------------------
(* What an edit script and its hunks list.                                 *)

\* Numbers in their order.
LEMMA NumbersInOrder ==
    ASSUME NEW S \in SUBSET Nat, IsFiniteSet(S)
    PROVE  /\ Ascending(S) \in Seq(S) /\ ToSet(Ascending(S)) = S
           /\ IsInjective(Ascending(S))
  <1> DEFINE R == {p \in S \X S : p[1] < p[2]}
             s == Ascending(S)
             below(x) == {y \in S : y < x}
  <1>1. StrictOrder(S, R)
    BY DEF StrictOrder
  <1>2. \A x \in S : below(x) = Above(S, R, x)
    BY DEF Above
  <1>3. DOMAIN s = 1..Cardinality(S) /\ s = [i \in 1..Cardinality(S) |-> s[i]]
    <2> DEFINE at(i) == CHOOSE x \in S : Cardinality(below(x)) = i - 1
    <2>1. s = [i \in 1..Cardinality(S) |-> at(i)]
      BY DEF Ascending, InOrder
    <2> HIDE DEF at, s
    <2> QED BY <2>1
  <1>4. ASSUME NEW i \in 1..Cardinality(S), \E x \in S : Cardinality(Above(S, R, x)) = i - 1
        PROVE  s[i] \in S /\ Cardinality(Above(S, R, s[i])) = i - 1
    <2>1. s[i] = CHOOSE x \in S : Cardinality(below(x)) = i - 1
      BY DEF Ascending, InOrder
    <2> HIDE DEF below, R, s
    <2>2. \E x \in S : Cardinality(below(x)) = i - 1
      BY <1>2, <1>4
    <2>3. s[i] \in S /\ Cardinality(below(s[i])) = i - 1
      BY <2>1, <2>2
    <2> QED BY <1>2, <2>3
  <1> HIDE DEF s, R
  <1>5. RankedBy(s, S, R)
    BY <1>3, <1>4 DEF RankedBy
  <1> QED BY <1>1, <1>5, RankLists DEF s

\* The largest alignment exists.
LEMMA Aligned ==
    ASSUME NEW A, NEW old \in Seq(A), NEW B, NEW new \in Seq(B)
    PROVE  Alignment(old, new) \in SUBSET ((DOMAIN old) \X (DOMAIN new))
           /\ IsFiniteSet((DOMAIN old) \X (DOMAIN new))
  <1> DEFINE pairs == {p \in (DOMAIN old) \X (DOMAIN new) : old[p[1]] = new[p[2]]}
             ordered(M) == \A p, q \in M : p[1] < q[1] <=> p[2] < q[2]
             all == {M \in SUBSET pairs : ordered(M)}
             most(M) == \A N \in all : Cardinality(N) <= Cardinality(M)
  <1>1. IsFiniteSet(DOMAIN old) /\ IsFiniteSet(DOMAIN new)
    <2>1. /\ DOMAIN old = 1..Len(old) /\ Len(old) \in Nat
          /\ DOMAIN new = 1..Len(new) /\ Len(new) \in Nat
      OBVIOUS
    <2> QED BY <2>1, FS_Interval
  <1>2. IsFiniteSet((DOMAIN old) \X (DOMAIN new))
    BY <1>1, FS_Product
  <1>3. IsFiniteSet(pairs)
    BY <1>2, FS_Subset
  <1>4. \A M \in all : Cardinality(M) \in Nat /\ Cardinality(M) <= Cardinality(pairs)
    <2> SUFFICES ASSUME NEW M \in all
                 PROVE  Cardinality(M) \in Nat /\ Cardinality(M) <= Cardinality(pairs)
      OBVIOUS
    <2>1. M \in SUBSET pairs
      OBVIOUS
    <2> HIDE DEF pairs, ordered, all
    <2> QED BY <1>3, <2>1, FS_Subset, FS_CardinalityType
  <1>5. {} \in all
    OBVIOUS
  <1>6. Cardinality(pairs) \in Nat
    <2> HIDE DEF pairs
    <2> QED BY <1>3, FS_CardinalityType
  <1>7. Alignment(old, new) = CHOOSE M \in all : most(M)
    BY DEF Alignment
  <1>8. \A M \in all : M \in SUBSET ((DOMAIN old) \X (DOMAIN new))
    OBVIOUS
  <1> DEFINE n == Cardinality(pairs)
             size(M) == n - Cardinality(M)
             sizes == {size(M) : M \in all}
  <1>9. \E M \in all : most(M)
    <2> HIDE DEF pairs, ordered, all
    <2>1. sizes \in SUBSET Nat /\ sizes # {}
      BY <1>4, <1>5, <1>6
    <2>2. PICK k \in sizes : \A l \in sizes : k <= l
      <3> HIDE DEF sizes
      <3> QED BY <2>1, LeastNumber
    <2>3. PICK M \in all : k = size(M)
      OBVIOUS
    <2>4. \A N \in all : size(M) <= size(N)
      BY <2>2, <2>3
    <2>5. \A N \in all : Cardinality(N) <= Cardinality(M)
      BY <1>4, <1>6, <2>4
    <2> QED BY <2>5
  <1> HIDE DEF all, most
  <1>10. Alignment(old, new) \in all
    BY <1>7, <1>9
  <1> QED BY <1>2, <1>8, <1>10

\* What the edits of an alignment are is finite, so there are as many as the
\* sequence of them is long.
LEMMA EditsAreMany ==
    ASSUME NEW A, NEW old \in Seq(A), NEW B, NEW new \in Seq(B)
    PROVE  \E n \in Nat : DOMAIN Edits(old, new) = 1..n
  <1> DEFINE M == Alignment(old, new)
             gone == DOMAIN old \ {p[1] : p \in M}
             fresh == DOMAIN new \ {p[2] : p \in M}
             f == [i \in gone |-> [at |-> <<Cardinality({p \in M : p[1] < i}), 0, i>>,
                                   kind |-> "-", content |-> old[i]]]
             g == [j \in fresh |-> [at |-> <<Cardinality({p \in M : p[2] < j}), 1, j>>,
                                    kind |-> "+", content |-> new[j]]]
             h == [p \in M |-> [at |-> <<Cardinality({q \in M : q[1] < p[1]}), 2, 0>>,
                                kind |-> " ", content |-> old[p[1]]]]
             edits == {f[i] : i \in gone} \cup {g[j] : j \in fresh} \cup {h[p] : p \in M}
  <1>1. IsFiniteSet(M)
    <2>1. M \in SUBSET ((DOMAIN old) \X (DOMAIN new)) /\ IsFiniteSet((DOMAIN old) \X (DOMAIN new))
      BY Aligned
    <2> HIDE DEF M
    <2> QED BY <2>1, FS_Subset
  <1>2. IsFiniteSet(gone) /\ IsFiniteSet(fresh)
    <2>1. /\ DOMAIN old = 1..Len(old) /\ Len(old) \in Nat
          /\ DOMAIN new = 1..Len(new) /\ Len(new) \in Nat
      OBVIOUS
    <2>2. IsFiniteSet(DOMAIN old) /\ IsFiniteSet(DOMAIN new)
      BY <2>1, FS_Interval
    <2>3. gone \in SUBSET DOMAIN old /\ fresh \in SUBSET DOMAIN new
      OBVIOUS
    <2> HIDE DEF gone, fresh
    <2> QED BY <2>2, <2>3, FS_Subset
  <1>3. DOMAIN Edits(old, new) = 1..Cardinality(edits)
    BY DEF Edits, EditsBetween, InOrder
  <1> HIDE DEF M, gone, fresh, f, g, h
  <1>4. IsFiniteSet({f[i] : i \in gone}) /\ IsFiniteSet({g[j] : j \in fresh})
        /\ IsFiniteSet({h[p] : p \in M})
    BY <1>1, <1>2, FiniteImage
  <1>5. IsFiniteSet(edits)
    BY <1>4, FS_Union
  <1> HIDE DEF edits
  <1> QED BY <1>3, <1>5, FS_CardinalityType

LEMMA HunkIsList ==
    ASSUME NEW edits, NEW first \in Int, NEW last \in Int
    PROVE  HunkOf(edits, first, last) \in Seq(ToSet(HunkOf(edits, first, last)))
  <1> DEFINE before == SubSeq(edits, 1, first - 1)
             inside == SubSeq(edits, first, last)
             header == [kind |-> "hunk", fault |-> None,
                        old |-> RangeOf(before, inside, {" ", "-"}),
                        new |-> RangeOf(before, inside, {" ", "+"})]
             body == [i \in DOMAIN inside |-> [kind |-> inside[i].kind, content |-> inside[i].content]]
  <1>1. HunkOf(edits, first, last) = <<header>> \o body
    BY DEF HunkOf
  <1>2. PICK n \in Nat : DOMAIN inside = 1..n
    <2>1. inside \in Seq({edits[i] : i \in first..last})
      <3>1. \A i \in first..last : edits[i] \in {edits[j] : j \in first..last}
        OBVIOUS
      <3> QED BY <3>1, SubSeqProperties
    <2> HIDE DEF inside
    <2> QED BY <2>1
  <1>3. DOMAIN body = 1..n /\ body = [i \in 1..n |-> body[i]]
    BY <1>2
  <1> HIDE DEF header, body
  <1>4. body \in Seq(ToSet(body))
    BY <1>3 DEF ToSet
  <1>5. <<header>> \in Seq(ToSet(<<header>>))
    BY DEF ToSet
  <1> QED BY <1>1, <1>4, <1>5, JoinSet

\* A diff is a sequence of lines.
LEMMA DiffIsList ==
    ASSUME NEW A, NEW old \in Seq(A), NEW B, NEW new \in Seq(B), UnifiedDiff(old, new) # None
    PROVE  \E S : UnifiedDiff(old, new) \in Seq(S)
  <1> DEFINE edits == Edits(old, new)
             shown == {i \in DOMAIN edits : \E j \in DOMAIN edits :
                        edits[j].kind # " " /\ j \in (i - ContextLines)..(i + ContextLines)}
             starts == {i \in shown : i - 1 \notin shown}
             firsts == Ascending(starts)
             ends(i) == {j \in shown : j >= i /\ j + 1 \notin shown}
             hunks == [n \in DOMAIN firsts |-> HunkOf(edits, firsts[n], Min(ends(firsts[n])))]
  <1>1. UnifiedDiff(old, new) = FlattenSeq(hunks)
    <2>1. UnifiedDiff(old, new) = IF shown = {} THEN None ELSE FlattenSeq(hunks)
      BY DEF UnifiedDiff, DiffOf
    <2> QED BY <2>1
  <1>2. PICK m \in Nat : DOMAIN edits = 1..m
    BY EditsAreMany
  <1>3. shown \in SUBSET (1..m)
    BY <1>2
  <1> HIDE DEF edits, shown
  <1>4. IsFiniteSet(starts) /\ starts \in SUBSET Nat
    <2>1. IsFiniteSet(1..m)
      BY FS_Interval
    <2>2. starts \in SUBSET shown
      OBVIOUS
    <2> HIDE DEF starts
    <2>3. starts \in SUBSET (1..m)
      BY <1>3, <2>2
    <2>4. \A i \in 1..m : i \in Nat
      OBVIOUS
    <2> QED BY <2>1, <2>3, <2>4, FS_Subset
  <1>5. firsts \in Seq(starts)
    BY <1>4, NumbersInOrder
  <1>6. ASSUME NEW i \in starts
        PROVE  Min(ends(i)) \in Int
    <2> DEFINE over == {k \in Nat : k >= i /\ k + 1 \notin shown}
    <2>1. i \in shown /\ i \in 1..m
      BY <1>3
    <2>2. m \in over
      BY <1>3, <2>1
    <2>3. PICK k \in over : \A l \in over : k <= l
      <3>1. over \in SUBSET Nat
        OBVIOUS
      <3> HIDE DEF over
      <3> QED BY <2>2, <3>1, LeastNumber
    <2>4. k \in shown
      <3>1. CASE k = i
        BY <2>1, <3>1
      <3>2. CASE k # i
        <4>1. k - 1 \in Nat /\ k - 1 >= i /\ ~ (k <= k - 1) /\ (k - 1) + 1 = k
          BY <2>1, <3>2
        <4>2. k - 1 \notin over
          BY <2>3, <4>1
        <4> QED BY <4>1, <4>2
      <3> QED BY <3>1, <3>2
    <2>5. k \in ends(i)
      BY <2>4
    <2>6. ends(i) \in SUBSET Nat
      <3>1. ends(i) \in SUBSET shown
        OBVIOUS
      <3>2. \A j \in 1..m : j \in Nat
        OBVIOUS
      <3> HIDE DEF ends
      <3> QED BY <1>3, <3>1, <3>2
    <2> HIDE DEF ends
    <2> QED BY <2>5, <2>6, MinIsOne
  <1>7. PICK n \in Nat : DOMAIN firsts = 1..n /\ \A k \in 1..n : firsts[k] \in starts
    <2> HIDE DEF firsts
    <2> QED BY <1>5
  <1>8. \A k \in 1..n : hunks[k] \in Seq(ToSet(hunks[k]))
    <2> SUFFICES ASSUME NEW k \in 1..n PROVE hunks[k] \in Seq(ToSet(hunks[k]))
      OBVIOUS
    <2>1. firsts[k] \in starts /\ firsts[k] \in Int
      BY <1>4, <1>7
    <2>2. Min(ends(firsts[k])) \in Int
      BY <1>6, <2>1
    <2>3. hunks[k] = HunkOf(edits, firsts[k], Min(ends(firsts[k])))
      BY <1>7
    <2> HIDE DEF firsts, ends, hunks
    <2> QED BY <2>1, <2>2, <2>3, HunkIsList
  <1>9. DOMAIN hunks = 1..n /\ hunks = [k \in 1..n |-> hunks[k]]
    BY <1>7
  <1> DEFINE S == UNION {ToSet(hunks[k]) : k \in 1..n}
  <1> HIDE DEF hunks, firsts
  <1>10. \A k \in 1..n : hunks[k] \in Seq(S)
    <2> SUFFICES ASSUME NEW k \in 1..n PROVE hunks[k] \in Seq(S)
      OBVIOUS
    <2>1. ToSet(hunks[k]) \in SUBSET S
      OBVIOUS
    <2> HIDE DEF S
    <2> QED BY <1>8, <2>1
  <1> HIDE DEF S
  <1>11. hunks \in Seq(Seq(S))
    <2>1. hunks \in [1..n -> Seq(S)]
      BY <1>9, <1>10
    <2>2. \A T : \A t : t \in [1..n -> T] => t \in Seq(T)
      OBVIOUS
    <2> QED BY <2>1, <2>2, Zenon
  <1> QED BY <1>1, <1>11, FlattenLists

-----------------------------------------------------------------------------
(* The value of a file.                                                    *)

\* The largest of some numbers is one of them.
LEMMA LargestIsOne ==
    ASSUME NEW n \in Nat, NEW S \in SUBSET (0..n), S # {}
    PROVE  Largest(S) \in S
  <1> DEFINE spaces == {n - x : x \in S}
  <1>1. spaces \in SUBSET Nat /\ spaces # {}
    <2>1. \A x \in S : x \in 0..n
      OBVIOUS
    <2>2. \A x \in S : n - x \in Nat
      BY <2>1
    <2> QED BY <2>2
  <1>2. PICK k \in spaces : \A l \in spaces : k <= l
    <2> HIDE DEF spaces
    <2> QED BY <1>1, LeastNumber
  <1>3. PICK x \in S : k = n - x
    OBVIOUS
  <1>4. \A y \in S : n - x <= n - y
    BY <1>2, <1>3
  <1>5. \A y \in S : y <= x
    <2>1. \A y \in S : y \in Int
      <3>1. \A y \in 0..n : y \in Int
        OBVIOUS
      <3> QED BY <3>1
    <2> QED BY <1>4, <2>1
  <1> QED BY <1>3, <1>5 DEF Largest

LEMMA BaseIsSmall == \A f : BaseScore(f) \in 0..120
  <1> SUFFICES ASSUME NEW f PROVE BaseScore(f) \in 0..120
    OBVIOUS
  <1> DEFINE named == {i \in DOMAIN BaseRoles : BaseRoles[i].role \in f.roles}
             binary == f.class \in {"Binary", "UnsupportedEncoding"}
             generated == f.class = "Generated"
  <1>1. DOMAIN BaseRoles = 1..6 /\ \A i \in 1..6 : BaseRoles[i].score \in 0..120
    BY DEF BaseRoles
  <1>2. named # {} => Min(named) \in 1..6
    <2>1. named \in SUBSET (1..6)
      BY <1>1
    <2>2. \A i \in 1..6 : i \in Nat
      OBVIOUS
    <2> HIDE DEF named
    <2> QED BY <2>1, <2>2, MinIsOne
  <1>3. BaseScore(f) = CASE binary -> 0 [] generated -> 5
                         [] named # {} -> BaseRoles[Min(named)].score [] OTHER -> 70
    BY DEF BaseScore
  <1> HIDE DEF named, binary, generated
  <1>4. ~ (binary /\ generated) => BaseScore(f) \in 0..120
    BY <1>1, <1>2, <1>3
  <1>5. BaseScore(f) \in {0, 5, BaseRoles[Min(named)].score, 70}
    BY <1>3
  <1>6. BaseScore(f) = 0 \/ BaseScore(f) = 5 \/ BaseScore(f) = 70
        \/ (named # {} /\ BaseScore(f) = BaseRoles[Min(named)].score)
    BY <1>3
  <1> QED BY <1>1, <1>2, <1>6

LEMMA ScoreIsNumber == \A f : Score(f) \in Nat /\ Tier(Score(f)) \in 1..3
  <1> SUFFICES ASSUME NEW f PROVE Score(f) \in Nat /\ Tier(Score(f)) \in 1..3
    OBVIOUS
  <1> DEFINE scores == {BaseScore(f)} \cup {Promotions[r] : r \in f.roles \cap DOMAIN Promotions}
             promoted == Largest(scores)
             deleted == IF f.kind = "Deleted" THEN promoted + 10 ELSE promoted
             other == f.class \notin {"Text", "Generated"}
             conflict_ == "conflict" \in f.added
             credential == "credential" \in f.added
  <1>1. scores \in SUBSET (0..255) /\ scores # {}
    <2>1. \A r \in DOMAIN Promotions : Promotions[r] \in 0..255
      BY DEF Promotions
    <2>2. BaseScore(f) \in 0..255
      <3>1. BaseScore(f) \in 0..120
        BY BaseIsSmall
      <3> QED BY <3>1
    <2> QED BY <2>1, <2>2
  <1>2. promoted \in 0..255
    <2> HIDE DEF scores
    <2>1. 255 \in Nat
      OBVIOUS
    <2>2. Largest(scores) \in scores
      BY <1>1, <2>1, LargestIsOne
    <2> QED BY <1>1, <2>2
  <1>3. Score(f) = CASE other -> BaseScore(f)
                     [] conflict_ -> 255
                     [] credential -> Largest({deleted, 250})
                     [] OTHER -> deleted
    BY DEF Score
  <1> HIDE DEF promoted, other, conflict_, credential
  <1>4. deleted \in 0..265
    BY <1>2
  <1> HIDE DEF deleted
  <1>5. Largest({deleted, 250}) \in 0..265
    <2>1. {deleted, 250} \in SUBSET (0..265) /\ {deleted, 250} # {} /\ 265 \in Nat
      BY <1>4
    <2>2. Largest({deleted, 250}) \in {deleted, 250}
      BY <2>1, LargestIsOne
    <2> QED BY <2>1, <2>2
  <1>6. Score(f) = BaseScore(f) \/ Score(f) = 255 \/ Score(f) = Largest({deleted, 250})
        \/ Score(f) = deleted
    BY <1>3
  <1>7. Score(f) \in Nat
    BY <1>4, <1>5, <1>6, BaseIsSmall
  <1>8. Tier(Score(f)) \in 1..3
    BY <1>7 DEF Tier
  <1> QED BY <1>7, <1>8

-----------------------------------------------------------------------------
(* Selection.                                                              *)

\* A file that is put to the partition, as the context makes it.
IsInput(f) ==
    /\ f.path \in Nat
    /\ f.objects = <<>> \/ \E r : \E n \in Nat : f.objects = <<[role |-> r, size |-> n]>>
    /\ f.anchors \in Seq(ToSet(f.anchors))

\* The files that are put to it: of distinct paths, with anchors of their own.
Inputs(files) ==
    /\ IsFiniteSet(files)
    /\ \A f \in files : IsInput(f)
    /\ \A f, g \in files : f.path = g.path => f = g

LEMMA SizeIsNumber ==
    ASSUME NEW f, IsInput(f), NEW policy, SelectionReason(f, policy) = None
    PROVE  TotalBytes(f.objects) \in Nat /\ "secret" \notin f.roles
  <1> DEFINE total == TotalBytes(f.objects)
             secret == "secret" \in f.roles
             not_included == /\ policy.included # {}
                             /\ \A form \in {"exact", "prefix", "suffix"} : ~Matching(policy.included, form, f)
             exact == Matching(policy.excluded, "exact", f)
             prefix == Matching(policy.excluded, "prefix", f)
             suffix == Matching(policy.excluded, "suffix", f)
             basename == Matching(policy.excluded, "basename", f)
             generated == f.class = "Generated" /\ ~policy.generated
             unsupported == f.class \in {"Binary", "UnsupportedEncoding"}
             empty == f.objects = <<>>
             missing == "ExactDiff" \notin Roles(f.objects)
             overflow == TotalBytes(f.objects) = None
             large == TotalBytes(f.objects) > policy.max_file
  <1>1. /\ \A s \in {"ExactPathPolicy", "NotIncludedPolicy", "PrefixPolicy", "SuffixPolicy",
                    "GeneratedPolicy", "EmptyObjectSet", "MissingExactDiff", "InputByteOverflow",
                    "FileTooLarge"} : s # None
        /\ None # "Binary" /\ None # "UnsupportedEncoding"
    BY PartitionAssumption DEF Reasons
  <1>2. SelectionReason(f, policy) =
          CASE secret -> "ExactPathPolicy" [] not_included -> "NotIncludedPolicy"
            [] exact -> "ExactPathPolicy" [] prefix -> "PrefixPolicy" [] suffix -> "SuffixPolicy"
            [] basename -> "PrefixPolicy" [] generated -> "GeneratedPolicy"
            [] unsupported -> f.class [] empty -> "EmptyObjectSet" [] missing -> "MissingExactDiff"
            [] overflow -> "InputByteOverflow" [] large -> "FileTooLarge" [] OTHER -> None
    BY DEF SelectionReason
  <1>3. unsupported => f.class # None
    BY <1>1
  <1> HIDE DEF secret, not_included, exact, prefix, suffix, basename, generated, unsupported, empty,
               missing, overflow, large
  <1>5. ~ secret /\ ~ overflow
    BY <1>1, <1>2, <1>3
  <1>6. total # None
    BY <1>5 DEF overflow
  <1>7. total \in Nat
    <2> DEFINE sizes == [i \in DOMAIN f.objects |-> f.objects[i].size]
    <2>1. total = SumFunction(sizes)
      BY <1>6 DEF TotalBytes
    <2>2. CASE f.objects = <<>>
      <3>1. DOMAIN sizes = {}
        BY <2>2
      <3> HIDE DEF sizes
      <3> QED BY <2>1, <3>1, SumOfNone
    <2>3. CASE f.objects # <<>>
      <3>1. PICK r : \E n \in Nat : f.objects = <<[role |-> r, size |-> n]>>
        BY <2>3 DEF IsInput
      <3>2. DOMAIN sizes = {1} /\ sizes[1] \in Nat
        <4>1. PICK n \in Nat : f.objects = <<[role |-> r, size |-> n]>>
          BY <3>1
        <4>2. DOMAIN f.objects = {1} /\ f.objects[1].size = n
          BY <4>1
        <4> QED BY <4>2
      <3> HIDE DEF sizes
      <3> QED BY <2>1, <3>2, SumOfOne
    <2> QED BY <2>2, <2>3
  <1> QED BY <1>5, <1>7 DEF secret

\* The files of done are included or omitted, those of kept are included.
PreparedAs(s, policy, done, kept) ==
    /\ DOMAIN s = {"included", "omitted", "anchors"}
    /\ s.included = {UnitFile(f) : f \in kept}
    /\ \A f \in kept : SelectionReason(f, policy) = None
    /\ s.anchors = UNION {ToSet(f.anchors) : f \in kept}
    /\ \A f, g \in kept : f # g => ToSet(f.anchors) \cap ToSet(g.anchors) = {}
    /\ IsFiniteSet(s.omitted)
    /\ {o.path : o \in s.omitted} = {f.path : f \in done \ kept}
    /\ \A o, p \in s.omitted : o.path = p.path => o = p

\* What holds of the files prepared so far.
PrepareInv(s, policy, done) == \E kept \in SUBSET done : PreparedAs(s, policy, done, kept)

LEMMA PrepareStarts ==
    ASSUME NEW policy
    PROVE  PrepareInv([included |-> {}, omitted |-> {}, anchors |-> {}], policy, {})
  <1> DEFINE s == [included |-> {}, omitted |-> {}, anchors |-> {}]
  <1>1. PreparedAs(s, policy, {}, {})
    BY FS_EmptySet DEF PreparedAs
  <1> HIDE DEF s
  <1>2. PrepareInv(s, policy, {})
    BY <1>1 DEF PrepareInv
  <1> QED BY <1>2 DEF s

LEMMA PrepareStep ==
    ASSUME NEW s, NEW policy, NEW done, PrepareInv(s, policy, done),
           NEW f, f \notin done, \A g \in done : g.path # f.path
    PROVE  PrepareInv(PrepareFile(s, f, policy), policy, done \cup {f})
  <1>1. PICK kept \in SUBSET done : PreparedAs(s, policy, done, kept)
    BY DEF PrepareInv
  <1> DEFINE reason == PreparationReason(f, policy, s.anchors)
             o == Omitted(f.path, reason)
             t == PrepareFile(s, f, policy)
  <1>2. CASE reason # None
    <2>1. /\ DOMAIN t = DOMAIN s /\ t.included = s.included /\ t.anchors = s.anchors
          /\ t.omitted = s.omitted \cup {o}
      BY <1>1, <1>2 DEF PrepareFile, PreparedAs
    <2>2. o.path = f.path
      BY DEF Omitted
    <2> HIDE DEF t, o, reason
    <2>3. {p.path : p \in t.omitted} = {g.path : g \in done \ kept} \cup {f.path}
      BY <1>1, <2>1, <2>2 DEF PreparedAs
    <2>4. (done \cup {f}) \ kept = (done \ kept) \cup {f}
      OBVIOUS
    <2>5. {g.path : g \in (done \cup {f}) \ kept} = {g.path : g \in done \ kept} \cup {f.path}
      BY <2>4
    <2>6. \A p \in s.omitted : p.path # o.path
      <3>1. f.path \notin {g.path : g \in done \ kept}
        OBVIOUS
      <3>2. f.path \notin {p.path : p \in s.omitted}
        BY <1>1, <3>1 DEF PreparedAs
      <3> QED BY <2>2, <3>2
    <2>7. IsFiniteSet(t.omitted)
      BY <1>1, <2>1, FS_AddElement DEF PreparedAs
    <2>8. \A p, q \in t.omitted : p.path = q.path => p = q
      BY <1>1, <2>1, <2>6 DEF PreparedAs
    <2>9. PreparedAs(t, policy, done \cup {f}, kept)
      BY <1>1, <2>1, <2>3, <2>5, <2>7, <2>8 DEF PreparedAs
    <2> QED BY <2>9 DEF PrepareInv, t
  <1>3. CASE reason = None
    <2>1. /\ DOMAIN t = DOMAIN s /\ t.included = s.included \cup {UnitFile(f)}
          /\ t.anchors = s.anchors \cup ToSet(f.anchors) /\ t.omitted = s.omitted
      BY <1>1, <1>3 DEF PrepareFile, PreparedAs
    <2>2. SelectionReason(f, policy) = None /\ ToSet(f.anchors) \cap s.anchors = {}
      <3> DEFINE why == SelectionReason(f, policy)
                 twice == Cardinality(Roles(f.objects)) # Len(f.objects)
                 shared == ~IsInjective(f.anchors) \/ ToSet(f.anchors) \cap s.anchors # {}
      <3>1. reason = CASE why # None -> why [] twice -> "DuplicateObjectRole"
                       [] shared -> "DuplicateAnchor" [] OTHER -> None
        BY DEF PreparationReason
      <3>2. None # "DuplicateObjectRole" /\ None # "DuplicateAnchor"
        BY PartitionAssumption DEF Reasons
      <3> HIDE DEF why, twice, shared, reason
      <3>3. why = None /\ ~ shared
        BY <1>3, <3>1, <3>2
      <3> QED BY <3>3 DEF why, shared
    <2> HIDE DEF t, reason
    <2> DEFINE more == kept \cup {f}
    <2>3. t.included = {UnitFile(g) : g \in more}
      BY <1>1, <2>1 DEF PreparedAs
    <2>4. t.anchors = UNION {ToSet(g.anchors) : g \in more}
      BY <1>1, <2>1 DEF PreparedAs
    <2>5. \A g \in kept : ToSet(f.anchors) \cap ToSet(g.anchors) = {}
      BY <1>1, <2>2 DEF PreparedAs
    <2>6. \A g, h \in more : g # h => ToSet(g.anchors) \cap ToSet(h.anchors) = {}
      BY <1>1, <2>5 DEF PreparedAs
    <2>7. (done \cup {f}) \ more = done \ kept
      OBVIOUS
    <2>8. \A g \in more : SelectionReason(g, policy) = None
      BY <1>1, <2>2 DEF PreparedAs
    <2>9. more \in SUBSET (done \cup {f})
      OBVIOUS
    <2> HIDE DEF more
    <2>10. PreparedAs(t, policy, done \cup {f}, more)
      BY <1>1, <2>1, <2>3, <2>4, <2>6, <2>7, <2>8 DEF PreparedAs
    <2> QED BY <2>9, <2>10 DEF PrepareInv, t
  <1> QED BY <1>2, <1>3

LEMMA PathOrder ==
    ASSUME NEW files, IsFiniteSet(files), \A f \in files : f.path \in Nat,
           \A f, g \in files : f.path = g.path => f = g
    PROVE  /\ ByPath(files) \in Seq(files) /\ ToSet(ByPath(files)) = files
           /\ IsInjective(ByPath(files))
  <1> DEFINE R == {p \in files \X files : p[1].path < p[2].path}
             s == ByPath(files)
             below(x) == {y \in files : y.path < x.path}
  <1>1. StrictOrder(files, R)
    BY DEF StrictOrder
  <1>2. \A x \in files : below(x) = Above(files, R, x)
    BY DEF Above
  <1>3. DOMAIN s = 1..Cardinality(files) /\ s = [i \in 1..Cardinality(files) |-> s[i]]
    <2> DEFINE at(i) == CHOOSE x \in files : Cardinality(below(x)) = i - 1
    <2>1. s = [i \in 1..Cardinality(files) |-> at(i)]
      BY DEF ByPath, InOrder
    <2> HIDE DEF at, s
    <2> QED BY <2>1
  <1>4. ASSUME NEW i \in 1..Cardinality(files), \E x \in files : Cardinality(Above(files, R, x)) = i - 1
        PROVE  s[i] \in files /\ Cardinality(Above(files, R, s[i])) = i - 1
    <2>1. s[i] = CHOOSE x \in files : Cardinality(below(x)) = i - 1
      BY DEF ByPath, InOrder
    <2> HIDE DEF below, R, s
    <2>2. \E x \in files : Cardinality(below(x)) = i - 1
      BY <1>2, <1>4
    <2>3. s[i] \in files /\ Cardinality(below(s[i])) = i - 1
      BY <2>1, <2>2
    <2> QED BY <1>2, <2>3
  <1> HIDE DEF s, R
  <1>5. RankedBy(s, files, R)
    BY <1>3, <1>4 DEF RankedBy
  <1> QED BY <1>1, <1>5, RankLists DEF s

\* At the end that holds of all of them.
LEMMA Prepared ==
    ASSUME NEW files, Inputs(files), NEW policy
    PROVE  PrepareInv(Prepare(files, policy), policy, files)
  <1> DEFINE order == ByPath(files)
             n == Len(order)
             done(i) == {order[j] : j \in 1..i}
  <1>1. order \in Seq(files) /\ ToSet(order) = files /\ IsInjective(order)
    BY PathOrder DEF Inputs, IsInput
  <1>2. n \in Nat /\ DOMAIN order = 1..n
    BY <1>1
  <1>3. PICK c : /\ c[0] = [included |-> {}, omitted |-> {}, anchors |-> {}]
                 /\ Prepare(files, policy) = c[n]
                 /\ \A i \in 1..n : c[i] = PrepareFile(c[i - 1], order[i], policy)
    <2> HIDE DEF n
    <2>1. RunsTo(Prepare(files, policy), "prepare", policy,
                 [included |-> {}, omitted |-> {}, anchors |-> {}], order, n)
      BY <1>2, PrepareRuns
    <2> HIDE DEF order
    <2> QED BY <2>1 DEF RunsTo, Turn
  <1> HIDE DEF order, n
  <1> DEFINE Bad == {i \in 0..n : ~ PrepareInv(c[i], policy, done(i))}
  <1>4. ASSUME Bad # {} PROVE FALSE
    <2>1. PICK k \in Bad : \A l \in Bad : k <= l
      <3>1. Bad \in SUBSET Nat
        OBVIOUS
      <3> HIDE DEF Bad
      <3> QED BY <1>4, <3>1, LeastNumber
    <2>2. k \in 0..n /\ ~ PrepareInv(c[k], policy, done(k))
      OBVIOUS
    <2>3. k # 0
      <3>1. done(0) = {}
        OBVIOUS
      <3> HIDE DEF done
      <3>2. PrepareInv(c[0], policy, done(0))
        BY <1>3, <3>1, PrepareStarts
      <3> QED BY <2>2, <3>2
    <2>4. k \in 1..n /\ k - 1 \in 0..n /\ ~ (k <= k - 1)
      BY <1>2, <2>2, <2>3
    <2>5. PrepareInv(c[k - 1], policy, done(k - 1))
      BY <2>1, <2>4
    <2>6. done(k) = done(k - 1) \cup {order[k]}
      <3>1. \A j \in 1..k : j = k \/ j \in 1..(k - 1)
        BY <2>4
      <3>2. k \in 1..k /\ \A j \in 1..(k - 1) : j \in 1..k
        BY <2>4
      <3> QED BY <3>1, <3>2
    <2>7. \A g \in done(k - 1) : g # order[k] /\ g \in files
      <3>1. \A j \in 1..(k - 1) : j \in 1..n /\ j # k
        BY <1>2, <2>4
      <3>2. \A j \in 1..(k - 1) : order[j] # order[k] /\ order[j] \in files
        BY <1>1, <1>2, <2>4, <3>1 DEF IsInjective
      <3> QED BY <3>2
    <2>8. order[k] \in files
      BY <1>1, <1>2, <2>4
    <2>9. \A g \in done(k - 1) : g.path # order[k].path
      BY <2>7, <2>8 DEF Inputs
    <2> HIDE DEF done
    <2>10. order[k] \notin done(k - 1)
      BY <2>7
    <2>11. PrepareInv(PrepareFile(c[k - 1], order[k], policy), policy, done(k - 1) \cup {order[k]})
      BY <2>5, <2>9, <2>10, PrepareStep
    <2> QED BY <1>3, <2>2, <2>4, <2>6, <2>11
  <1>5. PrepareInv(c[n], policy, done(n))
    <2>1. n \in 0..n
      BY <1>2
    <2> QED BY <1>4, <2>1
  <1>6. done(n) = files
    BY <1>1, <1>2 DEF ToSet
  <1> HIDE DEF done
  <1> QED BY <1>3, <1>5, <1>6

-----------------------------------------------------------------------------
(* What is packed, and what it measures.                                   *)

\* Files that can be packed: no two of a path, none with the anchor of another.
Packable(G) ==
    /\ IsFiniteSet(G)
    /\ \A f \in G : /\ f.path \in Nat /\ f.score \in Nat /\ f.tier \in 1..3 /\ f.bytes \in Nat
                    /\ IsFiniteSet(f.anchors)
    /\ \A f, g \in G : f.path = g.path => f = g
    /\ \A f, g \in G : f # g => f.anchors \cap g.anchors = {}

LEMMA ValueOrder ==
    ASSUME NEW G, Packable(G)
    PROVE  ByValue(G) \in Seq(G) /\ ToSet(ByValue(G)) = G /\ IsInjective(ByValue(G))
  <1> DEFINE R == {p \in G \X G : Before(p[1], p[2])}
             s == ByValue(G)
             below(x) == {y \in G : Before(y, x)}
  <1>1. StrictOrder(G, R)
    <2>1. \A x \in G : x.path \in Int /\ x.score \in Int /\ x.tier \in Int /\ x.bytes \in Int
      BY DEF Packable
    <2>2. \A x \in G : ~ Before(x, x)
      BY <2>1 DEF Before
    <2>3. \A x, y, z \in G : Before(x, y) /\ Before(y, z) => Before(x, z)
      BY <2>1 DEF Before
    <2>4. \A x, y \in G : x # y => Before(x, y) \/ Before(y, x)
      <3>1. \A x, y \in G : x # y => x.path # y.path
        BY DEF Packable
      <3> QED BY <2>1, <3>1 DEF Before
    <2>5. \A x, y \in G : <<x, y>> \in R <=> Before(x, y)
      OBVIOUS
    <2> HIDE DEF R
    <2> QED BY <2>2, <2>3, <2>4, <2>5, Zenon DEF StrictOrder
  <1>2. \A x \in G : below(x) = Above(G, R, x)
    BY DEF Above
  <1>3. DOMAIN s = 1..Cardinality(G) /\ s = [i \in 1..Cardinality(G) |-> s[i]]
    <2> DEFINE at(i) == CHOOSE x \in G : Cardinality(below(x)) = i - 1
    <2>1. s = [i \in 1..Cardinality(G) |-> at(i)]
      BY DEF ByValue, InOrder
    <2> HIDE DEF at, s
    <2> QED BY <2>1
  <1>4. ASSUME NEW i \in 1..Cardinality(G), \E x \in G : Cardinality(Above(G, R, x)) = i - 1
        PROVE  s[i] \in G /\ Cardinality(Above(G, R, s[i])) = i - 1
    <2>1. s[i] = CHOOSE x \in G : Cardinality(below(x)) = i - 1
      BY DEF ByValue, InOrder
    <2> HIDE DEF below, R, s
    <2>2. \E x \in G : Cardinality(below(x)) = i - 1
      BY <1>2, <1>4
    <2>3. s[i] \in G /\ Cardinality(below(s[i])) = i - 1
      BY <2>1, <2>2
    <2> QED BY <1>2, <2>3
  <1> HIDE DEF s, R
  <1>5. RankedBy(s, G, R)
    BY <1>3, <1>4 DEF RankedBy
  <1>6. IsFiniteSet(G)
    BY DEF Packable
  <1> QED BY <1>1, <1>5, <1>6, RankLists DEF s

\* What a unit and a plan measure.
BytesIn(G) == [X \in SUBSET G |-> BytesOf(X)]
LowIn(G) == [X \in SUBSET G |-> LowSignal(X)]
AnchorsIn(G) == [X \in SUBSET G |-> AnchorsOf(X)]
FilesIn(G) == [X \in SUBSET G |-> Cardinality(X)]

LEMMA BytesAdd == ASSUME NEW G, Packable(G) PROVE Additive(BytesIn(G), G)
  <1> DEFINE w == [f \in G |-> f.bytes]
  <1>1. \A X \in SUBSET G : IsFiniteSet(X)
    BY FS_Subset DEF Packable
  <1>2. \A f \in G : w[f] \in Nat
    BY DEF Packable
  <1>3. \A X \in SUBSET G : BytesOf(X) = Weigh(w, X)
    <2> SUFFICES ASSUME NEW X \in SUBSET G PROVE BytesOf(X) = Weigh(w, X)
      OBVIOUS
    <2>1. [f \in X |-> f.bytes] = [f \in X |-> w[f]]
      OBVIOUS
    <2> HIDE DEF w
    <2> QED BY <2>1 DEF BytesOf, Weigh
  <1> HIDE DEF w
  <1>4. \A X, Y \in SUBSET G : X \cap Y = {} =>
            /\ Weigh(w, X) \in Nat /\ Weigh(w, X \cup Y) = Weigh(w, X) + Weigh(w, Y)
    BY <1>1, <1>2, WeightsAdd
  <1>5. \A X \in SUBSET G : Weigh(w, X) \in Nat
    <2> SUFFICES ASSUME NEW X \in SUBSET G PROVE Weigh(w, X) \in Nat
      OBVIOUS
    <2>1. {} \in SUBSET G /\ X \cap {} = {}
      OBVIOUS
    <2> QED BY <1>4, <2>1
  <1>6. Weigh(w, {}) = 0
    <2>1. Weigh(w, {} \cup {}) = Weigh(w, {}) + Weigh(w, {}) /\ {} \in SUBSET G
      BY <1>4
    <2>2. {} \cup {} = {}
      OBVIOUS
    <2>3. Weigh(w, {} \cup {}) = Weigh(w, {})
      BY <2>2
    <2> QED BY <1>5, <2>1, <2>3
  <1>7. \A X, Y \in SUBSET G : X \cup Y \in SUBSET G
    OBVIOUS
  <1>8. {} \in SUBSET G
    OBVIOUS
  <1> DEFINE m == BytesIn(G)
  <1>9. \A X \in SUBSET G : m[X] = Weigh(w, X)
    BY <1>3 DEF BytesIn
  <1> HIDE DEF m
  <1>10. Additive(m, G)
    BY <1>4, <1>5, <1>6, <1>7, <1>8, <1>9 DEF Additive
  <1> QED BY <1>10 DEF m

LEMMA AnchorsAdd == ASSUME NEW G, Packable(G) PROVE Additive(AnchorsIn(G), G)
  <1> DEFINE w == [f \in G |-> Cardinality(f.anchors)]
  <1>1. \A X \in SUBSET G : IsFiniteSet(X)
    BY FS_Subset DEF Packable
  <1>2. \A f \in G : w[f] \in Nat
    BY FS_CardinalityType DEF Packable
  <1>3. \A X \in SUBSET G : AnchorsOf(X) = Weigh(w, X)
    <2> SUFFICES ASSUME NEW X \in SUBSET G PROVE AnchorsOf(X) = Weigh(w, X)
      OBVIOUS
    <2>1. [f \in X |-> Cardinality(f.anchors)] = [f \in X |-> w[f]]
      OBVIOUS
    <2> HIDE DEF w
    <2> QED BY <2>1 DEF AnchorsOf, Weigh
  <1> HIDE DEF w
  <1>4. \A X, Y \in SUBSET G : X \cap Y = {} =>
            /\ Weigh(w, X) \in Nat /\ Weigh(w, X \cup Y) = Weigh(w, X) + Weigh(w, Y)
    BY <1>1, <1>2, WeightsAdd
  <1>5. \A X \in SUBSET G : Weigh(w, X) \in Nat
    <2> SUFFICES ASSUME NEW X \in SUBSET G PROVE Weigh(w, X) \in Nat
      OBVIOUS
    <2>1. {} \in SUBSET G /\ X \cap {} = {}
      OBVIOUS
    <2> QED BY <1>4, <2>1
  <1>6. Weigh(w, {}) = 0
    <2>1. Weigh(w, {} \cup {}) = Weigh(w, {}) + Weigh(w, {}) /\ {} \in SUBSET G
      BY <1>4
    <2>2. {} \cup {} = {}
      OBVIOUS
    <2>3. Weigh(w, {} \cup {}) = Weigh(w, {})
      BY <2>2
    <2> QED BY <1>5, <2>1, <2>3
  <1>7. \A X, Y \in SUBSET G : X \cup Y \in SUBSET G
    OBVIOUS
  <1>8. {} \in SUBSET G
    OBVIOUS
  <1> DEFINE m == AnchorsIn(G)
  <1>9. \A X \in SUBSET G : m[X] = Weigh(w, X)
    BY <1>3 DEF AnchorsIn
  <1> HIDE DEF m
  <1>10. Additive(m, G)
    BY <1>4, <1>5, <1>6, <1>7, <1>8, <1>9 DEF Additive
  <1> QED BY <1>10 DEF m

LEMMA LowAdds == ASSUME NEW G, Packable(G) PROVE Additive(LowIn(G), G)
  <1> DEFINE m == LowIn(G)
             b == BytesIn(G)
             low(X) == {f \in X : f.tier = Low}
  <1>1. Additive(b, G)
    BY BytesAdd
  <1>2. \A X \in SUBSET G : m[X] = b[low(X)] /\ low(X) \in SUBSET G
    BY DEF LowIn, BytesIn, LowSignal
  <1>3. low({}) = {}
    OBVIOUS
  <1>4. \A X, Y \in SUBSET G : /\ X \cup Y \in SUBSET G
                               /\ low(X \cup Y) = low(X) \cup low(Y)
                               /\ X \cap Y = {} => low(X) \cap low(Y) = {}
    OBVIOUS
  <1> HIDE DEF m, b, low
  <1>5. m[{}] = 0
    BY <1>1, <1>2, <1>3 DEF Additive
  <1>6. \A X \in SUBSET G : m[X] \in Nat
    BY <1>1, <1>2 DEF Additive
  <1>7. ASSUME NEW X \in SUBSET G, NEW Y \in SUBSET G, X \cap Y = {}
        PROVE  m[X \cup Y] = m[X] + m[Y]
    <2>1. b[low(X) \cup low(Y)] = b[low(X)] + b[low(Y)]
      BY <1>1, <1>2, <1>4, <1>7 DEF Additive
    <2>2. m[X \cup Y] = b[low(X) \cup low(Y)]
      BY <1>2, <1>4
    <2> QED BY <1>2, <2>1, <2>2
  <1>8. Additive(m, G)
    BY <1>5, <1>6, <1>7 DEF Additive
  <1> QED BY <1>8 DEF m

LEMMA FilesAdd == ASSUME NEW G, Packable(G) PROVE Additive(FilesIn(G), G)
  <1> DEFINE m == FilesIn(G)
  <1>1. \A X \in SUBSET G : IsFiniteSet(X) /\ m[X] = Cardinality(X) /\ m[X] \in Nat
    BY FS_Subset, FS_CardinalityType DEF Packable, FilesIn
  <1>2. m[{}] = 0
    BY <1>1, FS_EmptySet
  <1>3. \A X, Y \in SUBSET G : X \cup Y \in SUBSET G
    OBVIOUS
  <1> HIDE DEF m
  <1>4. ASSUME NEW X \in SUBSET G, NEW Y \in SUBSET G, X \cap Y = {}
        PROVE  m[X \cup Y] = m[X] + m[Y]
    <2>1. Cardinality(X \cup Y) = Cardinality(X) + Cardinality(Y) - Cardinality(X \cap Y)
      BY <1>1, FS_Union
    <2>2. Cardinality(X \cap Y) = 0
      BY <1>4, FS_EmptySet
    <2> QED BY <1>1, <1>3, <2>1, <2>2
  <1>5. Additive(m, G)
    BY <1>1, <1>2, <1>4 DEF Additive
  <1> QED BY <1>5 DEF m

\* What one more file adds.
Grows(X, f) ==
    /\ BytesOf(X) \in Nat /\ BytesOf(X \cup {f}) = BytesOf(X) + f.bytes
    /\ AnchorsOf(X) \in Nat /\ AnchorsOf(X \cup {f}) = AnchorsOf(X) + Cardinality(f.anchors)
    /\ Cardinality(X) \in Nat /\ Cardinality(X \cup {f}) = Cardinality(X) + 1
    /\ LowSignal(X) \in Nat
    /\ LowSignal(X \cup {f}) = LowSignal(X) + (IF f.tier = Low THEN f.bytes ELSE 0)

\* A file more adds what it measures.
LEMMA OneMoreFile ==
    ASSUME NEW G, Packable(G), NEW X \in SUBSET G, NEW f \in G, f \notin X
    PROVE  Grows(X, f)
  <1>0. /\ X \cup {f} \in SUBSET G /\ {f} \in SUBSET G /\ X \cap {f} = {} /\ {} \in SUBSET G
        /\ f.bytes \in Nat /\ Cardinality(f.anchors) \in Nat
    BY FS_CardinalityType DEF Packable
  <1>1. \A m : Additive(m, G) => m[X] \in Nat /\ m[X \cup {f}] = m[X] + m[{f}] /\ m[{}] = 0
    BY <1>0 DEF Additive
  <1>2. BytesOf(X) \in Nat /\ BytesOf(X \cup {f}) = BytesOf(X) + BytesOf({f}) /\ BytesOf({}) = 0
    <2> DEFINE m == BytesIn(G)
    <2>1. \A Z \in SUBSET G : m[Z] = BytesOf(Z)
      BY DEF BytesIn
    <2>2. Additive(m, G)
      BY BytesAdd
    <2> HIDE DEF m
    <2>3. m[X] \in Nat /\ m[X \cup {f}] = m[X] + m[{f}] /\ m[{}] = 0
      BY <1>1, <2>2
    <2> QED BY <1>0, <2>1, <2>3
  <1>3. BytesOf({f}) = f.bytes
    <2> DEFINE h == [g \in {f} |-> g.bytes]
    <2>1. DOMAIN h = {f} /\ h[f] = f.bytes /\ BytesOf({f}) = SumFunction(h)
      BY DEF BytesOf
    <2> HIDE DEF h
    <2> QED BY <1>0, <2>1, SumOfOne
  <1>4. AnchorsOf(X) \in Nat /\ AnchorsOf(X \cup {f}) = AnchorsOf(X) + AnchorsOf({f})
    <2> DEFINE m == AnchorsIn(G)
    <2>1. \A Z \in SUBSET G : m[Z] = AnchorsOf(Z)
      BY DEF AnchorsIn
    <2>2. Additive(m, G)
      BY AnchorsAdd
    <2> HIDE DEF m
    <2>3. m[X] \in Nat /\ m[X \cup {f}] = m[X] + m[{f}] /\ m[{}] = 0
      BY <1>1, <2>2
    <2> QED BY <1>0, <2>1, <2>3
  <1>5. AnchorsOf({f}) = Cardinality(f.anchors)
    <2> DEFINE h == [g \in {f} |-> Cardinality(g.anchors)]
    <2>1. DOMAIN h = {f} /\ h[f] = Cardinality(f.anchors) /\ AnchorsOf({f}) = SumFunction(h)
      BY DEF AnchorsOf
    <2> HIDE DEF h
    <2> QED BY <1>0, <2>1, SumOfOne
  <1>6. Cardinality(X) \in Nat /\ Cardinality(X \cup {f}) = Cardinality(X) + 1
    <2>1. IsFiniteSet(X)
      BY FS_Subset DEF Packable
    <2> QED BY <2>1, FS_CardinalityType, FS_AddElement
  <1>7. LowSignal(X) \in Nat /\ LowSignal(X \cup {f}) = LowSignal(X) + LowSignal({f})
    <2> DEFINE m == LowIn(G)
    <2>1. \A Z \in SUBSET G : m[Z] = LowSignal(Z)
      BY DEF LowIn
    <2>2. Additive(m, G)
      BY LowAdds
    <2> HIDE DEF m
    <2>3. m[X] \in Nat /\ m[X \cup {f}] = m[X] + m[{f}] /\ m[{}] = 0
      BY <1>1, <2>2
    <2> QED BY <1>0, <2>1, <2>3
  <1>8. LowSignal({f}) = IF f.tier = Low THEN f.bytes ELSE 0
    <2>1. CASE f.tier = Low
      <3>1. {g \in {f} : g.tier = Low} = {f}
        BY <2>1
      <3> QED BY <1>3, <2>1, <3>1 DEF LowSignal
    <2>2. CASE f.tier # Low
      <3>1. {g \in {f} : g.tier = Low} = {}
        BY <2>2
      <3> QED BY <1>2, <2>2, <3>1 DEF LowSignal
    <2> QED BY <2>1, <2>2
  <1> QED BY <1>2, <1>3, <1>4, <1>5, <1>6, <1>7, <1>8 DEF Grows

-----------------------------------------------------------------------------
(* Packing.                                                                *)

\* Limits that a configuration may have.
Limits(l) ==
    /\ {l.files, l.bytes, l.units, l.unit_files, l.unit_bytes, l.unit_anchors} \subseteq Nat
    /\ l.unit_files >= 1

\* The files of done have a place or a reason, those of placed have a place.
PackedAs(s, l, gone, done, placed) ==
    /\ DOMAIN s = {"units", "omitted", "files", "bytes", "low"}
    /\ s.units \in Seq(SUBSET done)
    /\ placed = UNION ToSet(s.units)
    /\ \A i \in DOMAIN s.units :
        /\ s.units[i] # {}
        /\ Cardinality(s.units[i]) <= l.unit_files
        /\ BytesOf(s.units[i]) <= l.unit_bytes
        /\ AnchorsOf(s.units[i]) <= l.unit_anchors
    /\ \A i, j \in DOMAIN s.units : i # j => s.units[i] \cap s.units[j] = {}
    /\ Len(s.units) <= l.units
    /\ s.files = Cardinality(placed) /\ s.files <= l.files
    /\ s.bytes = BytesOf(placed) /\ s.bytes <= l.bytes
    /\ s.low = LowSignal(placed) /\ s.low <= LowSignalLimit(l)
    /\ IsFiniteSet(s.omitted)
    /\ {o.path : o \in s.omitted} = gone \cup {f.path : f \in done \ placed}
    /\ \A o, p \in s.omitted : o.path = p.path => o = p

\* What holds of the files packed so far.
PackInv(s, l, gone, done) == \E placed \in SUBSET done : PackedAs(s, l, gone, done, placed)

LEMMA PackStarts ==
    ASSUME NEW l, Limits(l), NEW omitted, IsFiniteSet(omitted),
           \A o, p \in omitted : o.path = p.path => o = p
    PROVE  PackInv([units |-> <<>>, omitted |-> omitted, files |-> 0, bytes |-> 0, low |-> 0],
                   l, {o.path : o \in omitted}, {})
  <1> DEFINE s == [units |-> <<>>, omitted |-> omitted, files |-> 0, bytes |-> 0, low |-> 0]
             gone == {o.path : o \in omitted}
  <1>1. Packable({})
    BY FS_EmptySet DEF Packable
  <1>2. BytesOf({}) = 0 /\ LowSignal({}) = 0
    <2>1. Additive(BytesIn({}), {}) /\ Additive(LowIn({}), {})
      BY <1>1, BytesAdd, LowAdds
    <2>2. BytesIn({})[{}] = 0 /\ LowIn({})[{}] = 0
      BY <2>1 DEF Additive
    <2> QED BY <2>2 DEF BytesIn, LowIn
  <1>3. LowSignalLimit(l) \in Nat
    <2>1. l.bytes \in Nat /\ LowSignalDivisor \in Nat \ {0} /\ MaxLowSignal \in Nat
      BY PartitionAssumption DEF Limits
    <2>2. l.bytes \div LowSignalDivisor \in Nat
      BY <2>1
    <2> QED BY <2>1, <2>2 DEF LowSignalLimit
  <1>4. UNION ToSet(s.units) = {} /\ Len(s.units) = 0 /\ DOMAIN s.units = {} /\ s.units \in Seq(SUBSET {})
    BY DEF ToSet
  <1>5. /\ DOMAIN s = {"units", "omitted", "files", "bytes", "low"}
        /\ s.omitted = omitted /\ s.files = 0 /\ s.bytes = 0 /\ s.low = 0
    OBVIOUS
  <1> HIDE DEF s
  <1>6. gone = gone \cup {f.path : f \in {} \ {}}
    OBVIOUS
  <1>7. {o.path : o \in s.omitted} = gone
    BY <1>5
  <1>8. /\ 0 <= l.units /\ 0 <= l.files /\ 0 <= l.bytes /\ 0 <= LowSignalLimit(l)
        /\ Cardinality({}) = 0
    BY <1>3, FS_EmptySet DEF Limits
  <1> HIDE DEF gone
  <1>9. PackedAs(s, l, gone, {}, {})
    BY <1>2, <1>4, <1>5, <1>6, <1>7, <1>8 DEF PackedAs
  <1> QED BY <1>9 DEF PackInv, s, gone

\* A file is omitted for a reason.
LEMMA OmitKeeps ==
    ASSUME NEW l, NEW gone, NEW done, NEW s, PackInv(s, l, gone, done),
           NEW f, f \notin done, \A g \in done : g.path # f.path, f.path \notin gone, NEW reason,
           NEW t, t = [s EXCEPT !.omitted = @ \cup {Omitted(f.path, reason)}]
    PROVE  PackInv(t, l, gone, done \cup {f})
  <1>1. PICK placed \in SUBSET done : PackedAs(s, l, gone, done, placed)
    BY DEF PackInv
  <1> DEFINE o == Omitted(f.path, reason)
  <1>2. /\ DOMAIN t = DOMAIN s /\ t.units = s.units /\ t.files = s.files /\ t.bytes = s.bytes
        /\ t.low = s.low /\ t.omitted = s.omitted \cup {o}
    BY <1>1 DEF PackedAs
  <1>3. o.path = f.path
    BY DEF Omitted
  <1> HIDE DEF o
  <1>4. s.units \in Seq(SUBSET (done \cup {f}))
    <2>1. s.units \in Seq(SUBSET done)
      BY <1>1 DEF PackedAs
    <2>2. SUBSET done \subseteq SUBSET (done \cup {f})
      OBVIOUS
    <2> QED BY <2>1, <2>2
  <1>5. {p.path : p \in s.omitted} = gone \cup {g.path : g \in done \ placed}
    BY <1>1 DEF PackedAs
  <1>6. {p.path : p \in t.omitted} = gone \cup {g.path : g \in (done \cup {f}) \ placed}
    <2>1. {p.path : p \in t.omitted} = {p.path : p \in s.omitted} \cup {f.path}
      BY <1>2, <1>3
    <2>2. (done \cup {f}) \ placed = (done \ placed) \cup {f}
      OBVIOUS
    <2>3. {g.path : g \in (done \ placed) \cup {f}} = {g.path : g \in done \ placed} \cup {f.path}
      OBVIOUS
    <2> QED BY <1>5, <2>1, <2>2, <2>3
  <1>7. \A p \in s.omitted : p.path # f.path
    <2>1. f.path \notin {p.path : p \in s.omitted}
      BY <1>5
    <2> QED BY <2>1
  <1>8. \A p, q \in t.omitted : p.path = q.path => p = q
    BY <1>1, <1>2, <1>3, <1>7 DEF PackedAs
  <1>9. IsFiniteSet(t.omitted)
    BY <1>1, <1>2, FS_AddElement DEF PackedAs
  <1>10. PackedAs(t, l, gone, done \cup {f}, placed)
    BY <1>1, <1>2, <1>4, <1>6, <1>8, <1>9 DEF PackedAs
  <1> QED BY <1>10 DEF PackInv

\* What the counters of pack_files let through.
LEMMA CapacityChecked ==
    ASSUME NEW f, NEW l, NEW s, CapacityReason(f, l, s) = None
    PROVE  /\ ~ (s.files >= l.files)
           /\ f.tier = Low => ~ (s.low + f.bytes > LowSignalLimit(l))
           /\ ~ (s.bytes + f.bytes > l.bytes)
           /\ ~ (f.bytes > l.unit_bytes)
           /\ ~ (Cardinality(f.anchors) > l.unit_anchors)
  <1> DEFINE a == s.files >= l.files
             b == f.tier = Low /\ s.low + f.bytes > LowSignalLimit(l)
             c == s.bytes + f.bytes > l.bytes
             d == f.bytes > l.unit_bytes
             e == Cardinality(f.anchors) > l.unit_anchors
  <1>1. CapacityReason(f, l, s) =
          CASE a -> "FileBudget" [] b -> "LowSignalBudget" [] c -> "TotalByteBudget"
            [] d -> "WorkUnitByteCapacity" [] e -> "WorkUnitAnchorCapacity" [] OTHER -> None
    BY DEF CapacityReason
  <1>2. /\ None # "FileBudget" /\ None # "LowSignalBudget" /\ None # "TotalByteBudget"
        /\ None # "WorkUnitByteCapacity" /\ None # "WorkUnitAnchorCapacity"
    BY PartitionAssumption DEF Reasons
  <1> HIDE DEF a, b, c, d, e
  <1>3. ~a /\ ~b /\ ~c /\ ~d /\ ~e
    BY <1>1, <1>2
  <1> QED BY <1>3 DEF a, b, c, d, e

\* A file gets a place in units that keep their limits.
LEMMA PlaceKeeps ==
    ASSUME NEW G, Packable(G), NEW l, Limits(l), NEW gone, NEW done \in SUBSET G,
           NEW placed \in SUBSET done, NEW s, PackedAs(s, l, gone, done, placed),
           NEW f \in G, f \notin done, CapacityReason(f, l, s) = None,
           NEW units \in Seq(SUBSET (done \cup {f})), UNION ToSet(units) = placed \cup {f},
           \A i \in DOMAIN units :
                /\ units[i] # {}
                /\ Cardinality(units[i]) <= l.unit_files
                /\ BytesOf(units[i]) <= l.unit_bytes
                /\ AnchorsOf(units[i]) <= l.unit_anchors,
           \A i, j \in DOMAIN units : i # j => units[i] \cap units[j] = {},
           Len(units) <= l.units
    PROVE  PackInv(Placed(s, f, units), l, gone, done \cup {f})
  <1> DEFINE t == Placed(s, f, units)
             more == placed \cup {f}
  <1>1. /\ DOMAIN t = DOMAIN s /\ t.units = units /\ t.files = s.files + 1
        /\ t.bytes = s.bytes + f.bytes /\ t.omitted = s.omitted
        /\ t.low = IF f.tier = Low THEN s.low + f.bytes ELSE s.low
    BY DEF PackedAs, Placed
  <1>2. /\ Cardinality(more) = Cardinality(placed) + 1 /\ Cardinality(placed) \in Nat
        /\ BytesOf(more) = BytesOf(placed) + f.bytes /\ BytesOf(placed) \in Nat
        /\ LowSignal(more) = LowSignal(placed) + (IF f.tier = Low THEN f.bytes ELSE 0)
        /\ LowSignal(placed) \in Nat
    <2>1. placed \in SUBSET G /\ f \notin placed
      OBVIOUS
    <2>2. Grows(placed, f)
      BY <2>1, OneMoreFile
    <2> QED BY <2>2 DEF Grows
  <1>3. /\ ~ (s.files >= l.files)
        /\ f.tier = Low => ~ (s.low + f.bytes > LowSignalLimit(l))
        /\ ~ (s.bytes + f.bytes > l.bytes)
    BY CapacityChecked
  <1>4. /\ s.files = Cardinality(placed) /\ s.bytes = BytesOf(placed) /\ s.low = LowSignal(placed)
        /\ s.low <= LowSignalLimit(l)
    BY DEF PackedAs
  <1>5. f.bytes \in Nat /\ l.files \in Nat /\ l.bytes \in Nat /\ LowSignalLimit(l) \in Int
    <2>1. l.bytes \in Nat /\ LowSignalDivisor \in Nat \ {0} /\ MaxLowSignal \in Nat
      BY PartitionAssumption DEF Limits
    <2>2. l.bytes \div LowSignalDivisor \in Nat
      BY <2>1
    <2>3. LowSignalLimit(l) \in Int
      BY <2>1, <2>2 DEF LowSignalLimit
    <2> QED BY <2>3 DEF Packable, Limits
  <1> HIDE DEF t, more
  <1>6. t.files = Cardinality(more) /\ t.files <= l.files
    BY <1>1, <1>2, <1>3, <1>4, <1>5
  <1>7. t.bytes = BytesOf(more) /\ t.bytes <= l.bytes
    BY <1>1, <1>2, <1>3, <1>4, <1>5
  <1>8. t.low = LowSignal(more) /\ t.low <= LowSignalLimit(l)
    <2>1. CASE f.tier = Low
      BY <1>1, <1>2, <1>3, <1>4, <1>5, <2>1
    <2>2. CASE f.tier # Low
      BY <1>1, <1>2, <1>3, <1>4, <1>5, <2>2
    <2> QED BY <2>1, <2>2
  <1>9. (done \cup {f}) \ more = done \ placed /\ more \in SUBSET (done \cup {f})
    BY DEF more
  <1>10. UNION ToSet(units) = more
    BY DEF more
  <1>11. PackedAs(t, l, gone, done \cup {f}, more)
    BY <1>1, <1>6, <1>7, <1>8, <1>9, <1>10 DEF PackedAs
  <1> QED BY <1>9, <1>11 DEF PackInv, t

\* One turn of the loop of pack_files.
LEMMA PackStep ==
    ASSUME NEW G, Packable(G), NEW l, Limits(l), NEW gone, NEW done \in SUBSET G,
           NEW s, PackInv(s, l, gone, done),
           NEW f \in G, f \notin done, f.path \notin gone
    PROVE  PackInv(PlaceFile(s, f, l), l, gone, done \cup {f})
  <1>1. PICK placed \in SUBSET done : PackedAs(s, l, gone, done, placed)
    BY DEF PackInv
  <1> DEFINE roomy == {i \in DOMAIN s.units : RoomIn(f, l, s.units[i])}
             reason == CapacityReason(f, l, s)
             omit(r) == [s EXCEPT !.omitted = @ \cup {Omitted(f.path, r)}]
             k == Min(roomy)
             grown == [s.units EXCEPT ![k] = @ \cup {f}]
             longer == Append(s.units, {f})
  <1>2. PlaceFile(s, f, l) =
          CASE reason # None -> omit(reason)
            [] reason = None /\ roomy # {} -> Placed(s, f, grown)
            [] reason = None /\ roomy = {} /\ Len(s.units) < l.units -> Placed(s, f, longer)
            [] OTHER -> omit(FullReason(f, l, s.units))
    BY DEF PlaceFile
  <1>3. \A g \in done : g.path # f.path
    BY DEF Packable
  <1>4. \A r : PackInv(omit(r), l, gone, done \cup {f})
    BY <1>3, OmitKeeps
  <1>5. PICK n \in Nat : Len(s.units) = n /\ DOMAIN s.units = 1..n
                         /\ \A i \in 1..n : s.units[i] \in SUBSET done
    <2>1. s.units \in Seq(SUBSET done)
      BY <1>1 DEF PackedAs
    <2> QED BY <2>1
  <1>6. /\ placed = UNION ToSet(s.units) /\ n <= l.units
        /\ \A i \in 1..n : /\ s.units[i] # {}
                           /\ Cardinality(s.units[i]) <= l.unit_files
                           /\ BytesOf(s.units[i]) <= l.unit_bytes
                           /\ AnchorsOf(s.units[i]) <= l.unit_anchors
        /\ \A i, j \in 1..n : i # j => s.units[i] \cap s.units[j] = {}
    BY <1>1, <1>5 DEF PackedAs
  <1>7. f.bytes \in Nat /\ Cardinality(f.anchors) \in Nat
    BY FS_CardinalityType DEF Packable
  <1>8. /\ {l.unit_files, l.unit_bytes, l.unit_anchors, l.units} \subseteq Nat /\ l.unit_files >= 1
    BY DEF Limits
  <1>9. ASSUME reason = None, roomy # {}
        PROVE  PackInv(Placed(s, f, grown), l, gone, done \cup {f})
    <2>1. k \in 1..n /\ RoomIn(f, l, s.units[k])
      <3>1. roomy \in SUBSET (1..n)
        BY <1>5
      <3>2. \A i \in 1..n : i \in Nat
        OBVIOUS
      <3>3. k \in roomy
        <4> HIDE DEF roomy
        <4> QED BY <1>9, <3>1, <3>2, MinIsOne
      <3> HIDE DEF k
      <3> QED BY <1>5, <3>3
    <2> HIDE DEF k, roomy, reason
    <2>2. /\ DOMAIN grown = 1..n /\ grown[k] = s.units[k] \cup {f}
          /\ \A i \in 1..n : i # k => grown[i] = s.units[i]
          /\ grown = [i \in 1..n |-> grown[i]]
      BY <1>5, <2>1
    <2> HIDE DEF grown
    <2>3. \A i \in 1..n : grown[i] \in SUBSET (done \cup {f})
      BY <1>5, <2>2
    <2>4. grown \in Seq(SUBSET (done \cup {f})) /\ Len(grown) = n
      <3>1. grown \in [1..n -> SUBSET (done \cup {f})]
        BY <2>2, <2>3
      <3>2. \A T : \A t : t \in [1..n -> T] => t \in Seq(T) /\ Len(t) = n
        OBVIOUS
      <3> QED BY <3>1, <3>2, Zenon
    <2>5. UNION ToSet(grown) = placed \cup {f}
      <3>1. placed = UNION {s.units[i] : i \in 1..n}
        BY <1>5, <1>6 DEF ToSet
      <3>2. UNION ToSet(grown) = UNION {grown[i] : i \in 1..n}
        BY <2>2 DEF ToSet
      <3>3. \A i \in 1..n : grown[i] = IF i = k THEN s.units[i] \cup {f} ELSE s.units[i]
        BY <2>2
      <3>4. ASSUME NEW x \in placed PROVE \E i \in 1..n : x \in grown[i]
        <4>1. PICK i \in 1..n : x \in s.units[i]
          BY <3>1
        <4>2. x \in grown[i]
          BY <2>2, <4>1
        <4> QED BY <4>2
      <3>5. \E i \in 1..n : f \in grown[i]
        BY <2>1, <3>3
      <3>6. ASSUME NEW i \in 1..n PROVE grown[i] \subseteq placed \cup {f}
        <4>1. s.units[i] \subseteq placed
          BY <3>1
        <4>2. CASE i = k
          BY <2>2, <4>1, <4>2
        <4>3. CASE i # k
          BY <2>2, <4>1, <4>3
        <4> QED BY <4>2, <4>3
      <3>7. placed \cup {f} \subseteq UNION ToSet(grown)
        BY <3>2, <3>4, <3>5
      <3>8. UNION ToSet(grown) \subseteq placed \cup {f}
        BY <3>2, <3>6
      <3> QED BY <3>7, <3>8
    <2>6. /\ Cardinality(grown[k]) <= l.unit_files
          /\ BytesOf(grown[k]) <= l.unit_bytes
          /\ AnchorsOf(grown[k]) <= l.unit_anchors
      <3> DEFINE u == s.units[k]
      <3>1. u \in SUBSET G /\ f \notin u
        BY <1>5, <2>1
      <3>2. RoomIn(f, l, u)
        BY <2>1
      <3> HIDE DEF u
      <3>3. /\ BytesOf(u) \in Nat /\ BytesOf(u \cup {f}) = BytesOf(u) + f.bytes
            /\ AnchorsOf(u) \in Nat /\ AnchorsOf(u \cup {f}) = AnchorsOf(u) + Cardinality(f.anchors)
            /\ Cardinality(u) \in Nat /\ Cardinality(u \cup {f}) = Cardinality(u) + 1
        <4>1. Grows(u, f)
          BY <3>1, OneMoreFile
        <4> QED BY <4>1 DEF Grows
      <3>4. /\ Cardinality(u \cup {f}) <= l.unit_files
            /\ BytesOf(u \cup {f}) <= l.unit_bytes
            /\ AnchorsOf(u \cup {f}) <= l.unit_anchors
        BY <1>8, <3>2, <3>3 DEF RoomIn, RoomForFile, RoomForBytes, RoomForAnchors
      <3>5. grown[k] = u \cup {f}
        BY <2>2 DEF u
      <3> QED BY <3>4, <3>5
    <2>7. \A i \in DOMAIN grown :
                /\ grown[i] # {}
                /\ Cardinality(grown[i]) <= l.unit_files
                /\ BytesOf(grown[i]) <= l.unit_bytes
                /\ AnchorsOf(grown[i]) <= l.unit_anchors
      BY <1>6, <2>2, <2>6
    <2>8. \A i, j \in DOMAIN grown : i # j => grown[i] \cap grown[j] = {}
      <3>1. \A i \in 1..n : f \notin s.units[i]
        BY <1>5
      <3> QED BY <1>6, <2>2, <3>1
    <2>9. CapacityReason(f, l, s) = None
      BY <1>9 DEF reason
    <2> QED BY <1>1, <1>6, <2>4, <2>5, <2>7, <2>8, <2>9, PlaceKeeps
  <1>10. ASSUME reason = None, n < l.units
         PROVE  PackInv(Placed(s, f, longer), l, gone, done \cup {f})
    <2>1. {f} \in SUBSET (done \cup {f}) /\ s.units \in Seq(SUBSET (done \cup {f}))
      <3>1. s.units \in Seq(SUBSET done)
        BY <1>1 DEF PackedAs
      <3>2. SUBSET done \subseteq SUBSET (done \cup {f})
        OBVIOUS
      <3> QED BY <3>1, <3>2
    <2>2. /\ longer \in Seq(SUBSET (done \cup {f})) /\ Len(longer) = n + 1
          /\ DOMAIN longer = 1..(n + 1) /\ longer[n + 1] = {f}
          /\ \A i \in 1..n : longer[i] = s.units[i]
      BY <1>5, <2>1
    <2>3. ToSet(longer) = ToSet(s.units) \cup {{f}}
      <3> DEFINE T == SUBSET (done \cup {f})
                 e == {f}
                 units == s.units
      <3>1. units \in Seq(T)
        BY <2>1
      <3> HIDE DEF T, e, units
      <3>2. ToSet(Append(units, e)) = ToSet(units) \cup {e}
        BY <3>1, AppendSet
      <3> QED BY <3>2 DEF e, units
    <2> HIDE DEF longer
    <2>4. UNION ToSet(longer) = placed \cup {f}
      BY <1>6, <2>3
    <2>5. Cardinality({f}) = 1 /\ BytesOf({f}) = f.bytes /\ AnchorsOf({f}) = Cardinality(f.anchors)
      <3>1. {} \in SUBSET G /\ f \notin {} /\ {} \cup {f} = {f}
        OBVIOUS
      <3>2. /\ BytesOf({}) \in Nat /\ BytesOf({f}) = BytesOf({}) + f.bytes
            /\ AnchorsOf({}) \in Nat /\ AnchorsOf({f}) = AnchorsOf({}) + Cardinality(f.anchors)
        <4>1. Grows({}, f)
          BY <3>1, OneMoreFile
        <4> QED BY <3>1, <4>1 DEF Grows
      <3>3. BytesOf({}) = 0 /\ AnchorsOf({}) = 0
        <4>1. BytesIn(G)[{}] = 0 /\ AnchorsIn(G)[{}] = 0
          <5>1. Additive(BytesIn(G), G) /\ Additive(AnchorsIn(G), G)
            BY BytesAdd, AnchorsAdd
          <5> QED BY <5>1 DEF Additive
        <4> QED BY <3>1, <4>1 DEF BytesIn, AnchorsIn
      <3> QED BY <1>7, <3>2, <3>3, FS_Singleton
    <2>6. ~ (f.bytes > l.unit_bytes) /\ ~ (Cardinality(f.anchors) > l.unit_anchors)
      BY <1>10, CapacityChecked
    <2>7. \A i \in 1..(n + 1) : i = n + 1 \/ i \in 1..n
      OBVIOUS
    <2>8. /\ Cardinality({f}) <= l.unit_files /\ BytesOf({f}) <= l.unit_bytes
          /\ AnchorsOf({f}) <= l.unit_anchors
      BY <1>7, <1>8, <2>5, <2>6
    <2>9. \A i \in DOMAIN longer :
                /\ longer[i] # {}
                /\ Cardinality(longer[i]) <= l.unit_files
                /\ BytesOf(longer[i]) <= l.unit_bytes
                /\ AnchorsOf(longer[i]) <= l.unit_anchors
      BY <1>6, <2>2, <2>7, <2>8
    <2>10. \A i, j \in DOMAIN longer : i # j => longer[i] \cap longer[j] = {}
      <3>1. \A i \in 1..n : f \notin s.units[i]
        BY <1>5
      <3> QED BY <1>6, <2>2, <2>7, <3>1
    <2>11. Len(longer) <= l.units
      BY <1>8, <1>10, <2>2
    <2>12. CapacityReason(f, l, s) = None
      BY <1>10
    <2> QED BY <1>1, <2>2, <2>4, <2>9, <2>10, <2>11, <2>12, PlaceKeeps
  <1> HIDE DEF roomy, reason, omit, grown, longer
  <1>11. \/ \E r : PlaceFile(s, f, l) = omit(r)
         \/ reason = None /\ roomy # {} /\ PlaceFile(s, f, l) = Placed(s, f, grown)
         \/ reason = None /\ Len(s.units) < l.units /\ PlaceFile(s, f, l) = Placed(s, f, longer)
    BY <1>2
  <1> QED BY <1>4, <1>5, <1>9, <1>10, <1>11

\* At the end every file has a place or a reason, and no limit is passed.
LEMMA Packed ==
    ASSUME NEW prepared, Packable(prepared.included), NEW l, Limits(l),
           IsFiniteSet(prepared.omitted),
           \A o, p \in prepared.omitted : o.path = p.path => o = p,
           \A o \in prepared.omitted : \A f \in prepared.included : o.path # f.path
    PROVE  PackInv(Pack(prepared, l), l, {o.path : o \in prepared.omitted}, prepared.included)
  <1> DEFINE G == prepared.included
             gone == {o.path : o \in prepared.omitted}
             order == ByValue(G)
             n == Len(order)
             done(i) == {order[j] : j \in 1..i}
             start == [units |-> <<>>, omitted |-> prepared.omitted, files |-> 0, bytes |-> 0,
                       low |-> 0]
  <1>1. order \in Seq(G) /\ ToSet(order) = G /\ IsInjective(order)
    BY ValueOrder
  <1>2. n \in Nat /\ DOMAIN order = 1..n
    BY <1>1
  <1>3. PICK c : /\ c[0] = start
                 /\ Pack(prepared, l) = c[n]
                 /\ \A i \in 1..n : c[i] = PlaceFile(c[i - 1], order[i], l)
    <2> HIDE DEF n
    <2>1. n \in Nat /\ DOMAIN ByValue(prepared.included) = 1..n
      BY <1>2
    <2>2. RunsTo(Pack(prepared, l), "pack", l, start, order, n)
      BY <2>1, PackRuns
    <2> HIDE DEF start, order
    <2> QED BY <2>2 DEF RunsTo, Turn
  <1>4. PackInv(start, l, gone, {})
    BY PackStarts
  <1>5. \A f \in G : f.path \notin gone
    OBVIOUS
  <1>6. Packable(G)
    OBVIOUS
  <1> HIDE DEF order, n, start, gone, G
  <1> DEFINE Bad == {i \in 0..n : ~ PackInv(c[i], l, gone, done(i))}
  <1>7. ASSUME Bad # {} PROVE FALSE
    <2>1. PICK k \in Bad : \A m \in Bad : k <= m
      <3>1. Bad \in SUBSET Nat
        OBVIOUS
      <3> HIDE DEF Bad
      <3> QED BY <1>7, <3>1, LeastNumber
    <2>2. k \in 0..n /\ ~ PackInv(c[k], l, gone, done(k))
      OBVIOUS
    <2>3. k # 0
      <3>1. done(0) = {}
        OBVIOUS
      <3> HIDE DEF done
      <3>2. PackInv(c[0], l, gone, done(0))
        BY <1>3, <1>4, <3>1
      <3> QED BY <2>2, <3>2
    <2>4. k \in 1..n /\ k - 1 \in 0..n /\ ~ (k <= k - 1)
      BY <1>2, <2>2, <2>3
    <2>5. PackInv(c[k - 1], l, gone, done(k - 1))
      BY <2>1, <2>4
    <2>6. done(k) = done(k - 1) \cup {order[k]}
      <3>1. \A j \in 1..k : j = k \/ j \in 1..(k - 1)
        BY <2>4
      <3>2. k \in 1..k /\ \A j \in 1..(k - 1) : j \in 1..k
        BY <2>4
      <3> QED BY <3>1, <3>2
    <2>7. \A g \in done(k - 1) : g # order[k] /\ g \in G
      <3>1. \A j \in 1..(k - 1) : j \in 1..n /\ j # k
        BY <1>2, <2>4
      <3>2. \A j \in 1..(k - 1) : order[j] # order[k] /\ order[j] \in G
        BY <1>1, <1>2, <2>4, <3>1 DEF IsInjective
      <3> QED BY <3>2
    <2>8. order[k] \in G
      BY <1>1, <1>2, <2>4
    <2> HIDE DEF done
    <2>9. order[k] \notin done(k - 1) /\ done(k - 1) \in SUBSET G
      BY <2>7
    <2>10. order[k].path \notin gone
      BY <1>5, <2>8
    <2>11. PackInv(PlaceFile(c[k - 1], order[k], l), l, gone, done(k - 1) \cup {order[k]})
      BY <1>6, <2>5, <2>8, <2>9, <2>10, PackStep
    <2> QED BY <1>3, <2>2, <2>4, <2>6, <2>11
  <1>8. PackInv(c[n], l, gone, done(n))
    <2>1. n \in 0..n
      BY <1>2
    <2> QED BY <1>7, <2>1
  <1>9. done(n) = G
    BY <1>1, <1>2 DEF ToSet
  <1> HIDE DEF done
  <1> QED BY <1>3, <1>8, <1>9 DEF G, gone

\* The prepared files are those of kept, the omitted ones the others.
Parted(s, files, kept) ==
    /\ {o.path : o \in s.omitted} = {f.path : f \in files \ kept}
    /\ {g.path : g \in s.included} = {f.path : f \in kept}
    /\ \A o \in s.omitted : \A g \in s.included : o.path # g.path

\* What is prepared can be packed.
LEMMA PreparedIsPackable ==
    ASSUME NEW files, Inputs(files), NEW policy, NEW kept \in SUBSET files, NEW s,
           PreparedAs(s, policy, files, kept)
    PROVE  Packable(s.included) /\ Parted(s, files, kept)
  <1> DEFINE G == s.included
  <1>1. G = {UnitFile(f) : f \in kept}
    BY DEF PreparedAs
  <1>2. IsFiniteSet(G)
    <2> DEFINE u == [f \in kept |-> UnitFile(f)]
    <2>1. G = {u[f] : f \in kept}
      BY <1>1
    <2>2. IsFiniteSet(kept)
      BY FS_Subset DEF Inputs
    <2> HIDE DEF u
    <2> QED BY <2>1, <2>2, FiniteImage
  <1>3. ASSUME NEW f \in kept
        PROVE  /\ UnitFile(f).path = f.path /\ f.path \in Nat
               /\ UnitFile(f).score \in Nat /\ UnitFile(f).tier \in 1..3
               /\ UnitFile(f).bytes \in Nat /\ UnitFile(f).anchors = ToSet(f.anchors)
               /\ IsFiniteSet(UnitFile(f).anchors)
    <2>1. IsInput(f) /\ SelectionReason(f, policy) = None
      BY DEF Inputs, PreparedAs
    <2>2. TotalBytes(f.objects) \in Nat
      BY <2>1, SizeIsNumber
    <2>3. IsFiniteSet(ToSet(f.anchors))
      <3>1. f.anchors \in Seq(ToSet(f.anchors))
        BY <2>1 DEF IsInput
      <3>2. IsFiniteSet(DOMAIN f.anchors)
        <4>1. DOMAIN f.anchors = 1..Len(f.anchors) /\ Len(f.anchors) \in Nat
          BY <3>1
        <4>2. IsFiniteSet(1..Len(f.anchors))
          BY <4>1, FS_Interval
        <4> QED BY <4>1, <4>2
      <3>3. ToSet(f.anchors) = {f.anchors[i] : i \in DOMAIN f.anchors}
        BY DEF ToSet
      <3> QED BY <3>2, <3>3, FiniteImage
    <2> QED BY <2>1, <2>2, <2>3, ScoreIsNumber DEF UnitFile, IsInput
  <1>4. \A f, g \in kept : f # g => ToSet(f.anchors) \cap ToSet(g.anchors) = {}
    BY DEF PreparedAs
  <1>5. \A f, g \in files : f.path = g.path => f = g
    BY DEF Inputs
  <1>6. \A x \in G : \E f \in kept : x = UnitFile(f)
    BY <1>1
  <1>7. \A x \in G : /\ x.path \in Nat /\ x.score \in Nat /\ x.tier \in 1..3 /\ x.bytes \in Nat
                     /\ IsFiniteSet(x.anchors)
    BY <1>3, <1>6
  <1>8. \A x, y \in G : x.path = y.path => x = y
    BY <1>3, <1>5, <1>6
  <1>9. \A x, y \in G : x # y => x.anchors \cap y.anchors = {}
    BY <1>3, <1>4, <1>6
  <1>10. {o.path : o \in s.omitted} = {f.path : f \in files \ kept}
    BY DEF PreparedAs
  <1>11. {g.path : g \in G} = {f.path : f \in kept}
    BY <1>1, <1>3
  <1>12. ASSUME NEW o \in s.omitted, NEW g \in G PROVE o.path # g.path
    <2>1. PICK f \in kept : g.path = f.path
      BY <1>3, <1>6
    <2>2. o.path \in {h.path : h \in files \ kept}
      BY <1>10
    <2>3. PICK h \in files \ kept : o.path = h.path
      BY <2>2
    <2> QED BY <1>5, <2>1, <2>3
  <1>13. Packable(G)
    BY <1>2, <1>7, <1>8, <1>9 DEF Packable
  <1> QED BY <1>10, <1>11, <1>12, <1>13 DEF Parted

\* Two measures that agree on every member agree.
LEMMA MeasuresAgree ==
    ASSUME NEW F, IsFiniteSet(F), NEW m, Additive(m, F), NEW k, Additive(k, F),
           \A x \in F : m[{x}] = k[{x}], NEW X \in SUBSET F
    PROVE  m[X] = k[X]
  <1> DEFINE U == {{x} : x \in X}
  <1>1. U \in SUBSET (SUBSET F) /\ UNION U = X
    OBVIOUS
  <1>2. IsFiniteSet(U)
    <2> DEFINE one == [x \in X |-> {x}]
    <2>1. U = {one[x] : x \in X}
      OBVIOUS
    <2>2. IsFiniteSet(X)
      BY FS_Subset
    <2> HIDE DEF one, U
    <2>3. IsFiniteSet({one[x] : x \in X})
      BY <2>2, FiniteImage
    <2> QED BY <2>1, <2>3
  <1>3. \A u, v \in U : u # v => u \cap v = {}
    OBVIOUS
  <1>4. [u \in U |-> m[u]] = [u \in U |-> k[u]]
    OBVIOUS
  <1> HIDE DEF U
  <1>5. SumFunction([u \in U |-> m[u]]) = m[UNION U]
    BY <1>1, <1>2, <1>3, PartsMeasure
  <1>6. SumFunction([u \in U |-> k[u]]) = k[UNION U]
    BY <1>1, <1>2, <1>3, PartsMeasure
  <1> QED BY <1>1, <1>4, <1>5, <1>6

\* Files with anchors of their own have as many anchors as they have together.
LEMMA AnchorsAreMany ==
    ASSUME NEW G, Packable(G), NEW X \in SUBSET G
    PROVE  Cardinality(UNION {f.anchors : f \in X}) = AnchorsOf(X)
  <1> DEFINE of(Z) == UNION {f.anchors : f \in Z}
             m == [Z \in SUBSET G |-> Cardinality(of(Z))]
             k == AnchorsIn(G)
  <1>1. IsFiniteSet(of(G))
    <2> DEFINE own == [f \in G |-> f.anchors]
    <2>1. {f.anchors : f \in G} = {own[f] : f \in G}
      OBVIOUS
    <2>2. IsFiniteSet({own[f] : f \in G})
      <3> HIDE DEF own
      <3> QED BY FiniteImage DEF Packable
    <2>3. IsFiniteSet({f.anchors : f \in G}) /\ \A T \in {f.anchors : f \in G} : IsFiniteSet(T)
      BY <2>1, <2>2 DEF Packable
    <2> QED BY <2>3, FS_UNION
  <1>2. \A Z \in SUBSET G : IsFiniteSet(of(Z)) /\ m[Z] \in Nat
    <2> SUFFICES ASSUME NEW Z \in SUBSET G PROVE IsFiniteSet(of(Z)) /\ m[Z] \in Nat
      OBVIOUS
    <2>1. of(Z) \in SUBSET of(G)
      OBVIOUS
    <2>2. m[Z] = Cardinality(of(Z))
      OBVIOUS
    <2> HIDE DEF of, m
    <2> QED BY <1>1, <2>1, <2>2, FS_Subset, FS_CardinalityType
  <1>3. m[{}] = 0
    <2>1. of({}) = {}
      OBVIOUS
    <2>2. m[{}] = Cardinality(of({}))
      OBVIOUS
    <2> HIDE DEF m, of
    <2> QED BY <2>1, <2>2, FS_EmptySet
  <1>4. ASSUME NEW A \in SUBSET G, NEW B \in SUBSET G, A \cap B = {}
        PROVE  m[A \cup B] = m[A] + m[B]
    <2>1. of(A \cup B) = of(A) \cup of(B)
      OBVIOUS
    <2>2. of(A) \cap of(B) = {}
      <3>1. \A f \in A : \A g \in B : f.anchors \cap g.anchors = {}
        BY <1>4 DEF Packable
      <3> QED BY <3>1
    <2>3. m[A] = Cardinality(of(A)) /\ m[B] = Cardinality(of(B))
          /\ m[A \cup B] = Cardinality(of(A \cup B)) /\ m[A] \in Nat /\ m[B] \in Nat
          /\ IsFiniteSet(of(A)) /\ IsFiniteSet(of(B))
      <3>1. A \cup B \in SUBSET G
        OBVIOUS
      <3> QED BY <1>2, <3>1
    <2> HIDE DEF of, m
    <2>4. Cardinality(of(A) \cup of(B))
            = Cardinality(of(A)) + Cardinality(of(B)) - Cardinality(of(A) \cap of(B))
      BY <2>3, FS_Union
    <2>5. Cardinality(of(A) \cap of(B)) = 0
      BY <2>2, FS_EmptySet
    <2>6. Cardinality(of(A) \cup of(B)) = m[A] + m[B]
      BY <2>3, <2>4, <2>5
    <2>7. m[A \cup B] = Cardinality(of(A) \cup of(B))
      BY <2>1, <2>3, Zenon
    <2> QED BY <2>6, <2>7, Zenon
  <1>5. m[X] = Cardinality(of(X)) /\ k[X] = AnchorsOf(X)
    BY DEF AnchorsIn
  <1>6. \A f \in G : m[{f}] = k[{f}]
    <2> SUFFICES ASSUME NEW f \in G PROVE m[{f}] = k[{f}]
      OBVIOUS
    <2>1. of({f}) = f.anchors
      OBVIOUS
    <2>2. m[{f}] = Cardinality(of({f})) /\ k[{f}] = AnchorsOf({f})
      BY DEF AnchorsIn
    <2>3. AnchorsOf({f}) = Cardinality(f.anchors)
      <3> DEFINE h == [g \in {f} |-> Cardinality(g.anchors)]
      <3>1. DOMAIN h = {f} /\ h[f] = Cardinality(f.anchors) /\ AnchorsOf({f}) = SumFunction(h)
        BY DEF AnchorsOf
      <3>2. Cardinality(f.anchors) \in Nat
        BY FS_CardinalityType DEF Packable
      <3> HIDE DEF h
      <3> QED BY <3>1, <3>2, SumOfOne
    <2> HIDE DEF of, m, k
    <2> QED BY <2>1, <2>2, <2>3
  <1> HIDE DEF of, m, k
  <1>7. Additive(m, G)
    BY <1>2, <1>3, <1>4 DEF Additive
  <1>8. Additive(k, G)
    BY AnchorsAdd DEF k
  <1>9. IsFiniteSet(G)
    BY DEF Packable
  <1>10. m[X] = k[X]
    BY <1>6, <1>7, <1>8, <1>9, MeasuresAgree
  <1> QED BY <1>5, <1>10 DEF of

\* The check of a plan finds what the packing counted.
LEMMA ReplayAccepts ==
    ASSUME NEW G, Packable(G), NEW l, Limits(l), NEW gone, NEW s, PackInv(s, l, gone, G),
           \A g \in G : g.path \notin gone
    PROVE  ReplayVerdict(Finalized(s), l) = "accepted"
  <1>1. PICK placed \in SUBSET G : PackedAs(s, l, gone, G, placed)
    BY DEF PackInv
  <1> DEFINE U == ToSet(s.units)
             all == UNION U
             files == SumFunction([u \in U |-> Cardinality(u)])
             bytes == SumFunction([u \in U |-> BytesOf(u)])
             low == SumFunction([u \in U |-> LowSignal(u)])
             anchors == SumFunction([u \in U |-> AnchorsOf(u)])
             plan == Finalized(s)
  <1>2. /\ plan.units = U /\ plan.omitted = s.omitted
        /\ plan.coverage = [input |-> s.files + Cardinality(s.omitted),
                            included |-> s.files, bytes |-> s.bytes,
                            omitted |-> Cardinality(s.omitted),
                            complete |-> s.omitted = {}]
    BY DEF Finalized
  <1>3. /\ all = placed /\ U \in SUBSET (SUBSET G)
        /\ IsFiniteSet(U) /\ Cardinality(U) <= l.units
    <2>1. PICK n \in Nat : Len(s.units) = n /\ DOMAIN s.units = 1..n
                           /\ \A i \in 1..n : s.units[i] \in SUBSET G
      <3>1. s.units \in Seq(SUBSET G)
        BY <1>1 DEF PackedAs
      <3> QED BY <3>1
    <2>2. U = {s.units[i] : i \in 1..n}
      BY <2>1 DEF ToSet
    <2>3. s.units \in Surjection(1..n, U)
      <3>1. s.units = [i \in 1..n |-> s.units[i]]
        <4>1. s.units \in Seq(SUBSET G)
          BY <1>1 DEF PackedAs
        <4> QED BY <2>1, <4>1
      <3>2. s.units \in [1..n -> U] /\ \A u \in U : \E i \in 1..n : s.units[i] = u
        <4> HIDE DEF U
        <4>1. \A i \in 1..n : s.units[i] \in U
          BY <2>2
        <4>2. \A u \in U : \E i \in 1..n : s.units[i] = u
          BY <2>2
        <4> QED BY <3>1, <4>1, <4>2
      <3> HIDE DEF U
      <3> QED BY <3>2 DEF Surjection
    <2>4. IsFiniteSet(1..n) /\ Cardinality(1..n) = n
      BY FS_Interval
    <2> HIDE DEF U
    <2>5. IsFiniteSet(U) /\ Cardinality(U) <= n
      BY <2>3, <2>4, FS_Surjection
    <2>6. n <= l.units /\ placed = UNION ToSet(s.units)
      BY <1>1, <2>1 DEF PackedAs
    <2>7. Cardinality(U) \in Nat /\ l.units \in Nat
      BY <2>5, FS_CardinalityType DEF Limits
    <2> QED BY <2>1, <2>2, <2>5, <2>6, <2>7 DEF U
  <1>4. /\ \A u, v \in U : u # v => u \cap v = {}
        /\ \A u \in U : /\ Cardinality(u) <= l.unit_files
                        /\ BytesOf(u) <= l.unit_bytes
                        /\ AnchorsOf(u) <= l.unit_anchors
    BY <1>1 DEF PackedAs, ToSet
  <1> HIDE DEF U
  <1>5. \A m : Additive(m, G) => SumFunction([u \in U |-> m[u]]) = m[all]
    BY <1>3, <1>4, PartsMeasure
  <1>6. files = Cardinality(all)
    <2> DEFINE m == FilesIn(G)
    <2>1. \A X \in SUBSET G : m[X] = Cardinality(X)
      BY DEF FilesIn
    <2>2. Additive(m, G)
      BY FilesAdd
    <2> HIDE DEF m
    <2>3. [u \in U |-> m[u]] = [u \in U |-> Cardinality(u)]
      BY <1>3, <2>1
    <2>4. SumFunction([u \in U |-> m[u]]) = m[all]
      BY <1>5, <2>2
    <2> QED BY <1>3, <2>1, <2>3, <2>4
  <1>7. bytes = BytesOf(all)
    <2> DEFINE m == BytesIn(G)
    <2>1. \A X \in SUBSET G : m[X] = BytesOf(X)
      BY DEF BytesIn
    <2>2. Additive(m, G)
      BY BytesAdd
    <2> HIDE DEF m
    <2>3. [u \in U |-> m[u]] = [u \in U |-> BytesOf(u)]
      BY <1>3, <2>1
    <2>4. SumFunction([u \in U |-> m[u]]) = m[all]
      BY <1>5, <2>2
    <2> QED BY <1>3, <2>1, <2>3, <2>4
  <1>8. low = LowSignal(all)
    <2> DEFINE m == LowIn(G)
    <2>1. \A X \in SUBSET G : m[X] = LowSignal(X)
      BY DEF LowIn
    <2>2. Additive(m, G)
      BY LowAdds
    <2> HIDE DEF m
    <2>3. [u \in U |-> m[u]] = [u \in U |-> LowSignal(u)]
      BY <1>3, <2>1
    <2>4. SumFunction([u \in U |-> m[u]]) = m[all]
      BY <1>5, <2>2
    <2> QED BY <1>3, <2>1, <2>3, <2>4
  <1>9. anchors = AnchorsOf(all)
    <2> DEFINE m == AnchorsIn(G)
    <2>1. \A X \in SUBSET G : m[X] = AnchorsOf(X)
      BY DEF AnchorsIn
    <2>2. Additive(m, G)
      BY AnchorsAdd
    <2> HIDE DEF m
    <2>3. [u \in U |-> m[u]] = [u \in U |-> AnchorsOf(u)]
      BY <1>3, <2>1
    <2>4. SumFunction([u \in U |-> m[u]]) = m[all]
      BY <1>5, <2>2
    <2> QED BY <1>3, <2>1, <2>3, <2>4
  <1>10. Cardinality(UNION {f.anchors : f \in all}) = anchors
    BY <1>3, <1>9, AnchorsAreMany
  <1>11. /\ s.files = files /\ s.bytes = bytes /\ s.low = low
         /\ s.files <= l.files /\ s.bytes <= l.bytes /\ s.low <= LowSignalLimit(l)
    BY <1>1, <1>3, <1>6, <1>7, <1>8 DEF PackedAs
  <1>12. Cardinality({f.path : f \in all} \cup {o.path : o \in s.omitted})
            = files + Cardinality(s.omitted)
    <2> DEFINE P == {f.path : f \in all}
               Q == {o.path : o \in s.omitted}
    <2>1. IsFiniteSet(all) /\ Cardinality(all) = files /\ IsFiniteSet(s.omitted)
      BY <1>1, <1>3, <1>6, FS_Subset DEF Packable, PackedAs
    <2>2. \A T : IsFiniteSet(T) /\ (\A x, y \in T : x.path = y.path => x = y)
                    => /\ IsFiniteSet({x.path : x \in T})
                       /\ Cardinality({x.path : x \in T}) = Cardinality(T)
      <3> SUFFICES ASSUME NEW T, IsFiniteSet(T), \A x, y \in T : x.path = y.path => x = y
                   PROVE  /\ IsFiniteSet({x.path : x \in T})
                          /\ Cardinality({x.path : x \in T}) = Cardinality(T)
        OBVIOUS
      <3> DEFINE g == [x \in T |-> x.path]
                 V == {x.path : x \in T}
      <3>1. g \in Bijection(T, V)
        BY DEF Bijection, Injection, Surjection, IsInjective
      <3> HIDE DEF g, V
      <3>2. IsFiniteSet(V) /\ Cardinality(V) = Cardinality(T)
        BY <3>1, FS_Bijection DEF ExistsBijection
      <3> QED BY <3>2 DEF V
    <2>3. \A f, g \in all : f.path = g.path => f = g
      BY <1>3 DEF Packable
    <2>4. IsFiniteSet(P) /\ Cardinality(P) = files
      BY <2>1, <2>2, <2>3
    <2>5. IsFiniteSet(Q) /\ Cardinality(Q) = Cardinality(s.omitted)
      BY <1>1, <2>1, <2>2 DEF PackedAs
    <2>6. P \cap Q = {}
      <3>1. Q = gone \cup {f.path : f \in G \ placed}
        BY <1>1 DEF PackedAs
      <3>2. \A f \in placed : \A g \in G \ placed : f.path # g.path
        BY DEF Packable
      <3> QED BY <1>3, <3>1, <3>2
    <2> HIDE DEF P, Q, files, all
    <2>7. Cardinality(P \cup Q) = Cardinality(P) + Cardinality(Q) - Cardinality(P \cap Q)
      BY <2>4, <2>5, FS_Union
    <2>8. Cardinality(P \cap Q) = 0 /\ files \in Nat /\ Cardinality(s.omitted) \in Nat
      BY <2>1, <2>4, <2>6, FS_EmptySet, FS_CardinalityType
    <2>9. Cardinality(P \cup Q) = files + Cardinality(s.omitted)
      BY <2>4, <2>5, <2>7, <2>8
    <2> QED BY <2>9 DEF P, Q
  <1> DEFINE exceeded == \E u \in U : \/ Cardinality(u) > l.unit_files
                                      \/ BytesOf(u) > l.unit_bytes
                                      \/ AnchorsOf(u) > l.unit_anchors
             shared == Cardinality(UNION {f.anchors : f \in all}) # anchors
             large == \/ Cardinality(U) > l.units
                      \/ files > l.files
                      \/ bytes > l.bytes
                      \/ low > LowSignalLimit(l)
             twice == Cardinality({f.path : f \in all} \cup {o.path : o \in s.omitted})
                        # files + Cardinality(s.omitted)
             miscounted == plan.coverage # [input |-> files + Cardinality(s.omitted),
                                            included |-> files, bytes |-> bytes,
                                            omitted |-> Cardinality(s.omitted),
                                            complete |-> s.omitted = {}]
  <1>13. ReplayVerdict(plan, l) =
            CASE exceeded -> "LimitExceeded" [] shared -> "DuplicateAnchor"
              [] large -> "LimitExceeded" [] twice -> "DuplicatePath"
              [] miscounted -> "Coverage" [] OTHER -> "accepted"
    <2> HIDE DEF plan, files, bytes, low, anchors, all
    <2> QED BY <1>2 DEF ReplayVerdict, files, bytes, low, anchors, all
  <1>14. ~ exceeded
    <2>1. \A u \in U : /\ Cardinality(u) \in Nat /\ BytesOf(u) \in Nat /\ AnchorsOf(u) \in Nat
      <3> DEFINE a == FilesIn(G)
                 b == BytesIn(G)
                 d == AnchorsIn(G)
      <3>1. \A u \in SUBSET G : a[u] \in Nat /\ b[u] \in Nat /\ d[u] \in Nat
        BY FilesAdd, BytesAdd, AnchorsAdd DEF Additive
      <3>2. \A u \in SUBSET G : a[u] = Cardinality(u) /\ b[u] = BytesOf(u) /\ d[u] = AnchorsOf(u)
        BY DEF FilesIn, BytesIn, AnchorsIn
      <3> HIDE DEF a, b, d
      <3> QED BY <1>3, <3>1, <3>2
    <2>2. l.unit_files \in Nat /\ l.unit_bytes \in Nat /\ l.unit_anchors \in Nat
      BY DEF Limits
    <2> QED BY <1>4, <2>1, <2>2
  <1>15. ~ large
    <2>1. Cardinality(U) \in Nat /\ l.units \in Nat /\ l.files \in Nat /\ l.bytes \in Nat
      BY <1>3, FS_CardinalityType DEF Limits
    <2>2. LowSignalLimit(l) \in Int
      <3>1. LowSignalDivisor \in Nat \ {0} /\ MaxLowSignal \in Nat
        BY PartitionAssumption
      <3>2. l.bytes \div LowSignalDivisor \in Nat
        BY <2>1, <3>1
      <3> QED BY <3>1, <3>2 DEF LowSignalLimit
    <2>3. files \in Nat /\ bytes \in Nat /\ low \in Nat
      <3> DEFINE a == FilesIn(G)
                 b == BytesIn(G)
                 d == LowIn(G)
      <3>1. \A u \in SUBSET G : a[u] \in Nat /\ b[u] \in Nat /\ d[u] \in Nat
        BY FilesAdd, BytesAdd, LowAdds DEF Additive
      <3>2. \A u \in SUBSET G : a[u] = Cardinality(u) /\ b[u] = BytesOf(u) /\ d[u] = LowSignal(u)
        BY DEF FilesIn, BytesIn, LowIn
      <3> HIDE DEF a, b, d, files, bytes, low
      <3> QED BY <1>3, <1>6, <1>7, <1>8, <3>1, <3>2
    <2> HIDE DEF files, bytes, low
    <2> QED BY <1>3, <1>11, <2>1, <2>2, <2>3
  <1>16. ~ shared /\ ~ twice
    BY <1>10, <1>12
  <1>17. ~ miscounted
    <2> HIDE DEF files, bytes, plan
    <2> QED BY <1>2, <1>11
  <1> HIDE DEF exceeded, shared, large, twice, miscounted
  <1> QED BY <1>13, <1>14, <1>15, <1>16, <1>17

-----------------------------------------------------------------------------
(* A plan of what is put to it.                                            *)

\* Some of the inputs are in the units of a plan, the others are omitted.
PlannedAs(plan, inputs) ==
    \E kept \in SUBSET inputs :
        /\ (UNION plan.units) = {UnitFile(f) : f \in kept}
        /\ {o.path : o \in plan.omitted} = {f.path : f \in inputs \ kept}
        /\ \A f \in kept : "secret" \notin f.roles

\* A plan passes the check the builder ends with.
LEMMA PlanIsAccepted ==
    ASSUME NEW inputs, Inputs(inputs), NEW policy, NEW l, Limits(l)
    PROVE  /\ PlannedAs(Plan(inputs, policy, l), inputs)
           /\ ReplayVerdict(Plan(inputs, policy, l), l) = "accepted"
  <1> DEFINE p == Prepare(inputs, policy)
             s == Pack(p, l)
             gone == {o.path : o \in p.omitted}
             G == p.included
  <1>1. PICK kept \in SUBSET inputs : PreparedAs(p, policy, inputs, kept)
    BY Prepared DEF PrepareInv
  <1>2. /\ Packable(G)
        /\ gone = {f.path : f \in inputs \ kept}
        /\ \A o \in p.omitted : \A g \in G : o.path # g.path
    <2>1. Packable(G) /\ Parted(p, inputs, kept)
      <3> HIDE DEF p
      <3> QED BY <1>1, PreparedIsPackable
    <2> QED BY <2>1 DEF Parted
  <1>3. /\ IsFiniteSet(p.omitted) /\ \A o, q \in p.omitted : o.path = q.path => o = q
        /\ G = {UnitFile(f) : f \in kept}
        /\ \A f \in kept : SelectionReason(f, policy) = None
    BY <1>1 DEF PreparedAs
  <1> HIDE DEF p
  <1>4. PackInv(s, l, gone, G)
    BY <1>2, <1>3, Packed
  <1>5. \A g \in G : g.path \notin gone
    BY <1>2
  <1>6. ReplayVerdict(Finalized(s), l) = "accepted"
    <2> HIDE DEF G, gone, s
    <2> QED BY <1>2, <1>4, <1>5, ReplayAccepts
  <1>7. PICK placed \in SUBSET G : PackedAs(s, l, gone, G, placed)
    BY <1>4 DEF PackInv
  <1> DEFINE plan == Finalized(s)
  <1>8. (UNION plan.units) = placed /\ plan.omitted = s.omitted
    BY <1>7 DEF Finalized, PackedAs
  <1>9. {o.path : o \in s.omitted} = gone \cup {g.path : g \in G \ placed}
    BY <1>7 DEF PackedAs
  <1> HIDE DEF plan, s, gone
  <1> DEFINE K == {f \in kept : UnitFile(f) \in placed}
  <1>10. placed = {UnitFile(f) : f \in K}
    BY <1>3
  <1>11. \A f : UnitFile(f).path = f.path
    BY DEF UnitFile
  <1>12. {o.path : o \in s.omitted} = {f.path : f \in inputs \ K}
    <2>1. {g.path : g \in G \ placed} = {f.path : f \in kept \ K}
      <3>1. G \ placed = {UnitFile(f) : f \in kept \ K}
        BY <1>3
      <3> QED BY <1>11, <3>1
    <2>2. inputs \ K = (inputs \ kept) \cup (kept \ K)
      OBVIOUS
    <2>3. {f.path : f \in inputs \ K} = {f.path : f \in inputs \ kept} \cup {f.path : f \in kept \ K}
      BY <2>2
    <2> QED BY <1>2, <1>9, <2>1, <2>3
  <1>13. \A f \in K : "secret" \notin f.roles
    BY <1>3, SizeIsNumber DEF Inputs
  <1>14. PlannedAs(plan, inputs)
    <2>1. K \in SUBSET inputs
      OBVIOUS
    <2> HIDE DEF K
    <2> QED BY <1>8, <1>10, <1>12, <1>13, <2>1 DEF PlannedAs
  <1>15. Plan(inputs, policy, l) = plan
    BY DEF Plan, plan, s, p
  <1> QED BY <1>6, <1>14, <1>15 DEF plan

\* A plan is made of every list of files that is not too long.
LEMMA PlanIsMade ==
    ASSUME NEW inputs, Inputs(inputs), NEW policy, PolicyVerdict(policy) = "accepted",
           NEW l, LimitsVerdict(l) = "accepted", Cardinality(inputs) <= MaxPlanFiles
    PROVE  PlanVerdict(inputs, policy, l) = "accepted"
  <1> DEFINE a == PolicyVerdict(policy) # "accepted"
             b == LimitsVerdict(l) # "accepted"
             many == Cardinality(inputs) > MaxPlanFiles
             twice == Cardinality({f.path : f \in inputs}) # Cardinality(inputs)
  <1>1. PlanVerdict(inputs, policy, l) =
            CASE a -> PolicyVerdict(policy) [] b -> LimitsVerdict(l) [] many -> "TooManyInputs"
              [] twice -> "DuplicatePath" [] OTHER -> "accepted"
    BY DEF PlanVerdict
  <1>2. ~ many
    <2>1. Cardinality(inputs) \in Nat /\ MaxPlanFiles \in Nat
      BY FS_CardinalityType, PartitionAssumption DEF Inputs
    <2> QED BY <2>1
  <1>3. ~ twice
    <2> DEFINE g == [f \in inputs |-> f.path]
               V == {f.path : f \in inputs}
    <2>1. g \in Bijection(inputs, V)
      BY DEF Bijection, Injection, Surjection, IsInjective, Inputs
    <2>2. IsFiniteSet(inputs)
      BY DEF Inputs
    <2> HIDE DEF g, V
    <2>3. Cardinality(V) = Cardinality(inputs)
      BY <2>1, <2>2, FS_Bijection DEF ExistsBijection
    <2> QED BY <2>3 DEF V
  <1>4. ~ a /\ ~ b
    OBVIOUS
  <1> HIDE DEF a, b, many, twice
  <1> QED BY <1>1, <1>2, <1>3, <1>4

\* The limits of the program are limits.
LEMMA BudgetLimits == Limits(Budget) /\ LimitsVerdict(Budget) = "accepted"
  <1> DEFINE l == Budget
             a == l.files \notin 1..MaxPlanFiles
             b == l.bytes = 0
             c == l.units = 0
             d == l.unit_files \notin 1..l.files
             e == l.unit_bytes \notin 1..l.bytes
             f == l.unit_anchors = 0
  <1>1. LimitsVerdict(l) = "accepted" /\ {l.files, l.bytes, l.units, l.unit_files, l.unit_bytes, l.unit_anchors} \subseteq Nat
    BY PolicyAssumption
  <1>2. LimitsVerdict(l) =
            CASE a -> "Files" [] b -> "TotalBytes" [] c -> "WorkUnits" [] d -> "FilesPerWorkUnit"
              [] e -> "BytesPerWorkUnit" [] f -> "AnchorsPerWorkUnit" [] OTHER -> "accepted"
    BY DEF LimitsVerdict
  <1>3. ~ d
    <2> HIDE DEF l, a, b, c, d, e, f
    <2> QED BY <1>1, <1>2
  <1>4. l.unit_files >= 1
    BY <1>1, <1>3
  <1> QED BY <1>1, <1>4 DEF Limits

-----------------------------------------------------------------------------
(* A context of what was captured.                                         *)

\* A diff is a list of lines, or there is none.
IsDiff(diff) == diff = None \/ \E S : diff \in Seq(S)

\* The material of a file is of that file.
LEMMA MaterialOfFile ==
    ASSUME NEW path, NEW diff, IsDiff(diff)
    PROVE  /\ LocalMaterial(path, diff).lines \in Seq(ToSet(LocalMaterial(path, diff).lines))
           /\ \A x \in ToSet(LocalMaterial(path, diff).lines) : x.path = path
           /\ IsDiff(LocalMaterial(path, diff).diff)
           /\ LocalMaterial(path, diff).error \in {None, "Diff"}
  <1> DEFINE m == LocalMaterial(path, diff)
             parsed == ParseDiff(path, diff)
  <1>1. ToSet(<<>>) = {}
    BY DEF ToSet
  <1>2. \/ m.lines = <<>> /\ m.diff = None
        \/ diff # None /\ m.lines = parsed.lines /\ m.diff = diff
    <2> HIDE DEF parsed
    <2> QED BY DEF LocalMaterial, NoDiff, ParsedMaterial, Broken, Material, parsed
  <1>3. m.error \in {None, "Diff"}
    BY DEF LocalMaterial, NoDiff, ParsedMaterial, Broken, Material
  <1> HIDE DEF m
  <1>4. CASE m.lines = <<>> /\ m.diff = None
    <2>1. m.lines \in Seq(ToSet(m.lines)) /\ ToSet(m.lines) = {}
      BY <1>1, <1>4
    <2> QED BY <1>3, <1>4, <2>1 DEF IsDiff, m
  <1>5. CASE diff # None /\ m.lines = parsed.lines /\ m.diff = diff
    <2>1. PICK S : diff \in Seq(S)
      BY <1>5 DEF IsDiff
    <2>2. parsed.lines \in Seq(ToSet(parsed.lines)) /\ \A x \in ToSet(parsed.lines) : x.path = path
      BY <2>1, ParsedLines
    <2> HIDE DEF parsed
    <2> QED BY <1>3, <1>5, <2>2 DEF m
  <1> QED BY <1>2, <1>4, <1>5

\* Captured files with paths of their own.
CapturedWell(captured) ==
    /\ \E S : captured \in Seq(S)
    /\ \A i \in DOMAIN captured : captured[i].path.new \in Nat /\ IsDiff(captured[i].diff)
    /\ \A i, j \in DOMAIN captured : captured[i].path.new = captured[j].path.new => i = j

\* The materials of the files captured.
FilesOf(captured) ==
    [i \in DOMAIN captured |->
        [path |-> captured[i].path,
         material |-> LocalMaterial(captured[i].path, captured[i].diff)]]

\* Every anchor is one of a captured file.
AnchoredBy(captured, anchors) ==
    \E k \in Nat : /\ DOMAIN anchors = 1..k
                   /\ \A j \in 1..k : \E i \in DOMAIN captured : anchors[j].path = captured[i].path

\* The anchors that are issued are those of the files.
LEMMA AnchorsOfFiles ==
    ASSUME NEW captured, CapturedWell(captured), NEW identity
    PROVE  AnchoredBy(captured, Anchors(identity, FilesOf(captured)))
  <1> DEFINE files == FilesOf(captured)
             lists == [i \in DOMAIN files |-> files[i].material.lines]
             all == UNION {ToSet(lists[i]) : i \in DOMAIN captured}
             lines == FlattenSeq(lists)
  <1>1. PICK n \in Nat : DOMAIN captured = 1..n
    <2>1. PICK S : captured \in Seq(S)
      BY DEF CapturedWell
    <2> QED BY <2>1
  <1>2. DOMAIN files = 1..n /\ DOMAIN lists = 1..n
        /\ \A i \in 1..n : lists[i] = LocalMaterial(captured[i].path, captured[i].diff).lines
    BY <1>1 DEF FilesOf
  <1>3. \A i \in 1..n : /\ lists[i] \in Seq(ToSet(lists[i]))
                        /\ \A x \in ToSet(lists[i]) : x.path = captured[i].path
    <2> SUFFICES ASSUME NEW i \in 1..n
                 PROVE  /\ lists[i] \in Seq(ToSet(lists[i]))
                        /\ \A x \in ToSet(lists[i]) : x.path = captured[i].path
      OBVIOUS
    <2> DEFINE m == LocalMaterial(captured[i].path, captured[i].diff)
    <2>1. IsDiff(captured[i].diff)
      BY <1>1 DEF CapturedWell
    <2>2. m.lines \in Seq(ToSet(m.lines)) /\ \A x \in ToSet(m.lines) : x.path = captured[i].path
      BY <2>1, MaterialOfFile
    <2>3. lists[i] = m.lines
      BY <1>2
    <2> HIDE DEF m, lists
    <2> QED BY <2>2, <2>3
  <1>4. lists = [i \in 1..n |-> lists[i]]
    BY <1>2
  <1> HIDE DEF lists
  <1>5. \A i \in 1..n : lists[i] \in Seq(all)
    <2> SUFFICES ASSUME NEW i \in 1..n PROVE lists[i] \in Seq(all)
      OBVIOUS
    <2>1. ToSet(lists[i]) \subseteq all
      BY <1>1
    <2> HIDE DEF all
    <2>2. \A A : A \subseteq all => \A t : t \in Seq(A) => t \in Seq(all)
      OBVIOUS
    <2> QED BY <1>3, <2>1, <2>2
  <1>6. lists \in Seq(Seq(all))
    <2> HIDE DEF all
    <2>1. lists \in [1..n -> Seq(all)]
      BY <1>4, <1>5
    <2>2. \A T : \A t : t \in [1..n -> T] => t \in Seq(T) /\ Len(t) = n
      OBVIOUS
    <2> QED BY <2>1, <2>2, Zenon
  <1>7. lines \in Seq(all)
    <2> HIDE DEF all
    <2> QED BY <1>6, FlattenLists
  <1>8. PICK k \in Nat : DOMAIN lines = 1..k /\ \A j \in 1..k : lines[j] \in all
    <2> HIDE DEF all, lines
    <2> QED BY <1>7
  <1>9. \A x \in all : \E i \in DOMAIN captured : x.path = captured[i].path
    <2> SUFFICES ASSUME NEW x \in all PROVE \E i \in DOMAIN captured : x.path = captured[i].path
      OBVIOUS
    <2>1. PICK i \in DOMAIN captured : x \in ToSet(lists[i])
      OBVIOUS
    <2>2. x.path = captured[i].path
      BY <1>1, <1>3, <2>1
    <2> QED BY <2>2
  <1> HIDE DEF all
  <1> DEFINE anchors == Anchors(identity, files)
  <1>10. DOMAIN anchors = 1..k /\ \A j \in 1..k : anchors[j].path = lines[j].path
    <2>1. anchors = [i \in DOMAIN lines |->
            [path |-> lines[i].path, position |-> lines[i].position, line |-> lines[i].line,
             context |-> lines[i].context, id |-> AnchorIdOf(identity, lines[i])]]
      BY DEF Anchors, lists
    <2> HIDE DEF lines, anchors
    <2> QED BY <1>8, <2>1
  <1> HIDE DEF anchors, lines
  <1>11. AnchoredBy(captured, anchors)
    BY <1>8, <1>9, <1>10 DEF AnchoredBy
  <1> QED BY <1>11 DEF anchors

\* The input that is made of a captured file: its anchors are those of its path.
InputOf(f, c, anchors) ==
    /\ IsInput(f) /\ f.path = c.path.new /\ f.roles = RolesOf[c.path.new]
    /\ ToSet(f.anchors) = {anchors[j].id : j \in {l \in DOMAIN anchors : anchors[l].path = c.path}}

LEMMA InputOfFile ==
    ASSUME NEW captured, CapturedWell(captured), NEW anchors, AnchoredBy(captured, anchors),
           NEW i \in DOMAIN captured
    PROVE  InputOf(Input(FilesOf(captured)[i], anchors), captured[i], anchors)
  <1> DEFINE file == FilesOf(captured)[i]
             path == captured[i].path
             mine == {l \in DOMAIN anchors : anchors[l].path = path}
             own == Ascending(mine)
             f == Input(file, anchors)
             ids == [n \in DOMAIN own |-> anchors[own[n]].id]
             diff == LocalMaterial(path, captured[i].diff).diff
  <1>1. file.path = path /\ file.material = LocalMaterial(path, captured[i].diff)
    BY DEF FilesOf
  <1>2. PICK k \in Nat : DOMAIN anchors = 1..k
    BY DEF AnchoredBy
  <1>3. mine \in SUBSET Nat /\ IsFiniteSet(mine)
    <2>1. mine \in SUBSET (1..k) /\ IsFiniteSet(1..k)
      BY <1>2, FS_Interval
    <2>2. \A j \in 1..k : j \in Nat
      OBVIOUS
    <2> HIDE DEF mine
    <2> QED BY <2>1, <2>2, FS_Subset
  <1>4. own \in Seq(mine) /\ ToSet(own) = mine
    <2> HIDE DEF mine
    <2> QED BY <1>3, NumbersInOrder
  <1>5. /\ f.path = path.new /\ f.roles = RolesOf[path.new] /\ f.anchors = ids
        /\ f.objects = IF diff = None THEN <<>> ELSE <<[role |-> "ExactDiff", size |-> Len(diff)]>>
    <2> HIDE DEF file
    <2> QED BY <1>1 DEF Input
  <1>6. path.new \in Nat /\ IsDiff(captured[i].diff)
    BY DEF CapturedWell
  <1>7. f.objects = <<>> \/ \E r : \E n \in Nat : f.objects = <<[role |-> r, size |-> n]>>
    <2>1. IsDiff(diff)
      BY <1>6, MaterialOfFile
    <2> HIDE DEF diff, f
    <2>2. CASE diff = None
      BY <1>5, <2>2
    <2>3. CASE diff # None
      <3>1. PICK S : diff \in Seq(S)
        BY <2>1, <2>3 DEF IsDiff
      <3>2. Len(diff) \in Nat
        BY <3>1
      <3>3. f.objects = <<[role |-> "ExactDiff", size |-> Len(diff)]>>
        BY <1>5, <2>3
      <3> QED BY <3>2, <3>3
    <2> QED BY <2>2, <2>3
  <1>8. ids \in Seq(ToSet(ids)) /\ ToSet(ids) = {anchors[j].id : j \in mine}
    <2>1. PICK n \in Nat : DOMAIN own = 1..n
      <3> HIDE DEF own
      <3> QED BY <1>4
    <2>2. mine = {own[m] : m \in 1..n}
      <3> HIDE DEF own, mine
      <3> QED BY <1>4, <2>1 DEF ToSet
    <2> HIDE DEF own, mine
    <2>3. DOMAIN ids = 1..n /\ \A m \in 1..n : ids[m] = anchors[own[m]].id
      BY <2>1
    <2>4. ids = [m \in 1..n |-> ids[m]]
      BY <2>1
    <2> HIDE DEF ids
    <2>5. ToSet(ids) = {ids[m] : m \in 1..n}
      BY <2>3 DEF ToSet
    <2>6. ids \in [1..n -> ToSet(ids)]
      <3>1. \A m \in 1..n : ids[m] \in ToSet(ids)
        BY <2>5
      <3> QED BY <2>4, <3>1
    <2>7. \A T : \A t : t \in [1..n -> T] => t \in Seq(T) /\ Len(t) = n
      OBVIOUS
    <2>8. ids \in Seq(ToSet(ids))
      BY <2>6, <2>7, Zenon
    <2>9. {ids[m] : m \in 1..n} = {anchors[j].id : j \in {own[m] : m \in 1..n}}
      BY <2>3
    <2> QED BY <2>2, <2>5, <2>8, <2>9
  <1> HIDE DEF f, ids, file
  <1>9. IsInput(f)
    BY <1>5, <1>6, <1>7, <1>8 DEF IsInput
  <1>10. InputOf(f, captured[i], anchors)
    BY <1>5, <1>8, <1>9 DEF InputOf
  <1> QED BY <1>10 DEF f, file

\* PlanAccounts, of the files captured and the context built of them.
ContextAccounts(captured, built) ==
    /\ Len(captured) <= MaxPlanFiles => built.error # "Partition"
    /\ built.error = None =>
        LET plan == built.plan
            omitted == {o.path : o \in plan.omitted}
            included == {f.path : f \in UNION plan.units}
        IN  /\ included \cup omitted = {c.path.new : c \in ToSet(captured)}
            /\ included \cap omitted = {}
            /\ \A p \in included : "secret" \notin RolesOf[p]
            /\ UNION {built.issued[u] : u \in plan.units} =
                    {a.id : a \in {b \in built.anchors : b.path.new \in included}}

\* A plan of the inputs that were made of captured files accounts for them.
LEMMA PlannedAccounts ==
    ASSUME NEW captured, CapturedWell(captured), NEW anchors, AnchoredBy(captured, anchors),
           NEW inputs, inputs = {Input(FilesOf(captured)[i], anchors) : i \in DOMAIN captured},
           NEW plan, PlannedAs(plan, inputs), NEW built,
           built.error = None, built.plan = plan, built.anchors = ToSet(anchors),
           built.issued = IssuedAnchors(plan)
    PROVE  ContextAccounts(captured, built)
  <1> DEFINE in(i) == Input(FilesOf(captured)[i], anchors)
             omitted == {o.path : o \in plan.omitted}
             included == {f.path : f \in UNION plan.units}
             new(i) == captured[i].path.new
  <1>1. PICK kept \in SUBSET inputs :
            /\ (UNION plan.units) = {UnitFile(f) : f \in kept}
            /\ omitted = {f.path : f \in inputs \ kept}
            /\ \A f \in kept : "secret" \notin f.roles
    BY DEF PlannedAs
  <1>2. \A i \in DOMAIN captured :
            /\ in(i).path = new(i) /\ in(i).roles = RolesOf[new(i)]
            /\ ToSet(in(i).anchors) = {anchors[j].id : j \in {l \in DOMAIN anchors :
                                                    anchors[l].path = captured[i].path}}
    BY InputOfFile DEF InputOf
  <1>3. \A i, j \in DOMAIN captured : new(i) = new(j) => i = j
    BY DEF CapturedWell
  <1> HIDE DEF in
  <1>4. inputs = {in(i) : i \in DOMAIN captured}
    BY DEF in
  <1> DEFINE K == {i \in DOMAIN captured : in(i) \in kept}
  <1>5. kept = {in(i) : i \in K}
    BY <1>4
  <1>10. K \in SUBSET DOMAIN captured
    OBVIOUS
  <1>6. \A f : UnitFile(f).path = f.path /\ UnitFile(f).anchors = ToSet(f.anchors)
    BY DEF UnitFile
  <1>7. included = {new(i) : i \in K}
    <2> DEFINE files == UNION plan.units
    <2>1. files = {UnitFile(f) : f \in kept}
      BY <1>1
    <2> HIDE DEF files, K
    <2>2. \A w \in files : \E i \in K : w.path = new(i)
      BY <1>2, <1>5, <1>6, <1>10, <2>1
    <2>3. ASSUME NEW i \in K PROVE \E w \in files : w.path = new(i)
      <3>1. in(i) \in kept /\ in(i).path = new(i)
        BY <1>2, <1>5, <1>10
      <3>2. UnitFile(in(i)) \in files /\ UnitFile(in(i)).path = new(i)
        BY <1>6, <2>1, <3>1
      <3> QED BY <3>2
    <2>4. included = {w.path : w \in files}
      BY DEF files
    <2> HIDE DEF included, new
    <2> QED BY <2>2, <2>3, <2>4
  <1>8. omitted = {new(i) : i \in DOMAIN captured \ K}
    <2>1. omitted = {f.path : f \in inputs \ kept}
      BY <1>1
    <2>2. \A f \in inputs \ kept : \E i \in DOMAIN captured \ K : f.path = new(i)
      <3> SUFFICES ASSUME NEW f \in inputs \ kept
                   PROVE  \E i \in DOMAIN captured \ K : f.path = new(i)
        OBVIOUS
      <3>1. PICK i \in DOMAIN captured : f = in(i)
        BY <1>4
      <3>2. i \notin K /\ f.path = new(i)
        BY <1>2, <3>1
      <3> HIDE DEF K, new
      <3> QED BY <3>2
    <2>3. \A i \in DOMAIN captured \ K : \E f \in inputs \ kept : f.path = new(i)
      BY <1>2, <1>4
    <2> HIDE DEF omitted, K, new
    <2> QED BY <2>1, <2>2, <2>3
  <1>9. {c.path.new : c \in ToSet(captured)} = {new(i) : i \in DOMAIN captured}
    BY DEF ToSet
  <1>11. \A i \in K : "secret" \notin RolesOf[new(i)]
    BY <1>1, <1>2
  <1> DEFINE a(i) == {anchors[j].id : j \in {l \in DOMAIN anchors : anchors[l].path = captured[i].path}}
             issued == UNION {built.issued[u] : u \in plan.units}
             shown == {b.id : b \in {d \in built.anchors : d.path.new \in included}}
  <1>12. issued = UNION {a(i) : i \in K}
    <2>1. \A u \in plan.units : built.issued[u] = UNION {f.anchors : f \in u}
      BY DEF IssuedAnchors
    <2>2. issued = UNION {f.anchors : f \in UNION plan.units}
      <3>1. \A x \in issued : \E u \in plan.units : \E f \in u : x \in f.anchors
        BY <2>1
      <3>2. \A u \in plan.units : \A f \in u : \A x \in f.anchors : x \in issued
        BY <2>1
      <3> HIDE DEF issued
      <3> QED BY <3>1, <3>2
    <2> DEFINE files == UNION plan.units
               of(i) == UnitFile(in(i))
    <2>3. files = {UnitFile(f) : f \in kept} /\ issued = UNION {f.anchors : f \in files}
      BY <1>1, <2>2
    <2> HIDE DEF files, issued, K
    <2>4. files = {of(i) : i \in K}
      BY <1>5, <2>3
    <2>5. \A i \in K : of(i).anchors = a(i)
      BY <1>2, <1>6, <1>10
    <2> HIDE DEF of, a
    <2> QED BY <2>3, <2>4, <2>5
  <1>13. \A x : x \in shown <=> \E j \in DOMAIN anchors : x = anchors[j].id /\ anchors[j].path.new \in included
    <2> HIDE DEF included
    <2>1. built.anchors = {anchors[j] : j \in DOMAIN anchors}
      BY DEF ToSet
    <2> QED BY <2>1
  <1>14. \A x : x \in UNION {a(i) : i \in K}
                <=> \E i \in K : \E j \in DOMAIN anchors :
                        x = anchors[j].id /\ anchors[j].path = captured[i].path
    <2> HIDE DEF K
    <2> QED OBVIOUS
  <1>15. \A j \in DOMAIN anchors :
            anchors[j].path.new \in included
                <=> \E i \in K : anchors[j].path = captured[i].path
    <2> SUFFICES ASSUME NEW j \in DOMAIN anchors
                 PROVE  anchors[j].path.new \in included
                            <=> \E i \in K : anchors[j].path = captured[i].path
      OBVIOUS
    <2>1. PICK m \in DOMAIN captured : anchors[j].path = captured[m].path
      BY DEF AnchoredBy
    <2>2. anchors[j].path.new = new(m)
      BY <2>1
    <2>3. ASSUME anchors[j].path.new \in included PROVE m \in K
      <3>1. PICK i \in K : new(m) = new(i)
        <4> HIDE DEF K, new, included
        <4> QED BY <1>7, <2>2, <2>3
      <3>2. i = m
        BY <1>3, <1>10, <3>1
      <3> QED BY <3>2
    <2>4. ASSUME NEW i \in K, anchors[j].path = captured[i].path
          PROVE  anchors[j].path.new \in included
      <3>1. anchors[j].path.new = new(i)
        BY <2>4
      <3> HIDE DEF K, new, included
      <3> QED BY <1>7, <3>1
    <2> HIDE DEF K, included
    <2> QED BY <2>1, <2>3, <2>4
  <1>16. issued = shown
    <2> HIDE DEF issued, shown, K, included, a
    <2>1. \A x : x \in issued <=> x \in shown
      <3>1. \A x : x \in issued <=> \E i \in K : \E j \in DOMAIN anchors :
                        x = anchors[j].id /\ anchors[j].path = captured[i].path
        BY <1>12, <1>14
      <3> QED BY <1>13, <1>15, <3>1
    <2>2. \A A, B : (\A x : x \in A <=> x \in B) => A = B
      OBVIOUS
    <2> QED BY <2>1, <2>2
  <1> DEFINE all == {c.path.new : c \in ToSet(captured)}
  <1>17. included \cup omitted = all
    <2> HIDE DEF included, omitted, all, K, new
    <2>1. \A i \in DOMAIN captured : i \in K \/ i \in DOMAIN captured \ K
      OBVIOUS
    <2>2. all = {new(i) : i \in DOMAIN captured}
      BY <1>9 DEF all
    <2> QED BY <1>7, <1>8, <1>10, <2>1, <2>2
  <1>18. included \cap omitted = {}
    <2> HIDE DEF included, omitted, K
    <2>1. \A i \in K : \A j \in DOMAIN captured \ K : new(i) # new(j)
      BY <1>3, <1>10
    <2> HIDE DEF new
    <2> QED BY <1>7, <1>8, <2>1
  <1>19. \A p \in included : "secret" \notin RolesOf[p]
    <2> HIDE DEF included, K, new
    <2> QED BY <1>7, <1>11
  <1>20. None # "Partition"
    BY TreeAssumption
  <1> HIDE DEF included, omitted, issued, shown, all, K
  <1> QED BY <1>16, <1>17, <1>18, <1>19, <1>20 DEF ContextAccounts, included, omitted, issued, shown, all

\* The context accounts for what was captured.
LEMMA MadeAccounts ==
    ASSUME NEW captured, CapturedWell(captured), NEW identity,
           NEW policy, PolicyVerdict(policy) = "accepted"
    PROVE  ContextAccounts(captured, BuildLocalContext(identity, captured, policy))
  <1> DEFINE files == FilesOf(captured)
             anchors == Anchors(identity, files)
             inputs == {Input(files[i], anchors) : i \in DOMAIN files}
             plan == Plan(inputs, policy, Budget)
             made == BuildLocalContext(identity, captured, policy)
             broken == {i \in DOMAIN files : files[i].material.error # None}
             twice == Cardinality({files[i].path : i \in DOMAIN files}) # Len(files)
             planned == BuildAnchored("local", identity, anchors, inputs, policy)
  <1>1. PICK n \in Nat : DOMAIN captured = 1..n /\ Len(captured) = n
    <2>1. PICK S : captured \in Seq(S)
      BY DEF CapturedWell
    <2> QED BY <2>1
  <1>2. DOMAIN files = 1..n
        /\ \A i \in 1..n : files[i].material = LocalMaterial(captured[i].path, captured[i].diff)
    BY <1>1 DEF FilesOf
  <1>3. made = CASE broken # {} -> Failed(files[Min(broken)].material.error)
                 [] twice -> Failed("DiffIdentityMismatch")
                 [] OTHER -> planned
    <2>1. made = BuildMaterials("local", identity, files, policy)
      BY DEF BuildLocalContext, FilesOf
    <2> HIDE DEF made, files
    <2> QED BY <2>1 DEF BuildMaterials
  <1>4. AnchoredBy(captured, anchors)
    BY AnchorsOfFiles
  <1> HIDE DEF anchors
  <1>5. inputs = {Input(files[i], anchors) : i \in DOMAIN captured}
    <2> HIDE DEF files
    <2> QED BY <1>1, <1>2
  <1>6. Inputs(inputs) /\ Cardinality(inputs) <= n
    <2> DEFINE in == [i \in 1..n |-> Input(files[i], anchors)]
    <2>1. inputs = {in[i] : i \in 1..n} /\ in \in Surjection(1..n, inputs)
      BY <1>1, <1>2 DEF Surjection
    <2>2. IsFiniteSet(inputs) /\ Cardinality(inputs) <= n
      <3>1. IsFiniteSet(1..n) /\ Cardinality(1..n) = n
        BY FS_Interval
      <3> HIDE DEF inputs, in
      <3> QED BY <2>1, <3>1, FS_Surjection
    <2>3. \A i \in 1..n : IsInput(in[i]) /\ in[i].path = captured[i].path.new
      BY <1>1, <1>4, InputOfFile DEF InputOf
    <2>4. \A i, j \in 1..n : in[i].path = in[j].path => i = j
      BY <1>1, <2>3 DEF CapturedWell
    <2> HIDE DEF in, inputs
    <2>5. \A f \in inputs : IsInput(f)
      BY <2>1, <2>3
    <2>6. \A f, g \in inputs : f.path = g.path => f = g
      BY <2>1, <2>4
    <2> QED BY <2>2, <2>5, <2>6 DEF Inputs
  <1> HIDE DEF inputs
  <1>7. /\ PlannedAs(plan, inputs)
        /\ ReplayVerdict(plan, Budget) = "accepted"
    BY <1>6, BudgetLimits, PlanIsAccepted
  <1> HIDE DEF plan
  <1>8. planned = CASE AnchorTableVerdict(identity, anchors) # "accepted" -> Failed("Anchor")
                    [] PlanVerdict(inputs, policy, Budget) # "accepted" -> Failed("Partition")
                    [] ReplayVerdict(plan, Budget) # "accepted" -> Failed("Partition")
                    [] OTHER -> Built("local", identity, anchors, plan)
    BY DEF BuildAnchored, BuildPlanned, plan
  <1> HIDE DEF planned, made
  <1>9. \A e : Failed(e).error = e
    BY DEF Failed
  <1>10. broken # {} => files[Min(broken)].material.error = "Diff" /\ None # files[Min(broken)].material.error
    <2>1. broken \in SUBSET Nat
      BY <1>2
    <2>2. \A i \in broken : i \in 1..n /\ files[i].material.error # None
      BY <1>2
    <2> HIDE DEF broken, files
    <2> SUFFICES ASSUME broken # {} PROVE files[Min(broken)].material.error = "Diff"
      BY <2>1, <2>2, MinIsOne
    <2>3. Min(broken) \in 1..n /\ files[Min(broken)].material.error # None
      BY <2>1, <2>2, MinIsOne
    <2>4. \A i \in 1..n : IsDiff(captured[i].diff)
      BY <1>1 DEF CapturedWell
    <2>5. \A i \in 1..n : files[i].material.error \in {None, "Diff"}
      BY <1>2, <2>4, MaterialOfFile
    <2> QED BY <2>3, <2>5
  <1> DEFINE built == Built("local", identity, anchors, plan)
  <1>11. /\ built.error = None /\ built.plan = plan /\ built.anchors = ToSet(anchors)
         /\ built.issued = IssuedAnchors(plan)
    BY DEF Built
  <1> HIDE DEF built, broken, twice, files
  <1>12. n <= MaxPlanFiles => PlanVerdict(inputs, policy, Budget) = "accepted"
    <2>1. n <= MaxPlanFiles => Cardinality(inputs) <= MaxPlanFiles
      <3>1. Cardinality(inputs) \in Nat /\ MaxPlanFiles \in Nat
        BY <1>6, FS_CardinalityType, PartitionAssumption DEF Inputs
      <3> QED BY <1>6, <3>1
    <2> QED BY <1>6, <2>1, BudgetLimits, PlanIsMade
  <1>13. \/ made = built
         \/ \E e \in {"Diff", "DiffIdentityMismatch", "Anchor"} : made = Failed(e)
         \/ made = Failed("Partition") /\ ~ (n <= MaxPlanFiles)
    BY <1>3, <1>7, <1>8, <1>10, <1>12 DEF built
  <1>14. ContextAccounts(captured, built)
    <2>1. inputs = {Input(FilesOf(captured)[i], anchors) : i \in DOMAIN captured}
      BY <1>5 DEF files
    <2> QED BY <1>4, <1>7, <1>11, <2>1, PlannedAccounts
  <1>15. ASSUME NEW e \in {"Diff", "DiffIdentityMismatch", "Anchor"}
         PROVE  ContextAccounts(captured, Failed(e))
    <2>1. Failed(e).error # None /\ Failed(e).error # "Partition"
      BY <1>9, TreeAssumption
    <2> QED BY <2>1 DEF ContextAccounts
  <1>16. ASSUME ~ (n <= MaxPlanFiles) PROVE ContextAccounts(captured, Failed("Partition"))
    <2>1. Failed("Partition").error # None
      BY <1>9, TreeAssumption
    <2> QED BY <1>1, <1>16, <2>1 DEF ContextAccounts
  <1>17. ContextAccounts(captured, made)
    BY <1>13, <1>14, <1>15, <1>16
  <1> QED BY <1>17 DEF made

-----------------------------------------------------------------------------
(* What was captured can be planned.                                       *)

\* What was captured can be planned, and the plan accounts for it.
PlanInv ==
    /\ LocalShape
    /\ \A p \in Paths : IsContent(tree[p])
    /\ local.phase # "idle" => local.policy \in Policies
    /\ local.phase = "render" => \A i \in DOMAIN local.captured : IsDiff(local.captured[i].diff)
    /\ local.phase \in {"idle", "open", "list", "hash", "render"} /\ local.round = 1 =>
            local.context = None
    /\ local.context # None /\ local.round = 1 => ContextAccounts(local.captured, local.context)

\* It holds at first, and every step of the review or of the person keeps it.
LEMMA PlanInitially == LocalInit => PlanInv
  <1> SUFFICES ASSUME LocalInit PROVE PlanInv
    OBVIOUS
  <1>1. LocalShape
    BY ShapeInitially
  <1>2. \A p \in Paths : IsContent(tree[p])
    BY ContentAssumption DEF LocalInit
  <1>3. local.phase = "idle" /\ local.context = None
    BY DEF LocalInit, Idle
  <1> QED BY <1>1, <1>2, <1>3 DEF PlanInv

\* The diff of a captured file is a list of lines, if it has one.
LEMMA CapturedIsDiff ==
    ASSUME PlanInv, NEW i \in DOMAIN local.changes, local.phase = "render",
           ~ Unreadable(local.changes[i], tree)
    PROVE  IsDiff(Captured(local.changes[i], tree).diff)
  <1> DEFINE base == BaseIds(local.base)
             change == local.changes[i]
             old == Side(change.old_id)
             now == tree[change.path.new]
             new == IF change.new_id = None THEN <<>> ELSE now
             large == TooLong(old) \/ TooLong(new) \/ Binary(old) \/ Binary(new)
  <1>1. /\ local.base \in DOMAIN BaseFiles /\ DOMAIN local.ids \subseteq Paths
        /\ local.changes = Changes(base, local.ids) /\ Hashed(local.ids)
    BY DEF PlanInv, LocalShape, CaptureInv, Hashed, Eligible
  <1>2. DOMAIN base \subseteq Paths /\ local.changes \in Seq(ChangeSet(base, local.ids))
    BY <1>1, BaseOverPaths, SequenceOfChanges
  <1>3. change \in ChangeSet(base, local.ids)
    BY <1>2
  <1>4. \A p \in DOMAIN base : IsContent(base[p])
    BY <1>1, ContentAssumption, TreeAssumption DEF BaseIds, Files
  <1>5. IsContent(change.old_id) /\ change.path.new \in Paths
    <2>1. \A r \in Renames(base, local.ids) : r[1] \in DOMAIN base /\ r[2] \in DOMAIN local.ids
      BY DEF Renames
    <2>2. /\ RemovedPaths(base, local.ids) \subseteq DOMAIN base
          /\ AddedPaths(base, local.ids) \subseteq DOMAIN local.ids
      BY DEF RemovedPaths, AddedPaths
    <2>3. IsContent(None)
      BY DEF IsContent
    <2>4. <<change.path.old, change.path.new>> \in Renames(base, local.ids) =>
                change.path.old \in DOMAIN base /\ change.path.new \in DOMAIN local.ids
      BY <2>1
    <2> HIDE DEF change, base
    <2>5. \/ /\ change.old_id = base[change.path.old]
             /\ change.path.old \in DOMAIN base /\ change.path.new \in DOMAIN local.ids
          \/ change.old_id = base[change.path.new] /\ change.path.new \in DOMAIN base
          \/ change.old_id = None /\ change.path.new \in DOMAIN local.ids
      <3>1. \A p1, p2, kind, old_id, new_id : Change(p1, p2, kind, old_id, new_id).old_id = old_id
        BY DEF Change
      <3>2. CASE /\ <<change.path.old, change.path.new>> \in Renames(base, local.ids)
                 /\ change = Change(change.path.old, change.path.new, "Renamed",
                                    base[change.path.old], local.ids[change.path.new])
        BY <2>4, <3>1, <3>2
      <3>3. CASE /\ change.path.new \in RemovedPaths(base, local.ids)
                 /\ change = Change(change.path.new, change.path.new, "Deleted",
                                    base[change.path.new], None)
        BY <2>2, <3>1, <3>3
      <3>4. CASE /\ change.path.new \in AddedPaths(base, local.ids)
                 /\ change = Change(change.path.new, change.path.new, "Added",
                                    None, local.ids[change.path.new])
        BY <2>2, <3>1, <3>4
      <3>5. CASE /\ change.path.new \in DOMAIN base \cap DOMAIN local.ids
                 /\ change = Change(change.path.new, change.path.new, "Modified",
                                    base[change.path.new], local.ids[change.path.new])
        BY <3>1, <3>5
      <3>6. /\ change = Change(change.path.old, change.path.new, change.path.kind,
                                change.old_id, change.new_id)
            /\ \/ /\ <<change.path.old, change.path.new>> \in Renames(base, local.ids)
                  /\ change = Change(change.path.old, change.path.new, "Renamed",
                                     base[change.path.old], local.ids[change.path.new])
               \/ /\ change.path.new \in RemovedPaths(base, local.ids)
                  /\ change = Change(change.path.new, change.path.new, "Deleted",
                                     base[change.path.new], None)
               \/ /\ change.path.new \in AddedPaths(base, local.ids)
                  /\ change = Change(change.path.new, change.path.new, "Added",
                                     None, local.ids[change.path.new])
               \/ /\ change.path.new \in DOMAIN base \cap DOMAIN local.ids
                  /\ base[change.path.new] # local.ids[change.path.new]
                  /\ change = Change(change.path.new, change.path.new, "Modified",
                                     base[change.path.new], local.ids[change.path.new])
        BY <1>3, ChangeShape
      <3> QED BY <3>2, <3>3, <3>4, <3>5, <3>6
    <2> QED BY <1>1, <1>2, <1>4, <2>3, <2>5
  <1>6. \E S : old \in Seq(S)
    <2>1. <<>> \in Seq({})
      OBVIOUS
    <2>2. CASE change.old_id = None
      BY <2>1, <2>2 DEF Side
    <2>3. CASE change.old_id # None
      <3>1. old = change.old_id /\ change.old_id \in Seq(ToSet(change.old_id))
        BY <1>5, <2>3 DEF Side, IsContent
      <3> HIDE DEF old, change
      <3> QED BY <3>1
    <2> QED BY <2>2, <2>3
  <1>7. Captured(change, tree).diff = IF large THEN None ELSE Bounded(UnifiedDiff(old, new))
    BY DEF Captured, FileDiff
  <1>8. CASE TooLong(old)
    BY <1>7, <1>8 DEF IsDiff
  <1>9. CASE ~ TooLong(old)
    <2>1. \E S : new \in Seq(S)
      <3>1. <<>> \in Seq({})
        OBVIOUS
      <3>2. CASE change.new_id = None
        BY <3>1, <3>2
      <3>3. CASE change.new_id # None
        <4>1. now # None /\ IsContent(now)
          BY <1>5, <1>9, <3>3 DEF Unreadable, PlanInv
        <4>2. new = now /\ now \in Seq(ToSet(now))
          BY <3>3, <4>1 DEF IsContent
        <4> HIDE DEF new, now
        <4> QED BY <4>2
      <3> QED BY <3>2, <3>3
    <2> DEFINE diff == UnifiedDiff(old, new)
    <2>2. diff = None \/ \E S : diff \in Seq(S)
      <3> HIDE DEF old, new
      <3> QED BY <1>6, <2>1, DiffIsList
    <2>3. Bounded(diff) = None \/ Bounded(diff) = diff
      BY DEF Bounded
    <2> HIDE DEF diff
    <2>4. Captured(change, tree).diff = None \/ Captured(change, tree).diff = diff
      BY <1>7, <2>3 DEF diff
    <2> QED BY <2>2, <2>4 DEF IsDiff
  <1> QED BY <1>8, <1>9

\* Files captured to the last change have paths of their own.
LEMMA CapturedAreWell ==
    ASSUME PlanInv, local.phase = "render"
    PROVE  CapturedWell(local.captured)
  <1> DEFINE base == BaseIds(local.base)
             captured == local.captured
  <1>1. /\ local.base \in DOMAIN BaseFiles /\ DOMAIN local.ids \subseteq Paths
        /\ local.changes = Changes(base, local.ids) /\ CapturedOf(captured, local.changes)
    BY DEF PlanInv, LocalShape, CaptureInv, Hashed, Eligible
  <1>2. /\ DOMAIN base \subseteq Paths /\ local.changes \in Seq(ChangeSet(base, local.ids))
        /\ IsInjective(local.changes)
    BY <1>1, BaseOverPaths, SequenceOfChanges
  <1>3. Distinct(ChangeSet(base, local.ids))
    BY <1>1, <1>2, ChangesDistinct
  <1>4. \A c \in ChangeSet(base, local.ids) : c.path.new \in Nat
    <2>1. \A r \in Renames(base, local.ids) : r[2] \in DOMAIN local.ids
      BY DEF Renames
    <2>2. /\ RemovedPaths(base, local.ids) \subseteq DOMAIN base
          /\ AddedPaths(base, local.ids) \subseteq DOMAIN local.ids
      BY DEF RemovedPaths, AddedPaths
    <2>3. \A a, b : <<a, b>> \in Renames(base, local.ids) => b \in DOMAIN local.ids
      BY <2>1
    <2>4. Paths \subseteq Nat
      BY TreeAssumption
    <2> HIDE DEF base
    <2> SUFFICES ASSUME NEW c \in ChangeSet(base, local.ids) PROVE c.path.new \in Paths
      BY <2>4
    <2> QED BY <1>1, <1>2, <2>2, <2>3, ChangeShape
  <1>5. PICK S : captured \in Seq(S)
    BY <1>1 DEF CapturedOf
  <1>6. \A i \in DOMAIN captured : i \in DOMAIN local.changes /\ captured[i].path = local.changes[i].path
    <2>1. Len(captured) <= Len(local.changes)
          /\ \A i \in DOMAIN captured : captured[i].path = local.changes[i].path
      BY <1>1 DEF CapturedOf
    <2>2. DOMAIN captured = 1..Len(captured) /\ Len(captured) \in Nat
          /\ DOMAIN local.changes = 1..Len(local.changes) /\ Len(local.changes) \in Nat
      BY <1>2, <1>5
    <2> HIDE DEF captured
    <2> QED BY <2>1, <2>2
  <1>7. \A i \in DOMAIN local.changes : local.changes[i] \in ChangeSet(base, local.ids)
    BY <1>2
  <1>8. \A i \in DOMAIN captured : captured[i].path.new \in Nat
    BY <1>4, <1>6, <1>7
  <1>9. \A i, j \in DOMAIN captured : captured[i].path.new = captured[j].path.new => i = j
    BY <1>2, <1>3, <1>6, <1>7 DEF Distinct, IsInjective
  <1>10. \A i \in DOMAIN captured : IsDiff(captured[i].diff)
    BY DEF PlanInv
  <1> QED BY <1>5, <1>8, <1>9, <1>10 DEF CapturedWell

\* Nothing of the plan changes.
PlanKept == local'.context = local.context /\ local'.policy = local.policy /\ local'.round = local.round

LEMMA EndingPlan ==
    ASSUME PlanInv, NEW outcome, Ending(outcome), UNCHANGED tree, local.phase # "idle", LocalShape'
    PROVE  PlanInv'
  <1>1. /\ PlanKept /\ local'.phase = "ended" /\ local'.captured = local.captured
    BY DEF Ending, PlanInv, LocalShape, LocalTypeOK, Idle, PlanKept
  <1> QED BY <1>1 DEF PlanInv, PlanKept

LEMMA PassingPlan ==
    ASSUME PlanInv, PlanKept, UNCHANGED tree, LocalShape',
           local.phase \in {"open", "list", "hash"}, local'.phase \in {"list", "hash", "render"},
           local'.phase = "render" => local'.captured = <<>>
    PROVE  PlanInv'
  BY DEF PlanInv, PlanKept

LEMMA BuildPlan ==
    ASSUME PlanInv, Build, UNCHANGED <<tree, head>>
    PROVE  PlanInv'
  <1> DEFINE identity == Identity(local.base, local.head, local.captured)
             first == [local EXCEPT !.first = identity]
             made == BuildLocalContext(identity, local.captured, local.policy)
             Same(r) == /\ DOMAIN r = DOMAIN Idle /\ r.round = 1 /\ r.policy = local.policy
                        /\ r.captured = local.captured
  <1>1. LocalShape' /\ local'.phase \in {"review", "ended"} /\ local'.round = 1
    BY BuildEffect DEF PlanInv
  <1>2. /\ local.phase = "render" /\ local.round = 1 /\ DOMAIN local = DOMAIN Idle
    BY DEF PlanInv, LocalShape, LocalTypeOK, Build, CaptureDone
  <1>3. Same(first) /\ first.context = local.context
    BY <1>2 DEF Idle
  <1>4. \/ local' = [first EXCEPT !.phase = "ended", !.outcome = "no changes"]
        \/ local' = WithContext(first, made)
    BY DEF Build
  <1>5. ContextAccounts(local.captured, made)
    <2>1. PolicyVerdict(local.policy) = "accepted"
      BY <1>2, PolicyAssumption DEF PlanInv
    <2>2. CapturedWell(local.captured)
      BY <1>2, CapturedAreWell
    <2> QED BY <2>1, <2>2, MadeAccounts
  <1>6. local.policy \in Policies /\ local.context = None
    BY <1>2 DEF PlanInv
  <1> HIDE DEF first, identity, made
  <1>7. Same(local') /\ (local'.context = None \/ local'.context = made)
    <2>1. CASE local' = [first EXCEPT !.phase = "ended", !.outcome = "no changes"]
      BY <1>3, <1>6, <2>1 DEF Idle
    <2>2. CASE local' = WithContext(first, made)
      <3> DEFINE built == [first EXCEPT !.context = made]
      <3>1. Same(built) /\ built.context = made
        BY <1>3 DEF Idle
      <3>2. \/ local' = [built EXCEPT !.phase = "ended", !.outcome = made.error]
            \/ local' = [built EXCEPT !.phase = "ended", !.outcome = "no model"]
            \/ local' = [built EXCEPT !.phase = "review"]
        BY <2>2 DEF WithContext
      <3> HIDE DEF built
      <3>3. DOMAIN built = DOMAIN Idle
        BY <3>1
      <3>4. CASE local' = [built EXCEPT !.phase = "ended", !.outcome = made.error]
        BY <3>1, <3>3, <3>4 DEF Idle
      <3>5. CASE local' = [built EXCEPT !.phase = "ended", !.outcome = "no model"]
        BY <3>1, <3>3, <3>5 DEF Idle
      <3>6. CASE local' = [built EXCEPT !.phase = "review"]
        BY <3>1, <3>3, <3>6 DEF Idle
      <3> QED BY <3>2, <3>4, <3>5, <3>6
    <2> QED BY <1>4, <2>1, <2>2
  <1>8. local'.context # None => ContextAccounts(local'.captured, local'.context)
    BY <1>5, <1>7
  <1> QED BY <1>1, <1>6, <1>7, <1>8 DEF PlanInv

LEMMA PlanKeeps == PlanInv /\ [LocalNext]_localVars => PlanInv'
  <1> SUFFICES ASSUME PlanInv, [LocalNext]_localVars PROVE PlanInv'
    OBVIOUS
  <1>1. LocalShape /\ LocalShape'
    BY ShapeKept DEF PlanInv
  <1>2. CASE UNCHANGED localVars
    BY <1>1, <1>2 DEF localVars, PlanInv
  <1>3. CASE Developer
    <2>1. UNCHANGED local
      BY <1>3 DEF Developer, Edit, Commit, Merge
    <2>2. \A p \in Paths : IsContent(tree'[p])
      <3>1. CASE \E p \in Paths : \E content \in ContentsOf[p] : Edit(p, content)
        <4>0. PICK p \in Paths : \E content \in ContentsOf[p] : Edit(p, content)
          BY <3>1
        <4>1. PICK content \in ContentsOf[p] : tree' = [tree EXCEPT ![p] = content]
          BY <4>0 DEF Edit
        <4>2. IsContent(content) /\ DOMAIN tree = Paths /\ \A q \in Paths : IsContent(tree[q])
          BY ContentAssumption DEF PlanInv, LocalShape, LocalTypeOK
        <4>3. \A q \in Paths : tree'[q] = IF q = p THEN content ELSE tree[q]
          BY <4>1, <4>2
        <4> QED BY <4>2, <4>3
      <3>2. CASE UNCHANGED tree
        BY <3>2 DEF PlanInv
      <3> QED BY <1>3, <3>1, <3>2 DEF Developer, Commit, Merge
    <2> QED BY <1>1, <2>1, <2>2 DEF PlanInv
  <1>4. CASE BuildStep
    BY <1>4, BuildPlan DEF BuildStep, Developed
  <1>5. CASE LocalStep
    <2>1. UNCHANGED <<tree, head>>
      BY <1>5 DEF LocalStep, Developed
    <2>2. CASE \E refs \in References, policy \in Policies : StartReview(refs, policy)
      <3>1. PICK refs \in References, policy \in Policies : StartReview(refs, policy)
        BY <2>2
      <3>2. /\ local'.phase = "open" /\ local'.policy = policy /\ local'.context = local.context
            /\ local'.round = local.round /\ local.round = 1 /\ local.phase = "idle"
        BY <1>1, <3>1 DEF StartReview, LocalShape, LocalTypeOK, Idle
      <3> QED BY <1>1, <2>1, <3>2 DEF PlanInv
    <2>3. CASE OpenCapture
      <3>1. local.phase = "open"
        BY <2>3 DEF OpenCapture
      <3>2. ASSUME NEW base \in DOMAIN BaseFiles, local' = Opened(base) PROVE PlanInv'
        <4>1. PlanKept /\ local'.phase = "list"
          BY <1>1, <3>2 DEF Opened, LocalShape, LocalTypeOK, Idle, PlanKept
        <4> QED BY <1>1, <2>1, <3>1, <4>1, PassingPlan
      <3> QED BY <1>1, <2>1, <2>3, <3>1, <3>2, OpenCases, EndingPlan
    <2>4. CASE List
      <3>1. local.phase = "list"
        BY <2>4 DEF List
      <3>2. CASE conflict
        BY <1>1, <2>1, <2>4, <3>1, <3>2, EndingPlan DEF List, CaptureFails
      <3>3. CASE ~ conflict
        <4>1. PlanKept /\ local'.phase = "hash"
          BY <1>1, <2>4, <3>3 DEF List, LocalShape, LocalTypeOK, Idle, PlanKept
        <4> QED BY <1>1, <2>1, <3>1, <4>1, PassingPlan
      <3> QED BY <3>2, <3>3
    <2>5. CASE Hash
      <3>1. local.phase = "hash" /\ local.captured = <<>>
        BY <1>1, <2>5 DEF Hash, LocalShape, CaptureInv
      <3>2. CASE local' = [local EXCEPT !.phase = "render",
                                        !.changes = Changes(BaseIds(local.base), local.ids)]
        <4>1. PlanKept /\ local'.phase = "render" /\ local'.captured = <<>>
          BY <1>1, <3>1, <3>2 DEF LocalShape, LocalTypeOK, Idle, PlanKept
        <4> QED BY <1>1, <2>1, <3>1, <4>1, PassingPlan
      <3>3. ASSUME NEW p, local' = [local EXCEPT !.ids = Noting(local.ids, p, tree[p])] PROVE PlanInv'
        <4> DEFINE more == Noting(local.ids, p, tree[p])
        <4>1. local' = [local EXCEPT !.ids = more]
          BY <3>3
        <4> HIDE DEF more
        <4>2. PlanKept /\ local'.phase = "hash"
          BY <1>1, <3>1, <4>1 DEF LocalShape, LocalTypeOK, Idle, PlanKept
        <4> QED BY <1>1, <2>1, <3>1, <4>2, PassingPlan
      <3>4. CASE CaptureFails("InvalidPath")
        BY <1>1, <2>1, <3>1, <3>4, EndingPlan DEF CaptureFails
      <3> QED BY <1>1, <2>5, <3>2, <3>3, <3>4, HashCases
    <2>6. CASE Render
      <3> DEFINE n == Len(local.captured) + 1
      <3>1. local.phase = "render"
        BY <2>6 DEF Render
      <3>2. CASE Unreadable(local.changes[n], tree)
        BY <1>1, <2>1, <2>6, <3>1, <3>2, EndingPlan DEF Render, CaptureFails
      <3>3. CASE ~ Unreadable(local.changes[n], tree)
        <4>1. /\ local'.phase = "render"
              /\ DOMAIN local'.captured = DOMAIN local.captured \cup {n}
              /\ n \in DOMAIN local.changes
              /\ local'.captured[n] = Captured(local.changes[n], tree)
              /\ \A i \in DOMAIN local.captured : local'.captured[i] = local.captured[i]
          BY <1>1, <2>1, <2>6, <3>3, RenderEffect
        <4>2. PlanKept
          <5> DEFINE more == Append(local.captured, Captured(local.changes[n], tree))
          <5>1. local' = [local EXCEPT !.captured = more]
            BY <2>6, <3>3 DEF Render
          <5> HIDE DEF more
          <5> QED BY <1>1, <5>1 DEF LocalShape, LocalTypeOK, Idle, PlanKept
        <4> HIDE DEF n
        <4>3. IsDiff(local'.captured[n].diff)
          BY <3>1, <3>3, <4>1, CapturedIsDiff
        <4>4. \A i \in DOMAIN local'.captured : IsDiff(local'.captured[i].diff)
          BY <3>1, <4>1, <4>3 DEF PlanInv
        <4> QED BY <1>1, <2>1, <3>1, <4>1, <4>2, <4>4 DEF PlanInv, PlanKept
      <3> QED BY <3>2, <3>3
    <2>7. CASE Reviewed
      <3>1. local'.phase = "open" /\ local'.round = 2 /\ local'.policy = local.policy
            /\ local.phase = "review"
        BY <1>1, <2>7 DEF Reviewed, LocalShape, LocalTypeOK, Idle
      <3> QED BY <1>1, <2>1, <3>1 DEF PlanInv
    <2>8. CASE Compare
      BY <1>1, <2>1, <2>8, EndingPlan DEF Compare, CaptureDone
    <2> QED BY <1>5, <2>2, <2>3, <2>4, <2>5, <2>6, <2>7, <2>8 DEF LocalStep
  <1> QED BY <1>2, <1>3, <1>4, <1>5 DEF LocalNext

\* build_partition_plan and validate_replay: whatever was edited while files
\* were read, every captured file is in the units of the plan or omitted, a
\* secret is in none, the anchors issued are those of the files put before the
\* model, and the plan passes the check the builder ends with.
THEOREM PlanAccountsHolds == LocalInit /\ [][LocalNext]_localVars => []PlanAccounts
  <1>1. PlanInv => PlanAccounts
    BY DEF PlanInv, PlanAccounts, ContextAccounts
  <1> QED BY <1>1, PlanInitially, PlanKeeps, PTL

-----------------------------------------------------------------------------
(* A job that talks to GitHub.                                             *)

InActions(setup) == Value(setup.environment, "GITHUB_ACTIONS") = "true"

\* The web address of the server that the event or the operator names.
HomeUrl(setup) ==
    LET named(v) == IF Value(setup.environment, v) = None THEN Public
                    ELSE Value(setup.environment, v)
    IN  IF InActions(setup) THEN named("GITHUB_SERVER_URL")
        ELSE named("REVOOT_GITHUB_SERVER_URL")

IsSlug(slug) == slug \in Seq(STRING) /\ SlugValid(slug)

\* The contexts agree with the setup.
SetOut(j) ==
    /\ j.setup \in Setups
    /\ InActions(j.setup) <=> j.event # None
    /\ InActions(j.setup) =>
        /\ j.event.server = Server(HomeUrl(j.setup))
        /\ j.event.target = j.setup.event.event.repository.name /\ IsSlug(j.event.target)
        /\ j.event.number = j.setup.event.event.number
    /\ ~InActions(j.setup) =>
        \/ j.expected = None /\ HomeUrl(j.setup) = Public
        \/ j.expected # None /\ j.expected = Server(HomeUrl(j.setup))

\* The discovery found the server, and a repository the setup names.
FoundHome(j) ==
    /\ j.found.remote.server = Server(HomeUrl(j.setup))
    /\ IsSlug(j.found.remote.repository)
    /\ ~InActions(j.setup) =>
        \E r \in j.setup.remotes : j.found.remote.repository = r.url.path

\* What the job is about.
Aimed(j) ==
    /\ IsSlug(j.target.repository)
    /\ InActions(j.setup) =>
        /\ j.target.repository = j.setup.event.event.repository.name
        /\ j.target.number = j.setup.event.event.number
    /\ ~InActions(j.setup) =>
        j.target.repository \in {j.setup.repository} \cup {r.url.path : r \in j.setup.remotes}

\* An address the gateway permits under these blocks.
Permitted(blocks, a) ==
    \/ Class(a) = "Public"
    \/ Class(a) = "Private" /\ \E b \in ToSet(blocks) : InBlock(b, a)

\* The client is of the server's interface, pinned to permitted addresses.
Connected(j) ==
    /\ j.client.host = Server(HomeUrl(j.setup)).api.host
    /\ j.client.port = Port(HomeUrl(j.setup))
    /\ j.client.root = Server(HomeUrl(j.setup)).api.path
    /\ \A a \in j.client.pins : Permitted(j.setup.blocks, a)

\* What TokenStaysHome says of a request.
StaysHome(setup, s) ==
    LET event == setup.event.event
        url == HomeUrl(setup)
        public == url.host = "github.com" /\ Port(url) = 443
    IN  /\ Class(s.address) \notin {"Metadata", "Loopback", "LinkLocal", "Unspecified"}
        /\ Class(s.address) = "Private" =>
                \E b \in ToSet(setup.blocks) : InBlock(b, s.address)
        /\ s.host = IF public THEN "api.github.com" ELSE url.host
        /\ s.port = Port(url)
        /\ s.path.root = IF public THEN <<>> ELSE
                         IF s.path.repository = None THEN <<"api">> ELSE <<"api", "v3">>
        /\ s.path.repository # None =>
            IF InActions(setup)
            THEN /\ s.path.repository = event.repository.name
                 /\ s.path.call[2] = ToString(event.number)
            ELSE s.path.repository \in {setup.repository} \cup {r.url.path : r \in setup.remotes}

JobInv ==
    /\ DOMAIN job = DOMAIN NoSetup
    /\ job.phase \in {"idle", "discover", "target", "connect"} => sent = {}
    /\ job.phase \in {"discover", "target", "connect", "talk"} => SetOut(job)
    /\ job.phase \in {"target", "connect", "talk"} => FoundHome(job)
    /\ job.phase \in {"connect", "talk"} => Aimed(job)
    /\ job.phase = "talk" => Connected(job)
    /\ \A s \in sent : StaysHome(job.setup, s)

-----------------------------------------------------------------------------
LEMMA PortOfHome ==
    ASSUME NEW url
    PROVE  Server(url).port = Port(url) /\ Port(Server(url).api) = Port(url)
BY DEF Server, Port

\* The classifications give classes, so that no denial is None.
LEMMA ClassIsClass == \A a : Class(a) \in Classes
<1>1. ASSUME NEW a PROVE ClassV4(a) \in Classes
  BY SMTT(60) DEF ClassV4, Classes
<1>2. ASSUME NEW a PROVE ClassV6(a) \in Classes
  <2> DEFINE unspecified == a = <<0, 0, 0, 0, 0, 0, 0, 0>>
             loopback == a = <<0, 0, 0, 0, 0, 0, 0, 1>>
             metadata == a \in MetadataV6
             transition == \/ Starts(a, <<0, 0, 0, 0, 0, 65535>>) \/ Starts(a, <<100, 65435>>)
                           \/ a[1] = 8194
             private == a[1] \in 64512..65023
             linkLocal == a[1] \in 65152..65215
             multicast == a[1] >= 65280
             documentation == \/ Starts(a, <<8193, 3512>>)
                              \/ (a[1] = 16383 /\ a[2] < 4096)
             benchmark == Starts(a, <<8193, 2, 0>>)
             reserved == (a[1] = 8193 /\ a[2] <= 511) \/ Starts(a, <<256, 0, 0, 0>>)
             public == a[1] \in 8192..16383
  <2>1. ClassV6(a) =
          CASE unspecified -> "Unspecified" [] loopback -> "Loopback" [] metadata -> "Metadata"
            [] transition -> "Transition" [] private -> "Private" [] linkLocal -> "LinkLocal"
            [] multicast -> "Multicast" [] documentation -> "Documentation"
            [] benchmark -> "Benchmark" [] reserved -> "Reserved" [] public -> "Public"
            [] OTHER -> "Reserved"
    BY SMTT(60) DEF ClassV6
  <2> HIDE DEF unspecified, loopback, metadata, transition, private, linkLocal, multicast,
               documentation, benchmark, reserved, public
  <2> QED  BY <2>1, SMTT(60) DEF Classes
<1> QED  BY <1>1, <1>2 DEF Class

LEMMA DenialIsNot ==
    ASSUME NEW p, NEW answers, NEW i,
           AnswerDenial(p, answers, i) = None
    PROVE  AddressPermitted(p, answers[i].address)
<1>1. <<"TtlOutOfBounds">> # None /\ <<"DuplicateAddress">> # None
  BY EgressAssumption DEF Denials
<1>2. <<"AddressClassDenied", Class(answers[i].address)>> # None
  BY EgressAssumption, ClassIsClass DEF Denials
<1> QED  BY <1>1, <1>2 DEF AnswerDenial

LEMMA NoBadAnswer ==
    ASSUME NEW p, NEW answers, NEW n \in Nat, DOMAIN answers = 1..n,
           DnsDenial(p, answers) = None, answers # <<>>
    PROVE  \A i \in DOMAIN answers : AddressPermitted(p, answers[i].address)
<1> DEFINE bad == {i \in DOMAIN answers : AnswerDenial(p, answers, i) # None}
           least == CHOOSE i \in bad : \A j \in bad : i <= j
<1>1. bad # {} => least \in bad
  <2> SUFFICES ASSUME bad # {} PROVE least \in bad
    OBVIOUS
  <2>1. bad \subseteq Nat
    OBVIOUS
  <2> HIDE DEF bad
  <2> QED  BY <2>1, MinIsOne DEF Min
<1>2. <<"NoAnswers">> # None /\ <<"TooManyAnswers">> # None
  BY EgressAssumption DEF Denials
<1>3. bad = {}
  <2> SUFFICES ASSUME bad # {} PROVE FALSE
    OBVIOUS
  <2>1. AnswerDenial(p, answers, least) # None
    BY <1>1
  <2>2. DnsDenial(p, answers) # None
    BY <1>2, <2>1 DEF DnsDenial
  <2> QED  BY <2>2
<1> QED  BY <1>3, DenialIsNot

\* authorize_resolved_provider pins permitted addresses.
LEMMA PinsPermitted ==
    ASSUME NEW adapter, NEW endpoint, NEW addresses, NEW ca, NEW blocks,
           AuthorizeResolved(adapter, endpoint, addresses, ca, blocks).allowed
    PROVE  \A a \in AuthorizeResolved(adapter, endpoint, addresses, ca, blocks).resolution.pins :
                Permitted(blocks, a)
<1> DEFINE policy == StandardPolicy(adapter, endpoint, ca, blocks)
           route == StandardRoute(endpoint, addresses)
           n == Cardinality(addresses)
           auth == AuthorizeResolved(adapter, endpoint, addresses, ca, blocks)
<1>1. n \in 1..StandardAnswers /\ auth = Authorize(policy, adapter, endpoint, route)
  BY DEF AuthorizeResolved, Denied
<1>2. n \in Nat /\ n >= 1
  BY <1>1, EgressAssumption
<1>3. policy.proxy = None /\ policy.upstream_dns.blocks = blocks
  BY DEF StandardPolicy
<1>4. /\ DnsDenial(policy.upstream_dns, route.dns.answers) = None
      /\ auth.resolution = Resolution(route.dns)
  <2> HIDE DEF policy, route, auth
  <2>1. auth.allowed
    BY DEF auth
  <2> QED  BY <1>1, <1>3, <2>1 DEF Authorize, Denied
<1>5. DOMAIN route.dns.answers = 1..n /\ route.dns.answers # <<>>
  BY <1>2 DEF StandardRoute
<1>6. \A i \in DOMAIN route.dns.answers :
        AddressPermitted(policy.upstream_dns, route.dns.answers[i].address)
  <2> HIDE DEF policy, route, n
  <2> QED  BY <1>2, <1>4, <1>5, NoBadAnswer
<1>7. \A a \in Resolution(route.dns).pins :
        \E i \in DOMAIN route.dns.answers : a = route.dns.answers[i].address
  <2> HIDE DEF route
  <2> QED  BY DEF Resolution
<1>8. \A a : AddressPermitted(policy.upstream_dns, a) => Permitted(blocks, a)
  <2> HIDE DEF policy
  <2> QED  BY <1>3 DEF AddressPermitted, Permitted
<1> HIDE DEF policy, route, n, auth
<1> QED  BY <1>4, <1>6, <1>7, <1>8 DEF auth

\* A client is of the root it was made for, and of the authorized addresses.
LEMMA ClientFits ==
    ASSUME NEW url, NEW ca, NEW auth, Client(url, ca, auth).accepted
    PROVE  /\ auth.allowed
           /\ Client(url, ca, auth).host = url.host
           /\ Client(url, ca, auth).port = Port(url)
           /\ Client(url, ca, auth).root = url.path
           /\ Client(url, ca, auth).root \in {<<>>, <<"api", "v3">>}
           /\ Client(url, ca, auth).pins = auth.resolution.pins
BY DEF Client, Refused, ApiRootValid, AuthorizationFits

\* The discoveries give the server that is expected.
LEMMA RemoteServer ==
    ASSUME NEW url, NEW expected, Remote(url, expected) # None
    PROVE  /\ Remote(url, expected).server = IF expected = None THEN Server(Public) ELSE expected
           /\ Remote(url, expected).repository = url.path
           /\ SlugValid(url.path)
BY DEF Remote

LEMMA DiscoveredRemote ==
    ASSUME NEW repository, NEW expected, Discovered(repository, expected).accepted
    PROVE  \E r \in repository.remotes :
                /\ Remote(r.url, expected) # None
                /\ Discovered(repository, expected).remote = Remote(r.url, expected)
<1> DEFINE known == {r \in repository.remotes : Remote(r.url, expected) # None}
           named == {r \in known : r.name = "origin"}
           candidates == {Remote(r.url, expected) : r \in IF named # {} THEN named ELSE known}
<1>1. /\ candidates # {}
      /\ Discovered(repository, expected).remote = CHOOSE c \in candidates : TRUE
  BY DEF Discovered, Refused
<1>2. Discovered(repository, expected).remote \in candidates
  BY <1>1
<1>3. PICK r \in IF named # {} THEN named ELSE known :
        Discovered(repository, expected).remote = Remote(r.url, expected)
  BY <1>2
<1> QED  BY <1>3

LEMMA DiscoveredActions ==
    ASSUME NEW repository, NEW event, DiscoveredInActions(repository, event).accepted
    PROVE  /\ DiscoveredInActions(repository, event).remote.server = event.server
           /\ DiscoveredInActions(repository, event).remote.repository = event.target
BY DEF DiscoveredInActions, Refused

\* A call about the pull request names its number.
LEMMA CallNumber ==
    ASSUME NEW target, NEW call \in Calls(target), call # <<"graphql">>
    PROVE  call[2] = ToString(target.number)
BY DEF Calls

LEMMA StaysHomeAll == TokenStaysHome <=> \A s \in sent : StaysHome(job.setup, s)
BY Zenon DEF TokenStaysHome, StaysHome, InActions, HomeUrl

\* The contexts.
LEMMA RefusedIsNot == \A why : ~Refused(why).accepted
BY DEF Refused

LEMMA EventOfSetup ==
    ASSUME NEW setup \in Setups, NEW event, event = Classified(setup.environment, setup.event),
           event # None, event.accepted
    PROVE  /\ InActions(setup)
           /\ event.server = Server(HomeUrl(setup))
           /\ event.target = setup.event.event.repository.name /\ IsSlug(event.target)
           /\ event.number = setup.event.event.number
<1> DEFINE url == IF Value(setup.environment, "GITHUB_SERVER_URL") = None THEN Public
                  ELSE Value(setup.environment, "GITHUB_SERVER_URL")
           e == setup.event.event
<1>1. /\ InActions(setup) /\ event = Event(e, url)
      /\ setup.event.fault \notin {"unavailable", "not a file"}
  <2>1. \/ event \in {Refused("ContextMismatch"), Refused("MissingActionsContext"),
                     Refused("UnsupportedActionsEvent"), Refused("EventUnavailable"),
                     Refused("EventTooLarge")}
        \/ /\ InActions(setup) /\ event = Event(e, url)
           /\ setup.event.fault \notin {"unavailable", "not a file"}
    <3> DEFINE environment == setup.environment
               file == setup.event
               repeats == Repeats(environment, EventNames)
               tooLarge == file.fault = "not a file" \/ file.event.bytes > MaxEventBytes
               name == Value(environment, "GITHUB_EVENT_NAME")
               path == Value(environment, "GITHUB_EVENT_PATH")
               opened == Event(e, url)
    <3>1. event =
            CASE repeats -> Refused("ContextMismatch")
              [] ~InActions(setup) -> None
              [] name = None -> Refused("MissingActionsContext")
              [] name # "pull_request" -> Refused("UnsupportedActionsEvent")
              [] path = None -> Refused("MissingActionsContext")
              [] file.fault = "unavailable" -> Refused("EventUnavailable")
              [] tooLarge -> Refused("EventTooLarge")
              [] OTHER -> opened
      BY Zenon DEF Classified, InActions
    <3>2. ~tooLarge => file.fault # "not a file"
      OBVIOUS
    <3> HIDE DEF repeats, tooLarge, name, path, opened, file
    <3>3. \/ event \in {Refused("ContextMismatch"), Refused("MissingActionsContext"),
                        Refused("UnsupportedActionsEvent"), Refused("EventUnavailable"),
                        Refused("EventTooLarge")}
          \/ InActions(setup) /\ event = opened /\ ~tooLarge /\ file.fault # "unavailable"
      BY <3>1
    <3> QED  BY <3>2, <3>3 DEF opened, file
  <2> QED  BY <2>1, RefusedIsNot, Zenon
<1>2. url = HomeUrl(setup)
  BY <1>1 DEF HomeUrl
<1>3. e.repository.name \in Seq(STRING)
  BY <1>1, SetupAssumption
<1> HIDE DEF url, e
<1>4. /\ EventVerdict(e, url) = "accepted"
      /\ event.server = Server(url) /\ event.target = e.repository.name
      /\ event.number = e.number
  <2>1. CASE EventVerdict(e, url) # "accepted"
    <3>1. event = Refused(EventVerdict(e, url))
      BY <1>1, <2>1 DEF Event
    <3> QED  BY <3>1, RefusedIsNot, Zenon
  <2>2. CASE EventVerdict(e, url) = "accepted"
    <3> DEFINE fork == e.head.repo.id # e.base.repo.id
    <3>1. event = [accepted |-> TRUE, server |-> Server(url),
                   target |-> e.repository.name, target_id |-> e.repository.id,
                   source |-> e.head.repo.name, number |-> e.number,
                   base |-> e.base.sha, head |-> e.head.sha, fork |-> fork]
      BY <1>1, <2>2, Zenon DEF Event
    <3> HIDE DEF fork
    <3> QED  BY <2>2, <3>1
  <2> QED  BY <2>1, <2>2
<1>5. SlugValid(e.repository.name)
  BY <1>4 DEF EventVerdict
<1> QED  BY <1>1, <1>2, <1>3, <1>4, <1>5 DEF IsSlug, e

LEMMA NoEventOfSetup ==
    ASSUME NEW setup \in Setups, Classified(setup.environment, setup.event) = None
    PROVE  ~InActions(setup)
BY SetupAssumption DEF InActions

LEMMA ServerOfSetup ==
    ASSUME NEW setup \in Setups, ~InActions(setup),
           NEW c, c = ConfiguredServer(setup.environment), c = None \/ c.accepted
    PROVE  \/ c = None /\ HomeUrl(setup) = Public
           \/ c # None /\ c.server # None /\ c.server = Server(HomeUrl(setup))
<1> DEFINE url == Value(setup.environment, "REVOOT_GITHUB_SERVER_URL")
<1>1. HomeUrl(setup) = IF url = None THEN Public ELSE url
  BY DEF HomeUrl
<1>2. url # None => Server(url) # None /\ c # None
  BY SetupAssumption
<1>3. c # None => url # None /\ c.server = Server(url)
  <2>1. \/ c \in {None, Refused("defined twice"), Refused("not an origin")}
        \/ url # None /\ c = [accepted |-> TRUE, server |-> Server(url)]
    BY DEF ConfiguredServer
  <2>2. c # None => c \notin {Refused("defined twice"), Refused("not an origin")}
    BY RefusedIsNot, Zenon
  <2> HIDE DEF url
  <2>3. c # None => url # None /\ c = [accepted |-> TRUE, server |-> Server(url)]
    BY <2>1, <2>2, Zenon
  <2> QED  BY <2>3
<1> HIDE DEF url
<1> QED  BY <1>1, <1>2, <1>3

-----------------------------------------------------------------------------
LEMMA JobInitially == GitHubInit => JobInv
BY DEF GitHubInit, JobInv, NoSetup

\* The end of a job leaves its setup and what was sent.
LEMMA EndKeeps ==
    ASSUME JobInv, NEW outcome, JobEnds(outcome)
    PROVE  JobInv'
<1>1. /\ job'.phase = "ended" /\ job'.setup = job.setup /\ sent' = sent
      /\ DOMAIN job' = DOMAIN NoSetup
  BY DEF JobInv, JobEnds, NoSetup
<1> QED  BY <1>1 DEF JobInv

LEMMA BeginKeeps ==
    ASSUME JobInv, NEW setup \in Setups, BeginJob(setup)
    PROVE  JobInv'
<1> DEFINE event == Classified(setup.environment, setup.event)
           configured == ConfiguredServer(setup.environment)
           expected == IF event # None THEN event.server
                       ELSE IF configured # None THEN configured.server ELSE None
           started == [NoSetup EXCEPT !.phase = "discover", !.setup = setup, !.event = event,
                                    !.expected = expected]
<1>1. sent = {}
  BY DEF BeginJob, JobInv
<1>2. CASE \E outcome : JobEnds(outcome)
  BY <1>2, EndKeeps
<1>3. CASE /\ event = None \/ event.accepted
           /\ configured = None \/ configured.accepted
           /\ job' = started /\ sent' = sent
  <2>1. /\ started.phase = "discover" /\ started.setup = setup /\ started.event = event
        /\ started.expected = expected /\ DOMAIN started = DOMAIN NoSetup
    BY DEF NoSetup
  <2>2. SetOut(started)
    <3>1. CASE event = None
      <4>1. ~InActions(setup)
        BY <3>1, NoEventOfSetup
      <4>2. \/ expected = None /\ HomeUrl(setup) = Public
            \/ expected # None /\ expected = Server(HomeUrl(setup))
        BY <1>3, <3>1, <4>1, ServerOfSetup
      <4> HIDE DEF started, event, expected
      <4> QED  BY <2>1, <3>1, <4>1, <4>2 DEF SetOut
    <3>2. CASE event # None
      <4>1. /\ InActions(setup)
            /\ event.server = Server(HomeUrl(setup))
            /\ event.target = setup.event.event.repository.name /\ IsSlug(event.target)
            /\ event.number = setup.event.event.number
        BY <1>3, <3>2, EventOfSetup
      <4> HIDE DEF started, event, expected
      <4> QED  BY <2>1, <3>2, <4>1 DEF SetOut
    <3> QED  BY <3>1, <3>2
  <2> HIDE DEF started
  <2> QED  BY <1>1, <1>3, <2>1, <2>2 DEF JobInv
<1> QED
  <2>1. \/ event # None /\ ~event.accepted /\ JobEnds(event.why)
        \/ configured # None /\ ~configured.accepted /\ JobEnds(configured.why)
        \/ /\ event = None \/ event.accepted
           /\ configured = None \/ configured.accepted
           /\ job' = started /\ sent' = sent
    BY DEF BeginJob, Advance, NoSetup
  <2> QED  BY <1>2, <1>3, <2>1

LEMMA DiscoverKeeps == JobInv /\ Discover => JobInv'
<1> SUFFICES ASSUME JobInv, Discover PROVE JobInv'
  OBVIOUS
<1> DEFINE repository == [repository |-> TRUE, head |-> checkout, remotes |-> job.setup.remotes]
           found == IF job.event # None THEN DiscoveredInActions(repository, job.event)
                    ELSE Discovered(repository, job.expected)
           next == [job EXCEPT !.phase = "target", !.found = found]
<1>1. sent = {} /\ SetOut(job) /\ DOMAIN job = DOMAIN NoSetup
  BY DEF JobInv, Discover
<1>2. CASE \E outcome : JobEnds(outcome)
  BY <1>2, EndKeeps
<1>3. CASE found.accepted /\ job' = next /\ sent' = sent
  <2>1. /\ next.phase = "target" /\ next.setup = job.setup /\ next.event = job.event
        /\ next.expected = job.expected /\ next.found = found /\ DOMAIN next = DOMAIN NoSetup
    BY <1>1 DEF NoSetup
  <2>2. SetOut(next)
    <3> HIDE DEF next
    <3> QED  BY <1>1, <2>1 DEF SetOut
  <2>3. FoundHome(next)
    <3>1. CASE job.event # None
      <4>1. /\ found.remote.server = job.event.server
            /\ found.remote.repository = job.event.target
        BY <1>3, <3>1, DiscoveredActions
      <4> HIDE DEF next, found
      <4> QED  BY <1>1, <2>1, <3>1, <4>1 DEF SetOut, FoundHome
    <3>2. CASE job.event = None
      <4>1. PICK r \in repository.remotes :
                /\ Remote(r.url, job.expected) # None
                /\ found.remote = Remote(r.url, job.expected)
        BY <1>3, <3>2, DiscoveredRemote
      <4>2. /\ found.remote.server = IF job.expected = None THEN Server(Public) ELSE job.expected
            /\ found.remote.repository = r.url.path /\ SlugValid(r.url.path)
        BY <4>1, RemoteServer
      <4>3. r \in job.setup.remotes /\ r.url.path \in Seq(STRING)
        BY <1>1, SetupAssumption DEF SetOut
      <4> HIDE DEF next, found, repository
      <4>4. found.remote.server = Server(HomeUrl(job.setup))
        BY <1>1, <3>2, <4>2 DEF SetOut
      <4> QED  BY <2>1, <4>2, <4>3, <4>4 DEF FoundHome, IsSlug
    <3> QED  BY <3>1, <3>2
  <2> HIDE DEF next, found
  <2> QED  BY <1>1, <1>3, <2>1, <2>2, <2>3 DEF JobInv
<1> QED
  <2>1. \/ found.accepted /\ job' = next /\ sent' = sent
        \/ JobEnds(found.why)
    BY DEF Discover, Advance
  <2> QED  BY <1>2, <1>3, <2>1

\* The target is that of the event, or of the command line and the checkout.
LEMMA TargetAims ==
    ASSUME NEW j, SetOut(j), FoundHome(j), Target(j).accepted
    PROVE  /\ IsSlug(Target(j).repository)
           /\ InActions(j.setup) =>
                /\ Target(j).repository = j.setup.event.event.repository.name
                /\ Target(j).number = j.setup.event.event.number
           /\ ~InActions(j.setup) =>
                Target(j).repository \in
                    {j.setup.repository} \cup {r.url.path : r \in j.setup.remotes}
<1> DEFINE named == IF j.setup.repository # None THEN j.setup.repository
                    ELSE j.found.remote.repository
<1>1. \/ /\ j.event = None /\ Target(j).repository = named
      \/ /\ j.event # None /\ Target(j).repository = j.event.target
         /\ Target(j).number = j.event.number
  <2>1. \/ Target(j) \in {Refused("--pr conflicts"), Refused("--repo conflicts"),
                          Refused("--pr required")}
        \/ /\ j.event = None
           /\ Target(j) = [accepted |-> TRUE, repository |-> named,
                           number |-> j.setup.number, fork |-> FALSE]
        \/ /\ j.event # None
           /\ Target(j) = [accepted |-> TRUE, repository |-> j.event.target,
                           number |-> j.event.number, fork |-> j.event.fork]
    BY DEF Target
  <2>2. Target(j) \notin {Refused("--pr conflicts"), Refused("--repo conflicts"),
                          Refused("--pr required")}
    BY RefusedIsNot, Zenon
  <2> DEFINE t == Target(j)
             byNumber == [accepted |-> TRUE, repository |-> named,
                          number |-> j.setup.number, fork |-> FALSE]
             byEvent == [accepted |-> TRUE, repository |-> j.event.target,
                         number |-> j.event.number, fork |-> j.event.fork]
  <2>3. \/ j.event = None /\ t = byNumber
        \/ j.event # None /\ t = byEvent
    BY <2>1, <2>2, Zenon
  <2>4. byNumber.repository = named
    OBVIOUS
  <2>5. byEvent.repository = j.event.target /\ byEvent.number = j.event.number
    OBVIOUS
  <2> HIDE DEF named, byNumber, byEvent, t
  <2>6. \/ j.event = None /\ t.repository = named
        \/ j.event # None /\ t.repository = j.event.target /\ t.number = j.event.number
    BY <2>3, <2>4, <2>5
  <2> QED  BY <2>6 DEF t
<1>2. IsSlug(named) /\ (~InActions(j.setup) =>
        named \in {j.setup.repository} \cup {r.url.path : r \in j.setup.remotes})
  BY SetupAssumption DEF SetOut, FoundHome, IsSlug
<1> DEFINE t == Target(j)
<1> HIDE DEF named, t
<1>3. CASE j.event = None /\ t.repository = named
  BY <1>2, <1>3 DEF SetOut, t
<1>4. CASE j.event # None /\ t.repository = j.event.target /\ t.number = j.event.number
  BY <1>4 DEF SetOut, t
<1> QED  BY <1>1, <1>3, <1>4 DEF t

LEMMA SelectKeeps == JobInv /\ Select => JobInv'
<1> SUFFICES ASSUME JobInv, Select PROVE JobInv'
  OBVIOUS
<1> DEFINE target == Target(job)
           token == LoadedToken(job.setup.environment)
           next == [job EXCEPT !.phase = "connect", !.target = target, !.token = token.source]
<1>1. sent = {} /\ SetOut(job) /\ FoundHome(job) /\ DOMAIN job = DOMAIN NoSetup
  BY DEF JobInv, Select
<1>2. CASE \E outcome : JobEnds(outcome)
  BY <1>2, EndKeeps
<1>3. CASE target.accepted /\ job' = next /\ sent' = sent
  <2>1. /\ next.phase = "connect" /\ next.setup = job.setup /\ next.event = job.event
        /\ next.expected = job.expected /\ next.found = job.found /\ next.target = target
        /\ DOMAIN next = DOMAIN NoSetup
    BY <1>1 DEF NoSetup
  <2> HIDE DEF next
  <2>2. SetOut(next) /\ FoundHome(next)
    BY <1>1, <2>1 DEF SetOut, FoundHome
  <2>3. Aimed(next)
    BY <1>1, <1>3, <2>1, TargetAims DEF Aimed
  <2> HIDE DEF target
  <2> QED  BY <1>1, <1>3, <2>1, <2>2, <2>3 DEF JobInv
<1> QED
  <2>1. \/ target.accepted /\ job' = next /\ sent' = sent
        \/ \E outcome : JobEnds(outcome)
    BY DEF Select, Advance
  <2> QED  BY <1>2, <1>3, <2>1

LEMMA ConnectKeeps == JobInv /\ Connect => JobInv'
<1> SUFFICES ASSUME JobInv, Connect PROVE JobInv'
  OBVIOUS
<1> DEFINE root == job.found.remote.server.api
           api == [scheme |-> "https", user |-> "", host |-> root.host, port |-> root.port,
                   path |-> root.path, extra |-> None]
           ca == IF job.setup.bundle = None THEN "bundled" ELSE job.setup.bundle.digest
           addresses == IF api.host \in Hosts THEN net[api.host] ELSE {}
           auth == Authorization(api, addresses, ca, job.setup.blocks)
           client == Client(api, ca, auth)
           next == [job EXCEPT !.phase = "talk", !.client = client]
<1>1. sent = {} /\ SetOut(job) /\ FoundHome(job) /\ Aimed(job) /\ DOMAIN job = DOMAIN NoSetup
  BY DEF JobInv, Connect
<1>2. CASE \E outcome : JobEnds(outcome)
  BY <1>2, EndKeeps
<1>3. CASE client.accepted /\ auth.allowed /\ job' = next /\ sent' = sent
  <2>1. /\ next.phase = "talk" /\ next.setup = job.setup /\ next.event = job.event
        /\ next.expected = job.expected /\ next.found = job.found /\ next.target = job.target
        /\ next.client = client /\ DOMAIN next = DOMAIN NoSetup
    BY <1>1 DEF NoSetup
  <2>2. root = Server(HomeUrl(job.setup)).api
    BY <1>1 DEF FoundHome
  <2>3. api.host = root.host /\ api.path = root.path /\ Port(api) = Port(root)
    BY DEF Port
  <2>4. Port(root) = Port(HomeUrl(job.setup))
    BY <2>2, PortOfHome
  <2>5. /\ client.host = api.host /\ client.port = Port(api) /\ client.root = api.path
        /\ client.pins = auth.resolution.pins
    <3> HIDE DEF api, auth, ca, root
    <3> QED  BY <1>3, ClientFits
  <2>6. \A a \in auth.resolution.pins : Permitted(job.setup.blocks, a)
    <3>1. auth = AuthorizeResolved("github-rest", Endpoint(api), addresses, ca, job.setup.blocks)
      <4> HIDE DEF api, addresses, ca, root
      <4> QED  BY <1>3 DEF Authorization, Denied
    <3> HIDE DEF api, addresses, ca, root, auth
    <3> QED  BY <1>3, <3>1, PinsPermitted
  <2> HIDE DEF next, client, auth, api, root
  <2>7. SetOut(next) /\ FoundHome(next) /\ Aimed(next)
    BY <1>1, <2>1 DEF SetOut, FoundHome, Aimed
  <2>8. Connected(next)
    BY <2>1, <2>2, <2>3, <2>4, <2>5, <2>6 DEF Connected
  <2> QED  BY <1>1, <1>3, <2>1, <2>7, <2>8 DEF JobInv
<1> QED
  <2>1. ConnectAuthorized(api, ca, auth)
    BY DEF Connect
  <2> HIDE DEF root, api, ca, auth
  <2>2. \/ client.accepted /\ auth.allowed /\ job' = next /\ sent' = sent
        \/ JobEnds(client.why) \/ JobEnds(auth.why)
    BY <2>1 DEF ConnectAuthorized, ConnectWith, Advance
  <2> QED  BY <1>2, <1>3, <2>2

\* A permitted address is of none of the classes a token must not reach.
LEMMA PermittedClass ==
    ASSUME NEW blocks, NEW a, Permitted(blocks, a)
    PROVE  /\ Class(a) \notin {"Metadata", "Loopback", "LinkLocal", "Unspecified"}
           /\ Class(a) = "Private" => \E b \in ToSet(blocks) : InBlock(b, a)
BY DEF Permitted

LEMMA SendStaysHome ==
    ASSUME SetOut(job), Aimed(job), Connected(job),
           NEW call \in Calls(job.target), NEW address \in job.client.pins,
           NEW path, path = IF call = <<"graphql">> THEN GraphqlPath(job.client)
                            ELSE RequestPath(job.client, job.target.repository, call),
           NEW s, s.address = address, s.host = job.client.host, s.port = job.client.port,
           s.path = path
    PROVE  StaysHome(job.setup, s)
<1> DEFINE url == HomeUrl(job.setup)
           public == url.host = "github.com" /\ Port(url) = 443
           setup == job.setup
<1>1. /\ Class(s.address) \notin {"Metadata", "Loopback", "LinkLocal", "Unspecified"}
      /\ Class(s.address) = "Private" => \E b \in ToSet(setup.blocks) : InBlock(b, s.address)
  BY PermittedClass DEF Connected
<1>2. /\ Server(url).api.host = IF public THEN "api.github.com" ELSE url.host
      /\ Server(url).api.path = IF public THEN <<>> ELSE <<"api", "v3">>
  BY DEF Server
<1>3. s.host = (IF public THEN "api.github.com" ELSE url.host) /\ s.port = Port(url)
  BY <1>2 DEF Connected
<1>4. job.client.root = IF public THEN <<>> ELSE <<"api", "v3">>
  BY <1>2 DEF Connected
<1>5. CASE call = <<"graphql">>
  <2>1. /\ path.repository = None
        /\ path.root = IF job.client.root = <<"api", "v3">> THEN <<"api">> ELSE <<>>
    BY <1>5 DEF GraphqlPath
  <2>2. <<>> # <<"api", "v3">>
    OBVIOUS
  <2>3. path.root = IF public THEN <<>> ELSE <<"api">>
    <3> HIDE DEF public
    <3> QED  BY <1>4, <2>1, <2>2
  <2> HIDE DEF url
  <2> QED  BY <1>1, <1>3, <2>1, <2>3 DEF StaysHome, url
<1>6. CASE call # <<"graphql">>
  <2>1. /\ path.root = job.client.root /\ path.repository = job.target.repository
        /\ path.call = call
    BY <1>6 DEF RequestPath
  <2>2. call[2] = ToString(job.target.number)
    BY <1>6, CallNumber
  <2>3. path.repository # None
    BY <2>1, SetupAssumption DEF Aimed, IsSlug
  <2>4. IF InActions(setup)
        THEN /\ s.path.repository = setup.event.event.repository.name
             /\ s.path.call[2] = ToString(setup.event.event.number)
        ELSE s.path.repository \in {setup.repository} \cup {r.url.path : r \in setup.remotes}
    BY <2>1, <2>2 DEF Aimed
  <2>5. s.path.root = IF public THEN <<>> ELSE
                      IF s.path.repository = None THEN <<"api">> ELSE <<"api", "v3">>
    BY <1>4, <2>1, <2>3
  <2> HIDE DEF url, public
  <2> QED  BY <1>1, <1>3, <2>4, <2>5 DEF StaysHome, url, public
<1> QED  BY <1>5, <1>6

LEMMA SendKeeps == JobInv /\ SendRequest => JobInv'
<1> SUFFICES ASSUME JobInv, SendRequest PROVE JobInv'
  OBVIOUS
<1>1. /\ SetOut(job) /\ FoundHome(job) /\ Aimed(job) /\ Connected(job)
      /\ DOMAIN job = DOMAIN NoSetup
  BY DEF JobInv, SendRequest
<1>2. PICK call \in Calls(job.target), address \in job.client.pins, r \in Responses :
        /\ sent' = sent \cup
            {[address |-> address, host |-> job.client.host, port |-> job.client.port,
              token |-> job.token,
              path |-> IF call = <<"graphql">> THEN GraphqlPath(job.client)
                       ELSE RequestPath(job.client, job.target.repository, call)]}
        /\ job' = IF Answer(r) = "success" THEN [job EXCEPT !.requests = @ + 1]
                  ELSE [job EXCEPT !.phase = "ended", !.outcome = Answer(r)]
  BY DEF SendRequest
<1>3. /\ job'.setup = job.setup /\ job'.event = job.event /\ job'.expected = job.expected
      /\ job'.found = job.found /\ job'.target = job.target /\ job'.client = job.client
      /\ DOMAIN job' = DOMAIN NoSetup
      /\ job'.phase \in {job.phase, "ended"}
  BY <1>1, <1>2 DEF NoSetup
<1>4. job.phase = "talk"
  BY DEF SendRequest
<1>5. /\ SetOut(job') /\ FoundHome(job') /\ Aimed(job') /\ Connected(job')
  BY <1>1, <1>3 DEF SetOut, FoundHome, Aimed, Connected
<1>6. \A s \in sent' : StaysHome(job.setup, s)
  <2> DEFINE path == IF call = <<"graphql">> THEN GraphqlPath(job.client)
                     ELSE RequestPath(job.client, job.target.repository, call)
             s == [address |-> address, host |-> job.client.host, port |-> job.client.port,
                   token |-> job.token, path |-> path]
  <2>1. s.address = address /\ s.host = job.client.host /\ s.port = job.client.port
        /\ s.path = path
    OBVIOUS
  <2>2. sent' = sent \cup {s}
    BY <1>2
  <2>3. StaysHome(job.setup, s)
    <3> HIDE DEF s
    <3> QED  BY <1>1, <2>1, SendStaysHome
  <2> HIDE DEF s
  <2> QED  BY <2>2, <2>3 DEF JobInv
<1> QED  BY <1>3, <1>4, <1>5, <1>6 DEF JobInv

LEMMA JobInductive == JobInv /\ [GitHubNext]_githubVars => JobInv'
<1> SUFFICES ASSUME JobInv, [GitHubNext]_githubVars PROVE JobInv'
  OBVIOUS
<1>1. CASE \E setup \in Setups : BeginJob(setup)
  BY <1>1, BeginKeeps
<1>2. CASE Discover
  BY <1>2, DiscoverKeeps
<1>3. CASE Select
  BY <1>3, SelectKeeps
<1>4. CASE Connect
  BY <1>4, ConnectKeeps
<1>5. CASE SendRequest
  BY <1>5, SendKeeps
<1>6. CASE Finish
  BY <1>6, EndKeeps DEF Finish
<1>7. CASE job' = job /\ sent' = sent
  BY <1>7 DEF JobInv
<1> QED
  <2>1. ASSUME GitHubNext PROVE \/ \E setup \in Setups : BeginJob(setup)
                                \/ Discover \/ Select \/ Connect \/ SendRequest \/ Finish
                                \/ job' = job /\ sent' = sent
    BY <2>1, Zenon DEF GitHubNext, JobStep, Rebind, MoveCheckout
  <2> QED  BY <1>1, <1>2, <1>3, <1>4, <1>5, <1>6, <1>7, <2>1 DEF githubVars

\* authorize_configured_provider, resolve_to_addrs, acquire_github_context: for
\* any setups, names and addresses, the token of a job goes only to the REST
\* interface of its server, at addresses that are permitted there, and about
\* the repository and pull request the job is for.
THEOREM TokenStaysHomeHolds == GitHubInit /\ [][GitHubNext]_githubVars => []TokenStaysHome
<1>1. JobInv => TokenStaysHome
  BY StaysHomeAll DEF JobInv
<1> QED  BY JobInitially, JobInductive, <1>1, PTL
=============================================================================
