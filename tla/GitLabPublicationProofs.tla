----------------------- MODULE GitLabPublicationProofs -----------------------
(***************************************************************************)
(* What GitLabPublication promises for any number of findings, pushes,     *)
(* jobs and steps of people, and whatever GitLab answers.                  *)
(*                                                                         *)
(* Four invariants are inductive.                                          *)
(*                                                                         *)
(* IInv: a write is sent only while the head is the one that was reviewed, *)
(* and a resolution that is tried again without asking is the same write.  *)
(* So when a write is loose, landed under a newer head or given up under   *)
(* it and still on its way, the publication is past it or is still at that *)
(* resolution; it cannot come to send another one, since heads only grow.  *)
(* AstrayOK says this of every place.                                      *)
(*                                                                         *)
(* JInv: the journal and the host.  The plan reports each finding once, in *)
(* the order of the marks; what was recorded is a note of the bot with the *)
(* mark of its action; and a note created but not recorded belongs to the  *)
(* action whose answer is in doubt.  LInv says of the requests the         *)
(* publication gave up on, and of what they created late, that their       *)
(* action is on record or still open.  Both hold of any host.              *)
(*                                                                         *)
(* TInv: the plan and the threads.  Where a create is still to come there  *)
(* is no thread, but the one whose answer was lost; each thread is as the  *)
(* plan wants it, or is due in todo, or people acted on it; and what was   *)
(* left alone for a finding goes on standing for it.  It needs a host that *)
(* acts on no write after the job has given up on its answer: a create     *)
(* that lands after the inventory found no note makes a second thread.     *)
(***************************************************************************)
EXTENDS GitLabPublication, FiniteSetTheorems, TLAPS

HeadsOK == head \in Nat /\ base \in Nat \ {0} /\ base <= head

\* The write given up on under a newer head, while it is on its way.
OwnLate == IF given \in {0, base} THEN {} ELSE {late[1]}

Loose == UnderWay \cup OwnLate

AstrayOK ==
    /\ Loose # {} => base # head
    /\ pc \in {"sent", "overviewSent"} => Loose = {}
    /\ pc \in {"settleSent", "settleCheck"} => Loose \subseteq {SettleWrite}
    /\ \E w : Loose \subseteq {w}

IInv == HeadsOK /\ AstrayOK

-----------------------------------------------------------------------------
(* Lemmas.                                                                 *)

\* Landed, Refused and Delayed: what a write adds to the history.
LEMMA MeetsLoose ==
    ASSUME NEW w, NEW fate, Meets(w, fate), base' = base
    PROVE  Loose' \subseteq Loose \/ (head # base /\ Loose' \subseteq Loose \cup {w})
  <1>1. CASE Landed(w)
    <2>1. OwnLate' = OwnLate
      BY <1>1 DEF Landed, OwnLate
    <2>2. CASE head = base
      <3>1. UnderWay' = UnderWay
        BY <1>1, <2>2 DEF Landed, Strayed, UnderWay
      <3>. QED BY <2>1, <3>1 DEF Loose
    <2>3. CASE head # base
      <3>1. UnderWay' \subseteq UnderWay \cup {w}
        BY <1>1, <2>3 DEF Landed, Strayed, UnderWay
      <3>. QED BY <2>1, <2>3, <3>1 DEF Loose
    <2>. QED BY <2>2, <2>3
  <1>2. CASE Refused
    BY <1>2 DEF Refused, Loose, UnderWay, OwnLate
  <1>3. CASE Delayed(w)
    <2>1. UnderWay' = UnderWay
      BY <1>3 DEF Delayed, UnderWay
    <2>2. OwnLate' = {} \/ (head # base /\ OwnLate' = {w})
      BY <1>3 DEF Delayed, OwnLate
    <2>. QED BY <2>1, <2>2 DEF Loose
  <1>. QED
    BY <1>1, <1>2, <1>3 DEF Meets

\* A late write that lands was loose before, or does not count.
LEMMA LateLoose == ASSUME LandLate PROVE Loose' \subseteq Loose /\ UNCHANGED <<head, base, pc, todo>>
  <1>0. /\ base' = base /\ head' = head /\ pc' = pc /\ todo' = todo /\ given' = 0
    BY DEF LandLate, plan, settle
  <1>1. OwnLate' = {}
    BY <1>0 DEF OwnLate
  <1>2. UnderWay' \subseteq UnderWay \cup OwnLate
    <2>1. CASE astray' = astray
      BY <1>0, <2>1 DEF UnderWay
    <2>2. CASE given # 0 /\ astray' = astray \cup {[write |-> late[1], ended |-> given]}
      BY <1>0, <2>2 DEF UnderWay, OwnLate
    <2>. QED
      BY <2>1, <2>2 DEF LandLate, Strayed
  <1>. QED
    BY <1>0, <1>1, <1>2 DEF Loose

\* A publication that starts or ends has no history.
LEMMA FreshKeeps ==
    ASSUME astray' = {}, given' = 0, head' = head, head \in Nat, base' \in 1..head
    PROVE  IInv'
  <1>1. Loose' = {}
    BY DEF Loose, UnderWay, OwnLate
  <1>. QED
    BY <1>1 DEF IInv, HeadsOK, AstrayOK

\* Nothing is added to the history.
LEMMA PastSame ==
    ASSUME astray' = astray, given' = given, late' = late, base' = base
    PROVE  Loose' = Loose
BY DEF Loose, UnderWay, OwnLate

\* A step that sends nothing and learns of no write.
LEMMA QuietKeeps ==
    ASSUME IInv, Loose' = Loose, base' = base, head' = head,
           pc' \notin {"sent", "overviewSent", "settleSent", "settleCheck"}
    PROVE  IInv'
BY DEF IInv, HeadsOK, AstrayOK

\* A write is sent for the head that was reviewed: nothing is loose.
LEMMA SendKeeps ==
    ASSUME IInv, Loose' = Loose, base' = base, head' = head, head = base
    PROVE  IInv'
BY DEF IInv, HeadsOK, AstrayOK

\* The one write that may land under a newer head.
LEMMA LandsKeeps ==
    ASSUME IInv, NEW w, NEW fate, Meets(w, fate), Loose \subseteq {w},
           base' = base, head' = head,
           pc' \notin {"sent", "overviewSent"},
           pc' \in {"settleSent", "settleCheck"} => SettleWrite' = w
    PROVE  IInv'
  <1>1. HeadsOK'
    BY DEF IInv, HeadsOK
  <1>2. Loose' \subseteq {w} /\ (Loose' # {} => base' # head')
    BY MeetsLoose DEF IInv, AstrayOK
  <1>. QED
    BY <1>1, <1>2 DEF IInv, AstrayOK

-----------------------------------------------------------------------------
(* The invariant.                                                          *)

LEMMA Initially == Init => IInv
BY DEF Init, IInv, HeadsOK, AstrayOK, Loose, UnderWay, OwnLate

\* The steps of the controller.
LEMMA WorkKeeps == ASSUME IInv, Work PROVE IInv'
  <1>. USE PastSame DEF host, plan, past
  <1>1. CASE \/ MakePlan \/ PlanFails \/ ActionStale \/ RefreshFails \/ ConfirmNoOp
             \/ SettleStale \/ SettleFails \/ SettleFound \/ OverviewKept
    <2>1. Loose' = Loose /\ base' = base /\ head' = head
      BY <1>1 DEF MakePlan, PlanFails, ActionStale, RefreshFails, ConfirmNoOp, SettleStale,
                  SettleFails, SettleFound, OverviewKept, StopWith
    <2>2. pc' \in {"stopped", "working", "settling", "completed"}
      BY <1>1 DEF MakePlan, PlanFails, ActionStale, RefreshFails, ConfirmNoOp, SettleStale,
                  SettleFails, SettleFound, OverviewKept, StopWith, ProgressOf, NextSettle
    <2>. QED
      BY <2>1, <2>2, QuietKeeps
  <1>2. CASE Reconcile \/ ReconcileFails
    <2>1. Loose' = Loose /\ base' = base /\ head' = head
      BY <1>2 DEF Reconcile, ReconcileFails, StopWith
    <2>2. pc' \in {"stopped", "working", "settling"}
      BY <1>2 DEF Reconcile, ReconcileFails, StopWith, ProgressOf
    <2>. QED
      BY <2>1, <2>2, QuietKeeps
  <1>3. CASE SendCreate \/ SendSettle \/ SendOverview
    BY <1>3, SendKeeps DEF SendCreate, SendSettle, SendOverview, Settled
  <1>4. CASE CreateAnswered \/ CreateLost \/ CreateUnusable \/ CreateRefused
    <2>1. PICK o : CreateEnds(o)
      BY <1>4 DEF CreateAnswered, CreateLost, CreateUnusable, CreateRefused
    <2>2. Meets(CreateWrite, o.fate) /\ base' = base /\ head' = head
      BY <2>1 DEF CreateEnds
    <2>3. pc = "sent" /\ pc' \in {"working", "settling", "reconciling", "stopped"}
      BY <1>4 DEF CreateAnswered, CreateLost, CreateUnusable, CreateRefused, ProgressOf
    <2>4. Loose = {}
      BY <2>3 DEF IInv, AstrayOK
    <2>. QED
      BY <2>2, <2>3, <2>4, LandsKeeps
  <1>5. CASE SettleAnswered \/ SettleLost
    <2>1. PICK o : SettleEnds(o)
      BY <1>5 DEF SettleAnswered, SettleLost
    <2>2. Meets(SettleWrite, o.fate) /\ base' = base /\ head' = head
      BY <2>1 DEF SettleEnds
    <2>3. /\ pc = "settleSent"
          /\ \/ pc' = "settling"
             \/ pc' = "settleCheck" /\ todo' = todo
      BY <1>5 DEF SettleAnswered, SettleLost, NextSettle, settle
    <2>4. Loose \subseteq {SettleWrite}
      BY <2>3 DEF IInv, AstrayOK
    <2>5. todo' = todo => SettleWrite' = SettleWrite
      BY DEF SettleWrite
    <2>. QED
      BY <2>2, <2>3, <2>4, <2>5, LandsKeeps
  <1>6. CASE SettleRetry
    <2>1. /\ pc = "settleCheck" /\ pc' = "settleSent" /\ todo' = todo
          /\ Loose' = Loose /\ base' = base /\ head' = head
      BY <1>6 DEF SettleRetry
    <2>2. SettleWrite' = SettleWrite
      BY <2>1 DEF SettleWrite
    <2>. QED
      BY <2>1, <2>2 DEF IInv, HeadsOK, AstrayOK
  <1>7. CASE OverviewAnswered
    <2>1. PICK o : Meets([kind |-> "overview", head |-> base], o.fate)
      BY <1>7 DEF OverviewAnswered
    <2>2. /\ pc = "overviewSent" /\ pc' \in {"completed", "stopped"}
          /\ base' = base /\ head' = head
      BY <1>7 DEF OverviewAnswered
    <2>3. Loose = {}
      BY <2>2 DEF IInv, AstrayOK
    <2>. QED
      BY <2>1, <2>2, <2>3, LandsKeeps
  <1>8. CASE EndJob
    BY <1>8, FreshKeeps DEF EndJob, Forget, IInv, HeadsOK
  <1>. QED
    BY <1>1, <1>2, <1>3, <1>4, <1>5, <1>6, <1>7, <1>8 DEF Work

\* Pushes, people, late writes and kills.
LEMMA EnvironmentKeeps == ASSUME IInv, Environment PROVE IInv'
  <1>. USE PastSame DEF host, plan, past
  <1>1. CASE LandLate \/ HumanAct
    <2>1. /\ Loose' \subseteq Loose
          /\ base' = base /\ head' = head /\ pc' = pc /\ todo' = todo
      <3>1. CASE LandLate
        BY <3>1, LateLoose
      <3>2. CASE HumanAct
        BY <3>2 DEF HumanAct, settle
      <3>. QED
        BY <1>1, <3>1, <3>2
    <2>2. SettleWrite' = SettleWrite
      BY <2>1 DEF SettleWrite
    <2>. QED
      BY <2>1, <2>2 DEF IInv, HeadsOK, AstrayOK
  <1>2. CASE Push
    <2>1. /\ Loose' = Loose /\ base' = base /\ head' = head + 1 /\ pc' = pc /\ todo' = todo
      BY <1>2 DEF Push, settle
    <2>2. SettleWrite' = SettleWrite
      BY <2>1 DEF SettleWrite
    <2>3. HeadsOK' /\ base' # head'
      BY <2>1 DEF IInv, HeadsOK
    <2>. QED
      BY <2>1, <2>2, <2>3 DEF IInv, AstrayOK
  <1>3. CASE Crash
    BY <1>3, FreshKeeps DEF Crash, Forget, IInv, HeadsOK
  <1>. QED
    BY <1>1, <1>2, <1>3 DEF Environment

LEMMA Inductive == IInv /\ [Next]_vars => IInv'
  <1>. SUFFICES ASSUME IInv, [Next]_vars PROVE IInv'
    OBVIOUS
  <1>1. CASE BeginPublish
    <2>1. astray' = {} /\ given' = 0 /\ head' = head /\ base' \in 1..head
      BY <1>1 DEF BeginPublish, host
    <2>. QED
      BY <2>1, FreshKeeps DEF IInv, HeadsOK
  <1>2. CASE UNCHANGED vars
    <2>1. /\ Loose' = Loose /\ base' = base /\ head' = head /\ pc' = pc /\ todo' = todo
      BY <1>2, PastSame DEF vars, host, plan, past, settle
    <2>2. SettleWrite' = SettleWrite
      BY <2>1 DEF SettleWrite
    <2>. QED
      BY <2>1, <2>2 DEF IInv, HeadsOK, AstrayOK
  <1>. QED
    BY <1>1, <1>2, WorkKeeps, EnvironmentKeeps DEF Next

-----------------------------------------------------------------------------
(* The theorems.                                                           *)

\* The inductive invariant.
THEOREM Invariance == Spec => []IInv
  <1>. QED
    BY Initially, Inductive, PTL DEF Spec

\* The checks of the head in refresh_before_action, set_discussion_resolved and
\* update_overview leave room for one write under a newer head and no more but
\* those given up before, although resolutions are repeated without a check and
\* requests land late.
THEOREM OneWriteAstrayHolds == Spec => []OneWriteAstray
  <1>1. IInv => OneWriteAstray
    <2>. SUFFICES ASSUME IInv PROVE OneWriteAstray
      OBVIOUS
    <2>1. PICK w : UnderWay \subseteq {w}
      BY DEF IInv, AstrayOK, Loose
    <2>2. UnderWay = {} \/ UnderWay = {w}
      BY <2>1
    <2>3. Cardinality({}) = 0 /\ Cardinality({w}) = 1
      BY FS_EmptySet, FS_Singleton
    <2>. QED
      BY <2>2, <2>3 DEF OneWriteAstray
  <1>. QED
    BY <1>1, Invariance, PTL

-----------------------------------------------------------------------------
(* The answers of the host: what is reported as done has been done.        *)

\* Only an answer that says what the write did confirms it.
LEMMA SaysDone ==
    ASSUME NEW success, NEW x \in Answers!Exchanges(success)
    PROVE  x.says \in {"done", "other", "individual", "garbage"}
  <1>. DEFINE done == Answers!Answering(success, "done")
  <1>1. \A status, says : Answers!Answering(status, says).says = says
    BY DEF Answers!Answering
  <1>2. \A how : Answers!NotAnswered(how).says = "garbage"
    BY DEF Answers!NotAnswered, Answers!Answering
  <1>3. \A y \in {[done EXCEPT !.end = "cut"], [done EXCEPT !.body = 1 + 1],
              [done EXCEPT !.body = 0], [done EXCEPT !.asked = 1 + 1]} : y.says = "done"
    BY DEF Answers!Answering
  <1>4. x.says \in {"done", "other", "individual", "garbage"}
    <2>1. CASE x \in {Answers!Answering(success, says) :
                          says \in {"done", "other", "individual", "garbage"}}
      BY <1>1, <2>1
    <2>2. CASE x \in {Answers!Answering(status, "garbage") :
                          status \in {302, 403, 422, 429, 502}}
      BY <1>1, <2>2
    <2>3. CASE x \in {Answers!NotAnswered(how) : how \in {"timeout", "connect", "broken"}}
      BY <1>2, <2>3
    <2>4. CASE x \in {[done EXCEPT !.end = "cut"], [done EXCEPT !.body = 1 + 1],
              [done EXCEPT !.body = 0], [done EXCEPT !.asked = 1 + 1]}
      BY <1>3, <2>4
    <2>. QED BY <2>1, <2>2, <2>3, <2>4 DEF Answers!Exchanges
  <1>. QED BY <1>4

LEMMA ParsedText ==
    ASSUME NEW x, NEW success, Answers!Parsed(x, success)
    PROVE  x.says # "garbage" /\ x.status = success
BY DEF Answers!Parsed, Answers!Wire!JsonVerdict

LEMMA DiscussionDone ==
    ASSUME NEW x, x.says \in {"done", "other", "individual", "garbage"},
           Answers!Confirms("Discussion", x)
    PROVE  x.says = "done" /\ x.status = 201
  <1>1. Answers!Parsed(x, 201)
    BY DEF Answers!Confirms, Answers!ExpectedStatus, Answers!Updates
  <1>2. Answers!Wire!CreatedDiscussionConfirmed(Answers!Shown(x), "sent", Answers!Bot)
    BY DEF Answers!Confirms
  <1>3. ~Answers!Shown(x).individual /\ Answers!Shown(x).notes[1].body = "sent"
    BY <1>2 DEF Answers!Wire!CreatedDiscussionConfirmed
  <1>4. x.says # "individual"
    BY <1>3 DEF Answers!Shown
  <1>5. x.says # "other"
    BY <1>3 DEF Answers!Shown
  <1>. QED
    BY <1>1, <1>4, <1>5, ParsedText

LEMMA ResolutionDone ==
    ASSUME NEW x, x.says \in {"done", "other", "individual", "garbage"},
           Answers!Confirms("SetDiscussionResolved", x)
    PROVE  x.says = "done" /\ x.status = 200
  <1>1. Answers!Parsed(x, 200)
    BY DEF Answers!Confirms, Answers!ExpectedStatus, Answers!Updates
  <1>2. Answers!Wire!ResolutionConfirmed(Answers!Shown(x), "thread", 1, Answers!Bot, TRUE)
    BY DEF Answers!Confirms
  <1>3. ~Answers!Shown(x).individual
        /\ \E n \in Answers!Wire!ToSet(Answers!Shown(x).notes) : n.resolved = TRUE
    BY <1>2 DEF Answers!Wire!ResolutionConfirmed
  <1>4. x.says # "individual"
    BY <1>3 DEF Answers!Shown
  <1>5. x.says # "other"
    BY <1>3 DEF Answers!Shown, Answers!Wire!ToSet
  <1>. QED
    BY <1>1, <1>4, <1>5, ParsedText

LEMMA DescriptionDone ==
    ASSUME NEW x, Answers!Confirms("UpdateMergeRequestDescription", x)
    PROVE  x.says = "done" /\ x.status = 200
  <1>1. Answers!Parsed(x, 200)
    BY DEF Answers!Confirms, Answers!ExpectedStatus, Answers!Updates
  <1>2. x.says = "done"
    BY DEF Answers!Confirms
  <1>. QED
    BY <1>1, <1>2, ParsedText

\* A write that the answer shows as done has landed.
LEMMA DoneLanded ==
    ASSUME NEW e, NEW x, Answers!Write(e, x.asked, x).effect = "Applied",
           x.says = "done", x.status \in {200, 201}, NEW fate \in Answers!Fates(x)
    PROVE  fate = "landed"
  <1>2. ~(x.asked > 1) /\ x.send = "answered"
    BY DEF Answers!Write, Answers!WriteFailure
  <1>3. ~Answers!Unsent(x)
    BY <1>2 DEF Answers!Unsent
  <1>4. x.status \notin Answers!RefusingStatuses /\ x.status \notin 500..599
    BY DEF Answers!RefusingStatuses
  <1>. QED
    BY <1>2, <1>3, <1>4 DEF Answers!Fates

LEMMA Members ==
    ASSUME NEW kind, NEW e \in Answers!Ends(kind)
    PROVE  \E x \in Answers!Exchanges(Answers!ExpectedStatus([kind |-> kind])) :
              /\ e.sent = Answers!Write([kind |-> kind], x.asked, x)
              /\ e.confirmed => Answers!Confirms(kind, x)
              /\ e.fate \in Answers!Fates(x)
BY DEF Answers!Ends

LEMMA CreatedLanded ==
    ASSUME NEW o \in CreateOutcomes, o.result = "created"
    PROVE  o.fate = "landed"
  <1>1. PICK e \in Answers!Ends("Discussion") :
            o = Answers!CreateOutcome(e.sent, e.confirmed, e.fate)
    BY DEF CreateOutcomes, Answers!CreateOutcomes
  <1>2. e.sent.effect = "Applied" /\ e.confirmed /\ o.fate = e.fate
    BY <1>1 DEF Answers!CreateOutcome, Answers!Outcome
  <1>3. PICK x \in Answers!Exchanges(Answers!ExpectedStatus([kind |-> "Discussion"])) :
              /\ e.sent = Answers!Write([kind |-> "Discussion"], x.asked, x)
              /\ e.confirmed => Answers!Confirms("Discussion", x)
              /\ e.fate \in Answers!Fates(x)
    BY Members
  <1>4. x.says = "done" /\ x.status \in {200, 201}
    BY <1>2, <1>3, SaysDone, DiscussionDone
  <1>. QED
    BY <1>2, <1>3, <1>4, DoneLanded

LEMMA ConfirmedLanded ==
    ASSUME NEW o \in SettleOutcomes, o.result = "confirmed"
    PROVE  o.fate = "landed"
  <1>1. PICK e \in Answers!Ends("SetDiscussionResolved") :
            o = Answers!SettleOutcome(e.sent, e.confirmed, e.fate)
    BY DEF SettleOutcomes, Answers!SettleOutcomes
  <1>2. e.sent.effect = "Applied" /\ e.confirmed /\ o.fate = e.fate
    BY <1>1 DEF Answers!SettleOutcome, Answers!Outcome
  <1>3. PICK x \in Answers!Exchanges(Answers!ExpectedStatus([kind |-> "SetDiscussionResolved"])) :
              /\ e.sent = Answers!Write([kind |-> "SetDiscussionResolved"], x.asked, x)
              /\ e.confirmed => Answers!Confirms("SetDiscussionResolved", x)
              /\ e.fate \in Answers!Fates(x)
    BY Members
  <1>4. x.says = "done" /\ x.status \in {200, 201}
    BY <1>2, <1>3, SaysDone, ResolutionDone
  <1>. QED
    BY <1>2, <1>3, <1>4, DoneLanded

LEMMA OverviewLanded ==
    ASSUME NEW o \in OverviewOutcomes, o.result = "confirmed"
    PROVE  o.fate = "landed"
  <1>1. PICK e \in Answers!Ends("UpdateMergeRequestDescription") :
            o = Answers!OverviewOutcome(e.sent, e.confirmed, e.fate)
    BY DEF OverviewOutcomes, Answers!OverviewOutcomes
  <1>2. e.sent.effect = "Applied" /\ e.confirmed /\ o.fate = e.fate
    BY <1>1 DEF Answers!OverviewOutcome, Answers!Outcome
  <1>3. PICK x \in Answers!Exchanges(Answers!ExpectedStatus([kind |-> "UpdateMergeRequestDescription"])) :
              /\ e.sent = Answers!Write([kind |-> "UpdateMergeRequestDescription"], x.asked, x)
              /\ e.confirmed => Answers!Confirms("UpdateMergeRequestDescription", x)
              /\ e.fate \in Answers!Fates(x)
    BY Members
  <1>4. x.says = "done" /\ x.status \in {200, 201}
    BY <1>2, <1>3, SaysDone, DescriptionDone
  <1>. QED
    BY <1>2, <1>3, <1>4, DoneLanded

-----------------------------------------------------------------------------
(* A finite set of numbers can be put in order.                            *)

Before == {p \in Nat \X Nat : p[1] < p[2]}

LEMMA BeforeWellFounded == IsWellFoundedOn(Before, Nat)
BY NatLessThanWellFounded DEF OpToRel, Before

\* Every set of numbers has a least one.
LEMMA Least ==
    ASSUME NEW S \in SUBSET Nat, S # {}
    PROVE  \E m \in S : \A n \in S : m <= n
  <1>1. PICK m \in S : \A n \in S : ~ (<<n, m>> \in Before)
    BY BeforeWellFounded, WFMin
  <1>2. \A n \in S : ~ (n < m)
    BY <1>1 DEF Before
  <1>. QED
    BY <1>2

Orders(s, S) ==
    /\ s \in [1..Cardinality(S) -> S]
    /\ \A i, k \in 1..Cardinality(S) : i < k => s[i] < s[k]

\* A finite set of numbers can be put in order: the least first, then the rest.
LEMMA OrderExists ==
    ASSUME NEW S \in SUBSET Nat, IsFiniteSet(S)
    PROVE  \E s : Orders(s, S)
  <1>. DEFINE Bad == {n \in Nat : \E T \in SUBSET Nat :
                        /\ IsFiniteSet(T) /\ Cardinality(T) = n
                        /\ ~ \E s : Orders(s, T)}
  <1>1. SUFFICES ASSUME Bad # {} PROVE FALSE
    BY FS_CardinalityType
  <1>2. PICK n \in Bad : \A k \in Bad : n <= k
    <2>. HIDE DEF Bad
    <2>1. Bad \in SUBSET Nat
      BY DEF Bad
    <2>. QED
      BY <1>1, <2>1, Least
  <1>3. PICK T \in SUBSET Nat : /\ IsFiniteSet(T) /\ Cardinality(T) = n
                                /\ ~ \E s : Orders(s, T)
    BY <1>2
  <1>4. n \in Nat
    OBVIOUS
  <1>5. CASE T = {}
    <2>1. n = 0
      BY <1>3, <1>5, FS_EmptySet
    <2>2. Orders([i \in 1..0 |-> 0], T)
      BY <1>3, <2>1 DEF Orders
    <2>. QED
      BY <1>3, <2>2
  <1>6. CASE T # {}
    <2>1. PICK m \in T : \A k \in T : m <= k
      BY <1>6, Least
    <2>. DEFINE R == T \ {m}
    <2>2. IsFiniteSet(R) /\ Cardinality(R) = n - 1
      BY <1>3, FS_RemoveElement
    <2>3. n - 1 \in Nat
      BY <2>2, FS_CardinalityType
    <2>4. R \in SUBSET Nat
      OBVIOUS
    <2>5. n - 1 \notin Bad
      BY <1>2, <2>3
    <2>6. PICK r : Orders(r, R)
      <3>. HIDE DEF R
      <3>. QED
        BY <2>2, <2>3, <2>4, <2>5
    <2>. DEFINE t == [i \in 1..n |-> IF i = 1 THEN m ELSE r[i - 1]]
    <2>7. \A i \in 1..n : i # 1 => i - 1 \in 1..(n - 1)
      BY <1>4
    <2>8. \A i \in 1..n : i # 1 => r[i - 1] \in T /\ m < r[i - 1]
      <3>1. \A i \in 1..n : i # 1 => r[i - 1] \in R
        <4>. HIDE DEF R
        <4>. QED
          BY <2>2, <2>6, <2>7 DEF Orders
      <3>2. \A x \in R : x \in T /\ m <= x /\ m < x
        BY <2>1
      <3>. HIDE DEF R
      <3>. QED
        BY <3>1, <3>2
    <2>9. t \in [1..n -> T]
      BY <2>8
    <2>10. ASSUME NEW i \in 1..n, NEW k \in 1..n, i < k PROVE t[i] < t[k]
      <3>1. k # 1
        BY <2>10
      <3>2. CASE i = 1
        BY <3>1, <3>2, <2>8
      <3>3. CASE i # 1
        <4>1. i - 1 < k - 1 /\ i - 1 \in 1..(n - 1) /\ k - 1 \in 1..(n - 1)
          BY <2>10, <3>1, <3>3, <2>7
        <4>. QED
          BY <3>1, <3>3, <4>1, <2>2, <2>6 DEF Orders
      <3>. QED
        BY <3>2, <3>3
    <2>11. Orders(t, T)
      BY <1>3, <2>9, <2>10 DEF Orders
    <2>. QED
      BY <1>3, <2>11
  <1>. QED
    BY <1>5, <1>6

\* Ascending lists a finite set of numbers, each once, in order.
LEMMA AscendingLists ==
    ASSUME NEW S \in SUBSET Nat, IsFiniteSet(S)
    PROVE  /\ Ascending(S) \in Seq(S)
           /\ DOMAIN Ascending(S) = 1..Cardinality(S)
           /\ \A i, k \in DOMAIN Ascending(S) : i < k => Ascending(S)[i] < Ascending(S)[k]
           /\ \A x \in S : \E i \in DOMAIN Ascending(S) : Ascending(S)[i] = x
  <1>. DEFINE n == Cardinality(S)
              a == Ascending(S)
  <1>1. n \in Nat
    BY FS_CardinalityType
  <1>2. PICK s \in [1..n -> S] : \A i, k \in 1..n : i < k => s[i] < s[k]
    BY OrderExists DEF Orders
  <1>3. \A i, k \in DOMAIN s : i < k => s[i] < s[k]
    BY <1>2
  <1>4. a \in [1..n -> S] /\ \A i, k \in DOMAIN a : i < k => a[i] < a[k]
    BY <1>2, <1>3 DEF Ascending
  <1>5. \A i, k \in 1..n : a[i] = a[k] => i = k
    <2>. HIDE DEF a, n
    <2>. SUFFICES ASSUME NEW i \in 1..n, NEW k \in 1..n, a[i] = a[k], i # k PROVE FALSE
      OBVIOUS
    <2>1. a[i] \in Nat
      BY <1>4
    <2>4. ~(a[i] < a[k]) /\ ~(a[k] < a[i])
      BY <2>1
    <2>2. i < k \/ k < i
      BY <1>1
    <2>. QED
      BY <1>4, <2>4, <2>2
  <1>6. a \in Injection(1..n, S)
    BY <1>4, <1>5 DEF Injection, IsInjective
  <1>7. IsFiniteSet(1..n) /\ Cardinality(1..n) = n
    BY <1>1, FS_Interval
  <1>8. a \in Surjection(1..n, S)
    BY <1>6, <1>7, FS_Injection
  <1>9. \A x \in S : \E i \in 1..n : a[i] = x
    BY <1>8 DEF Surjection
  <1>. QED
    BY <1>1, <1>4, <1>9

-----------------------------------------------------------------------------
(* The journal and the host.                                               *)

\* A finding's action, a thread at the line of its finding, and so on.
Reports(mark, l) == l \in DOMAIN findings /\ mark = MarkOf(base, l, findings[l])

RightLine(n) == /\ notes[n].lineage \in DOMAIN findings
                /\ notes[n].line = findings[notes[n].lineage].line
WrongLine(n) == /\ notes[n].lineage \in DOMAIN findings
                /\ notes[n].line # findings[notes[n].lineage].line
Gone(n) == notes[n].lineage \in fixed \ DOMAIN findings

\* A write the host may act on.
Sound(w) ==
    \/ /\ w.kind = "create"
       /\ w.lineage \in Lineage /\ w.line \in Line /\ w.body \in Body /\ w.head \in Heads
    \/ w.kind = "settle" /\ w.note \in Owned /\ w.state \in {"open", "bot"}
    \/ w.kind = "overview"

Settlement == [note : Nat, state : {"open", "bot"}]

TypesOK ==
    /\ notes \in Seq(Thread)
    /\ head \in Heads /\ base \in 1..head
    /\ human \in Nat
    /\ DOMAIN findings \subseteq Lineage
    /\ \A l \in DOMAIN findings : findings[l] \in Comment
    /\ todo \in Seq(Settlement)
    /\ \A k \in DOMAIN todo : todo[k].note \in Owned
    /\ late = <<>> \/ (LateWrites /\ Sound(late[1]))

ActionShape == [fingerprint : Nat, decision : {"Create", "NoOp"}, note : Nat]
EntryShape == [action : Nat, fingerprint : Nat,
               outcome : {"Created", "NoOp", "Reconciled"}, note : Nat]
JournalShape == [snapshot : Nat, actions : Seq(ActionShape), state : JournalState,
                 at : Nat, entries : Seq(EntryShape)]

\* The plan: findings in the order of their marks, and every no-op names a
\* thread of its lineage.
PlanOK ==
    /\ journal \in JournalShape
    /\ \A i, k \in DOMAIN journal.actions :
          i < k => journal.actions[i].fingerprint < journal.actions[k].fingerprint
    /\ \A i \in DOMAIN journal.actions :
          \E l \in DOMAIN findings :
             /\ Reports(journal.actions[i].fingerprint, l)
             /\ journal.actions[i].decision = "NoOp" =>
                   /\ journal.actions[i].note \in Owned
                   /\ notes[journal.actions[i].note].lineage = l

EntryOK(i) ==
    /\ journal.entries[i].fingerprint = journal.actions[i].fingerprint
    /\ journal.entries[i].note \in Owned
    /\ \/ /\ journal.entries[i].outcome # "NoOp"
          /\ NoteMark(journal.entries[i].note) = journal.entries[i].fingerprint
       \/ /\ journal.entries[i].outcome = "NoOp"
          /\ journal.actions[i].decision = "NoOp"
          /\ journal.entries[i].note = journal.actions[i].note

EntriesOK ==
    /\ journal.at = Len(journal.entries) + 1
    /\ journal.at <= Len(journal.actions) + 1
    /\ journal.state \in InProgress => journal.at <= Len(journal.actions)
    /\ journal.state = "Completed" => journal.at = Len(journal.actions) + 1
    /\ \A i \in DOMAIN journal.entries : EntryOK(i)

Recorded(n) == \E i \in DOMAIN journal.entries : journal.entries[i].note = n

BornOK ==
    \A n \in born :
       /\ n \in Owned
       /\ \/ Recorded(n)
          \/ /\ pc \in {"reconciling", "stopped"}
             /\ journal.state # "Completed"
             /\ NoteMark(n) = Current(journal).fingerprint

PlacesOK ==
    /\ pc \in Place
    /\ pc \in {"idle", "inventory"} =>
          journal.actions = <<>> /\ journal.state = "Completed" /\ born = {} /\ todo = <<>>
    /\ pc = "working" => journal.state = "Ready"
    /\ pc = "sent" => journal.state = "AwaitingOutcome" /\ Current(journal).decision = "Create"
    /\ pc = "reconciling" =>
          journal.state = "AmbiguousOutcome" /\ Current(journal).decision = "Create"
    /\ pc \in {"settling", "settleSent", "settleCheck", "overviewSent", "completed"} =>
          journal.state = "Completed"
    /\ pc \in {"settleSent", "settleCheck"} => todo # <<>>
    /\ pc \in {"overviewSent", "completed"} => todo = <<>>

JInv == TypesOK /\ PlanOK /\ EntriesOK /\ BornOK /\ PlacesOK

-----------------------------------------------------------------------------
(* The threads.                                                            *)

OnePerLine ==
    \A m, n \in Owned :
       notes[m].lineage = notes[n].lineage /\ notes[m].line = notes[n].line => m = n

Creating == {"working", "sent", "reconciling"}

\* No thread is where a create that is still to come will put one, but the
\* one whose answer was lost.
Pending ==
    pc \in Creating =>
       \A i \in DOMAIN journal.actions : \A n \in Owned :
          /\ i >= journal.at /\ journal.actions[i].decision = "Create"
          /\ RightLine(n) /\ Reports(journal.actions[i].fingerprint, notes[n].lineage)
          => /\ pc = "reconciling" /\ i = journal.at
             /\ NoteMark(n) = journal.actions[i].fingerprint

Acting == Creating \cup {"settling", "settleSent", "settleCheck", "overviewSent", "completed"}

Due(n, state) == \E k \in DOMAIN todo : todo[k].note = n /\ todo[k].state = state

TodoOK ==
    pc \in Acting =>
       \A k \in DOMAIN todo :
          /\ todo[k].state = "bot" => WrongLine(todo[k].note) \/ Gone(todo[k].note)
          /\ todo[k].state = "open" =>
                /\ RightLine(todo[k].note)
                /\ notes[todo[k].note].state = "human" => todo[k].note \in touched

ByPeople(n) == notes[n].state = "human" \/ n \in touched

ThreadsOK ==
    pc \in Acting =>
       \A n \in Owned :
          /\ RightLine(n) => notes[n].state = "open" \/ ByPeople(n) \/ Due(n, "open")
          /\ WrongLine(n) \/ Gone(n) =>
                notes[n].state # "open" \/ n \in touched \/ Due(n, "bot")

NoOpsOK ==
    pc \in Acting =>
       \A i \in DOMAIN journal.actions :
          journal.actions[i].decision = "NoOp" =>
             \/ RightLine(journal.actions[i].note)
             \/ (ByPeople(journal.actions[i].note) /\ ~Due(journal.actions[i].note, "bot"))

PlanCovers ==
    pc \in Acting =>
       \A l \in DOMAIN findings :
          \E i \in DOMAIN journal.actions : Reports(journal.actions[i].fingerprint, l)

OverviewOK == pc = "completed" => overview = base

TInv == OnePerLine /\ Pending /\ TodoOK /\ ThreadsOK /\ NoOpsOK /\ PlanCovers /\ OverviewOK

-----------------------------------------------------------------------------
(* Threads are never removed, and only their state changes.                *)

Grows ==
    /\ notes' \in Seq(Thread)
    /\ DOMAIN notes \subseteq DOMAIN notes'
    /\ \A n \in DOMAIN notes :
          /\ notes'[n].author = notes[n].author
          /\ notes'[n].lineage = notes[n].lineage
          /\ notes'[n].line = notes[n].line
          /\ notes'[n].body = notes[n].body
          /\ notes'[n].head = notes[n].head

StatesKept == \A n \in DOMAIN notes : notes'[n].state = notes[n].state

ThreadOf(w) ==
    [author |-> "bot", lineage |-> w.lineage, line |-> w.line, body |-> w.body,
     head |-> w.head, state |-> "open"]

SettledState(w) ==
    IF w.state = "bot" /\ notes[w.note].state = "human" THEN "human" ELSE w.state

LEMMA ThreadType ==
    ASSUME NEW t \in Thread
    PROVE  /\ t.author \in {"bot", "human"} /\ t.lineage \in Lineage /\ t.line \in Line
           /\ t.body \in Body /\ t.head \in Heads /\ t.state \in {"open", "bot", "human"}
           /\ \A s \in {"open", "bot", "human"} : [t EXCEPT !.state = s] \in Thread
           /\ [t EXCEPT !.author = "human", !.state = "open"] \in Thread
BY DEF Thread

LEMMA NoteType == ASSUME TypesOK, NEW n \in DOMAIN notes PROVE notes[n] \in Thread
BY DEF TypesOK

LEMMA Appended ==
    ASSUME TypesOK, NEW t \in Thread, notes' = Append(notes, t)
    PROVE  /\ Grows /\ StatesKept
           /\ Len(notes') = Len(notes) + 1
           /\ DOMAIN notes' = DOMAIN notes \cup {Len(notes')}
           /\ Len(notes') \notin DOMAIN notes
           /\ notes'[Len(notes')] = t
  <1>1. notes \in Seq(Thread)
    BY DEF TypesOK
  <1>2. /\ notes' \in Seq(Thread) /\ Len(notes') = Len(notes) + 1
        /\ notes'[Len(notes')] = t
        /\ \A n \in DOMAIN notes : notes'[n] = notes[n]
    BY <1>1
  <1>3. /\ DOMAIN notes = 1..Len(notes) /\ DOMAIN notes' = 1..Len(notes') /\ Len(notes) \in Nat
    BY <1>1, <1>2
  <1>. QED
    BY <1>2, <1>3 DEF Grows, StatesKept

LEMMA StateSet ==
    ASSUME TypesOK, NEW n \in DOMAIN notes, NEW s \in {"open", "bot", "human"},
           notes' = [notes EXCEPT ![n].state = s]
    PROVE  /\ Grows
           /\ DOMAIN notes' = DOMAIN notes
           /\ notes'[n].state = s
           /\ \A m \in DOMAIN notes \ {n} : notes'[m] = notes[m]
  <1>1. notes \in Seq(Thread)
    BY DEF TypesOK
  <1>2. notes'[n] = [notes[n] EXCEPT !.state = s] /\ DOMAIN notes' = DOMAIN notes
        /\ \A m \in DOMAIN notes \ {n} : notes'[m] = notes[m]
    OBVIOUS
  <1>3. notes'[n] \in Thread
    BY <1>2, NoteType, ThreadType
  <1>4. notes' \in Seq(Thread)
    BY <1>1, <1>3
  <1>5. notes[n] \in Thread
    BY NoteType
  <1>6. /\ notes'[n].state = s
        /\ notes'[n].author = notes[n].author
        /\ notes'[n].lineage = notes[n].lineage
        /\ notes'[n].line = notes[n].line
        /\ notes'[n].body = notes[n].body
        /\ notes'[n].head = notes[n].head
    BY <1>2, <1>5 DEF Thread
  <1>. QED
    BY <1>2, <1>4, <1>6 DEF Grows

\* What a write does to the threads.
LEMMA Applied ==
    ASSUME TypesOK, NEW w, Sound(w), Apply(w)
    PROVE  /\ Grows
           /\ \/ /\ w.kind = "create"
                 /\ ThreadOf(w) \in Thread
                 /\ notes' = Append(notes, ThreadOf(w))
              \/ /\ w.kind = "settle" /\ w.note \in Owned /\ w.state \in {"open", "bot"}
                 /\ notes' = [notes EXCEPT ![w.note].state = SettledState(w)]
              \/ /\ w.kind = "overview"
                 /\ notes' = notes /\ overview' = w.head
  <1>1. CASE w.kind = "create"
    <2>1. notes' = Append(notes, ThreadOf(w))
      BY <1>1 DEF Apply, Post, ThreadOf
    <2>2. ThreadOf(w) \in Thread
      BY <1>1 DEF Sound, ThreadOf, Thread
    <2>. QED
      BY <1>1, <2>1, <2>2, Appended
  <1>2. CASE w.kind = "settle"
    <2>1. w.note \in Owned /\ w.state \in {"open", "bot"}
      BY <1>2 DEF Sound
    <2>2. w.note \in DOMAIN notes
      BY <2>1 DEF Owned
    <2>3. notes' = [notes EXCEPT ![w.note].state = SettledState(w)]
      BY <1>2, <2>2 DEF Apply, SettledState
    <2>4. SettledState(w) \in {"open", "bot", "human"}
      BY <2>1 DEF SettledState
    <2>. QED
      BY <1>2, <2>1, <2>2, <2>3, <2>4, StateSet
  <1>3. CASE w.kind = "overview"
    <2>1. notes' = notes /\ overview' = w.head
      BY <1>3 DEF Apply
    <2>. QED
      BY <1>3, <2>1 DEF Grows, TypesOK
  <1>. QED
    BY <1>1, <1>2, <1>3 DEF Sound

LEMMA SameGrows == ASSUME TypesOK, notes' = notes PROVE Grows
BY DEF Grows, TypesOK

\* What does not change about the threads that are there.
LEMMA Lasting ==
    ASSUME Grows
    PROVE  /\ Owned \subseteq Owned'
           /\ \A n \in Owned : n \in DOMAIN notes /\ notes'[n].lineage = notes[n].lineage
                                  /\ notes'[n].line = notes[n].line
           /\ \A n \in Owned : NoteMark(n)' = NoteMark(n)
           /\ \A w : Sound(w) => Sound(w)'
  <1>1. Owned \subseteq Owned'
    BY DEF Owned, Grows
  <1>2. \A n \in Owned : NoteMark(n)' = NoteMark(n)
    BY DEF Owned, Grows, NoteMark, MarkOf
  <1>. QED
    BY <1>1, <1>2 DEF Sound, Owned, Grows

-----------------------------------------------------------------------------
(* Types and the journal, step by step.                                    *)

LateKept == late' \in {late, <<>>} \/ (LateWrites /\ \E w : Sound(w) /\ late' = <<w>>)

LEMMA TypesKept ==
    ASSUME TypesOK, Grows,
           head' \in Heads, head <= head', base' = base, human' \in Nat,
           findings' = findings,
           todo' = todo \/ (todo # <<>> /\ todo' = Tail(todo)),
           LateKept
    PROVE  TypesOK'
  <1>1. base' \in 1..head'
    BY DEF TypesOK, Heads
  <1>2. /\ todo' \in Seq(Settlement)
        /\ \A k \in DOMAIN todo' : todo'[k].note \in Owned'
    <2>1. CASE todo' = todo
      BY <2>1, Lasting DEF TypesOK
    <2>2. CASE todo # <<>> /\ todo' = Tail(todo)
      <3>1. todo \in Seq(Settlement)
        BY DEF TypesOK
      <3>2. \A k \in DOMAIN todo' : k + 1 \in DOMAIN todo /\ todo'[k] = todo[k + 1]
        BY <2>2, <3>1
      <3>. QED
        BY <2>2, <3>1, <3>2, Lasting DEF TypesOK
    <2>. QED
      BY <2>1, <2>2
  <1>3. (late = <<>> \/ (LateWrites /\ Sound(late[1])))'
    <2>1. CASE late' = late
      BY <2>1, Lasting DEF TypesOK, Sound
    <2>2. CASE LateWrites /\ \E w : Sound(w) /\ late' = <<w>>
      BY <2>2, Lasting DEF Sound
    <2>3. CASE late' = <<>>
      BY <2>3
    <2>. QED
      BY <2>1, <2>2, <2>3 DEF LateKept
  <1>. QED
    BY <1>1, <1>2, <1>3 DEF TypesOK, Grows

LEMMA PlanKept ==
    ASSUME TypesOK, PlanOK, Grows, base' = base, findings' = findings,
           journal' \in JournalShape, journal'.actions = journal.actions
    PROVE  PlanOK'
BY Lasting DEF PlanOK, Reports, MarkOf

\* The state of the journal changes, but not to completed.
LEMMA InStateKept ==
    ASSUME PlanOK, EntriesOK, Grows, NEW s \in JournalState \ {"Completed"},
           s \in InProgress => journal.at <= Len(journal.actions),
           journal' = InState(journal, s)
    PROVE  /\ journal' \in JournalShape /\ journal'.actions = journal.actions
           /\ journal'.entries = journal.entries /\ journal'.at = journal.at
           /\ journal'.state = s
           /\ EntriesOK'
  <1>1. journal \in JournalShape
    BY DEF PlanOK
  <1>2. journal' = [snapshot |-> journal.snapshot, actions |-> journal.actions, state |-> s,
                    at |-> journal.at, entries |-> journal.entries]
    BY <1>1 DEF InState, JournalShape
  <1>3. journal' \in JournalShape
    BY <1>1, <1>2 DEF JournalShape
  <1>4. EntriesOK'
    BY <1>2, Lasting DEF EntriesOK, EntryOK
  <1>. QED
    BY <1>2, <1>3, <1>4

LEMMA SameKept ==
    ASSUME EntriesOK, Grows, journal' = journal
    PROVE  EntriesOK'
BY Lasting DEF EntriesOK, EntryOK

\* The current action is recorded.
LEMMA CompleteKept ==
    ASSUME PlanOK, EntriesOK, Grows, journal.at <= Len(journal.actions),
           NEW outcome \in {"Created", "NoOp", "Reconciled"}, NEW note \in Nat, note \in Owned',
           \/ outcome # "NoOp" /\ NoteMark(note)' = Current(journal).fingerprint
           \/ outcome = "NoOp" /\ Current(journal).decision = "NoOp"
                               /\ Current(journal).note = note,
           journal' = CompleteCurrent(journal, outcome, note)
    PROVE  /\ journal' \in JournalShape /\ journal'.actions = journal.actions
           /\ journal'.at = journal.at + 1
           /\ journal'.state \in {"Completed", "Ready"}
           /\ EntriesOK'
           /\ \A n : Recorded(n) => Recorded(n)'
           /\ Recorded(note)'
  <1>. DEFINE e == [action |-> journal.at, fingerprint |-> Current(journal).fingerprint,
                    outcome |-> outcome, note |-> note]
  <1>1. journal \in JournalShape /\ journal.at \in DOMAIN journal.actions
    BY DEF PlanOK, EntriesOK, JournalShape
  <1>2. Current(journal) \in ActionShape
    BY <1>1 DEF Current, JournalShape
  <1>3. e \in EntryShape
    BY <1>1, <1>2 DEF JournalShape, ActionShape, EntryShape
  <1>4. /\ journal'.actions = journal.actions
        /\ journal'.snapshot = journal.snapshot
        /\ journal'.entries = Append(journal.entries, e)
        /\ journal'.at = journal.at + 1
        /\ journal'.state = IF journal.at = Len(journal.actions) THEN "Completed" ELSE "Ready"
        /\ DOMAIN journal' = DOMAIN journal
    BY <1>1 DEF CompleteCurrent, JournalShape
  <1>5. journal' \in JournalShape
    <2>1. Append(journal.entries, e) \in Seq(EntryShape) /\ journal.at + 1 \in Nat
      BY <1>1, <1>3 DEF JournalShape
    <2>. HIDE DEF e
    <2>2. journal' = [snapshot |-> journal.snapshot, actions |-> journal.actions,
                      state |-> journal'.state, at |-> journal.at + 1,
                      entries |-> Append(journal.entries, e)]
      BY <1>1, <1>4 DEF JournalShape, CompleteCurrent
    <2>3. journal'.state \in JournalState
      BY <1>4 DEF JournalState
    <2>4. journal.snapshot \in Nat /\ journal.actions \in Seq(ActionShape)
      BY <1>1 DEF JournalShape
    <2>5. \A st \in JournalState : [snapshot |-> journal.snapshot, actions |-> journal.actions,
                      state |-> st, at |-> journal.at + 1,
                      entries |-> Append(journal.entries, e)] \in JournalShape
      BY <2>1, <2>4 DEF JournalShape
    <2>. QED
      BY <2>2, <2>3, <2>5
  <1>6. /\ Len(journal'.entries) = Len(journal.entries) + 1
        /\ journal'.entries[Len(journal.entries) + 1] = e
        /\ \A i \in DOMAIN journal.entries :
              i \in DOMAIN journal'.entries /\ journal'.entries[i] = journal.entries[i]
        /\ \A i \in DOMAIN journal'.entries :
              i \in DOMAIN journal.entries \/ i = Len(journal.entries) + 1
        /\ Len(journal.entries) + 1 \in DOMAIN journal'.entries
    <2>1. journal.entries \in Seq(EntryShape)
      BY <1>1 DEF JournalShape
    <2>. HIDE DEF e
    <2>. QED
      BY <1>3, <1>4, <2>1
  <1>7. ASSUME NEW i \in DOMAIN journal'.entries PROVE EntryOK(i)'
    <2>1. CASE i \in DOMAIN journal.entries
      <3>1. EntryOK(i) /\ journal'.entries[i] = journal.entries[i]
        BY <2>1, <1>6 DEF EntriesOK
      <3>. QED
        BY <3>1, <1>4, Lasting DEF EntryOK
    <2>2. CASE i = Len(journal.entries) + 1
      <3>1. journal'.entries[i] = e /\ i = journal.at
        BY <2>2, <1>6 DEF EntriesOK
      <3>2. /\ e.fingerprint = Current(journal).fingerprint /\ e.note = note
            /\ e.outcome = outcome
        OBVIOUS
      <3>. HIDE DEF e
      <3>. QED
        BY <3>1, <3>2, <1>4 DEF Current, EntryOK
    <2>. QED
      BY <2>1, <2>2, <1>6
  <1>8. /\ journal'.at = Len(journal'.entries) + 1
        /\ journal'.at <= Len(journal'.actions) + 1
        /\ journal'.state \in InProgress => journal'.at <= Len(journal'.actions)
        /\ journal'.state = "Completed" => journal'.at = Len(journal'.actions) + 1
    BY <1>1, <1>4, <1>6 DEF EntriesOK, InProgress, JournalShape
  <1>9. EntriesOK'
    BY <1>7, <1>8 DEF EntriesOK
  <1>10. /\ \A n : Recorded(n) => Recorded(n)'
         /\ Recorded(note)'
    BY <1>6 DEF Recorded
  <1>. QED
    BY <1>4, <1>5, <1>9, <1>10

\* The journal of a publication that begins, and of no publication.
LEMMA Fresh ==
    ASSUME NEW h \in Nat, journal' = TryNew(h, <<>>), TypesOK', todo' = <<>>, born' = {},
           pc' \in {"idle", "inventory"}
    PROVE  JInv'
  <1>1. /\ journal'.actions = <<>> /\ journal'.entries = <<>>
        /\ journal'.state = "Completed" /\ journal'.at = 1
    BY DEF TryNew
  <1>2. journal' \in JournalShape
    BY DEF TryNew, JournalShape, JournalState
  <1>3. PlanOK'
    BY <1>1, <1>2 DEF PlanOK
  <1>4. EntriesOK'
    BY <1>1 DEF EntriesOK, InProgress
  <1>5. BornOK'
    BY DEF BornOK
  <1>6. PlacesOK'
    BY <1>1 DEF PlacesOK, Place
  <1>. QED
    BY <1>3, <1>4, <1>5, <1>6 DEF JInv

LEMMA FreshTypes ==
    ASSUME TypesOK, Grows, head' = head, human' = human, base' \in 1..head,
           DOMAIN findings' \subseteq Lineage,
           \A l \in DOMAIN findings' : findings'[l] \in Comment,
           todo' = <<>>,
           LateKept
    PROVE  TypesOK'
  <1>1. (late = <<>> \/ (LateWrites /\ Sound(late[1])))'
    BY Lasting DEF TypesOK, Sound, LateKept
  <1>2. /\ todo' \in Seq(Settlement)
        /\ \A k \in DOMAIN todo' : FALSE
    OBVIOUS
  <1>. QED
    BY <1>1, <1>2 DEF TypesOK, Grows

\* The write of an action reports its finding.
LEMMA CreateSound ==
    ASSUME JInv, journal.at <= Len(journal.actions)
    PROVE  /\ CreateWrite.kind = "create" /\ Sound(CreateWrite)
           /\ Reports(Current(journal).fingerprint, CreateWrite.lineage)
           /\ CreateWrite.line = findings[CreateWrite.lineage].line
           /\ MarkOf(CreateWrite.head, CreateWrite.lineage, ThreadOf(CreateWrite))
                = Current(journal).fingerprint
  <1>. DEFINE l == LineageOf(Current(journal).fingerprint)
  <1>1. journal.at \in DOMAIN journal.actions
    BY DEF JInv, PlanOK, EntriesOK, JournalShape
  <1>2. l \in DOMAIN findings /\ MarkOf(base, l, findings[l]) = Current(journal).fingerprint
    <2>1. \E k \in DOMAIN findings : MarkOf(base, k, findings[k]) = Current(journal).fingerprint
      BY <1>1 DEF JInv, PlanOK, Reports, Current
    <2>. QED
      BY <2>1 DEF LineageOf
  <1>3. /\ CreateWrite.kind = "create" /\ CreateWrite.lineage = l
        /\ CreateWrite.line = findings[l].line /\ CreateWrite.body = findings[l].body
        /\ CreateWrite.head = base
    BY DEF CreateWrite
  <1>. HIDE DEF l
  <1>4. /\ findings[l].line \in Line /\ findings[l].body \in Body /\ l \in Lineage
        /\ base \in Heads
    <2>1. findings[l] \in Comment /\ l \in Lineage
      BY <1>2 DEF JInv, TypesOK
    <2>2. head \in 1..MaxHead /\ base \in 1..head /\ MaxHead \in Nat
      BY PublicationAssumption DEF JInv, TypesOK, Heads
    <2>3. base \in Heads
      BY <2>2 DEF Heads
    <2>. QED
      BY <2>1, <2>3 DEF Comment
  <1>5. Sound(CreateWrite)
    BY <1>3, <1>4 DEF Sound
  <1>6. MarkOf(CreateWrite.head, CreateWrite.lineage, ThreadOf(CreateWrite))
          = MarkOf(base, l, findings[l])
    BY <1>3 DEF MarkOf, ThreadOf
  <1>. QED
    BY <1>2, <1>3, <1>5, <1>6 DEF Reports

LEMMA SettleSound ==
    ASSUME TypesOK, todo # <<>>
    PROVE  /\ SettleWrite.kind = "settle" /\ Sound(SettleWrite)
           /\ SettleWrite.note = todo[1].note /\ SettleWrite.state = todo[1].state
           /\ todo[1].note \in Owned /\ todo[1].state \in {"open", "bot"}
  <1>1. 1 \in DOMAIN todo /\ todo[1] \in Settlement
    BY DEF TypesOK
  <1>2. todo[1].note \in Owned
    BY <1>1 DEF TypesOK
  <1>. QED
    BY <1>1, <1>2 DEF SettleWrite, Sound, Settlement

LEMMA MeetsKept ==
    ASSUME TypesOK, NEW w, Sound(w), NEW fate, Meets(w, fate)
    PROVE  /\ Grows /\ LateKept
           /\ \/ notes' = notes /\ born' = born /\ fate # "landed"
              \/ /\ fate = "landed" /\ Apply(w) /\ late' = late
                 /\ born' = born \cup (DOMAIN notes' \ DOMAIN notes)
  <1>1. CASE fate = "landed"
    BY <1>1, Applied DEF Meets, Landed, Created, LateKept
  <1>2. CASE fate = "refused"
    BY <1>2, SameGrows DEF Meets, Refused, LateKept
  <1>3. CASE fate = "delayed"
    BY <1>3, SameGrows DEF Meets, Delayed, LateKept
  <1>. QED
    BY <1>1, <1>2, <1>3 DEF Meets

\* A write that does not create leaves the history of creations alone.
LEMMA SettleMeets ==
    ASSUME TypesOK, NEW w, Sound(w), w.kind # "create", NEW fate, Meets(w, fate)
    PROVE  Grows /\ LateKept /\ born' = born
  <1>1. CASE Apply(w) /\ born' = born \cup (DOMAIN notes' \ DOMAIN notes)
    <2>1. DOMAIN notes' = DOMAIN notes
      BY <1>1 DEF Apply
    <2>. QED
      BY <1>1, <2>1, MeetsKept
  <1>. QED
    BY <1>1, MeetsKept

\* The note of a create that landed carries the mark of its action.
LEMMA CreateMeets ==
    ASSUME JInv, journal.at <= Len(journal.actions), NEW fate, Meets(CreateWrite, fate)
    PROVE  /\ Grows /\ LateKept
           /\ \/ born' = born /\ notes' = notes /\ fate # "landed"
              \/ \E n : /\ n = Len(notes') /\ n \in Nat /\ n \in Owned'
                        /\ NoteMark(n)' = Current(journal).fingerprint
                        /\ born' = born \cup {n}
                        /\ n \notin DOMAIN notes
                        /\ notes' = Append(notes, ThreadOf(CreateWrite))
                        /\ ThreadOf(CreateWrite) \in Thread
  <1>1. Sound(CreateWrite) /\ CreateWrite.kind = "create" /\ TypesOK
    BY CreateSound DEF JInv
  <1>2. Grows /\ LateKept
    BY <1>1, MeetsKept
  <1>3. CASE fate = "landed"
    <2>1. /\ Apply(CreateWrite)
          /\ born' = born \cup (DOMAIN notes' \ DOMAIN notes)
      BY <1>1, <1>3, MeetsKept
    <2>. DEFINE t == ThreadOf(CreateWrite)
                n == Len(notes')
    <2>2. notes' = Append(notes, t) /\ t \in Thread
      BY <1>1, <2>1, Applied
    <2>3. /\ DOMAIN notes' = DOMAIN notes \cup {n} /\ n \notin DOMAIN notes
          /\ notes'[n] = t
      <3>. HIDE DEF t
      <3>. QED
        BY <1>1, <2>2, Appended
    <2>4. t.author = "bot" /\ t.head = CreateWrite.head /\ t.lineage = CreateWrite.lineage
      BY DEF ThreadOf
    <2>5. n \in Owned'
      BY <2>3, <2>4 DEF Owned
    <2>6. n \in Nat
      BY <1>2 DEF Grows
    <2>7. MarkOf(t.head, t.lineage, t) = Current(journal).fingerprint
      BY <2>4, CreateSound
    <2>8. \A k : k = n => NoteMark(k)' = Current(journal).fingerprint
      BY <2>3, <2>7 DEF NoteMark, MarkOf
    <2>. QED
      BY <1>2, <2>1, <2>2, <2>3, <2>5, <2>6, <2>8
  <1>. QED
    BY <1>1, <1>2, <1>3, MeetsKept

-----------------------------------------------------------------------------

LEMMA Halted ==
    ASSUME JInv, pc' = "stopped", UNCHANGED <<host, plan, settle, past>>,
           \/ journal' = journal
           \/ \E s \in JournalState \ {"Completed"} :
                 /\ s \in InProgress => journal.at <= Len(journal.actions)
                 /\ journal' = InState(journal, s)
    PROVE  JInv'
  <1>. USE DEF host, plan, settle, past
  <1>1. TypesOK /\ PlanOK /\ EntriesOK /\ Grows
    BY SameGrows DEF JInv
  <1>2. head \in Nat /\ head \in Heads /\ human \in Nat
    BY <1>1 DEF TypesOK, Heads
  <1>3. TypesOK'
    BY <1>1, <1>2, TypesKept DEF LateKept
  <1>4. /\ journal' \in JournalShape /\ journal'.actions = journal.actions
        /\ journal'.entries = journal.entries /\ journal'.at = journal.at
        /\ journal'.state = "Completed" => journal.state = "Completed"
        /\ EntriesOK'
    BY <1>1, InStateKept, SameKept DEF PlanOK
  <1>5. PlanOK'
    BY <1>1, <1>4, PlanKept
  <1>6. BornOK'
    BY <1>1, <1>4, Lasting DEF JInv, BornOK, Recorded, Current
  <1>7. PlacesOK'
    BY DEF PlacesOK, Place
  <1>. QED
    BY <1>3, <1>4, <1>5, <1>6, <1>7 DEF JInv

\* A step that leaves the journal alone.
LEMMA JournalSame ==
    ASSUME JInv, TypesOK', PlacesOK', Grows, journal' = journal, base' = base,
           findings' = findings, born' = born,
           pc' = pc \/ pc \notin {"reconciling", "stopped"}
    PROVE  JInv'
  <1>1. TypesOK /\ PlanOK /\ EntriesOK
    BY DEF JInv
  <1>2. PlanOK' /\ EntriesOK'
    BY <1>1, PlanKept, SameKept DEF PlanOK
  <1>3. BornOK'
    BY Lasting DEF JInv, BornOK, Recorded, Current
  <1>. QED
    BY <1>2, <1>3 DEF JInv

\* People change the state of a thread or add one of their own.
LEMMA HumanGrows == ASSUME TypesOK, HumanAct PROVE Grows
  <1>1. PICK n \in Owned :
        \/ notes' = [notes EXCEPT ![n].state = IF @ = "open" THEN "human" ELSE "open"]
        \/ Post([notes[n] EXCEPT !.author = "human", !.state = "open"])
    BY DEF HumanAct
  <1>2. n \in DOMAIN notes
    BY DEF Owned
  <1>3. ASSUME notes' = [notes EXCEPT ![n].state = IF @ = "open" THEN "human" ELSE "open"]
        PROVE  Grows
    <2>1. PICK s \in {"open", "bot", "human"} : notes' = [notes EXCEPT ![n].state = s]
      BY <1>2, <1>3
    <2>. QED
      BY <1>2, <2>1, StateSet
  <1>4. ASSUME Post([notes[n] EXCEPT !.author = "human", !.state = "open"])
        PROVE  Grows
    <2>1. [notes[n] EXCEPT !.author = "human", !.state = "open"] \in Thread
      BY <1>2, NoteType, ThreadType
    <2>. QED
      BY <1>4, <2>1, Appended DEF Post
  <1>. QED
    BY <1>1, <1>3, <1>4

LEMMA JEnvironment == ASSUME JInv, LandLate \/ Push \/ HumanAct PROVE JInv'
  <1>. USE DEF host, plan, settle, past
  <1>0. TypesOK /\ head \in Nat /\ head \in Heads /\ human \in Nat
    BY DEF JInv, TypesOK, Heads
  <1>1. CASE LandLate
    <2>1. Sound(late[1])
      BY <1>0, <1>1 DEF LandLate, TypesOK
    <2>2. Grows
      BY <1>0, <1>1, <2>1, Applied DEF LandLate
    <2>3. TypesOK'
      BY <1>0, <1>1, <2>2, TypesKept DEF LandLate, LateKept
    <2>4. PlacesOK'
      BY <1>1 DEF LandLate, JInv, PlacesOK, Current
    <2>. QED
      BY <1>1, <2>2, <2>3, <2>4, JournalSame DEF LandLate
  <1>2. CASE Push
    <2>1. Grows
      BY <1>0, <1>2, SameGrows DEF Push
    <2>2. head' \in Heads /\ head <= head'
      <3>1. head < MaxHead /\ head' = head + 1
        BY <1>2 DEF Push
      <3>2. MaxHead \in Nat /\ head \in 1..MaxHead
        BY <1>0, PublicationAssumption DEF Heads
      <3>. QED
        BY <3>1, <3>2 DEF Heads
    <2>3. TypesOK'
      BY <1>0, <1>2, <2>1, <2>2, TypesKept DEF Push, LateKept
    <2>4. PlacesOK'
      BY <1>2 DEF Push, JInv, PlacesOK, Current
    <2>. QED
      BY <1>2, <2>1, <2>3, <2>4, JournalSame DEF Push
  <1>3. CASE HumanAct
    <2>5. Grows
      BY <1>0, <1>3, HumanGrows
    <2>8. /\ human' = human + 1 /\ head' = head /\ base' = base /\ findings' = findings
          /\ todo' = todo /\ late' = late
      BY <1>3 DEF HumanAct
    <2>6. TypesOK'
      BY <1>0, <2>5, <2>8, TypesKept DEF LateKept
    <2>7. PlacesOK'
      BY <1>3 DEF HumanAct, JInv, PlacesOK, Current
    <2>. QED
      BY <1>3, <2>5, <2>6, <2>7, JournalSame DEF HumanAct
  <1>. QED
    BY <1>1, <1>2, <1>3

-----------------------------------------------------------------------------

\* What the notes with the mark of the current action make of the journal.
LEMMA ReconciledCases ==
    ASSUME JInv, pc = "reconciling", NEW M, M = OwnWithMark(Current(journal).fingerprint)
    PROVE  \/ M = {} /\ Reconciled(journal, M) = InState(journal, "Ready")
           \/ \E m \in M : M = {m} /\ Reconciled(journal, M)
                                        = CompleteCurrent(journal, "Reconciled", m)
           \/ Reconciled(journal, M) = InState(journal, "Failed")
  <1>1. CASE M = {}
    BY <1>1 DEF Reconciled
  <1>2. CASE M # {} /\ \E m \in M : M = {m}
    <2>1. PICK m \in M : M = {m}
      BY <1>2
    <2>2. (CHOOSE n \in M : TRUE) = m
      BY <2>1
    <2>3. Reconciled(journal, M) = CompleteCurrent(journal, "Reconciled", m)
      BY <1>2, <2>2 DEF Reconciled
    <2>. QED
      BY <2>1, <2>3
  <1>3. CASE M # {} /\ ~ \E m \in M : M = {m}
    BY <1>3 DEF Reconciled
  <1>. QED
    BY <1>1, <1>2, <1>3

LEMMA InStateFields ==
    ASSUME journal \in JournalShape, NEW s
    PROVE  /\ InState(journal, s).state = s /\ InState(journal, s).at = journal.at
           /\ InState(journal, s).actions = journal.actions
           /\ InState(journal, s).entries = journal.entries
           /\ \A t : InState(InState(journal, s), t) = InState(journal, t)
BY DEF InState, JournalShape

LEMMA CompleteFields ==
    ASSUME journal \in JournalShape, NEW outcome, NEW note
    PROVE  /\ CompleteCurrent(journal, outcome, note).at = journal.at + 1
           /\ CompleteCurrent(journal, outcome, note).state \in {"Completed", "Ready"}
           /\ CompleteCurrent(journal, outcome, note).actions = journal.actions
BY DEF CompleteCurrent, JournalShape

\* The current action is recorded, whatever the way.
LEMMA Completes ==
    ASSUME JInv, Grows, pc \in {"working", "sent", "reconciling"},
           NEW outcome \in {"Created", "NoOp", "Reconciled"}, NEW note \in Nat, note \in Owned',
           \/ outcome # "NoOp" /\ NoteMark(note)' = Current(journal).fingerprint
           \/ outcome = "NoOp" /\ Current(journal).decision = "NoOp"
                               /\ Current(journal).note = note,
           journal' = CompleteCurrent(journal, outcome, note),
           \A n \in born' : n \in born \/ n = note,
           pc = "reconciling" =>
              \A n \in Owned : NoteMark(n) = Current(journal).fingerprint => n = note,
           pc' = ProgressOf(journal'),
           TypesOK', base' = base, findings' = findings, todo' = todo
    PROVE  JInv'
  <1>1. /\ TypesOK /\ PlanOK /\ EntriesOK /\ journal.at <= Len(journal.actions)
    BY DEF JInv, PlacesOK, EntriesOK, InProgress
  <1>2. /\ journal' \in JournalShape /\ journal'.actions = journal.actions
        /\ journal'.state \in {"Completed", "Ready"}
        /\ EntriesOK'
        /\ \A n : Recorded(n) => Recorded(n)'
        /\ Recorded(note)'
    BY <1>1, CompleteKept
  <1>3. PlanOK'
    BY <1>1, <1>2, PlanKept
  <1>4. BornOK'
    <2>. SUFFICES ASSUME NEW n \in born' PROVE n \in Owned' /\ Recorded(n)'
      BY DEF BornOK
    <2>1. CASE n = note
      BY <2>1, <1>2
    <2>2. CASE n \in born /\ Recorded(n)
      BY <2>2, <1>2, Lasting DEF JInv, BornOK
    <2>3. CASE n \in born /\ ~Recorded(n)
      <3>1. n \in Owned /\ pc = "reconciling" /\ NoteMark(n) = Current(journal).fingerprint
        BY <2>3 DEF JInv, BornOK
      <3>. QED
        BY <3>1, <2>1
    <2>. QED
      BY <2>1, <2>2, <2>3
  <1>5. PlacesOK'
    BY <1>2 DEF PlacesOK, Place, ProgressOf
  <1>. QED
    BY <1>2, <1>3, <1>4, <1>5 DEF JInv

\* The journal changes its state and the publication goes on with the action.
LEMMA Moves ==
    ASSUME JInv, Grows, NEW s \in InProgress, journal' = InState(journal, s),
           pc \in {"working", "sent", "reconciling"},
           \/ s = "Ready" /\ pc' = "working"
           \/ s = "AwaitingOutcome" /\ pc' = "sent" /\ Current(journal).decision = "Create"
           \/ s = "AmbiguousOutcome" /\ pc' = "reconciling"
                                     /\ Current(journal).decision = "Create",
           \A n \in born' : \/ n \in born /\ (pc' # "reconciling" => Recorded(n))
                            \/ /\ pc' = "reconciling" /\ n \in Owned'
                               /\ NoteMark(n)' = Current(journal).fingerprint,
           TypesOK', base' = base, findings' = findings
    PROVE  JInv'
  <1>1. /\ TypesOK /\ PlanOK /\ EntriesOK /\ journal.at <= Len(journal.actions)
    BY DEF JInv, PlacesOK, EntriesOK, InProgress
  <1>2. s \in JournalState \ {"Completed"}
    BY DEF JournalState, InProgress
  <1>3. /\ journal' \in JournalShape /\ journal'.actions = journal.actions
        /\ journal'.entries = journal.entries /\ journal'.at = journal.at
        /\ journal'.state = s
        /\ EntriesOK'
    BY <1>1, <1>2, InStateKept
  <1>4. PlanOK'
    BY <1>1, <1>3, PlanKept
  <1>5. Current(journal') = Current(journal) /\ \A n : Recorded(n)' <=> Recorded(n)
    BY <1>3 DEF Current, Recorded
  <1>6. BornOK'
    <2>. SUFFICES ASSUME NEW n \in born'
                  PROVE  /\ n \in Owned'
                         /\ \/ Recorded(n)
                            \/ /\ pc' = "reconciling"
                               /\ NoteMark(n)' = Current(journal).fingerprint
      BY <1>3, <1>5, <1>2 DEF BornOK
    <2>1. CASE n \in born /\ Recorded(n)
      BY <2>1, Lasting DEF JInv, BornOK
    <2>2. CASE n \in born /\ ~Recorded(n) /\ pc' = "reconciling"
      BY <2>2, Lasting DEF JInv, BornOK
    <2>. QED
      BY <2>1, <2>2
  <1>7. PlacesOK'
    BY <1>3, <1>5 DEF PlacesOK, Place
  <1>. QED
    BY <1>3, <1>4, <1>6, <1>7 DEF JInv

-----------------------------------------------------------------------------
(* The plan.                                                               *)

\* A mark tells the head, the lineage, the line and the wording.
LEMMA MarkTells ==
    ASSUME NEW h \in Nat, NEW k \in Nat, NEW l \in Lineage, NEW m \in Lineage,
           NEW c, c.line \in Line, c.body \in Body, NEW d, d.line \in Line, d.body \in Body
    PROVE  /\ MarkOf(h, l, c) \in Nat
           /\ MarkOf(h, l, c) = MarkOf(k, m, d) =>
                 h = k /\ l = m /\ c.line = d.line /\ c.body = d.body
  <1>1. \A a \in Lineage \cup Line \cup Body : a \in 0..9
    BY PublicationAssumption
  <1>2. /\ l \in 0..9 /\ m \in 0..9 /\ c.line \in 0..9 /\ d.line \in 0..9
        /\ c.body \in 0..9 /\ d.body \in 0..9
    BY <1>1
  <1>3. /\ MarkOf(h, l, c) = 1000 * h + 100 * l + 10 * c.line + c.body
        /\ MarkOf(k, m, d) = 1000 * k + 100 * m + 10 * d.line + d.body
    BY DEF MarkOf
  <1>4. MarkOf(h, l, c) \in Nat
    BY <1>2, <1>3
  <1>5. ASSUME MarkOf(h, l, c) = MarkOf(k, m, d)
        PROVE  h = k /\ l = m /\ c.line = d.line /\ c.body = d.body
    <2>1. PICK a \in 0..9, b \in 0..9, e \in 0..9, f \in 0..9 :
              a = c.line /\ b = c.body /\ e = d.line /\ f = d.body
      BY <1>2
    <2>2. 1000 * h + 100 * l + 10 * a + b = 1000 * k + 100 * m + 10 * e + f
      BY <1>3, <1>5, <2>1
    <2>3. h = k
      BY <1>2, <2>2
    <2>4. l = m
      BY <1>2, <2>2, <2>3
    <2>5. 10 * a + b = 10 * e + f
      BY <1>2, <2>2, <2>3, <2>4
    <2>6. a = e
      BY <2>5
    <2>7. b = f
      BY <2>5, <2>6
    <2>. QED
      BY <2>1, <2>3, <2>4, <2>6, <2>7
  <1>. QED
    BY <1>4, <1>5

\* The mark of a finding, and of a thread.
LEMMA FindingMark ==
    ASSUME TypesOK, NEW l \in DOMAIN findings
    PROVE  /\ l \in Lineage /\ findings[l].line \in Line /\ findings[l].body \in Body
           /\ base \in Nat
           /\ MarkOf(base, l, findings[l]) \in Nat
           /\ \A k \in DOMAIN findings :
                 MarkOf(base, k, findings[k]) = MarkOf(base, l, findings[l]) => k = l
           /\ \A n \in Owned : NoteMark(n) = MarkOf(base, l, findings[l]) =>
                 notes[n].lineage = l /\ notes[n].line = findings[l].line
  <1>1. \A k \in DOMAIN findings :
           k \in Lineage /\ findings[k].line \in Line /\ findings[k].body \in Body
    BY DEF TypesOK, Comment
  <1>2. base \in Nat
    BY DEF TypesOK, Heads
  <1>3. MarkOf(base, l, findings[l]) \in Nat
    BY <1>1, <1>2, MarkTells
  <1>4. \A k \in DOMAIN findings :
                 MarkOf(base, k, findings[k]) = MarkOf(base, l, findings[l]) => k = l
    BY <1>1, <1>2, MarkTells
  <1>5. ASSUME NEW n \in Owned, NoteMark(n) = MarkOf(base, l, findings[l])
        PROVE  notes[n].lineage = l /\ notes[n].line = findings[l].line
    <2>1. notes[n] \in Thread
      BY NoteType DEF Owned
    <2>2. /\ notes[n].lineage \in Lineage /\ notes[n].line \in Line /\ notes[n].body \in Body
          /\ notes[n].head \in Nat
      BY <2>1 DEF Thread, Heads
    <2>3. MarkOf(notes[n].head, notes[n].lineage, notes[n]) = MarkOf(base, l, findings[l])
      BY <1>5 DEF NoteMark
    <2>. QED
      BY <1>1, <1>2, <2>2, <2>3, MarkTells
  <1>. QED
    BY <1>1, <1>2, <1>3, <1>4, <1>5

\* What is found for a finding is the bot's and of its lineage.
LEMMA MatchesOwn ==
    ASSUME TypesOK, NEW l \in DOMAIN findings, NEW n \in Matches(base, l)
    PROVE  n \in Planned /\ n \in Owned /\ notes[n].lineage = l
  <1>1. n \in Planned
    BY DEF Matches, Exact
  <1>2. n \in Owned
    BY <1>1 DEF Planned
  <1>3. NoteMark(n) = MarkOf(base, l, findings[l]) \/ notes[n].lineage = l
    BY DEF Matches, Exact
  <1>. QED
    BY <1>1, <1>2, <1>3, FindingMark

LEMMA NotesFinite ==
    ASSUME TypesOK, NEW S \in SUBSET Owned
    PROVE  IsFiniteSet(S) /\ S \in SUBSET Nat
  <1>1. DOMAIN notes = 1..Len(notes) /\ Len(notes) \in Nat
    BY DEF TypesOK
  <1>2. IsFiniteSet(1..Len(notes))
    BY <1>1, FS_Interval
  <1>3. S \in SUBSET (1..Len(notes))
    BY <1>1 DEF Owned
  <1>4. IsFiniteSet(S)
    BY <1>2, <1>3, FS_Subset
  <1>. QED
    BY <1>3, <1>4

LEMMA MarksFinite ==
    ASSUME TypesOK, NEW S, S = {MarkOf(base, l, findings[l]) : l \in DOMAIN findings}
    PROVE  IsFiniteSet(S) /\ S \in SUBSET Nat
  <1>1. \A l \in DOMAIN findings : MarkOf(base, l, findings[l]) \in Nat
    BY FindingMark
  <1>2. S \in SUBSET Nat
    BY <1>1
  <1>3. head \in Nat /\ base \in Nat
    BY DEF TypesOK, Heads
  <1>4. \A l \in DOMAIN findings :
           /\ l \in 0..9 /\ findings[l].line \in 0..9 /\ findings[l].body \in 0..9
    BY FindingMark, PublicationAssumption
  <1>5. \A l \in DOMAIN findings : MarkOf(base, l, findings[l]) <= 1000 * base + 999
    BY <1>3, <1>4 DEF MarkOf
  <1>6. PICK b \in Nat : b = 1000 * base + 999
    BY <1>3
  <1>7. \A s \in S : s <= b
    BY <1>5, <1>6
  <1>8. IsFiniteSet(S)
    BY <1>2, <1>7, FS_BoundedSetOfNaturals
  <1>. QED
    BY <1>2, <1>8

\* MakePlan: one action for every finding, in the order of the marks; a
\* finding is created only if nothing was found for it.
LEMMA PlanFacts ==
    ASSUME TypesOK
    PROVE  /\ PlanActions \in Seq(ActionShape)
           /\ \A i, k \in DOMAIN PlanActions :
                 i < k => PlanActions[i].fingerprint < PlanActions[k].fingerprint
           /\ \A i \in DOMAIN PlanActions :
                 \E l \in DOMAIN findings :
                    /\ Reports(PlanActions[i].fingerprint, l)
                    /\ PlanActions[i].decision = "Create" => Matches(base, l) = {}
                    /\ PlanActions[i].decision = "NoOp" =>
                          PlanActions[i].note \in Matches(base, l)
           /\ \A l \in DOMAIN findings :
                 \E i \in DOMAIN PlanActions : Reports(PlanActions[i].fingerprint, l)
  <1>. DEFINE S == {MarkOf(base, l, findings[l]) : l \in DOMAIN findings}
              marks == Ascending(S)
  <1>1. IsFiniteSet(S) /\ S \in SUBSET Nat
    <2>. HIDE DEF S
    <2>. QED
      BY MarksFinite DEF S
  <1>2. /\ marks \in Seq(S)
        /\ \A i, k \in DOMAIN marks : i < k => marks[i] < marks[k]
        /\ \A x \in S : \E i \in DOMAIN marks : marks[i] = x
    <2>. HIDE DEF S
    <2>. QED
      BY <1>1, AscendingLists
  <1>3. PlanActions = [i \in DOMAIN marks |-> ActionFor(LineageOf(marks[i]))]
    BY DEF PlanActions
  <1>4. ASSUME NEW i \in DOMAIN marks
        PROVE  /\ LineageOf(marks[i]) \in DOMAIN findings
               /\ MarkOf(base, LineageOf(marks[i]), findings[LineageOf(marks[i])]) = marks[i]
    <2>1. marks[i] \in S
      <3>. HIDE DEF S, marks
      <3>. QED
        BY <1>2
    <2>2. PICK l \in DOMAIN findings : MarkOf(base, l, findings[l]) = marks[i]
      <3>. HIDE DEF marks
      <3>. QED
        BY <2>1
    <2>. HIDE DEF marks
    <2>. QED
      BY <2>2 DEF LineageOf
  <1>. HIDE DEF S, marks
  <1>5. ASSUME NEW l \in DOMAIN findings
        PROVE  /\ ActionFor(l) \in ActionShape
               /\ Reports(ActionFor(l).fingerprint, l)
               /\ ActionFor(l).decision = "Create" => Matches(base, l) = {}
               /\ ActionFor(l).decision = "NoOp" => ActionFor(l).note \in Matches(base, l)
    <2>1. ActionFor(l).fingerprint = MarkOf(base, l, findings[l])
      BY DEF ActionFor
    <2>2. MarkOf(base, l, findings[l]) \in Nat
      BY FindingMark
    <2>3. CASE Matches(base, l) = {}
      <3>1. ActionFor(l) = [fingerprint |-> MarkOf(base, l, findings[l]),
                            decision |-> "Create", note |-> 0]
        BY <2>3 DEF ActionFor
      <3>. QED
        BY <2>1, <2>2, <2>3, <3>1 DEF ActionShape, Reports
    <2>4. CASE Matches(base, l) # {}
      <3>1. PICK n : n = CHOOSE m \in Matches(base, l) : TRUE
        OBVIOUS
      <3>2. n \in Matches(base, l)
        BY <2>4, <3>1
      <3>3. n \in Nat
        BY <3>2, MatchesOwn, NotesFinite
      <3>4. ActionFor(l) = [fingerprint |-> MarkOf(base, l, findings[l]),
                            decision |-> "NoOp", note |-> n]
        BY <2>4, <3>1 DEF ActionFor
      <3>. QED
        BY <2>1, <2>2, <2>4, <3>2, <3>3, <3>4 DEF ActionShape, Reports
    <2>. QED
      BY <2>3, <2>4
  <1>6. DOMAIN marks = 1..Len(marks) /\ Len(marks) \in Nat
    BY <1>2
  <1>7. PlanActions \in Seq(ActionShape) /\ DOMAIN PlanActions = DOMAIN marks
    BY <1>3, <1>4, <1>5, <1>6
  <1>8. \A i \in DOMAIN marks : PlanActions[i].fingerprint = marks[i]
    BY <1>3, <1>4 DEF ActionFor
  <1>9. \A i \in DOMAIN PlanActions :
                 \E l \in DOMAIN findings :
                    /\ Reports(PlanActions[i].fingerprint, l)
                    /\ PlanActions[i].decision = "Create" => Matches(base, l) = {}
                    /\ PlanActions[i].decision = "NoOp" =>
                          PlanActions[i].note \in Matches(base, l)
    BY <1>3, <1>4, <1>5, <1>7
  <1>10. \A l \in DOMAIN findings :
                 \E i \in DOMAIN PlanActions : Reports(PlanActions[i].fingerprint, l)
    <2>. SUFFICES ASSUME NEW l \in DOMAIN findings
                  PROVE  \E i \in DOMAIN PlanActions : Reports(PlanActions[i].fingerprint, l)
      OBVIOUS
    <2>1. MarkOf(base, l, findings[l]) \in S
      BY DEF S
    <2>. QED
      BY <1>2, <1>7, <1>8, <2>1 DEF Reports
  <1>11. \A i, k \in DOMAIN PlanActions :
                 i < k => PlanActions[i].fingerprint < PlanActions[k].fingerprint
    BY <1>2, <1>7, <1>8
  <1>. QED
    BY <1>7, <1>9, <1>10, <1>11

LEMMA InOrderLists ==
    ASSUME TypesOK, NEW S \in SUBSET Owned, NEW state \in {"open", "bot"}
    PROVE  /\ InOrder(S, state) \in Seq(Settlement)
           /\ \A k \in DOMAIN InOrder(S, state) :
                 InOrder(S, state)[k].note \in S /\ InOrder(S, state)[k].state = state
           /\ \A n \in S : \E k \in DOMAIN InOrder(S, state) : InOrder(S, state)[k].note = n
  <1>. DEFINE ids == Ascending(S)
  <1>1. IsFiniteSet(S) /\ S \in SUBSET Nat
    BY NotesFinite
  <1>2. ids \in Seq(S) /\ \A x \in S : \E i \in DOMAIN ids : ids[i] = x
    BY <1>1, AscendingLists
  <1>3. InOrder(S, state) = [i \in DOMAIN ids |-> [note |-> ids[i], state |-> state]]
    BY DEF InOrder
  <1>. HIDE DEF ids
  <1>4. DOMAIN ids = 1..Len(ids) /\ Len(ids) \in Nat /\ \A i \in DOMAIN ids : ids[i] \in S
    BY <1>2
  <1>5. \A i \in DOMAIN ids : [note |-> ids[i], state |-> state] \in Settlement
    BY <1>1, <1>4 DEF Settlement
  <1>. QED
    BY <1>2, <1>3, <1>4, <1>5

\* MakePlan: what there is to settle.
LEMMA SettlementFacts ==
    ASSUME TypesOK
    PROVE  /\ Settlements \in Seq(Settlement)
           /\ \A k \in DOMAIN Settlements :
                 \/ /\ Settlements[k].state = "bot"
                    /\ Settlements[k].note \in Retired \cup Reanchored
                 \/ /\ Settlements[k].state = "open"
                    /\ Settlements[k].note \in Reopened
           /\ \A n \in Retired \cup Reanchored :
                 \E k \in DOMAIN Settlements :
                    Settlements[k].note = n /\ Settlements[k].state = "bot"
           /\ \A n \in Reopened :
                 \E k \in DOMAIN Settlements :
                    Settlements[k].note = n /\ Settlements[k].state = "open"
  <1>. DEFINE a == InOrder(Retired \cup Reanchored, "bot")
              b == InOrder(Reopened, "open")
  <1>1. Retired \cup Reanchored \in SUBSET Owned /\ Reopened \in SUBSET Owned
    BY DEF Retired, Reanchored, Reopened, Planned, Dropped
  <1>2. /\ a \in Seq(Settlement)
        /\ \A k \in DOMAIN a : a[k].note \in Retired \cup Reanchored /\ a[k].state = "bot"
        /\ \A n \in Retired \cup Reanchored : \E k \in DOMAIN a : a[k].note = n
    BY <1>1, InOrderLists
  <1>3. /\ b \in Seq(Settlement)
        /\ \A k \in DOMAIN b : b[k].note \in Reopened /\ b[k].state = "open"
        /\ \A n \in Reopened : \E k \in DOMAIN b : b[k].note = n
    BY <1>1, InOrderLists
  <1>4. Settlements = a \o b
    BY DEF Settlements
  <1>. HIDE DEF a, b
  <1>5. /\ Settlements \in Seq(Settlement)
        /\ \A k \in DOMAIN a : k \in DOMAIN Settlements /\ Settlements[k] = a[k]
        /\ \A k \in DOMAIN b : /\ Len(a) + k \in DOMAIN Settlements
                               /\ Settlements[Len(a) + k] = b[k]
        /\ \A k \in DOMAIN Settlements :
              \/ k \in DOMAIN a
              \/ k - Len(a) \in DOMAIN b /\ Settlements[k] = b[k - Len(a)]
    BY <1>2, <1>3, <1>4
  <1>6. ASSUME NEW k \in DOMAIN Settlements
        PROVE  \/ /\ Settlements[k].state = "bot"
                  /\ Settlements[k].note \in Retired \cup Reanchored
               \/ /\ Settlements[k].state = "open"
                  /\ Settlements[k].note \in Reopened
    BY <1>2, <1>3, <1>5
  <1>7. ASSUME NEW n \in Retired \cup Reanchored
        PROVE  \E k \in DOMAIN Settlements :
                  Settlements[k].note = n /\ Settlements[k].state = "bot"
    BY <1>2, <1>5
  <1>8. ASSUME NEW n \in Reopened
        PROVE  \E k \in DOMAIN Settlements :
                  Settlements[k].note = n /\ Settlements[k].state = "open"
    BY <1>3, <1>5
  <1>. QED
    BY <1>5, <1>6, <1>7, <1>8

-----------------------------------------------------------------------------
(* The journal and every step.                                             *)

LEMMA JMakePlan == ASSUME JInv, MakePlan PROVE JInv'
  <1>. USE DEF host, plan
  <1>1. TypesOK /\ Grows
    BY SameGrows DEF JInv, MakePlan
  <1>2. /\ journal' = TryNew(base, PlanActions) /\ todo' = Settlements
        /\ pc' = ProgressOf(journal') /\ born' = born /\ pc = "inventory"
        /\ UNCHANGED <<head, notes, overview, late, human, base, findings, fixed>>
    BY DEF MakePlan
  <1>3. /\ journal'.actions = PlanActions /\ journal'.entries = <<>> /\ journal'.at = 1
        /\ journal'.state = IF PlanActions = <<>> THEN "Completed" ELSE "Ready"
    BY <1>2 DEF TryNew
  <1>4. PlanActions \in Seq(ActionShape)
    BY <1>1, PlanFacts
  <1>5. journal' \in JournalShape
    <2>1. base \in Nat
      BY <1>1 DEF TypesOK, Heads
    <2>2. journal' = [snapshot |-> base, actions |-> PlanActions, state |-> journal'.state,
                      at |-> 1, entries |-> <<>>]
      BY <1>2 DEF TryNew
    <2>3. journal'.state \in JournalState
      BY <1>3 DEF JournalState
    <2>4. \A st \in JournalState :
             [snapshot |-> base, actions |-> PlanActions, state |-> st, at |-> 1,
              entries |-> <<>>] \in JournalShape
      BY <1>4, <2>1 DEF JournalShape
    <2>. QED
      BY <2>2, <2>3, <2>4
  <1>6. /\ Settlements \in Seq(Settlement)
        /\ \A k \in DOMAIN Settlements : Settlements[k].note \in Owned
    BY <1>1, SettlementFacts DEF Retired, Reanchored, Reopened, Planned, Dropped
  <1>7. TypesOK'
    BY <1>1, <1>2, <1>6 DEF TypesOK, Owned, Sound
  <1>8. PlanOK'
    <2>1. \A i \in DOMAIN PlanActions :
            \E l \in DOMAIN findings :
               /\ Reports(PlanActions[i].fingerprint, l)
               /\ PlanActions[i].decision = "NoOp" =>
                     PlanActions[i].note \in Owned /\ notes[PlanActions[i].note].lineage = l
      BY <1>1, PlanFacts, MatchesOwn
    <2>2. \A i, k \in DOMAIN PlanActions :
                 i < k => PlanActions[i].fingerprint < PlanActions[k].fingerprint
      BY <1>1, PlanFacts
    <2>. QED
      BY <1>2, <1>3, <1>5, <2>1, <2>2 DEF PlanOK, Reports, MarkOf, Owned
  <1>9. EntriesOK'
    <2>1. Len(PlanActions) \in Nat /\ (PlanActions = <<>> <=> Len(PlanActions) = 0)
      BY <1>4
    <2>. QED
      BY <1>3, <2>1 DEF EntriesOK, InProgress
  <1>10. BornOK'
    BY <1>2 DEF JInv, PlacesOK, BornOK
  <1>11. PlacesOK'
    BY <1>2, <1>3 DEF PlacesOK, Place, ProgressOf
  <1>. QED
    BY <1>7, <1>8, <1>9, <1>10, <1>11 DEF JInv

\* Outside reconciliation every note of the publication is recorded.
LEMMA AllRecorded ==
    ASSUME JInv, pc \notin {"reconciling", "stopped"}
    PROVE  \A n \in born : n \in Owned /\ Recorded(n)
BY DEF JInv, BornOK

LEMMA CurrentAction ==
    ASSUME JInv, pc \in {"working", "sent", "reconciling"}
    PROVE  /\ journal.at \in DOMAIN journal.actions /\ journal.at <= Len(journal.actions)
           /\ Current(journal) \in ActionShape
           /\ journal.actions \in Seq(ActionShape)
           /\ journal \in JournalShape
  <1>1. journal.at <= Len(journal.actions) /\ journal.at = Len(journal.entries) + 1
        /\ journal \in JournalShape
    BY DEF JInv, PlacesOK, EntriesOK, InProgress, PlanOK
  <1>2. journal.actions \in Seq(ActionShape) /\ journal.entries \in Seq(EntryShape)
    BY <1>1 DEF JournalShape
  <1>. QED
    BY <1>1, <1>2 DEF Current

LEMMA JConfirmNoOp == ASSUME JInv, ConfirmNoOp PROVE JInv'
  <1>. USE DEF host, plan, settle, past
  <1>. DEFINE note == Current(journal).note
              j == InState(journal, "AwaitingOutcome")
  <1>1. /\ pc = "working" /\ Current(journal).decision = "NoOp"
        /\ journal' = Confirmed(j, note) /\ pc' = ProgressOf(journal')
        /\ UNCHANGED <<host, plan, settle, past>>
    BY DEF ConfirmNoOp
  <1>2. TypesOK /\ Grows
    BY <1>1, SameGrows DEF JInv
  <1>3. /\ journal.at \in DOMAIN journal.actions /\ journal \in JournalShape
        /\ Current(journal) \in ActionShape
    BY <1>1, CurrentAction
  <1>4. /\ j.actions = journal.actions /\ j.at = journal.at
        /\ Current(j) = Current(journal)
    BY <1>3 DEF InState, JournalShape, Current
  <1>5. journal' = CompleteCurrent(j, "NoOp", note)
    BY <1>1, <1>4 DEF Confirmed
  <1>6. CompleteCurrent(j, "NoOp", note) = CompleteCurrent(journal, "NoOp", note)
    BY <1>3, <1>4 DEF CompleteCurrent, InState, JournalShape
  <1>7. note \in Nat /\ note \in Owned
    BY <1>1, <1>3 DEF JInv, PlanOK, Current, ActionShape
  <1>8. head \in Nat /\ head \in Heads /\ human \in Nat
    BY <1>2 DEF TypesOK, Heads
  <1>9. TypesOK'
    BY <1>1, <1>2, <1>8, TypesKept DEF LateKept
  <1>10. note \in Owned'
    BY <1>2, <1>7, Lasting
  <1>. HIDE DEF note, j
  <1>11. Current(journal).note = note
    BY DEF note
  <1>. QED
    BY <1>1, <1>2, <1>5, <1>6, <1>7, <1>9, <1>10, <1>11, Completes

LEMMA JSendCreate == ASSUME JInv, SendCreate PROVE JInv'
  <1>. USE DEF host, plan, settle, past
  <1>1. /\ pc = "working" /\ Current(journal).decision = "Create"
        /\ journal' = InState(journal, "AwaitingOutcome") /\ pc' = "sent"
        /\ UNCHANGED <<host, plan, settle, past>>
    BY DEF SendCreate
  <1>2. TypesOK /\ Grows
    BY <1>1, SameGrows DEF JInv
  <1>3. head \in Nat /\ head \in Heads /\ human \in Nat
    BY <1>2 DEF TypesOK, Heads
  <1>4. TypesOK'
    BY <1>1, <1>2, <1>3, TypesKept DEF LateKept
  <1>5. \A n \in born' : n \in born /\ Recorded(n)
    BY <1>1, AllRecorded
  <1>6. "AwaitingOutcome" \in InProgress
    BY DEF InProgress
  <1>. QED
    BY <1>1, <1>2, <1>4, <1>5, <1>6, Moves

LEMMA JCreateEnds ==
    ASSUME JInv, pc = "sent", NEW o \in CreateOutcomes, CreateEnds(o)
    PROVE  /\ Grows /\ TypesOK' /\ base' = base /\ findings' = findings /\ todo' = todo
           /\ Current(journal).decision = "Create"
           /\ \A n \in born : Recorded(n)
           /\ \/ born' = born /\ notes' = notes /\ o.fate # "landed"
              \/ \E n : /\ n = Len(notes') /\ n \in Nat /\ n \in Owned'
                        /\ NoteMark(n)' = Current(journal).fingerprint
                        /\ born' = born \cup {n}
  <1>. USE DEF host, plan, settle, past
  <1>1. /\ Meets(CreateWrite, o.fate)
        /\ UNCHANGED <<head, human, plan, settle>>
    BY DEF CreateEnds
  <1>2. journal.at <= Len(journal.actions)
    BY CurrentAction
  <1>3. TypesOK /\ Grows /\ LateKept
    BY <1>1, <1>2, CreateMeets DEF JInv
  <1>4. head \in Nat /\ head \in Heads /\ human \in Nat
    BY <1>3 DEF TypesOK, Heads
  <1>5. TypesOK'
    BY <1>1, <1>3, <1>4, TypesKept
  <1>6. Current(journal).decision = "Create" /\ \A n \in born : Recorded(n)
    BY AllRecorded DEF JInv, PlacesOK
  <1>. QED
    BY <1>1, <1>2, <1>3, <1>5, <1>6, CreateMeets

LEMMA JCreateAnswered == ASSUME JInv, CreateAnswered PROVE JInv'
  <1>1. PICK o \in Reported("created", FALSE) :
          /\ CreateEnds(o)
          /\ journal' = Confirmed(journal, Len(notes'))
          /\ pc' = ProgressOf(journal')
    BY DEF CreateAnswered
  <1>2. pc = "sent" /\ o \in CreateOutcomes /\ o.fate = "landed"
    BY <1>1, CreatedLanded DEF CreateAnswered, Reported
  <1>3. /\ Grows /\ TypesOK' /\ base' = base /\ findings' = findings /\ todo' = todo
        /\ Current(journal).decision = "Create"
    BY <1>1, <1>2, JCreateEnds
  <1>4. PICK n : /\ n = Len(notes') /\ n \in Nat /\ n \in Owned'
                 /\ NoteMark(n)' = Current(journal).fingerprint
                 /\ born' = born \cup {n}
    BY <1>1, <1>2, JCreateEnds
  <1>5. journal' = CompleteCurrent(journal, "Created", n)
    BY <1>1, <1>3, <1>4 DEF Confirmed
  <1>. QED
    BY <1>1, <1>2, <1>3, <1>4, <1>5, Completes

LEMMA JCreateLost == ASSUME JInv, CreateLost \/ CreateUnusable PROVE JInv'
  <1>1. PICK o \in CreateOutcomes :
          /\ CreateEnds(o)
          /\ journal' = InState(journal, "AmbiguousOutcome")
          /\ pc' = "reconciling"
    BY DEF CreateLost, CreateUnusable, Reported
  <1>2. pc = "sent"
    BY DEF CreateLost, CreateUnusable
  <1>3. /\ Grows /\ TypesOK' /\ base' = base /\ findings' = findings
        /\ Current(journal).decision = "Create"
    BY <1>1, <1>2, JCreateEnds
  <1>4. \A n \in born' : n \in born \/ (n \in Owned' /\ NoteMark(n)' = Current(journal).fingerprint)
    BY <1>1, <1>2, JCreateEnds
  <1>5. "AmbiguousOutcome" \in InProgress
    BY DEF InProgress
  <1>. QED
    BY <1>1, <1>2, <1>3, <1>4, <1>5, Moves

LEMMA JCreateRefused == ASSUME JInv, CreateRefused PROVE JInv'
  <1>1. PICK o \in CreateOutcomes :
          /\ CreateEnds(o)
          /\ journal' = InState(journal, "Failed")
          /\ pc' = "stopped"
    BY DEF CreateRefused, Reported
  <1>2. pc = "sent"
    BY DEF CreateRefused
  <1>3. /\ Grows /\ TypesOK' /\ base' = base /\ findings' = findings
        /\ \A n \in born : Recorded(n)
    BY <1>1, <1>2, JCreateEnds
  <1>4. TypesOK /\ PlanOK /\ EntriesOK
    BY DEF JInv
  <1>5. "Failed" \in JournalState \ {"Completed"} /\ "Failed" \notin InProgress
    BY DEF JournalState, InProgress
  <1>6. /\ journal' \in JournalShape /\ journal'.actions = journal.actions
        /\ journal'.entries = journal.entries /\ journal'.at = journal.at
        /\ journal'.state = "Failed" /\ EntriesOK'
    BY <1>1, <1>3, <1>4, <1>5, InStateKept
  <1>7. PlanOK'
    BY <1>3, <1>4, <1>6, PlanKept
  <1>8. \A n \in born' : n \in born \/ (n \in Owned' /\ NoteMark(n)' = Current(journal).fingerprint)
    BY <1>1, <1>2, JCreateEnds
  <1>9. BornOK'
    BY <1>1, <1>3, <1>6, <1>8, Lasting DEF JInv, BornOK, Recorded, Current
  <1>10. PlacesOK'
    BY <1>1 DEF PlacesOK, Place
  <1>. QED
    BY <1>3, <1>6, <1>7, <1>9, <1>10 DEF JInv

LEMMA JReconcile == ASSUME JInv, Reconcile PROVE JInv'
  <1>. USE DEF host, plan, settle, past
  <1>. DEFINE fp == Current(journal).fingerprint
              M == OwnWithMark(fp)
              j == Reconciled(journal, M)
  <1>1. pc = "reconciling" /\ journal \in JournalShape /\ TypesOK
    BY CurrentAction DEF Reconcile, JInv
  <1>2. \/ j.state = "Failed" /\ StopWith(j)
        \/ /\ j.state # "Failed" /\ j.state = "Ready" /\ j.at = journal.at
           /\ \/ /\ journal' = j /\ pc' = "working"
                 /\ UNCHANGED <<host, jobs, plan, create, again, settle, past>>
              \/ StopWith(InState(j, "Failed"))
        \/ /\ j.state # "Failed" /\ ~(j.state = "Ready" /\ j.at = journal.at)
           /\ journal' = j /\ pc' = ProgressOf(j)
           /\ UNCHANGED <<host, jobs, plan, create, settle, past>>
    BY DEF Reconcile
  <1>3. \/ M = {} /\ j = InState(journal, "Ready")
        \/ \E m \in M : M = {m} /\ j = CompleteCurrent(journal, "Reconciled", m)
        \/ j = InState(journal, "Failed")
    BY <1>1, ReconciledCases
  <1>4. UNCHANGED <<head, notes, overview, late, human, base, findings, fixed, todo, tries,
                    born, belated, given, touched, astray>>
    BY <1>2 DEF StopWith
  <1>5. Grows
    BY <1>1, <1>4, SameGrows
  <1>6. head \in Nat /\ head \in Heads /\ human \in Nat
    BY <1>1 DEF TypesOK, Heads
  <1>7. TypesOK'
    BY <1>1, <1>4, <1>5, <1>6, TypesKept DEF LateKept
  <1>. HIDE DEF j
  <1>8. "Failed" \in JournalState \ {"Completed"} /\ "Failed" \notin InProgress
    BY DEF JournalState, InProgress
  <1>9. CASE pc' = "stopped" /\ journal' = InState(journal, "Failed")
    BY <1>4, <1>8, <1>9, Halted
  <1>10. CASE M = {} /\ j = InState(journal, "Ready")
    <2>1. j.state = "Ready" /\ j.at = journal.at /\ InState(j, "Failed") = InState(journal, "Failed")
      BY <1>1, <1>10, InStateFields
    <2>2. \/ journal' = j /\ pc' = "working"
          \/ StopWith(InState(journal, "Failed"))
      BY <1>2, <2>1
    <2>3. CASE journal' = j /\ pc' = "working"
      <3>1. \A n \in born : n \in Owned /\ (NoteMark(n) = fp => n \in M)
        BY DEF JInv, BornOK, OwnWithMark
      <3>2. \A n \in born' : n \in born /\ Recorded(n)
        BY <1>4, <1>10, <3>1 DEF JInv, BornOK
      <3>3. "Ready" \in InProgress
        BY DEF InProgress
      <3>. QED
        BY <1>1, <1>4, <1>5, <1>7, <1>10, <2>3, <3>2, <3>3, Moves
    <2>. QED
      BY <1>9, <2>2, <2>3 DEF StopWith
  <1>11. CASE \E m \in M : M = {m} /\ j = CompleteCurrent(journal, "Reconciled", m)
    <2>1. PICK m \in M : M = {m} /\ j = CompleteCurrent(journal, "Reconciled", m)
      BY <1>11
    <2>2. j.at = journal.at + 1 /\ j.state \in {"Completed", "Ready"} /\ journal.at \in Nat
      BY <1>1, <2>1, CompleteFields DEF JournalShape
    <2>3. journal' = j /\ pc' = ProgressOf(j)
      BY <1>2, <2>2
    <2>4. m \in Owned /\ NoteMark(m) = fp /\ \A n \in Owned : NoteMark(n) = fp => n = m
      BY <2>1 DEF OwnWithMark
    <2>5. m \in Nat /\ m \in Owned' /\ NoteMark(m)' = fp
      <3>1. m \in Owned' /\ NoteMark(m)' = fp
        BY <1>5, <2>4, Lasting
      <3>2. m \in DOMAIN notes /\ notes \in Seq(Thread)
        BY <1>1, <2>4 DEF Owned, TypesOK
      <3>. QED
        BY <3>1, <3>2
    <2>6. journal' = CompleteCurrent(journal, "Reconciled", m)
      BY <2>1, <2>3
    <2>. QED
      BY <1>1, <1>4, <1>5, <1>7, <2>3, <2>4, <2>5, <2>6, Completes
  <1>12. CASE j = InState(journal, "Failed")
    <2>1. j.state = "Failed"
      BY <1>1, <1>12, InStateFields
    <2>. QED
      BY <1>2, <1>9, <1>12, <2>1 DEF StopWith
  <1>. QED
    BY <1>3, <1>10, <1>11, <1>12

LEMMA JStops ==
    ASSUME JInv, \/ PlanFails \/ ActionStale \/ RefreshFails \/ ReconcileFails
                 \/ SettleStale \/ SettleFails
    PROVE  JInv'
  <1>1. PICK j : /\ StopWith(j)
                 /\ \/ j = journal
                    \/ j = InState(journal, "Failed")
                    \/ j = InState(journal, "StoppedStale")
    BY DEF PlanFails, ActionStale, RefreshFails, ReconcileFails, SettleStale, SettleFails
  <1>2. \A s \in {"Failed", "StoppedStale"} :
           s \in JournalState \ {"Completed"} /\ s \notin InProgress
    BY DEF JournalState, InProgress
  <1>. QED
    BY <1>1, <1>2, Halted DEF StopWith, host, plan, settle, past

\* Steps of the settlements and the overview.
LEMMA JSettleStep ==
    ASSUME JInv, Grows, LateKept, journal.state = "Completed", journal' = journal,
           born' = born, UNCHANGED <<head, human, base, findings>>,
           todo' = todo \/ (todo # <<>> /\ todo' = Tail(todo)),
           pc \in {"settling", "settleSent", "settleCheck", "overviewSent"},
           \/ pc' \in {"settling", "stopped"}
           \/ pc' \in {"settleSent", "settleCheck"} /\ todo # <<>> /\ todo' = todo
           \/ pc' \in {"overviewSent", "completed"} /\ todo' = <<>>
    PROVE  JInv'
  <1>1. TypesOK /\ head \in Nat /\ head \in Heads /\ human \in Nat
    BY DEF JInv, TypesOK, Heads
  <1>2. TypesOK'
    BY <1>1, TypesKept
  <1>3. PlacesOK'
    BY DEF PlacesOK, Place
  <1>. QED
    BY <1>2, <1>3, JournalSame

LEMMA JSettles ==
    ASSUME JInv,
           \/ SendSettle \/ SettleAnswered \/ SettleLost \/ SettleFound \/ SettleRetry
           \/ OverviewKept \/ SendOverview \/ OverviewAnswered
    PROVE  JInv'
  <1>. USE DEF host, plan, settle, past
  <1>0. TypesOK
    BY DEF JInv
  <1>1. CASE SendSettle \/ SettleFound \/ SettleRetry \/ OverviewKept \/ SendOverview
    <2>1. /\ UNCHANGED <<head, notes, overview, late, human, base, findings, journal, born>>
          /\ pc \in {"settling", "settleCheck"}
      BY <1>1 DEF SendSettle, SettleFound, SettleRetry, OverviewKept, SendOverview, Settled
    <2>2. \/ pc' = "settleSent" /\ todo # <<>> /\ todo' = todo
          \/ pc' = "settling" /\ todo # <<>> /\ todo' = Tail(todo)
          \/ pc' \in {"overviewSent", "completed"} /\ todo' = <<>> /\ todo' = todo
      BY <1>1 DEF SendSettle, SettleFound, SettleRetry, OverviewKept, SendOverview, Settled,
                  NextSettle, JInv, PlacesOK
    <2>3. Grows /\ LateKept /\ journal.state = "Completed"
      BY <1>0, <2>1, SameGrows DEF LateKept, JInv, PlacesOK
    <2>. QED
      BY <2>1, <2>2, <2>3, JSettleStep
  <1>2. CASE SettleAnswered \/ SettleLost
    <2>1. PICK o : SettleEnds(o)
      BY <1>2 DEF SettleAnswered, SettleLost
    <2>2. /\ Meets(SettleWrite, o.fate)
          /\ UNCHANGED <<head, human, base, findings, journal>>
      BY <2>1 DEF SettleEnds
    <2>3. /\ pc = "settleSent" /\ todo # <<>>
          /\ \/ pc' = "settling" /\ todo' = Tail(todo)
             \/ pc' = "settleCheck" /\ todo' = todo
      BY <1>2 DEF SettleAnswered, SettleLost, NextSettle, JInv, PlacesOK
    <2>4. SettleWrite.kind = "settle" /\ Sound(SettleWrite)
      BY <1>0, <2>3, SettleSound
    <2>5. Grows /\ LateKept /\ born' = born
      BY <1>0, <2>2, <2>4, SettleMeets
    <2>6. journal.state = "Completed"
      BY <2>3 DEF JInv, PlacesOK
    <2>. QED
      BY <2>2, <2>3, <2>5, <2>6, JSettleStep
  <1>3. CASE OverviewAnswered
    <2>1. PICK o : Meets([kind |-> "overview", head |-> base], o.fate)
      BY <1>3 DEF OverviewAnswered
    <2>2. /\ pc = "overviewSent" /\ pc' \in {"completed", "stopped"} /\ todo = <<>>
          /\ UNCHANGED <<head, human, base, findings, journal, todo>>
      BY <1>3 DEF OverviewAnswered, JInv, PlacesOK
    <2>3. Sound([kind |-> "overview", head |-> base])
      BY DEF Sound
    <2>4. Grows /\ LateKept /\ born' = born
      BY <1>0, <2>1, <2>3, SettleMeets
    <2>5. journal.state = "Completed"
      BY <2>2 DEF JInv, PlacesOK
    <2>. QED
      BY <2>2, <2>4, <2>5, JSettleStep
  <1>. QED
    BY <1>1, <1>2, <1>3

LEMMA OutstandingSound ==
    ASSUME JInv, NEW w \in Outstanding
    PROVE  Sound(w)
  <1>1. CASE pc = "sent"
    BY <1>1, CreateSound, CurrentAction DEF Outstanding
  <1>2. CASE pc = "settleSent"
    BY <1>2, SettleSound DEF Outstanding, JInv, PlacesOK
  <1>3. CASE pc = "overviewSent"
    BY <1>3 DEF Outstanding, Sound
  <1>. QED
    BY <1>1, <1>2, <1>3 DEF Outstanding

LEMMA JForgets == ASSUME JInv, EndJob \/ Crash \/ BeginPublish PROVE JInv'
  <1>. USE DEF host, plan, settle, past
  <1>1. TypesOK /\ head \in 1..MaxHead /\ MaxHead \in Nat
    BY PublicationAssumption DEF JInv, TypesOK, Heads
  <1>2. Grows /\ LateKept
    <2>1. CASE UNCHANGED <<notes, late>>
      BY <1>1, <2>1, SameGrows DEF LateKept
    <2>2. CASE \E w \in Outstanding : Apply(w) /\ UNCHANGED late
      BY <1>1, <2>2, OutstandingSound, Applied DEF LateKept
    <2>3. CASE \E w \in Outstanding : LateWrites /\ late' = <<w>> /\ UNCHANGED notes
      BY <1>1, <2>3, OutstandingSound, SameGrows DEF LateKept
    <2>. QED
      BY <2>1, <2>2, <2>3 DEF EndJob, Crash, BeginPublish
  <1>3. /\ head' = head /\ human' = human /\ base' \in 1..head
        /\ DOMAIN findings' \subseteq Lineage
        /\ \A l \in DOMAIN findings' : findings'[l] \in Comment
        /\ todo' = <<>> /\ born' = {} /\ pc' \in {"idle", "inventory"}
        /\ journal' = TryNew(base', <<>>)
    <2>1. CASE EndJob \/ Crash
      BY <1>1, <2>1 DEF EndJob, Crash, Forget, NoFindings
    <2>2. CASE BeginPublish
      <3>1. PICK D \in SUBSET Lineage : findings' \in [D -> Comment]
        BY <2>2 DEF BeginPublish
      <3>. QED
        BY <2>2, <3>1 DEF BeginPublish
    <2>. QED
      BY <2>1, <2>2
  <1>4. TypesOK'
    BY <1>1, <1>2, <1>3, FreshTypes
  <1>5. base' \in Nat
    BY <1>3
  <1>. QED
    BY <1>3, <1>4, <1>5, Fresh

LEMMA JInitially == Init => JInv
  <1>. SUFFICES ASSUME Init PROVE JInv
    OBVIOUS
  <1>1. TypesOK
    BY PublicationAssumption DEF Init, TypesOK, NoFindings, Heads
  <1>2. /\ journal.actions = <<>> /\ journal.entries = <<>>
        /\ journal.state = "Completed" /\ journal.at = 1
        /\ journal \in JournalShape
    BY DEF Init, TryNew, JournalShape, JournalState
  <1>. QED
    BY <1>1, <1>2 DEF Init, JInv, PlanOK, EntriesOK, BornOK, PlacesOK, Place, InProgress

LEMMA JInductive == JInv /\ [Next]_vars => JInv'
  <1>. SUFFICES ASSUME JInv, [Next]_vars PROVE JInv'
    OBVIOUS
  <1>1. CASE UNCHANGED vars
    <2>. USE <1>1 DEF vars, host, plan, settle, past, create, JInv
    <2>1. TypesOK'
      BY DEF TypesOK, Sound, Owned
    <2>2. PlanOK'
      BY DEF PlanOK, Reports, Owned
    <2>3. EntriesOK'
      BY DEF EntriesOK, EntryOK, Owned, NoteMark
    <2>4. BornOK'
      BY DEF BornOK, Owned, NoteMark, Recorded, Current
    <2>5. PlacesOK'
      BY DEF PlacesOK, Current
    <2>. QED
      BY <2>1, <2>2, <2>3, <2>4, <2>5
  <1>. QED
    BY <1>1, JEnvironment, JMakePlan, JConfirmNoOp, JSendCreate, JCreateAnswered, JCreateLost,
       JCreateRefused, JReconcile, JStops, JSettles, JForgets
       DEF Next, Work, Environment

\* The inductive invariant of the journal.
THEOREM JournalInvariance == Spec => []JInv
  <1>. QED
    BY JInitially, JInductive, PTL DEF Spec

-----------------------------------------------------------------------------
(* Requests the publication gave up on.                                    *)

\* The create of this mark was sent, so it is recorded or still open.
Begun(mark) ==
    \E i \in DOMAIN journal.actions :
       /\ i <= journal.at
       /\ journal.actions[i].decision = "Create"
       /\ journal.actions[i].fingerprint = mark

WriteMark(w) == MarkOf(w.head, w.lineage, w)

LInv ==
    /\ \A n \in belated : n \in Owned /\ Begun(NoteMark(n))
    /\ given # 0 /\ late # <<>> /\ late[1].kind = "create" => Begun(WriteMark(late[1]))
    /\ pc \in {"idle", "inventory"} => given = 0 /\ belated = {}

\* The plan stays, and the journal never goes back.
Ahead(j, k) == k.actions = j.actions /\ k.at \in Nat /\ j.at <= k.at

LEMMA JournalAhead ==
    ASSUME NEW j \in JournalShape
    PROVE  /\ Ahead(j, j)
           /\ \A s : Ahead(j, InState(j, s))
           /\ \A outcome, note : Ahead(j, CompleteCurrent(j, outcome, note))
           /\ \A s \in JournalState : InState(j, s) \in JournalShape
  <1>1. j.at \in Nat /\ j.at + 1 \in Nat /\ j.at <= j.at /\ j.at <= j.at + 1
    BY DEF JournalShape
  <1>2. \A s : InState(j, s).at = j.at /\ InState(j, s).actions = j.actions
    BY DEF InState, JournalShape
  <1>3. \A outcome, note : /\ CompleteCurrent(j, outcome, note).at = j.at + 1
                           /\ CompleteCurrent(j, outcome, note).actions = j.actions
    BY DEF CompleteCurrent, JournalShape
  <1>4. \A s \in JournalState : InState(j, s) \in JournalShape
    BY DEF InState, JournalShape
  <1>. QED
    BY <1>1, <1>2, <1>3, <1>4 DEF Ahead

LEMMA VerdictAhead ==
    ASSUME NEW j \in JournalShape
    PROVE  /\ \A note : Ahead(j, Confirmed(j, note))
           /\ \A matches : Ahead(j, Reconciled(j, matches))
  <1>1. ASSUME NEW note PROVE Ahead(j, Confirmed(j, note))
    <2>1. \/ Confirmed(j, note) = CompleteCurrent(j, "Created", note)
          \/ Confirmed(j, note) = CompleteCurrent(j, "NoOp", note)
          \/ Confirmed(j, note) = InState(j, "Failed")
      BY DEF Confirmed
    <2>. QED BY <2>1, JournalAhead
  <1>2. ASSUME NEW matches PROVE Ahead(j, Reconciled(j, matches))
    <2>1. \/ Reconciled(j, matches) = InState(j, "Ready")
          \/ \E n : Reconciled(j, matches) = CompleteCurrent(j, "Reconciled", n)
          \/ Reconciled(j, matches) = InState(j, "Failed")
      BY DEF Reconciled
    <2>. QED BY <2>1, JournalAhead
  <1>. QED
    BY <1>1, <1>2

LEMMA AheadTwice ==
    ASSUME NEW i, NEW j, NEW k, i.at \in Nat, Ahead(i, j), Ahead(j, k)
    PROVE  Ahead(i, k)
BY DEF Ahead

\* What was begun stays begun.
LEMMA BegunLasts ==
    ASSUME journal \in JournalShape, Ahead(journal, journal'), NEW mark, Begun(mark)
    PROVE  Begun(mark)'
  <1>1. journal.at \in Nat /\ DOMAIN journal.actions \subseteq Nat
    BY DEF JournalShape
  <1>. QED
    BY <1>1 DEF Ahead, Begun

\* A step that lands nothing late.
LEMMA LateKeeps ==
    ASSUME journal \in JournalShape, LInv, Grows, Ahead(journal, journal'), belated' = belated,
           \/ given' = given /\ late' = late
           \/ \E w : late' = <<w>> /\ (w.kind = "create" => Begun(WriteMark(w))),
           pc' \in {"idle", "inventory"} => pc' = pc /\ given' = given
    PROVE  LInv'
  <1>1. \A mark : Begun(mark) => Begun(mark)'
    BY BegunLasts
  <1>2. \A n \in belated' : n \in Owned' /\ Begun(NoteMark(n))'
    <2>. SUFFICES ASSUME NEW n \in belated PROVE n \in Owned' /\ Begun(NoteMark(n))'
      OBVIOUS
    <2>1. n \in Owned /\ Begun(NoteMark(n))
      BY DEF LInv
    <2>2. n \in Owned' /\ NoteMark(n)' = NoteMark(n)
      BY <2>1, Lasting
    <2>. QED
      BY <1>1, <2>1, <2>2 DEF Begun
  <1>3. \A w : WriteMark(w)' = WriteMark(w)
    BY DEF WriteMark, MarkOf
  <1>4. (given # 0 /\ late # <<>> /\ late[1].kind = "create" => Begun(WriteMark(late[1])))'
    <2>1. CASE given' = given /\ late' = late
      <3>1. \A mark : mark = WriteMark(late[1]) => WriteMark(late[1])' = mark
        BY <2>1 DEF WriteMark, MarkOf
      <3>. QED
        BY <1>1, <2>1, <3>1 DEF LInv, Begun
    <2>2. CASE \E w : late' = <<w>> /\ (w.kind = "create" => Begun(WriteMark(w)))
      <3>1. PICK w : late' = <<w>> /\ (w.kind = "create" => Begun(WriteMark(w)))
        BY <2>2
      <3>2. late'[1] = w /\ WriteMark(late[1])' = WriteMark(w)
        BY <3>1 DEF WriteMark, MarkOf
      <3>. QED
        BY <1>1, <3>1, <3>2 DEF Begun
    <2>. QED
      BY <2>1, <2>2
  <1>. QED
    BY <1>2, <1>4 DEF LInv

\* The end of an exchange.
LEMMA LateMeets ==
    ASSUME NEW w, NEW fate, Meets(w, fate)
    PROVE  /\ belated' = belated
           /\ (given' = given /\ late' = late) \/ late' = <<w>>
BY DEF Meets, Landed, Refused, Delayed

\* A write that lands late makes a note of an action that was begun.
LEMMA LLandLate == ASSUME JInv, LInv, LandLate PROVE LInv'
  <1>0. TypesOK /\ journal \in JournalShape
    BY DEF JInv, PlanOK
  <1>1. /\ journal' = journal /\ pc' = pc /\ late # <<>> /\ given' = 0 /\ late' = <<>>
        /\ Apply(late[1])
        /\ belated' = belated \/ (given # 0 /\ belated' = belated \cup Created)
    BY DEF LandLate
  <1>2. Sound(late[1])
    BY <1>0, <1>1 DEF TypesOK
  <1>3. Grows
    BY <1>0, <1>1, <1>2, Applied
  <1>4. \A mark : Begun(mark)' <=> Begun(mark)
    BY <1>1 DEF Begun
  <1>5. ASSUME NEW n \in belated PROVE n \in Owned' /\ Begun(NoteMark(n))'
    <2>1. n \in Owned /\ Begun(NoteMark(n))
      BY DEF LInv
    <2>2. n \in Owned' /\ NoteMark(n)' = NoteMark(n)
      BY <1>3, <2>1, Lasting
    <2>. QED
      BY <1>1, <2>1, <2>2 DEF Begun
  <1>6. ASSUME given # 0, NEW n \in Created PROVE n \in Owned' /\ Begun(NoteMark(n))'
    <2>1. CASE late[1].kind = "create"
      <3>. DEFINE t == ThreadOf(late[1])
      <3>1. notes' = Append(notes, t) /\ t \in Thread
        BY <1>0, <1>1, <1>2, <2>1, Applied
      <3>2. /\ t.author = "bot" /\ t.lineage = late[1].lineage /\ t.line = late[1].line
            /\ t.body = late[1].body /\ t.head = late[1].head
        BY DEF ThreadOf
      <3>. HIDE DEF t
      <3>3. n \in DOMAIN notes' /\ notes'[n] = t
        BY <1>0, <1>6, <3>1, Appended DEF Created
      <3>4. n \in Owned'
        BY <3>2, <3>3 DEF Owned
      <3>5. \A mark : mark = WriteMark(late[1]) => NoteMark(n)' = mark
        BY <3>2, <3>3 DEF NoteMark, WriteMark, MarkOf
      <3>6. Begun(WriteMark(late[1]))
        BY <1>1, <1>6, <2>1 DEF LInv
      <3>. QED
        BY <1>1, <3>4, <3>5, <3>6 DEF Begun
    <2>2. CASE late[1].kind # "create"
      <3>1. DOMAIN notes' = DOMAIN notes
        BY <1>1, <2>2 DEF Apply
      <3>. QED
        BY <1>6, <3>1 DEF Created
    <2>. QED
      BY <2>1, <2>2
  <1>7. pc' \in {"idle", "inventory"} => given' = 0 /\ belated' = {}
    BY <1>1 DEF LInv
  <1>. QED
    BY <1>1, <1>5, <1>6, <1>7 DEF LInv

\* The steps of a publication that leave the host alone.
LEMMA LQuiet ==
    ASSUME JInv, LInv,
           \/ PlanFails \/ ActionStale \/ RefreshFails \/ ConfirmNoOp \/ SendCreate
           \/ Reconcile \/ ReconcileFails \/ SettleStale \/ SettleFails \/ SendSettle
           \/ SettleFound \/ SettleRetry \/ OverviewKept \/ SendOverview
    PROVE  LInv'
  <1>. USE DEF host, past
  <1>1. TypesOK /\ journal \in JournalShape /\ journal.at \in Nat
    BY DEF JInv, PlanOK, JournalShape
  <1>2. UNCHANGED <<notes, late, belated, given>> /\ pc' \notin {"idle", "inventory"}
    <2>1. CASE \/ PlanFails \/ ActionStale \/ RefreshFails \/ ReconcileFails \/ SettleStale
               \/ SettleFails
      BY <2>1 DEF PlanFails, ActionStale, RefreshFails, ReconcileFails, SettleStale,
                  SettleFails, StopWith
    <2>2. CASE Reconcile
      BY <2>2 DEF Reconcile, StopWith, ProgressOf
    <2>3. CASE ConfirmNoOp \/ SendCreate \/ SendSettle \/ SettleFound \/ SettleRetry
               \/ OverviewKept \/ SendOverview
      BY <2>3 DEF ConfirmNoOp, SendCreate, SendSettle, SettleFound, SettleRetry, NextSettle,
                  OverviewKept, SendOverview, ProgressOf
    <2>. QED
      BY <2>1, <2>2, <2>3
  <1>3. Ahead(journal, journal')
    <2>1. CASE \/ PlanFails \/ ActionStale \/ RefreshFails \/ ReconcileFails \/ SettleStale
               \/ SettleFails
      BY <1>1, <2>1, JournalAhead DEF PlanFails, ActionStale, RefreshFails, ReconcileFails,
                  SettleStale, SettleFails, StopWith
    <2>2. CASE Reconcile
      <3>. DEFINE k == Reconciled(journal, OwnWithMark(Current(journal).fingerprint))
      <3>1. \/ journal' = k
            \/ k.state = "Ready" /\ k.at = journal.at /\ journal' = InState(k, "Failed")
        BY <2>2 DEF Reconcile, StopWith
      <3>2. Ahead(journal, k)
        BY <1>1, VerdictAhead
      <3>. HIDE DEF k
      <3>3. CASE journal' = k
        BY <3>2, <3>3
      <3>4. CASE k.at = journal.at /\ journal' = InState(k, "Failed")
        <4>1. pc = "reconciling"
          BY <2>2 DEF Reconcile
        <4>2. \/ k = InState(journal, "Ready") \/ k = InState(journal, "Failed")
              \/ \E m : k = CompleteCurrent(journal, "Reconciled", m)
          BY <4>1, ReconciledCases DEF k
        <4>3. journal.at # journal.at + 1
          BY <1>1
        <4>4. k = InState(journal, "Ready") \/ k = InState(journal, "Failed")
          BY <1>1, <3>4, <4>2, <4>3, CompleteFields
        <4>5. journal' = InState(journal, "Failed")
          BY <1>1, <3>4, <4>4, InStateFields
        <4>. QED
          BY <1>1, <4>5, JournalAhead
      <3>. QED
        BY <3>1, <3>3, <3>4
    <2>3. CASE ConfirmNoOp
      <3>. DEFINE k == InState(journal, "AwaitingOutcome")
      <3>1. k \in JournalShape /\ Ahead(journal, k)
        BY <1>1, JournalAhead DEF JournalState
      <3>2. journal' = Confirmed(k, Current(journal).note)
        BY <2>3 DEF ConfirmNoOp
      <3>. HIDE DEF k
      <3>3. Ahead(k, journal')
        BY <3>1, <3>2, VerdictAhead
      <3>. QED
        BY <1>1, <3>1, <3>3, AheadTwice
    <2>4. CASE \/ SendCreate \/ SendSettle \/ SettleFound \/ SettleRetry \/ OverviewKept
               \/ SendOverview
      BY <1>1, <2>4, JournalAhead DEF SendCreate, SendSettle, SettleFound, SettleRetry,
                  OverviewKept, SendOverview
    <2>. QED
      BY <2>1, <2>2, <2>3, <2>4
  <1>4. Grows
    BY <1>1, <1>2, SameGrows
  <1>. QED
    BY <1>1, <1>2, <1>3, <1>4, LateKeeps

\* The action whose create is under way has begun.
LEMMA SentBegun == ASSUME JInv, pc = "sent" PROVE Begun(WriteMark(CreateWrite))
  <1>1. /\ journal.at \in DOMAIN journal.actions /\ journal.at <= Len(journal.actions)
        /\ journal \in JournalShape
    BY CurrentAction
  <1>2. Current(journal).decision = "Create"
    BY DEF JInv, PlacesOK
  <1>3. MarkOf(CreateWrite.head, CreateWrite.lineage, ThreadOf(CreateWrite))
          = Current(journal).fingerprint
    BY <1>1, CreateSound
  <1>4. WriteMark(CreateWrite) = Current(journal).fingerprint
    BY <1>3 DEF WriteMark, MarkOf, ThreadOf
  <1>5. journal.at \in Nat
    BY <1>1 DEF JournalShape
  <1>. QED
    BY <1>1, <1>2, <1>4, <1>5 DEF Begun, Current

\* The steps that learn what became of a write.
LEMMA LAnswers ==
    ASSUME JInv, LInv,
           \/ CreateAnswered \/ CreateLost \/ CreateUnusable \/ CreateRefused
           \/ SettleAnswered \/ SettleLost \/ OverviewAnswered
    PROVE  LInv'
  <1>1. TypesOK /\ journal \in JournalShape
    BY DEF JInv, PlanOK
  <1>2. CASE CreateAnswered \/ CreateLost \/ CreateUnusable \/ CreateRefused
    <2>1. PICK o \in CreateOutcomes : CreateEnds(o)
      BY <1>2 DEF CreateAnswered, CreateLost, CreateUnusable, CreateRefused, Reported
    <2>2. /\ pc = "sent" /\ pc' \notin {"idle", "inventory"}
          /\ \/ \E note : journal' = Confirmed(journal, note)
             \/ \E s : journal' = InState(journal, s)
      BY <1>2 DEF CreateAnswered, CreateLost, CreateUnusable, CreateRefused, ProgressOf
    <2>3. Ahead(journal, journal')
      BY <1>1, <2>2, JournalAhead, VerdictAhead
    <2>4. Meets(CreateWrite, o.fate)
      BY <2>1 DEF CreateEnds
    <2>5. Grows /\ Begun(WriteMark(CreateWrite))
      BY <2>1, <2>2, JCreateEnds, SentBegun
    <2>6. belated' = belated /\ ((given' = given /\ late' = late) \/ late' = <<CreateWrite>>)
      BY <2>4, LateMeets
    <2>. QED
      BY <1>1, <2>2, <2>3, <2>5, <2>6, LateKeeps
  <1>3. CASE SettleAnswered \/ SettleLost \/ OverviewAnswered
    <2>1. \E w : /\ w.kind # "create" /\ Sound(w)
                 /\ \E fate : Meets(w, fate)
      <3>1. CASE SettleAnswered \/ SettleLost
        <4>1. PICK o : SettleEnds(o)
          BY <3>1 DEF SettleAnswered, SettleLost
        <4>2. Meets(SettleWrite, o.fate)
          BY <4>1 DEF SettleEnds
        <4>3. todo # <<>>
          BY <3>1 DEF SettleAnswered, SettleLost, JInv, PlacesOK
        <4>4. SettleWrite.kind # "create" /\ Sound(SettleWrite)
          BY <1>1, <4>3, SettleSound
        <4>. QED
          BY <4>2, <4>4
      <3>2. CASE OverviewAnswered
        <4>1. PICK o : Meets([kind |-> "overview", head |-> base], o.fate)
          BY <3>2 DEF OverviewAnswered
        <4>2. /\ [kind |-> "overview", head |-> base].kind # "create"
              /\ Sound([kind |-> "overview", head |-> base])
          BY DEF Sound
        <4>. QED
          BY <4>1, <4>2
      <3>. QED
        BY <1>3, <3>1, <3>2
    <2>2. PICK w, fate : w.kind # "create" /\ Sound(w) /\ Meets(w, fate)
      BY <2>1
    <2>3. Grows
      BY <1>1, <2>2, SettleMeets
    <2>4. belated' = belated /\ ((given' = given /\ late' = late) \/ late' = <<w>>)
      BY <2>2, LateMeets
    <2>5. journal' = journal /\ pc' \notin {"idle", "inventory"}
      BY <1>3 DEF SettleAnswered, SettleLost, SettleEnds, NextSettle, OverviewAnswered
    <2>6. Ahead(journal, journal')
      BY <1>1, <2>5, JournalAhead
    <2>. QED
      BY <1>1, <2>2, <2>3, <2>4, <2>5, <2>6, LateKeeps
  <1>. QED
    BY <1>2, <1>3

LEMMA LInductive == JInv /\ LInv /\ [Next]_vars => LInv'
  <1>. SUFFICES ASSUME JInv, LInv, [Next]_vars PROVE LInv'
    OBVIOUS
  <1>0. TypesOK /\ journal \in JournalShape
    BY DEF JInv, PlanOK
  <1>1. CASE UNCHANGED vars
    BY <1>1 DEF vars, host, past, LInv, Begun, Owned, NoteMark, WriteMark, MarkOf
  <1>2. CASE BeginPublish \/ EndJob \/ Crash
    <2>1. given' = 0 /\ belated' = {}
      BY <1>2 DEF BeginPublish, EndJob, Crash, Forget
    <2>. QED
      BY <2>1 DEF LInv
  <1>3. CASE MakePlan
    <2>1. given' = 0 /\ belated' = {}
      BY <1>3 DEF MakePlan, LInv
    <2>. QED
      BY <2>1 DEF LInv
  <1>4. CASE Push \/ HumanAct
    <2>1. /\ journal' = journal /\ UNCHANGED <<pc, given, belated, late>>
          /\ HumanAct \/ notes' = notes
      BY <1>4 DEF Push, HumanAct, past
    <2>2. Grows
      BY <1>0, <2>1, HumanGrows, SameGrows
    <2>3. Ahead(journal, journal')
      BY <1>0, <2>1, JournalAhead
    <2>. QED
      BY <1>0, <2>1, <2>2, <2>3, LateKeeps
  <1>. QED
    BY <1>1, <1>2, <1>3, <1>4, LLandLate, LQuiet, LAnswers DEF Next, Work, Environment

\* What was begun is recorded with the note it left, or is the open action.
LEMMA BegunIsKnown ==
    ASSUME JInv, NEW mark, Begun(mark)
    PROVE  OnRecord(mark) \/ StillOpen(mark)
  <1>1. PICK i \in DOMAIN journal.actions :
           /\ i <= journal.at /\ journal.actions[i].decision = "Create"
           /\ journal.actions[i].fingerprint = mark
    BY DEF Begun
  <1>2. /\ journal \in JournalShape /\ journal.at = Len(journal.entries) + 1
        /\ journal.state = "Completed" => journal.at = Len(journal.actions) + 1
        /\ \A k \in DOMAIN journal.entries : EntryOK(k)
    BY DEF JInv, PlanOK, EntriesOK
  <1>3. journal.actions \in Seq(ActionShape) /\ journal.entries \in Seq(EntryShape)
    BY <1>2 DEF JournalShape
  <1>4. CASE i = journal.at
    <2>1. journal.state # "Completed"
      BY <1>2, <1>3, <1>4
    <2>. QED
      BY <1>1, <1>4, <2>1 DEF StillOpen, Current
  <1>5. CASE i # journal.at
    <2>1. i \in DOMAIN journal.entries
      BY <1>1, <1>2, <1>3, <1>5
    <2>2. journal.entries[i].fingerprint = mark /\ journal.entries[i].outcome # "NoOp"
      BY <1>1, <1>2, <2>1 DEF EntryOK
    <2>. QED
      BY <2>1, <2>2 DEF OnRecord
  <1>. QED
    BY <1>4, <1>5

\* The inductive invariant of the requests given up on.
THEOREM LateInvariance == Spec => []LInv
  <1>1. Init => LInv
    BY DEF Init, LInv
  <1>. QED
    BY <1>1, LInductive, JournalInvariance, PTL DEF Spec

\* The records of a publication are true whatever GitLab answers and whenever
\* a write lands: confirm, mark_ambiguous and reconcile_ambiguous never record
\* a note that is not the bot's or carries another mark, no note that a create
\* left on the host while it was awaited is forgotten by a journal that is
\* complete, and a create that lands after it was given up on leaves a second
\* note of an action on record or a note of the action still open.
THEOREM JournalTruthfulHolds == Spec => []JournalTruthful
  <1>1. ASSUME JInv PROVE \A n \in born : Recorded(n) \/ StillOpen(NoteMark(n))
    BY <1>1 DEF JInv, BornOK, StillOpen
  <1>2. ASSUME JInv, LInv
        PROVE \A n \in belated : n \in Owned /\ (OnRecord(NoteMark(n)) \/ StillOpen(NoteMark(n)))
    BY <1>2, BegunIsKnown DEF LInv
  <1>3. ASSUME JInv
        PROVE \A i \in DOMAIN journal.entries :
                 /\ journal.entries[i].note \in Owned
                 /\ journal.entries[i].outcome # "NoOp" =>
                       NoteMark(journal.entries[i].note) = journal.entries[i].fingerprint
    BY <1>3 DEF JInv, EntriesOK, EntryOK
  <1>4. JInv /\ LInv => JournalTruthful
    BY <1>1, <1>2, <1>3 DEF Recorded, JournalTruthful
  <1>. QED
    BY <1>4, JournalInvariance, LateInvariance, PTL

-----------------------------------------------------------------------------
(* The threads, step by step.                                              *)

LEMMA SameFinding ==
    ASSUME Grows, UNCHANGED <<base, findings, fixed>>, NEW n \in Owned
    PROVE  /\ RightLine(n)' <=> RightLine(n)
           /\ WrongLine(n)' <=> WrongLine(n)
           /\ Gone(n)' <=> Gone(n)
           /\ n \in Owned' /\ n \in DOMAIN notes
           /\ notes'[n].lineage = notes[n].lineage /\ notes'[n].line = notes[n].line
           /\ NoteMark(n)' = NoteMark(n)
           /\ \A mark, l : Reports(mark, l)' <=> Reports(mark, l)
  <1>1. /\ n \in Owned' /\ n \in DOMAIN notes
        /\ notes'[n].lineage = notes[n].lineage /\ notes'[n].line = notes[n].line
        /\ NoteMark(n)' = NoteMark(n)
    BY Lasting
  <1>2. \A mark, l : Reports(mark, l)' <=> Reports(mark, l)
    BY DEF Reports, MarkOf
  <1>. QED
    BY <1>1, <1>2 DEF RightLine, WrongLine, Gone

\* A line is right, wrong, or of no reported lineage.
LEMMA Apart ==
    ASSUME NEW n
    PROVE  /\ ~(RightLine(n) /\ WrongLine(n)) /\ ~(RightLine(n) /\ Gone(n))
           /\ ~(WrongLine(n) /\ Gone(n))
BY DEF RightLine, WrongLine, Gone

LEMMA TodoFirst ==
    ASSUME TypesOK, todo # <<>>
    PROVE  /\ 1 \in DOMAIN todo /\ todo[1].note \in Owned
           /\ \A k \in DOMAIN Tail(todo) :
                 k + 1 \in DOMAIN todo /\ Tail(todo)[k] = todo[k + 1]
           /\ \A k \in DOMAIN todo : k # 1 =>
                 k - 1 \in DOMAIN Tail(todo) /\ Tail(todo)[k - 1] = todo[k]
  <1>1. todo \in Seq(Settlement)
    BY DEF TypesOK
  <1>2. 1 \in DOMAIN todo
    BY <1>1
  <1>3. todo[1].note \in Owned
    BY <1>2 DEF TypesOK
  <1>. QED
    BY <1>1, <1>2, <1>3

\* The threads, when no thread and nothing planned changes.
LEMMA CalmKeeps ==
    ASSUME JInv, TInv, notes' = notes, UNCHANGED <<base, findings, fixed, todo, touched>>,
           journal'.actions = journal.actions,
           journal'.at = journal.at \/ journal'.at = journal.at + 1,
           pc' \in Acting => pc \in Acting,
           pc' \in Creating => pc \in Creating,
           pc' \in Creating /\ journal'.at = journal.at =>
              pc' = pc \/ pc # "reconciling" \/ OwnWithMark(Current(journal).fingerprint) = {},
           pc' = "completed" => overview' = base
    PROVE  TInv'
  <1>1. TypesOK /\ Grows /\ Owned' = Owned
    BY SameGrows DEF JInv, Owned
  <1>2. OnePerLine'
    BY <1>1 DEF TInv, OnePerLine
  <1>3. Pending'
    <2>. SUFFICES ASSUME pc' \in Creating, NEW i \in DOMAIN journal.actions, NEW n \in Owned,
                         i >= journal'.at, journal.actions[i].decision = "Create",
                         RightLine(n), Reports(journal.actions[i].fingerprint, notes[n].lineage)
                  PROVE  /\ pc' = "reconciling" /\ i = journal'.at
                         /\ NoteMark(n)' = journal.actions[i].fingerprint
      BY <1>1, SameFinding DEF Pending
    <2>1. journal.at \in Nat /\ i \in Nat
      BY DEF JInv, PlanOK, JournalShape
    <2>2. pc = "reconciling" /\ i = journal.at /\ NoteMark(n) = journal.actions[i].fingerprint
      BY <2>1 DEF TInv, Pending
    <2>3. journal'.at = journal.at
      BY <2>1, <2>2
    <2>4. n \in OwnWithMark(Current(journal).fingerprint)
      BY <2>2 DEF OwnWithMark, Current
    <2>. QED
      BY <1>1, <2>2, <2>3, <2>4, SameFinding
  <1>4. TodoOK'
    BY <1>1, SameFinding DEF TInv, TodoOK, TypesOK
  <1>5. ThreadsOK'
    BY <1>1, SameFinding DEF TInv, ThreadsOK, ByPeople, Due
  <1>6. NoOpsOK'
    BY <1>1, SameFinding DEF JInv, PlanOK, TInv, NoOpsOK, ByPeople, Due
  <1>7. PlanCovers'
    BY DEF TInv, PlanCovers, Reports, MarkOf
  <1>. QED
    BY <1>2, <1>3, <1>4, <1>5, <1>6, <1>7 DEF TInv, OverviewOK

\* A publication that begins or ends keeps only what is said of the host.
LEMMA ForgetKeeps ==
    ASSUME OnePerLine', pc' \in {"idle", "inventory", "stopped"}
    PROVE  TInv'
BY DEF TInv, Pending, TodoOK, ThreadsOK, NoOpsOK, PlanCovers, OverviewOK, Acting, Creating

LEMMA GrowsOnePerLine ==
    ASSUME OnePerLine, Grows, Owned' = Owned
    PROVE  OnePerLine'
BY Lasting DEF OnePerLine

\* The note of a create is the only one at its line.
LEMMA CreateOnePerLine ==
    ASSUME JInv, TInv, pc = "sent",
           notes' = Append(notes, ThreadOf(CreateWrite)), ThreadOf(CreateWrite) \in Thread
    PROVE  /\ OnePerLine' /\ Grows /\ StatesKept
           /\ Owned' = Owned \cup {Len(notes')} /\ Len(notes') \notin Owned
           /\ notes'[Len(notes')] = ThreadOf(CreateWrite)
           /\ CreateWrite.lineage \in DOMAIN findings
           /\ CreateWrite.line = findings[CreateWrite.lineage].line
           /\ Reports(Current(journal).fingerprint, CreateWrite.lineage)
  <1>. DEFINE t == ThreadOf(CreateWrite)
              x == Len(notes')
              l == CreateWrite.lineage
  <1>1. t.author = "bot" /\ t.lineage = l /\ t.line = CreateWrite.line
    BY DEF ThreadOf
  <1>2. journal.at \in DOMAIN journal.actions /\ journal.at <= Len(journal.actions)
    BY CurrentAction
  <1>3. Reports(Current(journal).fingerprint, l) /\ CreateWrite.line = findings[l].line
    BY <1>2, CreateSound
  <1>4. l \in DOMAIN findings
    BY <1>3 DEF Reports
  <1>. HIDE DEF t, l
  <1>5. /\ Grows /\ StatesKept
        /\ DOMAIN notes' = DOMAIN notes \cup {x} /\ x \notin DOMAIN notes /\ notes'[x] = t
    <2>1. TypesOK /\ t \in Thread /\ notes' = Append(notes, t)
      BY DEF JInv, t
    <2>. QED
      BY <2>1, Appended
  <1>. HIDE DEF x
  <1>6. Owned' = Owned \cup {x} /\ x \notin Owned
    BY <1>1, <1>5 DEF Owned, Grows
  <1>7. ASSUME NEW m \in Owned, notes[m].lineage = l, notes[m].line = findings[l].line
        PROVE  FALSE
    <2>1. RightLine(m)
      BY <1>4, <1>7 DEF RightLine
    <2>2. journal.at >= journal.at /\ journal.actions[journal.at].decision = "Create"
          /\ Reports(journal.actions[journal.at].fingerprint, notes[m].lineage)
      BY <1>2, <1>3, <1>7 DEF JInv, PlacesOK, Current
    <2>3. pc = "reconciling"
      BY <1>2, <2>1, <2>2 DEF TInv, Pending, Creating
    <2>. QED
      BY <2>3
  <1>8. OnePerLine'
    <2>. SUFFICES ASSUME NEW m \in Owned', NEW n \in Owned',
                         notes'[m].lineage = notes'[n].lineage, notes'[m].line = notes'[n].line
                  PROVE  m = n
      BY DEF OnePerLine
    <2>1. CASE m \in Owned /\ n \in Owned
      BY <2>1, <1>5, Lasting DEF TInv, OnePerLine
    <2>2. CASE m = x /\ n \in Owned
      BY <2>2, <1>1, <1>3, <1>5, <1>7, Lasting
    <2>3. CASE n = x /\ m \in Owned
      BY <2>3, <1>1, <1>3, <1>5, <1>7, Lasting
    <2>. QED
      BY <1>6, <2>1, <2>2, <2>3
  <1>. QED
    BY <1>3, <1>4, <1>5, <1>6, <1>8 DEF t, x, l

\* A create landed.
LEMMA CreateKeeps ==
    ASSUME JInv, TInv, pc = "sent",
           notes' = Append(notes, ThreadOf(CreateWrite)), ThreadOf(CreateWrite) \in Thread,
           UNCHANGED <<base, findings, fixed, todo, touched>>,
           journal'.actions = journal.actions,
           \/ journal'.at = journal.at + 1 /\ pc' \in {"working", "settling"}
           \/ /\ journal'.at = journal.at /\ pc' = "reconciling"
              /\ \A n : n = Len(notes') => NoteMark(n)' = Current(journal).fingerprint
           \/ pc' = "stopped"
    PROVE  TInv'
  <1>0. PICK x : x = Len(notes')
    OBVIOUS
  <1>. DEFINE l == CreateWrite.lineage
  <1>1. /\ OnePerLine' /\ Grows /\ StatesKept
        /\ Owned' = Owned \cup {x} /\ x \notin Owned
        /\ notes'[x] = ThreadOf(CreateWrite)
        /\ l \in DOMAIN findings
        /\ CreateWrite.line = findings[l].line
        /\ Reports(Current(journal).fingerprint, l)
    BY <1>0, CreateOnePerLine
  <1>2. notes'[x].lineage = l /\ notes'[x].line = findings[l].line /\ notes'[x].state = "open"
    <2>1. /\ ThreadOf(CreateWrite).lineage = l /\ ThreadOf(CreateWrite).state = "open"
          /\ ThreadOf(CreateWrite).line = CreateWrite.line
      BY DEF ThreadOf
    <2>. HIDE DEF l
    <2>. QED
      BY <1>1, <2>1
  <1>. HIDE DEF l
  <1>3. CASE pc' = "stopped"
    BY <1>1, <1>3, ForgetKeeps
  <1>4. CASE pc' # "stopped"
    <2>1. /\ pc \in Acting /\ pc' \in {"working", "settling", "reconciling"}
          /\ pc \in Creating
      BY <1>4 DEF Acting, Creating
    <2>2. \A n \in Owned : notes'[n].state = notes[n].state
      BY <1>1 DEF StatesKept, Owned
    <2>0. \A mark, k : Reports(mark, k)' <=> Reports(mark, k)
      BY DEF Reports, MarkOf
    <2>3. Pending'
      <3>. SUFFICES ASSUME NEW i \in DOMAIN journal.actions, NEW n \in Owned',
                           i >= journal'.at, journal.actions[i].decision = "Create",
                           RightLine(n)',
                           Reports(journal.actions[i].fingerprint, notes'[n].lineage)
                    PROVE  /\ pc' = "reconciling" /\ i = journal'.at
                           /\ NoteMark(n)' = journal.actions[i].fingerprint
        BY <2>0 DEF Pending
      <3>1. journal.at \in Nat /\ i \in Nat /\ journal.at \in DOMAIN journal.actions
        BY <2>1, CurrentAction DEF Creating, JInv, PlanOK, JournalShape
      <3>2. CASE n \in Owned
        <4>1. RightLine(n) /\ Reports(journal.actions[i].fingerprint, notes[n].lineage)
          BY <1>1, <3>2, SameFinding
        <4>2. pc = "reconciling"
          BY <2>1, <3>1, <3>2, <4>1, <1>4 DEF TInv, Pending
        <4>. QED
          BY <4>2
      <3>3. CASE n = x
        <4>1. journal.actions[i].fingerprint = Current(journal).fingerprint
          BY <1>1, <1>2, <3>3 DEF Reports
        <4>2. ~(i < journal.at) /\ ~(journal.at < i)
          <5>0. journal.actions \in Seq(ActionShape)
            BY CurrentAction
          <5>1. \A a \in DOMAIN journal.actions : journal.actions[a].fingerprint \in Nat
            <6>1. \A a \in DOMAIN journal.actions : journal.actions[a] \in ActionShape
              BY <5>0
            <6>. QED
              BY <6>1 DEF ActionShape
          <5>2. ~(journal.actions[i].fingerprint < journal.actions[journal.at].fingerprint)
                /\ ~(journal.actions[journal.at].fingerprint < journal.actions[i].fingerprint)
            BY <3>1, <4>1, <5>1 DEF Current
          <5>. QED
            BY <3>1, <5>2 DEF JInv, PlanOK
        <4>3. i = journal.at
          BY <3>1, <4>2
        <4>4. journal'.at = journal.at /\ pc' = "reconciling"
          BY <1>4, <3>1, <4>3
        <4>. QED
          BY <1>0, <1>4, <3>1, <3>3, <4>1, <4>3, <4>4
      <3>. QED
        BY <1>1, <3>2, <3>3
    <2>4. TodoOK'
      BY <1>1, <2>1, <2>2, SameFinding DEF TInv, TodoOK, JInv, TypesOK
    <2>5. ThreadsOK'
      <3>1. ASSUME NEW n \in Owned
            PROVE /\ RightLine(n)' => notes'[n].state = "open" \/ ByPeople(n)' \/ Due(n, "open")'
                  /\ WrongLine(n)' \/ Gone(n)' =>
                        notes'[n].state # "open" \/ n \in touched' \/ Due(n, "bot")'
        BY <1>1, <2>1, <2>2, SameFinding DEF TInv, ThreadsOK, ByPeople, Due
      <3>2. RightLine(x)' /\ notes'[x].state = "open"
        BY <1>1, <1>2 DEF RightLine
      <3>3. ~WrongLine(x)' /\ ~Gone(x)'
        BY <1>1, <1>2 DEF WrongLine, Gone
      <3>. QED
        BY <1>1, <3>1, <3>2, <3>3 DEF ThreadsOK
    <2>6. NoOpsOK'
      BY <1>1, <2>1, <2>2, SameFinding DEF JInv, PlanOK, TInv, NoOpsOK, ByPeople, Due
    <2>7. PlanCovers'
      BY <2>1 DEF TInv, PlanCovers, Reports, MarkOf
    <2>8. OverviewOK'
      BY <2>1 DEF OverviewOK
    <2>. QED
      BY <1>1, <2>3, <2>4, <2>5, <2>6, <2>7, <2>8 DEF TInv
  <1>. QED
    BY <1>3, <1>4

\* People resolve or reopen a thread.
LEMMA HumanKeeps ==
    ASSUME JInv, TInv, NEW n \in Owned, NEW s \in {"open", "human"},
           notes' = [notes EXCEPT ![n].state = s], touched' = touched \cup {n},
           UNCHANGED <<base, findings, fixed, todo, journal, pc, overview>>
    PROVE  TInv'
  <1>1. TypesOK /\ n \in DOMAIN notes /\ s \in {"open", "bot", "human"}
    BY DEF JInv, Owned
  <1>2. /\ Grows /\ DOMAIN notes' = DOMAIN notes
        /\ \A m \in DOMAIN notes \ {n} : notes'[m] = notes[m]
    BY <1>1, StateSet
  <1>3. Owned' = Owned
    BY <1>2 DEF Owned, Grows
  <1>4. OnePerLine'
    BY <1>2, <1>3, GrowsOnePerLine DEF TInv
  <1>5. Pending'
    <2>1. Current(journal)' = Current(journal)
      BY DEF Current
    <2>. QED
      BY <1>2, <1>3, SameFinding DEF TInv, Pending
  <1>6. \A m \in Owned : m # n => notes'[m].state = notes[m].state
    BY <1>2 DEF Owned
  <1>7. TodoOK'
    BY <1>2, <1>3, <1>6, SameFinding DEF JInv, TypesOK, TInv, TodoOK
  <1>8. ThreadsOK'
    BY <1>2, <1>3, <1>6, SameFinding DEF TInv, ThreadsOK, ByPeople, Due
  <1>9. NoOpsOK'
    BY <1>2, <1>3, <1>6, SameFinding DEF JInv, PlanOK, TInv, NoOpsOK, ByPeople, Due
  <1>10. PlanCovers'
    BY DEF TInv, PlanCovers, Reports, MarkOf
  <1>. QED
    BY <1>4, <1>5, <1>7, <1>8, <1>9, <1>10 DEF TInv, OverviewOK

\* People post a thread of their own.
LEMMA QuoteKeeps ==
    ASSUME JInv, TInv, NEW t \in Thread, t.author # "bot", notes' = Append(notes, t),
           UNCHANGED <<base, findings, fixed, todo, journal, pc, overview, touched>>
    PROVE  TInv'
  <1>1. TypesOK
    BY DEF JInv
  <1>2. /\ Grows /\ StatesKept /\ DOMAIN notes' = DOMAIN notes \cup {Len(notes')}
        /\ notes'[Len(notes')] = t /\ Len(notes') \notin DOMAIN notes
    BY <1>1, Appended
  <1>3. Owned' = Owned
    BY <1>2 DEF Owned, Grows
  <1>4. OnePerLine'
    BY <1>2, <1>3, GrowsOnePerLine DEF TInv
  <1>5. Pending'
    BY <1>2, <1>3, SameFinding DEF TInv, Pending
  <1>6. \A m \in Owned : notes'[m].state = notes[m].state
    BY <1>2 DEF StatesKept, Owned
  <1>7. TodoOK'
    BY <1>2, <1>3, <1>6, SameFinding DEF JInv, TypesOK, TInv, TodoOK
  <1>8. ThreadsOK'
    BY <1>2, <1>3, <1>6, SameFinding DEF TInv, ThreadsOK, ByPeople, Due
  <1>9. NoOpsOK'
    BY <1>2, <1>3, <1>6, SameFinding DEF JInv, PlanOK, TInv, NoOpsOK, ByPeople, Due
  <1>10. PlanCovers'
    BY DEF TInv, PlanCovers, Reports, MarkOf
  <1>. QED
    BY <1>4, <1>5, <1>7, <1>8, <1>9, <1>10 DEF TInv, OverviewOK

\* A resolution or reopening lands, or is found done, or both; it leaves the
\* list only when the thread is in the wanted state.
LEMMA SettleKeeps ==
    ASSUME JInv, TInv, todo # <<>>, pc \in {"settleSent", "settleCheck"},
           notes' = notes
             \/ notes' = [notes EXCEPT ![todo[1].note].state = SettledState(SettleWrite)],
           UNCHANGED <<base, findings, fixed, journal, touched>>,
           \/ todo' = todo
           \/ /\ todo' = Tail(todo)
              /\ notes'[todo[1].note].state # "open" <=> todo[1].state # "open",
           pc' \in {"settling", "settleSent", "settleCheck"}
    PROVE  TInv'
  <1>. DEFINE n == todo[1].note
  <1>1. TypesOK /\ n \in Owned /\ n \in DOMAIN notes /\ 1 \in DOMAIN todo
        /\ todo[1].state \in {"open", "bot"}
    BY TodoFirst, SettleSound DEF JInv, Owned
  <1>2. \/ todo[1].state = "bot" /\ (WrongLine(n) \/ Gone(n)) /\ Due(n, "bot")
        \/ todo[1].state = "open" /\ RightLine(n)
    BY <1>1 DEF TInv, TodoOK, Acting, Due
  <1>3. SettledState(SettleWrite)
           = IF todo[1].state = "bot" /\ notes[n].state = "human" THEN "human" ELSE todo[1].state
    BY <1>1, SettleSound DEF SettledState
  <1>. HIDE DEF n
  <1>4. /\ Grows /\ DOMAIN notes' = DOMAIN notes
        /\ \A m \in DOMAIN notes \ {n} : notes'[m] = notes[m]
        /\ \/ notes'[n].state = notes[n].state
           \/ notes'[n].state = IF todo[1].state = "bot" /\ notes[n].state = "human"
                                THEN "human" ELSE todo[1].state
    <2>1. CASE notes' = notes
      BY <1>1, <2>1, SameGrows
    <2>2. CASE notes' = [notes EXCEPT ![n].state = SettledState(SettleWrite)]
      <3>1. SettledState(SettleWrite) \in {"open", "bot", "human"}
        BY <1>1, <1>3
      <3>. QED
        BY <1>1, <1>3, <2>2, <3>1, StateSet
    <2>. QED
      BY <2>1, <2>2 DEF n
  <1>5. Owned' = Owned
    BY <1>4 DEF Owned, Grows
  <1>6. OnePerLine'
    BY <1>4, <1>5, GrowsOnePerLine DEF TInv
  <1>7. Pending'
    BY DEF Pending, Creating
  <1>8. \A m \in Owned : m # n => notes'[m].state = notes[m].state
    BY <1>4 DEF Owned
  <1>9. /\ \A k \in DOMAIN todo' : \E i \in DOMAIN todo : todo'[k] = todo[i]
        /\ \A m, s : Due(m, s)' => Due(m, s)
        /\ \A m, s : Due(m, s) /\ (m # n \/ todo' = todo) => Due(m, s)'
    <2>1. CASE todo' = todo
      BY <2>1 DEF Due
    <2>2. CASE todo' = Tail(todo)
      <3>1. /\ \A k \in DOMAIN todo' : k + 1 \in DOMAIN todo /\ todo'[k] = todo[k + 1]
            /\ \A k \in DOMAIN todo : k # 1 => k - 1 \in DOMAIN todo' /\ todo'[k - 1] = todo[k]
        BY <1>1, <2>2, TodoFirst
      <3>. QED
        BY <3>1 DEF Due, n
    <2>. QED
      BY <2>1, <2>2
  <1>10. pc \in Acting /\ pc' \in Acting
    BY DEF Acting
  <1>11. TodoOK'
    <2>. SUFFICES ASSUME NEW k \in DOMAIN todo', NEW q, q = todo'[k].note
                  PROVE  /\ todo'[k].state = "bot" => WrongLine(q)' \/ Gone(q)'
                         /\ todo'[k].state = "open" =>
                              RightLine(q)' /\ (notes'[q].state = "human" => q \in touched')
      BY DEF TodoOK, RightLine, WrongLine, Gone
    <2>1. PICK i \in DOMAIN todo : todo'[k] = todo[i]
      BY <1>9
    <2>2. q \in Owned /\ q = todo[i].note
      BY <1>1, <2>1 DEF TypesOK
    <2>3. /\ todo[i].state = "bot" => WrongLine(q) \/ Gone(q)
          /\ todo[i].state = "open" =>
                RightLine(q) /\ (notes[q].state = "human" => q \in touched)
      BY <1>10, <2>2 DEF TInv, TodoOK
    <2>4. /\ RightLine(q)' <=> RightLine(q)
          /\ WrongLine(q)' <=> WrongLine(q)
          /\ Gone(q)' <=> Gone(q)
      BY <1>4, <2>2, SameFinding
    <2>5. ASSUME todo[i].state = "open", notes'[q].state = "human"
          PROVE  notes[q].state = "human"
      <3>1. CASE q # n
        BY <1>8, <2>2, <2>5, <3>1
      <3>2. CASE q = n
        BY <1>1, <1>4, <2>5, <3>2
      <3>. QED
        BY <3>1, <3>2
    <2>. QED
      BY <2>1, <2>3, <2>4, <2>5
  <1>12. ThreadsOK'
    <2>. SUFFICES ASSUME NEW m \in Owned
                  PROVE  /\ RightLine(m)' =>
                              notes'[m].state = "open" \/ ByPeople(m)' \/ Due(m, "open")'
                         /\ WrongLine(m)' \/ Gone(m)' =>
                              notes'[m].state # "open" \/ m \in touched' \/ Due(m, "bot")'
      BY <1>5 DEF ThreadsOK
    <2>1. /\ RightLine(m)' <=> RightLine(m)
          /\ WrongLine(m)' <=> WrongLine(m)
          /\ Gone(m)' <=> Gone(m)
      BY <1>4, SameFinding
    <2>2. /\ RightLine(m) => notes[m].state = "open" \/ ByPeople(m) \/ Due(m, "open")
          /\ WrongLine(m) \/ Gone(m) =>
                notes[m].state # "open" \/ m \in touched \/ Due(m, "bot")
      BY <1>10 DEF TInv, ThreadsOK
    <2>3. CASE m # n
      BY <1>8, <1>9, <2>1, <2>2, <2>3 DEF ByPeople
    <2>4. CASE m = n /\ todo[1].state = "bot"
      <3>1. ~RightLine(m)
        BY <1>2, <2>4, Apart
      <3>2. CASE todo' = todo
        BY <1>2, <1>4, <1>9, <2>1, <2>4, <3>1, <3>2
      <3>3. CASE todo' # todo
        BY <2>1, <2>4, <3>1, <3>3 DEF n
      <3>. QED
        BY <3>2, <3>3
    <2>5. CASE m = n /\ todo[1].state = "open"
      <3>1. RightLine(m) /\ ~WrongLine(m) /\ ~Gone(m)
        BY <1>2, <2>5, Apart
      <3>2. CASE todo' = todo
        BY <1>4, <1>9, <2>1, <2>2, <2>5, <3>1, <3>2 DEF ByPeople
      <3>3. CASE todo' # todo
        BY <2>1, <2>5, <3>1, <3>3 DEF n
      <3>. QED
        BY <3>2, <3>3
    <2>. QED
      BY <1>1, <2>3, <2>4, <2>5
  <1>13. NoOpsOK'
    <2>. SUFFICES ASSUME NEW i \in DOMAIN journal.actions, journal.actions[i].decision = "NoOp"
                  PROVE  \/ RightLine(journal.actions[i].note)'
                         \/ ByPeople(journal.actions[i].note)' /\ ~Due(journal.actions[i].note, "bot")'
      BY DEF NoOpsOK
    <2>1. PICK m \in Owned : m = journal.actions[i].note
      BY DEF JInv, PlanOK
    <2>2. RightLine(m) \/ (ByPeople(m) /\ ~Due(m, "bot"))
      BY <1>10, <2>1 DEF TInv, NoOpsOK
    <2>3. RightLine(m)' <=> RightLine(m)
      BY <1>4, SameFinding
    <2>4. ASSUME ~RightLine(m) PROVE ByPeople(m)' /\ ~Due(m, "bot")'
      <3>1. m # n
        BY <1>2, <2>2, <2>4
      <3>. QED
        BY <1>8, <1>9, <2>2, <2>4, <3>1 DEF ByPeople
    <2>. QED
      BY <2>1, <2>3, <2>4
  <1>14. PlanCovers'
    BY <1>10 DEF TInv, PlanCovers, Reports, MarkOf
  <1>. QED
    BY <1>6, <1>7, <1>11, <1>12, <1>13, <1>14 DEF TInv, OverviewOK

\* The plan is made from what is there.
LEMMA PlanKeeps == ASSUME JInv, TInv, MakePlan PROVE TInv'
  <1>1. /\ journal' = TryNew(base, PlanActions) /\ todo' = Settlements /\ touched' = {}
        /\ pc' = ProgressOf(journal') /\ notes' = notes
        /\ UNCHANGED <<base, findings, fixed>>
    BY DEF MakePlan, host, plan
  <1>2. TypesOK /\ Grows /\ Owned' = Owned
    BY <1>1, SameGrows DEF JInv, Owned
  <1>3. journal'.actions = PlanActions /\ pc' \in {"working", "settling"}
    BY <1>1 DEF TryNew, ProgressOf
  <1>4. OnePerLine'
    BY <1>2, GrowsOnePerLine DEF TInv
  <1>5. /\ \A n \in Owned : (RightLine(n)' <=> RightLine(n)) /\ (WrongLine(n)' <=> WrongLine(n))
                              /\ (Gone(n)' <=> Gone(n))
        /\ \A mark, l : Reports(mark, l)' <=> Reports(mark, l)
    <2>1. \A mark, l : Reports(mark, l)' <=> Reports(mark, l)
      BY <1>1 DEF Reports, MarkOf
    <2>. QED
      BY <1>1, <1>2, <2>1, SameFinding
  <1>6. \A n \in Owned : RightLine(n) => n \in Planned
    BY DEF RightLine, Planned, Dropped
  <1>7. \A s, n : Due(n, s)' <=> \E k \in DOMAIN Settlements :
                                    Settlements[k].note = n /\ Settlements[k].state = s
    BY <1>1 DEF Due
  <1>8. Pending'
    <2>. SUFFICES ASSUME NEW i \in DOMAIN PlanActions, NEW n \in Owned,
                         PlanActions[i].decision = "Create", RightLine(n),
                         Reports(PlanActions[i].fingerprint, notes[n].lineage)
                  PROVE  FALSE
      BY <1>1, <1>2, <1>3, <1>5 DEF Pending
    <2>1. PICK l \in DOMAIN findings :
             /\ Reports(PlanActions[i].fingerprint, l)
             /\ PlanActions[i].decision = "Create" => Matches(base, l) = {}
      BY <1>2, PlanFacts
    <2>2. l = notes[n].lineage
      BY <1>2, <2>1, FindingMark DEF Reports
    <2>3. n \in {m \in Planned : notes[m].lineage = l}
      BY <1>6, <2>2
    <2>. QED
      BY <2>1, <2>3 DEF Matches
  <1>9. TodoOK'
    <2>. SUFFICES ASSUME NEW k \in DOMAIN Settlements, NEW n, n = Settlements[k].note
                  PROVE  /\ n \in Owned
                         /\ Settlements[k].state = "bot" => WrongLine(n) \/ Gone(n)
                         /\ Settlements[k].state = "open" =>
                              RightLine(n) /\ notes[n].state # "human"
      BY <1>1, <1>5 DEF TodoOK
    <2>1. \/ Settlements[k].state = "bot" /\ n \in Retired \cup Reanchored
          \/ Settlements[k].state = "open" /\ n \in Reopened
      BY <1>2, SettlementFacts
    <2>2. n \in Retired => n \in Owned /\ Gone(n)
      BY DEF Retired, Planned, Gone
    <2>3. n \in Reanchored => n \in Owned /\ WrongLine(n)
      BY DEF Reanchored, Dropped, WrongLine
    <2>4. n \in Reopened => n \in Owned /\ RightLine(n) /\ notes[n].state # "human"
      BY DEF Reopened, Planned, Dropped, RightLine
    <2>. QED
      BY <2>1, <2>2, <2>3, <2>4
  <1>10. ThreadsOK'
    <2>. SUFFICES ASSUME NEW n \in Owned
                  PROVE  /\ RightLine(n) => notes[n].state \in {"open", "human"} \/ Due(n, "open")'
                         /\ WrongLine(n) \/ Gone(n) => notes[n].state # "open" \/ Due(n, "bot")'
      BY <1>1, <1>2, <1>5 DEF ThreadsOK, ByPeople
    <2>0. notes[n].state \in {"open", "bot", "human"}
      BY <1>2, NoteType, ThreadType DEF Owned
    <2>1. ASSUME RightLine(n), notes[n].state = "bot" PROVE Due(n, "open")'
      <3>1. n \in Reopened
        BY <1>6, <2>1 DEF Reopened, RightLine
      <3>. QED
        BY <1>2, <1>7, <3>1, SettlementFacts
    <2>2. ASSUME WrongLine(n) \/ Gone(n), notes[n].state = "open" PROVE Due(n, "bot")'
      <3>1. n \in Retired \cup Reanchored
        BY <2>2 DEF Retired, Reanchored, Planned, Dropped, WrongLine, Gone
      <3>. QED
        BY <1>2, <1>7, <3>1, SettlementFacts
    <2>. QED
      BY <2>0, <2>1, <2>2
  <1>11. NoOpsOK'
    <2>. SUFFICES ASSUME NEW i \in DOMAIN PlanActions, PlanActions[i].decision = "NoOp",
                         NEW m, m = PlanActions[i].note
                  PROVE  /\ m \in Owned
                         /\ \/ RightLine(m)
                            \/ notes[m].state = "human" /\ ~Due(m, "bot")'
      BY <1>1, <1>3, <1>5 DEF NoOpsOK, ByPeople
    <2>1. PICK l \in DOMAIN findings : m \in Matches(base, l)
      BY <1>2, PlanFacts
    <2>2. m \in Planned /\ m \in Owned /\ notes[m].lineage = l
      BY <1>2, <2>1, MatchesOwn
    <2>3. RightLine(m) \/ notes[m].state = "human"
      BY <2>2 DEF Planned, Dropped, RightLine
    <2>4. ~Due(m, "bot")'
      <3>1. m \notin Retired \cup Reanchored
        BY <2>2 DEF Retired, Reanchored, Planned
      <3>. QED
        BY <1>2, <1>7, <3>1, SettlementFacts
    <2>. QED
      BY <2>2, <2>3, <2>4
  <1>12. PlanCovers'
    BY <1>1, <1>2, <1>3, <1>5, PlanFacts DEF PlanCovers
  <1>. QED
    BY <1>3, <1>4, <1>8, <1>9, <1>10, <1>11, <1>12 DEF TInv, OverviewOK

LEMMA TStops ==
    ASSUME JInv, TInv, \/ PlanFails \/ ActionStale \/ RefreshFails \/ ReconcileFails
                       \/ SettleStale \/ SettleFails
    PROVE  TInv'
  <1>1. \E j : StopWith(j)
    BY DEF PlanFails, ActionStale, RefreshFails, ReconcileFails, SettleStale, SettleFails
  <1>2. notes' = notes /\ pc' = "stopped"
    BY <1>1 DEF StopWith, host
  <1>3. Grows /\ Owned' = Owned
    BY <1>2, SameGrows DEF JInv, Owned
  <1>. QED
    BY <1>2, <1>3, GrowsOnePerLine, ForgetKeeps DEF TInv

LEMMA TQuiet ==
    ASSUME JInv, TInv, Push \/ SendCreate \/ SendSettle \/ OverviewKept \/ SendOverview
    PROVE  TInv'
  <1>. USE DEF host, plan, settle, past
  <1>1. CASE SendCreate
    <2>1. /\ journal' = InState(journal, "AwaitingOutcome") /\ pc = "working" /\ pc' = "sent"
          /\ UNCHANGED <<notes, base, findings, fixed, todo, touched>>
      BY <1>1 DEF SendCreate
    <2>2. journal'.actions = journal.actions /\ journal'.at = journal.at
      BY <2>1, InStateFields DEF JInv, PlanOK
    <2>3. pc' \in Acting /\ pc \in Acting /\ pc \in Creating
      BY <2>1 DEF Acting, Creating
    <2>. QED
      BY <2>1, <2>2, <2>3, CalmKeeps
  <1>2. CASE Push
    <2>1. /\ UNCHANGED <<notes, overview, base, findings, fixed, todo, touched, journal, pc>>
      BY <1>2 DEF Push
    <2>. QED
      BY <2>1, CalmKeeps DEF TInv, OverviewOK
  <1>3. CASE SendSettle \/ OverviewKept \/ SendOverview
    <2>1. /\ UNCHANGED <<notes, overview, base, findings, fixed, todo, touched, journal>>
          /\ pc = "settling"
          /\ \/ pc' \in {"settleSent", "overviewSent"}
             \/ pc' = "completed" /\ overview = base
      BY <1>3 DEF SendSettle, OverviewKept, SendOverview, Settled
    <2>2. pc \in Acting /\ pc' \notin Creating
      BY <2>1 DEF Acting, Creating
    <2>. QED
      BY <2>1, <2>2, CalmKeeps
  <1>. QED
    BY <1>1, <1>2, <1>3

LEMMA TConfirmNoOp == ASSUME JInv, TInv, ConfirmNoOp PROVE TInv'
  <1>. DEFINE note == Current(journal).note
              j == InState(journal, "AwaitingOutcome")
  <1>1. /\ pc = "working" /\ Current(journal).decision = "NoOp"
        /\ journal' = Confirmed(j, note) /\ pc' = ProgressOf(journal')
        /\ UNCHANGED <<notes, base, findings, fixed, todo, touched>>
    BY DEF ConfirmNoOp, host, plan, settle, past
  <1>2. journal \in JournalShape
    BY DEF JInv, PlanOK
  <1>3. j.actions = journal.actions /\ j.at = journal.at /\ Current(j) = Current(journal)
    BY <1>2 DEF InState, JournalShape, Current
  <1>4. journal' = CompleteCurrent(j, "NoOp", note)
    BY <1>1, <1>3 DEF Confirmed
  <1>5. CompleteCurrent(j, "NoOp", note) = CompleteCurrent(journal, "NoOp", note)
    BY <1>2, <1>3 DEF CompleteCurrent, InState, JournalShape
  <1>6. journal'.actions = journal.actions /\ journal'.at = journal.at + 1
    BY <1>2, <1>4, <1>5, CompleteFields
  <1>7. pc' \in {"working", "settling"} /\ pc \in Acting /\ pc \in Creating
    BY <1>1 DEF ProgressOf, Acting, Creating
  <1>. QED
    BY <1>1, <1>6, <1>7, CalmKeeps

LEMMA TCreates ==
    ASSUME JInv, TInv, CreateAnswered \/ CreateLost \/ CreateUnusable \/ CreateRefused
    PROVE  TInv'
  <1>1. pc = "sent"
    BY DEF CreateAnswered, CreateLost, CreateUnusable, CreateRefused
  <1>2. PICK o \in CreateOutcomes :
           /\ CreateEnds(o)
           /\ \/ /\ o.result = "created"
                 /\ journal' = Confirmed(journal, Len(notes'))
                 /\ pc' = ProgressOf(journal')
              \/ journal' = InState(journal, "AmbiguousOutcome") /\ pc' = "reconciling"
              \/ pc' = "stopped" /\ journal' = InState(journal, "Failed")
    BY DEF CreateAnswered, CreateLost, CreateUnusable, CreateRefused, Reported
  <1>3. /\ journal \in JournalShape /\ journal.at <= Len(journal.actions)
        /\ Current(journal).decision = "Create"
        /\ pc \in Acting /\ pc \in Creating /\ "stopped" \notin Creating
        /\ "stopped" \notin Acting
    BY <1>1, CurrentAction DEF JInv, PlacesOK, Acting, Creating
  <1>4. /\ Meets(CreateWrite, o.fate)
        /\ UNCHANGED <<base, findings, fixed, todo, touched>>
    BY <1>2 DEF CreateEnds, plan, settle
  <1>5. /\ journal'.actions = journal.actions
        /\ \/ o.fate = "landed" /\ journal'.at = journal.at + 1 /\ pc' \in {"working", "settling"}
           \/ journal'.at = journal.at /\ pc' = "reconciling"
           \/ journal'.at = journal.at /\ pc' = "stopped"
    <2>1. CASE o.result = "created" /\ journal' = Confirmed(journal, Len(notes'))
                  /\ pc' = ProgressOf(journal')
      <3>1. \A x : Confirmed(journal, x) = CompleteCurrent(journal, "Created", x)
        BY <1>3 DEF Confirmed
      <3>2. journal'.actions = journal.actions /\ journal'.at = journal.at + 1
        BY <1>3, <2>1, <3>1, CompleteFields
      <3>. QED
        BY <2>1, <3>2, CreatedLanded DEF ProgressOf
    <2>2. CASE \/ journal' = InState(journal, "AmbiguousOutcome") /\ pc' = "reconciling"
               \/ pc' = "stopped" /\ journal' = InState(journal, "Failed")
      BY <1>3, <2>2, InStateFields
    <2>. QED
      BY <1>2, <2>1, <2>2
  <1>6. CASE notes' = notes /\ o.fate # "landed"
    <2>1. pc' \in {"reconciling", "stopped"} /\ journal'.at = journal.at
      BY <1>5, <1>6
    <2>2. pc' # "completed" /\ pc # "reconciling"
      BY <1>1, <2>1
    <2>. QED
      BY <1>3, <1>4, <1>5, <1>6, <2>1, <2>2, CalmKeeps
  <1>7. CASE \E n : /\ n = Len(notes') /\ NoteMark(n)' = Current(journal).fingerprint
                    /\ notes' = Append(notes, ThreadOf(CreateWrite))
                    /\ ThreadOf(CreateWrite) \in Thread
    BY <1>1, <1>4, <1>5, <1>7, CreateKeeps
  <1>. QED
    BY <1>3, <1>4, <1>6, <1>7, CreateMeets

LEMMA TReconcile == ASSUME JInv, TInv, Reconcile PROVE TInv'
  <1>. DEFINE fp == Current(journal).fingerprint
              M == OwnWithMark(fp)
              j == Reconciled(journal, M)
  <1>1. pc = "reconciling" /\ journal \in JournalShape /\ TypesOK
    BY CurrentAction DEF Reconcile, JInv
  <1>2. /\ UNCHANGED <<notes, base, findings, fixed, todo, touched>>
        /\ \/ pc' = "stopped"
           \/ /\ j.state = "Ready" /\ j.at = journal.at
              /\ journal' = j /\ pc' = "working"
           \/ /\ j.state # "Failed" /\ ~(j.state = "Ready" /\ j.at = journal.at)
              /\ journal' = j /\ pc' = ProgressOf(j)
    BY DEF Reconcile, StopWith, host, plan, settle, past
  <1>3. \/ M = {} /\ j = InState(journal, "Ready")
        \/ \E m \in M : j = CompleteCurrent(journal, "Reconciled", m)
        \/ j = InState(journal, "Failed")
    BY <1>1, ReconciledCases
  <1>. HIDE DEF j
  <1>4. Grows /\ Owned' = Owned
    BY <1>1, <1>2, SameGrows DEF Owned
  <1>5. CASE pc' = "stopped"
    BY <1>4, <1>5, GrowsOnePerLine, ForgetKeeps DEF TInv
  <1>6. CASE pc' # "stopped"
    <2>1. journal.at \in Nat
      BY <1>1 DEF JournalShape
    <2>2. \/ /\ M = {} /\ journal'.at = journal.at /\ pc' = "working"
             /\ journal'.actions = journal.actions
          \/ /\ journal'.at = journal.at + 1 /\ pc' \in {"working", "settling"}
             /\ journal'.actions = journal.actions
      <3>1. CASE M = {} /\ j = InState(journal, "Ready")
        <4>1. j.state = "Ready" /\ j.at = journal.at /\ j.actions = journal.actions
          BY <1>1, <3>1, InStateFields
        <4>. QED
          BY <1>2, <1>6, <3>1, <4>1
      <3>2. CASE \E m \in M : j = CompleteCurrent(journal, "Reconciled", m)
        <4>1. j.at = journal.at + 1 /\ j.actions = journal.actions /\ j.at # journal.at
          BY <1>1, <2>1, <3>2, CompleteFields
        <4>. QED
          BY <1>2, <1>6, <4>1 DEF ProgressOf
      <3>3. CASE j = InState(journal, "Failed")
        <4>1. j.state = "Failed"
          BY <1>1, <3>3, InStateFields
        <4>. QED
          BY <1>2, <1>6, <4>1
      <3>. QED
        BY <1>3, <3>1, <3>2, <3>3
    <2>3. pc \in Acting /\ pc \in Creating /\ pc' # "completed"
      BY <1>1, <2>2 DEF Acting, Creating
    <2>4. journal'.at = journal.at => OwnWithMark(Current(journal).fingerprint) = {}
      BY <2>1, <2>2
    <2>5. journal'.actions = journal.actions /\ (journal'.at = journal.at \/ journal'.at = journal.at + 1)
      BY <2>2
    <2>. QED
      BY <1>2, <2>3, <2>4, <2>5, CalmKeeps
  <1>. QED
    BY <1>5, <1>6

LEMMA TSettles ==
    ASSUME JInv, TInv, SettleAnswered \/ SettleLost \/ SettleFound \/ SettleRetry
    PROVE  TInv'
  <1>. USE DEF host, plan, settle, past
  <1>0. TypesOK /\ todo # <<>>
    BY DEF JInv, PlacesOK, SettleAnswered, SettleLost, SettleFound, SettleRetry
  <1>1. CASE SettleFound
    <2>1. /\ UNCHANGED <<notes, base, findings, fixed, journal, touched>>
          /\ pc = "settleCheck" /\ pc' = "settling" /\ todo' = Tail(todo)
          /\ notes[todo[1].note].state # "open" <=> todo[1].state # "open"
      BY <1>1 DEF SettleFound, NextSettle
    <2>2. notes'[todo[1].note].state # "open" <=> todo[1].state # "open"
      BY <2>1
    <2>. QED
      BY <1>0, <2>1, <2>2, SettleKeeps
  <1>2. CASE SettleRetry
    <2>1. /\ UNCHANGED <<notes, base, findings, fixed, journal, touched, todo>>
          /\ pc = "settleCheck" /\ pc' = "settleSent"
      BY <1>2 DEF SettleRetry
    <2>. QED
      BY <1>0, <2>1, SettleKeeps
  <1>3. CASE SettleAnswered \/ SettleLost
    <2>1. PICK o \in SettleOutcomes :
             /\ SettleEnds(o)
             /\ \/ o.result = "confirmed" /\ pc' = "settling" /\ todo' = Tail(todo)
                \/ pc' = "settleCheck" /\ todo' = todo
      BY <1>3 DEF SettleAnswered, SettleLost, NextSettle
    <2>2. /\ Meets(SettleWrite, o.fate) /\ pc = "settleSent"
          /\ UNCHANGED <<base, findings, fixed, journal, touched>>
      BY <1>3, <2>1 DEF SettleAnswered, SettleLost, SettleEnds
    <2>3. /\ SettleWrite.kind = "settle" /\ Sound(SettleWrite)
          /\ SettleWrite.note = todo[1].note /\ SettleWrite.state = todo[1].state
          /\ todo[1].note \in Owned /\ todo[1].state \in {"open", "bot"}
      BY <1>0, SettleSound
    <2>4. \/ notes' = notes /\ o.fate # "landed"
          \/ notes' = [notes EXCEPT ![todo[1].note].state = SettledState(SettleWrite)]
      BY <1>0, <2>2, <2>3, MeetsKept, Applied
    <2>5. ASSUME todo' # todo
          PROVE  notes'[todo[1].note].state # "open" <=> todo[1].state # "open"
      <3>1. o.fate = "landed"
        BY <2>1, <2>5, ConfirmedLanded
      <3>2. SettledState(SettleWrite) \in {"open", "bot", "human"}
        BY <2>3 DEF SettledState
      <3>3. todo[1].note \in DOMAIN notes
        BY <2>3 DEF Owned
      <3>4. notes'[todo[1].note].state = SettledState(SettleWrite)
        BY <1>0, <2>4, <3>1, <3>2, <3>3, StateSet
      <3>. QED
        BY <2>3, <3>4 DEF SettledState
    <2>. QED
      BY <1>0, <2>1, <2>2, <2>4, <2>5, SettleKeeps
  <1>. QED
    BY <1>1, <1>2, <1>3

LEMMA TOverview == ASSUME JInv, TInv, OverviewAnswered PROVE TInv'
  <1>. DEFINE w == [kind |-> "overview", head |-> base]
  <1>1. PICK o \in OverviewOutcomes :
           /\ Meets(w, o.fate)
           /\ pc' = IF o.result = "confirmed" THEN "completed" ELSE "stopped"
    BY DEF OverviewAnswered
  <1>2. /\ UNCHANGED <<base, findings, fixed, todo, touched, journal>>
        /\ pc = "overviewSent"
    BY DEF OverviewAnswered, plan, settle
  <1>3. TypesOK /\ Sound(w) /\ w.kind = "overview" /\ w.head = base
    BY DEF JInv, Sound
  <1>. HIDE DEF w
  <1>4. notes' = notes /\ (o.fate = "landed" => overview' = base)
    BY <1>1, <1>3, MeetsKept, Applied
  <1>5. pc' = "completed" => overview' = base
    BY <1>1, <1>4, OverviewLanded
  <1>6. pc \in Acting /\ pc' \notin Creating
    BY <1>1, <1>2 DEF Acting, Creating
  <1>. QED
    BY <1>2, <1>4, <1>5, <1>6, CalmKeeps

LEMMA THuman == ASSUME JInv, TInv, HumanAct PROVE TInv'
  <1>1. UNCHANGED <<base, findings, fixed, todo, journal, pc, overview>>
    BY DEF HumanAct, plan, settle
  <1>2. PICK n \in Owned :
          \/ /\ notes' = [notes EXCEPT ![n].state = IF @ = "open" THEN "human" ELSE "open"]
             /\ touched' = touched \cup {n}
          \/ /\ Post([notes[n] EXCEPT !.author = "human", !.state = "open"])
             /\ UNCHANGED touched
    BY DEF HumanAct
  <1>3. n \in DOMAIN notes /\ TypesOK
    BY DEF Owned, JInv
  <1>4. CASE /\ notes' = [notes EXCEPT ![n].state = IF @ = "open" THEN "human" ELSE "open"]
             /\ touched' = touched \cup {n}
    <2>1. PICK s \in {"open", "human"} : notes' = [notes EXCEPT ![n].state = s]
      BY <1>3, <1>4
    <2>. QED
      BY <1>1, <1>4, <2>1, HumanKeeps
  <1>5. CASE /\ Post([notes[n] EXCEPT !.author = "human", !.state = "open"])
             /\ UNCHANGED touched
    <2>1. notes[n] \in Thread
      BY <1>3, NoteType
    <2>2. /\ [notes[n] EXCEPT !.author = "human", !.state = "open"] \in Thread
          /\ [notes[n] EXCEPT !.author = "human", !.state = "open"].author # "bot"
      BY <2>1 DEF Thread
    <2>. QED
      BY <1>1, <1>5, <2>2, QuoteKeeps DEF Post
  <1>. QED
    BY <1>2, <1>4, <1>5

LEMMA TForgets == ASSUME JInv, TInv, EndJob \/ Crash \/ BeginPublish PROVE TInv'
  <1>1. TypesOK /\ pc' \in {"idle", "inventory"}
    BY DEF JInv, EndJob, Crash, BeginPublish
  <1>2. ASSUME notes' = notes PROVE OnePerLine'
    BY <1>1, <1>2, SameGrows, GrowsOnePerLine DEF TInv, Owned
  <1>3. ASSUME NEW w \in Outstanding, Apply(w) PROVE OnePerLine'
    <2>1. Sound(w)
      BY OutstandingSound
    <2>2. Grows
      BY <1>1, <1>3, <2>1, Applied
    <2>3. CASE w.kind = "create"
      <3>1. pc = "sent" /\ w = CreateWrite
        BY <2>3, SettleSound DEF Outstanding, SettleWrite
      <3>2. notes' = Append(notes, ThreadOf(CreateWrite)) /\ ThreadOf(CreateWrite) \in Thread
        BY <1>1, <1>3, <2>1, <2>3, <3>1, Applied
      <3>. QED
        BY <3>1, <3>2, CreateOnePerLine
    <2>4. CASE w.kind # "create"
      <3>1. DOMAIN notes' = DOMAIN notes
        BY <1>3, <2>4 DEF Apply
      <3>2. Owned' = Owned
        BY <2>2, <3>1 DEF Owned, Grows
      <3>. QED
        BY <2>2, <3>2, GrowsOnePerLine DEF TInv
    <2>. QED
      BY <2>3, <2>4
  <1>4. OnePerLine'
    BY <1>2, <1>3 DEF EndJob, Crash, BeginPublish, host
  <1>. QED
    BY <1>1, <1>4, ForgetKeeps

LEMMA TInitially == Init => TInv
BY DEF Init, TInv, OnePerLine, Pending, TodoOK, ThreadsOK, NoOpsOK, PlanCovers, OverviewOK,
       Acting, Creating, Owned

\* No write lands late.
LEMMA TInductive == ASSUME ~LateWrites, JInv, TInv, [Next]_vars PROVE TInv'
  <1>1. CASE UNCHANGED vars
    <2>1. UNCHANGED <<notes, base, findings, fixed, todo, touched, journal, pc, overview>>
      BY <1>1 DEF vars, host, plan, settle, past
    <2>. QED
      BY <2>1, CalmKeeps DEF TInv, OverviewOK
  <1>2. ~LandLate
    BY DEF JInv, TypesOK, LandLate
  <1>. QED
    BY <1>1, <1>2, TStops, TQuiet, TConfirmNoOp, TCreates, TReconcile, TSettles, TOverview,
       THuman, TForgets, PlanKeeps DEF Next, Work, Environment

-----------------------------------------------------------------------------
(* What the invariants say of the properties.                              *)

\* When every action is done, each finding has a thread that stands for it.
LEMMA Stands ==
    ASSUME JInv, TInv, journal.state = "Completed", pc \in Acting, NEW l \in DOMAIN findings
    PROVE  \E m \in Owned : /\ notes[m].lineage = l
                            /\ RightLine(m) \/ (ByPeople(m) /\ ~Due(m, "bot"))
  <1>1. PICK i \in DOMAIN journal.actions : Reports(journal.actions[i].fingerprint, l)
    BY DEF TInv, PlanCovers
  <1>2. TypesOK /\ journal.actions[i].fingerprint = MarkOf(base, l, findings[l])
    BY <1>1 DEF JInv, Reports
  <1>3. i \in DOMAIN journal.entries
    BY DEF JInv, PlanOK, EntriesOK, JournalShape
  <1>4. EntryOK(i)
    BY <1>3 DEF JInv, EntriesOK
  <1>5. CASE NoteMark(journal.entries[i].note) = journal.entries[i].fingerprint
    <2>1. PICK m \in Owned : m = journal.entries[i].note
      BY <1>4 DEF EntryOK
    <2>2. NoteMark(m) = MarkOf(base, l, findings[l])
      BY <1>2, <1>4, <1>5, <2>1 DEF EntryOK
    <2>3. notes[m].lineage = l /\ notes[m].line = findings[l].line
      BY <1>2, <2>2, FindingMark
    <2>. QED
      BY <2>3 DEF RightLine
  <1>6. CASE journal.actions[i].decision = "NoOp"
    <2>1. PICK k \in DOMAIN findings :
             /\ Reports(journal.actions[i].fingerprint, k)
             /\ journal.actions[i].note \in Owned
             /\ notes[journal.actions[i].note].lineage = k
      BY <1>6 DEF JInv, PlanOK
    <2>2. k = l
      BY <1>2, <2>1, FindingMark DEF Reports
    <2>. QED
      BY <1>6, <2>1, <2>2 DEF TInv, NoOpsOK
  <1>. QED
    BY <1>4, <1>5, <1>6 DEF EntryOK

\* Only people and settlements change the state of a thread.
LEMMA Changes ==
    ASSUME ~LateWrites, JInv, [Next]_vars
    PROVE  \/ StatesKept
           \/ /\ human' = human + 1
              /\ \A n \in DOMAIN notes : notes'[n].state \in {notes[n].state, "open", "human"}
           \/ /\ pc = "settleSent" /\ todo # <<>>
              /\ notes' = [notes EXCEPT ![todo[1].note].state = SettledState(SettleWrite)]
  <1>. USE DEF host, plan, settle, past
  <1>0. TypesOK
    BY DEF JInv
  <1>1. ASSUME notes' = notes PROVE StatesKept
    BY <1>1 DEF StatesKept
  <1>2. CASE HumanAct
    <2>1. PICK n \in Owned :
          \/ notes' = [notes EXCEPT ![n].state = IF @ = "open" THEN "human" ELSE "open"]
          \/ Post([notes[n] EXCEPT !.author = "human", !.state = "open"])
      BY <1>2 DEF HumanAct
    <2>2. n \in DOMAIN notes /\ human' = human + 1
      BY <1>2 DEF Owned, HumanAct
    <2>3. CASE notes' = [notes EXCEPT ![n].state = IF @ = "open" THEN "human" ELSE "open"]
      <3>1. PICK s \in {"open", "human"} : notes' = [notes EXCEPT ![n].state = s]
        BY <2>2, <2>3
      <3>2. notes'[n].state = s /\ \A m \in DOMAIN notes \ {n} : notes'[m] = notes[m]
        BY <1>0, <2>2, <3>1, StateSet
      <3>. QED
        BY <2>2, <3>2
    <2>4. CASE Post([notes[n] EXCEPT !.author = "human", !.state = "open"])
      <3>1. [notes[n] EXCEPT !.author = "human", !.state = "open"] \in Thread
        BY <1>0, <2>2, NoteType, ThreadType
      <3>. QED
        BY <1>0, <2>4, <3>1, Appended DEF Post
    <2>. QED
      BY <2>1, <2>3, <2>4
  <1>3. ASSUME NEW w, Sound(w), Apply(w), w.kind = "settle" => w = SettleWrite /\ pc = "settleSent"
        PROVE  \/ StatesKept
               \/ /\ pc = "settleSent" /\ todo # <<>>
                  /\ notes' = [notes EXCEPT ![todo[1].note].state = SettledState(SettleWrite)]
    <2>1. CASE w.kind = "create"
      BY <1>0, <1>3, <2>1, Applied, Appended
    <2>2. CASE w.kind = "settle"
      <3>1. todo # <<>> /\ SettleWrite.note = todo[1].note
        BY <1>3, <2>2 DEF JInv, PlacesOK, SettleWrite
      <3>. QED
        BY <1>0, <1>3, <2>2, <3>1, Applied
    <2>3. CASE w.kind = "overview"
      BY <1>0, <1>1, <1>3, <2>3, Applied
    <2>. QED
      BY <1>3, <2>1, <2>2, <2>3 DEF Sound
  <1>4. CASE CreateAnswered \/ CreateLost \/ CreateUnusable \/ CreateRefused
    <2>1. pc = "sent" /\ \E o : Meets(CreateWrite, o.fate)
      BY <1>4 DEF CreateAnswered, CreateLost, CreateUnusable, CreateRefused, CreateEnds
    <2>2. Sound(CreateWrite) /\ CreateWrite.kind = "create"
      BY <2>1, CurrentAction, CreateSound
    <2>. QED
      BY <1>0, <1>1, <1>3, <2>1, <2>2, MeetsKept
  <1>5. CASE SettleAnswered \/ SettleLost
    <2>1. pc = "settleSent" /\ \E o : Meets(SettleWrite, o.fate)
      BY <1>5 DEF SettleAnswered, SettleLost, SettleEnds
    <2>2. Sound(SettleWrite)
      BY <1>0, <2>1, SettleSound DEF JInv, PlacesOK
    <2>. QED
      BY <1>0, <1>1, <1>3, <2>1, <2>2, MeetsKept
  <1>6. CASE OverviewAnswered
    <2>. DEFINE w == [kind |-> "overview", head |-> base]
    <2>1. \E o : Meets(w, o.fate)
      BY <1>6 DEF OverviewAnswered
    <2>2. Sound(w) /\ w.kind = "overview"
      BY DEF Sound
    <2>. HIDE DEF w
    <2>. QED
      BY <1>0, <1>1, <1>3, <2>1, <2>2, MeetsKept
  <1>7. CASE Crash
    <2>1. notes' = notes \/ \E w \in Outstanding : Apply(w)
      BY <1>7 DEF Crash
    <2>2. ASSUME NEW w \in Outstanding
          PROVE  Sound(w) /\ (w.kind = "settle" => w = SettleWrite /\ pc = "settleSent")
      BY OutstandingSound DEF Outstanding, CreateWrite
    <2>. QED
      BY <1>1, <1>3, <2>1, <2>2
  <1>8. CASE \/ Push \/ BeginPublish \/ EndJob \/ MakePlan \/ ConfirmNoOp \/ SendCreate
             \/ SendSettle \/ SettleFound \/ SettleRetry \/ OverviewKept \/ SendOverview
             \/ UNCHANGED vars
    BY <1>1, <1>8 DEF Push, BeginPublish, EndJob, MakePlan, ConfirmNoOp, SendCreate,
       SendSettle, SettleFound, SettleRetry, OverviewKept, SendOverview, vars
  <1>9. CASE \/ PlanFails \/ ActionStale \/ RefreshFails \/ ReconcileFails
             \/ SettleStale \/ SettleFails \/ Reconcile
    <2>1. notes' = notes
      BY <1>9 DEF PlanFails, ActionStale, RefreshFails, ReconcileFails, SettleStale,
                  SettleFails, Reconcile, StopWith
    <2>. QED
      BY <1>1, <2>1
  <1>10. ~LandLate
    BY <1>0 DEF TypesOK, LandLate
  <1>. QED
    BY <1>2, <1>4, <1>5, <1>6, <1>7, <1>8, <1>9, <1>10 DEF Next, Work, Environment

\* A settlement turns the state of the thread it is for, and of no other.
LEMMA SettledOne ==
    ASSUME JInv, TInv, pc = "settleSent", todo # <<>>,
           notes' = [notes EXCEPT ![todo[1].note].state = SettledState(SettleWrite)],
           NEW n \in DOMAIN notes, notes'[n].state # notes[n].state
    PROVE  /\ n \in Owned /\ n = todo[1].note /\ 1 \in DOMAIN todo
           /\ journal.state = "Completed" /\ pc \in Acting
           /\ \/ /\ notes'[n].state = "open" /\ todo[1].state = "open"
                 /\ notes[n].state = "human" => n \in touched
              \/ /\ notes'[n].state = "bot" /\ todo[1].state = "bot"
                 /\ WrongLine(n) \/ Gone(n)
  <1>1. TypesOK /\ journal.state = "Completed" /\ pc \in Acting
    BY DEF JInv, PlacesOK, Acting
  <1>2. /\ SettleWrite.note = todo[1].note /\ SettleWrite.state = todo[1].state
        /\ todo[1].note \in Owned /\ todo[1].state \in {"open", "bot"} /\ 1 \in DOMAIN todo
    BY <1>1, SettleSound, TodoFirst
  <1>3. SettledState(SettleWrite) \in {"open", "bot", "human"} /\ todo[1].note \in DOMAIN notes
    BY <1>2 DEF SettledState, Owned
  <1>4. n = todo[1].note /\ notes'[n].state = SettledState(SettleWrite)
    BY <1>1, <1>3, StateSet
  <1>5. /\ todo[1].state = "bot" => WrongLine(n) \/ Gone(n)
        /\ todo[1].state = "open" => (notes[n].state = "human" => n \in touched)
    BY <1>1, <1>2, <1>4 DEF TInv, TodoOK
  <1>. QED
    BY <1>1, <1>2, <1>4, <1>5 DEF SettledState

\* The inductive invariant of the threads, for a host that acts on no write
\* after the job has given up on its answer.
THEOREM ThreadInvariance == ASSUME ~LateWrites PROVE Spec => [](JInv /\ TInv)
  <1>1. Init => JInv /\ TInv
    BY JInitially, TInitially
  <1>2. JInv /\ TInv /\ [Next]_vars => (JInv /\ TInv)'
    BY JInductive, TInductive
  <1>. QED
    BY <1>1, <1>2, PTL DEF Spec

\* A finding never gets two comments at one line: a create whose answer was
\* lost is repeated only after reconcile_ambiguous found no note with its mark,
\* and build_publication_plan creates only where the inventory shows none,
\* whichever jobs were killed before.
THEOREM NoDuplicatesHolds == ASSUME ~LateWrites PROVE Spec => []NoDuplicates
  <1>1. TInv => NoDuplicates
    BY DEF TInv, OnePerLine, NoDuplicates
  <1>. QED
    BY <1>1, ThreadInvariance, PTL

\* A publication that reports completion has converged: every finding has its
\* one open thread at the reported line, every thread of a fixed lineage is
\* resolved, and the overview speaks of the snapshot, people excepted.
THEOREM ConvergedHolds == ASSUME ~LateWrites PROVE Spec => []Converged
  <1>1. ASSUME JInv, TInv, pc = "completed" PROVE Converged
    <2>1. /\ TypesOK /\ journal.state = "Completed" /\ pc \in Acting
          /\ \A n, s : ~Due(n, s)
      BY <1>1 DEF JInv, PlacesOK, Acting, Due
    <2>2. ASSUME NEW l \in DOMAIN findings, Untouched(l)
          PROVE  \E n \in Owned : OpenOf(l) = {n} /\ notes[n].line = findings[l].line
      <3>1. PICK m \in Owned : /\ notes[m].lineage = l
                               /\ RightLine(m) \/ (ByPeople(m) /\ ~Due(m, "bot"))
        BY <1>1, <2>1, Stands
      <3>2. m \notin touched /\ ~ByPeople(m) /\ RightLine(m)
        BY <2>2, <3>1 DEF Untouched, ByPeople
      <3>3. notes[m].state = "open"
        BY <1>1, <2>1, <3>2 DEF TInv, ThreadsOK
      <3>4. m \in OpenOf(l) /\ notes[m].line = findings[l].line
        BY <3>1, <3>2, <3>3 DEF OpenOf, RightLine
      <3>5. ASSUME NEW n \in OpenOf(l) PROVE n = m
        <4>1. n \in Owned /\ notes[n].lineage = l /\ notes[n].state = "open" /\ n \notin touched
          BY <2>2, <3>5 DEF OpenOf, Untouched
        <4>2. ~WrongLine(n)
          BY <1>1, <2>1, <4>1 DEF TInv, ThreadsOK
        <4>3. notes[n].line = findings[l].line
          BY <4>1, <4>2 DEF WrongLine
        <4>. QED
          BY <1>1, <3>1, <3>4, <4>1, <4>3 DEF TInv, OnePerLine
      <3>. QED
        BY <3>4, <3>5
    <2>3. ASSUME NEW l \in fixed \ DOMAIN findings PROVE OpenOf(l) \subseteq touched
      <3>1. \A n \in OpenOf(l) : n \in Owned /\ Gone(n) /\ notes[n].state = "open"
        BY DEF OpenOf, Gone
      <3>. QED
        BY <1>1, <2>1, <3>1 DEF TInv, ThreadsOK
    <2>. QED
      BY <1>1, <2>2, <2>3 DEF Converged, TInv, OverviewOK
  <1>2. JInv /\ TInv => Converged
    BY <1>1 DEF Converged
  <1>. QED
    BY <1>2, ThreadInvariance, PTL

\* set_discussion_resolved never reopens what a person resolved, but for the
\* person who acts between the inventory and the reopening it planned.
THEOREM HumanResolutionKeptHolds == ASSUME ~LateWrites PROVE Spec => HumanResolutionKept
  <1>1. ASSUME JInv, TInv, [Next]_vars, NEW n \in DOMAIN notes,
               notes[n].state = "human", notes'[n].state = "open"
        PROVE  human' # human \/ n \in touched
    <2>1. CASE StatesKept
      BY <1>1, <2>1 DEF StatesKept
    <2>2. CASE human' = human + 1
      BY <1>1, <2>2 DEF JInv, TypesOK
    <2>3. CASE /\ pc = "settleSent" /\ todo # <<>>
               /\ notes' = [notes EXCEPT ![todo[1].note].state = SettledState(SettleWrite)]
      BY <1>1, <2>3, SettledOne
    <2>. QED
      BY <1>1, <2>1, <2>2, <2>3, Changes
  <1>2. JInv /\ TInv /\ [Next]_vars =>
          [\A n \in DOMAIN notes :
              notes[n].state = "human" /\ notes'[n].state = "open"
                => human' # human \/ n \in touched]_vars
    BY <1>1
  <1>. QED
    BY <1>2, ThreadInvariance, PTL DEF Spec, HumanResolutionKept

\* Resolutions never precede their replacements: a thread is resolved by the
\* bot only once every action of the plan is confirmed, and then for a lineage
\* declared fixed, or beside another thread that stands for its finding.
THEOREM ResolvedForReasonHolds == ASSUME ~LateWrites PROVE Spec => ResolvedForReason
  <1>1. ASSUME JInv, TInv, [Next]_vars, NEW n \in DOMAIN notes,
               notes[n].state = "open", notes'[n].state = "bot", NEW l, l = notes[n].lineage
        PROVE  \/ l \in fixed \ DOMAIN findings
               \/ l \in DOMAIN findings /\ \E m \in Owned \ {n} : StandsFor(m, l)
    <2>1. /\ pc = "settleSent" /\ todo # <<>>
          /\ notes' = [notes EXCEPT ![todo[1].note].state = SettledState(SettleWrite)]
      BY <1>1, Changes DEF StatesKept
    <2>2. /\ n \in Owned /\ n = todo[1].note /\ 1 \in DOMAIN todo
          /\ journal.state = "Completed" /\ pc \in Acting
          /\ todo[1].state = "bot" /\ (WrongLine(n) \/ Gone(n))
      BY <1>1, <2>1, SettledOne
    <2>3. CASE Gone(n)
      BY <1>1, <2>3 DEF Gone
    <2>4. CASE WrongLine(n)
      <3>1. l \in DOMAIN findings /\ Due(n, "bot") /\ ~RightLine(n)
        BY <1>1, <2>2, <2>4, Apart DEF WrongLine, Due
      <3>2. PICK m \in Owned : /\ notes[m].lineage = l
                               /\ RightLine(m) \/ (ByPeople(m) /\ ~Due(m, "bot"))
        BY <1>1, <2>2, <3>1, Stands
      <3>3. m # n
        BY <3>1, <3>2
      <3>4. StandsFor(m, l)
        BY <3>2 DEF StandsFor, RightLine, ByPeople
      <3>. QED
        BY <3>1, <3>3, <3>4
    <2>. QED
      BY <2>2, <2>3, <2>4
  <1>2. JInv /\ TInv /\ [Next]_vars =>
          [\A n \in DOMAIN notes :
              notes[n].state = "open" /\ notes'[n].state = "bot"
                => LET l == notes[n].lineage
                   IN  \/ l \in fixed \ DOMAIN findings
                       \/ l \in DOMAIN findings /\ \E m \in Owned \ {n} : StandsFor(m, l)]_vars
    BY <1>1
  <1>. QED
    BY <1>2, ThreadInvariance, PTL DEF Spec, ResolvedForReason

=============================================================================
