-------------------------- MODULE GitLabPublication --------------------------
(***************************************************************************)
(* Publication of a review to one GitLab merge request: the controller of  *)
(* crates/revoot/src/gitlab_publication.rs with the incremental plan of    *)
(* gitlab_incremental.rs and the journal of publication.rs, against a host *)
(* that is pushed to, whose threads people resolve and reopen, and whose   *)
(* answers get lost.                                                       *)
(*                                                                         *)
(* Jobs of one merge request run one at a time (the component's            *)
(* resource_group) but may be killed at any step (interruptible: true).    *)
(* One read of the host is one step, and so is one write together with its *)
(* answer; everything between two awaits belongs to the same step.         *)
(*                                                                         *)
(* A snapshot is the number of the head it was taken at: versions only     *)
(* grow, so binding the latest version and comparing refs is comparing     *)
(* heads; a closed merge request fails the same test as a new head.  A     *)
(* finding is its lineage, the line of its anchor and its wording, which   *)
(* a model chooses anew in every review.                                   *)
(***************************************************************************)
EXTENDS JournalOps, FiniteSets, SequencesExt, Optional

CONSTANTS
    Lineage,           \* lineages a review may report
    Line,              \* lines a finding may be anchored at
    Body,              \* wordings a review may choose for a finding
    MaxHead,           \* bound: pushes
    MaxJobs,           \* bound: publications started
    MaxHuman,          \* bound: steps people take on threads
    MaxWriteAttempts,  \* max_write_attempts
    LateWrites,        \* may the host act on a write after answering nothing
    Absent, Malformed  \* a header that is not sent, or makes no sense

ASSUME PublicationAssumption ==
    /\ Lineage \subseteq 0..9
    /\ Line \subseteq 0..9
    /\ Body \subseteq 0..9
    /\ MaxHead \in Nat \ {0}
    /\ MaxWriteAttempts \in Nat \ {0}
    /\ LateWrites \in BOOLEAN

Answers == INSTANCE GitLabAnswers WITH MaxBody <- 1, MaxRetryAfter <- 600, MaxNotes <- 1

\* What the exchange of a write may end in.
CreateOutcomes == Answers!CreateOutcomes
SettleOutcomes == Answers!SettleOutcomes
OverviewOutcomes == Answers!OverviewOutcomes

VARIABLES
    head,      \* the head the host serves
    notes,     \* discussions on the host; a note's identity is its index
    overview,  \* the head the overview block on the host speaks of, or 0
    late,      \* writes the host has neither applied nor refused
    human,     \* steps people took
    jobs,      \* publications started
    pc,        \* where the current publication is
    base,      \* the snapshot it publishes for
    findings,  \* its candidates: the comment for some lineages
    fixed,     \* the lineages its review declared fixed
    journal,   \* its journal
    tried,     \* action_fingerprint: the publication last sent, or 0
    attempts,  \* action_attempts: how often it was sent
    again,     \* whether the last failed write may be repeated
    tries,     \* how often the current resolution was sent
    todo,      \* threads still to resolve or reopen
    born,      \* history: notes its writes created while it waited
    belated,   \* history: notes its writes created after it gave up on them
    given,     \* history: the head when it gave up on the write in late, or 0
    touched,   \* history: notes people acted on since its inventory
    astray     \* history: writes of it that landed under a newer head, each
               \* with the head when it had its answer or gave up on it

host == <<head, notes, overview, late, human>>
plan == <<base, findings, fixed>>
past == <<born, belated, given, touched, astray>>
create == <<tried, attempts>>
settle == <<todo, tries>>
vars == <<host, jobs, pc, plan, journal, create, again, settle, past>>

Place == {"idle", "inventory", "working", "sent", "reconciling", "settling",
          "settleSent", "settleCheck", "overviewSent", "stopped", "completed"}

Heads == 1..MaxHead

\* The state of a thread names who resolved it.
Thread == [author : {"bot", "human"}, lineage : Lineage, line : Line,
           body : Body, head : Heads, state : {"open", "bot", "human"}]

Comment == [line : Line, body : Body]

Write == [kind : {"create"}, lineage : Lineage, line : Line, body : Body,
          head : Heads]
           \cup [kind : {"settle"}, note : NoteId, state : {"open", "bot"}]
           \cup [kind : {"overview"}, head : Heads]

\* Fingerprints digest the scope, the target and the body, lineage marker
\* included; any injection will do.
MarkOf(h, lineage, comment) ==
    1000 * h + 100 * lineage + 10 * comment.line + comment.body

NoteMark(n) == MarkOf(notes[n].head, notes[n].lineage, notes[n])

NoFindings == [l \in {} |-> 0]

TypeOK ==
    /\ head \in Heads
    /\ notes \in Seq(Thread)
    /\ overview \in 0..MaxHead
    /\ \A w \in ToSet(late) : w \in Write
    /\ pc \in Place
    /\ base \in Heads
    /\ DOMAIN findings \subseteq Lineage /\ Range(findings) \subseteq Comment
    /\ fixed \subseteq Lineage
    /\ journal \in Journal
    /\ tried \in Nat
    /\ attempts \in 0..MaxWriteAttempts
    /\ tries \in 0..MaxWriteAttempts
    /\ again \in BOOLEAN
    /\ \A i \in DOMAIN todo : todo[i] \in [note : NoteId, state : {"open", "bot"}]
    /\ given \in 0..head /\ (given # 0 => late # <<>>)

Init ==
    /\ head = 1 /\ notes = <<>> /\ overview = 0 /\ late = <<>> /\ human = 0
    /\ jobs = 0 /\ pc = "idle"
    /\ base = 1 /\ findings = NoFindings /\ fixed = {}
    /\ journal = TryNew(1, <<>>)
    /\ tried = 0 /\ attempts = 0 /\ again = FALSE /\ todo = <<>> /\ tries = 0
    /\ born = {} /\ belated = {} /\ given = 0 /\ touched = {} /\ astray = {}

-----------------------------------------------------------------------------
(* Planning.                                                               *)

\* Notes the bot wrote; every one carries a terminal marker.
Owned == {n \in DOMAIN notes : notes[n].author = "bot"}

\* inventory_for_current_anchors: threads of a reported lineage at another
\* line are not planned against, unless a person resolved them.
Dropped ==
    {n \in Owned : /\ notes[n].lineage \in DOMAIN findings
                   /\ notes[n].line # findings[notes[n].lineage].line
                   /\ notes[n].state # "human"}

Reanchored == {n \in Dropped : notes[n].state = "open"}

Planned == Owned \ Dropped

Exact(h, l) == {n \in Planned : NoteMark(n) = MarkOf(h, l, findings[l])}

\* build_publication_plan: exact markers first, then the lineage.
Matches(h, l) ==
    IF Exact(h, l) # {} THEN Exact(h, l)
    ELSE {n \in Planned : notes[n].lineage = l}

PlanIsAmbiguous == \E l \in DOMAIN findings : Cardinality(Matches(base, l)) > 1

ActionFor(l) ==
    [fingerprint |-> MarkOf(base, l, findings[l]),
     decision    |-> IF Matches(base, l) = {} THEN "Create" ELSE "NoOp",
     note        |-> IF Matches(base, l) = {} THEN 0
                     ELSE CHOOSE n \in Matches(base, l) : TRUE]

\* publication_order: the elements of a finite set of numbers in order.
Ascending(S) ==
    CHOOSE s \in [1..Cardinality(S) -> S] :
        \A i, k \in DOMAIN s : i < k => s[i] < s[k]

LineageOf(mark) == CHOOSE l \in DOMAIN findings : MarkOf(base, l, findings[l]) = mark

PlanActions ==
    LET marks == Ascending({MarkOf(base, l, findings[l]) : l \in DOMAIN findings})
    IN  [i \in DOMAIN marks |-> ActionFor(LineageOf(marks[i]))]

\* A mutant of Retired: a thread is stale when its lineage is not reported.
RetiredUndeclared ==
    {n \in Planned : /\ notes[n].lineage \notin DOMAIN findings
                     /\ notes[n].state = "open"}

\* build_incremental_publication_plan: stale and superseded threads are the
\* open ones of a lineage declared fixed and not reported again.
Retired ==
    {n \in Planned : /\ notes[n].lineage \in fixed \ DOMAIN findings
                     /\ notes[n].state = "open"}

\* A mutant of Reopened: who resolved the thread is not asked.
ReopenedFromAnyone ==
    {n \in Planned : /\ notes[n].lineage \in DOMAIN findings
                     /\ notes[n].state # "open"}

\* Reported lineages whose thread the bot had resolved.
Reopened ==
    {n \in Planned : /\ notes[n].lineage \in DOMAIN findings
                     /\ notes[n].state = "bot"}

InOrder(S, state) ==
    LET ids == Ascending(S)
    IN  [i \in DOMAIN ids |-> [note |-> ids[i], state |-> state]]

Settlements ==
    InOrder(Retired \cup Reanchored, "bot") \o InOrder(Reopened, "open")

-----------------------------------------------------------------------------
(* The host.                                                               *)

Post(thread) == notes' = Append(notes, thread)

\* What a write does when the host acts on it.
Apply(w) ==
    \/ /\ w.kind = "create"
       /\ Post([author |-> "bot", lineage |-> w.lineage, line |-> w.line,
                body |-> w.body, head |-> w.head, state |-> "open"])
       /\ UNCHANGED overview
    \/ /\ w.kind = "settle"
       /\ notes' = [notes EXCEPT ![w.note].state =
                       IF w.state = "bot" /\ @ = "human" THEN @ ELSE w.state]
       /\ UNCHANGED overview
    \/ /\ w.kind = "overview"
       /\ overview' = w.head
       /\ UNCHANGED notes

Created == DOMAIN notes' \ DOMAIN notes

Strayed(w, ended) ==
    astray' = IF head = base THEN astray
              ELSE astray \cup {[write |-> w, ended |-> ended]}

\* A write whose answer the client has (or has given up on) was applied, was
\* refused, or is still somewhere on its way.
Landed(w) ==
    /\ Apply(w)
    /\ born' = born \cup Created
    /\ Strayed(w, head)
    /\ UNCHANGED <<late, belated, given>>

Refused == UNCHANGED <<notes, overview, late, born, belated, given, astray>>

Delayed(w) ==
    /\ LateWrites /\ late = <<>>
    /\ late' = <<w>>
    /\ given' = head
    /\ UNCHANGED <<notes, overview, born, belated, astray>>

\* What became of the write by the time its exchange ended.
Meets(w, fate) ==
    \/ fate = "landed" /\ Landed(w)
    \/ fate = "refused" /\ Refused
    \/ fate = "delayed" /\ Delayed(w)

\* The host acts on a write of this publication or of one that is over.
LandLate ==
    /\ late # <<>>
    /\ Apply(late[1])
    /\ late' = <<>>
    /\ given' = 0
    /\ \/ /\ given # 0
          /\ belated' = belated \cup Created
          /\ Strayed(late[1], given)
       \/ given = 0 /\ UNCHANGED <<belated, astray>>
    /\ UNCHANGED <<head, human, jobs, pc, plan, journal, create, again,
                   settle, born, touched>>

Push ==
    /\ head < MaxHead
    /\ head' = head + 1
    /\ UNCHANGED <<notes, overview, late, human, jobs, pc, plan, journal,
                   create, again, settle, past>>

\* People resolve and reopen threads, and may quote a comment of the bot with
\* its markers in a thread of their own.
HumanAct ==
    /\ human < MaxHuman
    /\ human' = human + 1
    /\ \E n \in Owned :
          \/ /\ notes' = [notes EXCEPT ![n].state =
                              IF @ = "open" THEN "human" ELSE "open"]
             /\ touched' = touched \cup {n}
          \/ /\ Post([notes[n] EXCEPT !.author = "human", !.state = "open"])
             /\ UNCHANGED touched
    /\ UNCHANGED <<head, overview, late, jobs, pc, plan, journal, create,
                   again, settle, born, belated, given, astray>>

-----------------------------------------------------------------------------
(* The controller.                                                         *)

\* Every request may fail for good: transport, wire contract, the request
\* limit or the deadline of the operation.
StopWith(j) ==
    /\ pc' = "stopped"
    /\ journal' = j
    /\ UNCHANGED <<host, jobs, plan, create, again, settle, past>>

OpenLineages == {notes[n].lineage : n \in {m \in Owned : notes[m].state = "open"}}

OpenOf(l) == {n \in Owned : notes[n].lineage = l /\ notes[n].state = "open"}

\* PriorReviewContext::try_new refuses two open threads of one lineage.
HistoryAcquired == \A l \in Lineage : Cardinality(OpenOf(l)) <= 1

\* A review of some head is done and its job starts to publish.  The history
\* was acquired before the review and found unchanged after it, or the job
\* ended without publishing.  A complete review may declare open lineages
\* fixed; those it is uncertain about are neither fixed nor reported.
BeginPublish ==
    /\ pc = "idle" /\ jobs < MaxJobs
    /\ HistoryAcquired
    /\ jobs' = jobs + 1
    /\ base' \in 1..head
    /\ \E D \in SUBSET Lineage : findings' \in [D -> Comment]
    /\ fixed' \in SUBSET OpenLineages
    /\ pc' = "inventory"
    /\ journal' = TryNew(base', <<>>)
    /\ tried' = 0 /\ attempts' = 0 /\ again' = FALSE
    /\ todo' = <<>> /\ tries' = 0
    /\ born' = {} /\ belated' = {} /\ given' = 0
    /\ touched' = {} /\ astray' = {}
    /\ UNCHANGED host

ProgressOf(j) == IF j.state = "Completed" THEN "settling" ELSE "working"

\* publish: the inventory is read and the plan is made from it.
MakePlan ==
    /\ pc = "inventory"
    /\ ~PlanIsAmbiguous
    /\ journal' = TryNew(base, PlanActions)
    /\ todo' = Settlements
    /\ touched' = {}
    /\ pc' = ProgressOf(journal')
    /\ UNCHANGED <<host, jobs, plan, create, again, tries, born, belated, given,
                   astray>>

PlanFails == pc = "inventory" /\ StopWith(journal)

\* refresh_before_action found another snapshot, or could not tell.
ActionStale ==
    /\ pc = "working" /\ head # base
    /\ StopWith(InState(journal, "StoppedStale"))

RefreshFails == pc = "working" /\ StopWith(InState(journal, "Failed"))

\* A no-op is begun and confirmed without a request.
ConfirmNoOp ==
    /\ pc = "working" /\ head = base
    /\ Current(journal).decision = "NoOp"
    /\ journal' = Confirmed(InState(journal, "AwaitingOutcome"),
                            Current(journal).note)
    /\ pc' = ProgressOf(journal')
    /\ UNCHANGED <<host, jobs, plan, create, again, settle, past>>

\* A mutant of NextAttempt: every create counts as the first.
NextAttemptAlwaysFirst == 1

\* create: a new fingerprint starts a new count.
NextAttempt == IF tried = Current(journal).fingerprint THEN attempts + 1 ELSE 1

\* A mutant of SendCreate: the snapshot is not checked again.
SendCreateUnchecked ==
    /\ pc = "working"
    /\ Current(journal).decision = "Create"
    /\ journal' = InState(journal, "AwaitingOutcome")
    /\ attempts' = NextAttempt
    /\ tried' = Current(journal).fingerprint
    /\ pc' = "sent"
    /\ UNCHANGED <<host, jobs, plan, again, settle, past>>

SendCreate ==
    /\ pc = "working" /\ head = base
    /\ Current(journal).decision = "Create"
    /\ journal' = InState(journal, "AwaitingOutcome")
    /\ attempts' = NextAttempt
    /\ tried' = Current(journal).fingerprint
    /\ pc' = "sent"
    /\ UNCHANGED <<host, jobs, plan, again, settle, past>>

CreateWrite ==
    LET l == LineageOf(Current(journal).fingerprint)
    IN  [kind |-> "create", lineage |-> l, line |-> findings[l].line,
         body |-> findings[l].body, head |-> base]

\* One of the outcomes the exchange of a create may have.
CreateEnds(o) ==
    /\ Meets(CreateWrite, o.fate)
    /\ again' = o.again
    /\ UNCHANGED <<head, human, jobs, plan, create, settle, touched>>

Reported(result, retry) ==
    {o \in CreateOutcomes : o.result = result /\ o.again = retry}

\* The host answers with the created note.
CreateAnswered ==
    /\ pc = "sent"
    /\ \E o \in Reported("created", FALSE) :
        /\ CreateEnds(o)
        /\ journal' = Confirmed(journal, Len(notes'))
        /\ pc' = ProgressOf(journal')

\* A mutant of CreateLost: a lost answer is taken for a write not sent.
CreateLostForgotten ==
    /\ pc = "sent"
    /\ \E o \in Reported("ambiguous", TRUE) :
        /\ CreateEnds(o)
        /\ journal' = InState(journal, "Ready")
        /\ pc' = IF attempts < MaxWriteAttempts THEN "working" ELSE "stopped"

\* A time-out, a lost connection, 429 or a server error: the outcome is
\* unknown and the write may be repeated after reconciliation.
CreateLost ==
    /\ pc = "sent"
    /\ \E o \in Reported("ambiguous", TRUE) :
        /\ CreateEnds(o)
        /\ journal' = InState(journal, "AmbiguousOutcome")
        /\ pc' = "reconciling"

\* An answer that proves nothing (body lost, unusable or redirected): the
\* outcome is unknown and the write is not repeated.
CreateUnusable ==
    /\ pc = "sent"
    /\ \E o \in Reported("ambiguous", FALSE) :
        /\ CreateEnds(o)
        /\ journal' = InState(journal, "AmbiguousOutcome")
        /\ pc' = "reconciling"

\* The request was not sent, or refused with a status that proves no effect.
CreateRefused ==
    /\ pc = "sent"
    /\ \E o \in Reported("failed", FALSE) :
        /\ CreateEnds(o)
        /\ journal' = InState(journal, "Failed")
        /\ pc' = "stopped"

\* A mutant of OwnWithMark: resolved threads are not looked at.
OwnWithMarkOpen(p) == {n \in Owned : NoteMark(n) = p /\ notes[n].state = "open"}

OwnWithMark(p) == {n \in Owned : NoteMark(n) = p}

MayRetry == again /\ attempts < MaxWriteAttempts

\* reconcile_ambiguous after a complete inventory was read.
Reconcile ==
    /\ pc = "reconciling"
    /\ LET j == Reconciled(journal, OwnWithMark(Current(journal).fingerprint))
       IN  IF j.state = "Failed" THEN StopWith(j)
           ELSE IF j.state = "Ready" /\ j.at = journal.at
           THEN IF MayRetry
                THEN /\ journal' = j
                     /\ pc' = "working"
                     /\ UNCHANGED <<host, jobs, plan, create, again, settle, past>>
                ELSE StopWith(InState(j, "Failed"))
           ELSE /\ journal' = j
                /\ again' = FALSE
                /\ pc' = ProgressOf(j)
                /\ UNCHANGED <<host, jobs, plan, create, settle, past>>

\* The inventory cannot be read: the journal stays ambiguous; or the deadline
\* ends the wait before the retry.
ReconcileFails ==
    /\ pc = "reconciling"
    /\ \/ StopWith(journal)
       \/ /\ OwnWithMark(Current(journal).fingerprint) = {} /\ MayRetry
          /\ StopWith(InState(journal, "Failed"))

-----------------------------------------------------------------------------
(* Resolutions and reopenings, after every action of the plan.             *)

SettleWrite == [kind |-> "settle", note |-> todo[1].note, state |-> todo[1].state]

SettleStale == pc = "settling" /\ head # base /\ StopWith(journal)

SettleFails == pc \in {"settling", "settleCheck"} /\ StopWith(journal)

\* set_discussion_resolved checks the snapshot once, before the first try.
SendSettle ==
    /\ pc = "settling" /\ todo # <<>> /\ head = base
    /\ tries' = 1
    /\ pc' = "settleSent"
    /\ UNCHANGED <<host, jobs, plan, journal, create, again, todo, past>>

NextSettle ==
    /\ todo' = Tail(todo)
    /\ tries' = 0
    /\ pc' = "settling"

SettleEnds(o) ==
    /\ Meets(SettleWrite, o.fate)
    /\ UNCHANGED <<head, human, jobs, plan, journal, create, touched>>

SettleAnswered ==
    /\ pc = "settleSent"
    /\ \E o \in SettleOutcomes :
        /\ o.result = "confirmed"
        /\ SettleEnds(o)
        /\ NextSettle
        /\ UNCHANGED again

\* The answer is lost or unusable; a status or a body that forbids a retry
\* still leads to one inventory.
SettleLost ==
    /\ pc = "settleSent"
    /\ \E o \in SettleOutcomes :
        /\ o.result = "unconfirmed"
        /\ SettleEnds(o)
        /\ again' = o.again
        /\ pc' = "settleCheck"
        /\ UNCHANGED settle

\* The inventory shows the thread in the wanted state, whoever put it there.
SettleFound ==
    /\ pc = "settleCheck"
    /\ notes[todo[1].note].state # "open" <=> todo[1].state # "open"
    /\ NextSettle
    /\ UNCHANGED <<host, jobs, plan, journal, create, again, past>>

SettleRetry ==
    /\ pc = "settleCheck"
    /\ ~(notes[todo[1].note].state # "open" <=> todo[1].state # "open")
    /\ again /\ tries < MaxWriteAttempts
    /\ tries' = tries + 1
    /\ pc' = "settleSent"
    /\ UNCHANGED <<host, jobs, plan, journal, create, again, todo, past>>

-----------------------------------------------------------------------------
(* The overview, and the end of the job.                                   *)

\* A mutant of Settled: the overview does not wait for the resolutions.
SettledEarly == pc = "settling"

Settled == pc = "settling" /\ todo = <<>>

\* update_overview reads the merge request; an equal block is left alone.
OverviewKept ==
    /\ Settled /\ head = base /\ overview = base
    /\ pc' = "completed"
    /\ UNCHANGED <<host, jobs, plan, journal, create, again, settle, past>>

SendOverview ==
    /\ Settled /\ head = base /\ overview # base
    /\ pc' = "overviewSent"
    /\ UNCHANGED <<host, jobs, plan, journal, create, again, settle, past>>

\* The write is not repeated: any doubt about it stops the publication.
OverviewAnswered ==
    /\ pc = "overviewSent"
    /\ \E o \in OverviewOutcomes :
        /\ Meets([kind |-> "overview", head |-> base], o.fate)
        /\ pc' = IF o.result = "confirmed" THEN "completed" ELSE "stopped"
        /\ UNCHANGED <<head, human, jobs, plan, journal, create, again, settle,
                       touched>>

Forget ==
    /\ base' = 1 /\ findings' = NoFindings /\ fixed' = {}
    /\ journal' = TryNew(1, <<>>)
    /\ tried' = 0 /\ attempts' = 0 /\ again' = FALSE
    /\ todo' = <<>> /\ tries' = 0
    /\ born' = {} /\ belated' = {} /\ given' = 0
    /\ touched' = {} /\ astray' = {}

EndJob ==
    /\ pc \in {"stopped", "completed"}
    /\ pc' = "idle"
    /\ Forget
    /\ UNCHANGED <<host, jobs>>

\* The runner kills the job; a write it had sent may still be on its way.
Outstanding == CASE pc = "sent" -> {CreateWrite}
                 [] pc = "settleSent" -> {SettleWrite}
                 [] pc = "overviewSent" -> {[kind |-> "overview", head |-> base]}
                 [] OTHER -> {}

Crash ==
    /\ pc \notin {"idle", "stopped", "completed"}
    /\ pc' = "idle"
    /\ Forget
    /\ \/ UNCHANGED <<notes, overview, late>>
       \/ \E w \in Outstanding : Apply(w) /\ UNCHANGED late
       \/ \E w \in Outstanding : LateWrites /\ late = <<>> /\ late' = <<w>>
                                /\ UNCHANGED <<notes, overview>>
    /\ UNCHANGED <<head, human, jobs>>

-----------------------------------------------------------------------------

Work ==
    \/ MakePlan \/ PlanFails
    \/ ActionStale \/ RefreshFails \/ ConfirmNoOp \/ SendCreate
    \/ CreateAnswered \/ CreateLost \/ CreateUnusable \/ CreateRefused
    \/ Reconcile \/ ReconcileFails
    \/ SettleStale \/ SettleFails \/ SendSettle \/ SettleAnswered
    \/ SettleLost \/ SettleFound \/ SettleRetry
    \/ OverviewKept \/ SendOverview \/ OverviewAnswered
    \/ EndJob

Environment == LandLate \/ Push \/ HumanAct \/ Crash

Next == BeginPublish \/ Work \/ Environment

Spec == Init /\ [][Next]_vars

\* The runtime polls the job's task, and every request is answered or times out.
FairSpec == Spec /\ WF_vars(Work)

-----------------------------------------------------------------------------
(* Properties.                                                             *)

(***************************************************************************)
(* No two comments of the bot report one lineage for one snapshot at one   *)
(* position, in whatever words: a lost answer, a retry, a killed job or a  *)
(* repeated pipeline never post a finding twice.                           *)
(***************************************************************************)
NoDuplicates ==
    \A m, n \in Owned :
       (/\ notes[m].lineage = notes[n].lineage
        /\ notes[m].line = notes[n].line
        /\ notes[m].head = notes[n].head) => m = n

(***************************************************************************)
(* The journal tells what happened on the host: every recorded note exists *)
(* and is the bot's, and every note this publication created while it      *)
(* waited is recorded or belongs to the one action whose outcome is still  *)
(* open.  A note created after the publication gave up on the request      *)
(* (and perhaps sent it again) may be a second one, but not an unknown     *)
(* one: the note of its action is on record, or the action is still open.  *)
(***************************************************************************)
StillOpen(mark) ==
    /\ journal.state # "Completed"
    /\ mark = Current(journal).fingerprint

OnRecord(mark) ==
    \E i \in DOMAIN journal.entries :
        /\ journal.entries[i].outcome # "NoOp"
        /\ journal.entries[i].fingerprint = mark

JournalTruthful ==
    /\ \A i \in DOMAIN journal.entries :
          /\ journal.entries[i].note \in Owned
          /\ journal.entries[i].outcome # "NoOp" =>
                NoteMark(journal.entries[i].note) = journal.entries[i].fingerprint
    /\ \A n \in born :
          \/ \E i \in DOMAIN journal.entries : journal.entries[i].note = n
          \/ StillOpen(NoteMark(n))
    /\ \A n \in belated : n \in Owned /\ (OnRecord(NoteMark(n)) \/ StillOpen(NoteMark(n)))

(***************************************************************************)
(* A publication that reports completion has converged: each reported      *)
(* finding has exactly one thread that is open, at the reported line,      *)
(* unless people acted on the lineage or had resolved it; no lineage       *)
(* declared fixed and not reported again is open unless people reopened    *)
(* it; and the overview, with its checkpoint, speaks of this snapshot.     *)
(***************************************************************************)
Untouched(l) == \A n \in Owned : notes[n].lineage = l =>
                    n \notin touched /\ notes[n].state # "human"

Converged ==
    pc = "completed" =>
        /\ \A l \in DOMAIN findings : Untouched(l) =>
              \E n \in Owned : OpenOf(l) = {n} /\ notes[n].line = findings[l].line
        /\ \A l \in fixed \ DOMAIN findings : OpenOf(l) \subseteq touched
        /\ late = <<>> => overview = base

(***************************************************************************)
(* Of the writes of a publication that land under a newer head, all but    *)
(* one are requests it had given up on before the head moved, which the    *)
(* host acts on late; the one that was under way when the head moved may   *)
(* land, at once, late or by its repetition, and no other is begun.        *)
(***************************************************************************)
UnderWay == {a.write : a \in {s \in astray : s.ended # base}}

OneWriteAstray == Cardinality(UnderWay) <= 1

(***************************************************************************)
(* A thread that a person resolved is never reopened by the bot, unless    *)
(* somebody acted on it after the inventory that planned the reopening.    *)
(***************************************************************************)
HumanResolutionKept ==
    [][\A n \in DOMAIN notes :
          notes[n].state = "human" /\ notes'[n].state = "open"
            => human' # human \/ n \in touched]_vars

(***************************************************************************)
(* A thread is resolved only for a reason the review gave: its lineage was *)
(* declared fixed, or the finding is reported at another line and another  *)
(* thread stands for it there, or one that people resolved keeps it        *)
(* suppressed.  Resolution never precedes its replacement.                 *)
(***************************************************************************)
StandsFor(m, l) ==
    /\ notes[m].lineage = l
    /\ notes[m].line = findings[l].line \/ notes[m].state = "human" \/ m \in touched

ResolvedForReason ==
    [][\A n \in DOMAIN notes :
          notes[n].state = "open" /\ notes'[n].state = "bot"
            => LET l == notes[n].lineage
               IN  \/ l \in fixed \ DOMAIN findings
                   \/ l \in DOMAIN findings /\ \E m \in Owned \ {n} : StandsFor(m, l)]_vars

(***************************************************************************)
(* Every publication ends, whatever the host answers.                      *)
(***************************************************************************)
JobsEnd == pc # "idle" ~> pc = "idle"

(***************************************************************************)
(* Between publications the history can be acquired: no publication, not   *)
(* even one that stopped or was killed, leaves two open threads of one     *)
(* lineage, with which every later review of the merge request fails.      *)
(***************************************************************************)
ReviewCanStart == pc = "idle" => HistoryAcquired

=============================================================================
