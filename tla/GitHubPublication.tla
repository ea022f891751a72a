-------------------------- MODULE GitHubPublication --------------------------
(***************************************************************************)
(* Publication of a review to one GitHub pull request                      *)
(* (publish_github_findings and update_github_overview of                  *)
(* crates/revoot/src/github_review.rs, called by publish_github_review),   *)
(* against a host that is pushed to, whose threads people resolve and      *)
(* reopen, that may forbid a token to resolve threads, and whose answers   *)
(* get lost.                                                               *)
(*                                                                         *)
(* The workflow's concurrency group runs one job per pull request and      *)
(* cancels it for the next, at any step.  No write is ever repeated: any   *)
(* doubt about one ends the publication.  A request is a step, its answer  *)
(* another, and the check of the head before a request belongs to it.      *)
(*                                                                         *)
(* A comment of the bot is the root of one thread.  Its identity is the    *)
(* order of its creation; rank is the order of thread identities, which    *)
(* need not agree with it.                                                 *)
(***************************************************************************)
EXTENDS Integers, FiniteSets, Sequences, Functions

CONSTANTS
    Lineage,     \* lineages a review may report
    Line,        \* lines a finding may be anchored at
    Body,        \* wordings a review may choose for a finding
    MaxHead,     \* bound: pushes
    MaxJobs,     \* bound: publications started
    MaxHuman,    \* bound: steps people take on threads
    None

ASSUME PublicationAssumption ==
    /\ MaxHead \in Nat \ {0}
    /\ MaxJobs \in Nat /\ MaxHuman \in Nat

VARIABLES
    head,      \* the head the host serves
    threads,   \* threads of the bot, in the order of creation
    overview,  \* the head the overview block on the host speaks of, or 0
    late,      \* writes the host has neither applied nor refused
    human,     \* steps people took
    granted,   \* may the token resolve and reopen threads
    lingers,   \* may the host act on a write after its client is gone
    jobs,      \* publications started
    pc,        \* where the current publication is
    base,      \* the snapshot it publishes for
    findings,  \* its candidates: the comment for some lineages
    fixed,     \* the lineages its review declared fixed
    history,   \* prior_review: per thread, what it looked like
    comments,  \* the listed comments that end in their marker
    available, \* thread_resolution_available
    left,      \* what the current loop has not come to
    current,   \* the lineage whose old thread is being resolved
    request,   \* the write that was sent
    after,     \* where a success leads
    touched,   \* history: threads people acted on since they were acquired
    astray     \* history: writes that landed under a newer head

nature == <<granted, lingers>>
host == <<head, threads, overview, late, human, nature>>
plan == <<base, findings, fixed, history, comments>>
sending == <<current, request, after>>
past == <<touched, astray>>
vars == <<host, jobs, pc, plan, available, left, sending, past>>

Heads == 1..MaxHead

Comment == [line : Line, body : Body]

\* The state of a thread names who resolved it.
State == {"open", "bot", "human"}

Loop == {"candidates", "fixing", "superseding"}

Place == Loop \cup {"idle", "listing", "posting", "sent", "overview",
                    "stopped", "completed"}

Known == DOMAIN threads

Write ==
    [kind : {"create"}, lineage : Lineage, line : Line, body : Body, head : Heads]
      \cup [kind : {"settle"}, thread : Known, state : {"open", "bot"}]
      \cup [kind : {"supersede"}, thread : Known]
      \cup [kind : {"overview"}, head : Heads]

TypeOK ==
    /\ head \in Heads /\ overview \in 0..MaxHead
    /\ threads \in Seq([lineage : Lineage, line : Line, body : Body,
                        head : Heads, state : State, outdated : BOOLEAN,
                        superseded : BOOLEAN, rank : Int])
    /\ late \subseteq Write /\ Cardinality(late) <= 1
    /\ granted \in BOOLEAN /\ lingers \in BOOLEAN /\ available \in BOOLEAN
    /\ pc \in Place /\ after \in Place
    /\ base \in Heads
    /\ DOMAIN findings \subseteq Lineage /\ Range(findings) \subseteq Comment
    /\ fixed \subseteq Lineage
    /\ DOMAIN history \subseteq Known
    /\ Range(history) \subseteq [state : State, outdated : BOOLEAN]
    /\ comments \subseteq Known
    /\ pc = "superseding" => left \subseteq Known
    /\ pc \in {"candidates", "fixing"} => left \subseteq Lineage
    /\ pc = "posting" => current \in DOMAIN findings
    /\ pc = "sent" => request \in Write

NoFindings == [l \in {} |-> 0]

NoHistory == [n \in {} |-> 0]

Init ==
    /\ head = 1 /\ threads = <<>> /\ overview = 0 /\ late = {} /\ human = 0
    /\ granted \in BOOLEAN /\ lingers \in BOOLEAN
    /\ jobs = 0 /\ pc = "idle"
    /\ base = 1 /\ findings = NoFindings /\ fixed = {}
    /\ history = NoHistory /\ comments = {}
    /\ available = TRUE /\ left = {}
    /\ current = None /\ request = None /\ after = "idle"
    /\ touched = {} /\ astray = {}

-----------------------------------------------------------------------------
(* The host.                                                               *)

\* What a write does when the host acts on it.  A new thread sorts before or
\* after all others.
Apply(w) ==
    \/ /\ w.kind = "create"
       /\ \E rank \in {-1 - Len(threads), 1 + Len(threads)} :
             threads' = Append(threads,
                 [lineage |-> w.lineage, line |-> w.line, body |-> w.body,
                  head |-> w.head, state |-> "open", outdated |-> FALSE,
                  superseded |-> FALSE, rank |-> rank])
       /\ UNCHANGED overview
    \/ /\ w.kind = "settle"
       /\ threads' = [threads EXCEPT ![w.thread].state =
                         IF w.state = "bot" /\ @ = "human" THEN @ ELSE w.state]
       /\ UNCHANGED overview
    \/ /\ w.kind = "supersede"
       /\ threads' = [threads EXCEPT ![w.thread].superseded = TRUE]
       /\ UNCHANGED overview
    \/ /\ w.kind = "overview"
       /\ overview' = w.head
       /\ UNCHANGED threads

\* The host acts on the request of the current publication, or refuses it.
Landed ==
    /\ Apply(request)
    /\ astray' = IF head = base THEN astray ELSE astray \cup {request}
    /\ UNCHANGED late

Refused == UNCHANGED <<threads, overview, late, astray>>

Delayed ==
    /\ lingers /\ late = {}
    /\ late' = {request}
    /\ UNCHANGED <<threads, overview, astray>>

\* The request whose outcome stopped the publication is still on its way.
Overdue == pc = "stopped" /\ request \in late

\* The host acts on a write of this publication or of one that is over.
LandLate ==
    /\ \E w \in late : Apply(w)
    /\ late' = {}
    /\ astray' = IF head = base \/ ~Overdue THEN astray ELSE astray \cup {request}
    /\ UNCHANGED <<head, human, nature, jobs, pc, plan, available, left,
                   sending, touched>>

\* A push outdates the threads whose code it changes.
Push ==
    /\ head < MaxHead
    /\ head' = head + 1
    /\ \E S \in SUBSET Known :
          threads' = [n \in Known |-> IF n \in S
                                      THEN [threads[n] EXCEPT !.outdated = TRUE]
                                      ELSE threads[n]]
    /\ UNCHANGED <<overview, late, human, nature, jobs, pc, plan, available,
                   left, sending, past>>

HumanAct ==
    /\ human < MaxHuman
    /\ human' = human + 1
    /\ \E n \in Known :
          /\ threads' = [threads EXCEPT ![n].state =
                            IF @ = "open" THEN "human" ELSE "open"]
          /\ touched' = touched \cup {n}
    /\ UNCHANGED <<head, overview, late, nature, jobs, pc, plan, available,
                   left, sending, astray>>

-----------------------------------------------------------------------------
(* The start of a publication.                                             *)

OpenOf(l) == {n \in Known : threads[n].lineage = l /\ threads[n].state = "open"}

OpenLineages == {l \in Lineage : OpenOf(l) # {}}

\* PriorReviewContext::try_new refuses two open threads of one lineage.
HistoryAcquired == \A l \in Lineage : Cardinality(OpenOf(l)) <= 1

\* A review of some head is done and its job starts to publish: the threads
\* are acquired again and are what they were before the review, or the job
\* ends.  A complete review may declare open lineages fixed; those it is
\* uncertain about are neither fixed nor reported.
BeginPublish ==
    /\ pc = "idle" /\ jobs < MaxJobs
    /\ HistoryAcquired
    /\ jobs' = jobs + 1
    /\ base' \in 1..head
    /\ \E D \in SUBSET Lineage : findings' \in [D -> Comment]
    /\ fixed' \in SUBSET OpenLineages
    /\ history' = [n \in Known |-> [state    |-> threads[n].state,
                                    outdated |-> threads[n].outdated]]
    /\ pc' = "listing"
    /\ available' = TRUE
    /\ touched' = {} /\ astray' = {}
    /\ UNCHANGED <<host, comments, left, sending>>

\* The comments are listed; a superseded one does not end in its marker.
ListComments ==
    /\ pc = "listing"
    /\ comments' = {n \in Known : ~threads[n].superseded}
    /\ left' = DOMAIN findings
    /\ pc' = "candidates"
    /\ UNCHANGED <<host, jobs, base, findings, fixed, history, available,
                   sending, past>>

\* The list cannot be read.
ListFails ==
    /\ pc = "listing"
    /\ pc' = "stopped"
    /\ UNCHANGED <<host, jobs, plan, available, left, sending, past>>

-----------------------------------------------------------------------------
(* What is known of a lineage.                                             *)

Listed == DOMAIN history \cup comments

ThreadsOf(l) == {n \in DOMAIN history : threads[n].lineage = l}

First(S) == CHOOSE n \in S : \A m \in S : threads[n].rank <= threads[m].rank

\* lineage_discussion: the first thread of the lineage, in any state.
Stands(l) == First(ThreadsOf(l))

\* Comments with the candidate's marker: same snapshot, target and body.
Exact(l) ==
    {n \in comments : /\ threads[n].lineage = l /\ threads[n].head = base
                      /\ threads[n].line = findings[l].line
                      /\ threads[n].body = findings[l].body}

\* occurrence_needs_current_anchor.  An outdated thread has no line.
NeedsAnchor(l) ==
    \/ history[Stands(l)].outdated
    \/ threads[Stands(l)].line # findings[l].line

Reanchored(l) ==
    /\ ThreadsOf(l) # {} /\ Exact(l) = {} /\ NeedsAnchor(l)
    /\ history[Stands(l)].state # "human"

\* Of the comments of a lineage those are listed whose thread was acquired,
\* superseded ones included.
Matches(l) ==
    IF Exact(l) # {} THEN Exact(l)
    ELSE {n \in Listed : threads[n].lineage = l}

\* A mutant of ResolvedByBot: who resolved the thread is not asked.
ResolvedByAnyone(l) == {n \in ThreadsOf(l) : history[n].state # "open"}

ResolvedByBot(l) == {n \in ThreadsOf(l) : history[n].state = "bot"}

-----------------------------------------------------------------------------
(* One candidate, one fixed lineage, one superseded comment at a time.     *)

\* ensure_fresh and then the request; or the head has changed, or the check
\* itself fails.
SendFresh(w, then) ==
    \/ /\ head = base
       /\ request' = w /\ after' = then /\ pc' = "sent"
    \/ /\ pc' = "stopped"
       /\ UNCHANGED <<request, after>>

CreateOf(l) ==
    [kind |-> "create", lineage |-> l, line |-> findings[l].line,
     body |-> findings[l].body, head |-> base]

SettleOf(n, state) == [kind |-> "settle", thread |-> n, state |-> state]

Take(x) ==
    /\ x \in left
    /\ left' = left \ {x}
    /\ UNCHANGED <<host, jobs, plan, available, past>>

\* The finding moved: its old thread is resolved first ...
ResolveOld(l) ==
    /\ pc = "candidates" /\ Take(l)
    /\ Reanchored(l) /\ history[Stands(l)].state = "open" /\ available
    /\ SendFresh(SettleOf(Stands(l), "bot"), "posting")
    /\ current' = l

\* ... or kept as it is where threads cannot be resolved ...
KeepOld(l) ==
    /\ pc = "candidates" /\ Take(l)
    /\ Reanchored(l) /\ history[Stands(l)].state = "open" /\ ~available
    /\ UNCHANGED <<pc, sending>>

\* ... and the new one is posted.
PostAnchored ==
    /\ pc = "posting"
    /\ SendFresh(CreateOf(current), "candidates")
    /\ UNCHANGED <<host, jobs, plan, available, left, current, past>>

\* A finding nobody reported before, or one that moved and whose thread the
\* bot had resolved already.
Post(l) ==
    /\ pc = "candidates" /\ Take(l)
    /\ IF Reanchored(l) THEN history[Stands(l)].state = "bot" ELSE Matches(l) = {}
    /\ SendFresh(CreateOf(l), "candidates")
    /\ UNCHANGED current

OneMatch(l) == ~Reanchored(l) /\ Cardinality(Matches(l)) = 1

Reopen(l) ==
    /\ pc = "candidates" /\ Take(l)
    /\ OneMatch(l) /\ ResolvedByBot(l) # {} /\ available
    /\ SendFresh(SettleOf(First(ResolvedByBot(l)), "open"), "candidates")
    /\ UNCHANGED current

Keep(l) ==
    /\ pc = "candidates" /\ Take(l)
    /\ OneMatch(l) /\ (ResolvedByBot(l) = {} \/ ~available)
    /\ UNCHANGED <<pc, sending>>

Ambiguous(l) ==
    /\ pc = "candidates" /\ Take(l)
    /\ ~Reanchored(l) /\ Cardinality(Matches(l)) > 1
    /\ pc' = "stopped"
    /\ UNCHANGED sending

\* A fixed lineage had an open thread when the review disposed of it.
Fix(l) ==
    /\ pc = "fixing" /\ Take(l)
    /\ LET open == {n \in ThreadsOf(l) : history[n].state = "open"}
       IN  IF available THEN SendFresh(SettleOf(First(open), "bot"), "fixing")
           ELSE UNCHANGED <<pc, request, after>>
    /\ UNCHANGED current

\* Comments of no lineage that is reported, fixed or known from the threads.
Orphans ==
    {n \in comments : /\ threads[n].lineage \notin DOMAIN findings \cup fixed
                      /\ ThreadsOf(threads[n].lineage) = {}}

Supersede(n) ==
    /\ pc = "superseding" /\ Take(n)
    /\ SendFresh([kind |-> "supersede", thread |-> n], "superseding")
    /\ UNCHANGED current

\* A mutant of LoopDone: the fixed lineages are left for another time.
LoopDoneSkipsFixed ==
    /\ pc \in Loop /\ left = {}
    /\ pc' = CASE pc = "candidates" -> "superseding"
               [] pc = "fixing" -> "superseding"
               [] pc = "superseding" -> "overview"
    /\ left' = IF pc = "superseding" THEN {} ELSE Orphans
    /\ UNCHANGED <<host, jobs, plan, available, sending, past>>

LoopDone ==
    /\ pc \in Loop /\ left = {}
    /\ pc' = CASE pc = "candidates" -> "fixing"
               [] pc = "fixing" -> "superseding"
               [] pc = "superseding" -> "overview"
    /\ left' = CASE pc = "candidates" -> fixed
                 [] pc = "fixing" -> Orphans
                 [] pc = "superseding" -> {}
    /\ UNCHANGED <<host, jobs, plan, available, sending, past>>

\* update_github_overview: the head is checked with the read of the
\* description, and an equal block is left alone.
OverviewKept ==
    /\ pc = "overview" /\ head = base /\ overview = base
    /\ pc' = "completed"
    /\ UNCHANGED <<host, jobs, plan, available, left, sending, past>>

SendOverview ==
    /\ pc = "overview" /\ overview # base
    /\ SendFresh([kind |-> "overview", head |-> base], "completed")
    /\ UNCHANGED <<host, jobs, plan, available, left, current, past>>

OverviewFails ==
    /\ pc = "overview" /\ overview = base
    /\ pc' = "stopped"
    /\ UNCHANGED <<host, jobs, plan, available, left, sending, past>>

-----------------------------------------------------------------------------
(* Answers.                                                                *)

Permitted == request.kind = "settle" => granted

Answered ==
    /\ pc = "sent" /\ Permitted
    /\ Landed
    /\ pc' = after
    /\ UNCHANGED <<head, human, nature, jobs, plan, available, left, sending,
                   touched>>

\* A mutant of Denied: a thread that cannot be resolved is replaced anyway.
DeniedGoesOn ==
    /\ pc = "sent" /\ ~Permitted
    /\ Refused
    /\ available' = FALSE
    /\ pc' = after
    /\ UNCHANGED <<head, human, nature, jobs, plan, left, sending, touched>>

\* ThreadResolutionOutcome::Unavailable, from now on for all threads: a thread
\* that stays open is not replaced.
Denied ==
    /\ pc = "sent" /\ ~Permitted
    /\ Refused
    /\ available' = FALSE
    /\ pc' = IF after = "posting" THEN "candidates" ELSE after
    /\ UNCHANGED <<head, human, nature, jobs, plan, left, sending, touched>>

\* No answer, a status, or one that does not confirm the write.
Unconfirmed ==
    /\ pc = "sent"
    /\ (Permitted /\ Landed) \/ Refused \/ (Permitted /\ Delayed)
    /\ pc' = "stopped"
    /\ UNCHANGED <<head, human, nature, jobs, plan, available, left, sending,
                   touched>>

Forget ==
    /\ base' = 1 /\ findings' = NoFindings /\ fixed' = {}
    /\ history' = NoHistory /\ comments' = {}
    /\ available' = TRUE /\ left' = {}
    /\ current' = None /\ request' = None /\ after' = "idle"
    /\ touched' = {} /\ astray' = {}
    /\ pc' = "idle"

EndJob ==
    /\ pc \in {"stopped", "completed"}
    /\ Forget
    /\ UNCHANGED <<host, jobs>>

\* A newer run cancels the job; a write it had sent may be on its way.
Crash ==
    /\ pc \notin {"idle", "stopped", "completed"}
    /\ \/ UNCHANGED <<threads, overview, late>>
       \/ pc = "sent" /\ Permitted /\ Apply(request) /\ UNCHANGED late
       \/ /\ pc = "sent" /\ Permitted /\ lingers /\ late = {}
          /\ late' = {request}
          /\ UNCHANGED <<threads, overview>>
    /\ Forget
    /\ UNCHANGED <<head, human, nature, jobs>>

-----------------------------------------------------------------------------

Candidate(l) == ResolveOld(l) \/ KeepOld(l) \/ Post(l) \/ Reopen(l)
                  \/ Keep(l) \/ Ambiguous(l)

Work ==
    \/ ListComments \/ ListFails
    \/ \E l \in Lineage : Candidate(l) \/ Fix(l)
    \/ PostAnchored
    \/ \E n \in Known : Supersede(n)
    \/ LoopDone
    \/ OverviewKept \/ SendOverview \/ OverviewFails
    \/ Answered \/ Denied \/ Unconfirmed
    \/ EndJob

Environment == LandLate \/ Push \/ HumanAct \/ Crash

Next == BeginPublish \/ Work \/ Environment

Spec == Init /\ [][Next]_vars

-----------------------------------------------------------------------------
(* Properties.  Most of them hold of a host that acts on a write while its *)
(* client waits, or not at all: ~lingers.                                  *)

(***************************************************************************)
(* The same comment is never posted twice: whatever was killed, lost or    *)
(* run again, no two comments that end in their marker have the same one.  *)
(***************************************************************************)
NoDuplicates ==
    ~lingers =>
        \A m, n \in Known :
           (/\ threads[m].lineage = threads[n].lineage
            /\ threads[m].line = threads[n].line
            /\ threads[m].body = threads[n].body
            /\ threads[m].head = threads[n].head
            /\ ~threads[m].superseded /\ ~threads[n].superseded) => m = n

(***************************************************************************)
(* Where the token cannot resolve threads, a lineage keeps the one thread  *)
(* it has, open or resolved by people, through every later review.         *)
(***************************************************************************)
LineageRetained ==
    ~granted /\ ~lingers =>
        \A m, n \in Known : threads[m].lineage = threads[n].lineage => m = n

(***************************************************************************)
(* A publication that reports completion and could resolve threads has     *)
(* converged: every finding it reported, and did not also declare fixed,   *)
(* has an open thread; a lineage declared fixed and not reported has none; *)
(* lineages people acted on or resolved are exempt; and the overview       *)
(* speaks of this snapshot.                                                *)
(***************************************************************************)
Untouched(l) == \A n \in Known : threads[n].lineage = l =>
                    n \notin touched /\ threads[n].state # "human"

Converged ==
    pc = "completed" /\ ~lingers =>
        /\ \A l \in DOMAIN findings \ fixed :
              Untouched(l) /\ available => OpenOf(l) # {}
        /\ \A l \in fixed \ DOMAIN findings :
              available => OpenOf(l) \subseteq touched
        /\ overview = base

(***************************************************************************)
(* After the head moved, at most one write of a publication lands, at once *)
(* or late: the one that was under way.                                    *)
(***************************************************************************)
OneWriteAstray == Cardinality(astray) <= 1

(***************************************************************************)
(* A thread that a person resolved is never reopened by the bot, unless    *)
(* somebody acted on it after the threads were acquired.                   *)
(***************************************************************************)
HumanResolutionKept ==
    [][~lingers => \A n \in Known :
          threads[n].state = "human" /\ threads'[n].state = "open"
            => human' # human \/ n \in touched]_vars

(***************************************************************************)
(* A thread is resolved only for a reason: its lineage was declared fixed, *)
(* or the finding is reported and the thread that stood for it was         *)
(* outdated or at another line.                                            *)
(***************************************************************************)
ResolvedForReason ==
    [][~lingers => \A n \in Known :
          threads[n].state = "open" /\ threads'[n].state = "bot"
            => LET l == threads[n].lineage
               IN  \/ l \in fixed
                   \/ /\ l \in DOMAIN findings
                      /\ \/ threads[n].outdated
                         \/ threads[n].line # findings[l].line]_vars

=============================================================================
