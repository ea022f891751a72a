----------------------- MODULE GitHubPublicationProofs -----------------------
(***************************************************************************)
(* What GitHubPublication promises for any number of lineages, lines,      *)
(* wordings, pushes, publications and steps of people.                     *)
(*                                                                         *)
(* IInv has three parts.  TypeInv: the types, for any host; the first of   *)
(* some threads is one of them, because a rank tells its thread, and a     *)
(* lineage that is declared fixed has a thread to resolve.                 *)
(*                                                                         *)
(* The other two are of a host that acts on a write while its client waits *)
(* or not at all.  AcquiredOK: what the threads have become since they     *)
(* were acquired, which only people and this publication have a part in.   *)
(* ProgressOK: a write under way is one of six, for a lineage that was     *)
(* taken from left; threads of lineages still in left are as they were     *)
(* acquired, or people touched them; for lineages that were taken, the     *)
(* finding has an open thread or the fixed one has none, but for the one   *)
(* whose write is under way.  At the end left is empty and nothing is      *)
(* under way, which is Converged.                                          *)
(***************************************************************************)
EXTENDS GitHubPublication, FiniteSetTheorems, WellFoundedInduction, TLAPS

\* Where the publication is; while a write is under way, where a success leads.
At == IF pc = "sent" THEN after ELSE pc

\* There is something to say of the publication only while it goes on.
Active == pc \notin {"idle", "stopped"}

Early == At \in {"candidates", "posting"}

Late == At \in {"fixing", "superseding", "overview", "completed"}

Acquired == DOMAIN history

Thread == [lineage : Lineage, line : Line, body : Body, head : Heads,
           state : State, outdated : BOOLEAN, superseded : BOOLEAN, rank : Int]

-----------------------------------------------------------------------------
(* The invariant: types.                                                   *)

\* A rank tells its thread.
ThreadsOK ==
    /\ threads \in Seq(Thread)
    /\ \A n \in Known : threads[n].rank \in {n, -n}

HostOK ==
    /\ head \in Heads /\ overview \in 0..MaxHead
    /\ late \subseteq Write /\ Cardinality(late) <= 1 /\ IsFiniteSet(late)
    /\ granted \in BOOLEAN /\ lingers \in BOOLEAN /\ human \in Nat

PlanOK ==
    /\ base \in Heads
    /\ DOMAIN findings \subseteq Lineage
    /\ findings \in [DOMAIN findings -> Comment]
    /\ fixed \subseteq Lineage
    /\ Acquired \subseteq Known
    /\ history \in [Acquired -> [state : State, outdated : BOOLEAN]]
    /\ comments \subseteq Known

PlaceOK ==
    /\ pc \in Place /\ after \in Loop \cup {"idle", "posting", "completed"}
    /\ available \in BOOLEAN
    /\ Early => left \subseteq DOMAIN findings
    /\ At = "posting" => current \in DOMAIN findings
    /\ At = "fixing" => left \subseteq fixed
    /\ At = "superseding" => left \subseteq Known
    /\ pc = "sent" => request \in Write

\* A lineage that is declared fixed had an open thread.
FixedOpen ==
    \A l \in fixed : \E n \in Acquired :
        threads[n].lineage = l /\ history[n].state = "open"

TypeInv == ThreadsOK /\ HostOK /\ PlanOK /\ PlaceOK /\ FixedOpen

-----------------------------------------------------------------------------
(* The invariant: what was acquired.                                       *)

\* A comment that was not listed is superseded.
CommentsOK ==
    At # "listing" => \A n \in Acquired \ comments : threads[n].superseded

\* Only people close a thread as people do.
HumansOK ==
    \A n \in Acquired \ touched :
        threads[n].state = "human" => history[n].state = "human"

OutdatedOK == \A n \in Acquired : history[n].outdated => threads[n].outdated

\* What PriorReviewContext::try_new has checked.
OneOpen ==
    \A m, n \in Acquired :
        (/\ threads[m].lineage = threads[n].lineage
         /\ history[m].state = "open" /\ history[n].state = "open") => m = n

\* A bot that may not resolve threads has resolved none.
NoneByBot == ~granted => \A n \in Acquired : history[n].state # "bot"

AcquiredOK == CommentsOK /\ HumansOK /\ OutdatedOK /\ OneOpen /\ NoneByBot

-----------------------------------------------------------------------------
(* The invariant: how far the publication has come.                        *)

\* No comment that ends in its marker is the one to be posted for l.
Unposted(l) ==
    \A n \in Known :
        threads[n].lineage = l =>
            \/ threads[n].superseded
            \/ threads[n].head # base
            \/ threads[n].line # findings[l].line
            \/ threads[n].body # findings[l].body

\* Where threads cannot be resolved, l has no thread yet.
Threadless(l) == ~granted => \A n \in Known : threads[n].lineage # l

\* What may be under way.
Resolving ==
    /\ after = "posting"
    /\ \E n \in Acquired :
          /\ request = SettleOf(n, "bot")
          /\ threads[n].lineage = current
          /\ threads[n].outdated \/ threads[n].line # findings[current].line

Creating(l) ==
    /\ after = "candidates" /\ l \in DOMAIN findings \ left
    /\ request = CreateOf(l)
    /\ Unposted(l) /\ Threadless(l)

Reopening(l) ==
    /\ after = "candidates" /\ l \in DOMAIN findings \ left
    /\ \E n \in ThreadsOf(l) :
          request = SettleOf(n, "open") /\ history[n].state = "bot"

Closing(l) ==
    /\ after = "fixing" /\ l \in fixed \ left
    /\ \E n \in ThreadsOf(l) :
          /\ request = SettleOf(n, "bot")
          /\ l \notin DOMAIN findings => OpenOf(l) \subseteq touched \cup {n}

Superseding ==
    after = "superseding" /\ \E n \in Known : request = [kind |-> "supersede", thread |-> n]

Reporting == after = "completed" /\ request = [kind |-> "overview", head |-> base]

FlightOK ==
    pc = "sent" =>
        \/ Resolving \/ Superseding \/ Reporting
        \/ \E l \in Lineage : Creating(l) \/ Reopening(l) \/ Closing(l)

\* The old thread of a finding is resolved, its new one is next.
PostingOK ==
    /\ At = "posting" => current \notin left /\ Unposted(current)
    /\ pc = "posting" => granted

\* A thread that was not acquired was posted, for a candidate that is done.
OriginOK ==
    /\ pc = "listing" => Known = Acquired
    /\ \A n \in Known \ Acquired :
          /\ threads[n].lineage \in DOMAIN findings
          /\ Early => threads[n].lineage \notin left

\* Nothing was done about l.
Unattended(l) ==
    \/ At = "listing"
    \/ Early /\ (l \in left \/ l \notin DOMAIN findings)
    \/ At = "fixing" /\ l \in left \ DOMAIN findings

UnattendedOK ==
    \A n \in Acquired \ touched :
        Unattended(threads[n].lineage) => threads[n].state = history[n].state

\* All that is to be done for the finding of l was done.
Attended(l) ==
    \/ Late
    \/ /\ Early /\ l \notin left
       /\ At = "posting" => l # current
       /\ pc = "sent" => ~Creating(l) /\ ~Reopening(l)

ReportedOK ==
    \A l \in DOMAIN findings \ fixed :
        Attended(l) /\ Untouched(l) /\ available => OpenOf(l) # {}

\* All that is to be done for the fixed lineage l was done.
Disposed(l) ==
    \/ At \in {"superseding", "overview", "completed"}
    \/ At = "fixing" /\ l \notin left /\ (pc = "sent" => ~Closing(l))

FixedOK ==
    \A l \in fixed \ DOMAIN findings :
        Disposed(l) /\ available => OpenOf(l) \subseteq touched

OverviewOK == pc = "completed" => overview = base

ProgressOK ==
    /\ FlightOK /\ PostingOK /\ OriginOK /\ UnattendedOK
    /\ ReportedOK /\ FixedOK /\ OverviewOK

-----------------------------------------------------------------------------

Unduplicated ==
    \A m, n \in Known :
       (/\ threads[m].lineage = threads[n].lineage
        /\ threads[m].line = threads[n].line
        /\ threads[m].body = threads[n].body
        /\ threads[m].head = threads[n].head
        /\ ~threads[m].superseded /\ ~threads[n].superseded) => m = n

Unresolved ==
    ~granted =>
        /\ \A n \in Known : threads[n].state # "bot"
        /\ \A m, n \in Known : threads[m].lineage = threads[n].lineage => m = n

\* A host that acts while the client waits, or not at all.
Prompt ==
    /\ late = {}
    /\ Unduplicated /\ Unresolved
    /\ Active => AcquiredOK /\ ProgressOK

IInv == TypeInv /\ (~lingers => Prompt)
-----------------------------------------------------------------------------
(* What is done to threads.                                                *)

\* Threads are marked, resolved or opened; what they are threads of stays.
Altered ==
    /\ Known' = Known
    /\ \A n \in Known :
          /\ threads'[n].lineage = threads[n].lineage
          /\ threads'[n].line = threads[n].line
          /\ threads'[n].body = threads[n].body
          /\ threads'[n].head = threads[n].head
          /\ threads[n].outdated => threads'[n].outdated
          /\ threads[n].superseded => threads'[n].superseded

StatesKept == \A n \in Known : threads'[n].state = threads[n].state

\* The thread m of write w is new.
Appended(w, m) ==
    /\ m \notin Known /\ Known' = Known \cup {m}
    /\ \A n \in Known : threads'[n] = threads[n]
    /\ threads'[m].lineage = w.lineage /\ threads'[m].line = w.line
    /\ threads'[m].body = w.body /\ threads'[m].head = w.head
    /\ threads'[m].state = "open"

Changed(n, s) ==
    \A m \in Known :
        threads'[m].state =
            IF m # n THEN threads[m].state
            ELSE IF s = "bot" /\ threads[m].state = "human" THEN "human" ELSE s

LEMMA Puts ==
    ASSUME ThreadsOK, NEW n \in Known, NEW t \in Thread,
           t.rank = threads[n].rank, threads' = [threads EXCEPT ![n] = t]
    PROVE  /\ ThreadsOK' /\ Known' = Known
           /\ threads'[n] = t
           /\ \A m \in Known : m # n => threads'[m] = threads[m]
  <1>1. threads \in Seq(Thread) /\ Known = 1..Len(threads)
    BY DEF ThreadsOK, Known
  <1>2. threads' \in Seq(Thread) /\ Len(threads') = Len(threads)
    BY <1>1
  <1>3. Known' = Known
    BY <1>1, <1>2 DEF Known
  <1>4. threads'[n] = t /\ \A m \in Known : m # n => threads'[m] = threads[m]
    BY <1>1
  <1>5. \A m \in Known : threads'[m].rank = threads[m].rank
    BY <1>4
  <1>6. ThreadsOK'
    BY <1>2, <1>3, <1>5 DEF ThreadsOK
  <1>. QED
    BY <1>3, <1>4, <1>6

LEMMA CreateLands ==
    ASSUME ThreadsOK, NEW w \in Write, w.kind = "create", Apply(w)
    PROVE  /\ ThreadsOK' /\ overview' = overview
           /\ \E m : Appended(w, m)
  <1>1. /\ w.lineage \in Lineage /\ w.line \in Line /\ w.body \in Body
        /\ w.head \in Heads
    BY DEF Write
  <1>2. overview' = overview
    BY DEF Apply
  <1>3. PICK rank \in {-1 - Len(threads), 1 + Len(threads)} :
             threads' = Append(threads,
                 [lineage |-> w.lineage, line |-> w.line, body |-> w.body,
                  head |-> w.head, state |-> "open", outdated |-> FALSE,
                  superseded |-> FALSE, rank |-> rank])
    BY DEF Apply
  <1>. DEFINE t == [lineage |-> w.lineage, line |-> w.line, body |-> w.body,
                    head |-> w.head, state |-> "open", outdated |-> FALSE,
                    superseded |-> FALSE, rank |-> rank]
              m == Len(threads) + 1
  <1>4. threads \in Seq(Thread) /\ Known = 1..Len(threads) /\ Len(threads) \in Nat
    BY DEF ThreadsOK, Known
  <1>5. t \in Thread
    BY <1>1, <1>4 DEF Thread, State
  <1>6. /\ t.lineage = w.lineage /\ t.line = w.line /\ t.body = w.body
        /\ t.head = w.head /\ t.state = "open" /\ t.rank \in {m, -m}
    BY <1>4
  <1>. HIDE DEF t
  <1>7. threads' = Append(threads, t)
    BY <1>3 DEF t
  <1>8. /\ threads' \in Seq(Thread) /\ Len(threads') = Len(threads) + 1
        /\ threads'[m] = t /\ \A n \in 1..Len(threads) : threads'[n] = threads[n]
    BY <1>4, <1>5, <1>7
  <1>9. m \notin Known /\ Known' = Known \cup {m}
    BY <1>4, <1>8 DEF Known
  <1>10. Appended(w, m)
    BY <1>4, <1>6, <1>8, <1>9 DEF Appended
  <1>11. \A n \in Known' : threads'[n].rank \in {n, -n}
    BY <1>4, <1>6, <1>8, <1>9 DEF ThreadsOK
  <1>12. ThreadsOK'
    BY <1>8, <1>11 DEF ThreadsOK
  <1>. QED
    BY <1>2, <1>10, <1>12

LEMMA SettleLands ==
    ASSUME ThreadsOK, NEW n \in Known, NEW s \in {"open", "bot"},
           Apply(SettleOf(n, s))
    PROVE  /\ ThreadsOK' /\ overview' = overview
           /\ Altered /\ Changed(n, s)
           /\ \A m \in Known : threads'[m].outdated = threads[m].outdated
  <1>. DEFINE v == IF s = "bot" /\ threads[n].state = "human" THEN "human" ELSE s
              t == [threads[n] EXCEPT !.state = v]
  <1>0. SettleOf(n, s).kind = "settle" /\ SettleOf(n, s).thread = n
        /\ SettleOf(n, s).state = s
    BY DEF SettleOf
  <1>1. overview' = overview
    BY <1>0 DEF Apply
  <1>2. threads \in Seq(Thread) /\ threads[n] \in Thread
    BY DEF ThreadsOK, Known
  <1>3. threads' = [threads EXCEPT ![n] = t]
    <2>1. threads' = [threads EXCEPT ![n].state =
                         IF s = "bot" /\ @ = "human" THEN @ ELSE s]
      BY <1>0 DEF Apply
    <2>. QED
      BY <2>1, <1>2 DEF Thread
  <1>4. v \in State
    BY DEF State
  <1>5. /\ t \in Thread /\ t.state = v
        /\ t.lineage = threads[n].lineage /\ t.line = threads[n].line
        /\ t.body = threads[n].body /\ t.head = threads[n].head
        /\ t.outdated = threads[n].outdated
        /\ t.superseded = threads[n].superseded /\ t.rank = threads[n].rank
    BY <1>2, <1>4 DEF Thread
  <1>. HIDE DEF t
  <1>6. /\ ThreadsOK' /\ Known' = Known /\ threads'[n] = t
        /\ \A m \in Known : m # n => threads'[m] = threads[m]
    BY <1>3, <1>5, Puts
  <1>7. Altered
    BY <1>5, <1>6 DEF Altered
  <1>8. Changed(n, s)
    BY <1>5, <1>6 DEF Changed
  <1>. QED
    BY <1>1, <1>5, <1>6, <1>7, <1>8

LEMMA SupersedeLands ==
    ASSUME ThreadsOK, NEW n \in Known,
           Apply([kind |-> "supersede", thread |-> n])
    PROVE  ThreadsOK' /\ overview' = overview /\ Altered /\ StatesKept
  <1>. DEFINE t == [threads[n] EXCEPT !.superseded = TRUE]
  <1>1. overview' = overview /\ threads' = [threads EXCEPT ![n].superseded = TRUE]
    BY DEF Apply
  <1>2. threads \in Seq(Thread) /\ threads[n] \in Thread
    BY DEF ThreadsOK, Known
  <1>3. threads' = [threads EXCEPT ![n] = t]
    BY <1>1, <1>2 DEF Thread
  <1>4. /\ t \in Thread /\ t.state = threads[n].state
        /\ t.lineage = threads[n].lineage /\ t.line = threads[n].line
        /\ t.body = threads[n].body /\ t.head = threads[n].head
        /\ t.outdated = threads[n].outdated
        /\ t.superseded /\ t.rank = threads[n].rank
    BY <1>2 DEF Thread
  <1>. HIDE DEF t
  <1>5. /\ ThreadsOK' /\ Known' = Known /\ threads'[n] = t
        /\ \A m \in Known : m # n => threads'[m] = threads[m]
    BY <1>3, <1>4, Puts
  <1>6. Altered /\ StatesKept
    BY <1>4, <1>5 DEF Altered, StatesKept
  <1>. QED
    BY <1>1, <1>5, <1>6

LEMMA ReportLands ==
    ASSUME NEW h, Apply([kind |-> "overview", head |-> h])
    PROVE  threads' = threads /\ overview' = h
BY DEF Apply

\* Whatever a write is, it leaves threads that are threads.
LEMMA WriteLands ==
    ASSUME ThreadsOK, overview \in 0..MaxHead, NEW w \in Write, Apply(w)
    PROVE  /\ ThreadsOK' /\ overview' \in 0..MaxHead /\ Known \subseteq Known'
           /\ \A n \in Known : threads'[n].lineage = threads[n].lineage
  <1>1. CASE w.kind = "create"
    BY <1>1, CreateLands DEF Appended
  <1>2. CASE w.kind = "settle"
    <2>1. w.thread \in Known /\ w.state \in {"open", "bot"}
          /\ w = SettleOf(w.thread, w.state)
      BY <1>2 DEF Write, SettleOf
    <2>. QED
      BY <2>1, SettleLands DEF Altered
  <1>3. CASE w.kind = "supersede"
    <2>1. w.thread \in Known /\ w = [kind |-> "supersede", thread |-> w.thread]
      BY <1>3 DEF Write
    <2>. QED
      BY <2>1, SupersedeLands DEF Altered
  <1>4. CASE w.kind = "overview"
    <2>1. w.head \in Heads /\ w = [kind |-> "overview", head |-> w.head]
      BY <1>4 DEF Write
    <2>2. threads' = threads /\ overview' = w.head
      BY <2>1, ReportLands
    <2>3. ThreadsOK' /\ Known' = Known
      BY <2>2 DEF ThreadsOK, Known
    <2>. QED
      BY <2>1, <2>2, <2>3, PublicationAssumption DEF Heads
  <1>. QED
    BY <1>1, <1>2, <1>3, <1>4 DEF Write

LEMMA PushAlters ==
    ASSUME ThreadsOK, Push
    PROVE  ThreadsOK' /\ Altered /\ StatesKept
  <1>1. PICK S \in SUBSET Known :
          threads' = [n \in Known |-> IF n \in S
                                      THEN [threads[n] EXCEPT !.outdated = TRUE]
                                      ELSE threads[n]]
    BY DEF Push
  <1>2. threads \in Seq(Thread) /\ Known = 1..Len(threads) /\ Len(threads) \in Nat
        /\ \A n \in Known : threads[n] \in Thread
    BY DEF ThreadsOK, Known
  <1>3. ASSUME NEW n \in Known
        PROVE  /\ threads'[n] \in Thread
               /\ threads'[n].lineage = threads[n].lineage
               /\ threads'[n].line = threads[n].line
               /\ threads'[n].body = threads[n].body
               /\ threads'[n].head = threads[n].head
               /\ threads'[n].state = threads[n].state
               /\ threads'[n].rank = threads[n].rank
               /\ threads'[n].superseded = threads[n].superseded
               /\ threads[n].outdated => threads'[n].outdated
    <2>1. threads'[n] = IF n \in S THEN [threads[n] EXCEPT !.outdated = TRUE]
                        ELSE threads[n]
      BY <1>1
    <2>. QED
      BY <2>1, <1>2 DEF Thread
  <1>4. Known' = Known /\ DOMAIN threads' = 1..Len(threads)
    BY <1>1, <1>2 DEF Known
  <1>5. threads' \in [1..Len(threads) -> Thread]
    BY <1>1, <1>2, <1>3
  <1>6. threads' \in Seq(Thread)
    BY <1>2, <1>5
  <1>7. ThreadsOK'
    BY <1>3, <1>4, <1>6 DEF ThreadsOK
  <1>. QED
    BY <1>3, <1>4, <1>7 DEF Altered, StatesKept

LEMMA HumanAlters ==
    ASSUME ThreadsOK, HumanAct
    PROVE  /\ ThreadsOK' /\ Altered
           /\ \E n \in Known :
                 /\ touched' = touched \cup {n}
                 /\ threads'[n].state # "bot"
                 /\ \A m \in Known : m # n => threads'[m].state = threads[m].state
  <1>1. PICK n \in Known :
          /\ threads' = [threads EXCEPT ![n].state =
                            IF @ = "open" THEN "human" ELSE "open"]
          /\ touched' = touched \cup {n}
    BY DEF HumanAct
  <1>. DEFINE v == IF threads[n].state = "open" THEN "human" ELSE "open"
              t == [threads[n] EXCEPT !.state = v]
  <1>2. threads \in Seq(Thread) /\ threads[n] \in Thread
    BY DEF ThreadsOK, Known
  <1>3. threads' = [threads EXCEPT ![n] = t]
    BY <1>1, <1>2 DEF Thread
  <1>4. v \in State /\ v # "bot"
    BY DEF State
  <1>5. /\ t \in Thread /\ t.state = v
        /\ t.lineage = threads[n].lineage /\ t.line = threads[n].line
        /\ t.body = threads[n].body /\ t.head = threads[n].head
        /\ t.outdated = threads[n].outdated
        /\ t.superseded = threads[n].superseded /\ t.rank = threads[n].rank
    BY <1>2, <1>4 DEF Thread
  <1>. HIDE DEF t, v
  <1>6. /\ ThreadsOK' /\ Known' = Known /\ threads'[n] = t
        /\ \A m \in Known : m # n => threads'[m] = threads[m]
    BY <1>3, <1>5, Puts
  <1>. QED
    BY <1>1, <1>4, <1>5, <1>6 DEF Altered

-----------------------------------------------------------------------------
(* The first of some threads is one of them.                               *)

Before == {p \in Nat \X Nat : p[1] < p[2]}

LEMMA BeforeWellFounded == IsWellFoundedOn(Before, Nat)
BY NatLessThanWellFounded DEF OpToRel, Before

LEMMA LeastOf ==
    ASSUME NEW S \in SUBSET Nat, S # {}
    PROVE  \E m \in S : \A n \in S : m <= n
  <1>1. PICK m \in S : \A n \in S : ~ (<<n, m>> \in Before)
    BY BeforeWellFounded, WFMin
  <1>2. \A n \in S : ~ (n < m)
    BY <1>1 DEF Before
  <1>. QED
    BY <1>2

LEMMA FirstIsOne ==
    ASSUME ThreadsOK, NEW S \in SUBSET Known, S # {}
    PROVE  First(S) \in S
  <1>. DEFINE R(n) == threads[n].rank + Len(threads)
              T == {R(n) : n \in S}
  <1>1. Known = 1..Len(threads) /\ Len(threads) \in Nat
    BY DEF ThreadsOK, Known
  <1>2. \A n \in S : threads[n].rank \in Int /\ R(n) \in Nat
    BY <1>1 DEF ThreadsOK
  <1>3. T \in SUBSET Nat /\ T # {}
    BY <1>2
  <1>4. PICK x \in T : \A y \in T : x <= y
    BY <1>3, LeastOf
  <1>5. PICK n \in S : x = R(n)
    BY <1>4
  <1>6. ASSUME NEW m \in S PROVE threads[n].rank <= threads[m].rank
    <2>1. R(m) \in T
      OBVIOUS
    <2>2. R(n) <= R(m)
      BY <1>4, <1>5, <2>1
    <2>. QED
      BY <1>1, <1>2, <2>2
  <1>. QED
    BY <1>6 DEF First

-----------------------------------------------------------------------------
(* Types are kept.                                                         *)

LEMMA Initially == Init => IInv
  <1>. SUFFICES ASSUME Init PROVE IInv
    OBVIOUS
  <1>1. Known = {} /\ Acquired = {} /\ DOMAIN findings = {}
    BY DEF Init, Known, Acquired, NoHistory, NoFindings
  <1>2. ThreadsOK
    BY <1>1 DEF Init, ThreadsOK
  <1>3. HostOK
    BY PublicationAssumption, FS_EmptySet DEF Init, HostOK, Heads
  <1>4. PlanOK
    BY <1>1, PublicationAssumption DEF Init, PlanOK, Heads, NoHistory, NoFindings
  <1>5. PlaceOK
    BY DEF Init, PlaceOK, Place, Loop, At, Early
  <1>6. FixedOpen
    BY DEF Init, FixedOpen
  <1>7. Prompt
    BY <1>1 DEF Init, Prompt, Unduplicated, Unresolved, Active
  <1>. QED
    BY <1>2, <1>3, <1>4, <1>5, <1>6, <1>7 DEF IInv, TypeInv

LEMMA WritesGrow ==
    ASSUME Known \subseteq Known'
    PROVE  Write \subseteq Write'
BY DEF Write, Heads

LEMMA QuietHost ==
    ASSUME TypeInv, UNCHANGED host
    PROVE  ThreadsOK' /\ HostOK' /\ Known' = Known /\ Write' = Write
  <1>1. threads' = threads /\ overview' = overview /\ head' = head
        /\ late' = late /\ granted' = granted /\ lingers' = lingers
        /\ human' = human
    BY DEF host, nature
  <1>2. Known' = Known
    BY <1>1 DEF Known
  <1>3. Write' = Write
    BY <1>2 DEF Write, Heads
  <1>4. HostOK'
    BY <1>1, <1>3 DEF TypeInv, HostOK, Heads
  <1>5. ThreadsOK'
    BY <1>1, <1>2 DEF TypeInv, ThreadsOK
  <1>. QED
    BY <1>2, <1>3, <1>4, <1>5

LEMMA PlanStays ==
    ASSUME TypeInv, UNCHANGED plan, Known \subseteq Known',
           \A n \in Known : threads'[n].lineage = threads[n].lineage
    PROVE  PlanOK' /\ FixedOpen'
  <1>1. /\ base' = base /\ findings' = findings /\ fixed' = fixed
        /\ history' = history /\ comments' = comments
    BY DEF plan
  <1>2. Acquired' = Acquired /\ Acquired \subseteq Known
    BY <1>1 DEF Acquired, TypeInv, PlanOK
  <1>3. PlanOK'
    BY <1>1, <1>2 DEF TypeInv, PlanOK, Heads
  <1>4. FixedOpen'
    BY <1>1, <1>2 DEF TypeInv, FixedOpen
  <1>. QED
    BY <1>3, <1>4

LEMMA ForgetTypes ==
    ASSUME Forget
    PROVE  PlanOK' /\ PlaceOK' /\ FixedOpen'
  <1>1. PlanOK'
    BY PublicationAssumption
       DEF Forget, PlanOK, Heads, NoHistory, NoFindings, Acquired
  <1>2. PlaceOK'
    BY DEF Forget, PlaceOK, Place, Loop, At, Early
  <1>3. FixedOpen'
    BY DEF Forget, FixedOpen
  <1>. QED
    BY <1>1, <1>2, <1>3

\* Outside the loops nothing is asked of left.
LEMMA RestTypes ==
    ASSUME PlaceOK, pc' \in {"stopped", "completed", "overview", "listing"},
           after' = after, available' \in BOOLEAN
    PROVE  PlaceOK'
BY DEF PlaceOK, Place, Loop, At, Early

LEMMA StandsIn ==
    ASSUME ThreadsOK, PlanOK, NEW l, ThreadsOf(l) # {}
    PROVE  Stands(l) \in ThreadsOf(l) /\ Stands(l) \in Known
  <1>1. ThreadsOf(l) \in SUBSET Known
    BY DEF ThreadsOf, PlanOK, Acquired
  <1>. QED
    BY <1>1, FirstIsOne DEF Stands

LEMMA CreateIsWrite ==
    ASSUME PlanOK, NEW l \in DOMAIN findings
    PROVE  CreateOf(l) \in Write /\ l \in Lineage
  <1>1. l \in Lineage /\ findings[l] \in Comment /\ base \in Heads
    BY DEF PlanOK
  <1>2. findings[l].line \in Line /\ findings[l].body \in Body
    BY <1>1 DEF Comment
  <1>. QED
    BY <1>1, <1>2 DEF CreateOf, Write

LEMMA SettleIsWrite ==
    ASSUME NEW n \in Known, NEW s \in {"open", "bot"}
    PROVE  SettleOf(n, s) \in Write
BY DEF SettleOf, Write

\* A write is sent, or the publication stops.
LEMMA SendTypes ==
    ASSUME PlaceOK, Known' = Known, Write' = Write, UNCHANGED plan, UNCHANGED available,
           NEW w \in Write,
           NEW then \in {"posting", "candidates", "fixing", "superseding", "completed"},
           SendFresh(w, then),
           then \in {"posting", "candidates"} => left' \subseteq DOMAIN findings,
           then = "posting" => current' \in DOMAIN findings,
           then = "fixing" => left' \subseteq fixed,
           then = "superseding" => left' \subseteq Known
    PROVE  PlaceOK'
  <1>0. findings' = findings /\ fixed' = fixed
    BY DEF plan
  <1>1. CASE pc' = "sent" /\ request' = w /\ after' = then
    <2>1. At' = then
      BY <1>1 DEF At
    <2>. QED
      BY <1>0, <1>1, <2>1 DEF PlaceOK, Place, Loop, Early
  <1>2. CASE pc' = "stopped" /\ after' = after
    BY <1>2, RestTypes DEF PlaceOK
  <1>. QED
    BY <1>1, <1>2 DEF SendFresh

LEMMA BeginTypes == ASSUME TypeInv, BeginPublish PROVE TypeInv'
  <1>1. /\ ThreadsOK' /\ HostOK' /\ Known' = Known
        /\ threads' = threads /\ head' = head
    BY QuietHost DEF BeginPublish, host
  <1>2. PICK D \in SUBSET Lineage : findings' \in [D -> Comment]
    BY DEF BeginPublish
  <1>3. /\ history' = [n \in Known |-> [state    |-> threads[n].state,
                                        outdated |-> threads[n].outdated]]
        /\ fixed' \in SUBSET OpenLineages /\ base' \in 1..head
        /\ comments' = comments /\ pc' = "listing" /\ after' = after
        /\ available' = TRUE
    BY DEF BeginPublish, sending
  <1>4. \A n \in Known : threads[n] \in Thread
    BY DEF TypeInv, ThreadsOK, Known
  <1>5. Acquired' = Known
    BY <1>3 DEF Acquired
  <1>6. history' \in [Known -> [state : State, outdated : BOOLEAN]]
    <2>1. ASSUME NEW n \in Known
          PROVE  threads[n].state \in State /\ threads[n].outdated \in BOOLEAN
      BY <1>4 DEF Thread
    <2>. QED
      BY <2>1, <1>3
  <1>7. base' \in Heads
    BY <1>3, PublicationAssumption DEF TypeInv, HostOK, Heads
  <1>8. fixed' \subseteq Lineage
    BY <1>3 DEF OpenLineages
  <1>9. PlanOK'
    <2>1. DOMAIN findings' \subseteq Lineage /\ findings' \in [DOMAIN findings' -> Comment]
      BY <1>2
    <2>2. comments' \subseteq Known'
      BY <1>1, <1>3 DEF TypeInv, PlanOK
    <2>. QED
      BY <1>1, <1>5, <1>6, <1>7, <1>8, <2>1, <2>2 DEF PlanOK, Heads
  <1>10. PlaceOK'
    BY <1>3, RestTypes DEF TypeInv
  <1>11. FixedOpen'
    <2>. SUFFICES ASSUME NEW l \in fixed'
                  PROVE  \E n \in Known : threads'[n].lineage = l
                                          /\ history'[n].state = "open"
      BY <1>5 DEF FixedOpen
    <2>1. PICK n \in OpenOf(l) : TRUE
      BY <1>3 DEF OpenLineages
    <2>2. n \in Known /\ threads[n].lineage = l /\ threads[n].state = "open"
      BY <2>1 DEF OpenOf
    <2>. QED
      BY <1>1, <1>3, <2>2
  <1>. QED
    BY <1>1, <1>9, <1>10, <1>11 DEF TypeInv

LEMMA ListTypes == ASSUME TypeInv, ListComments PROVE TypeInv'
  <1>1. /\ ThreadsOK' /\ HostOK' /\ Known' = Known
        /\ threads' = threads
    BY QuietHost DEF ListComments, host
  <1>2. /\ comments' \subseteq Known /\ left' = DOMAIN findings /\ pc' = "candidates"
        /\ base' = base /\ findings' = findings /\ fixed' = fixed
        /\ history' = history /\ available' = available /\ after' = after
    BY DEF ListComments, sending
  <1>3. PlanOK' /\ FixedOpen'
    BY <1>1, <1>2 DEF TypeInv, PlanOK, FixedOpen, Acquired, Heads
  <1>4. PlaceOK'
    BY <1>2 DEF TypeInv, PlaceOK, Place, Loop, At, Early
  <1>. QED
    BY <1>1, <1>3, <1>4 DEF TypeInv

\* What every step for a member of left does to the types.
LEMMA TakeTypes ==
    ASSUME TypeInv, NEW x, Take(x), PlaceOK'
    PROVE  TypeInv'
  <1>1. UNCHANGED host /\ UNCHANGED plan
    BY DEF Take
  <1>2. threads' = threads
    BY <1>1 DEF host
  <1>. QED
    BY <1>1, <1>2, QuietHost, PlanStays DEF TypeInv

LEMMA CandidateTypes ==
    ASSUME TypeInv, NEW l \in Lineage, Candidate(l)
    PROVE  TypeInv'
  <1>1. /\ pc = "candidates" /\ Take(l) /\ left' = left \ {l} /\ l \in left
        /\ UNCHANGED host /\ UNCHANGED plan /\ UNCHANGED available
    BY DEF Candidate, ResolveOld, KeepOld, Post, Reopen, Keep, Ambiguous, Take
  <1>2. PlaceOK /\ PlanOK /\ ThreadsOK
    BY DEF TypeInv
  <1>3. left \subseteq DOMAIN findings
    BY <1>1, <1>2 DEF PlaceOK, At, Early
  <1>4. Known' = Known /\ Write' = Write
    BY <1>1, QuietHost
  <1>5. l \in DOMAIN findings /\ left' \subseteq DOMAIN findings
    BY <1>1, <1>3
  <1>6. CreateOf(l) \in Write
    BY <1>2, <1>5, CreateIsWrite
  <1>7. CASE ResolveOld(l)
    <2>1. SendFresh(SettleOf(Stands(l), "bot"), "posting") /\ current' = l /\ Reanchored(l)
      BY <1>7 DEF ResolveOld
    <2>2. Stands(l) \in Known
      BY <1>2, <2>1, StandsIn DEF Reanchored
    <2>3. SettleOf(Stands(l), "bot") \in Write
      BY <2>2, SettleIsWrite
    <2>4. PlaceOK'
      BY <1>1, <1>2, <1>4, <1>5, <2>1, <2>3, SendTypes
    <2>. QED
      BY <1>1, <2>4, TakeTypes
  <1>8. CASE Post(l)
    <2>1. SendFresh(CreateOf(l), "candidates")
      BY <1>8 DEF Post
    <2>2. PlaceOK'
      BY <1>1, <1>2, <1>4, <1>5, <1>6, <2>1, SendTypes
    <2>. QED
      BY <1>1, <2>2, TakeTypes
  <1>9. CASE Reopen(l)
    <2>1. SendFresh(SettleOf(First(ResolvedByBot(l)), "open"), "candidates")
          /\ ResolvedByBot(l) # {}
      BY <1>9 DEF Reopen
    <2>2. ResolvedByBot(l) \in SUBSET Known
      BY <1>2 DEF ResolvedByBot, ThreadsOf, PlanOK, Acquired
    <2>3. First(ResolvedByBot(l)) \in Known
      BY <1>2, <2>1, <2>2, FirstIsOne
    <2>4. SettleOf(First(ResolvedByBot(l)), "open") \in Write
      BY <2>3, SettleIsWrite
    <2>5. PlaceOK'
      BY <1>1, <1>2, <1>4, <1>5, <2>1, <2>4, SendTypes
    <2>. QED
      BY <1>1, <2>5, TakeTypes
  <1>10. CASE KeepOld(l) \/ Keep(l)
    <2>1. pc' = pc /\ after' = after
      BY <1>10 DEF KeepOld, Keep, sending
    <2>2. findings' = findings
      BY <1>1 DEF plan
    <2>3. PlaceOK'
      BY <1>1, <1>2, <1>5, <2>1, <2>2 DEF PlaceOK, Place, Loop, At, Early
    <2>. QED
      BY <1>1, <2>3, TakeTypes
  <1>11. CASE Ambiguous(l)
    <2>1. PlaceOK'
      BY <1>1, <1>2, <1>11, RestTypes DEF Ambiguous, sending, PlaceOK
    <2>. QED
      BY <1>1, <2>1, TakeTypes
  <1>. QED
    BY <1>7, <1>8, <1>9, <1>10, <1>11 DEF Candidate

LEMMA PostAnchoredTypes == ASSUME TypeInv, PostAnchored PROVE TypeInv'
  <1>1. /\ pc = "posting" /\ SendFresh(CreateOf(current), "candidates")
        /\ UNCHANGED host /\ UNCHANGED plan /\ UNCHANGED available
        /\ left' = left
    BY DEF PostAnchored
  <1>2. PlaceOK /\ PlanOK
    BY DEF TypeInv
  <1>3. left \subseteq DOMAIN findings /\ current \in DOMAIN findings
    BY <1>1, <1>2 DEF PlaceOK, At, Early
  <1>4. Known' = Known /\ Write' = Write /\ ThreadsOK' /\ HostOK'
    BY <1>1, QuietHost
  <1>5. CreateOf(current) \in Write
    BY <1>2, <1>3, CreateIsWrite
  <1>6. PlaceOK'
    BY <1>1, <1>2, <1>3, <1>4, <1>5, SendTypes
  <1>7. threads' = threads
    BY <1>1 DEF host
  <1>. QED
    BY <1>1, <1>4, <1>6, <1>7, PlanStays DEF TypeInv

\* The open thread of a lineage that is declared fixed.
LEMMA FixedThread ==
    ASSUME ThreadsOK, PlanOK, FixedOpen, NEW l \in fixed
    PROVE  LET open == {n \in ThreadsOf(l) : history[n].state = "open"}
           IN  First(open) \in open /\ First(open) \in Known
  <1>. DEFINE open == {n \in ThreadsOf(l) : history[n].state = "open"}
  <1>1. open \in SUBSET Known
    BY DEF ThreadsOf, PlanOK, Acquired
  <1>2. open # {}
    BY DEF FixedOpen, ThreadsOf, Acquired
  <1>. QED
    BY <1>1, <1>2, FirstIsOne

LEMMA FixTypes == ASSUME TypeInv, NEW l \in Lineage, Fix(l) PROVE TypeInv'
  <1>1. /\ pc = "fixing" /\ Take(l) /\ left' = left \ {l} /\ l \in left
        /\ UNCHANGED host /\ UNCHANGED plan /\ UNCHANGED available
    BY DEF Fix, Take
  <1>2. PlaceOK /\ PlanOK /\ ThreadsOK /\ FixedOpen
    BY DEF TypeInv
  <1>3. left \subseteq fixed
    BY <1>1, <1>2 DEF PlaceOK, At
  <1>4. Known' = Known /\ Write' = Write
    BY <1>1, QuietHost
  <1>. DEFINE open == {n \in ThreadsOf(l) : history[n].state = "open"}
  <1>5. First(open) \in Known
    BY <1>1, <1>2, <1>3, FixedThread
  <1>6. PlaceOK'
    <2>1. CASE SendFresh(SettleOf(First(open), "bot"), "fixing")
      <3>1. SettleOf(First(open), "bot") \in Write
        BY <1>5, SettleIsWrite
      <3>2. left' \subseteq fixed
        BY <1>1, <1>3
      <3>. QED
        BY <1>1, <1>2, <1>4, <2>1, <3>1, <3>2, SendTypes
    <2>2. CASE UNCHANGED <<pc, request, after>>
      <3>1. fixed' = fixed
        BY <1>1 DEF plan
      <3>. QED
        BY <1>1, <1>2, <1>3, <2>2, <3>1 DEF PlaceOK, At, Early
    <2>. QED
      BY <2>1, <2>2 DEF Fix
  <1>. QED
    BY <1>1, <1>6, TakeTypes

LEMMA SupersedeTypes == ASSUME TypeInv, NEW n \in Known, Supersede(n) PROVE TypeInv'
  <1>1. /\ pc = "superseding" /\ Take(n) /\ left' = left \ {n}
        /\ SendFresh([kind |-> "supersede", thread |-> n], "superseding")
        /\ UNCHANGED host /\ UNCHANGED plan /\ UNCHANGED available
    BY DEF Supersede, Take
  <1>2. PlaceOK /\ PlanOK
    BY DEF TypeInv
  <1>3. left' \subseteq Known
    BY <1>1, <1>2 DEF PlaceOK, At
  <1>4. Known' = Known /\ Write' = Write
    BY <1>1, QuietHost
  <1>5. [kind |-> "supersede", thread |-> n] \in Write
    BY DEF Write
  <1>6. PlaceOK'
    BY <1>1, <1>2, <1>3, <1>4, <1>5, SendTypes
  <1>. QED
    BY <1>1, <1>6, TakeTypes

LEMMA LoopDoneTypes == ASSUME TypeInv, LoopDone PROVE TypeInv'
  <1>1. /\ pc \in Loop
        /\ pc' = CASE pc = "candidates" -> "fixing"
                   [] pc = "fixing" -> "superseding"
                   [] pc = "superseding" -> "overview"
        /\ left' = CASE pc = "candidates" -> fixed
                     [] pc = "fixing" -> Orphans
                     [] pc = "superseding" -> {}
        /\ UNCHANGED host /\ UNCHANGED plan /\ available' = available
        /\ after' = after
    BY DEF LoopDone, sending
  <1>2. PlaceOK /\ PlanOK
    BY DEF TypeInv
  <1>3. Known' = Known /\ ThreadsOK' /\ HostOK' /\ threads' = threads /\ fixed' = fixed
    BY <1>1, QuietHost DEF host, plan
  <1>4. Orphans \subseteq Known
    BY <1>2 DEF Orphans, PlanOK
  <1>5. PlaceOK'
    BY <1>1, <1>2, <1>3, <1>4 DEF PlaceOK, Place, Loop, At, Early
  <1>. QED
    BY <1>1, <1>3, <1>5, PlanStays DEF TypeInv

LEMMA RestStepTypes ==
    ASSUME TypeInv, ListFails \/ OverviewKept \/ OverviewFails \/ SendOverview
    PROVE  TypeInv'
  <1>1. UNCHANGED host /\ UNCHANGED plan /\ UNCHANGED available /\ left' = left
    BY DEF ListFails, OverviewKept, OverviewFails, SendOverview
  <1>2. PlaceOK /\ PlanOK
    BY DEF TypeInv
  <1>3. Known' = Known /\ Write' = Write /\ ThreadsOK' /\ HostOK' /\ threads' = threads
    BY <1>1, QuietHost DEF host
  <1>4. PlaceOK'
    <2>1. CASE ListFails \/ OverviewKept \/ OverviewFails
      BY <2>1, <1>1, <1>2, RestTypes
         DEF ListFails, OverviewKept, OverviewFails, sending, PlaceOK
    <2>2. CASE SendOverview
      <3>1. [kind |-> "overview", head |-> base] \in Write
        BY <1>2 DEF Write, PlanOK
      <3>2. SendFresh([kind |-> "overview", head |-> base], "completed")
        BY <2>2 DEF SendOverview
      <3>. QED
        BY <1>1, <1>2, <1>3, <3>1, <3>2, SendTypes
    <2>. QED
      BY <2>1, <2>2
  <1>. QED
    BY <1>1, <1>3, <1>4, PlanStays DEF TypeInv

\* The host acts on the request, refuses it or puts it off.
LEMMA FateTypes ==
    ASSUME TypeInv, head' = head, human' = human, UNCHANGED nature,
           \/ UNCHANGED <<threads, overview, late>>
           \/ \E w \in Write : Apply(w) /\ late' \in {late, {}}
           \/ late' \subseteq Write /\ (\E w : late' = {w}) /\ UNCHANGED <<threads, overview>>
    PROVE  /\ ThreadsOK' /\ HostOK' /\ Known \subseteq Known'
           /\ \A n \in Known : threads'[n].lineage = threads[n].lineage
  <1>1. ThreadsOK /\ HostOK
    BY DEF TypeInv
  <1>2. granted' = granted /\ lingers' = lingers
    BY DEF nature
  <1>3. CASE \E w \in Write : Apply(w) /\ late' \in {late, {}}
    <2>1. PICK w \in Write : Apply(w) /\ late' \in {late, {}}
      BY <1>3
    <2>2. /\ ThreadsOK' /\ overview' \in 0..MaxHead /\ Known \subseteq Known'
          /\ \A n \in Known : threads'[n].lineage = threads[n].lineage
      BY <1>1, <2>1, WriteLands DEF HostOK
    <2>3. late' \subseteq Write'
      BY <1>1, <2>1, <2>2, WritesGrow DEF HostOK
    <2>4. Cardinality(late') <= 1 /\ IsFiniteSet(late')
      BY <1>1, <2>1, FS_EmptySet DEF HostOK
    <2>5. HostOK'
      BY <1>1, <1>2, <2>2, <2>3, <2>4 DEF HostOK, Heads
    <2>. QED
      BY <2>2, <2>5
  <1>4. CASE UNCHANGED <<threads, overview>>
    <2>1. Known' = Known /\ ThreadsOK' /\ Write' = Write
      BY <1>1, <1>4 DEF ThreadsOK, Known, Write, Heads
    <2>2. late' \subseteq Write
      BY <1>1 DEF HostOK
    <2>3. Cardinality(late') <= 1 /\ IsFiniteSet(late')
      <3>1. CASE late' = late
        BY <1>1, <3>1 DEF HostOK
      <3>2. CASE \E w : late' = {w}
        <4>1. PICK w : late' = {w}
          BY <3>2
        <4>2. Cardinality({w}) = 1 /\ IsFiniteSet({w})
          BY FS_Singleton
        <4>. QED
          BY <4>1, <4>2
      <3>3. CASE late' = {}
        BY <3>3, FS_EmptySet
      <3>. QED
        BY <3>1, <3>2, <3>3
    <2>4. HostOK'
      BY <1>1, <1>2, <1>4, <2>1, <2>2, <2>3 DEF HostOK, Heads
    <2>. QED
      BY <1>4, <2>1, <2>4
  <1>. QED
    BY <1>3, <1>4

LEMMA AnswerTypes ==
    ASSUME TypeInv, Answered \/ Denied \/ Unconfirmed
    PROVE  TypeInv'
  <1>1. /\ pc = "sent" /\ request \in Write
        /\ head' = head /\ human' = human /\ UNCHANGED nature
        /\ UNCHANGED plan /\ left' = left /\ after' = after
        /\ current' = current /\ request' = request
    BY DEF Answered, Denied, Unconfirmed, sending, TypeInv, PlaceOK
  <1>2. \/ UNCHANGED <<threads, overview, late>>
        \/ Apply(request) /\ late' = late
        \/ late' = {request} /\ UNCHANGED <<threads, overview>>
    BY DEF Answered, Denied, Unconfirmed, Landed, Refused, Delayed
  <1>3. /\ ThreadsOK' /\ HostOK' /\ Known \subseteq Known'
        /\ \A n \in Known : threads'[n].lineage = threads[n].lineage
    BY <1>1, <1>2, FateTypes
  <1>4. PlanOK' /\ FixedOpen'
    BY <1>1, <1>3, PlanStays
  <1>5. findings' = findings /\ fixed' = fixed
    BY <1>1 DEF plan
  <1>6. PlaceOK'
    <2>1. CASE Unconfirmed
      BY <2>1, <1>1, RestTypes DEF TypeInv, PlaceOK, Unconfirmed
    <2>2. CASE Answered \/ Denied
      <3>1. /\ pc' = after \/ (after = "posting" /\ pc' = "candidates")
            /\ available' \in BOOLEAN
        BY <2>2 DEF Answered, Denied, TypeInv, PlaceOK
      <3>. QED
        BY <1>1, <1>3, <1>5, <3>1 DEF TypeInv, PlaceOK, Place, Loop, At, Early
    <2>. QED
      BY <2>1, <2>2
  <1>. QED
    BY <1>3, <1>4, <1>6 DEF TypeInv

LEMMA CrashTypes == ASSUME TypeInv, Crash PROVE TypeInv'
  <1>1. Forget /\ head' = head /\ human' = human /\ UNCHANGED nature
    BY DEF Crash
  <1>2. pc = "sent" => request \in Write
    BY DEF TypeInv, PlaceOK
  <1>3. \/ UNCHANGED <<threads, overview, late>>
        \/ request \in Write /\ Apply(request) /\ late' = late
        \/ request \in Write /\ late' = {request} /\ UNCHANGED <<threads, overview>>
    BY <1>2 DEF Crash
  <1>4. ThreadsOK' /\ HostOK'
    BY <1>1, <1>3, FateTypes
  <1>. QED
    BY <1>1, <1>4, ForgetTypes DEF TypeInv

LEMMA EndJobTypes == ASSUME TypeInv, EndJob PROVE TypeInv'
BY ForgetTypes, QuietHost DEF EndJob, TypeInv

\* The host changes by itself.
LEMMA HostTypes ==
    ASSUME TypeInv, LandLate \/ Push \/ HumanAct
    PROVE  TypeInv'
  <1>1. /\ UNCHANGED plan /\ UNCHANGED sending /\ UNCHANGED nature
        /\ pc' = pc /\ available' = available /\ left' = left
    BY DEF LandLate, Push, HumanAct
  <1>2. ThreadsOK /\ HostOK /\ PlanOK /\ PlaceOK
    BY DEF TypeInv
  <1>3. /\ ThreadsOK' /\ HostOK' /\ Known \subseteq Known'
        /\ \A n \in Known : threads'[n].lineage = threads[n].lineage
    <2>1. CASE LandLate
      <3>1. PICK w \in late : Apply(w)
        BY <2>1 DEF LandLate
      <3>2. w \in Write /\ late' = {} /\ head' = head /\ human' = human
        BY <1>2, <2>1, <3>1 DEF HostOK, LandLate
      <3>. QED
        BY <1>1, <3>1, <3>2, FateTypes
    <2>2. CASE Push \/ HumanAct
      <3>1. ThreadsOK' /\ Altered
        BY <1>2, <2>2, PushAlters, HumanAlters
      <3>2. /\ overview' = overview /\ late' = late /\ head' \in Heads
            /\ human' \in Nat
        BY <1>2, <2>2, PublicationAssumption DEF Push, HumanAct, HostOK, Heads
      <3>3. Known' = Known /\ Write' = Write
        BY <3>1 DEF Altered, Write, Heads
      <3>4. HostOK'
        BY <1>1, <1>2, <3>2, <3>3 DEF HostOK, Heads, nature
      <3>. QED
        BY <3>1, <3>4 DEF Altered
    <2>. QED
      BY <2>1, <2>2
  <1>4. PlanOK' /\ FixedOpen'
    BY <1>1, <1>3, PlanStays
  <1>5. PlaceOK'
    <2>1. At' = At /\ Early' = Early
      BY <1>1 DEF At, Early, sending
    <2>2. findings' = findings /\ fixed' = fixed
      BY <1>1 DEF plan
    <2>3. pc = "sent" => request' \in Write'
      BY <1>1, <1>2, <1>3, WritesGrow DEF PlaceOK, sending
    <2>. QED
      BY <1>1, <1>2, <1>3, <2>1, <2>2, <2>3 DEF PlaceOK, sending
  <1>. QED
    BY <1>3, <1>4, <1>5 DEF TypeInv

LEMMA StepTypes == TypeInv /\ [Next]_vars => TypeInv'
  <1>. SUFFICES ASSUME TypeInv, [Next]_vars PROVE TypeInv'
    OBVIOUS
  <1>1. CASE UNCHANGED vars
    <2>1. UNCHANGED host /\ UNCHANGED plan /\ UNCHANGED sending
          /\ pc' = pc /\ available' = available /\ left' = left
      BY <1>1 DEF vars
    <2>2. ThreadsOK' /\ HostOK' /\ Known' = Known /\ Write' = Write /\ threads' = threads
      BY <2>1, QuietHost DEF host
    <2>3. PlanOK' /\ FixedOpen'
      BY <2>1, <2>2, PlanStays
    <2>4. PlaceOK'
      BY <2>1, <2>2 DEF TypeInv, PlaceOK, At, Early, sending, plan
    <2>. QED
      BY <2>2, <2>3, <2>4 DEF TypeInv
  <1>2. CASE Next
    BY <1>2, BeginTypes, ListTypes, CandidateTypes, FixTypes, PostAnchoredTypes,
       SupersedeTypes, LoopDoneTypes, RestStepTypes, AnswerTypes, CrashTypes,
       EndJobTypes, HostTypes DEF Next, Work, Environment
  <1>. QED
    BY <1>1, <1>2

-----------------------------------------------------------------------------
(* What was acquired is kept.                                              *)

\* A publication that stopped or ended owes nothing.
LEMMA RestPrompt ==
    ASSUME pc' \in {"idle", "stopped"}, late' = {}, Unduplicated', Unresolved'
    PROVE  Prompt'
BY DEF Prompt, Active

LEMMA QuietThreads ==
    ASSUME Prompt, UNCHANGED host
    PROVE  late' = {} /\ Unduplicated' /\ Unresolved' /\ Known' = Known
  <1>1. threads' = threads /\ late' = late /\ granted' = granted
    BY DEF host, nature
  <1>. QED
    BY <1>1 DEF Prompt, Unduplicated, Unresolved, Known

\* People act and pushes outdate: nothing else is done to threads nobody
\* touched, and no thread becomes one that the bot resolved.
Drifts ==
    /\ Altered /\ touched \subseteq touched'
    /\ \A n \in Known : n \notin touched' => threads'[n].state = threads[n].state
    /\ \A n \in Known : threads'[n].state = "bot" => threads[n].state = "bot"

LEMMA AlteredKeeps ==
    ASSUME TypeInv, Prompt, Altered, granted' = granted, late' = late,
           ~granted => \A n \in Known : threads'[n].state = "bot" => threads[n].state = "bot"
    PROVE  late' = {} /\ Unduplicated' /\ Unresolved'
BY DEF Prompt, Unduplicated, Unresolved, Altered

LEMMA AcquiredStays ==
    ASSUME TypeInv, AcquiredOK, UNCHANGED plan, granted' = granted,
           touched \subseteq touched', At' = "listing" \/ At # "listing",
           \A n \in Acquired :
              /\ threads'[n].lineage = threads[n].lineage
              /\ threads[n].outdated => threads'[n].outdated
              /\ threads[n].superseded => threads'[n].superseded
              /\ n \notin touched' /\ threads'[n].state = "human"
                    => threads[n].state = "human"
    PROVE  AcquiredOK'
  <1>1. history' = history /\ comments' = comments /\ Acquired' = Acquired
    BY DEF plan, Acquired
  <1>2. CommentsOK'
    BY <1>1 DEF AcquiredOK, CommentsOK
  <1>3. HumansOK'
    BY <1>1 DEF AcquiredOK, HumansOK
  <1>4. OutdatedOK'
    BY <1>1 DEF AcquiredOK, OutdatedOK
  <1>5. OneOpen'
    BY <1>1 DEF AcquiredOK, OneOpen
  <1>6. NoneByBot'
    BY <1>1 DEF AcquiredOK, NoneByBot
  <1>. QED
    BY <1>2, <1>3, <1>4, <1>5, <1>6 DEF AcquiredOK

LEMMA QuietAcquired ==
    ASSUME TypeInv, AcquiredOK, UNCHANGED host, UNCHANGED plan, touched' = touched,
           At # "listing"
    PROVE  AcquiredOK'
  <1>1. threads' = threads /\ granted' = granted
    BY DEF host, nature
  <1>. QED
    BY <1>1, AcquiredStays

LEMMA BeginPrompt == ASSUME TypeInv, Prompt, BeginPublish PROVE Prompt'
  <1>1. /\ UNCHANGED host /\ HistoryAcquired
        /\ history' = [n \in Known |-> [state    |-> threads[n].state,
                                        outdated |-> threads[n].outdated]]
        /\ pc' = "listing" /\ touched' = {}
    BY DEF BeginPublish
  <1>2. /\ late' = {} /\ Unduplicated' /\ Unresolved' /\ Known' = Known
        /\ threads' = threads /\ granted' = granted
    BY <1>1, QuietThreads DEF host, nature
  <1>3. /\ Acquired' = Known /\ At' = "listing"
        /\ \A n \in Known : history'[n].state = threads[n].state
                            /\ history'[n].outdated = threads[n].outdated
    BY <1>1 DEF Acquired, At
  <1>4. OneOpen'
    <2>. SUFFICES ASSUME NEW m \in Known, NEW n \in Known,
                         threads[m].lineage = threads[n].lineage,
                         threads[m].state = "open", threads[n].state = "open"
                  PROVE  m = n
      BY <1>2, <1>3 DEF OneOpen
    <2>. DEFINE l == threads[m].lineage
    <2>1. l \in Lineage
      <3>1. threads[m] \in Thread
        BY DEF TypeInv, ThreadsOK, Known
      <3>. QED
        BY <3>1 DEF Thread
    <2>2. m \in OpenOf(l) /\ n \in OpenOf(l)
      BY DEF OpenOf
    <2>3. IsFiniteSet(OpenOf(l))
      <3>1. Known = 1..Len(threads) /\ Len(threads) \in Nat
        BY DEF TypeInv, ThreadsOK, Known
      <3>2. IsFiniteSet(Known)
        BY <3>1, FS_Interval
      <3>3. OpenOf(l) \in SUBSET Known
        BY DEF OpenOf
      <3>. QED
        BY <3>2, <3>3, FS_Subset
    <2>4. Cardinality(OpenOf(l)) <= 1 /\ Cardinality(OpenOf(l)) \in Nat
      BY <1>1, <2>1, <2>3, FS_CardinalityType DEF HistoryAcquired
    <2>5. Cardinality(OpenOf(l)) # 0
      BY <2>2, <2>3, FS_EmptySet
    <2>6. Cardinality(OpenOf(l)) = 1
      BY <2>4, <2>5
    <2>7. PICK x : OpenOf(l) = {x}
      BY <2>3, <2>6, FS_Singleton
    <2>. QED
      BY <2>2, <2>7
  <1>5. AcquiredOK'
    <2>1. CommentsOK'
      BY <1>3 DEF CommentsOK
    <2>2. HumansOK' /\ OutdatedOK'
      BY <1>2, <1>3 DEF HumansOK, OutdatedOK
    <2>3. NoneByBot'
      BY <1>2, <1>3 DEF NoneByBot, Prompt, Unresolved
    <2>. QED
      BY <1>4, <2>1, <2>2, <2>3 DEF AcquiredOK
  <1>6. ProgressOK'
    <2>1. FlightOK' /\ PostingOK' /\ OverviewOK'
      BY <1>1, <1>3 DEF FlightOK, PostingOK, OverviewOK
    <2>2. OriginOK'
      BY <1>2, <1>3 DEF OriginOK
    <2>3. UnattendedOK'
      BY <1>2, <1>3 DEF UnattendedOK
    <2>4. ReportedOK' /\ FixedOK'
      BY <1>3 DEF ReportedOK, FixedOK, Attended, Disposed, Late, Early
    <2>. QED
      BY <2>1, <2>2, <2>3, <2>4 DEF ProgressOK
  <1>. QED
    BY <1>2, <1>5, <1>6 DEF Prompt

LEMMA ListPrompt == ASSUME TypeInv, Prompt, ListComments PROVE Prompt'
  <1>1. /\ UNCHANGED host /\ pc = "listing" /\ pc' = "candidates"
        /\ comments' = {n \in Known : ~threads[n].superseded}
        /\ left' = DOMAIN findings /\ touched' = touched
        /\ base' = base /\ findings' = findings /\ history' = history
    BY DEF ListComments, past
  <1>2. /\ late' = {} /\ Unduplicated' /\ Unresolved' /\ Known' = Known
        /\ threads' = threads /\ granted' = granted
    BY <1>1, QuietThreads DEF host, nature
  <1>3. /\ Acquired' = Acquired /\ At = "listing" /\ At' = "candidates" /\ Early' /\ ~Late'
        /\ AcquiredOK /\ ProgressOK
    BY <1>1 DEF Acquired, At, Prompt, Active, Early, Late
  <1>4. Known = Acquired
    BY <1>1, <1>3 DEF ProgressOK, OriginOK
  <1>5. AcquiredOK'
    <2>1. CommentsOK'
      BY <1>1, <1>2, <1>3, <1>4 DEF CommentsOK
    <2>2. HumansOK' /\ OutdatedOK' /\ OneOpen' /\ NoneByBot'
      BY <1>1, <1>2, <1>3 DEF AcquiredOK, HumansOK, OutdatedOK, OneOpen, NoneByBot
    <2>. QED
      BY <2>1, <2>2 DEF AcquiredOK
  <1>6. ProgressOK'
    <2>1. FlightOK' /\ PostingOK' /\ OverviewOK'
      BY <1>1, <1>3 DEF FlightOK, PostingOK, OverviewOK
    <2>2. OriginOK'
      BY <1>1, <1>2, <1>3, <1>4 DEF OriginOK
    <2>3. UnattendedOK'
      BY <1>1, <1>2, <1>3 DEF ProgressOK, UnattendedOK, Unattended
    <2>4. ReportedOK' /\ FixedOK'
      BY <1>1, <1>3 DEF ReportedOK, FixedOK, Attended, Disposed
    <2>. QED
      BY <2>1, <2>2, <2>3, <2>4 DEF ProgressOK
  <1>. QED
    BY <1>2, <1>5, <1>6 DEF Prompt

\* A drift keeps what is under way what it is.
LEMMA DriftPrompt ==
    ASSUME TypeInv, Prompt, Push \/ HumanAct
    PROVE  Prompt'
  <1>0. /\ UNCHANGED plan /\ UNCHANGED sending /\ granted' = granted /\ late' = late
        /\ overview' = overview
        /\ pc' = pc /\ available' = available /\ left' = left
    BY DEF Push, HumanAct, nature
  <1>1. Drifts
    <2>1. CASE Push
      <3>1. touched' = touched
        BY <2>1 DEF Push, past
      <3>. QED
        BY <2>1, <3>1, PushAlters DEF TypeInv, Drifts, StatesKept
    <2>2. CASE HumanAct
      BY <2>2, HumanAlters DEF TypeInv, Drifts
    <2>. QED
      BY <2>1, <2>2
  <1>2. late' = {} /\ Unduplicated' /\ Unresolved'
    BY <1>0, <1>1, AlteredKeeps DEF Drifts
  <1>. SUFFICES ASSUME Active PROVE AcquiredOK' /\ ProgressOK'
    BY <1>0, <1>2 DEF Prompt, Active
  <1>3. AcquiredOK /\ ProgressOK
    BY DEF Prompt
  <1>4. /\ base' = base /\ findings' = findings /\ fixed' = fixed /\ history' = history
        /\ Acquired' = Acquired /\ Acquired \subseteq Known
        /\ At' = At /\ Early' = Early /\ Late' = Late
        /\ request' = request /\ after' = after /\ current' = current
    BY <1>0 DEF plan, Acquired, TypeInv, PlanOK, At, Early, Late, sending
  <1>5. /\ Known' = Known
        /\ \A n \in Known : /\ threads'[n].lineage = threads[n].lineage
                            /\ threads'[n].line = threads[n].line
                            /\ threads'[n].body = threads[n].body
                            /\ threads'[n].head = threads[n].head
                            /\ threads[n].outdated => threads'[n].outdated
                            /\ threads[n].superseded => threads'[n].superseded
                            /\ n \notin touched' => threads'[n].state = threads[n].state
        /\ touched \subseteq touched'
    BY <1>1 DEF Drifts, Altered
  <1>6. AcquiredOK'
    <2>1. At' = "listing" \/ At # "listing"
      BY <1>4
    <2>. QED
      BY <1>0, <1>3, <1>4, <1>5, <2>1, AcquiredStays
  <1>7. \A l, n, s : CreateOf(l)' = CreateOf(l) /\ SettleOf(n, s)' = SettleOf(n, s)
                     /\ ThreadsOf(l)' = ThreadsOf(l)
    BY <1>4, <1>5 DEF CreateOf, SettleOf, ThreadsOf, Acquired
  <1>8. \A l : Unposted(l) => Unposted(l)'
    BY <1>4, <1>5 DEF Unposted
  <1>9. \A l : Threadless(l) => Threadless(l)'
    BY <1>0, <1>5 DEF Threadless
  <1>10. \A l : /\ Creating(l) => Creating(l)'
                /\ Reopening(l) => Reopening(l)'
    BY <1>0, <1>4, <1>7, <1>8, <1>9 DEF Creating, Reopening
  <1>11. \A l : OpenOf(l)' \subseteq OpenOf(l) \cup touched'
    BY <1>5 DEF OpenOf
  <1>12. \A l : Closing(l) => Closing(l)'
    <2>. SUFFICES ASSUME NEW l, Closing(l) PROVE Closing(l)'
      OBVIOUS
    <2>1. PICK n \in ThreadsOf(l) :
             /\ request = SettleOf(n, "bot")
             /\ l \notin DOMAIN findings => OpenOf(l) \subseteq touched \cup {n}
      BY DEF Closing
    <2>2. l \notin DOMAIN findings => OpenOf(l)' \subseteq touched' \cup {n}
      BY <2>1, <1>5, <1>11
    <2>. QED
      BY <1>0, <1>4, <1>7, <2>1, <2>2 DEF Closing
  <1>13. Resolving => Resolving'
    BY <1>0, <1>4, <1>5, <1>7 DEF Resolving
  <1>14. FlightOK'
    <2>1. Superseding => Superseding'
      BY <1>4, <1>5 DEF Superseding
    <2>2. Reporting => Reporting'
      BY <1>4 DEF Reporting
    <2>. QED
      BY <1>0, <1>3, <1>10, <1>12, <1>13, <2>1, <2>2 DEF ProgressOK, FlightOK
  <1>15. PostingOK'
    BY <1>0, <1>3, <1>4, <1>8 DEF ProgressOK, PostingOK
  <1>16. OriginOK'
    BY <1>0, <1>3, <1>4, <1>5 DEF ProgressOK, OriginOK
  <1>17. UnattendedOK'
    BY <1>0, <1>3, <1>4, <1>5 DEF ProgressOK, UnattendedOK, Unattended
  <1>18. ReportedOK'
    <2>. SUFFICES ASSUME NEW l \in DOMAIN findings \ fixed,
                         Attended(l)', Untouched(l)', available'
                  PROVE  OpenOf(l)' # {}
      BY <1>4 DEF ReportedOK
    <2>1. Attended(l)
      BY <1>0, <1>4, <1>10 DEF Attended
    <2>2. Untouched(l) /\ OpenOf(l)' = OpenOf(l)
      BY <1>5 DEF Untouched, OpenOf
    <2>. QED
      BY <1>0, <1>3, <2>1, <2>2 DEF ProgressOK, ReportedOK
  <1>19. FixedOK'
    <2>. SUFFICES ASSUME NEW l \in fixed \ DOMAIN findings, Disposed(l)', available'
                  PROVE  OpenOf(l)' \subseteq touched'
      BY <1>4 DEF FixedOK
    <2>1. Disposed(l)
      BY <1>0, <1>4, <1>12 DEF Disposed
    <2>2. OpenOf(l) \subseteq touched
      BY <1>0, <1>3, <2>1 DEF ProgressOK, FixedOK
    <2>. QED
      BY <1>5, <1>11, <2>2
  <1>20. OverviewOK'
    BY <1>0, <1>3, <1>4 DEF ProgressOK, OverviewOK
  <1>. QED
    BY <1>6, <1>14, <1>15, <1>16, <1>17, <1>18, <1>19, <1>20 DEF ProgressOK

-----------------------------------------------------------------------------
(* The steps of the controller.                                            *)

\* What a step leaves alone that neither begins nor ends the publication and
\* learns no answer.
Quiet ==
    /\ Active /\ At # "listing"
    /\ UNCHANGED host /\ UNCHANGED plan /\ touched' = touched
    /\ available' = available

LEMMA QuietPrompt ==
    ASSUME TypeInv, Prompt, Quiet, ProgressOK'
    PROVE  Prompt'
BY QuietThreads, QuietAcquired DEF Prompt, Quiet

\* The operators that depend on nothing a quiet step changes.
LEMMA QuietSame ==
    ASSUME Quiet
    PROVE  /\ threads' = threads /\ granted' = granted /\ overview' = overview
           /\ base' = base /\ findings' = findings /\ fixed' = fixed
           /\ history' = history /\ Acquired' = Acquired /\ Known' = Known
           /\ \A l : /\ CreateOf(l)' = CreateOf(l) /\ ThreadsOf(l)' = ThreadsOf(l)
                     /\ Unposted(l)' = Unposted(l) /\ Threadless(l)' = Threadless(l)
                     /\ OpenOf(l)' = OpenOf(l) /\ Untouched(l)' = Untouched(l)
           /\ \A n, s : SettleOf(n, s)' = SettleOf(n, s)
  <1>1. /\ threads' = threads /\ granted' = granted /\ overview' = overview
        /\ base' = base /\ findings' = findings /\ fixed' = fixed
        /\ history' = history /\ touched' = touched
    BY DEF Quiet, host, nature, plan
  <1>2. Acquired' = Acquired /\ Known' = Known
    BY <1>1 DEF Acquired, Known
  <1>3. \A l : CreateOf(l)' = CreateOf(l) /\ ThreadsOf(l)' = ThreadsOf(l)
    BY <1>1, <1>2 DEF CreateOf, ThreadsOf, Acquired
  <1>4. \A l : Unposted(l)' = Unposted(l) /\ Threadless(l)' = Threadless(l)
    BY <1>1, <1>2 DEF Unposted, Threadless
  <1>5. \A l : OpenOf(l)' = OpenOf(l) /\ Untouched(l)' = Untouched(l)
    BY <1>1, <1>2 DEF OpenOf, Untouched
  <1>6. \A n, s : SettleOf(n, s)' = SettleOf(n, s)
    BY DEF SettleOf
  <1>. QED
    BY <1>1, <1>2, <1>3, <1>4, <1>5, <1>6

\* The threads of a lineage still to come are those that were acquired.
LEMMA LeftAcquired ==
    ASSUME OriginOK, Early, NEW l \in left, NEW n \in Known, threads[n].lineage = l
    PROVE  n \in ThreadsOf(l)
BY DEF OriginOK, ThreadsOf, Acquired

LEMMA NotExact ==
    ASSUME TypeInv, AcquiredOK, ProgressOK, Early, NEW l \in left, Exact(l) = {}
    PROVE  Unposted(l)
  <1>. SUFFICES ASSUME NEW n \in Known, threads[n].lineage = l, ~threads[n].superseded,
                       threads[n].head = base, threads[n].line = findings[l].line,
                       threads[n].body = findings[l].body
                PROVE  FALSE
    BY DEF Unposted
  <1>1. n \in Acquired
    BY LeftAcquired DEF ProgressOK, ThreadsOf, Acquired
  <1>2. n \in comments
    BY <1>1 DEF AcquiredOK, CommentsOK, Early
  <1>3. n \in Exact(l)
    BY <1>2 DEF Exact
  <1>. QED
    BY <1>3

\* A candidate is taken: what follows if its write, if there is one, is for l.
LEMMA TakenProgress ==
    ASSUME TypeInv, Prompt, Quiet, pc = "candidates",
           NEW l \in left, left' = left \ {l},
           At' \in {"candidates", "posting"},
           FlightOK', PostingOK',
           \/ At' = "posting" /\ current' = l
           \/ pc' = "sent" /\ (Creating(l)' \/ Reopening(l)')
           \/ ~available
           \/ Untouched(l) => OpenOf(l) # {}
    PROVE  Prompt'
  <1>1. ProgressOK /\ At = "candidates" /\ Early /\ Early' /\ ~Late'
    BY DEF Prompt, Active, At, Early, Late
  <1>2. OriginOK'
    <2>1. pc' # "listing"
      BY DEF At
    <2>. QED
      BY <1>1, <2>1, QuietSame DEF ProgressOK, OriginOK
  <1>3. UnattendedOK'
    <2>1. \A k : Unattended(k)' => Unattended(k)
      BY <1>1, QuietSame DEF Unattended
    <2>. QED
      BY <1>1, <2>1, QuietSame DEF ProgressOK, UnattendedOK, Quiet
  <1>4. ReportedOK'
    <2>. SUFFICES ASSUME NEW k \in DOMAIN findings \ fixed,
                         Attended(k)', Untouched(k), available
                  PROVE  OpenOf(k) # {}
      BY QuietSame DEF ReportedOK, Quiet
    <2>1. CASE k = l
      BY <2>1, <1>1 DEF Attended
    <2>2. CASE k # l
      <3>1. k \notin left
        BY <2>2, <1>1 DEF Attended
      <3>2. Attended(k)
        BY <3>1, <1>1 DEF Attended, At
      <3>. QED
        BY <3>2, <1>1 DEF ProgressOK, ReportedOK
    <2>. QED
      BY <2>1, <2>2
  <1>5. FixedOK'
    BY DEF FixedOK, Disposed
  <1>6. OverviewOK'
    BY DEF OverviewOK, At
  <1>7. ProgressOK'
    BY <1>2, <1>3, <1>4, <1>5, <1>6 DEF ProgressOK
  <1>. QED
    BY <1>7, QuietPrompt

\* A step that stops the publication without the host.
LEMMA StopPrompt ==
    ASSUME TypeInv, Prompt, UNCHANGED host, pc' \in {"stopped", "idle"}
    PROVE  Prompt'
BY QuietThreads, RestPrompt

LEMMA ResolveOldPrompt ==
    ASSUME TypeInv, Prompt, NEW l, ResolveOld(l)
    PROVE  Prompt'
  <1>1. /\ pc = "candidates" /\ l \in left /\ left' = left \ {l} /\ UNCHANGED host
        /\ UNCHANGED plan /\ touched' = touched /\ available' = available /\ available
        /\ Reanchored(l) /\ history[Stands(l)].state = "open" /\ current' = l
        /\ SendFresh(SettleOf(Stands(l), "bot"), "posting")
    BY DEF ResolveOld, Take, past
  <1>2. CASE pc' = "stopped"
    BY <1>1, <1>2, StopPrompt
  <1>3. CASE pc' = "sent" /\ request' = SettleOf(Stands(l), "bot") /\ after' = "posting"
    <2>1. Quiet /\ AcquiredOK /\ ProgressOK /\ Early /\ At' = "posting"
      BY <1>1, <1>3 DEF Quiet, Active, At, Prompt, Early
    <2>2. Stands(l) \in ThreadsOf(l)
      BY <1>1, StandsIn DEF TypeInv, Reanchored
    <2>3. Stands(l) \in Acquired /\ threads[Stands(l)].lineage = l
      BY <2>2 DEF ThreadsOf, Acquired
    <2>4. threads[Stands(l)].outdated \/ threads[Stands(l)].line # findings[l].line
      BY <1>1, <2>1, <2>3 DEF Reanchored, NeedsAnchor, AcquiredOK, OutdatedOK
    <2>5. Resolving'
      BY <1>1, <1>3, <2>1, <2>3, <2>4, QuietSame DEF Resolving
    <2>6. Unposted(l)
      BY <1>1, <2>1, NotExact DEF Reanchored
    <2>7. FlightOK' /\ PostingOK'
      BY <1>1, <1>3, <2>1, <2>5, <2>6, QuietSame DEF FlightOK, PostingOK
    <2>. QED
      BY <1>1, <2>1, <2>7, TakenProgress
  <1>. QED
    BY <1>1, <1>2, <1>3 DEF SendFresh

LEMMA PostPrompt ==
    ASSUME TypeInv, Prompt, NEW l \in Lineage, Post(l)
    PROVE  Prompt'
  <1>1. /\ pc = "candidates" /\ l \in left /\ left' = left \ {l} /\ UNCHANGED host
        /\ UNCHANGED plan /\ touched' = touched /\ available' = available
        /\ IF Reanchored(l) THEN history[Stands(l)].state = "bot" ELSE Matches(l) = {}
        /\ SendFresh(CreateOf(l), "candidates")
    BY DEF Post, Take, past
  <1>2. CASE pc' = "stopped"
    BY <1>1, <1>2, StopPrompt
  <1>3. CASE pc' = "sent" /\ request' = CreateOf(l) /\ after' = "candidates"
    <2>1. Quiet /\ AcquiredOK /\ ProgressOK /\ Early /\ At' = "candidates"
      BY <1>1, <1>3 DEF Quiet, Active, At, Prompt, Early
    <2>2. l \in DOMAIN findings
      BY <1>1, <2>1 DEF TypeInv, PlaceOK
    <2>3. Exact(l) = {}
      BY <1>1 DEF Reanchored, Matches
    <2>4. Unposted(l)
      BY <1>1, <2>1, <2>3, NotExact
    <2>5. Threadless(l)
      <3>. SUFFICES ASSUME ~granted, NEW n \in Known, threads[n].lineage = l
                    PROVE  FALSE
        BY DEF Threadless
      <3>1. n \in ThreadsOf(l) /\ n \in Acquired
        BY <1>1, <2>1, LeftAcquired DEF ProgressOK, ThreadsOf, Acquired
      <3>2. CASE Reanchored(l)
        <4>1. Stands(l) \in Acquired
          BY <3>1, StandsIn DEF TypeInv, ThreadsOf, Acquired
        <4>. QED
          BY <1>1, <2>1, <3>2, <4>1 DEF AcquiredOK, NoneByBot
      <3>3. CASE ~Reanchored(l)
        <4>1. n \in Matches(l)
          BY <2>3, <3>1 DEF Matches, Listed, Acquired
        <4>. QED
          BY <1>1, <3>3, <4>1
      <3>. QED
        BY <3>2, <3>3
    <2>6. Creating(l)'
      BY <1>1, <1>3, <2>1, <2>2, <2>4, <2>5, QuietSame DEF Creating
    <2>7. FlightOK' /\ PostingOK'
      BY <1>3, <2>1, <2>6 DEF FlightOK, PostingOK
    <2>. QED
      BY <1>1, <1>3, <2>1, <2>6, <2>7, TakenProgress
  <1>. QED
    BY <1>1, <1>2, <1>3 DEF SendFresh

LEMMA ReopenPrompt ==
    ASSUME TypeInv, Prompt, NEW l \in Lineage, Reopen(l)
    PROVE  Prompt'
  <1>. DEFINE n == First(ResolvedByBot(l))
  <1>1. /\ pc = "candidates" /\ l \in left /\ left' = left \ {l} /\ UNCHANGED host
        /\ UNCHANGED plan /\ touched' = touched /\ available' = available
        /\ ResolvedByBot(l) # {}
        /\ SendFresh(SettleOf(n, "open"), "candidates")
    BY DEF Reopen, Take, past
  <1>2. CASE pc' = "stopped"
    BY <1>1, <1>2, StopPrompt
  <1>3. CASE pc' = "sent" /\ request' = SettleOf(n, "open") /\ after' = "candidates"
    <2>1. Quiet /\ Early /\ At' = "candidates"
      BY <1>1, <1>3 DEF Quiet, Active, At, Early
    <2>2. l \in DOMAIN findings
      BY <1>1, <2>1 DEF TypeInv, PlaceOK
    <2>3. ResolvedByBot(l) \in SUBSET Known
      BY DEF ResolvedByBot, ThreadsOf, TypeInv, PlanOK, Acquired
    <2>4. n \in ResolvedByBot(l)
      BY <1>1, <2>3, FirstIsOne DEF TypeInv
    <2>5. n \in ThreadsOf(l) /\ history[n].state = "bot"
      BY <2>4 DEF ResolvedByBot
    <2>. HIDE DEF n
    <2>6. Reopening(l)'
      BY <1>1, <1>3, <2>1, <2>2, <2>5, QuietSame DEF Reopening
    <2>7. FlightOK' /\ PostingOK'
      BY <1>3, <2>1, <2>6 DEF FlightOK, PostingOK
    <2>. QED
      BY <1>1, <1>3, <2>1, <2>6, <2>7, TakenProgress
  <1>. QED
    BY <1>1, <1>2, <1>3 DEF SendFresh

LEMMA KeepPrompt ==
    ASSUME TypeInv, Prompt, NEW l, KeepOld(l) \/ Keep(l)
    PROVE  Prompt'
  <1>1. /\ pc = "candidates" /\ l \in left /\ left' = left \ {l} /\ UNCHANGED host
        /\ UNCHANGED plan /\ touched' = touched /\ available' = available
        /\ pc' = pc
        /\ available => OneMatch(l) /\ ResolvedByBot(l) = {}
    BY DEF KeepOld, Keep, Take, past
  <1>2. Quiet /\ AcquiredOK /\ ProgressOK /\ Early /\ At = "candidates" /\ At' = "candidates"
    BY <1>1 DEF Quiet, Active, At, Prompt, Early
  <1>3. FlightOK' /\ PostingOK'
    BY <1>1, <1>2 DEF FlightOK, PostingOK
  <1>4. available /\ Untouched(l) => OpenOf(l) # {}
    <2>. SUFFICES ASSUME available, Untouched(l) PROVE OpenOf(l) # {}
      OBVIOUS
    <2>1. Matches(l) # {}
      BY <1>1, FS_EmptySet DEF OneMatch
    <2>2. PICK n \in Matches(l) : TRUE
      BY <2>1
    <2>3. n \in Known /\ threads[n].lineage = l
      <3>1. CASE Exact(l) # {}
        BY <2>2, <3>1 DEF Matches, Exact, TypeInv, PlanOK
      <3>2. CASE Exact(l) = {}
        BY <2>2, <3>2 DEF Matches, Listed, TypeInv, PlanOK, Acquired
      <3>. QED
        BY <3>1, <3>2
    <2>4. n \in ThreadsOf(l) /\ n \in Acquired
      BY <1>1, <1>2, <2>3, LeftAcquired DEF ProgressOK, ThreadsOf, Acquired
    <2>5. history[n].state # "bot"
      BY <1>1, <2>4 DEF ResolvedByBot
    <2>6. n \notin touched /\ threads[n].state # "human"
      BY <2>3 DEF Untouched
    <2>7. threads[n].state = history[n].state
      BY <1>1, <1>2, <2>3, <2>4, <2>6 DEF ProgressOK, UnattendedOK, Unattended
    <2>8. threads[n].state \in State
      <3>1. threads[n] \in Thread
        BY <2>3 DEF TypeInv, ThreadsOK, Known
      <3>. QED
        BY <3>1 DEF Thread
    <2>9. threads[n].state = "open"
      BY <2>5, <2>6, <2>7, <2>8 DEF State
    <2>. QED
      BY <2>3, <2>9 DEF OpenOf
  <1>. QED
    BY <1>1, <1>2, <1>3, <1>4, TakenProgress

LEMMA PostAnchoredPrompt ==
    ASSUME TypeInv, Prompt, PostAnchored
    PROVE  Prompt'
  <1>0. PICK l : l = current
    OBVIOUS
  <1>1. /\ pc = "posting" /\ left' = left /\ UNCHANGED host
        /\ UNCHANGED plan /\ touched' = touched /\ available' = available
        /\ SendFresh(CreateOf(l), "candidates")
    BY <1>0 DEF PostAnchored, past
  <1>2. CASE pc' = "stopped"
    BY <1>1, <1>2, StopPrompt
  <1>3. CASE pc' = "sent" /\ request' = CreateOf(l) /\ after' = "candidates"
    <2>1. Quiet /\ ProgressOK /\ Early /\ Early' /\ ~Late'
          /\ At = "posting" /\ At' = "candidates"
      BY <1>1, <1>3 DEF Quiet, Active, At, Prompt, Early, Late
    <2>2. /\ l \in DOMAIN findings \ left /\ l \in Lineage
          /\ Unposted(l) /\ Threadless(l)
      BY <1>0, <1>1, <2>1
         DEF TypeInv, PlaceOK, PlanOK, ProgressOK, PostingOK, Threadless
    <2>3. Creating(l)'
      BY <1>1, <1>3, <2>2, <2>1, QuietSame DEF Creating
    <2>4. FlightOK' /\ PostingOK'
      BY <1>3, <2>1, <2>2, <2>3 DEF FlightOK, PostingOK
    <2>5. OriginOK'
      BY <1>1, <1>3, <2>1, QuietSame DEF ProgressOK, OriginOK
    <2>6. UnattendedOK'
      BY <1>1, <2>1, QuietSame DEF ProgressOK, UnattendedOK, Unattended
    <2>7. ReportedOK'
      <3>1. \A k : Attended(k)' => Attended(k)
        BY <1>0, <1>1, <1>3, <2>1, <2>3 DEF Attended
      <3>. QED
        BY <1>1, <2>1, <3>1, QuietSame DEF ProgressOK, ReportedOK
    <2>8. FixedOK' /\ OverviewOK'
      BY <1>3, <2>1 DEF FixedOK, Disposed, OverviewOK
    <2>. QED
      BY <2>1, <2>4, <2>5, <2>6, <2>7, <2>8, QuietPrompt DEF ProgressOK
  <1>. QED
    BY <1>1, <1>2, <1>3 DEF SendFresh

LEMMA FixPrompt ==
    ASSUME TypeInv, Prompt, NEW l \in Lineage, Fix(l)
    PROVE  Prompt'
  <1>. DEFINE open == {n \in ThreadsOf(l) : history[n].state = "open"}
  <1>1. /\ pc = "fixing" /\ l \in left /\ left' = left \ {l} /\ UNCHANGED host
        /\ UNCHANGED plan /\ touched' = touched /\ available' = available
        /\ IF available THEN SendFresh(SettleOf(First(open), "bot"), "fixing")
           ELSE pc' = pc
    BY DEF Fix, Take, past
  <1>2. CASE pc' = "stopped"
    BY <1>1, <1>2, StopPrompt
  <1>3. CASE pc' # "stopped"
    <2>1. Quiet /\ AcquiredOK /\ ProgressOK /\ At = "fixing" /\ At' = "fixing"
          /\ ~Early /\ ~Early' /\ Late /\ Late'
      BY <1>1, <1>3 DEF Quiet, Active, At, Prompt, Early, Late, SendFresh
    <2>2. l \in fixed
      BY <1>1, <2>1 DEF TypeInv, PlaceOK
    <2>3. First(open) \in open
      BY <2>2, FixedThread DEF TypeInv
    <2>4. PICK n : n = First(open)
      OBVIOUS
    <2>5. n \in ThreadsOf(l) /\ history[n].state = "open"
      BY <2>3, <2>4
    <2>. HIDE DEF open
    <2>6. l \notin DOMAIN findings => OpenOf(l) \subseteq touched \cup {n}
      <3>. SUFFICES ASSUME l \notin DOMAIN findings, NEW m \in OpenOf(l), m \notin touched
                    PROVE  m = n
        OBVIOUS
      <3>1. m \in Known /\ threads[m].lineage = l /\ threads[m].state = "open"
        BY DEF OpenOf
      <3>2. m \in Acquired
        BY <2>1, <3>1 DEF ProgressOK, OriginOK
      <3>3. history[m].state = "open"
        BY <1>1, <2>1, <3>1, <3>2 DEF ProgressOK, UnattendedOK, Unattended
      <3>. QED
        BY <2>1, <2>5, <3>1, <3>2, <3>3 DEF AcquiredOK, OneOpen, ThreadsOf, Acquired
    <2>7. available => Closing(l)' /\ pc' = "sent"
      <3>1. available => pc' = "sent" /\ request' = SettleOf(n, "bot") /\ after' = "fixing"
        BY <1>1, <1>3, <2>4 DEF SendFresh
      <3>. QED
        BY <1>1, <2>1, <2>2, <2>5, <2>6, <3>1, QuietSame DEF Closing, Quiet
    <2>8. FlightOK' /\ PostingOK'
      BY <1>1, <2>1, <2>7 DEF FlightOK, PostingOK
    <2>9. OriginOK'
      BY <1>1, <2>1, QuietSame DEF ProgressOK, OriginOK, At
    <2>10. UnattendedOK'
      BY <1>1, <2>1, QuietSame DEF ProgressOK, UnattendedOK, Unattended, Quiet
    <2>11. ReportedOK'
      BY <2>1, QuietSame DEF ProgressOK, ReportedOK, Attended, Quiet
    <2>12. FixedOK'
      <3>1. \A k : Disposed(k)' /\ available => Disposed(k)
        BY <1>1, <2>1, <2>7 DEF Disposed
      <3>. QED
        BY <2>1, <3>1, QuietSame DEF ProgressOK, FixedOK, Quiet
    <2>13. OverviewOK'
      BY <2>1 DEF OverviewOK, At
    <2>. QED
      BY <2>1, <2>8, <2>9, <2>10, <2>11, <2>12, <2>13, QuietPrompt DEF ProgressOK
  <1>. QED
    BY <1>2, <1>3

\* From a loop that is done to the next, and to the overview.
LEMMA LoopDonePrompt ==
    ASSUME TypeInv, Prompt, LoopDone
    PROVE  Prompt'
  <1>1. /\ pc \in Loop /\ left = {} /\ UNCHANGED host
        /\ pc' = CASE pc = "candidates" -> "fixing"
                   [] pc = "fixing" -> "superseding"
                   [] pc = "superseding" -> "overview"
        /\ left' = CASE pc = "candidates" -> fixed
                     [] pc = "fixing" -> Orphans
                     [] pc = "superseding" -> {}
        /\ UNCHANGED plan /\ touched' = touched /\ available' = available
    BY DEF LoopDone, past
  <1>2. Quiet /\ ProgressOK /\ At = pc /\ At' = pc'
        /\ ~Early' /\ Late' /\ pc \in {"candidates", "fixing", "superseding"}
        /\ pc' \in {"fixing", "superseding", "overview"}
    BY <1>1 DEF Quiet, Active, At, Prompt, Early, Late, Loop
  <1>3. FlightOK' /\ PostingOK' /\ OverviewOK'
    BY <1>2 DEF FlightOK, PostingOK, OverviewOK
  <1>4. OriginOK'
    BY <1>2, QuietSame DEF ProgressOK, OriginOK
  <1>5. UnattendedOK'
    <2>1. \A k : Unattended(k)' => Unattended(k)
      BY <1>1, <1>2, QuietSame DEF Unattended, Early
    <2>. QED
      BY <1>2, <2>1, QuietSame DEF ProgressOK, UnattendedOK, Quiet
  <1>6. ReportedOK'
    <2>1. \A k : Attended(k)
      BY <1>1, <1>2 DEF Attended, Early, Late
    <2>. QED
      BY <1>2, <2>1, QuietSame DEF ProgressOK, ReportedOK, Quiet
  <1>7. FixedOK'
    <2>1. \A k \in fixed : Disposed(k)' => Disposed(k)
      BY <1>1, <1>2 DEF Disposed
    <2>. QED
      BY <1>2, <2>1, QuietSame DEF ProgressOK, FixedOK, Quiet
  <1>. QED
    BY <1>2, <1>3, <1>4, <1>5, <1>6, <1>7, QuietPrompt DEF ProgressOK

LEMMA LastPrompt ==
    ASSUME TypeInv, Prompt,
           SendOverview \/ OverviewKept \/ \E n \in Known : Supersede(n)
    PROVE  Prompt'
  <1>1. /\ UNCHANGED host /\ UNCHANGED plan /\ touched' = touched /\ available' = available
        /\ pc \in {"overview", "superseding"}
    BY DEF SendOverview, OverviewKept, Supersede, Take, past
  <1>2. CASE pc' = "stopped"
    BY <1>1, <1>2, StopPrompt
  <1>3. CASE pc' # "stopped"
    <2>1. /\ Quiet /\ ProgressOK /\ ~Early' /\ Late /\ Late' /\ pc' \in {"sent", "completed"}
          /\ At \in {"superseding", "overview"}
          /\ At' \in {"superseding", "completed"}
      BY <1>1, <1>3
         DEF Quiet, Active, At, Prompt, Early, Late, SendFresh, SendOverview,
             OverviewKept, Supersede
    <2>2. FlightOK'
      <3>. SUFFICES ASSUME pc' = "sent" PROVE Superseding' \/ Reporting'
        BY DEF FlightOK
      <3>1. CASE SendOverview
        <4>1. /\ request' = [kind |-> "overview", head |-> base]
              /\ after' = "completed" /\ base' = base
          BY <1>3, <3>1, <2>1, QuietSame DEF SendOverview, SendFresh
        <4>. QED
          BY <4>1 DEF Reporting
      <3>2. CASE OverviewKept
        BY <3>2 DEF OverviewKept
      <3>3. CASE \E n \in Known : Supersede(n)
        <4>1. PICK n \in Known : Supersede(n)
          BY <3>3
        <4>2. /\ request' = [kind |-> "supersede", thread |-> n]
              /\ after' = "superseding" /\ Known' = Known
          BY <1>3, <4>1, <2>1, QuietSame DEF Supersede, SendFresh
        <4>. QED
          BY <4>1, <4>2 DEF Superseding
      <3>. QED
        BY <3>1, <3>2, <3>3
    <2>3. PostingOK'
      BY <2>1 DEF PostingOK
    <2>4. OriginOK'
      BY <2>1, QuietSame DEF ProgressOK, OriginOK
    <2>5. UnattendedOK'
      BY <2>1 DEF UnattendedOK, Unattended
    <2>6. ReportedOK'
      BY <2>1, QuietSame DEF ProgressOK, ReportedOK, Attended, Quiet
    <2>7. FixedOK'
      BY <2>1, QuietSame DEF ProgressOK, FixedOK, Disposed, Quiet
    <2>8. OverviewOK'
      BY <2>1, QuietSame DEF OverviewOK, SendOverview, SendFresh, OverviewKept, Supersede
    <2>. QED
      BY <2>1, <2>2, <2>3, <2>4, <2>5, <2>6, <2>7, <2>8, QuietPrompt DEF ProgressOK
  <1>. QED
    BY <1>2, <1>3

-----------------------------------------------------------------------------
(* Answers.                                                                *)

\* What the write under way does to what must hold at any time.
LEMMA LandsKeeps ==
    ASSUME TypeInv, Prompt, pc = "sent", Permitted, Apply(request),
           granted' = granted
    PROVE  Unduplicated' /\ Unresolved'
  <1>1. FlightOK /\ ThreadsOK
    BY DEF Prompt, Active, ProgressOK, TypeInv
  <1>2. ASSUME NEW n \in Acquired, NEW s \in {"open", "bot"}, request = SettleOf(n, s)
        PROVE  Unduplicated' /\ Unresolved'
    <2>1. granted
      BY <1>2 DEF Permitted, SettleOf
    <2>2. n \in Known
      BY DEF TypeInv, PlanOK
    <2>3. Altered
      BY <1>1, <1>2, <2>2, SettleLands
    <2>. QED
      BY <2>1, <2>3 DEF Altered, Prompt, Unduplicated, Unresolved
  <1>3. CASE Resolving \/ \E l : Reopening(l) \/ Closing(l)
    <2>1. \E n \in Acquired, s \in {"open", "bot"} : request = SettleOf(n, s)
      BY <1>3 DEF Resolving, Reopening, Closing, ThreadsOf, Acquired
    <2>. QED
      BY <1>2, <2>1
  <1>4. ASSUME NEW l, Creating(l) PROVE Unduplicated' /\ Unresolved'
    <2>1. request = CreateOf(l) /\ Unposted(l) /\ Threadless(l)
      BY <1>4 DEF Creating
    <2>2. request \in Write /\ request.kind = "create"
      BY <2>1 DEF TypeInv, PlaceOK, CreateOf
    <2>3. PICK m : Appended(request, m)
      BY <1>1, <2>2, CreateLands
    <2>4. /\ Known' = Known \cup {m} /\ m \notin Known
          /\ \A n \in Known : threads'[n] = threads[n]
          /\ threads'[m].lineage = l /\ threads'[m].line = findings[l].line
          /\ threads'[m].body = findings[l].body /\ threads'[m].head = base
          /\ threads'[m].state = "open"
      BY <2>1, <2>3 DEF Appended, CreateOf
    <2>5. Unduplicated'
      BY <2>1, <2>4 DEF Prompt, Unduplicated, Unposted
    <2>6. Unresolved'
      BY <2>1, <2>4 DEF Prompt, Unresolved, Threadless
    <2>. QED
      BY <2>5, <2>6
  <1>5. CASE Superseding
    <2>1. PICK n \in Known : request = [kind |-> "supersede", thread |-> n]
      BY <1>5 DEF Superseding
    <2>2. Altered /\ StatesKept
      BY <1>1, <2>1, SupersedeLands
    <2>. QED
      BY <2>2 DEF Altered, StatesKept, Prompt, Unduplicated, Unresolved
  <1>6. CASE Reporting
    <2>1. threads' = threads
      BY <1>6, ReportLands DEF Reporting
    <2>. QED
      BY <2>1 DEF Known, Prompt, Unduplicated, Unresolved
  <1>. QED
    BY <1>1, <1>3, <1>4, <1>5, <1>6 DEF FlightOK

\* The publication ends with the write under way done or not.
LEMMA EndPrompt ==
    ASSUME TypeInv, ~lingers, Prompt, Unconfirmed \/ Crash
    PROVE  Prompt'
  <1>1. /\ pc' \in {"stopped", "idle"} /\ UNCHANGED nature /\ late' = late
        /\ \/ UNCHANGED <<threads, overview>>
           \/ pc = "sent" /\ Permitted /\ Apply(request)
    BY DEF Unconfirmed, Crash, Forget, Landed, Refused, Delayed
  <1>2. granted' = granted /\ late' = {}
    BY <1>1 DEF nature, Prompt
  <1>3. CASE UNCHANGED <<threads, overview>>
    <2>1. Unduplicated' /\ Unresolved'
      BY <1>2, <1>3 DEF Known, Prompt, Unduplicated, Unresolved
    <2>. QED
      BY <1>1, <1>2, <2>1, RestPrompt
  <1>4. CASE pc = "sent" /\ Permitted /\ Apply(request)
    BY <1>1, <1>2, <1>4, LandsKeeps, RestPrompt
  <1>. QED
    BY <1>1, <1>3, <1>4

LEMMA DeniedPrompt ==
    ASSUME TypeInv, Prompt, Denied
    PROVE  Prompt'
  <1>1. /\ pc = "sent" /\ ~Permitted /\ UNCHANGED host /\ UNCHANGED plan /\ left' = left
        /\ touched' = touched /\ ~available' /\ after' = after
        /\ pc' = IF after = "posting" THEN "candidates" ELSE after
    BY DEF Denied, Refused, host, sending
  <1>2. /\ late' = {} /\ Unduplicated' /\ Unresolved' /\ Known' = Known
        /\ threads' = threads
    BY <1>1, QuietThreads DEF Prompt, host
  <1>3. AcquiredOK /\ ProgressOK
    BY <1>1 DEF Prompt, Active
  <1>4. after \in {"posting", "candidates", "fixing", "superseding", "completed"}
        /\ after # "completed"
    <2>1. request.kind = "settle"
      BY <1>1 DEF Permitted
    <2>. QED
      BY <1>1, <1>3, <2>1
         DEF ProgressOK, FlightOK, Resolving, Creating, Reopening, Closing,
             Superseding, Reporting
  <1>5. /\ At = after /\ At' = pc' /\ pc' \in {"candidates", "fixing", "superseding"}
        /\ Early' = Early /\ findings' = findings /\ history' = history
        /\ Acquired' = Acquired
    BY <1>1, <1>4 DEF At, Early, plan, Acquired
  <1>6. AcquiredOK'
    <2>1. At # "listing"
      BY <1>4, <1>5
    <2>. QED
      BY <1>1, <1>3, <2>1, QuietAcquired
  <1>7. FlightOK' /\ PostingOK' /\ OverviewOK'
    BY <1>5 DEF FlightOK, PostingOK, OverviewOK
  <1>8. OriginOK'
    BY <1>1, <1>2, <1>3, <1>5 DEF ProgressOK, OriginOK
  <1>9. UnattendedOK'
    <2>1. \A l : Unattended(l)' => Unattended(l)
      BY <1>1, <1>4, <1>5 DEF Unattended
    <2>. QED
      BY <1>1, <1>2, <1>3, <1>5, <2>1 DEF ProgressOK, UnattendedOK
  <1>10. ReportedOK' /\ FixedOK'
    BY <1>1 DEF ReportedOK, FixedOK
  <1>. QED
    BY <1>2, <1>6, <1>7, <1>8, <1>9, <1>10 DEF Prompt, ProgressOK

\* The write landed, and whatever it was is done.
LEMMA AnsweredPrompt ==
    ASSUME TypeInv, Prompt, Answered
    PROVE  Prompt'
  <1>1. /\ pc = "sent" /\ Permitted /\ Apply(request) /\ UNCHANGED nature
        /\ UNCHANGED plan /\ left' = left /\ late' = late
        /\ touched' = touched /\ available' = available /\ after' = after
        /\ current' = current /\ pc' = after
    BY DEF Answered, Landed, sending
  <1>2. AcquiredOK /\ ProgressOK /\ FlightOK /\ ThreadsOK /\ late' = {}
    BY <1>1 DEF Prompt, Active, ProgressOK, TypeInv
  <1>3. Unduplicated' /\ Unresolved'
    BY <1>1, LandsKeeps DEF nature
  <1>4. after \in {"posting", "candidates", "fixing", "superseding", "completed"}
    BY <1>1, <1>2
       DEF FlightOK, Resolving, Creating, Reopening, Closing, Superseding, Reporting
  <1>5. /\ At = after /\ At' = after /\ Early' = Early /\ Late' = Late /\ At # "listing"
        /\ base' = base /\ findings' = findings /\ fixed' = fixed /\ history' = history
        /\ Acquired' = Acquired /\ Acquired \subseteq Known /\ granted' = granted
    BY <1>1, <1>4 DEF At, Early, Late, plan, Acquired, TypeInv, PlanOK, nature
  <1>6. FlightOK'
    BY <1>1, <1>4 DEF FlightOK
  <1>7. \A l : Unattended(l)' = Unattended(l)
    BY <1>1, <1>5 DEF Unattended
  <1>8. \A l : Attended(l)' => \/ Attended(l)
                               \/ Creating(l) \/ Reopening(l)
    BY <1>1, <1>5 DEF Attended
  <1>9. \A l : Disposed(l)' => Disposed(l) \/ Closing(l)
    BY <1>1, <1>5 DEF Disposed
  <1>10. ASSUME NEW n \in Acquired, NEW s \in {"open", "bot"}, request = SettleOf(n, s),
                Resolving \/ \E l \in Lineage : Reopening(l) \/ Closing(l)
         PROVE  AcquiredOK' /\ ProgressOK'
    <2>0. granted
      BY <1>1, <1>10 DEF Permitted, SettleOf
    <2>1. n \in Known
      BY <1>5
    <2>2. overview' = overview /\ Altered /\ Changed(n, s)
      BY <1>1, <1>2, <1>10, <2>1, SettleLands
    <2>3. /\ Known' = Known
          /\ \A m \in Known : /\ threads'[m].lineage = threads[m].lineage
                              /\ threads'[m].line = threads[m].line
                              /\ threads'[m].body = threads[m].body
                              /\ threads'[m].head = threads[m].head
                              /\ threads[m].outdated => threads'[m].outdated
                              /\ threads[m].superseded => threads'[m].superseded
                              /\ m # n => threads'[m].state = threads[m].state
          /\ threads'[n].state = IF s = "bot" /\ threads[n].state = "human"
                                 THEN "human" ELSE s
      BY <2>1, <2>2 DEF Altered, Changed
    <2>4. AcquiredOK'
      BY <1>1, <1>2, <1>5, <2>3, AcquiredStays
    <2>5. PICK k : k = threads[n].lineage
      OBVIOUS
    <2>6. \A m, v : SettleOf(m, v) = request => m = n /\ v = s
      BY <1>10 DEF SettleOf
    <2>7. \A l : ~Creating(l)
      BY <1>10 DEF Creating, SettleOf, CreateOf
    <2>8. \A l : (Reopening(l) \/ Closing(l)) => l = k
      BY <2>5, <2>6 DEF Reopening, Closing, ThreadsOf
    <2>9. /\ after = "posting" => k = current /\ current \in DOMAIN findings /\ s = "bot"
          /\ after = "candidates" => k \in DOMAIN findings \ left /\ s = "open"
          /\ after = "fixing" => k \in fixed \ left /\ s = "bot" /\ Closing(k)
          /\ after \in {"posting", "candidates", "fixing"}
      BY <1>1, <1>5, <1>10, <2>5, <2>6, <2>8
         DEF Resolving, Reopening, Closing, TypeInv, PlaceOK
    <2>10. PostingOK'
      <3>1. after = "posting" => current \notin left /\ Unposted(current)
        BY <1>2, <1>5 DEF ProgressOK, PostingOK
      <3>2. PICK c : c = current
        OBVIOUS
      <3>3. Unposted(c) => Unposted(c)'
        BY <1>5, <2>3 DEF Unposted
      <3>4. Unposted(current)' = Unposted(c)'
        BY <1>1, <3>2
      <3>. QED
        BY <1>1, <1>5, <2>0, <3>1, <3>2, <3>3, <3>4 DEF PostingOK
    <2>11. OriginOK'
      BY <1>1, <1>2, <1>4, <1>5, <2>3 DEF ProgressOK, OriginOK
    <2>12. UnattendedOK'
      <3>1. ~Unattended(k)
        BY <1>2, <1>5, <2>9 DEF Unattended, Early, ProgressOK, PostingOK
      <3>. QED
        BY <1>1, <1>2, <1>5, <1>7, <2>3, <2>5, <3>1 DEF ProgressOK, UnattendedOK
    <2>13. \A l : l # k => OpenOf(l)' = OpenOf(l) /\ (Untouched(l)' => Untouched(l))
      BY <1>1, <2>3, <2>5 DEF OpenOf, Untouched
    <2>14. ReportedOK'
      <3>. SUFFICES ASSUME NEW l \in DOMAIN findings \ fixed,
                           Attended(l)', Untouched(l)', available
                    PROVE  OpenOf(l)' # {}
        BY <1>1, <1>5 DEF ReportedOK
      <3>1. CASE l = k
        <4>1. after = "candidates"
          BY <1>1, <1>5, <2>9, <3>1 DEF Attended, Late
        <4>2. n \in OpenOf(l)'
          BY <2>1, <2>3, <2>5, <2>9, <3>1, <4>1 DEF OpenOf
        <4>. QED
          BY <4>2
      <3>2. CASE l # k
        <4>1. Attended(l)
          BY <1>8, <2>7, <2>8, <3>2
        <4>. QED
          BY <1>2, <2>13, <3>2, <4>1 DEF ProgressOK, ReportedOK
      <3>. QED
        BY <3>1, <3>2
    <2>15. FixedOK'
      <3>. SUFFICES ASSUME NEW l \in fixed \ DOMAIN findings, Disposed(l)', available
                    PROVE  OpenOf(l)' \subseteq touched
        BY <1>1, <1>5 DEF FixedOK
      <3>1. CASE l = k
        <4>1. Closing(k) /\ s = "bot"
          BY <1>1, <1>5, <2>9, <3>1 DEF Disposed
        <4>2. OpenOf(l) \subseteq touched \cup {n}
          BY <2>6, <3>1, <4>1 DEF Closing
        <4>3. OpenOf(l)' \subseteq OpenOf(l) \ {n}
          BY <2>1, <2>3, <4>1 DEF OpenOf
        <4>. QED
          BY <4>2, <4>3
      <3>2. CASE l # k
        <4>1. Disposed(l)
          BY <1>9, <2>8, <3>2
        <4>. QED
          BY <1>2, <2>13, <3>2, <4>1 DEF ProgressOK, FixedOK
      <3>. QED
        BY <3>1, <3>2
    <2>16. OverviewOK'
      BY <1>1, <2>9 DEF OverviewOK
    <2>. QED
      BY <1>6, <2>4, <2>10, <2>11, <2>12, <2>14, <2>15, <2>16 DEF ProgressOK
  <1>11. ASSUME NEW l \in Lineage, Creating(l)
         PROVE  AcquiredOK' /\ ProgressOK'
    <2>1. request = CreateOf(l) /\ after = "candidates" /\ l \in DOMAIN findings \ left
      BY <1>11 DEF Creating
    <2>2. request \in Write /\ request.kind = "create" /\ request.lineage = l
      BY <1>1, <2>1 DEF TypeInv, PlaceOK, CreateOf
    <2>3. PICK m : Appended(request, m)
      BY <1>1, <1>2, <2>2, CreateLands
    <2>4. /\ Known' = Known \cup {m} /\ m \notin Known
          /\ \A n \in Known : threads'[n] = threads[n]
          /\ threads'[m].lineage = l /\ threads'[m].state = "open"
      BY <2>2, <2>3 DEF Appended
    <2>5. AcquiredOK'
      BY <1>1, <1>2, <1>5, <2>4, AcquiredStays
    <2>6. \A k : (Creating(k) \/ Reopening(k)) => k = l
      BY <2>1 DEF Creating, Reopening, CreateOf, SettleOf
    <2>7. PostingOK' /\ OverviewOK'
      BY <1>1, <1>5, <2>1 DEF PostingOK, OverviewOK
    <2>8. OriginOK'
      BY <1>1, <1>2, <1>5, <2>1, <2>4 DEF ProgressOK, OriginOK
    <2>9. UnattendedOK'
      BY <1>1, <1>2, <1>5, <1>7, <2>4 DEF ProgressOK, UnattendedOK
    <2>10. ReportedOK'
      <3>. SUFFICES ASSUME NEW k \in DOMAIN findings \ fixed,
                           Attended(k)', Untouched(k)', available
                    PROVE  OpenOf(k)' # {}
        BY <1>1, <1>5 DEF ReportedOK
      <3>1. CASE k = l
        BY <2>4, <3>1 DEF OpenOf
      <3>2. CASE k # l
        <4>1. Attended(k)
          BY <1>8, <2>6, <3>2
        <4>2. Untouched(k) /\ OpenOf(k) \subseteq OpenOf(k)'
          BY <1>1, <2>4 DEF Untouched, OpenOf
        <4>. QED
          BY <1>2, <4>1, <4>2 DEF ProgressOK, ReportedOK
      <3>. QED
        BY <3>1, <3>2
    <2>11. FixedOK'
      BY <1>5, <2>1 DEF FixedOK, Disposed
    <2>. QED
      BY <1>6, <2>5, <2>7, <2>8, <2>9, <2>10, <2>11 DEF ProgressOK
  <1>12. ASSUME Superseding \/ Reporting
         PROVE  AcquiredOK' /\ ProgressOK'
    <2>1. after \in {"superseding", "completed"}
      BY <1>12 DEF Superseding, Reporting
    <2>2. Altered /\ StatesKept
      <3>1. CASE Superseding
        BY <1>1, <1>2, <3>1, SupersedeLands DEF Superseding
      <3>2. CASE Reporting
        <4>1. threads' = threads
          BY <1>1, <3>2, ReportLands DEF Reporting
        <4>. QED
          BY <4>1 DEF Altered, StatesKept, Known
      <3>. QED
        BY <1>12, <3>1, <3>2
    <2>3. /\ Known' = Known
          /\ \A m \in Known : /\ threads'[m].lineage = threads[m].lineage
                              /\ threads[m].outdated => threads'[m].outdated
                              /\ threads[m].superseded => threads'[m].superseded
                              /\ threads'[m].state = threads[m].state
      BY <2>2 DEF Altered, StatesKept
    <2>4. AcquiredOK'
      BY <1>1, <1>2, <1>5, <2>3, AcquiredStays
    <2>5. PostingOK'
      BY <1>1, <1>5, <2>1 DEF PostingOK
    <2>6. OriginOK'
      BY <1>1, <1>2, <1>5, <2>1, <2>3 DEF ProgressOK, OriginOK
    <2>7. UnattendedOK'
      BY <1>1, <1>2, <1>5, <1>7, <2>3 DEF ProgressOK, UnattendedOK
    <2>8. \A l : OpenOf(l)' = OpenOf(l) /\ Untouched(l)' = Untouched(l)
      BY <1>1, <2>3 DEF OpenOf, Untouched
    <2>9. \A l : Attended(l) /\ Disposed(l)
      BY <1>5, <2>1 DEF Attended, Disposed, Late
    <2>10. ReportedOK' /\ FixedOK'
      BY <1>1, <1>2, <1>5, <2>8, <2>9 DEF ProgressOK, ReportedOK, FixedOK
    <2>11. OverviewOK'
      <3>1. after = "completed" => Reporting
        BY <1>12 DEF Superseding
      <3>. QED
        BY <1>1, <1>5, <3>1, ReportLands DEF OverviewOK, Reporting
    <2>. QED
      BY <1>6, <2>4, <2>5, <2>6, <2>7, <2>10, <2>11 DEF ProgressOK
  <1>13. AcquiredOK' /\ ProgressOK'
    <2>1. CASE Resolving \/ \E l \in Lineage : Reopening(l) \/ Closing(l)
      <3>1. \E n \in Acquired, s \in {"open", "bot"} : request = SettleOf(n, s)
        BY <2>1 DEF Resolving, Reopening, Closing, ThreadsOf, Acquired
      <3>. QED
        BY <1>10, <2>1, <3>1
    <2>. QED
      BY <1>1, <1>2, <1>11, <1>12, <2>1 DEF FlightOK
  <1>. QED
    BY <1>2, <1>3, <1>13 DEF Prompt

LEMMA StepPrompt == ASSUME IInv, [Next]_vars PROVE ~lingers' => Prompt'
  <1>. SUFFICES ASSUME ~lingers' PROVE Prompt'
    OBVIOUS
  <1>1. lingers' = lingers
    BY DEF vars, Next, Work, Environment, Candidate, host, nature, BeginPublish,
           ListComments, ListFails, Fix, ResolveOld, KeepOld, Post, Reopen, Keep,
           Ambiguous, Take, PostAnchored, Supersede, LoopDone, OverviewKept,
           SendOverview, OverviewFails, Answered, Denied, Unconfirmed, EndJob,
           LandLate, Push, HumanAct, Crash
  <1>2. TypeInv /\ Prompt /\ ~lingers
    BY <1>1 DEF IInv
  <1>3. CASE UNCHANGED vars
    <2>1. UNCHANGED host /\ UNCHANGED plan /\ UNCHANGED sending /\ pc' = pc
          /\ touched' = touched /\ available' = available /\ left' = left
      BY <1>3 DEF vars, past
    <2>2. late' = {} /\ Unduplicated' /\ Unresolved' /\ Active' = Active
      BY <1>2, <2>1, QuietThreads DEF Active
    <2>3. AcquiredOK' = AcquiredOK /\ ProgressOK' = ProgressOK
      <3>1. /\ head' = head /\ threads' = threads /\ overview' = overview
            /\ granted' = granted /\ base' = base /\ findings' = findings
            /\ fixed' = fixed /\ history' = history /\ comments' = comments
            /\ current' = current /\ request' = request /\ after' = after
        BY <2>1 DEF host, nature, plan, sending
      <3>2. AcquiredOK' = AcquiredOK
        BY <2>1, <3>1 DEF AcquiredOK, CommentsOK, HumansOK, OutdatedOK, OneOpen, NoneByBot,
                          Acquired, At
      <3>3. ProgressOK' = ProgressOK
        BY <2>1, <3>1
           DEF ProgressOK, FlightOK, PostingOK, OriginOK, UnattendedOK, ReportedOK, FixedOK,
               OverviewOK, Resolving, Creating, Reopening, Closing, Superseding, Reporting,
               Unposted, Threadless, Unattended, Attended, Disposed, Untouched, OpenOf,
               ThreadsOf, CreateOf, SettleOf, Known, Acquired, At, Early, Late
      <3>. QED
        BY <3>2, <3>3
    <2>. QED
      BY <1>2, <2>2, <2>3 DEF Prompt
  <1>4. CASE BeginPublish
    BY <1>2, <1>4, BeginPrompt
  <1>5. CASE ListComments
    BY <1>2, <1>5, ListPrompt
  <1>6. CASE ListFails \/ OverviewFails \/ EndJob \/ \E l \in Lineage : Ambiguous(l)
    <2>1. UNCHANGED host /\ pc' \in {"stopped", "idle"}
      BY <1>6 DEF ListFails, OverviewFails, EndJob, Forget, Ambiguous, Take
    <2>. QED
      BY <1>2, <2>1, StopPrompt
  <1>7. ASSUME NEW l \in Lineage, Candidate(l) \/ Fix(l)
        PROVE  Prompt'
    BY <1>2, <1>6, <1>7, ResolveOldPrompt, PostPrompt, ReopenPrompt, KeepPrompt, FixPrompt
       DEF Candidate
  <1>8. CASE PostAnchored
    BY <1>2, <1>8, PostAnchoredPrompt
  <1>9. CASE LoopDone
    BY <1>2, <1>9, LoopDonePrompt
  <1>10. CASE SendOverview \/ OverviewKept \/ \E n \in Known : Supersede(n)
    BY <1>2, <1>10, LastPrompt
  <1>11. CASE Answered
    BY <1>2, <1>11, AnsweredPrompt
  <1>12. CASE Denied
    BY <1>2, <1>12, DeniedPrompt
  <1>13. CASE Unconfirmed \/ Crash
    BY <1>2, <1>13, EndPrompt
  <1>14. CASE Push \/ HumanAct
    BY <1>2, <1>14, DriftPrompt
  <1>15. CASE LandLate
    BY <1>2, <1>15 DEF LandLate, Prompt
  <1>. QED
    BY <1>3, <1>4, <1>5, <1>6, <1>7, <1>8, <1>9, <1>10, <1>11, <1>12, <1>13, <1>14, <1>15
       DEF Next, Work, Environment

LEMMA StepInv == IInv /\ [Next]_vars => IInv'
BY StepTypes, StepPrompt DEF IInv

LEMMA Invariance == Spec => []IInv
  <1>. QED
    BY Initially, StepInv, PTL DEF Spec

-----------------------------------------------------------------------------
(* What follows for the properties.                                        *)

(***************************************************************************)
(* publish_github_findings and update_github_overview keep to the types:   *)
(* whatever is listed, taken or sent is something the publication knows.   *)
(***************************************************************************)
THEOREM TypeCorrect == Spec => []TypeOK
  <1>1. TypeInv => TypeOK
    <2>. SUFFICES ASSUME TypeInv PROVE TypeOK
      OBVIOUS
    <2>1. ThreadsOK /\ HostOK /\ PlanOK /\ PlaceOK
      BY DEF TypeInv
    <2>2. threads \in Seq([lineage : Lineage, line : Line, body : Body,
                           head : Heads, state : State, outdated : BOOLEAN,
                           superseded : BOOLEAN, rank : Int])
      BY <2>1 DEF ThreadsOK, Thread
    <2>3. Range(findings) \subseteq Comment
      BY <2>1 DEF PlanOK, Range
    <2>4. Range(history) \subseteq [state : State, outdated : BOOLEAN]
      BY <2>1 DEF PlanOK, Range, Acquired
    <2>5. after \in Place
      BY <2>1 DEF PlaceOK, Place, Loop
    <2>6. /\ pc = "superseding" => left \subseteq Known
          /\ pc \in {"candidates", "fixing"} => left \subseteq Lineage
          /\ pc = "posting" => current \in DOMAIN findings
          /\ pc = "sent" => request \in Write
      BY <2>1 DEF PlaceOK, PlanOK, At, Early
    <2>. QED
      BY <2>1, <2>2, <2>3, <2>4, <2>5, <2>6
         DEF TypeOK, HostOK, PlanOK, PlaceOK, Acquired
  <1>. QED
    BY <1>1, Invariance, PTL DEF IInv

(***************************************************************************)
(* The same comment is never posted twice, for any number of lineages,     *)
(* pushes, publications and steps of people.                               *)
(***************************************************************************)
THEOREM NoDuplicatesHolds == Spec => []NoDuplicates
  <1>1. IInv => NoDuplicates
    BY DEF IInv, Prompt, Unduplicated, NoDuplicates
  <1>. QED
    BY <1>1, Invariance, PTL

(***************************************************************************)
(* Where ThreadResolutionOutcome::Unavailable is the only answer, each     *)
(* lineage keeps its one thread through all reviews.                       *)
(***************************************************************************)
THEOREM LineageRetainedHolds == Spec => []LineageRetained
  <1>1. IInv => LineageRetained
    BY DEF IInv, Prompt, Unresolved, LineageRetained
  <1>. QED
    BY <1>1, Invariance, PTL

(***************************************************************************)
(* A publication that reports completion has converged.                    *)
(***************************************************************************)
THEOREM ConvergedHolds == Spec => []Converged
  <1>1. IInv => Converged
    <2>. SUFFICES ASSUME IInv, pc = "completed", ~lingers PROVE Converged
      BY DEF Converged
    <2>1. ProgressOK /\ At = "completed"
      BY DEF IInv, Prompt, Active, At
    <2>2. \A l : Attended(l) /\ Disposed(l)
      BY <2>1 DEF Attended, Disposed, Late
    <2>3. \A l \in DOMAIN findings \ fixed :
             Untouched(l) /\ available => OpenOf(l) # {}
      BY <2>1, <2>2 DEF ProgressOK, ReportedOK
    <2>4. \A l \in fixed \ DOMAIN findings : available => OpenOf(l) \subseteq touched
      BY <2>1, <2>2 DEF ProgressOK, FixedOK
    <2>5. overview = base
      BY <2>1 DEF ProgressOK, OverviewOK
    <2>. QED
      BY <2>3, <2>4, <2>5 DEF Converged
  <1>. QED
    BY <1>1, Invariance, PTL

-----------------------------------------------------------------------------
(* What a step may do to the state of a thread.                            *)

\* Only an answer, or a publication that ends without one, settles a thread.
Settles(n, s) ==
    /\ pc = "sent" /\ FlightOK /\ AcquiredOK
    /\ n \in Acquired /\ Apply(SettleOf(n, s)) /\ request = SettleOf(n, s)

LEMMA StateSteps ==
    ASSUME IInv, ~lingers, Next, human' = human,
           NEW n \in Known, threads'[n].state # threads[n].state
    PROVE  \E s \in {"open", "bot"} : Settles(n, s)
  <1>1. TypeInv /\ Prompt
    BY DEF IInv
  <1>2. CASE UNCHANGED threads
    BY <1>2
  <1>3. CASE Push
    <2>1. StatesKept
      BY <1>1, <1>3, PushAlters DEF TypeInv
    <2>. QED
      BY <2>1 DEF StatesKept
  <1>4. CASE HumanAct
    BY <1>1, <1>4 DEF HumanAct, TypeInv, HostOK
  <1>5. CASE LandLate
    BY <1>1, <1>5 DEF LandLate, Prompt
  <1>6. CASE pc = "sent" /\ Apply(request)
    <2>1. FlightOK /\ AcquiredOK /\ ThreadsOK
      BY <1>1, <1>6 DEF Prompt, Active, ProgressOK, TypeInv
    <2>2. ASSUME NEW m \in Acquired, NEW s \in {"open", "bot"}, request = SettleOf(m, s)
          PROVE  \E v \in {"open", "bot"} : Settles(n, v)
      <3>1. m \in Known
        BY <1>1 DEF TypeInv, PlanOK
      <3>2. Changed(m, s)
        BY <1>6, <2>1, <2>2, <3>1, SettleLands
      <3>3. n = m
        BY <3>2 DEF Changed
      <3>. QED
        BY <1>6, <2>1, <2>2, <3>3 DEF Settles
    <2>3. CASE Resolving \/ \E l : Reopening(l) \/ Closing(l)
      <3>1. \E m \in Acquired, s \in {"open", "bot"} : request = SettleOf(m, s)
        BY <2>3 DEF Resolving, Reopening, Closing, ThreadsOf, Acquired
      <3>. QED
        BY <2>2, <3>1
    <2>4. ASSUME NEW l, Creating(l) PROVE FALSE
      <3>1. request \in Write /\ request.kind = "create"
        BY <1>1, <1>6, <2>4 DEF Creating, CreateOf, TypeInv, PlaceOK
      <3>2. PICK m : Appended(request, m)
        BY <1>6, <2>1, <3>1, CreateLands
      <3>. QED
        BY <3>2 DEF Appended
    <2>5. CASE Superseding
      <3>1. StatesKept
        BY <1>6, <2>1, <2>5, SupersedeLands DEF Superseding
      <3>. QED
        BY <3>1 DEF StatesKept
    <2>6. CASE Reporting
      BY <1>6, <2>6, ReportLands DEF Reporting
    <2>. QED
      BY <1>6, <2>1, <2>3, <2>4, <2>5, <2>6 DEF FlightOK
  <1>7. CASE Answered \/ Unconfirmed \/ Crash
    BY <1>2, <1>6, <1>7 DEF Answered, Unconfirmed, Crash, Landed, Refused, Delayed
  <1>8. CASE BeginPublish \/ Work
    <2>1. threads' = threads \/ Answered \/ Unconfirmed
      BY <1>8 DEF BeginPublish, Work, Candidate, host, ListComments, ListFails, Fix,
                  ResolveOld, KeepOld, Post, Reopen, Keep, Ambiguous, Take, PostAnchored,
                  Supersede, LoopDone, OverviewKept, SendOverview, OverviewFails, Denied,
                  Refused, EndJob
    <2>. QED
      BY <1>2, <1>7, <2>1
  <1>. QED
    BY <1>3, <1>4, <1>5, <1>7, <1>8 DEF Next, Environment

(***************************************************************************)
(* The bot reopens no thread that a person resolved, unless somebody acted *)
(* on it after it was acquired.                                            *)
(***************************************************************************)
THEOREM HumanResolutionKeptHolds == Spec => HumanResolutionKept
  <1>1. ASSUME IInv, [Next]_vars, ~lingers, NEW n \in Known,
               threads[n].state = "human", threads'[n].state = "open",
               human' = human, n \notin touched
        PROVE  FALSE
    <2>1. Next
      <3>1. ~UNCHANGED vars
        BY <1>1 DEF vars, host
      <3>. QED
        BY <1>1, <3>1
    <2>2. PICK s \in {"open", "bot"} : Settles(n, s)
      BY <1>1, <2>1, StateSteps
    <2>3. n \in Acquired /\ request = SettleOf(n, s) /\ pc = "sent"
      BY <2>2 DEF Settles
    <2>4. s = "open"
      <3>1. Changed(n, s)
        BY <1>1, <2>2, SettleLands DEF Settles, IInv, TypeInv
      <3>. QED
        BY <1>1, <3>1 DEF Changed
    <2>5. history[n].state = "bot"
      <3>1. request.kind = "settle" /\ request.thread = n /\ request.state = "open"
        BY <2>3, <2>4 DEF SettleOf
      <3>2. ~Resolving /\ ~Superseding /\ ~Reporting
        BY <3>1 DEF Resolving, Superseding, Reporting, SettleOf
      <3>3. \A l : ~Creating(l) /\ ~Closing(l)
        BY <3>1 DEF Creating, Closing, SettleOf, CreateOf
      <3>4. PICK l : Reopening(l)
        BY <2>2, <3>2, <3>3 DEF Settles, FlightOK
      <3>. QED
        BY <3>1, <3>4 DEF Reopening, SettleOf
    <2>6. history[n].state = "human"
      BY <1>1, <2>2, <2>3 DEF Settles, AcquiredOK, HumansOK
    <2>. QED
      BY <2>5, <2>6
  <1>2. IInv /\ [Next]_vars
          => [~lingers => \A n \in Known :
                threads[n].state = "human" /\ threads'[n].state = "open"
                  => human' # human \/ n \in touched]_vars
    BY <1>1
  <1>. QED
    BY <1>2, Invariance, PTL DEF Spec, HumanResolutionKept

(***************************************************************************)
(* The bot resolves a thread because its lineage was declared fixed, or to *)
(* replace it at the line where its finding is reported now.               *)
(***************************************************************************)
THEOREM ResolvedForReasonHolds == Spec => ResolvedForReason
  <1>1. ASSUME IInv, [Next]_vars, ~lingers, NEW n \in Known,
               threads[n].state = "open", threads'[n].state = "bot"
        PROVE  \/ threads[n].lineage \in fixed
               \/ /\ threads[n].lineage \in DOMAIN findings
                  /\ \/ threads[n].outdated
                     \/ threads[n].line # findings[threads[n].lineage].line
    <2>1. Next
      <3>1. ~UNCHANGED vars
        BY <1>1 DEF vars, host
      <3>. QED
        BY <1>1, <3>1
    <2>2. ~HumanAct
      BY <1>1, HumanAlters DEF IInv, TypeInv
    <2>3. human' = human
      BY <2>1, <2>2
         DEF Next, Work, Environment, Candidate, host, BeginPublish, ListComments,
             ListFails, Fix, ResolveOld, KeepOld, Post, Reopen, Keep, Ambiguous, Take,
             PostAnchored, Supersede, LoopDone, OverviewKept, SendOverview,
             OverviewFails, Answered, Denied, Unconfirmed, EndJob, LandLate, Push, Crash
    <2>4. PICK s \in {"open", "bot"} : Settles(n, s)
      BY <1>1, <2>1, <2>3, StateSteps
    <2>5. n \in Acquired /\ request = SettleOf(n, s) /\ pc = "sent" /\ FlightOK
      BY <2>4 DEF Settles
    <2>6. s = "bot"
      <3>1. Changed(n, s)
        BY <1>1, <2>4, SettleLands DEF Settles, IInv, TypeInv
      <3>. QED
        BY <1>1, <3>1 DEF Changed
    <2>7. Resolving \/ \E l : Closing(l)
      BY <2>5, <2>6
         DEF FlightOK, Creating, Reopening, Superseding, Reporting, SettleOf, CreateOf
    <2>8. \A m, v : SettleOf(m, v) = request => m = n
      BY <2>5 DEF SettleOf
    <2>9. CASE Resolving
      <3>1. current \in DOMAIN findings
        BY <1>1, <2>5, <2>9 DEF IInv, TypeInv, PlaceOK, At, Resolving
      <3>. QED
        BY <2>8, <2>9, <3>1 DEF Resolving
    <2>10. CASE \E l : Closing(l)
      BY <2>8, <2>10 DEF Closing, ThreadsOf
    <2>. QED
      BY <2>7, <2>9, <2>10
  <1>2. IInv /\ [Next]_vars
          => [~lingers => \A n \in Known :
                threads[n].state = "open" /\ threads'[n].state = "bot"
                  => LET l == threads[n].lineage
                     IN  \/ l \in fixed
                         \/ /\ l \in DOMAIN findings
                            /\ \/ threads[n].outdated
                               \/ threads[n].line # findings[l].line]_vars
    BY <1>1
  <1>. QED
    BY <1>2, Invariance, PTL DEF Spec, ResolvedForReason

-----------------------------------------------------------------------------
(* A write that lands under a newer head.                                  *)

\* A write is sent under the head that was reviewed, and heads only grow.
AstrayOK ==
    /\ base <= head
    /\ \/ astray = {}
       \/ base # head /\ pc # "sent" /\ astray = {request}

LEMMA AstrayStep ==
    ASSUME TypeInv, AstrayOK, [Next]_vars
    PROVE  AstrayOK'
  <1>1. head \in Nat /\ base \in Nat
    BY DEF TypeInv, HostOK, PlanOK, Heads
  <1>2. CASE UNCHANGED vars
    BY <1>2 DEF vars, host, plan, sending, past, AstrayOK
  <1>3. CASE BeginPublish
    BY <1>1, <1>3 DEF BeginPublish, host, AstrayOK
  <1>4. ASSUME Forget, head' = head PROVE AstrayOK'
    <2>1. 1 <= head
      BY DEF TypeInv, HostOK, Heads
    <2>. QED
      BY <1>4, <2>1 DEF Forget, AstrayOK
  <1>5. CASE EndJob \/ Crash
    BY <1>4, <1>5 DEF EndJob, Crash, host
  <1>6. CASE LandLate \/ Push \/ HumanAct
    <2>1. base' = base /\ pc' = pc /\ request' = request /\ head' \in {head, head + 1}
      BY <1>6 DEF LandLate, Push, HumanAct, plan, sending, past
    <2>2. base <= head' /\ (base # head => base # head')
      BY <1>1, <2>1 DEF AstrayOK
    <2>3. \/ astray' = astray
          \/ /\ pc = "stopped" /\ head' = head /\ base # head
             /\ astray' = astray \cup {request}
      BY <1>6 DEF LandLate, Overdue, Push, HumanAct, past
    <2>. QED
      BY <2>1, <2>2, <2>3 DEF AstrayOK
  <1>7. ASSUME base' = base, head' = head, astray' = astray,
               pc' = "sent" => head = base, head # base => request' = request
        PROVE  AstrayOK'
    BY <1>7 DEF AstrayOK
  <1>8. CASE Answered \/ Denied \/ Unconfirmed
    <2>1. /\ base' = base /\ head' = head /\ request' = request /\ pc = "sent"
          /\ astray' = astray \/ (head # base /\ astray' = astray \cup {request})
      BY <1>8 DEF Answered, Denied, Unconfirmed, Landed, Refused, Delayed, plan, sending
    <2>2. pc' # "sent"
      BY <1>8 DEF Answered, Denied, Unconfirmed, TypeInv, PlaceOK, Loop
    <2>. QED
      BY <2>1, <2>2 DEF AstrayOK
  <1>9. CASE ListComments \/ ListFails \/ PostAnchored \/ LoopDone \/ OverviewKept
             \/ SendOverview \/ OverviewFails
             \/ (\E l \in Lineage : Candidate(l) \/ Fix(l))
             \/ (\E n \in Known : Supersede(n))
    <2>1. base' = base /\ head' = head /\ astray' = astray
      BY <1>9 DEF ListComments, ListFails, PostAnchored, LoopDone, OverviewKept,
                  SendOverview, OverviewFails, Candidate, Fix, ResolveOld, KeepOld, Post,
                  Reopen, Keep, Ambiguous, Supersede, Take, host, plan, past
    <2>2. /\ pc' = "sent" => head = base
          /\ head # base => request' = request
      BY <1>9 DEF ListComments, ListFails, PostAnchored, LoopDone, OverviewKept,
                  SendOverview, OverviewFails, Candidate, Fix, ResolveOld, KeepOld, Post,
                  Reopen, Keep, Ambiguous, Supersede, SendFresh, Loop, sending
    <2>. QED
      BY <1>7, <2>1, <2>2
  <1>. QED
    BY <1>2, <1>3, <1>5, <1>6, <1>8, <1>9 DEF Next, Work, Environment

(***************************************************************************)
(* After the head moved at most the write that was under way lands, at     *)
(* once or late, on any host.                                              *)
(***************************************************************************)
THEOREM OneWriteAstrayHolds == Spec => []OneWriteAstray
  <1>1. Init => AstrayOK
    BY DEF Init, AstrayOK
  <1>2. IInv /\ AstrayOK /\ [Next]_vars => AstrayOK'
    BY AstrayStep DEF IInv
  <1>3. AstrayOK => OneWriteAstray
    <2>1. \A w : Cardinality({w}) <= 1
      <3>1. \A w : Cardinality({w}) = 1
        BY FS_Singleton
      <3>. QED
        BY <3>1
    <2>2. Cardinality({}) <= 1
      BY FS_EmptySet
    <2>. QED
      BY <2>1, <2>2 DEF AstrayOK, OneWriteAstray
  <1>. QED
    BY <1>1, <1>2, <1>3, Invariance, PTL DEF Spec

=============================================================================
