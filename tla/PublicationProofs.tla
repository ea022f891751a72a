--------------------------- MODULE PublicationProofs ---------------------------
(***************************************************************************)
(* Proofs about what one GitLab publication rests on: its durable journal, *)
(* for every set of snapshots, notes and fingerprints and for plans of any *)
(* length, and the lease on its merge request, for any finite sets of      *)
(* tasks and keys and any set of mutexes.  The two are separate machines.  *)
(***************************************************************************)
EXTENDS PublicationJournal, PublicationLease, FiniteSetTheorems, TLAPS

-----------------------------------------------------------------------------
(* The journal.                                                            *)

\* The inductive invariant: the type of the journal and its replay validity.
IInv == TypeOK /\ ReplayAccepted

-----------------------------------------------------------------------------
(* Lemmas about the value-level operations. *)

\* Moving an unfinished journal to another unfinished or abandoned state
\* keeps it valid, provided only a create becomes ambiguous.
LEMMA InStateValid ==
    ASSUME NEW j \in Journal, ValidReplay(j), j.state \in InProgress,
           NEW s \in JournalState \ {"Completed"},
           s = "AmbiguousOutcome" => Current(j).decision = "Create"
    PROVE  /\ InState(j, s) \in Journal
           /\ ValidReplay(InState(j, s))
  <1> DEFINE k == InState(j, s)
  <1>1. /\ k \in Journal
        /\ k.actions = j.actions /\ k.entries = j.entries /\ k.at = j.at
        /\ k.snapshot = j.snapshot /\ k.state = s
    BY DEF InState, Journal
  <1>2. j.at # Len(j.actions) + 1
    BY DEF ValidReplay, ValidState, InProgress
  <1>3. ValidEntries(k)
    BY <1>1 DEF ValidReplay, ValidEntries
  <1>4. ValidState(k)
    BY <1>1, <1>2 DEF ValidReplay, ValidState, Current
  <1> QED
    BY <1>1, <1>3, <1>4 DEF ValidReplay

\* An unfinished journal points at one of its actions.
LEMMA CurrentIsAction ==
    ASSUME NEW j \in Journal, ValidReplay(j), j.state \in InProgress
    PROVE  /\ j.at \in 1..Len(j.actions)
           /\ Current(j) \in PlanAction
           /\ j.at = Len(j.entries) + 1
  <1>1. j.at = Len(j.entries) + 1 /\ j.at # Len(j.actions) + 1
    BY DEF ValidReplay, ValidState, InProgress
  <1>2. Len(j.entries) <= Len(j.actions)
    BY DEF ValidReplay, ValidEntries
  <1>3. j.entries \in Seq(Entry) /\ j.actions \in Seq(PlanAction)
    BY DEF Journal
  <1>4. j.at \in 1..Len(j.actions)
    BY <1>1, <1>2, <1>3
  <1> QED
    BY <1>1, <1>3, <1>4 DEF Current

\* Recording an outcome that fits the current action keeps the journal valid
\* and extends its entries by one.
LEMMA CompleteCurrentValid ==
    ASSUME NEW j \in Journal, ValidReplay(j), j.state \in InProgress,
           NEW o \in {"Created", "NoOp", "Reconciled"}, NEW n \in NoteId,
           ValidOutcome(Current(j), [action |-> j.at,
                                     fingerprint |-> Current(j).fingerprint,
                                     outcome |-> o, note |-> n])
    PROVE  LET k == CompleteCurrent(j, o, n)
           IN  /\ k \in Journal
               /\ ValidReplay(k)
               /\ k.actions = j.actions
               /\ k.snapshot = j.snapshot
               /\ Len(k.entries) = Len(j.entries) + 1
               /\ \A i \in 1..Len(j.entries) : k.entries[i] = j.entries[i]
               /\ k.state = IF Len(k.entries) = Len(j.actions)
                            THEN "Completed" ELSE "Ready"
  <1> DEFINE k == CompleteCurrent(j, o, n)
             e == [action |-> j.at, fingerprint |-> Current(j).fingerprint,
                   outcome |-> o, note |-> n]
  <1>1. /\ j.at \in 1..Len(j.actions) /\ Current(j) \in PlanAction
        /\ j.at = Len(j.entries) + 1
    BY CurrentIsAction
  <1>2. /\ j.entries \in Seq(Entry) /\ j.actions \in Seq(PlanAction)
        /\ j.at \in Nat \ {0} /\ j.snapshot \in Snapshot
    BY DEF Journal
  <1>3. e \in Entry
    BY <1>1, <1>2 DEF Entry, PlanAction
  <1>4. /\ k.snapshot = j.snapshot
        /\ k.actions = j.actions
        /\ k.state = IF j.at = Len(j.actions) THEN "Completed" ELSE "Ready"
        /\ k.at = j.at + 1
        /\ k.entries = Append(j.entries, e)
    BY DEF CompleteCurrent, Journal
  <1>5. /\ Append(j.entries, e) \in Seq(Entry)
        /\ Len(Append(j.entries, e)) = Len(j.entries) + 1
        /\ \A i \in 1..Len(j.entries) : Append(j.entries, e)[i] = j.entries[i]
        /\ Append(j.entries, e)[Len(j.entries) + 1] = e
    BY <1>2, <1>3
  <1>6. k \in Journal
    <2>1. k = [j EXCEPT !.entries = Append(j.entries, e),
                        !.at = j.at + 1,
                        !.state = k.state]
      BY <1>4 DEF CompleteCurrent
    <2>2. k.state \in JournalState /\ j.at + 1 \in Nat \ {0}
      BY <1>2, <1>4 DEF JournalState
    <2> HIDE DEF e, k
    <2> QED
      BY <2>1, <2>2, <1>5 DEF Journal
  <1>7. ValidEntries(k)
    <2>1. Len(k.entries) <= Len(k.actions)
      BY <1>1, <1>2, <1>4, <1>5
    <2>2. ASSUME NEW i \in 1..Len(k.entries)
          PROVE  /\ k.entries[i].action = i
                 /\ k.entries[i].fingerprint = k.actions[i].fingerprint
                 /\ ValidOutcome(k.actions[i], k.entries[i])
      <3>1. CASE i \in 1..Len(j.entries)
        BY <3>1, <1>4, <1>5 DEF ValidReplay, ValidEntries
      <3>2. CASE i = Len(j.entries) + 1
        <4>1. k.entries[i] = e /\ i = j.at /\ k.actions[i] = Current(j)
          BY <3>2, <1>1, <1>4, <1>5 DEF Current
        <4> QED
          BY <4>1
      <3> QED
        BY <3>1, <3>2, <1>2, <1>4, <1>5
    <2> QED
      BY <2>1, <2>2 DEF ValidEntries
  <1>8. ValidState(k)
    <2> HIDE DEF e, k
    <2>1. k.at = Len(k.entries) + 1 /\ k.at = j.at + 1
      BY <1>1, <1>4, <1>5
    <2>2. k.at = Len(k.actions) + 1 <=> j.at = Len(j.actions)
      BY <1>1, <1>2, <1>4, <2>1
    <2>3. k.state = "Completed" <=> j.at = Len(j.actions)
      BY <1>4
    <2>4. k.state # "AmbiguousOutcome"
      BY <1>4
    <2> QED
      BY <2>1, <2>2, <2>3, <2>4 DEF ValidState
  <1>9. ValidReplay(k)
    BY <1>4, <1>7, <1>8 DEF ValidReplay
  <1> QED
    BY <1>1, <1>2, <1>4, <1>5, <1>6, <1>9

-----------------------------------------------------------------------------
(* Preservation. *)

LEMMA InitInv == Init => IInv
  <1> SUFFICES ASSUME NEW s \in Snapshot, NEW a \in Plans,
                      journal = TryNew(s, a)
               PROVE  IInv
    BY DEF Init
  <1>1. ValidPlan(a) /\ a \in Seq(PlanAction)
    BY PlansAssumption DEF ValidPlan
  <1>2. /\ journal.actions = a /\ journal.entries = <<>> /\ journal.at = 1
        /\ journal.state = IF a = <<>> THEN "Completed" ELSE "Ready"
    BY DEF TryNew
  <1>3. TypeOK
    BY <1>1 DEF TypeOK, TryNew, Journal, JournalState
  <1>4. ValidEntries(journal)
    BY <1>1, <1>2 DEF ValidEntries
  <1>5. a = <<>> <=> Len(a) = 0
    BY <1>1
  <1>6. ValidState(journal)
    BY <1>1, <1>2, <1>5 DEF ValidState
  <1> QED
    BY <1>1, <1>2, <1>3, <1>4, <1>6 DEF IInv, ReplayAccepted, ValidReplay

\* What one step of the machine does to a valid journal, in the terms of
\* every theorem below: it moves the current action between states, or it
\* records the outcome of an intended one.
Moves(j, k) ==
    \E s \in JournalState \ {"Completed"} :
        /\ s = "AmbiguousOutcome" => Current(j).decision = "Create"
        /\ \/ s = "AwaitingOutcome" /\ j.state = "Ready"
           \/ s = "AmbiguousOutcome" /\ j.state = "AwaitingOutcome"
           \/ s = "Ready" /\ j.state = "AmbiguousOutcome"
           \/ s \in {"StoppedStale", "Failed"}
        /\ k = InState(j, s)

Records(j, k) ==
    /\ j.state \in {"AwaitingOutcome", "AmbiguousOutcome"}
    /\ \E o \in {"Created", "NoOp", "Reconciled"}, n \in NoteId :
          /\ ValidOutcome(Current(j), [action |-> j.at,
                                       fingerprint |-> Current(j).fingerprint,
                                       outcome |-> o, note |-> n])
          /\ k = CompleteCurrent(j, o, n)

LEMMA StepShape ==
    ASSUME IInv, Next
    PROVE  journal.state \in InProgress
           /\ (Moves(journal, journal') \/ Records(journal, journal'))
  <1>0. journal \in Journal /\ ValidReplay(journal)
    BY DEF IInv, TypeOK, ReplayAccepted
  <1>1. ASSUME NEW observed \in Snapshot, BeginNext(observed)
        PROVE  journal.state \in InProgress /\ Moves(journal, journal')
    BY <1>1 DEF BeginNext, Moves, InProgress, JournalState
  <1>2. ASSUME NEW note \in NoteId, Confirm(note)
        PROVE  journal.state \in InProgress
               /\ (Moves(journal, journal') \/ Records(journal, journal'))
    <2>1. journal.state = "AwaitingOutcome" /\ journal.state \in InProgress
      BY <1>2 DEF Confirm, InProgress
    <2>2. CASE Current(journal).decision = "Create"
      BY <1>2, <2>1, <2>2 DEF Confirm, Confirmed, Records, ValidOutcome
    <2>3. CASE Current(journal).decision = "NoOp" /\ Current(journal).note = note
      BY <1>2, <2>1, <2>3 DEF Confirm, Confirmed, Records, ValidOutcome
    <2>4. CASE ~ \/ Current(journal).decision = "Create"
                 \/ Current(journal).decision = "NoOp"
                    /\ Current(journal).note = note
      BY <1>2, <2>1, <2>4 DEF Confirm, Confirmed, Moves, JournalState
    <2> QED
      BY <2>1, <2>2, <2>3, <2>4
  <1>3. ASSUME ConfirmNothing \/ Fail
        PROVE  journal.state \in InProgress /\ Moves(journal, journal')
    BY <1>3 DEF ConfirmNothing, Fail, Moves, JournalState
  <1>4. ASSUME MarkAmbiguous
        PROVE  journal.state \in InProgress /\ Moves(journal, journal')
    BY <1>4 DEF MarkAmbiguous, Moves, InProgress, JournalState
  <1>5. ASSUME NEW matches \in SUBSET NoteId, ReconcileAmbiguous(matches)
        PROVE  journal.state \in InProgress
               /\ (Moves(journal, journal') \/ Records(journal, journal'))
    <2>1. journal.state = "AmbiguousOutcome" /\ journal.state \in InProgress
      BY <1>5 DEF ReconcileAmbiguous, InProgress
    <2>2. Current(journal).decision = "Create"
      BY <1>0, <2>1 DEF ValidReplay, ValidState, Current
    <2>3. CASE matches = {}
      BY <1>5, <2>1, <2>3 DEF ReconcileAmbiguous, Reconciled, Moves, JournalState
    <2>4. CASE \E n \in matches : matches = {n}
      <3> DEFINE m == CHOOSE n \in matches : TRUE
      <3>1. matches # {} /\ m \in NoteId
        BY <2>4
      <3>2. journal' = CompleteCurrent(journal, "Reconciled", m)
        BY <1>5, <2>4, <3>1 DEF ReconcileAmbiguous, Reconciled
      <3> QED
        BY <2>1, <2>2, <3>1, <3>2 DEF Records, ValidOutcome
    <2>5. CASE ~ (matches = {} \/ \E n \in matches : matches = {n})
      BY <1>5, <2>1, <2>5 DEF ReconcileAmbiguous, Reconciled, Moves, JournalState
    <2> QED
      BY <2>3, <2>4, <2>5
  <1>6. ASSUME StopStale
        PROVE  journal.state \in InProgress /\ Moves(journal, journal')
    BY <1>6 DEF StopStale, Moves, InProgress, JournalState
  <1> QED
    BY <1>1, <1>2, <1>3, <1>4, <1>5, <1>6 DEF Next

LEMMA StepInv == IInv /\ [Next]_vars => IInv'
  <1> SUFFICES ASSUME IInv, [Next]_vars PROVE IInv'
    OBVIOUS
  <1>0. journal \in Journal /\ ValidReplay(journal)
    BY DEF IInv, TypeOK, ReplayAccepted
  <1>1. CASE UNCHANGED vars
    BY <1>1, <1>0 DEF vars, IInv, TypeOK, ReplayAccepted
  <1>2. CASE Next
    <2>1. journal.state \in InProgress
          /\ (Moves(journal, journal') \/ Records(journal, journal'))
      BY <1>2, StepShape
    <2>2. CASE Moves(journal, journal')
      BY <1>0, <2>1, <2>2, InStateValid DEF Moves, IInv, TypeOK, ReplayAccepted
    <2>3. CASE Records(journal, journal')
      BY <1>0, <2>1, <2>3, CompleteCurrentValid
         DEF Records, IInv, TypeOK, ReplayAccepted
    <2> QED
      BY <2>1, <2>2, <2>3
  <1> QED
    BY <1>1, <1>2

(***************************************************************************)
(* Every reachable journal has the type of a journal.                      *)
(***************************************************************************)
THEOREM TypeCorrect == Spec => []TypeOK
  <1>1. IInv => TypeOK
    BY DEF IInv
  <1> QED
    BY <1>1, InitInv, StepInv, PTL DEF Spec

(***************************************************************************)
(* validate_replay accepts every journal the methods can produce, for any  *)
(* plan and any caller: RetainedState is unreachable.                      *)
(***************************************************************************)
THEOREM ReplayAlwaysAccepted == Spec => []ReplayAccepted
  <1>1. IInv => ReplayAccepted
    BY DEF IInv
  <1> QED
    BY <1>1, InitInv, StepInv, PTL DEF Spec

-----------------------------------------------------------------------------
(* Action properties and refinement. *)

\* A move leaves the plan and the entries alone.
LEMMA MoveKeeps ==
    ASSUME NEW j \in Journal, NEW k, Moves(j, k)
    PROVE  /\ k.actions = j.actions
           /\ k.snapshot = j.snapshot
           /\ k.entries = j.entries
    BY DEF Moves, InState, Journal

LEMMA RecordExtends ==
    ASSUME NEW j \in Journal, ValidReplay(j), NEW k, Records(j, k)
    PROVE  /\ k.actions = j.actions
           /\ k.snapshot = j.snapshot
           /\ Len(k.entries) = Len(j.entries) + 1
           /\ \A i \in 1..Len(j.entries) : k.entries[i] = j.entries[i]
           /\ k.state = IF Len(k.entries) = Len(j.actions)
                        THEN "Completed" ELSE "Ready"
  <1>1. j.state \in InProgress
    BY DEF Records, InProgress
  <1> QED
    BY <1>1, CompleteCurrentValid DEF Records

(***************************************************************************)
(* Recorded outcomes are never lost, rewritten or invented.                *)
(***************************************************************************)
THEOREM HistoryAlwaysKept == Spec => HistoryKept
  <1>1. ASSUME IInv, Next
        PROVE  /\ journal'.actions = journal.actions
               /\ journal'.snapshot = journal.snapshot
               /\ \/ journal'.entries = journal.entries
                  \/ /\ journal.state \in {"AwaitingOutcome", "AmbiguousOutcome"}
                     /\ Len(journal'.entries) = Len(journal.entries) + 1
                     /\ \A i \in 1..Len(journal.entries) :
                           journal'.entries[i] = journal.entries[i]
               /\ journal.state \notin Terminal
    <2>1. journal \in Journal /\ ValidReplay(journal)
      BY <1>1 DEF IInv, TypeOK, ReplayAccepted
    <2>2. /\ journal.state \notin Terminal
          /\ Moves(journal, journal') \/ Records(journal, journal')
      BY <1>1, StepShape DEF Terminal
    <2>3. CASE Moves(journal, journal')
      BY <2>1, <2>2, <2>3, MoveKeeps
    <2>4. CASE Records(journal, journal')
      BY <2>1, <2>2, <2>4, RecordExtends DEF Records
    <2> QED
      BY <2>2, <2>3, <2>4
  <1> QED
    BY <1>1, InitInv, StepInv, PTL DEF Spec, HistoryKept

LEMMA PromiseInit == Init => Promise!Init
  <1> SUFFICES ASSUME NEW s \in Snapshot, NEW a \in Plans,
                      journal = TryNew(s, a)
               PROVE  Promise!Init
    BY DEF Init
  <1>1. a \in Seq(PlanAction)
    BY PlansAssumption DEF ValidPlan
  <1>2. /\ journal.actions = a /\ journal.entries = <<>>
        /\ journal.state = IF a = <<>> THEN "Completed" ELSE "Ready"
    BY DEF TryNew
  <1>3. Len(a) \in Nat /\ (a = <<>> <=> Len(a) = 0)
    BY <1>1
  <1> QED
    BY <1>2, <1>3 DEF Promise!Init

LEMMA PromiseStep == IInv /\ [Next]_vars => [Promise!Next]_(Promise!vars)
  <1> SUFFICES ASSUME IInv, [Next]_vars
               PROVE  [Promise!Next]_(Promise!vars)
    OBVIOUS
  <1>0. journal \in Journal /\ ValidReplay(journal)
    BY DEF IInv, TypeOK, ReplayAccepted
  <1>1. CASE UNCHANGED vars
    BY <1>1 DEF vars, Promise!vars
  <1>2. CASE Next
    <2>1. /\ journal.state \in InProgress
          /\ Moves(journal, journal') \/ Records(journal, journal')
      BY <1>2, StepShape
    <2>2. CASE Moves(journal, journal')
      <3>1. journal'.actions = journal.actions /\ journal'.entries = journal.entries
        BY <1>0, <2>2, MoveKeeps
      <3>2. PICK s \in JournalState \ {"Completed"} :
              /\ \/ s = "AwaitingOutcome" /\ journal.state = "Ready"
                 \/ s = "AmbiguousOutcome" /\ journal.state = "AwaitingOutcome"
                 \/ s = "Ready" /\ journal.state = "AmbiguousOutcome"
                 \/ s \in {"StoppedStale", "Failed"}
              /\ journal' = InState(journal, s)
        BY <2>2 DEF Moves
      <3>3. journal'.state = s
        BY <1>0, <3>2 DEF InState, Journal
      <3>4. CASE s = "AwaitingOutcome" /\ journal.state = "Ready"
        BY <3>1, <3>3, <3>4 DEF Promise!Next, Promise!Intend, Promise!vars
      <3>5. CASE s = "AmbiguousOutcome" /\ journal.state = "AwaitingOutcome"
        BY <3>1, <3>3, <3>5 DEF Promise!vars
      <3>6. CASE s = "Ready" /\ journal.state = "AmbiguousOutcome"
        BY <3>1, <3>3, <3>6 DEF Promise!Next, Promise!Withdraw, Promise!vars
      <3>7. CASE s \in {"StoppedStale", "Failed"}
        BY <2>1, <3>1, <3>3, <3>7
           DEF Promise!Next, Promise!Abandon, Promise!vars, InProgress
      <3> QED
        BY <3>2, <3>4, <3>5, <3>6, <3>7
    <2>3. CASE Records(journal, journal')
      <3>1. /\ journal'.actions = journal.actions
            /\ Len(journal'.entries) = Len(journal.entries) + 1
            /\ journal'.state = IF Len(journal'.entries) = Len(journal.actions)
                                THEN "Completed" ELSE "Ready"
        BY <1>0, <2>3, RecordExtends
      <3>2. journal.state \in {"AwaitingOutcome", "AmbiguousOutcome"}
        BY <2>3 DEF Records
      <3>3. Promise!Settle
        BY <3>1, <3>2 DEF Promise!Settle
      <3> QED
        BY <3>3 DEF Promise!Next
    <2> QED
      BY <2>1, <2>2, <2>3
  <1> QED
    BY <1>1, <1>2

(***************************************************************************)
(* The journal implements OrderedPublication: every action of a plan is    *)
(* intended before it is settled and settled at most once, in order.       *)
(***************************************************************************)
THEOREM JournalImplementsPromise == Spec => ImplementsPromise
  <1> QED
    BY InitInv, StepInv, PromiseInit, PromiseStep, PTL
       DEF Spec, ImplementsPromise, Promise!Spec

-----------------------------------------------------------------------------
(* The lease.  The order of the waiting queue plays no part in safety;     *)
(* liveness is left to TLC.                                                *)

\* The part of the type that safety rests on.
HandlesType ==
    /\ table \in [Key -> Mutex \cup {None}]
    /\ pc \in [Task -> Place]
    /\ key \in [Task -> Key \cup {None}]
    /\ mutex \in [Task -> Mutex \cup {None}]

\* Exactly the idle tasks have neither a key nor a handle.
HandlesKept ==
    \A t \in Task : /\ pc[t] = "idle" <=> mutex[t] = None
                    /\ pc[t] = "idle" <=> key[t] = None

\* Two keys never share a mutex.
KeysApart ==
    \A k, l \in Key : table[k] # None /\ table[k] = table[l] => k = l

\* The async mutex itself admits one holder.
OneHolder ==
    \A t, u \in Task :
        pc[t] = "held" /\ pc[u] = "held" /\ mutex[t] = mutex[u] => t = u

LeaseInv ==
    /\ HandlesType
    /\ HandlesKept
    /\ KeysApart
    /\ OneHolder
    /\ EntryOutlivesUsers
    /\ TableBounded

-----------------------------------------------------------------------------

\* A strong count of two, one of them the table's, leaves nobody but the
\* caller with a handle.
LEMMA CountOfTwo ==
    ASSUME HandlesType, NEW t \in Task, NEW k \in Key, NEW m \in Mutex,
           mutex[t] = m, table[k] = m, StrongCount(m) = 2,
           NEW u \in Task, mutex[u] = m
    PROVE  u = t
  <1> DEFINE K == {l \in Key : table[l] = m}
             H == Handles(m)
             C == Clones(m)
  <1>1. IsFiniteSet(K) /\ IsFiniteSet(H) /\ IsFiniteSet(C)
    <2>1. K \in SUBSET Key /\ H \in SUBSET Task /\ C \in SUBSET Task
      BY DEF Handles, Clones
    <2> QED
      BY <2>1, LeaseAssumption, FS_Subset
  <1>2. Cardinality(K) \in Nat /\ Cardinality(H) \in Nat /\ Cardinality(C) \in Nat
    BY <1>1, FS_CardinalityType
  <1>3. k \in K /\ t \in H /\ u \in H
    BY DEF Handles
  <1>4. Cardinality(K) # 0 /\ Cardinality(H) # 0
    <2>1. K # {} /\ H # {}
      BY <1>3
    <2> QED
      BY <1>1, <2>1, FS_EmptySet
  <1>5. Cardinality(K) + Cardinality(H) + Cardinality(C) = 2
    BY DEF StrongCount
  <1>6. Cardinality(H) = 1
    BY <1>2, <1>4, <1>5
  <1>7. PICK x : H = {x}
    BY <1>1, <1>6, FS_Singleton
  <1> QED
    BY <1>3, <1>7

LEMMA LeaseInitInv == LeaseInit => LeaseInv
  <1> SUFFICES ASSUME LeaseInit PROVE LeaseInv
    OBVIOUS
  <1>1. HandlesType /\ HandlesKept /\ KeysApart /\ OneHolder /\ EntryOutlivesUsers
    BY DEF LeaseInit, HandlesType, HandlesKept, KeysApart, OneHolder,
           EntryOutlivesUsers, Engaged, Place
  <1>2. Entries = {}
    BY DEF LeaseInit, Entries
  <1>3. TableBounded
    BY <1>2, FS_EmptySet, LeaseAssumption DEF TableBounded
  <1> QED
    BY <1>1, <1>3 DEF LeaseInv

LEMMA EnterInv ==
    ASSUME LeaseInv, NEW t \in Task, NEW k \in Key, Enter(t, k)
    PROVE  LeaseInv'
  <1> USE DEF LeaseInv
  <1>1. PICK m \in Mutex :
          /\ IF table[k] # None THEN m = table[k] ELSE Unallocated(m)
          /\ table' = [table EXCEPT ![k] = m]
          /\ mutex' = [mutex EXCEPT ![t] = m]
    BY DEF Enter
  <1>2. /\ pc[t] = "idle" /\ HasRoom(k)
        /\ key' = [key EXCEPT ![t] = k]
        /\ pc' = [pc EXCEPT ![t] = "waiting"]
    BY DEF Enter
  <1>3. m # None /\ k # None
    BY LeaseAssumption
  <1>4. HandlesType'
    BY <1>1, <1>2 DEF HandlesType, Place
  <1>5. HandlesKept'
    BY <1>1, <1>2, <1>3 DEF HandlesKept, HandlesType
  <1>6. KeysApart'
    BY <1>1, <1>3 DEF KeysApart, HandlesType, Unallocated
  <1>7. OneHolder'
    BY <1>1, <1>2 DEF OneHolder, HandlesType
  <1>8. EntryOutlivesUsers'
    <2> SUFFICES ASSUME NEW u \in Task, pc'[u] \in Engaged
                 PROVE  mutex'[u] # None /\ table'[key'[u]] = mutex'[u]
      BY DEF EntryOutlivesUsers
    <2>1. CASE u = t
      BY <2>1, <1>1, <1>2, <1>3 DEF HandlesType
    <2>2. CASE u # t
      <3>1. /\ pc'[u] = pc[u] /\ key'[u] = key[u] /\ mutex'[u] = mutex[u]
            /\ mutex[u] # None /\ table[key[u]] = mutex[u]
        BY <2>2, <1>1, <1>2 DEF HandlesType, EntryOutlivesUsers
      <3>2. key[u] \in Key
        BY <3>1, <1>2 DEF HandlesType, HandlesKept
      <3> QED
        BY <3>1, <3>2, <1>1 DEF HandlesType
    <2> QED
      BY <2>1, <2>2
  <1>9. TableBounded'
    <2>1. IsFiniteSet(Entries)
      <3>1. Entries \in SUBSET Key
        BY DEF Entries
      <3> QED
        BY <3>1, LeaseAssumption, FS_Subset
    <2>2. Entries' = Entries \cup {k}
      BY <1>1, <1>3 DEF Entries, HandlesType
    <2>3. k \in Entries <=> table[k] # None
      BY DEF Entries
    <2>4. Cardinality(Entries') = IF k \in Entries THEN Cardinality(Entries)
                                  ELSE Cardinality(Entries) + 1
      BY <2>1, <2>2, FS_AddElement
    <2>5. Cardinality(Entries) \in Nat
      BY <2>1, FS_CardinalityType
    <2> QED
      BY <2>3, <2>4, <2>5, <1>2, LeaseAssumption DEF TableBounded, HasRoom
  <1> QED
    BY <1>4, <1>5, <1>6, <1>7, <1>8, <1>9

\* Lock, TimeOut and Unlock move one task between engaged places.
LEMMA EngagedInv ==
    ASSUME LeaseInv, NEW t \in Task, Lock(t) \/ TimeOut(t) \/ Unlock(t)
    PROVE  LeaseInv'
  <1> USE DEF LeaseInv
  <1>1. /\ table' = table /\ key' = key /\ mutex' = mutex
        /\ pc[t] \in Engaged
        /\ \E p \in Engaged : pc' = [pc EXCEPT ![t] = p]
    BY DEF Lock, TimeOut, Unlock, Engaged
  <1>2. HandlesType'
    BY <1>1 DEF HandlesType, Place, Engaged
  <1>3. HandlesKept'
    BY <1>1 DEF HandlesKept, HandlesType, Engaged
  <1>4. KeysApart'
    BY <1>1 DEF KeysApart
  <1>5. EntryOutlivesUsers'
    BY <1>1 DEF EntryOutlivesUsers, HandlesType
  <1>6. Entries' = Entries
    BY <1>1 DEF Entries
  <1>7. TableBounded'
    BY <1>6 DEF TableBounded
  <1>8. OneHolder'
    <2>1. CASE Lock(t)
      <3>1. \A u \in Task : mutex[u] = mutex[t] => pc[u] # "held"
        BY <2>1 DEF Lock, Free, Handles
      <3>2. pc' = [pc EXCEPT ![t] = "held"]
        BY <2>1 DEF Lock
      <3> QED
        BY <1>1, <3>1, <3>2 DEF OneHolder, HandlesType
    <2>2. CASE TimeOut(t) \/ Unlock(t)
      BY <1>1, <2>2 DEF OneHolder, HandlesType, TimeOut, Unlock
    <2> QED
      BY <2>1, <2>2
  <1> QED
    BY <1>2, <1>3, <1>4, <1>5, <1>7, <1>8

LEMMA CleanupInv ==
    ASSUME LeaseInv, NEW t \in Task, Cleanup(t)
    PROVE  LeaseInv'
  <1> USE DEF LeaseInv
  <1>1. /\ pc[t] \in {"unlocked", "timedOut"} /\ pc[t] \in Engaged
        /\ pc' = [pc EXCEPT ![t] = "leaving"]
        /\ key' = key /\ mutex' = mutex
    BY DEF Cleanup, Engaged
  <1>2. /\ key[t] \in Key /\ mutex[t] \in Mutex
        /\ table[key[t]] = mutex[t]
    BY <1>1 DEF HandlesType, HandlesKept, EntryOutlivesUsers
  <1>3. \/ table' = table
        \/ /\ LastUser(t)
           /\ table' = [table EXCEPT ![key[t]] = None]
    BY DEF Cleanup
  <1>4. HandlesType'
    BY <1>1, <1>3 DEF HandlesType, Place
  <1>5. HandlesKept'
    BY <1>1 DEF HandlesKept, HandlesType
  <1>6. KeysApart'
    BY <1>2, <1>3 DEF KeysApart, HandlesType
  <1>7. OneHolder'
    BY <1>1 DEF OneHolder, HandlesType
  <1>8. EntryOutlivesUsers'
    <2> SUFFICES ASSUME NEW u \in Task, pc'[u] \in Engaged
                 PROVE  mutex'[u] # None /\ table'[key'[u]] = mutex'[u]
      BY DEF EntryOutlivesUsers
    <2>1. u # t /\ pc[u] \in Engaged
      BY <1>1 DEF HandlesType, Engaged
    <2>2. mutex[u] # None /\ table[key[u]] = mutex[u]
      BY <2>1 DEF EntryOutlivesUsers
    <2>3. CASE table' = table
      BY <2>2, <2>3, <1>1
    <2>4. CASE LastUser(t) /\ table' = [table EXCEPT ![key[t]] = None]
      <3>1. key[u] # key[t]
        <4> SUFFICES ASSUME key[u] = key[t] PROVE FALSE
          OBVIOUS
        <4>1. mutex[u] = mutex[t]
          BY <1>2, <2>2
        <4>2. StrongCount(mutex[t]) = 2
          BY <2>4 DEF LastUser
        <4>3. u = t
          BY <4>1, <4>2, <1>2, CountOfTwo
        <4> QED
          BY <4>3, <2>1
      <3>2. key[u] \in Key
        BY <2>1 DEF HandlesType, HandlesKept, Engaged
      <3> QED
        BY <3>1, <3>2, <2>2, <2>4, <1>1 DEF HandlesType
    <2> QED
      BY <2>3, <2>4, <1>3
  <1>9. TableBounded'
    <2>1. Entries \in SUBSET Key /\ Entries' \in SUBSET Entries
      BY <1>2, <1>3 DEF Entries, HandlesType
    <2>2. IsFiniteSet(Entries)
      BY <2>1, LeaseAssumption, FS_Subset
    <2>3. Cardinality(Entries') <= Cardinality(Entries)
      BY <2>1, <2>2, FS_Subset
    <2>4. Cardinality(Entries) \in Nat /\ Cardinality(Entries') \in Nat
      BY <2>1, <2>2, FS_Subset, FS_CardinalityType
    <2> QED
      BY <2>3, <2>4, LeaseAssumption DEF TableBounded
  <1> QED
    BY <1>4, <1>5, <1>6, <1>7, <1>8, <1>9

LEMMA LeaveInv ==
    ASSUME LeaseInv, NEW t \in Task, Leave(t)
    PROVE  LeaseInv'
  <1> USE DEF LeaseInv
  <1>1. /\ table' = table
        /\ pc' = [pc EXCEPT ![t] = "idle"]
        /\ key' = [key EXCEPT ![t] = None]
        /\ mutex' = [mutex EXCEPT ![t] = None]
    BY DEF Leave
  <1>2. HandlesType'
    BY <1>1 DEF HandlesType, Place
  <1>3. HandlesKept'
    BY <1>1 DEF HandlesKept, HandlesType
  <1>4. KeysApart' /\ OneHolder'
    BY <1>1 DEF KeysApart, OneHolder, HandlesType
  <1>5. EntryOutlivesUsers'
    BY <1>1 DEF EntryOutlivesUsers, HandlesType, Engaged
  <1>6. Entries' = Entries
    BY <1>1 DEF Entries
  <1>7. TableBounded'
    BY <1>6 DEF TableBounded
  <1> QED
    BY <1>2, <1>3, <1>4, <1>5, <1>7

LEMMA LeaseStepInv == LeaseInv /\ [LeaseNext]_leaseVars => LeaseInv'
  <1> SUFFICES ASSUME LeaseInv, [LeaseNext]_leaseVars PROVE LeaseInv'
    OBVIOUS
  <1>1. CASE UNCHANGED leaseVars
    BY <1>1 DEF leaseVars, LeaseInv, HandlesType, HandlesKept, KeysApart, OneHolder,
                EntryOutlivesUsers, TableBounded, Entries
  <1>2. CASE LeaseNext
    BY <1>2, EnterInv, EngagedInv, CleanupInv, LeaveInv DEF LeaseNext
  <1> QED
    BY <1>1, <1>2

LEMMA LeaseInvAlways == LeaseSpec => []LeaseInv
  <1> QED
    BY LeaseInitInv, LeaseStepInv, PTL DEF LeaseSpec

-----------------------------------------------------------------------------

(***************************************************************************)
(* At most one publication per merge request holds the lease.              *)
(***************************************************************************)
THEOREM MutualExclusionHolds == LeaseSpec => []MutualExclusion
  <1>1. LeaseInv => MutualExclusion
    <2> SUFFICES ASSUME LeaseInv, NEW t \in Task, NEW u \in Task,
                        pc[t] = "held", pc[u] = "held", key[t] = key[u]
                 PROVE  t = u
      BY DEF MutualExclusion
    <2>1. mutex[t] = mutex[u]
      BY DEF LeaseInv, EntryOutlivesUsers, Engaged
    <2> QED
      BY <2>1 DEF LeaseInv, OneHolder
  <1> QED
    BY <1>1, LeaseInvAlways, PTL

(***************************************************************************)
(* cleanup_lock never removes a mutex that another task depends on.        *)
(***************************************************************************)
THEOREM EntryOutlivesUsersHolds == LeaseSpec => []EntryOutlivesUsers
  <1>1. LeaseInv => EntryOutlivesUsers
    BY DEF LeaseInv
  <1> QED
    BY <1>1, LeaseInvAlways, PTL

(***************************************************************************)
(* The lock table is bounded by HARD_MAX_LOCK_KEYS.                        *)
(***************************************************************************)
THEOREM TableBoundedHolds == LeaseSpec => []TableBounded
  <1>1. LeaseInv => TableBounded
    BY DEF LeaseInv
  <1> QED
    BY <1>1, LeaseInvAlways, PTL

=============================================================================
