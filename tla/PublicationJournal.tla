-------------------------- MODULE PublicationJournal --------------------------
(***************************************************************************)
(* The durable journal of one publication plan                             *)
(* (crates/revoot-core/src/publication.rs, PublicationJournal): one action *)
(* per public method.  A call that returns an error without touching the   *)
(* journal is a stuttering step and is not written.  The caller is         *)
(* arbitrary: it may call any method in any state, with any observed       *)
(* snapshot, note identity or inventory.                                   *)
(***************************************************************************)
EXTENDS JournalOps

CONSTANT Plans   \* the plans a journal may be created for

ASSUME PlansAssumption == \A actions \in Plans : ValidPlan(actions)

VARIABLE journal

vars == <<journal>>

TypeOK == journal \in Journal

Init == \E snapshot \in Snapshot, actions \in Plans :
            journal = TryNew(snapshot, actions)

-----------------------------------------------------------------------------

\* begin_next: staleness is terminal and precedes the intent.
BeginNext(observed) ==
    /\ journal.state = "Ready"
    /\ journal' = InState(journal, IF observed = journal.snapshot
                                   THEN "AwaitingOutcome"
                                   ELSE "StoppedStale")

\* confirm with a note identity the host reported.
Confirm(note) ==
    /\ note # 0
    /\ journal.state = "AwaitingOutcome"
    /\ journal' = Confirmed(journal, note)

\* confirm(0): fail_current precedes the check of the state.
ConfirmNothing ==
    /\ journal.state \in InProgress
    /\ journal' = InState(journal, "Failed")

\* A mutant of MarkAmbiguous: any awaited action may become ambiguous.
MarkAmbiguousAny ==
    /\ journal.state = "AwaitingOutcome"
    /\ journal' = InState(journal, "AmbiguousOutcome")

\* mark_ambiguous: only a create can have an unknown outcome.
MarkAmbiguous ==
    /\ journal.state = "AwaitingOutcome"
    /\ journal' = InState(journal, IF Current(journal).decision = "Create"
                                   THEN "AmbiguousOutcome"
                                   ELSE "Failed")

ReconcileAmbiguous(matches) ==
    /\ journal.state = "AmbiguousOutcome"
    /\ journal' = Reconciled(journal, matches)

StopStale ==
    /\ journal.state = "Ready"
    /\ journal' = InState(journal, "StoppedStale")

\* fail: any state that is not terminal.
Fail ==
    /\ journal.state \in InProgress
    /\ journal' = InState(journal, "Failed")

Next ==
    \/ \E observed \in Snapshot : BeginNext(observed)
    \/ \E note \in NoteId : Confirm(note)
    \/ ConfirmNothing
    \/ MarkAmbiguous
    \/ \E matches \in SUBSET NoteId : ReconcileAmbiguous(matches)
    \/ StopStale
    \/ Fail

Spec == Init /\ [][Next]_vars

-----------------------------------------------------------------------------

(***************************************************************************)
(* Whatever the caller does, the journal never reaches a value that its    *)
(* own replay validation would refuse: no method ever answers              *)
(* RetainedState to a journal this state machine produced.                 *)
(***************************************************************************)
ReplayAccepted == ValidReplay(journal)

(***************************************************************************)
(* Recorded outcomes are history: a step keeps the plan and every recorded *)
(* entry, records at most one more, and only for an action whose intent    *)
(* was recorded before; a terminal journal never changes again.            *)
(***************************************************************************)
HistoryKept ==
    [][/\ journal'.actions = journal.actions
       /\ journal'.snapshot = journal.snapshot
       /\ \/ journal'.entries = journal.entries
          \/ /\ journal.state \in {"AwaitingOutcome", "AmbiguousOutcome"}
             /\ Len(journal'.entries) = Len(journal.entries) + 1
             /\ \A i \in 1..Len(journal.entries) :
                   journal'.entries[i] = journal.entries[i]
       /\ journal.state \notin Terminal]_vars

\* The promise this journal keeps.
Promise == INSTANCE OrderedPublication WITH
    total   <- Len(journal.actions),
    settled <- Len(journal.entries),
    phase   <- CASE journal.state = "Ready" -> "idle"
                 [] journal.state \in {"AwaitingOutcome", "AmbiguousOutcome"}
                      -> "intended"
                 [] journal.state = "Completed" -> "finished"
                 [] OTHER -> "abandoned"

(***************************************************************************)
(* The journal implements ordered, exactly-once settlement: marking an     *)
(* outcome ambiguous is invisible, reconciliation settles or withdraws the *)
(* intent, and staleness or failure abandons the rest of the plan.         *)
(***************************************************************************)
ImplementsPromise == Promise!Spec

=============================================================================
