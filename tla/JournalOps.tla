------------------------------ MODULE JournalOps ------------------------------
(***************************************************************************)
(* The publication journal of crates/revoot-core/src/publication.rs as a   *)
(* value: a plan (an ordered sequence of create and no-op actions bound to *)
(* one snapshot), the index of the current action, the state of that       *)
(* action and the entries recorded so far.  Actions are numbered from 1;   *)
(* a completed journal has its index one past the last action.             *)
(*                                                                         *)
(* Digests are abstracted to their identity: a fingerprint is a natural    *)
(* number whose order is publication_order (a summary sorts last).         *)
(***************************************************************************)
EXTENDS Naturals, Sequences

CONSTANTS
    Snapshot,      \* identities of immutable merge-request snapshots
    Fingerprint,   \* publication fingerprints, in canonical order
    NoteId,        \* identities of notes on the host, never zero
    MaxActions     \* MAX_CANDIDATES

ASSUME JournalAssumption ==
    /\ Fingerprint \subseteq Nat
    /\ NoteId \subseteq Nat \ {0}
    /\ MaxActions \in Nat

\* A create action has no existing note; a no-op names the note it found.
PlanAction == [fingerprint : Fingerprint,
               decision    : {"Create", "NoOp"},
               note        : NoteId \cup {0}]

JournalState == {"Ready", "AwaitingOutcome", "AmbiguousOutcome",
                 "Completed", "StoppedStale", "Failed"}

InProgress == {"Ready", "AwaitingOutcome", "AmbiguousOutcome"}

Terminal == JournalState \ InProgress

Entry == [action      : Nat \ {0},
          fingerprint : Fingerprint,
          outcome     : {"Created", "NoOp", "Reconciled"},
          note        : NoteId]

Journal == [snapshot : Snapshot,
            actions  : Seq(PlanAction),
            state    : JournalState,
            at       : Nat \ {0},
            entries  : Seq(Entry)]

-----------------------------------------------------------------------------
(* Replay validation. *)

\* PublicationPlan::validate_replay: canonical order (so no fingerprint
\* twice), a bounded count, and a note identity exactly where one is expected.
ValidPlan(actions) ==
    /\ actions \in Seq(PlanAction)
    /\ Len(actions) <= MaxActions
    /\ \A i, k \in 1..Len(actions) :
          i < k => actions[i].fingerprint < actions[k].fingerprint
    /\ \A i \in 1..Len(actions) :
          actions[i].decision = "NoOp" <=> actions[i].note # 0

ValidOutcome(action, entry) ==
    \/ /\ action.decision = "Create"
       /\ entry.outcome \in {"Created", "Reconciled"}
    \/ /\ action.decision = "NoOp"
       /\ entry.outcome = "NoOp"
       /\ entry.note = action.note

ValidEntries(j) ==
    /\ Len(j.entries) <= Len(j.actions)
    /\ \A i \in 1..Len(j.entries) :
          /\ j.entries[i].action = i
          /\ j.entries[i].fingerprint = j.actions[i].fingerprint
          /\ ValidOutcome(j.actions[i], j.entries[i])

ValidState(j) ==
    /\ j.at = Len(j.entries) + 1
    /\ j.state = "Completed" <=> j.at = Len(j.actions) + 1
    /\ j.state = "AmbiguousOutcome" => j.actions[j.at].decision = "Create"

\* PublicationJournal::validate_replay.
ValidReplay(j) == ValidPlan(j.actions) /\ ValidEntries(j) /\ ValidState(j)

-----------------------------------------------------------------------------
(* Transitions of the journal value; the methods that apply them and the  *)
(* states they apply them in are the actions of PublicationJournal.       *)

Current(j) == j.actions[j.at]

TryNew(snapshot, actions) ==
    [snapshot |-> snapshot,
     actions  |-> actions,
     state    |-> IF actions = <<>> THEN "Completed" ELSE "Ready",
     at       |-> 1,
     entries  |-> <<>>]

InState(j, state) == [j EXCEPT !.state = state]

\* A mutant of CompleteCurrent: the last action is not recognised as the last.
CompleteCurrentOffByOne(j, outcome, note) ==
    [j EXCEPT !.entries = Append(@, [action      |-> j.at,
                                     fingerprint |-> Current(j).fingerprint,
                                     outcome     |-> outcome,
                                     note        |-> note]),
              !.at = @ + 1,
              !.state = IF j.at + 1 = Len(j.actions) THEN "Completed" ELSE "Ready"]

CompleteCurrent(j, outcome, note) ==
    [j EXCEPT !.entries = Append(@, [action      |-> j.at,
                                     fingerprint |-> Current(j).fingerprint,
                                     outcome     |-> outcome,
                                     note        |-> note]),
              !.at = @ + 1,
              !.state = IF j.at = Len(j.actions) THEN "Completed" ELSE "Ready"]

\* confirm while an outcome is awaited: a create accepts any note the host
\* reports, a no-op only the note the plan found.
Confirmed(j, note) ==
    CASE Current(j).decision = "Create"
           -> CompleteCurrent(j, "Created", note)
      [] Current(j).decision = "NoOp" /\ Current(j).note = note
           -> CompleteCurrent(j, "NoOp", note)
      [] OTHER -> InState(j, "Failed")

\* reconcile_ambiguous, given the notes of a complete inventory that the bot
\* wrote and whose terminal marker is the current action's.
Reconciled(j, matches) ==
    CASE matches = {} -> InState(j, "Ready")
      [] \E n \in matches : matches = {n}
           -> CompleteCurrent(j, "Reconciled", CHOOSE n \in matches : TRUE)
      [] OTHER -> InState(j, "Failed")

=============================================================================
