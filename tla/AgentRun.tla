------------------------------- MODULE AgentRun -------------------------------
(***************************************************************************)
(* One run of the review agent, crates/revoot-core/src/agent.rs: AgentRun  *)
(* with its AgentBudget, against a provider that answers, fails or names   *)
(* another model, a caller's clock and a cancellation from outside.        *)
(*                                                                         *)
(* complete_provider_turn keeps the run borrowed while it awaits the       *)
(* provider, so during a turn only time passes and the cancellation        *)
(* arrives.  An amount of use is a function on some of the dimensions of   *)
(* the budget.  A call that is refused may still have moved the clock of   *)
(* the ledger: that is observe_time, and it is part of every charge.       *)
(***************************************************************************)
EXTENDS Integers, FiniteSets, Functions

CONSTANTS
    Reported,    \* dimensions whose use the provider reports
    Priced,      \* dimensions charged at what was reserved
    Drawn,       \* dimensions the repository tools draw on
    Limit,       \* the budget's limit in each dimension
    MaxElapsed,  \* max_elapsed_millis
    MaxTime,     \* bound: the clock
    MaxAmount,   \* bound: what one call reserves, uses or draws
    WorkUnit,    \* the work units of the invocation
    None

Metered == Reported \cup Priced

Counted == {"turns", "requests", "candidates"}

Dim == Metered \cup Drawn \cup Counted

Amount == 0..MaxAmount

ASSUME AgentAssumption ==
    /\ Limit \in [Dim -> Nat]
    /\ MaxElapsed \in Nat /\ MaxTime \in Nat /\ MaxAmount \in Nat
    /\ Reported \cap Priced = {}
    /\ Metered \cap Drawn = {}
    /\ (Metered \cup Drawn) \cap Counted = {}
    /\ None \notin [Metered -> Amount]
    /\ IsFiniteSet(WorkUnit)

VARIABLES
    state,      \* AgentRun.state
    used,       \* AgentBudget.usage, without the elapsed time
    last,       \* last_observed_millis
    inFlight,   \* AgentBudget.in_flight: the reservation
    accepted,   \* accepted_candidates: the size of each unit's envelope
    outcome,    \* what the run ended with
    awaiting,   \* is complete_provider_turn awaiting the provider
    cancelled,  \* the cancellation token
    clock,      \* the caller's monotonic clock
    spent,      \* history: what the provider really used
    overrun     \* history: did it ever use more than was reserved

ledger == <<used, last, inFlight>>
past == <<spent, overrun>>
vars == <<state, ledger, accepted, outcome, awaiting, cancelled, clock, past>>

Nothing == [u \in {} |-> 0]

TypeOK ==
    /\ state \in {"Ready", "InFlight", "Finished"}
    /\ used \in [Dim -> Nat]
    /\ last \in 0..MaxElapsed
    /\ inFlight \in [Metered -> Amount] \cup {None}
    /\ DOMAIN accepted \subseteq WorkUnit
    /\ accepted \in [DOMAIN accepted -> Amount]
    /\ outcome \in {None, "Complete", "Partial", "NoFindings", "Stopped"}
    /\ awaiting \in BOOLEAN /\ cancelled \in BOOLEAN /\ overrun \in BOOLEAN
    /\ clock \in 0..MaxTime
    /\ spent \in [Reported -> Nat]

Init ==
    /\ state = "Ready"
    /\ used = [d \in Dim |-> 0] /\ last = 0 /\ inFlight = None
    /\ accepted = Nothing /\ outcome = None
    /\ awaiting = FALSE /\ cancelled = FALSE /\ clock = 0
    /\ spent = [d \in Reported |-> 0] /\ overrun = FALSE

-----------------------------------------------------------------------------
(* The ledger.  The run starts at time 0.                                  *)

OnTime == clock <= MaxElapsed

\* observe_time: past the deadline nothing is recorded.
Observed == IF OnTime THEN clock ELSE last

With(amount) ==
    [d \in Dim |-> IF d \in DOMAIN amount THEN used[d] + amount[d] ELSE used[d]]

\* ensure_u32, ensure_u64: a sum that would overflow is over any limit.
Fits(amount) == \A d \in DOMAIN amount : used[d] + amount[d] <= Limit[d]

\* A mutant of Claim: the turn is counted and the reservation is not looked at.
ClaimTurn(reservation) ==
    [d \in {"turns", "requests"} |-> 1]

\* What begin_model_request checks: a turn, a request and the reservation.
Claim(reservation) ==
    [d \in Metered \cup {"turns", "requests"} |->
        IF d \in Metered THEN reservation[d] ELSE 1]

-----------------------------------------------------------------------------
(* A turn.                                                                 *)

BeginTurn ==
    /\ state = "Ready" /\ ~awaiting /\ ~cancelled
    /\ last' = Observed
    /\ \E reservation \in [Metered -> Amount] :
          IF OnTime /\ Fits(Claim(reservation))
          THEN /\ used' = With([d \in {"turns", "requests"} |-> 1])
               /\ inFlight' = reservation
               /\ state' = "InFlight"
               /\ awaiting' = TRUE
          ELSE UNCHANGED <<used, inFlight, state, awaiting>>
    /\ UNCHANGED <<accepted, outcome, cancelled, clock, past>>

\* What the provider used is known to the provider alone.
Uses(use) == spent' = [d \in Reported |-> spent[d] + use[d]]

\* A mutant of Abandon: an abandoned request costs nothing.
AbandonFree ==
    /\ last' = Observed
    /\ IF OnTime
       THEN /\ inFlight' = None
            /\ state' = "Ready"
       ELSE UNCHANGED <<inFlight, state>>
    /\ UNCHANGED used

\* abandon_model_request, on an error and on an answer of another model: the
\* reservation is charged in full, except past the deadline.
Abandon ==
    /\ last' = Observed
    /\ IF OnTime
       THEN /\ used' = With(inFlight)
            /\ inFlight' = None
            /\ state' = "Ready"
       ELSE UNCHANGED <<used, inFlight, state>>

ProviderFails ==
    /\ awaiting
    /\ awaiting' = FALSE
    /\ Abandon
    /\ \E use \in [Reported -> Amount] :
          /\ \A d \in Reported : use[d] <= inFlight[d]
          /\ Uses(use)
    /\ UNCHANGED <<accepted, outcome, cancelled, clock, overrun>>

\* A mutant of Settle: a turn that cannot be settled is over all the same.
SettleAnyway(use) ==
    LET settled == OnTime /\ ~cancelled /\ \A d \in Metered : use[d] <= inFlight[d]
    IN  /\ last' = IF cancelled THEN last ELSE Observed
        /\ used' = IF settled THEN With(use) ELSE used
        /\ inFlight' = IF settled THEN None ELSE inFlight
        /\ state' = "Ready"

\* finish_turn and finish_model_request: a cancelled, a late and an
\* overdrawn turn are not settled, and the run stays in flight.
Settle(use) ==
    LET settled == OnTime /\ ~cancelled /\ \A d \in Metered : use[d] <= inFlight[d]
    IN  /\ last' = IF cancelled THEN last ELSE Observed
        /\ used' = IF settled THEN With(use) ELSE used
        /\ inFlight' = IF settled THEN None ELSE inFlight
        /\ state' = IF settled THEN "Ready" ELSE state

ProviderAnswers ==
    /\ awaiting
    /\ awaiting' = FALSE
    /\ \E use \in [Reported -> Amount] :
          /\ Settle([d \in Metered |->
                        IF d \in Priced THEN inFlight[d] ELSE use[d]])
          /\ Uses(use)
          /\ overrun' = (overrun \/ \E d \in Reported : use[d] > inFlight[d])
    /\ UNCHANGED <<accepted, outcome, cancelled, clock>>

-----------------------------------------------------------------------------
(* Between turns.  The ledger is lent to the tools whatever the state.     *)

\* charge_tool: all dimensions or none.
ChargeTool ==
    /\ ~awaiting
    /\ last' = Observed
    /\ \E amount \in [Drawn -> Amount] :
          used' = IF OnTime /\ Fits(amount) THEN With(amount) ELSE used
    /\ UNCHANGED <<state, inFlight, accepted, outcome, awaiting, cancelled,
                   clock, past>>

\* submit_candidate: the findings are charged before the hook is asked and
\* before a second envelope of a work unit is turned away.
SubmitCandidate(unit, size, admitted) ==
    /\ state # "Finished" /\ ~awaiting
    /\ Fits([d \in {"candidates"} |-> size])
    /\ used' = With([d \in {"candidates"} |-> size])
    /\ accepted' = IF admitted /\ unit \notin DOMAIN accepted
                   THEN [u \in DOMAIN accepted \cup {unit} |->
                            IF u = unit THEN size ELSE accepted[u]]
                   ELSE accepted
    /\ UNCHANGED <<state, last, inFlight, outcome, awaiting, cancelled, clock,
                   past>>

-----------------------------------------------------------------------------
(* The end.                                                                *)

\* finish: an envelope may be empty, and a run that accepted one does not
\* count as one without findings.
Finish(omissions) ==
    /\ state = "Ready" /\ ~awaiting /\ ~cancelled
    /\ state' = "Finished"
    /\ outcome' = IF DOMAIN accepted = {} THEN "NoFindings"
                  ELSE IF omissions THEN "Partial" ELSE "Complete"
    /\ accepted' = Nothing
    /\ UNCHANGED <<ledger, awaiting, cancelled, clock, past>>

\* stale, blocked, failed, and cancelled once it was: from any live state, a
\* turn in flight included.
Terminate ==
    /\ state # "Finished" /\ ~awaiting
    /\ state' = "Finished"
    /\ outcome' = "Stopped"
    /\ UNCHANGED <<ledger, accepted, awaiting, cancelled, clock, past>>

-----------------------------------------------------------------------------
(* The world.                                                              *)

Cancel ==
    /\ ~cancelled
    /\ cancelled' = TRUE
    /\ UNCHANGED <<state, ledger, accepted, outcome, awaiting, clock, past>>

Tick ==
    /\ clock < MaxTime
    /\ clock' = clock + 1
    /\ UNCHANGED <<state, ledger, accepted, outcome, awaiting, cancelled, past>>

Next ==
    \/ BeginTurn \/ ProviderFails \/ ProviderAnswers \/ ChargeTool
    \/ \E unit \in WorkUnit, size \in Amount, admitted \in BOOLEAN :
          SubmitCandidate(unit, size, admitted)
    \/ \E omissions \in BOOLEAN : Finish(omissions)
    \/ Terminate \/ Cancel \/ Tick

Spec == Init /\ [][Next]_vars

-----------------------------------------------------------------------------
(* Properties.                                                             *)

Reserved(d) ==
    IF inFlight = None \/ d \notin Metered THEN 0 ELSE inFlight[d]

(***************************************************************************)
(* What is charged together with what is reserved never exceeds the budget *)
(* in any dimension: a turn can always be settled or abandoned in full     *)
(* without breaking a limit, in whatever order turns, tools and candidates *)
(* draw on the ledger.                                                     *)
(***************************************************************************)
BudgetRespected == \A d \in Dim : used[d] + Reserved(d) <= Limit[d]

(***************************************************************************)
(* Failed and abandoned requests do not let retries bypass the budget:     *)
(* unless the provider broke a reservation, what it really used is covered *)
(* by what is charged and reserved, even if no answer ever said so.        *)
(***************************************************************************)
SpendingCovered ==
    overrun \/ \A d \in Reported : spent[d] <= used[d] + Reserved(d)

(***************************************************************************)
(* The run and its ledger agree on whether a turn is in flight, so a run   *)
(* that says it is ready is never refused a turn by its own ledger, and a  *)
(* turn that could not be settled is never mistaken for one that was.      *)
(***************************************************************************)
TurnsAgree ==
    /\ state = "Ready" => inFlight = None
    /\ state = "InFlight" => inFlight # None
    /\ awaiting => state = "InFlight"

(***************************************************************************)
(* Every finding a run has accepted was charged: all accepted envelopes    *)
(* together stay within the number of candidates charged, and so within    *)
(* the limit.                                                              *)
(***************************************************************************)
AcceptedCharged ==
    FoldFunction(LAMBDA a, b : a + b, 0, accepted) <= used["candidates"]

(***************************************************************************)
(* A run ends once: nothing replaces its outcome, reopens it or adds a     *)
(* candidate afterwards.                                                   *)
(***************************************************************************)
EndsOnce ==
    [][state = "Finished" =>
          state' = "Finished" /\ outcome' = outcome /\ accepted' = accepted]_vars

=============================================================================
