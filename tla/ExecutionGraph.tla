---------------------------- MODULE ExecutionGraph ----------------------------
(***************************************************************************)
(* The execution graph of crates/revoot-core/src/execution_graph.rs: a     *)
(* plan of dependent nodes, compiled once, and a run that records every    *)
(* change of a node as an event.                                           *)
(*                                                                         *)
(* A node identity is a number, ordered as the code orders identifiers.    *)
(* What a node contributes is the use it reports; the facts it adds to a   *)
(* set guard nothing.  A call that is refused changes nothing and is a     *)
(* stuttering step.                                                        *)
(***************************************************************************)
EXTENDS Integers, FiniteSets, Sequences

CONSTANTS
    Id,            \* node identities a plan may use
    MaxEvents,     \* bound: the event limit of a plan
    MaxParallel,   \* bound: the parallelism limit of a plan
    MaxMillis,     \* bound: the clock
    Contribution,  \* what a node may report
    MaxUsage       \* u32::MAX

ASSUME GraphAssumption ==
    /\ Id \subseteq Nat /\ IsFiniteSet(Id)
    /\ MaxEvents \in Nat /\ MaxParallel \in Nat /\ MaxMillis \in Nat
    /\ Contribution \subseteq Nat /\ MaxUsage \in Nat

VARIABLES
    deps,         \* the plan: the dependencies of each of its nodes
    maxEvents,    \* limits.max_events
    maxParallel,  \* limits.max_parallel_nodes
    states,       \* per node, its state
    events,       \* the journal
    usage,        \* the reduced use
    latest        \* last_observed_millis

plan == <<deps, maxEvents, maxParallel>>
graphVars == <<plan, states, events, usage, latest>>

State == {"Pending", "Running", "Completed", "Failed", "Cancelled"}

Kind == {"Started", "Completed", "Failed", "Cancelled"}

Nodes == DOMAIN deps

In(state) == {n \in Nodes : states[n] = state}

Open == In("Pending") \cup In("Running")

-----------------------------------------------------------------------------
(* Compiling a plan.                                                       *)

\* A mutant of Kahn: a node is visited once one of its dependencies was.
KahnEager(d) ==
    LET visit[S \in SUBSET DOMAIN d] ==
            LET ready == {n \in DOMAIN d \ S : d[n] = {} \/ d[n] \cap S # {}}
            IN  IF ready = {} THEN S
                ELSE visit[S \cup {CHOOSE n \in ready : \A m \in ready : n <= m}]
    IN  visit[{}]

\* validate_acyclic: the nodes visited by taking, again and again, the first
\* node whose dependencies were all taken.
Kahn(d) ==
    LET visit[S \in SUBSET DOMAIN d] ==
            LET ready == {n \in DOMAIN d \ S : d[n] \subseteq S}
            IN  IF ready = {} THEN S
                ELSE visit[S \cup {CHOOSE n \in ready : \A m \in ready : n <= m}]
    IN  visit[{}]

\* A mutant of Provisioned: one event per node is thought to be enough.
ProvisionedOnce(d, limit) == DOMAIN d # {} /\ Cardinality(DOMAIN d) <= limit

\* A start and an end can be recorded for every node.
Provisioned(d, limit) ==
    DOMAIN d # {} /\ 2 * Cardinality(DOMAIN d) <= limit

Accepted(d, limit) ==
    /\ Provisioned(d, limit)
    /\ \A n \in DOMAIN d : n \notin d[n] /\ d[n] \subseteq DOMAIN d
    /\ Kahn(d) = DOMAIN d

GraphInit ==
    /\ deps \in UNION {[N -> SUBSET Id] : N \in SUBSET Id}
    /\ maxEvents \in 1..MaxEvents
    /\ maxParallel \in 1..MaxParallel
    /\ Accepted(deps, maxEvents)
    /\ states = [n \in DOMAIN deps |-> "Pending"]
    /\ events = <<>>
    /\ usage = 0
    /\ latest = 0

GraphTypeOK ==
    /\ deps \in [Nodes -> SUBSET Nodes]
    /\ Nodes \subseteq Id
    /\ maxEvents \in 1..MaxEvents
    /\ maxParallel \in 1..MaxParallel
    /\ states \in [Nodes -> State]
    /\ events \in Seq([node : Nodes, kind : Kind, at : 0..MaxMillis])
    /\ usage \in 0..MaxUsage
    /\ latest \in 0..MaxMillis

-----------------------------------------------------------------------------
(* Running it.                                                             *)

Runnable == {n \in In("Pending") : deps[n] \subseteq In("Completed")}

Capacity == maxParallel - Cardinality(In("Running"))

\* ready_nodes: the first runnable nodes, as many as may still run.
Ready == {n \in Runnable : Cardinality({m \in Runnable : m < n}) < Capacity}

\* transition, for the node n.
Record(n, state, kind, now) ==
    /\ now >= latest
    /\ Len(events) < maxEvents
    /\ states' = [states EXCEPT ![n] = state]
    /\ events' = Append(events, [node |-> n, kind |-> kind, at |-> now])
    /\ latest' = now

Start(n, now) ==
    /\ n \in Ready
    /\ Record(n, "Running", "Started", now)
    /\ UNCHANGED <<plan, usage>>

\* complete: the use is added up before anything changes.
Complete(n, use, now) ==
    /\ n \in In("Running")
    /\ usage + use <= MaxUsage
    /\ Record(n, "Completed", "Completed", now)
    /\ usage' = usage + use
    /\ UNCHANGED plan

\* A mutant of Fail: a node that was not started may fail.
FailAny(n, now) ==
    /\ n \in Open
    /\ Record(n, "Failed", "Failed", now)
    /\ UNCHANGED <<plan, usage>>

Fail(n, now) ==
    /\ n \in In("Running")
    /\ Record(n, "Failed", "Failed", now)
    /\ UNCHANGED <<plan, usage>>

\* cancel_remaining: in order, one transition per open node, up to the first
\* that finds the journal full.
CancelRemaining(now) ==
    /\ now >= latest
    /\ \E S \in SUBSET Open \ {{}} :
          /\ Len(events) + Cardinality(S) <= maxEvents
          /\ S = Open \/ Len(events) + Cardinality(S) = maxEvents
          /\ \A n \in S, m \in Open \ S : n < m
          /\ states' = [n \in Nodes |-> IF n \in S THEN "Cancelled" ELSE states[n]]
          /\ \E order \in [1..Cardinality(S) -> S] :
                /\ \A i, j \in DOMAIN order : i < j => order[i] < order[j]
                /\ events' = events \o
                      [i \in DOMAIN order |->
                          [node |-> order[i], kind |-> "Cancelled", at |-> now]]
    /\ latest' = now
    /\ UNCHANGED <<plan, usage>>

GraphNext ==
    \E now \in 0..MaxMillis :
       \/ \E n \in Nodes : \/ Start(n, now)
                           \/ \E use \in Contribution : Complete(n, use, now)
                           \/ Fail(n, now)
       \/ CancelRemaining(now)

GraphSpec == GraphInit /\ [][GraphNext]_graphVars

-----------------------------------------------------------------------------
(* Properties.                                                             *)

(***************************************************************************)
(* No node runs before what it depends on: in the journal, the start of a  *)
(* node comes after the completion of every dependency, however starts,    *)
(* failures and cancellations interleave.                                  *)
(***************************************************************************)
DependenciesFirst ==
    \A i \in DOMAIN events : events[i].kind = "Started" =>
        \A d \in deps[events[i].node] :
            \E j \in 1..(i - 1) : events[j].node = d
                                  /\ events[j].kind = "Completed"

(***************************************************************************)
(* Never more nodes run than the plan allows.                              *)
(***************************************************************************)
ParallelismBounded == Cardinality(In("Running")) <= maxParallel

(***************************************************************************)
(* The journal of an accepted plan never fills up before every open node   *)
(* has recorded its end, so no transition and no cancellation of the rest  *)
(* is ever refused for lack of room or left half done.                     *)
(***************************************************************************)
JournalSuffices ==
    Len(events) + 2 * Cardinality(In("Pending")) + Cardinality(In("Running"))
        <= maxEvents

\* The journal records an event of that kind for the node.
Recorded(n, kind) == \E i \in DOMAIN events :
                        events[i].node = n /\ events[i].kind = kind

(***************************************************************************)
(* The journal alone tells the state of every node: replaying it gives the *)
(* states, an end is recorded once, and a completion or failure follows a  *)
(* start.                                                                  *)
(***************************************************************************)
JournalReplays ==
    /\ \A n \in Nodes :
          /\ states[n] \in {"Completed", "Failed", "Cancelled"} <=>
                \E kind \in Kind \ {"Started"} : Recorded(n, kind)
          /\ states[n] # "Pending" =>
                states[n] = "Running" \/ Recorded(n, states[n])
          /\ states[n] \in {"Running", "Completed", "Failed"}
                => Recorded(n, "Started")
          /\ states[n] = "Pending" => ~Recorded(n, "Started")
    /\ \A i, j \in DOMAIN events : i < j =>
          /\ events[i].at <= events[j].at
          /\ events[i].node = events[j].node => events[i].kind = "Started"

(***************************************************************************)
(* A run of an accepted plan is never stuck: while a node is open, one     *)
(* runs, or one is ready, or an earlier failure or cancellation explains   *)
(* why the rest waits.                                                     *)
(***************************************************************************)
NeverStuck ==
    Open # {} => \/ In("Running") # {} \/ Ready # {}
                 \/ In("Failed") \cup In("Cancelled") # {}

=============================================================================
