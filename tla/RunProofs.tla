------------------------------ MODULE RunProofs ------------------------------
(***************************************************************************)
(* Proofs about the two halves of a review's run, for any sizes: the       *)
(* execution graph (ExecutionGraph) over any finite set of node identities *)
(* and any limits, and an agent run (AgentRun) with any dimensions, limits *)
(* and work units.                                                         *)
(*                                                                         *)
(* The recursion of validate_acyclic is shown to define a function, by     *)
(* induction on the nodes that are left, and to take no node of a cycle;   *)
(* an accepted plan has so none, which is why a run of it is never stuck.  *)
(* The sum of AcceptedCharged is shown not to depend on the order it takes *)
(* and to grow by one envelope at a time.                                  *)
(***************************************************************************)
EXTENDS ExecutionGraph, AgentRun, SharedLemmas

(***************************************************************************)
(* The execution graph.                                                    *)
(***************************************************************************)

Event == [node : Nodes, kind : Kind, at : 0..MaxMillis]

\* No recorded time is later than the last observed one.
LastIsLatest == \A i \in DOMAIN events : events[i].at <= latest

GraphInv ==
    /\ GraphTypeOK
    /\ ParallelismBounded
    /\ JournalSuffices
    /\ LastIsLatest
    /\ JournalReplays
    /\ DependenciesFirst

-----------------------------------------------------------------------------

\* The nodes in one state are finitely many.
LEMMA InFinite ==
    ASSUME GraphTypeOK, NEW s
    PROVE  /\ IsFiniteSet(In(s)) /\ Cardinality(In(s)) \in Nat
           /\ IsFiniteSet(Nodes) /\ In(s) \subseteq Nodes
  <1>1. IsFiniteSet(Nodes)
    BY GraphAssumption, FS_Subset DEF GraphTypeOK
  <1>2. In(s) \in SUBSET Nodes
    BY DEF In
  <1>. QED
    BY <1>1, <1>2, FS_Subset, FS_CardinalityType

\* Every open node is pending or running, never both.
LEMMA OpenCount ==
    ASSUME GraphTypeOK
    PROVE  /\ IsFiniteSet(Open)
           /\ Cardinality(Open)
                = Cardinality(In("Pending")) + Cardinality(In("Running"))
  <1>1. In("Pending") \cap In("Running") = {}
    BY DEF In
  <1>2. Cardinality(In("Pending") \cap In("Running")) = 0
    BY <1>1, FS_EmptySet
  <1>3. /\ IsFiniteSet(In("Pending")) /\ Cardinality(In("Pending")) \in Nat
        /\ IsFiniteSet(In("Running")) /\ Cardinality(In("Running")) \in Nat
    BY InFinite
  <1>4. /\ IsFiniteSet(In("Pending") \cup In("Running"))
        /\ Cardinality(In("Pending") \cup In("Running"))
             = Cardinality(In("Pending")) + Cardinality(In("Running"))
               - Cardinality(In("Pending") \cap In("Running"))
    BY <1>3, FS_Union
  <1>. QED
    BY <1>2, <1>3, <1>4 DEF Open

\* A node that is ready is pending, with every dependency completed, and
\* leaves room for one more running node.
LEMMA ReadyHasRoom ==
    ASSUME GraphTypeOK, NEW n \in Ready
    PROVE  /\ n \in In("Pending") /\ deps[n] \subseteq In("Completed")
           /\ Cardinality(In("Running")) < maxParallel
  <1>1. n \in In("Pending") /\ deps[n] \subseteq In("Completed")
    BY DEF Ready, Runnable
  <1> DEFINE M == {m \in Runnable : m < n}
  <1>2. IsFiniteSet(M)
    <2>1. M \in SUBSET Nodes
      BY DEF Runnable, In
    <2>. QED
      BY <2>1, InFinite, FS_Subset
  <1>3. Cardinality(M) \in Nat
    BY <1>2, FS_CardinalityType
  <1>4. Cardinality(M) < Capacity
    BY DEF Ready
  <1>. QED
    BY <1>1, <1>3, <1>4, InFinite, GraphAssumption DEF Capacity, GraphTypeOK

\* What recording one event does to the journal.
LEMMA RecordAppends ==
    ASSUME GraphTypeOK, UNCHANGED plan,
           NEW n \in Nodes, NEW s \in State, NEW k \in Kind,
           NEW now \in 0..MaxMillis, Record(n, s, k, now)
    PROVE  /\ events' \in Seq(Event')
           /\ Len(events') = Len(events) + 1
           /\ \A i \in DOMAIN events : events'[i] = events[i]
           /\ events'[Len(events) + 1] = [node |-> n, kind |-> k, at |-> now]
           /\ DOMAIN events = 1..Len(events)
           /\ DOMAIN events' = 1..(Len(events) + 1)
           /\ Len(events) + 1 <= maxEvents
           /\ latest <= now /\ latest' = now /\ latest' \in 0..MaxMillis
           /\ states' \in [Nodes -> State]
           /\ \A m \in Nodes : states'[m] = IF m = n THEN s ELSE states[m]
  <1>1. Nodes' = Nodes /\ Event' = Event
    BY DEF plan, Nodes, Event
  <1>2. events \in Seq(Event) /\ Len(events) \in Nat
    BY DEF GraphTypeOK, Event
  <1>3. [node |-> n, kind |-> k, at |-> now] \in Event
    BY DEF Event
  <1>. QED
    BY <1>1, <1>2, <1>3 DEF Record, GraphTypeOK

\* What cancelling the rest does to the journal: room was kept for all of it.
LEMMA CancelAppends ==
    ASSUME GraphTypeOK, JournalSuffices, NEW now \in 0..MaxMillis, CancelRemaining(now)
    PROVE  \E order \in [1..Cardinality(Open) -> Open] :
              /\ \A i, j \in DOMAIN order : i < j => order[i] < order[j]
              /\ events' \in Seq(Event')
              /\ Cardinality(Open) \in Nat
              /\ Len(events') = Len(events) + Cardinality(Open)
              /\ Len(events') <= maxEvents
              /\ \A i \in DOMAIN events : events'[i] = events[i]
              /\ \A i \in DOMAIN order :
                    events'[Len(events) + i]
                        = [node |-> order[i], kind |-> "Cancelled", at |-> now]
              /\ DOMAIN events = 1..Len(events)
              /\ DOMAIN events' = 1..(Len(events) + Cardinality(Open))
              /\ latest <= now /\ latest' = now
              /\ states' \in [Nodes -> State]
              /\ \A m \in Nodes : states'[m] = IF m \in Open THEN "Cancelled"
                                               ELSE states[m]
  <1>1. Nodes' = Nodes /\ Event' = Event
    BY DEF CancelRemaining, plan, Nodes, Event
  <1>2. events \in Seq(Event) /\ Len(events) \in Nat /\ maxEvents \in Nat
    BY GraphAssumption DEF GraphTypeOK, Event
  <1>3. PICK S \in SUBSET Open \ {{}} :
          /\ Len(events) + Cardinality(S) <= maxEvents
          /\ S = Open \/ Len(events) + Cardinality(S) = maxEvents
          /\ states' = [n \in Nodes |-> IF n \in S THEN "Cancelled" ELSE states[n]]
          /\ \E order \in [1..Cardinality(S) -> S] :
                /\ \A i, j \in DOMAIN order : i < j => order[i] < order[j]
                /\ events' = events \o
                      [i \in DOMAIN order |->
                          [node |-> order[i], kind |-> "Cancelled", at |-> now]]
    BY DEF CancelRemaining
  <1>4. S = Open
    <2>1. /\ IsFiniteSet(Open) /\ Cardinality(Open) \in Nat
          /\ Len(events) + Cardinality(Open) <= maxEvents
      BY <1>2, OpenCount, InFinite DEF JournalSuffices
    <2>2. Cardinality(S) <= Cardinality(Open) /\ Cardinality(S) \in Nat
          /\ (Cardinality(S) = Cardinality(Open) => S = Open)
      BY <2>1, FS_Subset, FS_CardinalityType
    <2>. QED
      BY <1>2, <1>3, <2>1, <2>2
  <1>5. PICK order \in [1..Cardinality(Open) -> Open] :
          /\ \A i, j \in DOMAIN order : i < j => order[i] < order[j]
          /\ events' = events \o
                [i \in DOMAIN order |->
                    [node |-> order[i], kind |-> "Cancelled", at |-> now]]
    BY <1>3, <1>4
  <1> DEFINE tail == [i \in 1..Cardinality(Open) |->
                        [node |-> order[i], kind |-> "Cancelled", at |-> now]]
  <1>6. Cardinality(Open) \in Nat
    BY OpenCount, FS_CardinalityType
  <1>7. Open \subseteq Nodes
    BY DEF Open, In
  <1>8. tail \in Seq(Event) /\ Len(tail) = Cardinality(Open)
    <2>1. \A i \in 1..Cardinality(Open) : tail[i] \in Event
      BY <1>7 DEF Event, Kind
    <2>. QED
      BY <1>6, <2>1
  <1>9. events' = events \o tail
    BY <1>5
  <1> HIDE DEF tail
  <1>10. /\ events' \in Seq(Event') /\ Len(events') = Len(events) + Cardinality(Open)
         /\ \A i \in DOMAIN events : events'[i] = events[i]
         /\ \A i \in 1..Cardinality(Open) : events'[Len(events) + i] = tail[i]
         /\ DOMAIN events = 1..Len(events)
         /\ DOMAIN events' = 1..(Len(events) + Cardinality(Open))
    BY <1>1, <1>2, <1>6, <1>8, <1>9
  <1>11. states' \in [Nodes -> State]
         /\ \A m \in Nodes : states'[m] = IF m \in Open THEN "Cancelled"
                                          ELSE states[m]
    BY <1>3, <1>4 DEF GraphTypeOK, State
  <1>12. latest <= now /\ latest' = now
    BY DEF CancelRemaining, GraphTypeOK
  <1>13. \A i \in DOMAIN order :
            events'[Len(events) + i]
                = [node |-> order[i], kind |-> "Cancelled", at |-> now]
    BY <1>5, <1>10 DEF tail
  <1>14. Len(events') <= maxEvents
    BY <1>3, <1>4, <1>10
  <1>. WITNESS order \in [1..Cardinality(Open) -> Open]
  <1>. QED
    BY <1>5, <1>6, <1>10, <1>11, <1>12, <1>13, <1>14

-----------------------------------------------------------------------------

\* A journal that grows keeps what was recorded; what one event adds is it.
LEMMA RecordedGrows ==
    ASSUME GraphTypeOK, UNCHANGED plan,
           NEW n \in Nodes, NEW s \in State, NEW k \in Kind,
           NEW now \in 0..MaxMillis, Record(n, s, k, now)
    PROVE  \A m, kind : Recorded(m, kind)' <=>
                Recorded(m, kind) \/ (m = n /\ kind = k)
  <1>1. Len(events) \in Nat
    BY DEF GraphTypeOK
  <1>2. /\ \A i \in DOMAIN events : events'[i] = events[i]
        /\ events'[Len(events) + 1] = [node |-> n, kind |-> k, at |-> now]
        /\ DOMAIN events = 1..Len(events)
        /\ DOMAIN events' = 1..(Len(events) + 1)
    BY RecordAppends
  <1>3. \A i \in DOMAIN events' : i \in DOMAIN events \/ i = Len(events) + 1
    BY <1>1, <1>2
  <1>4. DOMAIN events \subseteq DOMAIN events' /\ Len(events) + 1 \in DOMAIN events'
    BY <1>1, <1>2
  <1>5. events'[Len(events) + 1].node = n /\ events'[Len(events) + 1].kind = k
    BY <1>2
  <1>. TAKE m, kind
  <1>6. Recorded(m, kind)' => Recorded(m, kind) \/ (m = n /\ kind = k)
    BY <1>2, <1>3, <1>5 DEF Recorded
  <1>7. Recorded(m, kind) => Recorded(m, kind)'
    BY <1>2, <1>4 DEF Recorded
  <1>8. Recorded(n, k)'
    BY <1>4, <1>5 DEF Recorded
  <1>. QED
    BY <1>6, <1>7, <1>8

\* The same for cancelling the rest.
LEMMA RecordedByCancel ==
    ASSUME GraphTypeOK, JournalSuffices, NEW now \in 0..MaxMillis, CancelRemaining(now)
    PROVE  \A m, kind : Recorded(m, kind)' <=>
                Recorded(m, kind) \/ (m \in Open /\ kind = "Cancelled")
  <1>1. Len(events) \in Nat
    BY DEF GraphTypeOK
  <1>2. PICK order \in [1..Cardinality(Open) -> Open] :
              /\ \A i, j \in DOMAIN order : i < j => order[i] < order[j]
              /\ Cardinality(Open) \in Nat
              /\ \A i \in DOMAIN events : events'[i] = events[i]
              /\ \A i \in DOMAIN order :
                    events'[Len(events) + i]
                        = [node |-> order[i], kind |-> "Cancelled", at |-> now]
              /\ DOMAIN events = 1..Len(events)
              /\ DOMAIN events' = 1..(Len(events) + Cardinality(Open))
    BY CancelAppends
  <1>3. Open \subseteq Nat
    BY GraphAssumption DEF Open, In, GraphTypeOK
  <1>4. \A m \in Open : \E i \in DOMAIN order : order[i] = m
    <2> DEFINE D == 1..Cardinality(Open)
    <2>1. \A i, j \in D : order[i] = order[j] => i = j
      <3>. TAKE i, j \in D
      <3>1. i \in DOMAIN order /\ j \in DOMAIN order /\ i \in Int /\ j \in Int
        BY <1>2
      <3>2. order[i] \in Nat /\ order[j] \in Nat
        BY <1>3
      <3>3. (i < j => order[i] < order[j]) /\ (j < i => order[j] < order[i])
        BY <1>2, <3>1
      <3>. QED
        BY <3>1, <3>2, <3>3
    <2>2. order \in Injection(D, Open)
      BY <2>1 DEF Injection, IsInjective
    <2>3. IsFiniteSet(D) /\ Cardinality(D) = Cardinality(Open)
      BY <1>2, FS_Interval
    <2>4. order \in Surjection(D, Open)
      BY <2>2, <2>3, OpenCount, FS_Injection
    <2>. QED
      BY <2>4 DEF Surjection
  <1>. TAKE m, kind
  <1>5. Recorded(m, kind) => Recorded(m, kind)'
    <2>1. DOMAIN events \subseteq DOMAIN events'
      BY <1>1, <1>2
    <2>. QED
      BY <1>2, <2>1 DEF Recorded
  <1>6. ASSUME m \in Open  PROVE  Recorded(m, "Cancelled")'
    <2>1. PICK i \in DOMAIN order : order[i] = m
      BY <1>4, <1>6
    <2>2. Len(events) + i \in DOMAIN events'
      BY <1>1, <1>2, <2>1
    <2>3. /\ events'[Len(events) + i].node = m
          /\ events'[Len(events) + i].kind = "Cancelled"
      <3>1. events'[Len(events) + i]
                = [node |-> order[i], kind |-> "Cancelled", at |-> now]
        BY <1>2
      <3>. QED
        BY <2>1, <3>1
    <2>. QED
      BY <2>2, <2>3 DEF Recorded
  <1>7. ASSUME Recorded(m, kind)'
        PROVE  Recorded(m, kind) \/ (m \in Open /\ kind = "Cancelled")
    <2>1. PICK i \in DOMAIN events' : events'[i].node = m /\ events'[i].kind = kind
      BY <1>7 DEF Recorded
    <2>2. CASE i \in DOMAIN events
      BY <1>2, <2>1, <2>2 DEF Recorded
    <2>3. CASE i \notin DOMAIN events
      <3>1. i - Len(events) \in DOMAIN order
            /\ i = Len(events) + (i - Len(events))
        BY <1>1, <1>2, <2>1, <2>3
      <3>2. events'[i] = [node |-> order[i - Len(events)],
                          kind |-> "Cancelled", at |-> now]
        BY <1>2, <3>1
      <3>3. order[i - Len(events)] \in Open
        BY <3>1
      <3>. QED
        BY <2>1, <3>2, <3>3
    <2>. QED
      BY <2>2, <2>3
  <1>. QED
    BY <1>5, <1>6, <1>7

-----------------------------------------------------------------------------

\* How a record of one node moves it between the pending and running nodes.
LEMMA RecordMoves ==
    ASSUME GraphTypeOK, UNCHANGED plan,
           NEW n \in Nodes, NEW s \in State, NEW k \in Kind,
           NEW now \in 0..MaxMillis, Record(n, s, k, now)
    PROVE  /\ Nodes' = Nodes
           /\ \A t : In(t)' = IF t = s THEN In(t) \cup {n} ELSE In(t) \ {n}
  <1>1. Nodes' = Nodes
    BY DEF plan, Nodes
  <1>2. \A m \in Nodes : states'[m] = IF m = n THEN s ELSE states[m]
    BY RecordAppends
  <1>. QED
    BY <1>1, <1>2 DEF In

\* Adding a node to one of these sets, and removing it from the other.
LEMMA InCount ==
    ASSUME GraphTypeOK, NEW s, NEW n
    PROVE  /\ n \notin In(s) =>
                  Cardinality(In(s) \cup {n}) = Cardinality(In(s)) + 1
           /\ n \in In(s) => Cardinality(In(s) \ {n}) = Cardinality(In(s)) - 1
           /\ n \notin In(s) => In(s) \ {n} = In(s)
  <1>1. IsFiniteSet(In(s))
    BY InFinite
  <1>2. Cardinality(In(s) \cup {n}) = IF n \in In(s) THEN Cardinality(In(s))
                                       ELSE Cardinality(In(s)) + 1
    BY <1>1, FS_AddElement
  <1>3. Cardinality(In(s) \ {n}) = IF n \in In(s) THEN Cardinality(In(s)) - 1
                                    ELSE Cardinality(In(s))
    BY <1>1, FS_RemoveElement
  <1>. QED
    BY <1>2, <1>3

\* Starting a ready node keeps within both limits.
LEMMA StartKeepsLimits ==
    ASSUME GraphTypeOK, JournalSuffices, NEW n \in Ready, NEW now \in 0..MaxMillis,
           Start(n, now)
    PROVE  ParallelismBounded' /\ JournalSuffices'
  <1>1. n \in In("Pending") /\ Cardinality(In("Running")) < maxParallel
    BY ReadyHasRoom
  <1>2. n \in Nodes /\ n \notin In("Running")
    BY <1>1 DEF In
  <1>3. /\ UNCHANGED plan /\ Record(n, "Running", "Started", now)
        /\ "Running" \in State /\ "Started" \in Kind
    BY DEF Start, State, Kind
  <1>4. In("Pending")' = In("Pending") \ {n} /\ In("Running")' = In("Running") \cup {n}
    BY <1>2, <1>3, RecordMoves
  <1>5. Len(events') = Len(events) + 1 /\ Len(events) \in Nat
    <2>1. Len(events') = Len(events) + 1
      BY <1>2, <1>3, RecordAppends
    <2>. QED
      BY <2>1 DEF GraphTypeOK
  <1>6. maxEvents' = maxEvents /\ maxParallel' = maxParallel
        /\ maxEvents \in Nat /\ maxParallel \in Nat
    BY <1>3, GraphAssumption DEF plan, GraphTypeOK
  <1>7. /\ Cardinality(In("Pending")') = Cardinality(In("Pending")) - 1
        /\ Cardinality(In("Running")') = Cardinality(In("Running")) + 1
        /\ Cardinality(In("Pending")) \in Nat /\ Cardinality(In("Running")) \in Nat
    BY <1>1, <1>2, <1>4, InCount, InFinite
  <1>. QED
    BY <1>1, <1>5, <1>6, <1>7 DEF ParallelismBounded, JournalSuffices

\* So does recording the end of a running node.
LEMMA EndKeepsLimits ==
    ASSUME GraphTypeOK, JournalSuffices, ParallelismBounded, UNCHANGED plan,
           NEW n \in In("Running"), NEW s \in {"Completed", "Failed"},
           NEW now \in 0..MaxMillis, Record(n, s, s, now)
    PROVE  ParallelismBounded' /\ JournalSuffices'
  <1>1. n \in Nodes /\ n \notin In("Pending")
    BY DEF In
  <1>2. s \in State /\ s \in Kind /\ s # "Pending" /\ s # "Running"
    BY DEF State, Kind
  <1>3. In("Pending")' = In("Pending") /\ In("Running")' = In("Running") \ {n}
    BY <1>1, <1>2, RecordMoves, InCount
  <1>4. Len(events') = Len(events) + 1 /\ Len(events) \in Nat
    <2>1. Len(events') = Len(events) + 1
      BY <1>1, <1>2, RecordAppends
    <2>. QED
      BY <2>1 DEF GraphTypeOK
  <1>5. maxEvents' = maxEvents /\ maxParallel' = maxParallel
        /\ maxEvents \in Nat /\ maxParallel \in Nat
    BY GraphAssumption DEF plan, GraphTypeOK
  <1>6. /\ Cardinality(In("Running")') = Cardinality(In("Running")) - 1
        /\ Cardinality(In("Pending")) \in Nat /\ Cardinality(In("Running")) \in Nat
    BY <1>3, InCount, InFinite
  <1>. QED
    BY <1>3, <1>4, <1>5, <1>6 DEF ParallelismBounded, JournalSuffices

\* And so does cancelling the rest, which leaves no node open.
LEMMA CancelKeepsLimits ==
    ASSUME GraphTypeOK, JournalSuffices, NEW now \in 0..MaxMillis, CancelRemaining(now)
    PROVE  ParallelismBounded' /\ JournalSuffices'
  <1>1. UNCHANGED plan /\ Nodes' = Nodes
    BY DEF CancelRemaining, plan, Nodes
  <1>2. /\ Len(events') <= maxEvents
        /\ \A m \in Nodes : states'[m] = IF m \in Open THEN "Cancelled"
                                         ELSE states[m]
    BY CancelAppends
  <1>3. In("Pending")' = {} /\ In("Running")' = {}
    BY <1>1, <1>2 DEF In, Open
  <1>4. Cardinality(In("Pending")') = 0 /\ Cardinality(In("Running")') = 0
    BY <1>3, FS_EmptySet
  <1>5. maxEvents' = maxEvents /\ maxParallel' = maxParallel
        /\ maxEvents \in Nat /\ maxParallel \in Nat
    BY <1>1, GraphAssumption DEF plan, GraphTypeOK
  <1>6. Len(events') \in Nat
    <2>1. events' \in Seq(Event')
      BY CancelAppends
    <2>. QED
      BY <2>1
  <1>. QED
    BY <1>2, <1>4, <1>5, <1>6 DEF ParallelismBounded, JournalSuffices

-----------------------------------------------------------------------------
(* The parts of JournalReplays: the states are those the journal tells,    *)
(* times never go back, and only a start is followed by another event of   *)
(* its node.                                                               *)

StatesTold ==
    \A n \in Nodes :
        /\ states[n] \in {"Completed", "Failed", "Cancelled"} <=>
              \E kind \in Kind \ {"Started"} : Recorded(n, kind)
        /\ states[n] # "Pending" =>
              states[n] = "Running" \/ Recorded(n, states[n])
        /\ states[n] \in {"Running", "Completed", "Failed"}
              => Recorded(n, "Started")
        /\ states[n] = "Pending" => ~Recorded(n, "Started")

InOrder ==
    \A i, j \in DOMAIN events : i < j =>
        /\ events[i].at <= events[j].at
        /\ events[i].node = events[j].node => events[i].kind = "Started"

LEMMA JournalReplaysParts == JournalReplays <=> StatesTold /\ InOrder
  BY DEF JournalReplays, StatesTold, InOrder

\* A move the code allows: a pending node starts, a running one ends.
Allowed(n, s, k) ==
    \/ states[n] = "Pending" /\ s = "Running" /\ k = "Started"
    \/ states[n] = "Running" /\ s \in {"Completed", "Failed"} /\ k = s

LEMMA EventTyped ==
    ASSUME GraphTypeOK, NEW i \in DOMAIN events
    PROVE  events[i] \in Event
  <1>1. events \in Seq(Event)
    BY DEF GraphTypeOK, Event
  <1>. QED
    BY <1>1

\* An open node has recorded no end, a pending one nothing.
LEMMA OpenUnrecorded ==
    ASSUME GraphTypeOK, StatesTold, NEW n \in Open, NEW i \in DOMAIN events,
           events[i].node = n
    PROVE  events[i].kind = "Started" /\ states[n] = "Running"
  <1>1. n \in Nodes /\ states[n] \in {"Pending", "Running"}
    BY DEF Open, In
  <1>2. events[i] \in Event
    BY EventTyped
  <1>3. events[i].kind \in Kind /\ Recorded(n, events[i].kind)
    BY <1>2 DEF Event, Recorded
  <1>4. events[i].kind = "Started"
    BY <1>1, <1>3 DEF StatesTold
  <1>. QED
    BY <1>1, <1>3, <1>4 DEF StatesTold

LEMMA RecordKeepsStates ==
    ASSUME GraphTypeOK, StatesTold, UNCHANGED plan,
           NEW n \in Nodes, NEW s \in State, NEW k \in Kind, Allowed(n, s, k),
           NEW now \in 0..MaxMillis, Record(n, s, k, now)
    PROVE  StatesTold'
  <1>1. Nodes' = Nodes
    BY RecordMoves
  <1>2. \A m \in Nodes : states'[m] = IF m = n THEN s ELSE states[m]
    BY RecordAppends
  <1>3. \A m, kind : Recorded(m, kind)' <=>
                Recorded(m, kind) \/ (m = n /\ kind = k)
    BY RecordedGrows
  <1>. SUFFICES ASSUME NEW m \in Nodes
                PROVE
        /\ states'[m] \in {"Completed", "Failed", "Cancelled"} <=>
              \E kind \in Kind \ {"Started"} : Recorded(m, kind)'
        /\ states'[m] # "Pending" =>
              states'[m] = "Running" \/ Recorded(m, states[m])'
        /\ states'[m] \in {"Running", "Completed", "Failed"}
              => Recorded(m, "Started")'
        /\ states'[m] = "Pending" => ~Recorded(m, "Started")'
    BY <1>1 DEF StatesTold
  <1>4. /\ states[m] \in {"Completed", "Failed", "Cancelled"} <=>
              \E kind \in Kind \ {"Started"} : Recorded(m, kind)
        /\ states[m] # "Pending" =>
              states[m] = "Running" \/ Recorded(m, states[m])
        /\ states[m] \in {"Running", "Completed", "Failed"}
              => Recorded(m, "Started")
        /\ states[m] = "Pending" => ~Recorded(m, "Started")
    BY DEF StatesTold
  <1>5. Recorded(m, states[m])' <=>
            Recorded(m, states'[m]) \/ (m = n /\ states'[m] = k)
    BY <1>3 DEF Recorded
  <1>6. CASE m # n
    BY <1>2, <1>3, <1>4, <1>5, <1>6
  <1>7. CASE m = n
    BY <1>2, <1>3, <1>4, <1>5, <1>7 DEF Allowed, Kind
  <1>. QED
    BY <1>6, <1>7

LEMMA RecordKeepsOrder ==
    ASSUME GraphTypeOK, StatesTold, InOrder, LastIsLatest, UNCHANGED plan,
           NEW n \in Nodes, NEW s \in State, NEW k \in Kind, Allowed(n, s, k),
           NEW now \in 0..MaxMillis, Record(n, s, k, now)
    PROVE  InOrder' /\ LastIsLatest'
  <1>1. /\ \A i \in DOMAIN events : events'[i] = events[i]
        /\ events'[Len(events) + 1] = [node |-> n, kind |-> k, at |-> now]
        /\ DOMAIN events = 1..Len(events)
        /\ DOMAIN events' = 1..(Len(events) + 1)
        /\ latest <= now /\ latest' = now
    BY RecordAppends
  <1>2. Len(events) \in Nat /\ latest \in Nat /\ now \in Nat
    BY GraphAssumption DEF GraphTypeOK
  <1>3. \A i \in DOMAIN events : events[i].at \in Nat
    <2>1. \A i \in DOMAIN events : events[i] \in Event
      BY EventTyped
    <2>. QED
      BY <2>1, GraphAssumption DEF Event
  <1>4. \A i \in DOMAIN events : events[i].at <= now
    BY <1>1, <1>2, <1>3 DEF LastIsLatest
  <1>5. LastIsLatest'
    <2>1. \A i \in DOMAIN events' : i \in DOMAIN events \/ i = Len(events) + 1
      BY <1>1, <1>2
    <2>2. events'[Len(events) + 1].at = now
      BY <1>1
    <2>. QED
      BY <1>1, <1>2, <1>4, <2>1, <2>2 DEF LastIsLatest
  <1>6. n \in Open
    BY DEF Allowed, Open, In
  <1>7. InOrder'
    <2>. SUFFICES ASSUME NEW i \in DOMAIN events', NEW j \in DOMAIN events', i < j
                  PROVE  /\ events'[i].at <= events'[j].at
                         /\ events'[i].node = events'[j].node
                               => events'[i].kind = "Started"
      BY DEF InOrder
    <2>1. i \in DOMAIN events /\ events'[i] = events[i]
      BY <1>1, <1>2
    <2>2. CASE j \in DOMAIN events
      BY <1>1, <2>1, <2>2 DEF InOrder
    <2>3. CASE j \notin DOMAIN events
      <3>1. events'[j] = [node |-> n, kind |-> k, at |-> now]
        BY <1>1, <1>2, <2>3
      <3>2. events'[j].at = now /\ events'[j].node = n
        BY <3>1
      <3>. QED
        BY <1>4, <1>6, <2>1, <3>2, OpenUnrecorded
    <2>. QED
      BY <2>2, <2>3
  <1>. QED
    BY <1>5, <1>7

\* Cancelling the rest keeps the journal telling the states.
LEMMA CancelKeepsStates ==
    ASSUME GraphTypeOK, StatesTold, JournalSuffices,
           NEW now \in 0..MaxMillis, CancelRemaining(now)
    PROVE  StatesTold'
  <1>1. Nodes' = Nodes
    BY DEF CancelRemaining, plan, Nodes
  <1>2. \A m \in Nodes : states'[m] = IF m \in Open THEN "Cancelled" ELSE states[m]
    BY CancelAppends
  <1>3. \A m, kind : Recorded(m, kind)' <=>
                Recorded(m, kind) \/ (m \in Open /\ kind = "Cancelled")
    BY RecordedByCancel
  <1>. SUFFICES ASSUME NEW m \in Nodes
                PROVE
        /\ states'[m] \in {"Completed", "Failed", "Cancelled"} <=>
              \E kind \in Kind \ {"Started"} : Recorded(m, kind)'
        /\ states'[m] # "Pending" =>
              states'[m] = "Running" \/ Recorded(m, states[m])'
        /\ states'[m] \in {"Running", "Completed", "Failed"}
              => Recorded(m, "Started")'
        /\ states'[m] = "Pending" => ~Recorded(m, "Started")'
    BY <1>1 DEF StatesTold
  <1>4. /\ states[m] \in {"Completed", "Failed", "Cancelled"} <=>
              \E kind \in Kind \ {"Started"} : Recorded(m, kind)
        /\ states[m] # "Pending" =>
              states[m] = "Running" \/ Recorded(m, states[m])
        /\ states[m] \in {"Running", "Completed", "Failed"}
              => Recorded(m, "Started")
        /\ states[m] = "Pending" => ~Recorded(m, "Started")
    BY DEF StatesTold
  <1>5. Recorded(m, states[m])' <=>
            Recorded(m, states'[m]) \/ (m \in Open /\ states'[m] = "Cancelled")
    BY <1>3 DEF Recorded
  <1>6. CASE m \notin Open
    BY <1>2, <1>3, <1>4, <1>5, <1>6
  <1>7. CASE m \in Open
    BY <1>2, <1>3, <1>4, <1>5, <1>7 DEF Kind
  <1>. QED
    BY <1>6, <1>7

\* And its order: the nodes cancelled are distinct and had recorded no end.
LEMMA CancelKeepsOrder ==
    ASSUME GraphTypeOK, StatesTold, InOrder, LastIsLatest, JournalSuffices,
           NEW now \in 0..MaxMillis, CancelRemaining(now)
    PROVE  InOrder' /\ LastIsLatest'
  <1>1. PICK order \in [1..Cardinality(Open) -> Open] :
              /\ \A i, j \in DOMAIN order : i < j => order[i] < order[j]
              /\ Cardinality(Open) \in Nat
              /\ \A i \in DOMAIN events : events'[i] = events[i]
              /\ \A i \in DOMAIN order :
                    events'[Len(events) + i]
                        = [node |-> order[i], kind |-> "Cancelled", at |-> now]
              /\ DOMAIN events = 1..Len(events)
              /\ DOMAIN events' = 1..(Len(events) + Cardinality(Open))
              /\ latest <= now /\ latest' = now
    BY CancelAppends
  <1>2. Len(events) \in Nat /\ latest \in Nat /\ now \in Nat
    BY GraphAssumption DEF GraphTypeOK
  <1>3. Open \subseteq Nat
    BY GraphAssumption DEF Open, In, GraphTypeOK
  <1>4. \A i \in DOMAIN events : events[i].at \in Nat /\ events[i].at <= now
    <2>1. \A i \in DOMAIN events : events[i].at \in Nat
      BY EventTyped, GraphAssumption DEF Event
    <2>. QED
      BY <1>1, <1>2, <2>1 DEF LastIsLatest
  <1>5. \A i \in DOMAIN events' : i \notin DOMAIN events =>
            /\ i \in Int /\ i - Len(events) \in DOMAIN order
            /\ events'[i].node = order[i - Len(events)]
            /\ events'[i].kind = "Cancelled" /\ events'[i].at = now
    <2>. SUFFICES ASSUME NEW i \in DOMAIN events', i \notin DOMAIN events
                  PROVE  /\ i \in Int /\ i - Len(events) \in DOMAIN order
                         /\ events'[i].node = order[i - Len(events)]
                         /\ events'[i].kind = "Cancelled" /\ events'[i].at = now
      OBVIOUS
    <2>1. i \in Int /\ i - Len(events) \in DOMAIN order
          /\ i = Len(events) + (i - Len(events))
      BY <1>1, <1>2
    <2>2. events'[i] = [node |-> order[i - Len(events)], kind |-> "Cancelled",
                        at |-> now]
      BY <1>1, <2>1
    <2>. QED
      BY <2>1, <2>2
  <1>6. LastIsLatest'
    BY <1>1, <1>2, <1>4, <1>5 DEF LastIsLatest
  <1>7. InOrder'
    <2>. SUFFICES ASSUME NEW i \in DOMAIN events', NEW j \in DOMAIN events', i < j
                  PROVE  /\ events'[i].at <= events'[j].at
                         /\ events'[i].node = events'[j].node
                               => events'[i].kind = "Started"
      BY DEF InOrder
    <2>1. CASE i \in DOMAIN events /\ j \in DOMAIN events
      BY <1>1, <2>1 DEF InOrder
    <2>2. CASE i \in DOMAIN events /\ j \notin DOMAIN events
      <3>1. events'[j].at = now /\ events'[j].node \in Open
        BY <1>5, <2>2
      <3>2. events'[i] = events[i]
        BY <1>1, <2>2
      <3>. QED
        BY <1>4, <2>2, <3>1, <3>2, OpenUnrecorded
    <2>3. CASE i \notin DOMAIN events
      <3>1. j \notin DOMAIN events
        BY <1>1, <1>2, <2>3
      <3>2. i - Len(events) < j - Len(events)
        BY <1>2, <1>5, <2>3, <3>1
      <3>3. order[i - Len(events)] < order[j - Len(events)]
        BY <1>1, <1>5, <2>3, <3>1, <3>2
      <3>4. order[i - Len(events)] # order[j - Len(events)]
        <4>1. order[i - Len(events)] \in Nat /\ order[j - Len(events)] \in Nat
          BY <1>3, <1>5, <2>3, <3>1
        <4>. QED
          BY <3>3, <4>1
      <3>. QED
        BY <1>2, <1>5, <2>3, <3>1, <3>4
    <2>. QED
      BY <2>1, <2>2, <2>3
  <1>. QED
    BY <1>6, <1>7

\* A recorded event is not a start, or its node's dependencies had completed.
LEMMA RecordKeepsDependencies ==
    ASSUME GraphTypeOK, DependenciesFirst, UNCHANGED plan,
           NEW n \in Nodes, NEW s \in State, NEW k \in Kind,
           NEW now \in 0..MaxMillis, Record(n, s, k, now),
           k = "Started" => \A d \in deps[n] : Recorded(d, "Completed")
    PROVE  DependenciesFirst'
  <1>1. /\ \A i \in DOMAIN events : events'[i] = events[i]
        /\ events'[Len(events) + 1] = [node |-> n, kind |-> k, at |-> now]
        /\ DOMAIN events = 1..Len(events)
        /\ DOMAIN events' = 1..(Len(events) + 1)
    BY RecordAppends
  <1>2. deps' = deps /\ Len(events) \in Nat
    BY DEF plan, GraphTypeOK
  <1>. SUFFICES ASSUME NEW i \in DOMAIN events', events'[i].kind = "Started",
                       NEW d \in deps[events'[i].node]
                PROVE  \E j \in 1..(i - 1) : events'[j].node = d
                                              /\ events'[j].kind = "Completed"
    BY <1>2 DEF DependenciesFirst
  <1>3. CASE i \in DOMAIN events
    <2>1. PICK j \in 1..(i - 1) : events[j].node = d /\ events[j].kind = "Completed"
      BY <1>1, <1>3 DEF DependenciesFirst
    <2>2. j \in DOMAIN events
      BY <1>1, <1>2, <1>3
    <2>. QED
      BY <1>1, <2>1, <2>2
  <1>4. CASE i \notin DOMAIN events
    <2>1. i = Len(events) + 1
      BY <1>1, <1>2, <1>4
    <2>2. events'[i].node = n /\ k = "Started"
      BY <1>1, <2>1
    <2>3. PICK j \in DOMAIN events : events[j].node = d /\ events[j].kind = "Completed"
      BY <2>2 DEF Recorded
    <2>4. j \in 1..(i - 1)
      BY <1>1, <1>2, <2>1
    <2>. QED
      BY <1>1, <2>3, <2>4
  <1>. QED
    BY <1>3, <1>4

LEMMA CancelKeepsDependencies ==
    ASSUME GraphTypeOK, DependenciesFirst, JournalSuffices,
           NEW now \in 0..MaxMillis, CancelRemaining(now)
    PROVE  DependenciesFirst'
  <1>1. PICK order \in [1..Cardinality(Open) -> Open] :
              /\ Cardinality(Open) \in Nat
              /\ \A i \in DOMAIN events : events'[i] = events[i]
              /\ \A i \in DOMAIN order :
                    events'[Len(events) + i]
                        = [node |-> order[i], kind |-> "Cancelled", at |-> now]
              /\ DOMAIN events = 1..Len(events)
              /\ DOMAIN events' = 1..(Len(events) + Cardinality(Open))
    BY CancelAppends
  <1>2. deps' = deps /\ Len(events) \in Nat
    BY DEF CancelRemaining, plan, GraphTypeOK
  <1>. SUFFICES ASSUME NEW i \in DOMAIN events', events'[i].kind = "Started",
                       NEW d \in deps[events'[i].node]
                PROVE  \E j \in 1..(i - 1) : events'[j].node = d
                                              /\ events'[j].kind = "Completed"
    BY <1>2 DEF DependenciesFirst
  <1>3. i \in DOMAIN events
    <2>. SUFFICES ASSUME i \notin DOMAIN events  PROVE FALSE
      OBVIOUS
    <2>1. i - Len(events) \in DOMAIN order /\ i = Len(events) + (i - Len(events))
      BY <1>1, <1>2
    <2>2. events'[i] = [node |-> order[i - Len(events)], kind |-> "Cancelled",
                        at |-> now]
      BY <1>1, <2>1
    <2>. QED
      BY <2>2
  <1>4. PICK j \in 1..(i - 1) : events[j].node = d /\ events[j].kind = "Completed"
    <2>1. events'[i] = events[i]
      BY <1>1, <1>3
    <2>2. events[i].kind = "Started" /\ d \in deps[events[i].node]
      BY <2>1
    <2>. QED
      BY <1>3, <2>2 DEF DependenciesFirst
  <1>5. j \in DOMAIN events
    BY <1>1, <1>2, <1>3
  <1>. QED
    BY <1>1, <1>4, <1>5

-----------------------------------------------------------------------------

LEMMA GraphInitially == GraphInit => GraphInv
  <1>. SUFFICES ASSUME GraphInit  PROVE GraphInv
    OBVIOUS
  <1>1. GraphTypeOK
    <2>1. Nodes \subseteq Id /\ deps \in [Nodes -> SUBSET Nodes]
      BY DEF GraphInit, Accepted, Nodes
    <2>2. states \in [Nodes -> State]
      BY DEF GraphInit, Nodes, State
    <2>. QED
      BY <2>1, <2>2, GraphAssumption DEF GraphInit, GraphTypeOK
  <1>2. In("Running") = {} /\ In("Pending") = Nodes
    BY DEF GraphInit, In, Nodes
  <1>3. Cardinality(In("Running")) = 0 /\ Cardinality(Nodes) \in Nat
    BY <1>1, <1>2, FS_EmptySet, InFinite, FS_CardinalityType
  <1>4. ParallelismBounded
    BY <1>1, <1>3, GraphAssumption DEF ParallelismBounded, GraphTypeOK
  <1>5. JournalSuffices
    <2>1. Len(events) = 0
      BY DEF GraphInit
    <2>2. 2 * Cardinality(Nodes) <= maxEvents
      BY DEF GraphInit, Accepted, Provisioned, Nodes
    <2>. QED
      BY <1>1, <1>2, <1>3, <2>1, <2>2, GraphAssumption
      DEF JournalSuffices, GraphTypeOK
  <1>6. LastIsLatest /\ InOrder /\ DependenciesFirst
    BY DEF GraphInit, LastIsLatest, InOrder, DependenciesFirst
  <1>7. StatesTold
    BY DEF GraphInit, StatesTold, Recorded, Nodes
  <1>. QED
    BY <1>1, <1>4, <1>5, <1>6, <1>7, JournalReplaysParts DEF GraphInv

\* A single record that the code allows preserves everything but the limits.
LEMMA RecordKeepsJournal ==
    ASSUME GraphInv, UNCHANGED plan,
           NEW n \in Nodes, NEW s \in State, NEW k \in Kind, Allowed(n, s, k),
           NEW now \in 0..MaxMillis, Record(n, s, k, now),
           k = "Started" => deps[n] \subseteq In("Completed"),
           usage' \in 0..MaxUsage
    PROVE  GraphTypeOK' /\ LastIsLatest' /\ JournalReplays' /\ DependenciesFirst'
  <1>1. GraphTypeOK /\ StatesTold /\ InOrder /\ LastIsLatest /\ DependenciesFirst
    BY JournalReplaysParts DEF GraphInv
  <1>2. GraphTypeOK'
    <2>1. /\ events' \in Seq(Event') /\ latest' \in 0..MaxMillis
          /\ states' \in [Nodes -> State]
      BY <1>1, RecordAppends
    <2>2. Nodes' = Nodes /\ deps' = deps
          /\ maxEvents' = maxEvents /\ maxParallel' = maxParallel
      BY DEF plan, Nodes
    <2>. QED
      BY <1>1, <2>1, <2>2 DEF GraphTypeOK, Event
  <1>3. StatesTold'
    BY <1>1, RecordKeepsStates
  <1>4. InOrder' /\ LastIsLatest'
    BY <1>1, RecordKeepsOrder
  <1>5. JournalReplays'
    BY <1>3, <1>4 DEF JournalReplays, StatesTold, InOrder
  <1>6. DependenciesFirst'
    <2>1. ASSUME k = "Started", NEW d \in deps[n]  PROVE Recorded(d, "Completed")
      <3>1. d \in Nodes /\ states[d] = "Completed"
        BY <2>1 DEF In
      <3>. QED
        BY <1>1, <3>1 DEF StatesTold
    <2>. QED
      BY <1>1, <2>1, RecordKeepsDependencies
  <1>. QED
    BY <1>2, <1>4, <1>5, <1>6

LEMMA GraphInductive == GraphInv /\ [GraphNext]_graphVars => GraphInv'
  <1>. SUFFICES ASSUME GraphInv, [GraphNext]_graphVars  PROVE GraphInv'
    OBVIOUS
  <1>. USE DEF GraphInv
  <1>1. ASSUME NEW now \in 0..MaxMillis, NEW n \in Nodes, Start(n, now)
        PROVE  GraphInv'
    <2>1. n \in Ready
      BY <1>1 DEF Start
    <2>2. n \in In("Pending") /\ deps[n] \subseteq In("Completed")
      BY <2>1, ReadyHasRoom
    <2>3. Allowed(n, "Running", "Started")
      BY <2>2 DEF Allowed, In
    <2>4. /\ UNCHANGED plan /\ usage' = usage
          /\ Record(n, "Running", "Started", now)
          /\ "Running" \in State /\ "Started" \in Kind
      BY <1>1 DEF Start, State, Kind
    <2>5. usage' \in 0..MaxUsage
      BY <2>4 DEF GraphTypeOK
    <2>6. GraphTypeOK' /\ LastIsLatest' /\ JournalReplays' /\ DependenciesFirst'
      BY <2>2, <2>3, <2>4, <2>5, RecordKeepsJournal
    <2>7. ParallelismBounded' /\ JournalSuffices'
      BY <1>1, <2>1, StartKeepsLimits
    <2>. QED
      BY <2>6, <2>7
  <1>2. ASSUME NEW now \in 0..MaxMillis, NEW n \in In("Running"),
               NEW s \in {"Completed", "Failed"}, Record(n, s, s, now),
               UNCHANGED plan, usage' \in 0..MaxUsage
        PROVE  GraphInv'
    <2>1. n \in Nodes /\ Allowed(n, s, s)
      BY <1>2 DEF Allowed, In
    <2>2. s \in State /\ s \in Kind /\ s # "Started"
      BY <1>2 DEF State, Kind
    <2>3. GraphTypeOK' /\ LastIsLatest' /\ JournalReplays' /\ DependenciesFirst'
      BY <1>2, <2>1, <2>2, RecordKeepsJournal
    <2>4. ParallelismBounded' /\ JournalSuffices'
      BY <1>2, EndKeepsLimits
    <2>. QED
      BY <2>3, <2>4
  <1>3. ASSUME NEW now \in 0..MaxMillis, NEW n \in Nodes,
               NEW use \in Contribution, Complete(n, use, now)
        PROVE  GraphInv'
    <2>1. usage' \in 0..MaxUsage
      BY <1>3, GraphAssumption DEF Complete, GraphTypeOK
    <2>2. n \in In("Running") /\ Record(n, "Completed", "Completed", now)
          /\ UNCHANGED plan
      BY <1>3 DEF Complete
    <2>. QED
      BY <1>2, <2>1, <2>2
  <1>4. ASSUME NEW now \in 0..MaxMillis, NEW n \in Nodes, Fail(n, now)
        PROVE  GraphInv'
    <2>1. usage' \in 0..MaxUsage
      BY <1>4 DEF Fail, GraphTypeOK
    <2>2. n \in In("Running") /\ Record(n, "Failed", "Failed", now)
          /\ UNCHANGED plan
      BY <1>4 DEF Fail
    <2>. QED
      BY <1>2, <2>1, <2>2
  <1>5. ASSUME NEW now \in 0..MaxMillis, CancelRemaining(now)
        PROVE  GraphInv'
    <2>1. StatesTold /\ InOrder
      BY JournalReplaysParts
    <2>2. StatesTold' /\ InOrder' /\ LastIsLatest'
      BY <1>5, <2>1, CancelKeepsStates, CancelKeepsOrder
    <2>3. JournalReplays'
      BY <2>2 DEF JournalReplays, StatesTold, InOrder
    <2>4. GraphTypeOK'
      <3>1. events' \in Seq(Event') /\ states' \in [Nodes -> State]
        BY <1>5, CancelAppends
      <3>2. /\ Nodes' = Nodes /\ deps' = deps /\ usage' = usage /\ latest' = now
            /\ maxEvents' = maxEvents /\ maxParallel' = maxParallel
        BY <1>5 DEF CancelRemaining, plan, Nodes
      <3>. QED
        BY <1>5, <3>1, <3>2 DEF GraphTypeOK, Event
    <2>5. DependenciesFirst'
      BY <1>5, CancelKeepsDependencies
    <2>6. ParallelismBounded' /\ JournalSuffices'
      BY <1>5, CancelKeepsLimits
    <2>. QED
      BY <2>2, <2>3, <2>4, <2>5, <2>6
  <1>6. CASE UNCHANGED graphVars
    BY <1>6 DEF graphVars, plan, GraphTypeOK, ParallelismBounded, JournalSuffices,
                LastIsLatest, JournalReplays, Recorded, DependenciesFirst,
                In, Nodes
  <1>. QED
    BY <1>1, <1>3, <1>4, <1>5, <1>6 DEF GraphNext

-----------------------------------------------------------------------------

(***************************************************************************)
(* A running graph is always well typed; in particular its reduced use     *)
(* never leaves its integer type and every event names a node of the plan. *)
(***************************************************************************)
THEOREM GraphTypeCorrect == GraphSpec => []GraphTypeOK
  <1>1. GraphInv => GraphTypeOK
    BY DEF GraphInv
  <1>. QED
    BY <1>1, GraphInitially, GraphInductive, PTL DEF GraphSpec

(***************************************************************************)
(* Never more than max_parallel_nodes nodes run, whatever the plan.        *)
(***************************************************************************)
THEOREM ParallelismAlwaysBounded == GraphSpec => []ParallelismBounded
  <1>1. GraphInv => ParallelismBounded
    BY DEF GraphInv
  <1>. QED
    BY <1>1, GraphInitially, GraphInductive, PTL DEF GraphSpec

(***************************************************************************)
(* try_new's check that two events fit per node is enough: the journal     *)
(* has room for the end of every node that is still open, at every moment. *)
(***************************************************************************)
THEOREM JournalAlwaysSuffices == GraphSpec => []JournalSuffices
  <1>1. GraphInv => JournalSuffices
    BY DEF GraphInv
  <1>. QED
    BY <1>1, GraphInitially, GraphInductive, PTL DEF GraphSpec

(***************************************************************************)
(* No node is ever recorded as started before each of its dependencies was *)
(* recorded as completed.                                                  *)
(***************************************************************************)
THEOREM DependenciesAlwaysFirst == GraphSpec => []DependenciesFirst
  <1>1. GraphInv => DependenciesFirst
    BY DEF GraphInv
  <1>. QED
    BY <1>1, GraphInitially, GraphInductive, PTL DEF GraphSpec

(***************************************************************************)
(* The journal is a complete and ordered record: it alone determines which *)
(* nodes ended and how.                                                    *)
(***************************************************************************)
THEOREM JournalAlwaysReplays == GraphSpec => []JournalReplays
  <1>1. GraphInv => JournalReplays
    BY DEF GraphInv
  <1>. QED
    BY <1>1, GraphInitially, GraphInductive, PTL DEF GraphSpec

-----------------------------------------------------------------------------
(* What Kahn's algorithm finds out.                                        *)

\* The nodes that may be taken after those of S, and the one that is taken.
Free(d, S) == {n \in DOMAIN d \ S : d[n] \subseteq S}

First(R) == CHOOSE n \in R : \A m \in R : n <= m

Visit(d, v, S) == IF Free(d, S) = {} THEN S ELSE v[S \cup {First(Free(d, S))}]

Left(d, S) == Cardinality(DOMAIN d \ S)

\* One round takes a node that was not taken.
LEMMA NodeTaken ==
    ASSUME NEW d, DOMAIN d \subseteq Nat, IsFiniteSet(DOMAIN d),
           NEW S \in SUBSET DOMAIN d, Free(d, S) # {}
    PROVE  /\ First(Free(d, S)) \in Free(d, S)
           /\ S \cup {First(Free(d, S))} \in SUBSET DOMAIN d
           /\ Left(d, S) \in Nat
           /\ Left(d, S \cup {First(Free(d, S))}) = Left(d, S) - 1
           /\ Left(d, S \cup {First(Free(d, S))}) \in Nat
  <1>. DEFINE R == Free(d, S)
              n == First(R)
  <1>1. R \in SUBSET Nat /\ R \subseteq DOMAIN d \ S
    BY DEF Free
  <1>2. n \in R
    <2>. HIDE DEF R
    <2>1. \E k \in R : \A m \in R : k <= m
      BY <1>1, LeastNumber DEF R
    <2>. QED
      BY <2>1 DEF First
  <1>. HIDE DEF n, R
  <1>3. n \in DOMAIN d \ S /\ (DOMAIN d \ S) \ {n} = DOMAIN d \ (S \cup {n})
    BY <1>1, <1>2
  <1>4. IsFiniteSet(DOMAIN d \ S) /\ IsFiniteSet(DOMAIN d \ (S \cup {n}))
    BY FS_Subset
  <1>5. Cardinality(DOMAIN d \ (S \cup {n})) = Cardinality(DOMAIN d \ S) - 1
    <2>1. Cardinality((DOMAIN d \ S) \ {n}) = Cardinality(DOMAIN d \ S) - 1
      BY <1>3, <1>4, FS_RemoveElement
    <2>. QED
      BY <1>3, <2>1
  <1>6. Cardinality(DOMAIN d \ S) \in Nat /\ Cardinality(DOMAIN d \ (S \cup {n})) \in Nat
    BY <1>4, FS_CardinalityType
  <1>. QED
    BY <1>2, <1>3, <1>5, <1>6 DEF Left, n, R

\* The recursion of Kahn defines a function: with each round fewer are left.
LEMMA Visits ==
    ASSUME NEW d, DOMAIN d \subseteq Nat, IsFiniteSet(DOMAIN d)
    PROVE  \E v : v = [S \in SUBSET DOMAIN d |-> Visit(d, v, S)]
  <1>. DEFINE Small(k) == {S \in SUBSET DOMAIN d : Left(d, S) <= k}
              Enough(k) == \E v : \A S \in Small(k) : v[S] = Visit(d, v, S)
              Bad == {k \in Nat : ~Enough(k)}
  <1>1. \A S \in SUBSET DOMAIN d : Left(d, S) \in Nat
    BY FS_Subset, FS_CardinalityType DEF Left
  <1>2. Bad = {}
    <2>. SUFFICES ASSUME Bad # {} PROVE FALSE
      OBVIOUS
    <2>1. PICK k \in Bad : \A j \in Bad : k <= j
      <3>1. Bad \in SUBSET Nat
        OBVIOUS
      <3>. HIDE DEF Bad
      <3>. QED
        BY <3>1, LeastNumber
    <2>2. k \in Nat /\ ~Enough(k)
      OBVIOUS
    <2>3. PICK v : \A S \in Small(k - 1) : v[S] = Visit(d, v, S)
      <3>1. CASE k = 0
        <4>1. Small(k - 1) = {}
          BY <1>1, <3>1
        <4>. QED
          BY <4>1
      <3>2. CASE k # 0
        <4>1. k - 1 \in Nat /\ ~(k <= k - 1)
          BY <2>2, <3>2
        <4>2. k - 1 \notin Bad
          BY <2>1, <4>1
        <4>3. Enough(k - 1)
          BY <4>1, <4>2
        <4>. QED
          BY <4>3
      <3>. QED
        BY <3>1, <3>2
    <2>. DEFINE w == [S \in SUBSET DOMAIN d |->
                        IF Left(d, S) <= k - 1 THEN v[S] ELSE Visit(d, v, S)]
    <2>4. ASSUME NEW S \in Small(k) PROVE w[S] = Visit(d, w, S)
      <3>1. S \in SUBSET DOMAIN d /\ Left(d, S) <= k
        BY <2>4
      <3>2. w[S] = Visit(d, v, S)
        <4>1. CASE Left(d, S) <= k - 1
          BY <2>3, <3>1, <4>1
        <4>2. CASE ~(Left(d, S) <= k - 1)
          BY <3>1, <4>2
        <4>. QED
          BY <4>1, <4>2
      <3>3. Visit(d, v, S) = Visit(d, w, S)
        <4>1. CASE Free(d, S) = {}
          BY <4>1 DEF Visit
        <4>2. CASE Free(d, S) # {}
          <5>. DEFINE T == S \cup {First(Free(d, S))}
          <5>1. T \in SUBSET DOMAIN d /\ Left(d, T) <= k - 1
            <6>1. /\ T \in SUBSET DOMAIN d /\ Left(d, S) \in Nat
                  /\ Left(d, T) = Left(d, S) - 1
              BY <3>1, <4>2, NodeTaken
            <6>. QED
              BY <2>2, <3>1, <6>1
          <5>. HIDE DEF T
          <5>2. w[T] = v[T]
            BY <5>1
          <5>. HIDE DEF w
          <5>. QED
            BY <4>2, <5>2 DEF Visit, T
        <4>. QED
          BY <4>1, <4>2
      <3>. QED
        BY <3>2, <3>3
    <2>. HIDE DEF w
    <2>5. Enough(k)
      BY <2>4
    <2>. QED
      BY <2>2, <2>5
  <1>3. Left(d, {}) \in Nat /\ \A S \in SUBSET DOMAIN d : Left(d, S) <= Left(d, {})
    <2>1. \A S \in SUBSET DOMAIN d : Cardinality(DOMAIN d \ S) <= Cardinality(DOMAIN d)
      BY FS_Subset
    <2>2. DOMAIN d \ {} = DOMAIN d
      OBVIOUS
    <2>. QED
      BY <1>1, <2>1, <2>2 DEF Left
  <1>4. PICK v : \A S \in SUBSET DOMAIN d : v[S] = Visit(d, v, S)
    <2>1. Enough(Left(d, {}))
      BY <1>2, <1>3
    <2>. QED
      BY <1>3, <2>1
  <1>. DEFINE f == [S \in SUBSET DOMAIN d |-> v[S]]
  <1>5. ASSUME NEW S \in SUBSET DOMAIN d PROVE f[S] = Visit(d, f, S)
    <2>1. CASE Free(d, S) = {}
      BY <1>4, <2>1 DEF Visit
    <2>2. CASE Free(d, S) # {}
      <3>. DEFINE T == S \cup {First(Free(d, S))}
      <3>1. T \in SUBSET DOMAIN d
        BY <2>2, NodeTaken
      <3>. HIDE DEF T
      <3>2. f[T] = v[T] /\ f[S] = v[S]
        BY <3>1
      <3>. HIDE DEF f
      <3>. QED
        BY <1>4, <2>2, <3>2 DEF Visit, T
    <2>. QED
      BY <2>1, <2>2
  <1>6. f = [S \in SUBSET DOMAIN d |-> f[S]]
    OBVIOUS
  <1>. HIDE DEF f
  <1>7. f = [S \in SUBSET DOMAIN d |-> Visit(d, f, S)]
    BY <1>5, <1>6
  <1>. QED
    BY <1>7

\* Kahn takes the nodes that Visit takes.
LEMMA KahnVisits ==
    ASSUME NEW d, DOMAIN d \subseteq Nat, IsFiniteSet(DOMAIN d)
    PROVE  \E v : /\ \A S \in SUBSET DOMAIN d : v[S] = Visit(d, v, S)
                  /\ Kahn(d) = v[{}]
  <1>. DEFINE v == CHOOSE f : f = [S \in SUBSET DOMAIN d |-> Visit(d, f, S)]
  <1>1. v = [S \in SUBSET DOMAIN d |-> Visit(d, v, S)]
    BY Visits
  <1>2. Kahn(d) = v[{}]
    BY DEF Kahn, Visit, Free, First
  <1>. HIDE DEF v
  <1>3. \A S \in SUBSET DOMAIN d : v[S] = Visit(d, v, S)
    BY <1>1
  <1>. QED
    BY <1>2, <1>3

\* No set of nodes of which each waits for another of them is ever entered.
LEMMA WaitersNotTaken ==
    ASSUME NEW d, DOMAIN d \subseteq Nat, IsFiniteSet(DOMAIN d),
           NEW U \in SUBSET DOMAIN d, \A n \in U : d[n] \cap U # {}
    PROVE  Kahn(d) \cap U = {}
  <1>1. PICK v : /\ \A S \in SUBSET DOMAIN d : v[S] = Visit(d, v, S)
                 /\ Kahn(d) = v[{}]
    BY KahnVisits
  <1>. DEFINE Enters == {S \in SUBSET DOMAIN d : S \cap U = {} /\ v[S] \cap U # {}}
              Sizes == {Left(d, S) : S \in Enters}
  <1>2. Enters = {}
    <2>. SUFFICES ASSUME Enters # {} PROVE FALSE
      OBVIOUS
    <2>1. Sizes \in SUBSET Nat /\ Sizes # {}
      <3>1. \A S \in Enters : IsFiniteSet(DOMAIN d \ S)
        BY FS_Subset
      <3>2. \A S \in Enters : Left(d, S) \in Nat
        BY <3>1, FS_CardinalityType DEF Left
      <3>. HIDE DEF Enters
      <3>. QED
        BY <3>2
    <2>2. PICK k \in Sizes : \A j \in Sizes : k <= j
      <3>. HIDE DEF Sizes
      <3>. QED
        BY <2>1, LeastNumber
    <2>3. PICK S \in Enters : k = Left(d, S)
      BY <2>2
    <2>. DEFINE n == First(Free(d, S))
                T == S \cup {n}
    <2>4. Free(d, S) # {} /\ v[S] = v[T]
      <3>1. v[S] = Visit(d, v, S) /\ v[S] # S
        BY <1>1
      <3>. QED
        BY <3>1 DEF Visit
    <2>5. /\ n \in Free(d, S) /\ T \in SUBSET DOMAIN d
          /\ k \in Nat /\ Left(d, T) = k - 1
      BY <2>3, <2>4, NodeTaken
    <2>6. n \notin U
      BY <2>5 DEF Free
    <2>. HIDE DEF n
    <2>7. T \in Enters
      BY <2>4, <2>5, <2>6
    <2>8. k <= k - 1
      BY <2>2, <2>5, <2>7
    <2>. QED
      BY <2>5, <2>8
  <1>3. {} \in SUBSET DOMAIN d /\ {} \cap U = {}
    OBVIOUS
  <1>. QED
    BY <1>1, <1>2, <1>3

\* Among any nodes one waits for none of the others.
Acyclic == \A U \in SUBSET Nodes : U # {} => \E n \in U : deps[n] \cap U = {}

\* validate_acyclic accepts only plans without a cycle.
LEMMA AcceptedAcyclic ==
    ASSUME Nodes \subseteq Id, Accepted(deps, maxEvents) PROVE Acyclic
  <1>1. Nodes \subseteq Nat /\ IsFiniteSet(Nodes)
    BY GraphAssumption, FS_Subset
  <1>2. Kahn(deps) = Nodes
    BY DEF Accepted, Nodes
  <1>3. ASSUME NEW U \in SUBSET Nodes, \A n \in U : deps[n] \cap U # {} PROVE U = {}
    <2>1. Kahn(deps) \cap U = {}
      BY <1>1, <1>3, WaitersNotTaken DEF Nodes
    <2>. QED
      BY <1>2, <2>1
  <1>. QED
    BY <1>3 DEF Acyclic

\* Where nothing runs and nothing went wrong, the first of the pending nodes
\* that waits for no other pending one is ready.
LEMMA AcyclicMoves ==
    ASSUME GraphTypeOK, Acyclic PROVE NeverStuck
  <1>. SUFFICES ASSUME Open # {}, In("Running") = {}, In("Failed") \cup In("Cancelled") = {}
                PROVE  Ready # {}
    BY DEF NeverStuck
  <1>1. PICK n \in In("Pending") : deps[n] \cap In("Pending") = {}
    <2>1. In("Pending") \in SUBSET Nodes /\ In("Pending") # {}
      BY DEF Open, In
    <2>. QED
      BY <2>1 DEF Acyclic
  <1>2. deps[n] \subseteq In("Completed")
    <2>1. deps[n] \subseteq Nodes
      BY DEF GraphTypeOK, In
    <2>2. \A m \in Nodes : m \in In("Pending") \/ m \in In("Completed")
      BY DEF GraphTypeOK, In, State
    <2>. QED
      BY <1>1, <2>1, <2>2
  <1>3. Runnable \in SUBSET Nat /\ Runnable # {}
    BY <1>1, <1>2, GraphAssumption DEF Runnable, In, GraphTypeOK
  <1>4. PICK m \in Runnable : \A k \in Runnable : m <= k
    BY <1>3, LeastNumber
  <1>5. {k \in Runnable : k < m} = {}
    <2>1. \A k \in Runnable : k \in Nat /\ m \in Nat /\ m <= k
      BY <1>3, <1>4
    <2>2. \A k \in Runnable : ~(k < m)
      BY <2>1
    <2>. QED
      BY <2>2
  <1>6. Cardinality({k \in Runnable : k < m}) = 0 /\ Cardinality(In("Running")) = 0
    BY <1>5, FS_EmptySet
  <1>7. 0 < Capacity
    BY <1>6, GraphAssumption DEF Capacity, GraphTypeOK
  <1>. QED
    BY <1>4, <1>6, <1>7 DEF Ready

(***************************************************************************)
(* A run never deadlocks: validate_acyclic takes, again and again, a node  *)
(* whose dependencies were taken, and accepts a plan if it can take all;   *)
(* so in every state ready_nodes returns a node, or one runs, or a failure *)
(* or a cancellation is the reason why the rest waits.                     *)
(***************************************************************************)
THEOREM NeverStuckHolds == GraphSpec => []NeverStuck
  <1>1. GraphInit => GraphTypeOK /\ Acyclic
    <2>1. GraphInit => Nodes \subseteq Id /\ Accepted(deps, maxEvents)
      BY DEF GraphInit, Nodes
    <2>. QED
      BY <2>1, AcceptedAcyclic, GraphInitially DEF GraphInv
  <1>2. Acyclic /\ [GraphNext]_graphVars => Acyclic'
    <2>1. [GraphNext]_graphVars => deps' = deps
      BY DEF GraphNext, Start, Complete, Fail, CancelRemaining, graphVars, plan
    <2>. QED
      BY <2>1 DEF Acyclic, Nodes
  <1>3. GraphTypeOK /\ Acyclic => NeverStuck
    BY AcyclicMoves
  <1>. QED
    BY <1>1, <1>2, <1>3, GraphTypeCorrect, PTL DEF GraphSpec

-----------------------------------------------------------------------------
(***************************************************************************)
(* An agent run.                                                           *)
(***************************************************************************)

\* While the provider works, what it used before is already charged: the
\* reservation is there for this request alone.
SpentBefore ==
    awaiting /\ ~overrun => \A d \in Reported : spent[d] <= used[d]

IInv ==
    /\ TypeOK
    /\ TurnsAgree
    /\ BudgetRespected
    /\ SpendingCovered
    /\ SpentBefore

-----------------------------------------------------------------------------

\* An amount added to the ledger adds up dimension by dimension.
LEMMA WithType ==
    ASSUME TypeOK, NEW D \in SUBSET Dim, NEW amount \in [D -> Nat]
    PROVE  /\ With(amount) \in [Dim -> Nat]
           /\ \A d \in Dim : With(amount)[d] =
                 IF d \in D THEN used[d] + amount[d] ELSE used[d]
  BY DEF With, TypeOK

\* What is reserved is a number, and nothing when no turn is in flight.
LEMMA ReservedType ==
    ASSUME TypeOK, NEW d \in Dim
    PROVE  Reserved(d) \in Nat /\ (inFlight = None => Reserved(d) = 0)
  BY AgentAssumption DEF Reserved, TypeOK, Amount

\* The clock of the ledger stays in range, whatever the call.
LEMMA ObservedType == ASSUME TypeOK PROVE Observed \in 0..MaxElapsed
  BY AgentAssumption DEF Observed, OnTime, TypeOK

LEMMA Initially == Init => IInv
  <1>. SUFFICES ASSUME Init  PROVE IInv
    OBVIOUS
  <1>1. TypeOK
    <2>1. DOMAIN Nothing = {} /\ Nothing \in [DOMAIN Nothing -> Amount]
      BY DEF Nothing
    <2>2. [d \in Dim |-> 0] \in [Dim -> Nat]
          /\ [d \in Reported |-> 0] \in [Reported -> Nat]
      OBVIOUS
    <2>3. DOMAIN accepted \subseteq WorkUnit /\ accepted \in [DOMAIN accepted -> Amount]
      BY <2>1 DEF Init
    <2>4. used \in [Dim -> Nat] /\ spent \in [Reported -> Nat]
      BY <2>2 DEF Init
    <2>5. /\ inFlight \in [Metered -> Amount] \cup {None}
          /\ outcome \in {None, "Complete", "Partial", "NoFindings", "Stopped"}
      BY DEF Init
    <2>6. 0 \in 0..MaxTime /\ 0 \in 0..MaxElapsed
      BY AgentAssumption
    <2>7. last \in 0..MaxElapsed /\ clock \in 0..MaxTime
      BY <2>6 DEF Init
    <2>8. /\ state \in {"Ready", "InFlight", "Finished"}
          /\ awaiting \in BOOLEAN /\ cancelled \in BOOLEAN /\ overrun \in BOOLEAN
      BY DEF Init
    <2>. QED
      BY <2>3, <2>4, <2>5, <2>7, <2>8 DEF TypeOK
  <1>2. TurnsAgree
    BY DEF Init, TurnsAgree
  <1>3. BudgetRespected
    BY AgentAssumption DEF Init, BudgetRespected, Reserved
  <1>4. SpendingCovered
    BY DEF Init, SpendingCovered, Reserved, Dim, Metered
  <1>. QED
    BY <1>1, <1>2, <1>3, <1>4 DEF IInv, Init, SpentBefore

\* A turn begins only with its whole reservation within the limits.
LEMMA BeginTurnKeeps == IInv /\ BeginTurn => IInv'
  <1>. SUFFICES ASSUME IInv, BeginTurn  PROVE IInv'
    OBVIOUS
  <1>. USE DEF IInv
  <1>1. PICK reservation \in [Metered -> Amount] :
            IF OnTime /\ Fits(Claim(reservation))
            THEN /\ used' = With([d \in {"turns", "requests"} |-> 1])
                 /\ inFlight' = reservation
                 /\ state' = "InFlight"
                 /\ awaiting' = TRUE
            ELSE UNCHANGED <<used, inFlight, state, awaiting>>
    BY DEF BeginTurn
  <1>2. /\ last' \in 0..MaxElapsed /\ state = "Ready" /\ ~awaiting
        /\ UNCHANGED <<accepted, outcome, cancelled, clock, spent, overrun>>
    BY ObservedType DEF BeginTurn, past
  <1>3. inFlight = None
    BY <1>2 DEF TurnsAgree
  <1>4. CASE OnTime /\ Fits(Claim(reservation))
    <2> DEFINE one == [d \in {"turns", "requests"} |-> 1]
    <2>1. {"turns", "requests"} \in SUBSET Dim /\ one \in [{"turns", "requests"} -> Nat]
      BY DEF Dim, Counted
    <2>2. /\ used' \in [Dim -> Nat]
          /\ \A d \in Dim : used'[d] = IF d \in {"turns", "requests"}
                                       THEN used[d] + 1 ELSE used[d]
      <3>1. used' = With(one) /\ TypeOK
        BY <1>1, <1>4
      <3>2. \A d \in {"turns", "requests"} : one[d] = 1
        OBVIOUS
      <3> HIDE DEF one
      <3>3. /\ With(one) \in [Dim -> Nat]
            /\ \A d \in Dim : With(one)[d] = IF d \in {"turns", "requests"}
                                           THEN used[d] + one[d] ELSE used[d]
        BY <2>1, <3>1, WithType
      <3>. QED
        BY <3>1, <3>2, <3>3
    <2>3. /\ inFlight' = reservation /\ state' = "InFlight" /\ awaiting' = TRUE
          /\ reservation # None
      BY <1>1, <1>4, AgentAssumption
    <2>4. TypeOK'
      BY <1>2, <2>2, <2>3 DEF TypeOK
    <2>5. TurnsAgree'
      BY <2>3 DEF TurnsAgree
    <2>6. BudgetRespected'
      <3>. SUFFICES ASSUME NEW d \in Dim
                    PROVE  used'[d] + Reserved(d)' <= Limit[d]
        BY DEF BudgetRespected
      <3>1. CASE d \in Metered
        <4>1. d \notin {"turns", "requests"}
          BY <3>1, AgentAssumption DEF Counted
        <4>2. used[d] + reservation[d] <= Limit[d]
          BY <1>4, <3>1 DEF Fits, Claim
        <4>. QED
          BY <2>2, <2>3, <3>1, <4>1, <4>2 DEF Reserved
      <3>2. CASE d \in {"turns", "requests"}
        <4>1. d \notin Metered
          BY <3>2, AgentAssumption DEF Counted
        <4>2. used[d] + 1 <= Limit[d]
          BY <1>4, <3>2, <4>1 DEF Fits, Claim
        <4>3. Reserved(d)' = 0
          BY <4>1 DEF Reserved
        <4>. QED
          BY <2>2, <3>2, <4>2, <4>3, AgentAssumption DEF TypeOK
      <3>3. CASE d \notin Metered /\ d \notin {"turns", "requests"}
        <4>1. Reserved(d)' = 0 /\ Reserved(d) = 0
          BY <3>3 DEF Reserved
        <4>. QED
          BY <2>2, <3>3, <4>1 DEF BudgetRespected
      <3>. QED
        BY <3>1, <3>2, <3>3
    <2>7. SpendingCovered'
      <3>. SUFFICES ASSUME ~overrun, NEW d \in Reported
                    PROVE  spent[d] <= used'[d] + Reserved(d)'
        BY <1>2 DEF SpendingCovered
      <3>1. d \in Metered /\ d \in Dim /\ d \notin {"turns", "requests"}
        BY AgentAssumption DEF Metered, Dim, Counted
      <3>2. spent[d] <= used[d] /\ used[d] \in Nat /\ spent[d] \in Nat
        <4>1. Reserved(d) = 0
          BY <1>3 DEF Reserved
        <4>. QED
          BY <3>1, <4>1 DEF SpendingCovered, TypeOK
      <3>3. Reserved(d)' \in Nat
        BY <2>3, <3>1 DEF Reserved, Amount
      <3>. QED
        BY <2>2, <3>1, <3>2, <3>3
    <2>8. SpentBefore'
      <3>. SUFFICES ASSUME ~overrun, NEW d \in Reported
                    PROVE  spent[d] <= used'[d]
        BY <1>2 DEF SpentBefore
      <3>1. d \in Dim /\ d \notin {"turns", "requests"}
        BY AgentAssumption DEF Metered, Dim, Counted
      <3>2. Reserved(d) = 0
        BY <1>3 DEF Reserved
      <3>. QED
        BY <2>2, <3>1, <3>2 DEF SpendingCovered, TypeOK
    <2>. QED
      BY <2>4, <2>5, <2>6, <2>7, <2>8
  <1>5. CASE ~(OnTime /\ Fits(Claim(reservation)))
    <2>1. UNCHANGED <<used, inFlight, state, awaiting>>
      BY <1>1, <1>5
    <2>. QED
      BY <1>2, <2>1 DEF TypeOK, TurnsAgree, BudgetRespected, SpendingCovered,
                        SpentBefore, Reserved
  <1>. QED
    BY <1>4, <1>5

\* The facts about a turn the provider is working on.
LEMMA TurnFacts ==
    ASSUME IInv, awaiting
    PROVE  /\ state = "InFlight" /\ inFlight # None
           /\ inFlight \in [Metered -> Amount] /\ inFlight \in [Metered -> Nat]
           /\ Metered \in SUBSET Dim /\ Reported \in SUBSET Metered
           /\ \A d \in Dim : Reserved(d) = IF d \in Metered THEN inFlight[d] ELSE 0
           /\ ~overrun => \A d \in Reported : spent[d] <= used[d]
  <1>1. state = "InFlight" /\ inFlight # None
    BY DEF IInv, TurnsAgree
  <1>2. inFlight \in [Metered -> Amount]
    BY <1>1 DEF IInv, TypeOK
  <1>3. inFlight \in [Metered -> Nat]
    BY <1>2, AgentAssumption DEF Amount
  <1>4. Metered \in SUBSET Dim /\ Reported \in SUBSET Metered
    BY DEF Metered, Dim
  <1>5. \A d \in Dim : Reserved(d) = IF d \in Metered THEN inFlight[d] ELSE 0
    BY <1>1 DEF Reserved
  <1>. QED
    BY <1>1, <1>2, <1>3, <1>4, <1>5 DEF IInv, SpentBefore

\* A request given up costs its reservation, or stays reserved.
LEMMA ProviderFailsKeeps == IInv /\ ProviderFails => IInv'
  <1>. SUFFICES ASSUME IInv, ProviderFails  PROVE IInv'
    OBVIOUS
  <1>1. PICK use \in [Reported -> Amount] :
            /\ \A d \in Reported : use[d] <= inFlight[d]
            /\ spent' = [d \in Reported |-> spent[d] + use[d]]
    BY DEF ProviderFails, Uses
  <1>2. /\ awaiting /\ awaiting' = FALSE
        /\ UNCHANGED <<accepted, outcome, cancelled, clock, overrun>>
        /\ last' \in 0..MaxElapsed
    BY ObservedType DEF ProviderFails, Abandon, IInv
  <1>3. /\ state = "InFlight" /\ inFlight # None
        /\ inFlight \in [Metered -> Amount] /\ inFlight \in [Metered -> Nat]
        /\ Metered \in SUBSET Dim /\ Reported \in SUBSET Metered
        /\ \A d \in Dim : Reserved(d) = IF d \in Metered THEN inFlight[d] ELSE 0
        /\ ~overrun => \A d \in Reported : spent[d] <= used[d]
    BY <1>2, TurnFacts
  <1>4. \A d \in Reported : use[d] \in Nat /\ spent[d] \in Nat /\ inFlight[d] \in Nat
    BY <1>3, AgentAssumption DEF Amount, IInv, TypeOK
  <1>5. spent' \in [Reported -> Nat]
    BY <1>1, <1>4
  <1>6. SpentBefore'
    BY <1>2 DEF SpentBefore
  <1>7. CASE OnTime
    <2>1. used' = With(inFlight) /\ inFlight' = None /\ state' = "Ready"
      BY <1>7 DEF ProviderFails, Abandon
    <2>2. /\ used' \in [Dim -> Nat]
          /\ \A d \in Dim : used'[d] = IF d \in Metered THEN used[d] + inFlight[d]
                                       ELSE used[d]
      BY <1>3, <2>1, WithType DEF IInv
    <2>3. TypeOK' /\ TurnsAgree'
      BY <1>2, <1>5, <2>1, <2>2 DEF IInv, TypeOK, TurnsAgree
    <2>4. \A d \in Dim : Reserved(d)' = 0
      BY <2>1 DEF Reserved
    <2>5. BudgetRespected'
      BY <1>3, <2>2, <2>4, AgentAssumption DEF IInv, TypeOK, BudgetRespected
    <2>6. SpendingCovered'
      <3>. SUFFICES ASSUME ~overrun, NEW d \in Reported
                    PROVE  spent'[d] <= used'[d] + Reserved(d)'
        BY <1>2 DEF SpendingCovered
      <3>1. d \in Dim /\ d \in Metered /\ used[d] \in Nat
        BY <1>3 DEF IInv, TypeOK
      <3>2. spent'[d] = spent[d] + use[d] /\ use[d] <= inFlight[d]
            /\ spent[d] <= used[d]
        BY <1>1, <1>3
      <3>. QED
        BY <1>4, <2>2, <2>4, <3>1, <3>2
    <2>. QED
      BY <1>6, <2>3, <2>5, <2>6 DEF IInv
  <1>8. CASE ~OnTime
    <2>1. UNCHANGED <<used, inFlight, state>>
      BY <1>8 DEF ProviderFails, Abandon
    <2>2. TypeOK' /\ TurnsAgree' /\ BudgetRespected'
      BY <1>2, <1>5, <2>1 DEF IInv, TypeOK, TurnsAgree, BudgetRespected, Reserved
    <2>3. SpendingCovered'
      <3>. SUFFICES ASSUME ~overrun, NEW d \in Reported
                    PROVE  spent'[d] <= used'[d] + Reserved(d)'
        BY <1>2 DEF SpendingCovered
      <3>1. d \in Dim /\ d \in Metered /\ used[d] \in Nat /\ used'[d] = used[d]
        BY <1>3, <2>1 DEF IInv, TypeOK
      <3>2. Reserved(d)' = inFlight[d]
        BY <1>3, <2>1, <3>1 DEF Reserved
      <3>3. spent'[d] = spent[d] + use[d] /\ use[d] <= inFlight[d]
            /\ spent[d] <= used[d]
        BY <1>1, <1>3
      <3>. QED
        BY <1>4, <3>1, <3>2, <3>3
    <2>. QED
      BY <1>6, <2>2, <2>3 DEF IInv
  <1>. QED
    BY <1>7, <1>8

\* An answer is charged as reported, or leaves the reservation where it is.
LEMMA ProviderAnswersKeeps == IInv /\ ProviderAnswers => IInv'
  <1>. SUFFICES ASSUME IInv, ProviderAnswers  PROVE IInv'
    OBVIOUS
  <1>1. PICK use \in [Reported -> Amount] :
            /\ Settle([d \in Metered |-> IF d \in Priced THEN inFlight[d] ELSE use[d]])
            /\ spent' = [d \in Reported |-> spent[d] + use[d]]
            /\ overrun' = (overrun \/ \E d \in Reported : use[d] > inFlight[d])
    BY DEF ProviderAnswers, Uses
  <1> DEFINE settled == [d \in Metered |-> IF d \in Priced THEN inFlight[d] ELSE use[d]]
             fine == OnTime /\ ~cancelled
                       /\ \A d \in Metered : settled[d] <= inFlight[d]
  <1>2. /\ awaiting /\ awaiting' = FALSE
        /\ UNCHANGED <<accepted, outcome, cancelled, clock>>
    BY DEF ProviderAnswers
  <1>3. /\ state = "InFlight" /\ inFlight # None
        /\ inFlight \in [Metered -> Amount] /\ inFlight \in [Metered -> Nat]
        /\ Metered \in SUBSET Dim /\ Reported \in SUBSET Metered
        /\ \A d \in Dim : Reserved(d) = IF d \in Metered THEN inFlight[d] ELSE 0
        /\ ~overrun => \A d \in Reported : spent[d] <= used[d]
    BY <1>2, TurnFacts
  <1>4. \A d \in Reported : use[d] \in Nat /\ spent[d] \in Nat /\ inFlight[d] \in Nat
    BY <1>3, AgentAssumption DEF Amount, IInv, TypeOK
  <1>5. settled \in [Metered -> Nat]
        /\ \A d \in Reported : settled[d] = use[d]
    <2>1. \A d \in Metered : d \notin Priced => d \in Reported
      BY DEF Metered
    <2>2. \A d \in Reported : d \notin Priced
      BY AgentAssumption
    <2>. QED
      BY <1>3, <1>4, <2>1, <2>2
  <1>6. spent' \in [Reported -> Nat] /\ overrun' \in BOOLEAN
    BY <1>1, <1>4 DEF IInv, TypeOK
  <1>7. last' \in 0..MaxElapsed
    <2>1. last' = IF cancelled THEN last ELSE Observed
      BY <1>1 DEF Settle
    <2>. QED
      BY <2>1, ObservedType DEF IInv, TypeOK
  <1>8. /\ used' = IF fine THEN With(settled) ELSE used
        /\ inFlight' = IF fine THEN None ELSE inFlight
        /\ state' = IF fine THEN "Ready" ELSE state
    BY <1>1 DEF Settle
  <1>9. SpentBefore'
    BY <1>2 DEF SpentBefore
  <1>10. ASSUME ~overrun'
         PROVE  ~overrun /\ \A d \in Reported : use[d] <= inFlight[d]
    <2>1. ~overrun /\ ~(\E d \in Reported : use[d] > inFlight[d])
      BY <1>1, <1>10, Zenon
    <2>. QED
      BY <1>4, <2>1
  <1>11. \A d \in Reported : spent'[d] = spent[d] + use[d]
    BY <1>1
  <1> HIDE DEF settled
  <1>12. CASE fine
    <2>1. used' = With(settled) /\ inFlight' = None /\ state' = "Ready"
      BY <1>8, <1>12
    <2>2. /\ used' \in [Dim -> Nat]
          /\ \A d \in Dim : used'[d] = IF d \in Metered THEN used[d] + settled[d]
                                       ELSE used[d]
      BY <1>3, <1>5, <2>1, WithType DEF IInv
    <2>3. TypeOK' /\ TurnsAgree'
      BY <1>2, <1>6, <1>7, <2>1, <2>2 DEF IInv, TypeOK, TurnsAgree
    <2>4. \A d \in Dim : Reserved(d)' = 0
      BY <2>1 DEF Reserved
    <2>5. BudgetRespected'
      <3>. SUFFICES ASSUME NEW d \in Dim  PROVE used'[d] + Reserved(d)' <= Limit[d]
        BY DEF BudgetRespected
      <3>1. used[d] \in Nat /\ Limit[d] \in Nat
            /\ used[d] + Reserved(d) <= Limit[d]
        BY AgentAssumption DEF IInv, TypeOK, BudgetRespected
      <3>2. CASE d \in Metered
        BY <1>3, <1>5, <1>12, <2>2, <2>4, <3>1, <3>2
      <3>3. CASE d \notin Metered
        BY <1>3, <2>2, <2>4, <3>1, <3>3
      <3>. QED
        BY <3>2, <3>3
    <2>6. SpendingCovered'
      <3>. SUFFICES ASSUME ~overrun', NEW d \in Reported
                    PROVE  spent'[d] <= used'[d] + Reserved(d)'
        BY DEF SpendingCovered
      <3>1. d \in Dim /\ d \in Metered /\ used[d] \in Nat
        BY <1>3 DEF IInv, TypeOK
      <3>2. spent[d] <= used[d] /\ settled[d] = use[d]
        BY <1>3, <1>5, <1>10
      <3>. QED
        BY <1>4, <1>11, <2>2, <2>4, <3>1, <3>2
    <2>. QED
      BY <1>9, <2>3, <2>5, <2>6 DEF IInv
  <1>13. CASE ~fine
    <2>1. UNCHANGED <<used, inFlight, state>>
      BY <1>8, <1>13
    <2>2. TypeOK' /\ TurnsAgree' /\ BudgetRespected'
      BY <1>2, <1>6, <1>7, <2>1 DEF IInv, TypeOK, TurnsAgree, BudgetRespected, Reserved
    <2>3. SpendingCovered'
      <3>. SUFFICES ASSUME ~overrun', NEW d \in Reported
                    PROVE  spent'[d] <= used'[d] + Reserved(d)'
        BY DEF SpendingCovered
      <3>1. d \in Dim /\ d \in Metered /\ used[d] \in Nat /\ used'[d] = used[d]
        BY <1>3, <2>1 DEF IInv, TypeOK
      <3>2. Reserved(d)' = inFlight[d]
        BY <1>3, <2>1, <3>1 DEF Reserved
      <3>3. use[d] <= inFlight[d] /\ spent[d] <= used[d]
        BY <1>3, <1>10
      <3>. QED
        BY <1>4, <1>11, <3>1, <3>2, <3>3
    <2>. QED
      BY <1>9, <2>2, <2>3 DEF IInv
  <1>. QED
    BY <1>12, <1>13

\* Charging a tool or a candidate touches no metered dimension.
LEMMA ChargeKeeps ==
    ASSUME IInv, NEW D \in SUBSET Dim, D \cap Metered = {},
           NEW amount \in [D -> Nat],
           Fits(amount), used' = With(amount), inFlight' = inFlight,
           spent' = spent, overrun' = overrun, awaiting' = awaiting
    PROVE  /\ used' \in [Dim -> Nat]
           /\ BudgetRespected' /\ SpendingCovered' /\ SpentBefore'
  <1>1. /\ used' \in [Dim -> Nat]
        /\ \A d \in Dim : used'[d] = IF d \in D THEN used[d] + amount[d] ELSE used[d]
    BY WithType DEF IInv
  <1>2. \A d \in Dim : Reserved(d)' = Reserved(d)
    BY DEF Reserved
  <1>3. BudgetRespected'
    <2>. SUFFICES ASSUME NEW d \in Dim  PROVE used'[d] + Reserved(d)' <= Limit[d]
      BY DEF BudgetRespected
    <2>1. CASE d \in D
      <3>1. Reserved(d)' = 0 /\ used[d] + amount[d] <= Limit[d]
        BY <2>1 DEF Reserved, Fits
      <3>. QED
        BY <1>1, <2>1, <3>1, AgentAssumption DEF IInv, TypeOK
    <2>2. CASE d \notin D
      BY <1>1, <1>2, <2>2 DEF IInv, BudgetRespected
    <2>. QED
      BY <2>1, <2>2
  <1>4. \A d \in Reported : used'[d] = used[d] /\ Reserved(d)' = Reserved(d)
    BY <1>1, <1>2 DEF Metered, Dim
  <1>5. SpendingCovered' /\ SpentBefore'
    BY <1>4 DEF IInv, SpendingCovered, SpentBefore
  <1>. QED
    BY <1>1, <1>3, <1>5

LEMMA ChargeToolKeeps == IInv /\ ChargeTool => IInv'
  <1>. SUFFICES ASSUME IInv, ChargeTool  PROVE IInv'
    OBVIOUS
  <1>1. PICK amount \in [Drawn -> Amount] :
            used' = IF OnTime /\ Fits(amount) THEN With(amount) ELSE used
    BY DEF ChargeTool
  <1>2. /\ last' \in 0..MaxElapsed
        /\ UNCHANGED <<state, inFlight, accepted, outcome, awaiting, cancelled,
                       clock, spent, overrun>>
    BY ObservedType DEF ChargeTool, past, IInv
  <1>3. amount \in [Drawn -> Nat] /\ Drawn \in SUBSET Dim /\ Drawn \cap Metered = {}
    BY AgentAssumption DEF Amount, Dim
  <1>4. /\ used' \in [Dim -> Nat]
        /\ BudgetRespected' /\ SpendingCovered' /\ SpentBefore'
    <2>1. CASE OnTime /\ Fits(amount)
      BY <1>1, <1>2, <1>3, <2>1, ChargeKeeps
    <2>2. CASE ~(OnTime /\ Fits(amount))
      <3>1. used' = used
        BY <1>1, <2>2
      <3>. QED
        BY <1>2, <3>1 DEF IInv, TypeOK, BudgetRespected, SpendingCovered,
                          SpentBefore, Reserved
    <2>. QED
      BY <2>1, <2>2
  <1>5. TypeOK' /\ TurnsAgree'
    BY <1>2, <1>4 DEF IInv, TypeOK, TurnsAgree
  <1>. QED
    BY <1>4, <1>5 DEF IInv

LEMMA SubmitCandidateKeeps ==
    ASSUME IInv, NEW unit \in WorkUnit, NEW size \in Amount,
           NEW admitted \in BOOLEAN, SubmitCandidate(unit, size, admitted)
    PROVE  IInv'
  <1> DEFINE amount == [d \in {"candidates"} |-> size]
  <1>1. /\ Fits(amount) /\ used' = With(amount)
        /\ UNCHANGED <<state, last, inFlight, outcome, awaiting, cancelled,
                       clock, spent, overrun>>
    BY DEF SubmitCandidate, past
  <1>2. /\ amount \in [{"candidates"} -> Nat] /\ {"candidates"} \in SUBSET Dim
        /\ {"candidates"} \cap Metered = {}
    BY AgentAssumption DEF Amount, Dim, Counted
  <1> HIDE DEF amount
  <1>3. /\ used' \in [Dim -> Nat]
        /\ BudgetRespected' /\ SpendingCovered' /\ SpentBefore'
    BY <1>1, <1>2, ChargeKeeps
  <1>4. DOMAIN accepted' \subseteq WorkUnit /\ accepted' \in [DOMAIN accepted' -> Amount]
    <2>1. DOMAIN accepted \subseteq WorkUnit /\ accepted \in [DOMAIN accepted -> Amount]
      BY DEF IInv, TypeOK
    <2>2. CASE admitted /\ unit \notin DOMAIN accepted
      <3>1. accepted' = [u \in DOMAIN accepted \cup {unit} |->
                            IF u = unit THEN size ELSE accepted[u]]
        BY <2>2 DEF SubmitCandidate
      <3>2. DOMAIN accepted' = DOMAIN accepted \cup {unit}
        BY <3>1
      <3>3. \A u \in DOMAIN accepted' : accepted'[u] \in Amount
        BY <2>1, <3>1
      <3>4. accepted' \in [DOMAIN accepted' -> Amount]
        BY <3>1, <3>2, <3>3
      <3>. QED
        BY <2>1, <3>2, <3>4
    <2>3. CASE ~(admitted /\ unit \notin DOMAIN accepted)
      <3>1. accepted' = accepted
        BY <2>3 DEF SubmitCandidate
      <3>. QED
        BY <2>1, <3>1
    <2>. QED
      BY <2>2, <2>3
  <1>5. TypeOK' /\ TurnsAgree'
    BY <1>1, <1>3, <1>4 DEF IInv, TypeOK, TurnsAgree
  <1>. QED
    BY <1>3, <1>5 DEF IInv

\* Ending, cancelling and waiting leave the ledger alone.
LEMMA LedgerAlone ==
    ASSUME IInv, UNCHANGED <<ledger, past, awaiting>>, TypeOK', TurnsAgree'
    PROVE  IInv'
  BY DEF IInv, BudgetRespected, SpendingCovered, SpentBefore, Reserved, ledger, past

LEMMA FinishKeeps == IInv /\ (\E omissions \in BOOLEAN : Finish(omissions)) => IInv'
  <1>. SUFFICES ASSUME IInv, NEW omissions \in BOOLEAN, Finish(omissions)
                PROVE  IInv'
    OBVIOUS
  <1>1. UNCHANGED <<ledger, past, awaiting, cancelled, clock>> /\ state' = "Finished"
        /\ accepted' = Nothing /\ ~awaiting
    BY DEF Finish
  <1>2. outcome' \in {"NoFindings", "Partial", "Complete"}
    BY DEF Finish
  <1>3. DOMAIN accepted' \subseteq WorkUnit /\ accepted' \in [DOMAIN accepted' -> Amount]
    <2>1. DOMAIN Nothing = {} /\ Nothing \in [DOMAIN Nothing -> Amount]
      BY DEF Nothing
    <2>. QED
      BY <1>1, <2>1
  <1>4. TypeOK' /\ TurnsAgree'
    BY <1>1, <1>2, <1>3 DEF IInv, TypeOK, TurnsAgree, ledger, past
  <1>. QED
    BY <1>1, <1>4, LedgerAlone

LEMMA Inductive == IInv /\ [Next]_vars => IInv'
  <1>. SUFFICES ASSUME IInv, [Next]_vars  PROVE IInv'
    OBVIOUS
  <1>1. CASE BeginTurn
    BY <1>1, BeginTurnKeeps
  <1>2. CASE ProviderFails
    BY <1>2, ProviderFailsKeeps
  <1>3. CASE ProviderAnswers
    BY <1>3, ProviderAnswersKeeps
  <1>4. CASE ChargeTool
    BY <1>4, ChargeToolKeeps
  <1>5. ASSUME NEW unit \in WorkUnit, NEW size \in Amount,
               NEW admitted \in BOOLEAN, SubmitCandidate(unit, size, admitted)
        PROVE  IInv'
    BY <1>5, SubmitCandidateKeeps
  <1>6. CASE \E omissions \in BOOLEAN : Finish(omissions)
    BY <1>6, FinishKeeps
  <1>7. CASE Terminate
    <2>1. UNCHANGED <<ledger, past, awaiting>> /\ TypeOK' /\ TurnsAgree'
      BY <1>7 DEF Terminate, IInv, TypeOK, TurnsAgree, ledger, past
    <2>. QED
      BY <2>1, LedgerAlone
  <1>8. CASE Cancel
    <2>1. UNCHANGED <<ledger, past, awaiting>> /\ TypeOK' /\ TurnsAgree'
      BY <1>8 DEF Cancel, IInv, TypeOK, TurnsAgree, ledger, past
    <2>. QED
      BY <2>1, LedgerAlone
  <1>9. CASE Tick
    <2>1. UNCHANGED <<ledger, past, awaiting>> /\ TurnsAgree'
      BY <1>9 DEF Tick, IInv, TurnsAgree, ledger, past
    <2>2. TypeOK'
      BY <1>9, AgentAssumption DEF Tick, IInv, TypeOK, ledger, past
    <2>. QED
      BY <2>1, <2>2, LedgerAlone
  <1>10. CASE UNCHANGED vars
    <2>1. UNCHANGED <<ledger, past, awaiting>> /\ TypeOK' /\ TurnsAgree'
      BY <1>10 DEF vars, IInv, TypeOK, TurnsAgree, ledger, past
    <2>. QED
      BY <2>1, LedgerAlone
  <1>. QED
    BY <1>1, <1>2, <1>3, <1>4, <1>5, <1>6, <1>7, <1>8, <1>9, <1>10 DEF Next

-----------------------------------------------------------------------------

(***************************************************************************)
(* For every budget, what is charged and what is reserved stay within the  *)
(* limit of every dimension, so settling or abandoning a turn never breaks *)
(* one.                                                                    *)
(***************************************************************************)
THEOREM BudgetAlwaysRespected == Spec => []BudgetRespected
  <1>1. IInv => BudgetRespected
    BY DEF IInv
  <1>. QED
    BY <1>1, Initially, Inductive, PTL DEF Spec

(***************************************************************************)
(* For every budget and every sequence of failed, abandoned, late and      *)
(* answered requests, the ledger covers what the provider really used      *)
(* until the provider uses more than was reserved.                         *)
(***************************************************************************)
THEOREM SpendingAlwaysCovered == Spec => []SpendingCovered
  <1>1. IInv => SpendingCovered
    BY DEF IInv
  <1>. QED
    BY <1>1, Initially, Inductive, PTL DEF Spec

(***************************************************************************)
(* The run and its ledger always agree on whether a turn is in flight.     *)
(***************************************************************************)
THEOREM TurnsAlwaysAgree == Spec => []TurnsAgree
  <1>1. IInv => TurnsAgree
    BY DEF IInv
  <1>. QED
    BY <1>1, Initially, Inductive, PTL DEF Spec

(***************************************************************************)
(* A run is always well typed: in particular at most one envelope of each  *)
(* work unit is accepted, and every charge is a number.                    *)
(***************************************************************************)
THEOREM RunTypeCorrect == Spec => []TypeOK
  <1>1. IInv => TypeOK
    BY DEF IInv
  <1>. QED
    BY <1>1, Initially, Inductive, PTL DEF Spec

(***************************************************************************)
(* A run ends once: no call changes its outcome or what it accepted after  *)
(* it finished.                                                            *)
(***************************************************************************)
THEOREM RunEndsOnce == Spec => EndsOnce
  <1>1. IInv /\ [Next]_vars =>
            [state = "Finished" => state' = "Finished" /\ outcome' = outcome
                                    /\ accepted' = accepted]_vars
    <2>. SUFFICES ASSUME IInv, [Next]_vars, state = "Finished"
                  PROVE  state' = "Finished" /\ outcome' = outcome
                         /\ accepted' = accepted
      OBVIOUS
    <2>1. ~awaiting
      BY DEF IInv, TurnsAgree
    <2>. QED
      BY <2>1 DEF Next, vars, BeginTurn, ProviderFails, ProviderAnswers,
                  ChargeTool, SubmitCandidate, Finish, Terminate, Cancel, Tick
  <1>. QED
    BY <1>1, Initially, Inductive, PTL DEF Spec, EndsOnce

-----------------------------------------------------------------------------
(* The sum of what was accepted.                                           *)

\* The fold is the sum.
Total(f) == FoldFunction(LAMBDA a, b : a + b, 0, f)

LEMMA TotalSums ==
    ASSUME NEW f, IsFiniteSet(DOMAIN f)
    PROVE  \E g : Sums(f, g) /\ Total(f) = g[DOMAIN f]
  <1>. DEFINE g == CHOOSE h : h = [s \in SUBSET DOMAIN f |-> Plus(f, h, s)]
  <1>1. g = [s \in SUBSET DOMAIN f |-> Plus(f, g, s)]
    BY SumExists
  <1>2. Total(f) = g[DOMAIN f]
    BY DEF Total, FoldFunction, FoldFunctionOnSet, MapThenFoldSet, Plus, OneOf
  <1>. HIDE DEF g
  <1>. QED
    BY <1>1, <1>2 DEF Sums

\* An envelope more adds what it holds.
LEMMA TotalGrows ==
    ASSUME NEW f, IsFiniteSet(DOMAIN f), \A d \in DOMAIN f : f[d] \in Nat,
           NEW unit, unit \notin DOMAIN f, NEW size \in Nat,
           NEW h, h = [u \in DOMAIN f \cup {unit} |-> IF u = unit THEN size ELSE f[u]]
    PROVE  Total(f) \in Nat /\ Total(h) = size + Total(f)
  <1>1. DOMAIN h = DOMAIN f \cup {unit} /\ h[unit] = size
    OBVIOUS
  <1>2. \A d \in DOMAIN f : h[d] = f[d]
    OBVIOUS
  <1>3. IsFiniteSet(DOMAIN h)
    BY <1>1, FS_AddElement
  <1>4. \A d \in DOMAIN h : h[d] \in Nat
    BY <1>1, <1>2
  <1>5. PICK g : Sums(f, g) /\ Total(f) = g[DOMAIN f]
    BY TotalSums
  <1>6. PICK k : Sums(h, k) /\ Total(h) = k[DOMAIN h]
    BY <1>3, TotalSums
  <1>7. k[DOMAIN h] = h[unit] + k[DOMAIN h \ {unit}]
    BY <1>1, <1>3, <1>4, <1>6, SumTakes
  <1>8. DOMAIN h \ {unit} = DOMAIN f
    BY <1>1
  <1>9. k[DOMAIN f] = g[DOMAIN f]
    BY <1>1, <1>2, <1>5, <1>6, SumsAgree
  <1>10. g[DOMAIN f] \in Nat
    BY <1>5, SumTakes
  <1>. QED
    BY <1>1, <1>5, <1>6, <1>7, <1>8, <1>9, <1>10

\* Nothing accepted adds up to nothing.
LEMMA TotalNothing == Total(Nothing) = 0
  <1>1. DOMAIN Nothing = {}
    BY DEF Nothing
  <1>2. PICK g : Sums(Nothing, g) /\ Total(Nothing) = g[{}]
    BY <1>1, FS_EmptySet, TotalSums
  <1>. QED
    BY <1>1, <1>2 DEF Sums, Plus

-----------------------------------------------------------------------------
(* What is accepted is charged.                                            *)

WithinCharges == Total(accepted) <= used["candidates"]

CInv == IInv /\ WithinCharges

\* The ledger never takes a charge back.
LEMMA ChargesStay ==
    ASSUME IInv, [Next]_vars
    PROVE  /\ used["candidates"] \in Nat /\ used'["candidates"] \in Nat
           /\ used["candidates"] <= used'["candidates"]
  <1>1. "candidates" \in Dim /\ used["candidates"] \in Nat
    BY DEF IInv, TypeOK, Dim, Counted
  <1>2. used'["candidates"] \in Nat
    BY <1>1, Inductive DEF IInv, TypeOK
  <1>3. ASSUME NEW D \in SUBSET Dim, NEW amount \in [D -> Nat], used' = With(amount)
        PROVE  used["candidates"] <= used'["candidates"]
    <2>1. /\ amount \in [D -> Nat]
          /\ With(amount)["candidates"] = IF "candidates" \in D
                THEN used["candidates"] + amount["candidates"] ELSE used["candidates"]
      BY <1>1, WithType DEF IInv
    <2>. QED
      BY <1>1, <1>2, <1>3, <2>1
  <1>4. CASE BeginTurn
    <2>. DEFINE D == {"turns", "requests"}
                amount == [d \in D |-> 1]
    <2>1. D \in SUBSET Dim /\ amount \in [D -> Nat]
      BY DEF Dim, Counted
    <2>2. used' = used \/ used' = With(amount)
      BY <1>4 DEF BeginTurn
    <2>. HIDE DEF D, amount
    <2>. QED
      BY <1>1, <1>2, <1>3, <2>1, <2>2
  <1>5. CASE ProviderFails
    <2>1. used' = used \/ used' = With(inFlight)
      BY <1>5 DEF ProviderFails, Abandon
    <2>2. inFlight \in [Metered -> Nat] /\ Metered \in SUBSET Dim
      BY <1>5 DEF ProviderFails, IInv, TypeOK, TurnsAgree, Amount, Dim
    <2>. QED
      BY <1>1, <1>2, <1>3, <2>1, <2>2
  <1>6. CASE ProviderAnswers
    <2>1. PICK use \in [Reported -> Amount] :
             Settle([d \in Metered |-> IF d \in Priced THEN inFlight[d] ELSE use[d]])
      BY <1>6 DEF ProviderAnswers
    <2>. DEFINE amount == [d \in Metered |-> IF d \in Priced THEN inFlight[d] ELSE use[d]]
    <2>2. inFlight \in [Metered -> Nat] /\ Metered \in SUBSET Dim
      BY <1>6 DEF ProviderAnswers, IInv, TypeOK, TurnsAgree, Amount, Dim
    <2>3. amount \in [Metered -> Nat]
      BY <2>2 DEF Metered, Amount
    <2>4. used' = used \/ used' = With(amount)
      BY <2>1 DEF Settle
    <2>. HIDE DEF amount
    <2>. QED
      BY <1>1, <1>2, <1>3, <2>2, <2>3, <2>4
  <1>7. CASE ChargeTool
    <2>1. PICK amount \in [Drawn -> Amount] : used' = used \/ used' = With(amount)
      BY <1>7 DEF ChargeTool
    <2>2. amount \in [Drawn -> Nat] /\ Drawn \in SUBSET Dim
      BY DEF Amount, Dim
    <2>. QED
      BY <1>1, <1>2, <1>3, <2>1, <2>2
  <1>8. ASSUME NEW unit \in WorkUnit, NEW size \in Amount, NEW admitted \in BOOLEAN,
               SubmitCandidate(unit, size, admitted)
        PROVE  used["candidates"] <= used'["candidates"]
    <2>. DEFINE D == {"candidates"}
                amount == [d \in D |-> size]
    <2>1. D \in SUBSET Dim /\ amount \in [D -> Nat]
      BY DEF Dim, Counted, Amount
    <2>2. used' = With(amount)
      BY <1>8 DEF SubmitCandidate
    <2>. HIDE DEF D, amount
    <2>. QED
      BY <1>3, <2>1, <2>2
  <1>9. CASE used' = used
    BY <1>1, <1>9
  <1>10. (\E omissions \in BOOLEAN : Finish(omissions)) \/ Terminate \/ Cancel \/ Tick
            \/ UNCHANGED vars => used' = used
    BY DEF Finish, Terminate, Cancel, Tick, vars, ledger
  <1>. QED
    BY <1>1, <1>2, <1>4, <1>5, <1>6, <1>7, <1>8, <1>9, <1>10 DEF Next

\* What was accepted is finite, so it has a sum.
LEMMA AcceptedFinite ==
    ASSUME IInv
    PROVE  IsFiniteSet(DOMAIN accepted) /\ \A u \in DOMAIN accepted : accepted[u] \in Nat
  <1>1. IsFiniteSet(DOMAIN accepted)
    BY AgentAssumption, FS_Subset DEF IInv, TypeOK
  <1>. QED
    BY <1>1 DEF IInv, TypeOK, Amount

LEMMA SubmitCandidateCharges ==
    ASSUME CInv, NEW unit \in WorkUnit, NEW size \in Amount,
           NEW admitted \in BOOLEAN, SubmitCandidate(unit, size, admitted)
    PROVE  WithinCharges'
  <1>1. /\ used["candidates"] \in Nat /\ size \in Nat
        /\ used'["candidates"] = used["candidates"] + size
    <2>. DEFINE amount == [d \in {"candidates"} |-> size]
    <2>1. /\ "candidates" \in Dim /\ used["candidates"] \in Nat /\ size \in Nat
          /\ {"candidates"} \in SUBSET Dim
      BY DEF CInv, IInv, TypeOK, Dim, Counted, Amount
    <2>2. used' = With(amount)
      BY DEF SubmitCandidate
    <2>3. amount \in [{"candidates"} -> Nat] /\ amount["candidates"] = size
      BY <2>1
    <2>. HIDE DEF amount
    <2>4. With(amount)["candidates"] = used["candidates"] + amount["candidates"]
      BY <2>1, <2>3, WithType DEF CInv, IInv
    <2>. QED
      BY <2>1, <2>2, <2>3, <2>4
  <1>2. Total(accepted) <= used["candidates"]
    BY DEF CInv, WithinCharges
  <1>3. Total(accepted) \in Nat /\
        (Total(accepted') = Total(accepted) \/ Total(accepted') = size + Total(accepted))
    <2>1. Total(accepted) \in Nat
      <3>1. PICK g : Sums(accepted, g) /\ Total(accepted) = g[DOMAIN accepted]
        BY AcceptedFinite, TotalSums DEF CInv
      <3>2. g[DOMAIN accepted] \in Nat
        BY <3>1, AcceptedFinite, SumTakes DEF CInv
      <3>. QED
        BY <3>1, <3>2
    <2>2. CASE admitted /\ unit \notin DOMAIN accepted
      <3>1. accepted' = [u \in DOMAIN accepted \cup {unit} |->
                            IF u = unit THEN size ELSE accepted[u]]
        BY <2>2 DEF SubmitCandidate
      <3>2. Total(accepted') = size + Total(accepted)
        BY <1>1, <2>2, <3>1, AcceptedFinite, TotalGrows DEF CInv
      <3>. QED
        BY <2>1, <3>2
    <2>3. CASE ~(admitted /\ unit \notin DOMAIN accepted)
      <3>1. accepted' = accepted
        BY <2>3 DEF SubmitCandidate
      <3>. QED
        BY <2>1, <3>1
    <2>. QED
      BY <2>2, <2>3
  <1>4. Total(accepted') <= used'["candidates"]
    <2>. DEFINE a == Total(accepted)
                b == Total(accepted')
                c == used["candidates"]
                d == used'["candidates"]
    <2>1. a \in Nat /\ c \in Nat /\ size \in Nat /\ a <= c /\ d = c + size
          /\ (b = a \/ b = size + a)
      BY <1>1, <1>2, <1>3
    <2>. HIDE DEF a, b, c, d
    <2>2. b <= d
      BY <2>1
    <2>. QED
      BY <2>2 DEF b, d
  <1>. QED
    BY <1>4 DEF WithinCharges

LEMMA ChargedInductive == CInv /\ [Next]_vars => CInv'
  <1>. SUFFICES ASSUME CInv, [Next]_vars PROVE WithinCharges'
    BY Inductive DEF CInv
  <1>1. ASSUME NEW unit \in WorkUnit, NEW size \in Amount, NEW admitted \in BOOLEAN,
               SubmitCandidate(unit, size, admitted)
        PROVE  WithinCharges'
    BY <1>1, SubmitCandidateCharges
  <1>2. CASE \E omissions \in BOOLEAN : Finish(omissions)
    <2>1. accepted' = Nothing
      BY <1>2 DEF Finish
    <2>2. used'["candidates"] \in Nat
      BY ChargesStay DEF CInv
    <2>3. Total(accepted') = 0
      BY <2>1, TotalNothing
    <2>. QED
      BY <2>2, <2>3 DEF WithinCharges
  <1>3. CASE accepted' = accepted
    <2>1. /\ used["candidates"] \in Nat /\ used'["candidates"] \in Nat
          /\ used["candidates"] <= used'["candidates"]
      BY ChargesStay DEF CInv
    <2>2. Total(accepted) \in Nat
      <3>1. PICK g : Sums(accepted, g) /\ Total(accepted) = g[DOMAIN accepted]
        BY AcceptedFinite, TotalSums DEF CInv
      <3>2. g[DOMAIN accepted] \in Nat
        BY <3>1, AcceptedFinite, SumTakes DEF CInv
      <3>. QED
        BY <3>1, <3>2
    <2>3. Total(accepted) <= used["candidates"]
      BY DEF CInv, WithinCharges
    <2>4. Total(accepted) <= used'["candidates"]
      BY <2>1, <2>2, <2>3
    <2>5. Total(accepted') = Total(accepted)
      BY <1>3
    <2>6. Total(accepted') <= used'["candidates"]
      BY <2>4, <2>5
    <2>. QED
      BY <2>6 DEF WithinCharges
  <1>4. BeginTurn \/ ProviderFails \/ ProviderAnswers \/ ChargeTool \/ Terminate
            \/ Cancel \/ Tick \/ UNCHANGED vars => accepted' = accepted
    BY DEF BeginTurn, ProviderFails, ProviderAnswers, ChargeTool, Terminate,
           Cancel, Tick, vars
  <1>. QED
    BY <1>1, <1>2, <1>3, <1>4 DEF Next

(***************************************************************************)
(* For every budget, whatever order turns, tools and envelopes come in,    *)
(* the envelopes a run accepted add up to no more findings than were       *)
(* charged.                                                                *)
(***************************************************************************)
THEOREM AcceptedAlwaysCharged == Spec => []AcceptedCharged
  <1>1. Init => CInv
    <2>. SUFFICES ASSUME Init PROVE WithinCharges
      BY Initially DEF CInv
    <2>1. used["candidates"] = 0 /\ accepted = Nothing
      BY DEF Init, Dim, Counted
    <2>. QED
      BY <2>1, TotalNothing DEF WithinCharges
  <1>2. CInv => AcceptedCharged
    BY DEF CInv, WithinCharges, AcceptedCharged, Total
  <1>. QED
    BY <1>1, <1>2, ChargedInductive, PTL DEF Spec
=============================================================================
