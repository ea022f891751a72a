--------------------------- MODULE PublicationLease ---------------------------
(***************************************************************************)
(* The process-wide table of publication locks of                          *)
(* crates/revoot/src/gitlab_publication.rs (PUBLICATION_LOCKS,             *)
(* PublicationLease, cleanup_lock).  Every step below is what one task     *)
(* does between two points at which another task may run; the critical     *)
(* sections under the table's own std Mutex are single steps.              *)
(*                                                                         *)
(* An Arc<AsyncMutex> is an element of Mutex; its strong count is computed *)
(* from who holds a clone: the table, a task's own handle, and the future  *)
(* or guard made from a second clone.                                      *)
(***************************************************************************)
EXTENDS Naturals, FiniteSets, Sequences

CONSTANTS
    Task,      \* publications of one process
    Key,       \* (origin, project, merge request)
    Mutex,     \* allocations an Arc may point to
    MaxKeys,   \* HARD_MAX_LOCK_KEYS
    None       \* no mutex, no key

ASSUME LeaseAssumption ==
    /\ IsFiniteSet(Task)
    /\ IsFiniteSet(Key)
    /\ MaxKeys \in Nat
    /\ None \notin Mutex \cup Key

VARIABLES
    table,   \* the lock table: a mutex for some keys
    queue,   \* per mutex, the futures waiting for it, in arrival order
    pc,      \* per task, where it is in acquire, publish or drop
    key,     \* per task, the key of its lease
    mutex    \* per task, its own handle

leaseVars == <<table, queue, pc, key, mutex>>

Place == {"idle",      \* outside acquire and drop
          "waiting",   \* in acquire, its lock_owned future pending
          "held",      \* the lease exists
          "unlocked",  \* in drop, the guard taken
          "timedOut",  \* in acquire, the future dropped at the deadline
          "leaving"}   \* cleanup_lock returned, the handle not yet dropped

\* Tasks whose key must be served by the table.
Engaged == {"waiting", "held", "unlocked", "timedOut"}

LeaseTypeOK ==
    /\ table \in [Key -> Mutex \cup {None}]
    /\ queue \in [Mutex -> Seq(Task)]
    /\ pc \in [Task -> Place]
    /\ key \in [Task -> Key \cup {None}]
    /\ mutex \in [Task -> Mutex \cup {None}]
    /\ \A t \in Task : mutex[t] = None <=> pc[t] = "idle"

LeaseInit ==
    /\ table = [k \in Key |-> None]
    /\ queue = [m \in Mutex |-> <<>>]
    /\ pc = [t \in Task |-> "idle"]
    /\ key = [t \in Task |-> None]
    /\ mutex = [t \in Task |-> None]

-----------------------------------------------------------------------------

Entries == {k \in Key : table[k] # None}

Handles(m) == {t \in Task : mutex[t] = m}

\* Futures and guards own the second clone.
Clones(m) == {t \in Handles(m) : pc[t] \in {"waiting", "held"}}

StrongCount(m) ==
    Cardinality({k \in Key : table[k] = m})
      + Cardinality(Handles(m)) + Cardinality(Clones(m))

\* Nobody points to a mutex that is not allocated.
Unallocated(m) == (\A k \in Key : table[k] # m) /\ Handles(m) = {}

HasRoom(k) == table[k] # None \/ Cardinality(Entries) < MaxKeys

\* acquire, first part: under the table's lock, find or insert the key's mutex
\* and clone it, then start to wait for it.  A full table refuses (the task
\* stays idle: a stuttering step).
Enter(t, k) ==
    /\ pc[t] = "idle"
    /\ HasRoom(k)
    /\ \E m \in Mutex :
          /\ IF table[k] # None THEN m = table[k] ELSE Unallocated(m)
          /\ table' = [table EXCEPT ![k] = m]
          /\ mutex' = [mutex EXCEPT ![t] = m]
          /\ queue' = [queue EXCEPT ![m] = Append(@, t)]
    /\ key' = [key EXCEPT ![t] = k]
    /\ pc' = [pc EXCEPT ![t] = "waiting"]

\* tokio's Mutex is fair: the first waiting future gets the lock.
Free(m) == \A t \in Handles(m) : pc[t] # "held"

Lock(t) ==
    /\ pc[t] = "waiting"
    /\ Free(mutex[t])
    /\ queue[mutex[t]] # <<>>
    /\ Head(queue[mutex[t]]) = t
    /\ queue' = [queue EXCEPT ![mutex[t]] = Tail(@)]
    /\ pc' = [pc EXCEPT ![t] = "held"]
    /\ UNCHANGED <<table, key, mutex>>

\* A mutant of TimeOut: the abandoned future keeps its place in the queue.
TimeOutStaysQueued(t) ==
    /\ pc[t] = "waiting"
    /\ pc' = [pc EXCEPT ![t] = "timedOut"]
    /\ UNCHANGED <<table, queue, key, mutex>>

\* timeout_at elapsed: the future, with its clone, is dropped.
TimeOut(t) ==
    /\ pc[t] = "waiting"
    /\ queue' = [queue EXCEPT ![mutex[t]] = SelectSeq(@, LAMBDA u : u # t)]
    /\ pc' = [pc EXCEPT ![t] = "timedOut"]
    /\ UNCHANGED <<table, key, mutex>>

\* Drop: guard.take().
Unlock(t) ==
    /\ pc[t] = "held"
    /\ pc' = [pc EXCEPT ![t] = "unlocked"]
    /\ UNCHANGED <<table, queue, key, mutex>>

\* A mutant of LastUser: the strong count is not consulted.
LastUserUnchecked(t) == table[key[t]] = mutex[t]

LastUser(t) == StrongCount(mutex[t]) = 2 /\ table[key[t]] = mutex[t]

\* cleanup_lock, under the table's lock.
Cleanup(t) ==
    /\ pc[t] \in {"unlocked", "timedOut"}
    /\ table' = IF LastUser(t) THEN [table EXCEPT ![key[t]] = None] ELSE table
    /\ pc' = [pc EXCEPT ![t] = "leaving"]
    /\ UNCHANGED <<queue, key, mutex>>

\* The remaining handle is dropped, the last one freeing the mutex.
Leave(t) ==
    /\ pc[t] = "leaving"
    /\ mutex' = [mutex EXCEPT ![t] = None]
    /\ key' = [key EXCEPT ![t] = None]
    /\ pc' = [pc EXCEPT ![t] = "idle"]
    /\ UNCHANGED <<table, queue>>

LeaseNext ==
    \E t \in Task :
        \/ \E k \in Key : Enter(t, k)
        \/ Lock(t) \/ TimeOut(t) \/ Unlock(t) \/ Cleanup(t) \/ Leave(t)

\* A publication ends (it has a deadline) and a scheduled task runs.  The
\* deadline of a wait is not needed: fairness of the mutex is enough.
Fairness ==
    \A t \in Task : WF_leaseVars(Lock(t)) /\ WF_leaseVars(Unlock(t))
                    /\ WF_leaseVars(Cleanup(t)) /\ WF_leaseVars(Leave(t))

LeaseSpec == LeaseInit /\ [][LeaseNext]_leaseVars

FairSpec == LeaseSpec /\ Fairness

-----------------------------------------------------------------------------

(***************************************************************************)
(* At most one publication per merge request holds a lease, although the   *)
(* table forgets and recreates the mutex of a key.                         *)
(***************************************************************************)
MutualExclusion ==
    \A t, u \in Task :
        pc[t] = "held" /\ pc[u] = "held" /\ key[t] = key[u] => t = u

(***************************************************************************)
(* While any task still waits for, holds or is about to clean up a key's   *)
(* mutex, the table serves that mutex to newcomers: cleanup_lock never     *)
(* removes an entry somebody depends on.                                   *)
(***************************************************************************)
EntryOutlivesUsers ==
    \A t \in Task : pc[t] \in Engaged =>
        /\ mutex[t] # None
        /\ table[key[t]] = mutex[t]

(***************************************************************************)
(* The table never holds more than HARD_MAX_LOCK_KEYS entries, counting    *)
(* those that two simultaneous cleanups left behind.                       *)
(***************************************************************************)
TableBounded == Cardinality(Entries) <= MaxKeys

(***************************************************************************)
(* A publication that waits for its merge request is served or gives up:   *)
(* neither a release, nor the time-out of a task ahead of it, nor the      *)
(* removal of the entry strands it.                                        *)
(***************************************************************************)
WaitersServed == \A t \in Task : pc[t] = "waiting" ~> pc[t] # "waiting"

=============================================================================
