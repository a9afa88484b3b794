-------------------------- MODULE SnapshotSchedule --------------------------
(***************************************************************************)
(* Scheduled query snapshots of the relevance workbench.  Administrators   *)
(* approve and pause one schedule per store; every fifteen minutes a cron  *)
(* worker lists the schedules that are due, and for each of them takes its *)
(* lock, previews the store's search queries, saves the preview as a draft *)
(* and moves the schedule to its next run.                                 *)
(*                                                                         *)
(* Workers overlap.  Each statement or transaction a worker issues is a    *)
(* step, so that administrators, other workers and the store's shoppers    *)
(* act between any two of them.  Times and intervals are natural numbers.  *)
(***************************************************************************)
EXTENDS Naturals, Sequences, FiniteSets

CONSTANTS
    Stores,       \* the stores; a schedule is known by its store
    Workers,      \* cron processes
    Policies,     \* policies an administrator may approve
    Interval,     \* Interval[p]: time between two runs under policy p
    Rules,        \* Rules[p]: the sampling rules of p, which previews follow
    FirstRuns,    \* first run times an administrator may approve
    DueLimit,     \* schedules a worker lists at once
    None,
    MaxClock,     \* bound: times that are explored
    MaxSource,    \* bound: changes of a store's search queries
    MaxFaults     \* bound: passing errors and workers that die

ASSUME StoresAreFinite == IsFiniteSet(Stores)
ASSUME IntervalsArePositive == Interval \in [Policies -> Nat \ {0}]
ASSUME FirstRunsAreTimes == FirstRuns \subseteq Nat
ASSUME SomeAreListed == DueLimit \in Nat \ {0}
ASSUME BoundsAreNumbers ==
    MaxClock \in Nat /\ MaxSource \in Nat /\ MaxFaults \in Nat
ASSUME NoneIsNobody == None \notin Workers \cup Nat

VARIABLES
    clock,
    source,       \* version of each store's search queries
    active,       \* stores that are active in Magento
    schedule,     \* the schedule row of each store, or None
    snapshots,    \* identities of the saved snapshots
    lock,         \* who holds the lock of each store's schedule
    worker,       \* progress and local variables of each worker
    faults

vars == <<clock, source, active, schedule, snapshots, lock, worker, faults>>

Idle == [at |-> "idle"]

Init ==
    /\ clock = 0
    /\ source = [s \in Stores |-> 0]
    /\ active = Stores
    /\ schedule = [s \in Stores |-> None]
    /\ snapshots = {}
    /\ lock = [s \in Stores |-> None]
    /\ worker = [w \in Workers |-> Idle]
    /\ faults = 0

----------------------------------------------------------------------------
(* The world around the workers.                                           *)

Tick ==
    /\ clock < MaxClock
    /\ clock' = clock + 1
    /\ UNCHANGED <<source, active, schedule, snapshots, lock,
                   worker, faults>>

Shop(s) ==
    /\ source[s] < MaxSource
    /\ source' = [source EXCEPT ![s] = @ + 1]
    /\ UNCHANGED <<clock, active, schedule, snapshots, lock, worker,
                   faults>>

Deactivate(s) ==
    /\ s \in active
    /\ active' = active \ {s}
    /\ UNCHANGED <<clock, source, schedule, snapshots, lock, worker,
                   faults>>

----------------------------------------------------------------------------
(* Administrators.                                                         *)

(* One row per store, replaced as a whole.                                 *)
Approve(s, p, first) ==
    /\ s \in active
    /\ schedule' = [schedule EXCEPT ![s] =
           [status |-> "ACTIVE", policy |-> p, next |-> first,
            prepared |-> None]]
    /\ UNCHANGED <<clock, source, active, snapshots, lock, worker,
                   faults>>

Pause(s) ==
    /\ schedule[s] # None
    /\ schedule[s].status = "ACTIVE"
    /\ schedule' = [schedule EXCEPT ![s].status = "PAUSED"]
    /\ UNCHANGED <<clock, source, active, snapshots, lock, worker,
                   faults>>

----------------------------------------------------------------------------
(* Workers.                                                                *)

Due(s, now) ==
    /\ schedule[s] # None
    /\ schedule[s].status = "ACTIVE"
    /\ schedule[s].next <= now

(* The listings ORDER BY next_run_at LIMIT DueLimit may return: ties come  *)
(* in any order.                                                           *)
Listings(due) ==
    LET n == IF Cardinality(due) < DueLimit THEN Cardinality(due) ELSE DueLimit
        Next(s) == schedule[s].next
    IN  {q \in [1..n -> due] :
            /\ \A i, j \in 1..n : i < j => q[i] # q[j] /\ Next(q[i]) <= Next(q[j])
            /\ \A s \in due : (\A i \in 1..n : q[i] # s)
                   => \A i \in 1..n : Next(q[i]) <= Next(s)}

Entry(s) == [store |-> s, policy |-> schedule[s].policy,
             next |-> schedule[s].next]

List(w) ==
    /\ worker[w].at = "idle"
    /\ LET due == {s \in Stores : Due(s, clock)} IN
       /\ due # {}
       /\ \E q \in Listings(due) :
             worker' = [worker EXCEPT ![w] =
                 [at |-> "next", now |-> clock, draft |-> None,
                  due |-> [i \in DOMAIN q |-> Entry(q[i])]]]
    /\ UNCHANGED <<clock, source, active, schedule, snapshots, lock,
                   faults>>

Current(w) == Head(worker[w].due)

(* The rest of the foreach: the next entry, or the end of the cron job.    *)
Rest(w) ==
    IF Len(worker[w].due) = 1 THEN Idle
    ELSE [worker[w] EXCEPT !.at = "next", !.due = Tail(@), !.draft = None]

LockFree(s) == lock[s] = None

(* The lock is tried once, without waiting.                                *)
TryLock(w) ==
    /\ worker[w].at = "next"
    /\ IF LockFree(Current(w).store)
       THEN /\ lock' = [lock EXCEPT ![Current(w).store] = w]
            /\ worker' = [worker EXCEPT ![w].at = "preview"]
       ELSE /\ worker' = [worker EXCEPT ![w] = Rest(w)]
            /\ UNCHANGED lock
    /\ UNCHANGED <<clock, source, active, schedule, snapshots,
                   faults>>

(* The preview of an active store's queries up to the run time listed.     *)
Preview(w) ==
    /\ worker[w].at = "preview"
    /\ Current(w).store \in active
    /\ worker' = [worker EXCEPT ![w] = [@ EXCEPT !.at = "save", !.draft =
           [store |-> Current(w).store, rules |-> Rules[Current(w).policy],
            end |-> Current(w).next, source |-> source[Current(w).store]]]]
    /\ UNCHANGED <<clock, source, active, schedule, snapshots, lock,
                   faults>>

(* Snapshots are compared by the hash of their rules, window and content.  *)
SameSnapshot(d, e) == d = e

SaveDraft(w) ==
    /\ worker[w].at = "save"
    /\ snapshots' =
           IF \E d \in snapshots : SameSnapshot(d, worker[w].draft)
           THEN snapshots
           ELSE snapshots \cup {worker[w].draft}
    /\ worker' = [worker EXCEPT ![w].at = "mark"]
    /\ UNCHANGED <<clock, source, active, schedule, lock, faults>>

\* Mutant: the lock is released on success only, and never again.
KeepLock(w) == UNCHANGED lock

Unlock(w) == lock' = [lock EXCEPT ![Current(w).store] = None]

\* Mutant: the update does not compare the run time.
StillActive(entry) ==
    schedule[entry.store] # None /\ schedule[entry.store].status = "ACTIVE"

(* The WHERE of the update in markPrepared().                              *)
AsListed(entry) ==
    /\ schedule[entry.store] # None
    /\ schedule[entry.store].status = "ACTIVE"
    /\ schedule[entry.store].next = entry.next

MarkPrepared(w) ==
    /\ worker[w].at = "mark"
    /\ schedule' =
           IF AsListed(Current(w))
           THEN [schedule EXCEPT ![Current(w).store] =
                   [@ EXCEPT !.prepared = worker[w].now,
                             !.next = Current(w).next
                                      + Interval[Current(w).policy]]]
           ELSE schedule
    /\ Unlock(w)
    /\ worker' = [worker EXCEPT ![w] = Rest(w)]
    /\ UNCHANGED <<clock, source, active, snapshots, faults>>

(* An exception is logged and the loop goes on: an inactive store raises    *)
(* one every time, the database or the preview now and then.               *)
Skip(w) ==
    /\ Unlock(w)
    /\ worker' = [worker EXCEPT ![w] = Rest(w)]
    /\ UNCHANGED <<clock, source, active, schedule, snapshots>>

FailOnStore(w) ==
    /\ worker[w].at = "preview"
    /\ Current(w).store \notin active
    /\ Skip(w)
    /\ UNCHANGED faults

Fault(w) ==
    /\ worker[w].at \in {"preview", "save", "mark"}
    /\ faults < MaxFaults
    /\ faults' = faults + 1
    /\ Skip(w)

(* A worker that dies loses its database connection and with it its lock.  *)
Die(w) ==
    /\ worker[w].at # "idle"
    /\ faults < MaxFaults
    /\ faults' = faults + 1
    /\ lock' = [s \in Stores |-> IF lock[s] = w THEN None ELSE lock[s]]
    /\ worker' = [worker EXCEPT ![w] = Idle]
    /\ UNCHANGED <<clock, source, active, schedule, snapshots>>

----------------------------------------------------------------------------
Work(w) ==
    \/ List(w) \/ TryLock(w) \/ Preview(w) \/ SaveDraft(w) \/ MarkPrepared(w)
    \/ FailOnStore(w)

Administer ==
    \/ \E s \in Stores, p \in Policies, first \in FirstRuns :
           Approve(s, p, first)
    \/ \E s \in Stores : Pause(s)

Next ==
    \/ Tick
    \/ \E s \in Stores : Shop(s) \/ Deactivate(s)
    \/ Administer
    \/ \E w \in Workers : Work(w) \/ Fault(w) \/ Die(w)

Spec == Init /\ [][Next]_vars

(* Cron starts a worker every fifteen minutes and a worker goes on until   *)
(* it is done; faults pass, which MaxFaults says.                          *)
Fairness == \A w \in Workers : WF_vars(Work(w))

FairSpec == Spec /\ Fairness

----------------------------------------------------------------------------
(* Properties.                                                             *)

Entries == [store : Stores, policy : Policies, next : Nat]
Snapshots == [store : Stores, rules : {Rules[p] : p \in Policies}, end : Nat,
              source : Nat]
ScheduleRows == [status : {"ACTIVE", "PAUSED"}, policy : Policies, next : Nat,
         prepared : Nat \cup {None}]
Rounds == [at : {"next", "preview", "save", "mark"}, now : Nat,
           draft : Snapshots \cup {None}, due : Seq(Entries)]

\* Types; a worker inside the foreach has an entry, and a draft to save and
\* to record.
TypeOK ==
    /\ clock \in Nat /\ faults \in Nat
    /\ source \in [Stores -> Nat]
    /\ active \subseteq Stores
    /\ schedule \in [Stores -> ScheduleRows \cup {None}]
    /\ snapshots \subseteq Snapshots
    /\ lock \in [Stores -> Workers \cup {None}]
    /\ worker \in [Workers -> {Idle} \cup Rounds]
    /\ \A w \in Workers : worker[w].at # "idle" =>
          /\ worker[w].due # <<>>
          /\ worker[w].at \in {"save", "mark"} => worker[w].draft \in Snapshots

Preparing(w, s) ==
    worker[w].at \in {"preview", "save", "mark"} /\ Current(w).store = s

\* HOW-IT-WORKS.md: a lock of the schedule prevents overlapping preparation.
PreparedByOne ==
    \A s \in Stores, v, w \in Workers :
        Preparing(v, s) /\ Preparing(w, s) => v = w

Advances(s) ==
    /\ schedule[s] # None /\ schedule'[s] # None
    /\ schedule'[s].next # schedule[s].next
    /\ schedule'[s].prepared # None

\* ScheduledDraftPreparer: a schedule advances only after the draft of the run
\* it leaves behind is stored, whatever fails in between.
AdvancesAfterItsDraft ==
    [][\A s \in Stores : Advances(s) =>
          \E d \in snapshots : d.store = s /\ d.end = schedule[s].next]_vars

\* markPrepared(): advancing leads to a later run; a worker that listed the
\* schedule long ago cannot take it back.
NextRunNeverGoesBack ==
    [][\A s \in Stores : Advances(s) =>
          schedule'[s].next > schedule[s].next]_vars

Waiting(s, n) ==
    /\ s \in active
    /\ Due(s, clock) /\ schedule[s].next = n

\* The due run of an active store is prepared in the end, unless the schedule
\* or the store is changed first, although a preparation fails or dies and
\* leaves its lock and perhaps its draft to the next worker.
DueIsPrepared ==
    \A s \in Stores, n \in 0..MaxClock : Waiting(s, n) ~> ~ Waiting(s, n)
=============================================================================
