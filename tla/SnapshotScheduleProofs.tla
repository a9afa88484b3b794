----------------------- MODULE SnapshotScheduleProofs -----------------------
(***************************************************************************)
(* For any number of stores, workers and policies, and any intervals: one  *)
(* worker at a time prepares a schedule, and a schedule only ever advances *)
(* to a later run, after the draft of the run it leaves is stored.         *)
(*                                                                         *)
(* The argument: whoever is between the lock and the update holds the lock *)
(* (Holds), so that releasing it never frees somebody else's; the draft in *)
(* a worker's hands is of the entry it is at, and stored before the update *)
(* (DraftFits); and the update compares the run time it advances.          *)
(***************************************************************************)
EXTENDS SnapshotSchedule, FiniteSetTheorems, SequenceTheorems, TLAPS

Inside == {"preview", "save", "mark"}

Holds ==
    \A w \in Workers : worker[w].at \in Inside => lock[Current(w).store] = w

DraftFits ==
    \A w \in Workers :
        /\ worker[w].at \in {"save", "mark"} =>
              /\ worker[w].draft.store = Current(w).store
              /\ worker[w].draft.end = Current(w).next
        /\ worker[w].at = "mark" => worker[w].draft \in snapshots

IInv == TypeOK /\ Holds /\ DraftFits

\* The initial states satisfy the invariant.
LEMMA InitIInv == Init => IInv
  <1> SUFFICES ASSUME Init PROVE IInv
    OBVIOUS
  <1>1. TypeOK
    BY DEF Init, TypeOK, Idle
  <1>2. Holds /\ DraftFits
    BY DEF Init, Holds, DraftFits, Idle, Inside
  <1> QED
    BY <1>1, <1>2 DEF IInv

-----------------------------------------------------------------------------
(* What workers have in their hands.                                       *)

\* A worker inside the foreach has an entry of a schedule.
LEMMA AtAnEntry ==
  ASSUME TypeOK, NEW w \in Workers, worker[w].at # "idle"
  PROVE  /\ worker[w] \in Rounds
         /\ worker[w].due \in Seq(Entries) /\ worker[w].due # <<>>
         /\ Current(w) \in Entries
  <1>1. worker[w] \in Rounds /\ worker[w].due # <<>>
    BY DEF TypeOK, Idle
  <1>2. worker[w].due \in Seq(Entries)
    BY <1>1 DEF Rounds
  <1>3. Head(worker[w].due) \in Entries
    BY <1>1, <1>2, HeadTailProperties
  <1> QED
    BY <1>1, <1>2, <1>3 DEF Current

\* The rest of the foreach is the end, or has an entry.
LEMMA RestOfTheLoop ==
  ASSUME TypeOK, NEW w \in Workers, worker[w].at # "idle"
  PROVE  /\ Rest(w) \in {Idle} \cup Rounds
         /\ Rest(w).at \in {"idle", "next"}
         /\ Rest(w).at # "idle" => Rest(w).due # <<>>
  <1> DEFINE due == worker[w].due
  <1>1. worker[w] \in Rounds /\ due \in Seq(Entries) /\ due # <<>>
    BY AtAnEntry
  <1>2. Tail(due) \in Seq(Entries) /\ Len(Tail(due)) = Len(due) - 1
        /\ Len(due) \in Nat
    BY <1>1, HeadTailProperties, LenProperties
  <1>3. CASE Len(due) = 1
    BY <1>3 DEF Rest, Idle
  <1>4. CASE Len(due) # 1
    <2>1. Rest(w) = [at |-> "next", now |-> worker[w].now, draft |-> None,
                     due |-> Tail(due)]
      BY <1>1, <1>4 DEF Rest, Rounds
    <2>2. Len(Tail(due)) # 0
      BY <1>2, <1>4
    <2>3. Tail(due) # <<>>
      BY <1>1, <1>2, <2>2, EmptySeq
    <2> QED
      BY <1>1, <1>2, <2>1, <2>3 DEF Rounds
  <1> QED
    BY <1>3, <1>4

\* A listing of due schedules is a sequence of entries and not empty.
LEMMA ListingsAreEntries ==
  ASSUME TypeOK, NEW due \in SUBSET Stores, due # {},
         \A s \in due : schedule[s] # None,
         NEW q \in Listings(due)
  PROVE  LET entries == [i \in DOMAIN q |-> Entry(q[i])]
         IN  entries \in Seq(Entries) /\ entries # <<>>
  <1> DEFINE n == IF Cardinality(due) < DueLimit THEN Cardinality(due)
                  ELSE DueLimit
             entries == [i \in DOMAIN q |-> Entry(q[i])]
  <1>1. IsFiniteSet(due) /\ Cardinality(due) \in Nat /\ Cardinality(due) # 0
    BY StoresAreFinite, FS_Subset, FS_CardinalityType, FS_EmptySet
  <1>2. n \in Nat \ {0}
    BY <1>1, SomeAreListed
  <1>3. q \in [1..n -> due]
    BY DEF Listings
  <1>4. \A s \in due : Entry(s) \in Entries
    BY DEF Entry, Entries, TypeOK, ScheduleRows
  <1>5. entries \in [1..n -> Entries]
    BY <1>3, <1>4
  <1>6. entries \in Seq(Entries) /\ Len(entries) = n
    BY <1>2, <1>5, LenProperties
  <1>7. entries # <<>>
    BY <1>2, <1>6
  <1> QED
    BY <1>6, <1>7

\* One worker's progress: the others keep their locks and drafts.
LEMMA WorkerMoves ==
  ASSUME IInv, NEW w \in Workers, NEW r \in {Idle} \cup Rounds,
         worker' = [worker EXCEPT ![w] = r],
         UNCHANGED <<clock, source, active, schedule>>,
         faults' \in Nat, snapshots \subseteq snapshots',
         snapshots' \subseteq Snapshots,
         lock' \in [Stores -> Workers \cup {None}],
         r.at # "idle" => r.due # <<>>,
         r.at \in {"save", "mark"} =>
             /\ r.draft \in Snapshots
             /\ r.draft.store = Head(r.due).store
             /\ r.draft.end = Head(r.due).next,
         r.at = "mark" => r.draft \in snapshots',
         r.at \in Inside => lock'[Head(r.due).store] = w,
         \A s \in Stores : lock[s] \notin {w, None} => lock'[s] = lock[s]
  PROVE  IInv'
  <1> USE DEF IInv
  <1>1. TypeOK'
    BY DEF TypeOK
  <1>2. ASSUME NEW v \in Workers, v # w
        PROVE  worker'[v] = worker[v]
    BY <1>2 DEF TypeOK
  <1>3. worker'[w] = r
    BY DEF TypeOK
  <1>4. Holds'
    <2> SUFFICES ASSUME NEW v \in Workers, worker'[v].at \in Inside
                 PROVE  lock'[Head(worker'[v].due).store] = v
      BY DEF Holds, Current
    <2>1. CASE v = w
      BY <1>3, <2>1
    <2>2. CASE v # w
      <3>1. worker'[v] = worker[v] /\ worker[v].at # "idle"
        BY <1>2, <2>2 DEF Inside
      <3>2. Current(v).store \in Stores /\ lock[Current(v).store] = v
        BY <1>2, <2>2, <3>1, AtAnEntry DEF Holds, Entries
      <3> QED
        BY <2>2, <3>1, <3>2, NoneIsNobody DEF Current
    <2> QED
      BY <2>1, <2>2
  <1>5. DraftFits'
    <2> SUFFICES ASSUME NEW v \in Workers
                 PROVE  /\ worker'[v].at \in {"save", "mark"} =>
                              /\ worker'[v].draft.store = Head(worker'[v].due).store
                              /\ worker'[v].draft.end = Head(worker'[v].due).next
                        /\ worker'[v].at = "mark" => worker'[v].draft \in snapshots'
      BY DEF DraftFits, Current
    <2> QED
      BY <1>2, <1>3 DEF DraftFits, Current
  <1> QED
    BY <1>1, <1>4, <1>5

-----------------------------------------------------------------------------
(* The steps.                                                              *)

\* The world and the administrators leave the workers alone.
LEMMA SurroundingsIInv ==
  ASSUME IInv,
         \/ Tick
         \/ \E s \in Stores : Shop(s) \/ Deactivate(s)
         \/ Administer
  PROVE  IInv'
  <1> USE DEF IInv
  <1>1. /\ UNCHANGED <<snapshots, lock, worker, faults>>
        /\ clock' \in Nat /\ source' \in [Stores -> Nat] /\ active' \subseteq Stores
        /\ schedule' \in [Stores -> ScheduleRows \cup {None}]
    <2>1. CASE Tick
      BY <2>1 DEF Tick, TypeOK
    <2>2. ASSUME NEW s \in Stores, Shop(s) \/ Deactivate(s)
          PROVE  /\ UNCHANGED <<snapshots, lock, worker, faults, clock, schedule>>
                 /\ source' \in [Stores -> Nat] /\ active' \subseteq Stores
      BY <2>2 DEF Shop, Deactivate, TypeOK
    <2>3. ASSUME NEW s \in Stores, NEW p \in Policies, NEW first \in FirstRuns,
                 Approve(s, p, first)
          PROVE  /\ UNCHANGED <<snapshots, lock, worker, faults, clock, source,
                                active>>
                 /\ schedule' \in [Stores -> ScheduleRows \cup {None}]
      BY <2>3, FirstRunsAreTimes DEF Approve, TypeOK, ScheduleRows
    <2>4. ASSUME NEW s \in Stores, Pause(s)
          PROVE  /\ UNCHANGED <<snapshots, lock, worker, faults, clock, source,
                                active>>
                 /\ schedule' \in [Stores -> ScheduleRows \cup {None}]
      <3>1. schedule[s] \in ScheduleRows
        BY <2>4 DEF Pause, TypeOK
      <3>2. [schedule[s] EXCEPT !.status = "PAUSED"] \in ScheduleRows
        BY <3>1 DEF ScheduleRows
      <3> QED
        BY <2>4, <3>2 DEF Pause, TypeOK
    <2> QED
      BY <2>1, <2>2, <2>3, <2>4 DEF Administer, TypeOK
  <1>2. TypeOK'
    BY <1>1 DEF TypeOK
  <1>3. Holds' /\ DraftFits'
    BY <1>1 DEF Holds, DraftFits, Current
  <1> QED
    BY <1>2, <1>3

\* A worker lists what is due.
LEMMA ListIInv == ASSUME IInv, NEW w \in Workers, List(w) PROVE IInv'
  <1> DEFINE due == {s \in Stores : Due(s, clock)}
  <1>1. PICK q \in Listings(due) :
          worker' = [worker EXCEPT ![w] =
              [at |-> "next", now |-> clock, draft |-> None,
               due |-> [i \in DOMAIN q |-> Entry(q[i])]]]
    BY DEF List
  <1> DEFINE r == [at |-> "next", now |-> clock, draft |-> None,
                   due |-> [i \in DOMAIN q |-> Entry(q[i])]]
  <1>2. due # {} /\ \A s \in due : schedule[s] # None
    BY DEF List, Due
  <1>3. r.due \in Seq(Entries) /\ r.due # <<>>
    BY <1>2, ListingsAreEntries DEF IInv
  <1>4. r \in Rounds
    BY <1>3 DEF Rounds, IInv, TypeOK
  <1>5. UNCHANGED <<clock, source, active, schedule, snapshots, lock, faults>>
    BY DEF List
  <1> HIDE DEF r
  <1>6. worker' = [worker EXCEPT ![w] = r] /\ r.at = "next"
    BY <1>1 DEF r
  <1> QED
    BY <1>3, <1>4, <1>5, <1>6, WorkerMoves DEF IInv, TypeOK, Inside

\* A worker enters the foreach with the lock, or passes an entry over.
LEMMA TryLockIInv == ASSUME IInv, NEW w \in Workers, TryLock(w) PROVE IInv'
  <1>1. worker[w].at # "idle" /\ TypeOK
    BY DEF TryLock, IInv
  <1>2. /\ worker[w] \in Rounds /\ worker[w].due # <<>>
        /\ Current(w) \in Entries /\ Current(w).store \in Stores
    BY <1>1, AtAnEntry DEF Entries
  <1>3. /\ Rest(w) \in {Idle} \cup Rounds /\ Rest(w).at \in {"idle", "next"}
        /\ Rest(w).at # "idle" => Rest(w).due # <<>>
    BY <1>1, RestOfTheLoop
  <1>4. UNCHANGED <<clock, source, active, schedule, snapshots, faults>>
    BY DEF TryLock
  <1>5. CASE LockFree(Current(w).store)
    <2> DEFINE r == [worker[w] EXCEPT !.at = "preview"]
    <2>1. r \in Rounds /\ r.at = "preview" /\ r.due = worker[w].due
      BY <1>2 DEF Rounds
    <2>2. /\ worker' = [worker EXCEPT ![w] = r]
          /\ lock' = [lock EXCEPT ![Current(w).store] = w]
          /\ lock[Current(w).store] = None
      BY <1>5 DEF TryLock, LockFree
    <2>3. /\ lock' \in [Stores -> Workers \cup {None}]
          /\ lock'[Head(r.due).store] = w
          /\ \A s \in Stores : lock[s] \notin {w, None} => lock'[s] = lock[s]
      BY <1>1, <1>2, <2>1, <2>2 DEF TypeOK, Current
    <2> HIDE DEF r
    <2> QED
      BY <1>1, <1>2, <1>4, <2>1, <2>2, <2>3, WorkerMoves DEF TypeOK
  <1>6. CASE ~LockFree(Current(w).store)
    <2>1. worker' = [worker EXCEPT ![w] = Rest(w)] /\ UNCHANGED lock
      BY <1>6 DEF TryLock
    <2> QED
      BY <1>1, <1>3, <1>4, <2>1, WorkerMoves DEF TypeOK, Inside
  <1> QED
    BY <1>5, <1>6

\* A worker previews the queries of its entry's store.
LEMMA PreviewIInv == ASSUME IInv, NEW w \in Workers, Preview(w) PROVE IInv'
  <1>1. worker[w].at = "preview" /\ TypeOK /\ Holds
    BY DEF Preview, IInv
  <1>2. /\ worker[w] \in Rounds /\ worker[w].due # <<>>
        /\ Current(w) \in Entries /\ lock[Current(w).store] = w
    BY <1>1, AtAnEntry DEF Holds, Inside
  <1> DEFINE d == [store |-> Current(w).store, rules |-> Rules[Current(w).policy],
                   end |-> Current(w).next, source |-> source[Current(w).store]]
             r == [worker[w] EXCEPT !.at = "save", !.draft = d]
  <1>3. d \in Snapshots
    BY <1>1, <1>2 DEF Entries, Snapshots, TypeOK
  <1>4. r \in Rounds /\ r.at = "save" /\ r.draft = d /\ r.due = worker[w].due
    <2> DEFINE old == worker[w]
    <2>1. old \in Rounds
      BY <1>2
    <2> HIDE DEF old, d
    <2>2. LET u == [old EXCEPT !.at = "save", !.draft = d] IN
          u \in Rounds /\ u.at = "save" /\ u.draft = d /\ u.due = old.due
      BY <1>3, <2>1 DEF Rounds
    <2> QED
      BY <2>2 DEF old
  <1>5. worker' = [worker EXCEPT ![w] = r]
    BY DEF Preview
  <1>6. UNCHANGED <<clock, source, active, schedule, snapshots, lock, faults>>
    BY DEF Preview
  <1>7. /\ r.draft.store = Head(r.due).store /\ r.draft.end = Head(r.due).next
        /\ lock[Head(r.due).store] = w
    BY <1>2, <1>4 DEF Current
  <1> HIDE DEF r, d
  <1> QED
    BY <1>1, <1>2, <1>3, <1>4, <1>5, <1>6, <1>7, WorkerMoves DEF TypeOK

\* A worker saves its draft, which may be there already.
LEMMA SaveDraftIInv == ASSUME IInv, NEW w \in Workers, SaveDraft(w) PROVE IInv'
  <1>1. worker[w].at = "save" /\ TypeOK /\ Holds /\ DraftFits
    BY DEF SaveDraft, IInv
  <1>2. /\ worker[w] \in Rounds /\ worker[w].due # <<>>
        /\ lock[Current(w).store] = w /\ worker[w].draft \in Snapshots
        /\ worker[w].draft.store = Current(w).store
        /\ worker[w].draft.end = Current(w).next
    BY <1>1, AtAnEntry DEF Holds, DraftFits, Inside, TypeOK
  <1> DEFINE r == [at |-> "mark", now |-> worker[w].now,
                   draft |-> worker[w].draft, due |-> worker[w].due]
  <1>3. /\ r \in Rounds /\ r.at = "mark" /\ r.due = worker[w].due
        /\ r.draft = worker[w].draft
    BY <1>2 DEF Rounds
  <1>4. /\ worker' = [worker EXCEPT ![w] = r]
        /\ UNCHANGED <<clock, source, active, schedule, lock, faults>>
    <2>1. [worker[w] EXCEPT !.at = "mark"] = r
      BY <1>2 DEF Rounds
    <2>2. worker' = [worker EXCEPT ![w] = [worker[w] EXCEPT !.at = "mark"]]
      BY DEF SaveDraft
    <2> HIDE DEF r
    <2> QED
      BY <2>1, <2>2 DEF SaveDraft
  <1>5. /\ snapshots \subseteq snapshots' /\ snapshots' \subseteq Snapshots
        /\ worker[w].draft \in snapshots'
    <2>1. snapshots' = snapshots \cup {worker[w].draft}
      BY DEF SaveDraft, SameSnapshot
    <2> QED
      BY <1>1, <1>2, <2>1 DEF TypeOK
  <1>6. /\ r.draft.store = Head(r.due).store /\ r.draft.end = Head(r.due).next
        /\ lock[Head(r.due).store] = w
    BY <1>2, <1>3 DEF Current
  <1> HIDE DEF r
  <1> QED
    BY <1>1, <1>2, <1>3, <1>4, <1>5, <1>6, WorkerMoves DEF TypeOK

\* A worker goes on to the rest of the loop and releases what it held.
LEMMA LeaveIInv ==
  ASSUME IInv, NEW w \in Workers, worker[w].at \in Inside,
         Unlock(w), worker' = [worker EXCEPT ![w] = Rest(w)],
         UNCHANGED <<clock, source, active, schedule, snapshots>>,
         faults' \in Nat
  PROVE  IInv'
  <1>1. worker[w].at # "idle" /\ TypeOK /\ Holds
    BY DEF IInv, Inside
  <1>2. Current(w).store \in Stores /\ lock[Current(w).store] = w
    BY <1>1, AtAnEntry DEF Entries, Holds
  <1>3. /\ Rest(w) \in {Idle} \cup Rounds /\ Rest(w).at \in {"idle", "next"}
        /\ Rest(w).at # "idle" => Rest(w).due # <<>>
    BY <1>1, RestOfTheLoop
  <1>4. /\ lock' \in [Stores -> Workers \cup {None}]
        /\ \A s \in Stores : lock[s] \notin {w, None} => lock'[s] = lock[s]
    BY <1>1, <1>2 DEF Unlock, TypeOK
  <1> QED
    BY <1>1, <1>3, <1>4, WorkerMoves DEF TypeOK, Inside

\* A schedule that advances is well formed, whether it is as listed or not.
LEMMA MarkedSchedule ==
  ASSUME IInv, NEW w \in Workers, MarkPrepared(w)
  PROVE  /\ Current(w) \in Entries
         /\ schedule' \in [Stores -> ScheduleRows \cup {None}]
         /\ \A s \in Stores :
               \/ schedule'[s] = schedule[s]
               \/ /\ s = Current(w).store /\ AsListed(Current(w))
                  /\ schedule'[s].prepared \in Nat
                  /\ schedule'[s].next =
                         schedule[s].next + Interval[Current(w).policy]
  <1>1. worker[w].at = "mark" /\ TypeOK
    BY DEF MarkPrepared, IInv
  <1>2. /\ Current(w) \in Entries /\ worker[w] \in Rounds
        /\ worker[w].now \in Nat
    BY <1>1, AtAnEntry DEF Rounds
  <1> DEFINE s == Current(w).store
             later == Current(w).next + Interval[Current(w).policy]
  <1>3. s \in Stores /\ Current(w).next \in Nat /\ later \in Nat
    BY <1>2, IntervalsArePositive DEF Entries
  <1>4. CASE AsListed(Current(w))
    <2>1. schedule[s] \in ScheduleRows /\ schedule[s].next = Current(w).next
      BY <1>1, <1>3, <1>4 DEF AsListed, TypeOK
    <2> DEFINE row == [schedule[s] EXCEPT !.prepared = worker[w].now, !.next = later]
    <2>2. row \in ScheduleRows /\ row.prepared = worker[w].now /\ row.next = later
      <3> DEFINE old == schedule[s]
      <3>1. old \in ScheduleRows
        BY <2>1
      <3> HIDE DEF old, later
      <3>2. LET u == [old EXCEPT !.prepared = worker[w].now, !.next = later] IN
            u \in ScheduleRows /\ u.prepared = worker[w].now /\ u.next = later
        BY <1>2, <1>3, <3>1 DEF ScheduleRows
      <3> QED
        BY <3>2 DEF old
    <2>3. schedule' = [schedule EXCEPT ![s] = row]
      BY <1>4 DEF MarkPrepared
    <2> HIDE DEF row, later
    <2>5. \A t \in Stores : schedule'[t] = IF t = s THEN row ELSE schedule[t]
      BY <1>1, <1>3, <2>3 DEF TypeOK
    <2>6. schedule' \in [Stores -> ScheduleRows \cup {None}]
      BY <1>1, <1>3, <2>2, <2>3 DEF TypeOK
    <2>7. row.prepared \in Nat /\ row.next = schedule[s].next + Interval[Current(w).policy]
      BY <1>2, <2>1, <2>2 DEF later
    <2> QED
      BY <1>2, <1>4, <2>5, <2>6, <2>7
  <1>5. CASE ~AsListed(Current(w))
    BY <1>1, <1>2, <1>5 DEF MarkPrepared, TypeOK
  <1> QED
    BY <1>4, <1>5

\* A schedule advances as listed, or stays; its worker goes on.
LEMMA MarkPreparedIInv == ASSUME IInv, NEW w \in Workers, MarkPrepared(w) PROVE IInv'
  <1>1. schedule' \in [Stores -> ScheduleRows \cup {None}]
    BY MarkedSchedule
  <1>2. worker[w].at = "mark" /\ TypeOK /\ Holds /\ DraftFits
    BY DEF MarkPrepared, IInv
  <1>3. /\ Rest(w) \in {Idle} \cup Rounds /\ Rest(w).at \in {"idle", "next"}
        /\ Rest(w).at # "idle" => Rest(w).due # <<>>
    BY <1>2, RestOfTheLoop
  <1>4. Current(w).store \in Stores /\ lock[Current(w).store] = w
    BY <1>2, AtAnEntry DEF Entries, Holds, Inside
  <1>5. /\ worker' = [worker EXCEPT ![w] = Rest(w)]
        /\ lock' = [lock EXCEPT ![Current(w).store] = None]
        /\ UNCHANGED <<clock, source, active, snapshots, faults>>
    BY DEF MarkPrepared, Unlock
  <1>6. TypeOK'
    BY <1>1, <1>2, <1>3, <1>4, <1>5 DEF TypeOK
  <1>7. Holds'
    <2> SUFFICES ASSUME NEW v \in Workers, worker'[v].at \in Inside
                 PROVE  lock'[Head(worker'[v].due).store] = v
      BY DEF Holds, Current
    <2>1. v # w /\ worker'[v] = worker[v] /\ worker[v].at # "idle"
      BY <1>2, <1>3, <1>5 DEF TypeOK, Inside
    <2>2. Current(v).store \in Stores /\ lock[Current(v).store] = v
      BY <1>2, <2>1, AtAnEntry DEF Holds, Entries
    <2> QED
      BY <1>2, <1>4, <1>5, <2>1, <2>2 DEF Current, TypeOK
  <1>8. DraftFits'
    BY <1>2, <1>3, <1>5 DEF DraftFits, Current, TypeOK
  <1> QED
    BY <1>6, <1>7, <1>8 DEF IInv

\* A worker that dies is idle, and nothing is left locked by it.
LEMMA DieIInv == ASSUME IInv, NEW w \in Workers, Die(w) PROVE IInv'
  <1>1. /\ lock' \in [Stores -> Workers \cup {None}] /\ faults' \in Nat
        /\ \A s \in Stores : lock[s] \notin {w, None} => lock'[s] = lock[s]
    BY DEF Die, IInv, TypeOK
  <1>2. Idle.at = "idle" /\ "idle" \notin Inside
    BY DEF Idle, Inside
  <1>3. /\ worker' = [worker EXCEPT ![w] = Idle]
        /\ UNCHANGED <<clock, source, active, schedule, snapshots>>
    BY DEF Die
  <1>4. snapshots' \subseteq Snapshots /\ snapshots \subseteq snapshots'
    BY <1>3 DEF IInv, TypeOK
  <1> HIDE DEF Idle
  <1> QED
    BY <1>1, <1>2, <1>3, <1>4, WorkerMoves

\* The invariant is inductive.
LEMMA StepIInv == ASSUME IInv, [Next]_vars PROVE IInv'
  <1>1. CASE UNCHANGED vars
    BY <1>1 DEF vars, IInv, TypeOK, Holds, DraftFits, Current
  <1>2. ASSUME NEW w \in Workers, Work(w) \/ Fault(w) \/ Die(w)
        PROVE  IInv'
    <2>1. CASE MarkPrepared(w)
      BY <2>1, MarkPreparedIInv
    <2>2. CASE FailOnStore(w)
      <3>1. faults' \in Nat /\ worker[w].at \in Inside
        BY <2>2 DEF FailOnStore, IInv, TypeOK, Inside
      <3> QED
        BY <2>2, <3>1, LeaveIInv DEF FailOnStore, Skip
    <2>3. CASE Fault(w)
      <3>1. faults' \in Nat /\ worker[w].at \in Inside
        BY <2>3 DEF Fault, IInv, TypeOK, Inside
      <3> QED
        BY <2>3, <3>1, LeaveIInv DEF Fault, Skip
    <2> QED
      BY <1>2, <2>1, <2>2, <2>3, ListIInv, TryLockIInv, PreviewIInv,
         SaveDraftIInv, DieIInv DEF Work
  <1> QED
    BY <1>1, <1>2, SurroundingsIInv DEF Next

THEOREM Invariance == Spec => []IInv
  BY InitIInv, StepIInv, PTL DEF Spec

-----------------------------------------------------------------------------
(* What follows.                                                           *)

\* The variables keep their types, and a worker in the foreach has an entry.
THEOREM ScheduleTypeCorrect == Spec => []TypeOK
  <1>1. IInv => TypeOK
    BY DEF IInv
  <1> QED
    BY Invariance, <1>1, PTL

\* HOW-IT-WORKS.md: a lock of the schedule prevents overlapping preparation;
\* however workers start, fail and die, two never prepare one schedule.
THEOREM OnePreparesASchedule == Spec => []PreparedByOne
  <1>1. IInv => PreparedByOne
    BY DEF IInv, Holds, PreparedByOne, Preparing, Inside
  <1> QED
    BY Invariance, <1>1, PTL

\* The steps after which a schedule has advanced are updates as listed.
LEMMA AdvancedAsListed ==
  ASSUME IInv, [Next]_vars, NEW s \in Stores, Advances(s)
  PROVE  \E w \in Workers :
           /\ worker[w].at = "mark" /\ s = Current(w).store
           /\ AsListed(Current(w)) /\ Current(w) \in Entries
           /\ schedule'[s].next = schedule[s].next + Interval[Current(w).policy]
  <1>1. schedule'[s] # schedule[s]
    BY DEF Advances
  <1>2. ~Tick /\ ~UNCHANGED vars /\ \A t \in Stores : ~Shop(t) /\ ~Deactivate(t)
    BY <1>1 DEF Tick, Shop, Deactivate, vars
  <1>3. ASSUME NEW t \in Stores, NEW p \in Policies, NEW first \in FirstRuns,
               Approve(t, p, first)
        PROVE  FALSE
    <2>1. t = s /\ schedule'[s].prepared = None
      BY <1>1, <1>3 DEF Approve, IInv, TypeOK
    <2> QED
      BY <2>1 DEF Advances
  <1>4. ASSUME NEW t \in Stores, Pause(t)
        PROVE  FALSE
    <2> DEFINE old == schedule[t]
    <2>1. old \in ScheduleRows
      BY <1>4 DEF Pause, IInv, TypeOK
    <2>2. schedule' = [schedule EXCEPT ![t] = [old EXCEPT !.status = "PAUSED"]]
      BY <1>4 DEF Pause
    <2>3. t = s
      BY <1>1, <2>2 DEF IInv, TypeOK
    <2>4. schedule'[s] = [old EXCEPT !.status = "PAUSED"]
      BY <2>2, <2>3 DEF IInv, TypeOK
    <2> HIDE DEF old
    <2>5. schedule'[s].next = old.next
      BY <2>1, <2>4 DEF ScheduleRows
    <2> QED
      BY <2>3, <2>5 DEF Advances, old
  <1>5. PICK w \in Workers : Work(w) \/ Fault(w) \/ Die(w)
    BY <1>2, <1>3, <1>4 DEF Next, Administer
  <1>6. MarkPrepared(w)
    BY <1>1, <1>5 DEF Work, Fault, Die, Skip, List, TryLock, Preview, SaveDraft,
                      FailOnStore
  <1> QED
    BY <1>1, <1>6, MarkedSchedule DEF MarkPrepared

\* A worker that listed a schedule long ago cannot take it back to a run that
\* is over (markPrepared()).
THEOREM RunsOnlyGoForward == Spec => NextRunNeverGoesBack
  <1>1. ASSUME IInv, [Next]_vars, NEW s \in Stores, Advances(s)
        PROVE  schedule'[s].next > schedule[s].next
    <2>1. PICK w \in Workers :
            /\ worker[w].at = "mark" /\ s = Current(w).store
            /\ AsListed(Current(w)) /\ Current(w) \in Entries
            /\ schedule'[s].next = schedule[s].next + Interval[Current(w).policy]
      BY <1>1, AdvancedAsListed
    <2>2. schedule[s].next \in Nat /\ Interval[Current(w).policy] \in Nat \ {0}
      BY <2>1, IntervalsArePositive DEF AsListed, Entries
    <2> QED
      BY <2>1, <2>2
  <1>2. IInv /\ [Next]_vars =>
          [\A s \in Stores : Advances(s) => schedule'[s].next > schedule[s].next]_vars
    BY <1>1
  <1> QED
    BY Invariance, <1>2, PTL DEF Spec, NextRunNeverGoesBack

\* A schedule advances only after the draft of the run it leaves behind is
\* stored (ScheduledDraftPreparer::prepare()).
THEOREM DraftBeforeNextRun == Spec => AdvancesAfterItsDraft
  <1>1. ASSUME IInv, [Next]_vars, NEW s \in Stores, Advances(s)
        PROVE  \E d \in snapshots : d.store = s /\ d.end = schedule[s].next
    <2>1. PICK w \in Workers :
            /\ worker[w].at = "mark" /\ s = Current(w).store
            /\ AsListed(Current(w))
      BY <1>1, AdvancedAsListed
    <2>2. /\ worker[w].draft \in snapshots /\ worker[w].draft.store = s
          /\ worker[w].draft.end = schedule[s].next
      BY <1>1, <2>1 DEF IInv, DraftFits, AsListed
    <2> QED
      BY <2>2
  <1>2. IInv /\ [Next]_vars =>
          [\A s \in Stores : Advances(s) =>
              \E d \in snapshots : d.store = s /\ d.end = schedule[s].next]_vars
    BY <1>1
  <1> QED
    BY Invariance, <1>2, PTL DEF Spec, AdvancesAfterItsDraft
=============================================================================
