--------------------------- MODULE LiveActivation ---------------------------
(***************************************************************************)
(* Activation and rollback of accepted candidates.                         *)
(*                                                                         *)
(* LiveActivationService gates an activation on an accepted experiment,    *)
(* on persisted inputs that still match and on a fresh capture of the      *)
(* index; LiveActivationRepository then appends an event and moves the     *)
(* store's pointer in one transaction.  Rollback is the repository call    *)
(* alone.  Every administrator request is a process: the gate, the locked  *)
(* read that opens the transaction and the commit are separate steps,      *)
(* between which other requests run, the catalog is reindexed and the PHP  *)
(* process may die.                                                        *)
(*                                                                         *)
(* A UUID is the position of its row in the append-only event table; 0 is  *)
(* the SQL NULL of a missing state row or a missing predecessor.           *)
(***************************************************************************)
EXTENDS Naturals, Sequences, FiniteSets

CONSTANTS Store, Admin,
          Experiment,   \* completed experiments
          Candidate,    \* persisted candidate configurations
          Evidence,     \* index-evidence hashes
          Boosts,       \* field-boost transformations
          Inputs,       \* identities each experiment recorded
          Config,       \* each candidate and its baseline, as persisted
          Stock,        \* the STOCK transformation
          None,         \* SQL NULL, or nobody
          MaxEvents     \* bound: no request starts once so many events exist

ASSUME InputsAssumption ==
  Inputs \in [Experiment -> [store : Store, candidate : Candidate, evidence : Evidence]]
ASSUME ConfigAssumption ==
  Config \in [Candidate -> [store : Store, evidence : Evidence, boosts : Boosts]]
ASSUME NullAssumption ==
  None \notin Candidate \cup Experiment \cup Admin /\ Stock \notin Boosts
ASSUME MaxEventsAssumption == MaxEvents \in Nat

VARIABLES accepted,  \* experiments in state ACCEPTED with a WINNER result
          index,     \* what a fresh capture of a store's alias yields now
          events,    \* osrw_live_activation
          current,   \* osrw_live_state.current_activation_uuid, 0 when no row
          version,   \* osrw_live_state.version
          lock,      \* who holds the FOR UPDATE lock on the store's state row
          request    \* one activation or rollback request per administrator

vars == <<accepted, index, events, current, version, lock, request>>

Event == [store : Store, action : {"APPLY", "ROLLBACK"},
          candidate : Candidate \cup {None}, experiment : Experiment \cup {None},
          previous : Nat, transformation : Boosts \cup {Stock}, evidence : Evidence]

Idle == [state |-> "idle"]

Applying(st, e, seen) ==
  [state |-> st, action |-> "APPLY", store |-> Inputs[e].store,
   experiment |-> e, seen |-> seen]

RollingBack(s, seen) ==
  [state |-> "open", action |-> "ROLLBACK", store |-> s,
   experiment |-> None, seen |-> seen]

Request ==
  {Idle} \cup [state : {"gated", "open"}, action : {"APPLY"}, store : Store,
               experiment : Experiment, seen : Nat]
         \cup [state : {"open"}, action : {"ROLLBACK"}, store : Store,
               experiment : {None}, seen : Nat]

TypeOK ==
  /\ accepted \subseteq Experiment
  /\ index \in [Store -> Evidence]
  /\ events \in Seq(Event)
  /\ current \in [Store -> Nat]
  /\ version \in [Store -> Nat]
  /\ lock \in [Store -> Admin \cup {None}]
  /\ request \in [Admin -> Request]

Init ==
  /\ accepted = {}
  /\ index \in [Store -> Evidence]
  /\ events = <<>>
  /\ current = [s \in Store |-> 0]
  /\ version = [s \in Store |-> 0]
  /\ lock = [s \in Store |-> None]
  /\ request = [a \in Admin |-> Idle]

-----------------------------------------------------------------------------
\* The surroundings: merchants accept winning experiments and never take an
\* acceptance back; a reindex changes what a fresh capture yields.
Accept(e) ==
  /\ e \notin accepted
  /\ accepted' = accepted \cup {e}
  /\ UNCHANGED <<index, events, current, version, lock, request>>

Reindex(s, ev) ==
  /\ index[s] # ev
  /\ index' = [index EXCEPT ![s] = ev]
  /\ UNCHANGED <<accepted, events, current, version, lock, request>>

-----------------------------------------------------------------------------
\* Mutant: the gate trusts the identities the experiment recorded.
TrustInputs(e) == TRUE

\* The identities an experiment recorded still match the persisted candidate
\* and its baseline.
InputsMatch(e) ==
  LET c == Config[Inputs[e].candidate]
  IN  c.store = Inputs[e].store /\ c.evidence = Inputs[e].evidence

\* LiveActivationService: every condition up to the fresh capture holds.
PassGate(a, e) ==
  /\ request[a].state = "idle" /\ Len(events) < MaxEvents
  /\ e \in accepted
  /\ InputsMatch(e)
  /\ index[Inputs[e].store] = Inputs[e].evidence
  /\ request' = [request EXCEPT ![a] = Applying("gated", e, 0)]
  /\ UNCHANGED <<accepted, index, events, current, version, lock>>

\* Mutant: the read that opens the transaction is not locking.
ReadWithoutLock(s) == TRUE

\* SELECT ... FOR UPDATE waits for the row.  A row that does not exist yet
\* excludes nobody: two first activations may both read NULL.
RowFree(s) == lock[s] = None

LockRow(a, s) ==
  lock' = IF current[s] = 0 THEN lock ELSE [lock EXCEPT ![s] = a]

OpenApply(a) ==
  LET r == request[a] IN
  /\ r.state = "gated"
  /\ RowFree(r.store)
  /\ LockRow(a, r.store)
  /\ request' = [request EXCEPT ![a] = Applying("open", r.experiment, current[r.store])]
  /\ UNCHANGED <<accepted, index, events, current, version>>

\* A rollback with no state row is refused at once, which changes nothing.
OpenRollback(a, s) ==
  /\ request[a].state = "idle" /\ Len(events) < MaxEvents
  /\ RowFree(s)
  /\ current[s] # 0
  /\ LockRow(a, s)
  /\ request' = [request EXCEPT ![a] = RollingBack(s, current[s])]
  /\ UNCHANGED <<accepted, index, events, current, version>>

-----------------------------------------------------------------------------
\* The record an activation inserts.
ApplyEvent(e, seen) ==
  LET c == Inputs[e].candidate IN
  [store |-> Inputs[e].store, action |-> "APPLY", candidate |-> c,
   experiment |-> e, previous |-> seen,
   transformation |-> Config[c].boosts, evidence |-> Config[c].evidence]

\* Mutant: rollback walks the chain back instead of remembering what it replaced.
WalkBackEvent(s, seen) ==
  LET target == events[seen].previous IN
  IF target = 0
  THEN [store |-> s, action |-> "ROLLBACK", candidate |-> None, experiment |-> None,
        previous |-> 0, transformation |-> Stock, evidence |-> events[seen].evidence]
  ELSE [events[target] EXCEPT !.action = "ROLLBACK"]

\* The record a rollback inserts: the configuration of the replaced event's
\* predecessor, or stock search when it had none.
RollbackEvent(s, seen) ==
  LET target == events[seen].previous IN
  IF target = 0
  THEN [store |-> s, action |-> "ROLLBACK", candidate |-> None, experiment |-> None,
        previous |-> seen, transformation |-> Stock, evidence |-> events[seen].evidence]
  ELSE [events[target] EXCEPT !.action = "ROLLBACK", !.store = s, !.previous = seen]

\* The exact candidate is already live: the activation is refused.
AlreadyActive(e, seen) ==
  /\ seen # 0
  /\ events[seen].candidate = Inputs[e].candidate
  /\ events[seen].evidence = Config[Inputs[e].candidate].evidence
  /\ events[seen].transformation = Config[Inputs[e].candidate].boosts

\* persistState: update the row that was read, or insert the first one, which
\* fails on the primary key when another first activation came between.
StateWritable(s, seen) == seen # 0 \/ current[s] = 0

NextVersion(s, seen) == IF seen = 0 THEN 1 ELSE version[s] + 1

\* Mutant: a failed or finished transaction leaves its connection, and lock, open.
FinishKeepingLock(a) ==
  /\ request' = [request EXCEPT ![a] = Idle]
  /\ UNCHANGED lock

\* The transaction is over: the row lock goes, the request ends.
Finish(a) ==
  /\ lock' = [s \in Store |-> IF lock[s] = a THEN None ELSE lock[s]]
  /\ request' = [request EXCEPT ![a] = Idle]

Write(a, s, seen, ev) ==
  /\ StateWritable(s, seen)
  /\ events' = Append(events, ev)
  /\ current' = [current EXCEPT ![s] = Len(events) + 1]
  /\ version' = [version EXCEPT ![s] = NextVersion(s, seen)]
  /\ Finish(a)
  /\ UNCHANGED <<accepted, index>>

CommitApply(a) ==
  LET r == request[a] IN
  /\ r.state = "open" /\ r.action = "APPLY"
  /\ ~AlreadyActive(r.experiment, r.seen)
  /\ Write(a, r.store, r.seen, ApplyEvent(r.experiment, r.seen))

CommitRollback(a) ==
  LET r == request[a] IN
  /\ r.state = "open" /\ r.action = "ROLLBACK"
  /\ Write(a, r.store, r.seen, RollbackEvent(r.store, r.seen))

\* The transaction rolls back and the administrator reads an error: the exact
\* candidate is live already, or the first-row insert lost the race.
Refuse(a) ==
  LET r == request[a] IN
  /\ r.state = "open" /\ r.action = "APPLY"
  /\ AlreadyActive(r.experiment, r.seen) \/ ~StateWritable(r.store, r.seen)
  /\ Finish(a)
  /\ UNCHANGED <<accepted, index, events, current, version>>

\* The PHP process or its database connection dies: the open transaction is
\* rolled back and its locks are released.
Die(a) ==
  /\ request[a].state # "idle"
  /\ Finish(a)
  /\ UNCHANGED <<accepted, index, events, current, version>>

Conclude(a) == CommitApply(a) \/ CommitRollback(a) \/ Refuse(a)

Next ==
  \/ \E e \in Experiment : Accept(e)
  \/ \E s \in Store, ev \in Evidence : Reindex(s, ev)
  \/ \E a \in Admin :
       \/ \E e \in Experiment : PassGate(a, e)
       \/ \E s \in Store : OpenRollback(a, s)
       \/ OpenApply(a)
       \/ Conclude(a)
       \/ Die(a)

Spec == Init /\ [][Next]_vars

\* A PHP request runs to its end unless it dies, and InnoDB grants a row lock
\* to whoever waits for it, in turn.
Fairness == \A a \in Admin : WF_vars(Conclude(a)) /\ SF_vars(OpenApply(a))

FairSpec == Spec /\ Fairness

-----------------------------------------------------------------------------
(***************************************************************************)
(* Properties                                                              *)
(***************************************************************************)
\* A request between its locking read and its commit works on the pointer it
\* read, and an activation that passed the gate stays justified.
RequestsJustified ==
  \A a \in Admin :
    LET r == request[a] IN
    /\ r.state # "idle" /\ r.action = "APPLY" =>
         /\ r.experiment \in accepted
         /\ InputsMatch(r.experiment)
         /\ r.store = Inputs[r.experiment].store
    /\ r.state = "open" /\ r.action = "ROLLBACK" => r.seen # 0
    /\ r.state = "open" /\ r.seen # 0 =>
         lock[r.store] = a /\ current[r.store] = r.seen

\* The pointer of a store is at its newest event.
PointerAtNewest == \A i \in DOMAIN events : i <= current[events[i].store]

\* The events of a store form one line that ends at its pointer: whatever the
\* interleaving of requests, no event is replaced twice and none is lost from
\* the chain that rollback walks (LiveActivationRepository, the FOR UPDATE read
\* and the first-row insert).
LinearHistory ==
  /\ \A s \in Store : current[s] # 0 => current[s] \in DOMAIN events /\ events[current[s]].store = s
  /\ \A i \in DOMAIN events :
       LET p == events[i].previous IN
       /\ p < i
       /\ p # 0 => events[p].store = events[i].store
       /\ \A j \in DOMAIN events :
            j # i /\ events[j].store = events[i].store => events[j].previous # p
       /\ \/ current[events[i].store] = i
          \/ \E j \in DOMAIN events : events[j].previous = i

\* The state version counts the committed events of its store, also when
\* several requests meet a store without a state row (persistState).
VersionCountsEvents ==
  \A s \in Store : version[s] = Cardinality({i \in DOMAIN events : events[i].store = s})

\* Stock search, or the unaltered transformation of a candidate of that store
\* that won an accepted experiment over matching inputs.
Justified(ev) ==
  \/ ev.candidate = None /\ ev.experiment = None /\ ev.transformation = Stock
  \/ /\ ev.experiment \in accepted
     /\ InputsMatch(ev.experiment)
     /\ ev.candidate = Inputs[ev.experiment].candidate
     /\ ev.store = Config[ev.candidate].store
     /\ ev.transformation = Config[ev.candidate].boosts
     /\ ev.evidence = Config[ev.candidate].evidence

\* Whatever was live at any time, applied or restored, was justified
\* (LiveActivationService::activate, LiveActivationRepository::rollback).
OnlyAcceptedWinnersLive == \A i \in DOMAIN events : Justified(events[i])

\* An activation never replaces the same candidate, not even when two
\* administrators activate it at once: rollback always has something to restore
\* (docs/HOW-IT-WORKS.md, the repository rejects a duplicate apply).
NeverReplacesItself ==
  \A i \in DOMAIN events :
    events[i].action = "APPLY" /\ events[i].previous # 0
      => events[events[i].previous].candidate # events[i].candidate

\* What the storefront of a store uses, and what the next rollback restores.
Effective(i) == IF i = 0 THEN None ELSE events[i].candidate

Serving  == [s \in Store |-> Effective(current[s])]
Replaced == [s \in Store |-> IF current[s] = 0 THEN None
                             ELSE Effective(events[current[s]].previous)]
Touched  == {s \in Store : current[s] # 0}

Live == INSTANCE LiveState WITH
  StoreView <- Store, Configuration <- Candidate, StockSearch <- None,
  serving <- Serving, replaced <- Replaced, touched <- Touched

\* Events, pointers, locks and races amount to applying and undoing: every
\* commit replaces what is served and remembers it, and a second rollback undoes
\* the first (docs/HOW-IT-WORKS.md, section 9).
ImplementsLiveState == Live!LiveSpec

\* Every activation or rollback request comes to an end: nobody waits for a row
\* lock forever.
RequestsEnd ==
  \A a \in Admin : request[a].state # "idle" ~> request[a].state = "idle"
=============================================================================
