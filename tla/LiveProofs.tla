----------------------------- MODULE LiveProofs -----------------------------
(***************************************************************************)
(* Live search: activations, and the pages that are served meanwhile.      *)
(*                                                                         *)
(* For any number of stores, administrators, experiments and events: the   *)
(* safety of activation and rollback, and that LiveActivation implements   *)
(* LiveState.                                                              *)
(*                                                                         *)
(* The argument: a request that read a pointer holds the row until it      *)
(* commits (RequestsJustified), so what it read is what it replaces; the   *)
(* pointer is always at the newest event of its store (PointerAtNewest),   *)
(* so the event replaced had no successor and the chain cannot fork.       *)
(*                                                                         *)
(* For any number of pages and stores, and any configurations: what pages  *)
(* answer with.  The argument: whatever a page kept was live in that very  *)
(* store since the page began, and everything it answered with is what it  *)
(* keeps now, or stock after a failed read (AnswersExplained); a kept      *)
(* activation is never replaced within the page.                           *)
(***************************************************************************)
EXTENDS LiveActivation, LiveStorefront, FiniteSetTheorems, TLAPS

IInv ==
  /\ TypeOK
  /\ RequestsJustified
  /\ PointerAtNewest
  /\ LinearHistory
  /\ OnlyAcceptedWinnersLive

\* Committing a record is the only step that changes the event table.
LEMMA AppendedEvents ==
  ASSUME NEW T, NEW q \in Seq(T), NEW e \in T
  PROVE  /\ Append(q, e) \in Seq(T)
         /\ Len(Append(q, e)) = Len(q) + 1
         /\ DOMAIN Append(q, e) = DOMAIN q \cup {Len(q) + 1}
         /\ Len(q) + 1 \notin DOMAIN q
         /\ DOMAIN q = 1..Len(q)
         /\ Len(q) \in Nat
         /\ \A i \in DOMAIN q : Append(q, e)[i] = q[i] /\ q[i] \in T
         /\ Append(q, e)[Len(q) + 1] = e
  OBVIOUS

\* The initial states satisfy the invariant.
LEMMA InitIInv == Init => IInv
  <1> SUFFICES ASSUME Init PROVE IInv
    OBVIOUS
  <1>1. TypeOK
    BY DEF Init, TypeOK, Request, Idle
  <1>2. RequestsJustified /\ PointerAtNewest /\ LinearHistory /\ OnlyAcceptedWinnersLive
    BY DEF Init, RequestsJustified, PointerAtNewest, LinearHistory,
           OnlyAcceptedWinnersLive, Idle
  <1> QED
    BY <1>1, <1>2 DEF IInv

-----------------------------------------------------------------------------
\* A transaction that commits on the pointer it read keeps the invariant.
LEMMA WriteIInv ==
  ASSUME IInv, NEW a \in Admin, NEW s \in Store, NEW seen \in Nat, NEW ev \in Event,
         Write(a, s, seen, ev),
         ev.store = s, ev.previous = seen, Justified(ev),
         seen # 0 => lock[s] = a /\ current[s] = seen
  PROVE  IInv'
  <1> DEFINE n == Len(events) + 1
  <1>1. /\ events' \in Seq(Event)
        /\ n \in Nat /\ n \notin DOMAIN events
        /\ DOMAIN events' = DOMAIN events \cup {n}
        /\ \A i \in DOMAIN events : i \in Nat /\ i < n /\ events'[i] = events[i] /\ events[i] \in Event
        /\ events'[n] = ev
    BY AppendedEvents DEF Write, IInv, TypeOK
  <1>2. current[s] = seen
    BY DEF Write, StateWritable
  <1>3. /\ current' = [current EXCEPT ![s] = n]
        /\ current \in [Store -> Nat]
        /\ lock' = [t \in Store |-> IF lock[t] = a THEN None ELSE lock[t]]
        /\ request' = [request EXCEPT ![a] = Idle]
        /\ UNCHANGED <<accepted, index>>
    BY DEF Write, Finish, IInv, TypeOK
  <1>4. TypeOK'
    <2>1. version' \in [Store -> Nat]
      BY DEF Write, NextVersion, IInv, TypeOK
    <2>2. lock' \in [Store -> Admin \cup {None}]
      BY <1>3 DEF IInv, TypeOK
    <2>3. request' \in [Admin -> Request]
      BY <1>3 DEF IInv, TypeOK, Request
    <2> QED
      BY <1>1, <1>3, <2>1, <2>2, <2>3 DEF IInv, TypeOK
  <1>5. RequestsJustified'
    <2> SUFFICES ASSUME NEW b \in Admin, request'[b].state # "idle"
                 PROVE  /\ request'[b].action = "APPLY" =>
                             /\ request'[b].experiment \in accepted
                             /\ InputsMatch(request'[b].experiment)
                             /\ request'[b].store = Inputs[request'[b].experiment].store
                        /\ request'[b].state = "open" /\ request'[b].action = "ROLLBACK"
                             => request'[b].seen # 0
                        /\ request'[b].state = "open" /\ request'[b].seen # 0 =>
                             /\ lock'[request'[b].store] = b
                             /\ current'[request'[b].store] = request'[b].seen
      BY <1>3 DEF RequestsJustified, InputsMatch, Idle
    <2>1. b # a /\ request'[b] = request[b]
      BY <1>3 DEF IInv, TypeOK, Idle
    <2>2. request[b].state = "open" /\ request[b].seen # 0 =>
            /\ request[b].store \in Store
            /\ lock[request[b].store] = b
            /\ current[request[b].store] = request[b].seen
      BY <2>1 DEF IInv, TypeOK, Request, Idle, RequestsJustified
    <2>3. request[b].state = "open" /\ request[b].seen # 0 => request[b].store # s
      BY <1>2, <2>1, <2>2
    <2> QED
      BY <1>3, <2>1, <2>2, <2>3 DEF IInv, RequestsJustified
  <1>6. PointerAtNewest'
    BY <1>1, <1>2, <1>3 DEF IInv, PointerAtNewest, Event
  <1>7. LinearHistory'
    <2>1. \A t \in Store : current'[t] # 0 =>
            current'[t] \in DOMAIN events' /\ events'[current'[t]].store = t
      BY <1>1, <1>3 DEF IInv, LinearHistory
    <2>2. ASSUME NEW i \in DOMAIN events'
          PROVE  /\ events'[i].previous < i
                 /\ events'[i].previous # 0 =>
                      events'[events'[i].previous].store = events'[i].store
      <3>1. CASE i = n
        BY <1>1, <1>2, <3>1 DEF IInv, LinearHistory
      <3>2. CASE i # n
        <4>1. /\ i \in DOMAIN events /\ events'[i] = events[i]
              /\ events[i].previous \in Nat
              /\ events[i].previous < i
              /\ DOMAIN events = 1..Len(events) /\ Len(events) \in Nat
          BY <1>1, <3>2, AppendedEvents DEF IInv, LinearHistory, Event, TypeOK
        <4>2. events[i].previous # 0 => events[i].previous \in DOMAIN events
          BY <4>1
        <4> QED
          BY <1>1, <4>1, <4>2 DEF IInv, LinearHistory
      <3> QED
        BY <3>1, <3>2
    <2>3. ASSUME NEW i \in DOMAIN events', NEW j \in DOMAIN events', j # i,
                 events'[j].store = events'[i].store
          PROVE  events'[j].previous # events'[i].previous
      <3>1. \A k \in DOMAIN events : events[k].store = s => events[k].previous # seen
        BY <1>1, <1>2 DEF IInv, LinearHistory, PointerAtNewest, Event
      <3>2. CASE i # n /\ j # n
        BY <1>1, <2>3, <3>2 DEF IInv, LinearHistory
      <3>3. CASE i = n \/ j = n
        BY <1>1, <2>3, <3>1, <3>3
      <3> QED
        BY <3>2, <3>3
    <2>4. ASSUME NEW i \in DOMAIN events'
          PROVE  \/ current'[events'[i].store] = i
                 \/ \E j \in DOMAIN events' : events'[j].previous = i
      <3>1. CASE i = n
        BY <1>1, <1>3, <3>1
      <3>2. CASE i # n /\ i = seen
        BY <1>1, <3>2
      <3>3. CASE i # n /\ i # seen
        BY <1>1, <1>2, <1>3, <3>3 DEF IInv, LinearHistory, Event
      <3> QED
        BY <3>1, <3>2, <3>3
    <2> QED
      BY <2>1, <2>2, <2>3, <2>4 DEF LinearHistory
  <1>8. OnlyAcceptedWinnersLive'
    BY <1>1, <1>3 DEF IInv, OnlyAcceptedWinnersLive, Justified, InputsMatch
  <1> QED
    BY <1>4, <1>5, <1>6, <1>7, <1>8 DEF IInv

\* The predecessor an event names is an earlier row of the same store.
LEMMA PredecessorRow ==
  ASSUME IInv, NEW i \in DOMAIN events
  PROVE  /\ i \in Nat /\ i # 0 /\ events[i] \in Event
         /\ events[i].previous \in Nat /\ events[i].previous < i
         /\ events[i].previous # 0 =>
              /\ events[i].previous \in DOMAIN events
              /\ events[events[i].previous] \in Event
              /\ events[events[i].previous].store = events[i].store
  <1>1. /\ events[i] \in Event /\ i \in Nat /\ i # 0
        /\ DOMAIN events = 1..Len(events) /\ Len(events) \in Nat
    BY DEF IInv, TypeOK
  <1>2. events[i].previous \in Nat /\ events[i].previous < i
    BY <1>1 DEF IInv, LinearHistory, Event
  <1>3. events[i].previous # 0 => events[i].previous \in DOMAIN events
    BY <1>1, <1>2
  <1> QED
    BY <1>1, <1>2, <1>3 DEF IInv, TypeOK, LinearHistory

\* The record of an activation is a row of the event table and justified.
LEMMA ApplyEventJustified ==
  ASSUME IInv, NEW e \in accepted, InputsMatch(e), NEW seen \in Nat
  PROVE  /\ ApplyEvent(e, seen) \in Event
         /\ ApplyEvent(e, seen).store = Inputs[e].store
         /\ ApplyEvent(e, seen).previous = seen
         /\ Justified(ApplyEvent(e, seen))
  BY InputsAssumption, ConfigAssumption
     DEF ApplyEvent, Event, Justified, InputsMatch, IInv, TypeOK

\* So is the record of a rollback: it copies a justified event of its store.
LEMMA RollbackEventJustified ==
  ASSUME IInv, NEW s \in Store, current[s] # 0
  PROVE  LET ev == RollbackEvent(s, current[s])
         IN  ev \in Event /\ ev.store = s /\ ev.previous = current[s] /\ Justified(ev)
  <1> DEFINE c == current[s]
             target == events[c].previous
  <1>1. /\ c \in DOMAIN events /\ events[c] \in Event /\ events[c].store = s
        /\ c \in Nat /\ target \in Nat /\ target < c
        /\ target # 0 => target \in DOMAIN events /\ events[target] \in Event
                          /\ events[target].store = s
    <2>1. c \in DOMAIN events /\ events[c].store = s
      BY DEF IInv, LinearHistory
    <2> QED
      BY <2>1, PredecessorRow
  <1>2. CASE target = 0
    BY <1>1, <1>2 DEF RollbackEvent, Event, Justified
  <1>3. CASE target # 0
    <2>1. target \in DOMAIN events /\ events[target] \in Event /\ events[target].store = s
      BY <1>1, <1>3
    <2>2. Justified(events[target])
      BY <2>1 DEF IInv, OnlyAcceptedWinnersLive
    <2>3. RollbackEvent(s, c) =
            [events[target] EXCEPT !.action = "ROLLBACK", !.store = s, !.previous = c]
      BY <1>3 DEF RollbackEvent
    <2>4. RollbackEvent(s, c) \in Event
      BY <1>1, <2>1, <2>3 DEF Event
    <2>5. /\ RollbackEvent(s, c).store = s /\ RollbackEvent(s, c).previous = c
          /\ Justified(RollbackEvent(s, c))
      BY <1>1, <2>1, <2>2, <2>3 DEF Event, Justified
    <2> QED
      BY <2>4, <2>5
  <1> QED
    BY <1>2, <1>3

\* A step that leaves events and pointers alone keeps what is said of them.
LEMMA HistoryUnchanged ==
  ASSUME IInv, UNCHANGED <<events, current>>, accepted \subseteq accepted'
  PROVE  PointerAtNewest' /\ LinearHistory' /\ OnlyAcceptedWinnersLive'
  BY DEF IInv, PointerAtNewest, LinearHistory, OnlyAcceptedWinnersLive, Justified, InputsMatch

\* A request that ends without writing.
LEMMA FinishIInv ==
  ASSUME IInv, NEW a \in Admin, Finish(a),
         UNCHANGED <<accepted, index, events, current, version>>
  PROVE  IInv'
  <1>1. TypeOK'
    <2>1. lock' \in [Store -> Admin \cup {None}] /\ request' \in [Admin -> Request]
      BY DEF Finish, IInv, TypeOK, Request
    <2> QED
      BY <2>1 DEF IInv, TypeOK
  <1>2. RequestsJustified'
    <2>1. \A b \in Admin : request'[b].state # "idle" => b # a /\ request'[b] = request[b]
      BY DEF Finish, IInv, TypeOK, Idle
    <2>2. \A b \in Admin : request[b].state = "open" => request[b].store \in Store
      BY DEF IInv, TypeOK, Request, Idle
    <2>3. \A t \in Store, b \in Admin : lock[t] = b /\ b # a => lock'[t] = b
      BY DEF Finish
    <2>4. \A b \in Admin : request'[b].state # "idle" \/ request'[b].state = "idle"
      OBVIOUS
    <2> QED
      BY <2>1, <2>2, <2>3, <2>4 DEF IInv, RequestsJustified, InputsMatch
  <1> QED
    BY <1>1, <1>2, HistoryUnchanged DEF IInv

\* A locking read justifies the request that opens its transaction with it.
LEMMA OpenJustified ==
  ASSUME IInv, NEW a \in Admin, NEW s \in Store, NEW q \in Request,
         RowFree(s), LockRow(a, s), request' = [request EXCEPT ![a] = q],
         UNCHANGED <<accepted, current>>,
         q.state = "open", q.store = s, q.seen = current[s],
         q.action = "ROLLBACK" => current[s] # 0,
         q.action = "APPLY" =>
           /\ q.experiment \in accepted /\ InputsMatch(q.experiment)
           /\ s = Inputs[q.experiment].store
  PROVE  RequestsJustified'
  <1>1. request'[a] = q /\ \A b \in Admin : b # a => request'[b] = request[b]
    BY DEF IInv, TypeOK
  <1>2. current[s] # 0 => lock'[s] = a
    BY DEF LockRow, IInv, TypeOK
  <1>3. \A b \in Admin, t \in Store : lock[t] = b => lock'[t] = b
    BY NullAssumption DEF LockRow, RowFree, IInv, TypeOK
  <1>4. \A b \in Admin : request[b].state = "open" => request[b].store \in Store
    BY DEF IInv, TypeOK, Request, Idle
  <1> QED
    BY <1>1, <1>2, <1>3, <1>4 DEF IInv, RequestsJustified, InputsMatch

\* Every step keeps the invariant.
LEMMA NextIInv == IInv /\ [Next]_vars => IInv'
  <1> SUFFICES ASSUME IInv, [Next]_vars PROVE IInv'
    OBVIOUS
  <1>1. ASSUME NEW e \in Experiment, Accept(e) PROVE IInv'
    <2>1. TypeOK' /\ RequestsJustified'
      BY <1>1 DEF Accept, IInv, TypeOK, RequestsJustified, InputsMatch
    <2> QED
      BY <1>1, <2>1, HistoryUnchanged DEF Accept, IInv
  <1>2. ASSUME NEW s \in Store, NEW ev \in Evidence, Reindex(s, ev) PROVE IInv'
    <2>1. TypeOK' /\ RequestsJustified'
      BY <1>2 DEF Reindex, IInv, TypeOK, RequestsJustified, InputsMatch
    <2> QED
      BY <1>2, <2>1, HistoryUnchanged DEF Reindex, IInv
  <1>3. ASSUME NEW a \in Admin, NEW e \in Experiment, PassGate(a, e) PROVE IInv'
    <2>1. Applying("gated", e, 0) \in Request
      BY InputsAssumption DEF Applying, Request
    <2>2. TypeOK'
      BY <1>3, <2>1 DEF PassGate, IInv, TypeOK
    <2>3. RequestsJustified'
      BY <1>3 DEF PassGate, Applying, IInv, TypeOK, RequestsJustified, InputsMatch
    <2> QED
      BY <1>3, <2>2, <2>3, HistoryUnchanged DEF PassGate, IInv
  <1>4. ASSUME NEW a \in Admin, OpenApply(a) PROVE IInv'
    <2> DEFINE r == request[a]
    <2>1. /\ r.experiment \in Experiment /\ r.experiment \in accepted /\ r.action = "APPLY"
          /\ r.store \in Store /\ r.store = Inputs[r.experiment].store
          /\ InputsMatch(r.experiment)
      <3>1. r \in Request /\ r.state = "gated"
        BY <1>4 DEF OpenApply, IInv, TypeOK
      <3>2. r.experiment \in Experiment /\ r.action = "APPLY" /\ r.store \in Store
        BY <3>1 DEF Request, Idle
      <3> QED
        BY <3>1, <3>2 DEF IInv, RequestsJustified
    <2>2. Applying("open", r.experiment, current[r.store]) \in Request
      BY <2>1 DEF Applying, Request, IInv, TypeOK
    <2>3. TypeOK'
      BY <1>4, <2>1, <2>2 DEF OpenApply, LockRow, IInv, TypeOK
    <2>4. RequestsJustified'
      BY <1>4, <2>1, <2>2, OpenJustified DEF OpenApply, Applying
    <2> QED
      BY <1>4, <2>3, <2>4, HistoryUnchanged DEF OpenApply, IInv
  <1>5. ASSUME NEW a \in Admin, NEW s \in Store, OpenRollback(a, s) PROVE IInv'
    <2>1. RollingBack(s, current[s]) \in Request
      BY DEF RollingBack, Request, IInv, TypeOK
    <2>2. TypeOK'
      BY <1>5, <2>1 DEF OpenRollback, LockRow, IInv, TypeOK
    <2>3. RequestsJustified'
      BY <1>5, <2>1, OpenJustified DEF OpenRollback, RollingBack
    <2> QED
      BY <1>5, <2>2, <2>3, HistoryUnchanged DEF OpenRollback, IInv
  <1>6. ASSUME NEW a \in Admin, CommitApply(a) PROVE IInv'
    <2> DEFINE r == request[a]
    <2>1. /\ r.experiment \in accepted /\ InputsMatch(r.experiment)
          /\ r.store \in Store /\ r.store = Inputs[r.experiment].store /\ r.seen \in Nat
          /\ r.seen # 0 => lock[r.store] = a /\ current[r.store] = r.seen
      BY <1>6 DEF CommitApply, IInv, TypeOK, Request, Idle, RequestsJustified
    <2>2. Write(a, r.store, r.seen, ApplyEvent(r.experiment, r.seen))
      BY <1>6 DEF CommitApply
    <2> QED
      BY <2>1, <2>2, ApplyEventJustified, WriteIInv
  <1>7. ASSUME NEW a \in Admin, CommitRollback(a) PROVE IInv'
    <2> DEFINE r == request[a]
    <2>1. /\ r.store \in Store /\ r.seen \in Nat /\ r.seen # 0
          /\ lock[r.store] = a /\ current[r.store] = r.seen
      BY <1>7 DEF CommitRollback, IInv, TypeOK, Request, Idle, RequestsJustified
    <2>2. Write(a, r.store, r.seen, RollbackEvent(r.store, r.seen))
      BY <1>7 DEF CommitRollback
    <2> QED
      BY <2>1, <2>2, RollbackEventJustified, WriteIInv
  <1>8. ASSUME NEW a \in Admin, Refuse(a) PROVE IInv'
    BY <1>8, FinishIInv DEF Refuse
  <1>9. ASSUME NEW a \in Admin, Die(a) PROVE IInv'
    BY <1>9, FinishIInv DEF Die
  <1>10. CASE UNCHANGED vars
    <2>1. TypeOK' /\ RequestsJustified'
      BY <1>10 DEF vars, IInv, TypeOK, RequestsJustified, InputsMatch
    <2> QED
      BY <1>10, <2>1, HistoryUnchanged DEF vars, IInv
  <1> QED
    BY <1>1, <1>2, <1>3, <1>4, <1>5, <1>6, <1>7, <1>8, <1>9, <1>10 DEF Next, Conclude

\* The invariant holds in every reachable state.
THEOREM Invariant == Spec => []IInv
  BY InitIInv, NextIInv, PTL DEF Spec

\* Every variable keeps its type.
THEOREM TypeCorrect == Spec => []TypeOK
  BY Invariant, PTL DEF IInv

\* However requests interleave and die, the events of a store form one line
\* that ends at its pointer: no fork, no lost event.
THEOREM HistoryIsLinear == Spec => []LinearHistory
  BY Invariant, PTL DEF IInv

\* Only stock search and candidates of accepted winning experiments over
\* matching inputs are ever live.
THEOREM OnlyAcceptedWinners == Spec => []OnlyAcceptedWinnersLive
  BY Invariant, PTL DEF IInv

-----------------------------------------------------------------------------
\* What a commit does to the served and the replaced configurations.
LEMMA WriteEffect ==
  ASSUME IInv, NEW a \in Admin, NEW s \in Store, NEW seen \in Nat, NEW ev \in Event,
         Write(a, s, seen, ev), ev.store = s, ev.previous = seen,
         seen # 0 => current[s] = seen
  PROVE  /\ Serving' = [Serving EXCEPT ![s] = ev.candidate]
         /\ Replaced' = [Replaced EXCEPT ![s] = Serving[s]]
         /\ Touched' = Touched \cup {s}
         /\ seen = current[s]
  <1> DEFINE n == Len(events) + 1
  <1>1. /\ n \in Nat /\ n # 0 /\ n \notin DOMAIN events /\ 0 \notin DOMAIN events
        /\ \A i \in DOMAIN events : i \in Nat /\ events'[i] = events[i]
        /\ events'[n] = ev
        /\ DOMAIN events = 1..Len(events) /\ Len(events) \in Nat
    BY AppendedEvents DEF Write, IInv, TypeOK
  <1>2. current[s] = seen
    BY DEF Write, StateWritable
  <1>3. current' = [current EXCEPT ![s] = n] /\ current \in [Store -> Nat]
    BY DEF Write, IInv, TypeOK
  <1>4. \A i \in DOMAIN events \cup {0} : Effective(i)' = Effective(i)
    BY <1>1 DEF Effective
  <1>5. \A t \in Store : current[t] \in DOMAIN events \cup {0}
    BY DEF IInv, LinearHistory
  <1>6. \A i \in DOMAIN events : events[i].previous \in DOMAIN events \cup {0}
    BY PredecessorRow
  <1>7. (IF n = 0 THEN None ELSE events'[n].candidate) = ev.candidate
    BY <1>1
  <1> DEFINE servedBy(t) == Effective(current[t])
             heldBack(t) == IF current[t] = 0 THEN None
                            ELSE Effective(events[current[t]].previous)
  <1>8. \A t \in Store : servedBy(t)' = IF t = s THEN ev.candidate ELSE servedBy(t)
    <2> TAKE t \in Store
    <2>1. CASE t = s
      <3>1. current'[t] = n
        BY <1>3, <2>1
      <3> QED
        BY <1>7, <2>1, <3>1 DEF Effective
    <2>2. CASE t # s
      <3>1. current'[t] = current[t]
        BY <1>3, <2>2
      <3> QED
        BY <1>4, <1>5, <2>2, <3>1 DEF Effective
    <2> QED
      BY <2>1, <2>2
  <1>9. \A t \in Store : heldBack(t)' = IF t = s THEN servedBy(s) ELSE heldBack(t)
    <2> TAKE t \in Store
    <2>1. CASE t = s
      <3>1. current'[t] = n /\ events'[n].previous = seen /\ n # 0
        BY <1>1, <1>3, <2>1
      <3>2. heldBack(t)' = Effective(seen)'
        BY <3>1 DEF Effective
      <3> QED
        BY <1>2, <1>4, <1>5, <2>1, <3>2
    <2>2. CASE t # s
      <3>1. current'[t] = current[t]
        BY <1>3, <2>2
      <3>2. CASE current[t] = 0
        BY <2>2, <3>1, <3>2
      <3>3. CASE current[t] # 0
        BY <1>1, <1>4, <1>5, <1>6, <2>2, <3>1, <3>3 DEF Effective
      <3> QED
        BY <3>2, <3>3
    <2> QED
      BY <2>1, <2>2
  <1>10. {t \in Store : current'[t] # 0} = {t \in Store : current[t] # 0} \cup {s}
    BY <1>1, <1>3
  <1> QED
    BY <1>2, <1>8, <1>9, <1>10 DEF Serving, Replaced, Touched

\* What commits write, and on what they found.
LEMMA CommitFacts ==
  ASSUME IInv, NEW a \in Admin, CommitApply(a) \/ CommitRollback(a)
  PROVE  \E s \in Store, seen \in Nat, ev \in Event :
           /\ Write(a, s, seen, ev) /\ ev.store = s /\ ev.previous = seen
           /\ seen # 0 => current[s] = seen
           /\ \/ /\ \E e \in accepted :
                      /\ ev = ApplyEvent(e, seen) /\ InputsMatch(e)
                      /\ ~AlreadyActive(e, seen)
              \/ seen # 0 /\ ev = RollbackEvent(s, seen) /\ ev.action = "ROLLBACK"
  <1> DEFINE r == request[a]
  <1>1. CASE CommitApply(a)
    <2>1. /\ r.experiment \in accepted /\ InputsMatch(r.experiment)
          /\ r.store \in Store /\ r.store = Inputs[r.experiment].store /\ r.seen \in Nat
          /\ r.seen # 0 => current[r.store] = r.seen
      BY <1>1 DEF CommitApply, IInv, TypeOK, Request, Idle, RequestsJustified
    <2>2. /\ Write(a, r.store, r.seen, ApplyEvent(r.experiment, r.seen))
          /\ ~AlreadyActive(r.experiment, r.seen)
      BY <1>1 DEF CommitApply
    <2> QED
      BY <2>1, <2>2, ApplyEventJustified
  <1>2. CASE CommitRollback(a)
    <2>1. /\ r.store \in Store /\ r.seen \in Nat /\ r.seen # 0
          /\ current[r.store] = r.seen
      BY <1>2 DEF CommitRollback, IInv, TypeOK, Request, Idle, RequestsJustified
    <2>2. Write(a, r.store, r.seen, RollbackEvent(r.store, r.seen))
      BY <1>2 DEF CommitRollback
    <2>3. /\ RollbackEvent(r.store, r.seen) \in Event
          /\ RollbackEvent(r.store, r.seen).store = r.store
          /\ RollbackEvent(r.store, r.seen).previous = r.seen
      BY <2>1, RollbackEventJustified
    <2>4. RollbackEvent(r.store, r.seen).action = "ROLLBACK"
      <3>1. CASE events[r.seen].previous = 0
        BY <3>1 DEF RollbackEvent
      <3>2. CASE events[r.seen].previous # 0
        <4>1. events[events[r.seen].previous] \in Event
          <5>1. r.seen \in DOMAIN events
            BY <2>1 DEF IInv, LinearHistory
          <5> QED
            BY <3>2, <5>1, PredecessorRow
        <4> QED
          BY <3>2, <4>1 DEF RollbackEvent, Event
      <3> QED
        BY <3>1, <3>2
    <2> QED
      BY <2>1, <2>2, <2>3, <2>4
  <1> QED
    BY <1>1, <1>2

\* Every other step leaves the event table and the pointers alone.
LEMMA OtherSteps ==
  ASSUME [Next]_vars, \A a \in Admin : ~CommitApply(a) /\ ~CommitRollback(a)
  PROVE  UNCHANGED <<events, current, version>>
  BY DEF Next, Conclude, vars, Accept, Reindex, PassGate, OpenApply, OpenRollback, Refuse, Die

LEMMA NeverReplacesItselfStep ==
  IInv /\ IInv' /\ NeverReplacesItself /\ [Next]_vars => NeverReplacesItself'
  <1> SUFFICES ASSUME IInv, IInv', NeverReplacesItself, [Next]_vars PROVE NeverReplacesItself'
    OBVIOUS
  <1>1. CASE \A a \in Admin : ~CommitApply(a) /\ ~CommitRollback(a)
    BY <1>1, OtherSteps DEF NeverReplacesItself
  <1>2. ASSUME NEW a \in Admin, CommitApply(a) \/ CommitRollback(a) PROVE NeverReplacesItself'
    <2>1. PICK s \in Store, seen \in Nat, ev \in Event :
            /\ Write(a, s, seen, ev) /\ ev.store = s /\ ev.previous = seen
            /\ seen # 0 => current[s] = seen
            /\ \/ /\ \E e \in accepted :
                      /\ ev = ApplyEvent(e, seen) /\ InputsMatch(e)
                      /\ ~AlreadyActive(e, seen)
               \/ seen # 0 /\ ev = RollbackEvent(s, seen) /\ ev.action = "ROLLBACK"
      BY <1>2, CommitFacts
    <2> DEFINE n == Len(events) + 1
    <2>2. /\ DOMAIN events' = DOMAIN events \cup {n} /\ n \notin DOMAIN events
          /\ \A i \in DOMAIN events : events'[i] = events[i]
          /\ events'[n] = ev
          /\ DOMAIN events = 1..Len(events) /\ Len(events) \in Nat
      BY <2>1, AppendedEvents DEF Write, IInv, TypeOK
    <2>3. ASSUME NEW i \in DOMAIN events'
          PROVE  events'[i].action = "APPLY" /\ events'[i].previous # 0
                   => events'[events'[i].previous].candidate # events'[i].candidate
      <3>1. CASE i = n /\ ev.action = "APPLY" /\ seen # 0
        <4>1. PICK e \in accepted :
                /\ ev = ApplyEvent(e, seen) /\ InputsMatch(e) /\ ~AlreadyActive(e, seen)
          BY <2>1, <3>1
        <4>2. seen \in DOMAIN events
          BY <2>1, <3>1 DEF IInv, LinearHistory
        <4>3. Justified(events[seen])
          BY <4>2 DEF IInv, OnlyAcceptedWinnersLive
        <4>4. Inputs[e].candidate \in Candidate
          BY InputsAssumption DEF IInv, TypeOK
        <4>5. events[seen].candidate # Inputs[e].candidate
          BY <3>1, <4>1, <4>3, <4>4, NullAssumption DEF AlreadyActive, Justified
        <4> QED
          BY <2>1, <2>2, <3>1, <4>1, <4>2, <4>5 DEF ApplyEvent
      <3>2. CASE i = n /\ ~(ev.action = "APPLY" /\ seen # 0)
        BY <2>1, <2>2, <3>2
      <3>3. CASE i # n
        <4>1. i \in DOMAIN events /\ events'[i] = events[i] /\ events[i] \in Event
          BY <2>2, <3>3 DEF IInv, TypeOK
        <4>2. events[i].previous # 0 => events[i].previous \in DOMAIN events
          BY <4>1, PredecessorRow
        <4> QED
          BY <2>2, <4>1, <4>2 DEF NeverReplacesItself
      <3> QED
        BY <3>1, <3>2, <3>3
    <2> QED
      BY <2>3 DEF NeverReplacesItself
  <1> QED
    BY <1>1, <1>2

\* No activation replaces the candidate it activates, not even in a race.
THEOREM NoActivationReplacesItself == Spec => []NeverReplacesItself
  <1>1. Init => NeverReplacesItself
    BY DEF Init, NeverReplacesItself
  <1> QED
    BY <1>1, Invariant, NeverReplacesItselfStep, PTL DEF Spec

LEMMA VersionCountsStep ==
  IInv /\ VersionCountsEvents /\ [Next]_vars => VersionCountsEvents'
  <1> SUFFICES ASSUME IInv, VersionCountsEvents, [Next]_vars PROVE VersionCountsEvents'
    OBVIOUS
  <1>1. CASE \A a \in Admin : ~CommitApply(a) /\ ~CommitRollback(a)
    BY <1>1, OtherSteps DEF VersionCountsEvents
  <1>2. ASSUME NEW a \in Admin, CommitApply(a) \/ CommitRollback(a) PROVE VersionCountsEvents'
    <2>1. PICK s \in Store, seen \in Nat, ev \in Event :
            /\ Write(a, s, seen, ev) /\ ev.store = s
            /\ seen # 0 => current[s] = seen
      BY <1>2, CommitFacts
    <2> DEFINE n == Len(events) + 1
               rows(t) == {i \in DOMAIN events : events[i].store = t}
    <2>2. /\ DOMAIN events' = DOMAIN events \cup {n} /\ n \notin DOMAIN events
          /\ \A i \in DOMAIN events : i \in Nat /\ i # 0 /\ events'[i] = events[i]
          /\ events'[n] = ev
          /\ DOMAIN events = 1..Len(events) /\ Len(events) \in Nat
      BY <2>1, AppendedEvents DEF Write, IInv, TypeOK
    <2>3. \A t \in Store : IsFiniteSet(rows(t))
      <3>1. IsFiniteSet(1..Len(events))
        BY <2>2, FS_Interval
      <3> QED
        BY <2>2, <3>1, FS_Subset
    <2>4. version' = [version EXCEPT ![s] = NextVersion(s, seen)] /\ version \in [Store -> Nat]
      BY <2>1 DEF Write, IInv, TypeOK
    <2>5. ASSUME NEW t \in Store, t # s PROVE version'[t] = Cardinality(rows(t)')
      <3>1. rows(t)' = rows(t)
        BY <2>1, <2>2, <2>5
      <3>2. version[t] = Cardinality(rows(t))
        BY DEF VersionCountsEvents
      <3> QED
        BY <2>4, <2>5, <3>1, <3>2
    <2>6. version'[s] = Cardinality(rows(s)')
      <3>1. rows(s)' = rows(s) \cup {n} /\ n \notin rows(s)
        BY <2>1, <2>2
      <3>2. Cardinality(rows(s)') = Cardinality(rows(s)) + 1
        BY <2>3, <3>1, FS_AddElement
      <3>3. version[s] = Cardinality(rows(s))
        BY DEF VersionCountsEvents
      <3>4. CASE seen = 0
        <4>1. current[s] = 0
          BY <2>1, <3>4 DEF Write, StateWritable
        <4>2. rows(s) = {}
          BY <2>2, <4>1 DEF IInv, PointerAtNewest
        <4>3. Cardinality(rows(s)) = 0
          BY <4>2, FS_EmptySet
        <4> QED
          BY <2>4, <3>2, <3>4, <4>3 DEF NextVersion
      <3>5. CASE seen # 0
        BY <2>4, <3>2, <3>3, <3>5 DEF NextVersion
      <3> QED
        BY <3>4, <3>5
    <2> QED
      BY <2>5, <2>6 DEF VersionCountsEvents
  <1> QED
    BY <1>1, <1>2

\* The state version of a store counts its events.
THEOREM VersionCounts == Spec => []VersionCountsEvents
  <1>1. Init => VersionCountsEvents
    <2>1. Cardinality({}) = 0
      BY FS_EmptySet
    <2> QED
      BY <2>1 DEF Init, VersionCountsEvents
  <1> QED
    BY <1>1, Invariant, VersionCountsStep, PTL DEF Spec

-----------------------------------------------------------------------------
\* A step of LiveActivation is a step of LiveState or changes nothing it sees.
LEMMA LiveStep == IInv /\ [Next]_vars => [Live!LiveNext]_(Live!liveVars)
  <1> SUFFICES ASSUME IInv, [Next]_vars PROVE [Live!LiveNext]_(Live!liveVars)
    OBVIOUS
  <1>1. CASE \A a \in Admin : ~CommitApply(a) /\ ~CommitRollback(a)
    BY <1>1, OtherSteps DEF Live!liveVars, Serving, Replaced, Touched, Effective
  <1>2. ASSUME NEW a \in Admin, CommitApply(a) \/ CommitRollback(a) PROVE Live!LiveNext
    <2>1. PICK s \in Store, seen \in Nat, ev \in Event :
            /\ Write(a, s, seen, ev) /\ ev.store = s /\ ev.previous = seen
            /\ seen # 0 => current[s] = seen
            /\ \/ /\ \E e \in accepted :
                      /\ ev = ApplyEvent(e, seen) /\ InputsMatch(e)
                      /\ ~AlreadyActive(e, seen)
               \/ seen # 0 /\ ev = RollbackEvent(s, seen) /\ ev.action = "ROLLBACK"
      BY <1>2, CommitFacts
    <2>2. /\ Serving' = [Serving EXCEPT ![s] = ev.candidate]
          /\ Replaced' = [Replaced EXCEPT ![s] = Serving[s]]
          /\ Touched' = Touched \cup {s}
          /\ seen = current[s]
      BY <2>1, WriteEffect
    <2>3. CASE \E e \in accepted :
                 /\ ev = ApplyEvent(e, seen) /\ InputsMatch(e) /\ ~AlreadyActive(e, seen)
      <3>1. PICK e \in accepted :
              /\ ev = ApplyEvent(e, seen) /\ InputsMatch(e) /\ ~AlreadyActive(e, seen)
        BY <2>3
      <3>2. ev.candidate = Inputs[e].candidate /\ ev.candidate \in Candidate
        BY <3>1, InputsAssumption DEF ApplyEvent, IInv, TypeOK
      <3>3. Effective(seen) # ev.candidate
        <4>1. CASE seen = 0
          BY <3>2, <4>1, NullAssumption DEF Effective
        <4>2. CASE seen # 0
          <5>1. Justified(events[seen])
            BY <2>2, <4>2 DEF IInv, LinearHistory, OnlyAcceptedWinnersLive
          <5> QED
            BY <3>1, <3>2, <4>2, <5>1, NullAssumption DEF AlreadyActive, Justified, Effective
        <4> QED
          BY <4>1, <4>2
      <3>4. Live!Apply(s, ev.candidate)
        BY <2>2, <3>3 DEF Live!Apply, Serving
      <3> QED
        BY <3>2, <3>4 DEF Live!LiveNext
    <2>4. CASE seen # 0 /\ ev = RollbackEvent(s, seen) /\ ev.action = "ROLLBACK"
      <3>1. ev.candidate = Effective(events[seen].previous)
        <4>1. CASE events[seen].previous = 0
          BY <2>4, <4>1 DEF RollbackEvent, Effective
        <4>2. CASE events[seen].previous # 0
          <5>1. events[events[seen].previous] \in Event
            <6>1. seen \in DOMAIN events
              BY <2>2, <2>4 DEF IInv, LinearHistory
            <6> QED
              BY <4>2, <6>1, PredecessorRow
          <5> QED
            BY <2>4, <4>2, <5>1 DEF RollbackEvent, Effective, Event
        <4> QED
          BY <4>1, <4>2
      <3>2. Live!Undo(s)
        BY <2>2, <2>4, <3>1 DEF Live!Undo, Serving, Replaced, Touched
      <3> QED
        BY <3>2 DEF Live!LiveNext
    <2> QED
      BY <2>1, <2>3, <2>4
  <1> QED
    BY <1>1, <1>2

\* Events, pointers, locks and races implement plain apply and undo.
THEOREM LiveActivationImplementsLiveState == Spec => ImplementsLiveState
  <1>1. Init => Live!LiveInit
    BY DEF Init, Live!LiveInit, Serving, Replaced, Touched, Effective
  <1> QED
    BY <1>1, Invariant, LiveStep, PTL DEF Spec, ImplementsLiveState, Live!LiveSpec

-----------------------------------------------------------------------------
(* The pages of the storefront.                                          *)

KeptWasLive ==
  \A p \in Page, s \in StoreView :
    /\ serving[s] \in liveSince[p][s]
    /\ cache[p][s] # Unread => cache[p][s] \in liveSince[p][s]

Explained(p, s) ==
  {c \in Served : c = cache[p][s] \/ (c = StockSearch /\ s \in failed[p])}

AnswersExplained ==
  \A p \in Page, s \in StoreView : answers[p][s] \subseteq Explained(p, s)

PageIInv == PageTypeOK /\ KeptWasLive /\ AnswersExplained

\* The initial states satisfy the invariant.
LEMMA InitPageIInv == PageInit => PageIInv
  <1> SUFFICES ASSUME PageInit PROVE PageIInv
    OBVIOUS
  <1> USE DEF PageInit, LiveInit
  <1>1. PageTypeOK
    BY ReadsAssumption DEF PageTypeOK, Served
  <1>2. KeptWasLive
    BY DEF KeptWasLive
  <1>3. AnswersExplained
    BY DEF AnswersExplained, Explained
  <1> QED
    BY <1>1, <1>2, <1>3 DEF PageIInv

-----------------------------------------------------------------------------
\* Administrators change what is live; what pages keep is untouched.
LEMMA AdministerPageIInv == ASSUME PageIInv, Administer PROVE PageIInv'
  <1> USE DEF PageIInv, Administer
  <1>1. /\ serving' \in [StoreView -> Served] /\ replaced' \in [StoreView -> Served]
        /\ touched' \subseteq StoreView
    <2>1. ASSUME NEW s \in StoreView, Undo(s)
          PROVE  /\ serving' \in [StoreView -> Served]
                 /\ replaced' \in [StoreView -> Served] /\ touched' \subseteq StoreView
      BY <2>1 DEF Undo, PageTypeOK
    <2>2. ASSUME NEW s \in StoreView, NEW c \in Configuration, Apply(s, c)
          PROVE  /\ serving' \in [StoreView -> Served]
                 /\ replaced' \in [StoreView -> Served] /\ touched' \subseteq StoreView
      BY <2>2 DEF Apply, PageTypeOK, Served
    <2> QED
      BY <2>1, <2>2 DEF LiveNext
  <1>2. PageTypeOK'
    <2>1. liveSince' \in [Page -> [StoreView -> SUBSET Served]]
      BY <1>1 DEF PageTypeOK
    <2> QED
      BY <1>1, <2>1 DEF PageTypeOK
  <1>3. KeptWasLive'
    BY DEF KeptWasLive, PageTypeOK
  <1>4. AnswersExplained'
    BY DEF AnswersExplained, Explained
  <1> QED
    BY <1>2, <1>3, <1>4

\* A page begins with an empty cache and no answers.
LEMMA BeginIInv == ASSUME PageIInv, NEW p \in Page, Begin(p) PROVE PageIInv'
  <1> USE DEF PageIInv, Begin, liveVars
  <1>1. PageTypeOK'
    BY ReadsAssumption DEF PageTypeOK
  <1>2. KeptWasLive'
    BY DEF KeptWasLive, PageTypeOK
  <1>3. AnswersExplained'
    BY DEF AnswersExplained, Explained, PageTypeOK
  <1> QED
    BY <1>1, <1>2, <1>3

\* A search is answered from the cache, by a read that is kept, or with stock.
LEMMA SearchIInv ==
  ASSUME PageIInv, NEW p \in Page, NEW s \in StoreView,
         SearchFromCache(p, s) \/ SearchReading(p, s) \/ SearchReadFails(p, s)
  PROVE  PageIInv'
  <1> USE DEF PageIInv, liveVars
  <1>1. CASE SearchFromCache(p, s)
    <2> USE <1>1 DEF SearchFromCache, Known, Kept, Answer
    <2>1. cache[p][s] \in Served
      BY DEF PageTypeOK
    <2>2. PageTypeOK'
      BY <2>1 DEF PageTypeOK
    <2>3. KeptWasLive'
      BY DEF KeptWasLive
    <2>4. AnswersExplained'
      BY <2>1 DEF AnswersExplained, Explained, PageTypeOK
    <2> QED
      BY <2>2, <2>3, <2>4
  <1>2. CASE SearchReading(p, s)
    <2> USE <1>2 DEF SearchReading, Reading, Known, Kept, Answer
    <2>1. serving[s] \in Served /\ serving[s] # Unread
      BY UnreadAssumption DEF PageTypeOK, Served
    <2>2. PageTypeOK'
      BY <2>1, ReadsAssumption DEF PageTypeOK
    <2>3. KeptWasLive'
      BY DEF KeptWasLive, PageTypeOK
    <2>4. AnswersExplained'
      <3> SUFFICES ASSUME NEW q \in Page, NEW t \in StoreView, NEW c \in answers'[q][t]
                   PROVE  c \in Explained(q, t)'
        BY DEF AnswersExplained
      <3>1. CASE q = p /\ t = s
        BY <2>1, <3>1, UnreadAssumption
           DEF AnswersExplained, Explained, PageTypeOK, Served
      <3>2. CASE ~(q = p /\ t = s)
        <4>1. answers'[q][t] = answers[q][t] /\ cache'[q][t] = cache[q][t]
          BY <3>2 DEF PageTypeOK
        <4> QED
          BY <4>1 DEF AnswersExplained, Explained
      <3> QED
        BY <3>1, <3>2
    <2> QED
      BY <2>2, <2>3, <2>4
  <1>3. CASE SearchReadFails(p, s)
    <2> USE <1>3 DEF SearchReadFails, Reading, Known, Kept, Answer
    <2>1. PageTypeOK'
      BY ReadsAssumption DEF PageTypeOK, Served
    <2>2. KeptWasLive'
      BY DEF KeptWasLive
    <2>3. AnswersExplained'
      BY DEF AnswersExplained, Explained, PageTypeOK, Served
    <2> QED
      BY <2>1, <2>2, <2>3
  <1> QED
    BY <1>1, <1>2, <1>3

\* The invariant is inductive.
THEOREM PageInvariance == PageSpec => []PageIInv
  <1>1. ASSUME PageIInv, [PageNext]_allVars PROVE PageIInv'
    <2>1. CASE UNCHANGED allVars
      BY <1>1, <2>1 DEF allVars, pageVars, liveVars, PageIInv, PageTypeOK, KeptWasLive,
                        AnswersExplained, Explained
    <2>2. CASE PageNext
      BY <1>1, <2>2, AdministerPageIInv, BeginIInv, SearchIInv DEF PageNext
    <2> QED
      BY <1>1, <2>1, <2>2
  <1> QED
    BY InitPageIInv, <1>1, PTL DEF PageSpec

-----------------------------------------------------------------------------
\* The variables keep their types.
THEOREM PageTypeCorrect == PageSpec => []PageTypeOK
  <1>1. PageIInv => PageTypeOK
    BY DEF PageIInv
  <1> QED
    BY PageInvariance, <1>1, PTL

\* Every answer is stock search or was live in its store since the page began
\* (LiveQueryApplier::apply).
THEOREM PagesAnswerWithLive == PageSpec => []AnswersWereLive
  <1>1. ASSUME PageIInv, NEW p \in Page, NEW s \in StoreView, NEW c \in answers[p][s]
        PROVE  c \in liveSince[p][s] \cup {StockSearch}
    <2>1. c \in Served /\ (c = cache[p][s] \/ c = StockSearch)
      BY <1>1 DEF PageIInv, AnswersExplained, Explained
    <2>2. c # Unread
      BY <2>1, UnreadAssumption DEF Served
    <2> QED
      BY <1>1, <2>1, <2>2 DEF PageIInv, KeptWasLive
  <1>2. PageIInv => AnswersWereLive
    BY <1>1 DEF AnswersWereLive
  <1> QED
    BY PageInvariance, <1>2, PTL

\* A set within a singleton has one element at most.
LEMMA AtMostOne ==
  ASSUME NEW S, NEW c, S \subseteq {c}
  PROVE  Cardinality(S) <= 1
  <1>1. S = {} \/ S = {c}
    OBVIOUS
  <1> QED
    BY <1>1, FS_EmptySet, FS_Singleton

\* All the searches of a page in a store use one configuration, apart from
\* stock after a failed read (LiveQueryApplier::$currentByStore).
THEOREM PagesAreConsistent == PageSpec => []OneConfigurationPerPage
  <1>1. ASSUME PageIInv PROVE OneConfigurationPerPage
    <2> SUFFICES ASSUME NEW p \in Page, NEW s \in StoreView
                 PROVE  /\ Cardinality(answers[p][s] \ {StockSearch}) <= 1
                        /\ s \notin failed[p] => Cardinality(answers[p][s]) <= 1
      BY DEF OneConfigurationPerPage
    <2>1. answers[p][s] \ {StockSearch} \subseteq {cache[p][s]}
      BY <1>1 DEF PageIInv, AnswersExplained, Explained
    <2>2. s \notin failed[p] => answers[p][s] \subseteq {cache[p][s]}
      BY <1>1 DEF PageIInv, AnswersExplained, Explained
    <2> QED
      BY <2>1, <2>2, AtMostOne
  <1> QED
    BY PageInvariance, <1>1, PTL
=============================================================================
