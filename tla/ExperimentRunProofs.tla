------------------------ MODULE ExperimentRunProofs ------------------------
(***************************************************************************)
(* For any number of runs, administrators and exports, any artifacts and   *)
(* experiment kinds, and an index written to at any time.                  *)
(*                                                                         *)
(* The argument: objects, bindings and writes only grow (Grows), so what a *)
(* run found out about a slot stays true while others run.  A run has      *)
(* passed the slots before its own, each with the bound identity of a      *)
(* completed object (Passed); the kinds ahead of it hold what was bound    *)
(* when it read them, or nothing (Ahead).  Evidence is on the row only     *)
(* when every kind is bound (RowOK), so that no later binding touches an   *)
(* accepted row, and a fresh ranking was read before any write (Ranked).   *)
(***************************************************************************)
EXTENDS ExperimentRun, SequenceTheorems, TLAPS

OnASlot(r) == run[r].at \in {"resolve", "create", "bind", "verify"}
Between(r) == run[r].at \in {"lookup", "register", "read ids"}

\* The object with this identity is the twin of the slot.
IsTwin(id, slot) == id \in ObjectIds /\ objects[id].slot = slot

Placed(r) ==
    /\ run[r].at = "idle" => run[r].slot = 1
    /\ OnASlot(r) => run[r].slot \in DOMAIN Slots
    /\ Between(r) => run[r].slot = Len(Artifacts) + 1
    /\ Verified(r) => run[r].slot = Len(Slots) + 1

Passed(r) ==
    \A i \in DOMAIN Slots : i < run[r].slot =>
        /\ run[r].ids[Slots[i]] = bound[Slots[i]]
        /\ bound[Slots[i]] # None
        /\ objects[bound[Slots[i]]].status = "COMPLETED"

Ahead(r) ==
    OnASlot(r) /\ run[r].slot > Len(Artifacts) =>
        \A i \in DOMAIN Slots :
            i > run[r].slot \/ (i = run[r].slot /\ run[r].at = "resolve") =>
                run[r].ids[Slots[i]] \in {None, bound[Slots[i]]}

AtHand(r) ==
    /\ run[r].at \in {"bind", "verify"} => IsTwin(run[r].ids[Slot(r)], Slot(r))
    /\ run[r].at = "verify" => run[r].ids[Slot(r)] = bound[Slot(r)]

Ranked(r) ==
    /\ run[r].at = "rank candidate" => (writes = 0 => run[r].baseline = 0)
    /\ run[r].at = "capture" =>
          (writes = 0 => run[r].baseline = 0 /\ run[r].candidate = 0)
    /\ run[r].at = "complete" =>
          (run[r].fresh => run[r].baseline = 0 /\ run[r].candidate = 0)

RunOK(r) == Placed(r) /\ Passed(r) /\ Ahead(r) /\ AtHand(r) /\ Ranked(r)

BoundOK ==
    /\ \A slot \in SlotSet : bound[slot] # None => IsTwin(bound[slot], slot)
    /\ effective # None =>
          /\ effective = bound[Judgment]
          /\ objects[effective].status = "COMPLETED"

RowOK ==
    /\ experiment.state = "ACCEPTED" =>
          experiment.eligibility = "WINNER" /\ experiment.freshness = "FRESH"
    /\ experiment.eligibility # "PENDING" =>
          \A kind \in KindSet : bound[kind] # None
    /\ FreshComparesOneIndex

ExportOK ==
    /\ \A x \in Exporters : export[x].at = "checked" =>
          /\ experiment.state = "ACCEPTED"
          /\ export[x].outcome = experiment.outcome
    /\ ProposalCarriesAcceptedEvidence

IInv == /\ TypeOK /\ BoundOK /\ RowOK /\ ExportOK
        /\ \A r \in Runs : RunOK(r)

Grows ==
    /\ ObjectIds \subseteq ObjectIds'
    /\ \A o \in ObjectIds :
          /\ objects'[o].slot = objects[o].slot
          /\ objects[o].status = "COMPLETED" => objects'[o].status = "COMPLETED"
    /\ \A slot \in SlotSet : bound[slot] # None => bound'[slot] = bound[slot]
    /\ writes' = 0 => writes = 0

-----------------------------------------------------------------------------
(* The slots: the artifacts, then the kinds, each once.                    *)

LEMMA SlotFacts ==
  /\ Len(Artifacts) \in Nat \ {0} /\ Len(Slots) \in Nat
  /\ Len(Artifacts) < Len(Slots) /\ DOMAIN Slots = 1 .. Len(Slots)
  /\ \A i \in DOMAIN Slots :
        Slots[i] \in SlotSet /\ (Slots[i] \in KindSet <=> i > Len(Artifacts))
  /\ \A i, j \in DOMAIN Slots : Slots[i] = Slots[j] => i = j
  /\ Judgment \in SlotSet \ KindSet /\ KindSet \subseteq SlotSet
  /\ \A slot \in SlotSet : \E i \in DOMAIN Slots : slot = Slots[i]
  <1>1. /\ Len(Artifacts) \in Nat \ {0} /\ Len(Kinds) \in Nat \ {0}
        /\ DOMAIN Artifacts = 1 .. Len(Artifacts)
        /\ DOMAIN Kinds = 1 .. Len(Kinds)
    BY SlotsAreDistinct
  <1>2. /\ Slots \in Seq(SlotSet) /\ Len(Slots) = Len(Artifacts) + Len(Kinds)
        /\ \A i \in 1 .. Len(Slots) :
              Slots[i] = IF i <= Len(Artifacts) THEN Artifacts[i]
                                                ELSE Kinds[i - Len(Artifacts)]
    BY SlotsAreDistinct, ConcatProperties DEF Slots
  <1>3. DOMAIN Slots = 1 .. Len(Slots)
    BY <1>2
  <1>4. \A i, j \in DOMAIN Slots : Slots[i] = Slots[j] => i = j
    BY SlotsAreDistinct
  <1>5. \A j \in DOMAIN Kinds : /\ Len(Artifacts) + j \in DOMAIN Slots
                                /\ Slots[Len(Artifacts) + j] = Kinds[j]
    BY <1>1, <1>2, <1>3
  <1>6. \A i \in DOMAIN Slots :
            i > Len(Artifacts) => i - Len(Artifacts) \in DOMAIN Kinds
    BY <1>1, <1>2, <1>3
  <1>7. \A i \in DOMAIN Slots : Slots[i] \in KindSet <=> i > Len(Artifacts)
    <2>1. ASSUME NEW i \in DOMAIN Slots, i > Len(Artifacts)
          PROVE  Slots[i] \in KindSet
      BY <1>1, <1>2, <1>3, <1>6, <2>1 DEF KindSet
    <2>2. ASSUME NEW i \in DOMAIN Slots, Slots[i] \in KindSet
          PROVE  i > Len(Artifacts)
      <3>1. PICK j \in DOMAIN Kinds : Slots[i] = Kinds[j]
        BY <2>2 DEF KindSet
      <3>2. i = Len(Artifacts) + j
        BY <1>4, <1>5, <3>1
      <3> QED
        BY <1>1, <3>2
    <2> QED
      BY <2>1, <2>2
  <1>8. \A i \in DOMAIN Slots : Slots[i] \in SlotSet
    BY DEF SlotSet
  <1>9. KindSet \subseteq SlotSet
    BY <1>5 DEF KindSet, SlotSet
  <1>10. Judgment \in SlotSet \ KindSet
    <2>1. PICK i \in DOMAIN Artifacts : Artifacts[i] = Judgment
      BY SlotsAreDistinct
    <2>2. i \in DOMAIN Slots /\ Slots[i] = Judgment /\ ~(i > Len(Artifacts))
      BY <1>1, <1>2, <1>3, <2>1
    <2> QED
      BY <1>7, <1>8, <2>2
  <1> QED
    BY <1>1, <1>2, <1>3, <1>4, <1>7, <1>8, <1>9, <1>10 DEF SlotSet

-----------------------------------------------------------------------------
(* A run's record and its updates.                                         *)

\* A run replaces its record.
LEMMA Replaced ==
  ASSUME TypeOK, NEW r \in Runs, NEW new \in RunStates,
         run' = [run EXCEPT ![r] = new]
  PROVE  /\ run' \in [Runs -> RunStates] /\ run'[r] = new
         /\ \A q \in Runs : q # r => run'[q] = run[q]
  BY DEF TypeOK

\* A run goes to another phase.
LEMMA Went ==
  ASSUME TypeOK, NEW r \in Runs, NEW at \in Phases, Goto(r, at)
  PROVE  /\ run' \in [Runs -> RunStates]
         /\ \A q \in Runs : q # r => run'[q] = run[q]
         /\ run'[r].at = at /\ run'[r].slot = run[r].slot
         /\ run'[r].ids = run[r].ids /\ run'[r].baseline = run[r].baseline
         /\ run'[r].candidate = run[r].candidate /\ run'[r].fresh = run[r].fresh
  <1> DEFINE old == run[r]
             new == [old EXCEPT !.at = at]
  <1>1. old \in RunStates
    BY DEF TypeOK
  <1>2. run' = [run EXCEPT ![r] = new]
    BY DEF Goto
  <1> HIDE DEF old
  <1>3. /\ new \in RunStates /\ new.at = at /\ new.slot = old.slot
        /\ new.ids = old.ids /\ new.baseline = old.baseline
        /\ new.candidate = old.candidate /\ new.fresh = old.fresh
    BY <1>1 DEF RunStates
  <1> HIDE DEF new
  <1> QED
    BY <1>2, <1>3, Replaced DEF old

\* A run goes to another phase with another identity for its slot.
LEMMA WentWith ==
  ASSUME TypeOK, NEW r \in Runs, NEW at \in Phases,
         NEW ids \in [SlotSet -> Nat \cup {None}],
         GoWith(r, at, ids)
  PROVE  /\ run' \in [Runs -> RunStates]
         /\ \A q \in Runs : q # r => run'[q] = run[q]
         /\ run'[r].at = at /\ run'[r].slot = run[r].slot /\ run'[r].ids = ids
  <1> DEFINE old == run[r]
             new == [old EXCEPT !.at = at, !.ids = ids]
  <1>1. old \in RunStates
    BY DEF TypeOK
  <1>2. run' = [run EXCEPT ![r] = new]
    BY DEF GoWith
  <1> HIDE DEF old
  <1>3. /\ new \in RunStates /\ new.at = at /\ new.slot = old.slot
        /\ new.ids = ids
    BY <1>1 DEF RunStates
  <1> HIDE DEF new
  <1> QED
    BY <1>2, <1>3, Replaced DEF old

\* A run that ends has nothing in hand.
LEMMA Ended ==
  ASSUME TypeOK, NEW r \in Runs, End(r)
  PROVE  /\ run' \in [Runs -> RunStates]
         /\ \A q \in Runs : q # r => run'[q] = run[q]
         /\ run'[r].at = "idle" /\ run'[r].slot = 1
  <1>1. Idle \in RunStates /\ Idle.at = "idle" /\ Idle.slot = 1
    BY SlotFacts DEF Idle, RunStates, Phases, NoIds
  <1> HIDE DEF Idle
  <1> QED
    BY <1>1, Replaced DEF End

-----------------------------------------------------------------------------
(* What others do leaves a run's knowledge true.                           *)

LEMMA BoundStays ==
  ASSUME IInv, Grows, bound' \in [SlotSet -> Nat \cup {None}]
  PROVE  \A slot \in SlotSet : bound[slot] # None =>
            /\ bound[slot] \in ObjectIds /\ bound'[slot] = bound[slot]
            /\ IsTwin(bound[slot], slot)'
            /\ objects[bound[slot]].status = "COMPLETED" =>
                  objects'[bound[slot]].status = "COMPLETED"
  BY DEF IInv, BoundOK, IsTwin, Grows

LEMMA OthersStay ==
  ASSUME IInv, Grows, bound' \in [SlotSet -> Nat \cup {None}],
         NEW q \in Runs, run'[q] = run[q]
  PROVE  RunOK(q)'
  <1>1. RunOK(q) /\ TypeOK /\ run[q] \in RunStates
    BY DEF IInv, TypeOK
  <1>2. Placed(q)'
    BY <1>1 DEF RunOK, Placed, OnASlot, Between, Verified
  <1>3. Passed(q)'
    BY <1>1, SlotFacts, BoundStays DEF RunOK, Passed
  <1>4. Ahead(q)'
    <2> SUFFICES ASSUME OnASlot(q), run[q].slot > Len(Artifacts),
                        NEW i \in DOMAIN Slots,
                        i > run[q].slot \/ (i = run[q].slot /\ run[q].at = "resolve")
                 PROVE  run[q].ids[Slots[i]] \in {None, bound'[Slots[i]]}
      BY DEF Ahead, OnASlot
    <2>1. run[q].ids[Slots[i]] \in {None, bound[Slots[i]]}
      BY <1>1 DEF RunOK, Ahead
    <2> QED
      BY <2>1, SlotFacts DEF Grows
  <1>5. AtHand(q)'
    <2>1. CASE run[q].at \in {"bind", "verify"}
      <3>1. Slot(q) \in SlotSet /\ Slot(q)' = Slot(q)
        BY <1>1, <2>1, SlotFacts DEF RunOK, Placed, OnASlot, Slot
      <3>2. IsTwin(run[q].ids[Slot(q)], Slot(q))
        BY <1>1, <2>1 DEF RunOK, AtHand
      <3>3. IsTwin(run[q].ids[Slot(q)], Slot(q))'
        BY <3>1, <3>2 DEF IsTwin, Grows
      <3>4. run[q].at = "verify" => run[q].ids[Slot(q)] = bound'[Slot(q)]
        <4> SUFFICES ASSUME run[q].at = "verify"
                     PROVE  run[q].ids[Slot(q)] = bound'[Slot(q)]
          OBVIOUS
        <4>1. run[q].ids[Slot(q)] = bound[Slot(q)]
          BY <1>1 DEF RunOK, AtHand
        <4>2. bound[Slot(q)] # None
          BY <3>2, <4>1, <1>1, NoneIsNoValue DEF IsTwin, TypeOK, ObjectIds
        <4> QED
          BY <3>1, <4>1, <4>2 DEF Grows
      <3> QED
        BY <3>1, <3>3, <3>4 DEF AtHand
    <2>2. CASE run[q].at \notin {"bind", "verify"}
      BY <2>2 DEF AtHand
    <2> QED
      BY <2>1, <2>2
  <1>6. Ranked(q)'
    BY <1>1 DEF RunOK, Ranked, Grows
  <1> QED
    BY <1>2, <1>3, <1>4, <1>5, <1>6 DEF RunOK

\* A step that leaves the row and what people do alone.
LEMMA RowStays ==
  ASSUME IInv, Grows, bound' \in [SlotSet -> Nat \cup {None}],
         UNCHANGED <<experiment, export, proposal>>
  PROVE  RowOK' /\ ExportOK'
  <1>1. RowOK'
    <2>1. \A kind \in KindSet : bound[kind] # None => bound'[kind] # None
      BY SlotFacts DEF Grows
    <2> QED
      BY <2>1 DEF IInv, RowOK, FreshComparesOneIndex
  <1> QED
    BY <1>1 DEF IInv, ExportOK, ProposalCarriesAcceptedEvidence

LEMMA OfOneRun ==
  ASSUME IInv, Grows, NEW r \in Runs,
         objects' \in Seq(Objects), bound' \in [SlotSet -> Nat \cup {None}],
         effective' \in Nat \cup {None}, writes' \in Nat,
         UNCHANGED <<alias, shown, export, proposal>>,
         run' \in [Runs -> RunStates],
         \A q \in Runs : q # r => run'[q] = run[q],
         RunOK(r)', BoundOK', experiment' \in Rows,
         experiment' = experiment \/ (RowOK' /\ ExportOK')
  PROVE  IInv'
  <1>1. TypeOK'
    BY DEF IInv, TypeOK
  <1>2. \A q \in Runs : RunOK(q)'
    BY OthersStay
  <1>3. RowOK' /\ ExportOK'
    BY RowStays
  <1> QED
    BY <1>1, <1>2, <1>3 DEF IInv

\* A step of a run that only changes what the run knows.
LEMMA RunAlone ==
  ASSUME IInv, NEW r \in Runs,
         UNCHANGED <<objects, bound, effective, experiment, alias, writes, shown,
                     export, proposal>>,
         run' \in [Runs -> RunStates],
         \A q \in Runs : q # r => run'[q] = run[q],
         RunOK(r)'
  PROVE  IInv'
  <1>1. Grows
    BY DEF Grows, ObjectIds
  <1>2. BoundOK'
    BY DEF IInv, BoundOK, IsTwin, ObjectIds
  <1> QED
    BY <1>1, <1>2, OfOneRun DEF IInv, TypeOK

\* A run at rest knows nothing.
LEMMA IdleIsOK ==
  ASSUME NEW r \in Runs, run[r].at = "idle", run[r].slot = 1
  PROVE  RunOK(r)
  <1>1. \A i \in DOMAIN Slots : ~(i < 1)
    BY SlotFacts
  <1> QED
    BY <1>1 DEF RunOK, Placed, Passed, Ahead, AtHand, Ranked, OnASlot, Between, Verified

LEMMA InitIInv == Init => IInv
  <1> SUFFICES ASSUME Init PROVE IInv
    OBVIOUS
  <1>1. Idle \in RunStates /\ Idle.at = "idle" /\ Idle.slot = 1
    BY SlotFacts DEF Idle, RunStates, Phases, NoIds
  <1>2. /\ Absent \in Rows /\ Absent.state = "ABSENT"
        /\ Absent.eligibility = "PENDING"
        /\ Absent.baseline = 0 /\ Absent.candidate = 0
    BY DEF Absent, Rows
  <1>3. NoExport \in Exports /\ NoExport.at = "idle"
    BY DEF NoExport, Exports
  <1>4. \A r \in Runs : run[r].at = "idle" /\ run[r].slot = 1
    BY <1>1 DEF Init
  <1> HIDE DEF Idle, Absent, NoExport
  <1>5. TypeOK
    BY <1>1, <1>2, <1>3 DEF Init, TypeOK, NoIds
  <1>6. BoundOK
    BY DEF Init, BoundOK, NoIds
  <1>7. RowOK /\ ExportOK
    BY <1>2, <1>3 DEF Init, RowOK, ExportOK, FreshComparesOneIndex,
                     ProposalCarriesAcceptedEvidence
  <1>8. \A r \in Runs : RunOK(r)
    BY <1>4, IdleIsOK
  <1> QED
    BY <1>5, <1>6, <1>7, <1>8 DEF IInv

-----------------------------------------------------------------------------
(* The steps of a run.                                                     *)

\* A run that ends, however it does.
LEMMA EndIsOK ==
  ASSUME IInv, NEW r \in Runs, End(r)
  PROVE  RunOK(r)'
  <1>1. run'[r].at = "idle" /\ run'[r].slot = 1
    BY Ended DEF IInv
  <1>2. \A i \in DOMAIN Slots : ~(i < 1)
    BY SlotFacts
  <1> QED
    BY <1>1, <1>2 DEF RunOK, Placed, Passed, Ahead, AtHand, Ranked, OnASlot,
                      Between, Verified

LEMMA FailIInv == ASSUME IInv, NEW r \in Runs, Fail(r) PROVE IInv'
  <1>1. /\ End(r)
        /\ UNCHANGED <<objects, bound, effective, experiment, alias, writes, shown,
                       export, proposal>>
    BY DEF Fail
  <1> QED
    BY <1>1, Ended, EndIsOK, RunAlone DEF IInv

LEMMA StartIInv == ASSUME IInv, NEW r \in Runs, Start(r) PROVE IInv'
  <1>1. /\ TypeOK /\ run[r].slot = 1 /\ Goto(r, "resolve")
        /\ UNCHANGED <<objects, bound, effective, experiment, alias, writes, shown,
                       export, proposal>>
    BY DEF IInv, Start, RunOK, Placed
  <1>2. /\ run' \in [Runs -> RunStates] /\ run'[r].at = "resolve"
        /\ run'[r].slot = 1 /\ \A q \in Runs : q # r => run'[q] = run[q]
    BY <1>1, Went DEF Phases
  <1>3. 1 \in DOMAIN Slots /\ ~(1 > Len(Artifacts))
        /\ \A i \in DOMAIN Slots : ~(i < 1)
    BY SlotFacts
  <1>4. RunOK(r)'
    BY <1>2, <1>3 DEF RunOK, Placed, Passed, Ahead, AtHand, Ranked, OnASlot,
                      Between, Verified
  <1> QED
    BY <1>1, <1>2, <1>4, RunAlone

\* What a run on a slot knows of it.
LEMMA OnItsSlot ==
  ASSUME IInv, NEW r \in Runs, OnASlot(r)
  PROVE  /\ TypeOK /\ RunOK(r) /\ run[r] \in RunStates
         /\ run[r].slot \in DOMAIN Slots /\ Slot(r) \in SlotSet
         /\ Slot(r) = Slots[run[r].slot]
         /\ Slot(r) \in KindSet <=> run[r].slot > Len(Artifacts)
         /\ \A i \in DOMAIN Slots : i # run[r].slot => Slots[i] # Slot(r)
  BY SlotFacts DEF IInv, TypeOK, RunOK, Placed, Slot

LEMMA ResolveIInv == ASSUME IInv, NEW r \in Runs, Resolve(r) PROVE IInv'
  <1> DEFINE ids == [run[r].ids EXCEPT ![Slot(r)] = KnownId(r)]
             at == IF KnownId(r) = None THEN "create" ELSE "verify"
  <1>1. OnASlot(r) /\ run[r].at = "resolve"
    BY DEF Resolve, OnASlot
  <1>2. KnownId(r) \in {None, bound[Slot(r)]}
    <2>1. CASE Slot(r) \in KindSet
      BY <1>1, <2>1, OnItsSlot, SlotFacts DEF KnownId, RunOK, Ahead
    <2>2. CASE Slot(r) = Judgment /\ effective # None
      <3>1. effective = bound[Slot(r)]
        BY <2>2 DEF IInv, BoundOK
      <3> QED
        BY <2>2, <3>1, SlotFacts DEF KnownId
    <2>3. CASE Slot(r) \notin KindSet /\ ~(Slot(r) = Judgment /\ effective # None)
      BY <2>3 DEF KnownId
    <2> QED
      BY <2>1, <2>2, <2>3
  <1>3. /\ ids \in [SlotSet -> Nat \cup {None}] /\ ids[Slot(r)] = KnownId(r)
        /\ \A i \in DOMAIN Slots : i # run[r].slot => ids[Slots[i]] = run[r].ids[Slots[i]]
    BY <1>1, <1>2, OnItsSlot, SlotFacts DEF RunStates, TypeOK
  <1>4. /\ GoWith(r, at, ids)
        /\ at \in Phases
        /\ UNCHANGED <<objects, bound, effective, experiment, alias, writes, shown,
                       export, proposal>>
    BY DEF Resolve, Phases
  <1> HIDE DEF ids
  <1>5. /\ run' \in [Runs -> RunStates]
        /\ \A q \in Runs : q # r => run'[q] = run[q]
        /\ run'[r].at = at /\ run'[r].slot = run[r].slot /\ run'[r].ids = ids
    BY <1>1, <1>3, <1>4, OnItsSlot, WentWith
  <1>6. RunOK(r)'
    <2>1. Placed(r)'
      BY <1>1, <1>5, OnItsSlot DEF Placed, OnASlot, Between, Verified
    <2>2. Passed(r)'
      BY <1>1, <1>3, <1>4, <1>5, OnItsSlot, SlotFacts DEF Passed, RunOK
    <2>3. Ahead(r)'
      BY <1>1, <1>3, <1>4, <1>5, OnItsSlot, SlotFacts DEF Ahead, RunOK, OnASlot
    <2>4. AtHand(r)'
      <3>1. Slot(r)' = Slot(r)
        BY <1>5 DEF Slot
      <3>2. CASE KnownId(r) = None
        BY <1>5, <3>2 DEF AtHand
      <3>3. CASE KnownId(r) # None
        <4>1. KnownId(r) = bound[Slot(r)] /\ IsTwin(bound[Slot(r)], Slot(r))
          BY <1>1, <1>2, <3>3, OnItsSlot DEF IInv, BoundOK
        <4> QED
          BY <1>3, <1>4, <1>5, <3>1, <4>1 DEF AtHand, IsTwin, ObjectIds
      <3> QED
        BY <3>2, <3>3
    <2>5. Ranked(r)'
      BY <1>5 DEF Ranked
    <2> QED
      BY <2>1, <2>2, <2>3, <2>4, <2>5 DEF RunOK
  <1> QED
    BY <1>4, <1>5, <1>6, RunAlone

LEMMA CreateIInv == ASSUME IInv, NEW r \in Runs, CreateRemote(r) PROVE IInv'
  <1> DEFINE id == Len(objects) + 1
             ids == [run[r].ids EXCEPT ![Slot(r)] = id]
             new == [slot |-> Slot(r),
                     status |-> IF Polled(Slot(r)) THEN "PROCESSING" ELSE "COMPLETED"]
  <1>1. OnASlot(r) /\ run[r].at = "create"
    BY DEF CreateRemote, OnASlot
  <1>2. new \in Objects /\ new.slot = Slot(r)
    BY <1>1, OnItsSlot DEF Objects
  <1>3. /\ objects' = Append(objects, new)
        /\ GoWith(r, "bind", ids)
        /\ UNCHANGED <<bound, effective, experiment, alias, writes, shown,
                       export, proposal>>
    BY DEF CreateRemote
  <1> HIDE DEF new
  <1>4. /\ objects' \in Seq(Objects) /\ ObjectIds' = 1 .. id /\ id \in Nat
        /\ ObjectIds = 1 .. Len(objects) /\ Len(objects) \in Nat
        /\ objects'[id].slot = Slot(r)
        /\ \A o \in ObjectIds : objects'[o] = objects[o]
    BY <1>2, <1>3, AppendProperties, LenProperties DEF IInv, TypeOK, ObjectIds
  <1>5. /\ ids \in [SlotSet -> Nat \cup {None}] /\ ids[Slot(r)] = id
        /\ \A i \in DOMAIN Slots : i # run[r].slot => ids[Slots[i]] = run[r].ids[Slots[i]]
    BY <1>1, <1>4, OnItsSlot, SlotFacts DEF RunStates
  <1> HIDE DEF ids
  <1>6. /\ run' \in [Runs -> RunStates]
        /\ \A q \in Runs : q # r => run'[q] = run[q]
        /\ run'[r].at = "bind" /\ run'[r].slot = run[r].slot /\ run'[r].ids = ids
    BY <1>1, <1>3, <1>5, OnItsSlot, WentWith DEF Phases
  <1>7. Grows
    BY <1>3, <1>4 DEF Grows
  <1>8. BoundOK'
    <2>1. \A slot \in SlotSet : bound[slot] # None => IsTwin(bound[slot], slot)'
      BY <1>3, <1>7, BoundStays DEF IInv, TypeOK
    <2>2. effective # None =>
             effective = bound[Judgment] /\ objects'[effective].status = "COMPLETED"
      BY <1>3, <1>7, BoundStays, SlotFacts DEF IInv, BoundOK, TypeOK
    <2> QED
      BY <1>3, <2>1, <2>2 DEF BoundOK, IsTwin, ObjectIds
  <1>9. RunOK(r)'
    <2>1. Placed(r)'
      BY <1>1, <1>6, OnItsSlot DEF Placed, OnASlot, Between, Verified
    <2>2. Passed(r)'
      <3> SUFFICES ASSUME NEW i \in DOMAIN Slots, i < run[r].slot
                   PROVE  /\ ids[Slots[i]] = bound[Slots[i]] /\ bound[Slots[i]] # None
                          /\ objects'[bound[Slots[i]]].status = "COMPLETED"
        BY <1>3, <1>6 DEF Passed
      <3>1. i # run[r].slot
        BY <1>1, OnItsSlot, SlotFacts
      <3>2. /\ run[r].ids[Slots[i]] = bound[Slots[i]] /\ bound[Slots[i]] # None
            /\ objects[bound[Slots[i]]].status = "COMPLETED"
        BY <1>1, OnItsSlot DEF RunOK, Passed
      <3>3. ids[Slots[i]] = run[r].ids[Slots[i]]
        BY <1>1, <1>5, <3>1, OnItsSlot, SlotFacts
      <3>4. objects'[bound[Slots[i]]].status = "COMPLETED"
        <4>1. \A slot \in SlotSet : bound[slot] # None =>
                 (objects[bound[slot]].status = "COMPLETED" =>
                     objects'[bound[slot]].status = "COMPLETED")
          BY <1>3, <1>7, BoundStays DEF IInv, TypeOK
        <4>2. Slots[i] \in SlotSet
          BY SlotFacts
        <4> QED
          BY <3>2, <4>1, <4>2
      <3> QED
        BY <3>2, <3>3, <3>4
    <2>3. Ahead(r)'
      BY <1>1, <1>3, <1>5, <1>6, OnItsSlot, SlotFacts DEF Ahead, RunOK, OnASlot
    <2>4. AtHand(r)'
      BY <1>4, <1>5, <1>6 DEF AtHand, Slot, IsTwin
    <2>5. Ranked(r)'
      BY <1>6 DEF Ranked
    <2> QED
      BY <2>1, <2>2, <2>3, <2>4, <2>5 DEF RunOK
  <1> QED
    BY <1>3, <1>4, <1>6, <1>7, <1>8, <1>9, OfOneRun DEF IInv, TypeOK

LEMMA BindIInv == ASSUME IInv, NEW r \in Runs, Bind(r) PROVE IInv'
  <1> DEFINE id == run[r].ids[Slot(r)]
  <1>1. OnASlot(r) /\ run[r].at = "bind"
    BY DEF Bind, OnASlot
  <1>2. /\ UNCHANGED <<objects, effective, alias, writes, shown, export, proposal>>
        /\ TypeOK
    BY DEF Bind, IInv
  <1>3. ASSUME bound[Slot(r)] = None PROVE IInv'
    <2>1. /\ bound' = [bound EXCEPT ![Slot(r)] = id]
          /\ Goto(r, "verify")
          /\ experiment' = IF Slot(r) \in KindSet
                           THEN [experiment EXCEPT !.state = "REMOTE_RUNNING"]
                           ELSE experiment
      BY <1>3 DEF Bind, Unbound
    <2>2. IsTwin(id, Slot(r)) /\ id \in Nat /\ id # None
      <3>1. IsTwin(id, Slot(r))
        BY <1>1, OnItsSlot DEF RunOK, AtHand
      <3> QED
        BY <1>2, <3>1, NoneIsNoValue DEF IsTwin, ObjectIds, TypeOK
    <2> HIDE DEF id
    <2>3. /\ bound' \in [SlotSet -> Nat \cup {None}] /\ bound'[Slot(r)] = id
          /\ \A slot \in SlotSet : slot # Slot(r) => bound'[slot] = bound[slot]
      BY <1>1, <1>2, <2>1, <2>2, OnItsSlot DEF TypeOK
    <2>4. Grows
      BY <1>2, <1>3, <2>3 DEF Grows, ObjectIds
    <2>5. BoundOK'
      <3>1. \A slot \in SlotSet : bound'[slot] # None => IsTwin(bound'[slot], slot)
        BY <1>2, <2>2, <2>3 DEF IInv, BoundOK
      <3>2. effective # None => bound'[Judgment] = bound[Judgment]
        BY <1>3, <2>3, SlotFacts DEF IInv, BoundOK
      <3> QED
        BY <1>2, <3>1, <3>2 DEF IInv, BoundOK, IsTwin, ObjectIds
    <2>6. /\ run' \in [Runs -> RunStates]
          /\ \A q \in Runs : q # r => run'[q] = run[q]
          /\ run'[r].at = "verify" /\ run'[r].slot = run[r].slot
          /\ run'[r].ids = run[r].ids
      BY <1>2, <2>1, Went DEF Phases
    <2>7. RunOK(r)'
      <3>1. Placed(r)'
        BY <1>1, <2>6, OnItsSlot DEF Placed, OnASlot, Between, Verified
      <3>2. Passed(r)'
        BY <1>1, <1>2, <2>3, <2>6, OnItsSlot, SlotFacts DEF Passed, RunOK
      <3>3. Ahead(r)'
        BY <1>1, <2>3, <2>6, OnItsSlot, SlotFacts DEF Ahead, RunOK, OnASlot
      <3>4. AtHand(r)'
        BY <1>2, <2>2, <2>3, <2>6 DEF AtHand, Slot, IsTwin, ObjectIds, id
      <3>5. Ranked(r)'
        BY <2>6 DEF Ranked
      <3> QED
        BY <3>1, <3>2, <3>3, <3>4, <3>5 DEF RunOK
    <2>8. CASE Slot(r) \in KindSet
      <3>1. experiment.eligibility = "PENDING" /\ experiment.state # "ACCEPTED"
        BY <1>3, <2>8 DEF IInv, RowOK
      <3>2. /\ experiment' \in Rows /\ experiment'.state = "REMOTE_RUNNING"
            /\ experiment'.eligibility = "PENDING"
            /\ experiment'.freshness = experiment.freshness
            /\ experiment'.baseline = experiment.baseline
            /\ experiment'.candidate = experiment.candidate
        BY <1>2, <2>1, <2>8, <3>1 DEF TypeOK, Rows
      <3>3. RowOK'
        BY <3>2 DEF IInv, RowOK, FreshComparesOneIndex
      <3>4. ExportOK'
        BY <1>2, <3>1 DEF IInv, ExportOK, ProposalCarriesAcceptedEvidence
      <3> QED
        BY <1>2, <2>3, <2>4, <2>5, <2>6, <2>7, <3>2, <3>3, <3>4, OfOneRun DEF TypeOK
    <2>9. CASE Slot(r) \notin KindSet
      <3>1. experiment' = experiment /\ experiment' \in Rows
        BY <1>2, <2>1, <2>9 DEF TypeOK
      <3> QED
        BY <1>2, <2>3, <2>4, <2>5, <2>6, <2>7, <3>1, OfOneRun DEF TypeOK
    <2> QED
      BY <2>8, <2>9
  <1>4. ASSUME bound[Slot(r)] # None PROVE IInv'
    <2>1. End(r) /\ UNCHANGED <<bound, experiment>>
      BY <1>4 DEF Bind, Unbound, LoseBinding
    <2> QED
      BY <1>2, <2>1, Ended, EndIsOK, RunAlone
  <1> QED
    BY <1>3, <1>4

LEMMA VerifyIInv == ASSUME IInv, NEW r \in Runs, Verify(r) PROVE IInv'
  <1> DEFINE id == run[r].ids[Slot(r)]
             old == run[r]
             new == [old EXCEPT !.at = AfterSlot(r), !.slot = old.slot + 1]
  <1>1. OnASlot(r) /\ run[r].at = "verify"
    BY DEF Verify, OnASlot
  <1>2. /\ TypeOK /\ RunOK(r) /\ old \in RunStates
        /\ objects[id].status = "COMPLETED"
        /\ UNCHANGED <<objects, bound, experiment, alias, writes, shown, export, proposal>>
        /\ run' = [run EXCEPT ![r] = new]
        /\ IF Slot(r) = Judgment THEN effective' = id ELSE UNCHANGED effective
    BY <1>1, OnItsSlot DEF Verify, ObjectReady, Advance
  <1>3. /\ IsTwin(id, Slot(r)) /\ id = bound[Slot(r)] /\ id \in Nat /\ id # None
    <2>1. IsTwin(id, Slot(r)) /\ id = bound[Slot(r)]
      BY <1>1, <1>2 DEF RunOK, AtHand
    <2> QED
      BY <1>2, <2>1, NoneIsNoValue DEF IsTwin, ObjectIds, TypeOK
  <1>4. /\ old.slot \in DOMAIN Slots /\ old.slot \in 1 .. Len(Slots)
        /\ Slots[old.slot] = Slot(r)
    BY <1>1, OnItsSlot, SlotFacts
  <1>5. AfterSlot(r) \in {"lookup", "rank baseline", "resolve"}
        /\ AfterSlot(r) \in Phases
        /\ (AfterSlot(r) = "lookup" <=> old.slot = Len(Artifacts))
        /\ (AfterSlot(r) = "rank baseline" <=> old.slot = Len(Slots))
    BY SlotFacts DEF AfterSlot, Phases
  <1>6. /\ new \in RunStates /\ new.at = AfterSlot(r) /\ new.slot = old.slot + 1
        /\ new.ids = old.ids
    <2> HIDE DEF old
    <2>1. old.slot + 1 \in 1 .. (Len(Slots) + 1)
      BY <1>4, SlotFacts
    <2> QED
      BY <1>2, <1>5, <2>1 DEF RunStates
  <1> HIDE DEF new
  <1>7. /\ run' \in [Runs -> RunStates] /\ run'[r] = new
        /\ \A q \in Runs : q # r => run'[q] = run[q]
    BY <1>2, <1>6, Replaced
  <1>8. Grows
    BY <1>2 DEF Grows, ObjectIds
  <1>9. BoundOK' /\ effective' \in Nat \cup {None}
    BY <1>2, <1>3 DEF IInv, BoundOK, IsTwin, ObjectIds, TypeOK
  <1>10. RunOK(r)'
    <2>1. Placed(r)'
      <3>1. CASE AfterSlot(r) = "resolve"
        <4>1. old.slot # Len(Slots) /\ old.slot + 1 \in DOMAIN Slots
          BY <1>4, <1>5, <3>1, SlotFacts
        <4> QED
          BY <1>6, <1>7, <3>1, <4>1 DEF Placed, OnASlot, Between, Verified
      <3>2. CASE AfterSlot(r) # "resolve"
        BY <1>5, <1>6, <1>7, <3>2 DEF Placed, OnASlot, Between, Verified
      <3> QED
        BY <3>1, <3>2
    <2>2. Passed(r)'
      <3> SUFFICES ASSUME NEW i \in DOMAIN Slots, i < old.slot + 1
                   PROVE  /\ old.ids[Slots[i]] = bound[Slots[i]] /\ bound[Slots[i]] # None
                          /\ objects[bound[Slots[i]]].status = "COMPLETED"
        BY <1>2, <1>6, <1>7 DEF Passed
      <3>1. CASE i = old.slot
        BY <1>2, <1>3, <1>4, <3>1
      <3>2. CASE i # old.slot
        <4>1. i < old.slot
          BY <1>4, <3>2, SlotFacts
        <4> QED
          BY <1>2, <4>1 DEF RunOK, Passed
      <3> QED
        BY <3>1, <3>2
    <2>3. Ahead(r)'
      <3>1. CASE AfterSlot(r) = "resolve" /\ old.slot + 1 > Len(Artifacts)
        <4>1. old.slot > Len(Artifacts)
          BY <1>4, <1>5, <3>1, SlotFacts
        <4>2. \A i \in DOMAIN Slots :
                 i > old.slot => old.ids[Slots[i]] \in {None, bound[Slots[i]]}
          BY <1>1, <1>2, <4>1 DEF RunOK, Ahead
        <4>3. \A i \in DOMAIN Slots :
                 i > old.slot + 1 \/ i = old.slot + 1 => i > old.slot
          BY <1>4, SlotFacts
        <4> QED
          BY <1>2, <1>6, <1>7, <4>2, <4>3 DEF Ahead
      <3>2. CASE ~(AfterSlot(r) = "resolve" /\ old.slot + 1 > Len(Artifacts))
        BY <1>5, <1>6, <1>7, <3>2 DEF Ahead, OnASlot
      <3> QED
        BY <3>1, <3>2
    <2>4. AtHand(r)' /\ Ranked(r)'
      BY <1>5, <1>6, <1>7 DEF AtHand, Ranked
    <2> QED
      BY <2>1, <2>2, <2>3, <2>4 DEF RunOK
  <1> QED
    BY <1>2, <1>7, <1>8, <1>9, <1>10, OfOneRun DEF TypeOK

\* A run goes to a phase that asks for no more than it knows.
LEMMA GoesOn ==
  ASSUME TypeOK, NEW r \in Runs, RunOK(r), NEW at \in Phases, Goto(r, at),
         UNCHANGED <<objects, bound>>, Between(r), at \in {"register", "read ids"}
  PROVE  /\ RunOK(r)' /\ run' \in [Runs -> RunStates]
         /\ \A q \in Runs : q # r => run'[q] = run[q]
  <1>1. /\ run' \in [Runs -> RunStates]
        /\ \A q \in Runs : q # r => run'[q] = run[q]
        /\ run'[r].at = at /\ run'[r].slot = run[r].slot /\ run'[r].ids = run[r].ids
    BY Went
  <1> QED
    BY <1>1 DEF RunOK, Placed, Passed, Ahead, AtHand, Ranked, OnASlot, Between, Verified

LEMMA LookupIInv == ASSUME IInv, NEW r \in Runs, Lookup(r) PROVE IInv'
  <1>1. /\ TypeOK /\ RunOK(r) /\ Between(r)
        /\ UNCHANGED <<objects, bound, effective, experiment, alias, writes, shown,
                       export, proposal>>
        /\ \E at \in {"register", "read ids"} : at \in Phases /\ Goto(r, at)
    BY DEF IInv, Lookup, Between, Phases
  <1> QED
    BY <1>1, GoesOn, RunAlone

LEMMA RegisterIInv == ASSUME IInv, NEW r \in Runs, Register(r) PROVE IInv'
  <1>1. /\ TypeOK /\ RunOK(r) /\ Between(r)
        /\ UNCHANGED <<objects, bound, effective, alias, writes, shown, export, proposal>>
    BY DEF IInv, Register, Between
  <1>2. CASE Present
    BY <1>1, <1>2, Ended, EndIsOK, RunAlone DEF Register
  <1>3. CASE ~Present
    <2>1. experiment' = Registered /\ Goto(r, "read ids")
      BY <1>3 DEF Register
    <2>2. /\ experiment' \in Rows /\ experiment'.state = "REMOTE_PENDING"
          /\ experiment'.eligibility = "PENDING"
          /\ experiment'.baseline = 0 /\ experiment'.candidate = 0
      <3>1. /\ Absent \in Rows /\ Absent.eligibility = "PENDING"
            /\ Absent.baseline = 0 /\ Absent.candidate = 0
        BY DEF Absent, Rows
      <3> HIDE DEF Absent
      <3> QED
        BY <2>1, <3>1 DEF Registered, Rows
    <2>3. RowOK' /\ ExportOK'
      BY <1>1, <1>3, <2>2 DEF IInv, RowOK, ExportOK, FreshComparesOneIndex,
                              ProposalCarriesAcceptedEvidence, Present
    <2>4. Grows /\ BoundOK'
      BY <1>1 DEF Grows, ObjectIds, IInv, BoundOK, IsTwin
    <2>5. /\ RunOK(r)' /\ run' \in [Runs -> RunStates]
          /\ \A q \in Runs : q # r => run'[q] = run[q]
      BY <1>1, <2>1, GoesOn DEF Phases
    <2> QED
      BY <1>1, <2>2, <2>3, <2>4, <2>5, OfOneRun DEF TypeOK
  <1> QED
    BY <1>2, <1>3

LEMMA ReadIdsIInv == ASSUME IInv, NEW r \in Runs, ReadIds(r) PROVE IInv'
  <1> DEFINE ids == ReadKinds(r)
  <1>1. /\ TypeOK /\ RunOK(r) /\ run[r] \in RunStates
        /\ run[r].slot = Len(Artifacts) + 1 /\ GoWith(r, "resolve", ids)
        /\ UNCHANGED <<objects, bound, effective, experiment, alias, writes, shown,
                       export, proposal>>
    BY DEF IInv, ReadIds, TypeOK, RunOK, Placed, Between
  <1>2. /\ ids \in [SlotSet -> Nat \cup {None}]
        /\ \A kind \in KindSet : ids[kind] = bound[kind]
        /\ \A slot \in SlotSet \ KindSet : ids[slot] = run[r].ids[slot]
    BY <1>1, SlotFacts DEF ReadKinds, TypeOK, RunStates
  <1> HIDE DEF ids
  <1>3. /\ run' \in [Runs -> RunStates]
        /\ \A q \in Runs : q # r => run'[q] = run[q]
        /\ run'[r].at = "resolve" /\ run'[r].slot = Len(Artifacts) + 1
        /\ run'[r].ids = ids
    BY <1>1, <1>2, WentWith DEF Phases
  <1>4. \A i \in DOMAIN Slots :
           /\ i < Len(Artifacts) + 1 => Slots[i] \in SlotSet \ KindSet
           /\ i > Len(Artifacts) + 1 \/ i = Len(Artifacts) + 1 => Slots[i] \in KindSet
    BY SlotFacts
  <1>5. RunOK(r)'
    <2>1. Placed(r)'
      BY <1>3, SlotFacts DEF Placed, OnASlot, Between, Verified
    <2>2. Passed(r)'
      BY <1>1, <1>2, <1>3, <1>4 DEF Passed, RunOK
    <2>3. Ahead(r)'
      BY <1>1, <1>2, <1>3, <1>4 DEF Ahead
    <2>4. AtHand(r)' /\ Ranked(r)'
      BY <1>3 DEF AtHand, Ranked
    <2> QED
      BY <2>1, <2>2, <2>3, <2>4 DEF RunOK
  <1> QED
    BY <1>1, <1>3, <1>5, RunAlone

\* A run past its slots that reads no binding again.
LEMMA StaysVerified ==
  ASSUME TypeOK, NEW r \in Runs, RunOK(r), Verified(r), UNCHANGED <<objects, bound>>,
         run'[r].slot = run[r].slot, run'[r].ids = run[r].ids,
         run'[r].at \in {"rank candidate", "capture", "complete"}, Ranked(r)'
  PROVE  RunOK(r)'
  BY DEF RunOK, Placed, Passed, Ahead, AtHand, OnASlot, Between, Verified

LEMMA RankIInv ==
  ASSUME IInv, NEW r \in Runs, RankBaseline(r) \/ RankCandidate(r) \/ Capture(r)
  PROVE  IInv'
  <1> DEFINE old == run[r]
  <1>1. /\ TypeOK /\ RunOK(r) /\ old \in RunStates /\ Verified(r) /\ writes \in Nat
        /\ UNCHANGED <<objects, bound, effective, experiment, alias, writes, shown,
                       export, proposal>>
    BY DEF IInv, TypeOK, RankBaseline, RankCandidate, Capture, Verified
  <1>2. CASE RankBaseline(r)
    <2> DEFINE new == [old EXCEPT !.at = "rank candidate", !.baseline = writes]
    <2>1. run' = [run EXCEPT ![r] = new]
      BY <1>2 DEF RankBaseline
    <2> HIDE DEF old
    <2>2. /\ new \in RunStates /\ new.at = "rank candidate" /\ new.slot = old.slot
          /\ new.ids = old.ids /\ new.baseline = writes
      BY <1>1 DEF RunStates, Phases
    <2> HIDE DEF new
    <2>3. /\ run' \in [Runs -> RunStates] /\ run'[r] = new
          /\ \A q \in Runs : q # r => run'[q] = run[q]
      BY <1>1, <2>1, <2>2, Replaced
    <2>4. Ranked(r)'
      BY <1>1, <2>2, <2>3 DEF Ranked
    <2> QED
      BY <1>1, <2>2, <2>3, <2>4, StaysVerified, RunAlone DEF old
  <1>3. CASE RankCandidate(r)
    <2> DEFINE new == [old EXCEPT !.at = "capture", !.candidate = writes]
    <2>1. run' = [run EXCEPT ![r] = new] /\ old.at = "rank candidate"
      BY <1>3 DEF RankCandidate
    <2>2. writes = 0 => old.baseline = 0
      BY <1>1, <2>1 DEF RunOK, Ranked
    <2> HIDE DEF old
    <2>3. /\ new \in RunStates /\ new.at = "capture" /\ new.slot = old.slot
          /\ new.ids = old.ids /\ new.candidate = writes /\ new.baseline = old.baseline
      BY <1>1 DEF RunStates, Phases
    <2> HIDE DEF new
    <2>4. /\ run' \in [Runs -> RunStates] /\ run'[r] = new
          /\ \A q \in Runs : q # r => run'[q] = run[q]
      BY <1>1, <2>1, <2>3, Replaced
    <2>5. Ranked(r)'
      BY <1>1, <2>2, <2>3, <2>4 DEF Ranked
    <2> QED
      BY <1>1, <2>3, <2>4, <2>5, StaysVerified, RunAlone DEF old
  <1>4. CASE Capture(r)
    <2> DEFINE new == [old EXCEPT !.at = "complete", !.fresh = IndexFresh]
    <2>1. run' = [run EXCEPT ![r] = new] /\ old.at = "capture"
      BY <1>4 DEF Capture
    <2>2. writes = 0 => old.baseline = 0 /\ old.candidate = 0
      BY <1>1, <2>1 DEF RunOK, Ranked
    <2>3. IndexFresh \in BOOLEAN /\ (IndexFresh => writes = 0)
      BY DEF IndexFresh, IndexIsBaseline
    <2> HIDE DEF old, IndexFresh
    <2>4. /\ new \in RunStates /\ new.at = "complete" /\ new.slot = old.slot
          /\ new.ids = old.ids /\ new.fresh = IndexFresh
          /\ new.candidate = old.candidate /\ new.baseline = old.baseline
      BY <1>1, <2>3 DEF RunStates, Phases
    <2> HIDE DEF new
    <2>5. /\ run' \in [Runs -> RunStates] /\ run'[r] = new
          /\ \A q \in Runs : q # r => run'[q] = run[q]
      BY <1>1, <2>1, <2>4, Replaced
    <2>6. Ranked(r)'
      BY <1>1, <2>2, <2>3, <2>4, <2>5 DEF Ranked
    <2> QED
      BY <1>1, <2>4, <2>5, <2>6, StaysVerified, RunAlone DEF old
  <1> QED
    BY <1>2, <1>3, <1>4

\* What the grade of an outcome may be.
LEMMA Grades ==
  ASSUME NEW outcome \in Outcomes, NEW fresh \in BOOLEAN
  PROVE  /\ Eligibility(outcome, fresh) \in
               {"STALE", "PARTIAL", "INCONCLUSIVE", "EXPLORATORY"}
         /\ Eligibility(outcome, fresh) = "EXPLORATORY" => fresh
  <1>1. CASE ~fresh
    BY <1>1 DEF Eligibility
  <1>2. CASE fresh
    BY <1>2, GradesAreDisjoint DEF Eligibility, Outcomes
  <1> QED
    BY <1>1, <1>2

\* A run writes its evidence on the row, unless the row was accepted with
\* other evidence.
LEMMA CompleteIInv ==
  ASSUME IInv, NEW r \in Runs, Complete(r)
  PROVE  IInv' /\ (experiment.state = "ACCEPTED" => experiment' = experiment)
  <1> DEFINE me == run[r]
  <1>1. /\ TypeOK /\ RunOK(r) /\ me \in RunStates /\ me.at = "complete" /\ End(r)
        /\ UNCHANGED <<objects, bound, effective, alias, writes, shown, export, proposal>>
    BY DEF IInv, TypeOK, Complete
  <1>2. /\ run' \in [Runs -> RunStates]
        /\ \A q \in Runs : q # r => run'[q] = run[q]
        /\ RunOK(r)'
    BY <1>1, Ended, EndIsOK
  <1>3. PICK outcome \in Outcomes :
          IF Identified(r) /\ Replaceable(outcome, me.fresh)
          THEN experiment' =
                 [state |-> IF experiment.state = "ACCEPTED" THEN "ACCEPTED"
                            ELSE "LOCAL_EVIDENCE_READY",
                  freshness |-> IF me.fresh THEN "FRESH" ELSE "STALE",
                  eligibility |-> IF experiment.state = "ACCEPTED" THEN "WINNER"
                                  ELSE Eligibility(outcome, me.fresh),
                  outcome |-> outcome,
                  baseline |-> me.baseline, candidate |-> me.candidate]
          ELSE UNCHANGED experiment
    BY DEF Complete
  <1>4. CASE UNCHANGED experiment
    BY <1>1, <1>2, <1>4, RunAlone
  <1>5. CASE experiment' # experiment
    <2>1. Replaceable(outcome, me.fresh)
      BY <1>3, <1>5
    <2>2. /\ me.fresh \in BOOLEAN /\ me.baseline \in Nat /\ me.candidate \in Nat
          /\ me.fresh => me.baseline = 0 /\ me.candidate = 0
      BY <1>1 DEF RunStates, RunOK, Ranked
    <2> DEFINE grade == Eligibility(outcome, me.fresh)
    <2>3. /\ grade \in {"STALE", "PARTIAL", "INCONCLUSIVE", "EXPLORATORY"}
          /\ grade = "EXPLORATORY" => me.fresh
      BY <2>2, Grades
    <2>4. experiment' =
             [state |-> IF experiment.state = "ACCEPTED" THEN "ACCEPTED"
                        ELSE "LOCAL_EVIDENCE_READY",
              freshness |-> IF me.fresh THEN "FRESH" ELSE "STALE",
              eligibility |-> IF experiment.state = "ACCEPTED" THEN "WINNER" ELSE grade,
              outcome |-> outcome,
              baseline |-> me.baseline, candidate |-> me.candidate]
      BY <1>3, <1>5
    <2>5. experiment.state # "ACCEPTED"
      <3> SUFFICES ASSUME experiment.state = "ACCEPTED" PROVE FALSE
        OBVIOUS
      <3>1. grade = "EXPLORATORY" /\ experiment.outcome = outcome
        BY <2>1 DEF Replaceable
      <3>2. /\ me.fresh /\ me.baseline = 0 /\ me.candidate = 0
        BY <2>2, <2>3, <3>1
      <3> HIDE DEF me, grade
      <3>3. /\ experiment \in Rows /\ experiment.eligibility = "WINNER"
            /\ experiment.freshness = "FRESH"
            /\ experiment.baseline = 0 /\ experiment.candidate = 0
        BY <1>1 DEF IInv, RowOK, FreshComparesOneIndex, TypeOK
      <3>4. experiment' = [state |-> "ACCEPTED", freshness |-> "FRESH",
                           eligibility |-> "WINNER", outcome |-> outcome,
                           baseline |-> 0, candidate |-> 0]
        BY <2>4, <3>2
      <3>5. experiment = [state |-> "ACCEPTED", freshness |-> "FRESH",
                          eligibility |-> "WINNER", outcome |-> outcome,
                          baseline |-> 0, candidate |-> 0]
        BY <3>1, <3>3 DEF Rows
      <3> QED
        BY <1>5, <3>4, <3>5
    <2> HIDE DEF me, grade
    <2>6. /\ experiment' \in Rows /\ experiment'.state = "LOCAL_EVIDENCE_READY"
          /\ experiment'.freshness = "FRESH" =>
                experiment'.baseline = 0 /\ experiment'.candidate = 0
      BY <2>2, <2>3, <2>4, <2>5 DEF Rows
    <2>7. \A kind \in KindSet : bound[kind] # None
      <3>1. /\ me.slot = Len(Slots) + 1
            /\ \A i \in DOMAIN Slots : i < me.slot => bound[Slots[i]] # None
        BY <1>1 DEF RunOK, Placed, Passed, Verified, me
      <3>2. \A i \in DOMAIN Slots : i < Len(Slots) + 1
        BY SlotFacts
      <3>3. \A slot \in SlotSet : bound[slot] # None
        BY <3>1, <3>2, SlotFacts
      <3> QED
        BY <3>3, SlotFacts
    <2>8. RowOK'
      BY <1>1, <2>6, <2>7 DEF RowOK, FreshComparesOneIndex
    <2>9. ExportOK'
      BY <1>1, <2>5 DEF IInv, ExportOK, ProposalCarriesAcceptedEvidence
    <2>10. Grows /\ BoundOK'
      BY <1>1 DEF Grows, ObjectIds, IInv, BoundOK, IsTwin
    <2>11. IInv'
      BY <1>1, <1>2, <2>6, <2>8, <2>9, <2>10, OfOneRun DEF TypeOK
    <2> QED
      BY <2>5, <2>11
  <1> QED
    BY <1>4, <1>5

-----------------------------------------------------------------------------
(* The index, OpenSearch and people.                                       *)

\* A step that no run takes.
LEMMA NoRuns ==
  ASSUME IInv, Grows, objects' \in Seq(Objects), alias' \in {"baseline", "other"},
         writes' \in Nat,
         UNCHANGED <<bound, effective, experiment, run, shown, export, proposal>>
  PROVE  IInv'
  <1>1. TypeOK /\ TypeOK'
    BY DEF IInv, TypeOK
  <1>2. \A q \in Runs : RunOK(q)'
    BY <1>1, OthersStay DEF TypeOK
  <1>3. RowOK' /\ ExportOK'
    BY <1>1, RowStays DEF TypeOK
  <1>4. BoundOK'
    <2>1. \A slot \in SlotSet : bound[slot] # None => IsTwin(bound[slot], slot)'
      BY <1>1, BoundStays DEF TypeOK
    <2>2. effective # None => objects'[effective].status = "COMPLETED"
      BY <1>1, BoundStays, SlotFacts DEF IInv, BoundOK, TypeOK
    <2> QED
      BY <2>1, <2>2 DEF IInv, BoundOK, IsTwin, ObjectIds
  <1> QED
    BY <1>1, <1>2, <1>3, <1>4 DEF IInv

LEMMA SurroundingsIInv ==
  ASSUME IInv, MoveAlias \/ Write \/ \E o \in ObjectIds : Finish(o)
  PROVE  IInv'
  <1>1. CASE MoveAlias
    <2>1. /\ alias' \in {"baseline", "other"} /\ objects' \in Seq(Objects)
          /\ writes' \in Nat
          /\ UNCHANGED <<objects, writes, bound, effective, experiment, run, shown,
                         export, proposal>>
      BY <1>1 DEF MoveAlias, IInv, TypeOK
    <2>2. Grows
      BY <2>1 DEF Grows, ObjectIds
    <2> QED
      BY <2>1, <2>2, NoRuns
  <1>2. CASE Write
    <2>1. /\ writes' \in Nat /\ writes' # 0 /\ objects' \in Seq(Objects)
          /\ alias' \in {"baseline", "other"}
          /\ UNCHANGED <<objects, bound, effective, experiment, run, shown, export,
                         proposal>>
      BY <1>2 DEF Write, IInv, TypeOK
    <2>2. Grows
      BY <2>1 DEF Grows, ObjectIds
    <2> QED
      BY <2>1, <2>2, NoRuns
  <1>3. ASSUME NEW o \in ObjectIds, Finish(o) PROVE IInv'
    <2>1. PICK status \in {"COMPLETED", "ERROR"} :
             objects' = [objects EXCEPT ![o].status = status]
      BY <1>3 DEF Finish
    <2> DEFINE old == objects[o]
               new == [old EXCEPT !.status = status]
    <2>2. objects \in Seq(Objects) /\ o \in 1 .. Len(objects)
          /\ ObjectIds = 1 .. Len(objects) /\ old.status = "PROCESSING"
      BY <1>3, LenProperties DEF IInv, TypeOK, ObjectIds, Finish
    <2>3. old \in Objects /\ objects' = [objects EXCEPT ![o] = new]
      BY <2>1, <2>2, ElementOfSeq
    <2> HIDE DEF old
    <2>4. new \in Objects /\ new.slot = old.slot
      BY <2>3 DEF Objects
    <2> HIDE DEF new
    <2>5. /\ objects' \in Seq(Objects) /\ Len(objects') = Len(objects)
          /\ \A j \in 1 .. Len(objects) : objects'[j] = IF j = o THEN new ELSE objects[j]
      BY <2>2, <2>3, <2>4, ExceptSeq
    <2>6. ObjectIds' = ObjectIds
      BY <2>2, <2>5, LenProperties DEF ObjectIds
    <2>7. \A j \in ObjectIds :
             /\ objects'[j].slot = objects[j].slot
             /\ objects[j].status = "COMPLETED" => objects'[j].status = "COMPLETED"
      BY <2>2, <2>4, <2>5 DEF old
    <2>8. UNCHANGED <<bound, effective, experiment, alias, writes, run, shown, export,
                      proposal>>
      BY <1>3 DEF Finish
    <2>9. Grows
      BY <2>6, <2>7, <2>8 DEF Grows
    <2> QED
      BY <2>5, <2>8, <2>9, NoRuns DEF IInv, TypeOK
  <1> QED
    BY <1>1, <1>2, <1>3

\* People and exports leave runs, bindings and objects alone.
LEMMA PeopleLeaveRuns ==
  ASSUME IInv, UNCHANGED <<objects, bound, effective, alias, writes, run>>
  PROVE  BoundOK' /\ \A q \in Runs : RunOK(q)'
  <1>1. BoundOK'
    BY DEF IInv, BoundOK, IsTwin, ObjectIds
  <1>2. ASSUME NEW q \in Runs PROVE RunOK(q)'
    <2>1. RunOK(q)
      BY <1>2 DEF IInv
    <2>2. Placed(q)'
      BY <2>1 DEF RunOK, Placed, OnASlot, Between, Verified
    <2>3. Passed(q)' /\ Ranked(q)'
      BY <2>1 DEF RunOK, Passed, Ranked
    <2>4. Ahead(q)'
      BY <2>1 DEF RunOK, Ahead, OnASlot
    <2>5. AtHand(q)'
      BY <2>1 DEF RunOK, AtHand, Slot, IsTwin, ObjectIds
    <2> QED
      BY <2>2, <2>3, <2>4, <2>5 DEF RunOK
  <1> QED
    BY <1>1, <1>2

LEMMA PeopleIInv ==
  ASSUME IInv,
         \/ \E a \in Admins : Show(a) \/ Accept(a)
         \/ \E x \in Exporters : OpenExport(x) \/ SaveProposal(x)
  PROVE  IInv' /\ (experiment.state = "ACCEPTED" => experiment' = experiment)
  <1>1. UNCHANGED <<objects, bound, effective, alias, writes, run>> /\ TypeOK
    BY DEF Show, Accept, OpenExport, SaveProposal, IInv
  <1>2. BoundOK' /\ \A q \in Runs : RunOK(q)'
    BY <1>1, PeopleLeaveRuns
  <1>3. ASSUME NEW a \in Admins, Show(a) \/ Accept(a)
        PROVE  IInv' /\ (experiment.state = "ACCEPTED" => experiment' = experiment)
    <2>1. UNCHANGED <<export, proposal>>
      BY <1>3 DEF Show, Accept
    <2>2. shown' \in [Admins -> Outcomes \cup {None}]
      BY <1>1, <1>3 DEF Show, Accept, TypeOK, Rows
    <2>3. CASE UNCHANGED experiment
      BY <1>1, <1>2, <2>1, <2>2, <2>3
         DEF IInv, TypeOK, RowOK, ExportOK, FreshComparesOneIndex,
             ProposalCarriesAcceptedEvidence
    <2>4. CASE experiment' # experiment
      <3>1. /\ experiment.eligibility = "EXPLORATORY" /\ experiment.freshness = "FRESH"
            /\ experiment' = [experiment EXCEPT !.state = "ACCEPTED",
                                                !.eligibility = "WINNER"]
        BY <1>3, <2>4 DEF Show, Accept, Acceptable
      <3>2. experiment.state # "ACCEPTED"
        BY <3>1 DEF IInv, RowOK
      <3>3. /\ experiment' \in Rows /\ experiment'.state = "ACCEPTED"
            /\ experiment'.eligibility = "WINNER" /\ experiment'.freshness = "FRESH"
            /\ experiment'.outcome = experiment.outcome
            /\ experiment'.baseline = experiment.baseline
            /\ experiment'.candidate = experiment.candidate
        BY <1>1, <3>1 DEF TypeOK, Rows
      <3>4. RowOK'
        BY <1>1, <3>1, <3>3 DEF IInv, RowOK, FreshComparesOneIndex
      <3>5. ExportOK'
        BY <2>1, <3>2, <3>3 DEF IInv, ExportOK, ProposalCarriesAcceptedEvidence
      <3> QED
        BY <1>1, <1>2, <2>1, <2>2, <3>2, <3>3, <3>4, <3>5 DEF IInv, TypeOK
    <2> QED
      BY <2>3, <2>4
  <1>4. ASSUME NEW x \in Exporters, OpenExport(x) \/ SaveProposal(x)
        PROVE  IInv' /\ experiment' = experiment
    <2>1. UNCHANGED <<experiment, shown>>
      BY <1>4 DEF OpenExport, SaveProposal
    <2>2. CASE OpenExport(x)
      <3> DEFINE new == [at |-> "checked", outcome |-> experiment.outcome]
      <3>1. /\ export' = [export EXCEPT ![x] = new] /\ UNCHANGED proposal
            /\ experiment.state = "ACCEPTED"
        BY <2>2 DEF OpenExport, Exportable
      <3>2. new \in Exports /\ new.outcome = experiment.outcome
        BY <1>1 DEF TypeOK, Rows, Exports
      <3> HIDE DEF new
      <3>3. /\ export' \in [Exporters -> Exports]
            /\ \A y \in Exporters : export'[y] = IF y = x THEN new ELSE export[y]
        BY <1>1, <3>1, <3>2 DEF TypeOK
      <3> QED
        BY <1>1, <1>2, <2>1, <3>1, <3>2, <3>3
           DEF IInv, TypeOK, RowOK, ExportOK, FreshComparesOneIndex,
               ProposalCarriesAcceptedEvidence
    <2>3. CASE SaveProposal(x)
      <3>1. /\ export[x].at = "checked" /\ export' = [export EXCEPT ![x] = NoExport]
            /\ proposal' = IF proposal = None THEN export[x].outcome ELSE proposal
        BY <2>3 DEF SaveProposal
      <3>2. NoExport \in Exports /\ NoExport.at = "idle"
        BY DEF NoExport, Exports
      <3> HIDE DEF NoExport
      <3>3. /\ export' \in [Exporters -> Exports]
            /\ \A y \in Exporters : export'[y] = IF y = x THEN NoExport ELSE export[y]
        BY <1>1, <3>1, <3>2 DEF TypeOK
      <3>4. /\ experiment.state = "ACCEPTED" /\ export[x].outcome = experiment.outcome
            /\ export[x].outcome \in Outcomes \cup {None}
        BY <1>1, <3>1 DEF IInv, ExportOK, TypeOK, Exports
      <3> QED
        BY <1>1, <1>2, <2>1, <3>1, <3>2, <3>3, <3>4
           DEF IInv, TypeOK, RowOK, ExportOK, FreshComparesOneIndex,
               ProposalCarriesAcceptedEvidence
    <2> QED
      BY <1>4, <2>1, <2>2, <2>3
  <1> QED
    BY <1>3, <1>4

-----------------------------------------------------------------------------
(* The invariant is inductive, and no step changes an accepted row.        *)

LEMMA RunStepIInv == ASSUME IInv, NEW r \in Runs, RunStep(r) PROVE IInv'
  BY StartIInv, ResolveIInv, CreateIInv, BindIInv, VerifyIInv, LookupIInv,
     RegisterIInv, ReadIdsIInv, RankIInv, CompleteIInv, FailIInv DEF RunStep

LEMMA StepIInv == ASSUME IInv, [Next]_vars PROVE IInv'
  <1>1. CASE UNCHANGED vars
    <2>1. BoundOK' /\ \A q \in Runs : RunOK(q)'
      BY <1>1, PeopleLeaveRuns DEF vars
    <2> QED
      BY <1>1, <2>1 DEF vars, IInv, TypeOK, RowOK, ExportOK, FreshComparesOneIndex,
                        ProposalCarriesAcceptedEvidence
  <1>2. CASE Next
    BY <1>2, RunStepIInv, SurroundingsIInv, PeopleIInv DEF Next
  <1> QED
    BY <1>1, <1>2

THEOREM Invariance == Spec => []IInv
  BY InitIInv, StepIInv, PTL DEF Spec

\* A run touches an accepted row only where it completes; its binding of a
\* kind finds all kinds bound.
LEMMA AcceptedStays ==
  ASSUME IInv, [Next]_vars, experiment.state = "ACCEPTED"
  PROVE  experiment' = experiment
  <1>1. ASSUME NEW r \in Runs, RunStep(r) PROVE experiment' = experiment
    <2>1. CASE Bind(r)
      <3>1. ASSUME Slot(r) \in KindSet, bound[Slot(r)] = None PROVE FALSE
        BY <3>1 DEF IInv, RowOK
      <3> QED
        BY <2>1, <3>1 DEF Bind, Unbound
    <2>2. CASE Complete(r)
      BY <2>2, CompleteIInv
    <2>3. CASE Register(r)
      BY <2>3 DEF Register, Present
    <2> QED
      BY <1>1, <2>1, <2>2, <2>3
         DEF RunStep, Start, Resolve, CreateRemote, Verify, Lookup, ReadIds,
             RankBaseline, RankCandidate, Capture, Fail
  <1>2. CASE UNCHANGED vars
    BY <1>2 DEF vars
  <1>3. CASE MoveAlias \/ Write \/ \E o \in ObjectIds : Finish(o)
    BY <1>3 DEF MoveAlias, Write, Finish
  <1> QED
    BY <1>1, <1>2, <1>3, PeopleIInv DEF Next

-----------------------------------------------------------------------------
(* What follows.                                                           *)

\* The variables keep their types.
THEOREM ExperimentTypeCorrect == Spec => []TypeOK
  <1>1. IInv => TypeOK
    BY DEF IInv
  <1> QED
    BY Invariance, <1>1, PTL

\* However runs overlap, one that is past its slots holds the identities
\* bound locally, each of a completed object that was made for its slot
\* (HumanExperimentRunService::run()).
THEOREM RunsAgree == Spec => []VerifiedRunsAgree
  <1>1. ASSUME IInv PROVE VerifiedRunsAgree
    <2> SUFFICES ASSUME NEW r \in Runs, Verified(r)
                 PROVE  /\ run[r].ids = bound
                        /\ \A slot \in SlotSet :
                              /\ bound[slot] \in ObjectIds
                              /\ objects[bound[slot]] =
                                     [slot |-> slot, status |-> "COMPLETED"]
      BY DEF VerifiedRunsAgree
    <2>1. /\ TypeOK /\ BoundOK /\ run[r] \in RunStates
          /\ \A i \in DOMAIN Slots : i < Len(Slots) + 1 =>
                /\ run[r].ids[Slots[i]] = bound[Slots[i]] /\ bound[Slots[i]] # None
                /\ objects[bound[Slots[i]]].status = "COMPLETED"
      BY <1>1 DEF IInv, RunOK, Placed, Passed, TypeOK
    <2>2. \A i \in DOMAIN Slots : i < Len(Slots) + 1
      BY SlotFacts
    <2>3. \A slot \in SlotSet :
             /\ run[r].ids[slot] = bound[slot] /\ bound[slot] # None
             /\ objects[bound[slot]].status = "COMPLETED"
      BY <2>1, <2>2, SlotFacts
    <2>4. run[r].ids \in [SlotSet -> Nat \cup {None}]
          /\ bound \in [SlotSet -> Nat \cup {None}]
      BY <2>1 DEF TypeOK, RunStates
    <2>5. run[r].ids = bound
      BY <2>3, <2>4
    <2>6. ASSUME NEW slot \in SlotSet
          PROVE  /\ bound[slot] \in ObjectIds
                 /\ objects[bound[slot]] = [slot |-> slot, status |-> "COMPLETED"]
      <3> DEFINE twin == objects[bound[slot]]
      <3>1. bound[slot] \in ObjectIds /\ twin.slot = slot /\ twin.status = "COMPLETED"
        BY <2>1, <2>3, <2>6 DEF BoundOK, IsTwin
      <3>2. twin \in Objects
        BY <2>1, <3>1, LenProperties DEF TypeOK, ObjectIds
      <3> HIDE DEF twin
      <3>3. twin = [slot |-> slot, status |-> "COMPLETED"]
        BY <3>1, <3>2 DEF Objects
      <3> QED
        BY <3>1, <3>3 DEF twin
    <2> QED
      BY <2>5, <2>6
  <1> QED
    BY Invariance, <1>1, PTL

\* Evidence on record as fresh was read before any write to the index
\* (IndexEvidenceCapture, OfflineEvidenceEvaluator).
THEOREM FreshIsOneIndex == Spec => []FreshComparesOneIndex
  <1>1. IInv => FreshComparesOneIndex
    BY DEF IInv, RowOK
  <1> QED
    BY Invariance, <1>1, PTL

\* A stored proposal carries the evidence that was accepted
\* (ProposalCreationService::create()).
THEOREM ProposalsCarryAccepted == Spec => []ProposalCarriesAcceptedEvidence
  <1>1. IInv => ProposalCarriesAcceptedEvidence
    BY DEF IInv, ExportOK
  <1> QED
    BY Invariance, <1>1, PTL

\* An accepted row is never changed again, whatever runs happened around its
\* acceptance (HumanExperimentRepository::complete()).
THEOREM AcceptedIsFrozen == Spec => AcceptedEvidenceFrozen
  <1>1. IInv /\ [Next]_vars
          => [experiment.state = "ACCEPTED" => experiment' = experiment]_vars
    BY AcceptedStays
  <1> QED
    BY Invariance, <1>1, PTL DEF Spec, AcceptedEvidenceFrozen
=============================================================================
