--------------------------- MODULE ExperimentRun ---------------------------
(***************************************************************************)
(* One offline experiment of the relevance workbench: the runs that        *)
(* administrators start for the same frozen inputs, the objects they       *)
(* create in OpenSearch, the local rows that bind them, the evidence a run *)
(* records, its acceptance and its export.                                 *)
(*                                                                         *)
(* HumanExperimentRunService::run() is one PHP request.  Every call it     *)
(* makes to OpenSearch and every local transaction is a step here, so that *)
(* two runs interleave between any two of them and a run may end (an       *)
(* exception, a timeout, a killed process) after any of them.  The slots   *)
(* of an experiment are the local artifacts it needs remotely followed by  *)
(* its experiment kinds, in the order run() handles them.                  *)
(***************************************************************************)
EXTENDS Naturals, Sequences, FiniteSets

CONSTANTS
    Runs,          \* requests that run the experiment
    Admins,        \* administrators who read and accept evidence
    Exporters,     \* requests that export a proposal
    Artifacts,     \* local artifacts with a remote twin, as a sequence
    Judgment,      \* the artifact that OpenSearch imports in the background
    Kinds,         \* the remote experiment kinds, as a sequence
    Partial, Inconclusive, Winning,  \* result comparisons, by their grade
    None,
    MaxWrites,     \* bound: writes to the index that are explored
    MaxObjects     \* bound: objects created in OpenSearch

Slots == Artifacts \o Kinds
SlotSet == {Slots[i] : i \in DOMAIN Slots}
KindSet == {Kinds[i] : i \in DOMAIN Kinds}
Outcomes == Partial \cup Inconclusive \cup Winning

ASSUME SlotsAreDistinct ==
    /\ Artifacts \in Seq(SlotSet) /\ Kinds \in Seq(SlotSet)
    /\ Len(Artifacts) > 0 /\ Len(Kinds) > 0
    /\ \E i \in DOMAIN Artifacts : Artifacts[i] = Judgment
    /\ \A i, j \in DOMAIN Slots : Slots[i] = Slots[j] => i = j
ASSUME NoneIsNoValue == None \notin Outcomes \cup Nat
ASSUME BoundsAreNumbers == MaxWrites \in Nat /\ MaxObjects \in Nat
ASSUME GradesAreDisjoint ==
    /\ Partial \cap Inconclusive = {}
    /\ Winning \cap (Partial \cup Inconclusive) = {}

VARIABLES
    objects,     \* every object created in OpenSearch, in order
    bound,       \* the remote identity each slot is bound to, or None
    effective,   \* effective_imported_judgment_id
    experiment,  \* the experiment row; its state is "ABSENT" before there is one
    alias,       \* whether the store's alias names the baseline's index
    writes,      \* writes to the baseline's index since it was captured
    run,         \* progress and local variables of each run
    shown,       \* the evidence each administrator is looking at, or None
    export,      \* progress of each export
    proposal     \* the evidence in the stored proposal, or None

vars == <<objects, bound, effective, experiment, alias, writes, run, shown,
          export, proposal>>

ObjectIds == DOMAIN objects
Polled(slot) == slot = Judgment \/ slot \in KindSet
NoIds == [slot \in SlotSet |-> None]
Idle == [at |-> "idle", slot |-> 1, ids |-> NoIds,
         baseline |-> 0, candidate |-> 0, fresh |-> FALSE]
NoExport == [at |-> "idle", outcome |-> None]
Absent == [state |-> "ABSENT", freshness |-> "FRESH",
           eligibility |-> "PENDING", outcome |-> None,
           baseline |-> 0, candidate |-> 0]
Registered == [Absent EXCEPT !.state = "REMOTE_PENDING"]

Init ==
    /\ objects = <<>>
    /\ bound = NoIds
    /\ effective = None
    /\ experiment = Absent
    /\ alias = "baseline" /\ writes = 0
    /\ run = [r \in Runs |-> Idle]
    /\ shown = [a \in Admins |-> None]
    /\ export = [x \in Exporters |-> NoExport]
    /\ proposal = None

----------------------------------------------------------------------------
(* The store's index.  IndexEvidenceCapture hashes the alias target and    *)
(* the sequence numbers of its shards, so the baseline's evidence is back  *)
(* when the alias is, but never after a write.                             *)

IndexIsBaseline == alias = "baseline" /\ writes = 0

MoveAlias ==
    /\ alias' = IF alias = "baseline" THEN "other" ELSE "baseline"
    /\ UNCHANGED <<objects, bound, effective, experiment, writes, run, shown,
                   export, proposal>>

Write ==
    /\ writes < MaxWrites
    /\ writes' = writes + 1
    /\ UNCHANGED <<objects, bound, effective, experiment, alias, run, shown,
                   export, proposal>>

(* OpenSearch works on imported judgments and experiments after it has     *)
(* answered the request that created them.                                 *)
Finish(o) ==
    /\ objects[o].status = "PROCESSING"
    /\ \E status \in {"COMPLETED", "ERROR"} :
           objects' = [objects EXCEPT ![o].status = status]
    /\ UNCHANGED <<bound, effective, experiment, alias, writes, run, shown,
                   export, proposal>>

----------------------------------------------------------------------------
(* A run.                                                                  *)

Slot(r) == Slots[run[r].slot]
Goto(r, at) == run' = [run EXCEPT ![r].at = at]
GoWith(r, at, ids) ==
    run' = [run EXCEPT ![r] = [@ EXCEPT !.at = at, !.ids = ids]]
End(r) == run' = [run EXCEPT ![r] = Idle]

(* After a slot is verified: the next slot, or, past the artifacts, the    *)
(* experiment row, or, past the kinds, the rankings.                       *)
AfterSlot(r) ==
    CASE run[r].slot = Len(Artifacts) -> "lookup"
      [] run[r].slot = Len(Slots) -> "rank baseline"
      [] OTHER -> "resolve"
Advance(r) ==
    run' = [run EXCEPT ![r] =
               [@ EXCEPT !.at = AfterSlot(r), !.slot = run[r].slot + 1]]

(* run() refuses to start when the baseline's index evidence is stale.     *)
Start(r) ==
    /\ run[r].at = "idle"
    /\ IndexIsBaseline
    /\ Goto(r, "resolve")
    /\ UNCHANGED <<objects, bound, effective, experiment, alias, writes,
                   shown, export, proposal>>

(* An artifact's binding is read when its turn comes, the judgment's from  *)
(* the column of the completed import first; those of the kinds were read  *)
(* together when the run found its experiment row.                         *)
KnownId(r) ==
    CASE Slot(r) \in KindSet -> run[r].ids[Slot(r)]
      [] Slot(r) = Judgment /\ effective # None -> effective
      [] OTHER -> bound[Slot(r)]

Resolve(r) ==
    /\ run[r].at = "resolve"
    /\ GoWith(r, IF KnownId(r) = None THEN "create" ELSE "verify",
              [run[r].ids EXCEPT ![Slot(r)] = KnownId(r)])
    /\ UNCHANGED <<objects, bound, effective, experiment, alias, writes,
                   shown, export, proposal>>

CreateRemote(r) ==
    /\ run[r].at = "create"
    /\ Len(objects) < MaxObjects
    /\ objects' = Append(objects,
           [slot |-> Slot(r),
            status |-> IF Polled(Slot(r)) THEN "PROCESSING" ELSE "COMPLETED"])
    /\ GoWith(r, "bind", [run[r].ids EXCEPT ![Slot(r)] = Len(objects) + 1])
    /\ UNCHANGED <<bound, effective, experiment, alias, writes, shown, export, proposal>>

(* A binding is written where there is none, under the row's lock.         *)
Unbound(slot) == bound[slot] = None

\* Mutant: a run that lost the race for a binding goes on with its own object.
GoOnUnbound(r) == Goto(r, "verify")

LoseBinding(r) == End(r)
Bind(r) ==
    /\ run[r].at = "bind"
    /\ IF Unbound(Slot(r))
       THEN /\ bound' = [bound EXCEPT ![Slot(r)] = run[r].ids[Slot(r)]]
            /\ experiment' = IF Slot(r) \in KindSet
                             THEN [experiment EXCEPT !.state = "REMOTE_RUNNING"]
                             ELSE experiment
            /\ Goto(r, "verify")
       ELSE /\ LoseBinding(r)
            /\ UNCHANGED <<bound, experiment>>
    /\ UNCHANGED <<objects, effective, alias, writes, shown, export,
                   proposal>>

(* Reading the object back, polling it if it is one that works in the      *)
(* background, and validating it if it is an experiment.  A completed      *)
(* judgment is marked in the row that is bound to it.                      *)
ObjectReady(o) == objects[o].status = "COMPLETED"
Verify(r) ==
    /\ run[r].at = "verify"
    /\ ObjectReady(run[r].ids[Slot(r)])
    /\ IF Slot(r) = Judgment
       THEN /\ bound[Judgment] = run[r].ids[Judgment]
            /\ effective' = run[r].ids[Judgment]
       ELSE UNCHANGED effective
    /\ Advance(r)
    /\ UNCHANGED <<objects, bound, experiment, alias, writes, shown, export, proposal>>

(* createOrGet() reads the row for these inputs and, when there is none,   *)
(* inserts one; input_sha256 is unique, so the second insert is refused.   *)
ReadKinds(r) == [slot \in SlotSet |->
    IF slot \in KindSet THEN bound[slot] ELSE run[r].ids[slot]]

Present == experiment.state # "ABSENT"

Lookup(r) ==
    /\ run[r].at = "lookup"
    /\ Goto(r, IF Present THEN "read ids" ELSE "register")
    /\ UNCHANGED <<objects, bound, effective, experiment, alias, writes,
                   shown, export, proposal>>

Register(r) ==
    /\ run[r].at = "register"
    /\ IF Present
       THEN End(r) /\ UNCHANGED experiment
       ELSE experiment' = Registered /\ Goto(r, "read ids")
    /\ UNCHANGED <<objects, bound, effective, alias, writes, shown, export, proposal>>

ReadIds(r) ==
    /\ run[r].at = "read ids"
    /\ GoWith(r, "resolve", ReadKinds(r))
    /\ UNCHANGED <<objects, bound, effective, experiment, alias, writes,
                   shown, export, proposal>>

(* buildEvidenceInputs() searches the baseline's physical index with both  *)
(* templates, one search at a time.                                        *)
RankBaseline(r) ==
    /\ run[r].at = "rank baseline"
    /\ run' = [run EXCEPT ![r] = [@ EXCEPT !.at = "rank candidate",
                                          !.baseline = writes]]
    /\ UNCHANGED <<objects, bound, effective, experiment, alias, writes,
                   shown, export, proposal>>

RankCandidate(r) ==
    /\ run[r].at = "rank candidate"
    /\ run' = [run EXCEPT ![r] = [@ EXCEPT !.at = "capture",
                                          !.candidate = writes]]
    /\ UNCHANGED <<objects, bound, effective, experiment, alias, writes,
                   shown, export, proposal>>

\* Mutant: freshness is judged by the alias alone.
AliasFresh == alias = "baseline"

(* The evidence captured after the rankings decides their freshness.       *)
IndexFresh == IndexIsBaseline
Capture(r) ==
    /\ run[r].at = "capture"
    /\ run' = [run EXCEPT ![r] = [@ EXCEPT !.at = "complete",
                                          !.fresh = IndexFresh]]
    /\ UNCHANGED <<objects, bound, effective, experiment, alias, writes,
                   shown, export, proposal>>

(* OfflineEvidenceEvaluator::eligibility(), by the grade of the outcome.   *)
Eligibility(outcome, fresh) ==
    CASE ~ fresh -> "STALE"
      [] fresh /\ outcome \in Partial -> "PARTIAL"
      [] fresh /\ outcome \in Inconclusive -> "INCONCLUSIVE"
      [] fresh /\ outcome \in Winning -> "EXPLORATORY"

\* Mutant: a rerun of accepted evidence only has to win again.
ReplaceableByAnyWinner(outcome, fresh) ==
    experiment.state = "ACCEPTED" => Eligibility(outcome, fresh) = "EXPLORATORY"

(* Accepted evidence is only ever replaced by the same evidence.           *)
Replaceable(outcome, fresh) ==
    \/ experiment.state # "ACCEPTED"
    \/ /\ Eligibility(outcome, fresh) = "EXPLORATORY"
       /\ experiment.outcome = outcome

Identified(r) == \A kind \in KindSet : run[r].ids[kind] = bound[kind]

(* The rankings may differ between two runs on an unchanged index: which   *)
(* segments are merged and which replica answers changes scores.           *)
Complete(r) ==
    /\ run[r].at = "complete"
    /\ \E outcome \in Outcomes :
           IF Identified(r) /\ Replaceable(outcome, run[r].fresh)
           THEN experiment' =
                  [state |-> IF experiment.state = "ACCEPTED" THEN "ACCEPTED"
                             ELSE "LOCAL_EVIDENCE_READY",
                   freshness |-> IF run[r].fresh THEN "FRESH" ELSE "STALE",
                   eligibility |-> IF experiment.state = "ACCEPTED" THEN "WINNER"
                                   ELSE Eligibility(outcome, run[r].fresh),
                   outcome |-> outcome,
                   baseline |-> run[r].baseline, candidate |-> run[r].candidate]
           ELSE UNCHANGED experiment
    /\ End(r)
    /\ UNCHANGED <<objects, bound, effective, alias, writes, shown, export, proposal>>

(* An OpenSearch error, an object in a terminal state, a drifted or        *)
(* changed object, an exhausted poll, a lost connection or a killed        *)
(* process ends the request where it is.                                   *)
Fail(r) ==
    /\ run[r].at # "idle"
    /\ End(r)
    /\ UNCHANGED <<objects, bound, effective, experiment, alias, writes,
                   shown, export, proposal>>

----------------------------------------------------------------------------
(* Administrators.  The workbench shows the evidence with a button that    *)
(* posts the experiment's identity and nothing of the evidence.            *)

Show(a) ==
    /\ experiment.eligibility = "EXPLORATORY"
    /\ shown' = [shown EXCEPT ![a] = experiment.outcome]
    /\ UNCHANGED <<objects, bound, effective, experiment, alias, writes, run,
                   export, proposal>>

Acceptable ==
    /\ experiment.eligibility = "EXPLORATORY"
    /\ experiment.freshness = "FRESH"

Accept(a) ==
    /\ shown[a] # None
    /\ IF Acceptable
       THEN experiment' = [experiment EXCEPT !.state = "ACCEPTED",
                                             !.eligibility = "WINNER"]
       ELSE UNCHANGED experiment
    /\ shown' = [shown EXCEPT ![a] = None]
    /\ UNCHANGED <<objects, bound, effective, alias, writes, run, export,
                   proposal>>

\* Mutant: evidence that would win is exported before it is accepted.
ExportableIfWinning == experiment.eligibility \in {"EXPLORATORY", "WINNER"}

(* ProposalCreationService reads the accepted row and rechecks the index,  *)
(* looks for an existing proposal, and only then inserts one; the source   *)
(* experiment of a proposal is unique.                                     *)
Exportable == experiment.state = "ACCEPTED" /\ experiment.eligibility = "WINNER"
OpenExport(x) ==
    /\ export[x].at = "idle"
    /\ Exportable
    /\ IndexIsBaseline
    /\ proposal = None
    /\ export' = [export EXCEPT ![x] = [at |-> "checked",
                                        outcome |-> experiment.outcome]]
    /\ UNCHANGED <<objects, bound, effective, experiment, alias, writes, run,
                   shown, proposal>>

SaveProposal(x) ==
    /\ export[x].at = "checked"
    /\ proposal' = IF proposal = None THEN export[x].outcome ELSE proposal
    /\ export' = [export EXCEPT ![x] = NoExport]
    /\ UNCHANGED <<objects, bound, effective, experiment, alias, writes, run,
                   shown>>

----------------------------------------------------------------------------
RunStep(r) ==
    \/ Start(r) \/ Resolve(r) \/ CreateRemote(r) \/ Bind(r) \/ Verify(r)
    \/ Lookup(r) \/ Register(r) \/ ReadIds(r)
    \/ RankBaseline(r) \/ RankCandidate(r) \/ Capture(r) \/ Complete(r)
    \/ Fail(r)

Next ==
    \/ MoveAlias
    \/ Write
    \/ \E o \in ObjectIds : Finish(o)
    \/ \E r \in Runs : RunStep(r)
    \/ \E a \in Admins : Show(a) \/ Accept(a)
    \/ \E x \in Exporters : OpenExport(x) \/ SaveProposal(x)

Spec == Init /\ [][Next]_vars

----------------------------------------------------------------------------
(* Properties.                                                             *)

Phases == {"idle", "resolve", "create", "bind", "verify", "lookup",
           "register", "read ids", "rank baseline", "rank candidate",
           "capture", "complete"}
RunStates == [at : Phases, slot : 1..(Len(Slots) + 1),
              ids : [SlotSet -> Nat \cup {None}],
              baseline : Nat, candidate : Nat, fresh : BOOLEAN]
Rows == [state : {"ABSENT", "REMOTE_PENDING", "REMOTE_RUNNING",
                  "LOCAL_EVIDENCE_READY", "ACCEPTED"},
         freshness : {"FRESH", "STALE"},
         eligibility : {"PENDING", "STALE", "PARTIAL", "INCONCLUSIVE",
                        "EXPLORATORY", "WINNER"},
         outcome : Outcomes \cup {None}, baseline : Nat, candidate : Nat]
Exports == [at : {"idle", "checked"}, outcome : Outcomes \cup {None}]
Objects == [slot : SlotSet, status : {"PROCESSING", "COMPLETED", "ERROR"}]

\* Types.
TypeOK ==
    /\ objects \in Seq(Objects)
    /\ bound \in [SlotSet -> Nat \cup {None}]
    /\ effective \in Nat \cup {None}
    /\ experiment \in Rows
    /\ alias \in {"baseline", "other"}
    /\ writes \in Nat
    /\ run \in [Runs -> RunStates]
    /\ shown \in [Admins -> Outcomes \cup {None}]
    /\ export \in [Exporters -> Exports]
    /\ proposal \in Outcomes \cup {None}

Verified(r) ==
    run[r].at \in {"rank baseline", "rank candidate", "capture", "complete"}

\* Overlapping runs end up with the same remote identities: a run that got
\* past its slots holds exactly the identities bound locally, and each was
\* created for its slot and completed.  (The identity check of complete()
\* therefore never fires; what guards is the refusal to bind twice.)
VerifiedRunsAgree ==
    \A r \in Runs : Verified(r) =>
        /\ run[r].ids = bound
        /\ \A slot \in SlotSet :
              /\ bound[slot] \in ObjectIds
              /\ objects[bound[slot]] = [slot |-> slot, status |-> "COMPLETED"]

\* Evidence recorded as fresh compared both configurations on the index the
\* baseline was captured from, before any later write.
FreshComparesOneIndex ==
    experiment.freshness = "FRESH" =>
        experiment.baseline = 0 /\ experiment.candidate = 0

\* Acceptance is final: no rerun, binding or second click changes an accepted
\* row's state, verdict or evidence.
AcceptedEvidenceFrozen ==
    [][experiment.state = "ACCEPTED" => experiment' = experiment]_vars

\* The stored proposal, which any number of exports race to create, carries
\* the evidence that was accepted.
ProposalCarriesAcceptedEvidence ==
    proposal # None => /\ experiment.state = "ACCEPTED"
                       /\ proposal = experiment.outcome

=============================================================================
