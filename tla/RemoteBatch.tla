---------------------------- MODULE RemoteBatch ----------------------------
(***************************************************************************)
(* Rendering on other machines, beside the local generator and reviewer of *)
(* ImageLedger.  A coordinator per worker reserves jobs as a batch, has    *)
(* them rendered remotely, and imports what comes back, whole batches at a *)
(* time: the pictures become files of their jobs, then one transaction     *)
(* records them all.  People may cancel a batch at any time, and a         *)
(* coordinator may die and be started again.                               *)
(*                                                                         *)
(* reserve(), import and cancel take the generator's lock.  reserve() and  *)
(* cancel only touch the database and are one step each; an import is a    *)
(* step per file.  The transfer and the remote renderer end in one step:   *)
(* until results.json is back, nothing that they do is seen here, and what *)
(* they repeat after a loss yields the same pictures.                      *)
(***************************************************************************)
EXTENDS ImageLedger

CONSTANTS
    Workers,
    MaxBatches,  \* bound: batches reserved
    MaxDeaths    \* bound: coordinators that die; MaxFaults has the others

ASSUME WorkersAreNames == Workers \cap {None, "studio", "reviewer"} = {}
ASSUME RemoteBoundsAreNumbers == MaxBatches \in Nat /\ MaxDeaths \in Nat

VARIABLES
    batches,  \* remote_batches: [worker, state, sealed, returned];
              \* sealed[j] is what the manifest says of job j
    owner,    \* remote_image_jobs: the batch that holds a job, or None
    agent,    \* agent[w]: the coordinator of worker w
    deaths

remote == <<batches, owner, agent, deaths>>
allVars == <<vars, remote>>

Numbers == 1..MaxBatches
NoBatch == [worker |-> None, state |-> "none", sealed |-> <<>>,
            returned |-> FALSE]

RemoteInit ==
    /\ Init
    /\ batches = [b \in Numbers |-> NoBatch]
    /\ owner = [j \in Jobs |-> None]
    /\ agent = [w \in Workers |-> Idle]
    /\ deaths = 0

Reserved == {b \in Numbers : batches[b].state = "reserved"}

Sealed(b) == batches[b].sealed
JobsOf(b) == DOMAIN Sealed(b)

----------------------------------------------------------------------------
(* The local generator and the others go on; the generator yields to what  *)
(* came back from a worker.                                                *)

ImportPending == \E b \in Reserved : batches[b].returned

LocalStep ==
    \/ StartGenerate /\ ~ImportPending
    \/ \E j \in Jobs : GenerateFor(j) /\ ~ImportPending
    \/ EndGenerate \/ Publish \/ StudioFails
    \/ StartReview \/ EndReview \/ ReviewStep \/ ReviewFails
    \/ \E j \in Jobs : Direct(j)

Local == LocalStep /\ UNCHANGED remote

(* "Refusing to overwrite an existing attempt" ends the generator.         *)
RefuseToOverwrite(j) ==
    /\ ~ImportPending
    /\ studio.at = "next"
    /\ j \in DOMAIN studio.queue
    /\ Plan(j, studio.queue[j]) # None
    /\ NextAttempt(j) \in DOMAIN files[j]
    /\ StudioEnds
    /\ UNCHANGED <<ledger, reviewer, faults, remote>>

----------------------------------------------------------------------------
(* The coordinator.                                                        *)

Goes(w, state) == agent' = [agent EXCEPT ![w] = state]
At(w, at) == agent[w].at = at
Busy(w, at, b) == [at |-> at, batch |-> b, job |-> None, done |-> {}]

\* Mutant: a restarted coordinator does not find the batch it left.
ForgottenBatches(w) == {}

(* What the worker holds: reserving again returns it instead of another.   *)
Outstanding(w) == {b \in Reserved : batches[b].worker = w}

GenerationFree == lock["generation"] = None

Resume(w) ==
    /\ At(w, "idle")
    /\ GenerationFree
    /\ \E b \in Outstanding(w) : Goes(w, Busy(w, "render", b))
    /\ UNCHANGED <<vars, batches, owner, deaths>>

Eligible == {j \in Jobs : jobs[j].state \in Queued /\ Plan(j, jobs[j]) # None}

OneMode(S) ==
    \A i, j \in S :
        (Plan(i, jobs[i]).from = 0) <=> (Plan(j, jobs[j]).from = 0)

(* The order of the jobs, the batch size and their profiles select some of *)
(* the eligible jobs.                                                      *)
Reserve(w) ==
    /\ At(w, "idle")
    /\ GenerationFree
    /\ Outstanding(w) = {}
    /\ \E S \in (SUBSET Eligible) \ {{}}, b \in Numbers :
          /\ OneMode(S)
          /\ b = Cardinality({c \in Numbers : batches[c] # NoBatch}) + 1
          /\ batches' = [batches EXCEPT ![b] =
                 [worker |-> w, state |-> "reserved", returned |-> FALSE,
                  sealed |-> [j \in S |->
                      [plan |-> Plan(j, jobs[j]), state |-> jobs[j].state,
                       attempt |-> jobs[j].attempts + 1,
                       image |-> jobs[j].image]]]]
          /\ owner' = [j \in Jobs |-> IF j \in S THEN b ELSE owner[j]]
          /\ jobs' = [j \in Jobs |->
                 IF j \in S THEN [jobs[j] EXCEPT !.state = "remote_reserved"]
                 ELSE jobs[j]]
          /\ Goes(w, Busy(w, "render", b))
    /\ UNCHANGED <<files, refused, failures, lock, studio, reviewer, faults,
                   deaths>>

(* Transfer, rendering and the way back; a batch cancelled meanwhile has   *)
(* its results, too.                                                       *)
Receive(w) ==
    /\ At(w, "render")
    /\ batches' = [batches EXCEPT ![agent[w].batch].returned = TRUE]
    /\ Goes(w, [agent[w] EXCEPT !.at = "import"])
    /\ UNCHANGED <<vars, owner, deaths>>

(* The job is still as the manifest left it.                               *)
Held(b, j) ==
    /\ owner[j] = b
    /\ jobs[j].state = "remote_reserved"
    /\ jobs[j].attempts = Sealed(b)[j].attempt - 1

(* What would be planned now for the job as it was is what was rendered.   *)
Importable(b) ==
    /\ b \in Reserved
    /\ \A j \in JobsOf(b) :
          /\ Held(b, j)
          /\ jobs[j].image = Sealed(b)[j].image
          /\ LET prior == [jobs[j] EXCEPT !.state = Sealed(b)[j].state]
             IN  Plan(j, IF AwaitsGeometry(prior)
                         THEN [prior EXCEPT !.review = None]
                         ELSE prior) = Sealed(b)[j].plan

OpenImport(w) ==
    /\ At(w, "import")
    /\ GenerationFree
    /\ Importable(agent[w].batch)
    /\ lock' = [lock EXCEPT !["generation"] = w]
    /\ Goes(w, [agent[w] EXCEPT !.at = "file"])
    /\ UNCHANGED <<ledger, studio, reviewer, faults, batches, owner, deaths>>

(* An exception ends the coordinator, for people to look at.               *)
RefuseImport(w) ==
    /\ At(w, "import")
    /\ GenerationFree
    /\ ~Importable(agent[w].batch)
    /\ Goes(w, [at |-> "attention"])
    /\ UNCHANGED <<vars, batches, owner, deaths>>

Restart(w) ==
    /\ At(w, "attention")
    /\ Goes(w, Idle)
    /\ UNCHANGED <<vars, batches, owner, deaths>>

ImportedFile(b, j) ==
    [plan |-> Sealed(b)[j].plan, by |-> b, told |-> FALSE]

AnotherIsThere(b, j) ==
    LET n == Sealed(b)[j].attempt
    IN  n \in DOMAIN files[j] /\ files[j][n].by # b

ToFile(w, j) == At(w, "file") /\ j \in JobsOf(agent[w].batch) \ agent[w].done

\* Mutant: a received picture is copied to its name.
CopyImport(w, j) ==
    /\ ToFile(w, j)
    /\ LET b == agent[w].batch IN
          files' = [files EXCEPT ![j] =
              Filed(@, Sealed(b)[j].attempt, ImportedFile(b, j))]
    /\ Goes(w, [agent[w] EXCEPT !.at = "describe", !.job = j])
    /\ UNCHANGED <<jobs, refused, failures, lock, studio, reviewer, faults,
                   batches, owner, deaths>>

(* A received picture is linked to its name, unless it is there already.   *)
LinkImport(w, j) ==
    /\ ToFile(w, j)
    /\ LET b == agent[w].batch
           n == Sealed(b)[j].attempt
       IN  /\ ~AnotherIsThere(b, j)
           /\ IF n \in DOMAIN files[j] THEN UNCHANGED files
              ELSE files' = [files EXCEPT ![j] = Filed(@, n, ImportedFile(b, j))]
    /\ Goes(w, [agent[w] EXCEPT !.at = "describe", !.job = j])
    /\ UNCHANGED <<jobs, refused, failures, lock, studio, reviewer, faults,
                   batches, owner, deaths>>

DescribeImport(w) ==
    /\ At(w, "describe")
    /\ LET j == agent[w].job
           b == agent[w].batch
       IN  /\ files' = [files EXCEPT ![j][Sealed(b)[j].attempt].told = TRUE]
           /\ Goes(w, [agent[w] EXCEPT !.at = "file", !.job = None,
                                       !.done = @ \cup {j}])
    /\ UNCHANGED <<jobs, refused, failures, lock, studio, reviewer, faults,
                   batches, owner, deaths>>

LockDropped(w) ==
    lock' = [lock EXCEPT !["generation"] = IF @ = w THEN None ELSE @]

(* "Existing attempt conflicts": the transaction is rolled back.           *)
ConflictImport(w, j) ==
    /\ ToFile(w, j)
    /\ AnotherIsThere(agent[w].batch, j)
    /\ LockDropped(w)
    /\ Goes(w, [at |-> "attention"])
    /\ UNCHANGED <<ledger, studio, reviewer, faults, batches, owner, deaths>>

CommitImport(w) ==
    /\ At(w, "file")
    /\ agent[w].done = JobsOf(agent[w].batch)
    /\ LET b == agent[w].batch IN
          /\ jobs' = [j \in Jobs |->
                 IF j \in JobsOf(b)
                 THEN [jobs[j] EXCEPT !.state = "generated", !.review = None,
                          !.attempts = Sealed(b)[j].attempt,
                          !.image = Sealed(b)[j].attempt]
                 ELSE jobs[j]]
          /\ batches' = [batches EXCEPT ![b].state = "imported"]
    /\ LockDropped(w)
    /\ Goes(w, Idle)
    /\ UNCHANGED <<files, refused, failures, studio, reviewer, faults, owner,
                   deaths>>

(* The lock goes with the process, and an open transaction too.            *)
CoordinatorDies(w) ==
    /\ agent[w].at \notin {"idle", "attention"}
    /\ deaths < MaxDeaths
    /\ deaths' = deaths + 1
    /\ LockDropped(w)
    /\ Goes(w, Idle)
    /\ UNCHANGED <<ledger, studio, reviewer, faults, batches, owner>>

\* Mutant: cancelling asks for the state of the jobs, not whose they are.
StillReserved(b) ==
    \A j \in JobsOf(b) :
        /\ jobs[j].state = "remote_reserved"
        /\ jobs[j].attempts = Sealed(b)[j].attempt - 1

Cancellable(b) == \A j \in JobsOf(b) : Held(b, j)

Cancel(b) ==
    /\ GenerationFree
    /\ b \in Reserved
    /\ Cancellable(b)
    /\ jobs' = [j \in Jobs |->
           IF j \in JobsOf(b) THEN [jobs[j] EXCEPT !.state = Sealed(b)[j].state]
           ELSE jobs[j]]
    /\ owner' = [j \in Jobs |-> IF owner[j] = b THEN None ELSE owner[j]]
    /\ batches' = [batches EXCEPT ![b].state = "cancelled"]
    /\ UNCHANGED <<files, refused, failures, lock, studio, reviewer, faults,
                   agent, deaths>>

----------------------------------------------------------------------------
ImportStep(w) ==
    \/ \E j \in Jobs : LinkImport(w, j) \/ ConflictImport(w, j)
    \/ DescribeImport(w) \/ CommitImport(w)

ReserveStep(w) == Resume(w) \/ Reserve(w)

DecideImport(w) == OpenImport(w) \/ RefuseImport(w)

Coordinate(w) ==
    ReserveStep(w) \/ Receive(w) \/ DecideImport(w) \/ ImportStep(w)

RemoteNext ==
    \/ Local
    \/ \E j \in Jobs : RefuseToOverwrite(j)
    \/ \E w \in Workers : Coordinate(w) \/ Restart(w) \/ CoordinatorDies(w)
    \/ \E b \in Numbers : Cancel(b)

RemoteSpec == RemoteInit /\ [][RemoteNext]_allVars

(* A coordinator that waits for the lock is yielded to by the generator at *)
(* the next picture; the other steps have nothing to wait for.  Nobody is  *)
(* expected to restart a coordinator that needs attention.                 *)
RemoteFairSpec ==
    /\ RemoteSpec
    /\ WF_allVars((EndGenerate \/ Publish) /\ UNCHANGED remote)
    /\ \A w \in Workers :
          /\ SF_allVars(Resume(w) \/ DecideImport(w))
          /\ WF_allVars(Receive(w) \/ ImportStep(w))

----------------------------------------------------------------------------
(* Properties.                                                             *)

\* MINI-WORKER.md: a conflicting or stale return cannot overwrite another
\* attempt.  No picture on disk is ever replaced, whoever writes where.
FilesStay ==
    [][\A j \in Jobs : \A n \in DOMAIN files[j] :
          /\ n \in DOMAIN files'[j]
          /\ files'[j][n].by = files[j][n].by
          /\ files'[j][n].plan = files[j][n].plan]_allVars

\* cancel(), import_results(): a job out at a worker stays out until its own
\* batch ends, whatever happens to other batches, unless people refuse its
\* picture or the reviewer has it.
ReleasedByItsBatch ==
    [][\A j \in Jobs :
          jobs[j].state = "remote_reserved" /\ jobs'[j].state # "remote_reserved"
          => \/ batches'[owner[j]].state # "reserved"
             \/ <<j, jobs[j].image>> \in refused' /\ batches' = batches
             \/ reviewer.at # "idle" /\ reviewer.job = j
             \/ jobs'[j].state = "reviewing"]_allVars

\* coordinate(): a reserved batch ends, or its coordinator stops for people
\* to look at it, also when the coordinator dies in between.
BatchesMove ==
    \A b \in Numbers :
        b \in Reserved
            ~> b \notin Reserved \/ At(batches[b].worker, "attention")

=============================================================================
