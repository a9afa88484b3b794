---------------------------- MODULE ImageLedger ----------------------------
(***************************************************************************)
(* The image ledger of the catalog tools.  Every product picture is a job  *)
(* row in ledger.sqlite.  A generator renders the jobs that need a picture *)
(* and files each attempt, a reviewer decides on what was rendered, and    *)
(* people reject pictures or resolve what the reviewer held back.          *)
(*                                                                         *)
(* The generator holds the "generation" lock and the reviewer the "review" *)
(* lock, for as long as the process runs; people take both.  So one of     *)
(* each may run at a time, over the same rows, and a process that dies     *)
(* leaves its row and its files as they were at that line.  Every commit   *)
(* and every file published is a step.                                     *)
(*                                                                         *)
(* A file is known by its job and attempt, because no attempt is written   *)
(* twice: so an attempt's number stands for the hash of its bytes.         *)
(***************************************************************************)
EXTENDS Naturals, FiniteSets

CONSTANTS
    Jobs,          \* the jobs of the run
    Source,        \* Source[j]: the job whose picture j recolors, or None
    HalfRound,     \* jobs whose geometry people inspect directly
    MaxAttempts,   \* CONFIG max_attempts
    ReviewWindow,  \* failed reviews after which a job is left alone
    ErrorsInARow,  \* failed reviews in a row that end the reviewer
    None,
    MaxFaults,     \* bound: processes that die or steps that fail
    MaxRefusals    \* bound: pictures that people reject

ASSUME SourcesStandAlone ==
    /\ Source \in [Jobs -> Jobs \cup {None}]
    /\ \A j \in Jobs : Source[j] # None => Source[Source[j]] = None
ASSUME LimitsArePositive ==
    /\ MaxAttempts \in Nat \ {0}
    /\ ReviewWindow \in Nat \ {0}
    /\ ErrorsInARow \in Nat \ {0}
ASSUME BoundsAreNumbers == MaxFaults \in Nat /\ MaxRefusals \in Nat
ASSUME NoneIsNothing ==
    None \notin Jobs \cup Nat \cup {"studio", "reviewer"}
ASSUME HalfRoundAreJobs == HalfRound \subseteq Jobs

VARIABLES
    jobs,       \* jobs[j]: the row [state, attempts, image, review] of j
    files,      \* files[j]: the pictures of j on disk, by their attempt: what
                \* they were rendered from, for which remote batch or 0, and
                \* whether metadata tells
    refused,    \* the pictures <<j, n>> that people rejected
    failures,   \* review_failures: how often reviews of a job failed
    lock,       \* who holds each lock, or None
    studio,     \* the generator process
    reviewer,   \* the reviewer process
    faults

ledger == <<jobs, files, refused, failures>>
vars == <<jobs, files, refused, failures, lock, studio, reviewer, faults>>

Idle == [at |-> "idle"]

Init ==
    /\ jobs = [j \in Jobs |-> [state |-> "pending", attempts |-> 0,
                               image |-> 0, review |-> None]]
    /\ files = [j \in Jobs |-> <<>>]
    /\ refused = {}
    /\ failures = [j \in Jobs |-> 0]
    /\ lock = [name \in {"generation", "review"} |-> None]
    /\ studio = Idle
    /\ reviewer = Idle
    /\ faults = 0

----------------------------------------------------------------------------
(* What counts as accepted, and what may be rendered next.                 *)

(* A picture is accepted by a review of that very picture.                 *)
StandsAccepted(j) ==
    /\ jobs[j].state = "accepted"
    /\ jobs[j].review.decision = "accepted"
    /\ jobs[j].review.image = jobs[j].image
    /\ <<j, jobs[j].image>> \notin refused

(* The picture j starts from: 0 if it needs none, None while it has none.  *)
AcceptedSource(j) ==
    IF Source[j] = None THEN 0
    ELSE IF StandsAccepted(Source[j]) THEN jobs[Source[j]].image ELSE None

Described(j) == {n \in DOMAIN files[j] : files[j][n].told}

\* Mutant: attempts that died before their metadata are not missed.
RetryUncounted(j, row, source) ==
    \/ row.attempts < MaxAttempts
    \/ /\ Source[j] # None
       /\ Cardinality({n \in Described(j) : files[j][n].plan.from = source})
              < MaxAttempts

(* A changed source opens a budget of its own, counted in the attempts'    *)
(* metadata, which must be complete.                                       *)
RetryAllowed(j, row, source) ==
    \/ row.attempts < MaxAttempts
    \/ /\ Source[j] # None
       /\ Cardinality(Described(j)) = row.attempts
       /\ Cardinality({n \in Described(j) : files[j][n].plan.from = source})
              < MaxAttempts

AwaitsGeometry(row) ==
    /\ row.state = "review_required"
    /\ row.review # None
    /\ row.review.decision = "held"

(* The recipe of a row's next attempt and the picture it edits, or None.   *)
Plan(j, row) ==
    LET source == AcceptedSource(j) IN
    IF AwaitsGeometry(row) \/ source = None \/ ~RetryAllowed(j, row, source)
    THEN None
    ELSE IF Source[j] # None
    THEN [from |-> source, recipe |-> "recolor"]
    ELSE IF row.state \in {"rejected", "review_required"}
    THEN [from |-> row.image,
          recipe |-> IF <<j, row.image>> \in refused THEN "observed"
                                                     ELSE "retry"]
    ELSE [from |-> 0, recipe |-> "initial"]

Queued == {"pending", "rejected", "review_required", "interrupted"}

\* Mutant: a changed source leaves accepted pictures alone.
RequeuedUnlessAccepted(j) ==
    /\ Source[j] # None
    /\ jobs[j].state = "review_required"
    /\ jobs[j].review.source # AcceptedSource(j)

(* Whether the source a decided job was reviewed with is another one now.  *)
SourceChanged(j) ==
    /\ Source[j] # None
    /\ jobs[j].state \in {"accepted", "review_required", "review_error"}
    /\ jobs[j].review # None
    /\ jobs[j].review.source # AcceptedSource(j)

----------------------------------------------------------------------------
(* The generator.                                                          *)

(* Rows a dead generator left are taken over, decided rows with another    *)
(* source are queued again, and the rows to work on are read.              *)
StartGenerate ==
    /\ lock["generation"] = None
    /\ lock' = [lock EXCEPT !["generation"] = "studio"]
    /\ jobs' = [j \in Jobs |->
           IF jobs[j].state = "generating"
           THEN [jobs[j] EXCEPT !.state = "interrupted"]
           ELSE IF SourceChanged(j) THEN [jobs[j] EXCEPT !.state = "rejected"]
           ELSE jobs[j]]
    /\ studio' = [at |-> "next", job |-> None, plan |-> None,
           queue |-> [j \in {i \in Jobs : jobs'[i].state \in Queued}
                          |-> jobs'[j]]]
    /\ UNCHANGED <<files, refused, failures, reviewer, faults>>

StudioEnds ==
    /\ lock' = [lock EXCEPT !["generation"] = None]
    /\ studio' = Idle

(* The queue is done, the limit reached, or another needs the lock.        *)
EndGenerate ==
    /\ studio.at = "next"
    /\ StudioEnds
    /\ UNCHANGED <<ledger, reviewer, faults>>

Without(queue, j) == [i \in DOMAIN queue \ {j} |-> queue[i]]

SkipBlocked(j) ==
    /\ studio.at = "next"
    /\ j \in DOMAIN studio.queue
    /\ Plan(j, studio.queue[j]) = None
    /\ studio' = [studio EXCEPT !.queue = Without(@, j)]
    /\ UNCHANGED <<ledger, lock, reviewer, faults>>

NextAttempt(j) == studio.queue[j].attempts + 1

(* An attempt that is there already would end the generator; only imports  *)
(* from other machines can leave one (RefuseToOverwrite in RemoteBatch).   *)
BeginAttempt(j) ==
    /\ studio.at = "next"
    /\ j \in DOMAIN studio.queue
    /\ Plan(j, studio.queue[j]) # None
    /\ NextAttempt(j) \notin DOMAIN files[j]
    /\ jobs' = [jobs EXCEPT ![j].state = "generating",
                            ![j].attempts = NextAttempt(j)]
    /\ studio' = [studio EXCEPT !.at = "render", !.job = j,
                                !.plan = Plan(j, studio.queue[j])]
    /\ UNCHANGED <<files, refused, failures, lock, reviewer, faults>>

Filed(of, n, file) ==
    [k \in DOMAIN of \cup {n} |-> IF k = n THEN file ELSE of[k]]

Attempt == NextAttempt(studio.job)

(* The rendered picture is linked to its name, which fails if it exists.   *)
LinkAttempt ==
    /\ studio.at = "render"
    /\ Attempt \notin DOMAIN files[studio.job]
    /\ files' = [files EXCEPT ![studio.job] =
           Filed(@, Attempt, [plan |-> studio.plan, by |-> 0,
                              told |-> FALSE])]
    /\ studio' = [studio EXCEPT !.at = "describe"]
    /\ UNCHANGED <<jobs, refused, failures, lock, reviewer, faults>>

DescribeAttempt ==
    /\ studio.at = "describe"
    /\ files' = [files EXCEPT ![studio.job][Attempt].told = TRUE]
    /\ studio' = [studio EXCEPT !.at = "record"]
    /\ UNCHANGED <<jobs, refused, failures, lock, reviewer, faults>>

RecordAttempt ==
    /\ studio.at = "record"
    /\ jobs' = [jobs EXCEPT ![studio.job] =
           [@ EXCEPT !.state = "generated", !.image = Attempt,
                     !.review = None]]
    /\ studio' = [studio EXCEPT !.at = "log"]
    /\ UNCHANGED <<files, refused, failures, lock, reviewer, faults>>

(* The event log and status.json are written; then the next row's turn.    *)
LogAttempt ==
    /\ studio.at = "log"
    /\ studio' = [studio EXCEPT !.at = "next", !.job = None, !.plan = None,
                                !.queue = Without(@, studio.job)]
    /\ UNCHANGED <<ledger, lock, reviewer, faults>>

(* Rendering, publishing or logging raises: the job is left for people.    *)
FailAttempt ==
    /\ studio.at \in {"render", "describe", "record", "log"}
    /\ faults < MaxFaults
    /\ faults' = faults + 1
    /\ jobs' = [jobs EXCEPT ![studio.job].state = "generation_error"]
    /\ StudioEnds
    /\ UNCHANGED <<files, refused, failures, reviewer>>

(* The operating system drops the locks of a process that dies.            *)
StudioDies ==
    /\ studio.at # "idle"
    /\ faults < MaxFaults
    /\ faults' = faults + 1
    /\ StudioEnds
    /\ UNCHANGED <<ledger, reviewer>>

----------------------------------------------------------------------------
(* The reviewer.                                                           *)

Reviewable == {"generated", "review_error"}

\* Mutant: what a dead reviewer left is not taken over.
AsLeft(row) == row

TakenOver(row) ==
    IF row.state = "reviewing" THEN [row EXCEPT !.state = "generated"] ELSE row

StartReview ==
    /\ lock["review"] = None
    /\ lock' = [lock EXCEPT !["review"] = "reviewer"]
    /\ jobs' = [j \in Jobs |-> TakenOver(jobs[j])]
    /\ reviewer' = [at |-> "next", job |-> None, source |-> None, errors |-> 0,
           queue |-> [j \in {i \in Jobs : jobs'[i].state \in Reviewable}
                          |-> jobs'[j]]]
    /\ UNCHANGED <<files, refused, failures, studio, faults>>

ReviewerEnds ==
    /\ lock' = [lock EXCEPT !["review"] = None]
    /\ reviewer' = Idle

EndReview ==
    /\ reviewer.at = "next"
    /\ ReviewerEnds
    /\ UNCHANGED <<ledger, studio, faults>>

MayReview(j) == failures[j] < ReviewWindow /\ AcceptedSource(j) # None

SkipReview(j) ==
    /\ reviewer.at = "next"
    /\ j \in DOMAIN reviewer.queue
    /\ ~MayReview(j)
    /\ reviewer' = [reviewer EXCEPT !.queue = Without(@, j)]
    /\ UNCHANGED <<ledger, lock, studio, faults>>

(* The source is read here and the picture inspected beside it, which      *)
(* takes long; the row may change meanwhile.                               *)
BeginReview(j) ==
    /\ reviewer.at = "next"
    /\ j \in DOMAIN reviewer.queue
    /\ MayReview(j)
    /\ jobs' = [jobs EXCEPT ![j].state = "reviewing"]
    /\ reviewer' = [reviewer EXCEPT !.at = "inspect", !.job = j,
                                    !.source = AcceptedSource(j)]
    /\ UNCHANGED <<files, refused, failures, lock, studio, faults>>

(* An otherwise accepted half-round table waits for people.                *)
HoldGeometry(j, decision) ==
    IF decision = "accepted" /\ j \in HalfRound THEN "held" ELSE decision

StateOf(decision) ==
    IF decision = "held" THEN "review_required" ELSE decision

NextReview(errors) ==
    [reviewer EXCEPT !.at = "next", !.job = None, !.source = None,
                     !.errors = errors, !.queue = Without(@, reviewer.job)]

Decide(verdict) ==
    /\ reviewer.at = "inspect"
    /\ LET j == reviewer.job
           decision == HoldGeometry(j, verdict)
       IN  jobs' = [jobs EXCEPT ![j].state = StateOf(decision),
                                ![j].review =
                  [image |-> reviewer.queue[j].image,
                   source |-> reviewer.source, decision |-> decision]]
    /\ reviewer' = [reviewer EXCEPT !.at = "log"]
    /\ UNCHANGED <<files, refused, failures, lock, studio, faults>>

LogReview ==
    /\ reviewer.at = "log"
    /\ reviewer' = NextReview(0)
    /\ UNCHANGED <<ledger, lock, studio, faults>>

(* The inference service is away: the job stays as it was and the reviewer *)
(* ends.                                                                   *)
LoseService ==
    /\ reviewer.at = "inspect"
    /\ faults < MaxFaults
    /\ faults' = faults + 1
    /\ jobs' = [jobs EXCEPT ![reviewer.job].state = "generated"]
    /\ ReviewerEnds
    /\ UNCHANGED <<files, refused, failures, studio>>

(* No usable answer for this picture: counted, and the next one is tried   *)
(* unless it is the last of a row of failures.                             *)
LackReview ==
    /\ reviewer.at = "inspect"
    /\ faults < MaxFaults
    /\ faults' = faults + 1
    /\ jobs' = [jobs EXCEPT ![reviewer.job].state = "review_error"]
    /\ failures' = [failures EXCEPT ![reviewer.job] = @ + 1]
    /\ IF reviewer.errors + 1 < ErrorsInARow
       THEN reviewer' = NextReview(reviewer.errors + 1) /\ UNCHANGED lock
       ELSE ReviewerEnds
    /\ UNCHANGED <<files, refused, studio>>

(* Inspecting, or logging a decision already recorded, raises.             *)
FailReview ==
    /\ reviewer.at \in {"inspect", "log"}
    /\ faults < MaxFaults
    /\ faults' = faults + 1
    /\ jobs' = [jobs EXCEPT ![reviewer.job].state = "review_error"]
    /\ ReviewerEnds
    /\ UNCHANGED <<files, refused, failures, studio>>

ReviewerDies ==
    /\ reviewer.at # "idle"
    /\ faults < MaxFaults
    /\ faults' = faults + 1
    /\ ReviewerEnds
    /\ UNCHANGED <<ledger, studio>>

----------------------------------------------------------------------------
(* People.                                                                 *)

\* Mutant: people reject a picture without the reviewer's lock.
OnlyGenerationFree == lock["generation"] = None

(* Both locks, tried once.                                                 *)
LocksFree == \A name \in DOMAIN lock : lock[name] = None

RejectImage(j) ==
    /\ LocksFree
    /\ jobs[j].image # 0
    /\ Cardinality(refused \cup {<<j, jobs[j].image>>}) <= MaxRefusals
    /\ refused' = refused \cup {<<j, jobs[j].image>>}
    /\ jobs' = [jobs EXCEPT ![j].state = "rejected"]
    /\ UNCHANGED <<files, failures, lock, studio, reviewer, faults>>

(* Direct inspection resolves letters that are none, or the geometry.      *)
Resolve(j, decision) ==
    /\ jobs' = [jobs EXCEPT ![j].state = StateOf(decision),
                            ![j].review.decision = decision]
    /\ refused' = refused \ {<<j, jobs[j].image>>}
    /\ UNCHANGED <<files, failures, lock, studio, reviewer, faults>>

AcceptOcrReview(j) ==
    /\ LocksFree
    /\ jobs[j].state = "review_required"
    /\ jobs[j].review.decision = "review_required"
    /\ Resolve(j, HoldGeometry(j, "accepted"))

AcceptGeometryReview(j) ==
    /\ LocksFree
    /\ AwaitsGeometry(jobs[j])
    /\ jobs[j].review.image = jobs[j].image
    /\ <<j, jobs[j].image>> \notin refused
    /\ AcceptedSource(j) = jobs[j].review.source
    /\ Resolve(j, "accepted")

----------------------------------------------------------------------------
Verdicts == {"accepted", "rejected", "review_required"}

GenerateFor(j) == SkipBlocked(j) \/ BeginAttempt(j)

Publish == LinkAttempt \/ DescribeAttempt \/ RecordAttempt \/ LogAttempt

ReviewStep ==
    \/ \E j \in Jobs : SkipReview(j) \/ BeginReview(j)
    \/ \E d \in Verdicts : Decide(d)
    \/ LogReview

StudioFails == FailAttempt \/ StudioDies

ReviewFails == LoseService \/ LackReview \/ FailReview \/ ReviewerDies

Direct(j) == RejectImage(j) \/ AcceptOcrReview(j) \/ AcceptGeometryReview(j)

Next ==
    \/ StartGenerate \/ EndGenerate \/ Publish \/ StudioFails
    \/ StartReview \/ EndReview \/ ReviewStep \/ ReviewFails
    \/ \E j \in Jobs : GenerateFor(j) \/ Direct(j)

Spec == Init /\ [][Next]_vars

(* The supervisor starts the phases again and again, and each process runs *)
(* on until it is done; faults pass, which MaxFaults says.                 *)
Fairness ==
    /\ WF_vars(StartGenerate) /\ WF_vars(Publish)
    /\ WF_vars(StartReview) /\ WF_vars(ReviewStep)
    /\ WF_vars(EndGenerate) /\ WF_vars(EndReview)
    /\ \A j \in Jobs : SF_vars(GenerateFor(j)) /\ SF_vars(BeginReview(j))

FairSpec == Spec /\ Fairness

----------------------------------------------------------------------------
(* Properties.                                                             *)

States == Queued \cup Reviewable \cup {"generating", "generation_error",
              "reviewing", "accepted"}
Decisions == Verdicts \cup {"held"}
Recipes == {"initial", "retry", "observed", "recolor"}
Plans == [from : Nat, recipe : Recipes]
Reviews == [image : Nat, source : Nat, decision : Decisions]
Rows == [state : States, attempts : Nat, image : Nat,
         review : Reviews \cup {None}]

\* Types; a row's picture and the picture its review names are on disk.
TypeOK ==
    /\ jobs \in [Jobs -> Rows]
    /\ \A j \in Jobs :
          /\ DOMAIN files[j] \subseteq 1..jobs[j].attempts
          /\ \A n \in DOMAIN files[j] :
                files[j][n] \in [plan : Plans, by : {0}, told : BOOLEAN]
          /\ jobs[j].image \in Described(j) \cup {0}
          /\ jobs[j].review # None => jobs[j].review.image \in Described(j)
    /\ refused \subseteq Jobs \X Nat
    /\ failures \in [Jobs -> Nat]
    /\ lock["generation"] = (IF studio.at = "idle" THEN None ELSE "studio")
    /\ lock["review"] = (IF reviewer.at = "idle" THEN None ELSE "reviewer")
    /\ studio.at # "idle" => \A j \in DOMAIN studio.queue :
           studio.queue[j] \in Rows
    /\ reviewer.at # "idle" => \A j \in DOMAIN reviewer.queue :
           reviewer.queue[j] \in Rows

\* reject_image(): a picture people rejected is not accepted again, also when
\* a generator or a reviewer was at work or at rest over it.
RefusedIsNotAccepted ==
    \A j \in Jobs :
        jobs[j].state = "accepted" => <<j, jobs[j].image>> \notin refused

\* retry_allowed(): whatever is rejected, interrupted or repaired, a picture
\* is tried a bounded number of times from each source, or in all.
BudgetIsBounded ==
    \A j \in Jobs :
        /\ Source[j] = None => jobs[j].attempts <= MaxAttempts
        /\ Source[j] # None =>
               \A s \in {files[j][n].plan.from : n \in DOMAIN files[j]} :
                   Cardinality({n \in DOMAIN files[j] :
                                    files[j][n].plan.from = s}) <= MaxAttempts

Stale(j) ==
    /\ Source[j] # None
    /\ jobs[j].state = "accepted"
    /\ jobs[j].review.source # AcceptedSource(j)

\* requeue_changed_sources(): a variant accepted beside a source that is
\* rejected or replaced does not stay accepted, however often and at whatever
\* moment people reject the source.
StaleIsRequeued == \A j \in Jobs : Stale(j) ~> ~Stale(j)

\* review(): a picture that stands alone gets its decision, whoever died over
\* it, or its reviews failed too often.
RenderedIsReviewed ==
    \A j \in Jobs :
        Source[j] = None =>
            (jobs[j].state \in Reviewable \cup {"reviewing"}
                ~> \/ jobs[j].state \notin Reviewable \cup {"reviewing"}
                   \/ failures[j] >= ReviewWindow)

=============================================================================
