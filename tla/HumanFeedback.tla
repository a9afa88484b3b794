---------------------------- MODULE HumanFeedback ----------------------------
(***************************************************************************)
(* What people decide about a held picture, and how it reaches the ledger. *)
(* A person keeps a picture or asks for it to be redone; scripts prepare   *)
(* plans from the ledger without a lock, which a person reads, and apply   *)
(* them later under all locks: Keeps and their cleaned derivatives become  *)
(* acceptances, a correction replaces a job's request and its budget, a    *)
(* person's recipe is rendered, and two categories are registered for an   *)
(* audit of their own.  The generator and the reviewers run in between.    *)
(*                                                                         *)
(* One product row is followed, whose job recolors a source picture.       *)
(* Pictures are numbered as they are made; a row's review is the answer of *)
(* the automatic review, with the person's receipt where there is one.     *)
(***************************************************************************)
EXTENDS Naturals, FiniteSets, FiniteSetsExt

CONSTANTS
    Nothing,
    MaxTries,      \* attempts a source is worth (3 in the code)
    ExtraAttempts, \* what a correction or a category adds (2 in the code)
    Answers,       \* of the review page: keep, redo, none
    MaxPictures,   \* bound: pictures made
    MaxDecisions,  \* bound: choices saved by people
    MaxSources,    \* bound: revisions of the source picture
    MaxDeaths      \* bound: processes that die

ASSUME FeedbackBounds ==
    /\ {MaxTries, ExtraAttempts, MaxPictures, MaxDecisions, MaxSources,
        MaxDeaths} \subseteq Nat
    /\ MaxPictures > 0 /\ ExtraAttempts > 0

Pictures == 1..MaxPictures
Numbers == 1..MaxPictures + MaxDeaths + 1     \* numbers of attempts

States == {"pending", "generating", "interrupted", "generated",
           "generation_error", "reviewing", "accepted", "rejected"}
Reviews == [image : Pictures, clear : BOOLEAN, source : Nat,
            keep : {Nothing} \cup [of : Pictures, revision : Nat]]
Rows == [state : States, attempts : Numbers, image : Pictures,
         asks : {"before", "after"}, review : {Nothing} \cup Reviews]
Attempts == [image : Pictures, source : Nat,
             told : {"before", "after", "nothing", "cleanup", "execute"}]
Modes == {"generate", "edit", "reuse"}
Tickets == [active : BOOLEAN, row : Rows, mode : Modes]

ASSUME NothingIsNothingElse ==
    /\ Nothing \notin Nat /\ Nothing \notin Attempts
    /\ Nothing \notin Reviews /\ Nothing \notin Tickets

VARIABLES
    profile,    \* what kind of product this is
    row,        \* the job: [state, attempts, image, asks, review]
    files,      \* files[n]: the n-th attempt, [image, told, source] or Nothing
    decisions,  \* decisions[i]: [choice, revision] of the person on picture i
    keeps,      \* every <<picture, revision>> at which a Keep was saved
    source,     \* the accepted source picture, counted
    ticket,     \* the job's correction, or Nothing
    category,   \* the job's category entry, or Nothing
    verdicts,   \* verdicts[i]: what the category audit said of picture i
    draft,      \* the plan that waits on disk, or Nothing; one at a time
    maker,      \* the generator, which holds the generation lock
    critic,     \* the reviewer or the auditor, who holds the review lock
    clerk,      \* the script that applies a plan, which holds both
    made,
    deaths

ledger == <<row, files, ticket, category, verdicts>>
people == <<decisions, keeps, source>>
feedbackVars == <<profile, ledger, people, draft, maker, critic, clerk, made, deaths>>

Categories == {"monitor-riser", "shoe-bench"}
(* review_required is treated as rejected by every script here.            *)
Held == {"rejected"}
Queueable == Held \cup {"pending", "interrupted"}
Idle == [at |-> "idle"]

(* Attempt 1 was reviewed and held.                                        *)
FeedbackInit ==
    /\ profile \in Categories \cup {"other"}
    /\ \E state \in Held, clear \in BOOLEAN :
          row = [state |-> state, attempts |-> 1, image |-> 1,
                 asks |-> "before",
                 review |-> [image |-> 1, clear |-> clear, source |-> 1,
                             keep |-> Nothing]]
    /\ files = [n \in Numbers |->
                  IF n = 1 THEN [image |-> 1, told |-> "before", source |-> 1]
                  ELSE Nothing]
    /\ decisions = [i \in Pictures |-> [choice |-> "none", revision |-> 0]]
    /\ keeps = {}
    /\ source = 1
    /\ ticket = Nothing
    /\ category = Nothing
    /\ verdicts = [i \in Pictures |-> "none"]
    /\ draft = Nothing
    /\ maker = Idle
    /\ critic = Idle
    /\ clerk = Idle
    /\ made = 1
    /\ deaths = 0

----------------------------------------------------------------------------
(* The person at the review page.  A choice needs the picture to be the    *)
(* row's and the row to be held; taking a choice back needs neither.       *)

MaySave == MapThenSumSet(LAMBDA i : decisions[i].revision, Pictures) < MaxDecisions

Save(i, choice) ==
    /\ MaySave
    /\ choice # "none" => row.image = i /\ row.state \in Held
    /\ decisions[i].choice # choice
    /\ LET next == decisions[i].revision + 1 IN
       /\ decisions' = [decisions EXCEPT ![i] = [choice |-> choice, revision |-> next]]
       /\ keeps' = IF choice = "keep" THEN keeps \cup {<<i, next>>} ELSE keeps
    /\ UNCHANGED <<profile, ledger, source, draft, maker, critic, clerk, made, deaths>>

(* The source picture is repaired, and the new one accepted.               *)
RepairSource ==
    /\ source < MaxSources
    /\ source' = source + 1
    /\ UNCHANGED <<profile, ledger, decisions, keeps, draft, maker, critic,
                   clerk, made, deaths>>

----------------------------------------------------------------------------
(* What the live decisions say of a row.                                   *)

(* A cleaned derivative is protected by the Keep of its original.          *)
KeptPicture(r) ==
    IF r.review # Nothing /\ r.review.keep # Nothing THEN r.review.keep.of ELSE r.image

IsKept(r) == decisions[KeptPicture(r)].choice = "keep"

(* A receipt is as good as the decision it names, at its revision.         *)
Valid(image, review) ==
    /\ review.keep # Nothing
    /\ review.image = image
    /\ review.clear
    /\ decisions[review.keep.of] =
          [choice |-> "keep", revision |-> review.keep.revision]

Standing(r) == r.state = "accepted" /\ Valid(r.image, r.review)

(* A corrected construction is rendered afresh and has no source.          *)
Recolors(r) == r.asks = "before" \/ ticket.mode # "generate"
SourceIs(r, review) == Recolors(r) => review.source = source

Receipt(r) ==
    [r.review EXCEPT !.keep = [of |-> r.image,
                               revision |-> decisions[r.image].revision]]

(* What the reconciliation of Keeps finds in the ledger.                   *)
Reconcilable(r) ==
    /\ decisions[r.image].choice = "keep"
    /\ r.state \in Held
    /\ r.review.clear
    /\ SourceIs(r, r.review)

----------------------------------------------------------------------------
(* The generator.                                                          *)

Registered == category # Nothing

CategoryAllows(r) ==
    /\ r.state \in Queueable
    /\ r.attempts \in category.attempts..category.attempts + ExtraAttempts - 1
    /\ verdicts[r.image] # "none"

Active == ticket # Nothing /\ ticket.active
Baseline == ticket.row.attempts
Budget == IF ticket.mode = "reuse" THEN 1 ELSE ExtraAttempts
ExhaustedLate(r) == r.attempts \notin Baseline..Baseline + Budget
Exhausted(r) == r.attempts \notin Baseline..Baseline + Budget - 1

(* Every attempt since the activation has to be the correction's own, or   *)
(* the whole run of the generator stops with an error.                     *)
Explained(r) ==
    /\ r.asks = "after"
    /\ r.attempts = Baseline => r.image = ticket.row.image
    /\ \A n \in Baseline + 1..r.attempts :
          files[n] # Nothing /\ files[n].told = "after"

OrdinaryAllows(r) ==
    \/ r.attempts < MaxTries
    \/ /\ \A n \in 1..r.attempts : files[n] # Nothing /\ files[n].told # "nothing"
       /\ Cardinality({n \in 1..r.attempts : files[n].source = source}) < MaxTries

(* The prompt of the next attempt: its own, a skipped row, or an error.    *)
Input(r) ==
    IF IsKept(r) THEN "skip"
    ELSE IF Registered THEN IF CategoryAllows(r) THEN "before" ELSE "skip"
    ELSE IF ~Active
    THEN IF OrdinaryAllows(r) THEN "before" ELSE "skip"
    ELSE IF Exhausted(r) THEN IF r.asks = "after" THEN "skip" ELSE "error"
    ELSE IF ~Explained(r) THEN "error"
    ELSE IF ticket.mode = "reuse" THEN "skip" ELSE "after"

BesideOtherSource(r) ==
    r.state = "accepted" /\ Recolors(r) /\ r.review.source # source
SourceChanged(r) ==
    /\ r.state = "accepted"
    /\ r.review.keep = Nothing
    /\ Recolors(r)
    /\ r.review.source # source
    /\ ~IsKept(r)

(* Under the lock, what a dead generator left is interrupted and a picture *)
(* beside a changed source is queued; the queue keeps the rows as read.    *)
StartGenerate ==
    /\ maker = Idle
    /\ clerk = Idle
    /\ row' = IF row.state = "generating"
              THEN [row EXCEPT !.state = "interrupted"]
              ELSE IF SourceChanged(row) THEN [row EXCEPT !.state = "rejected"]
              ELSE row
    /\ row'.state \in Queueable
    /\ maker' = [at |-> "queued", row |-> row']
    /\ UNCHANGED <<profile, files, ticket, category, verdicts, people, draft,
                   critic, clerk, made, deaths>>

PlanAttempt ==
    /\ maker.at = "queued"
    /\ LET told == Input(maker.row) IN
       maker' = IF told \in {"skip", "error"} THEN Idle
                ELSE [at |-> "planned", row |-> maker.row, told |-> told,
                      source |-> source]
    /\ UNCHANGED <<profile, ledger, people, draft, critic, clerk, made, deaths>>

Next1(r) == r.attempts + 1
Free(n) == files[n] = Nothing

(* The model is loaded before the attempt is entered, by job and whatever  *)
(* the row has become meanwhile.                                           *)
BeginAttempt ==
    /\ maker.at = "planned"
    /\ made < MaxPictures
    /\ IF Free(Next1(maker.row))
       THEN /\ row' = [row EXCEPT !.state = "generating",
                                  !.attempts = Next1(maker.row)]
            /\ maker' = [maker EXCEPT !.at = "rendering"]
       ELSE maker' = Idle /\ UNCHANGED row
    /\ UNCHANGED <<profile, files, ticket, category, verdicts, people, draft,
                   critic, clerk, made, deaths>>

File(n, told, from) ==
    /\ files' = [files EXCEPT ![n] = [image |-> made + 1, told |-> told, source |-> from]]
    /\ made' = made + 1

LinkAttempt ==
    /\ maker.at = "rendering"
    /\ made < MaxPictures
    /\ File(Next1(maker.row), maker.told, maker.source)
    /\ maker' = [maker EXCEPT !.at = "linked"]
    /\ UNCHANGED <<profile, row, ticket, category, verdicts, people, draft,
                   critic, clerk, deaths>>

RecordAttempt ==
    /\ maker.at = "linked"
    /\ row' = [row EXCEPT !.state = "generated", !.review = Nothing,
                          !.image = files[Next1(maker.row)].image]
    /\ maker' = Idle
    /\ UNCHANGED <<profile, files, ticket, category, verdicts, people, draft,
                   critic, clerk, made, deaths>>

(* Rendering fails, and the error is entered.                              *)
FailAttempt ==
    /\ maker.at = "rendering"
    /\ deaths < MaxDeaths
    /\ deaths' = deaths + 1
    /\ row' = [row EXCEPT !.state = "generation_error"]
    /\ maker' = Idle
    /\ UNCHANGED <<profile, files, ticket, category, verdicts, people, draft,
                   critic, clerk, made>>

(* Dead after the picture was linked and before it was described, too.     *)
MakerDies ==
    /\ maker.at \in {"planned", "rendering", "linked"}
    /\ deaths < MaxDeaths
    /\ deaths' = deaths + 1
    /\ \/ UNCHANGED <<files, made>>
       \/ /\ maker.at = "rendering"
          /\ made < MaxPictures
          /\ File(Next1(maker.row), "nothing", maker.source)
    /\ maker' = Idle
    /\ UNCHANGED <<profile, row, ticket, category, verdicts, people, draft,
                   critic, clerk>>

----------------------------------------------------------------------------
(* The reviewer and the auditor of categories, one at a time.              *)

StartReview ==
    /\ critic = Idle
    /\ clerk = Idle
    /\ row.state \in {"generated", "reviewing"}
    /\ row' = [row EXCEPT !.state = "reviewing"]
    /\ critic' = [at |-> "looking"]
    /\ UNCHANGED <<profile, files, ticket, category, verdicts, people, draft,
                   maker, clerk, made, deaths>>

EndReview(verdict, clear) ==
    /\ critic.at = "looking"
    /\ verdict = "accepted" => clear
    /\ row' = [row EXCEPT !.state = verdict,
                          !.review = [image |-> row.image, clear |-> clear,
                                      source |-> source, keep |-> Nothing]]
    /\ critic' = Idle
    /\ UNCHANGED <<profile, files, ticket, category, verdicts, people, draft,
                   maker, clerk, made, deaths>>

Bench == profile = "shoe-bench"
Goes(place) == critic' = [at |-> place, row |-> row]

(* Keeps are reconciled first: of a bench always, of a riser once the      *)
(* audit has passed it.                                                    *)
StartAudit ==
    /\ critic = Idle
    /\ clerk = Idle
    /\ Registered
    /\ IF Reconcilable(row) /\ (Bench \/ verdicts[row.image] = "pass")
       THEN Goes("keeping")
       ELSE /\ row.state \in {"accepted", "rejected", "pending"}
            /\ verdicts[row.image] = "none"
            /\ Goes("inspecting")
    /\ UNCHANGED <<profile, ledger, people, draft, maker, clerk, made, deaths>>

(* The acceptance is conditional on the row as it was read.                *)
Unmoved ==
    /\ row.state = critic.row.state
    /\ row.image = critic.row.image
    /\ row.review = critic.row.review

AuditKeeps ==
    /\ critic.at = "keeping"
    /\ row' = IF Unmoved /\ Valid(row.image, Receipt(row))
              THEN [row EXCEPT !.state = "accepted", !.review = Receipt(row)]
              ELSE row
    /\ critic' = Idle
    /\ UNCHANGED <<profile, files, ticket, category, verdicts, people, draft,
                   maker, clerk, made, deaths>>

(* One transaction, which gives way when the row changed.                  *)
EndAudit(verdict) ==
    /\ critic.at = "inspecting"
    /\ LET kept == Bench /\ IsKept(row) IN
       IF row # critic.row
       THEN critic' = Idle /\ UNCHANGED <<row, verdicts>>
       ELSE /\ verdicts' = [verdicts EXCEPT ![row.image] = verdict]
            /\ row' = IF verdict = "fail" /\ ~kept
                      THEN [row EXCEPT !.state = "rejected"] ELSE row
            /\ critic' = IF kept /\ Reconcilable(row)
                         THEN [at |-> "keeping", row |-> row] ELSE Idle
    /\ UNCHANGED <<profile, files, ticket, category, people, draft, maker,
                   clerk, made, deaths>>

CriticDies ==
    /\ critic # Idle
    /\ deaths < MaxDeaths
    /\ deaths' = deaths + 1
    /\ critic' = Idle
    /\ UNCHANGED <<profile, ledger, people, draft, maker, clerk, made>>

----------------------------------------------------------------------------
(* Drafts are prepared without a lock.                                     *)

Draft(plan) ==
    /\ draft' = plan
    /\ UNCHANGED <<profile, ledger, people, maker, critic, clerk, deaths>>

PrepareKeep ==
    /\ Reconcilable(row)
    /\ Draft([kind |-> "keep", row |-> row, review |-> Receipt(row)])
    /\ UNCHANGED made

(* A derivative without annotations was made of the kept picture.          *)
PrepareCleanup ==
    /\ made < MaxPictures
    /\ row.state \in Held
    /\ decisions[row.image].choice = "keep"
    /\ made' = made + 1
    /\ Draft([kind |-> "cleanup", row |-> row, image |-> made + 1,
              review |-> [Receipt(row) EXCEPT !.image = made + 1, !.clear = TRUE,
                                              !.source = source]])

(* The choices of people on other products are evidence, too.              *)
PrepareCorrection(mode) ==
    /\ profile = "other"
    /\ row.state \in Queueable
    /\ decisions[row.image].choice # "keep"
    /\ Draft([kind |-> "correct", row |-> row, mode |-> mode,
              direct |-> decisions[row.image]])
    /\ UNCHANGED made

----------------------------------------------------------------------------
(* Applying a plan: everything it was made from is compared, under all     *)
(* locks; its directory is made; and the ledger changes in one transaction.*)

LocksFree == maker = Idle /\ critic = Idle /\ clerk = Idle

AdmitsLiveKeep(p) ==
    row.state \in Held /\ decisions[p.row.image].choice = "keep"
AdmitsKeep(p) ==
    /\ row.state = p.row.state /\ row.review = p.row.review
    /\ row.image = p.row.image /\ row.asks = p.row.asks
    /\ Valid(row.image, p.review)
    /\ SourceIs(row, p.review)

AdmitsCleanup(p) ==
    /\ row = p.row
    /\ Valid(p.image, p.review)
    /\ SourceIs(row, p.review)
    /\ Free(Next1(row))

AdmitsCorrection(p) ==
    /\ row.state = p.row.state /\ row.attempts = p.row.attempts
    /\ row.image = p.row.image /\ row.asks = p.row.asks
    /\ decisions[row.image].choice # "keep"
    /\ p.direct.choice # "none" => decisions[row.image] = p.direct
    /\ ticket = Nothing

Admits(p) ==
    CASE p.kind = "keep" -> AdmitsKeep(p)
      [] p.kind = "cleanup" -> AdmitsCleanup(p)
      [] p.kind = "correct" -> AdmitsCorrection(p)

Takes(p) == clerk' = [at |-> p.kind, plan |-> p, filed |-> FALSE]

StartApply ==
    /\ LocksFree
    /\ draft # Nothing
    /\ Admits(draft)
    /\ Takes(draft)
    /\ draft' = Nothing
    /\ UNCHANGED <<profile, ledger, people, maker, critic, made, deaths>>

(* A person's recipe for the picture of a held row, and the registration   *)
(* of a category.  Both are refused when the row has moved on meanwhile,   *)
(* so the plans that matter are of the row as it is.                       *)
StartRecipe ==
    /\ LocksFree
    /\ row.state \in Held
    /\ Takes([kind |-> "execute"])
    /\ UNCHANGED <<profile, ledger, people, draft, maker, critic, made, deaths>>

StartCategory ==
    /\ LocksFree
    /\ profile \in Categories
    /\ ~Registered
    /\ Takes([kind |-> "category"])
    /\ UNCHANGED <<profile, ledger, people, draft, maker, critic, made, deaths>>

(* Which plans bring a picture of their own, and what its metadata says.   *)
Brings ==
    \/ clerk.at \in {"cleanup", "execute"}
    \/ clerk.at = "correct" /\ clerk.plan.mode = "reuse"
Told == IF clerk.at = "correct" THEN "after" ELSE clerk.at

(* Where there is a file already, the script stops.                        *)
FileAttempt ==
    /\ clerk # Idle
    /\ Brings
    /\ ~clerk.filed
    /\ IF Free(Next1(row))
       THEN /\ IF clerk.at = "cleanup"
               THEN /\ files' = [files EXCEPT ![Next1(row)] =
                          [image |-> clerk.plan.image, told |-> Told,
                           source |-> clerk.plan.review.source]]
                    /\ UNCHANGED made
               ELSE made < MaxPictures /\ File(Next1(row), Told, source)
            /\ clerk' = [clerk EXCEPT !.filed = TRUE]
       ELSE clerk' = Idle /\ UNCHANGED <<files, made>>
    /\ UNCHANGED <<profile, row, ticket, category, verdicts, people, draft,
                   maker, critic, deaths>>

Commits(kind) == clerk.at = kind /\ (Brings => clerk.filed) /\ clerk' = Idle

Filed(state, review) ==
    [row EXCEPT !.state = state, !.review = review, !.attempts = @ + 1,
                !.image = files[row.attempts + 1].image]

CommitKeep ==
    /\ Commits("keep")
    /\ row' = [row EXCEPT !.state = "accepted", !.review = clerk.plan.review]
    /\ UNCHANGED <<profile, files, ticket, category, verdicts, people, draft,
                   maker, critic, made, deaths>>

CommitCleanup ==
    /\ Commits("cleanup")
    /\ row' = Filed("accepted", clerk.plan.review)
    /\ UNCHANGED <<profile, files, ticket, category, verdicts, people, draft,
                   maker, critic, made, deaths>>

CommitRecipe ==
    /\ Commits("execute")
    /\ row' = Filed("generated", Nothing)
    /\ UNCHANGED <<profile, files, ticket, category, verdicts, people, draft,
                   maker, critic, made, deaths>>

(* The row and its budget change together.                                 *)
CommitCorrection ==
    /\ Commits("correct")
    /\ ticket' = [active |-> TRUE, row |-> row, mode |-> clerk.plan.mode]
    /\ row' = [IF Brings THEN Filed("generated", Nothing)
               ELSE [row EXCEPT !.state = "pending", !.review = Nothing]
               EXCEPT !.asks = "after"]
    /\ UNCHANGED <<profile, files, category, verdicts, people, draft, maker,
                   critic, made, deaths>>

CommitCategory ==
    /\ Commits("category")
    /\ category' = [attempts |-> row.attempts]
    /\ UNCHANGED <<profile, row, files, ticket, verdicts, people, draft,
                   maker, critic, made, deaths>>

ClerkDies ==
    /\ clerk # Idle
    /\ deaths < MaxDeaths
    /\ deaths' = deaths + 1
    /\ clerk' = Idle
    /\ UNCHANGED <<profile, ledger, people, draft, maker, critic, made>>

(* Only a correction that nothing has begun is undone.                     *)
Untouched ==
    /\ row.state = "pending" /\ row.asks = "after"
    /\ row.attempts = ticket.row.attempts
    /\ row.image = ticket.row.image

Restored ==
    [row EXCEPT !.state = ticket.row.state, !.review = ticket.row.review,
                !.asks = "before"]

RollBack ==
    /\ LocksFree
    /\ ticket # Nothing
    /\ Untouched
    /\ row' = Restored
    /\ ticket' = [ticket EXCEPT !.active = FALSE]
    /\ UNCHANGED <<profile, files, category, verdicts, people, draft, maker,
                   critic, clerk, made, deaths>>

----------------------------------------------------------------------------
Generate ==
    \/ StartGenerate \/ PlanAttempt \/ BeginAttempt \/ LinkAttempt
    \/ RecordAttempt \/ FailAttempt \/ MakerDies
Review ==
    \/ StartReview \/ StartAudit \/ AuditKeeps \/ CriticDies
    \/ \E verdict \in Held \cup {"accepted"}, clear \in BOOLEAN : EndReview(verdict, clear)
    \/ \E verdict \in {"pass", "fail"} : EndAudit(verdict)
Prepare ==
    \/ PrepareKeep \/ PrepareCleanup
    \/ \E mode \in Modes : PrepareCorrection(mode)
Apply ==
    \/ StartApply \/ StartRecipe \/ StartCategory
    \/ FileAttempt \/ CommitKeep \/ CommitCleanup \/ CommitRecipe
    \/ CommitCorrection \/ CommitCategory \/ ClerkDies \/ RollBack

FeedbackNext ==
    \/ \E i \in 1..made, choice \in Answers : Save(i, choice)
    \/ RepairSource
    \/ Generate \/ Review \/ Prepare \/ Apply

FeedbackSpec == FeedbackInit /\ [][FeedbackNext]_feedbackVars

----------------------------------------------------------------------------
(* Properties.                                                             *)

(* "At most two new attempts": no order of activations, rollbacks, deaths  *)
(* and other corrections renders a corrected request more often.           *)
CorrectedWithinBudget ==
    Cardinality({n \in Numbers : files[n] # Nothing /\ files[n].told = "after"})
        <= IF ticket = Nothing THEN 1 ELSE Budget

(* An acceptance is of the newest attempt, and one by a person is of what  *)
(* that person kept at that revision, or of what was cleaned out of it.    *)
AcceptedIsWhatWasSeen ==
    row.state = "accepted" =>
        /\ row.review.image = row.image
        /\ files[row.attempts] # Nothing
        /\ files[row.attempts].image = row.image
        /\ row.review.keep # Nothing =>
              /\ <<row.review.keep.of, row.review.keep.revision>> \in keeps
              /\ row.review.keep.of # row.image =>
                    files[row.attempts].told = "cleanup"

(* A standing Keep is ended by people only: not by a changed source, a     *)
(* plan made before it, or the audit of a bench.  The audit of risers may, *)
(* and a generator that had planned the row already.                       *)
KeepsStand ==
    [][(Standing(row) /\ maker.at \notin {"planned", "queued"}
            /\ profile # "monitor-riser")
       => row' = row]_feedbackVars

=============================================================================
