---------------------------- MODULE ImageProofs ----------------------------
(***************************************************************************)
(* The image ledger on its own, then with batches at remote workers.       *)
(*                                                                         *)
(* For any number of jobs, attempts, deaths and refusals: the ledger keeps *)
(* its types, every picture it names is on disk with its metadata, a       *)
(* picture people rejected is not accepted again, and every picture is     *)
(* tried a bounded number of times.                                        *)
(*                                                                         *)
(* The argument: people reject only while neither process runs (Locked),   *)
(* so during a review the refused pictures stay the same.  A reviewer      *)
(* therefore decides on a row whose picture is not refused, however old    *)
(* its queue is, as long as it was not refused when the queue was read     *)
(* (Unrefused) and the generator only ever puts a new picture in its place *)
(* (AtWork): one whose number no file, and so no refusal, has.             *)
(*                                                                         *)
(* The budget counts metadata, which an attempt that died lacks, so it may *)
(* fall short of the pictures on disk; but pictures are never more than    *)
(* attempts, so metadata as many as the attempts tells of every picture    *)
(* (FilesAreFew), and a plan leaves room for the picture it leads to       *)
(* (BudgetLeft).                                                           *)
(*                                                                         *)
(* For any number of workers, batches and cancellations besides: no        *)
(* picture on disk is replaced, and a job that is out at a worker stays    *)
(* out until its own batch ends.                                           *)
(*                                                                         *)
(* The argument: whoever imports has the generator's lock (ImportsLocked), *)
(* under which no batch is reserved or cancelled, so the batch in hand     *)
(* stays reserved and its jobs stay its own (Importing).  The generator    *)
(* has the same lock while it has a queue, and reads no reserved job into  *)
(* it, so what it records is never a job that is out (NotOut).  The rest   *)
(* says what the records are made of.                                      *)
(*                                                                         *)
(* And for any number of them the ledger's own promises hold: a picture    *)
(* people rejected is not accepted again, and the budget is kept.          *)
(*                                                                         *)
(* The argument: people reject no more than was attempted (RefusedOld),    *)
(* and attempts are counted under the generator's lock alone, so whoever   *)
(* has it, the generator or an import, puts in a picture whose number no   *)
(* refusal has (NewPicture, NewImport).  Pictures may be ahead of the      *)
(* attempts, but by one at most, which an abandoned import leaves behind   *)
(* (FewPictures).  An import plans its jobs again once it has the lock, so *)
(* the room there was when they went out need not last (ImportRoom).       *)
(***************************************************************************)
EXTENDS RemoteBatch, FiniteSetTheorems, TLAPS

Files == [plan : Plans, by : {0}, told : BOOLEAN]
Queues == UNION {[D -> Rows] : D \in SUBSET Jobs}
ForReview == Reviewable \cup {"reviewing"}

RowsTyped == jobs \in [Jobs -> Rows] /\ failures \in [Jobs -> Nat]

FilesTyped ==
    /\ DOMAIN files = Jobs
    /\ \A j \in Jobs :
          /\ DOMAIN files[j] \subseteq 1..jobs[j].attempts
          /\ \A n \in DOMAIN files[j] : files[j][n] \in Files

\* What a row names is on disk, with its metadata.
Named ==
    \A j \in Jobs :
        /\ jobs[j].image \in Described(j) \cup {0}
        /\ jobs[j].review # None => jobs[j].review.image \in Described(j)
        /\ jobs[j].state \in ForReview => jobs[j].image \in Described(j)
        /\ jobs[j].state = "review_required" =>
               jobs[j].review \in Reviews /\ jobs[j].review.image \in Described(j)

RefusedOnDisk ==
    /\ refused \subseteq Jobs \X Nat
    /\ \A j \in Jobs, n \in Nat : <<j, n>> \in refused => n \in DOMAIN files[j]

\* Neither what waits for a review nor what passed one is refused.
Unrefused ==
    \A j \in Jobs : jobs[j].state \in ForReview \cup {"accepted"}
        => <<j, jobs[j].image>> \notin refused

Locked ==
    /\ lock \in [{"generation", "review"} -> {None, "studio", "reviewer"}]
    /\ lock["generation"] = (IF studio.at = "idle" THEN None ELSE "studio")
    /\ lock["review"] = (IF reviewer.at = "idle" THEN None ELSE "reviewer")

StudioTyped ==
    \/ studio = Idle
    \/ studio \in [at : {"next", "render", "describe", "record", "log"},
                   job : Jobs \cup {None}, plan : Plans \cup {None},
                   queue : Queues]

\* The generator's copies of the attempt counters are current, and the
\* picture under way has a number that was free.
AtWork ==
    studio.at # "idle" =>
        /\ \A j \in DOMAIN studio.queue : j # studio.job =>
               studio.queue[j].attempts = jobs[j].attempts
        /\ studio.at = "next" => studio.job = None
        /\ studio.at # "next" =>
               /\ studio.job \in DOMAIN studio.queue
               /\ studio.plan \in Plans
               /\ Attempt = jobs[studio.job].attempts
        /\ studio.at \in {"describe", "record"} =>
               /\ Attempt \in DOMAIN files[studio.job]
               /\ <<studio.job, Attempt>> \notin refused
        /\ studio.at = "record" => Attempt \in Described(studio.job)

ReviewerTyped ==
    \/ reviewer = Idle
    \/ reviewer \in [at : {"next", "inspect", "log"}, job : Jobs \cup {None},
                     source : Nat \cup {None}, errors : Nat, queue : Queues]

\* Whatever became of the rows since the queue was read, none names a refused
\* picture.
UnderReview ==
    reviewer.at # "idle" =>
        /\ \A j \in DOMAIN reviewer.queue :
               /\ reviewer.queue[j].image \in Described(j)
               /\ jobs[j].image \in Described(j)
               /\ <<j, jobs[j].image>> \notin refused
        /\ reviewer.at # "next" =>
               /\ reviewer.job \in DOMAIN reviewer.queue
               /\ reviewer.source \in Nat

IInv ==
    /\ RowsTyped /\ FilesTyped /\ Named /\ RefusedOnDisk /\ Unrefused
    /\ Locked /\ StudioTyped /\ AtWork /\ ReviewerTyped /\ UnderReview

\* How a queue of rows grows shorter.
LEMMA QueueShrinks ==
    ASSUME NEW q \in Queues
    PROVE  /\ DOMAIN q \subseteq Jobs
           /\ \A j \in DOMAIN q : q[j] \in Rows
           /\ \A j : /\ Without(q, j) \in Queues
                     /\ DOMAIN Without(q, j) = DOMAIN q \ {j}
                     /\ \A i \in DOMAIN q \ {j} : Without(q, j)[i] = q[i]
  <1>1. PICK D \in SUBSET Jobs : q \in [D -> Rows]
    BY DEF Queues
  <1>2. ASSUME NEW j
        PROVE  Without(q, j) \in [D \ {j} -> Rows]
    BY <1>1 DEF Without
  <1>3. \A j : Without(q, j) \in Queues
    BY <1>2 DEF Queues
  <1> QED
    BY <1>1, <1>3 DEF Without

LEMMA QueueOfRows ==
    ASSUME NEW S \in SUBSET Jobs, NEW rows \in [Jobs -> Rows]
    PROVE  [j \in S |-> rows[j]] \in Queues
  BY DEF Queues

\* A source is a picture's number, as is what a plan starts from.
LEMMA PlanTyped ==
    ASSUME RowsTyped, NEW j \in Jobs, NEW row \in Rows
    PROVE  /\ AcceptedSource(j) \in Nat \cup {None}
           /\ Plan(j, row) \in Plans \cup {None}
  <1>1. AcceptedSource(j) \in Nat \cup {None}
    BY SourcesStandAlone DEF AcceptedSource, RowsTyped, Rows
  <1>2. row.image \in Nat
    BY DEF Rows
  <1> QED
    BY <1>1, <1>2 DEF Plan, Plans, Recipes

LEMMA InitIInv == Init => IInv
  <1> SUFFICES ASSUME Init PROVE IInv
    OBVIOUS
  <1>1. RowsTyped
    BY DEF Init, RowsTyped, Rows, States, Queued
  <1>2. FilesTyped /\ Named /\ Unrefused /\ RefusedOnDisk
    BY NoneIsNothing DEF Init, FilesTyped, Named, Unrefused, RefusedOnDisk, ForReview, Reviewable
  <1>3. Locked
    BY DEF Init, Locked, Idle
  <1>4. StudioTyped /\ AtWork /\ ReviewerTyped /\ UnderReview
    BY DEF Init, StudioTyped, AtWork, ReviewerTyped, UnderReview, Idle
  <1> QED
    BY <1>1, <1>2, <1>3, <1>4 DEF IInv

-----------------------------------------------------------------------------
(* Steps of the generator.                                                 *)

\* The generator ends, between two pictures, with an error or by dying.
LEMMA StudioEndsIInv ==
    ASSUME IInv, StudioEnds, UNCHANGED <<ledger, reviewer>>
    PROVE  IInv'
  <1>1. RowsTyped' /\ FilesTyped' /\ Named' /\ RefusedOnDisk' /\ Unrefused'
    BY DEF IInv, ledger, RowsTyped, FilesTyped, Named, RefusedOnDisk,
           Unrefused, Described
  <1>2. Locked' /\ StudioTyped' /\ AtWork'
    BY DEF IInv, StudioEnds, Idle, Locked, StudioTyped, AtWork
  <1>3. ReviewerTyped' /\ UnderReview'
    BY DEF IInv, ledger, ReviewerTyped, UnderReview, Described
  <1> QED
    BY <1>1, <1>2, <1>3 DEF IInv

\* The generator goes on to the next row of its queue.
LEMMA NextRowIInv ==
    ASSUME IInv, NEW j, UNCHANGED <<ledger, lock, reviewer>>,
           studio.at # "idle", studio.job \in {None, j},
           studio' \in [at : {"next"}, job : {None}, plan : Plans \cup {None},
                        queue : {Without(studio.queue, j)}]
    PROVE  IInv'
  <1>1. RowsTyped' /\ FilesTyped' /\ Named' /\ RefusedOnDisk' /\ Unrefused'
    BY DEF IInv, ledger, RowsTyped, FilesTyped, Named, RefusedOnDisk,
           Unrefused, Described
  <1>2. studio.queue \in Queues
    BY DEF IInv, StudioTyped, Idle
  <1>3. StudioTyped'
    <2>1. Without(studio.queue, j) \in Queues
      BY <1>2, QueueShrinks
    <2> QED
      BY <1>2, <2>1 DEF StudioTyped
  <1>4. Locked'
    BY <1>2 DEF IInv, Locked
  <1>5. AtWork'
    <2>1. \A i \in DOMAIN studio'.queue :
              /\ i \in DOMAIN studio.queue /\ i \in Jobs /\ i # j
              /\ studio'.queue[i] = studio.queue[i]
      <3>1. studio'.queue = Without(studio.queue, j)
        BY <1>2
      <3>2. /\ DOMAIN studio.queue \subseteq Jobs
            /\ DOMAIN Without(studio.queue, j) = DOMAIN studio.queue \ {j}
            /\ \A i \in DOMAIN studio.queue \ {j} :
                   Without(studio.queue, j)[i] = studio.queue[i]
        BY <1>2, QueueShrinks
      <3> QED
        BY <3>1, <3>2
    <2>2. \A i \in DOMAIN studio'.queue : i # studio.job
      BY <2>1, NoneIsNothing
    <2> QED
      BY <1>2, <2>1, <2>2 DEF IInv, AtWork, ledger
  <1>6. ReviewerTyped' /\ UnderReview'
    BY DEF IInv, ledger, ReviewerTyped, UnderReview, Described
  <1> QED
    BY <1>1, <1>3, <1>4, <1>5, <1>6 DEF IInv

\* Taking over and queueing again changes states alone.
LEMMA StartGenerateIInv == IInv /\ StartGenerate => IInv'
  <1> SUFFICES ASSUME IInv, StartGenerate PROVE IInv'
    OBVIOUS
  <1>1. /\ DOMAIN jobs' = Jobs
        /\ \A j \in Jobs :
              /\ jobs'[j] \in Rows
              /\ jobs'[j].attempts = jobs[j].attempts
              /\ jobs'[j].image = jobs[j].image
              /\ jobs'[j].review = jobs[j].review
              /\ \/ jobs'[j].state = jobs[j].state
                 \/ jobs'[j].state \in {"interrupted", "rejected"}
    BY DEF IInv, RowsTyped, StartGenerate, Rows, States, Queued
  <1>2. RowsTyped'
    <2>1. jobs' \in [Jobs -> Rows]
      BY <1>1 DEF StartGenerate
    <2> QED
      BY <2>1 DEF IInv, RowsTyped, StartGenerate
  <1>3. FilesTyped' /\ Named' /\ RefusedOnDisk' /\ Unrefused'
    BY <1>1 DEF IInv, StartGenerate, FilesTyped, Named, RefusedOnDisk,
           Unrefused, Described, ForReview, Reviewable
  <1>4. /\ studio' = [at |-> "next", job |-> None, plan |-> None,
                      queue |-> studio'.queue]
        /\ studio'.queue \in Queues
        /\ \A j \in DOMAIN studio'.queue : studio'.queue[j] = jobs'[j]
    <2> DEFINE S == {i \in Jobs : jobs'[i].state \in Queued}
    <2>1. studio' = [at |-> "next", job |-> None, plan |-> None,
                     queue |-> [j \in S |-> jobs'[j]]]
      BY DEF StartGenerate
    <2>2. [j \in S |-> jobs'[j]] \in Queues
      <3>1. jobs' \in [Jobs -> Rows] /\ S \in SUBSET Jobs
        BY <1>2 DEF RowsTyped
      <3> HIDE DEF S
      <3> QED
        BY <3>1, QueueOfRows
    <2> HIDE DEF S
    <2> QED
      BY <2>1, <2>2
  <1>5. Locked'
    BY <1>4 DEF IInv, Locked, StartGenerate
  <1>6. StudioTyped' /\ AtWork'
    BY <1>4 DEF StudioTyped, AtWork
  <1>7. ReviewerTyped' /\ UnderReview'
    <2>1. \A j \in DOMAIN reviewer.queue : reviewer.at # "idle" => j \in Jobs
      BY QueueShrinks DEF IInv, ReviewerTyped, Idle
    <2> QED
      BY <1>1, <2>1 DEF IInv, StartGenerate, ReviewerTyped, UnderReview, Described
  <1> QED
    BY <1>2, <1>3, <1>5, <1>6, <1>7 DEF IInv

LEMMA BeginAttemptIInv ==
    ASSUME IInv, NEW j \in Jobs, BeginAttempt(j)
    PROVE  IInv'
  <1>1. /\ studio.at = "next" /\ studio.job = None
        /\ studio.queue \in Queues /\ j \in DOMAIN studio.queue
        /\ studio.queue[j] \in Rows
        /\ studio.queue[j].attempts = jobs[j].attempts
    BY QueueShrinks, NoneIsNothing DEF BeginAttempt, IInv, StudioTyped, Idle, AtWork
  <1>2. /\ DOMAIN jobs' = Jobs
        /\ jobs'[j] \in Rows
        /\ jobs'[j].state = "generating"
        /\ jobs'[j].attempts = NextAttempt(j)
        /\ jobs'[j].image = jobs[j].image
        /\ jobs'[j].review = jobs[j].review
        /\ \A i \in Jobs \ {j} : jobs'[i] = jobs[i]
    BY <1>1 DEF BeginAttempt, IInv, RowsTyped, Rows, States, NextAttempt
  <1>3. NextAttempt(j) = jobs[j].attempts + 1 /\ jobs[j].attempts \in Nat
    BY <1>1 DEF NextAttempt, IInv, RowsTyped, Rows
  <1>4. RowsTyped'
    <2>1. jobs' \in [Jobs -> Rows]
      BY <1>2 DEF BeginAttempt, IInv, RowsTyped
    <2> QED
      BY <2>1 DEF BeginAttempt, IInv, RowsTyped
  <1>5. FilesTyped'
    <2>1. \A i \in Jobs : jobs[i].attempts \in Nat
      BY DEF IInv, RowsTyped, Rows
    <2>2. files' = files /\ \A i \in Jobs : jobs'[i].attempts >= jobs[i].attempts
      <3>1. files' = files /\ jobs'[j].attempts >= jobs[j].attempts
        BY <1>2, <1>3 DEF BeginAttempt
      <3>2. \A i \in Jobs \ {j} : jobs'[i].attempts >= jobs[i].attempts
        BY <1>2, <2>1
      <3> QED
        BY <3>1, <3>2
    <2>3. \A i \in Jobs : jobs'[i].attempts \in Nat
      BY <1>4 DEF RowsTyped, Rows
    <2>4. \A i \in Jobs : 1..jobs[i].attempts \subseteq 1..jobs'[i].attempts
      BY <2>1, <2>2, <2>3
    <2>5. /\ DOMAIN files = Jobs
          /\ \A i \in Jobs : /\ DOMAIN files[i] \subseteq 1..jobs[i].attempts
                             /\ \A n \in DOMAIN files[i] : files[i][n] \in Files
      BY DEF IInv, FilesTyped
    <2> QED
      BY <2>2, <2>4, <2>5 DEF FilesTyped, Files
  <1>6. Named' /\ RefusedOnDisk' /\ Unrefused'
    BY <1>2 DEF BeginAttempt, IInv, Named, RefusedOnDisk, Unrefused, Described,
           ForReview, Reviewable
  <1>7. /\ Plan(j, studio.queue[j]) \in Plans
        /\ studio' \in [at : {"render"}, job : {j}, plan : Plans,
                        queue : {studio.queue}]
    <2>1. Plan(j, studio.queue[j]) \in Plans
      BY <1>1, PlanTyped DEF BeginAttempt, IInv
    <2>2. studio \in [at : {"next", "render", "describe", "record", "log"},
                      job : Jobs \cup {None}, plan : Plans \cup {None},
                      queue : Queues]
      BY <1>1 DEF IInv, StudioTyped, Idle
    <2>3. studio' = [studio EXCEPT !.at = "render", !.job = j,
                                   !.plan = Plan(j, studio.queue[j])]
      BY DEF BeginAttempt
    <2> QED
      BY <2>1, <2>2, <2>3
  <1>8. Locked' /\ StudioTyped'
    BY <1>1, <1>7 DEF BeginAttempt, IInv, Locked, StudioTyped
  <1>9. AtWork'
    <2>1. \A i \in DOMAIN studio.queue : i \in Jobs /\ i # None
      BY <1>1, QueueShrinks, NoneIsNothing
    <2>2. \A i \in DOMAIN studio.queue : i # j =>
              studio.queue[i].attempts = jobs'[i].attempts
      BY <1>1, <1>2, <2>1 DEF IInv, AtWork
    <2>3. Attempt' = jobs'[j].attempts
      BY <1>2, <1>7 DEF Attempt, NextAttempt
    <2> QED
      BY <1>1, <1>7, <2>2, <2>3 DEF AtWork
  <1>10. ReviewerTyped' /\ UnderReview'
    <2>1. \A i \in DOMAIN reviewer.queue : reviewer.at # "idle" => i \in Jobs
      BY QueueShrinks DEF IInv, ReviewerTyped, Idle
    <2>2. \A i \in Jobs : jobs'[i].image = jobs[i].image
      BY <1>2
    <2>3. UNCHANGED <<files, refused, reviewer>>
      BY DEF BeginAttempt
    <2> QED
      BY <2>1, <2>2, <2>3 DEF IInv, ReviewerTyped, UnderReview, Described
  <1> QED
    BY <1>4, <1>5, <1>6, <1>8, <1>9, <1>10 DEF IInv

\* While a picture is under way.
LEMMA UnderWay ==
    ASSUME IInv, studio.at \in {"render", "describe", "record", "log"}
    PROVE  /\ studio.queue \in Queues
           /\ studio.job \in Jobs /\ studio.job \in DOMAIN studio.queue
           /\ studio.plan \in Plans
           /\ studio \in [at : {"render", "describe", "record", "log"},
                          job : Jobs, plan : Plans, queue : Queues]
           /\ Attempt = jobs[studio.job].attempts
           /\ Attempt \in Nat /\ Attempt >= 1
           /\ \A j \in DOMAIN studio.queue : j \in Jobs
  <1>1. /\ studio.queue \in Queues /\ studio.job \in DOMAIN studio.queue
        /\ studio.plan \in Plans
        /\ Attempt = jobs[studio.job].attempts
    BY DEF IInv, StudioTyped, Idle, AtWork
  <1>2. /\ studio.job \in Jobs /\ studio.queue[studio.job] \in Rows
        /\ \A j \in DOMAIN studio.queue : j \in Jobs
    BY <1>1, QueueShrinks
  <1>3. Attempt \in Nat /\ Attempt >= 1
    BY <1>2 DEF Attempt, NextAttempt, Rows
  <1> QED
    BY <1>1, <1>2, <1>3 DEF IInv, StudioTyped, Idle

\* A step that adds a file, or metadata to one, keeps what the rows name.
LEMMA FilesGrow ==
    ASSUME IInv, UNCHANGED <<jobs, refused, failures, lock, reviewer>>,
           FilesTyped',
           \A j \in Jobs : /\ DOMAIN files[j] \subseteq DOMAIN files'[j]
                           /\ Described(j) \subseteq Described(j)'
    PROVE  RowsTyped' /\ Named' /\ RefusedOnDisk' /\ Unrefused' /\ ReviewerTyped'
           /\ UnderReview'
  <1>1. RowsTyped' /\ Named' /\ RefusedOnDisk' /\ Unrefused'
    BY DEF IInv, RowsTyped, Named, RefusedOnDisk, Unrefused
  <1>2. \A j \in DOMAIN reviewer.queue : reviewer.at # "idle" => j \in Jobs
    BY QueueShrinks DEF IInv, ReviewerTyped, Idle
  <1>3. ReviewerTyped' /\ UnderReview'
    BY <1>2 DEF IInv, ReviewerTyped, UnderReview
  <1> QED
    BY <1>1, <1>3

LEMMA LinkAttemptIInv == IInv /\ LinkAttempt => IInv'
  <1> SUFFICES ASSUME IInv, LinkAttempt PROVE IInv'
    OBVIOUS
  <1> DEFINE s == studio.job
             n == Attempt
             file == [plan |-> studio.plan, by |-> 0, told |-> FALSE]
  <1>1. /\ studio.at = "render"
        /\ s \in Jobs /\ n \in Nat /\ n >= 1 /\ n = jobs[s].attempts
        /\ file \in Files
        /\ n \notin DOMAIN files[s]
    BY UnderWay DEF LinkAttempt, Files
  <1>2. /\ DOMAIN files' = Jobs
        /\ DOMAIN files'[s] = DOMAIN files[s] \cup {n}
        /\ files'[s][n] = file
        /\ \A k \in DOMAIN files[s] : files'[s][k] = files[s][k]
        /\ \A j \in Jobs \ {s} : files'[j] = files[j]
    BY <1>1 DEF LinkAttempt, IInv, FilesTyped, Filed
  <1>3. FilesTyped'
    <2>1. \A j \in Jobs : jobs[j].attempts \in Nat
      BY DEF IInv, RowsTyped, Rows
    <2>2. DOMAIN files'[s] \subseteq 1..jobs[s].attempts
      BY <1>1, <1>2, <2>1 DEF IInv, FilesTyped
    <2>3. \A k \in DOMAIN files'[s] : files'[s][k] \in Files
      BY <1>1, <1>2 DEF IInv, FilesTyped
    <2> QED
      BY <1>2, <2>2, <2>3 DEF LinkAttempt, IInv, FilesTyped
  <1>4. RowsTyped' /\ Named' /\ RefusedOnDisk' /\ Unrefused' /\ ReviewerTyped'
        /\ UnderReview'
    <2>1. \A j \in Jobs : /\ DOMAIN files[j] \subseteq DOMAIN files'[j]
                          /\ Described(j) \subseteq Described(j)'
      BY <1>2 DEF Described
    <2> QED
      BY <1>3, <2>1, FilesGrow DEF LinkAttempt
  <1>5. /\ studio'.at = "describe" /\ studio'.job = s
        /\ studio'.plan = studio.plan /\ studio'.queue = studio.queue
        /\ StudioTyped'
    BY <1>1, UnderWay DEF LinkAttempt, StudioTyped
  <1>6. Locked'
    BY <1>1, <1>5 DEF LinkAttempt, IInv, Locked
  <1>7. AtWork'
    <2>1. Attempt' = n
      BY <1>5 DEF Attempt, NextAttempt
    <2>2. <<s, n>> \notin refused
      BY <1>1 DEF IInv, RefusedOnDisk
    <2>3. UNCHANGED <<jobs, refused>>
      BY DEF LinkAttempt
    <2>4. /\ s \in DOMAIN studio.queue /\ studio.plan \in Plans
          /\ \A j \in DOMAIN studio.queue : j # s =>
                 studio.queue[j].attempts = jobs[j].attempts
      BY <1>1, UnderWay DEF IInv, AtWork
    <2> QED
      BY <1>1, <1>2, <1>5, <2>1, <2>2, <2>3, <2>4 DEF AtWork
  <1> QED
    BY <1>3, <1>4, <1>5, <1>6, <1>7 DEF IInv

LEMMA DescribeAttemptIInv == IInv /\ DescribeAttempt => IInv'
  <1> SUFFICES ASSUME IInv, DescribeAttempt PROVE IInv'
    OBVIOUS
  <1> DEFINE s == studio.job
             n == Attempt
  <1>1. /\ studio.at = "describe"
        /\ s \in Jobs /\ n \in Nat /\ n = jobs[s].attempts
        /\ n \in DOMAIN files[s] /\ <<s, n>> \notin refused
        /\ files[s][n] \in Files
    BY UnderWay DEF DescribeAttempt, IInv, AtWork, FilesTyped
  <1>2. /\ DOMAIN files' = Jobs
        /\ DOMAIN files'[s] = DOMAIN files[s]
        /\ files'[s][n] \in Files /\ files'[s][n].told = TRUE
        /\ \A k \in DOMAIN files[s] \ {n} : files'[s][k] = files[s][k]
        /\ \A j \in Jobs \ {s} : files'[j] = files[j]
    BY <1>1 DEF DescribeAttempt, IInv, FilesTyped, Files
  <1>3. FilesTyped'
    BY <1>1, <1>2 DEF DescribeAttempt, IInv, FilesTyped
  <1>4. RowsTyped' /\ Named' /\ RefusedOnDisk' /\ Unrefused' /\ ReviewerTyped'
        /\ UnderReview'
    <2>1. \A j \in Jobs : /\ DOMAIN files[j] \subseteq DOMAIN files'[j]
                          /\ Described(j) \subseteq Described(j)'
      BY <1>2 DEF Described
    <2> QED
      BY <1>3, <2>1, FilesGrow DEF DescribeAttempt
  <1>5. /\ studio'.at = "record" /\ studio'.job = s
        /\ studio'.plan = studio.plan /\ studio'.queue = studio.queue
        /\ StudioTyped'
    BY <1>1, UnderWay DEF DescribeAttempt, StudioTyped
  <1>6. Locked'
    BY <1>1, <1>5 DEF DescribeAttempt, IInv, Locked
  <1>7. AtWork'
    <2>1. Attempt' = n
      BY <1>5 DEF Attempt, NextAttempt
    <2>2. n \in Described(s)'
      BY <1>1, <1>2, <1>5 DEF Described
    <2>3. UNCHANGED <<jobs, refused>>
      BY DEF DescribeAttempt
    <2>4. /\ s \in DOMAIN studio.queue /\ studio.plan \in Plans
          /\ \A j \in DOMAIN studio.queue : j # s =>
                 studio.queue[j].attempts = jobs[j].attempts
      BY <1>1, UnderWay DEF IInv, AtWork
    <2> QED
      BY <1>1, <1>2, <1>5, <2>1, <2>2, <2>3, <2>4 DEF AtWork
  <1> QED
    BY <1>3, <1>4, <1>5, <1>6, <1>7 DEF IInv

\* The row names the new picture: one that nobody can have refused.
LEMMA RecordAttemptIInv == IInv /\ RecordAttempt => IInv'
  <1> SUFFICES ASSUME IInv, RecordAttempt PROVE IInv'
    OBVIOUS
  <1> DEFINE s == studio.job
             n == Attempt
  <1>1. /\ studio.at = "record"
        /\ s \in Jobs /\ s \in DOMAIN studio.queue
        /\ n \in Nat /\ n = jobs[s].attempts
        /\ n \in Described(s) /\ <<s, n>> \notin refused
    BY UnderWay DEF RecordAttempt, IInv, AtWork
  <1>2. UNCHANGED <<files, refused, failures, lock, reviewer>>
    BY DEF RecordAttempt
  <1>3. /\ jobs' \in [Jobs -> Rows]
        /\ jobs'[s].state = "generated" /\ jobs'[s].attempts = jobs[s].attempts
        /\ jobs'[s].image = n /\ jobs'[s].review = None
        /\ \A j \in Jobs \ {s} : jobs'[j] = jobs[j]
    BY <1>1 DEF RecordAttempt, IInv, RowsTyped, Rows, States, Reviewable
  <1>4. RowsTyped' /\ FilesTyped'
    BY <1>2, <1>3 DEF IInv, RowsTyped, FilesTyped
  <1>5. Named' /\ RefusedOnDisk' /\ Unrefused'
    BY <1>1, <1>2, <1>3 DEF IInv, Named, RefusedOnDisk, Unrefused, Described
  <1>6. /\ studio'.at = "log" /\ studio'.job = s
        /\ studio'.plan = studio.plan /\ studio'.queue = studio.queue
        /\ StudioTyped'
    BY <1>1, UnderWay DEF RecordAttempt, StudioTyped
  <1>7. Locked'
    BY <1>1, <1>2, <1>6 DEF IInv, Locked
  <1>8. AtWork'
    <2>1. Attempt' = n
      BY <1>6 DEF Attempt, NextAttempt
    <2>2. /\ studio.plan \in Plans
          /\ \A j \in DOMAIN studio.queue : j \in Jobs
          /\ \A j \in DOMAIN studio.queue : j # s =>
                 studio.queue[j].attempts = jobs[j].attempts
      BY <1>1, UnderWay DEF IInv, AtWork
    <2> QED
      BY <1>1, <1>3, <1>6, <2>1, <2>2 DEF AtWork
  <1>9. ReviewerTyped' /\ UnderReview'
    <2>1. \A i \in DOMAIN reviewer.queue : reviewer.at # "idle" => i \in Jobs
      BY QueueShrinks DEF IInv, ReviewerTyped, Idle
    <2> QED
      BY <1>1, <1>2, <1>3, <2>1 DEF IInv, ReviewerTyped, UnderReview, Described
  <1> QED
    BY <1>4, <1>5, <1>6, <1>7, <1>8, <1>9 DEF IInv

\* A row that is in no reviewer's words: only its state changes.
LEMMA FailAttemptIInv == IInv /\ FailAttempt => IInv'
  <1> SUFFICES ASSUME IInv, FailAttempt PROVE IInv'
    OBVIOUS
  <1> DEFINE s == studio.job
  <1>1. s \in Jobs
    BY UnderWay DEF FailAttempt
  <1>2. UNCHANGED <<files, refused, failures, reviewer>> /\ StudioEnds
    BY DEF FailAttempt
  <1>3. /\ jobs' \in [Jobs -> Rows]
        /\ jobs'[s].state = "generation_error"
        /\ \A j \in Jobs : /\ jobs'[j].attempts = jobs[j].attempts
                           /\ jobs'[j].image = jobs[j].image
                           /\ jobs'[j].review = jobs[j].review
                           /\ j # s => jobs'[j] = jobs[j]
    BY <1>1 DEF FailAttempt, IInv, RowsTyped, Rows, States
  <1>4. RowsTyped' /\ FilesTyped' /\ Named' /\ RefusedOnDisk' /\ Unrefused'
    BY <1>2, <1>3 DEF IInv, RowsTyped, FilesTyped, Named, RefusedOnDisk,
           Unrefused, Described, ForReview, Reviewable
  <1>5. Locked' /\ StudioTyped' /\ AtWork'
    BY <1>2 DEF IInv, StudioEnds, Idle, Locked, StudioTyped, AtWork
  <1>6. ReviewerTyped' /\ UnderReview'
    <2>1. \A i \in DOMAIN reviewer.queue : reviewer.at # "idle" => i \in Jobs
      BY QueueShrinks DEF IInv, ReviewerTyped, Idle
    <2> QED
      BY <1>2, <1>3, <2>1 DEF IInv, ReviewerTyped, UnderReview, Described
  <1> QED
    BY <1>4, <1>5, <1>6 DEF IInv

-----------------------------------------------------------------------------
(* Steps of the reviewer.                                                  *)

\* The reviewer may change the state and the review of rows whose pictures
\* stay as they are; the generator's work is not disturbed.
LEMMA ReviewedRows ==
    ASSUME IInv, UNCHANGED <<files, refused, studio>>,
           jobs' \in [Jobs -> Rows], failures' \in [Jobs -> Nat],
           \A j \in Jobs : /\ jobs'[j].attempts = jobs[j].attempts
                           /\ jobs'[j].image = jobs[j].image
    PROVE  RowsTyped' /\ FilesTyped' /\ RefusedOnDisk' /\ StudioTyped' /\ AtWork'
  <1>1. RowsTyped' /\ FilesTyped' /\ RefusedOnDisk' /\ StudioTyped'
    BY DEF IInv, RowsTyped, FilesTyped, RefusedOnDisk, StudioTyped
  <1>2. \A i \in DOMAIN studio.queue : studio.at # "idle" => i \in Jobs
    BY QueueShrinks DEF IInv, StudioTyped, Idle
  <1>3. studio.at # "idle" /\ studio.at # "next" => studio.job \in Jobs
    BY <1>2 DEF IInv, AtWork
  <1>4. AtWork'
    BY <1>2, <1>3 DEF IInv, AtWork, Attempt, NextAttempt, Described
  <1> QED
    BY <1>1, <1>4

\* What the reviewer knows of the rows in its queue.
LEMMA InReview ==
    ASSUME IInv, reviewer.at # "idle"
    PROVE  /\ reviewer \in [at : {"next", "inspect", "log"},
                            job : Jobs \cup {None}, source : Nat \cup {None},
                            errors : Nat, queue : Queues]
           /\ \A j \in DOMAIN reviewer.queue :
                  /\ j \in Jobs
                  /\ reviewer.queue[j].image \in Described(j)
                  /\ jobs[j].image \in Described(j)
                  /\ <<j, jobs[j].image>> \notin refused
           /\ reviewer.at # "next" => reviewer.job \in DOMAIN reviewer.queue
  BY QueueShrinks DEF IInv, ReviewerTyped, UnderReview, Idle

\* The reviewer ends and leaves the row it was at, or none, in a state that a
\* later reviewer takes up.
LEMMA ReviewerEndsIInv ==
    ASSUME IInv, ReviewerEnds, UNCHANGED <<files, refused, studio>>,
           failures' \in [Jobs -> Nat], reviewer.at # "idle",
           \/ jobs' = jobs
           \/ /\ reviewer.at # "next"
              /\ \E state \in Reviewable :
                     jobs' = [jobs EXCEPT ![reviewer.job].state = state]
    PROVE  IInv'
  <1>1. /\ jobs' \in [Jobs -> Rows]
        /\ \A j \in Jobs :
              /\ jobs'[j].attempts = jobs[j].attempts
              /\ jobs'[j].image = jobs[j].image
              /\ jobs'[j].review = jobs[j].review
              /\ \/ jobs'[j].state = jobs[j].state
                 \/ /\ jobs'[j].state \in Reviewable
                    /\ jobs[j].image \in Described(j)
                    /\ <<j, jobs[j].image>> \notin refused
    <2>1. jobs \in [Jobs -> Rows]
      BY DEF IInv, RowsTyped
    <2>2. CASE jobs' = jobs
      BY <2>1, <2>2
    <2>3. CASE reviewer.at # "next" /\ \E state \in Reviewable :
                   jobs' = [jobs EXCEPT ![reviewer.job].state = state]
      <3>1. PICK state \in Reviewable :
                jobs' = [jobs EXCEPT ![reviewer.job].state = state]
        BY <2>3
      <3>2. /\ reviewer.job \in Jobs
            /\ jobs[reviewer.job].image \in Described(reviewer.job)
            /\ <<reviewer.job, jobs[reviewer.job].image>> \notin refused
        BY <2>3, InReview
      <3> QED
        BY <2>1, <3>1, <3>2 DEF Rows, States
    <2> QED
      BY <2>2, <2>3
  <1>2. RowsTyped' /\ FilesTyped' /\ RefusedOnDisk' /\ StudioTyped' /\ AtWork'
    BY <1>1, ReviewedRows
  <1>3. Named' /\ Unrefused'
    BY <1>1 DEF IInv, Named, Unrefused, Described, ForReview, Reviewable
  <1>4. Locked' /\ ReviewerTyped' /\ UnderReview'
    BY DEF IInv, ReviewerEnds, Idle, Locked, ReviewerTyped, UnderReview
  <1> QED
    BY <1>2, <1>3, <1>4 DEF IInv

\* The reviewer goes on to the next row, with the one it was at as it is or
\* without a review.
LEMMA NextReviewIInv ==
    ASSUME IInv, NEW j,
           UNCHANGED <<files, refused, studio, lock>>, RowsTyped', Named',
           Unrefused', reviewer.at # "idle",
           \A i \in Jobs : /\ jobs'[i].attempts = jobs[i].attempts
                           /\ jobs'[i].image = jobs[i].image,
           reviewer' \in [at : {"next"}, job : Jobs \cup {None},
                          source : Nat \cup {None}, errors : Nat,
                          queue : {Without(reviewer.queue, j)}]
    PROVE  IInv'
  <1>1. FilesTyped' /\ RefusedOnDisk' /\ StudioTyped' /\ AtWork'
    BY ReviewedRows DEF RowsTyped
  <1>2. /\ reviewer.queue \in Queues
        /\ Without(reviewer.queue, j) \in Queues
        /\ DOMAIN Without(reviewer.queue, j) = DOMAIN reviewer.queue \ {j}
        /\ \A i \in DOMAIN reviewer.queue \ {j} :
               Without(reviewer.queue, j)[i] = reviewer.queue[i]
    BY InReview, QueueShrinks
  <1>3. Locked' /\ ReviewerTyped'
    BY <1>2 DEF IInv, Locked, ReviewerTyped
  <1>4. UnderReview'
    <2>1. /\ reviewer'.at = "next"
          /\ reviewer'.queue = Without(reviewer.queue, j)
      OBVIOUS
    <2>2. \A i \in DOMAIN reviewer.queue :
              /\ i \in Jobs /\ Described(i)' = Described(i)
              /\ reviewer.queue[i].image \in Described(i)
              /\ jobs'[i].image \in Described(i)
              /\ <<i, jobs'[i].image>> \notin refused'
      BY InReview DEF Described
    <2> QED
      BY <1>2, <2>1, <2>2 DEF UnderReview
  <1> QED
    BY <1>1, <1>3, <1>4 DEF IInv

LEMMA StartReviewIInv == IInv /\ StartReview => IInv'
  <1> SUFFICES ASSUME IInv, StartReview PROVE IInv'
    OBVIOUS
  <1> DEFINE S == {i \in Jobs : jobs'[i].state \in Reviewable}
  <1>1. UNCHANGED <<files, refused, failures, studio>>
    BY DEF StartReview
  <1>2. /\ jobs' \in [Jobs -> Rows]
        /\ \A j \in Jobs :
              /\ jobs'[j].attempts = jobs[j].attempts
              /\ jobs'[j].image = jobs[j].image
              /\ jobs'[j].review = jobs[j].review
              /\ \/ jobs'[j].state = jobs[j].state
                 \/ jobs[j].state = "reviewing" /\ jobs'[j].state = "generated"
    BY DEF StartReview, TakenOver, IInv, RowsTyped, Rows, States, Reviewable
  <1>3. RowsTyped' /\ FilesTyped' /\ RefusedOnDisk' /\ StudioTyped' /\ AtWork'
    BY <1>1, <1>2, ReviewedRows DEF IInv, RowsTyped
  <1>4. Named' /\ Unrefused'
    BY <1>1, <1>2 DEF IInv, Named, Unrefused, Described, ForReview, Reviewable
  <1>5. /\ reviewer' = [at |-> "next", job |-> None, source |-> None,
                        errors |-> 0, queue |-> [j \in S |-> jobs'[j]]]
        /\ lock' = [lock EXCEPT !["review"] = "reviewer"]
    BY DEF StartReview
  <1>6. /\ [j \in S |-> jobs'[j]] \in Queues
        /\ \A j \in S : /\ jobs'[j].image \in Described(j)'
                        /\ <<j, jobs'[j].image>> \notin refused'
    <2>1. S \in SUBSET Jobs /\ \A j \in S : jobs'[j].state \in ForReview
      BY DEF ForReview
    <2> HIDE DEF S
    <2> QED
      BY <1>2, <1>4, <2>1, QueueOfRows DEF Named, Unrefused
  <1> HIDE DEF S
  <1>7. Locked' /\ ReviewerTyped'
    BY <1>1, <1>5, <1>6 DEF IInv, Locked, ReviewerTyped
  <1>8. UnderReview'
    <2>1. \A j \in DOMAIN reviewer'.queue : j \in S /\ reviewer'.queue[j] = jobs'[j]
      BY <1>5
    <2> QED
      BY <1>5, <1>6, <2>1 DEF UnderReview
  <1> QED
    BY <1>3, <1>4, <1>7, <1>8 DEF IInv

LEMMA BeginReviewIInv ==
    ASSUME IInv, NEW j \in Jobs, BeginReview(j)
    PROVE  IInv'
  <1>1. /\ reviewer.at = "next" /\ j \in DOMAIN reviewer.queue
        /\ AcceptedSource(j) \in Nat
        /\ UNCHANGED <<files, refused, failures, lock, studio>>
    <2>1. AcceptedSource(j) \in Nat \cup {None}
      BY PlanTyped DEF IInv, RowsTyped
    <2> QED
      BY <2>1 DEF BeginReview, MayReview
  <1>2. /\ jobs' \in [Jobs -> Rows]
        /\ jobs'[j].state = "reviewing"
        /\ \A i \in Jobs : /\ jobs'[i].attempts = jobs[i].attempts
                           /\ jobs'[i].image = jobs[i].image
                           /\ jobs'[i].review = jobs[i].review
                           /\ i # j => jobs'[i] = jobs[i]
    BY DEF BeginReview, IInv, RowsTyped, Rows, States
  <1>3. jobs[j].image \in Described(j) /\ <<j, jobs[j].image>> \notin refused
    BY <1>1, InReview
  <1>4. RowsTyped' /\ FilesTyped' /\ RefusedOnDisk' /\ StudioTyped' /\ AtWork'
    BY <1>1, <1>2, ReviewedRows DEF IInv, RowsTyped
  <1>5. Named' /\ Unrefused'
    BY <1>1, <1>2, <1>3 DEF IInv, Named, Unrefused, Described, ForReview
  <1>6. /\ reviewer' \in [at : {"inspect"}, job : {j}, source : Nat,
                          errors : Nat, queue : {reviewer.queue}]
        /\ reviewer.queue \in Queues
    BY <1>1, InReview DEF BeginReview
  <1>7. Locked' /\ ReviewerTyped'
    BY <1>1, <1>6 DEF IInv, Locked, ReviewerTyped
  <1>8. UnderReview'
    BY <1>1, <1>2, <1>6, InReview DEF UnderReview, Described
  <1> QED
    BY <1>4, <1>5, <1>7, <1>8 DEF IInv

\* The decision falls on the row as it is by now: its picture may be another
\* one than was inspected, but not a refused one.
LEMMA DecideIInv ==
    ASSUME IInv, NEW verdict \in Verdicts, Decide(verdict)
    PROVE  IInv'
  <1> DEFINE j == reviewer.job
             d == HoldGeometry(j, verdict)
             review == [image |-> reviewer.queue[j].image,
                        source |-> reviewer.source, decision |-> d]
  <1>1. /\ reviewer.at = "inspect" /\ j \in DOMAIN reviewer.queue /\ j \in Jobs
        /\ reviewer.source \in Nat
        /\ reviewer.queue[j].image \in Described(j)
        /\ jobs[j].image \in Described(j) /\ <<j, jobs[j].image>> \notin refused
        /\ UNCHANGED <<files, refused, failures, lock, studio>>
    BY InReview DEF Decide, IInv, UnderReview
  <1>2. d \in Decisions /\ StateOf(d) \in States \ ForReview
    BY DEF HoldGeometry, StateOf, Verdicts, Decisions, States, Queued,
           Reviewable, ForReview
  <1>3. review \in Reviews
    <2>1. reviewer.queue[j].image \in Nat
      BY <1>1, InReview, QueueShrinks DEF Rows
    <2> QED
      BY <1>1, <1>2, <2>1 DEF Reviews
  <1>4. jobs' = [jobs EXCEPT ![j].state = StateOf(d), ![j].review = review]
    BY DEF Decide
  <1> HIDE DEF d, review
  <1>5. /\ jobs' \in [Jobs -> Rows]
        /\ jobs'[j].state = StateOf(d) /\ jobs'[j].review = review
        /\ \A i \in Jobs : /\ jobs'[i].attempts = jobs[i].attempts
                           /\ jobs'[i].image = jobs[i].image
                           /\ i # j => jobs'[i] = jobs[i]
    BY <1>1, <1>2, <1>3, <1>4 DEF IInv, RowsTyped, Rows
  <1>6. RowsTyped' /\ FilesTyped' /\ RefusedOnDisk' /\ StudioTyped' /\ AtWork'
    BY <1>1, <1>5, ReviewedRows DEF IInv, RowsTyped
  <1>7. Named' /\ Unrefused'
    <2>1. review.image \in Described(j)
      BY <1>1 DEF review
    <2> QED
      BY <1>1, <1>2, <1>3, <1>5, <2>1 DEF IInv, Named, Unrefused, Described
  <1>8. /\ reviewer' \in [at : {"log"}, job : {j}, source : Nat,
                          errors : Nat, queue : {reviewer.queue}]
        /\ reviewer.queue \in Queues
    BY <1>1, InReview DEF Decide
  <1>9. Locked' /\ ReviewerTyped'
    BY <1>1, <1>8 DEF IInv, Locked, ReviewerTyped
  <1>10. UnderReview'
    BY <1>1, <1>5, <1>8, InReview DEF UnderReview, Described
  <1> QED
    BY <1>6, <1>7, <1>9, <1>10 DEF IInv

LEMMA SkipReviewIInv ==
    ASSUME IInv, NEW j \in Jobs, SkipReview(j)
    PROVE  IInv'
  <1>1. /\ UNCHANGED <<ledger, lock, studio>> /\ reviewer.at = "next"
        /\ reviewer' = [reviewer EXCEPT !.queue = Without(@, j)]
    BY DEF SkipReview
  <1>2. RowsTyped' /\ Named' /\ Unrefused'
    BY <1>1 DEF IInv, ledger, RowsTyped, Named, Unrefused, Described
  <1>3. reviewer' \in [at : {"next"}, job : Jobs \cup {None},
                       source : Nat \cup {None}, errors : Nat,
                       queue : {Without(reviewer.queue, j)}]
    BY <1>1, InReview
  <1> QED
    BY <1>1, <1>2, <1>3, NextReviewIInv DEF ledger

LEMMA LogReviewIInv == IInv /\ LogReview => IInv'
  <1> SUFFICES ASSUME IInv, LogReview PROVE IInv'
    OBVIOUS
  <1>1. /\ UNCHANGED <<ledger, lock, studio>> /\ reviewer.at = "log"
        /\ reviewer' = NextReview(0)
    BY DEF LogReview
  <1>2. RowsTyped' /\ Named' /\ Unrefused'
    BY <1>1 DEF IInv, ledger, RowsTyped, Named, Unrefused, Described
  <1>3. reviewer' \in [at : {"next"}, job : Jobs \cup {None},
                       source : Nat \cup {None}, errors : Nat,
                       queue : {Without(reviewer.queue, reviewer.job)}]
    BY <1>1, InReview DEF NextReview
  <1> QED
    BY <1>1, <1>2, <1>3, NextReviewIInv DEF ledger

LEMMA LackReviewIInv == IInv /\ LackReview => IInv'
  <1> SUFFICES ASSUME IInv, LackReview PROVE IInv'
    OBVIOUS
  <1> DEFINE j == reviewer.job
  <1>1. /\ reviewer.at = "inspect" /\ j \in Jobs
        /\ jobs[j].image \in Described(j) /\ <<j, jobs[j].image>> \notin refused
        /\ UNCHANGED <<files, refused, studio>>
    BY InReview DEF LackReview
  <1>2. /\ jobs' = [jobs EXCEPT ![j].state = "review_error"]
        /\ failures' \in [Jobs -> Nat]
    BY <1>1 DEF LackReview, IInv, RowsTyped
  <1>3. CASE ReviewerEnds
    <2>1. "review_error" \in Reviewable
      BY DEF Reviewable
    <2> QED
      BY <1>1, <1>2, <1>3, <2>1, ReviewerEndsIInv
  <1>4. CASE reviewer' = NextReview(reviewer.errors + 1) /\ UNCHANGED lock
    <2>1. /\ jobs' \in [Jobs -> Rows]
          /\ jobs'[j].state = "review_error"
          /\ \A i \in Jobs : /\ jobs'[i].attempts = jobs[i].attempts
                             /\ jobs'[i].image = jobs[i].image
                             /\ jobs'[i].review = jobs[i].review
                             /\ i # j => jobs'[i] = jobs[i]
      BY <1>1, <1>2 DEF IInv, RowsTyped, Rows, States, Reviewable
    <2>2. RowsTyped'
      BY <1>2, <2>1 DEF RowsTyped
    <2>3. Named' /\ Unrefused'
      <3>1. \A i \in Jobs : Described(i)' = Described(i)
        BY <1>1 DEF Described
      <3>2. Named'
        BY <1>1, <2>1, <3>1 DEF IInv, Named
      <3>3. Unrefused'
        BY <1>1, <2>1 DEF IInv, Unrefused
      <3> QED
        BY <3>2, <3>3
    <2>4. reviewer' \in [at : {"next"}, job : Jobs \cup {None},
                         source : Nat \cup {None}, errors : Nat,
                         queue : {Without(reviewer.queue, j)}]
      <3>1. reviewer.errors + 1 \in Nat
        BY <1>1, InReview
      <3> DEFINE e == reviewer.errors + 1
      <3>2. reviewer' = NextReview(e)
        BY <1>4
      <3> HIDE DEF e
      <3>3. e \in Nat
        BY <3>1 DEF e
      <3> QED
        BY <1>1, <3>2, <3>3, InReview DEF NextReview
    <2> QED
      BY <1>1, <1>4, <2>1, <2>2, <2>3, <2>4, NextReviewIInv
  <1> QED
    BY <1>3, <1>4 DEF LackReview

\* The other ways to end a review.
LEMMA StopReviewIInv ==
    ASSUME IInv, EndReview \/ LoseService \/ FailReview \/ ReviewerDies
    PROVE  IInv'
  <1>1. /\ ReviewerEnds /\ reviewer.at # "idle"
        /\ UNCHANGED <<files, refused, studio>>
    BY DEF EndReview, LoseService, FailReview, ReviewerDies, ledger
  <1>2. failures' \in [Jobs -> Nat]
    BY DEF EndReview, LoseService, FailReview, ReviewerDies, ledger, IInv, RowsTyped
  <1>3. CASE EndReview \/ ReviewerDies
    <2>1. jobs' = jobs
      BY <1>3 DEF EndReview, ReviewerDies, ledger
    <2> QED
      BY <1>1, <1>2, <2>1, ReviewerEndsIInv
  <1>4. CASE LoseService \/ FailReview
    <2>1. /\ reviewer.at # "next"
          /\ \E state \in Reviewable :
                 jobs' = [jobs EXCEPT ![reviewer.job].state = state]
      BY <1>4 DEF LoseService, FailReview, Reviewable
    <2> QED
      BY <1>1, <1>2, <2>1, ReviewerEndsIInv
  <1> QED
    BY <1>3, <1>4

-----------------------------------------------------------------------------
(* People, while neither process runs.                                     *)

\* The processes are idle, and stay so.
LEMMA NobodyWorks ==
    ASSUME IInv, LocksFree, UNCHANGED <<lock, studio, reviewer>>
    PROVE  Locked' /\ StudioTyped' /\ AtWork' /\ ReviewerTyped' /\ UnderReview'
  <1>1. studio.at = "idle" /\ reviewer.at = "idle"
    BY NoneIsNothing DEF IInv, Locked, LocksFree
  <1> QED
    BY <1>1 DEF IInv, Locked, StudioTyped, AtWork, ReviewerTyped, UnderReview

LEMMA RejectImageIInv ==
    ASSUME IInv, NEW j \in Jobs, RejectImage(j)
    PROVE  IInv'
  <1>1. /\ LocksFree /\ UNCHANGED <<files, failures, lock, studio, reviewer>>
        /\ refused' = refused \cup {<<j, jobs[j].image>>}
        /\ jobs[j].image # 0
    BY DEF RejectImage
  <1>2. /\ jobs' \in [Jobs -> Rows]
        /\ jobs'[j].state = "rejected"
        /\ \A i \in Jobs : /\ jobs'[i].attempts = jobs[i].attempts
                           /\ jobs'[i].image = jobs[i].image
                           /\ jobs'[i].review = jobs[i].review
                           /\ i # j => jobs'[i] = jobs[i]
    BY DEF RejectImage, IInv, RowsTyped, Rows, States, Queued
  <1>3. RowsTyped' /\ FilesTyped'
    BY <1>1, <1>2 DEF IInv, RowsTyped, FilesTyped
  <1>4. Named' /\ Unrefused'
    BY <1>1, <1>2 DEF IInv, Named, Unrefused, Described, ForReview, Reviewable
  <1>5. RefusedOnDisk'
    <2>1. jobs[j].image \in Nat /\ jobs[j].image \in DOMAIN files[j]
      BY <1>1 DEF IInv, RowsTyped, Rows, Named, Described
    <2> QED
      BY <1>1, <2>1 DEF IInv, RefusedOnDisk
  <1>6. Locked' /\ StudioTyped' /\ AtWork' /\ ReviewerTyped' /\ UnderReview'
    BY <1>1, NobodyWorks
  <1> QED
    BY <1>3, <1>4, <1>5, <1>6 DEF IInv

\* Resolving what the reviewer held back withdraws a refusal of that picture.
LEMMA ResolveIInv ==
    ASSUME IInv, NEW j \in Jobs, NEW d \in {"accepted", "held"}, LocksFree,
           jobs[j].state = "review_required", Resolve(j, d)
    PROVE  IInv'
  <1>1. /\ UNCHANGED <<files, failures, lock, studio, reviewer>>
        /\ refused' = refused \ {<<j, jobs[j].image>>}
    BY DEF Resolve
  <1>2. jobs[j].review \in Reviews /\ StateOf(d) \in {"accepted", "review_required"}
    BY DEF IInv, Named, StateOf
  <1>3. /\ jobs' \in [Jobs -> Rows]
        /\ jobs'[j].state \in {"accepted", "review_required"}
        /\ jobs'[j].review \in Reviews
        /\ jobs'[j].review.image = jobs[j].review.image
        /\ \A i \in Jobs : /\ jobs'[i].attempts = jobs[i].attempts
                           /\ jobs'[i].image = jobs[i].image
                           /\ i # j => jobs'[i] = jobs[i]
    <2>1. [jobs[j].review EXCEPT !.decision = d] \in Reviews
      BY <1>2 DEF Reviews, Decisions, Verdicts
    <2>2. [jobs[j] EXCEPT !.state = StateOf(d), !.review.decision = d] \in Rows
      BY <1>2, <2>1 DEF IInv, RowsTyped, Rows, States, Queued
    <2> QED
      BY <1>2, <2>1, <2>2 DEF Resolve, IInv, RowsTyped, Rows, Reviews
  <1>4. RowsTyped' /\ FilesTyped' /\ RefusedOnDisk'
    BY <1>1, <1>3 DEF IInv, RowsTyped, FilesTyped, RefusedOnDisk
  <1>5. Named'
    <2>1. jobs[j].review.image \in Described(j)
      BY DEF IInv, Named
    <2> QED
      BY <1>1, <1>3, <2>1 DEF IInv, Named, Described, ForReview, Reviewable
  <1>6. Unrefused'
    BY <1>1, <1>3 DEF IInv, Unrefused, ForReview, Reviewable
  <1>7. Locked' /\ StudioTyped' /\ AtWork' /\ ReviewerTyped' /\ UnderReview'
    BY <1>1, NobodyWorks
  <1> QED
    BY <1>4, <1>5, <1>6, <1>7 DEF IInv

LEMMA DirectIInv ==
    ASSUME IInv, NEW j \in Jobs, Direct(j)
    PROVE  IInv'
  <1>1. CASE AcceptOcrReview(j)
    BY <1>1, ResolveIInv DEF AcceptOcrReview, HoldGeometry
  <1>2. CASE AcceptGeometryReview(j)
    BY <1>2, ResolveIInv DEF AcceptGeometryReview, AwaitsGeometry
  <1> QED
    BY <1>1, <1>2, RejectImageIInv DEF Direct

-----------------------------------------------------------------------------
\* Every step keeps the invariant.
LEMMA NextIInv == IInv /\ [Next]_vars => IInv'
  <1> SUFFICES ASSUME IInv, [Next]_vars PROVE IInv'
    OBVIOUS
  <1>1. CASE EndGenerate \/ StudioDies
    BY <1>1, StudioEndsIInv DEF EndGenerate, StudioDies
  <1> DEFINE AtSomeRow == [at : {"next", "render", "describe", "record", "log"},
                           job : Jobs \cup {None}, plan : Plans \cup {None},
                           queue : Queues]
  <1>2. ASSUME NEW j \in Jobs, SkipBlocked(j) PROVE IInv'
    <2>1. /\ studio.at = "next" /\ UNCHANGED <<ledger, lock, reviewer>>
          /\ studio' = [studio EXCEPT !.queue = Without(@, j)]
      BY <1>2 DEF SkipBlocked
    <2>2. studio \in AtSomeRow /\ studio.job = None
      BY <2>1 DEF IInv, StudioTyped, AtWork, Idle
    <2>3. studio' \in [at : {"next"}, job : {None}, plan : Plans \cup {None},
                       queue : {Without(studio.queue, j)}]
      BY <2>1, <2>2
    <2> QED
      BY <2>1, <2>2, <2>3, NextRowIInv
  <1>3. CASE LogAttempt
    <2>1. /\ studio.at = "log" /\ UNCHANGED <<ledger, lock, reviewer>>
          /\ studio' = [studio EXCEPT !.at = "next", !.job = None, !.plan = None,
                                      !.queue = Without(@, studio.job)]
      BY <1>3 DEF LogAttempt
    <2>2. studio \in AtSomeRow
      BY <2>1 DEF IInv, StudioTyped, Idle
    <2>3. studio' \in [at : {"next"}, job : {None}, plan : Plans \cup {None},
                       queue : {Without(studio.queue, studio.job)}]
      BY <2>1, <2>2
    <2> QED
      BY <2>1, <2>3, NextRowIInv
  <1>4. CASE StartGenerate \/ LinkAttempt \/ DescribeAttempt \/ RecordAttempt
             \/ FailAttempt
    BY <1>4, StartGenerateIInv, LinkAttemptIInv, DescribeAttemptIInv,
       RecordAttemptIInv, FailAttemptIInv
  <1>5. CASE StartReview \/ LogReview \/ LackReview
    BY <1>5, StartReviewIInv, LogReviewIInv, LackReviewIInv
  <1>6. CASE EndReview \/ LoseService \/ FailReview \/ ReviewerDies
    BY <1>6, StopReviewIInv
  <1>7. ASSUME NEW j \in Jobs, SkipReview(j) \/ BeginReview(j) PROVE IInv'
    BY <1>7, SkipReviewIInv, BeginReviewIInv
  <1>8. ASSUME NEW d \in Verdicts, Decide(d) PROVE IInv'
    BY <1>8, DecideIInv
  <1>9. ASSUME NEW j \in Jobs, BeginAttempt(j) \/ Direct(j) PROVE IInv'
    BY <1>9, BeginAttemptIInv, DirectIInv
  <1>10. CASE UNCHANGED vars
    BY <1>10 DEF vars, ledger, IInv, RowsTyped, FilesTyped, Named, RefusedOnDisk,
          Unrefused, Locked, StudioTyped, AtWork, ReviewerTyped, UnderReview,
          Described, Attempt, NextAttempt
  <1> QED
    BY <1>1, <1>2, <1>3, <1>4, <1>5, <1>6, <1>7, <1>8, <1>9, <1>10
    DEF Next, Publish, StudioFails, ReviewStep, ReviewFails, GenerateFor

\* The inductive invariant holds in every reachable state.
THEOREM Invariance == Spec => []IInv
  BY InitIInv, NextIInv, PTL DEF Spec

\* Rows, files, locks and processes keep their types, and every picture a row
\* or its review names is on disk with its metadata, whoever dies where.
THEOREM LedgerTypeCorrect == Spec => []TypeOK
  <1>1. IInv => TypeOK
    <2> SUFFICES ASSUME IInv PROVE TypeOK
      OBVIOUS
    <2>1. studio.at # "idle" => \A j \in DOMAIN studio.queue : studio.queue[j] \in Rows
      BY QueueShrinks DEF IInv, StudioTyped, Idle
    <2>2. reviewer.at # "idle" => \A j \in DOMAIN reviewer.queue : reviewer.queue[j] \in Rows
      BY QueueShrinks DEF IInv, ReviewerTyped, Idle
    <2> QED
      BY <2>1, <2>2 DEF IInv, TypeOK, RowsTyped, FilesTyped, Files, Named,
         RefusedOnDisk, Locked
  <1> QED
    BY <1>1, Invariance, PTL

\* A picture that people rejected is not accepted again (review() and
\* reject_image()), for any number of jobs, attempts, deaths and refusals.
THEOREM RefusedStaysRefused == Spec => []RefusedIsNotAccepted
  <1>1. IInv => RefusedIsNotAccepted
    BY DEF IInv, Unrefused, RefusedIsNotAccepted
  <1> QED
    BY <1>1, Invariance, PTL

-----------------------------------------------------------------------------
(* The budget.                                                             *)

From(j, source) == {n \in DOMAIN files[j] : files[j][n].plan.from = source}

\* What the generator is rendering is still within the budget.
BudgetLeft ==
    studio.at = "render" /\ Source[studio.job] # None =>
        Cardinality(From(studio.job, studio.plan.from)) < MaxAttempts

WithinBudget ==
    \A j \in Jobs :
        /\ Source[j] = None => jobs[j].attempts <= MaxAttempts
        /\ Source[j] # None =>
               \A source \in Nat : Cardinality(From(j, source)) <= MaxAttempts

\* The files of a job are no more than its attempts.
LEMMA FilesAreFew ==
    ASSUME IInv, NEW j \in Jobs, NEW S \in SUBSET DOMAIN files[j]
    PROVE  /\ IsFiniteSet(S) /\ Cardinality(S) \in Nat
           /\ Cardinality(S) <= jobs[j].attempts
           /\ Cardinality(S) = jobs[j].attempts => S = DOMAIN files[j]
  <1>1. jobs[j].attempts \in Nat /\ DOMAIN files[j] \subseteq 1..jobs[j].attempts
    BY DEF IInv, RowsTyped, Rows, FilesTyped
  <1>2. /\ IsFiniteSet(1..jobs[j].attempts)
        /\ Cardinality(1..jobs[j].attempts) = jobs[j].attempts
    <2> DEFINE a == jobs[j].attempts
    <2>1. /\ IsFiniteSet(1..a)
          /\ Cardinality(1..a) = IF 1 > a THEN 0 ELSE a - 1 + 1
      BY <1>1, FS_Interval
    <2>2. a \in Nat
      BY <1>1
    <2> HIDE DEF a
    <2>3. (IF 1 > a THEN 0 ELSE a - 1 + 1) = a
      BY <2>2
    <2>4. IsFiniteSet(1..a) /\ Cardinality(1..a) = a
      BY <2>1, <2>3
    <2> QED
      BY <2>4 DEF a
  <1>3. /\ IsFiniteSet(S) /\ Cardinality(S) \in Nat
        /\ Cardinality(S) <= jobs[j].attempts
        /\ Cardinality(S) = jobs[j].attempts => S = 1..jobs[j].attempts
    BY <1>1, <1>2, FS_Subset, FS_CardinalityType
  <1> QED
    BY <1>1, <1>3

\* retry_allowed() leaves room for one more picture from the source planned.
LEMMA BeginWithinBudget ==
    ASSUME IInv, WithinBudget, NEW j \in Jobs, BeginAttempt(j)
    PROVE  WithinBudget' /\ BudgetLeft'
  <1> DEFINE source == AcceptedSource(j)
             row == studio.queue[j]
  <1>1. /\ studio.at = "next" /\ row \in Rows
        /\ row.attempts = jobs[j].attempts /\ jobs[j].attempts \in Nat
    BY QueueShrinks, NoneIsNothing
    DEF BeginAttempt, IInv, StudioTyped, Idle, AtWork, RowsTyped, Rows
  <1>2. /\ RetryAllowed(j, row, source)
        /\ Source[j] # None => /\ Plan(j, row).from = source
                               /\ source \in Nat
    BY <1>1, PlanTyped DEF BeginAttempt, IInv, Plan
  <1>3. Source[j] # None => Cardinality(From(j, source)) < MaxAttempts
    <2> SUFFICES ASSUME Source[j] # None
                 PROVE  Cardinality(From(j, source)) < MaxAttempts
      OBVIOUS
    <2>1. CASE row.attempts < MaxAttempts
      BY <1>1, <2>1, FilesAreFew, LimitsArePositive DEF From
    <2>2. CASE /\ Cardinality(Described(j)) = row.attempts
               /\ Cardinality({n \in Described(j) :
                      files[j][n].plan.from = source}) < MaxAttempts
      <3>1. Described(j) = DOMAIN files[j]
        BY <1>1, <2>2, FilesAreFew DEF Described
      <3>2. {n \in Described(j) : files[j][n].plan.from = source} = From(j, source)
        BY <3>1 DEF From
      <3> QED
        BY <2>2, <3>2
    <2> QED
      BY <1>2, <2>1, <2>2 DEF RetryAllowed
  <1>4. Source[j] = None => jobs[j].attempts + 1 <= MaxAttempts
    BY <1>1, <1>2, LimitsArePositive DEF RetryAllowed
  <1>5. /\ files' = files
        /\ jobs'[j].attempts = jobs[j].attempts + 1
        /\ \A i \in Jobs \ {j} : jobs'[i] = jobs[i]
    BY <1>1 DEF BeginAttempt, NextAttempt, IInv, RowsTyped, Rows
  <1>6. studio'.job = j /\ studio'.plan = Plan(j, row)
    BY <1>1 DEF BeginAttempt, IInv, StudioTyped, Idle
  <1>7. WithinBudget'
    BY <1>4, <1>5 DEF WithinBudget, From
  <1>8. BudgetLeft'
    BY <1>2, <1>3, <1>5, <1>6 DEF BudgetLeft, From
  <1> QED
    BY <1>7, <1>8

LEMMA LinkWithinBudget ==
    ASSUME IInv, WithinBudget, BudgetLeft, LinkAttempt
    PROVE  WithinBudget' /\ BudgetLeft'
  <1> DEFINE s == studio.job
             n == Attempt
  <1>1. /\ studio.at = "render" /\ s \in Jobs /\ n \notin DOMAIN files[s]
        /\ studio.plan.from \in Nat
        /\ UNCHANGED jobs
    BY UnderWay DEF LinkAttempt, Plans
  <1>2. /\ DOMAIN files'[s] = DOMAIN files[s] \cup {n}
        /\ files'[s][n].plan = studio.plan
        /\ \A k \in DOMAIN files[s] : files'[s][k] = files[s][k]
        /\ \A j \in Jobs \ {s} : files'[j] = files[j]
    BY <1>1 DEF LinkAttempt, IInv, FilesTyped, Filed
  <1>3. studio'.at = "describe"
    BY <1>1, UnderWay DEF LinkAttempt
  <1>4. ASSUME Source[s] # None, NEW source \in Nat
        PROVE  Cardinality({k \in DOMAIN files'[s] : files'[s][k].plan.from = source})
                   <= MaxAttempts
    <2> DEFINE old == From(s, source)
    <2>1. IsFiniteSet(old) /\ Cardinality(old) \in Nat
      BY <1>1, FilesAreFew DEF From
    <2>2. CASE source = studio.plan.from
      <3>1. {k \in DOMAIN files'[s] : files'[s][k].plan.from = source} = old \cup {n}
        BY <1>2, <2>2 DEF From
      <3>2. n \notin old
        BY <1>1 DEF From
      <3>3. Cardinality(old \cup {n}) = Cardinality(old) + 1
        BY <2>1, <3>2, FS_AddElement
      <3>4. Cardinality(old) < MaxAttempts
        BY <1>1, <1>4, <2>2 DEF BudgetLeft
      <3> HIDE DEF old
      <3> QED
        BY <2>1, <3>1, <3>3, <3>4, LimitsArePositive
    <2>3. CASE source # studio.plan.from
      <3>1. {k \in DOMAIN files'[s] : files'[s][k].plan.from = source} = old
        BY <1>2, <2>3 DEF From
      <3> QED
        BY <1>1, <1>4, <3>1 DEF WithinBudget
    <2> QED
      BY <2>2, <2>3
  <1>5. WithinBudget'
    BY <1>1, <1>2, <1>4 DEF WithinBudget, From
  <1> QED
    BY <1>3, <1>5 DEF BudgetLeft

\* Every other step files nothing and begins nothing.
LEMMA OthersWithinBudget ==
    ASSUME WithinBudget, BudgetLeft,
           \A j \in Jobs : jobs'[j].attempts = jobs[j].attempts,
           files' = files,
           studio'.at # "render" \/ studio' = studio
    PROVE  WithinBudget' /\ BudgetLeft'
  BY DEF WithinBudget, BudgetLeft, From

LEMMA BudgetInit == Init => WithinBudget /\ BudgetLeft
  <1> SUFFICES ASSUME Init PROVE WithinBudget /\ BudgetLeft
    OBVIOUS
  <1>1. BudgetLeft
    BY DEF Init, Idle, BudgetLeft
  <1>2. ASSUME NEW j \in Jobs PROVE jobs[j].attempts <= MaxAttempts
    BY LimitsArePositive DEF Init
  <1>3. ASSUME NEW j \in Jobs, NEW source \in Nat
        PROVE  Cardinality(From(j, source)) <= MaxAttempts
    <2>1. From(j, source) = {}
      BY DEF Init, From
    <2> QED
      BY <2>1, FS_EmptySet, LimitsArePositive
  <1> QED
    BY <1>1, <1>2, <1>3 DEF WithinBudget

\* Metadata says nothing new about what a picture was rendered from.
LEMMA DescribeWithinBudget ==
    ASSUME IInv, WithinBudget, DescribeAttempt
    PROVE  WithinBudget' /\ BudgetLeft'
  <1>1. /\ studio.at = "describe" /\ studio'.at = "record"
        /\ UNCHANGED jobs
    BY UnderWay DEF DescribeAttempt
  <1>2. \A j \in Jobs :
            /\ DOMAIN files'[j] = DOMAIN files[j]
            /\ \A n \in DOMAIN files[j] :
                   files'[j][n].plan.from = files[j][n].plan.from
    BY <1>1 DEF DescribeAttempt, IInv, FilesTyped, Files
  <1>3. \A j \in Jobs, source \in Nat : From(j, source)' = From(j, source)
    BY <1>2 DEF From
  <1> QED
    BY <1>1, <1>3 DEF WithinBudget, BudgetLeft

LEMMA StudioWithinBudget ==
    ASSUME IInv, WithinBudget, BudgetLeft,
           \/ StartGenerate \/ EndGenerate \/ RecordAttempt \/ LogAttempt
           \/ FailAttempt \/ StudioDies \/ \E j \in Jobs : SkipBlocked(j)
    PROVE  WithinBudget' /\ BudgetLeft'
  <1>1. files' = files
    BY DEF StartGenerate, EndGenerate, RecordAttempt, LogAttempt,
           FailAttempt, StudioDies, SkipBlocked, ledger
  <1>2. ASSUME NEW j \in Jobs PROVE jobs'[j].attempts = jobs[j].attempts
    <2>1. CASE StartGenerate
      BY <2>1 DEF StartGenerate, IInv, RowsTyped, Rows
    <2>2. CASE RecordAttempt
      BY <2>2 DEF RecordAttempt, IInv, RowsTyped, Rows
    <2>3. CASE FailAttempt
      BY <2>3 DEF FailAttempt, IInv, RowsTyped, Rows
    <2> QED
      BY <2>1, <2>2, <2>3 DEF EndGenerate, LogAttempt, StudioDies, SkipBlocked, ledger
  <1>3. studio'.at # "render"
    <2>1. CASE StartGenerate
      BY <2>1 DEF StartGenerate
    <2>2. CASE EndGenerate \/ FailAttempt \/ StudioDies
      BY <2>2 DEF EndGenerate, FailAttempt, StudioDies, StudioEnds, Idle
    <2>3. CASE RecordAttempt \/ LogAttempt \/ \E j \in Jobs : SkipBlocked(j)
      <3>1. studio # Idle
        BY <2>3 DEF RecordAttempt, LogAttempt, SkipBlocked, Idle
      <3>2. studio \in [at : {"next", "render", "describe", "record", "log"},
                        job : Jobs \cup {None}, plan : Plans \cup {None},
                        queue : Queues]
        BY <3>1 DEF IInv, StudioTyped
      <3> QED
        BY <2>3, <3>2 DEF RecordAttempt, LogAttempt, SkipBlocked
    <2> QED
      BY <2>1, <2>2, <2>3
  <1> QED
    BY <1>1, <1>2, <1>3, OthersWithinBudget

LEMMA ReviewWithinBudget ==
    ASSUME IInv, WithinBudget, BudgetLeft,
           \/ StartReview \/ EndReview \/ LogReview \/ LoseService
           \/ LackReview \/ FailReview \/ ReviewerDies
           \/ \E d \in Verdicts : Decide(d)
           \/ \E j \in Jobs : SkipReview(j) \/ BeginReview(j) \/ Direct(j)
    PROVE  WithinBudget' /\ BudgetLeft'
  <1>1. UNCHANGED <<files, studio>>
    BY DEF StartReview, EndReview, LogReview, LoseService, LackReview,
           FailReview, ReviewerDies, Decide, SkipReview, BeginReview, Direct,
           RejectImage, AcceptOcrReview, AcceptGeometryReview, Resolve, ledger
  <1>2. ASSUME NEW j \in Jobs PROVE jobs'[j].attempts = jobs[j].attempts
    <2>1. CASE StartReview
      BY <2>1 DEF StartReview, TakenOver, IInv, RowsTyped, Rows
    <2>2. CASE \/ LoseService \/ LackReview \/ FailReview
               \/ \E i \in Jobs : BeginReview(i)
      <3>1. PICK i, state : jobs' = [jobs EXCEPT ![i].state = state]
        BY <2>2 DEF LoseService, LackReview, FailReview, BeginReview
      <3> QED
        BY <3>1 DEF IInv, RowsTyped, Rows
    <2>5. CASE \/ EndReview \/ LogReview \/ ReviewerDies
               \/ \E i \in Jobs : SkipReview(i)
      BY <2>5 DEF EndReview, LogReview, ReviewerDies, SkipReview, ledger
    <2>3. CASE \E d \in Verdicts : Decide(d)
      BY <2>3 DEF Decide, IInv, RowsTyped, Rows
    <2>4. CASE \E i \in Jobs : Direct(i)
      BY <2>4 DEF Direct, RejectImage, AcceptOcrReview, AcceptGeometryReview,
             Resolve, IInv, RowsTyped, Rows
    <2> QED
      BY <2>1, <2>2, <2>3, <2>4, <2>5
  <1> QED
    BY <1>1, <1>2, OthersWithinBudget

LEMMA BudgetNext ==
    IInv /\ WithinBudget /\ BudgetLeft /\ [Next]_vars
        => WithinBudget' /\ BudgetLeft'
  <1> SUFFICES ASSUME IInv, WithinBudget, BudgetLeft, [Next]_vars
               PROVE  WithinBudget' /\ BudgetLeft'
    OBVIOUS
  <1>1. CASE LinkAttempt \/ DescribeAttempt
    BY <1>1, LinkWithinBudget, DescribeWithinBudget
  <1>2. CASE \E j \in Jobs : BeginAttempt(j)
    BY <1>2, BeginWithinBudget
  <1>3. CASE UNCHANGED vars
    BY <1>3 DEF vars, WithinBudget, BudgetLeft, From
  <1> QED
    BY <1>1, <1>2, <1>3, StudioWithinBudget, ReviewWithinBudget
    DEF Next, Publish, StudioFails, ReviewStep, ReviewFails, GenerateFor

\* A picture that stands alone is begun at most MaxAttempts times, and a
\* variant has at most MaxAttempts pictures from each picture of its source
\* (retry_allowed()), whatever is rejected, interrupted or repaired.
THEOREM BudgetHolds == Spec => []BudgetIsBounded
  <1>1. IInv /\ WithinBudget => BudgetIsBounded
    <2> SUFFICES ASSUME IInv, WithinBudget, NEW j \in Jobs, Source[j] # None,
                        NEW n \in DOMAIN files[j]
                 PROVE  Cardinality(From(j, files[j][n].plan.from)) <= MaxAttempts
      BY DEF BudgetIsBounded, WithinBudget, From
    <2>1. files[j][n].plan.from \in Nat
      BY DEF IInv, FilesTyped, Files, Plans
    <2> QED
      BY <2>1 DEF WithinBudget
  <1>2. Spec => [](WithinBudget /\ BudgetLeft)
    <2>1. IInv /\ (WithinBudget /\ BudgetLeft) /\ [Next]_vars
              => (WithinBudget /\ BudgetLeft)'
      BY BudgetNext
    <2>2. Spec => []IInv
      BY Invariance
    <2> QED
      BY BudgetInit, <2>1, <2>2, PTL DEF Spec
  <1> QED
    BY <1>1, <1>2, Invariance, PTL

----------------------------------------------------------------------------
(* The ledger with batches at remote workers.                             *)

Table == DOMAIN jobs = Jobs /\ \A j \in Jobs : "state" \in DOMAIN jobs[j]

Pictures ==
    /\ DOMAIN files = Jobs
    /\ \A j \in Jobs : \A n \in DOMAIN files[j] :
          "by" \in DOMAIN files[j][n] /\ "plan" \in DOMAIN files[j][n]

Batches ==
    /\ DOMAIN batches = Numbers
    /\ \A b \in Numbers :
          "state" \in DOMAIN batches[b] /\ "sealed" \in DOMAIN batches[b]

Agents ==
    /\ DOMAIN agent = Workers
    /\ \A w \in Workers : agent[w].at \notin {"idle", "attention"} =>
          "at" \in DOMAIN agent[w] /\ "batch" \in DOMAIN agent[w]

Studio ==
    studio.at # "idle" => {"at", "queue", "job"} \subseteq DOMAIN studio

HasLock(w) == agent[w].at \in {"file", "describe"}

ImportsLocked ==
    /\ DOMAIN lock = {"generation", "review"}
    /\ studio.at # "idle" => lock["generation"] = "studio"
    /\ \A w \in Workers : HasLock(w) => lock["generation"] = w

Importing ==
    \A w \in Workers : HasLock(w) =>
        /\ agent[w].batch \in Reserved
        /\ \A j \in JobsOf(agent[w].batch) : owner[j] = agent[w].batch

\* What the generator works on is not out at a worker.
NotOut ==
    studio.at # "idle" =>
        /\ \A j \in DOMAIN studio.queue :
              j \in Jobs /\ jobs[j].state # "remote_reserved"
        /\ studio.at # "next" => studio.job \in DOMAIN studio.queue

BatchIInv == Table /\ Pictures /\ Batches /\ Agents /\ Studio /\ ImportsLocked
        /\ Importing /\ NotOut

-----------------------------------------------------------------------------
(* What a step does to one job and to its pictures.                        *)

Released(j) ==
    jobs[j].state = "remote_reserved" /\ jobs'[j].state # "remote_reserved"
    => \/ batches'[owner[j]].state # "reserved"
       \/ <<j, jobs[j].image>> \in refused' /\ batches' = batches
       \/ reviewer.at # "idle" /\ reviewer.job = j
       \/ jobs'[j].state = "reviewing"

Stays(j) ==
    \A n \in DOMAIN files[j] :
        /\ n \in DOMAIN files'[j]
        /\ files'[j][n].by = files[j][n].by
        /\ files'[j][n].plan = files[j][n].plan

StepOK == BatchIInv' /\ \A j \in Jobs : Released(j) /\ Stays(j)

LEMMA InitBatchIInv == RemoteInit => BatchIInv
  <1> SUFFICES ASSUME RemoteInit PROVE BatchIInv
    OBVIOUS
  <1>1. Table /\ Pictures /\ Batches
    BY DEF RemoteInit, Init, Table, Pictures, Batches, NoBatch
  <1>2. Agents /\ Studio /\ ImportsLocked /\ Importing /\ NotOut
    BY DEF RemoteInit, Init, Agents, Studio, ImportsLocked, Importing, NotOut, HasLock, Idle
  <1> QED
    BY <1>1, <1>2 DEF BatchIInv

-----------------------------------------------------------------------------
(* The generator.                                                          *)

\* Steps of the generator and the others leave the batches alone.
LEMMA LocalKeeps ==
  ASSUME BatchIInv, UNCHANGED remote, Table', Pictures', Studio', NotOut', ImportsLocked',
         \A j \in Jobs : Released(j) /\ Stays(j)
  PROVE  StepOK
  <1>1. Batches' /\ Agents'
    BY DEF BatchIInv, Batches, Agents, remote
  <1>2. Importing'
    BY DEF BatchIInv, Importing, HasLock, Reserved, JobsOf, Sealed, remote
  <1> QED
    BY <1>1, <1>2 DEF StepOK, BatchIInv

\* Pictures that stay as they are.
LEMMA FilesKept ==
  ASSUME BatchIInv, UNCHANGED files
  PROVE  Pictures' /\ \A j \in Jobs : Stays(j)
  BY DEF BatchIInv, Pictures, Stays

LEMMA StartGenerateOK == ASSUME BatchIInv, StartGenerate, UNCHANGED remote PROVE StepOK
  <1>1. /\ Table' /\ \A j \in Jobs : jobs[j].state = "remote_reserved" =>
              jobs'[j].state = "remote_reserved"
    BY DEF BatchIInv, Table, StartGenerate, SourceChanged
  <1>2. Studio' /\ ImportsLocked'
    <2>1. ~ \E w \in Workers : HasLock(w)
      BY WorkersAreNames DEF BatchIInv, ImportsLocked, StartGenerate
    <2>2. UNCHANGED agent
      BY DEF remote
    <2> QED
      BY <2>1, <2>2 DEF BatchIInv, Studio, ImportsLocked, HasLock, StartGenerate
  <1>3. NotOut'
    BY DEF StartGenerate, NotOut, Queued
  <1>4. UNCHANGED files
    BY DEF StartGenerate
  <1> QED
    BY <1>1, <1>2, <1>3, <1>4, FilesKept, LocalKeeps DEF Released

\* The generator is done, gives up or dies.
LEMMA StudioEndsOK ==
  ASSUME BatchIInv, StudioEnds, UNCHANGED <<files, remote>>, Table', studio.at # "idle",
         \A j \in Jobs : jobs[j].state = "remote_reserved" => jobs'[j] = jobs[j]
  PROVE  StepOK
  <1>1. ~ \E w \in Workers : HasLock(w)
    BY WorkersAreNames DEF BatchIInv, ImportsLocked
  <1>2. Studio' /\ NotOut' /\ ImportsLocked'
    BY <1>1 DEF BatchIInv, Studio, NotOut, ImportsLocked, HasLock, StudioEnds, Idle, remote
  <1> QED
    BY <1>2, FilesKept, LocalKeeps DEF Released

LEMMA StudioStopsOK ==
  ASSUME BatchIInv, UNCHANGED remote,
         EndGenerate \/ StudioFails \/ \E j \in Jobs : RefuseToOverwrite(j)
  PROVE  StepOK
  <1>1. StudioEnds /\ UNCHANGED files /\ studio.at # "idle"
    BY DEF EndGenerate, StudioFails, FailAttempt, StudioDies, RefuseToOverwrite, ledger
  <1>2. /\ Table'
        /\ \A j \in Jobs : jobs[j].state = "remote_reserved" => jobs'[j] = jobs[j]
    <2>1. CASE FailAttempt
      <3>1. jobs' = [jobs EXCEPT ![studio.job].state = "generation_error"]
        BY <2>1 DEF FailAttempt
      <3>2. studio.job \in Jobs /\ jobs[studio.job].state # "remote_reserved"
        BY <2>1 DEF BatchIInv, NotOut, FailAttempt
      <3> QED
        BY <3>1, <3>2 DEF BatchIInv, Table
    <2>2. CASE UNCHANGED jobs
      BY <2>2 DEF BatchIInv, Table
    <2> QED
      BY <2>1, <2>2 DEF EndGenerate, StudioFails, StudioDies, RefuseToOverwrite, ledger
  <1> QED
    BY <1>1, <1>2, StudioEndsOK

\* The generator stays at work, and what it changes is not out.
LEMMA StudioGoesOn ==
  ASSUME BatchIInv, UNCHANGED <<lock, remote>>, Table', Pictures',
         \A j \in Jobs : jobs[j].state = "remote_reserved" => jobs'[j] = jobs[j],
         \A j \in Jobs : Stays(j),
         studio.at # "idle", studio'.at # "idle", Studio',
         DOMAIN studio'.queue \subseteq DOMAIN studio.queue,
         \A j \in Jobs : jobs'[j].state = "remote_reserved" => jobs'[j] = jobs[j],
         studio'.at # "next" => studio'.job \in DOMAIN studio'.queue
  PROVE  StepOK
  <1>1. NotOut'
    BY DEF BatchIInv, NotOut
  <1>2. ImportsLocked'
    BY DEF BatchIInv, ImportsLocked, HasLock, remote
  <1> QED
    BY <1>1, <1>2, LocalKeeps DEF Released

LEMMA GenerateForOK ==
  ASSUME BatchIInv, NEW j \in Jobs, GenerateFor(j), UNCHANGED remote PROVE StepOK
  <1>1. studio.at = "next" /\ j \in DOMAIN studio.queue /\ UNCHANGED <<files, lock, remote>>
    BY DEF GenerateFor, SkipBlocked, BeginAttempt, ledger
  <1>2. CASE SkipBlocked(j)
    <2>1. studio' = [studio EXCEPT !.queue = Without(studio.queue, j)] /\ UNCHANGED jobs
      BY <1>2 DEF SkipBlocked, ledger
    <2>2. "at" \in DOMAIN studio /\ "queue" \in DOMAIN studio
      BY <1>1 DEF BatchIInv, Studio
    <2>3. /\ studio'.at = "next" /\ studio'.queue = Without(studio.queue, j)
          /\ DOMAIN studio' = DOMAIN studio
      BY <1>1, <2>1, <2>2
    <2>4. DOMAIN studio'.queue \subseteq DOMAIN studio.queue
      BY <2>3 DEF Without
    <2>5. Studio' /\ Table'
      BY <2>1, <2>2, <2>3 DEF BatchIInv, Studio, Table
    <2> QED
      BY <1>1, <2>1, <2>3, <2>4, <2>5, FilesKept, StudioGoesOn
  <1>3. CASE BeginAttempt(j)
    <2>1. /\ studio' = [studio EXCEPT !.at = "render", !.job = j,
                                      !.plan = Plan(j, studio.queue[j])]
          /\ jobs' = [jobs EXCEPT ![j].state = "generating",
                                  ![j].attempts = NextAttempt(j)]
      BY <1>3 DEF BeginAttempt
    <2>2. /\ "at" \in DOMAIN studio /\ "queue" \in DOMAIN studio
          /\ "job" \in DOMAIN studio
      BY <1>1 DEF BatchIInv, Studio
    <2>3. /\ studio'.at = "render" /\ studio'.job = j /\ studio'.queue = studio.queue
          /\ DOMAIN studio' = DOMAIN studio
      BY <2>1, <2>2
    <2>4. /\ Table' /\ jobs'[j].state = "generating"
          /\ \A i \in Jobs : i # j => jobs'[i] = jobs[i]
      BY <2>1 DEF BatchIInv, Table
    <2>5. jobs[j].state # "remote_reserved"
      BY <1>1 DEF BatchIInv, NotOut
    <2>6. Studio'
      BY <2>2, <2>3 DEF Studio
    <2> QED
      BY <1>1, <2>3, <2>4, <2>5, <2>6, FilesKept, StudioGoesOn
  <1> QED
    BY <1>2, <1>3 DEF GenerateFor

\* The generator's picture and its metadata, row and log.
LEMMA PublishOK == ASSUME BatchIInv, Publish, UNCHANGED remote PROVE StepOK
  <1> DEFINE job == studio.job
  <1>1. /\ studio.at \in {"render", "describe", "record", "log"}
        /\ {"at", "queue", "job"} \subseteq DOMAIN studio
        /\ job \in DOMAIN studio.queue /\ job \in Jobs
        /\ jobs[job].state # "remote_reserved"
    BY DEF Publish, LinkAttempt, DescribeAttempt, RecordAttempt, LogAttempt,
           BatchIInv, Studio, NotOut
  <1>2. CASE LinkAttempt
    <2>1. /\ studio' = [studio EXCEPT !.at = "describe"]
          /\ UNCHANGED <<jobs, lock>> /\ Attempt \notin DOMAIN files[job]
          /\ files' = [files EXCEPT ![job] = Filed(files[job], Attempt,
                           [plan |-> studio.plan, by |-> 0, told |-> FALSE])]
      BY <1>2 DEF LinkAttempt
    <2>2. Pictures' /\ \A j \in Jobs : Stays(j)
      BY <1>1, <2>1 DEF BatchIInv, Pictures, Stays, Filed
    <2>3. /\ studio'.at = "describe" /\ studio'.job = job
          /\ studio'.queue = studio.queue /\ DOMAIN studio' = DOMAIN studio
      BY <1>1, <2>1
    <2>4. Table' /\ Studio'
      BY <1>1, <2>1, <2>3 DEF BatchIInv, Table, Studio
    <2> QED
      BY <1>1, <2>1, <2>2, <2>3, <2>4, StudioGoesOn
  <1>3. CASE DescribeAttempt
    <2>1. /\ studio' = [studio EXCEPT !.at = "record"]
          /\ UNCHANGED <<jobs, lock>>
          /\ files' = [files EXCEPT ![job][Attempt].told = TRUE]
      BY <1>3 DEF DescribeAttempt
    <2>2. Pictures' /\ \A j \in Jobs : Stays(j)
      BY <1>1, <2>1 DEF BatchIInv, Pictures, Stays
    <2>3. /\ studio'.at = "record" /\ studio'.job = job
          /\ studio'.queue = studio.queue /\ DOMAIN studio' = DOMAIN studio
      BY <1>1, <2>1
    <2>4. Table' /\ Studio'
      BY <1>1, <2>1, <2>3 DEF BatchIInv, Table, Studio
    <2> QED
      BY <1>1, <2>1, <2>2, <2>3, <2>4, StudioGoesOn
  <1>4. CASE RecordAttempt
    <2>1. /\ studio' = [studio EXCEPT !.at = "log"]
          /\ UNCHANGED <<files, lock>>
          /\ jobs' = [jobs EXCEPT ![job] =
                 [jobs[job] EXCEPT !.state = "generated", !.image = Attempt,
                                   !.review = None]]
      BY <1>4 DEF RecordAttempt
    <2>2. /\ Table' /\ jobs'[job].state = "generated"
          /\ \A i \in Jobs : i # job => jobs'[i] = jobs[i]
      BY <1>1, <2>1 DEF BatchIInv, Table
    <2>3. /\ studio'.at = "log" /\ studio'.job = job
          /\ studio'.queue = studio.queue /\ DOMAIN studio' = DOMAIN studio
      BY <1>1, <2>1
    <2>4. Studio'
      BY <1>1, <2>1, <2>3 DEF Studio
    <2> QED
      BY <1>1, <2>1, <2>2, <2>3, <2>4, FilesKept, StudioGoesOn
  <1>5. CASE LogAttempt
    <2>1. /\ studio' = [studio EXCEPT !.at = "next", !.job = None, !.plan = None,
                                      !.queue = Without(studio.queue, job)]
          /\ UNCHANGED <<files, jobs, lock>>
      BY <1>5 DEF LogAttempt, ledger
    <2>2. /\ studio'.at = "next" /\ studio'.queue = Without(studio.queue, job)
          /\ DOMAIN studio' = DOMAIN studio
      BY <1>1, <2>1
    <2>3. DOMAIN studio'.queue \subseteq DOMAIN studio.queue
      BY <2>2 DEF Without
    <2>4. Table' /\ Studio'
      BY <1>1, <2>1, <2>2 DEF BatchIInv, Table, Studio
    <2> QED
      BY <1>1, <2>1, <2>2, <2>3, <2>4, FilesKept, StudioGoesOn
  <1> QED
    BY <1>2, <1>3, <1>4, <1>5 DEF Publish

-----------------------------------------------------------------------------
(* The reviewer and people change states, never to a reservation.          *)

\* The generator's queue and the locks of others stay.
LEMMA OthersOK ==
  ASSUME BatchIInv, UNCHANGED <<files, studio, remote>>, Table',
         DOMAIN lock' = DOMAIN lock, lock'["generation"] = lock["generation"],
         \A j \in Jobs : Released(j),
         \A j \in Jobs : jobs'[j].state = "remote_reserved" => jobs'[j] = jobs[j]
  PROVE  StepOK
  <1>1. Studio' /\ NotOut' /\ ImportsLocked'
    BY DEF BatchIInv, Studio, NotOut, ImportsLocked, HasLock, remote
  <1> QED
    BY <1>1, FilesKept, LocalKeeps

LEMMA ReviewOK ==
  ASSUME BatchIInv, StartReview \/ EndReview \/ ReviewStep \/ ReviewFails, UNCHANGED remote
  PROVE  StepOK
  <1>1. UNCHANGED <<files, studio>>
    BY DEF StartReview, EndReview, ReviewStep, SkipReview, BeginReview, Decide,
           LogReview, ReviewFails, LoseService, LackReview, FailReview, ReviewerDies, ledger
  <1>2. DOMAIN lock' = DOMAIN lock /\ lock'["generation"] = lock["generation"]
    BY DEF StartReview, EndReview, ReviewStep, SkipReview, BeginReview, Decide,
           LogReview, ReviewFails, LoseService, LackReview, FailReview, ReviewerDies,
           ReviewerEnds, BatchIInv, ImportsLocked
  <1>3. CASE StartReview
    <2>1. jobs' = [j \in Jobs |-> TakenOver(jobs[j])]
      BY <1>3 DEF StartReview
    <2>2. ASSUME NEW j \in Jobs
          PROVE  /\ "state" \in DOMAIN TakenOver(jobs[j])
                 /\ \/ TakenOver(jobs[j]) = jobs[j]
                    \/ /\ jobs[j].state = "reviewing"
                       /\ TakenOver(jobs[j]).state = "generated"
      BY DEF TakenOver, BatchIInv, Table
    <2>3. Table'
      BY <2>1, <2>2 DEF BatchIInv, Table
    <2>4. \A j \in Jobs : Released(j)
      BY <2>1, <2>2 DEF Released
    <2>5. \A j \in Jobs : jobs'[j].state = "remote_reserved" => jobs'[j] = jobs[j]
      BY <2>1, <2>2
    <2> QED
      BY <1>1, <1>2, <2>3, <2>4, <2>5, OthersOK
  <1>4. CASE UNCHANGED jobs
    <2>1. Table' /\ \A j \in Jobs : Released(j)
      BY <1>4 DEF BatchIInv, Table, Released
    <2> QED
      BY <1>1, <1>2, <1>4, <2>1, OthersOK
  <1>5. ASSUME NEW j \in Jobs, BeginReview(j) PROVE StepOK
    <2>1. jobs' = [jobs EXCEPT ![j].state = "reviewing"]
      BY <1>5 DEF BeginReview
    <2>2. Table' /\ jobs'[j].state = "reviewing" /\ \A i \in Jobs : i # j => jobs'[i] = jobs[i]
      BY <2>1 DEF BatchIInv, Table
    <2>3. \A i \in Jobs : Released(i)
      BY <2>2 DEF Released
    <2> QED
      BY <1>1, <1>2, <2>2, <2>3, OthersOK
  <1>6. ASSUME reviewer.at # "idle", NEW state, state # "remote_reserved", Table',
               \A j \in Jobs : j = reviewer.job => jobs'[j].state = state,
               \A j \in Jobs : j # reviewer.job => jobs'[j] = jobs[j]
        PROVE  StepOK
    <2>1. \A i \in Jobs : Released(i)
      BY <1>6 DEF Released
    <2> QED
      BY <1>1, <1>2, <1>6, <2>1, OthersOK
  <1>7. ASSUME NEW d \in Verdicts, Decide(d) PROVE StepOK
    <2> DEFINE decision == HoldGeometry(reviewer.job, d)
               review == [image |-> reviewer.queue[reviewer.job].image,
                          source |-> reviewer.source, decision |-> decision]
    <2>1. StateOf(decision) # "remote_reserved"
      BY DEF HoldGeometry, StateOf, Verdicts
    <2>2. jobs' = [jobs EXCEPT ![reviewer.job].state = StateOf(decision),
                               ![reviewer.job].review = review]
      BY <1>7 DEF Decide
    <2> HIDE DEF decision, review
    <2>3. /\ Table'
          /\ \A j \in Jobs : j = reviewer.job => jobs'[j].state = StateOf(decision)
          /\ \A j \in Jobs : j # reviewer.job => jobs'[j] = jobs[j]
      BY <2>2 DEF BatchIInv, Table
    <2>4. reviewer.at # "idle"
      BY <1>7 DEF Decide
    <2> QED
      BY <1>6, <2>1, <2>3, <2>4
  <1>8. CASE ReviewFails /\ ~ UNCHANGED jobs
    <2>1. PICK state \in {"generated", "review_error"} :
            jobs' = [jobs EXCEPT ![reviewer.job].state = state]
      BY <1>8 DEF ReviewFails, LoseService, LackReview, FailReview, ReviewerDies, ledger
    <2>2. /\ Table'
          /\ \A j \in Jobs : j = reviewer.job => jobs'[j].state = state
          /\ \A j \in Jobs : j # reviewer.job => jobs'[j] = jobs[j]
      BY <2>1 DEF BatchIInv, Table
    <2>3. reviewer.at # "idle"
      BY <1>8 DEF ReviewFails, LoseService, LackReview, FailReview, ReviewerDies
    <2> QED
      BY <1>6, <2>2, <2>3
  <1> QED
    BY <1>3, <1>4, <1>5, <1>7, <1>8
       DEF EndReview, ReviewStep, SkipReview, LogReview, ledger

LEMMA DirectOK ==
  ASSUME BatchIInv, NEW j \in Jobs, Direct(j), UNCHANGED remote PROVE StepOK
  <1>1. UNCHANGED <<files, studio, lock>>
    BY DEF Direct, RejectImage, AcceptOcrReview, AcceptGeometryReview, Resolve
  <1>2. CASE RejectImage(j)
    <2>1. /\ jobs' = [jobs EXCEPT ![j].state = "rejected"] /\ UNCHANGED batches
          /\ <<j, jobs[j].image>> \in refused'
      BY <1>2 DEF RejectImage, remote
    <2>2. Table' /\ jobs'[j].state = "rejected" /\ \A i \in Jobs : i # j => jobs'[i] = jobs[i]
      BY <2>1 DEF BatchIInv, Table
    <2>3. \A i \in Jobs : Released(i)
      BY <2>1, <2>2 DEF Released
    <2> QED
      BY <1>1, <2>2, <2>3, OthersOK
  <1>3. ASSUME NEW decision \in {"accepted", "held"}, Resolve(j, decision),
               jobs[j].state = "review_required"
        PROVE  StepOK
    <2>1. jobs' = [jobs EXCEPT ![j].state = StateOf(decision),
                               ![j].review.decision = decision]
      BY <1>3 DEF Resolve
    <2>2. StateOf(decision) # "remote_reserved"
      BY DEF StateOf
    <2>3. /\ Table' /\ jobs'[j].state = StateOf(decision)
          /\ \A i \in Jobs : i # j => jobs'[i] = jobs[i]
      BY <2>1 DEF BatchIInv, Table
    <2>4. \A i \in Jobs : Released(i)
      BY <1>3, <2>2, <2>3 DEF Released
    <2> QED
      BY <1>1, <2>2, <2>3, <2>4, OthersOK
  <1>4. CASE AcceptOcrReview(j)
    BY <1>3, <1>4 DEF AcceptOcrReview, HoldGeometry
  <1>5. CASE AcceptGeometryReview(j)
    BY <1>3, <1>5 DEF AcceptGeometryReview, AwaitsGeometry
  <1> QED
    BY <1>2, <1>4, <1>5 DEF Direct

-----------------------------------------------------------------------------
(* The coordinators.                                                       *)

\* One coordinator moves outside the lock, and no batch ends.
LEMMA AgentMoves ==
  ASSUME BatchIInv, NEW w \in Workers, NEW state, agent' = [agent EXCEPT ![w] = state],
         UNCHANGED <<jobs, files, studio, lock, owner>>, ~HasLock(w),
         state.at \notin {"file", "describe"},
         state.at \notin {"idle", "attention"} =>
             "at" \in DOMAIN state /\ "batch" \in DOMAIN state,
         Batches', \A b \in Numbers : batches'[b].state = batches[b].state
                                 /\ batches'[b].sealed = batches[b].sealed
  PROVE  StepOK
  <1>1. Table' /\ Pictures' /\ Studio' /\ NotOut'
    BY DEF BatchIInv, Table, Pictures, Studio, NotOut
  <1>2. Agents' /\ ImportsLocked'
    BY DEF BatchIInv, Agents, ImportsLocked, HasLock
  <1>3. agent'[w] = state /\ \A v \in Workers : v # w => agent'[v] = agent[v]
    BY DEF BatchIInv, Agents
  <1>4. Importing'
    <2>1. \A v \in Workers : HasLock(v)' =>
             v # w /\ agent'[v] = agent[v] /\ HasLock(v)
      BY <1>3 DEF HasLock
    <2> QED
      BY <2>1 DEF BatchIInv, Importing, Reserved, JobsOf, Sealed
  <1>5. \A j \in Jobs : Released(j) /\ Stays(j)
    BY DEF Released, Stays
  <1> QED
    BY <1>1, <1>2, <1>4, <1>5 DEF StepOK, BatchIInv

\* Finding a batch again, refusing it and being started again.
LEMMA WaitingOK ==
  ASSUME BatchIInv, NEW w \in Workers, Resume(w) \/ RefuseImport(w) \/ Restart(w)
  PROVE  StepOK
  <1>1. /\ UNCHANGED <<jobs, files, studio, lock, owner, batches>> /\ ~HasLock(w)
    BY DEF Resume, RefuseImport, Restart, At, HasLock, vars
  <1>2. Batches'
    BY <1>1 DEF BatchIInv, Batches
  <1>3. ASSUME NEW b, Goes(w, Busy(w, "render", b)) PROVE StepOK
    <2> DEFINE state == [at |-> "render", batch |-> b, job |-> None, done |-> {}]
    <2>1. agent' = [agent EXCEPT ![w] = state]
      BY <1>3 DEF Goes, Busy
    <2>2. state.at = "render" /\ "at" \in DOMAIN state /\ "batch" \in DOMAIN state
      OBVIOUS
    <2> HIDE DEF state
    <2> QED
      BY <1>1, <1>2, <2>1, <2>2, AgentMoves
  <1>4. ASSUME NEW state, state.at \in {"idle", "attention"}, Goes(w, state)
        PROVE  StepOK
    BY <1>1, <1>2, <1>4, AgentMoves DEF Goes
  <1>5. CASE Resume(w)
    BY <1>3, <1>5 DEF Resume
  <1>6. CASE RefuseImport(w)
    <2> DEFINE state == [at |-> "attention"]
    <2>1. state.at = "attention" /\ Goes(w, state)
      BY <1>6 DEF RefuseImport
    <2> HIDE DEF state
    <2> QED
      BY <1>4, <2>1
  <1>7. CASE Restart(w)
    <2>1. Idle.at = "idle" /\ Goes(w, Idle)
      BY <1>7 DEF Restart, Idle
    <2> QED
      BY <1>4, <2>1
  <1> QED
    BY <1>5, <1>6, <1>7

LEMMA ReceiveOK == ASSUME BatchIInv, NEW w \in Workers, Receive(w) PROVE StepOK
  <1> DEFINE b == agent[w].batch
             state == [agent[w] EXCEPT !.at = "import"]
  <1>1. /\ agent' = [agent EXCEPT ![w] = state] /\ agent[w].at = "render" /\ ~HasLock(w)
        /\ UNCHANGED <<jobs, files, studio, lock, owner>>
        /\ batches' = [batches EXCEPT ![b].returned = TRUE]
    BY DEF Receive, Goes, At, HasLock, vars
  <1>2. "at" \in DOMAIN agent[w] /\ "batch" \in DOMAIN agent[w]
    BY <1>1 DEF BatchIInv, Agents
  <1>3. state.at = "import" /\ "at" \in DOMAIN state /\ "batch" \in DOMAIN state
    BY <1>2
  <1> HIDE DEF b, state
  <1>4. Batches' /\ \A c \in Numbers : batches'[c].state = batches[c].state
                                      /\ batches'[c].sealed = batches[c].sealed
    BY <1>1 DEF BatchIInv, Batches
  <1> QED
    BY <1>1, <1>3, <1>4, AgentMoves

\* Jobs that can be rendered are queued, so none of them is out already; the
\* generator is not at work.
LEMMA ReserveOK == ASSUME BatchIInv, NEW w \in Workers, Reserve(w) PROVE StepOK
  <1>1. /\ agent[w].at = "idle" /\ lock["generation"] = None
        /\ UNCHANGED <<files, studio, lock>>
    BY DEF Reserve, At, GenerationFree
  <1> DEFINE packed(S) ==
               [j \in S |-> [plan |-> Plan(j, jobs[j]), state |-> jobs[j].state,
                             attempt |-> jobs[j].attempts + 1,
                             image |-> jobs[j].image]]
             batch(S) == [worker |-> w, state |-> "reserved", returned |-> FALSE,
                          sealed |-> packed(S)]
             busy(b) == [at |-> "render", batch |-> b, job |-> None, done |-> {}]
  <1>2. PICK S \in (SUBSET Eligible) \ {{}}, b \in Numbers :
          /\ batches' = [batches EXCEPT ![b] = batch(S)]
          /\ jobs' = [j \in Jobs |->
                IF j \in S THEN [jobs[j] EXCEPT !.state = "remote_reserved"]
                ELSE jobs[j]]
          /\ agent' = [agent EXCEPT ![w] = busy(b)]
    BY Zenon DEF Reserve, Goes, Busy
  <1> HIDE DEF packed
  <1>3. /\ studio.at = "idle" /\ ~ \E v \in Workers : HasLock(v)
    BY <1>1, NoneIsNothing, WorkersAreNames DEF BatchIInv, ImportsLocked
  <1>4. Table' /\ \A j \in Jobs : jobs[j].state = "remote_reserved" =>
                                     jobs'[j].state = "remote_reserved"
    BY <1>2 DEF BatchIInv, Table
  <1>5. Batches'
    BY <1>2 DEF BatchIInv, Batches
  <1>6. Agents' /\ ~ \E v \in Workers : HasLock(v)'
    BY <1>1, <1>2, <1>3 DEF BatchIInv, Agents, HasLock
  <1>7. Pictures' /\ Studio' /\ ImportsLocked' /\ Importing' /\ NotOut'
    BY <1>1, <1>3, <1>6 DEF BatchIInv, Pictures, Studio, ImportsLocked, Importing, NotOut
  <1>8. \A j \in Jobs : Released(j) /\ Stays(j)
    BY <1>1, <1>4 DEF Released, Stays
  <1> QED
    BY <1>4, <1>5, <1>6, <1>7, <1>8 DEF StepOK, BatchIInv

\* An import begins with the lock and with jobs that are its own.
LEMMA OpenImportOK == ASSUME BatchIInv, NEW w \in Workers, OpenImport(w) PROVE StepOK
  <1> DEFINE state == [agent[w] EXCEPT !.at = "file"]
  <1>1. /\ agent' = [agent EXCEPT ![w] = state] /\ agent[w].at = "import"
        /\ lock["generation"] = None
        /\ lock' = [lock EXCEPT !["generation"] = w]
        /\ UNCHANGED <<jobs, files, studio, batches, owner>>
        /\ Importable(agent[w].batch)
    BY DEF OpenImport, Goes, At, GenerationFree, ledger
  <1>2. studio.at = "idle" /\ ~ \E v \in Workers : HasLock(v)
    BY <1>1, NoneIsNothing, WorkersAreNames DEF BatchIInv, ImportsLocked
  <1>3. "at" \in DOMAIN agent[w] /\ "batch" \in DOMAIN agent[w]
    BY <1>1 DEF BatchIInv, Agents
  <1>4. /\ state.at = "file" /\ state.batch = agent[w].batch
        /\ "at" \in DOMAIN state /\ "batch" \in DOMAIN state
    BY <1>3
  <1> HIDE DEF state
  <1>5. agent'[w] = state /\ \A v \in Workers : v # w => agent'[v] = agent[v]
    BY <1>1 DEF BatchIInv, Agents
  <1>6. /\ agent[w].batch \in Reserved
        /\ \A j \in JobsOf(agent[w].batch) : owner[j] = agent[w].batch
    BY <1>1 DEF Importable, Held
  <1>7. \A v \in Workers : HasLock(v)' => v = w
    BY <1>2, <1>5 DEF HasLock
  <1>8. Importing'
    BY <1>1, <1>4, <1>5, <1>6, <1>7 DEF Importing, Reserved, JobsOf, Sealed
  <1>9. ImportsLocked'
    BY <1>1, <1>2, <1>7 DEF BatchIInv, ImportsLocked
  <1>10. Agents'
    BY <1>1, <1>4, <1>5 DEF BatchIInv, Agents
  <1>11. Table' /\ Pictures' /\ Batches' /\ Studio' /\ NotOut'
    BY <1>1, <1>2 DEF BatchIInv, Table, Pictures, Batches, Studio, NotOut
  <1>12. \A j \in Jobs : Released(j) /\ Stays(j)
    BY <1>1 DEF Released, Stays
  <1> QED
    BY <1>8, <1>9, <1>10, <1>11, <1>12 DEF StepOK, BatchIInv

\* A picture is filed or described by the one that has the lock.
LEMMA FilingOK ==
  ASSUME BatchIInv, NEW w \in Workers, DescribeImport(w) \/ \E j \in Jobs : LinkImport(w, j)
  PROVE  StepOK
  <1> DEFINE b == agent[w].batch
  <1>1. HasLock(w) /\ UNCHANGED <<jobs, lock, studio, batches, owner>>
    BY DEF DescribeImport, LinkImport, ToFile, At, HasLock
  <1>2. "at" \in DOMAIN agent[w] /\ "batch" \in DOMAIN agent[w]
    BY <1>1 DEF BatchIInv, Agents, HasLock
  <1>3. /\ Pictures' /\ \A j \in Jobs : Stays(j)
        /\ \E state : /\ agent' = [agent EXCEPT ![w] = state]
                      /\ state.at \in {"file", "describe"} /\ state.batch = b
                      /\ "at" \in DOMAIN state /\ "batch" \in DOMAIN state
    <2>1. ASSUME NEW j \in Jobs, LinkImport(w, j)
          PROVE  /\ Pictures' /\ \A i \in Jobs : Stays(i)
                 /\ agent' = [agent EXCEPT ![w] =
                        [agent[w] EXCEPT !.at = "describe", !.job = j]]
      <3>1. \/ UNCHANGED files
            \/ /\ Sealed(b)[j].attempt \notin DOMAIN files[j]
               /\ files' = [files EXCEPT ![j] =
                      Filed(files[j], Sealed(b)[j].attempt, ImportedFile(b, j))]
        BY <2>1 DEF LinkImport
      <3>2. Pictures' /\ \A i \in Jobs : Stays(i)
        BY <3>1 DEF BatchIInv, Pictures, Stays, Filed, ImportedFile
      <3> QED
        BY <2>1, <3>2 DEF LinkImport, Goes
    <2>2. ASSUME DescribeImport(w)
          PROVE  /\ Pictures' /\ \A i \in Jobs : Stays(i)
                 /\ agent' = [agent EXCEPT ![w] =
                        [agent[w] EXCEPT !.at = "file", !.job = None,
                             !.done = agent[w].done \cup {agent[w].job}]]
      <3>1. files' = [files EXCEPT
                         ![agent[w].job][Sealed(b)[agent[w].job].attempt].told = TRUE]
        BY <2>2 DEF DescribeImport
      <3>2. Pictures' /\ \A i \in Jobs : Stays(i)
        BY <3>1 DEF BatchIInv, Pictures, Stays
      <3> QED
        BY <2>2, <3>2 DEF DescribeImport, Goes
    <2> QED
      BY <1>2, <2>1, <2>2
  <1>4. PICK state : /\ agent' = [agent EXCEPT ![w] = state]
                     /\ state.at \in {"file", "describe"} /\ state.batch = b
                     /\ "at" \in DOMAIN state /\ "batch" \in DOMAIN state
    BY <1>3
  <1>5. agent'[w] = state /\ \A v \in Workers : v # w => agent'[v] = agent[v]
    BY <1>4 DEF BatchIInv, Agents
  <1>6. Agents' /\ ImportsLocked'
    BY <1>1, <1>4, <1>5 DEF BatchIInv, Agents, ImportsLocked, HasLock
  <1>7. Importing'
    <2>1. \A v \in Workers : HasLock(v)' => HasLock(v) /\ agent'[v].batch = agent[v].batch
      BY <1>1, <1>4, <1>5 DEF HasLock
    <2> QED
      BY <1>1, <2>1 DEF BatchIInv, Importing, Reserved, JobsOf, Sealed
  <1>8. Table' /\ Batches' /\ Studio' /\ NotOut' /\ \A j \in Jobs : Released(j)
    BY <1>1 DEF BatchIInv, Table, Batches, Studio, NotOut, Released
  <1> QED
    BY <1>3, <1>6, <1>7, <1>8 DEF StepOK, BatchIInv

\* The lock is given back.
LEMMA LockDrops ==
  ASSUME BatchIInv, NEW w \in Workers, LockDropped(w), UNCHANGED studio,
         NEW state, agent' = [agent EXCEPT ![w] = state],
         state.at \in {"idle", "attention"}
  PROVE  /\ Agents' /\ ImportsLocked' /\ Studio'
         /\ \A v \in Workers : HasLock(v)' => v # w /\ HasLock(v) /\ agent'[v] = agent[v]
  <1>1. agent'[w] = state /\ \A v \in Workers : v # w => agent'[v] = agent[v]
    BY DEF BatchIInv, Agents
  <1>2. Agents' /\ Studio'
    BY <1>1 DEF BatchIInv, Agents, Studio
  <1>3. \A v \in Workers : HasLock(v)' => v # w /\ HasLock(v) /\ agent'[v] = agent[v]
    BY <1>1 DEF HasLock
  <1>4. ImportsLocked'
    BY <1>3, WorkersAreNames DEF BatchIInv, ImportsLocked, LockDropped
  <1> QED
    BY <1>2, <1>3, <1>4

LEMMA AbandonOK ==
  ASSUME BatchIInv, NEW w \in Workers,
         CoordinatorDies(w) \/ \E j \in Jobs : ConflictImport(w, j)
  PROVE  StepOK
  <1>1. LockDropped(w) /\ UNCHANGED <<jobs, files, studio, batches, owner>>
    BY DEF CoordinatorDies, ConflictImport, ledger
  <1> DEFINE stopped == [at |-> "attention"]
  <1>2. stopped.at = "attention" /\ Idle.at = "idle"
    BY DEF Idle
  <1>3. /\ agent' = [agent EXCEPT ![w] = Idle] \/ agent' = [agent EXCEPT ![w] = stopped]
    BY DEF CoordinatorDies, ConflictImport, Goes
  <1> HIDE DEF stopped
  <1>4. /\ Agents' /\ ImportsLocked' /\ Studio'
        /\ \A v \in Workers : HasLock(v)' => HasLock(v) /\ agent'[v] = agent[v]
    BY <1>1, <1>2, <1>3, LockDrops
  <1>5. Importing'
    BY <1>1, <1>4 DEF BatchIInv, Importing, Reserved, JobsOf, Sealed
  <1>6. Table' /\ Pictures' /\ Batches' /\ NotOut'
    BY <1>1 DEF BatchIInv, Table, Pictures, Batches, NotOut
  <1>7. \A j \in Jobs : Released(j) /\ Stays(j)
    BY <1>1 DEF Released, Stays
  <1> QED
    BY <1>4, <1>5, <1>6, <1>7 DEF StepOK, BatchIInv

\* A batch ends, with its lock or while nobody has it.
LEMMA BatchEnds ==
  ASSUME BatchIInv, NEW b \in Reserved, NEW state, state # "reserved",
         batches' = [batches EXCEPT ![b].state = state],
         UNCHANGED <<files, studio>>, studio.at = "idle",
         Agents', ImportsLocked', Table',
         \A v \in Workers : ~HasLock(v)',
         \A j \in JobsOf(b) : owner[j] = b,
         \A j \in Jobs \ JobsOf(b) : jobs'[j] = jobs[j]
  PROVE  StepOK
  <1>1. Batches' /\ batches'[b].state = state
    BY DEF BatchIInv, Batches, Reserved
  <1>2. Pictures' /\ Studio' /\ NotOut' /\ Importing'
    BY DEF BatchIInv, Pictures, Studio, NotOut, Importing
  <1>3. \A j \in Jobs : Released(j) /\ Stays(j)
    BY <1>1 DEF Released, Stays
  <1> QED
    BY <1>1, <1>2, <1>3 DEF StepOK, BatchIInv

LEMMA CommitImportOK == ASSUME BatchIInv, NEW w \in Workers, CommitImport(w) PROVE StepOK
  <1> DEFINE b == agent[w].batch
  <1>1. /\ HasLock(w) /\ LockDropped(w) /\ UNCHANGED <<files, studio>>
        /\ agent' = [agent EXCEPT ![w] = Idle]
        /\ batches' = [batches EXCEPT ![b].state = "imported"]
    BY DEF CommitImport, HasLock, At, Goes
  <1>2. /\ b \in Reserved /\ (\A j \in JobsOf(b) : owner[j] = b)
        /\ lock["generation"] = w
    BY <1>1 DEF BatchIInv, Importing, ImportsLocked
  <1>3. /\ studio.at = "idle" /\ \A v \in Workers : HasLock(v) => v = w
    BY <1>2, WorkersAreNames DEF BatchIInv, ImportsLocked
  <1>4. Idle.at = "idle"
    BY DEF Idle
  <1>5. Agents' /\ ImportsLocked' /\ \A v \in Workers : ~HasLock(v)'
    BY <1>1, <1>3, <1>4, LockDrops
  <1>6. Table' /\ \A j \in Jobs \ JobsOf(b) : jobs'[j] = jobs[j]
    BY DEF CommitImport, BatchIInv, Table
  <1> QED
    BY <1>1, <1>2, <1>3, <1>5, <1>6, BatchEnds

LEMMA CancelOK == ASSUME BatchIInv, NEW b \in Numbers, Cancel(b) PROVE StepOK
  <1>1. /\ lock["generation"] = None /\ UNCHANGED <<files, studio, lock, agent>>
        /\ batches' = [batches EXCEPT ![b].state = "cancelled"]
        /\ b \in Reserved
    BY DEF Cancel, GenerationFree
  <1>2. \A j \in JobsOf(b) : owner[j] = b
    BY DEF Cancel, Cancellable, Held
  <1>3. studio.at = "idle" /\ \A v \in Workers : ~HasLock(v)
    BY <1>1, NoneIsNothing, WorkersAreNames DEF BatchIInv, ImportsLocked
  <1>4. Agents' /\ ImportsLocked' /\ \A v \in Workers : ~HasLock(v)'
    BY <1>1, <1>3 DEF BatchIInv, Agents, ImportsLocked, HasLock
  <1>5. Table' /\ \A j \in Jobs \ JobsOf(b) : jobs'[j] = jobs[j]
    BY DEF Cancel, BatchIInv, Table
  <1> QED
    BY <1>1, <1>2, <1>3, <1>4, <1>5, BatchEnds

-----------------------------------------------------------------------------
(* All steps.                                                              *)

LEMMA LocalOK == ASSUME BatchIInv, Local PROVE StepOK
  <1>1. LocalStep /\ UNCHANGED remote
    BY DEF Local
  <1> QED
    BY <1>1, StartGenerateOK, StudioStopsOK, GenerateForOK, PublishOK, ReviewOK, DirectOK
       DEF LocalStep

LEMMA RefuseOK == ASSUME BatchIInv, NEW j \in Jobs, RefuseToOverwrite(j) PROVE StepOK
  <1>1. UNCHANGED remote
    BY DEF RefuseToOverwrite
  <1> QED
    BY <1>1, StudioStopsOK

LEMMA CoordinateOK == ASSUME BatchIInv, NEW w \in Workers, Coordinate(w) PROVE StepOK
  BY WaitingOK, ReceiveOK, ReserveOK, OpenImportOK, FilingOK, AbandonOK, CommitImportOK
     DEF Coordinate, ReserveStep, DecideImport, ImportStep

LEMMA NextOK == ASSUME BatchIInv, [RemoteNext]_allVars PROVE StepOK
  <1>1. CASE UNCHANGED allVars
    <2>1. UNCHANGED <<jobs, files, lock, studio, remote>>
      BY <1>1 DEF allVars, vars
    <2>2. Table' /\ Pictures' /\ Studio' /\ NotOut' /\ ImportsLocked'
      BY <2>1 DEF BatchIInv, Table, Pictures, Studio, NotOut, ImportsLocked, HasLock, remote
    <2>3. \A j \in Jobs : Released(j) /\ Stays(j)
      BY <2>1 DEF Released, Stays
    <2> QED
      BY <2>1, <2>2, <2>3, LocalKeeps
  <1>2. CASE RemoteNext
    BY <1>2, LocalOK, RefuseOK, CoordinateOK, WaitingOK, AbandonOK, CancelOK DEF RemoteNext
  <1> QED
    BY <1>1, <1>2

\* The generator's lock keeps batches, imports and the generator apart
\* (reserve(), import_results(), cancel(), generate()).
THEOREM BatchInvariance == RemoteSpec => []BatchIInv
  BY InitBatchIInv, NextOK, PTL DEF RemoteSpec, StepOK

\* A picture on disk is never replaced, whoever writes where (os.link,
\* import_results()).
THEOREM PicturesStay == RemoteSpec => FilesStay
  <1>1. ASSUME BatchIInv, [RemoteNext]_allVars
        PROVE  [\A j \in Jobs : \A n \in DOMAIN files[j] :
                  /\ n \in DOMAIN files'[j]
                  /\ files'[j][n].by = files[j][n].by
                  /\ files'[j][n].plan = files[j][n].plan]_allVars
    BY <1>1, NextOK DEF StepOK, Stays
  <1> QED
    BY <1>1, BatchInvariance, PTL DEF RemoteSpec, FilesStay

\* A job that is out at a worker stays out until its own batch ends, unless
\* people refuse its picture or the reviewer has it (cancel(),
\* import_results()).
THEOREM OutUntilItsBatchEnds == RemoteSpec => ReleasedByItsBatch
  <1>1. ASSUME BatchIInv, [RemoteNext]_allVars
        PROVE  [\A j \in Jobs :
                  jobs[j].state = "remote_reserved" /\ jobs'[j].state # "remote_reserved"
                  => \/ batches'[owner[j]].state # "reserved"
                     \/ <<j, jobs[j].image>> \in refused' /\ batches' = batches
                     \/ reviewer.at # "idle" /\ reviewer.job = j
                     \/ jobs'[j].state = "reviewing"]_allVars
    BY <1>1, NextOK DEF StepOK, Released
  <1> QED
    BY <1>1, BatchInvariance, PTL DEF RemoteSpec, ReleasedByItsBatch

-----------------------------------------------------------------------------
(* Refusals beside batches.                                                *)

RowFields == {"state", "attempts", "image", "review"}

\* No row names a picture beyond its attempts.
RowNumbers ==
    \A j \in Jobs :
        /\ DOMAIN jobs[j] = RowFields
        /\ jobs[j].attempts \in Nat /\ jobs[j].image \in Nat
        /\ jobs[j].image <= jobs[j].attempts

\* People refuse pictures that were attempted.
RefusedOld ==
    /\ refused \subseteq Jobs \X Nat
    /\ \A j \in Jobs, n \in Nat :
          <<j, n>> \in refused => n <= jobs[j].attempts

\* What the reviewer has queued is not refused: people refuse nothing meanwhile.
ReviewsUnrefused ==
    reviewer.at # "idle" =>
        /\ {"at", "queue", "job", "source", "errors"} \subseteq DOMAIN reviewer
        /\ lock["review"] = "reviewer"
        /\ \A j \in DOMAIN reviewer.queue :
              j \in Jobs /\ <<j, jobs[j].image>> \notin refused
        /\ reviewer.at # "next" => reviewer.job \in DOMAIN reviewer.queue

\* The generator's queue knows the attempts of its jobs, and the picture it is
\* at has a number no refusal has.
NewPicture ==
    studio.at # "idle" =>
        /\ {"at", "queue", "job", "plan"} \subseteq DOMAIN studio
        /\ \A j \in DOMAIN studio.queue :
              /\ studio.queue[j].attempts \in Nat
              /\ j # studio.job => studio.queue[j].attempts = jobs[j].attempts
        /\ studio.at = "next" => studio.job = None
        /\ studio.at # "next" => Attempt = jobs[studio.job].attempts
        /\ studio.at \in {"render", "describe", "record"} =>
              <<studio.job, Attempt>> \notin refused

\* A request holds jobs that were waiting, with the attempt they were out for.
SealedFits ==
    \A b \in Numbers : \A j \in JobsOf(b) :
        /\ j \in Jobs /\ Sealed(b)[j].state \in Queued
        /\ Sealed(b)[j].attempt \in Nat

\* What is being imported is the next attempt of its job still.
NewImport ==
    \A w \in Workers : HasLock(w) =>
        \A j \in JobsOf(agent[w].batch) :
            jobs[j].attempts = Sealed(agent[w].batch)[j].attempt - 1

RefusalIInv ==
    /\ RowNumbers /\ RefusedOld /\ Unrefused /\ ReviewsUnrefused /\ NewPicture
    /\ SealedFits /\ NewImport

\* A row in such a state must not name a refused picture.
Waits(state) == state \in ForReview \cup {"accepted"}

LEMMA InitRefusalIInv == RemoteInit => RefusalIInv
  <1> SUFFICES ASSUME RemoteInit PROVE RefusalIInv
    OBVIOUS
  <1>1. RowNumbers /\ RefusedOld /\ Unrefused
    BY DEF RemoteInit, Init, RowNumbers, RowFields, RefusedOld, Unrefused
  <1>2. ReviewsUnrefused /\ NewPicture
    BY DEF RemoteInit, Init, ReviewsUnrefused, NewPicture, Idle
  <1>3. SealedFits /\ NewImport
    BY DEF RemoteInit, SealedFits, NewImport, JobsOf, Sealed, NoBatch,
           HasLock, Idle
  <1> QED
    BY <1>1, <1>2, <1>3 DEF RefusalIInv

\* Steps that change nothing of a row but its state and its review.
LEMMA StatesOnly ==
  ASSUME BatchIInv, RefusalIInv, UNCHANGED refused,
         \A j \in Jobs :
            /\ DOMAIN jobs'[j] = RowFields
            /\ jobs'[j].attempts = jobs[j].attempts
            /\ jobs'[j].image = jobs[j].image
            /\ Waits(jobs'[j].state) => <<j, jobs[j].image>> \notin refused
  PROVE  /\ RowNumbers' /\ RefusedOld' /\ Unrefused'
         /\ UNCHANGED reviewer /\ lock'["review"] = lock["review"] =>
               ReviewsUnrefused'
         /\ UNCHANGED studio => NewPicture'
         /\ UNCHANGED <<batches, agent>> => SealedFits' /\ NewImport'
  <1> USE DEF RefusalIInv
  <1>1. RowNumbers' /\ RefusedOld'
    BY DEF RowNumbers, RefusedOld
  <1>2. Unrefused'
    BY DEF Unrefused, Waits
  <1>3. UNCHANGED reviewer /\ lock'["review"] = lock["review"] =>
           ReviewsUnrefused'
    BY DEF ReviewsUnrefused
  <1>4. UNCHANGED studio => NewPicture'
    <2> SUFFICES ASSUME UNCHANGED studio, studio.at # "idle"
                 PROVE  NewPicture'
      BY DEF NewPicture
    <2>1. /\ \A j \in DOMAIN studio.queue : j \in Jobs
          /\ studio.at # "next" => studio.job \in DOMAIN studio.queue
      BY DEF BatchIInv, NotOut
    <2>2. Attempt' = Attempt
      BY DEF Attempt, NextAttempt
    <2> QED
      BY <2>1, <2>2 DEF NewPicture
  <1>5. UNCHANGED <<batches, agent>> => SealedFits' /\ NewImport'
    <2> SUFFICES ASSUME UNCHANGED <<batches, agent>>
                 PROVE  SealedFits' /\ NewImport'
      OBVIOUS
    <2>1. SealedFits'
      BY DEF SealedFits, JobsOf, Sealed
    <2>2. NewImport'
      <3>1. \A w \in Workers : HasLock(w) =>
               /\ agent[w].batch \in Numbers
               /\ \A j \in JobsOf(agent[w].batch) : j \in Jobs
        BY DEF BatchIInv, Importing, Reserved, SealedFits
      <3> QED
        BY <3>1 DEF NewImport, HasLock, JobsOf, Sealed
    <2> QED
      BY <2>1, <2>2
  <1> QED
    BY <1>1, <1>2, <1>3, <1>4, <1>5

\* One row gets another state.
LEMMA StateChanges ==
  ASSUME BatchIInv, RefusalIInv, UNCHANGED refused, NEW k \in Jobs, NEW x,
         jobs' = [jobs EXCEPT ![k].state = x],
         Waits(x) => <<k, jobs[k].image>> \notin refused
  PROVE  \A j \in Jobs :
            /\ DOMAIN jobs'[j] = RowFields
            /\ jobs'[j].attempts = jobs[j].attempts
            /\ jobs'[j].image = jobs[j].image
            /\ Waits(jobs'[j].state) => <<j, jobs[j].image>> \notin refused
  <1>1. DOMAIN jobs = Jobs /\ DOMAIN jobs[k] = RowFields
    BY DEF BatchIInv, Table, RefusalIInv, RowNumbers
  <1>2. /\ DOMAIN jobs'[k] = RowFields /\ jobs'[k].state = x
        /\ jobs'[k].attempts = jobs[k].attempts
        /\ jobs'[k].image = jobs[k].image
        /\ \A j \in Jobs : j # k => jobs'[j] = jobs[j]
    BY <1>1 DEF RowFields
  <1> QED
    BY <1>2 DEF RefusalIInv, RowNumbers, Unrefused, Waits

\* No row changes.
LEMMA RowsStay ==
  ASSUME RefusalIInv, UNCHANGED jobs
  PROVE  \A j \in Jobs :
            /\ DOMAIN jobs'[j] = RowFields
            /\ jobs'[j].attempts = jobs[j].attempts
            /\ jobs'[j].image = jobs[j].image
            /\ Waits(jobs'[j].state) => <<j, jobs[j].image>> \notin refused
  BY DEF RefusalIInv, RowNumbers, Unrefused, Waits

LEMMA StudioStopsRefusal ==
  ASSUME BatchIInv, RefusalIInv, UNCHANGED remote,
         EndGenerate \/ StudioFails \/ \E j \in Jobs : RefuseToOverwrite(j)
  PROVE  RefusalIInv'
  <1>1. /\ studio' = Idle /\ lock' = [lock EXCEPT !["generation"] = None]
        /\ UNCHANGED <<refused, reviewer, batches, agent>>
    BY DEF EndGenerate, StudioFails, FailAttempt, StudioDies, RefuseToOverwrite,
           ledger, StudioEnds, remote
  <1>2. NewPicture'
    BY <1>1 DEF NewPicture, Idle
  <1>3. lock'["review"] = lock["review"]
    BY <1>1 DEF BatchIInv, ImportsLocked
  <1>4. \A j \in Jobs :
            /\ DOMAIN jobs'[j] = RowFields
            /\ jobs'[j].attempts = jobs[j].attempts
            /\ jobs'[j].image = jobs[j].image
            /\ Waits(jobs'[j].state) => <<j, jobs[j].image>> \notin refused
    <2>1. CASE FailAttempt
      <3>1. jobs' = [jobs EXCEPT ![studio.job].state = "generation_error"]
        BY <2>1 DEF FailAttempt
      <3>2. studio.job \in Jobs
        BY <2>1 DEF BatchIInv, NotOut, FailAttempt
      <3>3. ~Waits("generation_error")
        BY DEF Waits, ForReview, Reviewable
      <3> QED
        BY <1>1, <3>1, <3>2, <3>3, StateChanges
    <2>2. CASE UNCHANGED jobs
      BY <2>2, RowsStay
    <2> QED
      BY <2>1, <2>2 DEF EndGenerate, StudioFails, StudioDies, RefuseToOverwrite,
                        ledger
  <1> QED
    BY <1>1, <1>2, <1>3, <1>4, StatesOnly DEF RefusalIInv

LEMMA StartGenerateRefusal ==
  ASSUME BatchIInv, RefusalIInv, StartGenerate, UNCHANGED remote
  PROVE  RefusalIInv'
  <1>1. UNCHANGED <<refused, reviewer, batches, agent>>
    BY DEF StartGenerate, remote
  <1>2. lock'["review"] = lock["review"]
    BY DEF BatchIInv, ImportsLocked, StartGenerate
  <1>3. \A j \in Jobs :
           /\ DOMAIN jobs'[j] = RowFields
           /\ jobs'[j].attempts = jobs[j].attempts
           /\ jobs'[j].image = jobs[j].image
           /\ jobs'[j] = jobs[j] \/ jobs'[j].state \in {"interrupted", "rejected"}
    <2>1. ASSUME NEW j \in Jobs
          PROVE  jobs'[j] = jobs[j]
                 \/ \E x \in {"interrupted", "rejected"} :
                       jobs'[j] = [jobs[j] EXCEPT !.state = x]
      BY DEF StartGenerate
    <2> QED
      BY <2>1 DEF RefusalIInv, RowNumbers, RowFields
  <1>4. \A j \in Jobs : Waits(jobs'[j].state) => <<j, jobs[j].image>> \notin refused
    BY <1>3 DEF RefusalIInv, Unrefused, Waits, ForReview, Reviewable
  <1>5. NewPicture'
    <2>1. studio' = [at |-> "next", job |-> None, plan |-> None,
             queue |-> [j \in {i \in Jobs : jobs'[i].state \in Queued}
                          |-> jobs'[j]]]
      BY DEF StartGenerate
    <2>2. /\ DOMAIN studio' = {"at", "queue", "job", "plan"}
          /\ studio'.at = "next" /\ studio'.job = None
          /\ \A j \in DOMAIN studio'.queue : j \in Jobs /\ studio'.queue[j] = jobs'[j]
      BY <2>1
    <2>3. \A j \in Jobs : jobs'[j].attempts \in Nat
      BY <1>3 DEF RefusalIInv, RowNumbers
    <2> QED
      BY <2>2, <2>3 DEF NewPicture
  <1> QED
    BY <1>1, <1>2, <1>3, <1>4, <1>5, StatesOnly DEF RefusalIInv

\* What the generator has in hand.
LEMMA InHand ==
  ASSUME BatchIInv, RefusalIInv, studio.at \notin {"idle", "next"}
  PROVE  /\ {"at", "queue", "job", "plan"} \subseteq DOMAIN studio
         /\ studio.job \in DOMAIN studio.queue /\ studio.job \in Jobs
         /\ Attempt = jobs[studio.job].attempts
         /\ studio.at \in {"render", "describe", "record"} =>
               <<studio.job, Attempt>> \notin refused
         /\ \A j \in DOMAIN studio.queue :
               /\ j \in Jobs /\ studio.queue[j].attempts \in Nat
               /\ j # studio.job => studio.queue[j].attempts = jobs[j].attempts
  BY DEF RefusalIInv, NewPicture, BatchIInv, NotOut

LEMMA PublishRefusal ==
  ASSUME BatchIInv, RefusalIInv, Publish, UNCHANGED remote
  PROVE  RefusalIInv'
  <1> DEFINE job == studio.job
  <1>1. /\ {"at", "queue", "job", "plan"} \subseteq DOMAIN studio
        /\ job \in DOMAIN studio.queue /\ job \in Jobs
        /\ Attempt = jobs[job].attempts
        /\ studio.at \in {"render", "describe", "record"} =>
              <<job, Attempt>> \notin refused
        /\ \A j \in DOMAIN studio.queue :
              /\ j \in Jobs /\ studio.queue[j].attempts \in Nat
              /\ j # job => studio.queue[j].attempts = jobs[j].attempts
    BY InHand DEF Publish, LinkAttempt, DescribeAttempt, RecordAttempt, LogAttempt
  <1>2. /\ UNCHANGED <<refused, reviewer, batches, agent>>
        /\ lock'["review"] = lock["review"]
    BY DEF Publish, LinkAttempt, DescribeAttempt, RecordAttempt, LogAttempt,
           remote, ledger
  <1>3. CASE LinkAttempt \/ DescribeAttempt
    <2>1. /\ UNCHANGED jobs
          /\ \E at \in {"describe", "record"} : studio' = [studio EXCEPT !.at = at]
          /\ studio.at \in {"render", "describe"}
      BY <1>3 DEF LinkAttempt, DescribeAttempt
    <2>2. /\ studio'.at \in {"describe", "record"} /\ studio'.job = job
          /\ studio'.queue = studio.queue /\ DOMAIN studio' = DOMAIN studio
      BY <1>1, <2>1
    <2>3. Attempt' = Attempt
      BY <2>2 DEF Attempt, NextAttempt
    <2>4. NewPicture'
      BY <1>1, <1>2, <2>1, <2>2, <2>3 DEF NewPicture
    <2> QED
      BY <1>2, <2>1, <2>4, RowsStay, StatesOnly DEF RefusalIInv
  <1>4. CASE LogAttempt
    <2>1. /\ studio' = [studio EXCEPT !.at = "next", !.job = None, !.plan = None,
                                      !.queue = Without(studio.queue, job)]
          /\ UNCHANGED jobs
      BY <1>4 DEF LogAttempt, ledger
    <2>2. /\ studio'.at = "next" /\ studio'.job = None
          /\ studio'.queue = Without(studio.queue, job)
          /\ DOMAIN studio' = DOMAIN studio
      BY <1>1, <2>1
    <2>3. \A j \in DOMAIN studio'.queue :
             /\ j \in Jobs /\ studio'.queue[j].attempts \in Nat
             /\ studio'.queue[j].attempts = jobs'[j].attempts
      BY <1>1, <2>1, <2>2 DEF Without
    <2>4. NewPicture'
      BY <1>1, <2>2, <2>3 DEF NewPicture
    <2> QED
      BY <1>2, <2>1, <2>4, RowsStay, StatesOnly DEF RefusalIInv
  <1>5. CASE RecordAttempt
    <2>1. /\ studio' = [studio EXCEPT !.at = "log"] /\ studio.at = "record"
          /\ jobs' = [jobs EXCEPT ![job] =
                 [jobs[job] EXCEPT !.state = "generated", !.image = Attempt,
                                   !.review = None]]
      BY <1>5 DEF RecordAttempt
    <2>2. DOMAIN jobs = Jobs /\ \A j \in Jobs : DOMAIN jobs[j] = RowFields
      BY DEF BatchIInv, Table, RefusalIInv, RowNumbers
    <2>3. /\ DOMAIN jobs'[job] = RowFields /\ jobs'[job].state = "generated"
          /\ jobs'[job].attempts = jobs[job].attempts
          /\ jobs'[job].image = Attempt
          /\ \A j \in Jobs : j # job => jobs'[j] = jobs[j]
      BY <1>1, <2>1, <2>2 DEF RowFields
    <2>4. <<job, Attempt>> \notin refused
      BY <1>1, <2>1
    <2>5. RowNumbers' /\ RefusedOld'
      BY <1>1, <1>2, <2>2, <2>3 DEF RefusalIInv, RowNumbers, RefusedOld
    <2>6. Unrefused'
      BY <1>2, <2>3, <2>4 DEF RefusalIInv, Unrefused
    <2>7. ReviewsUnrefused'
      BY <1>2, <2>3, <2>4 DEF RefusalIInv, ReviewsUnrefused
    <2>8. NewPicture'
      <3>1. /\ studio'.at = "log" /\ studio'.job = job
            /\ studio'.queue = studio.queue /\ DOMAIN studio' = DOMAIN studio
        BY <1>1, <2>1
      <3>2. Attempt' = Attempt
        BY <3>1 DEF Attempt, NextAttempt
      <3>3. \A j \in Jobs : jobs'[j].attempts = jobs[j].attempts
        BY <2>3
      <3> QED
        BY <1>1, <3>1, <3>2, <3>3 DEF NewPicture
    <2>9. SealedFits'
      BY <1>2 DEF RefusalIInv, SealedFits, JobsOf, Sealed
    <2>10. NewImport'
      <3>1. ~ \E w \in Workers : HasLock(w)
        BY <2>1, WorkersAreNames DEF BatchIInv, ImportsLocked
      <3> QED
        BY <1>2, <3>1 DEF NewImport, HasLock
    <2> QED
      BY <2>5, <2>6, <2>7, <2>8, <2>9, <2>10 DEF RefusalIInv
  <1> QED
    BY <1>3, <1>4, <1>5 DEF Publish

LEMMA GenerateForRefusal ==
  ASSUME BatchIInv, RefusalIInv, NEW j \in Jobs, GenerateFor(j), UNCHANGED remote
  PROVE  RefusalIInv'
  <1>1. /\ studio.at = "next" /\ j \in DOMAIN studio.queue /\ studio.job = None
        /\ {"at", "queue", "job", "plan"} \subseteq DOMAIN studio
        /\ \A i \in DOMAIN studio.queue :
              /\ i \in Jobs /\ studio.queue[i].attempts \in Nat
              /\ studio.queue[i].attempts = jobs[i].attempts
    BY NoneIsNothing DEF GenerateFor, SkipBlocked, BeginAttempt, RefusalIInv,
                         NewPicture, BatchIInv, NotOut
  <1>2. UNCHANGED <<refused, reviewer, lock, batches, agent>>
    BY DEF GenerateFor, SkipBlocked, BeginAttempt, ledger, remote
  <1>3. CASE SkipBlocked(j)
    <2>1. /\ studio' = [studio EXCEPT !.queue = Without(studio.queue, j)]
          /\ UNCHANGED jobs
      BY <1>3 DEF SkipBlocked, ledger
    <2>2. /\ studio'.at = "next" /\ studio'.job = None
          /\ studio'.queue = Without(studio.queue, j)
          /\ DOMAIN studio' = DOMAIN studio
      BY <1>1, <2>1
    <2>3. \A i \in DOMAIN studio'.queue :
             /\ i \in Jobs /\ studio'.queue[i].attempts \in Nat
             /\ studio'.queue[i].attempts = jobs'[i].attempts
      BY <1>1, <2>1, <2>2 DEF Without
    <2>4. NewPicture'
      BY <1>1, <2>2, <2>3 DEF NewPicture
    <2> QED
      BY <1>2, <2>1, <2>4, RowsStay, StatesOnly DEF RefusalIInv
  <1>4. CASE BeginAttempt(j)
    <2> DEFINE n == studio.queue[j].attempts + 1
    <2>1. /\ studio' = [studio EXCEPT !.at = "render", !.job = j,
                                      !.plan = Plan(j, studio.queue[j])]
          /\ jobs' = [jobs EXCEPT ![j].state = "generating", ![j].attempts = n]
      BY <1>4 DEF BeginAttempt, NextAttempt
    <2>2. DOMAIN jobs = Jobs /\ \A i \in Jobs : DOMAIN jobs[i] = RowFields
      BY DEF BatchIInv, Table, RefusalIInv, RowNumbers
    <2>3. /\ DOMAIN jobs'[j] = RowFields /\ jobs'[j].state = "generating"
          /\ jobs'[j].attempts = n /\ jobs'[j].image = jobs[j].image
          /\ \A i \in Jobs : i # j => jobs'[i] = jobs[i]
      BY <2>1, <2>2 DEF RowFields
    <2>4. n = jobs[j].attempts + 1 /\ n \in Nat /\ jobs[j].attempts \in Nat
      BY <1>1
    <2> HIDE DEF n
    <2>5. <<j, n>> \notin refused
      BY <2>4 DEF RefusalIInv, RefusedOld
    <2>6. RowNumbers'
      BY <2>2, <2>3, <2>4 DEF RefusalIInv, RowNumbers
    <2>7. RefusedOld'
      <3>1. refused \subseteq Jobs \X Nat
        BY DEF RefusalIInv, RefusedOld
      <3>2. ASSUME NEW i \in Jobs, NEW m \in Nat, <<i, m>> \in refused
            PROVE  m <= jobs'[i].attempts
        <4>1. m <= jobs[i].attempts
          BY <3>2 DEF RefusalIInv, RefusedOld
        <4> QED
          BY <2>3, <2>4, <4>1
      <3> QED
        BY <1>2, <3>1, <3>2 DEF RefusedOld
    <2>8. Unrefused'
      BY <1>2, <2>3 DEF RefusalIInv, Unrefused, ForReview, Reviewable
    <2>9. ReviewsUnrefused'
      BY <1>2, <2>3 DEF RefusalIInv, ReviewsUnrefused
    <2>10. NewPicture'
      <3>1. /\ studio'.at = "render" /\ studio'.job = j
            /\ studio'.queue = studio.queue /\ DOMAIN studio' = DOMAIN studio
        BY <1>1, <2>1
      <3>2. Attempt' = n
        BY <3>1 DEF Attempt, NextAttempt, n
      <3> QED
        BY <1>1, <1>2, <2>3, <2>5, <3>1, <3>2 DEF NewPicture
    <2>11. SealedFits'
      BY <1>2 DEF RefusalIInv, SealedFits, JobsOf, Sealed
    <2>12. NewImport'
      <3>1. ~ \E w \in Workers : HasLock(w)
        BY <1>1, WorkersAreNames DEF BatchIInv, ImportsLocked
      <3> QED
        BY <1>2, <3>1 DEF NewImport, HasLock
    <2> QED
      BY <2>6, <2>7, <2>8, <2>9, <2>10, <2>11, <2>12 DEF RefusalIInv
  <1> QED
    BY <1>3, <1>4 DEF GenerateFor

\* Steps of the reviewer, or beside the generator, that change no picture.
LEMMA ReviewerMoves ==
  ASSUME BatchIInv, RefusalIInv, UNCHANGED <<refused, studio, remote>>,
         \A j \in Jobs :
            /\ DOMAIN jobs'[j] = RowFields
            /\ jobs'[j].attempts = jobs[j].attempts
            /\ jobs'[j].image = jobs[j].image
            /\ Waits(jobs'[j].state) => <<j, jobs[j].image>> \notin refused,
         ReviewsUnrefused'
  PROVE  RefusalIInv'
  <1>1. UNCHANGED <<batches, agent>>
    BY DEF remote
  <1> QED
    BY <1>1, StatesOnly DEF RefusalIInv

\* The queue of a reviewer that goes on.
LEMMA QueueStays ==
  ASSUME RefusalIInv, reviewer.at # "idle", UNCHANGED <<refused, lock>>,
         {"at", "queue", "job", "source", "errors"} \subseteq DOMAIN reviewer',
         DOMAIN reviewer'.queue \subseteq DOMAIN reviewer.queue,
         reviewer'.at # "next" => reviewer'.job \in DOMAIN reviewer'.queue,
         \A j \in Jobs : jobs'[j].image = jobs[j].image
  PROVE  ReviewsUnrefused'
  BY DEF RefusalIInv, ReviewsUnrefused

LEMMA ReviewRefusal ==
  ASSUME BatchIInv, RefusalIInv,
         StartReview \/ EndReview \/ ReviewStep \/ ReviewFails, UNCHANGED remote
  PROVE  RefusalIInv'
  <1>1. UNCHANGED <<refused, studio>>
    BY DEF StartReview, EndReview, ReviewStep, SkipReview, BeginReview, Decide,
           LogReview, ReviewFails, LoseService, LackReview, FailReview,
           ReviewerDies, ledger
  <1>2. reviewer.at # "idle" =>
           /\ {"at", "queue", "job", "source", "errors"} \subseteq DOMAIN reviewer
           /\ \A j \in DOMAIN reviewer.queue :
                 j \in Jobs /\ <<j, jobs[j].image>> \notin refused
           /\ reviewer.at # "next" => reviewer.job \in DOMAIN reviewer.queue
    BY DEF RefusalIInv, ReviewsUnrefused
  <1>3. ASSUME reviewer' = Idle PROVE ReviewsUnrefused'
    BY <1>3 DEF ReviewsUnrefused, Idle
  <1>4. CASE StartReview
    <2>1. /\ jobs' = [j \in Jobs |-> TakenOver(jobs[j])]
          /\ lock' = [lock EXCEPT !["review"] = "reviewer"]
          /\ reviewer' = [at |-> "next", job |-> None, source |-> None,
                errors |-> 0,
                queue |-> [j \in {i \in Jobs : jobs'[i].state \in Reviewable}
                              |-> jobs'[j]]]
      BY <1>4 DEF StartReview
    <2>2. \A j \in Jobs :
             /\ DOMAIN jobs'[j] = RowFields
             /\ jobs'[j].attempts = jobs[j].attempts
             /\ jobs'[j].image = jobs[j].image
             /\ \/ jobs'[j] = jobs[j]
                \/ jobs[j].state = "reviewing" /\ jobs'[j].state = "generated"
      BY <2>1 DEF TakenOver, RefusalIInv, RowNumbers, RowFields
    <2>3. \A j \in Jobs :
             Waits(jobs'[j].state) => <<j, jobs[j].image>> \notin refused
      BY <2>2 DEF RefusalIInv, Unrefused, Waits, ForReview, Reviewable
    <2>4. lock'["review"] = "reviewer"
      BY <2>1 DEF BatchIInv, ImportsLocked
    <2>5. /\ DOMAIN reviewer' = {"at", "queue", "job", "source", "errors"}
          /\ reviewer'.at = "next"
          /\ \A j \in DOMAIN reviewer'.queue :
                j \in Jobs /\ jobs'[j].state \in Reviewable
      BY <2>1
    <2>6. \A j \in DOMAIN reviewer'.queue :
             j \in Jobs /\ <<j, jobs'[j].image>> \notin refused'
      BY <1>1, <2>2, <2>3, <2>5 DEF Waits, ForReview
    <2>7. ReviewsUnrefused'
      BY <2>4, <2>5, <2>6 DEF ReviewsUnrefused
    <2> QED
      BY <1>1, <2>2, <2>3, <2>7, ReviewerMoves
  <1>5. CASE EndReview \/ ReviewerDies
    <2>1. UNCHANGED jobs /\ reviewer' = Idle
      BY <1>5 DEF EndReview, ReviewerDies, ReviewerEnds, ledger
    <2> QED
      BY <1>1, <1>3, <2>1, RowsStay, ReviewerMoves
  <1>6. ASSUME NEW j \in Jobs, SkipReview(j) PROVE RefusalIInv'
    <2>1. /\ UNCHANGED <<jobs, lock>> /\ reviewer.at = "next"
          /\ reviewer' = [reviewer EXCEPT !.queue = Without(reviewer.queue, j)]
      BY <1>6 DEF SkipReview, ledger
    <2>2. /\ reviewer'.at = "next" /\ DOMAIN reviewer' = DOMAIN reviewer
          /\ reviewer'.queue = Without(reviewer.queue, j)
      BY <1>2, <2>1
    <2>3. DOMAIN reviewer'.queue \subseteq DOMAIN reviewer.queue
      BY <2>2 DEF Without
    <2>4. ReviewsUnrefused'
      BY <1>1, <1>2, <2>1, <2>2, <2>3, QueueStays
    <2> QED
      BY <1>1, <2>1, <2>4, RowsStay, ReviewerMoves
  <1>7. ASSUME NEW j \in Jobs, BeginReview(j) PROVE RefusalIInv'
    <2>1. /\ reviewer.at = "next" /\ j \in DOMAIN reviewer.queue
          /\ jobs' = [jobs EXCEPT ![j].state = "reviewing"]
          /\ reviewer' = [reviewer EXCEPT !.at = "inspect", !.job = j,
                                          !.source = AcceptedSource(j)]
          /\ UNCHANGED lock
      BY <1>7 DEF BeginReview
    <2>2. <<j, jobs[j].image>> \notin refused
      BY <1>2, <2>1
    <2>3. \A i \in Jobs :
            /\ DOMAIN jobs'[i] = RowFields
            /\ jobs'[i].attempts = jobs[i].attempts
            /\ jobs'[i].image = jobs[i].image
            /\ Waits(jobs'[i].state) => <<i, jobs[i].image>> \notin refused
      BY <1>1, <2>1, <2>2, StateChanges
    <2>4. /\ reviewer'.job = j /\ reviewer'.queue = reviewer.queue
          /\ DOMAIN reviewer' = DOMAIN reviewer
      BY <1>2, <2>1
    <2>5. ReviewsUnrefused'
      BY <1>1, <1>2, <2>1, <2>3, <2>4, QueueStays
    <2> QED
      BY <1>1, <2>3, <2>5, ReviewerMoves
  <1>8. ASSUME NEW d \in Verdicts, Decide(d) PROVE RefusalIInv'
    <2> DEFINE j == reviewer.job
    <2>1. /\ reviewer.at = "inspect" /\ UNCHANGED lock
          /\ reviewer' = [reviewer EXCEPT !.at = "log"]
          /\ \E state, review :
                jobs' = [jobs EXCEPT ![j].state = state, ![j].review = review]
      BY <1>8 DEF Decide
    <2>2. j \in DOMAIN reviewer.queue /\ j \in Jobs /\ <<j, jobs[j].image>> \notin refused
      BY <1>2, <2>1
    <2>3. \A i \in Jobs :
            /\ DOMAIN jobs'[i] = RowFields
            /\ jobs'[i].attempts = jobs[i].attempts
            /\ jobs'[i].image = jobs[i].image
            /\ i # j => jobs'[i] = jobs[i]
      BY <2>1, <2>2 DEF BatchIInv, Table, RefusalIInv, RowNumbers, RowFields
    <2>4. \A i \in Jobs :
             Waits(jobs'[i].state) => <<i, jobs[i].image>> \notin refused
      BY <2>2, <2>3 DEF RefusalIInv, Unrefused, Waits
    <2>5. /\ reviewer'.job = j /\ reviewer'.queue = reviewer.queue
          /\ DOMAIN reviewer' = DOMAIN reviewer
      BY <1>2, <2>1
    <2>6. ReviewsUnrefused'
      BY <1>1, <1>2, <2>1, <2>2, <2>3, <2>5, QueueStays
    <2> QED
      BY <1>1, <2>3, <2>4, <2>6, ReviewerMoves
  <1>9. ASSUME reviewer.at \notin {"idle", "next"}, NEW errors,
               reviewer' = NextReview(errors), UNCHANGED lock,
               \A j \in Jobs : jobs'[j].image = jobs[j].image
        PROVE  ReviewsUnrefused'
    <2>1. reviewer' = [reviewer EXCEPT !.at = "next", !.job = None,
               !.source = None, !.errors = errors,
               !.queue = Without(reviewer.queue, reviewer.job)]
      BY <1>9 DEF NextReview
    <2>2. /\ reviewer'.at = "next" /\ DOMAIN reviewer' = DOMAIN reviewer
          /\ reviewer'.queue = Without(reviewer.queue, reviewer.job)
      BY <1>2, <1>9, <2>1
    <2>3. DOMAIN reviewer'.queue \subseteq DOMAIN reviewer.queue
      BY <2>2 DEF Without
    <2> QED
      BY <1>1, <1>2, <1>9, <2>2, <2>3, QueueStays
  <1>10. CASE LogReview
    <2>1. /\ reviewer.at = "log" /\ UNCHANGED <<jobs, lock>>
          /\ reviewer' = NextReview(0)
      BY <1>10 DEF LogReview, ledger
    <2>2. ReviewsUnrefused'
      BY <1>9, <2>1
    <2> QED
      BY <1>1, <2>1, <2>2, RowsStay, ReviewerMoves
  <1>11. CASE LoseService \/ LackReview \/ FailReview
    <2>1. /\ reviewer.at \in {"inspect", "log"}
          /\ \E state : jobs' = [jobs EXCEPT ![reviewer.job].state = state]
      BY <1>11 DEF LoseService, LackReview, FailReview
    <2>2. reviewer.job \in Jobs /\ <<reviewer.job, jobs[reviewer.job].image>> \notin refused
      BY <1>2, <2>1
    <2>3. \A i \in Jobs :
            /\ DOMAIN jobs'[i] = RowFields
            /\ jobs'[i].attempts = jobs[i].attempts
            /\ jobs'[i].image = jobs[i].image
            /\ Waits(jobs'[i].state) => <<i, jobs[i].image>> \notin refused
      BY <1>1, <2>1, <2>2, StateChanges
    <2>4. CASE reviewer' = Idle
      BY <1>1, <1>3, <2>3, <2>4, ReviewerMoves
    <2>5. CASE reviewer' = NextReview(reviewer.errors + 1) /\ UNCHANGED lock
      <3>1. ReviewsUnrefused'
        BY <1>9, <2>1, <2>3, <2>5
      <3> QED
        BY <1>1, <2>3, <3>1, ReviewerMoves
    <2> QED
      BY <1>11, <2>4, <2>5 DEF LoseService, LackReview, FailReview, ReviewerEnds
  <1> QED
    BY <1>4, <1>5, <1>6, <1>7, <1>8, <1>10, <1>11 DEF ReviewStep, ReviewFails

\* People are at work while nobody else is.
LEMMA AloneAtWork ==
  ASSUME BatchIInv, RefusalIInv, LocksFree
  PROVE  /\ studio.at = "idle" /\ reviewer.at = "idle"
         /\ \A w \in Workers : ~HasLock(w)
  BY NoneIsNothing, WorkersAreNames
     DEF LocksFree, BatchIInv, ImportsLocked, RefusalIInv, ReviewsUnrefused

LEMMA DirectRefusal ==
  ASSUME BatchIInv, RefusalIInv, NEW j \in Jobs, Direct(j), UNCHANGED remote
  PROVE  RefusalIInv'
  <1>1. LocksFree /\ UNCHANGED <<studio, reviewer>>
    BY DEF Direct, RejectImage, AcceptOcrReview, AcceptGeometryReview, Resolve
  <1>2. /\ studio.at = "idle" /\ reviewer.at = "idle"
        /\ \A w \in Workers : ~HasLock(w)
    BY <1>1, AloneAtWork
  <1>3. UNCHANGED <<batches, agent>>
    BY DEF remote
  <1>4. ReviewsUnrefused' /\ NewPicture'
    BY <1>1, <1>2 DEF ReviewsUnrefused, NewPicture
  <1>5. SealedFits'
    BY <1>3 DEF RefusalIInv, SealedFits, JobsOf, Sealed
  <1>6. NewImport'
    BY <1>2, <1>3 DEF NewImport, HasLock
  <1>7. ASSUME \A i \in Jobs :
                  /\ DOMAIN jobs'[i] = RowFields
                  /\ jobs'[i].attempts = jobs[i].attempts
                  /\ jobs'[i].image = jobs[i].image
                  /\ i # j => jobs'[i] = jobs[i],
               refused' \subseteq refused \cup {<<j, jobs[j].image>>},
               Waits(jobs'[j].state) => <<j, jobs[j].image>> \notin refused'
        PROVE  RefusalIInv'
    <2>1. RowNumbers'
      BY <1>7 DEF RefusalIInv, RowNumbers
    <2>2. refused' \subseteq Jobs \X Nat
      BY <1>7 DEF RefusalIInv, RowNumbers, RefusedOld
    <2>3. ASSUME NEW i \in Jobs, NEW n \in Nat, <<i, n>> \in refused'
          PROVE  n <= jobs'[i].attempts
      <3>1. CASE <<i, n>> \in refused
        BY <1>7, <3>1 DEF RefusalIInv, RefusedOld
      <3>2. CASE <<i, n>> = <<j, jobs[j].image>>
        BY <1>7, <3>2 DEF RefusalIInv, RowNumbers
      <3> QED
        BY <1>7, <2>3, <3>1, <3>2
    <2>4. ASSUME NEW i \in Jobs, i # j, Waits(jobs'[i].state)
          PROVE  <<i, jobs'[i].image>> \notin refused'
      <3>1. <<i, jobs[i].image>> \notin refused
        BY <1>7, <2>4 DEF RefusalIInv, Unrefused, Waits
      <3> QED
        BY <1>7, <2>4, <3>1
    <2>5. Unrefused'
      BY <1>7, <2>4 DEF Unrefused, Waits
    <2> QED
      BY <1>4, <1>5, <1>6, <2>1, <2>2, <2>3, <2>5 DEF RefusalIInv, RefusedOld
  <1>8. DOMAIN jobs = Jobs /\ \A i \in Jobs : DOMAIN jobs[i] = RowFields
    BY DEF BatchIInv, Table, RefusalIInv, RowNumbers
  <1>9. CASE RejectImage(j)
    <2>1. /\ jobs' = [jobs EXCEPT ![j].state = "rejected"]
          /\ refused' = refused \cup {<<j, jobs[j].image>>}
      BY <1>9 DEF RejectImage
    <2>2. /\ \A i \in Jobs :
                /\ DOMAIN jobs'[i] = RowFields
                /\ jobs'[i].attempts = jobs[i].attempts
                /\ jobs'[i].image = jobs[i].image
                /\ i # j => jobs'[i] = jobs[i]
          /\ jobs'[j].state = "rejected"
      BY <1>8, <2>1 DEF RowFields
    <2>3. ~Waits("rejected")
      BY DEF Waits, ForReview, Reviewable
    <2> QED
      BY <1>7, <2>1, <2>2, <2>3
  <1>10. ASSUME NEW decision, Resolve(j, decision) PROVE RefusalIInv'
    <2>1. /\ \E state, made :
                jobs' = [jobs EXCEPT ![j].state = state, ![j].review = made]
          /\ refused' = refused \ {<<j, jobs[j].image>>}
      BY <1>8, <1>10 DEF Resolve, RowFields
    <2>2. \A i \in Jobs :
             /\ DOMAIN jobs'[i] = RowFields
             /\ jobs'[i].attempts = jobs[i].attempts
             /\ jobs'[i].image = jobs[i].image
             /\ i # j => jobs'[i] = jobs[i]
      BY <1>8, <2>1 DEF RowFields
    <2> QED
      BY <1>7, <2>1, <2>2
  <1> QED
    BY <1>9, <1>10 DEF Direct, AcceptOcrReview, AcceptGeometryReview

-----------------------------------------------------------------------------
(* The coordinators.                                                       *)

\* Nothing of the ledger changes, and nobody new begins an import.
LEMMA AgentsMove ==
  ASSUME BatchIInv, RefusalIInv,
         UNCHANGED <<jobs, refused, studio, reviewer>>, lock'["review"] = lock["review"],
         SealedFits',
         \A w \in Workers : HasLock(w)' =>
            HasLock(w) /\ agent'[w].batch = agent[w].batch
            /\ Sealed(agent[w].batch)' = Sealed(agent[w].batch)
  PROVE  RefusalIInv'
  <1>1. RowNumbers' /\ RefusedOld' /\ Unrefused' /\ ReviewsUnrefused' /\ NewPicture'
    BY RowsStay, StatesOnly DEF RefusalIInv
  <1>2. NewImport'
    BY DEF RefusalIInv, NewImport, JobsOf, Sealed
  <1> QED
    BY <1>1, <1>2 DEF RefusalIInv

\* A coordinator goes on, or stops, without the lock or with the one it had.
LEMMA AgentMovesRefusal ==
  ASSUME BatchIInv, RefusalIInv, NEW w \in Workers, NEW state,
         agent' = [agent EXCEPT ![w] = state],
         UNCHANGED <<jobs, refused, studio, reviewer>>,
         lock'["review"] = lock["review"],
         \A b \in Numbers : batches'[b].sealed = batches[b].sealed,
         \/ state.at \notin {"file", "describe"}
         \/ HasLock(w) /\ state.batch = agent[w].batch
  PROVE  RefusalIInv'
  <1>1. agent'[w] = state /\ \A v \in Workers : v # w => agent'[v] = agent[v]
    BY DEF BatchIInv, Agents
  <1>2. ASSUME NEW v \in Workers, HasLock(v)'
        PROVE  /\ HasLock(v) /\ agent'[v].batch = agent[v].batch
               /\ batches'[agent[v].batch].sealed = batches[agent[v].batch].sealed
    <2>1. HasLock(v) /\ agent'[v].batch = agent[v].batch
      BY <1>1, <1>2 DEF HasLock
    <2>2. agent[v].batch \in Numbers
      BY <2>1 DEF BatchIInv, Importing, Reserved
    <2> QED
      BY <2>1, <2>2
  <1>3. SealedFits'
    BY DEF RefusalIInv, SealedFits, JobsOf, Sealed
  <1> QED
    BY <1>2, <1>3, AgentsMove DEF Sealed

LEMMA WaitingRefusal ==
  ASSUME BatchIInv, RefusalIInv, NEW w \in Workers,
         Resume(w) \/ RefuseImport(w) \/ Restart(w) \/ Receive(w)
  PROVE  RefusalIInv'
  <1>1. UNCHANGED <<jobs, refused, studio, reviewer, lock>>
    BY DEF Resume, RefuseImport, Restart, Receive, vars
  <1>2. \A b \in Numbers : batches'[b].sealed = batches[b].sealed
    <2>1. \/ UNCHANGED batches
          \/ batches' = [batches EXCEPT ![agent[w].batch].returned = TRUE]
      BY DEF Resume, RefuseImport, Restart, Receive
    <2> QED
      BY <2>1 DEF BatchIInv, Batches
  <1>3. ASSUME NEW state, Goes(w, state),
               state.at \in {"idle", "render", "import", "attention"}
        PROVE  RefusalIInv'
    <2>1. agent' = [agent EXCEPT ![w] = state] /\ state.at \notin {"file", "describe"}
      BY <1>3 DEF Goes
    <2> QED
      BY <1>1, <1>2, <2>1, AgentMovesRefusal
  <1>4. CASE Resume(w)
    <2>1. PICK b : Goes(w, Busy(w, "render", b))
      BY <1>4 DEF Resume
    <2>2. Busy(w, "render", b).at = "render"
      BY DEF Busy
    <2> QED
      BY <1>3, <2>1, <2>2
  <1>5. CASE RefuseImport(w)
    <2> DEFINE state == [at |-> "attention"]
    <2>1. state.at = "attention" /\ Goes(w, state)
      BY <1>5 DEF RefuseImport
    <2> HIDE DEF state
    <2> QED
      BY <1>3, <2>1
  <1>6. CASE Restart(w)
    <2>1. Idle.at = "idle" /\ Goes(w, Idle)
      BY <1>6 DEF Restart, Idle
    <2> QED
      BY <1>3, <2>1
  <1>7. CASE Receive(w)
    <2> DEFINE state == [agent[w] EXCEPT !.at = "import"]
    <2>1. Goes(w, state) /\ "at" \in DOMAIN agent[w]
      BY <1>7 DEF Receive, At, BatchIInv, Agents
    <2>2. state.at = "import"
      BY <2>1
    <2> HIDE DEF state
    <2> QED
      BY <1>3, <2>1, <2>2
  <1> QED
    BY <1>4, <1>5, <1>6, <1>7

LEMMA AbandonRefusal ==
  ASSUME BatchIInv, RefusalIInv, NEW w \in Workers,
         CoordinatorDies(w) \/ \E j \in Jobs : ConflictImport(w, j)
  PROVE  RefusalIInv'
  <1>1. /\ UNCHANGED <<jobs, refused, studio, reviewer, batches>>
        /\ lock'["review"] = lock["review"]
    BY DEF CoordinatorDies, ConflictImport, ledger, LockDropped, BatchIInv,
           ImportsLocked
  <1> DEFINE stopped == [at |-> "attention"]
  <1>2. stopped.at = "attention" /\ Idle.at = "idle"
    BY DEF Idle
  <1>3. \/ agent' = [agent EXCEPT ![w] = Idle]
        \/ agent' = [agent EXCEPT ![w] = stopped]
    BY DEF CoordinatorDies, ConflictImport, Goes
  <1> HIDE DEF stopped
  <1>4. \A b \in Numbers : batches'[b].sealed = batches[b].sealed
    BY <1>1
  <1> QED
    BY <1>1, <1>2, <1>3, <1>4, AgentMovesRefusal

LEMMA FilingRefusal ==
  ASSUME BatchIInv, RefusalIInv, NEW w \in Workers,
         DescribeImport(w) \/ \E j \in Jobs : LinkImport(w, j)
  PROVE  RefusalIInv'
  <1>1. HasLock(w) /\ UNCHANGED <<jobs, refused, studio, reviewer, batches, lock>>
    BY DEF DescribeImport, LinkImport, ToFile, At, HasLock
  <1>2. "at" \in DOMAIN agent[w] /\ "batch" \in DOMAIN agent[w]
    BY <1>1 DEF BatchIInv, Agents, HasLock
  <1>3. ASSUME NEW state, Goes(w, state), state.batch = agent[w].batch
        PROVE  RefusalIInv'
    BY <1>1, <1>3, AgentMovesRefusal DEF Goes
  <1>4. ASSUME NEW j \in Jobs, LinkImport(w, j) PROVE RefusalIInv'
    <2> DEFINE state == [agent[w] EXCEPT !.at = "describe", !.job = j]
    <2>1. Goes(w, state) /\ state.batch = agent[w].batch
      BY <1>2, <1>4 DEF LinkImport
    <2> HIDE DEF state
    <2> QED
      BY <1>3, <2>1
  <1>5. CASE DescribeImport(w)
    <2> DEFINE state == [agent[w] EXCEPT !.at = "file", !.job = None,
                             !.done = agent[w].done \cup {agent[w].job}]
    <2>1. Goes(w, state) /\ state.batch = agent[w].batch
      BY <1>2, <1>5 DEF DescribeImport
    <2> HIDE DEF state
    <2> QED
      BY <1>3, <2>1
  <1> QED
    BY <1>4, <1>5

\* An import begins with jobs that stand as the manifest left them.
LEMMA OpenImportRefusal ==
  ASSUME BatchIInv, RefusalIInv, NEW w \in Workers, OpenImport(w)
  PROVE  RefusalIInv'
  <1> DEFINE state == [agent[w] EXCEPT !.at = "file"]
  <1>1. /\ agent' = [agent EXCEPT ![w] = state] /\ agent[w].at = "import"
        /\ lock["generation"] = None
        /\ lock' = [lock EXCEPT !["generation"] = w]
        /\ UNCHANGED <<jobs, refused, studio, reviewer, batches>>
        /\ Importable(agent[w].batch)
    BY DEF OpenImport, Goes, At, GenerationFree, ledger
  <1>2. ~ \E v \in Workers : HasLock(v)
    BY <1>1, NoneIsNothing, WorkersAreNames DEF BatchIInv, ImportsLocked
  <1>3. state.batch = agent[w].batch
    BY <1>1 DEF BatchIInv, Agents
  <1> HIDE DEF state
  <1>4. agent'[w] = state /\ \A v \in Workers : v # w => agent'[v] = agent[v]
    BY <1>1 DEF BatchIInv, Agents
  <1>5. \A v \in Workers : HasLock(v)' => v = w
    BY <1>2, <1>4 DEF HasLock
  <1>6. \A j \in JobsOf(agent[w].batch) :
           jobs[j].attempts = Sealed(agent[w].batch)[j].attempt - 1
    BY <1>1 DEF Importable, Held
  <1>7. NewImport'
    BY <1>1, <1>3, <1>4, <1>5, <1>6 DEF NewImport, JobsOf, Sealed
  <1>8. SealedFits'
    BY <1>1 DEF RefusalIInv, SealedFits, JobsOf, Sealed
  <1>9. lock'["review"] = lock["review"]
    BY <1>1 DEF BatchIInv, ImportsLocked
  <1>10. RowNumbers' /\ RefusedOld' /\ Unrefused' /\ ReviewsUnrefused' /\ NewPicture'
    BY <1>1, <1>9, RowsStay, StatesOnly DEF RefusalIInv
  <1> QED
    BY <1>7, <1>8, <1>10 DEF RefusalIInv

LEMMA ReserveRefusal ==
  ASSUME BatchIInv, RefusalIInv, NEW w \in Workers, Reserve(w)
  PROVE  RefusalIInv'
  <1>1. /\ agent[w].at = "idle" /\ lock["generation"] = None
        /\ UNCHANGED <<refused, studio, reviewer, lock>>
    BY DEF Reserve, At, GenerationFree
  <1> DEFINE packed(S) ==
               [j \in S |-> [plan |-> Plan(j, jobs[j]), state |-> jobs[j].state,
                             attempt |-> jobs[j].attempts + 1,
                             image |-> jobs[j].image]]
             batch(S) == [worker |-> w, state |-> "reserved", returned |-> FALSE,
                          sealed |-> packed(S)]
             busy(b) == [at |-> "render", batch |-> b, job |-> None, done |-> {}]
  <1>2. PICK S \in (SUBSET Eligible) \ {{}}, b \in Numbers :
          /\ batches' = [batches EXCEPT ![b] = batch(S)]
          /\ jobs' = [j \in Jobs |->
                IF j \in S THEN [jobs[j] EXCEPT !.state = "remote_reserved"]
                ELSE jobs[j]]
          /\ agent' = [agent EXCEPT ![w] = busy(b)]
    BY Zenon DEF Reserve, Goes, Busy
  <1>3. /\ DOMAIN packed(S) = S
        /\ \A j \in S : /\ packed(S)[j].state = jobs[j].state
                        /\ packed(S)[j].attempt = jobs[j].attempts + 1
    OBVIOUS
  <1> HIDE DEF packed
  <1>4. \A j \in S : j \in Jobs /\ jobs[j].state \in Queued
    BY DEF Eligible
  <1>5. \A j \in Jobs :
           /\ DOMAIN jobs'[j] = RowFields
           /\ jobs'[j].attempts = jobs[j].attempts
           /\ jobs'[j].image = jobs[j].image
           /\ jobs'[j] = jobs[j] \/ jobs'[j].state = "remote_reserved"
    BY <1>2 DEF RefusalIInv, RowNumbers, RowFields
  <1>6. \A j \in Jobs : Waits(jobs'[j].state) => <<j, jobs[j].image>> \notin refused
    BY <1>5 DEF RefusalIInv, Unrefused, Waits, ForReview, Reviewable
  <1>7. ~ \E v \in Workers : HasLock(v)'
    <2>1. ~ \E v \in Workers : HasLock(v)
      BY <1>1, NoneIsNothing, WorkersAreNames DEF BatchIInv, ImportsLocked
    <2> QED
      BY <1>2, <2>1 DEF BatchIInv, Agents, HasLock
  <1>8. SealedFits'
    <2>1. /\ DOMAIN batches'[b].sealed = S
          /\ \A j \in S : /\ batches'[b].sealed[j].state = jobs[j].state
                          /\ batches'[b].sealed[j].attempt = jobs[j].attempts + 1
          /\ \A c \in Numbers : c # b => batches'[c] = batches[c]
      BY <1>2, <1>3 DEF BatchIInv, Batches
    <2>2. \A j \in S : jobs[j].attempts + 1 \in Nat
      BY <1>4 DEF RefusalIInv, RowNumbers
    <2> QED
      BY <1>4, <2>1, <2>2 DEF RefusalIInv, SealedFits, JobsOf, Sealed
  <1>9. NewImport'
    BY <1>7 DEF NewImport
  <1>10. RowNumbers' /\ RefusedOld' /\ Unrefused' /\ ReviewsUnrefused' /\ NewPicture'
    BY <1>1, <1>5, <1>6, StatesOnly
  <1> QED
    BY <1>8, <1>9, <1>10 DEF RefusalIInv

LEMMA CancelRefusal ==
  ASSUME BatchIInv, RefusalIInv, NEW b \in Numbers, Cancel(b)
  PROVE  RefusalIInv'
  <1>1. /\ lock["generation"] = None
        /\ UNCHANGED <<refused, studio, reviewer, lock, agent>>
        /\ batches' = [batches EXCEPT ![b].state = "cancelled"]
        /\ jobs' = [j \in Jobs |->
              IF j \in JobsOf(b)
              THEN [jobs[j] EXCEPT !.state = Sealed(b)[j].state] ELSE jobs[j]]
    BY DEF Cancel, GenerationFree
  <1>2. \A j \in JobsOf(b) : Sealed(b)[j].state \in Queued
    BY DEF RefusalIInv, SealedFits
  <1>3. \A j \in Jobs :
           /\ DOMAIN jobs'[j] = RowFields
           /\ jobs'[j].attempts = jobs[j].attempts
           /\ jobs'[j].image = jobs[j].image
           /\ jobs'[j] = jobs[j] \/ jobs'[j].state \in Queued
    BY <1>1, <1>2 DEF RefusalIInv, RowNumbers, RowFields
  <1>4. \A j \in Jobs : Waits(jobs'[j].state) => <<j, jobs[j].image>> \notin refused
    BY <1>3 DEF RefusalIInv, Unrefused, Waits, ForReview, Reviewable, Queued
  <1>5. ~ \E v \in Workers : HasLock(v)'
    BY <1>1, NoneIsNothing, WorkersAreNames DEF BatchIInv, ImportsLocked, HasLock
  <1>6. SealedFits'
    BY <1>1 DEF BatchIInv, Batches, RefusalIInv, SealedFits, JobsOf, Sealed
  <1>7. NewImport'
    BY <1>5 DEF NewImport
  <1>8. RowNumbers' /\ RefusedOld' /\ Unrefused' /\ ReviewsUnrefused' /\ NewPicture'
    BY <1>1, <1>3, <1>4, StatesOnly
  <1> QED
    BY <1>6, <1>7, <1>8 DEF RefusalIInv

\* An import records pictures with numbers that no refusal knows.
LEMMA CommitImportRefusal ==
  ASSUME BatchIInv, RefusalIInv, NEW w \in Workers, CommitImport(w)
  PROVE  RefusalIInv'
  <1> DEFINE b == agent[w].batch
  <1>1. /\ HasLock(w) /\ LockDropped(w) /\ UNCHANGED <<refused, studio, reviewer>>
        /\ agent' = [agent EXCEPT ![w] = Idle]
        /\ batches' = [batches EXCEPT ![b].state = "imported"]
        /\ jobs' = [j \in Jobs |->
              IF j \in JobsOf(b)
              THEN [jobs[j] EXCEPT !.state = "generated", !.review = None,
                       !.attempts = Sealed(b)[j].attempt,
                       !.image = Sealed(b)[j].attempt]
              ELSE jobs[j]]
    BY DEF CommitImport, HasLock, At, Goes
  <1>2. lock["generation"] = w /\ b \in Numbers
    BY <1>1 DEF BatchIInv, Importing, ImportsLocked, Reserved
  <1>3. /\ studio.at = "idle" /\ \A v \in Workers : HasLock(v) => v = w
    BY <1>2, WorkersAreNames DEF BatchIInv, ImportsLocked
  <1>4. Idle.at = "idle"
    BY DEF Idle
  <1>5. \A v \in Workers : ~HasLock(v)'
    BY <1>1, <1>3, <1>4 DEF BatchIInv, Agents, HasLock
  <1>6. \A j \in JobsOf(b) :
           /\ j \in Jobs /\ Sealed(b)[j].attempt \in Nat
           /\ Sealed(b)[j].attempt = jobs[j].attempts + 1
    <2>1. HasLock(w) /\ b \in Numbers
      BY <1>1, <1>2
    <2>2. \A j \in JobsOf(b) :
             /\ j \in Jobs /\ Sealed(b)[j].attempt \in Nat
             /\ jobs[j].attempts = Sealed(b)[j].attempt - 1
      BY <2>1 DEF RefusalIInv, SealedFits, NewImport
    <2> QED
      BY <2>2
  <1>7. \A j \in JobsOf(b) : <<j, Sealed(b)[j].attempt>> \notin refused
    BY <1>6 DEF RefusalIInv, RefusedOld, RowNumbers
  <1>8. /\ \A j \in JobsOf(b) :
              /\ DOMAIN jobs'[j] = RowFields
              /\ jobs'[j].attempts = Sealed(b)[j].attempt
              /\ jobs'[j].image = Sealed(b)[j].attempt
        /\ \A j \in Jobs \ JobsOf(b) : jobs'[j] = jobs[j]
    BY <1>1, <1>6 DEF RefusalIInv, RowNumbers, RowFields
  <1> HIDE DEF b
  <1>9. RowNumbers'
    BY <1>6, <1>8 DEF RefusalIInv, RowNumbers
  <1>10. RefusedOld'
    <2>1. ASSUME NEW j \in Jobs, NEW n \in Nat, <<j, n>> \in refused
          PROVE  n <= jobs'[j].attempts
      <3>1. n <= jobs[j].attempts /\ jobs[j].attempts \in Nat
        BY <2>1 DEF RefusalIInv, RefusedOld, RowNumbers
      <3> QED
        BY <1>6, <1>8, <3>1
    <2> QED
      BY <1>1, <2>1 DEF RefusalIInv, RefusedOld
  <1>11. Unrefused'
    <2>1. UNCHANGED refused
      BY <1>1
    <2>2. ASSUME NEW j \in Jobs, jobs'[j].state \in ForReview \cup {"accepted"}
          PROVE  <<j, jobs'[j].image>> \notin refused
      <3>1. CASE j \in JobsOf(b)
        BY <1>7, <1>8, <3>1
      <3>2. CASE j \notin JobsOf(b)
        BY <1>8, <2>2, <3>2 DEF RefusalIInv, Unrefused
      <3> QED
        BY <3>1, <3>2
    <2> QED
      BY <2>1, <2>2 DEF Unrefused
  <1>12. ReviewsUnrefused'
    <2>1. lock'["review"] = lock["review"] /\ UNCHANGED <<refused, reviewer>>
      BY <1>1 DEF BatchIInv, ImportsLocked, LockDropped
    <2>2. ASSUME NEW j \in Jobs, <<j, jobs[j].image>> \notin refused
          PROVE  <<j, jobs'[j].image>> \notin refused
      BY <1>7, <1>8, <2>2
    <2> QED
      BY <2>1, <2>2 DEF RefusalIInv, ReviewsUnrefused
  <1>13. NewPicture' /\ NewImport'
    BY <1>1, <1>3, <1>5 DEF NewPicture, NewImport
  <1>14. SealedFits'
    BY <1>1 DEF BatchIInv, Batches, RefusalIInv, SealedFits, JobsOf, Sealed
  <1> QED
    BY <1>9, <1>10, <1>11, <1>12, <1>13, <1>14 DEF RefusalIInv

LEMMA RefusalNext ==
  ASSUME BatchIInv, RefusalIInv, [RemoteNext]_allVars
  PROVE  RefusalIInv'
  <1>1. CASE UNCHANGED allVars
    <2>1. UNCHANGED <<jobs, refused, lock, studio, reviewer, batches, agent>>
      BY <1>1 DEF allVars, vars, remote
    <2> QED
      BY <2>1, RowsStay, StatesOnly DEF RefusalIInv
  <1>2. CASE Local
    BY <1>2, StartGenerateRefusal, StudioStopsRefusal, GenerateForRefusal,
       PublishRefusal, ReviewRefusal, DirectRefusal DEF Local, LocalStep
  <1>3. ASSUME NEW j \in Jobs, RefuseToOverwrite(j) PROVE RefusalIInv'
    <2>1. UNCHANGED remote
      BY <1>3 DEF RefuseToOverwrite
    <2> QED
      BY <1>3, <2>1, StudioStopsRefusal
  <1>4. ASSUME NEW w \in Workers, Coordinate(w) \/ Restart(w) \/ CoordinatorDies(w)
        PROVE  RefusalIInv'
    BY <1>4, WaitingRefusal, ReserveRefusal, OpenImportRefusal, FilingRefusal,
       AbandonRefusal, CommitImportRefusal
       DEF Coordinate, ReserveStep, DecideImport, ImportStep
  <1> QED
    BY <1>1, <1>2, <1>3, <1>4, CancelRefusal DEF RemoteNext

\* Refusals know only attempts that were made, and what is reviewed, rendered
\* or imported is not refused (reject_image(), generate(), import_results()).
THEOREM RefusalInvariance == RemoteSpec => []RefusalIInv
  <1>1. BatchIInv /\ RefusalIInv /\ [RemoteNext]_allVars => RefusalIInv'
    BY RefusalNext
  <1> QED
    BY InitRefusalIInv, <1>1, BatchInvariance, PTL DEF RemoteSpec

\* A picture people rejected is not accepted again either when pictures come
\* back from other machines, whole batches at a time (reject_image(),
\* import_results()).
THEOREM RefusedStaysRefusedRemotely == RemoteSpec => []RefusedIsNotAccepted
  <1>1. RefusalIInv => RefusedIsNotAccepted
    BY DEF RefusalIInv, Unrefused, RefusedIsNotAccepted
  <1> QED
    BY <1>1, RefusalInvariance, PTL

-----------------------------------------------------------------------------
(* The budget beside batches.                                              *)

\* An import that was abandoned may leave a picture one attempt ahead.
FewPictures ==
    \A j \in Jobs : DOMAIN files[j] \subseteq 1..jobs[j].attempts + 1

\* A picture of job j under number n replaces none and stays in the budget.
Room(j, n, plan) ==
    Source[j] # None =>
        n \in DOMAIN files[j]
        \/ Cardinality(From(j, plan.from)) < MaxAttempts

\* What the generator renders has room; so has what is being imported.
StudioRoom ==
    studio.at = "render" => Room(studio.job, Attempt, studio.plan)

\* A request was planned; its attempts are within the budget of a job that has
\* no source.
SealedRoom ==
    \A b \in Numbers : \A j \in JobsOf(b) :
        /\ Sealed(b)[j].plan # None
        /\ Source[j] = None => Sealed(b)[j].attempt <= MaxAttempts

ImportRoom ==
    \A w \in Workers : HasLock(w) =>
        \A j \in JobsOf(agent[w].batch) :
            Room(j, Sealed(agent[w].batch)[j].attempt,
                 Sealed(agent[w].batch)[j].plan)

\* The budget of job j, by attempts or by its pictures of each source.
Tries(j) ==
    /\ Source[j] = None => jobs[j].attempts <= MaxAttempts
    /\ Source[j] # None =>
          \A n \in DOMAIN files[j] :
              Cardinality(From(j, files[j][n].plan.from)) <= MaxAttempts

RoomIInv ==
    /\ FewPictures /\ StudioRoom /\ SealedRoom /\ ImportRoom
    /\ \A j \in Jobs : Tries(j)

\* Sets of the numbers 1 .. a.
LEMMA FewNumbers ==
  ASSUME NEW a \in Nat, NEW D \in SUBSET (1..a), NEW S \in SUBSET D
  PROVE  /\ IsFiniteSet(S) /\ Cardinality(S) \in Nat
         /\ Cardinality(S) <= a
         /\ Cardinality(S) = a => S = D
  <1>1. /\ IsFiniteSet(1..a)
        /\ Cardinality(1..a) = IF 1 > a THEN 0 ELSE a - 1 + 1
    BY FS_Interval
  <1>2. (IF 1 > a THEN 0 ELSE a - 1 + 1) = a
    OBVIOUS
  <1>3. IsFiniteSet(1..a) /\ Cardinality(1..a) = a
    BY <1>1, <1>2
  <1>4. S \in SUBSET (1..a)
    OBVIOUS
  <1>5. /\ IsFiniteSet(S) /\ Cardinality(S) \in Nat
        /\ Cardinality(S) <= a
        /\ Cardinality(S) = a => S = 1..a
    BY <1>3, <1>4, FS_Subset, FS_CardinalityType
  <1> QED
    BY <1>5

\* The pictures of a job are finitely many.
LEMMA FromFinite ==
  ASSUME RefusalIInv, RoomIInv, NEW j \in Jobs, NEW source
  PROVE  /\ IsFiniteSet(From(j, source))
         /\ Cardinality(From(j, source)) \in Nat
  <1>1. jobs[j].attempts + 1 \in Nat
    BY DEF RefusalIInv, RowNumbers
  <1>2. DOMAIN files[j] \in SUBSET (1..jobs[j].attempts + 1)
    BY DEF RoomIInv, FewPictures
  <1>3. From(j, source) \in SUBSET DOMAIN files[j]
    BY DEF From
  <1> QED
    BY <1>1, <1>2, <1>3, FewNumbers

\* What is planned while its number is free has room (retry_allowed()).
LEMMA PlannedHasRoom ==
  ASSUME RefusalIInv, RoomIInv, NEW j \in Jobs, NEW row,
         Plan(j, row) # None, row.attempts = jobs[j].attempts
  PROVE  /\ Source[j] = None => jobs[j].attempts + 1 <= MaxAttempts
         /\ Room(j, jobs[j].attempts + 1, Plan(j, row))
  <1> DEFINE source == AcceptedSource(j)
             a == jobs[j].attempts
  <1>1. a \in Nat /\ MaxAttempts \in Nat
    BY LimitsArePositive DEF RefusalIInv, RowNumbers
  <1>2. /\ RetryAllowed(j, row, source)
        /\ Source[j] # None => Plan(j, row).from = source
    BY DEF Plan
  <1>3. Source[j] = None => a + 1 <= MaxAttempts
    BY <1>1, <1>2 DEF RetryAllowed
  <1>4. ASSUME Source[j] # None, a + 1 \notin DOMAIN files[j]
        PROVE  Cardinality(From(j, source)) < MaxAttempts
    <2>1. DOMAIN files[j] \in SUBSET (1..a)
      <3>1. DOMAIN files[j] \subseteq 1..a + 1
        BY DEF RoomIInv, FewPictures
      <3> HIDE DEF a
      <3> QED
        BY <1>1, <1>4, <3>1
    <2>2. CASE row.attempts < MaxAttempts
      <3>1. From(j, source) \in SUBSET DOMAIN files[j]
        BY DEF From
      <3>2. /\ Cardinality(From(j, source)) \in Nat
            /\ Cardinality(From(j, source)) <= a
        BY <1>1, <2>1, <3>1, FewNumbers
      <3> QED
        BY <1>1, <2>2, <3>2
    <2>3. CASE /\ Cardinality(Described(j)) = row.attempts
               /\ Cardinality({n \in Described(j) :
                      files[j][n].plan.from = source}) < MaxAttempts
      <3>1. Described(j) \in SUBSET DOMAIN files[j] /\ Cardinality(Described(j)) = a
        BY <2>3 DEF Described
      <3>2. Described(j) = DOMAIN files[j]
        BY <1>1, <2>1, <3>1, FewNumbers
      <3>3. {n \in Described(j) : files[j][n].plan.from = source} = From(j, source)
        BY <3>2 DEF From
      <3> QED
        BY <2>3, <3>3
    <2> QED
      BY <1>2, <2>2, <2>3 DEF RetryAllowed
  <1>5. Room(j, a + 1, Plan(j, row))
    BY <1>2, <1>4 DEF Room
  <1> QED
    BY <1>3, <1>5

\* A picture that is filed where there was room.
LEMMA FiledHasRoom ==
  ASSUME BatchIInv, RefusalIInv, RoomIInv, UNCHANGED jobs,
         NEW j \in Jobs, NEW n, n \notin DOMAIN files[j],
         NEW file, Room(j, n, file.plan),
         files' = [files EXCEPT ![j] = Filed(files[j], n, file)]
  PROVE  /\ \A i \in Jobs : Tries(i)'
         /\ DOMAIN files'[j] = DOMAIN files[j] \cup {n}
         /\ \A i \in Jobs \ {j} : files'[i] = files[i]
  <1>1. /\ DOMAIN files'[j] = DOMAIN files[j] \cup {n}
        /\ files'[j][n] = file
        /\ \A k \in DOMAIN files[j] : files'[j][k] = files[j][k]
        /\ \A i \in Jobs \ {j} : files'[i] = files[i]
    BY DEF BatchIInv, Pictures, Filed
  <1>2. ASSUME NEW i \in Jobs \ {j} PROVE Tries(i)'
    BY <1>1, <1>2 DEF RoomIInv, Tries, From
  <1>3. ASSUME Source[j] # None, NEW k \in DOMAIN files'[j]
        PROVE  Cardinality({m \in DOMAIN files'[j] :
                   files'[j][m].plan.from = files'[j][k].plan.from}) <= MaxAttempts
    <2> DEFINE s == files'[j][k].plan.from
               old == From(j, s)
               new == {m \in DOMAIN files'[j] : files'[j][m].plan.from = s}
    <2>1. IsFiniteSet(old) /\ Cardinality(old) \in Nat /\ MaxAttempts \in Nat
      BY FromFinite, LimitsArePositive
    <2>2. CASE s = file.plan.from
      <3>1. new = old \cup {n} /\ n \notin old
        BY <1>1, <2>2 DEF From
      <3>2. Cardinality(old) < MaxAttempts
        BY <1>3, <2>2 DEF Room
      <3> HIDE DEF old, new
      <3>3. Cardinality(old \cup {n}) = Cardinality(old) + 1
        BY <2>1, <3>1, FS_AddElement
      <3>4. Cardinality(new) <= MaxAttempts
        BY <2>1, <3>1, <3>2, <3>3
      <3> QED
        BY <3>4 DEF new
    <2>3. CASE s # file.plan.from
      <3>1. k \in DOMAIN files[j] /\ s = files[j][k].plan.from
        BY <1>1, <1>3, <2>3
      <3>2. new = old
        BY <1>1, <2>3 DEF From
      <3>3. Cardinality(old) <= MaxAttempts
        BY <1>3, <3>1 DEF RoomIInv, Tries
      <3> QED
        BY <3>2, <3>3
    <2> QED
      BY <2>2, <2>3
  <1>4. Tries(j)'
    BY <1>3 DEF RoomIInv, Tries, From
  <1> QED
    BY <1>1, <1>2, <1>4

\* Steps that file nothing and begin nothing.
LEMMA RoomStays ==
  ASSUME BatchIInv, RefusalIInv, RoomIInv,
         \A j \in Jobs : jobs'[j].attempts = jobs[j].attempts,
         \A j \in Jobs :
            /\ DOMAIN files'[j] = DOMAIN files[j]
            /\ \A n \in DOMAIN files[j] : files'[j][n].plan = files[j][n].plan,
         UNCHANGED studio \/ studio'.at # "render",
         SealedRoom',
         \A w \in Workers : HasLock(w)' =>
            /\ HasLock(w) /\ agent'[w].batch = agent[w].batch
            /\ batches'[agent[w].batch].sealed = batches[agent[w].batch].sealed
  PROVE  RoomIInv'
  <1>1. \A j \in Jobs : \A s : From(j, s)' = From(j, s)
    BY DEF From
  <1>2. FewPictures'
    BY DEF RoomIInv, FewPictures
  <1>3. ASSUME NEW j \in Jobs PROVE Tries(j)'
    BY <1>1 DEF RoomIInv, Tries
  <1>4. \A j \in Jobs : \A n, plan : Room(j, n, plan) => Room(j, n, plan)'
    BY <1>1 DEF Room
  <1>5. StudioRoom'
    <2> SUFFICES ASSUME UNCHANGED studio, studio.at = "render"
                 PROVE  Room(studio.job, Attempt, studio.plan)'
      BY DEF StudioRoom
    <2>1. studio.job \in Jobs /\ Room(studio.job, Attempt, studio.plan)
      BY InHand DEF RoomIInv, StudioRoom
    <2>2. Attempt' = Attempt
      BY DEF Attempt, NextAttempt
    <2> QED
      BY <1>1, <2>1, <2>2 DEF Room
  <1>6. ImportRoom'
    <2> SUFFICES ASSUME NEW w \in Workers, HasLock(w)',
                        NEW j \in DOMAIN batches[agent[w].batch].sealed
                 PROVE  Room(j, batches[agent[w].batch].sealed[j].attempt,
                             batches[agent[w].batch].sealed[j].plan)'
      BY DEF ImportRoom, JobsOf, Sealed
    <2>1. HasLock(w) /\ agent[w].batch \in Numbers
      BY DEF BatchIInv, Importing, Reserved
    <2>2. j \in Jobs
      BY <2>1 DEF RefusalIInv, SealedFits, JobsOf, Sealed
    <2>3. Room(j, batches[agent[w].batch].sealed[j].attempt,
               batches[agent[w].batch].sealed[j].plan)
      BY <2>1 DEF RoomIInv, ImportRoom, JobsOf, Sealed
    <2> QED
      BY <1>1, <2>2, <2>3 DEF Room
  <1> QED
    BY <1>2, <1>3, <1>5, <1>6 DEF RoomIInv

\* Only an attempt that begins and an import change a counter.
LEMMA AttemptsStay ==
  ASSUME BatchIInv, RefusalIInv,
         \/ StartGenerate \/ EndGenerate \/ StudioFails
         \/ StartReview \/ EndReview \/ ReviewStep \/ ReviewFails
         \/ DescribeAttempt \/ RecordAttempt \/ LogAttempt
         \/ \E j \in Jobs : SkipBlocked(j) \/ Direct(j)
  PROVE  \A j \in Jobs : jobs'[j].attempts = jobs[j].attempts
  <1>1. DOMAIN jobs = Jobs /\ \A j \in Jobs : DOMAIN jobs[j] = RowFields
    BY DEF BatchIInv, Table, RefusalIInv, RowNumbers
  <1>2. ASSUME NEW k, NEW x, jobs' = [jobs EXCEPT ![k].state = x]
        PROVE  \A j \in Jobs : jobs'[j].attempts = jobs[j].attempts
    BY <1>1, <1>2 DEF RowFields
  <1>3. ASSUME NEW k, NEW x, NEW y,
               jobs' = [jobs EXCEPT ![k].state = x, ![k].review = y]
        PROVE  \A j \in Jobs : jobs'[j].attempts = jobs[j].attempts
    BY <1>1, <1>3 DEF RowFields
  <1>4. CASE StartGenerate
    BY <1>1, <1>4 DEF StartGenerate, RowFields
  <1>5. CASE StartReview
    BY <1>1, <1>5 DEF StartReview, TakenOver, RowFields
  <1>6. CASE UNCHANGED jobs
    BY <1>6
  <1>7. CASE FailAttempt \/ LoseService \/ LackReview \/ FailReview
    <2>1. \E k, x : jobs' = [jobs EXCEPT ![k].state = x]
      BY <1>7 DEF FailAttempt, LoseService, LackReview, FailReview
    <2> QED
      BY <1>2, <2>1
  <1>8. CASE RecordAttempt
    <2>1. \E n : jobs' = [jobs EXCEPT ![studio.job] =
             [jobs[studio.job] EXCEPT !.state = "generated", !.image = n,
                                      !.review = None]]
      BY <1>8 DEF RecordAttempt
    <2> QED
      BY <1>1, <2>1 DEF RowFields
  <1>9. ASSUME NEW j \in Jobs, BeginReview(j)
        PROVE  \A i \in Jobs : jobs'[i].attempts = jobs[i].attempts
    BY <1>2, <1>9 DEF BeginReview
  <1>10. ASSUME NEW d \in Verdicts, Decide(d)
         PROVE  \A i \in Jobs : jobs'[i].attempts = jobs[i].attempts
    <2>1. \E x, y : jobs' = [jobs EXCEPT ![reviewer.job].state = x,
                                         ![reviewer.job].review = y]
      BY <1>10 DEF Decide
    <2> QED
      BY <1>3, <2>1
  <1>11. ASSUME NEW j \in Jobs, Direct(j)
         PROVE  \A i \in Jobs : jobs'[i].attempts = jobs[i].attempts
    <2>1. CASE RejectImage(j)
      BY <1>2, <2>1 DEF RejectImage
    <2>2. ASSUME NEW d, Resolve(j, d)
          PROVE  \A i \in Jobs : jobs'[i].attempts = jobs[i].attempts
      <3>1. \E x, y : jobs' = [jobs EXCEPT ![j].state = x, ![j].review = y]
        BY <1>1, <2>2 DEF Resolve, RowFields
      <3> QED
        BY <1>3, <3>1
    <2> QED
      BY <1>11, <2>1, <2>2 DEF Direct, AcceptOcrReview, AcceptGeometryReview
  <1> QED
    BY <1>4, <1>5, <1>6, <1>7, <1>8, <1>9, <1>10, <1>11
       DEF EndGenerate, StudioFails, StudioDies, EndReview, ReviewStep, SkipReview,
           LogReview, ReviewFails, ReviewerDies, DescribeAttempt, LogAttempt,
           SkipBlocked, ledger

LEMMA InitRoomIInv == RemoteInit => RoomIInv
  <1> SUFFICES ASSUME RemoteInit PROVE RoomIInv
    OBVIOUS
  <1>1. FewPictures /\ StudioRoom
    BY DEF RemoteInit, Init, FewPictures, StudioRoom, Idle
  <1>2. SealedRoom /\ ImportRoom
    BY DEF RemoteInit, SealedRoom, ImportRoom, JobsOf, Sealed, NoBatch, HasLock, Idle
  <1>3. \A j \in Jobs : Tries(j)
    BY LimitsArePositive DEF RemoteInit, Init, Tries
  <1> QED
    BY <1>1, <1>2, <1>3 DEF RoomIInv

\* The generator, the reviewer and people beside the batches.
LEMMA LocalRoom ==
  ASSUME BatchIInv, RefusalIInv, RoomIInv, Local
  PROVE  RoomIInv'
  <1>1. UNCHANGED <<batches, agent>>
    BY DEF Local, remote
  <1>2. SealedRoom'
    BY <1>1 DEF RoomIInv, SealedRoom, JobsOf, Sealed
  <1>3. \A w \in Workers : HasLock(w)' =>
            /\ HasLock(w) /\ agent'[w].batch = agent[w].batch
            /\ batches'[agent[w].batch].sealed = batches[agent[w].batch].sealed
    BY <1>1 DEF HasLock
  <1>4. ASSUME UNCHANGED files,
               \/ StartGenerate \/ EndGenerate \/ StudioFails
               \/ StartReview \/ EndReview \/ ReviewStep \/ ReviewFails
               \/ DescribeAttempt \/ RecordAttempt \/ LogAttempt
               \/ \E j \in Jobs : SkipBlocked(j) \/ Direct(j),
               UNCHANGED studio \/ studio'.at # "render"
        PROVE  RoomIInv'
    BY <1>2, <1>3, <1>4, AttemptsStay, RoomStays
  <1>5. CASE StartGenerate \/ EndGenerate \/ StudioFails
    <2>1. UNCHANGED files /\ studio'.at # "render"
      BY <1>5 DEF StartGenerate, EndGenerate, StudioFails, FailAttempt, StudioDies,
                  StudioEnds, Idle, ledger
    <2> QED
      BY <1>4, <1>5, <2>1
  <1>6. CASE StartReview \/ EndReview \/ ReviewStep \/ ReviewFails
    <2>1. UNCHANGED <<files, studio>>
      BY <1>6 DEF StartReview, EndReview, ReviewStep, SkipReview, BeginReview, Decide,
           LogReview, ReviewFails, LoseService, LackReview, FailReview,
           ReviewerDies, ledger
    <2> QED
      BY <1>4, <1>6, <2>1
  <1>7. ASSUME NEW j \in Jobs, Direct(j) PROVE RoomIInv'
    <2>1. UNCHANGED <<files, studio>>
      BY <1>7 DEF Direct, RejectImage, AcceptOcrReview, AcceptGeometryReview, Resolve
    <2> QED
      BY <1>4, <1>7, <2>1
  <1>8. studio.at # "idle" =>
           {"at", "queue", "job", "plan"} \subseteq DOMAIN studio
    BY DEF RefusalIInv, NewPicture
  <1>9. ASSUME NEW j \in Jobs, SkipBlocked(j) PROVE RoomIInv'
    <2>1. UNCHANGED files /\ studio'.at # "render"
      BY <1>8, <1>9 DEF SkipBlocked, ledger
    <2> QED
      BY <1>4, <1>9, <2>1
  <1>10. CASE RecordAttempt \/ LogAttempt
    <2>1. UNCHANGED files /\ studio'.at # "render"
      BY <1>8, <1>10 DEF RecordAttempt, LogAttempt, ledger
    <2> QED
      BY <1>4, <1>10, <2>1
  <1>11. CASE DescribeAttempt
    <2>1. /\ studio'.at # "render"
          /\ files' = [files EXCEPT ![studio.job][Attempt].told = TRUE]
      BY <1>8, <1>11 DEF DescribeAttempt
    <2>2. \A j \in Jobs :
             /\ DOMAIN files'[j] = DOMAIN files[j]
             /\ \A n \in DOMAIN files[j] : files'[j][n].plan = files[j][n].plan
      BY <2>1 DEF BatchIInv, Pictures
    <2> QED
      BY <1>2, <1>3, <1>11, <2>1, <2>2, AttemptsStay, RoomStays
  <1>12. CASE LinkAttempt
    <2> DEFINE job == studio.job
               file == [plan |-> studio.plan, by |-> 0, told |-> FALSE]
    <2>1. /\ studio.at = "render" /\ Attempt \notin DOMAIN files[job]
          /\ files' = [files EXCEPT ![job] = Filed(files[job], Attempt, file)]
          /\ studio' = [studio EXCEPT !.at = "describe"]
          /\ UNCHANGED jobs
      BY <1>12 DEF LinkAttempt
    <2>2. job \in Jobs /\ Attempt = jobs[job].attempts /\ jobs[job].attempts \in Nat
      BY <2>1, InHand DEF RefusalIInv, RowNumbers
    <2>3. Room(job, Attempt, file.plan)
      BY <2>1 DEF RoomIInv, StudioRoom
    <2>9. Attempt # 0
      BY <2>1, InHand DEF Attempt, NextAttempt
    <2> HIDE DEF job, file
    <2>4. /\ \A i \in Jobs : Tries(i)'
          /\ DOMAIN files'[job] = DOMAIN files[job] \cup {Attempt}
          /\ \A i \in Jobs \ {job} : files'[i] = files[i]
      BY <2>1, <2>2, <2>3, FiledHasRoom
    <2>5. FewPictures'
      <3>1. ASSUME NEW i \in Jobs, NEW n \in DOMAIN files'[i]
            PROVE  n \in 1..jobs[i].attempts + 1
        <4>1. CASE n \in DOMAIN files[i]
          BY <4>1 DEF RoomIInv, FewPictures
        <4>2. CASE i = job /\ n = Attempt
          BY <2>2, <2>9, <4>2
        <4> QED
          BY <2>4, <3>1, <4>1, <4>2
      <3> QED
        BY <2>1, <3>1 DEF FewPictures
    <2>6. studio'.at = "describe"
      BY <1>8, <2>1
    <2>7. StudioRoom'
      BY <2>6 DEF StudioRoom
    <2>8. ImportRoom'
      <3>1. ~ \E w \in Workers : HasLock(w)
        BY <2>1, WorkersAreNames DEF BatchIInv, ImportsLocked
      <3> QED
        BY <1>1, <3>1 DEF ImportRoom, HasLock
    <2> QED
      BY <1>2, <2>4, <2>5, <2>7, <2>8 DEF RoomIInv
  <1>13. ASSUME NEW j \in Jobs, BeginAttempt(j) PROVE RoomIInv'
    <2> DEFINE row == studio.queue[j]
               n == row.attempts + 1
    <2>1. /\ studio' = [studio EXCEPT !.at = "render", !.job = j,
                                      !.plan = Plan(j, row)]
          /\ jobs' = [jobs EXCEPT ![j].state = "generating", ![j].attempts = n]
          /\ studio.at = "next" /\ j \in DOMAIN studio.queue
          /\ n \notin DOMAIN files[j] /\ Plan(j, row) # None /\ UNCHANGED files
      BY <1>13 DEF BeginAttempt, NextAttempt
    <2>2. /\ row.attempts = jobs[j].attempts /\ jobs[j].attempts \in Nat
      BY <2>1, NoneIsNothing DEF RefusalIInv, NewPicture, RowNumbers
    <2>3. DOMAIN jobs = Jobs /\ \A i \in Jobs : DOMAIN jobs[i] = RowFields
      BY DEF BatchIInv, Table, RefusalIInv, RowNumbers
    <2>4. jobs'[j].attempts = n /\ \A i \in Jobs : i # j => jobs'[i] = jobs[i]
      BY <2>1, <2>3 DEF RowFields
    <2>5. /\ Source[j] = None => jobs[j].attempts + 1 <= MaxAttempts
          /\ Room(j, jobs[j].attempts + 1, Plan(j, row))
      BY <2>1, <2>2, PlannedHasRoom
    <2>6. FewPictures'
      <3>1. \A i \in Jobs : DOMAIN files[i] \subseteq 1..jobs[i].attempts + 1
        BY DEF RoomIInv, FewPictures
      <3>2. DOMAIN files[j] \subseteq 1..n + 1
        BY <2>2, <3>1
      <3>3. \A i \in Jobs : DOMAIN files[i] \subseteq 1..jobs'[i].attempts + 1
        BY <2>4, <3>1, <3>2
      <3> QED
        BY <2>1, <3>3 DEF FewPictures
    <2>7. \A i \in Jobs : Tries(i)'
      <3>1. ASSUME NEW i \in Jobs, i # j PROVE Tries(i)'
        <4>1. Tries(i) /\ jobs'[i] = jobs[i] /\ files' = files
          BY <2>1, <2>4, <3>1 DEF RoomIInv
        <4> QED
          BY <4>1 DEF Tries, From
      <3>2. Tries(j)'
        BY <2>1, <2>2, <2>4, <2>5 DEF RoomIInv, Tries, From
      <3> QED
        BY <3>1, <3>2
    <2>8. StudioRoom'
      <3>1. /\ studio'.job = j /\ studio'.queue = studio.queue
            /\ studio'.plan = Plan(j, row)
        BY <1>8, <2>1
      <3>2. Attempt' = n
        BY <3>1 DEF Attempt, NextAttempt
      <3>3. Room(j, n, Plan(j, row))
        BY <2>2, <2>5
      <3> HIDE DEF n, row
      <3> QED
        BY <2>1, <3>1, <3>2, <3>3 DEF StudioRoom, Room, From
    <2>9. ImportRoom'
      <3>1. ~ \E w \in Workers : HasLock(w)
        BY <2>1, WorkersAreNames DEF BatchIInv, ImportsLocked
      <3> QED
        BY <1>1, <3>1 DEF ImportRoom, HasLock
    <2> QED
      BY <1>2, <2>6, <2>7, <2>8, <2>9 DEF RoomIInv
  <1> QED
    BY <1>5, <1>6, <1>7, <1>9, <1>10, <1>11, <1>12, <1>13
       DEF Local, LocalStep, GenerateFor, Publish

-----------------------------------------------------------------------------
(* The coordinators and the budget.                                        *)

\* A coordinator goes on, or stops, without the lock or with the one it had.
LEMMA AgentMovesRoom ==
  ASSUME BatchIInv, RefusalIInv, RoomIInv, NEW w \in Workers, NEW state,
         Goes(w, state), UNCHANGED <<jobs, studio>>,
         \A j \in Jobs :
            /\ DOMAIN files'[j] = DOMAIN files[j]
            /\ \A n \in DOMAIN files[j] : files'[j][n].plan = files[j][n].plan,
         \A b \in Numbers : batches'[b].sealed = batches[b].sealed,
         \/ state.at \notin {"file", "describe"}
         \/ HasLock(w) /\ state.batch = agent[w].batch
  PROVE  RoomIInv'
  <1>1. agent'[w] = state /\ \A v \in Workers : v # w => agent'[v] = agent[v]
    BY DEF Goes, BatchIInv, Agents
  <1>2. ASSUME NEW v \in Workers, HasLock(v)'
        PROVE  /\ HasLock(v) /\ agent'[v].batch = agent[v].batch
               /\ batches'[agent[v].batch].sealed = batches[agent[v].batch].sealed
    <2>1. HasLock(v) /\ agent'[v].batch = agent[v].batch
      BY <1>1, <1>2 DEF HasLock
    <2>2. agent[v].batch \in Numbers
      BY <2>1 DEF BatchIInv, Importing, Reserved
    <2> QED
      BY <2>1, <2>2
  <1>3. SealedRoom'
    BY DEF RoomIInv, SealedRoom, JobsOf, Sealed
  <1>4. \A j \in Jobs : jobs'[j].attempts = jobs[j].attempts
    OBVIOUS
  <1> QED
    BY <1>2, <1>3, <1>4, RoomStays

LEMMA WaitingRoom ==
  ASSUME BatchIInv, RefusalIInv, RoomIInv, NEW w \in Workers,
         \/ Resume(w) \/ RefuseImport(w) \/ Restart(w) \/ Receive(w)
         \/ CoordinatorDies(w) \/ \E j \in Jobs : ConflictImport(w, j)
  PROVE  RoomIInv'
  <1>1. UNCHANGED <<jobs, files, studio>>
    BY DEF Resume, RefuseImport, Restart, Receive, CoordinatorDies, ConflictImport,
           vars, ledger
  <1>2. \A b \in Numbers : batches'[b].sealed = batches[b].sealed
    <2>1. \/ UNCHANGED batches
          \/ batches' = [batches EXCEPT ![agent[w].batch].returned = TRUE]
      BY DEF Resume, RefuseImport, Restart, Receive, CoordinatorDies, ConflictImport
    <2> QED
      BY <2>1 DEF BatchIInv, Batches
  <1>3. \A j \in Jobs :
            /\ DOMAIN files'[j] = DOMAIN files[j]
            /\ \A n \in DOMAIN files[j] : files'[j][n].plan = files[j][n].plan
    BY <1>1
  <1>4. ASSUME NEW state, Goes(w, state),
               state.at \in {"idle", "render", "import", "attention"}
        PROVE  RoomIInv'
    <2>1. state.at \notin {"file", "describe"}
      BY <1>4
    <2> QED
      BY <1>1, <1>2, <1>3, <1>4, <2>1, AgentMovesRoom
  <1>5. CASE Resume(w)
    <2>1. PICK b : Goes(w, Busy(w, "render", b))
      BY <1>5 DEF Resume
    <2>2. Busy(w, "render", b).at = "render"
      BY DEF Busy
    <2> QED
      BY <1>4, <2>1, <2>2
  <1>6. CASE RefuseImport(w) \/ \E j \in Jobs : ConflictImport(w, j)
    <2> DEFINE state == [at |-> "attention"]
    <2>1. state.at = "attention" /\ Goes(w, state)
      BY <1>6 DEF RefuseImport, ConflictImport
    <2> HIDE DEF state
    <2> QED
      BY <1>4, <2>1
  <1>7. CASE Restart(w) \/ CoordinatorDies(w)
    <2>1. Idle.at = "idle" /\ Goes(w, Idle)
      BY <1>7 DEF Restart, CoordinatorDies, Idle
    <2> QED
      BY <1>4, <2>1
  <1>8. CASE Receive(w)
    <2> DEFINE state == [agent[w] EXCEPT !.at = "import"]
    <2>1. Goes(w, state) /\ "at" \in DOMAIN agent[w]
      BY <1>8 DEF Receive, At, BatchIInv, Agents
    <2>2. state.at = "import"
      BY <2>1
    <2> HIDE DEF state
    <2> QED
      BY <1>4, <2>1, <2>2
  <1> QED
    BY <1>5, <1>6, <1>7, <1>8

\* What is imported was planned again for the jobs as they are, so it has
\* room.
LEMMA OpenImportRoom ==
  ASSUME BatchIInv, RefusalIInv, RoomIInv, NEW w \in Workers, OpenImport(w)
  PROVE  RoomIInv'
  <1> DEFINE b == agent[w].batch
             state == [agent[w] EXCEPT !.at = "file"]
  <1>1. /\ agent' = [agent EXCEPT ![w] = state] /\ agent[w].at = "import"
        /\ lock["generation"] = None
        /\ UNCHANGED <<jobs, files, studio, batches>>
        /\ Importable(b)
    BY DEF OpenImport, Goes, At, GenerationFree, ledger
  <1>2. ~ \E v \in Workers : HasLock(v)
    BY <1>1, NoneIsNothing, WorkersAreNames DEF BatchIInv, ImportsLocked
  <1>3. state.batch = agent[w].batch
    BY <1>1 DEF BatchIInv, Agents
  <1> HIDE DEF state
  <1>4. agent'[w] = state /\ \A v \in Workers : v # w => agent'[v] = agent[v]
    BY <1>1 DEF BatchIInv, Agents
  <1>5. \A v \in Workers : HasLock(v)' => v = w
    BY <1>2, <1>4 DEF HasLock
  <1>6. b \in Numbers
    BY <1>1 DEF Importable, Reserved
  <1>7. ASSUME NEW j \in JobsOf(b)
        PROVE  Room(j, Sealed(b)[j].attempt, Sealed(b)[j].plan)
    <2> DEFINE prior == [jobs[j] EXCEPT !.state = Sealed(b)[j].state]
               row == IF AwaitsGeometry(prior) THEN [prior EXCEPT !.review = None]
                      ELSE prior
    <2>1. /\ jobs[j].attempts = Sealed(b)[j].attempt - 1
          /\ Plan(j, row) = Sealed(b)[j].plan
      BY <1>1 DEF Importable, Held
    <2>2. j \in Jobs /\ Sealed(b)[j].attempt \in Nat /\ Sealed(b)[j].plan # None
      BY <1>6 DEF RefusalIInv, SealedFits, RoomIInv, SealedRoom
    <2>3. DOMAIN jobs[j] = RowFields
      BY <2>2 DEF RefusalIInv, RowNumbers
    <2>4. row.attempts = jobs[j].attempts
      <3>1. /\ prior.attempts = jobs[j].attempts
            /\ [prior EXCEPT !.review = None].attempts = jobs[j].attempts
        BY <2>3 DEF RowFields
      <3> HIDE DEF prior
      <3> QED
        BY <3>1
    <2> HIDE DEF row
    <2>5. Room(j, jobs[j].attempts + 1, Plan(j, row))
      BY <2>1, <2>2, <2>4, PlannedHasRoom
    <2>6. jobs[j].attempts + 1 = Sealed(b)[j].attempt
      BY <2>1, <2>2
    <2> QED
      BY <2>1, <2>5, <2>6
  <1>8. ImportRoom'
    <2> SUFFICES ASSUME NEW v \in Workers, HasLock(v)'
                 PROVE  (\A j \in JobsOf(agent[v].batch) :
                            Room(j, Sealed(agent[v].batch)[j].attempt,
                                 Sealed(agent[v].batch)[j].plan))'
      BY DEF ImportRoom
    <2>1. v = w /\ agent'[v].batch = agent[w].batch
      BY <1>3, <1>4, <1>5
    <2>2. UNCHANGED <<files, batches>>
      BY <1>1
    <2> QED
      BY <1>7, <2>1, <2>2 DEF JobsOf, Sealed, Room, From
  <1>9. FewPictures' /\ StudioRoom' /\ SealedRoom' /\ \A j \in Jobs : Tries(j)'
    BY <1>1 DEF RoomIInv, FewPictures, StudioRoom, SealedRoom, Tries, Room, From,
                Attempt, NextAttempt, JobsOf, Sealed
  <1> QED
    BY <1>8, <1>9 DEF RoomIInv

LEMMA FilingRoom ==
  ASSUME BatchIInv, RefusalIInv, RoomIInv, NEW w \in Workers,
         DescribeImport(w) \/ \E j \in Jobs : LinkImport(w, j)
  PROVE  RoomIInv'
  <1> DEFINE b == agent[w].batch
  <1>1. HasLock(w) /\ UNCHANGED <<jobs, studio, batches, lock>>
    BY DEF DescribeImport, LinkImport, ToFile, At, HasLock
  <1>2. "at" \in DOMAIN agent[w] /\ "batch" \in DOMAIN agent[w]
    BY <1>1 DEF BatchIInv, Agents, HasLock
  <1>3. ASSUME NEW state, Goes(w, state), state.batch = agent[w].batch,
               \A j \in Jobs :
                  /\ DOMAIN files'[j] = DOMAIN files[j]
                  /\ \A n \in DOMAIN files[j] : files'[j][n].plan = files[j][n].plan
        PROVE  RoomIInv'
    BY <1>1, <1>3, AgentMovesRoom
  <1>4. CASE DescribeImport(w)
    <2> DEFINE state == [agent[w] EXCEPT !.at = "file", !.job = None,
                             !.done = agent[w].done \cup {agent[w].job}]
               k == agent[w].job
    <2>1. Goes(w, state) /\ state.batch = agent[w].batch
      BY <1>2, <1>4 DEF DescribeImport
    <2>2. files' = [files EXCEPT ![k][Sealed(b)[k].attempt].told = TRUE]
      BY <1>4 DEF DescribeImport
    <2>3. \A j \in Jobs :
             /\ DOMAIN files'[j] = DOMAIN files[j]
             /\ \A n \in DOMAIN files[j] : files'[j][n].plan = files[j][n].plan
      BY <2>2 DEF BatchIInv, Pictures
    <2> HIDE DEF state
    <2> QED
      BY <1>3, <2>1, <2>3
  <1>5. ASSUME NEW j \in Jobs, LinkImport(w, j) PROVE RoomIInv'
    <2> DEFINE state == [agent[w] EXCEPT !.at = "describe", !.job = j]
               n == Sealed(b)[j].attempt
               file == ImportedFile(b, j)
    <2>1. Goes(w, state) /\ state.batch = agent[w].batch
      BY <1>2, <1>5 DEF LinkImport
    <2> HIDE DEF state
    <2>2. CASE UNCHANGED files
      BY <1>3, <2>1, <2>2
    <2>3. CASE /\ n \notin DOMAIN files[j]
               /\ files' = [files EXCEPT ![j] = Filed(files[j], n, file)]
      <3>1. b \in Numbers /\ j \in JobsOf(b) /\ agent[w].at = "file"
        BY <1>1, <1>5 DEF LinkImport, ToFile, At, BatchIInv, Importing, Reserved
      <3>2. /\ n \in Nat /\ jobs[j].attempts = n - 1
            /\ Room(j, n, Sealed(b)[j].plan)
        BY <1>1, <3>1 DEF RefusalIInv, SealedFits, NewImport, RoomIInv, ImportRoom
      <3>3. file.plan = Sealed(b)[j].plan
        BY DEF ImportedFile
      <3>4. jobs[j].attempts \in Nat
        BY DEF RefusalIInv, RowNumbers
      <3> HIDE DEF file, n
      <3>5. /\ \A i \in Jobs : Tries(i)'
            /\ DOMAIN files'[j] = DOMAIN files[j] \cup {n}
            /\ \A i \in Jobs \ {j} : files'[i] = files[i]
        BY <1>1, <2>3, <3>2, <3>3, FiledHasRoom
      <3>6. FewPictures'
        <4>1. \A i \in Jobs : DOMAIN files[i] \subseteq 1..jobs[i].attempts + 1
          BY DEF RoomIInv, FewPictures
        <4>2. n \in 1..jobs[j].attempts + 1
          BY <3>2, <3>4
        <4> QED
          BY <1>1, <3>5, <4>1, <4>2 DEF FewPictures
      <3>7. StudioRoom'
        <4>1. studio.at = "idle"
          BY <1>1, WorkersAreNames DEF BatchIInv, ImportsLocked
        <4> QED
          BY <1>1, <4>1 DEF StudioRoom
      <3>8. SealedRoom'
        BY <1>1 DEF RoomIInv, SealedRoom, JobsOf, Sealed
      <3>9. ImportRoom'
        <4>1. agent'[w] = state /\ \A v \in Workers : v # w => agent'[v] = agent[v]
          BY <2>1 DEF Goes, BatchIInv, Agents
        <4>2. \A v \in Workers : HasLock(v)' => v = w
          BY <1>1, <4>1 DEF HasLock, BatchIInv, ImportsLocked
        <4>3. ASSUME NEW i \in JobsOf(b), Source[i] # None,
                     Sealed(b)[i].attempt \notin DOMAIN files'[i]
              PROVE  Cardinality({m \in DOMAIN files'[i] :
                        files'[i][m].plan.from = Sealed(b)[i].plan.from})
                     < MaxAttempts
          <5>1. Room(i, Sealed(b)[i].attempt, Sealed(b)[i].plan) /\ i \in Jobs
            BY <1>1, <3>1 DEF RoomIInv, ImportRoom, RefusalIInv, SealedFits
          <5>2. i # j
            BY <3>5, <4>3 DEF n
          <5> QED
            BY <3>5, <4>3, <5>1, <5>2 DEF Room, From
        <4>4. agent'[w].batch = b
          BY <2>1, <4>1
        <4> QED
          BY <1>1, <4>2, <4>3, <4>4 DEF ImportRoom, Room, From, JobsOf, Sealed
      <3> QED
        BY <3>5, <3>6, <3>7, <3>8, <3>9 DEF RoomIInv
    <2> QED
      BY <1>5, <2>2, <2>3 DEF LinkImport
  <1> QED
    BY <1>4, <1>5

LEMMA ReserveRoom ==
  ASSUME BatchIInv, RefusalIInv, RoomIInv, NEW w \in Workers, Reserve(w)
  PROVE  RoomIInv'
  <1>1. /\ agent[w].at = "idle" /\ lock["generation"] = None
        /\ UNCHANGED <<files, studio, lock>>
    BY DEF Reserve, At, GenerationFree
  <1> DEFINE packed(S) ==
               [j \in S |-> [plan |-> Plan(j, jobs[j]), state |-> jobs[j].state,
                             attempt |-> jobs[j].attempts + 1,
                             image |-> jobs[j].image]]
             batch(S) == [worker |-> w, state |-> "reserved", returned |-> FALSE,
                          sealed |-> packed(S)]
             busy(b) == [at |-> "render", batch |-> b, job |-> None, done |-> {}]
  <1>2. PICK S \in (SUBSET Eligible) \ {{}}, b \in Numbers :
          /\ batches' = [batches EXCEPT ![b] = batch(S)]
          /\ jobs' = [j \in Jobs |->
                IF j \in S THEN [jobs[j] EXCEPT !.state = "remote_reserved"]
                ELSE jobs[j]]
          /\ agent' = [agent EXCEPT ![w] = busy(b)]
    BY Zenon DEF Reserve, Goes, Busy
  <1>3. /\ DOMAIN packed(S) = S
        /\ \A j \in S : /\ packed(S)[j].plan = Plan(j, jobs[j])
                        /\ packed(S)[j].attempt = jobs[j].attempts + 1
    OBVIOUS
  <1> HIDE DEF packed
  <1>4. \A j \in S : j \in Jobs /\ Plan(j, jobs[j]) # None
    BY DEF Eligible
  <1>5. \A j \in Jobs : jobs'[j].attempts = jobs[j].attempts
    BY <1>2 DEF RefusalIInv, RowNumbers, RowFields
  <1>6. ~ \E v \in Workers : HasLock(v)'
    <2>1. ~ \E v \in Workers : HasLock(v)
      BY <1>1, NoneIsNothing, WorkersAreNames DEF BatchIInv, ImportsLocked
    <2> QED
      BY <1>2, <2>1 DEF BatchIInv, Agents, HasLock
  <1>7. SealedRoom'
    <2>1. /\ DOMAIN batches'[b].sealed = S
          /\ \A j \in S : /\ batches'[b].sealed[j].plan = Plan(j, jobs[j])
                          /\ batches'[b].sealed[j].attempt = jobs[j].attempts + 1
          /\ \A c \in Numbers : c # b => batches'[c] = batches[c]
      BY <1>2, <1>3 DEF BatchIInv, Batches
    <2>2. \A j \in S : Source[j] = None => jobs[j].attempts + 1 <= MaxAttempts
      BY <1>4, PlannedHasRoom
    <2>3. ASSUME NEW c \in Numbers, NEW j \in DOMAIN batches'[c].sealed
          PROVE  /\ batches'[c].sealed[j].plan # None
                 /\ Source[j] = None => batches'[c].sealed[j].attempt <= MaxAttempts
      <3>1. CASE c = b
        BY <1>4, <2>1, <2>2, <2>3, <3>1
      <3>2. CASE c # b
        BY <2>1, <2>3, <3>2 DEF RoomIInv, SealedRoom, JobsOf, Sealed
      <3> QED
        BY <3>1, <3>2
    <2> QED
      BY <2>3 DEF SealedRoom, JobsOf, Sealed
  <1> QED
    BY <1>1, <1>5, <1>6, <1>7, RoomStays

LEMMA CancelRoom ==
  ASSUME BatchIInv, RefusalIInv, RoomIInv, NEW b \in Numbers, Cancel(b)
  PROVE  RoomIInv'
  <1>1. /\ UNCHANGED <<files, studio, agent>>
        /\ batches' = [batches EXCEPT ![b].state = "cancelled"]
        /\ jobs' = [j \in Jobs |->
              IF j \in JobsOf(b)
              THEN [jobs[j] EXCEPT !.state = Sealed(b)[j].state] ELSE jobs[j]]
    BY DEF Cancel
  <1>2. \A j \in Jobs : jobs'[j].attempts = jobs[j].attempts
    BY <1>1 DEF RefusalIInv, RowNumbers, RowFields
  <1>3. \A c \in Numbers : batches'[c].sealed = batches[c].sealed
    BY <1>1 DEF BatchIInv, Batches
  <1>4. SealedRoom'
    BY <1>3 DEF RoomIInv, SealedRoom, JobsOf, Sealed
  <1>5. \A w \in Workers : HasLock(w)' => HasLock(w) /\ agent'[w].batch = agent[w].batch
            /\ batches'[agent[w].batch].sealed = batches[agent[w].batch].sealed
    BY <1>1, <1>3 DEF HasLock, BatchIInv, Importing, Reserved
  <1> QED
    BY <1>1, <1>2, <1>4, <1>5, RoomStays

LEMMA CommitImportRoom ==
  ASSUME BatchIInv, RefusalIInv, RoomIInv, NEW w \in Workers, CommitImport(w)
  PROVE  RoomIInv'
  <1> DEFINE b == agent[w].batch
  <1>1. /\ HasLock(w) /\ UNCHANGED <<files, studio>>
        /\ agent' = [agent EXCEPT ![w] = Idle]
        /\ batches' = [batches EXCEPT ![b].state = "imported"]
        /\ jobs' = [j \in Jobs |->
              IF j \in JobsOf(b)
              THEN [jobs[j] EXCEPT !.state = "generated", !.review = None,
                       !.attempts = Sealed(b)[j].attempt,
                       !.image = Sealed(b)[j].attempt]
              ELSE jobs[j]]
    BY DEF CommitImport, HasLock, At, Goes
  <1>2. lock["generation"] = w /\ b \in Numbers
    BY <1>1 DEF BatchIInv, Importing, ImportsLocked, Reserved
  <1>3. /\ studio.at = "idle" /\ \A v \in Workers : HasLock(v) => v = w
    BY <1>2, WorkersAreNames DEF BatchIInv, ImportsLocked
  <1>4. Idle.at = "idle"
    BY DEF Idle
  <1>5. \A v \in Workers : ~HasLock(v)'
    BY <1>1, <1>3, <1>4 DEF BatchIInv, Agents, HasLock
  <1>6. \A j \in JobsOf(b) :
           /\ j \in Jobs /\ Sealed(b)[j].attempt \in Nat
           /\ jobs[j].attempts = Sealed(b)[j].attempt - 1
           /\ Source[j] = None => Sealed(b)[j].attempt <= MaxAttempts
    <2>1. HasLock(w) /\ b \in Numbers
      BY <1>1, <1>2
    <2> QED
      BY <2>1 DEF RefusalIInv, SealedFits, NewImport, RoomIInv, SealedRoom
  <1>7. /\ \A j \in JobsOf(b) : jobs'[j].attempts = Sealed(b)[j].attempt
        /\ \A j \in Jobs \ JobsOf(b) : jobs'[j] = jobs[j]
    BY <1>1, <1>6 DEF RefusalIInv, RowNumbers, RowFields
  <1>8. \A c \in Numbers : batches'[c].sealed = batches[c].sealed
    BY <1>1 DEF BatchIInv, Batches
  <1> HIDE DEF b
  <1>9. FewPictures'
    <2>1. ASSUME NEW j \in Jobs
          PROVE  DOMAIN files[j] \subseteq 1..jobs'[j].attempts + 1
      <3>1. /\ DOMAIN files[j] \subseteq 1..jobs[j].attempts + 1
            /\ jobs[j].attempts \in Nat
        BY DEF RoomIInv, FewPictures, RefusalIInv, RowNumbers
      <3>2. jobs'[j].attempts \in Nat /\ jobs[j].attempts <= jobs'[j].attempts
        BY <1>6, <1>7, <3>1
      <3> QED
        BY <3>1, <3>2
    <2> QED
      BY <1>1, <2>1 DEF FewPictures
  <1>10. \A j \in Jobs : Tries(j)'
    BY <1>1, <1>6, <1>7 DEF RoomIInv, Tries, From
  <1>11. StudioRoom' /\ ImportRoom'
    BY <1>1, <1>3, <1>5 DEF StudioRoom, ImportRoom
  <1>12. SealedRoom'
    BY <1>8 DEF RoomIInv, SealedRoom, JobsOf, Sealed
  <1> QED
    BY <1>9, <1>10, <1>11, <1>12 DEF RoomIInv

LEMMA RoomNext ==
  ASSUME BatchIInv, RefusalIInv, RoomIInv, [RemoteNext]_allVars
  PROVE  RoomIInv'
  <1>1. CASE UNCHANGED allVars
    <2>1. UNCHANGED <<jobs, files, studio, batches, agent>>
      BY <1>1 DEF allVars, vars, remote
    <2>2. SealedRoom'
      BY <2>1 DEF RoomIInv, SealedRoom, JobsOf, Sealed
    <2> QED
      BY <2>1, <2>2, RoomStays DEF HasLock
  <1>2. ASSUME NEW j \in Jobs, RefuseToOverwrite(j) PROVE RoomIInv'
    <2>1. /\ UNCHANGED <<jobs, files, batches, agent>>
          /\ studio'.at # "render"
      BY <1>2 DEF RefuseToOverwrite, StudioEnds, Idle, ledger, remote
    <2>2. SealedRoom'
      BY <2>1 DEF RoomIInv, SealedRoom, JobsOf, Sealed
    <2> QED
      BY <2>1, <2>2, RoomStays DEF HasLock
  <1>3. ASSUME NEW w \in Workers, Coordinate(w) \/ Restart(w) \/ CoordinatorDies(w)
        PROVE  RoomIInv'
    BY <1>3, WaitingRoom, ReserveRoom, OpenImportRoom, FilingRoom, CommitImportRoom
       DEF Coordinate, ReserveStep, DecideImport, ImportStep
  <1> QED
    BY <1>1, <1>2, <1>3, LocalRoom, CancelRoom DEF RemoteNext

\* Whatever is being rendered or imported has room in its job's budget, and
\* every budget is kept (retry_allowed(), plan(), import_results()).
THEOREM RoomInvariance == RemoteSpec => []RoomIInv
  <1>1. BatchIInv /\ RefusalIInv /\ RoomIInv /\ [RemoteNext]_allVars => RoomIInv'
    BY RoomNext
  <1> QED
    BY InitRoomIInv, <1>1, BatchInvariance, RefusalInvariance, PTL DEF RemoteSpec

\* However a picture comes, and whatever was cancelled or abandoned, it is
\* tried a bounded number of times from each source, or in all
\* (retry_allowed(), import_results()).
THEOREM BudgetHoldsRemotely == RemoteSpec => []BudgetIsBounded
  <1>1. RoomIInv => BudgetIsBounded
    <2> SUFFICES ASSUME RoomIInv, NEW j \in Jobs
                 PROVE  /\ Source[j] = None => jobs[j].attempts <= MaxAttempts
                        /\ Source[j] # None =>
                             \A s \in {files[j][n].plan.from : n \in DOMAIN files[j]} :
                                Cardinality({n \in DOMAIN files[j] :
                                   files[j][n].plan.from = s}) <= MaxAttempts
      BY DEF BudgetIsBounded
    <2> QED
      BY DEF RoomIInv, Tries, From
  <1> QED
    BY <1>1, RoomInvariance, PTL
=============================================================================
