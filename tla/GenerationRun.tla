--------------------------- MODULE GenerationRun ---------------------------
(***************************************************************************)
(* The earlier generators of pictures and texts, and the synchronisation   *)
(* that attaches pictures to products.  A generator reads a queue of jobs, *)
(* leaves out what is there already, makes the rest one by one, puts each  *)
(* picture under its name and then says so in an append-only log.  They    *)
(* differ in their lock, in what they pin and compare, in whether they     *)
(* link (never replacing) or rename, and in what a failure does.           *)
(*                                                                         *)
(* Two of them may work in one directory, generators die (leaving half a   *)
(* line or half a file, or the child that draws), and people edit the      *)
(* queue and the reference pictures and put them back.  A picture is the   *)
(* number of the rendering of its job; a queue is a version number, and    *)
(* names reference pictures of that version.                               *)
(***************************************************************************)
EXTENDS Naturals, FiniteSets

CONSTANTS
    Runners,    \* two processes
    Jobs,       \* what the queue asks for
    Absent,
    MaxFailures,  \* bound: deaths and failing renderings
    MaxEdits,   \* bound: changes of the queue or of the references
    MaxDrawn    \* bound: renderings of a job by --overwrite

ASSUME GenerationBounds == {MaxFailures, MaxEdits, MaxDrawn} \subseteq Nat

VARIABLES
    kind,      \* kind[p]: which generator p is
    part,      \* part[p]: the rows p selects
    input,     \* the version of the queue on disk
    refs,      \* the version of the reference pictures on disk
    pinned,    \* what the run directory's descriptor pins, or Absent
    whole,     \* the files written once that are there, and whole
    half,      \* those that are there, and not written to their end
    media,     \* media[j]: the picture under its name, or 0
    recorded,  \* recorded[j]: its last readable success record, or Absent
    times,     \* times[j]: how many readable success records it has
    torn,      \* the log ends in half a line
    drawn,     \* drawn[j]: renderings of j
    verdict,   \* verdict[v][j]: the audit of j's reference of version v
    told,      \* what status.json says
    holder,    \* holder[l]: who holds lock l, or Absent
    proc,      \* proc[p]: [at, request, todo, job, failed, last, orphan]
    sync,      \* the synchronisation: [at, batch]
    attached,  \* attached[j]: the picture the shop shows, or 0
    listed,    \* imported_files
    failures,
    edits

generationVars ==
    <<kind, part, input, refs, pinned, whole, half, media, recorded, times,
      torn, drawn, verdict, told, holder, proc, sync, attached, listed,
      failures, edits>>

inputs == <<input, refs, edits>>
shop == <<sync, attached, listed>>
roles == <<kind, part>>
log == <<recorded, times, torn>>
once == <<whole, half>>
images == <<media, drawn>>

(* lock: the file that excludes others, if any; pins: a descriptor is      *)
(* compared; links: a picture is never replaced, and what is there must    *)
(* match its record; approves: reference pictures must have passed the     *)
(* audit; stops: the first failure ends the run; mends: a record is never  *)
(* appended to half a line.                                                *)
Legacy ==
    [name |-> "images", lock |-> Absent, pins |-> FALSE, links |-> FALSE,
     approves |-> FALSE, stops |-> FALSE, mends |-> FALSE]
Overwriting == [Legacy EXCEPT !.name = "overwrite"]
Descriptions == [Legacy EXCEPT !.name = "texts", !.lock = "output"]
Reference ==
    [name |-> "reference", lock |-> "generation", pins |-> FALSE,
     links |-> TRUE, approves |-> TRUE, stops |-> TRUE, mends |-> FALSE]
Gallery ==
    [Reference EXCEPT !.name = "gallery", !.lock = "gallery", !.pins = TRUE]
Bulk == [Reference EXCEPT !.name = "bulk", !.lock = "pipeline", !.pins = TRUE]
Completion ==
    [Gallery EXCEPT !.name = "completion", !.lock = "bulk",
                    !.approves = FALSE, !.stops = FALSE]
Repair ==
    [Reference EXCEPT !.name = "repair", !.approves = FALSE, !.mends = TRUE]

Kinds == {Legacy, Overwriting, Descriptions, Reference, Gallery, Bulk,
          Completion, Repair}
Locks == {"output", "generation", "gallery", "pipeline", "bulk"}
Versions == {1, 2}

Records == [image : Nat, request : Versions]
Audited == [Versions -> [Jobs -> {"none", "pass", "fail"}]]
Descriptors == [request : Versions, audit : {Absent} \cup Audited]

ASSUME AbsentIsNothing ==
    /\ Absent \notin Runners \cup Locks
    /\ Absent \notin Records /\ Absent \notin Descriptors

(* Who may meet in a directory: two of a kind; or the gallery batch, or    *)
(* the bulk workflow, and the generator they run themselves.               *)
Teams ==
    {team \in [Runners -> Kinds] :
        LET met == {team[p] : p \in Runners} IN
        Cardinality(met) = 1 \/ met \in {{Gallery, Reference}, {Bulk, Reference}}}

Draws(p) == kind[p] # Descriptions
Ranges(k) == k \in {Legacy, Overwriting}

Resting ==
    [at |-> "idle", request |-> 0, todo |-> {}, job |-> Absent,
     failed |-> FALSE, last |-> FALSE, orphan |-> FALSE]

(* --start-index and --limit divide a queue between generators that have   *)
(* no lock.                                                                *)
GenerationInit ==
    /\ kind \in Teams
    /\ part \in {s \in [Runners -> SUBSET Jobs] :
                    \A p, q \in Runners :
                        IF Ranges(kind[p]) THEN p # q => s[p] \cap s[q] = {}
                                           ELSE s[p] = Jobs}
    /\ UNION {part[p] : p \in Runners} = Jobs
    /\ input = 1 /\ refs = 1 /\ edits = 0
    /\ pinned = Absent /\ whole = {} /\ half = {}
    /\ media = [j \in Jobs |-> 0] /\ drawn = [j \in Jobs |-> 0]
    /\ recorded = [j \in Jobs |-> Absent] /\ times = [j \in Jobs |-> 0]
    /\ torn = FALSE
    /\ verdict = [v \in Versions |-> [j \in Jobs |-> "none"]]
    /\ told = "none"
    /\ holder = [l \in Locks |-> Absent]
    /\ proc = [p \in Runners |-> Resting]
    /\ sync = [at |-> "idle", batch |-> {}]
    /\ attached = [j \in Jobs |-> 0] /\ listed = {}
    /\ failures = 0

At(p, place) == proc[p].at = place
GoesTo(p, place) == proc' = [proc EXCEPT ![p].at = place]
Request(p) == proc[p].request

\* Mutant: the lock is a file that the next run finds.
KeepsLock(p) == proc' = [proc EXCEPT ![p] = Resting] /\ UNCHANGED holder

(* The end of a process gives up every lock it has.                        *)
Ends(p) ==
    /\ proc' = [proc EXCEPT ![p] = Resting]
    /\ holder' = [l \in Locks |-> IF holder[l] = p THEN Absent ELSE holder[l]]

Tells(p, word) ==
    told' = IF kind[p].pins /\ ~proc[p].orphan THEN word ELSE told

(* A step that gives up says so in status.json, where there is one.        *)
GivesUp(p) == Ends(p) /\ Tells(p, "failed")

----------------------------------------------------------------------------
(* Starting: the lock is asked for once; the queue is read.                *)

Start(p) ==
    /\ At(p, "idle")
    /\ kind[p].lock # Absent => holder[kind[p].lock] = Absent
    /\ kind[p] = Overwriting => \A j \in part[p] : drawn[j] < MaxDrawn
    /\ holder' = IF kind[p].lock = Absent THEN holder
                 ELSE [holder EXCEPT ![kind[p].lock] = p]
    /\ proc' = [proc EXCEPT ![p] = [Resting EXCEPT !.at = "pin",
                                                   !.request = input]]
    /\ UNCHANGED <<roles, inputs, pinned, once, images, log, verdict, told,
                   shop, failures>>

(* The gallery batch pins the audit file too, and asks for the approval of *)
(* every reference before it pins anything.                                *)
Descriptor(p) ==
    [request |-> Request(p),
     audit |-> IF kind[p] = Gallery THEN verdict ELSE Absent]

Approved(v, jobs) == \A j \in jobs : verdict[v][j] = "pass"

(* The gallery batch replaces its descriptor whole.  The bulk workflow and *)
(* the completion write two files once and in place: what pins the inputs, *)
(* then the queue (the completion: the reused pictures).  Half a file is   *)
(* found changed.                                                          *)
Config == [name |-> "config", jobs |-> {}]
Queue == [name |-> "queue", jobs |-> {}]

Missing(p) ==
    IF kind[p] \in {Bulk, Completion} THEN {Config, Queue} \ whole ELSE {}
NextFile == IF Config \in whole THEN Queue ELSE Config

MayPin(p) ==
    /\ kind[p] = Gallery => Approved(Request(p), Jobs)
    /\ kind[p].pins => /\ pinned \in {Absent, Descriptor(p)}
                       /\ half \cap {Config, Queue} = {}

OpensFile(file) == half' = half \cup {file} /\ UNCHANGED whole
WritesFile(file) == half' = half \ {file} /\ whole' = whole \cup {file}

OpenInput(p) ==
    /\ At(p, "pin") /\ MayPin(p) /\ Missing(p) # {}
    /\ OpensFile(NextFile)
    /\ GoesTo(p, "pinning")
    /\ UNCHANGED <<roles, inputs, pinned, images, log, verdict, told, holder,
                   shop, failures>>

WriteInput(p) ==
    /\ At(p, "pinning")
    /\ WritesFile(NextFile)
    /\ pinned' = IF pinned = Absent THEN Descriptor(p) ELSE pinned
    /\ GoesTo(p, "pin")
    /\ UNCHANGED <<roles, inputs, images, log, verdict, told, holder, shop,
                   failures>>

Pin(p) ==
    /\ At(p, "pin") /\ MayPin(p) /\ Missing(p) = {}
    /\ pinned' = IF kind[p].pins THEN Descriptor(p) ELSE pinned
    /\ GoesTo(p, "scan")
    /\ UNCHANGED <<roles, inputs, once, images, log, verdict, told, holder,
                   shop, failures>>

(* What a scan wants, what it finds done, and what it refuses: a changed   *)
(* reference, or a picture that no record of this request is about.        *)
Wanted(p) ==
    IF kind[p] = Bulk THEN {j \in Jobs : verdict[Request(p)][j] = "pass"}
    ELSE part[p]

Ready(p) ==
    CASE kind[p] = Overwriting -> {}
      [] kind[p] = Descriptions -> {j \in Jobs : recorded[j] # Absent}
      [] OTHER -> {j \in Jobs : media[j] # 0}

\* Mutant: what is there is taken for what is asked for.
TakesAnyPicture(p) == kind[p].approves => refs = Request(p)

Fits(p) ==
    /\ kind[p].approves /\ Wanted(p) # {} => refs = Request(p)
    /\ kind[p].links =>
          \A j \in Wanted(p) \cap Ready(p) :
             recorded[j] = [image |-> media[j], request |-> Request(p)]

Pending(p) ==
    LET open == Wanted(p) \ Ready(p) IN
    IF kind[p] \in {Gallery, Reference} /\ ~Approved(Request(p), open)
    THEN {} ELSE open

(* The bulk workflow writes the jobs that may be made to a file named for  *)
(* them, once, for the child that will draw them.                          *)
Delegates(p) == kind[p] = Bulk /\ Pending(p) # {}
List(p) == [name |-> "eligible", jobs |-> Wanted(p)]
MayScan(p) == Fits(p) /\ (Delegates(p) => List(p) \notin half)

Scan(p) ==
    /\ At(p, "scan") /\ MayScan(p)
    /\ IF ~Delegates(p)
       THEN /\ proc' = [proc EXCEPT ![p].at = "take", ![p].todo = Pending(p)]
            /\ UNCHANGED once
       ELSE IF List(p) \in whole THEN GoesTo(p, "child") /\ UNCHANGED once
       ELSE GoesTo(p, "listing") /\ OpensFile(List(p))
    /\ UNCHANGED <<roles, inputs, pinned, images, log, verdict, told, holder,
                   shop, failures>>

WriteList(p) ==
    /\ At(p, "listing")
    /\ WritesFile(List(p))
    /\ GoesTo(p, "child")
    /\ UNCHANGED <<roles, inputs, pinned, images, log, verdict, told, holder,
                   shop, failures>>

(* It draws in a child process, which takes the lock of the picture        *)
(* directory and scans again.                                              *)
Spawn(p) ==
    /\ At(p, "child")
    /\ holder["generation"] = Absent /\ Fits(p)
    /\ holder' = [holder EXCEPT !["generation"] = p]
    /\ proc' = [proc EXCEPT ![p].at = "take", ![p].todo = Pending(p)]
    /\ UNCHANGED <<roles, inputs, pinned, once, images, log, verdict, told,
                   shop, failures>>

Refuse(p) ==
    /\ \/ At(p, "pin") /\ ~MayPin(p)
       \/ At(p, "scan") /\ ~MayScan(p)
       \/ At(p, "child") /\ ~(holder["generation"] = Absent /\ Fits(p))
    /\ GivesUp(p)
    /\ UNCHANGED <<roles, inputs, pinned, once, images, log, verdict, shop,
                   failures>>

----------------------------------------------------------------------------
(* One job.  References are hashed once more before the model is called.   *)

Take(p) ==
    /\ At(p, "take")
    /\ \E j \in proc[p].todo :
          /\ kind[p].approves => refs = Request(p)
          /\ proc' = [proc EXCEPT ![p].at = IF Draws(p) THEN "draw" ELSE "record",
                                  ![p].todo = @ \ {j}, ![p].job = j]
          /\ drawn' = IF Draws(p) THEN drawn ELSE [drawn EXCEPT ![j] = @ + 1]
    /\ UNCHANGED <<roles, inputs, pinned, once, media, log, verdict, told,
                   holder, shop, failures>>

\* Mutant: the picture is renamed to its place, whatever is there.
Renames(p) ==
    LET j == proc[p].job IN
    /\ At(p, "draw")
    /\ drawn' = [drawn EXCEPT ![j] = @ + 1]
    /\ media' = [media EXCEPT ![j] = drawn[j] + 1]
    /\ GoesTo(p, "record")
    /\ UNCHANGED <<roles, inputs, pinned, once, log, verdict, told, holder,
                   shop, failures>>

(* The picture is drawn beside its place and put there whole.              *)
SaveImage(p) ==
    LET j == proc[p].job IN
    /\ At(p, "draw")
    /\ kind[p].links => media[j] = 0
    /\ drawn' = [drawn EXCEPT ![j] = @ + 1]
    /\ media' = [media EXCEPT ![j] = drawn[j] + 1]
    /\ GoesTo(p, "record")
    /\ UNCHANGED <<roles, inputs, pinned, once, log, verdict, told, holder,
                   shop, failures>>

(* A record appended to half a line cannot be read, like that half.        *)
Record(p) ==
    LET j == proc[p].job
        lost == torn /\ ~kind[p].mends
    IN  /\ At(p, "record")
        /\ torn' = FALSE
        /\ IF lost THEN UNCHANGED <<recorded, times>>
           ELSE /\ recorded' = [recorded EXCEPT ![j] =
                      [image |-> IF Draws(p) THEN media[j] ELSE drawn[j],
                       request |-> Request(p)]]
                /\ times' = [times EXCEPT ![j] = @ + 1]
        /\ GoesTo(p, "take")
        /\ UNCHANGED <<roles, inputs, pinned, once, images, verdict, told,
                       holder, shop, failures>>

(* A failing rendering, a picture that another put there meanwhile, and a  *)
(* changed reference are logged as failures; the run stops or goes on.     *)
LogsFailure(p) == torn' = (torn /\ kind[p].mends)

FailJob(p) ==
    /\ \/ /\ At(p, "draw")
          /\ IF kind[p].links /\ media[proc[p].job] # 0 THEN UNCHANGED failures
             ELSE failures < MaxFailures /\ failures' = failures + 1
       \/ /\ At(p, "record")
          /\ ~Draws(p) \/ (kind[p].links /\ ~kind[p].mends)
          /\ failures < MaxFailures /\ failures' = failures + 1
       \/ /\ At(p, "take") /\ proc[p].todo # {}
          /\ kind[p].approves /\ refs # Request(p)
          /\ UNCHANGED failures
    /\ LogsFailure(p)
    /\ IF kind[p].stops THEN GivesUp(p)
       ELSE /\ proc' = [proc EXCEPT ![p].at = "take", ![p].failed = TRUE]
            /\ UNCHANGED <<holder, told>>
    /\ UNCHANGED <<roles, inputs, pinned, once, images, recorded, times,
                   verdict, shop>>

Outcome(p) == IF proc[p].failed THEN "failed" ELSE "complete"

(* The bulk workflow goes on to the next audit; anything else is finished. *)
Finish(p) ==
    /\ At(p, "take") /\ proc[p].todo = {}
    /\ IF kind[p] = Bulk /\ ~proc[p].last /\ ~proc[p].orphan
       THEN /\ GoesTo(p, "audit")
            /\ holder' = [l \in Locks |-> IF l = "generation" /\ holder[l] = p
                                          THEN Absent ELSE holder[l]]
            /\ UNCHANGED told
       ELSE Ends(p) /\ Tells(p, Outcome(p))
    /\ UNCHANGED <<roles, inputs, pinned, once, images, log, verdict, shop,
                   failures>>

----------------------------------------------------------------------------
(* The audit of reference pictures: each once per version, and only what   *)
(* the queue names.  It is a step of the bulk workflow, and a program.     *)

Open(v) == {j \in Jobs : verdict[v][j] = "none"}

Audits(v) ==
    \E j \in Open(v), word \in {"pass", "fail"} :
        verdict' = [verdict EXCEPT ![v][j] = word]

AuditRound(p) ==
    /\ At(p, "audit")
    /\ IF Open(Request(p)) = {}
       THEN /\ proc' = [proc EXCEPT ![p].at = "scan", ![p].last = TRUE]
            /\ UNCHANGED <<verdict, holder, told>>
       ELSE IF refs = Request(p)
       THEN Audits(Request(p)) /\ GoesTo(p, "scan") /\ UNCHANGED <<holder, told>>
       ELSE GivesUp(p) /\ UNCHANGED verdict
    /\ UNCHANGED <<roles, inputs, pinned, once, images, log, shop, failures>>

AuditAlone ==
    /\ \A p \in Runners : kind[p] # Bulk /\ kind[p].approves
    /\ refs = input
    /\ Audits(input)
    /\ UNCHANGED <<roles, inputs, pinned, once, images, log, told, holder,
                   proc, shop, failures>>

----------------------------------------------------------------------------
(* Deaths, and people.  What a dying process was writing stays half        *)
(* written.                                                                *)

Die(p) ==
    /\ ~At(p, "idle")
    /\ failures < MaxFailures /\ failures' = failures + 1
    /\ \E cut \in BOOLEAN : torn' = (torn \/ (cut /\ At(p, "record")))
    /\ Ends(p)
    /\ UNCHANGED <<roles, inputs, pinned, once, images, recorded, times,
                   verdict, told, shop>>

(* The bulk workflow dies and the child that draws for it goes on.         *)
Orphan(p) ==
    /\ kind[p] = Bulk /\ ~proc[p].orphan
    /\ holder["generation"] = p
    /\ failures < MaxFailures /\ failures' = failures + 1
    /\ proc' = [proc EXCEPT ![p].orphan = TRUE]
    /\ holder' = [holder EXCEPT !["pipeline"] = Absent]
    /\ UNCHANGED <<roles, inputs, pinned, once, images, log, verdict, told,
                   shop>>

Edit ==
    /\ edits < MaxEdits /\ edits' = edits + 1
    /\ \A p \in Runners : kind[p].links
    /\ \/ input' = 3 - input /\ UNCHANGED refs
       \/ refs' = 3 - refs /\ UNCHANGED input
    /\ UNCHANGED <<roles, pinned, once, images, log, verdict, told, holder,
                   proc, shop, failures>>

----------------------------------------------------------------------------
(* The synchronisation: what is there and not listed yet is imported in    *)
(* one batch, and listed once the import has succeeded.                    *)

Makes == UNCHANGED <<roles, inputs, pinned, once, images, log, verdict, told,
                     holder, proc>>

SyncPick ==
    LET new == {j \in Jobs : media[j] # 0} \ listed IN
    /\ \A p \in Runners : Ranges(kind[p])
    /\ sync.at = "idle" /\ new # {}
    /\ sync' = [at |-> "import", batch |-> new]
    /\ Makes /\ UNCHANGED <<attached, listed, failures>>

Shows(jobs) ==
    attached' = [j \in Jobs |-> IF j \in jobs THEN media[j] ELSE attached[j]]

SyncImport ==
    /\ sync.at = "import"
    /\ Shows(sync.batch)
    /\ sync' = [sync EXCEPT !.at = "save"]
    /\ Makes /\ UNCHANGED <<listed, failures>>

SyncSave ==
    /\ sync.at = "save"
    /\ listed' = listed \cup sync.batch
    /\ sync' = [at |-> "idle", batch |-> {}]
    /\ Makes /\ UNCHANGED <<attached, failures>>

\* Mutant: a failed import is listed too.
SyncFailListed ==
    /\ sync.at # "idle"
    /\ failures < MaxFailures /\ failures' = failures + 1
    /\ \E some \in SUBSET sync.batch : Shows(some)
    /\ listed' = listed \cup sync.batch
    /\ sync' = [at |-> "idle", batch |-> {}]
    /\ Makes

(* An import that fails has imported some rows; a death may come before    *)
(* the list is saved.                                                      *)
SyncFail ==
    /\ sync.at # "idle"
    /\ failures < MaxFailures /\ failures' = failures + 1
    /\ IF sync.at = "import" THEN \E some \in SUBSET sync.batch : Shows(some)
       ELSE UNCHANGED attached
    /\ sync' = [at |-> "idle", batch |-> {}]
    /\ Makes /\ UNCHANGED listed

----------------------------------------------------------------------------

Work(p) ==
    \/ OpenInput(p) \/ WriteInput(p) \/ Pin(p) \/ Scan(p) \/ WriteList(p)
    \/ Spawn(p) \/ Refuse(p) \/ Take(p) \/ SaveImage(p) \/ Record(p)
    \/ (FailJob(p) /\ UNCHANGED failures) \/ Finish(p) \/ AuditRound(p)

Synchronises == SyncPick \/ SyncImport \/ SyncSave

GenerationNext ==
    \/ \E p \in Runners : Start(p) \/ Work(p) \/ FailJob(p) \/ Die(p) \/ Orphan(p)
    \/ Synchronises \/ SyncFail
    \/ AuditAlone \/ Edit

(* Whoever wants the pictures starts the programs again.                   *)
GenerationSpec == GenerationInit /\ [][GenerationNext]_generationVars
FairGenerationSpec ==
    /\ GenerationSpec
    /\ \A p \in Runners :
          WF_generationVars(Work(p)) /\ WF_generationVars(Start(p))
    /\ WF_generationVars(Synchronises) /\ WF_generationVars(AuditAlone)

----------------------------------------------------------------------------
(* Properties.                                                             *)

Links == \A p \in Runners : kind[p].links
Alike == \A p, q \in Runners : kind[p] = kind[q]

(* However generators race, fail and die in one directory: no job is       *)
(* recorded as made twice, and where pictures are linked the record is     *)
(* about the picture that is there, whose reference had passed the audit   *)
(* (os.link() and pending_jobs() of generate_reference_images.py).         *)
RecordsTellOfPictures ==
    \A j \in Jobs :
        /\ (\A p \in Runners : kind[p] # Overwriting) => times[j] <= 1
        /\ Links /\ recorded[j] # Absent =>
              /\ recorded[j].image = media[j]
              /\ (\A p \in Runners : kind[p].approves) =>
                    verdict[recorded[j].request][j] = "pass"

(* Generators of one kind never mix the answers to two queues in one       *)
(* directory, whether they pin the queue or only compare what is there,    *)
(* also when the queue is edited between and during runs                   *)
(* (pending_jobs(), write_once()).                                         *)
OneRequest ==
    Links /\ Alike =>
        \A i, j \in Jobs :
            recorded[i] # Absent /\ recorded[j] # Absent =>
                recorded[i].request = recorded[j].request

(* Whatever import_files lists is shown by the shop, in its present form   *)
(* where pictures are not overwritten (main() of sync_generated_media.py). *)
ListedIsShown ==
    \A j \in listed :
        /\ attached[j] # 0
        /\ (\E p \in Runners : kind[p] = Legacy) => attached[j] = media[j]

(* Repeated runs of one kind make, record and attach everything that may   *)
(* be made, after deaths and failures anywhere but in two windows: between *)
(* a picture and its record (Untracked: pending_jobs() refuses it), and    *)
(* between opening and writing a file that is written once (Spoiled:       *)
(* write_once() of bulk_reference_images.py, run.json and the reused       *)
(* pictures of run_bulk_completion_images.py).  What either leaves, a      *)
(* person has to remove.  The inputs come to stay what the directory was   *)
(* made from.                                                              *)
Untracked ==
    \E j \in Jobs :
        /\ Links /\ media[j] # 0
        /\ recorded[j] = Absent
        /\ \A p \in Runners : ~(At(p, "record") /\ proc[p].job = j)

Spoiled ==
    half # {} /\ \A p \in Runners : ~At(p, "pinning") /\ ~At(p, "listing")

SameInputs ==
    /\ (\E p \in Runners : kind[p].approves) => refs = input
    /\ \A j \in Jobs : recorded[j] # Absent => recorded[j].request = input
    /\ pinned = Absent \/ (/\ pinned.request = input
                         /\ pinned.audit \in {Absent, verdict})

Withheld(j) ==
    /\ \E p \in Runners : kind[p].approves
    /\ IF \E p \in Runners : kind[p] = Bulk THEN verdict[input][j] = "fail"
       ELSE \E k \in Jobs : verdict[input][k] = "fail"

Settled(j) ==
    \/ Withheld(j)
    \/ /\ recorded[j] # Absent \/ (~Links /\ media[j] # 0)
       /\ (\A p \in Runners : Ranges(kind[p])) => j \in listed

CompletesUnlessUntracked ==
    Alike /\ []~Untracked /\ []~Spoiled /\ <>[]SameInputs =>
        <>(\A j \in Jobs : Settled(j))
=============================================================================
