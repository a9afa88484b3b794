------------------------------ MODULE PilotRun ------------------------------
(***************************************************************************)
(* An image pilot: a small approved selection of cases, each rendered once *)
(* at most into one run directory.  Six scripts do this, with the same     *)
(* files and the same order of writes: run.json and execution-cases.jsonl  *)
(* say what is run, events.jsonl who was attempted, and each picture has   *)
(* its metadata beside it.  All are published without overwriting.  A run  *)
(* that stops may be started again, and goes on only where every attempt   *)
(* so far was completed.  A review binds what a person saw to the files.   *)
(*                                                                         *)
(* People may start two runners at once, also with different selections    *)
(* for one directory, edit an input and put it back, and throw a directory *)
(* away.  A picture is the number of the rendering that made it.           *)
(***************************************************************************)
EXTENDS Naturals, FiniteSets

CONSTANTS
    Runners,    \* processes
    Cases,      \* what is selected
    None,
    MaxFaults,  \* bound: deaths and failing renderings
    MaxEdits    \* bound: changes of an input, discarded directories

ASSUME PilotBounds == MaxFaults \in Nat /\ MaxEdits \in Nat
ASSUME NoneIsNothingElse == None \notin Runners \cup Nat

VARIABLES
    pilot,     \* which script this is
    plan,      \* plan[p]: the selection p was started with
    dir,       \* the run directory
    proc,      \* proc[p]: [at, todo, case]
    holder,    \* who holds .pilot.lock, or None
    intact,    \* the pinned inputs are as approved
    rendered,  \* the model was called so often
    tries,     \* tries[c]: calls for case c since the directory was made
    notes,     \* notes[c]: the picture of c that a person looked at, or 0
    review,    \* the published review, or None
    faults,
    edits

vars == <<pilot, plan, dir, proc, holder, intact, rendered, tries, notes,
          review, faults, edits>>

(* How the scripts differ: whether a directory with nothing but the lock   *)
(* in it may be started again, what is compared again once the lock is     *)
(* held, and whether foreign files are looked for then.                    *)
MediaPilot ==
    [bare |-> FALSE, compares |-> {"run"}, looks |-> FALSE]
ComponentPilot ==
    [bare |-> FALSE, compares |-> {"run", "cases"}, looks |-> FALSE]
FramingPilot ==
    [bare |-> FALSE, compares |-> {"run", "cases"}, looks |-> TRUE]
RefinementPilot ==
    [bare |-> FALSE, compares |-> {"run", "cases"}, looks |-> TRUE]
CompletionPilot ==
    [bare |-> FALSE, compares |-> {"run", "cases"}, looks |-> TRUE]
RepairPilot ==
    [bare |-> TRUE, compares |-> {}, looks |-> TRUE]

Pilots == {MediaPilot, ComponentPilot, FramingPilot, RefinementPilot,
           CompletionPilot, RepairPilot}

Selections == {1, 2}
All == Selections \X Cases
CasesOf(p) == {plan[p]} \X Cases

(* events[c]: the last event of c; lock: .pilot.lock is there; litter: a   *)
(* temporary file that a death left behind.                                *)
NoDirectory ==
    [lock |-> FALSE, run |-> None, cases |-> None, litter |-> FALSE,
     events |-> [c \in All |-> "none"],
     image |-> [c \in All |-> 0], meta |-> [c \in All |-> 0]]

Resting == [at |-> "idle", todo |-> {}, case |-> None]

Init ==
    /\ pilot \in Pilots
    /\ plan \in [Runners -> Selections]
    /\ dir = NoDirectory
    /\ proc = [p \in Runners |-> Resting]
    /\ holder = None
    /\ intact = TRUE
    /\ rendered = 0
    /\ tries = [c \in All |-> 0]
    /\ notes = [c \in All |-> 0]
    /\ review = None
    /\ faults = 0
    /\ edits = 0

At(p, place) == proc[p].at = place
Goes(p, place) == proc' = [proc EXCEPT ![p].at = place]
Stops(p) ==
    /\ proc' = [proc EXCEPT ![p] = Resting]
    /\ holder' = IF holder = p THEN None ELSE holder

----------------------------------------------------------------------------
(* What a directory allows.                                                *)

(* Only this selection's files, and nothing left over.                     *)
OnlyItsFiles(p) ==
    /\ ~dir.litter
    /\ \A c \in All \ CasesOf(p) : dir.image[c] = 0 /\ dir.meta[c] = 0

(* Every attempt so far was of this selection and was completed, and what  *)
(* was not attempted has left no file.                                     *)
MayGoOn(p) ==
    /\ \A c \in All \ CasesOf(p) : dir.events[c] = "none"
    /\ \A c \in CasesOf(p) :
          IF dir.events[c] = "none"
          THEN dir.image[c] = 0 /\ dir.meta[c] = 0
          ELSE /\ dir.events[c] = "generated"
               /\ dir.meta[c] = dir.image[c]

Pending(p) == {c \in CasesOf(p) : dir.events[c] = "none"}

(* The preflight, which holds no lock.                                     *)
Fits(p) ==
    LET same == dir.run = plan[p] /\ dir.cases = plan[p] IN
    IF dir = NoDirectory THEN TRUE
    ELSE /\ OnlyItsFiles(p)
         /\ same \/ (pilot.bare /\ dir.run = None)

Preflight(p) ==
    /\ At(p, "idle")
    /\ intact
    /\ Fits(p)
    /\ MayGoOn(p)
    /\ Pending(p) # {}
    /\ Goes(p, "ready")
    /\ UNCHANGED <<pilot, plan, dir, holder, intact, rendered, tries, notes,
                   review, faults, edits>>

(* The directory is made with its lock file, and the lock is asked for     *)
(* once, without waiting.                                                  *)
Lock(p) ==
    /\ At(p, "ready")
    /\ dir' = [dir EXCEPT !.lock = TRUE]
    /\ IF holder = None
       THEN /\ holder' = p
            /\ Goes(p, "locked")
       ELSE Stops(p)
    /\ UNCHANGED <<pilot, plan, intact, rendered, tries, notes, review,
                   faults, edits>>

(* run.json first, then the cases, by whoever finds no run.json.           *)
PublishRun(p) ==
    /\ At(p, "locked")
    /\ pilot.looks => OnlyItsFiles(p)
    /\ IF dir.run = None
       THEN dir' = [dir EXCEPT !.run = plan[p]] /\ Goes(p, "cases")
       ELSE dir' = dir /\ Goes(p, "compare")
    /\ UNCHANGED <<pilot, plan, holder, intact, rendered, tries, notes,
                   review, faults, edits>>

PublishCases(p) ==
    /\ At(p, "cases")
    /\ dir' = [dir EXCEPT !.cases = plan[p]]
    /\ Goes(p, "compare")
    /\ UNCHANGED <<pilot, plan, holder, intact, rendered, tries, notes,
                   review, faults, edits>>

\* Mutant: the preflight's word is taken for what the directory is.
TrustsPreflight(p) == dir.cases # None

(* What the other runner may have published since the preflight.           *)
SameRun(p) ==
    /\ dir.cases # None
    /\ "run" \in pilot.compares => dir.run = plan[p]
    /\ "cases" \in pilot.compares => dir.cases = plan[p]

Compare(p) ==
    /\ At(p, "compare")
    /\ SameRun(p)
    /\ MayGoOn(p)
    /\ proc' = [proc EXCEPT ![p] = [@ EXCEPT !.at = "work", !.todo = Pending(p)]]
    /\ UNCHANGED <<pilot, plan, dir, holder, intact, rendered, tries, notes,
                   review, faults, edits>>

Refuse(p) ==
    /\ \/ At(p, "locked") /\ pilot.looks /\ ~OnlyItsFiles(p)
       \/ At(p, "compare") /\ ~(SameRun(p) /\ MayGoOn(p))
       \/ At(p, "work") /\ ~intact
    /\ Stops(p)
    /\ UNCHANGED <<pilot, plan, dir, intact, rendered, tries, notes, review,
                   faults, edits>>

----------------------------------------------------------------------------
(* One case: the attempt is on record before the model is called.          *)

\* Mutant: the attempt is put on record with its result only.
StartSilently(p) ==
    /\ At(p, "work") /\ intact
    /\ \E c \in proc[p].todo :
          /\ dir.image[c] = 0 /\ dir.meta[c] = 0
          /\ proc' = [proc EXCEPT ![p] =
                         [at |-> "render", todo |-> @.todo \ {c}, case |-> c]]
    /\ UNCHANGED <<pilot, plan, dir, holder, intact, rendered, tries, notes,
                   review, faults, edits>>

(* The pins are checked before every case.                                 *)
StartCase(p) ==
    /\ At(p, "work") /\ intact
    /\ \E c \in proc[p].todo :
          /\ dir.image[c] = 0 /\ dir.meta[c] = 0
          /\ dir' = [dir EXCEPT !.events[c] = "attempt_started"]
          /\ proc' = [proc EXCEPT ![p] =
                         [at |-> "render", todo |-> @.todo \ {c}, case |-> c]]
    /\ UNCHANGED <<pilot, plan, holder, intact, rendered, tries, notes,
                   review, faults, edits>>

(* The model is called and its picture linked under the case's name.       *)
Render(p) ==
    LET c == proc[p].case IN
    /\ At(p, "render")
    /\ rendered' = rendered + 1
    /\ tries' = [tries EXCEPT ![c] = @ + 1]
    /\ dir' = [dir EXCEPT !.image[c] = rendered + 1]
    /\ Goes(p, "describe")
    /\ UNCHANGED <<pilot, plan, holder, intact, notes, review, faults, edits>>

Describe(p) ==
    /\ At(p, "describe")
    /\ dir' = [dir EXCEPT !.meta[proc[p].case] = dir.image[proc[p].case]]
    /\ Goes(p, "log")
    /\ UNCHANGED <<pilot, plan, holder, intact, rendered, tries, notes,
                   review, faults, edits>>

Log(p) ==
    /\ At(p, "log")
    /\ dir' = [dir EXCEPT !.events[proc[p].case] = "generated"]
    /\ Goes(p, "work")
    /\ UNCHANGED <<pilot, plan, holder, intact, rendered, tries, notes,
                   review, faults, edits>>

(* An exception is put on record and ends the run: nothing is retried.     *)
FailCase(p) ==
    /\ proc[p].at \in {"render", "describe", "log"}
    /\ faults < MaxFaults
    /\ faults' = faults + 1
    /\ dir' = [dir EXCEPT !.events[proc[p].case] = "failed"]
    /\ \/ UNCHANGED <<rendered, tries>>
       \/ /\ At(p, "render")
          /\ rendered' = rendered + 1
          /\ tries' = [tries EXCEPT ![proc[p].case] = @ + 1]
    /\ Stops(p)
    /\ UNCHANGED <<pilot, plan, intact, notes, review, edits>>

Finish(p) ==
    /\ At(p, "work")
    /\ proc[p].todo = {}
    /\ Stops(p)
    /\ UNCHANGED <<pilot, plan, dir, intact, rendered, tries, notes, review,
                   faults, edits>>

(* A death between any two lines.  One during the rendering has called the *)
(* model, and may leave its temporary file.                                *)
Die(p) ==
    /\ ~At(p, "idle")
    /\ faults < MaxFaults
    /\ faults' = faults + 1
    /\ IF At(p, "render")
       THEN /\ rendered' = rendered + 1
            /\ tries' = [tries EXCEPT ![proc[p].case] = @ + 1]
            /\ \E left \in BOOLEAN : dir' = [dir EXCEPT !.litter = left]
       ELSE UNCHANGED <<rendered, tries, dir>>
    /\ Stops(p)
    /\ UNCHANGED <<pilot, plan, intact, notes, review, edits>>

----------------------------------------------------------------------------
(* People: they look at pictures, have the run reviewed, edit inputs, and  *)
(* throw away a directory that nobody works in.                            *)

Inspect(c) ==
    /\ dir.image[c] # 0
    /\ notes[c] # dir.image[c]
    /\ notes' = [notes EXCEPT ![c] = dir.image[c]]
    /\ UNCHANGED <<pilot, plan, dir, proc, holder, intact, rendered, tries,
                   review, faults, edits>>

\* Mutant: observations are taken by the name of their case.
AnyNote(c) == notes[c] # 0

(* An observation names the hash of the picture it is about.               *)
NoteIsOf(c) == notes[c] = dir.image[c] /\ notes[c] # 0

(* The review of a completed run, of the selection it was started with.    *)
Review(s) ==
    LET cases == {s} \X Cases IN
    /\ review = None
    /\ intact
    /\ dir.run = s /\ dir.cases = s /\ ~dir.litter
    /\ \A c \in All : dir.events[c] = IF c \in cases THEN "generated"
                                                     ELSE "none"
    /\ \A c \in cases : dir.meta[c] = dir.image[c] /\ NoteIsOf(c)
    /\ review' = [selection |-> s, image |-> dir.image, seen |-> notes]
    /\ UNCHANGED <<pilot, plan, dir, proc, holder, intact, rendered, tries,
                   notes, faults, edits>>

EditInput ==
    /\ edits < MaxEdits
    /\ edits' = edits + 1
    /\ intact' = ~intact
    /\ UNCHANGED <<pilot, plan, dir, proc, holder, rendered, tries, notes,
                   review, faults>>

Discard ==
    /\ edits < MaxEdits
    /\ edits' = edits + 1
    /\ dir # NoDirectory
    /\ \A p \in Runners : At(p, "idle")
    /\ dir' = NoDirectory
    /\ tries' = [c \in All |-> 0]
    /\ UNCHANGED <<pilot, plan, proc, holder, intact, rendered, notes,
                   review, faults>>

Runner(p) ==
    \/ Preflight(p) \/ Lock(p) \/ PublishRun(p) \/ PublishCases(p)
    \/ Compare(p) \/ Refuse(p)
    \/ StartCase(p) \/ Render(p) \/ Describe(p) \/ Log(p) \/ FailCase(p)
    \/ Finish(p) \/ Die(p)

People ==
    \/ \E c \in All : Inspect(c)
    \/ \E s \in Selections : Review(s)
    \/ EditInput \/ Discard

Next == (\E p \in Runners : Runner(p)) \/ People

Spec == Init /\ [][Next]_vars

----------------------------------------------------------------------------
(* Properties.                                                             *)

Places == {"idle", "ready", "locked", "cases", "compare", "work", "render",
           "describe", "log"}
Processes == [at : Places, todo : SUBSET All, case : All \cup {None}]
Events == {"none", "attempt_started", "generated", "failed"}
Directories ==
    [lock : BOOLEAN, run : Selections \cup {None},
     cases : Selections \cup {None}, litter : BOOLEAN,
     events : [All -> Events], image : [All -> Nat], meta : [All -> Nat]]
Reviews == [selection : Selections, image : [All -> Nat], seen : [All -> Nat]]

(* Types.                                                                  *)
TypeOK ==
    /\ pilot \in Pilots
    /\ plan \in [Runners -> Selections]
    /\ dir \in Directories
    /\ proc \in [Runners -> Processes]
    /\ holder \in Runners \cup {None}
    /\ intact \in BOOLEAN
    /\ rendered \in Nat
    /\ tries \in [All -> Nat]
    /\ notes \in [All -> Nat]
    /\ review \in Reviews \cup {None}
    /\ faults \in Nat /\ edits \in Nat

(* However often runners are started, race or die: no case is rendered     *)
(* twice in one directory (pending_cases(), generate_cases()).             *)
AttemptedOnce == \A c \in All : tries[c] <= 1

(* Where the descriptor is compared under the lock, everything attempted   *)
(* in a directory is of the one selection its run.json and cases describe, *)
(* also when runners with two selections started on the empty directory    *)
(* (run() of the pilots but component_repair.py).                          *)
RunTellsItsCases ==
    pilot.compares # {} =>
        \A c \in All :
            dir.events[c] # "none" => dir.run = c[1] /\ dir.cases = c[1]

(* A published review says of every case of one selection what was seen on *)
(* the very picture that its one attempt made, and the directory it tells  *)
(* of stays as it was for as long as it is there (bind_observations(),     *)
(* verify_run()).                                                          *)
ReviewStays ==
    review # None =>
        \A c \in {review.selection} \X Cases :
            /\ review.seen[c] = review.image[c]
            /\ review.image[c] \in 1 .. rendered
            /\ dir.image[c] > review.image[c] \/ dir.image[c] = 0
               \/ (dir.image[c] = review.image[c]
                   /\ dir.events[c] = "generated" /\ dir.meta[c] = dir.image[c])

=============================================================================
