--------------------------- MODULE PilotRunProofs ---------------------------
(***************************************************************************)
(* For any number of runners and cases, and any number of deaths, failures *)
(* and edits.                                                              *)
(*                                                                         *)
(* The argument: from the lock to its end a run is alone (Holding), so the *)
(* cases it still has to do stay unattempted and the one in its hands stays *)
(* on record as attempted (InHand); an unattempted case was never rendered *)
(* (Untried).  Cases are published by the runner that published run.json   *)
(* (Descriptor), which the comparison under the lock then makes everyone   *)
(* else's.  A picture is linked where there is none, with a number of its  *)
(* own, so what a review bound is there or the directory is not (Reviewed). *)
(***************************************************************************)
EXTENDS PilotRun, TLAPS

Begun == {"render", "describe", "log"}
Working == {"work"} \cup Begun
Held == {"locked", "cases", "compare"} \cup Working

Holding == \A p \in Runners : proc[p].at \in Held => holder = p

HandOf(p) ==
    /\ At(p, "cases") => dir.run = plan[p]
    /\ proc[p].at \in Working =>
          /\ proc[p].todo \subseteq CasesOf(p)
          /\ \A c \in proc[p].todo : dir.events[c] = "none"
          /\ pilot.compares # {} => dir.run = plan[p] /\ dir.cases = plan[p]
    /\ proc[p].at \in Begun =>
          /\ proc[p].case \in CasesOf(p)
          /\ dir.events[proc[p].case] = "attempt_started"
          /\ proc[p].case \notin proc[p].todo
    /\ At(p, "render") =>
          tries[proc[p].case] = 0 /\ dir.image[proc[p].case] = 0
    /\ At(p, "log") =>
          dir.meta[proc[p].case] = dir.image[proc[p].case]

InHand == \A p \in Runners : HandOf(p)

Untried ==
    \A c \in All :
        /\ tries[c] <= 1
        /\ dir.events[c] = "none" => tries[c] = 0

Descriptor ==
    /\ dir.cases # None => dir.cases = dir.run
    /\ RunTellsItsCases

Reviewed ==
    /\ \A c \in All : dir.image[c] <= rendered /\ notes[c] <= rendered
    /\ ReviewStays

IInv == /\ TypeOK /\ Holding /\ InHand /\ Untried /\ Descriptor /\ Reviewed

-----------------------------------------------------------------------------
(* Records and their updates.                                              *)

\* An event of a case is put on record.
LEMMA EventWritten ==
  ASSUME TypeOK, NEW c \in All, NEW e \in Events,
         dir' = [dir EXCEPT !.events[c] = e]
  PROVE  /\ dir' \in Directories
         /\ dir'.events = [dir.events EXCEPT ![c] = e]
         /\ dir'.run = dir.run /\ dir'.cases = dir.cases
         /\ dir'.image = dir.image /\ dir'.meta = dir.meta
  BY DEF TypeOK, Directories

\* A picture is linked under its case's name.
LEMMA ImageWritten ==
  ASSUME TypeOK, NEW c \in All, NEW i \in Nat,
         dir' = [dir EXCEPT !.image[c] = i]
  PROVE  /\ dir' \in Directories
         /\ dir'.image = [dir.image EXCEPT ![c] = i]
         /\ dir'.run = dir.run /\ dir'.cases = dir.cases
         /\ dir'.events = dir.events /\ dir'.meta = dir.meta
  BY DEF TypeOK, Directories

\* Its metadata is written beside it.
LEMMA MetaWritten ==
  ASSUME TypeOK, NEW c \in All, NEW i \in Nat,
         dir' = [dir EXCEPT !.meta[c] = i]
  PROVE  /\ dir' \in Directories
         /\ dir'.meta = [dir.meta EXCEPT ![c] = i]
         /\ dir'.run = dir.run /\ dir'.cases = dir.cases
         /\ dir'.events = dir.events /\ dir'.image = dir.image
  BY DEF TypeOK, Directories

\* A runner goes on with what it has in hand.
LEMMA GoesOn ==
  ASSUME TypeOK, NEW p \in Runners, NEW place \in Places, Goes(p, place)
  PROVE  /\ proc' \in [Runners -> Processes]
         /\ proc'[p].at = place
         /\ proc'[p].todo = proc[p].todo /\ proc'[p].case = proc[p].case
         /\ \A q \in Runners : q # p => proc'[q] = proc[q]
  <1> DEFINE old == proc[p]
             new == [old EXCEPT !.at = place]
  <1>1. old \in Processes
    BY DEF TypeOK
  <1>2. proc' = [proc EXCEPT ![p] = new]
    BY DEF Goes
  <1> HIDE DEF old
  <1>3. /\ new \in Processes /\ new.at = place
        /\ new.todo = old.todo /\ new.case = old.case
    BY <1>1 DEF Processes
  <1> HIDE DEF new
  <1> QED
    BY <1>2, <1>3 DEF TypeOK, old

\* A runner ends, and its lock goes with it.
LEMMA StopsIn ==
  ASSUME TypeOK, NEW p \in Runners, Stops(p)
  PROVE  /\ proc' \in [Runners -> Processes]
         /\ proc'[p].at = "idle"
         /\ holder' \in Runners \cup {None}
         /\ \A q \in Runners : q # p => proc'[q] = proc[q]
         /\ \A q \in Runners : q # p /\ holder = q => holder' = q
  <1>1. Resting \in Processes /\ Resting.at = "idle"
    BY DEF Resting, Processes, Places
  <1> HIDE DEF Resting
  <1> QED
    BY <1>1 DEF Stops, TypeOK

\* The initial states satisfy the invariant.
LEMMA InitIInv == Init => IInv
  <1> SUFFICES ASSUME Init PROVE IInv
    OBVIOUS
  <1>1. dir \in Directories /\ dir.run = None /\ dir.cases = None
        /\ (\A c \in All : dir.events[c] = "none" /\ dir.image[c] = 0)
    BY DEF Init, NoDirectory, Directories, Events
  <1>2. Resting \in Processes /\ Resting.at = "idle"
    BY DEF Resting, Processes, Places
  <1>3. TypeOK
    BY <1>1, <1>2 DEF Init, TypeOK
  <1>4. Holding /\ InHand
    BY <1>2 DEF Init, Holding, InHand, HandOf, Held, Working, Begun, At
  <1>5. Untried /\ Descriptor /\ Reviewed
    BY <1>1 DEF Init, Untried, Descriptor, RunTellsItsCases, Reviewed, ReviewStays
  <1> QED
    BY <1>3, <1>4, <1>5 DEF IInv

-----------------------------------------------------------------------------
(* The steps.  Under a lock only its holder is at work.                    *)

SameFiles ==
    /\ dir' \in Directories
    /\ dir'.run = dir.run /\ dir'.cases = dir.cases
    /\ dir'.events = dir.events
    /\ dir'.image = dir.image /\ dir'.meta = dir.meta

\* What a step that leaves the files and the tries alone has to show.
LEMMA KeepsDirectory ==
  ASSUME IInv, TypeOK', Holding', InHand', SameFiles,
         UNCHANGED <<pilot, rendered, tries, notes, review>>
  PROVE  IInv'
  BY DEF IInv, Untried, Descriptor, RunTellsItsCases, Reviewed, ReviewStays, SameFiles

\* A runner that only moves on, or ends, outside of the work on a case.
LEMMA Moves ==
  ASSUME IInv, NEW p \in Runners, SameFiles,
         UNCHANGED <<pilot, plan, rendered, tries, notes, review>>,
         proc' \in [Runners -> Processes], holder' \in Runners \cup {None},
         intact' \in BOOLEAN, faults' \in Nat, edits' \in Nat,
         \A q \in Runners : q # p => proc'[q] = proc[q],
         \A q \in Runners : q # p /\ holder = q => holder' = q,
         proc'[p].at \in {"idle", "ready", "locked", "compare"},
         proc'[p].at \in Held => holder' = p
  PROVE  IInv'
  <1>1. TypeOK'
    BY DEF IInv, TypeOK, SameFiles
  <1>2. Holding'
    BY DEF IInv, Holding
  <1>3. InHand'
    BY DEF IInv, InHand, HandOf, At, CasesOf, Working, Begun, SameFiles
  <1> QED
    BY <1>1, <1>2, <1>3, KeepsDirectory

LEMMA UnchangedFiles == ASSUME TypeOK, UNCHANGED dir PROVE SameFiles
  BY DEF TypeOK, SameFiles

\* The preflight, without the lock.
LEMMA PreflightIInv == ASSUME IInv, NEW p \in Runners, Preflight(p) PROVE IInv'
  <1>1. TypeOK /\ SameFiles
    BY UnchangedFiles DEF IInv, Preflight
  <1>2. /\ proc' \in [Runners -> Processes] /\ proc'[p].at = "ready"
        /\ \A q \in Runners : q # p => proc'[q] = proc[q]
    BY <1>1, GoesOn DEF Preflight, Places
  <1>3. UNCHANGED <<pilot, plan, rendered, tries, notes, review, holder, intact,
                    faults, edits>>
    BY DEF Preflight
  <1> QED
    BY <1>1, <1>2, <1>3, Moves DEF TypeOK, Held, Working, Begun

\* The lock is got, or the run ends.
LEMMA LockIInv == ASSUME IInv, NEW p \in Runners, Lock(p) PROVE IInv'
  <1>1. TypeOK /\ SameFiles
    BY DEF IInv, Lock, TypeOK, Directories, SameFiles
  <1>2. UNCHANGED <<pilot, plan, rendered, tries, notes, review, intact, faults,
                    edits>>
    BY DEF Lock
  <1>3. CASE holder = None
    <2>1. holder' = p /\ Goes(p, "locked")
      BY <1>3 DEF Lock
    <2>2. /\ proc' \in [Runners -> Processes] /\ proc'[p].at = "locked"
          /\ \A q \in Runners : q # p => proc'[q] = proc[q]
      BY <1>1, <2>1, GoesOn DEF Places
    <2> QED
      BY <1>1, <1>2, <1>3, <2>1, <2>2, Moves, NoneIsNothingElse DEF TypeOK
  <1>4. CASE holder # None
    BY <1>1, <1>2, <1>4, StopsIn, Moves DEF Lock, TypeOK, Held, Working, Begun
  <1> QED
    BY <1>3, <1>4

\* A run that refuses, ends or died outside of a rendering.
LEMMA StopsIInv ==
  ASSUME IInv, NEW p \in Runners, Stops(p), UNCHANGED dir,
         UNCHANGED <<pilot, plan, rendered, tries, notes, review, intact, edits>>,
         faults' \in Nat
  PROVE  IInv'
  <1>1. TypeOK /\ SameFiles
    BY UnchangedFiles DEF IInv
  <1> QED
    BY <1>1, StopsIn, Moves DEF TypeOK, Held, Working, Begun

\* The holder of the lock publishes what it runs where nothing is published.
LEMMA PublishIInv ==
  ASSUME IInv, NEW p \in Runners, PublishRun(p) \/ PublishCases(p)
  PROVE  IInv'
  <1>1. /\ TypeOK /\ proc[p].at \in Held /\ holder = p /\ UNCHANGED holder
        /\ UNCHANGED <<pilot, plan, rendered, tries, notes, review, intact, faults,
                       edits>>
    BY DEF IInv, PublishRun, PublishCases, At, Held, Holding
  <1>2. CASE PublishRun(p) /\ dir.run # None
    <2>1. Goes(p, "compare") /\ SameFiles
      BY <1>1, <1>2, UnchangedFiles DEF PublishRun
    <2> QED
      BY <1>1, <2>1, GoesOn, Moves DEF TypeOK, Places
  <1>3. CASE (PublishRun(p) /\ dir.run = None) \/ PublishCases(p)
    <2> DEFINE place == IF PublishCases(p) THEN "compare" ELSE "cases"
    <2>1. /\ dir' \in Directories /\ plan[p] \in Selections
          /\ dir'.events = dir.events
          /\ dir'.image = dir.image /\ dir'.meta = dir.meta
          /\ \/ /\ dir.run = None /\ dir'.run = plan[p] /\ dir'.cases = dir.cases
                /\ Goes(p, "cases")
             \/ /\ dir'.run = dir.run /\ dir.run = plan[p] /\ dir'.cases = plan[p]
                /\ Goes(p, "compare")
      BY <1>1, <1>3 DEF PublishRun, PublishCases, TypeOK, Directories, IInv, InHand,
             HandOf, At
    <2>2. /\ proc' \in [Runners -> Processes] /\ proc'[p].at \in {"cases", "compare"}
          /\ \A q \in Runners : q # p => proc'[q] = proc[q]
      BY <1>1, <2>1, GoesOn DEF Places
    <2>3. TypeOK'
      BY <1>1, <2>1, <2>2 DEF TypeOK
    <2>4. Holding'
      BY <1>1, <2>2 DEF IInv, Holding
    <2>5. \A q \in Runners : q # p => proc[q].at \notin Held
      BY <1>1 DEF IInv, Holding
    <2>6. InHand'
      <3>1. At(p, "cases")' => dir'.run = plan[p]
        BY <1>1, <2>1, GoesOn DEF At, Places
      <3> QED
        BY <1>1, <2>2, <2>5, <3>1 DEF InHand, HandOf, At, Held, Working, Begun
    <2>7. None \notin Selections
      BY NoneIsNothingElse DEF Selections
    <2>8. Untried' /\ Reviewed'
      BY <1>1, <2>1 DEF IInv, Untried, Reviewed, ReviewStays
    <2>9. Descriptor'
      <3>1. CASE dir.run = None
        <4>1. dir.cases = None
          BY <3>1 DEF IInv, Descriptor
        <4>2. pilot.compares # {} => \A c \in All : dir.events[c] = "none"
          BY <2>7, <3>1 DEF IInv, Descriptor, RunTellsItsCases, All
        <4> QED
          BY <1>1, <2>1, <2>7, <3>1, <4>1, <4>2 DEF Descriptor, RunTellsItsCases
      <3>2. CASE dir.run # None
        BY <1>1, <2>1, <3>2 DEF IInv, Descriptor, RunTellsItsCases
      <3> QED
        BY <3>1, <3>2
    <2> QED
      BY <2>3, <2>4, <2>6, <2>8, <2>9 DEF IInv
  <1> QED
    BY <1>2, <1>3

\* The comparison under the lock.
LEMMA CompareIInv == ASSUME IInv, NEW p \in Runners, Compare(p) PROVE IInv'
  <1>1. /\ TypeOK /\ holder = p /\ SameFiles
        /\ UNCHANGED <<pilot, plan, holder, rendered, tries, notes, review, intact,
                       faults, edits>>
    BY UnchangedFiles DEF IInv, Compare, At, Held, Holding
  <1> DEFINE old == proc[p]
             new == [old EXCEPT !.at = "work", !.todo = Pending(p)]
  <1>2. old \in Processes /\ proc' = [proc EXCEPT ![p] = new]
    BY <1>1 DEF Compare, TypeOK
  <1>3. Pending(p) \in SUBSET CasesOf(p) /\ CasesOf(p) \subseteq All
        /\ \A c \in Pending(p) : dir.events[c] = "none"
    BY <1>1 DEF Pending, CasesOf, All, TypeOK
  <1> HIDE DEF old
  <1>4. new \in Processes /\ new.at = "work" /\ new.todo = Pending(p)
    BY <1>2, <1>3 DEF Processes, Places
  <1> HIDE DEF new
  <1>5. /\ proc' \in [Runners -> Processes] /\ proc'[p] = new
        /\ \A q \in Runners : q # p => proc'[q] = proc[q]
    BY <1>1, <1>2, <1>4 DEF TypeOK
  <1>6. TypeOK' /\ Holding'
    BY <1>1, <1>5 DEF IInv, TypeOK, Holding, SameFiles
  <1>7. pilot.compares # {} => dir.run = plan[p] /\ dir.cases = plan[p]
    <2>1. pilot.compares # {} => "run" \in pilot.compares
      BY <1>1 DEF TypeOK, Pilots, MediaPilot, ComponentPilot, FramingPilot,
                  RefinementPilot, CompletionPilot, RepairPilot
    <2> QED
      BY <2>1 DEF Compare, SameRun, IInv, Descriptor
  <1>8. InHand'
    <2> SUFFICES ASSUME NEW q \in Runners PROVE HandOf(q)'
      BY DEF InHand
    <2>1. CASE q = p
      BY <1>1, <1>3, <1>4, <1>5, <1>7, <2>1 DEF HandOf, At, Begun, SameFiles, CasesOf
    <2>2. CASE q # p
      BY <1>1, <1>5, <2>2 DEF IInv, InHand, HandOf, At, SameFiles, CasesOf
    <2> QED
      BY <2>1, <2>2
  <1> QED
    BY <1>1, <1>6, <1>8, KeepsDirectory

-----------------------------------------------------------------------------
(* The work on the cases.                                                  *)

\* What a step of the one runner under the lock has to show for the others.
LEMMA AloneAtWork ==
  ASSUME IInv, NEW p \in Runners, proc[p].at \in Held,
         \/ UNCHANGED holder /\ HandOf(p)'
         \/ proc'[p].at = "idle",
         \A q \in Runners : q # p => proc'[q] = proc[q]
  PROVE  Holding' /\ InHand'
  <1>1. \A q \in Runners : q # p => proc'[q].at \notin Held
    BY DEF IInv, Holding
  <1>2. \A q \in Runners : q # p => HandOf(q)'
    BY <1>1 DEF HandOf, At, Held, Working, Begun
  <1>3. proc'[p].at = "idle" => HandOf(p)'
    BY DEF HandOf, At, Working, Begun
  <1> QED
    BY <1>1, <1>2, <1>3 DEF IInv, Holding, InHand, Held, Working, Begun

\* The cases of a run are cases.
LEMMA CasesAreCases ==
  ASSUME TypeOK, NEW p \in Runners
  PROVE  /\ CasesOf(p) \subseteq All /\ plan[p] \in Selections
         /\ \A c \in CasesOf(p) : c[1] = plan[p]
  BY DEF TypeOK, CasesOf, All

\* An attempt is put on record.
LEMMA StartCaseIInv == ASSUME IInv, NEW p \in Runners, StartCase(p) PROVE IInv'
  <1>1. PICK c \in proc[p].todo :
          /\ dir.image[c] = 0
          /\ dir' = [dir EXCEPT !.events[c] = "attempt_started"]
          /\ proc' = [proc EXCEPT ![p] =
                [at |-> "render", todo |-> proc[p].todo \ {c}, case |-> c]]
    BY DEF StartCase
  <1>2. /\ TypeOK /\ proc[p].at = "work" /\ proc[p].at \in Held
        /\ proc[p] \in Processes /\ HandOf(p)
        /\ UNCHANGED <<pilot, plan, holder, intact, rendered, tries, notes, review,
                       faults, edits>>
    BY DEF IInv, StartCase, At, Held, Working, InHand, TypeOK
  <1>3. /\ proc[p].todo \subseteq CasesOf(p) /\ c \in CasesOf(p) /\ c \in All
        /\ c[1] = plan[p]
        /\ \A d \in proc[p].todo : dir.events[d] = "none"
        /\ pilot.compares # {} => dir.run = plan[p] /\ dir.cases = plan[p]
    BY <1>2, CasesAreCases DEF HandOf, Working
  <1>4. /\ dir' \in Directories
        /\ dir'.events = [dir.events EXCEPT ![c] = "attempt_started"]
        /\ dir'.run = dir.run /\ dir'.cases = dir.cases
        /\ dir'.image = dir.image /\ dir'.meta = dir.meta
    BY <1>1, <1>2, <1>3, EventWritten DEF Events
  <1>5. dir.events \in [All -> Events] /\ tries[c] = 0
    BY <1>2, <1>3 DEF TypeOK, Directories, IInv, Untried
  <1> DEFINE new == [at |-> "render", todo |-> proc[p].todo \ {c}, case |-> c]
  <1>6. new \in Processes
    BY <1>2, <1>3 DEF Processes, Places
  <1>7. new.at = "render" /\ new.todo = proc[p].todo \ {c} /\ new.case = c
    OBVIOUS
  <1> HIDE DEF new
  <1>8. /\ proc' \in [Runners -> Processes] /\ proc'[p] = new
        /\ \A q \in Runners : q # p => proc'[q] = proc[q]
    BY <1>1, <1>2, <1>6 DEF TypeOK, new
  <1>9. TypeOK'
    BY <1>2, <1>4, <1>8 DEF TypeOK
  <1>10. HandOf(p)'
    BY <1>1, <1>2, <1>3, <1>4, <1>5, <1>7, <1>8 DEF HandOf, At, Working, Begun, CasesOf
  <1>11. Untried' /\ Reviewed'
    <2>1. Untried'
      BY <1>2, <1>4, <1>5 DEF IInv, Untried
    <2>2. review # None => \A d \in {review.selection} \X Cases : dir.image[d] # 0 =>
            dir'.events[d] = dir.events[d]
      BY <1>1, <1>4, <1>5
    <2>3. Reviewed'
      <3> SUFFICES ASSUME review # None, NEW d \in {review.selection} \X Cases
                   PROVE  (/\ review.seen[d] = review.image[d]
                           /\ review.image[d] \in 1 .. rendered
                           /\ \/ dir.image[d] > review.image[d] \/ dir.image[d] = 0
                              \/ /\ dir.image[d] = review.image[d]
                                 /\ dir.events[d] = "generated"
                                 /\ dir.meta[d] = dir.image[d])'
        BY <1>2, <1>4 DEF IInv, Reviewed, ReviewStays
      <3> QED
        BY <1>2, <1>4, <2>2 DEF IInv, Reviewed, ReviewStays
    <2> QED
      BY <2>1, <2>3
  <1>12. Descriptor'
    BY <1>2, <1>3, <1>4, <1>5 DEF IInv, Descriptor, RunTellsItsCases
  <1> QED
    BY <1>2, <1>8, <1>9, <1>10, <1>11, <1>12, AloneAtWork DEF IInv

\* What a step of a run on the case in its hands has to show: the case is on
\* record as attempted, so no review is about it yet.
LEMMA CaseStep ==
  ASSUME IInv, NEW p \in Runners, NEW c \in All,
         proc[p].at \in Begun, proc[p].case = c, dir' \in Directories,
         dir'.run = dir.run, dir'.cases = dir.cases,
         \A d \in All : d # c =>
            /\ dir'.events[d] = dir.events[d] /\ dir'.image[d] = dir.image[d]
            /\ dir'.meta[d] = dir.meta[d],
         dir'.events[c] # "none",
         \/ UNCHANGED rendered /\ dir'.image[c] = dir.image[c]
         \/ rendered' = rendered + 1 /\ dir'.image[c] \in {dir.image[c], rendered + 1},
         \/ UNCHANGED tries
         \/ tries' = [tries EXCEPT ![c] = @ + 1] /\ At(p, "render"),
         UNCHANGED <<pilot, plan, intact, notes, review, edits>>, faults' \in Nat,
         proc' \in [Runners -> Processes],
         \A q \in Runners : q # p => proc'[q] = proc[q],
         holder' \in Runners \cup {None},
         \/ UNCHANGED holder /\ HandOf(p)'
         \/ proc'[p].at = "idle"
  PROVE  IInv'
  <1>1. /\ TypeOK /\ HandOf(p) /\ proc[p].at \in Held /\ proc[p].at \in Working
        /\ dir.events[c] = "attempt_started"
    BY DEF IInv, InHand, HandOf, Held, Working
  <1>2. /\ rendered \in Nat /\ rendered' \in Nat /\ rendered <= rendered'
        /\ tries \in [All -> Nat] /\ dir.image \in [All -> Nat]
        /\ dir'.image \in [All -> Nat]
    BY <1>1 DEF TypeOK, Directories
  <1>3. TypeOK'
    BY <1>1, <1>2 DEF TypeOK
  <1>4. Holding' /\ InHand'
    BY <1>1, AloneAtWork
  <1>5. Untried'
    <2>1. At(p, "render") => tries[c] = 0
      BY <1>1 DEF HandOf
    <2> QED
      BY <1>2, <2>1 DEF IInv, Untried
  <1>6. Descriptor'
    <2>1. pilot.compares # {} => dir.run = c[1] /\ dir.cases = c[1]
      BY <1>1, CasesAreCases DEF HandOf
    <2> QED
      BY <2>1 DEF IInv, Descriptor, RunTellsItsCases
  <1>7. \A d \in All : dir'.image[d] <= rendered' /\ notes[d] <= rendered'
    BY <1>1, <1>2 DEF IInv, Reviewed, TypeOK
  <1>8. ReviewStays'
    <2> SUFFICES ASSUME review # None, NEW d \in {review.selection} \X Cases
                 PROVE  (/\ review.seen[d] = review.image[d]
                         /\ review.image[d] \in 1 .. rendered
                         /\ \/ dir.image[d] > review.image[d] \/ dir.image[d] = 0
                            \/ /\ dir.image[d] = review.image[d]
                               /\ dir.events[d] = "generated"
                               /\ dir.meta[d] = dir.image[d])'
      BY DEF ReviewStays
    <2>1. d \in All
      BY <1>1 DEF TypeOK, Reviews, All
    <2>2. /\ review.seen[d] = review.image[d]
          /\ review.image[d] \in 1 .. rendered
          /\ \/ dir.image[d] > review.image[d] \/ dir.image[d] = 0
             \/ /\ dir.image[d] = review.image[d]
                /\ dir.events[d] = "generated"
                /\ dir.meta[d] = dir.image[d]
      BY DEF IInv, Reviewed, ReviewStays
    <2>3. CASE d = c
      BY <1>1, <1>2, <2>1, <2>2, <2>3
    <2>4. CASE d # c
      BY <1>2, <2>1, <2>2, <2>4
    <2> QED
      BY <2>3, <2>4
  <1> QED
    BY <1>3, <1>4, <1>5, <1>6, <1>7, <1>8 DEF IInv, Reviewed

\* What a run has in hand while it works on a case.
LEMMA CaseInHand ==
  ASSUME IInv, NEW p \in Runners, proc[p].at \in Begun
  PROVE  /\ TypeOK /\ HandOf(p) /\ proc[p].case \in All
         /\ dir.events \in [All -> Events] /\ dir.image \in [All -> Nat]
         /\ dir.meta \in [All -> Nat] /\ rendered \in Nat
  BY CasesAreCases DEF IInv, InHand, HandOf, TypeOK, Directories

\* The model is called and the picture linked.
LEMMA RenderIInv == ASSUME IInv, NEW p \in Runners, Render(p) PROVE IInv'
  <1> DEFINE c == proc[p].case
  <1>1. proc[p].at = "render" /\ proc[p].at \in Begun
    BY DEF Render, At, Begun
  <1>2. /\ TypeOK /\ HandOf(p) /\ c \in All /\ dir.events \in [All -> Events]
        /\ dir.image \in [All -> Nat] /\ rendered \in Nat
    BY <1>1, CaseInHand
  <1>3. /\ rendered' = rendered + 1 /\ tries' = [tries EXCEPT ![c] = @ + 1]
        /\ dir' = [dir EXCEPT !.image[c] = rendered + 1] /\ Goes(p, "describe")
        /\ UNCHANGED <<pilot, plan, holder, intact, notes, review, faults, edits>>
    BY DEF Render
  <1>4. /\ dir' \in Directories /\ dir'.image = [dir.image EXCEPT ![c] = rendered + 1]
        /\ dir'.run = dir.run /\ dir'.cases = dir.cases
        /\ dir'.events = dir.events /\ dir'.meta = dir.meta
    BY <1>2, <1>3, ImageWritten
  <1>5. /\ proc' \in [Runners -> Processes] /\ proc'[p].at = "describe"
        /\ proc'[p].todo = proc[p].todo /\ proc'[p].case = c
        /\ \A q \in Runners : q # p => proc'[q] = proc[q]
    BY <1>2, <1>3, GoesOn DEF Places
  <1>6. HandOf(p)'
    BY <1>1, <1>2, <1>3, <1>4, <1>5 DEF HandOf, At, Working, Begun, CasesOf
  <1>7. At(p, "render") /\ holder' \in Runners \cup {None} /\ faults' \in Nat
        /\ holder' = holder
    BY <1>1, <1>2, <1>3 DEF At, TypeOK
  <1>8. dir'.events[c] # "none"
    BY <1>1, <1>2, <1>4 DEF HandOf
  <1>9. dir'.image[c] = rendered + 1
        /\ \A d \in All : d # c => dir'.image[d] = dir.image[d]
    BY <1>2, <1>4
  <1> HIDE DEF c
  <1>10. proc[p].case = c
    BY DEF c
  <1>11. \A d \in All : d # c =>
           /\ dir'.events[d] = dir.events[d] /\ dir'.image[d] = dir.image[d]
           /\ dir'.meta[d] = dir.meta[d]
    BY <1>4, <1>9
  <1>12. /\ rendered' = rendered + 1
         /\ dir'.image[c] \in {dir.image[c], rendered + 1}
         /\ tries' = [tries EXCEPT ![c] = @ + 1] /\ UNCHANGED holder /\ faults' \in Nat
         /\ UNCHANGED <<pilot, plan, intact, notes, review, edits>>
    BY <1>3, <1>7, <1>9
  <1> QED
    BY <1>1, <1>2, <1>4, <1>5, <1>6, <1>7, <1>8, <1>10, <1>11, <1>12, CaseStep

\* Its metadata is written.
LEMMA DescribeIInv == ASSUME IInv, NEW p \in Runners, Describe(p) PROVE IInv'
  <1> DEFINE c == proc[p].case
  <1>1. proc[p].at = "describe" /\ proc[p].at \in Begun
    BY DEF Describe, At, Begun
  <1>2. /\ TypeOK /\ HandOf(p) /\ c \in All /\ dir.events \in [All -> Events]
        /\ dir.image \in [All -> Nat] /\ dir.meta \in [All -> Nat] /\ rendered \in Nat
    BY <1>1, CaseInHand
  <1>3. /\ dir' = [dir EXCEPT !.meta[c] = dir.image[c]] /\ Goes(p, "log")
        /\ UNCHANGED <<pilot, plan, holder, intact, rendered, tries, notes, review,
                       faults, edits>>
    BY DEF Describe
  <1>4. /\ dir' \in Directories /\ dir'.meta = [dir.meta EXCEPT ![c] = dir.image[c]]
        /\ dir'.run = dir.run /\ dir'.cases = dir.cases
        /\ dir'.events = dir.events /\ dir'.image = dir.image
    BY <1>2, <1>3, MetaWritten
  <1>5. /\ proc' \in [Runners -> Processes] /\ proc'[p].at = "log"
        /\ proc'[p].todo = proc[p].todo /\ proc'[p].case = c
        /\ \A q \in Runners : q # p => proc'[q] = proc[q]
    BY <1>2, <1>3, GoesOn DEF Places
  <1>6. HandOf(p)'
    BY <1>1, <1>2, <1>3, <1>4, <1>5 DEF HandOf, At, Working, Begun, CasesOf
  <1> QED
    BY <1>1, <1>2, <1>3, <1>4, <1>5, <1>6, CaseStep DEF TypeOK, HandOf

\* The result is put on record, and the run goes on with the other cases.
LEMMA LogIInv == ASSUME IInv, NEW p \in Runners, Log(p) PROVE IInv'
  <1> DEFINE c == proc[p].case
  <1>1. proc[p].at = "log" /\ proc[p].at \in Begun
    BY DEF Log, At, Begun
  <1>2. /\ TypeOK /\ HandOf(p) /\ c \in All /\ dir.events \in [All -> Events]
        /\ dir.image \in [All -> Nat] /\ dir.meta \in [All -> Nat] /\ rendered \in Nat
    BY <1>1, CaseInHand
  <1>3. /\ dir' = [dir EXCEPT !.events[c] = "generated"] /\ Goes(p, "work")
        /\ UNCHANGED <<pilot, plan, holder, intact, rendered, tries, notes, review,
                       faults, edits>>
    BY DEF Log
  <1>4. /\ dir' \in Directories
        /\ dir'.events = [dir.events EXCEPT ![c] = "generated"]
        /\ dir'.run = dir.run /\ dir'.cases = dir.cases
        /\ dir'.image = dir.image /\ dir'.meta = dir.meta
    BY <1>2, <1>3, EventWritten DEF Events
  <1>5. /\ proc' \in [Runners -> Processes] /\ proc'[p].at = "work"
        /\ proc'[p].todo = proc[p].todo
        /\ \A q \in Runners : q # p => proc'[q] = proc[q]
    BY <1>2, <1>3, GoesOn DEF Places
  <1>6. HandOf(p)'
    BY <1>1, <1>2, <1>3, <1>4, <1>5 DEF HandOf, At, Working, Begun, CasesOf
  <1> QED
    BY <1>1, <1>2, <1>3, <1>4, <1>5, <1>6, CaseStep DEF TypeOK, HandOf

\* An exception ends the run on record.
LEMMA FailCaseIInv == ASSUME IInv, NEW p \in Runners, FailCase(p) PROVE IInv'
  <1> DEFINE c == proc[p].case
  <1>1. proc[p].at \in Begun
    BY DEF FailCase, Begun
  <1>2. /\ TypeOK /\ HandOf(p) /\ c \in All /\ dir.events \in [All -> Events]
        /\ dir.image \in [All -> Nat] /\ rendered \in Nat
    BY <1>1, CaseInHand
  <1>3. /\ dir' = [dir EXCEPT !.events[c] = "failed"] /\ Stops(p)
        /\ faults' = faults + 1
        /\ \/ UNCHANGED <<rendered, tries>>
           \/ /\ At(p, "render") /\ rendered' = rendered + 1
              /\ tries' = [tries EXCEPT ![c] = @ + 1]
        /\ UNCHANGED <<pilot, plan, intact, notes, review, edits>>
    BY DEF FailCase
  <1>4. /\ dir' \in Directories
        /\ dir'.events = [dir.events EXCEPT ![c] = "failed"]
        /\ dir'.run = dir.run /\ dir'.cases = dir.cases
        /\ dir'.image = dir.image /\ dir'.meta = dir.meta
    BY <1>2, <1>3, EventWritten DEF Events
  <1>5. /\ proc' \in [Runners -> Processes] /\ proc'[p].at = "idle"
        /\ holder' \in Runners \cup {None}
        /\ \A q \in Runners : q # p => proc'[q] = proc[q]
    BY <1>2, <1>3, StopsIn
  <1> QED
    BY <1>1, <1>2, <1>3, <1>4, <1>5, CaseStep DEF TypeOK

\* A death, during the rendering or elsewhere.
LEMMA DieIInv == ASSUME IInv, NEW p \in Runners, Die(p) PROVE IInv'
  <1>1. TypeOK /\ faults' \in Nat
    BY DEF IInv, Die, TypeOK
  <1>2. CASE At(p, "render")
    <2> DEFINE c == proc[p].case
    <2>1. proc[p].at \in Begun
      BY <1>2 DEF At, Begun
    <2>2. /\ HandOf(p) /\ c \in All /\ rendered \in Nat
      BY <2>1, CaseInHand
    <2>3. PICK left \in BOOLEAN : dir' = [dir EXCEPT !.litter = left]
      BY <1>2 DEF Die
    <2>4. /\ dir' \in Directories /\ dir'.events = dir.events
          /\ dir'.run = dir.run /\ dir'.cases = dir.cases
          /\ dir'.image = dir.image /\ dir'.meta = dir.meta
      BY <1>1, <2>3 DEF TypeOK, Directories
    <2>5. /\ Stops(p) /\ rendered' = rendered + 1
          /\ tries' = [tries EXCEPT ![c] = @ + 1]
          /\ UNCHANGED <<pilot, plan, intact, notes, review, edits>>
      BY <1>2 DEF Die
    <2>6. /\ proc' \in [Runners -> Processes] /\ proc'[p].at = "idle"
          /\ holder' \in Runners \cup {None}
          /\ \A q \in Runners : q # p => proc'[q] = proc[q]
      BY <1>1, <2>5, StopsIn
    <2>7. dir.events[c] # "none"
      BY <2>1, <2>2 DEF HandOf
    <2> QED
      BY <1>1, <1>2, <2>1, <2>2, <2>4, <2>5, <2>6, <2>7, CaseStep
  <1>3. CASE ~At(p, "render")
    BY <1>1, <1>3, StopsIInv DEF Die
  <1> QED
    BY <1>2, <1>3

-----------------------------------------------------------------------------
(* People.                                                                 *)

\* People who look, review or edit leave runs and files alone.
LEMMA PeopleIInv ==
  ASSUME IInv,
         \/ \E c \in All : Inspect(c)
         \/ \E s \in Selections : Review(s)
         \/ EditInput
  PROVE  IInv'
  <1>1. /\ UNCHANGED <<pilot, plan, dir, proc, holder, rendered, tries, faults>>
        /\ intact' \in BOOLEAN /\ edits' \in Nat
    <2>1. /\ UNCHANGED <<pilot, plan, dir, proc, holder, rendered, tries, faults>>
          /\ intact' = intact \/ intact' = ~intact
          /\ edits' = edits \/ edits' = edits + 1
      BY ZenonT(30) DEF Inspect, Review, EditInput
    <2>2. intact \in BOOLEAN /\ edits \in Nat
      BY DEF IInv, TypeOK
    <2>3. intact' \in BOOLEAN
      BY <2>1, <2>2, Zenon
    <2>4. edits' \in Nat
      <3>1. edits + 1 \in Nat
        BY <2>2
      <3> QED
        BY <2>1, <2>2, <3>1, Zenon
    <2> QED
      BY <2>1, <2>3, <2>4
  <1>2. /\ rendered \in Nat /\ dir.image \in [All -> Nat] /\ notes \in [All -> Nat]
        /\ \A c \in All : dir.image[c] <= rendered /\ notes[c] <= rendered
    BY DEF IInv, TypeOK, Directories, Reviewed
  <1>3. notes' \in [All -> Nat] /\ \A c \in All : notes'[c] <= rendered
    BY <1>2 DEF Inspect, Review, EditInput
  <1>4. review' \in Reviews \cup {None} /\ ReviewStays'
    <2>1. ASSUME NEW s \in Selections, Review(s)
          PROVE  review' \in Reviews /\ ReviewStays'
      <3>1. review' = [selection |-> s, image |-> dir.image, seen |-> notes]
        BY <2>1 DEF Review
      <3>2. \A c \in {s} \X Cases :
              /\ c \in All /\ dir.events[c] = "generated" /\ dir.meta[c] = dir.image[c]
              /\ notes[c] = dir.image[c] /\ notes[c] # 0
        BY <2>1 DEF Review, NoteIsOf, All
      <3>3. /\ review'.selection = s /\ review'.image = dir.image
            /\ review'.seen = notes
        BY <3>1
      <3>4. \A c \in {s} \X Cases :
              /\ notes[c] = dir.image[c] /\ dir.image[c] \in 1 .. rendered
        BY <1>2, <3>2
      <3> QED
        BY <1>1, <1>2, <3>1, <3>2, <3>3, <3>4 DEF Reviews, ReviewStays
    <2>2. CASE UNCHANGED review
      BY <1>1, <2>2 DEF IInv, TypeOK, Reviewed, ReviewStays
    <2> QED
      BY <2>1, <2>2 DEF Inspect, EditInput
  <1>5. TypeOK'
    BY <1>1, <1>3, <1>4 DEF IInv, TypeOK
  <1>6. Holding' /\ InHand' /\ Untried' /\ Descriptor'
    BY <1>1 DEF IInv, Holding, InHand, HandOf, Untried, Descriptor,
                RunTellsItsCases, At, CasesOf
  <1> QED
    BY <1>1, <1>2, <1>3, <1>4, <1>5, <1>6 DEF IInv, Reviewed

\* A directory that nobody works in is thrown away.
LEMMA DiscardIInv == ASSUME IInv, Discard PROVE IInv'
  <1>1. /\ dir' \in Directories /\ dir'.run = None /\ dir'.cases = None
        /\ \A c \in All : /\ dir'.events[c] = "none" /\ dir'.image[c] = 0
                          /\ tries'[c] = 0
    BY DEF Discard, NoDirectory, Directories, Events
  <1>2. UNCHANGED <<pilot, plan, proc, holder, intact, rendered, notes, review, faults>>
    BY DEF Discard
  <1>3. TypeOK'
    BY <1>1, <1>2 DEF IInv, TypeOK, Discard
  <1>4. \A p \in Runners : proc'[p].at = "idle"
    BY <1>2 DEF Discard, At
  <1>5. Holding' /\ InHand'
    BY <1>4 DEF Holding, InHand, HandOf, Held, Working, Begun, At
  <1>6. Untried' /\ Descriptor'
    BY <1>1 DEF Untried, Descriptor, RunTellsItsCases
  <1>7. Reviewed'
    <2>1. review # None => \A c \in {review.selection} \X Cases : c \in All
      BY DEF IInv, TypeOK, Reviews, All
    <2>2. rendered \in Nat
      BY DEF IInv, TypeOK
    <2> QED
      BY <1>1, <1>2, <2>1, <2>2 DEF IInv, Reviewed, ReviewStays
  <1> QED
    BY <1>3, <1>5, <1>6, <1>7 DEF IInv

\* The invariant is inductive.
LEMMA StepIInv == ASSUME IInv, [Next]_vars PROVE IInv'
  <1>1. CASE UNCHANGED vars
    BY <1>1 DEF vars, IInv, TypeOK, Holding, InHand, HandOf, Untried, Descriptor,
                RunTellsItsCases, Reviewed, ReviewStays, At, CasesOf
  <1>2. ASSUME NEW p \in Runners, Runner(p) PROVE IInv'
    <2>1. CASE Refuse(p) \/ Finish(p)
      <3>1. /\ Stops(p) /\ UNCHANGED dir
            /\ UNCHANGED <<pilot, plan, rendered, tries, notes, review, intact, edits>>
            /\ faults' \in Nat
        BY <2>1 DEF Refuse, Finish, IInv, TypeOK
      <3> QED
        BY <3>1, StopsIInv
    <2> QED
      BY <1>2, <2>1, PreflightIInv, LockIInv, PublishIInv, CompareIInv,
         StartCaseIInv, RenderIInv, DescribeIInv, LogIInv, FailCaseIInv, DieIInv
         DEF Runner
  <1> QED
    BY <1>1, <1>2, PeopleIInv, DiscardIInv DEF Next, People

THEOREM Invariance == Spec => []IInv
  BY InitIInv, StepIInv, PTL DEF Spec

-----------------------------------------------------------------------------
(* What follows.                                                           *)

\* The variables keep their types.
THEOREM PilotTypeCorrect == Spec => []TypeOK
  <1>1. IInv => TypeOK
    BY DEF IInv
  <1> QED
    BY Invariance, <1>1, PTL

\* No case is rendered twice in one directory, however often runners are
\* started, race or die (pending_cases(), generate_cases()).
THEOREM CasesAreAttemptedOnce == Spec => []AttemptedOnce
  <1>1. IInv => AttemptedOnce
    BY DEF IInv, Untried, AttemptedOnce
  <1> QED
    BY Invariance, <1>1, PTL

\* What was attempted in a directory is of the selection that its run.json
\* and cases describe, where they are compared under the lock.
THEOREM DirectoryTellsItsCases == Spec => []RunTellsItsCases
  <1>1. IInv => RunTellsItsCases
    BY DEF IInv, Descriptor
  <1> QED
    BY Invariance, <1>1, PTL

\* A published review stays true of the directory for as long as it is there
\* (bind_observations(), verify_run()).
THEOREM ReviewsStay == Spec => []ReviewStays
  <1>1. IInv => ReviewStays
    BY DEF IInv, Reviewed
  <1> QED
    BY Invariance, <1>1, PTL
=============================================================================
