---------------------------- MODULE PacketChain ----------------------------
(***************************************************************************)
(* The packets between the WANDS export and a published release: some      *)
(* sixty scripts, each of which reads earlier packets and files of its     *)
(* own, and publishes a directory whose manifest pins, by hash, what it    *)
(* was made from.  Most of them verify the pins of what they read, merge   *)
(* them, check all of them once more when the output is complete, and      *)
(* rename it into place; the ones that make releases pin the manifests of  *)
(* what they read, pack files into archives and verify these.              *)
(*                                                                         *)
(* The checks are made file by file, so one watched file stands for all    *)
(* of them: people change it to its other version and back.  `shaped` is   *)
(* what no script can see, the versions that had a part in a packet.       *)
(***************************************************************************)
EXTENDS Naturals, Sequences

CONSTANTS
    Chain,      \* the scripts and their packets, in order (see Pipeline)
    Watched,    \* the files watched, one in each behaviour
    None,
    MaxEdits,   \* bound: changes of the watched file
    MaxDeaths   \* bound: scripts that die

ASSUME ChainBounds ==
    MaxEdits \in Nat /\ MaxDeaths \in Nat /\ None \notin {1, 2}

VARIABLES
    file,     \* the watched file
    version,  \* its present version, 1 or 2
    packet,   \* packet[i]: the i-th packet: [state, pin, shaped]
    work,     \* the script that runs: [at, left, pin, shaped, edited]
    edits,
    deaths

vars == <<file, version, packet, work, edits, deaths>>

----------------------------------------------------------------------------
(* The scripts, in the order of the pipeline.  reads: the packets a script *)
(* verifies, in order.  Its own files are of three kinds.  raw: it takes   *)
(* the hash of the very bytes it parses.  first: it takes the hash and     *)
(* then reads.  late: it reads and takes the hash when it is done; a       *)
(* script itself is always late.  blind: packets whose pins it merges      *)
(* without comparing them with those it has.  sealed: packets of which it  *)
(* checks what they hold and not what they were made from.  known: files   *)
(* whose hash is written in the script.  archived: files it hashes and     *)
(* then packs.  style: staged in a temporary directory and checked, or     *)
(* staged only, written in place, or written in place and checked, or over *)
(* what is there, a run (see PilotRun), an archive that is verified when   *)
(* it is written, or release assets, whose toolkit archive is not.         *)
Plain == [reads |-> <<>>, raw |-> {}, first |-> {}, late |-> {"script"},
          blind |-> {}, sealed |-> {}, known |-> {}, archived |-> {},
          style |-> "staged"]

(* The first two write over what is there; the second does not verify what *)
(* the first has made, and takes its hash late.                            *)
Overwriting(files) ==
    [Plain EXCEPT !.late = @ \cup files, !.style = "overwritten"]
PreparedCatalog == Overwriting({"wands"})
MerchandisingPlan == Overwriting({"wands", "prepared products"})
RealismReview == [Plain EXCEPT !.first = {"source"}]
RealismCatalog == [Plain EXCEPT !.first = {"source"}]
CatalogDepth ==
    [Plain EXCEPT !.reads = <<"realism catalog">>,
                  !.first = {"source", "media"}]
CatalogRepairs ==
    [Plain EXCEPT !.reads = <<"depth">>, !.first = {"expansion media"}]
MediaReconciliation ==
    [Plain EXCEPT !.reads = <<"repairs">>, !.raw = {"findings"}]
MediaRepairPlan ==
    [Plain EXCEPT !.reads = <<"reconciliation", "repairs">>,
                  !.raw = {"decisions", "pilot selection"}]
MediaRun == [Plain EXCEPT !.reads = <<"media plan">>, !.style = "run"]
MediaReview ==
    [Plain EXCEPT !.reads = <<"media plan", "media run">>,
                  !.raw = {"observations"}]
ComponentLayouts ==
    [Plain EXCEPT !.reads = <<"media review">>, !.raw = {"layout selection"}]
ComponentRun ==
    [Plain EXCEPT !.reads = <<"layouts", "media review">>,
                  !.raw = {"component selection"}, !.style = "run"]
ComponentReview ==
    [Plain EXCEPT !.reads = <<"layouts", "media review", "component run">>,
                  !.first = {"component selection"}, !.raw = {"notes"}]
FramingRun ==
    [Plain EXCEPT !.reads = <<"component review", "layouts", "component run">>,
                  !.style = "run"]
FramingReview ==
    [Plain EXCEPT !.reads = <<"component review", "framing run">>,
                  !.first = {"framing notes"}]
RefinementRun ==
    [Plain EXCEPT !.reads = <<"framing review", "framing run">>,
                  !.style = "run"]
RefinementReview ==
    [Plain EXCEPT !.reads = <<"framing review", "refinement run">>,
                  !.first = {"refinement notes"}]
ComponentReadiness ==
    [Plain EXCEPT !.reads = <<"layouts", "component review",
                              "framing review", "refinement review">>]
(* Two of the five completion batches, which share one selection.          *)
CompletionRun ==
    [Plain EXCEPT !.reads = <<"layouts", "readiness">>,
                  !.first = {"completion selection"}, !.style = "run"]
CompletionReview(run) ==
    [Plain EXCEPT !.reads = <<"layouts", "readiness", run>>,
                  !.first = {"completion selection", "completion notes"}]
CompletionReadiness ==
    [Plain EXCEPT !.reads = <<"layouts", "component review",
                              "framing review", "refinement review",
                              "completion review", "second completion review">>]
RepairRun ==
    [Plain EXCEPT !.reads = <<"layouts", "readiness 2">>,
                  !.late = @ \cup {"repair selection"}, !.style = "run"]
ComponentRepairsReview ==
    [Plain EXCEPT !.reads = <<"layouts", "readiness 2", "repair run">>,
                  !.late = @ \cup {"repair notes"}, !.blind = {"readiness 2"}]
BuiltinReview ==
    [Plain EXCEPT !.reads = <<"layouts", "repairs review">>,
                  !.late = @ \cup {"records"}]
ValanceReference == [Plain EXCEPT !.reads = <<"layouts">>]
AssortmentPreview ==
    [Plain EXCEPT !.reads = <<"layouts", "repairs review">>,
                  !.late = @ \cup {"masks"}]
NurseryAssortment ==
    [Plain EXCEPT !.reads = <<"layouts", "builtin review", "valance">>,
                  !.late = @ \cup {"masks"}]
StorefrontCompositions ==
    [Plain EXCEPT !.reads = <<"assortments", "nursery">>,
                  !.late = @ \cup {"assortment notes"}]
StorefrontExports ==
    [Plain EXCEPT !.reads = <<"compositions">>,
                  !.late = @ \cup {"composition notes"}]
MediaAssignment ==
    [Plain EXCEPT !.reads = <<"layouts", "exports", "repairs">>,
                  !.late = @ \cup {"export notes"}]
MediaPreflight ==
    [Plain EXCEPT !.reads = <<"assignment", "exports">>,
                  !.late = @ \cup {"snapshot"}]
(* It does not hash its own pins again before the rename.                  *)
NativeMediaRehearsal ==
    [Plain EXCEPT !.reads = <<"assignment", "exports">>,
                  !.late = @ \cup {"snapshot", "definition acceptance"},
                  !.style = "staged only"]
DefinitionScope ==
    [Plain EXCEPT !.reads = <<"repairs">>, !.late = @ \cup {"snapshot"}]
(* Its snapshot must be one that the scope pins.                           *)
DefinitionMigration == [Plain EXCEPT !.reads = <<"scope">>]
(* The bulk packets pin the manifest of what they read and nothing else.   *)
BulkCompletion ==
    [Plain EXCEPT !.reads = <<"repairs">>, !.late = @ \cup {"assignments"},
                  !.style = "inplace"]
BulkImport ==
    [Plain EXCEPT !.reads = <<"bulk">>, !.late = @ \cup {"snapshot"},
                  !.style = "inplace"]
BulkMedia == [Plain EXCEPT !.reads = <<"bulk">>, !.style = "inplace"]

(* Scripts that only report on packets.                                    *)
RepairsCheck ==
    [Plain EXCEPT !.reads = <<"repairs">>, !.style = "inplace"]
ReleaseReadiness ==
    [Plain EXCEPT !.reads = <<"realism catalog">>, !.style = "inplace"]
SnapshotPreflight ==
    [Plain EXCEPT !.reads = <<"realism catalog">>, !.late = @ \cup {"snapshot"},
                  !.sealed = {"realism catalog"}, !.style = "inplace"]
BulkSnapshotCheck ==
    [Plain EXCEPT !.reads = <<"bulk", "bulk import">>,
                  !.sealed = {"bulk", "bulk import"}, !.style = "inplace"]

(* The releases.  They pin the manifests of what they read.                *)
Sealed(reads, style) ==
    [Plain EXCEPT !.reads = reads, !.style = style,
                  !.sealed = {reads[i] : i \in DOMAIN reads}]
Release ==
    [Sealed(<<"bulk media">>, "archive") EXCEPT
        !.known = {"base"}, !.late = @ \cup {"base"},
        !.archived = {"module", "tools"}]
(* Its source must be the one that the release names.                      *)
Enrichment ==
    [Sealed(<<"release", "repairs">>, "staged") EXCEPT
        !.first = {"source"}, !.known = {"source"}]
EnrichmentCheck == Sealed(<<"enrichment", "release">>, "inplace")
MediumRelease ==
    [Sealed(<<"enrichment", "release">>, "archive") EXCEPT
        !.archived = {"module"}]
ExpandedCatalog == Sealed(<<"medium release">>, "inplace")
ExpansionExport == Sealed(<<"expanded catalog">>, "inplace")
QaCatalog == Sealed(<<"expansion export">>, "inplace")
ExpandedRelease ==
    [Sealed(<<"expansion export", "qa catalog">>, "archive") EXCEPT
        !.archived = {"module", "tools"}]
GalleryQueue ==
    [Plain EXCEPT !.first = {"product image"}, !.known = {"product image"},
                  !.style = "inplace"]
GalleryReview == Sealed(<<"gallery queue">>, "inplace")
GalleryPackage == Sealed(<<"gallery queue", "gallery review">>, "inplace")
CandidateAssets ==
    [Sealed(<<"medium release", "gallery package">>, "assets") EXCEPT
        !.archived = {"tools"}]
GitHubReleaseAssets ==
    [Sealed(<<"release">>, "assets") EXCEPT !.archived = {"tools"}]
Handoff == [Sealed(<<"release">>, "archive") EXCEPT !.archived = {"tools"}]
(* Its weights are hashed first, its selection late, both again at the end *)
Cutouts ==
    [Plain EXCEPT !.first = {"weights"}, !.late = @ \cup {"cutout selection"},
                  !.style = "checked in place"]
BrowserFixture ==
    [Plain EXCEPT !.late = @ \cup {"render evidence", "pricing evidence"},
                  !.style = "inplace"]
RehearsalRoot == [Plain EXCEPT !.first = {"module"}, !.style = "inplace"]

Pipeline == <<
    [name |-> "prepared", by |-> PreparedCatalog],
    [name |-> "merchandising plan", by |-> MerchandisingPlan],
    [name |-> "realism review", by |-> RealismReview],
    [name |-> "realism catalog", by |-> RealismCatalog],
    [name |-> "depth", by |-> CatalogDepth],
    [name |-> "repairs", by |-> CatalogRepairs],
    [name |-> "reconciliation", by |-> MediaReconciliation],
    [name |-> "media plan", by |-> MediaRepairPlan],
    [name |-> "media run", by |-> MediaRun],
    [name |-> "media review", by |-> MediaReview],
    [name |-> "layouts", by |-> ComponentLayouts],
    [name |-> "component run", by |-> ComponentRun],
    [name |-> "component review", by |-> ComponentReview],
    [name |-> "framing run", by |-> FramingRun],
    [name |-> "framing review", by |-> FramingReview],
    [name |-> "refinement run", by |-> RefinementRun],
    [name |-> "refinement review", by |-> RefinementReview],
    [name |-> "readiness", by |-> ComponentReadiness],
    [name |-> "completion run", by |-> CompletionRun],
    [name |-> "completion review", by |-> CompletionReview("completion run")],
    [name |-> "second completion run", by |-> CompletionRun],
    [name |-> "second completion review",
        by |-> CompletionReview("second completion run")],
    [name |-> "readiness 2", by |-> CompletionReadiness],
    [name |-> "repair run", by |-> RepairRun],
    [name |-> "repairs review", by |-> ComponentRepairsReview],
    [name |-> "builtin review", by |-> BuiltinReview],
    [name |-> "valance", by |-> ValanceReference],
    [name |-> "assortments", by |-> AssortmentPreview],
    [name |-> "nursery", by |-> NurseryAssortment],
    [name |-> "compositions", by |-> StorefrontCompositions],
    [name |-> "exports", by |-> StorefrontExports],
    [name |-> "assignment", by |-> MediaAssignment],
    [name |-> "preflight", by |-> MediaPreflight],
    [name |-> "native media", by |-> NativeMediaRehearsal],
    [name |-> "scope", by |-> DefinitionScope],
    [name |-> "migration", by |-> DefinitionMigration],
    [name |-> "bulk", by |-> BulkCompletion],
    [name |-> "bulk import", by |-> BulkImport],
    [name |-> "bulk media", by |-> BulkMedia],
    [name |-> "repairs check", by |-> RepairsCheck],
    [name |-> "release readiness", by |-> ReleaseReadiness],
    [name |-> "snapshot preflight", by |-> SnapshotPreflight],
    [name |-> "bulk snapshot check", by |-> BulkSnapshotCheck],
    [name |-> "release", by |-> Release],
    [name |-> "enrichment", by |-> Enrichment],
    [name |-> "enrichment check", by |-> EnrichmentCheck],
    [name |-> "medium release", by |-> MediumRelease],
    [name |-> "expanded catalog", by |-> ExpandedCatalog],
    [name |-> "expansion export", by |-> ExpansionExport],
    [name |-> "qa catalog", by |-> QaCatalog],
    [name |-> "expanded release", by |-> ExpandedRelease],
    [name |-> "gallery queue", by |-> GalleryQueue],
    [name |-> "gallery review", by |-> GalleryReview],
    [name |-> "gallery package", by |-> GalleryPackage],
    [name |-> "candidate assets", by |-> CandidateAssets],
    [name |-> "github assets", by |-> GitHubReleaseAssets],
    [name |-> "handoff", by |-> Handoff],
    [name |-> "cutouts", by |-> Cutouts],
    [name |-> "browser fixture", by |-> BrowserFixture],
    [name |-> "rehearsal root", by |-> RehearsalRoot] >>

Places == DOMAIN Chain
Place(name) == CHOOSE i \in Places : Chain[i].name = name

(* Scripts that check everything they pin once more before they rename a   *)
(* directory into place, and those that only check what they have packed   *)
(* or read themselves.                                                     *)
Rechecks(s) == s.style \in {"staged", "run"}
Packs(s) == s.style \in {"archive", "checked in place"}
Verified(s) == {s.reads[k] : k \in DOMAIN s.reads} \ s.sealed

(* What the scripts of the pipeline have in common.  One that checks       *)
(* everything reads, apart from sealed ones, only packets of such scripts; *)
(* one that packs has nothing but sealed ones, and checks all that it has  *)
(* read of its own.  Pins are merged blindly only by a script that has     *)
(* merged no others than those of one packet, from a later packet that has *)
(* merged these, too.                                                      *)
ASSUME ChainRules ==
    /\ Chain \in Seq([name : STRING, by : {Chain[i].by : i \in Places}])
    /\ \A i \in Places :
          LET s == Chain[i].by IN
          /\ s.reads \in Seq(STRING)
          /\ \A r \in Verified(s) : Place(r) \in Places
          /\ Rechecks(s) =>
                /\ s.archived = {}
                /\ \A r \in Verified(s) : Rechecks(Chain[Place(r)].by)
          /\ Packs(s) =>
                /\ Verified(s) = {} /\ "script" \in s.late
                /\ s.archived \cap (s.raw \cup s.first) = {}
                /\ s.style = "archive" => s.raw \cup s.first = {}
          /\ s.blind # {} =>
                LET j == Place(s.reads[2]) IN
                /\ s.blind = {s.reads[2]} /\ s.sealed = {}
                /\ s.first = {} /\ Len(s.reads) >= 2
                /\ \A k \in DOMAIN s.reads : s.reads[k] = s.reads[2] => k = 2
                /\ Chain[j].by.blind = {}
                /\ s.reads[1] \in Verified(Chain[j].by)
                /\ Place(s.reads[1]) < j

----------------------------------------------------------------------------
Idle == [at |-> "idle", left |-> <<>>, pin |-> None, shaped |-> {},
         edited |-> FALSE]
Absent == [state |-> "absent", pin |-> None, shaped |-> {}]

Init ==
    /\ file \in Watched
    /\ version = 1
    /\ packet = [i \in Places |-> Absent]
    /\ work = Idle
    /\ edits = 0
    /\ deaths = 0

(* Packets are built one after the other; the present one is the first     *)
(* that is not complete.                                                   *)
Unbuilt == {i \in Places : packet[i].state # "built"}
Present == CHOOSE i \in Unbuilt : \A j \in Unbuilt : i <= j
Script == Chain[Present].by
Running(at) == Unbuilt # {} /\ work.at = at

(* Outputs that appear all at once, and outputs whose directory is made    *)
(* before the last hashes are taken.                                       *)
Staged(style) == style \in {"staged", "staged only", "run"}
Opened == ~Staged(Script.style) /\ work.at \in {"recheck", "publish"}

Reads == Head(work.left)
IsSealed == Reads \in Script.sealed

(* What agrees with the pins gathered so far.                              *)
Agrees(pin) == work.pin = None \/ pin = None \/ work.pin = pin
Merged(pin) == IF pin = None THEN work.pin ELSE pin

(* A script starts only where its output is not there yet; what it reads   *)
(* before it takes a hash, it reads here, and the hashes it takes before   *)
(* it reads, it takes here.                                                *)
Begin ==
    /\ Unbuilt # {} /\ work.at = "idle"
    /\ packet[Present].state = "absent" \/ Script.style = "overwritten"
    /\ file \in Script.known => version = 1
    /\ work' = [at |-> "verify", left |-> Script.reads, edited |-> FALSE,
                pin |-> IF file \in Script.first THEN version ELSE None,
                shaped |-> IF file \in Script.late THEN {version} ELSE {}]
    /\ UNCHANGED <<file, version, packet, edits, deaths>>

(* One packet is verified: every file it pins has the bytes it had, and    *)
(* its pins contradict none that were merged before.  Of a sealed one only *)
(* its own files are.                                                      *)
Verify ==
    /\ Running("verify") /\ work.left # <<>>
    /\ LET q == packet[Place(Reads)] IN
       /\ IsSealed \/ q.pin \in {None, version}
       /\ IsSealed \/ Reads \in Script.blind \/ Agrees(q.pin)
       /\ work' = [work EXCEPT !.at = "take",
                               !.pin = IF IsSealed THEN @ ELSE Merged(q.pin)]
    /\ UNCHANGED <<file, version, packet, edits, deaths>>

(* Then its content is read, and what it pins may be read again.  What a   *)
(* sealed packet was made from, its own manifest tells.                    *)
Take ==
    /\ Running("take")
    /\ LET q == packet[Place(Reads)]
           seen == q.shaped \cup (IF q.pin = None THEN {} ELSE {version})
       IN work' = [work EXCEPT !.at = "verify", !.left = Tail(@),
                               !.shaped = @ \cup (IF IsSealed THEN {} ELSE seen)]
    /\ UNCHANGED <<file, version, packet, edits, deaths>>

(* The script's own files.                                                 *)
ReadOwn ==
    /\ Running("verify") /\ work.left = <<>>
    /\ file \in Script.raw => Agrees(version)
    /\ work' = [work EXCEPT
                  !.at = "hash",
                  !.pin = IF file \in Script.raw THEN version ELSE @,
                  !.shaped = IF file \in Script.raw \cup Script.first
                             THEN @ \cup {version} ELSE @]
    /\ UNCHANGED <<file, version, packet, edits, deaths>>

HashLate ==
    /\ Running("hash")
    /\ work' = [work EXCEPT
                  !.at = "recheck",
                  !.pin = IF file \in Script.late \cup Script.archived
                          THEN version ELSE @]
    /\ UNCHANGED <<file, version, packet, edits, deaths>>

\* Mutant: the output is published as it was staged.
NoRecheck ==
    /\ Running("recheck")
    /\ work' = [work EXCEPT !.at = "publish",
                             !.shaped = IF file \in Script.archived
                                        THEN @ \cup {version} ELSE @]
    /\ UNCHANGED <<file, version, packet, edits, deaths>>

OwnFiles == Script.raw \cup Script.first \cup Script.late \cup Script.archived

(* What the last check looks at: everything pinned where the output is     *)
(* staged and checked, what the script itself has read where it is checked *)
(* in place, what was packed where it is an archive, nothing elsewhere.    *)
Checked ==
    \/ Script.style \in {"staged", "run"}
    \/ Script.style = "checked in place" /\ file \notin {"script"}
    \/ Script.style = "archive" /\ file \in Script.archived

(* Everything pinned is hashed once more; what is archived is packed, and  *)
(* the archive compared with the hashes that were taken before.  An output *)
(* that is not staged keeps no pins but those of its script's own files.   *)
Recheck ==
    /\ Running("recheck")
    /\ Checked => work.pin \in {None, version}
    /\ work' = [work EXCEPT
                  !.at = "publish",
                  !.pin = IF Staged(Script.style) \/ file \in OwnFiles
                          THEN @ ELSE None,
                  !.shaped = IF file \in Script.archived
                             THEN @ \cup {version} ELSE @]
    /\ UNCHANGED <<file, version, packet, edits, deaths>>

(* The manifest is written and the directory renamed into its place.       *)
Publish ==
    /\ Running("publish")
    /\ packet' = [packet EXCEPT ![Present] =
                    [state |-> "built", pin |-> work.pin,
                     shaped |-> work.shaped]]
    /\ work' = Idle
    /\ UNCHANGED <<file, version, edits, deaths>>

(* A check that fails ends the script; its temporary directory goes with   *)
(* it, a directory that was made before the check stays.                   *)
Refuse ==
    /\ \/ /\ Running("verify") /\ work.left # <<>> /\ ~IsSealed
          /\ LET q == packet[Place(Reads)] IN
             \/ q.pin \notin {None, version}
             \/ Reads \notin Script.blind /\ ~Agrees(q.pin)
       \/ /\ Running("verify") /\ work.left = <<>>
          /\ file \in Script.raw /\ ~Agrees(version)
       \/ Running("recheck") /\ Checked /\ work.pin \notin {None, version}
    /\ packet' = [packet EXCEPT ![Present].state =
                    IF Opened THEN "partial" ELSE @]
    /\ work' = Idle
    /\ UNCHANGED <<file, version, edits, deaths>>

\* Mutant: every script makes its output directory before it fills it.
DieInPlace ==
    /\ work.at # "idle" /\ Script.style # "run"
    /\ deaths < MaxDeaths
    /\ deaths' = deaths + 1
    /\ packet' = [packet EXCEPT ![Present].state =
                    IF work.at = "publish" THEN "partial" ELSE @]
    /\ work' = Idle
    /\ UNCHANGED <<file, version, edits>>

(* A death leaves a half-made directory where the script writes in place.  *)
(* The death of a run is told by PilotRun.                                 *)
Die ==
    /\ work.at # "idle" /\ Script.style # "run"
    /\ deaths < MaxDeaths
    /\ deaths' = deaths + 1
    /\ packet' = [packet EXCEPT ![Present].state =
                    IF Opened THEN "partial" ELSE @]
    /\ work' = Idle
    /\ UNCHANGED <<file, version, edits>>

(* At most one change during one script: hashes cannot tell a file that    *)
(* was changed and put back between two of them.                           *)
Edit ==
    /\ edits < MaxEdits
    /\ ~work.edited
    /\ edits' = edits + 1
    /\ version' = 3 - version
    /\ work' = IF work.at = "idle" THEN work ELSE [work EXCEPT !.edited = TRUE]
    /\ UNCHANGED <<file, packet, deaths>>

Build == Begin \/ Verify \/ Take \/ ReadOwn \/ HashLate \/ Recheck \/ Publish
         \/ Refuse
Next == Build \/ Die \/ Edit

Spec == Init /\ [][Next]_vars /\ WF_vars(Build)

----------------------------------------------------------------------------
(* Properties.                                                             *)

(* Scripts that take the hash of the watched file only after its use.      *)
TakenLate == \E i \in Places : file \in Chain[i].by.late

(* A packet that pins a file was made from the version it pins alone, also *)
(* through all the packets whose pins it has merged: no edit between two   *)
(* scripts or in the middle of one gets the file's other version into it   *)
(* (the final verify_pins() of every build(), verify_release()).           *)
EvidenceIsOneVersion ==
    ~TakenLate =>
        \A i \in Places :
            (packet[i].pin # None
                /\ Chain[i].by.style \in
                    {"staged", "run", "archive", "checked in place"}) =>
                    packet[i].shaped \subseteq {packet[i].pin}

(* With no edits, every packet that is staged is built in the end, though  *)
(* a script dies on the way: nothing it leaves makes it refuse, unless a   *)
(* packet before it was left half made, which only the scripts that write  *)
(* in place can do (TemporaryDirectory and rename in every build()).       *)
StagedBuilt ==
    \A i \in Places :
        Chain[i].by.style = "staged" =>
            \/ packet[i].state = "built"
            \/ \E j \in 1 .. i - 1 : packet[j].state = "partial"
DeathLeavesNothingInTheWay == [](edits = 0) => <>StagedBuilt
=============================================================================
