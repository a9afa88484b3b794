----------------------------- MODULE LabInstall -----------------------------
(***************************************************************************)
(* The acceptance of releases on three disposable labs and on the internal *)
(* demo (distribution/acceptance/).  Each procedure is a script that is    *)
(* used once: a file says that it was started, another how its present     *)
(* stage goes, and after a stage that fails or a script that dies nothing  *)
(* goes on by itself.  What goes on is the stage: the process in the       *)
(* container outlives the script that started it.  Only two continuations  *)
(* are provided for, an installer that refused an empty database, and a    *)
(* demo whose stock rows the native imports had changed.                   *)
(***************************************************************************)
EXTENDS Naturals, Sequences

LOCAL INSTANCE SequencesExt

CONSTANTS
    Nothing,
    MaxFaults,  \* bound: stages that fail, scripts that are killed
    MaxUses     \* bound: orders and edits in the demo

ASSUME LabBounds == MaxFaults \in Nat /\ MaxUses \in Nat

VARIABLES
    site,    \* the site that is looked at, one in each behaviour
    marks,   \* the files that say what was started, kept or completed
    state,   \* the state file: [stage, status]
    base,    \* base[d]: what was done to the database d; Nothing without one
    saved,   \* the backup of the empty installation
    env,     \* the database that the shop's configuration names
    script,  \* the procedure that runs: [by, at, begun]
    orphans, \* stages that outlive their scripts: [stage, on]
    stock,   \* what was done to the stock rows of the demo: "stock", "edit"
    uses,    \* what customers and staff did in the demo
    diff,    \* the stock differences that people have inspected
    faults

demoVars == <<stock, uses, diff>>
labVars == <<site, marks, state, base, saved, env, script, orphans, demoVars,
             faults>>

----------------------------------------------------------------------------
(* The procedures: what must be there, the file that is made first, the    *)
(* database, the stages before it is changed, those that change it and     *)
(* those after, and the file that is made last.                            *)
Imports == <<"setup", "simple", "configurable", "bundle", "media">>

Bootstrap ==
    [needs |-> {}, starts |-> "bootstrap-started", on |-> "starter",
     first |-> <<>>, makes |-> <<"install">>, last |-> <<>>,
     ends |-> "bootstrap-complete"]
(* It does not ask how the bootstrap ended.                                *)
Starter ==
    [needs |-> {"bootstrap-started"}, starts |-> "starter-started",
     on |-> "starter",
     first |-> <<"package", "preflight", "keep">>, makes |-> Imports,
     last |-> <<>>,
     ends |-> "starter-complete"]
Full ==
    [needs |-> {"starter-complete"}, starts |-> "full-started", on |-> "full",
     first |-> <<"package", "create", "restore", "switch", "preflight">>,
     makes |-> Imports, last |-> <<>>,
     ends |-> "full-complete"]

Prepare ==
    [needs |-> {}, starts |-> "prepare-started", on |-> "recipient",
     first |-> <<>>, makes |-> <<"install">>, last |-> <<"keep">>,
     ends |-> "prepare-complete"]
Merchandising ==
    <<"setup", "simple", "configurable", "bundle", "media", "merchandising">>
Install ==
    [needs |-> {"prepare-complete"}, starts |-> "install-started",
     on |-> "recipient",
     first |-> <<"package", "preflight">>, makes |-> Merchandising,
     last |-> <<"verify", "dump">>,
     ends |-> "install-complete"]

EnrichedBootstrap ==
    [needs |-> {}, starts |-> "bootstrap-started", on |-> "empty",
     first |-> <<"package">>, makes |-> <<"install">>, last |-> <<"keep">>,
     ends |-> "bootstrap-complete"]
RetryEmptyInstall == [EnrichedBootstrap EXCEPT !.first = <<>>]
Medium ==
    [needs |-> {"bootstrap-complete"}, starts |-> "medium-started",
     on |-> "medium",
     first |-> <<"create", "restore", "switch", "preflight">>,
     makes |-> Merchandising, last |-> <<"verify", "dump">>,
     ends |-> "medium-complete"]
EnrichedFull ==
    [needs |-> {"bootstrap-complete"}, starts |-> "full-started",
     on |-> "full",
     first |-> <<"package", "create", "restore", "switch", "preflight">>,
     makes |-> Merchandising, last |-> <<"verify", "dump">>,
     ends |-> "full-complete"]

Update ==
    [needs |-> {}, starts |-> "update-started", on |-> "demo",
     first |-> <<"dump">>, makes |-> <<"schema", "attributes", "links">>,
     last |-> <<"canonical">>,
     ends |-> "update-complete"]
FinishAfterStockRestoration ==
    [Update EXCEPT
        !.first = <<>>, !.makes = <<>>,
        !.last = <<"canonical-after-stock", "canonical-after-index">>]
Gallery ==
    [needs |-> {"update-complete"}, starts |-> "gallery-started",
     on |-> "demo",
     first |-> <<"package", "dump">>, makes |-> <<"gallery">>,
     last |-> <<"canonical-with-gallery">>,
     ends |-> "gallery-complete"]

Procedures ==
    [acceptance |-> {Bootstrap, Starter, Full},
     recipient |-> {Prepare, Install},
     enriched |-> {EnrichedBootstrap, Medium, EnrichedFull},
     demo |-> {Update, Gallery}]

Stages(p) == p.first \o p.makes \o p.last

(* The databases that a configuration may name when it is switched.        *)
Switchable == [acceptance |-> {"starter"}, enriched |-> {"empty", "medium"}]

(* What a database has gone through when it is as the package makes it.    *)
Changes == {"install", "setup", "simple", "configurable", "bundle", "media",
            "merchandising", "schema", "attributes", "links", "gallery"}
Fresh == <<"install">>
Uses == {"order", "edit"}
Ground(p) == IF p.on = "demo" THEN <<"shop">> \o Update.makes ELSE Fresh
Packaged(p) ==
    IF p.ends \in {"bootstrap-complete", "prepare-complete", "update-complete"}
    THEN Ground(p) ELSE Ground(p) \o p.makes

----------------------------------------------------------------------------
Databases == {"starter", "full", "recipient", "empty", "medium", "demo"}
Homes == [acceptance |-> "starter", recipient |-> "recipient",
          enriched |-> "empty", demo |-> "demo"]
NoScript == [by |-> Nothing, at |-> 0, begun |-> FALSE]
Failed(stage) == [stage |-> stage, status |-> "failed"]

ASSUME NothingIsNothingElse ==
    /\ Nothing \notin DOMAIN Procedures
    /\ Nothing \notin Seq(Changes \cup {"shop", "part"})
    /\ Nothing # Failed("install") /\ Nothing # Failed("canonical")

LabInit ==
    /\ site = Nothing /\ env = Nothing
    /\ base = [d \in Databases |-> Nothing]
    /\ marks = {} /\ state = Nothing
    /\ saved = Nothing /\ script = NoScript /\ orphans = {}
    /\ stock = <<>> /\ uses = [u \in Uses |-> 0] /\ diff = Nothing
    /\ faults = 0

(* A site: a new server with an empty database, or the demo as it is.      *)
Choose ==
    /\ site = Nothing
    /\ site' \in DOMAIN Procedures
    /\ env' = Homes[site']
    /\ base' = [base EXCEPT ![env'] =
                  IF site' = "demo" THEN <<"shop">> ELSE <<>>]
    /\ UNCHANGED <<marks, state, saved, script, orphans, demoVars, faults>>

Own == IF site = Nothing THEN {} ELSE Procedures[site]

Fault == faults < MaxFaults /\ faults' = faults + 1
Free == script = NoScript
Starts(p) == script' = [by |-> p, at |-> 1, begun |-> FALSE]

BeginProcedure(p) ==
    /\ Free
    /\ p \in Own
    /\ p.needs \subseteq marks /\ p.starts \notin marks
    /\ marks' = marks \cup {p.starts}
    /\ Starts(p)
    /\ UNCHANGED <<site, state, base, saved, env, orphans, demoVars, faults>>

\* Mutant: what the refused installer has left is not looked at.
InspectedOnly == state = Failed("install")

(* The one failure that may be tried again: the installer has refused and  *)
(* the database has no tables.                                             *)
Retriable == state = Failed("install") /\ base["empty"] = <<>>

Retry ==
    /\ Free /\ site = "enriched"
    /\ Retriable
    /\ Starts(RetryEmptyInstall)
    /\ UNCHANGED <<site, marks, state, base, saved, env, orphans, demoVars,
                   faults>>

----------------------------------------------------------------------------
(* The state file says which stage runs; then its process is started.      *)
Stage == Stages(script.by)[script.at]
NoneLeft == script.at > Len(Stages(script.by))
At(stages) == script.begun /\ Stage \in stages

Start ==
    /\ ~Free /\ ~script.begun /\ ~NoneLeft
    /\ state' = [stage |-> Stage, status |-> "running"]
    /\ script' = [script EXCEPT !.begun = TRUE]
    /\ UNCHANGED <<site, marks, base, saved, env, orphans, demoVars, faults>>

Completes ==
    /\ state' = [stage |-> Stage, status |-> "complete"]
    /\ script' = [script EXCEPT !.at = @ + 1, !.begun = FALSE]

Fails ==
    /\ state' = Failed(Stage)
    /\ script' = NoScript

On == IF Stage = "install" THEN script.by.on ELSE env

(* A stage that changes the shop.  In the demo, which has stock that was   *)
(* sold, imports may change the availability of products on the way.       *)
SideEffects == IF Stage \in {"attributes", "links", "gallery"}
               THEN {<<>>, <<"stock">>} ELSE {<<>>}
Change ==
    /\ At(Changes)
    /\ base' = [base EXCEPT ![On] = Append(@, Stage)]
    /\ \E effect \in SideEffects : stock' = stock \o effect
    /\ Completes
    /\ UNCHANGED <<site, marks, saved, env, orphans, uses, diff, faults>>

(* The empty installation is kept, in a file that must be new.             *)
Keep ==
    /\ At({"keep"})
    /\ saved = Nothing
    /\ saved' = base[env]
    /\ Completes
    /\ UNCHANGED <<site, marks, base, env, orphans, demoVars, faults>>

Create ==
    /\ At({"create"})
    /\ base[script.by.on] = Nothing
    /\ base' = [base EXCEPT ![script.by.on] = <<>>]
    /\ Completes
    /\ UNCHANGED <<site, marks, saved, env, orphans, demoVars, faults>>

Restore ==
    /\ At({"restore"})
    /\ base' = [base EXCEPT ![script.by.on] = saved]
    /\ Completes
    /\ UNCHANGED <<site, marks, saved, env, orphans, demoVars, faults>>

Switch ==
    /\ At({"switch"})
    /\ env \in Switchable[site]
    /\ env' = script.by.on
    /\ Completes
    /\ UNCHANGED <<site, marks, base, saved, orphans, demoVars, faults>>

(* The stages that only look.                                              *)
Canonical == {"canonical", "canonical-after-stock", "canonical-after-index",
              "canonical-with-gallery"}
Looks == {"package", "dump", "preflight", "verify"} \cup Canonical
Passes(stage) ==
    /\ stage = "preflight" => base[env] = Fresh
    /\ stage \in {"verify"} \cup Canonical => base[env] = Packaged(script.by)
    /\ stage \in Canonical => stock = <<>> /\ uses["order"] = 0

Look ==
    /\ At(Looks)
    /\ Passes(Stage)
    /\ Completes
    /\ UNCHANGED <<site, marks, base, saved, env, orphans, demoVars, faults>>

(* What is found is not what must be there.  The first verification of the *)
(* demo tells whether nothing but the stock is amiss.                      *)
Unfit ==
    \/ At(Looks) /\ ~Passes(Stage)
    \/ At({"keep"}) /\ saved # Nothing
    \/ At({"create"}) /\ base[script.by.on] # Nothing
    \/ At({"switch"}) /\ env \notin Switchable[site]

StageRefused ==
    /\ Unfit
    /\ Fails
    /\ marks' = IF Stage = "canonical" /\ base["demo"] = Packaged(Update)
                THEN marks \cup {"products-and-links-exact"} ELSE marks
    /\ UNCHANGED <<site, base, saved, env, orphans, demoVars, faults>>

(* A stage exits with an error, having done nothing or a part of its work. *)
StageFails ==
    /\ ~Free /\ script.begun
    /\ Fault
    /\ Fails
    /\ \/ UNCHANGED base
       \/ /\ Stage \in Changes
          /\ base' = [base EXCEPT ![On] = Append(@, "part")]
    /\ UNCHANGED <<site, marks, saved, env, orphans, demoVars>>

Finish ==
    /\ ~Free /\ NoneLeft
    /\ marks' = marks \cup {script.by.ends}
    /\ script' = NoScript
    /\ UNCHANGED <<site, state, base, saved, env, orphans, demoVars, faults>>

(* The script is killed, and the stage goes on without it.                 *)
Kill ==
    /\ ~Free
    /\ Fault
    /\ orphans' = IF script.begun /\ Stage \in Changes
                  THEN orphans \cup {[stage |-> Stage, on |-> On]}
                  ELSE orphans
    /\ script' = NoScript
    /\ UNCHANGED <<site, marks, state, base, saved, env, demoVars>>

OrphanEnds ==
    \E o \in orphans :
        /\ orphans' = orphans \ {o}
        /\ base' = [base EXCEPT ![o.on] = Append(@, o.stage)]
        /\ UNCHANGED <<site, marks, state, saved, env, script, demoVars,
                       faults>>

----------------------------------------------------------------------------
(* The demo is in use: customers order, which reserves stock, and staff    *)
(* edit its stock rows.                                                    *)
Use ==
    /\ site = "demo"
    /\ uses["order"] + uses["edit"] < MaxUses
    /\ \E use \in Uses :
          /\ uses' = [uses EXCEPT ![use] = @ + 1]
          /\ stock' = IF use = "edit" THEN Append(stock, use) ELSE stock
    /\ UNCHANGED <<site, marks, state, base, saved, env, script, orphans, diff,
                   faults>>

(* The stock rows are extracted from the backup, once, and people compare  *)
(* them with those that the shop has now.                                  *)
ExtractStock ==
    /\ Free /\ state = Failed("canonical")
    /\ "stock-extracted" \notin marks
    /\ marks' = marks \cup {"stock-extracted"}
    /\ diff' = stock
    /\ UNCHANGED <<site, state, base, saved, env, script, orphans, stock, uses,
                   faults>>

(* Once, and only if nothing but the side effects was inspected: the rows  *)
(* are set back, and stay so if they were as they were inspected and the   *)
(* whole table is then as it was planned, which it is without more changes.*)
RestoreStock ==
    /\ Free
    /\ diff # Nothing /\ diff # <<>>
    /\ {diff[i] : i \in DOMAIN diff} = {"stock"}
    /\ {"restoration-passed", "restoration-failed"} \cap marks = {}
    /\ IF stock = diff
       THEN stock' = <<>> /\ marks' = marks \cup {"restoration-passed"}
       ELSE UNCHANGED stock /\ marks' = marks \cup {"restoration-failed"}
    /\ UNCHANGED <<site, state, base, saved, env, script, orphans, uses, diff,
                   faults>>

(* Only a failed first verification is continued, once, if it found the    *)
(* products and links as they should be.                                   *)
Continue ==
    /\ Free
    /\ state = Failed("canonical")
    /\ {"products-and-links-exact", "restoration-passed"} \subseteq marks
    /\ {"update-complete", "continued"} \cap marks = {}
    /\ marks' = marks \cup {"continued"}
    /\ Starts(FinishAfterStockRestoration)
    /\ UNCHANGED <<site, state, base, saved, env, orphans, demoVars, faults>>

LabNext ==
    \/ Choose
    \/ \E p \in Own : BeginProcedure(p)
    \/ Retry
    \/ Start \/ Change \/ Keep \/ Create \/ Restore \/ Switch \/ Look
    \/ StageRefused \/ StageFails \/ Finish \/ Kill \/ OrphanEnds
    \/ Use \/ ExtractStock \/ RestoreStock \/ Continue

LabSpec == LabInit /\ [][LabNext]_labVars

----------------------------------------------------------------------------
(* Properties.                                                             *)

(* A procedure that says it is complete has left its database as the       *)
(* package makes it, on top of the empty installation that was kept, with  *)
(* no stage twice and none in another database: whatever failed, was       *)
(* killed, went on by itself or was continued, and whoever used the demo   *)
(* ("refuses automatic reruns").                                           *)
InstalledAsPackaged ==
    /\ \A p \in Own :
          p.ends \in marks =>
             /\ IsPrefix(Packaged(p), base[p.on])
             /\ saved \in {Nothing, Fresh}
    /\ \A d \in Databases :
          base[d] # Nothing =>
             \A i, j \in DOMAIN base[d] :
                base[d][i] \in Changes /\ base[d][i] = base[d][j] => i = j
=============================================================================
