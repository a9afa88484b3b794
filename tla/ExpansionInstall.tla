-------------------------- MODULE ExpansionInstall --------------------------
(***************************************************************************)
(* The installation of the expanded catalog in the two existing shops, by  *)
(* one coordinator (finish_expansion_project.py): the local shop first,    *)
(* then the remote one over ssh.  In each, a snapshot is taken, a delta is *)
(* planned from it, the database and the catalog rows are copied, and the  *)
(* native import runs batch by batch; then the result is compared with     *)
(* the first snapshot.  On success and on failure an inverse is made from  *)
(* the catalog rows before and after.  Nothing is ever retried blindly: a  *)
(* person reconciles what a failed run applied, resumes its last pictures, *)
(* or restores the rows.                                                   *)
(*                                                                         *)
(* The shops stay open: customers order and staff edits products meanwhile.*)
(* The coordinator may be killed while an import goes on without it, and   *)
(* the ssh connection may be lost while the remote half goes on.           *)
(***************************************************************************)
EXTENDS Naturals, FiniteSets

CONSTANTS
    None,
    MaxFaults,  \* bound: failing steps, deaths, lost connections
    Bought,     \* bound: the products that customers order
    MaxShop     \* bound: orders and edits in the shops

ASSUME InstallBounds == MaxFaults \in Nat /\ MaxShop \in Nat

VARIABLES
    rows,      \* rows[s]: the parts of the catalog that are installed
    ordered,   \* ordered[s]: the products that customers ordered (protected)
    edited,    \* edited[s]: how often staff edited products or stock
    coord,     \* the coordinator
    native,    \* native[s]: the receipts of the last native import
    inverse,   \* inverse[s]: the pairs of journals to go back by
    receipt,   \* the reconciliation a person made, or None
    accepted,  \* accepted[s]: the snapshots compared, or None
    first,     \* first[s]: the snapshot before the first import
    stray,     \* stray[s]: what a process without its coordinator imports
    times,     \* times[s][r]: how often r was imported since it was absent
    lost,      \* lost[s]: a coordinator was killed, a process outlived it, or
               \* no inverse could be made
    said,      \* the state that state.json ends in
    faults,
    visits     \* orders and edits so far

shops == <<rows, ordered, edited, visits>>
evidence == <<inverse, receipt, accepted, first>>
ghosts == <<times, lost>>
installVars == <<shops, coord, native, evidence, stray, ghosts, said,
                 faults>>

Stores == {"local", "remote"}

(* New products come in two batches, then the retained ones are updated,   *)
(* then pictures are assigned.  A failing batch may be there or not.        *)
Batch == <<{"x"}, {"y"}, {"old"}, {"pic"}>>
New == Batch[1] \cup Batch[2]
Rows == UNION {Batch[i] : i \in 1 .. 4}

Off == [at |-> "off", store |-> "local", resume |-> None, plan |-> Batch,
        i |-> 0, base |-> None, journal |-> None, ok |-> FALSE]

InstallInit ==
    /\ rows = [s \in Stores |-> {}]
    /\ ordered = [s \in Stores |-> {}] /\ edited = [s \in Stores |-> 0]
    /\ coord = Off
    /\ native = [s \in Stores |-> None]
    /\ inverse = [s \in Stores |-> {}]
    /\ receipt = None
    /\ accepted = [s \in Stores |-> None] /\ first = [s \in Stores |-> None]
    /\ stray = [s \in Stores |-> {}]
    /\ times = [s \in Stores |-> [r \in New |-> 0]]
    /\ lost = [s \in Stores |-> "none"]
    /\ said = "none"
    /\ faults = 0 /\ visits = 0

(* What a snapshot sees of a shop: which products it has, and the data     *)
(* that must not change.  Contents of products of this catalog it does not *)
(* see.                                                                    *)
Snapshot(s) == [have |-> rows[s] \cap New, ordered |-> ordered[s]]

(* What a journal sees: every catalog row, and the protected data.         *)
Journal(s) == [rows |-> rows[s], edited |-> edited[s], ordered |-> ordered[s]]

\* Mutant: only the products are compared, not what must not change.
ComparesProducts(before, after) == before.have \subseteq after.have

(* The comparison of two snapshots of a shop.                              *)
Kept(before, after) == before.ordered = after.ordered

Here == coord.store
At(place) == coord.at = place
Goes(place) == coord' = [coord EXCEPT !.at = place]
Stops(word) == coord' = Off /\ said' = word

Fault == faults < MaxFaults /\ faults' = faults + 1

Imports(s, some) ==
    /\ rows' = [rows EXCEPT ![s] = @ \cup some]
    /\ times' = [times EXCEPT ![s] =
          [r \in New |-> IF r \in some THEN @[r] + 1 ELSE @[r]]]

----------------------------------------------------------------------------
(* Starting: the run is locked, and its output directory is new.           *)

Launch(resume) ==
    /\ At("off") /\ said # "complete"
    /\ coord' = [Off EXCEPT !.at = "stage", !.resume = resume]
    /\ said' = "installing"
    /\ accepted' = [s \in Stores |-> None]
    /\ UNCHANGED <<shops, native, inverse, receipt, first, stray,
                   ghosts, faults>>

(* A reconciliation is for the local shop alone.                           *)
Resume == IF Here = "local" THEN coord.resume ELSE None

(* The snapshot is what the plan must be made from: no addition yet, or    *)
(* exactly what the reconciliation found.                                  *)
Fits(s) ==
    LET now == Snapshot(s) IN
    /\ IF Resume = None THEN now.have = {}
       ELSE /\ now = Resume.current
            /\ Kept(Resume.origin, now)
            /\ Resume.required \subseteq now.have
            /\ now.have \subseteq Resume.allowed

\* Mutant: a reconciled plan has every new product.
PlanAgain(s) ==
    [i \in 1 .. 4 |-> IF Resume # None /\ Resume.tail /\ i < 4 THEN {}
                      ELSE Batch[i]]

(* What is there already is left out; a tail has only pictures.            *)
Plan(s) ==
    [i \in 1 .. 4 |-> IF Resume # None /\ Resume.tail /\ i < 4 THEN {}
                      ELSE Batch[i] \ (rows[s] \cap New)]

(* Module check, media, snapshot and plan.                                 *)
Stage ==
    /\ At("stage") /\ Fits(Here)
    /\ coord' = [coord EXCEPT !.at = "backup", !.base = Snapshot(Here),
                              !.plan = Plan(Here)]
    /\ first' = [first EXCEPT ![Here] =
                    IF Resume = None THEN Snapshot(Here) ELSE @]
    /\ UNCHANGED <<shops, native, inverse, receipt, accepted, stray,
                   ghosts, said, faults>>

(* The database, counted once more, and the catalog rows are copied.       *)
Counted == Cardinality(rows[Here] \cap New) = Cardinality(coord.base.have)

Backup ==
    /\ At("backup") /\ Counted
    /\ coord' = [coord EXCEPT !.at = "check", !.journal = Journal(Here)]
    /\ UNCHANGED <<shops, native, evidence, stray, ghosts, said, faults>>

Refuse ==
    /\ \/ At("stage") /\ ~Fits(Here)
       \/ At("backup") /\ ~Counted
    /\ Stops("attention")
    /\ UNCHANGED <<shops, native, evidence, stray, ghosts, faults>>

----------------------------------------------------------------------------
(* The native import.                                                      *)

Following(i) == {j \in i + 1 .. 4 : coord.plan[j] # {}}

Advances(i) ==
    coord' = IF Following(i) = {} THEN [coord EXCEPT !.at = "media", !.i = 0]
             ELSE [coord EXCEPT !.at = "validate",
                      !.i = CHOOSE j \in Following(i) :
                                \A k \in Following(i) : j <= k]

Receipts(s, state, phase) ==
    native' = [native EXCEPT ![s] =
        [state |-> state, i |-> coord.i, phase |-> phase,
         base |-> coord.base, fresh |-> Resume = None]]

(* The snapshot taken immediately before is the one planned from.          *)
Check ==
    /\ At("check")
    /\ IF Snapshot(Here) = coord.base
       THEN Advances(0) /\ Receipts(Here, "running", "preflight")
       ELSE Goes("inverse") /\ UNCHANGED native
    /\ UNCHANGED <<shops, evidence, stray, ghosts, said, faults>>

Validate ==
    /\ At("validate")
    /\ Goes("import")
    /\ UNCHANGED <<shops, native, evidence, stray, ghosts, said, faults>>

Import ==
    /\ At("import")
    /\ Imports(Here, coord.plan[coord.i])
    /\ Advances(coord.i)
    /\ IF Following(coord.i) = {} THEN Receipts(Here, "complete", "import")
       ELSE UNCHANGED native
    /\ UNCHANGED <<ordered, edited, visits, evidence, stray, lost,
                   said, faults>>

(* A batch fails in validation, with some of its products imported, or by  *)
(* a deadlock of the database with none.                                   *)
BatchFails ==
    /\ Fault
    /\ \/ /\ At("validate")
          /\ Receipts(Here, "failed", "validate")
          /\ UNCHANGED <<rows, times>>
       \/ /\ At("import")
          /\ \/ /\ Receipts(Here, "failed", "import")
                /\ \E some \in SUBSET coord.plan[coord.i] : Imports(Here, some)
             \/ /\ Receipts(Here, "failed", "deadlock")
                /\ UNCHANGED <<rows, times>>
    /\ Goes("inverse")
    /\ UNCHANGED <<ordered, edited, visits, evidence, stray, lost, said>>

(* Gallery, navigation and indexes.                                        *)
Curate ==
    /\ At("media")
    /\ Goes("verify")
    /\ UNCHANGED <<shops, native, evidence, stray,
                   ghosts, said, faults>>

(* Everything is compared with the snapshot before the first import.       *)
Origin == IF Resume = None THEN coord.base ELSE Resume.origin

Verify ==
    LET after == Snapshot(Here)
        ok == after.have = New /\ Kept(Origin, after)
    IN  /\ At("verify")
        /\ coord' = [coord EXCEPT !.at = "inverse", !.ok = ok]
        /\ accepted' = [accepted EXCEPT ![Here] = IF ok THEN after ELSE None]
        /\ UNCHANGED <<shops, native, inverse, receipt, first, stray,
                       ghosts, said, faults>>

(* A command fails: before the import nothing has been changed; from the   *)
(* import on, the inverse is made next.                                    *)
StepFails ==
    /\ Fault
    /\ \/ coord.at \in {"stage", "backup"} /\ Stops("attention")
       \/ /\ coord.at \in {"check", "media", "verify"}
          /\ Goes("inverse") /\ UNCHANGED said
    /\ UNCHANGED <<shops, native, evidence, stray, ghosts>>

\* Mutant: the inverse is made where the installation succeeds.
InverseOnSuccess ==
    /\ At("inverse")
    /\ inverse' = [inverse EXCEPT ![Here] =
                      IF coord.ok
                      THEN @ \cup {[before |-> coord.journal, after |-> Journal(Here)]}
                      ELSE @]
    /\ IF coord.ok THEN Goes("browser") /\ UNCHANGED said
       ELSE Stops("attention")
    /\ UNCHANGED <<shops, native, receipt, accepted, first, stray,
                   ghosts, faults>>

(* In any case the catalog rows are copied again and the inverse is made.  *)
Inverse ==
    /\ At("inverse")
    /\ inverse' = [inverse EXCEPT ![Here] =
                      @ \cup {[before |-> coord.journal, after |-> Journal(Here)]}]
    /\ IF coord.ok THEN Goes("browser") /\ UNCHANGED said
       ELSE Stops("attention")
    /\ UNCHANGED <<shops, native, receipt, accepted, first, stray,
                   ghosts, faults>>

(* Copying the rows, fetching the copy, building the inverse or staging it *)
(* may fail too, whether the installation succeeded or not: then there is  *)
(* no way back from this run.                                              *)
InverseFails ==
    /\ At("inverse")
    /\ Fault
    /\ lost' = [lost EXCEPT ![Here] =
                    IF coord.journal.rows = rows[Here] \/ @ # "none" THEN @
                    ELSE "no inverse"]
    /\ Stops("attention")
    /\ UNCHANGED <<shops, native, evidence, stray, times>>

(* The storefront is looked at; the next shop follows.                     *)
Browse ==
    /\ At("browser")
    /\ IF Here = "local"
       THEN /\ coord' = [Off EXCEPT !.at = "stage", !.store = "remote"]
            /\ UNCHANGED said
       ELSE Stops("complete")
    /\ UNCHANGED <<shops, native, evidence, stray, ghosts, faults>>

BrowseFails ==
    /\ At("browser")
    /\ Fault
    /\ Stops("attention")
    /\ UNCHANGED <<shops, native, evidence, stray, ghosts>>

----------------------------------------------------------------------------
(* Deaths and lost connections.                                            *)

(* What the importer has before it.  The local one is the coordinator, so  *)
(* that only the batch that Magento works on is left; the remote one is a  *)
(* process of its own, and goes on with all its batches.                   *)
GoesOn ==
    IF Here = "remote" THEN UNION {coord.plan[j] : j \in coord.i .. 4}
    ELSE coord.plan[coord.i]

Outlives ==
    /\ stray' = [stray EXCEPT ![Here] = GoesOn]
    /\ lost' = [lost EXCEPT ![Here] = "stray"]

(* A killed coordinator writes nothing more; the import it waits for ends  *)
(* by itself.                                                              *)
Kill ==
    /\ ~At("off")
    /\ Fault
    /\ IF At("import") \/ (At("validate") /\ Here = "remote") THEN Outlives
       ELSE /\ lost' = [lost EXCEPT ![Here] =
                            IF @ = "stray" THEN @ ELSE "killed"]
            /\ UNCHANGED stray
    /\ coord' = Off
    /\ UNCHANGED <<shops, native, evidence, times, said>>

(* To the coordinator a lost connection is a failed command; the importer  *)
(* at the other end goes on.                                               *)
Disconnect ==
    /\ At("validate") \/ At("import")
    /\ Here = "remote"
    /\ Fault
    /\ Outlives
    /\ Goes("inverse")
    /\ UNCHANGED <<shops, native, evidence, times, said>>

StrayImports(s) ==
    /\ \E some \in (SUBSET stray[s]) \ {{}} :
          /\ Imports(s, some)
          /\ stray' = [stray EXCEPT ![s] = @ \ some]
    /\ UNCHANGED <<ordered, edited, visits, coord, native, evidence,
                   lost, said, faults>>

----------------------------------------------------------------------------
(* What a person does after a run that needs attention.                    *)

Failed(s, phases) ==
    /\ native[s] # None
    /\ native[s].state = "failed" /\ native[s].phase \in phases

(* The new products that an original local run applied before it failed    *)
(* are reconciled from its receipts, plan and snapshot.                    *)
Reconcile ==
    LET now == Snapshot("local")
        i == native["local"].i
        whole == UNION {Batch[j] : j \in 1 .. i - 1}
    IN  /\ At("off")
        /\ Failed("local", {"import", "deadlock"}) /\ native["local"].fresh
        /\ i <= 2
        /\ now.have # {}
        /\ whole \subseteq now.have /\ now.have \subseteq whole \cup Batch[i]
        /\ Kept(native["local"].base, now)
        /\ receipt' = [tail |-> FALSE, origin |-> native["local"].base,
                       current |-> now, required |-> whole,
                       allowed |-> whole \cup Batch[i]]
        /\ UNCHANGED <<shops, coord, native, inverse, accepted, first,
                       stray, ghosts, said, faults>>

(* Only pictures are left of a run whose products are all verified.        *)
ResumeMedia ==
    LET now == Snapshot("local") IN
    /\ At("off")
    /\ Failed("local", {"validate", "deadlock"})
    /\ native["local"].i = 4
    /\ now.have = New /\ Kept(first["local"], now)
    /\ receipt' = [tail |-> TRUE, origin |-> first["local"], current |-> now,
                   required |-> New, allowed |-> New]
    /\ UNCHANGED <<shops, coord, native, inverse, accepted, first,
                   stray, ghosts, said, faults>>

\* Mutant: what was ordered during the import is not looked at.
MayRestoreLate(s, v) == Journal(s) = v.after

(* One serializable transaction, while no coordinator works: nothing may   *)
(* have been changed since the journal after the import, and no protected  *)
(* data since the one before.                                              *)
MayRestore(s, v) ==
    /\ v.before.ordered = v.after.ordered
    /\ Journal(s) = v.after

Restore(s) ==
    /\ At("off")
    /\ \E v \in inverse[s] :
          /\ MayRestore(s, v)
          /\ v.before # v.after
          /\ rows' = [rows EXCEPT ![s] = v.before.rows]
          /\ edited' = [edited EXCEPT ![s] = v.before.edited]
          /\ times' = [times EXCEPT ![s] =
                [r \in New |-> IF r \in v.before.rows THEN @[r] ELSE 0]]
    /\ UNCHANGED <<ordered, visits, coord, native, evidence, stray,
                   lost, said, faults>>

----------------------------------------------------------------------------
(* The shops' own life.                                                    *)

Visit == visits < MaxShop /\ visits' = visits + 1

Order(s, r) ==
    /\ Visit
    /\ r \in rows[s] \cup {"old"} /\ r \notin ordered[s]
    /\ ordered' = [ordered EXCEPT ![s] = @ \cup {r}]
    /\ UNCHANGED <<rows, edited, coord, native, evidence, stray,
                   ghosts, said, faults>>

EditProduct(s) ==
    /\ Visit
    /\ edited' = [edited EXCEPT ![s] = @ + 1]
    /\ UNCHANGED <<rows, ordered, coord, native, evidence, stray,
                   ghosts, said, faults>>

----------------------------------------------------------------------------

Coordinates ==
    \/ Stage \/ Backup \/ Refuse \/ Check \/ Validate \/ Import
    \/ Curate \/ Verify \/ Inverse \/ Browse

Launches == Launch(None) \/ (receipt # None /\ Launch(receipt))

InstallNext ==
    \/ Launches \/ Coordinates
    \/ BatchFails \/ StepFails \/ InverseFails \/ BrowseFails
    \/ Kill \/ Disconnect
    \/ Reconcile \/ ResumeMedia
    \/ \E s \in Stores :
          \/ StrayImports(s) \/ Restore(s)
          \/ EditProduct(s) \/ \E r \in Bought : Order(s, r)

InstallSpec == InstallInit /\ [][InstallNext]_installVars

(* The coordinator runs; whoever is asked to attend to it goes back by the *)
(* inverse and starts it again.                                            *)
Attends(s) == said = "attention" /\ Restore(s)
InstallFairness ==
    /\ WF_installVars(Coordinates) /\ SF_installVars(Launch(None))
    /\ \A s \in Stores : SF_installVars(Attends(s))
FairInstallSpec == InstallSpec /\ InstallFairness

----------------------------------------------------------------------------
(* Properties.                                                             *)

(* No restoration takes a product away that a customer ordered, whether    *)
(* during the import, between its journals or since                        *)
(* (restore_expansion_catalog.php, build_expansion_inverse.py).            *)
OrdersKeepTheirProducts ==
    \A s \in Stores : ordered[s] \cap New \subseteq rows[s]

(* Partial imports are never blindly retried: over all runs, resumptions   *)
(* and restorations, no new product is imported that is there already, apart*)
(* from shops where an import outlived its coordinator                     *)
(* (finish_expansion_project.py:5-6).                                      *)
ImportsOnce ==
    \A s \in Stores : lost[s] = "stray" \/ \A r \in New : times[s][r] <= 1

(* An accepted shop is compared with how it was before the first import,   *)
(* however many runs it took: no order came in between (compare(),         *)
(* verify_partial()).                                                      *)
AcceptedKeptTheShop ==
    \A s \in Stores :
        accepted[s] # None =>
            accepted[s].have = New /\ accepted[s].ordered = first[s].ordered

(* If nobody uses the shops meanwhile, the installation is completed, also *)
(* after any step that failed, with two exceptions: where a process is     *)
(* lost, and where the inverse itself cannot be made of rows that have     *)
(* changed (the finally clause of complete_store()).  Then the additions   *)
(* stay and every new run refuses them (prepare_expansion_update.py:35)    *)
(* until a person goes back another way.                                   *)
FinishesUndisturbed ==
    [](visits = 0 /\ \A s \in Stores : lost[s] = "none") => <>(said = "complete")
=============================================================================
