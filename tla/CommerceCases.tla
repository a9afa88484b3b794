--------------------------- MODULE CommerceCases ---------------------------
(***************************************************************************)
(* Commerce scenarios in an enriched lab (run_commerce.py and              *)
(* commerce_case.php).  A driver takes the cases of a profile, all of them *)
(* or a pilot selection, one after the other.  The process of a case keeps *)
(* what it is going to change, changes it, looks, and sets it back; it     *)
(* outlives a driver that is killed.  The cases here change one product.   *)
(***************************************************************************)
EXTENDS Naturals, Sequences

CONSTANTS
    Scenarios,   \* the cases, in order
    Pilot,       \* those of the pilot selection, the first of each kind
    NoCase,
    MaxMishaps   \* bound: drivers killed, cases that fail or die

VARIABLES
    product,  \* the cases whose changes the product carries
    before,   \* before[c]: what c keeps of the product; NoCase if nothing
    process,  \* process[c]: "none", "kept", "changed", "restored", "over"
    opened,   \* the cases that have a log
    receipt,  \* receipt[c]: "none", "passed" or "failed"
    driver,   \* [left, waits]: the cases to do, and whether it waits
    passed,   \* whether the last run over all cases said "passed"
    mishaps

caseVars == <<product, before, process, opened, receipt, driver, passed,
              mishaps>>

Cases == {Scenarios[i] : i \in DOMAIN Scenarios}
ASSUME CaseBounds ==
    MaxMishaps \in Nat /\ Scenarios \in Seq(Cases) /\ Pilot \in Seq(Cases)

NoDriver == [left |-> <<>>, waits |-> FALSE, all |-> FALSE, on |-> FALSE]

CaseInit ==
    /\ product = {}
    /\ before = [c \in Cases |-> NoCase]
    /\ process = [c \in Cases |-> "none"]
    /\ opened = {}
    /\ receipt = [c \in Cases |-> "none"]
    /\ driver = NoDriver
    /\ passed = FALSE
    /\ mishaps = 0

Mishap == mishaps < MaxMishaps /\ mishaps' = mishaps + 1
Driving == driver.on
Case == Head(driver.left)

Drive ==
    /\ ~Driving
    /\ \/ driver' = [left |-> Scenarios, waits |-> FALSE, all |-> TRUE,
                     on |-> TRUE]
       \/ driver' = [left |-> Pilot, waits |-> FALSE, all |-> FALSE,
                     on |-> TRUE]
    /\ UNCHANGED <<product, before, process, opened, receipt, passed, mishaps>>

AtCase == Driving /\ ~driver.waits /\ driver.left # <<>>

\* Mutant: a case that has a receipt is done.
HasReceipt(c) == receipt[c] # "none"

(* A case that passed and was set back is not done again.                  *)
Resolved(c) == receipt[c] = "passed"

SkipCase ==
    /\ AtCase /\ Resolved(Case)
    /\ driver' = [driver EXCEPT !.left = Tail(@)]
    /\ UNCHANGED <<product, before, process, opened, receipt, passed, mishaps>>

(* Another receipt, or a log without one, ends the run.                    *)
Unresolved ==
    /\ AtCase /\ ~Resolved(Case)
    /\ receipt[Case] # "none" \/ Case \in opened
    /\ driver' = NoDriver
    /\ UNCHANGED <<product, before, process, opened, receipt, passed, mishaps>>

StartCase ==
    /\ AtCase /\ ~Resolved(Case)
    /\ receipt[Case] = "none" /\ Case \notin opened
    /\ opened' = opened \cup {Case}
    /\ driver' = [driver EXCEPT !.waits = TRUE]
    /\ before' = [before EXCEPT ![Case] = product]
    /\ process' = [process EXCEPT ![Case] = "kept"]
    /\ UNCHANGED <<product, receipt, passed, mishaps>>

(* The process of a case.  What a failing check finds, it sets back.       *)
ChangeProduct(c) ==
    /\ process[c] = "kept"
    /\ product' = product \cup {c}
    /\ process' = [process EXCEPT ![c] = "changed"]
    /\ UNCHANGED <<before, opened, receipt, driver, passed, mishaps>>

SetBack(c) ==
    /\ process[c] = "changed"
    /\ product' = before[c]
    /\ \/ process' = [process EXCEPT ![c] = "restored"] /\ UNCHANGED mishaps
       \/ process' = [process EXCEPT ![c] = "over"] /\ Mishap
    /\ UNCHANGED <<before, opened, receipt, driver, passed>>

(* It cannot set it back, or dies.                                         *)
CaseDies(c) ==
    /\ process[c] \in {"kept", "changed"}
    /\ Mishap
    /\ process' = [process EXCEPT ![c] = "over"]
    /\ UNCHANGED <<product, before, opened, receipt, driver, passed>>

(* Its report is its receipt.                                              *)
Report ==
    /\ Driving /\ driver.waits
    /\ process[Case] \in {"restored", "over"}
    /\ receipt' = [receipt EXCEPT
         ![Case] = IF process[Case] = "restored" THEN "passed" ELSE "failed"]
    /\ driver' = IF receipt'[Case] = "passed"
                 THEN [left |-> Tail(driver.left), waits |-> FALSE,
                       all |-> driver.all, on |-> TRUE]
                 ELSE NoDriver
    /\ UNCHANGED <<product, before, process, opened, passed, mishaps>>

AllPassed ==
    /\ Driving /\ driver.left = <<>>
    /\ passed' = (passed \/ driver.all)
    /\ driver' = NoDriver
    /\ UNCHANGED <<product, before, process, opened, receipt, mishaps>>

KillDriver ==
    /\ Driving
    /\ Mishap
    /\ driver' = NoDriver
    /\ UNCHANGED <<product, before, process, opened, receipt, passed>>

CaseNext ==
    \/ Drive \/ SkipCase \/ Unresolved \/ StartCase \/ Report \/ AllPassed
    \/ KillDriver
    \/ \E c \in Cases : ChangeProduct(c) \/ SetBack(c) \/ CaseDies(c)

CaseSpec == CaseInit /\ [][CaseNext]_caseVars

----------------------------------------------------------------------------
(* Properties.                                                             *)

(* When a run over all the cases has passed, the product is as it was      *)
(* before the first of them, whatever runs, pilots, killed drivers and     *)
(* cases that died came one after another, and no case was left to be done *)
(* ("Serial, receipt-driven commerce scenarios").  One driver lives at a   *)
(* time, as the acceptance plan asks; run_commerce.py has no lock for it.  *)
PassedIsRestored == passed => product = {} /\ \A c \in Cases : receipt[c] = "passed"
=============================================================================
