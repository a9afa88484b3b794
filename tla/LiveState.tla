------------------------------ MODULE LiveState ------------------------------
(***************************************************************************)
(* What the workbench promises of live search, store by store: a store     *)
(* serves one configuration, applying a candidate replaces it, and undo    *)
(* exchanges it with the one it replaced.  Nothing here knows of events,   *)
(* pointers, row locks or requests; LiveActivation implements it.          *)
(***************************************************************************)
CONSTANTS StoreView,      \* customer store views
          Configuration,  \* the effective configurations candidates stand for
          StockSearch     \* unmodified Mage-OS search

ASSUME StockAssumption == StockSearch \notin Configuration

VARIABLES serving,   \* what each store's quick search uses
          replaced,  \* what it used just before
          touched    \* the stores that ever had a candidate applied

liveVars == <<serving, replaced, touched>>

LiveInit ==
  /\ serving = [s \in StoreView |-> StockSearch]
  /\ replaced = [s \in StoreView |-> StockSearch]
  /\ touched = {}

\* A candidate takes over; applying the one already serving is refused.
Apply(s, c) ==
  /\ serving[s] # c
  /\ serving' = [serving EXCEPT ![s] = c]
  /\ replaced' = [replaced EXCEPT ![s] = serving[s]]
  /\ touched' = touched \cup {s}

\* Rollback restores what was replaced, and remembers what it took away.
Undo(s) ==
  /\ s \in touched
  /\ serving' = [serving EXCEPT ![s] = replaced[s]]
  /\ replaced' = [replaced EXCEPT ![s] = serving[s]]
  /\ UNCHANGED touched

LiveNext == \E s \in StoreView : Undo(s) \/ \E c \in Configuration : Apply(s, c)

LiveSpec == LiveInit /\ [][LiveNext]_liveVars
=============================================================================
