------------------------- MODULE MCSnapshotSchedule -------------------------
(***************************************************************************)
(* A policy that runs at every time and one that runs at every second, as  *)
(* short beside the clock's bound as weeks are beside a year.              *)
(***************************************************************************)
EXTENDS SnapshotSchedule

CONSTANTS often, seldom

MCInterval == [p \in Policies |-> IF p = often THEN 1 ELSE 2]
MCRules == [p \in Policies |-> "rules"]
=============================================================================
