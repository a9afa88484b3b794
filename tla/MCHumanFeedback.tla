---------------------------- MODULE MCHumanFeedback ----------------------------
(* A Redo changes nothing but the note that a correction may quote. *)
EXTENDS HumanFeedback
KeepOrNot == {"keep", "none"}
=============================================================================
