-------------------------- MODULE MCLiveActivation --------------------------
(***************************************************************************)
(* Two stores; two candidates of the first, with the same boosts over      *)
(* different captures of the index (a candidate compiled again after a     *)
(* reindex); one candidate of the second.  The last experiment recorded    *)
(* inputs that no longer match what is persisted.                          *)
(***************************************************************************)
EXTENDS LiveActivation, TLC

CONSTANTS s1, s2, e1, e2, e3, e4, c1, c2, c3, v1, v2, b1, b2

MCInputs ==
  e1 :> [store |-> s1, candidate |-> c1, evidence |-> v1] @@
  e2 :> [store |-> s1, candidate |-> c2, evidence |-> v2] @@
  e3 :> [store |-> s2, candidate |-> c3, evidence |-> v1] @@
  e4 :> [store |-> s1, candidate |-> c3, evidence |-> v1]

MCConfig ==
  c1 :> [store |-> s1, evidence |-> v1, boosts |-> b1] @@
  c2 :> [store |-> s1, evidence |-> v2, boosts |-> b1] @@
  c3 :> [store |-> s2, evidence |-> v1, boosts |-> b2]
=============================================================================
