----------------------------- MODULE MCPilotRun -----------------------------
(* Two runners over two cases, which are interchangeable. *)
EXTENDS PilotRun, TLC
Interchangeable == Permutations(Runners) \cup Permutations(Cases)
=============================================================================
