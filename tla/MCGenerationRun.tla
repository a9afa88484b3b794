-------------------------- MODULE MCGenerationRun --------------------------
(* Two generators and two jobs; the liveness property rules out symmetry.  *)
EXTENDS GenerationRun
=============================================================================
