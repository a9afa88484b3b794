--------------------------- MODULE MCExperimentRun ---------------------------
(***************************************************************************)
(* One slot of each sort: an artifact that is complete at once, the        *)
(* judgment that is imported in the background, an experiment.             *)
(***************************************************************************)
EXTENDS ExperimentRun, TLC

CONSTANTS candidate, judgment, pairwise

MCArtifacts == <<candidate, judgment>>
MCKinds == <<pairwise>>

\* Runs are alike, and so are exports and winning comparisons: swapping them
\* changes nothing.
Alike ==
    Permutations(Runs) \cup Permutations(Exporters) \cup Permutations(Winning)
=============================================================================
