SPECIFICATION Spec
SYMMETRY Alike
CONSTANTS
  candidate = candidate  judgment = judgment
  pairwise = pairwise
  Runs = {r1, r2}
  Admins = {admin}
  Exporters = {x1, x2}
  Artifacts <- MCArtifacts
  Judgment = judgment
  Kinds <- MCKinds
  Partial = {partial}
  Inconclusive = {inconclusive}
  Winning = {w1, w2}
  None = None
  MaxWrites = 1
  MaxObjects = 4
INVARIANTS VerifiedRunsAgree FreshComparesOneIndex ProposalCarriesAcceptedEvidence
PROPERTIES AcceptedEvidenceFrozen
