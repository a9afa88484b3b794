SPECIFICATION DeliverySpec
CONSTANTS
  Chain <- Pipeline
  Watched <- Files
  None = None
  MaxEdits = 2
  MaxDeaths = 1
  direct = direct
  assets = assets
  Clients = {direct, assets}
  GitHub = {assets}
  Nobody = Nobody
  Size = 2
  Attempts = 2
  MaxTrouble = 2
  Nothing = Nothing
  MaxFaults = 2
  MaxUses = 1
  Scenarios <- ThreeCases
  Pilot <- OneOfEachKind
  NoCase = NoCase
  MaxMishaps = 2
CHECK_DEADLOCK FALSE
INVARIANTS EvidenceIsOneVersion InstalledAsPackaged PassedIsRestored
PROPERTIES DeathLeavesNothingInTheWay DownloadsFinish
