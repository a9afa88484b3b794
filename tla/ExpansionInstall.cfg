SPECIFICATION FairInstallSpec
CONSTANTS
  None = None
  MaxFaults = 1
  MaxShop = 1
  Bought = {"y", "old"}
CHECK_DEADLOCK FALSE
INVARIANTS OrdersKeepTheirProducts ImportsOnce AcceptedKeptTheShop
PROPERTIES FinishesUndisturbed
