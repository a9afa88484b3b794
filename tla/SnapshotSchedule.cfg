SPECIFICATION FairSpec
CHECK_DEADLOCK FALSE
CONSTANTS
  often = often  seldom = seldom
  Stores = {store}
  Workers = {w1, w2}
  Policies = {often, seldom}
  Interval <- MCInterval
  Rules <- MCRules
  FirstRuns = {1}
  DueLimit = 2
  None = None
  MaxClock = 2
  MaxSource = 1
  MaxFaults = 1
PROPERTIES NextRunNeverGoesBack DueIsPrepared
