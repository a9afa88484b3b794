SPECIFICATION FeedbackSpec
CONSTANTS
  Nothing = Nothing
  MaxTries = 2
  ExtraAttempts = 1
  Answers <- KeepOrNot
  MaxPictures = 3
  MaxDecisions = 2
  MaxSources = 2
  MaxDeaths = 1
CHECK_DEADLOCK FALSE
INVARIANTS CorrectedWithinBudget AcceptedIsWhatWasSeen
PROPERTIES KeepsStand
