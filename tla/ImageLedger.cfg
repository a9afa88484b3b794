SPECIFICATION FairSpec
CONSTANTS
  product = product  variant = variant
  Jobs <- MCJobs
  Source <- MCSource
  HalfRound = {variant}
  MaxAttempts = 2
  ReviewWindow = 2
  ErrorsInARow = 2
  None = None
  MaxFaults = 1
  MaxRefusals = 2
INVARIANTS RefusedIsNotAccepted BudgetIsBounded
PROPERTIES StaleIsRequeued RenderedIsReviewed
