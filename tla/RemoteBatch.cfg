SPECIFICATION RemoteFairSpec
CONSTANTS
  product = product  variant = variant
  mini = mini  laptop = laptop
  Jobs = {product}
  Source <- MCSource
  HalfRound = {}
  MaxAttempts = 2
  ReviewWindow = 1
  ErrorsInARow = 2
  None = None
  MaxFaults = 0
  MaxRefusals = 1
  Workers = {mini, laptop}
  MaxBatches = 2
  MaxDeaths = 1
PROPERTIES FilesStay ReleasedByItsBatch BatchesMove
