SPECIFICATION TxSpec
CONSTANTS
  Jobs = {j1, j2}
  MaxRetries = 0
  MaxQueueSize = 2
  Delays = {1}
  Epoch = 0
  BaseDelay = 2
  MaxDelay = 4
  MaxConcurrency = 1
  TxMaxRetries = 1
  MaxCrashes = 1
  MaxFaults = 1
INVARIANTS
  NothingForgotten
  OneCopy
PROPERTIES
  EndedStaysEnded
  SubmissionsSettle
