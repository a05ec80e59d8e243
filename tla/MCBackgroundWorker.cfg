CONSTANTS
  Jobs = {j1, j2}
  MaxRetries = 1
  MaxQueueSize = 2
  Delays = {0, 4}
  Epoch = 2
  BaseDelay = 1
  MaxDelay = 2
  MaxConcurrency = 2
SPECIFICATION FairSpec
INVARIANTS
  NoJobLost
PROPERTIES
  ImplementsLifecycle
  JobsSettle
