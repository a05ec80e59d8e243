CONSTANTS
  Calls = {c1, c2, c3}
  Errors <- MCErrors
  FailureThreshold = 2
  RecoveryTimeout = 2
  MaxRetries = 1
  BaseDelay = 1
  MaxDelay = 1
  MaxElapsed = 2
  Horizon = 2
SPECIFICATION FairSpec
INVARIANTS
  HalfOpenAfterRecovery
PROPERTIES
  CallsReturn
