SPECIFICATION Spec
CONSTANTS
  Deliveries <- MCDeliveries
  Paths <- MCPaths
  Replays <- MCReplays
  Kinds <- MCKinds
  MaxRetries = 2
  BaseDelay = 1
  MaxDelay = 1
  Timeout = 1
  Tolerances = {2, 4}
  JobRetries = 1
  BatchLimit = 2
  MaxFaults = 1
INVARIANTS
  OneOutcome
  
PROPERTIES
  ResolvedForGood
  DeliveriesEnd
CHECK_DEADLOCK FALSE
