SPECIFICATION MCSpec
CONSTANTS
  Jobs = {j1, j2, j3}
  Invoices = {i1, i2}
  NoJob = NoJob
  MaxRetries = 1
  MaxQueueSize = 2
  Delays = {1}
  Epoch = 1
  BaseDelay = 0
  MaxDelay = 2
  MaxConcurrency = 2
  MaxAttempts = 2
  Accounts = {alice, bob}
  Contract = pool
  Tokens = {usd, eur}
  Ids <- MCIds
  Amounts = {0, 1, 2, 3}
  FeeBps = {5000, 10001}
  Supply = 4
  I128Max = 14999
  NoOne = NoOne
SYMMETRY Symmetry
INVARIANTS
  NewestKept
  Solvent
PROPERTIES
  DeliveredOnce
CHECK_DEADLOCK FALSE
