\* Two requests; a placeholder is an orphan after more than one tick and
\* expires after two.
CONSTANTS
  r1 = r1
  r2 = r2
  k1 = k1
  NoKey = NoKey
  Earlier = Earlier
  Requests = {r1, r2}
  RawStatuses <- MCRaw
  CacheTtl = 1
  MaxTime = 3
  MaxDecisions = 1
  MaxFaults = 1
  Sends <- MCSends
  Orphan = 1
  TtlHours = 2
  RawBatchSize = 1
  RawMaxBatches = 1
  Kind <- MCKind
  InvoiceOf <- MCInvoiceOf
  EscrowMaps <- MCEscrowMaps
  Env = "production"
  HoldAdapter = TRUE
  Modes = {"custodial", "delegated", "stubbed"}
  MaxHolds = 1
  MaxCrashes = 1
SPECIFICATION MCSpec
INVARIANTS SpacedRuns FundsGuarded 
PROPERTY RequestsAnswered
CHECK_DEADLOCK FALSE
