SPECIFICATION MCSpec
CONSTANTS
  FailureThreshold = 2
  RecoveryTimeout = 1
  Readers = {r1, r2}
  None = None
  MaxLedger = 2
  CacheTtl = 1
  OpTimeout = 1
  GapThreshold = 3
  ReadHorizon = 2
  Callers = {c1, c2, c3}
  Assets <- AssetsMC
  MetaTtl = 2
  MetaHorizon = 3
  NoMeta = NoMeta
  Ids = {1, 2, 3}
  LimitSize = 2
  Concurrency = 2
  MaxChanges = 2
  j1 = j1
  j2 = j2
  j3 = j3
  Runs = {j1, j2, j3}
  Invoices = {1, 2}
  MaxFunded = 1
  PageSize = 1
  MaxMoves = 2
  RunsLimit = 2
  Pending = Pending
  Refreshes = {1, 2, 3}
  Registry = {1, 3}
  Deployable = {2, 3, 4}
  Unlisted = Unlisted
  Simulations = {1, 2, 3, 4}
  FootKeys = {"k1", "k2", "k3"}
  FootSize = 2
  FootTtl = 0
  FootHorizon = 1
INVARIANTS
  MetadataWithinTtl
  
  NothingMissed
  StaleOnlyWithinTtl
  AlertPerOnset
  LeastRecentFirst
CHECK_DEADLOCK FALSE
