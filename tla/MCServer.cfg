SPECIFICATION MCSpec
CONSTANTS
  Signals = {SIGTERM, SIGINT}
  Connections = {c1, c2}
  Jobs = {j1, j2}
  WorkerRegistered = TRUE
  Probes = {1, 2}
  Limit <- MCLimit
  Warn = 0
  Fail = 1
  StaleAfter = 1
  Deployments <- MCDeployments
  ProbeHorizon = 4
INVARIANTS
  CleanExit
PROPERTIES
  ShutdownEnds
  ProbesAnswered
CHECK_DEADLOCK FALSE
