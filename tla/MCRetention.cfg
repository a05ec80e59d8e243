SPECIFICATION MCSpec
CONSTANTS
  None = None
  Invoices <- MCInvoices
  Fields <- MCFields
  Policies <- MCPolicies
  Existing <- MCExisting
  Calls = {c1, c2}
  Holds = {h1, h2}
  HoldOn <- MCHoldOn
  Requests <- MCRequests
  Age <- MCAge
  RetentionDays <- MCRetentionDays
  PiiFields <- MCPiiFields
  BatchSize = 1
  MaxFaults = 1
  w1 = w1
  w2 = w2
  AdminRequests = {w1, w2, w3}
  AdminTenants = {"own", "other"}
  PolicyNames = {"n1"}
  HeldBy <- HeldByMC
  Nothing = Nothing
SYMMETRY Symmetry
INVARIANTS
  TrailFaithful
  DuplicatesOverlap
PROPERTIES
  HoldRespected
CHECK_DEADLOCK FALSE
