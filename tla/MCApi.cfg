SPECIFICATION MCSpec
CHECK_DEADLOCK FALSE
CONSTANTS
  c1 = c1
  c2 = c2
  f1 = f1
  f2 = f2
  w1 = w1
  w2 = w2
  k1 = k1
  k2 = k2
  u1 = u1
  ip1 = ip1
  ip2 = ip2
  o1 = o1
  o2 = o2
  Clients = {c1, c2}
  Rows = {1, 2, 3, 4}
  TenantOf <- TenantOfMC
  SortValues = {1, 2}
  PageLimit = 2
  CursorTtl = 1
  Principals <- PrincipalsMC
  Funders = {f1, f2}
  LockInvoices = {i1}
  LockLimit = 1
  ResponseTtl = 0
  MaxEntries = 2
  NoValue = NoValue
  Malformed = Malformed
  ListHorizon = 1
  MaxEdits = 1
  Writes = {w1, w2}
  Tenants = {"own", "other"}
  Statuses = {"pending", "verified", "rejected", "funded"}
  LockedStatuses = {"verified", "funded"}
  ValidMoves <- ValidMovesMC
  FirstStatus = "pending"
  Arrivals = {w1, w2, w3, w4}
  Origins = {o1, o2}
  DevOrigins = {o2}
  Environments <- EnvironmentsMC
  JsonLimit = 2
  FormLimit = 1
  InvoiceLimit = 3
  Sizes = {1, 2, 3, 4}
  Users = {u1}
  Keys = {k1, k2}
  Registries <- RegistriesMC
  Addresses = {ip1, ip2}
  SensitiveMax = 2
  SensitiveWindow = 2
  Absent = Absent
  GateHorizon = 3
  Mutations = {w1, w2}
  PageCap = 2
  AskedLimit = 3
INVARIANTS
  
  ServedInScope
  RateBounded
  HandlersGuarded
  TrailReadWhole

  
