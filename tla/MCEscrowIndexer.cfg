CONSTANTS
  n1 = n1
  n2 = n2
  a = a
  b = b
  ca = ca
  cz = cz
  None = None
  Nodes = {n1, n2}
  Invoices = {a, b}
  Contracts = {ca, cz}
  Stream <- MCStream
  EscrowMap <- MCMap
  BatchSize = 2
  PersistMayFail = FALSE
SPECIFICATION FairSpec

  
PROPERTIES
  EventsIndexed
