SPECIFICATION Spec
CONSTANTS
  Conns = {c1, c2, c3}
  ClientIds = {0, 1, 2}
  MaxClients = 2
  DoIds = {d1, d2}
  Zones = {z1}
  NoClient = NoClient
  NoId = NoId
SYMMETRY Symmetry
INVARIANTS CountExact IdsExclusive OwnerTablesAgree InterestIndexed
PROPERTY KeepsRoster
CHECK_DEADLOCK FALSE
