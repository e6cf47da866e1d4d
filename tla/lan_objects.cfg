SPECIFICATION Spec
CONSTANTS
  c1 = c1
  c2 = c2
  Clients = {c1, c2}
  Number <- MCNumber
  DoIdRange = 3
  DoIds = {1, 2, 3, 4}
  Zones = {z1, z2}
  Cacheable = {1, 2}
  MaxCached = 1
  MaxOps = 4
SYMMETRY Symmetry
INVARIANTS TablesAgree OwnNeverDisabled NoGhosts ViewsComplete OwnerPlaced CacheApart
CHECK_DEADLOCK FALSE
