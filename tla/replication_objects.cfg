SPECIFICATION Spec
CONSTANTS
  Clients = {c1}
  DoIds = {d1, d2}
  Zones = {z1, z2}
  Fields = {f1}
  Values = {v1, v2}
  NoClient = NoClient
  MaxFrames = 2
  MaxTick = 2
  MaxChannel = 3
SYMMETRY Symmetry
INVARIANT MessagesFit
CHECK_DEADLOCK FALSE
