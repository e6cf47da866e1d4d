SPECIFICATION Spec
CONSTANTS
  Clients = {c1, c2}
  DoIds = {d1}
  Zones = {z1}
  Fields = {f1}
  Values = {v1, v2}
  NoClient = NoClient
  MaxFrames = 2
  MaxTick = 3
  MaxChannel = 2
SYMMETRY ClientSymmetry
CONSTRAINT OneAck
INVARIANT Converged
CHECK_DEADLOCK FALSE
