SPECIFICATION FairSpec
CONSTANTS
  Clients = {c1}
  DoIds = {d1}
  Zones = {z1}
  Fields = {f1, f2}
  Values = {v1, v2}
  NoClient = NoClient
  MaxFrames = 2
  MaxTick = 3
  MaxChannel = 3
INVARIANTS DeltaAccepted PipelineOrdered
PROPERTIES ImplementsImages EventuallyConsistent
CHECK_DEADLOCK FALSE
