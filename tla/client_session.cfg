SPECIFICATION FairSpec
CONSTANTS
  Zones = {z1}
  MaxConnects = 2
  MaxInFlight = 3
  MaxRequests = 2
INVARIANTS AuthAgrees OnePing
PROPERTIES CompleteMeansPresent AttemptEnds PingEnds
