SPECIFICATION FairSpec
CONSTANTS
  MaxEvent = 3
  Poll = {p1, p2}
  Batch = 2
  PerMs = 2
  MaxStep = 1
  MaxFaults = 1
INVARIANTS TypeOK PassedWasBroadcast
PROPERTIES EventuallyBroadcast
