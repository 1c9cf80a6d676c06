SPECIFICATION FairSpec
CONSTANTS
  Event = {e1, e2}
  Instance = {i1}
  BatchSize = 1
  KeepCompleted = 1
  MaxFaults = 2
  MaxCrashes = 1
CHECK_DEADLOCK FALSE
PROPERTIES DeliverySpec
