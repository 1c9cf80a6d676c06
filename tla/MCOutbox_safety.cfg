SPECIFICATION Spec
CONSTANTS
  Event = {e1, e2, e3}
  Instance = {i1, i2}
  BatchSize = 2
  KeepCompleted = 2
  MaxFaults = 1
  MaxCrashes = 1
SYMMETRY Symmetry
CHECK_DEADLOCK FALSE
INVARIANTS TypeOK PublishedWasForwarded ForwardedOncePerFault DedupedWhileKept CausalOrder
PROPERTIES PublishedNotForwardedAgain DeliverySafety
