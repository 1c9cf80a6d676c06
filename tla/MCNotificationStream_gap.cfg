SPECIFICATION StreamSpec
CONSTANTS
  MaxNotif = 2
  Instances = 1
  Limit = 2
  PerMs = 2
  MaxBreaks = 0
  MaxGap = 1
CHECK_DEADLOCK FALSE
INVARIANTS NothingMissed
