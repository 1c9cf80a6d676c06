SPECIFICATION FairStreamSpec
CONSTANTS
  MaxNotif = 3
  Instances = 2
  Limit = 2
  PerMs = 2
  MaxBreaks = 1
  MaxGap = 1
CHECK_DEADLOCK FALSE
INVARIANTS StreamTypeOK CursorCovers
PROPERTIES EventuallyReceived
