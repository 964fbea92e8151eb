SPECIFICATION ClientSpec
CONSTANTS
  MaxFrame = 2
  MaxAttempts = 2
  Slots = 2
  MaxRouteGen = 2
  MaxStarts = 2
  MaxLapses = 1
  DiskFaults = FALSE
INVARIANTS NoLostWakeup
CHECK_DEADLOCK FALSE
