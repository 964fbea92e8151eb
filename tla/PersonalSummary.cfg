SPECIFICATION MemorySpec
CONSTANTS
  Raw = {"m1"}
  Durable = {}
  Episode = {}
  SummaryFile = {"a"}
  MaxRev = 1
  MaxGen = 0
  MaxRestore = 0
  MaxFault = 0
INVARIANTS SummariesForget
CHECK_DEADLOCK FALSE
