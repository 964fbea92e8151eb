SPECIFICATION FairSpec
CONSTANTS
  Week = 2
  Quarter = 3
  Gap = 2
  FirstDay = 3
  LastDay = 10
  MaxDaily = 2
  MaxForeign = 0
PROPERTIES GapsAdvance
CHECK_DEADLOCK FALSE
