SPECIFICATION FairSpec
CONSTANTS
  p1 = p1  p2 = p2  p3 = p3  p4 = p4
  Proc <- TwoProcs
  Absent = Absent  Empty = Empty
  CrashAt <- Anywhere
  Unverifiable = FALSE
PROPERTIES AdoptsOwner
CHECK_DEADLOCK FALSE
