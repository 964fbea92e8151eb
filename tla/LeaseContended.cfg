SPECIFICATION Spec
CONSTANTS
  p1 = p1  p2 = p2  p3 = p3  p4 = p4
  Proc <- FourProcs
  Absent = Absent  Empty = Empty
  CrashAt <- Serving
  Unverifiable = FALSE
SYMMETRY FourAlike
INVARIANTS Exclusive
CHECK_DEADLOCK FALSE
