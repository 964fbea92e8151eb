SPECIFICATION Spec
CONSTANTS
  Order <- FourSteps
  Essential <- Essentials
  Prompted <- Prompts
  Retried <- OnlyDaily
  MaxMessage = 2  MaxRun = 2  Rounds = 2  MaxFault = 1
INVARIANTS HolesHeld
PROPERTIES PrunedWasKept SettledByItsReview
CHECK_DEADLOCK FALSE
