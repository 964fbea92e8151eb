SPECIFICATION Spec
CONSTANTS
  Order <- FourSteps
  Essential <- Essentials
  Prompted <- Prompts
  Retried <- OnlyDaily
  MaxMessage = 2  MaxRun = 2  Rounds = 1  MaxFault = 1
PROPERTIES ConsumedWasRead
CHECK_DEADLOCK FALSE
