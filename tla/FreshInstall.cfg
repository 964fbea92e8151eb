SPECIFICATION BootSpec
CONSTANTS
  BootProcess = {"p1", "p2"}
  MaxMessage = 2
  MaxOlder = 1
  MaxBootDeath = 1
INVARIANTS FreshIsReady
CHECK_DEADLOCK FALSE
