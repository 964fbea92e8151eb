SPECIFICATION PartsSpec
CONSTANTS
  daemon = daemon  embedded = embedded  r1 = r1  r2 = r2
  Host <- TwoHosts
  Daemon <- OneDaemon
  Request <- TwoRequests
  NoHost = NoHost
  DrainLimit = 1  ReleaseBy = 2
  Crashes = TRUE
  MaxGen = 6  MaxReconnects = 2
  MaxFrame = 2  MaxAttempts = 1  Slots = 2  MaxRouteGen = 2  MaxStarts = 2  MaxLapses = 1
  DiskFaults = TRUE
INVARIANTS ServesUnderLease AcceptedKeepsResources StoppedHoldsNothing OneLiveSocket NothingStranded TakesFromDead
PROPERTIES HostStops ImplementsRoute NegotiateSettles FinishedNeverResent CallersAnswered LastAdopts
CHECK_DEADLOCK FALSE
