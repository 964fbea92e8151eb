SPECIFICATION PartsSpec
CONSTANTS
  Poll = {q1, q2, q3, q4}
  MaxLease = 1
  MaxCompletion = 2
  IdleLease = 2
  Grace = 1
  Windows = {1, 3}
  PollWaits = {1}
  Prompt = TRUE
  Socket = {s1, s2}
  WssFrame = {f1, f2}
  WssRequest = {r1}
  RequestOf <- OneRequest
  SignedAt <- SignedTogether
  Second = 2
  Skew = 0
  StampWindow = 1
  Ttl = 4
  MaxInflight = 2
  MaxTime = 5
  MaxBoot = 2
  Raw = {"m1", "m2"}
  Durable = {"d1"}
  Episode = {}
  SummaryFile = {}
  MaxRev = 2
  MaxGen = 2
  MaxRestore = 1
  MaxFault = 1
  Adapter = {"p1", "p2"}
  ToolCall = {"c1", "c2"}
  MaxConcurrent = 1
  MaxLaunch = 2
  Steps = 2
  MaxCalls = 4
  Reserve = 1
  MaxRetries = 3
  Headroom = 1
  MinWindow = 1
  StepTime = 4
  Cycle = 8
  Waits <- TwoPauses
  Hints = {0, 3}
  Reader = {"q1"}
  Capacity = 2
  EventLimit = 1
  MaxSleepRun = 2
  MaxPush = 3
  MaxCoordinatorBoot = 2
  Fact = {"f1", "f2"}
  MaxMsg = 2
  MaxRun = 3
  MaxLines = 1
  Budget = 1
  Package = {"p1", "p2"}
  Target = {"a", "b"}
  MaxGroupFault = 1
  MaxGroupOp = 2
  BootProcess = {"p1", "p2"}
  MaxMessage = 1
  MaxOlder = 1
  MaxBootDeath = 1
  Execution = {"e1"}
  Generation = {0, 1}
  Message = {"m1", "m2"}
  Spoken <- TwoSpoken
  Recent = 1
  Event = {"v1"}
  SinkWindow = 1
  SinkTtl = 1
  MaxCheckpoint = 2
  MaxCaptureFault = 1
  MaxCount = 2
  MaxSinkTime = 2
  Id = {1, 2, 3}
  Content = {"a"}
  Writer = {}
  Limit = 2
  Lists = {"all", "draft"}
  MaxClock = 2
  MaxVersion = 0
INVARIANTS TypeOK RunsAccounted DispatchedOnce ForgottenRowsGone PumpKeepsLease PagedOnce ExtractedOnce SummarizedOnce AllowanceKept OutboxIsOwned CapturedOnce
PROPERTIES ActivationHolds PagesKeepTheirWord InstallationStands BootConverges
CHECK_DEADLOCK FALSE
