SPECIFICATION PartsSpec
CONSTANTS
  Call = {c1, c2, c3}
  Key = {k1}
  Body = {b1, b2}
  NoCall = NoCall
  NoBody = NoBody
  MaxStarts = 3
  RetainCap = 1
  Poll = {q1, q2}
  MaxLease = 2
  MaxCompletion = 2
  IdleLease = 2
  Grace = 1
  Windows = {3}
  PollWaits = {0, 1}
  Prompt = FALSE
  SecretKey = {1, 2, 3}
  SecretRow = {"r1"}
  File = {"f1"}
  Kinds = {"passwd"}
  Together = FALSE
  MaxGeneration = 3
  MaxFault = 2
  Id = {1}
  Content = {"a", "b"}
  Writer = {"w1", "w2"}
  Limit = 1
  Lists = {}
  MaxClock = 1
  MaxVersion = 4
  LocalCall = {"c1", "c2"}
  MaxGen = 2
  MaxAttempts = 2
  MaxInflight = 1
  MaxRestart = 1
  Pair = {"p1"}
  OwnerOf <- OneOwner
  DeliveryKey = {"k1", "k2"}
  Life = 2
  Retention = 3
  Cap = 1
  MaxRow = 3
  MaxRev = 2
  MaxDay = 4
INVARIANTS AtMostOnce AnswersAgree PairedOnce KeyOpensAll NothingOverwritten ReconnectsOnce AskedOnce
PROPERTIES KeepsPromise JoinersAnswered WaitsEnd
CHECK_DEADLOCK FALSE
