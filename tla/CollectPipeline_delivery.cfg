CONSTANTS
  fast = fast
  slow = slow
  twin = twin
  busA = busA
  busB = busB
  w1 = w1
  w2 = w2
  Pipeline = {busA}
  Parser = {w1, w2}
  Device <- MCDevice
  Name = {"fast", "slow", "twin"}
  DeviceName <- UniqueNames
  IntervalMs <- MCInterval
  DefaultInterval = 2
  RawCap = 2
  DeviceList <- LongLists
  MaxTime = 4
  NoResult = NoResult
SPECIFICATION FairSpec
INVARIANTS
  TypeOK
  ExactlyOnce
  BoundedOvertaking
  RateLimit
  RoundServesEveryDevice
PROPERTIES
  StopLeadsToExit
  SentLeadsToHandled
CHECK_DEADLOCK FALSE
