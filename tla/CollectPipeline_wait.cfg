CONSTANTS
  fast = fast
  slow = slow
  twin = twin
  busA = busA
  busB = busB
  w1 = w1
  w2 = w2
  Pipeline = {busA, busB}
  Parser = {w1, w2}
  Device <- MCDevice
  Name = {"fast", "slow", "twin"}
  DeviceName <- UniqueNames
  IntervalMs <- MCInterval
  DefaultInterval = 2
  RawCap = 1
  DeviceList <- MixedLists
  MaxTime = 2
  NoResult = NoResult
SPECIFICATION Spec
INVARIANT
  WaitMeansDrained
CHECK_DEADLOCK FALSE
