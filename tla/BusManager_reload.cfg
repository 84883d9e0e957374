CONSTANTS
  d1 = d1
  d2 = d2
  x = x
  bus1 = bus1
  bus2 = bus2
  watcher = watcher
  test = test
  p1 = p1
  p2 = p2
  p3 = p3
  p4 = p4
  p5 = p5
  Pipeline = {p1, p2, p3, p4}
  Parser = {"w1"}
  Device <- MCDevice
  Name = {"d1", "d2", "x"}
  DeviceName <- MCDeviceName
  IntervalMs <- MCInterval
  DefaultInterval = 1
  RawCap = 1
  DeviceList <- MCDeviceList
  MaxTime = 0
  NoResult = NoResult
  BusId = {bus1, bus2}
  DeviceBus <- MCDeviceBus
  AdapterKnown <- MCAdapterKnown
  Config <- MCConfig
  Torn = Torn
  Watcher = watcher
  Direct = {test}
  NameMatches = TRUE
  NoWorker = NoWorker
  NoOne = NoOne
  MaxWrites = 1
  MaxCalls = 1
  MaxEvents = 1
SPECIFICATION FairManagerSpec
INVARIANTS
  ManagerTypeOK
  StopOwnership
  OneLiveWorkerPerBus
  NoMixture
  PanicOnlyAfterShutdown
PROPERTIES
  Converges
  CollectSpec
CHECK_DEADLOCK FALSE
