CONSTANTS
  Task = {t1, bad}
  Refused = {bad}
  Poller = {po}
  CtrlCap = 1
  PollCap = 1
  Devices <- MCTwoDevices
  Target <- MCTarget
  Points <- MCMorePoints
  Ungroupable = {}
  NoTask = NoTask
  d1 = d1
  d2 = d2
  t1 = t1
SPECIFICATION FairSpec
INVARIANTS
  BusTypeOK
  AtMostOneOvertakes
  AtMostOneLatePoll
  PanicHasCause
PROPERTIES
  ImplementsService
  ReadsFirstRegisters
  StopReturns
  ServedUnlessStopped
CHECK_DEADLOCK FALSE
