CONSTANTS
  dev = dev
  dev2 = dev2
  can = can
  bad = bad
  r1 = r1
  r2 = r2
  r3 = r3
  DeviceId = {dev, dev2, can, bad}
  NilDevice = {can}
  Unknown = {bad}
  ParamFaults <- MCParamFaults
  TaskId = {"a", "b"}
  Run = {r1, r2}
  ChanCap = 1
  None = None
  TaskOf <- MCTaskOf
  Models <- MCModels
SPECIFICATION ProgramSpec
INVARIANT
  StopNeverPanics
CHECK_DEADLOCK FALSE
