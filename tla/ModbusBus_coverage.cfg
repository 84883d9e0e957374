CONSTANTS
  Task = {t1, bad}
  Refused = {bad}
  Poller = {po}
  CtrlCap = 1
  PollCap = 1
  Devices <- MCOneDevice
  Target <- MCTarget
  Points <- MCExamplePoints
  Ungroupable = {}
  NoTask = NoTask
  d1 = d1
  d2 = d2
  t1 = t1
SPECIFICATION Spec
PROPERTY
  BatchCoversPoints
CHECK_DEADLOCK FALSE
