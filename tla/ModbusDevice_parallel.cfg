CONSTANTS
  t1 = t1
  t2 = t2
  k1 = k1
  PointName = {"volt", "mode", "temp"}
  Points <- ParallelPoints
  Worker = writeWorker
  Collector = {c1}
  ParCaller = {p1}
  Controller = {k1}
  Task = {t1}
  Target <- ParallelTarget
  QueueCap = 1
  Nobody = Nobody
  NoTask = NoTask
  Initial = Initial
  Absent = Absent
  ReadError = ReadError
SPECIFICATION FairSpec
INVARIANTS
  ParallelComplete
  ReadersEndWithCall
PROPERTIES
  CallsReturn
