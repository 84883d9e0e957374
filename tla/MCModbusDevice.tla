--------------------------- MODULE MCModbusDevice ---------------------------
\* Instances of ModbusDevice for TLC.
EXTENDS ModbusDevice, TLC

CONSTANTS t1, t2, k1

\* A point whose rw is not given, and one that may only be written; Collect
\* reads both of them.
PathPoints == <<[name |-> "volt", rw |-> ""], [name |-> "mode", rw |-> "w"]>>

\* Two points for the goroutines of a parallel collection, and one it skips.
ParallelPoints ==
  <<[name |-> "volt", rw |-> ""], [name |-> "mode", rw |-> "w"], [name |-> "temp", rw |-> "r"]>>

\* Writes to both ends of a scan of PathPoints.
MCTarget == t1 :> "volt" @@ t2 :> "mode" @@ k1 :> "mode"

\* The same for a device that is given one queued write.
ParallelTarget == t1 :> "volt" @@ k1 :> "mode"
=============================================================================
