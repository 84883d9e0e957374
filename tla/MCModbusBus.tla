----------------------------- MODULE MCModbusBus -----------------------------
\* Instances of ModbusBus for TLC.
EXTENDS ModbusBus

CONSTANTS d1, d2, t1

Point(d, func, addr, num, rw) ==
  [dev |-> d, func |-> func, addr |-> addr, num |-> num, rw |-> rw]

\* Two regions of one func, with a register that can only be written between
\* them, and a point whose func BatchRead does not know; some points of two
\* registers. The writes go to the first of two devices.
MCOneDevice == <<d1>>
MCPoints ==
  {Point(d1, "hr", 1, 1, "r"), Point(d1, "hr", 2, 2, "rw"), Point(d1, "hr", 3, 1, "w"),
   Point(d1, "hr", 4, 2, "r"), Point(d1, "xx", 2, 1, "r")}

MCTwoDevices == <<d1, d2>>
MCMorePoints == MCPoints \cup {Point(d2, "co", 1, 1, "r")}

\* The points of example/bms.json, with an rw.
MCExamplePoints == {Point(d1, "hr", 0, 2, "r"), Point(d1, "hr", 2, 2, "r")}

MCTarget == [t \in Task |-> d1]

\* The addresses fit and leave a gap, as PollReadsFirstRegisters asks.
ASSUME PointsAssumption == AddressesFit /\ LeavesAGap
=============================================================================
