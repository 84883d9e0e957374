----------------------------- MODULE MCCollector -----------------------------
\* Instances of CollectorMain for TLC.
EXTENDS CollectorMain, TLC

CONSTANTS
  dev, dev2, \* Modbus devices
  can, bad,  \* a protocol without an implementation, and an unknown one
  r1, r2, r3 \* runs

MCTaskOf == dev :> "a" @@ dev2 :> "b" @@ can :> "a" @@ bad :> "a"

\* No device, or one of two, whose host or port is missing.
MCParamFaults == {{}, {dev2}}

\* A point whose RegNum is wrong in the file, as validatePoints expects.
P(addr, dataType, regType, readOnly, swap) ==
  [addr |-> addr, num |-> 9, dataType |-> dataType, regType |-> regType,
   readOnly |-> readOnly, swap |-> swap]

\* Points that follow on each other up to one with other properties; points
\* with one address, which may be sorted in any order; points that overlap, and
\* the end of the address space.
MCModels ==
  { <<>>,
    <<P(3, "float64", "hr", TRUE, "ab"), P(1, "float32", "hr", TRUE, "ab"),
      P(0, "uint16", "hr", TRUE, "ab"), P(7, "uint16", "hr", FALSE, "ab")>>,
    <<P(0, "int16", "co", TRUE, "ab"), P(0, "int16", "hr", TRUE, "ab"),
      P(1, "int16", "hr", TRUE, "ba"), P(1, "int16", "co", TRUE, "ab")>>,
    <<P(2, "uint32", "hr", TRUE, "ab"), P(3, "uint16", "hr", TRUE, "ab"),
      P(4, "uint16", "hr", TRUE, "ab"), P(65534, "uint32", "hr", TRUE, "ab")>> }

\* The models leave a register free, as GroupsReadExactly asks.
ASSUME FreeRegisterAssumption == LeavesARegister
=============================================================================
