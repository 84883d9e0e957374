----------------------------- MODULE BatchGroups -----------------------------
(***************************************************************************)
(* cyc20250422/internal/config/config.go: determineBatchGroups, which puts *)
(* the points of a device model into groups of one kind that follow on     *)
(* each other, and the loop of LoadAllConfigs that calls it for every      *)
(* model and prints the groups.                                            *)
(*                                                                         *)
(* The groups have no limit but that of a uint16: neither here nor in the  *)
(* code does Modbus's limit of 125 registers or 2000 coils to a request    *)
(* occur.                                                                  *)
(*                                                                         *)
(* sort.Slice is not stable, so points with one address come in any order. *)
(* Names, units and scales of points are left out, and so are the files.   *)
(***************************************************************************)
EXTENDS Integers, Sequences, Functions

CONSTANT
  Models \* the Points of each model that is loaded: a set of sequences

UintSize == 65536
Uint16   == 0..(UintSize - 1)

\* num is RegNum.
Point == [addr : Uint16, num : Uint16, dataType : STRING, regType : STRING,
          readOnly : BOOLEAN, swap : STRING]
BatchGroup == [start : Uint16, count : Uint16, regType : STRING, readOnly : BOOLEAN,
               points : Seq(Point)]
NoGroup == [points |-> <<>>]

ASSUME ModelsAssumption == Models \subseteq Seq(Point)

VARIABLES
  models,  \* models whose points are still to be grouped
  sorted,  \* correctedPoints, sorted
  next,    \* the index of currentPoint
  current, \* currentGroup
  groups   \* batchGroups

groupVars == <<models, sorted, next, current, groups>>

GroupInit ==
  /\ models = Models
  /\ sorted = <<>>
  /\ next = 1
  /\ current = NoGroup
  /\ groups = <<>>

-----------------------------------------------------------------------------

getRegNumByDataType(dataType) ==
  CASE dataType \in {"float32", "int32", "uint32"} -> 2
    [] dataType \in {"float64", "int64", "uint64"} -> 4
    [] OTHER -> 1

validatePoints(points) ==
  [i \in DOMAIN points |->
     [points[i] EXCEPT !.num = getRegNumByDataType(points[i].dataType)]]

\* What sort.Slice may make of a sequence of points.
Sorted(points) ==
  {s \in {[i \in DOMAIN points |-> points[f[i]]] :
            f \in Bijection(DOMAIN points, DOMAIN points)} :
     \A i, j \in DOMAIN s : i < j => s[i].addr <= s[j].addr}

canBatchRead(p, q) ==
  /\ p.regType = q.regType
  /\ p.readOnly = q.readOnly
  /\ p.swap = q.swap
  /\ (p.addr + p.num) % UintSize = q.addr

GroupOf(p) ==
  [start |-> p.addr, count |-> p.num, regType |-> p.regType, readOnly |-> p.readOnly,
   points |-> <<p>>]

LastPoint(g) == g.points[Len(g.points)]

\* determineBatchGroups is called with the points of a model.
BeginGroups(points) ==
  /\ sorted = <<>>
  /\ points \in models
  /\ models' = models \ {points}
  /\ sorted' \in Sorted(validatePoints(points))
  /\ IF points = <<>> THEN UNCHANGED <<current, next>>
     ELSE current' = GroupOf(sorted'[1]) /\ next' = 2
  /\ UNCHANGED groups

\* Seeded bug: the group grows by one register, whatever the point takes.
ExtendGroup_ByOne ==
  /\ current # NoGroup
  /\ next <= Len(sorted)
  /\ canBatchRead(LastPoint(current), sorted[next])
  /\ current' = [current EXCEPT !.count = (@ + 1) % UintSize,
                                !.points = Append(@, sorted[next])]
  /\ next' = next + 1
  /\ UNCHANGED <<models, sorted, groups>>

ExtendGroup ==
  /\ current # NoGroup
  /\ next <= Len(sorted)
  /\ canBatchRead(LastPoint(current), sorted[next])
  /\ current' = [current EXCEPT !.count = (@ + sorted[next].num) % UintSize,
                                !.points = Append(@, sorted[next])]
  /\ next' = next + 1
  /\ UNCHANGED <<models, sorted, groups>>

NewGroup ==
  /\ current # NoGroup
  /\ next <= Len(sorted)
  /\ ~canBatchRead(LastPoint(current), sorted[next])
  /\ groups' = Append(groups, current)
  /\ current' = GroupOf(sorted[next])
  /\ next' = next + 1
  /\ UNCHANGED <<models, sorted>>

LastGroup ==
  /\ current # NoGroup
  /\ next > Len(sorted)
  /\ groups' = Append(groups, current)
  /\ current' = NoGroup
  /\ UNCHANGED <<models, sorted, next>>

\* The groups are printed and dropped.
PrintGroups ==
  /\ groups # <<>>
  /\ current = NoGroup
  /\ sorted' = <<>>
  /\ next' = 1
  /\ groups' = <<>>
  /\ UNCHANGED <<models, current>>

GroupStep ==
  \/ \E points \in models : BeginGroups(points)
  \/ ExtendGroup \/ NewGroup \/ LastGroup \/ PrintGroups

AllGrouped == models = {} /\ sorted = <<>>

-----------------------------------------------------------------------------
(* Properties.                                                             *)

Register(k) == k % UintSize
RegistersOf(p) == {Register(p.addr + k) : k \in 0..(p.num - 1)}

\* The batch asks for the registers of its points and for no others, and no
\* register is counted twice.
ReadsItsPoints(g) ==
  /\ {Register(g.start + k) : k \in 0..(g.count - 1)}
       = UNION {RegistersOf(g.points[i]) : i \in DOMAIN g.points}
  /\ \A i, j \in DOMAIN g.points :
       i # j => RegistersOf(g.points[i]) \cap RegistersOf(g.points[j]) = {}

\* They are of one kind.
OfOneKind(g) ==
  \A i \in DOMAIN g.points :
    /\ g.points[i].regType = g.regType
    /\ g.points[i].readOnly = g.readOnly
    /\ g.points[i].swap = g.points[1].swap

\* The groups made so far, with the one at work.
Made == IF current = NoGroup THEN groups ELSE Append(groups, current)

\* The points of some groups, in order.
PointsOf(gs) ==
  LET upTo[k \in 0..Len(gs)] ==
        IF k = 0 THEN <<>> ELSE upTo[k - 1] \o gs[k].points
  IN  upTo[Len(gs)]

\* What determineBatchGroups achieves at each turn of its loop: every point so
\* far is in one group, in order of address; each group is of one kind and asks
\* for exactly the registers of its points; and no two neighbouring groups
\* could have been one. It does not say that one request can read a group: a
\* run of 126 adjacent registers makes a group that none can.
GroupingCorrect ==
  /\ PointsOf(Made) = SubSeq(sorted, 1, next - 1)
  /\ \A i \in DOMAIN Made : ReadsItsPoints(Made[i]) /\ OfOneKind(Made[i])
  /\ \A i \in 1..(Len(Made) - 1) :
       ~canBatchRead(LastPoint(Made[i]), Made[i + 1].points[1])

\* That much is so only while some register belongs to no point of a model: a
\* group that reads all 65536 of them counts 0, which is what a uint16 makes of
\* 65536.
LeavesARegister ==
  \A points \in Models : \E a \in Uint16 :
    \A i \in DOMAIN points : a \notin RegistersOf(validatePoints(points)[i])
=============================================================================
