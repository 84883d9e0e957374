------------------------- MODULE ModbusDeviceProofs -------------------------
(***************************************************************************)
(* Theorems about ModbusDevice, for any number of points, requests,        *)
(* collectors, controllers and parallel callers, any capacity of the queue.*)
(***************************************************************************)
EXTENDS ModbusDevice, DataLemmas, FiniteSetTheorems

-----------------------------------------------------------------------------
(* Type correctness.                                                       *)

\* The worker has a task in hand from its receive to its answer.
TaskInHand == pc[Worker] \in {"lock", "io", "answer"} <=> task # NoTask

\* Everything but the WaitGroups.
TypeInv ==
  /\ pc \in [Goroutine -> PcStates]
  /\ mu \in Goroutine \cup {Nobody}
  /\ writeQueue \in Seq(Task) /\ Len(writeQueue) <= QueueCap
  /\ phase \in [Task -> {"new", "sending", "sent"}]
  /\ task \in Task \cup {NoTask}
  /\ failed \in BOOLEAN
  /\ respCh \in [Task -> {"none", "ok", "error"}]
  /\ next \in [Collector \cup ParCaller -> 1..(Len(Points) + 1)]
  /\ result \in [Collector -> [PointName -> Value \cup {Absent, ReadError}]]
  /\ regs \in [PointName -> Value]
  /\ applied \in SUBSET Task
  /\ TaskInHand

LEMMA PointsList ==
  /\ Len(Points) \in Nat /\ DOMAIN Points = 1..Len(Points)
  /\ \A i \in DOMAIN Points : Points[i].name \in PointName
<1> DEFINE P == [name : PointName, rw : {"r", "w", "rw", ""}]
<1>1. Points \in Seq(P) BY DeviceAssumption
<1>2. \A q \in P : q.name \in PointName OBVIOUS
<1> HIDE DEF P
<1>3. /\ Len(Points) \in Nat /\ DOMAIN Points = 1..Len(Points)
      /\ \A i \in DOMAIN Points : Points[i] \in P
  BY <1>1
<1> QED BY <1>2, <1>3

LEMMA QueueConstants == QueueCap \in Nat \ {0} /\ NoTask \notin Task
BY DeviceAssumption

\* The five kinds of goroutines are distinct.
LEMMA Kinds ==
  /\ Worker \in Goroutine /\ Collector \subseteq Goroutine
  /\ Controller \subseteq Goroutine /\ ParCaller \subseteq Goroutine
  /\ PointReader \subseteq Goroutine /\ Nobody \notin Goroutine
  /\ \A c \in Collector : c # Worker /\ c \notin Controller /\ c \notin PointReader
                          /\ c \notin ParCaller
  /\ \A k \in Controller : k # Worker /\ k \notin PointReader /\ k \notin ParCaller
  /\ \A p \in ParCaller : p # Worker /\ p \notin PointReader
  /\ Worker \notin PointReader
BY DeviceAssumption DEF Goroutine

LEMMA TypeInit == Init => TypeInv
<1> SUFFICES ASSUME Init PROVE TypeInv
  OBVIOUS
<1>1. /\ writeQueue \in Seq(Task) /\ Len(writeQueue) <= QueueCap
      /\ next \in [Collector \cup ParCaller -> 1..(Len(Points) + 1)]
  <2>1. <<>> \in Seq(Task) /\ Len(<<>>) <= QueueCap
    BY QueueConstants
  <2>2. 1 \in 1..(Len(Points) + 1)
    BY PointsList
  <2> QED BY <2>1, <2>2 DEF Init
<1>2. /\ result \in [Collector -> [PointName -> Value \cup {Absent, ReadError}]]
      /\ regs \in [PointName -> Value]
  BY DEF Init, Value
<1>3. pc \in [Goroutine -> PcStates] /\ TaskInHand
  BY Kinds DEF Init, PcStates, TaskInHand
<1> QED BY <1>1, <1>2, <1>3 DEF Init, TypeInv

LEMMA GotoType ==
  ASSUME pc \in [Goroutine -> PcStates], NEW g \in Goroutine,
         NEW label \in PcStates, Goto(g, label)
  PROVE  /\ pc' \in [Goroutine -> PcStates]
         /\ pc'[g] = label
         /\ \A h \in Goroutine \ {g} : pc'[h] = pc[h]
BY DEF Goto

LEMMA WriteType ==
  ASSUME TypeInv, NEW w \in Writer, NEW reaches \in BOOLEAN, NEW fails \in BOOLEAN,
         AdapterWrite(w, reaches, fails)
  PROVE  regs' \in [PointName -> Value]
<1>1. Target[w] \in PointName /\ w \in Value
  BY DeviceAssumption DEF Writer, Value
<1> QED BY <1>1 DEF TypeInv, AdapterWrite

LEMMA TypeStep == TypeInv /\ [Next]_vars => TypeInv'
<1> SUFFICES ASSUME TypeInv, [Next]_vars PROVE TypeInv'
  OBVIOUS
<1> USE DEF TypeInv, TaskInHand, asyncVars, collectVars, parVars, ReadOnePoint
<1>a. 1 \in 1..(Len(Points) + 1) BY PointsList
<1>0. {"idle", "lock", "io", "answer", "spawn", "store", "returned"} = PcStates
  BY DEF PcStates
<1>1. ASSUME NEW g \in Goroutine, Lock(g) PROVE TypeInv'
  <2>1. /\ pc' \in [Goroutine -> PcStates] /\ pc'[g] = "io"
        /\ \A h \in Goroutine \ {g} : pc'[h] = pc[h]
    BY <1>0, <1>1, GotoType DEF Lock
  <2> QED BY <1>1, <2>1, Kinds DEF Lock
<1>2. ASSUME NEW t \in Task, ControlAsync(t) PROVE TypeInv'
  BY <1>2 DEF ControlAsync
<1>3. ASSUME NEW t \in Task, Enqueue(t) PROVE TypeInv'
  <2>1. writeQueue' \in Seq(Task) /\ Len(writeQueue') <= QueueCap
    BY <1>3, QueueConstants DEF Enqueue
  <2> QED BY <1>3, <2>1 DEF Enqueue
<1>4. CASE ReceiveTask
  <2>1. /\ writeQueue' \in Seq(Task) /\ Len(writeQueue') <= QueueCap
        /\ task' \in Task /\ NoTask \notin Task
    BY <1>4, QueueConstants DEF ReceiveTask
  <2>2. pc' \in [Goroutine -> PcStates] /\ pc'[Worker] = "lock"
    BY <1>0, <1>4, GotoType, Kinds DEF ReceiveTask
  <2> QED BY <1>4, <2>1, <2>2 DEF ReceiveTask
<1>5. CASE WriteTask
  <2>1. task \in Task BY <1>5 DEF WriteTask
  <2>2. regs' \in [PointName -> Value] /\ applied' \subseteq Task /\ failed' \in BOOLEAN
    BY <1>5, <2>1, WriteType DEF WriteTask, Writer
  <2>3. pc' \in [Goroutine -> PcStates] /\ pc'[Worker] = "answer"
    BY <1>0, <1>5, GotoType, Kinds DEF WriteTask
  <2> QED BY <1>5, <2>1, <2>2, <2>3 DEF WriteTask
<1>6. CASE AnswerTask
  <2>1. pc' \in [Goroutine -> PcStates] /\ pc'[Worker] = "idle"
    BY <1>0, <1>6, GotoType, Kinds DEF AnswerTask
  <2> QED BY <1>6, <2>1 DEF AnswerTask
<1>7. ASSUME NEW k \in Controller, CallControl(k) \/ WriteControl(k) PROVE TypeInv'
  <2>1. pc' \in [Goroutine -> PcStates] /\ pc'[Worker] = pc[Worker]
    BY <1>0, <1>7, GotoType, Kinds DEF CallControl, WriteControl
  <2>2. regs' \in [PointName -> Value]
    BY <1>7, WriteType DEF CallControl, WriteControl, Writer
  <2> QED BY <1>7, <2>1, <2>2 DEF CallControl, WriteControl
<1>8. ASSUME NEW c \in Collector, CallCollect(c) \/ EndCollect(c) PROVE TypeInv'
  <2>1. pc' \in [Goroutine -> PcStates] /\ pc'[Worker] = pc[Worker]
    BY <1>0, <1>8, GotoType, Kinds DEF CallCollect, EndCollect
  <2>2. next' \in [Collector \cup ParCaller -> 1..(Len(Points) + 1)]
    BY <1>a, <1>8 DEF CallCollect, EndCollect
  <2>3. result' \in [Collector -> [PointName -> Value \cup {Absent, ReadError}]]
    BY <1>8 DEF CallCollect, EndCollect
  <2> QED BY <1>8, <2>1, <2>2, <2>3 DEF CallCollect, EndCollect
<1>9. ASSUME NEW c \in Collector, CollectPoint(c) PROVE TypeInv'
  <2>1. next[c] \in DOMAIN Points /\ Points[next[c]].name \in PointName
    BY <1>9, PointsList DEF CollectPoint
  <2>2. next' \in [Collector \cup ParCaller -> 1..(Len(Points) + 1)]
    BY <1>9, PointsList DEF CollectPoint
  <2>3. result' \in [Collector -> [PointName -> Value \cup {Absent, ReadError}]]
    BY <1>9, <2>1 DEF CollectPoint
  <2> QED BY <1>9, <2>2, <2>3 DEF CollectPoint
<1>10. ASSUME NEW p \in ParCaller, CallParallel(p) \/ ReturnParallel(p) PROVE TypeInv'
  <2>1. pc' \in [Goroutine -> PcStates] /\ pc'[Worker] = pc[Worker]
    BY <1>0, <1>10, GotoType, Kinds DEF CallParallel, ReturnParallel
  <2>2. next' \in [Collector \cup ParCaller -> 1..(Len(Points) + 1)]
    BY <1>a, <1>10 DEF CallParallel, ReturnParallel
  <2> QED BY <1>10, <2>1, <2>2 DEF CallParallel, ReturnParallel
<1>11. ASSUME NEW p \in ParCaller, SkipWriteOnly(p) \/ SpawnReader(p) PROVE TypeInv'
  <2>1. next' \in [Collector \cup ParCaller -> 1..(Len(Points) + 1)]
    BY <1>11, PointsList DEF SkipWriteOnly, SpawnReader
  <2>2. <<p, next[p]>> \in PointReader
    BY <1>11, PointsList DEF SkipWriteOnly, SpawnReader, PointReader
  <2>3. pc' \in [Goroutine -> PcStates] /\ pc'[Worker] = pc[Worker]
    BY <1>0, <1>11, <2>2, GotoType, Kinds DEF SkipWriteOnly, SpawnReader
  <2> QED BY <1>11, <2>1, <2>3 DEF SkipWriteOnly, SpawnReader
<1>12. ASSUME NEW r \in PointReader, ReaderStep(r) PROVE TypeInv'
  <2>1. pc' \in [Goroutine -> PcStates] /\ pc'[Worker] = pc[Worker]
    BY <1>0, <1>12, GotoType, Kinds DEF ReaderStep, StoreResult
  <2> QED BY <1>12, <2>1 DEF ReaderStep, StoreResult
<1>13. CASE UNCHANGED vars
  BY <1>13 DEF vars
<1> QED
  BY <1>1, <1>2, <1>3, <1>4, <1>5, <1>6, <1>7, <1>8, <1>9, <1>10, <1>11, <1>12, <1>13
     DEF Next, WorkerStep, CollectorStep, ParallelStep

-----------------------------------------------------------------------------
(* The goroutines of CollectAllParallel and their WaitGroup.               *)

Running(p) == {i \in DOMAIN Points : pc[<<p, i>>] # "idle"}

ParallelType ==
  /\ wg \in [ParCaller -> Nat]
  /\ got \in [PointReader -> {"value", "nil"}]
  /\ results \in [ParCaller -> [PointName -> {"absent", "value", "nil"}]]
  /\ errs \in [ParCaller -> BOOLEAN]

\* A reader runs only inside the call that has started it, and the WaitGroup
\* counts those that run.
ReadersInv ==
  \A p \in ParCaller :
    /\ pc[p] \in {"idle", "spawn", "returned"}
    /\ \A i \in DOMAIN Points : pc[<<p, i>>] # "idle" =>
         /\ pc[<<p, i>>] \in {"lock", "io", "store"}
         /\ pc[p] = "spawn" /\ i < next[p] /\ Points[i].rw # "w"
    /\ wg[p] = Cardinality(Running(p))

\* What the map of a call holds: an entry for each point whose reader was
\* started and has finished, and an error for each of them that failed.
Stored(p, n) ==
  \E i \in DOMAIN Points :
    /\ i < next[p] /\ Points[i].name = n /\ Points[i].rw # "w"
    /\ pc[<<p, i>>] = "idle"
ResultsInv ==
  \A p \in ParCaller :
    /\ pc[p] \in {"spawn", "returned"} =>
         \A n \in PointName : results[p][n] # "absent" <=> Stored(p, n)
    /\ (\E n \in PointName : results[p][n] = "nil") => errs[p]
    /\ pc[p] = "returned" => next[p] > Len(Points)

ParallelInv == TypeInv /\ ParallelType /\ ReadersInv /\ ResultsInv

LEMMA ReaderId ==
  ASSUME NEW p \in ParCaller, NEW i \in DOMAIN Points
  PROVE  <<p, i>> \in PointReader
BY DEF PointReader

LEMMA RunningFinite ==
  ASSUME NEW p \in ParCaller
  PROVE  IsFiniteSet(Running(p)) /\ Cardinality(Running(p)) \in 0..Len(Points)
<1>1. Running(p) \subseteq 1..Len(Points)
  BY PointsList DEF Running
<1>2. IsFiniteSet(1..Len(Points)) /\ Cardinality(1..Len(Points)) = Len(Points)
  BY PointsList, FS_Interval
<1>3. /\ IsFiniteSet(Running(p)) /\ Cardinality(Running(p)) <= Len(Points)
      /\ Cardinality(Running(p)) \in Nat
  BY <1>1, <1>2, FS_Subset, FS_CardinalityType
<1> QED BY <1>3, PointsList

LEMMA ParallelInit == Init => ParallelInv
<1> SUFFICES ASSUME Init PROVE ParallelInv
  OBVIOUS
<1>1. \A p \in ParCaller : Running(p) = {} /\ pc[p] = "idle"
  BY ReaderId, Kinds DEF Init, Running, Goroutine
<1>2. \A p \in ParCaller : \A i \in DOMAIN Points : pc[<<p, i>>] = "idle"
  BY ReaderId, Kinds DEF Init, Goroutine
<1>3. ParallelType BY DEF Init, ParallelType
<1>4. ReadersInv
  BY <1>1, <1>2, FS_EmptySet DEF Init, ReadersInv
<1>5. ResultsInv
  BY <1>1 DEF Init, ResultsInv
<1> QED BY TypeInit, <1>3, <1>4, <1>5 DEF ParallelInv

\* Steps of the other goroutines.
LEMMA ParallelUntouched ==
  ASSUME ParallelInv, TypeInv', UNCHANGED parVars,
         \A p \in ParCaller : pc'[p] = pc[p] /\ next'[p] = next[p],
         \A r \in PointReader : pc'[r] = pc[r]
  PROVE  ParallelInv'
<1> USE DEF ParallelInv, parVars
<1>1. \A p \in ParCaller : \A i \in DOMAIN Points : pc'[<<p, i>>] = pc[<<p, i>>]
  BY ReaderId
<1>2. \A p \in ParCaller : Running(p)' = Running(p)
  BY <1>1 DEF Running
<1>3. ParallelType' BY DEF ParallelType
<1>4. ReadersInv' BY <1>1, <1>2 DEF ReadersInv
<1>5. \A p \in ParCaller : \A n : Stored(p, n)' = Stored(p, n)
  BY <1>1 DEF Stored
<1>6. ResultsInv' BY <1>5 DEF ResultsInv
<1> QED BY <1>3, <1>4, <1>6

\* A reader moves on, between its start and its last step.
LEMMA ReaderMoves ==
  ASSUME ParallelInv, TypeInv', NEW r \in PointReader, pc[r] # "idle",
         NEW label \in {"lock", "io", "store"}, Goto(r, label),
         UNCHANGED <<next, wg, results, errs>>, ParallelType'
  PROVE  ParallelInv'
<1> USE DEF ParallelInv
<1>1. PICK p \in ParCaller, i \in DOMAIN Points : r = <<p, i>>
  BY DEF PointReader
<1>2. pc'[r] = label /\ \A h \in Goroutine \ {r} : pc'[h] = pc[h]
  BY GotoType, Kinds DEF TypeInv, PcStates
<1>3. \A q \in ParCaller : pc'[q] = pc[q]
  BY <1>2, Kinds
<1>4. \A q \in ParCaller : \A j \in DOMAIN Points :
        /\ pc'[<<q, j>>] = "idle" <=> pc[<<q, j>>] = "idle"
        /\ pc'[<<q, j>>] = pc[<<q, j>>] \/ pc'[<<q, j>>] = label
  BY <1>2, ReaderId, Kinds
<1>5. \A q \in ParCaller : Running(q)' = Running(q)
  BY <1>4 DEF Running
<1>6. ReadersInv' BY <1>3, <1>4, <1>5 DEF ReadersInv
<1>7. \A q \in ParCaller : \A n : Stored(q, n)' = Stored(q, n)
  BY <1>4 DEF Stored
<1>8. ResultsInv' BY <1>3, <1>7 DEF ResultsInv
<1> QED BY <1>6, <1>8

\* CollectAllParallel itself.
LEMMA CallerMoves ==
  ASSUME ParallelInv, TypeInv', NEW p \in ParCaller,
         CallParallel(p) \/ ReturnParallel(p)
  PROVE  ParallelInv'
<1> USE DEF ParallelInv
<1>1. /\ pc'[p] \in {"spawn", "returned"}
      /\ \A h \in Goroutine \ {p} : pc'[h] = pc[h]
  BY GotoType, Kinds DEF TypeInv, PcStates, CallParallel, ReturnParallel
<1>2. /\ \A q \in ParCaller \ {p} : pc'[q] = pc[q]
      /\ \A q \in ParCaller : \A i \in DOMAIN Points : pc'[<<q, i>>] = pc[<<q, i>>]
  BY <1>1, ReaderId, Kinds
<1>3. \A q \in ParCaller : Running(q)' = Running(q)
  BY <1>2 DEF Running
<1>4. Running(p) = {}
  <2>1. CASE CallParallel(p)
    BY <2>1 DEF CallParallel, ReadersInv, Running
  <2>2. CASE ReturnParallel(p)
    <3>1. Cardinality(Running(p)) = 0 BY <2>2 DEF ReturnParallel, ReadersInv
    <3> QED BY <3>1, RunningFinite, FS_EmptySet
  <2> QED BY <2>1, <2>2
<1>5. \A i \in DOMAIN Points : pc[<<p, i>>] = "idle"
  BY <1>4 DEF Running
<1>6. ParallelType'
  <2>1. CASE CallParallel(p) BY <2>1 DEF ParallelType, CallParallel
  <2>2. CASE ReturnParallel(p) BY <2>2 DEF ParallelType, ReturnParallel, parVars
  <2> QED BY <2>1, <2>2
<1>7. ReadersInv'
  <2>1. wg' = wg BY DEF CallParallel, ReturnParallel, parVars
  <2>2. \A q \in ParCaller \ {p} : next'[q] = next[q]
    BY DEF CallParallel, ReturnParallel, TypeInv
  <2> QED BY <1>1, <1>2, <1>3, <1>5, <2>1, <2>2 DEF ReadersInv
<1>8. ResultsInv'
  <2>1. \A q \in ParCaller \ {p} :
          /\ next'[q] = next[q] /\ results'[q] = results[q] /\ errs'[q] = errs[q]
    BY DEF CallParallel, ReturnParallel, TypeInv, ParallelType, parVars
  <2>2. \A q \in ParCaller \ {p} : \A n : Stored(q, n)' = Stored(q, n)
    BY <1>2, <2>1 DEF Stored
  <2>3. CASE CallParallel(p)
    <3>1. /\ next'[p] = 1 /\ \A n \in PointName : results'[p][n] = "absent"
          /\ pc'[p] = "spawn"
      BY <2>3, GotoType, Kinds DEF CallParallel, TypeInv, ParallelType, PcStates
    <3>2. \A n : ~Stored(p, n)'
      <4>1. \A i \in DOMAIN Points : ~(i < next'[p])
        BY <3>1, PointsList
      <4> QED BY <4>1 DEF Stored
    <3> QED BY <1>2, <2>1, <2>2, <3>1, <3>2 DEF ResultsInv
  <2>4. CASE ReturnParallel(p)
    <3>1. /\ next' = next /\ results' = results /\ errs' = errs /\ next[p] > Len(Points)
          /\ pc[p] = "spawn"
      BY <2>4 DEF ReturnParallel, parVars
    <3>2. \A n : Stored(p, n)' = Stored(p, n)
      BY <1>2, <3>1 DEF Stored
    <3> QED BY <1>2, <2>1, <2>2, <3>1, <3>2 DEF ResultsInv
  <2> QED BY <2>3, <2>4
<1> QED BY <1>6, <1>7, <1>8

LEMMA CallerSkips ==
  ASSUME ParallelInv, TypeInv', NEW p \in ParCaller, SkipWriteOnly(p)
  PROVE  ParallelInv'
<1> USE DEF ParallelInv, SkipWriteOnly, parVars
<1>1. /\ pc' = pc /\ next'[p] = next[p] + 1 /\ next[p] \in DOMAIN Points
      /\ \A q \in ParCaller \ {p} : next'[q] = next[q]
  BY PointsList DEF TypeInv
<1>2. \A q \in ParCaller : Running(q)' = Running(q)
  BY <1>1 DEF Running
<1>3. ParallelType' BY DEF ParallelType
<1>4. ReadersInv'
  <2>1. \A i \in DOMAIN Points : i < next[p] => i < next'[p]
    BY <1>1, PointsList
  <2> QED BY <1>1, <1>2, <2>1 DEF ReadersInv
<1>5. \A q \in ParCaller \ {p} : \A n : Stored(q, n)' = Stored(q, n)
  BY <1>1 DEF Stored
<1>6. \A n : Stored(p, n)' = Stored(p, n)
  <2>1. \A i \in DOMAIN Points : i < next'[p] <=> i < next[p] \/ i = next[p]
    BY <1>1, PointsList
  <2> QED BY <1>1, <2>1 DEF Stored
<1>7. ResultsInv' BY <1>1, <1>5, <1>6 DEF ResultsInv
<1> QED BY <1>3, <1>4, <1>7

LEMMA CallerSpawns ==
  ASSUME ParallelInv, TypeInv', NEW p \in ParCaller, SpawnReader(p)
  PROVE  ParallelInv' /\ pc[<<p, next[p]>>] = "idle"
<1> USE DEF ParallelInv, SpawnReader
<1> DEFINE i == next[p]
<1>1. /\ i \in DOMAIN Points /\ next'[p] = i + 1 /\ pc[p] = "spawn"
      /\ \A q \in ParCaller \ {p} : next'[q] = next[q]
      /\ Points[i].rw # "w"
  BY PointsList DEF TypeInv
<1>2. /\ pc'[<<p, i>>] = "lock"
      /\ \A h \in Goroutine \ {<<p, i>>} : pc'[h] = pc[h]
  BY <1>1, ReaderId, GotoType, Kinds DEF TypeInv, PcStates
<1>3. /\ \A q \in ParCaller : pc'[q] = pc[q]
      /\ \A q \in ParCaller : \A j \in DOMAIN Points :
           q # p \/ j # i => pc'[<<q, j>>] = pc[<<q, j>>]
  <2>1. <<p, i>> \in PointReader BY <1>1, ReaderId
  <2>2. \A q \in ParCaller : pc'[q] = pc[q] BY <1>2, <2>1, Kinds
  <2>3. ASSUME NEW q \in ParCaller, NEW j \in DOMAIN Points, q # p \/ j # i
        PROVE  pc'[<<q, j>>] = pc[<<q, j>>]
    <3>1. <<q, j>> \in Goroutine BY ReaderId, Kinds
    <3>2. <<q, j>> # <<p, i>> BY <2>3
    <3> QED BY <1>2, <3>1, <3>2
  <2> QED BY <2>2, <2>3
<1>4. pc[<<p, i>>] = "idle"
  BY <1>1, PointsList DEF ReadersInv
<1>5. \A j \in DOMAIN Points : j < next'[p] <=> j < next[p] \/ j = i
  BY <1>1, PointsList
<1>6. /\ wg'[p] = wg[p] + 1 /\ \A q \in ParCaller \ {p} : wg'[q] = wg[q]
      /\ wg' \in [ParCaller -> Nat]
  BY DEF ParallelType
<1>7. ParallelType' BY <1>6 DEF ParallelType
<1>8. /\ Running(p)' = Running(p) \cup {i} /\ i \notin Running(p)
      /\ \A q \in ParCaller \ {p} : Running(q)' = Running(q)
  BY <1>1, <1>2, <1>3, <1>4 DEF Running
<1>9. Cardinality(Running(p)') = Cardinality(Running(p)) + 1
  BY <1>8, RunningFinite, FS_AddElement
<1>10. ReadersInv'
  <2>1. \A q \in ParCaller : wg'[q] = Cardinality(Running(q)')
    <3>1. \A q \in ParCaller : wg[q] = Cardinality(Running(q))
      BY DEF ReadersInv
    <3>2. wg'[p] = Cardinality(Running(p)')
      BY <1>6, <1>9, <3>1
    <3>3. ASSUME NEW q \in ParCaller \ {p} PROVE wg'[q] = Cardinality(Running(q)')
      BY <1>6, <1>8, <3>1
    <3> QED BY <3>2, <3>3
  <2>2. ASSUME NEW j \in DOMAIN Points, pc'[<<p, j>>] # "idle"
        PROVE  /\ pc'[<<p, j>>] \in {"lock", "io", "store"}
               /\ pc'[p] = "spawn" /\ j < next'[p] /\ Points[j].rw # "w"
    BY <1>1, <1>2, <1>3, <1>5, <2>2 DEF ReadersInv
  <2> QED BY <1>1, <1>3, <2>1, <2>2 DEF ReadersInv
<1>11. \A q \in ParCaller : \A n : Stored(q, n)' = Stored(q, n)
  <2>1. \A q \in ParCaller \ {p} : \A n : Stored(q, n)' = Stored(q, n)
    BY <1>1, <1>3 DEF Stored
  <2>2. \A n : Stored(p, n)' = Stored(p, n)
    <3>1. ~(i < next[p]) BY <1>1, PointsList
    <3> QED BY <1>2, <1>3, <1>5, <3>1 DEF Stored
  <2> QED BY <2>1, <2>2
<1>12. ResultsInv' BY <1>1, <1>3, <1>11 DEF ResultsInv
<1> QED BY <1>4, <1>7, <1>10, <1>12

\* The last step of a reader.
LEMMA ReaderStores ==
  ASSUME ParallelInv, TypeInv', NEW r \in PointReader, StoreResult(r)
  PROVE  ParallelInv'
<1> USE DEF ParallelInv, StoreResult
<1>1. PICK p \in ParCaller, i \in DOMAIN Points : r = <<p, i>>
  BY DEF PointReader
<1>2. r[1] = p /\ r[2] = i
  BY <1>1
<1> DEFINE name == Points[i].name
<1>3. pc'[r] = "idle" /\ \A h \in Goroutine \ {r} : pc'[h] = pc[h]
  BY GotoType, Kinds DEF TypeInv, PcStates
<1>4. /\ \A q \in ParCaller : pc'[q] = pc[q]
      /\ \A q \in ParCaller : \A j \in DOMAIN Points :
           q # p \/ j # i => pc'[<<q, j>>] = pc[<<q, j>>]
  BY <1>1, <1>3, ReaderId, Kinds
<1>5. /\ pc[<<p, i>>] = "store" /\ pc[p] = "spawn" /\ i < next[p]
      /\ Points[i].rw # "w" /\ name \in PointName
  BY <1>1, PointsList DEF ReadersInv
<1>6. /\ Running(p)' = Running(p) \ {i} /\ i \in Running(p)
      /\ \A q \in ParCaller \ {p} : Running(q)' = Running(q)
  BY <1>1, <1>3, <1>4, <1>5 DEF Running
<1>7. /\ Cardinality(Running(p)') = Cardinality(Running(p)) - 1
      /\ Cardinality(Running(p)') \in Nat
  <2>1. Cardinality(Running(p) \ {i}) = Cardinality(Running(p)) - 1
    BY <1>6, RunningFinite, FS_RemoveElement
  <2>2. IsFiniteSet(Running(p) \ {i})
    BY RunningFinite, FS_RemoveElement
  <2> QED BY <1>6, <2>1, <2>2, FS_CardinalityType
<1>8. /\ wg'[p] = Cardinality(Running(p)')
      /\ \A q \in ParCaller \ {p} : wg'[q] = wg[q]
      /\ wg' \in [ParCaller -> Nat]
  BY <1>2, <1>7 DEF ParallelType, ReadersInv
<1>9. got[r] \in {"value", "nil"}
  BY DEF ParallelType
<1>10. /\ results'[p][name] = got[r]
       /\ \A n \in PointName \ {name} : results'[p][n] = results[p][n]
       /\ \A q \in ParCaller \ {p} : results'[q] = results[q]
       /\ results' \in [ParCaller -> [PointName -> {"absent", "value", "nil"}]]
  BY <1>2, <1>5, <1>9 DEF ParallelType
<1>11. /\ errs'[p] = (errs[p] \/ got[r] = "nil")
       /\ \A q \in ParCaller \ {p} : errs'[q] = errs[q]
       /\ errs' \in [ParCaller -> BOOLEAN]
  BY <1>2 DEF ParallelType
<1>12. ParallelType' BY <1>8, <1>10, <1>11 DEF ParallelType
<1>13. ReadersInv'
  <2>1. \A q \in ParCaller : wg'[q] = Cardinality(Running(q)')
    BY <1>6, <1>8 DEF ReadersInv
  <2> QED BY <1>1, <1>3, <1>4, <2>1 DEF ReadersInv
<1>14. \A q \in ParCaller \ {p} : \A n : Stored(q, n)' = Stored(q, n)
  BY <1>4 DEF Stored
<1>15. \A n : Stored(p, n)' <=> Stored(p, n) \/ n = name
  BY <1>1, <1>3, <1>4, <1>5 DEF Stored
<1>16. ResultsInv'
  <2>1. \A n \in PointName : results'[p][n] # "absent" <=> Stored(p, n)'
    BY <1>5, <1>9, <1>10, <1>15 DEF ResultsInv
  <2>2. (\E n \in PointName : results'[p][n] = "nil") => errs'[p]
    <3> SUFFICES ASSUME NEW n \in PointName, results'[p][n] = "nil" PROVE errs'[p]
      OBVIOUS
    <3>1. CASE n = name BY <1>10, <1>11, <3>1
    <3>2. CASE n # name
      <4>1. results[p][n] = "nil" BY <1>10, <3>2
      <4>2. errs[p] BY <4>1 DEF ResultsInv
      <4> QED BY <1>11, <4>2
    <3> QED BY <3>1, <3>2
  <2> QED BY <1>4, <1>5, <1>10, <1>11, <1>14, <2>1, <2>2 DEF ResultsInv
<1> QED BY <1>12, <1>13, <1>16

LEMMA ParallelInvStep == ParallelInv /\ [Next]_vars => ParallelInv'
<1> SUFFICES ASSUME ParallelInv, [Next]_vars PROVE ParallelInv'
  OBVIOUS
<1> USE DEF asyncVars, collectVars
<1>1. TypeInv' /\ pc \in [Goroutine -> PcStates]
  BY TypeStep DEF ParallelInv, TypeInv
<1>2. {"idle", "lock", "io", "answer", "spawn", "store", "returned"} = PcStates
  BY DEF PcStates
<1>3. ASSUME NEW g \in {Worker} \cup Collector \cup Controller, NEW label \in PcStates,
             Goto(g, label), UNCHANGED parVars,
             \A p \in ParCaller : next'[p] = next[p]
      PROVE  ParallelInv'
  <2>1. \A h \in Goroutine \ {g} : pc'[h] = pc[h]
    BY <1>1, <1>3, GotoType, Kinds
  <2> QED BY <1>1, <1>3, <2>1, ParallelUntouched, Kinds
<1>4. ASSUME NEW g \in Goroutine, Lock(g) PROVE ParallelInv'
  <2>1. CASE g \in PointReader
    <3>1. ParallelType' BY <1>4 DEF Lock, parVars, ParallelInv, ParallelType
    <3>2. Goto(g, "io") /\ pc[g] # "idle" /\ UNCHANGED <<next, wg, results, errs>>
      BY <1>4 DEF Lock, parVars
    <3> QED BY <1>1, <2>1, <3>1, <3>2, ReaderMoves
  <2>2. CASE g \in ParCaller
    BY <1>4, <2>2 DEF Lock, ParallelInv, ReadersInv
  <2>3. CASE g \in {Worker} \cup Collector \cup Controller
    BY <1>2, <1>3, <1>4, <2>3 DEF Lock
  <2> QED BY <2>1, <2>2, <2>3 DEF Goroutine
<1>5. ASSUME NEW t \in Task, ControlAsync(t) \/ Enqueue(t) PROVE ParallelInv'
  BY <1>1, <1>5, ParallelUntouched DEF ControlAsync, Enqueue
<1>6. CASE WorkerStep
  BY <1>2, <1>3, <1>6 DEF WorkerStep, ReceiveTask, WriteTask, AnswerTask
<1>7. ASSUME NEW k \in Controller, CallControl(k) \/ WriteControl(k) PROVE ParallelInv'
  BY <1>2, <1>3, <1>7 DEF CallControl, WriteControl
<1>8. ASSUME NEW c \in Collector, CallCollect(c) \/ CollectorStep(c) PROVE ParallelInv'
  <2>1. \A p \in ParCaller : next'[p] = next[p]
    BY <1>8, Kinds DEF CallCollect, CollectorStep, CollectPoint, EndCollect,
                       ParallelInv, TypeInv
  <2>2. CASE CollectPoint(c)
    BY <1>1, <2>1, <2>2, ParallelUntouched DEF CollectPoint
  <2>3. CASE CallCollect(c) \/ EndCollect(c)
    BY <1>2, <1>3, <2>1, <2>3 DEF CallCollect, EndCollect
  <2> QED BY <1>8, <2>2, <2>3 DEF CollectorStep
<1>9. ASSUME NEW p \in ParCaller, CallParallel(p) \/ ParallelStep(p) PROVE ParallelInv'
  BY <1>1, <1>9, CallerMoves, CallerSkips, CallerSpawns DEF ParallelStep
<1>10. ASSUME NEW r \in PointReader, ReaderStep(r) PROVE ParallelInv'
  <2>1. CASE ReadOnePoint(r)
    <3>1. ParallelType'
      BY <2>1 DEF ReadOnePoint, ParallelInv, ParallelType
    <3>2. Goto(r, "store") /\ pc[r] # "idle" /\ UNCHANGED <<next, wg, results, errs>>
      BY <2>1 DEF ReadOnePoint
    <3> QED BY <1>1, <3>1, <3>2, ReaderMoves
  <2>2. CASE StoreResult(r) BY <1>1, <2>2, ReaderStores
  <2> QED BY <1>10, <2>1, <2>2 DEF ReaderStep
<1>11. CASE UNCHANGED vars
  BY <1>1, <1>11, ParallelUntouched DEF vars
<1> QED BY <1>4, <1>5, <1>6, <1>7, <1>8, <1>9, <1>10, <1>11 DEF Next

\* Type correctness, with the WaitGroup between 0 and the number of points:
\* neither negative, which panics, nor counting readers that do not exist.
THEOREM DeviceTypeCorrect == Spec => []DeviceTypeOK
<1>1. ParallelInv => DeviceTypeOK
  <2> SUFFICES ASSUME ParallelInv PROVE DeviceTypeOK
    OBVIOUS
  <2>1. wg \in [ParCaller -> 0..Len(Points)]
    BY RunningFinite DEF ParallelInv, ParallelType, ReadersInv
  <2> QED BY <2>1 DEF ParallelInv, ParallelType, TypeInv, DeviceTypeOK
<1> QED BY ParallelInit, ParallelInvStep, <1>1, PTL DEF Spec

\* No goroutine of CollectAllParallel outlives its call.
THEOREM NoStrayReader == Spec => []ReadersEndWithCall
<1>1. ParallelInv => ReadersEndWithCall
  BY DEF ParallelInv, ReadersInv, ReadersEndWithCall
<1> QED BY ParallelInit, ParallelInvStep, <1>1, PTL DEF Spec

\* A call that has returned has an entry for each readable point and for no
\* other, and an error when a point could not be read.
THEOREM NothingMissing == Spec => []ParallelComplete
<1>1. ParallelInv => ParallelComplete
  <2> SUFFICES ASSUME ParallelInv, NEW p \in ParCaller, pc[p] = "returned"
               PROVE  /\ \A n \in PointName : Readable(n) <=> results[p][n] # "absent"
                      /\ (\E n \in PointName : results[p][n] = "nil") => errs[p]
    BY DEF ParallelComplete
  <2>1. \A i \in DOMAIN Points : i < next[p] /\ pc[<<p, i>>] = "idle"
    BY PointsList DEF ParallelInv, ReadersInv, ResultsInv, TypeInv
  <2>2. \A n : Stored(p, n) <=> Readable(n)
    BY <2>1 DEF Stored, Readable
  <2> QED BY <2>2 DEF ParallelInv, ResultsInv
<1> QED BY ParallelInit, ParallelInvStep, <1>1, PTL DEF Spec

-----------------------------------------------------------------------------
(* d.mu excludes.                                                          *)

\* Who is in a call of the adapter holds the lock, and the other way round.
LockInv == \A g \in Goroutine : pc[g] = "io" <=> mu = g

LEMMA LockStep == ParallelInv /\ LockInv /\ [Next]_vars => LockInv'
<1> SUFFICES ASSUME ParallelInv, LockInv, [Next]_vars PROVE LockInv'
  OBVIOUS
<1> USE DEF LockInv, asyncVars, collectVars, parVars
<1>0. /\ {"idle", "lock", "io", "answer", "spawn", "store", "returned"} = PcStates
      /\ pc \in [Goroutine -> PcStates]
  BY DEF PcStates, TypeInv, ParallelInv
\* A step that leaves the lock alone and moves one goroutine outside of it.
<1>1. ASSUME NEW g \in Goroutine, NEW label \in PcStates, Goto(g, label),
             pc[g] # "io", label # "io", mu' = mu
      PROVE  LockInv'
  BY <1>0, <1>1, GotoType
\* A step that ends a section under the lock.
<1>2. ASSUME NEW g \in Goroutine, NEW label \in PcStates, Goto(g, label),
             pc[g] = "io", label # "io", mu' = Nobody
      PROVE  LockInv'
  BY <1>0, <1>2, GotoType, Kinds
<1>3. ASSUME NEW g \in Goroutine, Lock(g) PROVE LockInv'
  <2>1. /\ pc'[g] = "io" /\ \A h \in Goroutine \ {g} : pc'[h] = pc[h]
    BY <1>0, <1>3, GotoType DEF Lock
  <2> QED BY <1>3, <2>1, Kinds DEF Lock
<1>4. ASSUME NEW t \in Task, ControlAsync(t) \/ Enqueue(t) PROVE LockInv'
  BY <1>4 DEF ControlAsync, Enqueue
<1>5. CASE WorkerStep
  <2>1. CASE ReceiveTask BY <1>0, <1>1, <2>1, Kinds DEF ReceiveTask
  <2>2. CASE WriteTask BY <1>0, <1>2, <2>2, Kinds DEF WriteTask
  <2>3. CASE AnswerTask BY <1>0, <1>1, <2>3, Kinds DEF AnswerTask
  <2> QED BY <1>5, <2>1, <2>2, <2>3 DEF WorkerStep
<1>6. ASSUME NEW k \in Controller, CallControl(k) \/ WriteControl(k) PROVE LockInv'
  <2>1. CASE CallControl(k) BY <1>0, <1>1, <2>1, Kinds DEF CallControl
  <2>2. CASE WriteControl(k) BY <1>0, <1>2, <2>2, Kinds DEF WriteControl
  <2> QED BY <1>6, <2>1, <2>2
<1>7. ASSUME NEW c \in Collector, CallCollect(c) \/ CollectorStep(c) PROVE LockInv'
  <2>1. CASE CallCollect(c) BY <1>0, <1>1, <2>1, Kinds DEF CallCollect
  <2>2. CASE CollectPoint(c) BY <2>2 DEF CollectPoint
  <2>3. CASE EndCollect(c) BY <1>0, <1>2, <2>3, Kinds DEF EndCollect
  <2> QED BY <1>7, <2>1, <2>2, <2>3 DEF CollectorStep
<1>8. ASSUME NEW p \in ParCaller, CallParallel(p) \/ ParallelStep(p) PROVE LockInv'
  <2>1. CASE CallParallel(p) BY <1>0, <1>1, <2>1, Kinds DEF CallParallel
  <2>2. CASE SkipWriteOnly(p) BY <2>2 DEF SkipWriteOnly
  <2>3. CASE SpawnReader(p)
    <3>1. <<p, next[p]>> \in PointReader
      BY <2>3, PointsList DEF SpawnReader, PointReader, TypeInv, ParallelInv
    <3>2. pc[<<p, next[p]>>] # "io"
      BY <2>3, CallerSpawns, TypeStep DEF ParallelInv
    <3> QED BY <1>0, <1>1, <2>3, <3>1, <3>2, Kinds DEF SpawnReader
  <2>4. CASE ReturnParallel(p) BY <1>0, <1>1, <2>4, Kinds DEF ReturnParallel
  <2> QED BY <1>8, <2>1, <2>2, <2>3, <2>4 DEF ParallelStep
<1>9. ASSUME NEW r \in PointReader, ReaderStep(r) PROVE LockInv'
  <2>1. CASE ReadOnePoint(r) BY <1>0, <1>2, <2>1, Kinds DEF ReadOnePoint
  <2>2. CASE StoreResult(r) BY <1>0, <1>1, <2>2, Kinds DEF StoreResult
  <2> QED BY <1>9, <2>1, <2>2 DEF ReaderStep
<1>10. CASE UNCHANGED vars
  BY <1>10 DEF vars
<1> QED BY <1>3, <1>4, <1>5, <1>6, <1>7, <1>8, <1>9, <1>10 DEF Next

LEMMA LockInit == Init => LockInv
BY Kinds DEF Init, LockInv

LEMMA LockAlways == Spec => [](ParallelInv /\ LockInv)
<1>1. Init => ParallelInv /\ LockInv BY ParallelInit, LockInit
<1>2. ParallelInv /\ LockInv /\ [Next]_vars => (ParallelInv /\ LockInv)'
  BY ParallelInvStep, LockStep
<1> QED BY <1>1, <1>2, PTL DEF Spec

\* One request on the wire, whichever path took a goroutine to the adapter and
\* whatever the number of goroutines.
THEOREM OneRequest == Spec => []OneRequestOnWire
<1>1. LockInv => OneRequestOnWire BY DEF LockInv, OneRequestOnWire
<1> QED BY LockAlways, <1>1, PTL

-----------------------------------------------------------------------------
(* A scan is a snapshot.                                                   *)

\* A scan that waits for the lock has read nothing; one that holds it keeps
\* every writer out.
SnapshotInv ==
  \A c \in Collector :
    /\ pc[c] = "lock" => \A n \in PointName : result[c][n] = Absent
    /\ pc[c] = "io" => \A n \in PointName : result[c][n] \in {Absent, ReadError, regs[n]}

LEMMA SnapshotStep ==
  ParallelInv /\ LockInv /\ SnapshotInv /\ [Next]_vars => SnapshotInv'
<1> SUFFICES ASSUME ParallelInv, LockInv, SnapshotInv, [Next]_vars PROVE SnapshotInv'
  OBVIOUS
<1> USE DEF asyncVars, collectVars, parVars
<1>0. /\ {"idle", "lock", "io", "answer", "spawn", "store", "returned"} = PcStates
      /\ pc \in [Goroutine -> PcStates]
      /\ result \in [Collector -> [PointName -> Value \cup {Absent, ReadError}]]
  BY DEF PcStates, TypeInv, ParallelInv
\* A step of another goroutine that writes no register.
<1>1. ASSUME NEW g \in Goroutine \ Collector, NEW label \in PcStates, Goto(g, label),
             UNCHANGED <<result, regs>>
      PROVE  SnapshotInv'
  <2>1. \A c \in Collector : pc'[c] = pc[c]
    BY <1>0, <1>1, GotoType, Kinds
  <2> QED BY <1>1, <2>1 DEF SnapshotInv
\* A write: no scan holds the lock.
<1>2. ASSUME NEW g \in Goroutine \ Collector, NEW label \in PcStates, Goto(g, label),
             pc[g] = "io", result' = result
      PROVE  SnapshotInv'
  <2>1. \A c \in Collector : pc'[c] = pc[c] /\ pc[c] # "io"
    BY <1>0, <1>2, GotoType, Kinds DEF LockInv
  <2> QED BY <1>2, <2>1 DEF SnapshotInv
<1>3. ASSUME NEW g \in Goroutine, Lock(g) PROVE SnapshotInv'
  <2>1. pc[g] = "lock" /\ \A h \in Goroutine \ {g} : pc'[h] = pc[h]
    BY <1>0, <1>3, GotoType DEF Lock
  <2>2. \A c \in Collector : c # g => pc'[c] = pc[c]
    BY <2>1, Kinds
  <2>3. pc'[g] = "io" /\ UNCHANGED <<result, regs>>
    BY <1>0, <1>3, GotoType DEF Lock
  <2> QED BY <2>1, <2>2, <2>3 DEF SnapshotInv
<1>4. ASSUME NEW t \in Task, ControlAsync(t) \/ Enqueue(t) PROVE SnapshotInv'
  BY <1>4 DEF ControlAsync, Enqueue, SnapshotInv
<1>5. CASE WorkerStep
  <2>1. Worker \in Goroutine \ Collector BY Kinds
  <2>2. CASE ReceiveTask BY <1>0, <1>1, <2>1, <2>2 DEF ReceiveTask
  <2>3. CASE WriteTask BY <1>0, <1>2, <2>1, <2>3 DEF WriteTask
  <2>4. CASE AnswerTask BY <1>0, <1>1, <2>1, <2>4 DEF AnswerTask
  <2> QED BY <1>5, <2>2, <2>3, <2>4 DEF WorkerStep
<1>6. ASSUME NEW k \in Controller, CallControl(k) \/ WriteControl(k) PROVE SnapshotInv'
  <2>1. k \in Goroutine \ Collector BY Kinds
  <2>2. CASE CallControl(k) BY <1>0, <1>1, <2>1, <2>2 DEF CallControl
  <2>3. CASE WriteControl(k) BY <1>0, <1>2, <2>1, <2>3 DEF WriteControl
  <2> QED BY <1>6, <2>2, <2>3
<1>7. ASSUME NEW c \in Collector, CallCollect(c) \/ EndCollect(c) PROVE SnapshotInv'
  <2>1. /\ \A d \in Collector : d # c => pc'[d] = pc[d] /\ result'[d] = result[d]
        /\ pc'[c] \in {"lock", "idle"} /\ regs' = regs
    BY <1>0, <1>7, GotoType, Kinds DEF CallCollect, EndCollect
  <2>2. pc'[c] = "lock" => \A n \in PointName : result'[c][n] = Absent
    BY <1>0, <1>7, GotoType, Kinds DEF CallCollect, EndCollect
  <2> QED BY <2>1, <2>2 DEF SnapshotInv
<1>8. ASSUME NEW c \in Collector, CollectPoint(c) PROVE SnapshotInv'
  <2>1. pc' = pc /\ regs' = regs /\ pc[c] = "io" /\ next[c] \in DOMAIN Points
    BY <1>8, PointsList DEF CollectPoint, ParallelInv, TypeInv
  <2> DEFINE m == Points[next[c]].name
  <2>2. PICK v \in {regs[m], ReadError} : result' = [result EXCEPT ![c][m] = v]
    BY <1>8 DEF CollectPoint
  <2>3. m \in PointName BY <2>1, PointsList
  <2>4. /\ \A d \in Collector : d # c => result'[d] = result[d]
        /\ \A n \in PointName : result'[c][n] = IF n = m THEN v ELSE result[c][n]
    <3> HIDE DEF m
    <3> QED BY <1>0, <2>2, <2>3
  <2> HIDE DEF m
  <2> QED BY <2>1, <2>2, <2>4 DEF SnapshotInv
<1>9. ASSUME NEW p \in ParCaller, CallParallel(p) \/ ParallelStep(p) PROVE SnapshotInv'
  <2>1. p \in Goroutine \ Collector BY Kinds
  <2>2. CASE CallParallel(p) BY <1>0, <1>1, <2>1, <2>2 DEF CallParallel
  <2>3. CASE SkipWriteOnly(p) BY <2>3 DEF SkipWriteOnly, SnapshotInv
  <2>4. CASE SpawnReader(p)
    <3>1. <<p, next[p]>> \in PointReader
      BY <2>4, PointsList DEF SpawnReader, PointReader, TypeInv, ParallelInv
    <3>2. <<p, next[p]>> \in Goroutine \ Collector BY <3>1, Kinds
    <3> QED BY <1>0, <1>1, <2>4, <3>2 DEF SpawnReader
  <2>5. CASE ReturnParallel(p) BY <1>0, <1>1, <2>1, <2>5 DEF ReturnParallel
  <2> QED BY <1>9, <2>2, <2>3, <2>4, <2>5 DEF ParallelStep
<1>10. ASSUME NEW r \in PointReader, ReaderStep(r) PROVE SnapshotInv'
  <2>1. r \in Goroutine \ Collector BY Kinds
  <2> QED BY <1>0, <1>1, <1>10, <2>1 DEF ReaderStep, ReadOnePoint, StoreResult
<1>11. CASE UNCHANGED vars
  BY <1>11 DEF vars, SnapshotInv
<1> QED
  BY <1>3, <1>4, <1>5, <1>6, <1>7, <1>8, <1>9, <1>10, <1>11 DEF Next, CollectorStep

\* No write falls between the reads of a scan, so that what a scan has read are
\* values the registers hold together.
THEOREM ScanIsSnapshot == Spec => []CollectIsSnapshot
<1>1. Init => SnapshotInv BY Kinds DEF Init, SnapshotInv
<1>2. SnapshotInv => CollectIsSnapshot BY DEF SnapshotInv, CollectIsSnapshot
<1> QED BY LockAlways, SnapshotStep, <1>1, <1>2, PTL DEF Spec

-----------------------------------------------------------------------------
(* The queue and its worker implement ControlService.                      *)

\* Tasks are distinct on their way through the queue, and none that is in the
\* queue or not yet there has been carried out or answered. What has been
\* accepted is in the queue, in hand or answered.
Untouched(t) == t \notin applied /\ respCh[t] = "none"
Kept ==
  \A t \in Task : phase[t] = "sent" =>
    t \in Range(writeQueue) \/ t = task \/ respCh[t] # "none"
QueueInv ==
  /\ NoDuplicates(writeQueue)
  /\ task \notin Range(writeQueue)
  /\ \A t \in Range(writeQueue) : Untouched(t)
  /\ \A t \in Task : phase[t] # "sent" =>
       Untouched(t) /\ t \notin Range(writeQueue) /\ t # task
  /\ pc[Worker] \in {"lock", "io"} => task \notin applied
  /\ pc[Worker] = "answer" => failed \/ task \in applied
  /\ task # NoTask => respCh[task] = "none"
  /\ Kept

ServiceInv == TypeInv /\ QueueInv

LEMMA ServiceInvInit == Init => ServiceInv
<1> SUFFICES ASSUME Init PROVE ServiceInv
  OBVIOUS
<1>1. Range(writeQueue) = {} /\ NoDuplicates(writeQueue)
  BY DEF Init, Range, NoDuplicates
<1>2. pc[Worker] = "idle" BY Kinds DEF Init
<1> QED
  BY <1>1, <1>2, TypeInit, QueueConstants DEF Init, ServiceInv, QueueInv, Untouched, Kept

LEMMA QueueType ==
  ASSUME TypeInv
  PROVE  /\ writeQueue \in Seq(Task) /\ task \in Task \cup {NoTask} /\ NoTask \notin Task
         /\ respCh \in [Task -> {"none", "ok", "error"}]
         /\ phase \in [Task -> {"new", "sending", "sent"}]
BY QueueConstants DEF TypeInv

LEMMA EnqueueServes ==
  ASSUME ServiceInv, NEW t \in Task, Enqueue(t)
  PROVE  QueueInv' /\ Service!Accept(t)
<1> USE DEF ServiceInv, QueueInv, Untouched, Enqueue
<1>1. t \notin Range(writeQueue) /\ t # task /\ Untouched(t)
  OBVIOUS
<1>2. Range(writeQueue') = Range(writeQueue) \cup {t} /\ NoDuplicates(writeQueue')
  BY QueueType, <1>1, RangeAppend, AppendKeepsDistinct
<1>3. QueueInv'
  <2>1. Kept' BY QueueType, <1>2 DEF Kept
  <2> QED BY QueueType, <1>1, <1>2, <2>1
<1>4. Waiting' = Append(Waiting, t)
  BY QueueType, QueueBehind DEF Waiting
<1>5. \A i \in DOMAIN Waiting : Waiting[i] # t
  <2>1. CASE task = NoTask
    BY <1>1, <2>1 DEF Waiting, Range
  <2>2. CASE task # NoTask
    <3>1. Range(Waiting) = {task} \cup Range(writeQueue)
      BY QueueType, <2>2, RangeInHand DEF Waiting
    <3> QED BY <1>1, <3>1 DEF Range
  <2> QED BY <2>1, <2>2
<1> QED BY <1>1, <1>3, <1>4, <1>5 DEF Service!Accept

LEMMA ReceiveServes ==
  ASSUME ServiceInv, ReceiveTask
  PROVE  QueueInv' /\ UNCHANGED Service!serviceVars
<1> USE DEF ServiceInv, QueueInv, Untouched, ReceiveTask
<1>1. /\ task = NoTask /\ writeQueue' = Tail(writeQueue)
      /\ task' = Head(writeQueue) /\ task' \in Task
  BY QueueType DEF TypeInv, TaskInHand
<1>2. /\ Range(writeQueue) = {task'} \cup Range(writeQueue')
      /\ NoDuplicates(writeQueue') /\ task' \notin Range(writeQueue')
  BY QueueType, <1>1, RangeHeadTail, TailKeepsDistinct
<1>3. pc'[Worker] = "lock"
  BY GotoType, Kinds DEF PcStates, TypeInv
<1>4. QueueInv'
  <2>1. Kept' BY QueueType, <1>1, <1>2 DEF Kept
  <2> QED BY <1>1, <1>2, <1>3, <2>1
<1>5. Waiting' = Waiting
  <2>1. task' # NoTask BY <1>1, QueueType
  <2>2. Waiting' = <<Head(writeQueue)>> \o Tail(writeQueue)
    BY <1>1, <2>1 DEF Waiting
  <2> QED BY QueueType, <1>1, <2>2, TakenInHand DEF Waiting
<1> QED BY <1>4, <1>5 DEF Service!serviceVars

LEMMA WriteServes ==
  ASSUME ServiceInv, WriteTask
  PROVE  QueueInv' /\ (Service!Perform \/ UNCHANGED Service!serviceVars)
<1> USE DEF ServiceInv, QueueInv, Untouched, WriteTask
<1>1. /\ task \in Task /\ task \notin applied
      /\ Waiting # <<>> /\ Head(Waiting) = task
  BY QueueType, InHandFirst DEF TypeInv, TaskInHand, Waiting
<1>2. pc'[Worker] = "answer"
  BY GotoType, Kinds DEF PcStates, TypeInv
<1>3. PICK reaches \in BOOLEAN, fails \in BOOLEAN :
        /\ (reaches \/ fails) /\ failed' = fails
        /\ applied' = IF reaches THEN applied \cup {task} ELSE applied
  BY DEF AdapterWrite
<1>4. QueueInv'
  <2>1. Kept' BY DEF Kept
  <2> QED BY QueueType, <1>1, <1>2, <1>3, <2>1
<1>5. Waiting' = Waiting BY DEF Waiting
<1>6. CASE reaches
  BY <1>1, <1>3, <1>4, <1>5, <1>6 DEF Service!Perform
<1>7. CASE ~reaches
  BY <1>3, <1>4, <1>5, <1>7 DEF Service!serviceVars
<1> QED BY <1>6, <1>7

LEMMA AnswerServes ==
  ASSUME ServiceInv, AnswerTask
  PROVE  QueueInv' /\ \E a \in {"ok", "error"} : Service!Answer(a)
<1> USE DEF ServiceInv, QueueInv, Untouched, AnswerTask
<1>1. /\ task \in Task /\ (failed \/ task \in applied)
      /\ Waiting # <<>> /\ Head(Waiting) = task /\ Tail(Waiting) = writeQueue
  BY QueueType, InHandFirst DEF TypeInv, TaskInHand, Waiting
<1>2. pc'[Worker] = "idle"
  BY GotoType, Kinds DEF PcStates, TypeInv
<1>3. QueueInv'
  <2>1. \A t \in Task \ {task} : respCh'[t] = respCh[t]
    BY QueueType
  <2>2. Range(writeQueue) \subseteq Task BY QueueType DEF Range
  <2>3. \A t \in Task \ {task} : Untouched(t) => Untouched(t)'
    BY <2>1
  <2>4. Kept' BY QueueType, <2>1, <1>1 DEF Kept
  <2> QED BY QueueType, <1>2, <2>2, <2>3, <2>4
<1>4. Waiting' = writeQueue BY DEF Waiting
<1>5. CASE failed
  BY <1>1, <1>3, <1>4, <1>5 DEF Service!Answer
<1>6. CASE ~failed
  BY <1>1, <1>3, <1>4, <1>6 DEF Service!Answer
<1> QED BY <1>5, <1>6

LEMMA ServiceStep ==
  ServiceInv /\ [Next]_vars
    => ServiceInv' /\ [Service!ServiceNext]_(Service!serviceVars)
<1> SUFFICES ASSUME ServiceInv, [Next]_vars
             PROVE  ServiceInv' /\ [Service!ServiceNext]_(Service!serviceVars)
  OBVIOUS
<1> USE DEF ServiceInv, asyncVars, collectVars, parVars
<1>0. /\ {"idle", "lock", "io", "answer", "spawn", "store", "returned"} = PcStates
      /\ pc \in [Goroutine -> PcStates] /\ TypeInv'
  BY TypeStep DEF PcStates, TypeInv
\* A step of a goroutine that is not the worker.
<1>1. ASSUME UNCHANGED asyncVars, pc'[Worker] = pc[Worker]
      PROVE  QueueInv' /\ UNCHANGED Service!serviceVars
  BY <1>1 DEF QueueInv, Untouched, Kept, Service!serviceVars, Waiting
<1>2. ASSUME NEW g \in Goroutine \ {Worker}, NEW label \in PcStates, Goto(g, label),
             UNCHANGED asyncVars
      PROVE  QueueInv' /\ UNCHANGED Service!serviceVars
  <2>1. pc'[Worker] = pc[Worker] BY <1>0, <1>2, GotoType, Kinds
  <2> QED BY <1>1, <1>2, <2>1
<1>3. ASSUME NEW g \in Goroutine, Lock(g)
      PROVE  QueueInv' /\ UNCHANGED Service!serviceVars
  <2>1. CASE g = Worker
    <3>1. pc[Worker] = "lock" /\ pc'[Worker] = "io"
      BY <1>0, <1>3, <2>1, GotoType DEF Lock
    <3> QED BY <1>3, <3>1 DEF Lock, QueueInv, Untouched, Kept, Service!serviceVars, Waiting
  <2>2. CASE g # Worker BY <1>0, <1>2, <1>3, <2>2 DEF Lock
  <2> QED BY <2>1, <2>2
<1>4. ASSUME NEW t \in Task, ControlAsync(t)
      PROVE  QueueInv' /\ UNCHANGED Service!serviceVars
  <2>1. QueueInv' BY QueueType, <1>4 DEF ControlAsync, QueueInv, Untouched, Kept
  <2> QED BY <1>4, <2>1 DEF ControlAsync, Service!serviceVars, Waiting
<1>5. ASSUME NEW t \in Task, Enqueue(t) PROVE QueueInv' /\ Service!ServiceNext
  BY <1>5, EnqueueServes DEF Service!ServiceNext
<1>6. CASE WorkerStep
  BY <1>0, <1>6, ReceiveServes, WriteServes, AnswerServes
     DEF WorkerStep, Service!ServiceNext
<1>7. ASSUME NEW k \in Controller, CallControl(k) \/ WriteControl(k)
      PROVE  QueueInv' /\ UNCHANGED Service!serviceVars
  <2>1. k \in Goroutine \ {Worker} BY Kinds
  <2>2. UNCHANGED asyncVars BY <1>7 DEF CallControl, WriteControl
  <2>3. Goto(k, "lock") \/ Goto(k, "returned") BY <1>7 DEF CallControl, WriteControl
  <2> QED BY <1>0, <1>2, <2>1, <2>2, <2>3
<1>8. ASSUME NEW c \in Collector, CallCollect(c) \/ CollectorStep(c)
      PROVE  QueueInv' /\ UNCHANGED Service!serviceVars
  <2>1. c \in Goroutine \ {Worker} BY Kinds
  <2>2. UNCHANGED asyncVars
    BY <1>8 DEF CallCollect, CollectorStep, CollectPoint, EndCollect
  <2>3. Goto(c, "lock") \/ Goto(c, "idle") \/ pc' = pc
    BY <1>8 DEF CallCollect, CollectorStep, CollectPoint, EndCollect
  <2> QED BY <1>0, <1>1, <1>2, <2>1, <2>2, <2>3
<1>9. ASSUME NEW p \in ParCaller, CallParallel(p) \/ ParallelStep(p)
      PROVE  QueueInv' /\ UNCHANGED Service!serviceVars
  <2>1. p \in Goroutine \ {Worker} BY Kinds
  <2>2. UNCHANGED asyncVars
    BY <1>9 DEF CallParallel, ParallelStep, SkipWriteOnly, SpawnReader, ReturnParallel
  <2>3. CASE CallParallel(p) BY <1>0, <1>2, <2>1, <2>2, <2>3 DEF CallParallel
  <2>4. CASE SkipWriteOnly(p) BY <1>1, <2>2, <2>4 DEF SkipWriteOnly
  <2>5. CASE SpawnReader(p)
    <3>1. <<p, next[p]>> \in PointReader
      BY <2>5, PointsList DEF SpawnReader, PointReader, TypeInv
    <3>2. <<p, next[p]>> \in Goroutine \ {Worker} BY <3>1, Kinds
    <3> QED BY <1>0, <1>2, <2>2, <2>5, <3>2 DEF SpawnReader
  <2>6. CASE ReturnParallel(p) BY <1>0, <1>2, <2>1, <2>2, <2>6 DEF ReturnParallel
  <2> QED BY <1>9, <2>3, <2>4, <2>5, <2>6 DEF ParallelStep
<1>10. ASSUME NEW r \in PointReader, ReaderStep(r)
       PROVE  QueueInv' /\ UNCHANGED Service!serviceVars
  <2>1. r \in Goroutine \ {Worker} BY Kinds
  <2> QED BY <1>0, <1>2, <1>10, <2>1 DEF ReaderStep, ReadOnePoint, StoreResult
<1>11. CASE UNCHANGED vars
  BY <1>1, <1>11, <1>0 DEF vars
<1> QED
  BY <1>0, <1>3, <1>4, <1>5, <1>6, <1>7, <1>8, <1>9, <1>10, <1>11 DEF Next

\* The device implements the control service: tasks are carried out one by one
\* in the order of acceptance, each at most once, each answered at most once,
\* and none is called done that has not been written.
THEOREM DeviceImplementsService == Spec => ImplementsService
<1>1. Init => Service!ServiceInit
  BY DEF Init, Service!ServiceInit, Waiting
<1>2. ServiceInv /\ [Next]_vars => [Service!ServiceNext]_(Service!serviceVars)
  BY ServiceStep
<1>3. ServiceInv /\ [Next]_vars => ServiceInv'
  BY ServiceStep
<1> QED
  BY ServiceInvInit, <1>1, <1>2, <1>3, PTL
     DEF Spec, ImplementsService, Service!ServiceSpec

\* No accepted request is ever out of everybody's hands without an answer.
LEMMA AcceptedIsKept == ServiceInv => NoneForgotten
<1> SUFFICES ASSUME ServiceInv, NEW t \in Task, phase[t] = "sent", respCh[t] = "none"
             PROVE  t \in Range(Waiting)
  BY DEF NoneForgotten
<1>1. t \in Range(writeQueue) \/ t = task
  BY DEF ServiceInv, QueueInv, Kept
<1>2. CASE task = NoTask
  BY <1>1, <1>2, QueueConstants DEF Waiting
<1>3. CASE task # NoTask
  <2>1. Range(Waiting) = {task} \cup Range(writeQueue)
    BY <1>3, QueueType, RangeInHand DEF Waiting, ServiceInv
  <2> QED BY <1>1, <2>1
<1> QED BY <1>2, <1>3

\* Every accepted request waits, is in hand or has its answer, for any number
\* of requests and any capacity of the queue.
THEOREM NothingForgotten == Spec => []NoneForgotten
<1>1. ServiceInv /\ [Next]_vars => ServiceInv' BY ServiceStep
<1> QED BY ServiceInvInit, AcceptedIsKept, <1>1, PTL DEF Spec

-----------------------------------------------------------------------------
(* Nobody waits in a circle.                                               *)

\* Where the goroutines of each kind can be.
Whereabouts ==
  /\ pc[Worker] \in {"idle", "lock", "io", "answer"}
  /\ \A c \in Collector : pc[c] \in {"idle", "lock", "io"}
  /\ \A k \in Controller : pc[k] \in {"idle", "lock", "io", "returned"}
  /\ \A p \in ParCaller : pc[p] \in {"idle", "spawn", "returned"}
  /\ \A r \in PointReader : pc[r] \in {"idle", "lock", "io", "store"}

LEMMA WhereaboutsInit == Init => Whereabouts
BY Kinds DEF Init, Whereabouts

LEMMA WhereaboutsStep == TypeInv /\ Whereabouts /\ [Next]_vars => Whereabouts'
<1> SUFFICES ASSUME TypeInv, Whereabouts, [Next]_vars PROVE Whereabouts'
  OBVIOUS
<1> USE Kinds DEF Whereabouts
<1>0. /\ {"idle", "lock", "io", "answer", "spawn", "store", "returned"} = PcStates
      /\ pc \in [Goroutine -> PcStates]
  BY DEF PcStates, TypeInv
<1>1. ASSUME NEW g \in Goroutine, Lock(g) PROVE Whereabouts'
  <2>1. /\ pc[g] = "lock" /\ pc'[g] = "io" /\ \A h \in Goroutine \ {g} : pc'[h] = pc[h]
    BY <1>0, <1>1, GotoType DEF Lock
  <2> QED BY <2>1
<1>2. CASE WorkerStep
  <2>1. /\ pc'[Worker] \in {"idle", "lock", "answer"}
        /\ \A h \in Goroutine \ {Worker} : pc'[h] = pc[h]
    BY <1>0, <1>2, GotoType DEF WorkerStep, ReceiveTask, WriteTask, AnswerTask
  <2> QED BY <2>1
<1>3. ASSUME NEW k \in Controller, CallControl(k) \/ WriteControl(k) PROVE Whereabouts'
  <2>1. /\ pc'[k] \in {"lock", "returned"} /\ \A h \in Goroutine \ {k} : pc'[h] = pc[h]
    BY <1>0, <1>3, GotoType DEF CallControl, WriteControl
  <2> QED BY <2>1
<1>4. ASSUME NEW c \in Collector, CallCollect(c) \/ EndCollect(c) PROVE Whereabouts'
  <2>1. /\ pc'[c] \in {"lock", "idle"} /\ \A h \in Goroutine \ {c} : pc'[h] = pc[h]
    BY <1>0, <1>4, GotoType DEF CallCollect, EndCollect
  <2> QED BY <2>1
<1>5. ASSUME NEW p \in ParCaller, CallParallel(p) \/ ReturnParallel(p) PROVE Whereabouts'
  <2>1. /\ pc'[p] \in {"spawn", "returned"} /\ \A h \in Goroutine \ {p} : pc'[h] = pc[h]
    BY <1>0, <1>5, GotoType DEF CallParallel, ReturnParallel
  <2> QED BY <2>1
<1>6. ASSUME NEW p \in ParCaller, SpawnReader(p) PROVE Whereabouts'
  <2> DEFINE r == <<p, next[p]>>
  <2>1. r \in PointReader
    BY <1>6, PointsList DEF SpawnReader, PointReader, TypeInv
  <2>2. /\ pc'[r] = "lock" /\ \A h \in Goroutine \ {r} : pc'[h] = pc[h]
    BY <1>0, <1>6, <2>1, GotoType DEF SpawnReader
  <2> HIDE DEF r
  <2> QED BY <2>1, <2>2
<1>7. ASSUME NEW r \in PointReader, ReaderStep(r) PROVE Whereabouts'
  <2>1. /\ pc'[r] \in {"store", "idle"} /\ \A h \in Goroutine \ {r} : pc'[h] = pc[h]
    BY <1>0, <1>7, GotoType DEF ReaderStep, ReadOnePoint, StoreResult
  <2> QED BY <2>1
<1>8. ASSUME UNCHANGED pc PROVE Whereabouts'
  BY <1>8
<1>9. ASSUME NEW t \in Task, ControlAsync(t) \/ Enqueue(t) PROVE UNCHANGED pc
  BY <1>9 DEF ControlAsync, Enqueue
<1>10. ASSUME NEW c \in Collector, CollectPoint(c) PROVE UNCHANGED pc
  BY <1>10 DEF CollectPoint
<1>11. ASSUME NEW p \in ParCaller, SkipWriteOnly(p) PROVE UNCHANGED pc
  BY <1>11 DEF SkipWriteOnly
<1>12. CASE UNCHANGED vars
  BY <1>8, <1>12 DEF vars
<1> HIDE DEF Whereabouts
<1> QED
  BY <1>1, <1>2, <1>3, <1>4, <1>5, <1>6, <1>7, <1>8, <1>9, <1>10, <1>11, <1>12
     DEF Next, CollectorStep, ParallelStep

LEMMA ServiceAlways == Spec => []ServiceInv
<1>1. ServiceInv /\ [Next]_vars => ServiceInv' BY ServiceStep
<1> QED BY ServiceInvInit, <1>1, PTL DEF Spec

\* Who holds the lock can go on; hence so can somebody if anybody wants it.
LEMMA LockNotStuck ==
  ASSUME ParallelInv, LockInv, Whereabouts, NEW g \in Goroutine, pc[g] = "lock"
  PROVE  \E h \in Goroutine : CanGoOn(h)
<1>1. CASE mu = Nobody BY <1>1 DEF CanGoOn
<1>2. CASE mu # Nobody
  <2>1. mu \in Goroutine /\ pc[mu] = "io" BY <1>2 DEF ParallelInv, TypeInv, LockInv
  <2>2. mu \notin ParCaller BY <2>1 DEF Whereabouts
  <2> QED BY <2>1, <2>2 DEF CanGoOn
<1> QED BY <1>1, <1>2

\* The WaitGroup of a call stands for goroutines that can go on or want the
\* lock.
LEMMA WaitNotStuck ==
  ASSUME ParallelInv, LockInv, Whereabouts, NEW p \in ParCaller, pc[p] = "spawn"
  PROVE  \E h \in Goroutine : CanGoOn(h)
<1>1. p \in Goroutine /\ wg[p] = Cardinality(Running(p))
  BY Kinds DEF ParallelInv, ReadersInv
<1>2. CASE wg[p] = 0 \/ next[p] <= Len(Points)
  BY <1>1, <1>2 DEF CanGoOn
<1>3. CASE wg[p] # 0
  <2>1. Running(p) # {} BY <1>1, <1>3, FS_EmptySet
  <2>2. PICK i \in DOMAIN Points : pc[<<p, i>>] # "idle" BY <2>1 DEF Running
  <2>3. <<p, i>> \in Goroutine /\ <<p, i>> \in PointReader /\ <<p, i>> \notin ParCaller
    BY ReaderId, Kinds
  <2>4. pc[<<p, i>>] \in {"lock", "io", "store"}
    BY <2>2 DEF ParallelInv, ReadersInv
  <2> QED BY <2>3, <2>4, LockNotStuck DEF CanGoOn
<1> QED BY <1>2, <1>3

\* While a scan, a write or a collection is under way, some goroutine can take
\* its next step: the lock, the queue and the WaitGroups cannot lock each other
\* up, for any number of goroutines, requests and points.
THEOREM DeviceNeverStuck == Spec => []NeverStuck
<1>1. ParallelInv /\ LockInv /\ Whereabouts /\ ServiceInv => NeverStuck
  <2> SUFFICES ASSUME ParallelInv, LockInv, Whereabouts, ServiceInv, UnderWay,
                      \A t \in Task : phase[t] = "sending" => ~(Len(writeQueue) < QueueCap)
               PROVE  \E h \in Goroutine : CanGoOn(h)
    BY DEF NeverStuck
  <2>1. /\ pc \in [Goroutine -> PcStates] /\ Worker \in Goroutine
        /\ pc[Worker] \in {"lock", "io", "answer"} <=> task # NoTask
        /\ writeQueue \in Seq(Task) /\ QueueCap \in Nat \ {0}
        /\ phase \in [Task -> {"new", "sending", "sent"}]
    BY Kinds, QueueConstants DEF ParallelInv, TypeInv, TaskInHand
  <2>2. ASSUME NEW g \in Goroutine, pc[g] \notin {"idle", "returned"}
        PROVE  \E h \in Goroutine : CanGoOn(h)
    <3>1. CASE pc[g] = "lock" BY <3>1, LockNotStuck
    <3>2. CASE g \in ParCaller BY <2>2, <3>2, WaitNotStuck DEF Whereabouts
    <3>3. CASE pc[g] # "lock" /\ g \notin ParCaller
      <4>1. pc[g] \in {"io", "answer", "store"}
            /\ (pc[g] = "answer" => g = Worker) /\ (pc[g] = "store" => g \in PointReader)
        BY <2>2, <3>3, Kinds DEF Whereabouts, Goroutine
      <4> QED BY <3>3, <4>1 DEF CanGoOn
    <3> QED BY <3>1, <3>2, <3>3
  <2>3. ASSUME writeQueue # <<>> \/ task # NoTask
        PROVE  \E h \in Goroutine : CanGoOn(h)
    <3>1. pc[Worker] # "returned" BY DEF Whereabouts
    <3>2. CASE pc[Worker] = "idle" BY <2>1, <2>3, <3>2 DEF CanGoOn
    <3> QED BY <2>1, <2>2, <3>1, <3>2
  <2>4. ASSUME NEW t \in Task, phase[t] # "new", respCh[t] = "none"
        PROVE  writeQueue # <<>> \/ task # NoTask
    <3>1. CASE phase[t] = "sending" BY <2>1, <3>1
    <3>2. CASE phase[t] = "sent"
      <4>1. t \in Range(writeQueue) \/ t = task
        BY <2>4, <3>2 DEF ServiceInv, QueueInv, Kept
      <4>2. Range(<<>>) = {} BY DEF Range
      <4> QED BY <4>1, <4>2, QueueConstants
    <3> QED BY <2>1, <2>4, <3>1, <3>2
  <2> QED BY <2>2, <2>3, <2>4 DEF UnderWay
<1>2. TypeInv /\ Whereabouts /\ [Next]_vars => Whereabouts' BY WhereaboutsStep
<1>3. ParallelInv => TypeInv BY DEF ParallelInv
<1> QED BY LockAlways, ServiceAlways, WhereaboutsInit, <1>1, <1>2, <1>3, PTL DEF Spec
=============================================================================
