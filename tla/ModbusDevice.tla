---------------------------- MODULE ModbusDevice ----------------------------
(***************************************************************************)
(* cycV2/internal/device/modbus_device.go: one ModbusDevice, whose adapter *)
(* is shared by the goroutine that carries out the queued writes           *)
(* (writeWorker), the pipelines that scan it (Collect), the goroutines     *)
(* that read its points in parallel (CollectAllParallel) and the callers   *)
(* that write synchronously (Control). All of them take d.mu.              *)
(*                                                                         *)
(* The slave behind the adapter is external: a memory of points that each  *)
(* write sets and any read or write may fail to reach. What a write        *)
(* carries is the request itself; the merging of parameters and the        *)
(* parsing of the bytes are left out. No code closes writeQueue, hence     *)
(* writeWorker never ends.                                                 *)
(***************************************************************************)
EXTENDS Integers, Sequences, FiniteSets, Functions

CONSTANTS
  PointName,  \* PointConfig.Name; also names the register of the point
  Points,     \* Cfg.Points: a sequence of [name, rw]
  Worker,     \* the writeWorker goroutine
  Collector,  \* goroutines that call Collect, again and again
  ParCaller,  \* goroutines that call CollectAllParallel, again and again
  Controller, \* goroutines that call Control, once each
  Task,       \* calls of ControlAsync
  Target,     \* the point each Task and each Controller writes
  QueueCap,   \* capacity of writeQueue (100 in the code)
  Nobody,     \* d.mu is free
  NoTask,     \* the worker has no task in hand
  Initial,    \* content of the registers before the first write
  Absent,     \* a name that is not in a result map
  ReadError   \* what Collect stores for a point it could not read

\* One goroutine per point, started by CollectAllParallel.
PointReader == ParCaller \X DOMAIN Points

Goroutine == {Worker} \cup Collector \cup ParCaller \cup Controller \cup PointReader
Writer    == Task \cup Controller
Value     == Writer \cup {Initial}

ASSUME DeviceAssumption ==
  /\ Points \in Seq([name : PointName, rw : {"r", "w", "rw", ""}])
  /\ Target \in [Writer -> PointName]
  /\ QueueCap \in Nat \ {0}
  /\ Nobody \notin Goroutine
  /\ NoTask \notin Task
  /\ Absent \notin Value \cup {ReadError}
  /\ ReadError \notin Value
  /\ Worker \notin Collector \cup ParCaller \cup Controller \cup PointReader
  /\ Collector \cap (ParCaller \cup Controller \cup PointReader) = {}
  /\ ParCaller \cap (Controller \cup PointReader) = {}
  /\ Controller \cap PointReader = {}

VARIABLES
  pc,         \* where each goroutine is
  mu,         \* holder of d.mu
  writeQueue, \* tasks waiting for the worker
  phase,      \* where each call of ControlAsync is
  task,       \* the task the worker has in hand
  failed,     \* the error its write returned, if any
  respCh,     \* what the response channel of each task has been given
  next,       \* index of the next point of a scan or of a loop
  result,     \* the map a Collect is filling
  wg,         \* the WaitGroup of each CollectAllParallel
  got,        \* outcome of the read of each point reader
  results,    \* the map a CollectAllParallel is filling
  errs,       \* some point has been added to its errs
  regs,       \* the registers of the slave
  applied     \* history: tasks whose write has reached the slave

asyncVars   == <<writeQueue, phase, task, failed, respCh, applied>>
collectVars == <<result>>
parVars     == <<wg, got, results, errs>>
vars == <<pc, mu, asyncVars, next, collectVars, parVars, regs>>

PcStates ==
  {"idle", "lock", "io", "answer", "spawn", "store", "returned"}

DeviceTypeOK ==
  /\ pc \in [Goroutine -> PcStates]
  /\ mu \in Goroutine \cup {Nobody}
  /\ writeQueue \in Seq(Task)
  /\ Len(writeQueue) <= QueueCap
  /\ phase \in [Task -> {"new", "sending", "sent"}]
  /\ task \in Task \cup {NoTask}
  /\ failed \in BOOLEAN
  /\ respCh \in [Task -> {"none", "ok", "error"}]
  /\ next \in [Collector \cup ParCaller -> 1..(Len(Points) + 1)]
  /\ result \in [Collector -> [PointName -> Value \cup {Absent, ReadError}]]
  /\ wg \in [ParCaller -> 0..Len(Points)]
  /\ got \in [PointReader -> {"value", "nil"}]
  /\ results \in [ParCaller -> [PointName -> {"absent", "value", "nil"}]]
  /\ errs \in [ParCaller -> BOOLEAN]
  /\ regs \in [PointName -> Value]
  /\ applied \in SUBSET Task

Init ==
  /\ pc = [g \in Goroutine |-> "idle"]
  /\ mu = Nobody
  /\ writeQueue = <<>>
  /\ phase = [t \in Task |-> "new"]
  /\ task = NoTask
  /\ failed = FALSE
  /\ respCh = [t \in Task |-> "none"]
  /\ next = [g \in Collector \cup ParCaller |-> 1]
  /\ result = [c \in Collector |-> [n \in PointName |-> Absent]]
  /\ wg = [p \in ParCaller |-> 0]
  /\ got = [r \in PointReader |-> "nil"]
  /\ results = [p \in ParCaller |-> [n \in PointName |-> "absent"]]
  /\ errs = [p \in ParCaller |-> FALSE]
  /\ regs = [n \in PointName |-> Initial]
  /\ applied = {}

-----------------------------------------------------------------------------
(* d.mu and the adapter.                                                   *)

Goto(g, label) == pc' = [pc EXCEPT ![g] = label]

\* Seeded bug: the lock is not taken.
Lock_Forgotten(g) ==
  /\ pc[g] = "lock"
  /\ Goto(g, "io")
  /\ UNCHANGED <<mu, asyncVars, next, collectVars, parVars, regs>>

Lock(g) ==
  /\ pc[g] = "lock"
  /\ mu = Nobody
  /\ mu' = g
  /\ Goto(g, "io")
  /\ UNCHANGED <<asyncVars, next, collectVars, parVars, regs>>

\* Adapter.Write: a write that does not reach the slave returns an error; one
\* that does may return an error too (the reply was lost).
AdapterWrite(w, reaches, fails) ==
  /\ reaches \/ fails
  /\ regs' = IF reaches THEN [regs EXCEPT ![Target[w]] = w] ELSE regs

-----------------------------------------------------------------------------
(* Queued writes: ControlAsync and writeWorker.                            *)

ControlAsync(t) ==
  /\ phase[t] = "new"
  /\ phase' = [phase EXCEPT ![t] = "sending"]
  /\ UNCHANGED <<pc, mu, writeQueue, task, failed, respCh, applied, next,
                 collectVars, parVars, regs>>

\* Seeded bug: a task is put into the queue however full it is.
Enqueue_Unbounded(t) ==
  /\ phase[t] = "sending"
  /\ writeQueue' = Append(writeQueue, t)
  /\ phase' = [phase EXCEPT ![t] = "sent"]
  /\ UNCHANGED <<pc, mu, task, failed, respCh, applied, next, collectVars,
                 parVars, regs>>

\* The send blocks the caller while the queue is full.
Enqueue(t) ==
  /\ phase[t] = "sending"
  /\ Len(writeQueue) < QueueCap
  /\ writeQueue' = Append(writeQueue, t)
  /\ phase' = [phase EXCEPT ![t] = "sent"]
  /\ UNCHANGED <<pc, mu, task, failed, respCh, applied, next, collectVars,
                 parVars, regs>>

ReceiveTask ==
  /\ pc[Worker] = "idle"
  /\ writeQueue # <<>>
  /\ task' = Head(writeQueue)
  /\ writeQueue' = Tail(writeQueue)
  /\ Goto(Worker, "lock")
  /\ UNCHANGED <<mu, phase, failed, respCh, applied, next, collectVars, parVars,
                 regs>>

WriteTask ==
  /\ pc[Worker] = "io"
  /\ \E reaches, fails \in BOOLEAN :
       /\ AdapterWrite(task, reaches, fails)
       /\ failed' = fails
       /\ applied' = IF reaches THEN applied \cup {task} ELSE applied
  /\ mu' = Nobody
  /\ Goto(Worker, "answer")
  /\ UNCHANGED <<writeQueue, phase, task, respCh, next, collectVars, parVars>>

\* Seeded bug: a failed write gets no answer.
AnswerTask_OnlyOnSuccess ==
  /\ pc[Worker] = "answer"
  /\ respCh' = IF failed THEN respCh ELSE [respCh EXCEPT ![task] = "ok"]
  /\ task' = NoTask
  /\ Goto(Worker, "idle")
  /\ failed' = FALSE
  /\ UNCHANGED <<mu, writeQueue, phase, applied, next, collectVars, parVars, regs>>

\* Seeded bug: the answer does not carry the error of the write.
AnswerTask_AlwaysOk ==
  /\ pc[Worker] = "answer"
  /\ respCh' = [respCh EXCEPT ![task] = "ok"]
  /\ task' = NoTask
  /\ Goto(Worker, "idle")
  /\ failed' = FALSE
  /\ UNCHANGED <<mu, writeQueue, phase, applied, next, collectVars, parVars, regs>>

\* The channel has room for the one answer it is ever given.
AnswerTask ==
  /\ pc[Worker] = "answer"
  /\ respCh' = [respCh EXCEPT ![task] = IF failed THEN "error" ELSE "ok"]
  /\ task' = NoTask
  /\ Goto(Worker, "idle")
  /\ failed' = FALSE
  /\ UNCHANGED <<mu, writeQueue, phase, applied, next, collectVars, parVars, regs>>

-----------------------------------------------------------------------------
(* Control: a synchronous write by a caller of its own.                    *)

\* Seeded bug: the adapter is written without d.mu, as ModbusBus does.
CallControl_Bypass(k) ==
  /\ pc[k] = "idle"
  /\ Goto(k, "io")
  /\ UNCHANGED <<mu, asyncVars, next, collectVars, parVars, regs>>

CallControl(k) ==
  /\ pc[k] = "idle"
  /\ Goto(k, "lock")
  /\ UNCHANGED <<mu, asyncVars, next, collectVars, parVars, regs>>

WriteControl(k) ==
  /\ pc[k] = "io"
  /\ \E reaches, fails \in BOOLEAN : AdapterWrite(k, reaches, fails)
  /\ mu' = Nobody
  /\ Goto(k, "returned")
  /\ UNCHANGED <<asyncVars, next, collectVars, parVars>>

-----------------------------------------------------------------------------
(* Collect: one scan of all the points, write-only ones included, under     *)
(* the lock.                                                               *)

CallCollect(c) ==
  /\ pc[c] = "idle"
  /\ Goto(c, "lock")
  /\ next' = [next EXCEPT ![c] = 1]
  /\ result' = [result EXCEPT ![c] = [n \in PointName |-> Absent]]
  /\ UNCHANGED <<mu, asyncVars, parVars, regs>>

\* A point that cannot be read gets an error text, and the scan goes on.
CollectPoint(c) ==
  /\ pc[c] = "io"
  /\ next[c] <= Len(Points)
  /\ LET n == Points[next[c]].name
     IN  \E v \in {regs[n], ReadError} : result' = [result EXCEPT ![c][n] = v]
  /\ next' = [next EXCEPT ![c] = @ + 1]
  /\ UNCHANGED <<pc, mu, asyncVars, parVars, regs>>

\* The result goes to the caller.
EndCollect(c) ==
  /\ pc[c] = "io"
  /\ next[c] > Len(Points)
  /\ mu' = Nobody
  /\ Goto(c, "idle")
  /\ result' = [result EXCEPT ![c] = [n \in PointName |-> Absent]]
  /\ next' = [next EXCEPT ![c] = 1]
  /\ UNCHANGED <<asyncVars, parVars, regs>>

-----------------------------------------------------------------------------
(* CollectAllParallel: a goroutine per point that is not write-only, each  *)
(* of which takes the lock for its own read.                               *)

CallParallel(p) ==
  /\ pc[p] \in {"idle", "returned"}
  /\ Goto(p, "spawn")
  /\ next' = [next EXCEPT ![p] = 1]
  /\ results' = [results EXCEPT ![p] = [n \in PointName |-> "absent"]]
  /\ errs' = [errs EXCEPT ![p] = FALSE]
  /\ UNCHANGED <<mu, asyncVars, collectVars, wg, got, regs>>

SkipWriteOnly(p) ==
  /\ pc[p] = "spawn"
  /\ next[p] <= Len(Points)
  /\ Points[next[p]].rw = "w"
  /\ next' = [next EXCEPT ![p] = @ + 1]
  /\ UNCHANGED <<pc, mu, asyncVars, collectVars, parVars, regs>>

\* Seeded bug: wg.Add is left to the goroutine, which may be late.
SpawnReader_NoAdd(p) ==
  /\ pc[p] = "spawn"
  /\ next[p] <= Len(Points)
  /\ Points[next[p]].rw # "w"
  /\ Goto(<<p, next[p]>>, "lock")
  /\ next' = [next EXCEPT ![p] = @ + 1]
  /\ UNCHANGED <<mu, asyncVars, collectVars, parVars, regs>>

SpawnReader(p) ==
  /\ pc[p] = "spawn"
  /\ next[p] <= Len(Points)
  /\ Points[next[p]].rw # "w"
  /\ wg' = [wg EXCEPT ![p] = @ + 1]
  /\ Goto(<<p, next[p]>>, "lock")
  /\ next' = [next EXCEPT ![p] = @ + 1]
  /\ UNCHANGED <<mu, asyncVars, collectVars, got, results, errs, regs>>

\* The read of the point; the lock is given back before the result is stored.
ReadOnePoint(r) ==
  /\ pc[r] = "io"
  /\ \E outcome \in {"value", "nil"} : got' = [got EXCEPT ![r] = outcome]
  /\ mu' = Nobody
  /\ Goto(r, "store")
  /\ UNCHANGED <<asyncVars, next, collectVars, wg, results, errs, regs>>

\* Seeded bug: wg.Done is skipped when the read has failed.
StoreResult_NoDone(r) ==
  /\ pc[r] = "store"
  /\ results' = [results EXCEPT ![r[1]][Points[r[2]].name] = got[r]]
  /\ errs' = [errs EXCEPT ![r[1]] = @ \/ got[r] = "nil"]
  /\ wg' = [wg EXCEPT ![r[1]] = IF got[r] = "nil" THEN @ ELSE @ - 1]
  /\ got' = [got EXCEPT ![r] = "nil"]
  /\ Goto(r, "idle")
  /\ UNCHANGED <<mu, asyncVars, next, collectVars, regs>>

\* The map is guarded by a mutex of the call; wg.Done is deferred.
StoreResult(r) ==
  /\ pc[r] = "store"
  /\ results' = [results EXCEPT ![r[1]][Points[r[2]].name] = got[r]]
  /\ errs' = [errs EXCEPT ![r[1]] = @ \/ got[r] = "nil"]
  /\ wg' = [wg EXCEPT ![r[1]] = @ - 1]
  /\ got' = [got EXCEPT ![r] = "nil"]
  /\ Goto(r, "idle")
  /\ UNCHANGED <<mu, asyncVars, next, collectVars, regs>>

\* Seeded bug: the call does not wait for its goroutines.
ReturnParallel_NoWait(p) ==
  /\ pc[p] = "spawn"
  /\ next[p] > Len(Points)
  /\ Goto(p, "returned")
  /\ UNCHANGED <<mu, asyncVars, next, collectVars, parVars, regs>>

\* wg.Wait: the error is returned when errs is not empty.
ReturnParallel(p) ==
  /\ pc[p] = "spawn"
  /\ next[p] > Len(Points)
  /\ wg[p] = 0
  /\ Goto(p, "returned")
  /\ UNCHANGED <<mu, asyncVars, next, collectVars, parVars, regs>>

-----------------------------------------------------------------------------

\* What ends a section under the lock, or follows it, in each goroutine.
WorkerStep       == ReceiveTask \/ WriteTask \/ AnswerTask
CollectorStep(c) == CollectPoint(c) \/ EndCollect(c)
ParallelStep(p)  == SkipWriteOnly(p) \/ SpawnReader(p) \/ ReturnParallel(p)
ReaderStep(r)    == ReadOnePoint(r) \/ StoreResult(r)

Next ==
  \/ \E g \in Goroutine : Lock(g)
  \/ \E t \in Task : ControlAsync(t) \/ Enqueue(t)
  \/ WorkerStep
  \/ \E k \in Controller : CallControl(k) \/ WriteControl(k)
  \/ \E c \in Collector : CallCollect(c) \/ CollectorStep(c)
  \/ \E p \in ParCaller : CallParallel(p) \/ ParallelStep(p)
  \/ \E r \in PointReader : ReaderStep(r)

\* Go schedules every runnable goroutine. A sync.Mutex hands the lock over to
\* a waiter that has starved, and the senders blocked on a channel are served
\* in turn: strong fairness for both. Nobody is obliged to make a call.
Fairness ==
  /\ WF_vars(WorkerStep)
  /\ \A g \in Goroutine \ ParCaller : SF_vars(Lock(g))
  /\ \A t \in Task : SF_vars(Enqueue(t))
  /\ \A k \in Controller : WF_vars(WriteControl(k))
  /\ \A c \in Collector : WF_vars(CollectorStep(c))
  /\ \A p \in ParCaller : WF_vars(ParallelStep(p))
  /\ \A r \in PointReader : WF_vars(ReaderStep(r))

Spec     == Init /\ [][Next]_vars
FairSpec == Spec /\ Fairness

-----------------------------------------------------------------------------
(* Properties.                                                             *)

\* One request on the wire: no two goroutines are in a call of the adapter,
\* whichever of the four paths took them there.
OneRequestOnWire ==
  \A g, h \in Goroutine : pc[g] = "io" /\ pc[h] = "io" => g = h

\* Collect is a snapshot: no write of this device, queued or synchronous,
\* falls between the reads of one scan, so what it has read so far are the
\* values the registers hold together.
CollectIsSnapshot ==
  \A c \in Collector : pc[c] = "io" =>
    \A n \in PointName : result[c][n] \in {Absent, ReadError, regs[n]}

\* A call of CollectAllParallel that has returned has an entry for every
\* point it may read and for no other, and it returns an error whenever one
\* of them could not be read.
Readable(n) == \E i \in DOMAIN Points : Points[i].name = n /\ Points[i].rw # "w"
ParallelComplete ==
  \A p \in ParCaller : pc[p] = "returned" =>
    /\ \A n \in PointName : Readable(n) <=> results[p][n] # "absent"
    /\ (\E n \in PointName : results[p][n] = "nil") => errs[p]

\* No goroutine of CollectAllParallel outlives the call that started it: none
\* writes a map that the caller already has, or that of the next call.
ReadersEndWithCall ==
  \A p \in ParCaller : pc[p] \in {"idle", "returned"} =>
    \A i \in DOMAIN Points : pc[<<p, i>>] = "idle"

\* The queue and its worker serve the calls of ControlAsync one by one in the
\* order of acceptance, answer each once and never call a failed write done.
Waiting == IF task = NoTask THEN writeQueue ELSE <<task>> \o writeQueue
Service == INSTANCE ControlService
             WITH Request <- Task, waiting <- Waiting, performed <- applied,
                  answer <- respCh
ImplementsService == Service!ServiceSpec

\* No call of ControlAsync is forgotten: what has been accepted waits, or the
\* worker has it in hand, or it is answered.
NoneForgotten ==
  \A t \in Task : phase[t] = "sent" => t \in Range(Waiting) \/ respCh[t] # "none"

\* Nobody waits in a circle: d.mu, the queue and the WaitGroups never leave
\* calls under way with none of their goroutines able to go on.
CanGoOn(g) ==
  \/ pc[g] = "lock" /\ mu = Nobody
  \/ g \notin ParCaller /\ pc[g] = "io"
  \/ g = Worker /\ pc[g] = "idle" /\ writeQueue # <<>>
  \/ g = Worker /\ pc[g] = "answer"
  \/ g \in PointReader /\ pc[g] = "store"
  \/ g \in ParCaller /\ pc[g] = "spawn" /\ (next[g] <= Len(Points) \/ wg[g] = 0)
UnderWay ==
  \/ \E g \in Goroutine : pc[g] \notin {"idle", "returned"}
  \/ \E t \in Task : phase[t] # "new" /\ respCh[t] = "none"
NeverStuck ==
  UnderWay =>
    \/ \E g \in Goroutine : CanGoOn(g)
    \/ \E t \in Task : phase[t] = "sending" /\ Len(writeQueue) < QueueCap

\* Every call of ControlAsync gets its answer, also a call that found the
\* queue full, and although the device is scanned for ever.
ControlAnswered == \A t \in Task : phase[t] = "sending" ~> respCh[t] # "none"

\* A scan and a parallel collection end, although others compete for the lock
\* for ever; the wg of the latter comes down to 0.
CallsReturn ==
  /\ \A c \in Collector : pc[c] = "lock" ~> pc[c] = "idle"
  /\ \A p \in ParCaller : pc[p] = "spawn" ~> pc[p] = "returned"
=============================================================================
