----------------------------- MODULE Collector -----------------------------
(***************************************************************************)
(* cyc20250422/internal/collector/collector.go: the collector of the first *)
(* version. Its exported calls (AddDevice, ConnectDevice, DisconnectDevice,*)
(* StartTask, StopTask) exclude each other by c.mu, which they hold while  *)
(* they wait for a device. The goroutines they start (collectTask) never   *)
(* take c.mu: they read c.tasks and the state of their device beside the   *)
(* calls.                                                                  *)
(*                                                                         *)
(* Because of c.mu there is at most one call inside the collector, hence   *)
(* the variable call. A call that is refused (unknown or doubled ids,      *)
(* device already connected or not connected) changes nothing and is left  *)
(* out. The devices are those of pkg/protocol/modbus/modbus.go; what they  *)
(* read is left out, and the network may fail any connect, read or close.  *)
(***************************************************************************)
EXTENDS Integers, Sequences, FiniteSets

CONSTANTS
  DeviceId,
  NilDevice, \* devices of the protocols for which CreateDevice returns nil
  Unknown,   \* those for which it returns an error: no configuration, no
             \* points for the model, or a protocol it does not know
  ParamFaults, \* the sets of devices whose Params the file may have wrong
  TaskId,
  Run,       \* calls of StartTask that succeed; each makes a context and a goroutine
  ChanCap,   \* capacity of dataChan (100 in the code)
  None       \* no device, no task, no run

ASSUME CollectorAssumption ==
  /\ NilDevice \subseteq DeviceId
  /\ Unknown \subseteq DeviceId
  /\ ParamFaults \subseteq SUBSET DeviceId
  /\ ChanCap \in Nat \ {0}
  /\ None \notin DeviceId \cup TaskId \cup Run

VARIABLES
  devices,   \* c.devices: the ids that have been added
  badParams, \* those whose Params, in the file, have no string host or no numeric
             \* port; chosen in Init and never changed
  tasks,     \* c.tasks: the run registered under each id, or None
  call,      \* the call that holds c.mu
  connected, \* ModbusDevice.connected
  cancelled, \* the context of each run
  job,       \* what each run was started with
  pc,        \* where the goroutine of each run is
  watched,   \* the run whose context the goroutine waits for in its select
  dataChan,  \* collected data, by the run that sent them
  crashed    \* what has ended the process

vars == <<devices, badParams, tasks, call, connected, cancelled, job, pc, watched,
          dataChan, crashed>>

Job  == [task : TaskId, dev : DeviceId]
Call == [op : {"none", "connect", "start", "register", "delete", "stopAll"},
         dev : DeviceId \cup {None}, task : TaskId \cup {None}]
NoCall == [op |-> "none", dev |-> None, task |-> None]

\* How the process may have ended.
Crashes == {"no", "nilDevice", "badParams", "badTicker", "nilTask", "mapRace", "exit"}

PcStates ==
  {"unborn", "loop", "select", "check", "connect", "read", "send", "done"}

CollectorTypeOK ==
  /\ devices \in SUBSET DeviceId
  /\ badParams \in SUBSET DeviceId
  /\ tasks \in [TaskId -> Run \cup {None}]
  /\ call \in Call
  /\ connected \in [DeviceId -> BOOLEAN]
  /\ cancelled \in [Run -> BOOLEAN]
  /\ job \in [Run -> Job \cup {None}]
  /\ pc \in [Run -> PcStates]
  /\ watched \in [Run -> Run \cup {None}]
  /\ dataChan \in Seq(Run)
  /\ Len(dataChan) <= ChanCap
  /\ crashed \in Crashes

Init ==
  /\ devices = {}
  /\ badParams \in ParamFaults
  /\ tasks = [t \in TaskId |-> None]
  /\ call = NoCall
  /\ connected = [d \in DeviceId |-> FALSE]
  /\ cancelled = [r \in Run |-> FALSE]
  /\ job = [r \in Run |-> None]
  /\ pc = [r \in Run |-> "unborn"]
  /\ watched = [r \in Run |-> None]
  /\ dataChan = <<>>
  /\ crashed = "no"

-----------------------------------------------------------------------------
(* The exported calls.                                                     *)

mapVars == <<devices, badParams, tasks>>
runVars == <<cancelled, job, pc, watched>>

\* Tasks of a device.
TasksOf(d) == {t \in TaskId : tasks[t] # None /\ job[tasks[t]].dev = d}

\* c.mu is free.
Enter == crashed = "no" /\ call = NoCall

\* CreateDevice returns (nil, nil) for a protocol whose case is commented out;
\* the nil device is added like any other.
AddDevice(d) ==
  /\ Enter
  /\ d \notin devices \cup Unknown
  /\ devices' = devices \cup {d}
  /\ UNCHANGED <<badParams, tasks, call, connected, runVars, dataChan, crashed>>

\* ConnectDevice, DisconnectDevice and StartTask ask the device whether it is
\* connected; a nil device panics.
UseNilDevice(d) ==
  /\ Enter
  /\ d \in devices \cap NilDevice
  /\ crashed' = "nilDevice"
  /\ UNCHANGED <<mapVars, call, connected, runVars, dataChan>>

\* The program around the collector exits, or panics on a nil device of its
\* own.
EndProgram ==
  /\ Enter
  /\ crashed' \in {"exit", "nilDevice"}
  /\ UNCHANGED <<mapVars, call, connected, runVars, dataChan>>

ConnectDevice(d) ==
  /\ Enter
  /\ d \in devices \ NilDevice
  /\ ~connected[d]
  /\ call' = [NoCall EXCEPT !.op = "connect", !.dev = d]
  /\ UNCHANGED <<mapVars, connected, runVars, dataChan, crashed>>

\* Seeded bug: a task id may be started again while it is in use.
StartTask_Twice(t, d) ==
  /\ Enter
  /\ d \in devices \ NilDevice
  /\ call' = [op |-> IF connected[d] THEN "register" ELSE "start",
              dev |-> d, task |-> t]
  /\ UNCHANGED <<mapVars, connected, runVars, dataChan, crashed>>

StartTask(t, d) ==
  /\ Enter
  /\ tasks[t] = None
  /\ d \in devices \ NilDevice
  /\ call' = [op |-> IF connected[d] THEN "register" ELSE "start",
              dev |-> d, task |-> t]
  /\ UNCHANGED <<mapVars, connected, runVars, dataChan, crashed>>

\* Seeded bug: StartTask goes on when the connect has failed.
EndConnect_IgnoresError ==
  /\ crashed = "no"
  /\ call.op \in {"connect", "start"}
  /\ call.dev \notin badParams
  /\ \/ connected' = [connected EXCEPT ![call.dev] = TRUE]
     \/ ~connected[call.dev] /\ UNCHANGED connected
  /\ call' = IF call.op = "start" THEN [call EXCEPT !.op = "register"] ELSE NoCall
  /\ UNCHANGED <<mapVars, runVars, dataChan, crashed>>

\* The Connect inside ConnectDevice and StartTask succeeds (also when a
\* goroutine has connected the device meanwhile) or fails.
EndConnect ==
  /\ crashed = "no"
  /\ call.op \in {"connect", "start"}
  /\ call.dev \notin badParams
  /\ \/ /\ connected' = [connected EXCEPT ![call.dev] = TRUE]
        /\ call' = IF call.op = "start" THEN [call EXCEPT !.op = "register"] ELSE NoCall
     \/ /\ ~connected[call.dev]
        /\ call' = NoCall
        /\ UNCHANGED connected
  /\ UNCHANGED <<mapVars, runVars, dataChan, crashed>>

\* A type assertion on the host or the port of the device fails.
PanicInConnect ==
  /\ crashed = "no"
  /\ call.op \in {"connect", "start"}
  /\ call.dev \in badParams
  /\ crashed' = "badParams"
  /\ UNCHANGED <<mapVars, call, connected, runVars, dataChan>>

\* Seeded bug: the goroutine is started before the task is in the map.
RegisterTask_GoFirst(r) ==
  /\ crashed = "no"
  /\ call.op = "register"
  /\ \/ /\ pc[r] = "unborn"
        /\ \A q \in Run : pc[q] # "unborn" /\ ~cancelled[q] => job[q].task # call.task
        /\ job' = [job EXCEPT ![r] = [task |-> call.task, dev |-> call.dev]]
        /\ pc' = [pc EXCEPT ![r] = "loop"]
        /\ UNCHANGED <<tasks, call>>
     \/ /\ pc[r] # "unborn" /\ ~cancelled[r] /\ job[r].task = call.task
        /\ tasks' = [tasks EXCEPT ![call.task] = r]
        /\ call' = NoCall
        /\ UNCHANGED <<job, pc>>
  /\ UNCHANGED <<devices, badParams, connected, cancelled, watched, dataChan, crashed>>

\* c.tasks[taskID] = task and go c.collectTask(...). While the write is going
\* on, call.op is "register".
RegisterTask(r) ==
  /\ crashed = "no"
  /\ call.op = "register"
  /\ pc[r] = "unborn"
  /\ tasks' = [tasks EXCEPT ![call.task] = r]
  /\ job' = [job EXCEPT ![r] = [task |-> call.task, dev |-> call.dev]]
  /\ pc' = [pc EXCEPT ![r] = "loop"]
  /\ call' = NoCall
  /\ UNCHANGED <<devices, badParams, connected, cancelled, watched, dataChan, crashed>>

\* stopTaskLocked, first half: cancelFn; the caller goes on to delete.
Cancel(t) == cancelled' = [cancelled EXCEPT ![tasks[t]] = TRUE]

StopTask(t) ==
  /\ Enter
  /\ tasks[t] # None
  /\ Cancel(t)
  /\ call' = [NoCall EXCEPT !.op = "delete", !.task = t]
  /\ UNCHANGED <<mapVars, connected, job, pc, watched, dataChan, crashed>>

DisconnectDevice(d) ==
  /\ Enter
  /\ d \in devices \ NilDevice
  /\ connected[d]
  /\ call' = [NoCall EXCEPT !.op = "stopAll", !.dev = d]
  /\ UNCHANGED <<mapVars, connected, runVars, dataChan, crashed>>

\* The loop of DisconnectDevice over c.tasks.
CancelNext(t) ==
  /\ crashed = "no"
  /\ call.op = "stopAll"
  /\ call.task = None
  /\ t \in TasksOf(call.dev)
  /\ Cancel(t)
  /\ call' = [call EXCEPT !.task = t]
  /\ UNCHANGED <<mapVars, connected, job, pc, watched, dataChan, crashed>>

\* stopTaskLocked, second half: delete(c.tasks, taskID).
DeleteTask ==
  /\ crashed = "no"
  /\ call.op \in {"delete", "stopAll"}
  /\ call.task # None
  /\ tasks' = [tasks EXCEPT ![call.task] = None]
  /\ call' = IF call.op = "delete" THEN NoCall ELSE [call EXCEPT !.task = None]
  /\ UNCHANGED <<devices, badParams, connected, runVars, dataChan, crashed>>

\* Seeded bug: the device is disconnected before its tasks are stopped.
CloseDevice_First ==
  /\ crashed = "no"
  /\ call.op = "stopAll"
  /\ call.task = None
  /\ connected' = [connected EXCEPT ![call.dev] = FALSE]
  /\ call' = IF TasksOf(call.dev) = {} THEN NoCall ELSE call
  /\ UNCHANGED <<mapVars, runVars, dataChan, crashed>>

\* The device is closed last; when the close fails it stays connected.
CloseDevice ==
  /\ crashed = "no"
  /\ call.op = "stopAll"
  /\ call.task = None
  /\ TasksOf(call.dev) = {}
  /\ \E closed \in BOOLEAN :
       connected' = [connected EXCEPT ![call.dev] = @ /\ ~closed]
  /\ call' = NoCall
  /\ UNCHANGED <<mapVars, runVars, dataChan, crashed>>

-----------------------------------------------------------------------------
(* collectTask: the goroutine of a run.                                    *)

Goto(r, label) == pc' = [pc EXCEPT ![r] = label]

\* What a goroutine does first is time.NewTicker, which panics unless the
\* interval is positive. StartTask asks nothing of its interval, and nothing
\* else depends on it: until its first turn, a run may be one without.
PanicInNewTicker(r) ==
  /\ crashed = "no"
  /\ pc[r] = "loop"
  /\ watched[r] = None
  /\ crashed' = "badTicker"
  /\ UNCHANGED <<mapVars, call, connected, runVars, dataChan>>

\* c.tasks is being written by the call that holds c.mu.
MapBusy ==
  call.op = "register" \/ (call.op \in {"delete", "stopAll"} /\ call.task # None)

\* Seeded bug: a goroutine whose id is missing just waits for the next tick.
LoadTask_SkipsMissing(r) ==
  /\ crashed = "no"
  /\ pc[r] = "loop"
  /\ IF tasks[job[r].task] = None
     THEN Goto(r, "check") /\ UNCHANGED watched
     ELSE Goto(r, "select") /\ watched' = [watched EXCEPT ![r] = tasks[job[r].task]]
  /\ UNCHANGED <<mapVars, call, connected, cancelled, job, dataChan, crashed>>

\* The select evaluates c.tasks[taskID].ctx.Done() each time round. The read
\* is not protected by c.mu: when the map is being written, the Go runtime may
\* notice, which is fatal. The id may have been deleted, then ctx is a field
\* of nil; it may also stand for a later run by now.
LoadTask(r) ==
  /\ crashed = "no"
  /\ pc[r] = "loop"
  /\ \/ /\ MapBusy
        /\ crashed' = "mapRace"
        /\ UNCHANGED <<pc, watched>>
     \/ /\ tasks[job[r].task] = None
        /\ crashed' = "nilTask"
        /\ UNCHANGED <<pc, watched>>
     \/ /\ tasks[job[r].task] # None
        /\ watched' = [watched EXCEPT ![r] = tasks[job[r].task]]
        /\ Goto(r, "select")
        /\ UNCHANGED crashed
  /\ UNCHANGED <<mapVars, call, connected, cancelled, job, dataChan>>

\* Case ctx.Done().
EndRun(r) ==
  /\ crashed = "no"
  /\ pc[r] = "select"
  /\ cancelled[watched[r]]
  /\ Goto(r, "done")
  /\ UNCHANGED <<mapVars, call, connected, cancelled, job, watched, dataChan, crashed>>

\* Case ticker.C, chosen at random when both are ready.
TakeTick(r) ==
  /\ crashed = "no"
  /\ pc[r] = "select"
  /\ Goto(r, "check")
  /\ UNCHANGED <<mapVars, call, connected, cancelled, job, watched, dataChan, crashed>>

CheckConnection(r) ==
  /\ crashed = "no"
  /\ pc[r] = "check"
  /\ Goto(r, IF connected[job[r].dev] THEN "read" ELSE "connect")
  /\ UNCHANGED <<mapVars, call, connected, cancelled, job, watched, dataChan, crashed>>

\* The device of a run has been connected once: its Params are not bad.
Reconnect(r) ==
  /\ crashed = "no"
  /\ pc[r] = "connect"
  /\ \/ /\ connected' = [connected EXCEPT ![job[r].dev] = TRUE]
        /\ Goto(r, "read")
     \/ /\ ~connected[job[r].dev]
        /\ Goto(r, "loop")
        /\ UNCHANGED connected
  /\ UNCHANGED <<mapVars, call, cancelled, job, watched, dataChan, crashed>>

\* ReadMultiple fails as a whole when a point cannot be read; the run goes on.
ReadMultiple(r) ==
  /\ crashed = "no"
  /\ pc[r] = "read"
  /\ \/ connected[job[r].dev] /\ Goto(r, "send")
     \/ Goto(r, "loop")
  /\ UNCHANGED <<mapVars, call, connected, cancelled, job, watched, dataChan, crashed>>

\* Seeded bug: the data are put into dataChan however full it is.
Send_Unbounded(r) ==
  /\ crashed = "no"
  /\ pc[r] = "send"
  /\ dataChan' = Append(dataChan, r)
  /\ Goto(r, "loop")
  /\ UNCHANGED <<mapVars, call, connected, cancelled, job, watched, crashed>>

\* The send waits for room in dataChan, whatever happens to the context.
Send(r) ==
  /\ crashed = "no"
  /\ pc[r] = "send"
  /\ Len(dataChan) < ChanCap
  /\ dataChan' = Append(dataChan, r)
  /\ Goto(r, "loop")
  /\ UNCHANGED <<mapVars, call, connected, cancelled, job, watched, crashed>>

\* The goroutine of main that handles the data.
Consume ==
  /\ crashed = "no"
  /\ dataChan # <<>>
  /\ dataChan' = Tail(dataChan)
  /\ UNCHANGED <<mapVars, call, connected, runVars, crashed>>

-----------------------------------------------------------------------------

CallStep ==
  \/ EndConnect \/ PanicInConnect
  \/ \E r \in Run : RegisterTask(r)
  \/ \E t \in TaskId : CancelNext(t)
  \/ DeleteTask
  \/ CloseDevice

RunStep(r) ==
  \/ LoadTask(r) \/ EndRun(r) \/ TakeTick(r) \/ CheckConnection(r)
  \/ Reconnect(r) \/ ReadMultiple(r) \/ Send(r)

\* A call of StartTask is made only while the model has a run left for it.
RunLeft == \E r \in Run : pc[r] = "unborn"

NewCall ==
  \/ \E d \in DeviceId :
       AddDevice(d) \/ UseNilDevice(d) \/ ConnectDevice(d) \/ DisconnectDevice(d)
  \/ RunLeft /\ \E t \in TaskId, d \in DeviceId : StartTask(t, d)
  \/ \E t \in TaskId : StopTask(t)

Next ==
  \/ NewCall \/ EndProgram \/ CallStep \/ Consume
  \/ \E r \in Run : RunStep(r) \/ PanicInNewTicker(r)

\* A call goes on to its end: the network calls have timeouts. Go runs every
\* goroutine and serves the senders blocked on a channel in turn. The select
\* of collectTask may prefer the ticker for ever.
Fairness ==
  /\ WF_vars(CallStep)
  /\ WF_vars(Consume)
  /\ \A r \in Run : WF_vars(RunStep(r)) /\ SF_vars(Send(r))

Spec     == Init /\ [][Next]_vars
FairSpec == Spec /\ Fairness

-----------------------------------------------------------------------------
(* Properties.                                                             *)

Alive(r) == pc[r] \notin {"unborn", "done"}

\* No orphans: a goroutine that has not been told to stop is the one that is
\* registered under its id, so that StopTask and DisconnectDevice reach it,
\* and it never finds its id missing in c.tasks.
LiveRunRegistered ==
  \A r \in Run : Alive(r) /\ ~cancelled[r] => tasks[job[r].task] = r

\* A goroutine looks its context up by the id each time, and an id may be used
\* again: still, none ends because of the stop of another task.
EndsOnlyWhenStopped == \A r \in Run : pc[r] = "done" => cancelled[r]

\* collectTask says that it reconnects a device that has been disconnected.
\* The flag it looks at is reset by DisconnectDevice only, after the tasks of
\* the device have been stopped: whoever reconnects has been told to stop, and
\* undoes the disconnect.
OnlyStoppedRunsReconnect == \A r \in Run : pc[r] = "connect" => cancelled[r]

\* What the callers of StopTask and DisconnectDevice may rely on: stopping a
\* task ends its goroutine, not the process.
StopNeverPanics == crashed # "nilTask"

\* What is left of that: the goroutine that finds its id missing has been told
\* to stop; no other run, and no use of its id by another, leads to it.
MissedOnlyWhenStopped ==
  crashed = "nilTask" =>
    \E r \in Run : pc[r] = "loop" /\ cancelled[r] /\ tasks[job[r].task] = None

\* A stopped goroutine ends, also when it was blocked on dataChan, unless the
\* process ends first or its id has been taken by a later run, whose context
\* it then obeys.
Replaced(r) == Alive(r) /\ tasks[job[r].task] \notin {None, r}
StoppedRunEnds ==
  \A r \in Run : cancelled[r] ~> pc[r] = "done" \/ crashed # "no" \/ Replaced(r)
=============================================================================
