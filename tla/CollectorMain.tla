---------------------------- MODULE CollectorMain ----------------------------
(***************************************************************************)
(* cyc20250422/cmd/collector/main.go: the program of the first version,    *)
(* from the files it loads over the tasks it starts by default to its      *)
(* shutdown, as the caller of Collector and BatchGroups. Its main          *)
(* goroutine is inside one call of the collector at a time; the goroutine  *)
(* that takes the data is Collector's Consume.                             *)
(*                                                                         *)
(* With main = "library" some other program makes any calls in any order   *)
(* instead. Flags, logging and the kinds of load errors are left out.      *)
(***************************************************************************)
EXTENDS Collector, BatchGroups

CONSTANT
  TaskOf \* "task_" followed by the id of the device

\* The devices CreateDevice makes.
Sound == DeviceId \ (NilDevice \cup Unknown)

ASSUME MainAssumption ==
  /\ TaskOf \in [DeviceId -> TaskId]
  /\ \A d, e \in Sound : TaskOf[d] = TaskOf[e] => d = e

VARIABLES
  main,    \* where the main goroutine is
  configs, \* deviceConfigs
  todo     \* devices that the loop main is in has still to get to

mainVars == <<main, configs, todo>>
allVars  == <<vars, groupVars, mainVars>>

MainTypeOK ==
  /\ main \in {"library", "load", "add", "start", "wait", "stop", "exited"}
  /\ configs \in SUBSET DeviceId
  /\ todo \in SUBSET configs

MainInit ==
  /\ Init
  /\ GroupInit
  /\ main \in {"library", "load"}
  /\ configs = {}
  /\ todo = {}

-----------------------------------------------------------------------------
(* Start-up.                                                               *)

\* logger.Fatalf exits.
FailLoad ==
  /\ main = "load"
  /\ EndProgram
  /\ crashed' = "exit"
  /\ main' = "exited"
  /\ UNCHANGED <<groupVars, configs, todo>>

GroupModel ==
  /\ main = "load"
  /\ crashed = "no"
  /\ GroupStep
  /\ UNCHANGED <<vars, mainVars>>

\* The files describe any devices.
EndLoad ==
  /\ main = "load"
  /\ Enter
  /\ AllGrouped
  /\ main' = "add"
  /\ configs' \in SUBSET DeviceId
  /\ todo' = configs'
  /\ UNCHANGED <<vars, groupVars>>

\* An error of AddDevice is logged.
AddConfigured(d) ==
  /\ main = "add"
  /\ Enter
  /\ d \in todo
  /\ todo' = todo \ {d}
  /\ AddDevice(d) \/ (d \in Unknown /\ UNCHANGED vars)
  /\ UNCHANGED <<groupVars, main, configs>>

\* The range over deviceConfigs is done; the next one begins.
EndLoop(from, to) ==
  /\ main = from
  /\ Enter
  /\ todo = {}
  /\ main' = to
  /\ todo' = configs
  /\ UNCHANGED <<vars, groupVars, configs>>

\* The interval is five seconds. The id of the task is free: there is one loop
\* over the devices. An error of StartTask is logged.
StartDefault(d) ==
  /\ main = "start"
  /\ d \in todo \cap Sound
  /\ todo' = todo \ {d}
  /\ RunLeft
  /\ StartTask(TaskOf[d], d)
  /\ UNCHANGED <<groupVars, main, configs>>

\* CreateDevice has returned no device, with an error that is dropped or
\* without one, and GetInfo is called on it. (The check for the points of its
\* model comes too late: CreateDevice fails without them.)
PanicOnNilDevice(d) ==
  /\ main = "start"
  /\ d \in todo \ Sound
  /\ EndProgram
  /\ crashed' = "nilDevice"
  /\ UNCHANGED <<groupVars, mainVars>>

-----------------------------------------------------------------------------
(* Shutdown.                                                               *)

\* A signal has come.
Signal ==
  /\ main = "wait"
  /\ Enter
  /\ main' = "stop"
  /\ todo' = configs
  /\ UNCHANGED <<vars, groupVars, configs>>

\* DisconnectDevice returns at once when the device is not connected.
ShutDown(d) ==
  /\ main = "stop"
  /\ Enter
  /\ d \in todo
  /\ todo' = todo \ {d}
  /\ DisconnectDevice(d) \/ (~connected[d] /\ UNCHANGED vars)
  /\ UNCHANGED <<groupVars, main, configs>>

ExitMain ==
  /\ main = "stop"
  /\ todo = {}
  /\ EndProgram
  /\ crashed' = "exit"
  /\ main' = "exited"
  /\ UNCHANGED <<groupVars, configs, todo>>

-----------------------------------------------------------------------------

MainStep ==
  \/ FailLoad \/ GroupModel \/ EndLoad
  \/ \E d \in DeviceId : AddConfigured(d) \/ StartDefault(d) \/ PanicOnNilDevice(d)
  \/ EndLoop("add", "start") \/ EndLoop("start", "wait")
  \/ Signal \/ ExitMain
  \/ \E d \in DeviceId : ShutDown(d)

\* The calls of another program, with any interval, and what goes on inside the
\* collector.
LibraryCall   == main = "library" /\ (NewCall \/ \E r \in Run : PanicInNewTicker(r))
CollectorStep == CallStep \/ Consume \/ \E r \in Run : RunStep(r)

MainNext ==
  \/ MainStep
  \/ (LibraryCall \/ CollectorStep) /\ UNCHANGED <<groupVars, mainVars>>

MainSpec     == MainInit /\ [][MainNext]_allVars
FairMainSpec == MainSpec /\ Fairness

\* The program alone.
ProgramSpec == main = "load" /\ MainSpec

-----------------------------------------------------------------------------
(* Properties.                                                             *)

\* "关闭所有设备连接": when the program exits, the loop over DisconnectDevice has
\* told every goroutine to stop; no task has been left behind by a device that
\* was not connected or whose close has failed.
ExitedAllStopped ==
  main = "exited" => \A r \in Run : Alive(r) => cancelled[r]

\* Until a signal comes none of the program's goroutines is told to stop, so
\* none can dereference the task it misses; and once all tasks have been
\* started, none of them can race with a call for c.tasks or panic in another
\* way: what is left for them are errors that are logged.
SafeUntilSignal ==
  /\ main \in {"load", "add", "start", "wait"} =>
       crashed # "nilTask" /\ \A r \in Run : ~cancelled[r]
  /\ main = "wait" => crashed = "no"
=============================================================================
