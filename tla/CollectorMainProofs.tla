------------------------- MODULE CollectorMainProofs -------------------------
(***************************************************************************)
(* Theorems about CollectorMain, for any devices, tasks, runs and points.  *)
(***************************************************************************)
EXTENDS CollectorMain, CollectorProofs, DataLemmas

-----------------------------------------------------------------------------
(* The program is a user of the collector.                                 *)

LEMMA MainStepIsStep == MainNext => [Next]_vars
<1> SUFFICES ASSUME MainNext PROVE [Next]_vars
  OBVIOUS
<1>1. CASE FailLoad \/ ExitMain
  BY <1>1 DEF FailLoad, ExitMain, Next
<1>2. CASE GroupModel \/ EndLoad \/ Signal
  BY <1>2 DEF GroupModel, EndLoad, Signal
<1>3. CASE EndLoop("add", "start") \/ EndLoop("start", "wait")
  BY <1>3 DEF EndLoop
<1>4. ASSUME NEW d \in DeviceId, AddConfigured(d) PROVE [Next]_vars
  BY <1>4 DEF AddConfigured, Next, NewCall
<1>5. ASSUME NEW d \in DeviceId, StartDefault(d) PROVE [Next]_vars
  <2>1. TaskOf[d] \in TaskId BY MainAssumption
  <2> QED BY <1>5, <2>1 DEF StartDefault, Next, NewCall
<1>6. ASSUME NEW d \in DeviceId, PanicOnNilDevice(d) PROVE [Next]_vars
  BY <1>6 DEF PanicOnNilDevice, Next
<1>7. ASSUME NEW d \in DeviceId, ShutDown(d) PROVE [Next]_vars
  BY <1>7 DEF ShutDown, Next, NewCall
<1>8. CASE LibraryCall \/ CollectorStep
  BY <1>8 DEF LibraryCall, CollectorStep, Next
<1> QED
  BY <1>1, <1>2, <1>3, <1>4, <1>5, <1>6, <1>7, <1>8 DEF MainNext, MainStep

LEMMA MainNextIsNext == [MainNext]_allVars => [Next]_vars
BY MainStepIsStep DEF allVars

\* Whatever main does is a use of the collector as Collector describes it, so
\* its theorems hold in the program.
THEOREM MainUsesCollector == MainSpec => Spec
<1>1. MainInit => Init BY DEF MainInit
<1> QED BY <1>1, MainNextIsNext, PTL DEF MainSpec, Spec

\* The goroutines of the program are registered while they are wanted, end only
\* when they are stopped, and miss their task only then.
THEOREM MainKeepsItsTasks ==
  MainSpec => [](/\ LiveRunRegistered /\ EndsOnlyWhenStopped
                 /\ OnlyStoppedRunsReconnect /\ MissedOnlyWhenStopped)
BY MainUsesCollector, NoOrphanRuns, NoForeignStop, NoUsefulReconnect,
   OnlyStoppedRunsMissTheirTask, PTL

-----------------------------------------------------------------------------
(* Shutdown.                                                               *)

NoTasks == \A t \in TaskId : tasks[t] = None

\* Tasks belong to configured devices. Once the shutdown has begun nothing is
\* started, and the tasks that are left belong to devices whose turn is still
\* to come, or to the one that is being disconnected.
ShutdownInv ==
  /\ todo \subseteq configs
  /\ main \in {"load", "exited"} => NoTasks
  /\ main = "load" => call = NoCall
  /\ main = "exited" => crashed = "exit"
  /\ main # "library" =>
       /\ call.op \in {"none", "start", "register", "stopAll"}
       /\ call.op # "none" => call.dev \in configs
       /\ \A t \in TaskId : tasks[t] # None => job[tasks[t]].dev \in configs
  /\ main = "stop" =>
       /\ call.op \in {"none", "stopAll"}
       /\ \A t \in TaskId : tasks[t] # None =>
            \/ job[tasks[t]].dev \in todo
            \/ call.op = "stopAll" /\ job[tasks[t]].dev = call.dev

LEMMA ShutdownInit == MainInit => ShutdownInv
BY DEF MainInit, Init, ShutdownInv, NoTasks, NoCall

\* What a step inside the collector may do to its tasks.
LEMMA StepInside ==
  ASSUME IInv, ShutdownInv, CollectorStep, UNCHANGED mainVars
  PROVE  ShutdownInv'
<1> USE DEF ShutdownInv, NoTasks, mainVars, mapVars, runVars
<1>1. CASE UNCHANGED <<tasks, job, call>> /\ crashed = "no"
  BY <1>1
<1>2. CASE EndConnect
  <2>1. call \in Call BY DEF IInv, TypeInv, CollectorTypeOK
  <2>2. \/ call' = NoCall
        \/ call.op = "start" /\ call'.op = "register" /\ call'.dev = call.dev
    BY <1>2, <2>1 DEF EndConnect, Call
  <2>3. UNCHANGED <<tasks, job, crashed>> /\ call.op \in {"connect", "start"} /\ crashed = "no"
    BY <1>2 DEF EndConnect
  <2> QED BY <2>2, <2>3 DEF NoCall
<1>3. ASSUME NEW r \in Run, RegisterTask(r) PROVE ShutdownInv'
  <2>1. /\ tasks \in [TaskId -> Run \cup {None}] /\ job \in [Run -> Job \cup {None}]
        /\ call.dev \in DeviceId /\ call.task \in TaskId /\ None \notin Run
    BY <1>3, CollectorAssumption DEF RegisterTask, IInv, TypeInv, CollectorTypeOK, CallInv
  <2>2. \A t \in TaskId : tasks[t] # r
    BY <1>3, <2>1 DEF RegisterTask, IInv, MapInv
  <2>3. job'[r].dev = call.dev
    BY <1>3, <2>1 DEF RegisterTask
  <2>4. \A t \in TaskId : tasks'[t] # None =>
          \/ tasks'[t] = r
          \/ tasks'[t] = tasks[t] /\ job'[tasks'[t]] = job[tasks[t]]
    BY <1>3, <2>1, <2>2 DEF RegisterTask
  <2>5. main \notin {"load", "stop"} /\ main # "exited"
    BY <1>3 DEF RegisterTask, NoCall
  <2> QED BY <1>3, <2>3, <2>4, <2>5 DEF RegisterTask, NoCall
<1>4. ASSUME NEW t \in TaskId, CancelNext(t) PROVE ShutdownInv'
  <2>1. call \in Call BY DEF IInv, TypeInv, CollectorTypeOK
  <2>2. call'.op = call.op /\ call'.dev = call.dev
    BY <1>4, <2>1 DEF CancelNext, Call
  <2> QED BY <1>4, <2>2 DEF CancelNext, NoCall
<1>5. CASE DeleteTask
  <2>1. call \in Call /\ tasks \in [TaskId -> Run \cup {None}]
    BY DEF IInv, TypeInv, CollectorTypeOK
  <2>2. call' = NoCall \/ (call'.op = call.op /\ call'.dev = call.dev)
    BY <1>5, <2>1 DEF DeleteTask, Call
  <2>3. \A t \in TaskId : tasks'[t] # None => tasks'[t] = tasks[t]
    BY <1>5, <2>1 DEF DeleteTask
  <2>4. main # "library" => call.op = "stopAll"
    BY <1>5 DEF DeleteTask
  <2>5. call.op = "stopAll" => call'.op = "stopAll" /\ call'.dev = call.dev
    BY <1>5, <2>1 DEF DeleteTask, Call
  <2> QED BY <1>5, <2>3, <2>4, <2>5 DEF DeleteTask, NoCall
<1>6. CASE CloseDevice
  <2>1. \A t \in TaskId : tasks[t] # None => job[tasks[t]].dev # call.dev
    BY <1>6 DEF CloseDevice, TasksOf
  <2> QED BY <1>6, <2>1 DEF CloseDevice, NoCall
<1>7. CASE Consume \/ PanicInConnect
  BY <1>1, <1>7 DEF Consume, PanicInConnect
<1>8. ASSUME NEW r \in Run, RunStep(r) PROVE ShutdownInv'
  BY <1>1, <1>8 DEF RunStep, LoadTask, EndRun, TakeTick, CheckConnection, Reconnect,
                    ReadMultiple, Send
<1> QED
  BY <1>2, <1>3, <1>4, <1>5, <1>6, <1>7, <1>8 DEF CollectorStep, CallStep

LEMMA ShutdownStep == IInv /\ ShutdownInv /\ [MainNext]_allVars => ShutdownInv'
<1> SUFFICES ASSUME IInv, ShutdownInv, [MainNext]_allVars PROVE ShutdownInv'
  OBVIOUS
<1> USE DEF ShutdownInv, NoTasks, mapVars, runVars, vars
<1>1. CASE FailLoad
  BY <1>1 DEF FailLoad, EndProgram, Enter, NoCall
<1>2. CASE GroupModel
  BY <1>2 DEF GroupModel, mainVars
<1>3. CASE EndLoad
  BY <1>3 DEF EndLoad, Enter, NoCall
<1>4. ASSUME NEW d \in DeviceId, AddConfigured(d) PROVE ShutdownInv'
  BY <1>4 DEF AddConfigured, AddDevice
<1>5. ASSUME NEW d \in DeviceId, StartDefault(d) PROVE ShutdownInv'
  <2>1. /\ call'.op \in {"start", "register"} /\ call'.dev = d /\ d \in configs
        /\ UNCHANGED <<tasks, job, crashed, main, configs>> /\ todo' \subseteq todo
        /\ main = "start"
    BY <1>5 DEF StartDefault, StartTask
  <2> QED BY <2>1
<1>6. ASSUME NEW d \in DeviceId, PanicOnNilDevice(d) PROVE ShutdownInv'
  BY <1>6 DEF PanicOnNilDevice, EndProgram, mainVars
<1>7. CASE EndLoop("add", "start") \/ EndLoop("start", "wait") \/ Signal
  BY <1>7 DEF EndLoop, Signal, Enter, NoCall
<1>8. ASSUME NEW d \in DeviceId, ShutDown(d) PROVE ShutdownInv'
  <2>1. CASE DisconnectDevice(d)
    <3>1. /\ call'.op = "stopAll" /\ call'.dev = d
          /\ UNCHANGED <<tasks, job, crashed>>
      BY <2>1 DEF DisconnectDevice, NoCall
    <3>2. /\ main = "stop" /\ UNCHANGED <<main, configs>>
          /\ todo' = todo \ {d} /\ d \in todo /\ call.op = "none"
      BY <1>8 DEF ShutDown, Enter, NoCall
    <3> QED BY <3>1, <3>2
  <2>2. CASE ~connected[d] /\ UNCHANGED vars
    <3>1. \A t \in TaskId : tasks[t] # None => job[tasks[t]].dev # d
      BY <2>2 DEF IInv, ConnectedInv
    <3> QED BY <1>8, <2>2, <3>1 DEF ShutDown
  <2> QED BY <1>8, <2>1, <2>2 DEF ShutDown
<1>9. CASE ExitMain
  BY <1>9 DEF ExitMain, EndProgram, Enter, NoCall
<1>10. CASE LibraryCall /\ UNCHANGED mainVars
  BY <1>10 DEF LibraryCall, mainVars
<1>11. CASE CollectorStep /\ UNCHANGED mainVars
  BY <1>11, StepInside
<1>12. CASE UNCHANGED allVars
  BY <1>12 DEF allVars, mainVars
<1> QED
  BY <1>1, <1>2, <1>3, <1>4, <1>5, <1>6, <1>7, <1>8, <1>9, <1>10, <1>11, <1>12
     DEF MainNext, MainStep

\* At the exit of the program every goroutine has been told to stop.
THEOREM NothingLeftRunning == MainSpec => []ExitedAllStopped
<1>1. IInv /\ ShutdownInv => ExitedAllStopped
  <2> SUFFICES ASSUME IInv, ShutdownInv, main = "exited", NEW r \in Run, Alive(r),
                      ~cancelled[r]
               PROVE  FALSE
    BY DEF ExitedAllStopped
  <2>1. tasks[job[r].task] = r /\ job[r] \in Job
    BY DEF IInv, TypeInv, RunInv, JobInv, Alive
  <2>2. job[r].task \in TaskId /\ r # None
    BY <2>1, CollectorAssumption DEF Job
  <2> QED BY <2>1, <2>2 DEF ShutdownInv, NoTasks
<1>2. MainInit => IInv BY IInvInit DEF MainInit
<1>3. IInv /\ [MainNext]_allVars => IInv' BY IInvStep, MainNextIsNext
<1> QED BY <1>1, <1>2, <1>3, ShutdownInit, ShutdownStep, PTL DEF MainSpec

-----------------------------------------------------------------------------
(* Before the shutdown.                                                    *)

\* Nothing is stopped before the signal, and nothing is called in the wait.
NothingStopped ==
  /\ main \in {"load", "add", "start", "wait"} =>
       /\ call.op \in {"none", "start", "register"}
       /\ \A r \in Run : ~cancelled[r]
       /\ crashed # "nilTask"
  /\ main = "wait" => call = NoCall /\ crashed = "no"

LEMMA NothingStoppedInit == MainInit => NothingStopped
BY DEF MainInit, Init, NothingStopped, NoCall

\* What goes on inside the collector.
LEMMA InsideStopsNothing ==
  ASSUME IInv, NothingStopped, CollectorStep, UNCHANGED mainVars
  PROVE  NothingStopped'
<1> USE DEF NothingStopped, mainVars, mapVars, runVars, NoCall
<1>0. call \in Call /\ None \notin Run
  BY CollectorAssumption DEF IInv, TypeInv, CollectorTypeOK
<1>1. CASE EndConnect
  <2>1. call'.op \in {"none", "register"} BY <1>0, <1>1 DEF EndConnect, Call
  <2> QED BY <1>1, <2>1 DEF EndConnect
<1>2. ASSUME NEW r \in Run, RegisterTask(r) PROVE NothingStopped'
  BY <1>2 DEF RegisterTask
<1>3. ASSUME DeleteTask \/ CloseDevice \/ \E t \in TaskId : CancelNext(t) PROVE NothingStopped'
  BY <1>3 DEF CancelNext, DeleteTask, CloseDevice
<1>4. CASE Consume \/ PanicInConnect
  BY <1>4 DEF Consume, PanicInConnect
<1>5. ASSUME NEW r \in Run, LoadTask(r) PROVE NothingStopped'
  <2>1. UNCHANGED <<call, cancelled>> BY <1>5 DEF LoadTask
  <2>2. ASSUME main \in {"load", "add", "start", "wait"} PROVE crashed' # "nilTask"
    <3>1. tasks[job[r].task] = r BY <1>5, <2>2 DEF LoadTask, IInv, RunInv
    <3> QED BY <1>0, <1>5, <3>1 DEF LoadTask
  <2>3. ASSUME main = "wait" PROVE crashed' = "no"
    <3>1. ~MapBusy BY <2>3 DEF MapBusy
    <3> QED BY <1>5, <2>2, <2>3, <3>1 DEF LoadTask
  <2> QED BY <2>1, <2>2, <2>3
<1>6. ASSUME NEW r \in Run, RunStep(r), ~LoadTask(r) PROVE NothingStopped'
  BY <1>6 DEF RunStep, EndRun, TakeTick, CheckConnection, Reconnect, ReadMultiple, Send
<1> QED
  BY <1>1, <1>2, <1>3, <1>4, <1>5, <1>6 DEF CollectorStep, CallStep

LEMMA NothingStoppedStep ==
  IInv /\ NothingStopped /\ [MainNext]_allVars => NothingStopped'
<1> SUFFICES ASSUME IInv, NothingStopped, [MainNext]_allVars PROVE NothingStopped'
  OBVIOUS
<1> USE DEF NothingStopped, mapVars, runVars, vars
<1>1. CASE FailLoad \/ ExitMain
  BY <1>1 DEF FailLoad, ExitMain
<1>2. CASE GroupModel \/ EndLoad
  BY <1>2 DEF GroupModel, EndLoad, mainVars
<1>3. ASSUME NEW d \in DeviceId, AddConfigured(d) PROVE NothingStopped'
  BY <1>3 DEF AddConfigured, AddDevice
<1>4. ASSUME NEW d \in DeviceId, StartDefault(d) PROVE NothingStopped'
  <2>1. call'.op \in {"start", "register"} /\ UNCHANGED <<cancelled, crashed, main>>
        /\ main = "start"
    BY <1>4 DEF StartDefault, StartTask
  <2> QED BY <2>1
<1>5. ASSUME NEW d \in DeviceId, PanicOnNilDevice(d) PROVE NothingStopped'
  BY <1>5 DEF PanicOnNilDevice, EndProgram, mainVars
<1>6. CASE EndLoop("add", "start") \/ EndLoop("start", "wait") \/ Signal
  BY <1>6 DEF EndLoop, Signal, Enter
<1>7. ASSUME NEW d \in DeviceId, ShutDown(d) PROVE NothingStopped'
  BY <1>7 DEF ShutDown
<1>8. CASE LibraryCall /\ UNCHANGED mainVars
  BY <1>8 DEF LibraryCall, mainVars
<1>9. CASE CollectorStep /\ UNCHANGED mainVars
  BY <1>9, InsideStopsNothing
<1>10. CASE UNCHANGED allVars
  BY <1>10 DEF allVars, mainVars
<1> QED
  BY <1>1, <1>2, <1>3, <1>4, <1>5, <1>6, <1>7, <1>8, <1>9, <1>10 DEF MainNext, MainStep

\* The goroutines of the program never dereference a task they miss before the
\* shutdown, and in the wait for the signal nothing Collector knows of ends the
\* program. While the tasks are being started the runtime may still notice a
\* read of the map beside the write.
THEOREM SafeBeforeShutdown == MainSpec => []SafeUntilSignal
<1>1. NothingStopped => SafeUntilSignal BY DEF NothingStopped, SafeUntilSignal
<1>2. MainInit => IInv BY IInvInit DEF MainInit
<1>3. IInv /\ [MainNext]_allVars => IInv' BY IInvStep, MainNextIsNext
<1> QED BY <1>1, <1>2, <1>3, NothingStoppedInit, NothingStoppedStep, PTL DEF MainSpec

-----------------------------------------------------------------------------
(* The points of groups, in order: the recursive function of PointsOf.     *)

\* The points of the first groups are gathered one group after the other.
Gathers(f, gs) ==
  /\ f \in [0..Len(gs) -> Seq(Point)]
  /\ f[0] = <<>>
  /\ \A k \in 1..Len(gs) : f[k] = f[k - 1] \o gs[k].points

HavePoints(gs) == \A i \in DOMAIN gs : gs[i].points \in Seq(Point)

LEMMA PointsGathered ==
  ASSUME NEW S, NEW gs \in Seq(S), HavePoints(gs)
  PROVE  \E f : Gathers(f, gs) /\ PointsOf(gs) = f[Len(gs)]
<1> DEFINE N == Len(gs)
           Q == Seq(Point)
           Loop(f) == [k \in 0..N |-> IF k = 0 THEN <<>> ELSE f[k - 1] \o gs[k].points]
           upTo == CHOOSE f : f = Loop(f)
<1>1. N \in Nat /\ <<>> \in Q /\ \A k \in 1..N : gs[k].points \in Q
  BY DEF HavePoints
<1>2. \A s, t \in Q : s \o t \in Q
  OBVIOUS
<1>3. \E f \in [0..N -> Q] : f = Loop(f)
  <2> DEFINE step == [k \in 1..N |-> [s \in Q |-> s \o gs[k].points]]
             start == <<>>
  <2>1. step \in [1..N -> [Q -> Q]]
    <3> HIDE DEF Q, N
    <3> QED BY <1>1, <1>2
  <2>2. \A k \in 1..N, s \in Q : step[k][s] = s \o gs[k].points OBVIOUS
  <2>3. start \in Q /\ N \in Nat BY <1>1
  <2> HIDE DEF step, Q, N, start
  <2>4. PICK f : Loops(f, N, Q, start, step) BY <2>1, <2>3, Recursion
  <2>5. f \in [0..N -> Q] /\ f[0] = start BY <2>4 DEF Loops
  <2>6. ASSUME NEW k \in 1..N PROVE f[k] = f[k - 1] \o gs[k].points
    <3>1. k - 1 \in 0..N BY <1>1
    <3>2. f[k] = step[k][f[k - 1]] BY <2>4 DEF Loops
    <3> QED BY <2>2, <2>5, <3>1, <3>2
  <2>7. ASSUME NEW k \in 0..N PROVE f[k] = Loop(f)[k]
    <3>1. CASE k = 0 BY <2>5, <3>1 DEF start
    <3>2. CASE k # 0
      <4>1. k \in 1..N BY <1>1, <3>2
      <4> QED BY <2>6, <3>2, <4>1
    <3> QED BY <3>1, <3>2
  <2>8. f = Loop(f) BY <2>5, <2>7
  <2> HIDE DEF Loop
  <2> QED BY <2>5, <2>8
<1>4. upTo = Loop(upTo)
  <2> HIDE DEF Loop
  <2> QED BY <1>3
<1>5. PointsOf(gs) = upTo[N] BY DEF PointsOf
<1> HIDE DEF upTo
<1>6. upTo[0] = <<>> BY <1>1, <1>4
<1>7. ASSUME NEW k \in 1..N PROVE upTo[k] = upTo[k - 1] \o gs[k].points
  <2>1. k \in 0..N /\ k # 0 BY <1>1
  <2>2. upTo[k] = Loop(upTo)[k] BY <1>4
  <2> QED BY <2>1, <2>2
<1>8. ASSUME NEW k \in 0..N PROVE upTo[k] \in Q
  <2> DEFINE T == {j \in 0..N : upTo[j] \in Q}
  <2>1. 0 \in T
    <3> HIDE DEF Q, N, Loop
    <3> QED BY <1>1, <1>6
  <2>2. ASSUME NEW j \in 1..N, j - 1 \in T PROVE j \in T
    <3>1. upTo[j - 1] \in Q /\ gs[j].points \in Q BY <1>1, <2>2
    <3>2. upTo[j - 1] \o gs[j].points \in Q BY <1>2, <3>1
    <3>3. j \in 0..N BY <1>1
    <3> HIDE DEF Q, Loop
    <3> QED BY <1>7, <3>2, <3>3
  <2> HIDE DEF T, N
  <2>3. 0..N \subseteq T BY <1>1, <2>1, <2>2, Induction
  <2> QED BY <2>3 DEF T
<1>9. upTo \in [0..N -> Q]
  <2>1. upTo = [k \in 0..N |-> upTo[k]] BY <1>4
  <2> HIDE DEF Loop
  <2> QED BY <1>8, <2>1
<1> HIDE DEF Loop
<1>10. Gathers(upTo, gs) BY <1>6, <1>7, <1>9 DEF Gathers
<1> QED BY <1>5, <1>10

\* A group more at the end adds its points at the end.
LEMMA PointsOfAppend ==
  ASSUME NEW S, NEW gs \in Seq(S), NEW g \in S, HavePoints(gs), g.points \in Seq(Point)
  PROVE  /\ HavePoints(Append(gs, g))
         /\ PointsOf(gs) \in Seq(Point)
         /\ PointsOf(Append(gs, g)) = PointsOf(gs) \o g.points
<1> DEFINE w == Append(gs, g)
           N == Len(gs)
<1>1. /\ N \in Nat /\ w \in Seq(S) /\ Len(w) = N + 1 /\ w[N + 1] = g
      /\ \A i \in 1..N : w[i] = gs[i]
      /\ DOMAIN w = 1..(N + 1) /\ DOMAIN gs = 1..N
  OBVIOUS
<1> HIDE DEF w
<1>2. HavePoints(w) BY <1>1 DEF HavePoints
<1>3. PICK f : Gathers(f, gs) /\ PointsOf(gs) = f[N] BY PointsGathered
<1>4. PICK h : Gathers(h, w) /\ PointsOf(w) = h[Len(w)] BY <1>1, <1>2, PointsGathered
<1> HIDE DEF N
<1>5. h[N] = f[N]
  <2> DEFINE T == {k \in 0..N : h[k] = f[k]}
  <2>1. 0 \in T BY <1>1, <1>3, <1>4 DEF Gathers
  <2>2. ASSUME NEW k \in 1..N, k - 1 \in T PROVE k \in T
    <3>1. k \in 1..Len(w) /\ w[k] = gs[k] /\ k \in 1..Len(gs) /\ k \in 0..N BY <1>1 DEF N
    <3>2. h[k] = h[k - 1] \o w[k].points BY <1>4, <3>1 DEF Gathers
    <3>3. f[k] = f[k - 1] \o gs[k].points BY <1>3, <3>1 DEF Gathers
    <3> QED BY <2>2, <3>1, <3>2, <3>3
  <2> HIDE DEF T
  <2>3. 0..N \subseteq T BY <1>1, <2>1, <2>2, Induction
  <2>4. N \in T BY <1>1, <2>3
  <2> QED BY <2>4 DEF T
<1>6. h[N + 1] = h[N] \o g.points
  <2>1. N + 1 \in 1..Len(w) /\ (N + 1) - 1 = N BY <1>1
  <2> QED BY <1>1, <1>4, <2>1 DEF Gathers
<1>7. PointsOf(gs) \in Seq(Point)
  <2>1. N \in 0..Len(gs) BY <1>1 DEF N
  <2> QED BY <1>3, <2>1 DEF Gathers
<1> QED BY <1>1, <1>2, <1>3, <1>4, <1>5, <1>6, <1>7 DEF w

LEMMA PointsOfNothing == PointsOf(<<>>) = <<>>
<1>1. <<>> \in Seq({}) /\ Len(<<>>) = 0 /\ DOMAIN <<>> = {} OBVIOUS
<1>2. HavePoints(<<>>) BY <1>1 DEF HavePoints
<1>3. PICK f : Gathers(f, <<>>) /\ PointsOf(<<>>) = f[0] BY <1>1, <1>2, PointsGathered
<1> QED BY <1>3 DEF Gathers

-----------------------------------------------------------------------------
(* One group: with one point, and with one more.                           *)

\* A group as it is made; its count has not wrapped around, and it ends where
\* its last point does.
Good(g) == g.points # <<>> /\ ReadsItsPoints(g) /\ OfOneKind(g)
EndsWith(g, p) == LastPoint(g) = p /\ p.addr + p.num = g.start + g.count

LEMMA SizeIs ==
  /\ UintSize = 65536
  /\ \A a \in Uint16 : a \in Nat /\ a < UintSize
  /\ \A a \in Nat : a < UintSize => a \in Uint16
<1>1. UintSize = 65536 BY DEF UintSize
<1>2. \A a \in Uint16 : a \in Nat /\ a < UintSize BY DEF UintSize, Uint16
<1>3. ASSUME NEW a \in Nat, a < UintSize PROVE a \in Uint16
  <2>1. PICK b \in Nat : b = UintSize - 1 BY DEF UintSize
  <2>2. a <= b BY <1>1, <1>3, <2>1
  <2>3. a \in 0..b BY <2>2
  <2> QED BY <2>1, <2>3 DEF Uint16
<1> QED BY <1>1, <1>2, <1>3

\* Registers that are less than 65536 apart are different ones.
LEMMA RegistersDiffer ==
  ASSUME NEW a \in Nat, NEW b \in Nat, a < b, b < a + UintSize
  PROVE  Register(a) # Register(b)
<1>1. UintSize = 65536 BY SizeIs
<1> QED BY <1>1 DEF Register

LEMMA OnePoint ==
  ASSUME NEW p \in Point, p.num \in {1, 2, 4}
  PROVE  /\ GroupOf(p) \in BatchGroup /\ GroupOf(p) # NoGroup
         /\ GroupOf(p).points = <<p>> /\ Good(GroupOf(p)) /\ EndsWith(GroupOf(p), p)
<1> DEFINE g == GroupOf(p)
<1>1. /\ g.start = p.addr /\ g.count = p.num /\ g.regType = p.regType
      /\ g.readOnly = p.readOnly /\ g.points = <<p>>
  BY DEF GroupOf
<1>2. /\ p.addr \in Uint16 /\ p.num \in Uint16 /\ p.regType \in STRING /\ p.readOnly \in BOOLEAN
      /\ <<p>> \in Seq(Point)
  BY DEF Point
<1>3. g \in BatchGroup BY <1>2 DEF GroupOf, BatchGroup
<1>4. DOMAIN <<p>> = {1} /\ <<p>>[1] = p /\ Len(<<p>>) = 1 /\ <<p>> # <<>> OBVIOUS
<1> HIDE DEF g
<1>5. ReadsItsPoints(g)
  BY <1>1, <1>4 DEF ReadsItsPoints, RegistersOf
<1>6. OfOneKind(g) /\ EndsWith(g, p)
  BY <1>1, <1>4 DEF OfOneKind, EndsWith, LastPoint
<1>7. g # NoGroup
  <2>1. NoGroup.points = <<>> BY DEF NoGroup
  <2>2. g.points # <<>> BY <1>1, <1>4
  <2> QED BY <2>1, <2>2
<1> QED BY <1>1, <1>3, <1>4, <1>5, <1>6, <1>7 DEF Good, g

Extended(g, q) ==
  [g EXCEPT !.count = (@ + q.num) % UintSize, !.points = Append(@, q)]

LEMMA OnePointMore ==
  ASSUME NEW g \in BatchGroup, NEW q \in Point, q.num \in {1, 2, 4},
         NEW p \in Point, p.num \in {1, 2, 4},
         Good(g), EndsWith(g, p), canBatchRead(p, q), p.addr <= q.addr,
         NEW a \in Uint16, a \notin RegistersOf(q),
         \A i \in DOMAIN g.points : a \notin RegistersOf(g.points[i])
  PROVE  /\ Extended(g, q) \in BatchGroup /\ Extended(g, q) # NoGroup
         /\ Extended(g, q).points = Append(g.points, q)
         /\ Good(Extended(g, q)) /\ EndsWith(Extended(g, q), q)
<1> DEFINE h == Extended(g, q)
           n == Len(g.points)
<1>1. /\ UintSize = 65536
      /\ g.start \in Nat /\ g.start < UintSize /\ g.count \in Nat /\ g.count < UintSize
      /\ p.addr \in Nat /\ p.addr < UintSize /\ q.addr \in Nat /\ q.addr < UintSize
      /\ p.num \in 1..4 /\ q.num \in 1..4 /\ a \in Nat /\ a < UintSize
  <2>1. p.addr \in Uint16 /\ q.addr \in Uint16 BY DEF Point
  <2>2. g.start \in Uint16 /\ g.count \in Uint16 BY DEF BatchGroup
  <2> QED BY <2>1, <2>2, SizeIs
<1>2. /\ n \in Nat \ {0} /\ g.points \in Seq(Point) /\ DOMAIN g.points = 1..n
      /\ p = g.points[n]
  <2>1. g.points \in Seq(Point) BY DEF BatchGroup
  <2> QED BY <2>1 DEF Good, EndsWith, LastPoint
<1>3. q.addr = g.start + g.count
  <2>1. p.addr + p.num = g.start + g.count BY DEF EndsWith
  <2>2. (p.addr + p.num) % UintSize = q.addr BY DEF canBatchRead
  <2> QED BY <1>1, <2>1, <2>2
<1>4. {Register(g.start + k) : k \in 0..(g.count - 1)}
        = UNION {RegistersOf(g.points[i]) : i \in 1..n}
  BY <1>2 DEF Good, ReadsItsPoints
<1>5. RegistersOf(q) = {Register(g.start + k) : k \in g.count..(g.count + q.num - 1)}
  <2>1. ASSUME NEW k \in 0..(q.num - 1)
        PROVE  /\ g.count + k \in g.count..(g.count + q.num - 1)
               /\ g.start + (g.count + k) = q.addr + k
    BY <1>1, <1>3
  <2>2. ASSUME NEW k \in g.count..(g.count + q.num - 1)
        PROVE  /\ k - g.count \in 0..(q.num - 1)
               /\ q.addr + (k - g.count) = g.start + k
    BY <1>1, <1>3
  <2> QED BY <2>1, <2>2 DEF RegistersOf
<1>6. g.count + q.num < UintSize
  <2> SUFFICES ASSUME g.count + q.num >= UintSize PROVE FALSE
    BY <1>1
  <2> DEFINE k == IF a >= g.start THEN a - g.start ELSE a + UintSize - g.start
  <2>1. k \in 0..(g.count + q.num - 1) /\ Register(g.start + k) = a
    BY <1>1 DEF Register
  <2> HIDE DEF k
  <2>2. CASE k \in 0..(g.count - 1)
    <3>1. a \in UNION {RegistersOf(g.points[i]) : i \in 1..n} BY <1>4, <2>1, <2>2
    <3> QED BY <1>2, <3>1
  <2>3. CASE k \in g.count..(g.count + q.num - 1)
    BY <1>5, <2>1, <2>3
  <2> QED BY <1>1, <2>1, <2>2, <2>3
<1>7. /\ h.start = g.start /\ h.count = g.count + q.num /\ h.regType = g.regType
      /\ h.readOnly = g.readOnly /\ h.points = Append(g.points, q) /\ h \in BatchGroup
  <2>1. (g.count + q.num) % UintSize = g.count + q.num /\ g.count + q.num \in Uint16
    BY <1>1, <1>6, SizeIs
  <2>2. Append(g.points, q) \in Seq(Point) BY <1>2
  <2> QED BY <2>1, <2>2 DEF Extended, BatchGroup
<1>8. /\ DOMAIN h.points = 1..(n + 1) /\ h.points[n + 1] = q /\ Len(h.points) = n + 1
      /\ \A i \in 1..n : h.points[i] = g.points[i]
      /\ h.points # <<>>
  BY <1>2, <1>7
<1> HIDE DEF h, n
<1>9. EndsWith(h, q)
  BY <1>1, <1>2, <1>3, <1>7, <1>8 DEF EndsWith, LastPoint
<1>10. OfOneKind(h)
  <2>1. p.regType = g.regType /\ p.readOnly = g.readOnly /\ p.swap = g.points[1].swap
    BY <1>2 DEF Good, OfOneKind
  <2>2. q.regType = p.regType /\ q.readOnly = p.readOnly /\ q.swap = p.swap
    BY DEF canBatchRead
  <2>3. h.points[1] = g.points[1] BY <1>2, <1>8
  <2>4. ASSUME NEW i \in 1..(n + 1)
        PROVE  /\ h.points[i].regType = h.regType /\ h.points[i].readOnly = h.readOnly
               /\ h.points[i].swap = h.points[1].swap
    <3>1. CASE i = n + 1 BY <1>7, <1>8, <2>1, <2>2, <2>3, <3>1
    <3>2. CASE i # n + 1
      <4>1. i \in 1..n BY <1>2, <3>2
      <4> QED BY <1>2, <1>7, <1>8, <2>3, <4>1 DEF Good, OfOneKind
    <3> QED BY <3>1, <3>2
  <2> QED BY <1>8, <2>4 DEF OfOneKind
<1>11. ReadsItsPoints(h)
  <2>1. {Register(h.start + k) : k \in 0..(h.count - 1)}
          = {Register(g.start + k) : k \in 0..(g.count - 1)} \cup RegistersOf(q)
    <3>1. \A k : k \in 0..(h.count - 1)
                   <=> k \in 0..(g.count - 1) \/ k \in g.count..(g.count + q.num - 1)
      BY <1>1, <1>7
    <3> QED BY <1>5, <1>7, <3>1
  <2>2. UNION {RegistersOf(h.points[i]) : i \in DOMAIN h.points}
          = (UNION {RegistersOf(g.points[i]) : i \in 1..n}) \cup RegistersOf(q)
    <3>1. \A i : i \in 1..(n + 1) <=> i \in 1..n \/ i = n + 1 BY <1>2
    <3> QED BY <1>8, <3>1
  <2>3. \A i \in 1..n : RegistersOf(g.points[i]) \cap RegistersOf(q) = {}
    <3> SUFFICES ASSUME NEW i \in 1..n, NEW x \in RegistersOf(g.points[i]), x \in RegistersOf(q)
                 PROVE  FALSE
      OBVIOUS
    <3>1. PICK k \in 0..(g.count - 1) : x = Register(g.start + k) BY <1>4
    <3>2. PICK j \in g.count..(g.count + q.num - 1) : x = Register(g.start + j) BY <1>5
    <3>3. /\ g.start + k \in Nat /\ g.start + j \in Nat
          /\ g.start + k < g.start + j /\ g.start + j < g.start + k + UintSize
      BY <1>1, <1>6
    <3> QED BY <3>1, <3>2, <3>3, RegistersDiffer
  <2>4. ASSUME NEW i \in 1..(n + 1), NEW j \in 1..(n + 1), i # j
        PROVE  RegistersOf(h.points[i]) \cap RegistersOf(h.points[j]) = {}
    <3>1. CASE i = n + 1
      <4>1. j \in 1..n BY <1>2, <2>4, <3>1
      <4> QED BY <1>8, <2>3, <3>1, <4>1
    <3>2. CASE j = n + 1
      <4>1. i \in 1..n BY <1>2, <2>4, <3>2
      <4> QED BY <1>8, <2>3, <3>2, <4>1
    <3>3. CASE i # n + 1 /\ j # n + 1
      <4>1. i \in 1..n /\ j \in 1..n BY <1>2, <3>3
      <4> QED BY <1>2, <1>8, <2>4, <4>1 DEF Good, ReadsItsPoints
    <3> QED BY <3>1, <3>2, <3>3
  <2> QED BY <1>4, <1>8, <2>1, <2>2, <2>4 DEF ReadsItsPoints
<1>12. h # NoGroup BY <1>8 DEF NoGroup
<1> QED BY <1>7, <1>8, <1>9, <1>10, <1>11, <1>12 DEF Good, h

-----------------------------------------------------------------------------
(* The loop of determineBatchGroups.                                       *)

GroupTypeInv ==
  /\ models \subseteq Models
  /\ sorted \in Seq(Point)
  /\ next \in 1..(Len(sorted) + 1)
  /\ current \in BatchGroup \cup {NoGroup}
  /\ groups \in Seq(BatchGroup)

SortedInv ==
  /\ \A i, j \in DOMAIN sorted : i < j => sorted[i].addr <= sorted[j].addr
  /\ \A i \in DOMAIN sorted : sorted[i].num \in {1, 2, 4}
  /\ \E a \in Uint16 : \A i \in DOMAIN sorted : a \notin RegistersOf(sorted[i])

\* Between two turns of the loop: the points sorted, the groups that are done,
\* and the one at work, which ends where the point before the next one does.
GroupInv ==
  /\ GroupTypeInv
  /\ SortedInv
  /\ sorted = <<>> => groups = <<>> /\ current = NoGroup /\ next = 1
  /\ current # NoGroup =>
       /\ next >= 2
       /\ Good(current)
       /\ EndsWith(current, sorted[next - 1])
       /\ Range(current.points) \subseteq Range(sorted)
  /\ \A i \in DOMAIN groups : Good(groups[i])
  /\ PointsOf(Made) = SubSeq(sorted, 1, next - 1)
  /\ \A i \in 1..(Len(Made) - 1) :
       ~canBatchRead(LastPoint(Made[i]), Made[i + 1].points[1])

\* Whatever order sort.Slice leaves points with one address in.
LEMMA SortedPoints ==
  ASSUME LeavesARegister, NEW points \in Models, NEW s \in Sorted(validatePoints(points))
  PROVE  /\ s \in Seq(Point) /\ Len(s) = Len(points)
         /\ \A i, j \in DOMAIN s : i < j => s[i].addr <= s[j].addr
         /\ \A i \in DOMAIN s : s[i].num \in {1, 2, 4}
         /\ \E a \in Uint16 : \A i \in DOMAIN s : a \notin RegistersOf(s[i])
<1> DEFINE n == Len(points)
           v == validatePoints(points)
<1>1. points \in Seq(Point) /\ n \in Nat /\ DOMAIN points = 1..n
  BY ModelsAssumption
<1>2. ASSUME NEW i \in 1..n PROVE v[i] \in Point /\ v[i].num \in {1, 2, 4}
  <2>1. v[i] = [points[i] EXCEPT !.num = getRegNumByDataType(points[i].dataType)]
    BY <1>1 DEF validatePoints
  <2>2. points[i] \in Point BY <1>1
  <2>3. getRegNumByDataType(points[i].dataType) \in {1, 2, 4}
    BY DEF getRegNumByDataType
  <2>4. {1, 2, 4} \subseteq Uint16 BY SizeIs
  <2> QED BY <2>1, <2>2, <2>3, <2>4 DEF Point
<1>3. DOMAIN v = 1..n BY <1>1 DEF validatePoints
<1> HIDE DEF v, n
<1>4. PICK f \in Bijection(1..n, 1..n) : s = [i \in 1..n |-> v[f[i]]]
  BY <1>3 DEF Sorted, v
<1>5. f \in [1..n -> 1..n] BY DEF Bijection, Injection
<1>6. /\ s \in [1..n -> Point] /\ DOMAIN s = 1..n
      /\ \A i \in 1..n : s[i] = v[f[i]] /\ s[i].num \in {1, 2, 4}
  BY <1>2, <1>4, <1>5
<1>7. s \in Seq(Point) /\ Len(s) = n BY <1>1, <1>6
<1>8. \A i, j \in DOMAIN s : i < j => s[i].addr <= s[j].addr
  BY DEF Sorted
<1>9. PICK a \in Uint16 : \A i \in 1..n : a \notin RegistersOf(v[i])
  BY <1>1 DEF LeavesARegister, v
<1>10. \A i \in DOMAIN s : a \notin RegistersOf(s[i])
  BY <1>5, <1>6, <1>9
<1> QED BY <1>6, <1>7, <1>8, <1>10 DEF n

\* The groups made, when their last one is at work.
LEMMA MadeWith ==
  ASSUME NEW gs \in Seq(BatchGroup), NEW g \in BatchGroup
  PROVE  /\ HavePoints(gs) /\ HavePoints(Append(gs, g)) /\ PointsOf(gs) \in Seq(Point)
         /\ PointsOf(Append(gs, g)) = PointsOf(gs) \o g.points
         /\ Append(gs, g) \in Seq(BatchGroup) /\ Len(Append(gs, g)) = Len(gs) + 1
         /\ Append(gs, g)[Len(gs) + 1] = g
         /\ \A i \in 1..Len(gs) : Append(gs, g)[i] = gs[i]
         /\ DOMAIN Append(gs, g) = 1..(Len(gs) + 1) /\ DOMAIN gs = 1..Len(gs)
         /\ Len(gs) \in Nat
<1>1. HavePoints(gs) /\ g.points \in Seq(Point)
  <2>1. \A h \in BatchGroup : h.points \in Seq(Point) BY DEF BatchGroup
  <2>2. \A i \in DOMAIN gs : gs[i] \in BatchGroup OBVIOUS
  <2> QED BY <2>1, <2>2 DEF HavePoints
<1>2. /\ HavePoints(Append(gs, g)) /\ PointsOf(gs) \in Seq(Point)
      /\ PointsOf(Append(gs, g)) = PointsOf(gs) \o g.points
  BY <1>1, PointsOfAppend
<1>3. /\ Append(gs, g) \in Seq(BatchGroup) /\ Len(Append(gs, g)) = Len(gs) + 1
      /\ Append(gs, g)[Len(gs) + 1] = g
      /\ \A i \in 1..Len(gs) : Append(gs, g)[i] = gs[i]
      /\ DOMAIN Append(gs, g) = 1..(Len(gs) + 1) /\ DOMAIN gs = 1..Len(gs)
      /\ Len(gs) \in Nat
  OBVIOUS
<1> QED BY <1>1, <1>2, <1>3

LEMMA NothingMade ==
  /\ <<>> \in Seq(Point) /\ <<>> \in Seq(BatchGroup) /\ Len(<<>>) = 0 /\ DOMAIN <<>> = {}
  /\ PointsOf(<<>>) = SubSeq(<<>>, 1, 1 - 1)
<1>1. SubSeq(<<>>, 1, 1 - 1) = <<>> OBVIOUS
<1>2. /\ <<>> \in Seq(Point) /\ <<>> \in Seq(BatchGroup) /\ Len(<<>>) = 0
      /\ DOMAIN <<>> = {}
  OBVIOUS
<1>3. PointsOf(<<>>) = SubSeq(<<>>, 1, 1 - 1) BY <1>1, PointsOfNothing, Zenon
<1> QED BY <1>2, <1>3, Zenon

LEMMA BeginStep ==
  ASSUME LeavesARegister, GroupInv, NEW points \in models, BeginGroups(points)
  PROVE  GroupInv'
<1>1. /\ points \in Models /\ models' \subseteq Models /\ sorted = <<>> /\ groups = <<>>
      /\ current = NoGroup /\ next = 1 /\ groups' = <<>>
  BY DEF GroupInv, GroupTypeInv, BeginGroups
<1>2. sorted' \in Sorted(validatePoints(points)) BY DEF BeginGroups
<1>3. sorted' \in Seq(Point) /\ Len(sorted') = Len(points) /\ SortedInv'
  BY <1>1, <1>2, SortedPoints DEF SortedInv
<1>4. Len(sorted') \in Nat /\ DOMAIN sorted' = 1..Len(sorted') BY <1>3
<1>5. CASE points = <<>>
  <2>1. Len(points) = 0 /\ UNCHANGED <<current, next>> BY <1>5 DEF BeginGroups
  <2>2. sorted' = <<>> BY <1>3, <2>1
  <2>3. Made' = <<>> /\ Made = <<>> BY <1>1, <2>1 DEF Made
  <2>4. GroupTypeInv' BY <1>1, <1>3, <1>4, <2>1 DEF GroupTypeInv, GroupInv
  <2>5. PointsOf(Made') = SubSeq(sorted', 1, next' - 1)
    BY <1>1, <2>1, <2>2, <2>3 DEF GroupInv
  <2> QED BY <1>1, <1>3, <2>1, <2>2, <2>3, <2>4, <2>5 DEF GroupInv
<1>6. CASE points # <<>>
  <2> DEFINE p == sorted'[1]
  <2>1. current' = GroupOf(p) /\ next' = 2 BY <1>6 DEF BeginGroups
  <2>2. points \in Seq(Point) BY <1>1, ModelsAssumption
  <2>3. Len(sorted') >= 1 BY <1>3, <1>6, <2>2
  <2>4. 1 \in DOMAIN sorted' /\ p \in Point /\ p.num \in {1, 2, 4}
    BY <1>3, <1>4, <2>3 DEF SortedInv
  <2> HIDE DEF p
  <2>5. /\ current' \in BatchGroup /\ current' # NoGroup
        /\ current'.points = <<p>> /\ Good(current') /\ EndsWith(current', p)
    BY <2>1, <2>4, OnePoint
  <2>6. Made' = Append(<<>>, current') BY <1>1, <2>5 DEF Made
  <2>7. <<>> \in Seq(BatchGroup) /\ Len(<<>>) = 0 OBVIOUS
  <2>8. PointsOf(Made') = <<>> \o <<p>> /\ Len(Made') = 1
    <3>1. /\ PointsOf(Append(<<>>, current')) = PointsOf(<<>>) \o current'.points
          /\ Len(Append(<<>>, current')) = Len(<<>>) + 1
      BY <2>5, <2>7, MadeWith
    <3> QED BY <2>5, <2>6, <2>7, <3>1, PointsOfNothing
  <2>9. PointsOf(Made') = SubSeq(sorted', 1, next' - 1)
    <3>1. SubSeq(sorted', 1, 1) = Append(SubSeq(sorted', 1, 1 - 1), p)
      BY <1>3, <1>4, <2>3, BeginningGrows DEF p
    <3>2. SubSeq(sorted', 1, 1 - 1) = <<>> BY <1>3, <1>4, <2>3
    <3>3. <<>> \o <<p>> = <<p>> /\ Append(<<>>, p) = <<p>> OBVIOUS
    <3> QED BY <2>1, <2>8, <3>1, <3>2, <3>3
  <2>10. Range(current'.points) \subseteq Range(sorted')
    <3>1. Range(<<p>>) = {p} BY DEF Range
    <3> QED BY <2>4, <2>5, <3>1 DEF Range, p
  <2>11. GroupTypeInv' BY <1>1, <1>3, <1>4, <2>1, <2>3, <2>5 DEF GroupTypeInv
  <2>12. sorted' # <<>> BY <2>3
  <2> QED
    BY <1>1, <1>3, <2>1, <2>5, <2>8, <2>9, <2>10, <2>11, <2>12 DEF GroupInv, p
<1> QED BY <1>5, <1>6

LEMMA ExtendStep ==
  ASSUME GroupInv, ExtendGroup
  PROVE  GroupInv'
<1> DEFINE p == sorted[next - 1]
           q == sorted[next]
<1>1. /\ current # NoGroup /\ next <= Len(sorted) /\ canBatchRead(LastPoint(current), q)
      /\ current' = Extended(current, q) /\ next' = next + 1
      /\ UNCHANGED <<models, sorted, groups>>
  BY DEF ExtendGroup, Extended
<1>2. /\ current \in BatchGroup /\ sorted \in Seq(Point) /\ next \in 2..Len(sorted)
      /\ DOMAIN sorted = 1..Len(sorted) /\ groups \in Seq(BatchGroup) /\ Len(sorted) \in Nat
      /\ Good(current) /\ EndsWith(current, p) /\ Range(current.points) \subseteq Range(sorted)
  BY <1>1 DEF GroupInv, GroupTypeInv
<1>3. next - 1 \in DOMAIN sorted /\ next \in DOMAIN sorted /\ next - 1 < next
  BY <1>2
<1>4. /\ p \in Point /\ q \in Point /\ p.num \in {1, 2, 4} /\ q.num \in {1, 2, 4}
      /\ p.addr <= q.addr /\ LastPoint(current) = p
  BY <1>2, <1>3 DEF GroupInv, SortedInv, EndsWith
<1>5. PICK a \in Uint16 : \A i \in DOMAIN sorted : a \notin RegistersOf(sorted[i])
  BY DEF GroupInv, SortedInv
<1>6. a \notin RegistersOf(q) /\ \A i \in DOMAIN current.points : a \notin RegistersOf(current.points[i])
  BY <1>2, <1>3, <1>5 DEF Range
<1> HIDE DEF p, q
<1>7. /\ current' \in BatchGroup /\ current' # NoGroup
      /\ current'.points = Append(current.points, q)
      /\ Good(current') /\ EndsWith(current', q)
  BY <1>1, <1>2, <1>4, <1>6, OnePointMore
<1>8. Made = Append(groups, current) /\ Made' = Append(groups, current')
  BY <1>1, <1>7 DEF Made
<1>9. current.points \in Seq(Point) /\ current.points # <<>> BY <1>2 DEF BatchGroup, Good
<1>10. PointsOf(Made') = SubSeq(sorted, 1, next)
  <2>1. PointsOf(Made') = PointsOf(groups) \o Append(current.points, q)
    BY <1>2, <1>7, <1>8, MadeWith
  <2>2. PointsOf(groups) \in Seq(Point) /\ PointsOf(Made) = PointsOf(groups) \o current.points
    BY <1>2, <1>8, MadeWith
  <2>3. PointsOf(Made') = Append(PointsOf(Made), q)
    BY <1>4, <1>9, <2>1, <2>2, ConcatAppend
  <2>4. SubSeq(sorted, 1, next) = Append(SubSeq(sorted, 1, next - 1), q)
    BY <1>2, <1>3, BeginningGrows DEF q
  <2> QED BY <2>3, <2>4 DEF GroupInv
<1>11. Range(current'.points) \subseteq Range(sorted)
  <2>1. Range(current'.points) = Range(current.points) \cup {q}
    BY <1>4, <1>7, <1>9, RangeAppend
  <2> QED BY <1>2, <1>3, <2>1 DEF Range, q
<1>12. \A i \in 1..(Len(Made') - 1) : ~canBatchRead(LastPoint(Made'[i]), Made'[i + 1].points[1])
  <2> SUFFICES ASSUME NEW i \in 1..Len(groups)
               PROVE  ~canBatchRead(LastPoint(Made'[i]), Made'[i + 1].points[1])
    BY <1>2, <1>7, <1>8, MadeWith
  <2>1. Len(groups) \in Nat /\ Len(Made) = Len(groups) + 1 /\ Made'[i] = Made[i]
    BY <1>2, <1>7, <1>8, MadeWith
  <2>2. ~canBatchRead(LastPoint(Made[i]), Made[i + 1].points[1])
    BY <2>1 DEF GroupInv
  <2>3. CASE i = Len(groups)
    <3>1. Made[i + 1] = current /\ Made'[i + 1] = current'
      BY <1>2, <1>7, <1>8, <2>3, MadeWith
    <3>2. current'.points[1] = current.points[1] BY <1>7, <1>9
    <3> QED BY <2>1, <2>2, <3>1, <3>2
  <2>4. CASE i # Len(groups)
    <3>1. i + 1 \in 1..Len(groups) BY <2>1, <2>4
    <3>2. Made[i + 1] = groups[i + 1] /\ Made'[i + 1] = groups[i + 1]
      BY <1>2, <1>7, <1>8, <3>1, MadeWith
    <3> QED BY <2>1, <2>2, <3>2
  <2> QED BY <2>3, <2>4
<1>13. GroupTypeInv' BY <1>1, <1>2, <1>7 DEF GroupInv, GroupTypeInv
<1>14. SortedInv' BY <1>1 DEF GroupInv, SortedInv
<1>15. next' - 1 = next /\ next' >= 2 /\ sorted # <<>> BY <1>1, <1>2
<1> QED
  BY <1>1, <1>7, <1>10, <1>11, <1>12, <1>13, <1>14, <1>15 DEF GroupInv, q

LEMMA NewGroupStep ==
  ASSUME GroupInv, NewGroup
  PROVE  GroupInv'
<1> DEFINE q == sorted[next]
<1>1. /\ current # NoGroup /\ next <= Len(sorted) /\ ~canBatchRead(LastPoint(current), q)
      /\ groups' = Append(groups, current)
      /\ current' = GroupOf(q) /\ next' = next + 1
      /\ UNCHANGED <<models, sorted>>
  BY DEF NewGroup
<1>2. /\ current \in BatchGroup /\ sorted \in Seq(Point) /\ next \in 2..Len(sorted)
      /\ DOMAIN sorted = 1..Len(sorted) /\ groups \in Seq(BatchGroup) /\ Len(sorted) \in Nat
      /\ Good(current)
  BY <1>1 DEF GroupInv, GroupTypeInv
<1>3. next \in DOMAIN sorted /\ q \in Point /\ q.num \in {1, 2, 4}
  BY <1>2 DEF GroupInv, SortedInv
<1> HIDE DEF q
<1>4. /\ current' \in BatchGroup /\ current' # NoGroup
      /\ current'.points = <<q>> /\ Good(current') /\ EndsWith(current', q)
  BY <1>1, <1>3, OnePoint
<1>5. Made = groups' /\ Made' = Append(groups', current') /\ groups' \in Seq(BatchGroup)
  BY <1>1, <1>2, <1>4 DEF Made
<1>6. PointsOf(Made') = SubSeq(sorted, 1, next)
  <2>1. PointsOf(Made') = PointsOf(Made) \o <<q>> /\ PointsOf(Made) \in Seq(Point)
    <3>1. /\ PointsOf(Append(groups', current')) = PointsOf(groups') \o current'.points
          /\ PointsOf(groups') \in Seq(Point)
      BY <1>4, <1>5, MadeWith
    <3> QED BY <1>4, <1>5, <3>1
  <2>2. PointsOf(Made') = Append(PointsOf(Made), q)
    BY <1>3, <2>1, ConcatAppend
  <2>3. SubSeq(sorted, 1, next) = Append(SubSeq(sorted, 1, next - 1), q)
    BY <1>2, <1>3, BeginningGrows DEF q
  <2> QED BY <2>2, <2>3 DEF GroupInv
<1>7. \A i \in DOMAIN groups' : Good(groups'[i])
  <2> SUFFICES ASSUME NEW i \in 1..(Len(groups) + 1) PROVE Good(groups'[i])
    BY <1>1, <1>2, MadeWith
  <2>1. CASE i = Len(groups) + 1 BY <1>1, <1>2, <2>1, MadeWith
  <2>2. CASE i # Len(groups) + 1
    <3>1. i \in 1..Len(groups) /\ DOMAIN groups = 1..Len(groups) BY <1>2, <2>2
    <3>2. groups'[i] = groups[i] BY <1>1, <1>2, <3>1, MadeWith
    <3> QED BY <3>1, <3>2 DEF GroupInv
  <2> QED BY <2>1, <2>2
<1>8. \A i \in 1..(Len(Made') - 1) : ~canBatchRead(LastPoint(Made'[i]), Made'[i + 1].points[1])
  <2>0. /\ Len(Made') = Len(Made) + 1 /\ Len(Made) = Len(groups) + 1 /\ Len(groups) \in Nat
        /\ Made'[Len(Made) + 1] = current' /\ Made[Len(Made)] = current
        /\ \A i \in 1..Len(Made) : Made'[i] = Made[i]
    BY <1>1, <1>2, <1>4, <1>5, MadeWith
  <2> SUFFICES ASSUME NEW i \in 1..Len(Made)
               PROVE  ~canBatchRead(LastPoint(Made'[i]), Made'[i + 1].points[1])
    BY <2>0
  <2>1. CASE i = Len(Made)
    <3>1. Made'[i] = current /\ Made'[i + 1] = current' BY <2>0, <2>1
    <3>2. current'.points[1] = q BY <1>4
    <3> QED BY <1>1, <3>1, <3>2
  <2>2. CASE i # Len(Made)
    <3>1. i \in 1..(Len(Made) - 1) /\ i + 1 \in 1..Len(Made) BY <2>0, <2>2
    <3>2. Made'[i] = Made[i] /\ Made'[i + 1] = Made[i + 1] BY <2>0, <3>1
    <3> QED BY <3>1, <3>2 DEF GroupInv
  <2> QED BY <2>1, <2>2
<1>9. Range(current'.points) \subseteq Range(sorted)
  <2>1. Range(<<q>>) = {q} BY DEF Range
  <2> QED BY <1>3, <1>4, <2>1 DEF Range, q
<1>10. GroupTypeInv' BY <1>1, <1>2, <1>4, <1>5 DEF GroupInv, GroupTypeInv
<1>11. SortedInv' BY <1>1 DEF GroupInv, SortedInv
<1>12. next' - 1 = next /\ next' >= 2 /\ sorted # <<>> BY <1>1, <1>2
<1> QED
  BY <1>1, <1>4, <1>6, <1>7, <1>8, <1>9, <1>10, <1>11, <1>12 DEF GroupInv, q

LEMMA LastGroupStep ==
  ASSUME GroupInv, LastGroup
  PROVE  GroupInv'
<1>1. /\ current # NoGroup /\ groups' = Append(groups, current) /\ current' = NoGroup
      /\ UNCHANGED <<models, sorted, next>>
  BY DEF LastGroup
<1>2. /\ current \in BatchGroup /\ groups \in Seq(BatchGroup) /\ Good(current)
      /\ next >= 2 /\ sorted \in Seq(Point) /\ next \in 1..(Len(sorted) + 1)
  BY <1>1 DEF GroupInv, GroupTypeInv
<1>3. Made' = Made BY <1>1 DEF Made
<1>4. \A i \in DOMAIN groups' : Good(groups'[i])
  <2> SUFFICES ASSUME NEW i \in 1..(Len(groups) + 1) PROVE Good(groups'[i])
    BY <1>1, <1>2, MadeWith
  <2>1. CASE i = Len(groups) + 1 BY <1>1, <1>2, <2>1, MadeWith
  <2>2. CASE i # Len(groups) + 1
    <3>1. i \in 1..Len(groups) /\ DOMAIN groups = 1..Len(groups) BY <1>2, <2>2
    <3>2. groups'[i] = groups[i] BY <1>1, <1>2, <3>1, MadeWith
    <3> QED BY <3>1, <3>2 DEF GroupInv
  <2> QED BY <2>1, <2>2
<1>5. sorted # <<>> BY <1>2
<1>6. GroupTypeInv' BY <1>1, <1>2 DEF GroupInv, GroupTypeInv
<1>7. SortedInv' BY <1>1 DEF GroupInv, SortedInv
<1> QED BY <1>1, <1>3, <1>4, <1>5, <1>6, <1>7 DEF GroupInv

LEMMA PrintStep ==
  ASSUME GroupInv, PrintGroups
  PROVE  GroupInv'
<1>1. /\ sorted' = <<>> /\ next' = 1 /\ groups' = <<>> /\ current = NoGroup
      /\ UNCHANGED <<models, current>>
  BY DEF PrintGroups
<1>2. /\ <<>> \in Seq(Point) /\ <<>> \in Seq(BatchGroup) /\ Len(<<>>) = 0 /\ DOMAIN <<>> = {}
      /\ SubSeq(<<>>, 1, 0) = <<>>
  OBVIOUS
<1>3. Made' = <<>> BY <1>1 DEF Made
<1>4. GroupTypeInv' BY <1>1, <1>2 DEF GroupInv, GroupTypeInv
<1>5. SortedInv' BY <1>1, <1>2 DEF GroupInv, SortedInv
<1>6. PointsOf(Made') = SubSeq(sorted', 1, next' - 1)
  BY <1>1, <1>3, NothingMade
<1> QED BY <1>1, <1>2, <1>3, <1>4, <1>5, <1>6 DEF GroupInv

LEMMA GroupsInit == LeavesARegister /\ GroupInit => GroupInv
<1> SUFFICES ASSUME GroupInit PROVE GroupInv OBVIOUS
<1>1. /\ <<>> \in Seq(Point) /\ <<>> \in Seq(BatchGroup) /\ Len(<<>>) = 0 /\ DOMAIN <<>> = {}
      /\ SubSeq(<<>>, 1, 0) = <<>>
  OBVIOUS
<1>2. Made = <<>> BY DEF GroupInit, Made
<1>3. GroupTypeInv BY <1>1 DEF GroupInit, GroupTypeInv
<1>4. SortedInv
  <2>1. 0 \in Uint16 BY SizeIs
  <2> QED BY <1>1, <2>1 DEF GroupInit, SortedInv
<1>5. PointsOf(Made) = SubSeq(sorted, 1, next - 1)
  BY <1>2, NothingMade DEF GroupInit
<1> QED BY <1>1, <1>2, <1>3, <1>4, <1>5 DEF GroupInv, GroupInit

LEMMA GroupsStep ==
  LeavesARegister /\ GroupInv /\ [GroupStep]_groupVars => GroupInv'
<1> SUFFICES ASSUME LeavesARegister, GroupInv, [GroupStep]_groupVars PROVE GroupInv'
  OBVIOUS
<1>1. CASE UNCHANGED groupVars
  BY <1>1 DEF groupVars, GroupInv, GroupTypeInv, SortedInv, Made
<1> QED
  BY <1>1, BeginStep, ExtendStep, NewGroupStep, LastGroupStep, PrintStep DEF GroupStep

LEMMA GroupsCorrect == GroupInv => GroupingCorrect
<1> SUFFICES ASSUME GroupInv, NEW i \in DOMAIN Made
             PROVE  Good(Made[i])
  BY DEF GroupInv, GroupingCorrect, Good
<1>1. CASE current = NoGroup BY <1>1 DEF Made, GroupInv
<1>2. CASE current # NoGroup
  <2>1. Made = Append(groups, current) /\ current \in BatchGroup /\ groups \in Seq(BatchGroup)
    BY <1>2 DEF Made, GroupInv, GroupTypeInv
  <2>2. i = Len(groups) + 1 \/ i \in 1..Len(groups) BY <2>1, MadeWith
  <2>3. CASE i = Len(groups) + 1 BY <1>2, <2>1, <2>3, MadeWith DEF GroupInv
  <2>4. CASE i \in 1..Len(groups)
    <3>1. i \in DOMAIN groups /\ Made[i] = groups[i] BY <2>1, <2>4, MadeWith
    <3> QED BY <3>1 DEF GroupInv
  <2> QED BY <2>2, <2>3, <2>4
<1> QED BY <1>1, <1>2

\* Of the program's steps only GroupModel touches the groups.
LEMMA MainStepGroups == [MainNext]_allVars => [GroupStep]_groupVars
<1> SUFFICES ASSUME [MainNext]_allVars, ~GroupStep PROVE UNCHANGED groupVars
  OBVIOUS
<1> USE DEF allVars
<1>1. CASE FailLoad \/ ExitMain \/ GroupModel \/ EndLoad \/ Signal
  BY <1>1 DEF FailLoad, ExitMain, GroupModel, EndLoad, Signal
<1>2. CASE EndLoop("add", "start") \/ EndLoop("start", "wait")
  BY <1>2 DEF EndLoop
<1>3. ASSUME NEW d \in DeviceId,
             AddConfigured(d) \/ StartDefault(d) \/ PanicOnNilDevice(d) \/ ShutDown(d)
      PROVE  UNCHANGED groupVars
  BY <1>3 DEF AddConfigured, StartDefault, PanicOnNilDevice, ShutDown
<1> QED BY <1>1, <1>2, <1>3 DEF MainNext, MainStep

\* The groups of determineBatchGroups hold each point once and ask for exactly
\* the registers their points take, at each turn of its loop: for any models, as
\* many points as there may be, and whichever order sort.Slice leaves equal
\* addresses in. How many registers one request may ask for is not a concern of
\* the code: a group may be larger than a Modbus request.
THEOREM GroupsReadExactly ==
  ASSUME LeavesARegister
  PROVE  MainSpec => []GroupingCorrect
<1>1. MainInit => GroupInv BY GroupsInit DEF MainInit
<1>2. GroupInv /\ [MainNext]_allVars => GroupInv' BY MainStepGroups, GroupsStep
<1> QED BY <1>1, <1>2, GroupsCorrect, PTL DEF MainSpec
=============================================================================
