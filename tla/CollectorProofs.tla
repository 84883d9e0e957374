--------------------------- MODULE CollectorProofs ---------------------------
(***************************************************************************)
(* Theorems about Collector, for any number of devices, task ids and runs  *)
(* and any capacity of dataChan.                                           *)
(***************************************************************************)
EXTENDS Collector, TLAPS

-----------------------------------------------------------------------------
(* The inductive invariant.                                                *)

\* What the fields of the call that holds c.mu are in each of its states.
CallInv ==
  /\ call.op \in {"connect", "start", "register", "stopAll"} => call.dev \in DeviceId
  /\ call.op \in {"start", "register", "delete"} => call.task \in TaskId
  /\ call.op \in {"start", "register"} => tasks[call.task] = None
  /\ call.op \in {"none", "connect"} => call.task = None

\* A run has a job from its birth, and looks at a context while it waits.
JobInv ==
  \A r \in Run :
    /\ pc[r] # "unborn" => job[r] \in Job
    /\ pc[r] = "select" => watched[r] \in Run

\* The task whose deletion is under way.
Deleting(t) == call.op \in {"delete", "stopAll"} /\ call.task = t

\* Whatever is registered has been started under that id, and has been told
\* to stop exactly when its deletion is under way.
MapInv ==
  \A t \in TaskId : tasks[t] # None =>
    /\ pc[tasks[t]] # "unborn"
    /\ job[tasks[t]].task = t
    /\ cancelled[tasks[t]] <=> Deleting(t)

\* Whoever has not been told to stop is registered, and waits for nobody
\* else's context.
RunInv ==
  \A r \in Run :
    /\ pc[r] = "unborn" => ~cancelled[r]
    /\ pc[r] # "unborn" /\ ~cancelled[r] => tasks[job[r].task] = r
    /\ pc[r] = "select" /\ ~cancelled[r] => watched[r] = r
    /\ pc[r] = "done" => cancelled[r]

\* The device of a registered task is connected.
ConnectedInv ==
  /\ \A t \in TaskId : tasks[t] # None => connected[job[tasks[t]].dev]
  /\ call.op = "register" => connected[call.dev]
  /\ \A r \in Run : pc[r] = "connect" => cancelled[r]

TypeInv == CollectorTypeOK /\ CallInv /\ JobInv
IInv    == TypeInv /\ MapInv /\ RunInv /\ ConnectedInv

LEMMA IInvInit == Init => IInv
<1> SUFFICES ASSUME Init PROVE IInv
  OBVIOUS
<1> USE DEF Init, NoCall
<1>1. dataChan \in Seq(Run) /\ Len(dataChan) <= ChanCap
  <2>1. <<>> \in Seq(Run) /\ Len(<<>>) = 0 OBVIOUS
  <2> QED BY <2>1, CollectorAssumption
<1>2. call \in Call BY DEF Call
<1>3. CollectorTypeOK
  BY <1>1, <1>2, CollectorAssumption DEF CollectorTypeOK, PcStates, Crashes
<1>4. CallInv /\ JobInv BY DEF CallInv, JobInv
<1>5. MapInv /\ RunInv /\ ConnectedInv BY DEF MapInv, RunInv, ConnectedInv
<1> QED BY <1>3, <1>4, <1>5 DEF IInv, TypeInv

-----------------------------------------------------------------------------
(* Steps of the goroutines: they leave the map and the call alone.         *)

LEMMA GotoType ==
  ASSUME pc \in [Run -> PcStates], NEW r \in Run, NEW label \in PcStates, Goto(r, label)
  PROVE  /\ pc' \in [Run -> PcStates]
         /\ pc'[r] = label
         /\ \A q \in Run \ {r} : pc'[q] = pc[q]
BY DEF Goto

\* A step of a run that is born and does not go to its select.
LEMMA RunMoves ==
  ASSUME IInv, NEW r \in Run, pc[r] # "unborn",
         NEW label \in {"loop", "check", "connect", "read", "send", "done"},
         Goto(r, label), label \in {"connect", "done"} => cancelled[r],
         UNCHANGED <<mapVars, call, cancelled, job, watched, crashed>>,
         connected' \in [DeviceId -> BOOLEAN],
         \A d \in DeviceId : connected[d] => connected'[d],
         dataChan' \in Seq(Run) /\ Len(dataChan') <= ChanCap
  PROVE  IInv'
<1> USE DEF IInv, TypeInv, mapVars
<1>1. /\ pc' \in [Run -> PcStates] /\ pc'[r] = label
      /\ \A q \in Run \ {r} : pc'[q] = pc[q]
  BY GotoType DEF CollectorTypeOK, PcStates
<1>2. CollectorTypeOK' BY <1>1 DEF CollectorTypeOK
<1>3. CallInv' BY DEF CallInv
<1>4. JobInv' BY <1>1 DEF JobInv
<1>5. MapInv' BY <1>1 DEF MapInv, Deleting, CollectorTypeOK
<1>6. RunInv' BY <1>1 DEF RunInv
<1>7. ConnectedInv'
  <2>1. \A t \in TaskId : tasks[t] # None => job[tasks[t]].dev \in DeviceId
    BY DEF MapInv, JobInv, Job, CollectorTypeOK
  <2> QED BY <1>1, <2>1 DEF ConnectedInv, CallInv
<1> QED BY <1>2, <1>3, <1>4, <1>5, <1>6, <1>7

LEMMA RunStepInv ==
  ASSUME IInv, NEW r \in Run, RunStep(r)
  PROVE  IInv'
<1> USE DEF IInv, TypeInv
<1>0. /\ dataChan \in Seq(Run) /\ Len(dataChan) <= ChanCap
      /\ connected \in [DeviceId -> BOOLEAN] /\ pc \in [Run -> PcStates]
  BY DEF CollectorTypeOK
<1>1. CASE LoadTask(r)
  <2>1. CASE pc' = pc /\ watched' = watched
    <3>1. crashed' \in Crashes
      BY <1>1, <2>1 DEF LoadTask, CollectorTypeOK, Crashes
    <3> QED
      BY <1>1, <2>1, <3>1 DEF LoadTask, CollectorTypeOK, CallInv, JobInv, MapInv,
         RunInv, ConnectedInv, Deleting, mapVars
  <2>2. CASE Goto(r, "select") /\ tasks[job[r].task] # None /\ crashed' = crashed
             /\ watched' = [watched EXCEPT ![r] = tasks[job[r].task]]
    <3>1. /\ pc' \in [Run -> PcStates] /\ pc'[r] = "select"
          /\ \A q \in Run \ {r} : pc'[q] = pc[q]
      BY <1>0, <2>2, GotoType DEF PcStates
    <3>2. pc[r] = "loop" /\ UNCHANGED <<mapVars, call, connected, cancelled, job, dataChan>>
      BY <1>1 DEF LoadTask
    <3>3. job[r].task \in TaskId
      BY <3>2 DEF JobInv, Job
    <3>4. tasks[job[r].task] \in Run
      BY <2>2, <3>3 DEF CollectorTypeOK
    <3>5. /\ watched' \in [Run -> Run \cup {None}] /\ watched'[r] = tasks[job[r].task]
          /\ \A q \in Run \ {r} : watched'[q] = watched[q]
      BY <2>2, <3>4 DEF CollectorTypeOK
    <3>6. CollectorTypeOK'
      BY <2>2, <3>1, <3>2, <3>5 DEF CollectorTypeOK, mapVars
    <3>7. CallInv' BY <3>2 DEF CallInv, mapVars
    <3>8. JobInv' BY <3>1, <3>2, <3>4, <3>5 DEF JobInv
    <3>9. MapInv' BY <3>1, <3>2 DEF MapInv, Deleting, mapVars, CollectorTypeOK
    <3>10. RunInv' BY <3>1, <3>2, <3>5 DEF RunInv, mapVars
    <3>11. ConnectedInv' BY <3>1, <3>2 DEF ConnectedInv, mapVars
    <3> QED BY <3>6, <3>7, <3>8, <3>9, <3>10, <3>11
  <2> QED BY <1>1, <2>1, <2>2 DEF LoadTask
<1>2. CASE EndRun(r)
  <2>1. cancelled[r] BY <1>2 DEF EndRun, RunInv
  <2> QED BY <1>0, <1>2, <2>1, RunMoves DEF EndRun
<1>3. CASE TakeTick(r)
  BY <1>0, <1>3, RunMoves DEF TakeTick
<1>4. CASE CheckConnection(r)
  <2>1. CASE connected[job[r].dev]
    BY <1>0, <1>4, <2>1, RunMoves DEF CheckConnection
  <2>2. CASE ~connected[job[r].dev]
    <3>1. job[r].task \in TaskId BY <1>4 DEF CheckConnection, JobInv, Job
    <3>2. r # None BY CollectorAssumption
    <3>3. cancelled[r]
      BY <1>4, <2>2, <3>1, <3>2 DEF CheckConnection, RunInv, ConnectedInv
    <3> QED BY <1>0, <1>4, <2>2, <3>3, RunMoves DEF CheckConnection
  <2> QED BY <2>1, <2>2
<1>5. CASE Reconnect(r)
  <2>1. /\ connected' \in [DeviceId -> BOOLEAN]
        /\ \A d \in DeviceId : connected[d] => connected'[d]
    BY <1>0, <1>5 DEF Reconnect
  <2>2. Goto(r, "read") \/ Goto(r, "loop") BY <1>5 DEF Reconnect
  <2> QED BY <1>0, <1>5, <2>1, <2>2, RunMoves DEF Reconnect
<1>6. CASE ReadMultiple(r)
  <2>1. Goto(r, "send") \/ Goto(r, "loop") BY <1>6 DEF ReadMultiple
  <2> QED BY <1>0, <1>6, <2>1, RunMoves DEF ReadMultiple
<1>7. CASE Send(r)
  <2>1. dataChan' \in Seq(Run) /\ Len(dataChan') <= ChanCap
    BY <1>0, <1>7, CollectorAssumption DEF Send
  <2> QED BY <1>0, <1>7, <2>1, RunMoves DEF Send
<1> QED BY <1>1, <1>2, <1>3, <1>4, <1>5, <1>6, <1>7 DEF RunStep

-----------------------------------------------------------------------------
(* Steps of the calls.                                                     *)

LEMMA CallFields ==
  ASSUME CollectorTypeOK
  PROVE  /\ call = [op |-> call.op, dev |-> call.dev, task |-> call.task]
         /\ call.op \in {"none", "connect", "start", "register", "delete", "stopAll"}
         /\ call.dev \in DeviceId \cup {None} /\ call.task \in TaskId \cup {None}
BY DEF CollectorTypeOK, Call

\* The end of the process changes nothing else.
LEMMA CrashInv ==
  ASSUME IInv, crashed' \in Crashes, UNCHANGED <<mapVars, call, connected, runVars, dataChan>>
  PROVE  IInv'
<1>1. UNCHANGED <<devices, badParams, tasks, call, connected, cancelled, job, pc, watched,
                 dataChan>>
  BY DEF mapVars, runVars
<1> QED
  BY <1>1 DEF IInv, TypeInv, CollectorTypeOK, CallInv, JobInv, MapInv, RunInv,
              ConnectedInv, Deleting

\* Entering a call, or leaving one without a trace.
LEMMA CallMoves ==
  ASSUME IInv, call' \in Call, CallInv', UNCHANGED <<mapVars, runVars, dataChan>>,
         crashed' \in Crashes,
         connected' \in [DeviceId -> BOOLEAN],
         \A d \in DeviceId : connected[d] => connected'[d],
         \A t \in TaskId : ~Deleting(t) /\ ~Deleting(t)',
         call'.op = "register" => connected'[call'.dev]
  PROVE  IInv'
<1> USE DEF IInv, TypeInv, mapVars, runVars
<1>1. CollectorTypeOK' BY DEF CollectorTypeOK
<1>2. JobInv' BY DEF JobInv
<1>3. MapInv' BY DEF MapInv
<1>4. RunInv' BY DEF RunInv
<1>5. ConnectedInv'
  <2>1. \A t \in TaskId : tasks[t] # None => job[tasks[t]].dev \in DeviceId
    BY DEF MapInv, JobInv, Job, CollectorTypeOK
  <2> QED BY <2>1 DEF ConnectedInv
<1> QED BY <1>1, <1>2, <1>3, <1>4, <1>5

\* cancelFn of a registered task; its deletion comes next.
LEMMA CancelInv ==
  ASSUME IInv, NEW t \in TaskId, tasks[t] # None, Cancel(t), call' \in Call, CallInv',
         call'.op \in {"delete", "stopAll"}, call'.task = t,
         \A u \in TaskId : ~Deleting(u),
         UNCHANGED <<mapVars, connected, job, pc, watched, dataChan, crashed>>
  PROVE  IInv'
<1> USE DEF IInv, TypeInv, mapVars
<1>1. tasks[t] \in Run /\ pc[tasks[t]] # "unborn" BY DEF CollectorTypeOK, MapInv
<1>2. /\ cancelled' \in [Run -> BOOLEAN] /\ cancelled'[tasks[t]]
      /\ \A r \in Run : r # tasks[t] => cancelled'[r] = cancelled[r]
      /\ \A r \in Run : cancelled[r] => cancelled'[r]
  BY <1>1 DEF Cancel, CollectorTypeOK
<1>3. CollectorTypeOK' BY <1>2 DEF CollectorTypeOK
<1>4. JobInv' BY DEF JobInv
<1>5. MapInv'
  <2>1. ASSUME NEW u \in TaskId, tasks[u] # None PROVE cancelled'[tasks[u]] <=> u = t
    <3>1. tasks[u] \in Run /\ job[tasks[u]].task = u /\ ~cancelled[tasks[u]]
      BY <2>1 DEF MapInv, CollectorTypeOK
    <3>2. job[tasks[t]].task = t BY DEF MapInv
    <3> QED BY <1>2, <3>1, <3>2
  <2> QED BY <2>1 DEF MapInv, Deleting
<1>6. RunInv' BY <1>1, <1>2 DEF RunInv
<1>7. ConnectedInv' BY <1>2 DEF ConnectedInv
<1> QED BY <1>3, <1>4, <1>5, <1>6, <1>7

LEMMA RegisterInv ==
  ASSUME IInv, NEW r \in Run, RegisterTask(r)
  PROVE  IInv'
<1> USE DEF IInv, TypeInv, RegisterTask
<1> DEFINE t == call.task
           d == call.dev
<1>1. /\ t \in TaskId /\ d \in DeviceId /\ tasks[t] = None /\ connected[d]
      /\ \A u \in TaskId : ~Deleting(u)
  BY DEF CallInv, ConnectedInv, Deleting
<1>2. /\ tasks' \in [TaskId -> Run \cup {None}] /\ tasks'[t] = r
      /\ \A u \in TaskId \ {t} : tasks'[u] = tasks[u]
  BY <1>1 DEF CollectorTypeOK
<1>3. /\ [task |-> t, dev |-> d] \in Job
      /\ job' \in [Run -> Job \cup {None}] /\ job'[r] = [task |-> t, dev |-> d]
      /\ \A q \in Run \ {r} : job'[q] = job[q]
  BY <1>1 DEF CollectorTypeOK, Job
<1>4. /\ pc' \in [Run -> PcStates] /\ pc'[r] = "loop"
      /\ \A q \in Run \ {r} : pc'[q] = pc[q]
  BY DEF CollectorTypeOK, PcStates
<1>5. ~cancelled[r] /\ \A u \in TaskId : tasks[u] # r
  BY CollectorAssumption DEF RunInv, MapInv
<1>6. r # None /\ NoCall \in Call
  BY CollectorAssumption DEF NoCall, Call
<1>7. \A u \in TaskId : tasks'[u] # None => u = t \/ tasks[u] \in Run \ {r}
  BY <1>2, <1>5 DEF CollectorTypeOK
<1> HIDE DEF t, d
<1>8. CollectorTypeOK'
  BY <1>2, <1>3, <1>4, <1>6 DEF CollectorTypeOK
<1>9. CallInv' BY DEF CallInv, NoCall
<1>10. JobInv' BY <1>3, <1>4 DEF JobInv
<1>11. MapInv'
  <2>1. \A u \in TaskId : ~Deleting(u)'
    BY DEF Deleting, NoCall
  <2>2. ASSUME NEW u \in TaskId, tasks'[u] # None
        PROVE  pc'[tasks'[u]] # "unborn" /\ job'[tasks'[u]].task = u /\ ~cancelled[tasks'[u]]
    <3>1. CASE u = t BY <1>2, <1>3, <1>4, <1>5, <3>1
    <3>2. CASE u # t
      <4>1. tasks'[u] = tasks[u] /\ tasks[u] \in Run \ {r} /\ tasks[u] # None
        BY <1>2, <1>7, <2>2, <3>2
      <4>2. pc[tasks[u]] # "unborn" /\ job[tasks[u]].task = u /\ ~cancelled[tasks[u]]
        BY <1>1, <4>1 DEF MapInv
      <4> QED BY <1>3, <1>4, <4>1, <4>2
    <3> QED BY <3>1, <3>2
  <2> QED BY <2>1, <2>2 DEF MapInv
<1>12. RunInv'
  <2>1. ASSUME NEW q \in Run \ {r}, pc[q] # "unborn", ~cancelled[q]
        PROVE  tasks'[job[q].task] = q
    <3>1. job[q].task \in TaskId /\ tasks[job[q].task] = q BY <2>1 DEF JobInv, Job, RunInv
    <3>2. job[q].task # t BY <1>1, <3>1, CollectorAssumption
    <3> QED BY <1>2, <3>1, <3>2
  <2> QED BY <1>2, <1>3, <1>4, <1>5, <2>1 DEF RunInv
<1>13. ConnectedInv'
  <2>1. ASSUME NEW u \in TaskId, tasks'[u] # None PROVE connected[job'[tasks'[u]].dev]
    <3>1. CASE u = t BY <1>1, <1>2, <1>3, <3>1
    <3>2. CASE u # t BY <1>2, <1>3, <1>7, <2>1, <3>2 DEF ConnectedInv
    <3> QED BY <3>1, <3>2
  <2> QED BY <1>4, <2>1 DEF ConnectedInv, NoCall
<1> QED BY <1>8, <1>9, <1>10, <1>11, <1>12, <1>13

LEMMA DeleteInv ==
  ASSUME IInv, DeleteTask
  PROVE  IInv'
<1> USE DEF IInv, TypeInv, DeleteTask, runVars
<1>1. call.task \in TaskId /\ Deleting(call.task)
  BY CallFields DEF Deleting
<1>2. /\ tasks' \in [TaskId -> Run \cup {None}] /\ tasks'[call.task] = None
      /\ \A u \in TaskId \ {call.task} : tasks'[u] = tasks[u]
  BY <1>1 DEF CollectorTypeOK
<1>3. /\ call' \in Call /\ call'.op \in {"none", "stopAll"} /\ call'.task = None
      /\ call'.op = "stopAll" => call'.dev = call.dev /\ call.op = "stopAll"
  BY CallFields DEF NoCall, Call
<1>4. \A u \in TaskId : Deleting(u) => u = call.task
  BY DEF Deleting
<1>5. CollectorTypeOK' BY <1>2, <1>3 DEF CollectorTypeOK
<1>6. CallInv' BY <1>3 DEF CallInv
<1>7. JobInv' BY DEF JobInv
<1>8. MapInv'
  <2>1. \A u \in TaskId : ~Deleting(u)'
    BY <1>3, CollectorAssumption DEF Deleting
  <2> QED BY <1>2, <1>4, <2>1 DEF MapInv
<1>9. RunInv'
  <2>1. ASSUME NEW q \in Run, pc[q] # "unborn", ~cancelled[q]
        PROVE  tasks'[job[q].task] = q
    <3>1. job[q].task \in TaskId /\ tasks[job[q].task] = q BY <2>1 DEF JobInv, Job, RunInv
    <3>2. job[q].task # call.task
      <4>1. q # None BY CollectorAssumption
      <4> QED BY <1>1, <2>1, <3>1, <4>1 DEF MapInv
    <3> QED BY <1>2, <3>1, <3>2
  <2> QED BY <2>1 DEF RunInv
<1>10. ConnectedInv' BY <1>2, <1>3 DEF ConnectedInv
<1> QED BY <1>5, <1>6, <1>7, <1>8, <1>9, <1>10

LEMMA CloseInv ==
  ASSUME IInv, CloseDevice
  PROVE  IInv'
<1> USE DEF IInv, TypeInv, CloseDevice, mapVars, runVars
<1>1. /\ connected' \in [DeviceId -> BOOLEAN]
      /\ \A d \in DeviceId : d # call.dev => connected'[d] = connected[d]
  BY DEF CollectorTypeOK
<1>2. NoCall \in Call BY DEF NoCall, Call
<1>3. \A t \in TaskId : ~Deleting(t) /\ ~Deleting(t)'
  BY CollectorAssumption DEF Deleting, NoCall
<1>4. CollectorTypeOK' BY <1>1, <1>2 DEF CollectorTypeOK
<1>5. CallInv' /\ JobInv' BY DEF CallInv, JobInv, NoCall
<1>6. MapInv' /\ RunInv' BY <1>3 DEF MapInv, RunInv
<1>7. ConnectedInv'
  <2>1. ASSUME NEW t \in TaskId, tasks[t] # None PROVE connected'[job[tasks[t]].dev]
    <3>1. job[tasks[t]].dev # call.dev BY <2>1 DEF TasksOf
    <3>2. job[tasks[t]].dev \in DeviceId
      BY <2>1 DEF MapInv, JobInv, Job, CollectorTypeOK
    <3> QED BY <1>1, <2>1, <3>1, <3>2 DEF ConnectedInv
  <2> QED BY <2>1 DEF ConnectedInv, NoCall
<1> QED BY <1>4, <1>5, <1>6, <1>7

LEMMA CallStepInv == IInv /\ CallStep => IInv'
<1> SUFFICES ASSUME IInv, CallStep PROVE IInv'
  OBVIOUS
<1> USE DEF IInv, TypeInv, mapVars, runVars
<1>0. /\ crashed \in Crashes
      /\ connected \in [DeviceId -> BOOLEAN] /\ NoCall \in Call /\ None \notin TaskId
  BY CollectorAssumption DEF CollectorTypeOK, NoCall, Call
<1>1. CASE EndConnect
  <2>1. call' \in Call /\ CallInv'
    <3>1. CASE call' = NoCall BY <1>0, <1>1, <3>1 DEF EndConnect, CallInv, NoCall
    <3>2. CASE call.op = "start" /\ call' = [call EXCEPT !.op = "register"]
      BY <1>1, <3>2, CallFields DEF EndConnect, CallInv, Call
    <3> QED BY <1>1, <3>1, <3>2 DEF EndConnect
  <2>2. /\ connected' \in [DeviceId -> BOOLEAN]
        /\ \A d \in DeviceId : connected[d] => connected'[d]
    BY <1>0, <1>1 DEF EndConnect
  <2>3. call'.op = "register" => connected'[call'.dev]
    <3>1. CASE call' = NoCall BY <3>1 DEF NoCall
    <3>2. CASE call' = [call EXCEPT !.op = "register"] /\ call.op = "start"
               /\ connected' = [connected EXCEPT ![call.dev] = TRUE]
      BY <1>0, <3>2, CallFields DEF CallInv
    <3> QED BY <1>1, <3>1, <3>2 DEF EndConnect
  <2>4. \A t \in TaskId : ~Deleting(t) /\ ~Deleting(t)'
    <3>1. call'.op \in {"none", "register"}
      BY <1>1, CallFields DEF EndConnect, NoCall
    <3> QED BY <1>1, <3>1 DEF EndConnect, Deleting
  <2>5. UNCHANGED <<mapVars, runVars, dataChan, crashed>> BY <1>1 DEF EndConnect
  <2> QED BY <1>0, <2>1, <2>2, <2>3, <2>4, <2>5, CallMoves
<1>2. ASSUME NEW r \in Run, RegisterTask(r) PROVE IInv'
  BY <1>2, RegisterInv
<1>3. ASSUME NEW t \in TaskId, CancelNext(t) PROVE IInv'
  <2>1. call' = [op |-> "stopAll", dev |-> call.dev, task |-> t]
    BY <1>3, CallFields DEF CancelNext
  <2>2. call' \in Call /\ CallInv'
    BY <1>3, <2>1, CallFields DEF CancelNext, CallInv, Call
  <2>3. \A u \in TaskId : ~Deleting(u) BY <1>0, <1>3 DEF CancelNext, Deleting
  <2> QED BY <1>3, <2>1, <2>2, <2>3, CancelInv DEF CancelNext, TasksOf
<1>4. CASE DeleteTask BY <1>4, DeleteInv
<1>5. CASE CloseDevice BY <1>5, CloseInv
<1>6. CASE PanicInConnect
  BY <1>6, CrashInv DEF PanicInConnect, Crashes
<1> QED BY <1>1, <1>2, <1>3, <1>4, <1>5, <1>6 DEF CallStep

LEMMA NewCallInv == IInv /\ NewCall => IInv'
<1> SUFFICES ASSUME IInv, NewCall PROVE IInv'
  OBVIOUS
<1> USE DEF IInv, TypeInv, Enter, mapVars, runVars
<1>0. /\ crashed \in Crashes
      /\ connected \in [DeviceId -> BOOLEAN] /\ NoCall \in Call /\ None \notin TaskId
      /\ call \in Call
  BY CollectorAssumption DEF CollectorTypeOK, NoCall, Call
<1>1. call = NoCall /\ \A t \in TaskId : ~Deleting(t)
  <2>1. call = NoCall
    BY DEF NewCall, AddDevice, UseNilDevice, ConnectDevice, DisconnectDevice, StartTask,
           StopTask
  <2> QED BY <2>1 DEF Deleting, NoCall
<1>2. ASSUME NEW d \in DeviceId, AddDevice(d) PROVE IInv'
  BY <1>2 DEF AddDevice, CollectorTypeOK, CallInv, JobInv, MapInv, RunInv, ConnectedInv,
              Deleting
<1>3. ASSUME NEW d \in DeviceId, UseNilDevice(d) PROVE IInv'
  BY <1>3, CrashInv DEF UseNilDevice, Crashes
<1>4. ASSUME NEW d \in DeviceId, ConnectDevice(d) \/ DisconnectDevice(d) PROVE IInv'
  <2>1. /\ call' = [op |-> call'.op, dev |-> d, task |-> None]
        /\ call'.op \in {"connect", "stopAll"}
    BY <1>4 DEF ConnectDevice, DisconnectDevice, NoCall
  <2>2. call' \in Call BY <2>1 DEF Call
  <2>3. CallInv' BY <2>1 DEF CallInv
  <2>4. \A t \in TaskId : ~Deleting(t)' BY <1>0, <2>1 DEF Deleting
  <2>5. UNCHANGED <<mapVars, connected, runVars, dataChan, crashed>>
    BY <1>4 DEF ConnectDevice, DisconnectDevice
  <2> QED BY <1>0, <1>1, <2>1, <2>2, <2>3, <2>4, <2>5, CallMoves
<1>5. ASSUME NEW t \in TaskId, NEW d \in DeviceId, StartTask(t, d) PROVE IInv'
  <2>1. /\ call'.op \in {"register", "start"} /\ call'.dev = d /\ call'.task = t
        /\ call' \in Call
    BY <1>5 DEF StartTask, Call
  <2>2. CallInv' BY <1>5, <2>1 DEF CallInv, StartTask
  <2>3. \A u \in TaskId : ~Deleting(u)' BY <2>1 DEF Deleting
  <2>4. UNCHANGED <<mapVars, connected, runVars, dataChan, crashed>>
    BY <1>5 DEF StartTask
  <2>5. call'.op = "register" => connected'[call'.dev]
    BY <1>5 DEF StartTask
  <2> QED BY <1>0, <1>1, <2>1, <2>2, <2>3, <2>4, <2>5, CallMoves
<1>6. ASSUME NEW t \in TaskId, StopTask(t) PROVE IInv'
  <2>1. call' = [op |-> "delete", dev |-> None, task |-> t]
    BY <1>6 DEF StopTask, NoCall
  <2>2. call' \in Call /\ CallInv' BY <2>1 DEF Call, CallInv
  <2> QED BY <1>1, <1>6, <2>1, <2>2, CancelInv DEF StopTask
<1> QED BY <1>2, <1>3, <1>4, <1>5, <1>6 DEF NewCall

-----------------------------------------------------------------------------
(* The theorems.                                                           *)

LEMMA IInvStep == IInv /\ [Next]_vars => IInv'
<1> SUFFICES ASSUME IInv, [Next]_vars PROVE IInv'
  OBVIOUS
<1>1. CASE Consume
  <2>1. dataChan' \in Seq(Run) /\ Len(dataChan') <= ChanCap
    <3>1. dataChan \in Seq(Run) /\ dataChan # <<>> /\ Len(dataChan) <= ChanCap
      BY <1>1 DEF Consume, IInv, TypeInv, CollectorTypeOK
    <3> QED BY <1>1, <3>1, CollectorAssumption DEF Consume
  <2> QED
    BY <1>1, <2>1 DEF Consume, mapVars, runVars, IInv, TypeInv, CollectorTypeOK, CallInv,
       JobInv, MapInv, RunInv, ConnectedInv, Deleting
<1>2. CASE UNCHANGED vars
  BY <1>2 DEF vars, IInv, TypeInv, CollectorTypeOK, CallInv, JobInv, MapInv, RunInv,
              ConnectedInv, Deleting
<1>3. CASE EndProgram
  BY <1>3, CrashInv DEF EndProgram, Crashes
<1>4. ASSUME NEW r \in Run, PanicInNewTicker(r) PROVE IInv'
  BY <1>4, CrashInv DEF PanicInNewTicker, Crashes
<1> QED BY <1>1, <1>2, <1>3, <1>4, NewCallInv, CallStepInv, RunStepInv DEF Next

\* Type correctness, the capacity of dataChan included.
THEOREM CollectorTypeCorrect == Spec => []CollectorTypeOK
<1>1. IInv => CollectorTypeOK BY DEF IInv, TypeInv
<1> QED BY IInvInit, IInvStep, <1>1, PTL DEF Spec

\* Each goroutine that has not been told to stop is registered under its id,
\* however often the ids are used again.
THEOREM NoOrphanRuns == Spec => []LiveRunRegistered
<1>1. IInv => LiveRunRegistered BY DEF IInv, RunInv, LiveRunRegistered, Alive
<1> QED BY IInvInit, IInvStep, <1>1, PTL DEF Spec

\* No goroutine ends because of the stop of another task.
THEOREM NoForeignStop == Spec => []EndsOnlyWhenStopped
<1>1. IInv => EndsOnlyWhenStopped BY DEF IInv, RunInv, EndsOnlyWhenStopped
<1> QED BY IInvInit, IInvStep, <1>1, PTL DEF Spec

\* Only goroutines that have been told to stop ever try to reconnect.
THEOREM NoUsefulReconnect == Spec => []OnlyStoppedRunsReconnect
<1>1. IInv => OnlyStoppedRunsReconnect BY DEF IInv, ConnectedInv, OnlyStoppedRunsReconnect
<1> QED BY IInvInit, IInvStep, <1>1, PTL DEF Spec

-----------------------------------------------------------------------------
(* What can make a goroutine miss its task.                                *)

LEMMA CrashIsFinal == crashed # "no" /\ [Next]_vars => UNCHANGED vars
BY DEF Next, NewCall, AddDevice, UseNilDevice, ConnectDevice, DisconnectDevice,
       StartTask, StopTask, EndProgram, Enter, CallStep, EndConnect, PanicInConnect,
       RegisterTask, CancelNext, DeleteTask, CloseDevice, Consume, RunStep, LoadTask,
       EndRun, TakeTick, CheckConnection, Reconnect, ReadMultiple, Send, PanicInNewTicker

\* Where that crash can come from.
LEMMA MissedInLoad ==
  ASSUME [Next]_vars, crashed = "no", crashed' = "nilTask"
  PROVE  \E r \in Run : LoadTask(r)
<1> USE DEF vars
<1>1. ASSUME NewCall \/ EndProgram \/ Consume PROVE FALSE
  BY <1>1 DEF NewCall, AddDevice, UseNilDevice, ConnectDevice, DisconnectDevice,
              StartTask, StopTask, EndProgram, Consume
<1>2. ASSUME CallStep PROVE FALSE
  BY <1>2 DEF CallStep, EndConnect, PanicInConnect, RegisterTask, CancelNext, DeleteTask,
              CloseDevice
<1>3. ASSUME NEW r \in Run, RunStep(r) \/ PanicInNewTicker(r) PROVE LoadTask(r)
  BY <1>3 DEF RunStep, EndRun, TakeTick, CheckConnection, Reconnect, ReadMultiple, Send,
              PanicInNewTicker
<1> QED BY <1>1, <1>2, <1>3 DEF Next

LEMMA MissedStep ==
  IInv /\ MissedOnlyWhenStopped /\ [Next]_vars => MissedOnlyWhenStopped'
<1> SUFFICES ASSUME IInv, MissedOnlyWhenStopped, [Next]_vars PROVE MissedOnlyWhenStopped'
  OBVIOUS
<1>1. CASE crashed # "no"
  <2>1. UNCHANGED vars BY <1>1, CrashIsFinal
  <2> QED BY <2>1 DEF MissedOnlyWhenStopped, vars
<1>2. CASE crashed' # "nilTask"
  BY <1>2 DEF MissedOnlyWhenStopped
<1>3. CASE crashed = "no" /\ crashed' = "nilTask"
  <2>1. PICK r \in Run : LoadTask(r) BY <1>3, MissedInLoad
  <2>2. /\ pc[r] = "loop" /\ UNCHANGED <<pc, tasks, job, cancelled>>
        /\ tasks[job[r].task] = None
    BY <1>3, <2>1 DEF LoadTask, mapVars
  <2>3. cancelled[r]
    <3>1. r # None BY CollectorAssumption
    <3> QED BY <2>2, <3>1 DEF IInv, RunInv
  <2> QED BY <2>2, <2>3 DEF MissedOnlyWhenStopped
<1> QED BY <1>1, <1>2, <1>3

\* The nil dereference that refutes StopNeverPanics takes a goroutine that has
\* been told to stop: however the calls use the ids again, the lock-free lookup
\* of a goroutine that nobody has stopped finds a task.
THEOREM OnlyStoppedRunsMissTheirTask == Spec => []MissedOnlyWhenStopped
<1>1. Init => MissedOnlyWhenStopped BY DEF Init, MissedOnlyWhenStopped
<1> QED BY IInvInit, IInvStep, MissedStep, <1>1, PTL DEF Spec
=============================================================================
