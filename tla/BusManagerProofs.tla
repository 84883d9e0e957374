------------------------- MODULE BusManagerProofs -------------------------
(***************************************************************************)
(* Theorems about BusManager, for any number of buses, workers, callers    *)
(* and contents of the file.                                               *)
(***************************************************************************)
EXTENDS BusManager, CollectPipelineProofs

-----------------------------------------------------------------------------
(* What the loader's loop computes.                                        *)

\* The devices of bus b among the first n entries that have an adapter.
EntriesOf(content, n, b) ==
  {d \in AdapterKnown : DeviceBus[d] = b /\ \E i \in 1..n : content[i] = d}

LEMMA OneNameMore ==
  ASSUME NEW ds \in Seq(Device), NEW d \in Device, NamesDiffer(ds),
         \A e \in Range(ds) : DeviceName[e] # DeviceName[d]
  PROVE  NamesDiffer(Append(ds, d))
<1> DEFINE w == Append(ds, d)
           n == Len(ds)
<1>1. /\ n \in Nat /\ DOMAIN w = 1..(n + 1) /\ DOMAIN ds = 1..n /\ w[n + 1] = d
      /\ \A i \in 1..n : w[i] = ds[i] /\ ds[i] \in Range(ds)
  BY DEF Range
<1> HIDE DEF w, n
<1>2. ASSUME NEW i \in 1..(n + 1), NEW j \in 1..(n + 1), DeviceName[w[i]] = DeviceName[w[j]]
      PROVE  i = j
  <2>1. \A k \in 1..(n + 1) : k = n + 1 \/ k \in 1..n BY <1>1
  <2>2. CASE i = n + 1 \/ j = n + 1 BY <1>1, <1>2, <2>1, <2>2
  <2>3. CASE i \in 1..n /\ j \in 1..n BY <1>1, <1>2, <2>3 DEF NamesDiffer
  <2> QED BY <2>1, <2>2, <2>3
<1> QED BY <1>1, <1>2 DEF NamesDiffer, w

\* The loop of the loader: the equation that defines it has a solution, and the
\* solution groups the entries read so far. Entries with different names
\* stay so.
LEMMA LoaderLoop ==
  ASSUME NEW content \in Seq(Device)
  PROVE  /\ loadDevicesByBus(content) \in [BusId -> Seq(Device)]
         /\ \A b \in BusId :
              Range(loadDevicesByBus(content)[b]) = EntriesOf(content, Len(content), b)
         /\ NamesDiffer(content) =>
              \A b \in BusId : NamesDiffer(loadDevicesByBus(content)[b])
<1> DEFINE N == Len(content)
           G == [BusId -> Seq(Device)]
           Put(g, d) == IF d \in AdapterKnown THEN [g EXCEPT ![DeviceBus[d]] = Append(@, d)]
                                              ELSE g
           Loop(f) == [n \in 0..N |-> IF n = 0 THEN [b \in BusId |-> <<>>]
                                      ELSE IF content[n] \in AdapterKnown
          THEN [f[n - 1] EXCEPT ![DeviceBus[content[n]]] = Append(@, content[n])]
          ELSE f[n - 1]]
           upTo == CHOOSE f : f = Loop(f)
<1>1. /\ N \in Nat /\ content \in [1..N -> Device]
      /\ [b \in BusId |-> <<>>] \in G
  OBVIOUS
<1>2. ASSUME NEW g \in G, NEW d \in Device PROVE Put(g, d) \in G
  <2>1. DeviceBus[d] \in BusId BY ManagerAssumption
  <2>2. Append(g[DeviceBus[d]], d) \in Seq(Device) BY <2>1
  <2> QED BY <2>1, <2>2
<1>3. \E f \in [0..N -> G] : f = Loop(f)
  <2> DEFINE step == [n \in 1..N |-> [g \in G |-> Put(g, content[n])]]
             start == [b \in BusId |-> <<>>]
  <2>1. step \in [1..N -> [G -> G]]
    <3> HIDE DEF Put, G, N
    <3> QED BY <1>1, <1>2
  <2>2. \A n \in 1..N, g \in G : step[n][g] = Put(g, content[n]) OBVIOUS
  <2>3. start \in G /\ N \in Nat BY <1>1
  <2> HIDE DEF step, G, N, start, Put
  <2>4. PICK f : Loops(f, N, G, start, step) BY <2>1, <2>3, Recursion
  <2>5. f \in [0..N -> G] /\ f[0] = start BY <2>4 DEF Loops
  <2>6. ASSUME NEW n \in 1..N PROVE n - 1 \in 0..N /\ f[n] = Put(f[n - 1], content[n])
    <3>1. n - 1 \in 0..N BY <1>1
    <3>2. f[n] = step[n][f[n - 1]] BY <2>4 DEF Loops
    <3> QED BY <2>2, <2>5, <3>1, <3>2
  <2>7. ASSUME NEW n \in 0..N PROVE f[n] = Loop(f)[n]
    <3>1. CASE n = 0 BY <2>5, <3>1 DEF start
    <3>2. CASE n # 0
      <4>1. n \in 1..N BY <1>1, <3>2
      <4> QED BY <2>6, <3>2, <4>1 DEF Put
    <3> QED BY <3>1, <3>2
  <2>8. f = Loop(f) BY <2>5, <2>7
  <2> HIDE DEF Loop
  <2> QED BY <2>5, <2>8
<1>4. upTo = Loop(upTo)
  <2> HIDE DEF Loop
  <2> QED BY <1>3
<1>5. loadDevicesByBus(content) = upTo[N] BY DEF loadDevicesByBus
<1> HIDE DEF upTo
<1>6. upTo[0] = [b \in BusId |-> <<>>]
  BY <1>1, <1>4
<1>7. ASSUME NEW n \in 1..N PROVE upTo[n] = Put(upTo[n - 1], content[n])
  <2>1. n \in 0..N /\ n # 0 BY <1>1
  <2>2. upTo[n] = Loop(upTo)[n] BY <1>4
  <2> QED BY <2>1, <2>2
<1> DEFINE Grouped(g, n) ==
             /\ g \in G
             /\ \A b \in BusId : Range(g[b]) = EntriesOf(content, n, b)
             /\ NamesDiffer(content) => \A b \in BusId : NamesDiffer(g[b])
           Reached == {n \in 0..N : Grouped(upTo[n], n)}
<1> HIDE DEF Put, Loop
<1>8. 0 \in Reached
  <2>1. \A b \in BusId : EntriesOf(content, 0, b) = {} BY DEF EntriesOf
  <2>2. \A b \in BusId : upTo[0][b] = <<>> BY <1>6
  <2>3. Range(<<>>) = {} /\ NamesDiffer(<<>>) BY DEF Range, NamesDiffer
  <2>4. Grouped(upTo[0], 0)
    <3> HIDE DEF G
    <3> QED BY <1>1, <1>6, <2>1, <2>2, <2>3
  <2> HIDE DEF Grouped
  <2> QED BY <1>1, <2>4
<1>9. ASSUME NEW n \in 1..N, n - 1 \in Reached PROVE n \in Reached
  <2> DEFINE g == upTo[n - 1]
             d == content[n]
  <2>1. g \in G /\ d \in Device /\ upTo[n] = Put(g, d)
    BY <1>1, <1>7, <1>9
  <2>2. \A b \in BusId : Range(g[b]) = EntriesOf(content, n - 1, b)
    BY <1>9
  <2>3. \A b \in BusId :
          EntriesOf(content, n, b) =
            IF d \in AdapterKnown /\ DeviceBus[d] = b
            THEN EntriesOf(content, n - 1, b) \cup {d} ELSE EntriesOf(content, n - 1, b)
    <3>1. \A i : i \in 1..n <=> i \in 1..(n - 1) \/ i = n BY <1>1
    <3> QED BY <3>1 DEF EntriesOf
  <2> HIDE DEF g, d
  <2>4. ASSUME NEW b \in BusId PROVE Range(Put(g, d)[b]) = EntriesOf(content, n, b)
    <3>1. CASE d \in AdapterKnown /\ DeviceBus[d] = b
      <4>1. Put(g, d)[b] = Append(g[b], d) BY <2>1, <3>1 DEF Put
      <4>2. Range(Append(g[b], d)) = Range(g[b]) \cup {d}
        <5>1. g[b] \in Seq(Device) BY <2>1
        <5> QED BY <2>1, <5>1, RangeAppend
      <4> QED BY <2>2, <2>3, <3>1, <4>1, <4>2
    <3>2. CASE ~(d \in AdapterKnown /\ DeviceBus[d] = b)
      <4>1. Put(g, d)[b] = g[b] BY <2>1, <3>2 DEF Put
      <4> QED BY <2>2, <2>3, <3>2, <4>1
    <3> QED BY <3>1, <3>2
  <2>5. Put(g, d) \in G
    <3> HIDE DEF G
    <3> QED BY <1>2, <2>1
  <2>6. ASSUME NamesDiffer(content), NEW b \in BusId PROVE NamesDiffer(Put(g, d)[b])
    <3>1. NamesDiffer(g[b]) /\ g[b] \in Seq(Device) BY <1>9, <2>1, <2>6 DEF g
    <3>2. CASE d \in AdapterKnown /\ DeviceBus[d] = b
      <4>1. Put(g, d)[b] = Append(g[b], d) BY <2>1, <3>2 DEF Put
      <4>2. \A e \in EntriesOf(content, n - 1, b) : DeviceName[e] # DeviceName[d]
        BY <1>1, <2>6 DEF EntriesOf, NamesDiffer, d
      <4> QED BY <2>1, <2>2, <3>1, <4>1, <4>2, OneNameMore
    <3>3. CASE ~(d \in AdapterKnown /\ DeviceBus[d] = b)
      <4>1. Put(g, d)[b] = g[b] BY <2>1, <3>3 DEF Put
      <4> QED BY <3>1, <4>1
    <3> QED BY <3>2, <3>3
  <2> QED BY <1>1, <2>1, <2>4, <2>5, <2>6
<1>10. N \in Reached
  <2> HIDE DEF Reached, N
  <2>1. 0..N \subseteq Reached BY <1>1, <1>8, <1>9, Induction
  <2> QED BY <1>1, <2>1
<1> QED BY <1>5, <1>10

\* The grouping of a content of the file: every device that has an adapter is in
\* the list of its own bus, and nothing else is in any list.
THEOREM LoaderGroups ==
  ASSUME NEW content \in Config
  PROVE  \A b \in BusId :
           Range(loadDevicesByBus(content)[b]) =
             {d \in Range(content) : d \in AdapterKnown /\ DeviceBus[d] = b}
<1> SUFFICES ASSUME NEW b \in BusId
             PROVE  Range(loadDevicesByBus(content)[b]) =
                      {d \in Range(content) : d \in AdapterKnown /\ DeviceBus[d] = b}
  OBVIOUS
<1>1. content \in Seq(Device) BY ManagerAssumption
<1>2. Range(loadDevicesByBus(content)[b]) = EntriesOf(content, Len(content), b)
  BY <1>1, LoaderLoop
<1>3. DOMAIN content = 1..Len(content) BY <1>1
<1> QED BY <1>2, <1>3 DEF EntriesOf, Range

-----------------------------------------------------------------------------
(* Type correctness of the manager's own variables.                        *)

\* A reload has read lists that pipelines are declared for.
ManagerTypeInv ==
  ManagerTypeOK /\ loaded \in [BusId -> DeviceList \cup {<<>>}]

LEMMA LoaderType ==
  ASSUME NEW content \in Config
  PROVE  loadDevicesByBus(content) \in [BusId -> DeviceList \cup {<<>>}]
<1>1. loadDevicesByBus(content) \in [BusId -> Seq(Device)]
  BY ManagerAssumption, LoaderLoop
<1> QED BY <1>1, LoaderAssumption

LEMMA ListsAreLists == DeviceList \cup {<<>>} \subseteq Seq(Device)
<1>1. <<>> \in Seq(Device) OBVIOUS
<1> QED BY <1>1, ConstantsAssumption

LEMMA ManagerTypeInit == ManagerInit => ManagerTypeInv
<1> SUFFICES ASSUME ManagerInit PROVE ManagerTypeInv
  OBVIOUS
<1>1. /\ loaded \in [BusId -> DeviceList \cup {<<>>}]
      /\ loaded \in [BusId -> Seq(Device)] /\ Buses \in [BusId -> Seq(Device)]
  <2>1. <<>> \in Seq(Device) OBVIOUS
  <2> QED BY <2>1 DEF ManagerInit
<1>2. /\ writes \in 0..MaxWrites /\ calls \in 0..MaxCalls /\ events \in 0..MaxEvents
  BY ManagerAssumption DEF ManagerInit
<1> QED BY <1>1, <1>2 DEF ManagerInit, ManagerTypeInv, ManagerTypeOK, RpcStates

LEMMA ManagerTypeStep ==
  ManagerTypeInv /\ [ManagerNext]_allVars => ManagerTypeInv'
<1> SUFFICES ASSUME ManagerTypeInv, [ManagerNext]_allVars PROVE ManagerTypeInv'
  OBVIOUS
<1> USE ManagerAssumption
        DEF ManagerTypeInv, ManagerTypeOK, RpcStates, fileVars, reloadVars, managerVars
<1>1. CASE TruncateFile
  BY <1>1 DEF TruncateFile, Notify
<1>2. ASSUME NEW content \in Config \cup {Torn}, WriteFile(content)
      PROVE  ManagerTypeInv'
  BY <1>2 DEF WriteFile, Notify
<1>3. ASSUME NEW c \in Caller, FailReload(c) PROVE ManagerTypeInv'
  BY <1>3 DEF FailReload
<1>4. ASSUME NEW c \in Caller, BeginReload(c) PROVE ManagerTypeInv'
  <2>1. loaded' \in [BusId -> DeviceList \cup {<<>>}]
    BY <1>4, LoaderType DEF BeginReload
  <2>2. loaded' \in [BusId -> Seq(Device)]
    BY <2>1, ListsAreLists
  <2> QED BY <1>4, <2>1, <2>2 DEF BeginReload
<1>5. ASSUME NEW c \in Caller, NEW b \in BusId, CloseOldWorker(c, b)
      PROVE  ManagerTypeInv'
  BY <1>5 DEF CloseOldWorker
<1>6. ASSUME NEW c \in Caller, NEW b \in BusId, CloseClosed(c, b)
      PROVE  ManagerTypeInv'
  BY <1>6 DEF CloseClosed
<1>7. ASSUME NEW c \in Caller, SwapBuses(c) PROVE ManagerTypeInv'
  BY <1>7 DEF SwapBuses
<1>8. ASSUME NEW c \in Caller, NEW b \in BusId, StartNewWorker(c, b)
      PROVE  ManagerTypeInv'
  BY <1>8 DEF StartNewWorker
<1>9. ASSUME NEW c \in Caller, EndReload(c) PROVE ManagerTypeInv'
  BY <1>9 DEF EndReload
<1>10. CASE StartWatch
  BY <1>10 DEF StartWatch
<1>11. CASE HandleWriteEvent
  <2>1. events' \in 0..MaxEvents
    BY <1>11 DEF HandleWriteEvent
  <2>2. rpc' \in [Caller -> RpcStates]
    BY <1>11 DEF HandleWriteEvent
  <2> QED BY <1>11, <2>1, <2>2 DEF HandleWriteEvent
<1>12. ASSUME NEW c \in Direct, CallReload(c) PROVE ManagerTypeInv'
  <2>1. calls' \in 0..MaxCalls
    BY <1>12 DEF CallReload
  <2>2. rpc' \in [Caller -> RpcStates]
    BY <1>12 DEF CallReload
  <2> QED BY <1>12, <2>1, <2>2 DEF CallReload
<1>13. ASSUME NEW b \in BusId, ShutdownBus(b) PROVE ManagerTypeInv'
  BY <1>13 DEF ShutdownBus
<1>14. CASE CollectStep
  BY <1>14 DEF CollectStep
<1>15. CASE UNCHANGED allVars
  BY <1>15 DEF allVars
<1> QED
  BY <1>1, <1>2, <1>3, <1>4, <1>5, <1>6, <1>7, <1>8, <1>9, <1>10, <1>11, <1>12,
     <1>13, <1>14, <1>15
     DEF ManagerNext, Files, WatcherStep, DirectStep, ReloadStep, Caller

\* The manager's variables keep their types and their bounds.
THEOREM ManagerTypeCorrect == ManagerSpec => []ManagerTypeOK
<1>1. ManagerTypeInv => ManagerTypeOK BY DEF ManagerTypeInv
<1> QED BY ManagerTypeInit, ManagerTypeStep, <1>1, PTL DEF ManagerSpec

-----------------------------------------------------------------------------
(* The manager is an owner that CollectPipeline allows.                    *)

LEMMA ManagerStepCollects ==
  ManagerTypeInv /\ [ManagerNext]_allVars => [Next]_vars
<1> SUFFICES ASSUME ManagerTypeInv, [ManagerNext]_allVars PROVE [Next]_vars
  OBVIOUS
<1>1. CASE Files
  BY <1>1 DEF Files, TruncateFile, WriteFile
<1>2. ASSUME NEW c \in Caller, ReloadStep(c) PROVE [Next]_vars
  <2>1. ASSUME NEW b \in BusId, CloseOldWorker(c, b) PROVE [Next]_vars
    <3>1. BusStop[b] \in Pipeline /\ CloseStopCh(BusStop[b])
      BY <2>1 DEF CloseOldWorker, ManagerTypeInv, ManagerTypeOK
    <3> QED BY <3>1 DEF Next, Owner
  <2>2. ASSUME NEW b \in BusId, StartNewWorker(c, b) PROVE [Next]_vars
    <3>1. PICK p \in Pipeline : StartCollectPipeline(p, loaded[b])
      BY <2>2 DEF StartNewWorker
    <3>2. loaded[b] \in DeviceList
      BY <3>1 DEF ManagerTypeInv, StartCollectPipeline
    <3> QED BY <3>1, <3>2 DEF Next, Owner
  <2> QED
    BY <1>2, <2>1, <2>2 DEF ReloadStep, FailReload, BeginReload, CloseClosed,
       SwapBuses, EndReload
<1>3. CASE StartWatch \/ HandleWriteEvent
  BY <1>3 DEF StartWatch, HandleWriteEvent
<1>4. ASSUME NEW c \in Direct, CallReload(c) PROVE [Next]_vars
  BY <1>4 DEF CallReload
<1>5. ASSUME NEW b \in BusId, ShutdownBus(b) PROVE [Next]_vars
  <2>1. BusStop[b] \in Pipeline /\ CloseStopCh(BusStop[b])
    BY <1>5 DEF ShutdownBus, ManagerTypeInv, ManagerTypeOK
  <2> QED BY <2>1 DEF Next, Owner
<1>6. CASE CollectStep \/ UNCHANGED allVars
  BY <1>6 DEF CollectStep, allVars, Next, Owner
<1> QED
  BY <1>1, <1>2, <1>3, <1>4, <1>5, <1>6
     DEF ManagerNext, WatcherStep, DirectStep, Caller

\* The manager composed with its pipelines implements CollectPipeline's
\* specification, so that everything proved of the pipelines holds under it.
THEOREM ManagerImplementsOwner == ManagerSpec => CollectSpec
<1>1. ManagerInit => Init BY DEF ManagerInit
<1> QED
  BY <1>1, ManagerTypeInit, ManagerTypeStep, ManagerStepCollects, PTL
     DEF ManagerSpec, CollectSpec, Spec

-----------------------------------------------------------------------------
(* Ownership of the workers.                                               *)

\* Registered workers have been started, each under one bus.
Registered ==
  /\ \A b \in BusId : BusStop[b] # NoWorker => pc[BusStop[b]] # "new"
  /\ \A b1, b2 \in BusId : BusStop[b1] = BusStop[b2] /\ BusStop[b1] # NoWorker => b1 = b2

LiveRegistered == \A p \in Live : \E b \in BusId : BusStop[b] = p

\* A worker that has not started has an open channel; a registered one has
\* too, unless it was closed from outside.
OpenChannels ==
  /\ \A p \in Pipeline : pc[p] = "new" => ~stopCh[p]
  /\ ~down => \A b \in BusId : BusStop[b] # NoWorker => ~stopCh[BusStop[b]]

\* The loops of a reload run under mu; the second one visits each bus before
\* anything is registered for it.
UnderLock ==
  /\ \A c \in Caller : rpc[c] \in {"close", "start"} <=> mu = c
  /\ \A c \in Caller : rpc[c] = "start" => \A b \in toStart : BusStop[b] = NoWorker

OwnInv ==
  /\ TypeOK /\ ManagerTypeInv
  /\ Registered /\ LiveRegistered /\ OpenChannels /\ UnderLock
  /\ PanicOnlyAfterShutdown

\* A step of the goroutines: nobody starts, nobody comes back, and the lists
\* and stop channels stay as they are.
LEMMA CollectKeeps ==
  ASSUME TypeOK, CollectStep
  PROVE  /\ UNCHANGED <<devs, stopCh>>
         /\ \A p \in Pipeline : pc[p] = "new" <=> pc'[p] = "new"
         /\ \A p \in Pipeline : pc[p] = "done" => pc'[p] = "done"
<1>1. CASE \E p \in Pipeline : PipelineStep(p)
  <2> PICK p \in Pipeline : PipelineStep(p)
    BY <1>1
  <2> QED
    BY DEF TypeOK, PipelineStep, Tick, SkipDevice, BeginCollect, EndCollect,
           SendResult, EndRound, ExitPipeline
<1>2. CASE ~\E p \in Pipeline : PipelineStep(p)
  BY <1>2 DEF CollectStep, ParserStep, Receive, Handle, ExitParser,
     StartParseWorkerPool, CloseParseStop, pipelineVars
<1> QED BY <1>1, <1>2

\* Steps that leave registration and channels alone.
LEMMA OwnUntouched ==
  ASSUME OwnInv, TypeOK', ManagerTypeInv', UNCHANGED <<BusStop, stopCh, panicked, down>>,
         \A p \in Pipeline : pc[p] = "new" <=> pc'[p] = "new",
         \A p \in Pipeline : pc[p] = "done" => pc'[p] = "done",
         UnderLock'
  PROVE  OwnInv'
<1>1. Live' \subseteq Live
  BY DEF Live
<1>2. Registered' /\ LiveRegistered' /\ OpenChannels'
  BY <1>1 DEF OwnInv, Registered, LiveRegistered, OpenChannels, ManagerTypeInv,
              ManagerTypeOK
<1> QED BY <1>2 DEF OwnInv, PanicOnlyAfterShutdown

LEMMA OwnClose ==
  ASSUME OwnInv, TypeOK', ManagerTypeInv', NEW c \in Caller, NEW b \in BusId,
         CloseOldWorker(c, b)
  PROVE  OwnInv'
<1>1. /\ BusStop[b] \in Pipeline /\ BusStop \in [BusId -> Pipeline \cup {NoWorker}]
      /\ stopCh \in [Pipeline -> BOOLEAN] /\ NoWorker \notin Pipeline
  BY ManagerAssumption
     DEF CloseOldWorker, OwnInv, ManagerTypeInv, ManagerTypeOK, TypeOK
<1>2. /\ stopCh' = [stopCh EXCEPT ![BusStop[b]] = TRUE]
      /\ BusStop' = [BusStop EXCEPT ![b] = NoWorker]
      /\ UNCHANGED <<pc, rpc, mu, toStart, down, panicked>>
      /\ rpc[c] = "close"
  BY DEF CloseOldWorker, CloseStopCh, pipelineVars
<1>3. /\ stopCh'[BusStop[b]] /\ BusStop'[b] = NoWorker
      /\ \A p \in Pipeline : p # BusStop[b] => stopCh'[p] = stopCh[p]
      /\ \A b1 \in BusId : b1 # b => BusStop'[b1] = BusStop[b1]
  BY <1>1, <1>2
<1>4. Registered'
  BY <1>2, <1>3 DEF OwnInv, Registered
<1>5. LiveRegistered'
  <2> SUFFICES ASSUME NEW p \in Live' PROVE \E b1 \in BusId : BusStop'[b1] = p
    BY DEF LiveRegistered
  <2>1. p # BusStop[b] /\ p \in Live
    BY <1>2, <1>3 DEF Live
  <2> QED BY <2>1, <1>3 DEF OwnInv, LiveRegistered
<1>6. OpenChannels'
  BY <1>1, <1>2, <1>3 DEF OwnInv, OpenChannels, Registered
<1>7. UnderLock'
  BY <1>2, <1>3 DEF OwnInv, UnderLock
<1> QED BY <1>2, <1>4, <1>5, <1>6, <1>7 DEF OwnInv, PanicOnlyAfterShutdown

LEMMA OwnStart ==
  ASSUME OwnInv, TypeOK', ManagerTypeInv', NEW c \in Caller, NEW b \in BusId,
         StartNewWorker(c, b)
  PROVE  OwnInv'
<1> PICK p \in Pipeline : /\ StartCollectPipeline(p, loaded[b])
                          /\ BusStop' = [BusStop EXCEPT ![b] = p]
  BY DEF StartNewWorker
<1>1. /\ BusStop \in [BusId -> Pipeline \cup {NoWorker}] /\ NoWorker \notin Pipeline
      /\ pc \in [Pipeline -> PcStates]
  BY ManagerAssumption DEF OwnInv, ManagerTypeInv, ManagerTypeOK, TypeOK
<1>2. /\ pc[p] = "new" /\ pc' = [pc EXCEPT ![p] = "select"]
      /\ UNCHANGED <<stopCh, rpc, mu, down, panicked>>
      /\ toStart' = toStart \ {b} /\ b \in toStart /\ rpc[c] = "start"
  BY DEF StartNewWorker, StartCollectPipeline
<1>3. /\ BusStop'[b] = p /\ \A b1 \in BusId : b1 # b => BusStop'[b1] = BusStop[b1]
      /\ pc'[p] = "select" /\ \A q \in Pipeline : q # p => pc'[q] = pc[q]
      /\ BusStop[b] = NoWorker
  BY <1>1, <1>2 DEF OwnInv, UnderLock
<1>4. \A b1 \in BusId : BusStop[b1] # p
  BY <1>1, <1>2 DEF OwnInv, Registered
<1>5. Registered'
  BY <1>1, <1>3, <1>4 DEF OwnInv, Registered
<1>6. LiveRegistered'
  <2> SUFFICES ASSUME NEW q \in Live' PROVE \E b1 \in BusId : BusStop'[b1] = q
    BY DEF LiveRegistered
  <2>1. CASE q = p BY <1>3, <2>1
  <2>2. CASE q # p
    <3>1. q \in Live BY <1>2, <1>3, <2>2 DEF Live
    <3>2. PICK b1 \in BusId : BusStop[b1] = q
      BY <3>1 DEF OwnInv, LiveRegistered
    <3>3. b1 # b BY <1>1, <1>3, <3>2 DEF Live
    <3> QED BY <1>3, <3>2, <3>3
  <2> QED BY <2>1, <2>2
<1>7. OpenChannels'
  BY <1>1, <1>2, <1>3 DEF OwnInv, OpenChannels
<1>8. UnderLock'
  <2>1. \A c1 \in Caller : rpc'[c1] = "start" => \A b1 \in toStart' : BusStop'[b1] = NoWorker
    <3> SUFFICES ASSUME NEW c1 \in Caller, rpc[c1] = "start", NEW b1 \in toStart \ {b}
                 PROVE  BusStop'[b1] = NoWorker
      BY <1>2
    <3>1. b1 \in BusId BY DEF OwnInv, ManagerTypeInv, ManagerTypeOK
    <3> QED BY <1>3, <3>1 DEF OwnInv, UnderLock
  <2> QED BY <1>2, <2>1 DEF OwnInv, UnderLock
<1> QED BY <1>2, <1>5, <1>6, <1>7, <1>8 DEF OwnInv, PanicOnlyAfterShutdown

LEMMA OwnShutdown ==
  ASSUME OwnInv, TypeOK', ManagerTypeInv', NEW b \in BusId, ShutdownBus(b)
  PROVE  OwnInv'
<1>1. /\ stopCh \in [Pipeline -> BOOLEAN] /\ BusStop[b] \in Pipeline
  BY DEF ShutdownBus, OwnInv, ManagerTypeInv, ManagerTypeOK, TypeOK
<1>2. /\ stopCh' = [stopCh EXCEPT ![BusStop[b]] = TRUE] /\ down'
      /\ pc[BusStop[b]] # "new"
      /\ UNCHANGED <<pc, BusStop, rpc, mu, toStart, panicked>>
  BY DEF ShutdownBus, CloseStopCh, reloadVars, pipelineVars
<1>3. Live' \subseteq Live
  BY <1>1, <1>2 DEF Live
<1>4. Registered' /\ LiveRegistered' /\ UnderLock'
  BY <1>2, <1>3 DEF OwnInv, Registered, LiveRegistered, UnderLock
<1>5. OpenChannels'
  <2>1. \A p \in Pipeline : pc[p] = "new" => stopCh'[p] = stopCh[p]
    BY <1>1, <1>2
  <2> QED BY <1>2, <2>1 DEF OwnInv, OpenChannels
<1> QED BY <1>2, <1>4, <1>5 DEF OwnInv, PanicOnlyAfterShutdown

LEMMA OwnStep ==
  OwnInv /\ TypeOK' /\ [ManagerNext]_allVars => OwnInv'
<1> SUFFICES ASSUME OwnInv, TypeOK', [ManagerNext]_allVars PROVE OwnInv'
  OBVIOUS
<1>1. ManagerTypeInv /\ ManagerTypeInv'
  BY ManagerTypeStep DEF OwnInv
<1>2. /\ rpc \in [Caller -> RpcStates] /\ mu \in Caller \cup {NoOne}
      /\ NoOne \notin Caller
  BY <1>1, ManagerAssumption DEF ManagerTypeInv, ManagerTypeOK
<1>3. ASSUME UNCHANGED <<vars, BusStop, panicked, down>>, UnderLock' PROVE OwnInv'
  BY <1>1, <1>3, OwnUntouched DEF vars
<1>4. CASE Files
  <2>1. UNCHANGED <<vars, rpc, mu, toStart, BusStop, panicked, down>>
    BY <1>4 DEF Files, TruncateFile, WriteFile, reloadVars
  <2> QED BY <1>3, <2>1 DEF OwnInv, UnderLock
<1>5. ASSUME NEW c \in Caller, FailReload(c) PROVE OwnInv'
  <2>1. UNCHANGED <<vars, BusStop, panicked, down, mu, toStart>>
    BY <1>5 DEF FailReload
  <2>2. rpc[c] = "call" /\ rpc' = [rpc EXCEPT ![c] = "idle"]
    BY <1>5 DEF FailReload
  <2>3. UnderLock' BY <1>2, <2>1, <2>2 DEF OwnInv, UnderLock
  <2> QED BY <1>3, <2>1, <2>3
<1>6. ASSUME NEW c \in Caller, BeginReload(c) PROVE OwnInv'
  <2>1. UNCHANGED <<vars, BusStop, panicked, down, toStart>>
    BY <1>6 DEF BeginReload
  <2>2. /\ rpc[c] = "call" /\ rpc' = [rpc EXCEPT ![c] = "close"]
        /\ mu = NoOne /\ mu' = c
    BY <1>6 DEF BeginReload
  <2>3. UnderLock' BY <1>2, <2>1, <2>2 DEF OwnInv, UnderLock
  <2> QED BY <1>3, <2>1, <2>3
<1>7. ASSUME NEW c \in Caller, NEW b \in BusId, CloseClosed(c, b) PROVE OwnInv'
  <2>1. down
    BY <1>7 DEF CloseClosed, OwnInv, OpenChannels
  <2>2. UNCHANGED <<vars, BusStop, down, rpc, mu, toStart>>
    BY <1>7 DEF CloseClosed, reloadVars
  <2> QED
    BY <1>1, <2>1, <2>2
       DEF OwnInv, Registered, LiveRegistered, OpenChannels, UnderLock, Live,
           PanicOnlyAfterShutdown, vars
<1>8. ASSUME NEW c \in Caller, SwapBuses(c) PROVE OwnInv'
  <2>1. UNCHANGED <<vars, BusStop, panicked, down, mu>>
    BY <1>8 DEF SwapBuses
  <2>2. /\ rpc[c] = "close" /\ rpc' = [rpc EXCEPT ![c] = "start"]
        /\ \A b \in BusId : BusStop[b] = NoWorker
        /\ toStart' \subseteq BusId
    BY <1>8 DEF SwapBuses
  <2>3. UnderLock' BY <1>2, <2>1, <2>2 DEF OwnInv, UnderLock
  <2> QED BY <1>3, <2>1, <2>3
<1>9. ASSUME NEW c \in Caller, EndReload(c) PROVE OwnInv'
  <2>1. UNCHANGED <<vars, BusStop, panicked, down, toStart>>
    BY <1>9 DEF EndReload
  <2>2. rpc[c] = "start" /\ rpc' = [rpc EXCEPT ![c] = "idle"] /\ mu' = NoOne
    BY <1>9 DEF EndReload
  <2>3. UnderLock' BY <1>2, <2>1, <2>2 DEF OwnInv, UnderLock
  <2> QED BY <1>3, <2>1, <2>3
<1>10. CASE StartWatch \/ HandleWriteEvent
  <2>1. UNCHANGED <<vars, BusStop, panicked, down, mu, toStart>>
    BY <1>10 DEF StartWatch, HandleWriteEvent
  <2>2. /\ rpc[Watcher] \in {"off", "idle"}
        /\ \E r \in {"call", "idle"} : rpc' = [rpc EXCEPT ![Watcher] = r]
    BY <1>10 DEF StartWatch, HandleWriteEvent
  <2>3. UnderLock' BY <1>2, <2>1, <2>2 DEF OwnInv, UnderLock, Caller
  <2> QED BY <1>3, <2>1, <2>3
<1>11. ASSUME NEW c \in Direct, CallReload(c) PROVE OwnInv'
  <2>1. UNCHANGED <<vars, BusStop, panicked, down, mu, toStart>>
    BY <1>11 DEF CallReload
  <2>2. rpc[c] = "idle" /\ rpc' = [rpc EXCEPT ![c] = "call"]
    BY <1>11 DEF CallReload
  <2>3. UnderLock' BY <1>2, <2>1, <2>2 DEF OwnInv, UnderLock
  <2> QED BY <1>3, <2>1, <2>3
<1>12. CASE CollectStep
  <2>1. UNCHANGED <<rpc, mu, toStart, BusStop, panicked, down>>
    BY <1>12 DEF CollectStep, managerVars, reloadVars
  <2>2. UnderLock' BY <2>1 DEF OwnInv, UnderLock
  <2>3. TypeOK BY DEF OwnInv
  <2> QED BY <1>1, <1>12, <2>1, <2>2, <2>3, CollectKeeps, OwnUntouched
<1>13. CASE UNCHANGED allVars
  <2>1. UNCHANGED <<vars, rpc, mu, toStart, BusStop, panicked, down>>
    BY <1>13 DEF allVars, managerVars, reloadVars
  <2> QED BY <1>3, <2>1 DEF OwnInv, UnderLock
<1> QED
  BY <1>1, <1>4, <1>5, <1>6, <1>7, <1>8, <1>9, <1>10, <1>11, <1>12, <1>13,
     OwnClose, OwnStart, OwnShutdown
     DEF ManagerNext, WatcherStep, DirectStep, ReloadStep, Caller

LEMMA OwnInit == ManagerInit => OwnInv
<1> SUFFICES ASSUME ManagerInit PROVE OwnInv
  OBVIOUS
<1>1. TypeOK /\ Init
  BY TypeInit DEF ManagerInit, TypeInv
<1>2. Live = {}
  BY <1>1 DEF Live, Init
<1>3. Registered /\ LiveRegistered /\ OpenChannels /\ UnderLock
  BY <1>1, <1>2, ManagerAssumption
     DEF ManagerInit, Init, Registered, LiveRegistered, OpenChannels, UnderLock
<1> QED
  BY <1>1, <1>3, ManagerTypeInit DEF ManagerInit, OwnInv, PanicOnlyAfterShutdown

LEMMA OwnAlways == ManagerSpec => []OwnInv
<1>1. ManagerSpec => []TypeOK
  <2>1. CollectSpec => []TypeOK
    BY TypeCorrect DEF CollectSpec
  <2> QED BY ManagerImplementsOwner, <2>1, PTL
<1> QED BY <1>1, OwnInit, OwnStep, PTL DEF ManagerSpec

\* At every moment, also half-way through a reload, each worker that has not
\* been told to stop is registered in BusStop under exactly one bus.
THEOREM NoOrphans == ManagerSpec => []StopOwnership
<1>1. OwnInv => StopOwnership
  <2> SUFFICES ASSUME OwnInv, NEW p \in Live
               PROVE  \E b \in BusId :
                        BusStop[b] = p /\ \A b2 \in BusId : BusStop[b2] = p => b2 = b
    BY DEF StopOwnership
  <2>1. PICK b \in BusId : BusStop[b] = p
    BY DEF OwnInv, LiveRegistered
  <2>2. p # NoWorker
    BY ManagerAssumption DEF Live
  <2> QED BY <2>1, <2>2 DEF OwnInv, Registered
<1> QED BY OwnAlways, <1>1, PTL

\* The manager never closes a channel twice on its own account.
THEOREM NoDoubleClose == ManagerSpec => []PanicOnlyAfterShutdown
<1>1. OwnInv => PanicOnlyAfterShutdown BY DEF OwnInv
<1> QED BY OwnAlways, <1>1, PTL

-----------------------------------------------------------------------------
(* What the registered workers collect.                                    *)

\* A list of devices that all belong to b.
OnBus(ds, b) == \A d \in Range(ds) : DeviceBus[d] = b

\* What is registered collects the list of its bus.
Matches(lists, b) ==
  IF BusStop[b] = NoWorker THEN lists[b] = <<>> ELSE devs[BusStop[b]] = lists[b]

OneContent(lists) ==
  \/ lists = [b \in BusId |-> <<>>]
  \/ \E content \in Config : lists = loadDevicesByBus(content)

\* In the second loop the buses already visited match the new grouping.
HalfWay ==
  /\ \A c \in Caller : rpc[c] \in {"close", "start"} => OneContent(loaded)
  /\ OneContent(Buses)
  /\ \A c \in Caller : rpc[c] = "start" =>
       /\ Buses = loaded
       /\ \A b \in BusId \ toStart : Matches(loaded, b)
  /\ mu = NoOne => \A b \in BusId : Matches(Buses, b)

\* Workers are registered under the bus of their devices.
RegisteredOnBus ==
  \A b \in BusId : BusStop[b] # NoWorker => OnBus(devs[BusStop[b]], b)

MixInv == OwnInv /\ HalfWay

LEMMA MixUntouched ==
  ASSUME MixInv, OwnInv', UNCHANGED <<devs, BusStop, Buses, loaded, toStart>>,
         \A c \in Caller : rpc'[c] \in {"close", "start"} => rpc'[c] = rpc[c],
         mu' = NoOne => mu = NoOne
  PROVE  MixInv'
BY DEF MixInv, HalfWay, OneContent, Matches

LEMMA MixStart ==
  ASSUME MixInv, OwnInv', NEW c \in Caller, NEW b \in BusId, StartNewWorker(c, b)
  PROVE  MixInv'
<1> PICK p \in Pipeline : /\ StartCollectPipeline(p, loaded[b])
                          /\ BusStop' = [BusStop EXCEPT ![b] = p]
  BY DEF StartNewWorker
<1>1. /\ BusStop \in [BusId -> Pipeline \cup {NoWorker}] /\ NoWorker \notin Pipeline
      /\ devs \in [Pipeline -> Seq(Device)]
  BY ManagerAssumption DEF MixInv, OwnInv, ManagerTypeInv, ManagerTypeOK, TypeOK
<1>2. /\ pc[p] = "new" /\ devs' = [devs EXCEPT ![p] = loaded[b]]
      /\ UNCHANGED <<rpc, mu, loaded, Buses>>
      /\ toStart' = toStart \ {b} /\ rpc[c] = "start"
  BY DEF StartNewWorker, StartCollectPipeline
<1>3. mu # NoOne
  BY <1>2, ManagerAssumption DEF MixInv, OwnInv, UnderLock
<1>4. \A b1 \in BusId : BusStop[b1] # p
  BY <1>1, <1>2 DEF MixInv, OwnInv, Registered
<1>5. ASSUME NEW b1 \in BusId \ toStart' PROVE Matches(loaded, b1)'
  <2>1. CASE b1 = b
    BY <1>1, <1>2, <2>1 DEF Matches
  <2>2. CASE b1 # b
    <3>1. Matches(loaded, b1)
      BY <1>2, <2>2 DEF MixInv, HalfWay
    <3>2. /\ BusStop'[b1] = BusStop[b1]
          /\ BusStop[b1] # NoWorker => devs'[BusStop[b1]] = devs[BusStop[b1]]
      BY <1>1, <1>2, <1>4, <2>2
    <3> QED BY <1>2, <3>1, <3>2 DEF Matches
  <2> QED BY <2>1, <2>2
<1>6. HalfWay'
  BY <1>2, <1>3, <1>5 DEF MixInv, HalfWay, OneContent
<1> QED BY <1>6 DEF MixInv

LEMMA MixStep == MixInv /\ OwnInv' /\ [ManagerNext]_allVars => MixInv'
<1> SUFFICES ASSUME MixInv, OwnInv', [ManagerNext]_allVars PROVE MixInv'
  OBVIOUS
<1>1. /\ rpc \in [Caller -> RpcStates] /\ NoOne \notin Caller /\ TypeOK
      /\ ManagerTypeOK /\ Torn \notin Config
  BY ManagerAssumption DEF MixInv, OwnInv, ManagerTypeInv, ManagerTypeOK
<1>2. CASE Files
  <2>1. UNCHANGED <<vars, reloadVars>>
    BY <1>2 DEF Files, TruncateFile, WriteFile
  <2> QED BY <2>1, MixUntouched DEF vars, reloadVars
<1>3. ASSUME NEW c \in Caller, FailReload(c) PROVE MixInv'
  <2>1. /\ UNCHANGED <<devs, BusStop, Buses, loaded, toStart, mu>>
        /\ rpc' = [rpc EXCEPT ![c] = "idle"]
    BY <1>3 DEF FailReload, vars
  <2> QED BY <1>1, <2>1, MixUntouched
<1>4. ASSUME NEW c \in Caller, BeginReload(c) PROVE MixInv'
  <2>1. /\ UNCHANGED <<devs, BusStop, Buses, toStart>> /\ mu' = c
        /\ rpc' = [rpc EXCEPT ![c] = "close"] /\ mu = NoOne
        /\ loaded' = loadDevicesByBus(file) /\ file \in Config
    BY <1>1, <1>4 DEF BeginReload, ManagerTypeOK, vars
  <2>2. \A c1 \in Caller : rpc'[c1] # "start"
    BY <1>1, <2>1 DEF MixInv, OwnInv, UnderLock
  <2>3. OneContent(loaded')
    BY <2>1 DEF OneContent
  <2>4. HalfWay'
    BY <1>1, <2>1, <2>2, <2>3 DEF MixInv, HalfWay, OneContent
  <2> QED BY <2>4 DEF MixInv
<1>5. ASSUME NEW c \in Caller, NEW b \in BusId, CloseOldWorker(c, b) PROVE MixInv'
  <2>1. UNCHANGED <<devs, Buses, loaded, toStart, mu, rpc>> /\ rpc[c] = "close"
    BY <1>5 DEF CloseOldWorker, CloseStopCh, pipelineVars
  <2>2. mu = c /\ \A c1 \in Caller : rpc[c1] # "start"
    BY <2>1 DEF MixInv, OwnInv, UnderLock
  <2>3. HalfWay'
    BY <1>1, <2>1, <2>2 DEF MixInv, HalfWay, OneContent
  <2> QED BY <2>3 DEF MixInv
<1>6. ASSUME NEW c \in Caller, NEW b \in BusId, CloseClosed(c, b) PROVE MixInv'
  <2>1. UNCHANGED <<vars, reloadVars>>
    BY <1>6 DEF CloseClosed
  <2> QED BY <2>1, MixUntouched DEF vars, reloadVars
<1>7. ASSUME NEW c \in Caller, SwapBuses(c) PROVE MixInv'
  <2>1. /\ UNCHANGED <<devs, BusStop, loaded, mu>> /\ Buses' = loaded
        /\ rpc[c] = "close" /\ rpc' = [rpc EXCEPT ![c] = "start"]
        /\ \A b \in BusId : BusStop[b] = NoWorker
        /\ toStart' = {b \in BusId : loaded[b] # <<>>}
    BY <1>7 DEF SwapBuses, vars
  <2>2. mu # NoOne /\ \A c1 \in Caller : rpc'[c1] = "start" => c1 = c
    BY <1>1, <2>1 DEF MixInv, OwnInv, UnderLock
  <2>3. \A b \in BusId \ toStart' : Matches(loaded, b)'
    BY <2>1 DEF Matches
  <2>4. HalfWay'
    BY <1>1, <2>1, <2>2, <2>3 DEF MixInv, HalfWay, OneContent
  <2> QED BY <2>4 DEF MixInv
<1>8. ASSUME NEW c \in Caller, EndReload(c) PROVE MixInv'
  <2>1. /\ UNCHANGED <<devs, BusStop, loaded, Buses, toStart>>
        /\ rpc[c] = "start" /\ rpc' = [rpc EXCEPT ![c] = "idle"] /\ toStart = {}
    BY <1>8 DEF EndReload, vars
  <2>2. \A b \in BusId : Matches(Buses, b)
    BY <2>1 DEF MixInv, HalfWay, Matches
  <2>3. HalfWay'
    BY <1>1, <2>1, <2>2 DEF MixInv, HalfWay, OneContent, Matches
  <2> QED BY <2>3 DEF MixInv
<1>9. CASE StartWatch \/ HandleWriteEvent
  <2>1. /\ UNCHANGED <<devs, BusStop, Buses, loaded, toStart, mu>>
        /\ \E r \in {"call", "idle"} : rpc' = [rpc EXCEPT ![Watcher] = r]
    BY <1>9 DEF StartWatch, HandleWriteEvent, vars
  <2> QED BY <1>1, <2>1, MixUntouched
<1>10. ASSUME NEW c \in Direct, CallReload(c) PROVE MixInv'
  <2>1. /\ UNCHANGED <<devs, BusStop, Buses, loaded, toStart, mu>>
        /\ rpc' = [rpc EXCEPT ![c] = "call"]
    BY <1>10 DEF CallReload, vars
  <2> QED BY <1>1, <2>1, MixUntouched
<1>11. ASSUME NEW b \in BusId, ShutdownBus(b) PROVE MixInv'
  <2>1. UNCHANGED <<devs, reloadVars>>
    BY <1>11 DEF ShutdownBus, CloseStopCh, pipelineVars
  <2> QED BY <2>1, MixUntouched DEF reloadVars
<1>12. CASE CollectStep
  <2>1. UNCHANGED <<devs, reloadVars>>
    BY <1>1, <1>12, CollectKeeps DEF CollectStep, managerVars
  <2> QED BY <2>1, MixUntouched DEF reloadVars
<1>13. CASE UNCHANGED allVars
  <2>1. UNCHANGED <<devs, reloadVars>>
    BY <1>13 DEF allVars, vars, managerVars
  <2> QED BY <2>1, MixUntouched DEF reloadVars
<1> QED
  BY <1>2, <1>3, <1>4, <1>5, <1>6, <1>7, <1>8, <1>9, <1>10, <1>11, <1>12,
     <1>13, MixStart DEF ManagerNext, WatcherStep, DirectStep, ReloadStep, Caller

LEMMA MixAlways == ManagerSpec => []MixInv
<1>1. ManagerInit => MixInv
  BY OwnInit, ManagerAssumption DEF ManagerInit, MixInv, HalfWay, OneContent, Matches
<1> QED BY <1>1, OwnAlways, MixStep, PTL DEF ManagerSpec

\* The grouping that was read last, by whoever holds mu or held it last.
LastRead == IF mu = NoOne THEN Buses ELSE loaded

\* Once the watcher has begun the reload for the last event it was sent, the
\* grouping that was read last is that of the file.
UpToDate ==
  NameMatches /\ watching /\ events = 0 /\ rpc[Watcher] \notin {"off", "call"} /\ file \in Config
    => LastRead = loadDevicesByBus(file)

LEMMA UpToDateStep == UpToDate /\ MixInv /\ [ManagerNext]_allVars => UpToDate'
<1> SUFFICES ASSUME UpToDate, MixInv, [ManagerNext]_allVars PROVE UpToDate'
  OBVIOUS
<1>1. /\ rpc \in [Caller -> RpcStates] /\ NoOne \notin Caller /\ Torn \notin Config
      /\ Watcher \in Caller /\ events \in Nat /\ file \in Config \cup {Torn}
  <2>1. events \in 0..MaxEvents /\ MaxEvents \in Nat
    BY ManagerAssumption DEF MixInv, OwnInv, ManagerTypeInv, ManagerTypeOK
  <2> QED
    BY <2>1, ManagerAssumption DEF MixInv, OwnInv, ManagerTypeInv, ManagerTypeOK, Caller
<1>2. ASSUME UNCHANGED <<file, watching, events, loaded, Buses, mu>>,
             rpc'[Watcher] \notin {"off", "call"} => rpc[Watcher] \notin {"off", "call"}
      PROVE  UpToDate'
  BY <1>2 DEF UpToDate, LastRead
<1>3. CASE TruncateFile
  BY <1>1, <1>3 DEF TruncateFile, UpToDate
<1>4. ASSUME NEW content \in Config \cup {Torn}, WriteFile(content) PROVE UpToDate'
  <2>1. watching' = watching /\ (watching => events' > 0)
    BY <1>1, <1>4 DEF WriteFile, Notify
  <2> QED BY <2>1 DEF UpToDate
<1>5. ASSUME NEW c \in Caller, FailReload(c) PROVE UpToDate'
  <2>1. file' = Torn BY <1>5 DEF FailReload, fileVars
  <2> QED BY <1>1, <2>1 DEF UpToDate
<1>6. ASSUME NEW c \in Caller, BeginReload(c) PROVE UpToDate'
  <2>1. file' = file /\ mu' = c /\ loaded' = loadDevicesByBus(file)
    BY <1>6 DEF BeginReload, fileVars
  <2> QED BY <1>1, <2>1 DEF UpToDate, LastRead
<1>7. ASSUME NEW c \in Caller, NEW b \in BusId,
             CloseOldWorker(c, b) \/ CloseClosed(c, b) \/ StartNewWorker(c, b)
      PROVE  UpToDate'
  <2>1. UNCHANGED <<file, watching, events, loaded, Buses, mu, rpc>>
    BY <1>7 DEF CloseOldWorker, CloseClosed, StartNewWorker, fileVars, reloadVars
  <2> QED BY <1>2, <2>1
<1>8. ASSUME NEW c \in Caller, SwapBuses(c) PROVE UpToDate'
  <2>1. /\ UNCHANGED <<file, watching, events, loaded, mu>>
        /\ rpc[c] = "close" /\ rpc' = [rpc EXCEPT ![c] = "start"]
    BY <1>8 DEF SwapBuses, fileVars
  <2>2. mu = c BY <2>1 DEF MixInv, OwnInv, UnderLock
  <2> QED BY <1>1, <2>1, <2>2 DEF UpToDate, LastRead
<1>9. ASSUME NEW c \in Caller, EndReload(c) PROVE UpToDate'
  <2>1. /\ UNCHANGED <<file, watching, events, loaded, Buses>> /\ mu' = NoOne
        /\ rpc[c] = "start" /\ rpc' = [rpc EXCEPT ![c] = "idle"]
    BY <1>9 DEF EndReload, fileVars
  <2>2. mu = c /\ Buses = loaded
    BY <2>1 DEF MixInv, OwnInv, UnderLock, HalfWay
  <2> QED BY <1>1, <2>1, <2>2 DEF UpToDate, LastRead
<1>10. CASE StartWatch
  BY <1>1, <1>10 DEF StartWatch, UpToDate
<1>11. CASE HandleWriteEvent
  <2>1. NameMatches => rpc'[Watcher] = "call"
    BY <1>1, <1>11 DEF HandleWriteEvent
  <2> QED BY <2>1 DEF UpToDate
<1>12. ASSUME NEW c \in Direct, CallReload(c) PROVE UpToDate'
  <2>1. /\ UNCHANGED <<file, watching, events, loaded, Buses, mu>>
        /\ rpc[c] = "idle" /\ rpc' = [rpc EXCEPT ![c] = "call"]
    BY <1>12 DEF CallReload, fileVars
  <2> QED BY <1>1, <1>2, <2>1
<1>13. CASE CollectStep \/ (\E b \in BusId : ShutdownBus(b)) \/ UNCHANGED allVars
  <2>1. UNCHANGED <<file, watching, events, loaded, Buses, mu, rpc>>
    BY <1>13 DEF CollectStep, ShutdownBus, allVars, managerVars, fileVars, reloadVars
  <2> QED BY <1>2, <2>1
<1> QED
  BY <1>3, <1>4, <1>5, <1>6, <1>7, <1>8, <1>9, <1>10, <1>11, <1>12, <1>13
     DEF ManagerNext, Files, WatcherStep, DirectStep, ReloadStep, Caller

\* Whenever mu is free, the registered workers collect exactly the devices of
\* one content of the file: a reload is all or nothing. It is the content the
\* file has now when the watcher has nothing left to do.
THEOREM ReloadAllOrNothing == ManagerSpec => []NoMixture
<1>1. ManagerInit => UpToDate
  BY DEF ManagerInit, UpToDate
<1>2. MixInv /\ UpToDate => NoMixture
  <2> SUFFICES ASSUME MixInv, UpToDate, mu = NoOne PROVE NoMixture
    BY DEF NoMixture
  <2>1. NothingPending /\ file # Torn => Buses = loadDevicesByBus(file)
    BY DEF NothingPending, UpToDate, LastRead, MixInv, OwnInv, ManagerTypeInv, ManagerTypeOK
  <2> QED BY <2>1 DEF MixInv, HalfWay, NoMixture, Matches, OneContent
<1> QED BY <1>1, <1>2, UpToDateStep, MixAlways, PTL DEF ManagerSpec

LEMMA OnBusStep ==
  RegisteredOnBus /\ MixInv /\ OwnInv' /\ [ManagerNext]_allVars
    => RegisteredOnBus'
<1> SUFFICES ASSUME RegisteredOnBus, MixInv, OwnInv', [ManagerNext]_allVars
             PROVE  RegisteredOnBus'
  OBVIOUS
<1>1. /\ BusStop \in [BusId -> Pipeline \cup {NoWorker}] /\ NoWorker \notin Pipeline
      /\ devs \in [Pipeline -> Seq(Device)] /\ TypeOK
  BY ManagerAssumption DEF MixInv, OwnInv, ManagerTypeInv, ManagerTypeOK, TypeOK
<1>2. ASSUME UNCHANGED <<devs, BusStop>> PROVE RegisteredOnBus'
  BY <1>2 DEF RegisteredOnBus, OnBus
<1>3. ASSUME NEW c \in Caller, NEW b \in BusId, CloseOldWorker(c, b)
      PROVE  RegisteredOnBus'
  <2>1. UNCHANGED devs /\ BusStop' = [BusStop EXCEPT ![b] = NoWorker]
    BY <1>3 DEF CloseOldWorker, CloseStopCh, pipelineVars
  <2> QED BY <1>1, <2>1 DEF RegisteredOnBus, OnBus
<1>4. ASSUME NEW c \in Caller, NEW b \in BusId, StartNewWorker(c, b)
      PROVE  RegisteredOnBus'
  <2> PICK p \in Pipeline : /\ StartCollectPipeline(p, loaded[b])
                            /\ BusStop' = [BusStop EXCEPT ![b] = p]
    BY <1>4 DEF StartNewWorker
  <2>1. /\ pc[p] = "new" /\ devs' = [devs EXCEPT ![p] = loaded[b]]
        /\ loaded[b] # <<>> /\ rpc[c] = "start"
    BY <1>4 DEF StartNewWorker, StartCollectPipeline
  <2>2. \A b1 \in BusId : BusStop[b1] # p
    BY <1>1, <2>1 DEF MixInv, OwnInv, Registered
  <2>3. OnBus(loaded[b], b)
    <3>1. OneContent(loaded) BY <2>1 DEF MixInv, HalfWay
    <3>2. PICK content \in Config : loaded = loadDevicesByBus(content)
      BY <2>1, <3>1 DEF OneContent
    <3> QED BY <3>2, LoaderGroups DEF OnBus
  <2>4. ASSUME NEW b1 \in BusId, BusStop'[b1] # NoWorker
        PROVE  OnBus(devs'[BusStop'[b1]], b1)
    <3>1. CASE b1 = b
      BY <1>1, <2>1, <2>3, <3>1
    <3>2. CASE b1 # b
      <4>1. BusStop'[b1] = BusStop[b1] /\ devs'[BusStop[b1]] = devs[BusStop[b1]]
        BY <1>1, <2>1, <2>2, <2>4, <3>2
      <4> QED BY <2>4, <4>1 DEF RegisteredOnBus
    <3> QED BY <3>1, <3>2
  <2> QED BY <2>4 DEF RegisteredOnBus, OnBus
<1>5. ASSUME NEW c \in Caller, ReloadStep(c) PROVE RegisteredOnBus'
  BY <1>2, <1>3, <1>4, <1>5
     DEF ReloadStep, FailReload, BeginReload, CloseClosed, SwapBuses, EndReload,
         reloadVars, vars
<1>6. CASE CollectStep
  BY <1>1, <1>2, <1>6, CollectKeeps DEF CollectStep, managerVars, reloadVars
<1>7. CASE Files \/ StartWatch \/ HandleWriteEvent \/ UNCHANGED allVars
  BY <1>2, <1>7
     DEF Files, TruncateFile, WriteFile, StartWatch, HandleWriteEvent, allVars,
         managerVars, reloadVars, vars
<1>8. ASSUME NEW c \in Direct, CallReload(c) PROVE RegisteredOnBus'
  BY <1>2, <1>8 DEF CallReload, vars
<1>9. ASSUME NEW b \in BusId, ShutdownBus(b) PROVE RegisteredOnBus'
  BY <1>2, <1>9 DEF ShutdownBus, CloseStopCh, pipelineVars, reloadVars
<1> QED
  BY <1>5, <1>6, <1>7, <1>8, <1>9 DEF ManagerNext, WatcherStep, DirectStep, Caller

\* No two workers that have not been told to stop ever poll devices of the same
\* bus, also while a reload replaces one set of workers by another.
THEOREM OneLiveWorker == ManagerSpec => []OneLiveWorkerPerBus
<1>1. ManagerInit => RegisteredOnBus
  BY DEF ManagerInit, RegisteredOnBus
<1>3. OwnInv /\ RegisteredOnBus => OneLiveWorkerPerBus
  <2> SUFFICES ASSUME OwnInv, RegisteredOnBus, NEW p \in Live, NEW q \in Live,
                      BusesOf(p) \cap BusesOf(q) # {}
               PROVE  p = q
    BY DEF OneLiveWorkerPerBus
  <2>1. PICK b1 \in BusId, b2 \in BusId : BusStop[b1] = p /\ BusStop[b2] = q
    BY DEF OwnInv, LiveRegistered
  <2>2. p # NoWorker /\ q # NoWorker
    BY ManagerAssumption DEF Live
  <2>3. BusesOf(p) \subseteq {b1} /\ BusesOf(q) \subseteq {b2}
    BY <2>1, <2>2 DEF RegisteredOnBus, OnBus, BusesOf
  <2> QED BY <2>1, <2>3
<1> QED BY <1>1, <1>3, OnBusStep, OwnAlways, MixAlways, PTL DEF ManagerSpec

-----------------------------------------------------------------------------
(* What the manager makes of the pipelines' promises.                      *)

\* Through any reloads, no result is lost or doubled, a handled result has
\* overtaken fewer older ones than the pool has workers, and no worker asks a
\* device more often than its interval allows.
THEOREM ManagerDelivers ==
  ManagerSpec => [](ExactlyOnce /\ BoundedOvertaking /\ RateLimit)
BY ManagerImplementsOwner, DeliveredExactlyOnce, OvertakingIsBounded, PaceRespected, PTL
   DEF CollectSpec

\* When no reload is at work and none is due, and nobody has closed a channel
\* from outside, the workers that have not been told to stop are those of the
\* file: each collects a list of the file's grouping, and no bus is without one.
THEOREM QuietMeansCurrent == ManagerSpec => []QuietIsCurrent
<1>1. ManagerInit => UpToDate /\ TypeInv /\ LeavesWhenTold
  BY TypeInit, LeavesInit DEF ManagerInit, UpToDate
<1>2. TypeInv /\ LeavesWhenTold /\ ManagerTypeInv /\ [ManagerNext]_allVars
        => TypeInv' /\ LeavesWhenTold'
  BY ManagerStepCollects, TypeStep, LeavesStep
<1>3. MixInv /\ UpToDate /\ LeavesWhenTold => QuietIsCurrent
  <2> SUFFICES ASSUME MixInv, UpToDate, LeavesWhenTold,
                      mu = NoOne, NothingPending, file # Torn, ~down
               PROVE  QuietIsCurrent
    BY DEF QuietIsCurrent
  <2> DEFINE lists == loadDevicesByBus(file)
  <2>1. \A b \in BusId : Matches(Buses, b) /\ Buses = lists
    BY DEF NothingPending, UpToDate, LastRead, MixInv, HalfWay, OwnInv, ManagerTypeInv,
           ManagerTypeOK
  <2>2. /\ NoWorker \notin Pipeline /\ BusStop \in [BusId -> Pipeline \cup {NoWorker}]
    BY ManagerAssumption DEF MixInv, OwnInv, ManagerTypeInv, ManagerTypeOK
  <2> HIDE DEF lists
  <2>3. ASSUME NEW p \in Live
        PROVE  \E b \in BusId : BusStop[b] = p /\ devs[p] = lists[b]
    <3>1. PICK b \in BusId : BusStop[b] = p
      BY DEF MixInv, OwnInv, LiveRegistered
    <3>2. p # NoWorker BY <2>2 DEF Live
    <3> QED BY <2>1, <3>1, <3>2 DEF Matches
  <2>4. ASSUME NEW b \in BusId, lists[b] # <<>> PROVE BusStop[b] \in Live
    <3>1. BusStop[b] # NoWorker BY <2>1, <2>4 DEF Matches
    <3>2. BusStop[b] \in Pipeline /\ pc[BusStop[b]] # "new" /\ ~stopCh[BusStop[b]]
      BY <2>2, <3>1 DEF MixInv, OwnInv, Registered, OpenChannels
    <3> QED BY <3>2 DEF Live, LeavesWhenTold
  <2> QED BY <2>3, <2>4 DEF QuietIsCurrent, lists
<1> QED
  BY <1>1, <1>2, <1>3, UpToDateStep, MixAlways, ManagerTypeInit, ManagerTypeStep, PTL
     DEF ManagerSpec

\* No two entries of the file have the same name.
UniqueNamesInFile == \A content \in Config : NamesDiffer(content)

\* The workers collect lists that the loader has made.
ListsFromFile ==
  \A p \in Pipeline :
    \/ devs[p] = <<>>
    \/ \E content \in Config, b \in BusId : devs[p] = loadDevicesByBus(content)[b]

LEMMA ListsStep == ListsFromFile /\ MixInv /\ [ManagerNext]_allVars => ListsFromFile'
<1> SUFFICES ASSUME ListsFromFile, MixInv, [ManagerNext]_allVars PROVE ListsFromFile'
  OBVIOUS
<1>1. TypeOK /\ devs \in [Pipeline -> Seq(Device)]
  BY DEF MixInv, OwnInv, TypeOK
<1>2. CASE UNCHANGED devs
  BY <1>2 DEF ListsFromFile
<1>3. ASSUME NEW c \in Caller, NEW b \in BusId, StartNewWorker(c, b) PROVE ListsFromFile'
  <2>1. PICK p \in Pipeline : StartCollectPipeline(p, loaded[b])
    BY <1>3 DEF StartNewWorker
  <2>2. devs' = [devs EXCEPT ![p] = loaded[b]] /\ loaded[b] # <<>> /\ rpc[c] = "start"
    BY <1>3, <2>1 DEF StartNewWorker, StartCollectPipeline
  <2>3. PICK content \in Config : loaded = loadDevicesByBus(content)
    BY <2>2 DEF MixInv, HalfWay, OneContent
  <2> QED BY <1>1, <2>2, <2>3 DEF ListsFromFile
<1>4. ASSUME NEW c \in Caller, ReloadStep(c) PROVE ListsFromFile'
  BY <1>2, <1>3, <1>4
     DEF ReloadStep, FailReload, BeginReload, CloseOldWorker, CloseStopCh, CloseClosed,
         SwapBuses, EndReload, pipelineVars, vars
<1>5. CASE CollectStep
  BY <1>1, <1>2, <1>5, CollectKeeps
<1>6. CASE Files \/ StartWatch \/ HandleWriteEvent \/ UNCHANGED allVars
  BY <1>2, <1>6
     DEF Files, TruncateFile, WriteFile, StartWatch, HandleWriteEvent, allVars, vars
<1>7. ASSUME NEW c \in Direct, CallReload(c) PROVE ListsFromFile'
  BY <1>2, <1>7 DEF CallReload, vars
<1>8. ASSUME NEW b \in BusId, ShutdownBus(b) PROVE ListsFromFile'
  BY <1>2, <1>8 DEF ShutdownBus, CloseStopCh, pipelineVars
<1> QED
  BY <1>4, <1>5, <1>6, <1>7, <1>8 DEF ManagerNext, WatcherStep, DirectStep, Caller

\* From the file to the channel: when the entries of the file have different
\* names, a finished round of any worker, whatever reloads are at work, leaves
\* each of its devices with a result younger than the device's interval.
THEOREM ManagerServesEveryDevice ==
  ASSUME UniqueNamesInFile PROVE ManagerSpec => []RoundServesEveryDevice
<1>1. ManagerInit => ServeInv /\ ListsFromFile
  BY ServeInit DEF ManagerInit, Init, ListsFromFile
<1>2. ListsFromFile => UniqueNamesAtWork
  <2> SUFFICES ASSUME ListsFromFile, NEW p \in Pipeline PROVE NamesDiffer(devs[p])
    BY DEF UniqueNamesAtWork
  <2>1. CASE devs[p] = <<>> BY <2>1 DEF NamesDiffer
  <2>2. ASSUME NEW content \in Config, NEW b \in BusId, devs[p] = loadDevicesByBus(content)[b]
        PROVE  NamesDiffer(devs[p])
    BY <2>2, ManagerAssumption, LoaderLoop DEF UniqueNamesInFile
  <2> QED BY <2>1, <2>2 DEF ListsFromFile
<1>3. ListsFromFile /\ ServeInv /\ ManagerTypeInv /\ [ManagerNext]_allVars => ServeInv'
  BY <1>2, ManagerStepCollects, ServeStep
<1> QED
  BY <1>1, <1>3, ListsStep, ServeMeans, MixAlways, ManagerTypeInit, ManagerTypeStep, PTL
     DEF ManagerSpec
=============================================================================
