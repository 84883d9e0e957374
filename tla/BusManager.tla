---------------------------- MODULE BusManager ----------------------------
(***************************************************************************)
(* cycV2/internal/device/config_loader.go: the Manager that reads the      *)
(* device file, groups the devices by bus and runs one collect pipeline    *)
(* per bus (ReloadFromFile), called directly or by the goroutine that      *)
(* watches the file (WatchAndReload). It is composed with CollectPipeline: *)
(* the manager is the owner of the pipelines' stop channels.               *)
(*                                                                         *)
(* A ModbusDevice is identified with its entry in the file. A worker is a  *)
(* pipeline goroutine. Map keys that are absent are an empty list in Buses *)
(* (what Go's map returns for them) and NoWorker in BusStop.               *)
(***************************************************************************)
EXTENDS CollectPipeline

CONSTANTS
  BusId,        \* the bus ids of the devices
  DeviceBus,    \* DeviceConfig.BusId of each device
  AdapterKnown, \* devices protocol.GetAdapter builds an adapter for
  Config,       \* contents the file may be given: lists of devices
  Torn,         \* a content that does not parse: half written, or not JSON
  Watcher,      \* the goroutine in WatchAndReload
  Direct,       \* goroutines that call ReloadFromFile themselves
  NameMatches,  \* fsnotify names the file the way configPath does
  NoWorker,     \* no stop channel registered
  NoOne,        \* mu is free
  MaxWrites,    \* bound: saves of the file
  MaxCalls,     \* bound: calls of ReloadFromFile by Direct goroutines
  MaxEvents     \* bound: events waiting in the watcher

Caller == {Watcher} \cup Direct

ASSUME ManagerAssumption ==
  /\ DeviceBus \in [Device -> BusId]
  /\ Config \subseteq Seq(Device)
  /\ Torn \notin Config
  /\ NoWorker \notin Pipeline
  /\ NoOne \notin Caller
  /\ NameMatches \in BOOLEAN
  /\ MaxWrites \in Nat /\ MaxCalls \in Nat /\ MaxEvents \in Nat

VARIABLES
  file,     \* content of the configuration file
  writes,   \* saves still to come
  watching, \* the watcher has been added to the directory
  events,   \* write events not yet received
  calls,    \* direct calls still to come
  rpc,      \* where each caller is in ReloadFromFile
  mu,       \* holder of Manager.mu
  loaded,   \* busDevicesMap of the reload that holds mu
  toStart,  \* buses its second loop has still to visit
  Buses,    \* Manager.Buses
  BusStop,  \* Manager.BusStop: the worker whose stop channel is registered
  down,     \* somebody outside the manager has closed a channel of BusStop
  panicked  \* the process has died of a double close

fileVars    == <<file, writes, watching, events>>
reloadVars  == <<rpc, mu, loaded, toStart, Buses, BusStop>>
managerVars == <<fileVars, calls, reloadVars, down, panicked>>
allVars     == <<vars, managerVars>>

RpcStates == {"off", "idle", "call", "close", "start"}

ManagerTypeOK ==
  /\ file \in Config \cup {Torn}
  /\ writes \in 0..MaxWrites
  /\ watching \in BOOLEAN
  /\ events \in 0..MaxEvents
  /\ calls \in 0..MaxCalls
  /\ rpc \in [Caller -> RpcStates]
  /\ mu \in Caller \cup {NoOne}
  /\ loaded \in [BusId -> Seq(Device)]
  /\ toStart \subseteq BusId
  /\ Buses \in [BusId -> Seq(Device)]
  /\ BusStop \in [BusId -> Pipeline \cup {NoWorker}]
  /\ down \in BOOLEAN
  /\ panicked \in BOOLEAN

ManagerInit ==
  /\ Init
  /\ file \in Config \cup {Torn}
  /\ writes = MaxWrites
  /\ watching = FALSE
  /\ events = 0
  /\ calls = MaxCalls
  /\ rpc = [c \in Caller |-> IF c = Watcher THEN "off" ELSE "idle"]
  /\ mu = NoOne
  /\ loaded = [b \in BusId |-> <<>>]
  /\ toStart = {}
  /\ Buses = [b \in BusId |-> <<>>]
  /\ BusStop = [b \in BusId |-> NoWorker]
  /\ down = FALSE
  /\ panicked = FALSE

-----------------------------------------------------------------------------
(* The file and its watcher (fsnotify is external).                        *)

\* A write event joins the queue, or is merged with one that still waits.
Notify ==
  \/ ~watching /\ UNCHANGED events
  \/ watching /\ events < MaxEvents /\ events' = events + 1
  \/ watching /\ events > 0 /\ UNCHANGED events

\* A save truncates the file and then writes it; both are write events.
TruncateFile ==
  /\ writes > 0
  /\ file # Torn
  /\ file' = Torn
  /\ Notify
  /\ UNCHANGED <<vars, writes, watching, calls, reloadVars, down, panicked>>

WriteFile(content) ==
  /\ writes > 0
  /\ file = Torn
  /\ writes' = writes - 1
  /\ file' = content
  /\ Notify
  /\ UNCHANGED <<vars, watching, calls, reloadVars, down, panicked>>

-----------------------------------------------------------------------------
(* ReloadFromFile.                                                         *)

\* The loop over the entries of the file; a device whose adapter is unknown is
\* passed over. upTo[n] is the grouping of the first n entries.
loadDevicesByBus(content) ==
  LET upTo[n \in 0..Len(content)] ==
        IF n = 0 THEN [b \in BusId |-> <<>>]
        ELSE IF content[n] \in AdapterKnown
          THEN [upTo[n - 1] EXCEPT ![DeviceBus[content[n]]] = Append(@, content[n])]
          ELSE upTo[n - 1]
  IN  upTo[Len(content)]

\* The lists the loader produces are those the pipelines are declared for.
ASSUME LoaderAssumption ==
  \A content \in Config : \A b \in BusId :
    loadDevicesByBus(content)[b] \in DeviceList \cup {<<>>}

\* Lock, read the file and return the error, with nothing changed.
FailReload(c) ==
  /\ rpc[c] = "call"
  /\ mu = NoOne
  /\ file = Torn
  /\ rpc' = [rpc EXCEPT ![c] = "idle"]
  /\ UNCHANGED <<vars, fileVars, calls, mu, loaded, toStart, Buses, BusStop,
                 down, panicked>>

BeginReload(c) ==
  /\ rpc[c] = "call"
  /\ mu = NoOne
  /\ file # Torn
  /\ mu' = c
  /\ loaded' = loadDevicesByBus(file)
  /\ rpc' = [rpc EXCEPT ![c] = "close"]
  /\ UNCHANGED <<vars, fileVars, calls, toStart, Buses, BusStop, down, panicked>>

\* Seeded bug: the entry is deleted, the channel is not closed.
CloseOldWorker_OnlyDeletes(c, b) ==
  /\ rpc[c] = "close"
  /\ BusStop[b] # NoWorker
  /\ BusStop' = [BusStop EXCEPT ![b] = NoWorker]
  /\ UNCHANGED <<vars, fileVars, calls, rpc, mu, loaded, toStart, Buses, down,
                 panicked>>

\* Seeded bug: the channel is closed, the entry stays.
CloseOldWorker_OnlyCloses(c, b) ==
  /\ rpc[c] = "close"
  /\ BusStop[b] # NoWorker
  /\ ~stopCh[BusStop[b]]
  /\ CloseStopCh(BusStop[b])
  /\ UNCHANGED <<managerVars>>

\* close(stopCh); delete(m.BusStop, busID). Closing a closed channel panics.
\* Nobody waits for the worker to leave.
CloseOldWorker(c, b) ==
  /\ rpc[c] = "close"
  /\ BusStop[b] # NoWorker
  /\ ~stopCh[BusStop[b]]
  /\ CloseStopCh(BusStop[b])
  /\ BusStop' = [BusStop EXCEPT ![b] = NoWorker]
  /\ UNCHANGED <<fileVars, calls, rpc, mu, loaded, toStart, Buses, down, panicked>>

CloseClosed(c, b) ==
  /\ rpc[c] = "close"
  /\ BusStop[b] # NoWorker
  /\ stopCh[BusStop[b]]
  /\ panicked' = TRUE
  /\ UNCHANGED <<vars, fileVars, calls, reloadVars, down>>

\* Seeded bug: the new workers are started before the old ones are stopped.
SwapBuses_TooEarly(c) ==
  /\ rpc[c] = "close"
  /\ Buses' = loaded
  /\ toStart' = {b \in BusId : loaded[b] # <<>>}
  /\ rpc' = [rpc EXCEPT ![c] = "start"]
  /\ UNCHANGED <<vars, fileVars, calls, mu, loaded, BusStop, down, panicked>>

\* Seeded bug: the new grouping is merged into the old one.
SwapBuses_Merges(c) ==
  /\ rpc[c] = "close"
  /\ \A b \in BusId : BusStop[b] = NoWorker
  /\ Buses' = [b \in BusId |-> IF loaded[b] = <<>> THEN Buses[b] ELSE loaded[b]]
  /\ toStart' = {b \in BusId : loaded[b] # <<>>}
  /\ rpc' = [rpc EXCEPT ![c] = "start"]
  /\ UNCHANGED <<vars, fileVars, calls, mu, loaded, BusStop, down, panicked>>

SwapBuses(c) ==
  /\ rpc[c] = "close"
  /\ \A b \in BusId : BusStop[b] = NoWorker
  /\ Buses' = loaded
  /\ toStart' = {b \in BusId : loaded[b] # <<>>}
  /\ rpc' = [rpc EXCEPT ![c] = "start"]
  /\ UNCHANGED <<vars, fileVars, calls, mu, loaded, BusStop, down, panicked>>

\* Seeded bug: a worker that has not left yet is given the new list.
StartNewWorker_Reuses(c, b) ==
  /\ rpc[c] = "start"
  /\ b \in toStart
  /\ \E p \in Pipeline :
       /\ pc[p] \in {"new", "select"}
       /\ pc' = [pc EXCEPT ![p] = "select"]
       /\ devs' = [devs EXCEPT ![p] = loaded[b]]
       /\ stopCh' = [stopCh EXCEPT ![p] = FALSE]
       /\ BusStop' = [BusStop EXCEPT ![b] = p]
  /\ toStart' = toStart \ {b}
  /\ UNCHANGED <<now, idx, lastCollect, rawCh, sent, parserVars, fileVars, calls,
                 rpc, mu, loaded, Buses, down, panicked>>

\* A new stop channel is registered and the worker of the bus is started.
StartNewWorker(c, b) ==
  /\ rpc[c] = "start"
  /\ b \in toStart
  /\ \E p \in Pipeline :
       /\ StartCollectPipeline(p, loaded[b])
       /\ BusStop' = [BusStop EXCEPT ![b] = p]
  /\ toStart' = toStart \ {b}
  /\ UNCHANGED <<fileVars, calls, rpc, mu, loaded, Buses, down, panicked>>

EndReload(c) ==
  /\ rpc[c] = "start"
  /\ toStart = {}
  /\ mu' = NoOne
  /\ rpc' = [rpc EXCEPT ![c] = "idle"]
  /\ UNCHANGED <<vars, fileVars, calls, loaded, toStart, Buses, BusStop,
                 down, panicked>>

ReloadStep(c) ==
  \/ FailReload(c)
  \/ BeginReload(c)
  \/ \E b \in BusId : CloseOldWorker(c, b)
  \/ \E b \in BusId : CloseClosed(c, b)
  \/ SwapBuses(c)
  \/ \E b \in BusId : StartNewWorker(c, b)
  \/ EndReload(c)

-----------------------------------------------------------------------------
(* The callers.                                                            *)

\* Seeded bug: the watcher goroutine does not load the file to begin with.
StartWatch_NoFirstLoad ==
  /\ rpc[Watcher] = "off"
  /\ watching' = TRUE
  /\ rpc' = [rpc EXCEPT ![Watcher] = "idle"]
  /\ UNCHANGED <<vars, file, writes, events, calls, mu, loaded, toStart, Buses,
                 BusStop, down, panicked>>

\* WatchAndReload adds the watcher to the directory of the file before its
\* first reload, so that no write falls between the two.
StartWatch ==
  /\ rpc[Watcher] = "off"
  /\ watching' = TRUE
  /\ rpc' = [rpc EXCEPT ![Watcher] = "call"]
  /\ UNCHANGED <<vars, file, writes, events, calls, mu, loaded, toStart, Buses,
                 BusStop, down, panicked>>

\* Seeded bug: the receive does not wait for an event.
HandleWriteEvent_NoWait ==
  /\ rpc[Watcher] = "idle"
  /\ events' = events - 1
  /\ rpc' = [rpc EXCEPT ![Watcher] = IF NameMatches THEN "call" ELSE "idle"]
  /\ UNCHANGED <<vars, file, writes, watching, calls, mu, loaded, toStart, Buses,
                 BusStop, down, panicked>>

\* An event for another name than configPath is passed over.
HandleWriteEvent ==
  /\ rpc[Watcher] = "idle"
  /\ events > 0
  /\ events' = events - 1
  /\ rpc' = [rpc EXCEPT ![Watcher] = IF NameMatches THEN "call" ELSE "idle"]
  /\ UNCHANGED <<vars, file, writes, watching, calls, mu, loaded, toStart, Buses,
                 BusStop, down, panicked>>

CallReload(c) ==
  /\ c \in Direct
  /\ rpc[c] = "idle"
  /\ calls > 0
  /\ calls' = calls - 1
  /\ rpc' = [rpc EXCEPT ![c] = "call"]
  /\ UNCHANGED <<vars, fileVars, mu, loaded, toStart, Buses, BusStop, down,
                 panicked>>

\* The way the test stops the workers: it closes the channels it finds in
\* BusStop itself, and leaves them there.
ShutdownBus(b) ==
  /\ \A c \in Direct : rpc[c] = "idle"
  /\ mu = NoOne
  /\ BusStop[b] # NoWorker
  /\ CloseStopCh(BusStop[b])
  /\ down' = TRUE
  /\ UNCHANGED <<fileVars, calls, reloadVars, panicked>>

-----------------------------------------------------------------------------

Files == TruncateFile \/ \E content \in Config \cup {Torn} : WriteFile(content)

WatcherStep == StartWatch \/ HandleWriteEvent \/ ReloadStep(Watcher)

DirectStep(c) == CallReload(c) \/ ReloadStep(c)

\* A worker, a parse worker, or the start and stop of the parse pool.
CollectStep ==
  /\ \/ \E p \in Pipeline : PipelineStep(p)
     \/ \E q \in Parser : ParserStep(q)
     \/ StartParseWorkerPool
     \/ CloseParseStop
  /\ UNCHANGED managerVars

\* A panic ends the process.
ManagerNext ==
  /\ ~panicked
  /\ \/ Files
     \/ WatcherStep
     \/ \E c \in Direct : DirectStep(c)
     \/ \E b \in BusId : ShutdownBus(b)
     \/ CollectStep

\* Go schedules every runnable goroutine; sync.Mutex hands the lock to a
\* waiter that has waited for long, hence the strong fairness on taking it.
ManagerFairness ==
  /\ WF_allVars(WatcherStep)
  /\ SF_allVars(BeginReload(Watcher) \/ FailReload(Watcher))
  /\ \A c \in Direct : WF_allVars(ReloadStep(c))
  /\ \A p \in Pipeline : WF_allVars(PipelineStep(p) /\ UNCHANGED managerVars)
  /\ \A q \in Parser : WF_allVars(ParserStep(q) /\ UNCHANGED managerVars)
  /\ WF_allVars(StartParseWorkerPool /\ UNCHANGED managerVars)

ManagerSpec     == ManagerInit /\ [][ManagerNext]_allVars
FairManagerSpec == ManagerSpec /\ ManagerFairness

-----------------------------------------------------------------------------
(* Properties.                                                             *)

\* Workers that have not been told to stop.
Live == {p \in Pipeline : pc[p] \notin {"new", "done"} /\ ~stopCh[p]}

\* No orphan: every live worker is registered in BusStop, under one bus, so
\* that the next reload reaches it; also half-way through a reload. A worker
\* whose channel was dropped from the map without a close would poll for ever.
StopOwnership ==
  \A p \in Live : \E b \in BusId :
    BusStop[b] = p /\ \A b2 \in BusId : BusStop[b2] = p => b2 = b

\* At most one live worker polls the devices of a bus, also while one set of
\* workers replaces another.
BusesOf(p) == {DeviceBus[d] : d \in Range(devs[p])}
OneLiveWorkerPerBus ==
  \A p, q \in Live : BusesOf(p) \cap BusesOf(q) # {} => p = q

\* The watcher waits, has no event left, and gets the events for configPath.
NothingPending ==
  NameMatches /\ watching /\ events = 0 /\ rpc[Watcher] = "idle"

\* A reload is all or nothing: whenever mu is free, the registered workers
\* collect exactly the devices of one content of the file, the last one that
\* was loaded (or none before that); a failed reload leaves no mixture. And it
\* is the content the file has now, as soon as the watcher has nothing left to
\* do: no save falls between a reload and the next event.
NoMixture ==
  mu = NoOne =>
    /\ \A b \in BusId :
         IF BusStop[b] = NoWorker THEN Buses[b] = <<>>
                                  ELSE devs[BusStop[b]] = Buses[b]
    /\ \/ Buses = [b \in BusId |-> <<>>]
       \/ \E content \in Config : Buses = loadDevicesByBus(content)
    /\ NothingPending /\ file # Torn => Buses = loadDevicesByBus(file)

\* So the workers that have not been told to stop are those of the file, one for
\* each of its buses, as soon as no reload is at work and none is due: no save
\* has been overlooked, and no worker has left or been left out on the way.
QuietIsCurrent ==
  mu = NoOne /\ NothingPending /\ file # Torn /\ ~down =>
    /\ \A p \in Live : \E b \in BusId :
         BusStop[b] = p /\ devs[p] = loadDevicesByBus(file)[b]
    /\ \A b \in BusId : loadDevicesByBus(file)[b] # <<>> => BusStop[b] \in Live

\* The manager alone never closes a channel twice: a panic needs somebody
\* else to have closed a channel of BusStop before.
PanicOnlyAfterShutdown == panicked => down

\* "同一总线下仅一组worker顺序采集所有设备，避免串口冲突": two workers are never
\* collecting from the same bus at the same time.
OneCollectorPerBus ==
  \A p, q \in Pipeline :
    /\ pc[p] = "collect" /\ pc[q] = "collect"
    /\ BusesOf(p) \cap BusesOf(q) # {}
    => p = q

\* Seen from the pipelines, the manager is a well-behaved owner: it starts
\* each of them once, with a list that is not empty, and closes no stop
\* channel twice.
CollectSpec == Spec

\* Once the file stays at some content, the watcher runs and nobody closes
\* the channels from outside, the workers that run are in the end those of
\* that content: no save is overlooked, and every older worker leaves.
RunsExactly(content) ==
  /\ Buses = loadDevicesByBus(content)
  /\ \A p \in Pipeline : pc[p] \notin {"new", "done"} =>
       \E b \in BusId : BusStop[b] = p /\ devs[p] = loadDevicesByBus(content)[b]

Converges ==
  \A content \in Config :
    <>[](file = content /\ ~down /\ ~parseStop) => <>[]RunsExactly(content)

=============================================================================
