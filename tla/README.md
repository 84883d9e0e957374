# A specification of cyc

TLA+ models, TLC instances and TLAPS proofs for the two data collectors of the
repository: `cyc20250422`, the first version, and `cycV2`, the second. Both poll
industrial devices over Modbus and hand what they read to a consumer.

Contents: 1. the system · 2. the modules · 3. the runs · 4. fairness ·
5. the proofs · 6. what the work found · 7. what is left out, and the plan.

## 1. The system

### Second version (`src/cycV2`)

| Component | State | Operations | Interacts with |
|---|---|---|---|
| Pipelines and parse pool, `internal/device/pipeline.go` | per pipeline: its devices, `lastCollect` by device name, its stop channel; the channel `rawCh`; per parse worker: the result in hand | `StartCollectPipeline`, the rounds of its goroutine, `StartParseWorkerPool`, receive, handle, stop | started and stopped by the manager (or a test); calls `ModbusDevice.Collect`; feeds the pool through `rawCh` |
| Manager, `internal/device/config_loader.go` | `Buses`, `BusStop` under `mu`; the file and its watcher | `ReloadFromFile`, `WatchAndReload`, `loadDevicesByBus` | starts pipelines, closes their stop channels, is called by tests and by the watcher's goroutine |
| Device, `internal/device/modbus_device.go` | `mu`, `writeQueue`, the registers of the slave | `ControlAsync` + `writeWorker`, `Control`, `Collect`, `CollectAllParallel` | pipelines scan it; all paths share one adapter |
| Bus worker, `internal/bus/modbus_bus.go` | `ctrlQ`, `pollQ`, `quitQ`, the ticker | `Start`, `Stop`, `ControlAsync`, `EnqueuePoll`, `handleControl`, `doBatchCollect` | an alternative to pipeline and write queue; uses the adapters of its devices directly |
| Adapter, `internal/protocol/modbus` | `opened`, the client | `Connect`, `Disconnect`, `Read`, `BatchRead`, `Write`, `WriteModbus` | called by device and bus worker |
| Device manager, `internal/device/manager.go` | a map of devices under a RWMutex | `Register`, `GetDevice`, `CollectAll` | calls `CollectAllParallel` |
| Registries and dispatchers | maps filled by `init`; the default type | lookups; I/O | used by loader and handler |
| Decoder, `internal/util` | none | pure functions | called by nobody |

### First version (`src/cyc20250422`)

| Component | State | Operations | Interacts with |
|---|---|---|---|
| Collector, `internal/collector` | `devices`, `tasks` under `mu`, `dataChan`; per task: a context and a goroutine | `AddDevice`, `ConnectDevice`, `DisconnectDevice`, `StartTask`, `StopTask`, `collectTask` | called by `main`; its goroutines read `tasks` without `mu` and use the devices beside the calls |
| Device, `pkg/protocol/modbus` | `connected` | `Connect`, `Disconnect`, `ReadMultiple` | one per id, made by `internal/device/facotry.go` |
| Configuration, `internal/config` | maps loaded once | load, validate, group points | read by factory and `main`; the groups are printed |
| `cmd/collector/main.go` | none | start-up, the consumer of `dataChan`, shutdown | everything above |

### What is hard in it, and what makes it correct

* **Stopping.** A stop channel, a quit channel or a context is looked at in one
  select only; what happens to a goroutine that is elsewhere at that moment, or
  blocked on a full channel? (`StopLeadsToExit`, `StopReturns`,
  `AtMostOneLatePoll`, `StoppedRunEnds`, `StopNeverPanics`,
  `ExitedAllStopped`)
* **Replacing.** A reload replaces running workers, a task id is used again
  while the goroutine of its predecessor still runs. (`StopOwnership`,
  `NoMixture`, `OneLiveWorkerPerBus`, `OneCollectorPerBus`,
  `LiveRunRegistered`, `EndsOnlyWhenStopped`)
* **Sharing.** Scans, queued writes, synchronous writes and parallel reads
  meet at one connection; registrations meet collections of all devices.
  (`OneRequestOnWire`, `CollectIsSnapshot`, `ParallelComplete`,
  `ReadersEndWithCall`, `CallsReturn`, `CollectAllComplete`,
  `RegistryCallsReturn`)
* **Delivering.** Results and requests pass through bounded channels and
  several hands. (`ExactlyOnce`, `BoundedOvertaking`,
  `SentLeadsToHandled`, `ImplementsService`, `ControlAnswered`,
  `ServedUnlessStopped`)
* **Timing.** Ticks are late or dropped, devices of one bus want different
  intervals, a poll competes with a request. (`RateLimit`,
  `RoundServesEveryDevice`, `AtMostOneOvertakes`)
* **Cutting into requests.** Two algorithms make batches of registers out of
  points that have types, gaps and equal addresses. (`ReadsFirstRegisters`,
  `BatchCoversPoints`, `GroupingCorrect`)
* **Not falling over.** A nil client, a nil device, a task that is gone, an assertion
  that fails: each ends the whole process. (`PanicHasCause`, `StopNeverPanics`,
  `SafeUntilSignal`)

`PROJECT.json` lists the single hazards, each at its line.

## 2. The modules

```
CollectPipeline <- BusManager (EXTENDS, and refines it as its owner)
     ^- MCCollectPipeline, CollectPipelineProofs
                       ^- MCBusManager, BusManagerProofs
ControlService <--refines-- ModbusDevice  <- MCModbusDevice, ModbusDeviceProofs
               <--refines-- ModbusBus     <- MCModbusBus, ModbusBusProofs
                               | EXTENDS
                            ModbusAdapter
DataLemmas: induction and recursion, FIFO queues; used by the other proof modules
DeviceManager <- MCDeviceManager, DeviceManagerProofs
Collector   <- CollectorMain (EXTENDS both, and refines Collector)
BatchGroups <-      ^- MCCollector, CollectorMainProofs
Collector   <- CollectorProofs
```

**CollectPipeline.** A pipeline goroutine is `pc[p]` over `new, select, scan,
collect, send, done`. `Tick` is the ticker's case of the select, `ExitPipeline`
the stop channel's. One round is `SkipDevice`/`BeginCollect`/`EndCollect`/
`SendResult` for each device and `EndRound`; `collect` is the time during which
requests are on the bus, `send` that of the blocking send. The time stamp of a
round is any value later than that of the round before: late, early and dropped
ticks are all covered, and the period of the ticker is left out. A result is
the record of pipeline, position and time. A parse worker is `parsePc[q]`, with
`Receive`, `Handle` and `ExitParser`. The owner of the channels (`Owner`) starts
a pipeline once, with a list, and closes each stop channel once. `Collect` never
returns an error in the code, so the branch on its error has no action.

**BusManager** EXTENDS CollectPipeline. `mu`, `rpc` and `loaded` are the
reload in progress: `BeginReload` (lock, read and group), `CloseOldWorker` for
each registered bus, `SwapBuses`, `StartNewWorker` for each new one,
`EndReload`; `FailReload` when the file does not parse. `CloseClosed` is the
panic of a double close. The watcher is `StartWatch` and `HandleWriteEvent`; a
save of the file is two steps, `TruncateFile` and `WriteFile`, each with its event,
and events that wait may be merged. `ShutdownBus` is what
`modbus_pipeline_test.go` does at its end. Between the steps of a reload
the workers, old and new, take theirs (`CollectStep`).

**ModbusDevice.** `mu` is the holder of `d.mu`. Every path is a lock step, one or
more steps in `io` (a request on the wire) and a step that leaves. A
parallel collection has one goroutine per readable point, `<<p, i>>`, and the
wait group `wg[p]`. The slave is a memory `regs`; each write may or may not reach
it, and may or may not be reported as failed, but one that does not reach it
fails. `applied` is a history variable. Variables of a call are reset when they
are dead, which the code does by leaving the function.

**ModbusBus.** `worker` is at `outer` or `inner`, the two selects, at `handle`
and `answer` (handleControl), in `poll` (doBatchCollect), or has `panicked`.
`FallThrough` is the default case: possible only when neither quit nor a request
is ready. A poll has `unread` points; `ReadBatch` reads the region of a point,
as groupPointsByFuncAndRegion cuts it: devices in their order, functions in
any order (they come out of a map), regions by address. A point has its number of
registers `num`, at which the code never looks: to ReadBatch every point is one register
wide, its first, and a region is a run of adjacent first addresses. Addresses are
integers; start and quantity of a batch are cut to 16 bits as the conversions
to `uint16` do. `PanicInPoll` is a point that cannot be grouped, or a client that is nil. Adapters may be
connected and disconnected before the worker starts.
`overtaken` and `latePolls` are history variables.

**ModbusAdapter** has no variables: each operation is an operator from the
state of an adapter (`opened`, and whether there is a client) to the results it may have.

**ControlService** is the abstract specification of both `ControlAsync`s:
accepted requests are carried out one at a time, in order, at most once, and
answered; what was not carried out is never answered with success. In both
refinement mappings `waiting` is the queue with the request in hand before it.

**Collector.** `call` is the call that holds `c.mu`, with what it still has to
do; it is left between cancelling a context and deleting the id, and during a
connect. `UseNilDevice` is the first use of a device that the factory has not made.
`badParams` are the devices whose host or port is missing or of another type:
Connect asserts both, and `PanicInConnect` is what comes of it. A goroutine is `pc[r]` over `loop` (about to evaluate
`c.tasks[taskID].ctx.Done()`), `select`, `check`, `connect`, `read`, `send`.
`watched[r]` is the run whose context it has looked up. A run is one successful
`StartTask`; ids are used again. `LoadTask` has the outcomes of the unlocked read:
the runtime detects the concurrent write of the map and ends the process, the
id is missing and the nil task panics, or the lookup succeeds. `PanicInNewTicker` is
the first statement of the goroutine, `time.NewTicker(interval)`, for an interval that is not positive:
`StartTask` looks at no interval, and only a caller other than `main`, which gives 5 s, can cause it.

**BatchGroups.** One call of determineBatchGroups at a time, for each model of
the configuration: `BeginGroups` (with `validatePoints` and the sort, which
is not stable: any sorted order), then `ExtendGroup` or `NewGroup` for each
point, and `LastGroup`. The groups are printed (`PrintGroups`) and dropped. The code knows no limit on
the size of a group, and neither has the model: a group may exceed the 125
registers of one Modbus request.

**CollectorMain** is the program: `load` (in which BatchGroups takes its steps, or
the program exits), `add`, `start`, `wait` for a signal, `stop`, `exited`. Its loops
range over maps, hence in any order (`todo`). Each call it makes is an action of Collector
taken together with its own. With `main = "library"` the same specification has the
calls in any order instead, so that the properties of the
Collector do not depend on what this one program happens to do.

**DeviceManager.** `writer` and `readers` are the RWMutex, as Go has it: a writer
that has announced itself keeps new readers `blocked` until it is done, and
waits itself (`drain`) for those inside. CollectAll is `SpawnCollect` and `StoreValues`
for each device, `Wait` and `RUnlock`; its WaitGroup is `wg`. A device is the
configuration it was registered with.

Definitions marked *Seeded bug* are variants of an action that a mistake in the
code would produce. No specification uses them; each was put in the place of
its original once to see that a property notices.

## 3. The runs

The sizes are the numbers of distinct states. The values of the
constants are in the `.cfg` files and the MC modules.

| Run | Question | Instance and bounds | States |
|---|---|---|---|
| `pipeline_delivery` | is a result lost, duplicated or overtaken? are intervals kept, is every device served, does everything end? | 1 pipeline of up to 3 devices with intervals 1, 2, 2, 2 parse workers, `RawCap` 2, `MaxTime` 4; any list, stops at any moment | 42 838 |
| `pipeline_wait` | does waiting for the pool wait for all? (it does not) | 2 pipelines, `RawCap` 1 | violated |
| `manager_reload` | does a reload leave orphans, mixtures or panics? is the last content loaded in the end? is the manager the owner CollectPipeline assumes? | 2 buses, 2 contents, 4 workers, 1 save, 1 direct call, the watcher | 456 872 |
| `manager_onebus` | is a bus polled by one worker at a time? (it is not) | 3 workers, 1 bus in use | violated |
| `device_paths` | one request on the wire, snapshots, FIFO service; is every write answered? | 2 queued writes, 1 synchronous, a scanning and a parallel caller for ever, 2 points of which one is write-only, `QueueCap` 1 | 46 828 |
| `device_parallel` | are parallel results complete, does no goroutine outlive its call, does every call return? | 1 queued write, 1 synchronous, a scanning and a parallel caller for ever, 2 points that are read in parallel and a write-only one | 29 988 |
| `registry_collect` | does CollectAll return all devices, and do registrations, lookups and collections end? | 3 configurations of 2 names, one of them with an unknown adapter; 2 collecting callers and 1 looking up, for ever | 17 618 |
| `bus_service` | overtaking, stopping, FIFO service, answers, what a poll asks for, why it may panic | 2 requests (1 refused), 1 poller for ever, `CtrlCap` 1, `PollCap` 1, 2 devices, 6 points (some of two registers) in 3 regions and an unknown function | 77 704 |
| `bus_priority` | does a request go before a poll? (not always) | 2 requests, `CtrlCap` 1 | violated |
| `bus_coverage` | does a poll ask for all registers of a point? (not for those after the first) | the points of `example/bms.json`, with an `rw` | violated |
| `collector_tasks` | orphans, foreign stops, reconnects, panics before the shutdown, ends of goroutines, shutdown of the program, grouping | 4 devices (2 made, 1 nil, 1 refused), with good parameters or one with bad ones, 2 ids, 2 runs, `ChanCap` 1, 4 models of up to 4 points; the program and any other | 698 036 |
| `collector_stop` | does stopping a task leave the process alive? (not always) | the same, the program alone | violated |

Why the bounds are enough. Every channel is full with one or two elements, so that all
blocking sends block and, with capacity 2, order matters. `MaxTime` 4 with intervals 1 and 2
gives rounds in which a device is due, is not due, is late, and has been passed over. A
hand-over of workers needs an old and a new set: with two buses, a save and a direct call
beside the watcher, four workers are enough for all the reloads that can happen. With
`MaxTime` 0 the workers of this run only wait and leave: rounds in between make it too large
by a factor of ten and more. A reload does not wait for a worker and looks at none of a
worker's variables, and the safety properties are proved with rounds and without;
`manager_onebus` has the rounds (`MaxTime` 1). Two runs are enough for one id to be used by
two of them, and for a device with two tasks; a queue of one request allows one in hand, one
waiting and one blocked. Two points that are read in parallel (`device_parallel`) are the
least for which the goroutines of one call can end in either order, and the first can end
before the second is added; `device_paths` has one at a time, in return for a second queued
write. Two names are the least for which a CollectAll can have a device whose goroutine has
ended and one that still runs. Points: gaps between regions, a register that may only be
written in a gap, points of 1, 2 and 4 registers, equal addresses, overlaps, and the end of
the 16-bit address space for the groups; for the batches gaps, points of two registers, and
two devices. Where a theorem of section 5 covers a safety property, the bounds no longer
matter to it.

`CHECK_DEADLOCK FALSE` stands in the runs whose system may rightly stop: the
bounded clock, the file saves, the requests or the runs are used up, or the
process has ended. The liveness runs use no symmetry; in `manager_onebus` the
pipelines are interchangeable.

## 4. Fairness

* Every goroutine that can go on does so (weak fairness of its steps): the Go
  scheduler is preemptive and runs every runnable goroutine.
* A select that has several ready cases chooses one of them at random. A case
  that is ready again and again is taken: strong fairness of `ExitPipeline`,
  `ExitParser`, `Quit`, `TakePoll`. It is *not* assumed of `EndRun` in Collector:
  a stopped goroutine that takes its ticks for ever comes back to a missing id.
* `sync.Mutex` turns to hand-over when a waiter has starved for a millisecond;
  senders that are blocked on a channel are queued: strong fairness of `Lock`,
  of `BeginReload`/`FailReload`, of `Enqueue`, `EnqueueControl`, `EnqueuePoll`
  and `Send`. A ParCaller of ModbusDevice has no mutex to wait for, only its
  goroutines have.
* A `sync.RWMutex` keeps new readers out while a writer waits, and lets all
  readers in that waited when it unlocks; DeviceManager has this in its actions
  and needs strong fairness only between writers, which compete for a mutex. A
  `Register` waits at most for the readers that are inside.
* The tickers tick, network calls return (every handler has a timeout), and
  `parsedHandler` returns.
* Nobody is obliged to call, to start a pipeline, to save the file, to stop
  anything or to send a signal to the program: `FairMainSpec` obliges the calls that are
  under way, the goroutines of the collector and the consumer, and not `main`. The parse pool and the bus worker are started: without them nothing
  drains the channels, and nothing could be said.

## 5. The proofs

All theorems hold for every value of the constants that satisfies the named assumptions
(`ConstantsAssumption`, `ParserAssumption`, `ManagerAssumption`, `DeviceAssumption`,
`BusAssumption`, `CollectorAssumption`, `MainAssumption`, `ModelsAssumption`,
`RegistryAssumption`: capacities are positive, the "nobody" values are not members, lists
are sequences, the parse workers and the points of a bus are finitely many, every device
that can be made has a task id of its own). TLC evaluates them on every instance.

Four theorems have a hypothesis beside these, about the data the program is run
with and never about what it does; without it each is false, and the code checks none of them:

| Hypothesis | Theorem | Why it is needed |
|---|---|---|
| `UniqueNamesInLists` | `EveryDeviceServed` | `lastCollect` is keyed by the name: the second device of a name is never collected while the first has the same pace |
| `UniqueNamesInFile` | `ManagerServesEveryDevice` | the same, of the entries of the file |
| `AddressesFit` | `PollReadsFirstRegisters` | the address of a point is an `int`, and 65536 is cut to 0, -1 to 65535 |
| `LeavesAGap` | `PollReadsFirstRegisters` | a region of all 65536 registers has quantity 0 modulo 2^16 |
| `LeavesARegister` | `GroupsReadExactly` | a group that wraps around the whole address space reads 0 registers too |

`LeavesAGap` counts first registers only, as does the theorem: the code takes every point of a bus
for one register wide. That the further registers of a point are read is not claimed; it is
false (`bus_coverage`).

TLC evaluates the last three on the instances (`PointsAssumption`,
`FreeRegisterAssumption`); the names of `pipeline_delivery` and
`manager_reload` differ by their definitions.

**DataLemmas.** `LeastNatural` is the well-foundedness of the naturals, from which come
`Induction`, stated with a set in the place of a predicate, `LeastOfFinite`, a finite set has an element of the least value,
and `Loops`/`Recursion`: a
function given by its value at 0 and by a step from k - 1 to k exists. With these
a loop over data is reasoned about as its code is: by an invariant of the
loop (`LoaderGroups`, `PollReadsFirstRegisters`, `GroupsReadExactly`). The rest are facts about FIFO queues.

**CollectPipelineProofs.** `TypeCorrect`: with `TypeOK` one needs that `idx`
stays inside the list while a device is handled and that a worker holds a result
exactly while it handles. `DeliveredExactlyOnce`: the
invariant adds that everything sent is older than the result that is about to be
sent (`Fresh`) and that the channel is ordered for each pipeline; without `Fresh`
a result could be equal to one already handled. `OvertakingIsBounded`: of the results that are older
than a given handled one, those not yet handled are in the hands of workers, since a younger one
leaves the channel only after them, and one worker at least has none of them
(`SomeWorkerBehind`): the one that has handled the given result, or whoever has
since taken something younger. `PaceRespected`: `lastCollect`
is at least as new as every result of that name (`LastNewest`), and a
device that was due still is when the result is sent. `EveryDeviceServed`:
each recorded time is witnessed by
a result of that very device, and the devices a round has passed are served. The
argument uses only that the names of the lists at work differ (`UniqueNamesAtWork`),
so that the manager can supply it for the lists its loader makes. `LeavesWhenTold`: a pipeline is done
only if its stop channel has been closed.

**BusManagerProofs.** `ManagerImplementsOwner`: each step of the manager with its workers
is a step of CollectPipeline or leaves its variables alone, whence
the theorems above hold for the composition (`ManagerDelivers`). `NoOrphans` and `NoDoubleClose`: a
worker is registered under one bus only, every live worker is registered, and a
registered channel is open unless someone outside closed one; `UnderLock` says which
parts of this only the holder of the lock may disturb. `LoaderGroups`: by induction over the
entries, the loader puts on the list of a bus exactly the devices of that bus with a known
adapter. `OneLiveWorker` follows: the lists of
two registered workers belong to different buses. `ReloadAllOrNothing` adds
what the map, the list of buses still to start and the loaded content have in
common half-way (`HalfWay`), and, for the last part of `NoMixture`, that what was read
last is what the file holds once the watcher has taken up its last event
(`UpToDate`). Both together give `QuietMeansCurrent`: when no reload is at work and none is
due, the live workers are those of the file, one for each bus, each with that bus's list. It is the safety half of
`Converges`: what is left to fairness is that the quiet comes.
`ManagerServesEveryDevice`: the lists at work are lists of the loader, whose names
differ if those of the file do.

**ModbusDeviceProofs.** `OneRequest`: whoever is in `io` holds `d.mu`.
`ScanIsSnapshot`: with it, a write cannot fall into a scan. `NoStrayReader`,
`NothingMissing`: `wg` is the number of goroutines of the call that
run (`ReadersInv`), and the points the loop has passed either have a running
goroutine or an entry (`ResultsInv`); hence `wg = 0` means complete.
`DeviceImplementsService`: queue and request in hand contain each request once, with no answer yet, and
only the one in hand can have been performed (`QueueInv`). `NothingForgotten`
(`Kept`): an accepted request is never outside the queue, the hand and the
answers. `DeviceNeverStuck`: while a call is under way some goroutine can go on. The
proof finds it: if `d.mu` is held, its holder; if not, whoever waits
for it; else a parallel caller whose goroutines have all ended, or the
queue is not empty and the worker not busy. `CanGoOn` lists the guards of
the steps, as ENABLED is out of the prover's reach; that the two agree was checked with TLC.

**ModbusBusProofs.** `OvertakenOnce`: the worker enters the inner select with an
empty queue only, so whatever is in the queue while it is there has not been
overtaken yet, and a request that is still being sent cannot have been
(`NotYetOvertaken`). `OneMorePollAfterStop`: likewise it enters the inner select
only while `quitQ` is open (`OneLatePoll`). `PanicsHaveACause`: an adapter that
is opened has its client, through every connect, close and write that fails, so that a
nil client belongs to a device that has never been connected. `PollReadsFirstRegisters`: from the first address of a region to its
last there is no hole (induction over the distance), the quantity is the number of its
addresses as long as that is below 2^16, and a poll has read a region as a whole or not at all
(`WholeRegions`). `PollNeverStuck`: some unread point has the least address
of its function (`LeastOfFinite`), for any order of the functions. `NothingForgotten` and `BusImplementsService` are proved as
for the device.

**CollectorProofs.** `IInv` says of what is registered that it was started under
that id and is cancelled exactly while its deletion is under way (`MapInv`); of a goroutine that
is not cancelled, that it is registered and waits for its own context
(`RunInv`); of the device of a registered task, that it is connected (`ConnectedInv`).
`NoOrphanRuns`, `NoForeignStop` and `NoUsefulReconnect` are read off it. The
argument is about the lock-free readers: they are safe as long as they have not been told to
stop, and only then: the nil dereference that refutes `StopNeverPanics` takes a goroutine that has been told to
stop (`OnlyStoppedRunsMissTheirTask`). It says nothing of the other ends of the process, those
in Connect and NewTicker, the nil device and the concurrent map access.

**CollectorMainProofs.** `MainUsesCollector`: each step of the program is a step
of Collector or leaves its variables alone, whence the theorems above hold for the program
(`MainKeepsItsTasks`).
`NothingLeftRunning`: the tasks that remain during the shutdown
loop belong to devices whose turn is still to come or to the one at work
(`ShutdownInv`). `DisconnectDevice` returns early for a device that is not
connected; that such a device has no tasks is `ConnectedInv` of the collector,
which is why the loop misses none. `SafeBeforeShutdown`: nothing is stopped before the signal
(`NothingStopped`), so a missing task can end the program only
in its shutdown; and while it waits for the signal no call is under way that could change the map, connect a
device or start a goroutine, so that nothing modelled ends it.
`GroupsReadExactly`: the invariant of the grouping loop says that the
groups made so far and the one at work hold the points before `next`, each once and in order, and that
the one at work reads the registers of its points and ends where the last of them does (`GroupInv`).

**DeviceManagerProofs.** `CollectsTheRegistry`: whoever reads holds the lock
(`LockInv`), so that the map cannot change under a CollectAll; what its loop has
passed is being collected or in the result, `wg` is the number of its goroutines, and what
it returned stays registered, as nothing is ever replaced (`NeverReplaced`).
`RegistryNeverStuck`: a blocked reader waits for a writer, a writer for
readers that are inside, and a reader inside only for its own goroutines (`WriterInv`); `CanGoOn`
is as in ModbusDevice.

`QuietIsCurrent`, `NoneForgotten`, `NeverStuck`, `PollGoesOn` and
`MissedOnlyWhenStopped` stand beside the properties of the runs as theorems: TLC agreed
to each on the instances before it was proved, and no run of section 3 repeats them.

**Only model-checked:** the liveness properties (`StopLeadsToExit`,
`SentLeadsToHandled`, `Converges`, `ControlAnswered`, `CallsReturn`, `StopReturns`,
`ServedUnlessStopped`, `RegistryCallsReturn`, `StoppedRunEnds`), which need
fairness; what is proved towards them, for the device, the bus and the device manager, is
a safety core: nothing is forgotten, nobody waits in a circle, a poll goes on. The violated
properties no proof could show. Every safety property of a passing run is a theorem.

## 6. What the work found

1. `pipeline_wait`: the comment of `StartParseWorkerPool` promises that the wait
   group waits for all collecting threads; it counts parse workers only.
2. `manager_onebus`: a reload starts the new worker of a bus while the old one is
   in the middle of a round; both use the bus. `OneLiveWorkerPerBus` says what
   does hold: at most one of them has not been told to stop.
3. `bus_priority`: the inner select gives a control request no priority.
   `AtMostOneOvertakes` says what is left: one poll, never two.
4. `bus_coverage`: the poll looks at the address of a point and not at its
   quantity. Of the two `float32` points of `example/bms.json`, at 0 and 2 with
   two registers each, it asks for one register each once they have an `rw`, although the comment says
   that the groups cover their points. `ReadsFirstRegisters` says what is read.
5. `collector_stop`: the goroutine of a stopped task evaluates
   `c.tasks[taskID].ctx.Done()` once more and dereferences nil. The goroutine is
   safe only if it is waiting in the select when the task is stopped.
   `MissedOnlyWhenStopped` and `SafeUntilSignal` say what is left: no other task can
   suffer this, and the program not before its shutdown.

The models contain more that a reader of the code should know, without a run of its own:

* BatchRead does not connect, and nothing but a write connects the adapters of a bus: a poll
  before it calls a nil client (`BatchReadPanics`). `PanicHasCause` says that this, and points that
  cannot be grouped, are the only ways a poll panics.
* `main` calls GetInfo on what CreateDevice returns, also when this is nil
  (`PanicOnNilDevice`): one device without points or of a protocol without implementation keeps
  the whole program from starting.
* A host or port that is missing or of another type ends the process in Connect (`PanicInConnect`), an interval
  that is not positive in the goroutine of the task (`PanicInNewTicker`).
* determineBatchGroups may make a group larger than one Modbus request. The groups are only printed.

Beside these, `OnlyStoppedRunsReconnect` shows that the reconnect in `collectTask`
never helps a task that is wanted: nothing resets `connected` when a connection
is lost, so only a goroutine that has been stopped ever gets there.

## 7. What is left out, and the plan

**Not modelled**, and why:

* the bytes, their decoding and parameters (`parseRaw`, `mergeParams`, `parseUint16`,
  the dispatch of `Read` and `Write` by function): pure functions of data no
  property here tells apart. `internal/util/decoder.go` is called by nobody;
* protocol and driver registries: maps filled by `init` before any goroutine
  runs, in BusManager by their effect (`AdapterKnown`). The CAN adapter is a stub;
* dispatchers and uploaders: I/O behind `parsedHandler`, which is the step `Handle`.
  `SetDefaultType` writes without a lock what the parse workers read; nothing calls it while they run;
* the files: JSON decoding is reduced to whether it succeeds, a save to writing in place. What
  renaming a new file over the old one or a bare file name do to the watcher is named
  among the hazards and kept out of `Converges` (`NameMatches`);
* the period of the tickers, logging, flags; `ModbusDevice.Write` of the first version, which
  nobody calls; the goroutines and connections each reload leaves behind;
* `cmd/appL1`, which prints a line; tests and examples, except as the callers they
  are; the conversion script, configuration data, and adapters that are not compiled.

The adapter of ModbusBus has its connection (ModbusAdapter); that of ModbusDevice is a
memory that may fail, which includes a failed connect. No code puts one device into a
bus and a pipeline, and the two are not composed.

Done, in this order: CollectPipeline → BusManager (composition) → ModbusDevice
and ModbusBus with ControlService → Collector → ModbusAdapter and the batches of
ModbusBus → BatchGroups and CollectorMain (composition) → DeviceManager, each
with its instance and proofs. What would come next:

1. ModbusDevice over ModbusAdapter: `Read` and `Write` connect, and concurrent
   connects are kept apart by `d.mu` only. It would bring a flag for each
   adapter into the four paths; the state space grows by that factor.
2. More of the safety cores: that the bus worker and the pipelines, too, never
   wait in a circle, and that a CollectAll or a stopped run makes progress with each of its steps
   (a measure that falls), which leaves only the fairness itself to TLC.
3. A reload that disconnects the adapters it drops, once the code does.
