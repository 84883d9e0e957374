------------------------------ MODULE ModbusBus ------------------------------
(***************************************************************************)
(* cycV2/internal/bus/modbus_bus.go: the worker goroutine of a ModbusBus,  *)
(* which serves a queue of control requests and, when there is none, polls *)
(* all devices on a tick of its ticker or on request.                      *)
(*                                                                         *)
(* The loop is a select in a select: the outer one takes the quit channel  *)
(* or a control request, and falls through to the inner one when neither   *)
(* is ready; the inner one waits for a control request, a tick or a poll   *)
(* request, and looks neither at the quit channel nor at any priority.     *)
(*                                                                         *)
(* A poll (doBatchCollect) cuts the readable points of each device into    *)
(* batches of adjacent addresses and reads them one by one; what it reads  *)
(* is printed and left out. It looks at the address of a point, an int     *)
(* that it cuts down to 16 bits, and not at the number of its registers. A *)
(* panic in the worker ends the process. A request is refused when         *)
(* handleControl does not know its device, its point or the type of its    *)
(* value. The fallback of handleControl to Adapter.Write is dead code:     *)
(* ModbusAdapter has WriteModbus. Before it starts the bus the program may *)
(* connect and disconnect the adapters; what other goroutines do to them   *)
(* later would race with the worker.                                       *)
(***************************************************************************)
EXTENDS Integers, Sequences, FiniteSets, Functions, ModbusAdapter

CONSTANTS
  Task,     \* calls of ControlAsync
  Refused,  \* those handleControl refuses
  Poller,   \* goroutines that call EnqueuePoll, again and again
  CtrlCap,  \* capacity of ctrlQ (8 in the code)
  PollCap,  \* capacity of pollQ (16 in the code)
  Devices,  \* b.Devices, a sequence
  Target,   \* the device of each request that is not refused
  Points,   \* the points of the devices: a set of [dev, func, addr, num, rw], with
            \* num the quantity of registers a point takes
  Ungroupable, \* those whose Params have no int address or no string func
  NoTask    \* the worker has no request in hand

Device == Range(Devices)

UintSize == 65536
Uint16   == 0..(UintSize - 1)

ASSUME BusAssumption ==
  /\ Refused \subseteq Task
  /\ CtrlCap \in Nat \ {0}
  /\ PollCap \in Nat \ {0}
  /\ Devices = <<>> \/ Devices \in Seq(Device)
  /\ Target \in [Task -> Device]
  /\ Points \subseteq [dev : Device, func : STRING, addr : Int, num : Nat \ {0}, rw : STRING]
  /\ IsFiniteSet(Points)
  /\ Ungroupable \subseteq Points
  /\ NoTask \notin Task

VARIABLES
  worker,    \* where the worker goroutine is
  ctrlQ,     \* control requests
  pollQ,     \* number of poll requests (they carry nothing)
  quitQ,     \* TRUE once quitQ is closed
  tick,      \* a tick waits in ticker.C
  task,      \* the request in hand
  failed,    \* it was refused or its write returned an error
  adapter,   \* the adapter of each device
  unread,    \* points this poll has still to get to
  batch,     \* the batch read last in this poll
  respCh,    \* what the response channel of each request has been given
  phase,     \* where each call of ControlAsync is
  poller,    \* where each call of EnqueuePoll is
  stopper,   \* where the call of Stop is
  applied,   \* history: requests whose write has reached the slave
  overtaken, \* history: polls begun while the request waited in ctrlQ
  latePolls  \* history: polls begun after quitQ was closed

queueVars   == <<ctrlQ, pollQ, quitQ, tick>>
controlVars == <<task, failed, respCh, applied>>
pollVars    == <<unread, batch>>
callVars    == <<phase, poller, stopper>>
historyVars == <<overtaken, latePolls>>
vars == <<worker, queueVars, controlVars, adapter, pollVars, callVars, historyVars>>

WorkerStates ==
  {"off", "outer", "inner", "handle", "answer", "poll", "done", "panicked"}

\* BatchGroup, and the device that is asked for it.
Batch   == [dev : Device, func : STRING, start : Uint16, quantity : Uint16]
NoBatch == [func |-> ""]

Readable == {p \in Points : p.rw \in {"r", "rw"}}

BusTypeOK ==
  /\ worker \in WorkerStates
  /\ ctrlQ \in Seq(Task)
  /\ Len(ctrlQ) <= CtrlCap
  /\ pollQ \in 0..PollCap
  /\ quitQ \in BOOLEAN
  /\ tick \in BOOLEAN
  /\ task \in Task \cup {NoTask}
  /\ failed \in BOOLEAN
  /\ adapter \in [Device -> Adapter]
  /\ unread \in SUBSET Readable
  /\ batch \in Batch \cup {NoBatch}
  /\ respCh \in [Task -> {"none", "ok", "error"}]
  /\ phase \in [Task -> {"new", "sending", "sent"}]
  /\ poller \in [Poller -> {"idle", "sending"}]
  /\ stopper \in {"idle", "wait", "returned"}
  /\ applied \in SUBSET Task
  /\ overtaken \in [Task -> Nat]
  /\ latePolls \in Nat

Init ==
  /\ worker = "off"
  /\ ctrlQ = <<>>
  /\ pollQ = 0
  /\ quitQ = FALSE
  /\ tick = FALSE
  /\ task = NoTask
  /\ failed = FALSE
  /\ adapter = [d \in Device |-> NewModbusAdapter]
  /\ unread = {}
  /\ batch = NoBatch
  /\ respCh = [t \in Task |-> "none"]
  /\ phase = [t \in Task |-> "new"]
  /\ poller = [p \in Poller |-> "idle"]
  /\ stopper = "idle"
  /\ applied = {}
  /\ overtaken = [t \in Task |-> 0]
  /\ latePolls = 0

-----------------------------------------------------------------------------
(* The program around the bus.                                             *)

\* A panic in the worker ends the process.
Running == worker # "panicked"

ConnectAdapter(d) ==
  /\ worker = "off"
  /\ \E c \in Connect(adapter[d]) : adapter' = [adapter EXCEPT ![d] = c.adapter]
  /\ UNCHANGED <<worker, queueVars, controlVars, pollVars, callVars, historyVars>>

DisconnectAdapter(d) ==
  /\ worker = "off"
  /\ \E c \in Disconnect(adapter[d]) : adapter' = [adapter EXCEPT ![d] = c.adapter]
  /\ UNCHANGED <<worker, queueVars, controlVars, pollVars, callVars, historyVars>>

ControlAsync(t) ==
  /\ Running
  /\ phase[t] = "new"
  /\ phase' = [phase EXCEPT ![t] = "sending"]
  /\ UNCHANGED <<worker, queueVars, controlVars, adapter, pollVars, poller, stopper, historyVars>>

\* Seeded bug: the queue grows without limit.
EnqueueControl_Unbounded(t) ==
  /\ Running
  /\ phase[t] = "sending"
  /\ ctrlQ' = Append(ctrlQ, t)
  /\ phase' = [phase EXCEPT ![t] = "sent"]
  /\ UNCHANGED <<worker, pollQ, quitQ, tick, controlVars, adapter, pollVars, poller, stopper,
                 historyVars>>

\* The send blocks the caller while the queue is full, also when the worker
\* has gone.
EnqueueControl(t) ==
  /\ Running
  /\ phase[t] = "sending"
  /\ Len(ctrlQ) < CtrlCap
  /\ ctrlQ' = Append(ctrlQ, t)
  /\ phase' = [phase EXCEPT ![t] = "sent"]
  /\ UNCHANGED <<worker, pollQ, quitQ, tick, controlVars, adapter, pollVars, poller, stopper,
                 historyVars>>

CallEnqueuePoll(p) ==
  /\ Running
  /\ poller[p] = "idle"
  /\ poller' = [poller EXCEPT ![p] = "sending"]
  /\ UNCHANGED <<worker, queueVars, controlVars, adapter, pollVars, phase, stopper, historyVars>>

EnqueuePoll(p) ==
  /\ Running
  /\ poller[p] = "sending"
  /\ pollQ < PollCap
  /\ pollQ' = pollQ + 1
  /\ poller' = [poller EXCEPT ![p] = "idle"]
  /\ UNCHANGED <<worker, ctrlQ, quitQ, tick, controlVars, adapter, pollVars, phase, stopper,
                 historyVars>>

\* Seeded bug: Stop waits for the worker before it closes quitQ.
Stop_WaitsFirst ==
  /\ Running
  /\ stopper = "idle"
  /\ stopper' = "wait"
  /\ UNCHANGED <<worker, queueVars, controlVars, adapter, pollVars, phase, poller, historyVars>>

\* Stop closes quitQ and then waits for the worker. (A second call panics.)
Stop ==
  /\ Running
  /\ stopper = "idle"
  /\ quitQ' = TRUE
  /\ stopper' = "wait"
  /\ UNCHANGED <<worker, ctrlQ, pollQ, tick, controlVars, adapter, pollVars, phase, poller,
                 historyVars>>

ReturnFromStop ==
  /\ stopper = "wait"
  /\ worker \in {"off", "done"}
  /\ stopper' = "returned"
  /\ UNCHANGED <<worker, queueVars, controlVars, adapter, pollVars, phase, poller, historyVars>>

-----------------------------------------------------------------------------
(* The worker goroutine.                                                   *)

Start ==
  /\ worker = "off"
  /\ worker' = "outer"
  /\ UNCHANGED <<queueVars, controlVars, adapter, pollVars, callVars, historyVars>>

\* ticker.C holds one tick; further ones are dropped.
Tick ==
  /\ worker \notin {"off", "done", "panicked"}
  /\ tick' = TRUE
  /\ UNCHANGED <<worker, ctrlQ, pollQ, quitQ, controlVars, adapter, pollVars, callVars, historyVars>>

Quit ==
  /\ worker = "outer"
  /\ quitQ
  /\ worker' = "done"
  /\ UNCHANGED <<queueVars, controlVars, adapter, pollVars, callVars, historyVars>>

\* Both selects take a control request; with quitQ closed as well, the outer
\* one may take either.
TakeControl ==
  /\ worker \in {"outer", "inner"}
  /\ ctrlQ # <<>>
  /\ task' = Head(ctrlQ)
  /\ ctrlQ' = Tail(ctrlQ)
  /\ worker' = "handle"
  /\ UNCHANGED <<pollQ, quitQ, tick, failed, respCh, applied, adapter, pollVars, callVars,
                 historyVars>>

\* Seeded bug: one select, with the control request a case like the others.
FallThrough_IgnoresControl ==
  /\ worker = "outer"
  /\ ~quitQ
  /\ worker' = "inner"
  /\ UNCHANGED <<queueVars, controlVars, adapter, pollVars, callVars, historyVars>>

\* Seeded bug: the outer select does not look at quitQ before the default.
FallThrough_IgnoresQuit ==
  /\ worker = "outer"
  /\ ctrlQ = <<>>
  /\ worker' = "inner"
  /\ UNCHANGED <<queueVars, controlVars, adapter, pollVars, callVars, historyVars>>

FallThrough ==
  /\ worker = "outer"
  /\ ~quitQ
  /\ ctrlQ = <<>>
  /\ worker' = "inner"
  /\ UNCHANGED <<queueVars, controlVars, adapter, pollVars, callVars, historyVars>>

BeginPoll ==
  /\ worker' = "poll"
  /\ unread' = Readable
  /\ batch' = NoBatch
  /\ overtaken' = [t \in Task |->
                     IF t \in Range(ctrlQ) THEN overtaken[t] + 1 ELSE overtaken[t]]
  /\ latePolls' = IF quitQ THEN latePolls + 1 ELSE latePolls

TakeTick ==
  /\ worker = "inner"
  /\ tick
  /\ tick' = FALSE
  /\ BeginPoll
  /\ UNCHANGED <<ctrlQ, pollQ, quitQ, controlVars, adapter, callVars>>

TakePoll ==
  /\ worker = "inner"
  /\ pollQ > 0
  /\ pollQ' = pollQ - 1
  /\ BeginPoll
  /\ UNCHANGED <<ctrlQ, quitQ, tick, controlVars, adapter, callVars>>

\* groupPointsByFuncAndRegion: readable points of one device with the same
\* func, sorted by address, are in one region unless an address is missing
\* between them.
SameRegion_Gap(p, q) ==
  /\ p.dev = q.dev
  /\ p.func = q.func
  /\ \A a \in (p.addr + 1)..(q.addr - 1) \cup (q.addr + 1)..(p.addr - 1) :
       \E r \in Readable : r.dev = p.dev /\ r.func = p.func /\ r.addr \in {a, a + 1}

SameRegion(p, q) ==
  /\ p.dev = q.dev
  /\ p.func = q.func
  /\ \A a \in (p.addr + 1)..(q.addr - 1) \cup (q.addr + 1)..(p.addr - 1) :
       \E r \in Readable : r.dev = p.dev /\ r.func = p.func /\ r.addr = a

Region(p) == {q \in Readable : SameRegion(p, q)}

\* Devices are polled in their order, and grouped when their turn comes.
Polled(d) ==
  \E i \in DOMAIN Devices :
    /\ Devices[i] = d
    /\ \E p \in unread : p.dev = d
    /\ \A j \in 1..(i - 1) : \A p \in unread : p.dev # Devices[j]

GroupingPanics(d) == \E p \in Ungroupable \cap unread : p.dev = d

Begun(p) == batch # NoBatch /\ batch.dev = p.dev /\ batch.func = p.func

\* p is the first point of the batch that is read next: the regions of a func
\* are read by address, the funcs of a device in any order (that of a map).
NextBatchAt(p) ==
  /\ p \in unread
  /\ Polled(p.dev)
  /\ \A q \in unread : q.dev = p.dev =>
       IF q.func = p.func THEN p.addr <= q.addr ELSE ~Begun(q)

\* The batch runs from the first to the last address of the region, whatever
\* num is; uint16(start) and uint16(end - start + 1) keep the low 16 bits of an
\* int. An error of a batch read is printed and the next batch is read.
ReadBatch(p) ==
  /\ worker = "poll"
  /\ NextBatchAt(p)
  /\ ~GroupingPanics(p.dev)
  /\ ~BatchReadPanics(adapter[p.dev], p.func)
  /\ batch' = [dev |-> p.dev, func |-> p.func, start |-> p.addr % UintSize,
                quantity |-> Cardinality({q.addr : q \in Region(p)}) % UintSize] \* end - start + 1
  /\ unread' = unread \ Region(p)
  /\ UNCHANGED <<worker, queueVars, controlVars, adapter, callVars, historyVars>>

\* A type assertion fails in the grouping, or BatchRead calls a nil client.
PanicInPoll(p) ==
  /\ worker = "poll"
  /\ NextBatchAt(p)
  /\ GroupingPanics(p.dev) \/ BatchReadPanics(adapter[p.dev], p.func)
  /\ worker' = "panicked"
  /\ UNCHANGED <<queueVars, controlVars, adapter, pollVars, callVars, historyVars>>

EndPoll ==
  /\ worker = "poll"
  /\ unread = {}
  /\ worker' = "outer"
  /\ batch' = NoBatch
  /\ UNCHANGED <<queueVars, controlVars, adapter, unread, callVars, historyVars>>

\* Seeded bug: a refused request gets no answer.
Refuse_Silently ==
  /\ worker = "handle"
  /\ task \in Refused
  /\ task' = NoTask
  /\ worker' = "outer"
  /\ UNCHANGED <<queueVars, failed, respCh, applied, adapter, pollVars, callVars, historyVars>>

\* Seeded bug: a refused request is answered with a nil error.
Refuse_WithoutError ==
  /\ worker = "handle"
  /\ task \in Refused
  /\ failed' = FALSE
  /\ worker' = "answer"
  /\ UNCHANGED <<queueVars, task, respCh, applied, adapter, pollVars, callVars, historyVars>>

\* Unknown device, unknown point, or a value that is neither uint16 nor bytes.
Refuse ==
  /\ worker = "handle"
  /\ task \in Refused
  /\ failed' = TRUE
  /\ worker' = "answer"
  /\ UNCHANGED <<queueVars, task, respCh, applied, adapter, pollVars, callVars, historyVars>>

WriteModbus ==
  /\ worker = "handle"
  /\ task \notin Refused
  /\ \E o \in WriteOutcomes(adapter[Target[task]]) :
       /\ adapter' = [adapter EXCEPT ![Target[task]] = o.adapter]
       /\ applied' = IF o.reaches THEN applied \cup {task} ELSE applied
       /\ failed' = o.err
  /\ worker' = "answer"
  /\ UNCHANGED <<queueVars, task, respCh, pollVars, callVars, historyVars>>

Answer ==
  /\ worker = "answer"
  /\ respCh' = [respCh EXCEPT ![task] = IF failed THEN "error" ELSE "ok"]
  /\ task' = NoTask
  /\ failed' = FALSE
  /\ worker' = "outer"
  /\ UNCHANGED <<queueVars, applied, adapter, pollVars, callVars, historyVars>>

handleControl  == Refuse \/ WriteModbus \/ Answer
doBatchCollect == EndPoll \/ \E p \in Readable : ReadBatch(p) \/ PanicInPoll(p)

WorkerStep ==
  Quit \/ TakeControl \/ FallThrough \/ TakeTick \/ TakePoll
    \/ handleControl \/ doBatchCollect

-----------------------------------------------------------------------------

Next ==
  \/ \E d \in Device : ConnectAdapter(d) \/ DisconnectAdapter(d)
  \/ \E t \in Task : ControlAsync(t) \/ EnqueueControl(t)
  \/ \E p \in Poller : CallEnqueuePoll(p) \/ EnqueuePoll(p)
  \/ Stop \/ ReturnFromStop
  \/ Start \/ Tick
  \/ WorkerStep

\* Go schedules every runnable goroutine, the ticker ticks for as long as the
\* worker lives, and senders blocked on a channel are served in turn. A select
\* with several ready cases picks one at random, so none is passed over for
\* ever: strong fairness for Quit and TakePoll. Start, Stop and the calls are
\* up to the program; the liveness properties suppose that Start is called and
\* end with the process.
Fairness ==
  /\ WF_vars(Start)
  /\ WF_vars(Tick)
  /\ WF_vars(WorkerStep)
  /\ SF_vars(Quit)
  /\ SF_vars(TakePoll)
  /\ \A t \in Task : SF_vars(EnqueueControl(t))
  /\ \A p \in Poller : SF_vars(EnqueuePoll(p))
  /\ WF_vars(ReturnFromStop)

Spec     == Init /\ [][Next]_vars
FairSpec == Spec /\ Fairness

-----------------------------------------------------------------------------
(* Properties.                                                             *)

\* "控制高优先级", "再次优先取控制": a poll does not begin while a control request
\* waits. The code breaks this: the inner select has no priorities.
ControlFirst == [][worker' = "poll" => worker = "poll" \/ ctrlQ = <<>>]_vars

\* What the nesting does give: while a request waits in the queue, at most
\* one poll begins, however many other requests, ticks and polls compete.
AtMostOneOvertakes == \A t \in Task : overtaken[t] <= 1

\* Once quitQ is closed at most one more poll begins: the worker that was in
\* the inner select wakes up for it, and never falls through again.
AtMostOneLatePoll == latePolls <= 1

\* What a poll asks for: the points it passes over are those whose first
\* register the batch asks for, no register is asked for that is not the first
\* one of such a point, and no point is left for another batch.
Registers(b) == b.start..(b.start + b.quantity - 1)
ReadsFirstRegisters ==
  [][worker = "poll" /\ unread' # unread =>
       /\ unread \ unread' =
            {p \in Readable : /\ p.dev = batch'.dev
                              /\ p.func = batch'.func
                              /\ p.addr \in Registers(batch')}
       /\ Registers(batch') = {p.addr : p \in unread \ unread'}]_vars

\* That much is so only while the addresses are those of registers and the
\* ones a func reads of a device are not all 65536 there are: start and number
\* of a batch are uint16, for which -1 is 65535 and 65536 is 0.
AddressesFit == \A p \in Readable : p.addr \in Uint16
LeavesAGap ==
  \A p \in Readable : \E a \in Uint16 :
    \A r \in Readable : r.dev = p.dev /\ r.func = p.func => r.addr # a

\* "分组覆盖点": the points of a group are those it covers, so a poll asks for every
\* register of a point it passes over. The code breaks this for a point whose
\* last registers nobody else begins at: it never looks at the quantity.
BatchCoversPoints ==
  [][worker = "poll" =>
       \A p \in unread \ unread' : p.addr..(p.addr + p.num - 1) \subseteq Registers(batch')]_vars

\* A poll does not stop half-way: while points wait, one of them is the next,
\* whatever the order in which the map yields the funcs.
PollGoesOn ==
  worker = "poll" /\ unread # {} => \E p \in Readable : NextBatchAt(p)

\* A poll does not take the process down unless a point cannot be grouped or
\* a device has never been connected: no failed connect and no disconnect leads
\* to it.
PanicHasCause ==
  worker = "panicked" =>
    \/ Ungroupable \cap Readable # {}
    \/ \E d \in Device : ~adapter[d].opened /\ ~adapter[d].client

\* The worker is a control service: one by one, in order, an answer each, and
\* a refused or failed request is not called done.
Waiting == IF task = NoTask THEN ctrlQ ELSE <<task>> \o ctrlQ
Service == INSTANCE ControlService
             WITH Request <- Task, waiting <- Waiting, performed <- applied,
                  answer <- respCh
ImplementsService == Service!ServiceSpec

\* No request is forgotten: what has been accepted waits, or the worker has it
\* in hand, or it is answered; also when the bus is stopped.
NoneForgotten ==
  \A t \in Task : phase[t] = "sent" => t \in Range(Waiting) \/ respCh[t] # "none"

\* Unless the bus is stopped, after which a caller may wait for ever, every
\* request gets its answer and a caller of EnqueuePoll gets through, although
\* ticks, polls and other requests compete for the worker.
ServedUnlessStopped ==
  /\ \A t \in Task : phase[t] = "sending" ~> respCh[t] # "none" \/ quitQ \/ ~Running
  /\ \A p \in Poller : poller[p] = "sending" ~> poller[p] = "idle" \/ quitQ \/ ~Running

\* Stop returns, although the inner select does not look at quitQ: the ticker
\* wakes it up.
StopReturns == stopper = "wait" ~> stopper = "returned" \/ ~Running
=============================================================================
