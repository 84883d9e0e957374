-------------------------- MODULE CollectPipeline --------------------------
(***************************************************************************)
(* cycV2/internal/device/pipeline.go: the goroutines that poll the devices *)
(* of one bus (StartCollectPipeline), the buffered channel rawCh they feed *)
(* and the pool of parse workers that drains it (StartParseWorkerPool).    *)
(*                                                                         *)
(* A pipeline is one goroutine: it waits in a select for a tick of its     *)
(* ticker or for its stop channel; a tick starts a round over the devices  *)
(* of the bus in order, and every device whose own interval has elapsed is *)
(* collected and its result sent to rawCh, where a full channel blocks.    *)
(* Nothing inside a round looks at the stop channel.                       *)
(*                                                                         *)
(* The raw points of a result are left out: a result is the pipeline, the  *)
(* position of the device in its list and the time stamp of the round.     *)
(* Device.Collect never returns an error, so the branch that skips a       *)
(* device on an error of Collect is dead code and has no action here.      *)
(***************************************************************************)
EXTENDS Integers, Sequences, FiniteSets, Functions

CONSTANTS
  Pipeline,        \* goroutines StartCollectPipeline may start
  Parser,          \* goroutines of the parse worker pool
  Device,          \* the ModbusDevice objects
  Name,            \* device names (DeviceConfig.Name)
  DeviceName,      \* the name of each device, not necessarily injective
  IntervalMs,      \* the interval_ms of each device, 0 or less when not given
  DefaultInterval, \* the interval used then (1000 ms in the code)
  RawCap,          \* capacity of rawCh (100 in NewManager)
  DeviceList,      \* the device lists a pipeline may be started with
  MaxTime,         \* bound: largest value the clock takes
  NoResult         \* "no result in hand"

ASSUME ConstantsAssumption ==
  /\ DeviceName \in [Device -> Name]
  /\ IntervalMs \in [Device -> Int]
  /\ DefaultInterval \in Nat \ {0}
  /\ RawCap \in Nat \ {0}
  /\ DeviceList \subseteq Seq(Device)
  /\ MaxTime \in Nat

ASSUME ParserAssumption == IsFiniteSet(Parser)

VARIABLES
  pc,          \* where each pipeline goroutine is
  devs,        \* the devices it was started with
  stopCh,      \* TRUE once its stop channel is closed
  now,         \* time stamp of its current (or last) round, 0 before the first
  idx,         \* position of the device the round has reached
  lastCollect, \* its map from device name to the time of the last collection
  rawCh,       \* the channel of raw results
  parsePc,     \* where each parse worker is
  held,        \* the result each parse worker has in hand
  parseStop,   \* TRUE once the stop channel of the pool is closed
  sent,        \* history: every result put into rawCh
  handled      \* history: every result passed to parsedHandler

pipelineVars == <<pc, devs, now, idx, lastCollect>>
parserVars   == <<parsePc, held, parseStop, handled>>
vars == <<pc, devs, stopCh, now, idx, lastCollect, rawCh,
          parsePc, held, parseStop, sent, handled>>

Result == [pipe : Pipeline, idx : Nat \ {0}, time : 1..MaxTime]

ASSUME NoResultAssumption == NoResult \notin Result

PcStates    == {"new", "select", "scan", "collect", "send", "done"}
ParseStates == {"new", "recv", "handle", "done"}

TypeOK ==
  /\ pc \in [Pipeline -> PcStates]
  /\ devs \in [Pipeline -> Seq(Device)]
  /\ stopCh \in [Pipeline -> BOOLEAN]
  /\ now \in [Pipeline -> 0..MaxTime]
  /\ idx \in [Pipeline -> Nat \ {0}]
  /\ lastCollect \in [Pipeline -> [Name -> 0..MaxTime]]
  /\ rawCh \in Seq(Result)
  /\ Len(rawCh) <= RawCap
  /\ parsePc \in [Parser -> ParseStates]
  /\ held \in [Parser -> Result \cup {NoResult}]
  /\ parseStop \in BOOLEAN
  /\ sent \in SUBSET Result
  /\ handled \in SUBSET Result

Init ==
  /\ pc = [p \in Pipeline |-> "new"]
  /\ devs = [p \in Pipeline |-> <<>>]
  /\ stopCh = [p \in Pipeline |-> FALSE]
  /\ now = [p \in Pipeline |-> 0]
  /\ idx = [p \in Pipeline |-> 1]
  /\ lastCollect = [p \in Pipeline |-> [n \in Name |-> 0]]
  /\ rawCh = <<>>
  /\ parsePc = [q \in Parser |-> "new"]
  /\ held = [q \in Parser |-> NoResult]
  /\ parseStop = FALSE
  /\ sent = {}
  /\ handled = {}

-----------------------------------------------------------------------------
(* The pipeline goroutine.                                                 *)

\* An empty device list starts nothing: the function returns at once.
StartCollectPipeline(p, ds) ==
  /\ pc[p] = "new"
  /\ ds # <<>>
  /\ pc' = [pc EXCEPT ![p] = "select"]
  /\ devs' = [devs EXCEPT ![p] = ds]
  /\ UNCHANGED <<stopCh, now, idx, lastCollect, rawCh, sent, parserVars>>

\* The interval of a device; time.Time{} (0 here) is older than any interval.
Interval(d) == IF IntervalMs[d] <= 0 THEN DefaultInterval ELSE IntervalMs[d]

Current(p) == devs[p][idx[p]]

\* Seeded bug: every device is polled at the pace of the fastest one.
Due_AtBusPace(p) ==
  \E d \in Range(devs[p]) : now[p] - lastCollect[p][DeviceName[Current(p)]] >= Interval(d)

Due(p) ==
  LET last == lastCollect[p][DeviceName[Current(p)]]
  IN  last = 0 \/ now[p] - last >= Interval(Current(p))

\* The ticker fires: the round takes the time of the clock. Ticks may be late
\* or dropped (the ticker channel holds one), so any later time is possible.
Tick(p) ==
  /\ pc[p] = "select"
  /\ \E t \in (now[p] + 1)..MaxTime : now' = [now EXCEPT ![p] = t]
  /\ idx' = [idx EXCEPT ![p] = 1]
  /\ pc' = [pc EXCEPT ![p] = "scan"]
  /\ UNCHANGED <<devs, stopCh, lastCollect, rawCh, sent, parserVars>>

\* The other branch of the select; with both ready Go picks either.
ExitPipeline(p) ==
  /\ pc[p] = "select"
  /\ stopCh[p]
  /\ pc' = [pc EXCEPT ![p] = "done"]
  /\ UNCHANGED <<devs, stopCh, now, idx, lastCollect, rawCh, sent, parserVars>>

\* Seeded bug: break where the loop should continue.
SkipDevice_Breaks(p) ==
  /\ pc[p] = "scan"
  /\ idx[p] <= Len(devs[p])
  /\ ~Due(p)
  /\ idx' = [idx EXCEPT ![p] = Len(devs[p]) + 1]
  /\ UNCHANGED <<pc, devs, stopCh, now, lastCollect, rawCh, sent, parserVars>>

SkipDevice(p) ==
  /\ pc[p] = "scan"
  /\ idx[p] <= Len(devs[p])
  /\ ~Due(p)
  /\ idx' = [idx EXCEPT ![p] = @ + 1]
  /\ UNCHANGED <<pc, devs, stopCh, now, lastCollect, rawCh, sent, parserVars>>

\* Collect is entered here and left at EndCollect: between the two the
\* pipeline has requests in flight on the physical bus.
BeginCollect(p) ==
  /\ pc[p] = "scan"
  /\ idx[p] <= Len(devs[p])
  /\ Due(p)
  /\ pc' = [pc EXCEPT ![p] = "collect"]
  /\ UNCHANGED <<devs, stopCh, now, idx, lastCollect, rawCh, sent, parserVars>>

EndCollect(p) ==
  /\ pc[p] = "collect"
  /\ pc' = [pc EXCEPT ![p] = "send"]
  /\ UNCHANGED <<devs, stopCh, now, idx, lastCollect, rawCh, sent, parserVars>>

\* Seeded bug: the send does not wait for room in the channel.
SendResult_Unbounded(p) ==
  LET r == [pipe |-> p, idx |-> idx[p], time |-> now[p]]
  IN  /\ pc[p] = "send"
      /\ rawCh' = Append(rawCh, r)
      /\ sent' = sent \cup {r}
      /\ lastCollect' =
           [lastCollect EXCEPT ![p][DeviceName[Current(p)]] = now[p]]
      /\ idx' = [idx EXCEPT ![p] = @ + 1]
      /\ pc' = [pc EXCEPT ![p] = "scan"]
      /\ UNCHANGED <<devs, stopCh, now, parserVars>>

\* out <- RawCollectResult{...} blocks while the channel is full, with no
\* regard to the stop channel; only then is the collection time recorded.
SendResult(p) ==
  LET r == [pipe |-> p, idx |-> idx[p], time |-> now[p]]
  IN  /\ pc[p] = "send"
      /\ Len(rawCh) < RawCap
      /\ rawCh' = Append(rawCh, r)
      /\ sent' = sent \cup {r}
      /\ lastCollect' =
           [lastCollect EXCEPT ![p][DeviceName[Current(p)]] = now[p]]
      /\ idx' = [idx EXCEPT ![p] = @ + 1]
      /\ pc' = [pc EXCEPT ![p] = "scan"]
      /\ UNCHANGED <<devs, stopCh, now, parserVars>>

EndRound(p) ==
  /\ pc[p] = "scan"
  /\ idx[p] > Len(devs[p])
  /\ pc' = [pc EXCEPT ![p] = "select"]
  /\ UNCHANGED <<devs, stopCh, now, idx, lastCollect, rawCh, sent, parserVars>>

-----------------------------------------------------------------------------
(* The parse worker pool.                                                  *)

StartParseWorkerPool ==
  /\ \A q \in Parser : parsePc[q] = "new"
  /\ parsePc' = [q \in Parser |-> "recv"]
  /\ UNCHANGED <<pipelineVars, stopCh, rawCh, held, parseStop, sent, handled>>

Receive(q) ==
  /\ parsePc[q] = "recv"
  /\ rawCh # <<>>
  /\ held' = [held EXCEPT ![q] = Head(rawCh)]
  /\ rawCh' = Tail(rawCh)
  /\ parsePc' = [parsePc EXCEPT ![q] = "handle"]
  /\ UNCHANGED <<pipelineVars, stopCh, parseStop, sent, handled>>

\* Seeded bug: a worker returns after its first result.
Handle_Once(q) ==
  /\ parsePc[q] = "handle"
  /\ handled' = handled \cup {held[q]}
  /\ held' = [held EXCEPT ![q] = NoResult]
  /\ parsePc' = [parsePc EXCEPT ![q] = "done"]
  /\ UNCHANGED <<pipelineVars, stopCh, rawCh, parseStop, sent>>

\* Seeded bug: a result whose handler failed goes back to the channel.
Handle_Requeues(q) ==
  /\ parsePc[q] = "handle"
  /\ \/ handled' = handled \cup {held[q]} /\ UNCHANGED rawCh
     \/ /\ Len(rawCh) < RawCap
        /\ rawCh' = Append(rawCh, held[q])
        /\ UNCHANGED handled
  /\ held' = [held EXCEPT ![q] = NoResult]
  /\ parsePc' = [parsePc EXCEPT ![q] = "recv"]
  /\ UNCHANGED <<pipelineVars, stopCh, parseStop, sent>>

\* Parsing the points and the call of parsedHandler.
Handle(q) ==
  /\ parsePc[q] = "handle"
  /\ handled' = handled \cup {held[q]}
  /\ held' = [held EXCEPT ![q] = NoResult]
  /\ parsePc' = [parsePc EXCEPT ![q] = "recv"]
  /\ UNCHANGED <<pipelineVars, stopCh, rawCh, parseStop, sent>>

\* Seeded bug: stop is also obeyed between the receive and the handler.
ExitParser_DropsResult(q) ==
  /\ parsePc[q] \in {"recv", "handle"}
  /\ parseStop
  /\ parsePc' = [parsePc EXCEPT ![q] = "done"]
  /\ held' = [held EXCEPT ![q] = NoResult]
  /\ UNCHANGED <<pipelineVars, stopCh, rawCh, parseStop, sent, handled>>

\* Seeded bug: a default case, so that a worker with nothing to do returns.
ExitParser_WhenIdle(q) ==
  /\ parsePc[q] = "recv"
  /\ parseStop \/ rawCh = <<>>
  /\ parsePc' = [parsePc EXCEPT ![q] = "done"]
  /\ UNCHANGED <<pipelineVars, stopCh, rawCh, held, parseStop, sent, handled>>

\* The stop branch of the select: results left in rawCh stay there.
ExitParser(q) ==
  /\ parsePc[q] = "recv"
  /\ parseStop
  /\ parsePc' = [parsePc EXCEPT ![q] = "done"]
  /\ UNCHANGED <<pipelineVars, stopCh, rawCh, held, parseStop, sent, handled>>

-----------------------------------------------------------------------------
(* The owner of the channels: tests and Manager close each of them once.   *)

CloseStopCh(p) ==
  /\ pc[p] # "new"
  /\ ~stopCh[p]
  /\ stopCh' = [stopCh EXCEPT ![p] = TRUE]
  /\ UNCHANGED <<pipelineVars, rawCh, sent, parserVars>>

CloseParseStop ==
  /\ \A q \in Parser : parsePc[q] # "new"
  /\ ~parseStop
  /\ parseStop' = TRUE
  /\ UNCHANGED <<pipelineVars, stopCh, rawCh, parsePc, held, sent, handled>>

PipelineStep(p) ==
  \/ Tick(p)
  \/ SkipDevice(p)
  \/ BeginCollect(p)
  \/ EndCollect(p)
  \/ SendResult(p)
  \/ EndRound(p)
  \/ ExitPipeline(p)

ParserStep(q) == Receive(q) \/ Handle(q) \/ ExitParser(q)

Owner ==
  \/ \E p \in Pipeline, ds \in DeviceList : StartCollectPipeline(p, ds)
  \/ StartParseWorkerPool
  \/ \E p \in Pipeline : CloseStopCh(p)
  \/ CloseParseStop

Next ==
  \/ \E p \in Pipeline : PipelineStep(p)
  \/ \E q \in Parser : ParserStep(q)
  \/ Owner

\* Every started goroutine keeps being scheduled; a select with several ready
\* cases chooses at random, so no ready case is passed over for ever. Nothing
\* obliges the owner to start or stop a pipeline; it does start the pool.
PipelineFairness ==
  \A p \in Pipeline : WF_vars(PipelineStep(p)) /\ SF_vars(ExitPipeline(p))

ParserFairness ==
  /\ WF_vars(StartParseWorkerPool)
  /\ \A q \in Parser : WF_vars(ParserStep(q)) /\ SF_vars(ExitParser(q))

Spec     == Init /\ [][Next]_vars
FairSpec == Spec /\ PipelineFairness /\ ParserFairness

-----------------------------------------------------------------------------
(* Properties.                                                             *)

\* What a parse worker has in hand.
InHand == {held[q] : q \in Parser} \ {NoResult}

\* Exactly-once hand-over: a collected result that was put into rawCh is at
\* every moment in exactly one place -- in the channel (once), in the hands of
\* one parse worker, or handled -- also while pipelines and pool are stopping.
\* A worker that exited between its receive and its handler would break it.
ExactlyOnce ==
  /\ sent = Range(rawCh) \cup InHand \cup handled
  /\ \A i, j \in DOMAIN rawCh : rawCh[i] = rawCh[j] => i = j
  /\ \A q1, q2 \in Parser :
       held[q1] = held[q2] /\ held[q1] # NoResult => q1 = q2
  /\ Range(rawCh) \cap InHand = {}
  /\ Range(rawCh) \cap handled = {}
  /\ InHand \cap handled = {}

\* r1 was produced by the same pipeline before r2.
Before(r1, r2) ==
  /\ r1.pipe = r2.pipe
  /\ \/ r1.time < r2.time
     \/ r1.time = r2.time /\ r1.idx < r2.idx

\* Results of one pipeline that are not handled yet, though r, younger, is.
Overtaken(r) == {s \in sent \ handled : Before(s, r)}

\* Several workers call parsedHandler, so a younger value of a device may be
\* handled before an older one. The pool bounds this: when a result has been
\* handled, fewer older results of its pipeline than there are workers are
\* still to come; with one worker, results are handled in their order.
BoundedOvertaking ==
  \A r \in handled : Cardinality(Overtaken(r)) < Cardinality(Parser)

DeviceOf(r) == devs[r.pipe][r.idx]

\* "some devices of a group need to be collected more slowly": two results a
\* pipeline produced under one device name are at least that device's interval
\* apart, however late, early or crowded the ticks are.
RateLimit ==
  \A r1, r2 \in sent :
    /\ r1.pipe = r2.pipe
    /\ DeviceName[DeviceOf(r1)] = DeviceName[DeviceOf(r2)]
    /\ Before(r1, r2)
    => r2.time - r1.time >= Interval(DeviceOf(r2))

\* "collects all devices of the bus in order ... each with its own interval":
\* when a round is over, every device of the pipeline has a result that is
\* younger than its own interval at the time of the round.
RoundServesEveryDevice ==
  \A p \in Pipeline : pc[p] = "select" /\ now[p] > 0 =>
    \A i \in DOMAIN devs[p] : \E r \in sent :
      /\ r.pipe = p /\ r.idx = i
      /\ now[p] - r.time < Interval(devs[p][i])

\* StartParseWorkerPool's comment: the main goroutine can wait until all
\* collecting threads have finished processing. Its wait group covers the
\* parse workers only: when they are gone, pipelines may still run and
\* results may still lie in rawCh.
PoolGone == \A q \in Parser : parsePc[q] = "done"
WaitMeansDrained ==
  PoolGone => rawCh = <<>> /\ \A p \in Pipeline : pc[p] \in {"new", "done"}

\* Closing the stop channel of a pipeline makes its goroutine exit, unless
\* the pool is told to stop first and leaves it blocked on a full rawCh.
StopLeadsToExit ==
  \A p \in Pipeline : stopCh[p] ~> (pc[p] = "done" \/ parseStop)

\* Every collected result reaches parsedHandler unless the pool is stopped.
SentLeadsToHandled ==
  \A p \in Pipeline, t \in 1..MaxTime :
    (\E r \in sent : r.pipe = p /\ r.time = t) ~>
      (parseStop \/ \A r \in sent : r.pipe = p /\ r.time = t => r \in handled)

=============================================================================
