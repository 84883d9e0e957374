---------------------- MODULE CollectPipelineProofs ----------------------
(***************************************************************************)
(* Theorems about CollectPipeline, for any number of pipelines, parse      *)
(* workers and devices, any intervals, any capacity of rawCh.              *)
(***************************************************************************)
EXTENDS CollectPipeline, DataLemmas, FiniteSetTheorems

-----------------------------------------------------------------------------
(* Type correctness.                                                       *)

LEMMA SendTyped ==
  ASSUME TypeOK, NEW p \in Pipeline, pc[p] = "send", now[p] # 0
  PROVE  [pipe |-> p, idx |-> idx[p], time |-> now[p]] \in Result
BY ConstantsAssumption DEF TypeOK, Result

\* A pipeline inside a round has a time stamp and a device to look at: the
\* position stays within the list it was started with.
InRound ==
  \A p \in Pipeline :
    /\ pc[p] \in {"scan", "collect", "send"} => now[p] # 0
    /\ pc[p] \in {"collect", "send"} => idx[p] \in 1..Len(devs[p])

\* A parse worker holds a result exactly while it is handling one.
HeldWhileHandling ==
  \A q \in Parser : parsePc[q] = "handle" <=> held[q] # NoResult

TypeInv == TypeOK /\ InRound /\ HeldWhileHandling

LEMMA TypeInit == Init => TypeInv
<1> SUFFICES ASSUME Init PROVE TypeInv
  OBVIOUS
<1>1. TypeOK
  <2>1. 0 \in 0..MaxTime /\ 0 <= RawCap
    BY ConstantsAssumption
  <2>2. lastCollect \in [Pipeline -> [Name -> 0..MaxTime]]
    BY <2>1 DEF Init
  <2>3. rawCh \in Seq(Result) /\ Len(rawCh) <= RawCap
    BY <2>1 DEF Init
  <2>4. devs \in [Pipeline -> Seq(Device)]
    <3>1. <<>> \in Seq(Device) OBVIOUS
    <3> QED BY <3>1 DEF Init
  <2>5. sent \in SUBSET Result /\ handled \in SUBSET Result
    BY DEF Init
  <2>6. /\ pc \in [Pipeline -> PcStates] /\ stopCh \in [Pipeline -> BOOLEAN]
        /\ now \in [Pipeline -> 0..MaxTime] /\ idx \in [Pipeline -> Nat \ {0}]
    BY <2>1 DEF Init, PcStates
  <2>7. /\ parsePc \in [Parser -> ParseStates] /\ parseStop \in BOOLEAN
        /\ held \in [Parser -> Result \cup {NoResult}]
    BY DEF Init, ParseStates
  <2> QED BY <2>2, <2>3, <2>4, <2>5, <2>6, <2>7 DEF TypeOK
<1>2. InRound /\ HeldWhileHandling
  BY DEF Init, InRound, HeldWhileHandling
<1> QED BY <1>1, <1>2 DEF TypeInv

LEMMA TypeStep == TypeInv /\ [Next]_vars => TypeInv'
<1> SUFFICES ASSUME TypeInv, [Next]_vars PROVE TypeInv'
  OBVIOUS
<1> USE ConstantsAssumption DEF TypeInv, TypeOK, InRound, HeldWhileHandling, PcStates, ParseStates
<1>1. ASSUME NEW p \in Pipeline, NEW ds \in DeviceList, StartCollectPipeline(p, ds)
      PROVE  TypeInv'
  BY <1>1 DEF StartCollectPipeline, parserVars
<1>2. ASSUME NEW p \in Pipeline, Tick(p) PROVE TypeInv'
  BY <1>2 DEF Tick, parserVars
<1>3. ASSUME NEW p \in Pipeline, ExitPipeline(p) PROVE TypeInv'
  BY <1>3 DEF ExitPipeline, parserVars
<1>4. ASSUME NEW p \in Pipeline, SkipDevice(p) PROVE TypeInv'
  BY <1>4 DEF SkipDevice, parserVars
<1>5. ASSUME NEW p \in Pipeline, BeginCollect(p) PROVE TypeInv'
  BY <1>5 DEF BeginCollect, parserVars
<1>6. ASSUME NEW p \in Pipeline, EndCollect(p) PROVE TypeInv'
  BY <1>6 DEF EndCollect, parserVars
<1>7. ASSUME NEW p \in Pipeline, SendResult(p) PROVE TypeInv'
  <2>1. [pipe |-> p, idx |-> idx[p], time |-> now[p]] \in Result
    BY <1>7, SendTyped DEF SendResult
  <2>2. DeviceName[Current(p)] \in Name
    BY <1>7 DEF SendResult, Current
  <2>3. /\ rawCh' \in Seq(Result) /\ Len(rawCh') <= RawCap
        /\ sent' \in SUBSET Result
    BY <1>7, <2>1 DEF SendResult
  <2>4. lastCollect' \in [Pipeline -> [Name -> 0..MaxTime]]
    BY <1>7, <2>2 DEF SendResult
  <2>5. /\ pc' \in [Pipeline -> PcStates] /\ idx' \in [Pipeline -> Nat \ {0}]
        /\ InRound'
    BY <1>7 DEF SendResult
  <2>6. UNCHANGED <<devs, stopCh, now, parsePc, held, parseStop, handled>>
    BY <1>7 DEF SendResult, parserVars
  <2> QED BY <2>3, <2>4, <2>5, <2>6
<1>8. ASSUME NEW p \in Pipeline, EndRound(p) PROVE TypeInv'
  BY <1>8 DEF EndRound, parserVars
<1>9. ASSUME StartParseWorkerPool PROVE TypeInv'
  BY <1>9 DEF StartParseWorkerPool, pipelineVars
<1>10. ASSUME NEW q \in Parser, Receive(q) PROVE TypeInv'
  BY <1>10, NoResultAssumption DEF Receive, pipelineVars
<1>11. ASSUME NEW q \in Parser, Handle(q) PROVE TypeInv'
  BY <1>11 DEF Handle, pipelineVars
<1>12. ASSUME NEW q \in Parser, ExitParser(q) PROVE TypeInv'
  BY <1>12 DEF ExitParser, pipelineVars
<1>13. ASSUME NEW p \in Pipeline, CloseStopCh(p) PROVE TypeInv'
  BY <1>13 DEF CloseStopCh, pipelineVars, parserVars
<1>14. ASSUME CloseParseStop PROVE TypeInv'
  BY <1>14 DEF CloseParseStop, pipelineVars
<1>15. CASE UNCHANGED vars
  BY <1>15 DEF vars
<1> QED
  BY <1>1, <1>2, <1>3, <1>4, <1>5, <1>6, <1>7, <1>8, <1>9, <1>10, <1>11,
     <1>12, <1>13, <1>14, <1>15 DEF Next, PipelineStep, ParserStep, Owner

\* Every variable keeps its type, rawCh never exceeds its capacity, and no
\* result is stamped with a time outside the run.
THEOREM TypeCorrect == Spec => []TypeOK
<1>1. TypeInv => TypeOK BY DEF TypeInv
<1> QED BY TypeInit, TypeStep, <1>1, PTL DEF Spec

-----------------------------------------------------------------------------
(* The hand-over of results. Why a result is put into rawCh once only: each *)
(* result of a pipeline lies behind the place (now, idx) its round has      *)
(* reached, so the next one differs from all of them.                       *)

Fresh ==
  \A r \in sent :
    \/ r.time < now[r.pipe]
    \/ r.time = now[r.pipe] /\ r.idx < idx[r.pipe]

\* The results of one pipeline stand in rawCh in the order they were sent.
ChannelInOrder ==
  \A i, j \in DOMAIN rawCh : i < j => ~Before(rawCh[j], rawCh[i])

\* What has left rawCh is not younger than what is still in it.
NoOvertakingInChannel ==
  \A i \in DOMAIN rawCh : \A r \in handled \cup InHand : ~Before(rawCh[i], r)

HandOverInv ==
  TypeInv /\ Fresh /\ ExactlyOnce /\ ChannelInOrder /\ NoOvertakingInChannel

\* A new result is neither in sent nor older than anything in it.
LEMMA NewResult ==
  ASSUME TypeInv, Fresh, NEW p \in Pipeline, pc[p] = "send"
  PROVE  LET r == [pipe |-> p, idx |-> idx[p], time |-> now[p]]
         IN  /\ r \in Result
             /\ r \notin sent
             /\ \A s \in sent : ~Before(r, s)
<1> DEFINE r == [pipe |-> p, idx |-> idx[p], time |-> now[p]]
<1>1. r \in Result
  BY SendTyped DEF TypeInv, InRound
<1>2. ASSUME NEW s \in sent PROVE s # r /\ ~Before(r, s)
  <2>1. s \in Result /\ r.time = now[p] /\ r.idx = idx[p] /\ r.pipe = p
    BY DEF TypeInv, TypeOK
  <2>2. s.time \in Int /\ s.idx \in Int /\ now[p] \in Int /\ idx[p] \in Int
    BY <2>1, ConstantsAssumption DEF TypeInv, TypeOK, Result
  <2>3. s.pipe = p => s.time < now[p] \/ (s.time = now[p] /\ s.idx < idx[p])
    BY DEF Fresh
  <2> QED BY <2>1, <2>2, <2>3 DEF Before
<1> QED BY <1>1, <1>2

\* Steps that leave results where they are.
LEMMA ResultsUntouched ==
  ASSUME HandOverInv, TypeInv', UNCHANGED <<rawCh, held, sent, handled>>,
         \A p \in Pipeline :
           now'[p] > now[p] \/ (now'[p] = now[p] /\ idx'[p] >= idx[p])
  PROVE  HandOverInv'
<1>1. Fresh'
  <2> SUFFICES ASSUME NEW r \in sent
               PROVE  \/ r.time < now'[r.pipe]
                      \/ r.time = now'[r.pipe] /\ r.idx < idx'[r.pipe]
    BY DEF Fresh
  <2>1. r \in Result /\ r.pipe \in Pipeline /\ r.time \in Int /\ r.idx \in Int
    BY ConstantsAssumption DEF HandOverInv, TypeInv, TypeOK, Result
  <2>2. /\ now[r.pipe] \in Int /\ idx[r.pipe] \in Int
        /\ now'[r.pipe] \in Int /\ idx'[r.pipe] \in Int
    BY <2>1, ConstantsAssumption DEF HandOverInv, TypeInv, TypeOK
  <2> QED BY <2>1, <2>2 DEF HandOverInv, Fresh
<1>2. ExactlyOnce' /\ ChannelInOrder' /\ NoOvertakingInChannel'
  BY DEF HandOverInv, ExactlyOnce, ChannelInOrder, NoOvertakingInChannel, InHand, Before
<1> QED BY <1>1, <1>2 DEF HandOverInv

LEMMA SendHandOver ==
  ASSUME HandOverInv, TypeInv', NEW p \in Pipeline, SendResult(p)
  PROVE  HandOverInv'
<1> DEFINE r == [pipe |-> p, idx |-> idx[p], time |-> now[p]]
<1>1. /\ r \in Result /\ r \notin sent /\ \A s \in sent : ~Before(r, s)
  BY NewResult DEF HandOverInv, SendResult
<1>2. /\ rawCh' = Append(rawCh, r) /\ sent' = sent \cup {r}
      /\ idx' = [idx EXCEPT ![p] = @ + 1]
      /\ UNCHANGED <<now, held, handled, InHand>>
  BY DEF SendResult, parserVars, InHand
<1>3. rawCh \in Seq(Result)
  BY DEF HandOverInv, TypeInv, TypeOK
<1>4. Range(rawCh') = Range(rawCh) \cup {r}
  BY <1>1, <1>2, <1>3, RangeAppend
<1>5. /\ DOMAIN rawCh' = DOMAIN rawCh \cup {Len(rawCh) + 1}
      /\ \A i \in DOMAIN rawCh : rawCh'[i] = rawCh[i] /\ rawCh[i] \in sent
                                  /\ i < Len(rawCh) + 1
      /\ rawCh'[Len(rawCh) + 1] = r
  <2>1. \A i \in DOMAIN rawCh : rawCh[i] \in sent
    BY DEF HandOverInv, ExactlyOnce, Range
  <2> QED BY <1>1, <1>2, <1>3, <2>1
<1>6. Fresh'
  <2> SUFFICES ASSUME NEW s \in sent'
               PROVE  \/ s.time < now[s.pipe]
                      \/ s.time = now[s.pipe] /\ s.idx < idx'[s.pipe]
    BY <1>2 DEF Fresh
  <2>1. s \in Result /\ s.pipe \in Pipeline /\ s.time \in Int /\ s.idx \in Int
    BY <1>1, <1>2, ConstantsAssumption DEF HandOverInv, TypeInv, TypeOK, Result
  <2>2. idx \in [Pipeline -> Nat \ {0}]
    BY DEF HandOverInv, TypeInv, TypeOK
  <2>3. CASE s = r
    BY <2>2, <2>3, <1>2
  <2>4. CASE s \in sent
    BY <2>1, <2>2, <2>4, <1>2 DEF HandOverInv, Fresh
  <2> QED BY <2>3, <2>4, <1>2
<1>7. ExactlyOnce'
  <2>1. sent' = Range(rawCh') \cup InHand' \cup handled'
    BY <1>2, <1>4 DEF HandOverInv, ExactlyOnce
  <2>2. \A i, j \in DOMAIN rawCh' : rawCh'[i] = rawCh'[j] => i = j
    BY <1>1, <1>5 DEF HandOverInv, ExactlyOnce
  <2>3. r \notin InHand /\ r \notin handled
    BY <1>1 DEF HandOverInv, ExactlyOnce
  <2> QED BY <1>2, <1>4, <2>1, <2>2, <2>3 DEF HandOverInv, ExactlyOnce
<1>8. ChannelInOrder'
  <2> SUFFICES ASSUME NEW i \in DOMAIN rawCh', NEW j \in DOMAIN rawCh', i < j
               PROVE  ~Before(rawCh'[j], rawCh'[i])
    BY DEF ChannelInOrder, Before
  <2>1. i \in DOMAIN rawCh
    BY <1>3, <1>5
  <2>2. CASE j \in DOMAIN rawCh
    BY <1>5, <2>1, <2>2 DEF HandOverInv, ChannelInOrder
  <2>3. CASE j = Len(rawCh) + 1
    BY <1>1, <1>5, <2>1, <2>3
  <2> QED BY <1>5, <2>2, <2>3
<1>9. NoOvertakingInChannel'
  <2> SUFFICES ASSUME NEW i \in DOMAIN rawCh', NEW s \in handled \cup InHand
               PROVE  ~Before(rawCh'[i], s)
    BY <1>2 DEF NoOvertakingInChannel, Before
  <2>1. s \in sent BY DEF HandOverInv, ExactlyOnce
  <2>2. CASE i \in DOMAIN rawCh
    BY <1>5, <2>2 DEF HandOverInv, NoOvertakingInChannel
  <2>3. CASE i = Len(rawCh) + 1
    BY <1>1, <1>5, <2>1, <2>3
  <2> QED BY <1>5, <2>2, <2>3
<1> QED BY <1>6, <1>7, <1>8, <1>9 DEF HandOverInv

LEMMA ReceiveHandOver ==
  ASSUME HandOverInv, TypeInv', NEW q \in Parser, Receive(q)
  PROVE  HandOverInv'
<1> DEFINE r == Head(rawCh)
<1>1. /\ rawCh \in Seq(Result) /\ rawCh # <<>> /\ held[q] = NoResult
      /\ held \in [Parser -> Result \cup {NoResult}]
  BY DEF Receive, HandOverInv, TypeInv, TypeOK, HeldWhileHandling
<1>2. /\ rawCh' = Tail(rawCh) /\ held' = [held EXCEPT ![q] = r]
      /\ UNCHANGED <<now, idx, sent, handled>>
  BY DEF Receive, pipelineVars
<1>3. Range(rawCh) = {r} \cup Range(rawCh')
  BY <1>1, <1>2, RangeHeadTail
<1>4. /\ 1 \in DOMAIN rawCh /\ r = rawCh[1] /\ r \in Result
      /\ \A i \in DOMAIN rawCh' :
           /\ i + 1 \in DOMAIN rawCh /\ i \in Nat /\ i > 0
           /\ rawCh'[i] = rawCh[i + 1]
  BY <1>1, <1>2
<1>5. r \notin Range(rawCh')
  BY <1>4 DEF HandOverInv, ExactlyOnce, Range
<1>6. r # NoResult /\ InHand' = InHand \cup {r}
  <2>1. r # NoResult BY <1>4, NoResultAssumption
  <2>2. held'[q] = r /\ \A q1 \in Parser \ {q} : held'[q1] = held[q1]
    BY <1>1, <1>2
  <2> QED BY <1>1, <2>1, <2>2 DEF InHand
<1>7. ExactlyOnce'
  <2>1. sent' = Range(rawCh') \cup InHand' \cup handled'
    BY <1>2, <1>3, <1>6 DEF HandOverInv, ExactlyOnce
  <2>2. \A i, j \in DOMAIN rawCh' : rawCh'[i] = rawCh'[j] => i = j
    BY <1>4 DEF HandOverInv, ExactlyOnce
  <2>3. ASSUME NEW q1 \in Parser, NEW q2 \in Parser,
               held'[q1] = held'[q2], held'[q1] # NoResult
        PROVE  q1 = q2
    <3>1. \A q3 \in Parser : q3 # q => held'[q3] = held[q3]
      BY <1>1, <1>2
    <3>2. \A q3 \in Parser : held[q3] # NoResult => held[q3] # r
      BY <1>3 DEF HandOverInv, ExactlyOnce, InHand
    <3>3. held'[q] = r BY <1>1, <1>2
    <3> QED BY <2>3, <3>1, <3>2, <3>3 DEF HandOverInv, ExactlyOnce
  <2>4. /\ Range(rawCh') \cap InHand' = {} /\ Range(rawCh') \cap handled' = {}
        /\ InHand' \cap handled' = {}
    BY <1>2, <1>3, <1>5, <1>6 DEF HandOverInv, ExactlyOnce
  <2> QED BY <2>1, <2>2, <2>3, <2>4 DEF ExactlyOnce
<1>8. ChannelInOrder'
  BY <1>4 DEF HandOverInv, ChannelInOrder, Before
<1>9. NoOvertakingInChannel'
  <2> SUFFICES ASSUME NEW i \in DOMAIN rawCh', NEW s \in handled \cup InHand \cup {r}
               PROVE  ~Before(rawCh'[i], s)
    BY <1>2, <1>6 DEF NoOvertakingInChannel, Before
  <2>1. CASE s = r
    BY <1>4, <2>1 DEF HandOverInv, ChannelInOrder
  <2>2. CASE s \in handled \cup InHand
    BY <1>4, <2>2 DEF HandOverInv, NoOvertakingInChannel
  <2> QED BY <2>1, <2>2
<1>10. Fresh'
  BY <1>2 DEF HandOverInv, Fresh
<1> QED BY <1>7, <1>8, <1>9, <1>10 DEF HandOverInv

LEMMA HandleHandOver ==
  ASSUME HandOverInv, TypeInv', NEW q \in Parser, Handle(q)
  PROVE  HandOverInv'
<1> DEFINE r == held[q]
<1>1. /\ held \in [Parser -> Result \cup {NoResult}]
      /\ r # NoResult /\ r \in InHand
  BY DEF Handle, HandOverInv, TypeInv, TypeOK, HeldWhileHandling, InHand
<1>2. /\ handled' = handled \cup {r} /\ held' = [held EXCEPT ![q] = NoResult]
      /\ UNCHANGED <<now, idx, sent, rawCh>>
  BY DEF Handle, pipelineVars
<1>3. InHand' = InHand \ {r}
  <2>1. held'[q] = NoResult /\ \A q1 \in Parser \ {q} : held'[q1] = held[q1]
    BY <1>1, <1>2
  <2>2. \A q1 \in Parser \ {q} : held[q1] # r
    BY <1>1 DEF HandOverInv, ExactlyOnce
  <2> QED BY <2>1, <2>2, <1>1 DEF InHand
<1>4. ExactlyOnce'
  <2>1. ASSUME NEW q1 \in Parser, NEW q2 \in Parser,
               held'[q1] = held'[q2], held'[q1] # NoResult
        PROVE  q1 = q2
    <3>1. q1 # q /\ q2 # q BY <1>1, <1>2, <2>1
    <3> QED BY <3>1, <1>1, <1>2, <2>1 DEF HandOverInv, ExactlyOnce
  <2> QED BY <1>1, <1>2, <1>3, <2>1 DEF HandOverInv, ExactlyOnce
<1>5. Fresh' /\ ChannelInOrder'
  BY <1>2 DEF HandOverInv, Fresh, ChannelInOrder, Before
<1>6. NoOvertakingInChannel'
  BY <1>1, <1>2, <1>3 DEF HandOverInv, NoOvertakingInChannel, Before
<1> QED BY <1>4, <1>5, <1>6 DEF HandOverInv

LEMMA HandOverStep == HandOverInv /\ [Next]_vars => HandOverInv'
<1> SUFFICES ASSUME HandOverInv, [Next]_vars PROVE HandOverInv'
  OBVIOUS
<1> USE DEF pipelineVars, parserVars
<1>1. TypeInv' /\ TypeInv
  BY TypeStep DEF HandOverInv
<1>2. /\ now \in [Pipeline -> Int] /\ idx \in [Pipeline -> Int]
  BY <1>1, ConstantsAssumption DEF TypeInv, TypeOK
<1>3. ASSUME NEW p \in Pipeline, NEW ds \in DeviceList, StartCollectPipeline(p, ds)
      PROVE  HandOverInv'
  BY <1>1, <1>2, <1>3, ResultsUntouched DEF StartCollectPipeline
<1>4. ASSUME NEW p \in Pipeline, Tick(p) PROVE HandOverInv'
  <2>1. PICK t \in (now[p] + 1)..MaxTime : now' = [now EXCEPT ![p] = t]
    BY <1>4 DEF Tick
  <2>2. t > now[p] /\ t \in Int
    BY <2>1, <1>2, ConstantsAssumption
  <2>3. \A q \in Pipeline :
          now'[q] > now[q] \/ (now'[q] = now[q] /\ idx'[q] >= idx[q])
    BY <1>2, <1>4, <2>1, <2>2 DEF Tick
  <2> QED BY <1>1, <1>4, <2>3, ResultsUntouched DEF Tick
<1>5. ASSUME NEW p \in Pipeline, ExitPipeline(p) PROVE HandOverInv'
  BY <1>1, <1>2, <1>5, ResultsUntouched DEF ExitPipeline
<1>6. ASSUME NEW p \in Pipeline, SkipDevice(p) PROVE HandOverInv'
  BY <1>1, <1>2, <1>6, ResultsUntouched DEF SkipDevice
<1>7. ASSUME NEW p \in Pipeline, BeginCollect(p) PROVE HandOverInv'
  BY <1>1, <1>2, <1>7, ResultsUntouched DEF BeginCollect
<1>8. ASSUME NEW p \in Pipeline, EndCollect(p) PROVE HandOverInv'
  BY <1>1, <1>2, <1>8, ResultsUntouched DEF EndCollect
<1>9. ASSUME NEW p \in Pipeline, EndRound(p) PROVE HandOverInv'
  BY <1>1, <1>2, <1>9, ResultsUntouched DEF EndRound
<1>10. CASE StartParseWorkerPool
  BY <1>1, <1>2, <1>10, ResultsUntouched DEF StartParseWorkerPool
<1>11. ASSUME NEW q \in Parser, ExitParser(q) PROVE HandOverInv'
  BY <1>1, <1>2, <1>11, ResultsUntouched DEF ExitParser
<1>12. ASSUME NEW p \in Pipeline, CloseStopCh(p) PROVE HandOverInv'
  BY <1>1, <1>2, <1>12, ResultsUntouched DEF CloseStopCh
<1>13. CASE CloseParseStop
  BY <1>1, <1>2, <1>13, ResultsUntouched DEF CloseParseStop
<1>14. CASE UNCHANGED vars
  BY <1>1, <1>2, <1>14, ResultsUntouched DEF vars
<1> QED
  BY <1>1, <1>3, <1>4, <1>5, <1>6, <1>7, <1>8, <1>9, <1>10, <1>11, <1>12,
     <1>13, <1>14, SendHandOver, ReceiveHandOver, HandleHandOver
     DEF Next, PipelineStep, ParserStep, Owner

LEMMA HandOverInit == Init => HandOverInv
<1> SUFFICES ASSUME Init PROVE HandOverInv
  OBVIOUS
<1>1. Range(rawCh) = {} /\ InHand = {} /\ DOMAIN rawCh = {}
  BY DEF Init, Range, InHand
<1>2. ExactlyOnce /\ Fresh /\ ChannelInOrder /\ NoOvertakingInChannel
  BY <1>1 DEF Init, ExactlyOnce, Fresh, ChannelInOrder, NoOvertakingInChannel
<1> QED BY <1>2, TypeInit DEF HandOverInv

\* A result put into rawCh is never lost and never duplicated on its way to
\* parsedHandler: it is in the channel, or in the hands of one worker, or
\* handled, whatever stops are in progress.
THEOREM DeliveredExactlyOnce == Spec => []ExactlyOnce
<1>1. HandOverInv => ExactlyOnce BY DEF HandOverInv
<1> QED BY HandOverInit, HandOverStep, <1>1, PTL DEF Spec

-----------------------------------------------------------------------------
(* The order in which results are handled. Whatever a handled result has    *)
(* overtaken has left rawCh, so it is in the hands of a worker; and not all *)
(* workers hold such a result: the one that handled it does not, until it   *)
(* takes another, which is no older than what has been handled.             *)

SomeWorkerBehind ==
  \A r \in handled : \E q \in Parser : held[q] = NoResult \/ ~Before(held[q], r)

LEMMA BehindStep == HandOverInv /\ SomeWorkerBehind /\ [Next]_vars => SomeWorkerBehind'
<1> SUFFICES ASSUME HandOverInv, SomeWorkerBehind, [Next]_vars PROVE SomeWorkerBehind'
  OBVIOUS
<1> USE DEF pipelineVars, parserVars
<1>1. /\ held \in [Parser -> Result \cup {NoResult}] /\ rawCh \in Seq(Result)
      /\ NoOvertakingInChannel
  BY DEF HandOverInv, TypeInv, TypeOK
<1>2. ASSUME NEW w \in Parser, Receive(w) PROVE SomeWorkerBehind'
  <2>1. /\ held' = [held EXCEPT ![w] = Head(rawCh)] /\ handled' = handled
        /\ rawCh # <<>>
    BY <1>2 DEF Receive
  <2>2. \A r \in handled : ~Before(Head(rawCh), r)
    <3>1. 1 \in DOMAIN rawCh /\ Head(rawCh) = rawCh[1]
      BY <1>1, <2>1
    <3> QED BY <1>1, <3>1 DEF NoOvertakingInChannel
  <2>3. ASSUME NEW r \in handled, NEW q \in Parser,
               held[q] = NoResult \/ ~Before(held[q], r)
        PROVE  held'[q] = NoResult \/ ~Before(held'[q], r)
    BY <1>1, <2>1, <2>2, <2>3
  <2> QED BY <2>1, <2>3 DEF SomeWorkerBehind, Before
<1>3. ASSUME NEW w \in Parser, Handle(w) PROVE SomeWorkerBehind'
  <2>1. held'[w] = NoResult
    BY <1>1, <1>3 DEF Handle
  <2> QED BY <2>1 DEF SomeWorkerBehind
<1>4. CASE UNCHANGED <<held, handled>>
  BY <1>4 DEF SomeWorkerBehind, Before
<1> QED
  BY <1>2, <1>3, <1>4
     DEF Next, PipelineStep, ParserStep, Owner, Tick, SkipDevice, BeginCollect, EndCollect,
         SendResult, EndRound, ExitPipeline, ExitParser, StartCollectPipeline,
         StartParseWorkerPool, CloseStopCh, CloseParseStop, vars

LEMMA BehindMeans == HandOverInv /\ SomeWorkerBehind => BoundedOvertaking
<1> SUFFICES ASSUME HandOverInv, SomeWorkerBehind, NEW r \in handled
             PROVE  Cardinality(Overtaken(r)) < Cardinality(Parser)
  BY DEF BoundedOvertaking
<1>1. PICK w \in Parser : held[w] = NoResult \/ ~Before(held[w], r)
  BY DEF SomeWorkerBehind
<1>2. ASSUME NEW s \in Overtaken(r) PROVE \E q \in Parser \ {w} : held[q] = s
  <2>1. s \in sent /\ s \notin handled /\ Before(s, r)
    BY DEF Overtaken
  <2>2. s \notin Range(rawCh)
    BY <2>1 DEF HandOverInv, NoOvertakingInChannel, Range
  <2>3. s \in InHand
    BY <2>1, <2>2 DEF HandOverInv, ExactlyOnce
  <2>4. PICK q \in Parser : held[q] = s /\ s # NoResult
    BY <2>3 DEF InHand
  <2>5. q # w
    BY <1>1, <2>1, <2>4
  <2> QED BY <2>4, <2>5
<1> DEFINE holder == [s \in Overtaken(r) |-> CHOOSE q \in Parser \ {w} : held[q] = s]
<1>3. \A s \in Overtaken(r) : holder[s] \in Parser \ {w} /\ held[holder[s]] = s
  BY <1>2
<1>4. holder \in Injection(Overtaken(r), Parser \ {w})
  <2>1. holder \in [Overtaken(r) -> Parser \ {w}]
    BY <1>3
  <2>2. \A a, b \in Overtaken(r) : holder[a] = holder[b] => a = b
    BY <1>3
  <2> QED BY <2>1, <2>2 DEF Injection, IsInjective
<1> HIDE DEF holder
<1>5. /\ IsFiniteSet(Parser \ {w})
      /\ Cardinality(Parser \ {w}) = Cardinality(Parser) - 1
      /\ Cardinality(Parser) \in Nat
  BY ParserAssumption, FS_RemoveElement, FS_CardinalityType
<1>6. IsFiniteSet(Overtaken(r)) /\ Cardinality(Overtaken(r)) <= Cardinality(Parser \ {w})
  BY <1>4, <1>5, FS_Injection
<1>7. Cardinality(Overtaken(r)) \in Nat
  BY <1>6, FS_CardinalityType
<1> QED BY <1>5, <1>6, <1>7

\* The handler sees the values of a pipeline in the order of their collection,
\* up to fewer than as many late ones as the pool has workers.
THEOREM OvertakingIsBounded == Spec => []BoundedOvertaking
<1>1. Init => SomeWorkerBehind
  BY DEF Init, SomeWorkerBehind
<1> QED BY HandOverInit, HandOverStep, <1>1, BehindStep, BehindMeans, PTL DEF Spec

-----------------------------------------------------------------------------
(* The pace of a device name.                                              *)

NameOf(r) == DeviceName[DeviceOf(r)]

\* A pipeline that has not started has no results, no rounds and no last
\* collections; results of the others name a place of their device list.
ListKept ==
  /\ \A r \in sent : r.idx \in 1..Len(devs[r.pipe]) /\ pc[r.pipe] # "new"
  /\ \A p \in Pipeline : pc[p] = "new" => now[p] = 0

\* lastCollect is never behind a result already sent under that name.
LastNewest == \A r \in sent : r.time <= lastCollect[r.pipe][NameOf(r)]

\* The check that opened a collection still holds when its result is sent.
StillDue == \A p \in Pipeline : pc[p] \in {"collect", "send"} => Due(p)

PaceInv == HandOverInv /\ ListKept /\ LastNewest /\ StillDue /\ RateLimit

LEMMA SentFields ==
  ASSUME HandOverInv, NEW s \in sent
  PROVE  /\ s.pipe \in Pipeline /\ s.time \in Nat \ {0} /\ s.idx \in Nat \ {0}
         /\ s.time <= now[s.pipe]
<1>1. s \in Result
  BY DEF HandOverInv, TypeInv, TypeOK
<1>2. s.pipe \in Pipeline /\ s.time \in 1..MaxTime /\ s.idx \in Nat \ {0}
  BY <1>1 DEF Result
<1>3. now[s.pipe] \in 0..MaxTime
  BY <1>2 DEF HandOverInv, TypeInv, TypeOK
<1>4. s.time <= now[s.pipe]
  BY <1>2, <1>3, ConstantsAssumption DEF HandOverInv, Fresh
<1> QED BY <1>2, <1>4, ConstantsAssumption

LEMMA IntervalPositive ==
  ASSUME NEW d \in Device PROVE Interval(d) \in Nat \ {0}
BY ConstantsAssumption DEF Interval

\* Steps of a pipeline, or of anybody else, that send nothing.
LEMMA PaceUntouched ==
  ASSUME PaceInv, HandOverInv', UNCHANGED <<sent, lastCollect>>,
         \A p \in Pipeline : pc[p] # "new" => devs'[p] = devs[p] /\ pc'[p] # "new",
         \A p \in Pipeline : pc'[p] = "new" => now'[p] = now[p] /\ pc[p] = "new",
         StillDue'
  PROVE  PaceInv'
<1>1. \A r \in sent : r.pipe \in Pipeline /\ devs'[r.pipe] = devs[r.pipe]
  BY DEF PaceInv, ListKept, HandOverInv, TypeInv, TypeOK, Result
<1>2. ListKept'
  BY <1>1 DEF PaceInv, ListKept
<1>3. LastNewest' /\ RateLimit'
  BY <1>1 DEF PaceInv, LastNewest, RateLimit, NameOf, DeviceOf, Before, Interval
<1> QED BY <1>2, <1>3 DEF PaceInv

LEMMA PaceSend ==
  ASSUME PaceInv, HandOverInv', NEW p \in Pipeline, SendResult(p)
  PROVE  PaceInv'
<1> DEFINE r == [pipe |-> p, idx |-> idx[p], time |-> now[p]]
           n == DeviceName[Current(p)]
<1>1. /\ r \in Result /\ r \notin sent /\ \A s \in sent : ~Before(r, s)
  BY NewResult DEF PaceInv, HandOverInv, SendResult
<1>2. /\ sent' = sent \cup {r} /\ UNCHANGED <<now, devs>>
      /\ lastCollect' = [lastCollect EXCEPT ![p][n] = now[p]]
      /\ pc' = [pc EXCEPT ![p] = "scan"] /\ pc[p] = "send"
  BY DEF SendResult
<1>3. /\ TypeOK /\ idx[p] \in 1..Len(devs[p]) /\ Current(p) \in Device
      /\ n \in Name /\ n = NameOf(r) /\ r.time = now[p] /\ r.pipe = p
  BY <1>2, ConstantsAssumption
     DEF PaceInv, HandOverInv, TypeInv, TypeOK, InRound, Current, NameOf, DeviceOf
<1>4. ListKept'
  BY <1>2, <1>3 DEF PaceInv, ListKept, TypeOK
<1>5. StillDue'
  <2> SUFFICES ASSUME NEW q \in Pipeline, pc'[q] \in {"collect", "send"}
               PROVE  Due(q)'
    BY DEF StillDue
  <2>1. q # p BY <1>2, <1>3 DEF TypeOK
  <2>2. idx'[q] = idx[q] /\ lastCollect'[q] = lastCollect[q] /\ pc'[q] = pc[q]
    BY <1>2, <1>3, <2>1 DEF SendResult, TypeOK
  <2> QED BY <1>2, <2>2 DEF PaceInv, StillDue, Due, Current, Interval
<1>6. \A s \in sent : /\ s.pipe \in Pipeline /\ s.time \in Nat \ {0}
                      /\ DeviceOf(s) \in Device /\ NameOf(s) \in Name
                      /\ s.pipe = p => s.time <= now[p]
  <2> SUFFICES ASSUME NEW s \in sent
               PROVE  /\ s.pipe \in Pipeline /\ s.time \in Nat \ {0}
                      /\ DeviceOf(s) \in Device /\ NameOf(s) \in Name
                      /\ s.pipe = p => s.time <= now[p]
    OBVIOUS
  <2>1. /\ s.pipe \in Pipeline /\ s.time \in Nat \ {0}
        /\ s.pipe = p => s.time <= now[p]
    BY SentFields DEF PaceInv
  <2>2. DeviceOf(s) \in Device
    BY <2>1, <1>3 DEF PaceInv, ListKept, DeviceOf, TypeOK
  <2> QED BY <2>1, <2>2, ConstantsAssumption DEF NameOf
<1>7. LastNewest'
  <2> SUFFICES ASSUME NEW s \in sent'
               PROVE  s.time <= lastCollect'[s.pipe][NameOf(s)]
    BY <1>2 DEF LastNewest, NameOf, DeviceOf
  <2>1. CASE s = r
    BY <1>2, <1>3, <2>1, ConstantsAssumption DEF TypeOK
  <2>2. CASE s \in sent /\ s.pipe = p /\ NameOf(s) = n
    BY <1>2, <1>3, <1>6, <2>2 DEF TypeOK
  <2>3. CASE s \in sent /\ ~(s.pipe = p /\ NameOf(s) = n)
    <3>1. lastCollect'[s.pipe][NameOf(s)] = lastCollect[s.pipe][NameOf(s)]
      BY <1>2, <1>3, <1>6, <2>3 DEF TypeOK
    <3> QED BY <2>3, <3>1 DEF PaceInv, LastNewest
  <2> QED BY <1>2, <2>1, <2>2, <2>3
<1>8. RateLimit'
  <2> SUFFICES ASSUME NEW r1 \in sent', NEW r2 \in sent',
                      r1.pipe = r2.pipe, NameOf(r1) = NameOf(r2), Before(r1, r2)
               PROVE  r2.time - r1.time >= Interval(DeviceOf(r2))
    BY <1>2 DEF RateLimit, NameOf, DeviceOf, Before, Interval
  <2>1. CASE r1 \in sent /\ r2 \in sent
    BY <2>1 DEF PaceInv, RateLimit, NameOf
  <2>2. r1 # r
    <3> SUFFICES ASSUME r1 = r PROVE FALSE
      OBVIOUS
    <3>1. r2 = r
      BY <1>1, <1>2
    <3> QED BY <3>1, <1>3, ConstantsAssumption DEF Before, TypeOK
  <2>3. CASE r1 \in sent /\ r2 = r
    <3>1. r1.time <= lastCollect[p][n]
      BY <1>3, <2>3 DEF PaceInv, LastNewest
    <3>2. Due(p) /\ DeviceOf(r2) = Current(p)
      BY <1>2, <2>3 DEF PaceInv, StillDue, DeviceOf, Current
    <3>3. r1.time \in Nat \ {0} /\ lastCollect[p][n] \in Nat /\ now[p] \in Nat
      BY <1>3, <1>6, <2>3, ConstantsAssumption DEF TypeOK
    <3>4. Interval(Current(p)) \in Nat
      BY <1>3, IntervalPositive
    <3>5. now[p] - lastCollect[p][n] >= Interval(Current(p))
      BY <3>1, <3>2, <3>3 DEF Due
    <3> QED BY <1>3, <2>3, <3>1, <3>2, <3>3, <3>4, <3>5
  <2> QED BY <1>2, <2>1, <2>2, <2>3
<1> QED BY <1>4, <1>5, <1>7, <1>8 DEF PaceInv

LEMMA PaceStep == PaceInv /\ [Next]_vars => PaceInv'
<1> SUFFICES ASSUME PaceInv, [Next]_vars PROVE PaceInv'
  OBVIOUS
<1> USE DEF pipelineVars, parserVars
<1>1. HandOverInv' /\ HandOverInv
  BY HandOverStep DEF PaceInv
<1>2. /\ pc \in [Pipeline -> PcStates] /\ devs \in [Pipeline -> Seq(Device)]
      /\ now \in [Pipeline -> 0..MaxTime] /\ idx \in [Pipeline -> Nat \ {0}]
  BY <1>1 DEF HandOverInv, TypeInv, TypeOK
<1>3. ASSUME NEW p \in Pipeline, NEW ds \in DeviceList, StartCollectPipeline(p, ds)
      PROVE  PaceInv'
  <2>1. StillDue'
    BY <1>2, <1>3 DEF PaceInv, StillDue, StartCollectPipeline, Due, Current, Interval
  <2> QED BY <1>1, <1>2, <1>3, <2>1, PaceUntouched DEF StartCollectPipeline
<1>4. ASSUME NEW p \in Pipeline, Tick(p) PROVE PaceInv'
  <2>1. PICK t : now' = [now EXCEPT ![p] = t]
    BY <1>4 DEF Tick
  <2>2. StillDue'
    BY <1>2, <1>4, <2>1 DEF PaceInv, StillDue, Tick, Due, Current, Interval
  <2> QED BY <1>1, <1>2, <1>4, <2>1, <2>2, PaceUntouched DEF Tick
<1>5. ASSUME NEW p \in Pipeline, ExitPipeline(p) PROVE PaceInv'
  <2>1. StillDue'
    BY <1>2, <1>5 DEF PaceInv, StillDue, ExitPipeline, Due, Current, Interval
  <2> QED BY <1>1, <1>2, <1>5, <2>1, PaceUntouched DEF ExitPipeline
<1>6. ASSUME NEW p \in Pipeline, SkipDevice(p) PROVE PaceInv'
  <2>1. StillDue'
    BY <1>2, <1>6 DEF PaceInv, StillDue, SkipDevice, Due, Current, Interval
  <2> QED BY <1>1, <1>2, <1>6, <2>1, PaceUntouched DEF SkipDevice
<1>7. ASSUME NEW p \in Pipeline, BeginCollect(p) PROVE PaceInv'
  <2>1. StillDue'
    BY <1>2, <1>7 DEF PaceInv, StillDue, BeginCollect, Due, Current, Interval
  <2> QED BY <1>1, <1>2, <1>7, <2>1, PaceUntouched DEF BeginCollect
<1>8. ASSUME NEW p \in Pipeline, EndCollect(p) PROVE PaceInv'
  <2>1. StillDue'
    BY <1>2, <1>8 DEF PaceInv, StillDue, EndCollect, Due, Current, Interval
  <2> QED BY <1>1, <1>2, <1>8, <2>1, PaceUntouched DEF EndCollect
<1>9. ASSUME NEW p \in Pipeline, EndRound(p) PROVE PaceInv'
  <2>1. StillDue'
    BY <1>2, <1>9 DEF PaceInv, StillDue, EndRound, Due, Current, Interval
  <2> QED BY <1>1, <1>2, <1>9, <2>1, PaceUntouched DEF EndRound
<1>10. ASSUME UNCHANGED <<pipelineVars, sent>> PROVE PaceInv'
  <2>1. StillDue'
    BY <1>10 DEF PaceInv, StillDue, Due, Current, Interval
  <2> QED BY <1>1, <1>10, <2>1, PaceUntouched
<1>11. CASE StartParseWorkerPool BY <1>10, <1>11 DEF StartParseWorkerPool
<1>12. ASSUME NEW q \in Parser, ParserStep(q) PROVE PaceInv'
  BY <1>10, <1>12 DEF ParserStep, Receive, Handle, ExitParser
<1>13. ASSUME NEW p \in Pipeline, CloseStopCh(p) PROVE PaceInv'
  BY <1>10, <1>13 DEF CloseStopCh
<1>14. CASE CloseParseStop BY <1>10, <1>14 DEF CloseParseStop
<1>15. CASE UNCHANGED vars BY <1>10, <1>15 DEF vars
<1> QED
  BY <1>1, <1>3, <1>4, <1>5, <1>6, <1>7, <1>8, <1>9, <1>11, <1>12, <1>13,
     <1>14, <1>15, PaceSend DEF Next, PipelineStep, Owner

LEMMA PaceInit == Init => PaceInv
<1> SUFFICES ASSUME Init PROVE PaceInv
  OBVIOUS
<1>1. ListKept /\ LastNewest /\ StillDue /\ RateLimit
  BY DEF Init, ListKept, LastNewest, StillDue, RateLimit
<1> QED BY <1>1, HandOverInit DEF PaceInv

\* However the ticks fall, two results of a pipeline under one device name are
\* at least that device's interval apart.
THEOREM PaceRespected == Spec => []RateLimit
<1>1. PaceInv => RateLimit BY DEF PaceInv
<1> QED BY PaceInit, PaceStep, <1>1, PTL DEF Spec

-----------------------------------------------------------------------------
(* Every device is served, when no two devices of a list share a name.     *)

NamesDiffer(ds) ==
  \A i, j \in DOMAIN ds : DeviceName[ds[i]] = DeviceName[ds[j]] => i = j

UniqueNamesInLists == \A ds \in DeviceList : NamesDiffer(ds)

\* What the pipelines at work need of it.
UniqueNamesAtWork == \A p \in Pipeline : NamesDiffer(devs[p])

\* Device i of p has a result younger than its interval.
Served(p, i) ==
  \E r \in sent : /\ r.pipe = p /\ r.idx = i
                  /\ now[p] - r.time < Interval(devs[p][i])

\* A recorded collection time is the time of a result of that very device.
LastWitnessed ==
  \A p \in Pipeline : \A i \in DOMAIN devs[p] :
    LET last == lastCollect[p][DeviceName[devs[p][i]]]
    IN  last # 0 => \E r \in sent : r.pipe = p /\ r.idx = i /\ r.time = last

\* The devices the round has passed are served.
ServedSoFar ==
  \A p \in Pipeline :
    /\ pc[p] = "new" => \A n \in Name : lastCollect[p][n] = 0
    /\ pc[p] \in {"scan", "collect", "send"} =>
         \A i \in DOMAIN devs[p] : i < idx[p] => Served(p, i)
    /\ pc[p] = "select" /\ now[p] > 0 => \A i \in DOMAIN devs[p] : Served(p, i)

ServeInv == PaceInv /\ LastWitnessed /\ ServedSoFar

\* What the steps below use of the types.
LEMMA ServeTypes ==
  ASSUME ServeInv
  PROVE  /\ pc \in [Pipeline -> PcStates] /\ devs \in [Pipeline -> Seq(Device)]
         /\ now \in [Pipeline -> Nat] /\ idx \in [Pipeline -> Nat \ {0}]
         /\ lastCollect \in [Pipeline -> [Name -> Nat]]
<1>1. /\ pc \in [Pipeline -> PcStates] /\ devs \in [Pipeline -> Seq(Device)]
      /\ now \in [Pipeline -> 0..MaxTime] /\ idx \in [Pipeline -> Nat \ {0}]
      /\ lastCollect \in [Pipeline -> [Name -> 0..MaxTime]]
  BY DEF ServeInv, PaceInv, HandOverInv, TypeInv, TypeOK
<1>2. 0..MaxTime \subseteq Nat
  BY ConstantsAssumption
<1>3. now \in [Pipeline -> Nat]
  BY <1>1, <1>2
<1>4. lastCollect \in [Pipeline -> [Name -> Nat]]
  BY <1>1, <1>2
<1> QED BY <1>1, <1>3, <1>4

\* Steps that change neither results nor the lists and times of rounds.
LEMMA ServeUntouched ==
  ASSUME ServeInv, PaceInv', UNCHANGED <<sent, lastCollect, devs, now>>,
         ServedSoFar'
  PROVE  ServeInv'
BY DEF ServeInv, LastWitnessed

LEMMA ServeSend ==
  ASSUME UniqueNamesAtWork, ServeInv, PaceInv', NEW p \in Pipeline, SendResult(p)
  PROVE  ServeInv'
<1> DEFINE r == [pipe |-> p, idx |-> idx[p], time |-> now[p]]
           n == DeviceName[Current(p)]
<1>1. /\ sent' = sent \cup {r} /\ UNCHANGED <<now, devs>>
      /\ lastCollect' = [lastCollect EXCEPT ![p][n] = now[p]]
      /\ pc' = [pc EXCEPT ![p] = "scan"] /\ pc[p] = "send"
      /\ idx' = [idx EXCEPT ![p] = idx[p] + 1]
  BY DEF SendResult
<1>2. /\ pc \in [Pipeline -> PcStates] /\ devs \in [Pipeline -> Seq(Device)]
      /\ now \in [Pipeline -> Nat] /\ idx \in [Pipeline -> Nat \ {0}]
      /\ lastCollect \in [Pipeline -> [Name -> Nat]]
  BY ServeTypes
<1>3. /\ idx[p] \in DOMAIN devs[p] /\ Current(p) = devs[p][idx[p]]
      /\ Current(p) \in Device /\ n \in Name
  BY <1>1, <1>2, ConstantsAssumption
     DEF ServeInv, PaceInv, HandOverInv, TypeInv, InRound, Current
<1>4. r \in sent' /\ r.pipe = p /\ r.idx = idx[p] /\ r.time = now[p]
  BY <1>1
<1>5. LastWitnessed'
  <2> SUFFICES ASSUME NEW q \in Pipeline, NEW i \in DOMAIN devs[q],
                      lastCollect'[q][DeviceName[devs[q][i]]] # 0
               PROVE  \E s \in sent' :
                        /\ s.pipe = q /\ s.idx = i
                        /\ s.time = lastCollect'[q][DeviceName[devs[q][i]]]
    BY <1>1 DEF LastWitnessed
  <2> DEFINE m == DeviceName[devs[q][i]]
  <2>1. m \in Name
    BY <1>2, ConstantsAssumption
  <2>2. CASE q = p /\ m = n
    <3>1. NamesDiffer(devs[p])
      BY DEF UniqueNamesAtWork
    <3>2. i = idx[p]
      BY <1>3, <2>2, <3>1 DEF NamesDiffer
    <3>3. lastCollect'[q][m] = now[p]
      BY <1>1, <1>2, <1>3, <2>2
    <3> QED BY <1>4, <2>2, <3>2, <3>3
  <2>3. CASE ~(q = p /\ m = n)
    <3>1. lastCollect'[q][m] = lastCollect[q][m]
      BY <1>1, <1>2, <1>3, <2>1, <2>3
    <3> QED BY <3>1, <1>1 DEF ServeInv, LastWitnessed
  <2> QED BY <2>2, <2>3
<1>6. ServedSoFar'
  <2>1. \A q \in Pipeline : \A i \in DOMAIN devs[q] : Served(q, i) => Served(q, i)'
    BY <1>1 DEF Served, Interval
  <2> PICK k : k = idx[p]
    OBVIOUS
  <2>2. Served(p, k)'
    <3>1. now[p] - r.time < Interval(devs[p][k])
      BY <1>2, <1>3, <1>4, IntervalPositive
    <3> QED BY <1>1, <1>4, <3>1 DEF Served, Interval
  <2>3. \A q \in Pipeline : q # p => pc'[q] = pc[q] /\ idx'[q] = idx[q]
                                     /\ lastCollect'[q] = lastCollect[q]
    BY <1>1, <1>2
  <2>4. pc'[p] = "scan" /\ idx'[p] = idx[p] + 1
    BY <1>1, <1>2
  <2>5. \A i \in DOMAIN devs[p] : i < idx[p] + 1 => i < idx[p] \/ i = k
    BY <1>2
  <2>6. \A i \in DOMAIN devs[p] : i < idx[p] => Served(p, i)
    BY <1>1 DEF ServeInv, ServedSoFar
  <2> SUFFICES ASSUME NEW q \in Pipeline
               PROVE  /\ pc'[q] = "new" => \A m \in Name : lastCollect'[q][m] = 0
                      /\ pc'[q] \in {"scan", "collect", "send"} =>
                           \A i \in DOMAIN devs[q] : i < idx'[q] => Served(q, i)'
                      /\ pc'[q] = "select" /\ now[q] > 0 =>
                           \A i \in DOMAIN devs[q] : Served(q, i)'
    BY <1>1 DEF ServedSoFar
  <2>7. CASE q = p
    <3>1. \A i \in DOMAIN devs[p] : i < idx'[p] => Served(p, i)'
      BY <2>1, <2>2, <2>4, <2>5, <2>6
    <3> QED BY <2>4, <2>7, <3>1
  <2>8. CASE q # p
    BY <2>1, <2>3, <2>8 DEF ServeInv, ServedSoFar
  <2> QED BY <2>7, <2>8
<1> QED BY <1>5, <1>6 DEF ServeInv

LEMMA ServeSkip ==
  ASSUME ServeInv, PaceInv', NEW p \in Pipeline, SkipDevice(p)
  PROVE  ServeInv'
<1>1. /\ UNCHANGED <<pc, devs, now, lastCollect, sent>> /\ pc[p] = "scan"
      /\ idx' = [idx EXCEPT ![p] = idx[p] + 1]
      /\ ~Due(p) /\ idx[p] <= Len(devs[p])
  BY DEF SkipDevice
<1>2. /\ devs \in [Pipeline -> Seq(Device)] /\ now \in [Pipeline -> Nat]
      /\ idx \in [Pipeline -> Nat \ {0}]
  BY ServeTypes
<1>3. \A q \in Pipeline : \A i \in DOMAIN devs[q] : Served(q, i) => Served(q, i)'
  BY <1>1 DEF Served, Interval
<1>4. Served(p, idx[p])
  <2> DEFINE last == lastCollect[p][DeviceName[devs[p][idx[p]]]]
  <2>1. idx[p] \in DOMAIN devs[p]
    BY <1>1, <1>2
  <2>2. last # 0 /\ ~(now[p] - last >= Interval(devs[p][idx[p]]))
    BY <1>1 DEF Due, Current
  <2>3. PICK r \in sent : r.pipe = p /\ r.idx = idx[p] /\ r.time = last
    BY <2>1, <2>2 DEF ServeInv, LastWitnessed
  <2>4. /\ r.time \in Int /\ now[p] \in Int /\ Interval(devs[p][idx[p]]) \in Int
    BY <1>2, <2>1, <2>3, SentFields, IntervalPositive DEF ServeInv, PaceInv
  <2> QED BY <2>2, <2>3, <2>4 DEF Served
<1>5. \A i \in DOMAIN devs[p] : i < idx[p] + 1 => i < idx[p] \/ i = idx[p]
  BY <1>2
<1>6. idx'[p] = idx[p] + 1 /\ \A q \in Pipeline : q # p => idx'[q] = idx[q]
  BY <1>1, <1>2
<1>7. \A i \in DOMAIN devs[p] : i < idx'[p] => Served(p, i)'
  <2>1. \A i \in DOMAIN devs[p] : i < idx[p] => Served(p, i)
    BY <1>1 DEF ServeInv, ServedSoFar
  <2> QED BY <1>3, <1>4, <1>5, <1>6, <2>1
<1>8. ServedSoFar'
  BY <1>1, <1>3, <1>6, <1>7 DEF ServeInv, ServedSoFar
<1> QED BY <1>1, <1>8, ServeUntouched

LEMMA ServeStart ==
  ASSUME ServeInv, PaceInv', NEW p \in Pipeline, NEW ds \in DeviceList,
         StartCollectPipeline(p, ds)
  PROVE  ServeInv'
<1>1. /\ UNCHANGED <<now, lastCollect, sent, idx>> /\ pc[p] = "new"
      /\ devs' = [devs EXCEPT ![p] = ds] /\ pc' = [pc EXCEPT ![p] = "select"]
  BY DEF StartCollectPipeline
<1>2. /\ pc \in [Pipeline -> PcStates] /\ devs \in [Pipeline -> Seq(Device)]
  BY ServeTypes
<1>3. /\ devs'[p] = ds /\ pc'[p] = "select"
      /\ \A q \in Pipeline : q # p => devs'[q] = devs[q] /\ pc'[q] = pc[q]
  BY <1>1, <1>2
<1>4. /\ now[p] = 0
      /\ \A m \in Name : lastCollect[p][m] = 0
  BY <1>1 DEF ServeInv, ServedSoFar, PaceInv, ListKept
<1>5. LastWitnessed'
  <2> SUFFICES ASSUME NEW q \in Pipeline, NEW i \in DOMAIN devs'[q],
                      lastCollect[q][DeviceName[devs'[q][i]]] # 0
               PROVE  \E s \in sent :
                        /\ s.pipe = q /\ s.idx = i
                        /\ s.time = lastCollect[q][DeviceName[devs'[q][i]]]
    BY <1>1 DEF LastWitnessed
  <2>1. q # p
    <3> SUFFICES ASSUME q = p PROVE FALSE
      OBVIOUS
    <3>1. ds[i] \in Device
      BY <1>3, ConstantsAssumption
    <3> QED BY <1>3, <1>4, <3>1, ConstantsAssumption
  <2> QED BY <1>3, <2>1 DEF ServeInv, LastWitnessed
<1>6. ServedSoFar'
  <2> SUFFICES ASSUME NEW q \in Pipeline
               PROVE  /\ pc'[q] = "new" => \A m \in Name : lastCollect[q][m] = 0
                      /\ pc'[q] \in {"scan", "collect", "send"} =>
                           \A i \in DOMAIN devs'[q] : i < idx[q] => Served(q, i)'
                      /\ pc'[q] = "select" /\ now[q] > 0 =>
                           \A i \in DOMAIN devs'[q] : Served(q, i)'
    BY <1>1 DEF ServedSoFar
  <2>1. CASE q = p
    BY <1>3, <1>4, <2>1
  <2>2. CASE q # p
    <3>1. \A i \in DOMAIN devs[q] : Served(q, i) => Served(q, i)'
      BY <1>1, <1>3, <2>2 DEF Served, Interval
    <3> QED BY <1>3, <2>2, <3>1 DEF ServeInv, ServedSoFar
  <2> QED BY <2>1, <2>2
<1> QED BY <1>5, <1>6 DEF ServeInv

LEMMA ServeTick ==
  ASSUME ServeInv, PaceInv', NEW p \in Pipeline, Tick(p)
  PROVE  ServeInv'
<1>1. PICK t : now' = [now EXCEPT ![p] = t]
  BY DEF Tick
<1>2. /\ UNCHANGED <<devs, lastCollect, sent>> /\ idx' = [idx EXCEPT ![p] = 1]
      /\ pc' = [pc EXCEPT ![p] = "scan"] /\ pc[p] = "select"
  BY DEF Tick
<1>3. /\ pc \in [Pipeline -> PcStates] /\ idx \in [Pipeline -> Nat \ {0}]
      /\ now \in [Pipeline -> Nat] /\ devs \in [Pipeline -> Seq(Device)]
  BY ServeTypes
<1>4. /\ idx'[p] = 1 /\ pc'[p] = "scan"
      /\ \A q \in Pipeline : q # p => /\ idx'[q] = idx[q] /\ pc'[q] = pc[q]
                                      /\ now'[q] = now[q]
  BY <1>1, <1>2, <1>3
<1>5. \A i \in DOMAIN devs[p] : ~(i < 1)
  BY <1>3
<1>6. ServedSoFar'
  <2> SUFFICES ASSUME NEW q \in Pipeline
               PROVE  /\ pc'[q] = "new" => \A m \in Name : lastCollect[q][m] = 0
                      /\ pc'[q] \in {"scan", "collect", "send"} =>
                           \A i \in DOMAIN devs[q] : i < idx'[q] => Served(q, i)'
                      /\ pc'[q] = "select" /\ now'[q] > 0 =>
                           \A i \in DOMAIN devs[q] : Served(q, i)'
    BY <1>2 DEF ServedSoFar
  <2>1. CASE q = p
    BY <1>4, <1>5, <2>1 DEF ServeInv, ServedSoFar
  <2>2. CASE q # p
    <3>1. \A i \in DOMAIN devs[q] : Served(q, i) => Served(q, i)'
      BY <1>2, <1>4, <2>2 DEF Served, Interval
    <3> QED BY <1>4, <2>2, <3>1 DEF ServeInv, ServedSoFar
  <2> QED BY <2>1, <2>2
<1>7. LastWitnessed'
  BY <1>2 DEF ServeInv, LastWitnessed
<1> QED BY <1>6, <1>7 DEF ServeInv

\* The remaining steps of a pipeline move its program counter only, and to
\* places where nothing more is claimed than before.
LEMMA ServeMove ==
  ASSUME ServeInv, PaceInv', UNCHANGED <<devs, now, idx, lastCollect, sent>>,
         \A p \in Pipeline :
           \/ pc'[p] = pc[p]
           \/ pc[p] = "select" /\ pc'[p] = "done"
           \/ pc[p] \in {"scan", "collect"} /\ pc'[p] \in {"collect", "send"}
           \/ /\ pc[p] = "scan" /\ pc'[p] = "select"
              /\ idx[p] > Len(devs[p])
  PROVE  ServeInv'
<1>1. \A q \in Pipeline : \A i \in DOMAIN devs[q] : Served(q, i) => Served(q, i)'
  BY DEF Served, Interval
<1>2. /\ devs \in [Pipeline -> Seq(Device)] /\ idx \in [Pipeline -> Nat \ {0}]
  BY ServeTypes
<1>3. \A q \in Pipeline : \A i \in DOMAIN devs[q] :
        idx[q] > Len(devs[q]) => i < idx[q]
  BY <1>2
<1>4. ServedSoFar'
  BY <1>1, <1>3 DEF ServeInv, ServedSoFar
<1> QED BY <1>4, ServeUntouched

LEMMA ServeStep == UniqueNamesAtWork /\ ServeInv /\ [Next]_vars => ServeInv'
<1> SUFFICES ASSUME UniqueNamesAtWork, ServeInv, [Next]_vars PROVE ServeInv'
  OBVIOUS
<1> USE DEF pipelineVars, parserVars
<1>1. PaceInv'
  BY PaceStep DEF ServeInv
<1>2. pc \in [Pipeline -> PcStates]
  BY ServeTypes
<1>3. ASSUME NEW p \in Pipeline, ExitPipeline(p) PROVE ServeInv'
  BY <1>1, <1>2, <1>3, ServeMove DEF ExitPipeline
<1>4. ASSUME NEW p \in Pipeline, BeginCollect(p) PROVE ServeInv'
  BY <1>1, <1>2, <1>4, ServeMove DEF BeginCollect
<1>5. ASSUME NEW p \in Pipeline, EndCollect(p) PROVE ServeInv'
  BY <1>1, <1>2, <1>5, ServeMove DEF EndCollect
<1>6. ASSUME NEW p \in Pipeline, EndRound(p) PROVE ServeInv'
  BY <1>1, <1>2, <1>6, ServeMove DEF EndRound
<1>7. ASSUME UNCHANGED <<pipelineVars, sent>> PROVE ServeInv'
  BY <1>1, <1>7, ServeMove
<1>8. CASE StartParseWorkerPool BY <1>7, <1>8 DEF StartParseWorkerPool
<1>9. ASSUME NEW q \in Parser, ParserStep(q) PROVE ServeInv'
  BY <1>7, <1>9 DEF ParserStep, Receive, Handle, ExitParser
<1>10. ASSUME NEW p \in Pipeline, CloseStopCh(p) PROVE ServeInv'
  BY <1>7, <1>10 DEF CloseStopCh
<1>11. CASE CloseParseStop BY <1>7, <1>11 DEF CloseParseStop
<1>12. CASE UNCHANGED vars BY <1>7, <1>12 DEF vars
<1> QED
  BY <1>1, <1>3, <1>4, <1>5, <1>6, <1>8, <1>9, <1>10, <1>11, <1>12, ServeStart,
     ServeTick, ServeSkip, ServeSend DEF Next, PipelineStep, Owner

LEMMA ServeInit == Init => ServeInv
<1> SUFFICES ASSUME Init PROVE ServeInv
  OBVIOUS
<1>1. LastWitnessed /\ ServedSoFar
  BY DEF Init, LastWitnessed, ServedSoFar
<1> QED BY <1>1, PaceInit DEF ServeInv

LEMMA ServeMeans == ServeInv => RoundServesEveryDevice
BY DEF ServeInv, ServedSoFar, RoundServesEveryDevice, Served

\* When the names in every device list are distinct, a finished round leaves
\* every device of the pipeline with a result younger than its interval.
THEOREM EveryDeviceServed ==
  ASSUME UniqueNamesInLists PROVE Spec => []RoundServesEveryDevice
<1>1. Init => UniqueNamesAtWork
  BY DEF Init, UniqueNamesAtWork, NamesDiffer
<1>2. UniqueNamesAtWork /\ ServeInv /\ [Next]_vars => UniqueNamesAtWork'
  <2> SUFFICES ASSUME UniqueNamesAtWork, ServeInv, [Next]_vars PROVE UniqueNamesAtWork'
    OBVIOUS
  <2>1. CASE UNCHANGED devs
    BY <2>1 DEF UniqueNamesAtWork, NamesDiffer
  <2>2. ASSUME NEW p \in Pipeline, NEW ds \in DeviceList, StartCollectPipeline(p, ds)
        PROVE  UniqueNamesAtWork'
    <3>1. devs \in [Pipeline -> Seq(Device)] BY ServeTypes
    <3>2. devs' = [devs EXCEPT ![p] = ds] BY <2>2 DEF StartCollectPipeline
    <3> QED BY <3>1, <3>2 DEF UniqueNamesAtWork, UniqueNamesInLists, NamesDiffer
  <2> QED
    BY <2>1, <2>2
       DEF Next, PipelineStep, ParserStep, Owner, Tick, SkipDevice, BeginCollect, EndCollect,
           SendResult, EndRound, ExitPipeline, Receive, Handle, ExitParser,
           StartParseWorkerPool, CloseStopCh, CloseParseStop, pipelineVars, vars
<1> QED BY ServeInit, ServeStep, ServeMeans, <1>1, <1>2, PTL DEF Spec

-----------------------------------------------------------------------------
(* The end of a pipeline.                                                  *)

\* A goroutine leaves only when its stop channel is closed: no error of a device
\* and no full channel ends the collection of a bus.
LeavesWhenTold == \A p \in Pipeline : pc[p] = "done" => stopCh[p]

LEMMA LeavesInit == Init => LeavesWhenTold
BY DEF Init, LeavesWhenTold

LEMMA LeavesStep == TypeInv /\ LeavesWhenTold /\ [Next]_vars => LeavesWhenTold'
<1> SUFFICES ASSUME TypeInv, LeavesWhenTold, [Next]_vars PROVE LeavesWhenTold'
  OBVIOUS
<1>1. /\ pc \in [Pipeline -> PcStates] /\ stopCh \in [Pipeline -> BOOLEAN]
  BY DEF TypeInv, TypeOK
<1>2. ASSUME NEW p \in Pipeline, PipelineStep(p) PROVE LeavesWhenTold'
  <2>1. stopCh' = stopCh /\ \A q \in Pipeline : q # p => pc'[q] = pc[q]
    BY <1>1, <1>2
       DEF PipelineStep, Tick, SkipDevice, BeginCollect, EndCollect, SendResult, EndRound,
           ExitPipeline
  <2>2. pc'[p] = "done" => stopCh[p]
    BY <1>1, <1>2
       DEF PipelineStep, Tick, SkipDevice, BeginCollect, EndCollect, SendResult, EndRound,
           ExitPipeline, LeavesWhenTold
  <2> QED BY <2>1, <2>2 DEF LeavesWhenTold
<1>3. ASSUME NEW q \in Parser, ParserStep(q) PROVE LeavesWhenTold'
  BY <1>3 DEF ParserStep, Receive, Handle, ExitParser, pipelineVars, LeavesWhenTold
<1>4. ASSUME NEW p \in Pipeline, NEW ds \in DeviceList, StartCollectPipeline(p, ds)
      PROVE  LeavesWhenTold'
  BY <1>1, <1>4 DEF StartCollectPipeline, LeavesWhenTold
<1>5. ASSUME NEW p \in Pipeline, CloseStopCh(p) PROVE LeavesWhenTold'
  BY <1>1, <1>5 DEF CloseStopCh, pipelineVars, LeavesWhenTold
<1>6. CASE StartParseWorkerPool \/ CloseParseStop \/ UNCHANGED vars
  BY <1>6 DEF StartParseWorkerPool, CloseParseStop, pipelineVars, vars, LeavesWhenTold
<1> QED BY <1>2, <1>3, <1>4, <1>5, <1>6 DEF Next, Owner
=============================================================================
