--------------------------- MODULE ModbusBusProofs ---------------------------
(***************************************************************************)
(* Theorems about ModbusBus, for any number of requests, pollers, devices  *)
(* and points and any capacity of the queues.                              *)
(***************************************************************************)
EXTENDS ModbusBus, DataLemmas, FiniteSetTheorems

-----------------------------------------------------------------------------
(* Type correctness.                                                       *)

\* The worker has a request in hand while it handles or answers one.
InHand == worker \in {"handle", "answer"} <=> task # NoTask

TypeInv == BusTypeOK /\ InHand

LEMMA Uint16Type ==
  /\ \A n \in Int : n % UintSize \in Uint16
  /\ \A a \in Uint16 : a \in Nat /\ a < UintSize
<1>1. ASSUME NEW n \in Int PROVE n % UintSize \in Uint16
  BY SMT DEF Uint16, UintSize
<1>2. ASSUME NEW a \in Uint16 PROVE a \in Nat /\ a < UintSize
  BY SMT DEF Uint16, UintSize
<1> QED BY <1>1, <1>2

\* start and quantity of a batch are what is left of two ints in 16 bits.
LEMMA QuantityType ==
  ASSUME NEW p \in Readable
  PROVE  Cardinality({q.addr : q \in Region(p)}) % UintSize \in Uint16
<1> DEFINE A == {q.addr : q \in Region(p)}
           f == [q \in Region(p) |-> q.addr]
<1>1. IsFiniteSet(Region(p))
  <2>1. Region(p) \subseteq Points BY DEF Region, Readable
  <2> QED BY <2>1, BusAssumption, FS_Subset
<1>2. f \in Surjection(Region(p), A) BY DEF Surjection
<1>3. Cardinality(A) \in Nat
  BY <1>1, <1>2, FS_Surjection, FS_CardinalityType
<1>4. Cardinality(A) \in Int BY <1>3
<1> QED BY <1>4, Uint16Type

LEMMA ReadBatchType ==
  ASSUME NEW p \in Readable, ReadBatch(p), unread \in SUBSET Readable
  PROVE  unread' \in SUBSET Readable /\ batch' \in Batch
<1>1. p.dev \in Device /\ p.func \in STRING /\ p.addr \in Int
  BY BusAssumption DEF Readable
<1>2. p.addr % UintSize \in Uint16 BY <1>1, Uint16Type
<1> QED BY <1>1, <1>2, QuantityType DEF ReadBatch, Batch

LEMMA ConnectType ==
  ASSUME NEW a \in Adapter, NEW c \in Connect(a) \cup Disconnect(a)
  PROVE  c.adapter \in Adapter
<1>1. /\ [opened |-> TRUE, client |-> TRUE] \in Adapter
      /\ [a EXCEPT !.opened = FALSE] \in Adapter
  BY DEF Adapter
<1>2. CASE a.opened
  <2>1. \/ c = [adapter |-> a, err |-> FALSE]
        \/ c = [adapter |-> a, err |-> TRUE]
        \/ c = [adapter |-> [a EXCEPT !.opened = FALSE], err |-> FALSE]
    BY <1>2, Zenon DEF Connect, Disconnect
  <2>2. c.adapter \in {a, [a EXCEPT !.opened = FALSE]}
    BY <2>1
  <2> QED BY <1>1, <2>2
<1>3. CASE ~a.opened
  <2>1. \/ c = [adapter |-> a, err |-> FALSE]
        \/ c = [adapter |-> a, err |-> TRUE]
        \/ c = [adapter |-> [opened |-> TRUE, client |-> TRUE], err |-> FALSE]
    BY <1>3, Zenon DEF Connect, Disconnect
  <2>2. c.adapter \in {a, [opened |-> TRUE, client |-> TRUE]}
    BY <2>1
  <2> QED BY <1>1, <2>2
<1> QED BY <1>2, <1>3

LEMMA TypeInit == Init => TypeInv
<1> SUFFICES ASSUME Init PROVE TypeInv
  OBVIOUS
<1>1. ctrlQ \in Seq(Task) /\ Len(ctrlQ) = 0
  BY DEF Init
<1>2. /\ pollQ \in 0..PollCap /\ NewModbusAdapter \in Adapter /\ Len(ctrlQ) <= CtrlCap
      /\ latePolls \in Nat
  BY <1>1, BusAssumption DEF Init, Adapter, NewModbusAdapter
<1> QED BY <1>1, <1>2 DEF Init, TypeInv, BusTypeOK, InHand, WorkerStates

LEMMA TypeStep == TypeInv /\ [Next]_vars => TypeInv'
<1> SUFFICES ASSUME TypeInv, [Next]_vars PROVE TypeInv'
  OBVIOUS
<1> USE BusAssumption DEF TypeInv, BusTypeOK, InHand, WorkerStates, queueVars,
        controlVars, pollVars, callVars, historyVars
<1>0. ASSUME NEW d \in Device, ConnectAdapter(d) \/ DisconnectAdapter(d) PROVE TypeInv'
  <2>1. PICK c \in Connect(adapter[d]) \cup Disconnect(adapter[d]) :
          adapter' = [adapter EXCEPT ![d] = c.adapter]
    BY <1>0 DEF ConnectAdapter, DisconnectAdapter
  <2>2. adapter' \in [Device -> Adapter]
    BY <2>1, ConnectType
  <2> QED BY <1>0, <2>2 DEF ConnectAdapter, DisconnectAdapter
<1>1. ASSUME NEW t \in Task, ControlAsync(t) PROVE TypeInv'
  BY <1>1 DEF ControlAsync
<1>2. ASSUME NEW t \in Task, EnqueueControl(t) PROVE TypeInv'
  <2>1. ctrlQ' \in Seq(Task) /\ Len(ctrlQ') <= CtrlCap
    BY <1>2 DEF EnqueueControl
  <2> QED BY <1>2, <2>1 DEF EnqueueControl
<1>3. ASSUME NEW p \in Poller, CallEnqueuePoll(p) \/ EnqueuePoll(p) PROVE TypeInv'
  <2>1. CASE CallEnqueuePoll(p)
    BY <2>1 DEF CallEnqueuePoll
  <2>2. CASE EnqueuePoll(p)
    <3>1. pollQ' \in 0..PollCap BY <2>2 DEF EnqueuePoll
    <3> QED BY <2>2, <3>1 DEF EnqueuePoll
  <2> QED BY <1>3, <2>1, <2>2
<1>4. CASE Stop \/ ReturnFromStop \/ Start \/ Tick
  BY <1>4 DEF Stop, ReturnFromStop, Start, Tick
<1>5. CASE Quit \/ FallThrough \/ EndPoll
  BY <1>5 DEF Quit, FallThrough, EndPoll
<1>10. ASSUME NEW p \in Readable, ReadBatch(p) \/ PanicInPoll(p) PROVE TypeInv'
  <2>1. CASE ReadBatch(p)
    BY <2>1, ReadBatchType DEF ReadBatch
  <2>2. CASE PanicInPoll(p)
    BY <2>2 DEF PanicInPoll
  <2> QED BY <1>10, <2>1, <2>2
<1>6. CASE TakeControl
  <2>1. ctrlQ' \in Seq(Task) /\ Len(ctrlQ') <= CtrlCap /\ task' \in Task
    BY <1>6 DEF TakeControl
  <2> QED BY <1>6, <2>1 DEF TakeControl
<1>7. CASE TakeTick \/ TakePoll
  <2>1. overtaken' \in [Task -> Nat] /\ latePolls' \in Nat
    <3>1. BeginPoll BY <1>7 DEF TakeTick, TakePoll
    <3>2. overtaken \in [Task -> Nat] /\ latePolls \in Nat
      OBVIOUS
    <3>3. overtaken' \in [Task -> Nat]
      BY ONLY <3>1, <3>2 DEF BeginPoll
    <3> QED BY <3>1, <3>2, <3>3 DEF BeginPoll
  <2>2. unread' \in SUBSET Readable /\ batch' = NoBatch
    BY <1>7 DEF TakeTick, TakePoll, BeginPoll
  <2>3. pollQ' \in 0..PollCap
    BY <1>7 DEF TakeTick, TakePoll
  <2> QED BY <1>7, <2>1, <2>2, <2>3 DEF TakeTick, TakePoll, BeginPoll
<1>8. CASE handleControl
  <2>1. CASE Refuse
    BY <2>1 DEF Refuse
  <2>3. CASE WriteModbus
    <3>1. PICK o \in WriteOutcomes(adapter[Target[task]]) :
            adapter' = [adapter EXCEPT ![Target[task]] = o.adapter] /\ failed' = o.err
      BY <2>3 DEF WriteModbus
    <3>2. o.adapter \in Adapter /\ o.err \in BOOLEAN
      BY DEF WriteOutcomes
    <3> QED BY <2>3, <3>1, <3>2 DEF WriteModbus
  <2>2. CASE Answer
    BY <2>2 DEF Answer
  <2> QED BY <1>8, <2>1, <2>2, <2>3 DEF handleControl
<1>9. CASE UNCHANGED vars
  BY <1>9 DEF vars
<1> QED
  BY <1>0, <1>1, <1>2, <1>3, <1>4, <1>5, <1>6, <1>7, <1>8, <1>9, <1>10
     DEF Next, WorkerStep, doBatchCollect

\* Type correctness; in particular neither queue ever exceeds its capacity.
THEOREM BusTypeCorrect == Spec => []BusTypeOK
<1>1. TypeInv => BusTypeOK BY DEF TypeInv
<1> QED BY TypeInit, TypeStep, <1>1, PTL DEF Spec

-----------------------------------------------------------------------------
(* The select in the select.                                               *)

\* The worker falls through to the inner select only with an empty queue, so
\* what arrives while it is there has not been overtaken by any poll; and a
\* request that is still being sent cannot have been overtaken.
NotYetOvertaken ==
  /\ \A t \in Task : overtaken[t] <= 1
  /\ \A t \in Task : phase[t] # "sent" => overtaken[t] = 0 /\ t \notin Range(ctrlQ)
  /\ worker = "inner" => \A t \in Range(ctrlQ) : overtaken[t] = 0

\* Likewise it falls through only while quitQ is open.
OneLatePoll ==
  /\ latePolls <= 1
  /\ ~quitQ \/ worker = "inner" => latePolls = 0

SelectInv == TypeInv /\ NotYetOvertaken /\ OneLatePoll

LEMMA SelectInit == Init => SelectInv
<1> SUFFICES ASSUME Init PROVE SelectInv
  OBVIOUS
<1>1. Range(ctrlQ) = {} BY DEF Init, Range
<1> QED BY <1>1, TypeInit DEF Init, SelectInv, NotYetOvertaken, OneLatePoll

LEMMA SelectStep == SelectInv /\ [Next]_vars => SelectInv'
<1> SUFFICES ASSUME SelectInv, [Next]_vars PROVE SelectInv'
  OBVIOUS
<1> USE DEF SelectInv, NotYetOvertaken, OneLatePoll, queueVars, controlVars, pollVars,
        callVars, historyVars
<1>1. TypeInv' BY TypeStep
<1>2. /\ ctrlQ \in Seq(Task) /\ overtaken \in [Task -> Nat] /\ latePolls \in Nat
      /\ phase \in [Task -> {"new", "sending", "sent"}]
  BY DEF TypeInv, BusTypeOK
<1>13. ASSUME NEW d \in Device, ConnectAdapter(d) \/ DisconnectAdapter(d) PROVE SelectInv'
  BY <1>1, <1>13 DEF ConnectAdapter, DisconnectAdapter
<1>3. ASSUME NEW t \in Task, ControlAsync(t) PROVE SelectInv'
  BY <1>1, <1>2, <1>3 DEF ControlAsync
<1>4. ASSUME NEW t \in Task, EnqueueControl(t) PROVE SelectInv'
  <2>1. Range(ctrlQ') = Range(ctrlQ) \cup {t}
    BY <1>2, <1>4, RangeAppend DEF EnqueueControl
  <2> QED BY <1>1, <1>2, <1>4, <2>1 DEF EnqueueControl
<1>5. ASSUME NEW p \in Poller, CallEnqueuePoll(p) \/ EnqueuePoll(p) PROVE SelectInv'
  BY <1>1, <1>5 DEF CallEnqueuePoll, EnqueuePoll
<1>6. CASE Stop \/ ReturnFromStop \/ Start \/ Tick
  BY <1>1, <1>6 DEF Stop, ReturnFromStop, Start, Tick
<1>7. CASE Quit \/ EndPoll
  BY <1>1, <1>7 DEF Quit, EndPoll
<1>14. ASSUME NEW p \in Readable, ReadBatch(p) \/ PanicInPoll(p) PROVE SelectInv'
  BY <1>1, <1>14 DEF ReadBatch, PanicInPoll
<1>8. CASE FallThrough
  <2>1. Range(ctrlQ) = {} BY <1>8 DEF FallThrough, Range
  <2> QED BY <1>1, <1>8, <2>1 DEF FallThrough
<1>9. CASE TakeControl
  <2>1. Range(ctrlQ) = {Head(ctrlQ)} \cup Range(ctrlQ')
    BY <1>2, <1>9, RangeHeadTail DEF TakeControl
  <2> QED BY <1>1, <1>9, <2>1 DEF TakeControl
<1>10. CASE TakeTick \/ TakePoll
  BY <1>1, <1>2, <1>10 DEF TakeTick, TakePoll, BeginPoll
<1>11. CASE handleControl
  BY <1>1, <1>11 DEF handleControl, Refuse, WriteModbus, Answer
<1>12. CASE UNCHANGED vars
  BY <1>1, <1>12 DEF vars
<1> QED
  BY <1>3, <1>4, <1>5, <1>6, <1>7, <1>8, <1>9, <1>10, <1>11, <1>12,
     <1>13, <1>14 DEF Next, WorkerStep, doBatchCollect

\* A request that waits in the queue is overtaken by at most one poll,
\* whatever the number of competing requests, ticks and poll requests.
THEOREM OvertakenOnce == Spec => []AtMostOneOvertakes
<1>1. SelectInv => AtMostOneOvertakes
  BY DEF SelectInv, NotYetOvertaken, AtMostOneOvertakes
<1> QED BY SelectInit, SelectStep, <1>1, PTL DEF Spec

\* After Stop has closed quitQ the worker begins at most one more poll.
THEOREM OneMorePollAfterStop == Spec => []AtMostOneLatePoll
<1>1. SelectInv => AtMostOneLatePoll
  BY DEF SelectInv, OneLatePoll, AtMostOneLatePoll
<1> QED BY SelectInit, SelectStep, <1>1, PTL DEF Spec

-----------------------------------------------------------------------------
(* Panics.                                                                 *)

\* An adapter that is opened has its client, and nothing follows a panic.
PanicInv ==
  /\ \A d \in Device : adapter[d].opened => adapter[d].client
  /\ PanicHasCause

LEMMA OpenedHasClient ==
  ASSUME NEW a \in Adapter, a.opened => a.client
  PROVE  /\ \A c \in Connect(a) \cup Disconnect(a) : c.adapter.opened => c.adapter.client
         /\ \A o \in WriteOutcomes(a) : o.adapter.opened => o.adapter.client
BY DEF Adapter, Connect, Disconnect, WriteOutcomes

LEMMA PanicStep == TypeInv /\ PanicInv /\ [Next]_vars => PanicInv'
<1> SUFFICES ASSUME TypeInv, PanicInv, [Next]_vars PROVE PanicInv'
  OBVIOUS
<1> USE DEF PanicInv, PanicHasCause, queueVars, controlVars, pollVars, callVars, historyVars
<1>1. adapter \in [Device -> Adapter] /\ Target \in [Task -> Device]
  BY BusAssumption DEF TypeInv, BusTypeOK
<1>2. ASSUME NEW d \in Device, ConnectAdapter(d) \/ DisconnectAdapter(d) PROVE PanicInv'
  <2>1. PICK c \in Connect(adapter[d]) \cup Disconnect(adapter[d]) :
          adapter' = [adapter EXCEPT ![d] = c.adapter]
    BY <1>2 DEF ConnectAdapter, DisconnectAdapter
  <2>2. c.adapter.opened => c.adapter.client
    BY <1>1, OpenedHasClient
  <2> QED BY <1>1, <1>2, <2>1, <2>2 DEF ConnectAdapter, DisconnectAdapter
<1>3. CASE WriteModbus
  <2>1. task \in Task
    BY <1>3 DEF TypeInv, InHand, BusTypeOK, WriteModbus
  <2>2. PICK o \in WriteOutcomes(adapter[Target[task]]) :
          adapter' = [adapter EXCEPT ![Target[task]] = o.adapter]
    BY <1>3 DEF WriteModbus
  <2>3. o.adapter.opened => o.adapter.client
    BY <1>1, <2>1, OpenedHasClient
  <2> QED BY <1>1, <1>3, <2>1, <2>2, <2>3 DEF WriteModbus
<1>4. ASSUME NEW p \in Readable, PanicInPoll(p) PROVE PanicInv'
  <2>1. p.dev \in Device BY BusAssumption DEF Readable
  <2>2. Ungroupable \cap Readable # {} \/ ~adapter[p.dev].client
    BY <1>4 DEF PanicInPoll, GroupingPanics, BatchReadPanics, TypeInv, BusTypeOK
  <2> QED BY <1>4, <2>1, <2>2 DEF PanicInPoll
<1>5. ASSUME UNCHANGED adapter, worker' # "panicked" \/ UNCHANGED worker PROVE PanicInv'
  BY <1>5
<1>6. ASSUME NEW t \in Task, ControlAsync(t) \/ EnqueueControl(t) PROVE PanicInv'
  BY <1>5, <1>6 DEF ControlAsync, EnqueueControl
<1>7. ASSUME NEW p \in Poller, CallEnqueuePoll(p) \/ EnqueuePoll(p) PROVE PanicInv'
  BY <1>5, <1>7 DEF CallEnqueuePoll, EnqueuePoll
<1>8. CASE Stop \/ ReturnFromStop \/ Start \/ Tick
  BY <1>5, <1>8 DEF Stop, ReturnFromStop, Start, Tick
<1>9. CASE Quit \/ TakeControl \/ FallThrough \/ TakeTick \/ TakePoll \/ EndPoll
  BY <1>5, <1>9 DEF Quit, TakeControl, FallThrough, TakeTick, TakePoll, BeginPoll, EndPoll
<1>10. CASE Refuse \/ Answer
  BY <1>5, <1>10 DEF Refuse, Answer
<1>11. ASSUME NEW p \in Readable, ReadBatch(p) PROVE PanicInv'
  BY <1>5, <1>11 DEF ReadBatch
<1>12. CASE UNCHANGED vars
  BY <1>5, <1>12 DEF vars
<1> QED
  BY <1>2, <1>3, <1>4, <1>6, <1>7, <1>8, <1>9, <1>10, <1>11, <1>12
     DEF Next, WorkerStep, handleControl, doBatchCollect

\* A poll takes the process down only when a point cannot be grouped or a
\* device has never been connected, whatever connects failed before it.
THEOREM PanicsHaveACause == Spec => []PanicHasCause
<1>1. Init => PanicInv
  BY DEF Init, PanicInv, PanicHasCause, NewModbusAdapter
<1>2. PanicInv => PanicHasCause BY DEF PanicInv
<1> QED BY TypeInit, TypeStep, <1>1, PanicStep, <1>2, PTL DEF Spec

-----------------------------------------------------------------------------
(* What a poll reads.                                                      *)

LEMMA AddrType ==
  /\ \A p \in Readable : p.addr \in Int
  /\ AddressesFit => \A p \in Readable : p.addr \in Nat /\ p.addr < UintSize
<1>1. \A p \in Readable : p.addr \in Int BY BusAssumption DEF Readable
<1>2. ASSUME AddressesFit, NEW p \in Readable PROVE p.addr \in Nat /\ p.addr < UintSize
  <2>1. p.addr \in Uint16 BY <1>2 DEF AddressesFit
  <2> QED BY <2>1, Uint16Type
<1> QED BY <1>1, <1>2

\* To be in one region is an equivalence.
LEMMA RegionSymmetric ==
  ASSUME NEW p \in Readable, NEW q \in Readable, SameRegion(p, q)
  PROVE  SameRegion(q, p)
BY DEF SameRegion

LEMMA RegionTransitive ==
  ASSUME NEW p \in Readable, NEW q \in Readable, NEW r \in Readable,
         SameRegion(p, q), SameRegion(q, r)
  PROVE  SameRegion(p, r)
<1>1. p.addr \in Int /\ q.addr \in Int /\ r.addr \in Int BY AddrType
<1>2. p.dev = q.dev /\ q.dev = r.dev /\ p.func = q.func /\ q.func = r.func
  BY DEF SameRegion
<1>3. ASSUME NEW a \in (p.addr + 1)..(r.addr - 1) \cup (r.addr + 1)..(p.addr - 1)
      PROVE  \E s \in Readable : s.dev = p.dev /\ s.func = p.func /\ s.addr = a
  <2>1. CASE a = q.addr BY <1>2, <2>1
  <2>2. CASE a # q.addr
    <3>1. \/ a \in (p.addr + 1)..(q.addr - 1) \cup (q.addr + 1)..(p.addr - 1)
          \/ a \in (q.addr + 1)..(r.addr - 1) \cup (r.addr + 1)..(q.addr - 1)
      BY <1>1, <2>2
    <3> QED BY <1>2, <3>1 DEF SameRegion
  <2> QED BY <2>1, <2>2
<1> QED BY <1>2, <1>3 DEF SameRegion

\* Read from its first point on, a region is an interval of registers.
LEMMA RegionIsInterval ==
  ASSUME AddressesFit, NEW p \in Readable, \A q \in Region(p) : p.addr <= q.addr
  PROVE  \E m \in (p.addr + 1)..UintSize :
           /\ {q.addr : q \in Region(p)} = p.addr..(m - 1)
           /\ \A q \in Readable :
                q.dev = p.dev /\ q.func = p.func /\ q.addr \in p.addr..(m - 1)
                  => q \in Region(p)
<1> DEFINE At(a) == \E r \in Readable : r.dev = p.dev /\ r.func = p.func /\ r.addr = a
           Missing == {a \in Nat : a >= p.addr /\ ~At(a)}
<1>1. UintSize \in Nat /\ p.addr \in Nat /\ p.addr < UintSize
      /\ \A r \in Readable : r.addr \in Nat /\ r.addr # UintSize
  BY AddrType DEF UintSize
<1>2. UintSize \in Missing BY <1>1
<1>3. PICK m \in Missing : \A a \in Missing : m <= a
  <2>1. Missing \in SUBSET Nat /\ Missing # {} BY <1>2
  <2> HIDE DEF Missing
  <2> QED BY <2>1, LeastNatural
<1>4. m \in Nat /\ m >= p.addr /\ ~At(m) /\ m <= UintSize BY <1>2, <1>3
<1>5. \A a \in p.addr..(m - 1) : At(a)
  <2> SUFFICES ASSUME NEW a \in p.addr..(m - 1), ~At(a) PROVE FALSE OBVIOUS
  <2>1. a \in Nat /\ a >= p.addr /\ a < m BY <1>1, <1>4
  <2>2. a \in Missing BY <2>1
  <2> QED BY <1>3, <1>4, <2>1, <2>2
<1>6. m # p.addr BY <1>4
<1>7. m \in (p.addr + 1)..UintSize BY <1>1, <1>4, <1>6
<1> HIDE DEF Missing
<1>8. ASSUME NEW q \in Readable, q.dev = p.dev, q.func = p.func, q.addr \in p.addr..(m - 1)
      PROVE  q \in Region(p)
  <2>1. ASSUME NEW a \in (p.addr + 1)..(q.addr - 1) \cup (q.addr + 1)..(p.addr - 1)
        PROVE  At(a)
    <3>1. a \in p.addr..(m - 1) BY <1>1, <1>4, <1>8
    <3> QED BY <1>5, <3>1
  <2> QED BY <1>8, <2>1 DEF Region, SameRegion
<1>9. ASSUME NEW q \in Region(p) PROVE q.addr \in p.addr..(m - 1)
  <2>1. q \in Readable /\ q.dev = p.dev /\ q.func = p.func /\ p.addr <= q.addr /\ q.addr \in Nat
    BY <1>1 DEF Region, SameRegion
  <2>2. q.addr # m BY <1>4, <2>1
  <2>3. ~(m \in (p.addr + 1)..(q.addr - 1))
    BY <1>4 DEF Region, SameRegion
  <2> QED BY <1>1, <1>4, <1>6, <2>1, <2>2, <2>3
<1>10. p.addr..(m - 1) \subseteq {q.addr : q \in Region(p)}
  BY <1>5, <1>8
<1> QED BY <1>7, <1>8, <1>9, <1>10

\* The number of registers of a batch does not wrap around.
LEMMA BatchCovers ==
  ASSUME AddressesFit, LeavesAGap, NEW p \in Readable, \A q \in Region(p) : p.addr <= q.addr,
         ReadBatch(p)
  PROVE  /\ Registers(batch') = {q.addr : q \in Region(p)}
         /\ Region(p) = {q \in Readable : /\ q.dev = batch'.dev
                                          /\ q.func = batch'.func
                                          /\ q.addr \in Registers(batch')}
<1> DEFINE A == {q.addr : q \in Region(p)}
<1>1. PICK m \in (p.addr + 1)..UintSize :
        /\ A = p.addr..(m - 1)
        /\ \A q \in Readable :
             q.dev = p.dev /\ q.func = p.func /\ q.addr \in p.addr..(m - 1) => q \in Region(p)
  BY RegionIsInterval
<1>2. UintSize = 65536 /\ p.addr \in Nat /\ m \in Nat /\ p.addr < m /\ m <= UintSize
  BY <1>1, AddrType DEF UintSize
<1>3. ~(p.addr = 0 /\ m = UintSize)
  <2> SUFFICES ASSUME p.addr = 0, m = UintSize PROVE FALSE OBVIOUS
  <2>1. PICK a \in Uint16 : \A r \in Readable : r.dev = p.dev /\ r.func = p.func => r.addr # a
    BY DEF LeavesAGap
  <2>2. a \in A BY <1>1, <2>1 DEF Uint16
  <2>3. PICK q \in Region(p) : q.addr = a BY <2>2
  <2> QED BY <2>1, <2>3 DEF Region, SameRegion
<1>4. Cardinality(A) = m - p.addr
  <2>1. p.addr \in Int /\ m - 1 \in Int BY <1>2
  <2>2. Cardinality(p.addr..(m - 1)) = (m - 1) - p.addr + 1
    BY ONLY <1>2, <2>1, FS_Interval
  <2>3. A = p.addr..(m - 1) BY <1>1
  <2> HIDE DEF A
  <2> QED BY <1>2, <2>2, <2>3
<1>5. batch'.dev = p.dev /\ batch'.func = p.func /\ batch'.start = p.addr
      /\ batch'.quantity = Cardinality(A) % UintSize
  <2>1. p.addr % UintSize = p.addr BY <1>2
  <2> QED BY <2>1 DEF ReadBatch
<1> HIDE DEF A
<1>6. batch'.quantity = m - p.addr
  BY <1>2, <1>3, <1>4, <1>5
<1>7. Registers(batch') = p.addr..(m - 1)
  BY <1>2, <1>5, <1>6 DEF Registers
<1>8. ASSUME NEW q \in Region(p) PROVE q.dev = p.dev /\ q.func = p.func /\ q.addr \in A
  BY DEF A, Region, SameRegion
<1>9. Region(p) \subseteq Readable BY DEF Region
<1> QED BY <1>1, <1>5, <1>7, <1>8, <1>9 DEF A

\* A region is read as a whole or not at all.
WholeRegions == \A p \in unread, q \in Readable : SameRegion(p, q) => q \in unread

LEMMA BatchTakesRegion ==
  ASSUME TypeInv, WholeRegions, NEW p \in Readable, ReadBatch(p)
  PROVE  /\ WholeRegions'
         /\ Region(p) \subseteq unread
         /\ \A q \in Region(p) : p.addr <= q.addr
<1>1. /\ p \in unread /\ unread' = unread \ Region(p) /\ unread \subseteq Readable
      /\ \A q \in unread : q.dev = p.dev /\ q.func = p.func => p.addr <= q.addr
  BY DEF ReadBatch, NextBatchAt, TypeInv, BusTypeOK
<1>2. Region(p) \subseteq unread
  BY <1>1 DEF WholeRegions, Region
<1>3. \A q \in Region(p) : p.addr <= q.addr
  BY <1>1, <1>2 DEF Region, SameRegion
<1>4. ASSUME NEW r \in unread', NEW q \in Readable, SameRegion(r, q)
      PROVE  q \in unread'
  <2>1. r \in Readable /\ r \in unread /\ ~SameRegion(p, r) BY <1>1 DEF Region
  <2>2. q \in unread BY <1>4, <2>1 DEF WholeRegions
  <2>3. ASSUME q \in Region(p) PROVE FALSE
    <3>1. SameRegion(p, q) BY <2>3 DEF Region
    <3>2. SameRegion(q, r) BY <1>4, <2>1, RegionSymmetric
    <3> QED BY <2>1, <3>1, <3>2, RegionTransitive
  <2> QED BY <1>1, <2>2, <2>3
<1> QED BY <1>2, <1>3, <1>4 DEF WholeRegions, SameRegion

\* What a step does to the points that wait for this poll: nothing, unless a
\* poll begins or a batch is read.
LEMMA UnreadSteps ==
  ASSUME [Next]_vars
  PROVE  \/ UNCHANGED unread
         \/ worker # "poll" /\ unread' = Readable
         \/ \E p \in Readable : ReadBatch(p)
<1> USE DEF pollVars
<1>1. ASSUME NEW d \in Device, ConnectAdapter(d) \/ DisconnectAdapter(d) PROVE UNCHANGED unread
  BY <1>1 DEF ConnectAdapter, DisconnectAdapter
<1>2. ASSUME NEW t \in Task, ControlAsync(t) \/ EnqueueControl(t) PROVE UNCHANGED unread
  BY <1>2 DEF ControlAsync, EnqueueControl
<1>3. ASSUME NEW p \in Poller, CallEnqueuePoll(p) \/ EnqueuePoll(p) PROVE UNCHANGED unread
  BY <1>3 DEF CallEnqueuePoll, EnqueuePoll
<1>4. ASSUME Stop \/ ReturnFromStop \/ Start \/ Tick PROVE UNCHANGED unread
  BY <1>4 DEF Stop, ReturnFromStop, Start, Tick
<1>5. ASSUME Quit \/ TakeControl \/ FallThrough \/ EndPoll PROVE UNCHANGED unread
  BY <1>5 DEF Quit, TakeControl, FallThrough, EndPoll
<1>6. ASSUME TakeTick \/ TakePoll PROVE worker # "poll" /\ unread' = Readable
  BY <1>6 DEF TakeTick, TakePoll, BeginPoll
<1>7. ASSUME handleControl PROVE UNCHANGED unread
  BY <1>7 DEF handleControl, Refuse, WriteModbus, Answer
<1>8. ASSUME NEW p \in Readable, PanicInPoll(p) PROVE UNCHANGED unread
  BY <1>8 DEF PanicInPoll
<1>9. ASSUME UNCHANGED vars PROVE UNCHANGED unread
  BY <1>9 DEF vars
<1> QED
  BY <1>1, <1>2, <1>3, <1>4, <1>5, <1>6, <1>7, <1>8, <1>9
     DEF Next, WorkerStep, doBatchCollect

LEMMA WholeRegionsStep == TypeInv /\ WholeRegions /\ [Next]_vars => WholeRegions'
<1> SUFFICES ASSUME TypeInv, WholeRegions, [Next]_vars PROVE WholeRegions'
  OBVIOUS
<1>1. CASE UNCHANGED unread BY <1>1 DEF WholeRegions, SameRegion
<1>2. CASE unread' = Readable BY <1>2 DEF WholeRegions, SameRegion
<1>3. CASE \E p \in Readable : ReadBatch(p) BY <1>3, BatchTakesRegion
<1> QED BY <1>1, <1>2, <1>3, UnreadSteps

\* A poll asks the slaves for the first registers of the readable points, for no
\* other register, and passes over a point only when its batch asks for its first
\* register, provided that all addresses are those of registers and no func of a
\* device can read all 65536 of them. Of a point with more registers the poll
\* may leave out the others, as the violation of BatchCoversPoints shows.
THEOREM PollReadsFirstRegisters ==
  ASSUME AddressesFit, LeavesAGap
  PROVE  Spec => ReadsFirstRegisters
<1>1. Init => WholeRegions BY DEF Init, WholeRegions
<1>2. ASSUME TypeInv, WholeRegions, [Next]_vars, worker = "poll", unread' # unread
      PROVE  /\ unread \ unread' =
                  {p \in Readable : /\ p.dev = batch'.dev
                                    /\ p.func = batch'.func
                                    /\ p.addr \in Registers(batch')}
             /\ Registers(batch') = {p.addr : p \in unread \ unread'}
  <2>1. PICK p \in Readable : ReadBatch(p) BY <1>2, UnreadSteps
  <2>2. Region(p) \subseteq unread /\ \A q \in Region(p) : p.addr <= q.addr
    BY <1>2, <2>1, BatchTakesRegion
  <2>3. unread \ unread' = Region(p) BY <2>1, <2>2 DEF ReadBatch
  <2> QED BY <2>1, <2>2, <2>3, BatchCovers
<1>3. TypeInv /\ WholeRegions /\ [Next]_vars =>
        [worker = "poll" /\ unread' # unread =>
           /\ unread \ unread' =
                {p \in Readable : /\ p.dev = batch'.dev
                                  /\ p.func = batch'.func
                                  /\ p.addr \in Registers(batch')}
           /\ Registers(batch') = {p.addr : p \in unread \ unread'}]_vars
  BY <1>2
<1> QED
  BY <1>1, <1>3, TypeInit, TypeStep, WholeRegionsStep, PTL DEF Spec, ReadsFirstRegisters

\* Of points that wait, one has the least address.
LEMMA LeastAddress ==
  ASSUME NEW U \in SUBSET Readable, U # {}
  PROVE  \E p \in U : \A q \in U : p.addr <= q.addr
<1> DEFINE f == [p \in U |-> p.addr]
<1>1. f \in [U -> Int] BY AddrType
<1>2. IsFiniteSet(U)
  <2>1. U \subseteq Points BY DEF Readable
  <2> QED BY <2>1, BusAssumption, FS_Subset
<1>3. \A p \in U : f[p] = p.addr OBVIOUS
<1> HIDE DEF f
<1>4. PICK p \in U : \A q \in U : f[p] <= f[q] BY <1>1, <1>2, LeastOfFinite
<1> QED BY <1>3, <1>4

\* A poll always has a next batch until it is through: the first device with
\* points left, and of it the func that has been begun, or else any.
THEOREM PollNeverStuck == Spec => []PollGoesOn
<1>1. TypeInv => PollGoesOn
  <2> SUFFICES ASSUME unread \in SUBSET Readable, unread # {}
               PROVE  \E p \in Readable : NextBatchAt(p)
    BY DEF PollGoesOn, TypeInv, BusTypeOK
  <2> DEFINE I == {i \in DOMAIN Devices : \E p \in unread : p.dev = Devices[i]}
  <2>1. DOMAIN Devices \subseteq Nat BY BusAssumption
  <2>2. I # {}
    <3>1. PICK p \in unread : TRUE OBVIOUS
    <3>2. p.dev \in Device BY <3>1, BusAssumption DEF Readable
    <3> QED BY <3>1, <3>2 DEF Device, Range
  <2>3. PICK i \in I : \A j \in I : i <= j
    <3>1. I \in SUBSET Nat BY <2>1
    <3> HIDE DEF I
    <3> QED BY <2>2, <3>1, LeastNatural
  <2>4. Polled(Devices[i])
    <3>1. \A j \in 1..(i - 1) : j \notin I BY <2>1, <2>3
    <3>2. \A j \in 1..(i - 1) : j \in DOMAIN Devices BY <2>3, BusAssumption
    <3> QED BY <2>3, <3>1, <3>2 DEF Polled
  <2> DEFINE U == {p \in unread : p.dev = Devices[i]}
  <2>5. PICK f : /\ \E p \in U : p.func = f
                 /\ \A q \in U : q.func # f => ~Begun(q)
    <3>1. CASE \E p \in U : Begun(p) BY <3>1 DEF Begun
    <3>2. CASE \A p \in U : ~Begun(p) BY <2>3, <3>2
    <3> QED BY <3>1, <3>2
  <2>6. PICK p \in U : p.func = f /\ \A q \in U : q.func = f => p.addr <= q.addr
    <3> DEFINE F == {q \in U : q.func = f}
    <3>1. F \in SUBSET Readable /\ F # {} BY <2>5
    <3> HIDE DEF F
    <3>2. PICK p \in F : \A q \in F : p.addr <= q.addr BY <3>1, LeastAddress
    <3> QED BY <3>2 DEF F
  <2>7. \A q \in unread : q.dev = p.dev => q \in U BY <2>6
  <2> QED BY <2>4, <2>5, <2>6, <2>7 DEF NextBatchAt
<1> QED BY TypeInit, TypeStep, <1>1, PTL DEF Spec

-----------------------------------------------------------------------------
(* The worker implements ControlService.                                   *)

\* Requests are distinct on their way through the queue, and none that is in
\* the queue or not yet there has been carried out or answered. What has been
\* accepted is in the queue, in hand or answered.
Untouched(t) == t \notin applied /\ respCh[t] = "none"
Kept ==
  \A t \in Task : phase[t] = "sent" =>
    t \in Range(ctrlQ) \/ t = task \/ respCh[t] # "none"
QueueInv ==
  /\ NoDuplicates(ctrlQ)
  /\ task \notin Range(ctrlQ)
  /\ \A t \in Range(ctrlQ) : Untouched(t)
  /\ \A t \in Task : phase[t] # "sent" =>
       Untouched(t) /\ t \notin Range(ctrlQ) /\ t # task
  /\ worker = "handle" => task \notin applied
  /\ worker = "answer" => failed \/ task \in applied
  /\ task # NoTask => respCh[task] = "none"
  /\ Kept

ServiceInv == TypeInv /\ QueueInv

LEMMA ServiceInvInit == Init => ServiceInv
<1> SUFFICES ASSUME Init PROVE ServiceInv
  OBVIOUS
<1>1. Range(ctrlQ) = {} /\ NoDuplicates(ctrlQ)
  BY DEF Init, Range, NoDuplicates
<1> QED
  BY <1>1, TypeInit, BusAssumption DEF Init, ServiceInv, QueueInv, Untouched, Kept

\* The step of the service that each step of the bus is, or none.
LEMMA WaitingUnchanged ==
  ASSUME UNCHANGED <<ctrlQ, task, applied, respCh>>
  PROVE  UNCHANGED Service!serviceVars
BY DEF Service!serviceVars, Waiting

LEMMA EnqueueServes ==
  ASSUME ServiceInv, NEW t \in Task, EnqueueControl(t)
  PROVE  QueueInv' /\ Service!Accept(t)
<1> USE DEF ServiceInv, QueueInv, Untouched, EnqueueControl, controlVars
<1>1. ctrlQ \in Seq(Task) /\ task \in Task \cup {NoTask} /\ NoTask \notin Task
  BY BusAssumption DEF TypeInv, BusTypeOK
<1>2. t \notin Range(ctrlQ) /\ t # task /\ Untouched(t)
  OBVIOUS
<1>3. Range(ctrlQ') = Range(ctrlQ) \cup {t} /\ NoDuplicates(ctrlQ')
  BY <1>1, <1>2, RangeAppend, AppendKeepsDistinct
<1>4. QueueInv'
  <2>1. Kept' BY <1>1, <1>3 DEF Kept, TypeInv, BusTypeOK
  <2> QED BY <1>1, <1>2, <1>3, <2>1 DEF TypeInv, BusTypeOK
<1>5. Waiting' = Append(Waiting, t)
  BY <1>1, QueueBehind DEF Waiting
<1>6. \A i \in DOMAIN Waiting : Waiting[i] # t
  <2>1. CASE task = NoTask
    BY <1>2, <2>1 DEF Waiting, Range
  <2>2. CASE task # NoTask
    <3>1. Range(Waiting) = {task} \cup Range(ctrlQ)
      BY <1>1, <2>2, RangeInHand DEF Waiting
    <3> QED BY <1>2, <3>1 DEF Range
  <2> QED BY <2>1, <2>2
<1> QED BY <1>2, <1>4, <1>5, <1>6 DEF Service!Accept

LEMMA TakeServes ==
  ASSUME ServiceInv, TakeControl
  PROVE  QueueInv' /\ UNCHANGED Service!serviceVars
<1> USE DEF ServiceInv, QueueInv, Untouched, TakeControl, callVars
<1>1. /\ ctrlQ \in Seq(Task) /\ ctrlQ # <<>> /\ task = NoTask /\ NoTask \notin Task
      /\ task' = Head(ctrlQ) /\ task' \in Task /\ ctrlQ' = Tail(ctrlQ)
  BY BusAssumption DEF TypeInv, BusTypeOK, InHand
<1>2. /\ Range(ctrlQ) = {task'} \cup Range(ctrlQ') /\ NoDuplicates(ctrlQ')
      /\ task' \notin Range(ctrlQ')
  BY <1>1, RangeHeadTail, TailKeepsDistinct
<1>3. QueueInv'
  <2>1. Kept' BY <1>1, <1>2 DEF Kept
  <2> QED BY <1>1, <1>2, <2>1
<1>4. Waiting' = Waiting
  <2>1. task' # NoTask BY <1>1
  <2>2. Waiting' = <<Head(ctrlQ)>> \o Tail(ctrlQ) BY <1>1, <2>1 DEF Waiting
  <2> QED BY <1>1, <2>2, TakenInHand DEF Waiting
<1> QED BY <1>3, <1>4 DEF Service!serviceVars

LEMMA HandleServes ==
  ASSUME ServiceInv, handleControl
  PROVE  QueueInv' /\ [Service!ServiceNext]_(Service!serviceVars)
<1> USE DEF ServiceInv, QueueInv, Untouched, queueVars, callVars
<1>1. /\ ctrlQ \in Seq(Task) /\ task \in Task /\ NoTask \notin Task
      /\ respCh \in [Task -> {"none", "ok", "error"}]
  BY BusAssumption DEF TypeInv, BusTypeOK, InHand, handleControl, Refuse, WriteModbus, Answer
<1>2. /\ Waiting # <<>> /\ Head(Waiting) = task /\ Tail(Waiting) = ctrlQ
  BY <1>1, InHandFirst DEF Waiting
<1>3. CASE Refuse
  <2>1. QueueInv' BY <1>3 DEF Refuse, Kept
  <2> QED BY <1>3, <2>1, WaitingUnchanged DEF Refuse
<1>4. CASE WriteModbus
  <2>1. QueueInv'
    <3>1. PICK o \in WriteOutcomes(adapter[Target[task]]) :
            /\ applied' = IF o.reaches THEN applied \cup {task} ELSE applied
            /\ failed' = o.err
      BY <1>4 DEF WriteModbus
    <3>2. o.reaches \/ o.err
      BY DEF WriteOutcomes
    <3>3. /\ worker' = "answer" /\ task' = task /\ task \notin applied
          /\ UNCHANGED <<ctrlQ, phase, respCh>>
          /\ applied' \subseteq applied \cup {task}
          /\ failed' \/ task \in applied'
      BY <1>4, <3>1, <3>2 DEF WriteModbus
    <3>4. Kept' BY <3>3 DEF Kept
    <3> QED BY <1>1, <3>3, <3>4
  <2>2. Waiting' = Waiting BY <1>4 DEF WriteModbus, Waiting
  <2>3. CASE applied' = applied
    BY <1>4, <2>1, <2>3, WaitingUnchanged DEF WriteModbus
  <2>4. CASE applied' # applied
    <3>1. applied' = applied \cup {task} /\ respCh' = respCh
      BY <1>4, <2>4 DEF WriteModbus
    <3>2. Service!Perform
      BY <1>2, <1>4, <2>2, <3>1 DEF Service!Perform, WriteModbus
    <3> QED BY <2>1, <3>2 DEF Service!ServiceNext
  <2> QED BY <2>3, <2>4
<1>5. CASE Answer
  <2>1. QueueInv'
    <3>1. /\ task' = NoTask /\ worker' = "outer" /\ UNCHANGED <<ctrlQ, phase, applied>>
          /\ \A t \in Task \ {task} : respCh'[t] = respCh[t]
      BY <1>1, <1>5 DEF Answer
    <3>2. Range(ctrlQ) \subseteq Task BY <1>1 DEF Range
    <3>3. \A t \in Task \ {task} : Untouched(t) => Untouched(t)'
      BY <3>1
    <3>4. Kept' BY <1>1, <1>5, <3>1 DEF Kept, Answer
    <3> QED BY <1>1, <3>1, <3>2, <3>3, <3>4
  <2>2. Waiting' = ctrlQ BY <1>5 DEF Answer, Waiting
  <2>3. PICK a \in {"ok", "error"} :
          respCh' = [respCh EXCEPT ![task] = a] /\ (a = "ok" => task \in applied)
    BY <1>5 DEF Answer
  <2>4. Service!Answer(a)
    BY <1>2, <1>5, <2>2, <2>3 DEF Service!Answer, Answer
  <2> QED BY <2>1, <2>4 DEF Service!ServiceNext
<1> QED BY <1>3, <1>4, <1>5 DEF handleControl

LEMMA ServiceStep ==
  ServiceInv /\ [Next]_vars
    => ServiceInv' /\ [Service!ServiceNext]_(Service!serviceVars)
<1> SUFFICES ASSUME ServiceInv, [Next]_vars
             PROVE  ServiceInv' /\ [Service!ServiceNext]_(Service!serviceVars)
  OBVIOUS
<1> USE DEF ServiceInv, queueVars, controlVars, pollVars, callVars, historyVars
<1>1. TypeInv' BY TypeStep
<1>11. ASSUME NEW d \in Device, ConnectAdapter(d) \/ DisconnectAdapter(d)
      PROVE  QueueInv' /\ UNCHANGED <<ctrlQ, task, applied, respCh>>
  BY <1>11 DEF ConnectAdapter, DisconnectAdapter, QueueInv, Untouched, Kept
<1>2. ASSUME NEW t \in Task, EnqueueControl(t)
      PROVE  ServiceInv' /\ Service!ServiceNext
  BY <1>1, <1>2, EnqueueServes DEF Service!ServiceNext
<1>3. CASE TakeControl
  BY <1>1, <1>3, TakeServes
<1>4. CASE handleControl
  BY <1>1, <1>4, HandleServes
<1>5. ASSUME UNCHANGED <<ctrlQ, task, applied, respCh>>, QueueInv'
      PROVE  ServiceInv' /\ UNCHANGED Service!serviceVars
  BY <1>1, <1>5, WaitingUnchanged
<1>6. ASSUME NEW t \in Task, ControlAsync(t) PROVE QueueInv'
  BY <1>6 DEF ControlAsync, QueueInv, Untouched, Kept
<1>7. ASSUME NEW p \in Poller, CallEnqueuePoll(p) \/ EnqueuePoll(p)
      PROVE  QueueInv' /\ UNCHANGED <<ctrlQ, task, applied, respCh>>
  BY <1>7 DEF CallEnqueuePoll, EnqueuePoll, QueueInv, Untouched, Kept
<1>8. ASSUME Stop \/ ReturnFromStop \/ Start \/ Tick
      PROVE  QueueInv' /\ UNCHANGED <<ctrlQ, task, applied, respCh>>
  BY <1>8 DEF Stop, ReturnFromStop, Start, Tick, QueueInv, Untouched, Kept
<1>9. ASSUME Quit \/ FallThrough \/ TakeTick \/ TakePoll \/ EndPoll
      PROVE  QueueInv' /\ UNCHANGED <<ctrlQ, task, applied, respCh>>
  BY <1>9 DEF Quit, FallThrough, TakeTick, TakePoll, BeginPoll, EndPoll, QueueInv, Untouched, Kept
<1>12. ASSUME NEW p \in Readable, ReadBatch(p) \/ PanicInPoll(p)
      PROVE  QueueInv' /\ UNCHANGED <<ctrlQ, task, applied, respCh>>
  BY <1>12 DEF ReadBatch, PanicInPoll, QueueInv, Untouched, Kept
<1>10. ASSUME UNCHANGED vars PROVE QueueInv' /\ UNCHANGED <<ctrlQ, task, applied, respCh>>
  BY <1>10 DEF vars, QueueInv, Untouched, Kept
<1> QED
  BY <1>2, <1>3, <1>4, <1>5, <1>6, <1>7, <1>8, <1>9, <1>10, <1>11, <1>12
     DEF Next, WorkerStep, doBatchCollect, ControlAsync

\* The bus implements the control service: requests are carried out one by
\* one in the order of acceptance, each at most once, each answered at most
\* once, and none is called done that was refused or has not been written.
THEOREM BusImplementsService == Spec => ImplementsService
<1>1. Init => Service!ServiceInit
  BY DEF Init, Service!ServiceInit, Waiting
<1>2. ServiceInv /\ [Next]_vars => [Service!ServiceNext]_(Service!serviceVars)
  BY ServiceStep
<1>3. ServiceInv /\ [Next]_vars => ServiceInv'
  BY ServiceStep
<1> QED
  BY ServiceInvInit, <1>1, <1>2, <1>3, PTL
     DEF Spec, ImplementsService, Service!ServiceSpec

\* No accepted request is ever out of everybody's hands without an answer.
LEMMA AcceptedIsKept == ServiceInv => NoneForgotten
<1> SUFFICES ASSUME ServiceInv, NEW t \in Task, phase[t] = "sent", respCh[t] = "none"
             PROVE  t \in Range(Waiting)
  BY DEF NoneForgotten
<1>1. t \in Range(ctrlQ) \/ t = task
  BY DEF ServiceInv, QueueInv, Kept
<1>2. CASE task = NoTask
  BY <1>1, <1>2, BusAssumption DEF Waiting
<1>3. CASE task # NoTask
  <2>1. Range(Waiting) = {task} \cup Range(ctrlQ)
    BY <1>3, BusAssumption, RangeInHand DEF Waiting, ServiceInv, TypeInv, BusTypeOK
  <2> QED BY <1>1, <2>1
<1> QED BY <1>2, <1>3

\* Every accepted request waits, is in hand or has its answer, for any number
\* of requests and any capacity of the queue.
THEOREM NothingForgotten == Spec => []NoneForgotten
<1>1. ServiceInv /\ [Next]_vars => ServiceInv' BY ServiceStep
<1> QED BY ServiceInvInit, AcceptedIsKept, <1>1, PTL DEF Spec
=============================================================================
