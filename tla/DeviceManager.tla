---------------------------- MODULE DeviceManager ----------------------------
(***************************************************************************)
(* cycV2/internal/device/manager.go: the registry of devices, a map under  *)
(* a read-write lock, and CollectAll, which holds the read lock while a    *)
(* goroutine per device collects it.                                       *)
(*                                                                         *)
(* The lock is a sync.RWMutex (external): a writer that waits keeps new    *)
(* readers out, and its unlock lets in all those that wait. The collection *)
(* of a device is CollectAllParallel of ModbusDevice, which always returns *)
(* (CallsReturn there); its values are left out, and a device is named by  *)
(* the configuration it was registered with.                               *)
(***************************************************************************)
EXTENDS Integers, FiniteSets

CONSTANTS
  Config,    \* the DeviceConfigs that are registered, each by a call of its own
  Name,      \* device names
  NameOf,    \* Config.Name
  Supported, \* the configurations whose AdapterName is "modbus"
  Collector, \* callers of CollectAll, again and again
  Getter,    \* callers of GetDevice, again and again
  NoDevice   \* a name that is not in a map; also: nobody holds dm.mu for writing

Reader == Collector \cup Getter
Caller == Config \cup Reader

ASSUME RegistryAssumption ==
  /\ NameOf \in [Config -> Name]
  /\ Supported \subseteq Config
  /\ IsFiniteSet(Name)
  /\ NoDevice \notin Config
  /\ Config \cap Reader = {}
  /\ Collector \cap Getter = {}

Map == [Name -> Config \cup {NoDevice}]
Empty == [n \in Name |-> NoDevice]

VARIABLES
  pc,       \* where each caller is
  devices,  \* dm.devices
  writer,   \* the caller of dm.mu.Lock whose turn it is
  readers,  \* the callers that hold dm.mu for reading
  answer,   \* what Register has returned
  spawned,  \* the names the loop of a CollectAll has passed
  running,  \* its goroutines, by name, with the device each of them collects
  wg,       \* its WaitGroup
  res       \* its result, by name, with the device the values are of

lockVars    == <<writer, readers>>
collectVars == <<spawned, running, wg, res>>
vars == <<pc, devices, lockVars, answer, collectVars>>

RegistryTypeOK ==
  /\ pc \in [Caller -> {"idle", "lock", "drain", "rlock", "blocked", "in",
                        "runlock", "returned"}]
  /\ devices \in Map
  /\ writer \in Config \cup {NoDevice}
  /\ readers \in SUBSET Reader
  /\ answer \in [Config -> {"none", "nil", "error"}]
  /\ spawned \in [Collector -> SUBSET Name]
  /\ running \in [Collector -> Map]
  /\ wg \in [Collector -> Nat]
  /\ res \in [Collector -> Map]

Init ==
  /\ pc = [g \in Caller |-> "idle"]
  /\ devices = Empty
  /\ writer = NoDevice
  /\ readers = {}
  /\ answer = [r \in Config |-> "none"]
  /\ spawned = [c \in Collector |-> {}]
  /\ running = [c \in Collector |-> Empty]
  /\ wg = [c \in Collector |-> 0]
  /\ res = [c \in Collector |-> Empty]

Goto(g, label) == pc' = [pc EXCEPT ![g] = label]

-----------------------------------------------------------------------------
(* Register.                                                               *)

CallRegister(r) ==
  /\ pc[r] = "idle"
  /\ Goto(r, "lock")
  /\ UNCHANGED <<devices, lockVars, answer, collectVars>>

\* dm.mu.Lock: one writer at a time, which then waits for the readers.
Lock(r) ==
  /\ pc[r] = "lock"
  /\ writer = NoDevice
  /\ writer' = r
  /\ Goto(r, "drain")
  /\ UNCHANGED <<devices, readers, answer, collectVars>>

\* The unlock of r: the readers that wait have the lock, whatever writer is next.
Unlock(r, label) ==
  LET waiting == {g \in Reader : pc[g] = "blocked"}
  IN  /\ writer' = NoDevice
      /\ readers' = waiting
      /\ pc' = [g \in Caller |-> IF g \in waiting THEN "in"
                                 ELSE IF g = r THEN label ELSE pc[g]]

\* Seeded bug: Register waits for the name to be free.
Refuse_Retries(r) ==
  /\ pc[r] = "drain"
  /\ readers = {}
  /\ devices[NameOf[r]] # NoDevice
  /\ Unlock(r, "lock")
  /\ UNCHANGED <<devices, answer, collectVars>>

\* The name is taken.
Refuse(r) ==
  /\ pc[r] = "drain"
  /\ readers = {}
  /\ devices[NameOf[r]] # NoDevice
  /\ answer' = [answer EXCEPT ![r] = "error"]
  /\ Unlock(r, "returned")
  /\ UNCHANGED <<devices, collectVars>>

\* A configuration of another adapter is dropped; Register returns nil.
Register(r) ==
  /\ pc[r] = "drain"
  /\ readers = {}
  /\ devices[NameOf[r]] = NoDevice
  /\ devices' = IF r \in Supported THEN [devices EXCEPT ![NameOf[r]] = r] ELSE devices
  /\ answer' = [answer EXCEPT ![r] = "nil"]
  /\ Unlock(r, "returned")
  /\ UNCHANGED collectVars

-----------------------------------------------------------------------------
(* GetDevice and CollectAll.                                               *)

CallGetDevice(g) ==
  /\ pc[g] \in {"idle", "returned"}
  /\ Goto(g, "rlock")
  /\ UNCHANGED <<devices, lockVars, answer, collectVars>>

\* Seeded bug: the map is read without the lock.
CallCollectAll_Unlocked(c) ==
  /\ pc[c] \in {"idle", "returned"}
  /\ Goto(c, "in")
  /\ spawned' = [spawned EXCEPT ![c] = {}]
  /\ res' = [res EXCEPT ![c] = Empty]
  /\ UNCHANGED <<devices, lockVars, answer, running, wg>>

CallCollectAll(c) ==
  /\ pc[c] \in {"idle", "returned"}
  /\ Goto(c, "rlock")
  /\ spawned' = [spawned EXCEPT ![c] = {}]
  /\ res' = [res EXCEPT ![c] = Empty]
  /\ UNCHANGED <<devices, lockVars, answer, running, wg>>

\* dm.mu.RLock: a reader that finds a writer waits for its unlock.
RLock(g) ==
  /\ pc[g] = "rlock"
  /\ writer = NoDevice
  /\ readers' = readers \cup {g}
  /\ Goto(g, "in")
  /\ UNCHANGED <<devices, writer, answer, collectVars>>

RLockBlocks(g) ==
  /\ pc[g] = "rlock"
  /\ writer # NoDevice
  /\ Goto(g, "blocked")
  /\ UNCHANGED <<devices, lockVars, answer, collectVars>>

\* The lookup itself is a read of devices; the lock is given back with it.
GetDevice(g) ==
  /\ pc[g] = "in"
  /\ readers' = readers \ {g}
  /\ Goto(g, "returned")
  /\ UNCHANGED <<devices, writer, answer, collectVars>>

\* The range over the map takes the names in any order.
SpawnCollect(c, n) ==
  /\ pc[c] = "in"
  /\ devices[n] # NoDevice
  /\ n \notin spawned[c]
  /\ spawned' = [spawned EXCEPT ![c] = @ \cup {n}]
  /\ running' = [running EXCEPT ![c][n] = devices[n]]
  /\ wg' = [wg EXCEPT ![c] = @ + 1]
  /\ UNCHANGED <<pc, devices, lockVars, answer, res>>

\* CollectAllParallel of the device has returned; its error is dropped.
StoreValues(c, n) ==
  /\ running[c][n] # NoDevice
  /\ res' = [res EXCEPT ![c][n] = running[c][n]]
  /\ running' = [running EXCEPT ![c][n] = NoDevice]
  /\ wg' = [wg EXCEPT ![c] = @ - 1]
  /\ UNCHANGED <<pc, devices, lockVars, answer, spawned>>

Wait(c) ==
  /\ pc[c] = "in"
  /\ \A n \in Name : devices[n] # NoDevice => n \in spawned[c]
  /\ wg[c] = 0
  /\ Goto(c, "runlock")
  /\ UNCHANGED <<devices, lockVars, answer, collectVars>>

RUnlock(c) ==
  /\ pc[c] = "runlock"
  /\ readers' = readers \ {c}
  /\ Goto(c, "returned")
  /\ UNCHANGED <<devices, writer, answer, collectVars>>

-----------------------------------------------------------------------------

RegisterStep(r) == Lock(r) \/ Refuse(r) \/ Register(r)
CollectStep(c)  == \/ Wait(c) \/ RUnlock(c)
                   \/ \E n \in Name : SpawnCollect(c, n) \/ StoreValues(c, n)

Next ==
  \/ \E r \in Config : CallRegister(r) \/ RegisterStep(r)
  \/ \E g \in Getter : CallGetDevice(g) \/ GetDevice(g)
  \/ \E c \in Collector : CallCollectAll(c) \/ CollectStep(c)
  \/ \E g \in Reader : RLock(g) \/ RLockBlocks(g)

\* Every goroutine that can go on does so. Writers wait for each other at a
\* sync.Mutex, which is handed to one that has starved. A reader that is late
\* may miss the moments without a writer, but not for ever: it blocks then.
Fairness ==
  /\ \A r \in Config : WF_vars(Refuse(r) \/ Register(r)) /\ SF_vars(Lock(r))
  /\ \A g \in Getter : WF_vars(GetDevice(g))
  /\ \A c \in Collector : WF_vars(CollectStep(c))
  /\ \A g \in Reader : WF_vars(RLock(g) \/ RLockBlocks(g))

Spec     == Init /\ [][Next]_vars
FairSpec == Spec /\ Fairness

-----------------------------------------------------------------------------
(* Properties.                                                             *)

\* When CollectAll gives the lock back, its result is of the devices that are
\* registered at that moment, of each of them and of no other; once it has
\* returned, no goroutine is left that could write to it, and what it is of is
\* still registered.
CollectAllComplete ==
  \A c \in Collector :
    /\ pc[c] = "runlock" => res[c] = devices
    /\ pc[c] = "returned" =>
         /\ running[c] = Empty
         /\ \A n \in Name : res[c][n] \in {NoDevice, devices[n]}

\* What Register has accepted stays: the device of a configuration with a known
\* adapter is the one under its name from then on, so that a device that has
\* been handed out or is being collected is never replaced by another.
RegisteredStays ==
  \A r \in Supported : answer[r] = "nil" => devices[NameOf[r]] = r

\* Nobody waits in a circle: a collection holds the read lock while it waits
\* for its goroutines, a Register waits for it, other readers for the Register;
\* yet as long as a call is under way, some goroutine can go on.
CanGoOn(g) ==
  \/ g \in Config /\ pc[g] = "lock" /\ writer = NoDevice
  \/ g \in Config /\ pc[g] = "drain" /\ readers = {}
  \/ g \in Reader /\ pc[g] = "rlock"
  \/ g \in Getter /\ pc[g] = "in"
  \/ g \in Collector /\ pc[g] = "in"
       /\ \/ \E n \in Name : devices[n] # NoDevice /\ n \notin spawned[g]
          \/ \E n \in Name : running[g][n] # NoDevice
          \/ wg[g] = 0
  \/ g \in Collector /\ pc[g] = "runlock"
NeverStuck ==
  (\E g \in Caller : pc[g] \notin {"idle", "returned"}) => \E g \in Caller : CanGoOn(g)

\* Every call returns: Register although collections overlap for ever, and
\* a GetDevice although it may have to wait for a Register that waits for them.
RegistryCallsReturn ==
  \A g \in Caller : pc[g] \notin {"idle", "returned"} ~> pc[g] = "returned"
=============================================================================
