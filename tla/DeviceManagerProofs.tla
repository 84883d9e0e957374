------------------------- MODULE DeviceManagerProofs -------------------------
(***************************************************************************)
(* Theorems about DeviceManager, for any configurations, names and         *)
(* callers.                                                                *)
(***************************************************************************)
EXTENDS DeviceManager, FiniteSetTheorems, TLAPS

-----------------------------------------------------------------------------
(* The inductive invariant.                                                *)

\* The WaitGroups are counted in CollectInv.
TypeInv ==
  /\ pc \in [Caller -> {"idle", "lock", "drain", "rlock", "blocked", "in",
                        "runlock", "returned"}]
  /\ devices \in Map
  /\ writer \in Config \cup {NoDevice}
  /\ readers \in SUBSET Reader
  /\ answer \in [Config -> {"none", "nil", "error"}]
  /\ spawned \in [Collector -> SUBSET Name]
  /\ running \in [Collector -> Map]
  /\ wg \in [Collector -> Int]
  /\ res \in [Collector -> Map]

\* The readers are exactly the callers between RLock and RUnlock.
LockInv == \A g \in Reader : g \in readers <=> pc[g] \in {"in", "runlock"}

Running(c) == {n \in Name : running[c][n] # NoDevice}

\* A CollectAll while it waits for the lock, while it collects, and after.
Waiting(c) ==
  pc[c] \in {"rlock", "blocked"} => spawned[c] = {} /\ res[c] = Empty

Collecting(c) ==
  pc[c] = "in" =>
    \A n \in Name :
      /\ running[c][n] \in {NoDevice, devices[n]}
      /\ res[c][n] \in {NoDevice, devices[n]}
      /\ n \in spawned[c] => running[c][n] = devices[n] \/ res[c][n] = devices[n]
      /\ n \notin spawned[c] => running[c][n] = NoDevice

Collected(c) ==
  /\ pc[c] = "runlock" => \A n \in Name : res[c][n] = devices[n]
  /\ pc[c] = "returned" => \A n \in Name : res[c][n] \in {NoDevice, devices[n]}

CollectInv(c) ==
  /\ wg[c] = Cardinality(Running(c))
  /\ pc[c] # "in" => Running(c) = {}
  /\ Waiting(c) /\ Collecting(c) /\ Collected(c)

IInv ==
  /\ TypeInv
  /\ LockInv
  /\ \A c \in Collector : CollectInv(c)
  /\ RegisteredStays

LEMMA Kinds ==
  /\ Config \subseteq Caller /\ Reader \subseteq Caller
  /\ Collector \subseteq Reader /\ Getter \subseteq Reader
  /\ NoDevice \notin Config /\ NameOf \in [Config -> Name] /\ Supported \subseteq Config
  /\ \A r \in Config : r \notin Reader
  /\ \A c \in Collector : c \notin Getter
BY RegistryAssumption DEF Caller, Reader

LEMMA EmptyMap == Empty \in Map /\ \A n \in Name : Empty[n] = NoDevice
BY DEF Empty, Map

LEMMA InitIInv == Init => IInv
<1> SUFFICES ASSUME Init PROVE IInv
  OBVIOUS
<1>1. TypeInv
  BY EmptyMap, Kinds DEF Init, TypeInv
<1>2. LockInv
  BY Kinds DEF Init, LockInv
<1>3. ASSUME NEW c \in Collector PROVE CollectInv(c)
  <2>1. pc[c] = "idle" /\ wg[c] = 0 /\ running[c] = Empty
    BY <1>3, Kinds DEF Init
  <2>2. Running(c) = {}
    BY <2>1, EmptyMap DEF Running
  <2> QED BY <2>1, <2>2, FS_EmptySet DEF CollectInv, Waiting, Collecting, Collected
<1>4. RegisteredStays
  BY Kinds DEF Init, RegisteredStays
<1> QED BY <1>1, <1>2, <1>3, <1>4 DEF IInv

-----------------------------------------------------------------------------
(* Types and the lock.                                                     *)

LEMMA TypeStep == TypeInv /\ [Next]_vars => TypeInv'
<1> SUFFICES ASSUME TypeInv, [Next]_vars PROVE TypeInv'
  OBVIOUS
<1> USE Kinds DEF TypeInv, lockVars, collectVars
<1>1. ASSUME NEW r \in Config, CallRegister(r) PROVE TypeInv'
  BY <1>1 DEF CallRegister, Goto
<1>2. ASSUME NEW r \in Config, Lock(r) PROVE TypeInv'
  BY <1>2 DEF Lock, Goto
<1>3. ASSUME NEW r \in Config, Refuse(r) PROVE TypeInv'
  BY <1>3 DEF Refuse, Unlock
<1>4. ASSUME NEW r \in Config, Register(r) PROVE TypeInv'
  <2>1. devices' \in Map BY <1>4 DEF Register, Map
  <2> QED BY <1>4, <2>1 DEF Register, Unlock
<1>5. ASSUME NEW g \in Getter, CallGetDevice(g) PROVE TypeInv'
  BY <1>5 DEF CallGetDevice, Goto
<1>6. ASSUME NEW g \in Getter, GetDevice(g) PROVE TypeInv'
  BY <1>6 DEF GetDevice, Goto
<1>7. ASSUME NEW c \in Collector, CallCollectAll(c) PROVE TypeInv'
  BY <1>7, EmptyMap DEF CallCollectAll, Goto
<1>8. ASSUME NEW c \in Collector, Wait(c) PROVE TypeInv'
  BY <1>8 DEF Wait, Goto
<1>9. ASSUME NEW c \in Collector, RUnlock(c) PROVE TypeInv'
  BY <1>9 DEF RUnlock, Goto
<1>10. ASSUME NEW c \in Collector, NEW n \in Name, SpawnCollect(c, n) PROVE TypeInv'
  <2>1. running' \in [Collector -> Map] BY <1>10 DEF SpawnCollect, Map
  <2> QED BY <1>10, <2>1 DEF SpawnCollect
<1>11. ASSUME NEW c \in Collector, NEW n \in Name, StoreValues(c, n) PROVE TypeInv'
  <2>1. running' \in [Collector -> Map] /\ res' \in [Collector -> Map]
    BY <1>11 DEF StoreValues, Map
  <2> QED BY <1>11, <2>1 DEF StoreValues
<1>12. ASSUME NEW g \in Reader, RLock(g) PROVE TypeInv'
  BY <1>12 DEF RLock, Goto
<1>13. ASSUME NEW g \in Reader, RLockBlocks(g) PROVE TypeInv'
  BY <1>13 DEF RLockBlocks, Goto
<1>14. CASE UNCHANGED vars
  BY <1>14 DEF vars
<1> QED
  BY <1>1, <1>2, <1>3, <1>4, <1>5, <1>6, <1>7, <1>8, <1>9, <1>10, <1>11, <1>12,
     <1>13, <1>14 DEF Next, RegisterStep, CollectStep

LEMMA LockStep == TypeInv /\ LockInv /\ [Next]_vars => LockInv'
<1> SUFFICES ASSUME TypeInv, LockInv, [Next]_vars PROVE LockInv'
  OBVIOUS
<1> USE Kinds DEF TypeInv, LockInv, lockVars, collectVars
<1>1. ASSUME NEW r \in Config, CallRegister(r) \/ Lock(r) PROVE LockInv'
  BY <1>1 DEF CallRegister, Lock, Goto
<1>2. ASSUME NEW r \in Config, Refuse(r) \/ Register(r) PROVE LockInv'
  <2>1. readers = {} /\ Unlock(r, "returned")
    BY <1>2 DEF Refuse, Register
  <2> QED BY <2>1 DEF Unlock
<1>3. ASSUME NEW g \in Getter, CallGetDevice(g) \/ GetDevice(g) PROVE LockInv'
  BY <1>3 DEF CallGetDevice, GetDevice, Goto
<1>4. ASSUME NEW c \in Collector, CallCollectAll(c) \/ Wait(c) \/ RUnlock(c) PROVE LockInv'
  BY <1>4 DEF CallCollectAll, Wait, RUnlock, Goto
<1>5. ASSUME NEW c \in Collector, NEW n \in Name, SpawnCollect(c, n) \/ StoreValues(c, n)
      PROVE LockInv'
  BY <1>5 DEF SpawnCollect, StoreValues
<1>6. ASSUME NEW g \in Reader, RLock(g) \/ RLockBlocks(g) PROVE LockInv'
  BY <1>6 DEF RLock, RLockBlocks, Goto
<1>7. CASE UNCHANGED vars
  BY <1>7 DEF vars
<1> QED
  BY <1>1, <1>2, <1>3, <1>4, <1>5, <1>6, <1>7 DEF Next, RegisterStep, CollectStep

-----------------------------------------------------------------------------
(* The collections.                                                        *)

\* A step that changes neither the devices nor anything of c.
LEMMA CollectFrame ==
  ASSUME NEW c \in Collector, CollectInv(c), devices' = devices, pc'[c] = pc[c],
         spawned'[c] = spawned[c], running'[c] = running[c], wg'[c] = wg[c],
         res'[c] = res[c]
  PROVE  CollectInv(c)'
<1>1. Running(c)' = Running(c)
  BY DEF Running
<1> QED BY <1>1 DEF CollectInv, Waiting, Collecting, Collected

\* The unlock of a Register lets c in, or leaves it where it is; it may add an
\* entry to the devices, under a name that had none.
LEMMA CollectAdmit ==
  ASSUME TypeInv, LockInv, NEW c \in Collector, CollectInv(c), UNCHANGED collectVars,
         NEW r \in Config, Unlock(r, "returned"), readers = {},
         \A n \in Name : devices[n] # NoDevice => devices'[n] = devices[n]
  PROVE  CollectInv(c)'
<1> USE Kinds DEF collectVars
<1>1. Running(c)' = Running(c) /\ wg'[c] = wg[c]
  BY DEF Running
<1>2. pc[c] \notin {"in", "runlock"} /\ Running(c) = {}
  BY DEF LockInv, CollectInv
<1>3. pc'[c] = IF pc[c] = "blocked" THEN "in" ELSE pc[c]
  BY DEF Unlock, TypeInv
<1>4. CASE pc[c] = "blocked"
  <2>1. spawned'[c] = {} /\ res'[c] = Empty
    BY <1>4 DEF CollectInv, Waiting
  <2>2. \A n \in Name : running'[c][n] = NoDevice /\ res'[c][n] = NoDevice
    BY <1>2, <2>1, EmptyMap DEF Running
  <2> QED BY <1>1, <1>2, <1>3, <1>4, <2>1, <2>2
             DEF CollectInv, Waiting, Collecting, Collected
<1>5. CASE pc[c] # "blocked"
  <2>1. pc'[c] = "returned" => \A n \in Name : res'[c][n] \in {NoDevice, devices'[n]}
    BY <1>3, <1>5 DEF CollectInv, Collected
  <2> QED BY <1>1, <1>2, <1>3, <1>5, <2>1
             DEF CollectInv, Waiting, Collecting, Collected
<1> QED BY <1>4, <1>5

\* Nothing but pc moves, and not out of or into a collection.
LEMMA CollectGoto ==
  ASSUME NEW c \in Collector, CollectInv(c), devices' = devices, UNCHANGED collectVars,
         \/ pc[c] = "rlock" /\ pc'[c] \in {"in", "blocked"}
         \/ pc[c] = "runlock" /\ pc'[c] = "returned"
  PROVE  CollectInv(c)'
<1> USE DEF collectVars
<1>1. Running(c)' = Running(c) /\ Running(c) = {} /\ wg'[c] = wg[c]
  BY DEF Running, CollectInv
<1>2. \A n \in Name : running[c][n] = NoDevice
  BY <1>1 DEF Running
<1> QED BY <1>1, <1>2, EmptyMap DEF CollectInv, Waiting, Collecting, Collected

LEMMA CollectCall ==
  ASSUME TypeInv, NEW c \in Collector, CollectInv(c), CallCollectAll(c)
  PROVE  CollectInv(c)'
<1>1. /\ pc[c] # "in" /\ pc'[c] = "rlock"
      /\ spawned'[c] = {} /\ res'[c] = Empty
      /\ running'[c] = running[c] /\ wg'[c] = wg[c]
  BY Kinds DEF CallCollectAll, Goto, TypeInv
<1>2. Running(c)' = Running(c) /\ Running(c) = {}
  BY <1>1 DEF Running, CollectInv
<1> QED BY <1>1, <1>2 DEF CollectInv, Waiting, Collecting, Collected

LEMMA RunningFinite ==
  ASSUME NEW c \in Collector
  PROVE  IsFiniteSet(Running(c)) /\ Cardinality(Running(c)) \in Nat
<1>1. Running(c) \subseteq Name /\ IsFiniteSet(Name)
  BY RegistryAssumption DEF Running
<1> QED BY <1>1, FS_Subset, FS_CardinalityType

LEMMA CollectSpawn ==
  ASSUME TypeInv, NEW c \in Collector, CollectInv(c), NEW n \in Name, SpawnCollect(c, n)
  PROVE  CollectInv(c)'
<1>1. /\ pc[c] = "in" /\ pc'[c] = "in" /\ devices' = devices /\ res' = res
      /\ devices[n] # NoDevice /\ n \notin spawned[c]
      /\ spawned'[c] = spawned[c] \cup {n}
      /\ running'[c] = [running[c] EXCEPT ![n] = devices[n]]
      /\ running[c] \in Map
      /\ wg'[c] = wg[c] + 1
  BY DEF SpawnCollect, TypeInv
<1>2. /\ running'[c][n] = devices[n]
      /\ \A m \in Name \ {n} : running'[c][m] = running[c][m]
  BY <1>1 DEF Map
<1>3. running[c][n] = NoDevice
  BY <1>1 DEF CollectInv, Collecting
<1>4. n \notin Running(c) /\ Running(c)' = Running(c) \cup {n}
  BY <1>1, <1>2, <1>3 DEF Running
<1>5. wg'[c] = Cardinality(Running(c)')
  <2>1. Cardinality(Running(c) \cup {n}) = Cardinality(Running(c)) + 1
    BY <1>4, RunningFinite, FS_AddElement
  <2> QED BY <1>1, <1>4, <2>1 DEF CollectInv
<1>6. Collecting(c)'
  <2>1. Collecting(c) BY DEF CollectInv
  <2> QED BY <1>1, <1>2, <2>1 DEF Collecting
<1> QED BY <1>1, <1>5, <1>6 DEF CollectInv, Waiting, Collected

LEMMA CollectStore ==
  ASSUME TypeInv, NEW c \in Collector, CollectInv(c), NEW n \in Name, StoreValues(c, n)
  PROVE  CollectInv(c)'
<1>1. /\ pc' = pc /\ devices' = devices /\ spawned' = spawned
      /\ running[c][n] # NoDevice
      /\ running'[c] = [running[c] EXCEPT ![n] = NoDevice] /\ running[c] \in Map
      /\ res'[c] = [res[c] EXCEPT ![n] = running[c][n]] /\ res[c] \in Map
      /\ wg'[c] = wg[c] - 1
  BY DEF StoreValues, TypeInv
<1>2. /\ running'[c][n] = NoDevice /\ res'[c][n] = running[c][n]
      /\ \A m \in Name \ {n} : running'[c][m] = running[c][m] /\ res'[c][m] = res[c][m]
  BY <1>1 DEF Map
<1>3. n \in Running(c) /\ Running(c)' = Running(c) \ {n}
  BY <1>1, <1>2 DEF Running
<1>4. pc[c] = "in"
  BY <1>3 DEF CollectInv
<1>5. wg'[c] = Cardinality(Running(c)')
  BY <1>1, <1>3, RunningFinite, FS_RemoveElement DEF CollectInv
<1>6. Collecting(c)'
  <2>1. Collecting(c) BY DEF CollectInv
  <2>2. running[c][n] = devices[n] BY <1>1, <1>4, <2>1 DEF Collecting
  <2> QED BY <1>1, <1>2, <1>4, <2>1, <2>2 DEF Collecting
<1> QED BY <1>1, <1>4, <1>5, <1>6 DEF CollectInv, Waiting, Collected

\* wg is 0: no goroutine runs, so each name that was passed has its result.
LEMMA CollectWait ==
  ASSUME TypeInv, NEW c \in Collector, CollectInv(c), Wait(c)
  PROVE  CollectInv(c)'
<1>1. /\ pc[c] = "in" /\ pc'[c] = "runlock" /\ devices' = devices
      /\ UNCHANGED collectVars /\ wg[c] = 0
      /\ \A n \in Name : devices[n] # NoDevice => n \in spawned[c]
  BY Kinds DEF Wait, Goto, TypeInv
<1>2. Running(c) = {} /\ Running(c)' = Running(c)
  BY <1>1, RunningFinite, FS_EmptySet DEF CollectInv, Running, collectVars
<1>3. \A n \in Name : running[c][n] = NoDevice
  BY <1>2 DEF Running
<1>4. \A n \in Name : res'[c][n] = devices'[n]
  BY <1>1, <1>3 DEF CollectInv, Collecting, collectVars
<1> QED BY <1>1, <1>2, <1>4 DEF CollectInv, Waiting, Collecting, Collected, collectVars

LEMMA CollectStepInv ==
  ASSUME TypeInv, LockInv, NEW d \in Collector, CollectInv(d), [Next]_vars
  PROVE  CollectInv(d)'
<1> USE Kinds DEF TypeInv, lockVars, collectVars
<1>1. ASSUME NEW r \in Config, CallRegister(r) \/ Lock(r) PROVE CollectInv(d)'
  BY <1>1, CollectFrame DEF CallRegister, Lock, Goto
<1>2. ASSUME NEW r \in Config, Refuse(r) \/ Register(r) PROVE CollectInv(d)'
  <2>1. /\ readers = {} /\ Unlock(r, "returned") /\ UNCHANGED collectVars
        /\ \A n \in Name : devices[n] # NoDevice => devices'[n] = devices[n]
    BY <1>2 DEF Refuse, Register, Map
  <2> QED BY <2>1, CollectAdmit
<1>3. ASSUME NEW g \in Getter, CallGetDevice(g) \/ GetDevice(g) PROVE CollectInv(d)'
  BY <1>3, CollectFrame DEF CallGetDevice, GetDevice, Goto
<1>4. ASSUME NEW c \in Collector, CallCollectAll(c) PROVE CollectInv(d)'
  <2>1. CASE c = d BY <1>4, <2>1, CollectCall
  <2>2. CASE c # d BY <1>4, <2>2, CollectFrame DEF CallCollectAll, Goto
  <2> QED BY <2>1, <2>2
<1>5. ASSUME NEW c \in Collector, Wait(c) PROVE CollectInv(d)'
  <2>1. CASE c = d BY <1>5, <2>1, CollectWait
  <2>2. CASE c # d BY <1>5, <2>2, CollectFrame DEF Wait, Goto
  <2> QED BY <2>1, <2>2
<1>6. ASSUME NEW c \in Collector, RUnlock(c) PROVE CollectInv(d)'
  <2>1. CASE c = d BY <1>6, <2>1, CollectGoto DEF RUnlock, Goto
  <2>2. CASE c # d BY <1>6, <2>2, CollectFrame DEF RUnlock, Goto
  <2> QED BY <2>1, <2>2
<1>7. ASSUME NEW c \in Collector, NEW n \in Name, SpawnCollect(c, n) PROVE CollectInv(d)'
  <2>1. CASE c = d BY <1>7, <2>1, CollectSpawn
  <2>2. CASE c # d BY <1>7, <2>2, CollectFrame DEF SpawnCollect
  <2> QED BY <2>1, <2>2
<1>8. ASSUME NEW c \in Collector, NEW n \in Name, StoreValues(c, n) PROVE CollectInv(d)'
  <2>1. CASE c = d BY <1>8, <2>1, CollectStore
  <2>2. CASE c # d BY <1>8, <2>2, CollectFrame DEF StoreValues
  <2> QED BY <2>1, <2>2
<1>9. ASSUME NEW g \in Reader, RLock(g) \/ RLockBlocks(g) PROVE CollectInv(d)'
  <2>1. CASE g = d BY <1>9, <2>1, CollectGoto DEF RLock, RLockBlocks, Goto
  <2>2. CASE g # d BY <1>9, <2>2, CollectFrame DEF RLock, RLockBlocks, Goto
  <2> QED BY <2>1, <2>2
<1>10. CASE UNCHANGED vars
  BY <1>10, CollectFrame DEF vars
<1> QED
  BY <1>1, <1>2, <1>3, <1>4, <1>5, <1>6, <1>7, <1>8, <1>9, <1>10
     DEF Next, RegisterStep, CollectStep

-----------------------------------------------------------------------------
(* The theorems.                                                           *)

LEMMA StaysStep == TypeInv /\ RegisteredStays /\ [Next]_vars => RegisteredStays'
<1> SUFFICES ASSUME TypeInv, RegisteredStays, [Next]_vars PROVE RegisteredStays'
  OBVIOUS
<1> USE Kinds DEF TypeInv, RegisteredStays
<1>1. ASSUME NEW r \in Config, Refuse(r) PROVE RegisteredStays'
  BY <1>1 DEF Refuse
<1>2. ASSUME NEW r \in Config, Register(r) PROVE RegisteredStays'
  <2>1. /\ devices[NameOf[r]] = NoDevice
        /\ devices' = IF r \in Supported THEN [devices EXCEPT ![NameOf[r]] = r] ELSE devices
        /\ answer' = [answer EXCEPT ![r] = "nil"]
    BY <1>2 DEF Register
  <2>2. ASSUME NEW s \in Supported, answer'[s] = "nil" PROVE devices'[NameOf[s]] = s
    <3>1. CASE s = r BY <2>1, <3>1 DEF Map
    <3>2. CASE s # r
      <4>1. devices[NameOf[s]] = s BY <2>1, <2>2, <3>2
      <4>2. NameOf[s] # NameOf[r] BY <2>1, <4>1
      <4> QED BY <2>1, <4>1, <4>2 DEF Map
    <3> QED BY <3>1, <3>2
  <2> QED BY <2>2
<1>3. ASSUME UNCHANGED <<devices, answer>> PROVE RegisteredStays'
  BY <1>3
<1> QED
  BY <1>1, <1>2, <1>3 DEF Next, RegisterStep, CollectStep, CallRegister, Lock,
     CallGetDevice, GetDevice, CallCollectAll, Wait, RUnlock, SpawnCollect,
     StoreValues, RLock, RLockBlocks, vars

LEMMA Inductive == Spec => []IInv
<1>1. IInv /\ [Next]_vars => IInv'
  BY TypeStep, LockStep, CollectStepInv, StaysStep DEF IInv
<1> QED BY InitIInv, <1>1, PTL DEF Spec

\* Types of all variables; no WaitGroup of CollectAll becomes negative, which
\* would panic.
THEOREM RegistryTypeCorrect == Spec => []RegistryTypeOK
<1>1. IInv => RegistryTypeOK
  <2> SUFFICES ASSUME IInv PROVE RegistryTypeOK
    OBVIOUS
  <2>1. \A c \in Collector : wg[c] \in Nat
    BY RunningFinite DEF IInv, CollectInv
  <2> QED BY <2>1 DEF IInv, TypeInv, RegistryTypeOK
<1> QED BY Inductive, <1>1, PTL

\* CollectAll returns the devices that are registered when it gives the lock
\* back, all of them and no other, and none of its goroutines outlives it.
THEOREM CollectsTheRegistry == Spec => []CollectAllComplete
<1>1. IInv => CollectAllComplete
  <2> SUFFICES ASSUME IInv, NEW c \in Collector
               PROVE  /\ pc[c] = "runlock" => res[c] = devices
                      /\ pc[c] = "returned" =>
                           /\ running[c] = Empty
                           /\ \A n \in Name : res[c][n] \in {NoDevice, devices[n]}
    BY DEF CollectAllComplete
  <2>1. CollectInv(c) /\ res[c] \in Map /\ running[c] \in Map /\ devices \in Map
    BY DEF IInv, TypeInv
  <2>2. pc[c] = "runlock" => res[c] = devices
    BY <2>1 DEF CollectInv, Collected, Map
  <2>3. pc[c] = "returned" => running[c] = Empty
    BY <2>1 DEF CollectInv, Running, Map, Empty
  <2> QED BY <2>1, <2>2, <2>3 DEF CollectInv, Collected
<1> QED BY Inductive, <1>1, PTL

\* A device that Register has accepted is never replaced: check and entry are
\* one step under dm.mu, whoever else registers the name.
THEOREM NeverReplaced == Spec => []RegisteredStays
<1>1. IInv => RegisteredStays
  BY DEF IInv
<1> QED BY Inductive, <1>1, PTL

-----------------------------------------------------------------------------
(* Nobody waits in a circle.                                               *)

\* Where the callers of each kind can be. Whoever drains is the writer, the
\* writer drains, and who is blocked waits for a writer.
WriterInv ==
  /\ \A r \in Config : pc[r] \in {"idle", "lock", "drain", "returned"}
  /\ \A g \in Reader : pc[g] \in {"idle", "rlock", "blocked", "in", "runlock", "returned"}
  /\ \A g \in Getter : pc[g] # "runlock"
  /\ \A r \in Config : pc[r] = "drain" <=> writer = r
  /\ \A g \in Reader : pc[g] = "blocked" => writer # NoDevice

LEMMA WriterInit == Init => WriterInv
<1>1. Getter \subseteq Caller BY Kinds
<1> QED BY <1>1, Kinds DEF Init, WriterInv

LEMMA WriterStep == TypeInv /\ WriterInv /\ [Next]_vars => WriterInv'
<1> SUFFICES ASSUME TypeInv, WriterInv, [Next]_vars PROVE WriterInv'
  OBVIOUS
<1> USE Kinds DEF TypeInv, WriterInv, lockVars, collectVars
<1>1. ASSUME NEW r \in Config, CallRegister(r) \/ Lock(r) PROVE WriterInv'
  BY <1>1 DEF CallRegister, Lock, Goto
<1>2. ASSUME NEW r \in Config, Refuse(r) \/ Register(r) PROVE WriterInv'
  <2>1. pc[r] = "drain" /\ Unlock(r, "returned")
    BY <1>2 DEF Refuse, Register
  <2>2. /\ writer' = NoDevice
        /\ \A g \in Reader : pc'[g] = IF pc[g] = "blocked" THEN "in" ELSE pc[g]
        /\ \A q \in Config : pc'[q] = IF q = r THEN "returned" ELSE pc[q]
    BY <2>1 DEF Unlock
  <2> QED BY <2>1, <2>2
<1>3. ASSUME NEW g \in Getter, CallGetDevice(g) \/ GetDevice(g) PROVE WriterInv'
  BY <1>3 DEF CallGetDevice, GetDevice, Goto
<1>4. ASSUME NEW c \in Collector, CallCollectAll(c) \/ Wait(c) \/ RUnlock(c) PROVE WriterInv'
  BY <1>4 DEF CallCollectAll, Wait, RUnlock, Goto
<1>5. ASSUME NEW c \in Collector, NEW n \in Name, SpawnCollect(c, n) \/ StoreValues(c, n)
      PROVE WriterInv'
  BY <1>5 DEF SpawnCollect, StoreValues
<1>6. ASSUME NEW g \in Reader, RLock(g) \/ RLockBlocks(g) PROVE WriterInv'
  BY <1>6 DEF RLock, RLockBlocks, Goto
<1>7. CASE UNCHANGED vars
  BY <1>7 DEF vars
<1> QED
  BY <1>1, <1>2, <1>3, <1>4, <1>5, <1>6, <1>7 DEF Next, RegisterStep, CollectStep

\* A caller inside the read lock can go on, or one of its goroutines can.
LEMMA InsideGoesOn ==
  ASSUME IInv, WriterInv, NEW g \in Reader, pc[g] \in {"in", "runlock"}
  PROVE  CanGoOn(g)
<1>1. CASE g \in Getter BY <1>1 DEF WriterInv, CanGoOn
<1>2. CASE g \in Collector
  <2>1. wg[g] = Cardinality(Running(g)) BY <1>2 DEF IInv, CollectInv
  <2>2. CASE Running(g) = {} BY <1>2, <2>1, <2>2, FS_EmptySet DEF CanGoOn
  <2>3. CASE Running(g) # {} BY <1>2, <2>3 DEF CanGoOn, Running
  <2> QED BY <2>2, <2>3
<1> QED BY <1>1, <1>2 DEF Reader

\* While a writer waits, it or one of the readers it waits for can go on.
LEMMA WriterGoesOn ==
  ASSUME IInv, WriterInv, writer # NoDevice
  PROVE  \E h \in Caller : CanGoOn(h)
<1>1. writer \in Config /\ pc[writer] = "drain" BY DEF IInv, TypeInv, WriterInv
<1>2. CASE readers = {} BY <1>1, <1>2, Kinds DEF CanGoOn
<1>3. CASE readers # {}
  <2>1. PICK g \in Reader : g \in readers BY <1>3 DEF IInv, TypeInv
  <2>2. pc[g] \in {"in", "runlock"} BY <2>1 DEF IInv, LockInv
  <2> QED BY <2>1, <2>2, InsideGoesOn, Kinds
<1> QED BY <1>2, <1>3

\* Registrations, lookups and collections cannot lock each other up, for any
\* number of callers and devices.
THEOREM RegistryNeverStuck == Spec => []NeverStuck
<1>1. IInv /\ WriterInv => NeverStuck
  <2> SUFFICES ASSUME IInv, WriterInv, NEW g \in Caller, pc[g] \notin {"idle", "returned"}
               PROVE  \E h \in Caller : CanGoOn(h)
    BY DEF NeverStuck
  <2>1. CASE writer # NoDevice BY <2>1, WriterGoesOn
  <2>2. CASE writer = NoDevice /\ g \in Config
    <3>1. pc[g] = "lock" BY <2>2, Kinds DEF WriterInv
    <3> QED BY <2>2, <3>1 DEF CanGoOn
  <2>3. CASE writer = NoDevice /\ g \in Reader
    <3>1. pc[g] \in {"rlock", "in", "runlock"} BY <2>3 DEF WriterInv
    <3> QED BY <2>3, <3>1, InsideGoesOn DEF CanGoOn
  <2> QED BY <2>1, <2>2, <2>3 DEF Caller
<1>2. IInv => TypeInv BY DEF IInv
<1> QED BY Inductive, WriterInit, WriterStep, <1>1, <1>2, PTL DEF Spec
=============================================================================
