---------------------------- MODULE ModbusAdapter ----------------------------
(***************************************************************************)
(* cycV2/internal/protocol/modbus/modbus.go: the connection of a           *)
(* ModbusAdapter, as operators on its state. Each operator gives the set   *)
(* of results the call can have. The ClientHandler and the Client of the   *)
(* Modbus library are external; a request may fail whether or not it has   *)
(* reached the slave. The data read or written are left out.               *)
(***************************************************************************)

\* opened: the flag of that name; client: m.client is not nil.
Adapter == [opened : BOOLEAN, client : BOOLEAN]

NewModbusAdapter == [opened |-> FALSE, client |-> FALSE]

\* Seeded bug: opened is set before the handler has connected.
Connect_OpensFirst(a) ==
  IF a.opened THEN {[adapter |-> a, err |-> FALSE]}
  ELSE {[adapter |-> [opened |-> TRUE, client |-> ok], err |-> ~ok] : ok \in BOOLEAN}

Connect(a) ==
  IF a.opened THEN {[adapter |-> a, err |-> FALSE]}
  ELSE {[adapter |-> a, err |-> TRUE],
        [adapter |-> [opened |-> TRUE, client |-> TRUE], err |-> FALSE]}

\* The client is kept. When the close fails the adapter stays open.
Disconnect(a) ==
  IF ~a.opened THEN {[adapter |-> a, err |-> FALSE]}
  ELSE {[adapter |-> a, err |-> TRUE],
        [adapter |-> [a EXCEPT !.opened = FALSE], err |-> FALSE]}

\* WriteModbus connects if need be and then writes. A write that does not
\* reach the slave (no connection, unknown function code) returns an error;
\* one that does may return an error too.
WriteOutcomes(a) ==
  {o \in [adapter : Adapter, reaches : BOOLEAN, err : BOOLEAN] :
     \E c \in Connect(a) :
       /\ o.adapter = c.adapter
       /\ o.reaches \/ o.err
       /\ c.err => ~o.reaches}

\* The function codes BatchRead knows; for any other it returns an error.
ReadFuncs == {"hr", "03", "ir", "04", "co", "01", "di", "02"}

\* BatchRead does not connect: it goes straight to the client, which is nil
\* before the first Connect.
BatchReadPanics(a, func) == func \in ReadFuncs /\ ~a.client
=============================================================================
