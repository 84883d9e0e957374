--------------------------- MODULE ControlService ---------------------------
(***************************************************************************)
(* What ControlAsync promises its callers, whoever implements it: the      *)
(* queue of a device (internal/device/modbus_device.go) or the queue of a  *)
(* bus (internal/bus/modbus_bus.go). Requests are accepted, carried out    *)
(* one at a time in the order in which they were accepted, and answered on *)
(* the channel the caller was given. A request is carried out at most      *)
(* once, and never reported as done when it has not been.                  *)
(***************************************************************************)
EXTENDS Sequences

CONSTANT Request

VARIABLES
  waiting,   \* accepted requests that have no answer yet, oldest first
  performed, \* requests whose write has been carried out
  answer     \* what the channel of each request has been given

serviceVars == <<waiting, performed, answer>>

ServiceInit ==
  /\ waiting = <<>>
  /\ performed = {}
  /\ answer = [r \in Request |-> "none"]

Accept(r) ==
  /\ answer[r] = "none"
  /\ \A i \in DOMAIN waiting : waiting[i] # r
  /\ waiting' = Append(waiting, r)
  /\ UNCHANGED <<performed, answer>>

\* The oldest request is carried out.
Perform ==
  /\ waiting # <<>>
  /\ Head(waiting) \notin performed
  /\ performed' = performed \cup {Head(waiting)}
  /\ UNCHANGED <<waiting, answer>>

\* The oldest request is answered; an error does not say that it has not been
\* carried out (the reply of the slave may have been lost).
Answer(a) ==
  /\ waiting # <<>>
  /\ a = "ok" => Head(waiting) \in performed
  /\ answer' = [answer EXCEPT ![Head(waiting)] = a]
  /\ waiting' = Tail(waiting)
  /\ UNCHANGED performed

ServiceNext ==
  \/ \E r \in Request : Accept(r)
  \/ Perform
  \/ \E a \in {"ok", "error"} : Answer(a)

ServiceSpec == ServiceInit /\ [][ServiceNext]_serviceVars
=============================================================================
