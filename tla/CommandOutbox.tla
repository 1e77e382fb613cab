--------------------------- MODULE CommandOutbox ---------------------------
(***************************************************************************)
(* What the tick pipeline promises the rest of the system about trade      *)
(* commands, without saying how: a command is first logged under a client  *)
(* order id, an id is never logged twice, and a logged command leaves for  *)
(* the agent at most once, never before it is logged.                      *)
(***************************************************************************)
EXTENDS Naturals

CONSTANT OrderId

VARIABLES
  logged,   \* ids of the SpotExecution rows
  sends     \* sends[id]: how often the command with this id left the server

outboxVars == <<logged, sends>>

Init ==
  /\ logged = {}
  /\ sends = [id \in OrderId |-> 0]

\* A SpotExecution row with a fresh id is committed.
Log(id) ==
  /\ id \notin logged
  /\ logged' = logged \cup {id}
  /\ UNCHANGED sends

\* The command of a logged row is handed to the WebSocket hub, once.
Deliver(id) ==
  /\ id \in logged
  /\ sends[id] = 0
  /\ sends' = [sends EXCEPT ![id] = 1]
  /\ UNCHANGED logged

Next == \E id \in OrderId : Log(id) \/ Deliver(id)

Spec == Init /\ [][Next]_outboxVars
=============================================================================
