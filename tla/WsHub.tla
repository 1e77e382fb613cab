------------------------------- MODULE WsHub -------------------------------
(***************************************************************************)
(* internal/saas/ws/hub.go: the registry of agent connections.  One        *)
(* goroutine per connection runs HandleConnection (wait for the token,     *)
(* register, answer, read until an error, unregister, close), and any      *)
(* number of goroutines call SendToAgent.  The registry is guarded by a    *)
(* readers-writer mutex; a sender holds the read lock while it writes.     *)
(*                                                                         *)
(* A connection is keyed by its user, so that the deferred Unregister of   *)
(* one connection removes and closes whichever connection the user has by  *)
(* then.  Messages and deadlines are left out, as is LastSeen, which       *)
(* nothing reads, and so are SendToAgent's calls that find no entry: they  *)
(* change nothing.                                                         *)
(***************************************************************************)
CONSTANTS
  User,     \* users
  Conn,     \* connections ever made (bound)
  Sender,   \* goroutines calling SendToAgent
  NoConn    \* no connection

ASSUME NoConnAssumption == NoConn \notin Conn

\* Where a handler is: before the upgrade, waiting for the token, registered but not
\* yet answered, writing the answer, reading, writing an acknowledgement, at the
\* deferred Unregister, past its removal and about to close, returned.
Serving == {"registered", "answer", "loop", "ack"}
Stage == {"new", "auth"} \cup Serving \cup {"unregister", "close", "done"}

VARIABLES
  agents,    \* the registry: the connection of each user, or NoConn
  pc,        \* the stage of each connection's handler
  user,      \* the users each connection has authenticated as (none or one)
  sock,      \* "none", "open", "gone" (peer hung up) or "closed" (by the server)
  victim,    \* what the handler's Unregister took out of the registry
  sender     \* the connection each sender is writing to, under the read lock

vars == <<agents, pc, user, sock, victim, sender>>

Init ==
  /\ agents = [u \in User |-> NoConn]
  /\ pc = [c \in Conn |-> "new"]
  /\ user = [c \in Conn |-> {}]
  /\ sock = [c \in Conn |-> "none"]
  /\ victim = [c \in Conn |-> NoConn]
  /\ sender = [s \in Sender |-> NoConn]

-----------------------------------------------------------------------------
(* Writes.  A connection takes one writer at a time, and nothing makes the  *)
(* handler and the senders take turns.                                      *)

Sending(c) == {s \in Sender : sender[s] = c}

\* A writer that meets another one may be stopped by the library's panic, which ends the
\* process when no handler frame recovers it: every connection closes, every goroutine
\* is gone.
Crash ==
  /\ agents' = [u \in User |-> NoConn]
  /\ pc' = [d \in Conn |-> IF pc[d] = "new" THEN "new" ELSE "done"]
  /\ sock' = [d \in Conn |-> IF sock[d] = "none" THEN "none" ELSE "closed"]
  /\ sender' = [s \in Sender |-> NoConn]
  /\ UNCHANGED <<user, victim>>

\* The write lock: no sender is inside SendToAgent.
LockFreeAlways == TRUE   \* mutant: the registry is changed without the lock
LockFree == \A s \in Sender : sender[s] = NoConn

-----------------------------------------------------------------------------
(* HandleConnection                                                         *)

Connect(c) ==
  /\ pc[c] = "new"
  /\ pc' = [pc EXCEPT ![c] = "auth"]
  /\ sock' = [sock EXCEPT ![c] = "open"]
  /\ UNCHANGED <<agents, user, victim, sender>>

\* No message within AuthTimeout, a malformed one, a bad token, or the peer is gone: the
\* connection ends with a negative answer.
Refuse(c) ==
  /\ pc[c] = "auth"
  /\ pc' = [pc EXCEPT ![c] = "done"]
  /\ sock' = [sock EXCEPT ![c] = "closed"]
  /\ UNCHANGED <<agents, user, victim, sender>>

\* Register overwrites the entry of the user; the connection it replaces stays open.
Register(c, u) ==
  /\ pc[c] = "auth"
  /\ LockFree
  /\ agents' = [agents EXCEPT ![u] = c]
  /\ user' = [user EXCEPT ![c] = {u}]
  /\ pc' = [pc EXCEPT ![c] = "registered"]
  /\ UNCHANGED <<sock, victim, sender>>

\* The handler's own writes: the answer to the token, then heartbeat_ack and delta_ack.
\* Errors are ignored.
StartReply(c, from, to) ==
  /\ pc[c] = from
  /\ pc' = [pc EXCEPT ![c] = to]
  /\ UNCHANGED <<agents, user, sock, victim, sender>>

StartAnswer(c) == StartReply(c, "registered", "answer")
StartAck(c) == sock[c] = "open" /\ StartReply(c, "loop", "ack")

EndReply(c) ==
  /\ pc[c] \in {"answer", "ack"}
  /\ pc' = [pc EXCEPT ![c] = "loop"]
  /\ UNCHANGED <<agents, user, sock, victim, sender>>

\* A panic in the handler is recovered by the router after the deferred calls.
ReplyPanics(c) ==
  /\ pc[c] \in {"registered", "loop"}
  /\ Sending(c) # {}
  /\ pc' = [pc EXCEPT ![c] = "unregister"]
  /\ UNCHANGED <<agents, user, sock, victim, sender>>

\* There is no read deadline after the authentication: only the end of the socket,
\* on either side, ends the loop.
ReadFails(c) ==
  /\ pc[c] = "loop"
  /\ sock[c] # "open"
  /\ pc' = [pc EXCEPT ![c] = "unregister"]
  /\ UNCHANGED <<agents, user, sock, victim, sender>>

\* The deferred Unregister takes out the user's entry, whichever connection it is ...
KeptEntry(u) == agents                                       \* mutant: no delete
Removed(u) == [agents EXCEPT ![u] = NoConn]

Unregister(c) ==
  /\ pc[c] = "unregister"
  /\ LockFree
  /\ \E u \in user[c] :
       /\ victim' = [victim EXCEPT ![c] = agents[u]]
       /\ agents' = Removed(u)
  /\ pc' = [pc EXCEPT ![c] = "close"]
  /\ UNCHANGED <<user, sock, sender>>

\* ... and closes it, outside the lock; then the handler's own connection is closed.
VictimOnly(c) == {victim[c]}       \* mutant: no deferred close of its own
ClosedBy(c) == {victim[c], c}

CloseAll(c) ==
  /\ pc[c] = "close"
  /\ sock' = [d \in Conn |-> IF d \in ClosedBy(c) THEN "closed" ELSE sock[d]]
  /\ pc' = [pc EXCEPT ![c] = "done"]
  /\ UNCHANGED <<agents, user, victim, sender>>

-----------------------------------------------------------------------------
(* SendToAgent writes under the read lock.  A writer that waits for the     *)
(* mutex, as a handler at its Unregister does, blocks new readers.          *)

StartSend(s, u) ==
  /\ sender[s] = NoConn
  /\ agents[u] # NoConn
  /\ \A c \in Conn : pc[c] # "unregister"
  /\ sender' = [sender EXCEPT ![s] = agents[u]]
  /\ UNCHANGED <<agents, pc, user, sock, victim>>

EndSend(s) ==
  /\ sender[s] # NoConn
  /\ sender' = [sender EXCEPT ![s] = NoConn]
  /\ UNCHANGED <<agents, pc, user, sock, victim>>

SendPanics(s) ==
  /\ sender[s] # NoConn
  /\ Sending(sender[s]) # {s} \/ pc[sender[s]] \in {"answer", "ack"}
  /\ Crash

-----------------------------------------------------------------------------
(* The peers                                                                *)

PeerLeaves(c) ==
  /\ sock[c] = "open"
  /\ sock' = [sock EXCEPT ![c] = "gone"]
  /\ UNCHANGED <<agents, pc, user, victim, sender>>

-----------------------------------------------------------------------------
Handle(c) ==
  \/ Refuse(c) \/ \E u \in User : Register(c, u)
  \/ StartAnswer(c) \/ StartAck(c) \/ EndReply(c) \/ ReplyPanics(c)
  \/ ReadFails(c) \/ Unregister(c) \/ CloseAll(c)

Next ==
  \/ \E c \in Conn : Handle(c) \/ Connect(c) \/ PeerLeaves(c)
  \/ \E s \in Sender : EndSend(s) \/ SendPanics(s) \/ \E u \in User : StartSend(s, u)

Spec == Init /\ [][Next]_vars

\* Handlers and senders run: the goroutines are scheduled, and a write ends, at the latest
\* by the deadline the handler has set last.
Fairness ==
  /\ \A c \in Conn : /\ WF_vars(Refuse(c))
                     /\ WF_vars(StartAnswer(c))
                     /\ WF_vars(EndReply(c))
                     /\ WF_vars(ReadFails(c))
                     /\ WF_vars(Unregister(c))
                     /\ WF_vars(CloseAll(c))
  /\ \A s \in Sender : WF_vars(EndSend(s))

FairSpec == Spec /\ Fairness

-----------------------------------------------------------------------------
(* Properties                                                               *)

\* Every variable keeps its type.
TypeOK ==
  /\ agents \in [User -> Conn \cup {NoConn}]
  /\ pc \in [Conn -> Stage]
  /\ user \in [Conn -> SUBSET User]
  /\ sock \in [Conn -> {"none", "open", "gone", "closed"}]
  /\ victim \in [Conn -> Conn \cup {NoConn}]
  /\ sender \in [Sender -> Conn \cup {NoConn}]

\* The registry never dangles: an entry belongs to a connection that has authenticated
\* as that user and whose handler has yet to run its deferred Unregister, in whatever
\* order old and new connections of the user come and go.
EntryHasHandler ==
  \A u \in User : agents[u] # NoConn =>
    /\ user[agents[u]] = {u}
    /\ pc[agents[u]] \in Serving \cup {"unregister"}

\* The server never closes a connection under a command being written to it, although
\* Unregister and HandleConnection close outside the lock: the removal waits for the
\* senders inside, and a removed connection gets no new ones.
CloseSparesSends ==
  \A s \in Sender : sender[s] # NoConn => sock[sender[s]] # "closed"

\* A handler that has returned leaves no socket open, its own included when a
\* reconnection has taken its place in the registry.
NoSocketLeak == \A c \in Conn : pc[c] = "done" => sock[c] = "closed"

\* A connection whose socket has ended leaves the registry, so that commands are not
\* written to it for ever.
EndedLeaves ==
  \A u \in User, c \in Conn :
    agents[u] = c /\ sock[c] # "open" ~> agents[u] # c

-----------------------------------------------------------------------------
(* Inductive invariant of the proofs                                        *)

\* A sender works on a registered connection: the read lock keeps the entry there.
SenderHoldsEntry == \A s \in Sender : sender[s] # NoConn => \E u \in User : agents[u] = sender[s]

\* A registered connection is not closed: what a handler is about to close has left the
\* registry, and never returns to it.
EntryNotClosed == \A u \in User : agents[u] # NoConn => sock[agents[u]] # "closed"
ClosingIsOut ==
  \A c \in Conn : pc[c] = "close" /\ victim[c] # NoConn =>
    /\ \A u \in User : agents[u] # victim[c]
    /\ pc[victim[c]] \notin {"new", "auth"}

\* A connection has a socket once it has a handler, closed at the earliest when the
\* handler gives up or registers it.
AuthOpen ==
  \A c \in Conn : /\ pc[c] \in {"new", "auth"} => sock[c] # "closed"
                  /\ pc[c] = "new" <=> sock[c] = "none"

HubInv ==
  /\ EntryHasHandler
  /\ SenderHoldsEntry
  /\ EntryNotClosed
  /\ ClosingIsOut
  /\ NoSocketLeak
  /\ AuthOpen

-----------------------------------------------------------------------------
(* What a comment says of the same code; the run refutes it.                *)

\* hub.go:89-93: HandleConnection performs the full lifecycle of an agent WebSocket and
\* unregisters the agent on an error or disconnect.  So a connection leaves the registry
\* through its own handler (or is replaced, or the process ends).
UnregisteredByOwnHandler ==
  [][\A u \in User : agents[u] # NoConn /\ agents'[u] = NoConn =>
       pc'[agents[u]] \in {"close", "done"}]_vars
=============================================================================
