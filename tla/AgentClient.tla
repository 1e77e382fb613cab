---------------------------- MODULE AgentClient ----------------------------
(***************************************************************************)
(* AgentClient (internal/agent/ws/client.go), the agent's side of the      *)
(* WebSocket: Run alternates between a session (login, dial, authenticate, *)
(* snapshot, message loop) and waitReconnect, which makes a connection of  *)
(* its own only to close it again; each message loop starts a reader, the  *)
(* reader starts a goroutine per command, and Close may come at any time.  *)
(*                                                                         *)
(* All of them share c.conn.  A mutex guards each access to the pointer    *)
(* (but one) and none of the writes: whoever writes fetches the connection *)
(* of the moment and writes to it unprotected, so that fetching and the    *)
(* start of the write are one step here, the end of the write another.     *)
(* Messages are abstracted to their kind, and commands to those that       *)
(* decode: one that does not is skipped.  The backoff is left out, as is   *)
(* the end of the whole process that follows Close in cmd/agent.           *)
(***************************************************************************)
EXTENDS FiniteSets, Naturals

CONSTANTS
  MaxDial,   \* connections the client may dial (bound)
  Command,   \* commands the server may send
  NoConn     \* the nil connection

ASSUME DialAssumption == MaxDial \in Nat /\ NoConn \notin 1 .. MaxDial

Conn == 1 .. MaxDial

VARIABLES
  conn,      \* c.conn
  done,      \* c.done is closed
  closer,    \* where Close is
  main,      \* the goroutine of Run: its place and its own connection variable
  retrying,  \* Run is in waitReconnect
  dialed,    \* connections dialed so far
  sock,      \* "none", "open", "gone" (the server hung up) or "closed" (by the client)
  first,     \* the first message the server gets on each connection
  reader,    \* the reader of the session on each connection, and what it reads from
  command    \* the goroutine of each command, and the connection it writes to

vars == <<conn, done, closer, main, retrying, dialed, sock, first, reader, command>>

\* Places of Run, each named after what comes next; writing is a place of its own.
MainWriting == {"authenticating", "snapshotting", "beating"}
MainPlace == MainWriting \cup
  {"top", "sleep", "dial", "store", "authenticate", "answer", "snapshot", "loop",
   "cleanup", "fail", "drop", "forget", "returned", "crashed"}
CommandWriting == {"acking", "reporting"}

Thread(place) == [pc : place, at : Conn \cup {NoConn}]
ReaderThread == Thread({"none", "start", "read", "post", "posted"})
CommandThread == Thread({"none", "ack", "place", "report", "finished"} \cup CommandWriting)

Init ==
  /\ conn = NoConn
  /\ done = FALSE
  /\ closer = "idle"
  /\ main = [pc |-> "top", at |-> NoConn]
  /\ retrying = FALSE
  /\ dialed = 0
  /\ sock = [k \in Conn |-> "none"]
  /\ first = [k \in Conn |-> "none"]
  /\ reader = [k \in Conn |-> [pc |-> "none", at |-> NoConn]]
  /\ command = [c \in Command |-> [pc |-> "none", at |-> NoConn]]

-----------------------------------------------------------------------------
(* Connections                                                              *)

Open(k) == sock[k] \in {"open", "gone"}
Closing(k) == [sock EXCEPT ![k] = "closed"]

\* Close the connection and forget it, when there is one.
CloseConn ==
  /\ sock' = IF conn = NoConn THEN sock ELSE Closing(conn)
  /\ conn' = NoConn

\* WriteJSON on connection k by somebody, with busy telling whether another one is at
\* it: it succeeds, fails, or the two writers spoil each other's message.
WriteEnds(k, kind, busy, ok) ==
  /\ IF ok THEN Open(k) ELSE sock[k] # "open" \/ busy
  /\ first' = IF ok /\ sock[k] = "open" /\ first[k] = "none"
              THEN [first EXCEPT ![k] = kind] ELSE first

MainWrites(k) == main.pc \in MainWriting /\ main.at = k
CommandWrites(k) == {c \in Command : command[c].pc \in CommandWriting /\ command[c].at = k}

\* The panic nobody recovers ends the process.
Crash ==
  /\ main' = [main EXCEPT !.pc = "crashed"]
  /\ conn' = NoConn
  /\ sock' = [k \in Conn |-> IF sock[k] = "none" THEN "none" ELSE "closed"]
  /\ reader' = [k \in Conn |-> [reader[k] EXCEPT !.pc = IF @ = "none" THEN @ ELSE "posted"]]
  /\ command' = [c \in Command |-> [command[c] EXCEPT !.pc = IF @ = "none" THEN @ ELSE "finished"]]
  /\ UNCHANGED <<done, closer, retrying, dialed, first>>

-----------------------------------------------------------------------------
(* Run, runSession and waitReconnect                                        *)

Goto(place) == main' = [main EXCEPT !.pc = place]
Rest == <<closer, done, dialed, first, reader, command>>

\* Run looks at done before each session; the first dial of the loop is the session's.
Top ==
  /\ main.pc = "top"
  /\ Goto(IF done THEN "returned" ELSE "dial")
  /\ UNCHANGED <<conn, retrying, sock, Rest>>

\* login and dial: each ends within its timeout, with a connection ...
Dial ==
  /\ main.pc = "dial"
  /\ dialed < MaxDial
  /\ dialed' = dialed + 1
  /\ sock' = [sock EXCEPT ![dialed + 1] = "open"]
  /\ main' = [pc |-> "store", at |-> dialed + 1]
  /\ UNCHANGED <<conn, done, closer, retrying, first, reader, command>>

\* ... or without: a session ends, a reconnection attempt waits for the next one.
DialFails ==
  /\ main.pc = "dial"
  /\ Goto("sleep")
  /\ retrying' = TRUE
  /\ UNCHANGED <<conn, sock, Rest>>

\* The connection becomes c.conn.
StoreUnauthenticated ==   \* mutant: the attempt skips the token
  /\ main.pc = "store"
  /\ conn' = main.at
  /\ Goto(IF retrying THEN "snapshot" ELSE "authenticate")
  /\ UNCHANGED <<retrying, sock, Rest>>

StoreConn ==
  /\ main.pc = "store"
  /\ conn' = main.at
  /\ Goto("authenticate")
  /\ UNCHANGED <<retrying, sock, Rest>>

\* What follows an error: a session's deferred function, or the clean-up of the attempt.
OnError == IF retrying THEN "fail" ELSE "cleanup"

\* Run fetches c.conn and writes to it, unless Close has set it to nil.
StartWrite(from, to) ==
  /\ main.pc = from
  /\ main' = IF conn = NoConn THEN [main EXCEPT !.pc = OnError]
             ELSE [pc |-> to, at |-> conn]
  /\ UNCHANGED <<conn, retrying, sock, Rest>>

EndWrite(from, to, kind) ==
  /\ main.pc = from
  /\ \E ok \in BOOLEAN :
       /\ WriteEnds(main.at, kind, CommandWrites(main.at) # {}, ok)
       /\ Goto(IF ok THEN to ELSE OnError)
  /\ UNCHANGED <<conn, retrying, sock, closer, done, dialed, reader, command>>

StartAuth == StartWrite("authenticate", "authenticating")
EndAuth == EndWrite("authenticating", "answer", "auth")
StartSnapshot == StartWrite("snapshot", "snapshotting")

\* The snapshot ends the attempt of waitReconnect, and starts a session's message loop.
EndSnapshot ==
  /\ main.pc = "snapshotting"
  /\ \E ok \in BOOLEAN :
       /\ WriteEnds(main.at, "snapshot", CommandWrites(main.at) # {}, ok)
       /\ Goto(IF ~ok THEN OnError ELSE IF retrying THEN "drop" ELSE "loop")
       /\ reader' = IF ok /\ ~retrying
                    THEN [reader EXCEPT ![main.at] = [pc |-> "start", at |-> NoConn]]
                    ELSE reader
  /\ UNCHANGED <<conn, retrying, sock, closer, done, dialed, command>>

\* auth_result comes within fifteen seconds, if the server likes the first message it
\* has got; otherwise anything else ends the reading.
Answer ==
  /\ main.pc = "answer"
  /\ \/ first[main.at] = "auth" /\ Open(main.at) /\ Goto("snapshot")
     \/ Goto(OnError)
  /\ UNCHANGED <<conn, retrying, sock, Rest>>

\* messageLoop ends when done is closed or the reader has posted its error.  The first
\* heartbeat is due after thirty seconds: the reader has started by then (timing).
LeaveLoop ==
  /\ main.pc = "loop"
  /\ done \/ reader[main.at].pc = "posted"
  /\ Goto("cleanup")
  /\ UNCHANGED <<conn, retrying, sock, Rest>>

StartBeat ==
  /\ main.pc = "loop"
  /\ reader[main.at].pc # "start"
  /\ StartWrite("loop", "beating")
EndBeat == EndWrite("beating", "loop", "heartbeat")

\* The deferred function of runSession.
SessionKeepsConn == UNCHANGED <<conn, sock>>   \* mutant: no deferred close
SessionCloses == CloseConn

Cleanup ==
  /\ main.pc = "cleanup"
  /\ SessionCloses
  /\ Goto("sleep")
  /\ retrying' = TRUE
  /\ UNCHANGED Rest

\* waitReconnect: the timer, or done.
StopWaitingNever(d) == FALSE   \* mutant: the wait does not listen to done
StopWaiting(d) == d

Wake ==
  /\ main.pc = "sleep"
  /\ \/ StopWaiting(done) /\ Goto("top") /\ retrying' = FALSE
     \/ Goto("dial") /\ UNCHANGED retrying
  /\ UNCHANGED <<conn, sock, Rest>>

\* The attempt failed: close c.conn, which is nil if Close has been here.
Fail ==
  /\ main.pc = "fail"
  /\ IF conn = NoConn THEN Crash
     ELSE CloseConn /\ Goto("sleep") /\ UNCHANGED <<retrying, Rest>>

\* The attempt succeeded: close c.conn without the mutex, then set it to nil.
Drop ==
  /\ main.pc = "drop"
  /\ IF conn = NoConn THEN Crash
     ELSE sock' = Closing(conn) /\ Goto("forget") /\ UNCHANGED <<conn, retrying, Rest>>

Forget ==
  /\ main.pc = "forget"
  /\ conn' = NoConn
  /\ Goto("top")
  /\ retrying' = FALSE
  /\ UNCHANGED <<sock, Rest>>

MainPanics ==
  /\ main.pc \in MainWriting
  /\ CommandWrites(main.at) # {}
  /\ Crash

-----------------------------------------------------------------------------
(* readLoop, one goroutine per session                                      *)

ReaderTo(k, place, c) == reader' = [reader EXCEPT ![k] = [pc |-> place, at |-> c]]
ReaderOnly == UNCHANGED <<conn, done, closer, main, retrying, dialed, sock, first, command>>

\* It reads from the connection that is current when it starts.
StartReader(k) ==
  /\ reader[k].pc = "start"
  /\ ReaderTo(k, IF conn = NoConn \/ done THEN "post" ELSE "read", conn)
  /\ ReaderOnly

\* A command is handed to a goroutine of its own.  After any message done is looked at.
Receive(k, c) ==
  /\ reader[k].pc = "read"
  /\ Open(reader[k].at)
  /\ command[c].pc = "none"
  /\ command' = [command EXCEPT ![c] = [pc |-> "ack", at |-> NoConn]]
  /\ ReaderTo(k, IF done THEN "post" ELSE "read", reader[k].at)
  /\ UNCHANGED <<conn, done, closer, main, retrying, dialed, sock, first>>

SeeDone(k) ==
  /\ reader[k].pc = "read"
  /\ Open(reader[k].at)
  /\ done
  /\ ReaderTo(k, "post", reader[k].at)
  /\ ReaderOnly

ReadFails(k) ==
  /\ reader[k].pc = "read"
  /\ sock[reader[k].at] # "open"
  /\ ReaderTo(k, "post", reader[k].at)
  /\ ReaderOnly

\* errCh has room for the one error, whether or not the message loop still listens.
ListenerOnly(k) == main.pc = "loop" /\ main.at = k   \* mutant: an unbuffered channel
RoomForError(k) == TRUE

Post(k) ==
  /\ reader[k].pc = "post"
  /\ RoomForError(k)
  /\ ReaderTo(k, "posted", reader[k].at)
  /\ ReaderOnly

-----------------------------------------------------------------------------
(* handleCommand, one goroutine per command                                 *)

CommandTo(c, place) == command' = [command EXCEPT ![c].pc = place]
CommandOnly == UNCHANGED <<conn, done, closer, main, retrying, dialed, sock, reader>>

\* The acknowledgement and the report go to the connection of the moment, if any.
StartReply(c, from, to) ==
  /\ command[c].pc = from
  /\ command' = [command EXCEPT ![c] =
       IF conn = NoConn THEN [pc |-> "finished", at |-> NoConn] ELSE [pc |-> to, at |-> conn]]
  /\ CommandOnly
  /\ UNCHANGED first

EndReply(c, from, to) ==
  /\ command[c].pc = from
  /\ LET k == command[c].at
         busy == MainWrites(k) \/ CommandWrites(k) # {c}
     IN  \E ok \in BOOLEAN : /\ WriteEnds(k, "reply", busy, ok)
                             /\ CommandTo(c, IF ok THEN to ELSE "finished")
  /\ CommandOnly

StartAck(c) == StartReply(c, "ack", "acking")
EndAck(c) == EndReply(c, "acking", "place")
StartReport(c) == StartReply(c, "report", "reporting")
EndReport(c) == EndReply(c, "reporting", "finished")

\* PlaceOrder and GetBalances; their failures only change what is reported.
PlaceOrder(c) ==
  /\ command[c].pc = "place"
  /\ CommandTo(c, "report")
  /\ CommandOnly
  /\ UNCHANGED first

CommandPanics(c) ==
  /\ command[c].pc \in CommandWriting
  /\ MainWrites(command[c].at) \/ CommandWrites(command[c].at) # {c}
  /\ Crash

-----------------------------------------------------------------------------
(* Close, in two steps, and the server                                      *)

CloseDone ==
  /\ main.pc # "crashed"
  /\ closer = "idle"
  /\ closer' = "lock"
  /\ done' = TRUE
  /\ UNCHANGED <<conn, main, retrying, dialed, sock, first, reader, command>>

CloseLocked ==
  /\ main.pc # "crashed"
  /\ closer = "lock"
  /\ closer' = "over"
  /\ CloseConn
  /\ UNCHANGED <<done, main, retrying, dialed, first, reader, command>>

HangUp(k) ==
  /\ sock[k] = "open"
  /\ sock' = [sock EXCEPT ![k] = "gone"]
  /\ UNCHANGED <<conn, done, closer, main, retrying, dialed, first, reader, command>>

-----------------------------------------------------------------------------
Run ==
  \/ Top \/ Dial \/ DialFails \/ StoreConn \/ StartAuth \/ EndAuth \/ Answer
  \/ StartSnapshot \/ EndSnapshot \/ LeaveLoop \/ StartBeat \/ EndBeat
  \/ Cleanup \/ Wake \/ Fail \/ Drop \/ Forget

Reader(k) == StartReader(k) \/ ReadFails(k) \/ Post(k)
Handle(c) == StartAck(c) \/ EndAck(c) \/ PlaceOrder(c) \/ StartReport(c) \/ EndReport(c)

Next ==
  \/ Run \/ MainPanics \/ CloseDone \/ CloseLocked
  \/ \E k \in Conn : Reader(k) \/ SeeDone(k) \/ HangUp(k) \/ \E c \in Command : Receive(k, c)
  \/ \E c \in Command : Handle(c) \/ CommandPanics(c)

Spec == Init /\ [][Next]_vars

\* Goroutines main, timers fire, and every call has a timeout or ends with its socket.  A
\* select that finds done closed again and again takes it at some time.
Fairness ==
  /\ WF_vars(Run)
  /\ SF_vars(Wake /\ main'.pc = "top")
  /\ SF_vars(LeaveLoop)
  /\ WF_vars(CloseLocked)
  /\ \A k \in Conn : WF_vars(Reader(k))
  /\ \A c \in Command : WF_vars(Handle(c))

FairSpec == Spec /\ Fairness

-----------------------------------------------------------------------------
(* Properties                                                               *)

\* Every variable keeps its type.
TypeOK ==
  /\ conn \in Conn \cup {NoConn}
  /\ done \in BOOLEAN
  /\ closer \in {"idle", "lock", "over"}
  /\ main \in Thread(MainPlace)
  /\ retrying \in BOOLEAN
  /\ dialed \in 0 .. MaxDial
  /\ sock \in [Conn -> {"none", "open", "gone", "closed"}]
  /\ first \in [Conn -> {"none", "auth", "snapshot", "heartbeat", "reply"}]
  /\ reader \in [Conn -> ReaderThread]
  /\ command \in [Command -> CommandThread]

\* However sessions, reconnection attempts and Close interleave, the client loses no
\* socket: one that it has not closed is c.conn, or has just been dialed, and none is
\* left when Run has returned.  So it has at most one.
SocketsAccounted ==
  \A k \in Conn : Open(k) =>
    \/ main.pc = "store" /\ main.at = k
    \/ conn = k /\ main.pc \notin {"store", "returned", "crashed"}

\* Snapshots and heartbeats never reach a connection before the token.  The reply of a
\* command may, when the command belongs to an earlier session that did authenticate.
TokenComesFirst ==
  \A k \in Conn :
    \/ first[k] \in {"none", "auth"}
    \/ first[k] = "reply" /\ \E j \in 1 .. k - 1 : first[j] = "auth"

\* Close makes Run return, from whatever it is doing.
CloseEndsRun == done ~> main.pc \in {"returned", "crashed"}

\* The reader of a session ends with its connection, even when nobody listens to it.
ReadersEnd ==
  \A k \in Conn : reader[k].pc # "none" /\ sock[k] # "open" ~> reader[k].pc = "posted"

-----------------------------------------------------------------------------
(* Inductive invariant of the proofs                                        *)

\* c.conn is nil or the connection Run works on, the last one dialed.
WithConn == MainWriting \cup
  {"authenticate", "answer", "snapshot", "loop", "cleanup", "fail", "drop", "forget"}

ConnInv ==
  /\ conn \in {NoConn, main.at}
  /\ conn # NoConn => main.pc \in WithConn
  /\ main.pc \in WithConn \cup {"store"} => main.at = dialed /\ main.at \in Conn
  /\ main.pc = "forget" => ~Open(main.at)

\* Past the answer, a connection has got its token, and so has the connection of every
\* reader; a command comes from a connection no later than the one it writes to.
CameBy(c, j) ==
  /\ first[j] = "auth"
  /\ j <= dialed
  /\ command[c].pc \in CommandWriting => command[c].at \in Conn /\ j <= command[c].at

TokenInv ==
  /\ main.pc \in {"snapshot", "snapshotting", "loop", "beating"} => first[main.at] = "auth"
  /\ \A k \in Conn : reader[k].pc # "none" => first[k] = "auth" /\ k <= dialed
  /\ \A c \in Command : command[c].pc # "none" =>
       \E j \in Conn : CameBy(c, j)

AgentInv == ConnInv /\ SocketsAccounted /\ TokenInv /\ TokenComesFirst

=============================================================================
