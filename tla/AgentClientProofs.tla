------------------------- MODULE AgentClientProofs -------------------------
(***************************************************************************)
(* Proofs about AgentClient, for any number of connections and commands:   *)
(* types, no lost socket, and what can come first on a connection.         *)
(***************************************************************************)
EXTENDS AgentClient, TLAPS

USE DialAssumption DEF Conn

\* A thread has its two fields, and going somewhere changes one of them.
LEMMA ThreadFacts ==
  ASSUME NEW P, NEW m \in Thread(P)
  PROVE  /\ m.pc \in P /\ m.at \in Conn \cup {NoConn}
         /\ \A p : [m EXCEPT !.pc = p].pc = p /\ [m EXCEPT !.pc = p].at = m.at
         /\ \A p \in P : [m EXCEPT !.pc = p] \in Thread(P)
         /\ \A p \in P, k \in Conn \cup {NoConn} : [pc |-> p, at |-> k] \in Thread(P)
BY DEF Thread

LEMMA GotoFacts ==
  ASSUME TypeOK, NEW p \in MainPlace, Goto(p)
  PROVE  main' \in Thread(MainPlace) /\ main'.pc = p /\ main'.at = main.at
<1>1. main \in Thread(MainPlace)
  BY DEF TypeOK
<1>2. QED BY <1>1, ThreadFacts DEF Goto

LEMMA MainFacts ==
  ASSUME TypeOK
  PROVE  main.pc \in MainPlace /\ main.at \in Conn \cup {NoConn}
<1>1. main \in Thread(MainPlace)
  BY DEF TypeOK
<1>2. QED BY <1>1, ThreadFacts

\* The panic leaves nothing open and nobody at work.
LEMMA CrashStep ==
  ASSUME TypeOK, AgentInv, Crash
  PROVE  TypeOK' /\ AgentInv'
<1>1. main' \in Thread(MainPlace) /\ main'.pc = "crashed" /\ main'.at = main.at
  <2>1. main \in Thread(MainPlace) /\ "crashed" \in MainPlace
    BY DEF TypeOK, MainPlace
  <2>2. QED BY <2>1, ThreadFacts DEF Crash
<1>2. reader' \in [Conn -> ReaderThread]
      /\ \A k \in Conn : reader'[k].pc # "none" => reader[k].pc # "none"
  <2>1. ASSUME NEW k \in Conn
        PROVE  /\ [reader[k] EXCEPT !.pc = IF @ = "none" THEN @ ELSE "posted"] \in ReaderThread
               /\ [reader[k] EXCEPT !.pc = IF @ = "none" THEN @ ELSE "posted"].pc # "none"
                    => reader[k].pc # "none"
    <3>1. reader[k] \in ReaderThread
      BY DEF TypeOK
    <3>2. QED BY <3>1 DEF ReaderThread, Thread
  <2>2. QED BY <2>1 DEF Crash
<1>3. command' \in [Command -> CommandThread]
      /\ \A c \in Command : /\ command'[c].pc # "none" => command[c].pc # "none"
                            /\ command'[c].pc \notin CommandWriting
  <2>1. ASSUME NEW c \in Command
        PROVE  /\ [command[c] EXCEPT !.pc = IF @ = "none" THEN @ ELSE "finished"] \in CommandThread
               /\ [command[c] EXCEPT !.pc = IF @ = "none" THEN @ ELSE "finished"].pc
                    \in {"none", "finished"}
               /\ [command[c] EXCEPT !.pc = IF @ = "none" THEN @ ELSE "finished"].pc # "none"
                    => command[c].pc # "none"
    <3>1. command[c] \in CommandThread
      BY DEF TypeOK
    <3>2. QED BY <3>1 DEF CommandThread, Thread
  <2>2. QED BY <2>1 DEF Crash, CommandWriting
<1>4. \A k \in Conn : sock'[k] \in {"none", "closed"}
  BY DEF Crash
<1>5. TypeOK'
  BY <1>1, <1>2, <1>3 DEF Crash, TypeOK
<1>6. ConnInv'
  BY <1>1 DEF Crash, ConnInv, WithConn, MainWriting
<1>7. SocketsAccounted'
  BY <1>4 DEF SocketsAccounted, Open
<1>8. TokenInv'
  BY <1>1, <1>2, <1>3 DEF Crash, TokenInv, AgentInv, CameBy
<1>9. TokenComesFirst'
  BY DEF Crash, TokenComesFirst, AgentInv
<1>10. QED BY <1>5, <1>6, <1>7, <1>8, <1>9 DEF AgentInv

-----------------------------------------------------------------------------
\* What a write does to the first messages.
LEMMA WriteFacts ==
  ASSUME TypeOK, NEW k \in Conn, NEW kind \in {"auth", "snapshot", "heartbeat", "reply"},
         NEW busy, NEW ok \in BOOLEAN, WriteEnds(k, kind, busy, ok)
  PROVE  /\ first' \in [Conn -> {"none", "auth", "snapshot", "heartbeat", "reply"}]
         /\ \A j \in Conn : first[j] # "none" => first'[j] = first[j]
         /\ \A j \in Conn : first'[j] # first[j] => j = k /\ first'[j] = kind /\ first[j] = "none"
BY DEF WriteEnds, TypeOK

\* Run's steps that send nothing and open nothing.
LEMMA QuietSteps ==
  ASSUME TypeOK, AgentInv,
         \/ Top \/ Dial \/ DialFails \/ StoreConn \/ Answer \/ LeaveLoop \/ Cleanup \/ Wake
         \/ Fail \/ Drop \/ Forget
  PROVE  TypeOK' /\ AgentInv'
<1> USE MainFacts, GotoFacts DEF Rest, AgentInv, Open, Closing
<1> USE DEF ConnInv, SocketsAccounted, TokenInv, TokenComesFirst, CameBy, WithConn, MainWriting, MainPlace
<1>1. CASE Top
  BY <1>1 DEF Top, TypeOK
<1>2. CASE Dial
  <2>1. main' = [pc |-> "store", at |-> dialed + 1] /\ dialed + 1 \in Conn
    BY <1>2 DEF Dial, TypeOK
  <2>2. main' \in Thread(MainPlace) /\ main'.pc = "store" /\ main'.at = dialed + 1
    BY <2>1 DEF Thread
  <2>3. TypeOK'
    BY <1>2, <2>1, <2>2 DEF Dial, TypeOK
  <2>4. conn = NoConn
    BY <1>2 DEF Dial
  <2>5. QED BY <1>2, <2>1, <2>2, <2>3, <2>4 DEF Dial, TypeOK
<1>3. CASE DialFails
  BY <1>3 DEF DialFails, TypeOK
<1>4. CASE StoreConn
  BY <1>4 DEF StoreConn, TypeOK
<1>5. CASE Answer
  BY <1>5 DEF Answer, TypeOK, OnError
<1>6. CASE LeaveLoop
  BY <1>6 DEF LeaveLoop, TypeOK
<1>7. CASE Cleanup
  BY <1>7 DEF Cleanup, TypeOK, SessionCloses, CloseConn
<1>8. CASE Wake
  <2>1. CASE Goto("top") /\ retrying' = FALSE
    <3>1. main'.pc = "top" /\ main'.at = main.at /\ main' \in Thread(MainPlace)
      BY <2>1
    <3>2. UNCHANGED <<conn, sock, Rest>> /\ main.pc = "sleep"
      BY <1>8 DEF Wake
    <3>3. TypeOK'
      BY <2>1, <3>1, <3>2 DEF TypeOK
    <3>4. QED BY <2>1, <3>1, <3>2, <3>3 DEF TypeOK
  <2>2. CASE Goto("dial") /\ UNCHANGED retrying
    BY <1>8, <2>2 DEF Wake, TypeOK
  <2>3. QED BY <1>8, <2>1, <2>2 DEF Wake
<1>9. CASE Fail
  <2>1. CASE conn = NoConn
    BY <1>9, <2>1, CrashStep DEF Fail
  <2>2. CASE conn # NoConn
    <3>1. main'.pc = "sleep" /\ main'.at = main.at /\ main' \in Thread(MainPlace)
      BY <1>9, <2>2 DEF Fail
    <3>2. sock' = [sock EXCEPT ![conn] = "closed"] /\ conn' = NoConn
      BY <1>9, <2>2 DEF Fail, CloseConn
    <3>3. TypeOK'
      BY <1>9, <2>2, <3>1, <3>2 DEF Fail, TypeOK
    <3>4. QED BY <1>9, <2>2, <3>1, <3>2, <3>3 DEF Fail, TypeOK
  <2>3. QED BY <2>1, <2>2
<1>10. CASE Drop
  <2>1. CASE conn = NoConn
    BY <1>10, <2>1, CrashStep DEF Drop
  <2>2. CASE conn # NoConn
    BY <1>10, <2>2 DEF Drop, TypeOK
  <2>3. QED BY <2>1, <2>2
<1>11. CASE Forget
  <2>1. main'.pc = "top" /\ main'.at = main.at /\ main' \in Thread(MainPlace)
    BY <1>11 DEF Forget
  <2>2. conn' = NoConn /\ retrying' = FALSE /\ UNCHANGED <<sock, Rest>>
    BY <1>11 DEF Forget
  <2>3. TypeOK'
    BY <2>1, <2>2 DEF TypeOK
  <2>4. SocketsAccounted'
    BY <1>11, <2>1, <2>2 DEF Forget
  <2>5. QED BY <2>1, <2>2, <2>3, <2>4 DEF TypeOK
<1>12. QED BY <1>1, <1>2, <1>3, <1>4, <1>5, <1>6, <1>7, <1>8, <1>9, <1>10, <1>11

\* The start of one of Run's writes.
LEMMA StartWriteStep ==
  ASSUME TypeOK, AgentInv, NEW from, NEW to \in MainWriting, StartWrite(from, to),
         \/ from = "authenticate" /\ to = "authenticating"
         \/ from = "snapshot" /\ to = "snapshotting"
         \/ from = "loop" /\ to = "beating"
  PROVE  TypeOK' /\ AgentInv'
<1> USE MainFacts DEF Rest, AgentInv, Open
<1> USE DEF ConnInv, SocketsAccounted, TokenInv, TokenComesFirst, CameBy, WithConn, MainWriting, MainPlace
<1>1. main \in Thread(MainPlace)
  BY DEF TypeOK
<1>2. /\ main' \in Thread(MainPlace) /\ main'.at = main.at
      /\ main'.pc = IF conn = NoConn THEN OnError ELSE to
  <2>1. CASE conn = NoConn
    BY <1>1, <2>1, ThreadFacts DEF StartWrite, OnError
  <2>2. CASE conn # NoConn
    BY <1>1, <2>2 DEF StartWrite, TypeOK, Thread
  <2>3. QED BY <2>1, <2>2
<1>3. UNCHANGED <<conn, retrying, sock, closer, done, dialed, first, reader, command>>
  BY DEF StartWrite
<1>4. TypeOK'
  BY <1>2, <1>3 DEF TypeOK
<1>5. ConnInv' /\ SocketsAccounted'
  BY <1>2, <1>3 DEF StartWrite, OnError
<1>6. TokenInv'
  BY <1>2, <1>3 DEF StartWrite, OnError
<1>7. TokenComesFirst'
  BY <1>3
<1>8. QED BY <1>4, <1>5, <1>6, <1>7

\* The end of one of Run's writes: it reaches a connection that has its token, unless it
\* is the token itself.
LEMMA EndWriteStep ==
  ASSUME TypeOK, AgentInv, NEW ok \in BOOLEAN,
         NEW kind \in {"auth", "snapshot", "heartbeat", "reply"}, NEW busy,
         \/ main.pc = "authenticating" /\ kind = "auth"
         \/ main.pc = "snapshotting" /\ kind = "snapshot"
         \/ main.pc = "beating" /\ kind = "heartbeat",
         WriteEnds(main.at, kind, busy, ok)
  PROVE  /\ first' \in [Conn -> {"none", "auth", "snapshot", "heartbeat", "reply"}]
         /\ \A j \in Conn : first[j] # "none" => first'[j] = first[j]
         /\ \A j \in Conn : first'[j] # first[j] => first'[j] = "auth"
<1>1. main.at \in Conn
  BY DEF AgentInv, ConnInv, WithConn, MainWriting
<1>2. main.pc # "authenticating" => first[main.at] = "auth"
  BY DEF AgentInv, TokenInv
<1>3. QED BY <1>1, <1>2, WriteFacts

LEMMA MainWriteSteps ==
  ASSUME TypeOK, AgentInv,
         StartAuth \/ EndAuth \/ StartSnapshot \/ EndSnapshot \/ StartBeat \/ EndBeat \/ MainPanics
  PROVE  TypeOK' /\ AgentInv'
<1> USE MainFacts, GotoFacts DEF AgentInv, Open
<1> USE DEF ConnInv, SocketsAccounted, TokenInv, TokenComesFirst, CameBy, WithConn, MainWriting, MainPlace
<1>1. CASE StartAuth \/ StartSnapshot \/ StartBeat
  BY <1>1, StartWriteStep DEF StartAuth, StartSnapshot, StartBeat
<1>2. ASSUME NEW from, NEW to, NEW kind, EndWrite(from, to, kind),
             \/ from = "authenticating" /\ to = "answer" /\ kind = "auth"
             \/ from = "beating" /\ to = "loop" /\ kind = "heartbeat"
      PROVE  TypeOK' /\ AgentInv'
  <2>1. PICK ok \in BOOLEAN : /\ WriteEnds(main.at, kind, CommandWrites(main.at) # {}, ok)
                              /\ Goto(IF ok THEN to ELSE OnError)
    BY <1>2 DEF EndWrite
  <2>2. UNCHANGED <<conn, retrying, sock, closer, done, dialed, reader, command>> /\ main.pc = from
    BY <1>2 DEF EndWrite
  <2>3. main' \in Thread(MainPlace) /\ main'.at = main.at /\ main'.pc \in {to, OnError}
    BY <1>2, <2>1 DEF OnError
  <2>4. /\ first' \in [Conn -> {"none", "auth", "snapshot", "heartbeat", "reply"}]
        /\ \A j \in Conn : first[j] # "none" => first'[j] = first[j]
        /\ \A j \in Conn : first'[j] # first[j] => first'[j] = "auth"
    BY <1>2, <2>1, <2>2, EndWriteStep
  <2>5. TypeOK'
    BY <2>2, <2>3, <2>4 DEF TypeOK
  <2>6. ConnInv' /\ SocketsAccounted'
    BY <1>2, <2>2, <2>3 DEF OnError
  <2>7. TokenInv'
    BY <1>2, <2>2, <2>3, <2>4 DEF OnError
  <2>8. TokenComesFirst'
    BY <2>4 DEF TypeOK
  <2>9. QED BY <2>5, <2>6, <2>7, <2>8
<1>3. CASE EndSnapshot
  <2>1. PICK ok \in BOOLEAN :
          /\ WriteEnds(main.at, "snapshot", CommandWrites(main.at) # {}, ok)
          /\ Goto(IF ~ok THEN OnError ELSE IF retrying THEN "drop" ELSE "loop")
          /\ reader' = IF ok /\ ~retrying
                       THEN [reader EXCEPT ![main.at] = [pc |-> "start", at |-> NoConn]]
                       ELSE reader
    BY <1>3 DEF EndSnapshot
  <2>2. UNCHANGED <<conn, retrying, sock, closer, done, dialed, command>> /\ main.pc = "snapshotting"
    BY <1>3 DEF EndSnapshot
  <2>3. main' \in Thread(MainPlace) /\ main'.at = main.at /\ main'.pc \in {OnError, "drop", "loop"}
    BY <2>1 DEF OnError
  <2>4. /\ first' \in [Conn -> {"none", "auth", "snapshot", "heartbeat", "reply"}]
        /\ \A j \in Conn : first[j] # "none" => first'[j] = first[j]
        /\ \A j \in Conn : first'[j] # first[j] => first'[j] = "auth"
    BY <2>1, <2>2, EndWriteStep
  <2>5. /\ reader' \in [Conn -> ReaderThread]
        /\ \A k \in Conn : reader'[k] = reader[k] \/ k = main.at
    <3>1. [pc |-> "start", at |-> NoConn] \in ReaderThread
      BY DEF ReaderThread, Thread
    <3>2. QED BY <2>1, <3>1 DEF TypeOK
  <2>6. TypeOK'
    BY <2>2, <2>3, <2>4, <2>5 DEF TypeOK
  <2>7. ConnInv' /\ SocketsAccounted'
    BY <2>2, <2>3 DEF OnError
  <2>8. first[main.at] = "auth" /\ main.at = dialed /\ main.at \in Conn
    BY <2>2
  <2>9. TokenInv'
    BY <2>2, <2>3, <2>4, <2>5, <2>8 DEF OnError
  <2>10. TokenComesFirst'
    BY <2>4 DEF TypeOK
  <2>11. QED BY <2>6, <2>7, <2>9, <2>10
<1>4. CASE MainPanics
  BY <1>4, CrashStep DEF MainPanics
<1>5. QED BY <1>1, <1>2, <1>3, <1>4 DEF EndAuth, EndBeat

-----------------------------------------------------------------------------
\* Readers, Close and the server.
LEMMA OtherSteps ==
  ASSUME TypeOK, AgentInv,
         \/ CloseDone \/ CloseLocked
         \/ \E k \in Conn : Reader(k) \/ SeeDone(k) \/ HangUp(k) \/ \E c \in Command : Receive(k, c)
  PROVE  TypeOK' /\ AgentInv'
<1> USE MainFacts DEF AgentInv, Open
<1> USE DEF ConnInv, SocketsAccounted, TokenInv, TokenComesFirst, CameBy, WithConn, MainWriting
<1>1. CASE CloseDone
  BY <1>1 DEF CloseDone, TypeOK
<1>2. CASE CloseLocked
  <2>1. conn' = NoConn /\ sock' = IF conn = NoConn THEN sock ELSE [sock EXCEPT ![conn] = "closed"]
    BY <1>2 DEF CloseLocked, CloseConn, Closing
  <2>2. UNCHANGED <<done, main, retrying, dialed, first, reader, command>> /\ closer' = "over"
    BY <1>2 DEF CloseLocked
  <2>3. TypeOK'
    BY <2>1, <2>2 DEF TypeOK
  <2>4. ConnInv' /\ SocketsAccounted'
    BY <2>1, <2>2 DEF TypeOK
  <2>5. QED BY <2>2, <2>3, <2>4
<1>3. ASSUME NEW k \in Conn, NEW place \in {"read", "post", "posted"}, NEW at \in Conn \cup {NoConn},
             reader[k].pc # "none", ReaderTo(k, place, at)
      PROVE  /\ reader' \in [Conn -> ReaderThread]
             /\ \A j \in Conn : reader'[j].pc # "none" => reader[j].pc # "none"
  <2>1. [pc |-> place, at |-> at] \in ReaderThread
    BY DEF ReaderThread, Thread
  <2>2. QED BY <1>3, <2>1 DEF ReaderTo, TypeOK
<1>4. ASSUME NEW k \in Conn, Reader(k) \/ SeeDone(k)
      PROVE  TypeOK' /\ AgentInv'
  <2>1. reader[k].at \in Conn \cup {NoConn} /\ conn \in Conn \cup {NoConn}
    <3>1. reader[k] \in ReaderThread
      BY DEF TypeOK
    <3>2. QED BY <3>1, ThreadFacts DEF ReaderThread, TypeOK
  <2>2. /\ reader' \in [Conn -> ReaderThread]
        /\ \A j \in Conn : reader'[j].pc # "none" => reader[j].pc # "none"
    BY <1>3, <1>4, <2>1 DEF Reader, SeeDone, StartReader, ReadFails, Post
  <2>3. UNCHANGED <<conn, done, closer, main, retrying, dialed, sock, first, command>>
    BY <1>4 DEF Reader, SeeDone, StartReader, ReadFails, Post, ReaderOnly
  <2>4. TypeOK'
    BY <2>2, <2>3 DEF TypeOK
  <2>5. QED BY <2>2, <2>3, <2>4
<1>5. ASSUME NEW k \in Conn, NEW c \in Command, Receive(k, c)
      PROVE  TypeOK' /\ AgentInv'
  <2>1. reader[k].at \in Conn \cup {NoConn} /\ reader[k].pc = "read"
    <3>1. reader[k] \in ReaderThread
      BY DEF TypeOK
    <3>2. QED BY <1>5, <3>1, ThreadFacts DEF ReaderThread, Receive
  <2>2. /\ reader' \in [Conn -> ReaderThread]
        /\ \A j \in Conn : reader'[j].pc # "none" => reader[j].pc # "none"
    BY <1>3, <1>5, <2>1 DEF Receive
  <2>3. UNCHANGED <<conn, done, closer, main, retrying, dialed, sock, first>>
    BY <1>5 DEF Receive
  <2>4. command' = [command EXCEPT ![c] = [pc |-> "ack", at |-> NoConn]]
    BY <1>5 DEF Receive
  <2>5. [pc |-> "ack", at |-> NoConn] \in CommandThread
    BY DEF CommandThread, Thread
  <2>6. TypeOK'
    BY <2>2, <2>3, <2>4, <2>5 DEF TypeOK
  <2>7. first[k] = "auth" /\ k <= dialed
    BY <2>1
  <2>8. TokenInv'
    BY <2>2, <2>3, <2>4, <2>7 DEF TypeOK, CommandWriting, CameBy
  <2>9. QED BY <2>3, <2>6, <2>8
<1>6. ASSUME NEW k \in Conn, HangUp(k)
      PROVE  TypeOK' /\ AgentInv'
  BY <1>6 DEF HangUp, TypeOK
<1>7. QED BY <1>1, <1>2, <1>4, <1>5, <1>6

-----------------------------------------------------------------------------
\* The connection a command is about to write to.
LEMMA CommandFacts ==
  ASSUME TypeOK, NEW c \in Command
  PROVE  command[c] \in CommandThread /\ command[c].at \in Conn \cup {NoConn}
<1>1. command[c] \in CommandThread
  BY DEF TypeOK
<1>2. QED BY <1>1, ThreadFacts DEF CommandThread

\* The acknowledgement and the report go to the latest connection.
LEMMA StartReplyStep ==
  ASSUME TypeOK, AgentInv, NEW c \in Command, NEW from, NEW to, StartReply(c, from, to),
         \/ from = "ack" /\ to = "acking"
         \/ from = "report" /\ to = "reporting"
  PROVE  TypeOK' /\ AgentInv'
<1> USE MainFacts, CommandFacts DEF AgentInv, Open, CommandOnly, CommandWriting, WithConn, MainWriting
<1> USE DEF ConnInv, SocketsAccounted, TokenInv, TokenComesFirst, CameBy
<1>1. UNCHANGED <<conn, done, closer, main, retrying, dialed, sock, reader, first>>
  BY DEF StartReply
<1>2. PICK t \in CommandThread :
        /\ command' = [command EXCEPT ![c] = t]
        /\ t.pc \in CommandWriting => t.at = conn /\ conn # NoConn
  <2>1. IF conn = NoConn THEN [pc |-> "finished", at |-> NoConn] \in CommandThread
                         ELSE [pc |-> to, at |-> conn] \in CommandThread
    BY DEF CommandThread, Thread, TypeOK
  <2>2. QED BY <2>1 DEF StartReply
<1>3. TypeOK'
  BY <1>1, <1>2 DEF TypeOK
<1>4. conn # NoConn => conn = dialed
  BY DEF WithConn
<1>5. TokenInv'
  BY <1>1, <1>2, <1>4 DEF TypeOK, StartReply
<1>6. QED BY <1>1, <1>3, <1>5

\* A reply comes first only on a connection later than the one of its command.
LEMMA EndReplyStep ==
  ASSUME TypeOK, AgentInv, NEW c \in Command, NEW from, NEW to, EndReply(c, from, to),
         \/ from = "acking" /\ to = "place"
         \/ from = "reporting" /\ to = "finished"
  PROVE  TypeOK' /\ AgentInv'
<1> USE MainFacts, CommandFacts DEF AgentInv, Open, CommandOnly, CommandWriting, WithConn, MainWriting
<1> USE DEF ConnInv, SocketsAccounted, TokenInv, TokenComesFirst
<1> DEFINE k == command[c].at
<1>1. UNCHANGED <<conn, done, closer, main, retrying, dialed, sock, reader>>
  BY DEF EndReply
<1>2. PICK busy \in BOOLEAN, ok \in BOOLEAN :
        WriteEnds(k, "reply", busy, ok) /\ CommandTo(c, IF ok THEN to ELSE "finished")
  BY DEF EndReply
<1>3. /\ command' = [command EXCEPT ![c].pc = IF ok THEN to ELSE "finished"]
      /\ command' \in [Command -> CommandThread]
      /\ command'[c].pc \notin CommandWriting
  <2>1. (IF ok THEN to ELSE "finished") \in {"place", "finished"}
    OBVIOUS
  <2>2. command' = [command EXCEPT ![c].pc = IF ok THEN to ELSE "finished"]
    BY <1>2 DEF CommandTo
  <2>3. [command[c] EXCEPT !.pc = IF ok THEN to ELSE "finished"] \in CommandThread
    BY <2>1, ThreadFacts DEF CommandThread
  <2>4. [command[c] EXCEPT !.pc = IF ok THEN to ELSE "finished"].pc \in {"place", "finished"}
    BY <2>1, ThreadFacts DEF CommandThread
  <2>5. QED BY <2>2, <2>3, <2>4 DEF TypeOK
<1>4. PICK j \in Conn : first[j] = "auth" /\ j <= dialed /\ j <= k
  BY DEF EndReply, CameBy
<1>5. k \in Conn
  BY DEF EndReply, CameBy
<1>6. /\ first' \in [Conn -> {"none", "auth", "snapshot", "heartbeat", "reply"}]
      /\ \A i \in Conn : first[i] # "none" => first'[i] = first[i]
      /\ \A i \in Conn : first'[i] # first[i] => i = k /\ first'[i] = "reply" /\ first[i] = "none"
  BY <1>2, <1>5, WriteFacts
<1>7. TypeOK'
  BY <1>1, <1>3, <1>6 DEF TypeOK
<1>8. ConnInv' /\ SocketsAccounted'
  BY <1>1
<1>9. TokenInv'
  <2>1. \A d \in Command : /\ command'[d].pc # "none" => command[d].pc # "none"
                           /\ command'[d].pc \in CommandWriting => command'[d] = command[d]
    BY <1>3 DEF TypeOK, EndReply
  <2>2. \A i \in Conn : first[i] = "auth" => first'[i] = "auth"
    BY <1>6
  <2>3. ASSUME NEW d \in Command, command'[d].pc # "none"
        PROVE  \E i \in Conn : CameBy(d, i)'
    <3>1. command[d].pc # "none"
      BY ONLY <2>1, <2>3, d \in Command
    <3>2. \E i \in Conn : CameBy(d, i)
      BY ONLY <3>1, <2>3, TokenInv DEF TokenInv
    <3>3. PICK i \in Conn : CameBy(d, i)
      BY <3>2
    <3>4. first'[i] = "auth" /\ i <= dialed'
      BY <1>1, <2>2, <3>3 DEF CameBy
    <3>5. command'[d].pc \in CommandWriting => command'[d].at \in Conn /\ i <= command'[d].at
      BY ONLY <2>1, <3>3, d \in Command DEF CameBy
    <3>6. QED BY <3>4, <3>5 DEF CameBy
  <2>4. \A i \in Conn : reader[i].pc # "none" => first'[i] = "auth" /\ i <= dialed
    BY <2>2
  <2>5. main.pc \in {"snapshot", "snapshotting", "loop", "beating"} => first'[main.at] = "auth"
    BY <2>2
  <2>6. QED BY <1>1, <2>3, <2>4, <2>5
<1>10. TokenComesFirst'
  BY <1>4, <1>5, <1>6
<1>11. QED BY <1>7, <1>8, <1>9, <1>10

LEMMA PlaceOrderStep ==
  ASSUME TypeOK, AgentInv, NEW c \in Command, PlaceOrder(c)
  PROVE  TypeOK' /\ AgentInv'
<1> USE MainFacts, CommandFacts DEF AgentInv, Open, CommandOnly, CommandWriting, WithConn, MainWriting
<1> USE DEF ConnInv, SocketsAccounted, TokenInv, TokenComesFirst, CameBy
<1>1. command' = [command EXCEPT ![c].pc = "report"]
  BY DEF PlaceOrder, CommandTo
<1>2. [command[c] EXCEPT !.pc = "report"] \in CommandThread /\ [command[c] EXCEPT !.pc = "report"].pc = "report"
  BY ThreadFacts DEF CommandThread
<1>3. UNCHANGED <<conn, done, closer, main, retrying, dialed, sock, reader, first>>
  BY DEF PlaceOrder
<1>4. TypeOK'
  BY <1>1, <1>2, <1>3 DEF TypeOK
<1>5. TokenInv'
  BY <1>1, <1>2, <1>3 DEF TypeOK, PlaceOrder
<1>6. QED BY <1>3, <1>4, <1>5

LEMMA CommandSteps ==
  ASSUME TypeOK, AgentInv, NEW c \in Command, Handle(c) \/ CommandPanics(c)
  PROVE  TypeOK' /\ AgentInv'
<1>1. CASE StartAck(c) \/ StartReport(c)
  BY <1>1, StartReplyStep DEF StartAck, StartReport
<1>2. CASE EndAck(c) \/ EndReport(c)
  BY <1>2, EndReplyStep DEF EndAck, EndReport
<1>3. CASE PlaceOrder(c)
  BY <1>3, PlaceOrderStep
<1>4. CASE CommandPanics(c)
  BY <1>4, CrashStep DEF CommandPanics
<1>5. QED BY <1>1, <1>2, <1>3, <1>4 DEF Handle

-----------------------------------------------------------------------------
\* Type correctness and the invariant behind the rest.
THEOREM AgentInvariant == Spec => [](TypeOK /\ AgentInv)
<1>1. Init => TypeOK /\ AgentInv
  <2> SUFFICES ASSUME Init PROVE TypeOK /\ AgentInv
    OBVIOUS
  <2>1. /\ [pc |-> "top", at |-> NoConn] \in Thread(MainPlace)
        /\ [pc |-> "none", at |-> NoConn] \in ReaderThread
        /\ [pc |-> "none", at |-> NoConn] \in CommandThread
    BY DEF Thread, ReaderThread, CommandThread, MainPlace
  <2>2. TypeOK
    <3>1. dialed \in 0 .. MaxDial /\ main \in Thread(MainPlace)
      BY <2>1 DEF Init
    <3>2. reader \in [Conn -> ReaderThread] /\ command \in [Command -> CommandThread]
      BY <2>1 DEF Init
    <3>3. QED BY <3>1, <3>2 DEF Init, TypeOK
  <2>3. AgentInv
    BY DEF Init, AgentInv, ConnInv, SocketsAccounted, TokenInv, TokenComesFirst, Open, WithConn,
           MainWriting
  <2>4. QED BY <2>2, <2>3
<1>2. TypeOK /\ AgentInv /\ [Next]_vars => TypeOK' /\ AgentInv'
  <2> SUFFICES ASSUME TypeOK, AgentInv, [Next]_vars PROVE TypeOK' /\ AgentInv'
    OBVIOUS
  <2>1. CASE Run \/ MainPanics
    BY <2>1, QuietSteps, MainWriteSteps DEF Run
  <2>2. CASE CloseDone \/ CloseLocked
    BY <2>2, OtherSteps
  <2>3. CASE \E k \in Conn : \/ Reader(k) \/ SeeDone(k) \/ HangUp(k)
                            \/ \E c \in Command : Receive(k, c)
    BY <2>3, OtherSteps
  <2>4. CASE \E c \in Command : Handle(c) \/ CommandPanics(c)
    BY <2>4, CommandSteps
  <2>5. CASE UNCHANGED vars
    BY <2>5 DEF vars, TypeOK, AgentInv, ConnInv, SocketsAccounted, TokenInv, TokenComesFirst, CameBy,
               Open
  <2>6. QED BY <2>1, <2>2, <2>3, <2>4, <2>5 DEF Next
<1>3. QED BY <1>1, <1>2, PTL DEF Spec

\* Every variable keeps its type.
THEOREM AgentTyping == Spec => []TypeOK
<1>1. QED BY AgentInvariant, PTL

\* The client loses no socket: sessions, reconnection attempts and Close together close
\* whatever was dialed, but for the one connection in use.
THEOREM NoLostSocket == Spec => []SocketsAccounted
<1>1. AgentInv => SocketsAccounted
  BY DEF AgentInv
<1>2. QED BY <1>1, AgentInvariant, PTL

\* Only the reply to a command of an earlier session can reach a connection before its
\* token does.
THEOREM TokenFirst == Spec => []TokenComesFirst
<1>1. AgentInv => TokenComesFirst
  BY DEF AgentInv
<1>2. QED BY <1>1, AgentInvariant, PTL
=============================================================================
