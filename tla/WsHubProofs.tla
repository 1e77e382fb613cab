---------------------------- MODULE WsHubProofs ----------------------------
(***************************************************************************)
(* The registry of WsHub for every set of users, connections and senders:  *)
(* types, entries that never dangle, sockets that are never closed under a *)
(* command nor leaked.                                                     *)
(***************************************************************************)
EXTENDS WsHub, TLAPS

THEOREM HubTyping == Spec => []TypeOK
<1>1. Init => TypeOK
  BY DEF Init, TypeOK, Stage
<1>2. TypeOK /\ [Next]_vars => TypeOK'
  <2> SUFFICES ASSUME TypeOK, [Next]_vars PROVE TypeOK'
    OBVIOUS
  <2> USE DEF TypeOK, Stage, Serving
  <2>1. ASSUME NEW c \in Conn, Connect(c) \/ PeerLeaves(c)
        PROVE  TypeOK'
    BY <2>1 DEF Connect, PeerLeaves
  <2>2. ASSUME NEW c \in Conn,
               Refuse(c) \/ (\E u \in User : Register(c, u)) \/ EndReply(c) \/ ReplyPanics(c)
                 \/ ReadFails(c) \/ CloseAll(c)
        PROVE  TypeOK'
    BY <2>2 DEF Refuse, Register, EndReply, ReplyPanics, ReadFails, CloseAll
  <2>3. ASSUME NEW c \in Conn, Unregister(c)
        PROVE  TypeOK'
    BY <2>3 DEF Unregister, Removed
  <2>4. ASSUME NEW c \in Conn, StartAnswer(c) \/ StartAck(c)
        PROVE  TypeOK'
    BY <2>4 DEF StartAnswer, StartAck, StartReply
  <2>5. ASSUME NEW s \in Sender, EndSend(s) \/ SendPanics(s)
        PROVE  TypeOK'
    BY <2>5 DEF EndSend, SendPanics, Crash
  <2>6. ASSUME NEW s \in Sender, NEW u \in User, StartSend(s, u)
        PROVE  TypeOK'
    BY <2>6 DEF StartSend
  <2>7. CASE UNCHANGED vars
    BY <2>7 DEF vars
  <2>8. QED BY <2>1, <2>2, <2>3, <2>4, <2>5, <2>6, <2>7 DEF Next, Handle
<1>3. QED BY <1>1, <1>2, PTL DEF Spec

-----------------------------------------------------------------------------
\* Steps that leave the registry, the senders and the sockets alone, and do not move a
\* handler out of or into the registry.
Aside ==
  /\ UNCHANGED <<agents, user, sock, victim, sender>>
  /\ \A c \in Conn :
       \/ pc'[c] = pc[c]
       \/ pc[c] \in Serving /\ pc'[c] \in Serving \cup {"unregister"}

LEMMA AsideKeeps ==
  ASSUME TypeOK, HubInv, Aside
  PROVE  HubInv'
<1> USE NoConnAssumption DEF TypeOK, HubInv, Aside, Serving
<1>1. EntryHasHandler'
  BY DEF EntryHasHandler
<1>2. SenderHoldsEntry' /\ EntryNotClosed' /\ NoSocketLeak' /\ AuthOpen'
  BY DEF SenderHoldsEntry, EntryNotClosed, NoSocketLeak, AuthOpen
<1>3. ClosingIsOut'
  BY DEF ClosingIsOut
<1>4. QED BY <1>1, <1>2, <1>3

LEMMA HubStep ==
  ASSUME TypeOK, HubInv, [Next]_vars
  PROVE  HubInv'
<1> USE NoConnAssumption
<1>1. ASSUME NEW c \in Conn, Connect(c)
      PROVE  HubInv'
  BY <1>1 DEF Connect, TypeOK, HubInv, EntryHasHandler, SenderHoldsEntry, EntryNotClosed,
              ClosingIsOut, NoSocketLeak, Serving, AuthOpen
<1>2. ASSUME NEW c \in Conn, Refuse(c)
      PROVE  HubInv'
  BY <1>2 DEF Refuse, TypeOK, HubInv, EntryHasHandler, SenderHoldsEntry, EntryNotClosed,
              ClosingIsOut, NoSocketLeak, Serving, AuthOpen
<1>3. ASSUME NEW c \in Conn, NEW u \in User, Register(c, u)
      PROVE  HubInv'
  <2>1. /\ sender = [s \in Sender |-> NoConn] /\ sender' = sender
        /\ agents' = [agents EXCEPT ![u] = c] /\ user' = [user EXCEPT ![c] = {u}]
        /\ pc' = [pc EXCEPT ![c] = "registered"] /\ pc[c] = "auth"
        /\ sock' = sock /\ victim' = victim
    BY <1>3 DEF Register, LockFree, TypeOK
  <2>2. \A v \in User : agents[v] # c
    BY <2>1 DEF HubInv, EntryHasHandler, Serving
  <2>3. sock[c] # "closed"
    BY <2>1 DEF HubInv, AuthOpen
  <2>4. EntryHasHandler'
    BY <2>1, <2>2 DEF TypeOK, HubInv, EntryHasHandler, Serving
  <2>5. SenderHoldsEntry' /\ EntryNotClosed' /\ NoSocketLeak' /\ AuthOpen'
    BY <2>1, <2>3 DEF TypeOK, HubInv, SenderHoldsEntry, EntryNotClosed, NoSocketLeak, AuthOpen
  <2>6. ClosingIsOut'
    <3>1. SUFFICES ASSUME NEW d \in Conn, pc'[d] = "close", victim[d] # NoConn
                   PROVE  /\ \A v \in User : agents'[v] # victim[d]
                          /\ pc'[victim[d]] \notin {"new", "auth"}
      BY <2>1 DEF ClosingIsOut
    <3>2. pc[d] = "close" /\ victim[d] \in Conn
      BY <2>1, <3>1 DEF TypeOK
    <3>3. victim[d] # c /\ (\A v \in User : agents[v] # victim[d]) /\ pc[victim[d]] \notin {"new", "auth"}
      BY <2>1, <3>1, <3>2 DEF HubInv, ClosingIsOut
    <3>4. QED BY <2>1, <3>2, <3>3 DEF TypeOK
  <2>7. QED BY <2>4, <2>5, <2>6 DEF HubInv
<1>4. ASSUME NEW c \in Conn, StartAnswer(c) \/ StartAck(c) \/ EndReply(c) \/ ReplyPanics(c) \/ ReadFails(c)
      PROVE  HubInv'
  BY <1>4, AsideKeeps DEF StartAnswer, StartAck, StartReply, EndReply, ReplyPanics, ReadFails,
                          Aside, TypeOK, Serving
<1>5. ASSUME NEW c \in Conn, Unregister(c)
      PROVE  HubInv'
  <2>1. PICK u \in user[c] : victim' = [victim EXCEPT ![c] = agents[u]] /\ agents' = [agents EXCEPT ![u] = NoConn]
    BY <1>5 DEF Unregister, Removed
  <2>2. /\ sender' = sender /\ (\A s \in Sender : sender[s] = NoConn) /\ pc[c] = "unregister"
        /\ pc' = [pc EXCEPT ![c] = "close"] /\ user' = user /\ sock' = sock /\ u \in User
    BY <1>5 DEF Unregister, LockFree, TypeOK
  <2>3. \A v \in User : agents'[v] # NoConn => v # u /\ agents'[v] = agents[v]
    BY <2>1 DEF TypeOK
  <2>4. \A v \in User : agents'[v] # NoConn => agents[v] # c
    BY <2>2, <2>3 DEF HubInv, EntryHasHandler
  <2>5. EntryHasHandler'
    BY <2>2, <2>3, <2>4 DEF TypeOK, HubInv, EntryHasHandler
  <2>6. SenderHoldsEntry' /\ EntryNotClosed' /\ NoSocketLeak' /\ AuthOpen'
    BY <2>2, <2>3 DEF TypeOK, HubInv, SenderHoldsEntry, EntryNotClosed, NoSocketLeak, AuthOpen
  <2>7. ASSUME NEW d \in Conn, pc'[d] = "close", victim'[d] # NoConn
        PROVE  /\ \A v \in User : agents'[v] # victim'[d]
               /\ pc'[victim'[d]] \notin {"new", "auth"}
    <3>1. CASE d = c
      <4>1. victim'[d] = agents[u]
        BY <2>1, <3>1 DEF TypeOK
      <4>2. user[agents[u]] = {u} /\ pc[agents[u]] \in Serving \cup {"unregister"} /\ agents[u] \in Conn
        BY <2>2, <2>7, <4>1 DEF HubInv, EntryHasHandler, TypeOK
      <4>3. \A v \in User : agents'[v] # agents[u]
        <5>1. ASSUME NEW v \in User, agents'[v] = agents[u] PROVE FALSE
          <6>1. v # u /\ agents[v] = agents[u]
            BY <5>1, <2>3, <2>7, <4>1
          <6>2. user[agents[v]] = {v}
            BY <6>1, <2>7, <4>1 DEF HubInv, EntryHasHandler
          <6>3. QED BY <6>1, <6>2, <4>2
        <5>2. QED BY <5>1
      <4>4. QED BY <4>1, <4>2, <4>3, <2>2 DEF TypeOK, Serving
    <3>2. CASE d # c
      <4>1. pc[d] = "close" /\ victim'[d] = victim[d] /\ victim[d] \in Conn
        BY <2>1, <2>2, <2>7, <3>2 DEF TypeOK
      <4>2. (\A v \in User : agents[v] # victim[d]) /\ pc[victim[d]] \notin {"new", "auth"}
        BY <4>1, <2>7 DEF HubInv, ClosingIsOut
      <4>3. QED BY <4>1, <4>2, <2>2, <2>3, <2>7 DEF TypeOK
    <3>3. QED BY <3>1, <3>2
  <2>8. ClosingIsOut'
    BY <2>7 DEF ClosingIsOut
  <2>9. QED BY <2>5, <2>6, <2>8 DEF HubInv
<1>6. ASSUME NEW c \in Conn, CloseAll(c)
      PROVE  HubInv'
  <2>1. /\ pc[c] = "close" /\ pc' = [pc EXCEPT ![c] = "done"]
        /\ sock' = [d \in Conn |-> IF d \in {victim[c], c} THEN "closed" ELSE sock[d]]
        /\ UNCHANGED <<agents, user, victim, sender>>
    BY <1>6 DEF CloseAll, ClosedBy
  <2>2. \A v \in User : agents[v] # NoConn => agents[v] # c /\ agents[v] # victim[c]
    BY <2>1 DEF HubInv, EntryHasHandler, ClosingIsOut, Serving
  <2>3. EntryHasHandler'
    BY <2>1, <2>2 DEF TypeOK, HubInv, EntryHasHandler
  <2>4. SenderHoldsEntry' /\ EntryNotClosed'
    BY <2>1, <2>2 DEF TypeOK, HubInv, SenderHoldsEntry, EntryNotClosed
  <2>5. ClosingIsOut'
    BY <2>1 DEF TypeOK, HubInv, ClosingIsOut
  <2>6. NoSocketLeak'
    BY <2>1 DEF TypeOK, HubInv, NoSocketLeak
  <2>7. AuthOpen'
    BY <2>1 DEF TypeOK, HubInv, AuthOpen, ClosingIsOut
  <2>8. QED BY <2>3, <2>4, <2>5, <2>6, <2>7 DEF HubInv
<1>7. ASSUME NEW s \in Sender, EndSend(s) \/ SendPanics(s)
      PROVE  HubInv'
  <2>1. CASE EndSend(s)
    BY <1>7, <2>1 DEF EndSend, TypeOK, HubInv, EntryHasHandler, SenderHoldsEntry, EntryNotClosed, ClosingIsOut, NoSocketLeak, Serving, AuthOpen
  <2>2. CASE SendPanics(s)
    <3>1. /\ agents' = [u \in User |-> NoConn]
          /\ pc' = [d \in Conn |-> IF pc[d] = "new" THEN "new" ELSE "done"]
          /\ sock' = [d \in Conn |-> IF sock[d] = "none" THEN "none" ELSE "closed"]
          /\ sender' = [r \in Sender |-> NoConn]
      BY <2>2 DEF SendPanics, Crash
    <3>2. EntryHasHandler' /\ SenderHoldsEntry' /\ EntryNotClosed'
      BY <3>1 DEF EntryHasHandler, SenderHoldsEntry, EntryNotClosed
    <3>3. ClosingIsOut'
      BY <3>1 DEF ClosingIsOut
    <3>4. \A d \in Conn : pc[d] = "new" <=> sock[d] = "none"
      BY DEF HubInv, AuthOpen
    <3>5. NoSocketLeak' /\ AuthOpen'
      BY <3>1, <3>4 DEF NoSocketLeak, AuthOpen
    <3>6. QED BY <3>2, <3>3, <3>5 DEF HubInv
  <2>3. QED BY <1>7, <2>1, <2>2
<1>8. ASSUME NEW s \in Sender, NEW u \in User, StartSend(s, u)
      PROVE  HubInv'
  <2>1. UNCHANGED <<agents, pc, user, sock, victim>> /\ sender' = [sender EXCEPT ![s] = agents[u]]
    BY <1>8 DEF StartSend
  <2>2. QED BY <2>1 DEF TypeOK, HubInv, EntryHasHandler, SenderHoldsEntry, EntryNotClosed, ClosingIsOut, NoSocketLeak, Serving, AuthOpen
<1>9. ASSUME NEW c \in Conn, PeerLeaves(c)
      PROVE  HubInv'
  <2>1. UNCHANGED <<agents, pc, user, victim, sender>>
        /\ (sock' = sock \/ (sock[c] = "open" /\ sock' = [sock EXCEPT ![c] = "gone"]))
    BY <1>9 DEF PeerLeaves
  <2>2. EntryHasHandler' /\ SenderHoldsEntry' /\ ClosingIsOut'
    BY <2>1 DEF TypeOK, HubInv, EntryHasHandler, SenderHoldsEntry, ClosingIsOut
  <2>3. \A d \in Conn : (sock'[d] = "closed" <=> sock[d] = "closed") /\ (sock'[d] = "none" <=> sock[d] = "none")
    BY <2>1 DEF TypeOK
  <2>4. EntryNotClosed' /\ NoSocketLeak' /\ AuthOpen'
    BY <2>1, <2>3 DEF TypeOK, HubInv, EntryNotClosed, NoSocketLeak, AuthOpen
  <2>5. QED BY <2>2, <2>4 DEF HubInv
<1>10. CASE UNCHANGED vars
  BY <1>10, AsideKeeps DEF vars, Aside
<1>11. QED BY <1>1, <1>2, <1>3, <1>4, <1>5, <1>6, <1>7, <1>8, <1>9, <1>10 DEF Next, Handle

THEOREM Registry == Spec => []HubInv
<1>1. Init => HubInv
  BY NoConnAssumption DEF Init, HubInv, EntryHasHandler, SenderHoldsEntry, EntryNotClosed, ClosingIsOut,
                          NoSocketLeak, AuthOpen
<1>2. TypeOK /\ HubInv /\ [Next]_vars => HubInv'
  BY HubStep
<1>3. QED BY <1>1, <1>2, HubTyping, PTL DEF Spec

\* The registry never dangles.
THEOREM Entries == Spec => []EntryHasHandler
<1>1. HubInv => EntryHasHandler
  BY DEF HubInv
<1>2. QED BY <1>1, Registry, PTL

\* No connection is closed under a command being written to it.
THEOREM SparedSends == Spec => []CloseSparesSends
<1>1. TypeOK /\ HubInv => CloseSparesSends
  BY DEF HubInv, SenderHoldsEntry, EntryNotClosed, CloseSparesSends
<1>2. QED BY <1>1, HubTyping, Registry, PTL

\* A handler that has returned leaves no socket open.
THEOREM NoLeak == Spec => []NoSocketLeak
<1>1. HubInv => NoSocketLeak
  BY DEF HubInv
<1>2. QED BY <1>1, Registry, PTL
=============================================================================
