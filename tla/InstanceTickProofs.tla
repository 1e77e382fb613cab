------------------------- MODULE InstanceTickProofs -------------------------
(***************************************************************************)
(* Proofs about InstanceTick, for every set of instances, every number of  *)
(* overlapping goroutines and every bound.  First what holds whatever      *)
(* happens: the types, the refinement of CommandOutbox, the end of a       *)
(* deleted instance.  Then what the deduplication, the portfolio row and   *)
(* the runtime row of an instance guarantee as long as its ticks are not   *)
(* disturbed: OncePerBar, LedgerAgrees, TimerBacked and BarMovesForward.   *)
(***************************************************************************)
EXTENDS InstanceTick, TLAPS

\* Resuming a goroutine with a tick-shaped record keeps the goroutines well typed.
LEMMA ResumeType ==
  ASSUME NEW i \in Instance, NEW k \in Slot, NEW t \in Tick,
         tick \in [Instance -> [Slot -> Tick]], Resume(i, k, t)
  PROVE  tick' \in [Instance -> [Slot -> Tick]]
BY DEF Resume

\* The current engine of a tick is an engine and its order id an order id.
LEMMA CurrentType ==
  ASSUME NEW i \in Instance, NEW t \in Tick
  PROVE  Current(t) \in Engine /\ IdOf(i, Current(t), t) \in OrderId
BY DEF Current, Engine, IdOf, OrderId, Tick

\* The records a tick continues with are tick-shaped.
LEMMA AfterType ==
  ASSUME NEW t \in Tick
  PROVE  AfterOrder(t) \in Tick /\ AfterTrade(t) \in Tick
BY DEF AfterOrder, AfterTrade, Tick, Working, Issuing

LEMMA IdleType == Idle \in Tick
BY ConstAssumption DEF Idle, Tick, NoRuntime, Runtime, Bar, Clock

\* A step of a goroutine preserves the types.
LEMMA TickStepType ==
  ASSUME TypeOK, NEW i \in Instance, NEW k \in Slot, TickStep(i, k)
  PROVE  TypeOK'
<1> DEFINE t == tick[i][k]
<1>0. t \in Tick /\ ConstAssumption
  BY ConstAssumption DEF TypeOK
<1> USE <1>0, ResumeType, IdleType DEF lifeVars, envVars, rows
<1>f. StatementRuns \/ StatementFails \/ UNCHANGED faults => faults' \in 0 .. MaxFault
  BY DEF StatementRuns, StatementFails, TypeOK, ConstAssumption
<1>d. Disturb(i) \/ UNCHANGED disturbed => disturbed' \in SUBSET Instance
  BY DEF Disturb, TypeOK
<1>1. CASE AbortTick(i, k)
  BY <1>1, <1>f DEF AbortTick, TypeOK
<1>2. CASE LoadBar(i, k)
  <2>1. [t EXCEPT !.pc = "loadPortfolio", !.bar = newest] \in Tick
    BY DEF TypeOK, Tick, Loading
  <2>2. QED BY <1>2, <1>f, <2>1 DEF LoadBar, TypeOK
<1>3. CASE SkipBar(i, k)
  BY <1>3, <1>f DEF SkipBar, TypeOK
<1>4. CASE LoadPortfolio(i, k)
  <2>1. [t EXCEPT !.pc = "step", !.book = portfolio[i].book] \in Tick
    BY DEF TypeOK, Tick, Working, Portfolio
  <2>2. QED BY <1>4, <1>f, <1>d, <2>1 DEF LoadPortfolio, TypeOK
<1>5. CASE RunStep(i, k)
  <2>1. PICK intents \in SUBSET Engine :
          Resume(i, k, [t EXCEPT
            !.pc = "persist", !.hadRt = runtime[i].exists, !.intents = intents, !.left = intents,
            !.rt = [exists |-> TRUE, macroBar |-> MacroTimer(i, intents, t.bar)]])
    BY <1>5 DEF RunStep
  <2>2. MacroTimer(i, intents, t.bar) \in Bar
    BY DEF MacroTimer, TypeOK, Tick, Runtime
  <2>3. [t EXCEPT
            !.pc = "persist", !.hadRt = runtime[i].exists, !.intents = intents, !.left = intents,
            !.rt = [exists |-> TRUE, macroBar |-> MacroTimer(i, intents, t.bar)]] \in Tick
    BY <2>2 DEF TypeOK, Tick, Working, Runtime
  <2>4. QED BY <1>5, <1>f, <2>1, <2>3 DEF RunStep, TypeOK
<1>6. CASE RunStepFails(i, k)
  BY <1>6, <1>f DEF RunStepFails, TypeOK
<1>7. CASE PersistRuntime(i, k)
  <2>1. [t EXCEPT !.pc = IF t.left = {} THEN "commit" ELSE "order", !.ts = clock] \in Tick
    BY DEF TypeOK, Tick, Working, Issuing
  <2>2. runtime' \in [Instance -> Runtime]
    BY <1>7 DEF PersistRuntime, TypeOK, Tick
  <2>3. faults' \in 0 .. MaxFault /\ disturbed' \in SUBSET Instance
    BY <1>7, <1>f, <1>d DEF PersistRuntime
  <2>4. QED BY <1>7, <2>1, <2>2, <2>3 DEF PersistRuntime, TypeOK
<1>8. CASE WriteOrder(i, k)
  <2>1. [t EXCEPT !.pc = "send"] \in Tick
    BY DEF Tick, Working, Issuing
  <2>2. [id |-> IdOf(i, Current(t), t), bar |-> t.bar] \in Order
    BY CurrentType DEF Order, Tick
  <2>3. orders' \in SUBSET Order
    BY <1>8, <2>2 DEF WriteOrder, TypeOK
  <2>4. QED BY <1>8, <1>f, <2>1, <2>3 DEF WriteOrder, TypeOK
<1>9. CASE RejectOrder(i, k)
  <2>1. faults' \in 0 .. MaxFault /\ disturbed' \in SUBSET Instance
    BY <1>9, <1>f, <1>d DEF RejectOrder
  <2>2. QED BY <1>9, <2>1, AfterType DEF RejectOrder, AfterRejectedOrder, TypeOK
<1>10. CASE SendCommand(i, k)
  <2>1. sends' \in [OrderId -> Nat]
    BY <1>10, CurrentType DEF SendCommand, TypeOK
  <2>2. QED BY <1>10, <2>1, AfterType DEF SendCommand, TypeOK
<1>11. CASE BookTrade(i, k)
  <2>1. IdOf(i, Current(t), t) \in OrderId
    BY CurrentType
  <2>2. [t EXCEPT !.book = @ \cup {IdOf(i, Current(t), t)}] \in Tick
    BY <2>1 DEF Tick
  <2>3. trades' \in SUBSET OrderId
    BY <1>11, <2>1 DEF BookTrade, TypeOK
  <2>4. faults' \in 0 .. MaxFault /\ disturbed' \in SUBSET Instance
    BY <1>11, <1>f, <1>d DEF BookTrade
  <2>5. QED BY <1>11, <2>2, <2>3, <2>4, AfterType DEF BookTrade, TypeOK
<1>12. CASE SkipTrade(i, k)
  BY <1>12, AfterType DEF SkipTrade, TypeOK
<1>13. CASE CommitTick(i, k)
  <2>0. CommitRow(i, t) \in Portfolio
    BY DEF CommitRow, Portfolio, Tick
  <2>1. portfolio' \in [Instance -> Portfolio]
    BY <1>13, <2>0 DEF CommitTick, TypeOK
  <2>2. faults' \in 0 .. MaxFault /\ disturbed' \in SUBSET Instance
    BY <1>13, <1>f, <1>d DEF CommitTick
  <2>3. QED BY <1>13, <2>1, <2>2 DEF CommitTick, TypeOK
<1>14. QED
  BY <1>1, <1>2, <1>3, <1>4, <1>5, <1>6, <1>7, <1>8, <1>9, <1>10, <1>11, <1>12, <1>13
  DEF TickStep

\* Lifecycle requests, start-up, shutdown and the environment preserve the types.
LEMMA OtherStepType ==
  ASSUME TypeOK,
         (\E i \in Instance : LifecycleStep(i)) \/ ServerStep \/ EnvStep
  PROVE  TypeOK'
<1> USE ConstAssumption DEF lifeVars, envVars, rows, ConstAssumption
<1>1. ASSUME NEW i \in Instance, LifecycleStep(i) PROVE TypeOK'
  <2>1. CASE CreateInstance(i)
    BY <2>1 DEF CreateInstance, TypeOK
  <2>2. CASE CreatePortfolio(i)
    <3>0. [portfolio[i] EXCEPT !.exists = TRUE] \in Portfolio
      BY DEF TypeOK, Portfolio
    <3>1. [portfolio EXCEPT ![i].exists = TRUE] \in [Instance -> Portfolio]
      BY <3>0 DEF TypeOK
    <3>2. portfolio' \in [Instance -> Portfolio]
      BY <2>2, <3>1 DEF CreatePortfolio, TypeOK
    <3>3. faults' \in 0 .. MaxFault
      BY <2>2 DEF CreatePortfolio, TypeOK
    <3>4. QED BY <2>2, <3>2, <3>3 DEF CreatePortfolio, TypeOK
  <2>3. ASSUME NEW to \in {"STOPPED", "RUNNING", "DELETED"}, SetStatus(i, to) PROVE TypeOK'
    BY <2>3 DEF SetStatus, TypeOK
  <2>4. QED
    BY <1>1, <2>1, <2>2, <2>3 DEF LifecycleStep, StartInstance, StopInstance, DeleteInstance
<1>2. CASE ServerStep
  <2>1. CASE Shutdown
    BY <2>1 DEF Shutdown, TypeOK
  <2>2. CASE Exit
    BY <2>2, IdleType DEF Exit, TypeOK
  <2>3. CASE Restart
    <3>1. PICK missed \in SUBSET {i \in Instance : status[i] = "RUNNING"} :
            /\ status' = Recovered(missed)
            /\ \/ missed = {} /\ UNCHANGED faults
               \/ missed # {} /\ faults < MaxFault /\ faults' = faults + 1
      BY <2>3 DEF Restart
    <3>2. status' \in [Instance -> {"NONE", "STOPPED", "RUNNING", "DELETED"}]
      BY <3>1 DEF Recovered, TypeOK
    <3>3. faults' \in 0 .. MaxFault
      BY <3>1 DEF TypeOK
    <3>4. restarts' \in 0 .. MaxRestart
      BY <2>3 DEF Restart, TypeOK
    <3>5. QED BY <2>3, <3>2, <3>3, <3>4 DEF Restart, TypeOK
  <2>4. CASE Scan
    <3>1. [Idle EXCEPT !.pc = "loadBar"] \in Tick
      BY IdleType DEF Tick, Loading
    <3>2. tick' \in [Instance -> [Slot -> Tick]]
      BY <2>4, <3>1 DEF Scan, TypeOK
    <3>3. QED BY <2>4, <3>2 DEF Scan, TypeOK
  <2>5. QED BY <1>2, <2>1, <2>2, <2>3, <2>4 DEF ServerStep
<1>3. CASE EnvStep
  <2>1. CASE NewBar
    BY <2>1 DEF NewBar, TypeOK, Bar
  <2>2. CASE TimePasses
    BY <2>2 DEF TimePasses, TypeOK, Clock
  <2>3. CASE AgentConnects
    BY <2>3 DEF AgentConnects, TypeOK
  <2>4. CASE AgentLeaves
    <3>1. online' \in BOOLEAN
      BY <2>4 DEF AgentLeaves
    <3>2. events' \in 0 .. MaxEvent
      BY <2>4 DEF AgentLeaves, TypeOK
    <3>3. QED BY <2>4, <3>1, <3>2 DEF AgentLeaves, TypeOK
  <2>5. QED BY <1>3, <2>1, <2>2, <2>3, <2>4 DEF EnvStep
<1>4. QED BY <1>1, <1>2, <1>3

LEMMA TypeInit == Init => TypeOK
<1> SUFFICES ASSUME Init PROVE TypeOK
  OBVIOUS
<1>1. 0 \in Bar /\ 0 \in Clock
  BY ConstAssumption DEF ConstAssumption, Bar, Clock
<1>2. portfolio \in [Instance -> Portfolio] /\ runtime \in [Instance -> Runtime]
  BY <1>1 DEF Init, Portfolio, Runtime, NoRuntime
<1>3. tick \in [Instance -> [Slot -> Tick]]
  BY IdleType DEF Init
<1>4. online \in BOOLEAN
  BY DEF Init
<1>5. QED
  BY <1>1, <1>2, <1>3, <1>4, ConstAssumption DEF Init, TypeOK, ConstAssumption


\* In every reachable state every variable has its type.
THEOREM Typing == Spec => []TypeOK
<1>1. Init => TypeOK
  BY TypeInit
<1>2. TypeOK /\ [Next]_vars => TypeOK'
  <2>1. TypeOK /\ UNCHANGED vars => TypeOK'
    BY DEF TypeOK, vars
  <2>2. QED BY <2>1, TickStepType, OtherStepType DEF Next
<1>3. QED BY <1>1, <1>2, PTL DEF Spec

-----------------------------------------------------------------------------
(* The outbox                                                               *)

\* A step that touches no command: same rows, same deliveries, and no tick has just
\* reached the point of sending.
Quiet ==
  /\ orders' = orders
  /\ sends' = sends
  /\ \A i \in Instance, k \in Slot : tick'[i][k].pc = "send" => tick'[i][k] = tick[i][k]

LEMMA QuietKeepsOutbox ==
  ASSUME OutboxInv, Quiet
  PROVE  OutboxInv'
BY DEF OutboxInv, Quiet, Logged, IdOf, Current

\* Only WriteOrder and SendCommand are not quiet.
LEMMA ResumeQuiet ==
  ASSUME TypeOK, NEW i \in Instance, NEW k \in Slot, NEW t \in Tick, t.pc # "send",
         Resume(i, k, t), UNCHANGED <<orders, sends>>
  PROVE  Quiet
BY DEF Quiet, Resume, TypeOK

LEMMA NotSending ==
  ASSUME NEW t \in Tick
  PROVE  AfterOrder(t).pc # "send" /\ AfterTrade(t).pc # "send"
BY DEF AfterOrder, AfterTrade, Tick

LEMMA QuietTickStep ==
  ASSUME TypeOK, NEW i \in Instance, NEW k \in Slot, TickStep(i, k),
         ~WriteOrder(i, k), ~SendCommand(i, k)
  PROVE  Quiet
<1> DEFINE t == tick[i][k]
<1>0. t \in Tick
  BY DEF TypeOK
<1>i. Idle \in Tick /\ Idle.pc # "send"
  BY IdleType DEF Idle
<1>t. TypeOK'
  BY TickStepType
<1>1. ASSUME NEW u, Resume(i, k, u), u.pc # "send", UNCHANGED <<orders, sends>> PROVE Quiet
  BY <1>1 DEF Quiet, Resume, TypeOK
<1> USE DEF rows
<1>2. CASE AbortTick(i, k) \/ SkipBar(i, k) \/ RunStepFails(i, k)
  BY <1>2, <1>1, <1>i DEF AbortTick, SkipBar, RunStepFails
<1>3. CASE LoadBar(i, k)
  BY <1>3, <1>1, <1>0 DEF LoadBar, Tick
<1>4. CASE LoadPortfolio(i, k)
  BY <1>4, <1>1, <1>0 DEF LoadPortfolio, Tick
<1>5. CASE RunStep(i, k)
  BY <1>5, <1>1, <1>0 DEF RunStep, Tick
<1>6. CASE PersistRuntime(i, k)
  BY <1>6, <1>1, <1>0 DEF PersistRuntime, Tick
<1>7. CASE RejectOrder(i, k)
  BY <1>7, <1>1, <1>0, NotSending DEF RejectOrder, AfterRejectedOrder
<1>8. CASE BookTrade(i, k)
  <2>1. [t EXCEPT !.book = @ \cup {IdOf(i, Current(t), t)}] \in Tick
    BY <1>0, CurrentType DEF Tick
  <2>2. QED BY <1>8, <1>1, <2>1, NotSending DEF BookTrade
<1>9. CASE SkipTrade(i, k)
  BY <1>9, <1>1, <1>0, NotSending DEF SkipTrade
<1>10. CASE CommitTick(i, k)
  BY <1>10, <1>1, <1>i DEF CommitTick
<1>11. QED
  BY <1>2, <1>3, <1>4, <1>5, <1>6, <1>7, <1>8, <1>9, <1>10 DEF TickStep

LEMMA QuietOtherStep ==
  ASSUME TypeOK,
         (\E i \in Instance : LifecycleStep(i)) \/ ServerStep \/ EnvStep
  PROVE  Quiet
<1>i. Idle.pc # "send" /\ [Idle EXCEPT !.pc = "loadBar"].pc # "send"
  BY DEF Idle
<1> USE DEF rows
<1>1. CASE \E i \in Instance : LifecycleStep(i)
  BY <1>1 DEF LifecycleStep, CreateInstance, CreatePortfolio, StartInstance, StopInstance,
              DeleteInstance, SetStatus, Quiet
<1>2. CASE Shutdown \/ Restart
  BY <1>2 DEF Shutdown, Restart, Quiet
<1>3. CASE Exit
  BY <1>3, <1>i DEF Exit, Quiet
<1>4. CASE Scan
  <2>1. PICK start \in [{i \in Instance : status[i] = "RUNNING"} -> Slot] :
       tick' = [i \in Instance |->
                     IF i \in DOMAIN start
                     THEN [tick[i] EXCEPT ![start[i]] = [Idle EXCEPT !.pc = "loadBar"]]
                     ELSE tick[i]]
    BY <1>4 DEF Scan
  <2>2. ASSUME NEW i \in Instance, NEW k \in Slot, tick'[i][k].pc = "send"
        PROVE  tick'[i][k] = tick[i][k]
    BY <2>1, <2>2, <1>i DEF TypeOK
  <2>3. QED BY <1>4, <2>2 DEF Scan, Quiet
<1>5. CASE EnvStep
  BY <1>5 DEF EnvStep, NewBar, TimePasses, AgentConnects, AgentLeaves, Quiet
<1>6. QED BY <1>1, <1>2, <1>3, <1>4, <1>5 DEF ServerStep

\* Logging an order with a fresh id.
LEMMA WriteOrderOutbox ==
  ASSUME TypeOK, OutboxInv, NEW i \in Instance, NEW k \in Slot, WriteOrder(i, k)
  PROVE  OutboxInv' /\ \E id \in OrderId : Outbox!Log(id)
<1> DEFINE t == tick[i][k]
           id == IdOf(i, Current(t), t)
           s == [t EXCEPT !.pc = "send"]
<1>0. t \in Tick /\ id \in OrderId /\ id \notin Logged
  BY CurrentType DEF TypeOK, WriteOrder
<1>1. Logged' = Logged \cup {id} /\ UNCHANGED sends
  <2>1. PICK o : o = [id |-> id, bar |-> t.bar]
    OBVIOUS
  <2>2. orders' = orders \cup {o} /\ o.id = id /\ UNCHANGED sends
    BY <2>1 DEF WriteOrder
  <2>3. QED BY <2>2 DEF Logged
<1>2. sends[id] = 0
  BY <1>0 DEF OutboxInv
<1>3. IdOf(i, Current(s), s) = id
  BY <1>0 DEF IdOf, Current, Tick
<1>4. tick' = [tick EXCEPT ![i][k] = s]
  BY DEF WriteOrder, Resume
<1>5. ASSUME NEW i1 \in Instance, NEW k1 \in Slot, i1 # i \/ k1 # k
      PROVE  tick'[i1][k1] = tick[i1][k1]
  BY <1>4, <1>5 DEF TypeOK
<1>6. tick'[i][k] = s
  BY <1>4 DEF TypeOK
<1>7. ASSUME NEW i1 \in Instance, NEW k1 \in Slot, tick[i1][k1].pc = "send"
      PROVE  IdOf(i1, Current(tick[i1][k1]), tick[i1][k1]) # id
  BY <1>0, <1>7 DEF OutboxInv
<1>8. OutboxInv'
  <2>1. \A x \in OrderId : sends'[x] \in {0, 1} /\ (sends'[x] = 1 => x \in Logged')
    BY <1>1 DEF OutboxInv
  <2>2. ASSUME NEW i1 \in Instance, NEW k1 \in Slot, tick'[i1][k1].pc = "send"
        PROVE  LET x == IdOf(i1, Current(tick'[i1][k1]), tick'[i1][k1])
               IN  x \in Logged' /\ sends'[x] = 0
    <3>1. CASE i1 = i /\ k1 = k
      BY <3>1, <1>1, <1>2, <1>3, <1>6
    <3>2. CASE i1 # i \/ k1 # k
      BY <3>2, <2>2, <1>1, <1>5 DEF OutboxInv
    <3>3. QED BY <3>1, <3>2
  <2>3. ASSUME NEW i1 \in Instance, NEW k1 \in Slot, NEW k2 \in Slot,
               tick'[i1][k1].pc = "send", tick'[i1][k2].pc = "send",
               IdOf(i1, Current(tick'[i1][k1]), tick'[i1][k1])
                 = IdOf(i1, Current(tick'[i1][k2]), tick'[i1][k2])
        PROVE  k1 = k2
    <3>1. CASE i1 # i \/ (k1 # k /\ k2 # k)
      BY <3>1, <2>3, <1>5 DEF OutboxInv
    <3>2. CASE i1 = i /\ k1 = k /\ k2 # k
      BY <3>2, <2>3, <1>3, <1>5, <1>6, <1>7
    <3>3. CASE i1 = i /\ k1 # k /\ k2 = k
      BY <3>3, <2>3, <1>3, <1>5, <1>6, <1>7
    <3>4. QED BY <3>1, <3>2, <3>3
  <2>4. QED BY <2>1, <2>2, <2>3 DEF OutboxInv, IdOf, Current, Logged
<1>9. Outbox!Log(id)
  BY <1>0, <1>1 DEF Outbox!Log
<1>10. QED BY <1>0, <1>8, <1>9

\* Handing a logged command to the hub, or finding nobody to hand it to.
LEMMA SendCommandOutbox ==
  ASSUME TypeOK, OutboxInv, NEW i \in Instance, NEW k \in Slot, SendCommand(i, k)
  PROVE  OutboxInv' /\ ((\E id \in OrderId : Outbox!Deliver(id)) \/ UNCHANGED <<Logged, sends>>)
<1> DEFINE t == tick[i][k]
           id == IdOf(i, Current(t), t)
<1>0. t \in Tick /\ t.pc = "send" /\ id \in OrderId
  BY CurrentType DEF TypeOK, SendCommand
<1>1. id \in Logged /\ sends[id] = 0
  BY <1>0 DEF OutboxInv
<1>2. Logged' = Logged /\ orders' = orders
  BY DEF SendCommand, Logged
<1>3. sends' = [sends EXCEPT ![id] = 1] \/ sends' = sends
  BY <1>0, <1>1 DEF SendCommand, TypeOK
<1>4. tick' = [tick EXCEPT ![i][k] = AfterOrder(t)] /\ AfterOrder(t).pc # "send"
  BY <1>0, NotSending DEF SendCommand, Resume
<1>5. ASSUME NEW i1 \in Instance, NEW k1 \in Slot, tick'[i1][k1].pc = "send"
      PROVE  /\ tick'[i1][k1] = tick[i1][k1]
             /\ IdOf(i1, Current(tick[i1][k1]), tick[i1][k1]) # id
  <2>1. i1 # i \/ k1 # k
    BY <1>4, <1>5 DEF TypeOK
  <2>2. tick'[i1][k1] = tick[i1][k1]
    BY <1>4, <2>1 DEF TypeOK
  <2>3. CASE i1 # i
    BY <2>2, <2>3 DEF IdOf
  <2>4. CASE i1 = i /\ k1 # k
    BY <2>2, <2>4, <1>0, <1>5 DEF OutboxInv
  <2>5. QED BY <2>1, <2>2, <2>3, <2>4
<1>6. OutboxInv'
  <2>1. \A x \in OrderId : sends'[x] \in {0, 1} /\ (sends'[x] = 1 => x \in Logged')
    BY <1>0, <1>1, <1>2, <1>3 DEF OutboxInv, TypeOK
  <2>2. ASSUME NEW i1 \in Instance, NEW k1 \in Slot, tick'[i1][k1].pc = "send"
        PROVE  LET x == IdOf(i1, Current(tick'[i1][k1]), tick'[i1][k1])
               IN  x \in Logged' /\ sends'[x] = 0
    <3>1. IdOf(i1, Current(tick[i1][k1]), tick[i1][k1]) \in OrderId
      BY CurrentType DEF TypeOK
    <3>2. QED BY <3>1, <2>2, <1>0, <1>2, <1>3, <1>5 DEF OutboxInv, TypeOK
  <2>3. ASSUME NEW i1 \in Instance, NEW k1 \in Slot, NEW k2 \in Slot,
               tick'[i1][k1].pc = "send", tick'[i1][k2].pc = "send",
               IdOf(i1, Current(tick'[i1][k1]), tick'[i1][k1])
                 = IdOf(i1, Current(tick'[i1][k2]), tick'[i1][k2])
        PROVE  k1 = k2
    BY <2>3, <1>5 DEF OutboxInv
  <2>4. QED BY <2>1, <2>2, <2>3 DEF OutboxInv, IdOf, Current, Logged
<1>7. sends' = [sends EXCEPT ![id] = 1] => Outbox!Deliver(id)
  BY <1>0, <1>1, <1>2 DEF Outbox!Deliver
<1>8. QED BY <1>0, <1>2, <1>3, <1>6, <1>7

\* One step of the system is one step of the outbox or none.
LEMMA OutboxStep ==
  ASSUME TypeOK, OutboxInv, [Next]_vars
  PROVE  OutboxInv' /\ [Outbox!Next]_(Outbox!outboxVars)
<1>q. Quiet => Logged' = Logged /\ sends' = sends
  BY DEF Quiet, Logged
<1>1. CASE UNCHANGED vars
  <2>1. Quiet
    BY <1>1 DEF vars, Quiet
  <2>2. QED BY <2>1, <1>q, QuietKeepsOutbox DEF Outbox!outboxVars
<1>2. ASSUME NEW i \in Instance, NEW k \in Slot, TickStep(i, k)
      PROVE  OutboxInv' /\ [Outbox!Next]_(Outbox!outboxVars)
  <2>1. CASE WriteOrder(i, k)
    BY <2>1, WriteOrderOutbox DEF Outbox!Next
  <2>2. CASE SendCommand(i, k)
    BY <2>2, SendCommandOutbox DEF Outbox!Next, Outbox!outboxVars
  <2>3. CASE ~WriteOrder(i, k) /\ ~SendCommand(i, k)
    BY <1>2, <2>3, <1>q, QuietTickStep, QuietKeepsOutbox DEF Outbox!outboxVars
  <2>4. QED BY <2>1, <2>2, <2>3
<1>3. CASE (\E i \in Instance : LifecycleStep(i)) \/ ServerStep \/ EnvStep
  BY <1>3, <1>q, QuietOtherStep, QuietKeepsOutbox DEF Outbox!outboxVars
<1>4. QED BY <1>1, <1>2, <1>3 DEF Next

\* The tick pipeline implements the command outbox: whatever overlaps, crashes and
\* failing statements do, a command is sent only after its spot_executions row is
\* written, and no client order id is logged or sent twice.
THEOREM OutboxRefinement == Spec => ImplementsOutbox
<1>1. Init => OutboxInv /\ Outbox!Init
  BY DEF Init, OutboxInv, Logged, Idle, Outbox!Init
<1>2. TypeOK /\ OutboxInv /\ [Next]_vars
        => OutboxInv' /\ [Outbox!Next]_(Outbox!outboxVars)
  BY OutboxStep
<1>3. QED BY <1>1, <1>2, Typing, PTL DEF Spec, ImplementsOutbox, Outbox!Spec

-----------------------------------------------------------------------------
\* Only the lifecycle handlers and the recovery write a status, and none of them turns
\* DELETED into something else: Start and Stop ask for another status, the recovery
\* for RUNNING, and a create request for an id that is not taken.
LEMMA DeletedStep ==
  ASSUME TypeOK, [Next]_vars, NEW i \in Instance, status[i] = "DELETED"
  PROVE  status'[i] = "DELETED"
<1>1. ASSUME NEW j \in Instance, LifecycleStep(j) PROVE status'[i] = "DELETED"
  <2>1. CASE CreateInstance(j)
    BY <2>1 DEF CreateInstance, TypeOK
  <2>2. CASE CreatePortfolio(j)
    BY <2>2 DEF CreatePortfolio
  <2>3. CASE StartInstance(j) \/ StopInstance(j)
    BY <2>3 DEF StartInstance, StopInstance, Startable, SetStatus, TypeOK
  <2>4. CASE DeleteInstance(j)
    BY <2>4 DEF DeleteInstance, SetStatus, TypeOK
  <2>5. QED BY <1>1, <2>1, <2>2, <2>3, <2>4 DEF LifecycleStep
<1>2. CASE Restart
  BY <1>2 DEF Restart, Recovered
<1>3. CASE Shutdown \/ Exit \/ Scan \/ EnvStep
  BY <1>3 DEF Shutdown, Exit, Scan, EnvStep, NewBar, TimePasses, AgentConnects, AgentLeaves, lifeVars
<1>4. ASSUME NEW j \in Instance, NEW k \in Slot, TickStep(j, k) PROVE status' = status
  BY <1>4 DEF TickStep, AbortTick, LoadBar, SkipBar, LoadPortfolio, RunStep, RunStepFails, PersistRuntime,
              WriteOrder, RejectOrder, SendCommand, BookTrade, SkipTrade, CommitTick, lifeVars
<1>5. CASE UNCHANGED vars
  BY <1>5 DEF vars
<1>6. QED BY <1>1, <1>2, <1>3, <1>4, <1>5 DEF Next, ServerStep

\* No request, tick or restart brings a deleted instance back.
THEOREM DeletedStays == Spec => DeletedIsFinal
<1>1. TypeOK /\ [Next]_vars =>
        [\A i \in Instance : status[i] = "DELETED" => status'[i] = "DELETED"]_vars
  BY DeletedStep
<1>2. QED BY <1>1, Typing, PTL DEF Spec, DeletedIsFinal

-----------------------------------------------------------------------------
(* Records a tick goes through                                              *)

LEMMA CurrentInLeft ==
  ASSUME NEW t \in Tick, t.left # {}
  PROVE  Current(t) \in t.left
BY DEF Tick, Engine, Current

\* After an order the tick remembers the same decision and has issued the same orders.
LEMMA AfterOrderFacts ==
  ASSUME NEW t \in Tick, t.pc = "send", t.left \subseteq t.intents, t.left # {}
  PROVE  /\ AfterOrder(t).bar = t.bar
         /\ AfterOrder(t).book = t.book
         /\ AfterOrder(t).ts = t.ts
         /\ AfterOrder(t).intents = t.intents
         /\ AfterOrder(t).pc \in {"order", "trade"}
         /\ AfterOrder(t).left \subseteq t.intents
         /\ AfterOrder(t).left # {}
         /\ IssuedBy(AfterOrder(t)) = IssuedBy(t)
<1>1. Current(t) \in t.left
  BY CurrentInLeft
<1>2. CASE t.left \ {Current(t)} = {}
  <2>1. AfterOrder(t) = [t EXCEPT !.pc = "trade", !.left = t.intents]
    BY <1>2 DEF AfterOrder
  <2>2. QED BY <1>1, <1>2, <2>1 DEF Tick, IssuedBy
<1>3. CASE t.left \ {Current(t)} # {}
  <2>1. AfterOrder(t) = [t EXCEPT !.pc = "order", !.left = t.left \ {Current(t)}]
    BY <1>3 DEF AfterOrder
  <2>2. QED BY <1>1, <1>3, <2>1 DEF Tick, IssuedBy
<1>4. QED BY <1>2, <1>3

LEMMA AfterTradeFacts ==
  ASSUME NEW t \in Tick, t.pc = "trade", t.left \subseteq t.intents
  PROVE  /\ AfterTrade(t).bar = t.bar
         /\ AfterTrade(t).book = t.book
         /\ AfterTrade(t).ts = t.ts
         /\ AfterTrade(t).intents = t.intents
         /\ AfterTrade(t).pc \in {"trade", "commit"}
         /\ AfterTrade(t).left \subseteq t.intents
         /\ AfterTrade(t).pc = "trade" => AfterTrade(t).left # {}
         /\ IssuedBy(AfterTrade(t)) = IssuedBy(t)
BY DEF AfterTrade, Tick, IssuedBy

LEMMA SameOrderFor ==
  ASSUME NEW i, NEW t, NEW u, t.bar = u.bar, t.ts = u.ts
  PROVE  \A e : OrderFor(i, e, t) = OrderFor(i, e, u)
BY DEF OrderFor, IdOf

\* Only ticks past their decision have issued orders.
LEMMA IssuedOnlyIssuing ==
  ASSUME NEW t, IssuedBy(t) # {}
  PROVE  t.pc \in Issuing
BY DEF IssuedBy, Issuing

LEMMA IssuingWorks == Issuing \subseteq Working
BY DEF Issuing, Working

-----------------------------------------------------------------------------
(* Steps that leave an instance's rows and decided ticks alone              *)

Untouched(i) ==
  /\ portfolio'[i].bar = portfolio[i].bar
  /\ portfolio'[i].book = portfolio[i].book
  /\ runtime'[i].macroBar = runtime[i].macroBar
  /\ \A o : o.id.inst = i => (o \in orders' <=> o \in orders)
  /\ TradesOf(i)' = TradesOf(i)
  /\ \A k \in Slot : \/ tick'[i][k] = tick[i][k]
                     \/ tick[i][k].pc \notin Issuing /\ tick'[i][k].pc \notin Working

LEMMA UntouchedKeeps ==
  ASSUME TypeOK, NEW i \in Instance, SerialInv(i), Untouched(i)
  PROVE  SerialInv(i)'
<1>1. \A k \in WorkingOn(i)' : k \in WorkingOn(i) /\ tick'[i][k] = tick[i][k]
  BY DEF WorkingOn, Untouched
<1>2. \A k \in WorkingOn(i) : tick[i][k].pc \in Issuing =>
        k \in WorkingOn(i)' /\ tick'[i][k] = tick[i][k]
  BY DEF WorkingOn, Untouched
<1>3. \A k1, k2 \in WorkingOn(i)' : k1 = k2
  BY <1>1 DEF SerialInv
<1>4. \A o \in orders' : o.id.inst = i => o \in orders
  BY DEF Untouched
<1>5. \A o \in orders : o.id.inst = i => o \in orders'
  BY DEF Untouched
<1>6. ASSUME NEW k \in WorkingOn(i)'
      PROVE  WorkingTickInv(i, k)'
  <2>1. WorkingTickInv(i, k) /\ k \in WorkingOn(i) /\ tick'[i][k] = tick[i][k]
    BY <1>1, <1>6 DEF SerialInv
  <2>2. \A e : OrderFor(i, e, tick[i][k]).id.inst = i
    BY DEF OrderFor, IdOf
  <2>4. \A e \in IssuedBy(tick'[i][k]) : OrderFor(i, e, tick'[i][k]) \in orders'
    BY <2>1, <2>2, <1>5 DEF WorkingTickInv
  <2>5. tick'[i][k].pc = "persist" =>
          tick'[i][k].rt.macroBar = IF "MACRO" \in tick'[i][k].intents
                                    THEN tick'[i][k].bar
                                    ELSE runtime'[i].macroBar
    BY <2>1 DEF WorkingTickInv, MacroTimer, Untouched
  <2>3. /\ tick'[i][k].bar > portfolio'[i].bar
        /\ tick'[i][k].pc # "step" => tick'[i][k].left \subseteq tick'[i][k].intents
        /\ tick'[i][k].pc \in {"order", "send", "trade"} => tick'[i][k].left # {}
        /\ tick'[i][k].book = TradesOf(i)'
        /\ tick'[i][k].pc = "persist" => tick'[i][k].left = tick'[i][k].intents
    BY <2>1 DEF WorkingTickInv, Untouched
  <2>6. QED BY <2>3, <2>4, <2>5 DEF WorkingTickInv, MacroTimer
<1>7. OrderInv(i)'
  <2>1. ASSUME NEW o \in orders', o.id.inst = i
        PROVE  \/ o.bar <= portfolio'[i].bar
               \/ \E k \in WorkingOn(i)' : \E e \in IssuedBy(tick'[i][k]) :
                    o = OrderFor(i, e, tick'[i][k])
    <3>1. CASE o.bar <= portfolio[i].bar
      BY <3>1 DEF Untouched
    <3>2. ASSUME NEW k \in WorkingOn(i), NEW e \in IssuedBy(tick[i][k]),
                 o = OrderFor(i, e, tick[i][k])
          PROVE  k \in WorkingOn(i)' /\ tick'[i][k] = tick[i][k]
      BY <3>2, <1>2, IssuedOnlyIssuing
    <3>3. QED BY <2>1, <1>4, <3>1, <3>2 DEF SerialInv, OrderInv
  <2>2. QED BY <2>1 DEF OrderInv
<1>8. OnceInv(i)'
  BY <1>4 DEF SerialInv, OnceInv
<1>9. BookInv(i)'
  <2>1. TradesOf(i) \subseteq Logged'
    <3>1. ASSUME NEW id \in TradesOf(i) PROVE id \in Logged'
      <4>1. id.inst = i /\ id \in Logged
        BY DEF TradesOf, SerialInv, BookInv
      <4>2. PICK o \in orders : o.id = id
        BY <4>1 DEF Logged
      <4>3. o \in orders'
        BY <4>1, <4>2, <1>5
      <4>4. QED BY <4>2, <4>3 DEF Logged
    <3>2. QED BY <3>1
  <2>2. (\A k \in Slot : tick'[i][k].pc \notin Issuing)
          => \A k \in Slot : tick[i][k].pc \notin Issuing
    BY DEF Untouched
  <2>3. QED BY <2>1, <2>2 DEF SerialInv, BookInv, Untouched
<1>10. TimerInv(i)'
  <2>1. runtime'[i].macroBar = runtime[i].macroBar
    BY DEF Untouched
  <2>2. CASE runtime[i].macroBar = 0
    BY <2>1, <2>2 DEF TimerInv
  <2>3. CASE \E o \in orders : o.id.inst = i /\ o.id.engine = "MACRO" /\ o.bar = runtime[i].macroBar
    BY <2>1, <2>3, <1>5 DEF TimerInv
  <2>4. CASE \E k \in WorkingOn(i) :
               /\ tick[i][k].pc \in Issuing
               /\ "MACRO" \in tick[i][k].intents \ IssuedBy(tick[i][k])
               /\ runtime[i].macroBar = tick[i][k].bar
    <3>1. \E k \in WorkingOn(i)' :
               /\ tick'[i][k].pc \in Issuing
               /\ "MACRO" \in tick'[i][k].intents \ IssuedBy(tick'[i][k])
               /\ runtime'[i].macroBar = tick'[i][k].bar
      BY <2>1, <2>4, <1>2
    <3>2. QED BY <3>1 DEF TimerInv
  <2>5. QED BY <2>2, <2>3, <2>4 DEF SerialInv, TimerInv
<1>11. QED BY <1>3, <1>6, <1>7, <1>8, <1>9, <1>10 DEF SerialInv

\* Steps of other instances, of the lifecycle, of the server and of the environment.
LEMMA OtherStepUntouched ==
  ASSUME TypeOK, NEW i \in Instance, i \notin disturbed',
         (\E j \in Instance : LifecycleStep(j)) \/ ServerStep \/ EnvStep
  PROVE  Untouched(i)
<1>t. TypeOK'
  BY OtherStepType
<1> USE DEF rows, lifeVars, envVars
<1>s. ASSUME UNCHANGED <<portfolio, runtime, orders, trades, tick>>
      PROVE  Untouched(i)
  BY <1>s DEF Untouched, TradesOf
<1>1. ASSUME NEW j \in Instance, CreatePortfolio(j) PROVE Untouched(i)
  <2>1. portfolio' = portfolio \/ portfolio' = [portfolio EXCEPT ![j].exists = TRUE]
    BY <1>1 DEF CreatePortfolio
  <2>p. portfolio \in [Instance -> Portfolio]
    BY DEF TypeOK
  <2>r. \/ portfolio'[i] = portfolio[i]
        \/ portfolio[i] \in Portfolio /\ portfolio'[i] = [portfolio[i] EXCEPT !.exists = TRUE]
    BY <2>1, <2>p
  <2>2. portfolio'[i].bar = portfolio[i].bar /\ portfolio'[i].book = portfolio[i].book
    BY <2>r DEF Portfolio
  <2>3. QED BY <1>1, <2>2 DEF CreatePortfolio, Untouched, TradesOf
<1>2. ASSUME NEW j \in Instance, LifecycleStep(j) PROVE Untouched(i)
  <2>1. CreatePortfolio(j) \/ UNCHANGED <<portfolio, runtime, orders, trades, tick>>
    BY <1>2 DEF LifecycleStep, CreateInstance, StartInstance, StopInstance, DeleteInstance, SetStatus
  <2>2. QED BY <1>1, <1>s, <2>1
<1>3. CASE Shutdown \/ Restart \/ EnvStep
  BY <1>3, <1>s DEF Shutdown, Restart, EnvStep, NewBar, TimePasses, AgentConnects, AgentLeaves
<1>4. CASE Exit
  <2>1. \A k \in Slot : tick[i][k].pc \notin Issuing /\ tick'[i][k].pc \notin Working
    BY <1>4 DEF Exit, Idle, Working, Issuing
  <2>2. QED BY <1>4, <2>1 DEF Exit, Untouched, TradesOf
<1>5. CASE Scan
  <2>1. PICK start \in [{j \in Instance : status[j] = "RUNNING"} -> Slot] :
       /\ \A j \in DOMAIN start : tick[j][start[j]].pc = "idle"
       /\ tick' = [j \in Instance |->
                     IF j \in DOMAIN start
                     THEN [tick[j] EXCEPT ![start[j]] = [Idle EXCEPT !.pc = "loadBar"]]
                     ELSE tick[j]]
    BY <1>5 DEF Scan
  <2>2. [Idle EXCEPT !.pc = "loadBar"].pc \notin Working /\ "idle" \notin Issuing
    BY DEF Idle, Working, Issuing
  <2>3. \A k \in Slot : \/ tick'[i][k] = tick[i][k]
                        \/ tick[i][k].pc \notin Issuing /\ tick'[i][k].pc \notin Working
    BY <2>1, <2>2 DEF TypeOK
  <2>4. QED BY <1>5, <2>3 DEF Scan, Untouched, TradesOf
<1>6. QED BY <1>2, <1>3, <1>4, <1>5 DEF ServerStep

LEMMA OtherInstanceUntouched ==
  ASSUME TypeOK, NEW i \in Instance, NEW j \in Instance, i # j, NEW k \in Slot, TickStep(j, k)
  PROVE  Untouched(i)
<1> DEFINE t == tick[j][k]
           id == IdOf(j, Current(t), t)
<1> USE DEF rows
<1>i. id.inst = j
  BY DEF IdOf
<1>1. ASSUME NEW u, Resume(j, k, u) PROVE tick'[i] = tick[i]
  BY <1>1 DEF Resume, TypeOK
<1>s. ASSUME tick'[i] = tick[i], portfolio'[i] = portfolio[i], runtime'[i] = runtime[i],
             orders' = orders \/ orders' = orders \cup {[id |-> id, bar |-> t.bar]},
             trades' = trades \/ trades' = trades \cup {id}
      PROVE  Untouched(i)
  <2>1. \A o : o.id.inst = i => (o \in orders' <=> o \in orders)
    BY <1>s, <1>i
  <2>2. TradesOf(i)' = TradesOf(i)
    BY <1>s, <1>i DEF TradesOf
  <2>3. QED BY <1>s, <2>1, <2>2 DEF Untouched
<1>2. CASE AbortTick(j, k) \/ SkipBar(j, k) \/ RunStepFails(j, k) \/ LoadBar(j, k)
           \/ LoadPortfolio(j, k) \/ RunStep(j, k) \/ RejectOrder(j, k) \/ SkipTrade(j, k)
  BY <1>2, <1>1, <1>s DEF AbortTick, SkipBar, RunStepFails, LoadBar, LoadPortfolio, RunStep,
                          RejectOrder, SkipTrade
<1>3. CASE PersistRuntime(j, k)
  <2>1. runtime'[i] = runtime[i]
    BY <1>3 DEF PersistRuntime, TypeOK
  <2>2. QED BY <1>3, <1>1, <1>s, <2>1 DEF PersistRuntime
<1>4. CASE WriteOrder(j, k)
  BY <1>4, <1>1, <1>s DEF WriteOrder
<1>5. CASE SendCommand(j, k)
  BY <1>5, <1>1, <1>s DEF SendCommand
<1>6. CASE BookTrade(j, k)
  BY <1>6, <1>1, <1>s DEF BookTrade
<1>7. CASE CommitTick(j, k)
  <2>1. portfolio'[i] = portfolio[i]
    BY <1>7 DEF CommitTick, TypeOK
  <2>2. QED BY <1>7, <1>1, <1>s, <2>1 DEF CommitTick
<1>8. QED BY <1>2, <1>3, <1>4, <1>5, <1>6, <1>7 DEF TickStep

\* Steps before the decision, and ticks that end without one.
LEMMA UndecidedUntouched ==
  ASSUME TypeOK, NEW i \in Instance, NEW k \in Slot,
         AbortTick(i, k) \/ SkipBar(i, k) \/ RunStepFails(i, k) \/ LoadBar(i, k)
  PROVE  Untouched(i)
<1>0. tick[i][k] \in Tick /\ UNCHANGED <<portfolio, runtime, orders, trades>>
  BY DEF TypeOK, AbortTick, SkipBar, RunStepFails, LoadBar, rows
<1>1. PICK u : Resume(i, k, u) /\ u.pc \notin Working
  <2>1. Idle.pc \notin Working
    BY DEF Idle, Working, Issuing
  <2>2. [tick[i][k] EXCEPT !.pc = "loadPortfolio", !.bar = newest].pc \notin Working
    BY <1>0 DEF Tick, Working, Issuing
  <2>3. QED BY <2>1, <2>2 DEF AbortTick, SkipBar, RunStepFails, LoadBar
<1>2. tick[i][k].pc \notin Issuing
  BY DEF AbortTick, SkipBar, RunStepFails, LoadBar, Loading, Issuing
<1>3. \A k1 \in Slot : \/ tick'[i][k1] = tick[i][k1]
                       \/ tick[i][k1].pc \notin Issuing /\ tick'[i][k1].pc \notin Working
  BY <1>1, <1>2 DEF Resume, TypeOK
<1>4. QED BY <1>0, <1>3 DEF Untouched, TradesOf

-----------------------------------------------------------------------------
(* Steps of the one working tick                                            *)

LEMMA SoleWorker ==
  ASSUME NEW i \in Instance, NEW k \in Slot, SerialInv(i), tick[i][k].pc \in Working
  PROVE  /\ WorkingTickInv(i, k)
         /\ \A k1 \in Slot : tick[i][k1].pc \in Working => k1 = k
BY DEF SerialInv, WorkingOn

LEMMA Resumed ==
  ASSUME TypeOK, NEW i \in Instance, NEW k \in Slot, NEW u, Resume(i, k, u)
  PROVE  tick'[i][k] = u /\ \A k1 \in Slot \ {k} : tick'[i][k1] = tick[i][k1]
BY DEF Resume, TypeOK

\* The working tick moves on without touching a row.
LEMMA ContinueKeeps ==
  ASSUME TypeOK, NEW i \in Instance, NEW k \in Slot, NEW u \in Tick, SerialInv(i),
         tick[i][k].pc \in Working, u.pc \in Working, Resume(i, k, u),
         UNCHANGED <<portfolio, runtime, orders, trades>>,
         u.bar = tick[i][k].bar, u.book = tick[i][k].book,
         IssuedBy(u) = IssuedBy(tick[i][k]),
         IssuedBy(u) = {} \/ u.ts = tick[i][k].ts,
         u.left \subseteq u.intents,
         u.pc \in {"order", "send", "trade"} => u.left # {},
         u.pc = "persist" => /\ u.left = u.intents
                             /\ u.rt.macroBar = MacroTimer(i, u.intents, u.bar),
         IF tick[i][k].pc \in Issuing
         THEN u.pc \in Issuing /\ u.intents = tick[i][k].intents
         ELSE u.pc \notin Issuing
  PROVE  SerialInv(i)'
<1> DEFINE t == tick[i][k]
<1>1. /\ WorkingTickInv(i, k)
      /\ \A k1 \in Slot : tick[i][k1].pc \in Working => k1 = k
  BY SoleWorker
<1>2. tick'[i][k] = u /\ \A k1 \in Slot \ {k} : tick'[i][k1] = tick[i][k1]
  BY Resumed
<1>3. \A k1 \in WorkingOn(i)' : k1 = k
  BY <1>1, <1>2 DEF WorkingOn
<1>4. k \in WorkingOn(i)' /\ (\A k1 \in WorkingOn(i) : k1 = k)
  BY <1>1, <1>2 DEF WorkingOn
<1>5. \A e \in IssuedBy(u) : OrderFor(i, e, u) = OrderFor(i, e, t)
  BY SameOrderFor
<1>6. WorkingTickInv(i, k)'
  <2>1. \A e \in IssuedBy(u) : OrderFor(i, e, u) \in orders'
    BY <1>1, <1>5 DEF WorkingTickInv
  <2>2. u.book = TradesOf(i)' /\ u.bar > portfolio'[i].bar
    BY <1>1 DEF WorkingTickInv, TradesOf
  <2>3. u.pc = "persist" =>
          u.rt.macroBar = IF "MACRO" \in u.intents THEN u.bar ELSE runtime'[i].macroBar
    BY DEF MacroTimer
  <2>4. QED BY <1>2, <2>1, <2>2, <2>3 DEF WorkingTickInv, MacroTimer
<1>7. OrderInv(i)'
  <2>1. ASSUME NEW o \in orders', o.id.inst = i
        PROVE  \/ o.bar <= portfolio'[i].bar
               \/ \E k1 \in WorkingOn(i)' : \E e \in IssuedBy(tick'[i][k1]) :
                    o = OrderFor(i, e, tick'[i][k1])
    <3>1. CASE o.bar <= portfolio[i].bar
      BY <3>1
    <3>2. ASSUME NEW k1 \in WorkingOn(i), NEW e \in IssuedBy(tick[i][k1]),
                 o = OrderFor(i, e, tick[i][k1])
          PROVE  e \in IssuedBy(tick'[i][k]) /\ o = OrderFor(i, e, tick'[i][k])
      BY <3>2, <1>2, <1>4, <1>5
    <3>3. QED BY <2>1, <1>4, <3>1, <3>2 DEF SerialInv, OrderInv
  <2>2. QED BY <2>1 DEF OrderInv
<1>8. OnceInv(i)'
  BY DEF SerialInv, OnceInv
<1>9. BookInv(i)'
  BY <1>1, <1>2, IssuingWorks DEF SerialInv, BookInv, TradesOf, Logged
<1>10. TimerInv(i)'
  <2>1. CASE runtime[i].macroBar = 0
             \/ \E o \in orders : o.id.inst = i /\ o.id.engine = "MACRO" /\ o.bar = runtime[i].macroBar
    BY <2>1 DEF TimerInv
  <2>2. ASSUME NEW k1 \in WorkingOn(i), tick[i][k1].pc \in Issuing,
               "MACRO" \in tick[i][k1].intents \ IssuedBy(tick[i][k1]),
               runtime[i].macroBar = tick[i][k1].bar
        PROVE  TimerInv(i)'
    BY <2>2, <1>2, <1>4 DEF TimerInv
  <2>3. QED BY <2>1, <2>2 DEF SerialInv, TimerInv
<1>11. QED BY <1>3, <1>4, <1>6, <1>7, <1>8, <1>9, <1>10 DEF SerialInv

\* LoadPortfolio: the deduplication lets a newer bar through.
LEMMA LoadPortfolioKeeps ==
  ASSUME TypeOK, NEW i \in Instance, NEW k \in Slot, SerialInv(i), i \notin disturbed',
         LoadPortfolio(i, k)
  PROVE  SerialInv(i)'
<1> DEFINE t == tick[i][k]
           u == [t EXCEPT !.pc = "step", !.book = portfolio[i].book]
<1>0. t \in Tick /\ t.pc = "loadPortfolio"
  BY DEF TypeOK, LoadPortfolio
<1>1. WorkingOn(i) = {}
  BY DEF LoadPortfolio, Disturb
<1>2. tick'[i][k] = u /\ \A k1 \in Slot \ {k} : tick'[i][k1] = tick[i][k1]
  BY Resumed DEF LoadPortfolio
<1>3. u.pc = "step" /\ u.bar = t.bar /\ u.left = t.left /\ u.intents = t.intents
      /\ u.book = portfolio[i].book /\ IssuedBy(u) = {}
  BY <1>0 DEF Tick, IssuedBy
<1>4. UNCHANGED <<portfolio, runtime, orders, trades>>
  BY DEF LoadPortfolio, rows
<1>5. t.bar > portfolio[i].bar
  BY <1>0 DEF LoadPortfolio, AlreadyProcessed, TypeOK, Tick, Portfolio, Bar
<1>6. \A k1 \in Slot : tick[i][k1].pc \notin Issuing
  BY <1>1, IssuingWorks DEF WorkingOn
<1>7. k \in WorkingOn(i)' /\ \A k1 \in WorkingOn(i)' : k1 = k
  BY <1>1, <1>2, <1>3 DEF WorkingOn, Working
<1>8. WorkingTickInv(i, k)'
  BY <1>2, <1>3, <1>4, <1>5, <1>6 DEF WorkingTickInv, SerialInv, BookInv, TradesOf
<1>9. OrderInv(i)'
  BY <1>1, <1>4 DEF SerialInv, OrderInv
<1>10. OnceInv(i)' /\ BookInv(i)'
  BY <1>4, <1>6 DEF SerialInv, OnceInv, BookInv, TradesOf, Logged
<1>11. TimerInv(i)'
  BY <1>1, <1>4 DEF SerialInv, TimerInv
<1>12. QED BY <1>7, <1>8, <1>9, <1>10, <1>11 DEF SerialInv

\* RunStep, SendCommand and SkipTrade touch no row of the instance.
LEMMA RunStepKeeps ==
  ASSUME TypeOK, NEW i \in Instance, NEW k \in Slot, SerialInv(i), RunStep(i, k)
  PROVE  SerialInv(i)'
<1> DEFINE t == tick[i][k]
<1>0. t \in Tick /\ t.pc = "step"
  BY DEF TypeOK, RunStep
<1>1. PICK intents \in SUBSET Engine :
          Resume(i, k, [t EXCEPT
            !.pc = "persist", !.hadRt = runtime[i].exists, !.intents = intents, !.left = intents,
            !.rt = [exists |-> TRUE, macroBar |-> MacroTimer(i, intents, t.bar)]])
  BY DEF RunStep
<1>2. PICK u : u = [t EXCEPT
            !.pc = "persist", !.hadRt = runtime[i].exists, !.intents = intents, !.left = intents,
            !.rt = [exists |-> TRUE, macroBar |-> MacroTimer(i, intents, t.bar)]]
  OBVIOUS
<1>3. MacroTimer(i, intents, t.bar) \in Bar
  BY <1>0 DEF MacroTimer, TypeOK, Tick, Runtime
<1>4. u \in Tick
  BY <1>0, <1>2, <1>3 DEF TypeOK, Tick, Working, Runtime
<1>5. /\ u.pc = "persist" /\ u.bar = t.bar /\ u.book = t.book /\ u.left = intents
      /\ u.intents = intents /\ u.rt.macroBar = MacroTimer(i, intents, t.bar)
  BY <1>0, <1>2 DEF Tick
<1>6. IssuedBy(u) = {} /\ IssuedBy(t) = {} /\ "persist" \in Working /\ "step" \in Working
      /\ "persist" \notin Issuing /\ "step" \notin Issuing
  BY <1>0, <1>5 DEF IssuedBy, Working, Issuing
<1>7. UNCHANGED <<portfolio, runtime, orders, trades>>
  BY DEF RunStep, rows
<1>8. QED BY <1>0, <1>1, <1>2, <1>4, <1>5, <1>6, <1>7, ContinueKeeps

LEMMA SendCommandKeeps ==
  ASSUME TypeOK, NEW i \in Instance, NEW k \in Slot, SerialInv(i), SendCommand(i, k)
  PROVE  SerialInv(i)'
<1> DEFINE t == tick[i][k]
           u == AfterOrder(t)
<1>0. t \in Tick /\ t.pc = "send" /\ u \in Tick
  BY AfterType DEF TypeOK, SendCommand
<1>1. {"send", "order", "trade"} \subseteq Issuing /\ Issuing \subseteq Working
  BY DEF Issuing, Working
<1>2. WorkingTickInv(i, k)
  BY <1>0, <1>1, SoleWorker
<1>3. t.left \subseteq t.intents /\ t.left # {}
  BY <1>0, <1>2 DEF WorkingTickInv
<1>4. /\ u.bar = t.bar /\ u.book = t.book /\ u.ts = t.ts /\ u.intents = t.intents
      /\ u.pc \in {"order", "trade"} /\ u.left \subseteq t.intents /\ u.left # {}
      /\ IssuedBy(u) = IssuedBy(t)
  BY <1>0, <1>3, AfterOrderFacts
<1>5. Resume(i, k, u) /\ UNCHANGED <<portfolio, runtime, orders, trades>>
  BY DEF SendCommand
<1>6. QED BY <1>0, <1>1, <1>4, <1>5, ContinueKeeps

LEMMA SkipTradeKeeps ==
  ASSUME TypeOK, NEW i \in Instance, NEW k \in Slot, SerialInv(i), SkipTrade(i, k)
  PROVE  SerialInv(i)'
<1> DEFINE t == tick[i][k]
           u == AfterTrade(t)
<1>0. t \in Tick /\ t.pc = "trade" /\ u \in Tick
  BY AfterType DEF TypeOK, SkipTrade
<1>1. {"trade", "commit"} \subseteq Issuing /\ Issuing \subseteq Working
  BY DEF Issuing, Working
<1>2. WorkingTickInv(i, k)
  BY <1>0, <1>1, SoleWorker
<1>3. t.left \subseteq t.intents
  BY <1>0, <1>2 DEF WorkingTickInv
<1>4. /\ u.bar = t.bar /\ u.book = t.book /\ u.ts = t.ts /\ u.intents = t.intents
      /\ u.pc \in {"trade", "commit"} /\ u.left \subseteq t.intents
      /\ (u.pc = "trade" => u.left # {}) /\ IssuedBy(u) = IssuedBy(t)
  BY <1>0, <1>3, AfterTradeFacts
<1>5. Resume(i, k, u) /\ UNCHANGED <<portfolio, runtime, orders, trades>>
  BY DEF SkipTrade, rows
<1>6. QED BY <1>0, <1>1, <1>4, <1>5, ContinueKeeps

\* PersistRuntime: the timer now shows the bar whose macro order is about to be logged.
LEMMA PersistRuntimeKeeps ==
  ASSUME TypeOK, NEW i \in Instance, NEW k \in Slot, SerialInv(i), i \notin disturbed',
         PersistRuntime(i, k)
  PROVE  SerialInv(i)'
<1> DEFINE t == tick[i][k]
           u == [t EXCEPT !.pc = IF t.left = {} THEN "commit" ELSE "order", !.ts = clock]
<1>0. t \in Tick /\ t.pc = "persist" /\ t.pc \in Working /\ t.pc \notin Issuing
  BY DEF TypeOK, PersistRuntime, Working, Issuing
<1>1. /\ WorkingTickInv(i, k)
      /\ \A k1 \in Slot : tick[i][k1].pc \in Working => k1 = k
  BY <1>0, SoleWorker
<1>2. tick'[i][k] = u /\ \A k1 \in Slot \ {k} : tick'[i][k1] = tick[i][k1]
  BY Resumed DEF PersistRuntime
<1>3. /\ u.bar = t.bar /\ u.book = t.book /\ u.left = t.left /\ u.intents = t.intents
      /\ u.pc = (IF t.left = {} THEN "commit" ELSE "order")
  BY <1>0 DEF Tick
<1>4. u.pc \in Issuing /\ u.pc \in Working /\ u.pc # "persist" /\ u.pc # "step"
  BY <1>3 DEF Issuing, Working
<1>5. UNCHANGED <<portfolio, orders, trades>>
  BY DEF PersistRuntime
<1>6. k \in WorkingOn(i)' /\ (\A k1 \in WorkingOn(i)' : k1 = k) /\ (\A k1 \in WorkingOn(i) : k1 = k)
  BY <1>0, <1>1, <1>2, <1>4 DEF WorkingOn
<1>7. t.left = t.intents /\ t.rt.macroBar = MacroTimer(i, t.intents, t.bar)
  BY <1>0, <1>1 DEF WorkingTickInv
<1>8. IssuedBy(t) = {} /\ IssuedBy(u) = {}
  <2>1. IssuedBy(t) = {}
    BY <1>0 DEF IssuedBy
  <2>2. ASSUME t.left = {} PROVE IssuedBy(u) = {}
    <3>1. u.pc = "commit" /\ u.intents = {}
      BY <2>2, <1>3, <1>7
    <3>2. QED BY <3>1 DEF IssuedBy
  <2>3. ASSUME t.left # {} PROVE IssuedBy(u) = {}
    <3>1. u.pc = "order" /\ u.intents \ u.left = {}
      BY <2>3, <1>3, <1>7
    <3>2. QED BY <3>1 DEF IssuedBy
  <2>4. QED BY <2>1, <2>2, <2>3
<1>9. WorkingTickInv(i, k)'
  <2>1. t.bar > portfolio[i].bar /\ t.book = TradesOf(i)
    BY <1>1 DEF WorkingTickInv
  <2>2. tick'[i][k].bar > portfolio'[i].bar /\ tick'[i][k].book = TradesOf(i)'
    BY <2>1, <1>2, <1>3, <1>5 DEF TradesOf
  <2>3. /\ tick'[i][k].left \subseteq tick'[i][k].intents
        /\ tick'[i][k].pc \in {"order", "send", "trade"} => tick'[i][k].left # {}
        /\ tick'[i][k].pc # "persist"
    <3>1. /\ u.left \subseteq u.intents
          /\ u.pc \in {"order", "send", "trade"} => u.left # {}
          /\ u.pc # "persist"
      BY <1>3, <1>4, <1>7
    <3>2. QED BY <3>1, <1>2
  <2>4. IssuedBy(tick'[i][k]) = {}
    BY <1>2, <1>8
  <2>5. QED BY <2>2, <2>3, <2>4 DEF WorkingTickInv
<1>10. OrderInv(i)'
  <2>1. \A o \in orders : o.id.inst = i => o.bar <= portfolio[i].bar
    BY <1>6, <1>8 DEF SerialInv, OrderInv
  <2>2. QED BY <2>1, <1>5 DEF OrderInv
<1>11. OnceInv(i)' /\ BookInv(i)'
  <2>1. \E k1 \in Slot : tick'[i][k1].pc \in Issuing
    BY <1>2, <1>4
  <2>2. QED BY <1>5, <2>1 DEF SerialInv, OnceInv, BookInv, TradesOf, Logged
<1>12. TimerInv(i)'
  <2>1. runtime'[i].macroBar = runtime[i].macroBar \/ runtime'[i].macroBar = t.rt.macroBar
    <3>1. runtime' = [runtime EXCEPT ![i] = IF ~t.hadRt /\ @.exists THEN @ ELSE t.rt]
      BY DEF PersistRuntime, Disturb
    <3>2. QED BY <3>1 DEF TypeOK
  <2>2. CASE runtime'[i].macroBar = runtime[i].macroBar
    <3>1. \/ runtime[i].macroBar = 0
          \/ \E o \in orders : o.id.inst = i /\ o.id.engine = "MACRO" /\ o.bar = runtime[i].macroBar
      BY <1>0, <1>6 DEF SerialInv, TimerInv
    <3>2. QED BY <2>2, <3>1, <1>5 DEF TimerInv
  <2>3. CASE runtime'[i].macroBar # runtime[i].macroBar
    <3>1. "MACRO" \in t.intents /\ runtime'[i].macroBar = t.bar
      BY <2>1, <2>3, <1>7 DEF MacroTimer
    <3>2. /\ k \in WorkingOn(i)' /\ tick'[i][k].pc \in Issuing
          /\ "MACRO" \in tick'[i][k].intents \ IssuedBy(tick'[i][k])
          /\ runtime'[i].macroBar = tick'[i][k].bar
      BY <3>1, <1>2, <1>3, <1>4, <1>6, <1>8
    <3>3. QED BY <3>2 DEF TimerInv
  <2>4. QED BY <2>2, <2>3
<1>13. QED BY <1>6, <1>9, <1>10, <1>11, <1>12 DEF SerialInv

\* WriteOrder: the first order of this bar and engine, since the id was free.
LEMMA WriteOrderKeeps ==
  ASSUME TypeOK, NEW i \in Instance, NEW k \in Slot, SerialInv(i), WriteOrder(i, k)
  PROVE  SerialInv(i)'
<1> DEFINE t == tick[i][k]
           e == Current(t)
           u == [t EXCEPT !.pc = "send"]
<1>0. t \in Tick /\ t.pc = "order" /\ t.pc \in Working
  BY DEF TypeOK, WriteOrder, Working, Issuing
<1>1. /\ WorkingTickInv(i, k)
      /\ \A k1 \in Slot : tick[i][k1].pc \in Working => k1 = k
  BY <1>0, SoleWorker
<1>2. tick'[i][k] = u /\ \A k1 \in Slot \ {k} : tick'[i][k1] = tick[i][k1]
  BY Resumed DEF WriteOrder
<1>3. /\ u.bar = t.bar /\ u.book = t.book /\ u.left = t.left /\ u.intents = t.intents
      /\ u.ts = t.ts /\ u.pc = "send"
  BY <1>0 DEF Tick
<1>4. u.pc \in Issuing /\ u.pc \in Working
  BY <1>3 DEF Issuing, Working
<1>5. /\ t.bar > portfolio[i].bar /\ t.book = TradesOf(i)
      /\ t.left \subseteq t.intents /\ t.left # {}
      /\ \A d \in IssuedBy(t) : OrderFor(i, d, t) \in orders
  BY <1>0, <1>1 DEF WorkingTickInv
<1>6. k \in WorkingOn(i)' /\ (\A k1 \in WorkingOn(i)' : k1 = k) /\ (\A k1 \in WorkingOn(i) : k1 = k)
  BY <1>1, <1>2, <1>4 DEF WorkingOn
<1>7. IssuedBy(u) = IssuedBy(t) \cup {e}
  <2>1. Current(u) = e
    BY <1>3 DEF Current
  <2>2. IssuedBy(u) = (u.intents \ u.left) \cup {Current(u)}
    BY <1>3 DEF IssuedBy
  <2>3. IssuedBy(t) = t.intents \ t.left
    BY <1>0 DEF IssuedBy
  <2>4. QED BY <2>1, <2>2, <2>3, <1>3
<1>8. \A d : OrderFor(i, d, u) = OrderFor(i, d, t)
  <2>1. u.bar = t.bar /\ u.ts = t.ts
    BY <1>3
  <2> HIDE DEF u, t
  <2>2. QED BY <2>1 DEF OrderFor, IdOf
<1>9. orders' = orders \cup {OrderFor(i, e, t)} /\ OrderFor(i, e, t).id \notin Logged
  BY DEF WriteOrder, OrderFor
<1>10. UNCHANGED <<portfolio, runtime, trades>>
  BY DEF WriteOrder
<1>11. \A d : /\ OrderFor(i, d, t).bar = t.bar
              /\ OrderFor(i, d, t).id.inst = i
              /\ OrderFor(i, d, t).id.engine = d
  BY DEF OrderFor, IdOf
<1>12. WorkingTickInv(i, k)'
  <2>1. tick'[i][k].bar > portfolio'[i].bar /\ tick'[i][k].book = TradesOf(i)'
    BY <1>2, <1>3, <1>5, <1>10 DEF TradesOf
  <2>2. \A d \in IssuedBy(tick'[i][k]) : OrderFor(i, d, tick'[i][k]) \in orders'
    BY <1>2, <1>5, <1>7, <1>8, <1>9
  <2>3. /\ tick'[i][k].left \subseteq tick'[i][k].intents
        /\ tick'[i][k].left # {}
        /\ tick'[i][k].pc # "persist"
    BY <1>2, <1>3, <1>5
  <2>4. QED BY <2>1, <2>2, <2>3 DEF WorkingTickInv
<1>13. OrderInv(i)'
  <2>1. ASSUME NEW o \in orders', o.id.inst = i
        PROVE  \/ o.bar <= portfolio'[i].bar
               \/ \E d \in IssuedBy(tick'[i][k]) : o = OrderFor(i, d, tick'[i][k])
    <3>1. CASE o = OrderFor(i, e, t)
      BY <3>1, <1>2, <1>7, <1>8
    <3>2. CASE o \in orders
      <4>1. \/ o.bar <= portfolio[i].bar
            \/ \E d \in IssuedBy(t) : o = OrderFor(i, d, t)
        BY <2>1, <3>2, <1>6 DEF SerialInv, OrderInv
      <4>2. QED BY <4>1, <1>2, <1>7, <1>8, <1>10
    <3>3. QED BY <3>1, <3>2, <1>9
  <2>2. QED BY <2>1, <1>6 DEF OrderInv
<1>14. OnceInv(i)'
  <2>1. ASSUME NEW o \in orders, o.id.inst = i, o.id.engine = e, o.bar = t.bar
        PROVE  FALSE
    <3>1. o.bar \in Bar /\ portfolio[i].bar \in Bar
      BY DEF TypeOK, Order, Portfolio
    <3>2. ~(o.bar <= portfolio[i].bar)
      BY <2>1, <3>1, <1>5 DEF Bar
    <3>3. PICK d \in IssuedBy(t) : o = OrderFor(i, d, t)
      BY <2>1, <3>2, <1>6 DEF SerialInv, OrderInv
    <3>4. d = e
      BY <2>1, <3>3, <1>11
    <3>5. OrderFor(i, e, t).id \in Logged
      BY <3>3, <3>4 DEF Logged
    <3>6. QED BY <3>5, <1>9
  <2>2. QED BY <2>1, <1>9, <1>11 DEF SerialInv, OnceInv
<1>15. BookInv(i)'
  <2>1. Logged \subseteq Logged'
    BY <1>9 DEF Logged
  <2>2. TradesOf(i)' \subseteq Logged'
    BY <2>1, <1>10 DEF SerialInv, BookInv, TradesOf
  <2>3. \E k1 \in Slot : tick'[i][k1].pc \in Issuing
    BY <1>2, <1>4
  <2>4. QED BY <2>2, <2>3 DEF BookInv
<1>16. TimerInv(i)'
  <2>1. CASE runtime[i].macroBar = 0
             \/ \E o \in orders : o.id.inst = i /\ o.id.engine = "MACRO" /\ o.bar = runtime[i].macroBar
    BY <2>1, <1>9, <1>10 DEF TimerInv
  <2>2. CASE "MACRO" \in t.intents \ IssuedBy(t) /\ runtime[i].macroBar = t.bar
    <3>1. CASE e = "MACRO"
      BY <2>2, <3>1, <1>9, <1>10, <1>11 DEF TimerInv
    <3>2. CASE e # "MACRO"
      <4>1. /\ tick'[i][k].pc \in Issuing
            /\ "MACRO" \in tick'[i][k].intents \ IssuedBy(tick'[i][k])
            /\ runtime'[i].macroBar = tick'[i][k].bar
        BY <2>2, <3>2, <1>2, <1>3, <1>4, <1>7, <1>10
      <4>2. QED BY <4>1, <1>6 DEF TimerInv
    <3>3. QED BY <3>1, <3>2
  <2>3. QED BY <2>1, <2>2, <1>6 DEF SerialInv, TimerInv
<1>17. QED BY <1>6, <1>12, <1>13, <1>14, <1>15, <1>16 DEF SerialInv

\* BookTrade: the trade joins the snapshot and the record at once.
LEMMA BookTradeKeeps ==
  ASSUME TypeOK, NEW i \in Instance, NEW k \in Slot, SerialInv(i), i \notin disturbed',
         BookTrade(i, k)
  PROVE  SerialInv(i)'
<1> DEFINE t == tick[i][k]
           id == IdOf(i, Current(t), t)
           v == [t EXCEPT !.book = @ \cup {id}]
           u == AfterTrade(v)
<1>0. t \in Tick /\ t.pc = "trade" /\ t.pc \in Working /\ id \in OrderId
  BY CurrentType DEF TypeOK, BookTrade, Working, Issuing
<1>1. /\ WorkingTickInv(i, k)
      /\ \A k1 \in Slot : tick[i][k1].pc \in Working => k1 = k
  BY <1>0, SoleWorker
<1>2. tick'[i][k] = u /\ \A k1 \in Slot \ {k} : tick'[i][k1] = tick[i][k1]
  BY Resumed DEF BookTrade
<1>3. /\ t.bar > portfolio[i].bar /\ t.book = TradesOf(i)
      /\ t.left \subseteq t.intents /\ t.left # {}
      /\ \A d \in IssuedBy(t) : OrderFor(i, d, t) \in orders
  BY <1>0, <1>1 DEF WorkingTickInv
<1>4. v \in Tick
  BY <1>0 DEF Tick
<1>5. /\ v.bar = t.bar /\ v.book = t.book \cup {id} /\ v.left = t.left /\ v.intents = t.intents
      /\ v.ts = t.ts /\ v.pc = "trade"
  BY <1>0 DEF Tick
<1>6. /\ u.bar = t.bar /\ u.book = t.book \cup {id} /\ u.ts = t.ts /\ u.intents = t.intents
      /\ u.pc \in {"trade", "commit"} /\ u.left \subseteq t.intents
      /\ (u.pc = "trade" => u.left # {}) /\ IssuedBy(u) = IssuedBy(v)
  BY <1>3, <1>4, <1>5, AfterTradeFacts
<1>7. IssuedBy(u) = t.intents /\ IssuedBy(t) = t.intents
  BY <1>0, <1>5, <1>6 DEF IssuedBy
<1>8. u.pc \in Issuing /\ u.pc \in Working
  BY <1>6 DEF Issuing, Working
<1>9. k \in WorkingOn(i)' /\ (\A k1 \in WorkingOn(i)' : k1 = k) /\ (\A k1 \in WorkingOn(i) : k1 = k)
  BY <1>1, <1>2, <1>8 DEF WorkingOn
<1>10. UNCHANGED <<portfolio, runtime, orders>> /\ trades' = trades \cup {id}
  BY DEF BookTrade, Disturb
<1>11. \A d : OrderFor(i, d, u) = OrderFor(i, d, t)
  BY <1>6, SameOrderFor
<1>12. TradesOf(i)' = TradesOf(i) \cup {id}
  BY <1>10 DEF TradesOf, IdOf
<1>13. WorkingTickInv(i, k)'
  <2>1. tick'[i][k].bar > portfolio'[i].bar /\ tick'[i][k].book = TradesOf(i)'
    BY <1>2, <1>3, <1>6, <1>10, <1>12
  <2>2. \A d \in IssuedBy(tick'[i][k]) : OrderFor(i, d, tick'[i][k]) \in orders'
    BY <1>2, <1>3, <1>7, <1>10, <1>11
  <2>3. /\ tick'[i][k].left \subseteq tick'[i][k].intents
        /\ tick'[i][k].pc \in {"order", "send", "trade"} => tick'[i][k].left # {}
        /\ tick'[i][k].pc # "persist"
    BY <1>2, <1>6
  <2>4. QED BY <2>1, <2>2, <2>3 DEF WorkingTickInv
<1>14. OrderInv(i)'
  <2>1. ASSUME NEW o \in orders', o.id.inst = i
        PROVE  \/ o.bar <= portfolio'[i].bar
               \/ \E d \in IssuedBy(tick'[i][k]) : o = OrderFor(i, d, tick'[i][k])
    <3>1. \/ o.bar <= portfolio[i].bar
          \/ \E d \in IssuedBy(t) : o = OrderFor(i, d, t)
      BY <2>1, <1>9, <1>10 DEF SerialInv, OrderInv
    <3>2. QED BY <3>1, <1>2, <1>7, <1>10, <1>11
  <2>2. QED BY <2>1, <1>9 DEF OrderInv
<1>15. OnceInv(i)'
  BY <1>10 DEF SerialInv, OnceInv
<1>16. BookInv(i)'
  <2>1. Current(t) \in IssuedBy(t)
    BY <1>0, <1>3, <1>7, CurrentInLeft
  <2>2. OrderFor(i, Current(t), t) \in orders /\ OrderFor(i, Current(t), t).id = id
    BY <2>1, <1>3 DEF OrderFor
  <2>3. id \in Logged
    BY <2>2 DEF Logged
  <2>4. Logged' = Logged
    BY <1>10 DEF Logged
  <2>5. TradesOf(i)' \subseteq Logged'
    BY <2>3, <2>4, <1>12 DEF SerialInv, BookInv
  <2>6. \E k1 \in Slot : tick'[i][k1].pc \in Issuing
    BY <1>2, <1>8
  <2>7. QED BY <2>5, <2>6 DEF BookInv
<1>17. TimerInv(i)'
  <2>1. runtime[i].macroBar = 0
        \/ \E o \in orders : o.id.inst = i /\ o.id.engine = "MACRO" /\ o.bar = runtime[i].macroBar
    BY <1>7, <1>9 DEF SerialInv, TimerInv
  <2>2. QED BY <2>1, <1>10 DEF TimerInv
<1>18. QED BY <1>9, <1>13, <1>14, <1>15, <1>16, <1>17 DEF SerialInv

\* CommitTick: the row now accounts for the trades and closes the bar.
LEMMA CommitTickKeeps ==
  ASSUME TypeOK, NEW i \in Instance, NEW k \in Slot, SerialInv(i), i \notin disturbed',
         CommitTick(i, k)
  PROVE  SerialInv(i)' /\ portfolio'[i].bar > portfolio[i].bar
<1> DEFINE t == tick[i][k]
<1>0. t \in Tick /\ t.pc = "commit" /\ t.pc \in Working
  BY DEF TypeOK, CommitTick, Working, Issuing
<1>1. /\ WorkingTickInv(i, k)
      /\ \A k1 \in Slot : tick[i][k1].pc \in Working => k1 = k
  BY <1>0, SoleWorker
<1>2. tick'[i][k] = Idle /\ \A k1 \in Slot \ {k} : tick'[i][k1] = tick[i][k1]
  BY Resumed DEF CommitTick
<1>3. Idle.pc \notin Working
  BY DEF Idle, Working, Issuing
<1>4. t.bar > portfolio[i].bar /\ t.book = TradesOf(i)
  BY <1>1 DEF WorkingTickInv
<1>5. WorkingOn(i)' = {} /\ (\A k1 \in WorkingOn(i) : k1 = k)
  BY <1>1, <1>2, <1>3 DEF WorkingOn
<1>6. UNCHANGED <<runtime, orders, trades>>
  BY DEF CommitTick
<1>7. portfolio'[i].bar = t.bar /\ portfolio'[i].book = t.book
  BY DEF CommitTick, Disturb, CommitRow, TypeOK
<1>8. t.bar \in Nat /\ portfolio[i].bar \in Nat /\ \A o \in orders : o.bar \in Nat
  BY <1>0 DEF TypeOK, Tick, Portfolio, Order, Bar
<1>9. IssuedBy(t) = t.intents
  BY <1>0 DEF IssuedBy
<1>10. OrderInv(i)'
  <2>1. ASSUME NEW o \in orders, o.id.inst = i PROVE o.bar <= t.bar
    <3>1. \/ o.bar <= portfolio[i].bar
          \/ \E d \in IssuedBy(t) : o = OrderFor(i, d, t)
      BY <2>1, <1>5 DEF SerialInv, OrderInv
    <3>2. \A d : OrderFor(i, d, t).bar = t.bar
      BY DEF OrderFor
    <3>3. QED BY <3>1, <3>2, <1>4, <1>8
  <2>2. QED BY <2>1, <1>6, <1>7 DEF OrderInv
<1>11. OnceInv(i)' /\ BookInv(i)'
  <2>1. portfolio'[i].book = TradesOf(i)' /\ TradesOf(i)' \subseteq Logged'
    BY <1>4, <1>6, <1>7 DEF SerialInv, BookInv, TradesOf, Logged
  <2>2. QED BY <2>1, <1>6 DEF SerialInv, OnceInv, BookInv
<1>12. TimerInv(i)'
  <2>1. runtime[i].macroBar = 0
        \/ \E o \in orders : o.id.inst = i /\ o.id.engine = "MACRO" /\ o.bar = runtime[i].macroBar
    BY <1>5, <1>9 DEF SerialInv, TimerInv
  <2>2. QED BY <2>1, <1>6 DEF TimerInv
<1>13. SerialInv(i)'
  BY <1>5, <1>10, <1>11, <1>12 DEF SerialInv
<1>14. QED BY <1>4, <1>7, <1>13

-----------------------------------------------------------------------------
(* The four guarantees                                                      *)

\* A step of a goroutine keeps what holds of an undisturbed instance.
LEMMA SerialTickStep ==
  ASSUME TypeOK, NEW i \in Instance, SerialInv(i), i \notin disturbed',
         NEW j \in Instance, NEW k \in Slot, TickStep(j, k)
  PROVE  SerialInv(i)' /\ portfolio'[i].bar >= portfolio[i].bar
<1>0. portfolio[i].bar \in Nat
  BY DEF TypeOK, Portfolio, Bar
<1>1. CASE i # j
  <2>1. Untouched(i)
    BY <1>1, OtherInstanceUntouched
  <2>2. QED BY <2>1, <1>0, UntouchedKeeps DEF Untouched
<1>2. CASE i = j
  <2>1. CASE AbortTick(i, k) \/ SkipBar(i, k) \/ RunStepFails(i, k) \/ LoadBar(i, k)
    <3>1. Untouched(i)
      BY <2>1, UndecidedUntouched
    <3>2. QED BY <3>1, <1>0, UntouchedKeeps DEF Untouched
  <2>u. portfolio' = portfolio => portfolio'[i].bar >= portfolio[i].bar
    BY <1>0
  <2>2. CASE LoadPortfolio(i, k)
    <3>1. portfolio' = portfolio
      BY <2>2 DEF LoadPortfolio, rows
    <3>2. SerialInv(i)'
      BY <2>2, LoadPortfolioKeeps
    <3>3. QED BY <3>1, <3>2, <2>u
  <2>3. CASE RunStep(i, k)
    <3>1. portfolio' = portfolio
      BY <2>3 DEF RunStep, rows
    <3>2. SerialInv(i)'
      BY <2>3, RunStepKeeps
    <3>3. QED BY <3>1, <3>2, <2>u
  <2>4. CASE PersistRuntime(i, k)
    <3>1. portfolio' = portfolio
      BY <2>4 DEF PersistRuntime
    <3>2. SerialInv(i)'
      BY <2>4, PersistRuntimeKeeps
    <3>3. QED BY <3>1, <3>2, <2>u
  <2>5. CASE WriteOrder(i, k)
    <3>1. portfolio' = portfolio
      BY <2>5 DEF WriteOrder
    <3>2. SerialInv(i)'
      BY <2>5, WriteOrderKeeps
    <3>3. QED BY <3>1, <3>2, <2>u
  <2>6. CASE RejectOrder(i, k)
    BY <2>6 DEF RejectOrder, Disturb
  <2>7. CASE SendCommand(i, k)
    <3>1. portfolio' = portfolio
      BY <2>7 DEF SendCommand
    <3>2. SerialInv(i)'
      BY <2>7, SendCommandKeeps
    <3>3. QED BY <3>1, <3>2, <2>u
  <2>8. CASE BookTrade(i, k)
    <3>1. portfolio' = portfolio
      BY <2>8 DEF BookTrade
    <3>2. SerialInv(i)'
      BY <2>8, BookTradeKeeps
    <3>3. QED BY <3>1, <3>2, <2>u
  <2>9. CASE SkipTrade(i, k)
    <3>1. portfolio' = portfolio
      BY <2>9 DEF SkipTrade, rows
    <3>2. SerialInv(i)'
      BY <2>9, SkipTradeKeeps
    <3>3. QED BY <3>1, <3>2, <2>u
  <2>10. CASE CommitTick(i, k)
    <3>1. portfolio'[i].bar > portfolio[i].bar /\ SerialInv(i)'
      BY <2>10, CommitTickKeeps
    <3>2. portfolio'[i].bar \in Nat
      BY TickStepType, <1>2 DEF TypeOK, Portfolio, Bar
    <3>3. QED BY <3>1, <3>2, <1>0
  <2>11. QED BY <1>2, <2>1, <2>2, <2>3, <2>4, <2>5, <2>6, <2>7, <2>8, <2>9, <2>10 DEF TickStep
<1>3. QED BY <1>1, <1>2

\* disturbed only grows.
LEMMA DisturbedGrows ==
  ASSUME [Next]_vars
  PROVE  disturbed \subseteq disturbed'
<1> USE DEF Disturb
<1>1. ASSUME NEW i \in Instance, NEW k \in Slot, TickStep(i, k)
      PROVE  disturbed \subseteq disturbed'
  BY <1>1 DEF TickStep, AbortTick, LoadBar, SkipBar, LoadPortfolio, RunStep, RunStepFails,
              PersistRuntime, WriteOrder, RejectOrder, SendCommand, BookTrade, SkipTrade, CommitTick
<1>2. ASSUME NEW i \in Instance, LifecycleStep(i)
      PROVE  disturbed \subseteq disturbed'
  BY <1>2 DEF LifecycleStep, CreateInstance, CreatePortfolio, StartInstance, StopInstance,
              DeleteInstance, SetStatus
<1>3. CASE ServerStep \/ EnvStep
  BY <1>3 DEF ServerStep, Shutdown, Exit, Restart, Scan, EnvStep, NewBar, TimePasses,
              AgentConnects, AgentLeaves
<1>4. CASE UNCHANGED vars
  BY <1>4 DEF vars
<1>5. QED BY <1>1, <1>2, <1>3, <1>4 DEF Next

LEMMA UndisturbedStep ==
  ASSUME TypeOK, UndisturbedInv, [Next]_vars
  PROVE  /\ UndisturbedInv'
         /\ \A i \in Instance \ disturbed' : portfolio'[i].bar >= portfolio[i].bar
<1>1. SUFFICES ASSUME NEW i \in Instance, i \notin disturbed'
               PROVE  SerialInv(i)' /\ portfolio'[i].bar >= portfolio[i].bar
  BY DEF UndisturbedInv
<1>2. SerialInv(i)
  BY <1>1, DisturbedGrows DEF UndisturbedInv
<1>3. portfolio[i].bar \in Nat
  BY DEF TypeOK, Portfolio, Bar
<1>4. CASE UNCHANGED vars
  <2>1. Untouched(i)
    BY <1>4 DEF vars, Untouched, TradesOf
  <2>2. QED BY <2>1, <1>2, <1>3, UntouchedKeeps DEF Untouched
<1>5. CASE (\E j \in Instance : LifecycleStep(j)) \/ ServerStep \/ EnvStep
  <2>1. Untouched(i)
    BY <1>1, <1>5, OtherStepUntouched
  <2>2. QED BY <2>1, <1>2, <1>3, UntouchedKeeps DEF Untouched
<1>6. ASSUME NEW j \in Instance, NEW k \in Slot, TickStep(j, k)
      PROVE  SerialInv(i)' /\ portfolio'[i].bar >= portfolio[i].bar
  BY <1>1, <1>2, <1>6, SerialTickStep
<1>7. QED BY <1>4, <1>5, <1>6 DEF Next

LEMMA UndisturbedInit ==
  ASSUME Init
  PROVE  UndisturbedInv
<1>1. \A i \in Instance : WorkingOn(i) = {}
  BY DEF Init, WorkingOn, Idle, Working, Issuing
<1>2. orders = {} /\ \A i \in Instance : TradesOf(i) = {} /\ portfolio[i].book = {} /\ runtime[i].macroBar = 0
  BY DEF Init, TradesOf, NoRuntime
<1>3. QED
  BY <1>1, <1>2 DEF UndisturbedInv, SerialInv, OrderInv, OnceInv, BookInv, TimerInv

\* What the theorems below share: an undisturbed instance has at most one working
\* tick, and every row is where that tick left it.
THEOREM Undisturbed == Spec => []UndisturbedInv
<1>1. Init => UndisturbedInv
  BY UndisturbedInit
<1>2. TypeOK /\ UndisturbedInv /\ [Next]_vars => UndisturbedInv'
  BY UndisturbedStep
<1>3. QED BY <1>1, <1>2, Typing, PTL DEF Spec

\* A bar yields at most one order per engine of an undisturbed instance: the bucket
\* deduplication of Manager.Tick and the commit of last_processed_bar_time agree.
THEOREM Once == Spec => []OncePerBar
<1>1. TypeOK /\ UndisturbedInv => OncePerBar
  <2>1. SUFFICES ASSUME TypeOK, UndisturbedInv, NEW o1 \in orders, NEW o2 \in orders,
                        o1.id.inst = o2.id.inst, o1.id.engine = o2.id.engine,
                        o1.bar = o2.bar, o1.id.inst \notin disturbed
                 PROVE  o1 = o2
    BY DEF OncePerBar
  <2>2. o1.id.inst \in Instance
    BY <2>1 DEF TypeOK, Order, OrderId
  <2>3. OnceInv(o1.id.inst)
    BY <2>1, <2>2 DEF UndisturbedInv, SerialInv
  <2>4. QED BY <2>1, <2>3 DEF OnceInv
<1>2. QED BY <1>1, Typing, Undisturbed, PTL

\* Between two ticks, the balances of an undisturbed instance account for exactly the
\* trades on record, each of them backed by a logged order.
THEOREM Ledger == Spec => []LedgerAgrees
<1>1. UndisturbedInv => LedgerAgrees
  BY DEF UndisturbedInv, SerialInv, BookInv, LedgerAgrees, Settled, TradesOf
<1>2. QED BY <1>1, Undisturbed, PTL

\* Between two ticks, the macro timer of an undisturbed instance is backed by a macro
\* order of its bar.
THEOREM Timer == Spec => []TimerBacked
<1>1. UndisturbedInv => TimerBacked
  BY DEF UndisturbedInv, SerialInv, TimerInv, TimerBacked, Settled, WorkingOn
<1>2. QED BY <1>1, Undisturbed, PTL

\* No step sets last_processed_bar_time of an undisturbed instance back.
THEOREM Forward == Spec => BarMovesForward
<1>1. TypeOK /\ UndisturbedInv /\ [Next]_vars =>
        [\A i \in Instance \ disturbed' : portfolio'[i].bar >= portfolio[i].bar]_vars
  BY UndisturbedStep
<1>2. QED BY <1>1, Typing, Undisturbed, PTL DEF Spec, BarMovesForward
=============================================================================
