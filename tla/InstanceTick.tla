---------------------------- MODULE InstanceTick ----------------------------
(***************************************************************************)
(* The SaaS side of a strategy instance: its lifecycle (REST handlers and  *)
(* the recovery at start-up), the cron scheduler that starts one goroutine *)
(* per RUNNING instance and scan, and Manager.Tick, the ten-step pipeline  *)
(* each goroutine runs.  A tick is a sequence of separate SQL statements   *)
(* (no transaction, no lock per instance), so every statement that another *)
(* tick can see is a step of its own, and the ticks of one instance        *)
(* interleave, are cut short by a crash or by the cancelled context of a   *)
(* shutdown, and meet failing writes.                                      *)
(*                                                                         *)
(* Data is abstracted to what decides these races: a bar is its number, a  *)
(* portfolio row is the bar it has processed and the set of trades booked  *)
(* into its balances (the row is overwritten as a whole, so a trade booked *)
(* by somebody else after the snapshot is lost), a runtime row is the bar  *)
(* of its last macro decision.                                             *)
(***************************************************************************)
EXTENDS Naturals

CONSTANTS
  Instance,     \* rows of strategy_instances
  Slot,         \* goroutines one instance may have at the same time (bound)
  MaxBar,       \* last bar of the model (bound)
  MaxClock,     \* last value of time.Now().Unix() (bound)
  MaxFault,     \* failing database statements (bound)
  MaxRestart,   \* restarts of the server (bound)
  MaxEvent,     \* start, stop and delete requests and agent disconnections (bound)
  SenderWired   \* whether SetCommandSender has been called

ASSUME ConstAssumption ==
  /\ MaxBar \in Nat
  /\ MaxClock \in Nat
  /\ MaxFault \in Nat
  /\ MaxRestart \in Nat
  /\ MaxEvent \in Nat
  /\ SenderWired \in BOOLEAN

Engine == {"MACRO", "MICRO"}
Bar == 0 .. MaxBar
Clock == 0 .. MaxClock

\* inst<id>-<engine>-<unix seconds>, unique in spot_executions and in trade_records
OrderId == [inst : Instance, engine : Engine, ts : Clock]

\* A spot_executions row.  bar, the bar the order was decided on, is not stored
\* by the code: it is kept here to state what the deduplication is for.
Order == [id : OrderId, bar : Bar]

Portfolio == [exists : BOOLEAN, bar : Bar, book : SUBSET OrderId]
Runtime == [exists : BOOLEAN, macroBar : Bar]

\* Program counters of a tick, named after the statement about to run.
Loading == {"loadBar", "loadPortfolio"}
Issuing == {"order", "send", "trade", "commit"}
Working == {"step", "persist"} \cup Issuing

\* A tick goroutine: the bar it handles, the portfolio and runtime rows it
\* loaded (as modified in memory), its second, the engines that want to trade
\* and those of them the current pass has not dealt with yet.
Tick == [pc : {"idle"} \cup Loading \cup Working, bar : Bar, book : SUBSET OrderId,
         rt : Runtime, hadRt : BOOLEAN, ts : Clock,
         intents : SUBSET Engine, left : SUBSET Engine]

NoRuntime == [exists |-> FALSE, macroBar |-> 0]
Idle == [pc |-> "idle", bar |-> 0, book |-> {}, rt |-> NoRuntime, hadRt |-> FALSE,
         ts |-> 0, intents |-> {}, left |-> {}]

VARIABLES
  status,      \* strategy_instances.status ("NONE": no row)
  creating,    \* create requests between their two inserts
  portfolio,   \* portfolio_states, one row per instance
  runtime,     \* runtime_states, one row per instance
  orders,      \* spot_executions
  trades,      \* trade_records, by client order id
  sends,       \* how often each command was written to the agent's socket
  tick,        \* tick[i][k]: the k-th goroutine of instance i
  newest,      \* open time of the newest row of k_lines
  clock,       \* time.Now().Unix()
  phase,       \* "up", "stopping" (context cancelled) or "down"
  online,      \* an authenticated agent is registered in the hub
  faults,      \* database statements that have failed so far
  restarts,    \* restarts so far
  events,      \* requests and disconnections so far
  disturbed    \* history: instances whose ticks overlapped, were cut short
               \* after deciding, or had a write rejected

lifeVars == <<status, creating, phase, restarts, events>>
envVars == <<newest, clock, online>>
rows == <<portfolio, runtime, orders, trades, sends>>
vars == <<status, creating, portfolio, runtime, orders, trades, sends, tick,
          newest, clock, phase, online, faults, restarts, events, disturbed>>

Init ==
  /\ status = [i \in Instance |-> "NONE"]
  /\ creating = {}
  /\ portfolio = [i \in Instance |-> [exists |-> FALSE, bar |-> 0, book |-> {}]]
  /\ runtime = [i \in Instance |-> NoRuntime]
  /\ orders = {}
  /\ trades = {}
  /\ sends = [id \in OrderId |-> 0]
  /\ tick = [i \in Instance |-> [k \in Slot |-> Idle]]
  /\ newest = 0
  /\ clock = 0
  /\ phase = "up"
  /\ online = FALSE
  /\ faults = 0
  /\ restarts = 0
  /\ events = 0
  /\ disturbed = {}

-----------------------------------------------------------------------------
(* Database statements.  A cancelled context fails all of them; otherwise   *)
(* one fails now and then.  The code drops the error of most writes.        *)

StatementRuns == phase = "up" /\ UNCHANGED faults
StatementFails ==
  \/ phase = "stopping" /\ UNCHANGED faults
  \/ phase = "up" /\ faults < MaxFault /\ faults' = faults + 1

Logged == {o.id : o \in orders}
IdOf(i, e, t) == [inst |-> i, engine |-> e, ts |-> t.ts]
Disturb(i) == disturbed' = disturbed \cup {i}
Live(i) == {k \in Slot : tick[i][k].pc # "idle"}
WorkingOn(i) == {k \in Slot : tick[i][k].pc \in Working}
Resume(i, k, t) == tick' = [tick EXCEPT ![i][k] = t]

-----------------------------------------------------------------------------
(* Lifecycle: the REST handlers and the start-up recovery.                  *)

\* handleCreateInstance inserts the instance row ...
CreateInstance(i) ==
  /\ phase = "up"
  /\ status[i] = "NONE"
  /\ status' = [status EXCEPT ![i] = "STOPPED"]
  /\ creating' = creating \cup {i}
  /\ UNCHANGED <<phase, restarts, events, rows, envVars, tick, faults, disturbed>>

\* ... and then, in a second statement whose error it ignores, the portfolio row.
CreatePortfolio(i) ==
  /\ i \in creating
  /\ creating' = creating \ {i}
  /\ \/ /\ portfolio' = [portfolio EXCEPT ![i].exists = TRUE]
        /\ UNCHANGED faults
     \/ /\ faults < MaxFault
        /\ faults' = faults + 1
        /\ UNCHANGED portfolio
  /\ UNCHANGED <<status, phase, restarts, events, runtime, orders, trades, sends, envVars, tick, disturbed>>

\* Requests in flight are still served while the server is stopping.
SetStatus(i, to) ==
  /\ phase # "down"
  /\ events < MaxEvent
  /\ events' = events + 1
  /\ status' = [status EXCEPT ![i] = to]
  /\ UNCHANGED <<creating, phase, restarts, rows, envVars, tick, faults, disturbed>>

StartableAnyStatus(i) == status[i] # "NONE"   \* mutant: WHERE without the status
Startable(i) == status[i] = "STOPPED"

StartInstance(i) == Startable(i) /\ SetStatus(i, "RUNNING")
StopInstance(i) == status[i] = "RUNNING" /\ SetStatus(i, "STOPPED")
DeleteInstance(i) == status[i] # "NONE" /\ SetStatus(i, "DELETED")

\* SIGTERM: the scheduler stops and the context of the ticks is cancelled.  Nothing
\* waits for the ticks.
Shutdown ==
  /\ phase = "up"
  /\ restarts < MaxRestart
  /\ phase' = "stopping"
  /\ UNCHANGED <<status, creating, restarts, events, rows, envVars, tick, faults, disturbed>>

\* The process ends, by itself after a shutdown or in a crash: goroutines vanish.
Exit ==
  /\ phase # "down"
  /\ restarts < MaxRestart
  /\ phase' = "down"
  /\ creating' = {}
  /\ online' = FALSE
  /\ tick' = [i \in Instance |-> [k \in Slot |-> Idle]]
  /\ disturbed' = disturbed \cup
       {i \in Instance : \E k \in Slot : tick[i][k].pc \in Issuing}
  /\ UNCHANGED <<status, restarts, events, rows, newest, clock, faults>>

\* recoverRunningInstances: every RUNNING instance becomes STOPPED, but for those
\* whose statement fails.
Recovered(missed) ==
  [i \in Instance |-> IF status[i] = "RUNNING" /\ i \notin missed THEN "STOPPED" ELSE status[i]]

Restart ==
  /\ phase = "down"
  /\ restarts < MaxRestart
  /\ phase' = "up"
  /\ restarts' = restarts + 1
  /\ \E missed \in SUBSET {i \in Instance : status[i] = "RUNNING"} :
       /\ status' = Recovered(missed)
       /\ \/ missed = {} /\ UNCHANGED faults
          \/ missed # {} /\ faults < MaxFault /\ faults' = faults + 1
  /\ UNCHANGED <<creating, events, rows, envVars, tick, disturbed>>

-----------------------------------------------------------------------------
(* Scheduler.tick: one goroutine per RUNNING instance, whether or not the   *)
(* previous one is done.  The ticker keeps one tick in its channel, so two  *)
(* scans may follow each other at once; there is no lower bound on the gap. *)

Scan ==
  /\ phase = "up"
  /\ \E start \in [{i \in Instance : status[i] = "RUNNING"} -> Slot] :
       /\ \A i \in DOMAIN start : tick[i][start[i]].pc = "idle"
       /\ tick' = [i \in Instance |->
                     IF i \in DOMAIN start
                     THEN [tick[i] EXCEPT ![start[i]] = [Idle EXCEPT !.pc = "loadBar"]]
                     ELSE tick[i]]
  /\ UNCHANGED <<lifeVars, rows, envVars, faults, disturbed>>

-----------------------------------------------------------------------------
(* Manager.Tick                                                             *)

\* Steps 1 and 2 return on a read error.
AbortTick(i, k) ==
  /\ tick[i][k].pc \in Loading
  /\ StatementFails
  /\ Resume(i, k, Idle)
  /\ UNCHANGED <<lifeVars, rows, envVars, disturbed>>

LoadBar(i, k) ==
  /\ tick[i][k].pc = "loadBar"
  /\ StatementRuns
  /\ Resume(i, k, [tick[i][k] EXCEPT !.pc = "loadPortfolio", !.bar = newest])
  /\ UNCHANGED <<lifeVars, rows, envVars, disturbed>>

\* The deduplication compares with the row as it is now, not as it is at commit.
AlreadyProcessedStrict(i, bar) == bar < portfolio[i].bar   \* mutant: < for <=
AlreadyProcessedSame(i, bar) == bar = portfolio[i].bar     \* mutant: = for <=
AlreadyProcessed(i, bar) == bar <= portfolio[i].bar

SkipBar(i, k) ==
  /\ tick[i][k].pc = "loadPortfolio"
  /\ StatementRuns
  /\ ~portfolio[i].exists \/ AlreadyProcessed(i, tick[i][k].bar)
  /\ Resume(i, k, Idle)
  /\ UNCHANGED <<lifeVars, rows, envVars, disturbed>>

LoadPortfolio(i, k) ==
  /\ tick[i][k].pc = "loadPortfolio"
  /\ StatementRuns
  /\ portfolio[i].exists /\ ~AlreadyProcessed(i, tick[i][k].bar)
  /\ Resume(i, k, [tick[i][k] EXCEPT !.pc = "step", !.book = portfolio[i].book])
  /\ IF WorkingOn(i) = {} THEN UNCHANGED disturbed ELSE Disturb(i)
  /\ UNCHANGED <<lifeVars, rows, envVars>>

\* A macro order restarts the macro timer.
MacroTimerAlways(i, intents, bar) == bar   \* mutant: restarted by every decision
MacroTimer(i, intents, bar) == IF "MACRO" \in intents THEN bar ELSE runtime[i].macroBar

\* Loads the runtime row and runs Step, which may want a macro order, a micro order,
\* both or none.
RunStep(i, k) ==
  LET t == tick[i][k] IN
  /\ t.pc = "step"
  /\ StatementRuns
  /\ \E intents \in SUBSET Engine :
       Resume(i, k, [t EXCEPT
         !.pc = "persist", !.hadRt = runtime[i].exists, !.intents = intents, !.left = intents,
         !.rt = [exists |-> TRUE, macroBar |-> MacroTimer(i, intents, t.bar)]])
  /\ UNCHANGED <<lifeVars, rows, envVars, disturbed>>

\* A failing read of the runtime row ends the tick.
RunStepFails(i, k) ==
  /\ tick[i][k].pc = "step"
  /\ StatementFails
  /\ Resume(i, k, Idle)
  /\ UNCHANGED <<lifeVars, rows, envVars, disturbed>>

\* INSERT if the tick saw no row (refused by the unique index when another tick has
\* inserted it meanwhile), UPDATE otherwise.  The second the order ids carry is read
\* right after.
PersistRuntime(i, k) ==
  LET t == tick[i][k] IN
  /\ t.pc = "persist"
  /\ \/ /\ StatementRuns
        /\ runtime' = [runtime EXCEPT ![i] = IF ~t.hadRt /\ @.exists THEN @ ELSE t.rt]
        /\ UNCHANGED disturbed
     \/ /\ StatementFails
        /\ Disturb(i)
        /\ UNCHANGED runtime
  /\ Resume(i, k, [t EXCEPT !.pc = IF t.left = {} THEN "commit" ELSE "order", !.ts = clock])
  /\ UNCHANGED <<lifeVars, portfolio, orders, trades, sends, envVars>>

\* sendTradeCmd and doTrade are called for the macro intent first.
Current(t) == IF "MACRO" \in t.left THEN "MACRO" ELSE "MICRO"

\* The tick after its current engine: the next engine, or the trades of all of them
\* once every order is out, or the commit once every trade is booked.
AfterOrder(t) ==
  LET left == t.left \ {Current(t)} IN
  IF left = {} THEN [t EXCEPT !.pc = "trade", !.left = t.intents]
               ELSE [t EXCEPT !.pc = "order", !.left = left]
AfterTrade(t) ==
  LET left == t.left \ {Current(t)} IN
  [t EXCEPT !.pc = IF left = {} THEN "commit" ELSE "trade", !.left = left]

\* sendTradeCmd, first half: the pending spot_executions row.
WriteOrder(i, k) ==
  LET t == tick[i][k]
      id == IdOf(i, Current(t), t)
  IN
  /\ t.pc = "order"
  /\ id \notin Logged
  /\ StatementRuns
  /\ orders' = orders \cup {[id |-> id, bar |-> t.bar]}
  /\ Resume(i, k, [t EXCEPT !.pc = "send"])
  /\ UNCHANGED <<lifeVars, portfolio, runtime, trades, sends, envVars, disturbed>>

\* A rejected row (duplicate id, or a failing statement) returns before the send ...
SendRejectedOrder(t) == [t EXCEPT !.pc = "send"]   \* mutant: no return
AfterRejectedOrder(t) == AfterOrder(t)

RejectOrder(i, k) ==
  LET t == tick[i][k] IN
  /\ t.pc = "order"
  /\ \/ IdOf(i, Current(t), t) \in Logged /\ StatementRuns
     \/ StatementFails
  /\ Resume(i, k, AfterRejectedOrder(t))
  /\ Disturb(i)
  /\ UNCHANGED <<lifeVars, rows, envVars>>

\* ... and so only a logged command is handed to the hub, if there is a sender and the
\* agent is registered.  Otherwise a warning is logged and the tick goes on.
SendCommand(i, k) ==
  LET t == tick[i][k] IN
  /\ t.pc = "send"
  /\ sends' = IF SenderWired /\ online
              THEN [sends EXCEPT ![IdOf(i, Current(t), t)] = @ + 1]
              ELSE sends
  /\ Resume(i, k, AfterOrder(t))
  /\ UNCHANGED <<lifeVars, portfolio, runtime, orders, trades, envVars, faults, disturbed>>

\* doTrade books the order into the loaded snapshot and inserts a trade_records row,
\* whose error is ignored.
BookTrade(i, k) ==
  LET t == tick[i][k]
      id == IdOf(i, Current(t), t)
  IN
  /\ t.pc = "trade"
  /\ Resume(i, k, AfterTrade([t EXCEPT !.book = @ \cup {id}]))
  /\ \/ /\ StatementRuns
        /\ trades' = trades \cup {id}
        /\ IF id \in trades THEN Disturb(i) ELSE UNCHANGED disturbed
     \/ /\ StatementFails
        /\ Disturb(i)
        /\ UNCHANGED trades
  /\ UNCHANGED <<lifeVars, portfolio, runtime, orders, sends, envVars>>

\* A floating order capped to nothing by the cash or the position changes nothing.
SkipTrade(i, k) ==
  LET t == tick[i][k] IN
  /\ t.pc = "trade"
  /\ Current(t) = "MICRO"
  /\ Resume(i, k, AfterTrade(t))
  /\ UNCHANGED <<lifeVars, rows, envVars, faults, disturbed>>

\* The row is overwritten with absolute values, without a condition on what it holds.
CommitRowOldBar(i, t) == [portfolio[i] EXCEPT !.book = t.book]   \* mutant: bar not stored
CommitRowOldBook(i, t) == [portfolio[i] EXCEPT !.bar = t.bar]    \* mutant: balances not stored
CommitRow(i, t) == [exists |-> TRUE, bar |-> t.bar, book |-> t.book]

CommitTick(i, k) ==
  LET t == tick[i][k] IN
  /\ t.pc = "commit"
  /\ \/ /\ StatementRuns
        /\ portfolio' = [portfolio EXCEPT ![i] = CommitRow(i, t)]
        /\ UNCHANGED disturbed
     \/ /\ StatementFails
        /\ Disturb(i)
        /\ UNCHANGED portfolio
  /\ Resume(i, k, Idle)
  /\ UNCHANGED <<lifeVars, runtime, orders, trades, sends, envVars>>

TickStep(i, k) ==
  \/ AbortTick(i, k) \/ LoadBar(i, k) \/ SkipBar(i, k) \/ LoadPortfolio(i, k)
  \/ RunStep(i, k) \/ RunStepFails(i, k) \/ PersistRuntime(i, k)
  \/ WriteOrder(i, k) \/ RejectOrder(i, k) \/ SendCommand(i, k)
  \/ BookTrade(i, k) \/ SkipTrade(i, k) \/ CommitTick(i, k)

-----------------------------------------------------------------------------
(* Environment: market data, time, and the agent's connection.              *)

NewBar ==
  /\ phase = "up"
  /\ newest < MaxBar
  /\ newest' = newest + 1
  /\ UNCHANGED <<lifeVars, rows, clock, online, tick, faults, disturbed>>

TimePasses ==
  /\ clock < MaxClock
  /\ clock' = clock + 1
  /\ UNCHANGED <<lifeVars, rows, newest, online, tick, faults, disturbed>>

AgentConnects ==
  /\ phase = "up"
  /\ ~online
  /\ online' = TRUE
  /\ UNCHANGED <<lifeVars, rows, newest, clock, tick, faults, disturbed>>

AgentLeaves ==
  /\ online
  /\ events < MaxEvent
  /\ events' = events + 1
  /\ online' = FALSE
  /\ UNCHANGED <<status, creating, phase, restarts, rows, newest, clock, tick, faults, disturbed>>

-----------------------------------------------------------------------------
LifecycleStep(i) ==
  \/ CreateInstance(i) \/ CreatePortfolio(i)
  \/ StartInstance(i) \/ StopInstance(i) \/ DeleteInstance(i)

ServerStep == Shutdown \/ Exit \/ Restart \/ Scan

EnvStep == NewBar \/ TimePasses \/ AgentConnects \/ AgentLeaves

Next ==
  \/ \E i \in Instance : LifecycleStep(i)
  \/ \E i \in Instance, k \in Slot : TickStep(i, k)
  \/ ServerStep
  \/ EnvStep

Spec == Init /\ [][Next]_vars

\* Goroutines run and the ticker fires.  Users, the agent, the market, the clock and
\* whoever restarts the server owe nothing.
Fairness ==
  /\ \A i \in Instance, k \in Slot : WF_vars(TickStep(i, k))
  /\ SF_vars(Scan)

FairSpec == Spec /\ Fairness

-----------------------------------------------------------------------------
(* Properties                                                               *)

\* Every variable keeps its type.
TypeOK ==
  /\ status \in [Instance -> {"NONE", "STOPPED", "RUNNING", "DELETED"}]
  /\ creating \in SUBSET Instance
  /\ portfolio \in [Instance -> Portfolio]
  /\ runtime \in [Instance -> Runtime]
  /\ orders \in SUBSET Order
  /\ trades \in SUBSET OrderId
  /\ sends \in [OrderId -> Nat]
  /\ tick \in [Instance -> [Slot -> Tick]]
  /\ newest \in Bar
  /\ clock \in Clock
  /\ phase \in {"up", "stopping", "down"}
  /\ online \in BOOLEAN
  /\ faults \in 0 .. MaxFault
  /\ restarts \in 0 .. MaxRestart
  /\ events \in 0 .. MaxEvent
  /\ disturbed \in SUBSET Instance

\* Whatever overlaps, crashes or fails, the commands the ticks hand to the hub obey
\* the outbox: logged before they leave, and no id leaves twice (the unique index on
\* client_order_id and the early return of sendTradeCmd carry this alone).
Outbox == INSTANCE CommandOutbox WITH logged <- Logged
ImplementsOutbox == Outbox!Spec

\* The bucket deduplication does its job for an instance whose ticks were not
\* disturbed: a bar yields at most one order per engine.
OncePerBar ==
  \A o1, o2 \in orders :
    /\ o1.id.inst = o2.id.inst
    /\ o1.id.engine = o2.id.engine
    /\ o1.bar = o2.bar
    /\ o1.id.inst \notin disturbed
    => o1 = o2

\* ... the balances account for exactly the trades on record, each backed by an
\* order, whenever no tick of the instance is between its decision and its commit ...
Settled(i) == i \notin disturbed /\ \A k \in Slot : tick[i][k].pc \notin Issuing
LedgerAgrees ==
  \A i \in Instance : Settled(i) =>
    /\ portfolio[i].book = {id \in trades : id.inst = i}
    /\ portfolio[i].book \subseteq Logged

\* ... the macro timer of the runtime row is backed by a macro order, so that a
\* scheduled investment is not skipped as already done ...
TimerBacked ==
  \A i \in Instance : Settled(i) /\ runtime[i].macroBar # 0 =>
    \E o \in orders : o.id.inst = i /\ o.id.engine = "MACRO" /\ o.bar = runtime[i].macroBar

\* ... and last_processed_bar_time never goes back.
BarMovesForward ==
  [][\A i \in Instance \ disturbed' : portfolio'[i].bar >= portfolio[i].bar]_vars

\* No request, tick or restart brings a deleted instance back.
DeletedIsFinal ==
  [][\A i \in Instance : status[i] = "DELETED" => status'[i] = "DELETED"]_vars

\* The newest bar is processed by an instance that stays RUNNING with a portfolio row,
\* although commits fail, crashes cut ticks short and overlapping ticks may set
\* last_processed_bar_time back.
BarCaughtUp ==
  \A i \in Instance :
    newest = MaxBar /\ status[i] = "RUNNING" /\ portfolio[i].exists
      ~> portfolio[i].bar = MaxBar \/ status[i] # "RUNNING" \/ phase # "up"

-----------------------------------------------------------------------------
(* Inductive invariants of the proofs                                       *)

\* A tick about to send holds the only claim on its id.
OutboxInv ==
  /\ \A id \in OrderId : sends[id] \in {0, 1} /\ (sends[id] = 1 => id \in Logged)
  /\ \A i \in Instance, k \in Slot : tick[i][k].pc = "send" =>
       LET id == IdOf(i, Current(tick[i][k]), tick[i][k])
       IN  id \in Logged /\ sends[id] = 0
  /\ \A i \in Instance, k1, k2 \in Slot :
       /\ tick[i][k1].pc = "send"
       /\ tick[i][k2].pc = "send"
       /\ IdOf(i, Current(tick[i][k1]), tick[i][k1]) = IdOf(i, Current(tick[i][k2]), tick[i][k2])
       => k1 = k2

\* The engines whose order a tick has logged, and the row of one of them.
IssuedBy(t) ==
  CASE t.pc = "order" -> t.intents \ t.left
    [] t.pc = "send" -> (t.intents \ t.left) \cup {Current(t)}
    [] t.pc \in {"trade", "commit"} -> t.intents
    [] OTHER -> {}
OrderFor(i, e, t) == [id |-> IdOf(i, e, t), bar |-> t.bar]
TradesOf(i) == {id \in trades : id.inst = i}

\* What a working tick knows about the rows of an undisturbed instance.
WorkingTickInv(i, k) ==
  LET t == tick[i][k] IN
  /\ t.bar > portfolio[i].bar
  /\ t.pc # "step" => t.left \subseteq t.intents
  /\ t.pc \in {"order", "send", "trade"} => t.left # {}
  /\ t.book = TradesOf(i)
  /\ \A e \in IssuedBy(t) : OrderFor(i, e, t) \in orders
  /\ t.pc = "persist" => /\ t.left = t.intents
                         /\ t.rt.macroBar = MacroTimer(i, t.intents, t.bar)

OrderInv(i) ==
  \A o \in orders : o.id.inst = i =>
    \/ o.bar <= portfolio[i].bar
    \/ \E k \in WorkingOn(i) : \E e \in IssuedBy(tick[i][k]) : o = OrderFor(i, e, tick[i][k])

TimerInv(i) ==
  \/ runtime[i].macroBar = 0
  \/ \E o \in orders : o.id.inst = i /\ o.id.engine = "MACRO" /\ o.bar = runtime[i].macroBar
  \/ \E k \in WorkingOn(i) :
       /\ tick[i][k].pc \in Issuing
       /\ "MACRO" \in tick[i][k].intents \ IssuedBy(tick[i][k])
       /\ runtime[i].macroBar = tick[i][k].bar

BookInv(i) ==
  /\ TradesOf(i) \subseteq Logged
  /\ (\A k \in Slot : tick[i][k].pc \notin Issuing) => portfolio[i].book = TradesOf(i)

OnceInv(i) ==
  \A o1, o2 \in orders :
    o1.id.inst = i /\ o2.id.inst = i /\ o1.id.engine = o2.id.engine /\ o1.bar = o2.bar => o1 = o2

SerialInv(i) ==
  /\ \A k1, k2 \in WorkingOn(i) : k1 = k2
  /\ \A k \in WorkingOn(i) : WorkingTickInv(i, k)
  /\ OrderInv(i)
  /\ OnceInv(i)
  /\ BookInv(i)
  /\ TimerInv(i)

UndisturbedInv == \A i \in Instance \ disturbed : SerialInv(i)
=============================================================================
