----------------------------- MODULE TickReports -----------------------------
(***************************************************************************)
(* DeltaReportHandler (internal/saas/ws/portfolio.go) beside the ticks of  *)
(* InstanceTick, on the same rows.  Nothing calls the handler yet: the hub *)
(* only acknowledges reports.  The model connects it where doc/plan.md:724 *)
(* says it belongs: Process is called for every delta_report of a          *)
(* registered agent, once for each time the report arrives.                *)
(*                                                                         *)
(* Both writers save the portfolio row as a whole from what they read      *)
(* before.  The handler adds fills of its own to the holdings of a row:    *)
(* added[i] is that part of the row, next to portfolio[i].book, the trades *)
(* that ticks have booked.  Amounts and the cash, which a report replaces  *)
(* by the broker's, are left out.                                          *)
(***************************************************************************)
EXTENDS InstanceTick, FiniteSets

CONSTANTS
  Handler,     \* calls of Process that may be under way at the same time (bound)
  MaxReport    \* reports that arrive, redelivered ones included (bound)

ASSUME ReportAssumption == MaxReport \in Nat

\* A call of Process: the statement about to run, the order reported (none in the
\* snapshot a session starts with), and the row as read.
Booking == {"createTrade", "readHoldings", "saveHoldings"}
Call == [pc : {"readBalances", "saveBalances", "fillOrder"} \cup Booking,
         inst : Instance, order : SUBSET OrderId,
         row : Portfolio, added : SUBSET OrderId]
NoCall == [pc |-> "idle"]

VARIABLES
  added,      \* trades added to the holdings of the row by reports
  seen,       \* what a tick has loaded: the row, and this part of it
  filled,     \* spot_executions with status filled
  call,       \* call[h]: the report that h works on
  reports,    \* reports that have arrived
  credited,   \* history: how often a report's fill was added to holdings
  raced       \* history: instances with a row saved over a newer one, or a report
              \* cut short between its execution row and the holdings

reportVars == <<added, seen, filled, call, reports, credited, raced>>
allVars == <<vars, reportVars>>

ReportsInit ==
  /\ Init
  /\ added = [i \in Instance |-> {}]
  /\ seen = [i \in Instance |-> [k \in Slot |-> [row |-> portfolio[i], added |-> {}]]]
  /\ filled = {}
  /\ call = [h \in Handler |-> NoCall]
  /\ reports = 0
  /\ credited = [id \in OrderId |-> 0]
  /\ raced = {}

-----------------------------------------------------------------------------
\* The row of an instance with both parts of its holdings.
Row(i) == [row |-> portfolio[i], added |-> added[i]]

\* A save from a reading that is no longer the row loses what was saved in between.
RaceUnless(i, ok) == raced' = IF ok THEN raced ELSE raced \cup {i}

\* UPDATE portfolio_states at the end of a tick writes what the tick has loaded and
\* changed: the holdings with it, and so the fills added since then are lost.
LoadRow(i, k) ==
  /\ LoadPortfolio(i, k)
  /\ seen' = [seen EXCEPT ![i][k] = Row(i)]
  /\ UNCHANGED <<added, filled, call, reports, credited, raced>>

CommitRowAndFills(i, k) ==
  /\ CommitTick(i, k)
  /\ IF portfolio' = portfolio
     THEN UNCHANGED <<added, raced>>
     ELSE /\ added' = [added EXCEPT ![i] = seen[i][k].added]
          /\ RaceUnless(i, seen[i][k] = Row(i))
  /\ UNCHANGED <<seen, filled, call, reports, credited>>

OtherTickStep(i, k) ==
  /\ \/ AbortTick(i, k) \/ LoadBar(i, k) \/ SkipBar(i, k) \/ RunStep(i, k)
     \/ RunStepFails(i, k) \/ PersistRuntime(i, k) \/ WriteOrder(i, k) \/ RejectOrder(i, k)
     \/ SendCommand(i, k) \/ BookTrade(i, k) \/ SkipTrade(i, k)
  /\ UNCHANGED reportVars

\* Calls of Process vanish with the process.
ExitWithCalls ==
  /\ Exit
  /\ call' = [h \in Handler |-> NoCall]
  /\ raced' = raced \cup {call[h].inst : h \in {h \in Handler : call[h].pc \in Booking}}
  /\ UNCHANGED <<added, seen, filled, reports, credited>>

-----------------------------------------------------------------------------
(* DeltaReportHandler.Process                                               *)

At(h, pc) == call[h].pc = pc /\ phase # "down"
Goto(h, pc) == call' = [call EXCEPT ![h].pc = pc]
Return(h) == call' = [call EXCEPT ![h] = NoCall]
FailsOnce == faults < MaxFault /\ faults' = faults + 1

\* A report of an order that reached the agent, or a snapshot.  Balances are missing when
\* the broker does not give them.
ReceiveReport(h, i) ==
  /\ phase = "up"
  /\ online
  /\ call[h] = NoCall
  /\ reports < MaxReport
  /\ reports' = reports + 1
  /\ \E order \in {{}} \cup {{id} : id \in {o \in OrderId : o.inst = i /\ sends[o] > 0}},
        pc \in {"readBalances", "fillOrder"} :
       /\ order = {} => pc = "readBalances"
       /\ call' = [call EXCEPT ![h] =
            [pc |-> pc, inst |-> i, order |-> order, row |-> portfolio[i], added |-> {}]]
  /\ UNCHANGED <<vars, added, seen, filled, credited, raced>>

\* updateBalances, whose error is only logged: Process goes on with the execution.
AfterBalances(h) == IF call[h].order = {} THEN Return(h) ELSE Goto(h, "fillOrder")

ReadBalances(h) ==
  LET i == call[h].inst IN
  /\ At(h, "readBalances")
  /\ \/ /\ portfolio[i].exists
        /\ call' = [call EXCEPT ![h].pc = "saveBalances", ![h].row = portfolio[i],
                                ![h].added = added[i]]
        /\ UNCHANGED faults
     \/ ~portfolio[i].exists /\ AfterBalances(h) /\ UNCHANGED faults
     \/ FailsOnce /\ AfterBalances(h)
  /\ UNCHANGED <<lifeVars, rows, envVars, tick, disturbed, added, seen, filled, reports,
                 credited, raced>>

\* Save writes every column of the row read before, last_processed_bar_time included.
SaveRow(h, fills) ==
  LET i == call[h].inst
      read == [row |-> call[h].row, added |-> call[h].added] IN
  /\ portfolio' = [portfolio EXCEPT ![i] = call[h].row]
  /\ added' = [added EXCEPT ![i] = call[h].added \cup fills]
  /\ RaceUnless(i, read = Row(i))

SaveBalances(h) ==
  /\ At(h, "saveBalances")
  /\ \/ SaveRow(h, {}) /\ UNCHANGED faults
     \/ FailsOnce /\ UNCHANGED <<portfolio, added, raced>>
  /\ AfterBalances(h)
  /\ UNCHANGED <<lifeVars, runtime, orders, trades, sends, envVars, tick, disturbed, seen,
                 filled, reports, credited>>

\* processExecution: the execution row, which is there since only logged orders are sent,
\* becomes filled, whatever the report says of its status ...
FillOrder(h) ==
  /\ At(h, "fillOrder")
  /\ \/ /\ filled' = filled \cup call[h].order
        /\ Goto(h, "createTrade")
        /\ UNCHANGED faults
     \/ FailsOnce /\ Return(h) /\ UNCHANGED filled
  /\ UNCHANGED <<lifeVars, rows, envVars, tick, disturbed, added, seen, reports, credited,
                 raced>>

\* ... then the trade record, which the unique index refuses when a tick or an earlier
\* report has made it; Process returns.
BookDuplicate(h) == Goto(h, "readHoldings")   \* mutant: no return
AfterDuplicate(h) == Return(h)

CreateTrade(h) ==
  /\ At(h, "createTrade")
  /\ \/ /\ call[h].order \cap trades = {}
        /\ trades' = trades \cup call[h].order
        /\ Goto(h, "readHoldings")
        /\ UNCHANGED <<faults, raced>>
     \/ /\ call[h].order \subseteq trades
        /\ AfterDuplicate(h)
        /\ UNCHANGED <<trades, faults, raced>>
     \/ FailsOnce /\ Return(h) /\ RaceUnless(call[h].inst, FALSE) /\ UNCHANGED trades
  /\ UNCHANGED <<lifeVars, portfolio, runtime, orders, sends, envVars, tick, disturbed,
                 added, seen, filled, reports, credited>>

\* ... and last the holdings.  An error here leaves a trade that no retry will add.
ReadHoldings(h) ==
  LET i == call[h].inst IN
  /\ At(h, "readHoldings")
  /\ \/ /\ call' = [call EXCEPT ![h].pc = "saveHoldings", ![h].row = portfolio[i],
                                ![h].added = added[i]]
        /\ UNCHANGED <<faults, raced>>
     \/ FailsOnce /\ Return(h) /\ RaceUnless(i, FALSE)
  /\ UNCHANGED <<lifeVars, rows, envVars, tick, disturbed, added, seen, filled, reports,
                 credited>>

\* The fill joins the holdings.
NoFills(h) == {}   \* mutant: the lot type falls through the switch
Fills(h) == call[h].order

SaveHoldings(h) ==
  /\ At(h, "saveHoldings")
  /\ \/ /\ SaveRow(h, Fills(h))
        /\ credited' = [id \in OrderId |-> credited[id] + IF id \in Fills(h) THEN 1 ELSE 0]
        /\ UNCHANGED faults
     \/ /\ FailsOnce
        /\ RaceUnless(call[h].inst, FALSE)
        /\ UNCHANGED <<portfolio, added, credited>>
  /\ Return(h)
  /\ UNCHANGED <<lifeVars, runtime, orders, trades, sends, envVars, tick, disturbed, seen,
                 filled, reports>>

Process(h) ==
  \/ ReadBalances(h) \/ SaveBalances(h) \/ FillOrder(h)
  \/ CreateTrade(h) \/ ReadHoldings(h) \/ SaveHoldings(h)

-----------------------------------------------------------------------------
OtherStep ==
  /\ (\E i \in Instance : LifecycleStep(i)) \/ Shutdown \/ Restart \/ Scan \/ EnvStep
  /\ UNCHANGED reportVars

ReportsNext ==
  \/ OtherStep
  \/ ExitWithCalls
  \/ \E i \in Instance, k \in Slot :
       LoadRow(i, k) \/ CommitRowAndFills(i, k) \/ OtherTickStep(i, k)
  \/ \E h \in Handler, i \in Instance : ReceiveReport(h, i)
  \/ \E h \in Handler : Process(h)

ReportsSpec == ReportsInit /\ [][ReportsNext]_allVars

-----------------------------------------------------------------------------
(* Properties                                                               *)

\* However often a report is delivered, and whatever crashes, fails or overlaps on the
\* way, its fill is added to the holdings at most once (portfolio.go:140: the unique index
\* on the client order id of trade_records decides it).
CreditedOnce == \A id \in OrderId : credited[id] <= 1

\* When neither a tick nor a report is half-way, and none was cut short or saved over a
\* newer row, the holdings account for the trades on record, each once: what a tick has
\* booked no report has added too, and no filled order is missing.
Reported(i) == \A h \in Handler : call[h].pc \in Booking => call[h].inst # i
HoldingsAgree ==
  \A i \in Instance : Settled(i) /\ Reported(i) /\ i \notin raced =>
    /\ portfolio[i].book \cap added[i] = {}
    /\ portfolio[i].book \cup added[i] = {id \in trades : id.inst = i}
    /\ {id \in filled : id.inst = i} \subseteq trades

-----------------------------------------------------------------------------
(* Inductive invariants of the proofs                                        *)

\* Every variable of the handler keeps its type, next to those of the ticks.
ReportsTypeOK ==
  /\ TypeOK
  /\ added \in [Instance -> SUBSET OrderId]
  /\ seen \in [Instance -> [Slot -> [row : Portfolio, added : SUBSET OrderId]]]
  /\ filled \in SUBSET OrderId
  /\ call \in [Handler -> Call \cup {NoCall}]
  /\ reports \in 0 .. MaxReport
  /\ credited \in [OrderId -> Nat]
  /\ raced \in SUBSET Instance

\* A call reports an order of its own instance.  Once its trade record is made it is the
\* only call for that order ever to get so far, and the fill is not in the holdings yet.
Made == {"readHoldings", "saveHoldings"}
CallInv ==
  /\ \A h \in Handler : call[h] # NoCall => \A id \in call[h].order : id.inst = call[h].inst
  /\ \A h \in Handler : call[h].pc \in Made =>
       \A id \in call[h].order : id \in trades /\ credited[id] = 0
  /\ \A h1, h2 \in Handler :
       call[h1].pc \in Made /\ call[h2].pc \in Made /\ call[h1].order \cap call[h2].order # {}
         => h1 = h2
  /\ \A id \in OrderId : credited[id] <= 1 /\ (credited[id] = 1 => id \in trades)

\* Fills a call has still to add, and orders whose trade a call has still to make.
CalledFor(i, pcs) ==
  {id \in OrderId : \E h \in Handler :
     call[h].pc \in pcs /\ call[h].inst = i /\ id \in call[h].order}

\* Trades in the row, or in the copy of the row a tick is working on.
Held(i) ==
  {id \in OrderId : id \in portfolio[i].book \/ \E k \in WorkingOn(i) : id \in tick[i][k].book}

\* Every trade of an instance that was neither disturbed nor raced is in one place: with
\* the ticks, in the added holdings, or with the call that has just made its record.
SharedInv(i) ==
  /\ \A k1, k2 \in WorkingOn(i) : k1 = k2
  /\ \A k \in WorkingOn(i) :
       /\ portfolio[i].book \subseteq tick[i][k].book
       /\ tick[i][k].pc \notin Issuing => tick[i][k].book = portfolio[i].book
  /\ TradesOf(i) = Held(i) \cup added[i] \cup CalledFor(i, Made)
  /\ Held(i) \cap added[i] = {}
  /\ (Held(i) \cup added[i]) \cap CalledFor(i, Made) = {}
  /\ \A id \in filled : id.inst = i => id \in trades \cup CalledFor(i, {"createTrade"})

ReportsInv ==
  /\ CallInv
  /\ \A i \in Instance \ (disturbed \cup raced) : SharedInv(i)
=============================================================================
