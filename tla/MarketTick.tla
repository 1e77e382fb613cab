----------------------------- MODULE MarketTick -----------------------------
(***************************************************************************)
(* One instance that trades on the rows and the price of MarketFeed: what  *)
(* Manager.Tick reads from the market, decides, books and saves.  Here the *)
(* ticks come one after the other; InstanceTick has their overlap.         *)
(*                                                                         *)
(* Of Step the early return and the base trigger of the macro engine are   *)
(* modelled, the scheduled buy when so many bars have passed since the     *)
(* last macro order.  The market state stretches that interval and is free *)
(* at every decision; the other triggers and the micro engine want         *)
(* whatever fits their limits.  The first bar is the one with which Step   *)
(* has enough of them (step.go:16).                                        *)
(***************************************************************************)
EXTENDS MarketFeed, LiveLedger

CONSTANTS
  Window,     \* rows the tick reads
  Interval,   \* MacroIntervalDays, in bars
  Capital,    \* cash at the start
  Inject,     \* MonthlyInject
  Order       \* sizes of the other orders to choose from

ASSUME TickAssumption ==
  /\ Window \in Nat \ {0} /\ Interval \in Nat \ {0}
  /\ Capital \in Nat /\ Inject \in Nat /\ Inject >= 100 /\ Order \subseteq Nat \ {0}

VARIABLES
  portfolio,   \* portfolio_states: the balances and last_processed_bar_time
  timer,       \* runtime_states: LastMacroAction
  macroAt,     \* history: newest row when the timer was set
  onRecord,    \* what trade_records say of the cash and of the dead stack
  tick,        \* the goroutine, with the row in its memory
  partial      \* history: a tick was cut short, or a write of it rejected

tickVars == <<portfolio, timer, macroAt, onRecord, tick, partial>>
vars == <<feedVars, faults, restarts, tickVars>>

\* last is the last timestamp of the rows that the tick has read, 0 when it has none.  History,
\* until the macro order is booked: the newest row when the tick read them, whether its query
\* failed (cut) and whether a scheduled buy was owed when it decided.
Idle == [pc |-> "idle", bar |-> 0, p |-> Opening(Capital), last |-> 0, newest |-> 0,
         cut |-> FALSE, owed |-> FALSE, price |-> 0, macro |-> 0, micro |-> 0]

Init ==
  /\ FeedInit
  /\ portfolio = [p |-> Opening(Capital), bar |-> 0]
  /\ timer = 0
  /\ macroAt = 0
  /\ onRecord = [cash |-> 0, dead |-> 0]
  /\ tick = Idle
  /\ partial = FALSE

-----------------------------------------------------------------------------
Fails == faults < MaxFault /\ faults' = faults + 1
RunsOr(failed) == IF failed THEN Fails ELSE UNCHANGED faults
Mark(cut) == partial' = (partial \/ cut)

NewBar == klines # {} /\ Max(klines) > portfolio.bar

LoadRows ==
  /\ serving
  /\ tick.pc = "idle"
  /\ NewBar
  /\ tick' = [Idle EXCEPT !.pc = "read", !.bar = Max(klines), !.p = portfolio.p]
  /\ UNCHANGED <<feedVars, faults, restarts, portfolio, timer, macroAt, onRecord, partial>>

\* ORDER BY open_time ASC LIMIT 500: the window is the oldest rows.  The error of the query
\* is not looked at: one that fails has returned fewer of them, or none.
OldestRows(n) == {b \in klines : Cardinality({a \in klines : a < b}) < n}
WindowRows(n, failed) == IF failed THEN OldestRows(n) ELSE OldestRows(Window)

ReadWindow(n, failed) ==
  LET rows == WindowRows(n, failed) IN
  /\ tick.pc = "read"
  /\ RunsOr(failed)
  /\ tick' = [tick EXCEPT !.pc = "decide", !.last = IF rows = {} THEN 0 ELSE Max(rows),
                          !.newest = Max(klines), !.cut = failed]
  /\ UNCHANGED <<feedVars, restarts, portfolio, timer, macroAt, onRecord, partial>>

\* The price in memory, or the last close of the window, or none.
PossiblePrices == IF lastC > 0 THEN {lastC} ELSE IF tick.last > 0 THEN Close ELSE {0}

\* TimeDilationMultiplier in halves: panic, bear, quiet, bull.
TimeDilation == 0 .. 3

\* The base trigger.  Days count to the last row of the window, "never" is zero of them, and
\* panic switches the trigger off.
Elapsed == IF timer > 0 THEN tick.last - timer ELSE 0
NeverDue(dilation) == FALSE   \* mutant: the base trigger is lost
Due(dilation) == dilation > 0 /\ 2 * Elapsed >= Interval * dilation

\* The same trigger by the bars there are since the last macro order.
Owed(dilation) ==
  macroAt > 0 /\ dilation > 0 /\ 2 * (tick.newest - macroAt) >= Interval * dilation

\* Step, which orders nothing without rows, and the runtime row with the new timer, whose
\* error is not looked at.
Decide(price, dilation, macro, micro, failed) ==
  /\ tick.pc = "decide"
  /\ price \in PossiblePrices
  /\ IF tick.last > 0 /\ Due(dilation)
     THEN macro = Inject ELSE macro \in {0} \cup Order /\ macro <= tick.p.cash
  /\ micro <= tick.p.cash
  /\ tick.last = 0 => macro = 0 /\ micro = 0
  /\ RunsOr(failed)
  /\ timer' = IF macro > 0 /\ ~failed THEN tick.last ELSE timer
  /\ macroAt' = IF macro > 0 /\ ~failed THEN tick.newest ELSE macroAt
  /\ tick' = [tick EXCEPT !.pc = "macro", !.last = 0, !.newest = 0, !.owed = Owed(dilation),
                          !.price = price * usdCny, !.macro = macro, !.micro = micro]
  /\ UNCHANGED <<feedVars, restarts, portfolio, onRecord, partial>>

\* doTrade for the macro order, which is then forgotten ...
BookMacro(failed) ==
  /\ tick.pc = "macro"
  /\ RunsOr(failed)
  /\ failed => tick.macro > 0
  /\ tick' = [tick EXCEPT !.pc = "micro", !.p = BuyDead(@, tick.macro, tick.price),
                          !.cut = FALSE, !.owed = FALSE, !.macro = 0]
  /\ onRecord' = IF failed THEN onRecord ELSE [onRecord EXCEPT !.dead = @ + tick.macro]
  /\ Mark(failed)
  /\ UNCHANGED <<feedVars, restarts, portfolio, timer, macroAt>>

\* ... and for the micro order.
BookMicro(failed) ==
  /\ tick.pc = "micro"
  /\ RunsOr(failed)
  /\ failed => RecordedFlow(tick.p, tick.micro, tick.price) # 0
  /\ tick' = [tick EXCEPT !.pc = "commit", !.p = TradeFloat(@, tick.micro, tick.price),
                          !.micro = 0, !.price = 0]
  /\ onRecord' = IF failed THEN onRecord
                 ELSE [onRecord EXCEPT !.cash = @ + RecordedFlow(tick.p, tick.micro, tick.price)]
  /\ Mark(failed)
  /\ UNCHANGED <<feedVars, restarts, portfolio, timer, macroAt>>

\* One UPDATE for all balances and the processed bar.
Commit(failed) ==
  /\ tick.pc = "commit"
  /\ RunsOr(failed)
  /\ portfolio' = IF failed THEN portfolio ELSE [p |-> tick.p, bar |-> tick.bar]
  /\ tick' = Idle
  /\ Mark(failed)
  /\ UNCHANGED <<feedVars, restarts, timer, macroAt, onRecord>>

-----------------------------------------------------------------------------
FeedStep ==
  /\ \/ FeedLoop
     \/ StartFails
     \/ OpenBar
     \/ \E r \in Rate : RefreshRate(r)
  /\ UNCHANGED tickVars

TickStep ==
  \/ LoadRows
  \/ \E failed \in BOOLEAN :
       \/ \E n \in 0 .. Window : ReadWindow(n, failed)
       \/ \E price \in {0} \cup Close, dilation \in TimeDilation, macro \in {0, Inject} \cup Order,
             micro \in {0} \cup Order \cup {-a : a \in Order} :
             Decide(price, dilation, macro, micro, failed)
       \/ BookMacro(failed) \/ BookMicro(failed) \/ Commit(failed)

Exit ==
  /\ feed.pc # "down"
  /\ restarts < MaxRestart
  /\ StopFeed
  /\ tick' = Idle
  /\ Mark(tick.pc \in {"micro", "commit"})
  /\ UNCHANGED <<faults, restarts, portfolio, timer, macroAt, onRecord>>

Restart ==
  /\ feed.pc = "down"
  /\ StartFeed
  /\ restarts' = restarts + 1
  /\ UNCHANGED <<faults, tickVars>>

Next == FeedStep \/ TickStep \/ Exit \/ Restart

Spec == Init /\ [][Next]_vars

\* The loops of the service are timers, and the scan starts a tick every time it runs; what
\* either has begun goes on.  Of the fetches that are repeated at each refresh one succeeds in
\* the end.  Nothing is assumed of new bars, of forex rates, of the first fetch or of exits.
Fairness ==
  /\ WF_vars(FeedLoop /\ UNCHANGED tickVars)
  /\ WF_vars(TickStep)

FairSpec == Spec /\ Fairness

-----------------------------------------------------------------------------
(* Properties                                                               *)

\* The committed balances are sound whatever fails, crashes or moves in between, since a
\* single statement writes all of them (manager.go:347).
LedgerSound == Sound(portfolio.p, Capital)

\* While no tick was cut short and no write rejected, the cash and the dead stack can be
\* rebuilt from the trade records.
Explained(p) == p.cash = Capital + onRecord.cash /\ p.dead = onRecord.dead
RecordsReconcile == tick.pc = "idle" /\ ~partial => Explained(portfolio.p)

\* A scheduled buy is ordered when it is due, by the bars that have passed since the last
\* macro order and the market state of the moment (macro_engine.go:8); panic suspends it.
ScheduledBuy == tick.pc = "macro" /\ tick.owed => tick.macro > 0

\* It is, by every tick whose query has not failed, as long as the window takes in all rows
\* there are: neither a query that failed in an earlier tick nor a runtime row that was not
\* written, a panic or a restart puts it off any longer (manager.go:124, step.go:113).
AllRead == Cardinality(klines) <= Window /\ ~tick.cut
ScheduledInWindow == AllRead => ScheduledBuy


-----------------------------------------------------------------------------
(* Inductive invariants of the proofs                                       *)

Tick ==
  [pc : {"idle", "read", "decide", "macro", "micro", "commit"}, bar : 0 .. MaxBar,
   p : Balances, last : 0 .. MaxBar, newest : 0 .. MaxBar, cut : BOOLEAN,
   owed : BOOLEAN, price : Nat, macro : Nat, micro : Int]

\* Every variable keeps its type, there are rows when a tick reads them, and an order has a
\* price.
TypeOK ==
  /\ exchange \in 1 .. MaxBar
  /\ klines \in SUBSET (1 .. MaxBar)
  /\ lastC \in Close \cup {0}
  /\ usdCny \in Rate \cup {FallbackRate}
  /\ feed \in [pc : {"start", "storing", "waiting", "off", "down"},
               left : SUBSET (1 .. MaxBar)]
  /\ serving \in BOOLEAN
  /\ faults \in 0 .. MaxFault
  /\ restarts \in Nat
  /\ portfolio \in [p : Balances, bar : 0 .. MaxBar]
  /\ timer \in 0 .. MaxBar
  /\ macroAt \in 0 .. MaxBar
  /\ onRecord \in [cash : Int, dead : Nat]
  /\ tick \in Tick
  /\ tick.pc = "read" => klines # {}
  /\ tick.pc \in {"macro", "micro"} => tick.price > 0 \/ (tick.macro = 0 /\ tick.micro = 0)
  /\ partial \in BOOLEAN

\* Sound are the balances in the row and those in the memory of the tick.
LedgerInv == Sound(portfolio.p, Capital) /\ Sound(tick.p, Capital)

\* The records explain the row until the tick books its first order, and what the tick has
\* in memory from then on.
RecordInv ==
  /\ tick.pc \in {"read", "decide", "macro"} => tick.p = portfolio.p
  /\ ~partial =>
       Explained(IF tick.pc \in {"micro", "commit"} THEN tick.p ELSE portfolio.p)

\* The timer is never ahead of the rows there were when it was set, and there were rows then.
\* A tick that has read all of them counts to the newest one, and orders what is owed.
TimerInv ==
  /\ timer <= macroAt
  /\ macroAt > 0 => timer > 0
  /\ tick.pc = "decide" => tick.last <= tick.newest /\ (AllRead => tick.last = tick.newest)
  /\ ScheduledInWindow

MarketInv == TypeOK /\ LedgerInv /\ RecordInv /\ TimerInv
=============================================================================
