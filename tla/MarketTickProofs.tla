-------------------------- MODULE MarketTickProofs --------------------------
(***************************************************************************)
(* Proofs about the instance that trades on the market data service: its   *)
(* committed balances are sound, its trade records explain them, and the   *)
(* scheduled buy is ordered by every tick that has read all rows.          *)
(***************************************************************************)
EXTENDS MarketTick, WellFoundedInduction, FiniteSetTheorems, TLAPS

USE FeedAssumption, TickAssumption

-----------------------------------------------------------------------------
(* Largest and smallest                                                     *)

\* A set of natural numbers has a smallest member ...
LEMMA SmallestNat ==
  ASSUME NEW T, T \subseteq Nat, T # {}
  PROVE  \E x \in T : \A y \in T : x <= y
<1>1. PICK x \in T : \A y \in T : ~(<<y, x>> \in OpToRel(<, Nat))
  BY NatLessThanWellFounded, WFMin
<1>2. \A y \in T : ~(y < x)
  BY <1>1 DEF OpToRel
<1>3. QED BY <1>2

\* ... and a set of bars has both ends.
LEMMA BarsHaveEnds ==
  ASSUME NEW bars \in SUBSET (1 .. MaxBar), bars # {}
  PROVE  /\ Max(bars) \in bars
         /\ Min(bars) \in bars
         /\ \A b \in bars : b <= Max(bars) /\ Min(bars) <= b
<1> DEFINE T == {MaxBar - b : b \in bars}
<1>1. T \subseteq Nat /\ bars \subseteq Nat
  OBVIOUS
<1>2. T # {}
  <2>1. PICK b \in bars : TRUE
    OBVIOUS
  <2>2. MaxBar - b \in T
    OBVIOUS
  <2>3. QED BY <2>2
<1> HIDE DEF T
<1>3. PICK x \in T : \A y \in T : x <= y
  BY <1>1, <1>2, SmallestNat
<1> USE DEF T
<1>4. PICK newest \in bars : x = MaxBar - newest
  BY <1>3
<1>5. \A b \in bars : newest >= b
  BY <1>3, <1>4
<1> HIDE DEF T
<1>6. PICK oldest \in bars : \A b \in bars : oldest <= b
  BY <1>1, SmallestNat
<1>7. Max(bars) \in bars /\ \A b \in bars : Max(bars) >= b
  BY <1>5 DEF Max
<1>8. Min(bars) \in bars /\ \A b \in bars : Min(bars) <= b
  BY <1>6 DEF Min
<1>9. QED BY <1>7, <1>8

-----------------------------------------------------------------------------
(* doTrade                                                                  *)

\* What whole division yields.
LEMMA Quotient ==
  ASSUME NEW a \in Nat, NEW b \in Nat \ {0}
  PROVE  /\ a \div b \in Nat
         /\ 0 \div b = 0
  OBVIOUS

\* The share that all of a position has in its units is all of them.
LEMMA AllUnits ==
  ASSUME NEW u \in Nat, NEW c \in Nat \ {0}
  PROVE  (u * c) \div c = u
  OBVIOUS

\* A macro order keeps the balances sound; it needs a price only when there is an order ...
LEMMA BuyDeadKeeps ==
  ASSUME NEW p \in Balances, NEW amount \in Nat, NEW price \in Nat, price > 0 \/ amount = 0,
         Sound(p, Capital)
  PROVE  BuyDead(p, amount, price) \in Balances /\ Sound(BuyDead(p, amount, price), Capital)
<1>a. CASE amount = 0
  BY <1>a DEF BuyDead
<1>b. SUFFICES ASSUME amount > 0, price \in Nat \ {0}
               PROVE  BuyDead(p, amount, price) \in Balances
                      /\ Sound(BuyDead(p, amount, price), Capital)
  BY <1>a
<1> DEFINE units == amount \div price
           p1 == [p EXCEPT !.dead = @ + amount]
           p2 == [p1 EXCEPT !.deadUnits = p.deadUnits + units]
           p3 == [p2 EXCEPT !.injected = p.injected + amount]
<1>1. units \in Nat
  BY <1>b, Quotient
<1>2. BuyDead(p, amount, price) = p3
  BY <1>b DEF BuyDead
<1> HIDE DEF units
<1>3. p3 \in Balances
  <2>1. p1 \in Balances
    BY DEF Balances
  <2> HIDE DEF p1
  <2>2. p2 \in Balances
    BY <1>1, <2>1 DEF Balances
  <2> HIDE DEF p2
  <2>3. QED BY <2>2 DEF Balances
<1>4. /\ p3.cash = p.cash /\ p3.float = p.float /\ p3.floatUnits = p.floatUnits
      /\ p3.pnl = p.pnl /\ p3.dead = p.dead + amount /\ p3.deadUnits = p.deadUnits + units
      /\ p3.injected = p.injected + amount
  BY DEF Balances
<1> HIDE DEF p3
<1>5. QED BY <1>b, <1>1, <1>2, <1>3, <1>4 DEF Balances, Sound

\* ... so does a micro order to buy ...
LEMMA BuyFloatKeeps ==
  ASSUME NEW p \in Balances, NEW amount \in Nat, NEW price \in Nat \ {0}, Sound(p, Capital)
  PROVE  BuyFloat(p, amount, price) \in Balances /\ Sound(BuyFloat(p, amount, price), Capital)
<1> DEFINE paid == AtMost(amount, p.cash)
<1>1. paid \in Nat /\ paid <= p.cash
  BY DEF AtMost, Balances
<1> HIDE DEF paid
<1> DEFINE units == paid \div price
           p1 == [p EXCEPT !.cash = @ - paid]
           p2 == [p1 EXCEPT !.float = p.float + paid]
           p3 == [p2 EXCEPT !.floatUnits = p.floatUnits + units]
<1>2. units \in Nat /\ (paid = 0 => units = 0)
  BY <1>1, Quotient
<1>3. BuyFloat(p, amount, price) = p3
  BY DEF BuyFloat, paid
<1> HIDE DEF units
<1>4. p3 \in Balances
  <2>1. p1 \in Balances
    BY <1>1 DEF Balances
  <2> HIDE DEF p1
  <2>2. p2 \in Balances
    BY <1>1, <2>1 DEF Balances
  <2> HIDE DEF p2
  <2>3. QED BY <1>2, <2>2 DEF Balances
<1>5. /\ p3.cash = p.cash - paid /\ p3.float = p.float + paid
      /\ p3.floatUnits = p.floatUnits + units
      /\ p3.pnl = p.pnl /\ p3.dead = p.dead /\ p3.deadUnits = p.deadUnits
      /\ p3.injected = p.injected
  BY DEF Balances
<1> HIDE DEF p3
<1>6. QED BY <1>1, <1>2, <1>3, <1>4, <1>5 DEF Balances, Sound

\* ... and one to sell, which takes all units along with the last of the money.
LEMMA SellFloatKeeps ==
  ASSUME NEW p \in Balances, NEW amount \in Nat, NEW price \in Nat \ {0}, Sound(p, Capital)
  PROVE  /\ SellFloat(p, amount, price) \in Balances
         /\ Sound(SellFloat(p, amount, price), Capital)
         /\ Revenue(p, amount, price) \in Nat
<1> DEFINE cost == AtMost(amount, p.float)
           sold == UnitsSold(p, cost, price)
           left == UnitsLeft(p, sold)
           value == Revenue(p, amount, price)
<1>1. cost \in Nat /\ cost <= p.float
  BY DEF AtMost, Balances
<1>2. sold \in Nat
  <2> HIDE DEF cost
  <2>1. cost \div price \in Nat
    BY <1>1, Quotient
  <2>2. CASE p.float > 0 /\ p.floatUnits > 0
    <3>1. p.floatUnits * cost \in Nat /\ p.float \in Nat \ {0}
      BY <1>1, <2>2 DEF Balances
    <3>2. (p.floatUnits * cost) \div p.float \in Nat
      BY <3>1, Quotient
    <3>3. QED BY <2>2, <3>2 DEF UnitsSold
  <2>3. QED BY <2>1, <2>2 DEF UnitsSold
<1>3. value \in Nat
  <2>1. value = sold * price
    BY DEF Revenue
  <2> HIDE DEF sold, value
  <2>2. QED BY <1>2, <2>1
<1>4. left \in Nat /\ (p.floatUnits = 0 => left = 0)
  <2> HIDE DEF sold
  <2>1. QED BY <1>2 DEF UnitsLeft, AtMost, Balances
<1>5. p.float - cost = 0 => left = 0
  <2>1. SUFFICES ASSUME p.float - cost = 0, p.floatUnits > 0
                 PROVE  left = 0
    BY <1>4 DEF Balances
  <2>2. p.float > 0 /\ cost = p.float
    <3> HIDE DEF cost
    <3>1. QED BY <1>1, <2>1 DEF Balances, Sound
  <2>3. sold = (p.floatUnits * p.float) \div p.float
    BY <2>1, <2>2 DEF UnitsSold
  <2>4. sold = p.floatUnits
    BY <2>2, <2>3, AllUnits DEF Balances
  <2> HIDE DEF sold
  <2>5. QED BY <2>4 DEF UnitsLeft, AtMost, Balances
<1> DEFINE p1 == [p EXCEPT !.cash = @ + value]
           p2 == [p1 EXCEPT !.float = p.float - cost]
           p3 == [p2 EXCEPT !.pnl = p.pnl + value - cost]
           p4 == [p3 EXCEPT !.floatUnits = left]
<1>6. SellFloat(p, amount, price) = p4
  BY DEF SellFloat
<1>7. value = Revenue(p, amount, price)
  OBVIOUS
<1> HIDE DEF cost, sold, left, value
<1>8. p4 \in Balances
  <2>1. p1 \in Balances
    BY <1>3 DEF Balances
  <2> HIDE DEF p1
  <2>2. p2 \in Balances
    BY <1>1, <2>1 DEF Balances
  <2> HIDE DEF p2
  <2>3. p3 \in Balances
    BY <1>1, <1>3, <2>2 DEF Balances
  <2> HIDE DEF p3
  <2>4. QED BY <1>4, <2>3 DEF Balances
<1>9. /\ p4.cash = p.cash + value /\ p4.float = p.float - cost
      /\ p4.pnl = p.pnl + value - cost /\ p4.floatUnits = left
      /\ p4.dead = p.dead /\ p4.deadUnits = p.deadUnits /\ p4.injected = p.injected
  BY DEF Balances
<1> HIDE DEF p4
<1>10. QED BY <1>1, <1>3, <1>4, <1>5, <1>6, <1>7, <1>8, <1>9 DEF Balances, Sound

\* What an order of either sign does, and what its record says of the cash.
LEMMA TradeFloatKeeps ==
  ASSUME NEW p \in Balances, NEW order \in Int, NEW price \in Nat, price > 0 \/ order = 0,
         Sound(p, Capital)
  PROVE  /\ TradeFloat(p, order, price) \in Balances
         /\ Sound(TradeFloat(p, order, price), Capital)
         /\ RecordedFlow(p, order, price) \in Int
         /\ TradeFloat(p, order, price).cash = p.cash + RecordedFlow(p, order, price)
         /\ TradeFloat(p, order, price).dead = p.dead
<1>1. CASE order = 0
  <2>1. AtMost(0, p.cash) = 0
    BY DEF AtMost, Balances
  <2> HIDE DEF AtMost
  <2>2. RecordedFlow(p, order, price) = 0
    BY <1>1, <2>1 DEF RecordedFlow
  <2>3. QED BY <1>1, <2>2 DEF TradeFloat, Balances
<1>2. CASE order > 0
  <2>1. /\ BuyFloat(p, order, price) \in Balances
        /\ Sound(BuyFloat(p, order, price), Capital)
    BY <1>2, BuyFloatKeeps
  <2>2. AtMost(order, p.cash) \in Nat
    BY <1>2 DEF AtMost, Balances
  <2>3. /\ BuyFloat(p, order, price).cash = p.cash - AtMost(order, p.cash)
        /\ BuyFloat(p, order, price).dead = p.dead
    BY DEF BuyFloat, Balances
  <2>4. QED BY <1>2, <2>1, <2>2, <2>3 DEF TradeFloat, RecordedFlow, Balances
<1>3. CASE order < 0
  <2>1. /\ SellFloat(p, -order, price) \in Balances
        /\ Sound(SellFloat(p, -order, price), Capital)
        /\ Revenue(p, -order, price) \in Nat
    BY <1>3, SellFloatKeeps
  <2>2. /\ SellFloat(p, -order, price).cash = p.cash + Revenue(p, -order, price)
        /\ SellFloat(p, -order, price).dead = p.dead
    BY DEF SellFloat, Balances
  <2>3. QED BY <1>3, <2>1, <2>2 DEF TradeFloat, RecordedFlow, Balances
<1>4. QED BY <1>1, <1>2, <1>3

LEMMA BuyDeadRecorded ==
  ASSUME NEW p \in Balances, NEW amount \in Nat, NEW price
  PROVE  /\ BuyDead(p, amount, price).cash = p.cash
         /\ BuyDead(p, amount, price).dead = p.dead + amount
BY DEF BuyDead, Balances

-----------------------------------------------------------------------------
(* Rows                                                                     *)

\* Bars are finitely many.
LEMMA FiniteBars ==
  ASSUME NEW bars \in SUBSET (1 .. MaxBar)
  PROVE  IsFiniteSet(bars)
<1>1. IsFiniteSet(1 .. MaxBar)
  BY 1 \in Int, MaxBar \in Int, FS_Interval
<1>2. QED BY <1>1, FS_Subset

\* There are never fewer rows than before ...
LEMMA FewerRows ==
  ASSUME NEW old \in SUBSET (1 .. MaxBar), NEW new \in SUBSET (1 .. MaxBar), old \subseteq new
  PROVE  Cardinality(new) <= Window => Cardinality(old) <= Window
<1>1. IsFiniteSet(new)
  BY FiniteBars
<1>2. /\ IsFiniteSet(old) /\ Cardinality(old) <= Cardinality(new)
      /\ Cardinality(old) \in Nat /\ Cardinality(new) \in Nat
  BY <1>1, FS_Subset, FS_CardinalityType
<1>3. QED BY <1>2

\* ... and a window for which there are not too many takes in all of them.
LEMMA WholeWindow ==
  ASSUME klines \in SUBSET (1 .. MaxBar), Cardinality(klines) <= Window
  PROVE  OldestRows(Window) = klines
<1>1. ASSUME NEW b \in klines
      PROVE  Cardinality({a \in klines : a < b}) < Window
  <2> DEFINE older == {a \in klines : a < b}
  <2>1. IsFiniteSet(klines)
    BY FiniteBars
  <2>2. older \subseteq klines /\ b \notin older
    <3>1. ~(b < b)
      BY b \in 1 .. MaxBar
    <3>2. QED BY <3>1
  <2> HIDE DEF older
  <2>3. /\ IsFiniteSet(older) /\ Cardinality(older) <= Cardinality(klines)
        /\ Cardinality(older) # Cardinality(klines)
    BY <2>1, <2>2, FS_Subset
  <2>4. Cardinality(older) \in Nat /\ Cardinality(klines) \in Nat
    BY <2>1, <2>3, FS_CardinalityType
  <2>5. QED BY <2>3, <2>4 DEF older
<1>2. QED BY <1>1 DEF OldestRows

\* The last of the rows that a tick reads is not behind the newest one, and is that when
\* the query has not failed and the window takes in all of them.
LEMMA WindowEnd ==
  ASSUME klines \in SUBSET (1 .. MaxBar), klines # {}, NEW n, NEW failed \in BOOLEAN
  PROVE  LET rows == WindowRows(n, failed)
             last == IF rows = {} THEN 0 ELSE Max(rows)
         IN  /\ Max(klines) \in 1 .. MaxBar
             /\ last \in 0 .. MaxBar /\ last <= Max(klines)
             /\ Cardinality(klines) <= Window /\ ~failed => last = Max(klines)
<1> DEFINE rows == WindowRows(n, failed)
           newest == Max(klines)
<1>1. newest \in 1 .. MaxBar /\ \A b \in klines : b <= newest
  BY BarsHaveEnds
<1>2. rows \subseteq klines
  BY DEF WindowRows, OldestRows
<1>3. Cardinality(klines) <= Window /\ ~failed => rows = klines
  BY WholeWindow DEF WindowRows
<1> HIDE DEF rows
<1>4. rows # {} => Max(rows) \in rows
  BY <1>2, BarsHaveEnds
<1> DEFINE end == Max(rows)
<1> HIDE DEF newest, end
<1>5. rows # {} => end \in 1 .. MaxBar /\ end <= newest
  BY <1>1, <1>2, <1>4 DEF end
<1>6. rows = klines => rows # {} /\ end = newest
  BY DEF end, newest
<1>7. QED BY <1>1, <1>3, <1>5, <1>6 DEF rows, newest, end

-----------------------------------------------------------------------------
(* The first state and the steps of the service                             *)

LEMMA OpeningSound == Opening(Capital) \in Balances /\ Sound(Opening(Capital), Capital)
BY DEF Opening, Balances, Sound

LEMMA IdleTick == Idle \in Tick /\ Idle.p = Opening(Capital) /\ Idle.pc = "idle"
BY OpeningSound DEF Idle, Tick

LEMMA MarketInit == Init => MarketInv
<1> SUFFICES ASSUME Init PROVE MarketInv
  OBVIOUS
<1>1. portfolio = [p |-> Opening(Capital), bar |-> 0]
  BY DEF Init
<1>2. TypeOK
  <2>1. portfolio \in [p : Balances, bar : 0 .. MaxBar]
    BY <1>1, OpeningSound
  <2>2. feed \in [pc : {"start", "storing", "waiting", "off", "down"},
                  left : SUBSET (1 .. MaxBar)]
    BY DEF Init, FeedInit, Down
  <2>3. tick = Idle /\ tick \in Tick /\ tick.pc = "idle"
    BY IdleTick DEF Init
  <2>4. onRecord \in [cash : Int, dead : Nat]
    BY DEF Init
  <2>5. /\ exchange = 1 /\ klines = {} /\ lastC = 0 /\ usdCny = FallbackRate
        /\ serving = FALSE /\ faults = 0 /\ restarts = 0
    BY DEF Init, FeedInit, Down
  <2>6. timer = 0 /\ macroAt = 0 /\ partial = FALSE
    BY DEF Init
  <2>7. /\ exchange \in 1 .. MaxBar /\ klines \in SUBSET (1 .. MaxBar)
        /\ faults \in 0 .. MaxFault /\ restarts \in Nat
        /\ timer \in 0 .. MaxBar /\ macroAt \in 0 .. MaxBar
    BY <2>5, <2>6
  <2>8. /\ lastC \in Close \cup {0} /\ usdCny \in Rate \cup {FallbackRate}
        /\ serving \in BOOLEAN /\ partial \in BOOLEAN
    BY <2>5, <2>6
  <2>9. /\ tick.pc = "read" => klines # {}
        /\ tick.pc \in {"macro", "micro"} => tick.price > 0 \/ (tick.macro = 0 /\ tick.micro = 0)
    BY <2>3
  <2>10. QED BY <2>1, <2>2, <2>3, <2>4, <2>7, <2>8, <2>9 DEF TypeOK
<1>3. LedgerInv
  BY <1>1, OpeningSound, IdleTick DEF Init, LedgerInv
<1>4. RecordInv
  BY <1>1, IdleTick DEF Init, RecordInv, Explained, Opening
<1>5. TimerInv
  BY IdleTick DEF Init, TimerInv, ScheduledInWindow, ScheduledBuy
<1>6. QED BY <1>2, <1>3, <1>4, <1>5 DEF MarketInv

\* The service stores rows and moves price and rate; the timer may stay right only because
\* rows never become fewer.
LEMMA FeedKeeps ==
  ASSUME MarketInv, FeedStep
  PROVE  MarketInv'
<1> USE DEF MarketInv
<1>1. /\ exchange' \in 1 .. MaxBar
      /\ klines' \in SUBSET (1 .. MaxBar) /\ klines \subseteq klines'
      /\ lastC' \in Close \cup {0}
      /\ usdCny' \in Rate \cup {FallbackRate}
      /\ feed' \in [pc : {"start", "storing", "waiting", "off", "down"},
                    left : SUBSET (1 .. MaxBar)]
      /\ serving' \in BOOLEAN
      /\ faults' \in 0 .. MaxFault
      /\ restarts' \in Nat
  <2> USE DEF TypeOK
  <2>1. CASE Fetch
    <3>1. Response \in SUBSET (1 .. MaxBar)
      BY DEF Response
    <3>2. QED BY <2>1, <3>1 DEF Fetch
  <2>2. CASE StoreRow
    <3>1. Min(feed.left) \in 1 .. MaxBar
      BY <2>2, BarsHaveEnds DEF StoreRow
    <3> DEFINE b == Min(feed.left)
    <3> HIDE DEF b
    <3>2. klines' = klines \/ klines' = klines \cup {b}
      BY <2>2 DEF StoreRow, b
    <3>3. feed' = [feed EXCEPT !.left = @ \ {b}]
      BY <2>2 DEF StoreRow, b
    <3>4. faults' = faults \/ (faults < MaxFault /\ faults' = faults + 1)
      BY <2>2 DEF StoreRow
    <3>5. UNCHANGED <<exchange, lastC, usdCny, serving, restarts>>
      BY <2>2 DEF StoreRow
    <3>6. b \in 1 .. MaxBar
      BY <3>1 DEF b
    <3>7. QED BY <3>2, <3>3, <3>4, <3>5, <3>6
  <2>3. CASE \E close \in Close : Publish(close)
    BY <2>3 DEF Publish, Down
  <2>4. CASE StartFails
    BY <2>4 DEF StartFails
  <2>5. CASE OpenBar
    BY <2>5 DEF OpenBar
  <2>6. CASE \E r \in Rate : RefreshRate(r)
    BY <2>6 DEF RefreshRate
  <2>7. QED BY <2>1, <2>2, <2>3, <2>4, <2>5, <2>6 DEF FeedStep, FeedLoop
<1>2. UNCHANGED tickVars
  BY DEF FeedStep
<1>3. TypeOK'
  BY <1>1, <1>2 DEF TypeOK, tickVars
<1>4. LedgerInv'
  BY <1>2 DEF LedgerInv, tickVars
<1>5. RecordInv'
  BY <1>2 DEF RecordInv, Explained, tickVars
<1>6. TimerInv'
  <2>1. Cardinality(klines') <= Window => Cardinality(klines) <= Window
    BY <1>1, FewerRows DEF TypeOK
  <2>2. QED BY <1>2, <2>1 DEF TimerInv, AllRead, ScheduledInWindow, ScheduledBuy, tickVars
<1>7. QED BY <1>3, <1>4, <1>5, <1>6

LEMMA ExitKeeps ==
  ASSUME MarketInv, Exit
  PROVE  MarketInv'
<1> USE DEF MarketInv
<1>1. /\ feed' = Down /\ lastC' = 0 /\ usdCny' = FallbackRate /\ serving' = FALSE
      /\ UNCHANGED <<exchange, klines, faults, restarts, portfolio, timer, macroAt, onRecord>>
      /\ tick' = Idle /\ partial' = (partial \/ tick.pc \in {"micro", "commit"})
  BY DEF Exit, StopFeed, Mark
<1>2. TypeOK'
  BY <1>1, IdleTick DEF TypeOK, Down
<1>3. LedgerInv'
  BY <1>1, IdleTick, OpeningSound DEF LedgerInv
<1>4. RecordInv'
  BY <1>1, IdleTick DEF RecordInv, Explained
<1>5. TimerInv'
  BY <1>1, IdleTick DEF TimerInv, ScheduledInWindow, ScheduledBuy
<1>6. QED BY <1>2, <1>3, <1>4, <1>5

LEMMA RestartKeeps ==
  ASSUME MarketInv, Restart
  PROVE  MarketInv'
<1> USE DEF MarketInv
<1>1. /\ feed' = [Down EXCEPT !.pc = "start"] /\ restarts' = restarts + 1
      /\ UNCHANGED <<exchange, klines, lastC, usdCny, serving, faults, tickVars>>
  BY DEF Restart, StartFeed
<1>2. TypeOK'
  BY <1>1 DEF TypeOK, Down, tickVars
<1>3. LedgerInv' /\ RecordInv' /\ TimerInv'
  BY <1>1 DEF LedgerInv, RecordInv, Explained, TimerInv, AllRead, ScheduledInWindow,
              ScheduledBuy, tickVars
<1>4. QED BY <1>2, <1>3

-----------------------------------------------------------------------------
(* The steps of the tick                                                    *)

LEMMA LoadKeeps ==
  ASSUME MarketInv, LoadRows
  PROVE  MarketInv'
<1> USE DEF MarketInv
<1> DEFINE newest == Max(klines)
           t1 == [Idle EXCEPT !.pc = "read"]
           t2 == [t1 EXCEPT !.bar = newest]
           t3 == [t2 EXCEPT !.p = portfolio.p]
<1>1. tick.pc = "idle" /\ klines # {}
  BY DEF LoadRows, NewBar
<1>2. tick' = t3
  BY DEF LoadRows
<1>3. newest \in 1 .. MaxBar
  BY <1>1, BarsHaveEnds DEF TypeOK
<1> HIDE DEF newest
<1>4. t3 \in Tick
  <2>1. t1 \in Tick
    BY IdleTick DEF Tick
  <2> HIDE DEF t1
  <2>2. t2 \in Tick
    BY <1>3, <2>1 DEF Tick
  <2> HIDE DEF t2
  <2>3. QED BY <2>2 DEF Tick, TypeOK
<1>5. t3.pc = "read" /\ t3.p = portfolio.p
  BY IdleTick DEF Tick
<1>6. UNCHANGED <<feedVars, faults, restarts, portfolio, timer, macroAt, onRecord, partial>>
  BY DEF LoadRows
<1> HIDE DEF t3
<1>7. TypeOK'
  BY <1>1, <1>2, <1>4, <1>5, <1>6 DEF TypeOK, feedVars
<1>8. LedgerInv'
  BY <1>2, <1>5, <1>6 DEF LedgerInv
<1>9. RecordInv'
  BY <1>1, <1>2, <1>5, <1>6 DEF RecordInv, Explained
<1>10. TimerInv'
  BY <1>2, <1>5, <1>6 DEF TimerInv, ScheduledInWindow, ScheduledBuy, feedVars
<1>11. QED BY <1>7, <1>8, <1>9, <1>10

\* The product of two positive numbers is positive.
LEMMA Positive ==
  ASSUME NEW a \in Nat \ {0}, NEW b \in Nat \ {0}
  PROVE  a * b \in Nat \ {0}
OBVIOUS

\* A failing statement is within the bound.
LEMMA FaultsBounded ==
  ASSUME TypeOK, NEW failed \in BOOLEAN, RunsOr(failed)
  PROVE  faults' \in 0 .. MaxFault
BY DEF TypeOK, RunsOr, Fails

\* The window ends at the newest row, unless the query has failed or there are too many rows.
LEMMA ReadKeeps ==
  ASSUME MarketInv, NEW n, NEW failed \in BOOLEAN, ReadWindow(n, failed)
  PROVE  MarketInv'
<1> USE DEF MarketInv
<1> DEFINE rows == WindowRows(n, failed)
           last == IF rows = {} THEN 0 ELSE Max(rows)
           newest == Max(klines)
           t1 == [tick EXCEPT !.pc = "decide"]
           t2 == [t1 EXCEPT !.last = last]
           t3 == [t2 EXCEPT !.newest = newest]
           t4 == [t3 EXCEPT !.cut = failed]
<1>1. tick.pc = "read" /\ klines # {}
  BY DEF ReadWindow, TypeOK
<1>2. tick' = t4
  BY DEF ReadWindow
<1>3. /\ newest \in 1 .. MaxBar /\ last \in 0 .. MaxBar /\ last <= newest
      /\ Cardinality(klines) <= Window /\ ~failed => last = newest
  BY <1>1, WindowEnd DEF TypeOK
<1>4. /\ UNCHANGED <<feedVars, restarts, portfolio, timer, macroAt, onRecord, partial>>
      /\ faults' \in 0 .. MaxFault
  BY FaultsBounded DEF ReadWindow
<1> HIDE DEF rows, last, newest
<1>5. t4 \in Tick
  <2>1. t1 \in Tick
    BY DEF Tick, TypeOK
  <2> HIDE DEF t1
  <2>2. t2 \in Tick
    BY <1>3, <2>1 DEF Tick
  <2> HIDE DEF t2
  <2>3. t3 \in Tick
    BY <1>3, <2>2 DEF Tick
  <2> HIDE DEF t3
  <2>4. QED BY <2>3 DEF Tick
<1>6. /\ t4.pc = "decide" /\ t4.p = tick.p
      /\ t4.last = last /\ t4.newest = newest /\ t4.cut = failed
  BY DEF Tick, TypeOK
<1> HIDE DEF t4
<1>7. TypeOK'
  BY <1>2, <1>4, <1>5, <1>6 DEF TypeOK, feedVars
<1>8. LedgerInv'
  BY <1>2, <1>4, <1>6 DEF LedgerInv
<1>9. RecordInv'
  BY <1>1, <1>2, <1>4, <1>6 DEF RecordInv, Explained
<1>10. TimerInv'
  BY <1>2, <1>3, <1>4, <1>6 DEF TimerInv, AllRead, ScheduledInWindow, ScheduledBuy, feedVars
<1>11. QED BY <1>7, <1>8, <1>9, <1>10

\* When the rows end at the newest one, what is owed by the rows since the last macro order is
\* due by the timer, which is not ahead of that order.
LEMMA OwedIsDue ==
  ASSUME TypeOK, TimerInv, tick.pc = "decide", tick.last = tick.newest,
         NEW dilation \in TimeDilation, Owed(dilation)
  PROVE  tick.last > 0 /\ Due(dilation)
<1> DEFINE interval == Interval * dilation
<1>1. interval \in Nat /\ dilation > 0
  BY Positive DEF TimeDilation, Owed
<1>2. macroAt > 0 /\ 2 * (tick.newest - macroAt) >= interval
  BY DEF Owed
<1> HIDE DEF interval
<1>3. /\ tick.last \in Nat /\ tick.newest \in Nat /\ timer \in Nat /\ macroAt \in Nat
      /\ timer > 0 /\ timer <= macroAt
  BY <1>2 DEF TypeOK, TimerInv, Tick
<1>4. tick.last > 0 /\ 2 * (tick.last - timer) >= interval
  BY <1>1, <1>2, <1>3
<1>5. Elapsed = tick.last - timer
  BY <1>3 DEF Elapsed
<1>6. QED BY <1>1, <1>4, <1>5 DEF Due, interval

\* Without rows there are no orders, and so a price where there is one; a tick that has read
\* all rows and decides against a macro order owes none.
LEMMA DecideKeeps ==
  ASSUME MarketInv, NEW price \in {0} \cup Close, NEW dilation \in TimeDilation,
         NEW macro \in {0, Inject} \cup Order, NEW micro \in Int, NEW failed \in BOOLEAN,
         Decide(price, dilation, macro, micro, failed)
  PROVE  MarketInv'
<1> USE DEF MarketInv
<1> DEFINE paid == price * usdCny
           owed == Owed(dilation)
           t1 == [tick EXCEPT !.pc = "macro"]
           t2 == [t1 EXCEPT !.last = 0]
           t3 == [t2 EXCEPT !.newest = 0]
           t4 == [t3 EXCEPT !.owed = owed]
           t5 == [t4 EXCEPT !.price = paid]
           t6 == [t5 EXCEPT !.macro = macro]
           t7 == [t6 EXCEPT !.micro = micro]
<1>1. tick.pc = "decide" /\ tick \in Tick /\ macro \in Nat
  BY DEF Decide, TypeOK
<1>2. tick' = t7
  BY DEF Decide
<1>3. tick.last = 0 => macro = 0 /\ micro = 0
  BY DEF Decide
<1>4. paid \in Nat /\ (paid > 0 \/ (macro = 0 /\ micro = 0))
  <2>1. usdCny \in Nat \ {0} /\ lastC \in Nat /\ tick.last \in Nat
    BY <1>1 DEF TypeOK, Tick
  <2>2. CASE price = 0
    <3>1. price \notin Close /\ ~(lastC > 0)
      BY <2>2, <2>1 DEF Decide, PossiblePrices
    <3>2. ~(tick.last > 0)
      BY <3>1 DEF Decide, PossiblePrices
    <3>3. paid = 0
      BY <2>1, <2>2
    <3>4. QED BY <1>3, <2>1, <3>2, <3>3
  <2>3. CASE price \in Nat \ {0}
    BY <2>1, <2>3, Positive
  <2>4. QED BY <2>2, <2>3
<1>5. /\ timer' = IF macro > 0 /\ ~failed THEN tick.last ELSE timer
      /\ macroAt' = IF macro > 0 /\ ~failed THEN tick.newest ELSE macroAt
  BY DEF Decide
<1>6. tick.last > 0 /\ Due(dilation) => macro > 0
  BY DEF Decide
<1>7. /\ UNCHANGED <<feedVars, restarts, portfolio, onRecord, partial>>
      /\ faults' \in 0 .. MaxFault
  BY FaultsBounded DEF Decide
<1>8. owed \in BOOLEAN /\ (AllRead /\ owed => macro > 0)
  BY <1>1, <1>6, OwedIsDue DEF Owed, TimerInv
<1> HIDE DEF paid, owed
<1>9. t7 \in Tick
  <2>1. t1 \in Tick
    BY DEF Tick, TypeOK
  <2> HIDE DEF t1
  <2>2. t2 \in Tick
    BY <2>1 DEF Tick
  <2> HIDE DEF t2
  <2>3. t3 \in Tick
    BY <2>2 DEF Tick
  <2> HIDE DEF t3
  <2>4. t4 \in Tick
    BY <1>8, <2>3 DEF Tick
  <2> HIDE DEF t4
  <2>5. t5 \in Tick
    BY <1>4, <2>4 DEF Tick
  <2> HIDE DEF t5
  <2>6. t6 \in Tick
    BY <1>1, <2>5 DEF Tick
  <2> HIDE DEF t6
  <2>7. QED BY <2>6 DEF Tick
<1>10. /\ t7.pc = "macro" /\ t7.p = tick.p /\ t7.cut = tick.cut /\ t7.owed = owed
       /\ t7.price = paid /\ t7.macro = macro /\ t7.micro = micro
  BY DEF Tick, TypeOK
<1> HIDE DEF t7
<1>11. /\ timer' \in 0 .. MaxBar /\ macroAt' \in 0 .. MaxBar
       /\ timer' <= macroAt' /\ (macroAt' > 0 => timer' > 0)
  <2>1. /\ tick.last \in 0 .. MaxBar /\ tick.newest \in 0 .. MaxBar /\ tick.last <= tick.newest
        /\ timer \in 0 .. MaxBar /\ macroAt \in 0 .. MaxBar /\ timer <= macroAt
        /\ macroAt > 0 => timer > 0
    BY <1>1 DEF Tick, TypeOK, TimerInv
  <2>2. macro > 0 => tick.last > 0
    BY <1>1, <1>3, <2>1
  <2>3. QED BY <1>5, <2>1, <2>2
<1>12. TypeOK'
  BY <1>2, <1>4, <1>7, <1>9, <1>10, <1>11 DEF TypeOK, feedVars
<1>13. LedgerInv'
  BY <1>2, <1>7, <1>10 DEF LedgerInv
<1>14. RecordInv'
  BY <1>1, <1>2, <1>7, <1>10 DEF RecordInv, Explained
<1>15. TimerInv'
  BY <1>2, <1>7, <1>8, <1>10, <1>11 DEF TimerInv, AllRead, ScheduledInWindow, ScheduledBuy,
                                        feedVars
<1>16. QED BY <1>12, <1>13, <1>14, <1>15

\* The macro order goes into the dead stack of the tick, and into the records.
LEMMA BookMacroKeeps ==
  ASSUME MarketInv, NEW failed \in BOOLEAN, BookMacro(failed)
  PROVE  MarketInv'
<1> USE DEF MarketInv
<1> DEFINE q == BuyDead(tick.p, tick.macro, tick.price)
           t1 == [tick EXCEPT !.pc = "micro"]
           t2 == [t1 EXCEPT !.p = q]
           t3 == [t2 EXCEPT !.cut = FALSE]
           t4 == [t3 EXCEPT !.owed = FALSE]
           t5 == [t4 EXCEPT !.macro = 0]
<1>1. /\ tick.pc = "macro" /\ tick.p \in Balances /\ tick.macro \in Nat
      /\ tick.price \in Nat /\ (tick.price > 0 \/ (tick.macro = 0 /\ tick.micro = 0))
  BY DEF BookMacro, TypeOK, Tick
<1>2. tick' = t5
  BY DEF BookMacro
<1>3. q \in Balances /\ Sound(q, Capital)
  BY <1>1, BuyDeadKeeps DEF LedgerInv
<1>4. q.cash = tick.p.cash /\ q.dead = tick.p.dead + tick.macro
  BY <1>1, BuyDeadRecorded
<1>5. onRecord' = IF failed THEN onRecord ELSE [onRecord EXCEPT !.dead = @ + tick.macro]
  BY DEF BookMacro
<1>6. /\ UNCHANGED <<feedVars, restarts, portfolio, timer, macroAt>>
      /\ partial' = (partial \/ failed)
      /\ faults' \in 0 .. MaxFault
  BY FaultsBounded DEF BookMacro, Mark
<1> HIDE DEF q
<1>7. t5 \in Tick
  <2>1. t1 \in Tick
    BY DEF Tick, TypeOK
  <2> HIDE DEF t1
  <2>2. t2 \in Tick
    BY <1>3, <2>1 DEF Tick
  <2> HIDE DEF t2
  <2>3. t3 \in Tick
    BY <2>2 DEF Tick
  <2> HIDE DEF t3
  <2>4. t4 \in Tick
    BY <2>3 DEF Tick
  <2> HIDE DEF t4
  <2>5. QED BY <2>4 DEF Tick
<1>8. /\ t5.pc = "micro" /\ t5.p = q /\ t5.price = tick.price
      /\ t5.macro = 0 /\ t5.micro = tick.micro
  BY DEF Tick, TypeOK
<1> HIDE DEF t5
<1>9. onRecord' \in [cash : Int, dead : Nat]
  BY <1>1, <1>5 DEF TypeOK
<1>10. TypeOK'
  BY <1>1, <1>2, <1>6, <1>7, <1>8, <1>9 DEF TypeOK, feedVars
<1>11. LedgerInv'
  BY <1>2, <1>3, <1>6, <1>8 DEF LedgerInv
<1>12. RecordInv'
  <2>1. SUFFICES ASSUME ~partial, ~failed
                 PROVE  q.cash = Capital + onRecord'.cash /\ q.dead = onRecord'.dead
    BY <1>2, <1>6, <1>8 DEF RecordInv, Explained
  <2>2. tick.p.cash = Capital + onRecord.cash /\ tick.p.dead = onRecord.dead
    BY <1>1, <2>1 DEF RecordInv, Explained
  <2>3. onRecord'.cash = onRecord.cash /\ onRecord'.dead = onRecord.dead + tick.macro
    BY <1>5, <2>1 DEF TypeOK
  <2>4. QED BY <1>4, <2>2, <2>3
<1>13. TimerInv'
  BY <1>2, <1>6, <1>8 DEF TimerInv, ScheduledInWindow, ScheduledBuy, feedVars
<1>14. QED BY <1>10, <1>11, <1>12, <1>13

\* The micro order moves cash and floating position of the tick, and its record the cash.
LEMMA BookMicroKeeps ==
  ASSUME MarketInv, NEW failed \in BOOLEAN, BookMicro(failed)
  PROVE  MarketInv'
<1> USE DEF MarketInv
<1> DEFINE q == TradeFloat(tick.p, tick.micro, tick.price)
           flow == RecordedFlow(tick.p, tick.micro, tick.price)
           t1 == [tick EXCEPT !.pc = "commit"]
           t2 == [t1 EXCEPT !.p = q]
           t3 == [t2 EXCEPT !.micro = 0]
           t4 == [t3 EXCEPT !.price = 0]
<1>1. /\ tick.pc = "micro" /\ tick.p \in Balances /\ tick.micro \in Int
      /\ tick.price \in Nat /\ (tick.price > 0 \/ tick.micro = 0)
  BY DEF BookMicro, TypeOK, Tick
<1>2. tick' = t4
  BY DEF BookMicro
<1>3. /\ q \in Balances /\ Sound(q, Capital) /\ flow \in Int
      /\ q.cash = tick.p.cash + flow /\ q.dead = tick.p.dead
  BY <1>1, TradeFloatKeeps DEF LedgerInv
<1>4. onRecord' = IF failed THEN onRecord ELSE [onRecord EXCEPT !.cash = @ + flow]
  BY DEF BookMicro
<1>5. /\ UNCHANGED <<feedVars, restarts, portfolio, timer, macroAt>>
      /\ partial' = (partial \/ failed)
      /\ faults' \in 0 .. MaxFault
  BY FaultsBounded DEF BookMicro, Mark
<1> HIDE DEF q, flow
<1>6. t4 \in Tick
  <2>1. t1 \in Tick
    BY DEF Tick, TypeOK
  <2> HIDE DEF t1
  <2>2. t2 \in Tick
    BY <1>3, <2>1 DEF Tick
  <2> HIDE DEF t2
  <2>3. t3 \in Tick
    BY <2>2 DEF Tick
  <2> HIDE DEF t3
  <2>4. QED BY <2>3 DEF Tick
<1>7. t4.pc = "commit" /\ t4.p = q
  BY DEF Tick, TypeOK
<1> HIDE DEF t4
<1>8. onRecord' \in [cash : Int, dead : Nat]
  BY <1>3, <1>4 DEF TypeOK
<1>9. TypeOK'
  BY <1>1, <1>2, <1>5, <1>6, <1>7, <1>8 DEF TypeOK, feedVars
<1>10. LedgerInv'
  BY <1>2, <1>3, <1>5, <1>7 DEF LedgerInv
<1>11. RecordInv'
  <2>1. SUFFICES ASSUME ~partial, ~failed
                 PROVE  q.cash = Capital + onRecord'.cash /\ q.dead = onRecord'.dead
    BY <1>2, <1>5, <1>7 DEF RecordInv, Explained
  <2>2. tick.p.cash = Capital + onRecord.cash /\ tick.p.dead = onRecord.dead
    BY <1>1, <2>1 DEF RecordInv, Explained
  <2>3. onRecord'.cash = onRecord.cash + flow /\ onRecord'.dead = onRecord.dead
    BY <1>4, <2>1 DEF TypeOK
  <2>4. onRecord.cash \in Int
    BY DEF TypeOK
  <2>5. QED BY <1>3, <2>2, <2>3, <2>4
<1>12. TimerInv'
  BY <1>2, <1>5, <1>7 DEF TimerInv, ScheduledInWindow, ScheduledBuy, feedVars
<1>13. QED BY <1>9, <1>10, <1>11, <1>12

\* The row takes over what the tick has computed, all of it or nothing.
LEMMA CommitKeeps ==
  ASSUME MarketInv, NEW failed \in BOOLEAN, Commit(failed)
  PROVE  MarketInv'
<1> USE DEF MarketInv
<1>1. /\ tick.pc = "commit" /\ tick.p \in Balances /\ tick.bar \in 0 .. MaxBar
  BY DEF Commit, TypeOK, Tick
<1>2. /\ portfolio' = (IF failed THEN portfolio ELSE [p |-> tick.p, bar |-> tick.bar])
      /\ tick' = Idle
      /\ partial' = (partial \/ failed)
      /\ UNCHANGED <<feedVars, restarts, timer, macroAt, onRecord>>
  BY DEF Commit, Mark
<1>3. faults' \in 0 .. MaxFault
  BY FaultsBounded DEF Commit
<1>4. portfolio' \in [p : Balances, bar : 0 .. MaxBar]
  BY <1>1, <1>2 DEF TypeOK
<1>5. TypeOK'
  BY <1>2, <1>3, <1>4, IdleTick DEF TypeOK, feedVars
<1>6. LedgerInv'
  BY <1>2, IdleTick, OpeningSound DEF LedgerInv
<1>7. RecordInv'
  BY <1>1, <1>2, IdleTick DEF RecordInv, Explained
<1>8. TimerInv'
  BY <1>2, IdleTick DEF TimerInv, ScheduledInWindow, ScheduledBuy, feedVars
<1>9. QED BY <1>5, <1>6, <1>7, <1>8

LEMMA TickKeeps ==
  ASSUME MarketInv, TickStep
  PROVE  MarketInv'
<1>1. CASE LoadRows
  BY <1>1, LoadKeeps
<1>2. ASSUME NEW failed \in BOOLEAN, NEW n \in 0 .. Window, ReadWindow(n, failed)
      PROVE  MarketInv'
  BY <1>2, ReadKeeps
<1>3. ASSUME NEW failed \in BOOLEAN, NEW price \in {0} \cup Close, NEW dilation \in TimeDilation,
             NEW macro \in {0, Inject} \cup Order,
             NEW micro \in {0} \cup Order \cup {-a : a \in Order},
             Decide(price, dilation, macro, micro, failed)
      PROVE  MarketInv'
  <2>1. micro \in Int
    OBVIOUS
  <2>2. QED BY <1>3, <2>1, DecideKeeps
<1>4. ASSUME NEW failed \in BOOLEAN, BookMacro(failed) \/ BookMicro(failed) \/ Commit(failed)
      PROVE  MarketInv'
  BY <1>4, BookMacroKeeps, BookMicroKeeps, CommitKeeps
<1>5. QED BY <1>1, <1>2, <1>3, <1>4 DEF TickStep

-----------------------------------------------------------------------------
(* Results                                                                  *)

\* MarketInv is inductive: whatever the exchange reports, which statements and queries fail,
\* what state the market is in and when the process ends, for any window, interval, capital
\* and sizes of orders.
THEOREM MarketInvariant == Spec => []MarketInv
<1>1. MarketInv /\ [Next]_vars => MarketInv'
  <2> SUFFICES ASSUME MarketInv, [Next]_vars PROVE MarketInv'
    OBVIOUS
  <2>1. CASE Next
    BY <2>1, FeedKeeps, TickKeeps, ExitKeeps, RestartKeeps DEF Next
  <2>2. CASE UNCHANGED vars
    BY <2>2 DEF vars, feedVars, tickVars, MarketInv, TypeOK, LedgerInv, RecordInv, Explained,
                TimerInv, AllRead, ScheduledInWindow, ScheduledBuy
  <2>3. QED BY <2>1, <2>2
<1>2. QED BY <1>1, MarketInit, PTL DEF Spec

\* The balances a tick saves are sound in every state: cash and floating position add up to
\* capital and profit, and no units are left without money in them (manager.go:347).
THEOREM LedgerIsSound == Spec => []LedgerSound
<1>1. MarketInv => LedgerSound
  BY DEF MarketInv, LedgerInv, LedgerSound
<1>2. QED BY <1>1, MarketInvariant, PTL

\* Between ticks the cash and the dead stack are those of the trade records, unless a tick
\* was cut short or a write rejected (manager.go:285).
THEOREM RecordsExplainRow == Spec => []RecordsReconcile
<1>1. MarketInv => RecordsReconcile
  BY DEF MarketInv, RecordInv, RecordsReconcile
<1>2. QED BY <1>1, MarketInvariant, PTL

\* A tick that has read all rows orders the macro buy that is owed by the rows since the last
\* one: only a failed query, panic and a full window put it off (macro_engine.go:8,
\* manager.go:122-124).
THEOREM ScheduleIsKept == Spec => []ScheduledInWindow
<1>1. MarketInv => ScheduledInWindow
  BY DEF MarketInv, TimerInv
<1>2. QED BY <1>1, MarketInvariant, PTL
=============================================================================
