----------------------------- MODULE LiveLedger -----------------------------
(***************************************************************************)
(* doTrade of Manager.Tick: what an order of a tick makes of the portfolio *)
(* row, before anything is heard of the broker.  Amounts are whole CNY and *)
(* holdings whole units; price is the price of a unit in CNY, the product  *)
(* of currentPrice and usdCnyRate.  DeadHold and FloatHold are CNY at      *)
(* cost, DeadUnits and FloatUnits the units they stand for.                *)
(***************************************************************************)
EXTENDS Integers

\* The columns of portfolio_states that a tick computes.
Balances == [cash : Nat, dead : Nat, deadUnits : Nat, injected : Nat,
             float : Nat, floatUnits : Nat, pnl : Int]

Opening(capital) ==
  [cash |-> capital, dead |-> 0, deadUnits |-> 0, injected |-> 0,
   float |-> 0, floatUnits |-> 0, pnl |-> 0]

AtMost(a, b) == IF a <= b THEN a ELSE b

\* A macro order is money from outside, whichever trigger has placed it: the cash stays.  An
\* order of nothing leaves everything as it is, and there need be no price then.
BuyDead(p, amount, price) ==
  IF amount = 0 THEN p ELSE
  [p EXCEPT !.dead = @ + amount, !.deadUnits = @ + amount \div price, !.injected = @ + amount]

\* A micro order pays with the cash there is.
BuyFloatFree(p, amount, price) ==   \* mutant: the cash stays, as for a macro order
  [p EXCEPT !.float = @ + amount, !.floatUnits = @ + amount \div price]
BuyFloat(p, amount, price) ==
  LET paid == AtMost(amount, p.cash) IN
  [p EXCEPT !.cash = @ - paid, !.float = @ + paid, !.floatUnits = @ + paid \div price]

\* A sale is an amount at cost.  It takes the same share of the units (what they cost now,
\* should there be none), brings what they are worth, and the difference is profit.
UnitsSold(p, cost, price) ==
  IF p.float > 0 /\ p.floatUnits > 0 THEN (p.floatUnits * cost) \div p.float
  ELSE cost \div price
Revenue(p, amount, price) == UnitsSold(p, AtMost(amount, p.float), price) * price
UnitsLeft(p, sold) == p.floatUnits - AtMost(sold, p.floatUnits)

SellKeepUnits(p, amount, price) ==   \* mutant: the units are not reduced
  LET cost == AtMost(amount, p.float)
      value == Revenue(p, amount, price) IN
  [p EXCEPT !.cash = @ + value, !.float = @ - cost, !.pnl = @ + value - cost]
SellFloat(p, amount, price) ==
  LET cost == AtMost(amount, p.float)
      value == Revenue(p, amount, price) IN
  [p EXCEPT !.cash = @ + value, !.float = @ - cost, !.pnl = @ + value - cost,
            !.floatUnits = UnitsLeft(p, UnitsSold(p, cost, price))]

\* The micro intent is signed: positive to buy.
TradeFloat(p, order, price) ==
  IF order = 0 THEN p
  ELSE IF order > 0 THEN BuyFloat(p, order, price) ELSE SellFloat(p, -order, price)

\* What the trade record of an order says of the cash: nothing for a macro order.
RecordedFlow(p, order, price) ==
  IF order >= 0 THEN -AtMost(order, p.cash) ELSE Revenue(p, -order, price)

\* Money in and money out agree: cash and floating position at cost are the capital the
\* instance was given and the profit made, the dead stack is what was injected, and no
\* units are left where no money is bound any more.
Sound(p, capital) ==
  /\ p.cash + p.float = capital + p.pnl
  /\ p.dead = p.injected
  /\ p.float = 0 => p.floatUnits = 0
  /\ p.dead = 0 => p.deadUnits = 0
=============================================================================
