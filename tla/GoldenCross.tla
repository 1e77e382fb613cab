----------------------------- MODULE GoldenCross -----------------------------
(***************************************************************************)
(* Step of the golden_cross strategy and the engines it calls              *)
(* (internal/strategies/golden_cross/step.go, internal/quant/              *)
(* {market_state,macro_engine,micro_engine}.go), as functions of the       *)
(* portfolio and of what the price series says.                            *)
(*                                                                         *)
(* Moving averages, deviations and the sigmoid are abstracted to their     *)
(* outcome: the volatility ratio in tenths, whether the short average is   *)
(* above the long one, whether the price is below the long average by more *)
(* than the threshold, the target weight in quarters, and whether the      *)
(* short-term movement is at least 1.5 of the long-term one.  Amounts are  *)
(* whole CNY, fractions of the chromosome are in 200ths.                   *)
(***************************************************************************)
EXTENDS Lots

CONSTANT VolMedianBars   \* MarketVolMedianBars, 112 in the code

ASSUME VolMedianAssumption == VolMedianBars \in Nat

\* ComputeMarketState: the time dilation (in halves) and whether the market is quiet.
Quiet == [dilation |-> 2, quiet |-> TRUE]
Bull == [dilation |-> 3, quiet |-> FALSE]
Bear == [dilation |-> 1, quiet |-> FALSE]
Panic == [dilation |-> 0, quiet |-> FALSE]

MarketState(bars, vol, up) ==
  IF bars < Greater(55, VolMedianBars) \/ vol < 7 THEN Quiet
  ELSE IF up THEN (IF vol > 25 THEN Panic ELSE Bull)
  ELSE (IF vol > 20 THEN Panic ELSE Bear)

Clip(x, lo, hi) == IF x < lo THEN lo ELSE IF x > hi THEN hi ELSE x

\* The cash above the micro reserve.
Spendable(p, c) == Greater(0, p.cash - (p.equity * c.microReserve) \div 200)

\* ComputeMacroDecision: the amount to buy for, 0 when nil.  A base DCA is new money and
\* is not held to spendable; the other two triggers are.
Extra(dip, spendable, c) ==
  IF dip THEN c.inject * c.accelMultiplier ELSE Lesser(spendable, 2 * c.inject)
Above100(amount) == IF amount <= 100 THEN 0 ELSE amount   \* mutant: an order of just 100 is dust
AtLeast100(amount) == IF amount < 100 THEN 0 ELSE amount

BaseDue(days, dilation, c) == dilation > 0 /\ 2 * days >= c.interval * dilation

MacroOrder(days, dilation, dip, spendable, c) ==
  IF BaseDue(days, dilation, c) THEN AtLeast100(c.inject)
  ELSE IF dip \/ spendable > 3 * c.inject
       THEN AtLeast100(Clip(Extra(dip, spendable, c), 100, spendable))
       ELSE 0

\* ComputeMicroDecision and the wedge filter: buy for so much, or sell when negative.
\* The weight held is FloatHold over TotalEquity, shares over CNY, as Step passes it.
Abs(x) == IF x < 0 THEN -x ELSE x
Theoretical(p, weight) == (weight * p.equity) \div 4 - p.float

WedgeFilter(amount, equity, quiet, moving) ==
  IF Abs(amount) >= 100 THEN amount
  ELSE IF quiet \/ amount = 0 \/ ~(50 * Abs(amount) >= equity \/ moving) THEN 0
  ELSE IF amount > 0 THEN 100 ELSE -100

MicroOrder(p, weight, quiet, moving, spendable) ==
  LET order == WedgeFilter(Theoretical(p, weight), p.equity, quiet, moving)
  IN  IF order > 0 THEN AtLeast100(Lesser(order, spendable)) ELSE order

\* The releases of Step.  The hard one works on what the soft one has left in the slice
\* and is measured against the floating lots in it, not against FloatHold.
Reported(soft, hard) == IF hard > 0 THEN hard ELSE soft

Releases(p, lots, day, price, micro, c) ==
  LET soft == SoftRelease(lots, day, price, p.equity, c)
      needed == (-micro) \div price
      hard == IF micro < 0 /\ TotalFloatHold(soft.seen) < needed
              THEN HardRelease(soft.seen, needed) ELSE NoRelease(soft.seen)
  IN  IF p.dead = 0 \/ lots = <<>> THEN NoRelease(lots)
      ELSE [amount |-> Reported(soft.amount, hard.amount), seen |-> hard.seen]

\* A last action of zero means never, and no time has passed since.
DaysSince(day, lastMacro) == IF lastMacro > 0 THEN day - lastMacro ELSE 0

\* Step: with too few bars nothing is decided and nothing changes.
MinBars(c) == Greater(Greater(c.emaShort, c.emaLong), 55)
NoDecision(in) ==
  [macro |-> 0, micro |-> 0, spendable |-> 0, target |-> 0, release |-> 0,
   lots |-> in.lots, lastMacro |-> in.lastMacro]

Decision(in, s, c) ==
  LET market == MarketState(in.bars, s.vol, s.up)
      spendable == Spendable(in.portfolio, c)
      macro == IF spendable >= 100 \/ c.inject >= 100
               THEN MacroOrder(DaysSince(in.day, in.lastMacro), market.dilation, s.dip,
                               spendable, c)
               ELSE 0
      micro == MicroOrder(in.portfolio, s.weight, market.quiet, s.moving, spendable)
      release == Releases(in.portfolio, in.lots, in.day, in.price, micro, c)
  IN  [macro |-> macro, micro |-> micro, spendable |-> spendable,
       target |-> (s.weight * in.portfolio.equity) \div 4,
       release |-> release.amount, lots |-> release.seen,
       lastMacro |-> IF macro > 0 THEN in.day ELSE in.lastMacro]

Step(in, s, c) == IF in.bars < MinBars(c) THEN NoDecision(in) ELSE Decision(in, s, c)

=============================================================================
