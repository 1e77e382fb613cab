------------------------------ MODULE Backtest ------------------------------
(***************************************************************************)
(* RunBacktest (internal/adapters/backtest/adapter.go): bar by bar, Step   *)
(* decides and the adapter executes, first the macro order and then the    *)
(* micro order, and values the portfolio.  Releases are decided but not    *)
(* executed: the adapter ignores them.                                     *)
(*                                                                         *)
(* The price of a bar and what Step reads from the series are free.  The   *)
(* prices, the lot step and the fee are chosen so that costs are whole.    *)
(***************************************************************************)
EXTENDS GoldenCross, Genome

CONSTANTS
  MaxBar,          \* bars after the warm-up (bound)
  BarDays,         \* days from one bar to the next
  Price, Vol, Weight,   \* closes, volatility ratios and target weights to choose from
  InitialCapital, Inject, LotStep, FeePct,
  Gene             \* the chromosome, as the search has made it

ASSUME BacktestAssumption ==
  /\ MaxBar \in Nat /\ BarDays \in Nat \ {0}
  /\ Price \subseteq Nat \ {0} /\ Vol \subseteq Nat /\ Weight \subseteq 0 .. 4
  /\ InitialCapital \in Nat \ {0} /\ Inject \in Nat /\ LotStep \in Nat \ {0}
  /\ FeePct \in 0 .. 99
  /\ \A f \in DOMAIN Bounds : Gene[f] \in Int

VARIABLES
  phase,      \* "step", then "trade", for every bar
  bar,        \* bars handed to Step after the warm-up
  price,      \* currentPrice
  cash, dead, float, equity,   \* the portfolio; equity is that of the last bar valued
  lots,       \* portfolio.DeadHoldLots
  lastMacro,  \* runtime.LastMacroAction
  out,        \* the output of Step
  peak,
  maxDD,      \* largest drawdown so far, a fraction
  curve       \* EquityCurve

vars == <<phase, bar, price, cash, dead, float, equity, lots, lastMacro, out, peak, maxDD, curve>>

Chromosome ==
  LET c == ClampChromosome(Gene)
  IN  [f \in DOMAIN c \cup {"inject"} |-> IF f = "inject" THEN Inject ELSE c[f]]

Signals ==
  [vol : Vol, up : BOOLEAN, dip : BOOLEAN, weight : Weight, moving : BOOLEAN]

Input(p) ==
  [portfolio |-> [cash |-> cash, dead |-> dead, float |-> float, equity |-> equity],
   lots |-> lots, day |-> (bar + 1) * BarDays, bars |-> 56 + bar, price |-> p,
   lastMacro |-> lastMacro]

Init ==
  /\ phase = "step"
  /\ bar = 0
  /\ price \in Price
  /\ cash = InitialCapital
  /\ dead = 0
  /\ float = 0
  /\ equity = InitialCapital
  /\ lots = <<>>
  /\ lastMacro = 0
  /\ out = [macro |-> 0, micro |-> 0, spendable |-> 0, target |-> 0, release |-> 0]
  /\ peak = InitialCapital
  /\ maxDD = [num |-> 0, den |-> 1]
  /\ curve = <<>>

-----------------------------------------------------------------------------
\* A bar arrives and Step decides.  The lots are shared with Step: what a release does to
\* them stays.
DecideBar(p, s) ==
  LET o == Step(Input(p), s, Chromosome) IN
  /\ phase = "step"
  /\ bar < MaxBar
  /\ phase' = "trade"
  /\ bar' = bar + 1
  /\ price' = p
  /\ out' = [f \in DOMAIN out |-> o[f]]
  /\ lots' = o.lots
  /\ lastMacro' = o.lastMacro
  /\ UNCHANGED <<cash, dead, float, equity, peak, maxDD, curve>>

\* Orders are rounded down to whole lot steps; fee and slippage are one percentage.
Shares(amount) == (amount \div (price * LotStep)) * LotStep
Cost(shares) == (shares * price * (100 + FeePct)) \div 100
ProceedsFeeAdded(shares) == Cost(shares)   \* mutant: the fee is added to what a sale brings
Proceeds(shares) == (shares * price * (100 - FeePct)) \div 100

\* The portfolio after each order; an order that is too large is dropped.
AfterMacro ==
  LET n == Shares(out.macro) IN
  IF n > 0 /\ cash >= Cost(n)
  THEN [cash |-> cash - Cost(n), dead |-> dead + n, float |-> float, bought |-> n]
  ELSE [cash |-> cash, dead |-> dead, float |-> float, bought |-> 0]

BuyUnchecked(p, n) == n > 0   \* mutant: the cash left by the macro order is not asked
CanBuy(p, n) == n > 0 /\ p.cash >= Cost(n)

AfterMicro(p) ==
  LET n == Shares(Abs(out.micro)) IN
  IF out.micro > 0 /\ CanBuy(p, n)
  THEN [p EXCEPT !.cash = @ - Cost(n), !.float = @ + n]
  ELSE IF out.micro < 0 /\ n > 0 /\ p.float >= n
  THEN [p EXCEPT !.cash = @ + Proceeds(n), !.float = @ - n]
  ELSE p

KeepPeak(value) == InitialCapital   \* mutant: the peak is that of the start
NextPeak(value) == Greater(peak, value)

Trade ==
  LET p == AfterMicro(AfterMacro)
      value == p.cash + (p.dead + p.float) * price
      top == NextPeak(value) IN
  /\ phase = "trade"
  /\ phase' = "step"
  /\ cash' = p.cash
  /\ dead' = p.dead
  /\ float' = p.float
  /\ lots' = IF p.bought = 0 THEN lots
             ELSE Append(lots, [type |-> "dead", amount |-> p.bought, at |-> bar * BarDays,
                                sealed |-> FALSE])
  /\ equity' = value
  /\ peak' = top
  /\ maxDD' = IF (top - value) * maxDD.den > maxDD.num * top
              THEN [num |-> top - value, den |-> top] ELSE maxDD
  /\ curve' = Append(curve, value)
  /\ UNCHANGED <<bar, price, lastMacro, out>>

Next == (\E p \in Price, s \in Signals : DecideBar(p, s)) \/ Trade

Spec == Init /\ [][Next]_vars

-----------------------------------------------------------------------------
(* Properties                                                               *)

\* Every variable keeps its type; cash and holdings are never negative.
TypeOK ==
  /\ phase \in {"step", "trade"}
  /\ bar \in 0 .. MaxBar
  /\ price \in Price
  /\ cash \in Nat /\ dead \in Nat /\ float \in Nat /\ equity \in Nat
  /\ \A k \in DOMAIN lots : lots[k].type \in {"dead", "float"} /\ lots[k].amount \in Nat
  /\ lastMacro \in 0 .. MaxBar * BarDays
  /\ out.macro \in Nat /\ out.micro \in Int /\ out.release \in Nat
  /\ peak \in Nat /\ maxDD.num \in Nat /\ maxDD.den \in Nat \ {0}
  /\ Len(curve) <= MaxBar

\* Trading makes nothing: at the bar's price, cash and holdings are worth no more after
\* the two orders than before.
NoFreeLunch ==
  [][phase = "trade" =>
       cash' + (dead' + float') * price <= cash + (dead + float) * price]_vars

\* Money that has piled up is put to work (macro_engine.go:12): when more than three
\* injections can be spent and bars suffice, a macro order of at least 100 is decided on,
\* whichever trigger wins; a backtest may round it to no lot at all when it trades.
DeadlineForces ==
  phase = "trade" /\ out.spendable > 3 * Inject => out.macro >= 100

\* The value of the portfolio from the start, and the fall from one bar to another.
Value == <<InitialCapital>> \o curve
Fall(i, j) == (Value[i] - Value[j]) * maxDD.den

\* MaxDrawdown, kept up bar by bar, is the largest fall from any earlier value of the
\* curve that starts with the initial capital.
DrawdownRight ==
  /\ \A i, j \in DOMAIN Value : i <= j => Fall(i, j) <= maxDD.num * Value[i]
  /\ \E i, j \in DOMAIN Value : i <= j /\ Fall(i, j) = maxDD.num * Value[i]

\* Whichever of the lots a backtest builds up are sealed, both releases return a slice in
\* which they have moved what they say and touched no other lot: no seal is broken and
\* nothing young is released softly.
ReleasesSound ==
  \A sealed \in SUBSET DOMAIN lots :
    LET ls == [k \in DOMAIN lots |-> [lots[k] EXCEPT !.sealed = k \in sealed]]
        Unsealed == {k \in DOMAIN ls : ls[k].type = "dead" /\ k \notin sealed}
        Old == {k \in Unsealed : ls[k].at < bar * BarDays - 30 * Chromosome.softReleaseMonths}
    IN  /\ ReleaseSound(ls, Old, SoftRelease(ls, bar * BarDays, price, equity, Chromosome))
        /\ \A n \in {1, LotStep, dead} : ReleaseSound(ls, Unsealed, HardRelease(ls, n))

\* Every gene that a backtest may start from is legal once it has been clamped.
GenomeLegal == bar = 0 => ClampSound

-----------------------------------------------------------------------------
(* Inductive invariants of the proofs                                       *)

Lot == [type : {"dead", "float"}, amount : Nat, at : Int, sealed : BOOLEAN]
Output == [macro : Nat, micro : Int, spendable : Nat, target : Nat, release : Nat]

\* Types, with the bound that ties the last action to the bars seen and the length of the
\* curve to the bars traded.
Typed ==
  /\ phase \in {"step", "trade"}
  /\ bar \in 0 .. MaxBar /\ price \in Price
  /\ cash \in Nat /\ dead \in Nat /\ float \in Nat /\ equity \in Nat
  /\ lots \in Seq(Lot)
  /\ lastMacro \in 0 .. bar * BarDays
  /\ out \in Output
  /\ peak \in Nat \ {0}
  /\ maxDD \in [num : Nat, den : Nat \ {0}]
  /\ curve \in Seq(Nat)
  /\ Len(curve) = IF phase = "trade" THEN bar - 1 ELSE bar

\* The peak is the highest value so far; the drawdown is measured from it.
PeakInv ==
  /\ \A i \in DOMAIN Value : Value[i] <= peak
  /\ \E i \in DOMAIN Value : Value[i] = peak

DrawdownInv == Typed /\ PeakInv /\ DrawdownRight

=============================================================================
