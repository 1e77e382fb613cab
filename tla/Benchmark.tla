------------------------------ MODULE Benchmark ------------------------------
(***************************************************************************)
(* What the evolution is to measure a strategy by: the passive benchmark   *)
(* (internal/quant/ghost_dca.go) and the time windows it is tested over    *)
(* (internal/quant/crucible.go).  Pure functions of a sequence of bars in  *)
(* the order of their times; a bar is [at, close], at in whole bar lengths.*)
(* Shares are whole: the amounts are multiples of the closes.              *)
(***************************************************************************)
EXTENDS Integers, Sequences, SequencesExt

CONSTANTS
  MonthBars,      \* the 30 days that stand for a month
  SeedCapital, MonthlyInject,   \* GhostDCAConfig
  EvalBars,       \* length of the evaluation by the label of a window, 0 for all bars
  Warmup          \* warmupDays

ASSUME BenchmarkAssumption ==
  /\ MonthBars \in Nat \ {0} /\ SeedCapital \in Nat \ {0} /\ MonthlyInject \in Nat
  /\ Warmup \in Nat
  /\ IsFiniteSet(DOMAIN EvalBars) /\ \A l \in DOMAIN EvalBars : EvalBars[l] \in Nat
  /\ \E l \in DOMAIN EvalBars : EvalBars[l] = 0

-----------------------------------------------------------------------------
(* SimulateGhostDCA                                                         *)

Fraction(num, den) == [num |-> num, den |-> den]
Below(a, b) == a.num * b.den < b.num * a.den
Equal(a, b) == a.num * b.den = b.num * a.den

\* "Approximate: every 30 days = one injection"
Month(bar) == bar.at \div MonthBars

\* A bar without a price is passed over.  The first bar takes the seed capital; a bar of a
\* later 30 days than the last purchase takes one injection, however many of them have passed.
InjectEveryBar(s, bar) == Month(bar) >= s.month   \* mutant: >= for >
NewMonth(s, bar) == Month(bar) > s.month

GhostBar(s, bar, first) ==
  LET inject == IF ~first /\ NewMonth(s, bar) THEN MonthlyInject ELSE 0
      buys == first \/ NewMonth(s, bar)
      shares == s.shares + IF buys THEN (s.cash + inject) \div bar.close ELSE 0
      cash == IF buys THEN 0 ELSE s.cash IN
  [shares |-> shares, cash |-> cash, injected |-> s.injected + inject,
   month |-> IF buys THEN Month(bar) ELSE s.month,
   navs |-> Append(s.navs, shares * bar.close + cash),
   flows |-> IF buys /\ ~first THEN Append(s.flows, bar.at) ELSE s.flows]

Ghost(bars) ==
  FoldLeftDomain(LAMBDA s, i : IF bars[i].close <= 0 THEN s ELSE GhostBar(s, bars[i], i = 1),
                 [shares |-> 0, cash |-> SeedCapital, injected |-> SeedCapital, month |-> -1,
                  navs |-> << >>, flows |-> << >>],
                 bars)

\* MaxDrawdownNAV keeps the peak and the deepest fall from it.
HigherPeak(peak, nav) == IF nav > peak THEN nav ELSE peak

MaxDrawdown(navs) ==
  IF Len(navs) < 2 THEN Fraction(0, 1)
  ELSE FoldLeft(LAMBDA s, nav :
                  LET peak == HigherPeak(s.peak, nav)
                      fall == Fraction(peak - nav, peak)
                  IN  [peak |-> peak, fall |-> IF Below(s.fall, fall) THEN fall ELSE s.fall],
                [peak |-> navs[1], fall |-> Fraction(0, 1)], navs).fall

\* ModifiedDietzROI: a flow counts by the share of the time that is left after it.
Days(bars) == Last(bars).at - bars[1].at
Weighted(bars, flows) ==
  FoldLeft(LAMBDA w, at : w + MonthlyInject * (Last(bars).at - at), 0, flows)
ROI(bars, end, flows) ==
  LET days == Days(bars) IN
  IF days = 0 THEN Fraction(end - SeedCapital, SeedCapital)
  ELSE Fraction((end - SeedCapital - Len(flows) * MonthlyInject) * days,
                SeedCapital * days + Weighted(bars, flows))

-----------------------------------------------------------------------------
(* BuildCrucibleWindows                                                     *)

Label == DOMAIN EvalBars

EvalStart(bars, label) ==
  IF EvalBars[label] > 0 THEN Last(bars).at - EvalBars[label] ELSE bars[1].at

\* The bars from a time on.
From(bars, start) ==
  FoldLeft(LAMBDA kept, b : IF b.at >= start THEN Append(kept, b) ELSE kept, <<>>, bars)

WindowBars(bars, label) == From(bars, EvalStart(bars, label) - Warmup)

\* Sorted by length; the sort need not keep the order of windows of one length.
CrucibleOrders(bars) ==
  {order \in SetToSeqs(Label) :
     \A i, j \in DOMAIN order :
       i < j => Len(WindowBars(bars, order[i])) <= Len(WindowBars(bars, order[j]))}

-----------------------------------------------------------------------------
(* Reference definitions                                                    *)

\* Every 30 days since the epoch a period begins (ghost_dca.go:61).  These are not the months of
\* the calendar that the head of the function (ghost_dca.go:32) speaks of.
PeriodBegins(after, by) == \E t \in after + 1 .. by : t % MonthBars = 0

\* The benchmark buys shares for the seed capital at the first bar, and shares for one
\* injection at each later bar with a price before which a period has begun since every
\* earlier one.  Its drawdown is the deepest fall of the value between any two bars.
\* Injections are no return: a market that stands still yields none, and without injections
\* the return is that of the capital.  (The first bar is to have a price: otherwise the code
\* counts an injection too many.)
GhostSound(bars) ==
  LET g == Ghost(bars)
      priced == {i \in DOMAIN bars : bars[i].close > 0}
      buys == {i \in priced : \A j \in priced : j < i => PeriodBegins(bars[j].at, bars[i].at)}
      bought == [i \in priced |-> (IF i = 1 THEN SeedCapital ELSE MonthlyInject) \div bars[i].close]
      end == Last(g.navs)
      Fall(i, j) == Fraction(g.navs[i] - g.navs[j], g.navs[i])
      falls == {Fall(i, j) : i \in DOMAIN g.navs, j \in DOMAIN g.navs}
      roi == ROI(bars, end, g.flows) IN
  1 \in priced =>
    /\ g.injected = SeedCapital + MonthlyInject * (Cardinality(buys) - 1)
    /\ end = SumFunctionOnSet(bought, buys) * bars[Max(priced)].close
    /\ \A i, j \in DOMAIN g.navs : i <= j => ~Below(MaxDrawdown(g.navs), Fall(i, j))
    /\ MaxDrawdown(g.navs) \in falls \/ MaxDrawdown(g.navs).num = 0
    /\ (\A i, j \in priced : bars[i].close = bars[j].close) => roi.num = 0
    /\ buys = {1} => Equal(roi, Fraction(end - SeedCapital, SeedCapital))

\* In the order of the windows each one ends with all bars of the one before it, and the last
\* has all bars there are.
IsSuffixOf(short, long) ==
  short = SubSeq(long, Len(long) - Len(short) + 1, Len(long))
WindowsSound(bars) ==
  \A order \in CrucibleOrders(bars) :
    /\ \A i \in 1 .. Len(order) - 1 :
         IsSuffixOf(WindowBars(bars, order[i]), WindowBars(bars, order[i + 1]))
    /\ WindowBars(bars, Last(order)) = bars
=============================================================================
