----------------------------- MODULE MCBacktest -----------------------------
(* Backtest for TLC: an aggressive chromosome, so that every engine acts, and *)
(* the functions of Benchmark over all short series of bars.                 *)
EXTENDS Backtest, Benchmark

MCGene ==
  [emaShort |-> 30, emaLong |-> 57, interval |-> 30, accelMultiplier |-> 2,
   softReleaseMonths |-> 1, maxSoftReleasePct |-> 50, deadHoldTarget |-> 20,
   microReserve |-> 50]

MCEvalBars == [m6 |-> 1, y2 |-> 2, y5 |-> 4, full |-> 0]

\* Series with gaps and with bars without a price: some of five times, with closes.
Times(n) == {t \in [1 .. n -> 1 .. 5] : \A i, j \in 1 .. n : i < j => t[i] < t[j]}
Series ==
  UNION {{[i \in 1 .. n |-> [at |-> t[i], close |-> closes[i]]] :
            t \in Times(n), closes \in [1 .. n -> 0 .. 2]} : n \in 1 .. 5}

\* Whatever series a backtest is about to run on, the passive benchmark over it buys at the
\* first price of every 30 days, with the return and the drawdown of that (ghost_dca.go:27),
\* and its crucible windows are suffixes of one another up to all bars (crucible.go:30).
BenchmarkRight ==
  bar = 0 => \A bars \in Series : GhostSound(bars) /\ WindowsSound(bars)
=============================================================================
