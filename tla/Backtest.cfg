SPECIFICATION Spec
CONSTANTS
  MaxBar = 6
  BarDays = 20
  Price = {10, 20}
  Vol = {5, 10, 30}
  Weight = {0, 2, 4}
  InitialCapital = 1000
  Inject = 100
  LotStep = 10
  FeePct = 1
  VolMedianBars = 58
  Gene <- MCGene
  MonthBars = 2
  SeedCapital = 4
  MonthlyInject = 2
  EvalBars <- MCEvalBars
  Warmup = 1
INVARIANTS TypeOK DeadlineForces DrawdownRight ReleasesSound GenomeLegal BenchmarkRight
PROPERTIES NoFreeLunch
CHECK_DEADLOCK FALSE
