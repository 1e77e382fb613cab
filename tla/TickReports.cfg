SPECIFICATION ReportsSpec
CONSTANTS
  Instance = {i1}
  Slot = {k1}
  MaxBar = 1
  MaxClock = 0
  MaxFault = 1
  MaxRestart = 1
  MaxEvent = 1
  SenderWired = TRUE
  Handler = {h1, h2}
  MaxReport = 2
SYMMETRY Symmetry
INVARIANTS HoldingsAgree CreditedOnce
