SPECIFICATION FairSpec
CONSTANTS
  Instance = {i1}
  Slot = {k1}
  MaxBar = 2
  MaxClock = 1
  MaxFault = 1
  MaxRestart = 1
  MaxEvent = 2
  SenderWired = TRUE
INVARIANTS LedgerAgrees TimerBacked
PROPERTIES DeletedIsFinal BarCaughtUp
