SPECIFICATION Spec
CONSTANTS
  Instance = {i1}
  Slot = {k1, k2}
  MaxBar = 2
  MaxClock = 1
  MaxFault = 0
  MaxRestart = 0
  MaxEvent = 1
  SenderWired = TRUE
SYMMETRY Symmetry
INVARIANTS OncePerBar
PROPERTIES ImplementsOutbox BarMovesForward
