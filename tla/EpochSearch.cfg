SPECIFICATION EpochSearchSpec
CONSTANTS
  Request = {r1, r2}
  MaxTask = 2
  MaxFault = 1
  MaxRestart = 1
  Gene = {g1, g2, g3}
  Twin = {g2, g3}
  Seed = g1
  MaxScore = 2
  Worker = {w1, w2}
  PopSize = 3
  EliteCount = 1
  MaxGenerations = 3
  Patience = 2
  RampSteps = 1
  MinDelta = 2
INVARIANTS SingleFlight RunningRowsLive GeneAfterRow SearchHasOwner FitnessRight ChampionIsBest EarlyStopJustified
PROPERTIES SlotFreed
CHECK_DEADLOCK FALSE
