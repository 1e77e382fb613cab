SPECIFICATION Spec
CONSTANTS
  Gene = {g1, g2, g3}
  Promoter = {p1, p2}
  Reader = {r1}
  NoGene = NoGene
  MaxPromote = 4
  MaxFault = 1
SYMMETRY Symmetry
INVARIANTS OneAtATime CacheCoherent CachedWasPromoted
PROPERTIES ChampionKept
CHECK_DEADLOCK FALSE
