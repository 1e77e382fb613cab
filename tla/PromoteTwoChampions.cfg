SPECIFICATION Spec
CONSTANTS
  Gene = {g1, g2}
  Promoter = {p1, p2}
  Reader = {r1}
  NoGene = NoGene
  MaxPromote = 2
  MaxFault = 0
SYMMETRY Symmetry
INVARIANTS OneChampion
CHECK_DEADLOCK FALSE
