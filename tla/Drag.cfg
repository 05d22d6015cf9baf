CONSTANTS
  Conns = {c1, c2}
  Surfaces = {s1, s2}
  MaxId = 4
  MaxOffers = 2
SPECIFICATION Spec
INVARIANTS
  OwnObjectsKept
