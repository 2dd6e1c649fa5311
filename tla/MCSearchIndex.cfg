CONSTANTS
  w1 = w1
  w2 = w2
  w3 = w3
  x = x
  y = y
  Entities = {x, y}
  Indexers = {w1, w2, w3}
  MaxOther = 1
SPECIFICATION SearchSpec
INVARIANTS
  IndexIsWholeVersions
SYMMETRY Symm
CHECK_DEADLOCK FALSE
