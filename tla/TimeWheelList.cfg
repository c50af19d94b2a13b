CONSTANTS
  k1 = k1  k2 = k2  k3 = k3  NULL = NULL
  Conns = {k1, k2, k3}
  Slots = 2
  Timeout = 3
  MaxTick = 9
  MaxNoMem = 1
SPECIFICATION Spec
INVARIANTS
  WellLinked
PROPERTIES
  ListsAreSets
