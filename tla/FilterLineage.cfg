SPECIFICATION Spec
CONSTANTS
  Evidence = {e1, e2}
  Scopes = {s1}
  Inputs = {i1, i2, i3}
  LineageKeys = {k1, k2}
  MaxVersion = 3
  MaxBump = 2
  MaxFilters = 3
  MaxCards = 2
SYMMETRY MCSymmetry
CHECK_DEADLOCK FALSE
INVARIANTS
  LineageIsChain
  LiveCardIsCurrent
  OneLiveCardPerLineage
PROPERTIES
  ScenarioFrozenWhileCurrent
