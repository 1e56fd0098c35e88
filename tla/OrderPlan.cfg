SPECIFICATION Spec
CONSTANTS
  Users = {u1}
  NumCards = 2
  NumPlans = 2
  LineageOf <- MCLineageOf
  Buyable = {1}
  CardQty = 2
  CardForm = "column"
  Qtys = {2, 3}
  Amounts = {4, 7}
  Overrides <- MCOverrides
  StopLoss = 1
  PriceCap = 3
  TakeProfit <- MCTakeProfit
  TickKeys = {k1, k2}
  Ticks <- MCTicks
  NoTerms = NoTerms
SYMMETRY MCSymmetry
CHECK_DEADLOCK FALSE
INVARIANTS
  RevokedCardHasNoEntry
  DecisionGovernsEntry
  OneEntryPerHash
PROPERTIES
  ImplementsLedger
