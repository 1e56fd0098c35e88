SPECIFICATION RaceSpec
CONSTANTS
  Users = {u1}
  NumCards = 1
  NumPlans = 1
  LineageOf <- MCLineageOf
  Buyable = {1}
  CardQty = 3
  CardForm = "column"
  Qtys = {2, 3}
  Amounts = {7}
  Overrides <- MCOverrides
  StopLoss = 1
  PriceCap = 3
  TakeProfit <- MCTakeProfit
  TickKeys = {k1, k2, k3, k4}
  Ticks <- MCTicks
  NoTerms = NoTerms
SYMMETRY MCSymmetry
CHECK_DEADLOCK FALSE
PROPERTY
  RevocationIsFinal
