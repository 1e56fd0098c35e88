SPECIFICATION Spec
CONSTANTS
  Cards = {"target", "case"}
  Subjects <- MCSubjects
  Forecasts <- MCForecasts
  Quotes <- MCQuotes
  MaxClock = 1
  LastBar = 2
  MaxSets = 2
  MaxVersion = 2
  MaxObservations = 2
  ContextQuotes <- MCContextQuotes
  Charts <- MCCharts
  Cutoffs = {2}
  Judged = {"target"}
  Followed = {"case"}
  Windows <- MCWindows
  Holdouts = {h1, h2}
  Baseline = 12500
  CostBps = 8
  MinOverall = 1
  MinOos = 1
  ZSquared = 10000
  MaxRows = 9
  MaxContexts = 2
  MaxOutcomes = 2
  MaxPlans = 2
  MaxSnapshots = 2
  MaxEvaluations = 1
INVARIANTS
  TypeOK
  NoLookAhead
  CasesNeverDropOut
  LedgerFollowsVersions
  AnswerIsCurrent
  BuyReviewIsBacked
  ExitReviewIsFinal
SYMMETRY HoldoutSymmetry
CHECK_DEADLOCK FALSE
