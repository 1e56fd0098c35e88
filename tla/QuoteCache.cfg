SPECIFICATION FairSpec
CONSTANTS
  Threads = {t1, t2}
  NoThread = NoThread
  t1 = t1
  t2 = t2
  Symbols = {"A", "B"}
  PlanSymbol = "A"
  MaxEntries = 1
  MaxJobs = 2
INVARIANTS
  SingleFlight
  RegistryMatchesUsers
  RepliesAreTheReceipt
PROPERTIES
  RequestsReturn
CHECK_DEADLOCK FALSE
