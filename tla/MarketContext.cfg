SPECIFICATION FairSpec
CONSTANTS
  Runners = {r1}
  r1 = r1
  r2 = r2
  NumCards = 2
  Lists <- FullList
  Slots = 9
  MinuteSlots = 3
  MaxFaults = 2
INVARIANTS
  TypeOK
  DoneRunIsBacked
PROPERTIES
  StartedRunEnds
  InvocationReports
CHECK_DEADLOCK FALSE
