SPECIFICATION Spec
CONSTANTS
  Runners = {r1, r2}
  r1 = r1
  r2 = r2
  NumCards = 1
  Lists <- FullList
  Slots = 7
  MinuteSlots = 2
  MaxFaults = 2
INVARIANTS
  SuccessIsDurable
  ReportedFailureIsTerminal
SYMMETRY Twins
CHECK_DEADLOCK FALSE
