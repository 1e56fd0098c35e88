SPECIFICATION Spec
CONSTANTS
  contract = contract
  other = other
  news = news
  Receipts <- OneReceipt
  Finds = {}
  FiledOn <- FiledBefore
  Class <- ClassOne
  RunKeys <- WithRerun
  MaxGens = 3
  MaxDay = 2
  MaxAge = 0
  MaxFaults = 1
  Choices = {"saved", "correction_stored", "rejected", "source_error"}
  OldKeys <- FirstRun
CHECK_DEADLOCK FALSE
INVARIANTS
  TypeOK
  HandleIsCommitted
  ClosedUnderContract
  CorrectionHasOriginal
  AdmittedWorkIsTracked
  DoneRunIsAccounted
PROPERTIES
  DecisionIsFinal
