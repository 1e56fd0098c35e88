SPECIFICATION Spec
CONSTANTS
  contract = contract
  other = other
  news = news
  Receipts <- TwoReceipts
  Finds = {news}
  FiledOn <- FiledApart
  Class <- ClassTwo
  RunKeys <- TwoDays
  MaxGens = 1
  MaxDay = 2
  MaxAge = 1
  MaxFaults = 0
  Choices = {"existing", "rejected"}
  OldKeys = {}
CHECK_DEADLOCK FALSE
INVARIANTS FindIsTracked FindClosedOnEvidence
