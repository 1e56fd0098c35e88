SPECIFICATION FairSpec
CONSTANTS
  Threads = {t1, t2}
  NoThread = NoThread
  t1 = t1
  t2 = t2
  MaxTokens = 3
  MaxCalls = 2
INVARIANTS
  OneLiveToken
  LiveTokenIsStored
PROPERTIES
  CallsReturn
CHECK_DEADLOCK FALSE
