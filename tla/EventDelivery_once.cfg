SPECIFICATION FairSpec
CONSTANTS
  j1 = j1 j2 = j2 j3 = j3
  w1 = w1 w2 = w2 w3 = w3
  k1 = k1 k2 = k2
  None = None
  Jobs = {j1, j2}
  Keys = {k1, k2}
  KeyOf <- OwnKey
  Malformed = {}
  Workers = {w1, w2}
  Requests = {}
  MaxAttempts = 3
  MaxStalledCount = 1
  Faults = {"handler_error", "crash", "lost_reply"}
  MaxFaults = 2
INVARIANT AppliedAtMostOnce
PROPERTY EveryJobSettles
CHECK_DEADLOCK FALSE
