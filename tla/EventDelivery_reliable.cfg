SPECIFICATION FairSpec
CONSTANTS
  j1 = j1 j2 = j2 j3 = j3
  w1 = w1 w2 = w2 w3 = w3
  k1 = k1 k2 = k2
  None = None
  Jobs = {j1, j2, j3}
  Keys = {k1, k2}
  KeyOf <- TwoKeys
  Malformed = {j3}
  Workers = {w1, w2}
  Requests = {}
  MaxAttempts = 5
  MaxStalledCount = 1
  Faults = {}
  MaxFaults = 2
INVARIANT ExhaustedIsAccounted
PROPERTY EventuallyApplied
CHECK_DEADLOCK FALSE
