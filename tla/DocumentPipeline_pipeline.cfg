SPECIFICATION FairSpec
CONSTANTS
  c1 = c1 c2 = c2
  None = None
  Docs = {c1}
  MaxAttempts = 2
  MaxRequests = 2
  MaxFaults = 1
INVARIANTS TypeOK KycIsJustified ReviewedOnce KycRunsAreBounded
PROPERTY CleanDocumentReachesKyc
CHECK_DEADLOCK FALSE
