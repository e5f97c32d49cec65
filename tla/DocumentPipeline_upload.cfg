SPECIFICATION UploadSpec
CONSTANTS
  c1 = c1 c2 = c2
  None = None
  Docs = {c1}
  MaxAttempts = 2
  MaxRequests = 1
  MaxFaults = 0
PROPERTY UploadReachesOcr
CHECK_DEADLOCK FALSE
