SPECIFICATION FairSpec
CONSTANTS
  d1 = d1
  None = None
  MaxClients = 1
  Documents = {d1}
  MaxPubs = 2
  MaxFaults = 1
INVARIANTS AcknowledgedIsDone NoSilentDivergence
PROPERTY AcceptedReachesAll
CHECK_DEADLOCK FALSE
