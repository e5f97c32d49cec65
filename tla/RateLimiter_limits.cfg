SPECIFICATION FairSpec
CONSTANTS
  g1 = g1 g2 = g2 r1 = r1 r2 = r2 r3 = r3
  Gateways = {g1, g2}
  Requests = {r1, r2, r3}
  MaxRequests = 1
  Window = 2
  MaxFaults = 1
INVARIANTS AtMostTwoWindows NoTtlIsAccounted
PROPERTY CountersRestart
CHECK_DEADLOCK FALSE
