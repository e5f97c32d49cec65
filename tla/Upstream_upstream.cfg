SPECIFICATION FairSpec
CONSTANTS
  r1 = r1 r2 = r2
  N = 3
  Requests = {r1, r2}
  Threshold = 2
  MaxChanges = 1
INVARIANTS TypeOK HalfOpenIsOneStrike TurnsAreFair
PROPERTIES NeverShutForGood HealthIsLearned
CHECK_DEADLOCK FALSE
