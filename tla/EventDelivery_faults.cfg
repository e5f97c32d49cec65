SPECIFICATION Spec
CONSTANTS
  j1 = j1 j2 = j2 j3 = j3
  w1 = w1 w2 = w2 w3 = w3
  k1 = k1 k2 = k2
  None = None
  Jobs = {j1, j2, j3}
  Keys = {k1}
  KeyOf <- OneKey
  Malformed = {}
  Workers = {w1, w2}
  Requests = {r1}
  MaxAttempts = 2
  MaxStalledCount = 1
  Faults = {"handler_error", "crash", "lock_loss", "redis_error", "expiry"}
  MaxFaults = 2
SYMMETRY SameKeySymmetry
INVARIANTS TypeOK HandlerExclusion AcknowledgedMeansApplied DeadLetteredIsFinal
PROPERTIES ReplayKeepsEvent ImplementsContract
CHECK_DEADLOCK FALSE
