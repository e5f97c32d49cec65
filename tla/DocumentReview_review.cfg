SPECIFICATION Spec
CONSTANTS
  d1 = d1 d2 = d2 q1 = q1 q2 = q2 q3 = q3
  Documents = {d1, d2}
  Requests = {q1, q2, q3}
  Readings <- SomeReadings
  MaxRuns = 2
  MaxActs = 2
  MaxFaults = 1
SYMMETRY HandlerSymmetry
INVARIANTS DocumentAgrees ChecksOfOneRun LatestRunIsComplete
PROPERTY EscalationRespectsDecisions
CHECK_DEADLOCK FALSE
