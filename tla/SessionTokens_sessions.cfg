SPECIFICATION Spec
CONSTANTS
  u1 = u1 q1 = q1 q2 = q2
  Nobody = Nobody
  Users = {u1}
  Requests = {q1, q2}
  MaxRefresh = 3
  MaxOneTime = 2
  MaxRows = 4
  Development = TRUE
  Federated = TRUE
  MaxFaults = 1
SYMMETRY HandlerSymmetry
INVARIANTS OneLiveToken SessionSurvives ResetEndsSessions OneTimeTokens
PROPERTY EndedStaysEnded
CHECK_DEADLOCK FALSE
