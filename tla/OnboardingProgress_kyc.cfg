SPECIFICATION Spec
CONSTANTS
  c1 = c1 d1 = d1 d2 = d2 d3 = d3 d4 = d4 d5 = d5 d6 = d6 y1 = y1
  None = None
  Events = {c1, d1, d2, y1}
  Kind <- MCKind
  StepOf <- MCStepOf
  Earlier = {{"identity", "company_documents", "financial_documents"}}
  Slots = 1
  UpsertLocks = TRUE
  MaxAttempts = 5
  MaxFaults = 0
PROPERTY FinalizedStaysFinal
CHECK_DEADLOCK FALSE
