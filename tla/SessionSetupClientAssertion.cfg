SPECIFICATION Spec
CONSTANTS
  Client = {c1}
  App = {a1}
  AppOf <- EveryAppUsed
  Session = {s1}
  MaxStarts = 2
  CreateFaults = FALSE
  OpenFaults = FALSE
  None = None
INVARIANT ClientAssertionsHold
CHECK_DEADLOCK FALSE
