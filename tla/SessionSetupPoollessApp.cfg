SPECIFICATION Spec
CONSTANTS
  Client = {c1, c2}
  App = {a1}
  AppOf <- EveryAppUsed
  Session = {s1, s2}
  MaxStarts = 1
  CreateFaults = TRUE
  OpenFaults = FALSE
  None = None
INVARIANT SetupOnlyWithAppPool
CHECK_DEADLOCK FALSE
