SPECIFICATION Spec
CONSTANTS
  Client = {c1}
  App = {a1}
  AppOf <- EveryAppUsed
  Session = {s1}
  MaxStarts = 1
  CreateFaults = FALSE
  OpenFaults = FALSE
  None = None
INVARIANT NoRaceWithDestructor
CHECK_DEADLOCK FALSE
