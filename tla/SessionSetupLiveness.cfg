SPECIFICATION FairSpec
CONSTANTS
  Client = {c1, c2}
  App = {a1, a2}
  AppOf <- EveryAppUsed
  Session = {s1, s2}
  MaxStarts = 1
  CreateFaults = TRUE
  OpenFaults = TRUE
  None = None
PROPERTIES
  ConnectEnds
  DestructorsEnd
CHECK_DEADLOCK FALSE
