SPECIFICATION Spec
CONSTANTS
  Client = {c1, c2}
  App = {a1}
  AppOf <- EveryAppUsed
  Session = {s1, s2}
  MaxStarts = 3
  CreateFaults = TRUE
  OpenFaults = TRUE
  None = None
SYMMETRY OneAppSymmetry
INVARIANTS
  TypeOK
  LeakOnlyByCrash
  PoolAwaitsClient
  AppPoolAwaitsClient
  PeersShareArenas
  NobodyWaitsInVain
CHECK_DEADLOCK FALSE
