SPECIFICATION Spec
CONSTANTS
  Thread = {t1, t2}
  Arena = {a1, a2}
  Object = {o1, o2, o3}
  ArenaOf <- EveryArenaUsed
  Buffer = {i1, i2, i3}
  MaxDepth = 3
  None = None
SYMMETRY ThreadSymmetry
INVARIANTS
  TypeOK
  InnermostIsActive
  InnerBuffersAtHome
PROPERTIES
  ImplementsAllocators
