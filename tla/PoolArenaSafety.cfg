SPECIFICATION Spec
CONSTANTS
  Process = {p1, p2, p3}
  Faulty = {p1, p2, p3}
  Block = {b1, b2, b3}
  Share = {s1, s2, s3, s4}
  CtModulus = 5
  None = None
SYMMETRY Symmetry
INVARIANTS
  TypeOK
  OwnerCountExact
  NoUseAfterFree
  SoleDestroyer
  BlocksAccountedFor
PROPERTIES
  ImplementsOwnership
  NoResurrection
CHECK_DEADLOCK FALSE
