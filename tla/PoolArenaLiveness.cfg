SPECIFICATION FairSpec
CONSTANTS
  Process = {p1, p2}
  Faulty = {p1}
  Block = {b1, b2}
  Share = {s1, s2, s3}
  CtModulus = 4
  None = None
PROPERTIES
  LastOwnerReclaims
  UnlentObjectsGo
CHECK_DEADLOCK FALSE
