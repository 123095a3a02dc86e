SPECIFICATION Spec

CONSTANTS
  Builder = {b1}
  Message = {m1, m2}
  FirstSegmentSz = 1
  LeafSz = {1}
  PoolSz = 3
  None = None

INVARIANTS
  NullErrCodeIsLegal

CHECK_DEADLOCK FALSE
