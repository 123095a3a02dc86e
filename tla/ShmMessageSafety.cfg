SPECIFICATION Spec

CONSTANTS
  Builder = {b1}
  Message = {m1, m2, m3}
  FirstSegmentSz = 1
  LeafSz = {2}
  PoolSz = 11
  None = None

SYMMETRY MessageSymmetry

INVARIANTS
  TypeOK
  ReaderNeverDangles
  ReaderSeesEmission
  ReaderStaysInside
  SegmentsGrow
  SegmentsStayFew
  FreedOnceRead

CHECK_DEADLOCK FALSE
