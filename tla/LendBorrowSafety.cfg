SPECIFICATION Spec
CONSTANTS
  Session = {s1, s2}
  Server = Server
  AppShm = AppShm
  AddrModulus = 16
  MapAddr <- SmallMapAddr
  PoolSize <- SmallPools
  ObjSize = 2
  MaxObjects = 1
  Null = Null
SYMMETRY SessionSymmetry
INVARIANTS
  TypeOK
  HandlesMeanTheirObject
  BlobsMeanTheirObject
  BorrowsStayInPool
PROPERTIES
  ImplementsReferences
