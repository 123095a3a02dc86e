--------------------------- MODULE LendBorrowProofs ---------------------------
(***************************************************************************)
(* Proofs about LendBorrow, for any word width, any pools and sizes, any   *)
(* sessions, and any way the kernel maps the pools in each process.        *)
(***************************************************************************)
EXTENDS LendBorrow, TLAPS

\* Objects in use lie in their pool; blobs go to an end of their session, which
\* has the pool of the object.
ObjectsPlaced ==
  /\ \A p \in Process : \A h \in held[p] : FitsInPool(h.obj)
  /\ \A m \in sent : /\ FitsInPool(m.obj)
                     /\ m.to \in Ends(m.session)
                     /\ m.obj.pool \in {m.session, AppShm}

IInv ==
  /\ TypeOK
  /\ Layout(base)
  /\ ObjectsPlaced
  /\ HandlesMeanTheirObject
  /\ BlobsMeanTheirObject

-----------------------------------------------------------------------------
(* Arithmetic of words. *)

\* Both operations give a word.
LEMMA WordType ==
  /\ \A a, b \in Addr : WordMinus(a, b) \in Addr
  /\ \A a \in Addr, x \in Int : WordPlus(a, x) \in Addr
  /\ \A a \in Addr : AsPtrdiff(a) \in Int
BY ModulusAssumption DEF Addr, WordMinus, WordPlus, AsPtrdiff

\* A difference that is not negative does not wrap.
LEMMA WordMinusExact ==
  ASSUME NEW a \in Addr, NEW b \in Addr, a >= b
  PROVE  WordMinus(a, b) = a - b
<1>1. /\ a + AddrModulus - b = 1 * AddrModulus + (a - b)
      /\ a - b \in 0 .. AddrModulus - 1
  BY ModulusAssumption DEF Addr
<1> QED BY <1>1, ModulusAssumption DEF Addr, WordMinus

\* An offset survives being a ptrdiff_t and being added to another base.
LEMMA OffsetSurvives ==
  ASSUME NEW a \in Addr, NEW x \in Addr, a + x < AddrModulus
  PROVE  WordPlus(a, AsPtrdiff(x)) = a + x
<1>1. CASE x < AddrModulus \div 2
  <2>1. AsPtrdiff(x) = x /\ a + x \in 0 .. AddrModulus - 1
    BY <1>1, ModulusAssumption DEF AsPtrdiff, Addr
  <2> QED BY <2>1, ModulusAssumption DEF WordPlus
<1>2. CASE ~(x < AddrModulus \div 2)
  <2>1. /\ AsPtrdiff(x) = x - AddrModulus
        /\ a + (x - AddrModulus) = (-1) * AddrModulus + (a + x)
        /\ a + x \in 0 .. AddrModulus - 1
    BY <1>2, ModulusAssumption DEF AsPtrdiff, Addr
  <2> QED BY <2>1, ModulusAssumption DEF WordPlus
<1> QED BY <1>1, <1>2

-----------------------------------------------------------------------------
(* One pool, mapped at an address. *)

\* A word that means an object of the pool is recognized: by its first byte and
\* by its last.
LEMMA InsideIsAccepted ==
  ASSUME NEW pool_base \in Addr, NEW size \in Addr, pool_base + size <= AddrModulus,
         NEW at \in Addr, at + ObjSize <= size
  PROVE  /\ pool_base + at \in Addr
         /\ IsAddrInArena(pool_base, size, pool_base + at)
         /\ IsObjInArena(pool_base, size, pool_base + at)
         /\ WordMinus(pool_base + at, pool_base) = at
<1>1. pool_base + at \in Addr /\ ObjSize \in Nat \ {0}
  BY SizeAssumption, ModulusAssumption DEF Addr
<1>2. WordMinus(pool_base + at, pool_base) = at
  BY <1>1, WordMinusExact DEF Addr
<1> QED BY <1>1, <1>2 DEF IsAddrInArena, IsObjInArena, Addr

\* Only words inside are recognized as inside.
LEMMA AcceptedIsInside ==
  ASSUME NEW pool_base \in Addr, NEW size \in Addr, NEW addr \in Addr
  PROVE  /\ IsAddrInArena(pool_base, size, addr) =>
              pool_base <= addr /\ addr < pool_base + size
         /\ IsObjInArena(pool_base, size, addr) =>
              pool_base <= addr /\ addr + ObjSize <= pool_base + size
<1>1. ASSUME addr >= pool_base PROVE WordMinus(addr, pool_base) = addr - pool_base
  BY <1>1, WordMinusExact
<1> QED BY <1>1, SizeAssumption DEF IsAddrInArena, IsObjInArena, Addr

\* What Pool_arena::lend_object() puts in a blob Pool_arena::borrow_object() finds,
\* in another process.
LEMMA OffsetRoundTrip ==
  ASSUME NEW b1 \in Addr, NEW b2 \in Addr, NEW size \in Addr,
         b1 + size <= AddrModulus, b2 + size <= AddrModulus,
         NEW at \in Addr, at + ObjSize <= size
  PROVE  HandleAt(b2, size, OffsetFromPoolBase(b1, b1 + at)) = b2 + at
<1>1. WordMinus(b1 + at, b1) = at
  BY InsideIsAccepted
<1>2. b2 + at < AddrModulus /\ IsObjInArena(b2, size, b2 + at)
  <2>1. b2 + at \in Addr /\ IsObjInArena(b2, size, b2 + at)
    BY InsideIsAccepted
  <2> QED BY <2>1, ModulusAssumption DEF Addr
<1>3. WordPlus(b2, AsPtrdiff(at)) = b2 + at
  BY <1>2, OffsetSurvives
<1> QED BY <1>1, <1>2, <1>3 DEF HandleAt, OffsetFromPoolBase

\* A handle which Pool_arena::borrow_object() returns is inside the pool.
LEMMA HandleInside ==
  ASSUME NEW b \in Addr, NEW size \in Addr, NEW x \in Int, HandleAt(b, size, x) # Null
  PROVE  b <= HandleAt(b, size, x) /\ HandleAt(b, size, x) + ObjSize <= b + size
<1>1. WordPlus(b, x) \in Addr
  BY WordType
<1> QED BY <1>1, AcceptedIsInside DEF HandleAt

-----------------------------------------------------------------------------
(* The two pools of a session. *)

\* Each end of a session has both pools mapped, at words, within memory.
LEMMA MappedAtEnds ==
  ASSUME TypeOK, Layout(base), NEW s \in Session, NEW p \in Ends(s), NEW k \in {s, AppShm}
  PROVE  /\ p \in Process /\ k \in Pool /\ k \in Mapped(p)
         /\ base[p][k] \in Addr /\ PoolSize[k] \in Addr
         /\ base[p][k] + PoolSize[k] <= AddrModulus
<1>1. p \in Process /\ k \in Pool /\ k \in Mapped(p)
  BY DEF Ends, Process, Pool, Mapped
<1> QED BY <1>1, SizeAssumption DEF TypeOK, Layout

\* Session_impl::borrow_object() undoes Session_impl::lend_object(): a handle to an
\* object in either pool arrives as the other end's handle to that object.
LEMMA LendThenBorrow ==
  ASSUME TypeOK, Layout(base), NEW s \in Session, NEW p \in Ends(s), NEW q \in Ends(s),
         NEW o \in Object, o.pool \in {s, AppShm}, FitsInPool(o)
  PROVE  BorrowedHandle(q, s, LentBlob(p, s, base[p][o.pool] + o.at)) = base[q][o.pool] + o.at
<1> DEFINE addr == base[p][o.pool] + o.at
<1>1. /\ \A k \in {s, AppShm} : /\ base[p][k] \in Addr /\ base[q][k] \in Addr
                               /\ PoolSize[k] \in Addr
                               /\ base[p][k] + PoolSize[k] <= AddrModulus
                               /\ base[q][k] + PoolSize[k] <= AddrModulus
      /\ o.at \in Addr /\ o.at + ObjSize <= PoolSize[o.pool]
      /\ s # AppShm
  BY MappedAtEnds, NamesAssumption DEF Object, FitsInPool
<1>2. addr \in Addr /\ IsAddrInArena(base[p][o.pool], PoolSize[o.pool], addr)
  BY <1>1, InsideIsAccepted
<1>3. IsAddrInArena(base[p][s], PoolSize[s], addr) <=> o.pool = s
  <2>1. ASSUME IsAddrInArena(base[p][s], PoolSize[s], addr), o.pool # s
        PROVE  FALSE
    <3>1. o.pool = AppShm /\ base[p][s] <= addr /\ addr < base[p][s] + PoolSize[s]
      BY <1>1, <1>2, <2>1, AcceptedIsInside
    <3>2. base[p][AppShm] <= addr /\ addr < base[p][AppShm] + PoolSize[AppShm]
      BY <1>1, <1>2, <3>1, AcceptedIsInside
    <3>3. ~Overlap(base, p, s, AppShm)
      BY <1>1, MappedAtEnds DEF Layout
    <3> QED BY <1>1, <1>2, <3>1, <3>2, <3>3 DEF Overlap, Addr
  <2> QED BY <1>2, <2>1
<1>4. HandleAt(base[q][o.pool], PoolSize[o.pool],
               OffsetFromPoolBase(base[p][o.pool], addr)) = base[q][o.pool] + o.at
  BY <1>1, OffsetRoundTrip
<1> HIDE DEF addr
<1>5. LentBlob(p, s, addr) =
        [ size |-> OffsetBytes + ScopeBytes,
          offset |-> OffsetFromPoolBase(base[p][o.pool], addr),
          scope_id |-> IF o.pool = s THEN S_SCOPE_ID_SESSION ELSE S_SCOPE_ID_APP ]
  BY <1>3 DEF LentBlob
<1>6. BorrowedHandle(q, s, LentBlob(p, s, addr)) =
        HandleAt(base[q][o.pool], PoolSize[o.pool], OffsetFromPoolBase(base[p][o.pool], addr))
  BY <1>5 DEF BorrowedHandle, S_SCOPE_ID_SESSION, S_SCOPE_ID_APP
<1> QED BY <1>4, <1>6 DEF addr

-----------------------------------------------------------------------------
(* The invariants. *)

\* No handle and no blob to begin with.
LEMMA InitIInv == Init => IInv
<1> SUFFICES ASSUME Init PROVE IInv
  OBVIOUS
<1>1. {0} \cup MapAddr \subseteq Addr
  BY SizeAssumption, ModulusAssumption DEF Addr
<1>2. TypeOK
  BY <1>1 DEF Init, TypeOK
<1> QED
  BY <1>2 DEF Init, IInv, ObjectsPlaced, HandlesMeanTheirObject, BlobsMeanTheirObject

\* The layout of the processes' memory does not change, so that only what a step
\* adds to the handles and the blobs matters.
LEMMA NextIInv == IInv /\ [Next]_vars => IInv'
<1> SUFFICES ASSUME IInv, [Next]_vars PROVE IInv'
  OBVIOUS
<1> USE DEF IInv
<1>1. ASSUME NEW p \in Process, NEW o \in Object, Construct(p, o)
      PROVE  IInv'
  <2> DEFINE h == [addr |-> base[p][o.pool] + o.at, obj |-> o]
  <2>1. h.addr \in Addr
    <3>1. /\ o.pool \in Pool /\ o.at \in Addr /\ o.pool \in Mapped(p)
          /\ o.at + ObjSize <= PoolSize[o.pool]
      BY <1>1 DEF Construct, Object, FitsInPool
    <3>2. base[p][o.pool] \in Addr /\ base[p][o.pool] + PoolSize[o.pool] <= AddrModulus
      BY <3>1 DEF TypeOK, Layout
    <3> QED BY <3>1, <3>2, InsideIsAccepted, SizeAssumption
  <2>2. /\ base' = base /\ sent' = sent
        /\ held' = [held EXCEPT ![p] = @ \cup {h}]
        /\ o.pool \in Mapped(p) /\ FitsInPool(o)
        /\ h.obj = o /\ h.addr = base[p][o.pool] + o.at
    BY <1>1 DEF Construct
  <2>3. h \in [addr : Addr, obj : Object]
    BY <2>1
  <2> HIDE DEF h
  <2>4. TypeOK'
    BY <2>2, <2>3 DEF TypeOK
  <2>5. ObjectsPlaced' /\ HandlesMeanTheirObject'
    BY <2>2 DEF ObjectsPlaced, HandlesMeanTheirObject, TypeOK, FitsInPool
  <2>6. BlobsMeanTheirObject'
    BY <2>2 DEF BlobsMeanTheirObject, BorrowedHandle
  <2> QED BY <2>2, <2>4, <2>5, <2>6
<1>2. ASSUME NEW p \in Process, NEW h \in held[p], NEW s \in Session, LendObject(p, s, h)
      PROVE  IInv'
  <2> DEFINE q == OtherEnd(s, p)
             m == [session |-> s, to |-> q, obj |-> h.obj, blob |-> LentBlob(p, s, h.addr)]
  <2>1. /\ base' = base /\ held' = held /\ sent' = sent \cup {m}
        /\ p \in Ends(s) /\ q \in Ends(s) /\ q \in Process
        /\ h.obj \in Object /\ h.obj.pool \in {s, AppShm}
        /\ FitsInPool(h.obj)
        /\ h.addr \in Addr /\ h.addr = base[p][h.obj.pool] + h.obj.at
    BY <1>2
    DEF LendObject, OtherEnd, Ends, Process, TypeOK, ObjectsPlaced, HandlesMeanTheirObject
  <2>2. BorrowedHandle(q, s, LentBlob(p, s, h.addr)) = base[q][h.obj.pool] + h.obj.at
    BY <2>1, LendThenBorrow
  <2>3. LentBlob(p, s, h.addr) \in Blob
    <3>1. \A k \in {s, AppShm} : OffsetFromPoolBase(base[p][k], h.addr) \in Ptrdiff
      BY <2>1, MappedAtEnds, WordType DEF OffsetFromPoolBase, Ptrdiff
    <3> QED
      BY <3>1 DEF LentBlob, Blob, OffsetBytes, ScopeBytes, S_SCOPE_ID_SESSION, S_SCOPE_ID_APP
  <2>4. /\ m \in [session : Session, to : Process, obj : Object, blob : Blob]
        /\ m.session = s /\ m.to = q /\ m.obj = h.obj /\ m.blob = LentBlob(p, s, h.addr)
    BY <2>1, <2>3
  <2> HIDE DEF m, q
  <2>5. TypeOK'
    BY <2>1, <2>4 DEF TypeOK
  <2>6. ObjectsPlaced' /\ HandlesMeanTheirObject'
    BY <2>1, <2>4 DEF ObjectsPlaced, HandlesMeanTheirObject, FitsInPool
  <2>7. BlobsMeanTheirObject'
    BY <2>1, <2>2, <2>4 DEF BlobsMeanTheirObject, BorrowedHandle
  <2> QED BY <2>1, <2>5, <2>6, <2>7
<1>3. ASSUME NEW m \in sent, BorrowObject(m)
      PROVE  IInv'
  <2> DEFINE h == [addr |-> BorrowedHandle(m.to, m.session, m.blob), obj |-> m.obj]
  <2>1. /\ m.session \in Session /\ m.to \in Ends(m.session) /\ m.to \in Process
        /\ m.obj \in Object /\ m.obj.pool \in {m.session, AppShm} /\ FitsInPool(m.obj)
        /\ BorrowedHandle(m.to, m.session, m.blob) = base[m.to][m.obj.pool] + m.obj.at
    BY DEF TypeOK, ObjectsPlaced, BlobsMeanTheirObject
  <2>2. /\ h.addr \in Addr /\ m.obj.pool \in Mapped(m.to)
        /\ h.obj = m.obj /\ h.addr = base[m.to][m.obj.pool] + m.obj.at
    BY <2>1, MappedAtEnds, InsideIsAccepted DEF Object, FitsInPool
  <2>3. h \in [addr : Addr, obj : Object]
    BY <2>1, <2>2
  <2>4. base' = base /\ sent' = sent \ {m} /\ held' = [held EXCEPT ![m.to] = @ \cup {h}]
    <3>1. BorrowedHandle(m.to, m.session, m.blob) # Null
      BY <2>2, NullAssumption
    <3> QED BY <1>3, <3>1 DEF BorrowObject
  <2> HIDE DEF h
  <2>5. TypeOK'
    BY <2>1, <2>3, <2>4 DEF TypeOK
  <2>6. ObjectsPlaced' /\ HandlesMeanTheirObject'
    BY <2>1, <2>2, <2>4 DEF ObjectsPlaced, HandlesMeanTheirObject, FitsInPool, TypeOK
  <2>7. BlobsMeanTheirObject'
    BY <2>4 DEF BlobsMeanTheirObject, BorrowedHandle
  <2> QED BY <2>4, <2>5, <2>6, <2>7
<1>4. ASSUME NEW p \in Process, NEW h \in held[p], DropHandle(p, h)
      PROVE  IInv'
  <2>1. base' = base /\ sent' = sent /\ held' = [held EXCEPT ![p] = @ \ {h}]
    BY <1>4 DEF DropHandle
  <2>2. TypeOK' /\ ObjectsPlaced' /\ HandlesMeanTheirObject'
    BY <2>1 DEF TypeOK, ObjectsPlaced, HandlesMeanTheirObject, FitsInPool
  <2>3. BlobsMeanTheirObject'
    BY <2>1 DEF BlobsMeanTheirObject, BorrowedHandle
  <2> QED BY <2>1, <2>2, <2>3
<1>5. CASE UNCHANGED vars
  <2>1. TypeOK' /\ ObjectsPlaced' /\ HandlesMeanTheirObject' /\ Layout(base)'
    BY <1>5 DEF vars, TypeOK, ObjectsPlaced, HandlesMeanTheirObject, FitsInPool
  <2>2. BlobsMeanTheirObject'
    BY <1>5 DEF vars, BlobsMeanTheirObject, BorrowedHandle
  <2> QED BY <2>1, <2>2
<1> QED BY <1>1, <1>2, <1>3, <1>4, <1>5 DEF Next

\* The inductive invariant holds always.
LEMMA SpecIInv == Spec => []IInv
BY InitIInv, NextIInv, PTL DEF Spec

\* In the two pools of a session, whatever the blob.
LEMMA BorrowsInside ==
  ASSUME TypeOK, Layout(base), NEW s \in Session, NEW p \in Ends(s),
         NEW size, NEW offset \in Ptrdiff, NEW scope_id
  PROVE  BorrowsWithin(p, s, [size |-> size, offset |-> offset, scope_id |-> scope_id])
<1> DEFINE k == IF scope_id = S_SCOPE_ID_SESSION THEN s ELSE AppShm
           addr == BorrowedHandle(p, s, [size |-> size, offset |-> offset, scope_id |-> scope_id])
<1>1. /\ base[p][k] \in Addr /\ PoolSize[k] \in Addr
      /\ k \in {s, AppShm} /\ offset \in Int
  BY MappedAtEnds, WordType DEF Ptrdiff
<1>2. addr = Null \/ addr = HandleAt(base[p][k], PoolSize[k], offset)
  BY DEF BorrowedHandle
<1> HIDE DEF k, addr
<1>3. addr = Null \/ (base[p][k] <= addr /\ addr + ObjSize <= base[p][k] + PoolSize[k])
  BY <1>1, <1>2, HandleInside
<1> QED BY <1>1, <1>3 DEF BorrowsWithin, addr

-----------------------------------------------------------------------------
(* The theorems. *)

\* Type correctness of LendBorrow.
THEOREM LendBorrowTypeCorrect == Spec => []TypeOK
BY SpecIInv, PTL DEF IInv

\* A handle is a handle to the object that was constructed, in every process it
\* got to by lend_object() and borrow_object().
THEOREM HandlesAreRight == Spec => []HandlesMeanTheirObject
BY SpecIInv, PTL DEF IInv

\* borrow_object() accepts what lend_object() made and undoes it.
THEOREM BlobsAreRight == Spec => []BlobsMeanTheirObject
BY SpecIInv, PTL DEF IInv

\* borrow_object() returns no handle to an outer buffer beyond the pools.
THEOREM BorrowsAreInside == Spec => []BorrowsStayInPool
<1>1. IInv => BorrowsStayInPool
  BY BorrowsInside DEF IInv, BorrowsStayInPool
<1> QED BY <1>1, SpecIInv, PTL

-----------------------------------------------------------------------------
(* Implementation of ObjectReferences. *)

\* What is in sent is what the other end lent.  This is why there is one blob for
\* each object on its way to a process through a session.
SentAsLent ==
  \A m \in sent :
    LET p == OtherEnd(m.session, m.to) IN
    m.blob = LentBlob(p, m.session, base[p][m.obj.pool] + m.obj.at)

\* The pools do not overlap, so that an address where an object fits means it only.
LEMMA MeansOneObject ==
  ASSUME TypeOK, Layout(base), NEW p \in Process, NEW o \in PlacedObject, o.pool \in Mapped(p)
  PROVE  MeantBy(p, base[p][o.pool] + o.at) = {o}
<1> DEFINE addr == base[p][o.pool] + o.at
           Fits(l) == /\ addr # Null
                      /\ base[p][l] <= addr
                      /\ addr + ObjSize <= base[p][l] + PoolSize[l]
<1>1. /\ o.pool \in Pool /\ o.at \in Addr /\ o = [pool |-> o.pool, at |-> o.at]
      /\ o.at + ObjSize <= PoolSize[o.pool]
      /\ ObjSize \in Nat \ {0}
  BY SizeAssumption DEF PlacedObject, FitsInPool, Object
<1>2. \A l \in Mapped(p) : /\ l \in Pool /\ base[p][l] \in Addr /\ PoolSize[l] \in Addr
                           /\ base[p][l] + PoolSize[l] <= AddrModulus
  <2>1. Mapped(p) \subseteq Pool
    BY DEF Mapped, Pool, Process
  <2> QED BY <2>1, SizeAssumption DEF TypeOK, Layout
<1>3. addr \in Addr /\ addr # Null
  BY <1>1, <1>2, InsideIsAccepted, NullAssumption
<1>4. Fits(o.pool) /\ addr - base[p][o.pool] = o.at
  BY <1>1, <1>2, <1>3 DEF Addr
<1>5. ASSUME NEW l \in Mapped(p), Fits(l)
      PROVE  l = o.pool
  <2>1. ASSUME l # o.pool PROVE ~Overlap(base, p, l, o.pool)
    <3>1. l \in Pool /\ l \in Mapped(p) /\ o.pool \in Mapped(p) \ {l}
      BY <1>2, <2>1
    <3> QED BY <3>1 DEF Layout
  <2>2. Overlap(base, p, l, o.pool)
    <3> DEFINE bl == base[p][l]
               bo == base[p][o.pool]
               sl == PoolSize[l]
               so == PoolSize[o.pool]
    <3>1. /\ bl \in Int /\ bo \in Int /\ sl \in Int /\ so \in Int /\ addr \in Int
          /\ ObjSize \in Int /\ ObjSize > 0
          /\ bl <= addr /\ addr + ObjSize <= bl + sl
          /\ bo <= addr /\ addr + ObjSize <= bo + so
      BY <1>1, <1>2, <1>3, <1>4, <1>5 DEF Addr
    <3> HIDE DEF bl, bo, sl, so, addr
    <3>2. bl < bo + so /\ bo < bl + sl
      BY <3>1
    <3> QED BY <3>2 DEF Overlap, bl, bo, sl, so
  <2> QED BY <2>1, <2>2
<1>6. MeantBy(p, addr) = {[pool |-> k, at |-> addr - base[p][k]] : k \in {l \in Mapped(p) : Fits(l)}}
  BY DEF MeantBy
<1>7. {l \in Mapped(p) : Fits(l)} = {o.pool}
  BY <1>4, <1>5
<1> HIDE DEF Fits, addr
<1>8. MeantBy(p, addr) = {[pool |-> o.pool, at |-> addr - base[p][o.pool]]}
  BY <1>6, <1>7
<1> QED BY <1>1, <1>4, <1>8 DEF addr

\* The references of a process are what its handles stand for, those on their way
\* what was lent.
LEMMA HeldAre ==
  ASSUME IInv, NEW p \in Process
  PROVE  Held(p) = {h.obj : h \in held[p]}
<1>1. ASSUME NEW h \in held[p]
      PROVE  MeantBy(p, h.addr) = {h.obj}
  <2>1. /\ h.obj \in PlacedObject /\ h.obj.pool \in Mapped(p)
        /\ h.addr = base[p][h.obj.pool] + h.obj.at
    BY DEF IInv, TypeOK, ObjectsPlaced, HandlesMeanTheirObject, PlacedObject
  <2> QED BY <2>1, MeansOneObject DEF IInv
<1> QED BY <1>1 DEF Held

LEMMA OnWayAre ==
  ASSUME IInv
  PROVE  OnWay = {[session |-> m.session, to |-> m.to, obj |-> m.obj] : m \in sent}
<1> DEFINE Meant(m) == MeantBy(m.to, BorrowedHandle(m.to, m.session, m.blob))
<1>1. ASSUME NEW m \in sent
      PROVE  Meant(m) = {m.obj}
  <2>1. /\ m.session \in Session /\ m.to \in Ends(m.session)
        /\ m.obj \in PlacedObject /\ m.obj.pool \in {m.session, AppShm}
        /\ BorrowedHandle(m.to, m.session, m.blob) = base[m.to][m.obj.pool] + m.obj.at
    BY DEF IInv, TypeOK, ObjectsPlaced, BlobsMeanTheirObject, PlacedObject
  <2>2. m.to \in Process /\ m.obj.pool \in Mapped(m.to)
    BY <2>1, MappedAtEnds DEF IInv
  <2> QED BY <2>1, <2>2, MeansOneObject DEF IInv
<1>2. OnWay = UNION {{[session |-> m.session, to |-> m.to, obj |-> o] : o \in Meant(m)} : m \in sent}
  BY DEF OnWay
<1> HIDE DEF Meant
<1> QED BY <1>1, <1>2

\* From one end of a session to the other and back.
LEMMA EndsOpposite ==
  ASSUME NEW s \in Session, NEW p \in Ends(s)
  PROVE  OtherEnd(s, p) \in Ends(s) /\ OtherEnd(s, OtherEnd(s, p)) = p /\ {p, OtherEnd(s, p)} = {Server, s}
BY NamesAssumption DEF Ends, OtherEnd

LEMMA SentAsLentStep ==
  ASSUME IInv, SentAsLent, [Next]_vars
  PROVE  SentAsLent'
<1>1. ASSUME NEW p \in Process, NEW h \in held[p], NEW s \in Session, LendObject(p, s, h)
      PROVE  SentAsLent'
  <2> DEFINE q == OtherEnd(s, p)
             m == [session |-> s, to |-> q, obj |-> h.obj, blob |-> LentBlob(p, s, h.addr)]
  <2>1. base' = base /\ sent' = sent \cup {m} /\ p \in Ends(s)
    BY <1>1 DEF LendObject
  <2>2. OtherEnd(m.session, m.to) = p /\ m.session = s /\ m.obj = h.obj
        /\ m.blob = LentBlob(p, s, h.addr)
    BY <2>1, EndsOpposite
  <2>3. h.addr = base[p][h.obj.pool] + h.obj.at
    BY DEF IInv, HandlesMeanTheirObject
  <2> HIDE DEF m
  <2> QED BY ZenonT(40), <2>1, <2>2, <2>3 DEF SentAsLent, LentBlob
<1>2. ASSUME UNCHANGED base, sent' \subseteq sent
      PROVE  SentAsLent'
  BY <1>2 DEF SentAsLent, LentBlob
<1> QED BY <1>1, <1>2 DEF Next, vars, Construct, DropHandle, BorrowObject

\* The state of ObjectReferences, as the refinement maps it, and as the invariant
\* lets it be read off the handles and the blobs.
MappedHolds == [p \in Process |-> Held(p)]

HeldObjects == [p \in Process |-> {h.obj : h \in held[p]}]

Ref(m) == [session |-> m.session, to |-> m.to, obj |-> m.obj]

LentRefs == {Ref(m) : m \in sent}

LEMMA MappedState == IInv => MappedHolds = HeldObjects /\ OnWay = LentRefs
BY HeldAre, OnWayAre DEF MappedHolds, HeldObjects, LentRefs, Ref

LEMMA MappedStateNext == IInv' => MappedHolds' = HeldObjects' /\ OnWay' = LentRefs'
<1>1. (IInv => MappedHolds = HeldObjects /\ OnWay = LentRefs)'
  BY MappedState, PTL
<1> QED BY <1>1

\* A reference on its way is of one blob, and an object held is of one handle.
LEMMA OneForEach ==
  ASSUME IInv, SentAsLent
  PROVE  /\ \A m, n \in sent : Ref(m) = Ref(n) => m = n
         /\ \A p \in Process : \A g, h \in held[p] : g.obj = h.obj => g = h
<1>1. ASSUME NEW m \in sent, NEW n \in sent, Ref(m) = Ref(n)
      PROVE  m = n
  <2>1. m.session = n.session /\ m.to = n.to /\ m.obj = n.obj
    BY <1>1 DEF Ref
  <2>2. m.blob = n.blob
    BY <2>1 DEF SentAsLent
  <2>3. \A k \in sent :
          k = [session |-> k.session, to |-> k.to, obj |-> k.obj, blob |-> k.blob]
    BY DEF IInv, TypeOK
  <2> QED BY <2>1, <2>2, <2>3
<1>2. ASSUME NEW p \in Process, NEW g \in held[p], NEW h \in held[p], g.obj = h.obj
      PROVE  g = h
  <2>1. g.addr = h.addr
    BY <1>2 DEF IInv, HandlesMeanTheirObject
  <2>2. g = [addr |-> g.addr, obj |-> g.obj] /\ h = [addr |-> h.addr, obj |-> h.obj]
    BY DEF IInv, TypeOK
  <2> QED BY <1>2, <2>1, <2>2
<1> QED BY <1>1, <1>2

\* Each step is a step of ObjectReferences or none.
LEMMA StepImplements ==
  ASSUME IInv, IInv', SentAsLent, [Next]_vars
  PROVE  [References!Next]_References!referenceVars
<1>1. /\ MappedHolds = HeldObjects /\ OnWay = LentRefs
      /\ MappedHolds' = HeldObjects' /\ OnWay' = LentRefs'
  BY MappedState, MappedStateNext
<1>2. held \in [Process -> SUBSET [addr : Addr, obj : Object]]
  BY DEF IInv, TypeOK
<1>3. \A p \in Process : References!PoolsOf(p) = Mapped(p)
  BY DEF References!PoolsOf, Mapped, Pool
<1>4. ASSUME NEW p \in Process, NEW o \in Object, Construct(p, o)
      PROVE  References!Next
  <2> DEFINE h == [addr |-> base[p][o.pool] + o.at, obj |-> o]
  <2>1. HeldObjects' = [HeldObjects EXCEPT ![p] = @ \cup {o}] /\ LentRefs' = LentRefs
    <3>1. held' = [held EXCEPT ![p] = @ \cup {h}] /\ sent' = sent /\ h.obj = o
      BY <1>4 DEF Construct
    <3> HIDE DEF h
    <3> QED BY <1>2, <3>1 DEF HeldObjects, LentRefs
  <2>2. o \in PlacedObject /\ o.pool \in References!PoolsOf(p)
    BY <1>3, <1>4 DEF Construct, PlacedObject
  <2>3. References!Construct(p, o)
    BY <1>1, <2>1, <2>2 DEF References!Construct, MappedHolds
  <2> QED BY <2>2, <2>3 DEF References!Next, Process
<1>5. ASSUME NEW p \in Process, NEW h \in held[p], NEW s \in Session, LendObject(p, s, h)
      PROVE  References!Next
  <2> DEFINE q == OtherEnd(s, p)
             m == [session |-> s, to |-> q, obj |-> h.obj, blob |-> LentBlob(p, s, h.addr)]
  <2>1. sent' = sent \cup {m} /\ held' = held /\ p \in Ends(s) /\ h.obj.pool \in {s, AppShm}
    BY <1>5 DEF LendObject
  <2>2. {p, q} = {Server, s}
    BY <2>1, EndsOpposite
  <2>3. HeldObjects' = HeldObjects
    BY <2>1 DEF HeldObjects
  <2>4. LentRefs' = LentRefs \cup {[session |-> s, to |-> q, obj |-> h.obj]}
    <3>1. Ref(m) = [session |-> s, to |-> q, obj |-> h.obj]
      BY DEF Ref
    <3> HIDE DEF m
    <3> QED BY <2>1, <3>1 DEF LentRefs
  <2>5. h.obj \in PlacedObject /\ h.obj \in HeldObjects[p]
    BY <1>2 DEF IInv, ObjectsPlaced, PlacedObject, HeldObjects
  <2>6. References!Lend(s, p, q, h.obj)
    BY <1>1, <2>1, <2>2, <2>3, <2>4, <2>5 DEF References!Lend, MappedHolds
  <2>7. p \in {Server, s} /\ q \in {Server, s}
    BY <2>2
  <2> HIDE DEF q
  <2> QED BY <2>5, <2>6, <2>7 DEF References!Next
<1>6. ASSUME NEW m \in sent, BorrowObject(m)
      PROVE  References!Next
  <2>1. /\ m.session \in Session /\ m.to \in Ends(m.session) /\ m.to \in Process
        /\ m.obj \in Object /\ m.obj.pool \in {m.session, AppShm} /\ FitsInPool(m.obj)
        /\ BorrowedHandle(m.to, m.session, m.blob) = base[m.to][m.obj.pool] + m.obj.at
    BY DEF IInv, TypeOK, ObjectsPlaced, BlobsMeanTheirObject
  <2>2. BorrowedHandle(m.to, m.session, m.blob) # Null
    BY <2>1, MappedAtEnds, InsideIsAccepted, NullAssumption DEF IInv, Object, FitsInPool
  <2> DEFINE h == [addr |-> BorrowedHandle(m.to, m.session, m.blob), obj |-> m.obj]
  <2>3. sent' = sent \ {m} /\ held' = [held EXCEPT ![m.to] = @ \cup {h}] /\ h.obj = m.obj
    BY <1>6, <2>2 DEF BorrowObject
  <2> HIDE DEF h
  <2>4. HeldObjects' = [HeldObjects EXCEPT ![m.to] = @ \cup {m.obj}]
    BY <1>2, <2>1, <2>3 DEF HeldObjects
  <2>5. LentRefs' = LentRefs \ {Ref(m)} /\ Ref(m) \in LentRefs
    BY <2>3, OneForEach DEF LentRefs
  <2>6. Ref(m).to = m.to /\ Ref(m).obj = m.obj
    BY DEF Ref
  <2>7. References!Borrow(Ref(m))
    BY <1>1, <2>4, <2>5, <2>6 DEF References!Borrow, MappedHolds
  <2> QED BY <1>1, <2>5, <2>7 DEF References!Next
<1>7. ASSUME NEW p \in Process, NEW h \in held[p], DropHandle(p, h)
      PROVE  References!Next
  <2>1. sent' = sent /\ held' = [held EXCEPT ![p] = @ \ {h}]
    BY <1>7 DEF DropHandle
  <2>2. {g.obj : g \in held[p] \ {h}} = {g.obj : g \in held[p]} \ {h.obj}
    BY OneForEach
  <2>3. HeldObjects' = [HeldObjects EXCEPT ![p] = @ \ {h.obj}] /\ LentRefs' = LentRefs
    BY <1>2, <2>1, <2>2 DEF HeldObjects, LentRefs
  <2>4. h.obj \in PlacedObject /\ h.obj \in HeldObjects[p]
    BY <1>2 DEF IInv, ObjectsPlaced, PlacedObject, HeldObjects
  <2>5. References!Drop(p, h.obj)
    BY <1>1, <2>3, <2>4 DEF References!Drop, MappedHolds
  <2> QED BY <2>4, <2>5 DEF References!Next, Process
<1>8. CASE UNCHANGED vars
  <2>1. HeldObjects' = HeldObjects /\ LentRefs' = LentRefs
    BY <1>8 DEF vars, HeldObjects, LentRefs
  <2> QED BY <1>1, <2>1 DEF References!referenceVars, MappedHolds
<1> QED BY <1>4, <1>5, <1>6, <1>7, <1>8 DEF Next

\* lend_object() and borrow_object() implement the passing of references.
THEOREM ImplementsRefs == Spec => ImplementsReferences
<1>1. Init => IInv /\ SentAsLent /\ References!Init
  <2> SUFFICES ASSUME Init PROVE IInv /\ SentAsLent /\ References!Init
    OBVIOUS
  <2>1. IInv
    BY InitIInv
  <2>2. SentAsLent /\ HeldObjects = [p \in Process |-> {}] /\ LentRefs = {}
    BY DEF Init, SentAsLent, HeldObjects, LentRefs
  <2> QED BY <2>1, <2>2, MappedState DEF References!Init, MappedHolds, Process
<1>2. IInv /\ IInv' /\ SentAsLent /\ [Next]_vars =>
        SentAsLent' /\ [References!Next]_References!referenceVars
  BY SentAsLentStep, StepImplements
<1> QED BY <1>1, <1>2, SpecIInv, PTL DEF Spec, ImplementsReferences, References!Spec
=============================================================================
