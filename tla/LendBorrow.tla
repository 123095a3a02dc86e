------------------------------ MODULE LendBorrow ------------------------------
(***************************************************************************)
(* ipc::session::shm::classic::Session_impl::lend_object(), borrow_object() *)
(* on top of Pool_arena's: a handle is an address in one process; what     *)
(* crosses the session is an offset and a scope ID; the other process has  *)
(* the same two pools mapped somewhere else.                               *)
(*                                                                         *)
(* One server process with several sessions that belong to one Client_app, *)
(* so that all have the same app pool; each client process has one of the  *)
(* sessions.  An object in a session pool may travel in its session only,  *)
(* one in the app pool from session to session by way of the server.       *)
(* Addresses are machine words: arithmetic on them wraps.                  *)
(***************************************************************************)
EXTENDS Integers, FiniteSets

CONSTANTS
  Session,     \* the sessions; each names its pool and its client's process too
  Server,      \* the server's process
  AppShm,      \* the app pool
  AddrModulus, \* 2^64 in the code: one past the greatest uintptr_t
  MapAddr,     \* the addresses at which the kernel maps pools
  PoolSize,    \* per pool: its size
  ObjSize,     \* sizeof(Handle_in_shm<T>)
  MaxObjects,  \* bound: how many objects are in use at a time
  Null         \* no handle

Process == Session \cup {Server}
Pool == Session \cup {AppShm}
Addr == 0 .. AddrModulus - 1

ASSUME NamesAssumption == Server \notin Session /\ AppShm \notin Session

ASSUME ModulusAssumption == AddrModulus \in Nat \ {0, 1} /\ AddrModulus % 2 = 0

ASSUME SizeAssumption ==
  /\ MapAddr \subseteq Addr \ {0}
  /\ PoolSize \in [Pool -> Addr]
  /\ ObjSize \in Nat \ {0}

ASSUME NullAssumption == Null \notin Addr

VARIABLES
  base,  \* per process and pool: where the pool is mapped
  held,  \* per process: its handles, each with the object it stands for
  sent   \* the blobs on their way, each with the object that was lent

vars == <<base, held, sent>>

\* Half of a session: a process that is one of its two ends.
Ends(s) == {Server, s}

OtherEnd(s, p) == IF p = Server THEN s ELSE Server

\* The pools which a process has mapped.
Mapped(p) == IF p = Server THEN Pool ELSE {p, AppShm}

\* An object is where it is in a pool, whoever looks at it.
Object == [pool : Pool, at : Addr]

FitsInPool(o) == o.at + ObjSize <= PoolSize[o.pool]

Overlap(b, p, k, l) ==
  b[p][k] < b[p][l] + PoolSize[l] /\ b[p][l] < b[p][k] + PoolSize[k]

\* How the kernel may map the pools: side by side.
Layout(b) ==
  \A p \in Process : \A k \in Pool :
    IF k \in Mapped(p)
      THEN /\ b[p][k] \in MapAddr
           /\ b[p][k] + PoolSize[k] <= AddrModulus
           /\ \A l \in Mapped(p) \ {k} : ~Overlap(b, p, k, l)
      ELSE b[p][k] = 0

InUse == UNION {{h.obj : h \in held[p]} : p \in Process} \cup {m.obj : m \in sent}

-----------------------------------------------------------------------------
(* Pool_arena, for a pool of some size mapped at an address. *)

WordMinus(a, b) == (a + AddrModulus - b) % AddrModulus

WordPlus(a, b) == (a + b) % AddrModulus

\* A word read as a ptrdiff_t, of the same width.
AsPtrdiff(a) == IF a < AddrModulus \div 2 THEN a ELSE a - AddrModulus

IsAddrInArena(pool_base, size, addr) ==
  addr >= pool_base /\ WordMinus(addr, pool_base) < size

\* (Mutant: the first byte only.)
IsFirstByteInArena(pool_base, size, obj) == IsAddrInArena(pool_base, size, obj)

IsObjInArena(pool_base, size, obj) ==
  /\ IsAddrInArena(pool_base, size, obj)
  /\ ObjSize <= size - WordMinus(obj, pool_base)

\* (Mutant: the address itself is sent.)
RawAddress(pool_base, handle_state) == handle_state

\* Pool_arena::lend_object(): the blob's content.
OffsetFromPoolBase(pool_base, handle_state) == AsPtrdiff(WordMinus(handle_state, pool_base))

\* Pool_arena::borrow_object(), for a blob of the right size.
HandleAt(pool_base, size, offset) ==
  LET handle_state == WordPlus(pool_base, offset) IN
  IF IsObjInArena(pool_base, size, handle_state) THEN handle_state ELSE Null

-----------------------------------------------------------------------------
(* Session_impl. *)

S_SCOPE_ID_SESSION == 1
S_SCOPE_ID_APP == 2

OffsetBytes == 8   \* sizeof(ptrdiff_t)
ScopeBytes == 8    \* sizeof(scope_id_t)

\* (Mutant: every blob is said to be from the session pool.)
LentBlobUnscoped(p, s, handle) ==
  LET pool == IF IsAddrInArena(base[p][s], PoolSize[s], handle) THEN s ELSE AppShm IN
  [ size     |-> OffsetBytes + ScopeBytes,
    offset   |-> OffsetFromPoolBase(base[p][pool], handle),
    scope_id |-> S_SCOPE_ID_SESSION ]

\* lend_object() at end p of session s.  The session pool is asked first; that a
\* handle which is not there is in the app pool is asserted.
LentBlob(p, s, handle) ==
  LET session_shm == IsAddrInArena(base[p][s], PoolSize[s], handle)
      pool == IF session_shm THEN s ELSE AppShm IN
  [ size     |-> OffsetBytes + ScopeBytes,
    offset   |-> OffsetFromPoolBase(base[p][pool], handle),
    scope_id |-> IF session_shm THEN S_SCOPE_ID_SESSION ELSE S_SCOPE_ID_APP ]

\* borrow_object() at end p of session s: the handle, or Null.  A blob too short
\* to hold a scope ID, one whose remainder is no offset (the Pool_arena refuses it)
\* and one with an unknown scope ID come to the same.
BorrowedHandle(p, s, blob) ==
  LET pool == IF blob.scope_id = S_SCOPE_ID_SESSION THEN s ELSE AppShm IN
  IF /\ blob.size = OffsetBytes + ScopeBytes
     /\ blob.scope_id \in {S_SCOPE_ID_SESSION, S_SCOPE_ID_APP}
    THEN HandleAt(base[p][pool], PoolSize[pool], blob.offset)
    ELSE Null

-----------------------------------------------------------------------------

Init ==
  /\ base \in [Process -> [Pool -> {0} \cup MapAddr]]
  /\ Layout(base)
  /\ held = [p \in Process |-> {}]
  /\ sent = {}

\* construct() in a pool of the process: the handle is an address in it.
Construct(p, o) ==
  /\ o.pool \in Mapped(p)
  /\ FitsInPool(o)
  /\ Cardinality(InUse \cup {o}) <= MaxObjects
  /\ held' = [held EXCEPT ![p] = @ \cup {[addr |-> base[p][o.pool] + o.at, obj |-> o]}]
  /\ UNCHANGED <<base, sent>>

\* A handle to an object of the session's pools is lent through the session.
LendObject(p, s, h) ==
  /\ p \in Ends(s)
  /\ h \in held[p]
  /\ h.obj.pool \in {s, AppShm}
  /\ sent' = sent \cup {[session |-> s, to |-> OtherEnd(s, p), obj |-> h.obj,
                         blob |-> LentBlob(p, s, h.addr)]}
  /\ UNCHANGED <<base, held>>

\* (Mutant: the scope ID is stripped but not looked at.)
BorrowFromSessionPool(m) ==
  LET addr == HandleAt(base[m.to][m.session], PoolSize[m.session], m.blob.offset) IN
  /\ m \in sent
  /\ sent' = sent \ {m}
  /\ held' = [held EXCEPT ![m.to] = IF addr = Null THEN @
                                    ELSE @ \cup {[addr |-> addr, obj |-> m.obj]}]
  /\ UNCHANGED base

\* The other end borrows; a null result is no handle.
BorrowObject(m) ==
  LET addr == BorrowedHandle(m.to, m.session, m.blob) IN
  /\ m \in sent
  /\ sent' = sent \ {m}
  /\ held' = [held EXCEPT ![m.to] = IF addr = Null THEN @
                                    ELSE @ \cup {[addr |-> addr, obj |-> m.obj]}]
  /\ UNCHANGED base

\* The last shared_ptr of a group is dropped.
DropHandle(p, h) ==
  /\ h \in held[p]
  /\ held' = [held EXCEPT ![p] = @ \ {h}]
  /\ UNCHANGED <<base, sent>>

Next ==
  \/ \E p \in Process, o \in Object : Construct(p, o)
  \/ \E p \in Process : \E h \in held[p] :
       DropHandle(p, h) \/ \E s \in Session : LendObject(p, s, h)
  \/ \E m \in sent : BorrowObject(m)

Spec == Init /\ [][Next]_vars

-----------------------------------------------------------------------------
(* Properties. *)

Ptrdiff == {AsPtrdiff(a) : a \in Addr}

Blob == [size : Nat, offset : Ptrdiff, scope_id : Nat]

TypeOK ==
  /\ base \in [Process -> [Pool -> Addr]]
  /\ held \in [Process -> SUBSET [addr : Addr, obj : Object]]
  /\ sent \subseteq [session : Session, to : Process, obj : Object, blob : Blob]

\* Every handle points to the object it stands for, where its process has that
\* object's pool mapped, over any chain of lending and borrowing.
HandlesMeanTheirObject ==
  \A p \in Process : \A h \in held[p] :
    h.obj.pool \in Mapped(p) /\ h.addr = base[p][h.obj.pool] + h.obj.at

\* A blob on its way will be borrowed, and as a handle to the object that was
\* lent: neither the order in which the two pools are asked nor the checks of
\* borrow_object() get in the way, even at the very end of a pool or of memory.
BlobsMeanTheirObject ==
  \A m \in sent :
    BorrowedHandle(m.to, m.session, m.blob) = base[m.to][m.obj.pool] + m.obj.at

\* Whatever blob is borrowed, the handle is null or the outer buffer it means --
\* the T and the count -- is wholly in one of the two pools of the session ("a
\* good safety check").
BorrowsWithin(p, s, blob) ==
  LET addr == BorrowedHandle(p, s, blob) IN
  addr = Null \/ \E k \in {s, AppShm} :
                   base[p][k] <= addr /\ addr + ObjSize <= base[p][k] + PoolSize[k]

BorrowsStayInPool ==
  \A s \in Session : \A p \in Ends(s), offset \in Ptrdiff,
      size \in {0, OffsetBytes, OffsetBytes + ScopeBytes},
      scope_id \in {0, S_SCOPE_ID_SESSION, S_SCOPE_ID_APP} :
    BorrowsWithin(p, s, [size |-> size, offset |-> offset, scope_id |-> scope_id])

(***************************************************************************)
(* Implementation of references, by what the code has: a handle is a       *)
(* reference to the object at its address, a blob one to what the process  *)
(* it is on its way to will borrow.                                        *)
(***************************************************************************)
PlacedObject == {o \in Object : FitsInPool(o)}

MeantBy(p, addr) ==
  {[pool |-> k, at |-> addr - base[p][k]] :
     k \in {l \in Mapped(p) : /\ addr # Null
                             /\ base[p][l] <= addr
                             /\ addr + ObjSize <= base[p][l] + PoolSize[l]}}

Held(p) == UNION {MeantBy(p, h.addr) : h \in held[p]}

OnWay ==
  UNION {{[session |-> m.session, to |-> m.to, obj |-> o] :
            o \in MeantBy(m.to, BorrowedHandle(m.to, m.session, m.blob))} : m \in sent}

References ==
  INSTANCE ObjectReferences
    WITH Object <- PlacedObject, holds <- [p \in Process |-> Held(p)], onWay <- OnWay

\* Whatever the addresses at which the processes have the pools, lend_object() and
\* borrow_object() pass references: no blob is refused or becomes a handle to another
\* object than was lent, no address means two objects or none, and nothing in
\* another session's pool gets through a session.
ImplementsReferences == References!Spec
=============================================================================
