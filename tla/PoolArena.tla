------------------------------ MODULE PoolArena ------------------------------
(***************************************************************************)
(* ipc::shm::classic::Pool_arena: objects constructed in one SHM pool and  *)
(* owned jointly by several processes, by way of a count kept beside each  *)
(* object in the pool itself (Handle_in_shm::m_atomic_owner_ct).           *)
(*                                                                         *)
(* A share is one unit of that count: the shared_ptr group which           *)
(* construct() or borrow_object() returned in a process, or a blob that    *)
(* lend_object() returned and that nobody borrowed yet.  Each share has a  *)
(* control state of its own, so that any number of threads in each process *)
(* construct, lend, borrow and release at the same time; the atomic steps  *)
(* are the code's: an allocation, an atomic increment or decrement, one    *)
(* inner (de)allocation of T's constructor or destructor.                  *)
(***************************************************************************)
EXTENDS Naturals, FiniteSets

CONSTANTS
  Process,    \* processes that may hold a Pool_arena on the pool
  Faulty,     \* those which may die without running their destructors
  Block,      \* buffers the pool's allocation algorithm hands out
  Share,      \* identities of units of ownership
  CtModulus,  \* 2^32 in the code: m_atomic_owner_ct is an unsigned int
  None        \* no process, no block

ASSUME ShareAssumption == IsFiniteSet(Share)

\* No more shares than the count can tell apart: the code does not check.
ASSUME CtAssumption == CtModulus \in Nat /\ Cardinality(Share) < CtModulus

ASSUME NoneAssumption == None \notin Process \cup Block

ASSUME FaultyAssumption == Faulty \subseteq Process

VARIABLES
  arena,      \* per process: the state of its Pool_arena
  free,       \* the blocks the pool can still allocate
  owner_ct,   \* per block: m_atomic_owner_ct, if an outer buffer is there
  inner,      \* per block: the inner buffers of the T constructed there
  phase,      \* per share: its control state
  obj,        \* per share: the outer buffer it co-owns
  home        \* per share: the process that has it

vars == <<arena, free, owner_ct, inner, phase, obj, home>>

\* "closed": no Pool_arena; "null": its constructor failed, m_pool is empty.
ArenaState == {"closed", "attached", "null", "crashed"}

\* The states in which the share is included in the object's owner count.
CountedPhase == {"constructing", "handle", "blob", "lost"}

Phase == {"unused", "destroying"} \cup CountedPhase

Object == {b \in Block : \E s \in Share : obj[s] = b}

Sharers(b) == {s \in Share : obj[s] = b}

Owners(b) == {s \in Sharers(b) : phase[s] \in CountedPhase}

\* The share is in the hands of a running process.
Running(s, ph) == phase[s] = ph /\ arena[home[s]] = "attached"

-----------------------------------------------------------------------------
(* Pieces of the operations. *)

\* (Mutant: lend_object() forgets to count.)
NotIncrementedCt(n) == n

\* (Mutant: lend_object() counts the blob and its borrower, in a wider type.)
IncrementedTwiceCt(n) == n + 2

IncrementedCt(n) == (n + 1) % CtModulus

DecrementedCt(n) == (n + CtModulus - 1) % CtModulus

\* (Mutant: takes the old value for the new one, and at most one is left.)
IsLastButOneOwner(prev_owner_ct) == prev_owner_ct <= 2

IsLastOwner(prev_owner_ct) == prev_owner_ct = 1

InitialCt == 1

SetShare(s, ph, b, p) ==
  /\ phase' = [phase EXCEPT ![s] = ph]
  /\ obj' = [obj EXCEPT ![s] = b]
  /\ home' = [home EXCEPT ![s] = p]

DiscardShare(s) == SetShare(s, "unused", None, None)

-----------------------------------------------------------------------------
(* The Pool_arena object of a process. *)

Init ==
  /\ arena = [p \in Process |-> "closed"]
  /\ free = Block
  /\ owner_ct = [b \in Block |-> 0]
  /\ inner = [b \in Block |-> {}]
  /\ phase = [s \in Share |-> "unused"]
  /\ obj = [s \in Share |-> None]
  /\ home = [s \in Share |-> None]

\* A constructor: it attaches the pool, or fails and leaves m_pool empty.
OpenArena(p) ==
  /\ arena[p] = "closed"
  /\ \E result \in {"attached", "null"} : arena' = [arena EXCEPT ![p] = result]
  /\ UNCHANGED <<free, owner_ct, inner, phase, obj, home>>

\* ~Pool_arena().  The handles' deleters use the Pool_arena: the user drops
\* every handle and finishes every construct() before.
CloseArena(p) ==
  /\ arena[p] \in {"attached", "null"}
  /\ \A s \in Share : home[s] # p
  /\ arena' = [arena EXCEPT ![p] = "closed"]
  /\ UNCHANGED <<free, owner_ct, inner, phase, obj, home>>

\* The process dies: none of its shares takes another step.
Crash(p) ==
  /\ p \in Faulty
  /\ arena[p] # "crashed"
  /\ arena' = [arena EXCEPT ![p] = "crashed"]
  /\ UNCHANGED <<free, owner_ct, inner, phase, obj, home>>

-----------------------------------------------------------------------------
(* construct(). *)

\* The outer buffer is allocated and the count in it initialized.  (With no
\* block free, allocate() throws and nothing changes.)
ConstructAllocate(p, s, b) ==
  /\ arena[p] = "attached"
  /\ phase[s] = "unused"
  /\ b \in free
  /\ free' = free \ {b}
  /\ owner_ct' = [owner_ct EXCEPT ![b] = InitialCt]
  /\ SetShare(s, "constructing", b, p)
  /\ UNCHANGED <<arena, inner>>

\* An inner buffer of T is allocated, while T's constructor runs or later
\* by a user who mutates the object through a handle.
AllocateInner(s, i) ==
  /\ Running(s, "constructing") \/ Running(s, "handle")
  /\ i \in free
  /\ free' = free \ {i}
  /\ inner' = [inner EXCEPT ![obj[s]] = @ \cup {i}]
  /\ UNCHANGED <<arena, owner_ct, phase, obj, home>>

\* T's constructor returns and construct() makes the handle.
ConstructReturn(s) ==
  /\ Running(s, "constructing")
  /\ SetShare(s, "handle", obj[s], home[s])
  /\ UNCHANGED <<arena, free, owner_ct, inner>>

\* T's constructor throws.  Unwinding gives its inner buffers back; construct()
\* has no handler, so the outer buffer stays, its count at 1.
ConstructThrow(s) ==
  /\ Running(s, "constructing")
  /\ free' = free \cup inner[obj[s]]
  /\ inner' = [inner EXCEPT ![obj[s]] = {}]
  /\ SetShare(s, "lost", obj[s], None)
  /\ UNCHANGED <<arena, owner_ct>>

-----------------------------------------------------------------------------
(* lend_object() and borrow_object(). *)

LendObject(s, t) ==
  /\ Running(s, "handle")
  /\ phase[t] = "unused"
  /\ owner_ct' = [owner_ct EXCEPT ![obj[s]] = IncrementedCt(@)]
  /\ SetShare(t, "blob", obj[s], None)
  /\ UNCHANGED <<arena, free, inner>>

\* (Mutant: the borrower counts itself, though the blob was counted.)
BorrowAndCount(p, s) ==
  /\ phase[s] = "blob"
  /\ arena[p] = "attached"
  /\ owner_ct' = [owner_ct EXCEPT ![obj[s]] = IncrementedCt(@)]
  /\ SetShare(s, "handle", obj[s], p)
  /\ UNCHANGED <<arena, free, inner>>

\* The blob arrives: the share it stands for becomes a handle of the borrower.
BorrowObject(p, s) ==
  /\ phase[s] = "blob"
  /\ arena[p] = "attached"
  /\ SetShare(s, "handle", obj[s], p)
  /\ UNCHANGED <<arena, free, owner_ct, inner>>

\* The blob never arrives, or arrives where no pool is attached and
\* borrow_object() returns null.
LoseBlob(s) ==
  /\ phase[s] = "blob"
  /\ SetShare(s, "lost", obj[s], None)
  /\ UNCHANGED <<arena, free, owner_ct, inner>>

-----------------------------------------------------------------------------
(* handle_deleter_impl(): a shared_ptr group reached reference count 0. *)

\* The atomic decrement, and the decision it makes.
ReleaseHandle(s) ==
  /\ Running(s, "handle")
  /\ owner_ct' = [owner_ct EXCEPT ![obj[s]] = DecrementedCt(@)]
  /\ IF IsLastOwner(owner_ct[obj[s]])
       THEN SetShare(s, "destroying", obj[s], home[s])
       ELSE DiscardShare(s)
  /\ UNCHANGED <<arena, free, inner>>

\* (Mutant: no arena is activated around ~T(), which cannot deallocate then.)
DeallocateInnerByUserOnly(s, i) ==
  /\ Running(s, "handle")
  /\ i \in inner[obj[s]]
  /\ free' = free \cup {i}
  /\ inner' = [inner EXCEPT ![obj[s]] = @ \ {i}]
  /\ UNCHANGED <<arena, owner_ct, phase, obj, home>>

\* An inner buffer is deallocated: by ~T(), or by a user who mutates the
\* object through a handle.
DeallocateInner(s, i) ==
  /\ Running(s, "destroying") \/ Running(s, "handle")
  /\ i \in inner[obj[s]]
  /\ free' = free \cup {i}
  /\ inner' = [inner EXCEPT ![obj[s]] = @ \ {i}]
  /\ UNCHANGED <<arena, owner_ct, phase, obj, home>>

\* (Mutant: ~T() is not run to its end.)
DeallocateOuterOnly(s) ==
  /\ Running(s, "destroying")
  /\ free' = free \cup {obj[s]}
  /\ DiscardShare(s)
  /\ UNCHANGED <<arena, owner_ct, inner>>

\* ~T() is done: the outer buffer is deallocated.
Deallocate(s) ==
  /\ Running(s, "destroying")
  /\ inner[obj[s]] = {}
  /\ free' = free \cup {obj[s]}
  /\ DiscardShare(s)
  /\ UNCHANGED <<arena, owner_ct, inner>>

-----------------------------------------------------------------------------

Next ==
  \/ \E p \in Process : OpenArena(p) \/ CloseArena(p) \/ Crash(p)
  \/ \E p \in Process, s \in Share, b \in Block : ConstructAllocate(p, s, b)
  \/ \E p \in Process, s \in Share : BorrowObject(p, s)
  \/ \E s \in Share, i \in Block : AllocateInner(s, i) \/ DeallocateInner(s, i)
  \/ \E s, t \in Share : LendObject(s, t)
  \/ \E s \in Share : \/ ConstructReturn(s) \/ ConstructThrow(s)
                      \/ LoseBlob(s) \/ ReleaseHandle(s) \/ Deallocate(s)

Spec == Init /\ [][Next]_vars

\* A deleter that found itself last waits for nobody: it runs to its end.
DeleterFairness ==
  \A s \in Share :
    WF_vars(\/ Deallocate(s)
            \/ phase[s] = "destroying" /\ \E i \in Block : DeallocateInner(s, i))

FairSpec == Spec /\ DeleterFairness

\* Users who let go: each constructor ends, each handle is dropped some day,
\* each blob is borrowed or lost.  Nothing in Pool_arena ensures that.
UserFairness ==
  \A s \in Share :
    /\ WF_vars(ConstructReturn(s) \/ ConstructThrow(s))
    /\ WF_vars(ReleaseHandle(s))
    /\ WF_vars(LoseBlob(s) \/ \E p \in Process : BorrowObject(p, s))

-----------------------------------------------------------------------------
(* Properties. *)

TypeOK ==
  /\ arena \in [Process -> ArenaState]
  /\ free \in SUBSET Block
  /\ owner_ct \in [Block -> 0 .. CtModulus - 1]
  /\ inner \in [Block -> SUBSET Block]
  /\ phase \in [Share -> Phase]
  /\ obj \in [Share -> Block \cup {None}]
  /\ home \in [Share -> Process \cup {None}]

\* The count in the pool is the number of shares there are, wherever they
\* are: in handles of any process, in blobs on their way, or lost.  It is
\* what lets a process decide alone that it is the last (lines 812-822).
OwnerCountExact == \A b \in Object : owner_ct[b] = Cardinality(Owners(b))

\* No object is destroyed or deallocated under a share: whoever has a handle
\* or will get one from a blob finds the outer buffer and the inner ones
\* allocated, nobody destroying them, and a count that is not 0 (the
\* assertion of line 814, the remark of line 794).
NoUseAfterFree ==
  \A s \in Share : phase[s] \in CountedPhase =>
    /\ ({obj[s]} \cup inner[obj[s]]) \cap free = {}
    /\ owner_ct[obj[s]] # 0
    /\ \A t \in Sharers(obj[s]) : phase[t] # "destroying"

\* Exactly one deleter finds itself last, and it is alone with the object:
\* T's destructor runs once, the outer buffer is deallocated once.
SoleDestroyer ==
  \A s, t \in Share :
    phase[s] = "destroying" /\ obj[t] = obj[s] => t = s

\* Every block of the pool is free, or the outer buffer of an object somebody
\* shares, or an inner buffer of exactly one such object: none is in two uses,
\* and none leaks except with a share that is lost or whose process crashed.
BlocksAccountedFor ==
  \A i \in Block :
    /\ \/ i \in free
       \/ i \in Object
       \/ \E b \in Object : i \in inner[b]
    /\ i \in free => i \notin Object
    /\ \A b \in Block : i \in inner[b] =>
         /\ b \in Object
         /\ i \notin free \cup Object
         /\ \A c \in Block : i \in inner[c] => c = b

\* A count that reached 0 stays there until the buffer is deallocated: no
\* lend_object() revives an object whose destruction was decided.
NoResurrection ==
  [][\A b \in Object : owner_ct[b] = 0 /\ b \notin free' => owner_ct'[b] = 0]_vars

\* A share of which nothing more will come.
Stranded(s) == phase[s] = "lost" \/ (home[s] # None /\ arena[home[s]] = "crashed")

\* An object nobody owns any more is deallocated, unless the process that is
\* destroying it crashes meanwhile.
LastOwnerReclaims ==
  \A b \in Block :
    b \in Object /\ Owners(b) = {} ~>
      b \notin Object \/ \E s \in Sharers(b) : Stranded(s)

\* With users who let go an object stays in the pool for ever only if it is
\* lent again and again, or if a share of it was lost or died with a process.
\* (Reference counting, "unlimited proxying": the class header's promise.)
UnlentObjectsGo ==
  UserFairness =>
    \A b \in Block :
      \/ []<>(b \notin Object)
      \/ []<><<\E s, t \in Share : obj[s] = b /\ LendObject(s, t)>>_vars
      \/ <>[](\E s \in Sharers(b) : Stranded(s))

(***************************************************************************)
(* Implementation of the abstract shared ownership: the objects are the    *)
(* outer buffers somebody shares, the owners of each the counted shares.   *)
(***************************************************************************)
Ownership ==
  INSTANCE SharedOwnership
    WITH live <- Object, owners <- [b \in Block |-> Owners(b)]

\* The count decides locally what SharedOwnership decides by looking at every
\* process: no object is reclaimed before its last owner is gone, none twice.
ImplementsOwnership == Ownership!Spec
=============================================================================
