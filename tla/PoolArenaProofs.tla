--------------------------- MODULE PoolArenaProofs ---------------------------
(***************************************************************************)
(* Proofs about PoolArena, for any processes, blocks and finitely many     *)
(* shares.  The safety invariants follow from one inductive invariant,     *)
(* IInv, whose heart is that the count of every object is exact: the       *)
(* decision of handle_deleter_impl() reads nothing but the count.          *)
(***************************************************************************)
EXTENDS PoolArena, FiniteSetTheorems, TLAPS

\* A share has an object exactly while it is in use.
ShareShape == \A s \in Share : phase[s] = "unused" <=> obj[s] = None

IInv ==
  /\ TypeOK
  /\ ShareShape
  /\ OwnerCountExact
  /\ SoleDestroyer
  /\ BlocksAccountedFor

-----------------------------------------------------------------------------
(* Arithmetic of the count. *)

\* Counts are taken modulo a positive number.
LEMMA CtModulusPositive == CtModulus \in Nat \ {0}
<1>1. Cardinality(Share) \in Nat
  BY ShareAssumption, FS_CardinalityType
<1> QED BY <1>1, CtAssumption

\* The count stays an unsigned int, whatever it was.
LEMMA CtInRange ==
  ASSUME NEW n \in 0 .. CtModulus - 1
  PROVE  /\ IncrementedCt(n) \in 0 .. CtModulus - 1
         /\ DecrementedCt(n) \in 0 .. CtModulus - 1
BY CtModulusPositive DEF IncrementedCt, DecrementedCt

\* Short of the modulus it counts up, and short of 0 it counts down.
LEMMA CtExact ==
  ASSUME NEW n \in 0 .. CtModulus - 1
  PROVE  /\ n + 1 < CtModulus => IncrementedCt(n) = n + 1
         /\ n > 0 => DecrementedCt(n) = n - 1
<1>1. n + 1 < CtModulus => IncrementedCt(n) = n + 1
  BY CtModulusPositive DEF IncrementedCt
<1>2. ASSUME n > 0 PROVE DecrementedCt(n) = n - 1
  <2>1. n + CtModulus - 1 = 1 * CtModulus + (n - 1) /\ n - 1 \in 0 .. CtModulus - 1
    BY <1>2, CtModulusPositive
  <2> QED BY <2>1, CtModulusPositive DEF DecrementedCt
<1> QED BY <1>1, <1>2

-----------------------------------------------------------------------------
(* The owners of an object. *)

\* The owners of an object can be counted.
LEMMA OwnersFinite ==
  ASSUME NEW b
  PROVE  IsFiniteSet(Owners(b)) /\ Cardinality(Owners(b)) \in Nat
<1>1. Owners(b) \subseteq Share
  BY DEF Owners, Sharers
<1> QED BY <1>1, ShareAssumption, FS_Subset, FS_CardinalityType

\* While a share is not among the owners the count cannot be at its maximum.
LEMMA RoomForOneMore ==
  ASSUME NEW b, NEW t \in Share, t \notin Owners(b)
  PROVE  /\ Cardinality(Owners(b)) + 1 < CtModulus
         /\ Cardinality(Owners(b) \cup {t}) = Cardinality(Owners(b)) + 1
<1>1. Owners(b) \cup {t} \subseteq Share
  BY DEF Owners, Sharers
<1>2. Cardinality(Owners(b) \cup {t}) = Cardinality(Owners(b)) + 1
  BY OwnersFinite, FS_AddElement
<1>3. Cardinality(Owners(b) \cup {t}) <= Cardinality(Share)
  BY <1>1, ShareAssumption, FS_Subset
<1>4. Cardinality(Share) \in Nat
  BY ShareAssumption, FS_CardinalityType
<1> QED BY <1>2, <1>3, <1>4, OwnersFinite, CtAssumption

\* The owners, counted without one of them.
LEMMA OneOwnerLess ==
  ASSUME NEW b, NEW s \in Owners(b)
  PROVE  /\ Cardinality(Owners(b)) > 0
         /\ Cardinality(Owners(b) \ {s}) = Cardinality(Owners(b)) - 1
         /\ Cardinality(Owners(b)) = 1 <=> Owners(b) = {s}
<1>1. Cardinality(Owners(b) \ {s}) = Cardinality(Owners(b)) - 1
  BY OwnersFinite, FS_RemoveElement
<1>2. Owners(b) # {}
  OBVIOUS
<1>3. Cardinality(Owners(b)) > 0
  BY <1>2, OwnersFinite, FS_EmptySet
<1>4. IsFiniteSet(Owners(b) \ {s})
  BY OwnersFinite, FS_RemoveElement
<1>5. Cardinality(Owners(b) \ {s}) = 0 <=> Owners(b) \ {s} = {}
  BY <1>4, FS_EmptySet
<1> QED BY <1>1, <1>3, <1>5, OwnersFinite

-----------------------------------------------------------------------------
(* Type correctness. *)

\* What SetShare assigns has the type of its variables.
LEMMA SetShareType ==
  ASSUME TypeOK, NEW s \in Share, NEW ph \in Phase, NEW x \in Block \cup {None},
         NEW p \in Process \cup {None}, SetShare(s, ph, x, p)
  PROVE  /\ phase' \in [Share -> Phase]
         /\ obj' \in [Share -> Block \cup {None}]
         /\ home' \in [Share -> Process \cup {None}]
BY DEF TypeOK, SetShare

\* No process has opened its arena yet: the types hold.
LEMMA InitType == Init => TypeOK
BY CtModulusPositive DEF Init, TypeOK, ArenaState, Phase, CountedPhase

\* Each step of each operation keeps the types.  (A share in use has an object,
\* so the maps over objects are only applied to blocks.)
LEMMA NextType == TypeOK /\ ShareShape /\ [Next]_vars => TypeOK'
<1> SUFFICES ASSUME TypeOK, ShareShape, [Next]_vars PROVE TypeOK'
  OBVIOUS
<1> USE DEF Running
<1>0. \A s \in Share : phase[s] # "unused" => obj[s] \in Block
  BY DEF TypeOK, ShareShape
<1>1. ASSUME NEW p \in Process, OpenArena(p) \/ CloseArena(p) \/ Crash(p)
      PROVE  TypeOK'
  BY <1>1 DEF TypeOK, OpenArena, CloseArena, Crash, ArenaState
<1>2. ASSUME NEW p \in Process, NEW s \in Share, NEW b \in Block, ConstructAllocate(p, s, b)
      PROVE  TypeOK'
  <2>1. SetShare(s, "constructing", b, p)
    BY <1>2 DEF ConstructAllocate
  <2>2. /\ phase' \in [Share -> Phase]
        /\ obj' \in [Share -> Block \cup {None}]
        /\ home' \in [Share -> Process \cup {None}]
    BY <2>1, SetShareType DEF Phase, CountedPhase
  <2>3. owner_ct' \in [Block -> 0 .. CtModulus - 1]
    <3>1. 1 \in 0 .. CtModulus - 1
      <4>1. s \notin Owners(b)
        BY <1>2 DEF ConstructAllocate, Owners, CountedPhase
      <4>2. Cardinality(Owners(b)) + 1 < CtModulus
        BY <4>1, RoomForOneMore
      <4> QED BY <4>2, OwnersFinite, CtAssumption
    <3> QED BY <1>2, <3>1 DEF ConstructAllocate, TypeOK, InitialCt
  <2> QED BY <1>2, <2>2, <2>3 DEF ConstructAllocate, TypeOK
<1>3. ASSUME NEW p \in Process, NEW s \in Share, BorrowObject(p, s)
      PROVE  TypeOK'
  <2>1. SetShare(s, "handle", obj[s], p) /\ obj[s] \in Block \cup {None}
    BY <1>3 DEF BorrowObject, TypeOK
  <2>2. /\ phase' \in [Share -> Phase]
        /\ obj' \in [Share -> Block \cup {None}]
        /\ home' \in [Share -> Process \cup {None}]
    BY <2>1, SetShareType DEF Phase, CountedPhase
  <2> QED BY <1>3, <2>2 DEF BorrowObject, TypeOK
<1>4. ASSUME NEW s \in Share, NEW i \in Block, AllocateInner(s, i) \/ DeallocateInner(s, i)
      PROVE  TypeOK'
  BY <1>4 DEF TypeOK, AllocateInner, DeallocateInner
<1>5. ASSUME NEW s \in Share, NEW t \in Share, LendObject(s, t)
      PROVE  TypeOK'
  <2>1. SetShare(t, "blob", obj[s], None) /\ obj[s] \in Block
    BY <1>0, <1>5 DEF LendObject
  <2>2. /\ phase' \in [Share -> Phase]
        /\ obj' \in [Share -> Block \cup {None}]
        /\ home' \in [Share -> Process \cup {None}]
    BY <2>1, SetShareType DEF Phase, CountedPhase
  <2>3. owner_ct' \in [Block -> 0 .. CtModulus - 1]
    BY <1>5, <2>1, CtInRange DEF LendObject, TypeOK
  <2> QED BY <1>5, <2>2, <2>3 DEF LendObject, TypeOK
<1>6. ASSUME NEW s \in Share, ConstructReturn(s) \/ ConstructThrow(s) \/ LoseBlob(s)
      PROVE  TypeOK'
  <2>1. PICK ph \in {"handle", "lost"}, p \in Process \cup {None} : SetShare(s, ph, obj[s], p)
    BY <1>6 DEF ConstructReturn, ConstructThrow, LoseBlob, TypeOK
  <2>2. /\ phase' \in [Share -> Phase]
        /\ obj' \in [Share -> Block \cup {None}]
        /\ home' \in [Share -> Process \cup {None}]
    <3>1. obj[s] \in Block \cup {None} /\ ph \in Phase
      BY DEF TypeOK, Phase, CountedPhase
    <3> QED BY <2>1, <3>1, SetShareType
  <2>3. /\ free' \in SUBSET Block
        /\ inner' \in [Block -> SUBSET Block]
        /\ UNCHANGED <<arena, owner_ct>>
    BY <1>0, <1>6 DEF ConstructReturn, ConstructThrow, LoseBlob, TypeOK
  <2> QED BY <2>2, <2>3 DEF TypeOK
<1>7. ASSUME NEW s \in Share, ReleaseHandle(s)
      PROVE  TypeOK'
  <2>1. PICK ph \in {"destroying", "unused"}, x \in Block \cup {None}, p \in Process \cup {None} :
          SetShare(s, ph, x, p)
    BY <1>7 DEF ReleaseHandle, DiscardShare, TypeOK
  <2>2. /\ phase' \in [Share -> Phase]
        /\ obj' \in [Share -> Block \cup {None}]
        /\ home' \in [Share -> Process \cup {None}]
    <3>1. ph \in Phase
      BY DEF Phase
    <3> QED BY <2>1, <3>1, SetShareType
  <2>3. owner_ct' \in [Block -> 0 .. CtModulus - 1]
    BY <1>0, <1>7, CtInRange DEF ReleaseHandle, TypeOK
  <2> QED BY <1>7, <2>2, <2>3 DEF ReleaseHandle, TypeOK
<1>8. ASSUME NEW s \in Share, Deallocate(s)
      PROVE  TypeOK'
  <2>1. SetShare(s, "unused", None, None)
    BY <1>8 DEF Deallocate, DiscardShare
  <2>2. /\ phase' \in [Share -> Phase]
        /\ obj' \in [Share -> Block \cup {None}]
        /\ home' \in [Share -> Process \cup {None}]
    BY <2>1, SetShareType DEF Phase
  <2> QED BY <1>0, <1>8, <2>2 DEF Deallocate, TypeOK
<1>9. CASE UNCHANGED vars
  BY <1>9 DEF TypeOK, vars
<1> QED
  BY <1>1, <1>2, <1>3, <1>4, <1>5, <1>6, <1>7, <1>8, <1>9 DEF Next

-----------------------------------------------------------------------------
(* The inductive invariant. *)

\* With no share in use there is nothing to count.
LEMMA InitIInv == Init => IInv
<1> SUFFICES ASSUME Init PROVE IInv
  OBVIOUS
<1>1. Object = {}
  BY NoneAssumption DEF Init, Object
<1>2. ShareShape /\ OwnerCountExact /\ SoleDestroyer /\ BlocksAccountedFor
  BY <1>1 DEF Init, ShareShape, OwnerCountExact, SoleDestroyer, BlocksAccountedFor
<1> QED BY <1>2, InitType DEF IInv

\* The steps that leave every share where it was.
LEMMA SameShares ==
  ASSUME IInv, TypeOK', UNCHANGED <<owner_ct, phase, obj>>, BlocksAccountedFor'
  PROVE  IInv'
<1>1. \A b : Owners(b)' = Owners(b) /\ Sharers(b)' = Sharers(b)
  BY DEF Owners, Sharers
<1>2. Object' = Object
  BY DEF Object
<1> QED
  BY <1>1, <1>2 DEF IInv, ShareShape, OwnerCountExact, SoleDestroyer

\* The steps that hand a counted share over, in another counted state.
LEMMA SameOwners ==
  ASSUME IInv, TypeOK', NEW s \in Share, NEW ph \in CountedPhase,
         NEW p \in Process \cup {None}, phase[s] \in CountedPhase,
         SetShare(s, ph, obj[s], p), UNCHANGED owner_ct,
         Object' = Object => BlocksAccountedFor'
  PROVE  IInv'
<1> USE DEF IInv
<1>1. obj[s] \in Block /\ ph \in Phase
  BY DEF TypeOK, ShareShape, CountedPhase, Phase
<1>2. /\ \A t \in Share : obj'[t] = obj[t]
      /\ \A t \in Share \ {s} : phase'[t] = phase[t]
      /\ phase'[s] = ph
  BY <1>1 DEF SetShare, TypeOK
<1>3. Object' = Object
  BY <1>2 DEF Object
<1>4. \A b : Owners(b)' = Owners(b) /\ Sharers(b)' = Sharers(b)
  BY <1>2 DEF Owners, Sharers
<1>5. ShareShape'
  BY <1>2 DEF ShareShape, CountedPhase
<1>6. OwnerCountExact'
  BY <1>3, <1>4 DEF OwnerCountExact
<1>7. SoleDestroyer'
  BY <1>2 DEF SoleDestroyer, CountedPhase
<1> QED BY <1>3, <1>5, <1>6, <1>7

\* construct() takes a free block, with a count of 1 and one owner.
LEMMA ConstructAllocateIInv ==
  ASSUME IInv, TypeOK', NEW p \in Process, NEW s \in Share, NEW b \in Block,
         ConstructAllocate(p, s, b)
  PROVE  IInv'
<1> USE DEF IInv
<1>1. SetShare(s, "constructing", b, p) /\ "constructing" \in Phase
  BY DEF ConstructAllocate, Phase, CountedPhase
<1>2. /\ \A t \in Share \ {s} : obj'[t] = obj[t] /\ phase'[t] = phase[t]
      /\ obj'[s] = b /\ phase'[s] = "constructing"
  BY <1>1 DEF SetShare, TypeOK
<1>3. obj[s] = None /\ Sharers(b) = {} /\ b \notin Object
  BY DEF ConstructAllocate, ShareShape, BlocksAccountedFor, Sharers, Object
<1>4. Object' = Object \cup {b}
  BY <1>2, <1>3, NoneAssumption DEF Object
<1>5. ShareShape'
  BY <1>2, NoneAssumption DEF ShareShape
<1>6. OwnerCountExact'
  <2> SUFFICES ASSUME NEW c \in Object' PROVE owner_ct'[c] = Cardinality(Owners(c)')
    BY DEF OwnerCountExact
  <2>1. CASE c = b
    <3>1. Owners(c)' = {s}
      BY <1>2, <1>3, <2>1 DEF Owners, Sharers, CountedPhase
    <3>2. owner_ct'[c] = 1
      BY <2>1 DEF ConstructAllocate, TypeOK, InitialCt
    <3> QED BY <3>1, <3>2, FS_Singleton
  <2>2. CASE c # b
    <3>1. Owners(c)' = Owners(c)
      BY <1>2, <1>3, <2>2, NoneAssumption DEF Owners, Sharers, Object
    <3>2. owner_ct'[c] = owner_ct[c] /\ c \in Object
      BY <1>4, <2>2 DEF ConstructAllocate, TypeOK, Object
    <3> QED BY <3>1, <3>2 DEF OwnerCountExact
  <2> QED BY <2>1, <2>2
<1>7. SoleDestroyer'
  BY <1>2, <1>3 DEF SoleDestroyer, Sharers
<1>8. BlocksAccountedFor'
  BY <1>4, <1>3 DEF BlocksAccountedFor, ConstructAllocate
<1> QED BY <1>5, <1>6, <1>7, <1>8

\* Inner buffers move between the pool and one object; no owner changes.
LEMMA InnerIInv ==
  ASSUME IInv, TypeOK', NEW s \in Share, NEW i \in Block,
         AllocateInner(s, i) \/ DeallocateInner(s, i)
  PROVE  IInv'
<1> USE DEF IInv
<1>1. UNCHANGED <<owner_ct, phase, obj>> /\ Object' = Object
  BY DEF AllocateInner, DeallocateInner, Object
<1>2. obj[s] \in Object /\ Object \subseteq Block
  BY DEF AllocateInner, DeallocateInner, Running, ShareShape, TypeOK, Object
<1>3. CASE AllocateInner(s, i)
  <2>1. /\ i \in free /\ i \notin Object
        /\ \A c \in Block : i \notin inner[c]
    BY <1>3 DEF AllocateInner, BlocksAccountedFor
  <2>2. \A c, j \in Block : j \in inner'[c] <=> j \in inner[c] \/ (c = obj[s] /\ j = i)
    BY <1>3 DEF AllocateInner, TypeOK
  <2>3. free' = free \ {i}
    BY <1>3 DEF AllocateInner
  <2>4. BlocksAccountedFor'
    <3>1. ASSUME NEW j \in Block
          PROVE  j \in free' \/ j \in Object' \/ \E b \in Object' : j \in inner'[b]
      BY <1>1, <1>2, <2>1, <2>2, <2>3 DEF BlocksAccountedFor
    <3>2. ASSUME NEW j \in free', j \in Block PROVE j \notin Object'
      BY <1>1, <2>1, <2>3, <3>2 DEF BlocksAccountedFor
    <3>3. ASSUME NEW j \in Block, NEW b \in Block, j \in inner'[b]
          PROVE  /\ b \in Object'
                 /\ j \notin free' \cup Object'
                 /\ \A c \in Block : j \in inner'[c] => c = b
      BY <1>1, <1>2, <2>1, <2>2, <2>3, <3>3 DEF BlocksAccountedFor
    <3> QED BY <3>1, <3>2, <3>3 DEF BlocksAccountedFor
  <2> QED BY <1>1, <2>4, SameShares
<1>4. CASE DeallocateInner(s, i)
  <2>1. obj[s] \in Block /\ i \in inner[obj[s]]
    BY <1>2, <1>4 DEF DeallocateInner, Object
  <2>2. \A c, j \in Block : j \in inner'[c] <=> j \in inner[c] /\ ~(c = obj[s] /\ j = i)
    BY <1>4 DEF DeallocateInner, TypeOK
  <2>3. free' = free \cup {i}
    BY <1>4 DEF DeallocateInner
  <2>4. BlocksAccountedFor'
    <3>1. ASSUME NEW j \in Block
          PROVE  j \in free' \/ j \in Object' \/ \E b \in Object' : j \in inner'[b]
      BY <1>1, <1>2, <2>1, <2>2, <2>3 DEF BlocksAccountedFor
    <3>2. ASSUME NEW j \in free', j \in Block PROVE j \notin Object'
      BY <1>1, <2>1, <2>3, <3>2 DEF BlocksAccountedFor
    <3>3. ASSUME NEW j \in Block, NEW b \in Block, j \in inner'[b]
          PROVE  /\ b \in Object'
                 /\ j \notin free' \cup Object'
                 /\ \A c \in Block : j \in inner'[c] => c = b
      BY <1>1, <1>2, <2>1, <2>2, <2>3, <3>3 DEF BlocksAccountedFor
    <3> QED BY <3>1, <3>2, <3>3 DEF BlocksAccountedFor
  <2> QED BY <1>1, <2>4, SameShares
<1> QED BY <1>3, <1>4

\* ConstructReturn, ConstructThrow, BorrowObject and LoseBlob hand a counted
\* share over.
LEMMA HandOverIInv ==
  ASSUME IInv, TypeOK', NEW s \in Share,
         \/ ConstructReturn(s) \/ ConstructThrow(s) \/ LoseBlob(s)
         \/ \E p \in Process : BorrowObject(p, s)
  PROVE  IInv'
<1> USE DEF IInv
<1>1. PICK ph \in {"handle", "lost"}, p \in Process \cup {None} :
        SetShare(s, ph, obj[s], p)
  BY DEF ConstructReturn, ConstructThrow, LoseBlob, BorrowObject, TypeOK
<1>2. ph \in CountedPhase /\ phase[s] \in CountedPhase /\ UNCHANGED owner_ct
  BY DEF ConstructReturn, ConstructThrow, LoseBlob, BorrowObject, Running, CountedPhase
<1>3. ASSUME Object' = Object PROVE BlocksAccountedFor'
  <2>1. CASE UNCHANGED <<free, inner>>
    BY <1>3, <2>1 DEF BlocksAccountedFor
  <2>2. CASE ConstructThrow(s)
    <3>1. obj[s] \in Block /\ Object \subseteq Block
      BY <1>2 DEF ShareShape, TypeOK, CountedPhase, Object
    <3>2. \A c, j \in Block : j \in inner'[c] <=> j \in inner[c] /\ c # obj[s]
      BY <2>2 DEF ConstructThrow, TypeOK
    <3>3. \A j \in Block : j \in free' <=> j \in free \/ j \in inner[obj[s]]
      BY <2>2 DEF ConstructThrow
    <3>4. ASSUME NEW j \in Block
          PROVE  j \in free' \/ j \in Object' \/ \E b \in Object' : j \in inner'[b]
      BY <1>3, <3>1, <3>2, <3>3 DEF BlocksAccountedFor
    <3>5. ASSUME NEW j \in Block, j \in free' PROVE j \notin Object'
      BY <1>3, <3>1, <3>3, <3>5 DEF BlocksAccountedFor
    <3>6. ASSUME NEW j \in Block, NEW b \in Block, j \in inner'[b]
          PROVE  /\ b \in Object'
                 /\ j \notin free' \cup Object'
                 /\ \A c \in Block : j \in inner'[c] => c = b
      BY <1>3, <3>1, <3>2, <3>3, <3>6 DEF BlocksAccountedFor
    <3> QED BY <3>4, <3>5, <3>6 DEF BlocksAccountedFor
  <2> QED BY <2>1, <2>2 DEF ConstructReturn, LoseBlob, BorrowObject
<1> QED BY <1>1, <1>2, <1>3, SameOwners

\* lend_object() adds one owner and one to the count, which has room for it.
LEMMA LendObjectIInv ==
  ASSUME IInv, TypeOK', NEW s \in Share, NEW t \in Share, LendObject(s, t)
  PROVE  IInv'
<1> USE DEF IInv
<1> DEFINE o == obj[s]
<1>1. /\ o \in Object /\ Object \subseteq Block
      /\ obj[t] = None /\ s # t
      /\ s \in Owners(o) /\ t \notin Owners(o)
  BY NoneAssumption
     DEF LendObject, Running, ShareShape, TypeOK, Object, Owners, Sharers, CountedPhase
<1>2. SetShare(t, "blob", o, None) /\ "blob" \in Phase
  BY DEF LendObject, Phase, CountedPhase
<1>3. /\ \A r \in Share \ {t} : obj'[r] = obj[r] /\ phase'[r] = phase[r]
      /\ obj'[t] = o /\ phase'[t] = "blob"
  BY <1>2 DEF SetShare, TypeOK
<1>4. Object' = Object
  BY <1>1, <1>3, NoneAssumption DEF Object
<1>5. ShareShape'
  BY <1>1, <1>3, NoneAssumption DEF ShareShape
<1>6. OwnerCountExact'
  <2> SUFFICES ASSUME NEW c \in Object PROVE owner_ct'[c] = Cardinality(Owners(c)')
    BY <1>4 DEF OwnerCountExact
  <2>1. CASE c = o
    <3>1. Owners(c)' = Owners(o) \cup {t}
      BY <1>1, <1>3, <2>1 DEF Owners, Sharers, CountedPhase
    <3>2. Cardinality(Owners(c)') = owner_ct[o] + 1 /\ owner_ct[o] + 1 < CtModulus
      BY <1>1, <3>1, RoomForOneMore DEF OwnerCountExact
    <3>3. owner_ct'[o] = IncrementedCt(owner_ct[o]) /\ owner_ct[o] \in 0 .. CtModulus - 1
      BY <1>1 DEF LendObject, TypeOK
    <3> QED BY <2>1, <3>2, <3>3, CtExact
  <2>2. CASE c # o
    <3>1. Owners(c)' = Owners(c)
      BY <1>1, <1>3, <2>2, NoneAssumption DEF Owners, Sharers
    <3>2. owner_ct'[c] = owner_ct[c]
      BY <1>1, <2>2 DEF LendObject, TypeOK
    <3> QED BY <3>1, <3>2 DEF OwnerCountExact
  <2> QED BY <2>1, <2>2
<1>7. SoleDestroyer'
  BY <1>1, <1>3, NoneAssumption DEF SoleDestroyer, LendObject, Running
<1>8. BlocksAccountedFor'
  BY <1>4 DEF BlocksAccountedFor, LendObject
<1> QED BY <1>5, <1>6, <1>7, <1>8

\* The decrement takes one owner away; who reads 1 before it was the only one.
LEMMA ReleaseHandleIInv ==
  ASSUME IInv, TypeOK', NEW s \in Share, ReleaseHandle(s)
  PROVE  IInv'
<1> USE DEF IInv
<1> DEFINE o == obj[s]
<1>1. /\ o \in Object /\ Object \subseteq Block
      /\ s \in Owners(o)
      /\ \A r \in Sharers(o) : phase[r] # "destroying"
  BY DEF ReleaseHandle, Running, ShareShape, TypeOK, Object, Owners, Sharers,
         CountedPhase, SoleDestroyer
<1>2. Sharers(o) = Owners(o)
  BY <1>1 DEF Sharers, Owners, ShareShape, TypeOK, Phase, Object
<1>3. owner_ct[o] = Cardinality(Owners(o)) /\ owner_ct[o] \in 0 .. CtModulus - 1
  BY <1>1 DEF OwnerCountExact, TypeOK
<1>4. /\ owner_ct'[o] = owner_ct[o] - 1
      /\ owner_ct'[o] = Cardinality(Owners(o) \ {s})
      /\ owner_ct[o] = 1 <=> Owners(o) = {s}
      /\ \A c \in Block \ {o} : owner_ct'[c] = owner_ct[c]
  <2>1. owner_ct[o] > 0
    BY <1>1, <1>3, OneOwnerLess
  <2>2. owner_ct'[o] = DecrementedCt(owner_ct[o])
    BY <1>1 DEF ReleaseHandle, TypeOK
  <2> QED BY SMTT(30), <1>1, <1>3, <2>1, <2>2, OneOwnerLess, CtExact DEF ReleaseHandle, TypeOK
<1>5. /\ \A r \in Share \ {s} : obj'[r] = obj[r] /\ phase'[r] = phase[r]
      /\ owner_ct[o] = 1 => obj'[s] = o /\ phase'[s] = "destroying"
      /\ owner_ct[o] # 1 => obj'[s] = None /\ phase'[s] = "unused"
  BY DEF ReleaseHandle, SetShare, DiscardShare, TypeOK, IsLastOwner
<1>6. Object' = Object
  <2>1. \E r \in Share : obj'[r] = o
    BY <1>1, <1>4, <1>5 DEF Owners, Sharers
  <2> QED BY <1>1, <1>5, <2>1, NoneAssumption DEF Object
<1>7. ShareShape'
  BY <1>1, <1>5, NoneAssumption DEF ShareShape
<1>8. OwnerCountExact'
  <2> SUFFICES ASSUME NEW c \in Object PROVE owner_ct'[c] = Cardinality(Owners(c)')
    BY <1>6 DEF OwnerCountExact
  <2>1. CASE c = o
    <3>1. Owners(c)' = Owners(o) \ {s}
      BY <1>1, <1>5, <2>1 DEF Owners, Sharers, CountedPhase
    <3> QED BY <1>4, <2>1, <3>1
  <2>2. CASE c # o
    <3>1. Owners(c)' = Owners(c)
      BY <1>1, <1>5, <2>2, NoneAssumption DEF Owners, Sharers
    <3> QED BY <1>1, <1>4, <2>2, <3>1 DEF OwnerCountExact
  <2> QED BY <2>1, <2>2
<1>9. SoleDestroyer'
  <2>1. CASE owner_ct[o] = 1
    <3>1. Sharers(o) = {s}
      BY <1>2, <1>4, <2>1
    <3> QED BY <1>5, <2>1, <3>1 DEF SoleDestroyer, Sharers
  <2>2. CASE owner_ct[o] # 1
    BY <1>1, <1>5, <2>2, NoneAssumption DEF SoleDestroyer, ShareShape
  <2> QED BY <2>1, <2>2
<1>10. BlocksAccountedFor'
  BY <1>6 DEF BlocksAccountedFor, ReleaseHandle
<1> QED BY <1>7, <1>8, <1>9, <1>10

\* The last owner gives the object up, and nobody else had it.
LEMMA DeallocateIInv ==
  ASSUME IInv, TypeOK', NEW s \in Share, Deallocate(s)
  PROVE  IInv'
<1> USE DEF IInv
<1> DEFINE o == obj[s]
<1>1. /\ o \in Object /\ Object \subseteq Block
      /\ \A r \in Share : obj[r] = o => r = s
      /\ inner[o] = {}
  BY DEF Deallocate, Running, ShareShape, TypeOK, Object, SoleDestroyer
<1>2. /\ \A r \in Share \ {s} : obj'[r] = obj[r] /\ phase'[r] = phase[r]
      /\ obj'[s] = None /\ phase'[s] = "unused"
  BY DEF Deallocate, DiscardShare, SetShare, TypeOK
<1>3. Object' = Object \ {o}
  BY <1>1, <1>2, NoneAssumption DEF Object
<1>4. ShareShape'
  BY <1>2 DEF ShareShape
<1>5. OwnerCountExact'
  <2> SUFFICES ASSUME NEW c \in Object, c # o PROVE owner_ct'[c] = Cardinality(Owners(c)')
    BY <1>3 DEF OwnerCountExact
  <2>1. Owners(c)' = Owners(c)
    BY <1>1, <1>2, NoneAssumption DEF Owners, Sharers
  <2> QED BY <2>1 DEF OwnerCountExact, Deallocate
<1>6. SoleDestroyer'
  BY <1>2 DEF SoleDestroyer, ShareShape
<1>7. BlocksAccountedFor'
  BY <1>1, <1>3 DEF BlocksAccountedFor, Deallocate
<1> QED BY <1>4, <1>5, <1>6, <1>7

\* IInv is inductive.
LEMMA NextIInv == IInv /\ [Next]_vars => IInv'
<1> SUFFICES ASSUME IInv, [Next]_vars PROVE IInv'
  OBVIOUS
<1>1. TypeOK'
  BY NextType DEF IInv
<1>2. ASSUME NEW p \in Process, OpenArena(p) \/ CloseArena(p) \/ Crash(p)
      PROVE  IInv'
  <2>1. UNCHANGED <<free, owner_ct, inner, phase, obj>>
    BY <1>2 DEF OpenArena, CloseArena, Crash
  <2>2. BlocksAccountedFor'
    BY <2>1 DEF IInv, BlocksAccountedFor, Object
  <2> QED BY <1>1, <2>1, <2>2, SameShares
<1>3. CASE UNCHANGED vars
  <2>1. BlocksAccountedFor'
    BY <1>3 DEF IInv, BlocksAccountedFor, Object, vars
  <2> QED BY <1>1, <1>3, <2>1, SameShares DEF vars
<1> QED
  BY <1>1, <1>2, <1>3, ConstructAllocateIInv, InnerIInv, HandOverIInv, LendObjectIInv,
     ReleaseHandleIInv, DeallocateIInv
  DEF Next

\* IInv holds in every reachable state.
LEMMA SpecIInv == Spec => []IInv
BY InitIInv, NextIInv, PTL DEF Spec

-----------------------------------------------------------------------------
(* The theorems. *)

\* Type correctness of PoolArena.
THEOREM TypeCorrect == Spec => []TypeOK
BY SpecIInv, PTL DEF IInv

\* The count in the pool is exact: construct() 1, lend_object() +1, deleter -1.
THEOREM CountIsExact == Spec => []OwnerCountExact
BY SpecIInv, PTL DEF IInv

\* The destructor and the deallocation of an object run in one deleter only.
THEOREM DestroyedOnce == Spec => []SoleDestroyer
BY SpecIInv, PTL DEF IInv

\* The pool's blocks are in one use each and none is silently leaked.
THEOREM NoSilentLeak == Spec => []BlocksAccountedFor
BY SpecIInv, PTL DEF IInv

\* An exact count is not 0 while there is an owner; a destroyer has no company.
LEMMA IInvNoUseAfterFree == IInv => NoUseAfterFree
<1> SUFFICES ASSUME IInv, NEW s \in Share, phase[s] \in CountedPhase
             PROVE  /\ ({obj[s]} \cup inner[obj[s]]) \cap free = {}
                    /\ owner_ct[obj[s]] # 0
                    /\ \A t \in Sharers(obj[s]) : phase[t] # "destroying"
  BY DEF NoUseAfterFree
<1> USE DEF IInv
<1>1. obj[s] \in Object /\ Object \subseteq Block /\ s \in Owners(obj[s])
  BY DEF ShareShape, TypeOK, CountedPhase, Object, Owners, Sharers
<1>2. ({obj[s]} \cup inner[obj[s]]) \cap free = {}
  BY <1>1 DEF BlocksAccountedFor, TypeOK
<1>3. owner_ct[obj[s]] # 0
  <2>1. Cardinality(Owners(obj[s])) > 0
    BY <1>1, OneOwnerLess
  <2>2. owner_ct[obj[s]] = Cardinality(Owners(obj[s]))
    BY <1>1 DEF OwnerCountExact
  <2> QED BY <2>1, <2>2, OwnersFinite
<1>4. \A t \in Sharers(obj[s]) : phase[t] # "destroying"
  BY DEF SoleDestroyer, Sharers, CountedPhase
<1> QED BY <1>2, <1>3, <1>4

\* Whoever has a share finds the object alive, in every process.
THEOREM SharesAreSafe == Spec => []NoUseAfterFree
BY SpecIInv, IInvNoUseAfterFree, PTL

\* A count of 0 means that nobody owns the object.
LEMMA NoOwnersAtZero ==
  ASSUME IInv, NEW b \in Object, owner_ct[b] = 0
  PROVE  Owners(b) = {}
<1>1. Cardinality(Owners(b)) = 0
  BY DEF IInv, OwnerCountExact
<1> QED BY <1>1, OwnersFinite, FS_EmptySet

\* An object whose count is 0 keeps it until it is deallocated.
THEOREM NeverRevived == Spec => NoResurrection
<1>1. ASSUME IInv, [Next]_vars
      PROVE  [\A b \in Object : owner_ct[b] = 0 /\ b \notin free' => owner_ct'[b] = 0]_vars
  <2> SUFFICES ASSUME NEW b \in Object, owner_ct[b] = 0 PROVE owner_ct'[b] = 0
    OBVIOUS
  <2>1. /\ b \in Block /\ b \notin free
        /\ \A s \in Share : obj[s] = b => phase[s] \notin CountedPhase
    BY <1>1, NoOwnersAtZero DEF Object, Owners, Sharers, IInv, BlocksAccountedFor
  <2>2. ASSUME NEW p \in Process, NEW s \in Share, NEW c \in Block, ConstructAllocate(p, s, c)
        PROVE  owner_ct'[b] = 0
    BY <1>1, <2>1, <2>2 DEF ConstructAllocate, IInv, TypeOK
  <2>3. ASSUME NEW s \in Share, NEW t \in Share, LendObject(s, t) \/ ReleaseHandle(s)
        PROVE  owner_ct'[b] = 0
    BY <1>1, <2>1, <2>3 DEF LendObject, ReleaseHandle, Running, CountedPhase, IInv, TypeOK
  <2>4. ASSUME NEW s \in Share, NEW i \in Block, AllocateInner(s, i) \/ DeallocateInner(s, i)
        PROVE  owner_ct'[b] = 0
    BY <2>4 DEF AllocateInner, DeallocateInner
  <2>5. ASSUME NEW s \in Share,
               ConstructReturn(s) \/ ConstructThrow(s) \/ LoseBlob(s) \/ Deallocate(s)
        PROVE  owner_ct'[b] = 0
    BY <2>5 DEF ConstructReturn, ConstructThrow, LoseBlob, Deallocate
  <2>6. ASSUME NEW p \in Process,
               \/ OpenArena(p) \/ CloseArena(p) \/ Crash(p)
               \/ \E s \in Share : BorrowObject(p, s)
        PROVE  owner_ct'[b] = 0
    BY <2>6 DEF OpenArena, CloseArena, Crash, BorrowObject
  <2> QED BY <1>1, <2>2, <2>3, <2>4, <2>5, <2>6 DEF Next, vars
<1> QED BY <1>1, SpecIInv, PTL DEF Spec, NoResurrection

-----------------------------------------------------------------------------
(* Implementation of SharedOwnership. *)

\* No objects at first, in both specifications.
LEMMA InitOwnership == Init => Ownership!Init
<1> SUFFICES ASSUME Init PROVE Ownership!Init
  OBVIOUS
<1>1. Object = {} /\ \A b \in Block : Owners(b) = {}
  BY NoneAssumption DEF Init, Object, Owners, Sharers
<1> QED BY <1>1 DEF Ownership!Init

\* The mapping in terms of one block at a time.
LEMMA OwnershipStep ==
  ASSUME NEW b \in Block, \A c \in Block \ {b} : Owners(c)' = Owners(c)
  PROVE  [c \in Block |-> Owners(c)]' = [[c \in Block |-> Owners(c)] EXCEPT ![b] = Owners(b)']
OBVIOUS

\* Handing a share over, or working on inner buffers, changes no owner.
LEMMA OwnershipStutter ==
  ASSUME \A s \in Share : /\ obj'[s] = obj[s]
                          /\ phase'[s] \in CountedPhase <=> phase[s] \in CountedPhase
  PROVE  UNCHANGED <<Object, [b \in Block |-> Owners(b)]>>
<1>1. Object' = Object
  BY DEF Object
<1>2. \A b \in Block : Owners(b)' = Owners(b)
  BY DEF Owners, Sharers
<1> QED BY <1>1, <1>2

\* Each step of the pool is a step of shared ownership, or changes no owner.
LEMMA NextOwnership ==
  IInv /\ IInv' /\ [Next]_vars => [Ownership!Next]_<<Object, [b \in Block |-> Owners(b)]>>
<1> SUFFICES ASSUME IInv, IInv', [Next]_vars
             PROVE  [Ownership!Next]_<<Object, [b \in Block |-> Owners(b)]>>
  OBVIOUS
<1> USE DEF IInv
<1> DEFINE owners == [b \in Block |-> Owners(b)]
<1>0. Object \subseteq Block
  BY DEF Object
<1>1. ASSUME NEW p \in Process, NEW s \in Share, NEW b \in Block, ConstructAllocate(p, s, b)
      PROVE  Ownership!Create(b, s)
  <2>1. /\ \A t \in Share \ {s} : obj'[t] = obj[t] /\ phase'[t] = phase[t]
        /\ obj'[s] = b /\ phase'[s] = "constructing"
        /\ obj[s] = None /\ b \notin Object
    BY <1>1 DEF ConstructAllocate, SetShare, TypeOK, ShareShape, BlocksAccountedFor
  <2>2. Object' = Object \cup {b}
    BY <2>1, NoneAssumption DEF Object
  <2>3. Owners(b)' = {s} /\ \A c \in Block \ {b} : Owners(c)' = Owners(c)
    BY <2>1, NoneAssumption DEF Owners, Sharers, Object, CountedPhase
  <2>4. owners' = [owners EXCEPT ![b] = {s}]
    BY <2>3, OwnershipStep
  <2> QED BY <2>1, <2>2, <2>4 DEF Ownership!Create
<1>2. ASSUME NEW s \in Share, NEW t \in Share, NEW b \in Block, obj[s] = b, LendObject(s, t)
      PROVE  Ownership!AddOwner(b, s, t)
  <2>1. /\ \A r \in Share \ {t} : obj'[r] = obj[r] /\ phase'[r] = phase[r]
        /\ obj'[t] = b /\ phase'[t] = "blob" /\ obj[t] = None
        /\ obj[s] = b /\ s # t
        /\ phase[s] = "handle"
    BY <1>2 DEF LendObject, Running, SetShare, TypeOK, ShareShape
  <2>2. Object' = Object
    BY <2>1, NoneAssumption DEF Object
  <2>3. /\ Owners(b)' = Owners(b) \cup {t}
        /\ \A c \in Block \ {b} : Owners(c)' = Owners(c)
    BY <2>1, NoneAssumption DEF Owners, Sharers, CountedPhase
  <2>4. owners' = [owners EXCEPT ![b] = @ \cup {t}]
    BY <2>1, <2>3, OwnershipStep
  <2>5. s \in owners[b] /\ \A c \in Block : t \notin owners[c]
    BY <2>1, NoneAssumption DEF Owners, Sharers, CountedPhase
  <2> QED BY <2>2, <2>4, <2>5 DEF Ownership!AddOwner
<1>3. ASSUME NEW s \in Share, NEW b \in Block, obj[s] = b, ReleaseHandle(s)
      PROVE  Ownership!DropOwner(b, s)
  <2>1. /\ \A r \in Share \ {s} : obj'[r] = obj[r] /\ phase'[r] = phase[r]
        /\ phase[s] = "handle" /\ obj[s] = b
        /\ \/ IsLastOwner(owner_ct[b]) /\ obj'[s] = b /\ phase'[s] = "destroying"
           \/ ~IsLastOwner(owner_ct[b]) /\ obj'[s] = None /\ phase'[s] = "unused"
    BY <1>3 DEF ReleaseHandle, DiscardShare, Running, SetShare, TypeOK, ShareShape
  <2>2. Object' = Object
    <3>1. \E r \in Share : obj'[r] = b
      <4>1. CASE IsLastOwner(owner_ct[b])
        BY <2>1, <4>1
      <4>2. CASE ~IsLastOwner(owner_ct[b])
        <5>1. s \in Owners(b) /\ b \in Object
          BY <2>1 DEF Owners, Sharers, CountedPhase, Object
        <5>2. Owners(b) # {s}
          BY <4>2, <5>1, OneOwnerLess DEF OwnerCountExact, IsLastOwner
        <5> QED BY <2>1, <5>1, <5>2 DEF Owners, Sharers
      <4> QED BY <4>1, <4>2
    <3> QED BY <2>1, <3>1, NoneAssumption DEF Object
  <2>3. /\ Owners(b)' = Owners(b) \ {s}
        /\ \A c \in Block \ {b} : Owners(c)' = Owners(c)
    BY <2>1, NoneAssumption DEF Owners, Sharers, CountedPhase
  <2>4. owners' = [owners EXCEPT ![b] = @ \ {s}]
    BY <2>1, <2>3, OwnershipStep
  <2>5. s \in owners[b]
    BY <2>1 DEF Owners, Sharers, CountedPhase
  <2> QED BY <2>2, <2>4, <2>5 DEF Ownership!DropOwner
<1>4. ASSUME NEW s \in Share, NEW b \in Block, obj[s] = b, Deallocate(s)
      PROVE  Ownership!Reclaim(b)
  <2>1. /\ \A r \in Share \ {s} : obj'[r] = obj[r] /\ phase'[r] = phase[r]
        /\ obj'[s] = None /\ phase'[s] = "unused"
        /\ phase[s] = "destroying" /\ obj[s] = b
        /\ \A r \in Share : obj[r] = b => r = s
    BY <1>4 DEF Deallocate, DiscardShare, Running, SetShare, TypeOK, ShareShape, SoleDestroyer
  <2>2. Object' = Object \ {b} /\ b \in Object
    BY <2>1, NoneAssumption DEF Object
  <2>3. Owners(b) = {} /\ \A c \in Block : Owners(c)' = Owners(c)
    BY <2>1, NoneAssumption DEF Owners, Sharers, CountedPhase
  <2>4. UNCHANGED owners /\ owners[b] = {}
    BY <2>1, <2>3
  <2> QED BY <2>2, <2>4 DEF Ownership!Reclaim, Ownership!NoOwners
<1>5. ASSUME NEW s \in Share,
             \/ ConstructReturn(s) \/ ConstructThrow(s) \/ LoseBlob(s)
             \/ \E p \in Process : BorrowObject(p, s)
      PROVE  UNCHANGED <<Object, owners>>
  <2>1. \A r \in Share : /\ obj'[r] = obj[r]
                         /\ phase'[r] \in CountedPhase <=> phase[r] \in CountedPhase
    BY <1>5 DEF ConstructReturn, ConstructThrow, LoseBlob, BorrowObject, Running, SetShare,
                TypeOK, CountedPhase
  <2> QED BY <2>1, OwnershipStutter
<1>6. ASSUME UNCHANGED <<obj, phase>>
      PROVE  UNCHANGED <<Object, owners>>
  BY <1>6, OwnershipStutter
<1>7. ASSUME NEW p \in Process, OpenArena(p) \/ CloseArena(p) \/ Crash(p)
      PROVE  UNCHANGED <<obj, phase>>
  BY <1>7 DEF OpenArena, CloseArena, Crash
<1>8. ASSUME NEW s \in Share, NEW i \in Block, AllocateInner(s, i) \/ DeallocateInner(s, i)
      PROVE  UNCHANGED <<obj, phase>>
  BY <1>8 DEF AllocateInner, DeallocateInner
<1>9. ASSUME NEW s \in Share, ReleaseHandle(s) \/ Deallocate(s) \/ \E t \in Share : LendObject(s, t)
      PROVE  obj[s] \in Block
  BY <1>9 DEF ReleaseHandle, Deallocate, LendObject, Running, TypeOK, ShareShape
<1>10. CASE UNCHANGED vars
  <2>1. UNCHANGED <<Object, owners>>
    BY <1>6, <1>10 DEF vars
  <2> QED BY <2>1
<1> HIDE DEF owners
<1>11. ASSUME Ownership!Next \/ UNCHANGED <<Object, owners>>
      PROVE  [Ownership!Next]_<<Object, [b \in Block |-> Owners(b)]>>
  BY <1>11 DEF owners
<1>12. ASSUME NEW b \in Block, NEW s \in Share, NEW t \in Share,
              \/ Ownership!Create(b, s) \/ Ownership!AddOwner(b, s, t)
              \/ Ownership!DropOwner(b, s) \/ Ownership!Reclaim(b)
       PROVE  Ownership!Next
  BY <1>12 DEF Ownership!Next
<1>13. CASE \E p \in Process, s \in Share, b \in Block : ConstructAllocate(p, s, b)
  BY <1>1, <1>11, <1>12, <1>13
<1>14. CASE \E s, t \in Share : LendObject(s, t)
  BY <1>2, <1>9, <1>11, <1>12, <1>14
<1>15. CASE \E s \in Share : ReleaseHandle(s) \/ Deallocate(s)
  BY <1>3, <1>4, <1>9, <1>11, <1>12, <1>15
<1>16. CASE \/ \E s \in Share : ConstructReturn(s) \/ ConstructThrow(s) \/ LoseBlob(s)
            \/ \E p \in Process, s \in Share : BorrowObject(p, s)
  BY <1>5, <1>11, <1>16
<1>17. CASE \/ \E p \in Process : OpenArena(p) \/ CloseArena(p) \/ Crash(p)
            \/ \E s \in Share, i \in Block : AllocateInner(s, i) \/ DeallocateInner(s, i)
  BY <1>6, <1>7, <1>8, <1>11, <1>17
<1> QED BY <1>10, <1>13, <1>14, <1>15, <1>16, <1>17 DEF Next

\* Pool_arena implements shared ownership: the local decision of the deleter is
\* the global fact that no process has the object any more.
THEOREM Implements == Spec => ImplementsOwnership
BY InitOwnership, NextOwnership, SpecIInv, PTL
DEF Spec, ImplementsOwnership, Ownership!Spec, Ownership!ownershipVars
=============================================================================
