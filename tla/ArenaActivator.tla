---------------------------- MODULE ArenaActivator ----------------------------
(***************************************************************************)
(* ipc::shm::stl: how the inner buffers of an object in SHM come to be in  *)
(* the object's own arena.  A Stateless_allocator knows no arena: it asks  *)
(* the thread which one is active.  Arena_activators, objects on the       *)
(* thread's stack, set that; Pool_arena has one around T's constructor and *)
(* one around its destructor, users have their own around what they do to  *)
(* an object in between.                                                   *)
(*                                                                         *)
(* These nest in any way: a user's code in one arena's scope, T's          *)
(* constructor or T's destructor may construct, or drop the last handle    *)
(* of, an object in another arena, and may throw.  An arena is a pool:     *)
(* every thread, of whatever process, has a Pool_arena on each.            *)
(***************************************************************************)
EXTENDS Naturals, Sequences

CONSTANTS
  Thread,
  Arena,
  Object,   \* the objects that may be constructed
  ArenaOf,  \* per object: the arena in which it is
  Buffer,   \* inner buffers
  MaxDepth, \* bound: how deep activators nest in a thread
  None      \* no arena, no object

ASSUME ArenaOfAssumption == ArenaOf \in [Object -> Arena]

ASSUME DepthAssumption == MaxDepth \in Nat

ASSUME NoneAssumption == None \notin Arena \cup Object

VARIABLES
  active,    \* per thread: s_this_thread_active_arena
  stack,     \* per thread: its activators, the innermost last
  status,    \* per object: its life
  inner,     \* per object: the buffers its containers hold
  allocated  \* per arena: the inner buffers allocated there

vars == <<active, stack, status, inner, allocated>>

\* An Arena_activator: the arena it activates, the one it will restore, and the
\* object whose constructor or destructor it surrounds, if any.
Activator == [arena : Arena, saved : Arena \cup {None}, obj : Object \cup {None}]

Status == {"none", "constructing", "alive", "destroying"}

Innermost(t) == stack[t][Len(stack[t])]

-----------------------------------------------------------------------------

Init ==
  /\ active = [t \in Thread |-> None]
  /\ stack = [t \in Thread |-> <<>>]
  /\ status = [o \in Object |-> "none"]
  /\ inner = [o \in Object |-> {}]
  /\ allocated = [a \in Arena |-> {}]

\* Arena_activator's constructor.
Activate(t, a, o) ==
  /\ Len(stack[t]) < MaxDepth
  /\ active' = [active EXCEPT ![t] = a]
  /\ stack' = [stack EXCEPT ![t] = Append(@, [arena |-> a, saved |-> active[t], obj |-> o])]

\* (Mutant: it leaves no arena active.)
RestoredNull(activator) == None

RestoredArena(activator) == activator.saved

\* Its destructor, when the scope is left, by an exception or not.
Deactivate(t) ==
  /\ active' = [active EXCEPT ![t] = RestoredArena(Innermost(t))]
  /\ stack' = [stack EXCEPT ![t] = SubSeq(@, 1, Len(@) - 1)]

-----------------------------------------------------------------------------
(* Users, and Capnp_message_builder, which does as users do. *)

EnterScope(t, a) ==
  /\ Activate(t, a, None)
  /\ UNCHANGED <<status, inner, allocated>>

LeaveScope(t) ==
  /\ stack[t] # <<>>
  /\ Innermost(t).obj = None
  /\ Deactivate(t)
  /\ UNCHANGED <<status, inner, allocated>>

-----------------------------------------------------------------------------
(* Pool_arena. *)

\* construct(): T's constructor begins.
BeginConstruct(t, o) ==
  /\ status[o] = "none"
  /\ Activate(t, ArenaOf[o], o)
  /\ status' = [status EXCEPT ![o] = "constructing"]
  /\ UNCHANGED <<inner, allocated>>

\* It returns, or throws once unwinding has destroyed T's members.
EndConstruct(t) ==
  LET o == Innermost(t).obj IN
  /\ stack[t] # <<>>
  /\ o # None
  /\ status[o] = "constructing"
  /\ \/ status' = [status EXCEPT ![o] = "alive"]
     \/ inner[o] = {} /\ status' = [status EXCEPT ![o] = "none"]
  /\ Deactivate(t)
  /\ UNCHANGED <<inner, allocated>>

\* (Mutant: the deleter leaves it to whoever drops the handle.)
ArenaOfNobody(t, o) == active[t]

\* pool_arena.hpp:828: Pool_arena_activator ctx{this}.
ArenaForDestructor(t, o) == ArenaOf[o]

\* handle_deleter_impl() in the last owner: ~T() begins.
BeginDestroy(t, o) ==
  /\ status[o] = "alive"
  /\ Activate(t, ArenaForDestructor(t, o), o)
  /\ status' = [status EXCEPT ![o] = "destroying"]
  /\ UNCHANGED <<inner, allocated>>

\* ~T() has destroyed T's members.
EndDestroy(t) ==
  LET o == Innermost(t).obj IN
  /\ stack[t] # <<>>
  /\ o # None
  /\ status[o] = "destroying"
  /\ inner[o] = {}
  /\ status' = [status EXCEPT ![o] = "none"]
  /\ Deactivate(t)
  /\ UNCHANGED <<inner, allocated>>

-----------------------------------------------------------------------------
(* Stateless_allocator, used by the containers in an object. *)

\* Who uses them: T's constructor and destructor, and code in the scope of the
\* activator the contract asks for.
MayWorkOn(t, o) ==
  /\ stack[t] # <<>>
  /\ \/ Innermost(t).obj = o
     \/ status[o] = "alive" /\ Innermost(t).arena = ArenaOf[o]

Allocate(t, o, buf) ==
  /\ MayWorkOn(t, o)
  /\ active[t] # None
  /\ \A a \in Arena : buf \notin allocated[a]
  /\ allocated' = [allocated EXCEPT ![active[t]] = @ \cup {buf}]
  /\ inner' = [inner EXCEPT ![o] = @ \cup {buf}]
  /\ UNCHANGED <<active, stack, status>>

Deallocate(t, o, buf) ==
  /\ MayWorkOn(t, o)
  /\ active[t] # None
  /\ buf \in inner[o]
  /\ allocated' = [allocated EXCEPT ![active[t]] = @ \ {buf}]
  /\ inner' = [inner EXCEPT ![o] = @ \ {buf}]
  /\ UNCHANGED <<active, stack, status>>

\* A container in p is assigned, by a move, one in o, or they are swapped: as all
\* allocators compare equal, the buffers change hands and none is copied, whichever
\* arenas they are from.
MoveInner(t, o, p) ==
  /\ o # p
  /\ MayWorkOn(t, o) /\ MayWorkOn(t, p)
  /\ inner' = [inner EXCEPT ![o] = {}, ![p] = @ \cup inner[o]]
  /\ UNCHANGED <<active, stack, status, allocated>>

-----------------------------------------------------------------------------

Next ==
  \E t \in Thread :
    \/ \E a \in Arena : EnterScope(t, a)
    \/ LeaveScope(t) \/ EndConstruct(t) \/ EndDestroy(t)
    \/ \E o \in Object : BeginConstruct(t, o) \/ BeginDestroy(t, o)
    \/ \E o \in Object, buf \in Buffer : Allocate(t, o, buf) \/ Deallocate(t, o, buf)
    \/ \E o, p \in Object : MoveInner(t, o, p)

Spec == Init /\ [][Next]_vars

-----------------------------------------------------------------------------
(* Properties. *)

TypeOK ==
  /\ active \in [Thread -> Arena \cup {None}]
  /\ stack \in [Thread -> Seq(Activator)]
  /\ \A t \in Thread : Len(stack[t]) <= MaxDepth
  /\ status \in [Object -> Status]
  /\ inner \in [Object -> SUBSET Buffer]
  /\ allocated \in [Arena -> SUBSET Buffer]

\* Whatever was constructed, destroyed or thrown in the scope of an activator, the
\* rest of the scope works with its arena, each thread with its own: no allocator
\* trips over a null arena (the assertions in allocate() and deallocate()).
InnermostIsActive ==
  \A t \in Thread :
    /\ stack[t] = <<>> => active[t] = None
    /\ stack[t] # <<>> => active[t] = Innermost(t).arena

\* Every inner buffer is in the arena of the one object which holds it, and no
\* arena has a buffer nobody holds: none is given back to another arena than it
\* is from.
InnerBuffersAtHome ==
  /\ \A a \in Arena :
       allocated[a] = UNION {inner[o] : o \in {p \in Object : ArenaOf[p] = a}}
  /\ \A o, p \in Object : o # p => inner[o] \cap inner[p] = {}

(***************************************************************************)
(* Implementation of allocators which know their arena: an object exists   *)
(* from when its constructor begins until that has thrown or its           *)
(* destructor has returned.                                                *)
(***************************************************************************)
Allocators ==
  INSTANCE StatefulAllocator WITH exists <- {o \in Object : status[o] # "none"}

\* No allocator knows an arena, but each step of it is one that an allocator with a
\* pointer to the object's arena would take, and nothing is left of an object in its
\* arena when it is gone.  ("The allocator is *stateless*. [...] That is the reason
\* Arena_activator is necessary": it makes up for that, with the activators around
\* constructors, destructors and what users do in between.)
ImplementsAllocators == Allocators!Spec
=============================================================================
