-------------------------- MODULE StatefulAllocator --------------------------
(***************************************************************************)
(* What Stateless_allocator, the thread-local active arena and the scopes  *)
(* of Arena_activators are to achieve together: the inner buffers of an    *)
(* object are as those of containers with an allocator in each that has a  *)
(* pointer to the object's arena.  There are no threads and no scopes; any *)
(* object there is may be worked on at any time.                           *)
(***************************************************************************)
CONSTANTS
  Arena,
  Object,
  ArenaOf,  \* per object: the arena in which it is
  Buffer

VARIABLES
  exists,    \* the objects there are, half constructed or destroyed ones too
  inner,     \* per object: the buffers its containers hold
  allocated  \* per arena: the inner buffers allocated there

allocatorVars == <<exists, inner, allocated>>

Init ==
  /\ exists = {}
  /\ inner = [o \in Object |-> {}]
  /\ allocated = [a \in Arena |-> {}]

Begin(o) ==
  /\ o \notin exists
  /\ exists' = exists \cup {o}
  /\ UNCHANGED <<inner, allocated>>

\* An object leaves nothing behind.
End(o) ==
  /\ o \in exists
  /\ inner[o] = {}
  /\ exists' = exists \ {o}
  /\ UNCHANGED <<inner, allocated>>

Allocate(o, buf) ==
  /\ o \in exists
  /\ \A a \in Arena : buf \notin allocated[a]
  /\ allocated' = [allocated EXCEPT ![ArenaOf[o]] = @ \cup {buf}]
  /\ inner' = [inner EXCEPT ![o] = @ \cup {buf}]
  /\ UNCHANGED exists

Deallocate(o, buf) ==
  /\ o \in exists
  /\ buf \in inner[o]
  /\ allocated' = [allocated EXCEPT ![ArenaOf[o]] = @ \ {buf}]
  /\ inner' = [inner EXCEPT ![o] = @ \ {buf}]
  /\ UNCHANGED exists

\* Allocators for one arena compare equal, those for two do not.
MoveInner(o, p) ==
  /\ o # p
  /\ o \in exists /\ p \in exists
  /\ ArenaOf[o] = ArenaOf[p]
  /\ inner' = [inner EXCEPT ![o] = {}, ![p] = @ \cup inner[o]]
  /\ UNCHANGED <<exists, allocated>>

Next ==
  \/ \E o \in Object : Begin(o) \/ End(o)
  \/ \E o \in Object, buf \in Buffer : Allocate(o, buf) \/ Deallocate(o, buf)
  \/ \E o, p \in Object : MoveInner(o, p)

Spec == Init /\ [][Next]_allocatorVars
=============================================================================
