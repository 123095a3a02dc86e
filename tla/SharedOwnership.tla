--------------------------- MODULE SharedOwnership ---------------------------
(***************************************************************************)
(* What Pool_arena promises about the objects constructed in its pool,     *)
(* whatever processes share them and however they count: an object lives   *)
(* from its construction on, at least as long as it has an owner, owners   *)
(* come only from owners, and once the last of them has gone the object    *)
(* may be reclaimed, once.                                                 *)
(***************************************************************************)
CONSTANTS
  Block,    \* where an object may live
  Share     \* who may co-own one

VARIABLES
  live,     \* the blocks which hold an object
  owners    \* per block: the shares in the object there

ownershipVars == <<live, owners>>

NoOwners(b) == owners[b] = {}

Init ==
  /\ live = {}
  /\ owners = [b \in Block |-> {}]

Create(b, s) ==
  /\ b \notin live
  /\ live' = live \cup {b}
  /\ owners' = [owners EXCEPT ![b] = {s}]

AddOwner(b, s, t) ==
  /\ s \in owners[b]
  /\ \A c \in Block : t \notin owners[c]
  /\ owners' = [owners EXCEPT ![b] = @ \cup {t}]
  /\ UNCHANGED live

DropOwner(b, s) ==
  /\ s \in owners[b]
  /\ owners' = [owners EXCEPT ![b] = @ \ {s}]
  /\ UNCHANGED live

Reclaim(b) ==
  /\ b \in live
  /\ NoOwners(b)
  /\ live' = live \ {b}
  /\ UNCHANGED owners

Next ==
  \E b \in Block :
    \/ \E s \in Share : Create(b, s) \/ DropOwner(b, s)
    \/ \E s, t \in Share : AddOwner(b, s, t)
    \/ Reclaim(b)

Spec == Init /\ [][Next]_ownershipVars
=============================================================================
