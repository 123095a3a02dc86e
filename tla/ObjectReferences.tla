--------------------------- MODULE ObjectReferences ---------------------------
(***************************************************************************)
(* What lending and borrowing through sessions mean to their users: a      *)
(* process has references to objects, and sends them on.  There are no     *)
(* addresses here, no offsets and no blobs: a reference is the object.     *)
(***************************************************************************)
CONSTANTS
  Session,  \* the sessions; each is its pool and its client's process too
  Server,   \* the server's process
  AppShm,   \* the app pool
  Object    \* the objects; each has a pool

VARIABLES
  holds,  \* per process: the objects it has references to
  onWay   \* the references lent and not yet borrowed

referenceVars == <<holds, onWay>>

PoolsOf(p) == IF p = Server THEN Session \cup {AppShm} ELSE {p, AppShm}

Init ==
  /\ holds = [p \in Session \cup {Server} |-> {}]
  /\ onWay = {}

Construct(p, o) ==
  /\ o.pool \in PoolsOf(p)
  /\ holds' = [holds EXCEPT ![p] = @ \cup {o}]
  /\ UNCHANGED onWay

\* From one end of a session to the other: what is in neither of the session's two
\* pools does not go through it.
Lend(s, p, q, o) ==
  /\ {p, q} = {Server, s}
  /\ o \in holds[p]
  /\ o.pool \in {s, AppShm}
  /\ onWay' = onWay \cup {[session |-> s, to |-> q, obj |-> o]}
  /\ UNCHANGED holds

\* What is borrowed is always what was lent.
Borrow(r) ==
  /\ r \in onWay
  /\ onWay' = onWay \ {r}
  /\ holds' = [holds EXCEPT ![r.to] = @ \cup {r.obj}]

Drop(p, o) ==
  /\ o \in holds[p]
  /\ holds' = [holds EXCEPT ![p] = @ \ {o}]
  /\ UNCHANGED onWay

Next ==
  \/ \E p \in Session \cup {Server}, o \in Object : Construct(p, o) \/ Drop(p, o)
  \/ \E s \in Session : \E p, q \in {Server, s} : \E o \in Object : Lend(s, p, q, o)
  \/ \E r \in onWay : Borrow(r)

Spec == Init /\ [][Next]_referenceVars
=============================================================================
