--------------------------- MODULE MCArenaActivator ---------------------------
(* Instances of ArenaActivator for TLC. *)
EXTENDS ArenaActivator, TLC

\* Every arena has an object.
EveryArenaUsed ==
  CHOOSE f \in [Object -> Arena] : \A a \in Arena : \E o \in Object : f[o] = a

\* Threads and buffers are only ever compared.
ThreadSymmetry == Permutations(Thread) \cup Permutations(Buffer)
=============================================================================
