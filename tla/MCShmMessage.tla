---------------------------- MODULE MCShmMessage ----------------------------
(* ShmMessage on a small instance. *)
EXTENDS ShmMessage, TLC

\* Which Reader is which does not matter to the invariants.
MessageSymmetry == Permutations(Message)
=============================================================================
