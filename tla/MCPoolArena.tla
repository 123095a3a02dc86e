---------------------------- MODULE MCPoolArena ----------------------------
(* Instances of PoolArena for TLC. *)
EXTENDS PoolArena, TLC

\* Processes, blocks and shares are only ever compared.
Symmetry ==
  Permutations(Process) \cup Permutations(Block) \cup Permutations(Share)
=============================================================================
