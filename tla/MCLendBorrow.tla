--------------------------- MODULE MCLendBorrow ---------------------------
(* Instances of LendBorrow for TLC. *)
EXTENDS LendBorrow, TLC

\* A small app pool and session pools that are larger by one.
SmallPools == [k \in Pool |-> IF k = AppShm THEN 3 ELSE 4]

\* Two pools adjacent to each other and one that ends where memory ends.
SmallMapAddr == {1, 5, 12}

\* No session differs from another: their pools are equally large.
SessionSymmetry == Permutations(Session)
=============================================================================
