----------------------------- MODULE MCPoolBank -----------------------------
(* An instance of PoolBank for TLC. *)
EXTENDS PoolBank, TLC
Symm == Permutations(Threads)
=============================================================================
