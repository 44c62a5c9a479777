-------------------------- MODULE MCIntrusiveList --------------------------
(* An instance of IntrusiveList for TLC. *)
EXTENDS IntrusiveList, TLC
Symm == Permutations(Heads) \cup Permutations(Nodes)
=============================================================================
