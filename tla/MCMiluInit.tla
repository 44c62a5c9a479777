----------------------------- MODULE MCMiluInit -----------------------------
EXTENDS MiluInit, TLC

CONSTANTS t1, t2, t3

Symm == Permutations(Threads)
=============================================================================
