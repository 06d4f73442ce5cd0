----------------------------- MODULE MCCombining -----------------------------
EXTENDS Combining, TLC

CONSTANTS t1, t2, t3, c1, c2

Symmetry == Permutations(Threads)
=============================================================================
