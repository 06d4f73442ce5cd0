-------------------------- MODULE MCDelegationLocks --------------------------
EXTENDS NodeLocks, TLC

Symmetry == Permutations(Threads)
=============================================================================
