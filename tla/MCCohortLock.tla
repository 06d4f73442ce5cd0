---------------------------- MODULE MCCohortLock -----------------------------
EXTENDS CohortLock, TLC

Symmetry == Permutations(Threads) \cup Permutations(TicketLocks)
=============================================================================
