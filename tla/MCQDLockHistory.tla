--------------------------- MODULE MCQDLockHistory ---------------------------
EXTENDS QDLockHistory, TLC

(* Bound: at most one blocking call is made, and it is its thread's last.   *)
OneBlocks ==
    /\ Cardinality({t \in Threads : kind[t] = "await"}) <= 1
    /\ \A t \in Threads : kind[t] = "await" => calls[t] = MaxCalls
    /\ Cardinality({i \in 1 .. Len(accepted) : accepted[i].respond}) <= 1

Symmetry == Permutations(Threads)
=============================================================================
