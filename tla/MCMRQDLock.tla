----------------------------- MODULE MCMRQDLock ------------------------------
EXTENDS MRQDLock, TLC

(* Everyone reads; two threads delegate and two enter a critical section.   *)
MixedKinds ==
    [t \in Threads |->
        CASE t = 0 -> {"delegate", "read"}
          [] t = 1 -> {"exclusive", "read"}
          [] OTHER -> Kinds]
=============================================================================
