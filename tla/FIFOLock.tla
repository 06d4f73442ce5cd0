------------------------------ MODULE FIFOLock -------------------------------
(****************************************************************************)
(* What a fair mutual exclusion lock promises: a thread takes a place in    *)
(* the queue and the threads are inside one at a time, in the order of      *)
(* their places. The lock may let a thread in at once if the queue is       *)
(* empty.                                                                   *)
(****************************************************************************)
EXTENDS Sequences

CONSTANT Threads

VARIABLES
    status,   \* "outside", "waiting" or "inside"
    queue     \* the threads that have a place, the one inside first

vars == <<status, queue>>

Init ==
    /\ status = [t \in Threads |-> "outside"]
    /\ queue = <<>>

Become(t, from, to) ==
    /\ status[t] = from
    /\ status' = [status EXCEPT ![t] = to]

TakePlace(t) ==
    /\ \/ Become(t, "outside", "waiting")
       \/ queue = <<>> /\ Become(t, "outside", "inside")
    /\ queue' = Append(queue, t)

Enter(t) ==
    /\ queue # <<>> /\ t = Head(queue)
    /\ Become(t, "waiting", "inside")
    /\ UNCHANGED queue

Leave(t) ==
    /\ queue # <<>> /\ t = Head(queue)
    /\ Become(t, "inside", "outside")
    /\ queue' = Tail(queue)

Next == \E t \in Threads : TakePlace(t) \/ Enter(t) \/ Leave(t)

Spec == Init /\ [][Next]_vars

(* Fair: whoever has a place is let in, whoever is inside leaves.           *)
FairSpec == Spec /\ \A t \in Threads : WF_vars(Enter(t)) /\ WF_vars(Leave(t))
=============================================================================
