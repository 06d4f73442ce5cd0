------------------------------ MODULE CLHLock --------------------------------
(****************************************************************************)
(* The CLH lock of synch_algorithms/clh.h, and the enqueue and dequeue of   *)
(* the benchmark that run an operation under it ("clh").                    *)
(****************************************************************************)
EXTENDS HeapClients

CONSTANTS
    Central,   \* the node the lock is initialised with
    NULL

ASSUME NodesAssumption == Central \notin Threads /\ NULL \notin Threads \cup {Central}

VARIABLES
    clhTail,     \* Tail
    clhLocked,   \* locked of each node
    MyNode,      \* of each thread
    MyPred,
    found        \* result of the benchmark's dequeue

clhVars == <<clhTail, clhLocked, MyNode, MyPred, found>>

clh == [name |-> "clh", shift |-> 0, detaches |-> FALSE]

(* clhLockInit and, in each thread, clhThreadLocalInit.                     *)
CLHInit ==
    /\ clhTail = Central
    /\ clhLocked = [n \in Threads \cup {Central} |-> FALSE]
    /\ MyNode = [t \in Threads |-> t]
    /\ MyPred = [t \in Threads |-> NULL]
    /\ found = [t \in Threads |-> 0]

(* Mutant: the node is not marked.                                          *)
CLHSwapUnmarked(t, from) ==
    /\ Move(t, from, "clhSpin")
    /\ MyPred' = [MyPred EXCEPT ![t] = clhTail]
    /\ clhTail' = MyNode[t]
    /\ UNCHANGED <<MyNode, clhLocked, found>>

(* clhLock: the node is marked and put at the tail.                         *)
CLHSwap(t, from) ==
    /\ Move(t, from, "clhSpin")
    /\ clhLocked' = [clhLocked EXCEPT ![MyNode[t]] = TRUE]
    /\ MyPred' = [MyPred EXCEPT ![t] = clhTail]
    /\ clhTail' = MyNode[t]
    /\ UNCHANGED <<MyNode, found>>

CLHSpin(t, to) ==
    /\ Move(t, "clhSpin", to)
    /\ ~clhLocked[MyPred[t]]
    /\ UNCHANGED clhVars

(* clhUnlock: from now on the thread owns the node of its predecessor. Here *)
(* and below a variable that is not read again before it is assigned is set *)
(* back to its first value.                                                 *)
CLHUnlock(t, from) ==
    /\ Move(t, from, "idle")
    /\ clhLocked' = [clhLocked EXCEPT ![MyNode[t]] = FALSE]
    /\ MyNode' = [MyNode EXCEPT ![t] = MyPred[t]]
    /\ found' = [found EXCEPT ![t] = 0]
    /\ MyPred' = [MyPred EXCEPT ![t] = NULL]
    /\ UNCHANGED clhTail

(* enqueue and dequeue of the "clh" build.                                  *)
CLHCall(t, arg) == Begin(t, arg) /\ CLHSwap(t, "idle")

CLHRuns(t) ==
    /\ Move(t, "own", "leave")
    /\ Runs(t, request[t])
    /\ found' = [found EXCEPT ![t] = dequeue_cs]
    /\ UNCHANGED <<clhTail, clhLocked, MyNode, MyPred>>

CLHStep(t) ==
    \/ CLHSpin(t, "own") /\ UNCHANGED clientVars
    \/ CLHRuns(t)
    \/ CLHUnlock(t, "leave") /\ Return(t, found[t])
=============================================================================
