---------------------------- MODULE SharedHeap -------------------------------
(****************************************************************************)
(* What the benchmark expects of enqueue and dequeue, whatever lock is      *)
(* around the heap: the operations of all threads run one at a time, those  *)
(* of one thread in the order of its calls and each once, and a dequeue     *)
(* returns what its own operation found.                                    *)
(****************************************************************************)
EXTENDS Integers, Sequences

CONSTANTS
    Threads,
    Values,    \* what is enqueued
    DEQUEUE    \* the argument of an operation that dequeues

VARIABLES
    detaches,  \* does enqueue return before its operation has run? never changes
    request,   \* the argument of the call a thread is in; 0: it is in no call
    pending,   \* the operations of a thread that have not run, oldest first
    heap,      \* how often each value is in the heap
    answer,    \* what the operation of a dequeue found, until it returns
    returned   \* what the thread's last call returned; 0 for an enqueue

vars == <<detaches, request, pending, heap, answer, returned>>

Held(h) == {v \in Values : h[v] > 0}

(* top(): the smallest value, or what stands for an empty heap.             *)
Top(h) == IF Held(h) = {} THEN -1 ELSE CHOOSE v \in Held(h) : \A w \in Held(h) : v <= w

(* insert() and pop().                                                      *)
After(h, arg) ==
    IF arg # DEQUEUE THEN [h EXCEPT ![arg] = @ + 1]
    ELSE IF Held(h) = {} THEN h ELSE [h EXCEPT ![Top(h)] = @ - 1]

Init ==
    /\ detaches \in BOOLEAN
    /\ request = [t \in Threads |-> 0]
    /\ pending = [t \in Threads |-> <<>>]
    /\ heap = [v \in Values |-> 0]
    /\ answer = [t \in Threads |-> 0]
    /\ returned = [t \in Threads |-> 0]

Call(t, arg) ==
    /\ request[t] = 0
    /\ request' = [request EXCEPT ![t] = arg]
    /\ pending' = [pending EXCEPT ![t] = Append(@, arg)]
    /\ returned' = [returned EXCEPT ![t] = 0]
    /\ UNCHANGED <<detaches, heap, answer>>

Run(t) ==
    /\ pending[t] # <<>>
    /\ pending' = [pending EXCEPT ![t] = Tail(@)]
    /\ heap' = After(heap, Head(pending[t]))
    /\ answer' = [answer EXCEPT ![t] =
           IF Head(pending[t]) = DEQUEUE THEN Top(heap) ELSE @]
    /\ UNCHANGED <<detaches, request, returned>>

Return(t) ==
    /\ request[t] # 0
    /\ pending[t] = <<>> \/ (detaches /\ request[t] # DEQUEUE)
    /\ request' = [request EXCEPT ![t] = 0]
    /\ returned' = [returned EXCEPT ![t] = answer[t]]
    /\ answer' = [answer EXCEPT ![t] = 0]
    /\ UNCHANGED <<detaches, pending, heap>>

Next ==
    \E t \in Threads :
        Run(t) \/ Return(t) \/ \E arg \in Values \cup {DEQUEUE} : Call(t, arg)

Spec == Init /\ [][Next]_vars
=============================================================================
