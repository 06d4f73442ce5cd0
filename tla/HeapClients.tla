---------------------------- MODULE HeapClients ------------------------------
(****************************************************************************)
(* The threads of the data structure benchmark (datastructures_bench.c) and *)
(* the heap their operations work on. A thread calls enqueue or dequeue     *)
(* until the benchmark is stopped, that is any number of times.             *)
(*                                                                          *)
(* pending, answer and returned are history variables: the operations of a  *)
(* thread that have not run, what the last dequeue that ran for it found,   *)
(* and what its last call returned.                                         *)
(****************************************************************************)
EXTENDS Control, Integers, Sequences, FiniteSetsExt

CONSTANTS
    Values,    \* what is enqueued: 1 + a random number
    MaxItems   \* bounds the values that are in the heap or on their way to it

ASSUME ValuesAssumption == Values \subseteq Nat \ {0}
ASSUME ItemsAssumption == MaxItems \in Nat

(* DEQUEUE_ARG and _DEQ_VALUE, INT_MIN: less than any answer.               *)
DEQUEUE == -1000

(* An answer is also written as -value - 2 (flat combining).                *)
ASSUME DequeueAssumption == \A v \in Values : DEQUEUE < -v - 2

VARIABLES build, heap, request, pending, answer, returned

clientVars == <<heap, request, pending, answer, returned>>

Promise == INSTANCE SharedHeap WITH detaches <- build.detaches

Items ==
    MapThenSumSet(LAMBDA v : heap[v], Values)
    + MapThenSumSet(LAMBDA t : Len(SelectSeq(pending[t], LAMBDA a : a # DEQUEUE)), Threads)

ClientsInit ==
    /\ heap = [v \in Values |-> 0]
    /\ request = [t \in Threads |-> 0]
    /\ pending = [t \in Threads |-> <<>>]
    /\ answer = [t \in Threads |-> 0]
    /\ returned = [t \in Threads |-> 0]

(* The loop of mixed_read_write_benchmark_thread: the next call.            *)
Begin(t, arg) ==
    /\ pc[t] = "idle"
    /\ arg # DEQUEUE => Items < MaxItems
    /\ request' = [request EXCEPT ![t] = arg]
    /\ pending' = [pending EXCEPT ![t] = Append(@, arg)]
    /\ returned' = [returned EXCEPT ![t] = 0]
    /\ UNCHANGED <<heap, answer>>

(* enqueue_cs(arg) or dequeue_cs(), called for thread u.                    *)
Runs(u, arg) ==
    /\ heap' = Promise!After(heap, arg)
    /\ pending' = [pending EXCEPT ![u] = IF @ = <<>> THEN @ ELSE Tail(@)]
    /\ answer' = [answer EXCEPT ![u] = IF arg = DEQUEUE THEN Promise!Top(heap) ELSE @]
    /\ UNCHANGED <<request, returned>>

(* What dequeue_cs() returns. The heaps of CC-Synch, H-Synch and flat       *)
(* combining hold the values plus two and answer one if they are empty.     *)
dequeue_cs == Promise!Top(heap) + build.shift

(* Back in the loop. The result of an enqueue is not used.                  *)
Return(t, result) ==
    /\ request' = [request EXCEPT ![t] = 0]
    /\ returned' = [returned EXCEPT ![t] = IF request[t] = DEQUEUE THEN result ELSE 0]
    /\ answer' = [answer EXCEPT ![t] = 0]
    /\ UNCHANGED <<heap, pending>>
=============================================================================
