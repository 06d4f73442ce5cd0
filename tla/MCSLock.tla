------------------------------- MODULE MCSLock -------------------------------
(****************************************************************************)
(* The MCS queue lock, src/lock/mcs_lock.c and mcs_lock.h, as steps that a  *)
(* client or a lock built on it composes with its own. Each thread has one  *)
(* node (myMCSNode); a node is named by its thread.                         *)
(*                                                                          *)
(* get_and_set_node_ptr repeats a compare-and-swap until it succeeds; a     *)
(* failed round changes nothing, so it is one atomic exchange. The store    *)
(* that clears the node's own next is part of the step that publishes the   *)
(* node: nobody else touches the node in between.                           *)
(****************************************************************************)
EXTENDS Control

CONSTANT NULL

ASSUME NullAssumption == NULL \notin Threads

VARIABLES
    endOfQueue,   \* lock->endOfQueue.value
    nodeNext,     \* myMCSNode.next.value of each thread
    nodeLocked,   \* myMCSNode.locked.value of each thread
    predecessor   \* mcslock_write_read_lock: the local predecessor

mcsVars == <<endOfQueue, nodeNext, nodeLocked, predecessor>>

(* mcslock_initialize, and mcslock_register_this_thread of every thread.    *)
MCSInit ==
    /\ endOfQueue = NULL
    /\ nodeNext = [t \in Threads |-> NULL]
    /\ nodeLocked = [t \in Threads |-> FALSE]
    /\ predecessor = [t \in Threads |-> NULL]

(* mcslock_is_locked.                                                       *)
MCSIsLocked == endOfQueue # NULL

(****************************************************************************)
(* mcslock_write_read_lock. It returns false if the lock was free           *)
(* (control goes to alone), true if it was handed over (SwapFindsTail, then *)
(* ..., then HandedOver).                                                   *)
(****************************************************************************)

(* Mutant: the next of the node is what the last use of the node left.      *)
SwapKeepsNext(t, from, to) ==
    /\ Move(t, from, to)
    /\ endOfQueue' = t
    /\ predecessor' = [predecessor EXCEPT ![t] = endOfQueue]
    /\ UNCHANGED <<nodeNext, nodeLocked>>

Swap(t, from, to) ==
    /\ Move(t, from, to)
    /\ endOfQueue' = t
    /\ nodeNext' = [nodeNext EXCEPT ![t] = NULL]
    /\ predecessor' = [predecessor EXCEPT ![t] = endOfQueue]
    /\ UNCHANGED nodeLocked

SwapFindsFree(t, from, alone) ==
    /\ endOfQueue = NULL
    /\ Swap(t, from, alone)

SwapFindsTail(t, from) ==
    /\ endOfQueue # NULL
    /\ Swap(t, from, "mcsLocked")

(* Mutant: locked is set after the node is linked, so that an early         *)
(* hand-over is overwritten.                                                *)
LinkFirst(t) ==
    /\ \/ /\ Move(t, "mcsLocked", "mcsLink")
          /\ nodeNext' = [nodeNext EXCEPT ![predecessor[t]] = t]
          /\ UNCHANGED <<nodeLocked, predecessor>>
       \/ /\ Move(t, "mcsLink", "mcsWait")
          /\ nodeLocked' = [nodeLocked EXCEPT ![t] = TRUE]
          /\ predecessor' = [predecessor EXCEPT ![t] = NULL]
          /\ UNCHANGED nodeNext
    /\ UNCHANGED endOfQueue

(* The two stores of a thread that has a predecessor.                       *)
Link(t) ==
    /\ \/ /\ Move(t, "mcsLocked", "mcsLink")
          /\ nodeLocked' = [nodeLocked EXCEPT ![t] = TRUE]
          /\ UNCHANGED <<nodeNext, predecessor>>
       \/ /\ Move(t, "mcsLink", "mcsWait")
          /\ nodeNext' = [nodeNext EXCEPT ![predecessor[t]] = t]
          /\ predecessor' = [predecessor EXCEPT ![t] = NULL]
          /\ UNCHANGED nodeLocked
    /\ UNCHANGED endOfQueue

HandedOver(t, next) ==
    /\ ~nodeLocked[t]
    /\ Move(t, "mcsWait", next)
    /\ UNCHANGED mcsVars

(****************************************************************************)
(* mcslock_write_read_unlock.                                               *)
(****************************************************************************)
UnlockLooks(t, from) ==
    /\ Move(t, from, IF nodeNext[t] = NULL THEN "mcsSwapOut" ELSE "mcsPass")
    /\ UNCHANGED mcsVars

(* The compare-and-swap: nobody has come, or the successor must link first. *)
SwapOut(t, next) ==
    /\ IF endOfQueue = t
       THEN Move(t, "mcsSwapOut", next) /\ endOfQueue' = NULL
       ELSE Move(t, "mcsSwapOut", "mcsLinked") /\ UNCHANGED endOfQueue
    /\ UNCHANGED <<nodeNext, nodeLocked, predecessor>>

SuccessorLinked(t) ==
    /\ nodeNext[t] # NULL
    /\ Move(t, "mcsLinked", "mcsPass")
    /\ UNCHANGED mcsVars

Pass(t, next) ==
    /\ Move(t, "mcsPass", next)
    /\ nodeLocked' = [nodeLocked EXCEPT ![nodeNext[t]] = FALSE]
    /\ UNCHANGED <<endOfQueue, nodeNext, predecessor>>

MCSQueueLabels == {"mcsLocked", "mcsLink", "mcsWait"}
MCSUnlockLabels == {"mcsSwapOut", "mcsLinked", "mcsPass"}

MCSTypeOK ==
    /\ endOfQueue \in Threads \cup {NULL}
    /\ nodeNext \in [Threads -> Threads \cup {NULL}]
    /\ nodeLocked \in [Threads -> BOOLEAN]
    /\ predecessor \in [Threads -> Threads \cup {NULL}]
=============================================================================
