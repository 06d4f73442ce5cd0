---------------------------- MODULE MCSFutexLock -----------------------------
(****************************************************************************)
(* The MCS locks of the C++ library: mcs_lock.hpp ("mcs_lock") and          *)
(* mcs_futex_lock.hpp ("mcs_futex_lock"), which sleeps. In the second the   *)
(* lowest bit of the tail pointer, the flag, says that somebody sleeps in   *)
(* try_lock_or_wait; a thread that queues in lock() sleeps on its own node. *)
(* A node is named by its thread (mcs_node_store).                          *)
(*                                                                          *)
(* The words are those of MCSLock, its steps are not: endOfQueue is locked  *)
(* without its flag, nodeLocked says that is_locked is not free, and        *)
(* predecessor is also the tail that try_lock_or_wait expects.              *)
(****************************************************************************)
EXTENDS Sleepers, MCSLock

VARIABLES
    flag,            \* the flag of locked
    nodeContended,   \* is_locked of each thread's node is contended
    swapsFlag        \* unlock(): the flag its compare-and-swap expects

mcsFutexVars == <<mcsVars, flag, nodeContended, swapsFlag>>

(* The two classes.                                                         *)
mcs_lock == [name |-> "mcs_lock", family |-> "mcs", sleeps |-> FALSE]
mcs_futex_lock == [name |-> "mcs_futex_lock", family |-> "mcs", sleeps |-> TRUE]

MCSFutexInit ==
    /\ flag = FALSE
    /\ nodeContended = [t \in Threads |-> FALSE]
    /\ swapsFlag = [t \in Threads |-> FALSE]

(* Mutant: the flag is lost when a locker queues.                           *)
QueuesPlain(t) ==
    /\ Begin(t, "lock", IF endOfQueue = NULL THEN "critical" ELSE "take")
    /\ predecessor' = [predecessor EXCEPT ![t] = endOfQueue]
    /\ endOfQueue' = t
    /\ flag' = FALSE
    /\ UNCHANGED <<nodeNext, nodeLocked, nodeContended, swapsFlag>>

(* lock(): the successful compare-and-swap, which keeps the flag.           *)
Queues(t) ==
    /\ Begin(t, "lock", IF endOfQueue = NULL THEN "critical" ELSE "take")
    /\ predecessor' = [predecessor EXCEPT ![t] = endOfQueue]
    /\ endOfQueue' = t
    /\ UNCHANGED <<flag, nodeNext, nodeLocked, nodeContended, swapsFlag>>

(* lock() of a thread that found another node: its two stores.              *)
Links(t) ==
    /\ \/ /\ Continue(t, "take", "link")
          /\ nodeLocked' = [nodeLocked EXCEPT ![t] = TRUE]
          /\ nodeContended' = [nodeContended EXCEPT ![t] = FALSE]
          /\ UNCHANGED <<nodeNext, predecessor>>
       \/ /\ Continue(t, "link", "spin")
          /\ nodeNext' = [nodeNext EXCEPT ![predecessor[t]] = t]
          /\ predecessor' = [predecessor EXCEPT ![t] = NULL]
          /\ UNCHANGED <<nodeLocked, nodeContended>>
    /\ UNCHANGED <<endOfQueue, flag, swapsFlag>>

SpinEnds(t) ==
    /\ ~nodeLocked[t]
    /\ Continue(t, "spin", "critical")
    /\ UNCHANGED mcsFutexVars

(* The 512 rounds are over: the node says that its thread will sleep.       *)
SpinGivesUp(t) ==
    /\ build.sleeps
    /\ nodeLocked[t]
    /\ Continue(t, "spin", "sleep")
    /\ nodeContended' = [nodeContended EXCEPT ![t] = TRUE]
    /\ UNCHANGED <<mcsVars, flag, swapsFlag>>

(* try_lock(): a load that gives up or goes on.                             *)
Tries(t) ==
    /\ Begin(t, "try", IF endOfQueue = NULL THEN "try" ELSE "idle")
    /\ UNCHANGED mcsFutexVars

(* Where the loop of try_lock_or_wait() goes from a value of locked.        *)
TryLoop == IF flag THEN "sleep" ELSE IF endOfQueue = NULL THEN "try" ELSE "raise"

(* try_lock_or_wait(). That of mcs_lock is its try_lock.                    *)
TriesOrWaits(t) ==
    /\ build.sleeps
    /\ Begin(t, "tryWait", TryLoop)
    /\ predecessor' = [predecessor EXCEPT ![t] = endOfQueue]
    /\ UNCHANGED <<endOfQueue, flag, nodeNext, nodeLocked, nodeContended, swapsFlag>>

(* The compare-and-swap of free to the own node; one that fails has loaded  *)
(* the word, and the loop goes on with that.                                *)
TrySwaps(t) ==
    /\ Continue(t, "try", IF endOfQueue = NULL THEN "critical"
                          ELSE IF call[t] = "try" THEN "idle" ELSE TryLoop)
    /\ endOfQueue' = IF endOfQueue = NULL THEN t ELSE endOfQueue
    /\ predecessor' = [predecessor EXCEPT ![t] =
                          IF endOfQueue = NULL \/ call[t] = "try" THEN NULL
                          ELSE IF flag THEN @ ELSE endOfQueue]
    /\ UNCHANGED <<flag, nodeNext, nodeLocked, nodeContended, swapsFlag>>

(* The compare-and-swap that adds the flag. One that fails because another  *)
(* thread added the flag ends the loop with the expected value it had.      *)
Raises(t) ==
    /\ \/ /\ endOfQueue = predecessor[t] /\ ~flag
          /\ Continue(t, "raise", "sleep")
          /\ flag' = TRUE
          /\ UNCHANGED predecessor
       \/ /\ endOfQueue # predecessor[t] \/ flag
          /\ Continue(t, "raise", TryLoop)
          /\ predecessor' = [predecessor EXCEPT ![t] =
                                IF TryLoop = "raise" THEN endOfQueue ELSE @]
          /\ UNCHANGED flag
    /\ UNCHANGED <<endOfQueue, nodeNext, nodeLocked, nodeContended, swapsFlag>>

MCSBack(t) == IF call[t] = "tryWait" THEN "idle" ELSE "sleep"

(* FUTEX_WAIT on locked, or on the own node in lock().                      *)
Sleeps(t) ==
    /\ IF call[t] = "tryWait"
       THEN FutexWait(t, endOfQueue = predecessor[t] /\ flag, "idle")
       ELSE FutexWait(t, nodeLocked[t], "critical")
    /\ predecessor' = [predecessor EXCEPT ![t] = NULL]
    /\ UNCHANGED <<endOfQueue, flag, nodeNext, nodeLocked, nodeContended, swapsFlag>>

(* unlock(): the load of next.                                              *)
LooksForNext(t) ==
    /\ \E from \in {"critical", "again"} :
          Continue(t, from, IF nodeNext[t] = NULL THEN "lookFlag" ELSE "pass")
    /\ UNCHANGED mcsFutexVars

LooksForFlag(t) ==
    /\ Continue(t, "lookFlag", "swapOut")
    /\ swapsFlag' = [swapsFlag EXCEPT ![t] = flag]
    /\ UNCHANGED <<mcsVars, flag, nodeContended>>

(* The compare-and-swap to free. unlock() starts again if only the flag     *)
(* has changed.                                                             *)
SwapsOut(t) ==
    LET frees == endOfQueue = t /\ flag = swapsFlag[t] IN
    /\ Continue(t, "swapOut", IF endOfQueue # t THEN "linked"
                              ELSE IF ~frees THEN "again"
                              ELSE IF flag THEN "notify" ELSE "idle")
    /\ endOfQueue' = IF frees THEN NULL ELSE endOfQueue
    /\ flag' = (flag /\ ~frees)
    /\ swapsFlag' = [swapsFlag EXCEPT ![t] = FALSE]
    /\ UNCHANGED <<nodeNext, nodeLocked, predecessor, nodeContended>>

IsLinked(t) ==
    /\ nodeNext[t] # NULL
    /\ Continue(t, "linked", "pass")
    /\ UNCHANGED mcsFutexVars

(* The exchange of the successor's is_locked. The own next is cleared here  *)
(* unless the successor must be woken first; nobody else looks at it.       *)
Passes(t) ==
    LET sleeps == nodeContended[nodeNext[t]] IN
    /\ Continue(t, "pass", IF sleeps THEN "notify" ELSE "idle")
    /\ nodeLocked' = [nodeLocked EXCEPT ![nodeNext[t]] = FALSE]
    /\ nodeContended' = [nodeContended EXCEPT ![nodeNext[t]] = FALSE]
    /\ nodeNext' = IF sleeps THEN nodeNext ELSE [nodeNext EXCEPT ![t] = NULL]
    /\ UNCHANGED <<endOfQueue, predecessor, flag, swapsFlag>>

(* notify_one of the successor, or notify_all of those in                   *)
(* try_lock_or_wait() when there is none.                                   *)
Notifies(t) ==
    /\ FutexWake(t, "notify", "idle",
                 IF nodeNext[t] # NULL THEN {nodeNext[t]}
                                       ELSE {u \in Threads : call[u] = "tryWait"},
                 [u \in Threads |-> MCSBack(u)])
    /\ nodeNext' = [nodeNext EXCEPT ![t] = NULL]
    /\ UNCHANGED <<endOfQueue, nodeLocked, predecessor, flag, nodeContended, swapsFlag>>

(* wake(), by the holder.                                                   *)
Wakes(t) ==
    /\ endOfQueue = t /\ flag
    /\ FutexWake(t, "critical", "critical",
                 {u \in Threads : call[u] = "tryWait"}, [u \in Threads |-> MCSBack(u)])
    /\ UNCHANGED mcsFutexVars

MCSFutexStep(t) ==
    \/ Links(t) \/ SpinEnds(t) \/ SpinGivesUp(t)
    \/ TrySwaps(t) \/ Raises(t) \/ Sleeps(t)
    \/ LooksForNext(t) \/ LooksForFlag(t) \/ SwapsOut(t)
    \/ IsLinked(t) \/ Passes(t) \/ Notifies(t)

MCSFutexCall(t) == Queues(t) \/ Tries(t) \/ TriesOrWaits(t) \/ Wakes(t)
=============================================================================
