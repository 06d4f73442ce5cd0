------------------------------ MODULE CohortLock -----------------------------
(****************************************************************************)
(* The cohort lock, src/lock/cohort_lock.c and cohort_lock.h: an array      *)
(* ticket lock taken by a NUMA node and a ticket lock for each node's       *)
(* threads. A holder that sees a thread of its node waiting hands the       *)
(* global lock over with the local one, MAXIMUM_NUMBER_OF_HAND_OVERS times  *)
(* in a row at most. Clients call without end.                              *)
(*                                                                          *)
(* A thread asks for its node at every call (numa_node_id without PINNING)  *)
(* and the unlock uses the stored answer; pinned threads are the case where *)
(* the answer is always the same.                                           *)
(****************************************************************************)
EXTENDS TicketLock, ATicketLock, Integers, Sequences

CONSTANTS
    Kinds,                          \* kinds of calls, of "lock", "try"
    MAXIMUM_NUMBER_OF_HAND_OVERS    \* 64 in the code

ASSUME KindsAssumption == Kinds \subseteq {"lock", "try"}
ASSUME NodeTicketsAssumption == TicketRange > Cardinality(Threads)
ASSUME HandOversAssumption == MAXIMUM_NUMBER_OF_HAND_OVERS \in Nat

Nodes == TicketLocks

VARIABLES
    myLocalNode,            \* of each thread
    numberOfHandOvers,      \* localLockData[n].numberOfHandOvers.value
    needToTakeGlobalLock,   \* localLockData[n].needToTakeGlobalLock.value
    seen                    \* try: the inCounter loaded, 0 when dead

cohortVars == <<numberOfHandOvers, needToTakeGlobalLock>>
vars == <<pc, ticketVars, aTicketVars, cohortVars, myLocalNode, seen>>

(* cohortlock_initialize; the thread-local myLocalNode is 0 before a call.  *)
Init ==
    /\ pc = [t \in Threads |-> "idle"]
    /\ TicketInit
    /\ ATicketInit
    /\ \E n \in Nodes : myLocalNode = [t \in Threads |-> n]
    /\ numberOfHandOvers = [n \in Nodes |-> 0]
    /\ needToTakeGlobalLock = [n \in Nodes |-> TRUE]
    /\ seen = [t \in Threads |-> 0]

(****************************************************************************)
(* cohortlock_try_write_read_lock: cohortlock_is_locked and                 *)
(* cohortlock_is_local_locked (of the node of the last call) load the two   *)
(* counters one after the other; if both look free the lock is taken, with  *)
(* a wait if somebody was faster.                                           *)
(****************************************************************************)
CallTry(t) ==
    /\ "try" \in Kinds
    /\ Move(t, "idle", "tryGlobal")
    /\ seen' = [seen EXCEPT ![t] = aInCounter]
    /\ UNCHANGED <<ticketVars, aTicketVars, cohortVars, myLocalNode>>

TryGlobal(t) ==
    /\ Move(t, "tryGlobal", IF aOutCounter = seen[t] THEN "tryLocal" ELSE "idle")
    /\ seen' = [seen EXCEPT ![t] = 0]
    /\ UNCHANGED <<ticketVars, aTicketVars, cohortVars, myLocalNode>>

TryLocal(t) ==
    /\ \/ /\ Move(t, "tryLocal", "tryLocalOut")
          /\ seen' = [seen EXCEPT ![t] = inCounter[myLocalNode[t]]]
       \/ /\ Move(t, "tryLocalOut",
                  IF outCounter[myLocalNode[t]] = seen[t] THEN "enter" ELSE "idle")
          /\ seen' = [seen EXCEPT ![t] = 0]
    /\ UNCHANGED <<ticketVars, aTicketVars, cohortVars, myLocalNode>>

(****************************************************************************)
(* cohortlock_write_read_lock.                                              *)
(****************************************************************************)
Lock(t, from) ==
    \E n \in Nodes :
        /\ myLocalNode' = [myLocalNode EXCEPT ![t] = n]
        /\ TakeTicket(t, n, from, "local")
        /\ UNCHANGED <<aTicketVars, cohortVars, seen>>

CallLock(t) == "lock" \in Kinds /\ Lock(t, "idle")

TryLock(t) == Lock(t, "enter")

(* The local lock is won; needToTakeGlobalLock is read by its holder only.  *)
LocalWon(t) ==
    /\ TicketIsUp(t, myLocalNode[t], "local",
          IF needToTakeGlobalLock[myLocalNode[t]] THEN "global" ELSE "critical")
    /\ UNCHANGED <<aTicketVars, cohortVars, myLocalNode, seen>>

Global(t) ==
    /\ ATakeTicket(t, "global", "globalWait") \/ ATicketIsUp(t, "globalWait", "critical")
    /\ UNCHANGED <<ticketVars, cohortVars, myLocalNode, seen>>

(****************************************************************************)
(* cohortlock_write_read_unlock.                                            *)
(****************************************************************************)

(* Mutant: the count of the threads includes the holder.                    *)
HolderIsWaiting(n) == (inCounter[n] + TicketRange - outCounter[n]) % TicketRange > 0

(* nodeHasWaitingThreads: only the caller advances outCounter, so that the  *)
(* answer depends on the moment of the load of inCounter.                   *)
NodeHasWaitingThreads(n) ==
    (inCounter[n] + TicketRange - outCounter[n]) % TicketRange > 1

(* Mutant: the limit of the hand-overs is off by one.                       *)
HandOverOnceMore(t, n) ==
    /\ NodeHasWaitingThreads(n)
    /\ numberOfHandOvers[n] <= MAXIMUM_NUMBER_OF_HAND_OVERS
    /\ Move(t, "critical", "localUnlock")
    /\ needToTakeGlobalLock' = [needToTakeGlobalLock EXCEPT ![n] = FALSE]
    /\ numberOfHandOvers' = [numberOfHandOvers EXCEPT ![n] = @ + 1]

(* Mutant: hand-overs are not counted.                                      *)
HandOverForEver(t, n) ==
    /\ NodeHasWaitingThreads(n)
    /\ Move(t, "critical", "localUnlock")
    /\ needToTakeGlobalLock' = [needToTakeGlobalLock EXCEPT ![n] = FALSE]
    /\ UNCHANGED numberOfHandOvers

HandOver(t, n) ==
    /\ NodeHasWaitingThreads(n)
    /\ numberOfHandOvers[n] < MAXIMUM_NUMBER_OF_HAND_OVERS
    /\ Move(t, "critical", "localUnlock")
    /\ needToTakeGlobalLock' = [needToTakeGlobalLock EXCEPT ![n] = FALSE]
    /\ numberOfHandOvers' = [numberOfHandOvers EXCEPT ![n] = @ + 1]

(* Mutant: the flag of an earlier hand-over is left in place.               *)
GiveUpKeepsFlag(t, n) ==
    /\ \/ ~NodeHasWaitingThreads(n)
       \/ numberOfHandOvers[n] >= MAXIMUM_NUMBER_OF_HAND_OVERS
    /\ Move(t, "critical", "globalUnlock")
    /\ numberOfHandOvers' = [numberOfHandOvers EXCEPT ![n] = 0]
    /\ UNCHANGED needToTakeGlobalLock

GiveUp(t, n) ==
    /\ \/ ~NodeHasWaitingThreads(n)
       \/ numberOfHandOvers[n] >= MAXIMUM_NUMBER_OF_HAND_OVERS
    /\ Move(t, "critical", "globalUnlock")
    /\ needToTakeGlobalLock' = [needToTakeGlobalLock EXCEPT ![n] = TRUE]
    /\ numberOfHandOvers' = [numberOfHandOvers EXCEPT ![n] = 0]

LeaveCritical(t) ==
    /\ HandOver(t, myLocalNode[t]) \/ GiveUp(t, myLocalNode[t])
    /\ UNCHANGED <<ticketVars, aTicketVars, myLocalNode, seen>>

UnlockGlobal(t) ==
    /\ ACount(t, "globalUnlock") \/ APass(t, "localUnlock")
    /\ UNCHANGED <<ticketVars, cohortVars, myLocalNode, seen>>

UnlockLocal(t) ==
    /\ TicketUnlock(t, myLocalNode[t], "localUnlock", "idle")
    /\ UNCHANGED <<aTicketVars, cohortVars, myLocalNode, seen>>

Step(t) ==
    \/ TryGlobal(t) \/ TryLocal(t) \/ TryLock(t) \/ LocalWon(t) \/ Global(t)
    \/ LeaveCritical(t) \/ UnlockGlobal(t) \/ UnlockLocal(t)

Next == \E t \in Threads : CallTry(t) \/ CallLock(t) \/ Step(t)

Spec == Init /\ [][Next]_vars

(* A thread in the middle of a call is scheduled, critical sections end; no *)
(* thread has to call.                                                      *)
FairSpec == Spec /\ \A t \in Threads : WF_vars(Step(t))

(****************************************************************************)
(* Properties.                                                              *)
(****************************************************************************)
Labels == {"idle", "tryGlobal", "tryLocal", "tryLocalOut", "enter", "local",
           "global", "globalWait", "critical", "globalUnlock", "aPass", "localUnlock"}

TypeOK ==
    /\ pc \in [Threads -> Labels]
    /\ TicketTypeOK
    /\ ATicketTypeOK
    /\ myLocalNode \in [Threads -> Nodes]
    /\ numberOfHandOvers \in [Nodes -> 0 .. MAXIMUM_NUMBER_OF_HAND_OVERS]
    /\ needToTakeGlobalLock \in [Nodes -> BOOLEAN]
    /\ seen \in [Threads -> Tickets \cup ATickets]

LocalHolderLabels == {"global", "globalWait", "critical", "globalUnlock", "aPass", "localUnlock"}

HolderLabels == {"critical", "globalUnlock", "aPass"}

(* One thread is in its critical section, of whatever node; one thread of a *)
(* node is past the node's lock.                                            *)
MutualExclusion ==
    \A t, u \in Threads : t # u =>
        /\ ~(pc[t] \in HolderLabels /\ pc[u] \in HolderLabels)
        /\ pc[t] \in LocalHolderLabels /\ pc[u] \in LocalHolderLabels =>
              myLocalNode[t] # myLocalNode[u]

(* The global lock is handed over only to somebody: while a node's flag     *)
(* says that it owns the global lock, a thread of the node is inside, or    *)
(* holds or waits for the local lock, so that the global lock is never left *)
(* with a node without threads; and it looks locked from outside all the    *)
(* while (cohortlock_is_locked, isWriteLocked of wprw_lock.c).              *)
HandOverHasTaker ==
    \A n \in Nodes : ~needToTakeGlobalLock[n] =>
        /\ \E t \in Threads : myLocalNode[t] = n /\ pc[t] \in {"local", "critical"}
        /\ aInCounter # aOutCounter

(****************************************************************************)
(* Why: the inductive invariant. The threads of a node form a queue q whose *)
(* tickets are consecutive, and those that wait for the global lock form    *)
(* another one. Tickets are counted modulo a range that no queue fills.     *)
(****************************************************************************)
InLocal(t, n) == pc[t] \in {"local"} \cup LocalHolderLabels /\ myLocalNode[t] = n

(* Only the first of the queue is past the local lock. A node that owns the *)
(* global lock has somebody to take it over.                                *)
LocalQueueIs(n, q) ==
    /\ \A i, j \in 1 .. Len(q) : q[i] = q[j] => i = j
    /\ \A t \in Threads : InLocal(t, n) <=> \E i \in 1 .. Len(q) : q[i] = t
    /\ inCounter[n] = (outCounter[n] + Len(q)) % TicketRange
    /\ \A i \in 1 .. Len(q) :
          pc[q[i]] = "local" => myTicket[q[i]] = (outCounter[n] + (i - 1)) % TicketRange
    /\ \A i \in 2 .. Len(q) : pc[q[i]] = "local"
    /\ ~needToTakeGlobalLock[n] =>
          /\ Len(q) > 0
          /\ \/ pc[q[1]] \in {"local", "critical"}
             \/ pc[q[1]] = "localUnlock" /\ Len(q) > 1

(* The ticket that aOutCounter names is in use: by a thread, or by the node *)
(* it has left the global lock to.                                          *)
Owned ==
    \/ \E t \in Threads : pc[t] \in {"critical", "globalUnlock"}
    \/ \E n \in Nodes : ~needToTakeGlobalLock[n]

Passing == \E t \in Threads : pc[t] = "aPass"

(* The places that are taken before the first thread that waits.            *)
Ahead == IF Owned THEN 1 ELSE 0

GlobalQueueIs(w) ==
    /\ \A i, j \in 1 .. Len(w) : w[i] = w[j] => i = j
    /\ \A t \in Threads : pc[t] = "globalWait" <=> \E i \in 1 .. Len(w) : w[i] = t
    /\ aInCounter = (aOutCounter + (Len(w) + Ahead)) % ATicketRange
    /\ \A i \in 1 .. Len(w) :
          aTicket[w[i]] = (aOutCounter + (i - 1 + Ahead)) % ATicketRange

(* The elements of spinAreas show a few of the last tickets and none that   *)
(* is to come: of the tickets counted from aOutCounter, the first and the   *)
(* last ARRAY_SIZE.                                                         *)
Shown(k) ==
    LET ticket == (aOutCounter + k) % ATicketRange
    IN  spinAreas[ticket % ARRAY_SIZE] = ticket

SpinAreasOK ==
    \A k \in ATickets : Shown(k) =>
        IF Passing THEN k >= ATicketRange - ARRAY_SIZE
                   ELSE k = 0 \/ k > ATicketRange - ARRAY_SIZE

(* The global lock has one owner.                                           *)
OneOwner ==
    /\ \A t, u \in Threads : pc[t] \in HolderLabels /\ pc[u] \in HolderLabels => t = u
    /\ \A n, m \in Nodes : ~needToTakeGlobalLock[n] /\ ~needToTakeGlobalLock[m] => n = m
    /\ \A n \in Nodes, t \in Threads : ~needToTakeGlobalLock[n] /\ pc[t] \in HolderLabels =>
          myLocalNode[t] = n /\ pc[t] = "critical"

(* A thread that has its ticket gets in, of whatever node it is, although   *)
(* the others never stop coming: hand-overs within a node are bounded.      *)
EveryoneGetsIn == \A t \in Threads : pc[t] = "local" ~> pc[t] = "critical"
=============================================================================
