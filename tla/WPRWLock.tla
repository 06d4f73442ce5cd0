------------------------------ MODULE WPRWLock -------------------------------
(****************************************************************************)
(* The writer-preference reader-writer lock, src/lock/wprw_lock.c, over the *)
(* MCS lock and the reader groups. A writer that got the MCS lock free      *)
(* waits for the readers to leave; one that was handed the lock does not,   *)
(* because readers have seen the lock taken ever since its predecessor      *)
(* waited. Clients call without end.                                        *)
(****************************************************************************)
EXTENDS MCSLock, PatientReader, Sequences

CONSTANT Kinds   \* kinds of calls, of "write", "read"

ASSUME KindsAssumption == Kinds \subseteq {"write", "read"}

vars == <<pc, mcsVars, readVars>>

(* wprwlock_initialize.                                                     *)
Init ==
    /\ pc = [t \in Threads |-> "idle"]
    /\ MCSInit
    /\ ReaderInit

Call(t) ==
    /\ \E k \in Kinds : Move(t, "idle", IF k = "read" THEN "arrive" ELSE "barrier")
    /\ UNCHANGED <<mcsVars, readVars>>

(****************************************************************************)
(* wprwlock_write_read_lock.                                                *)
(****************************************************************************)
Barrier(t) ==
    /\ BarrierIsOff(t, "barrier", "mcs")
    /\ UNCHANGED mcsVars

(* Mutant: the first writer does not wait for the readers either.           *)
LockNeverWaits(t) ==
    /\ \/ SwapFindsFree(t, "mcs", "critical")
       \/ SwapFindsTail(t, "mcs")
       \/ Link(t)
    /\ UNCHANGED readVars

Lock(t) ==
    /\ \/ SwapFindsFree(t, "mcs", "readers")
       \/ SwapFindsTail(t, "mcs")
       \/ Link(t)
    /\ UNCHANGED readVars

(* LOCK_WRITE_READ_LOCK returned true: no wait.                             *)
TakeOver(t) ==
    /\ HandedOver(t, "critical")
    /\ UNCHANGED readVars

WaitForReaders(t) ==
    /\ ReadersAreOut(t, "readers", "critical")
    /\ UNCHANGED mcsVars

(* wprwlock_write_read_unlock, from the end of the critical section.        *)
Unlock(t) ==
    /\ \/ UnlockLooks(t, "critical")
       \/ SwapOut(t, "idle")
       \/ SuccessorLinked(t)
       \/ Pass(t, "idle")
    /\ UNCHANGED readVars

(* wprwlock_read_lock and wprwlock_read_unlock; isWriteLocked is the load   *)
(* of endOfQueue.                                                           *)
Read(t) ==
    /\ ReadStep(t, MCSIsLocked)
    /\ UNCHANGED mcsVars

Step(t) ==
    \/ Barrier(t) \/ Lock(t) \/ TakeOver(t) \/ WaitForReaders(t) \/ Unlock(t)
    \/ Read(t)

Next == \E t \in Threads : Call(t) \/ Step(t)

Spec == Init /\ [][Next]_vars

(* A thread in the middle of a call is scheduled, critical sections and     *)
(* reads end; no thread has to call.                                        *)
FairSpec == Spec /\ \A t \in Threads : WF_vars(Step(t))

(****************************************************************************)
(* Properties.                                                              *)
(****************************************************************************)
Labels == {"idle", "barrier", "mcs", "readers", "critical"}
          \cup MCSQueueLabels \cup MCSUnlockLabels \cup ReadWaitLabels \cup ReaderLabels

TypeOK ==
    /\ pc \in [Threads -> Labels]
    /\ MCSTypeOK
    /\ ReaderTypeOK

(* No critical section overlaps another, or a reader's section, also when   *)
(* the lock is handed from writer to writer without a look at the readers.  *)
WritersExcludeAll ==
    \A t, u \in Threads : pc[t] = "critical" /\ t # u =>
        pc[u] \notin {"critical"} \cup ReaderLabels

(****************************************************************************)
(* Why: the inductive invariant. The writers form a queue q, linked node by *)
(* node up to the tail that endOfQueue names; only its head owns the lock.  *)
(****************************************************************************)
OwnerLabels == {"readers", "critical"} \cup MCSUnlockLabels
QueuedLabels == OwnerLabels \cup MCSQueueLabels

(* The head of the queue: it has the lock, or has been handed it.           *)
Heads(h) ==
    /\ pc[h] \in OwnerLabels \/ (pc[h] = "mcsWait" /\ ~nodeLocked[h])
    /\ pc[h] = "mcsPass" => nodeNext[h] # NULL

(* t is behind p: it knows p, or p knows it.                                *)
Follows(p, t) ==
    \/ pc[t] = "mcsLocked" /\ predecessor[t] = p /\ nodeNext[p] = NULL
    \/ pc[t] = "mcsLink" /\ predecessor[t] = p /\ nodeNext[p] = NULL /\ nodeLocked[t]
    \/ pc[t] = "mcsWait" /\ nodeNext[p] = t /\ nodeLocked[t]

QueueIs(q) ==
    /\ \A i, j \in 1 .. Len(q) : q[i] = q[j] => i = j
    /\ \A t \in Threads : pc[t] \in QueuedLabels <=> \E i \in 1 .. Len(q) : q[i] = t
    /\ endOfQueue = IF Len(q) = 0 THEN NULL ELSE q[Len(q)]
    /\ Len(q) > 0 =>
          /\ Heads(q[1])
          /\ pc[q[1]] = "mcsLinked" => Len(q) > 1
          /\ nodeNext[q[Len(q)]] = NULL
    /\ \A i \in 2 .. Len(q) : Follows(q[i - 1], q[i])

(* A writer that need not look at the readers any more: it has looked, or   *)
(* has the lock from one that had.                                          *)
Past(t) == pc[t] \in OwnerLabels \ {"readers"} \/ (pc[t] = "mcsWait" /\ ~nodeLocked[t])

NoReadersPast ==
    \A t, u \in Threads : Past(t) => pc[u] \notin ReaderLabels

(* A writer that waits in the queue gets in although others never stop      *)
(* coming, and although readers do not stop either: it is what "writer      *)
(* preference" means.                                                       *)
QueuedWriterGetsIn ==
    \A t \in Threads : pc[t] \in MCSQueueLabels \cup {"readers"} ~> pc[t] = "critical"

(* A reader that has raised the barrier gets in: the writers in the queue   *)
(* pass, and no new one comes.                                              *)
ImpatientReaderGetsIn == \A t \in Threads : bRaised[t] ~> pc[t] = "reading"
=============================================================================
