------------------------------ MODULE MRQDLock -------------------------------
(****************************************************************************)
(* The multi-reader queue-delegation lock, src/lock/agnostic_rdx_lock.c,    *)
(* over the TATAS lock, the delegation queue and the reader groups. A       *)
(* reader announces itself and then looks at the lock word; a writer sets   *)
(* the lock word and then waits for the readers to leave.                   *)
(*                                                                          *)
(* Clients call without end. MRQDLockHistory bounds them and records what   *)
(* ran in which order.                                                      *)
(****************************************************************************)
EXTENDS DXLock, PatientReader

CONSTANT KindsOf   \* the kinds of calls each thread makes

ASSUME KindsAssumption ==
    /\ Kinds \subseteq {"delegate", "exclusive", "read"}
    /\ KindsOf \in [Threads -> SUBSET Kinds]

(* Every thread may make every kind of call.                                *)
AllKinds == [t \in Threads |-> Kinds]

vars == <<pc, lockWord, queueVars, offerVars, flushVars, readVars, clientVars>>

(* ardxlock_initialize.                                                     *)
Init ==
    /\ DXInit
    /\ ReaderInit

Call(t) ==
    /\ \E k \in KindsOf[t] : Begin(t, k, IF k = "read" THEN "arrive" ELSE "barrier")
    /\ UNCHANGED <<lockWord, queueVars, offerVars, flushVars, readVars>>

(* A write waits for the barrier once, before it first looks at the lock.   *)
Barrier(t) ==
    /\ BarrierIsOff(t, "barrier", IF kind[t] = "exclusive" THEN "spin" ELSE "look")
    /\ UNCHANGED <<lockWord, queueVars, offerVars, flushVars, clientVars>>

(****************************************************************************)
(* ardxlock_write_with_response and ardxlock_write_read_lock: the accesses  *)
(* to the lock word.                                                        *)
(****************************************************************************)
Look(t) ==
    /\ \/ SeesFree(t, "look", "try")
       \/ SeesLocked(t, "look", "while")
       \/ SeesFree(t, "while", "look")
       \/ SeesLocked(t, "while", "offer")
       \/ SeesFree(t, "spin", "set")
       \/ TestAndSetLoses(t, "try", "look")
       \/ TestAndSetLoses(t, "set", "spin")
    /\ UNCHANGED <<queueVars, offerVars, flushVars, readVars, clientVars>>

TryWins(t) ==
    /\ TestAndSetWins(t, "try", "reset")
    /\ UNCHANGED <<queueVars, offerVars, flushVars, readVars, clientVars>>

SetWins(t) ==
    /\ TestAndSetWins(t, "set", "reset")
    /\ UNCHANGED <<queueVars, offerVars, flushVars, readVars, clientVars>>

(****************************************************************************)
(* The offers, while the lock word is set.                                  *)
(****************************************************************************)
Offer(t) ==
    /\ \/ OfferSeesClosed(t, "while") \/ OfferSeesOpen(t)
       \/ OfferOverflows(t) \/ OfferCloses(t, "while")
       \/ OfferWritesData(t, OpOf(t)) \/ OfferPublishes(t, "idle")
    /\ UNCHANGED <<lockWord, readVars, clientVars>>

OfferIsAccepted(t) ==
    /\ OfferClaims(t)
    /\ UNCHANGED <<lockWord, readVars, clientVars>>

(****************************************************************************)
(* The holder: open the queue, wait for the readers, run the own operation  *)
(* or the critical section, flush, release the lock word.                   *)
(****************************************************************************)
Reset(t) ==
    /\ ResetCount(t) \/ ResetClosed(t, "readers")
    /\ UNCHANGED <<lockWord, readVars, clientVars>>

WaitForReaders(t) ==
    /\ ReadersAreOut(t, "readers", IF kind[t] = "exclusive" THEN "critical" ELSE "own")
    /\ UNCHANGED <<lockWord, queueVars, offerVars, flushVars, clientVars>>

RunOwn(t) ==
    /\ Move(t, "own", "flush")
    /\ UNCHANGED <<lockWord, queueVars, offerVars, flushVars, readVars, clientVars>>

LeaveCritical(t) ==
    /\ Move(t, "critical", "flush")
    /\ UNCHANGED <<lockWord, queueVars, offerVars, flushVars, readVars, clientVars>>

FlushRuns(t) ==
    /\ FlushReads(t)
    /\ UNCHANGED <<lockWord, readVars, clientVars>>

Flush(t) ==
    /\ \/ FlushStarts(t) \/ FlushClears(t) \/ FlushRereads(t) \/ FlushSwaps(t)
       \/ FlushReturns(t, "unlock")
    /\ UNCHANGED <<lockWord, readVars, clientVars>>

Unlock(t) ==
    /\ Move(t, "unlock", "idle")
    /\ ReleaseLockWord
    /\ UNCHANGED <<queueVars, offerVars, flushVars, readVars, clientVars>>

(* ardxlock_read_lock and ardxlock_read_unlock.                             *)
Read(t) ==
    /\ ReadStep(t, lockWord)
    /\ UNCHANGED <<lockWord, queueVars, offerVars, flushVars, clientVars>>

(****************************************************************************)
(* The steps that take responsibility for an operation, the steps that run  *)
(* one, and all other steps of a call in progress.                          *)
(****************************************************************************)
AcceptStep(t) == OfferIsAccepted(t) \/ TryWins(t)

RunStep(t) == RunOwn(t) \/ FlushRuns(t)

QuietStep(t) ==
    \/ Barrier(t) \/ Look(t) \/ SetWins(t) \/ Offer(t) \/ Reset(t)
    \/ WaitForReaders(t) \/ LeaveCritical(t) \/ Flush(t) \/ Unlock(t)
    \/ Read(t)

Step(t) == AcceptStep(t) \/ RunStep(t) \/ QuietStep(t)

Next == \E t \in Threads : Call(t) \/ Step(t)

Spec == Init /\ [][Next]_vars

(* A thread in the middle of a call is scheduled again and again, and       *)
(* critical sections end; no thread has to make a call.                     *)
Fairness == \A t \in Threads : WF_vars(Step(t))

FairSpec == Spec /\ Fairness

(****************************************************************************)
(* Properties.                                                              *)
(****************************************************************************)
Labels == {"idle", "barrier", "look", "try", "while", "spin", "set",
           "offer", "offerAdd", "offerData", "offerRequest", "offerClose",
           "reset", "resetClosed", "readers", "own", "critical",
           "flush", "flushLoop", "flushClear", "flushSwap", "unlock"}
          \cup ReadWaitLabels \cup ReaderLabels

TypeOK ==
    /\ pc \in [Threads -> Labels]
    /\ lockWord \in BOOLEAN
    /\ QueueTypeOK(Ops)
    /\ ReaderTypeOK
    /\ calls \in [Threads -> 0 .. MaxCalls]
    /\ kind \in [Threads -> Kinds \cup {"none"}]

(* A writer that has waited for the readers, until it releases the lock.    *)
WriterLabels == {"own", "critical", "flush", "flushLoop", "flushClear",
                 "flushSwap", "unlock"}

(* No operation, critical section or flush overlaps a reader's section: the *)
(* handshake of arrive-then-look against set-then-wait, group after group.  *)
ReadersExcludeWriters ==
    \A t, u \in Threads :
        ~(pc[t] \in WriterLabels /\ pc[u] \in ReaderLabels)

(* The barrier counts the readers that have raised it and not lowered it:   *)
(* it is never left up, which would block every writer, and never negative. *)
BarrierCountsImpatient ==
    writeBarrier = Cardinality({t \in Threads : bRaised[t]})

(* A call waits or reads as a reader exactly if it is a read.               *)
ReadsAreReads ==
    \A t \in Threads : pc[t] # "idle" =>
        (kind[t] = "read" <=> pc[t] \in ReadWaitLabels \cup ReaderLabels)

(* With everybody idle the lock is as it was made: nobody counted in, the   *)
(* barrier down, the queue closed to offers and empty. An offer that claims *)
(* a slot late, a read that gives up or a flush that stops early would each *)
(* leave something behind for the calls to come.                            *)
QuiescentIsClean ==
    (\A t \in Threads : pc[t] = "idle") =>
        /\ ~lockWord
        /\ writeBarrier = 0
        /\ \A g \in Groups : readerGroups[g] = 0
        /\ elementCount >= CAPACITY
        /\ \A i \in Slots : ~request[i]

(* A reader that has raised the write barrier gets in although writers      *)
(* never stop coming: it is what the barrier is for. (Before that it may be *)
(* overtaken for ever: readPatience does not count the looks after arrive.) *)
ImpatientReaderGetsIn == \A t \in Threads : bRaised[t] ~> pc[t] = "reading"

(* A writer does not wait at the barrier for ever once readers have got in. *)
BarrierFalls == writeBarrier > 0 ~> writeBarrier = 0
=============================================================================
