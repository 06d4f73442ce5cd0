------------------------------- MODULE DXLock --------------------------------
(****************************************************************************)
(* What the two queue-delegation locks share, src/lock/agnostic_dx_lock.h   *)
(* and src/lock/agnostic_rdx_lock.c: a TATAS lock and a delegation queue,   *)
(* the request a call hands over, and how the queue is used under the lock. *)
(* QDLock and MRQDLock supply the actions. Labels that only one of them has *)
(* ("readers", "while", "await") are never reached in the other.            *)
(****************************************************************************)
EXTENDS DRMWQueue, TATASLock, FiniteSets

CONSTANTS
    Kinds,        \* kinds of calls the clients make
    MaxCalls      \* bound: calls of a thread are told apart modulo MaxCalls

ASSUME MaxCallsAssumption == MaxCalls \in Nat \ {0}

VARIABLES
    calls,        \* number of the thread's current (or last) call
    kind          \* kind of that call

clientVars == <<calls, kind>>

Ops == [thread : Threads, call : 1 .. MaxCalls, respond : BOOLEAN]

ASSUME NoOpAssumption == NoOp \notin Ops

(* The request built by the current call of t: function, data and, for a    *)
(* blocking call, the address of the caller's returnValue.                  *)
OpOf(t) == [thread |-> t, call |-> calls[t], respond |-> kind[t] = "await"]

DXInit ==
    /\ pc = [t \in Threads |-> "idle"]
    /\ TATASInit
    /\ QueueInit
    /\ calls = [t \in Threads |-> 0]
    /\ kind = [t \in Threads |-> "none"]

(* A client makes a call of kind k, whose first access is at label to.      *)
Begin(t, k, to) ==
    /\ Move(t, "idle", to)
    /\ calls' = [calls EXCEPT ![t] = IF @ < MaxCalls THEN @ + 1 ELSE 1]
    /\ kind' = [kind EXCEPT ![t] = k]

(****************************************************************************)
(* Properties of both locks.                                                *)
(****************************************************************************)

(* The steps between winning the lock word and releasing it: the wait for   *)
(* the readers, the own operation or the critical section, and the          *)
(* operations run for others.                                               *)
HolderLabels == {"reset", "resetClosed", "readers", "own", "critical", "flush",
                 "flushLoop", "flushClear", "flushSwap", "unlock"}

(* The steps of an offer that owns a slot it has not published.             *)
ClaimLabels == {"offerData", "offerRequest"}

(* The lock word is set exactly while one thread is between winning it and  *)
(* releasing it, whether it came in to help or through write_read_lock.     *)
MutualExclusion ==
    /\ \A t, u \in Threads :
          pc[t] \in HolderLabels /\ pc[u] \in HolderLabels => t = u
    /\ lockWord <=> \E t \in Threads : pc[t] \in HolderLabels

(* While the lock is free the queue takes nothing and hides nothing: the    *)
(* count is past the end although closed may still be false, no slot holds  *)
(* a request, and no offer is still filling one. It is what a flush that    *)
(* closes too early, or a late offer, would break for the next holder.      *)
UnlockedQueueIsSealed ==
    ~lockWord =>
        /\ elementCount >= CAPACITY
        /\ \A i \in Slots : ~request[i]
        /\ \A t \in Threads : pc[t] \notin ClaimLabels

(****************************************************************************)
(* Why the queue is sealed when the lock is free: the inductive invariant.  *)
(****************************************************************************)

(* The holder's steps during which offers can succeed, and those of its     *)
(* flush.                                                                   *)
OpenLabels == HolderLabels \ {"reset", "unlock"}
FlushLabels == {"flushLoop", "flushClear", "flushSwap"}

(* The slots of the current opening end here: at the count, until the       *)
(* flusher has fixed the end.                                               *)
Limit(h) == IF flushClosed[h] THEN toRead[h] ELSE Lesser(elementCount, CAPACITY)

(* No offer can claim a slot and no slot is in use.                         *)
Sealed ==
    /\ elementCount >= CAPACITY
    /\ \A i \in Slots : ~request[i]
    /\ \A t \in Threads : pc[t] \notin ClaimLabels

(* While h holds the lock, the slots in use lie between the flusher's       *)
(* position and the limit, and a claimed slot belongs to one offer until it *)
(* is published.                                                            *)
OpenTo(h) ==
    /\ current[h] <= toRead[h]
    /\ toRead[h] <= Limit(h)
    /\ flushClosed[h] => elementCount >= CAPACITY
    /\ \A i \in Slots : request[i] => current[h] <= i /\ i < Limit(h)
    /\ \A t \in Threads : pc[t] \in ClaimLabels =>
          /\ current[h] <= index[t]
          /\ index[t] < Limit(h)
          /\ ~request[index[t]]
    /\ \A t, u \in Threads :
          pc[t] \in ClaimLabels /\ pc[u] \in ClaimLabels /\ index[t] = index[u] => t = u

(* The locals of the calls in progress.                                     *)
LocalsOK ==
    \A t \in Threads :
        /\ pc[t] # "idle" => calls[t] > 0
        /\ pc[t] \notin FlushLabels =>
              current[t] = 0 /\ toRead[t] = 0 /\ ~flushClosed[t]
        /\ pc[t] = "flushClear" => current[t] < toRead[t] /\ request[current[t]]
        /\ pc[t] = "flushSwap" => ~flushClosed[t]

(* Every opening of the queue ends with the queue sealed again, with every  *)
(* claimed slot read: from the reset to the last step of the flush the      *)
(* slots in use are those the flusher has still to read.                    *)
SlotsOK ==
    /\ (\A h \in Threads : pc[h] \notin OpenLabels) => Sealed
    /\ \A h \in Threads : pc[h] \in OpenLabels => OpenTo(h)

QueueInv == LocalsOK /\ SlotsOK

(* A thread at label l is in a call of kind k: a helper tries and offers, a *)
(* critical section spins, and both hold the lock.                          *)
KindFits(l, k) ==
    /\ l # "idle" => k \in Kinds
    /\ l \in {"look", "try", "while", "offer", "offerAdd", "offerClose",
              "offerData", "offerRequest", "own"} => k \in {"delegate", "await"}
    /\ l = "await" => k = "await"
    /\ l \in {"spin", "set", "critical"} => k = "exclusive"
    /\ l \in HolderLabels => k \in {"delegate", "await", "exclusive"}

KindsOK == \A t \in Threads : KindFits(pc[t], kind[t])
=============================================================================
