------------------------------- MODULE QDLock --------------------------------
(****************************************************************************)
(* The queue-delegation lock, src/lock/agnostic_dx_lock.{h,c}, over the     *)
(* TATAS lock and the delegation queue. A thread that finds the lock free   *)
(* takes it, runs its own operation and then the operations the others have *)
(* put in the queue; a thread that finds it taken offers its operation.     *)
(*                                                                          *)
(* Clients call without end. QDLockHistory bounds them and records what ran *)
(* in which order.                                                          *)
(****************************************************************************)
EXTENDS DXLock

CONSTANT OFFER_TRIES   \* offers per look at the lock word, 7 in the code

ASSUME KindsAssumption == Kinds \subseteq {"delegate", "await", "exclusive"}
ASSUME OfferTriesAssumption == OFFER_TRIES \in Nat \ {0}

VARIABLES
    tries,        \* the loop variable i around drmvqueue_offer
    returnValue   \* write_with_response_block: returnValue # NULL

callVars == <<tries, returnValue>>
vars == <<pc, lockWord, queueVars, offerVars, flushVars, clientVars, callVars>>

Init ==
    /\ DXInit
    /\ tries = [t \in Threads |-> 0]
    /\ returnValue = [t \in Threads |-> FALSE]

(****************************************************************************)
(* The calls of the clients.                                                *)
(****************************************************************************)
Call(t) ==
    /\ \E k \in Kinds : Begin(t, k, IF k = "exclusive" THEN "spin" ELSE "look")
    /\ returnValue' = [returnValue EXCEPT ![t] = FALSE]
    /\ UNCHANGED <<lockWord, queueVars, offerVars, flushVars, tries>>

(* Where a call that has done its part goes: a blocking one waits.          *)
Delegated(t) == IF kind[t] = "await" THEN "await" ELSE "idle"

(* Mutant: the function's result is not stored.                             *)
RunWithoutResponse(op) == returnValue' = returnValue

(* The delegated function runs: if the request carries the address of a     *)
(* return value it stores a value there.                                    *)
Run(op) ==
    returnValue' = [t \in Threads |->
        \/ returnValue[t]
        \/ \E n \in 1 .. MaxCalls :
              op = [thread |-> t, call |-> n, respond |-> TRUE]]

(****************************************************************************)
(* adxlock_write_with_response. A failed offer is repeated OFFER_TRIES      *)
(* times before the lock word is looked at again; counter only decides when *)
(* to yield the processor.                                                  *)
(****************************************************************************)
LookFree(t) ==
    /\ SeesFree(t, "look", "try")
    /\ UNCHANGED <<queueVars, offerVars, flushVars, clientVars, callVars>>

LookLocked(t) ==
    /\ SeesLocked(t, "look", "offer")
    /\ UNCHANGED <<queueVars, offerVars, flushVars, clientVars, callVars>>

TryWins(t) ==
    /\ TestAndSetWins(t, "try", "reset")
    /\ UNCHANGED <<queueVars, offerVars, flushVars, clientVars, callVars>>

TryLoses(t) ==
    /\ TestAndSetLoses(t, "try", "look")
    /\ UNCHANGED <<queueVars, offerVars, flushVars, clientVars, callVars>>

(* drmvqueue_reset_fully_read, by a helper or by adxlock_write_read_lock.   *)
Reset(t) ==
    /\ \/ ResetCount(t)
       \/ ResetClosed(t, IF kind[t] = "exclusive" THEN "critical" ELSE "own")
    /\ UNCHANGED <<lockWord, clientVars, callVars>>

RunOwn(t) ==
    /\ Move(t, "own", "flush")
    /\ Run(OpOf(t))
    /\ UNCHANGED <<lockWord, queueVars, offerVars, flushVars, clientVars, tries>>

(* The i-th offer has failed.                                               *)
AfterFailure(t) == IF tries[t] + 1 < OFFER_TRIES THEN "offer" ELSE "look"

OfferFails(t) ==
    /\ \/ OfferSeesClosed(t, AfterFailure(t))
       \/ OfferCloses(t, AfterFailure(t))
    /\ tries' = [tries EXCEPT ![t] = IF @ + 1 < OFFER_TRIES THEN @ + 1 ELSE 0]
    /\ UNCHANGED <<lockWord, clientVars, returnValue>>

OfferGoesOn(t) ==
    /\ OfferSeesOpen(t) \/ OfferOverflows(t) \/ OfferWritesData(t, OpOf(t))
    /\ UNCHANGED <<lockWord, clientVars, callVars>>

OfferIsAccepted(t) ==
    /\ OfferClaims(t)
    /\ UNCHANGED <<lockWord, clientVars, callVars>>

OfferReturns(t) ==
    /\ OfferPublishes(t, Delegated(t))
    /\ tries' = [tries EXCEPT ![t] = 0]
    /\ UNCHANGED <<lockWord, clientVars, returnValue>>

(* adxlock_write_with_response_block: the loop after the delegation.        *)
Await(t) ==
    /\ returnValue[t]
    /\ Move(t, "await", "idle")
    /\ UNCHANGED <<lockWord, queueVars, offerVars, flushVars, clientVars, callVars>>

(****************************************************************************)
(* drmvqueue_flush and LOCK_WRITE_READ_UNLOCK, at the end of a helping      *)
(* write_with_response and in adxlock_write_read_unlock.                    *)
(****************************************************************************)
FlushRuns(t) ==
    /\ FlushReads(t)
    /\ Run(data[current[t]])
    /\ UNCHANGED <<lockWord, clientVars, tries>>

FlushGoesOn(t) ==
    /\ FlushStarts(t) \/ FlushClears(t) \/ FlushRereads(t) \/ FlushSwaps(t)
    /\ UNCHANGED <<lockWord, clientVars, callVars>>

Flushed(t) ==
    /\ FlushReturns(t, "unlock")
    /\ UNCHANGED <<lockWord, clientVars, callVars>>

Unlock(t) ==
    /\ Move(t, "unlock", Delegated(t))
    /\ ReleaseLockWord
    /\ UNCHANGED <<queueVars, offerVars, flushVars, clientVars, callVars>>

(****************************************************************************)
(* adxlock_write_read_lock, the client's critical section, and the start of *)
(* adxlock_write_read_unlock.                                               *)
(****************************************************************************)
SpinEnds(t) ==
    /\ SeesFree(t, "spin", "set")
    /\ UNCHANGED <<queueVars, offerVars, flushVars, clientVars, callVars>>

SetWins(t) ==
    /\ TestAndSetWins(t, "set", "reset")
    /\ UNCHANGED <<queueVars, offerVars, flushVars, clientVars, callVars>>

SetLoses(t) ==
    /\ TestAndSetLoses(t, "set", "spin")
    /\ UNCHANGED <<queueVars, offerVars, flushVars, clientVars, callVars>>

LeaveCritical(t) ==
    /\ Move(t, "critical", "flush")
    /\ UNCHANGED <<lockWord, queueVars, offerVars, flushVars, clientVars, callVars>>

(* The steps that take responsibility for an operation, the steps that run  *)
(* one, and all other steps of a call in progress.                          *)
AcceptStep(t) == TryWins(t) \/ OfferIsAccepted(t)

RunStep(t) == RunOwn(t) \/ FlushRuns(t)

QuietStep(t) ==
    \/ LookFree(t) \/ LookLocked(t) \/ TryLoses(t) \/ Reset(t)
    \/ OfferFails(t) \/ OfferGoesOn(t) \/ OfferReturns(t) \/ Await(t)
    \/ FlushGoesOn(t) \/ Flushed(t) \/ Unlock(t)
    \/ SpinEnds(t) \/ SetWins(t) \/ SetLoses(t) \/ LeaveCritical(t)

Step(t) == AcceptStep(t) \/ RunStep(t) \/ QuietStep(t)

Next == \E t \in Threads : Call(t) \/ Step(t)

Spec == Init /\ [][Next]_vars

(* A thread in the middle of a call is scheduled again and again, and a     *)
(* critical section ends; no thread has to make a call.                     *)
Fairness == \A t \in Threads : WF_vars(Step(t))

FairSpec == Spec /\ Fairness

(****************************************************************************)
(* Properties.                                                              *)
(****************************************************************************)
Labels == {"idle", "look", "try", "reset", "resetClosed", "own", "offer",
           "offerAdd", "offerData", "offerRequest", "offerClose", "await",
           "flush", "flushLoop", "flushClear", "flushSwap", "unlock",
           "spin", "set", "critical"}

TypeOK ==
    /\ pc \in [Threads -> Labels]
    /\ lockWord \in BOOLEAN
    /\ QueueTypeOK(Ops)
    /\ calls \in [Threads -> 0 .. MaxCalls]
    /\ kind \in [Threads -> Kinds \cup {"none"}]
    /\ tries \in [Threads -> 0 .. OFFER_TRIES - 1]
    /\ returnValue \in [Threads -> BOOLEAN]

(* A holder that is past its own operation or critical section always gets  *)
(* out: the flush does not wait for a slot that nobody fills, and offers    *)
(* cannot keep it busy for ever although clients never stop calling.        *)
HolderGetsOut ==
    \A t \in Threads : pc[t] \in HolderLabels ~> pc[t] \notin HolderLabels

(* A blocking call whose operation has been accepted gets its response, and *)
(* an offer that has claimed a slot returns.                                *)
AcceptedReturns ==
    \A t \in Threads : pc[t] \in ClaimLabels \cup {"await"} ~> pc[t] = "idle"
=============================================================================
