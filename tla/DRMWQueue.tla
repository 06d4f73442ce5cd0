------------------------------ MODULE DRMWQueue ------------------------------
(****************************************************************************)
(* The delegation queue of the queue-delegation locks,                      *)
(* src/datastructures/dr_multi_writers_queue.h: many threads offer          *)
(* requests, the thread that holds the lock opens the queue                 *)
(* (drmvqueue_reset_fully_read) and drains it (drmvqueue_flush).            *)
(*                                                                          *)
(* The module is a library of atomic steps. A step is one access to shared  *)
(* memory of one thread t; where control goes when a procedure returns is a *)
(* parameter (fail, ok, next), so that each lock composes the steps with    *)
(* its own. The lock's module supplies Init and Next.                       *)
(*                                                                          *)
(* A slot's data stands for the pair (data, responseLocation): the C code   *)
(* stores and loads both between the same two accesses to the slot's        *)
(* request, so the two are one value here. request[i] is "the function      *)
(* pointer of slot i is not NULL".                                          *)
(****************************************************************************)
EXTENDS Naturals, Control

CONSTANTS
    NoOp,       \* the NULL of a slot that was never written
    CAPACITY    \* MWQ_CAPACITY, 4048 in the code

ASSUME CapacityAssumption == CAPACITY \in Nat \ {0}

VARIABLES
    closed,        \* queue->closed.value
    elementCount,  \* queue->elementCount.value
    request,       \* queue->elements[i].request # NULL
    data,          \* queue->elements[i].(data, responseLocation)
    index,         \* drmvqueue_offer: the slot claimed by the thread
    current,       \* drmvqueue_flush: currentElementIndex
    toRead,        \* drmvqueue_flush: numOfElementsToRead
    flushClosed    \* drmvqueue_flush: the local variable closed

queueVars == <<closed, elementCount, request, data>>
flushVars == <<current, toRead, flushClosed>>
offerVars == <<index>>

Slots == 0 .. CAPACITY - 1

Lesser(i, j) == IF i < j THEN i ELSE j

(****************************************************************************)
(* drmvqueue_initialize. A local variable of a procedure that is not        *)
(* running is 0 (FALSE), so that dead values do not multiply the states.    *)
(****************************************************************************)
QueueInit ==
    /\ closed = TRUE
    /\ elementCount = CAPACITY
    /\ request = [i \in Slots |-> FALSE]
    /\ data = [i \in Slots |-> NoOp]
    /\ index = [t \in Threads |-> 0]
    /\ current = [t \in Threads |-> 0]
    /\ toRead = [t \in Threads |-> 0]
    /\ flushClosed = [t \in Threads |-> FALSE]

(****************************************************************************)
(* drmvqueue_offer: load closed; fetch-and-add elementCount; fill the slot  *)
(* and publish it, or close the queue when the index is past the end.       *)
(****************************************************************************)
OfferSeesClosed(t, fail) ==
    /\ closed
    /\ Move(t, "offer", fail)
    /\ UNCHANGED <<queueVars, offerVars, flushVars>>

OfferSeesOpen(t) ==
    /\ ~closed
    /\ Move(t, "offer", "offerAdd")
    /\ UNCHANGED <<queueVars, offerVars, flushVars>>

(* Mutant: the bound of the index is off by one.                            *)
OfferClaimsPastEnd(t) ==
    /\ elementCount <= CAPACITY
    /\ Move(t, "offerAdd", "offerData")
    /\ index' = [index EXCEPT ![t] = elementCount]
    /\ elementCount' = elementCount + 1
    /\ UNCHANGED <<closed, request, data, flushVars>>

OfferClaims(t) ==
    /\ elementCount < CAPACITY
    /\ Move(t, "offerAdd", "offerData")
    /\ index' = [index EXCEPT ![t] = elementCount]
    /\ elementCount' = elementCount + 1
    /\ UNCHANGED <<closed, request, data, flushVars>>

OfferOverflows(t) ==
    /\ elementCount >= CAPACITY
    /\ Move(t, "offerAdd", "offerClose")
    /\ elementCount' = elementCount + 1
    /\ UNCHANGED <<closed, request, data, offerVars, flushVars>>

OfferCloses(t, fail) ==
    /\ Move(t, "offerClose", fail)
    /\ closed' = TRUE
    /\ UNCHANGED <<elementCount, request, data, offerVars, flushVars>>

OfferWritesData(t, op) ==
    /\ Move(t, "offerData", "offerRequest")
    /\ data' = [data EXCEPT ![index[t]] = op]
    /\ UNCHANGED <<closed, elementCount, request, offerVars, flushVars>>

OfferPublishes(t, ok) ==
    /\ Move(t, "offerRequest", ok)
    /\ request' = [request EXCEPT ![index[t]] = TRUE]
    /\ index' = [index EXCEPT ![t] = 0]
    /\ UNCHANGED <<closed, elementCount, data, flushVars>>

(* Mutant: what is there at the start is all that is flushed, the queue is  *)
(* left open.                                                               *)
FlushStartsClosed(t) ==
    /\ Move(t, "flush", "flushLoop")
    /\ current' = [current EXCEPT ![t] = 0]
    /\ toRead' = [toRead EXCEPT ![t] = Lesser(elementCount, CAPACITY)]
    /\ flushClosed' = [flushClosed EXCEPT ![t] = TRUE]
    /\ UNCHANGED <<queueVars, offerVars>>

(****************************************************************************)
(* drmvqueue_flush: load elementCount; read and execute slot after slot;    *)
(* when none is left, look at elementCount again and close the queue by     *)
(* swapping in CAPACITY + 1 if it has not moved.                            *)
(****************************************************************************)
FlushStarts(t) ==
    /\ Move(t, "flush", "flushLoop")
    /\ current' = [current EXCEPT ![t] = 0]
    /\ toRead' = [toRead EXCEPT ![t] = Lesser(elementCount, CAPACITY)]
    /\ flushClosed' = [flushClosed EXCEPT ![t] = elementCount >= CAPACITY]
    /\ UNCHANGED <<queueVars, offerVars>>

(* Mutant: a claimed slot is read without waiting for its request.          *)
FlushReadsUnpublished(t) ==
    /\ current[t] < toRead[t]
    /\ Move(t, "flushLoop", "flushClear")
    /\ UNCHANGED <<queueVars, offerVars, flushVars>>

(* The slot at current is published; the lock's module executes data of it. *)
FlushReads(t) ==
    /\ current[t] < toRead[t]
    /\ request[current[t]]
    /\ Move(t, "flushLoop", "flushClear")
    /\ UNCHANGED <<queueVars, offerVars, flushVars>>

(* Mutant: the request of a slot that has been read is left in it.          *)
FlushForgetsToClear(t) ==
    /\ Move(t, "flushClear", "flushLoop")
    /\ current' = [current EXCEPT ![t] = @ + 1]
    /\ UNCHANGED <<queueVars, offerVars, toRead, flushClosed>>

FlushClears(t) ==
    /\ Move(t, "flushClear", "flushLoop")
    /\ request' = [request EXCEPT ![current[t]] = FALSE]
    /\ current' = [current EXCEPT ![t] = @ + 1]
    /\ UNCHANGED <<closed, elementCount, data, offerVars, toRead, flushClosed>>

FlushRereads(t) ==
    /\ current[t] >= toRead[t]
    /\ ~flushClosed[t]
    /\ IF elementCount = toRead[t]
       THEN /\ Move(t, "flushLoop", "flushSwap")
            /\ UNCHANGED <<toRead, flushClosed>>
       ELSE /\ Move(t, "flushLoop", "flushLoop")
            /\ toRead' = [toRead EXCEPT ![t] = Lesser(elementCount, CAPACITY)]
            /\ flushClosed' = [flushClosed EXCEPT ![t] = elementCount >= CAPACITY]
    /\ UNCHANGED <<queueVars, offerVars, current>>

(* Mutant: the queue is declared closed without sealing the count.          *)
FlushClosesUnsealed(t) ==
    /\ Move(t, "flushSwap", "flushLoop")
    /\ flushClosed' = [flushClosed EXCEPT ![t] = TRUE]
    /\ UNCHANGED <<queueVars, offerVars, current, toRead>>

(* Mutant: the count returned by the swap is ignored.                       *)
FlushSwapsBlindly(t) ==
    /\ Move(t, "flushSwap", "flushLoop")
    /\ elementCount' = CAPACITY + 1
    /\ flushClosed' = [flushClosed EXCEPT ![t] = TRUE]
    /\ UNCHANGED <<closed, request, data, offerVars, current, toRead>>

(* Mutant: the minimum is taken with the count that was swapped in.         *)
FlushSwapsToTheEnd(t) ==
    /\ Move(t, "flushSwap", "flushLoop")
    /\ toRead' = [toRead EXCEPT ![t] = CAPACITY]
    /\ elementCount' = CAPACITY + 1
    /\ flushClosed' = [flushClosed EXCEPT ![t] = TRUE]
    /\ UNCHANGED <<closed, request, data, offerVars, current>>

FlushSwaps(t) ==
    /\ Move(t, "flushSwap", "flushLoop")
    /\ toRead' = [toRead EXCEPT ![t] = Lesser(elementCount, CAPACITY)]
    /\ elementCount' = CAPACITY + 1
    /\ flushClosed' = [flushClosed EXCEPT ![t] = TRUE]
    /\ UNCHANGED <<closed, request, data, offerVars, current>>

FlushReturns(t, next) ==
    /\ current[t] >= toRead[t]
    /\ flushClosed[t]
    /\ Move(t, "flushLoop", next)
    /\ current' = [current EXCEPT ![t] = 0]
    /\ toRead' = [toRead EXCEPT ![t] = 0]
    /\ flushClosed' = [flushClosed EXCEPT ![t] = FALSE]
    /\ UNCHANGED <<queueVars, offerVars>>

(****************************************************************************)
(* drmvqueue_reset_fully_read: two stores, the count first.                 *)
(****************************************************************************)
ResetCount(t) ==
    /\ Move(t, "reset", "resetClosed")
    /\ elementCount' = 0
    /\ UNCHANGED <<closed, request, data, offerVars, flushVars>>

ResetClosed(t, next) ==
    /\ Move(t, "resetClosed", next)
    /\ closed' = FALSE
    /\ UNCHANGED <<elementCount, request, data, offerVars, flushVars>>

(****************************************************************************)
(* The types of the queue's variables, for requests from the set ops.       *)
(****************************************************************************)
QueueTypeOK(ops) ==
    /\ closed \in BOOLEAN
    /\ elementCount \in Nat
    /\ request \in [Slots -> BOOLEAN]
    /\ data \in [Slots -> ops \cup {NoOp}]
    /\ index \in [Threads -> Slots]
    /\ current \in [Threads -> 0 .. CAPACITY]
    /\ toRead \in [Threads -> 0 .. CAPACITY]
    /\ flushClosed \in [Threads -> BOOLEAN]
=============================================================================
