---------------------------- MODULE DXLockProofs -----------------------------
(****************************************************************************)
(* What the proofs about the two queue-delegation locks share, for any set  *)
(* of threads and any capacity of the queue. DXStep lists what a step of    *)
(* either lock can do to the lock word, the queue and the calls; the lemmas *)
(* show that each of the invariants of DXLock and of DXLockHistory survives *)
(* it. QDLockProofs and MRQDLockProofs show that their steps are DXSteps.   *)
(****************************************************************************)
EXTENDS DXLockHistory, TLAPS

(****************************************************************************)
(* The steps.                                                               *)
(****************************************************************************)
InsideLabels == {"lower", "reading"}

(* A step outside the queue, or one that only stores closed.                *)
Quiet(t) ==
    /\ UNCHANGED <<lockWord, calls, kind, elementCount, request, data, index,
                   current, toRead, flushClosed>>
    /\ closed' \in BOOLEAN
    /\ pc[t] \notin FlushLabels \cup ClaimLabels \cup {"idle"}
    /\ \E l :
          /\ pc' = [u \in Threads |-> IF u = t THEN l ELSE pc[u]]
          /\ l \notin FlushLabels \cup ClaimLabels
          /\ l \in HolderLabels <=> pc[t] \in HolderLabels
          /\ l \in OpenLabels <=> pc[t] \in OpenLabels
          /\ l \in NotAccepted => pc[t] \in NotAccepted
          /\ l \in InsideLabels => pc[t] \in InsideLabels \/ ~lockWord
    /\ OwnFirst(t)' <=> OwnFirst(t)

Begins(t) ==
    /\ \E k \in Kinds : \E l :
          /\ Begin(t, k, l)
          /\ l \notin HolderLabels \cup ClaimLabels \cup InsideLabels
    /\ UNCHANGED <<lockWord, queueVars, index, flushVars>>

Wins(t, from) ==
    /\ TestAndSetWins(t, from, "reset")
    /\ UNCHANGED <<queueVars, index, flushVars, clientVars>>

Releases(t) ==
    /\ \E l \in {"idle", "await"} : Move(t, "unlock", l)
    /\ lockWord' = FALSE
    /\ UNCHANGED <<queueVars, index, flushVars, clientVars>>

RunsOwn(t) ==
    /\ Move(t, "own", "flush")
    /\ UNCHANGED <<lockWord, queueVars, index, flushVars, clientVars>>

(* The steps of the queue that change its slots or its count.               *)
Offers(t) ==
    \/ OfferOverflows(t)
    \/ OfferWritesData(t, OpOf(t))
    \/ \E l \in {"idle", "await"} : OfferPublishes(t, l)

Flushes(t) ==
    \/ FlushStarts(t) \/ FlushClears(t) \/ FlushRereads(t) \/ FlushSwaps(t)
    \/ FlushReturns(t, "unlock")

InQueue(t) ==
    /\ OfferClaims(t) \/ Offers(t) \/ ResetCount(t) \/ FlushReads(t) \/ Flushes(t)
    /\ UNCHANGED <<lockWord, clientVars>>

DXStep(t) ==
    \/ Quiet(t) \/ Begins(t) \/ Wins(t, "try") \/ Wins(t, "set") \/ Releases(t)
    \/ RunsOwn(t) \/ InQueue(t)

(* The types of the shared variables, whatever labels a lock has.           *)
DXTypeOK ==
    /\ DOMAIN pc = Threads
    /\ lockWord \in BOOLEAN
    /\ QueueTypeOK(Ops)
    /\ calls \in [Threads -> 0 .. MaxCalls]
    /\ kind \in [Threads -> Kinds \cup {"none"}]

(* A move of t from one label to another that does not matter to the queue. *)
QuietMove(t, from, to) ==
    /\ Move(t, from, to)
    /\ from \notin FlushLabels \cup ClaimLabels \cup {"idle"}
    /\ to \notin FlushLabels \cup ClaimLabels
    /\ to \in HolderLabels <=> from \in HolderLabels
    /\ to \in OpenLabels <=> from \in OpenLabels
    /\ to \in NotAccepted => from \in NotAccepted
    /\ to \in InsideLabels => from \in InsideLabels \/ ~lockWord
    /\ \/ /\ from \notin {"reset", "resetClosed", "readers", "own"}
          /\ to \notin {"reset", "resetClosed", "readers", "own"}
       \/ /\ from \in {"resetClosed", "readers"}
          /\ to \in {"resetClosed", "readers", "own"} \/ kind[t] = "exclusive"

LEMMA MoveIsQuiet ==
    ASSUME DXTypeOK, NEW t \in Threads, NEW from, NEW to, QuietMove(t, from, to),
           closed' \in BOOLEAN,
           UNCHANGED <<lockWord, calls, kind, elementCount, request, data, index,
                       current, toRead, flushClosed>>
    PROVE  Quiet(t)
<1>1. pc[t] = from /\ pc' = [u \in Threads |-> IF u = t THEN to ELSE pc[u]] /\ pc'[t] = to
  BY DEF QuietMove, Move, DXTypeOK
<1>2. OwnFirst(t)' <=> OwnFirst(t)
  BY <1>1 DEF QuietMove, OwnFirst
<1>3. QED
  BY <1>1, <1>2 DEF QuietMove, Quiet

USE DEF HolderLabels, ClaimLabels, OpenLabels, FlushLabels, InsideLabels

(****************************************************************************)
(* What a step does to the control state and the lock word: it moves one    *)
(* thread, which takes the lock, releases it, or does neither.              *)
(****************************************************************************)
Stays(t) ==
    /\ lockWord' = lockWord
    /\ \E l :
          /\ pc' = [u \in Threads |-> IF u = t THEN l ELSE pc[u]]
          /\ l \in HolderLabels <=> pc[t] \in HolderLabels

Enters(t) ==
    /\ ~lockWord
    /\ lockWord' = TRUE
    /\ pc' = [u \in Threads |-> IF u = t THEN "reset" ELSE pc[u]]

Leaves(t) ==
    /\ pc[t] = "unlock"
    /\ lockWord' = FALSE
    /\ \E l : l \notin HolderLabels /\ pc' = [u \in Threads |-> IF u = t THEN l ELSE pc[u]]

LEMMA ControlOfStep ==
    ASSUME NEW t \in Threads, DXStep(t)
    PROVE  Stays(t) \/ Enters(t) \/ Leaves(t)
<1> USE DEF Move
<1>1. CASE Quiet(t) \/ Begins(t) \/ RunsOwn(t)
  BY <1>1 DEF Quiet, Begins, Begin, RunsOwn, Stays
<1>2. CASE Wins(t, "try") \/ Wins(t, "set")
  BY <1>2 DEF Wins, TestAndSetWins, Enters
<1>3. CASE Releases(t)
  BY <1>3 DEF Releases, Leaves
<1>4. CASE InQueue(t)
  <2>1. CASE OfferClaims(t) \/ Offers(t)
    BY <1>4, <2>1 DEF InQueue, OfferClaims, Offers, OfferOverflows, OfferWritesData,
                      OfferPublishes, Stays
  <2>2. CASE ResetCount(t) \/ FlushReads(t)
    BY <1>4, <2>2 DEF InQueue, ResetCount, FlushReads, Stays
  <2>3. CASE Flushes(t)
    BY <1>4, <2>3 DEF InQueue, Flushes, FlushStarts, FlushClears, FlushRereads,
                      FlushSwaps, FlushReturns, Stays
  <2>4. QED
    BY <1>4, <2>1, <2>2, <2>3 DEF InQueue
<1>5. QED
  BY <1>1, <1>2, <1>3, <1>4 DEF DXStep

(****************************************************************************)
(* At most one thread is between winning the lock word and releasing it,    *)
(* and the lock word says whether there is one.                             *)
(****************************************************************************)
LEMMA ExclusionStep ==
    ASSUME DXTypeOK, MutualExclusion, NEW t \in Threads, DXStep(t)
    PROVE  MutualExclusion'
<1> USE DEF DXTypeOK
<1>1. CASE Stays(t)
  BY <1>1 DEF MutualExclusion, Stays
<1>2. CASE Enters(t)
  BY <1>2 DEF MutualExclusion, Enters
<1>3. CASE Leaves(t)
  BY <1>3 DEF MutualExclusion, Leaves
<1>4. QED
  BY <1>1, <1>2, <1>3, ControlOfStep

LEMMA OneHolder ==
    ASSUME MutualExclusion, NEW t \in Threads, pc[t] \in HolderLabels
    PROVE  \A h \in Threads : pc[h] \in HolderLabels => h = t
BY DEF MutualExclusion

(****************************************************************************)
(* Types. A step keeps them because the locals of the call in progress are  *)
(* in range (LocalsOK): the position of the flush stays below toRead.       *)
(****************************************************************************)
LEMMA LesserInRange ==
    ASSUME NEW i \in Nat
    PROVE  /\ Lesser(i, CAPACITY) \in 0 .. CAPACITY
           /\ Lesser(i, CAPACITY) <= i
           /\ i >= CAPACITY => Lesser(i, CAPACITY) = CAPACITY
           /\ i < CAPACITY => Lesser(i, CAPACITY) = i
BY CapacityAssumption DEF Lesser

LEMMA OpIsTyped ==
    ASSUME DXTypeOK, LocalsOK, NEW t \in Threads, pc[t] # "idle"
    PROVE  OpOf(t) \in Ops
<1>1. calls[t] \in 1 .. MaxCalls
  BY MaxCallsAssumption DEF DXTypeOK, LocalsOK
<1>2. (kind[t] = "await") \in BOOLEAN
  OBVIOUS
<1>3. QED
  BY <1>1, <1>2 DEF OpOf, Ops

LEMMA FlushTypes ==
    ASSUME DXTypeOK, LocalsOK, NEW t \in Threads, Flushes(t)
    PROVE  QueueTypeOK(Ops)'
<1> USE CapacityAssumption
<1> USE DEF DXTypeOK, QueueTypeOK, Slots, Move, queueVars, offerVars, flushVars
<1>1. CASE FlushStarts(t) \/ FlushRereads(t) \/ FlushSwaps(t)
  <2>1. flushClosed' \in [Threads -> BOOLEAN]
    <3>1. (elementCount >= CAPACITY) \in BOOLEAN /\ TRUE \in BOOLEAN
      OBVIOUS
    <3>2. \E b \in BOOLEAN :
             \/ flushClosed' = [flushClosed EXCEPT ![t] = b]
             \/ flushClosed' = flushClosed
      BY <1>1, <3>1, Zenon DEF FlushStarts, FlushRereads, FlushSwaps
    <3>3. QED
      BY <3>2
  <2>2. /\ toRead' \in [Threads -> 0 .. CAPACITY]
        /\ current' \in [Threads -> 0 .. CAPACITY]
        /\ elementCount' \in Nat
    <3>1. Lesser(elementCount, CAPACITY) \in 0 .. CAPACITY
      BY LesserInRange
    <3>2. CASE FlushStarts(t)
      BY <3>1, <3>2 DEF FlushStarts
    <3>3. CASE FlushRereads(t)
      BY <3>1, <3>3 DEF FlushRereads
    <3>4. CASE FlushSwaps(t)
      BY <3>1, <3>4 DEF FlushSwaps
    <3>5. QED
      BY <1>1, <3>2, <3>3, <3>4
  <2>3. UNCHANGED <<closed, request, data, index>>
    BY <1>1 DEF FlushStarts, FlushRereads, FlushSwaps
  <2>4. QED
    BY <2>1, <2>2, <2>3
<1>2. CASE FlushClears(t)
  <2>1. current[t] < toRead[t]
    BY <1>2 DEF FlushClears, LocalsOK
  <2>2. current[t] + 1 \in 0 .. CAPACITY
    BY <2>1
  <2>3. QED
    BY <1>2, <2>2 DEF FlushClears
<1>3. CASE FlushReturns(t, "unlock")
  BY <1>3 DEF FlushReturns
<1>4. QED
  BY <1>1, <1>2, <1>3 DEF Flushes

LEMMA DXTypeOKStep ==
    ASSUME DXTypeOK, LocalsOK, NEW t \in Threads, DXStep(t)
    PROVE  DXTypeOK'
<1> USE CapacityAssumption, MaxCallsAssumption
<1> USE DEF DXTypeOK, QueueTypeOK, Slots, Move, queueVars, offerVars, flushVars, clientVars
<1>1. DOMAIN pc' = Threads /\ lockWord' \in BOOLEAN
  BY ControlOfStep DEF Stays, Enters, Leaves
<1>2. CASE Quiet(t)
  BY <1>1, <1>2 DEF Quiet
<1>3. CASE Begins(t)
  BY <1>1, <1>3 DEF Begins, Begin
<1>4. CASE Wins(t, "try") \/ Wins(t, "set") \/ Releases(t) \/ RunsOwn(t)
  BY <1>1, <1>4 DEF Wins, Releases, RunsOwn
<1>5. CASE InQueue(t)
  <2>1. calls' = calls /\ kind' = kind
    BY <1>5 DEF InQueue
  <2>2. CASE OfferClaims(t) \/ ResetCount(t) \/ FlushReads(t)
    <3>1. CASE OfferClaims(t)
      BY <1>1, <2>1, <3>1 DEF OfferClaims
    <3>2. CASE ResetCount(t)
      BY <1>1, <2>1, <3>2 DEF ResetCount
    <3>3. CASE FlushReads(t)
      BY <1>1, <2>1, <3>3 DEF FlushReads
    <3>4. QED
      BY <2>2, <3>1, <3>2, <3>3
  <2>3. CASE Offers(t)
    <3>1. CASE OfferOverflows(t)
      BY <1>1, <2>1, <3>1 DEF OfferOverflows
    <3>2. CASE OfferWritesData(t, OpOf(t))
      <4>1. OpOf(t) \in Ops
        BY <3>2, OpIsTyped DEF OfferWritesData
      <4>2. QED
        BY <1>1, <2>1, <3>2, <4>1 DEF OfferWritesData
    <3>3. CASE \E l \in {"idle", "await"} : OfferPublishes(t, l)
      <4>1. /\ request' = [request EXCEPT ![index[t]] = TRUE]
            /\ index' = [index EXCEPT ![t] = 0]
            /\ UNCHANGED <<closed, elementCount, data, current, toRead, flushClosed>>
        BY <3>3 DEF OfferPublishes
      <4>2. QED
        BY <1>1, <2>1, <4>1
    <3>4. QED
      BY <2>3, <3>1, <3>2, <3>3 DEF Offers
  <2>4. CASE Flushes(t)
    <3>1. QueueTypeOK(Ops)'
      BY <2>4, FlushTypes
    <3>2. QED
      BY <1>1, <2>1, <3>1
  <2>5. QED
    BY <1>5, <2>2, <2>3, <2>4 DEF InQueue
<1>6. QED
  BY <1>2, <1>3, <1>4, <1>5 DEF DXStep

(****************************************************************************)
(* The locals of a call in progress change only in the thread's own steps,  *)
(* except that the slot a flush has just executed could be cleared by       *)
(* another flush: mutual exclusion excludes that.                           *)
(****************************************************************************)
LEMMA LocalsOKStep ==
    ASSUME DXTypeOK, MutualExclusion, LocalsOK, NEW t \in Threads, DXStep(t)
    PROVE  LocalsOK'
<1> USE CapacityAssumption, MaxCallsAssumption
<1> USE DEF LocalsOK, Move, queueVars, offerVars, flushVars, clientVars
<1> USE DEF DXTypeOK, QueueTypeOK, Slots
<1>1. CASE Quiet(t)
  BY <1>1 DEF Quiet
<1>2. CASE Begins(t)
  BY <1>2 DEF Begins, Begin
<1>3. CASE Wins(t, "try") \/ Wins(t, "set") \/ Releases(t) \/ RunsOwn(t)
  BY <1>3 DEF Wins, TestAndSetWins, Releases, RunsOwn
<1>4. CASE InQueue(t)
  <2>1. calls' = calls
    BY <1>4 DEF InQueue
  <2>2. CASE OfferClaims(t) \/ ResetCount(t)
    <3>1. CASE OfferClaims(t)
      BY <2>1, <3>1 DEF OfferClaims
    <3>2. CASE ResetCount(t)
      BY <2>1, <3>2 DEF ResetCount
    <3>3. QED
      BY <2>2, <3>1, <3>2
  <2>3. CASE FlushReads(t)
    BY <2>1, <2>3 DEF FlushReads
  <2>4. CASE Offers(t)
    <3>1. CASE OfferOverflows(t) \/ OfferWritesData(t, OpOf(t))
      BY <2>1, <3>1 DEF OfferOverflows, OfferWritesData
    <3>2. CASE \E l \in {"idle", "await"} : OfferPublishes(t, l)
      BY <2>1, <3>2 DEF OfferPublishes
    <3>3. QED
      BY <2>4, <3>1, <3>2 DEF Offers
  <2>5. CASE FlushStarts(t) \/ FlushRereads(t)
    <3>1. CASE FlushStarts(t)
      BY <2>1, <3>1 DEF FlushStarts
    <3>2. CASE FlushRereads(t)
      BY <2>1, <3>2 DEF FlushRereads
    <3>3. QED
      BY <2>5, <3>1, <3>2
  <2>6. CASE FlushClears(t)
    <3>1. \A u \in Threads : pc[u] = "flushClear" => u = t
      BY <2>6 DEF FlushClears, MutualExclusion
    <3>2. QED
      BY <2>1, <2>6, <3>1 DEF FlushClears
  <2>7. CASE FlushSwaps(t)
    BY <2>1, <2>7 DEF FlushSwaps
  <2>8. CASE FlushReturns(t, "unlock")
    BY <2>1, <2>8 DEF FlushReturns
  <2>9. QED
    BY <1>4, <2>2, <2>3, <2>4, <2>5, <2>6, <2>7, <2>8 DEF InQueue, Flushes
<1>5. QED
  BY <1>1, <1>2, <1>3, <1>4 DEF DXStep

(****************************************************************************)
(* The slots. A thread in OpenLabels holds the lock, so that there is at    *)
(* most one and a step is a step of it, of an offer, or of neither.         *)
(****************************************************************************)

(* Most steps neither touch a slot in use nor belong to a flush.            *)
Neutral(t) ==
    /\ UNCHANGED <<elementCount, request, index, current, toRead, flushClosed>>
    /\ \E l :
          /\ pc' = [u \in Threads |-> IF u = t THEN l ELSE pc[u]]
          /\ l \in OpenLabels <=> pc[t] \in OpenLabels
          /\ l \in ClaimLabels <=> pc[t] \in ClaimLabels

(* A claim needs a count below the capacity, which only an open queue has.  *)
LEMMA ClaimNeedsHolder ==
    ASSUME SlotsOK, DXTypeOK, elementCount < CAPACITY
    PROVE  \E h \in Threads : pc[h] \in OpenLabels /\ ~flushClosed[h]
BY CapacityAssumption DEF SlotsOK, Sealed, OpenTo, DXTypeOK, QueueTypeOK

LEMMA NeutralKeepsSlots ==
    ASSUME DXTypeOK, SlotsOK, NEW t \in Threads, Neutral(t)
    PROVE  SlotsOK'
<1> USE DEF DXTypeOK, QueueTypeOK, Neutral
<1>1. /\ \A u \in Threads : pc'[u] \in OpenLabels <=> pc[u] \in OpenLabels
      /\ \A u \in Threads : pc'[u] \in ClaimLabels <=> pc[u] \in ClaimLabels
  OBVIOUS
<1> HIDE DEF OpenLabels, ClaimLabels, DXTypeOK, Neutral
<1>2. \A h \in Threads : Limit(h)' = Limit(h)
  BY DEF Limit, Neutral
<1>3. Sealed => Sealed'
  BY <1>1 DEF Sealed, Neutral
<1>4. \A h \in Threads : OpenTo(h) => OpenTo(h)'
  BY <1>1, <1>2 DEF OpenTo, Neutral
<1>5. QED
  BY <1>1, <1>3, <1>4 DEF SlotsOK

(* An offer claims the slot at the count: the next of the current opening.  *)
LEMMA ClaimKeepsSlots ==
    ASSUME DXTypeOK, MutualExclusion, SlotsOK, NEW t \in Threads, OfferClaims(t)
    PROVE  SlotsOK'
<1> USE CapacityAssumption
<1>1. /\ elementCount < CAPACITY /\ elementCount' = elementCount + 1
      /\ pc[t] = "offerAdd" /\ pc' = [u \in Threads |-> IF u = t THEN "offerData" ELSE pc[u]]
      /\ index' = [index EXCEPT ![t] = elementCount]
      /\ UNCHANGED <<request, current, toRead, flushClosed>>
  BY DEF OfferClaims, Move, flushVars
<1>2. PICK h \in Threads : pc[h] \in OpenLabels /\ ~flushClosed[h]
  BY <1>1, ClaimNeedsHolder
<1>3. h # t /\ pc'[h] = pc[h] /\ \A u \in Threads : pc'[u] \in OpenLabels => u = h
  BY <1>1, <1>2 DEF MutualExclusion, DXTypeOK
<1>4. Limit(h) = elementCount /\ Limit(h)' = elementCount + 1
  BY <1>1, <1>2 DEF Limit, Lesser, DXTypeOK, QueueTypeOK
<1>5. OpenTo(h)
  BY <1>2 DEF SlotsOK
<1>6. OpenTo(h)'
  <2> USE DEF DXTypeOK, QueueTypeOK, Slots
  <2> HIDE DEF Limit
  <2>1. elementCount \in Slots /\ ~request[elementCount]
    BY <1>1, <1>4, <1>5 DEF OpenTo
  <2>2. /\ (current[h] <= toRead[h])'
        /\ (toRead[h] <= Limit(h))'
        /\ (flushClosed[h] => elementCount >= CAPACITY)'
    BY <1>1, <1>2, <1>4, <1>5 DEF OpenTo
  <2>3. (\A i \in Slots : request[i] => current[h] <= i /\ i < Limit(h))'
    BY <1>1, <1>4, <1>5 DEF OpenTo
  <2>4. ASSUME NEW u \in Threads, pc'[u] \in ClaimLabels
        PROVE  current'[h] <= index'[u] /\ index'[u] < Limit(h)' /\ ~request'[index'[u]]
    <3>1. CASE u = t
      BY <1>1, <1>4, <1>5, <2>1, <3>1 DEF OpenTo
    <3>2. CASE u # t
      BY <1>1, <1>4, <1>5, <2>4, <3>2 DEF OpenTo
    <3>3. QED
      BY <3>1, <3>2
  <2>5. ASSUME NEW u \in Threads, NEW v \in Threads, pc'[u] \in ClaimLabels,
               pc'[v] \in ClaimLabels, index'[u] = index'[v]
        PROVE  u = v
    <3>1. \A w \in Threads : pc[w] \in ClaimLabels => index[w] < elementCount
      BY <1>4, <1>5 DEF OpenTo
    <3>2. index'[t] = elementCount /\ \A w \in Threads \ {t} : index'[w] = index[w]
      BY <1>1
    <3>3. \A w \in Threads \ {t} : pc'[w] \in ClaimLabels => pc[w] \in ClaimLabels
      BY <1>1
    <3>4. \A w \in Threads : pc[w] \in ClaimLabels => index[w] # elementCount
      <4>1. elementCount \in Nat /\ ~(elementCount < elementCount)
        OBVIOUS
      <4> HIDE DEF DXTypeOK, QueueTypeOK, Slots
      <4>2. QED
        BY <3>1, <4>1
    <3>5. CASE u = t \/ v = t
      BY <2>5, <3>2, <3>3, <3>4, <3>5
    <3>6. CASE u # t /\ v # t
      BY <1>5, <2>5, <3>2, <3>3, <3>6 DEF OpenTo
    <3>7. QED
      BY <3>5, <3>6
  <2>6. QED
    BY <2>2, <2>3, <2>4, <2>5 DEF OpenTo
<1>7. QED
  BY <1>2, <1>3, <1>6 DEF SlotsOK

(* The flush moves its position, its end, or both at once.                  *)
LEMMA FlushKeepsSlots ==
    ASSUME DXTypeOK, MutualExclusion, LocalsOK, SlotsOK, NEW t \in Threads, Flushes(t)
    PROVE  SlotsOK'
<1> USE CapacityAssumption
<1> USE DEF Move, queueVars, offerVars, flushVars
<1>1. CASE FlushStarts(t)
  BY <1>1, OneHolder DEF FlushStarts, LocalsOK, SlotsOK, Sealed, OpenTo, Limit, Lesser,
                         DXTypeOK, QueueTypeOK
<1>2. CASE FlushClears(t)
  <2>1. /\ pc[t] = "flushClear" /\ pc' = [u \in Threads |-> IF u = t THEN "flushLoop" ELSE pc[u]]
        /\ request' = [request EXCEPT ![current[t]] = FALSE]
        /\ current' = [current EXCEPT ![t] = @ + 1]
        /\ UNCHANGED <<elementCount, index, toRead, flushClosed>>
    BY <1>2 DEF FlushClears
  <2>2. current[t] < toRead[t] /\ request[current[t]]
    BY <2>1 DEF LocalsOK
  <2>3. \A h \in Threads : pc'[h] \in OpenLabels => h = t
    BY <2>1, OneHolder DEF DXTypeOK
  <2>4. OpenTo(t) /\ Limit(t)' = Limit(t)
    BY <2>1 DEF SlotsOK, Limit
  <2>5. OpenTo(t)'
    BY <2>1, <2>2, <2>4 DEF OpenTo, DXTypeOK, QueueTypeOK, Slots
  <2>6. QED
    BY <2>1, <2>3, <2>5 DEF SlotsOK, DXTypeOK
<1>3. CASE FlushRereads(t)
  BY <1>3, OneHolder DEF FlushRereads, SlotsOK, Sealed, OpenTo, Limit, Lesser,
                         DXTypeOK, QueueTypeOK
<1>4. CASE FlushSwaps(t)
  <2>1. /\ pc[t] = "flushSwap" /\ pc' = [u \in Threads |-> IF u = t THEN "flushLoop" ELSE pc[u]]
        /\ toRead' = [toRead EXCEPT ![t] = Lesser(elementCount, CAPACITY)]
        /\ elementCount' = CAPACITY + 1
        /\ flushClosed' = [flushClosed EXCEPT ![t] = TRUE]
        /\ UNCHANGED <<request, index, current>>
    BY <1>4 DEF FlushSwaps
  <2>2. \A h \in Threads : pc'[h] \in OpenLabels => h = t
    BY <2>1, OneHolder DEF DXTypeOK
  <2>3. OpenTo(t)
    BY <2>1 DEF SlotsOK
  <2>4. Limit(t) <= Limit(t)' /\ Limit(t)' = toRead'[t]
    BY <2>1, <2>3 DEF OpenTo, Limit, Lesser, DXTypeOK, QueueTypeOK
  <2>5. Limit(t) \in Nat /\ Limit(t)' \in Nat
    BY <2>1 DEF Limit, Lesser, DXTypeOK, QueueTypeOK
  <2>6. OpenTo(t)'
    BY <2>1, <2>3, <2>4, <2>5 DEF OpenTo, DXTypeOK, QueueTypeOK, Slots
  <2>7. QED
    BY <2>1, <2>2, <2>6 DEF SlotsOK, DXTypeOK
<1>5. CASE FlushReturns(t, "unlock")
  <2>1. /\ pc[t] = "flushLoop" /\ pc' = [u \in Threads |-> IF u = t THEN "unlock" ELSE pc[u]]
        /\ current[t] >= toRead[t] /\ flushClosed[t]
        /\ UNCHANGED <<elementCount, request, index>>
    BY <1>5 DEF FlushReturns
  <2>2. \A h \in Threads : pc'[h] \notin OpenLabels
    BY <2>1, OneHolder DEF DXTypeOK
  <2>3. OpenTo(t) /\ Limit(t) = toRead[t]
    BY <2>1 DEF SlotsOK, Limit
  <2>4. /\ \A i \in Slots : ~request[i]
        /\ \A u \in Threads : pc[u] \notin ClaimLabels
        /\ elementCount >= CAPACITY
    BY <2>1, <2>3 DEF OpenTo, DXTypeOK, QueueTypeOK, Slots
  <2>5. QED
    BY <2>1, <2>2, <2>4 DEF SlotsOK, Sealed, DXTypeOK
<1>6. QED
  BY <1>1, <1>2, <1>3, <1>4, <1>5 DEF Flushes

LEMMA SlotsOKStep ==
    ASSUME DXTypeOK, MutualExclusion, LocalsOK, SlotsOK, NEW t \in Threads, DXStep(t)
    PROVE  SlotsOK'
<1> USE CapacityAssumption
<1> USE DEF Move, queueVars, offerVars, flushVars
<1>1. CASE Quiet(t) \/ Begins(t) \/ RunsOwn(t)
  <2>1. Neutral(t)
    BY <1>1 DEF Quiet, Begins, Begin, RunsOwn, Neutral
  <2>2. QED
    BY <2>1, NeutralKeepsSlots
<1>2. CASE Wins(t, "try") \/ Wins(t, "set") \/ Releases(t)
  <2>1. Neutral(t)
    BY <1>2 DEF Wins, TestAndSetWins, Releases, Neutral
  <2>2. QED
    BY <2>1, NeutralKeepsSlots
<1>3. CASE InQueue(t)
  <2>1. CASE OfferClaims(t)
    BY <2>1, ClaimKeepsSlots
  <2>2. CASE Offers(t)
    <3>1. CASE OfferOverflows(t)
      BY <3>1 DEF OfferOverflows, SlotsOK, Sealed, OpenTo, Limit, Lesser, DXTypeOK,
                  QueueTypeOK
    <3>2. CASE OfferWritesData(t, OpOf(t))
      <4>1. Neutral(t)
        BY <3>2 DEF OfferWritesData, Neutral
      <4>2. QED
        BY <4>1, NeutralKeepsSlots
    <3>3. CASE \E l \in {"idle", "await"} : OfferPublishes(t, l)
      BY <3>3 DEF OfferPublishes, SlotsOK, Sealed, OpenTo, Limit, DXTypeOK, QueueTypeOK
    <3>4. QED
      BY <2>2, <3>1, <3>2, <3>3 DEF Offers
  <2>3. CASE ResetCount(t)
    BY <2>3, OneHolder DEF ResetCount, LocalsOK, SlotsOK, Sealed, OpenTo, Limit, Lesser,
                           DXTypeOK, QueueTypeOK
  <2>4. CASE FlushReads(t)
    BY <2>4, OneHolder DEF FlushReads, SlotsOK, Sealed, OpenTo, Limit, DXTypeOK, QueueTypeOK
  <2>5. CASE Flushes(t)
    BY <2>5, FlushKeepsSlots
  <2>6. QED
    BY <1>3, <2>1, <2>2, <2>3, <2>4, <2>5 DEF InQueue
<1>4. QED
  BY <1>1, <1>2, <1>3 DEF DXStep

(****************************************************************************)
(* The history. A step accepts an operation, runs one, or does neither.     *)
(****************************************************************************)
Accepts(t) ==
    /\ Wins(t, "try") \/ (OfferClaims(t) /\ UNCHANGED <<lockWord, clientVars>>)
    /\ accepted' = Append(accepted, OpOf(t))
    /\ log' = log

RunsOne(t) ==
    /\ \/ RunsOwn(t) /\ log' = Append(log, OpOf(t))
       \/ /\ FlushReads(t) /\ UNCHANGED <<lockWord, clientVars>>
          /\ log' = Append(log, data[current[t]])
    /\ accepted' = accepted

Works(t) ==
    /\ \/ Quiet(t) \/ Wins(t, "set") \/ Releases(t)
       \/ /\ Offers(t) \/ ResetCount(t) \/ Flushes(t)
          /\ UNCHANGED <<lockWord, clientVars>>
       \/ Begins(t) /\ calls[t] < MaxCalls
    /\ accepted' = accepted
    /\ log' = log

DXHStep(t) == Accepts(t) \/ RunsOne(t) \/ Works(t)

LEMMA DXHStepIsDXStep ==
    ASSUME NEW t \in Threads, DXHStep(t)
    PROVE  DXStep(t)
BY DEF DXHStep, Accepts, RunsOne, Works, DXStep, InQueue

(* Everything the history's invariant rests on.                             *)
DXInv == DXTypeOK /\ MutualExclusion /\ LocalsOK /\ SlotsOK /\ KindsOK /\ HistoryTypeOK

LEMMA AppendFacts ==
    ASSUME NEW S, NEW s \in Seq(S), NEW e \in S
    PROVE  /\ Append(s, e) \in Seq(S)
           /\ Len(Append(s, e)) = Len(s) + 1
           /\ Append(s, e)[Len(s) + 1] = e
           /\ \A i \in 1 .. Len(s) : Append(s, e)[i] = s[i]
OBVIOUS

(* Nobody holds the lock: everything accepted has run.                      *)
LEMMA FreeMeansRun ==
    ASSUME DXInv, Owed, ~lockWord
    PROVE  (\A h \in Threads : pc[h] \notin HolderLabels) /\ Len(log) = Len(accepted)
BY DEF DXInv, Owed, MutualExclusion

(****************************************************************************)
(* An acceptance appends the operation behind those still owed: it is the   *)
(* holder's own, or that of the slot at the limit.                          *)
(****************************************************************************)
LEMMA AcceptFacts ==
    ASSUME DXInv, NEW t \in Threads, Accepts(t)
    PROVE  /\ pc[t] \in {"try", "offerAdd"} /\ pc'[t] \in {"reset", "offerData"}
           /\ \A u \in Threads \ {t} : pc'[u] = pc[u]
           /\ calls' = calls /\ kind' = kind /\ log' = log
           /\ kind[t] \in {"delegate", "await"}
           /\ OpOf(t) \in Ops
           /\ HistoryTypeOK'
           /\ Len(accepted') = Len(accepted) + 1
           /\ accepted'[Len(accepted) + 1] = OpOf(t)
           /\ \A i \in 1 .. Len(accepted) : accepted'[i] = accepted[i]
<1> USE DEF Accepts, DXInv, DXTypeOK, Move, clientVars
<1>1. pc[t] \in {"try", "offerAdd"} /\ pc'[t] \in {"reset", "offerData"}
  BY DEF Wins, TestAndSetWins, OfferClaims
<1>2. \A u \in Threads \ {t} : pc'[u] = pc[u]
  BY DEF Wins, TestAndSetWins, OfferClaims
<1>3. calls' = calls /\ kind' = kind /\ log' = log
  BY DEF Wins
<1>4. kind[t] \in {"delegate", "await"}
  BY <1>1 DEF KindsOK, KindFits
<1>5. OpOf(t) \in Ops
  BY <1>1, OpIsTyped
<1>6. accepted \in Seq(Ops) /\ accepted' = Append(accepted, OpOf(t))
  BY DEF HistoryTypeOK
<1>7. HistoryTypeOK'
  BY <1>3, <1>5, <1>6, AppendFacts DEF HistoryTypeOK
<1> HIDE DEF Accepts, DXInv
<1>8. QED
  BY <1>1, <1>2, <1>3, <1>4, <1>5, <1>6, <1>7, AppendFacts

LEMMA AcceptKeepsOwed ==
    ASSUME DXInv, Owed, NEW t \in Threads, Accepts(t)
    PROVE  Owed'
<1> USE DEF HistoryTypeOK
<1>0. accepted \in Seq(Ops) /\ log \in Seq(Ops)
  BY DEF DXInv
<1>1. LogFollows'
  BY <1>0, AcceptFacts DEF Owed, LogFollows
<1>2. CASE Wins(t, "try")
  <2>1. ~lockWord /\ pc' = [u \in Threads |-> IF u = t THEN "reset" ELSE pc[u]]
    BY <1>2 DEF Wins, TestAndSetWins, Move
  <2>2. (\A h \in Threads : pc[h] \notin HolderLabels) /\ Len(log) = Len(accepted)
    BY <2>1, FreeMeansRun
  <2>3. pc'[t] = "reset" /\ \A h \in Threads : pc'[h] \in HolderLabels => h = t
    BY <2>1, <2>2 DEF DXInv, DXTypeOK
  <2>4. OwnFirst(t)'
    BY <2>3, AcceptFacts DEF OwnFirst
  <2>5. OpOf(t)' = OpOf(t)
    BY AcceptFacts DEF OpOf
  <2>6. HolderOwes(t)'
    BY <1>0, <2>2, <2>3, <2>4, <2>5, AcceptFacts DEF HolderOwes, Own
  <2>7. QED
    BY <1>1, <2>3, <2>6 DEF Owed
<1>3. CASE OfferClaims(t)
  <2>1. /\ elementCount < CAPACITY /\ elementCount' = elementCount + 1
        /\ pc[t] = "offerAdd" /\ pc' = [u \in Threads |-> IF u = t THEN "offerData" ELSE pc[u]]
        /\ index' = [index EXCEPT ![t] = elementCount]
        /\ UNCHANGED <<request, data, current, toRead, flushClosed>>
    BY <1>3 DEF OfferClaims, Move, flushVars
  <2>2. PICK h \in Threads : pc[h] \in OpenLabels /\ ~flushClosed[h]
    BY <2>1, ClaimNeedsHolder DEF DXInv
  <2>3. /\ h # t /\ pc'[h] = pc[h]
        /\ \A u \in Threads : pc'[u] \in HolderLabels => u = h
    BY <2>1, <2>2 DEF DXInv, MutualExclusion, DXTypeOK
  <2>4. Limit(h) = elementCount /\ Limit(h)' = elementCount + 1 /\ elementCount \in Nat
    BY <2>1, <2>2, CapacityAssumption DEF Limit, Lesser, DXInv, DXTypeOK, QueueTypeOK
  <2>5. OpenTo(h) /\ HolderOwes(h) /\ SlotsHold(h)
    BY <2>2 DEF DXInv, SlotsOK, Owed
  <2>6. /\ OwnFirst(h)' = OwnFirst(h) /\ Own(h)' = Own(h)
        /\ Ran(h)' = Ran(h) /\ Start(h)' = Start(h)
    BY <2>1, <2>3, AcceptFacts DEF OwnFirst, Own, Ran, Start
  <2>7. \A u \in Threads : OpOf(u)' = OpOf(u)
    BY AcceptFacts DEF OpOf
  <2>8. Start(h) \in Nat /\ Len(accepted) = Start(h) + elementCount /\ Own(h) \in {0, 1}
    BY <1>0, <2>1, <2>2, <2>4, <2>5
       DEF HolderOwes, SlotsHold, Start, Own, Ran, DXInv, DXTypeOK, QueueTypeOK
  <2>9. HolderOwes(h)'
    <3>1. Len(accepted') = Start(h)' + Limit(h)' /\ pc'[h] \in OpenLabels
      BY <2>2, <2>3, <2>4, <2>6, <2>8, AcceptFacts
    <3>2. OwnFirst(h) => Len(log) + 1 \in 1 .. Len(accepted)
      <4>1. OwnFirst(h) => Ran(h) = 0
        BY DEF OwnFirst, Ran, DXInv, LocalsOK
      <4>2. OwnFirst(h) => Len(accepted) = Len(log) + 1 + elementCount
        BY <1>0, <2>8, <4>1 DEF Start, Own
      <4>3. QED
        BY <1>0, <2>4, <4>2
    <3>3. QED
      BY <2>5, <2>6, <2>7, <3>1, <3>2, AcceptFacts DEF HolderOwes
  <2>10. SlotsHold(h)'
    <3>1. ASSUME NEW i \in Slots, request[i], Ran(h) <= i
          PROVE  data[i] = accepted'[Start(h) + i + 1]
      <4>1. i < Limit(h) /\ i \in Nat
        BY <2>5, <3>1 DEF OpenTo, Slots
      <4>2. Start(h) + i + 1 \in 1 .. Len(accepted)
        BY <2>4, <2>8, <4>1
      <4>3. QED
        BY <2>5, <3>1, <4>2, AcceptFacts DEF SlotsHold
    <3>2. ASSUME NEW u \in Threads, pc'[u] \in ClaimLabels
          PROVE  /\ accepted'[Start(h) + index'[u] + 1] = OpOf(u)
                 /\ pc'[u] = "offerRequest" => data[index'[u]] = OpOf(u)
      <4>1. CASE u = t
        BY <2>1, <2>8, <4>1, AcceptFacts DEF DXInv, DXTypeOK, QueueTypeOK
      <4>2. CASE u # t
        <5>1. pc'[u] = pc[u] /\ index'[u] = index[u]
          BY <2>1, <4>2 DEF DXInv, DXTypeOK, QueueTypeOK
        <5>2. index[u] < Limit(h) /\ index[u] \in Nat
          BY <2>5, <3>2, <5>1 DEF OpenTo, Slots, DXInv, DXTypeOK, QueueTypeOK
        <5>3. Start(h) + index[u] + 1 \in 1 .. Len(accepted)
          BY <2>4, <2>8, <5>2
        <5>4. QED
          BY <2>5, <3>2, <5>1, <5>3, AcceptFacts DEF SlotsHold
      <4>3. QED
        BY <4>1, <4>2
    <3>3. QED
      BY <2>1, <2>6, <2>7, <2>8, <3>1, <3>2 DEF SlotsHold
  <2>11. QED
    BY <1>1, <2>2, <2>3, <2>9, <2>10 DEF Owed
<1>4. QED
  BY <1>2, <1>3 DEF Accepts

(****************************************************************************)
(* What runs is the next of the accepted operations.                        *)
(****************************************************************************)
LEMMA RunIsNext ==
    ASSUME DXInv, Owed, NEW t \in Threads, RunsOne(t)
    PROVE  /\ pc[t] \in {"own", "flushLoop"}
           /\ Len(log) < Len(accepted)
           /\ log' = Append(log, accepted[Len(log) + 1])
           /\ OwnFirst(t) <=> pc[t] = "own"
           /\ Ran(t)' = Ran(t) + (IF pc[t] = "own" THEN 0 ELSE 1)
<1> USE DEF Move
<1>0. accepted \in Seq(Ops) /\ log \in Seq(Ops) /\ Limit(t) \in Nat
  BY CapacityAssumption
     DEF DXInv, HistoryTypeOK, Limit, Lesser, DXTypeOK, QueueTypeOK
<1>1. CASE RunsOwn(t)
  <2>1. /\ pc[t] = "own" /\ current' = current
        /\ pc' = [u \in Threads |-> IF u = t THEN "flush" ELSE pc[u]]
    BY <1>1 DEF RunsOwn, flushVars
  <2>2. kind[t] # "exclusive"
    BY <2>1 DEF DXInv, KindsOK, KindFits
  <2>3. OwnFirst(t) /\ Own(t) = 1
    BY <2>1, <2>2 DEF OwnFirst, Own
  <2>4. Ran(t) = 0 /\ Ran(t)' = 0
    BY <2>1 DEF Ran, DXInv, LocalsOK, DXTypeOK
  <2>5. HolderOwes(t)
    BY <2>1 DEF Owed
  <2>6. accepted[Len(log) + 1] = OpOf(t)
    BY <2>3, <2>5 DEF HolderOwes
  <2>7. Len(accepted) = Len(log) + 1 + Limit(t)
    BY <1>0, <2>1, <2>3, <2>4, <2>5 DEF HolderOwes, Start
  <2>8. log' = Append(log, OpOf(t))
    BY <2>1 DEF RunsOne, FlushReads
  <2>9. QED
    BY <1>0, <2>1, <2>3, <2>4, <2>6, <2>7, <2>8
<1>2. CASE FlushReads(t)
  <2>1. /\ pc[t] = "flushLoop" /\ pc' = [u \in Threads |-> IF u = t THEN "flushClear" ELSE pc[u]]
        /\ current[t] < toRead[t] /\ request[current[t]] /\ current' = current
    BY <1>2 DEF FlushReads, flushVars
  <2>2. ~OwnFirst(t) /\ Own(t) = 0
    BY <2>1 DEF OwnFirst, Own
  <2>3. Ran(t) = current[t] /\ Ran(t)' = current[t] + 1
    BY <2>1 DEF Ran, DXInv, DXTypeOK
  <2>4. HolderOwes(t) /\ SlotsHold(t) /\ OpenTo(t)
    BY <2>1 DEF Owed, DXInv, SlotsOK
  <2>5. current[t] \in Slots /\ current[t] \in Nat /\ toRead[t] \in Nat
    BY <2>1, CapacityAssumption DEF DXInv, DXTypeOK, QueueTypeOK, Slots
  <2>6. Start(t) = Len(log) - current[t]
    BY <1>0, <2>2, <2>3, <2>5 DEF Start
  <2>7. data[current[t]] = accepted[Len(log) + 1]
    <3>1. data[current[t]] = accepted[Start(t) + current[t] + 1]
      BY <2>1, <2>3, <2>4, <2>5 DEF SlotsHold
    <3>2. Start(t) + current[t] + 1 = Len(log) + 1
      BY <1>0, <2>5, <2>6
    <3>3. QED
      BY <3>1, <3>2
  <2>8. Len(log) < Len(accepted)
    <3>1. Len(accepted) = Start(t) + Limit(t)
      BY <2>1, <2>4 DEF HolderOwes
    <3>2. current[t] < Limit(t)
      BY <1>0, <2>1, <2>4, <2>5 DEF OpenTo
    <3>3. QED
      BY <1>0, <2>5, <2>6, <3>1, <3>2
  <2>9. log' = Append(log, data[current[t]])
    BY <2>1 DEF RunsOne, RunsOwn
  <2>10. QED
    BY <2>1, <2>2, <2>3, <2>5, <2>7, <2>8, <2>9
<1>3. QED
  BY <1>1, <1>2 DEF RunsOne

LEMMA RunFacts ==
    ASSUME DXInv, Owed, NEW t \in Threads, RunsOne(t)
    PROVE  /\ pc'[t] \in {"flush", "flushClear"}
           /\ \A u \in Threads \ {t} : pc'[u] = pc[u]
           /\ UNCHANGED <<lockWord, elementCount, request, data, index, current, toRead,
                          flushClosed, calls, kind, accepted>>
           /\ accepted[Len(log) + 1] \in Ops
           /\ HistoryTypeOK'
           /\ Len(log') = Len(log) + 1
           /\ log'[Len(log) + 1] = accepted[Len(log) + 1]
           /\ \A i \in 1 .. Len(log) : log'[i] = log[i]
<1>1. /\ pc'[t] \in {"flush", "flushClear"}
      /\ \A u \in Threads \ {t} : pc'[u] = pc[u]
      /\ UNCHANGED <<lockWord, elementCount, request, data, index, current, toRead,
                     flushClosed, calls, kind, accepted>>
  BY DEF RunsOne, RunsOwn, FlushReads, Move, queueVars, flushVars, offerVars, clientVars,
         DXInv, DXTypeOK
<1>2. accepted \in Seq(Ops) /\ log \in Seq(Ops)
  BY DEF DXInv, HistoryTypeOK
<1>3. accepted[Len(log) + 1] \in Ops
  BY <1>2, RunIsNext
<1>4. log' = Append(log, accepted[Len(log) + 1])
  BY RunIsNext
<1>5. HistoryTypeOK'
  BY <1>1, <1>2, <1>3, <1>4, AppendFacts DEF HistoryTypeOK
<1>6. QED
  BY <1>1, <1>2, <1>3, <1>4, <1>5, AppendFacts

LEMMA RunKeepsOwed ==
    ASSUME DXInv, Owed, NEW t \in Threads, RunsOne(t)
    PROVE  Owed'
<1>1. accepted \in Seq(Ops) /\ log \in Seq(Ops)
  BY DEF DXInv, HistoryTypeOK
<1>2. pc[t] \in OpenLabels /\ pc'[t] \in OpenLabels
  BY RunIsNext, RunFacts
<1>3. \A h \in Threads : pc'[h] \in HolderLabels => h = t
  BY <1>2, RunFacts DEF DXInv, MutualExclusion
<1>4. LogFollows'
  <2>1. LogFollows
    BY DEF Owed
  <2>2. Len(log') <= Len(accepted')
    BY <1>1, RunIsNext, RunFacts
  <2>3. ASSUME NEW i \in 1 .. Len(log') PROVE log'[i] = accepted'[i]
    <3>1. i \in 1 .. Len(log) \/ i = Len(log) + 1
      BY <1>1, RunFacts
    <3>2. QED
      BY <2>1, <3>1, RunFacts DEF LogFollows
  <2>4. QED
    BY <2>2, <2>3 DEF LogFollows
<1>5. Limit(t)' = Limit(t)
  BY RunFacts DEF Limit
<1>6. ~OwnFirst(t)' /\ Own(t)' = 0
  BY RunFacts DEF OwnFirst, Own
<1>7. Start(t)' = Start(t)
  <2>1. current[t] \in Nat
    BY DEF DXInv, DXTypeOK, QueueTypeOK
  <2>2. Own(t) = IF pc[t] = "own" THEN 1 ELSE 0
    BY RunIsNext DEF Own
  <2>3. Ran(t) = current[t]
    BY RunIsNext DEF Ran
  <2>4. Start(t) = Len(log) + Own(t) - Ran(t) /\ Start(t)' = Len(log') + Own(t)' - Ran(t)'
    BY DEF Start
  <2>5. Ran(t)' = current[t] + (IF pc[t] = "own" THEN 0 ELSE 1)
    BY <2>3, RunIsNext
  <2>6. Len(log') = Len(log) + 1 /\ Len(log) \in Nat
    BY <1>1, RunFacts
  <2>7. QED
    BY <1>6, <2>1, <2>2, <2>3, <2>4, <2>5, <2>6
<1>8. HolderOwes(t)'
  <2>1. Len(accepted) = Start(t) + Limit(t)
    BY <1>2 DEF Owed, HolderOwes
  <2>2. QED
    BY <1>2, <1>5, <1>6, <1>7, <2>1, RunFacts DEF HolderOwes
<1>9. SlotsHold(t)'
  <2>1. SlotsHold(t)
    BY <1>2 DEF Owed
  <2>2. \A i \in Slots : Ran(t)' <= i => Ran(t) <= i
    <3>1. Ran(t) \in Nat
      BY DEF Ran, DXInv, DXTypeOK, QueueTypeOK
    <3>2. Ran(t)' = Ran(t) \/ Ran(t)' = Ran(t) + 1
      BY <3>1, RunIsNext
    <3>3. QED
      BY <3>1, <3>2 DEF Slots
  <2>3. \A u \in Threads : OpOf(u)' = OpOf(u)
    BY RunFacts DEF OpOf
  <2>4. \A u \in Threads : pc'[u] \in ClaimLabels => pc'[u] = pc[u]
    BY <1>2, RunFacts
  <2>5. QED
    BY <1>7, <2>1, <2>2, <2>3, <2>4, RunFacts DEF SlotsHold
<1>10. QED
  BY <1>2, <1>3, <1>4, <1>8, <1>9 DEF Owed

(****************************************************************************)
(* The other steps accept nothing and run nothing; what is owed stays owed. *)
(****************************************************************************)

(* A step that leaves alone whatever Owed speaks of.                        *)
Calm ==
    /\ UNCHANGED <<data, index, accepted, log>>
    /\ \A i \in Slots : request'[i] => request[i]
    /\ \A u \in Threads :
          /\ pc'[u] \in HolderLabels <=> pc[u] \in HolderLabels
          /\ pc'[u] \in OpenLabels <=> pc[u] \in OpenLabels
          /\ pc'[u] \in ClaimLabels <=> pc[u] \in ClaimLabels
          /\ pc'[u] = "offerRequest" => pc[u] = "offerRequest"
          /\ OwnFirst(u)' <=> OwnFirst(u)
          /\ pc[u] \in HolderLabels => Ran(u)' = Ran(u) /\ Limit(u)' = Limit(u)
          /\ pc[u] \in HolderLabels \cup ClaimLabels => OpOf(u)' = OpOf(u)

LEMMA CalmKeepsOwed ==
    ASSUME Owed, Calm
    PROVE  Owed'
<1>1. /\ UNCHANGED <<data, index, accepted, log>>
      /\ \A i \in Slots : request'[i] => request[i]
  BY DEF Calm
<1>2. LogFollows'
  BY <1>1 DEF Owed, LogFollows
<1>3. ASSUME NEW h \in Threads, pc'[h] \in HolderLabels
      PROVE  /\ pc[h] \in HolderLabels
             /\ Start(h)' = Start(h) /\ Own(h)' = Own(h) /\ Limit(h)' = Limit(h)
  BY <1>1, <1>3 DEF Calm, Start, Own
<1>4. ASSUME NEW h \in Threads, pc'[h] \in HolderLabels
      PROVE  HolderOwes(h)'
  BY <1>1, <1>3, <1>4 DEF Calm, Owed, HolderOwes
<1>5. ASSUME NEW h \in Threads, pc'[h] \in OpenLabels
      PROVE  SlotsHold(h)'
  <2>1. pc[h] \in OpenLabels /\ SlotsHold(h)
    BY <1>5 DEF Calm, Owed
  <2>2. Start(h)' = Start(h) /\ Ran(h)' = Ran(h)
    BY <1>3, <1>5, <2>1 DEF Calm
  <2>3. \A u \in Threads : pc'[u] \in ClaimLabels =>
           pc[u] \in ClaimLabels /\ OpOf(u)' = OpOf(u)
           /\ (pc'[u] = "offerRequest" => pc[u] = "offerRequest")
    BY DEF Calm
  <2> HIDE DEF ClaimLabels
  <2>4. QED
    BY <1>1, <2>1, <2>2, <2>3 DEF SlotsHold
<1>6. (\A h \in Threads : pc'[h] \notin HolderLabels) => Len(log') = Len(accepted')
  BY <1>1 DEF Calm, Owed
<1>7. QED
  BY <1>2, <1>4, <1>5, <1>6 DEF Owed

LEMMA QuietKeepsOwed ==
    ASSUME DXInv, Owed, NEW t \in Threads, Quiet(t) \/ Begins(t),
           UNCHANGED historyVars
    PROVE  Owed'
<1> USE DEF DXInv, DXTypeOK, historyVars
<1>1. CASE Quiet(t)
  <2>1. \A u \in Threads \ {t} : pc'[u] = pc[u]
    BY <1>1 DEF Quiet
  <2>2. /\ UNCHANGED <<elementCount, request, data, index, current, toRead, flushClosed,
                      accepted, log, calls, kind>>
        /\ pc'[t] \in HolderLabels <=> pc[t] \in HolderLabels
        /\ pc'[t] \in OpenLabels <=> pc[t] \in OpenLabels
        /\ pc'[t] \notin ClaimLabels /\ pc[t] \notin ClaimLabels
        /\ pc'[t] # "flushClear" /\ pc[t] # "flushClear"
        /\ OwnFirst(t)' <=> OwnFirst(t)
    BY <1>1 DEF Quiet
  <2>3. Calm
    BY <2>1, <2>2 DEF Calm, OwnFirst, Ran, OpOf, Limit
  <2>4. QED
    BY <2>3, CalmKeepsOwed
<1>2. CASE Begins(t)
  <2>1. /\ pc[t] = "idle" /\ pc'[t] \notin HolderLabels \cup ClaimLabels
        /\ \A u \in Threads \ {t} : pc'[u] = pc[u] /\ calls'[u] = calls[u] /\ kind'[u] = kind[u]
        /\ UNCHANGED <<elementCount, request, data, index, current, toRead, flushClosed,
                       accepted, log>>
    BY <1>2 DEF Begins, Begin, Move, queueVars, flushVars
  <2>2. Calm
    BY <2>1 DEF Calm, OwnFirst, Ran, OpOf, Limit
  <2>3. QED
    BY <2>2, CalmKeepsOwed
<1>3. QED
  BY <1>1, <1>2

(* A thread that comes in for a critical section of its own owes nothing,   *)
(* and one that releases the lock has run what there was.                   *)
LEMMA LockKeepsOwed ==
    ASSUME DXInv, Owed, NEW t \in Threads, Wins(t, "set") \/ Releases(t),
           UNCHANGED historyVars
    PROVE  Owed'
<1> USE DEF historyVars
<1>1. LogFollows'
  BY DEF Owed, LogFollows
<1>2. CASE Wins(t, "set")
  <2>1. /\ ~lockWord /\ pc[t] = "set" /\ kind' = kind
        /\ pc' = [u \in Threads |-> IF u = t THEN "reset" ELSE pc[u]]
    BY <1>2 DEF Wins, TestAndSetWins, Move, clientVars
  <2>2. (\A h \in Threads : pc[h] \notin HolderLabels) /\ Len(log) = Len(accepted)
    BY <2>1, FreeMeansRun
  <2>3. pc'[t] = "reset" /\ \A h \in Threads : pc'[h] \in HolderLabels => h = t
    BY <2>1, <2>2 DEF DXInv, DXTypeOK
  <2>4. kind'[t] = "exclusive"
    BY <2>1 DEF DXInv, KindsOK, KindFits
  <2>5. ~OwnFirst(t)' /\ Own(t)' = 0
    BY <2>4 DEF OwnFirst, Own
  <2>6. HolderOwes(t)'
    BY <2>2, <2>3, <2>5 DEF HolderOwes, DXInv, HistoryTypeOK
  <2>7. QED
    BY <1>1, <2>3, <2>6 DEF Owed
<1>3. CASE Releases(t)
  <2>1. pc[t] = "unlock" /\ \A h \in Threads : pc'[h] \notin HolderLabels
    BY <1>3, OneHolder DEF Releases, Move, DXInv, DXTypeOK
  <2>2. HolderOwes(t) /\ Own(t) = 0
    BY <2>1 DEF Owed, Own, OwnFirst
  <2>3. Len(accepted) = Len(log)
    BY <2>1, <2>2 DEF HolderOwes, DXInv, HistoryTypeOK
  <2>4. QED
    BY <1>1, <2>1, <2>3 DEF Owed
<1>4. QED
  BY <1>2, <1>3

(* The opening of the queue: slot 0 is to come after all that was accepted. *)
LEMMA ResetKeepsOwed ==
    ASSUME DXInv, Owed, NEW t \in Threads, ResetCount(t),
           UNCHANGED historyVars, UNCHANGED clientVars
    PROVE  Owed'
<1> USE DEF historyVars, clientVars
<1>1. /\ pc[t] = "reset" /\ elementCount' = 0
      /\ pc' = [u \in Threads |-> IF u = t THEN "resetClosed" ELSE pc[u]]
      /\ UNCHANGED <<request, data, index, current, toRead, flushClosed>>
  BY DEF ResetCount, Move, flushVars, offerVars
<1>2. \A h \in Threads : h # t => pc[h] \notin HolderLabels /\ pc'[h] \notin HolderLabels
  BY <1>1, OneHolder DEF DXInv, DXTypeOK
<1>3. /\ \A i \in Slots : ~request[i]
      /\ \A u \in Threads : pc[u] \notin ClaimLabels
  BY <1>1, <1>2 DEF DXInv, SlotsOK, Sealed
<1>4. pc'[t] = "resetClosed" /\ current[t] = 0 /\ ~flushClosed[t]
  BY <1>1 DEF DXInv, DXTypeOK, LocalsOK
<1>5. OwnFirst(t)' = OwnFirst(t) /\ Own(t)' = Own(t) /\ Own(t) \in {0, 1}
  BY <1>1, <1>4 DEF OwnFirst, Own
<1>6. Limit(t)' = 0
  BY <1>1, <1>4, CapacityAssumption DEF Limit, Lesser
<1>7. Len(log) \in Nat /\ Start(t)' = Len(log) + Own(t)
  BY <1>1, <1>4, <1>5 DEF Start, Ran, DXInv, HistoryTypeOK
<1>8. HolderOwes(t)'
  <2>1. HolderOwes(t)
    BY <1>1 DEF Owed
  <2>2. OpOf(t)' = OpOf(t)
    BY DEF OpOf
  <2>3. QED
    BY <1>1, <1>4, <1>5, <1>6, <1>7, <2>1, <2>2 DEF HolderOwes
<1>9. SlotsHold(t)'
  <2>1. \A u \in Threads : pc'[u] \notin ClaimLabels
    BY <1>1, <1>3, <1>4 DEF DXInv, DXTypeOK
  <2>2. QED
    BY <1>1, <1>3, <1>5, <1>7, <2>1 DEF SlotsHold
<1>10. LogFollows'
  BY DEF Owed, LogFollows
<1>11. QED
  BY <1>2, <1>4, <1>8, <1>9, <1>10 DEF Owed

(* An offer fills and publishes the slot that is promised to its operation. *)
LEMMA OfferKeepsOwed ==
    ASSUME DXInv, Owed, NEW t \in Threads, Offers(t),
           UNCHANGED historyVars, UNCHANGED clientVars
    PROVE  Owed'
<1> USE CapacityAssumption
<1> USE DEF historyVars, clientVars
<1>1. LogFollows'
  BY DEF Owed, LogFollows
<1>2. \A u \in Threads : OpOf(u)' = OpOf(u)
  BY DEF OpOf
<1>3. CASE OfferOverflows(t)
  <2>1. /\ pc[t] = "offerAdd" /\ pc'[t] = "offerClose"
        /\ \A u \in Threads \ {t} : pc'[u] = pc[u]
        /\ elementCount >= CAPACITY /\ elementCount' = elementCount + 1
        /\ UNCHANGED <<request, data, index, current, toRead, flushClosed>>
    BY <1>3 DEF OfferOverflows, Move, flushVars, offerVars, DXInv, DXTypeOK
  <2>2. \A u \in Threads : Limit(u)' = Limit(u)
    BY <2>1 DEF Limit, Lesser, DXInv, DXTypeOK, QueueTypeOK
  <2>3. \A u \in Threads : Ran(u)' = Ran(u) /\ (OwnFirst(u)' <=> OwnFirst(u))
    BY <2>1 DEF Ran, OwnFirst
  <2>4. Calm
    BY <1>2, <2>1, <2>2, <2>3 DEF Calm
  <2>5. QED
    BY <2>4, CalmKeepsOwed
<1>4. ASSUME NEW h \in Threads, pc[h] \in HolderLabels, pc'[h] = pc[h], HolderOwes(h),
             UNCHANGED <<elementCount, current, toRead, flushClosed>>
      PROVE  /\ HolderOwes(h)'
             /\ Start(h)' = Start(h) /\ Ran(h)' = Ran(h)
  <2>1. Limit(h)' = Limit(h) /\ OwnFirst(h)' = OwnFirst(h) /\ Own(h)' = Own(h)
        /\ Ran(h)' = Ran(h) /\ Start(h)' = Start(h)
    BY <1>4 DEF Limit, OwnFirst, Own, Ran, Start
  <2>2. QED
    BY <1>2, <1>4, <2>1 DEF HolderOwes
<1>5. CASE OfferWritesData(t, OpOf(t))
  <2>1. /\ pc[t] = "offerData" /\ pc'[t] = "offerRequest"
        /\ \A u \in Threads \ {t} : pc'[u] = pc[u]
        /\ data' = [data EXCEPT ![index[t]] = OpOf(t)]
        /\ UNCHANGED <<elementCount, request, index, current, toRead, flushClosed>>
    BY <1>5 DEF OfferWritesData, Move, flushVars, offerVars, DXInv, DXTypeOK
  <2>2. ASSUME NEW h \in Threads, pc'[h] \in OpenLabels
        PROVE  SlotsHold(h)'
    <3>1. pc'[h] = pc[h] /\ pc[h] \in OpenLabels /\ h # t
      BY <2>1, <2>2
    <3>2. SlotsHold(h) /\ OpenTo(h) /\ HolderOwes(h)
      BY <3>1 DEF Owed, DXInv, SlotsOK
    <3>3. Start(h)' = Start(h) /\ Ran(h)' = Ran(h)
      BY <1>4, <2>1, <3>1, <3>2
    <3>4. ~request[index[t]] /\ \A u \in Threads :
             pc[u] \in ClaimLabels /\ u # t => index[u] # index[t]
      BY <2>1, <3>2 DEF OpenTo
    <3>5. data'[index[t]] = OpOf(t) /\ \A i \in Slots \ {index[t]} : data'[i] = data[i]
      BY <2>1 DEF DXInv, DXTypeOK, QueueTypeOK
    <3>6. \A u \in Threads : index[u] \in Slots
      BY DEF DXInv, DXTypeOK, QueueTypeOK
    <3>7. \A i \in Slots : request[i] /\ Ran(h) <= i => data'[i] = accepted[Start(h) + i + 1]
      BY <3>2, <3>4, <3>5 DEF SlotsHold
    <3>8. ASSUME NEW u \in Threads, pc'[u] \in ClaimLabels
          PROVE  /\ accepted[Start(h) + index[u] + 1] = OpOf(u)
                 /\ pc'[u] = "offerRequest" => data'[index[u]] = OpOf(u)
      <4>1. CASE u = t
        BY <2>1, <3>2, <3>5, <4>1 DEF SlotsHold
      <4>2. CASE u # t
        BY <2>1, <3>2, <3>4, <3>5, <3>6, <3>8, <4>2 DEF SlotsHold
      <4>3. QED
        BY <4>1, <4>2
    <3>9. QED
      BY <1>2, <2>1, <3>2, <3>3, <3>7, <3>8 DEF SlotsHold
  <2>3. \A h \in Threads : pc'[h] \in HolderLabels => pc'[h] = pc[h]
    BY <2>1
  <2>4. \A h \in Threads : pc'[h] \in HolderLabels => HolderOwes(h)'
    BY <1>4, <2>1, <2>3 DEF Owed
  <2>5. (\A h \in Threads : pc'[h] \notin HolderLabels) => Len(log') = Len(accepted')
    BY <2>1 DEF Owed
  <2>6. QED
    BY <1>1, <2>2, <2>4, <2>5 DEF Owed
<1>6. CASE \E l \in {"idle", "await"} : OfferPublishes(t, l)
  <2>1. /\ pc[t] = "offerRequest" /\ pc'[t] \in {"idle", "await"}
        /\ \A u \in Threads \ {t} : pc'[u] = pc[u]
        /\ request' = [request EXCEPT ![index[t]] = TRUE]
        /\ \A u \in Threads \ {t} : index'[u] = index[u]
        /\ UNCHANGED <<elementCount, data, current, toRead, flushClosed>>
    BY <1>6 DEF OfferPublishes, Move, flushVars, offerVars, DXInv, DXTypeOK, QueueTypeOK
  <2>2. ASSUME NEW h \in Threads, pc'[h] \in OpenLabels
        PROVE  SlotsHold(h)'
    <3>1. pc'[h] = pc[h] /\ pc[h] \in OpenLabels /\ h # t
      BY <2>1, <2>2
    <3>2. SlotsHold(h) /\ HolderOwes(h)
      BY <3>1 DEF Owed
    <3>3. Start(h)' = Start(h) /\ Ran(h)' = Ran(h)
      BY <1>4, <2>1, <3>1, <3>2
    <3>4. data[index[t]] = accepted[Start(h) + index[t] + 1]
      BY <2>1, <3>2 DEF SlotsHold
    <3>5. \A i \in Slots : request'[i] => request[i] \/ i = index[t]
      BY <2>1 DEF DXInv, DXTypeOK, QueueTypeOK
    <3>6. \A i \in Slots : request'[i] /\ Ran(h) <= i => data[i] = accepted[Start(h) + i + 1]
      BY <3>2, <3>4, <3>5 DEF SlotsHold
    <3>7. \A u \in Threads : pc'[u] \in ClaimLabels => u # t
      BY <2>1
    <3>8. QED
      BY <1>2, <2>1, <3>2, <3>3, <3>6, <3>7 DEF SlotsHold
  <2>3. \A h \in Threads : pc'[h] \in HolderLabels => pc'[h] = pc[h]
    BY <2>1
  <2>4. \A h \in Threads : pc'[h] \in HolderLabels => HolderOwes(h)'
    BY <1>4, <2>1, <2>3 DEF Owed
  <2>5. (\A h \in Threads : pc'[h] \notin HolderLabels) => Len(log') = Len(accepted')
    BY <2>1 DEF Owed
  <2>6. QED
    BY <1>1, <2>2, <2>4, <2>5 DEF Owed
<1>7. QED
  BY <1>3, <1>5, <1>6 DEF Offers

(* The flush: its last step is taken when every slot of the opening is run. *)
LEMMA FlushKeepsOwed ==
    ASSUME DXInv, Owed, NEW t \in Threads, Flushes(t),
           UNCHANGED historyVars, UNCHANGED clientVars
    PROVE  Owed'
<1> USE CapacityAssumption
<1> USE DEF historyVars, clientVars
<1>1. /\ pc[t] \in {"flush"} \cup FlushLabels
      /\ pc'[t] \in FlushLabels \cup {"unlock"}
      /\ \A u \in Threads \ {t} : pc'[u] = pc[u] /\ current'[u] = current[u]
                /\ toRead'[u] = toRead[u] /\ flushClosed'[u] = flushClosed[u]
      /\ UNCHANGED <<data, index>>
  BY DEF Flushes, FlushStarts, FlushClears, FlushRereads, FlushSwaps, FlushReturns,
         Move, queueVars, offerVars, DXInv, DXTypeOK, QueueTypeOK
<1>2. \A h \in Threads : h # t => pc[h] \notin HolderLabels
  BY <1>1, OneHolder DEF DXInv
<1>3. \A u \in Threads : OpOf(u)' = OpOf(u) /\ (OwnFirst(u)' <=> OwnFirst(u))
  BY <1>1 DEF OpOf, OwnFirst
<1>4. ASSUME \A i \in Slots : request'[i] => request[i],
             pc'[t] \in FlushLabels, Ran(t)' = Ran(t), Limit(t)' = Limit(t)
      PROVE  Owed'
  <2>1. Calm
    BY <1>1, <1>2, <1>3, <1>4 DEF Calm
  <2>2. QED
    BY <2>1, CalmKeepsOwed
<1>5. OpenTo(t)
  BY <1>1 DEF DXInv, SlotsOK
<1>6. CASE FlushStarts(t)
  <2>1. /\ pc[t] = "flush" /\ pc'[t] = "flushLoop" /\ current'[t] = 0
        /\ toRead'[t] = Lesser(elementCount, CAPACITY)
        /\ flushClosed'[t] = (elementCount >= CAPACITY)
        /\ UNCHANGED <<elementCount, request>>
    BY <1>6 DEF FlushStarts, Move, queueVars, DXInv, DXTypeOK, QueueTypeOK
  <2>2. current[t] = 0 /\ ~flushClosed[t]
    BY <2>1 DEF DXInv, LocalsOK
  <2>3. Limit(t)' = Limit(t)
    BY <2>1, <2>2 DEF Limit
  <2>4. QED
    BY <1>4, <2>1, <2>2, <2>3 DEF Ran
<1>7. CASE FlushClears(t)
  <2>1. /\ pc[t] = "flushClear" /\ pc'[t] = "flushLoop" /\ current'[t] = current[t] + 1
        /\ request' = [request EXCEPT ![current[t]] = FALSE]
        /\ UNCHANGED <<elementCount, toRead, flushClosed>>
    BY <1>7 DEF FlushClears, Move, DXInv, DXTypeOK, QueueTypeOK
  <2>2. \A i \in Slots : request'[i] => request[i]
    BY <2>1 DEF DXInv, DXTypeOK, QueueTypeOK
  <2>3. QED
    BY <1>4, <2>1, <2>2 DEF Ran, Limit
<1>8. CASE FlushRereads(t)
  <2>1. /\ pc[t] = "flushLoop" /\ pc'[t] \in {"flushLoop", "flushSwap"} /\ ~flushClosed[t]
        /\ UNCHANGED <<elementCount, request, current>>
        /\ \/ toRead'[t] = toRead[t] /\ flushClosed'[t] = flushClosed[t]
           \/ toRead'[t] = Lesser(elementCount, CAPACITY)
    BY <1>8 DEF FlushRereads, Move, queueVars, DXInv, DXTypeOK, QueueTypeOK
  <2>2. Limit(t)' = Limit(t)
    BY <2>1 DEF Limit
  <2>3. QED
    BY <1>4, <2>1, <2>2 DEF Ran
<1>9. CASE FlushSwaps(t)
  <2>1. /\ pc[t] = "flushSwap" /\ pc'[t] = "flushLoop"
        /\ toRead'[t] = Lesser(elementCount, CAPACITY) /\ flushClosed'[t]
        /\ UNCHANGED <<request, current>>
    BY <1>9 DEF FlushSwaps, Move, DXInv, DXTypeOK, QueueTypeOK
  <2>2. Limit(t)' = Limit(t)
    BY <2>1 DEF Limit, DXInv, LocalsOK
  <2>3. QED
    BY <1>4, <2>1, <2>2 DEF Ran
<1>10. CASE FlushReturns(t, "unlock")
  <2>1. /\ pc[t] = "flushLoop" /\ pc'[t] = "unlock"
        /\ current[t] >= toRead[t] /\ flushClosed[t]
    BY <1>10 DEF FlushReturns, Move, DXInv, DXTypeOK
  <2>2. Limit(t) = toRead[t] /\ Ran(t) = current[t] /\ Own(t) = 0 /\ Own(t)' = 0
    BY <2>1 DEF Limit, Ran, Own, OwnFirst
  <2>3. current[t] = toRead[t] /\ current[t] \in Nat
    BY <1>5, <2>1, <2>2 DEF OpenTo, DXInv, DXTypeOK, QueueTypeOK
  <2>4. HolderOwes(t)
    BY <2>1 DEF Owed
  <2>5. Len(accepted) = Len(log) /\ Len(log) \in Nat
    BY <2>1, <2>2, <2>3, <2>4 DEF HolderOwes, Start, DXInv, HistoryTypeOK
  <2>6. HolderOwes(t)'
    BY <2>1, <2>2, <2>5 DEF HolderOwes, Own
  <2>7. LogFollows'
    BY DEF Owed, LogFollows
  <2>8. \A h \in Threads : h # t => pc'[h] \notin HolderLabels
    BY <1>1, <1>2
  <2>9. QED
    BY <2>1, <2>6, <2>7, <2>8 DEF Owed
<1>11. QED
  BY <1>6, <1>7, <1>8, <1>9, <1>10 DEF Flushes

LEMMA OwedStep ==
    ASSUME DXInv, Owed, NEW t \in Threads, DXHStep(t)
    PROVE  Owed'
BY AcceptKeepsOwed, RunKeepsOwed, QuietKeepsOwed, LockKeepsOwed, ResetKeepsOwed,
   OfferKeepsOwed, FlushKeepsOwed DEF DXHStep, Works, historyVars

(****************************************************************************)
(* A critical section and a read begin when all that was accepted has run,  *)
(* and the thread they belong to hands nothing over while they last.        *)
(****************************************************************************)
LEMMA OwnHaveRunStep ==
    ASSUME DXInv, Owed, OwnHaveRun, NEW t \in Threads, DXHStep(t)
    PROVE  OwnHaveRun'
<1>0. accepted \in Seq(Ops) /\ log \in Seq(Ops)
  BY DEF DXInv, HistoryTypeOK
<1>1. CASE Accepts(t)
  <2>1. \A u \in Threads : ~(\/ pc'[u] \in HolderLabels /\ kind'[u] = "exclusive"
                             \/ pc'[u] \in {"lower", "reading"}) \/ u # t
    BY <1>1, AcceptFacts
  <2>2. ASSUME NEW u \in Threads, u # t, NEW i \in 1 .. Len(accepted'),
               accepted'[i].thread = u
        PROVE  i \in 1 .. Len(accepted) /\ accepted[i].thread = u
    <3>1. OpOf(t).thread = t
      BY DEF OpOf
    <3>2. QED
      BY <1>0, <1>1, <2>2, <3>1, AcceptFacts
  <2>3. QED
    BY <1>1, <2>1, <2>2, AcceptFacts DEF OwnHaveRun
<1>2. CASE RunsOne(t)
  <2>1. Len(log) <= Len(log') /\ Len(log) \in Nat /\ Len(log') \in Nat /\ accepted' = accepted
    BY <1>0, <1>2, RunFacts
  <2>2. \A u \in Threads : pc'[u] \in HolderLabels => pc[u] \in HolderLabels
    BY <1>2, RunIsNext, RunFacts
  <2>3. \A u \in Threads : pc'[u] \in {"lower", "reading"} => pc'[u] = pc[u]
    BY <1>2, RunFacts
  <2>4. kind' = kind
    BY <1>2, RunFacts
  <2>5. ASSUME NEW u \in Threads,
               \/ pc'[u] \in HolderLabels /\ kind'[u] = "exclusive"
               \/ pc'[u] \in {"lower", "reading"},
               NEW i \in 1 .. Len(accepted'), accepted'[i].thread = u
        PROVE  i <= Len(log')
    <3>1. i <= Len(log)
      BY <2>1, <2>2, <2>3, <2>4, <2>5 DEF OwnHaveRun
    <3>2. i \in Int
      OBVIOUS
    <3>3. QED
      BY <2>1, <3>1, <3>2
  <2>6. QED
    BY <2>5 DEF OwnHaveRun
<1>3. CASE Works(t)
  <2>1. accepted' = accepted /\ log' = log
    BY <1>3 DEF Works
  <2>2. CASE Len(log) = Len(accepted)
    BY <1>0, <2>1, <2>2 DEF OwnHaveRun
  <2>3. CASE Len(log) # Len(accepted)
    <3>1. lockWord
      BY <2>3, FreeMeansRun
    <3>2. ~Wins(t, "set")
      BY <3>1 DEF Wins, TestAndSetWins
    <3>3. \A u \in Threads \ {t} : pc'[u] = pc[u] /\ kind'[u] = kind[u]
      BY <1>3, <3>2 DEF Works, Quiet, Releases, Offers, OfferOverflows, OfferWritesData,
            OfferPublishes, ResetCount, Flushes, FlushStarts, FlushClears, FlushRereads,
            FlushSwaps, FlushReturns, Begins, Begin, Move, clientVars, DXInv, DXTypeOK
    <3>4. /\ pc'[t] \in {"lower", "reading"} => pc[t] \in {"lower", "reading"}
          /\ pc'[t] \in HolderLabels => pc[t] \in HolderLabels /\ kind'[t] = kind[t]
      <4>1. CASE Quiet(t) \/ Begins(t) \/ Releases(t)
        BY <3>1, <4>1 DEF Quiet, Begins, Begin, Releases, Move, clientVars, DXInv, DXTypeOK
      <4>2. CASE Offers(t) /\ UNCHANGED clientVars
        BY <4>2 DEF Offers, OfferOverflows, OfferWritesData, OfferPublishes, Move,
                    clientVars, DXInv, DXTypeOK
      <4>3. CASE (ResetCount(t) \/ Flushes(t)) /\ UNCHANGED clientVars
        BY <4>3 DEF ResetCount, Flushes, FlushStarts, FlushClears, FlushRereads,
                    FlushSwaps, FlushReturns, Move, clientVars, DXInv, DXTypeOK
      <4>4. QED
        BY <1>3, <3>2, <4>1, <4>2, <4>3 DEF Works
    <3>5. QED
      BY <2>1, <3>3, <3>4 DEF OwnHaveRun
  <2>4. QED
    BY <2>2, <2>3
<1>4. QED
  BY <1>1, <1>2, <1>3 DEF DXHStep

(****************************************************************************)
(* A call hands over one operation, numbered by the call.                   *)
(****************************************************************************)
LEMMA AcceptedOnceStep ==
    ASSUME DXInv, AcceptedOnce, Owed, NEW t \in Threads, DXHStep(t)
    PROVE  AcceptedOnce'
<1>0. /\ accepted \in Seq(Ops) /\ calls \in [Threads -> 0 .. MaxCalls]
      /\ \A i \in 1 .. Len(accepted) :
            accepted[i].thread \in Threads /\ accepted[i].call \in 1 .. MaxCalls
  <2>1. accepted \in Seq(Ops)
    BY DEF DXInv, HistoryTypeOK
  <2>2. \A i \in 1 .. Len(accepted) : accepted[i] \in Ops
    BY <2>1
  <2>3. QED
    BY <2>1, <2>2 DEF DXInv, DXTypeOK, Ops
<1>1. CASE Accepts(t)
  <2>1. OpOf(t).thread = t /\ OpOf(t).call = calls[t]
    BY DEF OpOf
  <2>2. pc[t] \in NotAccepted /\ pc'[t] \notin NotAccepted
    BY <1>1, AcceptFacts DEF NotAccepted
  <2>3. \A i \in 1 .. Len(accepted) : accepted[i] # OpOf(t)
    BY <2>1, <2>2 DEF AcceptedOnce
  <2>4. \A i \in 1 .. Len(accepted') : i \in 1 .. Len(accepted) \/ i = Len(accepted) + 1
    BY <1>0, <1>1, AcceptFacts
  <2>5. ASSUME NEW i \in 1 .. Len(accepted')
        PROVE  /\ accepted'[i].call <= calls'[accepted'[i].thread]
               /\ accepted'[i].call = calls'[accepted'[i].thread] =>
                     pc'[accepted'[i].thread] \notin NotAccepted
    <3>1. CASE i = Len(accepted) + 1
      BY <1>0, <1>1, <2>1, <2>2, <3>1, AcceptFacts
    <3>2. CASE i \in 1 .. Len(accepted)
      <4>1. accepted'[i] = accepted[i] /\ calls' = calls /\ accepted[i].thread \in Threads
        BY <1>0, <1>1, <3>2, AcceptFacts
      <4>2. \A u \in Threads : pc'[u] \in NotAccepted => pc[u] \in NotAccepted
        BY <1>1, <2>2, AcceptFacts
      <4>3. /\ accepted[i].call <= calls[accepted[i].thread]
            /\ accepted[i].call = calls[accepted[i].thread] =>
                  pc[accepted[i].thread] \notin NotAccepted
        BY <3>2 DEF AcceptedOnce
      <4>4. QED
        BY <4>1, <4>2, <4>3
    <3>3. QED
      BY <2>4, <3>1, <3>2
  <2>6. ASSUME NEW i \in 1 .. Len(accepted'), NEW j \in 1 .. Len(accepted'),
               accepted'[i] = accepted'[j]
        PROVE  i = j
    <3>1. CASE i \in 1 .. Len(accepted) /\ j \in 1 .. Len(accepted)
      BY <1>1, <2>6, <3>1, AcceptFacts DEF AcceptedOnce
    <3>2. QED
      BY <1>1, <2>3, <2>4, <2>6, <3>1, AcceptFacts
  <2>7. ASSUME NEW i \in 1 .. Len(accepted'), NEW j \in 1 .. Len(accepted'),
               i < j, accepted'[i].thread = accepted'[j].thread
        PROVE  accepted'[i].call < accepted'[j].call
    <3>1. i \in 1 .. Len(accepted) /\ accepted'[i] = accepted[i]
      BY <1>0, <1>1, <2>4, <2>7, AcceptFacts
    <3>2. CASE j \in 1 .. Len(accepted)
      <4>1. accepted'[j] = accepted[j]
        BY <1>0, <1>1, <3>2, AcceptFacts
      <4>2. QED
        BY <2>7, <3>1, <3>2, <4>1 DEF AcceptedOnce
    <3>3. CASE j = Len(accepted) + 1
      <4>1. accepted'[j] = OpOf(t)
        BY <1>0, <1>1, <3>3, AcceptFacts
      <4>2. accepted[i].call <= calls[t] /\ accepted[i].call # calls[t]
        BY <2>1, <2>2, <2>7, <3>1, <4>1 DEF AcceptedOnce
      <4>3. accepted[i].call \in Nat /\ calls[t] \in Nat
        BY <1>0, <3>1, MaxCallsAssumption
      <4>4. QED
        BY <2>1, <3>1, <4>1, <4>2, <4>3
    <3>4. QED
      BY <2>4, <3>2, <3>3
  <2>8. QED
    BY <2>5, <2>6, <2>7 DEF AcceptedOnce
<1>2. CASE ~Accepts(t)
  <2>1. accepted' = accepted
    BY <1>2 DEF DXHStep, RunsOne, Works
  <2>2. CASE Begins(t)
    <3>1. calls[t] < MaxCalls
      BY <1>2, <2>2 DEF DXHStep, RunsOne, Works, Begins, Begin, RunsOwn, FlushReads, Quiet,
            Wins, TestAndSetWins, Releases, Offers, OfferOverflows, OfferWritesData,
            OfferPublishes, ResetCount, Flushes, FlushStarts, FlushClears, FlushRereads,
            FlushSwaps, FlushReturns, Move
    <3>2. /\ calls'[t] = calls[t] + 1
          /\ \A u \in Threads \ {t} : calls'[u] = calls[u] /\ pc'[u] = pc[u]
      BY <1>0, <2>2, <3>1 DEF Begins, Begin, Move, DXInv, DXTypeOK
    <3>3. \A i \in 1 .. Len(accepted) : accepted[i].call <= calls[accepted[i].thread]
      BY DEF AcceptedOnce
    <3>4. \A i \in 1 .. Len(accepted) : accepted[i].thread = t => accepted[i].call < calls'[t]
      BY <1>0, <3>2, <3>3
    <3>5. ASSUME NEW i \in 1 .. Len(accepted)
          PROVE  /\ accepted[i].call <= calls'[accepted[i].thread]
                 /\ accepted[i].call = calls'[accepted[i].thread] =>
                       pc'[accepted[i].thread] \notin NotAccepted
      <4>1. accepted[i].thread \in Threads /\ accepted[i].call \in 1 .. MaxCalls
        BY <1>0
      <4>2. CASE accepted[i].thread = t
        BY <1>0, <3>2, <3>4, <4>1, <4>2
      <4>3. CASE accepted[i].thread # t
        BY <3>2, <4>1, <4>3 DEF AcceptedOnce
      <4>4. QED
        BY <4>2, <4>3
    <3>6. QED
      BY <2>1, <3>5 DEF AcceptedOnce
  <2>3. CASE ~Begins(t)
    <3>1. calls' = calls /\ \A u \in Threads \ {t} : pc'[u] = pc[u]
      BY <1>2, <2>3 DEF DXHStep, RunsOne, Works, RunsOwn, FlushReads, Quiet,
            Wins, TestAndSetWins, Releases, Offers, OfferOverflows, OfferWritesData,
            OfferPublishes, ResetCount, Flushes, FlushStarts, FlushClears, FlushRereads,
            FlushSwaps, FlushReturns, Move, clientVars, DXInv, DXTypeOK
    <3>2. pc'[t] \in NotAccepted => pc[t] \in NotAccepted
      <4>1. CASE Quiet(t) \/ Wins(t, "set") \/ Releases(t) \/ Offers(t) \/ ResetCount(t)
        BY <4>1 DEF Quiet, Wins, TestAndSetWins, Releases, Offers, OfferOverflows,
              OfferWritesData, OfferPublishes, ResetCount, Move, NotAccepted, DXInv, DXTypeOK
      <4>2. CASE RunsOne(t)
        BY <4>2, RunFacts DEF NotAccepted
      <4>3. CASE Flushes(t)
        BY <4>3 DEF Flushes, FlushStarts, FlushClears, FlushRereads, FlushSwaps,
              FlushReturns, Move, NotAccepted, DXInv, DXTypeOK
      <4>4. QED
        BY <1>2, <2>3, <4>1, <4>2, <4>3 DEF DXHStep, Works
    <3>3. QED
      BY <1>0, <2>1, <3>1, <3>2 DEF AcceptedOnce
  <2>4. QED
    BY <2>2, <2>3
<1>3. QED
  BY <1>1, <1>2

(* A move within a call keeps to the kind of the call.                      *)
LEMMA KindsMove ==
    ASSUME DXTypeOK, KindsOK, NEW t \in Threads, NEW from, NEW to, Move(t, from, to),
           kind' = kind, KindFits(from, kind[t]) => KindFits(to, kind[t])
    PROVE  KindsOK'
BY DEF DXTypeOK, KindsOK, Move, KindFits

LEMMA HistoryTypeStep ==
    ASSUME DXInv, Owed, NEW t \in Threads, DXHStep(t)
    PROVE  HistoryTypeOK'
<1>1. CASE Accepts(t)
  BY <1>1, AcceptFacts
<1>2. CASE RunsOne(t)
  BY <1>2, RunFacts
<1>3. CASE Works(t)
  BY <1>3 DEF Works, DXInv, HistoryTypeOK
<1>4. QED
  BY <1>1, <1>2, <1>3 DEF DXHStep

(****************************************************************************)
(* What follows.                                                            *)
(****************************************************************************)
LEMMA OwedInOrder ==
    ASSUME HistoryTypeOK, Owed
    PROVE  RunInOrder
BY DEF HistoryTypeOK, Owed, LogFollows, RunInOrder, IsPrefix

LEMMA FreeLogIsAccepted ==
    ASSUME DXInv, Owed, ~lockWord
    PROVE  log = accepted
<1>1. log \in Seq(Ops) /\ accepted \in Seq(Ops)
  BY DEF DXInv, HistoryTypeOK
<1>2. Len(log) = Len(accepted)
  BY FreeMeansRun
<1>3. \A i \in 1 .. Len(log) : log[i] = accepted[i]
  BY DEF Owed, LogFollows
<1>4. QED
  BY <1>1, <1>2, <1>3
=============================================================================
