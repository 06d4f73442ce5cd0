----------------------------- MODULE QDLockProofs ----------------------------
(****************************************************************************)
(* Proofs about the queue-delegation lock, for any set of threads and any   *)
(* capacity of the queue. Of QDLock, whose clients never stop calling: the  *)
(* types, mutual exclusion, and that the queue is sealed and empty whenever *)
(* the lock is free. Of QDLockHistory, for any number of calls: operations  *)
(* run once each, in the order of their acceptance, none is left behind,    *)
(* and the lock implements the delegation service of Delegation.            *)
(****************************************************************************)
EXTENDS QDLockHistory, DXLockProofs

USE DEF Labels, HolderLabels, ClaimLabels, OpenLabels, FlushLabels, InsideLabels

(****************************************************************************)
(* The steps of this lock are steps of a queue-delegation lock.             *)
(****************************************************************************)
LEMMA CallBegins ==
    ASSUME NEW t \in Threads, Call(t)
    PROVE  Begins(t)
<1>1. PICK k \in Kinds : Begin(t, k, IF k = "exclusive" THEN "spin" ELSE "look")
  BY DEF Call
<1>2. (IF k = "exclusive" THEN "spin" ELSE "look") \in {"spin", "look"}
  OBVIOUS
<1>3. QED
  BY <1>1, <1>2 DEF Call, Begins, offerVars

LEMMA AcceptStepIs ==
    ASSUME NEW t \in Threads, AcceptStep(t)
    PROVE  \/ Wins(t, "try")
           \/ OfferClaims(t) /\ UNCHANGED <<lockWord, clientVars>>
BY DEF AcceptStep, TryWins, OfferIsAccepted, Wins, offerVars

LEMMA RunStepIs ==
    ASSUME NEW t \in Threads, RunStep(t)
    PROVE  \/ RunsOwn(t) /\ RunOwn(t)
           \/ FlushReads(t) /\ FlushRuns(t) /\ UNCHANGED <<lockWord, clientVars>>
BY DEF RunStep, RunOwn, RunsOwn, FlushRuns, offerVars

LEMMA QuietStepIs ==
    ASSUME DXTypeOK, NEW t \in Threads, QuietStep(t)
    PROVE  \/ Quiet(t) \/ Wins(t, "set") \/ Releases(t)
           \/ /\ Offers(t) \/ ResetCount(t) \/ Flushes(t)
              /\ UNCHANGED <<lockWord, clientVars>>
<1> USE DEF queueVars, offerVars, flushVars, clientVars
<1>0. closed \in BOOLEAN
  BY DEF DXTypeOK, QueueTypeOK
<1>1. CASE LookFree(t) \/ LookLocked(t) \/ TryLoses(t) \/ SpinEnds(t) \/ SetLoses(t)
           \/ LeaveCritical(t) \/ Await(t)
  <2>1. /\ UNCHANGED <<lockWord, calls, kind, elementCount, request, data, index,
                       current, toRead, flushClosed>>
        /\ closed' = closed
    BY <1>1 DEF LookFree, LookLocked, TryLoses, SpinEnds, SetLoses, LeaveCritical, Await,
                SeesFree, SeesLocked, TestAndSetLoses
  <2>2. \/ QuietMove(t, "look", "try") \/ QuietMove(t, "look", "offer")
        \/ QuietMove(t, "try", "look") \/ QuietMove(t, "spin", "set")
        \/ QuietMove(t, "set", "spin") \/ QuietMove(t, "critical", "flush")
        \/ QuietMove(t, "await", "idle")
    BY <1>1 DEF LookFree, LookLocked, TryLoses, SpinEnds, SetLoses, LeaveCritical, Await,
                SeesFree, SeesLocked, TestAndSetLoses, QuietMove, NotAccepted
  <2>3. QED
    BY <1>0, <2>1, <2>2, MoveIsQuiet
<1>2. CASE Reset(t)
  <2>1. CASE ResetCount(t)
    BY <1>2, <2>1 DEF Reset
  <2>2. CASE ResetClosed(t, IF kind[t] = "exclusive" THEN "critical" ELSE "own")
    <3>1. /\ UNCHANGED <<lockWord, calls, kind, elementCount, request, data, index,
                         current, toRead, flushClosed>>
          /\ closed' = FALSE
      BY <1>2, <2>2 DEF Reset, ResetClosed
    <3>2. QuietMove(t, "resetClosed", IF kind[t] = "exclusive" THEN "critical" ELSE "own")
      BY <2>2 DEF ResetClosed, QuietMove, NotAccepted
    <3>3. QED
      BY <3>1, <3>2, MoveIsQuiet
  <2>3. QED
    BY <1>2, <2>1, <2>2 DEF Reset
<1>3. CASE OfferFails(t)
  <2>1. /\ UNCHANGED <<lockWord, calls, kind, elementCount, request, data, index,
                       current, toRead, flushClosed>>
        /\ closed' = closed \/ closed' = TRUE
    BY <1>3 DEF OfferFails, OfferSeesClosed, OfferCloses
  <2>2. AfterFailure(t) \in {"offer", "look"}
    BY DEF AfterFailure
  <2>3. \/ QuietMove(t, "offer", AfterFailure(t))
        \/ QuietMove(t, "offerClose", AfterFailure(t))
    BY <1>3, <2>2 DEF OfferFails, OfferSeesClosed, OfferCloses, QuietMove, NotAccepted
  <2>4. QED
    BY <1>0, <2>1, <2>3, MoveIsQuiet
<1>4. CASE OfferGoesOn(t)
  <2>1. CASE OfferSeesOpen(t)
    <3>1. /\ UNCHANGED <<lockWord, calls, kind, elementCount, request, data, index,
                         current, toRead, flushClosed>>
          /\ closed' = closed
      BY <1>4, <2>1 DEF OfferGoesOn, OfferSeesOpen
    <3>2. QuietMove(t, "offer", "offerAdd")
      BY <2>1 DEF OfferSeesOpen, QuietMove, NotAccepted
    <3>3. QED
      BY <1>0, <3>1, <3>2, MoveIsQuiet
  <2>2. CASE OfferOverflows(t) \/ OfferWritesData(t, OpOf(t))
    BY <1>4, <2>2 DEF OfferGoesOn, Offers
  <2>3. QED
    BY <1>4, <2>1, <2>2 DEF OfferGoesOn
<1>5. CASE OfferReturns(t)
  <2>1. Delegated(t) \in {"idle", "await"}
    BY DEF Delegated
  <2>2. QED
    BY <1>5, <2>1 DEF OfferReturns, Offers
<1>6. CASE FlushGoesOn(t) \/ Flushed(t)
  BY <1>6 DEF FlushGoesOn, Flushed, Flushes
<1>7. CASE Unlock(t)
  <2>1. Delegated(t) \in {"idle", "await"}
    BY DEF Delegated
  <2>2. Move(t, "unlock", Delegated(t)) /\ lockWord' = FALSE
        /\ UNCHANGED <<queueVars, offerVars, flushVars, clientVars>>
    BY <1>7 DEF Unlock, ReleaseLockWord
  <2>3. QED
    BY <2>1, <2>2 DEF Releases
<1>8. CASE SetWins(t)
  BY <1>8 DEF SetWins, Wins
<1>9. QED
  BY <1>1, <1>2, <1>3, <1>4, <1>5, <1>6, <1>7, <1>8 DEF QuietStep

LEMMA StepIsDXStep ==
    ASSUME DXTypeOK, NEW t \in Threads, Call(t) \/ Step(t)
    PROVE  DXStep(t)
BY CallBegins, AcceptStepIs, RunStepIs, QuietStepIs DEF Step, DXStep, InQueue

LEMMA HStepIsDXHStep ==
    ASSUME DXTypeOK, NEW t \in Threads, HCall(t) \/ HStep(t)
    PROVE  DXHStep(t)
<1> USE DEF historyVars
<1>1. CASE HCall(t)
  BY <1>1, CallBegins DEF HCall, DXHStep, Works
<1>2. CASE HAccept(t)
  BY <1>2, AcceptStepIs DEF HAccept, DXHStep, Accepts
<1>3. CASE HRun(t)
  <2>1. CASE RunOwn(t) /\ log' = Append(log, OpOf(t))
    BY <1>3, <2>1 DEF HRun, RunOwn, RunsOwn, DXHStep, RunsOne, offerVars
  <2>2. CASE FlushRuns(t) /\ log' = Append(log, data[current[t]])
    BY <1>3, <2>2 DEF HRun, FlushRuns, DXHStep, RunsOne
  <2>3. QED
    BY <1>3, <2>1, <2>2 DEF HRun
<1>4. CASE HQuiet(t)
  BY <1>4, QuietStepIs DEF HQuiet, DXHStep, Works
<1>5. QED
  BY <1>1, <1>2, <1>3, <1>4 DEF HStep

(****************************************************************************)
(* Types, and the kinds of the calls.                                       *)
(****************************************************************************)
CallTypeOK ==
    /\ pc \in [Threads -> Labels]
    /\ tries \in [Threads -> 0 .. OFFER_TRIES - 1]
    /\ returnValue \in [Threads -> BOOLEAN]

LEMMA TypeOKParts == TypeOK <=> CallTypeOK /\ DXTypeOK
<1>1. TypeOK => CallTypeOK /\ DXTypeOK
  BY DEF TypeOK, CallTypeOK, DXTypeOK
<1>2. CallTypeOK /\ DXTypeOK => TypeOK
  BY DEF TypeOK, CallTypeOK, DXTypeOK
<1>3. QED
  BY <1>1, <1>2

LEMMA CallTypeOKStep ==
    ASSUME CallTypeOK, NEW t \in Threads, Call(t) \/ Step(t)
    PROVE  CallTypeOK'
<1> USE OfferTriesAssumption
<1> USE DEF CallTypeOK, Move, callVars
<1>1. CASE Call(t)
  BY <1>1 DEF Call, Begin
<1>2. CASE AcceptStep(t)
  BY <1>2 DEF AcceptStep, TryWins, TestAndSetWins, OfferIsAccepted, OfferClaims
<1>3. CASE RunStep(t)
  <2>1. \E op : Run(op)
    BY <1>3 DEF RunStep, RunOwn, FlushRuns
  <2>2. returnValue' \in [Threads -> BOOLEAN]
    BY <2>1, Zenon DEF Run
  <2>3. QED
    BY <1>3, <2>2 DEF RunStep, RunOwn, FlushRuns, FlushReads
<1>4. CASE LookFree(t) \/ LookLocked(t) \/ TryLoses(t) \/ SpinEnds(t) \/ SetLoses(t) \/ SetWins(t)
  BY <1>4 DEF LookFree, LookLocked, TryLoses, SpinEnds, SetLoses, SetWins, SeesFree,
              SeesLocked, TestAndSetLoses, TestAndSetWins
<1>5. CASE Reset(t) \/ Await(t) \/ LeaveCritical(t)
  BY <1>5 DEF Reset, ResetCount, ResetClosed, Await, LeaveCritical
<1>6. CASE OfferFails(t) \/ OfferGoesOn(t) \/ OfferReturns(t)
  <2>1. CASE OfferFails(t)
    BY <2>1 DEF OfferFails, OfferSeesClosed, OfferCloses, AfterFailure
  <2>2. CASE OfferGoesOn(t)
    BY <2>2 DEF OfferGoesOn, OfferSeesOpen, OfferOverflows, OfferWritesData
  <2>3. CASE OfferReturns(t)
    BY <2>3 DEF OfferReturns, OfferPublishes, Delegated
  <2>4. QED
    BY <1>6, <2>1, <2>2, <2>3
<1>7. CASE FlushGoesOn(t) \/ Flushed(t)
  BY <1>7 DEF FlushGoesOn, FlushStarts, FlushClears, FlushRereads, FlushSwaps,
              Flushed, FlushReturns
<1>8. CASE Unlock(t)
  BY <1>8 DEF Unlock, Delegated
<1>9. QED
  BY <1>1, <1>2, <1>3, <1>4, <1>5, <1>6, <1>7, <1>8 DEF Step, QuietStep

LEMMA KindsOKStep ==
    ASSUME TypeOK, KindsOK, NEW t \in Threads, Call(t) \/ Step(t)
    PROVE  KindsOK'
<1>0. DXTypeOK
  BY TypeOKParts
<1>1. CASE Call(t)
  <2>1. PICK k \in Kinds : Begin(t, k, IF k = "exclusive" THEN "spin" ELSE "look")
    BY <1>1 DEF Call
  <2>2. KindFits(IF k = "exclusive" THEN "spin" ELSE "look", k)
    BY KindsAssumption DEF KindFits
  <2>3. /\ pc'[t] = (IF k = "exclusive" THEN "spin" ELSE "look") /\ kind'[t] = k
        /\ \A u \in Threads \ {t} : pc'[u] = pc[u] /\ kind'[u] = kind[u]
    BY <1>0, <2>1 DEF Begin, Move, DXTypeOK
  <2>4. \A u \in Threads \ {t} : KindFits(pc'[u], kind'[u])
    BY <2>3 DEF KindsOK
  <2>5. QED
    BY <2>2, <2>3, <2>4 DEF KindsOK, KindFits
<1>2. ASSUME kind' = kind,
             \E from, to : Move(t, from, to) /\ (KindFits(from, kind[t]) => KindFits(to, kind[t]))
      PROVE  KindsOK'
  BY <1>0, <1>2, KindsMove
<1>3. CASE Step(t)
  <2>1. kind' = kind
    BY <1>3 DEF Step, AcceptStep, TryWins, OfferIsAccepted, RunStep, RunOwn, FlushRuns,
          QuietStep, LookFree, LookLocked, TryLoses, Reset, OfferFails, OfferGoesOn,
          OfferReturns, Await, FlushGoesOn, Flushed, Unlock, SpinEnds, SetWins, SetLoses,
          LeaveCritical, clientVars
  <2>2. \E from, to : Move(t, from, to) /\ (KindFits(from, kind[t]) => KindFits(to, kind[t]))
    <3> USE DEF KindFits
    <3>1. CASE AcceptStep(t)
      BY <3>1 DEF AcceptStep, TryWins, TestAndSetWins, OfferIsAccepted, OfferClaims
    <3>2. CASE RunStep(t)
      BY <3>2 DEF RunStep, RunOwn, FlushRuns, FlushReads
    <3>3. CASE LookFree(t) \/ LookLocked(t) \/ TryLoses(t) \/ SpinEnds(t) \/ SetLoses(t)
               \/ SetWins(t) \/ Await(t) \/ LeaveCritical(t)
      BY <3>3 DEF LookFree, LookLocked, TryLoses, SpinEnds, SetLoses, SetWins, Await,
                  LeaveCritical, SeesFree, SeesLocked, TestAndSetLoses, TestAndSetWins
    <3>4. CASE Reset(t)
      BY <3>4 DEF Reset, ResetCount, ResetClosed
    <3>5. CASE OfferFails(t)
      <4>1. AfterFailure(t) \in {"offer", "look"}
        BY DEF AfterFailure
      <4>2. QED
        BY <3>5, <4>1 DEF OfferFails, OfferSeesClosed, OfferCloses
    <3>6. CASE OfferGoesOn(t) \/ OfferReturns(t)
      BY <3>6 DEF OfferGoesOn, OfferSeesOpen, OfferOverflows, OfferWritesData, OfferReturns,
                  OfferPublishes, Delegated
    <3>7. CASE FlushGoesOn(t) \/ Flushed(t)
      BY <3>7 DEF FlushGoesOn, FlushStarts, FlushClears, FlushRereads, FlushSwaps,
                  Flushed, FlushReturns
    <3>8. CASE Unlock(t)
      BY <3>8 DEF Unlock, Delegated
    <3>9. QED
      BY <1>3, <3>1, <3>2, <3>3, <3>4, <3>5, <3>6, <3>7, <3>8 DEF Step, QuietStep
  <2>3. QED
    BY <1>2, <2>1, <2>2
<1>4. QED
  BY <1>1, <1>3

(****************************************************************************)
(* The inductive invariant of QDLock, and what follows from it.             *)
(****************************************************************************)
IInv == TypeOK /\ MutualExclusion /\ LocalsOK /\ SlotsOK /\ KindsOK

LEMMA InitIInv == Init => IInv
<1> SUFFICES ASSUME Init PROVE IInv
  OBVIOUS
<1> USE CapacityAssumption, OfferTriesAssumption, MaxCallsAssumption
<1> USE DEF Init, DXInit, TATASInit, QueueInit
<1>1. TypeOK
  <2>1. closed \in BOOLEAN /\ lockWord \in BOOLEAN
    BY Zenon
  <2>2. elementCount \in Nat /\ data \in [Slots -> Ops \cup {NoOp}]
    OBVIOUS
  <2>3. 0 \in Slots /\ 0 \in 0 .. CAPACITY /\ 0 \in 0 .. MaxCalls /\ 0 \in 0 .. OFFER_TRIES - 1
    BY DEF Slots
  <2>4. /\ request \in [Slots -> BOOLEAN]
        /\ flushClosed \in [Threads -> BOOLEAN]
        /\ returnValue \in [Threads -> BOOLEAN]
    BY Zenon
  <2>5. /\ index \in [Threads -> Slots]
        /\ current \in [Threads -> 0 .. CAPACITY]
        /\ toRead \in [Threads -> 0 .. CAPACITY]
        /\ calls \in [Threads -> 0 .. MaxCalls]
        /\ tries \in [Threads -> 0 .. OFFER_TRIES - 1]
    BY <2>3
  <2>6. pc \in [Threads -> Labels] /\ kind \in [Threads -> Kinds \cup {"none"}]
    OBVIOUS
  <2>7. QED
    BY <2>1, <2>2, <2>4, <2>5, <2>6 DEF TypeOK, QueueTypeOK
<1>2. MutualExclusion
  BY DEF MutualExclusion
<1>3. LocalsOK /\ KindsOK
  BY DEF LocalsOK, KindsOK, KindFits
<1>4. SlotsOK
  BY DEF SlotsOK, Sealed
<1>5. QED
  BY <1>1, <1>2, <1>3, <1>4 DEF IInv

LEMMA IInvStep == IInv /\ [Next]_vars => IInv'
<1> SUFFICES ASSUME IInv, [Next]_vars PROVE IInv'
  OBVIOUS
<1>1. CASE UNCHANGED vars
  <2>1. UNCHANGED <<pc, lockWord, closed, elementCount, request, data, index, current, toRead,
                    flushClosed, calls, kind, tries, returnValue>>
    BY <1>1 DEF vars, queueVars, offerVars, flushVars, clientVars, callVars
  <2>2. TypeOK' /\ MutualExclusion' /\ LocalsOK' /\ KindsOK'
    BY <2>1 DEF IInv, TypeOK, QueueTypeOK, MutualExclusion, LocalsOK, KindsOK
  <2>3. SlotsOK'
    BY <2>1 DEF IInv, SlotsOK, Sealed, OpenTo, Limit
  <2>4. QED
    BY <2>2, <2>3 DEF IInv
<1>2. ASSUME NEW t \in Threads, Call(t) \/ Step(t) PROVE IInv'
  <2>1. CallTypeOK /\ DXTypeOK
    BY TypeOKParts DEF IInv
  <2>2. DXStep(t)
    BY <1>2, <2>1, StepIsDXStep
  <2>3. CallTypeOK' /\ DXTypeOK'
    BY <1>2, <2>1, <2>2, CallTypeOKStep, DXTypeOKStep DEF IInv
  <2>4. TypeOK'
    BY <2>3 DEF TypeOK, CallTypeOK, DXTypeOK
  <2>5. MutualExclusion' /\ LocalsOK' /\ SlotsOK'
    BY <2>1, <2>2, ExclusionStep, LocalsOKStep, SlotsOKStep DEF IInv
  <2>6. KindsOK'
    BY <1>2, KindsOKStep DEF IInv
  <2>7. QED
    BY <2>4, <2>5, <2>6 DEF IInv
<1>3. QED
  BY <1>1, <1>2 DEF Next

LEMMA Invariant == Spec => []IInv
BY InitIInv, IInvStep, PTL DEF Spec

(* No two threads hold the lock at once, and the lock word is set exactly   *)
(* while one does: write_with_response and write_read_lock over the TATAS   *)
(* lock, for any number of threads.                                         *)
THEOREM Exclusion == Spec => []MutualExclusion
<1>1. IInv => MutualExclusion
  BY DEF IInv
<1>2. QED
  BY <1>1, Invariant, PTL

(* Every variable stays in its type: in particular no offer claims a slot   *)
(* and no flush reads one outside the array elements of the queue.          *)
THEOREM TypeCorrect == Spec => []TypeOK
<1>1. IInv => TypeOK
  BY DEF IInv
<1>2. QED
  BY <1>1, Invariant, PTL

(* The slots in use are those the flusher has still to read, and every      *)
(* opening of the queue ends with it sealed.                                *)
THEOREM SlotsAreAccounted == Spec => []QueueInv
<1>1. IInv => QueueInv
  BY DEF IInv, QueueInv
<1>2. QED
  BY <1>1, Invariant, PTL

LEMMA FreeIsSealed ==
    ASSUME MutualExclusion, SlotsOK
    PROVE  UnlockedQueueIsSealed
BY DEF MutualExclusion, SlotsOK, Sealed, UnlockedQueueIsSealed

(* When the lock is free the count is past the end, no slot holds a request *)
(* and no offer is filling one: nothing accepted is left behind, and the    *)
(* next holder starts from an empty queue.                                  *)
THEOREM SealedWhenFree == Spec => []UnlockedQueueIsSealed
<1>1. IInv => UnlockedQueueIsSealed
  BY FreeIsSealed DEF IInv
<1>2. QED
  BY <1>1, Invariant, PTL

(****************************************************************************)
(* The history. What the lock does with it is QDLock's behaviour, so that   *)
(* the invariant above holds of it too.                                     *)
(****************************************************************************)
LEMMA HNextIsNext == [HNext]_allVars => [Next]_vars
BY DEF HNext, HCall, HStep, HAccept, HRun, HQuiet, Finished, allVars, Next, Step, RunStep

LEMMA HistoryIsQDLock == HSpec => Spec
<1>1. HInit => Init
  BY DEF HInit
<1>2. QED
  BY <1>1, HNextIsNext, PTL DEF HSpec, Spec

HInv == HistoryTypeOK /\ HistoryInv /\ ResponsesOK

LEMMA InitHInv == HInit => HInv
<1> SUFFICES ASSUME HInit PROVE HInv
  OBVIOUS
<1> USE DEF HInit, Init, DXInit
<1>1. accepted = <<>> /\ log = <<>> /\ Len(accepted) = 0 /\ Len(log) = 0
  OBVIOUS
<1>2. HistoryTypeOK
  BY <1>1 DEF HistoryTypeOK
<1>3. Owed
  BY <1>1 DEF Owed, LogFollows
<1>4. OwnHaveRun /\ AcceptedOnce
  BY <1>1 DEF OwnHaveRun, AcceptedOnce
<1>5. ResponsesOK
  BY <1>1 DEF ResponsesOK
<1>6. QED
  BY <1>2, <1>3, <1>4, <1>5 DEF HInv, HistoryInv

LEMMA IInvIsDXInv ==
    ASSUME IInv, HistoryTypeOK
    PROVE  DXInv
BY TypeOKParts DEF IInv, DXInv

(****************************************************************************)
(* Responses. The operation that runs belongs to the blocking call that     *)
(* waits for it, if it carries the address of a response at all.            *)
(****************************************************************************)
LEMMA PendingIsOwn ==
    ASSUME IInv, HInv, NEW i \in Len(log) + 1 .. Len(accepted), accepted[i].respond
    PROVE  /\ i \in 1 .. Len(accepted)
           /\ accepted[i].thread \in Threads
           /\ accepted[i] = OpOf(accepted[i].thread)
           /\ kind[accepted[i].thread] = "await"
           /\ pc[accepted[i].thread] # "idle"
<1>1. i \in 1 .. Len(accepted) /\ accepted[i] \in Ops
  BY DEF HInv, HistoryTypeOK
<1>2. accepted[i].thread \in Threads
  BY <1>1 DEF Ops
<1>3. accepted[i] = OpOf(accepted[i].thread) /\ pc[accepted[i].thread] # "idle"
  BY <1>2 DEF HInv, ResponsesOK
<1>4. OpOf(accepted[i].thread).respond
  BY <1>3
<1>5. kind[accepted[i].thread] = "await"
  BY <1>4 DEF OpOf
<1>6. QED
  BY <1>1, <1>2, <1>3, <1>5

(* A thread leaves its call only when no operation of it that carries a     *)
(* response is pending.                                                     *)
LEMMA ReturnsAnswered ==
    ASSUME IInv, HInv, NEW t \in Threads, Step(t), pc'[t] = "idle",
           NEW i \in Len(log) + 1 .. Len(accepted), accepted[i].respond
    PROVE  accepted[i].thread # t
<1> SUFFICES ASSUME accepted[i].thread = t PROVE FALSE
  OBVIOUS
<1>1. i \in 1 .. Len(accepted) /\ accepted[i] = OpOf(t) /\ kind[t] = "await" /\ pc[t] # "idle"
  BY PendingIsOwn
<1>2. pc[t] = "await" /\ returnValue[t]
  <2> USE DEF Move, IInv, TypeOK
  <2>1. ~AcceptStep(t) /\ ~RunStep(t)
    BY DEF AcceptStep, TryWins, TestAndSetWins, OfferIsAccepted, OfferClaims, RunStep,
           RunOwn, FlushRuns, FlushReads
  <2>2. Delegated(t) = "await"
    BY <1>1 DEF Delegated
  <2>3. ~(LookFree(t) \/ LookLocked(t) \/ TryLoses(t) \/ SpinEnds(t) \/ SetLoses(t)
          \/ SetWins(t) \/ LeaveCritical(t) \/ Unlock(t))
    BY <2>2 DEF LookFree, LookLocked, TryLoses, SpinEnds, SetLoses, SetWins, LeaveCritical,
           Unlock, SeesFree, SeesLocked, TestAndSetLoses, TestAndSetWins
  <2>4. ~(Reset(t) \/ OfferGoesOn(t) \/ OfferReturns(t))
    <3>1. ASSUME NEW to, ResetClosed(t, to) PROVE to = "idle"
      BY <3>1 DEF ResetClosed
    <3>2. ~Reset(t)
      BY <3>1 DEF Reset, ResetCount
    <3>3. ~OfferGoesOn(t)
      BY DEF OfferGoesOn, OfferSeesOpen, OfferOverflows, OfferWritesData
    <3>4. ~OfferReturns(t)
      BY <2>2 DEF OfferReturns, OfferPublishes
    <3>5. QED
      BY <3>2, <3>3, <3>4
  <2>5. ~OfferFails(t)
    BY DEF OfferFails, OfferSeesClosed, OfferCloses, AfterFailure
  <2>6. ~(FlushGoesOn(t) \/ Flushed(t))
    BY DEF FlushGoesOn, FlushStarts, FlushClears, FlushRereads, FlushSwaps, Flushed,
           FlushReturns
  <2>7. Await(t)
    BY <2>1, <2>3, <2>4, <2>5, <2>6 DEF Step, QuietStep
  <2>8. QED
    BY <2>7 DEF Await
<1>3. PICK j \in 1 .. Len(log) : log[j] = OpOf(t)
  BY <1>1, <1>2 DEF HInv, ResponsesOK
<1>4. accepted[j] = log[j] /\ j \in 1 .. Len(accepted)
  BY DEF HInv, HistoryTypeOK, HistoryInv, Owed, LogFollows
<1>5. i = j
  BY <1>1, <1>3, <1>4 DEF HInv, HistoryInv, AcceptedOnce
<1>6. QED
  BY <1>5 DEF HInv, HistoryTypeOK

LEMMA QuietFrame ==
    ASSUME TypeOK, NEW t \in Threads, QuietStep(t)
    PROVE  /\ UNCHANGED <<calls, kind, returnValue>>
           /\ pc[t] # "idle"
           /\ \A u \in Threads \ {t} : pc'[u] = pc[u]
<1> USE DEF Move, TypeOK, clientVars, callVars
<1>1. CASE LookFree(t) \/ LookLocked(t) \/ TryLoses(t) \/ SpinEnds(t) \/ SetLoses(t)
           \/ SetWins(t) \/ Await(t) \/ LeaveCritical(t) \/ Unlock(t)
  BY <1>1 DEF LookFree, LookLocked, TryLoses, SpinEnds, SetLoses, SetWins, Await, Unlock,
              LeaveCritical, SeesFree, SeesLocked, TestAndSetLoses, TestAndSetWins
<1>2. CASE Reset(t) \/ OfferFails(t)
  BY <1>2 DEF Reset, ResetCount, ResetClosed, OfferFails, OfferSeesClosed, OfferCloses
<1>3. CASE OfferGoesOn(t) \/ OfferReturns(t)
  BY <1>3 DEF OfferGoesOn, OfferSeesOpen, OfferOverflows, OfferWritesData, OfferReturns,
              OfferPublishes
<1>4. CASE FlushGoesOn(t) \/ Flushed(t)
  BY <1>4 DEF FlushGoesOn, FlushStarts, FlushClears, FlushRereads, FlushSwaps, Flushed,
              FlushReturns
<1>5. QED
  BY <1>1, <1>2, <1>3, <1>4 DEF QuietStep

LEMMA ResponsesOKStep ==
    ASSUME IInv, HInv, NEW t \in Threads, HCall(t) \/ HStep(t)
    PROVE  ResponsesOK'
<1>0. /\ TypeOK /\ DXTypeOK /\ DXInv /\ Owed /\ ResponsesOK
      /\ accepted \in Seq(Ops) /\ log \in Seq(Ops)
  BY IInvIsDXInv, TypeOKParts DEF IInv, HInv, HistoryInv, HistoryTypeOK
<1>1. CASE HCall(t)
  <2>1. /\ pc[t] = "idle" /\ ~returnValue'[t] /\ accepted' = accepted /\ log' = log
        /\ \A u \in Threads \ {t} : /\ pc'[u] = pc[u] /\ returnValue'[u] = returnValue[u]
                                    /\ calls'[u] = calls[u] /\ kind'[u] = kind[u]
    BY <1>0, <1>1 DEF HCall, Call, Begin, Move, historyVars, TypeOK
  <2>2. \A u \in Threads \ {t} : OpOf(u)' = OpOf(u)
    BY <2>1 DEF OpOf
  <2>3. ASSUME NEW u \in Threads, NEW i \in Len(log) + 1 .. Len(accepted),
               accepted[i].thread = u, accepted[i].respond
        PROVE  accepted[i] = OpOf(u)' /\ pc'[u] # "idle"
    <3>1. u # t /\ accepted[i] = OpOf(u) /\ pc[u] # "idle"
      BY <2>1, <2>3, PendingIsOwn
    <3>2. QED
      BY <2>1, <2>2, <3>1
  <2>4. ASSUME NEW u \in Threads, pc'[u] # "idle", returnValue'[u]
        PROVE  \E i \in 1 .. Len(log) : log[i] = OpOf(u)'
    BY <1>0, <2>1, <2>2, <2>4 DEF ResponsesOK
  <2>5. QED
    BY <2>1, <2>3, <2>4 DEF ResponsesOK
<1>2. CASE HAccept(t)
  <2>1. Accepts(t)
    BY <1>2, AcceptStepIs DEF HAccept, Accepts
  <2>2. returnValue' = returnValue
    BY <1>2 DEF HAccept, AcceptStep, TryWins, OfferIsAccepted, callVars
  <2>3. \A u \in Threads : OpOf(u)' = OpOf(u)
    BY <1>0, <2>1, AcceptFacts DEF OpOf
  <2>4. \A u \in Threads : pc'[u] # "idle" <=> pc[u] # "idle"
    BY <1>0, <2>1, AcceptFacts
  <2>5. ASSUME NEW u \in Threads, NEW i \in Len(log') + 1 .. Len(accepted'),
               accepted'[i].thread = u, accepted'[i].respond
        PROVE  accepted'[i] = OpOf(u)' /\ pc'[u] # "idle"
    <3>1. i \in Len(log) + 1 .. Len(accepted) \/ i = Len(accepted) + 1
      BY <1>0, <2>1, AcceptFacts
    <3>2. CASE i = Len(accepted) + 1
      <4>1. accepted'[i] = OpOf(t) /\ OpOf(t).thread = t /\ pc'[t] # "idle"
        BY <1>0, <2>1, <3>2, AcceptFacts DEF OpOf
      <4>2. QED
        BY <2>3, <2>5, <4>1
    <3>3. CASE i \in Len(log) + 1 .. Len(accepted)
      <4>1. accepted'[i] = accepted[i]
        BY <1>0, <2>1, <3>3, AcceptFacts
      <4>2. accepted[i] = OpOf(u) /\ pc[u] # "idle"
        BY <2>5, <3>3, <4>1, PendingIsOwn
      <4>3. QED
        BY <2>3, <2>4, <4>1, <4>2
    <3>4. QED
      BY <3>1, <3>2, <3>3
  <2>6. ASSUME NEW u \in Threads, pc'[u] # "idle", returnValue'[u]
        PROVE  \E i \in 1 .. Len(log') : log'[i] = OpOf(u)'
    BY <1>0, <2>1, <2>2, <2>3, <2>4, <2>6, AcceptFacts DEF ResponsesOK
  <2>7. QED
    BY <2>5, <2>6 DEF ResponsesOK
<1>3. CASE HRun(t)
  <2>1. RunsOne(t)
    BY <1>3 DEF HRun, RunOwn, RunsOwn, FlushRuns, RunsOne, offerVars
  <2>2. \A u \in Threads : OpOf(u)' = OpOf(u)
    BY <1>0, <2>1, RunFacts DEF OpOf
  <2>3. /\ \A u \in Threads : pc'[u] # "idle" <=> pc[u] # "idle"
        /\ accepted' = accepted
    BY <1>0, <2>1, RunIsNext, RunFacts
  <2>4. /\ Len(log) < Len(accepted) /\ Len(log') = Len(log) + 1
        /\ log'[Len(log) + 1] = accepted[Len(log) + 1]
        /\ \A i \in 1 .. Len(log) : log'[i] = log[i]
    BY <1>0, <2>1, RunIsNext, RunFacts
  <2>5. ASSUME NEW u \in Threads, NEW i \in Len(log') + 1 .. Len(accepted'),
               accepted'[i].thread = u, accepted'[i].respond
        PROVE  accepted'[i] = OpOf(u)' /\ pc'[u] # "idle"
    <3>1. i \in Len(log) + 1 .. Len(accepted)
      BY <1>0, <2>3, <2>4
    <3>2. QED
      BY <2>2, <2>3, <2>5, <3>1, PendingIsOwn
  <2>6. Run(accepted[Len(log) + 1])
    <3>1. log' = Append(log, accepted[Len(log) + 1])
      BY <1>0, <2>1, RunIsNext
    <3>2. \E op : log' = Append(log, op) /\ Run(op)
      BY <1>3 DEF HRun, RunOwn, FlushRuns
    <3>3. \A op : Append(log, op)[Len(log) + 1] = op
      BY <1>0
    <3>4. QED
      BY <3>1, <3>2, <3>3
  <2>7. ASSUME NEW u \in Threads, pc'[u] # "idle", returnValue'[u]
        PROVE  \E i \in 1 .. Len(log') : log'[i] = OpOf(u)'
    <3>1. \/ returnValue[u]
          \/ \E n \in 1 .. MaxCalls :
                accepted[Len(log) + 1] = [thread |-> u, call |-> n, respond |-> TRUE]
      BY <2>6, <2>7 DEF Run
    <3>2. CASE returnValue[u]
      <4>1. PICK i \in 1 .. Len(log) : log[i] = OpOf(u)
        BY <1>0, <2>3, <2>7, <3>2 DEF ResponsesOK
      <4>2. i \in 1 .. Len(log') /\ log'[i] = OpOf(u)'
        BY <1>0, <2>2, <2>4, <4>1
      <4>3. QED
        BY <4>2
    <3>3. CASE \E n \in 1 .. MaxCalls :
                  accepted[Len(log) + 1] = [thread |-> u, call |-> n, respond |-> TRUE]
      <4>1. accepted[Len(log) + 1].thread = u /\ accepted[Len(log) + 1].respond
        BY <3>3
      <4>2. Len(log) + 1 \in Len(log) + 1 .. Len(accepted)
        BY <1>0, <2>4
      <4>3. accepted[Len(log) + 1] = OpOf(u)
        BY <4>1, <4>2, PendingIsOwn
      <4>4. Len(log) + 1 \in 1 .. Len(log')
        BY <1>0, <2>4
      <4>5. QED
        BY <2>2, <2>4, <4>3, <4>4
    <3>4. QED
      BY <3>1, <3>2, <3>3
  <2>8. QED
    BY <2>5, <2>7 DEF ResponsesOK
<1>4. CASE HQuiet(t)
  <2>1. /\ accepted' = accepted /\ log' = log
        /\ UNCHANGED <<calls, kind, returnValue>> /\ pc[t] # "idle"
        /\ \A u \in Threads \ {t} : pc'[u] = pc[u]
    BY <1>0, <1>4, QuietFrame DEF HQuiet, historyVars
  <2>2. \A u \in Threads : OpOf(u)' = OpOf(u)
    BY <2>1 DEF OpOf
  <2>3. Step(t)
    BY <1>4 DEF HQuiet, Step
  <2>4. ASSUME NEW u \in Threads, NEW i \in Len(log) + 1 .. Len(accepted),
               accepted[i].thread = u, accepted[i].respond
        PROVE  accepted[i] = OpOf(u)' /\ pc'[u] # "idle"
    <3>1. accepted[i] = OpOf(u) /\ pc[u] # "idle"
      BY <2>4, PendingIsOwn
    <3>2. CASE u = t
      BY <2>2, <2>3, <2>4, <3>1, <3>2, ReturnsAnswered
    <3>3. CASE u # t
      BY <2>1, <2>2, <3>1, <3>3
    <3>4. QED
      BY <3>2, <3>3
  <2>5. ASSUME NEW u \in Threads, pc'[u] # "idle", returnValue'[u]
        PROVE  \E i \in 1 .. Len(log) : log[i] = OpOf(u)'
    BY <1>0, <2>1, <2>2, <2>5 DEF ResponsesOK
  <2>6. QED
    BY <2>1, <2>4, <2>5 DEF ResponsesOK
<1>5. QED
  BY <1>1, <1>2, <1>3, <1>4 DEF HStep

LEMMA HInvStep == IInv /\ IInv' /\ HInv /\ [HNext]_allVars => HInv'
<1> SUFFICES ASSUME IInv, HInv, [HNext]_allVars PROVE HInv'
  OBVIOUS
<1>1. CASE UNCHANGED allVars
  <2>1. UNCHANGED <<pc, lockWord, elementCount, request, data, index, current, toRead,
                    flushClosed, calls, kind, returnValue, accepted, log>>
    BY <1>1 DEF allVars, vars, queueVars, offerVars, flushVars, clientVars, callVars, historyVars
  <2>2. HistoryTypeOK' /\ OwnHaveRun' /\ AcceptedOnce'
    BY <2>1 DEF HInv, HistoryTypeOK, HistoryInv, OwnHaveRun, AcceptedOnce
  <2>3. Calm
    BY <2>1 DEF Calm, OwnFirst, Ran, OpOf, Limit
  <2>4. Owed'
    BY <2>3, CalmKeepsOwed DEF HInv, HistoryInv
  <2>5. ResponsesOK'
    <3>1. \A u : OpOf(u)' = OpOf(u)
      BY <2>1 DEF OpOf
    <3>2. QED
      BY <2>1, <3>1 DEF HInv, ResponsesOK
  <2>6. QED
    BY <2>2, <2>4, <2>5 DEF HInv, HistoryInv
<1>2. ASSUME NEW t \in Threads, HCall(t) \/ HStep(t) PROVE HInv'
  <2>1. DXInv /\ DXTypeOK /\ Owed /\ OwnHaveRun /\ AcceptedOnce
    BY IInvIsDXInv DEF HInv, HistoryInv, DXInv
  <2>2. DXHStep(t)
    BY <1>2, <2>1, HStepIsDXHStep
  <2>3. HistoryTypeOK' /\ Owed' /\ OwnHaveRun' /\ AcceptedOnce'
    BY <2>1, <2>2, HistoryTypeStep, OwedStep, OwnHaveRunStep, AcceptedOnceStep
  <2>4. ResponsesOK'
    BY <1>2, ResponsesOKStep
  <2>5. QED
    BY <2>3, <2>4 DEF HInv, HistoryInv
<1>3. CASE Finished
  BY <1>1, <1>3 DEF Finished
<1>4. QED
  BY <1>1, <1>2, <1>3 DEF HNext

LEMMA HInvariant == HSpec => [](IInv /\ HInv)
<1>1. HSpec => []IInv
  BY HistoryIsQDLock, Invariant
<1>2. IInv /\ IInv' /\ HInv /\ [HNext]_allVars => HInv'
  BY HInvStep
<1>3. QED
  BY <1>1, <1>2, InitHInv, PTL DEF HSpec

(* Every operation runs at most once and in the order of its acceptance,    *)
(* whether the helper ran its own or the flush read it from a slot, and     *)
(* whatever opening of the queue the slot belongs to.                       *)
THEOREM RunsInOrder == HSpec => []RunInOrder
<1>1. IInv /\ HInv => RunInOrder
  BY OwedInOrder DEF HInv, HistoryInv
<1>2. QED
  BY <1>1, HInvariant, PTL

(* A free lock owes nothing: what a helper or an offer was promised has     *)
(* run.                                                                     *)
THEOREM NothingLeftBehind == HSpec => []AllAcceptedHaveRun
<1>1. IInv /\ HInv => AllAcceptedHaveRun
  BY IInvIsDXInv, FreeLogIsAccepted DEF HInv, HistoryInv, AllAcceptedHaveRun
<1>2. QED
  BY <1>1, HInvariant, PTL

(* A thread in its critical section, or with its answer, sees everything it *)
(* has delegated. The one in its critical section found the lock free, when *)
(* nothing was owed. With the answer, the operation of this call has run    *)
(* and the thread's earlier ones were accepted before it.                   *)
THEOREM SeesItsDelegations == HSpec => []OwnDelegationsPrecede
<1>1. ASSUME IInv, HInv, NEW t \in Threads, pc[t] = "critical",
             NEW i \in 1 .. Len(accepted), accepted[i].thread = t
      PROVE  i <= Len(log)
  BY <1>1 DEF IInv, KindsOK, KindFits, HInv, HistoryInv, OwnHaveRun
<1>2. ASSUME IInv, HInv, NEW t \in Threads, pc[t] # "idle", returnValue[t],
             NEW i \in 1 .. Len(accepted), accepted[i].thread = t
      PROVE  i <= Len(log)
  <2>1. PICK k \in 1 .. Len(log) : log[k] = OpOf(t)
    BY <1>2 DEF HInv, ResponsesOK
  <2>2. /\ accepted \in Seq(Ops) /\ log \in Seq(Ops)
        /\ k \in 1 .. Len(accepted) /\ accepted[k] = OpOf(t)
    BY <1>2, <2>1 DEF HInv, HistoryTypeOK, HistoryInv, Owed, LogFollows
  <2>3. accepted[k].thread = t /\ accepted[k].call = calls[t]
    BY <2>2 DEF OpOf
  <2>4. accepted[i].call <= calls[t]
    BY <1>2 DEF HInv, HistoryInv, AcceptedOnce
  <2>5. k < i => calls[t] < accepted[i].call
    BY <1>2, <2>2, <2>3 DEF HInv, HistoryInv, AcceptedOnce
  <2>6. accepted[i] \in Ops
    BY <2>2
  <2>7. accepted[i].call \in Nat /\ calls[t] \in Nat
    BY <1>2, <2>6, MaxCallsAssumption DEF Ops, IInv, TypeOK
  <2>8. QED
    BY <2>1, <2>2, <2>4, <2>5, <2>7
<1>3. IInv /\ HInv => OwnDelegationsPrecede
  BY <1>1, <1>2 DEF OwnDelegationsPrecede
<1>4. QED
  BY <1>3, HInvariant, PTL

(* A call hands over at most one operation, and no two accepted operations  *)
(* are the same: with RunsInOrder, each operation runs at most once.        *)
THEOREM AcceptsOnce == HSpec => []HistoryInv
<1>1. IInv /\ HInv => HistoryInv
  BY DEF HInv
<1>2. QED
  BY <1>1, HInvariant, PTL

(****************************************************************************)
(* The lock implements the delegation service: what a step of the lock is   *)
(* seen from outside.                                                       *)
(****************************************************************************)
LEMMA StatusMoves ==
    ASSUME NEW t \in Threads,
           \A u \in Threads \ {t} : pc'[u] = pc[u] /\ kind'[u] = kind[u]
    PROVE  /\ Promise!Become(t, StatusOf(t), StatusOf(t)')
           /\ StatusOf(t)' = StatusOf(t) =>
                UNCHANGED [u \in Threads |-> StatusOf(u)]
<1>1. \A u \in Threads \ {t} : StatusOf(u)' = StatusOf(u)
  BY DEF StatusOf
<1>2. [u \in Threads |-> StatusOf(u)]' =
          [[u \in Threads |-> StatusOf(u)] EXCEPT ![t] = StatusOf(t)']
  BY <1>1
<1>3. QED
  BY <1>1, <1>2 DEF Promise!Become

LEMMA CallIsCall ==
    ASSUME IInv, NEW t \in Threads, HCall(t)
    PROVE  Promise!Call(t)
<1>1. PICK k \in Kinds : Begin(t, k, IF k = "exclusive" THEN "spin" ELSE "look")
  BY DEF HCall, Call
<1>2. /\ pc[t] = "idle" /\ pc'[t] \in {"spin", "look"} /\ calls[t] < MaxCalls
      /\ \A u \in Threads \ {t} : pc'[u] = pc[u] /\ kind'[u] = kind[u]
      /\ kind' = [kind EXCEPT ![t] = k] /\ calls' = [calls EXCEPT ![t] = @ + 1]
      /\ accepted' = accepted /\ log' = log
  BY <1>1 DEF HCall, Begin, Move, historyVars, IInv, TypeOK
<1>3. StatusOf(t) = "idle" /\ StatusOf(t)' = "called"
  BY <1>2 DEF StatusOf
<1>4. Promise!Become(t, "idle", "called")
  BY <1>2, <1>3, StatusMoves
<1>5. QED
  BY <1>2, <1>4 DEF Promise!Call

LEMMA AcceptIsAccept ==
    ASSUME IInv, HInv, NEW t \in Threads, HAccept(t)
    PROVE  Promise!Accept(t)
<1>1. Accepts(t)
  BY AcceptStepIs DEF HAccept, Accepts
<1>2. /\ pc[t] \in {"try", "offerAdd"} /\ pc'[t] \in {"reset", "offerData"}
      /\ \A u \in Threads \ {t} : pc'[u] = pc[u]
      /\ calls' = calls /\ kind' = kind /\ log' = log
      /\ kind[t] \in {"delegate", "await"}
  BY <1>1, IInvIsDXInv, AcceptFacts DEF HInv
<1>3. StatusOf(t) = "called" /\ StatusOf(t)' = "accepted"
  BY <1>2 DEF StatusOf
<1>4. Promise!Become(t, "called", "accepted")
  BY <1>2, <1>3, StatusMoves
<1>5. accepted' = Append(accepted, Promise!OpOf(t))
  BY DEF HAccept, OpOf, Promise!OpOf
<1>6. QED
  BY <1>2, <1>4, <1>5 DEF Promise!Accept

(* Nobody is in a critical section, or about to enter one, when an          *)
(* operation runs: the thread that runs it holds the lock.                  *)
LEMMA RunIsExecute ==
    ASSUME IInv, HInv, NEW t \in Threads, HRun(t)
    PROVE  Promise!Execute
<1>1. RunsOne(t)
  BY DEF HRun, RunOwn, RunsOwn, FlushRuns, RunsOne, offerVars
<1>2. DXInv /\ Owed /\ MutualExclusion /\ KindsOK
  BY IInvIsDXInv DEF IInv, HInv, HistoryInv
<1>3. /\ pc[t] \in {"own", "flushLoop"} /\ pc'[t] \in {"flush", "flushClear"}
      /\ pc[t] = "own" => kind[t] \in {"delegate", "await"}
      /\ \A u \in Threads \ {t} : pc'[u] = pc[u]
      /\ UNCHANGED <<calls, kind, accepted>>
      /\ Len(log) < Len(accepted) /\ log' = Append(log, accepted[Len(log) + 1])
  BY <1>1, <1>2, RunIsNext, RunFacts DEF KindsOK, KindFits
<1>4. ~Promise!Held
  <2>1. ASSUME NEW u \in Threads, StatusOf(u) \in {"holding", "inside"} PROVE FALSE
    <3>1. pc[u] \in {"reset", "resetClosed", "critical"}
      BY <2>1 DEF StatusOf
    <3>2. QED
      BY <1>2, <1>3, <3>1, OneHolder
  <2>2. QED
    BY <2>1 DEF Promise!Held
<1>5. ~Promise!Read
  <2>1. \A u \in Threads : StatusOf(u) # "reading"
    BY DEF StatusOf
  <2>2. QED
    BY <2>1 DEF Promise!Read
<1>6. StatusOf(t)' = StatusOf(t)
  <2>1. CASE pc[t] = "own"
    BY <1>1, <1>3, <2>1 DEF StatusOf
  <2>2. CASE pc[t] = "flushLoop"
    BY <1>1, <1>3, <2>2 DEF StatusOf
  <2>3. QED
    BY <1>3, <2>1, <2>2
<1>7. UNCHANGED [u \in Threads |-> StatusOf(u)]
  BY <1>3, <1>6, StatusMoves
<1>8. QED
  BY <1>3, <1>4, <1>5, <1>7 DEF Promise!Execute

(* A call that is over has kept its promise: a blocking one waited for its  *)
(* operation to run.                                                        *)
LEMMA QuietIsAbstract ==
    ASSUME IInv, HInv, NEW t \in Threads, HQuiet(t)
    PROVE  [Promise!Next]_(Promise!vars)
<1> DEFINE status == [u \in Threads |-> StatusOf(u)]
<1>0. /\ DXInv /\ Owed /\ MutualExclusion /\ KindFits(pc[t], kind[t])
      /\ QuietStep(t) /\ TypeOK /\ ResponsesOK
  BY IInvIsDXInv DEF IInv, KindsOK, HInv, HistoryInv, HQuiet
<1>1. /\ UNCHANGED <<calls, kind, accepted, log>>
      /\ \A u \in Threads \ {t} : pc'[u] = pc[u]
      /\ \A u \in Threads \ {t} : pc'[u] = pc[u] /\ kind'[u] = kind[u]
  BY <1>0, QuietFrame DEF HQuiet, historyVars
<1>2. ASSUME StatusOf(t)' = StatusOf(t)
      PROVE  UNCHANGED Promise!vars
  BY <1>1, <1>2, StatusMoves DEF Promise!vars
<1>3. Promise!Become(t, StatusOf(t), StatusOf(t)')
  BY <1>1, StatusMoves
<1> USE DEF Move
<1>4. CASE LookFree(t) \/ LookLocked(t) \/ TryLoses(t) \/ SpinEnds(t) \/ SetLoses(t)
  <2>1. StatusOf(t) = "called" /\ StatusOf(t)' = "called"
    BY <1>0, <1>4 DEF LookFree, LookLocked, TryLoses, SpinEnds, SetLoses, SeesFree,
              SeesLocked, TestAndSetLoses, StatusOf, TypeOK
  <2>2. QED
    BY <1>2, <2>1
<1>5. CASE OfferFails(t) \/ OfferGoesOn(t)
  <2>1. CASE OfferFails(t)
    <3>1. AfterFailure(t) \in {"offer", "look"}
      BY DEF AfterFailure
    <3>2. StatusOf(t) = "called" /\ StatusOf(t)' = "called"
      BY <1>0, <2>1, <3>1 DEF OfferFails, OfferSeesClosed, OfferCloses, StatusOf, TypeOK
    <3>3. QED
      BY <1>2, <3>2
  <2>2. CASE OfferGoesOn(t)
    <3>1. StatusOf(t)' = StatusOf(t)
      BY <1>0, <1>1, <2>2 DEF OfferGoesOn, OfferSeesOpen, OfferOverflows, OfferWritesData,
                StatusOf, TypeOK, KindFits
    <3>2. QED
      BY <1>2, <3>1
  <2>3. QED
    BY <1>5, <2>1, <2>2
<1>6. CASE FlushGoesOn(t) \/ Flushed(t)
  <2>1. StatusOf(t)' = StatusOf(t)
    BY <1>0, <1>1, <1>6 DEF FlushGoesOn, FlushStarts, FlushClears, FlushRereads, FlushSwaps,
              Flushed, FlushReturns, StatusOf, TypeOK
  <2>2. QED
    BY <1>2, <2>1
<1>7. CASE SetWins(t)
  <2>1. pc[t] = "set" /\ pc'[t] = "reset" /\ kind[t] = "exclusive" /\ ~lockWord
    BY <1>0, <1>7 DEF SetWins, TestAndSetWins, TypeOK, KindFits
  <2>2. StatusOf(t) = "called" /\ StatusOf(t)' = "holding"
    BY <1>1, <2>1 DEF StatusOf
  <2>3. log = accepted /\ \A u \in Threads : pc[u] \notin HolderLabels
    BY <1>0, <2>1, FreeLogIsAccepted, FreeMeansRun
  <2>4. \A u \in Threads : StatusOf(u) \notin {"holding", "inside"}
    BY <2>3 DEF StatusOf
  <2>5. Promise!Acquire(t)
    BY <1>1, <1>3, <2>1, <2>2, <2>3, <2>4 DEF Promise!Acquire, Promise!Held
  <2>6. QED
    BY <2>5 DEF Promise!Next
<1>8. CASE Reset(t)
  <2>1. CASE ResetCount(t)
    <3>1. StatusOf(t)' = StatusOf(t)
      BY <1>0, <1>1, <2>1 DEF ResetCount, StatusOf, TypeOK
    <3>2. QED
      BY <1>2, <3>1
  <2>2. CASE ResetClosed(t, IF kind[t] = "exclusive" THEN "critical" ELSE "own")
    <3>1. pc[t] = "resetClosed" /\ pc'[t] = (IF kind[t] = "exclusive" THEN "critical" ELSE "own")
      BY <1>0, <2>2 DEF ResetClosed, TypeOK
    <3>2. CASE kind[t] = "exclusive"
      <4>1. StatusOf(t) = "holding" /\ StatusOf(t)' = "inside"
        BY <1>1, <3>1, <3>2 DEF StatusOf
      <4>2. \A u \in Threads : StatusOf(u) # "reading"
        BY DEF StatusOf
      <4>3. Promise!Enter(t)
        BY <1>1, <1>3, <4>1, <4>2 DEF Promise!Enter, Promise!Read
      <4>4. QED
        BY <4>3 DEF Promise!Next
    <3>3. CASE kind[t] # "exclusive"
      <4>1. StatusOf(t) = "accepted" /\ StatusOf(t)' = "accepted"
        BY <1>1, <3>1, <3>3 DEF StatusOf
      <4>2. QED
        BY <1>2, <4>1
    <3>4. QED
      BY <3>2, <3>3
  <2>3. QED
    BY <1>8, <2>1, <2>2 DEF Reset
<1>9. CASE LeaveCritical(t)
  <2>1. pc[t] = "critical" /\ pc'[t] = "flush" /\ kind[t] = "exclusive"
    BY <1>0, <1>9 DEF LeaveCritical, TypeOK, KindFits
  <2>2. StatusOf(t) = "inside" /\ StatusOf(t)' = "released"
    BY <1>1, <2>1 DEF StatusOf
  <2>3. Promise!Release(t)
    BY <1>1, <1>3, <2>2 DEF Promise!Release
  <2>4. QED
    BY <2>3 DEF Promise!Next
<1>10. CASE OfferReturns(t) \/ Unlock(t)
  <2>1. pc[t] \in {"offerRequest", "unlock"} /\ pc'[t] = Delegated(t)
    BY <1>0, <1>10 DEF OfferReturns, OfferPublishes, Unlock, TypeOK
  <2>2. CASE kind[t] = "await"
    <3>1. pc'[t] = "await"
      BY <2>1, <2>2 DEF Delegated
    <3>2. StatusOf(t) = "accepted" /\ StatusOf(t)' = "accepted"
      BY <1>1, <2>1, <2>2, <3>1 DEF StatusOf
    <3>3. QED
      BY <1>2, <3>2
  <2>3. CASE kind[t] # "await"
    <3>1. pc'[t] = "idle"
      BY <2>1, <2>3 DEF Delegated
    <3>2. StatusOf(t) \in {"accepted", "released"} /\ StatusOf(t)' = "idle"
      BY <1>1, <2>1, <3>1 DEF StatusOf
    <3>3. Promise!Return(t)
      BY <1>1, <1>3, <2>3, <3>2 DEF Promise!Return
    <3>4. QED
      BY <3>3 DEF Promise!Next
  <2>4. QED
    BY <2>2, <2>3
<1>11. CASE Await(t)
  <2>1. pc[t] = "await" /\ pc'[t] = "idle" /\ returnValue[t] /\ kind[t] = "await"
    BY <1>0, <1>11 DEF Await, TypeOK, KindFits
  <2>2. StatusOf(t) = "accepted" /\ StatusOf(t)' = "idle"
    BY <1>1, <2>1 DEF StatusOf
  <2>3. \E i \in 1 .. Len(log) : log[i] = OpOf(t)
    BY <1>0, <2>1 DEF ResponsesOK
  <2>4. Promise!Contains(log, Promise!OpOf(t))
    BY <2>3 DEF Promise!Contains, OpOf, Promise!OpOf
  <2>5. Promise!Return(t)
    BY <1>1, <1>3, <2>2, <2>4 DEF Promise!Return
  <2>6. QED
    BY <2>5 DEF Promise!Next
<1>12. QED
  BY <1>0, <1>4, <1>5, <1>6, <1>7, <1>8, <1>9, <1>10, <1>11 DEF QuietStep

LEMMA StepIsAbstract ==
    ASSUME IInv, HInv, [HNext]_allVars
    PROVE  [Promise!Next]_(Promise!vars)
<1>1. CASE UNCHANGED allVars \/ Finished
  <2>1. UNCHANGED <<pc, calls, kind, accepted, log>>
    BY <1>1 DEF Finished, allVars, vars, clientVars, historyVars
  <2>2. UNCHANGED [u \in Threads |-> StatusOf(u)]
    BY <2>1 DEF StatusOf
  <2>3. QED
    BY <2>1, <2>2 DEF Promise!vars
<1>2. ASSUME NEW t \in Threads, HCall(t) \/ HStep(t)
      PROVE  [Promise!Next]_(Promise!vars)
  BY <1>2, CallIsCall, AcceptIsAccept, RunIsExecute, QuietIsAbstract DEF HStep, Promise!Next
<1>3. QED
  BY <1>1, <1>2 DEF HNext

(* The queue-delegation lock implements the delegation service: a call      *)
(* hands its operation over between its start and its return; operations    *)
(* run once, in that order and never inside a critical section; a blocking  *)
(* call of adxlock_write_with_response_block returns after its own has run. *)
THEOREM Implements == HSpec => ImplementsDelegation
<1>1. HInit => Promise!Init
  BY DEF HInit, Init, DXInit, Promise!Init, StatusOf
<1>2. IInv /\ HInv /\ [HNext]_allVars => [Promise!Next]_(Promise!vars)
  BY StepIsAbstract
<1>3. QED
  BY <1>1, <1>2, HInvariant, PTL DEF HSpec, ImplementsDelegation, Promise!Spec
=============================================================================
