--------------------------- MODULE MRQDLockProofs ----------------------------
(****************************************************************************)
(* Proofs about the multi-reader queue-delegation lock, for any set of      *)
(* threads, any number of reader groups and any capacity of the queue. Of   *)
(* MRQDLock, whose clients never stop calling: the types, that writers      *)
(* exclude each other and the readers, and what the barrier and the read    *)
(* indicator count. Of MRQDLockHistory, for any number of calls: operations *)
(* run once each, in the order of their acceptance, a reader sees its own,  *)
(* and the lock implements the delegation service of Delegation.            *)
(****************************************************************************)
EXTENDS MRQDLockHistory, DXLockProofs, FiniteSetTheorems

(****************************************************************************)
(* The readers: each counter of the read indicator and the write barrier    *)
(* count what they are meant to count, whichever lock the readers wait for. *)
(****************************************************************************)
USE DEF ArrivedLabels, ReaderLabels

LEMMA GroupInRange == \A t \in Threads : GroupOf(t) \in Groups
<1>1. \A t \in Threads : t \in Nat
  BY ThreadsAssumption
<1>2. \A t \in Nat : t % NUMBER_OF_READER_GROUPS \in 0 .. NUMBER_OF_READER_GROUPS - 1
  BY GroupsAssumption
<1>3. QED
  BY <1>1, <1>2 DEF GroupOf, Groups

(* A counter is 0 exactly if no reader of its group has arrived.            *)
LEMMA EmptyGroup ==
    ASSUME CountsOK, NEW g \in Groups
    PROVE  /\ readerGroups[g] \in Nat
           /\ readerGroups[g] <= 0 <=> \A t \in Threads : ~(pc[t] \in ArrivedLabels /\ GroupOf(t) = g)
<1>1. IsFiniteSet(Arrived(g)) /\ readerGroups[g] = Cardinality(Arrived(g))
  BY DEF CountsOK
<1>2. readerGroups[g] \in Nat /\ (readerGroups[g] = 0 <=> Arrived(g) = {})
  BY <1>1, FS_CardinalityType, FS_EmptySet
<1>3. Arrived(g) = {} <=> \A t \in Threads : ~(pc[t] \in ArrivedLabels /\ GroupOf(t) = g)
  BY DEF Arrived
<1>4. QED
  BY <1>2, <1>3

(****************************************************************************)
(* The counters, under a step of the reader t or of any other code.         *)
(****************************************************************************)
GroupsCount ==
    \A g \in Groups :
        IsFiniteSet(Arrived(g)) /\ readerGroups[g] = Cardinality(Arrived(g))

BarrierCounts == IsFiniteSet(Impatient) /\ writeBarrier = Cardinality(Impatient)

LEMMA CountsParts ==
    /\ CountsOK <=> GroupsCount /\ BarrierCounts
    /\ CountsOK' <=> GroupsCount' /\ BarrierCounts'
BY DEF CountsOK, GroupsCount, BarrierCounts

LEMMA StaysCounted ==
    ASSUME GroupsCount, NEW t \in Threads, readerGroups' = readerGroups,
           \A u \in Threads \ {t} : pc'[u] = pc[u],
           pc'[t] \in ArrivedLabels <=> pc[t] \in ArrivedLabels
    PROVE  GroupsCount'
<1>1. \A u \in Threads : pc'[u] \in ArrivedLabels <=> pc[u] \in ArrivedLabels
  OBVIOUS
<1>2. ASSUME NEW g \in Groups PROVE Arrived(g)' = Arrived(g)
  BY <1>1 DEF Arrived
<1>3. QED
  BY <1>2 DEF GroupsCount

LEMMA ArriveCounts ==
    ASSUME GroupsCount, NZITypeOK, DOMAIN pc = Threads, NEW t \in Threads,
           NEW from, NEW to, from \notin ArrivedLabels, to \in ArrivedLabels,
           Arrive(t, from, to)
    PROVE  GroupsCount'
<1>1. /\ pc[t] = from /\ pc'[t] = to /\ \A u \in Threads \ {t} : pc'[u] = pc[u]
      /\ readerGroups' = [readerGroups EXCEPT ![GroupOf(t)] = @ + 1]
  BY DEF Arrive, Move
<1>2. ASSUME NEW g \in Groups
      PROVE  IsFiniteSet(Arrived(g)') /\ readerGroups'[g] = Cardinality(Arrived(g)')
  <2>1. IsFiniteSet(Arrived(g)) /\ readerGroups[g] = Cardinality(Arrived(g))
    BY DEF GroupsCount
  <2>2. CASE GroupOf(t) = g
    <3>1. Arrived(g)' = Arrived(g) \cup {t} /\ t \notin Arrived(g)
      BY <1>1, <2>2 DEF Arrived
    <3>2. readerGroups'[g] = readerGroups[g] + 1
      BY <1>1, <2>2 DEF NZITypeOK
    <3>3. QED
      BY <2>1, <3>1, <3>2, FS_AddElement
  <2>3. CASE GroupOf(t) # g
    <3>1. Arrived(g)' = Arrived(g)
      BY <1>1, <2>3 DEF Arrived
    <3>2. readerGroups'[g] = readerGroups[g]
      BY <1>1, <2>3 DEF NZITypeOK
    <3>3. QED
      BY <2>1, <3>1, <3>2
  <2>4. QED
    BY <2>2, <2>3
<1>3. QED
  BY <1>2 DEF GroupsCount

LEMMA DepartCounts ==
    ASSUME GroupsCount, NZITypeOK, DOMAIN pc = Threads, NEW t \in Threads,
           NEW from, NEW to, from \in ArrivedLabels, to \notin ArrivedLabels,
           Depart(t, from, to)
    PROVE  GroupsCount'
<1>1. /\ pc[t] = from /\ pc'[t] = to /\ \A u \in Threads \ {t} : pc'[u] = pc[u]
      /\ readerGroups' = [readerGroups EXCEPT ![GroupOf(t)] = @ - 1]
  BY DEF Depart, Move
<1>2. ASSUME NEW g \in Groups
      PROVE  IsFiniteSet(Arrived(g)') /\ readerGroups'[g] = Cardinality(Arrived(g)')
  <2>1. IsFiniteSet(Arrived(g)) /\ readerGroups[g] = Cardinality(Arrived(g))
    BY DEF GroupsCount
  <2>2. CASE GroupOf(t) = g
    <3>1. Arrived(g)' = Arrived(g) \ {t} /\ t \in Arrived(g)
      BY <1>1, <2>2 DEF Arrived
    <3>2. readerGroups'[g] = readerGroups[g] - 1
      BY <1>1, <2>2 DEF NZITypeOK
    <3>3. QED
      BY <2>1, <3>1, <3>2, FS_RemoveElement
  <2>3. CASE GroupOf(t) # g
    <3>1. Arrived(g)' = Arrived(g)
      BY <1>1, <2>3 DEF Arrived
    <3>2. readerGroups'[g] = readerGroups[g]
      BY <1>1, <2>3 DEF NZITypeOK
    <3>3. QED
      BY <2>1, <3>1, <3>2
  <2>4. QED
    BY <2>2, <2>3
<1>3. QED
  BY <1>2 DEF GroupsCount

LEMMA RaiseCounts ==
    ASSUME BarrierCounts, ReaderTypeOK, NEW t \in Threads, ~bRaised[t], ReadRaises(t)
    PROVE  BarrierCounts'
<1>1. Impatient' = Impatient \cup {t} /\ t \notin Impatient
  BY DEF ReadRaises, Impatient, ReaderTypeOK
<1>2. QED
  BY <1>1, FS_AddElement DEF BarrierCounts, ReadRaises

LEMMA LowerCounts ==
    ASSUME BarrierCounts, ReaderTypeOK, NEW t \in Threads, bRaised[t], ReadLowers(t)
    PROVE  BarrierCounts'
<1>1. Impatient' = Impatient \ {t} /\ t \in Impatient
  BY DEF ReadLowers, Impatient, ReaderTypeOK
<1>2. QED
  BY <1>1, FS_RemoveElement DEF BarrierCounts, ReadLowers

(****************************************************************************)
(* A step of read_lock or read_unlock. A reader gets in only when it sees   *)
(* the lock free.                                                           *)
(****************************************************************************)
ReadAnyLabels == ReadWaitLabels \cup ReaderLabels

LEMMA ReadStepFacts ==
    ASSUME ReaderTypeOK, RaisedOK, DOMAIN pc = Threads, NEW STATE locked, NEW t \in Threads,
           ReadStep(t, locked)
    PROVE  /\ ReaderTypeOK' /\ group' = group
           /\ pc[t] \in ReadAnyLabels
           /\ pc' = [u \in Threads |-> IF u = t THEN pc'[t] ELSE pc[u]]
           /\ pc'[t] \in ReadAnyLabels \cup {"idle"}
           /\ pc'[t] \in ReaderLabels => pc[t] \in ReaderLabels \/ ~locked
           /\ pc[t] \in ReaderLabels => pc'[t] \in ReaderLabels \cup {"idle"}
           /\ pc'[t] = "idle" => pc[t] = "reading"
<1> USE DEF ReadAnyLabels, ReadWaitLabels, ReaderTypeOK, NZITypeOK, Move, nziVars, patienceVars
<1> USE PatienceAssumption
<1>0. GroupOf(t) \in Groups
  BY GroupInRange
<1>1. CASE ReadArrives(t)
  BY <1>0, <1>1 DEF ReadArrives, Arrive
<1>2. CASE ReadSeesFree(t, locked)
  <2>1. /\ pc[t] = "check" /\ ~locked
        /\ pc' = [pc EXCEPT ![t] = IF bRaised[t] THEN "lower" ELSE "reading"]
        /\ pc'[t] \in {"lower", "reading"}
    BY <1>2 DEF ReadSeesFree
  <2>2. readPatience' \in [Threads -> 0 .. READ_PATIENCE_LIMIT + 1]
    BY <1>2 DEF ReadSeesFree
  <2>3. UNCHANGED <<readerGroups, group, writeBarrier, bRaised>>
    BY <1>2 DEF ReadSeesFree
  <2>4. pc' = [u \in Threads |-> IF u = t THEN pc'[t] ELSE pc[u]]
    BY <2>1
  <2>5. QED
    BY <2>1, <2>2, <2>3, <2>4
<1>3. CASE ReadSeesLocked(t, locked)
  BY <1>3 DEF ReadSeesLocked, readVars
<1>4. CASE ReadDeparts(t) \/ ReadUnlock(t)
  BY <1>0, <1>4 DEF ReadDeparts, ReadUnlock, Depart
<1>5. CASE ReadWaits(t, locked)
  <2>1. /\ pc[t] = "wait"
        /\ pc' = [pc EXCEPT ![t] = IF readPatience[t] = READ_PATIENCE_LIMIT /\ ~bRaised[t]
                                   THEN "raise" ELSE "wait"]
        /\ pc'[t] \in {"raise", "wait"}
    BY <1>5 DEF ReadWaits
  <2>2. readPatience' \in [Threads -> 0 .. READ_PATIENCE_LIMIT + 1]
    BY <1>5 DEF ReadWaits, MorePatience
  <2>3. UNCHANGED <<readerGroups, group, writeBarrier, bRaised>>
    BY <1>5 DEF ReadWaits
  <2>4. pc' = [u \in Threads |-> IF u = t THEN pc'[t] ELSE pc[u]]
    BY <2>1
  <2>5. QED
    BY <2>1, <2>2, <2>3, <2>4
<1>6. CASE ReadRaises(t)
  BY <1>6 DEF ReadRaises
<1>7. CASE ReadLowers(t)
  BY <1>7 DEF ReadLowers
<1>8. CASE ReadRetries(t, locked)
  BY <1>8 DEF ReadRetries, readVars
<1>9. QED
  BY <1>1, <1>2, <1>3, <1>4, <1>5, <1>6, <1>7, <1>8 DEF ReadStep

LEMMA ReadStepCounts ==
    ASSUME ReaderTypeOK, CountsOK, RaisedOK, DOMAIN pc = Threads, NEW STATE locked,
           NEW t \in Threads, ReadStep(t, locked)
    PROVE  CountsOK'
<1> USE DEF Move, nziVars, patienceVars
<1>0. GroupsCount /\ BarrierCounts /\ NZITypeOK
  BY CountsParts DEF ReaderTypeOK
<1>1. UNCHANGED <<writeBarrier, bRaised>> => BarrierCounts'
  BY <1>0 DEF BarrierCounts, Impatient
<1>2. CASE ReadArrives(t)
  BY <1>0, <1>1, <1>2, ArriveCounts, CountsParts DEF ReadArrives
<1>3. CASE ReadSeesFree(t, locked) \/ ReadSeesLocked(t, locked) \/ ReadWaits(t, locked)
           \/ ReadRetries(t, locked)
  <2>1. /\ readerGroups' = readerGroups /\ UNCHANGED <<writeBarrier, bRaised>>
        /\ \A u \in Threads \ {t} : pc'[u] = pc[u]
        /\ pc'[t] \in ArrivedLabels <=> pc[t] \in ArrivedLabels
    BY <1>3 DEF ReadSeesFree, ReadSeesLocked, ReadWaits, ReadRetries, readVars
  <2>2. QED
    BY <1>0, <1>1, <2>1, StaysCounted, CountsParts
<1>4. CASE ReadDeparts(t) \/ ReadUnlock(t)
  BY <1>0, <1>1, <1>4, DepartCounts, CountsParts DEF ReadDeparts, ReadUnlock
<1>5. CASE ReadRaises(t) \/ ReadLowers(t)
  <2>1. /\ readerGroups' = readerGroups
        /\ \A u \in Threads \ {t} : pc'[u] = pc[u]
        /\ pc'[t] \in ArrivedLabels <=> pc[t] \in ArrivedLabels
    BY <1>5 DEF ReadRaises, ReadLowers
  <2>2. GroupsCount'
    BY <1>0, <2>1, StaysCounted
  <2>3. BarrierCounts'
    BY <1>0, <1>5, RaiseCounts, LowerCounts DEF RaisedOK, ReadRaises, ReadLowers
  <2>4. QED
    BY <2>2, <2>3, CountsParts
<1>6. QED
  BY <1>2, <1>3, <1>4, <1>5 DEF ReadStep

LEMMA ReadStepRaised ==
    ASSUME ReaderTypeOK, RaisedOK, DOMAIN pc = Threads, NEW STATE locked, NEW t \in Threads,
           ReadStep(t, locked)
    PROVE  RaisedOK'
<1> USE DEF RaisedOK, ReaderTypeOK, Move, nziVars, patienceVars
<1>1. CASE ReadArrives(t) \/ ReadDeparts(t) \/ ReadUnlock(t)
  BY <1>1 DEF ReadArrives, Arrive, ReadDeparts, ReadUnlock, Depart
<1>2. CASE ReadSeesFree(t, locked)
  BY <1>2 DEF ReadSeesFree
<1>3. CASE ReadSeesLocked(t, locked) \/ ReadRetries(t, locked)
  BY <1>3 DEF ReadSeesLocked, ReadRetries, readVars
<1>4. CASE ReadWaits(t, locked)
  BY <1>4 DEF ReadWaits
<1>5. CASE ReadRaises(t) \/ ReadLowers(t)
  BY <1>5 DEF ReadRaises, ReadLowers
<1>6. QED
  BY <1>1, <1>2, <1>3, <1>4, <1>5 DEF ReadStep

(* Code that is not the reader's leaves the reader's variables alone.       *)
LEMMA OtherStepCounts ==
    ASSUME ReaderTypeOK, CountsOK, RaisedOK, NEW t \in Threads,
           UNCHANGED <<readerGroups, writeBarrier, bRaised>>,
           \A u \in Threads \ {t} : pc'[u] = pc[u],
           pc[t] \notin ReadAnyLabels, pc'[t] \notin ReadAnyLabels \ {"arrive"}
    PROVE  CountsOK' /\ RaisedOK'
<1> USE DEF ReadAnyLabels, ReadWaitLabels
<1>1. GroupsCount /\ BarrierCounts
  BY CountsParts
<1>2. GroupsCount'
  BY <1>1, StaysCounted
<1>3. BarrierCounts'
  BY <1>1 DEF BarrierCounts, Impatient
<1>4. RaisedOK'
  BY DEF RaisedOK
<1>5. QED
  BY <1>2, <1>3, <1>4, CountsParts

(* Nobody has arrived and nobody is impatient at first.                     *)
LEMMA ReadersAtFirst ==
    ASSUME ReaderInit, pc = [t \in Threads |-> "idle"]
    PROVE  ReaderTypeOK /\ CountsOK /\ RaisedOK /\ WaitIsProgress
<1> USE GroupsAssumption, PatienceAssumption DEF ReaderInit, NZIInit
<1>1. ReaderTypeOK
  <2>1. bRaised \in [Threads -> BOOLEAN]
    BY Zenon
  <2>2. NZITypeOK
    BY DEF NZITypeOK, Groups
  <2>3. writeBarrier \in Int /\ readPatience \in [Threads -> 0 .. READ_PATIENCE_LIMIT + 1]
    OBVIOUS
  <2>4. QED
    BY <2>1, <2>2, <2>3 DEF ReaderTypeOK
<1>2. CountsOK
  <2>1. \A g \in Groups : Arrived(g) = {}
    BY DEF Arrived
  <2>2. Impatient = {}
    BY DEF Impatient
  <2>3. QED
    BY <2>1, <2>2, FS_EmptySet DEF CountsOK
<1>3. RaisedOK /\ WaitIsProgress
  BY DEF RaisedOK, WaitIsProgress
<1>4. QED
  BY <1>1, <1>2, <1>3

(****************************************************************************)
(* The writer that waits for the readers, one group after the other.        *)
(****************************************************************************)
LEMMA GroupSeenEmpty ==
    ASSUME ReaderTypeOK, CountsOK, WaitIsProgress, DOMAIN pc = Threads,
           NEW t \in Threads, NEW next, next \notin ReaderLabels \cup {"readers"},
           ReadersAreOut(t, "readers", next)
    PROVE  /\ ReaderTypeOK' /\ UNCHANGED <<readerGroups, writeBarrier, bRaised>>
           /\ \A u \in Threads \ {t} : pc'[u] = pc[u]
           /\ pc[t] = "readers" /\ pc'[t] \in {"readers", next}
           /\ WaitIsProgress'
           /\ pc'[t] = next => \A u \in Threads : pc[u] \notin ReaderLabels
<1> USE DEF Move, nziVars, patienceVars
<1>1. /\ pc[t] = "readers" /\ readerGroups[group[t]] <= 0 /\ group[t] \in Groups
      /\ pc' = [pc EXCEPT ![t] = IF group[t] + 1 < NUMBER_OF_READER_GROUPS
                                 THEN "readers" ELSE next]
      /\ group' = [group EXCEPT ![t] = IF @ + 1 < NUMBER_OF_READER_GROUPS THEN @ + 1 ELSE 0]
      /\ UNCHANGED <<readerGroups, writeBarrier, bRaised, readPatience>>
  BY DEF ReadersAreOut, GroupIsEmpty, ReaderTypeOK, NZITypeOK
<1>2. ReaderTypeOK'
  BY <1>1, GroupsAssumption DEF ReaderTypeOK, NZITypeOK, Groups
<1>3. \A u \in Threads : pc[u] \in ReaderLabels => GroupOf(u) # group[t]
  BY <1>1, EmptyGroup
<1>4. \A u \in Threads : pc[u] \in ReaderLabels => group[t] <= GroupOf(u)
  BY <1>1 DEF WaitIsProgress
<1>5. \A u \in Threads : pc[u] \in ReaderLabels => group[t] + 1 <= GroupOf(u)
  BY <1>1, <1>3, <1>4, GroupInRange DEF Groups
<1>6. CASE group[t] + 1 < NUMBER_OF_READER_GROUPS
  BY <1>1, <1>2, <1>5, <1>6 DEF WaitIsProgress, ReaderTypeOK, NZITypeOK
<1>7. CASE ~(group[t] + 1 < NUMBER_OF_READER_GROUPS)
  <2>1. \A u \in Threads : pc[u] \notin ReaderLabels
    BY <1>1, <1>5, <1>7, GroupInRange, GroupsAssumption DEF Groups
  <2>2. QED
    BY <1>1, <1>2, <1>7, <2>1 DEF WaitIsProgress, ReaderTypeOK, NZITypeOK
<1>8. QED
  BY <1>6, <1>7

USE DEF Labels, HolderLabels, ClaimLabels, OpenLabels, FlushLabels, InsideLabels
USE DEF WriterLabels, ReaderLabels, ReadWaitLabels, ReadAnyLabels

(****************************************************************************)
(* The steps of this lock are steps of a queue-delegation lock.             *)
(****************************************************************************)
LEMMA CallBegins ==
    ASSUME NEW t \in Threads, Call(t)
    PROVE  Begins(t)
<1>1. PICK k \in KindsOf[t] : Begin(t, k, IF k = "read" THEN "arrive" ELSE "barrier")
  BY DEF Call
<1>2. k \in Kinds
  BY KindsAssumption
<1>3. (IF k = "read" THEN "arrive" ELSE "barrier") \in {"arrive", "barrier"}
  OBVIOUS
<1>4. QED
  BY <1>1, <1>2, <1>3 DEF Call, Begins, offerVars

LEMMA AcceptStepIs ==
    ASSUME NEW t \in Threads, AcceptStep(t)
    PROVE  \/ Wins(t, "try")
           \/ OfferClaims(t) /\ UNCHANGED <<lockWord, clientVars>>
BY DEF AcceptStep, TryWins, OfferIsAccepted, Wins, offerVars

LEMMA RunStepIs ==
    ASSUME NEW t \in Threads, RunStep(t)
    PROVE  \/ RunsOwn(t) /\ RunOwn(t)
           \/ FlushReads(t) /\ FlushRuns(t) /\ UNCHANGED <<lockWord, clientVars>>
BY DEF RunStep, RunOwn, RunsOwn, FlushRuns, offerVars

LEMMA QuietStepIs ==
    ASSUME DXTypeOK, ReaderTypeOK, RaisedOK, NEW t \in Threads, QuietStep(t)
    PROVE  \/ Quiet(t) \/ Wins(t, "set") \/ Releases(t)
           \/ /\ Offers(t) \/ ResetCount(t) \/ Flushes(t)
              /\ UNCHANGED <<lockWord, clientVars>>
<1> USE DEF queueVars, offerVars, flushVars, clientVars
<1>0. closed \in BOOLEAN /\ DOMAIN pc = Threads
  BY DEF DXTypeOK, QueueTypeOK
<1>1. CASE Barrier(t) \/ Look(t) \/ WaitForReaders(t) \/ LeaveCritical(t)
  <2>1. /\ UNCHANGED <<lockWord, calls, kind, elementCount, request, data, index,
                       current, toRead, flushClosed>>
        /\ closed' = closed
    BY <1>1 DEF Barrier, Look, WaitForReaders, LeaveCritical, SeesFree, SeesLocked,
                TestAndSetLoses
  <2>2. CASE Barrier(t)
    BY <1>0, <2>1, <2>2, MoveIsQuiet DEF Barrier, BarrierIsOff, QuietMove, NotAccepted
  <2>3. CASE Look(t)
    <3>1. \/ QuietMove(t, "look", "try") \/ QuietMove(t, "look", "while")
          \/ QuietMove(t, "while", "look") \/ QuietMove(t, "while", "offer")
          \/ QuietMove(t, "spin", "set") \/ QuietMove(t, "try", "look")
          \/ QuietMove(t, "set", "spin")
      BY <2>3 DEF Look, SeesFree, SeesLocked, TestAndSetLoses, QuietMove, NotAccepted
    <3>2. QED
      BY <1>0, <2>1, <3>1, MoveIsQuiet
  <2>4. CASE WaitForReaders(t)
    <3>1. PICK to \in {"readers", IF kind[t] = "exclusive" THEN "critical" ELSE "own"} :
              Move(t, "readers", to)
      BY <2>4 DEF WaitForReaders, ReadersAreOut, GroupIsEmpty
    <3>2. QuietMove(t, "readers", to)
      BY <3>1 DEF QuietMove, NotAccepted
    <3>3. QED
      BY <1>0, <2>1, <3>2, MoveIsQuiet
  <2>5. CASE LeaveCritical(t)
    BY <1>0, <2>1, <2>5, MoveIsQuiet DEF LeaveCritical, QuietMove, NotAccepted
  <2>6. QED
    BY <1>1, <2>2, <2>3, <2>4, <2>5
<1>2. CASE SetWins(t)
  BY <1>2 DEF SetWins, Wins
<1>3. CASE Offer(t)
  <2>1. CASE OfferSeesClosed(t, "while") \/ OfferSeesOpen(t) \/ OfferCloses(t, "while")
    <3>1. /\ UNCHANGED <<lockWord, calls, kind, elementCount, request, data, index,
                         current, toRead, flushClosed>>
          /\ closed' = closed \/ closed' = TRUE
      BY <1>3, <2>1 DEF Offer, OfferSeesClosed, OfferSeesOpen, OfferCloses
    <3>2. \/ QuietMove(t, "offer", "while") \/ QuietMove(t, "offer", "offerAdd")
          \/ QuietMove(t, "offerClose", "while")
      BY <2>1 DEF OfferSeesClosed, OfferSeesOpen, OfferCloses, QuietMove, NotAccepted
    <3>3. QED
      BY <1>0, <3>1, <3>2, MoveIsQuiet
  <2>2. CASE OfferOverflows(t) \/ OfferWritesData(t, OpOf(t)) \/ OfferPublishes(t, "idle")
    BY <1>3, <2>2 DEF Offer, Offers
  <2>3. QED
    BY <1>3, <2>1, <2>2 DEF Offer
<1>4. CASE Reset(t)
  <2>1. CASE ResetCount(t)
    BY <1>4, <2>1 DEF Reset
  <2>2. CASE ResetClosed(t, "readers")
    <3>1. /\ UNCHANGED <<lockWord, calls, kind, elementCount, request, data, index,
                         current, toRead, flushClosed>>
          /\ closed' = FALSE
      BY <1>4, <2>2 DEF Reset, ResetClosed
    <3>2. QuietMove(t, "resetClosed", "readers")
      BY <2>2 DEF ResetClosed, QuietMove, NotAccepted
    <3>3. QED
      BY <3>1, <3>2, MoveIsQuiet
  <2>3. QED
    BY <1>4, <2>1, <2>2 DEF Reset
<1>5. CASE Flush(t)
  BY <1>5 DEF Flush, Flushes
<1>6. CASE Unlock(t)
  BY <1>6 DEF Unlock, Releases, ReleaseLockWord
<1>7. CASE Read(t)
  <2>1. /\ UNCHANGED <<lockWord, calls, kind, elementCount, request, data, index,
                       current, toRead, flushClosed>>
        /\ closed' = closed
    BY <1>7 DEF Read
  <2>2. QuietMove(t, pc[t], pc'[t])
    BY <1>0, <1>7, ReadStepFacts DEF Read, QuietMove, Move, NotAccepted
  <2>3. QED
    BY <1>0, <2>1, <2>2, MoveIsQuiet
<1>8. QED
  BY <1>1, <1>2, <1>3, <1>4, <1>5, <1>6, <1>7 DEF QuietStep

LEMMA StepIsDXStep ==
    ASSUME DXTypeOK, ReaderTypeOK, RaisedOK, NEW t \in Threads, Call(t) \/ Step(t)
    PROVE  DXStep(t)
BY CallBegins, AcceptStepIs, RunStepIs, QuietStepIs DEF Step, DXStep, InQueue

LEMMA HStepIsDXHStep ==
    ASSUME DXTypeOK, ReaderTypeOK, RaisedOK, NEW t \in Threads, HCall(t) \/ HStep(t)
    PROVE  DXHStep(t)
<1> USE DEF historyVars
<1>1. CASE HCall(t)
  BY <1>1, CallBegins DEF HCall, DXHStep, Works
<1>2. CASE HAccept(t)
  BY <1>2, AcceptStepIs DEF HAccept, DXHStep, Accepts
<1>3. CASE HRun(t)
  BY <1>3 DEF HRun, RunOwn, RunsOwn, FlushRuns, DXHStep, RunsOne, offerVars
<1>4. CASE HQuiet(t)
  BY <1>4, QuietStepIs DEF HQuiet, DXHStep, Works
<1>5. QED
  BY <1>1, <1>2, <1>3, <1>4 DEF HStep

(****************************************************************************)
(* The readers. A step is the reader's, or looks at one group of readers,   *)
(* or leaves the read indicator and the barrier alone.                      *)
(****************************************************************************)
Apart(t) ==
    /\ UNCHANGED readVars
    /\ pc' = [u \in Threads |-> IF u = t THEN pc'[t] ELSE pc[u]]
    /\ pc'[t] \in Labels
    /\ pc[t] \notin ReadAnyLabels \cup {"readers"}
    /\ pc'[t] \notin ReadAnyLabels \ {"arrive"}
    /\ pc'[t] \in WriterLabels => pc[t] \in WriterLabels

LEMMA StepOfReaders ==
    ASSUME pc \in [Threads -> Labels], NEW t \in Threads, Call(t) \/ Step(t)
    PROVE  Read(t) \/ WaitForReaders(t) \/ Apart(t)
<1> USE DEF Move, Apart
<1>1. CASE Call(t)
  BY <1>1 DEF Call, Begin
<1>2. CASE AcceptStep(t) \/ RunStep(t)
  BY <1>2 DEF AcceptStep, TryWins, TestAndSetWins, OfferIsAccepted, OfferClaims, RunStep,
              RunOwn, FlushRuns, FlushReads
<1>3. CASE Barrier(t)
  BY <1>3 DEF Barrier, BarrierIsOff
<1>4. CASE Look(t)
  BY <1>4 DEF Look, SeesFree, SeesLocked, TestAndSetLoses
<1>5. CASE SetWins(t) \/ LeaveCritical(t) \/ Unlock(t) \/ Reset(t)
  BY <1>5 DEF SetWins, TestAndSetWins, LeaveCritical, Unlock, Reset, ResetCount, ResetClosed
<1>6. CASE Offer(t)
  BY <1>6 DEF Offer, OfferSeesClosed, OfferSeesOpen, OfferOverflows, OfferCloses,
              OfferWritesData, OfferPublishes
<1>7. CASE Flush(t)
  BY <1>7 DEF Flush, FlushStarts, FlushClears, FlushRereads, FlushSwaps, FlushReturns
<1>8. QED
  BY <1>1, <1>2, <1>3, <1>4, <1>5, <1>6, <1>7 DEF Step, QuietStep

ReadersOK ==
    /\ pc \in [Threads -> Labels]
    /\ ReaderTypeOK
    /\ CountsOK
    /\ RaisedOK
    /\ WaitIsProgress
    /\ ReadersExcludeWriters

(* A reader gets in only while the lock word is clear, and a writer passes  *)
(* the wait only when it has seen every group empty with the word set.      *)
LEMMA ReadersOKStep ==
    ASSUME ReadersOK, MutualExclusion, NEW t \in Threads, Call(t) \/ Step(t)
    PROVE  ReadersOK'
<1> USE DEF ReadersOK
<1>1. CASE Read(t)
  <2>1. /\ ReaderTypeOK' /\ group' = group
        /\ pc[t] \in ReadAnyLabels
        /\ pc' = [u \in Threads |-> IF u = t THEN pc'[t] ELSE pc[u]]
        /\ pc'[t] \in ReadAnyLabels \cup {"idle"}
        /\ pc'[t] \in ReaderLabels => pc[t] \in ReaderLabels \/ ~lockWord
    BY <1>1, ReadStepFacts DEF Read
  <2>2. CountsOK' /\ RaisedOK'
    BY <1>1, ReadStepCounts, ReadStepRaised DEF Read
  <2>3. \A u \in Threads \ {t} : pc'[u] = pc[u]
    BY <2>1
  <2>4. \A u \in Threads : pc'[u] \in WriterLabels \cup {"readers"} =>
            pc'[u] = pc[u] /\ lockWord
    BY <2>1, <2>3 DEF MutualExclusion
  <2>5. WaitIsProgress'
    BY <2>1, <2>3, <2>4 DEF WaitIsProgress
  <2>6. ReadersExcludeWriters'
    BY <2>1, <2>3, <2>4 DEF ReadersExcludeWriters
  <2>7. pc' \in [Threads -> Labels]
    BY <2>1
  <2>8. QED
    BY <2>1, <2>2, <2>5, <2>6, <2>7
<1>2. CASE WaitForReaders(t)
  <2> DEFINE next == IF kind[t] = "exclusive" THEN "critical" ELSE "own"
  <2>1. next \notin ReaderLabels \cup {"readers"} /\ next \in {"critical", "own"}
    OBVIOUS
  <2>2. ReadersAreOut(t, "readers", next)
    BY <1>2 DEF WaitForReaders
  <2> HIDE DEF next
  <2>3. /\ ReaderTypeOK' /\ UNCHANGED <<readerGroups, writeBarrier, bRaised>>
        /\ \A u \in Threads \ {t} : pc'[u] = pc[u]
        /\ pc[t] = "readers" /\ pc'[t] \in {"readers", next}
        /\ WaitIsProgress'
        /\ pc'[t] = next => \A u \in Threads : pc[u] \notin ReaderLabels
    BY <2>1, <2>2, GroupSeenEmpty
  <2>4. CountsOK' /\ RaisedOK'
    BY <2>1, <2>3, OtherStepCounts
  <2>5. ReadersExcludeWriters'
    BY <2>1, <2>3 DEF ReadersExcludeWriters
  <2>6. pc' \in [Threads -> Labels]
    BY <2>1, <2>2 DEF ReadersAreOut, GroupIsEmpty, Move
  <2>7. QED
    BY <2>3, <2>4, <2>5, <2>6
<1>3. CASE Apart(t)
  <2>1. /\ UNCHANGED <<readerGroups, group, writeBarrier, bRaised, readPatience>>
        /\ \A u \in Threads \ {t} : pc'[u] = pc[u]
        /\ pc[t] \notin ReadAnyLabels \cup {"readers"}
        /\ pc'[t] \notin ReadAnyLabels \ {"arrive"}
        /\ pc'[t] \in WriterLabels => pc[t] \in WriterLabels
        /\ pc' \in [Threads -> Labels]
    BY <1>3 DEF Apart, readVars, nziVars, patienceVars
  <2>2. CountsOK' /\ RaisedOK'
    BY <2>1, OtherStepCounts
  <2>3. ReaderTypeOK'
    BY <2>1 DEF ReaderTypeOK, NZITypeOK
  <2>4. WaitIsProgress'
    BY <2>1, GroupInRange DEF WaitIsProgress, Groups
  <2>5. ReadersExcludeWriters'
    BY <2>1 DEF ReadersExcludeWriters
  <2>6. QED
    BY <2>1, <2>2, <2>3, <2>4, <2>5
<1>4. QED
  BY <1>1, <1>2, <1>3, StepOfReaders

(****************************************************************************)
(* The kinds of the calls.                                                  *)
(****************************************************************************)
FitsCall(l, k) ==
    /\ KindFits(l, k)
    /\ l # "idle" => (k = "read" <=> l \in ReadAnyLabels)

LEMMA FitsCallAll == KindsOK /\ ReadsAreReads <=> \A t \in Threads : FitsCall(pc[t], kind[t])
BY DEF KindsOK, ReadsAreReads, FitsCall

LEMMA StepKeepsKind ==
    ASSUME TypeOK, RaisedOK, NEW t \in Threads, Step(t), FitsCall(pc[t], kind[t])
    PROVE  /\ kind' = kind
           /\ \A u \in Threads \ {t} : pc'[u] = pc[u]
           /\ FitsCall(pc'[t], kind[t])
<1> USE DEF TypeOK, Move, FitsCall, KindFits, clientVars
<1>1. CASE AcceptStep(t) \/ RunStep(t)
  BY <1>1 DEF AcceptStep, TryWins, TestAndSetWins, OfferIsAccepted, OfferClaims, RunStep,
              RunOwn, FlushRuns, FlushReads
<1>2. CASE Barrier(t)
  <2>1. kind[t] \in {"delegate", "exclusive"}
    BY <1>2, KindsAssumption DEF Barrier, BarrierIsOff
  <2>2. QED
    BY <1>2, <2>1 DEF Barrier, BarrierIsOff
<1>3. CASE Look(t)
  BY <1>3 DEF Look, SeesFree, SeesLocked, TestAndSetLoses
<1>4. CASE SetWins(t) \/ LeaveCritical(t) \/ Unlock(t) \/ Reset(t)
  BY <1>4 DEF SetWins, TestAndSetWins, LeaveCritical, Unlock, Reset, ResetCount, ResetClosed
<1>5. CASE Offer(t)
  BY <1>5 DEF Offer, OfferSeesClosed, OfferSeesOpen, OfferOverflows, OfferCloses,
              OfferWritesData, OfferPublishes
<1>6. CASE Flush(t)
  BY <1>6 DEF Flush, FlushStarts, FlushClears, FlushRereads, FlushSwaps, FlushReturns
<1>7. CASE WaitForReaders(t)
  BY <1>7 DEF WaitForReaders, ReadersAreOut, GroupIsEmpty
<1>8. CASE Read(t)
  BY <1>8, ReadStepFacts DEF Read
<1>9. QED
  BY <1>1, <1>2, <1>3, <1>4, <1>5, <1>6, <1>7, <1>8 DEF Step, QuietStep

LEMMA KindsStep ==
    ASSUME TypeOK, RaisedOK, KindsOK, ReadsAreReads, NEW t \in Threads, Call(t) \/ Step(t)
    PROVE  KindsOK' /\ ReadsAreReads'
<1>0. \A u \in Threads : FitsCall(pc[u], kind[u])
  BY FitsCallAll
<1>1. CASE Call(t)
  <2>1. PICK k \in KindsOf[t] : Begin(t, k, IF k = "read" THEN "arrive" ELSE "barrier")
    BY <1>1 DEF Call
  <2>2. FitsCall(IF k = "read" THEN "arrive" ELSE "barrier", k)
    BY KindsAssumption DEF FitsCall, KindFits
  <2>3. /\ pc'[t] = (IF k = "read" THEN "arrive" ELSE "barrier") /\ kind'[t] = k
        /\ \A u \in Threads \ {t} : pc'[u] = pc[u] /\ kind'[u] = kind[u]
    BY <2>1 DEF Begin, Move, TypeOK
  <2>4. \A u \in Threads : FitsCall(pc'[u], kind'[u])
    BY <1>0, <2>2, <2>3
  <2>5. QED
    BY <2>4 DEF FitsCall, KindsOK, ReadsAreReads, KindFits
<1>2. CASE Step(t)
  <2>1. \A u \in Threads : FitsCall(pc'[u], kind'[u])
    BY <1>0, <1>2, StepKeepsKind
  <2>2. QED
    BY <2>1 DEF FitsCall, KindsOK, ReadsAreReads, KindFits
<1>3. QED
  BY <1>1, <1>2

(****************************************************************************)
(* The inductive invariant of MRQDLock, and what follows from it.           *)
(****************************************************************************)
IInv == DXTypeOK /\ ReadersOK /\ MutualExclusion /\ LocalsOK /\ SlotsOK /\ KindsOK /\ ReadsAreReads

LEMMA TypeOKParts == DXTypeOK /\ ReadersOK => TypeOK
BY DEF DXTypeOK, ReadersOK, TypeOK

LEMMA InitIInv == Init => IInv
<1> SUFFICES ASSUME Init PROVE IInv
  OBVIOUS
<1> USE CapacityAssumption, MaxCallsAssumption, PatienceAssumption, GroupsAssumption
<1> USE DEF Init, DXInit, TATASInit, QueueInit, ReaderInit, NZIInit
<1>1. pc = [t \in Threads |-> "idle"]
  OBVIOUS
<1>2. DXTypeOK
  <2>1. closed \in BOOLEAN /\ lockWord \in BOOLEAN
    BY Zenon
  <2>2. elementCount \in Nat /\ data \in [Slots -> Ops \cup {NoOp}]
    OBVIOUS
  <2>3. 0 \in Slots /\ 0 \in 0 .. CAPACITY /\ 0 \in 0 .. MaxCalls
    BY DEF Slots
  <2>4. request \in [Slots -> BOOLEAN] /\ flushClosed \in [Threads -> BOOLEAN]
    BY Zenon
  <2>5. /\ index \in [Threads -> Slots]
        /\ current \in [Threads -> 0 .. CAPACITY]
        /\ toRead \in [Threads -> 0 .. CAPACITY]
        /\ calls \in [Threads -> 0 .. MaxCalls]
    BY <2>3
  <2>6. DOMAIN pc = Threads /\ kind \in [Threads -> Kinds \cup {"none"}]
    OBVIOUS
  <2>7. QED
    BY <2>1, <2>2, <2>4, <2>5, <2>6 DEF DXTypeOK, QueueTypeOK
<1>3. ReadersOK
  <2>1. ReaderTypeOK /\ CountsOK /\ RaisedOK /\ WaitIsProgress
    BY <1>1, ReadersAtFirst
  <2>2. ReadersExcludeWriters /\ pc \in [Threads -> Labels]
    BY <1>1 DEF ReadersExcludeWriters
  <2>3. QED
    BY <2>1, <2>2 DEF ReadersOK
<1>4. MutualExclusion
  BY <1>1 DEF MutualExclusion
<1>5. LocalsOK /\ KindsOK /\ ReadsAreReads
  BY <1>1 DEF LocalsOK, KindsOK, KindFits, ReadsAreReads
<1>6. SlotsOK
  BY <1>1 DEF SlotsOK, Sealed
<1>7. QED
  BY <1>2, <1>3, <1>4, <1>5, <1>6 DEF IInv

LEMMA IInvStep == IInv /\ [Next]_vars => IInv'
<1> SUFFICES ASSUME IInv, [Next]_vars PROVE IInv'
  OBVIOUS
<1>1. CASE UNCHANGED vars
  <2>1. UNCHANGED <<pc, lockWord, closed, elementCount, request, data, index, current, toRead,
                    flushClosed, calls, kind, readerGroups, group, writeBarrier, bRaised,
                    readPatience>>
    BY <1>1 DEF vars, queueVars, offerVars, flushVars, clientVars, readVars, nziVars, patienceVars
  <2>2. DXTypeOK' /\ MutualExclusion' /\ LocalsOK' /\ KindsOK' /\ ReadsAreReads'
    BY <2>1 DEF IInv, DXTypeOK, QueueTypeOK, MutualExclusion, LocalsOK, KindsOK, ReadsAreReads
  <2>3. SlotsOK'
    BY <2>1 DEF IInv, SlotsOK, Sealed, OpenTo, Limit
  <2>4. ReadersOK'
    BY <2>1 DEF IInv, ReadersOK, ReaderTypeOK, NZITypeOK, CountsOK, Arrived, Impatient,
                RaisedOK, WaitIsProgress, ReadersExcludeWriters
  <2>5. QED
    BY <2>2, <2>3, <2>4 DEF IInv
<1>2. ASSUME NEW t \in Threads, Call(t) \/ Step(t) PROVE IInv'
  <2>1. DXStep(t)
    BY <1>2, StepIsDXStep DEF IInv, ReadersOK
  <2>2. DXTypeOK' /\ MutualExclusion' /\ LocalsOK' /\ SlotsOK'
    BY <2>1, DXTypeOKStep, ExclusionStep, LocalsOKStep, SlotsOKStep DEF IInv
  <2>3. ReadersOK'
    BY <1>2, ReadersOKStep DEF IInv
  <2>4. KindsOK' /\ ReadsAreReads'
    BY <1>2, TypeOKParts, KindsStep DEF IInv, ReadersOK
  <2>5. QED
    BY <2>2, <2>3, <2>4 DEF IInv
<1>3. QED
  BY <1>1, <1>2 DEF Next

LEMMA Invariant == Spec => []IInv
BY InitIInv, IInvStep, PTL DEF Spec

(* Every variable stays in its type.                                        *)
THEOREM TypeCorrect == Spec => []TypeOK
<1>1. IInv => TypeOK
  BY TypeOKParts DEF IInv
<1>2. QED
  BY <1>1, Invariant, PTL

(* No two threads hold the lock at once, and the lock word is set exactly   *)
(* while one does: ardxlock_write_with_response and write_read_lock.        *)
THEOREM Exclusion == Spec => []MutualExclusion
<1>1. IInv => MutualExclusion
  BY DEF IInv
<1>2. QED
  BY <1>1, Invariant, PTL

(* No operation, critical section or flush overlaps a reader's section:     *)
(* readers arrive and then look, writers set the word and then wait for     *)
(* group after group, for any number of either.                             *)
THEOREM ReadersAndWriters == Spec => []ReadersExcludeWriters
<1>1. IInv => ReadersExcludeWriters
  BY DEF IInv, ReadersOK
<1>2. QED
  BY <1>1, Invariant, PTL

(* The write barrier counts the readers that have raised it.                *)
THEOREM BarrierCounted == Spec => []BarrierCountsImpatient
<1>1. IInv => BarrierCountsImpatient
  BY DEF IInv, ReadersOK, CountsOK, Impatient, BarrierCountsImpatient
<1>2. QED
  BY <1>1, Invariant, PTL

(* With everybody idle the lock word, the barrier and every counter are     *)
(* clear and the queue is closed and empty: no path through read_lock       *)
(* leaves an arrival or a raise behind, and no offer or flush a request.    *)
THEOREM Quiescence == Spec => []QuiescentIsClean
<1>1. ASSUME IInv, \A t \in Threads : pc[t] = "idle"
      PROVE  /\ ~lockWord
             /\ writeBarrier = 0
             /\ \A g \in Groups : readerGroups[g] = 0
             /\ elementCount >= CAPACITY
             /\ \A i \in Slots : ~request[i]
  <2>1. ~lockWord
    BY <1>1 DEF IInv, MutualExclusion
  <2>2. Impatient = {}
    BY <1>1 DEF IInv, ReadersOK, RaisedOK, Impatient
  <2>3. writeBarrier = 0
    BY <1>1, <2>2, FS_EmptySet DEF IInv, ReadersOK, CountsOK
  <2>4. \A g \in Groups : readerGroups[g] = 0
    BY <1>1, EmptyGroup DEF IInv, ReadersOK, ArrivedLabels
  <2>5. Sealed
    BY <1>1 DEF IInv, SlotsOK, OpenLabels, HolderLabels
  <2>6. QED
    BY <2>1, <2>3, <2>4, <2>5 DEF Sealed
<1>2. IInv => QuiescentIsClean
  BY <1>1 DEF QuiescentIsClean
<1>3. QED
  BY <1>2, Invariant, PTL

(****************************************************************************)
(* The history. What the lock does with it is MRQDLock's behaviour, so that *)
(* the invariant above holds of it too.                                     *)
(****************************************************************************)
LEMMA HNextIsNext == [HNext]_allVars => [Next]_vars
BY DEF HNext, HCall, HStep, HAccept, HRun, HQuiet, Finished, allVars, Next, Step, RunStep

LEMMA HistoryIsMRQDLock == HSpec => Spec
<1>1. HInit => Init
  BY DEF HInit
<1>2. QED
  BY <1>1, HNextIsNext, PTL DEF HSpec, Spec

HInv == HistoryTypeOK /\ HistoryInv

LEMMA InitHInv == HInit => HInv
<1> SUFFICES ASSUME HInit PROVE HInv
  OBVIOUS
<1> USE DEF HInit, Init, DXInit
<1>1. accepted = <<>> /\ log = <<>> /\ Len(accepted) = 0 /\ Len(log) = 0
  OBVIOUS
<1>2. HistoryTypeOK
  BY <1>1 DEF HistoryTypeOK
<1>3. Owed
  BY <1>1 DEF Owed, LogFollows
<1>4. OwnHaveRun /\ AcceptedOnce
  BY <1>1 DEF OwnHaveRun, AcceptedOnce
<1>5. QED
  BY <1>2, <1>3, <1>4 DEF HInv, HistoryInv

LEMMA IInvIsDXInv ==
    ASSUME IInv, HistoryTypeOK
    PROVE  DXInv
BY DEF IInv, DXInv

LEMMA HInvStep == IInv /\ HInv /\ [HNext]_allVars => HInv'
<1> SUFFICES ASSUME IInv, HInv, [HNext]_allVars PROVE HInv'
  OBVIOUS
<1>1. CASE UNCHANGED allVars
  <2>1. UNCHANGED <<pc, lockWord, elementCount, request, data, index, current, toRead,
                    flushClosed, calls, kind, accepted, log>>
    BY <1>1 DEF allVars, vars, queueVars, offerVars, flushVars, clientVars, historyVars
  <2>2. HistoryTypeOK' /\ OwnHaveRun' /\ AcceptedOnce'
    BY <2>1 DEF HInv, HistoryTypeOK, HistoryInv, OwnHaveRun, AcceptedOnce
  <2>3. Calm
    BY <2>1 DEF Calm, OwnFirst, Ran, OpOf, Limit
  <2>4. Owed'
    BY <2>3, CalmKeepsOwed DEF HInv, HistoryInv
  <2>5. QED
    BY <2>2, <2>4 DEF HInv, HistoryInv
<1>2. ASSUME NEW t \in Threads, HCall(t) \/ HStep(t) PROVE HInv'
  <2>1. DXInv /\ Owed /\ OwnHaveRun /\ AcceptedOnce
    BY IInvIsDXInv DEF HInv, HistoryInv
  <2>2. DXHStep(t)
    BY <1>2, HStepIsDXHStep DEF IInv, ReadersOK
  <2>3. HistoryTypeOK' /\ Owed' /\ OwnHaveRun' /\ AcceptedOnce'
    BY <2>1, <2>2, HistoryTypeStep, OwedStep, OwnHaveRunStep, AcceptedOnceStep
  <2>4. QED
    BY <2>3 DEF HInv, HistoryInv
<1>3. CASE Finished
  BY <1>1, <1>3 DEF Finished
<1>4. QED
  BY <1>1, <1>2, <1>3 DEF HNext

LEMMA HInvariant == HSpec => [](IInv /\ HInv)
<1>1. HSpec => []IInv
  BY HistoryIsMRQDLock, Invariant
<1>2. QED
  BY <1>1, InitHInv, HInvStep, PTL DEF HSpec

(* Every operation runs at most once and in the order of its acceptance.    *)
THEOREM RunsInOrder == HSpec => []RunInOrder
<1>1. IInv /\ HInv => RunInOrder
  BY OwedInOrder DEF HInv, HistoryInv
<1>2. QED
  BY <1>1, HInvariant, PTL

(* A free lock owes nothing: what a helper or an offer was promised has     *)
(* run, so that a reader that sees the lock free misses nothing.            *)
THEOREM NothingLeftBehind == HSpec => []AllAcceptedHaveRun
<1>1. IInv /\ HInv => AllAcceptedHaveRun
  BY IInvIsDXInv, FreeLogIsAccepted DEF HInv, HistoryInv, AllAcceptedHaveRun
<1>2. QED
  BY <1>1, HInvariant, PTL

(* A reader, and a thread in its critical section, sees the effect of       *)
(* everything it has delegated before.                                      *)
THEOREM SeesItsDelegations == HSpec => []OwnDelegationsPrecede
<1>1. IInv /\ HInv => OwnDelegationsPrecede
  BY DEF IInv, KindsOK, KindFits, HInv, HistoryInv, OwnHaveRun, OwnDelegationsPrecede
<1>2. QED
  BY <1>1, HInvariant, PTL

(****************************************************************************)
(* The lock implements the delegation service with readers: what a step of  *)
(* the lock is seen from outside.                                           *)
(****************************************************************************)
LEMMA StatusMoves ==
    ASSUME NEW t \in Threads,
           \A u \in Threads \ {t} : pc'[u] = pc[u] /\ kind'[u] = kind[u]
    PROVE  /\ Promise!Become(t, StatusOf(t), StatusOf(t)')
           /\ StatusOf(t)' = StatusOf(t) =>
                UNCHANGED [u \in Threads |-> StatusOf(u)]
<1>1. \A u \in Threads \ {t} : StatusOf(u)' = StatusOf(u)
  BY DEF StatusOf
<1>2. [u \in Threads |-> StatusOf(u)]' =
          [[u \in Threads |-> StatusOf(u)] EXCEPT ![t] = StatusOf(t)']
  BY <1>1
<1>3. QED
  BY <1>1, <1>2 DEF Promise!Become

LEMMA CallIsCall ==
    ASSUME IInv, NEW t \in Threads, HCall(t)
    PROVE  Promise!Call(t)
<1>1. PICK k \in KindsOf[t] : Begin(t, k, IF k = "read" THEN "arrive" ELSE "barrier")
  BY DEF HCall, Call
<1>2. /\ pc[t] = "idle" /\ pc'[t] \in {"arrive", "barrier"} /\ calls[t] < MaxCalls
      /\ \A u \in Threads \ {t} : pc'[u] = pc[u] /\ kind'[u] = kind[u]
      /\ kind' = [kind EXCEPT ![t] = k] /\ calls' = [calls EXCEPT ![t] = @ + 1]
      /\ accepted' = accepted /\ log' = log
  BY <1>1 DEF HCall, Begin, Move, historyVars, IInv, DXTypeOK
<1>3. StatusOf(t) = "idle" /\ StatusOf(t)' = "called"
  BY <1>2 DEF StatusOf
<1>4. Promise!Become(t, "idle", "called")
  BY <1>2, <1>3, StatusMoves
<1>5. k \in Kinds
  BY KindsAssumption
<1>6. QED
  BY <1>2, <1>4, <1>5 DEF Promise!Call

LEMMA AcceptIsAccept ==
    ASSUME IInv, HInv, NEW t \in Threads, HAccept(t)
    PROVE  Promise!Accept(t)
<1>1. Accepts(t)
  BY AcceptStepIs DEF HAccept, Accepts
<1>2. /\ pc[t] \in {"try", "offerAdd"} /\ pc'[t] \in {"reset", "offerData"}
      /\ \A u \in Threads \ {t} : pc'[u] = pc[u]
      /\ calls' = calls /\ kind' = kind /\ log' = log
      /\ kind[t] \in {"delegate", "await"}
  BY <1>1, IInvIsDXInv, AcceptFacts DEF HInv
<1>3. kind[t] = "delegate"
  BY <1>2, KindsAssumption DEF IInv, KindsOK, KindFits
<1>4. StatusOf(t) = "called" /\ StatusOf(t)' = "accepted"
  BY <1>2, <1>3 DEF StatusOf
<1>5. Promise!Become(t, "called", "accepted")
  BY <1>2, <1>4, StatusMoves
<1>6. accepted' = Append(accepted, Promise!OpOf(t))
  BY DEF HAccept, OpOf, Promise!OpOf
<1>7. QED
  BY <1>2, <1>5, <1>6 DEF Promise!Accept

(* When an operation runs nobody is in a critical section or about to enter *)
(* one, since the thread that runs it holds the lock, and nobody reads.     *)
LEMMA RunIsExecute ==
    ASSUME IInv, HInv, NEW t \in Threads, HRun(t)
    PROVE  Promise!Execute
<1>1. RunsOne(t)
  BY DEF HRun, RunOwn, RunsOwn, FlushRuns, RunsOne, offerVars
<1>2. DXInv /\ Owed /\ MutualExclusion /\ KindsOK /\ ReadersExcludeWriters
  BY IInvIsDXInv DEF IInv, HInv, HistoryInv, ReadersOK
<1>3. /\ pc[t] \in {"own", "flushLoop"} /\ pc'[t] \in {"flush", "flushClear"}
      /\ pc[t] = "own" => pc'[t] = "flush"
      /\ pc[t] = "own" => kind[t] = "delegate"
      /\ \A u \in Threads \ {t} : pc'[u] = pc[u]
      /\ UNCHANGED <<calls, kind, accepted>>
      /\ Len(log) < Len(accepted) /\ log' = Append(log, accepted[Len(log) + 1])
  <2>1. pc[t] = "own" => pc'[t] = "flush"
    BY <1>1, <1>2 DEF RunsOne, RunsOwn, FlushReads, Move, DXInv, DXTypeOK
  <2>2. pc[t] = "own" => kind[t] = "delegate"
    BY <1>2, KindsAssumption DEF KindsOK, KindFits
  <2>3. QED
    BY <1>1, <1>2, <2>1, <2>2, RunIsNext, RunFacts
<1>4. ~Promise!Held
  <2>1. ASSUME NEW u \in Threads, StatusOf(u) \in {"holding", "inside"} PROVE FALSE
    <3>1. pc[u] \in {"reset", "resetClosed", "readers", "critical"}
      BY <2>1 DEF StatusOf
    <3>2. QED
      BY <1>2, <1>3, <3>1, OneHolder
  <2>2. QED
    BY <2>1 DEF Promise!Held
<1>5. ~Promise!Read
  <2>1. ASSUME NEW u \in Threads, StatusOf(u) = "reading" PROVE FALSE
    <3>1. pc[u] \in ReaderLabels
      BY <2>1 DEF StatusOf
    <3>2. QED
      BY <1>2, <1>3, <3>1 DEF ReadersExcludeWriters
  <2>2. QED
    BY <2>1 DEF Promise!Read
<1>6. StatusOf(t)' = StatusOf(t)
  <2>1. CASE pc[t] = "own"
    BY <1>3, <2>1 DEF StatusOf
  <2>2. CASE pc[t] = "flushLoop"
    BY <1>3, <2>2 DEF StatusOf
  <2>3. QED
    BY <1>3, <2>1, <2>2
<1>7. UNCHANGED [u \in Threads |-> StatusOf(u)]
  BY <1>3, <1>6, StatusMoves
<1>8. QED
  BY <1>3, <1>4, <1>5, <1>7 DEF Promise!Execute

LEMMA QuietIsAbstract ==
    ASSUME IInv, HInv, NEW t \in Threads, HQuiet(t)
    PROVE  [Promise!Next]_(Promise!vars)
<1>0. /\ DXInv /\ Owed /\ MutualExclusion /\ FitsCall(pc[t], kind[t])
      /\ QuietStep(t) /\ TypeOK /\ ReadersOK
  BY IInvIsDXInv, FitsCallAll, TypeOKParts DEF IInv, HInv, HistoryInv, HQuiet
<1>1. /\ UNCHANGED <<calls, kind, accepted, log>>
      /\ \A u \in Threads \ {t} : pc'[u] = pc[u]
      /\ \A u \in Threads \ {t} : pc'[u] = pc[u] /\ kind'[u] = kind[u]
  <2>1. Step(t)
    BY <1>0 DEF Step
  <2>2. kind' = kind /\ \A u \in Threads \ {t} : pc'[u] = pc[u]
    BY <1>0, <2>1, StepKeepsKind DEF ReadersOK
  <2>3. calls' = calls
    BY <1>0 DEF QuietStep, Barrier, Look, SetWins, Offer, Reset, WaitForReaders, LeaveCritical,
                Flush, Unlock, Read, clientVars
  <2>4. QED
    BY <2>2, <2>3 DEF HQuiet, historyVars
<1>2. ASSUME StatusOf(t)' = StatusOf(t)
      PROVE  UNCHANGED Promise!vars
  BY <1>1, <1>2, StatusMoves DEF Promise!vars
<1>3. Promise!Become(t, StatusOf(t), StatusOf(t)')
  BY <1>1, StatusMoves
<1>4. ASSUME ~lockWord
      PROVE  log = accepted /\ ~Promise!Held
  <2>1. log = accepted /\ \A u \in Threads : pc[u] \notin HolderLabels
    BY <1>0, <1>4, FreeLogIsAccepted, FreeMeansRun
  <2>2. \A u \in Threads : StatusOf(u) \notin {"holding", "inside"}
    BY <2>1 DEF StatusOf
  <2>3. QED
    BY <2>1, <2>2 DEF Promise!Held
<1>5. ASSUME StatusOf(t) \in {"accepted", "released", "reading"}, StatusOf(t)' = "idle",
             kind[t] # "await"
      PROVE  Promise!Next
  BY <1>1, <1>3, <1>5 DEF Promise!Return, Promise!Next
<1> USE DEF Move
<1>6. CASE Barrier(t) \/ Look(t)
  <2>1. StatusOf(t) = "called" /\ StatusOf(t)' = "called"
    <3>1. CASE Barrier(t)
      BY <1>0, <3>1 DEF Barrier, BarrierIsOff, StatusOf, TypeOK
    <3>2. CASE Look(t)
      BY <1>0, <3>2 DEF Look, SeesFree, SeesLocked, TestAndSetLoses, StatusOf, TypeOK
    <3>3. QED
      BY <1>6, <3>1, <3>2
  <2>2. QED
    BY <1>2, <2>1
<1>7. CASE SetWins(t)
  <2>1. pc[t] = "set" /\ pc'[t] = "reset" /\ kind[t] = "exclusive" /\ ~lockWord
    BY <1>0, <1>7 DEF SetWins, TestAndSetWins, TypeOK, FitsCall, KindFits
  <2>2. StatusOf(t) = "called" /\ StatusOf(t)' = "holding"
    BY <1>1, <2>1 DEF StatusOf
  <2>3. Promise!Acquire(t)
    BY <1>1, <1>3, <1>4, <2>1, <2>2 DEF Promise!Acquire
  <2>4. QED
    BY <2>3 DEF Promise!Next
<1>8. CASE Offer(t)
  <2>1. CASE OfferSeesClosed(t, "while") \/ OfferSeesOpen(t) \/ OfferOverflows(t)
             \/ OfferCloses(t, "while")
    <3>1. StatusOf(t) = "called" /\ StatusOf(t)' = "called"
      BY <1>0, <2>1 DEF OfferSeesClosed, OfferSeesOpen, OfferOverflows, OfferCloses,
                StatusOf, TypeOK
    <3>2. QED
      BY <1>2, <3>1
  <2>2. CASE OfferWritesData(t, OpOf(t)) \/ OfferPublishes(t, "idle")
    <3>1. /\ \/ pc[t] = "offerData" /\ pc'[t] = "offerRequest"
             \/ pc[t] = "offerRequest" /\ pc'[t] = "idle"
          /\ kind[t] = "delegate"
      BY <1>0, <2>2, KindsAssumption DEF OfferWritesData, OfferPublishes, TypeOK, FitsCall, KindFits
    <3>2. CASE pc'[t] = "idle"
      <4>1. StatusOf(t) = "accepted" /\ StatusOf(t)' = "idle"
        BY <1>1, <3>1, <3>2 DEF StatusOf
      <4>2. QED
        BY <1>5, <3>1, <4>1
    <3>3. CASE pc'[t] = "offerRequest"
      <4>1. StatusOf(t) = "accepted" /\ StatusOf(t)' = "accepted"
        BY <1>1, <3>1, <3>3 DEF StatusOf
      <4>2. QED
        BY <1>2, <4>1
    <3>4. QED
      BY <3>1, <3>2, <3>3
  <2>3. QED
    BY <1>8, <2>1, <2>2 DEF Offer
<1>9. CASE Reset(t)
  <2>1. /\ pc[t] \in {"reset", "resetClosed"} /\ pc'[t] \in {"resetClosed", "readers"}
    BY <1>0, <1>9 DEF Reset, ResetCount, ResetClosed, TypeOK
  <2>2. StatusOf(t)' = StatusOf(t)
    BY <1>1, <2>1 DEF StatusOf
  <2>3. QED
    BY <1>2, <2>2
<1>10. CASE WaitForReaders(t)
  <2> DEFINE next == IF kind[t] = "exclusive" THEN "critical" ELSE "own"
  <2>1. next \notin ReaderLabels \cup {"readers"}
    OBVIOUS
  <2>2. ReadersAreOut(t, "readers", next)
    BY <1>10 DEF WaitForReaders
  <2>3. /\ pc[t] = "readers" /\ pc'[t] \in {"readers", next}
        /\ pc'[t] = next => \A u \in Threads : pc[u] \notin ReaderLabels
    BY <1>0, <2>1, <2>2, GroupSeenEmpty DEF ReadersOK
  <2>4. CASE pc'[t] = "critical"
    <3>1. kind[t] = "exclusive" /\ \A u \in Threads : pc[u] \notin ReaderLabels
      BY <2>3, <2>4
    <3>2. StatusOf(t) = "holding" /\ StatusOf(t)' = "inside"
      BY <1>1, <2>3, <2>4, <3>1 DEF StatusOf
    <3>3. \A u \in Threads : StatusOf(u) # "reading"
      BY <3>1 DEF StatusOf
    <3>4. Promise!Enter(t)
      BY <1>1, <1>3, <3>2, <3>3 DEF Promise!Enter, Promise!Read
    <3>5. QED
      BY <3>4 DEF Promise!Next
  <2>5. CASE pc'[t] = "own"
    <3>1. kind[t] = "delegate"
      BY <1>0, <2>3, <2>5, KindsAssumption DEF FitsCall, KindFits
    <3>2. StatusOf(t) = "accepted" /\ StatusOf(t)' = "accepted"
      BY <1>1, <2>3, <2>5, <3>1 DEF StatusOf
    <3>3. QED
      BY <1>2, <3>2
  <2>6. CASE pc'[t] = "readers"
    <3>1. StatusOf(t)' = StatusOf(t)
      BY <1>1, <2>3, <2>6 DEF StatusOf
    <3>2. QED
      BY <1>2, <3>1
  <2>7. QED
    BY <2>3, <2>4, <2>5, <2>6
<1>11. CASE LeaveCritical(t)
  <2>1. pc[t] = "critical" /\ pc'[t] = "flush" /\ kind[t] = "exclusive"
    BY <1>0, <1>11 DEF LeaveCritical, TypeOK, FitsCall, KindFits
  <2>2. StatusOf(t) = "inside" /\ StatusOf(t)' = "released"
    BY <1>1, <2>1 DEF StatusOf
  <2>3. Promise!Release(t)
    BY <1>1, <1>3, <2>2 DEF Promise!Release
  <2>4. QED
    BY <2>3 DEF Promise!Next
<1>12. CASE Flush(t)
  <2>1. StatusOf(t)' = StatusOf(t)
    BY <1>0, <1>1, <1>12 DEF Flush, FlushStarts, FlushClears, FlushRereads, FlushSwaps,
              FlushReturns, StatusOf, TypeOK
  <2>2. QED
    BY <1>2, <2>1
<1>13. CASE Unlock(t)
  <2>1. pc[t] = "unlock" /\ pc'[t] = "idle" /\ kind[t] \in {"delegate", "exclusive"}
    BY <1>0, <1>13, KindsAssumption DEF Unlock, TypeOK, FitsCall, KindFits
  <2>2. StatusOf(t) \in {"accepted", "released"} /\ StatusOf(t)' = "idle"
    BY <1>1, <2>1 DEF StatusOf
  <2>3. QED
    BY <1>5, <2>1, <2>2
<1>14. CASE Read(t)
  <2>1. /\ pc[t] \in ReadAnyLabels /\ pc'[t] \in ReadAnyLabels \cup {"idle"}
        /\ pc'[t] \in ReaderLabels => pc[t] \in ReaderLabels \/ ~lockWord
        /\ pc[t] \in ReaderLabels => pc'[t] \in ReaderLabels \cup {"idle"}
        /\ pc'[t] = "idle" => pc[t] = "reading"
    BY <1>0, <1>14, ReadStepFacts DEF Read, ReadersOK
  <2>2. kind[t] = "read"
    BY <1>0, <2>1 DEF FitsCall
  <2>3. CASE pc[t] \in ReadWaitLabels /\ pc'[t] \in ReaderLabels
    <3>1. StatusOf(t) = "called" /\ StatusOf(t)' = "reading" /\ ~lockWord
      BY <2>1, <2>3 DEF StatusOf
    <3>2. Promise!StartRead(t)
      BY <1>1, <1>3, <1>4, <2>2, <3>1 DEF Promise!StartRead
    <3>3. QED
      BY <3>2 DEF Promise!Next
  <2>4. CASE pc'[t] = "idle"
    <3>1. StatusOf(t) = "reading" /\ StatusOf(t)' = "idle"
      BY <2>1, <2>4 DEF StatusOf
    <3>2. QED
      BY <1>5, <2>2, <3>1
  <2>5. CASE \/ pc[t] \in ReadWaitLabels /\ pc'[t] \in ReadWaitLabels
             \/ pc[t] \in ReaderLabels /\ pc'[t] \in ReaderLabels
    <3>1. StatusOf(t)' = StatusOf(t)
      BY <2>5 DEF StatusOf
    <3>2. QED
      BY <1>2, <3>1
  <2>6. QED
    BY <2>1, <2>3, <2>4, <2>5
<1>15. QED
  BY <1>0, <1>6, <1>7, <1>8, <1>9, <1>10, <1>11, <1>12, <1>13, <1>14 DEF QuietStep

LEMMA StepIsAbstract ==
    ASSUME IInv, HInv, [HNext]_allVars
    PROVE  [Promise!Next]_(Promise!vars)
<1>1. CASE UNCHANGED allVars \/ Finished
  <2>1. UNCHANGED <<pc, calls, kind, accepted, log>>
    BY <1>1 DEF Finished, allVars, vars, clientVars, historyVars
  <2>2. UNCHANGED [u \in Threads |-> StatusOf(u)]
    BY <2>1 DEF StatusOf
  <2>3. QED
    BY <2>1, <2>2 DEF Promise!vars
<1>2. ASSUME NEW t \in Threads, HCall(t) \/ HStep(t)
      PROVE  [Promise!Next]_(Promise!vars)
  BY <1>2, CallIsCall, AcceptIsAccept, RunIsExecute, QuietIsAbstract DEF HStep, Promise!Next
<1>3. QED
  BY <1>1, <1>2 DEF HNext

(* The multi-reader queue-delegation lock implements the delegation         *)
(* service: operations run once, in the order of their acceptance, never    *)
(* while a thread is in a critical section or reads; a critical section     *)
(* and a read begin only when everything accepted has run.                  *)
THEOREM Implements == HSpec => ImplementsDelegation
<1>1. HInit => Promise!Init
  BY DEF HInit, Init, DXInit, Promise!Init, StatusOf
<1>2. IInv /\ HInv /\ [HNext]_allVars => [Promise!Next]_(Promise!vars)
  BY StepIsAbstract
<1>3. QED
  BY <1>1, <1>2, HInvariant, PTL DEF HSpec, ImplementsDelegation, Promise!Spec
=============================================================================
