--------------------------- MODULE WPRWLockProofs ----------------------------
(****************************************************************************)
(* Proofs about the writer-preference reader-writer lock, for any set of    *)
(* threads and any number of reader groups: the types, and that no critical *)
(* section overlaps another or a reader's. The queue of the MCS lock is     *)
(* described by a sequence of threads of which the invariant only says that *)
(* it exists.                                                               *)
(****************************************************************************)
EXTENDS WPRWLock, FiniteSetTheorems, TLAPS

(****************************************************************************)
(* The readers: each counter of the read indicator and the write barrier    *)
(* count what they are meant to count, whichever lock the readers wait for. *)
(****************************************************************************)
USE DEF ArrivedLabels, ReaderLabels

LEMMA GroupInRange == \A t \in Threads : GroupOf(t) \in Groups
<1>1. \A t \in Threads : t \in Nat
  BY ThreadsAssumption
<1>2. \A t \in Nat : t % NUMBER_OF_READER_GROUPS \in 0 .. NUMBER_OF_READER_GROUPS - 1
  BY GroupsAssumption
<1>3. QED
  BY <1>1, <1>2 DEF GroupOf, Groups

(* A counter is 0 exactly if no reader of its group has arrived.            *)
LEMMA EmptyGroup ==
    ASSUME CountsOK, NEW g \in Groups
    PROVE  /\ readerGroups[g] \in Nat
           /\ readerGroups[g] <= 0 <=> \A t \in Threads : ~(pc[t] \in ArrivedLabels /\ GroupOf(t) = g)
<1>1. IsFiniteSet(Arrived(g)) /\ readerGroups[g] = Cardinality(Arrived(g))
  BY DEF CountsOK
<1>2. readerGroups[g] \in Nat /\ (readerGroups[g] = 0 <=> Arrived(g) = {})
  BY <1>1, FS_CardinalityType, FS_EmptySet
<1>3. Arrived(g) = {} <=> \A t \in Threads : ~(pc[t] \in ArrivedLabels /\ GroupOf(t) = g)
  BY DEF Arrived
<1>4. QED
  BY <1>2, <1>3

(****************************************************************************)
(* The counters, under a step of the reader t or of any other code.         *)
(****************************************************************************)
GroupsCount ==
    \A g \in Groups :
        IsFiniteSet(Arrived(g)) /\ readerGroups[g] = Cardinality(Arrived(g))

BarrierCounts == IsFiniteSet(Impatient) /\ writeBarrier = Cardinality(Impatient)

LEMMA CountsParts ==
    /\ CountsOK <=> GroupsCount /\ BarrierCounts
    /\ CountsOK' <=> GroupsCount' /\ BarrierCounts'
BY DEF CountsOK, GroupsCount, BarrierCounts

LEMMA StaysCounted ==
    ASSUME GroupsCount, NEW t \in Threads, readerGroups' = readerGroups,
           \A u \in Threads \ {t} : pc'[u] = pc[u],
           pc'[t] \in ArrivedLabels <=> pc[t] \in ArrivedLabels
    PROVE  GroupsCount'
<1>1. \A u \in Threads : pc'[u] \in ArrivedLabels <=> pc[u] \in ArrivedLabels
  OBVIOUS
<1>2. ASSUME NEW g \in Groups PROVE Arrived(g)' = Arrived(g)
  BY <1>1 DEF Arrived
<1>3. QED
  BY <1>2 DEF GroupsCount

LEMMA ArriveCounts ==
    ASSUME GroupsCount, NZITypeOK, DOMAIN pc = Threads, NEW t \in Threads,
           NEW from, NEW to, from \notin ArrivedLabels, to \in ArrivedLabels,
           Arrive(t, from, to)
    PROVE  GroupsCount'
<1>1. /\ pc[t] = from /\ pc'[t] = to /\ \A u \in Threads \ {t} : pc'[u] = pc[u]
      /\ readerGroups' = [readerGroups EXCEPT ![GroupOf(t)] = @ + 1]
  BY DEF Arrive, Move
<1>2. ASSUME NEW g \in Groups
      PROVE  IsFiniteSet(Arrived(g)') /\ readerGroups'[g] = Cardinality(Arrived(g)')
  <2>1. IsFiniteSet(Arrived(g)) /\ readerGroups[g] = Cardinality(Arrived(g))
    BY DEF GroupsCount
  <2>2. CASE GroupOf(t) = g
    <3>1. Arrived(g)' = Arrived(g) \cup {t} /\ t \notin Arrived(g)
      BY <1>1, <2>2 DEF Arrived
    <3>2. readerGroups'[g] = readerGroups[g] + 1
      BY <1>1, <2>2 DEF NZITypeOK
    <3>3. QED
      BY <2>1, <3>1, <3>2, FS_AddElement
  <2>3. CASE GroupOf(t) # g
    <3>1. Arrived(g)' = Arrived(g)
      BY <1>1, <2>3 DEF Arrived
    <3>2. readerGroups'[g] = readerGroups[g]
      BY <1>1, <2>3 DEF NZITypeOK
    <3>3. QED
      BY <2>1, <3>1, <3>2
  <2>4. QED
    BY <2>2, <2>3
<1>3. QED
  BY <1>2 DEF GroupsCount

LEMMA DepartCounts ==
    ASSUME GroupsCount, NZITypeOK, DOMAIN pc = Threads, NEW t \in Threads,
           NEW from, NEW to, from \in ArrivedLabels, to \notin ArrivedLabels,
           Depart(t, from, to)
    PROVE  GroupsCount'
<1>1. /\ pc[t] = from /\ pc'[t] = to /\ \A u \in Threads \ {t} : pc'[u] = pc[u]
      /\ readerGroups' = [readerGroups EXCEPT ![GroupOf(t)] = @ - 1]
  BY DEF Depart, Move
<1>2. ASSUME NEW g \in Groups
      PROVE  IsFiniteSet(Arrived(g)') /\ readerGroups'[g] = Cardinality(Arrived(g)')
  <2>1. IsFiniteSet(Arrived(g)) /\ readerGroups[g] = Cardinality(Arrived(g))
    BY DEF GroupsCount
  <2>2. CASE GroupOf(t) = g
    <3>1. Arrived(g)' = Arrived(g) \ {t} /\ t \in Arrived(g)
      BY <1>1, <2>2 DEF Arrived
    <3>2. readerGroups'[g] = readerGroups[g] - 1
      BY <1>1, <2>2 DEF NZITypeOK
    <3>3. QED
      BY <2>1, <3>1, <3>2, FS_RemoveElement
  <2>3. CASE GroupOf(t) # g
    <3>1. Arrived(g)' = Arrived(g)
      BY <1>1, <2>3 DEF Arrived
    <3>2. readerGroups'[g] = readerGroups[g]
      BY <1>1, <2>3 DEF NZITypeOK
    <3>3. QED
      BY <2>1, <3>1, <3>2
  <2>4. QED
    BY <2>2, <2>3
<1>3. QED
  BY <1>2 DEF GroupsCount

LEMMA RaiseCounts ==
    ASSUME BarrierCounts, ReaderTypeOK, NEW t \in Threads, ~bRaised[t], ReadRaises(t)
    PROVE  BarrierCounts'
<1>1. Impatient' = Impatient \cup {t} /\ t \notin Impatient
  BY DEF ReadRaises, Impatient, ReaderTypeOK
<1>2. QED
  BY <1>1, FS_AddElement DEF BarrierCounts, ReadRaises

LEMMA LowerCounts ==
    ASSUME BarrierCounts, ReaderTypeOK, NEW t \in Threads, bRaised[t], ReadLowers(t)
    PROVE  BarrierCounts'
<1>1. Impatient' = Impatient \ {t} /\ t \in Impatient
  BY DEF ReadLowers, Impatient, ReaderTypeOK
<1>2. QED
  BY <1>1, FS_RemoveElement DEF BarrierCounts, ReadLowers

(****************************************************************************)
(* A step of read_lock or read_unlock. A reader gets in only when it sees   *)
(* the lock free.                                                           *)
(****************************************************************************)
ReadAnyLabels == ReadWaitLabels \cup ReaderLabels

LEMMA ReadStepFacts ==
    ASSUME ReaderTypeOK, RaisedOK, DOMAIN pc = Threads, NEW STATE locked, NEW t \in Threads,
           ReadStep(t, locked)
    PROVE  /\ ReaderTypeOK' /\ group' = group
           /\ pc[t] \in ReadAnyLabels
           /\ pc' = [u \in Threads |-> IF u = t THEN pc'[t] ELSE pc[u]]
           /\ pc'[t] \in ReadAnyLabels \cup {"idle"}
           /\ pc'[t] \in ReaderLabels => pc[t] \in ReaderLabels \/ ~locked
           /\ pc[t] \in ReaderLabels => pc'[t] \in ReaderLabels \cup {"idle"}
           /\ pc'[t] = "idle" => pc[t] = "reading"
<1> USE DEF ReadAnyLabels, ReadWaitLabels, ReaderTypeOK, NZITypeOK, Move, nziVars, patienceVars
<1> USE PatienceAssumption
<1>0. GroupOf(t) \in Groups
  BY GroupInRange
<1>1. CASE ReadArrives(t)
  BY <1>0, <1>1 DEF ReadArrives, Arrive
<1>2. CASE ReadSeesFree(t, locked)
  <2>1. /\ pc[t] = "check" /\ ~locked
        /\ pc' = [pc EXCEPT ![t] = IF bRaised[t] THEN "lower" ELSE "reading"]
        /\ pc'[t] \in {"lower", "reading"}
    BY <1>2 DEF ReadSeesFree
  <2>2. readPatience' \in [Threads -> 0 .. READ_PATIENCE_LIMIT + 1]
    BY <1>2 DEF ReadSeesFree
  <2>3. UNCHANGED <<readerGroups, group, writeBarrier, bRaised>>
    BY <1>2 DEF ReadSeesFree
  <2>4. pc' = [u \in Threads |-> IF u = t THEN pc'[t] ELSE pc[u]]
    BY <2>1
  <2>5. QED
    BY <2>1, <2>2, <2>3, <2>4
<1>3. CASE ReadSeesLocked(t, locked)
  BY <1>3 DEF ReadSeesLocked, readVars
<1>4. CASE ReadDeparts(t) \/ ReadUnlock(t)
  BY <1>0, <1>4 DEF ReadDeparts, ReadUnlock, Depart
<1>5. CASE ReadWaits(t, locked)
  <2>1. /\ pc[t] = "wait"
        /\ pc' = [pc EXCEPT ![t] = IF readPatience[t] = READ_PATIENCE_LIMIT /\ ~bRaised[t]
                                   THEN "raise" ELSE "wait"]
        /\ pc'[t] \in {"raise", "wait"}
    BY <1>5 DEF ReadWaits
  <2>2. readPatience' \in [Threads -> 0 .. READ_PATIENCE_LIMIT + 1]
    BY <1>5 DEF ReadWaits, MorePatience
  <2>3. UNCHANGED <<readerGroups, group, writeBarrier, bRaised>>
    BY <1>5 DEF ReadWaits
  <2>4. pc' = [u \in Threads |-> IF u = t THEN pc'[t] ELSE pc[u]]
    BY <2>1
  <2>5. QED
    BY <2>1, <2>2, <2>3, <2>4
<1>6. CASE ReadRaises(t)
  BY <1>6 DEF ReadRaises
<1>7. CASE ReadLowers(t)
  BY <1>7 DEF ReadLowers
<1>8. CASE ReadRetries(t, locked)
  BY <1>8 DEF ReadRetries, readVars
<1>9. QED
  BY <1>1, <1>2, <1>3, <1>4, <1>5, <1>6, <1>7, <1>8 DEF ReadStep

LEMMA ReadStepCounts ==
    ASSUME ReaderTypeOK, CountsOK, RaisedOK, DOMAIN pc = Threads, NEW STATE locked,
           NEW t \in Threads, ReadStep(t, locked)
    PROVE  CountsOK'
<1> USE DEF Move, nziVars, patienceVars
<1>0. GroupsCount /\ BarrierCounts /\ NZITypeOK
  BY CountsParts DEF ReaderTypeOK
<1>1. UNCHANGED <<writeBarrier, bRaised>> => BarrierCounts'
  BY <1>0 DEF BarrierCounts, Impatient
<1>2. CASE ReadArrives(t)
  BY <1>0, <1>1, <1>2, ArriveCounts, CountsParts DEF ReadArrives
<1>3. CASE ReadSeesFree(t, locked) \/ ReadSeesLocked(t, locked) \/ ReadWaits(t, locked)
           \/ ReadRetries(t, locked)
  <2>1. /\ readerGroups' = readerGroups /\ UNCHANGED <<writeBarrier, bRaised>>
        /\ \A u \in Threads \ {t} : pc'[u] = pc[u]
        /\ pc'[t] \in ArrivedLabels <=> pc[t] \in ArrivedLabels
    BY <1>3 DEF ReadSeesFree, ReadSeesLocked, ReadWaits, ReadRetries, readVars
  <2>2. QED
    BY <1>0, <1>1, <2>1, StaysCounted, CountsParts
<1>4. CASE ReadDeparts(t) \/ ReadUnlock(t)
  BY <1>0, <1>1, <1>4, DepartCounts, CountsParts DEF ReadDeparts, ReadUnlock
<1>5. CASE ReadRaises(t) \/ ReadLowers(t)
  <2>1. /\ readerGroups' = readerGroups
        /\ \A u \in Threads \ {t} : pc'[u] = pc[u]
        /\ pc'[t] \in ArrivedLabels <=> pc[t] \in ArrivedLabels
    BY <1>5 DEF ReadRaises, ReadLowers
  <2>2. GroupsCount'
    BY <1>0, <2>1, StaysCounted
  <2>3. BarrierCounts'
    BY <1>0, <1>5, RaiseCounts, LowerCounts DEF RaisedOK, ReadRaises, ReadLowers
  <2>4. QED
    BY <2>2, <2>3, CountsParts
<1>6. QED
  BY <1>2, <1>3, <1>4, <1>5 DEF ReadStep

LEMMA ReadStepRaised ==
    ASSUME ReaderTypeOK, RaisedOK, DOMAIN pc = Threads, NEW STATE locked, NEW t \in Threads,
           ReadStep(t, locked)
    PROVE  RaisedOK'
<1> USE DEF RaisedOK, ReaderTypeOK, Move, nziVars, patienceVars
<1>1. CASE ReadArrives(t) \/ ReadDeparts(t) \/ ReadUnlock(t)
  BY <1>1 DEF ReadArrives, Arrive, ReadDeparts, ReadUnlock, Depart
<1>2. CASE ReadSeesFree(t, locked)
  BY <1>2 DEF ReadSeesFree
<1>3. CASE ReadSeesLocked(t, locked) \/ ReadRetries(t, locked)
  BY <1>3 DEF ReadSeesLocked, ReadRetries, readVars
<1>4. CASE ReadWaits(t, locked)
  BY <1>4 DEF ReadWaits
<1>5. CASE ReadRaises(t) \/ ReadLowers(t)
  BY <1>5 DEF ReadRaises, ReadLowers
<1>6. QED
  BY <1>1, <1>2, <1>3, <1>4, <1>5 DEF ReadStep

(* Code that is not the reader's leaves the reader's variables alone.       *)
LEMMA OtherStepCounts ==
    ASSUME ReaderTypeOK, CountsOK, RaisedOK, NEW t \in Threads,
           UNCHANGED <<readerGroups, writeBarrier, bRaised>>,
           \A u \in Threads \ {t} : pc'[u] = pc[u],
           pc[t] \notin ReadAnyLabels, pc'[t] \notin ReadAnyLabels \ {"arrive"}
    PROVE  CountsOK' /\ RaisedOK'
<1> USE DEF ReadAnyLabels, ReadWaitLabels
<1>1. GroupsCount /\ BarrierCounts
  BY CountsParts
<1>2. GroupsCount'
  BY <1>1, StaysCounted
<1>3. BarrierCounts'
  BY <1>1 DEF BarrierCounts, Impatient
<1>4. RaisedOK'
  BY DEF RaisedOK
<1>5. QED
  BY <1>2, <1>3, <1>4, CountsParts

(* Nobody has arrived and nobody is impatient at first.                     *)
LEMMA ReadersAtFirst ==
    ASSUME ReaderInit, pc = [t \in Threads |-> "idle"]
    PROVE  ReaderTypeOK /\ CountsOK /\ RaisedOK /\ WaitIsProgress
<1> USE GroupsAssumption, PatienceAssumption DEF ReaderInit, NZIInit
<1>1. ReaderTypeOK
  <2>1. bRaised \in [Threads -> BOOLEAN]
    BY Zenon
  <2>2. NZITypeOK
    BY DEF NZITypeOK, Groups
  <2>3. writeBarrier \in Int /\ readPatience \in [Threads -> 0 .. READ_PATIENCE_LIMIT + 1]
    OBVIOUS
  <2>4. QED
    BY <2>1, <2>2, <2>3 DEF ReaderTypeOK
<1>2. CountsOK
  <2>1. \A g \in Groups : Arrived(g) = {}
    BY DEF Arrived
  <2>2. Impatient = {}
    BY DEF Impatient
  <2>3. QED
    BY <2>1, <2>2, FS_EmptySet DEF CountsOK
<1>3. RaisedOK /\ WaitIsProgress
  BY DEF RaisedOK, WaitIsProgress
<1>4. QED
  BY <1>1, <1>2, <1>3

(****************************************************************************)
(* The writer that waits for the readers, one group after the other.        *)
(****************************************************************************)
LEMMA GroupSeenEmpty ==
    ASSUME ReaderTypeOK, CountsOK, WaitIsProgress, DOMAIN pc = Threads,
           NEW t \in Threads, NEW next, next \notin ReaderLabels \cup {"readers"},
           ReadersAreOut(t, "readers", next)
    PROVE  /\ ReaderTypeOK' /\ UNCHANGED <<readerGroups, writeBarrier, bRaised>>
           /\ \A u \in Threads \ {t} : pc'[u] = pc[u]
           /\ pc[t] = "readers" /\ pc'[t] \in {"readers", next}
           /\ WaitIsProgress'
           /\ pc'[t] = next => \A u \in Threads : pc[u] \notin ReaderLabels
<1> USE DEF Move, nziVars, patienceVars
<1>1. /\ pc[t] = "readers" /\ readerGroups[group[t]] <= 0 /\ group[t] \in Groups
      /\ pc' = [pc EXCEPT ![t] = IF group[t] + 1 < NUMBER_OF_READER_GROUPS
                                 THEN "readers" ELSE next]
      /\ group' = [group EXCEPT ![t] = IF @ + 1 < NUMBER_OF_READER_GROUPS THEN @ + 1 ELSE 0]
      /\ UNCHANGED <<readerGroups, writeBarrier, bRaised, readPatience>>
  BY DEF ReadersAreOut, GroupIsEmpty, ReaderTypeOK, NZITypeOK
<1>2. ReaderTypeOK'
  BY <1>1, GroupsAssumption DEF ReaderTypeOK, NZITypeOK, Groups
<1>3. \A u \in Threads : pc[u] \in ReaderLabels => GroupOf(u) # group[t]
  BY <1>1, EmptyGroup
<1>4. \A u \in Threads : pc[u] \in ReaderLabels => group[t] <= GroupOf(u)
  BY <1>1 DEF WaitIsProgress
<1>5. \A u \in Threads : pc[u] \in ReaderLabels => group[t] + 1 <= GroupOf(u)
  BY <1>1, <1>3, <1>4, GroupInRange DEF Groups
<1>6. CASE group[t] + 1 < NUMBER_OF_READER_GROUPS
  BY <1>1, <1>2, <1>5, <1>6 DEF WaitIsProgress, ReaderTypeOK, NZITypeOK
<1>7. CASE ~(group[t] + 1 < NUMBER_OF_READER_GROUPS)
  <2>1. \A u \in Threads : pc[u] \notin ReaderLabels
    BY <1>1, <1>5, <1>7, GroupInRange, GroupsAssumption DEF Groups
  <2>2. QED
    BY <1>1, <1>2, <1>7, <2>1 DEF WaitIsProgress, ReaderTypeOK, NZITypeOK
<1>8. QED
  BY <1>6, <1>7

USE DEF OwnerLabels, QueuedLabels, MCSQueueLabels, MCSUnlockLabels, ReaderLabels,
        ReadWaitLabels, ReadAnyLabels

(****************************************************************************)
(* What the queue says.                                                     *)
(****************************************************************************)
LEMMA OnlyHeadOwns ==
    ASSUME NEW q \in Seq(Threads), QueueIs(q), NEW t \in Threads,
           pc[t] \in OwnerLabels \/ Past(t)
    PROVE  Len(q) > 0 /\ q[1] = t /\ endOfQueue # NULL
<1>1. pc[t] \in OwnerLabels \/ (pc[t] = "mcsWait" /\ ~nodeLocked[t])
  BY DEF Past
<1>2. PICK i \in 1 .. Len(q) : q[i] = t
  BY <1>1 DEF QueueIs
<1>3. ~(i \in 2 .. Len(q))
  BY <1>1, <1>2 DEF QueueIs, Follows
<1>4. i = 1 /\ Len(q) > 0
  BY <1>2, <1>3
<1>5. q[Len(q)] \in Threads
  BY <1>4
<1>6. QED
  BY <1>2, <1>4, <1>5, NullAssumption DEF QueueIs

(* A thread that waits is behind another.                                   *)
LEMMA WaiterHasPredecessor ==
    ASSUME NEW q \in Seq(Threads), QueueIs(q), NEW t \in Threads,
           pc[t] \in MCSQueueLabels, ~Past(t)
    PROVE  \E i \in 2 .. Len(q) : q[i] = t /\ Follows(q[i - 1], t)
<1>1. PICK i \in 1 .. Len(q) : q[i] = t
  BY DEF QueueIs
<1>2. i # 1
  BY <1>1 DEF QueueIs, Heads, Past
<1>3. i \in 2 .. Len(q)
  BY <1>1, <1>2
<1>4. QED
  BY <1>1, <1>3 DEF QueueIs

(* A step that changes no node and moves nobody in or out of the queue.     *)
LEMMA QueueStays ==
    ASSUME NEW q \in Seq(Threads), QueueIs(q), UNCHANGED mcsVars,
           \A u \in Threads : \/ pc'[u] = pc[u]
                              \/ pc[u] \notin QueuedLabels /\ pc'[u] \notin QueuedLabels
                              \/ /\ pc[u] \in OwnerLabels \/ Past(u)
                                 /\ pc'[u] \in OwnerLabels
                                 /\ pc'[u] = "mcsPass" => nodeNext[u] # NULL
                                 /\ pc'[u] = "mcsLinked" => endOfQueue # u
    PROVE  QueueIs(q)'
<1>1. UNCHANGED <<endOfQueue, nodeNext, nodeLocked, predecessor>>
  BY DEF mcsVars
<1>2. \A t \in Threads : pc'[t] \in QueuedLabels <=> \E i \in 1 .. Len(q) : q[i] = t
  BY DEF QueueIs, Past
<1>3. ASSUME NEW i \in 2 .. Len(q) PROVE Follows(q[i - 1], q[i])'
  <2>1. Follows(q[i - 1], q[i]) /\ q[i] \in Threads
    BY DEF QueueIs
  <2>2. pc'[q[i]] = pc[q[i]]
    BY <2>1 DEF Follows, Past
  <2>3. QED
    BY <1>1, <2>1, <2>2 DEF Follows
<1>4. ASSUME Len(q) > 0
      PROVE  Heads(q[1])' /\ (pc'[q[1]] = "mcsLinked" => Len(q) > 1)
  <2>1. q[1] \in Threads /\ Heads(q[1]) /\ (pc[q[1]] = "mcsLinked" => Len(q) > 1)
    BY <1>4 DEF QueueIs
  <2>2. Heads(q[1])'
    BY <1>1, <2>1 DEF Heads
  <2>3. endOfQueue # q[1] => Len(q) > 1
    BY <1>4 DEF QueueIs
  <2>4. QED
    BY <2>1, <2>2, <2>3 DEF Heads
<1>5. QED
  BY <1>1, <1>2, <1>3, <1>4 DEF QueueIs

(****************************************************************************)
(* The steps of mcslock_write_read_lock and mcslock_write_read_unlock.      *)
(****************************************************************************)
LEMMA QueueGrows ==
    ASSUME TypeOK, NEW q \in Seq(Threads), QueueIs(q), NEW t \in Threads,
           SwapFindsFree(t, "mcs", "readers") \/ SwapFindsTail(t, "mcs")
    PROVE  QueueIs(Append(q, t))'
<1> DEFINE r == Append(q, t)
<1>1. /\ r \in Seq(Threads) /\ Len(r) = Len(q) + 1 /\ r[Len(r)] = t
      /\ \A i \in 1 .. Len(q) : r[i] = q[i]
  OBVIOUS
<1>2. /\ pc[t] = "mcs" /\ \A u \in Threads \ {t} : pc'[u] = pc[u]
      /\ endOfQueue' = t /\ nodeLocked' = nodeLocked
      /\ nodeNext' = [nodeNext EXCEPT ![t] = NULL]
      /\ predecessor' = [predecessor EXCEPT ![t] = endOfQueue]
      /\ IF endOfQueue = NULL THEN pc'[t] = "readers" ELSE pc'[t] = "mcsLocked"
  <2>1. ASSUME NEW to, Swap(t, "mcs", to)
        PROVE  /\ pc[t] = "mcs" /\ pc'[t] = to /\ \A u \in Threads \ {t} : pc'[u] = pc[u]
               /\ endOfQueue' = t /\ nodeLocked' = nodeLocked
               /\ nodeNext' = [nodeNext EXCEPT ![t] = NULL]
               /\ predecessor' = [predecessor EXCEPT ![t] = endOfQueue]
    BY <2>1 DEF Swap, Move
  <2>2. CASE SwapFindsFree(t, "mcs", "readers")
    BY <2>1, <2>2 DEF SwapFindsFree
  <2>3. CASE SwapFindsTail(t, "mcs")
    BY <2>1, <2>3 DEF SwapFindsTail
  <2>4. QED
    BY <2>2, <2>3
<1>3. \A i \in 1 .. Len(q) : q[i] \in Threads /\ q[i] # t
  BY <1>2 DEF QueueIs
<1>4. endOfQueue = NULL <=> Len(q) = 0
  BY NullAssumption DEF QueueIs
<1> HIDE DEF r
<1>5. \A i, j \in 1 .. Len(r) : r[i] = r[j] => i = j
  BY SMTT(30), <1>1, <1>3 DEF QueueIs
<1>6. \A u \in Threads : pc'[u] \in QueuedLabels <=> \E i \in 1 .. Len(r) : r[i] = u
  <2>1. ASSUME NEW u \in Threads, pc'[u] \in QueuedLabels
        PROVE  \E i \in 1 .. Len(r) : r[i] = u
    <3>1. CASE u = t
      BY <1>1, <3>1
    <3>2. CASE u # t
      <4>1. PICK i \in 1 .. Len(q) : q[i] = u
        BY <1>2, <2>1, <3>2 DEF QueueIs
      <4>2. i \in 1 .. Len(r) /\ r[i] = u
        BY <1>1, <4>1
      <4>3. QED
        BY <4>2
    <3>3. QED
      BY <3>1, <3>2
  <2>2. ASSUME NEW i \in 1 .. Len(r) PROVE pc'[r[i]] \in QueuedLabels
    <3>1. CASE i = Len(r)
      BY <1>1, <1>2, <3>1
    <3>2. CASE i # Len(r)
      <4>1. i \in 1 .. Len(q) /\ r[i] = q[i] /\ q[i] \in Threads \ {t}
        BY <1>1, <1>3, <3>2
      <4>2. pc'[q[i]] = pc[q[i]] /\ pc[q[i]] \in QueuedLabels
        BY <1>2, <4>1 DEF QueueIs
      <4>3. QED
        BY <4>1, <4>2
    <3>3. QED
      BY <3>1, <3>2
  <2>3. QED
    BY <2>1, <2>2
<1>7. nodeNext'[t] = NULL /\ predecessor'[t] = endOfQueue
  BY <1>2 DEF TypeOK, MCSTypeOK
<1>8. Heads(r[1])' /\ (pc'[r[1]] = "mcsLinked" => Len(r) > 1)
  <2>1. CASE Len(q) = 0
    BY <1>1, <1>2, <1>4, <2>1 DEF Heads
  <2>2. CASE Len(q) > 0
    <3>1. r[1] = q[1] /\ q[1] # t /\ q[1] \in Threads /\ Heads(q[1])
      BY <1>1, <1>3, <2>2 DEF QueueIs
    <3>2. pc'[q[1]] = pc[q[1]] /\ nodeLocked' = nodeLocked /\ nodeNext'[q[1]] = nodeNext[q[1]]
      BY <1>2, <3>1 DEF TypeOK, MCSTypeOK
    <3>3. QED
      BY <1>1, <2>2, <3>1, <3>2 DEF Heads
  <2>3. QED
    BY <2>1, <2>2
<1>9. ASSUME NEW i \in 2 .. Len(r) PROVE Follows(r[i - 1], r[i])'
  <2>1. CASE i = Len(r)
    <3>1. Len(q) > 0 /\ r[i - 1] = q[Len(q)] /\ r[i] = t
      BY <1>1, <2>1
    <3>2. pc'[t] = "mcsLocked" /\ predecessor'[t] = q[Len(q)] /\ nodeNext[q[Len(q)]] = NULL
      BY <1>2, <1>4, <1>7, <3>1 DEF QueueIs
    <3>3. nodeNext'[q[Len(q)]] = NULL
      BY <1>2, <1>3, <3>1, <3>2 DEF TypeOK, MCSTypeOK
    <3>4. QED
      BY <3>1, <3>2, <3>3 DEF Follows
  <2>2. CASE i # Len(r)
    <3>1. i \in 2 .. Len(q) /\ r[i - 1] = q[i - 1] /\ r[i] = q[i]
      BY <1>1, <2>2
    <3>2. Follows(q[i - 1], q[i]) /\ q[i - 1] \in Threads \ {t} /\ q[i] \in Threads \ {t}
      BY <1>3, <3>1 DEF QueueIs
    <3>3. /\ pc'[q[i]] = pc[q[i]] /\ predecessor'[q[i]] = predecessor[q[i]]
          /\ nodeNext'[q[i - 1]] = nodeNext[q[i - 1]] /\ nodeLocked' = nodeLocked
      BY <1>2, <3>2 DEF TypeOK, MCSTypeOK
    <3>4. QED
      BY <3>1, <3>2, <3>3 DEF Follows
  <2>3. QED
    BY <2>1, <2>2
<1>10. QueueIs(r)'
  BY <1>1, <1>2, <1>5, <1>6, <1>7, <1>8, <1>9 DEF QueueIs
<1>11. QED
  BY <1>10 DEF r

(* The two stores of a thread that links its node.                          *)
LEMMA QueueLinks ==
    ASSUME TypeOK, NEW q \in Seq(Threads), QueueIs(q), NEW t \in Threads, Link(t)
    PROVE  QueueIs(q)'
<1>1. /\ pc[t] \in {"mcsLocked", "mcsLink"} /\ endOfQueue' = endOfQueue
      /\ pc'[t] \in {"mcsLink", "mcsWait"} /\ \A u \in Threads \ {t} : pc'[u] = pc[u]
  BY DEF Link, Move, TypeOK
<1>2. PICK k \in 2 .. Len(q) : q[k] = t /\ Follows(q[k - 1], t)
  BY <1>1, WaiterHasPredecessor DEF Past
<1>3. q[k - 1] \in Threads /\ q[k - 1] = predecessor[t] /\ k - 1 \in 1 .. Len(q)
  BY <1>1, <1>2 DEF Follows
<1>4. q[1] # t /\ q[1] \in Threads /\ Len(q) > 0
  BY <1>2 DEF QueueIs
<1>5. \A u \in Threads : pc'[u] \in QueuedLabels <=> pc[u] \in QueuedLabels
  BY <1>1
<1>6. CASE pc[t] = "mcsLocked"
  <2>1. /\ pc'[t] = "mcsLink" /\ nodeLocked' = [nodeLocked EXCEPT ![t] = TRUE]
        /\ UNCHANGED <<nodeNext, predecessor>>
    BY <1>6 DEF Link, Move, TypeOK
  <2>2. nodeLocked'[t] /\ \A u \in Threads \ {t} : nodeLocked'[u] = nodeLocked[u]
    BY <2>1 DEF TypeOK, MCSTypeOK
  <2>3. Heads(q[1])' /\ (pc'[q[1]] = "mcsLinked" => Len(q) > 1) /\ nodeNext'[q[Len(q)]] = NULL
    BY <1>1, <1>4, <2>1, <2>2 DEF QueueIs, Heads
  <2>4. ASSUME NEW i \in 2 .. Len(q) PROVE Follows(q[i - 1], q[i])'
    <3>1. Follows(q[i - 1], q[i]) /\ q[i] \in Threads
      BY DEF QueueIs
    <3>2. CASE q[i] = t
      BY <1>6, <2>1, <2>2, <3>1, <3>2 DEF Follows
    <3>3. CASE q[i] # t
      BY <1>1, <2>1, <2>2, <3>1, <3>3 DEF Follows
    <3>4. QED
      BY <3>2, <3>3
  <2>5. QED
    BY <1>1, <1>5, <2>3, <2>4 DEF QueueIs
<1>7. CASE pc[t] = "mcsLink"
  <2>1. /\ pc'[t] = "mcsWait" /\ nodeNext' = [nodeNext EXCEPT ![predecessor[t]] = t]
        /\ predecessor' = [predecessor EXCEPT ![t] = NULL] /\ nodeLocked' = nodeLocked
    BY <1>7 DEF Link, Move, TypeOK
  <2>2. /\ nodeNext'[q[k - 1]] = t /\ nodeLocked[t]
        /\ \A u \in Threads \ {q[k - 1]} : nodeNext'[u] = nodeNext[u]
        /\ \A u \in Threads \ {t} : predecessor'[u] = predecessor[u]
    BY <1>2, <1>3, <1>7, <2>1 DEF TypeOK, MCSTypeOK, Follows
  <2>3. Heads(q[1])' /\ (pc'[q[1]] = "mcsLinked" => Len(q) > 1)
    BY <1>1, <1>4, <2>1, <2>2, NullAssumption DEF QueueIs, Heads
  <2>4. nodeNext'[q[Len(q)]] = NULL
    <3>1. q[Len(q)] \in Threads /\ nodeNext[q[Len(q)]] = NULL
      BY <1>4 DEF QueueIs
    <3>2. q[Len(q)] # q[k - 1]
      BY <1>2, <1>3 DEF QueueIs
    <3>3. QED
      BY <2>2, <3>1, <3>2
  <2>5. ASSUME NEW i \in 2 .. Len(q) PROVE Follows(q[i - 1], q[i])'
    <3>1. Follows(q[i - 1], q[i]) /\ q[i] \in Threads /\ q[i - 1] \in Threads
      BY DEF QueueIs
    <3>2. CASE i = k
      BY <1>2, <2>1, <2>2, <3>2 DEF Follows
    <3>3. CASE i # k
      <4>1. q[i] # t /\ q[i - 1] # q[k - 1]
        BY <1>2, <1>3, <3>3 DEF QueueIs
      <4>2. /\ pc'[q[i]] = pc[q[i]] /\ predecessor'[q[i]] = predecessor[q[i]]
            /\ nodeNext'[q[i - 1]] = nodeNext[q[i - 1]]
        BY <1>1, <2>2, <3>1, <4>1
      <4>3. QED
        BY <2>1, <3>1, <4>2 DEF Follows
    <3>4. QED
      BY <3>2, <3>3
  <2>6. QED
    BY <1>1, <1>5, <2>3, <2>4, <2>5 DEF QueueIs
<1>8. QED
  BY <1>1, <1>6, <1>7

(* The owner looks at its node and at the tail.                             *)
LEMMA QueueUnlocks ==
    ASSUME TypeOK, NEW q \in Seq(Threads), QueueIs(q), NEW t \in Threads,
           UnlockLooks(t, "critical") \/ SuccessorLinked(t)
    PROVE  QueueIs(q)'
<1>1. /\ UNCHANGED mcsVars /\ \A u \in Threads \ {t} : pc'[u] = pc[u]
      /\ pc[t] \in {"critical", "mcsLinked"} /\ pc'[t] \in {"mcsSwapOut", "mcsPass"}
      /\ pc'[t] = "mcsPass" => nodeNext[t] # NULL
  BY DEF UnlockLooks, SuccessorLinked, Move, TypeOK
<1>2. QED
  BY <1>1, QueueStays

(* The owner leaves an empty queue, or waits for its successor's link.      *)
LEMMA QueueEmpties ==
    ASSUME TypeOK, NEW q \in Seq(Threads), QueueIs(q), NEW t \in Threads,
           SwapOut(t, "idle")
    PROVE  \E r \in Seq(Threads) : QueueIs(r)'
<1>1. /\ pc[t] = "mcsSwapOut" /\ \A u \in Threads \ {t} : pc'[u] = pc[u]
      /\ UNCHANGED <<nodeNext, nodeLocked, predecessor>>
      /\ IF endOfQueue = t THEN pc'[t] = "idle" /\ endOfQueue' = NULL
                           ELSE pc'[t] = "mcsLinked" /\ endOfQueue' = endOfQueue
  BY DEF SwapOut, Move, TypeOK
<1>2. Len(q) > 0 /\ q[1] = t
  BY <1>1, OnlyHeadOwns
<1>3. CASE endOfQueue # t
  <2>1. UNCHANGED mcsVars
    BY <1>1, <1>3 DEF mcsVars
  <2>2. QueueIs(q)'
    BY <1>1, <1>3, <2>1, QueueStays
  <2>3. QED
    BY <2>2
<1>4. CASE endOfQueue = t
  <2>1. Len(q) = 1
    <3>1. Len(q) \in 1 .. Len(q) /\ 1 \in 1 .. Len(q) /\ q[Len(q)] = q[1]
      BY <1>2, <1>4 DEF QueueIs
    <3>2. QED
      BY <3>1 DEF QueueIs
  <2>2. ASSUME NEW u \in Threads PROVE pc'[u] \notin QueuedLabels
    <3>1. CASE u = t
      BY <1>1, <1>4, <3>1
    <3>2. CASE u # t
      <4>1. ~\E i \in 1 .. Len(q) : q[i] = u
        BY <1>2, <2>1, <3>2
      <4>2. pc[u] \notin QueuedLabels
        BY <4>1 DEF QueueIs
      <4>3. QED
        BY <1>1, <3>2, <4>2
    <3>3. QED
      BY <3>1, <3>2
  <2>3. PICK r \in Seq(Threads) : Len(r) = 0
    <3>1. <<>> \in Seq(Threads) /\ Len(<<>>) = 0
      OBVIOUS
    <3>2. QED
      BY <3>1
  <2>4. endOfQueue' = NULL
    BY <1>1, <1>4
  <2>5. QueueIs(r)'
    BY <2>2, <2>3, <2>4 DEF QueueIs
  <2>6. QED
    BY <2>5
<1>5. QED
  BY <1>3, <1>4

(* The owner passes the lock to its successor.                              *)
LEMMA QueueShrinks ==
    ASSUME TypeOK, NEW q \in Seq(Threads), QueueIs(q), NEW t \in Threads,
           Pass(t, "idle")
    PROVE  /\ Len(q) > 1 /\ q[1] = t /\ nodeNext[t] = q[2]
           /\ QueueIs(Tail(q))'
<1> DEFINE r == Tail(q)
<1>1. /\ pc[t] = "mcsPass" /\ pc'[t] = "idle" /\ \A u \in Threads \ {t} : pc'[u] = pc[u]
      /\ UNCHANGED <<endOfQueue, nodeNext, predecessor>>
      /\ nodeLocked' = [nodeLocked EXCEPT ![nodeNext[t]] = FALSE]
  BY DEF Pass, Move, TypeOK
<1>2. Len(q) > 0 /\ q[1] = t
  BY <1>1, OnlyHeadOwns
<1>3. nodeNext[t] # NULL
  BY <1>1, <1>2 DEF QueueIs, Heads
<1>4. Len(q) > 1
  BY <1>2, <1>3 DEF QueueIs
<1>5. Follows(t, q[2]) /\ q[2] \in Threads /\ q[2] # t
  BY <1>2, <1>4 DEF QueueIs
<1>6. pc[q[2]] = "mcsWait" /\ nodeNext[t] = q[2]
  BY <1>3, <1>5 DEF Follows
<1>7. /\ r \in Seq(Threads) /\ Len(r) = Len(q) - 1
      /\ \A i \in 1 .. Len(r) : r[i] = q[i + 1]
  BY <1>4
<1> HIDE DEF r
<1>8. ASSUME NEW i \in 1 .. Len(r), NEW j \in 1 .. Len(r), r[i] = r[j] PROVE i = j
  <2>1. /\ i + 1 \in 1 .. Len(q) /\ j + 1 \in 1 .. Len(q)
        /\ q[i + 1] = q[j + 1]
    BY <1>7, <1>8
  <2>2. i + 1 = j + 1
    BY <2>1 DEF QueueIs
  <2>3. QED
    BY <2>2
<1>9. \A u \in Threads : pc'[u] \in QueuedLabels <=> \E i \in 1 .. Len(r) : r[i] = u
  <2>1. ASSUME NEW i \in 1 .. Len(r) PROVE r[i] # t
    BY <1>2, <1>4, <1>7 DEF QueueIs
  <2>2. ASSUME NEW u \in Threads, u # t, pc[u] \in QueuedLabels
        PROVE  \E i \in 1 .. Len(r) : r[i] = u
    <3>1. PICK i \in 1 .. Len(q) : q[i] = u
      BY <2>2 DEF QueueIs
    <3>2. i # 1 /\ i - 1 \in 1 .. Len(r) /\ r[i - 1] = u
      BY <1>2, <1>7, <2>2, <3>1
    <3>3. QED
      BY <3>2
  <2>3. ASSUME NEW i \in 1 .. Len(r) PROVE pc[r[i]] \in QueuedLabels
    <3>1. i + 1 \in 1 .. Len(q) /\ r[i] = q[i + 1] /\ q[i + 1] \in Threads
      BY <1>7
    <3>2. QED
      BY <3>1 DEF QueueIs
  <2>4. ASSUME NEW u \in Threads PROVE pc'[u] \in QueuedLabels <=> \E i \in 1 .. Len(r) : r[i] = u
    <3>1. CASE u = t
      BY <1>1, <2>1, <3>1
    <3>2. CASE u # t
      <4>1. pc'[u] = pc[u]
        BY <1>1, <3>2
      <4>2. (\E i \in 1 .. Len(r) : r[i] = u) => pc[u] \in QueuedLabels
        BY <2>3
      <4>3. QED
        BY <2>2, <3>2, <4>1, <4>2
    <3>3. QED
      BY <3>1, <3>2
  <2>5. QED
    BY <2>4
<1>10. /\ \A u \in Threads \ {q[2]} : nodeLocked'[u] = nodeLocked[u]
       /\ ~nodeLocked'[q[2]]
  BY <1>1, <1>5, <1>6 DEF TypeOK, MCSTypeOK
<1>11. Heads(r[1])' /\ pc'[r[1]] # "mcsLinked" /\ r[Len(r)] = q[Len(q)]
  BY <1>1, <1>4, <1>5, <1>6, <1>7, <1>10 DEF Heads
<1>12. ASSUME NEW i \in 2 .. Len(r) PROVE Follows(r[i - 1], r[i])'
  <2>1. i + 1 \in 2 .. Len(q) /\ r[i] = q[i + 1] /\ r[i - 1] = q[i]
    <3>1. i \in 1 .. Len(r) /\ i - 1 \in 1 .. Len(r) /\ (i - 1) + 1 = i
      OBVIOUS
    <3>2. r[i] = q[i + 1] /\ r[i - 1] = q[(i - 1) + 1] /\ Len(r) = Len(q) - 1
      BY <1>7, <3>1
    <3>3. QED
      BY <3>1, <3>2
  <2>2. Follows(q[i], q[i + 1]) /\ q[i + 1] \in Threads
    BY <2>1 DEF QueueIs
  <2>3. q[i + 1] # q[2] /\ q[i + 1] # t
    BY <1>2, <1>4, <2>1 DEF QueueIs
  <2>4. /\ pc'[q[i + 1]] = pc[q[i + 1]] /\ nodeLocked'[q[i + 1]] = nodeLocked[q[i + 1]]
        /\ nodeNext' = nodeNext /\ predecessor' = predecessor
    BY <1>1, <1>10, <2>2, <2>3
  <2>5. QED
    BY <2>1, <2>2, <2>4 DEF Follows
<1>13. QueueIs(r)'
  <2>1. endOfQueue = q[Len(q)] /\ nodeNext[q[Len(q)]] = NULL
    BY <1>4 DEF QueueIs
  <2>2. Len(r) > 0 /\ Len(r) # 0
    BY <1>4, <1>7
  <2>3. endOfQueue' = r[Len(r)] /\ nodeNext'[r[Len(r)]] = NULL
    BY <1>1, <1>11, <2>1
  <2>4. \A i, j \in 1 .. Len(r) : r[i] = r[j] => i = j
    BY <1>8
  <2>5. QED
    BY <1>9, <1>11, <1>12, <2>2, <2>3, <2>4 DEF QueueIs
<1>14. QED
  BY <1>2, <1>4, <1>6, <1>13 DEF r

(****************************************************************************)
(* The inductive invariant.                                                 *)
(****************************************************************************)
ReadersOK == ReaderTypeOK /\ CountsOK /\ RaisedOK /\ WaitIsProgress

IInv ==
    /\ pc \in [Threads -> Labels] /\ MCSTypeOK
    /\ ReadersOK
    /\ NoReadersPast
    /\ \E q \in Seq(Threads) : QueueIs(q)

LEMMA TypeOKFromIInv == IInv => TypeOK
BY DEF IInv, ReadersOK, TypeOK

LEMMA InitIInv == Init => IInv
<1> SUFFICES ASSUME Init PROVE IInv
  OBVIOUS
<1>1. pc = [t \in Threads |-> "idle"] /\ MCSInit /\ ReaderInit
  BY DEF Init
<1>2. pc \in [Threads -> Labels]
  BY <1>1 DEF Labels
<1>3. MCSTypeOK
  <2>1. nodeLocked \in [Threads -> BOOLEAN]
    BY <1>1, Zenon DEF MCSInit
  <2>2. QED
    BY <1>1, <2>1 DEF MCSInit, MCSTypeOK
<1>4. ReadersOK
  BY <1>1, ReadersAtFirst DEF ReadersOK
<1>5. NoReadersPast
  BY <1>1 DEF NoReadersPast
<1>6. PICK q \in Seq(Threads) : Len(q) = 0
  <2>1. <<>> \in Seq(Threads) /\ Len(<<>>) = 0
    OBVIOUS
  <2>2. QED
    BY <2>1
<1>7. QueueIs(q)
  BY <1>1, <1>6 DEF QueueIs, MCSInit
<1>8. QED
  BY <1>2, <1>3, <1>4, <1>5, <1>7 DEF IInv

(* A step after which a writer is past the readers only if one was before,  *)
(* and by which no reader gets in.                                          *)
LEMMA PastStays ==
    ASSUME NoReadersPast,
           \A u \in Threads : pc'[u] \in ReaderLabels => pc[u] \in ReaderLabels,
           \A u \in Threads : Past(u)' => \E v \in Threads : Past(v)
    PROVE  NoReadersPast'
<1>1. ASSUME NEW t \in Threads, NEW u \in Threads, Past(t)' PROVE pc'[u] \notin ReaderLabels
  BY <1>1 DEF NoReadersPast
<1>2. QED
  BY <1>1 DEF NoReadersPast

(****************************************************************************)
(* The writers' steps: the queue and the readers, one after the other.      *)
(****************************************************************************)
LEMMA WriterMoves ==
    ASSUME IInv, NEW t \in Threads,
           Call(t) \/ Barrier(t) \/ Lock(t) \/ TakeOver(t) \/ Unlock(t)
    PROVE  /\ UNCHANGED readVars
           /\ \A u \in Threads \ {t} : pc'[u] = pc[u]
           /\ pc' \in [Threads -> Labels] /\ MCSTypeOK'
           /\ pc[t] \notin ReadAnyLabels \cup {"readers"}
           /\ pc'[t] \notin ReadAnyLabels \ {"arrive"}
<1> USE DEF IInv, Labels, MCSTypeOK, Move
<1>1. CASE Call(t) \/ Barrier(t) \/ TakeOver(t)
  BY <1>1 DEF Call, Barrier, BarrierIsOff, TakeOver, HandedOver, mcsVars
<1>2. CASE Lock(t)
  <2>1. CASE SwapFindsFree(t, "mcs", "readers") \/ SwapFindsTail(t, "mcs")
    <3>1. /\ pc[t] = "mcs" /\ endOfQueue' = t /\ nodeLocked' = nodeLocked
          /\ nodeNext' = [nodeNext EXCEPT ![t] = NULL]
          /\ predecessor' = [predecessor EXCEPT ![t] = endOfQueue]
          /\ \E l \in {"readers", "mcsLocked"} : Move(t, "mcs", l)
      BY <2>1 DEF SwapFindsFree, SwapFindsTail, Swap
    <3>2. MCSTypeOK'
      BY <3>1
    <3>3. QED
      BY <1>2, <2>1, <3>1, <3>2 DEF Lock
  <2>2. CASE Link(t)
    <3>1. /\ pc[t] \in {"mcsLocked", "mcsLink"}
          /\ \E l \in {"mcsLink", "mcsWait"} : Move(t, pc[t], l)
      BY <2>2 DEF Link
    <3>2. MCSTypeOK'
      <4>1. /\ nodeLocked' \in [Threads -> BOOLEAN]
            /\ endOfQueue' = endOfQueue
        BY <2>2 DEF Link
      <4>2. nodeNext' \in [Threads -> Threads \cup {NULL}]
        BY <2>2 DEF Link
      <4>3. predecessor' \in [Threads -> Threads \cup {NULL}]
        BY <2>2 DEF Link
      <4>4. QED
        BY <4>1, <4>2, <4>3
    <3>3. QED
      BY <1>2, <2>2, <3>1, <3>2 DEF Lock
  <2>3. QED
    BY <1>2, <2>1, <2>2 DEF Lock
<1>3. CASE Unlock(t)
  <2>1. CASE UnlockLooks(t, "critical")
    BY <1>3, <2>1 DEF Unlock, UnlockLooks, mcsVars
  <2>2. CASE SwapOut(t, "idle")
    BY <1>3, <2>2 DEF Unlock, SwapOut
  <2>3. CASE SuccessorLinked(t) \/ Pass(t, "idle")
    BY <1>3, <2>3 DEF Unlock, SuccessorLinked, Pass, mcsVars
  <2>4. QED
    BY <1>3, <2>1, <2>2, <2>3 DEF Unlock
<1>4. QED
  BY <1>1, <1>2, <1>3

LEMMA WriterKeepsReaders ==
    ASSUME IInv, NEW t \in Threads,
           Call(t) \/ Barrier(t) \/ Lock(t) \/ TakeOver(t) \/ Unlock(t)
    PROVE  ReadersOK'
<1>1. /\ UNCHANGED <<readerGroups, group, writeBarrier, bRaised, readPatience>>
      /\ \A u \in Threads \ {t} : pc'[u] = pc[u]
      /\ pc[t] \notin ReadAnyLabels \cup {"readers"}
      /\ pc'[t] \notin ReadAnyLabels \ {"arrive"}
  BY WriterMoves DEF readVars, nziVars, patienceVars
<1>2. CountsOK' /\ RaisedOK'
  BY <1>1, OtherStepCounts DEF IInv, ReadersOK
<1>3. ReaderTypeOK'
  BY <1>1 DEF IInv, ReadersOK, ReaderTypeOK, NZITypeOK
<1>4. WaitIsProgress'
  BY <1>1, GroupInRange DEF IInv, ReadersOK, WaitIsProgress, Groups
<1>5. QED
  BY <1>2, <1>3, <1>4 DEF ReadersOK

LEMMA WriterKeepsQueue ==
    ASSUME IInv, NEW t \in Threads,
           Call(t) \/ Barrier(t) \/ Lock(t) \/ TakeOver(t) \/ Unlock(t)
    PROVE  NoReadersPast' /\ \E q \in Seq(Threads) : QueueIs(q)'
<1>1. PICK q \in Seq(Threads) : QueueIs(q)
  BY DEF IInv
<1>2. TypeOK /\ NoReadersPast
  BY TypeOKFromIInv DEF IInv
<1>3. \A u \in Threads \ {t} : pc'[u] = pc[u]
  BY WriterMoves
<1>4. \A u \in Threads : pc'[u] \in ReaderLabels => pc[u] \in ReaderLabels
  BY WriterMoves
<1>5. CASE Call(t) \/ Barrier(t) \/ TakeOver(t)
  <2>1. UNCHANGED mcsVars
    BY <1>5 DEF Call, Barrier, TakeOver, HandedOver
  <2>2. \/ pc[t] \notin QueuedLabels /\ pc'[t] \notin QueuedLabels
        \/ Past(t) /\ pc'[t] = "critical"
    BY <1>2, <1>5 DEF Call, Barrier, BarrierIsOff, TakeOver, HandedOver, Move, Past, TypeOK
  <2>3. QueueIs(q)'
    BY <1>1, <1>3, <2>1, <2>2, QueueStays
  <2>4. \A u \in Threads : Past(u)' => Past(u)
    BY <1>3, <2>1, <2>2 DEF Past, mcsVars
  <2>5. QED
    BY <1>2, <1>4, <2>3, <2>4, PastStays
<1>6. CASE SwapFindsFree(t, "mcs", "readers") \/ SwapFindsTail(t, "mcs")
  <2>1. QueueIs(Append(q, t))' /\ Append(q, t) \in Seq(Threads)
    BY <1>1, <1>2, <1>6, QueueGrows
  <2>2. pc'[t] \in {"readers", "mcsLocked"} /\ nodeLocked' = nodeLocked
    BY <1>2, <1>6 DEF SwapFindsFree, SwapFindsTail, Swap, Move, TypeOK
  <2>3. \A u \in Threads : Past(u)' => Past(u)
    BY <1>3, <2>2 DEF Past
  <2>4. QED
    BY <1>2, <1>4, <2>1, <2>3, PastStays
<1>7. CASE Link(t)
  <2>1. QueueIs(q)'
    BY <1>1, <1>2, <1>7, QueueLinks
  <2>2. ~Past(t)'
    <3>1. CASE pc[t] = "mcsLocked"
      BY <1>2, <1>7, <3>1 DEF Link, Move, TypeOK, Past
    <3>2. CASE pc[t] = "mcsLink"
      <4>1. nodeLocked[t]
        BY <1>1, <3>2, WaiterHasPredecessor DEF Past, Follows
      <4>2. QED
        BY <1>2, <1>7, <3>2, <4>1 DEF Link, Move, TypeOK, Past
    <3>3. QED
      BY <1>7, <3>1, <3>2 DEF Link, Move
  <2>3. \A u \in Threads \ {t} : nodeLocked'[u] = nodeLocked[u]
    BY <1>2, <1>7 DEF Link, TypeOK, MCSTypeOK
  <2>4. \A u \in Threads : Past(u)' => Past(u)
    BY <1>3, <2>2, <2>3 DEF Past
  <2>5. QED
    BY <1>2, <1>4, <2>1, <2>4, PastStays
<1>8. CASE Unlock(t)
  <2>1. Past(t)
    BY <1>8 DEF Unlock, UnlockLooks, SwapOut, SuccessorLinked, Pass, Move, Past
  <2>2. \E r \in Seq(Threads) : QueueIs(r)'
    <3>1. CASE UnlockLooks(t, "critical") \/ SuccessorLinked(t)
      BY <1>1, <1>2, <3>1, QueueUnlocks
    <3>2. CASE SwapOut(t, "idle")
      BY <1>1, <1>2, <3>2, QueueEmpties
    <3>3. CASE Pass(t, "idle")
      <4>1. QueueIs(Tail(q))' /\ Len(q) > 1
        BY <1>1, <1>2, <3>3, QueueShrinks
      <4>2. Tail(q) \in Seq(Threads)
        BY <4>1
      <4>3. QED
        BY <4>1, <4>2
    <3>4. QED
      BY <1>8, <3>1, <3>2, <3>3 DEF Unlock
  <2>3. QED
    BY <1>2, <1>4, <2>1, <2>2, PastStays
<1>9. QED
  BY <1>5, <1>6, <1>7, <1>8 DEF Lock

(****************************************************************************)
(* The head of the queue waits for the readers: when it has seen the last   *)
(* group empty none is left, and none can get in.                           *)
(****************************************************************************)
LEMMA HeadWaits ==
    ASSUME IInv, NEW t \in Threads, WaitForReaders(t)
    PROVE  IInv'
<1>1. ReadersAreOut(t, "readers", "critical") /\ UNCHANGED mcsVars
  BY DEF WaitForReaders
<1>2. /\ ReaderTypeOK' /\ UNCHANGED <<readerGroups, writeBarrier, bRaised>>
      /\ \A u \in Threads \ {t} : pc'[u] = pc[u]
      /\ pc[t] = "readers" /\ pc'[t] \in {"readers", "critical"}
      /\ WaitIsProgress'
      /\ pc'[t] = "critical" => \A u \in Threads : pc[u] \notin ReaderLabels
  BY <1>1, GroupSeenEmpty DEF IInv, ReadersOK
<1>3. CountsOK' /\ RaisedOK'
  BY <1>2, OtherStepCounts DEF IInv, ReadersOK
<1>4. pc' \in [Threads -> Labels] /\ MCSTypeOK'
  <2>1. pc' = [u \in Threads |-> IF u = t THEN pc'[t] ELSE pc[u]] /\ pc'[t] \in Labels
    BY <1>1, <1>2 DEF ReadersAreOut, GroupIsEmpty, Move, IInv, Labels
  <2>2. QED
    BY <1>1, <2>1 DEF IInv, MCSTypeOK, mcsVars
<1>5. NoReadersPast'
  BY <1>1, <1>2 DEF IInv, NoReadersPast, Past, mcsVars
<1>6. PICK q \in Seq(Threads) : QueueIs(q)
  BY DEF IInv
<1>7. QueueIs(q)'
  BY <1>1, <1>2, <1>6, QueueStays
<1>8. QED
  BY <1>2, <1>3, <1>4, <1>5, <1>7 DEF IInv, ReadersOK

(* A reader gets in only while the queue is empty, and then no writer is    *)
(* past the readers.                                                        *)
LEMMA ReaderMoves ==
    ASSUME IInv, NEW t \in Threads, Read(t)
    PROVE  IInv'
<1>1. ReadStep(t, MCSIsLocked) /\ UNCHANGED mcsVars
  BY DEF Read
<1>2. ReaderTypeOK /\ CountsOK /\ RaisedOK /\ DOMAIN pc = Threads
  BY DEF IInv, ReadersOK
<1>3. /\ ReaderTypeOK' /\ group' = group
      /\ pc[t] \in ReadAnyLabels
      /\ pc' = [u \in Threads |-> IF u = t THEN pc'[t] ELSE pc[u]]
      /\ pc'[t] \in ReadAnyLabels \cup {"idle"}
      /\ pc'[t] \in ReaderLabels => pc[t] \in ReaderLabels \/ ~MCSIsLocked
  BY <1>1, <1>2, ReadStepFacts
<1>4. CountsOK' /\ RaisedOK'
  BY <1>1, <1>2, ReadStepCounts, ReadStepRaised
<1>5. \A u \in Threads \ {t} : pc'[u] = pc[u]
  BY <1>2, <1>3
<1>6. pc' \in [Threads -> Labels] /\ MCSTypeOK'
  BY <1>1, <1>3 DEF IInv, Labels, MCSTypeOK, mcsVars
<1>7. PICK q \in Seq(Threads) : QueueIs(q)
  BY DEF IInv
<1>8. \A u \in Threads : Past(u) \/ pc[u] = "readers" => MCSIsLocked
  BY <1>7, OnlyHeadOwns DEF MCSIsLocked
<1>9. WaitIsProgress'
  <2>1. pc[t] # "readers" /\ pc'[t] # "readers"
    BY <1>3
  <2>2. ASSUME NEW u \in Threads, pc'[u] = "readers", NEW v \in Threads, pc'[v] \in ReaderLabels
        PROVE  group'[u] <= GroupOf(v)
    <3>1. pc[u] = "readers" /\ MCSIsLocked
      BY <1>5, <1>8, <2>1, <2>2
    <3>2. pc[v] \in ReaderLabels
      BY <1>3, <1>5, <2>2, <3>1
    <3>3. QED
      BY <1>3, <3>1, <3>2 DEF IInv, ReadersOK, WaitIsProgress
  <2>3. ASSUME NEW u \in Threads, pc'[u] # "readers" PROVE group'[u] = 0
    BY <1>3, <1>5, <2>1, <2>3 DEF IInv, ReadersOK, WaitIsProgress
  <2>4. QED
    BY <2>2, <2>3 DEF WaitIsProgress
<1>10. NoReadersPast'
  <2>1. ASSUME NEW u \in Threads, Past(u)', NEW v \in Threads PROVE pc'[v] \notin ReaderLabels
    <3>1. Past(u) /\ MCSIsLocked
      BY <1>1, <1>3, <1>5, <1>8, <2>1 DEF Past, mcsVars
    <3>2. pc[v] \notin ReaderLabels
      BY <3>1 DEF IInv, NoReadersPast
    <3>3. QED
      BY <1>3, <1>5, <3>1, <3>2
  <2>2. QED
    BY <2>1 DEF NoReadersPast
<1>11. QueueIs(q)'
  BY <1>1, <1>3, <1>5, <1>7, QueueStays
<1>12. QED
  BY <1>3, <1>4, <1>6, <1>9, <1>10, <1>11 DEF IInv, ReadersOK

LEMMA IInvStep == IInv /\ [Next]_vars => IInv'
<1> SUFFICES ASSUME IInv, [Next]_vars PROVE IInv'
  OBVIOUS
<1>1. CASE UNCHANGED vars
  <2>1. UNCHANGED <<pc, mcsVars, readerGroups, group, writeBarrier, bRaised, readPatience>>
    BY <1>1 DEF vars, readVars, nziVars, patienceVars
  <2>2. pc' \in [Threads -> Labels] /\ MCSTypeOK' /\ NoReadersPast'
    BY <2>1 DEF IInv, MCSTypeOK, NoReadersPast, Past, mcsVars
  <2>3. ReadersOK'
    BY <2>1 DEF IInv, ReadersOK, ReaderTypeOK, NZITypeOK, CountsOK, Arrived, Impatient,
                RaisedOK, WaitIsProgress
  <2>4. PICK q \in Seq(Threads) : QueueIs(q)
    BY DEF IInv
  <2>5. QueueIs(q)'
    BY <2>1, <2>4, QueueStays
  <2>6. QED
    BY <2>2, <2>3, <2>5 DEF IInv
<1>2. ASSUME NEW t \in Threads,
             Call(t) \/ Barrier(t) \/ Lock(t) \/ TakeOver(t) \/ Unlock(t)
      PROVE  IInv'
  BY <1>2, WriterMoves, WriterKeepsReaders, WriterKeepsQueue DEF IInv
<1>3. QED
  BY <1>1, <1>2, HeadWaits, ReaderMoves DEF Next, Step

LEMMA Invariant == Spec => []IInv
BY InitIInv, IInvStep, PTL DEF Spec

(****************************************************************************)
(* What the lock promises.                                                  *)
(****************************************************************************)

(* Every variable of the lock, its MCS lock and its readers stays in its    *)
(* type.                                                                    *)
THEOREM TypeCorrect == Spec => []TypeOK
BY TypeOKFromIInv, Invariant, PTL

(* wprwlock_write_read_lock: a critical section overlaps no other and no    *)
(* reader's section, also when the lock was handed over and its new owner   *)
(* has not looked at the readers.                                           *)
THEOREM Exclusion == Spec => []WritersExcludeAll
<1>1. IInv => WritersExcludeAll
  <2> SUFFICES ASSUME IInv, NEW t \in Threads, NEW u \in Threads, pc[t] = "critical", t # u
               PROVE  pc[u] # "critical" /\ pc[u] \notin ReaderLabels
    BY DEF WritersExcludeAll
  <2>1. PICK q \in Seq(Threads) : QueueIs(q)
    BY DEF IInv
  <2>2. q[1] = t
    BY <2>1, OnlyHeadOwns
  <2>3. pc[u] # "critical"
    BY <2>1, <2>2, OnlyHeadOwns
  <2>4. pc[u] \notin ReaderLabels
    BY DEF IInv, NoReadersPast, Past
  <2>5. QED
    BY <2>3, <2>4
<1>2. QED
  BY <1>1, Invariant, PTL
=============================================================================
