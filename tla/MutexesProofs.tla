---------------------------- MODULE MutexesProofs ----------------------------
(****************************************************************************)
(* Proofs about the mutexes, for any set of threads: exclusion, that a      *)
(* hand-over reaches a thread that waits for it, that no wake-up is lost,   *)
(* and that the queue locks implement a first-come-first-served lock.       *)
(*                                                                          *)
(* mcs_lock.c and the MCS locks of the C++ library have the same queue of   *)
(* nodes. What a step does to it is one of the seven node steps below,      *)
(* which speak of the stages of the threads and not of the labels of one    *)
(* of the programs.                                                         *)
(****************************************************************************)
EXTENDS Mutexes, TLAPS

PlaceStages == {"take", "link", "wait", "inside"}

(****************************************************************************)
(* Node steps.                                                              *)
(****************************************************************************)
SameOthers(t) == \A u \in Threads \ {t} : Stage(u)' = Stage(u)

SameNodes ==
    /\ UNCHANGED <<endOfQueue, nodeLocked>>
    /\ \A u \in Threads : Stage(u) # "out" => nodeNext'[u] = nodeNext[u]
    /\ \A u \in Threads : Stage(u) \in {"take", "link"} => predecessor'[u] = predecessor[u]

NodeStays ==
    /\ SameNodes
    /\ \A u \in Threads : Stage(u)' = Stage(u)

NodeSwaps(t) ==
    /\ Stage(t) = "out"
    /\ Stage(t)' = IF endOfQueue = NULL THEN "inside" ELSE "take"
    /\ SameOthers(t)
    /\ endOfQueue' = t
    /\ nodeLocked' = nodeLocked
    /\ nodeNext'[t] = NULL /\ \A u \in Threads \ {t} : nodeNext'[u] = nodeNext[u]
    /\ predecessor' = [predecessor EXCEPT ![t] = endOfQueue]

NodeLinks(t) ==
    /\ SameOthers(t)
    /\ endOfQueue' = endOfQueue
    /\ \/ /\ Stage(t) = "take" /\ Stage(t)' = "link"
          /\ nodeLocked' = [nodeLocked EXCEPT ![t] = TRUE]
          /\ UNCHANGED <<nodeNext, predecessor>>
       \/ /\ Stage(t) = "link" /\ Stage(t)' = "wait"
          /\ nodeNext' = [nodeNext EXCEPT ![predecessor[t]] = t]
          /\ \A u \in Threads \ {t} : predecessor'[u] = predecessor[u]
          /\ nodeLocked' = nodeLocked

NodeEnters(t) ==
    /\ Stage(t) = "wait" /\ Stage(t)' = "inside"
    /\ ~nodeLocked[t]
    /\ SameOthers(t)
    /\ SameNodes

NodeLooks(t) ==
    /\ Stage(t) \in OwnerStages /\ Stage(t)' \in UnlockStages
    /\ Stage(t)' = "pass" => nodeNext[t] # NULL
    /\ Stage(t)' = "linked" => endOfQueue # t
    /\ SameOthers(t)
    /\ SameNodes

NodeEmpties(t) ==
    /\ Stage(t) = "leaving" /\ Stage(t)' = "out"
    /\ endOfQueue = t /\ endOfQueue' = NULL
    /\ SameOthers(t)

NodePasses(t) ==
    /\ Stage(t) = "pass" /\ Stage(t)' = "out"
    /\ nodeLocked' = [nodeLocked EXCEPT ![nodeNext[t]] = FALSE]
    /\ \A u \in Threads \ {t} : nodeNext'[u] = nodeNext[u]
    /\ UNCHANGED <<endOfQueue, predecessor>>
    /\ SameOthers(t)

NodeStep(t) ==
    \/ NodeStays \/ NodeSwaps(t) \/ NodeLinks(t) \/ NodeEnters(t)
    \/ NodeLooks(t) \/ NodeEmpties(t) \/ NodePasses(t)

(****************************************************************************)
(* What the queue of nodes says.                                            *)
(****************************************************************************)
USE DEF OwnerStages, UnlockStages

LEMMA OwnerIsHead ==
    ASSUME NEW q \in Seq(Threads), NodeQueueIs(q), NEW t \in Threads,
           Stage(t) \in OwnerStages \/ (Stage(t) = "wait" /\ ~nodeLocked[t])
    PROVE  Len(q) > 0 /\ q[1] = t /\ endOfQueue # NULL
<1>1. PICK i \in 1 .. Len(q) : q[i] = t
  BY DEF NodeQueueIs
<1>2. ~(i \in 2 .. Len(q))
  BY <1>1 DEF NodeQueueIs, Follows
<1>3. i = 1 /\ Len(q) > 0
  BY <1>1, <1>2
<1>4. q[Len(q)] \in Threads
  BY <1>3
<1>5. QED
  BY <1>1, <1>3, <1>4, NullAssumption DEF NodeQueueIs

LEMMA WaiterFollows ==
    ASSUME NEW q \in Seq(Threads), NodeQueueIs(q), NEW t \in Threads,
           Stage(t) \in {"take", "link"} \/ (Stage(t) = "wait" /\ nodeLocked[t])
    PROVE  \E i \in 2 .. Len(q) : q[i] = t /\ Follows(q[i - 1], t)
<1>1. PICK i \in 1 .. Len(q) : q[i] = t
  BY DEF NodeQueueIs
<1>2. i # 1
  BY <1>1 DEF NodeQueueIs, Heads
<1>3. i \in 2 .. Len(q)
  BY <1>1, <1>2
<1>4. QED
  BY <1>1, <1>3 DEF NodeQueueIs

(* A step that changes no node of the queue and moves nobody in or out.     *)
LEMMA QueueStays ==
    ASSUME NEW q \in Seq(Threads), NodeQueueIs(q),
           NodeStays \/ \E t \in Threads : NodeEnters(t) \/ NodeLooks(t)
    PROVE  NodeQueueIs(q)'
<1>1. /\ UNCHANGED <<endOfQueue, nodeLocked>>
      /\ \A u \in Threads : Stage(u) # "out" => nodeNext'[u] = nodeNext[u]
      /\ \A u \in Threads : Stage(u) \in {"take", "link"} => predecessor'[u] = predecessor[u]
  BY DEF NodeStays, NodeEnters, NodeLooks, SameNodes
<1>2. ASSUME NEW u \in Threads
      PROVE  \/ Stage(u)' = Stage(u)
             \/ /\ Stage(u) \in OwnerStages \/ (Stage(u) = "wait" /\ ~nodeLocked[u])
                /\ Stage(u)' \in OwnerStages
                /\ Stage(u)' = "pass" => nodeNext[u] # NULL
                /\ Stage(u)' = "linked" => endOfQueue # u
  BY DEF NodeStays, NodeEnters, NodeLooks, SameOthers
<1>3. \A u \in Threads : Stage(u)' # "out" <=> \E i \in 1 .. Len(q) : q[i] = u
  BY <1>2 DEF NodeQueueIs
<1>4. ASSUME NEW i \in 2 .. Len(q) PROVE Follows(q[i - 1], q[i])'
  <2>1. Follows(q[i - 1], q[i]) /\ q[i] \in Threads /\ q[i - 1] \in Threads
    BY DEF NodeQueueIs
  <2>2. Stage(q[i])' = Stage(q[i])
    BY <1>2, <2>1 DEF Follows
  <2>3. Stage(q[i - 1]) # "out"
    <3>1. i - 1 \in 1 .. Len(q)
      OBVIOUS
    <3>2. QED
      BY <2>1, <3>1 DEF NodeQueueIs
  <2>4. QED
    BY <1>1, <2>1, <2>2, <2>3 DEF Follows
<1>5. ASSUME Len(q) > 0
      PROVE  Heads(q[1])' /\ (Stage(q[1])' = "linked" => Len(q) > 1) /\ nodeNext'[q[Len(q)]] = NULL
  <2>1. q[1] \in Threads /\ Heads(q[1]) /\ (Stage(q[1]) = "linked" => Len(q) > 1)
    BY <1>5 DEF NodeQueueIs
  <2>2. Stage(q[1]) # "out" /\ q[Len(q)] \in Threads /\ Stage(q[Len(q)]) # "out"
    <3>1. 1 \in 1 .. Len(q) /\ Len(q) \in 1 .. Len(q)
      BY <1>5
    <3>2. q[1] \in Threads /\ q[Len(q)] \in Threads
      BY <1>5
    <3>3. QED
      BY <3>1, <3>2 DEF NodeQueueIs
  <2>3. Heads(q[1])'
    BY <1>1, <1>2, <2>1, <2>2 DEF Heads
  <2>4. endOfQueue # q[1] => Len(q) > 1
    BY <1>5 DEF NodeQueueIs
  <2>5. nodeNext'[q[Len(q)]] = NULL
    BY <1>1, <1>5, <2>2 DEF NodeQueueIs
  <2>6. Stage(q[1])' = "linked" => Len(q) > 1
    BY <1>2, <2>1, <2>4
  <2>7. QED
    BY <2>3, <2>5, <2>6
<1>6. QED
  BY <1>1, <1>3, <1>4, <1>5 DEF NodeQueueIs

(* A new node is behind the last one.                                       *)
LEMMA QueueGrows ==
    ASSUME MCSTypeOK, NEW q \in Seq(Threads), NodeQueueIs(q), NEW t \in Threads, NodeSwaps(t)
    PROVE  NodeQueueIs(Append(q, t))'
<1> DEFINE r == Append(q, t)
<1>1. /\ r \in Seq(Threads) /\ Len(r) = Len(q) + 1 /\ r[Len(r)] = t
      /\ \A i \in 1 .. Len(q) : r[i] = q[i]
  OBVIOUS
<1>2. /\ Stage(t) = "out" /\ \A u \in Threads \ {t} : Stage(u)' = Stage(u)
      /\ endOfQueue' = t /\ nodeLocked' = nodeLocked
      /\ nodeNext'[t] = NULL /\ \A u \in Threads \ {t} : nodeNext'[u] = nodeNext[u]
      /\ predecessor' = [predecessor EXCEPT ![t] = endOfQueue]
      /\ Stage(t)' = IF endOfQueue = NULL THEN "inside" ELSE "take"
  BY DEF NodeSwaps, SameOthers
<1>3. \A i \in 1 .. Len(q) : q[i] \in Threads /\ q[i] # t
  BY <1>2 DEF NodeQueueIs
<1>4. endOfQueue = NULL <=> Len(q) = 0
  BY NullAssumption DEF NodeQueueIs
<1> HIDE DEF r
<1>5. \A i, j \in 1 .. Len(r) : r[i] = r[j] => i = j
  BY <1>1, <1>3 DEF NodeQueueIs
<1>6. \A u \in Threads : Stage(u)' # "out" <=> \E i \in 1 .. Len(r) : r[i] = u
  <2>1. ASSUME NEW u \in Threads, Stage(u)' # "out"
        PROVE  \E i \in 1 .. Len(r) : r[i] = u
    <3>1. CASE u = t
      BY <1>1, <3>1
    <3>2. CASE u # t
      <4>1. PICK i \in 1 .. Len(q) : q[i] = u
        BY <1>2, <2>1, <3>2 DEF NodeQueueIs
      <4>2. i \in 1 .. Len(r) /\ r[i] = u
        BY <1>1, <4>1
      <4>3. QED
        BY <4>2
    <3>3. QED
      BY <3>1, <3>2
  <2>2. ASSUME NEW u \in Threads, NEW i \in 1 .. Len(r), r[i] = u PROVE Stage(u)' # "out"
    <3>1. CASE u = t
      BY <1>2, <3>1
    <3>2. CASE u # t
      <4>1. i \in 1 .. Len(q) /\ q[i] = u
        BY <1>1, <2>2, <3>2
      <4>2. Stage(u) # "out"
        BY <4>1 DEF NodeQueueIs
      <4>3. QED
        BY <1>2, <3>2, <4>2
    <3>3. QED
      BY <3>1, <3>2
  <2>3. QED
    BY <2>1, <2>2
<1>7. predecessor'[t] = endOfQueue
  BY <1>2 DEF MCSTypeOK
<1>8. Heads(r[1])' /\ (Stage(r[1])' = "linked" => Len(r) > 1)
  <2>1. CASE Len(q) = 0
    BY <1>1, <1>2, <1>4, <2>1 DEF Heads
  <2>2. CASE Len(q) > 0
    <3>1. r[1] = q[1] /\ q[1] # t /\ q[1] \in Threads /\ Heads(q[1])
      BY <1>1, <1>3, <2>2 DEF NodeQueueIs
    <3>2. Stage(q[1])' = Stage(q[1]) /\ nodeLocked' = nodeLocked /\ nodeNext'[q[1]] = nodeNext[q[1]]
      BY <1>2, <3>1
    <3>3. QED
      BY <1>1, <2>2, <3>1, <3>2 DEF Heads
  <2>3. QED
    BY <2>1, <2>2
<1>9. ASSUME NEW i \in 2 .. Len(r) PROVE Follows(r[i - 1], r[i])'
  <2>1. CASE i = Len(r)
    <3>1. Len(q) > 0 /\ r[i - 1] = q[Len(q)] /\ r[i] = t
      BY <1>1, <2>1
    <3>2. Stage(t)' = "take" /\ predecessor'[t] = q[Len(q)] /\ nodeNext[q[Len(q)]] = NULL
      BY <1>2, <1>4, <1>7, <3>1 DEF NodeQueueIs
    <3>3. nodeNext'[q[Len(q)]] = NULL
      BY <1>2, <1>3, <3>1, <3>2
    <3>4. QED
      BY <3>1, <3>2, <3>3 DEF Follows
  <2>2. CASE i # Len(r)
    <3>1. i \in 2 .. Len(q) /\ r[i - 1] = q[i - 1] /\ r[i] = q[i]
      BY <1>1, <2>2
    <3>2. Follows(q[i - 1], q[i]) /\ q[i - 1] \in Threads \ {t} /\ q[i] \in Threads \ {t}
      BY <1>3, <3>1 DEF NodeQueueIs
    <3>3. /\ Stage(q[i])' = Stage(q[i]) /\ predecessor'[q[i]] = predecessor[q[i]]
          /\ nodeNext'[q[i - 1]] = nodeNext[q[i - 1]] /\ nodeLocked' = nodeLocked
      BY <1>2, <3>2 DEF MCSTypeOK
    <3>4. QED
      BY <3>1, <3>2, <3>3 DEF Follows
  <2>3. QED
    BY <2>1, <2>2
<1>10. NodeQueueIs(r)'
  BY <1>1, <1>2, <1>5, <1>6, <1>8, <1>9 DEF NodeQueueIs
<1>11. QED
  BY <1>10 DEF r

(* The two stores of a thread that links its node.                          *)
LEMMA QueueLinks ==
    ASSUME MCSTypeOK, NEW q \in Seq(Threads), NodeQueueIs(q), NEW t \in Threads, NodeLinks(t)
    PROVE  /\ NodeQueueIs(q)'
           /\ Len(q) > 0 /\ q[1] # t
           /\ \A u \in Threads : Stage(u) = "out" => nodeNext'[u] = nodeNext[u]
<1>1. /\ Stage(t) \in {"take", "link"} /\ endOfQueue' = endOfQueue
      /\ Stage(t)' \in {"link", "wait"} /\ \A u \in Threads \ {t} : Stage(u)' = Stage(u)
  BY DEF NodeLinks, SameOthers
<1>2. PICK k \in 2 .. Len(q) : q[k] = t /\ Follows(q[k - 1], t)
  BY <1>1, WaiterFollows
<1>3. q[k - 1] \in Threads /\ q[k - 1] = predecessor[t] /\ k - 1 \in 1 .. Len(q)
  BY <1>1, <1>2 DEF Follows
<1>4. q[1] # t /\ q[1] \in Threads /\ Len(q) > 0
  BY <1>2 DEF NodeQueueIs
<1>5. \A u \in Threads : Stage(u)' # "out" <=> Stage(u) # "out"
  BY <1>1
<1>6. CASE Stage(t) = "take"
  <2>1. /\ Stage(t)' = "link" /\ nodeLocked' = [nodeLocked EXCEPT ![t] = TRUE]
        /\ UNCHANGED <<nodeNext, predecessor>>
    BY <1>6 DEF NodeLinks
  <2>2. nodeLocked'[t] /\ \A u \in Threads \ {t} : nodeLocked'[u] = nodeLocked[u]
    BY <2>1 DEF MCSTypeOK
  <2>3. Heads(q[1])' /\ (Stage(q[1])' = "linked" => Len(q) > 1) /\ nodeNext'[q[Len(q)]] = NULL
    BY <1>1, <1>4, <2>1, <2>2 DEF NodeQueueIs, Heads
  <2>4. ASSUME NEW i \in 2 .. Len(q) PROVE Follows(q[i - 1], q[i])'
    <3>1. Follows(q[i - 1], q[i]) /\ q[i] \in Threads
      BY DEF NodeQueueIs
    <3>2. CASE q[i] = t
      BY <1>6, <2>1, <2>2, <3>1, <3>2 DEF Follows
    <3>3. CASE q[i] # t
      BY <1>1, <2>1, <2>2, <3>1, <3>3 DEF Follows
    <3>4. QED
      BY <3>2, <3>3
  <2>5. NodeQueueIs(q)'
    BY <1>1, <1>5, <2>3, <2>4 DEF NodeQueueIs
  <2>6. QED
    BY <1>4, <2>1, <2>5
<1>7. CASE Stage(t) = "link"
  <2>1. /\ Stage(t)' = "wait" /\ nodeNext' = [nodeNext EXCEPT ![predecessor[t]] = t]
        /\ \A u \in Threads \ {t} : predecessor'[u] = predecessor[u]
        /\ nodeLocked' = nodeLocked
    BY <1>7 DEF NodeLinks
  <2>2. /\ nodeNext'[q[k - 1]] = t /\ nodeLocked[t]
        /\ \A u \in Threads \ {q[k - 1]} : nodeNext'[u] = nodeNext[u]
    BY <1>2, <1>3, <1>7, <2>1 DEF MCSTypeOK, Follows
  <2>3. Heads(q[1])' /\ (Stage(q[1])' = "linked" => Len(q) > 1)
    BY <1>1, <1>4, <2>1, <2>2, NullAssumption DEF NodeQueueIs, Heads
  <2>4. nodeNext'[q[Len(q)]] = NULL
    <3>1. q[Len(q)] \in Threads /\ nodeNext[q[Len(q)]] = NULL
      BY <1>4 DEF NodeQueueIs
    <3>2. q[Len(q)] # q[k - 1]
      BY <1>2, <1>3 DEF NodeQueueIs
    <3>3. QED
      BY <2>2, <3>1, <3>2
  <2>5. ASSUME NEW i \in 2 .. Len(q) PROVE Follows(q[i - 1], q[i])'
    <3>1. Follows(q[i - 1], q[i]) /\ q[i] \in Threads /\ q[i - 1] \in Threads
      BY DEF NodeQueueIs
    <3>2. CASE i = k
      BY <1>2, <2>1, <2>2, <3>2 DEF Follows
    <3>3. CASE i # k
      <4>1. q[i] # t /\ q[i - 1] # q[k - 1]
        BY <1>2, <1>3, <3>3 DEF NodeQueueIs
      <4>2. /\ Stage(q[i])' = Stage(q[i]) /\ predecessor'[q[i]] = predecessor[q[i]]
            /\ nodeNext'[q[i - 1]] = nodeNext[q[i - 1]]
        BY <1>1, <2>1, <2>2, <3>1, <4>1
      <4>3. QED
        BY <2>1, <3>1, <4>2 DEF Follows
    <3>4. QED
      BY <3>2, <3>3
  <2>6. NodeQueueIs(q)'
    BY <1>1, <1>5, <2>3, <2>4, <2>5 DEF NodeQueueIs
  <2>7. ASSUME NEW u \in Threads, Stage(u) = "out" PROVE nodeNext'[u] = nodeNext[u]
    BY <1>3, <2>2, <2>7 DEF NodeQueueIs
  <2>8. QED
    BY <1>4, <2>6, <2>7
<1>8. QED
  BY <1>1, <1>6, <1>7

(* The owner leaves, and nobody is behind it.                               *)
LEMMA QueueEmpties ==
    ASSUME NEW q \in Seq(Threads), NodeQueueIs(q), NEW t \in Threads, NodeEmpties(t)
    PROVE  Len(q) = 1 /\ q[1] = t /\ NodeQueueIs(Tail(q))'
<1>1. /\ Stage(t) = "leaving" /\ Stage(t)' = "out" /\ \A u \in Threads \ {t} : Stage(u)' = Stage(u)
      /\ endOfQueue = t /\ endOfQueue' = NULL
  BY DEF NodeEmpties, SameOthers
<1>2. Len(q) > 0 /\ q[1] = t
  BY <1>1, OwnerIsHead
<1>3. Len(q) = 1
  <2>1. Len(q) \in 1 .. Len(q) /\ 1 \in 1 .. Len(q) /\ q[Len(q)] = q[1]
    BY <1>1, <1>2 DEF NodeQueueIs
  <2>2. QED
    BY <2>1 DEF NodeQueueIs
<1>4. ASSUME NEW u \in Threads PROVE Stage(u)' = "out"
  <2>1. CASE u = t
    BY <1>1, <2>1
  <2>2. CASE u # t
    <3>1. ~\E i \in 1 .. Len(q) : q[i] = u
      BY <1>2, <1>3, <2>2
    <3>2. Stage(u) = "out"
      BY <3>1 DEF NodeQueueIs
    <3>3. QED
      BY <1>1, <2>2, <3>2
  <2>3. QED
    BY <2>1, <2>2
<1>5. Len(q) > 0 => Tail(q) \in Seq(Threads) /\ Len(Tail(q)) = Len(q) - 1
  OBVIOUS
<1> DEFINE r == Tail(q)
<1>6. r \in Seq(Threads) /\ Len(r) = 0
  BY <1>3, <1>5
<1> HIDE DEF r
<1>7. NodeQueueIs(r)'
  BY <1>1, <1>4, <1>6 DEF NodeQueueIs
<1>8. QED
  BY <1>2, <1>3, <1>7 DEF r

(* A thread that is about to pass the lock knows its successor.             *)
LEMMA PasserKnowsNext ==
    ASSUME NEW q \in Seq(Threads), NodeQueueIs(q), NEW t \in Threads, Stage(t) = "pass"
    PROVE  /\ Len(q) > 1 /\ q[1] = t /\ nodeNext[t] = q[2]
           /\ Stage(q[2]) = "wait" /\ nodeLocked[q[2]] /\ q[2] # t
<1>1. Len(q) > 0 /\ q[1] = t
  BY OwnerIsHead
<1>2. nodeNext[t] # NULL
  BY <1>1 DEF NodeQueueIs, Heads
<1>3. Len(q) > 1
  BY <1>1, <1>2 DEF NodeQueueIs
<1>4. Follows(t, q[2]) /\ q[2] # t
  BY <1>1, <1>3 DEF NodeQueueIs
<1>5. QED
  BY <1>1, <1>2, <1>3, <1>4 DEF Follows

(* The owner passes the lock to its successor.                              *)
LEMMA QueueShrinks ==
    ASSUME MCSTypeOK, NEW q \in Seq(Threads), NodeQueueIs(q), NEW t \in Threads, NodePasses(t)
    PROVE  /\ Len(q) > 1 /\ q[1] = t /\ nodeNext[t] = q[2]
           /\ Stage(q[2]) = "wait" /\ nodeLocked[q[2]]
           /\ NodeQueueIs(Tail(q))'
<1> DEFINE r == Tail(q)
<1>1. /\ Stage(t) = "pass" /\ Stage(t)' = "out" /\ \A u \in Threads \ {t} : Stage(u)' = Stage(u)
      /\ UNCHANGED <<endOfQueue, predecessor>>
      /\ \A u \in Threads \ {t} : nodeNext'[u] = nodeNext[u]
      /\ nodeLocked' = [nodeLocked EXCEPT ![nodeNext[t]] = FALSE]
  BY DEF NodePasses, SameOthers
<1>2. /\ Len(q) > 1 /\ q[1] = t /\ nodeNext[t] = q[2]
      /\ Stage(q[2]) = "wait" /\ nodeLocked[q[2]] /\ q[2] # t
  BY <1>1, PasserKnowsNext
<1>4. Len(q) > 1
  BY <1>2
<1>5. q[2] \in Threads /\ q[2] # t
  BY <1>2
<1>6. Stage(q[2]) = "wait" /\ nodeLocked[q[2]] /\ nodeNext[t] = q[2]
  BY <1>2
<1>7. /\ r \in Seq(Threads) /\ Len(r) = Len(q) - 1
      /\ \A i \in 1 .. Len(r) : r[i] = q[i + 1]
  BY <1>4
<1> HIDE DEF r
<1>8. ASSUME NEW i \in 1 .. Len(r), NEW j \in 1 .. Len(r), r[i] = r[j] PROVE i = j
  <2>1. /\ i + 1 \in 1 .. Len(q) /\ j + 1 \in 1 .. Len(q)
        /\ q[i + 1] = q[j + 1]
    BY <1>7, <1>8
  <2>2. i + 1 = j + 1
    BY <2>1 DEF NodeQueueIs
  <2>3. QED
    BY <2>2
<1>9. \A i \in 1 .. Len(r) : r[i] # t /\ r[i] \in Threads
  BY <1>2, <1>4, <1>7 DEF NodeQueueIs
<1>10. \A u \in Threads : Stage(u)' # "out" <=> \E i \in 1 .. Len(r) : r[i] = u
  <2>1. ASSUME NEW u \in Threads, u # t, Stage(u) # "out"
        PROVE  \E i \in 1 .. Len(r) : r[i] = u
    <3>1. PICK i \in 1 .. Len(q) : q[i] = u
      BY <2>1 DEF NodeQueueIs
    <3>2. i # 1 /\ i - 1 \in 1 .. Len(r) /\ r[i - 1] = u
      BY <1>2, <1>7, <2>1, <3>1
    <3>3. QED
      BY <3>2
  <2>2. ASSUME NEW i \in 1 .. Len(r) PROVE Stage(r[i]) # "out"
    <3>1. i + 1 \in 1 .. Len(q) /\ r[i] = q[i + 1] /\ q[i + 1] \in Threads
      BY <1>7
    <3>2. QED
      BY <3>1 DEF NodeQueueIs
  <2>3. ASSUME NEW u \in Threads PROVE Stage(u)' # "out" <=> \E i \in 1 .. Len(r) : r[i] = u
    <3>1. CASE u = t
      BY <1>1, <1>9, <3>1
    <3>2. CASE u # t
      <4>1. Stage(u)' = Stage(u)
        BY <1>1, <3>2
      <4>2. (\E i \in 1 .. Len(r) : r[i] = u) => Stage(u) # "out"
        BY <2>2
      <4>3. QED
        BY <2>1, <3>2, <4>1, <4>2
    <3>3. QED
      BY <3>1, <3>2
  <2>4. QED
    BY <2>3
<1>11. /\ \A u \in Threads \ {q[2]} : nodeLocked'[u] = nodeLocked[u]
       /\ ~nodeLocked'[q[2]]
  BY <1>1, <1>5, <1>6 DEF MCSTypeOK
<1>12. /\ Heads(r[1])' /\ Stage(r[1])' # "linked" /\ r[Len(r)] = q[Len(q)]
       /\ nodeNext'[r[Len(r)]] = NULL
  <2>1. r[1] = q[2] /\ r[Len(r)] = q[Len(q)] /\ q[Len(q)] \in Threads \ {t}
    <3>1. 1 \in 1 .. Len(r) /\ Len(r) \in 1 .. Len(r)
      BY <1>4, <1>7
    <3>2. QED
      BY <1>7, <1>9, <3>1
  <2>2. Stage(r[1])' = "wait" /\ ~nodeLocked'[r[1]]
    BY <1>1, <1>5, <1>6, <1>11, <2>1
  <2>3. nodeNext'[q[Len(q)]] = nodeNext[q[Len(q)]] /\ nodeNext[q[Len(q)]] = NULL
    BY <1>1, <1>4, <2>1 DEF NodeQueueIs
  <2>4. QED
    BY <2>1, <2>2, <2>3 DEF Heads
<1>13. ASSUME NEW i \in 2 .. Len(r) PROVE Follows(r[i - 1], r[i])'
  <2>1. i + 1 \in 2 .. Len(q) /\ r[i] = q[i + 1] /\ r[i - 1] = q[i]
    <3>1. i \in 1 .. Len(r) /\ i - 1 \in 1 .. Len(r) /\ (i - 1) + 1 = i
      OBVIOUS
    <3>2. r[i] = q[i + 1] /\ r[i - 1] = q[(i - 1) + 1] /\ Len(r) = Len(q) - 1
      BY <1>7, <3>1
    <3>3. QED
      BY <3>1, <3>2
  <2>2. Follows(q[i], q[i + 1]) /\ q[i + 1] \in Threads /\ q[i] \in Threads
    BY <2>1 DEF NodeQueueIs
  <2>3. q[i + 1] # q[2] /\ q[i + 1] # t /\ q[i] # t
    BY <1>2, <1>4, <2>1 DEF NodeQueueIs
  <2>4. QED
    BY <1>1, <1>11, <2>1, <2>2, <2>3 DEF Follows
<1>14. endOfQueue' = IF Len(r) = 0 THEN NULL ELSE r[Len(r)]
  BY <1>1, <1>4, <1>7, <1>12 DEF NodeQueueIs
<1>15. NodeQueueIs(r)'
  BY <1>4, <1>7, <1>8, <1>10, <1>12, <1>13, <1>14 DEF NodeQueueIs
<1>16. QED
  BY <1>2, <1>4, <1>6, <1>15 DEF r

(****************************************************************************)
(* A node step and what it records: the queue goes on to exist, and the     *)
(* step is one of the first-come-first-served lock, or none.                *)
(****************************************************************************)
NodeFamily == build.family \in {"mcs", "mcslock"}

StagesTell ==
    \A u \in Threads :
        /\ HasPlace(u) <=> Stage(u) \in PlaceStages
        /\ StatusOf(u) = IF Stage(u) \notin PlaceStages THEN "outside"
                         ELSE IF Stage(u) = "inside" THEN "inside" ELSE "waiting"

LEMMA StagesOfLabels == LockTypeOK /\ NodeFamily => StagesTell
<1> SUFFICES ASSUME LockTypeOK, NodeFamily, NEW u \in Threads
             PROVE  /\ HasPlace(u) <=> Stage(u) \in PlaceStages
                    /\ pc[u] = "critical" <=> Stage(u) = "inside"
  BY DEF StagesTell, StatusOf, PlaceStages
<1>1. pc[u] \in Labels.mcs \cup Labels.mcslock
  BY DEF LockTypeOK, NodeFamily, Labels
<1>2. build.family # "futex" /\ pc[u] # "serve"
  BY <1>1 DEF NodeFamily, Labels, MCSQueueLabels, MCSUnlockLabels, SleepLabels
<1>3. QED
  BY <1>1, <1>2 DEF HasPlace, Stage, PlaceStages, QueueLabels, MCSQueueLabels, SleepLabels

LEMMA AppendTail ==
    ASSUME NEW q \in Seq(Threads), Len(q) > 0, NEW t \in Threads
    PROVE  Append(Tail(q), t) = Tail(Append(q, t))
<1>1. Tail(q) \in Seq(Threads) /\ Append(q, t) \in Seq(Threads)
  OBVIOUS
<1>2. Len(Append(Tail(q), t)) = Len(Tail(Append(q, t)))
  OBVIOUS
<1>3. \A i \in 1 .. Len(q) : Append(Tail(q), t)[i] = Tail(Append(q, t))[i]
  OBVIOUS
<1>4. QED
  BY <1>1, <1>2, <1>3

(* What the abstract lock sees of a step.                                   *)
PromiseStep == Promise!Next \/ UNCHANGED <<[u \in Threads |-> StatusOf(u)], arrivals>>

LEMMA NodesStep ==
    ASSUME MCSTypeOK, arrivals \in Seq(Threads), StagesTell, StagesTell', NodesOK,
           NEW t \in Threads, NodeStep(t), Record(t)
    PROVE  /\ NodesOK' /\ arrivals' \in Seq(Threads)
           /\ PromiseStep
<1>1. PICK q \in Seq(Threads) : NodeQueueIs(q) /\ ArrivalsAre(q)
  BY DEF NodesOK
<1>2. arrivals = IF Len(q) > 0 /\ Stage(q[1]) \in UnlockStages THEN Tail(q) ELSE q
  BY <1>1 DEF ArrivalsAre
<1>3. arrivals' = CASE Stage(t)' \in PlaceStages /\ Stage(t) \notin PlaceStages -> Append(arrivals, t)
                    [] Stage(t) \in PlaceStages /\ Stage(t)' \notin PlaceStages -> Tail(arrivals)
                    [] OTHER -> arrivals
  BY DEF Record, StagesTell
<1>4. ASSUME NEW u \in Threads, Stage(u)' = Stage(u) PROVE StatusOf(u)' = StatusOf(u)
  BY <1>4 DEF StagesTell
<1>5. CASE NodeStays
  <2>1. NodeQueueIs(q)'
    BY <1>1, <1>5, QueueStays
  <2>2. arrivals' = arrivals
    BY <1>3, <1>5 DEF NodeStays
  <2>3. ArrivalsAre(q)'
    BY <1>2, <1>5, <2>2 DEF NodeStays, ArrivalsAre
  <2>4. UNCHANGED [u \in Threads |-> StatusOf(u)]
    BY <1>4, <1>5 DEF NodeStays
  <2>5. QED
    BY <2>1, <2>2, <2>3, <2>4 DEF NodesOK, PromiseStep
<1>6. CASE NodeSwaps(t)
  <2>1. NodeQueueIs(Append(q, t))' /\ Append(q, t) \in Seq(Threads)
    BY <1>1, <1>6, QueueGrows
  <2>2. arrivals' = Append(arrivals, t)
    BY <1>3, <1>6 DEF NodeSwaps, PlaceStages
  <2>3. endOfQueue = NULL <=> Len(q) = 0
    BY <1>1, NullAssumption DEF NodeQueueIs
  <2>4. ArrivalsAre(Append(q, t))'
    <3>1. CASE Len(q) = 0
      <4>1. Append(q, t)[1] = t /\ Len(Append(q, t)) = 1
        BY <3>1
      <4>2. Stage(t)' = "inside"
        BY <1>6, <2>3, <3>1 DEF NodeSwaps
      <4>3. QED
        BY <1>2, <2>2, <3>1, <4>1, <4>2 DEF ArrivalsAre
    <3>2. CASE Len(q) > 0
      <4>1. Append(q, t)[1] = q[1] /\ Len(Append(q, t)) > 0 /\ q[1] \in Threads
        BY <3>2
      <4>2. q[1] # t
        BY <1>1, <1>6, <3>2 DEF NodeSwaps, NodeQueueIs
      <4>3. Stage(q[1])' = Stage(q[1])
        BY <1>6, <4>1, <4>2 DEF NodeSwaps, SameOthers
      <4>4. QED
        BY <1>2, <2>2, <3>2, <4>1, <4>3, AppendTail DEF ArrivalsAre
    <3>3. QED
      BY <3>1, <3>2
  <2>5. PromiseStep
    <3>1. \A u \in Threads \ {t} : StatusOf(u)' = StatusOf(u)
      BY <1>4, <1>6 DEF NodeSwaps, SameOthers
    <3>2. StatusOf(t) = "outside"
      BY <1>6 DEF NodeSwaps, PlaceStages, StagesTell
    <3>3. CASE endOfQueue = NULL
      <4>1. StatusOf(t)' = "inside"
        BY <1>6, <3>3 DEF NodeSwaps, PlaceStages, StagesTell
      <4>2. arrivals = <<>>
        BY <1>2, <2>3, <3>3
      <4>3. Promise!TakePlace(t)
        BY <2>2, <3>1, <3>2, <4>1, <4>2 DEF Promise!TakePlace, Promise!Become
      <4>4. QED
        BY <4>3 DEF PromiseStep, Promise!Next
    <3>4. CASE endOfQueue # NULL
      <4>1. StatusOf(t)' = "waiting"
        BY <1>6, <3>4 DEF NodeSwaps, PlaceStages, StagesTell
      <4>2. Promise!TakePlace(t)
        BY <2>2, <3>1, <3>2, <4>1 DEF Promise!TakePlace, Promise!Become
      <4>3. QED
        BY <4>2 DEF PromiseStep, Promise!Next
    <3>5. QED
      BY <3>3, <3>4
  <2>6. arrivals' \in Seq(Threads)
    BY <2>2
  <2>7. QED
    BY <2>1, <2>4, <2>5, <2>6 DEF NodesOK
<1>7. CASE NodeLinks(t)
  <2>1. NodeQueueIs(q)' /\ Len(q) > 0 /\ q[1] # t /\ q[1] \in Threads
    BY <1>1, <1>7, QueueLinks
  <2>2. arrivals' = arrivals
    BY <1>3, <1>7 DEF NodeLinks, PlaceStages
  <2>3. Stage(q[1])' = Stage(q[1])
    BY <1>7, <2>1 DEF NodeLinks, SameOthers
  <2>4. ArrivalsAre(q)'
    BY <1>2, <2>1, <2>2, <2>3 DEF ArrivalsAre
  <2>5. UNCHANGED [u \in Threads |-> StatusOf(u)]
    <3>1. StatusOf(t) = "waiting" /\ StatusOf(t)' = "waiting"
      BY <1>7 DEF NodeLinks, StagesTell, PlaceStages
    <3>2. \A u \in Threads \ {t} : StatusOf(u)' = StatusOf(u)
      BY <1>4, <1>7 DEF NodeLinks, SameOthers
    <3>3. \A u \in Threads : StatusOf(u)' = StatusOf(u)
      BY <3>1, <3>2
    <3>4. QED
      BY <3>3
  <2>6. QED
    BY <2>1, <2>2, <2>4, <2>5 DEF NodesOK, PromiseStep
<1>8. CASE NodeEnters(t)
  <2>1. NodeQueueIs(q)' /\ Len(q) > 0 /\ q[1] = t
    BY <1>1, <1>8, QueueStays, OwnerIsHead DEF NodeEnters
  <2>2. arrivals' = arrivals /\ arrivals = q
    BY <1>2, <1>3, <1>8, <2>1 DEF NodeEnters, PlaceStages
  <2>3. ArrivalsAre(q)'
    BY <1>8, <2>1, <2>2 DEF NodeEnters, ArrivalsAre
  <2>4. Promise!Enter(t)
    <3>1. \A u \in Threads \ {t} : StatusOf(u)' = StatusOf(u)
      BY <1>4, <1>8 DEF NodeEnters, SameOthers
    <3>2. StatusOf(t) = "waiting" /\ StatusOf(t)' = "inside"
      BY <1>8 DEF NodeEnters, PlaceStages, StagesTell
    <3>3. arrivals # <<>> /\ t = Head(arrivals)
      BY <2>1, <2>2
    <3>4. QED
      BY <2>2, <3>1, <3>2, <3>3 DEF Promise!Enter, Promise!Become
  <2>5. QED
    BY <2>1, <2>2, <2>3, <2>4 DEF NodesOK, PromiseStep, Promise!Next
<1>9. CASE NodeLooks(t)
  <2>1. NodeQueueIs(q)' /\ Len(q) > 0 /\ q[1] = t
    BY <1>1, <1>9, QueueStays, OwnerIsHead DEF NodeLooks
  <2>2. Stage(t)' \in UnlockStages /\ \A u \in Threads \ {t} : StatusOf(u)' = StatusOf(u)
    BY <1>4, <1>9 DEF NodeLooks, SameOthers
  <2>3. CASE Stage(t) = "inside"
    <3>1. arrivals = q /\ arrivals' = Tail(q)
      BY <1>2, <1>3, <2>1, <2>2, <2>3 DEF PlaceStages
    <3>2. ArrivalsAre(q)' /\ arrivals' \in Seq(Threads)
      BY <2>1, <2>2, <3>1 DEF ArrivalsAre
    <3>3. StatusOf(t) = "inside" /\ StatusOf(t)' = "outside"
      BY <2>2, <2>3 DEF PlaceStages, StagesTell
    <3>4. arrivals # <<>> /\ t = Head(arrivals)
      BY <2>1, <3>1
    <3>5. Promise!Leave(t)
      BY <2>2, <3>1, <3>3, <3>4 DEF Promise!Leave, Promise!Become
    <3>6. QED
      BY <2>1, <3>2, <3>5 DEF NodesOK, PromiseStep, Promise!Next
  <2>4. CASE Stage(t) # "inside"
    <3>1. Stage(t) \in UnlockStages
      BY <1>9, <2>4 DEF NodeLooks
    <3>2. arrivals = Tail(q) /\ arrivals' = arrivals
      BY <1>2, <1>3, <2>1, <2>2, <3>1 DEF PlaceStages
    <3>3. ArrivalsAre(q)'
      BY <2>1, <2>2, <3>2 DEF ArrivalsAre
    <3>4. StatusOf(t) = "outside" /\ StatusOf(t)' = "outside"
      BY <2>2, <3>1 DEF PlaceStages, StagesTell
    <3>5. \A u \in Threads : StatusOf(u)' = StatusOf(u)
      BY <2>2, <3>4
    <3>6. QED
      BY <2>1, <3>2, <3>3, <3>5 DEF NodesOK, PromiseStep
  <2>5. QED
    BY <2>3, <2>4
<1>10. CASE NodeEmpties(t)
  <2>1. Len(q) = 1 /\ q[1] = t /\ NodeQueueIs(Tail(q))'
    BY <1>1, <1>10, QueueEmpties
  <2>2. arrivals = Tail(q) /\ arrivals' = arrivals
    BY <1>2, <1>3, <1>10, <2>1 DEF NodeEmpties, PlaceStages
  <2>3. Tail(q) \in Seq(Threads) /\ Len(Tail(q)) = 0
    <3>1. Len(q) > 0 => Tail(q) \in Seq(Threads) /\ Len(Tail(q)) = Len(q) - 1
      OBVIOUS
    <3>2. QED
      BY <2>1, <3>1
  <2>4. ArrivalsAre(Tail(q))'
    BY <2>2, <2>3 DEF ArrivalsAre
  <2>5. StatusOf(t) = "outside" /\ StatusOf(t)' = "outside"
    BY <1>10 DEF NodeEmpties, PlaceStages, StagesTell
  <2>6. \A u \in Threads : StatusOf(u)' = StatusOf(u)
    BY <1>4, <1>10, <2>5 DEF NodeEmpties, SameOthers
  <2>7. QED
    BY <2>1, <2>2, <2>3, <2>4, <2>6 DEF NodesOK, PromiseStep
<1>11. CASE NodePasses(t)
  <2>1. /\ Len(q) > 1 /\ q[1] = t /\ NodeQueueIs(Tail(q))'
        /\ Stage(q[2]) = "wait"
    BY <1>1, <1>11, QueueShrinks
  <2>2. arrivals = Tail(q) /\ arrivals' = arrivals
    BY <1>2, <1>3, <1>11, <2>1 DEF NodePasses, PlaceStages
  <2>3. Tail(q) \in Seq(Threads) /\ Tail(q)[1] = q[2] /\ q[2] \in Threads
    BY <2>1
  <2>4. Stage(q[2])' = "wait"
    BY <1>11, <2>1, <2>3 DEF NodePasses, SameOthers
  <2>5. ArrivalsAre(Tail(q))'
    BY <2>2, <2>3, <2>4 DEF ArrivalsAre
  <2>6. StatusOf(t) = "outside" /\ StatusOf(t)' = "outside"
    BY <1>11 DEF NodePasses, PlaceStages, StagesTell
  <2>7. \A u \in Threads : StatusOf(u)' = StatusOf(u)
    BY <1>4, <1>11, <2>6 DEF NodePasses, SameOthers
  <2>8. QED
    BY <2>1, <2>2, <2>3, <2>5, <2>7 DEF NodesOK, PromiseStep
<1>12. QED
  BY <1>5, <1>6, <1>7, <1>8, <1>9, <1>10, <1>11 DEF NodeStep

(****************************************************************************)
(* mcs_lock.c: every step is a node step.                                   *)
(****************************************************************************)
LEMMA SameLabelSameStage ==
    ASSUME NEW u, pc'[u] = pc[u], call'[u] = call[u]
    PROVE  Stage(u)' = Stage(u)
BY DEF Stage

LEMMA MCSLockSteps ==
    ASSUME LockTypeOK, CallsOK, build.family = "mcslock", UNCHANGED build,
           NEW t \in Threads, MCSCall(t) \/ MCSStep(t),
           UNCHANGED <<call, word, flag, nodeContended, swapsFlag, ticketFutexVars>>
    PROVE  LockTypeOK' /\ CallsOK' /\ NodeStep(t)
<1> USE DEF MCSQueueLabels, MCSUnlockLabels
<1> DEFINE L == {"idle", "mcsTry", "critical"} \cup MCSQueueLabels \cup MCSUnlockLabels
<1>1. /\ pc \in [Threads -> L] /\ MCSTypeOK /\ call' = call
      /\ \A u \in Threads : call[u] = "lock"
  BY DEF LockTypeOK, Labels, CallsOK, CallFits
<1>2. ASSUME pc' \in [Threads -> L], MCSTypeOK' PROVE LockTypeOK' /\ CallsOK'
  <2>1. build' = build /\ Labels[build'.family] = L
    BY DEF Labels
  <2>2. LockTypeOK'
    BY <1>2, <2>1 DEF LockTypeOK, ticketFutexVars
  <2>3. CallsOK'
    BY <1>1, <1>2, <2>1 DEF CallsOK, CallFits, QueueLabels, SleepLabels
  <2>4. QED
    BY <2>2, <2>3
<1>3. ASSUME NEW from, NEW to \in L, Move(t, from, to)
      PROVE  /\ pc[t] = from /\ pc'[t] = to /\ pc' \in [Threads -> L]
             /\ SameOthers(t)
             /\ Stage(t)' = Stage(t) => \A u \in Threads : Stage(u)' = Stage(u)
  <2>1. pc[t] = from /\ pc'[t] = to /\ pc' \in [Threads -> L]
    BY <1>1, <1>3 DEF Move
  <2>2. SameOthers(t)
    BY <1>1, <1>3, SameLabelSameStage DEF Move, SameOthers
  <2>3. QED
    BY <2>1, <2>2 DEF SameOthers
<1> HIDE DEF L
<1>4. ASSUME NEW from \in {"idle", "mcsTry"}, SwapFindsFree(t, from, "critical") \/ SwapFindsTail(t, from)
      PROVE  LockTypeOK' /\ CallsOK' /\ NodeStep(t)
  <2>1. \E to \in {"critical", "mcsLocked"} :
           /\ Move(t, from, to) /\ to = IF endOfQueue = NULL THEN "critical" ELSE "mcsLocked"
           /\ endOfQueue' = t /\ nodeLocked' = nodeLocked
           /\ nodeNext' = [nodeNext EXCEPT ![t] = NULL]
           /\ predecessor' = [predecessor EXCEPT ![t] = endOfQueue]
    BY <1>4 DEF SwapFindsFree, SwapFindsTail, Swap
  <2>2. PICK to \in {"critical", "mcsLocked"} :
           /\ Move(t, from, to) /\ to = IF endOfQueue = NULL THEN "critical" ELSE "mcsLocked"
           /\ endOfQueue' = t /\ nodeLocked' = nodeLocked
           /\ nodeNext' = [nodeNext EXCEPT ![t] = NULL]
           /\ predecessor' = [predecessor EXCEPT ![t] = endOfQueue]
    BY <2>1
  <2>3. to \in L
    BY DEF L
  <2>4. MCSTypeOK'
    BY <1>1, <2>2 DEF MCSTypeOK
  <2>5. /\ pc[t] = from /\ pc'[t] = to /\ pc' \in [Threads -> L] /\ SameOthers(t)
    BY <1>3, <2>2, <2>3
  <2>6. Stage(t) = "out" /\ Stage(t)' = IF endOfQueue = NULL THEN "inside" ELSE "take"
    BY <1>1, <2>2, <2>5 DEF Stage, SleepLabels
  <2>7. nodeNext'[t] = NULL /\ \A u \in Threads \ {t} : nodeNext'[u] = nodeNext[u]
    BY <1>1, <2>2 DEF MCSTypeOK
  <2>8. NodeSwaps(t)
    BY <2>2, <2>5, <2>6, <2>7 DEF NodeSwaps
  <2>9. QED
    BY <1>2, <2>4, <2>5, <2>8 DEF NodeStep
<1>5. CASE ~MCSIsLocked /\ Move(t, "idle", "mcsTry") /\ UNCHANGED mcsVars
  <2>1. /\ pc[t] = "idle" /\ pc'[t] = "mcsTry" /\ pc' \in [Threads -> L]
        /\ Stage(t)' = Stage(t) => \A u \in Threads : Stage(u)' = Stage(u)
    BY <1>3, <1>5 DEF L
  <2>2. Stage(t)' = Stage(t)
    BY <2>1 DEF Stage, SleepLabels
  <2>3. MCSTypeOK' /\ SameNodes
    BY <1>1, <1>5 DEF MCSTypeOK, mcsVars, SameNodes
  <2>4. QED
    BY <1>2, <2>1, <2>2, <2>3 DEF NodeStep, NodeStays
<1>6. CASE TryFails(t)
  <2>1. /\ pc[t] = "mcsTry" /\ pc'[t] = "idle" /\ pc' \in [Threads -> L]
        /\ Stage(t)' = Stage(t) => \A u \in Threads : Stage(u)' = Stage(u)
    BY <1>3, <1>6 DEF L, TryFails
  <2>2. Stage(t)' = Stage(t) /\ Stage(t) = "out"
    BY <2>1 DEF Stage, SleepLabels
  <2>3. MCSTypeOK' /\ SameNodes
    BY <1>1, <1>6, <2>2 DEF MCSTypeOK, SameNodes, TryFails
  <2>4. QED
    BY <1>2, <2>1, <2>2, <2>3 DEF NodeStep, NodeStays
<1>7. CASE Link(t)
  <2>1. MCSTypeOK'
    BY <1>1, <1>7 DEF Link, MCSTypeOK
  <2>2. CASE Move(t, "mcsLocked", "mcsLink")
    <3>1. /\ pc[t] = "mcsLocked" /\ pc'[t] = "mcsLink" /\ pc' \in [Threads -> L] /\ SameOthers(t)
      BY <1>3, <2>2 DEF L
    <3>2. Stage(t) = "take" /\ Stage(t)' = "link"
      BY <3>1 DEF Stage, SleepLabels
    <3>3. NodeLinks(t)
      BY <1>7, <3>1, <3>2 DEF Link, Move, NodeLinks
    <3>4. QED
      BY <1>2, <2>1, <3>1, <3>3 DEF NodeStep
  <2>3. CASE Move(t, "mcsLink", "mcsWait")
    <3>1. /\ pc[t] = "mcsLink" /\ pc'[t] = "mcsWait" /\ pc' \in [Threads -> L] /\ SameOthers(t)
      BY <1>3, <2>3 DEF L
    <3>2. Stage(t) = "link" /\ Stage(t)' = "wait"
      BY <3>1 DEF Stage, SleepLabels
    <3>3. /\ nodeNext' = [nodeNext EXCEPT ![predecessor[t]] = t]
          /\ predecessor' = [predecessor EXCEPT ![t] = NULL]
          /\ nodeLocked' = nodeLocked /\ endOfQueue' = endOfQueue
      BY <1>7, <3>1 DEF Link, Move
    <3>4. NodeLinks(t)
      BY <1>1, <3>1, <3>2, <3>3 DEF NodeLinks, MCSTypeOK
    <3>5. QED
      BY <1>2, <2>1, <3>1, <3>4 DEF NodeStep
  <2>4. QED
    BY <1>7, <2>2, <2>3 DEF Link
<1>8. CASE HandedOver(t, "critical")
  <2>1. /\ pc[t] = "mcsWait" /\ pc'[t] = "critical" /\ pc' \in [Threads -> L] /\ SameOthers(t)
    BY <1>3, <1>8 DEF L, HandedOver
  <2>2. Stage(t) = "wait" /\ Stage(t)' = "inside"
    BY <2>1 DEF Stage, SleepLabels
  <2>3. MCSTypeOK' /\ SameNodes /\ ~nodeLocked[t]
    BY <1>1, <1>8 DEF HandedOver, MCSTypeOK, mcsVars, SameNodes
  <2>4. QED
    BY <1>2, <2>1, <2>2, <2>3 DEF NodeStep, NodeEnters
<1>9. CASE UnlockLooks(t, "critical")
  <2>1. /\ pc[t] = "critical" /\ pc' \in [Threads -> L] /\ SameOthers(t)
        /\ pc'[t] = IF nodeNext[t] = NULL THEN "mcsSwapOut" ELSE "mcsPass"
    BY <1>3, <1>9 DEF L, UnlockLooks
  <2>2. /\ Stage(t) = "inside" /\ Stage(t)' \in {"leaving", "pass"}
        /\ Stage(t)' = "pass" => nodeNext[t] # NULL
    BY <2>1 DEF Stage, SleepLabels
  <2>3. MCSTypeOK' /\ SameNodes
    BY <1>1, <1>9 DEF UnlockLooks, MCSTypeOK, mcsVars, SameNodes
  <2>4. QED
    BY <1>2, <2>1, <2>2, <2>3 DEF NodeStep, NodeLooks
<1>10. CASE SwapOut(t, "idle")
  <2>1. MCSTypeOK'
    BY <1>1, <1>10 DEF SwapOut, MCSTypeOK
  <2>2. CASE endOfQueue = t
    <3>1. /\ pc[t] = "mcsSwapOut" /\ pc'[t] = "idle" /\ pc' \in [Threads -> L] /\ SameOthers(t)
          /\ endOfQueue' = NULL
      BY <1>3, <1>10, <2>2 DEF L, SwapOut
    <3>2. Stage(t) = "leaving" /\ Stage(t)' = "out"
      BY <3>1 DEF Stage, SleepLabels
    <3>3. QED
      BY <1>2, <2>1, <2>2, <3>1, <3>2 DEF NodeStep, NodeEmpties
  <2>3. CASE endOfQueue # t
    <3>1. /\ pc[t] = "mcsSwapOut" /\ pc'[t] = "mcsLinked" /\ pc' \in [Threads -> L] /\ SameOthers(t)
          /\ SameNodes
      BY <1>3, <1>10, <2>3 DEF L, SwapOut, SameNodes
    <3>2. Stage(t) = "leaving" /\ Stage(t)' = "linked"
      BY <3>1 DEF Stage, SleepLabels
    <3>3. QED
      BY <1>2, <2>1, <2>3, <3>1, <3>2 DEF NodeStep, NodeLooks
  <2>4. QED
    BY <2>2, <2>3
<1>11. CASE SuccessorLinked(t)
  <2>1. /\ pc[t] = "mcsLinked" /\ pc'[t] = "mcsPass" /\ pc' \in [Threads -> L] /\ SameOthers(t)
    BY <1>3, <1>11 DEF L, SuccessorLinked
  <2>2. Stage(t) = "linked" /\ Stage(t)' = "pass"
    BY <2>1 DEF Stage, SleepLabels
  <2>3. MCSTypeOK' /\ SameNodes /\ nodeNext[t] # NULL
    BY <1>1, <1>11 DEF SuccessorLinked, MCSTypeOK, mcsVars, SameNodes
  <2>4. QED
    BY <1>2, <2>1, <2>2, <2>3 DEF NodeStep, NodeLooks
<1>12. CASE Pass(t, "idle")
  <2>1. /\ pc[t] = "mcsPass" /\ pc'[t] = "idle" /\ pc' \in [Threads -> L] /\ SameOthers(t)
    BY <1>3, <1>12 DEF L, Pass
  <2>2. Stage(t) = "pass" /\ Stage(t)' = "out"
    BY <2>1 DEF Stage, SleepLabels
  <2>3. MCSTypeOK'
    BY <1>1, <1>12 DEF Pass, MCSTypeOK
  <2>4. NodePasses(t)
    BY <1>12, <2>1, <2>2 DEF Pass, NodePasses
  <2>5. QED
    BY <1>2, <2>1, <2>3, <2>4 DEF NodeStep
<1>13. QED
  BY <1>4, <1>5, <1>6, <1>7, <1>8, <1>9, <1>10, <1>11, <1>12 DEF MCSCall, MCSStep

(****************************************************************************)
(* What a step does to the control state and the call of its thread.        *)
(****************************************************************************)
LEMMA BeginMoves ==
    ASSUME LockTypeOK, NEW t \in Threads, NEW c \in Calls, NEW to \in Labels[build.family],
           Begin(t, c, to)
    PROVE  /\ pc[t] = "idle" /\ pc'[t] = to /\ call'[t] = c
           /\ pc' \in [Threads -> Labels[build.family]] /\ call' \in [Threads -> Calls]
           /\ \A u \in Threads \ {t} : pc'[u] = pc[u] /\ call'[u] = call[u]
           /\ SameOthers(t)
<1>1. /\ pc[t] = "idle" /\ pc'[t] = to /\ call'[t] = c
      /\ pc' \in [Threads -> Labels[build.family]] /\ call' \in [Threads -> Calls]
      /\ \A u \in Threads \ {t} : pc'[u] = pc[u] /\ call'[u] = call[u]
  BY DEF Begin, Move, LockTypeOK
<1>2. QED
  BY <1>1, SameLabelSameStage DEF SameOthers

LEMMA ContinueMoves ==
    ASSUME LockTypeOK, NEW t \in Threads, NEW from, NEW to \in Labels[build.family],
           Continue(t, from, to)
    PROVE  /\ pc[t] = from /\ pc'[t] = to
           /\ call'[t] = IF to \in {"idle", "critical"} THEN "lock" ELSE call[t]
           /\ pc' \in [Threads -> Labels[build.family]] /\ call' \in [Threads -> Calls]
           /\ \A u \in Threads \ {t} : pc'[u] = pc[u] /\ call'[u] = call[u]
           /\ SameOthers(t)
<1>1. /\ pc[t] = from /\ pc'[t] = to
      /\ call'[t] = IF to \in {"idle", "critical"} THEN "lock" ELSE call[t]
      /\ pc' \in [Threads -> Labels[build.family]] /\ call' \in [Threads -> Calls]
      /\ \A u \in Threads \ {t} : pc'[u] = pc[u] /\ call'[u] = call[u]
  BY DEF Continue, Move, LockTypeOK, Calls
<1>2. QED
  BY <1>1, SameLabelSameStage DEF SameOthers

(****************************************************************************)
(* The futex locks.                                                         *)
(****************************************************************************)

(* What keeps FutexOK: whether t is inside changes with the word, and       *)
(* nobody falls asleep unless the word says contended, or loses its waker.  *)
LEMMA FutexKeeps ==
    ASSUME FutexOK, word \in {"free", "taken", "contended"}, NEW t \in Threads,
           \A u \in Threads \ {t} : pc'[u] = pc[u],
           \/ pc'[t] # "critical" /\ pc[t] # "critical" /\ word' = word
           \/ pc'[t] = "critical" /\ pc[t] # "critical" /\ word = "free" /\ word' # "free"
           \/ pc'[t] # "critical" /\ pc[t] # "critical" /\ word # "free" /\ word' = "contended"
           \/ /\ pc[t] = "critical" /\ word' = "free"
              /\ pc'[t] = IF word = "contended" THEN "notify" ELSE "idle",
           pc'[t] = "asleep" => word' = "contended",
           pc[t] # "notify"
    PROVE  FutexOK'
<1>1. \A u, v \in Threads : pc'[u] = "critical" /\ pc'[v] = "critical" => u = v
  BY DEF FutexOK
<1>2. word' # "free" <=> \E u \in Threads : pc'[u] = "critical"
  <2>1. CASE pc[t] = "critical"
    BY <2>1 DEF FutexOK
  <2>2. CASE pc'[t] = "critical"
    BY <2>2
  <2>3. CASE pc[t] # "critical" /\ pc'[t] # "critical"
    <3>1. word' # "free" <=> word # "free"
      BY <2>3
    <3>2. QED
      BY <2>3, <3>1 DEF FutexOK
  <2>4. QED
    BY <2>1, <2>2, <2>3
<1>3. ASSUME NEW u \in Threads, pc'[u] = "asleep"
      PROVE  word' = "contended" \/ \E v \in Threads : pc'[v] = "notify"
  <2>1. CASE u = t
    BY <1>3, <2>1
  <2>2. CASE u # t /\ \E v \in Threads : pc[v] = "notify"
    BY <2>2
  <2>3. CASE u # t /\ word = "contended"
    BY <2>3
  <2>4. QED
    BY <1>3, <2>1, <2>2, <2>3 DEF FutexOK
<1>4. QED
  BY <1>1, <1>2, <1>3 DEF FutexOK

LEMMA FutexSteps ==
    ASSUME LockTypeOK, CallsOK, build.family = "futex", UNCHANGED build, FutexOK,
           NEW t \in Threads, FutexCall(t) \/ FutexStep(t),
           UNCHANGED <<mcsFutexVars, ticketFutexVars>>
    PROVE  LockTypeOK' /\ CallsOK' /\ FutexOK'
<1> USE DEF SleepLabels, QueueLabels, MCSQueueLabels
<1> DEFINE L == {"idle", "try", "contendFirst", "contend", "look", "critical", "notify"}
                \cup SleepLabels
<1>1. /\ Labels[build.family] = L /\ Labels[build'.family] = L /\ build'.family = "futex"
      /\ pc \in [Threads -> L] /\ call \in [Threads -> Calls]
      /\ word \in {"free", "taken", "contended"}
  BY DEF LockTypeOK, Labels
<1>2. CallFits(t)
  BY DEF CallsOK
<1> HIDE DEF L
<1>3. ASSUME pc' \in [Threads -> L], call' \in [Threads -> Calls],
             word' \in {"free", "taken", "contended"}
      PROVE  LockTypeOK'
  BY <1>1, <1>3 DEF LockTypeOK, MCSTypeOK, mcsFutexVars, mcsVars, ticketFutexVars
<1>4. ASSUME pc' \in [Threads -> L], call' \in [Threads -> Calls],
             word' \in {"free", "taken", "contended"},
             \A u \in Threads \ {t} : pc'[u] = pc[u] /\ call'[u] = call[u],
             CallFits(t)'
      PROVE  LockTypeOK' /\ CallsOK'
  BY <1>3, <1>4 DEF CallsOK, CallFits
<1>5. CASE FutexLocks(t)
  <2> DEFINE to == CASE word = "free" -> "critical"
                     [] word = "taken" -> "contendFirst"
                     [] word = "contended" -> FoundContended(t, "lock")
  <2>1. to \in L /\ (to = "critical" <=> word = "free") /\ to # "asleep" /\ "lock" \in Calls
    BY <1>1 DEF FoundContended, L, Calls
  <2>2. Begin(t, "lock", to) /\ word' = IF word = "free" THEN "taken" ELSE word
    BY <1>5 DEF FutexLocks
  <2> HIDE DEF to
  <2>3. /\ pc[t] = "idle" /\ pc'[t] = to /\ call'[t] = "lock"
        /\ pc' \in [Threads -> L] /\ call' \in [Threads -> Calls]
        /\ \A u \in Threads \ {t} : pc'[u] = pc[u] /\ call'[u] = call[u]
    BY <1>1, <2>1, <2>2, BeginMoves
  <2>4. CallFits(t)'
    <3>1. to \notin {"loaded", "try", "raise"}
      BY <1>1 DEF to, FoundContended
    <3>2. QED
      BY <1>1, <2>3, <3>1 DEF CallFits
  <2>5. FutexOK'
    BY <1>1, <2>1, <2>2, <2>3, FutexKeeps
  <2>6. QED
    BY <1>1, <1>4, <2>2, <2>3, <2>4, <2>5
<1>6. CASE FutexTries(t)
  <2> DEFINE to == IF word = "free" THEN "try" ELSE "idle"
  <2>1. to \in L /\ to \in {"try", "idle"} /\ "try" \in Calls
    BY <1>1 DEF L, Calls
  <2>2. Begin(t, "try", to) /\ word' = word
    BY <1>6 DEF FutexTries
  <2> HIDE DEF to
  <2>3. /\ pc[t] = "idle" /\ pc'[t] = to /\ call'[t] = "try"
        /\ pc' \in [Threads -> L] /\ call' \in [Threads -> Calls]
        /\ \A u \in Threads \ {t} : pc'[u] = pc[u] /\ call'[u] = call[u]
    BY <1>1, <2>1, <2>2, BeginMoves
  <2>4. CallFits(t)'
    BY <1>1, <2>1, <2>3 DEF CallFits
  <2>5. FutexOK'
    BY <1>1, <2>1, <2>2, <2>3, FutexKeeps
  <2>6. QED
    BY <1>1, <1>4, <2>2, <2>3, <2>4, <2>5
<1>7. CASE FutexTriesOrWaits(t)
  <2> DEFINE to == CASE word = "free" -> "try"
                     [] build.looksAgain /\ word # "free" -> "look"
                     [] ~build.looksAgain /\ word = "taken" -> "contend"
                     [] ~build.looksAgain /\ word = "contended" -> "sleep"
  <2>1. to \in L /\ to \in {"try", "look", "contend", "sleep"} /\ "tryWait" \in Calls
    BY <1>1 DEF L, Calls
  <2>2. Begin(t, "tryWait", to) /\ word' = word
    BY <1>7 DEF FutexTriesOrWaits
  <2> HIDE DEF to
  <2>3. /\ pc[t] = "idle" /\ pc'[t] = to /\ call'[t] = "tryWait"
        /\ pc' \in [Threads -> L] /\ call' \in [Threads -> Calls]
        /\ \A u \in Threads \ {t} : pc'[u] = pc[u] /\ call'[u] = call[u]
    BY <1>1, <2>1, <2>2, BeginMoves
  <2>4. CallFits(t)'
    BY <1>1, <2>1, <2>3 DEF CallFits
  <2>5. FutexOK'
    BY <1>1, <2>1, <2>2, <2>3, FutexKeeps
  <2>6. QED
    BY <1>1, <1>4, <2>2, <2>3, <2>4, <2>5
<1>8. CASE FutexTrySwaps(t)
  <2> DEFINE to == CASE word = "free" -> "critical"
                     [] word # "free" /\ (call[t] = "try" \/ build.looksAgain) -> "idle"
                     [] word = "taken" /\ call[t] # "try" /\ ~build.looksAgain -> "contend"
                     [] word = "contended" /\ call[t] # "try" /\ ~build.looksAgain -> "sleep"
  <2>1. /\ to \in L /\ to \in {"critical", "idle", "contend", "sleep"}
        /\ to = "critical" <=> word = "free"
        /\ to \in {"contend", "sleep"} => call[t] # "try"
    BY <1>1 DEF L
  <2>2. Continue(t, "try", to) /\ word' = IF word = "free" THEN "taken" ELSE word
    BY <1>8 DEF FutexTrySwaps
  <2> HIDE DEF to
  <2>3. /\ pc[t] = "try" /\ pc'[t] = to
        /\ call'[t] = IF to \in {"idle", "critical"} THEN "lock" ELSE call[t]
        /\ pc' \in [Threads -> L] /\ call' \in [Threads -> Calls]
        /\ \A u \in Threads \ {t} : pc'[u] = pc[u] /\ call'[u] = call[u]
    BY <1>1, <2>1, <2>2, ContinueMoves
  <2>4. CallFits(t)'
    BY <1>1, <1>2, <2>1, <2>3 DEF CallFits
  <2>5. FutexOK'
    BY <1>1, <2>1, <2>2, <2>3, FutexKeeps
  <2>6. QED
    BY <1>1, <1>4, <2>2, <2>3, <2>4, <2>5
<1>9. ASSUME NEW from \in {"contendFirst", "contend"}, FutexContends(t, from)
      PROVE  LockTypeOK' /\ CallsOK' /\ FutexOK'
  <2> DEFINE to == IF word = "free" THEN "critical"
                   ELSE IF from = "contendFirst" THEN FoundContended(t, "lock")
                   ELSE "sleep"
  <2>1. /\ to \in L /\ to \in {"critical", "look", "sleep"}
        /\ to = "critical" <=> word = "free"
    BY <1>1 DEF L, FoundContended
  <2>2. Continue(t, from, to) /\ word' = "contended"
    BY <1>9 DEF FutexContends
  <2> HIDE DEF to
  <2>3. /\ pc[t] = from /\ pc'[t] = to
        /\ call'[t] = IF to \in {"idle", "critical"} THEN "lock" ELSE call[t]
        /\ pc' \in [Threads -> L] /\ call' \in [Threads -> Calls]
        /\ \A u \in Threads \ {t} : pc'[u] = pc[u] /\ call'[u] = call[u]
    BY <1>1, <2>1, <2>2, ContinueMoves
  <2>4. CallFits(t)'
    BY <1>1, <1>2, <2>1, <2>3 DEF CallFits
  <2>5. FutexOK'
    BY <1>1, <2>1, <2>2, <2>3, FutexKeeps
  <2>6. QED
    BY <1>1, <1>4, <2>2, <2>3, <2>4, <2>5
<1>10. CASE FlockLooks(t)
  <2> DEFINE to == IF word = "contended" THEN "sleep" ELSE "contend"
  <2>1. to \in L /\ to \in {"sleep", "contend"}
    BY <1>1 DEF L
  <2>2. Continue(t, "look", to) /\ word' = word
    BY <1>10 DEF FlockLooks
  <2> HIDE DEF to
  <2>3. /\ pc[t] = "look" /\ pc'[t] = to
        /\ call'[t] = IF to \in {"idle", "critical"} THEN "lock" ELSE call[t]
        /\ pc' \in [Threads -> L] /\ call' \in [Threads -> Calls]
        /\ \A u \in Threads \ {t} : pc'[u] = pc[u] /\ call'[u] = call[u]
    BY <1>1, <2>1, <2>2, ContinueMoves
  <2>4. CallFits(t)'
    BY <1>1, <1>2, <2>1, <2>3 DEF CallFits
  <2>5. FutexOK'
    BY <1>1, <2>1, <2>2, <2>3, FutexKeeps
  <2>6. QED
    BY <1>1, <1>4, <2>2, <2>3, <2>4, <2>5
<1>11. ASSUME NEW u \in Threads, pc[u] \in SleepLabels
       PROVE  FutexBack(u) \in L /\ FutexBack(u) \in {"idle", "look", "contend"}
  <2>1. call[u] \in {"lock", "tryWait"}
    BY <1>1, <1>11 DEF CallsOK, CallFits
  <2>2. QED
    BY <2>1 DEF FutexBack, L
<1>12. CASE FutexSleeps(t)
  <2> DEFINE to == IF word = "contended" THEN "asleep" ELSE FutexBack(t)
  <2>1. Continue(t, "sleep", to) /\ word' = word
    BY <1>12 DEF FutexSleeps, FutexWait
  <2>2. pc[t] = "sleep"
    BY <2>1 DEF Continue, Move
  <2>3. /\ to \in L /\ to \in {"asleep", "idle", "look", "contend"}
        /\ to = "asleep" => word = "contended"
    BY <1>1, <1>11, <2>2 DEF L
  <2> HIDE DEF to
  <2>4. /\ pc'[t] = to
        /\ call'[t] = IF to \in {"idle", "critical"} THEN "lock" ELSE call[t]
        /\ pc' \in [Threads -> L] /\ call' \in [Threads -> Calls]
        /\ \A u \in Threads \ {t} : pc'[u] = pc[u] /\ call'[u] = call[u]
    BY <1>1, <2>1, <2>3, ContinueMoves
  <2>5. CallFits(t)'
    BY <1>1, <1>2, <2>2, <2>3, <2>4 DEF CallFits
  <2>6. FutexOK'
    BY <1>1, <2>1, <2>2, <2>3, <2>4, FutexKeeps
  <2>7. QED
    BY <1>1, <1>4, <2>1, <2>4, <2>5, <2>6
<1>13. CASE FutexUnlocks(t)
  <2> DEFINE to == IF word = "contended" THEN "notify" ELSE "idle"
  <2>1. to \in L /\ to \in {"notify", "idle"}
    BY <1>1 DEF L
  <2>2. Continue(t, "critical", to) /\ word' = "free"
    BY <1>13 DEF FutexUnlocks
  <2>3. /\ pc[t] = "critical" /\ pc'[t] = to
        /\ call'[t] = IF to \in {"idle", "critical"} THEN "lock" ELSE call[t]
        /\ pc' \in [Threads -> L] /\ call' \in [Threads -> Calls]
        /\ \A u \in Threads \ {t} : pc'[u] = pc[u] /\ call'[u] = call[u]
    BY <1>1, <2>1, <2>2, ContinueMoves
  <2>4. CallFits(t)'
    BY <1>1, <1>2, <2>1, <2>3 DEF CallFits
  <2>5. FutexOK'
    BY <1>1, <2>1, <2>2, <2>3, FutexKeeps
  <2>6. QED
    BY <1>1, <1>4, <2>2, <2>3, <2>4, <2>5
<1>14. CASE FutexNotifies(t)
  <2> DEFINE back == [u \in Threads |-> FutexBack(u)]
  <2>1. FutexWake(t, "notify", "idle", Threads, back) /\ word' = word /\ "idle" \in L
    BY <1>14 DEF FutexNotifies, L
  <2>2. \A u \in Threads : pc[u] = "asleep" => back[u] \in L /\ back[u] \in {"idle", "look", "contend"}
    BY <1>11
  <2> HIDE DEF back
  <2>3. /\ pc[t] = "notify" /\ pc'[t] = "idle" /\ call' = call
        /\ pc' \in [Threads -> L] /\ call' \in [Threads -> Calls]
        /\ \A u \in Threads \ {t} : pc'[u] = IF pc[u] = "asleep" THEN back[u] ELSE pc[u]
    BY <1>1, <2>1, <2>2 DEF FutexWake
  <2>4. ASSUME NEW u \in Threads
        PROVE  /\ CallFits(u)'
               /\ pc'[u] = "critical" <=> pc[u] = "critical"
               /\ pc'[u] # "asleep"
    <3>1. CallFits(u) /\ call'[u] = call[u]
      BY <2>3 DEF CallsOK
    <3>2. CASE u = t
      BY <1>1, <2>3, <3>1, <3>2 DEF CallFits
    <3>3. CASE u # t /\ pc[u] = "asleep"
      <4>1. pc'[u] \in {"idle", "look", "contend"}
        BY <2>2, <2>3, <3>3
      <4>2. QED
        BY <1>1, <3>1, <3>3, <4>1 DEF CallFits
    <3>4. CASE u # t /\ pc[u] # "asleep"
      BY <1>1, <2>3, <3>1, <3>4 DEF CallFits
    <3>5. QED
      BY <3>2, <3>3, <3>4
  <2>5. FutexOK'
    BY <2>1, <2>4 DEF FutexOK
  <2>6. QED
    BY <1>1, <1>3, <2>1, <2>3, <2>4, <2>5 DEF CallsOK
<1>15. QED
  BY <1>5, <1>6, <1>7, <1>8, <1>9, <1>10, <1>12, <1>13, <1>14 DEF FutexCall, FutexStep

(****************************************************************************)
(* The ticket lock: what the ticket of each place is, and what a step does  *)
(* to the queue.                                                            *)
(****************************************************************************)
LEMMA StatusTells ==
    ASSUME NEW u, HasPlace(u)' <=> HasPlace(u),
           HasPlace(u) => (pc'[u] = "critical" <=> pc[u] = "critical")
    PROVE  StatusOf(u)' = StatusOf(u)
BY DEF StatusOf

LEMMA SamePlaceHere ==
    ASSUME NEW u, UNCHANGED build, pc'[u] = pc[u], call'[u] = call[u]
    PROVE  HasPlace(u)' <=> HasPlace(u)
BY DEF HasPlace

LEMMA TicketQueueStays ==
    ASSUME TicketPlacesOK, NEW t \in Threads, Record(t), UNCHANGED <<ticket, serving>>,
           \A u \in Threads : HasPlace(u)' <=> HasPlace(u),
           \A u \in Threads : HasPlace(u) =>
               num'[u] = num[u] /\ (pc'[u] = "critical" <=> pc[u] = "critical"),
           \A u \in Threads : pc'[u] \in {"loaded", "try"} => num'[u] < TicketLimit,
           \A u \in Threads : pc'[u] = "try" => num'[u] <= serving,
           arrivals \in Seq(Threads)
    PROVE  TicketPlacesOK' /\ arrivals' \in Seq(Threads) /\ PromiseStep
<1>1. arrivals' = arrivals
  BY DEF Record
<1>2. \A i \in 1 .. Len(arrivals) : arrivals[i] \in Threads /\ HasPlace(arrivals[i])
  BY DEF TicketPlacesOK
<1>3. TicketPlacesOK'
  <2>1. \A i \in 1 .. Len(arrivals) :
          IF pc'[arrivals[i]] = "critical" THEN i = 1
                                           ELSE num'[arrivals[i]] = serving + i - 1
    BY <1>2 DEF TicketPlacesOK
  <2>2. QED
    BY <1>1, <2>1 DEF TicketPlacesOK
<1>4. \A u \in Threads : StatusOf(u)' = StatusOf(u)
  BY StatusTells
<1>5. QED
  BY <1>1, <1>3, <1>4 DEF PromiseStep

LEMMA TicketQueueGrows ==
    ASSUME TicketPlacesOK, LockTypeOK, arrivals \in Seq(Threads), NEW t \in Threads, Record(t),
           UNCHANGED <<build, serving>>, ticket' = ticket + 1,
           \A u \in Threads \ {t} : pc'[u] = pc[u] /\ call'[u] = call[u] /\ num'[u] = num[u],
           ~HasPlace(t), HasPlace(t)', pc'[t] \notin {"loaded", "try"},
           IF pc'[t] = "critical" THEN ticket = serving ELSE num'[t] = ticket
    PROVE  TicketPlacesOK' /\ arrivals' \in Seq(Threads) /\ PromiseStep
<1> DEFINE r == Append(arrivals, t)
<1>1. arrivals' = r
  BY DEF Record
<1>2. /\ r \in Seq(Threads) /\ Len(r) = Len(arrivals) + 1 /\ r[Len(r)] = t
      /\ \A i \in 1 .. Len(arrivals) : r[i] = arrivals[i]
  OBVIOUS
<1> HIDE DEF r
<1>3. \A u \in Threads \ {t} : HasPlace(u)' <=> HasPlace(u)
  BY SamePlaceHere
<1>4. \A i \in 1 .. Len(arrivals) : arrivals[i] \in Threads \ {t}
  BY DEF TicketPlacesOK
<1>5. \A i, j \in 1 .. Len(r) : r[i] = r[j] => i = j
  BY <1>2, <1>4 DEF TicketPlacesOK
<1>6. ASSUME NEW u \in Threads PROVE HasPlace(u)' <=> \E i \in 1 .. Len(r) : r[i] = u
  <2>1. CASE u = t
    <3>1. Len(r) \in 1 .. Len(r)
      BY <1>2
    <3>2. QED
      BY <1>2, <2>1, <3>1
  <2>2. CASE u # t
    <3>1. (\E i \in 1 .. Len(r) : r[i] = u) <=> \E i \in 1 .. Len(arrivals) : arrivals[i] = u
      <4>1. ASSUME NEW i \in 1 .. Len(arrivals), arrivals[i] = u
            PROVE  \E j \in 1 .. Len(r) : r[j] = u
        <5>1. i \in 1 .. Len(r) /\ r[i] = u
          BY <1>2, <4>1
        <5>2. QED
          BY <5>1
      <4>2. ASSUME NEW i \in 1 .. Len(r), r[i] = u
            PROVE  \E j \in 1 .. Len(arrivals) : arrivals[j] = u
        <5>1. i \in 1 .. Len(arrivals) /\ arrivals[i] = u
          BY <1>2, <2>2, <4>2
        <5>2. QED
          BY <5>1
      <4>3. QED
        BY <4>1, <4>2
    <3>2. HasPlace(u)' <=> HasPlace(u)
      BY <1>3, <2>2
    <3>3. QED
      BY <3>1, <3>2 DEF TicketPlacesOK
  <2>3. QED
    BY <2>1, <2>2
<1>7. ticket = serving + Len(arrivals) /\ ticket \in Nat /\ serving \in Nat
  BY TicketLimitAssumption DEF TicketPlacesOK, LockTypeOK
<1>8. ASSUME NEW i \in 1 .. Len(r)
      PROVE  IF pc'[r[i]] = "critical" THEN i = 1 ELSE num'[r[i]] = serving + i - 1
  <2>1. CASE i = Len(r)
    BY <1>2, <1>7, <2>1
  <2>2. CASE i # Len(r)
    <3>1. i \in 1 .. Len(arrivals) /\ r[i] = arrivals[i] /\ r[i] \in Threads \ {t}
      BY <1>2, <1>4, <2>2
    <3>2. QED
      BY <3>1 DEF TicketPlacesOK
  <2>3. QED
    BY <2>1, <2>2
<1>9. ticket' = serving' + Len(r)
  BY <1>2, <1>7
<1>10. TicketPlacesOK'
  BY <1>1, <1>5, <1>6, <1>8, <1>9 DEF TicketPlacesOK
<1>11. PromiseStep
  <2>1. \A u \in Threads \ {t} : StatusOf(u)' = StatusOf(u)
    BY <1>3, StatusTells
  <2>2. StatusOf(t) = "outside" /\ StatusOf(t)' = IF pc'[t] = "critical" THEN "inside" ELSE "waiting"
    BY DEF StatusOf
  <2>3. pc'[t] = "critical" => arrivals = <<>>
    BY <1>7
  <2>4. Promise!TakePlace(t)
    <3>1. arrivals' = Append(arrivals, t)
      BY <1>1 DEF r
    <3>2. QED
      BY <2>1, <2>2, <2>3, <3>1 DEF Promise!TakePlace, Promise!Become
  <2>5. QED
    BY <2>4 DEF PromiseStep, Promise!Next
<1>12. QED
  BY <1>1, <1>2, <1>10, <1>11

(* The thread whose ticket is up goes in; it is the first.                  *)
LEMMA TicketQueueEnters ==
    ASSUME TicketPlacesOK, LockTypeOK, arrivals \in Seq(Threads), NEW t \in Threads, Record(t),
           UNCHANGED <<build, ticket, serving>>,
           \A u \in Threads \ {t} : pc'[u] = pc[u] /\ call'[u] = call[u] /\ num'[u] = num[u],
           HasPlace(t), HasPlace(t)', pc[t] # "critical", pc'[t] = "critical", num[t] = serving
    PROVE  TicketPlacesOK' /\ arrivals' \in Seq(Threads) /\ PromiseStep
<1>1. arrivals' = arrivals
  BY DEF Record
<1>2. PICK k \in 1 .. Len(arrivals) : arrivals[k] = t
  BY DEF TicketPlacesOK
<1>3. k = 1 /\ Len(arrivals) > 0
  <2>1. num[t] = serving + k - 1 /\ serving \in Nat
    BY SMTT(30), <1>2, TicketLimitAssumption DEF TicketPlacesOK, LockTypeOK
  <2>2. QED
    BY <2>1
<1>4. \A u \in Threads : HasPlace(u)' <=> HasPlace(u)
  BY SamePlaceHere
<1>5. ASSUME NEW i \in 1 .. Len(arrivals)
      PROVE  IF pc'[arrivals[i]] = "critical" THEN i = 1 ELSE num'[arrivals[i]] = serving + i - 1
  <2>1. CASE i = 1
    BY <1>2, <1>3, <2>1
  <2>2. CASE i # 1
    <3>1. arrivals[i] \in Threads \ {t}
      BY <1>2, <1>3, <2>2 DEF TicketPlacesOK
    <3>2. QED
      BY <2>2, <3>1 DEF TicketPlacesOK
  <2>3. QED
    BY <2>1, <2>2
<1>6. TicketPlacesOK'
  BY <1>1, <1>4, <1>5 DEF TicketPlacesOK
<1>7. Promise!Enter(t)
  <2>1. \A u \in Threads \ {t} : StatusOf(u)' = StatusOf(u)
    BY <1>4, StatusTells
  <2>2. StatusOf(t) = "waiting" /\ StatusOf(t)' = "inside"
    BY DEF StatusOf
  <2>3. arrivals # <<>> /\ t = Head(arrivals)
    BY <1>2, <1>3
  <2>4. QED
    BY <1>1, <2>1, <2>2, <2>3 DEF Promise!Enter, Promise!Become
<1>8. QED
  BY <1>1, <1>6, <1>7 DEF PromiseStep, Promise!Next

(* unlock() takes the first out, and every ticket is one nearer.            *)
LEMMA TicketQueueLeaves ==
    ASSUME TicketPlacesOK, LockTypeOK, arrivals \in Seq(Threads), NEW t \in Threads, Record(t),
           UNCHANGED <<build, ticket>>, serving' = serving + 1,
           \A u \in Threads \ {t} : pc'[u] = pc[u] /\ call'[u] = call[u], num' = num,
           HasPlace(t), ~HasPlace(t)', pc[t] = "critical", pc'[t] \notin {"loaded", "try"}
    PROVE  TicketPlacesOK' /\ arrivals' \in Seq(Threads) /\ PromiseStep /\ serving < ticket
<1> DEFINE r == Tail(arrivals)
<1>1. arrivals' = r
  BY DEF Record
<1>2. PICK k \in 1 .. Len(arrivals) : arrivals[k] = t
  BY DEF TicketPlacesOK
<1>3. k = 1 /\ Len(arrivals) > 0 /\ arrivals[1] = t
  BY <1>2 DEF TicketPlacesOK
<1>4. /\ r \in Seq(Threads) /\ Len(r) = Len(arrivals) - 1
      /\ \A i \in 1 .. Len(r) : r[i] = arrivals[i + 1]
  BY <1>3
<1> HIDE DEF r
<1>5. \A u \in Threads \ {t} : HasPlace(u)' <=> HasPlace(u)
  BY SamePlaceHere
<1>6. ticket = serving + Len(arrivals) /\ ticket \in Nat /\ serving \in Nat
  BY TicketLimitAssumption DEF TicketPlacesOK, LockTypeOK
<1>7. ASSUME NEW i \in 1 .. Len(r)
      PROVE  /\ i + 1 \in 1 .. Len(arrivals) /\ r[i] = arrivals[i + 1] /\ r[i] \in Threads \ {t}
  <2>1. i + 1 \in 1 .. Len(arrivals) /\ r[i] = arrivals[i + 1]
    BY <1>4
  <2>2. arrivals[i + 1] # t
    BY <1>3, <2>1 DEF TicketPlacesOK
  <2>3. QED
    BY <2>1, <2>2
<1>8. ASSUME NEW i \in 1 .. Len(r), NEW j \in 1 .. Len(r), r[i] = r[j] PROVE i = j
  <2>1. i + 1 = j + 1
    BY <1>7, <1>8 DEF TicketPlacesOK
  <2>2. QED
    BY <2>1
<1>9. ASSUME NEW u \in Threads PROVE HasPlace(u)' <=> \E i \in 1 .. Len(r) : r[i] = u
  <2>1. CASE u = t
    BY <1>7, <2>1
  <2>2. ASSUME u # t, HasPlace(u) PROVE \E i \in 1 .. Len(r) : r[i] = u
    <3>1. PICK j \in 1 .. Len(arrivals) : arrivals[j] = u
      BY <2>2 DEF TicketPlacesOK
    <3>2. j # 1
      BY <1>3, <2>2, <3>1
    <3>3. j - 1 \in 1 .. Len(r) /\ r[j - 1] = u
      BY <1>4, <3>1, <3>2
    <3>4. QED
      BY <3>3
  <2>3. ASSUME NEW i \in 1 .. Len(r), r[i] = u PROVE HasPlace(u)
    BY <1>7, <2>3 DEF TicketPlacesOK
  <2>4. QED
    BY <1>5, <2>1, <2>2, <2>3
<1>10. ASSUME NEW i \in 1 .. Len(r)
       PROVE  IF pc'[r[i]] = "critical" THEN i = 1 ELSE num'[r[i]] = serving' + i - 1
  <2>1. i + 1 \in 1 .. Len(arrivals) /\ r[i] = arrivals[i + 1] /\ r[i] \in Threads \ {t}
    BY <1>7
  <2>2. pc[r[i]] # "critical" /\ num[r[i]] = serving + (i + 1) - 1
    BY <2>1 DEF TicketPlacesOK
  <2>3. QED
    BY <1>6, <2>1, <2>2
<1>11. ASSUME NEW u \in Threads
       PROVE  /\ pc'[u] \in {"loaded", "try"} => num'[u] < TicketLimit
              /\ pc'[u] = "try" => num'[u] <= serving'
  <2>1. pc'[u] \in {"loaded", "try"} => pc'[u] = pc[u]
    OBVIOUS
  <2>2. num[u] \in Nat
    BY TicketLimitAssumption DEF LockTypeOK
  <2>3. QED
    BY <1>6, <2>1, <2>2 DEF TicketPlacesOK
<1>12. TicketPlacesOK'
  BY <1>1, <1>3, <1>4, <1>6, <1>8, <1>9, <1>10, <1>11 DEF TicketPlacesOK
<1>13. Promise!Leave(t)
  <2>1. \A u \in Threads \ {t} : StatusOf(u)' = StatusOf(u)
    BY <1>5, StatusTells
  <2>2. StatusOf(t) = "inside" /\ StatusOf(t)' = "outside"
    BY DEF StatusOf
  <2>3. arrivals # <<>> /\ t = Head(arrivals) /\ arrivals' = Tail(arrivals)
    BY <1>1, <1>3 DEF r
  <2>4. QED
    BY <2>1, <2>2, <2>3 DEF Promise!Leave, Promise!Become
<1>14. QED
  BY <1>1, <1>3, <1>4, <1>6, <1>12, <1>13 DEF PromiseStep, Promise!Next

(* What keeps TicketSleepersOK while serving stands still: t falls asleep   *)
(* on a flag that is there, and no flag and no waker is lost.               *)
LEMMA TicketSleepersStay ==
    ASSUME TicketSleepersOK, NEW t \in Threads, UNCHANGED serving,
           \A u \in Threads \ {t} :
              pc'[u] = pc[u] /\ call'[u] = call[u] /\ num'[u] = num[u] /\ seen'[u] = seen[u],
           servingFlag => servingFlag', pc[t] # "notify",
           pc'[t] = "sleep" /\ call'[t] = "lock" => seen'[t][1] # num'[t] /\ seen'[t][2],
           pc'[t] = "asleep" /\ call'[t] = "lock" => servingFlag /\ num'[t] # serving
    PROVE  TicketSleepersOK'
<1>1. \A u \in Threads : pc'[u] = "sleep" /\ call'[u] = "lock" =>
          seen'[u][1] # num'[u] /\ seen'[u][2]
  BY DEF TicketSleepersOK
<1>2. ASSUME NEW u \in Threads, pc'[u] = "asleep" /\ call'[u] = "lock"
      PROVE  (servingFlag' /\ num'[u] # serving') \/ \E v \in Threads : pc'[v] = "notify"
  <2>1. CASE u = t
    BY <1>2, <2>1
  <2>2. CASE u # t
    <3>1. (servingFlag /\ num[u] # serving) \/ \E v \in Threads : pc[v] = "notify"
      BY <1>2, <2>2 DEF TicketSleepersOK
    <3>2. QED
      BY <2>2, <3>1
  <2>3. QED
    BY <2>1, <2>2
<1>3. QED
  BY <1>1, <1>2 DEF TicketSleepersOK

LEMMA TicketSteps ==
    ASSUME LockTypeOK, CallsOK, build.family = "ticket", UNCHANGED build,
           TicketPlacesOK, TicketSleepersOK, arrivals \in Seq(Threads),
           NEW t \in Threads, TicketCall(t) \/ TicketStep(t), Record(t),
           UNCHANGED <<word, mcsFutexVars>>
    PROVE  /\ LockTypeOK' /\ CallsOK' /\ TicketPlacesOK' /\ TicketSleepersOK'
           /\ arrivals' \in Seq(Threads) /\ PromiseStep
<1> USE DEF SleepLabels, QueueLabels, MCSQueueLabels
<1> DEFINE L == {"idle", "loaded", "try", "raise", "serve", "critical", "notify"}
                \cup SleepLabels
           Tickets == 0 .. TicketLimit
           Sights == Tickets \X BOOLEAN
<1>1. /\ Labels[build.family] = L /\ Labels[build'.family] = L /\ build'.family = "ticket"
      /\ pc \in [Threads -> L] /\ call \in [Threads -> Calls]
      /\ ticket \in Tickets /\ serving \in Tickets /\ servingFlag \in BOOLEAN
      /\ num \in [Threads -> Tickets] /\ seen \in [Threads -> Sights]
  BY DEF LockTypeOK, Labels
<1>2. CallFits(t) /\ pc[t] \in L
  BY <1>1 DEF CallsOK
<1>3. /\ num = [num EXCEPT ![t] = num[t]] /\ num[t] \in Tickets
      /\ seen = [seen EXCEPT ![t] = seen[t]] /\ seen[t] \in Sights
      /\ 0 \in Tickets /\ <<0, FALSE>> \in Sights /\ <<serving, TRUE>> \in Sights
      /\ <<serving, servingFlag>> \in Sights
  <2>1. num = [num EXCEPT ![t] = num[t]] /\ num[t] \in Tickets
    BY <1>1
  <2>2. seen = [seen EXCEPT ![t] = seen[t]] /\ seen[t] \in Sights
    BY <1>1
  <2>3. 0 \in Tickets /\ serving \in Tickets /\ servingFlag \in BOOLEAN
    BY <1>1, TicketLimitAssumption
  <2>4. QED
    BY <2>1, <2>2, <2>3
<1>4. Tickets \subseteq Nat
  BY TicketLimitAssumption
<1>5. ticket = serving + Len(arrivals) /\ Len(arrivals) \in Nat
  BY DEF TicketPlacesOK
<1> HIDE DEF L, Tickets, Sights
<1>6. ASSUME pc' \in [Threads -> L], call' \in [Threads -> Calls],
             ticket' \in Tickets, serving' \in Tickets, servingFlag' \in BOOLEAN,
             num' \in [Threads -> Tickets], seen' \in [Threads -> Sights]
      PROVE  LockTypeOK'
  BY <1>1, <1>6 DEF LockTypeOK, MCSTypeOK, mcsFutexVars, mcsVars, Tickets, Sights
<1>7. ASSUME \A u \in Threads \ {t} : pc'[u] = pc[u] /\ call'[u] = call[u], CallFits(t)'
      PROVE  CallsOK'
  BY <1>1, <1>7 DEF CallsOK, CallFits
<1>8. HasPlace(t) <=> pc[t] \in {"serve", "critical"} \/ (pc[t] \in SleepLabels /\ call[t] = "lock")
  BY <1>1, <1>2 DEF HasPlace, L
<1>9. ASSUME pc'[t] \in L
      PROVE  HasPlace(t)' <=> pc'[t] \in {"serve", "critical"}
                              \/ (pc'[t] \in SleepLabels /\ call'[t] = "lock")
  BY <1>1, <1>9 DEF HasPlace, L
\* A step of a call, up to what it does to the queue.
<1>10. ASSUME NEW from, NEW to \in L, Continue(t, from, to),
              num' \in [Threads -> Tickets], seen' \in [Threads -> Sights],
              \A u \in Threads \ {t} : num'[u] = num[u] /\ seen'[u] = seen[u],
              ticket' \in Tickets, serving' = serving,
              servingFlag' \in BOOLEAN, servingFlag => servingFlag', from # "notify",
              to = "serve" => call[t] = "lock", to \in {"loaded", "try"} => call[t] \in {"try", "tryWait"},
              to = "raise" => call[t] = "tryWait", to \in SleepLabels => call[t] \in {"lock", "tryWait"},
              to = "sleep" /\ call[t] = "lock" => seen'[t][1] # num'[t] /\ seen'[t][2],
              to = "asleep" /\ call[t] = "lock" => servingFlag /\ num'[t] # serving
       PROVE  /\ LockTypeOK' /\ CallsOK' /\ TicketSleepersOK'
              /\ pc[t] = from /\ pc'[t] = to
              /\ call'[t] = IF to \in {"idle", "critical"} THEN "lock" ELSE call[t]
              /\ \A u \in Threads \ {t} :
                    /\ pc'[u] = pc[u] /\ call'[u] = call[u]
                    /\ num'[u] = num[u] /\ seen'[u] = seen[u]
                    /\ HasPlace(u)' <=> HasPlace(u)
  <2>1. /\ pc[t] = from /\ pc'[t] = to
        /\ call'[t] = IF to \in {"idle", "critical"} THEN "lock" ELSE call[t]
        /\ pc' \in [Threads -> L] /\ call' \in [Threads -> Calls]
        /\ \A u \in Threads \ {t} : pc'[u] = pc[u] /\ call'[u] = call[u]
    BY <1>1, <1>10, ContinueMoves
  <2>2. LockTypeOK'
    BY <1>1, <1>6, <1>10, <2>1
  <2>3. CallFits(t)'
    BY <1>1, <1>10, <2>1 DEF CallFits, L
  <2>4. TicketSleepersOK'
    BY <1>10, <2>1, TicketSleepersStay
  <2>5. \A u \in Threads \ {t} : HasPlace(u)' <=> HasPlace(u)
    BY <2>1, SamePlaceHere
  <2>6. QED
    BY <1>7, <1>10, <2>1, <2>2, <2>3, <2>4, <2>5
\* A step that leaves the queue alone.
<1>11. ASSUME UNCHANGED <<ticket, serving>>, pc'[t] \in L,
              HasPlace(t)' <=> HasPlace(t),
              \A u \in Threads \ {t} : /\ pc'[u] = pc[u] /\ num'[u] = num[u]
                                       /\ HasPlace(u)' <=> HasPlace(u),
              HasPlace(t) => num'[t] = num[t] /\ pc'[t] # "critical" /\ pc[t] # "critical",
              pc'[t] \in {"loaded", "try"} => num'[t] < TicketLimit,
              pc'[t] = "try" => num'[t] = serving
       PROVE  TicketPlacesOK' /\ arrivals' \in Seq(Threads) /\ PromiseStep
  <2>1. \A u \in Threads : HasPlace(u)' <=> HasPlace(u)
    BY <1>11
  <2>2. \A u \in Threads : HasPlace(u) =>
           num'[u] = num[u] /\ (pc'[u] = "critical" <=> pc[u] = "critical")
    BY <1>11
  <2>3. \A u \in Threads : pc'[u] \in {"loaded", "try"} => num'[u] < TicketLimit
    BY <1>11 DEF TicketPlacesOK
  <2>4. \A u \in Threads : pc'[u] = "try" => num'[u] <= serving
    <3>1. serving \in Nat
      BY <1>1, <1>4
    <3>2. pc'[t] = "try" => num'[t] <= serving
      BY <1>11, <3>1
    <3>3. \A u \in Threads \ {t} : pc'[u] = "try" => num'[u] <= serving
      BY <1>11 DEF TicketPlacesOK
    <3>4. QED
      BY <3>2, <3>3
  <2>5. QED
    BY <1>11, <2>1, <2>2, <2>3, <2>4, TicketQueueStays
<1>12. ASSUME NEW c \in Calls, NEW to \in L, Begin(t, c, to), NEW n \in Tickets,
              num' = [num EXCEPT ![t] = n], UNCHANGED <<serving, servingFlag, seen>>,
              ticket' \in Tickets, to \in {"serve", "loaded"},
              to = "serve" => c = "lock", to = "loaded" => c \in {"try", "tryWait"}
       PROVE  /\ LockTypeOK' /\ CallsOK' /\ TicketSleepersOK'
              /\ pc[t] = "idle" /\ pc'[t] = to /\ num'[t] = n /\ call'[t] = c
              /\ \A u \in Threads \ {t} :
                    /\ pc'[u] = pc[u] /\ call'[u] = call[u]
                    /\ num'[u] = num[u] /\ seen'[u] = seen[u]
                    /\ HasPlace(u)' <=> HasPlace(u)
  <2>1. /\ pc[t] = "idle" /\ pc'[t] = to /\ call'[t] = c
        /\ pc' \in [Threads -> L] /\ call' \in [Threads -> Calls]
        /\ \A u \in Threads \ {t} : pc'[u] = pc[u] /\ call'[u] = call[u]
    BY <1>1, <1>12, BeginMoves
  <2>2. /\ num' \in [Threads -> Tickets] /\ seen' \in [Threads -> Sights]
        /\ num'[t] = n /\ \A u \in Threads \ {t} : num'[u] = num[u] /\ seen'[u] = seen[u]
    BY <1>1, <1>12
  <2>3. LockTypeOK'
    BY <1>1, <1>6, <1>12, <2>1, <2>2
  <2>4. CallFits(t)'
    BY <1>1, <1>12, <2>1 DEF CallFits, L
  <2>5. TicketSleepersOK'
    BY <1>12, <2>1, <2>2, TicketSleepersStay
  <2>6. \A u \in Threads \ {t} : HasPlace(u)' <=> HasPlace(u)
    BY <2>1, SamePlaceHere
  <2>7. QED
    BY <1>7, <2>1, <2>2, <2>3, <2>4, <2>5, <2>6
<1>13. CASE TicketDraws(t)
  <2>1. /\ "lock" \in Calls /\ "serve" \in L /\ ticket' \in Tickets
        /\ Begin(t, "lock", "serve") /\ num' = [num EXCEPT ![t] = ticket]
        /\ ticket' = ticket + 1 /\ UNCHANGED <<serving, servingFlag, seen>>
    BY <1>1, <1>13, TicketLimitAssumption DEF TicketDraws, Calls, L, Tickets
  <2>2. /\ LockTypeOK' /\ CallsOK' /\ TicketSleepersOK'
        /\ pc[t] = "idle" /\ pc'[t] = "serve" /\ num'[t] = ticket
        /\ \A u \in Threads \ {t} : pc'[u] = pc[u] /\ call'[u] = call[u] /\ num'[u] = num[u]
    BY <1>1, <1>12, <2>1
  <2>3. ~HasPlace(t) /\ HasPlace(t)'
    BY <1>8, <1>9, <2>1, <2>2
  <2>4. TicketPlacesOK' /\ arrivals' \in Seq(Threads) /\ PromiseStep
    BY <2>1, <2>2, <2>3, TicketQueueGrows
  <2>5. QED
    BY <2>2, <2>4
<1>14. ASSUME NEW c \in {"try", "tryWait"}, TicketTries(t, c)
       PROVE  /\ LockTypeOK' /\ CallsOK' /\ TicketPlacesOK' /\ TicketSleepersOK'
              /\ arrivals' \in Seq(Threads) /\ PromiseStep
  <2>1. /\ c \in Calls /\ "loaded" \in L /\ ticket' \in Tickets /\ ticket < TicketLimit
        /\ Begin(t, c, "loaded") /\ num' = [num EXCEPT ![t] = ticket]
        /\ ticket' = ticket /\ UNCHANGED <<serving, servingFlag, seen>>
    BY <1>1, <1>14 DEF TicketTries, Calls, L
  <2>2. /\ LockTypeOK' /\ CallsOK' /\ TicketSleepersOK'
        /\ pc[t] = "idle" /\ pc'[t] = "loaded" /\ num'[t] = ticket
        /\ \A u \in Threads \ {t} :
              pc'[u] = pc[u] /\ num'[u] = num[u] /\ (HasPlace(u)' <=> HasPlace(u))
    BY <1>1, <1>12, <2>1
  <2>3. ~HasPlace(t) /\ ~HasPlace(t)'
    BY <1>8, <1>9, <2>1, <2>2
  <2>4. TicketPlacesOK' /\ arrivals' \in Seq(Threads) /\ PromiseStep
    BY <1>11, <2>1, <2>2, <2>3
  <2>5. QED
    BY <2>2, <2>4
<1>15. CASE TicketsStartAgain
  <2>1. /\ ticket = serving /\ ticket' = 0 /\ serving' = 0
        /\ \A u \in Threads : pc[u] \in {"idle", "asleep"}
        /\ UNCHANGED <<pc, call, servingFlag, num, seen>>
    BY <1>15 DEF TicketsStartAgain
  <2>2. arrivals = <<>>
    BY <1>1, <1>4, <1>5, <2>1
  <2>3. \A u \in Threads : ~HasPlace(u) /\ (HasPlace(u)' <=> HasPlace(u))
    BY <2>1, <2>2, SamePlaceHere DEF TicketPlacesOK
  <2>4. arrivals' = <<>>
    BY <2>2, <2>3 DEF Record
  <2>5. TicketPlacesOK'
    BY <2>1, <2>3, <2>4 DEF TicketPlacesOK
  <2>6. \A u \in Threads : ~(pc[u] \in SleepLabels /\ call[u] = "lock")
    BY <1>1, <2>3 DEF HasPlace
  <2>7. TicketSleepersOK'
    BY <2>1, <2>6 DEF TicketSleepersOK
  <2>8. PromiseStep
    BY <2>1, <2>2, <2>3, <2>4, StatusTells DEF PromiseStep
  <2>9. LockTypeOK' /\ CallsOK'
    BY <1>1, <1>3, <1>6, <2>1 DEF CallsOK, CallFits
  <2>10. QED
    BY <2>2, <2>4, <2>5, <2>7, <2>8, <2>9
<1>16. CASE TicketServes(t)
  <2>1. CASE serving = num[t] /\ Continue(t, "serve", "critical") /\ Forgets(t)
             /\ UNCHANGED <<ticket, serving, servingFlag>>
    <3>1. /\ LockTypeOK' /\ CallsOK' /\ TicketSleepersOK'
          /\ pc[t] = "serve" /\ pc'[t] = "critical"
          /\ \A u \in Threads \ {t} : pc'[u] = pc[u] /\ call'[u] = call[u] /\ num'[u] = num[u]
      BY <1>1, <1>3, <1>10, <2>1 DEF Forgets, L
    <3>2. HasPlace(t) /\ HasPlace(t)'
      BY <1>8, <1>9, <3>1 DEF L
    <3>3. TicketPlacesOK' /\ arrivals' \in Seq(Threads) /\ PromiseStep
      BY <2>1, <3>1, <3>2, TicketQueueEnters
    <3>4. QED
      BY <3>1, <3>3
  <2>2. CASE serving # num[t] /\ Continue(t, "serve", "sleep") /\ servingFlag' = TRUE
             /\ seen' = [seen EXCEPT ![t] = <<serving, TRUE>>]
             /\ UNCHANGED <<ticket, serving, num>>
    <3>1. pc[t] = "serve" /\ call[t] = "lock"
      BY <1>2, <2>2 DEF Continue, Move, CallFits
    <3>2. /\ LockTypeOK' /\ CallsOK' /\ TicketSleepersOK'
          /\ pc'[t] = "sleep" /\ call'[t] = "lock" /\ num'[t] = num[t]
          /\ \A u \in Threads \ {t} :
                pc'[u] = pc[u] /\ num'[u] = num[u] /\ (HasPlace(u)' <=> HasPlace(u))
      BY <1>1, <1>3, <1>10, <2>2, <3>1 DEF L
    <3>3. HasPlace(t) /\ HasPlace(t)'
      BY <1>8, <1>9, <3>1, <3>2 DEF L
    <3>4. TicketPlacesOK' /\ arrivals' \in Seq(Threads) /\ PromiseStep
      BY <1>11, <2>2, <3>1, <3>2, <3>3 DEF L
    <3>5. QED
      BY <3>2, <3>4
  <2>3. QED
    BY <1>16, <2>1, <2>2 DEF TicketServes
<1>17. CASE TicketCompares(t)
  <2>1. pc[t] = "loaded" /\ call[t] \in {"try", "tryWait"} /\ num[t] < TicketLimit
    BY <1>2, <1>17 DEF TicketCompares, Continue, Move, CallFits, TicketPlacesOK
  <2>2. PICK to \in {"try", "idle", "sleep", "raise"}, n \in Tickets, s \in Sights :
           /\ Continue(t, "loaded", to)
           /\ num' = [num EXCEPT ![t] = n] /\ seen' = [seen EXCEPT ![t] = s]
           /\ to = "try" => n = num[t] /\ num[t] = serving
           /\ to \in {"sleep", "raise"} => call[t] = "tryWait"
    BY <1>3, <1>17 DEF TicketCompares, Remembers, Forgets, TicketWaits
  <2>3. UNCHANGED <<ticket, serving, servingFlag>>
    BY <1>17 DEF TicketCompares
  <2>4. to \in L
    BY DEF L
  <2>5. /\ LockTypeOK' /\ CallsOK' /\ TicketSleepersOK'
        /\ pc'[t] = to /\ num'[t] = n
        /\ call'[t] = IF to \in {"idle", "critical"} THEN "lock" ELSE call[t]
        /\ \A u \in Threads \ {t} :
              pc'[u] = pc[u] /\ num'[u] = num[u] /\ (HasPlace(u)' <=> HasPlace(u))
    BY <1>1, <1>10, <2>1, <2>2, <2>3, <2>4
  <2>6. ~HasPlace(t) /\ ~HasPlace(t)'
    BY <1>8, <1>9, <2>1, <2>2, <2>4, <2>5
  <2>7. TicketPlacesOK' /\ arrivals' \in Seq(Threads) /\ PromiseStep
    BY <1>11, <2>1, <2>2, <2>3, <2>4, <2>5, <2>6
  <2>8. QED
    BY <2>5, <2>7
<1>18. CASE TicketTrySwaps(t)
  <2>1. pc[t] = "try" /\ call[t] \in {"try", "tryWait"} /\ num[t] < TicketLimit /\ num[t] <= serving
    BY <1>2, <1>18 DEF TicketTrySwaps, Continue, Move, CallFits, TicketPlacesOK
  <2>2. ~HasPlace(t) /\ UNCHANGED <<serving, servingFlag>>
    BY <1>8, <1>18, <2>1 DEF TicketTrySwaps
  <2>3. CASE ticket = num[t] /\ Continue(t, "try", "critical") /\ ticket' = ticket + 1 /\ Forgets(t)
    <3>1. ticket' \in Tickets /\ ticket = serving
      <4>1. ticket \in Nat /\ serving \in Nat
        BY <1>1, <1>4
      <4>2. ticket <= serving /\ ticket < TicketLimit
        BY <2>1, <2>3
      <4>3. ticket = serving
        BY <1>5, <4>1, <4>2
      <4>4. QED
        BY <2>3, <4>1, <4>2, <4>3, TicketLimitAssumption DEF Tickets
    <3>2. /\ LockTypeOK' /\ CallsOK' /\ TicketSleepersOK'
          /\ pc'[t] = "critical"
          /\ \A u \in Threads \ {t} : pc'[u] = pc[u] /\ call'[u] = call[u] /\ num'[u] = num[u]
      BY <1>1, <1>3, <1>10, <2>2, <2>3, <3>1 DEF Forgets, L
    <3>3. HasPlace(t)'
      BY <1>9, <3>2 DEF L
    <3>4. TicketPlacesOK' /\ arrivals' \in Seq(Threads) /\ PromiseStep
      BY <2>2, <2>3, <3>1, <3>2, <3>3, TicketQueueGrows
    <3>5. QED
      BY <3>2, <3>4
  <2>4. CASE ticket # num[t] /\ ticket' = ticket
    <3>1. PICK to \in {"idle", "sleep", "raise"}, s \in Sights :
             /\ Continue(t, "try", to)
             /\ num' = [num EXCEPT ![t] = 0] /\ seen' = [seen EXCEPT ![t] = s]
             /\ to \in {"sleep", "raise"} => call[t] = "tryWait"
      BY <1>3, <1>18, <2>4 DEF TicketTrySwaps, Remembers, Forgets, TicketWaits
    <3>2. to \in L
      BY DEF L
    <3>3. /\ LockTypeOK' /\ CallsOK' /\ TicketSleepersOK'
          /\ pc'[t] = to
          /\ call'[t] = IF to \in {"idle", "critical"} THEN "lock" ELSE call[t]
          /\ \A u \in Threads \ {t} :
                pc'[u] = pc[u] /\ num'[u] = num[u] /\ (HasPlace(u)' <=> HasPlace(u))
      BY <1>1, <1>3, <1>10, <2>1, <2>2, <2>4, <3>1, <3>2
    <3>4. ~HasPlace(t)'
      BY <1>9, <2>1, <3>1, <3>2, <3>3
    <3>5. TicketPlacesOK' /\ arrivals' \in Seq(Threads) /\ PromiseStep
      BY <1>11, <2>2, <2>4, <3>1, <3>2, <3>3, <3>4
    <3>6. QED
      BY <3>3, <3>5
  <2>5. QED
    BY <1>18, <2>3, <2>4 DEF TicketTrySwaps
<1>19. CASE TicketRaises(t)
  <2>1. pc[t] = "raise" /\ call[t] = "tryWait"
    BY <1>2, <1>19 DEF TicketRaises, Continue, Move, CallFits
  <2>2. PICK to \in {"idle", "sleep"}, s \in Sights :
           /\ Continue(t, "raise", to)
           /\ num' = [num EXCEPT ![t] = 0] /\ seen' = [seen EXCEPT ![t] = s]
    BY <1>3, <1>19 DEF TicketRaises, Remembers, Forgets
  <2>3. UNCHANGED <<ticket, serving>> /\ servingFlag' \in BOOLEAN /\ (servingFlag => servingFlag')
    BY <1>1, <1>19 DEF TicketRaises
  <2>4. to \in L
    BY DEF L
  <2>5. /\ LockTypeOK' /\ CallsOK' /\ TicketSleepersOK'
        /\ pc'[t] = to /\ call'[t] = IF to \in {"idle", "critical"} THEN "lock" ELSE call[t]
        /\ \A u \in Threads \ {t} :
              pc'[u] = pc[u] /\ num'[u] = num[u] /\ (HasPlace(u)' <=> HasPlace(u))
    BY <1>1, <1>3, <1>10, <2>1, <2>2, <2>3, <2>4
  <2>6. ~HasPlace(t) /\ ~HasPlace(t)'
    BY <1>8, <1>9, <2>1, <2>2, <2>4, <2>5
  <2>7. TicketPlacesOK' /\ arrivals' \in Seq(Threads) /\ PromiseStep
    BY <1>11, <2>2, <2>3, <2>4, <2>5, <2>6
  <2>8. QED
    BY <2>5, <2>7
<1>20. CASE TicketSleeps(t)
  <2> DEFINE to == IF <<serving, servingFlag>> = seen[t] THEN "asleep" ELSE TicketBack(t)
  <2>1. /\ Continue(t, "sleep", to) /\ pc[t] = "sleep" /\ call[t] \in {"lock", "tryWait"}
        /\ num' = [num EXCEPT ![t] = num[t]] /\ seen' = [seen EXCEPT ![t] = <<0, FALSE>>]
        /\ UNCHANGED <<ticket, serving, servingFlag>>
    BY <1>2, <1>20 DEF TicketSleeps, FutexWait, Remembers, Continue, Move, CallFits
  <2>2. /\ to \in L /\ to \in {"asleep", "idle", "serve"}
        /\ to = "idle" => call[t] = "tryWait"
        /\ to = "serve" => call[t] = "lock"
    BY <2>1 DEF TicketBack, L
  <2>3. to = "asleep" /\ call[t] = "lock" => servingFlag /\ num[t] # serving
    BY <2>1 DEF TicketSleepersOK, TicketBack
  <2> HIDE DEF to
  <2>4. /\ LockTypeOK' /\ CallsOK' /\ TicketSleepersOK'
        /\ pc'[t] = to /\ num'[t] = num[t]
        /\ call'[t] = IF to \in {"idle", "critical"} THEN "lock" ELSE call[t]
        /\ \A u \in Threads \ {t} :
              pc'[u] = pc[u] /\ num'[u] = num[u] /\ (HasPlace(u)' <=> HasPlace(u))
    BY <1>1, <1>3, <1>10, <2>1, <2>2, <2>3
  <2>5. HasPlace(t)' <=> HasPlace(t)
    BY <1>8, <1>9, <2>1, <2>2, <2>4
  <2>6. TicketPlacesOK' /\ arrivals' \in Seq(Threads) /\ PromiseStep
    BY <1>11, <2>1, <2>2, <2>4, <2>5
  <2>7. QED
    BY <2>4, <2>6
<1>21. CASE TicketUnlocks(t)
  <2> DEFINE to == IF servingFlag THEN "notify" ELSE "idle"
  <2>1. to \in L /\ to \in {"notify", "idle"} /\ (to = "notify" <=> servingFlag)
    BY DEF L
  <2>2. /\ Continue(t, "critical", to) /\ serving' = serving + 1 /\ servingFlag' = FALSE
        /\ UNCHANGED <<ticket, num, seen>>
    BY <1>21 DEF TicketUnlocks
  <2> HIDE DEF to
  <2>3. /\ pc[t] = "critical" /\ pc'[t] = to
        /\ call'[t] = IF to \in {"idle", "critical"} THEN "lock" ELSE call[t]
        /\ pc' \in [Threads -> L] /\ call' \in [Threads -> Calls]
        /\ \A u \in Threads \ {t} : pc'[u] = pc[u] /\ call'[u] = call[u]
    BY <1>1, <2>1, <2>2, ContinueMoves
  <2>4. HasPlace(t) /\ ~HasPlace(t)'
    BY <1>8, <1>9, <2>1, <2>3
  <2>5. TicketPlacesOK' /\ arrivals' \in Seq(Threads) /\ PromiseStep /\ serving < ticket
    BY <2>1, <2>2, <2>3, <2>4, TicketQueueLeaves
  <2>6. serving' \in Tickets
    BY <1>1, <2>2, <2>5, TicketLimitAssumption DEF Tickets
  <2>7. LockTypeOK'
    BY <1>1, <1>6, <2>2, <2>3, <2>6
  <2>8. CallsOK'
    BY <1>1, <1>2, <1>7, <2>1, <2>3 DEF CallFits
  <2>9. TicketSleepersOK'
    <3>1. \A u \in Threads : pc'[u] = "sleep" /\ call'[u] = "lock" =>
             seen'[u][1] # num'[u] /\ seen'[u][2]
      BY <2>1, <2>2, <2>3 DEF TicketSleepersOK
    <3>2. ASSUME NEW u \in Threads, pc'[u] = "asleep", call'[u] = "lock"
          PROVE  \E v \in Threads : pc'[v] = "notify"
      <4>1. u # t
        BY <2>1, <2>3, <3>2
      <4>2. servingFlag \/ \E v \in Threads : pc[v] = "notify"
        BY <2>3, <3>2, <4>1 DEF TicketSleepersOK
      <4>3. QED
        BY <2>1, <2>3, <4>2
    <3>3. QED
      BY <3>1, <3>2 DEF TicketSleepersOK
  <2>10. QED
    BY <2>5, <2>7, <2>8, <2>9
<1>22. CASE TicketNotifies(t)
  <2> DEFINE back == [u \in Threads |-> TicketBack(u)]
  <2>1. FutexWake(t, "notify", "idle", Threads, back) /\ UNCHANGED ticketFutexVars /\ "idle" \in L
    BY <1>22 DEF TicketNotifies, L
  <2>2. \A u \in Threads : /\ back[u] \in L /\ back[u] \in {"idle", "serve"}
                           /\ back[u] = "idle" <=> call[u] = "tryWait"
    BY DEF TicketBack, L
  <2> HIDE DEF back
  <2>3. /\ pc[t] = "notify" /\ pc'[t] = "idle" /\ call' = call
        /\ pc' \in [Threads -> L] /\ call' \in [Threads -> Calls]
        /\ \A u \in Threads \ {t} : pc'[u] = IF pc[u] = "asleep" THEN back[u] ELSE pc[u]
    BY <1>1, <2>1, <2>2 DEF FutexWake
  <2>4. UNCHANGED <<ticket, serving, servingFlag, num, seen>>
    BY <2>1 DEF ticketFutexVars
  <2>5. ASSUME NEW u \in Threads
        PROVE  /\ CallFits(u)' /\ (HasPlace(u)' <=> HasPlace(u))
               /\ pc'[u] # "asleep"
               /\ pc'[u] \in {"sleep", "critical", "loaded", "try"} => pc'[u] = pc[u]
               /\ pc[u] \in {"sleep", "critical"} => pc'[u] = pc[u]
    <3>1. CallFits(u) /\ call'[u] = call[u]
      BY <2>3 DEF CallsOK
    <3>2. CASE u = t
      BY <1>1, <2>3, <3>1, <3>2 DEF CallFits, HasPlace
    <3>3. CASE u # t /\ pc[u] = "asleep"
      <4>1. pc'[u] \in {"idle", "serve"} /\ (pc'[u] = "idle" <=> call[u] = "tryWait")
        BY <2>2, <2>3, <3>3
      <4>2. call[u] \in {"lock", "tryWait"}
        BY <3>1, <3>3 DEF CallFits
      <4>3. QED
        BY <1>1, <3>1, <3>3, <4>1, <4>2 DEF CallFits, HasPlace
    <3>4. CASE u # t /\ pc[u] # "asleep"
      BY <1>1, <2>3, <3>1, <3>4 DEF CallFits, HasPlace
    <3>5. QED
      BY <3>2, <3>3, <3>4
  <2>6. TicketPlacesOK' /\ arrivals' \in Seq(Threads) /\ PromiseStep
    <3>1. \A u \in Threads : pc'[u] \in {"loaded", "try"} => num'[u] < TicketLimit
      BY <2>4, <2>5 DEF TicketPlacesOK
    <3>2. \A u \in Threads : pc'[u] = "try" => num'[u] <= serving
      BY <2>4, <2>5 DEF TicketPlacesOK
    <3>3. QED
      BY <2>4, <2>5, <3>1, <3>2, TicketQueueStays
  <2>7. TicketSleepersOK'
    BY <2>3, <2>4, <2>5 DEF TicketSleepersOK
  <2>8. LockTypeOK' /\ CallsOK'
    BY <1>1, <1>6, <2>3, <2>4, <2>5 DEF CallsOK
  <2>9. QED
    BY <2>6, <2>7, <2>8
<1>23. QED
  BY <1>13, <1>14, <1>15, <1>16, <1>17, <1>18, <1>19, <1>20, <1>21, <1>22
     DEF TicketCall, TicketStep

(****************************************************************************)
(* The MCS locks of the C++ library: every step is a node step, and keeps   *)
(* NodeSleepersOK.                                                          *)
(****************************************************************************)
LEMMA TailHasNoNext ==
    ASSUME NodesOK, NEW t \in Threads, endOfQueue = t
    PROVE  nodeNext[t] = NULL
<1>1. PICK q \in Seq(Threads) : NodeQueueIs(q)
  BY DEF NodesOK
<1>2. Len(q) > 0 /\ q[Len(q)] = t
  BY <1>1, NullAssumption DEF NodeQueueIs
<1>3. QED
  BY <1>1, <1>2 DEF NodeQueueIs

(* A step of t that wakes nobody.                                           *)
LEMMA NodeSleepersStay ==
    ASSUME LockTypeOK, NodeSleepersOK, NEW t \in Threads,
           \A u \in Threads \ {t} :
              /\ pc'[u] = pc[u] /\ call'[u] = call[u]
              /\ predecessor'[u] = predecessor[u]
              /\ Stage(u) = "out" => nodeNext'[u] = nodeNext[u]
              /\ nodeLocked'[u] => nodeLocked[u] /\ nodeContended'[u] = nodeContended[u]
              /\ nodeLocked[u] /\ nodeContended[u] /\ ~nodeLocked'[u] =>
                    pc'[t] = "notify" /\ nodeNext'[t] = u,
           SameOthers(t), pc[t] # "notify",
           Stage(t)' = "out" /\ pc'[t] # "notify" => nodeNext'[t] = NULL,
           flag' => endOfQueue' # NULL,
           flag => flag' \/ (pc'[t] = "notify" /\ nodeNext'[t] = NULL),
           pc'[t] = "raise" => predecessor'[t] # NULL,
           pc'[t] \in SleepLabels /\ call'[t] = "lock" /\ nodeLocked'[t] => nodeContended'[t],
           pc'[t] = "asleep" /\ call'[t] = "lock" => nodeLocked'[t],
           pc'[t] = "asleep" /\ call'[t] = "tryWait" => flag'
    PROVE  NodeSleepersOK'
<1> USE DEF SleepLabels
<1>1. \A u \in Threads : pc[u] = "notify" => Stage(u) = "out" /\ u # t
  BY DEF Stage
<1>2. \A u \in Threads : Stage(u)' = "out" /\ pc'[u] # "notify" => nodeNext'[u] = NULL
  BY DEF NodeSleepersOK, SameOthers
<1>3. \A u \in Threads : pc'[u] = "raise" => predecessor'[u] # NULL
  BY DEF NodeSleepersOK
<1>4. \A u \in Threads : pc'[u] \in SleepLabels /\ call'[u] = "lock" /\ nodeLocked'[u] =>
          nodeContended'[u]
  BY DEF NodeSleepersOK
<1>5. ASSUME NEW u \in Threads, pc'[u] = "asleep", call'[u] = "lock", ~nodeLocked'[u]
      PROVE  \E v \in Threads : pc'[v] = "notify" /\ nodeNext'[v] = u
  <2>1. u # t /\ pc[u] = "asleep" /\ call[u] = "lock"
    BY <1>5
  <2>2. CASE nodeLocked[u]
    <3>1. nodeContended[u]
      BY <2>1, <2>2 DEF NodeSleepersOK
    <3>2. QED
      BY <1>5, <2>1, <2>2, <3>1
  <2>3. CASE ~nodeLocked[u]
    <3>1. PICK v \in Threads : pc[v] = "notify" /\ nodeNext[v] = u
      BY <2>1, <2>3 DEF NodeSleepersOK
    <3>2. pc'[v] = "notify" /\ nodeNext'[v] = u
      BY <1>1, <3>1
    <3>3. QED
      BY <3>2
  <2>4. QED
    BY <2>2, <2>3
<1>6. ASSUME NEW u \in Threads, pc'[u] = "asleep", call'[u] = "tryWait"
      PROVE  flag' \/ \E v \in Threads : pc'[v] = "notify" /\ nodeNext'[v] = NULL
  <2>1. CASE u = t
    BY <1>6, <2>1
  <2>2. CASE u # t /\ flag
    BY <2>2
  <2>3. CASE u # t /\ ~flag
    <3>1. PICK v \in Threads : pc[v] = "notify" /\ nodeNext[v] = NULL
      BY <1>6, <2>3 DEF NodeSleepersOK
    <3>2. pc'[v] = "notify" /\ nodeNext'[v] = NULL
      BY <1>1, <3>1
    <3>3. QED
      BY <3>2
  <2>4. QED
    BY <2>1, <2>2, <2>3
<1>7. QED
  BY <1>2, <1>3, <1>4, <1>5, <1>6 DEF NodeSleepersOK

(* A wake-up by t: by one that notifies, who forgets its successor, or by   *)
(* the holder.                                                              *)
LEMMA NodeSleepersWake ==
    ASSUME LockTypeOK, CallsOK, NodeSleepersOK, build.family = "mcs", UNCHANGED build,
           NEW t \in Threads, NEW S, NEW from, NEW to,
           FutexWake(t, from, to, S, [u \in Threads |-> MCSBack(u)]),
           \/ /\ from = "notify" /\ to = "idle"
              /\ nodeNext' = [nodeNext EXCEPT ![t] = NULL]
              /\ IF nodeNext[t] # NULL THEN nodeNext[t] \in S
                                        ELSE \A u \in Threads : call[u] = "tryWait" => u \in S
           \/ from = "critical" /\ to = "critical" /\ nodeNext' = nodeNext,
           UNCHANGED <<endOfQueue, nodeLocked, predecessor, flag, nodeContended>>
    PROVE  /\ pc' \in [Threads -> Labels.mcs] /\ call' = call
           /\ CallsOK' /\ NodeSleepersOK' /\ NodeStays
<1> USE DEF SleepLabels
<1>1. /\ pc[t] = from /\ pc'[t] = to /\ call' = call
      /\ \A u \in Threads \ {t} :
            pc'[u] = IF u \in S /\ pc[u] = "asleep" THEN MCSBack(u) ELSE pc[u]
      /\ \A u \in Threads \ {t} : nodeNext'[u] = nodeNext[u]
      /\ pc \in [Threads -> Labels.mcs]
  BY DEF FutexWake, LockTypeOK, Labels, MCSTypeOK
<1>2. ASSUME NEW u \in Threads
      PROVE  /\ pc'[u] \in Labels.mcs /\ CallFits(u)' /\ Stage(u)' = Stage(u)
             /\ pc'[u] = "raise" => pc[u] = "raise"
             /\ pc'[u] = "asleep" => pc[u] = "asleep" /\ u # t /\ u \notin S
             /\ pc'[u] \in SleepLabels => pc[u] \in SleepLabels /\ u # t
             /\ u # t => (pc'[u] = "notify" <=> pc[u] = "notify")
  <2>1. CallFits(u) /\ pc[u] \in Labels.mcs
    BY <1>1 DEF CallsOK
  <2>2. CASE u = t
    <3>1. pc'[u] = to /\ pc[u] = from /\ call'[u] = call[u]
      BY <1>1, <2>2
    <3>2. CASE from = "notify" /\ to = "idle"
      BY <2>1, <2>2, <3>1, <3>2 DEF CallFits, Stage, QueueLabels, MCSQueueLabels, Labels
    <3>3. CASE from = "critical" /\ to = "critical"
      BY <2>1, <3>1, <3>3 DEF CallFits, Stage
    <3>4. QED
      BY <3>2, <3>3
  <2>3. CASE u # t /\ u \in S /\ pc[u] = "asleep"
    <3>1. pc'[u] = (IF call[u] = "tryWait" THEN "idle" ELSE "sleep") /\ call'[u] = call[u]
      BY <1>1, <2>3 DEF MCSBack
    <3>2. call[u] \in {"lock", "tryWait"}
      BY <2>1, <2>3 DEF CallFits
    <3>3. CASE call[u] = "lock"
      BY <2>1, <2>3, <3>1, <3>3 DEF CallFits, Stage, QueueLabels, MCSQueueLabels, Labels
    <3>4. CASE call[u] = "tryWait"
      BY <2>1, <2>3, <3>1, <3>4 DEF CallFits, Stage, QueueLabels, MCSQueueLabels, Labels
    <3>5. QED
      BY <3>2, <3>3, <3>4
  <2>4. CASE u # t /\ ~(u \in S /\ pc[u] = "asleep")
    <3>1. pc'[u] = pc[u] /\ call'[u] = call[u]
      BY <1>1, <2>4
    <3>2. QED
      BY <2>1, <2>4, <3>1, SameLabelSameStage DEF CallFits
  <2>5. QED
    BY <2>2, <2>3, <2>4
<1>3. pc' \in [Threads -> Labels.mcs]
  BY <1>1, <1>2 DEF FutexWake
<1>4. NodeStays
  <2>1. \A u \in Threads : Stage(u) # "out" => nodeNext'[u] = nodeNext[u]
    BY <1>1 DEF Stage
  <2>2. QED
    BY <1>2, <2>1 DEF NodeStays, SameNodes
<1>5. \A u \in Threads : Stage(u)' = "out" /\ pc'[u] # "notify" => nodeNext'[u] = NULL
  <2>1. CASE from = "notify" /\ to = "idle"
    BY <1>1, <1>2, <2>1 DEF NodeSleepersOK, MCSTypeOK, LockTypeOK
  <2>2. CASE from = "critical" /\ to = "critical"
    BY <1>1, <1>2, <2>2 DEF NodeSleepersOK
  <2>3. QED
    BY <2>1, <2>2
<1>6. ASSUME NEW u \in Threads, pc'[u] = "asleep", call'[u] = "lock", ~nodeLocked'[u]
      PROVE  \E v \in Threads : pc'[v] = "notify" /\ nodeNext'[v] = u
  <2>1. pc[u] = "asleep" /\ call[u] = "lock" /\ ~nodeLocked[u] /\ u # t /\ u \notin S
    BY <1>1, <1>2, <1>6
  <2>2. PICK v \in Threads : pc[v] = "notify" /\ nodeNext[v] = u
    BY <2>1 DEF NodeSleepersOK
  <2>3. v # t
    BY <1>1, <2>1, <2>2, NullAssumption
  <2>4. QED
    BY <1>1, <1>2, <2>2, <2>3
<1>7. ASSUME NEW u \in Threads, pc'[u] = "asleep", call'[u] = "tryWait"
      PROVE  flag' \/ \E v \in Threads : pc'[v] = "notify" /\ nodeNext'[v] = NULL
  <2>1. pc[u] = "asleep" /\ call[u] = "tryWait" /\ u # t /\ u \notin S
    BY <1>1, <1>2, <1>7
  <2>2. CASE flag
    BY <2>2
  <2>3. CASE ~flag
    <3>1. PICK v \in Threads : pc[v] = "notify" /\ nodeNext[v] = NULL
      BY <2>1, <2>3 DEF NodeSleepersOK
    <3>2. v # t
      BY <1>1, <2>1, <3>1
    <3>3. QED
      BY <1>1, <1>2, <3>1, <3>2
  <2>4. QED
    BY <2>2, <2>3
<1>8. \A u \in Threads : pc'[u] \in SleepLabels /\ call'[u] = "lock" /\ nodeLocked'[u] =>
          nodeContended'[u]
  BY <1>1, <1>2 DEF NodeSleepersOK
<1>9. \A u \in Threads : pc'[u] = "raise" => predecessor'[u] # NULL
  BY <1>2 DEF NodeSleepersOK
<1>10. NodeSleepersOK'
  BY <1>5, <1>6, <1>7, <1>8, <1>9 DEF NodeSleepersOK
<1>11. QED
  BY <1>1, <1>2, <1>3, <1>4, <1>10 DEF CallsOK

LEMMA MCSFutexSteps ==
    ASSUME LockTypeOK, CallsOK, build.family = "mcs", UNCHANGED build, NodesOK, NodeSleepersOK,
           NEW t \in Threads, MCSFutexCall(t) \/ MCSFutexStep(t),
           UNCHANGED <<word, ticketFutexVars>>
    PROVE  LockTypeOK' /\ CallsOK' /\ NodeStep(t) /\ NodeSleepersOK'
<1> USE DEF SleepLabels
<1> DEFINE L == {"idle", "try", "raise", "take", "link", "spin", "critical", "lookFlag",
                 "swapOut", "again", "linked", "pass", "notify"} \cup SleepLabels
<1>1. /\ Labels[build.family] = L /\ Labels[build'.family] = L /\ build'.family = "mcs"
      /\ Labels.mcs = L
      /\ pc \in [Threads -> L] /\ call \in [Threads -> Calls] /\ MCSTypeOK
      /\ flag \in BOOLEAN /\ nodeContended \in [Threads -> BOOLEAN]
      /\ swapsFlag \in [Threads -> BOOLEAN]
  BY DEF LockTypeOK, Labels
<1>2. CallFits(t)
  BY DEF CallsOK
<1>3. \A u \in Threads : Stage(u) = "out" /\ pc[u] # "notify" => nodeNext[u] = NULL
  BY DEF NodeSleepersOK
<1> HIDE DEF L
<1>4. ASSUME pc' \in [Threads -> L], call' \in [Threads -> Calls], MCSTypeOK', flag' \in BOOLEAN,
             nodeContended' \in [Threads -> BOOLEAN], swapsFlag' \in [Threads -> BOOLEAN]
      PROVE  LockTypeOK'
  BY <1>1, <1>4 DEF LockTypeOK, ticketFutexVars
<1>5. ASSUME \A u \in Threads \ {t} : pc'[u] = pc[u] /\ call'[u] = call[u],
             pc'[t] \in {"take", "link", "spin", "critical"} => call'[t] = "lock",
             pc'[t] = "try" => call'[t] \in {"try", "tryWait"},
             pc'[t] = "raise" => call'[t] = "tryWait",
             pc'[t] \in SleepLabels => call'[t] \in {"lock", "tryWait"},
             pc'[t] \in L
      PROVE  CallsOK'
  <2>1. CallFits(t)'
    BY <1>1, <1>5 DEF CallFits, QueueLabels, MCSQueueLabels, L
  <2>2. QED
    BY <1>1, <1>5, <2>1 DEF CallsOK, CallFits
<1>6. ASSUME Stage(t)' = Stage(t), SameOthers(t), UNCHANGED <<endOfQueue, nodeLocked>>,
             nodeNext' = nodeNext, \A u \in Threads \ {t} : predecessor'[u] = predecessor[u],
             Stage(t) \in {"take", "link"} => predecessor'[t] = predecessor[t]
      PROVE  NodeStep(t)
  BY <1>6 DEF SameOthers, NodeStep, NodeStays, SameNodes
<1>7. CASE Queues(t)
  <2> DEFINE to == IF endOfQueue = NULL THEN "critical" ELSE "take"
  <2>1. to \in L /\ "lock" \in Calls
    BY DEF L, Calls
  <2>2. Begin(t, "lock", to)
    BY <1>7 DEF Queues
  <2>3. /\ predecessor' = [predecessor EXCEPT ![t] = endOfQueue] /\ endOfQueue' = t
        /\ UNCHANGED <<flag, nodeNext, nodeLocked, nodeContended, swapsFlag>>
    BY <1>7 DEF Queues
  <2> HIDE DEF to
  <2>4. /\ pc[t] = "idle" /\ pc'[t] = to /\ call'[t] = "lock"
        /\ pc' \in [Threads -> L] /\ call' \in [Threads -> Calls]
        /\ \A u \in Threads \ {t} : pc'[u] = pc[u] /\ call'[u] = call[u]
        /\ SameOthers(t)
    BY <1>1, <2>1, <2>2, BeginMoves
  <2>5. Stage(t) = "out" /\ Stage(t)' = IF endOfQueue = NULL THEN "inside" ELSE "take"
    BY <2>4 DEF Stage, to
  <2>6. MCSTypeOK' /\ \A u \in Threads \ {t} : predecessor'[u] = predecessor[u]
    BY <1>1, <2>3 DEF MCSTypeOK
  <2>7. NodeSwaps(t)
    BY <1>3, <2>3, <2>4, <2>5 DEF NodeSwaps
  <2>8. NodeSleepersOK'
    BY <2>3, <2>4, <2>5, <2>6, NodeSleepersStay, NullAssumption DEF to
  <2>9. QED
    BY <1>1, <1>4, <1>5, <2>1, <2>3, <2>4, <2>6, <2>7, <2>8 DEF NodeStep, to
<1>8. CASE Links(t)
  <2>1. CASE Continue(t, "take", "link")
    <3>1. "link" \in L
      BY DEF L
    <3>2. /\ pc[t] = "take" /\ pc'[t] = "link" /\ call'[t] = call[t]
          /\ pc' \in [Threads -> L] /\ call' \in [Threads -> Calls]
          /\ \A u \in Threads \ {t} : pc'[u] = pc[u] /\ call'[u] = call[u]
          /\ SameOthers(t)
      BY <1>1, <2>1, <3>1, ContinueMoves
    <3>3. /\ nodeLocked' = [nodeLocked EXCEPT ![t] = TRUE]
          /\ nodeContended' = [nodeContended EXCEPT ![t] = FALSE]
          /\ UNCHANGED <<endOfQueue, nodeNext, predecessor, flag, swapsFlag>>
      BY <1>8, <3>2 DEF Links, Continue, Move
    <3>4. Stage(t) = "take" /\ Stage(t)' = "link" /\ call[t] = "lock"
      BY <1>2, <3>2 DEF Stage, CallFits, QueueLabels
    <3>5. /\ MCSTypeOK' /\ nodeContended' \in [Threads -> BOOLEAN]
          /\ \A u \in Threads \ {t} : nodeLocked'[u] = nodeLocked[u]
                                      /\ nodeContended'[u] = nodeContended[u]
      BY <1>1, <3>3 DEF MCSTypeOK
    <3>6. NodeStep(t)
      BY <3>2, <3>3, <3>4 DEF NodeStep, NodeLinks
    <3>7. NodeSleepersOK'
      <4>1. flag' => endOfQueue' # NULL
        BY <3>3 DEF NodeSleepersOK
      <4>2. \A u \in Threads \ {t} : nodeNext'[u] = nodeNext[u] /\ predecessor'[u] = predecessor[u]
        BY <3>3
      <4>3. QED
        BY <3>2, <3>3, <3>4, <3>5, <4>1, <4>2, NodeSleepersStay
    <3>8. QED
      BY <1>1, <1>4, <1>5, <3>1, <3>2, <3>3, <3>4, <3>5, <3>6, <3>7
  <2>2. CASE Continue(t, "link", "spin")
    <3>1. "spin" \in L
      BY DEF L
    <3>2. /\ pc[t] = "link" /\ pc'[t] = "spin" /\ call'[t] = call[t]
          /\ pc' \in [Threads -> L] /\ call' \in [Threads -> Calls]
          /\ \A u \in Threads \ {t} : pc'[u] = pc[u] /\ call'[u] = call[u]
          /\ SameOthers(t)
      BY <1>1, <2>2, <3>1, ContinueMoves
    <3>3. /\ nodeNext' = [nodeNext EXCEPT ![predecessor[t]] = t]
          /\ predecessor' = [predecessor EXCEPT ![t] = NULL]
          /\ UNCHANGED <<endOfQueue, nodeLocked, nodeContended, flag, swapsFlag>>
      BY <1>8, <3>2 DEF Links, Continue, Move
    <3>4. Stage(t) = "link" /\ Stage(t)' = "wait" /\ call[t] = "lock"
      BY <1>2, <3>2 DEF Stage, CallFits, QueueLabels
    <3>5. MCSTypeOK' /\ \A u \in Threads \ {t} : predecessor'[u] = predecessor[u]
      BY <1>1, <3>3 DEF MCSTypeOK
    <3>6. NodeLinks(t)
      BY <3>2, <3>3, <3>4, <3>5 DEF NodeLinks
    <3>7. \A u \in Threads : Stage(u) = "out" => nodeNext'[u] = nodeNext[u]
      BY <1>1, <3>6, QueueLinks DEF NodesOK
    <3>8. NodeSleepersOK'
      BY <3>2, <3>3, <3>4, <3>5, <3>7, NodeSleepersStay DEF NodeSleepersOK
    <3>9. QED
      BY <1>1, <1>4, <1>5, <3>1, <3>2, <3>3, <3>4, <3>5, <3>6, <3>8 DEF NodeStep
  <2>3. QED
    BY <1>8, <2>1, <2>2 DEF Links
<1>9. CASE SpinEnds(t)
  <2>1. "critical" \in L
    BY DEF L
  <2>2. /\ pc[t] = "spin" /\ pc'[t] = "critical" /\ call'[t] = "lock"
        /\ pc' \in [Threads -> L] /\ call' \in [Threads -> Calls]
        /\ \A u \in Threads \ {t} : pc'[u] = pc[u] /\ call'[u] = call[u]
        /\ SameOthers(t)
    BY <1>1, <1>9, <2>1, ContinueMoves DEF SpinEnds
  <2>3. ~nodeLocked[t] /\ UNCHANGED <<endOfQueue, nodeNext, nodeLocked, predecessor>>
        /\ UNCHANGED <<flag, nodeContended, swapsFlag>>
    BY <1>9 DEF SpinEnds, mcsFutexVars, mcsVars
  <2>4. Stage(t) = "wait" /\ Stage(t)' = "inside" /\ MCSTypeOK'
    BY <1>1, <2>2, <2>3 DEF Stage, MCSTypeOK
  <2>5. NodeStep(t)
    BY <2>2, <2>3, <2>4 DEF NodeStep, NodeEnters, SameNodes
  <2>6. NodeSleepersOK'
    BY <2>2, <2>3, <2>4, NodeSleepersStay DEF NodeSleepersOK
  <2>7. QED
    BY <1>1, <1>4, <1>5, <2>1, <2>2, <2>3, <2>4, <2>5, <2>6
<1>10. CASE SpinGivesUp(t)
  <2>1. "sleep" \in L
    BY DEF L
  <2>2. /\ pc[t] = "spin" /\ pc'[t] = "sleep" /\ call'[t] = call[t]
        /\ pc' \in [Threads -> L] /\ call' \in [Threads -> Calls]
        /\ \A u \in Threads \ {t} : pc'[u] = pc[u] /\ call'[u] = call[u]
        /\ SameOthers(t)
    BY <1>1, <1>10, <2>1, ContinueMoves DEF SpinGivesUp
  <2>3. /\ nodeContended' = [nodeContended EXCEPT ![t] = TRUE]
        /\ UNCHANGED <<endOfQueue, nodeNext, nodeLocked, predecessor, flag, swapsFlag>>
    BY <1>10 DEF SpinGivesUp, mcsVars
  <2>4. call[t] = "lock"
    BY <1>2, <2>2 DEF CallFits, QueueLabels
  <2>5. /\ Stage(t) = "wait" /\ Stage(t)' = "wait" /\ MCSTypeOK'
        /\ nodeContended' \in [Threads -> BOOLEAN] /\ nodeContended'[t]
        /\ \A u \in Threads \ {t} : nodeContended'[u] = nodeContended[u]
    BY <1>1, <2>2, <2>3, <2>4 DEF Stage, MCSTypeOK
  <2>6. NodeStep(t)
    BY <1>6, <2>2, <2>3, <2>5
  <2>7. NodeSleepersOK'
    BY <2>2, <2>3, <2>4, <2>5, NodeSleepersStay DEF NodeSleepersOK
  <2>8. QED
    BY <1>1, <1>4, <1>5, <2>1, <2>2, <2>3, <2>4, <2>5, <2>6, <2>7
<1>11. CASE Tries(t)
  <2> DEFINE to == IF endOfQueue = NULL THEN "try" ELSE "idle"
  <2>1. to \in L /\ to \in {"try", "idle"} /\ "try" \in Calls
    BY DEF L, Calls
  <2>2. Begin(t, "try", to)
    BY <1>11 DEF Tries
  <2>3. UNCHANGED <<endOfQueue, nodeNext, nodeLocked, predecessor>>
        /\ UNCHANGED <<flag, nodeContended, swapsFlag>>
    BY <1>11 DEF Tries, mcsFutexVars, mcsVars
  <2> HIDE DEF to
  <2>4. /\ pc[t] = "idle" /\ pc'[t] = to /\ call'[t] = "try"
        /\ pc' \in [Threads -> L] /\ call' \in [Threads -> Calls]
        /\ \A u \in Threads \ {t} : pc'[u] = pc[u] /\ call'[u] = call[u]
        /\ SameOthers(t)
    BY <1>1, <2>1, <2>2, BeginMoves
  <2>5. Stage(t) = "out" /\ Stage(t)' = "out" /\ MCSTypeOK'
    BY <1>1, <2>1, <2>3, <2>4 DEF Stage, MCSTypeOK
  <2>6. NodeStep(t)
    BY <1>6, <2>3, <2>4, <2>5
  <2>7. NodeSleepersOK'
    BY <1>3, <2>1, <2>3, <2>4, <2>5, NodeSleepersStay DEF NodeSleepersOK
  <2>8. QED
    BY <1>1, <1>4, <1>5, <2>1, <2>3, <2>4, <2>5, <2>6, <2>7
<1>12. TryLoop \in L /\ TryLoop \in {"sleep", "try", "raise"}
       /\ (TryLoop = "raise" => endOfQueue # NULL)
  BY DEF TryLoop, L
<1>13. CASE TriesOrWaits(t)
  <2>1. Begin(t, "tryWait", TryLoop) /\ "tryWait" \in Calls
    BY <1>13 DEF TriesOrWaits, Calls
  <2>2. /\ predecessor' = [predecessor EXCEPT ![t] = endOfQueue]
        /\ UNCHANGED <<endOfQueue, flag, nodeNext, nodeLocked, nodeContended, swapsFlag>>
    BY <1>13 DEF TriesOrWaits
  <2>3. /\ pc[t] = "idle" /\ pc'[t] = TryLoop /\ call'[t] = "tryWait"
        /\ pc' \in [Threads -> L] /\ call' \in [Threads -> Calls]
        /\ \A u \in Threads \ {t} : pc'[u] = pc[u] /\ call'[u] = call[u]
        /\ SameOthers(t)
    BY <1>1, <1>12, <2>1, BeginMoves
  <2>4. Stage(t) = "out" /\ Stage(t)' = "out"
    BY <1>12, <2>3 DEF Stage
  <2>5. /\ MCSTypeOK' /\ predecessor'[t] = endOfQueue
        /\ \A u \in Threads \ {t} : predecessor'[u] = predecessor[u]
    BY <1>1, <2>2 DEF MCSTypeOK
  <2>6. NodeStep(t)
    BY <1>6, <2>2, <2>3, <2>4, <2>5
  <2>7. NodeSleepersOK'
    BY <1>3, <1>12, <2>2, <2>3, <2>4, <2>5, NodeSleepersStay DEF NodeSleepersOK
  <2>8. QED
    BY <1>1, <1>4, <1>5, <1>12, <2>2, <2>3, <2>4, <2>5, <2>6, <2>7
<1>14. CASE TrySwaps(t)
  <2> DEFINE to == IF endOfQueue = NULL THEN "critical"
                   ELSE IF call[t] = "try" THEN "idle" ELSE TryLoop
             back == IF endOfQueue = NULL \/ call[t] = "try" THEN NULL
                     ELSE IF flag THEN predecessor[t] ELSE endOfQueue
  <2>1. /\ to \in L /\ to \in {"critical", "idle", "sleep", "try", "raise"}
        /\ to = "critical" <=> endOfQueue = NULL
        /\ to = "raise" => back = endOfQueue /\ endOfQueue # NULL
        /\ to \in {"sleep", "try", "raise"} => call[t] # "try"
    BY <1>12 DEF L, TryLoop
  <2>2. Continue(t, "try", to)
    BY <1>14 DEF TrySwaps
  <2>3. /\ endOfQueue' = IF endOfQueue = NULL THEN t ELSE endOfQueue
        /\ predecessor' = [predecessor EXCEPT ![t] = back]
        /\ UNCHANGED <<flag, nodeNext, nodeLocked, nodeContended, swapsFlag>>
    BY <1>14 DEF TrySwaps
  <2>4. back \in Threads \cup {NULL} /\ (endOfQueue = NULL => back = endOfQueue)
    BY <1>1 DEF MCSTypeOK
  <2> HIDE DEF to, back
  <2>5. /\ pc[t] = "try" /\ pc'[t] = to
        /\ call'[t] = IF to \in {"idle", "critical"} THEN "lock" ELSE call[t]
        /\ pc' \in [Threads -> L] /\ call' \in [Threads -> Calls]
        /\ \A u \in Threads \ {t} : pc'[u] = pc[u] /\ call'[u] = call[u]
        /\ SameOthers(t)
    BY <1>1, <2>1, <2>2, ContinueMoves
  <2>6. call[t] \in {"try", "tryWait"}
    BY <1>2, <2>5 DEF CallFits
  <2>7. Stage(t) = "out" /\ Stage(t)' = IF endOfQueue = NULL THEN "inside" ELSE "out"
    BY <2>1, <2>5, <2>6 DEF Stage
  <2>8. /\ MCSTypeOK' /\ predecessor'[t] = back
        /\ \A u \in Threads \ {t} : predecessor'[u] = predecessor[u]
    BY <1>1, <2>3, <2>4 DEF MCSTypeOK
  <2>9. NodeStep(t)
    <3>1. CASE endOfQueue = NULL
      BY <1>3, <2>3, <2>4, <2>5, <2>7, <3>1 DEF NodeStep, NodeSwaps
    <3>2. CASE endOfQueue # NULL
      BY <1>6, <2>3, <2>5, <2>7, <2>8, <3>2
    <3>3. QED
      BY <3>1, <3>2
  <2>10. NodeSleepersOK'
    <3>1. /\ endOfQueue' # NULL /\ nodeNext[t] = NULL
          /\ \A u \in Threads \ {t} : nodeNext'[u] = nodeNext[u]
      BY <1>3, <2>3, <2>5, <2>7, NullAssumption
    <3>2. pc'[t] = "raise" => predecessor'[t] # NULL
      BY <2>1, <2>5, <2>8
    <3>3. pc'[t] \in SleepLabels => call'[t] # "lock" /\ pc'[t] # "asleep"
      BY <2>1, <2>5, <2>6
    <3>4. QED
      BY <2>3, <2>5, <2>8, <3>1, <3>2, <3>3, NodeSleepersStay
  <2>11. QED
    BY <1>1, <1>4, <1>5, <2>1, <2>3, <2>5, <2>6, <2>8, <2>9, <2>10
<1>15. CASE Raises(t)
  <2>1. PICK to \in {"sleep", "try", "raise"} :
           /\ Continue(t, "raise", to)
           /\ to = "raise" => endOfQueue # NULL /\ predecessor' = [predecessor EXCEPT ![t] = endOfQueue]
    BY <1>12, <1>15 DEF Raises
  <2>2. /\ \/ predecessor' = predecessor
           \/ predecessor' = [predecessor EXCEPT ![t] =
                                 IF TryLoop = "raise" THEN endOfQueue ELSE predecessor[t]]
        /\ UNCHANGED <<endOfQueue, nodeNext, nodeLocked, nodeContended, swapsFlag>>
    BY <1>15 DEF Raises
  <2>3. to \in L
    BY DEF L
  <2>4. /\ pc[t] = "raise" /\ pc'[t] = to /\ call'[t] = call[t]
        /\ pc' \in [Threads -> L] /\ call' \in [Threads -> Calls]
        /\ \A u \in Threads \ {t} : pc'[u] = pc[u] /\ call'[u] = call[u]
        /\ SameOthers(t)
    BY <1>1, <2>1, <2>3, ContinueMoves
  <2>5. call[t] = "tryWait" /\ predecessor[t] # NULL
    BY <1>2, <2>4 DEF CallFits, NodeSleepersOK
  <2>6. flag' \in BOOLEAN /\ (flag => flag') /\ (flag' => endOfQueue' # NULL)
    <3>1. flag => endOfQueue # NULL
      BY DEF NodeSleepersOK
    <3>2. \/ endOfQueue = predecessor[t] /\ flag' = TRUE
          \/ flag' = flag
      BY <1>15 DEF Raises
    <3>3. endOfQueue' = endOfQueue
      BY <2>2
    <3>4. CASE endOfQueue = predecessor[t] /\ flag' = TRUE
      BY <2>5, <3>3, <3>4
    <3>5. CASE flag' = flag
      BY <1>1, <3>1, <3>3, <3>5
    <3>6. QED
      BY <3>2, <3>4, <3>5
  <2>7. Stage(t) = "out" /\ Stage(t)' = "out"
    BY <2>1, <2>4, <2>5 DEF Stage
  <2>8. /\ MCSTypeOK' /\ \A u \in Threads \ {t} : predecessor'[u] = predecessor[u]
        /\ pc'[t] = "raise" => predecessor'[t] # NULL
    BY <1>1, <2>1, <2>2, <2>4 DEF MCSTypeOK
  <2>9. NodeStep(t)
    BY <1>6, <2>2, <2>4, <2>7, <2>8
  <2>10. NodeSleepersOK'
    BY <1>3, <2>1, <2>2, <2>4, <2>5, <2>6, <2>7, <2>8, NodeSleepersStay
  <2>11. QED
    BY <1>1, <1>4, <1>5, <2>1, <2>2, <2>3, <2>4, <2>5, <2>6, <2>8, <2>9, <2>10
<1>16. CASE Sleeps(t)
  <2>1. PICK to \in {"asleep", "idle", "critical"} :
           /\ Continue(t, "sleep", to)
           /\ IF call[t] = "tryWait"
              THEN to = IF endOfQueue = predecessor[t] /\ flag THEN "asleep" ELSE "idle"
              ELSE to = IF nodeLocked[t] THEN "asleep" ELSE "critical"
    BY <1>16 DEF Sleeps, FutexWait
  <2>2. /\ predecessor' = [predecessor EXCEPT ![t] = NULL]
        /\ UNCHANGED <<endOfQueue, flag, nodeNext, nodeLocked, nodeContended, swapsFlag>>
    BY <1>16 DEF Sleeps
  <2>3. to \in L
    BY DEF L
  <2>4. /\ pc[t] = "sleep" /\ pc'[t] = to
        /\ call'[t] = IF to \in {"idle", "critical"} THEN "lock" ELSE call[t]
        /\ pc' \in [Threads -> L] /\ call' \in [Threads -> Calls]
        /\ \A u \in Threads \ {t} : pc'[u] = pc[u] /\ call'[u] = call[u]
        /\ SameOthers(t)
    BY <1>1, <2>1, <2>3, ContinueMoves
  <2>5. call[t] \in {"lock", "tryWait"}
    BY <1>2, <2>4 DEF CallFits
  <2>6. IF call[t] = "tryWait" THEN Stage(t) = "out" /\ Stage(t)' = "out"
        ELSE Stage(t) = "wait" /\ Stage(t)' = IF nodeLocked[t] THEN "wait" ELSE "inside"
    BY <2>1, <2>4, <2>5 DEF Stage
  <2>7. MCSTypeOK' /\ \A u \in Threads \ {t} : predecessor'[u] = predecessor[u]
    BY <1>1, <2>2 DEF MCSTypeOK
  <2>8. NodeStep(t)
    <3>1. CASE Stage(t)' = Stage(t)
      BY <1>6, <2>2, <2>4, <2>6, <2>7, <3>1
    <3>2. CASE Stage(t)' # Stage(t)
      <4>1. Stage(t) = "wait" /\ Stage(t)' = "inside" /\ ~nodeLocked[t]
        BY <2>6, <3>2
      <4>2. \A u \in Threads : Stage(u) \in {"take", "link"} => predecessor'[u] = predecessor[u]
        BY <2>7, <4>1
      <4>3. QED
        BY <2>2, <2>4, <4>1, <4>2 DEF NodeStep, NodeEnters, SameNodes
    <3>3. QED
      BY <3>1, <3>2
  <2>9. NodeSleepersOK'
    <3>1. flag' => endOfQueue' # NULL
      BY <2>2 DEF NodeSleepersOK
    <3>2. Stage(t)' = "out" => nodeNext'[t] = NULL
      BY <1>3, <2>2, <2>4, <2>6
    <3>3. /\ pc'[t] \in SleepLabels /\ call'[t] = "lock" /\ nodeLocked'[t] => nodeContended'[t]
          /\ pc'[t] = "asleep" /\ call'[t] = "lock" => nodeLocked'[t]
          /\ pc'[t] = "asleep" /\ call'[t] = "tryWait" => flag'
          /\ pc'[t] # "raise"
      BY <2>1, <2>2, <2>4 DEF NodeSleepersOK
    <3>4. QED
      BY <2>2, <2>4, <2>7, <3>1, <3>2, <3>3, NodeSleepersStay
  <2>10. QED
    BY <1>1, <1>4, <1>5, <2>1, <2>2, <2>3, <2>4, <2>5, <2>7, <2>8, <2>9
\* The steps of unlock() that leave the words of the lock alone.
<1>17. ASSUME NEW from, NEW to \in L, Continue(t, from, to),
              from \in {"critical", "again", "lookFlag", "swapOut", "linked"},
              to \in {"lookFlag", "swapOut", "again", "linked", "pass"},
              to = "pass" => nodeNext[t] # NULL, to = "linked" => endOfQueue # t,
              UNCHANGED <<endOfQueue, nodeNext, nodeLocked, predecessor, flag, nodeContended>>,
              swapsFlag' \in [Threads -> BOOLEAN]
       PROVE  LockTypeOK' /\ CallsOK' /\ NodeStep(t) /\ NodeSleepersOK'
  <2>1. /\ pc[t] = from /\ pc'[t] = to
        /\ pc' \in [Threads -> L] /\ call' \in [Threads -> Calls]
        /\ \A u \in Threads \ {t} : pc'[u] = pc[u] /\ call'[u] = call[u]
        /\ SameOthers(t)
    BY <1>1, <1>17, ContinueMoves
  <2>2. /\ Stage(t) \in OwnerStages /\ Stage(t)' \in UnlockStages
        /\ Stage(t)' = "pass" => to = "pass"
        /\ Stage(t)' = "linked" => to = "linked"
    BY <1>17, <2>1 DEF Stage
  <2>3. NodeStep(t)
    BY <1>17, <2>1, <2>2 DEF NodeStep, NodeLooks, SameNodes
  <2>4. NodeSleepersOK'
    <3>1. flag' => endOfQueue' # NULL
      BY <1>17 DEF NodeSleepersOK
    <3>2. QED
      BY <1>17, <2>1, <2>2, <3>1, NodeSleepersStay
  <2>5. MCSTypeOK'
    BY <1>1, <1>17 DEF MCSTypeOK
  <2>6. QED
    BY <1>1, <1>4, <1>5, <1>17, <2>1, <2>3, <2>4, <2>5
<1>18. CASE LooksForNext(t)
  <2>1. PICK from \in {"critical", "again"} :
           Continue(t, from, IF nodeNext[t] = NULL THEN "lookFlag" ELSE "pass")
    BY <1>18 DEF LooksForNext
  <2>2. (IF nodeNext[t] = NULL THEN "lookFlag" ELSE "pass") \in L
    BY DEF L
  <2>3. UNCHANGED <<endOfQueue, nodeNext, nodeLocked, predecessor, flag, nodeContended, swapsFlag>>
    BY <1>18 DEF LooksForNext, mcsFutexVars, mcsVars
  <2>4. QED
    BY <1>1, <1>17, <2>1, <2>2, <2>3
<1>19. CASE LooksForFlag(t)
  <2>1. Continue(t, "lookFlag", "swapOut") /\ "swapOut" \in L
    BY <1>19 DEF LooksForFlag, L
  <2>2. /\ UNCHANGED <<endOfQueue, nodeNext, nodeLocked, predecessor, flag, nodeContended>>
        /\ swapsFlag' \in [Threads -> BOOLEAN]
    BY <1>1, <1>19 DEF LooksForFlag, mcsVars
  <2>3. QED
    BY <1>17, <2>1, <2>2
<1>20. CASE IsLinked(t)
  <2>1. Continue(t, "linked", "pass") /\ nodeNext[t] # NULL /\ "pass" \in L
    BY <1>20 DEF IsLinked, L
  <2>2. UNCHANGED <<endOfQueue, nodeNext, nodeLocked, predecessor, flag, nodeContended, swapsFlag>>
    BY <1>20 DEF IsLinked, mcsFutexVars, mcsVars
  <2>3. QED
    BY <1>1, <1>17, <2>1, <2>2
<1>21. CASE SwapsOut(t)
  <2>1. /\ swapsFlag' \in [Threads -> BOOLEAN]
        /\ UNCHANGED <<nodeNext, nodeLocked, predecessor, nodeContended>>
    BY <1>1, <1>21 DEF SwapsOut
  <2>2. CASE ~(endOfQueue = t /\ flag = swapsFlag[t])
    <3> DEFINE to == IF endOfQueue # t THEN "linked" ELSE "again"
    <3>1. Continue(t, "swapOut", to) /\ endOfQueue' = endOfQueue /\ flag' = flag
      BY <1>1, <1>21, <2>2 DEF SwapsOut
    <3>2. to \in L /\ to \in {"linked", "again"} /\ (to = "linked" => endOfQueue # t)
      BY DEF L
    <3> HIDE DEF to
    <3>3. QED
      BY <1>17, <2>1, <3>1, <3>2
  <2>3. CASE endOfQueue = t /\ flag = swapsFlag[t]
    <3> DEFINE to == IF flag THEN "notify" ELSE "idle"
    <3>1. Continue(t, "swapOut", to) /\ endOfQueue' = NULL /\ flag' = FALSE
      BY <1>21, <2>3 DEF SwapsOut
    <3>2. to \in L /\ to \in {"notify", "idle"} /\ (flag => to = "notify")
      BY DEF L
    <3> HIDE DEF to
    <3>3. /\ pc[t] = "swapOut" /\ pc'[t] = to
          /\ pc' \in [Threads -> L] /\ call' \in [Threads -> Calls]
          /\ \A u \in Threads \ {t} : pc'[u] = pc[u] /\ call'[u] = call[u]
          /\ SameOthers(t)
      BY <1>1, <3>1, <3>2, ContinueMoves
    <3>4. Stage(t) = "leaving" /\ Stage(t)' = "out" /\ MCSTypeOK'
      BY <1>1, <2>1, <3>1, <3>2, <3>3 DEF Stage, MCSTypeOK
    <3>5. NodeStep(t)
      BY <2>3, <3>1, <3>3, <3>4 DEF NodeStep, NodeEmpties
    <3>6. nodeNext[t] = NULL
      BY <2>3, TailHasNoNext
    <3>7. NodeSleepersOK'
      BY <2>1, <3>1, <3>2, <3>3, <3>6, NodeSleepersStay
    <3>8. QED
      BY <1>1, <1>4, <1>5, <2>1, <3>1, <3>2, <3>3, <3>4, <3>5, <3>7
  <2>4. QED
    BY <2>2, <2>3
<1>22. CASE Passes(t)
  <2> DEFINE sleeps == nodeContended[nodeNext[t]]
             to == IF sleeps THEN "notify" ELSE "idle"
  <2>1. /\ Continue(t, "pass", to)
        /\ nodeLocked' = [nodeLocked EXCEPT ![nodeNext[t]] = FALSE]
        /\ nodeContended' = [nodeContended EXCEPT ![nodeNext[t]] = FALSE]
        /\ nodeNext' = IF sleeps THEN nodeNext ELSE [nodeNext EXCEPT ![t] = NULL]
        /\ UNCHANGED <<endOfQueue, predecessor, flag, swapsFlag>>
    BY <1>22 DEF Passes
  <2>2. to \in L /\ to \in {"notify", "idle"} /\ (to = "notify" <=> sleeps)
    BY DEF L
  <2> HIDE DEF to
  <2>3. /\ pc[t] = "pass" /\ pc'[t] = to
        /\ pc' \in [Threads -> L] /\ call' \in [Threads -> Calls]
        /\ \A u \in Threads \ {t} : pc'[u] = pc[u] /\ call'[u] = call[u]
        /\ SameOthers(t)
    BY <1>1, <2>1, <2>2, ContinueMoves
  <2>4. Stage(t) = "pass" /\ Stage(t)' = "out"
    BY <2>2, <2>3 DEF Stage
  <2>5. /\ MCSTypeOK' /\ nodeContended' \in [Threads -> BOOLEAN]
        /\ \A u \in Threads \ {t} : nodeNext'[u] = nodeNext[u]
        /\ ~sleeps => nodeNext'[t] = NULL
    BY <1>1, <2>1 DEF MCSTypeOK
  <2>6. NodeStep(t)
    BY <2>1, <2>3, <2>4, <2>5 DEF NodeStep, NodePasses
  <2>7. ASSUME NEW u \in Threads
        PROVE  /\ nodeLocked'[u] => nodeLocked[u] /\ nodeContended'[u] = nodeContended[u]
               /\ nodeContended[u] /\ nodeLocked[u] /\ ~nodeLocked'[u] =>
                     pc'[t] = "notify" /\ nodeNext'[t] = u
    <3>1. CASE u = nodeNext[t]
      BY <1>1, <2>1, <2>2, <2>3, <3>1 DEF MCSTypeOK
    <3>2. CASE u # nodeNext[t]
      BY <1>1, <2>1, <3>2 DEF MCSTypeOK
    <3>3. QED
      BY <3>1, <3>2
  <2>8. NodeSleepersOK'
    <3>1. flag' => endOfQueue' # NULL
      BY <2>1 DEF NodeSleepersOK
    <3>2. QED
      BY <2>1, <2>2, <2>3, <2>5, <2>7, <3>1, NodeSleepersStay
  <2>9. QED
    BY <1>1, <1>4, <1>5, <2>1, <2>2, <2>3, <2>5, <2>6, <2>8
<1>23. CASE Notifies(t)
  <2> DEFINE S == IF nodeNext[t] # NULL THEN {nodeNext[t]}
                                        ELSE {u \in Threads : call[u] = "tryWait"}
  <2>1. FutexWake(t, "notify", "idle", S, [u \in Threads |-> MCSBack(u)])
    BY <1>23 DEF Notifies
  <2>2. IF nodeNext[t] # NULL THEN nodeNext[t] \in S
                              ELSE \A u \in Threads : call[u] = "tryWait" => u \in S
    OBVIOUS
  <2>3. /\ nodeNext' = [nodeNext EXCEPT ![t] = NULL]
        /\ UNCHANGED <<endOfQueue, nodeLocked, predecessor, flag, nodeContended, swapsFlag>>
    BY <1>23 DEF Notifies
  <2> HIDE DEF S
  <2>4. pc' \in [Threads -> L] /\ call' = call /\ CallsOK' /\ NodeSleepersOK' /\ NodeStays
    BY <1>1, <2>1, <2>2, <2>3, NodeSleepersWake
  <2>5. MCSTypeOK'
    BY <1>1, <2>3 DEF MCSTypeOK
  <2>6. QED
    BY <1>1, <1>4, <2>3, <2>4, <2>5 DEF NodeStep
<1>24. CASE Wakes(t)
  <2>1. /\ FutexWake(t, "critical", "critical", {u \in Threads : call[u] = "tryWait"},
                     [u \in Threads |-> MCSBack(u)])
        /\ UNCHANGED <<endOfQueue, nodeNext, nodeLocked, predecessor, flag, nodeContended, swapsFlag>>
    BY <1>24 DEF Wakes, mcsFutexVars, mcsVars
  <2>2. pc' \in [Threads -> L] /\ call' = call /\ CallsOK' /\ NodeSleepersOK' /\ NodeStays
    BY <1>1, <2>1, NodeSleepersWake
  <2>3. MCSTypeOK'
    BY <1>1, <2>1 DEF MCSTypeOK
  <2>4. QED
    BY <1>1, <1>4, <2>1, <2>2, <2>3 DEF NodeStep
<1>25. QED
  BY <1>7, <1>8, <1>9, <1>10, <1>11, <1>13, <1>14, <1>15, <1>16, <1>18, <1>19, <1>20, <1>21,
     <1>22, <1>23, <1>24 DEF MCSFutexCall, MCSFutexStep

(****************************************************************************)
(* The invariant.                                                           *)
(****************************************************************************)
LEMMA StagesOfLabelsNext == LockTypeOK' /\ NodeFamily' => StagesTell'
BY StagesOfLabels, PTL

LEMMA InitIInv == Init => IInv
<1> SUFFICES ASSUME Init PROVE IInv
  OBVIOUS
<1> USE DEF Init, FutexInit, MCSInit, MCSFutexInit, TicketFutexInit
<1>1. build \in Locks /\ build.family \in {"mcslock", "futex", "mcs", "ticket"}
  BY DEF Locks, mcslock, futex_lock, flock, mcs_lock, mcs_futex_lock, ticket_futex_lock
<1>2. pc \in [Threads -> Labels[build.family]]
  BY <1>1 DEF Labels
<1>3. LockTypeOK
  <2>1. 0 \in 0 .. TicketLimit /\ <<0, FALSE>> \in (0 .. TicketLimit) \X BOOLEAN
    <3>1. 0 \in 0 .. TicketLimit
      BY TicketLimitAssumption
    <3>2. QED
      BY <3>1
  <2>2. num \in [Threads -> 0 .. TicketLimit] /\ seen \in [Threads -> (0 .. TicketLimit) \X BOOLEAN]
    BY <2>1
  <2>3. MCSTypeOK
    BY DEF MCSTypeOK
  <2>4. call \in [Threads -> Calls]
    BY DEF Calls
  <2>5. QED
    BY <1>1, <1>2, <2>1, <2>2, <2>3, <2>4 DEF LockTypeOK
<1>4. CallsOK
  BY DEF CallsOK, CallFits, QueueLabels, MCSQueueLabels, SleepLabels
<1>5. FutexOK
  BY DEF FutexOK
<1>6. \A t \in Threads : Stage(t) = "out" /\ ~HasPlace(t)
  BY DEF Stage, HasPlace, QueueLabels, MCSQueueLabels, SleepLabels
<1>7. NodesOK
  <2>1. <<>> \in Seq(Threads) /\ Len(<<>>) = 0
    OBVIOUS
  <2>2. NodeQueueIs(<<>>) /\ ArrivalsAre(<<>>)
    BY <1>6 DEF NodeQueueIs, ArrivalsAre
  <2>3. QED
    BY <2>1, <2>2 DEF NodesOK
<1>8. NodeSleepersOK
  BY DEF NodeSleepersOK, SleepLabels
<1>9. TicketPlacesOK
  BY <1>6 DEF TicketPlacesOK
<1>10. TicketSleepersOK
  BY DEF TicketSleepersOK
<1>11. QED
  BY <1>3, <1>4, <1>5, <1>7, <1>8, <1>9, <1>10 DEF IInv, TypeOK

(* What a step does to a lock of each family.                               *)
LEMMA FutexFamily ==
    ASSUME IInv, build.family = "futex", NEW t \in Threads, Call(t) \/ Step(t)
    PROVE  IInv' /\ PromiseStep
<1>2. /\ UNCHANGED build /\ UNCHANGED <<mcsFutexVars, ticketFutexVars>> /\ Record(t)
      /\ FutexCall(t) \/ FutexStep(t)
  BY DEF Call, Step
<1>3. LockTypeOK' /\ CallsOK' /\ FutexOK'
  BY <1>2, FutexSteps DEF IInv, TypeOK
<1>4. \A u \in Threads : ~HasPlace(u) /\ ~HasPlace(u)'
  BY <1>2 DEF HasPlace
<1>5. arrivals' = <<>> /\ arrivals = <<>>
  BY <1>2, <1>4 DEF IInv, Record
<1>6. PromiseStep
  BY <1>4, <1>5 DEF PromiseStep, StatusOf
<1>7. QED
  BY <1>2, <1>3, <1>5, <1>6 DEF IInv, TypeOK

LEMMA TicketFamily ==
    ASSUME IInv, build.family = "ticket", NEW t \in Threads, Call(t) \/ Step(t)
    PROVE  IInv' /\ PromiseStep
<1>1. /\ UNCHANGED build /\ UNCHANGED <<word, mcsFutexVars>> /\ Record(t)
      /\ TicketCall(t) \/ TicketStep(t)
  BY DEF Call, Step
<1>2. /\ LockTypeOK' /\ CallsOK' /\ TicketPlacesOK' /\ TicketSleepersOK'
      /\ arrivals' \in Seq(Threads) /\ PromiseStep
  BY <1>1, TicketSteps DEF IInv, TypeOK
<1>3. QED
  BY <1>1, <1>2 DEF IInv, TypeOK

LEMMA NodeLockFamily ==
    ASSUME IInv, NodeFamily, NEW t \in Threads, Call(t) \/ Step(t)
    PROVE  IInv' /\ PromiseStep
<1>1. UNCHANGED build /\ Record(t)
  BY DEF Call, Step
<1>2. /\ LockTypeOK /\ CallsOK /\ NodesOK /\ arrivals \in Seq(Threads) /\ MCSTypeOK
      /\ build.family = "mcs" => NodeSleepersOK
  BY DEF IInv, TypeOK, LockTypeOK, NodeFamily
<1>3. /\ LockTypeOK' /\ CallsOK' /\ NodeStep(t)
      /\ build.family = "mcs" => NodeSleepersOK'
  <2>1. CASE build.family = "mcslock"
    <3>1. /\ MCSCall(t) \/ MCSStep(t)
          /\ UNCHANGED <<call, word, flag, nodeContended, swapsFlag, ticketFutexVars>>
      BY <2>1 DEF Call, Step
    <3>2. QED
      BY <1>1, <1>2, <2>1, <3>1, MCSLockSteps
  <2>2. CASE build.family = "mcs"
    <3>1. (MCSFutexCall(t) \/ MCSFutexStep(t)) /\ UNCHANGED <<word, ticketFutexVars>>
      BY <2>2 DEF Call, Step
    <3>2. QED
      BY <1>1, <1>2, <2>2, <3>1, MCSFutexSteps
  <2>3. QED
    BY <2>1, <2>2 DEF NodeFamily
<1>4. StagesTell
  BY <1>2, StagesOfLabels
<1>5. StagesTell'
  BY <1>1, <1>3, StagesOfLabelsNext DEF NodeFamily
<1>6. NodesOK' /\ arrivals' \in Seq(Threads) /\ PromiseStep
  BY <1>1, <1>2, <1>3, <1>4, <1>5, NodesStep
<1>7. QED
  BY <1>1, <1>3, <1>6 DEF IInv, TypeOK, NodeFamily

LEMMA StutterIInv == IInv /\ UNCHANGED vars => IInv' /\ PromiseStep
<1> SUFFICES ASSUME IInv, UNCHANGED vars PROVE IInv' /\ PromiseStep
  OBVIOUS
<1> USE DEF vars, lockVars, mcsFutexVars, mcsVars, ticketFutexVars
<1>1. \A u \in Threads : Stage(u)' = Stage(u) /\ (HasPlace(u)' <=> HasPlace(u))
  BY SameLabelSameStage, SamePlaceHere
<1>2. TypeOK' /\ CallsOK'
  BY DEF IInv, TypeOK, LockTypeOK, MCSTypeOK, CallsOK, CallFits
<1>3. FutexOK => FutexOK'
  BY DEF FutexOK
<1>4. NodesOK => NodesOK'
  <2>1. ASSUME NEW q \in Seq(Threads), NodeQueueIs(q) /\ ArrivalsAre(q)
        PROVE  NodeQueueIs(q)' /\ ArrivalsAre(q)'
    <3>1. NodeStays
      BY <1>1 DEF NodeStays, SameNodes
    <3>2. NodeQueueIs(q)'
      BY <2>1, <3>1, QueueStays
    <3>3. ArrivalsAre(q)'
      BY <1>1, <2>1 DEF ArrivalsAre
    <3>4. QED
      BY <3>2, <3>3
  <2>2. QED
    BY <2>1 DEF NodesOK
<1>5. NodeSleepersOK => NodeSleepersOK'
  BY <1>1 DEF NodeSleepersOK
<1>6. TicketPlacesOK => TicketPlacesOK'
  BY <1>1 DEF TicketPlacesOK
<1>7. TicketSleepersOK => TicketSleepersOK'
  BY DEF TicketSleepersOK
<1>8. IInv'
  BY <1>2, <1>3, <1>4, <1>5, <1>6, <1>7 DEF IInv
<1>9. PromiseStep
  BY <1>1, StatusTells DEF PromiseStep
<1>10. QED
  BY <1>8, <1>9

LEMMA NextIInv == IInv /\ [Next]_vars => IInv' /\ PromiseStep
<1>1. ASSUME IInv, NEW t \in Threads, Call(t) \/ Step(t) PROVE IInv' /\ PromiseStep
  <2>1. build.family \in {"mcslock", "futex", "mcs", "ticket"}
    BY <1>1 DEF IInv, TypeOK, LockTypeOK, Locks, mcslock, futex_lock, flock, mcs_lock,
                mcs_futex_lock, ticket_futex_lock
  <2>2. QED
    BY <1>1, <2>1, FutexFamily, TicketFamily, NodeLockFamily DEF NodeFamily
<1>2. QED
  BY <1>1, StutterIInv DEF Next

(* The invariant holds in every reachable state of every build.             *)
THEOREM Invariant == Spec => []IInv
<1>1. IInv /\ [Next]_vars => IInv'
  BY NextIInv
<1>2. QED
  BY InitIInv, <1>1, PTL DEF Spec

(* Every variable keeps its type: a thread is at a label of the lock it is  *)
(* built with, and a ticket never goes past the bound.                      *)
THEOREM TypeCorrect == Spec => []TypeOK
<1>1. IInv => TypeOK
  BY DEF IInv
<1>2. QED
  BY Invariant, <1>1, PTL

(****************************************************************************)
(* What it implies.                                                         *)
(****************************************************************************)
LEMMA OnlyOneHolds == IInv => MutualExclusion
<1> SUFFICES ASSUME IInv, NEW t \in Threads, pc[t] \in HolderLabels
             PROVE  IsLocked /\ \A u \in Threads : pc[u] \in HolderLabels => t = u
  BY DEF MutualExclusion
<1>1. LockTypeOK /\ \A u \in Threads : pc[u] \in Labels[build.family]
  BY DEF IInv, TypeOK, LockTypeOK
<1>2. build.family \in {"mcslock", "futex", "mcs", "ticket"}
  BY <1>1 DEF LockTypeOK, Locks, mcslock, futex_lock, flock, mcs_lock, mcs_futex_lock,
              ticket_futex_lock
<1>3. CASE build.family = "futex"
  <2>1. \A u \in Threads : pc[u] \in HolderLabels => pc[u] = "critical"
    BY <1>1, <1>3 DEF Labels, HolderLabels, MCSUnlockLabels, SleepLabels
  <2>2. QED
    BY <1>3, <2>1 DEF IInv, FutexOK, IsLocked
<1>4. CASE NodeFamily
  <2>1. PICK q \in Seq(Threads) : NodeQueueIs(q)
    BY <1>4 DEF NodeFamily, IInv, NodesOK
  <2>2. \A u \in Threads : pc[u] \in HolderLabels => Stage(u) \in OwnerStages
    BY DEF HolderLabels, MCSUnlockLabels, Stage, SleepLabels
  <2>3. \A u \in Threads : pc[u] \in HolderLabels => q[1] = u /\ endOfQueue # NULL
    BY <2>1, <2>2, OwnerIsHead
  <2>4. QED
    BY <1>4, <2>3 DEF IsLocked, NodeFamily, MCSIsLocked
<1>5. CASE build.family = "ticket"
  <2>1. \A u \in Threads : pc[u] \in HolderLabels => pc[u] = "critical" /\ HasPlace(u)
    BY <1>1, <1>5 DEF Labels, HolderLabels, MCSUnlockLabels, SleepLabels, HasPlace
  <2>2. ASSUME NEW u \in Threads, pc[u] \in HolderLabels
        PROVE  Len(arrivals) > 0 /\ arrivals[1] = u
    <3>1. PICK i \in 1 .. Len(arrivals) : arrivals[i] = u
      BY <1>5, <2>1, <2>2 DEF IInv, TicketPlacesOK
    <3>2. i = 1
      BY <1>5, <2>1, <2>2, <3>1 DEF IInv, TicketPlacesOK
    <3>3. QED
      BY <3>1, <3>2
  <2>3. ticket = serving + Len(arrivals) /\ serving \in Nat /\ Len(arrivals) > 0
    BY <1>1, <1>5, <2>2, TicketLimitAssumption DEF IInv, TicketPlacesOK, LockTypeOK
  <2>4. ticket # serving
    BY <2>3
  <2>5. QED
    BY <1>5, <2>2, <2>4 DEF IsLocked
<1>6. QED
  BY <1>2, <1>3, <1>4, <1>5 DEF NodeFamily

(* At most one thread is between the access that takes the lock and the one *)
(* that lets the next in, and all along the lock looks taken.               *)
THEOREM Exclusion == Spec => []MutualExclusion
BY Invariant, OnlyOneHolds, PTL

LEMMA PassFindsWaiter == IInv => PassReachesWaiter
<1> SUFFICES ASSUME IInv, NEW t \in Threads, pc[t] \in {"mcsPass", "pass"}
             PROVE  /\ nodeNext[t] # NULL /\ nodeLocked[nodeNext[t]]
                    /\ HasPlace(nodeNext[t])
  BY DEF PassReachesWaiter
<1>1. LockTypeOK
  BY DEF IInv, TypeOK
<1>2. NodeFamily
  <2>1. pc[t] \in Labels[build.family] /\ build \in Locks
    BY <1>1 DEF LockTypeOK
  <2>2. QED
    BY <2>1 DEF NodeFamily, Labels, SleepLabels, Locks, mcslock, futex_lock, flock, mcs_lock,
                mcs_futex_lock, ticket_futex_lock
<1>3. PICK q \in Seq(Threads) : NodeQueueIs(q)
  BY <1>2 DEF NodeFamily, IInv, NodesOK
<1>4. Stage(t) = "pass"
  BY DEF Stage, SleepLabels
<1>5. Len(q) > 1 /\ nodeNext[t] = q[2] /\ Stage(q[2]) = "wait" /\ nodeLocked[q[2]]
  BY <1>3, <1>4, PasserKnowsNext
<1>6. q[2] \in Threads
  BY <1>5
<1>7. HasPlace(q[2])
  BY <1>1, <1>2, <1>5, <1>6, StagesOfLabels DEF StagesTell, PlaceStages
<1>8. QED
  BY <1>5, <1>6, <1>7, NullAssumption

(* unlock() of an MCS lock stores into the node of a thread that waits on   *)
(* it, never into one that has been given up.                               *)
THEOREM HandOverReachesWaiter == Spec => []PassReachesWaiter
BY Invariant, PassFindsWaiter, PTL

LEMMA SleepersHaveWakers == IInv => NobodySleepsForEver
<1> SUFFICES ASSUME IInv, \A t \in Threads : pc[t] \in {"idle", "asleep"},
                    NEW t \in Threads, pc[t] = "asleep"
             PROVE  build.family = "ticket" /\ call[t] = "tryWait"
  BY DEF NobodySleepsForEver
<1> USE DEF SleepLabels
<1>1. /\ LockTypeOK /\ build.family \in {"mcslock", "futex", "mcs", "ticket"}
      /\ pc[t] \in Labels[build.family]
  BY DEF IInv, TypeOK, LockTypeOK, Locks, mcslock, futex_lock, flock, mcs_lock, mcs_futex_lock,
         ticket_futex_lock
<1>2. call[t] \in {"lock", "tryWait"}
  BY DEF IInv, CallsOK, CallFits
<1>3. build.family # "mcslock"
  BY <1>1 DEF Labels, MCSQueueLabels, MCSUnlockLabels
<1>4. build.family # "futex"
  BY DEF IInv, FutexOK
<1>5. ASSUME build.family = "mcs" PROVE FALSE
  <2>1. NodeSleepersOK /\ ~\E u \in Threads : pc[u] = "notify"
    BY <1>5 DEF IInv
  <2>2. PICK q \in Seq(Threads) : NodeQueueIs(q)
    BY <1>5 DEF IInv, NodesOK
  <2>3. Len(q) > 0
    <3>1. CASE call[t] = "lock"
      <4>1. Stage(t) # "out"
        BY <3>1 DEF Stage
      <4>2. QED
        BY <2>2, <4>1 DEF NodeQueueIs
    <3>2. CASE call[t] = "tryWait"
      BY <2>1, <2>2, <3>2 DEF NodeSleepersOK, NodeQueueIs
    <3>3. QED
      BY <1>2, <3>1, <3>2
  <2>4. q[1] \in Threads /\ Heads(q[1])
    BY <2>2, <2>3 DEF NodeQueueIs
  <2>5. Stage(q[1]) \in {"out", "wait"}
    BY <2>4 DEF Stage
  <2>6. Stage(q[1]) = "wait" /\ ~nodeLocked[q[1]]
    BY <2>4, <2>5 DEF Heads
  <2>7. pc[q[1]] = "asleep" /\ call[q[1]] = "lock"
    BY <2>4, <2>6 DEF Stage
  <2>8. QED
    BY <2>1, <2>4, <2>6, <2>7 DEF NodeSleepersOK
<1>6. ASSUME build.family = "ticket", call[t] = "lock" PROVE FALSE
  <2>1. TicketPlacesOK /\ TicketSleepersOK /\ CallsOK /\ serving \in Nat
    BY <1>1, <1>6, TicketLimitAssumption DEF IInv, LockTypeOK
  <2>2. HasPlace(t)
    BY <1>6 DEF HasPlace
  <2>3. Len(arrivals) > 0 /\ arrivals[1] \in Threads
    BY <2>1, <2>2 DEF TicketPlacesOK, IInv, TypeOK
  <2>4. HasPlace(arrivals[1])
    BY <2>1, <2>3 DEF TicketPlacesOK
  <2>5. pc[arrivals[1]] = "asleep" /\ call[arrivals[1]] = "lock"
    BY <2>3, <2>4 DEF HasPlace, QueueLabels, MCSQueueLabels
  <2>6. num[arrivals[1]] = serving
    BY <2>1, <2>3, <2>5 DEF TicketPlacesOK
  <2>7. QED
    BY <2>1, <2>3, <2>5, <2>6 DEF TicketSleepersOK
<1>7. QED
  BY <1>1, <1>2, <1>3, <1>4, <1>5, <1>6

(* If everybody has returned or sleeps, nobody sleeps, except in            *)
(* try_lock_or_wait() of the ticket lock.                                   *)
THEOREM NoLostWakeUp == Spec => []NobodySleepsForEver
BY Invariant, SleepersHaveWakers, PTL

LEMMA InitPromise == Init => Promise!Init
BY DEF Init, Promise!Init, StatusOf, HasPlace, QueueLabels, MCSQueueLabels, SleepLabels

(* Every queue lock lets threads in one at a time in the order of their     *)
(* places; that each gets in needs fairness and is left to the model        *)
(* checker.                                                                 *)
THEOREM Implements == Spec => Promise!Spec
<1>1. IInv /\ [Next]_vars => [Promise!Next]_(Promise!vars)
  BY NextIInv DEF PromiseStep, Promise!vars
<1>2. QED
  BY Invariant, InitPromise, <1>1, PTL DEF Spec, Promise!Spec
=============================================================================
