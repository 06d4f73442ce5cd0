-------------------------- MODULE CohortLockProofs ---------------------------
(****************************************************************************)
(* Proofs about the cohort lock, for any finite set of threads, any nodes,  *)
(* any size of the array and any limit of the hand-overs: the types, mutual *)
(* exclusion over the two levels, and that a hand-over has a taker. Tickets *)
(* are counted modulo a range, so that what the proofs need of the rest of  *)
(* a division comes first.                                                  *)
(****************************************************************************)
EXTENDS CohortLock, FiniteSetTheorems, TLAPS

(****************************************************************************)
(* Rests of divisions.                                                      *)
(****************************************************************************)
LEMMA ModUnique ==
    ASSUME NEW R \in Nat \ {0}, NEW a \in Int, NEW d \in Int, NEW r \in 0 .. R - 1,
           a = R * d + r
    PROVE  a % R = r
OBVIOUS

LEMMA ModSmall ==
    ASSUME NEW R \in Nat \ {0}, NEW a \in 0 .. R - 1
    PROVE  a % R = a
OBVIOUS

(* It does not matter when a sum is reduced.                                *)
LEMMA ModAdd ==
    ASSUME NEW R \in Nat \ {0}, NEW a \in Int, NEW k \in Int
    PROVE  ((a % R) + k) % R = (a + k) % R
<1> DEFINE b == a % R
           d == a \div R
<1>1. b \in 0 .. R - 1 /\ d \in Int /\ a = R * d + b
  OBVIOUS
<1> HIDE DEF b, d
<1> DEFINE s == (b + k) % R
           e == (b + k) \div R
<1>2. s \in 0 .. R - 1 /\ e \in Int /\ b + k = R * e + s
  BY <1>1
<1> HIDE DEF s, e
<1>3. R * (d + e) = R * d + R * e
  BY <1>1, <1>2
<1>4. a + k = R * (d + e) + s
  BY <1>1, <1>2, <1>3
<1> DEFINE f == d + e
           c == a + k
<1>5. f \in Int /\ c \in Int /\ c = R * f + s
  BY <1>1, <1>2, <1>4
<1> HIDE DEF f, c
<1>6. c % R = s
  BY <1>2, <1>5, ModUnique
<1>7. QED
  BY <1>6 DEF b, c, s

(* Counted from the next ticket, each is one nearer.                        *)
LEMMA ModNext ==
    ASSUME NEW R \in Nat \ {0}, NEW a \in Int, NEW k \in Int, NEW b, b = (a + 1) % R
    PROVE  (b + k) % R = (a + (k + 1)) % R
<1> DEFINE c == a + 1
<1>1. c \in Int /\ c + k = a + (k + 1) /\ b = c % R
  OBVIOUS
<1> HIDE DEF c
<1>2. ((c % R) + k) % R = (c + k) % R
  BY <1>1, ModAdd
<1>3. QED
  BY <1>1, <1>2

(* Two tickets less than a round apart differ.                              *)
LEMMA ModSame ==
    ASSUME NEW R \in Nat \ {0}, NEW a \in Int, NEW j \in 0 .. R - 1, NEW k \in 0 .. R - 1,
           (a + j) % R = (a + k) % R
    PROVE  j = k
<1> DEFINE x == a + j
           y == a + k
           d == x \div R
           e == y \div R
<1>1. d \in Int /\ x % R \in Int /\ x = R * d + (x % R)
  OBVIOUS
<1>2. e \in Int /\ y % R \in Int /\ y = R * e + (y % R)
  OBVIOUS
<1>3. x - y = j - k /\ x % R = y % R
  OBVIOUS
<1> HIDE DEF x, y, d, e
<1>4. j - k = R * (d - e)
  <2>1. R * (d - e) = R * d - R * e
    BY <1>1, <1>2
  <2>2. QED
    BY <1>1, <1>2, <1>3, <2>1
<1>5. ASSUME d - e > 0 PROVE FALSE
  <2>1. R * (d - e) >= R
    BY <1>1, <1>2, <1>5
  <2>2. QED
    BY <1>4, <2>1
<1>6. ASSUME e - d > 0 PROVE FALSE
  <2>1. R * (e - d) >= R
    BY <1>1, <1>2, <1>6
  <2>2. R * (e - d) = 0 - R * (d - e)
    BY <1>1, <1>2
  <2>3. QED
    BY <1>4, <2>1, <2>2
<1>7. d - e = 0
  BY <1>1, <1>2, <1>5, <1>6
<1>8. QED
  BY <1>4, <1>7

(* A range that is a multiple of the array's size does not disturb which    *)
(* element a ticket selects.                                                *)
LEMMA ModOfMod ==
    ASSUME NEW N \in Nat \ {0}, NEW A \in Nat \ {0}, N % A = 0, NEW x \in Int
    PROVE  (x % N) % A = x % A
<1> DEFINE m == N \div A
           d == x \div N
           y == x % N
<1>1. m \in Int /\ N = A * m
  OBVIOUS
<1>2. d \in Int /\ y \in Int /\ x = N * d + y
  OBVIOUS
<1> HIDE DEF m, d, y
<1> DEFINE e == y \div A
           s == y % A
<1>3. e \in Int /\ s \in 0 .. A - 1 /\ y = A * e + s
  BY <1>2
<1> HIDE DEF e, s
<1>4. N * d = A * (m * d) /\ m * d \in Int
  BY <1>1, <1>2
<1>5. A * (m * d + e) = A * (m * d) + A * e
  BY <1>3, <1>4
<1>6. x = A * (m * d + e) + s
  BY <1>2, <1>3, <1>4, <1>5
<1> DEFINE f == m * d + e
<1>7. f \in Int /\ x = A * f + s
  BY <1>3, <1>4, <1>6
<1> HIDE DEF f
<1>8. x % A = s
  BY <1>3, <1>7, ModUnique
<1>9. QED
  BY <1>8 DEF s, y

(* A round of the array before, the ticket selects the same element.        *)
LEMMA ModBack ==
    ASSUME NEW N \in Nat \ {0}, NEW A \in Nat \ {0}, N % A = 0, NEW a \in Int
    PROVE  (a + (N - A)) % A = a % A
<1> DEFINE m == N \div A
           d == a \div A
           s == a % A
<1>1. m \in Int /\ N = A * m
  OBVIOUS
<1>2. d \in Int /\ s \in 0 .. A - 1 /\ a = A * d + s
  OBVIOUS
<1> HIDE DEF m, d, s
<1> DEFINE f == d + m - 1
           c == a + (N - A)
<1>3. A * f = A * d + A * m - A
  BY <1>1, <1>2
<1>4. f \in Int /\ c \in Int /\ c = A * f + s
  BY <1>1, <1>2, <1>3
<1> HIDE DEF f, c
<1>5. c % A = s
  BY <1>2, <1>4, ModUnique
<1>6. QED
  BY <1>5 DEF c, s

(* A queue is not longer than the set it is drawn from.                     *)
LEMMA QueueFits ==
    ASSUME NEW S, IsFiniteSet(S), NEW q \in Seq(S),
           \A i, j \in 1 .. Len(q) : q[i] = q[j] => i = j
    PROVE  Len(q) <= Cardinality(S)
<1>1. Len(q) \in Nat /\ q \in [1 .. Len(q) -> S]
  OBVIOUS
<1>2. IsFiniteSet(1 .. Len(q)) /\ Cardinality(1 .. Len(q)) = Len(q)
  BY <1>1, FS_Interval
<1>3. Cardinality(S) \in Nat
  BY FS_CardinalityType
<1>4. ASSUME Cardinality(S) < Len(q) PROVE FALSE
  BY <1>1, <1>2, <1>4, FS_PigeonHole
<1>5. QED
  BY <1>1, <1>3, <1>4

USE DEF LocalHolderLabels, HolderLabels

(****************************************************************************)
(* The queue of a node.                                                     *)
(****************************************************************************)

(* Who is past the local lock, or has the ticket that is up, is the first.  *)
LEMMA LocalHead ==
    ASSUME TypeOK, NEW n \in Nodes, NEW q \in Seq(Threads), LocalQueueIs(n, q),
           NEW t \in Threads, InLocal(t, n),
           pc[t] # "local" \/ myTicket[t] = outCounter[n]
    PROVE  Len(q) > 0 /\ q[1] = t
<1>1. PICK i \in 1 .. Len(q) : q[i] = t
  BY DEF LocalQueueIs
<1>2. Len(q) <= Cardinality(Threads)
  BY ArraySizeAssumption, QueueFits DEF LocalQueueIs
<1>3. Cardinality(Threads) \in Nat
  BY ArraySizeAssumption, FS_CardinalityType
<1>4. i = 1
  <2>1. CASE pc[t] # "local"
    BY <1>1, <2>1 DEF LocalQueueIs
  <2>2. CASE pc[t] = "local" /\ myTicket[t] = outCounter[n]
    <3>1. outCounter[n] \in 0 .. TicketRange - 1
      BY DEF TypeOK, TicketTypeOK, Tickets, Nodes
    <3>2. (outCounter[n] + (i - 1)) % TicketRange = outCounter[n]
      BY <1>1, <2>2 DEF LocalQueueIs
    <3>3. (outCounter[n] + 0) % TicketRange = outCounter[n]
      BY <3>1, TicketRangeAssumption, ModSmall
    <3>4. i - 1 \in 0 .. TicketRange - 1 /\ 0 \in 0 .. TicketRange - 1
      BY <1>1, <1>2, <1>3, NodeTicketsAssumption, TicketRangeAssumption
    <3> DEFINE k == i - 1
    <3>5. /\ outCounter[n] \in Int /\ TicketRange \in Nat \ {0}
          /\ k \in 0 .. TicketRange - 1 /\ 0 \in 0 .. TicketRange - 1
          /\ (outCounter[n] + k) % TicketRange = (outCounter[n] + 0) % TicketRange
      BY <3>1, <3>2, <3>3, <3>4, TicketRangeAssumption
    <3> HIDE DEF k
    <3>6. k = 0
      BY <3>5, ModSame
    <3>7. QED
      BY <1>1, <3>6 DEF k
  <2>3. QED
    BY <2>1, <2>2
<1>5. QED
  BY <1>1, <1>4

(* nodeHasWaitingThreads tells whether somebody is behind the holder.       *)
LEMMA WaitingThreads ==
    ASSUME TypeOK, NEW n \in Nodes, NEW q \in Seq(Threads), LocalQueueIs(n, q)
    PROVE  NodeHasWaitingThreads(n) <=> Len(q) > 1
<1> DEFINE R == TicketRange
           o == outCounter[n]
           l == Len(q)
<1>1. o \in 0 .. R - 1 /\ R \in Nat \ {0}
  BY TicketRangeAssumption DEF TypeOK, TicketTypeOK, Tickets, Nodes
<1>2. l \in 0 .. R - 1
  <2>1. Len(q) <= Cardinality(Threads)
    BY ArraySizeAssumption, QueueFits DEF LocalQueueIs
  <2>2. Cardinality(Threads) \in Nat
    BY ArraySizeAssumption, FS_CardinalityType
  <2>3. QED
    BY <2>1, <2>2, NodeTicketsAssumption, TicketRangeAssumption
<1>3. inCounter[n] = (o + l) % R
  BY DEF LocalQueueIs
<1> HIDE DEF R, o, l
<1>4. (((o + l) % R) + (R - o)) % R = ((o + l) + (R - o)) % R
  <2>1. o + l \in Int /\ R - o \in Int
    BY <1>1, <1>2
  <2>2. QED
    BY <1>1, <2>1, ModAdd
<1>5. (o + l) + (R - o) = R * 1 + l
  BY <1>1, <1>2
<1>6. (R * 1 + l) % R = l
  BY <1>1, <1>2
<1>7. ((o + l) % R) + (R - o) = ((o + l) % R) + R - o
  BY <1>1, <1>2
<1>8. (inCounter[n] + R - o) % R = l
  BY <1>3, <1>4, <1>5, <1>6, <1>7
<1>9. QED
  BY <1>8 DEF NodeHasWaitingThreads, R, o, l

(* A step of t that leaves the place of every thread of node n alone.       *)
LEMMA LocalQueueStays ==
    ASSUME TypeOK, NEW n \in Nodes, NEW q \in Seq(Threads), LocalQueueIs(n, q),
           NEW t \in Threads,
           inCounter'[n] = inCounter[n], outCounter'[n] = outCounter[n],
           \A u \in Threads \ {t} :
               pc'[u] = pc[u] /\ myTicket'[u] = myTicket[u] /\ myLocalNode'[u] = myLocalNode[u],
           \/ /\ ~InLocal(t, n) /\ ~InLocal(t, n)'
              /\ needToTakeGlobalLock'[n] = needToTakeGlobalLock[n]
           \/ /\ InLocal(t, n) /\ InLocal(t, n)'
              /\ pc[t] # "local" \/ myTicket[t] = outCounter[n]
              /\ pc'[t] # "local"
              /\ ~needToTakeGlobalLock'[n] =>
                     \/ pc'[t] = "critical"
                     \/ pc'[t] = "localUnlock" /\ NodeHasWaitingThreads(n)
    PROVE  LocalQueueIs(n, q)'
<1>1. \A u \in Threads : InLocal(u, n)' <=> InLocal(u, n)
  BY DEF InLocal
<1>2. CASE ~InLocal(t, n)
  <2>1. \A i \in 1 .. Len(q) : q[i] \in Threads /\ q[i] # t
    BY <1>2 DEF LocalQueueIs
  <2>2. /\ needToTakeGlobalLock'[n] = needToTakeGlobalLock[n]
        /\ \A i \in 1 .. Len(q) : pc'[q[i]] = pc[q[i]] /\ myTicket'[q[i]] = myTicket[q[i]]
    BY <1>2, <2>1
  <2>3. QED
    BY <1>1, <2>2 DEF LocalQueueIs
<1>3. CASE InLocal(t, n)
  <2>1. Len(q) > 0 /\ q[1] = t
    BY <1>3, LocalHead
  <2>2. \A i \in 2 .. Len(q) : q[i] \in Threads /\ q[i] # t
    <3>1. ASSUME NEW i \in 2 .. Len(q) PROVE q[i] # t
      BY <2>1 DEF LocalQueueIs
    <3>2. QED
      BY <3>1
  <2>3. \A i \in 2 .. Len(q) : pc'[q[i]] = "local" /\ myTicket'[q[i]] = myTicket[q[i]]
    BY <2>2 DEF LocalQueueIs
  <2>4. \A i \in 1 .. Len(q) :
            pc'[q[i]] = "local" => myTicket'[q[i]] = (outCounter[n] + (i - 1)) % TicketRange
    <3>1. ASSUME NEW i \in 1 .. Len(q), pc'[q[i]] = "local"
          PROVE  myTicket'[q[i]] = (outCounter[n] + (i - 1)) % TicketRange
      <4>1. i \in 2 .. Len(q)
        BY <1>3, <2>1, <3>1
      <4>2. pc[q[i]] = "local"
        BY <4>1 DEF LocalQueueIs
      <4>3. QED
        BY <2>3, <4>1, <4>2 DEF LocalQueueIs
    <3>2. QED
      BY <3>1
  <2>5. NodeHasWaitingThreads(n) <=> Len(q) > 1
    BY WaitingThreads
  <2>6. QED
    BY <1>1, <1>3, <2>1, <2>3, <2>4, <2>5 DEF LocalQueueIs
<1>4. QED
  BY <1>2, <1>3

(* A thread draws a ticket, at the end of the queue.                        *)
LEMMA LocalQueueGrows ==
    ASSUME TypeOK, NEW n \in Nodes, NEW q \in Seq(Threads), LocalQueueIs(n, q),
           NEW t \in Threads, NEW from, ~InLocal(t, n),
           TakeTicket(t, n, from, "local"), UNCHANGED needToTakeGlobalLock,
           myLocalNode' = [myLocalNode EXCEPT ![t] = n]
    PROVE  LocalQueueIs(n, Append(q, t))'
<1> DEFINE r == Append(q, t)
<1>1. /\ r \in Seq(Threads) /\ Len(r) = Len(q) + 1 /\ r[Len(r)] = t
      /\ \A i \in 1 .. Len(q) : r[i] = q[i]
  OBVIOUS
<1>2. /\ pc'[t] = "local" /\ myTicket'[t] = inCounter[n] /\ myLocalNode'[t] = n
      /\ \A u \in Threads \ {t} :
             pc'[u] = pc[u] /\ myTicket'[u] = myTicket[u] /\ myLocalNode'[u] = myLocalNode[u]
      /\ inCounter'[n] = (inCounter[n] + 1) % TicketRange /\ outCounter'[n] = outCounter[n]
      /\ needToTakeGlobalLock'[n] = needToTakeGlobalLock[n]
  BY DEF TakeTicket, Move, TypeOK, TicketTypeOK, NextTicket, Nodes
<1>3. \A i \in 1 .. Len(q) : q[i] \in Threads /\ q[i] # t
  BY DEF LocalQueueIs
<1>4. outCounter[n] \in Int /\ TicketRange \in Nat \ {0}
  BY TicketRangeAssumption DEF TypeOK, TicketTypeOK, Tickets, Nodes
<1> HIDE DEF r
<1>5. ASSUME NEW i \in 1 .. Len(r), NEW j \in 1 .. Len(r), r[i] = r[j] PROVE i = j
  BY <1>1, <1>3, <1>5 DEF LocalQueueIs
<1>6. ASSUME NEW u \in Threads PROVE InLocal(u, n)' <=> \E i \in 1 .. Len(r) : r[i] = u
  <2>1. CASE u = t
    BY <1>1, <1>2, <2>1 DEF InLocal
  <2>2. CASE u # t
    <3>1. InLocal(u, n)' <=> InLocal(u, n)
      BY <1>2, <2>2 DEF InLocal
    <3>2. InLocal(u, n) <=> \E i \in 1 .. Len(q) : q[i] = u
      BY DEF LocalQueueIs
    <3>3. (\E i \in 1 .. Len(q) : q[i] = u) => \E i \in 1 .. Len(r) : r[i] = u
      BY <1>1
    <3>4. ASSUME NEW i \in 1 .. Len(r), r[i] = u PROVE \E j \in 1 .. Len(q) : q[j] = u
      <4>1. i \in 1 .. Len(q) /\ q[i] = u
        BY <1>1, <2>2, <3>4
      <4>2. QED
        BY <4>1
    <3>5. QED
      BY <3>1, <3>2, <3>3, <3>4
  <2>3. QED
    BY <2>1, <2>2
<1>7. inCounter'[n] = (outCounter'[n] + Len(r)) % TicketRange
  <2> DEFINE last == outCounter[n] + Len(q)
  <2>1. inCounter[n] = last % TicketRange /\ last \in Int /\ 1 \in Int
    BY <1>4 DEF LocalQueueIs
  <2>2. last + 1 = outCounter[n] + Len(r)
    BY <1>1, <1>4
  <2> HIDE DEF last
  <2>3. ((last % TicketRange) + 1) % TicketRange = (last + 1) % TicketRange
    BY <1>4, <2>1, ModAdd
  <2>4. QED
    BY <1>2, <2>1, <2>2, <2>3
<1>8. ASSUME NEW i \in 1 .. Len(r), pc'[r[i]] = "local"
      PROVE  myTicket'[r[i]] = (outCounter'[n] + (i - 1)) % TicketRange
  <2>1. CASE i = Len(r)
    <3>1. r[i] = t /\ i - 1 = Len(q)
      BY <1>1, <2>1
    <3>2. QED
      BY <1>2, <3>1 DEF LocalQueueIs
  <2>2. CASE i # Len(r)
    <3>1. i \in 1 .. Len(q) /\ r[i] = q[i] /\ q[i] \in Threads \ {t}
      BY <1>1, <1>3, <2>2
    <3>2. pc[q[i]] = "local" /\ myTicket'[q[i]] = myTicket[q[i]]
      BY <1>2, <1>8, <3>1
    <3>3. QED
      BY <1>2, <3>1, <3>2 DEF LocalQueueIs
  <2>3. QED
    BY <2>1, <2>2
<1>9. ASSUME NEW i \in 2 .. Len(r) PROVE pc'[r[i]] = "local"
  <2>1. CASE i = Len(r)
    BY <1>1, <1>2, <2>1
  <2>2. CASE i # Len(r)
    <3>1. i \in 2 .. Len(q) /\ r[i] = q[i] /\ q[i] \in Threads \ {t}
      BY <1>1, <1>3, <2>2
    <3>2. QED
      BY <1>2, <3>1 DEF LocalQueueIs
  <2>3. QED
    BY <2>1, <2>2
<1>10. ~needToTakeGlobalLock'[n] =>
           /\ Len(r) > 0
           /\ pc'[r[1]] \in {"local", "critical"} \/ (pc'[r[1]] = "localUnlock" /\ Len(r) > 1)
  <2>1. CASE Len(q) = 0
    BY <1>1, <1>2, <2>1
  <2>2. CASE Len(q) > 0
    <3>1. r[1] = q[1] /\ pc'[q[1]] = pc[q[1]]
      BY <1>1, <1>2, <1>3, <2>2
    <3>2. QED
      BY <1>1, <1>2, <2>2, <3>1 DEF LocalQueueIs
  <2>3. QED
    BY <2>1, <2>2
<1>11. LocalQueueIs(n, r)'
  BY <1>5, <1>6, <1>7, <1>8, <1>9, <1>10 DEF LocalQueueIs
<1>12. QED
  BY <1>11 DEF r

(* The first of the queue releases the local lock.                          *)
LEMMA LocalQueueShrinks ==
    ASSUME TypeOK, NEW n \in Nodes, NEW q \in Seq(Threads), LocalQueueIs(n, q),
           NEW t \in Threads, InLocal(t, n),
           TicketUnlock(t, n, "localUnlock", "idle"), UNCHANGED <<needToTakeGlobalLock, myLocalNode>>
    PROVE  Tail(q) \in Seq(Threads) /\ LocalQueueIs(n, Tail(q))'
<1> DEFINE r == Tail(q)
<1>1. /\ pc[t] = "localUnlock" /\ pc'[t] = "idle" /\ \A u \in Threads \ {t} : pc'[u] = pc[u]
      /\ UNCHANGED <<myTicket, inCounter, needToTakeGlobalLock, myLocalNode>>
      /\ outCounter'[n] = (outCounter[n] + 1) % TicketRange
  BY DEF TicketUnlock, Move, TypeOK, TicketTypeOK, NextTicket, Nodes
<1>2. Len(q) > 0 /\ q[1] = t
  BY <1>1, LocalHead
<1>3. /\ r \in Seq(Threads) /\ Len(r) = Len(q) - 1
      /\ \A i \in 1 .. Len(r) : r[i] = q[i + 1]
  BY <1>2
<1> HIDE DEF r
<1>4. ASSUME NEW i \in 1 .. Len(r)
      PROVE  /\ i + 1 \in 2 .. Len(q) /\ r[i] = q[i + 1] /\ q[i + 1] \in Threads \ {t}
             /\ pc[r[i]] = "local" /\ pc'[r[i]] = "local" /\ myTicket'[r[i]] = myTicket[r[i]]
             /\ myTicket[q[i + 1]] = (outCounter[n] + i) % TicketRange
  <2> DEFINE j == i + 1
  <2>1. j \in 2 .. Len(q) /\ r[i] = q[j] /\ j - 1 = i
    BY <1>2, <1>3
  <2> HIDE DEF j
  <2>2. q[j] \in Threads /\ q[j] # t /\ pc[q[j]] = "local"
    BY <1>2, <2>1 DEF LocalQueueIs
  <2>3. myTicket[q[j]] = (outCounter[n] + (j - 1)) % TicketRange
    BY <2>1, <2>2 DEF LocalQueueIs
  <2>4. QED
    BY <1>1, <2>1, <2>2, <2>3 DEF j
<1>5. outCounter[n] \in Int /\ TicketRange \in Nat \ {0}
  BY TicketRangeAssumption DEF TypeOK, TicketTypeOK, Tickets, Nodes
<1>6. ASSUME NEW k \in Int
      PROVE  (outCounter'[n] + k) % TicketRange = (outCounter[n] + (k + 1)) % TicketRange
  BY <1>1, <1>5, ModNext
<1>7. ASSUME NEW i \in 1 .. Len(r), NEW j \in 1 .. Len(r), r[i] = r[j] PROVE i = j
  <2>1. i + 1 \in 1 .. Len(q) /\ j + 1 \in 1 .. Len(q) /\ q[i + 1] = q[j + 1]
    BY <1>4, <1>7
  <2>2. i + 1 = j + 1
    BY <2>1 DEF LocalQueueIs
  <2>3. QED
    BY <2>2
<1>8. ASSUME NEW u \in Threads PROVE InLocal(u, n)' <=> \E i \in 1 .. Len(r) : r[i] = u
  <2>1. CASE u = t
    BY <1>1, <1>4, <2>1 DEF InLocal
  <2>2. CASE u # t
    <3>1. InLocal(u, n)' <=> InLocal(u, n)
      BY <1>1, <2>2 DEF InLocal
    <3>2. ASSUME InLocal(u, n) PROVE \E i \in 1 .. Len(r) : r[i] = u
      <4>1. PICK j \in 1 .. Len(q) : q[j] = u
        BY <3>2 DEF LocalQueueIs
      <4>2. j # 1 /\ j - 1 \in 1 .. Len(r) /\ r[j - 1] = u
        BY <1>2, <1>3, <2>2, <4>1
      <4>3. QED
        BY <4>2
    <3>3. ASSUME NEW i \in 1 .. Len(r), r[i] = u PROVE InLocal(u, n)
      <4>1. i + 1 \in 1 .. Len(q) /\ q[i + 1] = u
        BY <1>4, <3>3
      <4>2. QED
        BY <4>1 DEF LocalQueueIs
    <3>4. QED
      BY <3>1, <3>2, <3>3
  <2>3. QED
    BY <2>1, <2>2
<1>9. inCounter'[n] = (outCounter'[n] + Len(r)) % TicketRange
  <2>1. inCounter[n] = (outCounter[n] + (Len(r) + 1)) % TicketRange /\ Len(r) \in Int
    BY <1>2, <1>3 DEF LocalQueueIs
  <2>2. QED
    BY <1>1, <1>6, <2>1
<1>10. ASSUME NEW i \in 1 .. Len(r)
       PROVE  myTicket'[r[i]] = (outCounter'[n] + (i - 1)) % TicketRange
  <2> DEFINE k == i - 1
  <2>1. k \in Int /\ k + 1 = i
    OBVIOUS
  <2> HIDE DEF k
  <2>2. myTicket'[r[i]] = (outCounter[n] + (k + 1)) % TicketRange
    BY <1>4, <2>1
  <2>3. myTicket'[r[i]] = (outCounter'[n] + k) % TicketRange
    BY <1>6, <2>1, <2>2
  <2>4. QED
    BY <2>3 DEF k
<1>11. ~needToTakeGlobalLock'[n] => Len(r) > 0 /\ pc'[r[1]] = "local"
  <2>1. ~needToTakeGlobalLock'[n] => Len(q) > 1
    BY <1>1, <1>2 DEF LocalQueueIs
  <2>2. QED
    BY <1>3, <1>4, <2>1
<1>12. LocalQueueIs(n, r)'
  BY <1>4, <1>7, <1>8, <1>9, <1>10, <1>11 DEF LocalQueueIs
<1>13. QED
  BY <1>3, <1>12 DEF r

(****************************************************************************)
(* The queue of the global lock, and the elements of spinAreas.             *)
(****************************************************************************)
LocalQueuesOK == \A n \in Nodes : \E q \in Seq(Threads) : LocalQueueIs(n, q)

LEMMA GlobalTypes ==
    ASSUME TypeOK
    PROVE  /\ aOutCounter \in 0 .. ATicketRange - 1 /\ aOutCounter \in Int
           /\ ATicketRange \in Nat \ {0} /\ ARRAY_SIZE \in Nat \ {0}
           /\ ATicketRange % ARRAY_SIZE = 0
           /\ Cardinality(Threads) \in Nat
           /\ ATicketRange >= ARRAY_SIZE + Cardinality(Threads)
<1>1. Cardinality(Threads) \in Nat
  BY ArraySizeAssumption, FS_CardinalityType
<1>2. QED
  BY <1>1, ArraySizeAssumption DEF TypeOK, ATicketTypeOK, ATickets

(* The owner, or the thread that is to take over from it, does not wait for *)
(* the global lock.                                                         *)
LEMMA WaitersFit ==
    ASSUME TypeOK, LocalQueuesOK, NEW w \in Seq(Threads), GlobalQueueIs(w)
    PROVE  Ahead \in {0, 1} /\ Len(w) + Ahead <= Cardinality(Threads)
<1>1. \A i, j \in 1 .. Len(w) : w[i] = w[j] => i = j
  BY DEF GlobalQueueIs
<1>2. CASE ~Owned
  <2>1. Len(w) <= Cardinality(Threads)
    BY <1>1, ArraySizeAssumption, QueueFits
  <2>2. QED
    BY <1>2, <2>1, GlobalTypes DEF Ahead
<1>3. CASE Owned
  <2>1. PICK u \in Threads : pc[u] # "globalWait"
    <3>1. CASE \E t \in Threads : pc[t] \in {"critical", "globalUnlock"}
      BY <3>1
    <3>2. CASE \E n \in Nodes : ~needToTakeGlobalLock[n]
      <4>1. PICK n \in Nodes : ~needToTakeGlobalLock[n]
        BY <3>2
      <4>2. PICK q \in Seq(Threads) : LocalQueueIs(n, q)
        BY DEF LocalQueuesOK
      <4>3. q[1] \in Threads /\ pc[q[1]] \in {"local", "critical", "localUnlock"}
        BY <4>1, <4>2 DEF LocalQueueIs
      <4>4. QED
        BY <4>3
    <3>3. QED
      BY <1>3, <3>1, <3>2 DEF Owned
  <2> DEFINE S == Threads \ {u}
  <2>2. IsFiniteSet(S) /\ Cardinality(S) = Cardinality(Threads) - 1
    BY ArraySizeAssumption, FS_RemoveElement
  <2>3. w \in Seq(S)
    <3>1. \A i \in 1 .. Len(w) : w[i] \in S
      BY <2>1 DEF GlobalQueueIs
    <3>2. QED
      BY <3>1
  <2> HIDE DEF S
  <2>4. Len(w) <= Cardinality(S)
    BY <1>1, <2>2, <2>3, QueueFits
  <2>5. QED
    BY <1>3, <2>2, <2>4, GlobalTypes DEF Ahead
<1>4. QED
  BY <1>2, <1>3

(* The load that lets a thread in: it is the first, and nobody owns the     *)
(* lock.                                                                    *)
LEMMA TicketUpIsFirst ==
    ASSUME TypeOK, LocalQueuesOK, SpinAreasOK, NEW w \in Seq(Threads), GlobalQueueIs(w),
           NEW t \in Threads, ATicketIsUp(t, "globalWait", "critical")
    PROVE  ~Owned /\ ~Passing /\ Len(w) > 0 /\ w[1] = t
<1>1. pc[t] = "globalWait" /\ spinAreas[aTicket[t] % ARRAY_SIZE] = aTicket[t]
  BY DEF ATicketIsUp, Move
<1>2. PICK i \in 1 .. Len(w) : w[i] = t
  BY <1>1 DEF GlobalQueueIs
<1> DEFINE k == i - 1 + Ahead
<1>3. Ahead \in {0, 1} /\ Len(w) + Ahead <= Cardinality(Threads)
  BY WaitersFit
<1>4. k \in Nat /\ k < ATicketRange - ARRAY_SIZE /\ k \in ATickets
  BY <1>2, <1>3, GlobalTypes DEF ATickets
<1>5. aTicket[t] = (aOutCounter + k) % ATicketRange
  BY <1>2 DEF GlobalQueueIs
<1> HIDE DEF k
<1>6. Shown(k)
  BY <1>1, <1>5 DEF Shown
<1>7. ~Passing /\ k = 0
  BY <1>4, <1>6, GlobalTypes DEF SpinAreasOK
<1>8. Ahead = 0 /\ i = 1
  BY <1>2, <1>3, <1>7 DEF k
<1>9. QED
  BY <1>2, <1>7, <1>8 DEF Ahead

(* A step that is none of the global lock's.                                *)
LEMMA GlobalStays ==
    ASSUME NEW w \in Seq(Threads), GlobalQueueIs(w), SpinAreasOK, UNCHANGED aTicketVars,
           \A u \in Threads : pc'[u] = "globalWait" <=> pc[u] = "globalWait",
           Owned' <=> Owned, Passing' <=> Passing
    PROVE  GlobalQueueIs(w)' /\ SpinAreasOK'
<1>1. UNCHANGED <<aInCounter, aOutCounter, spinAreas, aTicket>>
  BY DEF aTicketVars
<1>2. Ahead' = Ahead
  BY DEF Ahead
<1>3. GlobalQueueIs(w)'
  BY <1>1, <1>2 DEF GlobalQueueIs
<1>4. \A k \in ATickets : Shown(k)' <=> Shown(k)
  BY <1>1 DEF Shown
<1>5. SpinAreasOK'
  BY <1>4 DEF SpinAreasOK
<1>6. QED
  BY <1>3, <1>5

LEMMA GlobalGrows ==
    ASSUME TypeOK, NEW w \in Seq(Threads), GlobalQueueIs(w), SpinAreasOK,
           NEW t \in Threads, ATakeTicket(t, "global", "globalWait"),
           Owned' <=> Owned, Passing' <=> Passing
    PROVE  GlobalQueueIs(Append(w, t))' /\ SpinAreasOK'
<1> DEFINE r == Append(w, t)
<1>1. /\ r \in Seq(Threads) /\ Len(r) = Len(w) + 1 /\ r[Len(r)] = t
      /\ \A i \in 1 .. Len(w) : r[i] = w[i]
  OBVIOUS
<1>2. /\ pc[t] = "global" /\ pc'[t] = "globalWait" /\ aTicket'[t] = aInCounter
      /\ \A u \in Threads \ {t} : pc'[u] = pc[u] /\ aTicket'[u] = aTicket[u]
      /\ aInCounter' = (aInCounter + 1) % ATicketRange
      /\ UNCHANGED <<aOutCounter, spinAreas>>
  BY DEF ATakeTicket, Move, TypeOK, ATicketTypeOK, ANextTicket
<1>3. \A i \in 1 .. Len(w) : w[i] \in Threads /\ w[i] # t
  BY <1>2 DEF GlobalQueueIs
<1>4. Ahead' = Ahead /\ Ahead \in Int
  BY DEF Ahead
<1> HIDE DEF r
<1>5. ASSUME NEW i \in 1 .. Len(r), NEW j \in 1 .. Len(r), r[i] = r[j] PROVE i = j
  BY SMTT(30), <1>1, <1>3, <1>5 DEF GlobalQueueIs
<1>6. ASSUME NEW u \in Threads PROVE pc'[u] = "globalWait" <=> \E i \in 1 .. Len(r) : r[i] = u
  <2>1. CASE u = t
    BY <1>1, <1>2, <2>1
  <2>2. CASE u # t
    <3>1. pc[u] = "globalWait" <=> \E i \in 1 .. Len(w) : w[i] = u
      BY DEF GlobalQueueIs
    <3>2. (\E i \in 1 .. Len(w) : w[i] = u) => \E i \in 1 .. Len(r) : r[i] = u
      BY <1>1
    <3>3. ASSUME NEW i \in 1 .. Len(r), r[i] = u PROVE \E j \in 1 .. Len(w) : w[j] = u
      <4>1. i \in 1 .. Len(w) /\ w[i] = u
        BY <1>1, <2>2, <3>3
      <4>2. QED
        BY <4>1
    <3>4. QED
      BY <1>2, <2>2, <3>1, <3>2, <3>3
  <2>3. QED
    BY <2>1, <2>2
<1>7. aInCounter' = (aOutCounter + (Len(r) + Ahead)) % ATicketRange
  <2> DEFINE last == aOutCounter + (Len(w) + Ahead)
  <2>1. aInCounter = last % ATicketRange /\ last \in Int /\ 1 \in Int
    BY <1>4, GlobalTypes DEF GlobalQueueIs
  <2>2. last + 1 = aOutCounter + (Len(r) + Ahead)
    BY <1>1, <1>4, GlobalTypes
  <2> HIDE DEF last
  <2>3. ((last % ATicketRange) + 1) % ATicketRange = (last + 1) % ATicketRange
    BY <2>1, GlobalTypes, ModAdd
  <2>4. QED
    BY <1>2, <2>1, <2>2, <2>3
<1>8. ASSUME NEW i \in 1 .. Len(r)
      PROVE  aTicket'[r[i]] = (aOutCounter + (i - 1 + Ahead)) % ATicketRange
  <2>1. CASE i = Len(r)
    <3>1. r[i] = t /\ i - 1 = Len(w)
      BY <1>1, <2>1
    <3>2. QED
      BY <1>2, <3>1 DEF GlobalQueueIs
  <2>2. CASE i # Len(r)
    <3>1. i \in 1 .. Len(w) /\ r[i] = w[i] /\ w[i] \in Threads \ {t}
      BY <1>1, <1>3, <2>2
    <3>2. QED
      BY <1>2, <3>1 DEF GlobalQueueIs
  <2>3. QED
    BY <2>1, <2>2
<1>9. GlobalQueueIs(r)'
  BY <1>2, <1>4, <1>5, <1>6, <1>7, <1>8 DEF GlobalQueueIs
<1>10. \A k \in ATickets : Shown(k)' <=> Shown(k)
  BY <1>2 DEF Shown
<1>11. QED
  BY <1>9, <1>10 DEF SpinAreasOK, r

(* The first that waits gets in: the lock has an owner now.                 *)
LEMMA GlobalEnters ==
    ASSUME TypeOK, LocalQueuesOK, NEW w \in Seq(Threads), GlobalQueueIs(w), SpinAreasOK,
           NEW t \in Threads, ATicketIsUp(t, "globalWait", "critical"),
           UNCHANGED needToTakeGlobalLock
    PROVE  Tail(w) \in Seq(Threads) /\ GlobalQueueIs(Tail(w))' /\ SpinAreasOK'
<1> DEFINE r == Tail(w)
<1>1. /\ pc[t] = "globalWait" /\ pc'[t] = "critical" /\ \A u \in Threads \ {t} : pc'[u] = pc[u]
      /\ \A u \in Threads \ {t} : aTicket'[u] = aTicket[u]
      /\ UNCHANGED <<aInCounter, aOutCounter, spinAreas>>
  BY DEF ATicketIsUp, Move, TypeOK, ATicketTypeOK
<1>2. ~Owned /\ ~Passing /\ Len(w) > 0 /\ w[1] = t
  BY TicketUpIsFirst
<1>3. Ahead = 0 /\ Ahead' = 1 /\ ~Passing'
  BY <1>1, <1>2 DEF Ahead, Owned, Passing
<1>4. /\ r \in Seq(Threads) /\ Len(r) = Len(w) - 1
      /\ \A i \in 1 .. Len(r) : r[i] = w[i + 1]
  BY <1>2
<1> HIDE DEF r
<1>5. ASSUME NEW i \in 1 .. Len(r)
      PROVE  /\ i + 1 \in 2 .. Len(w) /\ r[i] = w[i + 1] /\ w[i + 1] \in Threads \ {t}
             /\ aTicket'[r[i]] = (aOutCounter + (i - 1 + 1)) % ATicketRange
  <2> DEFINE j == i + 1
  <2>1. j \in 2 .. Len(w) /\ j \in 1 .. Len(w) /\ r[i] = w[j] /\ j - 1 + 0 = i - 1 + 1
    BY <1>2, <1>4
  <2> HIDE DEF j
  <2>2. w[j] \in Threads /\ w[j] # t
    BY <1>2, <2>1 DEF GlobalQueueIs
  <2>3. aTicket[w[j]] = (aOutCounter + (j - 1 + 0)) % ATicketRange
    BY <1>3, <2>1 DEF GlobalQueueIs
  <2>4. aTicket'[r[i]] = (aOutCounter + (i - 1 + 1)) % ATicketRange
    BY <1>1, <2>1, <2>2, <2>3
  <2>5. QED
    BY <2>1, <2>2, <2>4 DEF j
<1>6. ASSUME NEW i \in 1 .. Len(r), NEW j \in 1 .. Len(r), r[i] = r[j] PROVE i = j
  <2>1. i + 1 \in 1 .. Len(w) /\ j + 1 \in 1 .. Len(w) /\ w[i + 1] = w[j + 1]
    BY <1>5, <1>6
  <2>2. i + 1 = j + 1
    BY <2>1 DEF GlobalQueueIs
  <2>3. QED
    BY <2>2
<1>7. ASSUME NEW u \in Threads PROVE pc'[u] = "globalWait" <=> \E i \in 1 .. Len(r) : r[i] = u
  <2>1. CASE u = t
    BY <1>1, <1>5, <2>1
  <2>2. CASE u # t
    <3>1. ASSUME pc[u] = "globalWait" PROVE \E i \in 1 .. Len(r) : r[i] = u
      <4>1. PICK j \in 1 .. Len(w) : w[j] = u
        BY <3>1 DEF GlobalQueueIs
      <4>2. j # 1 /\ j - 1 \in 1 .. Len(r) /\ r[j - 1] = u
        BY <1>2, <1>4, <2>2, <4>1
      <4>3. QED
        BY <4>2
    <3>2. ASSUME NEW i \in 1 .. Len(r), r[i] = u PROVE pc[u] = "globalWait"
      <4>1. i + 1 \in 1 .. Len(w) /\ w[i + 1] = u
        BY <1>5, <3>2
      <4>2. QED
        BY <4>1 DEF GlobalQueueIs
    <3>3. QED
      BY <1>1, <2>2, <3>1, <3>2
  <2>3. QED
    BY <2>1, <2>2
<1>8. aInCounter' = (aOutCounter + (Len(r) + 1)) % ATicketRange
  <2>1. Len(w) + 0 = Len(r) + 1
    BY <1>2, <1>4
  <2>2. aInCounter = (aOutCounter + (Len(w) + 0)) % ATicketRange
    BY <1>3 DEF GlobalQueueIs
  <2>3. QED
    BY <1>1, <2>1, <2>2
<1>9. GlobalQueueIs(r)'
  BY <1>1, <1>3, <1>5, <1>6, <1>7, <1>8 DEF GlobalQueueIs
<1>10. \A k \in ATickets : Shown(k)' <=> Shown(k)
  BY <1>1 DEF Shown
<1>11. QED
  BY <1>2, <1>3, <1>4, <1>9, <1>10 DEF SpinAreasOK, r

(* The owner counts itself out: every ticket is one nearer.                 *)
LEMMA GlobalCounts ==
    ASSUME TypeOK, NEW w \in Seq(Threads), GlobalQueueIs(w), SpinAreasOK,
           NEW t \in Threads, ACount(t, "globalUnlock"), Owned, ~Owned', ~Passing
    PROVE  GlobalQueueIs(w)' /\ SpinAreasOK'
<1>1. /\ pc[t] = "globalUnlock" /\ pc'[t] = "aPass" /\ \A u \in Threads \ {t} : pc'[u] = pc[u]
      /\ aOutCounter' = (aOutCounter + 1) % ATicketRange
      /\ UNCHANGED <<aInCounter, spinAreas, aTicket>>
  BY DEF ACount, Move, TypeOK, ANextTicket
<1>2. Ahead = 1 /\ Ahead' = 0 /\ Passing'
  BY <1>1 DEF Ahead, Passing
<1>3. ASSUME NEW k \in Int
      PROVE  (aOutCounter' + k) % ATicketRange = (aOutCounter + (k + 1)) % ATicketRange
  BY <1>1, GlobalTypes, ModNext
<1>4. GlobalQueueIs(w)'
  <2>1. \A u \in Threads : pc'[u] = "globalWait" <=> pc[u] = "globalWait"
    BY <1>1
  <2>2. aInCounter' = (aOutCounter' + (Len(w) + 0)) % ATicketRange
    <3>1. Len(w) + 0 = Len(w) /\ Len(w) \in Int
      OBVIOUS
    <3>2. aInCounter = (aOutCounter + (Len(w) + 1)) % ATicketRange
      BY <1>2 DEF GlobalQueueIs
    <3>3. QED
      BY <1>1, <1>3, <3>1, <3>2
  <2>3. ASSUME NEW i \in 1 .. Len(w)
        PROVE  aTicket'[w[i]] = (aOutCounter' + (i - 1 + 0)) % ATicketRange
    <3> DEFINE k == i - 1
    <3>1. k + 0 = k /\ k \in Int
      OBVIOUS
    <3>2. aTicket[w[i]] = (aOutCounter + (k + 1)) % ATicketRange
      BY <1>2 DEF GlobalQueueIs
    <3> HIDE DEF k
    <3>3. aTicket'[w[i]] = (aOutCounter' + (k + 0)) % ATicketRange
      BY <1>1, <1>3, <3>1, <3>2
    <3>4. QED
      BY <3>3 DEF k
  <2>4. QED
    BY <1>2, <2>1, <2>2, <2>3 DEF GlobalQueueIs
<1>5. ASSUME NEW k \in ATickets, Shown(k)' PROVE k >= ATicketRange - ARRAY_SIZE
  <2>1. k \in Int /\ k >= 0 /\ k <= ATicketRange - 1 /\ ATicketRange \in Int
    BY GlobalTypes DEF ATickets
  <2>2. CASE k = ATicketRange - 1
    BY <2>2, GlobalTypes
  <2>3. CASE k # ATicketRange - 1
    <3>1. k + 1 \in ATickets
      BY <2>1, <2>3 DEF ATickets
    <3>2. Shown(k + 1)
      <4> DEFINE x == (aOutCounter + (k + 1)) % ATicketRange
      <4>1. (aOutCounter' + k) % ATicketRange = x
        BY <1>3, <2>1
      <4>2. spinAreas'[((aOutCounter' + k) % ATicketRange) % ARRAY_SIZE]
                = (aOutCounter' + k) % ATicketRange
        BY <1>5 DEF Shown
      <4>3. spinAreas[x % ARRAY_SIZE] = x
        BY <1>1, <4>1, <4>2
      <4>4. QED
        BY <4>3 DEF Shown
    <3>3. k + 1 = 0 \/ k + 1 > ATicketRange - ARRAY_SIZE
      BY <3>1, <3>2 DEF SpinAreasOK
    <3>4. QED
      BY <2>1, <3>3, GlobalTypes
  <2>4. QED
    BY <2>2, <2>3
<1>6. QED
  BY <1>2, <1>4, <1>5 DEF SpinAreasOK

(* The owner writes the next ticket where its thread looks: the ticket that *)
(* was shown there is overwritten, which is the one a round of the array    *)
(* before.                                                                  *)
LEMMA GlobalPasses ==
    ASSUME TypeOK, NEW w \in Seq(Threads), GlobalQueueIs(w), SpinAreasOK,
           NEW t \in Threads, APass(t, "localUnlock"), Owned' <=> Owned, ~Passing'
    PROVE  GlobalQueueIs(w)' /\ SpinAreasOK'
<1>1. /\ pc[t] = "aPass" /\ pc'[t] = "localUnlock" /\ \A u \in Threads \ {t} : pc'[u] = pc[u]
      /\ spinAreas' = [spinAreas EXCEPT ![aOutCounter % ARRAY_SIZE] = aOutCounter]
      /\ UNCHANGED <<aInCounter, aOutCounter, aTicket>>
  BY DEF APass, Move, TypeOK
<1>2. Passing /\ Ahead' = Ahead
  BY <1>1 DEF Ahead, Passing
<1>3. GlobalQueueIs(w)'
  <2>1. \A u \in Threads : pc'[u] = "globalWait" <=> pc[u] = "globalWait"
    BY <1>1
  <2>2. QED
    BY <1>1, <1>2, <2>1 DEF GlobalQueueIs
<1>4. ASSUME NEW k \in ATickets, Shown(k)' PROVE k = 0 \/ k > ATicketRange - ARRAY_SIZE
  <2> DEFINE x == (aOutCounter + k) % ATicketRange
  <2>1. k \in Int /\ k \in 0 .. ATicketRange - 1
    BY GlobalTypes DEF ATickets
  <2>2. x \in Int /\ x % ARRAY_SIZE = (aOutCounter + k) % ARRAY_SIZE
    <3> DEFINE c == aOutCounter + k
    <3>1. c \in Int
      BY <2>1, GlobalTypes
    <3> HIDE DEF c
    <3>2. ATicketRange \in Nat \ {0} /\ ARRAY_SIZE \in Nat \ {0} /\ ATicketRange % ARRAY_SIZE = 0
      BY GlobalTypes
    <3>3. c % ATicketRange \in Int
      BY <3>1, <3>2
    <3>4. (c % ATicketRange) % ARRAY_SIZE = c % ARRAY_SIZE
      BY <3>1, <3>2, ModOfMod
    <3>5. QED
      BY <3>3, <3>4 DEF c
  <2>3. spinAreas'[x % ARRAY_SIZE] = x
    BY <1>1, <1>4 DEF Shown
  <2>4. x % ARRAY_SIZE \in Elements /\ aOutCounter % ARRAY_SIZE \in Elements
    <3>1. \A y \in Int : y % ARRAY_SIZE \in 0 .. ARRAY_SIZE - 1
      BY GlobalTypes
    <3>2. QED
      BY <2>2, <3>1, GlobalTypes DEF Elements
  <2>5. CASE x % ARRAY_SIZE = aOutCounter % ARRAY_SIZE
    <3>1. x = aOutCounter
      BY <1>1, <2>3, <2>4, <2>5 DEF TypeOK, ATicketTypeOK
    <3>2. (aOutCounter + 0) % ATicketRange = aOutCounter
      BY GlobalTypes, ModSmall
    <3>3. (aOutCounter + k) % ATicketRange = (aOutCounter + 0) % ATicketRange
      BY <3>1, <3>2
    <3>4. 0 \in 0 .. ATicketRange - 1
      BY GlobalTypes
    <3>5. k = 0
      BY <2>1, <3>3, <3>4, GlobalTypes, ModSame
    <3>6. QED
      BY <3>5
  <2>6. CASE x % ARRAY_SIZE # aOutCounter % ARRAY_SIZE
    <3>1. Shown(k)
      BY <1>1, <2>3, <2>4, <2>6 DEF Shown, TypeOK, ATicketTypeOK
    <3>2. k >= ATicketRange - ARRAY_SIZE
      BY <1>2, <3>1 DEF SpinAreasOK
    <3>3. k # ATicketRange - ARRAY_SIZE
      <4>1. ASSUME k = ATicketRange - ARRAY_SIZE PROVE FALSE
        <5>1. (aOutCounter + (ATicketRange - ARRAY_SIZE)) % ARRAY_SIZE = aOutCounter % ARRAY_SIZE
          BY GlobalTypes, ModBack
        <5>2. QED
          BY <2>2, <2>6, <4>1, <5>1
      <4>2. QED
        BY <4>1
    <3>4. QED
      BY <2>1, <3>2, <3>3, GlobalTypes
  <2>7. QED
    BY <2>5, <2>6
<1>5. QED
  BY <1>3, <1>4 DEF SpinAreasOK

(****************************************************************************)
(* The inductive invariant.                                                 *)
(****************************************************************************)
IInv ==
    /\ TypeOK
    /\ LocalQueuesOK
    /\ \E w \in Seq(Threads) : GlobalQueueIs(w)
    /\ SpinAreasOK
    /\ OneOwner

LEMMA InitIInv == Init => IInv
<1> SUFFICES ASSUME Init PROVE IInv
  OBVIOUS
<1> USE DEF Init, TicketInit, ATicketInit
<1> USE TicketRangeAssumption, ArraySizeAssumption, HandOversAssumption
<1>1. pc = [t \in Threads |-> "idle"]
  OBVIOUS
<1>2. ATicketRange \in Nat \ {0} /\ 0 \in ATickets /\ 0 \in Tickets
  <2>1. Cardinality(Threads) \in Nat
    BY FS_CardinalityType
  <2>2. QED
    BY <2>1 DEF ATickets, Tickets
<1>3. TypeOK
  <2>1. pc \in [Threads -> Labels]
    BY <1>1 DEF Labels
  <2>2. TicketTypeOK
    BY <1>2 DEF TicketTypeOK
  <2>3. ATicketTypeOK
    BY <1>2 DEF ATicketTypeOK
  <2>4. needToTakeGlobalLock \in [Nodes -> BOOLEAN]
    BY Zenon
  <2>5. /\ myLocalNode \in [Threads -> Nodes]
        /\ numberOfHandOvers \in [Nodes -> 0 .. MAXIMUM_NUMBER_OF_HAND_OVERS]
        /\ seen \in [Threads -> Tickets \cup ATickets]
    BY <1>2
  <2>6. QED
    BY <2>1, <2>2, <2>3, <2>4, <2>5 DEF TypeOK
<1>4. PICK q \in Seq(Threads) : Len(q) = 0
  <2>1. <<>> \in Seq(Threads) /\ Len(<<>>) = 0
    OBVIOUS
  <2>2. QED
    BY <2>1
<1>5. ASSUME NEW n \in Nodes PROVE LocalQueueIs(n, q)
  <2>1. inCounter[n] = (outCounter[n] + Len(q)) % TicketRange
    <3>1. inCounter[n] = 0 /\ outCounter[n] + Len(q) = 0
      BY <1>4 DEF Nodes
    <3>2. 0 % TicketRange = 0
      BY ModSmall
    <3>3. QED
      BY <3>1, <3>2
  <2>2. QED
    BY <1>1, <1>4, <2>1 DEF LocalQueueIs, InLocal
<1>6. ~Owned /\ ~Passing
  BY <1>1 DEF Owned, Passing
<1>7. GlobalQueueIs(q)
  <2>1. aInCounter = (aOutCounter + (Len(q) + Ahead)) % ATicketRange
    <3>1. aInCounter = 0 /\ aOutCounter + (Len(q) + Ahead) = 0
      BY <1>4, <1>6 DEF Ahead
    <3>2. 0 % ATicketRange = 0
      BY <1>2, ModSmall
    <3>3. QED
      BY <3>1, <3>2
  <2>2. QED
    BY <1>1, <1>4, <2>1 DEF GlobalQueueIs
<1>8. SpinAreasOK
  <2>1. ASSUME NEW k \in ATickets, Shown(k) PROVE k = 0
    <3>1. k \in Int /\ k \in 0 .. ATicketRange - 1 /\ aOutCounter + k = k
      BY <1>2 DEF ATickets
    <3>2. k % ATicketRange = k
      BY <1>2, <3>1, ModSmall
    <3>3. spinAreas[k % ARRAY_SIZE] = k
      BY <2>1, <3>1, <3>2 DEF Shown
    <3>4. k % ARRAY_SIZE \in Elements
      BY <3>1 DEF Elements
    <3>5. QED
      BY <3>3, <3>4
  <2>2. QED
    BY <1>6, <2>1 DEF SpinAreasOK
<1>9. OneOwner
  BY <1>1 DEF OneOwner
<1>10. QED
  BY <1>3, <1>4, <1>5, <1>7, <1>8, <1>9 DEF IInv, LocalQueuesOK

(****************************************************************************)
(* Types.                                                                   *)
(****************************************************************************)
LEMMA NextIsTicket ==
    /\ \A x \in Tickets : NextTicket(x) \in Tickets
    /\ TypeOK => \A x \in ATickets : ANextTicket(x) \in ATickets
<1>1. \A x \in Tickets : NextTicket(x) \in Tickets
  BY TicketRangeAssumption DEF Tickets, NextTicket
<1>2. ASSUME TypeOK, NEW x \in ATickets PROVE ANextTicket(x) \in ATickets
  <2>1. ATicketRange \in Nat \ {0}
    BY <1>2, GlobalTypes
  <2>2. QED
    BY <2>1 DEF ATickets, ANextTicket
<1>3. QED
  BY <1>1, <1>2

LEMMA TypeOKStep ==
    ASSUME TypeOK, NEW t \in Threads, CallTry(t) \/ CallLock(t) \/ Step(t)
    PROVE  TypeOK'
<1> USE DEF TypeOK, TicketTypeOK, ATicketTypeOK, Labels, Move, Nodes,
            ticketVars, aTicketVars, cohortVars
<1>1. CASE CallTry(t)
  BY <1>1 DEF CallTry
<1>2. CASE TryGlobal(t)
  <2>1. /\ pc' \in [Threads -> Labels] /\ UNCHANGED <<ticketVars, aTicketVars, cohortVars, myLocalNode>>
    BY <1>2 DEF TryGlobal
  <2>2. seen' \in [Threads -> Tickets \cup ATickets]
    <3>1. 0 \in Tickets
      BY TicketRangeAssumption DEF Tickets
    <3>2. QED
      BY <1>2, <3>1 DEF TryGlobal
  <2>3. QED
    BY <2>1, <2>2
<1>3. CASE TryLocal(t)
  <2>1. /\ pc' \in [Threads -> Labels] /\ UNCHANGED <<ticketVars, aTicketVars, cohortVars, myLocalNode>>
    BY <1>3 DEF TryLocal
  <2>2. seen' \in [Threads -> Tickets \cup ATickets]
    <3>1. 0 \in Tickets
      BY TicketRangeAssumption DEF Tickets
    <3>2. inCounter[myLocalNode[t]] \in Tickets
      OBVIOUS
    <3>3. QED
      BY <1>3, <3>1, <3>2 DEF TryLocal
  <2>3. QED
    BY <2>1, <2>2
<1>4. CASE CallLock(t) \/ TryLock(t)
  <2>1. PICK n \in Nodes : /\ myLocalNode' = [myLocalNode EXCEPT ![t] = n]
                           /\ TakeTicket(t, n, "idle", "local") \/ TakeTicket(t, n, "enter", "local")
                           /\ UNCHANGED <<aTicketVars, cohortVars, seen>>
    BY <1>4 DEF CallLock, TryLock, Lock
  <2>2. NextTicket(inCounter[n]) \in Tickets
    BY NextIsTicket
  <2>3. QED
    BY <2>1, <2>2 DEF TakeTicket
<1>5. CASE LocalWon(t)
  <2>1. 0 \in Tickets
    BY TicketRangeAssumption DEF Tickets
  <2>2. QED
    BY <1>5, <2>1 DEF LocalWon, TicketIsUp
<1>6. CASE Global(t)
  <2>1. ANextTicket(aInCounter) \in ATickets /\ 0 \in ATickets
    BY NextIsTicket, GlobalTypes DEF ATickets
  <2>2. QED
    BY <1>6, <2>1 DEF Global, ATakeTicket, ATicketIsUp
<1>7. CASE LeaveCritical(t)
  <2> DEFINE n == myLocalNode[t]
  <2>1. n \in Nodes /\ UNCHANGED <<ticketVars, aTicketVars, myLocalNode, seen>>
    BY <1>7 DEF LeaveCritical
  <2>2. HandOver(t, n) \/ GiveUp(t, n)
    BY <1>7 DEF LeaveCritical
  <2> HIDE DEF n
  <2>3. needToTakeGlobalLock' \in [Nodes -> BOOLEAN] /\ pc' \in [Threads -> Labels]
    <3>1. CASE HandOver(t, n)
      BY <3>1 DEF HandOver
    <3>2. CASE GiveUp(t, n)
      BY <3>2 DEF GiveUp
    <3>3. QED
      BY <2>2, <3>1, <3>2
  <2>4. numberOfHandOvers' \in [Nodes -> 0 .. MAXIMUM_NUMBER_OF_HAND_OVERS]
    BY <2>1, <2>2, HandOversAssumption DEF HandOver, GiveUp
  <2>5. QED
    BY <2>1, <2>3, <2>4
<1>8. CASE UnlockGlobal(t)
  <2>1. ANextTicket(aOutCounter) \in ATickets
    BY NextIsTicket
  <2>2. QED
    BY <1>8, <2>1 DEF UnlockGlobal, ACount, APass
<1>9. CASE UnlockLocal(t)
  <2>1. NextTicket(outCounter[myLocalNode[t]]) \in Tickets
    BY NextIsTicket
  <2>2. QED
    BY <1>9, <2>1 DEF UnlockLocal, TicketUnlock
<1>10. QED
  BY <1>1, <1>2, <1>3, <1>4, <1>5, <1>6, <1>7, <1>8, <1>9 DEF Step

(****************************************************************************)
(* The steps, one after the other.                                          *)
(****************************************************************************)
Apart == {"idle", "tryGlobal", "tryLocal", "tryLocalOut", "enter"}

(* A thread outside the lock that stays outside.                            *)
LEMMA OutsideStep ==
    ASSUME IInv, NEW t \in Threads, CallTry(t) \/ TryGlobal(t) \/ TryLocal(t)
    PROVE  LocalQueuesOK' /\ (\E w \in Seq(Threads) : GlobalQueueIs(w)') /\ SpinAreasOK' /\ OneOwner'
<1>1. /\ UNCHANGED <<ticketVars, aTicketVars, cohortVars, myLocalNode>>
      /\ pc[t] \in Apart /\ pc'[t] \in Apart
      /\ \A u \in Threads \ {t} : pc'[u] = pc[u]
  BY DEF CallTry, TryGlobal, TryLocal, Move, IInv, TypeOK, Apart
<1>2. LocalQueuesOK'
  <2>1. ASSUME NEW n \in Nodes PROVE \E q \in Seq(Threads) : LocalQueueIs(n, q)'
    <3>1. PICK q \in Seq(Threads) : LocalQueueIs(n, q)
      BY DEF IInv, LocalQueuesOK
    <3>2. ~InLocal(t, n) /\ ~InLocal(t, n)'
      BY <1>1 DEF InLocal, Apart
    <3>3. LocalQueueIs(n, q)'
      BY <1>1, <3>1, <3>2, LocalQueueStays DEF IInv, ticketVars, cohortVars
    <3>4. QED
      BY <3>3
  <2>2. QED
    BY <2>1 DEF LocalQueuesOK, Nodes
<1>3. (Owned' <=> Owned) /\ (Passing' <=> Passing)
  BY <1>1 DEF Owned, Passing, Apart, cohortVars
<1>4. \A u \in Threads : pc'[u] = "globalWait" <=> pc[u] = "globalWait"
  BY <1>1 DEF Apart
<1>5. (\E w \in Seq(Threads) : GlobalQueueIs(w)') /\ SpinAreasOK'
  BY <1>1, <1>3, <1>4, GlobalStays DEF IInv
<1>6. OneOwner'
  BY <1>1 DEF IInv, OneOwner, Apart, cohortVars
<1>7. QED
  BY <1>2, <1>5, <1>6

(* A thread draws the ticket of a node.                                     *)
LEMMA LockStep ==
    ASSUME IInv, NEW t \in Threads, CallLock(t) \/ TryLock(t)
    PROVE  LocalQueuesOK' /\ (\E w \in Seq(Threads) : GlobalQueueIs(w)') /\ SpinAreasOK' /\ OneOwner'
<1>1. PICK n \in Nodes, from \in {"idle", "enter"} :
          /\ myLocalNode' = [myLocalNode EXCEPT ![t] = n]
          /\ TakeTicket(t, n, from, "local")
          /\ UNCHANGED <<aTicketVars, cohortVars, seen>>
  BY DEF CallLock, TryLock, Lock
<1>2. /\ pc[t] \in Apart /\ pc'[t] = "local"
      /\ \A u \in Threads \ {t} :
             pc'[u] = pc[u] /\ myTicket'[u] = myTicket[u] /\ myLocalNode'[u] = myLocalNode[u]
      /\ \A m \in Nodes \ {n} : inCounter'[m] = inCounter[m]
      /\ outCounter' = outCounter /\ needToTakeGlobalLock' = needToTakeGlobalLock
      /\ myLocalNode'[t] = n
  BY <1>1 DEF TakeTicket, Move, IInv, TypeOK, TicketTypeOK, Nodes, Apart, cohortVars
<1>3. LocalQueuesOK'
  <2>1. ASSUME NEW m \in Nodes PROVE \E q \in Seq(Threads) : LocalQueueIs(m, q)'
    <3>1. PICK q \in Seq(Threads) : LocalQueueIs(m, q)
      BY DEF IInv, LocalQueuesOK
    <3>2. ~InLocal(t, m)
      BY <1>2 DEF InLocal, Apart
    <3>3. CASE m = n
      <4>1. LocalQueueIs(m, Append(q, t))'
        BY <1>1, <1>2, <3>1, <3>2, <3>3, LocalQueueGrows DEF IInv
      <4>2. Append(q, t) \in Seq(Threads)
        OBVIOUS
      <4>3. QED
        BY <4>1, <4>2
    <3>4. CASE m # n
      <4>1. ~InLocal(t, m)'
        BY <1>2, <3>4 DEF InLocal
      <4>2. LocalQueueIs(m, q)'
        BY <1>2, <3>1, <3>2, <3>4, <4>1, LocalQueueStays DEF IInv
      <4>3. QED
        BY <4>2
    <3>5. QED
      BY <3>3, <3>4
  <2>2. QED
    BY <2>1 DEF LocalQueuesOK, Nodes
<1>4. (Owned' <=> Owned) /\ (Passing' <=> Passing)
  BY <1>2 DEF Owned, Passing, Apart
<1>5. \A u \in Threads : pc'[u] = "globalWait" <=> pc[u] = "globalWait"
  BY <1>2 DEF Apart
<1>6. (\E w \in Seq(Threads) : GlobalQueueIs(w)') /\ SpinAreasOK'
  BY <1>1, <1>4, <1>5, GlobalStays DEF IInv
<1>7. OneOwner'
  BY <1>2 DEF IInv, OneOwner, Apart
<1>8. QED
  BY <1>3, <1>6, <1>7

(* A step of a thread past its local lock, or that gets past it, leaves the *)
(* queues of the nodes alone.                                               *)
LEMMA InsideKeepsLocalQueues ==
    ASSUME IInv, NEW t \in Threads, NEW n \in Nodes, myLocalNode[t] = n,
           UNCHANGED <<inCounter, outCounter, myLocalNode>>,
           \A u \in Threads \ {t} : pc'[u] = pc[u] /\ myTicket'[u] = myTicket[u],
           \A m \in Nodes \ {n} : needToTakeGlobalLock'[m] = needToTakeGlobalLock[m],
           pc[t] \in LocalHolderLabels \/ (pc[t] = "local" /\ myTicket[t] = outCounter[n]),
           pc'[t] \in LocalHolderLabels,
           ~needToTakeGlobalLock'[n] =>
               \/ pc'[t] = "critical"
               \/ pc'[t] = "localUnlock" /\ NodeHasWaitingThreads(n)
    PROVE  LocalQueuesOK'
<1>1. ASSUME NEW m \in Nodes PROVE \E q \in Seq(Threads) : LocalQueueIs(m, q)'
  <2>1. PICK q \in Seq(Threads) : LocalQueueIs(m, q)
    BY DEF IInv, LocalQueuesOK
  <2>2. CASE m = n
    <3>1. InLocal(t, n) /\ InLocal(t, n)'
      BY DEF InLocal
    <3>2. LocalQueueIs(n, q)'
      BY <2>1, <2>2, <3>1, LocalQueueStays DEF IInv
    <3>3. QED
      BY <2>2, <3>2
  <2>3. CASE m # n
    <3>1. ~InLocal(t, m) /\ ~InLocal(t, m)'
      BY <2>3 DEF InLocal
    <3>2. LocalQueueIs(m, q)'
      BY <2>1, <2>3, <3>1, LocalQueueStays DEF IInv
    <3>3. QED
      BY <3>2
  <2>4. QED
    BY <2>2, <2>3
<1>2. QED
  BY <1>1 DEF LocalQueuesOK, Nodes

(* While the thread of a node has yet to take the global lock or is giving  *)
(* it up, the node does not own it.                                         *)
LEMMA NeedsGlobal ==
    ASSUME IInv, NEW t \in Threads, pc[t] \in {"global", "globalWait", "globalUnlock", "aPass"}
    PROVE  needToTakeGlobalLock[myLocalNode[t]]
<1> DEFINE n == myLocalNode[t]
<1>1. n \in Nodes
  BY DEF IInv, TypeOK
<1>2. PICK q \in Seq(Threads) : LocalQueueIs(n, q)
  BY <1>1 DEF IInv, LocalQueuesOK
<1>3. InLocal(t, n)
  BY DEF InLocal
<1>4. q[1] = t
  BY <1>1, <1>2, <1>3, LocalHead DEF IInv
<1>5. QED
  BY <1>2, <1>4 DEF LocalQueueIs

(* The first of the node's queue is past the local lock. If the node owns   *)
(* the global lock it is in, and it is alone: another holder would be the   *)
(* first of the same queue.                                                 *)
LEMMA LocalWonStep ==
    ASSUME IInv, NEW t \in Threads, LocalWon(t)
    PROVE  LocalQueuesOK' /\ (\E w \in Seq(Threads) : GlobalQueueIs(w)') /\ SpinAreasOK' /\ OneOwner'
<1> DEFINE n == myLocalNode[t]
<1>0. n \in Nodes /\ DOMAIN pc = Threads /\ DOMAIN myTicket = Threads
  BY DEF IInv, TypeOK, TicketTypeOK
<1>1. /\ outCounter[n] = myTicket[t] /\ pc[t] = "local"
      /\ pc'[t] = IF needToTakeGlobalLock[n] THEN "global" ELSE "critical"
      /\ \A u \in Threads \ {t} : pc'[u] = pc[u] /\ myTicket'[u] = myTicket[u]
      /\ UNCHANGED <<inCounter, outCounter, aTicketVars, needToTakeGlobalLock, myLocalNode>>
  BY <1>0 DEF LocalWon, TicketIsUp, Move, cohortVars
<1>2. LocalQueuesOK'
  BY <1>0, <1>1, InsideKeepsLocalQueues
<1>3. (Owned' <=> Owned) /\ (Passing' <=> Passing)
  BY <1>0, <1>1 DEF Owned, Passing
<1>4. \A u \in Threads : pc'[u] = "globalWait" <=> pc[u] = "globalWait"
  BY <1>1
<1>5. (\E w \in Seq(Threads) : GlobalQueueIs(w)') /\ SpinAreasOK'
  BY <1>1, <1>3, <1>4, GlobalStays DEF IInv
<1>6. CASE needToTakeGlobalLock[n]
  <2>1. OneOwner'
    BY <1>1, <1>6 DEF IInv, OneOwner
  <2>2. QED
    BY <1>2, <1>5, <2>1
<1>7. CASE ~needToTakeGlobalLock[n]
  <2>1. ASSUME NEW u \in Threads, pc[u] \in HolderLabels PROVE FALSE
    <3>1. myLocalNode[u] = n /\ pc[u] = "critical"
      BY <1>0, <1>7, <2>1 DEF IInv, OneOwner
    <3>2. InLocal(u, n) /\ InLocal(t, n)
      BY <1>1, <3>1 DEF InLocal
    <3>3. PICK q \in Seq(Threads) : LocalQueueIs(n, q)
      BY <1>0 DEF IInv, LocalQueuesOK
    <3>4. q[1] = t
      BY <1>0, <1>1, <3>2, <3>3, LocalHead DEF IInv
    <3>5. q[1] = u
      BY <1>0, <3>1, <3>2, <3>3, LocalHead DEF IInv
    <3>6. QED
      BY <1>1, <3>1, <3>4, <3>5
  <2>2. \A m \in Nodes : ~needToTakeGlobalLock[m] => m = n
    BY <1>0, <1>7 DEF IInv, OneOwner
  <2>3. OneOwner'
    BY <1>1, <1>7, <2>1, <2>2 DEF IInv, OneOwner
  <2>4. QED
    BY <1>2, <1>5, <2>3
<1>8. QED
  BY <1>6, <1>7

(* A thread draws a ticket of the global lock, or gets in: then nobody is   *)
(* in and no node owns the lock.                                            *)
LEMMA GlobalStep ==
    ASSUME IInv, NEW t \in Threads, Global(t)
    PROVE  LocalQueuesOK' /\ (\E w \in Seq(Threads) : GlobalQueueIs(w)') /\ SpinAreasOK' /\ OneOwner'
<1> DEFINE n == myLocalNode[t]
<1>0. n \in Nodes /\ DOMAIN pc = Threads /\ TypeOK
  BY DEF IInv, TypeOK
<1>1. /\ UNCHANGED <<inCounter, outCounter, myTicket, needToTakeGlobalLock, myLocalNode>>
      /\ \A u \in Threads \ {t} : pc'[u] = pc[u]
      /\ \/ ATakeTicket(t, "global", "globalWait") /\ pc[t] = "global" /\ pc'[t] = "globalWait"
         \/ ATicketIsUp(t, "globalWait", "critical") /\ pc[t] = "globalWait" /\ pc'[t] = "critical"
  BY <1>0 DEF Global, ATakeTicket, ATicketIsUp, Move, ticketVars, cohortVars
<1>2. needToTakeGlobalLock[n]
  BY <1>1, NeedsGlobal
<1>3. LocalQueuesOK'
  BY <1>0, <1>1, <1>2, InsideKeepsLocalQueues
<1>4. PICK w \in Seq(Threads) : GlobalQueueIs(w)
  BY DEF IInv
<1>5. CASE ATakeTicket(t, "global", "globalWait") /\ pc[t] = "global" /\ pc'[t] = "globalWait"
  <2>1. (Owned' <=> Owned) /\ (Passing' <=> Passing)
    BY <1>1, <1>5 DEF Owned, Passing
  <2>2. GlobalQueueIs(Append(w, t))' /\ SpinAreasOK'
    BY <1>0, <1>4, <1>5, <2>1, GlobalGrows DEF IInv
  <2>3. Append(w, t) \in Seq(Threads)
    OBVIOUS
  <2>4. OneOwner'
    BY <1>1, <1>5 DEF IInv, OneOwner
  <2>5. QED
    BY <1>3, <2>2, <2>3, <2>4
<1>6. CASE ATicketIsUp(t, "globalWait", "critical") /\ pc[t] = "globalWait" /\ pc'[t] = "critical"
  <2>1. Tail(w) \in Seq(Threads) /\ GlobalQueueIs(Tail(w))' /\ SpinAreasOK'
    BY <1>0, <1>1, <1>4, <1>6, GlobalEnters DEF IInv
  <2>2. ~Owned /\ ~Passing
    BY <1>0, <1>4, <1>6, TicketUpIsFirst DEF IInv
  <2>3. \A u \in Threads : pc[u] \notin HolderLabels
    BY <2>2 DEF Owned, Passing
  <2>4. \A m \in Nodes : needToTakeGlobalLock[m]
    BY <2>2 DEF Owned
  <2>5. OneOwner'
    BY <1>1, <1>6, <2>3, <2>4 DEF OneOwner
  <2>6. QED
    BY <1>3, <2>1, <2>5
<1>7. QED
  BY <1>1, <1>5, <1>6

(* The end of the critical section: the lock stays with the node or is to   *)
(* be given up; in both cases it is still owned.                            *)
LEMMA LeaveStep ==
    ASSUME IInv, NEW t \in Threads, LeaveCritical(t)
    PROVE  LocalQueuesOK' /\ (\E w \in Seq(Threads) : GlobalQueueIs(w)') /\ SpinAreasOK' /\ OneOwner'
<1> DEFINE n == myLocalNode[t]
<1>0. /\ n \in Nodes /\ DOMAIN pc = Threads
      /\ needToTakeGlobalLock \in [Nodes -> BOOLEAN]
  BY DEF IInv, TypeOK
<1>1. /\ UNCHANGED <<inCounter, outCounter, myTicket, aTicketVars, myLocalNode>>
      /\ pc[t] = "critical" /\ \A u \in Threads \ {t} : pc'[u] = pc[u]
      /\ \A m \in Nodes \ {n} : needToTakeGlobalLock'[m] = needToTakeGlobalLock[m]
      /\ \/ ~needToTakeGlobalLock'[n] /\ pc'[t] = "localUnlock" /\ NodeHasWaitingThreads(n)
         \/ needToTakeGlobalLock'[n] /\ pc'[t] = "globalUnlock"
  BY <1>0 DEF LeaveCritical, HandOver, GiveUp, Move, ticketVars
<1>2. LocalQueuesOK'
  BY <1>0, <1>1, InsideKeepsLocalQueues
<1>3. \A u \in Threads \ {t} : pc[u] \notin HolderLabels
  BY <1>1 DEF IInv, OneOwner
<1>4. \A m \in Nodes \ {n} : needToTakeGlobalLock[m]
  BY <1>1 DEF IInv, OneOwner
<1>5. Owned /\ Owned'
  <2>1. Owned
    BY <1>1 DEF Owned
  <2>2. Owned'
    BY <1>0, <1>1 DEF Owned, Nodes
  <2>3. QED
    BY <2>1, <2>2
<1>6. ~Passing /\ ~Passing'
  <2>1. ~Passing
    BY <1>1, <1>3 DEF Passing
  <2>2. ~Passing'
    BY <1>1, <1>3 DEF Passing
  <2>3. QED
    BY <2>1, <2>2
<1>7. \A u \in Threads : pc'[u] = "globalWait" <=> pc[u] = "globalWait"
  BY <1>1
<1>8. (\E w \in Seq(Threads) : GlobalQueueIs(w)') /\ SpinAreasOK'
  BY <1>1, <1>5, <1>6, <1>7, GlobalStays DEF IInv
<1>9. OneOwner'
  BY <1>0, <1>1, <1>3, <1>4 DEF OneOwner
<1>10. QED
  BY <1>2, <1>8, <1>9

(* The owner counts itself out and lets the next one in.                    *)
LEMMA UnlockGlobalStep ==
    ASSUME IInv, NEW t \in Threads, UnlockGlobal(t)
    PROVE  LocalQueuesOK' /\ (\E w \in Seq(Threads) : GlobalQueueIs(w)') /\ SpinAreasOK' /\ OneOwner'
<1> DEFINE n == myLocalNode[t]
<1>0. n \in Nodes /\ DOMAIN pc = Threads /\ TypeOK
  BY DEF IInv, TypeOK
<1>1. /\ UNCHANGED <<inCounter, outCounter, myTicket, needToTakeGlobalLock, myLocalNode>>
      /\ \A u \in Threads \ {t} : pc'[u] = pc[u]
      /\ \/ ACount(t, "globalUnlock") /\ pc[t] = "globalUnlock" /\ pc'[t] = "aPass"
         \/ APass(t, "localUnlock") /\ pc[t] = "aPass" /\ pc'[t] = "localUnlock"
  BY <1>0 DEF UnlockGlobal, ACount, APass, Move, ticketVars, cohortVars
<1>2. needToTakeGlobalLock[n]
  BY <1>1, NeedsGlobal
<1>3. LocalQueuesOK'
  BY <1>0, <1>1, <1>2, InsideKeepsLocalQueues
<1>4. PICK w \in Seq(Threads) : GlobalQueueIs(w)
  BY DEF IInv
<1>5. \A u \in Threads \ {t} : pc[u] \notin HolderLabels
  BY <1>1 DEF IInv, OneOwner
<1>6. \A m \in Nodes : needToTakeGlobalLock[m]
  BY <1>1 DEF IInv, OneOwner
<1>7. OneOwner'
  BY <1>1, <1>5, <1>6 DEF OneOwner
<1>8. CASE ACount(t, "globalUnlock") /\ pc[t] = "globalUnlock" /\ pc'[t] = "aPass"
  <2>1. Owned
    BY <1>8 DEF Owned
  <2>2. ~Owned'
    BY <1>1, <1>5, <1>6, <1>8 DEF Owned, Nodes
  <2>3. ~Passing
    BY <1>5, <1>8 DEF Passing
  <2>4. GlobalQueueIs(w)' /\ SpinAreasOK'
    BY <1>0, <1>4, <1>8, <2>1, <2>2, <2>3, GlobalCounts DEF IInv
  <2>5. QED
    BY <1>3, <1>7, <2>4
<1>9. CASE APass(t, "localUnlock") /\ pc[t] = "aPass" /\ pc'[t] = "localUnlock"
  <2>1. Owned' <=> Owned
    BY <1>1, <1>5, <1>6, <1>9 DEF Owned, Nodes
  <2>2. ~Passing'
    BY <1>1, <1>5, <1>9 DEF Passing
  <2>3. GlobalQueueIs(w)' /\ SpinAreasOK'
    BY <1>0, <1>4, <1>9, <2>1, <2>2, GlobalPasses DEF IInv
  <2>4. QED
    BY <1>3, <1>7, <2>3
<1>10. QED
  BY <1>1, <1>8, <1>9

(* The local lock is released.                                              *)
LEMMA UnlockLocalStep ==
    ASSUME IInv, NEW t \in Threads, UnlockLocal(t)
    PROVE  LocalQueuesOK' /\ (\E w \in Seq(Threads) : GlobalQueueIs(w)') /\ SpinAreasOK' /\ OneOwner'
<1> DEFINE n == myLocalNode[t]
<1>0. n \in Nodes /\ DOMAIN pc = Threads /\ TypeOK
  BY DEF IInv, TypeOK
<1>1. /\ TicketUnlock(t, n, "localUnlock", "idle")
      /\ UNCHANGED <<aTicketVars, needToTakeGlobalLock, myLocalNode, inCounter, myTicket>>
      /\ pc[t] = "localUnlock" /\ pc'[t] = "idle" /\ \A u \in Threads \ {t} : pc'[u] = pc[u]
      /\ \A m \in Nodes \ {n} : outCounter'[m] = outCounter[m]
  BY <1>0 DEF UnlockLocal, TicketUnlock, Move, cohortVars, TypeOK, TicketTypeOK, Nodes
<1>2. LocalQueuesOK'
  <2>1. ASSUME NEW m \in Nodes PROVE \E q \in Seq(Threads) : LocalQueueIs(m, q)'
    <3>1. PICK q \in Seq(Threads) : LocalQueueIs(m, q)
      BY DEF IInv, LocalQueuesOK
    <3>2. CASE m = n
      <4>1. InLocal(t, m)
        BY <1>1, <3>2 DEF InLocal
      <4>2. Tail(q) \in Seq(Threads) /\ LocalQueueIs(m, Tail(q))'
        BY <1>0, <1>1, <3>1, <3>2, <4>1, LocalQueueShrinks
      <4>3. QED
        BY <4>2
    <3>3. CASE m # n
      <4>1. ~InLocal(t, m) /\ ~InLocal(t, m)'
        BY <1>1, <3>3 DEF InLocal
      <4>2. LocalQueueIs(m, q)'
        BY <1>0, <1>1, <3>1, <3>3, <4>1, LocalQueueStays
      <4>3. QED
        BY <4>2
    <3>4. QED
      BY <3>2, <3>3
  <2>2. QED
    BY <2>1 DEF LocalQueuesOK, Nodes
<1>3. (Owned' <=> Owned) /\ (Passing' <=> Passing)
  BY <1>1 DEF Owned, Passing
<1>4. \A u \in Threads : pc'[u] = "globalWait" <=> pc[u] = "globalWait"
  BY <1>1
<1>5. (\E w \in Seq(Threads) : GlobalQueueIs(w)') /\ SpinAreasOK'
  BY <1>1, <1>3, <1>4, GlobalStays DEF IInv
<1>6. OneOwner'
  BY <1>1 DEF IInv, OneOwner
<1>7. QED
  BY <1>2, <1>5, <1>6

LEMMA IInvStep == IInv /\ [Next]_vars => IInv'
<1> SUFFICES ASSUME IInv, [Next]_vars PROVE IInv'
  OBVIOUS
<1>1. CASE UNCHANGED vars
  <2>1. UNCHANGED <<pc, inCounter, outCounter, myTicket, aInCounter, aOutCounter, spinAreas,
                    aTicket, numberOfHandOvers, needToTakeGlobalLock, myLocalNode, seen>>
    BY <1>1 DEF vars, ticketVars, aTicketVars, cohortVars
  <2>2. TypeOK' /\ OneOwner'
    BY <2>1 DEF IInv, TypeOK, TicketTypeOK, ATicketTypeOK, OneOwner
  <2>3. \A n \in Nodes, q \in Seq(Threads) : LocalQueueIs(n, q) => LocalQueueIs(n, q)'
    BY <2>1 DEF LocalQueueIs, InLocal
  <2>4. (Owned' <=> Owned) /\ (Passing' <=> Passing)
    BY <2>1 DEF Owned, Passing
  <2>5. (\E w \in Seq(Threads) : GlobalQueueIs(w)') /\ SpinAreasOK'
    BY <2>1, <2>4, GlobalStays DEF IInv, aTicketVars
  <2>6. LocalQueuesOK'
    BY <2>3 DEF IInv, LocalQueuesOK, Nodes
  <2>7. QED
    BY <2>2, <2>5, <2>6 DEF IInv
<1>2. ASSUME NEW t \in Threads, CallTry(t) \/ CallLock(t) \/ Step(t) PROVE IInv'
  <2>1. TypeOK'
    BY <1>2, TypeOKStep DEF IInv
  <2>2. CASE CallTry(t) \/ TryGlobal(t) \/ TryLocal(t)
    BY <2>1, <2>2, OutsideStep DEF IInv
  <2>3. CASE CallLock(t) \/ TryLock(t)
    BY <2>1, <2>3, LockStep DEF IInv
  <2>4. CASE LocalWon(t)
    BY <2>1, <2>4, LocalWonStep DEF IInv
  <2>5. CASE Global(t)
    BY <2>1, <2>5, GlobalStep DEF IInv
  <2>6. CASE LeaveCritical(t)
    BY <2>1, <2>6, LeaveStep DEF IInv
  <2>7. CASE UnlockGlobal(t)
    BY <2>1, <2>7, UnlockGlobalStep DEF IInv
  <2>8. CASE UnlockLocal(t)
    BY <2>1, <2>8, UnlockLocalStep DEF IInv
  <2>9. QED
    BY <1>2, <2>2, <2>3, <2>4, <2>5, <2>6, <2>7, <2>8 DEF Step
<1>3. QED
  BY <1>1, <1>2 DEF Next

LEMMA Invariant == Spec => []IInv
BY InitIInv, IInvStep, PTL DEF Spec

(****************************************************************************)
(* What the lock promises.                                                  *)
(****************************************************************************)

(* Every variable stays in its type; numberOfHandOvers never exceeds        *)
(* MAXIMUM_NUMBER_OF_HAND_OVERS.                                            *)
THEOREM TypeCorrect == Spec => []TypeOK
<1>1. IInv => TypeOK
  BY DEF IInv
<1>2. QED
  BY <1>1, Invariant, PTL

(* cohortlock_write_read_lock: one thread is in, of whatever node, and one  *)
(* thread of a node is past the node's lock.                                *)
THEOREM Exclusion == Spec => []MutualExclusion
<1>1. IInv => MutualExclusion
  <2> SUFFICES ASSUME IInv, NEW t \in Threads, NEW u \in Threads, t # u
               PROVE  /\ ~(pc[t] \in HolderLabels /\ pc[u] \in HolderLabels)
                      /\ pc[t] \in LocalHolderLabels /\ pc[u] \in LocalHolderLabels =>
                            myLocalNode[t] # myLocalNode[u]
    BY DEF MutualExclusion
  <2>1. ~(pc[t] \in HolderLabels /\ pc[u] \in HolderLabels)
    BY DEF IInv, OneOwner
  <2>2. ASSUME pc[t] \in LocalHolderLabels, pc[u] \in LocalHolderLabels,
               myLocalNode[t] = myLocalNode[u]
        PROVE  FALSE
    <3> DEFINE n == myLocalNode[t]
    <3>1. n \in Nodes
      BY DEF IInv, TypeOK
    <3>2. PICK q \in Seq(Threads) : LocalQueueIs(n, q)
      BY <3>1 DEF IInv, LocalQueuesOK
    <3>3. InLocal(t, n) /\ InLocal(u, n)
      BY <2>2 DEF InLocal
    <3>4. q[1] = t
      BY <2>2, <3>1, <3>2, <3>3, LocalHead DEF IInv
    <3>5. q[1] = u
      BY <2>2, <3>1, <3>2, <3>3, LocalHead DEF IInv
    <3>6. QED
      BY <3>4, <3>5
  <2>3. QED
    BY <2>1, <2>2
<1>2. QED
  BY <1>1, Invariant, PTL

(* cohortlock_write_read_unlock hands the global lock over only to a thread *)
(* of its node that takes it, and the lock looks taken all the while.       *)
THEOREM TakerExists == Spec => []HandOverHasTaker
<1>1. IInv => HandOverHasTaker
  <2> SUFFICES ASSUME IInv, NEW n \in Nodes, ~needToTakeGlobalLock[n]
               PROVE  /\ \E t \in Threads : myLocalNode[t] = n /\ pc[t] \in {"local", "critical"}
                      /\ aInCounter # aOutCounter
    BY DEF HandOverHasTaker
  <2>1. PICK q \in Seq(Threads) : LocalQueueIs(n, q)
    BY DEF IInv, LocalQueuesOK
  <2>2. \E i \in 1 .. Len(q) : pc[q[i]] \in {"local", "critical"}
    <3>1. CASE pc[q[1]] \in {"local", "critical"}
      BY <2>1, <3>1 DEF LocalQueueIs
    <3>2. CASE pc[q[1]] \notin {"local", "critical"}
      <4>1. Len(q) > 1
        BY <2>1, <3>2 DEF LocalQueueIs
      <4>2. pc[q[2]] = "local"
        BY <2>1, <4>1 DEF LocalQueueIs
      <4>3. QED
        BY <4>1, <4>2
    <3>3. QED
      BY <3>1, <3>2
  <2>3. PICK i \in 1 .. Len(q) : pc[q[i]] \in {"local", "critical"}
    BY <2>2
  <2>4. q[i] \in Threads /\ InLocal(q[i], n)
    BY <2>1 DEF LocalQueueIs
  <2>5. aInCounter # aOutCounter
    <3>1. PICK w \in Seq(Threads) : GlobalQueueIs(w)
      BY DEF IInv
    <3>2. TypeOK /\ Ahead = 1
      BY DEF IInv, Ahead, Owned
    <3> DEFINE k == Len(w) + 1
    <3>3. k \in 0 .. ATicketRange - 1 /\ k # 0 /\ 0 \in 0 .. ATicketRange - 1
      <4>1. Len(w) + 1 <= Cardinality(Threads)
        BY <3>1, <3>2, WaitersFit DEF IInv
      <4>2. QED
        BY <3>2, <4>1, GlobalTypes
    <3>4. aInCounter = (aOutCounter + k) % ATicketRange
      BY <3>1, <3>2 DEF GlobalQueueIs
    <3> HIDE DEF k
    <3>5. (aOutCounter + 0) % ATicketRange = aOutCounter
      <4>1. aOutCounter % ATicketRange = aOutCounter
        BY <3>2, GlobalTypes, ModSmall
      <4>2. aOutCounter + 0 = aOutCounter
        BY <3>2, GlobalTypes
      <4>3. QED
        BY <4>1, <4>2
    <3>6. (aOutCounter + k) % ATicketRange # (aOutCounter + 0) % ATicketRange
      <4>1. aOutCounter \in Int /\ ATicketRange \in Nat \ {0}
        BY <3>2, GlobalTypes
      <4>2. ASSUME (aOutCounter + k) % ATicketRange = (aOutCounter + 0) % ATicketRange
            PROVE  FALSE
        <5>1. k = 0
          BY <3>3, <4>1, <4>2, ModSame
        <5>2. QED
          BY <3>3, <5>1
      <4>3. QED
        BY <4>2
    <3>7. QED
      BY <3>4, <3>5, <3>6
  <2>6. QED
    BY <2>3, <2>4, <2>5 DEF InLocal
<1>2. QED
  BY <1>1, Invariant, PTL
=============================================================================
