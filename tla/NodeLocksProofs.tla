--------------------------- MODULE NodeLocksProofs ---------------------------

(****************************************************************************)
(* Proofs about the family of delegation locks, for any set of threads and  *)
(* any set of NUMA nodes. For each of the builds: writers exclude each      *)
(* other and the readers, and no flush leaves its array. For each build but *)
(* newrep_variable: a free lock owes no entry of its queue, and a thread's  *)
(* own operations run in the order of its calls.                            *)
(*                                                                          *)
(* What a thread holds follows from what is left of its call, so the        *)
(* invariants speak of sequences of labels: what the builds' tables of      *)
(* calls have in common is shown once for each build, and every step then   *)
(* keeps it for all of them together.                                       *)
(****************************************************************************)
EXTENDS NodeLocks, SequenceTheorems, TLAPS

(****************************************************************************)
(* What is left of a call, as a sequence of labels.                         *)
(****************************************************************************)
Has(c, l) == \E i \in DOMAIN c : c[i] = l

(* Each label of A is followed by an l; none of them is.                    *)
Then(c, A, l) == \A i \in DOMAIN c : c[i] \in A => \E j \in DOMAIN c : i < j /\ c[j] = l
NotAfter(c, A, l) == \A i, j \in DOMAIN c : i < j /\ c[i] \in A => c[j] # l

LEMMA TailIs ==
    ASSUME NEW S, NEW c \in Seq(S), c # <<>>
    PROVE  /\ Tail(c) \in Seq(S) /\ Head(c) \in S /\ Head(c) = c[1]
           /\ Len(c) \in Nat /\ Len(c) >= 1 /\ Len(Tail(c)) = Len(c) - 1
           /\ DOMAIN c = 1 .. Len(c) /\ DOMAIN Tail(c) = 1 .. Len(c) - 1
           /\ \A i \in 1 .. Len(c) - 1 : Tail(c)[i] = c[i + 1]
OBVIOUS

LEMMA HasTail ==
    ASSUME NEW S, NEW c \in Seq(S), c # <<>>, NEW l
    PROVE  Has(c, l) <=> Head(c) = l \/ Has(Tail(c), l)
<1>1. ASSUME NEW i \in DOMAIN c, c[i] = l, Head(c) # l
      PROVE  Has(Tail(c), l)
  <2>1. i - 1 \in DOMAIN Tail(c) /\ Tail(c)[i - 1] = c[i]
    BY <1>1, TailIs
  <2>2. QED
    BY <1>1, <2>1 DEF Has
<1>2. ASSUME NEW i \in DOMAIN Tail(c), Tail(c)[i] = l
      PROVE  Has(c, l)
  BY <1>2, TailIs DEF Has
<1>3. 1 \in DOMAIN c /\ c[1] = Head(c)
  BY TailIs
<1>4. QED
  BY <1>1, <1>2, <1>3 DEF Has

LEMMA ThenTail ==
    ASSUME NEW S, NEW c \in Seq(S), c # <<>>, NEW A, NEW l
    PROVE  Then(c, A, l) <=> Then(Tail(c), A, l) /\ (Head(c) \in A => Has(Tail(c), l))
<1>1. ASSUME Then(c, A, l), NEW i \in DOMAIN Tail(c), Tail(c)[i] \in A
      PROVE  \E j \in DOMAIN Tail(c) : i < j /\ Tail(c)[j] = l
  <2>1. i + 1 \in DOMAIN c /\ c[i + 1] = Tail(c)[i] /\ i \in Nat
    BY TailIs
  <2>2. PICK k \in DOMAIN c : i + 1 < k /\ c[k] = l
    BY <1>1, <2>1 DEF Then
  <2>3. k - 1 \in DOMAIN Tail(c) /\ Tail(c)[k - 1] = c[k] /\ i < k - 1
    BY <2>1, <2>2, TailIs
  <2>4. QED
    BY <2>2, <2>3
<1>2. ASSUME Then(c, A, l), Head(c) \in A
      PROVE  Has(Tail(c), l)
  <2>1. 1 \in DOMAIN c /\ c[1] = Head(c)
    BY TailIs
  <2>2. PICK k \in DOMAIN c : 1 < k /\ c[k] = l
    BY <1>2, <2>1 DEF Then
  <2>3. k - 1 \in DOMAIN Tail(c) /\ Tail(c)[k - 1] = c[k]
    BY <2>2, TailIs
  <2>4. QED
    BY <2>2, <2>3 DEF Has
<1>3. ASSUME Then(Tail(c), A, l), Head(c) \in A => Has(Tail(c), l),
             NEW i \in DOMAIN c, c[i] \in A
      PROVE  \E j \in DOMAIN c : i < j /\ c[j] = l
  <2>1. CASE i = 1
    BY <1>3, <2>1, TailIs DEF Has
  <2>2. CASE i # 1
    <3>1. i - 1 \in DOMAIN Tail(c) /\ Tail(c)[i - 1] = c[i]
      BY <2>2, TailIs
    <3>2. PICK k \in DOMAIN Tail(c) : i - 1 < k /\ Tail(c)[k] = l
      BY <1>3, <3>1 DEF Then
    <3>3. k + 1 \in DOMAIN c /\ c[k + 1] = Tail(c)[k] /\ i < k + 1
      BY <3>2, TailIs
    <3>4. QED
      BY <3>2, <3>3
  <2>3. QED
    BY <2>1, <2>2
<1>4. QED
  BY <1>1, <1>2, <1>3 DEF Then

LEMMA NotAfterTail ==
    ASSUME NEW S, NEW c \in Seq(S), c # <<>>, NEW A, NEW l
    PROVE  NotAfter(c, A, l) <=> NotAfter(Tail(c), A, l) /\ (Head(c) \in A => ~Has(Tail(c), l))
<1>1. ASSUME NotAfter(c, A, l), NEW i \in DOMAIN Tail(c), NEW j \in DOMAIN Tail(c),
             i < j, Tail(c)[i] \in A
      PROVE  Tail(c)[j] # l
  BY <1>1, TailIs DEF NotAfter
<1>2. ASSUME NotAfter(c, A, l), Head(c) \in A, NEW j \in DOMAIN Tail(c)
      PROVE  Tail(c)[j] # l
  BY <1>2, TailIs DEF NotAfter
<1>3. ASSUME NotAfter(Tail(c), A, l), Head(c) \in A => ~Has(Tail(c), l),
             NEW i \in DOMAIN c, NEW j \in DOMAIN c, i < j, c[i] \in A
      PROVE  c[j] # l
  <2>1. j - 1 \in DOMAIN Tail(c) /\ Tail(c)[j - 1] = c[j]
    BY <1>3, TailIs
  <2>2. CASE i = 1
    BY <1>3, <2>1, <2>2, TailIs DEF Has
  <2>3. CASE i # 1
    <3>1. i - 1 \in DOMAIN Tail(c) /\ Tail(c)[i - 1] = c[i] /\ i - 1 < j - 1
      BY <1>3, <2>3, TailIs
    <3>2. QED
      BY <1>3, <2>1, <3>1 DEF NotAfter
  <2>4. QED
    BY <2>2, <2>3
<1>4. QED
  BY <1>1, <1>2, <1>3 DEF NotAfter, Has

LEMMA Prepended ==
    ASSUME NEW S, NEW c \in Seq(S), NEW x \in S
    PROVE  /\ <<x>> \o c \in Seq(S) /\ <<x>> \o c # <<>>
           /\ Head(<<x>> \o c) = x /\ Tail(<<x>> \o c) = c
OBVIOUS

LEMMA NothingLeft ==
    ASSUME NEW A, NEW l
    PROVE  ~Has(<<>>, l) /\ Then(<<>>, A, l) /\ NotAfter(<<>>, A, l)
BY DEF Has, Then, NotAfter

(****************************************************************************)
(* The labels a and r take and release a lock: there is a release behind    *)
(* each, and only one. A call that has r left but not a holds the lock.     *)
(****************************************************************************)
Pair(c, a, r) == Then(c, {a}, r) /\ NotAfter(c, {a, r}, a) /\ NotAfter(c, {r}, r)
Guards(c, A, a, r) == Then(c, A, r) /\ NotAfter(c, A, a)
Holds(c, a, r) == Has(c, r) /\ ~Has(c, a)

LEMMA PairTail ==
    ASSUME NEW S, NEW c \in Seq(S), c # <<>>, NEW a, NEW r, a # r, Pair(c, a, r)
    PROVE  /\ Pair(Tail(c), a, r)
           /\ Head(c) = a => Holds(Tail(c), a, r) /\ ~Holds(c, a, r)
           /\ Head(c) = r => ~Holds(Tail(c), a, r) /\ Holds(c, a, r)
           /\ Head(c) \notin {a, r} => (Holds(Tail(c), a, r) <=> Holds(c, a, r))
BY HasTail, ThenTail, NotAfterTail DEF Pair, Holds

LEMMA GuardsTail ==
    ASSUME NEW S, NEW c \in Seq(S), c # <<>>, NEW A, NEW a, NEW r, Guards(c, A, a, r)
    PROVE  /\ Guards(Tail(c), A, a, r)
           /\ Head(c) \in A \ {a, r} => Holds(c, a, r) /\ Holds(Tail(c), a, r)
BY HasTail, ThenTail, NotAfterTail DEF Guards, Holds

(* What a thread does inside the lock.                                      *)
Guarded == {"own", "critical", "flush", "swap", "visit", "combine"}

(****************************************************************************)
(* The builds over mutexes.                                                 *)
(****************************************************************************)
MutexLabels ==
    {"firstLook", "look", "while", "firstTry", "try", "force", "lock", "leave",
     "setFlag", "clearFlag", "global", "leaveGlobal", "own", "critical", "open", "openFlag",
     "offer", "claim", "publish", "mark", "close", "await", "flush", "swap",
     "barrier", "readers"}

HasReaders == Helping("readers") \/ (Lined /\ ~Posts)

(* The lock that readers look at, and that operations run in.               *)
Gate ==
    [in |-> IF Lined THEN "enqueue" ELSE IF Hierarchical THEN "global"
            ELSE IF Flagged THEN "setFlag" ELSE "lock",
     out |-> IF Lined THEN "leaveLine" ELSE IF Hierarchical THEN "leaveGlobal"
             ELSE IF Flagged THEN "clearFlag" ELSE "leave",
     read |-> HasReaders]

MutexCode(c, g) ==
    /\ c \in Seq(MutexLabels)
    /\ Pair(c, "lock", "leave")
    /\ Pair(c, "global", "leaveGlobal")
    /\ Pair(c, "setFlag", "clearFlag")
    /\ Guards(c, {"setFlag", "clearFlag"}, "lock", "leave")
    /\ NotAfter(c, {"leave"}, "clearFlag")
    /\ Guards(c, Guarded, g.in, g.out)
    /\ NotAfter(c, Guarded, "readers")
    /\ g.read => Then(c, {g.in}, "readers")

Past(c, g) == Holds(c, g.in, g.out) /\ ~Has(c, "readers")

ReadingCodes == {<<"lower", "read", "depart">>, <<"read", "depart">>}
ArrivedCodes == ReadingCodes \cup {<<"check", "lower", "read", "depart">>}
ReaderCodes ==
    ArrivedCodes \cup
    {<<"arrive", "check", "lower", "read", "depart">>,
     <<"depart", "waitFree", "arrive", "check", "lower", "read", "depart">>,
     <<"waitFree", "arrive", "check", "lower", "read", "depart">>,
     <<"depart">>}

CodeOK(c, g) == MutexCode(c, g) \/ (g.read /\ c \in ReaderCodes)

HoldsNone(c) ==
    /\ ~Holds(c, "lock", "leave")
    /\ ~Holds(c, "global", "leaveGlobal")
    /\ ~Holds(c, "setFlag", "clearFlag")

(* The code of a call, or of one that has been refused or has lost.         *)
Fresh(c, g) == CodeOK(c, g) /\ HoldsNone(c) /\ c \notin ArrivedCodes

(* The code of a thread that has just taken the mutex.                      *)
Won(c, g) ==
    /\ MutexCode(c, g)
    /\ Holds(c, "lock", "leave")
    /\ ~Holds(c, "global", "leaveGlobal")
    /\ ~Holds(c, "setFlag", "clearFlag")
    /\ g.read /\ g.in = "lock" => Has(c, "readers")

Lookings == {"look", "while", "offer", "try", "force"}

MutexGates ==
    {[in |-> "lock", out |-> "leave", read |-> r] : r \in BOOLEAN}
    \cup {[in |-> "global", out |-> "leaveGlobal", read |-> r] : r \in BOOLEAN}
    \cup {[in |-> "setFlag", out |-> "clearFlag", read |-> TRUE]}

(* What the builds' tables of calls have in common.                         *)
MutexTable ==
    /\ ~Lined /\ ~Posts
    /\ Flagged => ~Hierarchical
    /\ Gate \in MutexGates
    /\ \A c \in build.calls.others \cup {rounds.start} : Fresh(c, Gate)
    /\ \A c \in build.calls.first \cup {build.calls.help} : Won(c, Gate)
    /\ \A c \in rounds.refused : \E l \in Lookings : c = <<l>>
    /\ rounds.firstLost \cup rounds.lost \cup {rounds.busy} \subseteq Lookings

(****************************************************************************)
(* The codes of the builds that have a queue.                               *)
(****************************************************************************)
(* A call that still has its flush before it, and no open: the queue is     *)
(* open, or what it holds is being run.                                     *)
Serving(c) == Has(c, "flush") /\ ~Has(c, "open")

(* No store to a slot is pending.                                           *)
Loose(c) == ~Has(c, "publish") /\ ~Has(c, "mark")

(* Where a thread chooses how to go on.                                     *)
Branching ==
    {"firstLook", "look", "while", "firstTry", "try", "force", "offer", "claim", "publish", "tail",
     "readTail", "lookAgain", "seesEnabled", "arriveAt", "checkEnabled", "check", "waitFree"}

(* The lock a is taken before the queue is opened, and r gives it back      *)
(* after the flush.                                                         *)
Framed(c, a, r) ==
    /\ Then(c, {"flush"}, r)
    /\ NotAfter(c, {"open", "flush"}, a)
    /\ Has(c, a) /\ Has(c, "flush") => Has(c, "open")

(* The lock of a node.                                                      *)
NodeGate ==
    IF Lined THEN [in |-> "enqueue", out |-> "leaveLine"] ELSE [in |-> "lock", out |-> "leave"]

QueueCode(c) ==
    /\ Then(c, {"open", "swap"}, "flush")
    /\ NotAfter(c, {"open", "swap", "flush"}, "open")
    /\ NotAfter(c, {"flush"}, "flush")
    /\ NotAfter(c, Branching, "flush")
    /\ \A i \in DOMAIN c : c[i] \in {"publish", "mark"} => i = 1
    /\ Framed(c, Gate.in, Gate.out)
    /\ Framed(c, NodeGate.in, NodeGate.out)

FreshCode(c) == QueueCode(c) /\ ~Serving(c) /\ Loose(c)

QueueCalls ==
    /\ \A c \in build.calls.others \cup {rounds.start} : FreshCode(c)
    /\ Lined => \A c \in rounds.refused \cup build.calls.lookFails : FreshCode(c)
    /\ ~Lined => \A c \in build.calls.first \cup {build.calls.help} : FreshCode(c)

LEMMA SmallCode ==
    ASSUME NEW g \in MutexGates,
           NEW l \in MutexLabels \ (Guarded \cup {"lock", "leave", "setFlag", "clearFlag", "global",
                                      "leaveGlobal", "readers"})
    PROVE  Fresh(<<l>>, g) /\ MutexCode(<<l>>, g)
BY DEF MutexGates, Fresh, CodeOK, MutexCode, Pair, Guards, Holds, Has, Then, NotAfter, HoldsNone,
       ArrivedCodes, ReadingCodes, Guarded

LEMMA CopiedTable ==
    ASSUME build.calls = CopiedCalls
    PROVE  MutexTable /\ QueueCalls
<1>1. /\ build.calls.help = <<"open", "own", "flush", "leave">>
      /\ build.calls.first = {<<"open", "own", "flush", "leave">>,
                                <<"own", "leave">>}
      /\ build.calls.others = {<<"lock", "open", "critical", "flush", "leave">>}
      /\ rounds.start = <<"firstLook">> /\ rounds.firstLost = {"look"} /\ rounds.lost = {"look"}
      /\ rounds.busy = "while" /\ rounds.refused = {<<"while">>}
  BY DEF rounds, CopiedCalls, CopiedRounds, Helps, Executes
<1>2. ~Lined /\ ~Posts /\ ~Hierarchical /\ ~Flagged /\ HasReaders = FALSE
  BY <1>1 DEF Lined, Posts, Hierarchical, Flagged, Helping, HasReaders
<1>3. Gate = [in |-> "lock", out |-> "leave", read |-> FALSE]
  BY <1>2 DEF Gate
<1>gate. Gate \in MutexGates
  BY <1>3 DEF MutexGates
<1>node. Gate.in = "lock" /\ Gate.out = "leave" /\ NodeGate = [in |-> "lock", out |-> "leave"]
  BY <1>2, <1>3 DEF NodeGate
<1> USE DEF MutexCode, Pair, Guards, Holds, Has, Then, NotAfter, Guarded
<1>4. Won(<<"open", "own", "flush", "leave">>, Gate)
  BY <1>2, <1>3 DEF Won, MutexLabels
<1>5. Won(<<"own", "leave">>, Gate)
  BY <1>2, <1>3 DEF Won, MutexLabels
<1>6. Fresh(<<"lock", "open", "critical", "flush", "leave">>, Gate)
  BY <1>2, <1>3 DEF Fresh, CodeOK, MutexLabels, HoldsNone, ArrivedCodes, ReadingCodes
<1>7. Fresh(<<"firstLook">>, Gate)
  BY <1>2, <1>3 DEF Fresh, CodeOK, MutexLabels, HoldsNone, ArrivedCodes, ReadingCodes
<1>q1. FreshCode(<<"open", "own", "flush", "leave">>)
  BY <1>node DEF FreshCode, QueueCode, Framed, Serving, Loose, Branching
<1>q2. FreshCode(<<"own", "leave">>)
  BY <1>node DEF FreshCode, QueueCode, Framed, Serving, Loose, Branching
<1>q3. FreshCode(<<"lock", "open", "critical", "flush", "leave">>)
  BY <1>node DEF FreshCode, QueueCode, Framed, Serving, Loose, Branching
<1>q4. FreshCode(<<"firstLook">>)
  BY <1>node DEF FreshCode, QueueCode, Framed, Serving, Loose, Branching
<1>calls. QueueCalls
  BY <1>1, <1>2, <1>q1, <1>q2, <1>q3, <1>q4 DEF QueueCalls
<1>8. QED
  BY <1>1, <1>2, <1>gate, <1>4, <1>5, <1>6, <1>7, <1>calls DEF MutexTable, Lookings

LEMMA QdlockpTable ==
    ASSUME build.calls = qdlockp_calls
    PROVE  MutexTable /\ QueueCalls
<1>copy. rounds = [CopiedRounds EXCEPT !.start = <<"try">>, !.lost = {"offer"},
                                       !.refused = {<<"try">>}]
  BY DEF rounds, qdlockp_calls, CopiedCalls
<1>rounds. /\ rounds.start = <<"try">> /\ rounds.firstLost = {"look"} /\ rounds.lost = {"offer"}
           /\ rounds.busy = "while" /\ rounds.refused = {<<"try">>}
  BY <1>copy DEF CopiedRounds
<1>calls. /\ build.calls.help = Helps /\ build.calls.first = {Helps, Executes}
          /\ build.calls.others = {<<"lock", "open", "critical", "flush", "leave">>}
  BY DEF qdlockp_calls, CopiedCalls
<1>1. /\ build.calls.help = <<"open", "own", "flush", "leave">>
      /\ build.calls.first = {<<"open", "own", "flush", "leave">>,
                                <<"own", "leave">>}
      /\ build.calls.others = {<<"lock", "open", "critical", "flush", "leave">>}
      /\ rounds.start = <<"try">> /\ rounds.firstLost = {"look"} /\ rounds.lost = {"offer"}
      /\ rounds.busy = "while" /\ rounds.refused = {<<"try">>}
  BY <1>rounds, <1>calls DEF Helps, Executes
<1>2. ~Lined /\ ~Posts /\ ~Hierarchical /\ ~Flagged /\ HasReaders = FALSE
  BY <1>1 DEF Lined, Posts, Hierarchical, Flagged, Helping, HasReaders
<1>3. Gate = [in |-> "lock", out |-> "leave", read |-> FALSE]
  BY <1>2 DEF Gate
<1>gate. Gate \in MutexGates
  BY <1>3 DEF MutexGates
<1>node. Gate.in = "lock" /\ Gate.out = "leave" /\ NodeGate = [in |-> "lock", out |-> "leave"]
  BY <1>2, <1>3 DEF NodeGate
<1> USE DEF MutexCode, Pair, Guards, Holds, Has, Then, NotAfter, Guarded
<1>4. Won(<<"open", "own", "flush", "leave">>, Gate)
  BY <1>2, <1>3 DEF Won, MutexLabels
<1>5. Won(<<"own", "leave">>, Gate)
  BY <1>2, <1>3 DEF Won, MutexLabels
<1>6. Fresh(<<"lock", "open", "critical", "flush", "leave">>, Gate)
  BY <1>2, <1>3 DEF Fresh, CodeOK, MutexLabels, HoldsNone, ArrivedCodes, ReadingCodes
<1>7. Fresh(<<"try">>, Gate)
  BY <1>2, <1>3 DEF Fresh, CodeOK, MutexLabels, HoldsNone, ArrivedCodes, ReadingCodes
<1>q1. FreshCode(<<"open", "own", "flush", "leave">>)
  BY <1>node DEF FreshCode, QueueCode, Framed, Serving, Loose, Branching
<1>q2. FreshCode(<<"own", "leave">>)
  BY <1>node DEF FreshCode, QueueCode, Framed, Serving, Loose, Branching
<1>q3. FreshCode(<<"lock", "open", "critical", "flush", "leave">>)
  BY <1>node DEF FreshCode, QueueCode, Framed, Serving, Loose, Branching
<1>q4. FreshCode(<<"try">>)
  BY <1>node DEF FreshCode, QueueCode, Framed, Serving, Loose, Branching
<1>queue. QueueCalls
  BY <1>1, <1>2, <1>q1, <1>q2, <1>q3, <1>q4 DEF QueueCalls
<1>8. QED
  BY <1>1, <1>2, <1>gate, <1>4, <1>5, <1>6, <1>7, <1>queue DEF MutexTable, Lookings

LEMMA FutexTable ==
    ASSUME build.calls = futex_calls
    PROVE  MutexTable /\ QueueCalls
<1>copy. rounds = [CopiedRounds EXCEPT !.start = <<"try">>, !.lost = {"offer"},
                                       !.refused = {<<"offer">>, <<"try">>}]
  BY DEF rounds, futex_calls, CopiedCalls
<1>rounds. /\ rounds.start = <<"try">> /\ rounds.firstLost = {"look"} /\ rounds.lost = {"offer"}
           /\ rounds.busy = "while" /\ rounds.refused = {<<"offer">>, <<"try">>}
  BY <1>copy DEF CopiedRounds
<1>calls. /\ build.calls.help = Helps /\ build.calls.first = {Helps, Executes}
          /\ build.calls.others = {<<"lock", "open", "critical", "flush", "leave">>}
  BY DEF futex_calls, CopiedCalls
<1>1. /\ build.calls.help = <<"open", "own", "flush", "leave">>
      /\ build.calls.first = {<<"open", "own", "flush", "leave">>,
                                <<"own", "leave">>}
      /\ build.calls.others = {<<"lock", "open", "critical", "flush", "leave">>}
      /\ rounds.start = <<"try">> /\ rounds.firstLost = {"look"} /\ rounds.lost = {"offer"}
      /\ rounds.busy = "while" /\ rounds.refused = {<<"offer">>, <<"try">>}
  BY <1>rounds, <1>calls DEF Helps, Executes
<1>2. ~Lined /\ ~Posts /\ ~Hierarchical /\ ~Flagged /\ HasReaders = FALSE
  BY <1>1 DEF Lined, Posts, Hierarchical, Flagged, Helping, HasReaders
<1>3. Gate = [in |-> "lock", out |-> "leave", read |-> FALSE]
  BY <1>2 DEF Gate
<1>gate. Gate \in MutexGates
  BY <1>3 DEF MutexGates
<1>node. Gate.in = "lock" /\ Gate.out = "leave" /\ NodeGate = [in |-> "lock", out |-> "leave"]
  BY <1>2, <1>3 DEF NodeGate
<1> USE DEF MutexCode, Pair, Guards, Holds, Has, Then, NotAfter, Guarded
<1>4. Won(<<"open", "own", "flush", "leave">>, Gate)
  BY <1>2, <1>3 DEF Won, MutexLabels
<1>5. Won(<<"own", "leave">>, Gate)
  BY <1>2, <1>3 DEF Won, MutexLabels
<1>6. Fresh(<<"lock", "open", "critical", "flush", "leave">>, Gate)
  BY <1>2, <1>3 DEF Fresh, CodeOK, MutexLabels, HoldsNone, ArrivedCodes, ReadingCodes
<1>7. Fresh(<<"try">>, Gate)
  BY <1>2, <1>3 DEF Fresh, CodeOK, MutexLabels, HoldsNone, ArrivedCodes, ReadingCodes
<1>q1. FreshCode(<<"open", "own", "flush", "leave">>)
  BY <1>node DEF FreshCode, QueueCode, Framed, Serving, Loose, Branching
<1>q2. FreshCode(<<"own", "leave">>)
  BY <1>node DEF FreshCode, QueueCode, Framed, Serving, Loose, Branching
<1>q3. FreshCode(<<"lock", "open", "critical", "flush", "leave">>)
  BY <1>node DEF FreshCode, QueueCode, Framed, Serving, Loose, Branching
<1>q4. FreshCode(<<"try">>)
  BY <1>node DEF FreshCode, QueueCode, Framed, Serving, Loose, Branching
<1>queue. QueueCalls
  BY <1>1, <1>2, <1>q1, <1>q2, <1>q3, <1>q4 DEF QueueCalls
<1>8. QED
  BY <1>1, <1>2, <1>gate, <1>4, <1>5, <1>6, <1>7, <1>queue DEF MutexTable, Lookings

LEMMA HqdlockTable ==
    ASSUME build.calls = hqdlock_calls
    PROVE  MutexTable /\ QueueCalls
<1>1. /\ build.calls.help = <<"global", "open", "own", "flush", "leaveGlobal", "leave">>
      /\ build.calls.first = {<<"global", "open", "own", "flush", "leaveGlobal", "leave">>,
                                <<"global", "own", "leaveGlobal", "leave">>}
      /\ build.calls.others = {<<"global", "critical", "leaveGlobal">>}
      /\ rounds.start = <<"firstLook">> /\ rounds.firstLost = {"look"} /\ rounds.lost = {"look"}
      /\ rounds.busy = "while" /\ rounds.refused = {<<"while">>}
  BY DEF rounds, hqdlock_calls, CopiedRounds
<1>2. ~Lined /\ ~Posts /\ Hierarchical /\ ~Flagged /\ HasReaders = FALSE
  BY <1>1 DEF Lined, Posts, Hierarchical, Flagged, Helping, HasReaders
<1>3. Gate = [in |-> "global", out |-> "leaveGlobal", read |-> FALSE]
  BY <1>2 DEF Gate
<1>gate. Gate \in MutexGates
  BY <1>3 DEF MutexGates
<1>node. Gate.in = "global" /\ Gate.out = "leaveGlobal" /\ NodeGate = [in |-> "lock", out |-> "leave"]
  BY <1>2, <1>3 DEF NodeGate
<1> USE DEF MutexCode, Pair, Guards, Holds, Has, Then, NotAfter, Guarded
<1>4. Won(<<"global", "open", "own", "flush", "leaveGlobal", "leave">>, Gate)
  BY <1>2, <1>3 DEF Won, MutexLabels
<1>5. Won(<<"global", "own", "leaveGlobal", "leave">>, Gate)
  BY <1>2, <1>3 DEF Won, MutexLabels
<1>6. Fresh(<<"global", "critical", "leaveGlobal">>, Gate)
  BY <1>2, <1>3 DEF Fresh, CodeOK, MutexLabels, HoldsNone, ArrivedCodes, ReadingCodes
<1>7. Fresh(<<"firstLook">>, Gate)
  BY <1>2, <1>3 DEF Fresh, CodeOK, MutexLabels, HoldsNone, ArrivedCodes, ReadingCodes
<1>q1. FreshCode(<<"global", "open", "own", "flush", "leaveGlobal", "leave">>)
  BY <1>node DEF FreshCode, QueueCode, Framed, Serving, Loose, Branching
<1>q2. FreshCode(<<"global", "own", "leaveGlobal", "leave">>)
  BY <1>node DEF FreshCode, QueueCode, Framed, Serving, Loose, Branching
<1>q3. FreshCode(<<"global", "critical", "leaveGlobal">>)
  BY <1>node DEF FreshCode, QueueCode, Framed, Serving, Loose, Branching
<1>q4. FreshCode(<<"firstLook">>)
  BY <1>node DEF FreshCode, QueueCode, Framed, Serving, Loose, Branching
<1>calls. QueueCalls
  BY <1>1, <1>2, <1>q1, <1>q2, <1>q3, <1>q4 DEF QueueCalls
<1>8. QED
  BY <1>1, <1>2, <1>gate, <1>4, <1>5, <1>6, <1>7, <1>calls DEF MutexTable, Lookings

LEMMA QdlockImplTable ==
    ASSUME build.calls = qdlock_impl
    PROVE  MutexTable /\ QueueCalls
<1>1. /\ build.calls.help = <<"open", "own", "flush", "leave">>
      /\ build.calls.first = {<<"own", "leave">>}
      /\ build.calls.others = {<<"lock", "critical", "leave">>}
      /\ rounds.start = <<"firstTry">>
      /\ rounds.firstLost = {"offer"} /\ rounds.lost = {"offer", "force"}
      /\ rounds.busy = "while" /\ rounds.refused = {<<"try">>}
  BY DEF rounds, qdlock_impl, delegate, Helps, Executes
<1>2. ~Lined /\ ~Posts /\ ~Hierarchical /\ ~Flagged /\ HasReaders = FALSE
  BY <1>1 DEF Lined, Posts, Hierarchical, Flagged, Helping, HasReaders
<1>3. Gate = [in |-> "lock", out |-> "leave", read |-> FALSE]
  BY <1>2 DEF Gate
<1>gate. Gate \in MutexGates
  BY <1>3 DEF MutexGates
<1>node. Gate.in = "lock" /\ Gate.out = "leave" /\ NodeGate = [in |-> "lock", out |-> "leave"]
  BY <1>2, <1>3 DEF NodeGate
<1> USE DEF MutexCode, Pair, Guards, Holds, Has, Then, NotAfter, Guarded
<1>4. Won(<<"own", "leave">>, Gate)
  BY <1>2, <1>3 DEF Won, MutexLabels
<1>5. Won(<<"open", "own", "flush", "leave">>, Gate)
  BY <1>2, <1>3 DEF Won, MutexLabels
<1>6. Fresh(<<"lock", "critical", "leave">>, Gate)
  BY <1>2, <1>3 DEF Fresh, CodeOK, MutexLabels, HoldsNone, ArrivedCodes, ReadingCodes
<1>7. Fresh(<<"firstTry">>, Gate)
  BY <1>2, <1>3 DEF Fresh, CodeOK, MutexLabels, HoldsNone, ArrivedCodes, ReadingCodes
<1>q1. FreshCode(<<"own", "leave">>)
  BY <1>node DEF FreshCode, QueueCode, Framed, Serving, Loose, Branching
<1>q2. FreshCode(<<"open", "own", "flush", "leave">>)
  BY <1>node DEF FreshCode, QueueCode, Framed, Serving, Loose, Branching
<1>q3. FreshCode(<<"lock", "critical", "leave">>)
  BY <1>node DEF FreshCode, QueueCode, Framed, Serving, Loose, Branching
<1>q4. FreshCode(<<"firstTry">>)
  BY <1>node DEF FreshCode, QueueCode, Framed, Serving, Loose, Branching
<1>calls. QueueCalls
  BY <1>1, <1>2, <1>q1, <1>q2, <1>q3, <1>q4 DEF QueueCalls
<1>8. QED
  BY <1>1, <1>2, <1>gate, <1>4, <1>5, <1>6, <1>7, <1>calls DEF MutexTable, Lookings

LEMMA HqdlockImplTable ==
    ASSUME build.calls = hqdlock_impl
    PROVE  MutexTable /\ QueueCalls
<1>1. /\ build.calls.help = <<"global", "open", "own", "flush", "leaveGlobal", "leave">>
      /\ build.calls.first = {<<"global", "own", "leaveGlobal", "leave">>}
      /\ build.calls.others = {<<"lock", "global", "critical", "leaveGlobal", "leave">>}
      /\ rounds.start = <<"firstTry">>
      /\ rounds.firstLost = {"offer"} /\ rounds.lost = {"offer", "force"}
      /\ rounds.busy = "while" /\ rounds.refused = {<<"try">>}
  BY DEF rounds, hqdlock_impl, delegate
<1>2. ~Lined /\ ~Posts /\ Hierarchical /\ ~Flagged /\ HasReaders = FALSE
  BY <1>1 DEF Lined, Posts, Hierarchical, Flagged, Helping, HasReaders
<1>3. Gate = [in |-> "global", out |-> "leaveGlobal", read |-> FALSE]
  BY <1>2 DEF Gate
<1>gate. Gate \in MutexGates
  BY <1>3 DEF MutexGates
<1>node. Gate.in = "global" /\ Gate.out = "leaveGlobal" /\ NodeGate = [in |-> "lock", out |-> "leave"]
  BY <1>2, <1>3 DEF NodeGate
<1> USE DEF MutexCode, Pair, Guards, Holds, Has, Then, NotAfter, Guarded
<1>4. Won(<<"global", "own", "leaveGlobal", "leave">>, Gate)
  BY <1>2, <1>3 DEF Won, MutexLabels
<1>5. Won(<<"global", "open", "own", "flush", "leaveGlobal", "leave">>, Gate)
  BY <1>2, <1>3 DEF Won, MutexLabels
<1>6. Fresh(<<"lock", "global", "critical", "leaveGlobal", "leave">>, Gate)
  BY <1>2, <1>3 DEF Fresh, CodeOK, MutexLabels, HoldsNone, ArrivedCodes, ReadingCodes
<1>7. Fresh(<<"firstTry">>, Gate)
  BY <1>2, <1>3 DEF Fresh, CodeOK, MutexLabels, HoldsNone, ArrivedCodes, ReadingCodes
<1>q1. FreshCode(<<"global", "own", "leaveGlobal", "leave">>)
  BY <1>node DEF FreshCode, QueueCode, Framed, Serving, Loose, Branching
<1>q2. FreshCode(<<"global", "open", "own", "flush", "leaveGlobal", "leave">>)
  BY <1>node DEF FreshCode, QueueCode, Framed, Serving, Loose, Branching
<1>q3. FreshCode(<<"lock", "global", "critical", "leaveGlobal", "leave">>)
  BY <1>node DEF FreshCode, QueueCode, Framed, Serving, Loose, Branching
<1>q4. FreshCode(<<"firstTry">>)
  BY <1>node DEF FreshCode, QueueCode, Framed, Serving, Loose, Branching
<1>calls. QueueCalls
  BY <1>1, <1>2, <1>q1, <1>q2, <1>q3, <1>q4 DEF QueueCalls
<1>8. QED
  BY <1>1, <1>2, <1>gate, <1>4, <1>5, <1>6, <1>7, <1>calls DEF MutexTable, Lookings

LEMMA MrqdlockImplTable ==
    ASSUME build.calls = mrqdlock_impl
    PROVE  MutexTable /\ QueueCalls
<1>1. /\ build.calls.help = <<"setFlag", "open", "readers", "own", "flush", "clearFlag", "leave">>
      /\ build.calls.first = {<<"setFlag", "readers", "own", "clearFlag", "leave">>}
      /\ build.calls.others = {<<"barrier", "lock", "setFlag", "readers", "critical", "clearFlag", "leave">>,
                                 <<"arrive", "check", "lower", "read", "depart">>}
      /\ rounds.start = <<"barrier", "firstTry">>
      /\ rounds.firstLost = {"offer"} /\ rounds.lost = {"offer", "force"}
      /\ rounds.busy = "while" /\ rounds.refused = {<<"try">>}
  BY DEF rounds, mrqdlock_impl, delegate, Reading
<1>2. ~Lined /\ ~Posts /\ ~Hierarchical /\ Flagged /\ HasReaders = TRUE
  BY <1>1 DEF Lined, Posts, Hierarchical, Flagged, Helping, HasReaders
<1>3. Gate = [in |-> "setFlag", out |-> "clearFlag", read |-> TRUE]
  BY <1>2 DEF Gate
<1>gate. Gate \in MutexGates
  BY <1>3 DEF MutexGates
<1>node. Gate.in = "setFlag" /\ Gate.out = "clearFlag" /\ NodeGate = [in |-> "lock", out |-> "leave"]
  BY <1>2, <1>3 DEF NodeGate
<1> USE DEF MutexCode, Pair, Guards, Holds, Has, Then, NotAfter, Guarded
<1>4. Won(<<"setFlag", "readers", "own", "clearFlag", "leave">>, Gate)
  BY <1>2, <1>3 DEF Won, MutexLabels
<1>5. Won(<<"setFlag", "open", "readers", "own", "flush", "clearFlag", "leave">>, Gate)
  BY <1>2, <1>3 DEF Won, MutexLabels
<1>6. Fresh(<<"barrier", "lock", "setFlag", "readers", "critical", "clearFlag", "leave">>, Gate)
  BY <1>2, <1>3 DEF Fresh, CodeOK, MutexLabels, HoldsNone, ArrivedCodes, ReadingCodes
<1>7. Fresh(<<"arrive", "check", "lower", "read", "depart">>, Gate)
  BY <1>2, <1>3 DEF Fresh, CodeOK, ReaderCodes, HoldsNone, ArrivedCodes, ReadingCodes
<1>8. Fresh(<<"barrier", "firstTry">>, Gate)
  BY <1>2, <1>3 DEF Fresh, CodeOK, MutexLabels, HoldsNone, ArrivedCodes, ReadingCodes
<1>q1. FreshCode(<<"setFlag", "readers", "own", "clearFlag", "leave">>)
  BY <1>node DEF FreshCode, QueueCode, Framed, Serving, Loose, Branching
<1>q2. FreshCode(<<"setFlag", "open", "readers", "own", "flush", "clearFlag", "leave">>)
  BY <1>node DEF FreshCode, QueueCode, Framed, Serving, Loose, Branching
<1>q3. FreshCode(<<"barrier", "lock", "setFlag", "readers", "critical", "clearFlag", "leave">>)
  BY <1>node DEF FreshCode, QueueCode, Framed, Serving, Loose, Branching
<1>q4. FreshCode(<<"arrive", "check", "lower", "read", "depart">>)
  BY <1>node DEF FreshCode, QueueCode, Framed, Serving, Loose, Branching
<1>q5. FreshCode(<<"barrier", "firstTry">>)
  BY <1>node DEF FreshCode, QueueCode, Framed, Serving, Loose, Branching
<1>calls. QueueCalls
  BY <1>1, <1>2, <1>q1, <1>q2, <1>q3, <1>q4, <1>q5 DEF QueueCalls
<1>9. QED
  BY <1>1, <1>2, <1>gate, <1>4, <1>5, <1>6, <1>7, <1>8, <1>calls DEF MutexTable, Lookings

LEMMA MrhqdlockImplTable ==
    ASSUME build.calls = mrhqdlock_impl
    PROVE  MutexTable /\ QueueCalls
<1>1. /\ build.calls.help = <<"global", "open", "readers", "own", "flush", "leaveGlobal", "leave">>
      /\ build.calls.first = {<<"global", "readers", "own", "leaveGlobal", "leave">>}
      /\ build.calls.others = {<<"barrier", "lock", "global", "readers", "critical", "leaveGlobal", "leave">>,
                                 <<"arrive", "check", "lower", "read", "depart">>}
      /\ rounds.start = <<"barrier", "firstTry">>
      /\ rounds.firstLost = {"offer"} /\ rounds.lost = {"offer", "force"}
      /\ rounds.busy = "while" /\ rounds.refused = {<<"try">>}
  BY DEF rounds, mrhqdlock_impl, delegate, Reading
<1>2. ~Lined /\ ~Posts /\ Hierarchical /\ ~Flagged /\ HasReaders = TRUE
  BY <1>1 DEF Lined, Posts, Hierarchical, Flagged, Helping, HasReaders
<1>3. Gate = [in |-> "global", out |-> "leaveGlobal", read |-> TRUE]
  BY <1>2 DEF Gate
<1>gate. Gate \in MutexGates
  BY <1>3 DEF MutexGates
<1>node. Gate.in = "global" /\ Gate.out = "leaveGlobal" /\ NodeGate = [in |-> "lock", out |-> "leave"]
  BY <1>2, <1>3 DEF NodeGate
<1> USE DEF MutexCode, Pair, Guards, Holds, Has, Then, NotAfter, Guarded
<1>4. Won(<<"global", "readers", "own", "leaveGlobal", "leave">>, Gate)
  BY <1>2, <1>3 DEF Won, MutexLabels
<1>5. Won(<<"global", "open", "readers", "own", "flush", "leaveGlobal", "leave">>, Gate)
  BY <1>2, <1>3 DEF Won, MutexLabels
<1>6. Fresh(<<"barrier", "lock", "global", "readers", "critical", "leaveGlobal", "leave">>, Gate)
  BY <1>2, <1>3 DEF Fresh, CodeOK, MutexLabels, HoldsNone, ArrivedCodes, ReadingCodes
<1>7. Fresh(<<"arrive", "check", "lower", "read", "depart">>, Gate)
  BY <1>2, <1>3 DEF Fresh, CodeOK, ReaderCodes, HoldsNone, ArrivedCodes, ReadingCodes
<1>8. Fresh(<<"barrier", "firstTry">>, Gate)
  BY <1>2, <1>3 DEF Fresh, CodeOK, MutexLabels, HoldsNone, ArrivedCodes, ReadingCodes
<1>q1. FreshCode(<<"global", "readers", "own", "leaveGlobal", "leave">>)
  BY <1>node DEF FreshCode, QueueCode, Framed, Serving, Loose, Branching
<1>q2. FreshCode(<<"global", "open", "readers", "own", "flush", "leaveGlobal", "leave">>)
  BY <1>node DEF FreshCode, QueueCode, Framed, Serving, Loose, Branching
<1>q3. FreshCode(<<"barrier", "lock", "global", "readers", "critical", "leaveGlobal", "leave">>)
  BY <1>node DEF FreshCode, QueueCode, Framed, Serving, Loose, Branching
<1>q4. FreshCode(<<"arrive", "check", "lower", "read", "depart">>)
  BY <1>node DEF FreshCode, QueueCode, Framed, Serving, Loose, Branching
<1>q5. FreshCode(<<"barrier", "firstTry">>)
  BY <1>node DEF FreshCode, QueueCode, Framed, Serving, Loose, Branching
<1>calls. QueueCalls
  BY <1>1, <1>2, <1>q1, <1>q2, <1>q3, <1>q4, <1>q5 DEF QueueCalls
<1>9. QED
  BY <1>1, <1>2, <1>gate, <1>4, <1>5, <1>6, <1>7, <1>8, <1>calls DEF MutexTable, Lookings

LEMMA RhqdlockTable ==
    ASSUME build.calls = rhqdlock_calls
    PROVE  MutexTable /\ QueueCalls
<1>1. /\ build.calls.help = <<"barrier", "global", "open", "readers", "own", "flush", "leaveGlobal", "leave">>
      /\ build.calls.first = {}
      /\ build.calls.others = {<<"barrier", "global", "readers", "critical", "leaveGlobal">>,
                                 <<"arrive", "check", "lower", "read", "depart">>}
      /\ rounds.start = <<"look">> /\ rounds.firstLost = {"look"} /\ rounds.lost = {"look"}
      /\ rounds.busy = "while" /\ rounds.refused = {<<"while">>}
  BY DEF rounds, rhqdlock_calls, CopiedRounds, Reading
<1>2. ~Lined /\ ~Posts /\ Hierarchical /\ ~Flagged /\ HasReaders = TRUE
  BY <1>1 DEF Lined, Posts, Hierarchical, Flagged, Helping, HasReaders
<1>3. Gate = [in |-> "global", out |-> "leaveGlobal", read |-> TRUE]
  BY <1>2 DEF Gate
<1>gate. Gate \in MutexGates
  BY <1>3 DEF MutexGates
<1>node. Gate.in = "global" /\ Gate.out = "leaveGlobal" /\ NodeGate = [in |-> "lock", out |-> "leave"]
  BY <1>2, <1>3 DEF NodeGate
<1> USE DEF MutexCode, Pair, Guards, Holds, Has, Then, NotAfter, Guarded
<1>4. Won(<<"barrier", "global", "open", "readers", "own", "flush", "leaveGlobal", "leave">>, Gate)
  BY <1>2, <1>3 DEF Won, MutexLabels
<1>5. Fresh(<<"barrier", "global", "readers", "critical", "leaveGlobal">>, Gate)
  BY <1>2, <1>3 DEF Fresh, CodeOK, MutexLabels, HoldsNone, ArrivedCodes, ReadingCodes
<1>6. Fresh(<<"arrive", "check", "lower", "read", "depart">>, Gate)
  BY <1>2, <1>3 DEF Fresh, CodeOK, ReaderCodes, HoldsNone, ArrivedCodes, ReadingCodes
<1>7. Fresh(<<"look">>, Gate)
  BY <1>2, <1>3 DEF Fresh, CodeOK, MutexLabels, HoldsNone, ArrivedCodes, ReadingCodes
<1>q1. FreshCode(<<"barrier", "global", "open", "readers", "own", "flush", "leaveGlobal", "leave">>)
  BY <1>node DEF FreshCode, QueueCode, Framed, Serving, Loose, Branching
<1>q2. FreshCode(<<"barrier", "global", "readers", "critical", "leaveGlobal">>)
  BY <1>node DEF FreshCode, QueueCode, Framed, Serving, Loose, Branching
<1>q3. FreshCode(<<"arrive", "check", "lower", "read", "depart">>)
  BY <1>node DEF FreshCode, QueueCode, Framed, Serving, Loose, Branching
<1>q4. FreshCode(<<"look">>)
  BY <1>node DEF FreshCode, QueueCode, Framed, Serving, Loose, Branching
<1>calls. QueueCalls
  BY <1>1, <1>2, <1>q1, <1>q2, <1>q3, <1>q4 DEF QueueCalls
<1>8. QED
  BY <1>1, <1>2, <1>gate, <1>4, <1>5, <1>6, <1>7, <1>calls DEF MutexTable, Lookings

LEMMA TtsalockTable ==
    ASSUME build.calls = ttsalock_calls
    PROVE  MutexTable /\ QueueCalls
<1>1. /\ build.calls.help = <<"open", "readers", "own", "flush", "leave">>
      /\ build.calls.first = {}
      /\ build.calls.others = {<<"barrier", "lock", "open", "readers", "critical", "flush", "leave">>,
                                 <<"arrive", "check", "lower", "read", "depart">>}
      /\ rounds.start = <<"barrier", "offer">>
      /\ rounds.firstLost = {"look"} /\ rounds.lost = {"offer"}
      /\ rounds.busy = "offer" /\ rounds.refused = {<<"look">>}
  <2>1. build.calls.rounds = [CopiedRounds EXCEPT !.start = <<"barrier", "offer">>,
                                  !.lost = {"offer"}, !.busy = "offer", !.refused = {<<"look">>}]
    BY DEF ttsalock_calls
  <2>2. /\ rounds.start = <<"barrier", "offer">> /\ rounds.firstLost = {"look"}
        /\ rounds.lost = {"offer"} /\ rounds.busy = "offer" /\ rounds.refused = {<<"look">>}
    BY <2>1 DEF rounds, CopiedRounds
  <2>3. QED
    BY <2>2 DEF ttsalock_calls, Reading
<1>2. ~Lined /\ ~Posts /\ ~Hierarchical /\ ~Flagged /\ HasReaders = TRUE
  BY <1>1 DEF Lined, Posts, Hierarchical, Flagged, Helping, HasReaders
<1>3. Gate = [in |-> "lock", out |-> "leave", read |-> TRUE]
  BY <1>2 DEF Gate
<1>gate. Gate \in MutexGates
  BY <1>3 DEF MutexGates
<1>node. Gate.in = "lock" /\ Gate.out = "leave" /\ NodeGate = [in |-> "lock", out |-> "leave"]
  BY <1>2, <1>3 DEF NodeGate
<1> USE DEF MutexCode, Pair, Guards, Holds, Has, Then, NotAfter, Guarded
<1>4. Won(<<"open", "readers", "own", "flush", "leave">>, Gate)
  BY <1>2, <1>3 DEF Won, MutexLabels
<1>5. Fresh(<<"barrier", "lock", "open", "readers", "critical", "flush", "leave">>, Gate)
  BY <1>2, <1>3 DEF Fresh, CodeOK, MutexLabels, HoldsNone, ArrivedCodes, ReadingCodes
<1>6. Fresh(<<"arrive", "check", "lower", "read", "depart">>, Gate)
  BY <1>2, <1>3 DEF Fresh, CodeOK, ReaderCodes, HoldsNone, ArrivedCodes, ReadingCodes
<1>7. Fresh(<<"barrier", "offer">>, Gate)
  BY <1>2, <1>3 DEF Fresh, CodeOK, MutexLabels, HoldsNone, ArrivedCodes, ReadingCodes
<1>q1. FreshCode(<<"open", "readers", "own", "flush", "leave">>)
  BY <1>node DEF FreshCode, QueueCode, Framed, Serving, Loose, Branching
<1>q2. FreshCode(<<"barrier", "lock", "open", "readers", "critical", "flush", "leave">>)
  BY <1>node DEF FreshCode, QueueCode, Framed, Serving, Loose, Branching
<1>q3. FreshCode(<<"arrive", "check", "lower", "read", "depart">>)
  BY <1>node DEF FreshCode, QueueCode, Framed, Serving, Loose, Branching
<1>q4. FreshCode(<<"barrier", "offer">>)
  BY <1>node DEF FreshCode, QueueCode, Framed, Serving, Loose, Branching
<1>calls. QueueCalls
  BY <1>1, <1>2, <1>q1, <1>q2, <1>q3, <1>q4 DEF QueueCalls
<1>8. QED
  BY <1>1, <1>2, <1>gate, <1>4, <1>5, <1>6, <1>7, <1>calls DEF MutexTable, Lookings

LEMMA QdDelegateTable ==
    ASSUME build.calls = qd_delegate
    PROVE  MutexTable /\ QueueCalls
<1>1. /\ build.calls.help = <<"open", "own", "flush", "leave">>
      /\ build.calls.first = {}
      /\ build.calls.others = {}
      /\ rounds.start = <<"try">> /\ rounds.firstLost = {"look"} /\ rounds.lost = {"offer"}
      /\ rounds.busy = "while" /\ rounds.refused = {<<"try">>}
  <2>1. /\ build.calls.rounds = qdlockp_calls.rounds /\ build.calls.help = qdlockp_calls.help
        /\ build.calls.first = {} /\ build.calls.others = {}
    BY DEF qd_delegate, qdlockp_calls, CopiedCalls
  <2>2. qdlockp_calls.rounds = [CopiedRounds EXCEPT !.start = <<"try">>, !.lost = {"offer"},
                                                    !.refused = {<<"try">>}]
    BY DEF qdlockp_calls, CopiedCalls
  <2>3. /\ rounds.start = <<"try">> /\ rounds.firstLost = {"look"} /\ rounds.lost = {"offer"}
        /\ rounds.busy = "while" /\ rounds.refused = {<<"try">>}
    BY <2>1, <2>2 DEF rounds, CopiedRounds
  <2>4. qdlockp_calls.help = <<"open", "own", "flush", "leave">>
    BY DEF qdlockp_calls, CopiedCalls, Helps
  <2>5. QED
    BY <2>1, <2>3, <2>4
<1>2. ~Lined /\ ~Posts /\ ~Hierarchical /\ ~Flagged /\ HasReaders = FALSE
  BY <1>1 DEF Lined, Posts, Hierarchical, Flagged, Helping, HasReaders
<1>3. Gate = [in |-> "lock", out |-> "leave", read |-> FALSE]
  BY <1>2 DEF Gate
<1>gate. Gate \in MutexGates
  BY <1>3 DEF MutexGates
<1>node. Gate.in = "lock" /\ Gate.out = "leave" /\ NodeGate = [in |-> "lock", out |-> "leave"]
  BY <1>2, <1>3 DEF NodeGate
<1> USE DEF MutexCode, Pair, Guards, Holds, Has, Then, NotAfter, Guarded
<1>4. Won(<<"open", "own", "flush", "leave">>, Gate)
  BY <1>2, <1>3 DEF Won, MutexLabels
<1>5. Fresh(<<"try">>, Gate)
  BY <1>2, <1>3 DEF Fresh, CodeOK, MutexLabels, HoldsNone, ArrivedCodes, ReadingCodes
<1>q1. FreshCode(<<"open", "own", "flush", "leave">>)
  BY <1>node DEF FreshCode, QueueCode, Framed, Serving, Loose, Branching
<1>q2. FreshCode(<<"try">>)
  BY <1>node DEF FreshCode, QueueCode, Framed, Serving, Loose, Branching
<1>calls. QueueCalls
  BY <1>1, <1>2, <1>q1, <1>q2 DEF QueueCalls
<1>6. QED
  BY <1>1, <1>2, <1>gate, <1>4, <1>5, <1>calls DEF MutexTable, Lookings

LEMMA MutexTables ==
    ASSUME build \in Locks
    PROVE  MutexTable /\ (~Hierarchical => build.nodes = {1})
<1>1. build.calls \in {CopiedCalls, qdlockp_calls, futex_calls, hqdlock_calls, qdlock_impl,
                       hqdlock_impl, mrqdlock_impl, mrhqdlock_impl, rhqdlock_calls,
                       ttsalock_calls, qd_delegate}
  BY DEF Locks, Lock, qdlock_calls, nostarve_calls, hnostarve_calls
<1>2. MutexTable
  BY <1>1, CopiedTable, QdlockpTable, FutexTable, HqdlockTable, QdlockImplTable, HqdlockImplTable,
     MrqdlockImplTable, MrhqdlockImplTable, RhqdlockTable, TtsalockTable, QdDelegateTable
<1>3. build.nodes = {1} \/ build.calls \in {hqdlock_calls, hqdlock_impl, mrhqdlock_impl, rhqdlock_calls}
  BY DEF Locks, Lock, hnostarve_calls
<1>4. build.calls \in {hqdlock_calls, hqdlock_impl, mrhqdlock_impl, rhqdlock_calls} => Hierarchical
  BY DEF hqdlock_calls, hqdlock_impl, mrhqdlock_impl, rhqdlock_calls, Hierarchical, Helping
<1>5. QED
  BY <1>2, <1>3, <1>4

(****************************************************************************)
(* How a code may change without the thread taking or releasing anything.   *)
(****************************************************************************)
ReaderWords == {"arrive", "check", "lower", "read", "depart", "waitFree"}

TakingLabels == {"lock", "leave", "global", "leaveGlobal", "setFlag", "clearFlag"}

(* After it has gone from c to d a thread holds, and has arrived at, no     *)
(* more than before.                                                        *)
NoMore(c, d, g) ==
    /\ Holds(d, "lock", "leave") => Holds(c, "lock", "leave")
    /\ Holds(d, "global", "leaveGlobal") => Holds(c, "global", "leaveGlobal")
    /\ Holds(d, "setFlag", "clearFlag") =>
           /\ Holds(c, "setFlag", "clearFlag")
           /\ Holds(c, "lock", "leave") => Holds(d, "lock", "leave")
    /\ Past(d, g) => Past(c, g)
    /\ d \in ArrivedCodes => c \in ArrivedCodes
    /\ d \in ReadingCodes => c \in ReadingCodes

LEMMA ReaderCodesHold ==
    ASSUME NEW c \in ReaderCodes, NEW l \in MutexLabels
    PROVE  ~Has(c, l)
BY DEF ReaderCodes, ArrivedCodes, ReadingCodes, MutexLabels, Has

LEMMA MutexCodesDoNotRead ==
    ASSUME NEW g, NEW c, MutexCode(c, g)
    PROVE  c \notin ReaderCodes
<1>1. \A i \in DOMAIN c : c[i] \in MutexLabels
  BY DEF MutexCode
<1>2. "depart" \notin MutexLabels
  BY DEF MutexLabels
<1>3. \A d \in ReaderCodes : \E i \in DOMAIN d : d[i] = "depart"
  BY DEF ReaderCodes, ArrivedCodes, ReadingCodes
<1>4. QED
  BY <1>1, <1>2, <1>3

LEMMA CodeHead ==
    ASSUME NEW g, NEW c, CodeOK(c, g), c # <<>>
    PROVE  \/ MutexCode(c, g) /\ Head(c) \in MutexLabels
           \/ g.read /\ c \in ReaderCodes /\ Head(c) \in ReaderWords /\ Head(c) \notin MutexLabels
BY TailIs DEF MutexCode, ReaderCodes, ArrivedCodes, ReadingCodes, ReaderWords, MutexLabels, CodeOK

LEMMA TailOfCode ==
    ASSUME NEW g, NEW c, MutexCode(c, g), c # <<>>
    PROVE  MutexCode(Tail(c), g)
BY PairTail, GuardsTail, ThenTail, NotAfterTail, TailIs DEF MutexCode

LEMMA FreshHoldsNoMore ==
    ASSUME NEW g \in MutexGates, NEW c, NEW d, Fresh(d, g)
    PROVE  NoMore(c, d, g) /\ CodeOK(d, g)
BY DEF MutexGates, NoMore, Fresh, HoldsNone, Past, ArrivedCodes

LEMMA TailHoldsNoMore ==
    ASSUME NEW g \in MutexGates, NEW c, MutexCode(c, g), c # <<>>,
           Head(c) \notin TakingLabels \cup {"readers"}
    PROVE  NoMore(c, Tail(c), g) /\ MutexCode(Tail(c), g)
<1>1. MutexCode(Tail(c), g)
  BY TailOfCode
<1>2. Tail(c) \notin ReaderCodes
  BY <1>1, MutexCodesDoNotRead
<1>3. /\ Holds(Tail(c), "lock", "leave") <=> Holds(c, "lock", "leave")
      /\ Holds(Tail(c), "global", "leaveGlobal") <=> Holds(c, "global", "leaveGlobal")
      /\ Holds(Tail(c), "setFlag", "clearFlag") <=> Holds(c, "setFlag", "clearFlag")
  BY PairTail DEF MutexCode, TakingLabels
<1>4. Has(Tail(c), "readers") <=> Has(c, "readers")
  BY HasTail DEF MutexCode
<1>5. QED
  BY <1>1, <1>2, <1>3, <1>4 DEF NoMore, Past, MutexGates, ReaderCodes, ArrivedCodes

LEMMA NoMoreTwice ==
    ASSUME NEW g, NEW c, NEW d, NEW e, NoMore(c, d, g), NoMore(d, e, g)
    PROVE  NoMore(c, e, g)
BY DEF NoMore

LEMMA SameHoldsNoMore ==
    ASSUME NEW g, NEW c
    PROVE  NoMore(c, c, g)
BY DEF NoMore

(* A label that takes nothing is put before the code.                       *)
LEMMA PrefixHoldsNoMore ==
    ASSUME NEW g \in MutexGates, NEW c, MutexCode(c, g),
           NEW x \in MutexLabels \ (TakingLabels \cup {"readers"}),
           x \in Guarded => Holds(c, g.in, g.out) /\ ~Has(c, "readers")
    PROVE  NoMore(c, <<x>> \o c, g) /\ MutexCode(<<x>> \o c, g)
<1>1. c \in Seq(MutexLabels)
  BY DEF MutexCode
<1>2. PICK d : d = <<x>> \o c
  OBVIOUS
<1>3. d \in Seq(MutexLabels) /\ d # <<>> /\ Head(d) = x /\ Tail(d) = c
  BY <1>1, <1>2, Prepended
<1>4. \A l : Has(d, l) <=> x = l \/ Has(c, l)
  BY <1>3, HasTail
<1>5. \A A, l : Then(d, A, l) <=> Then(c, A, l) /\ (x \in A => Has(c, l))
  BY <1>3, ThenTail
<1>6. \A A, l : NotAfter(d, A, l) <=> NotAfter(c, A, l) /\ (x \in A => ~Has(c, l))
  BY <1>3, NotAfterTail
<1>7. g.in \in TakingLabels /\ g.out \in TakingLabels /\ x \notin TakingLabels
      /\ x # "readers"
  BY DEF MutexGates, TakingLabels
<1>8. MutexCode(d, g)
  BY <1>3, <1>5, <1>6, <1>7 DEF MutexCode, Pair, TakingLabels, Guards, Holds
<1>9. d \notin ReaderCodes
  BY <1>8, MutexCodesDoNotRead
<1>10. NoMore(c, d, g)
  BY <1>4, <1>7, <1>9 DEF NoMore, Holds, Past, TakingLabels, ReaderCodes, ArrivedCodes
<1>11. QED
  BY <1>2, <1>8, <1>10

(****************************************************************************)
(* The invariant of the builds over mutexes.                                *)
(****************************************************************************)
MutexTypeOK ==
    /\ code \in [Threads -> Seq(MutexLabels \cup ReaderWords)]
    /\ at \in [Threads -> build.nodes \cup {NULL}]
    /\ owner \in [build.nodes -> Threads \cup {NULL}]
    /\ locked \in [build.nodes -> BOOLEAN]

MutexOK ==
    /\ MutexTypeOK
    /\ \A t \in Threads : CodeOK(code[t], Gate)
    /\ \A t \in Threads : code[t] # <<>> => at[t] \in build.nodes
    /\ \A t \in Threads : Holds(code[t], "lock", "leave") => owner[at[t]] = t
    /\ \A t \in Threads : Holds(code[t], "global", "leaveGlobal") => globalOwner = t
    /\ \A t \in Threads : Holds(code[t], "setFlag", "clearFlag") =>
           Holds(code[t], "lock", "leave") /\ locked[at[t]]
    /\ \A t \in Threads : code[t] \in ArrivedCodes => t \in readers
    /\ \A t, u \in Threads : Gate.read /\ Past(code[t], Gate) => code[u] \notin ReadingCodes

LEMMA SameBuildSameGate ==
    ASSUME build' = build
    PROVE  /\ Gate' = Gate /\ HasReaders' = HasReaders /\ Lined' = Lined /\ Posts' = Posts
           /\ Hierarchical' = Hierarchical /\ Flagged' = Flagged
           /\ offer' = offer /\ flush' = flush /\ rounds' = rounds /\ Slots' = Slots
BY DEF Gate, HasReaders, Lined, Posts, Hierarchical, Flagged, Helping, offer, flush, rounds, Slots

LEMMA CodeTyped ==
    ASSUME NEW g, NEW c, CodeOK(c, g)
    PROVE  c \in Seq(MutexLabels \cup ReaderWords)
<1>1. CASE MutexCode(c, g)
  BY <1>1 DEF MutexCode
<1>2. CASE c \in ReaderCodes
  <2>1. \A i \in DOMAIN c : c[i] \in ReaderWords
    BY <1>2 DEF ReaderCodes, ArrivedCodes, ReadingCodes, ReaderWords
  <2>2. c \in Seq(ReaderWords)
    <3>1. \/ c = <<"lower", "read", "depart">> \/ c = <<"read", "depart">>
          \/ c = <<"check", "lower", "read", "depart">>
          \/ c = <<"arrive", "check", "lower", "read", "depart">>
          \/ c = <<"depart", "waitFree", "arrive", "check", "lower", "read", "depart">>
          \/ c = <<"waitFree", "arrive", "check", "lower", "read", "depart">>
          \/ c = <<"depart">>
      BY <1>2 DEF ReaderCodes, ArrivedCodes, ReadingCodes
    <3>2. /\ "arrive" \in ReaderWords /\ "check" \in ReaderWords /\ "lower" \in ReaderWords
          /\ "read" \in ReaderWords /\ "depart" \in ReaderWords /\ "waitFree" \in ReaderWords
      BY DEF ReaderWords
    <3>3. <<"lower", "read", "depart">> \in Seq(ReaderWords)
      BY <3>2
    <3>4. <<"read", "depart">> \in Seq(ReaderWords)
      BY <3>2
    <3>5. <<"check", "lower", "read", "depart">> \in Seq(ReaderWords)
      BY <3>2
    <3>6. <<"arrive", "check", "lower", "read", "depart">> \in Seq(ReaderWords)
      BY <3>2
    <3>7. <<"depart", "waitFree", "arrive", "check", "lower", "read", "depart">> \in Seq(ReaderWords)
      BY <3>2
    <3>8. <<"waitFree", "arrive", "check", "lower", "read", "depart">> \in Seq(ReaderWords)
      BY <3>2
    <3>9. <<"depart">> \in Seq(ReaderWords)
      BY <3>2
    <3>10. QED
      BY <3>1, <3>3, <3>4, <3>5, <3>6, <3>7, <3>8, <3>9
  <2>3. QED
    BY <2>2
<1>3. QED
  BY <1>1, <1>2 DEF CodeOK

(* t goes on with the code d, at the same node unless it returns.           *)
GoesTo(t, d) ==
    /\ code' = [code EXCEPT ![t] = d]
    /\ at' \in [Threads -> build.nodes \cup {NULL}]
    /\ \A u \in Threads \ {t} : at'[u] = at[u]
    /\ d # <<>> => at'[t] \in build.nodes /\ (code[t] # <<>> => at'[t] = at[t])

LEMMA GoIs ==
    ASSUME MutexOK, NEW t \in Threads, NEW d, Go(t, d), code[t] # <<>>
    PROVE  GoesTo(t, d)
BY DEF MutexOK, MutexTypeOK, Go, GoesTo

LEMMA QuietStep ==
    ASSUME MutexOK, build' = build, NEW t \in Threads, NEW d, GoesTo(t, d),
           CodeOK(d, Gate), NoMore(code[t], d, Gate), UNCHANGED <<owner, locked, globalOwner>>,
           readers \subseteq readers'
    PROVE  MutexOK'
<1>1. Gate' = Gate
  BY SameBuildSameGate
<1>2. /\ code'[t] = d /\ \A u \in Threads \ {t} : code'[u] = code[u] /\ at'[u] = at[u]
      /\ \A u \in Threads : code'[u] # <<>> => at'[u] \in build.nodes
  BY DEF GoesTo, MutexOK, MutexTypeOK
<1>3. \A l : ~Has(<<>>, l)
  BY NothingLeft
<1>4. /\ Holds(d, "lock", "leave") => Holds(code[t], "lock", "leave") /\ at'[t] = at[t]
  BY <1>3 DEF NoMore, GoesTo, Holds
<1>5. MutexTypeOK'
  BY CodeTyped DEF GoesTo, MutexOK, MutexTypeOK
<1>6. /\ \A u \in Threads : CodeOK(code'[u], Gate)
      /\ \A u \in Threads : Holds(code'[u], "lock", "leave") => owner'[at'[u]] = u
      /\ \A u \in Threads : Holds(code'[u], "global", "leaveGlobal") => globalOwner' = u
      /\ \A u \in Threads : code'[u] \in ArrivedCodes => u \in readers'
  BY <1>2, <1>4 DEF MutexOK, NoMore
<1>7. ASSUME NEW u \in Threads, Holds(code'[u], "setFlag", "clearFlag")
      PROVE  Holds(code'[u], "lock", "leave") /\ locked'[at'[u]]
  <2>1. CASE u # t
    BY <1>2, <1>7, <2>1 DEF MutexOK
  <2>2. CASE u = t
    BY <1>2, <1>4, <1>7, <2>2 DEF MutexOK, NoMore
  <2>3. QED
    BY <2>1, <2>2
<1>8. QED
  BY <1>1, <1>2, <1>5, <1>6, <1>7 DEF MutexOK, NoMore

(* A step in which t neither takes nor releases anything.                   *)
Quiet(t) ==
    /\ code[t] # <<>>
    /\ \E d : Go(t, d) /\ CodeOK(d, Gate) /\ NoMore(code[t], d, Gate)

LEMMA QuietIsSafe ==
    ASSUME MutexOK, NEW t \in Threads, Quiet(t), build' = build,
           UNCHANGED <<owner, locked, globalOwner>>, readers \subseteq readers'
    PROVE  MutexOK'
BY GoIs, QuietStep DEF Quiet

LEMMA AtMutex ==
    ASSUME MutexOK, NEW t \in Threads, NEW l \in MutexLabels, At(t, l)
    PROVE  MutexCode(code[t], Gate) /\ code[t] # <<>> /\ Head(code[t]) = l
BY CodeHead DEF MutexOK, At

LEMMA AtReader ==
    ASSUME MutexOK, NEW t \in Threads, NEW l \in ReaderWords, At(t, l)
    PROVE  code[t] \in ReaderCodes /\ Gate.read /\ code[t] # <<>> /\ Head(code[t]) = l
BY CodeHead DEF ReaderWords, MutexLabels, MutexOK, At

LEMMA EmptyCode ==
    ASSUME NEW g \in MutexGates
    PROVE  Fresh(<<>>, g) /\ MutexCode(<<>>, g)
BY DEF MutexGates, Fresh, CodeOK, MutexCode, Pair, Guards, Holds, Has, Then, NotAfter, HoldsNone,
       ArrivedCodes, ReadingCodes, Guarded

SmallLabels == MutexLabels \ (Guarded \cup TakingLabels \cup {"readers"})

LEMMA SmallStep ==
    ASSUME MutexOK, MutexTable, NEW t \in Threads, code[t] # <<>>, NEW l \in SmallLabels,
           Go(t, <<l>>)
    PROVE  Quiet(t)
BY SmallCode, FreshHoldsNoMore DEF MutexTable, SmallLabels, TakingLabels, Quiet

LEMMA TailStep ==
    ASSUME MutexOK, MutexTable, NEW t \in Threads,
           NEW l \in MutexLabels \ (TakingLabels \cup {"readers"}), GoOn(t, l)
    PROVE  Quiet(t)
BY AtMutex, TailHoldsNoMore DEF GoOn, MutexTable, Quiet, Rest, CodeOK

LEMMA StayStep ==
    ASSUME MutexOK, NEW t \in Threads, code[t] # <<>>, Go(t, code[t])
    PROVE  Quiet(t)
BY SameHoldsNoMore DEF MutexOK, Quiet

LEMMA LookIsQuiet ==
    ASSUME MutexOK, MutexTable, NEW t \in Threads, Look(t)
    PROVE  Quiet(t)
<1>1. code[t] # <<>>
  BY DEF Look, At
<1>2. {"firstTry"} \cup Lookings \subseteq SmallLabels
  BY DEF Lookings, SmallLabels, MutexLabels, Guarded, TakingLabels
<1>3. \E l \in SmallLabels : Go(t, <<l>>)
  BY <1>2 DEF MutexTable, Lookings, Look
<1>4. QED
  BY <1>1, <1>3, SmallStep

LEMMA TryFailsIsQuiet ==
    ASSUME MutexOK, MutexTable, NEW t \in Threads, TryFails(t)
    PROVE  Quiet(t)
<1>1. code[t] # <<>>
  BY DEF TryFails, At
<1>2. Lookings \subseteq SmallLabels
  BY DEF Lookings, SmallLabels, MutexLabels, Guarded, TakingLabels
<1>3. \E l \in SmallLabels : Go(t, <<l>>)
  BY <1>2 DEF TryFails, MutexTable
<1>4. QED
  BY <1>1, <1>3, SmallStep

PlainLabels == MutexLabels \ (TakingLabels \cup {"readers"})

LEMMA PlainIs ==
    {"own", "critical", "openFlag", "mark", "close", "await", "barrier"} \subseteq PlainLabels
BY DEF PlainLabels, MutexLabels, TakingLabels

LEMMA PlainIsQuiet ==
    ASSUME MutexOK, MutexTable, NEW t \in Threads,
           RunOwn(t) \/ OpenFlag(t) \/ OfferMarks(t) \/ Close(t) \/ Await(t) \/ WaitWriters(t)
    PROVE  Quiet(t)
BY PlainIs, TailStep DEF RunOwn, OpenFlag, OfferMarks, Close, Await, WaitWriters, PlainLabels

LEMMA OpenIsQuiet ==
    ASSUME MutexOK, MutexTable, NEW t \in Threads, Open(t)
    PROVE  Quiet(t)
BY AtMutex, TailHoldsNoMore, PrefixHoldsNoMore, NoMoreTwice DEF Open, MutexLabels, MutexTable,
   TakingLabels, Guarded, Quiet, Rest, CodeOK

LEMMA OfferLooksIsQuiet ==
    ASSUME MutexOK, MutexTable, NEW t \in Threads, OfferLooks(t)
    PROVE  Quiet(t)
BY SmallStep DEF OfferLooks, At, Lookings, SmallLabels, MutexLabels, Guarded, TakingLabels,
   MutexTable

LEMMA OfferClaimsIsQuiet ==
    ASSUME MutexOK, MutexTable, NEW t \in Threads, OfferClaims(t)
    PROVE  Quiet(t)
<1>1. code[t] # <<>>
  BY DEF OfferClaims, At
<1>2. Lookings \cup {"publish"} \subseteq SmallLabels /\ Gate \in MutexGates
  BY DEF MutexTable, Lookings, SmallLabels, MutexLabels, Guarded, TakingLabels
<1>3. \A l \in SmallLabels : Fresh(<<l>>, Gate) /\ MutexCode(<<l>>, Gate)
  BY <1>2, SmallCode DEF SmallLabels, TakingLabels
<1>4. PICK rest \in rounds.refused : \E a, b \in BOOLEAN :
          Go(t, IF Fits(t) THEN <<"publish">>
                ELSE (IF a THEN <<"mark">> ELSE <<>>)
                     \o (IF b THEN <<"close">> ELSE <<>>) \o rest)
  <2>1. PICK rest \in rounds.refused :
            Go(t, IF Fits(t) THEN <<"publish">>
                  ELSE (IF ~Fits(t) /\ count[at[t]] < offer.marksBelow THEN <<"mark">> ELSE <<>>)
                       \o (IF offer.offerCloses THEN <<"close">> ELSE <<>>) \o rest)
    BY DEF OfferClaims
  <2>2. PICK a \in BOOLEAN : a <=> (~Fits(t) /\ count[at[t]] < offer.marksBelow)
    OBVIOUS
  <2>3. PICK b \in BOOLEAN : b <=> offer.offerCloses
    OBVIOUS
  <2>4. QED
    BY <2>1, <2>2, <2>3
<1>5. PICK l \in Lookings : rest = <<l>>
  BY DEF MutexTable
<1>6. \/ Go(t, <<"publish">>) \/ Go(t, <<l>>) \/ Go(t, <<"close">> \o <<l>>)
      \/ Go(t, <<"mark">> \o <<l>>) \/ Go(t, <<"mark">> \o (<<"close">> \o <<l>>))
  <2>0. l \in MutexLabels /\ "mark" \in MutexLabels /\ "close" \in MutexLabels
    BY DEF Lookings, MutexLabels
  <2>1. <<l>> \in Seq(MutexLabels) /\ <<"mark">> \in Seq(MutexLabels)
        /\ <<"close">> \in Seq(MutexLabels) /\ <<>> \in Seq(MutexLabels)
    BY <2>0
  <2>2. /\ (<<>> \o <<>>) \o <<l>> = <<l>>
        /\ (<<>> \o <<"close">>) \o <<l>> = <<"close">> \o <<l>>
        /\ (<<"mark">> \o <<>>) \o <<l>> = <<"mark">> \o <<l>>
        /\ (<<"mark">> \o <<"close">>) \o <<l>> = <<"mark">> \o (<<"close">> \o <<l>>)
    BY <2>1, ConcatAssociative, ConcatEmptySeq
  <2>3. QED
    BY <1>4, <1>5, <2>2
<1>7. ASSUME NEW x \in {"mark", "close"}, NEW c, Fresh(c, Gate), MutexCode(c, Gate)
      PROVE  Fresh(<<x>> \o c, Gate) /\ MutexCode(<<x>> \o c, Gate)
  BY <1>2, <1>7, PrefixHoldsNoMore DEF MutexLabels, TakingLabels, Guarded, Fresh, NoMore, HoldsNone,
     CodeOK
<1>9. \E d : Fresh(d, Gate) /\ Go(t, d)
  BY <1>2, <1>3, <1>6, <1>7
<1>10. QED
  BY <1>1, <1>2, <1>9, FreshHoldsNoMore DEF Quiet

LEMMA OfferPublishesIsQuiet ==
    ASSUME MutexOK, MutexTable, NEW t \in Threads, OfferPublishes(t)
    PROVE  Quiet(t)
<1>1. code[t] # <<>> /\ Gate \in MutexGates
  BY DEF OfferPublishes, At, MutexTable
<1>2. CASE Go(t, <<>>)
  BY <1>1, <1>2, EmptyCode, FreshHoldsNoMore DEF Quiet
<1>3. CASE Go(t, <<"await">>)
  BY <1>1, <1>3, SmallStep DEF SmallLabels, MutexLabels, Guarded, TakingLabels
<1>4. QED
  BY <1>2, <1>3 DEF OfferPublishes

(* Inside the flush.                                                        *)
LEMMA InFlush ==
    ASSUME MutexOK, MutexTable, NEW t \in Threads, NEW l \in Guarded \cap MutexLabels, At(t, l)
    PROVE  /\ MutexCode(code[t], Gate) /\ code[t] # <<>>
           /\ Holds(code[t], Gate.in, Gate.out) /\ ~Has(code[t], "readers")
           /\ NoMore(code[t], Rest(t), Gate) /\ MutexCode(Rest(t), Gate)
<1>1. MutexCode(code[t], Gate) /\ code[t] # <<>> /\ Head(code[t]) = l
  BY AtMutex
<1>2. l \notin TakingLabels \cup {"readers"} /\ Gate \in MutexGates
      /\ Gate.in \in TakingLabels /\ Gate.out \in TakingLabels
  BY DEF Guarded, TakingLabels, MutexTable, MutexGates
<1>3. Holds(code[t], Gate.in, Gate.out)
  BY <1>1, <1>2, GuardsTail DEF MutexCode
<1>4. ~Has(code[t], "readers")
  BY <1>1, <1>2, NotAfterTail, HasTail DEF MutexCode
<1>5. QED
  BY <1>1, <1>2, <1>3, <1>4, TailHoldsNoMore DEF Rest

LEMMA ClosingHoldsNoMore ==
    ASSUME MutexTable, NEW c, NEW d, MutexCode(d, Gate), NoMore(c, d, Gate)
    PROVE  MutexCode(Closing \o d, Gate) /\ NoMore(c, Closing \o d, Gate)
<1>1. Gate \in MutexGates /\ d \in Seq(MutexLabels)
  BY DEF MutexTable, MutexCode
<1>2. CASE Closing = <<>>
  BY <1>1, <1>2
<1>3. CASE Closing = <<"close">>
  BY <1>1, <1>3, PrefixHoldsNoMore, NoMoreTwice DEF MutexLabels, TakingLabels, Guarded
<1>4. QED
  BY <1>2, <1>3 DEF Closing

LEMMA FlushFollowsIsQuiet ==
    ASSUME MutexTable, NEW t \in Threads, code[t] # <<>>, NEW rest, FlushFollows(t, rest),
           MutexCode(rest, Gate), NoMore(code[t], rest, Gate)
    PROVE  Quiet(t)
BY ClosingHoldsNoMore DEF FlushFollows, Quiet, CodeOK

LEMMA FlushLoadsIsQuiet ==
    ASSUME MutexOK, MutexTable, NEW t \in Threads, FlushLoads(t)
    PROVE  Quiet(t)
BY SMTT(30), InFlush, PrefixHoldsNoMore, FlushFollowsIsQuiet, SameHoldsNoMore DEF FlushLoads,
   Guarded,
   MutexLabels, MutexTable, TakingLabels, Quiet, CodeOK

LEMMA FlushIsQuiet ==
    ASSUME MutexOK, MutexTable, NEW t \in Threads,
           FlushSwaps(t) \/ FlushSwapFails(t) \/ FlushRuns(t) \/ FlushReturns(t)
    PROVE  Quiet(t)
BY InFlush, ClosingHoldsNoMore, FlushFollowsIsQuiet, StayStep DEF FlushSwaps, FlushSwapFails,
   FlushRuns, FlushReturns, Guarded, MutexLabels, Quiet, CodeOK

(****************************************************************************)
(* The readers over mutexes.                                                *)
(****************************************************************************)
LEMMA ReadersLook ==
    <<"depart", "waitFree">> \o Reading
        = <<"depart", "waitFree", "arrive", "check", "lower", "read", "depart">>
<1> DEFINE a == <<"depart", "waitFree">>
           b == <<"arrive", "check", "lower", "read", "depart">>
           c == <<"depart", "waitFree", "arrive", "check", "lower", "read", "depart">>
<1>1. /\ "arrive" \in ReaderWords /\ "check" \in ReaderWords /\ "lower" \in ReaderWords
      /\ "read" \in ReaderWords /\ "depart" \in ReaderWords /\ "waitFree" \in ReaderWords
  BY DEF ReaderWords
<1>2. a \in Seq(ReaderWords) /\ b \in Seq(ReaderWords) /\ c \in Seq(ReaderWords)
  BY <1>1
<1>3. Len(a) = 2 /\ Len(b) = 5 /\ Len(c) = 7
  OBVIOUS
<1>4. a \o b \in Seq(ReaderWords) /\ Len(a \o b) = 7
      /\ \A i \in 1 .. 7 : (a \o b)[i] = IF i <= 2 THEN a[i] ELSE b[i - 2]
  BY <1>2, <1>3, ConcatProperties
<1>5. ASSUME NEW i \in 1 .. 7
      PROVE  (a \o b)[i] = c[i]
  BY <1>4
<1>6. a \o b = c
  <2> HIDE DEF a, b, c
  <2>1. QED
    BY <1>2, <1>3, <1>4, <1>5, SeqEqual
<1>7. QED
  BY <1>6 DEF Reading

LEMMA ReaderTails ==
    ASSUME NEW c \in ReaderCodes
    PROVE  /\ Head(c) = "arrive" => Tail(c) = <<"check", "lower", "read", "depart">>
           /\ Head(c) = "check" => /\ c = <<"check", "lower", "read", "depart">>
                                   /\ Tail(c) = <<"lower", "read", "depart">>
                                   /\ Tail(Tail(c)) = <<"read", "depart">>
           /\ Head(c) = "lower" => c \in ReadingCodes /\ Tail(c) = <<"read", "depart">>
           /\ Head(c) = "read" => c \in ReadingCodes /\ Tail(c) = <<"depart">>
           /\ Head(c) = "depart" =>
                Tail(c) \in {<<>>, <<"waitFree", "arrive", "check", "lower", "read", "depart">>}
           /\ Head(c) = "waitFree" =>
                Tail(c) = <<"arrive", "check", "lower", "read", "depart">>
<1>1. CASE c = <<"lower", "read", "depart">>
  BY <1>1 DEF ReadingCodes
<1>2. CASE c = <<"read", "depart">>
  BY <1>2 DEF ReadingCodes
<1>3. CASE c = <<"check", "lower", "read", "depart">>
  BY <1>3
<1>4. CASE c = <<"arrive", "check", "lower", "read", "depart">>
  BY <1>4
<1>5. CASE c = <<"depart", "waitFree", "arrive", "check", "lower", "read", "depart">>
  BY <1>5
<1>6. CASE c = <<"waitFree", "arrive", "check", "lower", "read", "depart">>
  BY <1>6
<1>7. CASE c = <<"depart">>
  BY <1>7
<1>8. QED
  BY <1>1, <1>2, <1>3, <1>4, <1>5, <1>6, <1>7 DEF ReaderCodes, ArrivedCodes, ReadingCodes

LEMMA ReaderHoldsNoMore ==
    ASSUME NEW g \in MutexGates, g.read, NEW c, NEW d \in ReaderCodes \cup {<<>>},
           d \in ArrivedCodes => c \in ArrivedCodes, d \in ReadingCodes => c \in ReadingCodes
    PROVE  CodeOK(d, g) /\ NoMore(c, d, g)
<1>1. \A l \in MutexLabels : ~Has(d, l)
  BY ReaderCodesHold, NothingLeft
<1>2. "leave" \in MutexLabels /\ "leaveGlobal" \in MutexLabels /\ "clearFlag" \in MutexLabels
      /\ g.out \in MutexLabels
  BY DEF MutexGates, MutexLabels
<1>3. CodeOK(d, g)
  BY EmptyCode DEF CodeOK
<1>4. QED
  BY <1>1, <1>2, <1>3 DEF NoMore, Holds, Past

LEMMA ReaderIsQuiet ==
    ASSUME MutexOK, MutexTable, NEW t \in Threads, WaitFree(t) \/ LowerBarrier(t) \/ Read(t)
    PROVE  Quiet(t)
<1>1. PICK l \in {"waitFree", "lower", "read"} : At(t, l) /\ (Go(t, Rest(t)) \/ Go(t, code[t]))
  BY DEF WaitFree, LowerBarrier, Read, GoOn
<1>2. code[t] \in ReaderCodes /\ Gate.read /\ code[t] # <<>> /\ Head(code[t]) = l
  BY <1>1, AtReader DEF ReaderWords
<1>3. CASE Go(t, Rest(t))
  <2>1. Rest(t) \in ReaderCodes
    BY <1>2, ReaderTails DEF Rest, ReaderCodes, ArrivedCodes, ReadingCodes
  <2>2. Rest(t) \in ArrivedCodes => code[t] \in ReadingCodes
    BY <1>2, ReaderTails DEF Rest, ArrivedCodes, ReadingCodes
  <2>3. CodeOK(Rest(t), Gate) /\ NoMore(code[t], Rest(t), Gate)
    BY <1>2, <2>1, <2>2, ReaderHoldsNoMore DEF MutexTable, ArrivedCodes
  <2>4. QED
    BY <1>2, <1>3, <2>3 DEF Quiet
<1>4. CASE Go(t, code[t])
  BY <1>2, <1>4, StayStep
<1>5. QED
  BY <1>1, <1>3, <1>4

(****************************************************************************)
(* The steps that take or release.                                          *)
(****************************************************************************)
LEMMA StepOfOne ==
    ASSUME MutexOK, MutexTable, build' = build, NEW t \in Threads, NEW d, GoesTo(t, d),
           CodeOK(d, Gate),
           owner' \in [build.nodes -> Threads \cup {NULL}], locked' \in [build.nodes -> BOOLEAN],
           Holds(d, "lock", "leave") => owner'[at'[t]] = t,
           Holds(d, "global", "leaveGlobal") => globalOwner' = t,
           Holds(d, "setFlag", "clearFlag") => Holds(d, "lock", "leave") /\ locked'[at'[t]],
           d \in ArrivedCodes => t \in readers',
           Gate.read /\ Past(d, Gate) => \A u \in Threads \ {t} : code[u] \notin ReadingCodes,
           d \in ReadingCodes => \A u \in Threads \ {t} : ~Past(code[u], Gate),
           \A u \in Threads \ {t} :
               /\ Holds(code[u], "lock", "leave") => owner'[at[u]] = u
               /\ Holds(code[u], "global", "leaveGlobal") => globalOwner' = u
               /\ Holds(code[u], "setFlag", "clearFlag") => locked'[at[u]]
               /\ code[u] \in ArrivedCodes => u \in readers'
    PROVE  MutexOK'
<1>1. Gate' = Gate /\ Gate \in MutexGates
  BY SameBuildSameGate DEF MutexTable
<1>2. /\ code'[t] = d /\ \A u \in Threads \ {t} : code'[u] = code[u] /\ at'[u] = at[u]
      /\ \A u \in Threads : code'[u] # <<>> => at'[u] \in build.nodes
  BY DEF GoesTo, MutexOK, MutexTypeOK
<1>3. MutexTypeOK'
  BY CodeTyped DEF GoesTo, MutexOK, MutexTypeOK
<1>4. /\ \A u \in Threads : CodeOK(code'[u], Gate)
      /\ \A u \in Threads : Holds(code'[u], "lock", "leave") => owner'[at'[u]] = u
      /\ \A u \in Threads : Holds(code'[u], "global", "leaveGlobal") => globalOwner' = u
      /\ \A u \in Threads : Holds(code'[u], "setFlag", "clearFlag") =>
             Holds(code'[u], "lock", "leave") /\ locked'[at'[u]]
      /\ \A u \in Threads : code'[u] \in ArrivedCodes => u \in readers'
  BY <1>2 DEF MutexOK
<1>5. d \in ReadingCodes => ~Past(d, Gate)
  BY <1>1, ReaderCodesHold DEF Past, Holds, ReaderCodes, ArrivedCodes, MutexGates, MutexLabels
<1>6. ASSUME NEW u \in Threads, NEW v \in Threads, Gate.read, Past(code'[u], Gate),
             code'[v] \in ReadingCodes
      PROVE  FALSE
  BY <1>2, <1>5, <1>6 DEF MutexOK
<1>7. QED
  BY <1>1, <1>2, <1>3, <1>4, <1>6 DEF MutexOK

LEMMA HoldersHaveNodes ==
    ASSUME MutexOK, NEW t \in Threads, NEW l, Has(code[t], l)
    PROVE  code[t] # <<>> /\ at[t] \in build.nodes
BY NothingLeft DEF MutexOK

LEMMA FreshHolds ==
    ASSUME NEW g \in MutexGates, NEW d, Fresh(d, g)
    PROVE  /\ CodeOK(d, g) /\ ~Holds(d, "lock", "leave") /\ ~Holds(d, "global", "leaveGlobal")
           /\ ~Holds(d, "setFlag", "clearFlag") /\ ~Past(d, g) /\ d \notin ArrivedCodes
           /\ d \notin ReadingCodes
BY DEF MutexGates, Fresh, HoldsNone, Past, ArrivedCodes

LEMMA CallKeeps ==
    ASSUME MutexOK, MutexTable, NEW t \in Threads, Call(t)
    PROVE  MutexOK'
<1>1. PICK d \in {rounds.start} \cup build.calls.others : code' = [code EXCEPT ![t] = d]
  BY DEF Call
<1>2. PICK n \in build.nodes : at' = [at EXCEPT ![t] = n]
  BY DEF Call, MutexTable
<1>3. Fresh(d, Gate) /\ Gate \in MutexGates
  BY DEF MutexTable
<1>4. GoesTo(t, d)
  BY <1>1, <1>2 DEF GoesTo, MutexOK, MutexTypeOK, Call
<1>5. UNCHANGED <<build, owner, locked, globalOwner, readers>>
  BY DEF Call, mutexVars, readerVars
<1>6. QED
  BY <1>3, <1>4, <1>5, FreshHolds, StepOfOne DEF MutexOK, MutexTypeOK

LEMMA TakeKeeps ==
    ASSUME MutexOK, MutexTable, NEW t \in Threads, code[t] # <<>>, NEW d, Go(t, d), Take(t),
           MutexCode(d, Gate), Holds(d, "lock", "leave"),
           Holds(d, "global", "leaveGlobal") => globalOwner = t,
           ~Holds(d, "setFlag", "clearFlag"),
           Gate.read /\ Past(d, Gate) => Past(code[t], Gate)
    PROVE  MutexOK'
<1>1. GoesTo(t, d)
  BY GoIs
<1>2. d # <<>>
  BY NothingLeft DEF Holds
<1>3. at'[t] = at[t] /\ at[t] \in build.nodes
  BY <1>1, <1>2 DEF GoesTo
<1>4. UNCHANGED <<build, locked, globalOwner, readers>> /\ owner' = [owner EXCEPT ![at[t]] = t]
      /\ owner[at[t]] = NULL
  BY DEF Take, readerVars
<1>5. owner' \in [build.nodes -> Threads \cup {NULL}] /\ owner'[at'[t]] = t
  BY <1>3, <1>4 DEF MutexOK, MutexTypeOK
<1>6. \A u \in Threads \ {t} : Holds(code[u], "lock", "leave") => owner'[at[u]] = u
  BY <1>3, <1>4, NullAssumption DEF MutexOK, MutexTypeOK
<1>7. CodeOK(d, Gate) /\ d \notin ArrivedCodes /\ d \notin ReadingCodes
  BY MutexCodesDoNotRead DEF CodeOK, ReaderCodes, ArrivedCodes
<1>8. locked' \in [build.nodes -> BOOLEAN]
  BY <1>4 DEF MutexOK, MutexTypeOK
<1>9. Gate.read /\ Past(d, Gate) => \A u \in Threads \ {t} : code[u] \notin ReadingCodes
  BY DEF MutexOK
<1>10. \A u \in Threads \ {t} :
           /\ Holds(code[u], "global", "leaveGlobal") => globalOwner' = u
           /\ Holds(code[u], "setFlag", "clearFlag") => locked'[at[u]]
           /\ code[u] \in ArrivedCodes => u \in readers'
  BY <1>4 DEF MutexOK
<1>11. Holds(d, "global", "leaveGlobal") => globalOwner' = t
  BY <1>4
<1>12. QED
  BY <1>1, <1>4, <1>5, <1>6, <1>7, <1>8, <1>9, <1>10, <1>11, StepOfOne

LEMMA TakesKeep ==
    ASSUME MutexOK, MutexTable, NEW t \in Threads, TryWins(t) \/ LockTakes(t)
    PROVE  MutexOK'
<1>1. Take(t) /\ code[t] # <<>>
  BY DEF TryWins, LockTakes, GoOn, At
<1>2. CASE \E path \in build.calls.first \cup {build.calls.help} : Go(t, path)
  BY <1>1, <1>2, TakeKeeps DEF MutexTable, Won, Past, MutexGates
<1>3. CASE GoOn(t, "lock")
  <2>1. MutexCode(code[t], Gate) /\ Head(code[t]) = "lock"
    BY <1>3, AtMutex DEF GoOn, MutexLabels
  <2>2. /\ MutexCode(Rest(t), Gate) /\ Go(t, Rest(t)) /\ Gate \in MutexGates
    BY <1>1, <1>3, <2>1, TailOfCode DEF Rest, GoOn, MutexTable
  <2>3. /\ Holds(Rest(t), "lock", "leave") /\ ~Holds(code[t], "lock", "leave")
        /\ Holds(Rest(t), "global", "leaveGlobal") <=> Holds(code[t], "global", "leaveGlobal")
        /\ Holds(Rest(t), "setFlag", "clearFlag") <=> Holds(code[t], "setFlag", "clearFlag")
        /\ Has(Rest(t), "readers") <=> Has(code[t], "readers")
    BY <1>1, <2>1, PairTail, HasTail DEF MutexCode, Rest
  <2>4. ~Holds(Rest(t), "setFlag", "clearFlag")
    BY <2>3 DEF MutexOK
  <2>5. Gate.in = "lock" /\ Gate.read => Has(Rest(t), "readers")
    BY <1>1, <2>1, ThenTail DEF MutexCode, Rest
  <2>6. Gate.read /\ Past(Rest(t), Gate) => Past(code[t], Gate)
    BY <2>2, <2>3, <2>4, <2>5 DEF Past, MutexGates
  <2>7. QED
    BY <1>1, <2>2, <2>3, <2>4, <2>6, TakeKeeps DEF MutexOK
<1>4. QED
  BY <1>2, <1>3 DEF TryWins, LockTakes

(* The steps over other taking labels: what the tail holds.                 *)
LEMMA TailHolds ==
    ASSUME MutexOK, MutexTable, NEW t \in Threads, NEW l \in MutexLabels, GoOn(t, l)
    PROVE  /\ MutexCode(code[t], Gate) /\ code[t] # <<>> /\ Head(code[t]) = l
           /\ MutexCode(Rest(t), Gate) /\ GoesTo(t, Rest(t)) /\ CodeOK(Rest(t), Gate)
           /\ Rest(t) \notin ArrivedCodes /\ Rest(t) \notin ReadingCodes
           /\ l = "leave" => Holds(code[t], "lock", "leave") /\ ~Holds(Rest(t), "lock", "leave")
                             /\ ~Has(Rest(t), "clearFlag")
           /\ l \notin {"lock", "leave"} =>
                (Holds(Rest(t), "lock", "leave") <=> Holds(code[t], "lock", "leave"))
           /\ l = "global" => Holds(Rest(t), "global", "leaveGlobal")
           /\ l = "leaveGlobal" => Holds(code[t], "global", "leaveGlobal")
                                   /\ ~Holds(Rest(t), "global", "leaveGlobal")
           /\ l \notin {"global", "leaveGlobal"} =>
                (Holds(Rest(t), "global", "leaveGlobal") <=> Holds(code[t], "global", "leaveGlobal"))
           /\ l = "setFlag" => Holds(Rest(t), "setFlag", "clearFlag")
           /\ l = "clearFlag" => Holds(code[t], "setFlag", "clearFlag")
                                 /\ ~Holds(Rest(t), "setFlag", "clearFlag")
           /\ l \notin {"setFlag", "clearFlag"} =>
                (Holds(Rest(t), "setFlag", "clearFlag") <=> Holds(code[t], "setFlag", "clearFlag"))
           /\ l \in {"setFlag", "clearFlag"} => Holds(code[t], "lock", "leave")
           /\ l # "readers" => (Has(Rest(t), "readers") <=> Has(code[t], "readers"))
           /\ l = Gate.in /\ Gate.read => Has(Rest(t), "readers")
<1>1. MutexCode(code[t], Gate) /\ code[t] # <<>> /\ Head(code[t]) = l
  BY AtMutex DEF GoOn
<1>2. MutexCode(Rest(t), Gate) /\ GoesTo(t, Rest(t)) /\ CodeOK(Rest(t), Gate)
  BY <1>1, TailOfCode, GoIs DEF Rest, GoOn, CodeOK
<1>3. Rest(t) \notin ArrivedCodes /\ Rest(t) \notin ReadingCodes
  BY <1>2, MutexCodesDoNotRead DEF ReaderCodes, ArrivedCodes
<1>4. /\ l = "leave" => Holds(code[t], "lock", "leave") /\ ~Holds(Rest(t), "lock", "leave")
      /\ l \notin {"lock", "leave"} =>
           (Holds(Rest(t), "lock", "leave") <=> Holds(code[t], "lock", "leave"))
  BY <1>1, PairTail DEF MutexCode, Rest
<1>5. /\ l = "global" => Holds(Rest(t), "global", "leaveGlobal")
      /\ l = "leaveGlobal" => Holds(code[t], "global", "leaveGlobal")
                              /\ ~Holds(Rest(t), "global", "leaveGlobal")
      /\ l \notin {"global", "leaveGlobal"} =>
           (Holds(Rest(t), "global", "leaveGlobal") <=> Holds(code[t], "global", "leaveGlobal"))
  BY <1>1, PairTail DEF MutexCode, Rest
<1>6. /\ l = "setFlag" => Holds(Rest(t), "setFlag", "clearFlag")
      /\ l = "clearFlag" => Holds(code[t], "setFlag", "clearFlag")
                            /\ ~Holds(Rest(t), "setFlag", "clearFlag")
      /\ l \notin {"setFlag", "clearFlag"} =>
           (Holds(Rest(t), "setFlag", "clearFlag") <=> Holds(code[t], "setFlag", "clearFlag"))
  BY <1>1, PairTail DEF MutexCode, Rest
<1>7. l \in {"setFlag", "clearFlag"} => Holds(code[t], "lock", "leave")
  BY <1>1, GuardsTail DEF MutexCode
<1>8. /\ l # "readers" => (Has(Rest(t), "readers") <=> Has(code[t], "readers"))
      /\ l = "leave" => ~Has(Rest(t), "clearFlag")
      /\ l = Gate.in /\ Gate.read => Has(Rest(t), "readers")
  BY <1>1, HasTail, NotAfterTail, ThenTail DEF MutexCode, Rest
<1>9. QED
  BY <1>1, <1>2, <1>3, <1>4, <1>5, <1>6, <1>7, <1>8

LEMMA LeaveKeeps ==
    ASSUME MutexOK, MutexTable, NEW t \in Threads, Leave(t)
    PROVE  MutexOK'
<1>0. GoOn(t, "leave") /\ "leave" \in MutexLabels /\ Gate \in MutexGates
  BY DEF Leave, MutexLabels, MutexTable
<1>1. /\ code[t] # <<>> /\ GoesTo(t, Rest(t)) /\ CodeOK(Rest(t), Gate)
      /\ Rest(t) \notin ArrivedCodes /\ Rest(t) \notin ReadingCodes
      /\ Holds(code[t], "lock", "leave") /\ ~Holds(Rest(t), "lock", "leave")
      /\ ~Has(Rest(t), "clearFlag")
      /\ Holds(Rest(t), "global", "leaveGlobal") => Holds(code[t], "global", "leaveGlobal")
      /\ Has(Rest(t), "readers") <=> Has(code[t], "readers")
  BY <1>0, TailHolds
<1>2. UNCHANGED <<build, locked, globalOwner, readers>> /\ owner' = [owner EXCEPT ![at[t]] = NULL]
      /\ owner[at[t]] = t
  BY <1>1 DEF Leave, readerVars, MutexOK
<1>3. ~Holds(Rest(t), "setFlag", "clearFlag")
  BY <1>1 DEF Holds
<1>4. Past(Rest(t), Gate) => Past(code[t], Gate)
  BY <1>0, <1>1, <1>3 DEF Past, MutexGates
<1>5. \A u \in Threads \ {t} : Holds(code[u], "lock", "leave") => owner'[at[u]] = u
  BY <1>2 DEF MutexOK, MutexTypeOK
<1>6. owner' \in [build.nodes -> Threads \cup {NULL}]
  BY <1>2 DEF MutexOK, MutexTypeOK
<1>7. QED
  BY <1>1, <1>2, <1>3, <1>4, <1>5, <1>6, StepOfOne DEF MutexOK, MutexTypeOK

LEMMA FlagKeeps ==
    ASSUME MutexOK, MutexTable, NEW t \in Threads, SetFlag(t) \/ ClearFlag(t)
    PROVE  MutexOK'
<1>1. PICK l \in {"setFlag", "clearFlag"} :
          /\ GoOn(t, l) /\ locked' = [locked EXCEPT ![at[t]] = (l = "setFlag")]
  BY DEF SetFlag, ClearFlag
<1>2. /\ l \in MutexLabels /\ Gate \in MutexGates
      /\ UNCHANGED <<build, owner, globalOwner, readers>>
  BY DEF SetFlag, ClearFlag, MutexLabels, MutexTable, readerVars
<1>3. /\ code[t] # <<>> /\ GoesTo(t, Rest(t)) /\ CodeOK(Rest(t), Gate)
      /\ Rest(t) \notin ArrivedCodes /\ Rest(t) \notin ReadingCodes
      /\ Holds(code[t], "lock", "leave") /\ Holds(Rest(t), "lock", "leave")
      /\ Holds(Rest(t), "setFlag", "clearFlag") => l = "setFlag"
      /\ Holds(Rest(t), "global", "leaveGlobal") => Holds(code[t], "global", "leaveGlobal")
      /\ Has(Rest(t), "readers") <=> Has(code[t], "readers")
      /\ l = Gate.in /\ Gate.read => Has(Rest(t), "readers")
  BY <1>1, <1>2, TailHolds
<1>4. Rest(t) # <<>> /\ at'[t] = at[t] /\ at[t] \in build.nodes /\ owner[at[t]] = t
  BY <1>3, NothingLeft DEF Holds, GoesTo, MutexOK
<1>5. /\ locked' \in [build.nodes -> BOOLEAN]
      /\ Holds(Rest(t), "setFlag", "clearFlag") => locked'[at'[t]]
  BY <1>1, <1>3, <1>4 DEF MutexOK, MutexTypeOK
<1>6. Gate.read /\ Past(Rest(t), Gate) => Past(code[t], Gate)
  BY <1>2, <1>3 DEF Past, MutexGates
<1>7. \A u \in Threads \ {t} : Holds(code[u], "setFlag", "clearFlag") => locked'[at[u]]
  <2>1. ASSUME NEW u \in Threads \ {t}, Holds(code[u], "setFlag", "clearFlag")
        PROVE  locked'[at[u]]
    BY <1>1, <1>4, <2>1, HoldersHaveNodes DEF MutexOK, Holds, MutexTypeOK
  <2>2. QED
    BY <2>1
<1>8. QED
  BY <1>2, <1>3, <1>4, <1>5, <1>6, <1>7, StepOfOne DEF MutexOK, MutexTypeOK

LEMMA GlobalKeeps ==
    ASSUME MutexOK, MutexTable, NEW t \in Threads, TakeGlobal(t) \/ LeaveGlobal(t)
    PROVE  MutexOK'
<1>1. PICK l \in {"global", "leaveGlobal"} :
          /\ GoOn(t, l)
          /\ l = "global" => globalOwner = NULL /\ globalOwner' = t
  BY DEF TakeGlobal, LeaveGlobal
<1>2. /\ l \in MutexLabels /\ Gate \in MutexGates
      /\ UNCHANGED <<build, owner, locked, readers>>
  BY DEF TakeGlobal, LeaveGlobal, MutexLabels, MutexTable, readerVars
<1>3. /\ code[t] # <<>> /\ GoesTo(t, Rest(t)) /\ CodeOK(Rest(t), Gate)
      /\ Rest(t) \notin ArrivedCodes /\ Rest(t) \notin ReadingCodes
      /\ Holds(Rest(t), "lock", "leave") <=> Holds(code[t], "lock", "leave")
      /\ Holds(Rest(t), "setFlag", "clearFlag") <=> Holds(code[t], "setFlag", "clearFlag")
      /\ l = "leaveGlobal" => Holds(code[t], "global", "leaveGlobal")
      /\ Holds(Rest(t), "global", "leaveGlobal") => l = "global"
      /\ Has(Rest(t), "readers") <=> Has(code[t], "readers")
      /\ l = Gate.in /\ Gate.read => Has(Rest(t), "readers")
  BY <1>1, <1>2, TailHolds
<1>left. Holds(Rest(t), "lock", "leave") => Rest(t) # <<>> /\ at'[t] = at[t]
  BY <1>2, <1>3, NothingLeft DEF Holds, GoesTo
<1>4. Holds(Rest(t), "lock", "leave") => owner'[at'[t]] = t
  BY <1>2, <1>3, <1>left DEF MutexOK
<1>5. Holds(Rest(t), "setFlag", "clearFlag") => Holds(Rest(t), "lock", "leave") /\ locked'[at'[t]]
  BY <1>2, <1>3, <1>left DEF MutexOK
<1>6. Gate.read /\ Past(Rest(t), Gate) => Past(code[t], Gate)
  BY <1>2, <1>3 DEF Past, MutexGates
<1>7. \A u \in Threads \ {t} : ~Holds(code[u], "global", "leaveGlobal")
  BY <1>1, <1>3, NullAssumption DEF MutexOK
<1>8. Holds(Rest(t), "global", "leaveGlobal") => globalOwner' = t
  BY <1>1, <1>3
<1>9. QED
  BY <1>2, <1>3, <1>4, <1>5, <1>6, <1>7, <1>8, StepOfOne DEF MutexOK, MutexTypeOK

(****************************************************************************)
(* Readers against holders.                                                 *)
(****************************************************************************)
LEMMA WaitReadersKeeps ==
    ASSUME MutexOK, MutexTable, NEW t \in Threads, WaitReaders(t)
    PROVE  MutexOK'
<1>1. GoOn(t, "readers") /\ "readers" \in MutexLabels /\ readers = {}
      /\ UNCHANGED <<build, owner, locked, globalOwner, readers>>
  BY DEF WaitReaders, MutexLabels, mutexVars, readerVars
<1>2. /\ GoesTo(t, Rest(t)) /\ CodeOK(Rest(t), Gate)
      /\ Rest(t) \notin ArrivedCodes /\ Rest(t) \notin ReadingCodes
      /\ Holds(Rest(t), "lock", "leave") <=> Holds(code[t], "lock", "leave")
      /\ Holds(Rest(t), "setFlag", "clearFlag") <=> Holds(code[t], "setFlag", "clearFlag")
      /\ Holds(Rest(t), "global", "leaveGlobal") <=> Holds(code[t], "global", "leaveGlobal")
      /\ code[t] # <<>>
  BY <1>1, TailHolds
<1>3. Holds(Rest(t), "lock", "leave") => owner'[at'[t]] = t
  BY <1>1, <1>2, NothingLeft DEF Holds, GoesTo, MutexOK
<1>4. Holds(Rest(t), "setFlag", "clearFlag") => Holds(Rest(t), "lock", "leave") /\ locked'[at'[t]]
  BY <1>1, <1>2, NothingLeft DEF Holds, GoesTo, MutexOK
<1>5. \A u \in Threads : code[u] \notin ReadingCodes
  BY <1>1 DEF MutexOK, ArrivedCodes
<1>6. QED
  BY <1>1, <1>2, <1>3, <1>4, <1>5, StepOfOne DEF MutexOK, MutexTypeOK

LEMMA ReaderDoesNotHold ==
    ASSUME MutexTable, NEW d \in ReaderCodes \cup {<<>>}
    PROVE  /\ ~Holds(d, "lock", "leave") /\ ~Holds(d, "setFlag", "clearFlag")
           /\ ~Holds(d, "global", "leaveGlobal") /\ ~Past(d, Gate)
<1>1. \A l \in MutexLabels : ~Has(d, l)
  BY ReaderCodesHold, NothingLeft
<1>2. /\ "leave" \in MutexLabels /\ "clearFlag" \in MutexLabels /\ "leaveGlobal" \in MutexLabels
      /\ Gate.out \in MutexLabels
  BY DEF MutexTable, MutexGates, MutexLabels
<1>3. QED
  BY <1>1, <1>2 DEF Holds, Past

LEMMA ArriveKeeps ==
    ASSUME MutexOK, MutexTable, NEW t \in Threads, Arrive(t)
    PROVE  MutexOK'
<1>1. GoOn(t, "arrive") /\ readers' = readers \cup {t} /\ "arrive" \in ReaderWords
      /\ UNCHANGED <<build, owner, locked, globalOwner>>
  BY DEF Arrive, ReaderWords, mutexVars
<1>2. code[t] \in ReaderCodes /\ Gate.read /\ code[t] # <<>> /\ Head(code[t]) = "arrive"
  BY <1>1, AtReader DEF GoOn
<1>3. Rest(t) = <<"check", "lower", "read", "depart">>
  BY <1>2, ReaderTails DEF Rest
<1>4. Rest(t) \in ReaderCodes /\ Rest(t) \notin ReadingCodes
  BY <1>3 DEF ReaderCodes, ArrivedCodes, ReadingCodes
<1>5. GoesTo(t, Rest(t)) /\ CodeOK(Rest(t), Gate)
  BY <1>1, <1>2, <1>4, GoIs DEF GoOn, CodeOK
<1>6. /\ ~Holds(Rest(t), "lock", "leave") /\ ~Holds(Rest(t), "setFlag", "clearFlag")
      /\ ~Holds(Rest(t), "global", "leaveGlobal") /\ ~Past(Rest(t), Gate)
  BY <1>4, ReaderDoesNotHold
<1>7. QED
  BY <1>1, <1>4, <1>5, <1>6, StepOfOne DEF MutexOK, MutexTypeOK

LEMMA DepartKeeps ==
    ASSUME MutexOK, MutexTable, NEW t \in Threads, Depart(t)
    PROVE  MutexOK'
<1>1. GoOn(t, "depart") /\ readers' = readers \ {t} /\ "depart" \in ReaderWords
      /\ UNCHANGED <<build, owner, locked, globalOwner>>
  BY DEF Depart, ReaderWords, mutexVars
<1>2. code[t] \in ReaderCodes /\ Gate.read /\ code[t] # <<>> /\ Head(code[t]) = "depart"
  BY <1>1, AtReader DEF GoOn
<1>3. Rest(t) \in {<<>>, <<"waitFree", "arrive", "check", "lower", "read", "depart">>}
  BY <1>2, ReaderTails DEF Rest
<1>4. Rest(t) \in ReaderCodes \cup {<<>>} /\ Rest(t) \notin ArrivedCodes
      /\ Rest(t) \notin ReadingCodes
  <2>1. CASE Rest(t) = <<>>
    BY <2>1 DEF ArrivedCodes, ReadingCodes
  <2>2. CASE Rest(t) = <<"waitFree", "arrive", "check", "lower", "read", "depart">>
    BY <2>2 DEF ReaderCodes, ArrivedCodes, ReadingCodes
  <2>3. QED
    BY <1>3, <2>1, <2>2
<1>5. GoesTo(t, Rest(t)) /\ CodeOK(Rest(t), Gate)
  BY <1>1, <1>2, <1>4, GoIs, EmptyCode DEF GoOn, CodeOK, MutexTable
<1>6. /\ ~Holds(Rest(t), "lock", "leave") /\ ~Holds(Rest(t), "setFlag", "clearFlag")
      /\ ~Holds(Rest(t), "global", "leaveGlobal") /\ ~Past(Rest(t), Gate)
  BY <1>4, ReaderDoesNotHold
<1>7. QED
  BY <1>1, <1>4, <1>5, <1>6, StepOfOne DEF MutexOK, MutexTypeOK

(* Who is past its gate is seen by the readers.                             *)
LEMMA HoldersAreSeen ==
    ASSUME MutexOK, MutexTable, ~Hierarchical => build.nodes = {1}, NEW t \in Threads,
           Holds(code[t], Gate.in, Gate.out)
    PROVE  ReadersSeeLocked
<1>1. at[t] \in build.nodes
  BY HoldersHaveNodes DEF Holds
<1>2. CASE Hierarchical
  BY <1>2, NullAssumption DEF MutexOK, Gate, MutexTable, ReadersSeeLocked
<1>3. CASE ~Hierarchical /\ Flagged
  BY <1>1, <1>3 DEF MutexOK, Gate, MutexTable, ReadersSeeLocked, IsLocked
<1>4. CASE ~Hierarchical /\ ~Flagged
  BY <1>1, <1>4, NullAssumption DEF MutexOK, Gate, MutexTable, ReadersSeeLocked, IsLocked
<1>5. QED
  BY <1>2, <1>3, <1>4

LEMMA CheckLockedKeeps ==
    ASSUME MutexOK, MutexTable, ~Hierarchical => build.nodes = {1}, NEW t \in Threads,
           CheckLocked(t)
    PROVE  MutexOK'
<1>1. At(t, "check") /\ "check" \in ReaderWords
      /\ UNCHANGED <<build, owner, locked, globalOwner, readers>>
  BY DEF CheckLocked, ReaderWords, mutexVars, readerVars
<1>2. code[t] \in ReaderCodes /\ Gate.read /\ code[t] # <<>> /\ Head(code[t]) = "check"
  BY <1>1, AtReader
<1>3. /\ code[t] \in ArrivedCodes
      /\ Rest(t) \in ReadingCodes /\ Tail(Rest(t)) \in ReadingCodes
  BY <1>2, ReaderTails DEF Rest, ArrivedCodes, ReadingCodes
<1>4. PICK d : Go(t, d) /\ \/ d = <<"depart", "waitFree">> \o Reading
                           \/ d \in ReadingCodes /\ ~ReadersSeeLocked
  BY <1>3 DEF CheckLocked
<1>5. d \in ReaderCodes
  BY <1>4, ReadersLook DEF ReaderCodes, ArrivedCodes
<1>6. d \in ReadingCodes => ~ReadersSeeLocked
  BY <1>4, ReadersLook DEF ReadingCodes
<1>7. GoesTo(t, d) /\ CodeOK(d, Gate)
  BY <1>2, <1>4, <1>5, GoIs DEF CodeOK
<1>8. /\ ~Holds(d, "lock", "leave") /\ ~Holds(d, "setFlag", "clearFlag")
      /\ ~Holds(d, "global", "leaveGlobal") /\ ~Past(d, Gate)
  BY <1>5, ReaderDoesNotHold
<1>9. d \in ReadingCodes => \A u \in Threads : ~Past(code[u], Gate)
  BY <1>6, HoldersAreSeen DEF Past
<1>10. t \in readers'
  BY <1>1, <1>3 DEF MutexOK
<1>11. QED
  BY <1>1, <1>7, <1>8, <1>9, <1>10, StepOfOne DEF MutexOK, MutexTypeOK

(****************************************************************************)
(* Every step of the builds over mutexes.                                   *)
(****************************************************************************)
LEMMA StutterKeeps ==
    ASSUME MutexOK, UNCHANGED vars
    PROVE  MutexOK'
BY SameBuildSameGate DEF vars, callVars, mutexVars, readerVars, MutexOK, MutexTypeOK

LEMMA StepsAreQuiet ==
    ASSUME MutexOK, MutexTable, NEW t \in Threads,
           \/ Look(t) \/ TryFails(t) \/ RunOwn(t) \/ Open(t) \/ OpenFlag(t) \/ OfferLooks(t)
           \/ OfferClaims(t) \/ OfferPublishes(t) \/ OfferMarks(t) \/ Close(t) \/ Await(t)
           \/ FlushLoads(t) \/ FlushSwaps(t) \/ FlushSwapFails(t) \/ FlushRuns(t)
           \/ FlushReturns(t) \/ WaitWriters(t) \/ WaitFree(t) \/ LowerBarrier(t) \/ Read(t)
    PROVE  MutexOK'
<1>1. Quiet(t)
  BY SMTT(30), LookIsQuiet, TryFailsIsQuiet, PlainIsQuiet, OpenIsQuiet, OfferLooksIsQuiet,
     OfferClaimsIsQuiet, OfferPublishesIsQuiet, FlushLoadsIsQuiet, FlushIsQuiet, ReaderIsQuiet
<1>2. UNCHANGED <<build, owner, locked, globalOwner, readers>>
  BY DEF Look, TryFails, RunOwn, Open, OpenFlag, OfferLooks, OfferClaims, OfferPublishes,
         OfferMarks, Fill, Close, Await, FlushLoads, FlushSwaps, FlushSwapFails, FlushRuns,
         FlushReturns, WaitWriters, WaitFree, LowerBarrier, Read, mutexVars, readerVars
<1>3. QED
  BY <1>1, <1>2, QuietIsSafe

LEMMA NextKeepsMutexOK ==
    ASSUME MutexOK, MutexTable, ~Hierarchical => build.nodes = {1}, Next
    PROVE  MutexOK'
<1>1. PICK t \in Threads : Call(t) \/ Step(t)
  BY DEF Next
<1>2. CASE Call(t)
  BY <1>2, CallKeeps
<1>3. CASE Indicator(t)
  BY <1>3, ArriveKeeps, DepartKeeps, WaitReadersKeeps DEF Indicator
<1>4. CASE StepBesides(t)
  BY <1>4, StepsAreQuiet, TakesKeep, LeaveKeeps, FlagKeeps, GlobalKeeps, CheckLockedKeeps,
     StutterKeeps DEF StepBesides, FlushIsStuck, BarrierIsStuck
<1>5. QED
  BY <1>1, <1>2, <1>3, <1>4 DEF Step

(* None of the labels of the builds with nodes is ever met.                 *)
NodeLabels ==
    {"tail", "enqueue", "turn", "leaveLine", "readTail", "lookAgain", "seesEnabled", "arriveAt",
     "checkEnabled", "spin", "departFrom", "enable", "disable", "spinners", "post", "isActive",
     "activate", "tryBarrier", "tryLine", "answered", "combine", "visit"}

LEMMA NodeStepLabels ==
    ASSUME NEW t \in Threads, NodeStep(t)
    PROVE  \E l \in NodeLabels : At(t, l)
BY DEF NodeStep, NodeLabels, GoOn, LoadTail, Enqueue, Turn, LeaveLine, ReadTail, LookAgain,
       SeesEnabled, ArriveAt, CheckEnabled, Spin, DepartFrom, Enable, Disable, WaitSpinners, Post,
       IsActive, Activate, TryBarrier, TryLine, Answered, Combine, Visit, Clean

LEMMA NoNodeSteps ==
    ASSUME MutexOK, NEW t \in Threads
    PROVE  ~NodeStep(t)
BY CodeHead, NodeStepLabels DEF NodeLabels, MutexLabels, ReaderWords, MutexOK, At

LEMMA InitMutexOK ==
    ASSUME Start(Locks \cup NodeBuilds), build \in Locks
    PROVE  MutexOK
BY MutexTables, EmptyCode, FreshHolds DEF Start, MutexTypeOK, MutexTable, MutexOK, Fresh, HoldsNone

LEMMA MutexInside ==
    ASSUME MutexOK, MutexTable, ~Hierarchical => build.nodes = {1}
    PROVE  MutualExclusion /\ ReadersExcludeWriters
<1>1. ASSUME NEW t \in Threads, Inside(t)
      PROVE  Holds(code[t], Gate.in, Gate.out) /\ ~Has(code[t], "readers")
  <2>1. PICK l \in {"own", "critical", "flush", "swap", "visit"} : At(t, l)
    BY <1>1 DEF Inside
  <2>2. l \in Guarded \cap MutexLabels
    BY <2>1, CodeHead DEF At, MutexOK, Guarded, MutexLabels, ReaderWords
  <2>3. QED
    BY <2>1, <2>2, InFlush
<1>2. ASSUME NEW t \in Threads, NEW u \in Threads, Inside(t), Inside(u)
      PROVE  t = u
  <2>1. Holds(code[t], Gate.in, Gate.out) /\ Holds(code[u], Gate.in, Gate.out)
    BY <1>1, <1>2
  <2>2. at[t] \in build.nodes /\ at[u] \in build.nodes
    BY <2>1, HoldersHaveNodes DEF Holds
  <2>3. CASE Hierarchical
    BY <2>1, <2>3 DEF MutexOK, Gate, MutexTable
  <2>4. CASE ~Hierarchical /\ Flagged
    BY <2>1, <2>2, <2>4 DEF MutexOK, Gate, MutexTable
  <2>5. CASE ~Hierarchical /\ ~Flagged
    BY <2>1, <2>2, <2>5 DEF MutexOK, Gate, MutexTable
  <2>6. QED
    BY <2>3, <2>4, <2>5
<1>3. ASSUME NEW t \in Threads, NEW u \in Threads, Inside(t), At(u, "read")
      PROVE  FALSE
  BY <1>1, <1>3, AtReader, ReaderTails DEF ReaderWords, Past, MutexOK
<1>4. QED
  BY <1>2, <1>3 DEF MutualExclusion, ReadersExcludeWriters

(****************************************************************************)
(* The builds in which every thread has a node.                             *)
(****************************************************************************)
QueueLabels ==
    {"tail", "claim", "mark", "close", "publish", "await", "enqueue", "enable", "open", "openFlag",
     "turn", "readers", "own", "critical", "flush", "swap", "disable", "spinners", "leaveLine",
     "readTail", "seesEnabled", "arriveAt", "depart", "departFrom"}
PostLabels ==
    {"post", "isActive", "activate", "tryBarrier", "tryLine", "answered", "barrier", "enqueue",
     "turn", "readers", "combine", "visit", "critical", "leaveLine"}

LinedGate ==
    [labels |-> IF Posts THEN PostLabels ELSE QueueLabels,
     read |-> ~Posts \/ Helping("readers"),
     spins |-> Helping("disable")]
LinedGates ==
    {[labels |-> QueueLabels, read |-> TRUE, spins |-> s] : s \in BOOLEAN}
    \cup {[labels |-> PostLabels, read |-> r, spins |-> FALSE] : r \in BOOLEAN}

(* Where a thread looks around and decides how to go on.                    *)
Deciding ==
    {"tail", "claim", "publish", "readTail", "seesEnabled", "arriveAt", "isActive", "tryBarrier",
     "tryLine", "answered"}

LinedCode(c, g) ==
    /\ c \in Seq(g.labels)
    /\ NotAfter(c, Deciding, "leaveLine")
    /\ NotAfter(c, Deciding, "disable")
    /\ NotAfter(c, Deciding, "spinners")
    /\ Pair(c, "enqueue", "leaveLine")
    /\ Guards(c, Guarded, "enqueue", "leaveLine")
    /\ NotAfter(c, Guarded \cup {"leaveLine"}, "turn")
    /\ NotAfter(c, Guarded \cup {"leaveLine", "enqueue"}, "readers")
    /\ Then(c, {"enqueue"}, "turn")
    /\ Pair(c, "enable", "disable")
    /\ ~g.spins => ~Has(c, "seesEnabled") /\ ~Has(c, "arriveAt")
    /\ g.spins => /\ Then(c, Guarded \cup {"enqueue", "turn"}, "disable")
                  /\ Then(c, {"disable"}, "spinners")
                  /\ Then(c, {"spinners"}, "leaveLine")
                  /\ NotAfter(c, {"spinners"}, "enable")

SpinningCodes == {<<"checkEnabled">>, <<"spin", "read", "departFrom">>, <<"read", "departFrom">>}
LookingCodes ==
    {<<"arrive", "lookAgain", "read", "depart">>, <<"lookAgain", "read", "depart">>,
     <<"read", "depart">>}

LinedCodeOK(c, g) ==
    \/ LinedCode(c, g)
    \/ g.labels = QueueLabels /\ c \in LookingCodes
    \/ g.spins /\ c \in SpinningCodes
    \/ g.labels = PostLabels /\ g.read /\ c \in ReaderCodes

InLine(c) == Holds(c, "enqueue", "leaveLine")
Enables(c) == Holds(c, "enable", "disable")

(* Readers may spin at the node of a thread with this left.                 *)
SpunOn(c) == ~Has(c, "enable") /\ Has(c, "spinners")

Idle(c, g) == LinedCode(c, g) /\ ~InLine(c) /\ ~Enables(c)

LinedTable ==
    /\ Lined /\ ~Hierarchical
    /\ LinedGate \in LinedGates
    /\ \A c \in build.calls.others \cup {rounds.start} :
           Idle(c, LinedGate) \/ (LinedGate.labels = PostLabels /\ LinedGate.read /\ c = Reading)
    /\ ~Posts => /\ \A c \in rounds.refused \cup build.calls.lookFails : Idle(c, LinedGate)
                 /\ build.calls.spins = LinedGate.spins
    /\ Posts => /\ \A c \in rounds.again : \E l \in {"tryBarrier", "tryLine", "isActive"} : c = <<l>>
                /\ LinedCode(build.calls.help, LinedGate)
                /\ InLine(build.calls.help) /\ ~Enables(build.calls.help)
                /\ LinedGate.read => Has(build.calls.help, "readers")

(* How the calls of sdw and aer are put together.                           *)
LEMMA ThreeParts ==
    ASSUME NEW S, NEW a \in Seq(S), NEW b \in Seq(S), NEW c \in Seq(S), NEW d \in Seq(S),
           Len(d) = Len(a) + Len(b) + Len(c),
           \A i \in 1 .. Len(d) :
               d[i] = IF i <= Len(a) THEN a[i] ELSE IF i <= Len(a) + Len(b) THEN b[i - Len(a)]
                      ELSE c[i - (Len(a) + Len(b))]
    PROVE  (a \o b) \o c = d
<1>1. PICK e : e = a \o b
  OBVIOUS
<1>2. /\ e \in Seq(S) /\ Len(e) = Len(a) + Len(b)
      /\ \A i \in 1 .. Len(a) + Len(b) : e[i] = IF i <= Len(a) THEN a[i] ELSE b[i - Len(a)]
  BY <1>1, ConcatProperties
<1>3. PICK f : f = e \o c
  OBVIOUS
<1>4. /\ f \in Seq(S) /\ Len(f) = Len(e) + Len(c)
      /\ \A i \in 1 .. Len(e) + Len(c) : f[i] = IF i <= Len(e) THEN e[i] ELSE c[i - Len(e)]
  BY <1>2, <1>3, ConcatProperties
<1>5. Len(a) \in Nat /\ Len(b) \in Nat /\ Len(c) \in Nat /\ Len(f) = Len(d)
  BY <1>2, <1>4
<1>6. ASSUME NEW i \in 1 .. Len(f)
      PROVE  f[i] = d[i]
  <2>1. i \in 1 .. Len(d) /\ i \in 1 .. Len(e) + Len(c) /\ Len(e) = Len(a) + Len(b)
    BY <1>2, <1>4, <1>5
  <2>2. f[i] = IF i <= Len(a) + Len(b) THEN e[i] ELSE c[i - (Len(a) + Len(b))]
    BY <1>4, <2>1
  <2>3. i <= Len(a) + Len(b) => e[i] = IF i <= Len(a) THEN a[i] ELSE b[i - Len(a)]
    BY <1>2, <1>5
  <2>4. d[i] = IF i <= Len(a) THEN a[i] ELSE IF i <= Len(a) + Len(b) THEN b[i - Len(a)]
               ELSE c[i - (Len(a) + Len(b))]
    BY <2>1
  <2>5. i <= Len(a) => i <= Len(a) + Len(b)
    BY <1>5
  <2>6. QED
    BY <2>2, <2>3, <2>4, <2>5
<1>7. f = d
  BY <1>4, <1>5, <1>6, SeqEqual
<1>8. QED
  BY <1>1, <1>3, <1>7

LEMMA SdwWords ==
    ASSUME NEW x \in {"own", "critical"}
    PROVE  (<<"enqueue", "open", "turn">> \o <<x>>)
                \o <<"flush", "leaveLine">>
               = <<"enqueue", "open", "turn", x, "flush", "leaveLine">>
<1> DEFINE a == <<"enqueue", "open", "turn">>
           b == <<x>>
           c == <<"flush", "leaveLine">>
           d == <<"enqueue", "open", "turn", x, "flush", "leaveLine">>
<1>1. x \in QueueLabels /\ \A l \in {"enqueue", "open", "turn", "flush", "leaveLine"} :
          l \in QueueLabels
  BY DEF QueueLabels
<1>2. a \in Seq(QueueLabels) /\ b \in Seq(QueueLabels) /\ c \in Seq(QueueLabels)
      /\ d \in Seq(QueueLabels)
  BY <1>1
<1>3. Len(a) = 3 /\ Len(b) = 1 /\ Len(c) = 2 /\ Len(d) = 6
  OBVIOUS
<1>4. ASSUME NEW i \in 1 .. 6
      PROVE  d[i] = IF i <= 3 THEN a[i] ELSE IF i <= 4 THEN b[i - 3] ELSE c[i - 4]
  OBVIOUS
<1>5. (a \o b) \o c = d
  <2> HIDE DEF a, b, c, d
  <2>1. Len(d) = Len(a) + Len(b) + Len(c)
    BY <1>3
  <2>2. \A i \in 1 .. Len(d) :
            d[i] = IF i <= Len(a) THEN a[i] ELSE IF i <= Len(a) + Len(b) THEN b[i - Len(a)]
                   ELSE c[i - (Len(a) + Len(b))]
    BY <1>3, <1>4
  <2>3. QED
    BY <1>2, <2>1, <2>2, ThreeParts
<1>6. QED
  BY <1>5

LEMMA AerWords ==
    ASSUME NEW x \in {"own", "critical"}
    PROVE  (<<"enqueue", "enable", "open", "turn">> \o <<x>>)
                \o <<"flush", "disable", "spinners", "leaveLine">>
               = <<"enqueue", "enable", "open", "turn", x, "flush", "disable", "spinners", "leaveLine">>
<1> DEFINE a == <<"enqueue", "enable", "open", "turn">>
           b == <<x>>
           c == <<"flush", "disable", "spinners", "leaveLine">>
           d == <<"enqueue", "enable", "open", "turn", x, "flush", "disable", "spinners", "leaveLine">>
<1>1. x \in QueueLabels /\ \A l \in {"enqueue", "enable", "open", "turn", "flush", "disable", "spinners", "leaveLine"} :
          l \in QueueLabels
  BY DEF QueueLabels
<1>2. a \in Seq(QueueLabels) /\ b \in Seq(QueueLabels) /\ c \in Seq(QueueLabels)
      /\ d \in Seq(QueueLabels)
  BY <1>1
<1>3. Len(a) = 4 /\ Len(b) = 1 /\ Len(c) = 4 /\ Len(d) = 9
  OBVIOUS
<1>4. ASSUME NEW i \in 1 .. 9
      PROVE  d[i] = IF i <= 4 THEN a[i] ELSE IF i <= 5 THEN b[i - 4] ELSE c[i - 5]
  OBVIOUS
<1>5. (a \o b) \o c = d
  <2> HIDE DEF a, b, c, d
  <2>1. Len(d) = Len(a) + Len(b) + Len(c)
    BY <1>3
  <2>2. \A i \in 1 .. Len(d) :
            d[i] = IF i <= Len(a) THEN a[i] ELSE IF i <= Len(a) + Len(b) THEN b[i - Len(a)]
                   ELSE c[i - (Len(a) + Len(b))]
    BY <1>3, <1>4
  <2>3. QED
    BY <1>2, <2>1, <2>2, ThreeParts
<1>6. QED
  BY <1>5

LEMMA SdwTable ==
    ASSUME build.calls = sdwlock_calls, build.nodes = Threads
    PROVE  LinedTable /\ QueueCalls
<1>0. /\ <<"enqueue", "open", "turn", "own", "flush", "leaveLine">>
           = (<<"enqueue", "open", "turn">> \o <<"own">>) \o <<"flush", "leaveLine">>
      /\ <<"enqueue", "open", "turn", "critical", "flush", "leaveLine">>
           = (<<"enqueue", "open", "turn">> \o <<"critical">>) \o <<"flush", "leaveLine">>
  BY SdwWords
<1>1. /\ build.calls.help = <<"flush", "leaveLine">>
      /\ build.calls.spins = FALSE
      /\ build.calls.lookFails = {<<"enqueue", "open", "turn", "critical", "flush", "leaveLine">>}
      /\ build.calls.others = {<<"enqueue", "open", "turn", "critical", "flush", "leaveLine">>, <<"readTail">>}
      /\ rounds.start = <<"tail">>
      /\ rounds.refused = {<<"enqueue", "open", "turn", "own", "flush", "leaveLine">>}
  BY <1>0 DEF rounds, sdwlock_calls
<1>2. Lined /\ ~Hierarchical /\ ~Posts /\ Helping("disable") = FALSE
  BY <1>1 DEF Lined, Hierarchical, Posts, Helping
<1>3. LinedGate = [labels |-> QueueLabels, read |-> TRUE, spins |-> FALSE]
  BY <1>2 DEF LinedGate
<1>4. LinedGate \in LinedGates
  BY <1>3 DEF LinedGates
<1>gate. Gate.in = "enqueue" /\ Gate.out = "leaveLine" /\ NodeGate = [in |-> "enqueue", out |-> "leaveLine"]
  BY <1>2 DEF Gate, NodeGate
<1> USE DEF LinedCode, Pair, Guards, Holds, Has, Then, NotAfter, Guarded, Idle, InLine, Enables,
            QueueLabels, PostLabels, Deciding
<1>5. Idle(<<"enqueue", "open", "turn", "own", "flush", "leaveLine">>, LinedGate)
  BY <1>3
<1>6. Idle(<<"enqueue", "open", "turn", "critical", "flush", "leaveLine">>, LinedGate)
  BY <1>3
<1>7. Idle(<<"tail">>, LinedGate) /\ Idle(<<"readTail">>, LinedGate)
  BY <1>3
<1>q1. FreshCode(<<"enqueue", "open", "turn", "own", "flush", "leaveLine">>)
  BY <1>gate DEF FreshCode, QueueCode, Framed, Serving, Loose, Branching
<1>q2. FreshCode(<<"enqueue", "open", "turn", "critical", "flush", "leaveLine">>)
  BY <1>gate DEF FreshCode, QueueCode, Framed, Serving, Loose, Branching
<1>q3. FreshCode(<<"tail">>)
  BY <1>gate DEF FreshCode, QueueCode, Framed, Serving, Loose, Branching
<1>q4. FreshCode(<<"readTail">>)
  BY <1>gate DEF FreshCode, QueueCode, Framed, Serving, Loose, Branching
<1> HIDE DEF LinedCode, Pair, Guards, Holds, Has, Then, NotAfter, Guarded, Idle, InLine, Enables,
             QueueLabels, PostLabels, Deciding
<1>calls. QueueCalls
  BY <1>1, <1>2, <1>q1, <1>q2, <1>q3, <1>q4 DEF QueueCalls
<1>8. QED
  BY <1>1, <1>2, <1>3, <1>4, <1>5, <1>6, <1>7, <1>calls DEF LinedTable

LEMMA AerTable ==
    ASSUME build.calls = aerlock_calls, build.nodes = Threads
    PROVE  LinedTable /\ QueueCalls
<1>0. /\ <<"enqueue", "enable", "open", "turn", "own", "flush", "disable", "spinners", "leaveLine">>
           = (<<"enqueue", "enable", "open", "turn">> \o <<"own">>) \o <<"flush", "disable", "spinners", "leaveLine">>
      /\ <<"enqueue", "enable", "open", "turn", "critical", "flush", "disable", "spinners", "leaveLine">>
           = (<<"enqueue", "enable", "open", "turn">> \o <<"critical">>) \o <<"flush", "disable", "spinners", "leaveLine">>
  BY AerWords
<1>1. /\ build.calls.help = <<"flush", "disable", "spinners", "leaveLine">>
      /\ build.calls.spins = TRUE
      /\ build.calls.lookFails = {<<"readTail">>, <<"enqueue", "enable", "open", "turn", "critical", "flush", "disable", "spinners", "leaveLine">>}
      /\ build.calls.others = {<<"enqueue", "enable", "open", "turn", "critical", "flush", "disable", "spinners", "leaveLine">>, <<"readTail">>}
      /\ rounds.start = <<"tail">>
      /\ rounds.refused = {<<"enqueue", "enable", "open", "turn", "own", "flush", "disable", "spinners", "leaveLine">>}
  BY SMTT(30), <1>0 DEF rounds, aerlock_calls
<1>2. Lined /\ ~Hierarchical /\ ~Posts /\ Helping("disable") = TRUE
  BY <1>1 DEF Lined, Hierarchical, Posts, Helping
<1>3. LinedGate = [labels |-> QueueLabels, read |-> TRUE, spins |-> TRUE]
  BY <1>2 DEF LinedGate
<1>4. LinedGate \in LinedGates
  BY <1>3 DEF LinedGates
<1>gate. Gate.in = "enqueue" /\ Gate.out = "leaveLine" /\ NodeGate = [in |-> "enqueue", out |-> "leaveLine"]
  BY <1>2 DEF Gate, NodeGate
<1> USE DEF LinedCode, Pair, Guards, Holds, Has, Then, NotAfter, Guarded, Idle, InLine, Enables,
            QueueLabels, PostLabels, Deciding
<1>5. Idle(<<"enqueue", "enable", "open", "turn", "own", "flush", "disable", "spinners", "leaveLine">>, LinedGate)
  BY <1>3
<1>6. Idle(<<"enqueue", "enable", "open", "turn", "critical", "flush", "disable", "spinners", "leaveLine">>, LinedGate)
  BY <1>3
<1>7. Idle(<<"tail">>, LinedGate) /\ Idle(<<"readTail">>, LinedGate)
  BY <1>3
<1>q1. FreshCode(<<"enqueue", "enable", "open", "turn", "own", "flush", "disable", "spinners", "leaveLine">>)
  BY <1>gate DEF FreshCode, QueueCode, Framed, Serving, Loose, Branching
<1>q2. FreshCode(<<"enqueue", "enable", "open", "turn", "critical", "flush", "disable", "spinners", "leaveLine">>)
  BY <1>gate DEF FreshCode, QueueCode, Framed, Serving, Loose, Branching
<1>q3. FreshCode(<<"tail">>)
  BY <1>gate DEF FreshCode, QueueCode, Framed, Serving, Loose, Branching
<1>q4. FreshCode(<<"readTail">>)
  BY <1>gate DEF FreshCode, QueueCode, Framed, Serving, Loose, Branching
<1> HIDE DEF LinedCode, Pair, Guards, Holds, Has, Then, NotAfter, Guarded, Idle, InLine, Enables,
             QueueLabels, PostLabels, Deciding
<1>calls. QueueCalls
  BY <1>1, <1>2, <1>q1, <1>q2, <1>q3, <1>q4 DEF QueueCalls
<1>8. QED
  BY <1>1, <1>2, <1>3, <1>4, <1>5, <1>6, <1>7, <1>calls DEF LinedTable

LEMMA FcrdxTable ==
    ASSUME build.calls = fcrdxlock_calls, build.nodes = Threads
    PROVE  LinedTable
<1>1. /\ build.calls.help = <<"readers", "combine", "leaveLine", "answered">>
      /\ build.calls.others = {<<"barrier", "enqueue", "turn", "combine", "critical", "leaveLine">>, Reading}
      /\ rounds.start = <<"post", "isActive">>
      /\ rounds.again = {<<"tryBarrier">>, <<"isActive">>}
  BY DEF rounds, fcrdxlock_calls
<1>2. Lined /\ ~Hierarchical /\ Posts /\ Helping("disable") = FALSE /\ Helping("readers") = TRUE
  BY <1>1 DEF Lined, Hierarchical, Posts, Helping
<1>3. LinedGate = [labels |-> PostLabels, read |-> TRUE, spins |-> FALSE]
  BY <1>2 DEF LinedGate
<1>4. LinedGate \in LinedGates
  BY <1>3 DEF LinedGates
<1> USE DEF LinedCode, Pair, Guards, Holds, Has, Then, NotAfter, Guarded, Idle, InLine, Enables,
            QueueLabels, PostLabels, Deciding
<1>5. Idle(<<"barrier", "enqueue", "turn", "combine", "critical", "leaveLine">>, LinedGate)
  BY <1>3
<1>6. Idle(<<"post", "isActive">>, LinedGate)
  BY <1>3
<1>7. /\ LinedCode(build.calls.help, LinedGate)
      /\ InLine(build.calls.help) /\ ~Enables(build.calls.help)
      /\ LinedGate.read => Has(build.calls.help, "readers")
  BY <1>1, <1>3
<1> HIDE DEF LinedCode, Pair, Guards, Holds, Has, Then, NotAfter, Guarded, Idle, InLine, Enables,
             QueueLabels, PostLabels, Deciding
<1>8. QED
  BY <1>1, <1>2, <1>3, <1>4, <1>5, <1>6, <1>7 DEF LinedTable

LEMMA AfdxTable ==
    ASSUME build.calls = afdxlock_calls, build.nodes = Threads
    PROVE  LinedTable
<1>1. /\ build.calls.help = <<"combine", "leaveLine", "answered">>
      /\ build.calls.others = {<<"enqueue", "turn", "critical", "leaveLine">>}
      /\ rounds.start = <<"post", "isActive">>
      /\ rounds.again = {<<"tryLine">>, <<"isActive">>}
  BY DEF rounds, afdxlock_calls
<1>2. Lined /\ ~Hierarchical /\ Posts /\ Helping("disable") = FALSE /\ Helping("readers") = FALSE
  BY <1>1 DEF Lined, Hierarchical, Posts, Helping
<1>3. LinedGate = [labels |-> PostLabels, read |-> FALSE, spins |-> FALSE]
  BY <1>2 DEF LinedGate
<1>4. LinedGate \in LinedGates
  BY <1>3 DEF LinedGates
<1> USE DEF LinedCode, Pair, Guards, Holds, Has, Then, NotAfter, Guarded, Idle, InLine, Enables,
            QueueLabels, PostLabels, Deciding
<1>5. Idle(<<"enqueue", "turn", "critical", "leaveLine">>, LinedGate)
  BY <1>3
<1>6. Idle(<<"post", "isActive">>, LinedGate)
  BY <1>3
<1>7. /\ LinedCode(build.calls.help, LinedGate)
      /\ InLine(build.calls.help) /\ ~Enables(build.calls.help)
      /\ LinedGate.read => Has(build.calls.help, "readers")
  BY <1>1, <1>3
<1> HIDE DEF LinedCode, Pair, Guards, Holds, Has, Then, NotAfter, Guarded, Idle, InLine, Enables,
             QueueLabels, PostLabels, Deciding
<1>8. QED
  BY <1>1, <1>2, <1>3, <1>4, <1>5, <1>6, <1>7 DEF LinedTable

LEMMA LinedTables ==
    ASSUME build \in NodeBuilds
    PROVE  LinedTable /\ build.nodes = Threads
BY SdwTable, AerTable, FcrdxTable, AfdxTable DEF NodeBuilds, Lock

(****************************************************************************)
(* The invariant of these builds: who is in line, who in it waits, and whom *)
(* readers that read without the line rely on.                              *)
(****************************************************************************)
LinedArrived == ArrivedCodes \cup {<<"lookAgain", "read", "depart">>}

LinedTypeOK ==
    /\ code = [t \in Threads |-> code[t]]
    /\ at \in [Threads -> Threads \cup {NULL}]
    /\ line \in Seq(Threads)
    /\ arrivedAt = [t \in Threads |-> arrivedAt[t]]

LineOK ==
    /\ \A i, j \in DOMAIN line : line[i] = line[j] => i = j
    /\ \A t \in Threads : InLine(code[t]) <=> \E i \in DOMAIN line : line[i] = t
    /\ \A i \in DOMAIN line : i > 1 => Has(code[line[i]], "turn") /\ ~Has(code[line[i]], "readers")
    /\ line # <<>> /\ ~Has(code[line[1]], "readers") => \A u \in Threads : code[u] \notin ReadingCodes

SpinnersOK ==
    /\ \A n \in Threads : n \in enabled <=> Enables(code[n])
    /\ \A u \in Threads : code[u] \in SpinningCodes => arrivedAt[u] = at[u]
    /\ \A u \in Threads : code[u] \in SpinningCodes \ {<<"checkEnabled">>} => SpunOn(code[at[u]])
    /\ \A u \in Threads : code[u] = <<"read", "departFrom">> => ~Has(code[at[u]], "disable")

LinedOK ==
    /\ LinedTypeOK
    /\ \A t \in Threads : LinedCodeOK(code[t], LinedGate)
    /\ \A t \in Threads : code[t] # <<>> => at[t] \in Threads
    /\ \A t \in Threads : code[t] \in LinedArrived => t \in readers
    /\ LineOK
    /\ SpinnersOK

(****************************************************************************)
(* The code of these builds, step by step.                                  *)
(****************************************************************************)
KeyLabels == {"enqueue", "leaveLine", "enable", "disable", "spinners", "turn", "readers"}
EveryReaderCode == LookingCodes \cup SpinningCodes \cup ReaderCodes
LookWords == ReaderWords \cup {"lookAgain", "checkEnabled", "spin"}

LEMMA LinedReadersHold ==
    ASSUME NEW c \in EveryReaderCode \cup {<<>>}
    PROVE  /\ \A l \in KeyLabels : ~Has(c, l)
           /\ ~InLine(c) /\ ~Enables(c) /\ ~SpunOn(c)
<1>1. \A l \in KeyLabels : ~Has(c, l)
  BY DEF EveryReaderCode, LookingCodes, SpinningCodes, ReaderCodes, ArrivedCodes, ReadingCodes,
         KeyLabels, Has
<1>2. QED
  BY <1>1 DEF KeyLabels, InLine, Enables, SpunOn, Holds

LEMMA LinedCodesDoNotRead ==
    ASSUME NEW g \in LinedGates, NEW c, LinedCode(c, g)
    PROVE  /\ c \notin LinedArrived /\ c \notin ReadingCodes /\ c \notin SpinningCodes
           /\ c \notin LookingCodes
<1>1. \A i \in DOMAIN c : c[i] \in QueueLabels \cup PostLabels
  BY DEF LinedCode, LinedGates
<1>2. "read" \notin QueueLabels \cup PostLabels /\ "checkEnabled" \notin QueueLabels \cup PostLabels
  BY DEF QueueLabels, PostLabels
<1>3. \A d \in LinedArrived \cup ReadingCodes \cup SpinningCodes \cup LookingCodes :
          \E i \in DOMAIN d : d[i] = "read" \/ d[i] = "checkEnabled"
  BY DEF LinedArrived, ArrivedCodes, ReadingCodes, SpinningCodes, LookingCodes
<1>4. QED
  BY <1>1, <1>2, <1>3

LEMMA LinedHead ==
    ASSUME NEW g \in LinedGates, NEW c, LinedCodeOK(c, g), c # <<>>
    PROVE  \/ LinedCode(c, g) /\ Head(c) \in g.labels /\ c \in Seq(g.labels)
           \/ c \in EveryReaderCode /\ Head(c) \in LookWords
              /\ (Head(c) \in g.labels => FALSE)
<1>1. CASE LinedCode(c, g)
  BY <1>1, TailIs DEF LinedCode
<1>2. CASE g.labels = QueueLabels /\ c \in LookingCodes
  BY <1>2 DEF LookingCodes, EveryReaderCode, LookWords, ReaderWords, QueueLabels
<1>3. CASE g.spins /\ c \in SpinningCodes
  BY <1>3 DEF LinedGates, SpinningCodes, EveryReaderCode, LookWords, ReaderWords, QueueLabels
<1>4. CASE g.labels = PostLabels /\ g.read /\ c \in ReaderCodes
  BY <1>4 DEF ReaderCodes, ArrivedCodes, ReadingCodes, EveryReaderCode, LookWords, ReaderWords,
              PostLabels
<1>5. QED
  BY <1>1, <1>2, <1>3, <1>4 DEF LinedCodeOK

(* After it has gone from c to d a thread is in line, and spun on, as       *)
(* before.                                                                  *)
Stays(c, d) ==
    /\ InLine(d) <=> InLine(c)
    /\ Enables(d) <=> Enables(c)
    /\ Has(d, "turn") <=> Has(c, "turn")
    /\ Has(d, "readers") <=> Has(c, "readers")
    /\ Has(d, "spinners") <=> Has(c, "spinners")
    /\ Has(d, "enable") <=> Has(c, "enable")
    /\ Has(d, "disable") <=> Has(c, "disable")

LEMMA LinedTail ==
    ASSUME NEW g \in LinedGates, NEW c, LinedCode(c, g), c # <<>>
    PROVE  /\ LinedCode(Tail(c), g)
           /\ Head(c) \notin KeyLabels => Stays(c, Tail(c))
           /\ Head(c) = "enqueue" => ~InLine(c) /\ InLine(Tail(c)) /\ Has(Tail(c), "turn")
                                     /\ ~Has(Tail(c), "readers")
           /\ Head(c) = "leaveLine" => InLine(c) /\ ~InLine(Tail(c)) /\ ~Has(c, "turn")
                                       /\ ~Has(c, "readers")
           /\ Head(c) \notin {"enqueue", "leaveLine"} => (InLine(Tail(c)) <=> InLine(c))
           /\ Head(c) = "enable" => Enables(Tail(c))
           /\ Head(c) = "disable" => ~Enables(Tail(c))
           /\ Head(c) \notin {"enable", "disable"} => (Enables(Tail(c)) <=> Enables(c))
           /\ \A l : Has(c, l) <=> Head(c) = l \/ Has(Tail(c), l)
BY HasTail, ThenTail, NotAfterTail, TailIs, PairTail DEF LinedCode, Pair, Guards, InLine, Enables,
   KeyLabels, Stays

LEMMA LinedGuarded ==
    ASSUME NEW g \in LinedGates, NEW c, LinedCode(c, g), c # <<>>, Head(c) \in Guarded
    PROVE  /\ InLine(c) /\ ~Has(c, "turn") /\ ~Has(c, "readers")
           /\ g.spins => Has(c, "disable")
BY GuardsTail, HasTail, NotAfterTail, ThenTail DEF LinedCode, InLine, Guarded

LEMMA LinedPrefix ==
    ASSUME NEW g \in LinedGates, NEW c, LinedCode(c, g),
           NEW x \in g.labels \ (KeyLabels \cup Deciding),
           x \in Guarded => /\ InLine(c) /\ ~Has(c, "turn") /\ ~Has(c, "readers")
                            /\ g.spins => Has(c, "disable")
    PROVE  LinedCode(<<x>> \o c, g) /\ Stays(c, <<x>> \o c)
<1>1. c \in Seq(g.labels)
  BY DEF LinedCode
<1>2. PICK d : d = <<x>> \o c
  OBVIOUS
<1>whole. /\ <<x>> \o c \in Seq(g.labels) /\ <<x>> \o c # <<>>
          /\ Head(<<x>> \o c) = x /\ Tail(<<x>> \o c) = c
  BY <1>1, Prepended
<1>3. d \in Seq(g.labels) /\ d # <<>> /\ Head(d) = x /\ Tail(d) = c
  BY <1>2, <1>whole
<1>4. \A l : Has(d, l) <=> x = l \/ Has(c, l)
  BY <1>3, HasTail
<1>5. \A A, l : Then(d, A, l) <=> Then(c, A, l) /\ (x \in A => Has(c, l))
  BY <1>3, ThenTail
<1>6. \A A, l : NotAfter(d, A, l) <=> NotAfter(c, A, l) /\ (x \in A => ~Has(c, l))
  BY <1>3, NotAfterTail
<1>7. x \notin Deciding /\ x # "enqueue" /\ x # "leaveLine" /\ x # "enable" /\ x # "disable"
      /\ x # "spinners" /\ x # "turn" /\ x # "readers" /\ x # "seesEnabled" /\ x # "arriveAt"
  BY DEF KeyLabels, Deciding
<1>8. Stays(c, d)
  BY <1>4, <1>7 DEF Stays, InLine, Enables, Holds
<1>9. LinedCode(d, g)
  BY <1>3, <1>4, <1>5, <1>6, <1>7 DEF LinedCode, Pair, Guards, InLine, Holds
<1>10. QED
  BY <1>2, <1>8, <1>9

LEMMA LinedSmall ==
    ASSUME NEW g \in LinedGates, NEW l \in g.labels \ (KeyLabels \cup Guarded),
           ~g.spins => l # "seesEnabled" /\ l # "arriveAt"
    PROVE  Idle(<<l>>, g) /\ Idle(<<>>, g)
<1>1. <<l>> \in Seq(g.labels) /\ <<>> \in Seq(g.labels)
  <2>1. \A S : l \in S => <<l>> \in Seq(S) /\ <<>> \in Seq(S)
    OBVIOUS
  <2>2. QED
    BY <2>1
<1>2. /\ \A x : Has(<<l>>, x) <=> x = l
      /\ \A A, x : Then(<<l>>, A, x) <=> l \notin A
      /\ \A A, x : NotAfter(<<l>>, A, x)
  BY DEF Has, Then, NotAfter
<1>3. /\ \A x : ~Has(<<>>, x)
      /\ \A A, x : Then(<<>>, A, x)
      /\ \A A, x : NotAfter(<<>>, A, x)
  BY NothingLeft
<1>4. l \notin Guarded /\ l # "enqueue" /\ l # "leaveLine" /\ l # "enable" /\ l # "disable"
      /\ l # "spinners" /\ l # "turn" /\ l # "readers"
  BY DEF KeyLabels
<1>5. LinedCode(<<l>>, g)
  BY <1>1, <1>2, <1>4 DEF LinedCode, Pair, Guards
<1>6. LinedCode(<<>>, g)
  BY <1>1, <1>3 DEF LinedCode, Pair, Guards
<1>7. QED
  BY <1>2, <1>3, <1>4, <1>5, <1>6 DEF Idle, InLine, Enables, Holds

LEMMA IdleIsNotSpunOn ==
    ASSUME NEW g \in LinedGates, NEW c, Idle(c, g), g.spins
    PROVE  ~SpunOn(c)
BY DEF Idle, LinedCode, Then, Has, InLine, Enables, Holds, SpunOn

LEMMA DecidingIsIdle ==
    ASSUME NEW g \in LinedGates, NEW c, LinedCode(c, g), c # <<>>, Head(c) \in Deciding
    PROVE  Idle(c, g) /\ ~SpunOn(c)
BY HasTail, NotAfterTail DEF LinedCode, Deciding, Idle, InLine, Enables, Holds, SpunOn

(****************************************************************************)
(* A step of one thread that leaves the line alone.                         *)
(****************************************************************************)
Moves(t, d) ==
    /\ code' = [code EXCEPT ![t] = d]
    /\ at' \in [Threads -> Threads \cup {NULL}]
    /\ \A u \in Threads \ {t} : at'[u] = at[u]
    /\ d # <<>> => at'[t] \in Threads

LEMMA LinedSameGate ==
    ASSUME build' = build
    PROVE  LinedGate' = LinedGate
BY DEF LinedGate, Posts, Helping

LEMMA LinedStep ==
    ASSUME LinedOK, LinedTable, build' = build, NEW t \in Threads, NEW d, Moves(t, d),
           line' = line, LinedCodeOK(d, LinedGate),
           InLine(d) <=> InLine(code[t]),
           \A i \in DOMAIN line : i > 1 /\ line[i] = t => Has(d, "turn") /\ ~Has(d, "readers"),
           line # <<>> /\ line[1] = t /\ ~Has(d, "readers")
               => ~Has(code[t], "readers") \/ readers = {},
           d \in LinedArrived => t \in readers',
           \A u \in Threads \ {t} : u \in readers => u \in readers',
           d \in ReadingCodes => code[t] \in ReadingCodes \/ line = <<>>,
           \A n \in Threads : n \in enabled' <=> IF n = t THEN Enables(d) ELSE n \in enabled,
           arrivedAt' = [u \in Threads |-> arrivedAt'[u]],
           \A u \in Threads \ {t} : arrivedAt'[u] = arrivedAt[u],
           d \in SpinningCodes => arrivedAt'[t] = at'[t],
           d \in SpinningCodes \ {<<"checkEnabled">>} => at'[t] # t /\ SpunOn(code[at'[t]]),
           d = <<"read", "departFrom">> => ~Has(code[at'[t]], "disable"),
           LinedGate.spins /\ SpunOn(code[t]) =>
               \/ SpunOn(d) /\ (Has(d, "disable") => Has(code[t], "disable"))
               \/ \A u \in Threads : arrivedAt[u] # t
    PROVE  LinedOK'
<1> DEFINE g == LinedGate
<1>1. g' = g /\ g \in LinedGates
  BY LinedSameGate DEF LinedTable
<1>2. /\ code'[t] = d /\ \A u \in Threads \ {t} : code'[u] = code[u] /\ at'[u] = at[u]
      /\ \A u \in Threads : code'[u] # <<>> => at'[u] \in Threads
      /\ code' = [u \in Threads |-> code'[u]]
  BY DEF Moves, LinedOK, LinedTypeOK
<1>3. LinedTypeOK'
  BY <1>2 DEF Moves, LinedOK, LinedTypeOK
<1>4. /\ \A u \in Threads : LinedCodeOK(code'[u], g)
      /\ \A u \in Threads : code'[u] \in LinedArrived => u \in readers'
  BY <1>2 DEF LinedOK
<1>5. LineOK'
  <2>1. \A i, j \in DOMAIN line : line[i] = line[j] => i = j
    BY DEF LinedOK, LineOK
  <2>2. \A u \in Threads : InLine(code'[u]) <=> \E i \in DOMAIN line : line[i] = u
    BY <1>2 DEF LinedOK, LineOK
  <2>3. \A i \in DOMAIN line : line[i] \in Threads
    BY DEF LinedOK, LinedTypeOK
  <2>4. \A i \in DOMAIN line : i > 1 => Has(code'[line[i]], "turn") /\ ~Has(code'[line[i]], "readers")
    BY <1>2, <2>3 DEF LinedOK, LineOK
  <2>5. ASSUME line # <<>>, ~Has(code'[line[1]], "readers"), NEW u \in Threads,
               code'[u] \in ReadingCodes
        PROVE  FALSE
    <3>1. 1 \in DOMAIN line /\ line[1] \in Threads
      BY <2>3, <2>5 DEF LinedOK, LinedTypeOK
    <3>2. code[u] \in ReadingCodes
      BY <1>2, <2>5
    <3>3. CASE line[1] = t
      BY <1>2, <2>5, <3>2, <3>3 DEF LinedOK, LinedArrived, ArrivedCodes, LineOK
    <3>4. CASE line[1] # t
      BY <1>2, <2>5, <3>1, <3>2, <3>4 DEF LinedOK, LineOK
    <3>5. QED
      BY <3>3, <3>4
  <2>6. QED
    BY <2>1, <2>2, <2>4, <2>5 DEF LineOK
<1>6. SpinnersOK'
  <2>1. \A n \in Threads : n \in enabled' <=> Enables(code'[n])
    BY <1>2 DEF LinedOK, SpinnersOK
  <2>2. \A u \in Threads : code'[u] \in SpinningCodes => arrivedAt'[u] = at'[u]
    BY <1>2 DEF LinedOK, SpinnersOK
  <2>3. ASSUME NEW u \in Threads, code'[u] \in SpinningCodes \ {<<"checkEnabled">>}
        PROVE  /\ SpunOn(code'[at'[u]])
               /\ code'[u] = <<"read", "departFrom">> => ~Has(code'[at'[u]], "disable")
    <3>1. code'[u] # <<>>
      BY <2>3 DEF SpinningCodes
    <3>2. at'[u] \in Threads
      BY <1>2, <3>1
    <3>3. CASE u = t
      BY <1>2, <2>3, <3>2, <3>3
    <3>4. CASE u # t
      <4>1. code[u] \in SpinningCodes \ {<<"checkEnabled">>} /\ at'[u] = at[u]
        BY <1>2, <2>3, <3>4
      <4>2. /\ SpunOn(code[at[u]]) /\ arrivedAt[u] = at[u]
            /\ code[u] = <<"read", "departFrom">> => ~Has(code[at[u]], "disable")
        BY <4>1 DEF LinedOK, SpinnersOK
      <4>3. CASE at[u] # t
        BY <1>2, <3>2, <3>4, <4>1, <4>2, <4>3
      <4>4. CASE at[u] = t
        <5>1. g.spins
          BY <1>1, <4>1, LinedCodesDoNotRead DEF SpinningCodes, LookingCodes, ReaderCodes,
             ArrivedCodes, ReadingCodes, LinedOK, LinedCodeOK
        <5>2. SpunOn(d) /\ (Has(d, "disable") => Has(code[t], "disable"))
          BY <4>2, <4>4, <5>1
        <5>3. QED
          BY <1>2, <3>4, <4>1, <4>2, <4>4, <5>2
      <4>5. QED
        BY <4>3, <4>4
    <3>5. QED
      BY <3>3, <3>4
  <2>4. \A u \in Threads : code'[u] = <<"read", "departFrom">> =>
            code'[u] \in SpinningCodes \ {<<"checkEnabled">>}
    BY DEF SpinningCodes
  <2>5. QED
    BY <2>1, <2>2, <2>3, <2>4 DEF SpinnersOK
<1>7. QED
  BY <1>1, <1>2, <1>3, <1>4, <1>5, <1>6 DEF LinedOK

(* A step that leaves everything as it was but the rest of the call.        *)
LEMMA LinedQuiet ==
    ASSUME LinedOK, LinedTable, build' = build, NEW t \in Threads, NEW d, Moves(t, d),
           UNCHANGED <<line, enabled>>, LinedCode(d, LinedGate), Stays(code[t], d),
           \A u \in Threads \ {t} : u \in readers => u \in readers',
           arrivedAt' = [u \in Threads |-> arrivedAt'[u]],
           \A u \in Threads \ {t} : arrivedAt'[u] = arrivedAt[u]
    PROVE  LinedOK'
BY LinedCodesDoNotRead, LinedStep DEF LinedTable, LinedCodeOK, SpinningCodes, LinedOK, LineOK,
   Stays, SpinnersOK, SpunOn

(* A step of a thread that is out of line before and after it.              *)
LEMMA LinedOutside ==
    ASSUME LinedOK, LinedTable, build' = build, NEW t \in Threads, NEW d, Moves(t, d),
           UNCHANGED <<line, enabled>>,
           ~InLine(code[t]), ~Enables(code[t]), LinedGate.spins => ~SpunOn(code[t]),
           LinedCodeOK(d, LinedGate), ~InLine(d), ~Enables(d),
           d \in LinedArrived => t \in readers',
           \A u \in Threads \ {t} : u \in readers => u \in readers',
           d \in ReadingCodes => code[t] \in ReadingCodes \/ line = <<>>,
           arrivedAt' = [u \in Threads |-> arrivedAt'[u]],
           \A u \in Threads \ {t} : arrivedAt'[u] = arrivedAt[u],
           d \in SpinningCodes => arrivedAt'[t] = at'[t],
           d \in SpinningCodes \ {<<"checkEnabled">>} => at'[t] # t /\ SpunOn(code[at'[t]]),
           d = <<"read", "departFrom">> => ~Has(code[at'[t]], "disable")
    PROVE  LinedOK'
<1>1. \A i \in DOMAIN line : line[i] # t
  BY DEF LinedOK, LineOK
<1>2. line # <<>> => line[1] # t
  BY <1>1 DEF LinedOK, LinedTypeOK
<1>3. \A n \in Threads : n \in enabled' <=> IF n = t THEN Enables(d) ELSE n \in enabled
  BY DEF LinedOK, SpinnersOK
<1>4. QED
  BY <1>1, <1>2, <1>3, LinedStep

LEMMA ToIdle ==
    ASSUME LinedOK, LinedTable, build' = build, NEW t \in Threads, NEW d, Moves(t, d),
           UNCHANGED <<line, enabled, arrivedAt, readers>>,
           ~InLine(code[t]), ~Enables(code[t]), LinedGate.spins => ~SpunOn(code[t]),
           Idle(d, LinedGate)
    PROVE  LinedOK'
BY LinedCodesDoNotRead, LinedOutside DEF LinedTable, Idle, LinedCodeOK, SpinningCodes, LinedOK,
   LinedTypeOK

(****************************************************************************)
(* The steps. Where the threads are.                                        *)
(****************************************************************************)
LEMMA AtLined ==
    ASSUME LinedOK, LinedTable, NEW t \in Threads, NEW l \in LinedGate.labels, At(t, l)
    PROVE  /\ LinedGate \in LinedGates /\ LinedCode(code[t], LinedGate)
           /\ code[t] # <<>> /\ Head(code[t]) = l
BY LinedHead DEF LinedOK, LinedTable, At

(* A label that both kinds of builds use, or only one.                      *)
LEMMA AtLabel ==
    ASSUME LinedOK, LinedTable, NEW t \in Threads, NEW l \in QueueLabels \cup PostLabels, At(t, l),
           l \notin LookWords
    PROVE  /\ l \in LinedGate.labels /\ LinedGate \in LinedGates
           /\ LinedCode(code[t], LinedGate) /\ code[t] # <<>> /\ Head(code[t]) = l
           /\ l \notin PostLabels => LinedGate.labels = QueueLabels /\ ~Posts
           /\ l \notin QueueLabels => LinedGate.labels = PostLabels /\ Posts
BY LinedHead DEF LinedOK, LinedTable, At, LinedGate

LEMMA AtLookWord ==
    ASSUME LinedOK, LinedTable, NEW t \in Threads, NEW l \in LookWords, At(t, l),
           l \notin LinedGate.labels
    PROVE  /\ LinedGate \in LinedGates /\ code[t] # <<>> /\ Head(code[t]) = l
           /\ \/ LinedGate.labels = QueueLabels /\ code[t] \in LookingCodes
              \/ LinedGate.spins /\ LinedGate.labels = QueueLabels /\ code[t] \in SpinningCodes
              \/ LinedGate.labels = PostLabels /\ LinedGate.read /\ code[t] \in ReaderCodes
BY TailIs DEF LinedOK, LinedTable, At, LinedCode, LinedGates, LinedCodeOK

LEMMA GoMoves ==
    ASSUME LinedOK, NEW t \in Threads, code[t] # <<>>, NEW d, Go(t, d)
    PROVE  Moves(t, d) /\ (d # <<>> => at'[t] = at[t])
BY DEF Go, Moves, LinedOK, LinedTypeOK

LEMMA GoToMoves ==
    ASSUME LinedOK, NEW t \in Threads, NEW n \in Threads, NEW d, GoTo(t, n, d)
    PROVE  Moves(t, d) /\ at'[t] = n
BY DEF GoTo, Moves, LinedOK, LinedTypeOK

LEMMA ArrivedAtIs ==
    ASSUME LinedOK
    PROVE  arrivedAt = [u \in Threads |-> arrivedAt[u]]
BY DEF LinedOK, LinedTypeOK

(* Most steps: the rest of the call, with a label more perhaps.             *)
LEMMA GoQuietly ==
    ASSUME LinedOK, LinedTable, build' = build, NEW t \in Threads, code[t] # <<>>, NEW d, Go(t, d),
           UNCHANGED <<line, enabled, arrivedAt, readers>>,
           LinedCode(d, LinedGate), Stays(code[t], d)
    PROVE  LinedOK'
BY GoMoves, ArrivedAtIs, LinedQuiet

LEMMA LinedTailStep ==
    ASSUME LinedOK, LinedTable, build' = build, NEW t \in Threads,
           NEW l \in (QueueLabels \cup PostLabels) \ (KeyLabels \cup LookWords), GoOn(t, l),
           UNCHANGED <<line, enabled, arrivedAt, readers>>
    PROVE  LinedOK'
BY AtLabel, LinedTail, GoQuietly DEF GoOn, Rest

(* The steps of DelegationLocks that change nothing that counts here.       *)
NodeQuiet == UNCHANGED <<build, line, enabled, arrivedAt, readers>>

LEMMA LinedPlain ==
    ASSUME LinedOK, LinedTable, NEW t \in Threads, NodeQuiet,
           \/ RunOwn(t) \/ OpenFlag(t) \/ OfferMarks(t) \/ Close(t) \/ Await(t) \/ WaitWriters(t)
           \/ FlushReturns(t) \/ Clean(t) \/ Post(t) \/ Activate(t)
    PROVE  LinedOK'
<1>1. \E l \in {"own", "critical", "openFlag", "mark", "close", "await", "barrier", "flush",
                "visit", "post", "activate"} : GoOn(t, l)
  BY DEF RunOwn, OpenFlag, OfferMarks, Close, Await, WaitWriters, FlushReturns, Clean, Post,
         Activate, GoOn
<1>2. {"own", "critical", "openFlag", "mark", "close", "await", "barrier", "flush", "visit", "post",
       "activate"}
        \subseteq (QueueLabels \cup PostLabels) \ (KeyLabels \cup LookWords)
  BY DEF QueueLabels, PostLabels, KeyLabels, LookWords, ReaderWords
<1>3. QED
  BY <1>1, <1>2, LinedTailStep DEF NodeQuiet

LEMMA LinedOpen ==
    ASSUME LinedOK, LinedTable, NEW t \in Threads, NodeQuiet, Open(t)
    PROVE  LinedOK'
BY AtLabel, LinedTail, LinedPrefix, GoQuietly DEF QueueLabels, PostLabels, KeyLabels, LookWords,
   ReaderWords, Deciding, Guarded, Open, Stays, Rest, NodeQuiet

(* Inside the flush, or among the requests.                                 *)
LEMMA LinedInside ==
    ASSUME LinedOK, LinedTable, NEW t \in Threads,
           NEW l \in {"flush", "swap", "visit", "combine", "own", "critical"}, At(t, l)
    PROVE  /\ LinedGate \in LinedGates /\ LinedCode(code[t], LinedGate) /\ code[t] # <<>>
           /\ l \in LinedGate.labels
           /\ InLine(code[t]) /\ ~Has(code[t], "turn") /\ ~Has(code[t], "readers")
           /\ LinedGate.spins => Has(code[t], "disable")
           /\ LinedCode(Rest(t), LinedGate) /\ Stays(code[t], Rest(t))
BY AtLabel, LinedTail, LinedGuarded DEF QueueLabels, PostLabels, KeyLabels, LookWords, ReaderWords,
   Guarded, Rest

LEMMA LinedClosing ==
    ASSUME LinedTable, LinedGate.labels = QueueLabels, NEW c, NEW d, LinedCode(d, LinedGate),
           Stays(c, d)
    PROVE  LinedCode(Closing \o d, LinedGate) /\ Stays(c, Closing \o d)
<1>1. CASE Closing = <<>>
  BY <1>1, ConcatEmptySeq DEF LinedCode
<1>2. CASE Closing = <<"close">>
  BY <1>2, LinedPrefix DEF QueueLabels, KeyLabels, Deciding, Guarded, LinedTable, Stays
<1>3. QED
  BY <1>1, <1>2 DEF Closing

LEMMA LinedFlush ==
    ASSUME LinedOK, LinedTable, NEW t \in Threads, NodeQuiet,
           FlushLoads(t) \/ FlushSwaps(t) \/ FlushSwapFails(t) \/ FlushRuns(t)
    PROVE  LinedOK'
<1>1. PICK l \in {"flush", "swap"} : At(t, l)
  BY DEF FlushLoads, FlushSwaps, FlushSwapFails, FlushRuns
<1>2. /\ LinedGate \in LinedGates /\ LinedCode(code[t], LinedGate) /\ code[t] # <<>>
      /\ l \in LinedGate.labels
      /\ InLine(code[t]) /\ ~Has(code[t], "turn") /\ ~Has(code[t], "readers")
      /\ LinedGate.spins => Has(code[t], "disable")
      /\ LinedCode(Rest(t), LinedGate) /\ Stays(code[t], Rest(t))
  BY <1>1, LinedInside
<1>3. LinedGate.labels = QueueLabels
  BY <1>2 DEF LinedGates, PostLabels
<1>4. Stays(code[t], code[t])
  BY SMTT(30) DEF Stays
<1>5. \E d : Go(t, d) /\ LinedCode(d, LinedGate) /\ Stays(code[t], d)
  <2>1. CASE Go(t, <<"swap">> \o code[t])
    BY <1>2, <1>3, <2>1, LinedPrefix DEF QueueLabels, KeyLabels, Deciding
  <2>2. CASE Go(t, Closing \o Rest(t)) \/ Go(t, Closing \o code[t])
    BY <1>2, <1>3, <1>4, <2>2, LinedClosing
  <2>3. CASE Go(t, Rest(t)) \/ Go(t, code[t])
    BY <1>2, <1>4, <2>3
  <2>4. QED
    BY <2>1, <2>2, <2>3 DEF FlushLoads, FlushSwaps, FlushSwapFails, FlushRuns, FlushFollows
<1>6. QED
  BY <1>2, <1>5, GoQuietly DEF NodeQuiet

(****************************************************************************)
(* The steps at which a thread decides how to go on.                        *)
(****************************************************************************)
LEMMA AtDeciding ==
    ASSUME LinedOK, LinedTable, NEW t \in Threads, NEW l \in Deciding, At(t, l)
    PROVE  /\ l \in LinedGate.labels /\ LinedGate \in LinedGates
           /\ LinedCode(code[t], LinedGate) /\ code[t] # <<>> /\ Head(code[t]) = l
           /\ ~InLine(code[t]) /\ ~Enables(code[t]) /\ ~SpunOn(code[t])
           /\ l \notin PostLabels => LinedGate.labels = QueueLabels /\ ~Posts
           /\ l \notin QueueLabels => LinedGate.labels = PostLabels /\ Posts
           /\ l \in {"seesEnabled", "arriveAt"} => LinedGate.spins
<1>1. l \in QueueLabels \cup PostLabels /\ l \notin LookWords
  BY DEF Deciding, QueueLabels, PostLabels, LookWords, ReaderWords
<1>2. /\ l \in LinedGate.labels /\ LinedGate \in LinedGates
      /\ LinedCode(code[t], LinedGate) /\ code[t] # <<>> /\ Head(code[t]) = l
      /\ l \notin PostLabels => LinedGate.labels = QueueLabels /\ ~Posts
      /\ l \notin QueueLabels => LinedGate.labels = PostLabels /\ Posts
  BY <1>1, AtLabel
<1>3. ~InLine(code[t]) /\ ~Enables(code[t]) /\ ~SpunOn(code[t])
  BY <1>2, DecidingIsIdle DEF Idle
<1>4. l \in {"seesEnabled", "arriveAt"} => LinedGate.spins
  <2>1. Has(code[t], l)
    BY <1>2, LinedTail
  <2>2. QED
    BY <1>2, <2>1 DEF LinedCode
<1>5. QED
  BY <1>2, <1>3, <1>4

LEMMA Decide ==
    ASSUME LinedOK, LinedTable, NEW t \in Threads, NodeQuiet, NEW l \in Deciding, At(t, l),
           NEW d, Idle(d, LinedGate), Moves(t, d)
    PROVE  LinedOK'
BY AtDeciding, ToIdle DEF NodeQuiet

LEMMA DecideSmall ==
    ASSUME LinedOK, LinedTable, NEW t \in Threads, NodeQuiet, NEW l \in Deciding, At(t, l),
           NEW k \in LinedGate.labels \ (KeyLabels \cup Guarded \cup {"seesEnabled", "arriveAt"}),
           Go(t, <<k>>) \/ Go(t, <<>>)
    PROVE  LinedOK'
BY AtDeciding, LinedSmall, GoMoves, Decide

LEMMA LinedPublishes ==
    ASSUME LinedOK, LinedTable, NEW t \in Threads, NodeQuiet, OfferPublishes(t)
    PROVE  LinedOK'
<1>1. At(t, "publish") /\ (Go(t, <<>>) \/ Go(t, <<"await">>))
  BY DEF OfferPublishes
<1>2. "publish" \in Deciding /\ "publish" \notin PostLabels
  BY DEF Deciding, PostLabels
<1>3. "await" \in QueueLabels \ (KeyLabels \cup Guarded \cup {"seesEnabled", "arriveAt"})
  BY DEF QueueLabels, KeyLabels, Guarded
<1>4. QED
  BY <1>1, <1>2, <1>3, AtDeciding, DecideSmall

LEMMA LinedClaims ==
    ASSUME LinedOK, LinedTable, NEW t \in Threads, NodeQuiet, OfferClaims(t)
    PROVE  LinedOK'
<1>1. At(t, "claim") /\ "claim" \in Deciding /\ "claim" \notin PostLabels
  BY DEF OfferClaims, Deciding, PostLabels
<1>2. /\ LinedGate \in LinedGates /\ LinedGate.labels = QueueLabels /\ ~Posts /\ code[t] # <<>>
      /\ ~InLine(code[t]) /\ ~Enables(code[t]) /\ ~SpunOn(code[t])
  BY <1>1, AtDeciding
<1>3. "publish" \in QueueLabels \ (KeyLabels \cup Guarded \cup {"seesEnabled", "arriveAt"})
  BY DEF QueueLabels, KeyLabels, Guarded
<1>4. Idle(<<"publish">>, LinedGate)
  BY <1>2, <1>3, LinedSmall
<1>5. ASSUME NEW x \in {"mark", "close"}, NEW c, Idle(c, LinedGate)
      PROVE  Idle(<<x>> \o c, LinedGate)
  BY <1>2, <1>5, LinedPrefix DEF QueueLabels, KeyLabels, Deciding, Guarded, Idle, Stays
<1>6. PICK rest \in rounds.refused : \E a, b \in BOOLEAN :
          Go(t, IF Fits(t) THEN <<"publish">>
                ELSE (IF a THEN <<"mark">> ELSE <<>>)
                     \o (IF b THEN <<"close">> ELSE <<>>) \o rest)
  <2>1. PICK rest \in rounds.refused :
            Go(t, IF Fits(t) THEN <<"publish">>
                  ELSE (IF ~Fits(t) /\ count[at[t]] < offer.marksBelow THEN <<"mark">> ELSE <<>>)
                       \o (IF offer.offerCloses THEN <<"close">> ELSE <<>>) \o rest)
    BY DEF OfferClaims
  <2>2. PICK a \in BOOLEAN : a <=> (~Fits(t) /\ count[at[t]] < offer.marksBelow)
    OBVIOUS
  <2>3. PICK b \in BOOLEAN : b <=> offer.offerCloses
    OBVIOUS
  <2>4. QED
    BY <2>1, <2>2, <2>3
<1>7. Idle(rest, LinedGate) /\ rest \in Seq(QueueLabels)
  BY <1>2 DEF LinedTable, Idle, LinedCode
<1>8. \/ Go(t, <<"publish">>) \/ Go(t, rest) \/ Go(t, <<"close">> \o rest)
      \/ Go(t, <<"mark">> \o rest) \/ Go(t, <<"mark">> \o (<<"close">> \o rest))
  <2>0. "mark" \in QueueLabels /\ "close" \in QueueLabels
    BY DEF QueueLabels
  <2>1. <<"mark">> \in Seq(QueueLabels) /\ <<"close">> \in Seq(QueueLabels)
        /\ <<>> \in Seq(QueueLabels)
    BY <2>0
  <2>2. /\ (<<>> \o <<>>) \o rest = rest
        /\ (<<>> \o <<"close">>) \o rest = <<"close">> \o rest
        /\ (<<"mark">> \o <<>>) \o rest = <<"mark">> \o rest
        /\ (<<"mark">> \o <<"close">>) \o rest = <<"mark">> \o (<<"close">> \o rest)
    BY <1>7, <2>1, ConcatAssociative, ConcatEmptySeq
  <2>3. QED
    BY <1>6, <2>2
<1>9. \E d : Idle(d, LinedGate) /\ Go(t, d)
  BY <1>4, <1>5, <1>7, <1>8
<1>10. QED
  BY <1>1, <1>2, <1>9, GoMoves, Decide

LEMMA LineIs ==
    ASSUME LinedOK, line # <<>>
    PROVE  /\ Last(line) \in Threads /\ Head(line) = line[1] /\ line[1] \in Threads
           /\ 1 \in DOMAIN line /\ DOMAIN line = 1 .. Len(line) /\ Len(line) \in Nat
BY DEF LinedOK, LinedTypeOK, Last

LEMMA LinedLoadsTail ==
    ASSUME LinedOK, LinedTable, NEW t \in Threads, NodeQuiet, LoadTail(t)
    PROVE  LinedOK'
<1>1. At(t, "tail") /\ "tail" \in Deciding /\ "tail" \notin PostLabels
  BY DEF LoadTail, Deciding, PostLabels
<1>2. LinedGate \in LinedGates /\ LinedGate.labels = QueueLabels /\ ~Posts
  BY <1>1, AtDeciding
<1>3. "claim" \in QueueLabels \ (KeyLabels \cup Guarded \cup {"seesEnabled", "arriveAt"})
  BY DEF QueueLabels, KeyLabels, Guarded
<1>4. Idle(<<"claim">>, LinedGate)
  BY <1>2, <1>3, LinedSmall
<1>5. \E d : Idle(d, LinedGate) /\ Moves(t, d)
  BY <1>2, <1>4, GoToMoves, LineIs DEF LoadTail, LinedTable
<1>6. QED
  BY <1>1, <1>5, Decide

LEMMA LookedInVainIdle ==
    ASSUME LinedOK, LinedTable, ~Posts, NEW t \in Threads, LookedInVain(t)
    PROVE  \E d : Idle(d, LinedGate) /\ Moves(t, d)
BY GoToMoves DEF LookedInVain, LinedTable

LEMMA LinedReadsTail ==
    ASSUME LinedOK, LinedTable, NEW t \in Threads, NodeQuiet, ReadTail(t)
    PROVE  LinedOK'
<1>1. At(t, "readTail") /\ "readTail" \in Deciding /\ "readTail" \notin PostLabels
  BY DEF ReadTail, Deciding, PostLabels
<1>2. /\ LinedGate \in LinedGates /\ LinedGate.labels = QueueLabels /\ ~Posts
      /\ ~InLine(code[t]) /\ ~Enables(code[t]) /\ ~SpunOn(code[t]) /\ code[t] # <<>>
  BY <1>1, AtDeciding
<1>3. build.calls.spins = LinedGate.spins
  BY <1>2 DEF LinedTable
<1>4. CASE line = <<>>
  <2> DEFINE d == <<"arrive", "lookAgain", "read", "depart">>
  <2>1. Moves(t, d)
    BY <1>4, GoToMoves DEF ReadTail
  <2>2. d \in LookingCodes /\ d \notin LinedArrived /\ d \notin ReadingCodes /\ d \notin SpinningCodes
    BY DEF LookingCodes, LinedArrived, ArrivedCodes, ReadingCodes, SpinningCodes
  <2>3. ~InLine(d) /\ ~Enables(d)
    BY <2>2, LinedReadersHold DEF EveryReaderCode
  <2>4. LinedCodeOK(d, LinedGate)
    BY <1>2, <2>2 DEF LinedCodeOK
  <2>5. d # <<"read", "departFrom">>
    BY <2>2 DEF SpinningCodes
  <2> HIDE DEF d
  <2>6. QED
    BY <1>2, <2>1, <2>2, <2>3, <2>4, <2>5, ArrivedAtIs, LinedOutside DEF NodeQuiet
<1>5. CASE line # <<>> /\ LinedGate.spins
  BY <1>1, <1>2, <1>3, <1>5, LinedSmall, LineIs, GoToMoves, Decide DEF QueueLabels, KeyLabels,
     Guarded, ReadTail
<1>6. CASE line # <<>> /\ ~LinedGate.spins
  BY <1>1, <1>2, <1>3, <1>6, LookedInVainIdle, Decide DEF ReadTail
<1>7. QED
  BY <1>4, <1>5, <1>6

LEMMA LinedSeesEnabled ==
    ASSUME LinedOK, LinedTable, NEW t \in Threads, NodeQuiet, SeesEnabled(t)
    PROVE  LinedOK'
BY AtDeciding, LinedSmall, GoMoves, Decide, LookedInVainIdle DEF SeesEnabled, Deciding, PostLabels,
   QueueLabels, KeyLabels, Guarded

LEMMA LinedArrivesAt ==
    ASSUME LinedOK, LinedTable, NEW t \in Threads, ArriveAt(t)
    PROVE  LinedOK'
<1>1. At(t, "arriveAt") /\ "arriveAt" \in Deciding /\ "arriveAt" \notin PostLabels
  BY DEF ArriveAt, Deciding, PostLabels
<1>2. /\ LinedGate \in LinedGates /\ LinedGate.spins /\ code[t] # <<>>
      /\ ~InLine(code[t]) /\ ~Enables(code[t]) /\ ~SpunOn(code[t])
  BY <1>1, AtDeciding
<1>3. /\ UNCHANGED <<build, line, enabled, readers>> /\ Go(t, <<"checkEnabled">>)
      /\ arrivedAt' = [arrivedAt EXCEPT ![t] = at[t]]
  BY DEF ArriveAt, mutexVars, readerVars
<1> DEFINE d == <<"checkEnabled">>
<1>4. d \in SpinningCodes /\ d \notin LinedArrived /\ d \notin ReadingCodes
      /\ d \notin SpinningCodes \ {<<"checkEnabled">>} /\ d # <<"read", "departFrom">> /\ d # <<>>
  BY DEF SpinningCodes, LinedArrived, ArrivedCodes, ReadingCodes
<1>5. ~InLine(d) /\ ~Enables(d)
  BY <1>4, LinedReadersHold DEF EveryReaderCode
<1>6. LinedCodeOK(d, LinedGate)
  BY <1>2, <1>4 DEF LinedCodeOK
<1>7. Moves(t, d) /\ at'[t] = at[t]
  BY <1>2, <1>3, <1>4, GoMoves
<1>8. /\ arrivedAt' = [u \in Threads |-> arrivedAt'[u]] /\ arrivedAt'[t] = at'[t]
      /\ \A u \in Threads \ {t} : arrivedAt'[u] = arrivedAt[u]
  BY <1>3, <1>7, ArrivedAtIs
<1> HIDE DEF d
<1>9. QED
  BY <1>2, <1>3, <1>4, <1>5, <1>6, <1>7, <1>8, LinedOutside

LEMMA LinedIsActive ==
    ASSUME LinedOK, LinedTable, NEW t \in Threads, NodeQuiet, IsActive(t)
    PROVE  LinedOK'
<1>1. At(t, "isActive") /\ "isActive" \in Deciding /\ "isActive" \notin QueueLabels
  BY DEF IsActive, Deciding, QueueLabels
<1>2. LinedGate \in LinedGates /\ LinedGate.labels = PostLabels /\ Posts /\ code[t] # <<>>
  BY <1>1, AtDeciding
<1>3. PICK l \in {"tryBarrier", "tryLine", "isActive"} :
          Go(t, <<l>>) \/ Go(t, <<"activate">> \o <<l>>)
  BY <1>2 DEF IsActive, LinedTable, rounds
<1>4. l \in PostLabels \ (KeyLabels \cup Guarded \cup {"seesEnabled", "arriveAt"})
      /\ "activate" \in PostLabels \ (KeyLabels \cup Deciding) /\ "activate" \notin Guarded
  BY DEF PostLabels, KeyLabels, Guarded, Deciding
<1>5. Idle(<<l>>, LinedGate)
  BY <1>2, <1>4, LinedSmall
<1>6. Idle(<<"activate">> \o <<l>>, LinedGate)
  BY <1>2, <1>4, <1>5, LinedPrefix DEF Idle, Stays
<1>7. QED
  BY <1>1, <1>2, <1>3, <1>5, <1>6, GoMoves, Decide

LEMMA LinedTries ==
    ASSUME LinedOK, LinedTable, NEW t \in Threads, NodeQuiet, TryBarrier(t) \/ Answered(t)
    PROVE  LinedOK'
BY AtDeciding, DecideSmall DEF TryBarrier, Answered, Deciding, QueueLabels, LinedTable, rounds,
   PostLabels, KeyLabels, Guarded

(****************************************************************************)
(* The readers.                                                             *)
(****************************************************************************)
LEMMA LookingTails ==
    ASSUME NEW c \in LookingCodes \cup SpinningCodes
    PROVE  /\ Head(c) = "arrive" => Tail(c) = <<"lookAgain", "read", "depart">>
           /\ Head(c) = "lookAgain" => Tail(c) = <<"read", "depart">>
           /\ Head(c) = "read" /\ c \in LookingCodes => c = <<"read", "depart">>
                                                        /\ Tail(c) = <<"depart">>
           /\ Head(c) = "read" /\ c \in SpinningCodes => c = <<"read", "departFrom">>
                                                         /\ Tail(c) = <<"departFrom">>
           /\ Head(c) = "checkEnabled" => c = <<"checkEnabled">>
           /\ Head(c) = "spin" => c = <<"spin", "read", "departFrom">>
                                  /\ Tail(c) = <<"read", "departFrom">>
           /\ Head(c) \in {"arrive", "lookAgain", "read", "checkEnabled", "spin"}
           /\ Head(c) \in {"arrive", "lookAgain"} => c \in LookingCodes
           /\ Head(c) \in {"checkEnabled", "spin"} => c \in SpinningCodes
<1>1. CASE c = <<"arrive", "lookAgain", "read", "depart">>
  BY <1>1 DEF LookingCodes, SpinningCodes
<1>2. CASE c = <<"lookAgain", "read", "depart">>
  BY <1>2 DEF LookingCodes, SpinningCodes
<1>3. CASE c = <<"read", "depart">>
  BY <1>3 DEF LookingCodes, SpinningCodes
<1>4. CASE c = <<"checkEnabled">>
  BY <1>4 DEF LookingCodes, SpinningCodes
<1>5. CASE c = <<"spin", "read", "departFrom">>
  BY <1>5 DEF LookingCodes, SpinningCodes
<1>6. CASE c = <<"read", "departFrom">>
  BY <1>6 DEF LookingCodes, SpinningCodes
<1>7. QED
  BY <1>1, <1>2, <1>3, <1>4, <1>5, <1>6 DEF LookingCodes, SpinningCodes

(* A reader goes on, out of line as it was.                                 *)
LEMMA ReaderGoesOn ==
    ASSUME LinedOK, LinedTable, NEW t \in Threads, code[t] \in EveryReaderCode, code[t] # <<>>,
           UNCHANGED <<build, line, enabled, arrivedAt>>, NEW d, Go(t, d),
           LinedCodeOK(d, LinedGate), ~InLine(d), ~Enables(d), d \notin SpinningCodes,
           d \in LinedArrived => t \in readers',
           \A u \in Threads \ {t} : u \in readers => u \in readers',
           d \in ReadingCodes => code[t] \in ReadingCodes \/ line = <<>>
    PROVE  LinedOK'
BY LinedReadersHold, GoMoves, ArrivedAtIs, LinedOutside DEF SpinningCodes

LEMMA LinedArrives ==
    ASSUME LinedOK, LinedTable, NEW t \in Threads, Arrive(t), UNCHANGED <<enabled, arrivedAt>>
    PROVE  LinedOK'
<1>1. GoOn(t, "arrive") /\ readers' = readers \cup {t} /\ UNCHANGED <<build, line>>
  BY DEF Arrive, mutexVars
<1>2. "arrive" \in LookWords /\ "arrive" \notin QueueLabels /\ "arrive" \notin PostLabels
  BY DEF LookWords, ReaderWords, QueueLabels, PostLabels
<1>3. LinedGate \in LinedGates /\ code[t] # <<>> /\ Head(code[t]) = "arrive"
      /\ \/ LinedGate.labels = QueueLabels /\ code[t] \in LookingCodes
         \/ LinedGate.spins /\ LinedGate.labels = QueueLabels /\ code[t] \in SpinningCodes
         \/ LinedGate.labels = PostLabels /\ LinedGate.read /\ code[t] \in ReaderCodes
  BY <1>1, <1>2, AtLookWord DEF GoOn, LinedTable, LinedGates
<1>4. code[t] \in EveryReaderCode
  BY <1>3 DEF EveryReaderCode
<1>5. \/ LinedGate.labels = QueueLabels /\ Rest(t) = <<"lookAgain", "read", "depart">>
      \/ LinedGate.labels = PostLabels /\ LinedGate.read
         /\ Rest(t) = <<"check", "lower", "read", "depart">>
  BY <1>3, LookingTails, ReaderTails DEF Rest
<1>6. Rest(t) \in EveryReaderCode /\ LinedCodeOK(Rest(t), LinedGate)
  BY <1>5 DEF EveryReaderCode, LookingCodes, ReaderCodes, ArrivedCodes, LinedCodeOK
<1>7. Rest(t) \notin SpinningCodes /\ Rest(t) \notin ReadingCodes
  BY <1>5 DEF SpinningCodes, ReadingCodes
<1>8. ~InLine(Rest(t)) /\ ~Enables(Rest(t))
  BY <1>6, LinedReadersHold
<1>9. QED
  BY <1>1, <1>3, <1>4, <1>6, <1>7, <1>8, ReaderGoesOn DEF GoOn

LEMMA LinedLooksAgain ==
    ASSUME LinedOK, LinedTable, NEW t \in Threads, NodeQuiet, LookAgain(t)
    PROVE  LinedOK'
<1>1. At(t, "lookAgain")
  BY DEF LookAgain
<1>2. "lookAgain" \in LookWords /\ "lookAgain" \notin QueueLabels /\ "lookAgain" \notin PostLabels
      /\ "lookAgain" \notin ReaderWords
  BY DEF LookWords, ReaderWords, QueueLabels, PostLabels
<1>3. /\ LinedGate \in LinedGates /\ LinedGate.labels = QueueLabels /\ code[t] # <<>>
      /\ code[t] \in LookingCodes /\ Rest(t) = <<"read", "depart">>
  BY <1>1, <1>2, AtLookWord, LookingTails DEF LinedTable, LinedGates, ReaderCodes, ArrivedCodes,
     ReadingCodes, Rest
<1>4. code[t] \in EveryReaderCode /\ ~Posts
  BY <1>3 DEF EveryReaderCode, LinedGate, QueueLabels, PostLabels
<1>5. CASE line = <<>>
  <2>1. Rest(t) \in LookingCodes /\ Rest(t) \notin SpinningCodes /\ Rest(t) \in ReadingCodes
    BY <1>3 DEF LookingCodes, SpinningCodes, ReadingCodes
  <2>2. ~InLine(Rest(t)) /\ ~Enables(Rest(t)) /\ LinedCodeOK(Rest(t), LinedGate)
    BY <1>3, <2>1, LinedReadersHold DEF EveryReaderCode, LinedCodeOK
  <2>3. t \in readers
    BY <1>1, <1>3 DEF LookingCodes, At, LinedOK, LinedArrived
  <2>4. Go(t, Rest(t))
    BY <1>5 DEF LookAgain
  <2>5. QED
    BY <1>3, <1>4, <1>5, <2>1, <2>2, <2>3, <2>4, ReaderGoesOn DEF NodeQuiet
<1>6. CASE line # <<>>
  BY <1>3, <1>4, <1>6, LinedPrefix, LinedReadersHold, GoToMoves, ToIdle DEF LookAgain, LinedTable,
     QueueLabels, KeyLabels, Deciding, Guarded, Idle, Stays, NodeQuiet
<1>7. QED
  BY <1>5, <1>6

LEMMA AtSpinning ==
    ASSUME LinedOK, LinedTable, NEW t \in Threads, NEW l \in {"checkEnabled", "spin"}, At(t, l)
    PROVE  /\ LinedGate \in LinedGates /\ LinedGate.spins /\ LinedGate.labels = QueueLabels /\ ~Posts
           /\ code[t] \in SpinningCodes /\ code[t] # <<>> /\ Head(code[t]) = l
           /\ ~InLine(code[t]) /\ ~Enables(code[t]) /\ ~SpunOn(code[t])
<1>1. l \in LookWords /\ l \notin QueueLabels /\ l \notin PostLabels /\ l \notin ReaderWords
  BY DEF LookWords, ReaderWords, QueueLabels, PostLabels
<1>2. LinedGate \in LinedGates /\ code[t] # <<>> /\ Head(code[t]) = l
      /\ \/ LinedGate.labels = QueueLabels /\ code[t] \in LookingCodes
         \/ LinedGate.spins /\ LinedGate.labels = QueueLabels /\ code[t] \in SpinningCodes
         \/ LinedGate.labels = PostLabels /\ LinedGate.read /\ code[t] \in ReaderCodes
  BY <1>1, AtLookWord DEF LinedTable, LinedGates
<1>3. code[t] \notin ReaderCodes
  BY <1>2 DEF ReaderCodes, ArrivedCodes, ReadingCodes
<1>4. code[t] \notin LookingCodes
  BY <1>2 DEF LookingCodes
<1>5. ~Posts
  BY <1>2, <1>3, <1>4 DEF LinedGate, QueueLabels, PostLabels
<1>6. ~InLine(code[t]) /\ ~Enables(code[t]) /\ ~SpunOn(code[t])
  BY <1>2, <1>3, <1>4, LinedReadersHold DEF EveryReaderCode
<1>7. QED
  BY <1>2, <1>3, <1>4, <1>5, <1>6

(* A thread that is not a reader.                                           *)
LEMMA HoldersHaveLinedCode ==
    ASSUME LinedOK, LinedTable, NEW n \in Threads,
           InLine(code[n]) \/ Enables(code[n]) \/ SpunOn(code[n])
    PROVE  LinedCode(code[n], LinedGate)
BY LinedReadersHold DEF LinedOK, LinedCodeOK, EveryReaderCode

LEMMA LinedChecksEnabled ==
    ASSUME LinedOK, LinedTable, NEW t \in Threads, NodeQuiet, CheckEnabled(t)
    PROVE  LinedOK'
<1>1. At(t, "checkEnabled")
  BY DEF CheckEnabled
<1>2. /\ LinedGate \in LinedGates /\ LinedGate.spins /\ LinedGate.labels = QueueLabels /\ ~Posts
      /\ code[t] \in SpinningCodes /\ code[t] # <<>>
      /\ ~InLine(code[t]) /\ ~Enables(code[t]) /\ ~SpunOn(code[t])
  BY <1>1, AtSpinning
<1>3. CASE at[t] \in enabled
  <2> DEFINE d == <<"spin", "read", "departFrom">>
  <2>1. Go(t, d)
    BY <1>3 DEF CheckEnabled
  <2>2. /\ d \in SpinningCodes /\ d \notin LinedArrived /\ d \notin ReadingCodes
        /\ d # <<"read", "departFrom">> /\ d # <<>>
    BY DEF SpinningCodes, LinedArrived, ArrivedCodes, ReadingCodes
  <2>3. at[t] \in Threads /\ Enables(code[at[t]]) /\ arrivedAt[t] = at[t]
    BY <1>2, <1>3 DEF LinedOK, SpinnersOK
  <2>4. at[t] # t /\ SpunOn(code[at[t]])
    BY <1>2, <2>3, HoldersHaveLinedCode DEF LinedCode, Then, Has, Enables, Holds, SpunOn
  <2>5. ~InLine(d) /\ ~Enables(d) /\ LinedCodeOK(d, LinedGate)
    BY <1>2, <2>2, LinedReadersHold DEF EveryReaderCode, LinedCodeOK
  <2>6. Moves(t, d) /\ at'[t] = at[t]
    BY <1>2, <2>1, <2>2, GoMoves
  <2> HIDE DEF d
  <2>7. QED
    BY <1>2, <2>2, <2>3, <2>4, <2>5, <2>6, ArrivedAtIs, LinedOutside DEF NodeQuiet
<1>4. CASE at[t] \notin enabled
  <2>1. PICK rest \in build.calls.lookFails : Go(t, <<"departFrom">> \o rest)
    BY <1>4 DEF CheckEnabled
  <2>2. Idle(rest, LinedGate)
    BY <1>2 DEF LinedTable
  <2>3. "departFrom" \in QueueLabels \ (KeyLabels \cup Deciding) /\ "departFrom" \notin Guarded
    BY DEF QueueLabels, KeyLabels, Deciding, Guarded
  <2>4. Idle(<<"departFrom">> \o rest, LinedGate)
    BY <1>2, <2>2, <2>3, LinedPrefix DEF Idle, Stays
  <2>5. QED
    BY <1>2, <2>1, <2>4, GoMoves, ToIdle DEF NodeQuiet
<1>5. QED
  BY <1>3, <1>4

LEMMA LinedSpins ==
    ASSUME LinedOK, LinedTable, NEW t \in Threads, NodeQuiet, Spin(t)
    PROVE  LinedOK'
<1>1. At(t, "spin") /\ at[t] \notin enabled /\ Go(t, Rest(t))
  BY DEF Spin, GoOn
<1>2. /\ LinedGate \in LinedGates /\ LinedGate.spins /\ LinedGate.labels = QueueLabels
      /\ code[t] \in SpinningCodes /\ code[t] # <<>> /\ Head(code[t]) = "spin"
      /\ ~InLine(code[t]) /\ ~Enables(code[t]) /\ ~SpunOn(code[t])
  BY <1>1, AtSpinning
<1>3. code[t] = <<"spin", "read", "departFrom">> /\ Rest(t) = <<"read", "departFrom">>
  BY <1>2, LookingTails DEF Rest
<1> DEFINE d == <<"read", "departFrom">>
<1>4. /\ d \in SpinningCodes /\ d \notin LinedArrived /\ d \notin ReadingCodes /\ d # <<>>
      /\ code[t] \in SpinningCodes \ {<<"checkEnabled">>}
  BY <1>3 DEF SpinningCodes, LinedArrived, ArrivedCodes, ReadingCodes
<1>5. at[t] \in Threads /\ SpunOn(code[at[t]]) /\ arrivedAt[t] = at[t]
  BY <1>2, <1>4 DEF LinedOK, SpinnersOK
<1>6. at[t] # t /\ ~Has(code[at[t]], "disable")
  BY <1>1, <1>2, <1>5 DEF LinedOK, SpinnersOK, SpunOn, Enables, Holds
<1>7. ~InLine(d) /\ ~Enables(d) /\ LinedCodeOK(d, LinedGate)
  BY <1>2, <1>4, LinedReadersHold DEF EveryReaderCode, LinedCodeOK
<1>8. Moves(t, d) /\ at'[t] = at[t]
  BY <1>1, <1>2, <1>3, <1>4, GoMoves
<1> HIDE DEF d
<1>9. QED
  BY <1>2, <1>4, <1>5, <1>6, <1>7, <1>8, ArrivedAtIs, LinedOutside DEF NodeQuiet

LEMMA LinedReads ==
    ASSUME LinedOK, LinedTable, NEW t \in Threads, NodeQuiet, Read(t)
    PROVE  LinedOK'
<1>1. At(t, "read") /\ Go(t, Rest(t))
  BY DEF Read, GoOn
<1>2. "read" \in LookWords /\ "read" \notin QueueLabels /\ "read" \notin PostLabels
  BY DEF LookWords, ReaderWords, QueueLabels, PostLabels
<1>3. LinedGate \in LinedGates /\ code[t] # <<>> /\ Head(code[t]) = "read"
      /\ \/ LinedGate.labels = QueueLabels /\ code[t] \in LookingCodes
         \/ LinedGate.spins /\ LinedGate.labels = QueueLabels /\ code[t] \in SpinningCodes
         \/ LinedGate.labels = PostLabels /\ LinedGate.read /\ code[t] \in ReaderCodes
  BY <1>1, <1>2, AtLookWord DEF LinedTable, LinedGates
<1>4. \/ LinedGate.labels = QueueLabels /\ Rest(t) \in {<<"depart">>, <<"departFrom">>}
      \/ LinedGate.labels = PostLabels /\ LinedGate.read /\ Rest(t) = <<"depart">>
  BY <1>3, LookingTails, ReaderTails DEF Rest
<1>5. Rest(t) \notin SpinningCodes /\ Rest(t) \notin ReadingCodes /\ Rest(t) \notin LinedArrived
  BY <1>4 DEF SpinningCodes, ReadingCodes, LinedArrived, ArrivedCodes
<1>6. LinedCodeOK(Rest(t), LinedGate) /\ ~InLine(Rest(t)) /\ ~Enables(Rest(t))
  <2>1. CASE LinedGate.labels = QueueLabels
    BY <1>3, <1>4, <2>1, LinedSmall DEF QueueLabels, KeyLabels, Guarded, Idle, LinedCodeOK
  <2>2. CASE LinedGate.labels = PostLabels /\ LinedGate.read /\ Rest(t) = <<"depart">>
    BY <2>2, LinedReadersHold DEF ReaderCodes, EveryReaderCode, LinedCodeOK
  <2>3. QED
    BY <1>4, <2>1, <2>2
<1>7. code[t] \in EveryReaderCode
  BY <1>3 DEF EveryReaderCode
<1>8. QED
  BY <1>1, <1>3, <1>5, <1>6, <1>7, ReaderGoesOn DEF NodeQuiet

(* Readers of fcrdx.                                                        *)
LEMMA AtReaderWord ==
    ASSUME LinedOK, LinedTable, NEW t \in Threads, NEW l \in {"check", "waitFree", "lower"}, At(t, l)
    PROVE  /\ LinedGate \in LinedGates /\ LinedGate.labels = PostLabels /\ LinedGate.read
           /\ code[t] \in ReaderCodes /\ code[t] # <<>> /\ Head(code[t]) = l
BY AtLookWord, LookingTails DEF LookWords, ReaderWords, QueueLabels, PostLabels, LinedTable,
   LinedGates

LEMMA ReadersOn ==
    ASSUME NEW g \in LinedGates, g.labels = PostLabels, g.read, NEW d \in ReaderCodes \cup {<<>>}
    PROVE  LinedCodeOK(d, g) /\ ~InLine(d) /\ ~Enables(d) /\ d \notin SpinningCodes
<1>1. "post" \in PostLabels \ (KeyLabels \cup Guarded \cup {"seesEnabled", "arriveAt"})
  BY DEF PostLabels, KeyLabels, Guarded
<1>2. LinedCode(<<>>, g)
  BY <1>1, LinedSmall DEF Idle
<1>3. ~InLine(d) /\ ~Enables(d)
  BY LinedReadersHold DEF EveryReaderCode
<1>4. d \notin SpinningCodes
  <2>1. d \notin {<<"checkEnabled">>, <<"spin", "read", "departFrom">>}
    BY SMTT(30) DEF ReaderCodes, ArrivedCodes, ReadingCodes
  <2>2. d # <<"read", "departFrom">>
    <3>1. SUFFICES ASSUME d = <<"read", "departFrom">> PROVE FALSE
      OBVIOUS
    <3>2. Len(d) = 2 /\ d[1] = "read" /\ d[2] = "departFrom"
      BY <3>1
    <3>3. d # <<>> /\ d # <<"depart">> /\ d # <<"read", "depart">>
      BY <3>2
    <3>4. \E l \in {"lower", "check", "arrive", "depart", "waitFree"} : d[1] = l
      BY <3>3 DEF ReaderCodes, ArrivedCodes, ReadingCodes
    <3>5. QED
      BY <3>2, <3>4
  <2>3. QED
    BY <2>1, <2>2 DEF SpinningCodes
<1>5. QED
  BY <1>2, <1>3, <1>4 DEF LinedCodeOK

LEMMA LinedDeparts ==
    ASSUME LinedOK, LinedTable, NEW t \in Threads, Depart(t), UNCHANGED <<enabled, arrivedAt>>
    PROVE  LinedOK'
<1>1. GoOn(t, "depart") /\ readers' = readers \ {t} /\ UNCHANGED <<build, line>>
  BY DEF Depart, mutexVars
<1>2. LinedGate \in LinedGates
  BY DEF LinedTable
<1>3. CASE LinedGate.labels = QueueLabels
  BY <1>1, <1>2, <1>3, AtLined, LinedTail, GoMoves, ArrivedAtIs, LinedQuiet DEF QueueLabels,
     KeyLabels, GoOn, Rest
<1>4. CASE LinedGate.labels = PostLabels
  <2>1. "depart" \in LookWords /\ "depart" \notin PostLabels /\ PostLabels # QueueLabels
    BY DEF LookWords, ReaderWords, PostLabels, QueueLabels
  <2>2. LinedGate.read /\ code[t] \in ReaderCodes /\ code[t] # <<>> /\ Head(code[t]) = "depart"
    BY <1>1, <1>4, <2>1, AtLookWord DEF GoOn
  <2>3. Rest(t) \in {<<>>, <<"waitFree", "arrive", "check", "lower", "read", "depart">>}
    BY <2>2, ReaderTails DEF Rest
  <2>4. Rest(t) \in ReaderCodes \cup {<<>>} /\ Rest(t) \notin LinedArrived /\ Rest(t) \notin ReadingCodes
    BY <2>3 DEF ReaderCodes, LinedArrived, ArrivedCodes, ReadingCodes
  <2>5. /\ LinedCodeOK(Rest(t), LinedGate) /\ ~InLine(Rest(t)) /\ ~Enables(Rest(t))
        /\ Rest(t) \notin SpinningCodes
    BY <1>2, <1>4, <2>2, <2>4, ReadersOn
  <2>6. QED
    BY <1>1, <2>2, <2>4, <2>5, ReaderGoesOn DEF GoOn, EveryReaderCode
<1>5. QED
  BY <1>2, <1>3, <1>4 DEF LinedGates

LEMMA LinedDepartsFrom ==
    ASSUME LinedOK, LinedTable, NEW t \in Threads, DepartFrom(t)
    PROVE  LinedOK'
<1>1. /\ GoOn(t, "departFrom") /\ UNCHANGED <<build, line, readers, enabled>>
      /\ arrivedAt' = [arrivedAt EXCEPT ![t] = NULL]
  BY DEF DepartFrom, mutexVars, readerVars
<1>2. "departFrom" \in QueueLabels /\ "departFrom" \notin KeyLabels /\ "departFrom" \notin LookWords
  BY DEF QueueLabels, KeyLabels, LookWords, ReaderWords
<1>3. /\ LinedGate \in LinedGates /\ LinedCode(code[t], LinedGate) /\ code[t] # <<>>
      /\ Head(code[t]) = "departFrom"
  BY <1>1, <1>2, AtLabel DEF GoOn
<1>4. LinedCode(Rest(t), LinedGate) /\ Stays(code[t], Rest(t))
  BY <1>2, <1>3, LinedTail DEF Rest
<1>5. Moves(t, Rest(t))
  BY <1>1, <1>3, GoMoves DEF GoOn
<1>6. /\ arrivedAt' = [u \in Threads |-> arrivedAt'[u]]
      /\ \A u \in Threads \ {t} : arrivedAt'[u] = arrivedAt[u]
  BY <1>1, ArrivedAtIs
<1>7. QED
  BY <1>1, <1>4, <1>5, <1>6, LinedQuiet

(* A reader goes on only when it has found the line empty.                  *)
LEMMA LinedChecksLocked ==
    ASSUME LinedOK, LinedTable, NEW t \in Threads, NodeQuiet, CheckLocked(t)
    PROVE  LinedOK'
<1>1. At(t, "check")
  BY DEF CheckLocked
<1>2. /\ LinedGate \in LinedGates /\ LinedGate.labels = PostLabels /\ LinedGate.read
      /\ code[t] \in ReaderCodes /\ code[t] # <<>> /\ Head(code[t]) = "check"
  BY <1>1, AtReaderWord
<1>3. /\ code[t] = <<"check", "lower", "read", "depart">>
      /\ Rest(t) = <<"lower", "read", "depart">> /\ Tail(Rest(t)) = <<"read", "depart">>
  BY <1>2, ReaderTails DEF Rest
<1>4. t \in readers
  BY <1>3 DEF LinedOK, LinedArrived, ArrivedCodes
<1>5. ReadersSeeLocked <=> line # <<>>
  BY DEF ReadersSeeLocked, LinedTable
<1>6. CASE line # <<>>
  <2> DEFINE d == <<"depart", "waitFree", "arrive", "check", "lower", "read", "depart">>
  <2>1. Go(t, d)
    BY <1>5, <1>6, ReadersLook DEF CheckLocked
  <2>2. d \in ReaderCodes /\ d \notin ReadingCodes
    BY DEF ReaderCodes, ReadingCodes
  <2>3. LinedCodeOK(d, LinedGate) /\ ~InLine(d) /\ ~Enables(d) /\ d \notin SpinningCodes
    BY <1>2, <2>2, ReadersOn
  <2> HIDE DEF d
  <2>4. QED
    BY <1>2, <1>4, <2>1, <2>2, <2>3, ReaderGoesOn DEF EveryReaderCode, NodeQuiet
<1>7. CASE line = <<>>
  BY <1>2, <1>3, <1>4, <1>5, <1>7, ReadersOn, ReaderGoesOn DEF CheckLocked, ReaderCodes,
     ArrivedCodes, ReadingCodes, EveryReaderCode, NodeQuiet
<1>8. QED
  BY <1>6, <1>7

LEMMA LinedLowers ==
    ASSUME LinedOK, LinedTable, NEW t \in Threads, NodeQuiet, LowerBarrier(t)
    PROVE  LinedOK'
<1>1. At(t, "lower") /\ Go(t, Rest(t))
  BY DEF LowerBarrier, GoOn
<1>2. /\ LinedGate \in LinedGates /\ LinedGate.labels = PostLabels /\ LinedGate.read
      /\ code[t] \in ReaderCodes /\ code[t] # <<>> /\ Head(code[t]) = "lower"
  BY <1>1, AtReaderWord
<1>3. code[t] \in ReadingCodes /\ Rest(t) = <<"read", "depart">>
  BY <1>2, ReaderTails DEF Rest
<1>4. Rest(t) \in ReaderCodes /\ code[t] \in LinedArrived
  BY <1>3 DEF ReaderCodes, LinedArrived, ArrivedCodes, ReadingCodes
<1>5. t \in readers
  BY <1>4 DEF LinedOK
<1>6. /\ LinedCodeOK(Rest(t), LinedGate) /\ ~InLine(Rest(t)) /\ ~Enables(Rest(t))
      /\ Rest(t) \notin SpinningCodes
  BY <1>2, <1>4, ReadersOn
<1>7. QED
  BY <1>1, <1>2, <1>3, <1>5, <1>6, ReaderGoesOn DEF EveryReaderCode, NodeQuiet

LEMMA LinedWaitsFree ==
    ASSUME LinedOK, LinedTable, NEW t \in Threads, NodeQuiet, WaitFree(t)
    PROVE  LinedOK'
<1>1. At(t, "waitFree") /\ (Go(t, Rest(t)) \/ Go(t, code[t]))
  BY DEF WaitFree
<1>2. /\ LinedGate \in LinedGates /\ LinedGate.labels = PostLabels /\ LinedGate.read
      /\ code[t] \in ReaderCodes /\ code[t] # <<>> /\ Head(code[t]) = "waitFree"
  BY <1>1, AtReaderWord
<1>3. PICK d \in {Rest(t), code[t]} : Go(t, d)
  BY <1>1
<1>4. Rest(t) = <<"arrive", "check", "lower", "read", "depart">>
  BY <1>2, ReaderTails DEF Rest
<1>5. Rest(t) \in ReaderCodes /\ Rest(t) \notin LinedArrived
  BY <1>4 DEF ReaderCodes, LinedArrived, ArrivedCodes, ReadingCodes
<1>6. code[t] \notin LinedArrived
  BY <1>2 DEF LinedArrived, ArrivedCodes, ReadingCodes
<1>7. d \in ReaderCodes /\ d \notin LinedArrived /\ d \notin ReadingCodes
  BY <1>2, <1>3, <1>5, <1>6 DEF LinedArrived, ArrivedCodes
<1>8. LinedCodeOK(d, LinedGate) /\ ~InLine(d) /\ ~Enables(d) /\ d \notin SpinningCodes
  BY <1>2, <1>7, ReadersOn
<1>9. QED
  BY <1>2, <1>3, <1>7, <1>8, ReaderGoesOn DEF EveryReaderCode, NodeQuiet

(****************************************************************************)
(* A call, and the steps that wait or change who is spun on.                *)
(****************************************************************************)
LEMMA LinedCalls ==
    ASSUME LinedOK, LinedTable, NEW t \in Threads, Call(t), UNCHANGED <<enabled, arrivedAt>>
    PROVE  LinedOK'
<1>1. /\ code[t] = <<>> /\ UNCHANGED <<build, line, readers>> /\ at' = [at EXCEPT ![t] = t]
      /\ \E d \in {rounds.start} \cup build.calls.others : code' = [code EXCEPT ![t] = d]
  BY DEF Call, LinedTable, mutexVars, readerVars
<1>2. PICK d \in {rounds.start} \cup build.calls.others : code' = [code EXCEPT ![t] = d]
  BY <1>1
<1>3. Moves(t, d) /\ at'[t] = t
  BY <1>1, <1>2 DEF Moves, LinedOK, LinedTypeOK
<1>4. ~InLine(code[t]) /\ ~Enables(code[t]) /\ ~SpunOn(code[t])
  BY <1>1, LinedReadersHold
<1>5. CASE Idle(d, LinedGate)
  BY <1>1, <1>3, <1>4, <1>5, ToIdle
<1>6. CASE LinedGate.labels = PostLabels /\ LinedGate.read /\ d = Reading
  BY <1>1, <1>3, <1>4, <1>6, ReadersOn, ArrivedAtIs, LinedOutside DEF Reading, ReaderCodes,
     LinedArrived, ArrivedCodes, ReadingCodes, LinedTable, SpinningCodes
<1>7. QED
  BY <1>2, <1>5, <1>6 DEF LinedTable

LEMMA LinedKeyStep ==
    ASSUME LinedOK, LinedTable, UNCHANGED <<build, line, readers, arrivedAt>>, NEW t \in Threads,
           NEW l \in {"turn", "readers", "enable", "disable", "spinners"}, GoOn(t, l),
           l = "turn" => Head(line) = t,
           l = "readers" => readers = {},
           l = "spinners" => \A u \in Threads : arrivedAt[u] # t,
           enabled' = IF l = "enable" THEN enabled \cup {t}
                      ELSE IF l = "disable" THEN enabled \ {t} ELSE enabled
    PROVE  LinedOK'
<1>1. l \in QueueLabels \cup PostLabels /\ l \notin LookWords
  BY DEF QueueLabels, PostLabels, LookWords, ReaderWords
<1>2. /\ LinedGate \in LinedGates /\ LinedCode(code[t], LinedGate) /\ code[t] # <<>>
      /\ Head(code[t]) = l
  BY <1>1, AtLabel DEF GoOn
<1> DEFINE d == Rest(t)
<1>3. /\ LinedCode(d, LinedGate)
      /\ InLine(d) <=> InLine(code[t])
      /\ l = "enable" => Enables(d)
      /\ l = "disable" => ~Enables(d)
      /\ l \notin {"enable", "disable"} => (Enables(d) <=> Enables(code[t]))
      /\ \A k : Has(code[t], k) <=> l = k \/ Has(d, k)
  BY <1>2, LinedTail DEF Rest
<1>4. Moves(t, d)
  BY <1>2, GoMoves DEF GoOn
<1> HIDE DEF d
<1>5. LinedCodeOK(d, LinedGate)
  BY <1>3 DEF LinedCodeOK
<1>6. d \notin LinedArrived /\ d \notin ReadingCodes /\ d \notin SpinningCodes
  BY <1>2, <1>3, LinedCodesDoNotRead
<1>7. d # <<"read", "departFrom">>
  BY <1>6 DEF SpinningCodes
<1>8. \A i \in DOMAIN line : i > 1 /\ line[i] = t => Has(d, "turn") /\ ~Has(d, "readers")
  <2>1. SUFFICES ASSUME NEW i \in DOMAIN line, i > 1, line[i] = t
                 PROVE  Has(d, "turn") /\ ~Has(d, "readers")
    OBVIOUS
  <2>2. Has(code[t], "turn") /\ ~Has(code[t], "readers")
    BY <2>1 DEF LinedOK, LineOK
  <2>3. l # "turn"
    BY <2>1, LineIs DEF LinedOK, LineOK
  <2>4. QED
    BY <1>3, <2>2, <2>3
<1>9. line # <<>> /\ line[1] = t /\ ~Has(d, "readers") => ~Has(code[t], "readers") \/ readers = {}
  BY <1>3
<1>10. \A n \in Threads : n \in enabled' <=> IF n = t THEN Enables(d) ELSE n \in enabled
  BY <1>3 DEF LinedOK, SpinnersOK
<1>11. SpunOn(code[t]) => \/ SpunOn(d) /\ (Has(d, "disable") => Has(code[t], "disable"))
                          \/ \A u \in Threads : arrivedAt[u] # t
  BY <1>3 DEF SpunOn
<1>12. arrivedAt' = [u \in Threads |-> arrivedAt'[u]]
  BY ArrivedAtIs
<1>13. QED
  BY <1>3, <1>4, <1>5, <1>6, <1>7, <1>8, <1>9, <1>10, <1>11, <1>12, LinedStep

LEMMA LinedWaits ==
    ASSUME LinedOK, LinedTable, NEW t \in Threads,
           \/ (Turn(t) \/ WaitReaders(t)) /\ NodeQuiet
           \/ Enable(t) \/ Disable(t) \/ WaitSpinners(t)
    PROVE  LinedOK'
BY LinedKeyStep DEF Turn, NodeQuiet, WaitReaders, Enable, mutexVars, readerVars, Disable,
   WaitSpinners, nodeVars

LEMMA LinedCombines ==
    ASSUME LinedOK, LinedTable, NEW t \in Threads, NodeQuiet, Combine(t)
    PROVE  LinedOK'
BY LinedInside, LinedPrefix, GoQuietly DEF Combine, LinedGates, QueueLabels, PostLabels, KeyLabels,
   Deciding, Stays, NodeQuiet

LEMMA LinedStutters ==
    ASSUME LinedOK, UNCHANGED <<build, code, at, line, readers, enabled, arrivedAt>>
    PROVE  LinedOK'
<1>1. LinedGate' = LinedGate
  BY LinedSameGate
<1>2. QED
  BY <1>1 DEF LinedOK, LinedTypeOK, LineOK, SpinnersOK

(****************************************************************************)
(* The steps that change the line.                                          *)
(****************************************************************************)
LEMMA LineChanges ==
    ASSUME LinedOK, LinedTable, UNCHANGED <<build, readers, enabled, arrivedAt>>,
           NEW t \in Threads, NEW d, Moves(t, d), line' \in Seq(Threads), LinedCode(d, LinedGate),
           \A l \in {"enable", "disable", "spinners"} : Has(d, l) <=> Has(code[t], l),
           LineOK'
    PROVE  LinedOK'
<1> DEFINE g == LinedGate
<1>1. g' = g /\ g \in LinedGates
  BY LinedSameGate DEF LinedTable
<1>2. d \notin LinedArrived /\ d \notin ReadingCodes /\ d \notin SpinningCodes
  BY <1>1, LinedCodesDoNotRead
<1>3. /\ code'[t] = d /\ \A u \in Threads \ {t} : code'[u] = code[u] /\ at'[u] = at[u]
      /\ \A u \in Threads : code'[u] # <<>> => at'[u] \in Threads
      /\ code' = [u \in Threads |-> code'[u]]
  BY DEF Moves, LinedOK, LinedTypeOK
<1>4. LinedTypeOK'
  BY <1>3 DEF Moves, LinedOK, LinedTypeOK
<1>5. /\ \A u \in Threads : LinedCodeOK(code'[u], g)
      /\ \A u \in Threads : code'[u] \in LinedArrived => u \in readers'
  BY <1>2, <1>3 DEF LinedOK, LinedCodeOK
<1>6. (Enables(d) <=> Enables(code[t])) /\ (SpunOn(d) <=> SpunOn(code[t]))
  BY DEF Enables, SpunOn, Holds
<1>7. SpinnersOK'
  <2>1. \A n \in Threads : n \in enabled' <=> Enables(code'[n])
    BY <1>3, <1>6 DEF LinedOK, SpinnersOK
  <2>2. \A u \in Threads : code'[u] \in SpinningCodes => arrivedAt'[u] = at'[u]
    BY <1>2, <1>3 DEF LinedOK, SpinnersOK
  <2>3. ASSUME NEW u \in Threads, code'[u] \in SpinningCodes \ {<<"checkEnabled">>}
        PROVE  /\ SpunOn(code'[at'[u]])
               /\ code'[u] = <<"read", "departFrom">> => ~Has(code'[at'[u]], "disable")
    <3>1. <<>> \notin SpinningCodes /\ code'[u] # <<>>
      <4>1. <<>> \notin SpinningCodes
        BY DEF SpinningCodes
      <4>2. QED
        BY <2>3, <4>1
    <3>2. u # t /\ code'[u] = code[u] /\ at'[u] = at[u] /\ at[u] \in Threads
      BY <1>2, <1>3, <2>3, <3>1
    <3>3. /\ SpunOn(code[at[u]])
          /\ code[u] = <<"read", "departFrom">> => ~Has(code[at[u]], "disable")
      BY <2>3, <3>2 DEF LinedOK, SpinnersOK
    <3>4. CASE at[u] # t
      BY <1>3, <3>2, <3>3, <3>4
    <3>5. CASE at[u] = t
      BY <1>3, <1>6, <3>2, <3>3, <3>5
    <3>6. QED
      BY <3>4, <3>5
  <2>4. \A u \in Threads : code'[u] = <<"read", "departFrom">> =>
            code'[u] \in SpinningCodes \ {<<"checkEnabled">>}
    BY DEF SpinningCodes
  <2>5. QED
    BY <2>1, <2>2, <2>3, <2>4 DEF SpinnersOK
<1>8. QED
  BY <1>1, <1>3, <1>4, <1>5, <1>7 DEF LinedOK

(* A thread that finds nobody before it waits for the readers, not for its  *)
(* turn.                                                                    *)
LEMMA AloneCode ==
    ASSUME NEW g \in LinedGates, NEW c, LinedCode(c, g),
           ~Has(c, "enqueue"), ~Has(c, "readers"), Has(c, "turn"),
           NEW d, d = [i \in DOMAIN c |-> IF c[i] = "turn" THEN "readers" ELSE c[i]]
    PROVE  /\ LinedCode(d, g) /\ Has(d, "readers") /\ ~Has(d, "turn")
           /\ \A l \in KeyLabels \ {"turn", "readers"} : Has(d, l) <=> Has(c, l)
<1>1. c \in Seq(g.labels) /\ "readers" \in g.labels
  BY DEF LinedCode, LinedGates, QueueLabels, PostLabels
<1>2. d \in Seq(g.labels) /\ DOMAIN d = DOMAIN c
  BY <1>1
<1>3. \A i \in DOMAIN c : /\ c[i] = "turn" => d[i] = "readers"
                          /\ c[i] # "turn" => d[i] = c[i]
  OBVIOUS
<1>4. \A i \in DOMAIN c : c[i] # "readers" /\ c[i] # "enqueue"
  BY DEF Has
<1>5. ASSUME NEW l, l # "turn", l # "readers"
      PROVE  \A i \in DOMAIN c : d[i] = l <=> c[i] = l
  BY <1>3, <1>5
<1>6. \A i \in DOMAIN c : d[i] = "readers" <=> c[i] = "turn"
  BY <1>3, <1>4
<1>7. ASSUME NEW l, l # "turn", l # "readers"
      PROVE  Has(d, l) <=> Has(c, l)
  BY <1>2, <1>5, <1>7 DEF Has
<1>8. Has(d, "readers") /\ ~Has(d, "turn")
  BY <1>2, <1>3, <1>6 DEF Has
<1>9. ASSUME NEW A, NEW l, "readers" \notin A, l # "turn", l # "readers", Then(c, A, l)
      PROVE  Then(d, A, l)
  BY <1>2, <1>3, <1>5, <1>9 DEF Then
<1>10. ASSUME NEW A, NEW l, "readers" \notin A, l # "turn", l # "readers", NotAfter(c, A, l)
       PROVE  NotAfter(d, A, l)
  BY <1>2, <1>3, <1>5, <1>10 DEF NotAfter
<1>11. ASSUME NEW A, "readers" \notin A, "turn" \notin A, NotAfter(c, A \ {"enqueue"}, "turn")
       PROVE  NotAfter(d, A, "readers")
  BY <1>2, <1>3, <1>4, <1>6, <1>11 DEF NotAfter
<1>12. \A A : NotAfter(d, A, "turn")
  BY <1>8 DEF NotAfter, Has
<1>13. "readers" \notin Guarded /\ "turn" \notin Guarded /\ "enqueue" \notin Guarded
       /\ "readers" \notin Deciding
  BY DEF Guarded, Deciding
<1>14. LinedCode(d, g)
  <2>1. /\ NotAfter(d, Deciding, "leaveLine") /\ NotAfter(d, Deciding, "disable")
        /\ NotAfter(d, Deciding, "spinners")
    BY <1>10, <1>13 DEF LinedCode
  <2>2. Pair(d, "enqueue", "leaveLine") /\ Pair(d, "enable", "disable")
    BY <1>9, <1>10 DEF LinedCode, Pair
  <2>3. Guards(d, Guarded, "enqueue", "leaveLine")
    BY <1>9, <1>10, <1>13 DEF LinedCode, Guards
  <2>4. NotAfter(d, Guarded \cup {"leaveLine"}, "turn") /\ Then(d, {"enqueue"}, "turn")
    BY <1>7, <1>12 DEF Then, Has
  <2>5. NotAfter(d, Guarded \cup {"leaveLine", "enqueue"}, "readers")
    BY <1>11, <1>13 DEF LinedCode
  <2>6. ~g.spins => ~Has(d, "seesEnabled") /\ ~Has(d, "arriveAt")
    BY <1>7 DEF LinedCode
  <2>7. g.spins => /\ Then(d, Guarded \cup {"enqueue", "turn"}, "disable")
                   /\ Then(d, {"disable"}, "spinners")
                   /\ Then(d, {"spinners"}, "leaveLine")
                   /\ NotAfter(d, {"spinners"}, "enable")
    BY <1>9, <1>10, <1>13 DEF LinedCode
  <2>8. QED
    BY <1>2, <2>1, <2>2, <2>3, <2>4, <2>5, <2>6, <2>7 DEF LinedCode
<1>15. QED
  BY <1>7, <1>8, <1>14 DEF KeyLabels

LEMMA LinedEnqueues ==
    ASSUME LinedOK, LinedTable, NEW t \in Threads, Enqueue(t)
    PROVE  LinedOK'
<1> DEFINE alone == [i \in DOMAIN Rest(t) |-> IF Rest(t)[i] = "turn" THEN "readers" ELSE Rest(t)[i]]
<1>1. /\ At(t, "enqueue") /\ GoTo(t, t, IF line = <<>> THEN alone ELSE Rest(t))
      /\ line' = Append(line, t) /\ UNCHANGED <<build, readers, enabled, arrivedAt>>
  BY DEF Enqueue, readerVars, nodeVars
<1>2. "enqueue" \in QueueLabels \cup PostLabels /\ "enqueue" \notin LookWords
  BY DEF QueueLabels, PostLabels, LookWords, ReaderWords
<1>3. /\ LinedGate \in LinedGates /\ LinedCode(code[t], LinedGate) /\ code[t] # <<>>
      /\ Head(code[t]) = "enqueue"
  BY <1>1, <1>2, AtLabel
<1>4. /\ LinedCode(Rest(t), LinedGate) /\ ~InLine(code[t]) /\ InLine(Rest(t))
      /\ Has(Rest(t), "turn") /\ ~Has(Rest(t), "readers")
      /\ \A l : Has(code[t], l) <=> "enqueue" = l \/ Has(Rest(t), l)
  BY <1>3, LinedTail DEF Rest
<1>5. PICK d : /\ GoTo(t, t, d) /\ d = IF line = <<>> THEN alone ELSE Rest(t)
  BY <1>1
<1>6. /\ LinedCode(d, LinedGate)
      /\ \A l \in KeyLabels \ {"turn", "readers"} : Has(d, l) <=> Has(Rest(t), l)
      /\ line = <<>> => Has(d, "readers")
      /\ line # <<>> => Has(d, "turn") /\ ~Has(d, "readers")
  <2>1. CASE line = <<>>
    BY <1>3, <1>4, <1>5, <2>1, AloneCode DEF InLine, Holds
  <2>2. CASE line # <<>>
    BY <1>4, <1>5, <2>2
  <2>3. QED
    BY <2>1, <2>2
<1> HIDE DEF alone
<1>7. InLine(d)
  BY <1>4, <1>6 DEF InLine, Holds, KeyLabels
<1>8. \A l \in {"enable", "disable", "spinners"} : Has(d, l) <=> Has(code[t], l)
  BY <1>4, <1>6 DEF KeyLabels
<1>9. Moves(t, d)
  BY <1>5, GoToMoves
<1>10. /\ code'[t] = d /\ \A u \in Threads \ {t} : code'[u] = code[u]
  BY <1>9 DEF Moves, LinedOK, LinedTypeOK
<1>11. d \notin ReadingCodes
  BY <1>3, <1>6, LinedCodesDoNotRead
<1>12. line \in Seq(Threads) /\ \A i \in DOMAIN line : line[i] \in Threads \ {t}
  BY <1>4 DEF LinedOK, LinedTypeOK, LineOK
<1>13. /\ line' \in Seq(Threads) /\ Len(line) \in Nat /\ DOMAIN line = 1 .. Len(line)
       /\ DOMAIN line' = 1 .. Len(line) + 1
       /\ \A i \in 1 .. Len(line) : line'[i] = line[i]
       /\ line'[Len(line) + 1] = t /\ line' # <<>>
  BY <1>1, <1>12
<1>14. LineOK'
  <2>1. \A i, j \in DOMAIN line' : line'[i] = line'[j] => i = j
    BY <1>12, <1>13 DEF LinedOK, LineOK
  <2>2. ASSUME NEW u \in Threads
        PROVE  InLine(code'[u]) <=> \E i \in DOMAIN line' : line'[i] = u
    <3>1. CASE u = t
      BY <1>7, <1>10, <1>13, <3>1
    <3>2. CASE u # t
      BY <1>10, <1>13, <3>2 DEF LinedOK, LineOK
    <3>3. QED
      BY <3>1, <3>2
  <2>3. ASSUME NEW i \in DOMAIN line', i > 1
        PROVE  Has(code'[line'[i]], "turn") /\ ~Has(code'[line'[i]], "readers")
    <3>1. CASE i \in 1 .. Len(line)
      BY <1>10, <1>12, <1>13, <2>3, <3>1 DEF LinedOK, LineOK
    <3>2. CASE i = Len(line) + 1
      BY <1>6, <1>10, <1>13, <2>3, <3>2
    <3>3. QED
      BY <1>13, <3>1, <3>2
  <2>4. ASSUME ~Has(code'[line'[1]], "readers"), NEW u \in Threads, code'[u] \in ReadingCodes
        PROVE  FALSE
    <3>1. CASE line = <<>>
      BY <1>1, <1>6, <1>10, <2>4, <3>1
    <3>2. CASE line # <<>>
      BY <1>10, <1>11, <1>12, <1>13, <2>4, <3>2, LineIs DEF LinedOK, LineOK
    <3>3. QED
      BY <3>1, <3>2
  <2>5. QED
    BY <2>1, <2>2, <2>3, <2>4 DEF LineOK
<1>15. QED
  BY <1>1, <1>6, <1>8, <1>9, <1>13, <1>14, LineChanges

LEMMA LinedLeaves ==
    ASSUME LinedOK, LinedTable, NEW t \in Threads, LeaveLine(t)
    PROVE  LinedOK'
<1>1. /\ GoOn(t, "leaveLine") /\ line' = Tail(line)
      /\ UNCHANGED <<build, readers, enabled, arrivedAt>>
  BY DEF LeaveLine, readerVars, nodeVars
<1>2. "leaveLine" \in QueueLabels \cup PostLabels /\ "leaveLine" \notin LookWords
  BY DEF QueueLabels, PostLabels, LookWords, ReaderWords
<1>3. /\ LinedGate \in LinedGates /\ LinedCode(code[t], LinedGate) /\ code[t] # <<>>
      /\ Head(code[t]) = "leaveLine"
  BY <1>1, <1>2, AtLabel DEF GoOn
<1> DEFINE d == Rest(t)
<1>4. /\ LinedCode(d, LinedGate) /\ InLine(code[t]) /\ ~InLine(d)
      /\ ~Has(code[t], "turn") /\ ~Has(code[t], "readers")
      /\ \A l : Has(code[t], l) <=> "leaveLine" = l \/ Has(d, l)
  BY <1>3, LinedTail DEF Rest
<1>5. Moves(t, d)
  BY <1>1, <1>3, GoMoves DEF GoOn
<1> HIDE DEF d
<1>6. \A l \in {"enable", "disable", "spinners"} : Has(d, l) <=> Has(code[t], l)
  BY <1>4
<1>7. /\ code'[t] = d /\ \A u \in Threads \ {t} : code'[u] = code[u]
  BY <1>5 DEF Moves, LinedOK, LinedTypeOK
<1>8. d \notin ReadingCodes
  BY <1>3, <1>4, LinedCodesDoNotRead
<1>9. line \in Seq(Threads) /\ line # <<>> /\ line[1] = t
  <2>1. PICK i \in DOMAIN line : line[i] = t
    BY <1>4 DEF LinedOK, LineOK
  <2>2. line \in Seq(Threads)
    BY DEF LinedOK, LinedTypeOK
  <2>3. ~(i > 1)
    BY <1>4, <2>1 DEF LinedOK, LineOK
  <2>4. i = 1 /\ line # <<>>
    BY <2>1, <2>2, <2>3
  <2>5. QED
    BY <2>1, <2>2, <2>4
<1>10. /\ line' \in Seq(Threads) /\ Len(line) \in Nat /\ DOMAIN line = 1 .. Len(line)
       /\ DOMAIN line' = 1 .. Len(line) - 1
       /\ \A i \in 1 .. Len(line) - 1 : line'[i] = line[i + 1] /\ i + 1 \in DOMAIN line
  BY <1>1, <1>9, TailIs
<1>11. \A i, j \in DOMAIN line : line[i] = line[j] => i = j
  BY DEF LinedOK, LineOK
<1>12. \A i \in 1 .. Len(line) - 1 : line'[i] \in Threads \ {t}
  <2>1. SUFFICES ASSUME NEW i \in 1 .. Len(line) - 1
                 PROVE  line'[i] \in Threads \ {t}
    OBVIOUS
  <2>2. line'[i] \in Threads
    BY <1>10
  <2>3. line'[i] # line[1]
    BY <1>10, <1>11
  <2>4. QED
    BY <1>9, <2>2, <2>3
<1>13. \A u \in Threads : code'[u] \notin ReadingCodes
  BY <1>4, <1>7, <1>8, <1>9 DEF LinedOK, LineOK
<1>14. LineOK'
  <2>1. \A i, j \in DOMAIN line' : line'[i] = line'[j] => i = j
    <3>1. SUFFICES ASSUME NEW i \in DOMAIN line', NEW j \in DOMAIN line', line'[i] = line'[j]
                   PROVE  i = j
      OBVIOUS
    <3>2. line[i + 1] = line[j + 1] /\ i + 1 \in DOMAIN line /\ j + 1 \in DOMAIN line
      BY <1>10, <3>1
    <3>3. i + 1 = j + 1
      BY <1>11, <3>2
    <3>4. QED
      BY <1>10, <3>3
  <2>2. ASSUME NEW u \in Threads
        PROVE  InLine(code'[u]) <=> \E i \in DOMAIN line' : line'[i] = u
    <3>1. CASE u = t
      BY <1>4, <1>7, <1>10, <1>12, <3>1
    <3>2. CASE u # t
      <4>1. InLine(code'[u]) <=> \E i \in DOMAIN line : line[i] = u
        BY <1>7, <3>2 DEF LinedOK, LineOK
      <4>2. ASSUME NEW i \in DOMAIN line, line[i] = u
            PROVE  \E j \in DOMAIN line' : line'[j] = u
        <5>1. i # 1 /\ i \in 1 .. Len(line)
          BY <1>9, <1>10, <3>2, <4>2
        <5>2. i - 1 \in 1 .. Len(line) - 1 /\ (i - 1) + 1 = i
          BY <1>10, <5>1
        <5>3. line'[i - 1] = line[i]
          BY <1>10, <5>2
        <5>4. QED
          BY <1>10, <4>2, <5>2, <5>3
      <4>3. QED
        BY <1>10, <4>1, <4>2
    <3>3. QED
      BY <3>1, <3>2
  <2>3. ASSUME NEW i \in DOMAIN line', i > 1
        PROVE  Has(code'[line'[i]], "turn") /\ ~Has(code'[line'[i]], "readers")
    BY <1>7, <1>10, <1>12, <2>3 DEF LinedOK, LineOK
  <2>4. QED
    BY <1>13, <2>1, <2>2, <2>3 DEF LineOK
<1>15. QED
  BY <1>1, <1>4, <1>5, <1>6, <1>10, <1>14, LineChanges

LEMMA LinedTriesLine ==
    ASSUME LinedOK, LinedTable, NEW t \in Threads, TryLine(t)
    PROVE  LinedOK'
<1>1. /\ At(t, "tryLine") /\ UNCHANGED <<build, readers, enabled, arrivedAt>>
      /\ IF line = <<>> THEN Go(t, build.calls.help) /\ line' = <<t>>
                        ELSE Go(t, <<"answered">>) /\ UNCHANGED line
  BY DEF TryLine, readerVars, nodeVars
<1>2. "tryLine" \in Deciding /\ "tryLine" \notin QueueLabels
  BY DEF Deciding, QueueLabels
<1>3. /\ LinedGate \in LinedGates /\ LinedGate.labels = PostLabels /\ Posts /\ code[t] # <<>>
      /\ LinedCode(code[t], LinedGate) /\ ~InLine(code[t])
  BY <1>1, <1>2, AtDeciding
<1>4. CASE line # <<>>
  BY <1>1, <1>2, <1>3, <1>4, DecideSmall DEF PostLabels, KeyLabels, Guarded, NodeQuiet
<1>5. CASE line = <<>>
  <2> DEFINE d == build.calls.help
  <2>1. /\ LinedCode(d, LinedGate) /\ InLine(d)
        /\ LinedGate.read => Has(d, "readers")
    BY <1>3 DEF LinedTable
  <2>2. ASSUME NEW c, LinedCode(c, LinedGate), NEW l \in {"enable", "disable", "spinners"}
        PROVE  ~Has(c, l)
    BY <1>3, <2>2 DEF LinedCode, PostLabels, Has
  <2>3. Moves(t, d)
    BY <1>1, <1>3, <1>5, GoMoves
  <2> HIDE DEF d
  <2>4. /\ code'[t] = d /\ \A u \in Threads \ {t} : code'[u] = code[u]
    BY <2>3 DEF Moves, LinedOK, LinedTypeOK
  <2>5. line' = <<t>> /\ line' \in Seq(Threads) /\ DOMAIN line' = {1} /\ line'[1] = t
    <3>1. line' = <<t>>
      BY <1>1, <1>5
    <3>2. QED
      BY <3>1
  <2>6. \A u \in Threads : ~InLine(code[u])
    BY <1>5 DEF LinedOK, LineOK
  <2>7. ~LinedGate.read => \A u \in Threads : code'[u] \notin ReadingCodes
    <3>1. SUFFICES ASSUME ~LinedGate.read, NEW u \in Threads
                   PROVE  code'[u] \notin ReadingCodes
      OBVIOUS
    <3>2. LinedGate.labels # QueueLabels /\ ~LinedGate.spins
      <4>1. "post" \in PostLabels /\ "post" \notin QueueLabels
        BY DEF PostLabels, QueueLabels
      <4>2. QED
        BY <1>3, <4>1 DEF LinedGates
    <3>3. LinedCode(code'[u], LinedGate)
      BY <2>1, <2>4, <3>1, <3>2 DEF LinedOK, LinedCodeOK
    <3>4. QED
      BY <1>3, <3>3, LinedCodesDoNotRead
  <2>8. LineOK'
    BY <2>1, <2>4, <2>5, <2>6, <2>7 DEF LineOK
  <2>9. \A l \in {"enable", "disable", "spinners"} : Has(d, l) <=> Has(code[t], l)
    BY <1>3, <2>1, <2>2
  <2>10. QED
    BY <1>1, <2>1, <2>3, <2>5, <2>8, <2>9, LineChanges
<1>6. QED
  BY <1>4, <1>5

(****************************************************************************)
(* All steps.                                                               *)
(****************************************************************************)
(* None of the labels of the builds over mutexes is ever met.               *)
MutexOnly ==
    {"firstLook", "look", "while", "firstTry", "try", "force", "lock", "leave", "setFlag",
     "clearFlag", "global", "leaveGlobal", "offer"}

LEMMA NoMutexSteps ==
    ASSUME LinedOK, LinedTable, NEW t \in Threads
    PROVE  /\ \A l \in MutexOnly : ~At(t, l)
           /\ ~Look(t) /\ ~TryWins(t) /\ ~TryFails(t) /\ ~LockTakes(t) /\ ~Leave(t) /\ ~SetFlag(t)
           /\ ~ClearFlag(t) /\ ~TakeGlobal(t) /\ ~LeaveGlobal(t) /\ ~OfferLooks(t)
<1>1. MutexOnly \cap (QueueLabels \cup PostLabels \cup LookWords) = {}
  BY DEF MutexOnly, QueueLabels, PostLabels, LookWords, ReaderWords
<1>2. code[t] # <<>> => Head(code[t]) \in QueueLabels \cup PostLabels \cup LookWords
  BY LinedHead DEF LinedOK, LinedTable, LinedGates
<1>3. \A l \in MutexOnly : ~At(t, l)
  BY <1>1, <1>2 DEF At
<1>4. QED
  BY <1>3 DEF MutexOnly, Look, TryWins, TryFails, LockTakes, Leave, SetFlag, ClearFlag, TakeGlobal,
              LeaveGlobal, OfferLooks, GoOn

LEMMA LinedNext ==
    ASSUME LinedOK, LinedTable, Next, UNCHANGED nodeVars
    PROVE  LinedOK'
<1>1. PICK t \in Threads : Call(t) \/ Step(t)
  BY DEF Next
<1>2. UNCHANGED <<enabled, arrivedAt>>
  BY DEF nodeVars
<1>3. CASE Call(t)
  BY <1>2, <1>3, LinedCalls
<1>4. CASE Arrive(t) \/ Depart(t)
  BY <1>2, <1>4, LinedArrives, LinedDeparts
<1>5. CASE WaitReaders(t)
  BY <1>2, <1>5, LinedWaits DEF WaitReaders, NodeQuiet, mutexVars, readerVars
<1>6. CASE \/ RunOwn(t) \/ OpenFlag(t) \/ OfferMarks(t) \/ Close(t) \/ Await(t) \/ WaitWriters(t)
           \/ FlushReturns(t)
  BY <1>2, <1>6, LinedPlain DEF RunOwn, OpenFlag, OfferMarks, Fill, Close, Await, WaitWriters,
     FlushReturns, NodeQuiet, mutexVars, readerVars
<1>7. CASE Open(t) \/ OfferClaims(t) \/ OfferPublishes(t)
  BY <1>2, <1>7, LinedOpen, LinedClaims, LinedPublishes DEF Open, OfferClaims, OfferPublishes, Fill,
     NodeQuiet, mutexVars, readerVars
<1>8. CASE FlushLoads(t) \/ FlushSwaps(t) \/ FlushSwapFails(t) \/ FlushRuns(t)
  <2>1. NodeQuiet
    BY <1>2, <1>8 DEF FlushLoads, FlushSwaps, FlushSwapFails, FlushRuns, NodeQuiet, mutexVars,
                      readerVars
  <2>2. QED
    BY <1>8, <2>1, LinedFlush
<1>9. CASE FlushIsStuck(t) \/ BarrierIsStuck(t)
  BY <1>2, <1>9, LinedStutters
     DEF FlushIsStuck, BarrierIsStuck, vars, callVars, mutexVars, readerVars
<1>10. CASE CheckLocked(t) \/ Read(t)
  BY <1>2, <1>10, LinedChecksLocked, LinedReads DEF CheckLocked, Read, NodeQuiet, mutexVars,
     readerVars
<1>11. CASE WaitFree(t) \/ LowerBarrier(t)
  BY <1>2, <1>11, LinedWaitsFree, LinedLowers DEF WaitFree, LowerBarrier, NodeQuiet, mutexVars
<1>12. QED
  BY <1>1, <1>3, <1>4, <1>5, <1>6, <1>7, <1>8, <1>9, <1>10, <1>11, NoMutexSteps
     DEF Step, StepBesides, Indicator

LEMMA LinedNodeStep ==
    ASSUME LinedOK, LinedTable, NEW t \in Threads, NodeStep(t)
    PROVE  LinedOK'
<1>1. CASE LoadTail(t) \/ ReadTail(t) \/ LookAgain(t) \/ SeesEnabled(t) \/ CheckEnabled(t) \/ Spin(t)
  <2>1. NodeQuiet
    BY <1>1 DEF LoadTail, ReadTail, LookAgain, SeesEnabled, CheckEnabled, Spin, NodeQuiet,
                mutexVars, readerVars, nodeVars
  <2>2. QED
    BY <1>1, <2>1, LinedLoadsTail, LinedReadsTail, LinedLooksAgain, LinedSeesEnabled,
       LinedChecksEnabled, LinedSpins
<1>2. CASE Turn(t)
  BY <1>2, LinedWaits DEF Turn, NodeQuiet, mutexVars, readerVars, nodeVars
<1>3. CASE Enable(t) \/ Disable(t) \/ WaitSpinners(t)
  BY <1>3, LinedWaits
<1>4. CASE Post(t) \/ Activate(t) \/ Clean(t)
  <2>1. NodeQuiet
    BY <1>4 DEF Post, Activate, Clean, NodeQuiet, mutexVars, readerVars, nodeVars
  <2>2. QED
    BY <1>4, <2>1, LinedPlain
<1>5. CASE IsActive(t) \/ TryBarrier(t) \/ Answered(t) \/ Combine(t)
  BY <1>5, LinedIsActive, LinedTries, LinedCombines DEF IsActive, TryBarrier, Answered, Combine,
     NodeQuiet, mutexVars, readerVars, nodeVars
<1>6. CASE Visit(t)
  BY <1>6, LinedStutters DEF Visit, callVars, mutexVars, readerVars, nodeVars
<1>7. CASE Enqueue(t) \/ LeaveLine(t) \/ TryLine(t) \/ ArriveAt(t) \/ DepartFrom(t)
  BY <1>7, LinedEnqueues, LinedLeaves, LinedTriesLine, LinedArrivesAt, LinedDepartsFrom
<1>8. QED
  BY <1>1, <1>2, <1>3, <1>4, <1>5, <1>6, <1>7 DEF NodeStep

LEMMA InitLinedOK ==
    ASSUME NodeInit, build \in NodeBuilds
    PROVE  LinedOK
<1>1. LinedTable /\ LinedGate \in LinedGates
  BY LinedTables DEF LinedTable
<1>2. /\ code = [t \in Threads |-> <<>>] /\ at = [t \in Threads |-> NULL] /\ line = <<>>
      /\ enabled = {} /\ arrivedAt = [t \in Threads |-> NULL]
  BY DEF NodeInit, Start
<1>3. LinedCode(<<>>, LinedGate)
  <2>1. "open" \in QueueLabels \ (KeyLabels \cup Guarded \cup {"seesEnabled", "arriveAt"})
        /\ "post" \in PostLabels \ (KeyLabels \cup Guarded \cup {"seesEnabled", "arriveAt"})
    BY DEF QueueLabels, PostLabels, KeyLabels, Guarded
  <2>2. QED
    BY <1>1, <2>1, LinedSmall DEF Idle, LinedGates
<1>4. ~InLine(<<>>) /\ ~Enables(<<>>)
  BY LinedReadersHold
<1>5. <<>> \notin LinedArrived /\ <<>> \notin SpinningCodes
  BY <1>1, <1>3, LinedCodesDoNotRead
<1>6. LinedTypeOK
  BY <1>2 DEF LinedTypeOK
<1>7. LineOK
  BY <1>2, <1>4 DEF LineOK
<1>8. SpinnersOK
  BY <1>2, <1>4, <1>5 DEF SpinnersOK
<1>9. QED
  BY <1>2, <1>3, <1>5, <1>6, <1>7, <1>8 DEF LinedOK, LinedCodeOK

LEMMA LinedMutualExclusion ==
    ASSUME LinedOK, LinedTable
    PROVE  MutualExclusion /\ ReadersExcludeWriters
<1>1. ASSUME NEW t \in Threads, Inside(t)
      PROVE  /\ line # <<>> /\ line[1] = t
             /\ ~Has(code[t], "readers") /\ (LinedGate.spins => Has(code[t], "disable"))
  <2>1. PICK l \in {"flush", "swap", "visit", "combine", "own", "critical"} : At(t, l)
    BY <1>1 DEF Inside
  <2>2. /\ InLine(code[t]) /\ ~Has(code[t], "turn") /\ ~Has(code[t], "readers")
        /\ LinedGate.spins => Has(code[t], "disable")
    BY <2>1, LinedInside
  <2>3. PICK i \in DOMAIN line : line[i] = t
    BY <2>2 DEF LinedOK, LineOK
  <2>4. ~(i > 1)
    BY <2>2, <2>3 DEF LinedOK, LineOK
  <2>5. i = 1 /\ line # <<>>
    BY <2>3, <2>4 DEF LinedOK, LinedTypeOK
  <2>6. QED
    BY <2>2, <2>3, <2>5
<1>2. ASSUME NEW t \in Threads, NEW u \in Threads, Inside(t), At(u, "read")
      PROVE  FALSE
  <2>1. line # <<>> /\ line[1] = t /\ ~Has(code[t], "readers")
        /\ (LinedGate.spins => Has(code[t], "disable"))
    BY <1>1, <1>2
  <2>2. "read" \in LookWords /\ "read" \notin QueueLabels /\ "read" \notin PostLabels
    BY DEF LookWords, ReaderWords, QueueLabels, PostLabels
  <2>3. LinedGate \in LinedGates /\ code[u] # <<>> /\ Head(code[u]) = "read"
        /\ \/ LinedGate.labels = QueueLabels /\ code[u] \in LookingCodes
           \/ LinedGate.spins /\ LinedGate.labels = QueueLabels /\ code[u] \in SpinningCodes
           \/ LinedGate.labels = PostLabels /\ LinedGate.read /\ code[u] \in ReaderCodes
    BY <1>2, <2>2, AtLookWord DEF LinedTable, LinedGates
  <2>4. CASE code[u] \in LookingCodes \cup ReaderCodes
    BY <2>1, <2>3, <2>4, LookingTails, ReaderTails DEF ReadingCodes, LinedOK, LineOK
  <2>5. CASE LinedGate.spins /\ code[u] \in SpinningCodes
    <3>1. code[u] = <<"read", "departFrom">> /\ code[u] # <<"checkEnabled">>
      BY <2>3, <2>5, LookingTails
    <3>2. at[u] \in Threads /\ SpunOn(code[at[u]]) /\ ~Has(code[at[u]], "disable")
      BY <2>3, <2>5, <3>1 DEF LinedOK, SpinnersOK
    <3>3. LinedCode(code[at[u]], LinedGate)
      BY <3>2, HoldersHaveLinedCode
    <3>4. InLine(code[at[u]]) /\ ~Has(code[at[u]], "turn")
      BY <2>5, <3>2, <3>3 DEF LinedCode, Then, Has, SpunOn, InLine, Holds
    <3>5. PICK i \in DOMAIN line : line[i] = at[u]
      BY <3>2, <3>4 DEF LinedOK, LineOK
    <3>6. ~(i > 1)
      BY <3>4, <3>5 DEF LinedOK, LineOK
    <3>7. i = 1
      BY <3>5, <3>6 DEF LinedOK, LinedTypeOK
    <3>8. QED
      BY <2>1, <2>5, <3>2, <3>5, <3>7
  <2>6. QED
    BY <2>3, <2>4, <2>5
<1>3. QED
  BY <1>1, <1>2 DEF MutualExclusion, ReadersExcludeWriters

LEMMA BuildIsFixed ==
    ASSUME [NodeNext]_allVars
    PROVE  build' = build
<1>1. CASE UNCHANGED allVars
  BY <1>1 DEF allVars, vars
<1>2. ASSUME NEW t \in Threads, Call(t) \/ Indicator(t)
      PROVE  build' = build
  BY SMTT(30), <1>2 DEF Call, Indicator, Arrive, Depart, WaitReaders
<1>3. ASSUME NEW t \in Threads, StepBesides(t)
      PROVE  build' = build
  BY <1>3 DEF StepBesides, Look, TryWins, TryFails, LockTakes, Take, Leave, SetFlag, ClearFlag,
              TakeGlobal, LeaveGlobal, RunOwn, Open, OpenFlag, OfferLooks, OfferClaims,
              OfferPublishes, OfferMarks, Fill, Close, Await, FlushLoads, FlushSwaps,
              FlushSwapFails, FlushRuns, FlushIsStuck, FlushReturns, WaitWriters, BarrierIsStuck,
              CheckLocked, WaitFree, LowerBarrier, Read, vars
<1>4. ASSUME NEW t \in Threads, NodeStep(t)
      PROVE  build' = build
  BY <1>4 DEF NodeStep, LoadTail, Enqueue, Turn, LeaveLine, ReadTail, LookAgain, SeesEnabled,
              ArriveAt, CheckEnabled, Spin, DepartFrom, Enable, Disable, WaitSpinners, Post,
              IsActive, Activate, TryBarrier, TryLine, Answered, Combine, Visit, Clean
<1>5. QED
  BY <1>1, <1>2, <1>3, <1>4 DEF NodeNext, Next, Step

(****************************************************************************)
(* The theorems.                                                            *)
(****************************************************************************)
IInv ==
    \/ build \in Locks /\ MutexOK
    \/ build \in NodeBuilds /\ LinedOK

(* Whatever build of the family runs, with any number of threads and NUMA   *)
(* nodes: between two steps each thread has what is left of one of the      *)
(* calls, and holds what that says it has taken and not released.           *)
THEOREM Invariant == NodeSpec => []IInv
<1>1. NodeInit => IInv
  BY InitMutexOK, InitLinedOK DEF NodeInit, Start, IInv
<1>2. IInv /\ [NodeNext]_allVars => IInv'
  <2>1. SUFFICES ASSUME IInv, [NodeNext]_allVars
                 PROVE  IInv'
    OBVIOUS
  <2>2. build' = build
    BY <2>1, BuildIsFixed DEF allVars, vars
  <2>3. CASE build \in Locks /\ MutexOK
    <3>1. MutexTable /\ (~Hierarchical => build.nodes = {1})
      BY <2>3, MutexTables
    <3>2. CASE UNCHANGED allVars
      BY <2>2, <2>3, <3>2, StutterKeeps DEF allVars, IInv
    <3>3. CASE NodeNext
      BY <2>2, <2>3, <3>1, <3>3, NoNodeSteps, NextKeepsMutexOK DEF NodeNext, IInv
    <3>4. QED
      BY <2>1, <3>2, <3>3
  <2>4. CASE build \in NodeBuilds /\ LinedOK
    BY <2>1, <2>2, <2>4, LinedTables, LinedStutters, LinedNext, LinedNodeStep DEF allVars, vars,
       callVars, mutexVars, readerVars, nodeVars, IInv, NodeNext
  <2>5. QED
    BY <2>1, <2>3, <2>4 DEF IInv
<1>3. QED
  BY <1>1, <1>2, PTL DEF NodeSpec

LEMMA InvariantInside == IInv => MutualExclusion /\ ReadersExcludeWriters
BY MutexTables, MutexInside, LinedTables, LinedMutualExclusion DEF IInv

(* The operations that a holder runs for others (the flush of a queue, the  *)
(* visit of a request), its own operation and the critical sections of      *)
(* lock() never run at the same time, in no build and on no two nodes.      *)
THEOREM Exclusion == NodeSpec => []MutualExclusion
BY Invariant, InvariantInside, PTL

(* Nor does a reader read meanwhile: arriving before it looks whether the   *)
(* lock is taken is enough against a holder that waits for the readers, and *)
(* so is waiting at the last node, in all_equal_rdx_lock.c, for a holder    *)
(* that waits for those spinning there before it leaves the queue.          *)
THEOREM ReaderExclusion == NodeSpec => []ReadersExcludeWriters
BY Invariant, InvariantInside, PTL

(****************************************************************************)
(* No flush goes past the end of its array, except that of qdlockp.h.       *)
(****************************************************************************)
QueueTable ==
    /\ offer.capacity \in Nat /\ offer.sizes \subseteq Nat
    /\ flush.limit \in Nat /\ flush.swapTo \in Nat
    /\ flush.limit <= offer.capacity \/ offer = OneRequest
    /\ build.name # "qdlockp" => flush.clamps

LEMMA QueueTables ==
    ASSUME build \in Locks \cup NodeBuilds
    PROVE  QueueTable
<1>1. \/ offer = CopiedOffer /\ flush = CopiedFlush
      \/ offer = CopiedOffer /\ flush = entry_queue_flush
      \/ build.name = "qdlockp" /\ offer = qdlockp_offer /\ flush = qdlockp_flush
      \/ offer = dual_buffer_queue_enqueue /\ flush = dual_buffer_queue_flush
      \/ offer = buffer_queue_enqueue /\ flush = buffer_queue_flush
      \/ offer = drmvqueue_offer /\ flush = drmvqueue_flush
      \/ offer = qdq_enqueue /\ flush = qdq_flush
      \/ offer = VariableSizes /\ flush = qdq_flush
      \/ offer = mwqueue_offer /\ flush = mwqueue_flush
      \/ build.calls \in {fcrdxlock_calls, afdxlock_calls} /\ offer = OneRequest /\ flush = CopiedFlush
  BY DEF Locks, NodeBuilds, Lock, offer, flush, qdlock_offer, qdlock_flush, nostarve_offer,
         nostarve_flush, futex_offer, futex_flush, hqdlock_offer, hqdlock_flush, hnostarve_offer,
         hnostarve_flush, entry_queue_enqueue, omwqueue_offer, omwqueue_flush
<1>2. CASE offer = CopiedOffer /\ flush = CopiedFlush
  BY <1>2 DEF QueueTable, CopiedOffer, CopiedFlush
<1>3. CASE offer = CopiedOffer /\ flush = entry_queue_flush
  BY <1>3 DEF QueueTable, CopiedOffer, entry_queue_flush, qdlockp_flush
<1>4. CASE build.name = "qdlockp" /\ offer = qdlockp_offer /\ flush = qdlockp_flush
  BY <1>4 DEF QueueTable, CopiedOffer, qdlockp_offer, qdlockp_flush
<1>5. CASE offer = dual_buffer_queue_enqueue /\ flush = dual_buffer_queue_flush
  BY <1>5 DEF QueueTable, CopiedOffer, dual_buffer_queue_enqueue, dual_buffer_queue_flush,
              qdlockp_flush
<1>6. CASE offer = buffer_queue_enqueue /\ flush = buffer_queue_flush
  BY <1>6 DEF QueueTable, CopiedOffer, buffer_queue_enqueue, buffer_queue_flush,
              entry_queue_flush, qdlockp_flush
<1>7. CASE offer = drmvqueue_offer /\ flush = drmvqueue_flush
  BY <1>7 DEF QueueTable, CopiedOffer, CopiedFlush, drmvqueue_offer, drmvqueue_flush
<1>8. CASE flush = qdq_flush /\ (offer = qdq_enqueue \/ offer = VariableSizes)
  <2>1. qdq_enqueue.capacity = 5 /\ qdq_enqueue.sizes = {2}
    BY DEF CopiedOffer, qdq_enqueue
  <2>2. VariableSizes.capacity = 5 /\ VariableSizes.sizes = {2, 3}
    BY DEF CopiedOffer, qdq_enqueue, VariableSizes
  <2>3. QED
    BY <1>8, <2>1, <2>2 DEF QueueTable, qdq_flush
<1>9. CASE offer = mwqueue_offer /\ flush = mwqueue_flush
  BY <1>9 DEF QueueTable, CopiedOffer, CopiedFlush, mwqueue_offer, mwqueue_flush
<1>10. CASE offer = OneRequest /\ flush = CopiedFlush
  BY <1>10 DEF QueueTable, CopiedOffer, CopiedFlush, OneRequest
<1>11. QED
  BY <1>1, <1>2, <1>3, <1>4, <1>5, <1>6, <1>7, <1>8, <1>9, <1>10

LEMMA LocksFit ==
    ASSUME build \in Locks
    PROVE  flush.limit <= offer.capacity
<1>1. offer.capacity # 1
  <2>1. offer \in {CopiedOffer, qdlockp_offer, dual_buffer_queue_enqueue, buffer_queue_enqueue,
                   drmvqueue_offer, qdq_enqueue, VariableSizes}
    BY DEF Locks, Lock, offer, qdlock_offer, nostarve_offer, futex_offer, hqdlock_offer,
           hnostarve_offer, entry_queue_enqueue, omwqueue_offer
  <2>2. /\ CopiedOffer.capacity = 2 /\ qdlockp_offer.capacity = 2
        /\ dual_buffer_queue_enqueue.capacity = 2 /\ buffer_queue_enqueue.capacity = 4
        /\ drmvqueue_offer.capacity = 2 /\ qdq_enqueue.capacity = 5
    BY DEF CopiedOffer, qdlockp_offer, dual_buffer_queue_enqueue, buffer_queue_enqueue,
           drmvqueue_offer, qdq_enqueue
  <2>3. VariableSizes.capacity = 5
    BY DEF CopiedOffer, qdq_enqueue, VariableSizes
  <2>4. QED
    BY <2>1, <2>2, <2>3
<1>2. OneRequest.capacity = 1
  BY DEF OneRequest, CopiedOffer
<1>3. QED
  BY <1>1, <1>2, QueueTables DEF QueueTable

LEMMA NodesFit ==
    ASSUME build \in NodeBuilds
    PROVE  flush.limit <= offer.capacity \/ Posts
BY DEF CopiedFlush, CopiedOffer, mwqueue_offer, mwqueue_flush, fcrdxlock_calls, Posts, Helping,
   afdxlock_calls, NodeBuilds, Lock, offer, flush

(****************************************************************************)
(* What a flush still has to run lies in the array.                         *)
(****************************************************************************)
LocalOK(f, b) ==
    /\ f = [x \in {"last", "todo", "pos", "stop"} |-> f[x]]
    /\ b.name # "qdlockp" => f.todo <= b.offer.capacity

FlushOK ==
    /\ count \in [build.nodes -> Nat]
    /\ size \in [Threads -> Nat]
    /\ local = [t \in Threads |-> local[t]]
    /\ \A t \in Threads : LocalOK(local[t], build)

LEMMA NotFlushingOK == QueueTable => LocalOK(NotFlushing(build), build)
BY DEF QueueTable, LocalOK, NotFlushing, offer

LEMMA LocalStep ==
    ASSUME FlushOK, NEW t \in Threads, NEW f, LocalOK(f, build), local' = [local EXCEPT ![t] = f],
           UNCHANGED build
    PROVE  /\ local' = [u \in Threads |-> local'[u]]
           /\ \A u \in Threads : LocalOK(local'[u], build')
BY DEF FlushOK

LEMMA GoKeepsSize ==
    ASSUME FlushOK, NEW t \in Threads, NEW d, Go(t, d)
    PROVE  size' \in [Threads -> Nat]
BY DEF Go, FlushOK

LEMMA FlushHasNode ==
    ASSUME IInv, NEW t \in Threads, NEW l \in {"flush", "swap"}, At(t, l)
    PROVE  at[t] \in build.nodes /\ flush.limit <= offer.capacity
<1>1. code[t] # <<>>
  BY DEF At
<1>2. CASE build \in Locks /\ MutexOK
  BY <1>1, <1>2, LocksFit DEF MutexOK
<1>3. CASE build \in NodeBuilds /\ LinedOK
  BY <1>1, <1>3, LinedTables, AtLabel, NodesFit DEF LinedOK, QueueLabels, PostLabels, LookWords,
     ReaderWords
<1>4. QED
  BY <1>2, <1>3 DEF IInv

LEMMA CountStep ==
    ASSUME FlushOK, QueueTable, NEW n, NEW k \in Nat, count' = [count EXCEPT ![n] = k],
           UNCHANGED build
    PROVE  count' \in [build'.nodes -> Nat]
BY DEF FlushOK

(* The steps of the flush itself.                                           *)
LEMMA FollowsStays ==
    ASSUME FlushOK, QueueTable, NEW t \in Threads, at[t] \in build.nodes, UNCHANGED build,
           flush.limit <= offer.capacity, NEW d, FlushFollows(t, d)
    PROVE  /\ local' = [u \in Threads |-> local'[u]]
           /\ \A u \in Threads : LocalOK(local'[u], build')
           /\ size' \in [Threads -> Nat]
<1>1. count[at[t]] \in Nat /\ flush.limit \in Nat /\ offer.capacity \in Nat
      /\ offer.capacity = build.offer.capacity
  BY DEF FlushOK, QueueTable, offer
<1>2. size' \in [Threads -> Nat]
  BY GoKeepsSize DEF FlushFollows
<1>3. PICK f : LocalOK(f, build) /\ local' = [local EXCEPT ![t] = f]
  <2>1. LocalOK(local[t], build)
    BY DEF FlushOK
  <2>2. CASE count[at[t]] >= flush.limit
    <3> DEFINE f == [local[t] EXCEPT !.todo = flush.limit, !.stop = TRUE]
    <3>1. local' = [local EXCEPT ![t] = f]
      BY <1>1, <2>2 DEF FlushFollows, FlushOK
    <3>2. LocalOK(f, build)
      BY <1>1, <2>1 DEF LocalOK
    <3>3. QED
      BY <3>1, <3>2
  <2>3. CASE count[at[t]] < flush.limit
    <3> DEFINE f == [local[t] EXCEPT !.todo = count[at[t]], !.last = count[at[t]]]
    <3>1. local' = [local EXCEPT ![t] = f]
      BY <1>1, <2>3 DEF FlushFollows, FlushOK
    <3>2. count[at[t]] <= build.offer.capacity
      BY <1>1, <2>3
    <3>3. LocalOK(f, build)
      BY <2>1, <3>2 DEF LocalOK
    <3>4. QED
      BY <3>1, <3>3
  <2>4. QED
    BY <1>1, <2>2, <2>3
<1>4. QED
  BY <1>2, <1>3, LocalStep

LEMMA FlushStays ==
    ASSUME IInv, FlushOK, QueueTable, NEW t \in Threads,
           \/ FlushLoads(t) \/ FlushSwaps(t) \/ FlushSwapFails(t) \/ FlushRuns(t)
           \/ FlushReturns(t)
    PROVE  FlushOK'
<1>1. PICK l \in {"flush", "swap"} : At(t, l)
  BY DEF FlushLoads, FlushSwaps, FlushSwapFails, FlushRuns, FlushReturns
<1>2. at[t] \in build.nodes /\ flush.limit <= offer.capacity
  BY <1>1, FlushHasNode
<1>3. /\ count[at[t]] \in Nat /\ flush.limit \in Nat /\ offer.capacity \in Nat
      /\ flush.swapTo \in Nat /\ offer.capacity = build.offer.capacity
  BY <1>2 DEF FlushOK, QueueTable, offer
<1>4. UNCHANGED build /\ LocalOK(local[t], build)
  BY DEF FlushLoads, FlushSwaps, FlushSwapFails, FlushRuns, FlushReturns, FlushOK
<1>5. size' \in [Threads -> Nat]
  BY GoKeepsSize DEF FlushLoads, FlushSwaps, FlushSwapFails, FlushRuns, FlushReturns, FlushFollows
<1>6. count' \in [build'.nodes -> Nat]
  BY <1>3, <1>4, CountStep DEF FlushOK, FlushLoads, FlushSwaps, FlushSwapFails, FlushRuns,
     FlushReturns, queueVars
<1>7. /\ local' = [u \in Threads |-> local'[u]]
      /\ \A u \in Threads : LocalOK(local'[u], build')
  <2>1. CASE UNCHANGED local
    BY <1>4, <2>1 DEF FlushOK
  <2>2. CASE \E d : FlushFollows(t, d)
    BY <1>2, <1>4, <2>2, FollowsStays
  <2>3. CASE FlushSwaps(t)
    <3> DEFINE todo == IF flush.clamps THEN Lesser(count[at[t]], flush.limit) ELSE count[at[t]]
               f == [local[t] EXCEPT !.stop = TRUE, !.todo = todo]
    <3>1. local' = [local EXCEPT ![t] = f]
      BY <2>3 DEF FlushSwaps, FlushOK
    <3>2. build.name # "qdlockp" => todo <= offer.capacity
      BY <1>2, <1>3 DEF QueueTable, Lesser
    <3> HIDE DEF todo
    <3>3. LocalOK(f, build)
      BY <1>3, <1>4, <3>2 DEF LocalOK
    <3>4. QED
      BY <1>4, <3>1, <3>3, LocalStep
  <2>4. CASE FlushRuns(t)
    <3>1. CASE local' = [local EXCEPT ![t] = NotFlushing(build)]
      BY <1>4, <3>1, LocalStep, NotFlushingOK
    <3>2. CASE \E p : local' = [local EXCEPT ![t].pos = p]
      <4>1. PICK p : local' = [local EXCEPT ![t].pos = p]
        BY <3>2
      <4> DEFINE f == [local[t] EXCEPT !.pos = p]
      <4>2. local' = [local EXCEPT ![t] = f]
        BY <4>1
      <4>3. LocalOK(f, build)
        BY <1>4 DEF LocalOK
      <4>4. QED
        BY <1>4, <4>2, <4>3, LocalStep
    <3>3. QED
      BY <2>4, <3>1, <3>2 DEF FlushRuns
  <2>5. CASE FlushReturns(t)
    <3>1. local' = [local EXCEPT ![t] = NotFlushing(build)]
      BY <2>5 DEF FlushReturns
    <3>2. QED
      BY <1>4, <3>1, LocalStep, NotFlushingOK
  <2>6. QED
    BY <2>1, <2>2, <2>3, <2>4, <2>5 DEF FlushLoads, FlushSwapFails
<1>8. QED
  BY <1>5, <1>6, <1>7 DEF FlushOK

LEMMA StepFlushOK ==
    ASSUME IInv, FlushOK, QueueTable, [NodeNext]_allVars
    PROVE  FlushOK'
<1>1. build' = build
  BY BuildIsFixed
<1>2. ASSUME UNCHANGED <<count, local>>, size' \in [Threads -> Nat]
      PROVE  FlushOK'
  BY <1>1, <1>2 DEF FlushOK
<1>3. ASSUME UNCHANGED <<count, local>>, NEW t \in Threads, NEW d, Go(t, d)
      PROVE  FlushOK'
  BY <1>2, <1>3, GoKeepsSize
<1>4. ASSUME UNCHANGED <<count, local, size>>
      PROVE  FlushOK'
  BY <1>2, <1>4 DEF FlushOK
<1>5. ASSUME UNCHANGED local, NEW t \in Threads, NEW d, Go(t, d), NEW n, NEW k \in Nat,
             count' = [count EXCEPT ![n] = k]
      PROVE  FlushOK'
  <2>1. size' \in [Threads -> Nat]
    BY <1>5, GoKeepsSize
  <2>2. count' \in [build'.nodes -> Nat]
    BY <1>1, <1>5, CountStep
  <2>3. QED
    BY <1>1, <1>5, <2>1, <2>2 DEF FlushOK
<1>6. ASSUME UNCHANGED count, NEW t \in Threads, UNCHANGED size \/ \E d : Go(t, d), NEW p,
             local' = [local EXCEPT ![t].pos = p]
      PROVE  FlushOK'
  <2>1. size' \in [Threads -> Nat]
    BY <1>6, GoKeepsSize DEF FlushOK
  <2> DEFINE f == [local[t] EXCEPT !.pos = p]
  <2>2. local' = [local EXCEPT ![t] = f]
    BY <1>6
  <2>3. LocalOK(f, build)
    BY DEF FlushOK, LocalOK
  <2>4. /\ local' = [u \in Threads |-> local'[u]]
        /\ \A u \in Threads : LocalOK(local'[u], build')
    BY <1>1, <2>2, <2>3, LocalStep
  <2>5. QED
    BY <1>1, <1>6, <2>1, <2>4 DEF FlushOK
<1>7. CASE UNCHANGED allVars
  BY <1>4, <1>7 DEF allVars, vars, callVars, queueVars
<1>8. ASSUME NEW t \in Threads, Call(t)
      PROVE  FlushOK'
  BY <1>2, <1>8 DEF Call, FlushOK, QueueTable, queueVars
<1>9. ASSUME NEW t \in Threads, Indicator(t)
      PROVE  FlushOK'
  BY <1>3, <1>9 DEF Indicator, Arrive, Depart, WaitReaders, GoOn, queueVars
<1>10. ASSUME NEW t \in Threads, StepBesides(t)
       PROVE  FlushOK'
  <2>1. CASE \/ Look(t) \/ TryWins(t) \/ TryFails(t) \/ LockTakes(t)
    BY <1>3, <2>1 DEF Look, TryWins, TryFails, LockTakes, Take, GoOn, queueVars
  <2>2. CASE \/ Leave(t) \/ SetFlag(t) \/ ClearFlag(t) \/ TakeGlobal(t) \/ LeaveGlobal(t)
             \/ RunOwn(t) \/ OpenFlag(t) \/ OfferLooks(t) \/ OfferPublishes(t) \/ OfferMarks(t)
             \/ Close(t) \/ Await(t)
    BY <1>3, <2>2 DEF Leave, SetFlag, ClearFlag, TakeGlobal, LeaveGlobal, RunOwn, OpenFlag,
                      OfferLooks, OfferPublishes, OfferMarks, Fill, Close, Await, GoOn, queueVars
  <2>3. CASE WaitWriters(t) \/ CheckLocked(t) \/ WaitFree(t) \/ LowerBarrier(t) \/ Read(t)
    BY <1>3, <2>3 DEF WaitWriters, CheckLocked, WaitFree, LowerBarrier, Read, GoOn, queueVars
  <2>4. CASE FlushIsStuck(t) \/ BarrierIsStuck(t)
    BY <1>4, <2>4 DEF FlushIsStuck, BarrierIsStuck, vars, callVars, queueVars
  <2>5. CASE Open(t)
    BY <1>5, <2>5 DEF Open
  <2>6. CASE OfferClaims(t)
    <3> DEFINE k == Lesser(count[at[t]] + size[t], MaxCount)
    <3>1. count' = [count EXCEPT ![at[t]] = k] /\ UNCHANGED local
      BY <2>6 DEF OfferClaims
    <3>2. \E d : Go(t, d)
      BY <2>6 DEF OfferClaims
    <3>3. CASE at[t] \in build.nodes
      <4>1. count[at[t]] \in Nat /\ size[t] \in Nat /\ MaxCount \in Nat
        BY <3>3 DEF FlushOK, QueueTable, MaxCount
      <4>2. k \in Nat
        BY <4>1 DEF Lesser
      <4>3. QED
        BY <1>5, <3>1, <3>2, <4>2
    <3>4. CASE at[t] \notin build.nodes
      BY <1>3, <3>1, <3>2, <3>4 DEF FlushOK
    <3>5. QED
      BY <3>3, <3>4
  <2>7. CASE \/ FlushLoads(t) \/ FlushSwaps(t) \/ FlushSwapFails(t) \/ FlushRuns(t)
             \/ FlushReturns(t)
    BY <2>7, FlushStays
  <2>8. QED
    BY <1>10, <2>1, <2>2, <2>3, <2>4, <2>5, <2>6, <2>7 DEF StepBesides
<1>11. ASSUME NEW t \in Threads, NodeStep(t)
       PROVE  FlushOK'
  <2>1. CASE LoadTail(t) \/ Enqueue(t) \/ ReadTail(t)
    BY <1>4, <2>1 DEF LoadTail, Enqueue, ReadTail, LookedInVain, GoTo, queueVars
  <2>2. CASE LookAgain(t) \/ SeesEnabled(t) \/ ArriveAt(t) \/ CheckEnabled(t)
    BY <1>3, <1>4, <2>2 DEF LookAgain, SeesEnabled, ArriveAt, CheckEnabled, LookedInVain, GoTo,
                            queueVars
  <2>3. CASE \/ Turn(t) \/ LeaveLine(t) \/ Spin(t) \/ DepartFrom(t) \/ Enable(t) \/ Disable(t)
             \/ WaitSpinners(t) \/ Post(t)
    BY <1>3, <2>3 DEF Turn, LeaveLine, Spin, DepartFrom, Enable, Disable, WaitSpinners, Post, GoOn,
                      queueVars
  <2>4. CASE \/ IsActive(t) \/ Activate(t) \/ TryBarrier(t) \/ TryLine(t) \/ Answered(t) \/ Clean(t)
    BY <1>3, <2>4 DEF IsActive, Activate, TryBarrier, TryLine, Answered, Clean, GoOn, queueVars
  <2>5. CASE Combine(t)
    BY <1>6, <2>5 DEF Combine, queueVars
  <2>6. CASE Visit(t)
    BY <1>6, <2>6 DEF Visit, callVars
  <2>7. QED
    BY <1>11, <2>1, <2>2, <2>3, <2>4, <2>5, <2>6 DEF NodeStep
<1>12. QED
  BY <1>7, <1>8, <1>9, <1>10, <1>11 DEF NodeNext, Next, Step

(* What a flush still has to run lies in the array: a count that is loaded  *)
(* or exchanged beyond it is cut off, in every queue but that of qdlockp.h. *)
THEOREM StaysInside == NodeSpec => []FlushStaysInside
<1>1. NodeInit => FlushOK
  <2>1. SUFFICES ASSUME NodeInit
                 PROVE  FlushOK
    OBVIOUS
  <2>2. Start(Locks \cup NodeBuilds)
    BY <2>1 DEF NodeInit
  <2>3. build \in Locks \cup NodeBuilds
    BY <2>2 DEF Start
  <2>4. QueueTable /\ LocalOK(NotFlushing(build), build)
    BY <2>3, QueueTables, NotFlushingOK
  <2>5. /\ count = [n \in build.nodes |-> offer.capacity]
        /\ size = [t \in Threads |-> 0]
        /\ local = [t \in Threads |-> NotFlushing(build)]
    BY <2>2 DEF Start
  <2>6. QED
    BY <2>4, <2>5 DEF FlushOK, QueueTable
<1>2. IInv => QueueTable
  BY QueueTables DEF IInv
<1>3. IInv /\ FlushOK /\ [NodeNext]_allVars => FlushOK'
  BY <1>2, StepFlushOK
<1>4. FlushOK => FlushStaysInside
  BY DEF FlushOK, LocalOK, FlushStaysInside, offer
<1>5. QED
  BY <1>1, <1>3, <1>4, Invariant, PTL DEF NodeSpec

(****************************************************************************)
(* What is left in a queue when nobody serves it.                           *)
(****************************************************************************)
Serves(u, n) == Serving(code[u]) /\ at[u] = n

(* A store to a slot that a flush will look at.                             *)
Writes(t, n) == at[t] = n /\ (At(t, "publish") \/ (At(t, "mark") /\ ~offer.keepsMark))
Width(t) == IF At(t, "publish") THEN size[t] ELSE offer.capacity - index[t]

(* Slot i holds an entry, and not a mark that was left where it is.         *)
Entered(n, i) == slot[n][i] # Empty /\ (offer.keepsMark => slot[n][i].by # NULL)

TooFar(i) == \A s \in offer.sizes : i + s > offer.capacity
Refuses(n) == TooFar(count[n]) /\ (~offer.keepsMark => count[n] >= offer.marksBelow)

(* An entry of width w at i of queue n is within what the flush of the one  *)
(* that serves the queue reads.                                             *)
Reached(n, i, w) ==
    /\ w >= 1 /\ i + w <= count[n] /\ i + w <= offer.capacity /\ i < flush.limit
    /\ \E u \in Threads : Serves(u, n)
    /\ \A u \in Threads : Serves(u, n) /\ local[u].stop => i < local[u].todo

(* ... and has not been passed by it.                                       *)
Ahead(n, i) == \A u \in Threads : Serves(u, n) => local[u].pos <= i

Apart(i, w, j, v) == i + w <= j \/ j + v <= i

EntriesOK ==
    \A n \in build.nodes : \A i \in Slots : Entered(n, i) =>
        /\ Reached(n, i, slot[n][i].size)
        /\ slot[n][i].by # NULL \/ ~flush.clearsAtEnd => Ahead(n, i)
        /\ slot[n][i].by # NULL => slot[n][i].size \in offer.sizes
        /\ slot[n][i].by = NULL /\ ~flush.clearsAtEnd => i + slot[n][i].size = offer.capacity

WritesOK ==
    \A n \in build.nodes : \A t \in Threads : Writes(t, n) =>
        Reached(n, index[t], Width(t)) /\ Ahead(n, index[t])

EntriesApart ==
    \A n \in build.nodes : \A i, j \in Slots : Entered(n, i) /\ Entered(n, j) /\ i # j =>
        Apart(i, slot[n][i].size, j, slot[n][j].size)

EntriesWritesApart ==
    \A n \in build.nodes : \A i \in Slots : \A t \in Threads : Entered(n, i) /\ Writes(t, n) =>
        Apart(i, slot[n][i].size, index[t], Width(t))

WritesApart ==
    \A n \in build.nodes : \A t, u \in Threads : Writes(t, n) /\ Writes(u, n) /\ t # u =>
        Apart(index[t], Width(t), index[u], Width(u))

(* A mark that stays lies behind all that fits.                             *)
MarksOK ==
    offer.keepsMark =>
        /\ \A n \in build.nodes : \A i \in Slots :
               slot[n][i] # Empty /\ slot[n][i].by = NULL => TooFar(i)
        /\ \A t \in Threads : At(t, "mark") => TooFar(index[t])

ServingOK ==
    \A n \in build.nodes : \A u \in Threads : Serves(u, n) =>
        /\ local[u].pos <= count[n] /\ local[u].pos <= offer.capacity
        /\ local[u].stop => count[n] >= flush.limit

UnservedOK ==
    \A n \in build.nodes : (\A u \in Threads : ~Serves(u, n)) => Refuses(n)

QueueTypeOK ==
    /\ count \in [build.nodes -> 0 .. MaxCount]
    /\ slot \in [build.nodes -> [Slots -> [by : Threads \cup {NULL}, size : Nat]]]
    /\ size \in [Threads -> Nat]
    /\ index \in [Threads -> Nat]
    /\ local \in [Threads -> [last : Nat, todo : Nat, pos : Nat, stop : BOOLEAN]]

QueueCodesOK ==
    \A t \in Threads :
        /\ QueueCode(code[t])
        /\ code[t] # <<>> => size[t] \in offer.sizes
        /\ ~Serving(code[t]) => local[t] = NotFlushing(build)
        /\ At(t, "mark") => index[t] < offer.capacity
        /\ Lined /\ InLine(code[t]) => at[t] = t

QInv ==
    /\ QueueTypeOK /\ QueueCodesOK
    /\ EntriesOK /\ WritesOK /\ EntriesApart /\ EntriesWritesApart /\ WritesApart
    /\ MarksOK /\ ServingOK /\ UnservedOK

(****************************************************************************)
(* Operations of one thread.                                                *)
(****************************************************************************)
NoneOwed(t) == \A n \in build.nodes : \A i \in Slots : slot[n][i].by # t
NotInOwn(t) == Serving(code[t]) => \A i \in Slots : slot[at[t]][i].by # t

MutexOwn ==
    \A t \in Threads :
        /\ NotInOwn(t)
        /\ code[t] \in ReadingCodes => NoneOwed(t)

(* t follows the one who had the last place in the line, or has one.        *)
Trails(c) ==
    c \in SpinningCodes \/ \E l \in {"claim", "publish", "seesEnabled", "arriveAt"} : Has(c, l)
Follows(c) == InLine(c) \/ Trails(c)

OwedInLine(t) == \A n \in Owed(t) : IsLater(n, at[t])

LinedOwn ==
    \A t \in Threads :
        /\ NotInOwn(t)
        /\ code[t] \in LookingCodes => NoneOwed(t)
        /\ Follows(code[t]) => OwedInLine(t)

(* What the invariants say of a state taken together.                       *)
OneServes == \A t, u \in Threads : \A n : Serves(t, n) /\ Serves(u, n) => t = u

OwedServed ==
    \A n \in build.nodes : \A i \in Slots : slot[n][i].by \in Threads =>
        \E u \in Threads : /\ Serves(u, n)
                           /\ Lined => u = n /\ \E j \in DOMAIN line : line[j] = n

(****************************************************************************)
(* How these codes go on.                                                   *)
(****************************************************************************)
LEMMA FramedTail ==
    ASSUME NEW S, NEW c \in Seq(S), c # <<>>, NEW a, NEW r, Framed(c, a, r)
    PROVE  Framed(Tail(c), a, r)
BY HasTail, ThenTail, NotAfterTail DEF Framed

LEMMA FramedHolds ==
    ASSUME NEW c, NEW a, NEW r, Framed(c, a, r), Serving(c)
    PROVE  Holds(c, a, r)
BY DEF Framed, Serving, Holds, Then, Has

LEMMA QueueTail ==
    ASSUME NEW S, NEW c \in Seq(S), c # <<>>, QueueCode(c)
    PROVE  /\ QueueCode(Tail(c)) /\ Loose(Tail(c))
           /\ Head(c) \notin {"open", "flush"} => (Serving(Tail(c)) <=> Serving(c))
           /\ Head(c) = "open" => Serving(Tail(c)) /\ ~Serving(c)
           /\ Head(c) = "flush" => ~Serving(Tail(c))
           /\ Head(c) \in {"swap", "flush"} => Serving(c)
           /\ Head(c) \in Branching => ~Has(c, "flush")
           /\ Head(c) \notin {"publish", "mark"} => Loose(c)
<1>1. \A l : Has(c, l) <=> Head(c) = l \/ Has(Tail(c), l)
  BY HasTail
<1>2. \A A, l : Then(c, A, l) <=> Then(Tail(c), A, l) /\ (Head(c) \in A => Has(Tail(c), l))
  BY ThenTail
<1>3. \A A, l : NotAfter(c, A, l) <=> NotAfter(Tail(c), A, l) /\ (Head(c) \in A => ~Has(Tail(c), l))
  BY NotAfterTail
<1>4. /\ Loose(Tail(c))
      /\ \A i \in DOMAIN Tail(c) : Tail(c)[i] \in {"publish", "mark"} => i = 1
      /\ Head(c) \notin {"publish", "mark"} => Loose(c)
  <2>1. ASSUME NEW i \in DOMAIN Tail(c)
        PROVE  Tail(c)[i] \notin {"publish", "mark"}
    BY TailIs DEF QueueCode
  <2>2. QED
    BY <1>1, <2>1 DEF Loose, Has
<1>6. Framed(Tail(c), Gate.in, Gate.out) /\ Framed(Tail(c), NodeGate.in, NodeGate.out)
  BY FramedTail DEF QueueCode
<1>7. QueueCode(Tail(c))
  BY <1>2, <1>3, <1>4, <1>6 DEF QueueCode
<1>8. /\ Head(c) \notin {"open", "flush"} => (Serving(Tail(c)) <=> Serving(c))
      /\ Head(c) = "open" => Serving(Tail(c)) /\ ~Serving(c)
      /\ Head(c) = "flush" => ~Serving(Tail(c))
      /\ Head(c) \in {"swap", "flush"} => Serving(c)
  BY <1>1, <1>2, <1>3 DEF QueueCode, Serving
<1>9. Head(c) \in Branching => ~Has(c, "flush")
  BY <1>1, <1>3 DEF QueueCode, Branching
<1>10. QED
  BY <1>4, <1>7, <1>8, <1>9

(* A store to the flag, the exchange or a departure is put before the code. *)
LEMMA QueuePrefix ==
    ASSUME NEW S, NEW c \in Seq(S), NEW x \in S, QueueCode(c), Loose(c),
           x \in {"close", "openFlag", "swap", "depart", "departFrom"}, x = "swap" => Serving(c),
           Gate.in # x, NodeGate.in # x
    PROVE  QueueCode(<<x>> \o c) /\ Loose(<<x>> \o c) /\ (Serving(<<x>> \o c) <=> Serving(c))
<1>1. PICK d : d = <<x>> \o c
  OBVIOUS
<1>whole. <<x>> \o c \in Seq(S) /\ <<x>> \o c # <<>> /\ Head(<<x>> \o c) = x /\ Tail(<<x>> \o c) = c
  BY Prepended
<1>2. d \in Seq(S) /\ d # <<>> /\ Head(d) = x /\ Tail(d) = c
  BY <1>1, <1>whole
<1>3. \A l : Has(d, l) <=> x = l \/ Has(c, l)
  BY <1>2, HasTail
<1>4. \A A, l : Then(d, A, l) <=> Then(c, A, l) /\ (x \in A => Has(c, l))
  BY <1>2, ThenTail
<1>5. \A A, l : NotAfter(d, A, l) <=> NotAfter(c, A, l) /\ (x \in A => ~Has(c, l))
  BY <1>2, NotAfterTail
<1>6. x # "open" /\ x # "flush" /\ x # "publish" /\ x # "mark" /\ x \notin Branching
  BY DEF Branching
<1>7. Loose(d) /\ (Serving(d) <=> Serving(c))
  BY <1>3, <1>6 DEF Loose, Serving
<1>8. Framed(d, Gate.in, Gate.out) /\ Framed(d, NodeGate.in, NodeGate.out)
  BY <1>3, <1>4, <1>5, <1>6 DEF QueueCode, Framed
<1>whose. \A i \in DOMAIN d : d[i] \in {"publish", "mark"} => i = 1
  BY <1>7 DEF Loose, Has
<1>9. QueueCode(d)
  BY <1>2, <1>4, <1>5, <1>6, <1>8, <1>whose DEF QueueCode, Serving
<1>10. QED
  BY <1>1, <1>7, <1>9

LEMMA SmallQueueCode ==
    ASSUME NEW l, l \notin {"open", "flush", "swap"}
    PROVE  /\ QueueCode(<<l>>) /\ QueueCode(<<>>) /\ ~Serving(<<l>>) /\ ~Serving(<<>>) /\ Loose(<<>>)
           /\ l \notin {"publish", "mark"} => Loose(<<l>>)
BY NothingLeft DEF Has, Then, NotAfter, QueueCode, Framed, Loose, Serving

(****************************************************************************)
(* What the queues have in common.                                          *)
(****************************************************************************)
QueueFacts ==
    /\ offer.capacity \in Nat /\ offer.sizes \subseteq Nat \ {0}
    /\ offer.marksBelow \in Nat /\ flush.limit \in Nat /\ flush.swapTo \in Nat
    /\ offer.marksBelow <= flush.limit /\ flush.limit <= offer.capacity
    /\ offer.capacity <= flush.swapTo /\ flush.swapTo <= offer.capacity + 1
    /\ \A s \in offer.sizes : offer.capacity < flush.limit + s
    /\ offer.endMark => ~flush.clearsAtEnd
    /\ offer.keepsMark => offer.endMark /\ \A r, s \in offer.sizes : r = s

LEMMA QueueFactsHold ==
    ASSUME build \in Locks \cup NodeBuilds, ~Posts, build.name # "newrep_variable"
    PROVE  QueueFacts
<1>1. \/ offer = CopiedOffer /\ flush = CopiedFlush
      \/ offer = CopiedOffer /\ flush = entry_queue_flush
      \/ offer = qdlockp_offer /\ flush = qdlockp_flush
      \/ offer = dual_buffer_queue_enqueue /\ flush = dual_buffer_queue_flush
      \/ offer = buffer_queue_enqueue /\ flush = buffer_queue_flush
      \/ offer = drmvqueue_offer /\ flush = drmvqueue_flush
      \/ offer = qdq_enqueue /\ flush = qdq_flush
      \/ offer = mwqueue_offer /\ flush = mwqueue_flush
  <2>1. CASE build \in Locks
    BY <2>1 DEF Locks, Lock, offer, flush, qdlock_offer, qdlock_flush, nostarve_offer,
         nostarve_flush, futex_offer, futex_flush, hqdlock_offer, hqdlock_flush, hnostarve_offer,
         hnostarve_flush, entry_queue_enqueue, omwqueue_offer, omwqueue_flush
  <2>2. CASE build \in NodeBuilds
    BY <2>2 DEF NodeBuilds, Lock, offer, flush, fcrdxlock_calls, afdxlock_calls, Posts, Helping
  <2>3. QED
    BY <2>1, <2>2
<1>2. CASE offer = CopiedOffer /\ flush = CopiedFlush
  BY <1>2 DEF QueueFacts, CopiedOffer, CopiedFlush
<1>3. CASE offer = CopiedOffer /\ flush = entry_queue_flush
  BY <1>3 DEF QueueFacts, CopiedOffer, entry_queue_flush, qdlockp_flush
<1>4. CASE offer = qdlockp_offer /\ flush = qdlockp_flush
  BY <1>4 DEF QueueFacts, CopiedOffer, qdlockp_offer, qdlockp_flush
<1>5. CASE offer = dual_buffer_queue_enqueue /\ flush = dual_buffer_queue_flush
  BY <1>5 DEF QueueFacts, CopiedOffer, dual_buffer_queue_enqueue, dual_buffer_queue_flush,
              qdlockp_flush
<1>6. CASE offer = buffer_queue_enqueue /\ flush = buffer_queue_flush
  BY <1>6 DEF QueueFacts, CopiedOffer, buffer_queue_enqueue, buffer_queue_flush,
              entry_queue_flush, qdlockp_flush
<1>7. CASE offer = drmvqueue_offer /\ flush = drmvqueue_flush
  BY <1>7 DEF QueueFacts, CopiedOffer, CopiedFlush, drmvqueue_offer, drmvqueue_flush
<1>8. CASE offer = qdq_enqueue /\ flush = qdq_flush
  BY <1>8 DEF QueueFacts, CopiedOffer, qdq_enqueue, qdq_flush
<1>9. CASE offer = mwqueue_offer /\ flush = mwqueue_flush
  BY <1>9 DEF QueueFacts, CopiedOffer, CopiedFlush, mwqueue_offer, mwqueue_flush
<1>10. QED
  BY <1>1, <1>2, <1>3, <1>4, <1>5, <1>6, <1>7, <1>8, <1>9

LEMMA CallsAreFresh ==
    ASSUME build \in Locks \cup NodeBuilds, ~Posts
    PROVE  QueueCalls
<1>1. CASE build \in Locks
  <2>1. build.calls \in {CopiedCalls, qdlockp_calls, futex_calls, hqdlock_calls, qdlock_impl,
                         hqdlock_impl, mrqdlock_impl, mrhqdlock_impl, rhqdlock_calls,
                         ttsalock_calls, qd_delegate}
    BY <1>1 DEF Locks, Lock, qdlock_calls, nostarve_calls, hnostarve_calls
  <2>2. QED
    BY <2>1, CopiedTable, QdlockpTable, FutexTable, HqdlockTable, QdlockImplTable,
       HqdlockImplTable, MrqdlockImplTable, MrhqdlockImplTable, RhqdlockTable, TtsalockTable,
       QdDelegateTable
<1>2. CASE build \in NodeBuilds
  BY <1>2, SdwTable, AerTable DEF NodeBuilds, Lock, fcrdxlock_calls, afdxlock_calls, Posts, Helping
<1>3. QED
  BY <1>1, <1>2

(****************************************************************************)
(* Who serves a queue.                                                      *)
(****************************************************************************)
AllLabels == MutexLabels \cup ReaderWords \cup QueueLabels \cup PostLabels \cup LookWords

LEMMA CodesAreWords ==
    ASSUME IInv, NEW t \in Threads
    PROVE  code[t] \in Seq(AllLabels)
<1>1. \A S, T, c : c \in Seq(S) /\ S \subseteq T => c \in Seq(T)
  OBVIOUS
<1>2. CASE build \in Locks /\ MutexOK
  BY <1>1, <1>2 DEF MutexOK, MutexTypeOK, AllLabels
<1>3. CASE build \in NodeBuilds /\ LinedOK
  <2>1. LinedGate \in LinedGates /\ LinedCodeOK(code[t], LinedGate)
    BY <1>3, LinedTables DEF LinedTable, LinedOK
  <2>2. CASE LinedCode(code[t], LinedGate)
    BY <1>1, <2>1, <2>2 DEF LinedCode, LinedGates, AllLabels
  <2>3. CASE code[t] \in ReaderCodes
    <3>1. CodeOK(code[t], [in |-> "lock", out |-> "leave", read |-> TRUE])
      BY <2>3 DEF CodeOK
    <3>2. code[t] \in Seq(MutexLabels \cup ReaderWords)
      BY <3>1, CodeTyped
    <3>3. QED
      BY <1>1, <3>2 DEF AllLabels
  <2>4. CASE code[t] \in LookingCodes \cup SpinningCodes
    <3>1. /\ "arrive" \in AllLabels /\ "lookAgain" \in AllLabels /\ "read" \in AllLabels
          /\ "depart" \in AllLabels /\ "checkEnabled" \in AllLabels /\ "spin" \in AllLabels
          /\ "departFrom" \in AllLabels
      BY DEF AllLabels, ReaderWords, LookWords, QueueLabels
    <3>2. \/ code[t] = <<"checkEnabled">> \/ code[t] = <<"spin", "read", "departFrom">>
          \/ code[t] = <<"read", "departFrom">>
          \/ code[t] = <<"arrive", "lookAgain", "read", "depart">>
          \/ code[t] = <<"lookAgain", "read", "depart">> \/ code[t] = <<"read", "depart">>
      BY <2>4 DEF LookingCodes, SpinningCodes
    <3>3. <<"checkEnabled">> \in Seq(AllLabels)
      BY <3>1
    <3>4. <<"spin", "read", "departFrom">> \in Seq(AllLabels)
      BY <3>1
    <3>5. <<"read", "departFrom">> \in Seq(AllLabels)
      BY <3>1
    <3>6. <<"arrive", "lookAgain", "read", "depart">> \in Seq(AllLabels)
      BY <3>1
    <3>7. <<"lookAgain", "read", "depart">> \in Seq(AllLabels)
      BY <3>1
    <3>8. <<"read", "depart">> \in Seq(AllLabels)
      BY <3>1
    <3>9. QED
      BY <3>2, <3>3, <3>4, <3>5, <3>6, <3>7, <3>8
  <2>5. QED
    BY <2>1, <2>2, <2>3, <2>4 DEF LinedCodeOK
<1>4. QED
  BY <1>2, <1>3 DEF IInv

LEMMA ServerHolds ==
    ASSUME IInv, ~Posts, QueueCodesOK, NEW t \in Threads, Serving(code[t]) \/ At(t, "open")
    PROVE  /\ Lined => build \in NodeBuilds /\ InLine(code[t]) /\ at[t] = t
           /\ ~Lined => build \in Locks /\ owner[at[t]] = t
           /\ Holds(code[t], Gate.in, Gate.out)
<1>1. Holds(code[t], NodeGate.in, NodeGate.out) /\ Holds(code[t], Gate.in, Gate.out)
  <2>1. CASE Serving(code[t])
    BY <2>1, FramedHolds DEF QueueCodesOK, QueueCode
  <2>2. CASE At(t, "open")
    <3> DEFINE c == code[t]
    <3>1. c \in Seq(AllLabels) /\ c # <<>> /\ Head(c) = "open" /\ QueueCode(c)
      BY <2>2, CodesAreWords DEF At, QueueCodesOK
    <3>2. \A l : Has(c, l) <=> "open" = l \/ Has(Tail(c), l)
      BY <3>1, HasTail
    <3>3. QueueCode(Tail(c)) /\ Serving(Tail(c))
      BY <3>1, QueueTail
    <3>4. Holds(Tail(c), NodeGate.in, NodeGate.out) /\ Holds(Tail(c), Gate.in, Gate.out)
      BY <3>3, FramedHolds DEF QueueCode
    <3>5. NodeGate.in # "open" /\ Gate.in # "open"
      BY DEF NodeGate, Gate
    <3>6. QED
      BY <3>2, <3>4, <3>5 DEF Holds
  <2>3. QED
    BY <2>1, <2>2
<1>2. CASE build \in Locks /\ MutexOK
  BY <1>1, <1>2, MutexTables DEF MutexTable, NodeGate, MutexOK
<1>3. CASE build \in NodeBuilds /\ LinedOK
  BY <1>1, <1>3, LinedTables DEF LinedTable, NodeGate, InLine, QueueCodesOK
<1>4. QED
  BY <1>2, <1>3 DEF IInv

LEMMA OneServer ==
    ASSUME IInv, ~Posts, QueueCodesOK, NEW t \in Threads, NEW u \in Threads, NEW n,
           Serves(t, n) \/ (At(t, "open") /\ at[t] = n), Serves(u, n)
    PROVE  t = u
BY ServerHolds DEF Serves

LEMMA NodeOf ==
    ASSUME IInv, NEW t \in Threads, code[t] # <<>>
    PROVE  at[t] \in build.nodes
BY LinedTables DEF MutexOK, LinedOK, IInv

LEMMA LooseHead ==
    ASSUME IInv, NEW t \in Threads
    PROVE  /\ \A l : At(t, l) => Has(code[t], l)
           /\ Loose(code[t]) => ~At(t, "publish") /\ ~At(t, "mark")
BY CodesAreWords, HasTail DEF At, Loose

(****************************************************************************)
(* A step in which what lies in the slots, and is about to be written there,*)
(* does not grow.                                                           *)
(****************************************************************************)
Shrinks ==
    /\ \A n \in build.nodes : \A i \in Slots : Entered(n, i)' =>
           Entered(n, i) /\ slot'[n][i].size = slot[n][i].size
    /\ \A n \in build.nodes : \A t \in Threads : Writes(t, n)' =>
           Writes(t, n) /\ index'[t] = index[t] /\ Width(t)' = Width(t)

LEMMA ShrinkingStaysApart ==
    ASSUME EntriesApart, EntriesWritesApart, WritesApart, Shrinks, build' = build
    PROVE  (EntriesApart /\ EntriesWritesApart /\ WritesApart)'
BY SameBuildSameGate DEF EntriesApart, Shrinks, Apart, EntriesWritesApart, WritesApart

(* The code and node of t change, of nobody else.                           *)
OneMoves(t, d) ==
    /\ build' = build
    /\ code' = [code EXCEPT ![t] = d]
    /\ size' \in [Threads -> Nat]
    /\ \A u \in Threads \ {t} : at'[u] = at[u] /\ size'[u] = size[u]
    /\ QueueCode(d)
    /\ d # <<>> => size'[t] \in offer.sizes
    /\ Lined /\ InLine(d) => at'[t] = t

LEMMA MovedCode ==
    ASSUME IInv, NEW t \in Threads, NEW d, OneMoves(t, d)
    PROVE  code'[t] = d /\ \A u \in Threads \ {t} : code'[u] = code[u] /\ \A l : At(u, l)' <=> At(u, l)
BY DEF IInv, MutexOK, MutexTypeOK, LinedOK, LinedTypeOK, OneMoves, At

LEMMA SameBuildSameQueue ==
    ASSUME build' = build
    PROVE  /\ NodeGate' = NodeGate /\ MaxCount' = MaxCount /\ Lined' = Lined
           /\ offer' = offer /\ flush' = flush /\ Slots' = Slots
           /\ \A i : TooFar(i)' <=> TooFar(i)
           /\ NotFlushing(build)' = NotFlushing(build)
           /\ \A c : QueueCode(c)' <=> QueueCode(c)
BY SameBuildSameGate DEF NodeGate, MaxCount, offer, TooFar, QueueCode, NotFlushing

LEMMA MovedCodes ==
    ASSUME IInv, QueueCodesOK, NEW t \in Threads, NEW d, OneMoves(t, d),
           \A u \in Threads \ {t} : local'[u] = local[u] /\ index'[u] = index[u],
           ~Serving(d) => local'[t] = NotFlushing(build),
           At(t, "mark")' => index'[t] < offer.capacity
    PROVE  QueueCodesOK'
<1>1. code'[t] = d /\ \A u \in Threads \ {t} : code'[u] = code[u] /\ \A l : At(u, l)' <=> At(u, l)
  BY MovedCode
<1>2. /\ Lined' = Lined /\ offer' = offer /\ NotFlushing(build)' = NotFlushing(build)
      /\ \A c : QueueCode(c)' <=> QueueCode(c)
  BY SameBuildSameQueue DEF OneMoves
<1>3. ASSUME NEW u \in Threads
      PROVE  /\ QueueCode(code'[u])
             /\ code'[u] # <<>> => size'[u] \in offer.sizes
             /\ ~Serving(code'[u]) => local'[u] = NotFlushing(build)
             /\ At(u, "mark")' => index'[u] < offer.capacity
             /\ Lined /\ InLine(code'[u]) => at'[u] = u
  BY <1>1 DEF OneMoves, QueueCodesOK
<1>4. \A c : Serving(c)' = Serving(c) /\ InLine(c)' = InLine(c)
  BY DEF Serving, InLine
<1>5. QED
  BY <1>2, <1>3 DEF QueueCodesOK

(* A step that is none of the queue's.                                      *)
LEMMA QueueIsLeft ==
    ASSUME IInv, QueueFacts, QInv, NEW t \in Threads, NEW d, OneMoves(t, d),
           UNCHANGED <<count, slot, index, local>>,
           Loose(code[t]), Loose(d), Serving(d) <=> Serving(code[t]),
           Serving(d) => at'[t] = at[t], d \in Seq(AllLabels)
    PROVE  QInv'
<1>1. code'[t] = d /\ \A u \in Threads \ {t} : code'[u] = code[u] /\ \A l : At(u, l)' <=> At(u, l)
  BY MovedCode
<1>2. build' = build /\ \A u \in Threads \ {t} : at'[u] = at[u] /\ size'[u] = size[u]
  BY DEF OneMoves
<1>3. /\ MaxCount' = MaxCount /\ offer' = offer /\ flush' = flush /\ Slots' = Slots
      /\ \A i : TooFar(i)' <=> TooFar(i)
  BY <1>2, SameBuildSameQueue
<1>4. ~At(t, "publish") /\ ~At(t, "mark")
  BY LooseHead
<1>5. ~At(t, "publish")' /\ ~At(t, "mark")'
  BY <1>1, HasTail DEF Loose, At
<1>6. \A u \in Threads : \A n : Serves(u, n)' <=> Serves(u, n)
  BY <1>1, <1>2 DEF Serves, Serving
<1>7. \A u \in Threads : \A n : Writes(u, n)' <=> Writes(u, n)
  BY <1>1, <1>2, <1>3, <1>4, <1>5 DEF Writes
<1>8. \A u \in Threads : \A n : Writes(u, n) => u # t /\ Width(u)' = Width(u)
  BY <1>1, <1>2, <1>3, <1>4 DEF Writes, Width
<1>9. \A n, i : Entered(n, i)' <=> Entered(n, i)
  BY <1>3 DEF Entered, Empty
<1>10. \A n, i, w : Reached(n, i, w)' <=> Reached(n, i, w)
  BY <1>3, <1>6 DEF Reached
<1>11. \A n, i : Ahead(n, i)' <=> Ahead(n, i)
  BY <1>6 DEF Ahead
<1>12. (EntriesApart /\ EntriesWritesApart /\ WritesApart)'
  BY <1>2, <1>7, <1>8, <1>9, ShrinkingStaysApart DEF Shrinks, QInv
<1>13. EntriesOK'
  BY <1>2, <1>3, <1>9, <1>10, <1>11 DEF QInv, EntriesOK
<1>14. WritesOK'
  BY <1>2, <1>7, <1>8, <1>10, <1>11 DEF QInv, WritesOK
<1>15. MarksOK'
  BY <1>1, <1>2, <1>3, <1>5 DEF QInv, MarksOK, Empty
<1>16. ServingOK' /\ UnservedOK'
  BY <1>2, <1>3, <1>6 DEF QInv, ServingOK, UnservedOK, Refuses
<1>17. QueueTypeOK'
  BY <1>2, <1>3 DEF QInv, QueueTypeOK, OneMoves
<1>18. QueueCodesOK'
  BY <1>1, <1>5, MovedCodes DEF QInv, QueueCodesOK
<1>19. QED
  BY <1>12, <1>13, <1>14, <1>15, <1>16, <1>17, <1>18 DEF QInv

(****************************************************************************)
(* The steps, one by one.                                                   *)
(****************************************************************************)
WordsOK == \A t \in Threads : code[t] \in Seq(AllLabels)

LEMMA StillInLine ==
    ASSUME IInv, IInv', build' = build, line' = line, Lined, NEW t \in Threads
    PROVE  InLine(code'[t]) <=> InLine(code[t])
BY MutexTables DEF MutexTable, IInv, InLine, LinedOK, LineOK

LEMMA GoMovesOne ==
    ASSUME IInv, IInv', WordsOK', QInv, NEW t \in Threads, code[t] # <<>>, NEW d, Go(t, d),
           QueueCode(d), build' = build, line' = line
    PROVE  /\ OneMoves(t, d) /\ d \in Seq(AllLabels)
           /\ d # <<>> => at'[t] = at[t] /\ size'[t] = size[t]
<1>1. code = [u \in Threads |-> code[u]] /\ at = [u \in Threads |-> at[u]] /\ size \in [Threads -> Nat]
  BY DEF IInv, MutexOK, MutexTypeOK, LinedOK, LinedTypeOK, QInv, QueueTypeOK
<1>2. /\ code' = [code EXCEPT ![t] = d] /\ code'[t] = d
      /\ size' \in [Threads -> Nat]
      /\ \A u \in Threads \ {t} : at'[u] = at[u] /\ size'[u] = size[u]
      /\ d # <<>> => at'[t] = at[t] /\ size'[t] = size[t]
  BY <1>1 DEF Go
<1>3. Lined /\ InLine(d) => at'[t] = t
  <2>1. ASSUME Lined, InLine(d)
        PROVE  at'[t] = t
    BY <1>2, <2>1, StillInLine, NothingLeft DEF InLine, Holds, QInv, QueueCodesOK
  <2>2. QED
    BY <2>1
<1>4. d # <<>> => size'[t] \in offer.sizes
  BY <1>2 DEF QInv, QueueCodesOK
<1>5. d \in Seq(AllLabels)
  BY <1>2 DEF WordsOK, AllLabels
<1>6. QED
  BY <1>2, <1>3, <1>4, <1>5 DEF OneMoves

QueueSame == UNCHANGED <<build, line, count, slot, index, local>>

(* t goes on with the rest of its call, with a fresh one, or returns.       *)
LEMMA GoesOnOutside ==
    ASSUME IInv, IInv', WordsOK', QueueFacts, QInv, NEW t \in Threads, QueueSame,
           NEW l, l \notin {"open", "flush", "publish", "mark"}, GoOn(t, l)
    PROVE  QInv'
BY CodesAreWords, QueueTail, NothingLeft, GoMovesOne, QueueIsLeft DEF GoOn, At, Rest, QInv,
   QueueCodesOK, Serving, QueueSame

LEMMA ChoosesOutside ==
    ASSUME IInv, IInv', WordsOK', QueueFacts, QInv, NEW t \in Threads, QueueSame,
           NEW l \in Branching \ {"publish"}, At(t, l), NEW d, FreshCode(d), Go(t, d)
    PROVE  QInv'
BY CodesAreWords, QueueTail, GoMovesOne, QueueIsLeft DEF At, QInv, QueueCodesOK, Branching, Serving,
   QueueSame, FreshCode

LEMMA OpensQueue ==
    ASSUME IInv, IInv', WordsOK', ~Posts, QueueFacts, QInv, NEW t \in Threads, Open(t), line' = line
    PROVE  QInv'
<1> DEFINE c == code[t]
           d == IF offer.flag THEN <<"openFlag">> \o Tail(c) ELSE Tail(c)
<1>1. c # <<>> /\ Head(c) = "open" /\ Go(t, d) /\ build' = build
  BY DEF Open, At, Rest
<1>7. PICK m \in build.nodes : m = at[t]
  BY <1>1, NodeOf
<1>2. c \in Seq(AllLabels) /\ QueueCode(c)
  BY CodesAreWords DEF QInv, QueueCodesOK
<1>3. QueueCode(Tail(c)) /\ Loose(Tail(c)) /\ Serving(Tail(c)) /\ ~Serving(c) /\ Loose(c)
  BY <1>1, <1>2, QueueTail
<1>4. QueueCode(d) /\ Loose(d) /\ Serving(d) /\ ~At(t, "publish") /\ ~At(t, "mark")
  <2>1. Tail(c) \in Seq(AllLabels) /\ "openFlag" \in AllLabels
    BY <1>1, <1>2, TailIs DEF AllLabels, MutexLabels
  <2>2. Gate.in # "openFlag" /\ NodeGate.in # "openFlag"
    BY DEF Gate, NodeGate
  <2>3. QED
    BY <1>1, <1>3, <2>1, <2>2, QueuePrefix DEF At
<1>5. d # <<>>
  BY <1>4, NothingLeft DEF Serving
<1>6. OneMoves(t, d) /\ d \in Seq(AllLabels) /\ at'[t] = at[t]
  BY <1>1, <1>4, <1>5, GoMovesOne
<1>8. /\ count' = [count EXCEPT ![m] = 0]
      /\ UNCHANGED <<slot, index, local>>
  BY <1>7 DEF Open, queueVars
<1> HIDE DEF d
<1>9. code'[t] = d /\ \A u \in Threads \ {t} : code'[u] = code[u] /\ \A l : At(u, l)' <=> At(u, l)
  BY <1>6, MovedCode
<1>10. ~At(t, "publish")' /\ ~At(t, "mark")'
  BY <1>4, <1>5, <1>6, <1>9, HasTail DEF Loose, At
<1>11. \A u \in Threads : ~Serves(u, m)
  <2>1. ASSUME NEW u \in Threads, Serves(u, m)
        PROVE  FALSE
    BY <1>1, <1>3, <1>7, <2>1, OneServer DEF QInv, At, Serves
  <2>2. QED
    BY <2>1
<1>12. \A i, w : ~Reached(m, i, w)
  BY <1>11 DEF Reached
<1>13. \A n : n # m => \A u \in Threads : Serves(u, n)' <=> Serves(u, n)
  BY <1>6, <1>7, <1>9 DEF Serves, Serving, OneMoves
<1>14. \A u \in Threads : Serves(u, m)' <=> u = t
  BY <1>4, <1>6, <1>7, <1>9, <1>11 DEF Serves, Serving, OneMoves
<1>15. /\ MaxCount' = MaxCount /\ offer' = offer /\ flush' = flush /\ Slots' = Slots
       /\ \A i : TooFar(i)' <=> TooFar(i)
  BY <1>1, SameBuildSameQueue
<1>16. \A n \in build.nodes : n # m => count'[n] = count[n]
  BY <1>8 DEF QInv, QueueTypeOK
<1>17. count'[m] = 0
  BY <1>7, <1>8 DEF QInv, QueueTypeOK
<1>18. \A n, i : Entered(n, i)' <=> Entered(n, i)
  BY <1>8, <1>15 DEF Entered, Empty
<1>19. \A u \in Threads : \A n : /\ Writes(u, n)' <=> Writes(u, n)
                                 /\ Writes(u, n) => Width(u)' = Width(u)
  BY <1>4, <1>6, <1>8, <1>9, <1>10, <1>15 DEF Writes, Width, OneMoves
<1>20. \A n \in build.nodes : \A i, w : Reached(n, i, w) => Reached(n, i, w)'
  BY <1>8, <1>12, <1>13, <1>15, <1>16 DEF Reached
<1>21. \A n : n # m => \A i : Ahead(n, i) => Ahead(n, i)'
  BY <1>8, <1>13 DEF Ahead
<1>22. \A i \in Slots : ~Entered(m, i)
  BY <1>7, <1>12 DEF QInv, EntriesOK
<1>23. \A u \in Threads : ~Writes(u, m)
  BY <1>7, <1>12 DEF QInv, WritesOK
<1>24. (EntriesApart /\ EntriesWritesApart /\ WritesApart)'
  BY <1>1, <1>8, <1>18, <1>19, ShrinkingStaysApart DEF Shrinks, QInv
<1>25. EntriesOK'
  <2>1. ASSUME NEW n \in build.nodes, NEW i \in Slots, Entered(n, i)
        PROVE  /\ Reached(n, i, slot[n][i].size)'
               /\ slot[n][i].by # NULL \/ ~flush.clearsAtEnd => Ahead(n, i)'
               /\ slot[n][i].by # NULL => slot[n][i].size \in offer.sizes
               /\ slot[n][i].by = NULL /\ ~flush.clearsAtEnd => i + slot[n][i].size = offer.capacity
    BY <1>8, <1>20, <1>21, <1>22, <2>1 DEF QInv, EntriesOK
  <2>2. QED
    BY <1>1, <1>8, <1>15, <1>18, <2>1 DEF EntriesOK
<1>26. WritesOK'
  <2>1. ASSUME NEW n \in build.nodes, NEW u \in Threads, Writes(u, n)
        PROVE  Reached(n, index[u], Width(u))' /\ Ahead(n, index[u])'
    BY <1>8, <1>19, <1>20, <1>21, <1>23, <2>1 DEF QInv, WritesOK
  <2>2. QED
    BY <1>1, <1>19, <2>1 DEF WritesOK
<1>27. MarksOK'
  BY <1>1, <1>8, <1>9, <1>10, <1>15 DEF QInv, MarksOK, Empty
<1>28. local'[t].pos = 0 /\ local'[t].stop = FALSE
  BY <1>3, <1>8 DEF QInv, QueueCodesOK, NotFlushing
<1>29. ServingOK'
  <2>1. ASSUME NEW n \in build.nodes, NEW u \in Threads, Serves(u, n)'
        PROVE  /\ local'[u].pos <= count'[n] /\ local'[u].pos <= offer.capacity
               /\ local'[u].stop => count'[n] >= flush.limit
    BY <1>8, <1>13, <1>14, <1>16, <1>17, <1>28, <2>1 DEF QueueFacts, QInv, ServingOK
  <2>2. QED
    BY <1>1, <1>15, <2>1 DEF ServingOK
<1>30. UnservedOK'
  <2>1. ASSUME NEW n \in build.nodes, \A u \in Threads : ~Serves(u, n)'
        PROVE  Refuses(n)'
    BY <1>13, <1>14, <1>15, <1>16, <2>1 DEF QInv, UnservedOK, Refuses
  <2>2. QED
    BY <1>1, <2>1 DEF UnservedOK
<1>31. QueueTypeOK'
  <2>1. 0 \in 0 .. MaxCount
    BY DEF MaxCount, QueueFacts
  <2>2. count' \in [build'.nodes -> 0 .. MaxCount']
    BY <1>1, <1>8, <1>15, <2>1 DEF QInv, QueueTypeOK
  <2>3. QED
    BY <1>1, <1>6, <1>8, <1>15, <2>2 DEF QInv, QueueTypeOK, OneMoves
<1>32. QueueCodesOK'
  BY <1>4, <1>6, <1>8, <1>10, MovedCodes DEF QInv
<1>33. QED
  BY <1>24, <1>25, <1>26, <1>27, <1>29, <1>30, <1>31, <1>32 DEF QInv

LEMMA SlotTyped ==
    ASSUME QueueFacts, QueueTypeOK, NEW n \in build.nodes, NEW i \in Slots
    PROVE  /\ i \in Nat /\ i < offer.capacity
           /\ slot[n][i].size \in Nat /\ slot[n][i].by \in Threads \cup {NULL}
<1>1. i \in Nat /\ i < offer.capacity
  BY DEF Slots, QueueFacts
<1>2. slot[n] \in [Slots -> [by : Threads \cup {NULL}, size : Nat]]
  BY DEF QueueTypeOK
<1>3. PICK e \in [by : Threads \cup {NULL}, size : Nat] : e = slot[n][i]
  BY <1>2
<1>4. e.size \in Nat /\ e.by \in Threads \cup {NULL}
  OBVIOUS
<1>5. QED
  BY <1>1, <1>3, <1>4

LEMMA SameServers ==
    ASSUME IInv, NEW t \in Threads, NEW d, OneMoves(t, d), Serving(d) <=> Serving(code[t]),
           Serving(d) => at'[t] = at[t]
    PROVE  \A u \in Threads : \A n : Serves(u, n)' <=> Serves(u, n)
BY MovedCode DEF Serves, Serving, OneMoves

LEMMA SameWriters ==
    ASSUME IInv, NEW t \in Threads, NEW d, OneMoves(t, d), d \in Seq(AllLabels), Loose(d),
           Loose(code[t]), \A u \in Threads \ {t} : index'[u] = index[u]
    PROVE  /\ \A u \in Threads : \A n : Writes(u, n)' <=> Writes(u, n)
           /\ \A u \in Threads : \A n : Writes(u, n) =>
                  u # t /\ Width(u)' = Width(u) /\ index'[u] = index[u]
           /\ \A u \in Threads : At(u, "mark")' => u # t /\ At(u, "mark") /\ index'[u] = index[u]
<1>1. code'[t] = d /\ \A u \in Threads \ {t} : code'[u] = code[u] /\ \A l : At(u, l)' <=> At(u, l)
  BY MovedCode
<1>2. build' = build /\ \A u \in Threads \ {t} : at'[u] = at[u] /\ size'[u] = size[u]
  BY DEF OneMoves
<1>3. offer' = offer
  BY <1>2, SameBuildSameQueue
<1>4. ~At(t, "publish") /\ ~At(t, "mark")
  BY LooseHead
<1>5. ~At(t, "publish")' /\ ~At(t, "mark")'
  BY <1>1, HasTail DEF Loose, At
<1>6. \A u \in Threads : \A n : Writes(u, n)' <=> Writes(u, n)
  BY <1>1, <1>2, <1>3, <1>4, <1>5 DEF Writes
<1>7. \A u \in Threads : \A n : Writes(u, n) => u # t /\ Width(u)' = Width(u) /\ index'[u] = index[u]
  BY <1>1, <1>2, <1>3, <1>4 DEF Writes, Width
<1>8. QED
  BY <1>1, <1>5, <1>6, <1>7

(* The flush looks at the count of m, or changes it to k; its locals are f. *)
Looks(t, d, m, f, k) ==
    /\ d \in Seq(AllLabels) /\ Loose(d) /\ Loose(code[t]) /\ Serving(d) /\ Serving(code[t])
    /\ m = at[t] /\ at'[t] = at[t] /\ UNCHANGED <<slot, index>>
    /\ f \in [last : Nat, todo : Nat, pos : Nat, stop : BOOLEAN]
    /\ local' = [local EXCEPT ![t] = f] /\ f.pos = local[t].pos
    /\ k \in 0 .. MaxCount /\ count' = [count EXCEPT ![m] = k]
    /\ k >= count[m] \/ k >= offer.capacity
    /\ f.stop => /\ k >= flush.limit
                 /\ \A i, w \in Nat : w >= 1 /\ i + w <= count[m] /\ i < flush.limit => i < f.todo

LEMMA FlushLooks ==
    ASSUME IInv, ~Posts, QueueFacts, QInv, NEW t \in Threads, NEW d, OneMoves(t, d),
           NEW m \in build.nodes, NEW f, NEW k, Looks(t, d, m, f, k)
    PROVE  QInv'
<1>0. /\ d \in Seq(AllLabels) /\ Loose(d) /\ Loose(code[t]) /\ Serving(d) /\ Serving(code[t])
      /\ m = at[t] /\ at'[t] = at[t] /\ UNCHANGED <<slot, index>>
      /\ f \in [last : Nat, todo : Nat, pos : Nat, stop : BOOLEAN]
      /\ local' = [local EXCEPT ![t] = f] /\ f.pos = local[t].pos
      /\ k \in 0 .. MaxCount /\ count' = [count EXCEPT ![m] = k]
      /\ k >= count[m] \/ k >= offer.capacity
      /\ f.stop => /\ k >= flush.limit
                   /\ \A i, w \in Nat :
                          w >= 1 /\ i + w <= count[m] /\ i < flush.limit => i < f.todo
  BY DEF Looks
<1>1. \A u \in Threads : \A n : Serves(u, n)' <=> Serves(u, n)
  BY <1>0, SameServers
<1>2. /\ \A u \in Threads : \A n : Writes(u, n)' <=> Writes(u, n)
      /\ \A u \in Threads : \A n : Writes(u, n) =>
             u # t /\ Width(u)' = Width(u) /\ index'[u] = index[u]
      /\ \A u \in Threads : At(u, "mark")' => u # t /\ At(u, "mark") /\ index'[u] = index[u]
  BY <1>0, SameWriters
<1>3. /\ build' = build /\ MaxCount' = MaxCount /\ offer' = offer /\ flush' = flush /\ Slots' = Slots
      /\ \A i : TooFar(i)' <=> TooFar(i)
  BY <1>0, SameBuildSameQueue DEF OneMoves
<1>4. /\ local'[t] = f /\ \A u \in Threads \ {t} : local'[u] = local[u]
      /\ count'[m] = k /\ \A n \in build.nodes : n # m => count'[n] = count[n]
      /\ \A n \in build.nodes : count[n] \in Nat
  BY <1>0 DEF QInv, QueueTypeOK, MaxCount, QueueFacts
<1>5. \A u \in Threads : Serves(u, m) <=> u = t
  BY <1>0, OneServer DEF Serves, QInv
<1>6. \A u \in Threads : local'[u].pos = local[u].pos
  BY <1>0, <1>4
<1>7. \A n, i : Entered(n, i)' <=> Entered(n, i)
  BY <1>0, <1>3 DEF Entered, Empty
<1>8. ASSUME NEW n \in build.nodes, NEW i \in Nat, NEW w \in Nat, Reached(n, i, w)
      PROVE  Reached(n, i, w)'
  <2>1. CASE n # m
    <3>1. \A u \in Threads : Serves(u, n) => local'[u] = local[u]
      BY <1>0, <1>4, <2>1 DEF Serves
    <3>2. QED
      BY <1>0, <1>1, <1>3, <1>4, <1>8, <2>1, <3>1 DEF Reached
  <2>2. CASE n = m
    <3>1. w >= 1 /\ i + w <= count[m] /\ i + w <= offer.capacity /\ i < flush.limit
      BY <1>0, <1>8, <2>2 DEF Reached
    <3>2. i + w <= k
      BY <1>0, <1>4, <3>1 DEF QueueFacts, MaxCount
    <3>3. f.stop => i < f.todo
      BY <1>0, <3>1
    <3>4. QED
      BY <1>0, <1>1, <1>3, <1>4, <1>5, <2>2, <3>1, <3>2, <3>3 DEF Reached
  <2>3. QED
    BY <1>0, <2>1, <2>2
<1>9. \A n, i : Ahead(n, i)' <=> Ahead(n, i)
  BY <1>0, <1>1, <1>6 DEF Ahead
<1>10. (EntriesApart /\ EntriesWritesApart /\ WritesApart)'
  BY <1>0, <1>2, <1>3, <1>7, ShrinkingStaysApart DEF Shrinks, QInv
<1>11. EntriesOK'
  <2>1. ASSUME NEW n \in build.nodes, NEW i \in Slots, Entered(n, i)
        PROVE  /\ Reached(n, i, slot[n][i].size)'
               /\ slot[n][i].by # NULL \/ ~flush.clearsAtEnd => Ahead(n, i)'
               /\ slot[n][i].by # NULL => slot[n][i].size \in offer.sizes
               /\ slot[n][i].by = NULL /\ ~flush.clearsAtEnd => i + slot[n][i].size = offer.capacity
    <3>1. i \in Nat /\ slot[n][i].size \in Nat
      BY <1>0, SlotTyped DEF QInv
    <3>2. Reached(n, i, slot[n][i].size)'
      BY <1>0, <1>8, <2>1, <3>1 DEF QInv, EntriesOK
    <3>3. QED
      BY <1>0, <1>9, <2>1, <3>2 DEF QInv, EntriesOK
  <2>2. QED
    BY <1>0, <1>3, <1>7, <2>1 DEF EntriesOK
<1>12. WritesOK'
  <2>1. ASSUME NEW n \in build.nodes, NEW u \in Threads, Writes(u, n)
        PROVE  Reached(n, index[u], Width(u))' /\ Ahead(n, index[u])'
    <3>1. PICK w : w = Width(u)
      OBVIOUS
    <3>2. Reached(n, index[u], w) /\ Ahead(n, index[u])
      BY <1>0, <2>1, <3>1 DEF QInv, WritesOK
    <3>3. Width(u)' = w /\ index'[u] = index[u]
      BY <1>0, <1>2, <2>1, <3>1
    <3>4. index[u] \in Nat /\ w \in Nat
      <4>1. index[u] \in Nat /\ size[u] \in Nat
        BY <1>0 DEF QInv, QueueTypeOK
      <4>2. At(u, "publish") => w \in Nat
        BY <1>0, <3>1, <4>1 DEF Width
      <4>3. ~At(u, "publish") => index[u] < offer.capacity
        BY <1>0, <2>1 DEF Writes, QInv, QueueCodesOK
      <4>4. ~At(u, "publish") => w \in Nat
        BY <1>0, <3>1, <4>1, <4>3 DEF Width, QueueFacts
      <4>5. QED
        BY <1>0, <4>1, <4>2, <4>4
    <3>5. PICK j \in Nat : j = index[u]
      BY <1>0, <3>4
    <3>6. Reached(n, j, w)' /\ Ahead(n, j)'
      BY <1>0, <1>8, <1>9, <3>2, <3>4, <3>5
    <3>7. QED
      BY <1>0, <3>3, <3>5, <3>6
  <2>2. QED
    BY <1>0, <1>2, <1>3, <2>1 DEF WritesOK
<1>13. MarksOK'
  BY <1>0, <1>2, <1>3 DEF QInv, MarksOK, Empty
<1>14. ServingOK'
  <2>1. ASSUME NEW n \in build.nodes, NEW u \in Threads, Serves(u, n)
        PROVE  /\ local'[u].pos <= count'[n] /\ local'[u].pos <= offer.capacity
               /\ local'[u].stop => count'[n] >= flush.limit
    <3>1. CASE n # m
      BY <1>0, <1>4, <2>1, <3>1 DEF Serves, QInv, ServingOK
    <3>2. CASE n = m
      BY SMTT(30), <1>0, <1>4, <1>5, <2>1, <3>2 DEF QInv, ServingOK, QueueFacts, MaxCount
    <3>3. QED
      BY <1>0, <3>1, <3>2
  <2>2. QED
    BY <1>0, <1>1, <1>3, <2>1 DEF ServingOK
<1>15. UnservedOK'
  <2>1. ASSUME NEW n \in build.nodes, \A u \in Threads : ~Serves(u, n)
        PROVE  Refuses(n)'
    BY <1>0, <1>3, <1>4, <1>5, <2>1 DEF QInv, UnservedOK, Refuses
  <2>2. QED
    BY <1>0, <1>1, <1>3, <2>1 DEF UnservedOK
<1>16. QueueTypeOK'
  BY <1>0, <1>3 DEF QInv, QueueTypeOK, OneMoves
<1>17. QueueCodesOK'
  BY <1>0, <1>2, <1>4, MovedCodes DEF QInv
<1>18. QED
  BY <1>0, <1>10, <1>11, <1>12, <1>13, <1>14, <1>15, <1>16, <1>17 DEF QInv

LEMMA ClosingQueue ==
    ASSUME NEW c \in Seq(AllLabels), QueueCode(c), Loose(c)
    PROVE  /\ QueueCode(Closing \o c) /\ Loose(Closing \o c) /\ Closing \o c \in Seq(AllLabels)
           /\ Serving(Closing \o c) <=> Serving(c)
<1>1. Gate.in # "close" /\ NodeGate.in # "close" /\ "close" \in AllLabels
  BY DEF Gate, NodeGate, AllLabels, MutexLabels
<1>2. CASE flush.setsFlag
  BY <1>1, <1>2, QueuePrefix, Prepended DEF Closing
<1>3. CASE ~flush.setsFlag
  BY <1>3 DEF Closing
<1>4. QED
  BY <1>2, <1>3

(* What holds of a thread in its flush.                                     *)
LEMMA InTheFlush ==
    ASSUME IInv, QueueFacts, QInv, NEW t \in Threads, At(t, "flush") \/ At(t, "swap")
    PROVE  /\ code[t] # <<>> /\ code[t] \in Seq(AllLabels) /\ Tail(code[t]) \in Seq(AllLabels)
           /\ QueueCode(code[t]) /\ Loose(code[t]) /\ Serving(code[t])
           /\ QueueCode(Tail(code[t])) /\ Loose(Tail(code[t]))
           /\ At(t, "swap") => Serving(Tail(code[t]))
           /\ At(t, "flush") => ~Serving(Tail(code[t]))
           /\ at[t] \in build.nodes /\ Serves(t, at[t]) /\ count[at[t]] \in 0 .. MaxCount
           /\ local[t] \in [last : Nat, todo : Nat, pos : Nat, stop : BOOLEAN]
           /\ local[t].stop => count[at[t]] >= flush.limit
           /\ local[t].pos <= count[at[t]] /\ local[t].pos <= offer.capacity
<1>1. code[t] # <<>> /\ Head(code[t]) \in {"flush", "swap"}
  BY DEF At
<1>2. code[t] \in Seq(AllLabels) /\ QueueCode(code[t])
  BY CodesAreWords DEF QInv, QueueCodesOK
<1>3. at[t] \in build.nodes
  BY <1>1, NodeOf
<1>4. /\ QueueCode(Tail(code[t])) /\ Loose(Tail(code[t])) /\ Serving(code[t])
      /\ Head(code[t]) \notin {"open", "flush"} => (Serving(Tail(code[t])) <=> Serving(code[t]))
      /\ Head(code[t]) = "flush" => ~Serving(Tail(code[t]))
      /\ Head(code[t]) \notin {"publish", "mark"} => Loose(code[t])
  BY <1>1, <1>2, QueueTail
<1>5. Serves(t, at[t])
  BY <1>4 DEF Serves
<1>6. /\ local[t].stop => count[at[t]] >= flush.limit
      /\ local[t].pos <= count[at[t]] /\ local[t].pos <= offer.capacity
  BY <1>3, <1>5 DEF QInv, ServingOK
<1>7. count[at[t]] \in 0 .. MaxCount /\ local[t] \in [last : Nat, todo : Nat, pos : Nat, stop : BOOLEAN]
  BY <1>3 DEF QInv, QueueTypeOK
<1>8. Tail(code[t]) \in Seq(AllLabels)
  BY <1>1, <1>2, TailIs
<1>9. QED
  BY <1>1, <1>2, <1>3, <1>4, <1>5, <1>6, <1>7, <1>8 DEF At

LEMMA FollowsKeeps ==
    ASSUME IInv, IInv', WordsOK', ~Posts, QueueFacts, QInv, NEW t \in Threads,
           At(t, "flush") \/ At(t, "swap"), NEW r \in Seq(AllLabels), QueueCode(r), Loose(r),
           Serving(r), FlushFollows(t, r), UNCHANGED <<build, line, count, slot, index>>
    PROVE  QInv'
<1>1. /\ code[t] # <<>> /\ Loose(code[t]) /\ Serving(code[t]) /\ count[at[t]] \in 0 .. MaxCount
      /\ local[t] \in [last : Nat, todo : Nat, pos : Nat, stop : BOOLEAN]
      /\ local[t].stop => count[at[t]] >= flush.limit
  BY InTheFlush
<1>2. PICK m \in build.nodes : m = at[t]
  BY <1>1, NodeOf
<1>3. PICK k \in 0 .. MaxCount : k = count[m]
  BY <1>1, <1>2
<1>fun. local = [u \in Threads |-> local[u]]
  BY DEF QInv, QueueTypeOK
<1>4. count' = [count EXCEPT ![m] = k] /\ k \in Nat /\ flush.limit \in Nat /\ k >= count[m]
  BY <1>3 DEF QInv, QueueTypeOK, QueueFacts, MaxCount
<1>same. UNCHANGED <<slot, index>>
  OBVIOUS
<1>5. PICK d : /\ Go(t, d) /\ QueueCode(d) /\ Loose(d) /\ Serving(d)
               /\ d \in {r, Closing \o r}
  BY ClosingQueue DEF FlushFollows
<1>6. d # <<>>
  BY <1>5, NothingLeft DEF Serving
<1>7. OneMoves(t, d) /\ d \in Seq(AllLabels) /\ at'[t] = at[t]
  BY <1>1, <1>5, <1>6, GoMovesOne
<1>8. CASE k >= flush.limit
  <2> DEFINE f == [local[t] EXCEPT !.todo = flush.limit, !.stop = TRUE]
  <2>1. local' = [local EXCEPT ![t] = f]
    BY <1>fun, <1>2, <1>3, <1>4, <1>8 DEF FlushFollows
  <2>2. f \in [last : Nat, todo : Nat, pos : Nat, stop : BOOLEAN] /\ f.pos = local[t].pos
        /\ f.todo = flush.limit
    BY <1>1, <1>4
  <2> HIDE DEF f
  <2>3. Looks(t, d, m, f, k)
    BY <1>1, <1>2, <1>3, <1>4, <1>5, <1>7, <1>8, <1>same, <2>1, <2>2 DEF Looks
  <2>4. QED
    BY <1>7, <2>3, FlushLooks
<1>9. CASE k < flush.limit
  <2> DEFINE f == [local[t] EXCEPT !.todo = k, !.last = k]
  <2>1. local' = [local EXCEPT ![t] = f]
    BY <1>fun, <1>2, <1>3, <1>4, <1>9 DEF FlushFollows
  <2>2. f \in [last : Nat, todo : Nat, pos : Nat, stop : BOOLEAN] /\ f.pos = local[t].pos
        /\ f.stop = local[t].stop
    BY <1>1, <1>4
  <2>3. ~f.stop
    BY <1>1, <1>2, <1>3, <1>4, <1>9, <2>2
  <2> HIDE DEF f
  <2>4. Looks(t, d, m, f, k)
    BY <1>1, <1>2, <1>3, <1>4, <1>5, <1>7, <1>9, <1>same, <2>1, <2>2, <2>3 DEF Looks
  <2>5. QED
    BY <1>7, <2>4, FlushLooks
<1>10. QED
  BY <1>4, <1>8, <1>9

LEMMA FlushLoadsKeeps ==
    ASSUME IInv, IInv', WordsOK', ~Posts, QueueFacts, QInv, NEW t \in Threads, line' = line,
           FlushLoads(t) \/ FlushSwapFails(t)
    PROVE  QInv'
<1>1. At(t, "flush") \/ At(t, "swap")
  BY DEF FlushLoads, FlushSwapFails
<1>2. /\ code[t] # <<>> /\ code[t] \in Seq(AllLabels) /\ Tail(code[t]) \in Seq(AllLabels)
      /\ QueueCode(code[t]) /\ Loose(code[t]) /\ Serving(code[t])
      /\ QueueCode(Tail(code[t])) /\ Loose(Tail(code[t]))
      /\ At(t, "swap") => Serving(Tail(code[t]))
  BY <1>1, InTheFlush
<1>3. UNCHANGED <<build, line, count, slot, index>>
  BY DEF FlushLoads, FlushSwapFails, queueVars
<1>4. CASE FlushSwapFails(t)
  BY <1>1, <1>2, <1>3, <1>4, FollowsKeeps DEF FlushSwapFails, Rest
<1>5. CASE FlushLoads(t) /\ FlushFollows(t, code[t])
  BY <1>1, <1>2, <1>3, <1>5, FollowsKeeps
<1>6. CASE Go(t, <<"swap">> \o code[t]) /\ UNCHANGED local
  <2>1. Gate.in # "swap" /\ NodeGate.in # "swap" /\ "swap" \in AllLabels
    BY DEF Gate, NodeGate, AllLabels, MutexLabels
  <2>2. PICK d : d = <<"swap">> \o code[t]
    OBVIOUS
  <2>3. QueueCode(d) /\ Loose(d) /\ Serving(d) /\ d # <<>>
    BY <1>2, <2>1, <2>2, QueuePrefix, Prepended
  <2>4. OneMoves(t, d) /\ d \in Seq(AllLabels) /\ at'[t] = at[t]
    BY <1>2, <1>3, <1>6, <2>2, <2>3, GoMovesOne
  <2>5. QED
    BY <1>2, <1>3, <1>6, <2>3, <2>4, QueueIsLeft
<1>7. QED
  BY <1>4, <1>5, <1>6 DEF FlushLoads

LEMMA FlushSwapsKeeps ==
    ASSUME IInv, IInv', WordsOK', ~Posts, QueueFacts, QInv, NEW t \in Threads, line' = line,
           FlushSwaps(t)
    PROVE  QInv'
<1>1. At(t, "swap") /\ Go(t, Closing \o Tail(code[t])) /\ UNCHANGED <<build, slot, index>>
  BY DEF FlushSwaps, Rest
<1>2. /\ code[t] # <<>> /\ Tail(code[t]) \in Seq(AllLabels) /\ Loose(code[t]) /\ Serving(code[t])
      /\ QueueCode(Tail(code[t])) /\ Loose(Tail(code[t])) /\ Serving(Tail(code[t]))
      /\ count[at[t]] \in 0 .. MaxCount
      /\ local[t] \in [last : Nat, todo : Nat, pos : Nat, stop : BOOLEAN]
  BY <1>1, InTheFlush
<1>3. PICK m \in build.nodes : m = at[t]
  BY <1>2, NodeOf
<1>4. PICK d : d = Closing \o Tail(code[t])
  OBVIOUS
<1>5. QueueCode(d) /\ Loose(d) /\ Serving(d)
  BY <1>2, <1>4, ClosingQueue
<1>6. d # <<>>
  BY <1>5, NothingLeft DEF Serving
<1>7. OneMoves(t, d) /\ d \in Seq(AllLabels) /\ at'[t] = at[t]
  BY <1>1, <1>2, <1>4, <1>5, <1>6, GoMovesOne
<1>8. /\ flush.swapTo \in 0 .. MaxCount /\ flush.swapTo >= offer.capacity
      /\ flush.swapTo >= flush.limit /\ flush.limit \in Nat /\ count[m] \in Nat
  BY <1>2, <1>3 DEF QueueFacts, MaxCount
<1>9. PICK k \in 0 .. MaxCount : k = flush.swapTo
  BY <1>8
<1>10. PICK todo \in Nat :
           /\ todo = IF flush.clamps THEN Lesser(count[at[t]], flush.limit) ELSE count[at[t]]
           /\ \A i, w \in Nat : w >= 1 /\ i + w <= count[m] /\ i < flush.limit => i < todo
  BY <1>3, <1>8 DEF Lesser
<1> DEFINE f == [local[t] EXCEPT !.stop = TRUE, !.todo = todo]
<1>11. local' = [local EXCEPT ![t] = f]
  BY <1>10 DEF FlushSwaps, QInv, QueueTypeOK
<1>12. f \in [last : Nat, todo : Nat, pos : Nat, stop : BOOLEAN] /\ f.pos = local[t].pos
       /\ f.todo = todo
  BY <1>2
<1> HIDE DEF f
<1>13. count' = [count EXCEPT ![m] = k]
  BY <1>3, <1>9 DEF FlushSwaps
<1>14. Looks(t, d, m, f, k)
  BY <1>1, <1>2, <1>3, <1>5, <1>7, <1>8, <1>9, <1>10, <1>11, <1>12, <1>13 DEF Looks
<1>15. QED
  BY <1>7, <1>14, FlushLooks

(* The flush of m is over: nothing is left in the queue, nor can be.        *)
Quits(t, d, m) ==
    /\ d \in Seq(AllLabels) /\ Loose(d) /\ Loose(code[t]) /\ ~Serving(d) /\ Serving(code[t])
    /\ m = at[t] /\ UNCHANGED <<count, index>>
    /\ local' = [local EXCEPT ![t] = NotFlushing(build)]
    /\ slot' \in [build.nodes -> [Slots -> [by : Threads \cup {NULL}, size : Nat]]]
    /\ \A n \in build.nodes \ {m} : slot'[n] = slot[n]
    /\ \A i \in Slots : ~Entered(m, i)'
    /\ \A i \in Slots : offer.keepsMark /\ slot'[m][i] # Empty /\ slot'[m][i].by = NULL => TooFar(i)
    /\ \A u \in Threads : ~Writes(u, m)
    /\ Refuses(m)

LEMMA FlushQuits ==
    ASSUME IInv, ~Posts, QueueFacts, QInv, NEW t \in Threads, NEW d, OneMoves(t, d),
           NEW m \in build.nodes, Quits(t, d, m)
    PROVE  QInv'
<1>0. /\ d \in Seq(AllLabels) /\ Loose(d) /\ Loose(code[t]) /\ ~Serving(d) /\ Serving(code[t])
      /\ m = at[t] /\ UNCHANGED <<count, index>>
      /\ local' = [local EXCEPT ![t] = NotFlushing(build)]
      /\ slot' \in [build.nodes -> [Slots -> [by : Threads \cup {NULL}, size : Nat]]]
      /\ \A n \in build.nodes \ {m} : slot'[n] = slot[n]
      /\ \A i \in Slots : ~Entered(m, i)'
      /\ \A i \in Slots : offer.keepsMark /\ slot'[m][i] # Empty /\ slot'[m][i].by = NULL => TooFar(i)
      /\ \A u \in Threads : ~Writes(u, m)
      /\ Refuses(m)
  BY DEF Quits
<1>1. code'[t] = d /\ \A u \in Threads \ {t} : code'[u] = code[u]
  BY MovedCode
<1>2. /\ \A u \in Threads : \A n : Writes(u, n)' <=> Writes(u, n)
      /\ \A u \in Threads : \A n : Writes(u, n) =>
             u # t /\ Width(u)' = Width(u) /\ index'[u] = index[u]
      /\ \A u \in Threads : At(u, "mark")' => u # t /\ At(u, "mark") /\ index'[u] = index[u]
  BY <1>0, SameWriters
<1>3. /\ build' = build /\ MaxCount' = MaxCount /\ offer' = offer /\ flush' = flush /\ Slots' = Slots
      /\ \A i : TooFar(i)' <=> TooFar(i)
  BY SameBuildSameQueue DEF OneMoves
<1>4. /\ local'[t] = NotFlushing(build)
      /\ \A u \in Threads \ {t} : local'[u] = local[u]
  BY <1>0 DEF QInv, QueueTypeOK
<1>5. \A u \in Threads : Serves(u, m) <=> u = t
  BY <1>0, OneServer DEF Serves, QInv
<1>6. \A u \in Threads : \A n : Serves(u, n)' <=> Serves(u, n) /\ u # t
  BY <1>0, <1>1 DEF Serves, Serving, OneMoves
<1>7. ASSUME NEW n \in build.nodes, NEW u \in Threads, Serves(u, n), n # m
      PROVE  u # t
  BY <1>0, <1>7 DEF Serves
<1>8. ASSUME NEW n \in build.nodes, n # m
      PROVE  /\ \A u \in Threads : Serves(u, n)' <=> Serves(u, n)
             /\ \A u \in Threads : Serves(u, n) => local'[u] = local[u]
             /\ \A i \in Slots : Entered(n, i)' <=> Entered(n, i)
             /\ \A i, w : Reached(n, i, w)' <=> Reached(n, i, w)
             /\ \A i : Ahead(n, i)' <=> Ahead(n, i)
  <2>1. \A u \in Threads : Serves(u, n)' <=> Serves(u, n)
    BY <1>6, <1>7, <1>8
  <2>2. \A u \in Threads : Serves(u, n) => local'[u] = local[u]
    BY <1>4, <1>7, <1>8
  <2>3. \A i \in Slots : Entered(n, i)' <=> Entered(n, i)
    BY <1>0, <1>3, <1>8 DEF Entered, Empty
  <2>4. \A i, w : Reached(n, i, w)' <=> Reached(n, i, w)
    BY <1>0, <1>3, <2>1, <2>2 DEF Reached
  <2>5. \A i : Ahead(n, i)' <=> Ahead(n, i)
    BY <2>1, <2>2 DEF Ahead
  <2>6. QED
    BY <2>1, <2>2, <2>3, <2>4, <2>5
<1>9. (EntriesApart /\ EntriesWritesApart /\ WritesApart)'
  <2>1. Shrinks
    BY <1>0, <1>2, <1>8 DEF Shrinks
  <2>2. QED
    BY <1>3, <2>1, ShrinkingStaysApart DEF QInv
<1>10. EntriesOK'
  <2>1. ASSUME NEW n \in build.nodes, NEW i \in Slots, Entered(n, i)'
        PROVE  /\ Reached(n, i, slot[n][i].size)'
               /\ slot'[n][i].by # NULL \/ ~flush.clearsAtEnd => Ahead(n, i)'
               /\ slot'[n][i].by # NULL => slot'[n][i].size \in offer.sizes
               /\ slot'[n][i].by = NULL /\ ~flush.clearsAtEnd => i + slot'[n][i].size = offer.capacity
    <3>1. n # m
      BY <1>0, <2>1
    <3>2. Entered(n, i) /\ slot'[n] = slot[n]
      BY <1>0, <1>8, <2>1, <3>1
    <3>3. Reached(n, i, slot[n][i].size)'
      BY <1>8, <3>1, <3>2 DEF QInv, EntriesOK
    <3>4. QED
      BY <1>8, <3>1, <3>2, <3>3 DEF QInv, EntriesOK
  <2>2. QED
    BY <1>3, <2>1 DEF EntriesOK
<1>11. WritesOK'
  <2>1. ASSUME NEW n \in build.nodes, NEW u \in Threads, Writes(u, n)
        PROVE  Reached(n, index[u], Width(u))' /\ Ahead(n, index[u])'
    BY <1>0, <1>2, <1>8, <2>1 DEF QInv, WritesOK
  <2>2. QED
    BY <1>2, <1>3, <2>1 DEF WritesOK
<1>12. MarksOK'
  <2>1. ASSUME offer.keepsMark, NEW n \in build.nodes, NEW i \in Slots, slot'[n][i] # Empty,
               slot'[n][i].by = NULL
        PROVE  TooFar(i)
    <3>1. CASE n = m
      BY <1>0, <2>1, <3>1
    <3>2. CASE n # m
      BY <1>0, <2>1, <3>2 DEF QInv, MarksOK
    <3>3. QED
      BY <3>1, <3>2
  <2>2. offer.keepsMark => \A u \in Threads : At(u, "mark")' => TooFar(index'[u])
    BY <1>2 DEF QInv, MarksOK
  <2>3. QED
    BY <1>3, <2>1, <2>2 DEF MarksOK, Empty
<1>13. ServingOK'
  <2>1. ASSUME NEW n \in build.nodes, NEW u \in Threads, Serves(u, n)'
        PROVE  /\ local'[u].pos <= count'[n] /\ local'[u].pos <= offer.capacity
               /\ local'[u].stop => count'[n] >= flush.limit
    BY <1>0, <1>4, <1>6, <2>1 DEF QInv, ServingOK
  <2>2. QED
    BY <1>3, <2>1 DEF ServingOK
<1>14. UnservedOK'
  <2>1. ASSUME NEW n \in build.nodes, \A u \in Threads : ~Serves(u, n)'
        PROVE  Refuses(n)'
    <3>1. CASE n = m
      BY <1>0, <1>3, <3>1 DEF Refuses
    <3>2. CASE n # m
      BY <1>0, <1>3, <1>8, <2>1, <3>2 DEF QInv, UnservedOK, Refuses
    <3>3. QED
      BY <3>1, <3>2
  <2>2. QED
    BY <1>3, <2>1 DEF UnservedOK
<1>15. QueueTypeOK'
  <2>1. NotFlushing(build) \in [last : Nat, todo : Nat, pos : Nat, stop : BOOLEAN]
    BY DEF QueueFacts, offer, NotFlushing
  <2>2. local' \in [Threads -> [last : Nat, todo : Nat, pos : Nat, stop : BOOLEAN]]
    BY <1>0, <2>1 DEF QInv, QueueTypeOK
  <2>3. QED
    BY <1>0, <1>3, <2>2 DEF QInv, QueueTypeOK, OneMoves
<1>16. QueueCodesOK'
  BY <1>0, <1>2, <1>4, MovedCodes DEF QInv
<1>17. QED
  BY <1>9, <1>10, <1>11, <1>12, <1>13, <1>14, <1>15, <1>16 DEF QInv

LEMMA FlushReturnsKeeps ==
    ASSUME IInv, IInv', WordsOK', ~Posts, QueueFacts, QInv, NEW t \in Threads, line' = line,
           FlushReturns(t)
    PROVE  QInv'
<1>1. /\ At(t, "flush") /\ Go(t, Tail(code[t])) /\ UNCHANGED <<build, count, index>>
      /\ local' = [local EXCEPT ![t] = NotFlushing(build)]
      /\ local[t].pos >= local[t].todo /\ local[t].stop
  BY DEF FlushReturns, Rest
<1>2. /\ code[t] # <<>> /\ Tail(code[t]) \in Seq(AllLabels) /\ Loose(code[t]) /\ Serving(code[t])
      /\ QueueCode(Tail(code[t])) /\ Loose(Tail(code[t])) /\ ~Serving(Tail(code[t]))
      /\ local[t] \in [last : Nat, todo : Nat, pos : Nat, stop : BOOLEAN]
      /\ count[at[t]] >= flush.limit
  BY <1>1, InTheFlush
<1>3. PICK m \in build.nodes : m = at[t]
  BY <1>2, NodeOf
<1>4. PICK d : d = Tail(code[t])
  OBVIOUS
<1>5. OneMoves(t, d)
  BY <1>1, <1>2, <1>4, GoMovesOne
<1>6. PICK todo \in Nat : todo = local[t].todo
  BY <1>2
<1>7. Serves(t, m)
  BY <1>2, <1>3 DEF Serves
<1>8. \A i \in Nat : \A w : Reached(m, i, w) => i < todo /\ ~Ahead(m, i)
  BY <1>1, <1>2, <1>6, <1>7 DEF Reached, Ahead
<1>9. \A u \in Threads : ~Writes(u, m)
  BY <1>8 DEF QInv, QueueTypeOK, WritesOK
<1>10. \A i \in Slots : Entered(m, i) => i < todo /\ flush.clearsAtEnd
  BY <1>8, SlotTyped DEF QInv, EntriesOK
<1>11. \A i \in Slots : i < todo /\ flush.clearsAtEnd => slot'[m][i] = Empty
  <2>1. SUFFICES ASSUME flush.clearsAtEnd
                 PROVE  \A i \in Slots : i < todo => slot'[m][i] = Empty
    OBVIOUS
  <2>2. slot' = [slot EXCEPT ![m] = [i \in Slots |-> IF i < todo THEN Empty ELSE @[i]]]
    BY <1>3, <1>6, <2>1 DEF FlushReturns
  <2>3. slot = [n \in build.nodes |-> slot[n]]
    BY DEF QInv, QueueTypeOK
  <2>4. slot'[m] = [i \in Slots |-> IF i < todo THEN Empty ELSE slot[m][i]]
    BY <2>2, <2>3
  <2>5. QED
    BY <2>4
<1>12. /\ \A n \in build.nodes \ {m} : slot'[n] = slot[n]
       /\ \A i \in Slots : slot'[m][i] = Empty \/ slot'[m][i] = slot[m][i]
       /\ slot' \in [build.nodes -> [Slots -> [by : Threads \cup {NULL}, size : Nat]]]
  <2>1. CASE ~flush.clearsAtEnd
    BY <2>1 DEF FlushReturns, QInv, QueueTypeOK
  <2>2. CASE flush.clearsAtEnd
    BY <1>3, <1>6, <2>2 DEF FlushReturns, QInv, QueueTypeOK, Empty
  <2>3. QED
    BY <2>1, <2>2
<1>13. offer' = offer
  BY <1>1 DEF offer
<1>14. \A i \in Slots : ~Entered(m, i)'
  <2>1. ASSUME NEW i \in Slots, Entered(m, i)'
        PROVE  FALSE
    BY <1>10, <1>11, <1>12, <1>13, <2>1 DEF Entered, Empty
  <2>2. QED
    BY <2>1
<1>15. \A i \in Slots : offer.keepsMark /\ slot'[m][i] # Empty /\ slot'[m][i].by = NULL => TooFar(i)
  BY <1>12 DEF QInv, MarksOK
<1>16. Refuses(m)
  <2>1. count[m] \in Nat
    BY DEF QInv, QueueTypeOK
  <2>2. QED
    BY SMTT(30), <1>2, <1>3, <2>1 DEF Refuses, TooFar, QueueFacts
<1>17. Quits(t, d, m)
  BY <1>1, <1>2, <1>3, <1>4, <1>9, <1>12, <1>14, <1>15, <1>16 DEF Quits
<1>18. QED
  BY <1>5, <1>17, FlushQuits

(* A mark that ends the flush.                                              *)
LEMMA FlushEnds ==
    ASSUME IInv, IInv', WordsOK', ~Posts, QueueFacts, QInv, NEW t \in Threads, line' = line,
           FlushRuns(t), NEW m \in build.nodes, m = at[t], NEW p \in Slots, p = local[t].pos,
           offer.endMark, slot[m][p].by = NULL
    PROVE  QInv'
<1>1. /\ At(t, "flush") /\ Go(t, Tail(code[t])) /\ UNCHANGED <<build, count, index>>
      /\ local' = [local EXCEPT ![t] = NotFlushing(build)]
      /\ slot[m][p] # Empty
  BY DEF FlushRuns, Rest
<1>2. /\ code[t] # <<>> /\ Tail(code[t]) \in Seq(AllLabels) /\ Loose(code[t]) /\ Serving(code[t])
      /\ QueueCode(Tail(code[t])) /\ Loose(Tail(code[t])) /\ ~Serving(Tail(code[t]))
      /\ p <= count[m]
  BY <1>1, InTheFlush
<1>3. PICK d : d = Tail(code[t])
  OBVIOUS
<1>4. OneMoves(t, d)
  BY <1>1, <1>2, <1>3, GoMovesOne
<1>5. Serves(t, m)
  BY <1>2 DEF Serves
<1>6. /\ \A i \in Nat : Ahead(m, i) => p <= i
      /\ p \in Nat /\ p < offer.capacity /\ offer.capacity \in Nat /\ count[m] \in Nat
      /\ ~flush.clearsAtEnd /\ offer.sizes \subseteq Nat \ {0}
      /\ offer.marksBelow \in Nat /\ offer.marksBelow <= offer.capacity
  BY <1>5, SlotTyped DEF Ahead, QInv, QueueTypeOK, QueueFacts
<1>7. /\ slot \in [build.nodes -> [Slots -> [by : Threads \cup {NULL}, size : Nat]]]
      /\ Empty \in [by : Threads \cup {NULL}, size : Nat]
  BY DEF QInv, QueueTypeOK, Empty
<1>8. /\ slot' = slot \/ slot' = [slot EXCEPT ![m][p] = Empty]
      /\ offer.keepsMark => slot' = slot
      /\ ~offer.keepsMark => slot' = [slot EXCEPT ![m][p] = Empty]
  BY <1>6, <1>7 DEF FlushRuns
<1>9. /\ slot' \in [build.nodes -> [Slots -> [by : Threads \cup {NULL}, size : Nat]]]
      /\ \A n \in build.nodes \ {m} : slot'[n] = slot[n]
      /\ \A i \in Slots : i # p => slot'[m][i] = slot[m][i]
      /\ ~offer.keepsMark => slot'[m][p] = Empty
      /\ offer.keepsMark => slot' = slot
  <2>1. CASE offer.keepsMark
    BY <1>7, <1>8, <2>1
  <2>2. CASE ~offer.keepsMark
    <3>1. slot' = [slot EXCEPT ![m][p] = Empty]
      BY <1>8, <2>2
    <3>2. QED
      BY <1>7, <2>2, <3>1
  <2>3. QED
    BY <2>1, <2>2
<1>10. \A u \in Threads : index[u] \in Nat /\ size[u] \in Nat
  BY DEF QInv, QueueTypeOK
<1>11. CASE offer.keepsMark
  <2>1. TooFar(p)
    BY <1>1, <1>11 DEF QInv, MarksOK
  <2>2. \A i \in Nat : p <= i => \A s \in offer.sizes : i + s > offer.capacity
    BY <1>6, <2>1 DEF TooFar
  <2>3. ASSUME NEW i \in Slots, Entered(m, i)
        PROVE  FALSE
    BY <1>6, <1>11, <2>2, <2>3, SlotTyped DEF QInv, EntriesOK, Reached, Entered
  <2>4. ASSUME NEW u \in Threads, Writes(u, m)
        PROVE  FALSE
    BY <1>6, <1>10, <1>11, <2>2, <2>4 DEF Writes, QInv, QueueCodesOK, At, Width, WritesOK, Reached
  <2>5. TooFar(count[m])
    BY <1>2, <1>6, <2>2 DEF TooFar
  <2>6. Refuses(m)
    BY <1>11, <2>5 DEF Refuses
  <2>7. \A i \in Slots : ~Entered(m, i)'
    BY <1>1, <1>9, <1>11, <2>3 DEF Entered, Empty, offer
  <2>8. \A i \in Slots : slot'[m][i] # Empty /\ slot'[m][i].by = NULL => TooFar(i)
    BY <1>9, <1>11 DEF QInv, MarksOK
  <2>9. Quits(t, d, m)
    BY <1>1, <1>2, <1>3, <1>9, <2>4, <2>6, <2>7, <2>8 DEF Quits
  <2>10. QED
    BY <1>4, <2>9, FlushQuits
<1>12. CASE ~offer.keepsMark
  <2>1. Entered(m, p)
    BY <1>1, <1>12 DEF Entered
  <2>2. PICK w \in Nat : w = slot[m][p].size
    BY SlotTyped DEF QInv
  <2>3. p + w = offer.capacity /\ p + w <= count[m]
    BY <1>6, <2>1, <2>2 DEF QInv, EntriesOK, Reached
  <2>4. ASSUME NEW i \in Slots, Entered(m, i), i # p
        PROVE  FALSE
    BY <1>6, <2>1, <2>2, <2>3, <2>4, SlotTyped DEF QInv, EntriesOK, Reached, EntriesApart, Apart
  <2>5. ASSUME NEW u \in Threads, Writes(u, m)
        PROVE  FALSE
    BY <1>6, <1>10, <2>1, <2>2, <2>3, <2>5 DEF QInv, WritesOK, Reached, EntriesWritesApart, Width,
       Apart
  <2>6. Refuses(m)
    BY <1>6, <2>3 DEF Refuses, TooFar, QueueFacts
  <2>7. \A i \in Slots : ~Entered(m, i)'
    BY <1>1, <1>9, <1>12, <2>4 DEF Entered, Empty, offer
  <2>8. Quits(t, d, m)
    BY <1>1, <1>2, <1>3, <1>9, <1>12, <2>5, <2>6, <2>7 DEF Quits
  <2>9. QED
    BY <1>4, <2>8, FlushQuits
<1>13. QED
  BY <1>11, <1>12

(* An entry that does not.                                                  *)
LEMMA FlushPasses ==
    ASSUME IInv, IInv', WordsOK', ~Posts, QueueFacts, QInv, NEW t \in Threads, line' = line,
           FlushRuns(t), NEW m \in build.nodes, m = at[t], NEW p \in Slots, p = local[t].pos,
           ~(offer.endMark /\ slot[m][p].by = NULL)
    PROVE  QInv'
<1>1. /\ At(t, "flush") /\ Go(t, code[t]) /\ UNCHANGED <<build, count, index>>
      /\ local' = [local EXCEPT ![t].pos = @ + slot[m][p].size]
      /\ slot[m][p] # Empty
      /\ slot' = [slot EXCEPT ![m][p] = IF flush.clearsAtEnd THEN [slot[m][p] EXCEPT !.by = NULL]
                                        ELSE Empty]
  BY DEF FlushRuns
<1>2. /\ code[t] # <<>> /\ code[t] \in Seq(AllLabels) /\ Loose(code[t]) /\ Serving(code[t])
      /\ QueueCode(code[t]) /\ local[t] \in [last : Nat, todo : Nat, pos : Nat, stop : BOOLEAN]
  BY <1>1, InTheFlush
<1>3. PICK d : d = code[t]
  OBVIOUS
<1>4. OneMoves(t, d) /\ at'[t] = at[t]
  BY <1>1, <1>2, <1>3, GoMovesOne
<1>5. Serves(t, m)
  BY <1>2 DEF Serves
<1>6. PICK w \in Nat : w = slot[m][p].size
  BY SlotTyped DEF QInv
<1>7. Entered(m, p)
  BY <1>1 DEF Entered, QueueFacts
<1>8. w >= 1 /\ p + w <= count[m] /\ p + w <= offer.capacity
  BY <1>6, <1>7 DEF QInv, EntriesOK, Reached
<1>9. PICK q \in Nat : q = p + w
  BY SlotTyped DEF QInv
<1>10. /\ local'[t] = [local[t] EXCEPT !.pos = q]
       /\ \A u \in Threads \ {t} : local'[u] = local[u]
       /\ local' \in [Threads -> [last : Nat, todo : Nat, pos : Nat, stop : BOOLEAN]]
  BY <1>1, <1>6, <1>9 DEF QInv, QueueTypeOK
<1>11. local'[t].pos = q /\ local'[t].todo = local[t].todo /\ local'[t].stop = local[t].stop
  BY <1>2, <1>10
<1>12. PICK e \in [by : {NULL}, size : Nat] :
           /\ slot' = [slot EXCEPT ![m][p] = e]
           /\ IF flush.clearsAtEnd THEN e.size = w ELSE e = Empty
  <2>1. CASE flush.clearsAtEnd
    <3>1. PICK x \in [by : Threads \cup {NULL}, size : Nat] : x = slot[m][p]
      BY DEF QInv, QueueTypeOK
    <3>2. [x EXCEPT !.by = NULL] \in [by : {NULL}, size : Nat] /\ [x EXCEPT !.by = NULL].size = w
      BY <1>6, <3>1
    <3>3. QED
      BY <1>1, <2>1, <3>1, <3>2
  <2>2. CASE ~flush.clearsAtEnd
    BY <1>1, <2>2 DEF Empty
  <2>3. QED
    BY <2>1, <2>2
<1>13. /\ slot' \in [build.nodes -> [Slots -> [by : Threads \cup {NULL}, size : Nat]]]
       /\ \A n \in build.nodes \ {m} : slot'[n] = slot[n]
       /\ \A i \in Slots : i # p => slot'[m][i] = slot[m][i]
       /\ slot'[m][p] = e
  BY <1>12 DEF QInv, QueueTypeOK
<1>14. \A u \in Threads : \A n : Serves(u, n)' <=> Serves(u, n)
  BY <1>2, <1>3, <1>4, SameServers
<1>15. /\ \A u \in Threads : \A n : Writes(u, n)' <=> Writes(u, n)
       /\ \A u \in Threads : \A n : Writes(u, n) =>
              u # t /\ Width(u)' = Width(u) /\ index'[u] = index[u]
       /\ \A u \in Threads : At(u, "mark")' => u # t /\ At(u, "mark") /\ index'[u] = index[u]
  BY <1>1, <1>2, <1>3, <1>4, SameWriters
<1>16. /\ MaxCount' = MaxCount /\ offer' = offer /\ flush' = flush /\ Slots' = Slots
       /\ \A i : TooFar(i)' <=> TooFar(i)
  BY <1>1, SameBuildSameQueue
<1>17. \A u \in Threads : Serves(u, m) <=> u = t
  BY <1>5, OneServer DEF QInv
<1>18. \A u \in Threads : local'[u].stop = local[u].stop /\ local'[u].todo = local[u].todo
  BY <1>10, <1>11
<1>19. \A n, i, v : Reached(n, i, v)' <=> Reached(n, i, v)
  BY <1>1, <1>14, <1>16, <1>18 DEF Reached
<1>20. \A n \in build.nodes : n # m => \A i : Ahead(n, i)' <=> Ahead(n, i)
  <2>1. \A n \in build.nodes : n # m => \A u \in Threads : Serves(u, n) => u # t
    BY DEF Serves
  <2>2. QED
    BY <1>10, <1>14, <2>1 DEF Ahead
<1>21. \A i : Ahead(m, i)' <=> q <= i
  BY <1>11, <1>14, <1>17 DEF Ahead
<1>22. \A i : Ahead(m, i) => p <= i
  BY <1>5 DEF Ahead
<1>23. p \in Nat
  BY SlotTyped DEF QInv
<1>24. ASSUME NEW n \in build.nodes, NEW i \in Slots, Entered(n, i)'
       PROVE  /\ Entered(n, i) /\ slot'[n][i].size = slot[n][i].size
              /\ n = m /\ i = p => flush.clearsAtEnd /\ slot'[n][i].by = NULL
              /\ n # m \/ i # p => slot'[n][i] = slot[n][i]
  <2>1. CASE n = m /\ i = p
    BY <1>6, <1>7, <1>12, <1>13, <1>24, <2>1 DEF Entered, Empty
  <2>2. CASE n # m \/ i # p
    BY SMTT(30), <1>13, <1>16, <1>24, <2>2 DEF Entered, Empty
  <2>3. QED
    BY <2>1, <2>2
<1>25. (EntriesApart /\ EntriesWritesApart /\ WritesApart)'
  BY SMTT(30), <1>1, <1>15, <1>24, ShrinkingStaysApart DEF Shrinks, QInv
<1>26. EntriesOK'
  <2>1. ASSUME NEW n \in build.nodes, NEW i \in Slots, Entered(n, i)'
        PROVE  /\ Reached(n, i, slot[n][i].size)'
               /\ slot'[n][i].by # NULL \/ ~flush.clearsAtEnd => Ahead(n, i)'
               /\ slot'[n][i].by # NULL => slot'[n][i].size \in offer.sizes
               /\ slot'[n][i].by = NULL /\ ~flush.clearsAtEnd => i + slot'[n][i].size = offer.capacity
    <3>1. Entered(n, i) /\ slot'[n][i].size = slot[n][i].size
      BY <1>24, <2>1
    <3>2. Reached(n, i, slot[n][i].size)'
      BY <1>19, <3>1 DEF QInv, EntriesOK
    <3>3. CASE n = m /\ i = p
      BY <1>24, <2>1, <3>2, <3>3
    <3>4. CASE n # m \/ i # p
      <4>1. slot'[n][i] = slot[n][i]
        BY <1>24, <2>1, <3>4
      <4>2. ASSUME Ahead(n, i)
            PROVE  Ahead(n, i)'
        <5>1. CASE n # m
          BY <1>20, <4>2, <5>1
        <5>2. CASE n = m
          <6>1. PICK v \in Nat : v = slot[m][i].size
            BY SlotTyped DEF QInv
          <6>2. v >= 1
            BY <3>1, <5>2, <6>1 DEF QInv, EntriesOK, Reached
          <6>3. Apart(p, w, i, v)
            BY <1>6, <1>7, <3>1, <3>4, <5>2, <6>1 DEF QInv, EntriesApart
          <6>4. p <= i /\ i \in Nat
            BY <1>22, <4>2, <5>2, SlotTyped DEF QInv
          <6>5. q <= i
            BY <1>8, <1>9, <1>23, <6>2, <6>3, <6>4, <3>4, <5>2 DEF Apart
          <6>6. QED
            BY <1>21, <5>2, <6>5
        <5>3. QED
          BY <5>1, <5>2
      <4>3. QED
        BY <3>1, <3>2, <4>1, <4>2 DEF QInv, EntriesOK
    <3>5. QED
      BY <3>3, <3>4
  <2>2. build' = build /\ Slots' = Slots /\ offer' = offer /\ flush' = flush
    BY <1>1, <1>16
  <2>3. QED
    BY <2>1, <2>2 DEF EntriesOK
<1>27. WritesOK'
  <2>1. ASSUME NEW n \in build.nodes, NEW u \in Threads, Writes(u, n)
        PROVE  Reached(n, index[u], Width(u))' /\ Ahead(n, index[u])'
    <3>1. PICK v, j : v = Width(u) /\ j = index[u]
      OBVIOUS
    <3>2. Reached(n, j, v) /\ Ahead(n, j)
      BY <2>1, <3>1 DEF QInv, WritesOK
    <3>3. Width(u)' = v /\ index'[u] = j
      BY <1>15, <2>1, <3>1
    <3>4. Ahead(n, j)'
      <4>1. CASE n # m
        BY <1>20, <3>2, <4>1
      <4>2. CASE n = m
        <5>1. Apart(p, w, j, v) /\ v >= 1 /\ p <= j
          BY <1>6, <1>7, <1>22, <2>1, <3>1, <3>2, <4>2 DEF QInv, EntriesWritesApart, Reached
        <5>2. j \in Nat /\ v \in Int
          BY <3>1 DEF QInv, QueueTypeOK, Width, QueueFacts
        <5>3. q <= j
          BY SMTT(30), <1>8, <1>9, <1>23, <5>1, <5>2 DEF Apart
        <5>4. QED
          BY <1>21, <4>2, <5>3
      <4>3. QED
        BY <4>1, <4>2
    <3>5. QED
      BY <1>19, <3>2, <3>3, <3>4
  <2>2. QED
    BY <1>1, <1>15, <2>1 DEF WritesOK
<1>28. MarksOK'
  <2>1. ASSUME offer.keepsMark, NEW n \in build.nodes, NEW i \in Slots, slot'[n][i] # Empty,
               slot'[n][i].by = NULL
        PROVE  TooFar(i)
    BY <1>12, <1>13, <2>1 DEF QueueFacts, QInv, MarksOK
  <2>2. offer.keepsMark => \A u \in Threads : At(u, "mark")' => TooFar(index'[u])
    BY SMTT(30), <1>15 DEF QInv, MarksOK
  <2>3. QED
    BY <1>1, <1>16, <2>1, <2>2 DEF MarksOK, Empty
<1>29. ServingOK'
  <2>1. ASSUME NEW n \in build.nodes, NEW u \in Threads, Serves(u, n)
        PROVE  /\ local'[u].pos <= count[n] /\ local'[u].pos <= offer.capacity
               /\ local'[u].stop => count[n] >= flush.limit
    <3>1. CASE u = t
      BY <1>8, <1>9, <1>11, <2>1, <3>1 DEF Serves, QInv, ServingOK
    <3>2. CASE u # t
      BY <1>10, <2>1, <3>2 DEF QInv, ServingOK
    <3>3. QED
      BY <3>1, <3>2
  <2>2. QED
    BY <1>1, <1>14, <1>16, <2>1 DEF ServingOK
<1>30. UnservedOK'
  BY SMTT(30), <1>1, <1>14, <1>16 DEF QInv, UnservedOK, Refuses
<1>31. QueueTypeOK'
  <2>1. build' = build /\ count' = count /\ index' = index
    BY <1>1
  <2>2. size' \in [Threads -> Nat]
    BY <1>4 DEF OneMoves
  <2>3. QED
    BY <1>10, <1>13, <1>16, <2>1, <2>2 DEF QInv, QueueTypeOK
<1>32. QueueCodesOK'
  BY Zenon, <1>1, <1>2, <1>3, <1>4, <1>10, <1>15, MovedCodes DEF QInv
<1>33. QED
  BY SMTT(30), <1>25, <1>26, <1>27, <1>28, <1>29, <1>30, <1>31, <1>32 DEF QInv

LEMMA FlushRunsKeeps ==
    ASSUME IInv, IInv', WordsOK', ~Posts, QueueFacts, QInv, NEW t \in Threads, line' = line,
           FlushRuns(t)
    PROVE  QInv'
<1>1. At(t, "flush") /\ local[t].pos \in Slots
  BY DEF FlushRuns
<1>2. PICK m \in build.nodes : m = at[t]
  BY <1>1, InTheFlush
<1>3. PICK p \in Slots : p = local[t].pos
  BY <1>1
<1>4. QED
  BY <1>2, <1>3, FlushEnds, FlushPasses

(* An offer adds to the count of m, that becomes k.                         *)
Grows(t, d, m, k) ==
    /\ d \in Seq(AllLabels) /\ Loose(code[t]) /\ ~Serving(d) /\ ~Serving(code[t])
    /\ UNCHANGED <<slot, local>>
    /\ k \in 0 .. MaxCount /\ count' = [count EXCEPT ![m] = k] /\ k >= count[m]
    /\ index' \in [Threads -> Nat] /\ \A u \in Threads \ {t} : index'[u] = index[u]
    /\ At(t, "mark")' => index'[t] < offer.capacity /\ (offer.keepsMark => TooFar(index'[t]))
    /\ \A n : Writes(t, n)' =>
           /\ n = m /\ index'[t] = count[m] /\ count[m] < flush.limit
           /\ Width(t)' >= 1 /\ count[m] + Width(t)' <= k /\ count[m] + Width(t)' <= offer.capacity
           /\ \E u \in Threads : Serves(u, m)
           /\ \A u \in Threads : Serves(u, m) => ~local[u].stop

LEMMA OfferGrows ==
    ASSUME IInv, ~Posts, QueueFacts, QInv, NEW t \in Threads, NEW d, OneMoves(t, d),
           NEW m \in build.nodes, NEW k, Grows(t, d, m, k)
    PROVE  QInv'
<1>0. /\ d \in Seq(AllLabels) /\ Loose(code[t]) /\ ~Serving(d) /\ ~Serving(code[t])
      /\ UNCHANGED <<slot, local>>
      /\ k \in 0 .. MaxCount /\ count' = [count EXCEPT ![m] = k] /\ k >= count[m]
      /\ index' \in [Threads -> Nat] /\ \A u \in Threads \ {t} : index'[u] = index[u]
      /\ At(t, "mark")' => index'[t] < offer.capacity /\ (offer.keepsMark => TooFar(index'[t]))
  BY DEF Grows
<1>new. ASSUME NEW n, Writes(t, n)'
        PROVE  /\ n = m /\ index'[t] = count[m] /\ count[m] < flush.limit
               /\ Width(t)' >= 1 /\ count[m] + Width(t)' <= k
               /\ count[m] + Width(t)' <= offer.capacity
               /\ \E u \in Threads : Serves(u, m)
               /\ \A u \in Threads : Serves(u, m) => ~local[u].stop
  BY <1>new DEF Grows
<1>1. code'[t] = d /\ \A u \in Threads \ {t} : code'[u] = code[u] /\ \A l : At(u, l)' <=> At(u, l)
  BY MovedCode
<1>2. build' = build /\ \A u \in Threads \ {t} : at'[u] = at[u] /\ size'[u] = size[u]
  BY DEF OneMoves
<1>3. /\ MaxCount' = MaxCount /\ offer' = offer /\ flush' = flush /\ Slots' = Slots
      /\ \A i : TooFar(i)' <=> TooFar(i)
  BY <1>2, SameBuildSameQueue
<1>4. \A u \in Threads : \A n : Serves(u, n)' <=> Serves(u, n)
  BY <1>0, SameServers
<1>5. ~At(t, "publish") /\ ~At(t, "mark")
  BY <1>0, LooseHead
<1>6. ASSUME NEW u \in Threads \ {t}, NEW n
      PROVE  /\ Writes(u, n)' <=> Writes(u, n)
             /\ Width(u)' = Width(u) /\ index'[u] = index[u]
  BY <1>0, <1>1, <1>2, <1>3 DEF Writes, Width
<1>7. \A n : ~Writes(t, n)
  BY <1>5 DEF Writes
<1>8. \A n, i : Entered(n, i)' <=> Entered(n, i)
  BY <1>0, <1>3 DEF Entered, Empty
<1>9. /\ count'[m] = k /\ \A n \in build.nodes : n # m => count'[n] = count[n]
      /\ \A n \in build.nodes : count[n] \in Nat /\ count'[n] \in Nat /\ count'[n] >= count[n]
  BY SMTT(30), <1>0 DEF QInv, QueueTypeOK, MaxCount, QueueFacts
<1>10. \A n \in build.nodes : \A i, w \in Int : Reached(n, i, w) => Reached(n, i, w)'
  BY <1>0, <1>3, <1>4, <1>9 DEF Reached
<1>11. \A n, i : Ahead(n, i)' <=> Ahead(n, i)
  BY <1>0, <1>4 DEF Ahead
<1>12. ASSUME NEW n \in build.nodes, NEW i \in Slots, Entered(n, i)
       PROVE  /\ slot[n][i].size \in Nat /\ i \in Nat /\ slot[n][i].size >= 1
              /\ i + slot[n][i].size <= count[n]
              /\ Reached(n, i, slot[n][i].size)'
  <2>1. PICK w \in Nat : w = slot[n][i].size
    BY SlotTyped DEF QInv
  <2>2. Reached(n, i, w) /\ i \in Nat
    BY <1>12, <2>1, SlotTyped DEF QInv, EntriesOK
  <2>3. Reached(n, i, w)'
    BY <1>10, <2>2
  <2>4. QED
    BY <1>0, <2>1, <2>2, <2>3 DEF Reached
<1>13. ASSUME NEW u \in Threads, NEW n \in build.nodes, Writes(u, n)
       PROVE  /\ Width(u) \in Int /\ index[u] \in Nat /\ Width(u) >= 1
              /\ index[u] + Width(u) <= count[n]
              /\ \A j, v : j = index[u] /\ v = Width(u) => Reached(n, j, v)' /\ Ahead(n, j)'
  <2>1. PICK w, i : w = Width(u) /\ i = index[u]
    OBVIOUS
  <2>2. w \in Int /\ i \in Nat
    BY <2>1 DEF QInv, QueueTypeOK, Width, QueueFacts
  <2>3. Reached(n, i, w) /\ Ahead(n, i)
    BY <1>13, <2>1 DEF QInv, WritesOK
  <2>4. Reached(n, i, w)' /\ Ahead(n, i)'
    BY <1>10, <1>11, <2>2, <2>3
  <2>5. QED
    BY <2>1, <2>2, <2>3, <2>4 DEF Reached
<1>14. Width(t)' \in Int
  BY <1>0, <1>3 DEF OneMoves, Width, QueueFacts
<1>15. EntriesOK'
  BY <1>0, <1>2, <1>3, <1>8, <1>11, <1>12 DEF QInv, EntriesOK
<1>16. WritesOK'
  <2>1. ASSUME NEW n \in build.nodes, NEW u \in Threads, Writes(u, n)'
        PROVE  Reached(n, index[u], Width(u))' /\ Ahead(n, index[u])'
    <3>1. CASE u = t
      <4>1. PICK w : w = Width(t)'
        OBVIOUS
      <4>2. /\ n = m /\ index'[t] = count[m] /\ count[m] < flush.limit
            /\ w >= 1 /\ count[m] + w <= k /\ count[m] + w <= offer.capacity
            /\ \E v \in Threads : Serves(v, m)
            /\ \A v \in Threads : Serves(v, m) => ~local[v].stop
        BY <1>new, <2>1, <3>1, <4>1
      <4>4. Ahead(n, index[t])'
        BY <1>0, <1>4, <4>2 DEF QInv, ServingOK, Ahead
      <4>5. Reached(n, index[t], Width(t))'
        BY <1>0, <1>3, <1>4, <1>9, <4>1, <4>2 DEF Reached
      <4>6. QED
        BY <3>1, <4>4, <4>5
    <3>2. CASE u # t
      BY <1>6, <1>13, <2>1, <3>2
    <3>3. QED
      BY <3>1, <3>2
  <2>2. QED
    BY <1>2, <2>1 DEF WritesOK
<1>17. EntriesApart'
  BY <1>0, <1>2, <1>3, <1>8 DEF QInv, EntriesApart, Apart
<1>18. EntriesWritesApart'
  <2>1. ASSUME NEW n \in build.nodes, NEW i \in Slots, NEW u \in Threads, Entered(n, i), Writes(u, n)'
        PROVE  Apart(i, slot[n][i].size, index'[u], Width(u)')
    <3>1. CASE u = t
      BY <1>new, <1>12, <2>1, <3>1 DEF Apart
    <3>2. CASE u # t
      BY <1>6, <2>1, <3>2 DEF QInv, EntriesWritesApart
    <3>3. QED
      BY <3>1, <3>2
  <2>2. QED
    BY <1>0, <1>2, <1>3, <1>8, <2>1 DEF EntriesWritesApart, Apart
<1>19. WritesApart'
  <2>1. ASSUME NEW n \in build.nodes, NEW u \in Threads \ {t}, Writes(u, n)', Writes(t, n)'
        PROVE  Apart(index'[u], Width(u)', index'[t], Width(t)')
    BY <1>6, <1>13, <1>new, <2>1 DEF Apart
  <2>2. ASSUME NEW n \in build.nodes, NEW u \in Threads \ {t}, NEW v \in Threads \ {t}, u # v,
               Writes(u, n)', Writes(v, n)'
        PROVE  Apart(index'[u], Width(u)', index'[v], Width(v)')
    BY <1>6, <2>2 DEF QInv, WritesApart
  <2>3. \A i, w, j, v : Apart(i, w, j, v) => Apart(j, v, i, w)
    BY DEF Apart
  <2>4. ASSUME NEW n \in build.nodes, NEW u \in Threads, NEW v \in Threads, u # v,
               Writes(u, n)', Writes(v, n)'
        PROVE  Apart(index'[u], Width(u)', index'[v], Width(v)')
    BY <2>1, <2>2, <2>3, <2>4
  <2>5. QED
    BY <1>2, <2>4 DEF WritesApart, Apart
<1>20. MarksOK'
  BY <1>0, <1>1, <1>2, <1>3 DEF QInv, MarksOK, Empty
<1>21. ServingOK'
  <2>1. ASSUME NEW n \in build.nodes, NEW u \in Threads, Serves(u, n)
        PROVE  /\ local[u].pos <= count'[n] /\ local[u].pos <= offer.capacity
               /\ local[u].stop => count'[n] >= flush.limit
    BY <1>9, <2>1 DEF QInv, ServingOK, QueueTypeOK, QueueFacts
  <2>2. QED
    BY <1>0, <1>2, <1>3, <1>4, <2>1 DEF ServingOK
<1>22. UnservedOK'
  BY <1>2, <1>3, <1>4, <1>9 DEF Refuses, TooFar, QueueFacts, QInv, UnservedOK
<1>23. QueueTypeOK'
  BY <1>0, <1>2, <1>3 DEF QInv, QueueTypeOK, OneMoves
<1>24. QueueCodesOK'
  BY <1>0, <1>1, MovedCodes DEF QInv, QueueCodesOK
<1>25. QED
  BY <1>15, <1>16, <1>17, <1>18, <1>19, <1>20, <1>21, <1>22, <1>23, <1>24 DEF QInv

LEMMA RefusedIsFresh ==
    ASSUME IInv, ~Posts, NEW c \in rounds.refused
    PROVE  FreshCode(c) /\ c \in Seq(AllLabels)
<1>1. CASE build \in Locks
  <2>1. PICK l \in Lookings : c = <<l>>
    BY <1>1, MutexTables DEF MutexTable
  <2>2. l \notin {"open", "flush", "swap", "publish", "mark"} /\ l \in AllLabels
    BY DEF Lookings, AllLabels, MutexLabels
  <2>3. QED
    BY <2>1, <2>2, SmallQueueCode DEF FreshCode
<1>2. CASE build \in NodeBuilds
  BY <1>2, LinedTables, CallsAreFresh DEF LinedTable, Idle, LinedCode, LinedGates, AllLabels,
     QueueCalls
<1>3. QED
  BY <1>1, <1>2 DEF IInv

LEMMA MarkBefore ==
    ASSUME NEW S, NEW c \in Seq(S), "mark" \in S, QueueCode(c), Loose(c), ~Serving(c)
    PROVE  LET d == <<"mark">> \o c
           IN  QueueCode(d) /\ ~Serving(d) /\ d \in Seq(S) /\ d # <<>> /\ Head(d) = "mark"
<1>1. PICK d : d = <<"mark">> \o c
  OBVIOUS
<1>whole. /\ <<"mark">> \o c \in Seq(S) /\ <<"mark">> \o c # <<>>
          /\ Head(<<"mark">> \o c) = "mark" /\ Tail(<<"mark">> \o c) = c
  BY Prepended
<1>2. d \in Seq(S) /\ d # <<>> /\ Head(d) = "mark" /\ Tail(d) = c
  BY <1>1, <1>whole
<1>3. \A l : Has(d, l) <=> "mark" = l \/ Has(c, l)
  BY <1>2, HasTail
<1>4. \A A, l : Then(d, A, l) <=> Then(c, A, l) /\ ("mark" \in A => Has(c, l))
  BY <1>2, ThenTail
<1>5. \A A, l : NotAfter(d, A, l) <=> NotAfter(c, A, l) /\ ("mark" \in A => ~Has(c, l))
  BY <1>2, NotAfterTail
<1>6. "mark" \notin Branching /\ Gate.in # "mark" /\ NodeGate.in # "mark"
  BY DEF Branching, Gate, NodeGate
<1>7. Framed(d, Gate.in, Gate.out) /\ Framed(d, NodeGate.in, NodeGate.out)
  BY <1>3, <1>4, <1>5, <1>6 DEF QueueCode, Framed
<1>8. \A i \in DOMAIN d : d[i] \in {"publish", "mark"} => i = 1
  <2>1. ASSUME NEW i \in DOMAIN d, i # 1
        PROVE  d[i] \notin {"publish", "mark"}
    <3>1. i - 1 \in DOMAIN Tail(d) /\ Tail(d)[i - 1] = d[i]
      BY <1>2, <2>1, TailIs
    <3>2. QED
      BY <1>2, <3>1 DEF Loose, Has
  <2>2. QED
    BY <2>1
<1>9. QueueCode(d) /\ ~Serving(d)
  BY <1>3, <1>4, <1>5, <1>6, <1>7, <1>8 DEF QueueCode, Serving
<1>10. QED
  BY <1>1, <1>2, <1>9

LEMMA ClaimedCode ==
    ASSUME IInv, ~Posts, NEW c \in rounds.refused, NEW x \in {<<>>, <<"mark">>}, NEW d,
           d = x \o (IF offer.offerCloses THEN <<"close">> ELSE <<>>) \o c
    PROVE  /\ QueueCode(d) /\ ~Serving(d) /\ d \in Seq(AllLabels)
           /\ x = <<>> => Loose(d)
           /\ d # <<>> => Head(d) # "publish"
<1>1. FreshCode(c) /\ c \in Seq(AllLabels)
  BY RefusedIsFresh
<1>2. Gate.in # "close" /\ NodeGate.in # "close" /\ "close" \in AllLabels /\ "mark" \in AllLabels
  BY DEF Gate, NodeGate, AllLabels, MutexLabels
<1>3. PICK e : e = (IF offer.offerCloses THEN <<"close">> ELSE <<>>) \o c
  OBVIOUS
<1>4. e \in Seq(AllLabels) /\ QueueCode(e) /\ ~Serving(e) /\ Loose(e)
  <2>1. CASE offer.offerCloses
    BY <1>1, <1>2, <1>3, <2>1, QueuePrefix, Prepended DEF FreshCode
  <2>2. CASE ~offer.offerCloses
    BY <1>1, <1>3, <2>2 DEF FreshCode
  <2>3. QED
    BY <2>1, <2>2
<1>5. d = x \o e
  <2>1. PICK y \in Seq(AllLabels) : y = IF offer.offerCloses THEN <<"close">> ELSE <<>>
    <3>1. <<"close">> \in Seq(AllLabels) /\ <<>> \in Seq(AllLabels)
      BY <1>2
    <3>2. QED
      BY <3>1
  <2>2. x \in Seq(AllLabels)
    <3>1. <<"mark">> \in Seq(AllLabels) /\ <<>> \in Seq(AllLabels)
      BY <1>2
    <3>2. QED
      BY <3>1
  <2>3. (x \o y) \o c = x \o (y \o c)
    <3>1. ASSUME NEW u \in Seq(AllLabels), NEW v \in Seq(AllLabels), NEW w \in Seq(AllLabels)
          PROVE  (u \o v) \o w = u \o (v \o w)
      BY ConcatAssociative
    <3>2. QED
      BY <1>1, <2>1, <2>2, <3>1, Zenon
  <2>4. QED
    BY <1>3, <2>1, <2>3
<1>6. CASE x = <<>>
  <2>1. d = e
    BY <1>4, <1>5, <1>6
  <2>2. d # <<>> => Has(d, Head(d))
    BY <1>4, <2>1, HasTail
  <2>3. QED
    BY <1>4, <2>1, <2>2 DEF Loose
<1>7. CASE x = <<"mark">>
  <2>1. d = <<"mark">> \o e /\ x # <<>>
    BY <1>5, <1>7
  <2>2. QED
    BY <1>2, <1>4, <2>1, MarkBefore
<1>8. QED
  BY <1>6, <1>7

LEMMA OfferClaimsKeeps ==
    ASSUME IInv, IInv', WordsOK', ~Posts, QueueFacts, QInv, NEW t \in Threads, line' = line,
           OfferClaims(t)
    PROVE  QInv'
<1>1. At(t, "claim") /\ UNCHANGED <<build, slot, local>>
  BY DEF OfferClaims
<1>2. code[t] # <<>> /\ Head(code[t]) = "claim" /\ size[t] \in offer.sizes
  BY <1>1 DEF At, QInv, QueueCodesOK
<1>3. code[t] \in Seq(AllLabels) /\ QueueCode(code[t])
  BY CodesAreWords DEF QInv, QueueCodesOK
<1>4. Loose(code[t]) /\ ~Serving(code[t])
  BY <1>2, <1>3, QueueTail DEF Branching, Serving
<1>5. PICK m \in build.nodes : m = at[t]
  BY <1>2, NodeOf
<1>6. PICK n0, s \in Nat : n0 = count[m] /\ s = size[t] /\ s >= 1 /\ s \in offer.sizes
  BY <1>2 DEF QInv, QueueTypeOK, QueueFacts, MaxCount
<1>7. n0 <= MaxCount /\ MaxCount = offer.capacity + 1 /\ offer.capacity \in Nat
  BY <1>6 DEF QInv, QueueTypeOK, QueueFacts, MaxCount
<1>8. PICK k : k = Lesser(n0 + s, MaxCount)
  OBVIOUS
<1>9. k \in 0 .. MaxCount /\ k >= n0 /\ count' = [count EXCEPT ![m] = k]
  <2>1. k \in 0 .. MaxCount /\ k >= n0
    BY <1>6, <1>7, <1>8 DEF Lesser
  <2>2. count' = [count EXCEPT ![m] = Lesser(@ + s, MaxCount)]
    BY <1>5, <1>6 DEF OfferClaims
  <2>3. count' = [count EXCEPT ![m] = Lesser(n0 + s, MaxCount)]
    BY <1>6, <2>2
  <2>4. QED
    BY <1>8, <2>1, <2>3
<1> DEFINE marks == n0 + s > offer.capacity /\ n0 < offer.marksBelow
<1>10. offer.marksBelow \in Nat
  BY DEF QueueFacts
<1>11. Fits(t) <=> n0 + s <= offer.capacity
  BY <1>5, <1>6 DEF Fits
<1>12. PICK c \in rounds.refused :
           Go(t, IF Fits(t) THEN <<"publish">>
                 ELSE (IF ~Fits(t) /\ count[at[t]] < offer.marksBelow THEN <<"mark">> ELSE <<>>)
                         \o (IF offer.offerCloses THEN <<"close">> ELSE <<>>) \o c)
  BY DEF OfferClaims
<1>13. PICK x, d :
           /\ x \in {<<>>, <<"mark">>} /\ Go(t, d) /\ (x = <<>> <=> ~marks)
           /\ n0 + s <= offer.capacity => d = <<"publish">>
           /\ n0 + s > offer.capacity => d = x \o (IF offer.offerCloses THEN <<"close">> ELSE <<>>) \o c
  <2>1. CASE n0 + s <= offer.capacity
    BY <1>6, <1>7, <1>11, <1>12, <2>1
  <2>2. CASE n0 + s > offer.capacity
    <3>1. ~Fits(t) /\ ~(n0 + s <= offer.capacity) /\ (marks <=> count[at[t]] < offer.marksBelow)
      BY <1>5, <1>6, <1>7, <1>10, <1>11, <2>2
    <3>2. CASE count[at[t]] < offer.marksBelow
      <4>1. Go(t, <<"mark">> \o (IF offer.offerCloses THEN <<"close">> ELSE <<>>) \o c)
        BY <1>12, <3>1, <3>2
      <4>2. <<"mark">> # <<>>
        OBVIOUS
      <4>3. QED
        BY <3>1, <3>2, <4>1, <4>2
    <3>3. CASE ~(count[at[t]] < offer.marksBelow)
      <4>1. Go(t, <<>> \o (IF offer.offerCloses THEN <<"close">> ELSE <<>>) \o c)
        BY <1>12, <3>1, <3>3
      <4>2. QED
        BY <3>1, <3>3, <4>1
    <3>4. QED
      BY <3>2, <3>3
  <2>3. n0 + s <= offer.capacity \/ n0 + s > offer.capacity
    BY <1>6, <1>7
  <2>4. QED
    BY Zenon, <2>1, <2>2, <2>3
<1>14. /\ n0 + s <= offer.capacity \/ marks => index' = [index EXCEPT ![t] = n0]
       /\ ~(n0 + s <= offer.capacity \/ marks) => index' = index
  BY <1>5, <1>6, <1>7, <1>10, <1>11 DEF OfferClaims
<1>15. index' \in [Threads -> Nat] /\ \A u \in Threads \ {t} : index'[u] = index[u]
  BY <1>14 DEF QInv, QueueTypeOK
<1>16. /\ QueueCode(d) /\ ~Serving(d)
       /\ n0 + s > offer.capacity => /\ ~marks => Loose(d)
                                     /\ d # <<>> => Head(d) # "publish"
  <2>1. CASE n0 + s <= offer.capacity
    BY <1>6, <1>7, <1>13, <2>1, SmallQueueCode
  <2>2. CASE n0 + s > offer.capacity
    <3>1. d = x \o (IF offer.offerCloses THEN <<"close">> ELSE <<>>) \o c
      BY <1>13, <2>2
    <3>2. QED
      BY <1>13, <3>1, ClaimedCode
  <2>3. QED
    BY <1>6, <1>7, <2>1, <2>2
<1>17. /\ OneMoves(t, d) /\ d \in Seq(AllLabels)
       /\ d # <<>> => at'[t] = at[t] /\ size'[t] = size[t]
  BY <1>1, <1>2, <1>13, <1>16, GoMovesOne
<1>18. code'[t] = d
  BY <1>17, MovedCode
<1>19. offer' = offer
  BY <1>1 DEF offer
<1>20. At(t, "publish")' => n0 + s <= offer.capacity
  BY <1>6, <1>7, <1>16, <1>18 DEF At
<1>21. At(t, "mark")' => marks /\ n0 + s > offer.capacity
  <2>1. CASE n0 + s <= offer.capacity
    BY <1>13, <1>18, <2>1 DEF At
  <2>2. CASE n0 + s > offer.capacity
    BY <1>16, <1>17, <1>18, <2>2, HasTail DEF At, Loose
  <2>3. QED
    BY <1>6, <1>7, <2>1, <2>2
<1>22. /\ offer.marksBelow \in Nat /\ flush.limit \in Nat /\ offer.marksBelow <= flush.limit
       /\ flush.limit <= offer.capacity
       /\ \A v \in offer.sizes : v \in Nat /\ v >= 1 /\ offer.capacity < flush.limit + v
       /\ offer.keepsMark => \A v, w \in offer.sizes : v = w
  BY DEF QueueFacts
<1>23. At(t, "mark")' => /\ index'[t] = n0 /\ n0 < offer.marksBelow /\ n0 < offer.capacity
                         /\ offer.keepsMark => TooFar(n0)
  <2>1. SUFFICES ASSUME At(t, "mark")'
                 PROVE  /\ index'[t] = n0 /\ n0 < offer.marksBelow /\ n0 < offer.capacity
                        /\ offer.keepsMark => TooFar(n0)
    OBVIOUS
  <2>2. marks /\ n0 + s > offer.capacity
    BY <1>21, <2>1
  <2>3. index'[t] = n0
    BY <1>14, <2>2 DEF QInv, QueueTypeOK
  <2>4. n0 < offer.marksBelow /\ n0 < offer.capacity
    BY <1>6, <1>7, <1>10, <1>22, <2>2
  <2>5. offer.keepsMark => TooFar(n0)
    BY <1>6, <1>22, <2>2 DEF TooFar
  <2>6. QED
    BY <2>3, <2>4, <2>5
<1>24. At(t, "publish")' => index'[t] = n0
  BY <1>14, <1>20 DEF QInv, QueueTypeOK
<1>25. ASSUME NEW n, Writes(t, n)'
       PROVE  /\ n = m /\ index'[t] = n0 /\ n0 < flush.limit
              /\ Width(t)' >= 1 /\ n0 + Width(t)' <= k
              /\ n0 + Width(t)' <= offer.capacity
              /\ ~Refuses(m)
  <2>1. n = m /\ size'[t] = s
    BY <1>5, <1>6, <1>17, <1>18, <1>25 DEF Writes, At
  <2>2. CASE At(t, "publish")'
    BY SMTT(30), <1>6, <1>7, <1>8, <1>20, <1>22, <1>24, <2>1, <2>2 DEF Width, Lesser, TooFar,
       Refuses
  <2>3. CASE At(t, "mark")' /\ ~At(t, "publish")'
    BY <1>6, <1>7, <1>8, <1>19, <1>21, <1>22, <1>23, <1>25, <2>1, <2>3 DEF Writes, Width, Lesser,
       Refuses
  <2>4. QED
    BY <1>25, <2>2, <2>3 DEF Writes
<1>26. ASSUME NEW n, Writes(t, n)'
       PROVE  /\ \E u \in Threads : Serves(u, m)
              /\ \A u \in Threads : Serves(u, m) => ~local[u].stop
  BY <1>6, <1>22, <1>25, <1>26 DEF QInv, UnservedOK, ServingOK
<1>27. Grows(t, d, m, k)
  BY <1>1, <1>4, <1>6, <1>9, <1>15, <1>16, <1>17, <1>23, <1>25, <1>26 DEF Grows
<1>28. QED
  BY <1>17, <1>27, OfferGrows

(* The store of an entry, or of a mark, to the slot that was claimed.       *)
Stores(t, d, m, p, e) ==
    /\ d \in Seq(AllLabels) /\ Loose(d) /\ m = at[t] /\ p = index[t]
    /\ Serving(d) <=> Serving(code[t])
    /\ Serving(d) => at'[t] = at[t]
    /\ UNCHANGED <<count, local>>
    /\ slot' = [slot EXCEPT ![m][p] = e] /\ index' = [index EXCEPT ![t] = 0]
    /\ e \in [by : Threads \cup {NULL}, size : Nat]
    /\ e.by # NULL \/ ~offer.keepsMark => Writes(t, m) /\ e.size = Width(t)
    /\ e.by # NULL => e.size \in offer.sizes
    /\ e.by = NULL => p + e.size = offer.capacity /\ (offer.keepsMark => TooFar(p))

LEMMA OfferStores ==
    ASSUME IInv, ~Posts, QueueFacts, QInv, NEW t \in Threads, NEW d, OneMoves(t, d),
           NEW m \in build.nodes, NEW p \in Slots, NEW e, Stores(t, d, m, p, e)
    PROVE  QInv'
<1>0. /\ d \in Seq(AllLabels) /\ Loose(d) /\ m = at[t] /\ p = index[t]
      /\ Serving(d) <=> Serving(code[t])
      /\ Serving(d) => at'[t] = at[t]
      /\ UNCHANGED <<count, local>>
      /\ slot' = [slot EXCEPT ![m][p] = e] /\ index' = [index EXCEPT ![t] = 0]
      /\ e \in [by : Threads \cup {NULL}, size : Nat]
      /\ e.by # NULL \/ ~offer.keepsMark => Writes(t, m) /\ e.size = Width(t)
      /\ e.by # NULL => e.size \in offer.sizes
      /\ e.by = NULL => p + e.size = offer.capacity /\ (offer.keepsMark => TooFar(p))
  BY DEF Stores
<1>1. code'[t] = d /\ \A u \in Threads \ {t} : code'[u] = code[u] /\ \A l : At(u, l)' <=> At(u, l)
  BY MovedCode
<1>2. build' = build /\ \A u \in Threads \ {t} : at'[u] = at[u] /\ size'[u] = size[u]
  BY DEF OneMoves
<1>3. /\ MaxCount' = MaxCount /\ offer' = offer /\ flush' = flush /\ Slots' = Slots
      /\ \A i : TooFar(i)' <=> TooFar(i)
  BY <1>2, SameBuildSameQueue
<1>4. \A u \in Threads : \A n : Serves(u, n)' <=> Serves(u, n)
  BY <1>0, SameServers
<1>5. ~At(t, "publish")' /\ ~At(t, "mark")'
  BY <1>0, <1>1, HasTail DEF Loose, At
<1>6. index' \in [Threads -> Nat] /\ \A u \in Threads \ {t} : index'[u] = index[u]
  BY <1>0 DEF QInv, QueueTypeOK
<1>7. \A u \in Threads : \A n : Writes(u, n)' =>
          u # t /\ Writes(u, n) /\ Width(u)' = Width(u) /\ index'[u] = index[u]
  BY <1>1, <1>2, <1>3, <1>5, <1>6 DEF Writes, Width
<1>8. /\ slot' \in [build.nodes -> [Slots -> [by : Threads \cup {NULL}, size : Nat]]]
      /\ \A n \in build.nodes \ {m} : slot'[n] = slot[n]
      /\ \A i \in Slots : i # p => slot'[m][i] = slot[m][i]
      /\ slot'[m][p] = e
  BY <1>0 DEF QInv, QueueTypeOK
<1>9. \A n, i, w : Reached(n, i, w)' <=> Reached(n, i, w)
  BY <1>0, <1>3, <1>4 DEF Reached
<1>10. \A n, i : Ahead(n, i)' <=> Ahead(n, i)
  BY <1>0, <1>4 DEF Ahead
<1>11. ASSUME NEW n \in build.nodes, NEW i \in Slots, Entered(n, i)'
       PROVE  \/ n = m /\ i = p /\ slot'[n][i] = e /\ Writes(t, m) /\ e.size = Width(t)
              \/ (n # m \/ i # p) /\ slot'[n][i] = slot[n][i] /\ Entered(n, i)
  <2>1. CASE n = m /\ i = p
    BY <1>0, <1>3, <1>8, <1>11, <2>1 DEF Entered
  <2>2. CASE n # m \/ i # p
    BY <1>3, <1>8, <1>11, <2>2 DEF Entered, Empty
  <2>3. QED
    BY <2>1, <2>2
<1>12. EntriesOK'
  <2>1. ASSUME NEW n \in build.nodes, NEW i \in Slots, Entered(n, i)'
        PROVE  /\ Reached(n, i, slot[n][i].size)'
               /\ slot'[n][i].by # NULL \/ ~flush.clearsAtEnd => Ahead(n, i)'
               /\ slot'[n][i].by # NULL => slot'[n][i].size \in offer.sizes
               /\ slot'[n][i].by = NULL /\ ~flush.clearsAtEnd => i + slot'[n][i].size = offer.capacity
    <3>1. CASE n = m /\ i = p /\ slot'[n][i] = e /\ Writes(t, m) /\ e.size = Width(t)
      BY <1>0, <1>9, <1>10, <3>1 DEF QInv, WritesOK
    <3>2. CASE slot'[n][i] = slot[n][i] /\ Entered(n, i)
      BY <1>9, <1>10, <3>2 DEF QInv, EntriesOK
    <3>3. QED
      BY <1>11, <2>1, <3>1, <3>2
  <2>2. QED
    BY <1>2, <1>3, <2>1 DEF EntriesOK
<1>13. WritesOK'
  <2>1. ASSUME NEW n \in build.nodes, NEW u \in Threads, Writes(u, n)'
        PROVE  Reached(n, index[u], Width(u))' /\ Ahead(n, index[u])'
    BY <1>7, <1>9, <1>10, <2>1 DEF QInv, WritesOK
  <2>2. QED
    BY <1>2, <2>1 DEF WritesOK
<1>14. EntriesApart'
  <2>1. ASSUME NEW n \in build.nodes, NEW i \in Slots, NEW j \in Slots, i # j,
               Entered(n, i)', Entered(n, j)'
        PROVE  Apart(i, slot'[n][i].size, j, slot'[n][j].size)
    <3>1. CASE n = m /\ i = p
      BY <1>0, <1>11, <2>1, <3>1 DEF QInv, EntriesWritesApart, Apart
    <3>2. CASE n = m /\ j = p
      BY <1>0, <1>11, <2>1, <3>2 DEF QInv, EntriesWritesApart
    <3>3. CASE n # m \/ (i # p /\ j # p)
      BY <1>11, <2>1, <3>3 DEF QInv, EntriesApart
    <3>4. QED
      BY <3>1, <3>2, <3>3
  <2>2. QED
    BY <1>2, <1>3, <2>1 DEF EntriesApart, Apart
<1>15. EntriesWritesApart'
  <2>1. ASSUME NEW n \in build.nodes, NEW i \in Slots, NEW u \in Threads,
               Entered(n, i)', Writes(u, n)'
        PROVE  Apart(i, slot'[n][i].size, index'[u], Width(u)')
    <3>1. u # t /\ Writes(u, n) /\ Width(u)' = Width(u) /\ index'[u] = index[u]
      BY <1>7, <2>1
    <3>2. CASE n = m /\ i = p /\ slot'[n][i] = e /\ Writes(t, m) /\ e.size = Width(t)
      BY <1>0, <3>1, <3>2 DEF QInv, WritesApart
    <3>3. CASE slot'[n][i] = slot[n][i] /\ Entered(n, i)
      BY <3>1, <3>3 DEF QInv, EntriesWritesApart
    <3>4. QED
      BY <1>11, <2>1, <3>2, <3>3
  <2>2. QED
    BY <1>2, <1>3, <2>1 DEF EntriesWritesApart, Apart
<1>16. WritesApart'
  <2>1. ASSUME NEW n \in build.nodes, NEW u \in Threads, NEW v \in Threads, u # v,
               Writes(u, n)', Writes(v, n)'
        PROVE  Apart(index'[u], Width(u)', index'[v], Width(v)')
    BY <1>7, <2>1 DEF QInv, WritesApart
  <2>2. QED
    BY <1>2, <2>1 DEF WritesApart, Apart
<1>17. MarksOK'
  <2>1. ASSUME offer.keepsMark, NEW n \in build.nodes, NEW i \in Slots, slot'[n][i] # Empty,
               slot'[n][i].by = NULL
        PROVE  TooFar(i)
    <3>1. CASE n = m /\ i = p
      BY <1>0, <1>8, <2>1, <3>1
    <3>2. CASE n # m \/ i # p
      BY <1>8, <2>1, <3>2 DEF QInv, MarksOK
    <3>3. QED
      BY <3>1, <3>2
  <2>2. ASSUME offer.keepsMark, NEW u \in Threads, At(u, "mark")'
        PROVE  TooFar(index'[u])
    BY <1>1, <1>5, <1>6, <2>2 DEF QInv, MarksOK
  <2>3. QED
    BY <1>2, <1>3, <2>1, <2>2 DEF MarksOK, Empty
<1>18. ServingOK'
  BY <1>0, <1>2, <1>3, <1>4 DEF QInv, ServingOK
<1>19. UnservedOK'
  BY <1>0, <1>2, <1>3, <1>4 DEF QInv, UnservedOK, Refuses
<1>20. QueueTypeOK'
  BY <1>0, <1>2, <1>3, <1>6, <1>8 DEF QInv, QueueTypeOK, OneMoves
<1>21. QueueCodesOK'
  BY <1>0, <1>5, <1>6, MovedCodes DEF QInv, QueueCodesOK
<1>22. QED
  BY <1>12, <1>13, <1>14, <1>15, <1>16, <1>17, <1>18, <1>19, <1>20, <1>21 DEF QInv

LEMMA OfferPublishesKeeps ==
    ASSUME IInv, IInv', WordsOK', ~Posts, QueueFacts, QInv, NEW t \in Threads, line' = line,
           OfferPublishes(t)
    PROVE  QInv'
<1>1. PICK d \in {<<>>, <<"await">>} : At(t, "publish") /\ Go(t, d)
  BY DEF OfferPublishes
<1>2. UNCHANGED <<build, count, local>>
  BY DEF OfferPublishes, Fill
<1>3. code[t] # <<>> /\ Head(code[t]) = "publish" /\ size[t] \in offer.sizes
  BY <1>1 DEF At, QInv, QueueCodesOK
<1>4. code[t] \in Seq(AllLabels) /\ QueueCode(code[t])
  BY CodesAreWords DEF QInv, QueueCodesOK
<1>5. ~Serving(code[t])
  BY <1>3, <1>4, QueueTail DEF Branching, Serving
<1>6. QueueCode(d) /\ ~Serving(d) /\ Loose(d) /\ d \in Seq(AllLabels)
  <2>1. "await" \in AllLabels
    BY DEF AllLabels, MutexLabels
  <2>2. CASE d = <<>>
    <3>1. QueueCode(<<"await">>) /\ QueueCode(<<>>) /\ ~Serving(<<>>) /\ Loose(<<>>)
      BY SmallQueueCode
    <3>2. <<>> \in Seq(AllLabels)
      OBVIOUS
    <3>3. QED
      BY <2>2, <3>1, <3>2
  <2>3. CASE d = <<"await">>
    BY <2>1, <2>3, SmallQueueCode
  <2>4. QED
    BY <1>1, <2>2, <2>3
<1>7. OneMoves(t, d)
  BY <1>1, <1>2, <1>3, <1>6, GoMovesOne
<1>8. PICK m \in build.nodes : m = at[t]
  BY <1>3, NodeOf
<1>9. PICK s \in Nat : s = size[t] /\ s \in offer.sizes
  BY <1>3 DEF QInv, QueueTypeOK
<1>10. Writes(t, m) /\ Width(t) = s
  BY <1>1, <1>8, <1>9 DEF Writes, Width
<1>11. Reached(m, index[t], s)
  BY <1>10 DEF QInv, WritesOK
<1>12. PICK p \in Slots : p = index[t]
  BY SMTT(30), <1>11 DEF Reached, Slots, QInv, QueueTypeOK, QueueFacts
<1>13. t # NULL
  BY NullAssumption
<1>14. PICK e \in [by : Threads \cup {NULL}, size : Nat] : e = [by |-> t, size |-> s]
  OBVIOUS
<1>15. e.by = t /\ e.size = s
  BY <1>14
<1>16. slot' = [slot EXCEPT ![m][p] = e] /\ index' = [index EXCEPT ![t] = 0]
  BY <1>8, <1>9, <1>12, <1>14 DEF OfferPublishes, Fill
<1>17. Stores(t, d, m, p, e)
  BY <1>2, <1>5, <1>6, <1>8, <1>9, <1>10, <1>12, <1>13, <1>15, <1>16 DEF Stores
<1>18. QED
  BY <1>7, <1>17, OfferStores

LEMMA OfferMarksKeeps ==
    ASSUME IInv, IInv', WordsOK', ~Posts, QueueFacts, QInv, NEW t \in Threads, line' = line,
           OfferMarks(t)
    PROVE  QInv'
<1>1. /\ At(t, "mark") /\ Go(t, Tail(code[t])) /\ UNCHANGED <<build, count, local>>
      /\ index[t] < offer.capacity
  BY DEF OfferMarks, Fill, GoOn, Rest, QInv, QueueCodesOK
<1>2. code[t] # <<>> /\ Head(code[t]) = "mark"
  BY <1>1 DEF At
<1>3. code[t] \in Seq(AllLabels) /\ QueueCode(code[t])
  BY CodesAreWords DEF QInv, QueueCodesOK
<1>4. PICK d : d = Tail(code[t])
  OBVIOUS
<1>5. QueueCode(d) /\ Loose(d) /\ (Serving(d) <=> Serving(code[t]))
  BY <1>2, <1>3, <1>4, QueueTail
<1>6. OneMoves(t, d) /\ d \in Seq(AllLabels) /\ (d # <<>> => at'[t] = at[t])
  BY <1>1, <1>2, <1>4, <1>5, GoMovesOne
<1>7. Serving(d) => at'[t] = at[t]
  BY <1>6, NothingLeft DEF Serving
<1>8. PICK m \in build.nodes : m = at[t]
  BY <1>2, NodeOf
<1>9. PICK p \in Slots : p = index[t]
  BY <1>1 DEF Slots, QInv, QueueTypeOK, QueueFacts
<1>10. PICK w \in Nat : w = offer.capacity - p /\ p + w = offer.capacity
  BY <1>8, SlotTyped DEF QInv, QueueFacts
<1>11. PICK e \in [by : Threads \cup {NULL}, size : Nat] : e = [by |-> NULL, size |-> w]
  OBVIOUS
<1>12. e.by = NULL /\ e.size = w
  BY <1>11
<1>13. slot' = [slot EXCEPT ![m][p] = e] /\ index' = [index EXCEPT ![t] = 0]
  BY <1>8, <1>9, <1>10, <1>11 DEF OfferMarks, Fill
<1>14. offer.keepsMark => TooFar(p)
  BY <1>1, <1>9 DEF QInv, MarksOK
<1>15. ~offer.keepsMark => Writes(t, m) /\ Width(t) = w
  BY <1>1, <1>2, <1>8, <1>9, <1>10 DEF Writes, Width, At
<1>16. Stores(t, d, m, p, e)
  BY <1>1, <1>5, <1>6, <1>7, <1>8, <1>9, <1>10, <1>12, <1>13, <1>14, <1>15 DEF Stores
<1>17. QED
  BY <1>6, <1>16, OfferStores

(****************************************************************************)
(* The steps that leave the queues alone.                                   *)
(****************************************************************************)
LEMMA NoFlushIsFresh ==
    ASSUME NEW S, NEW c \in Seq(S),
           \A l \in {"open", "flush", "swap", "publish", "mark"} : ~Has(c, l)
    PROVE  FreshCode(c)
BY DEF Has, NotAfter, Then, FreshCode, QueueCode, Serving, Loose, Framed

LEMMA LabelIsFresh ==
    ASSUME NEW l, l \notin {"open", "flush", "swap", "publish", "mark"}
    PROVE  FreshCode(<<l>>)
BY SmallQueueCode DEF FreshCode

LEMMA ReadersAreFresh ==
    /\ FreshCode(<<"depart", "waitFree">> \o Reading)
    /\ FreshCode(<<"read", "depart">>)
    /\ FreshCode(<<"spin", "read", "departFrom">>)
    /\ FreshCode(<<"arrive", "lookAgain", "read", "depart">>)
<1>0. {"arrive", "lookAgain", "read", "depart", "spin", "departFrom", "waitFree", "check", "lower"}
          \subseteq AllLabels
  BY DEF AllLabels, ReaderWords, LookWords, QueueLabels
<1>1. <<"depart", "waitFree", "arrive", "check", "lower", "read", "depart">> \in Seq(AllLabels)
      /\ <<"read", "depart">> \in Seq(AllLabels)
      /\ <<"spin", "read", "departFrom">> \in Seq(AllLabels)
      /\ <<"arrive", "lookAgain", "read", "depart">> \in Seq(AllLabels)
  BY <1>0
<1>2. \A l \in {"open", "flush", "swap", "publish", "mark"} :
          ~Has(<<"depart", "waitFree", "arrive", "check", "lower", "read", "depart">>, l)
  BY DEF Has
<1>3. \A l \in {"open", "flush", "swap", "publish", "mark"} : ~Has(<<"read", "depart">>, l)
  BY DEF Has
<1>4. \A l \in {"open", "flush", "swap", "publish", "mark"} :
          ~Has(<<"spin", "read", "departFrom">>, l)
  BY DEF Has
<1>5. \A l \in {"open", "flush", "swap", "publish", "mark"} :
          ~Has(<<"arrive", "lookAgain", "read", "depart">>, l)
  BY DEF Has
<1>6. FreshCode(<<"depart", "waitFree", "arrive", "check", "lower", "read", "depart">>)
  BY <1>1, <1>2, NoFlushIsFresh
<1>7. QED
  BY <1>1, <1>3, <1>4, <1>5, <1>6, NoFlushIsFresh, ReadersLook

LEMMA PlainStepsKeep ==
    ASSUME IInv, IInv', WordsOK', ~Posts, QueueFacts, QInv, NEW t \in Threads,
           \/ Leave(t) \/ SetFlag(t) \/ ClearFlag(t) \/ TakeGlobal(t) \/ LeaveGlobal(t)
           \/ RunOwn(t) \/ OpenFlag(t) \/ Close(t) \/ Await(t) \/ WaitWriters(t)
           \/ LowerBarrier(t) \/ Read(t) \/ Indicator(t)
    PROVE  QInv'
<1>1. QueueSame
  BY DEF Leave, SetFlag, ClearFlag, TakeGlobal, LeaveGlobal, RunOwn, OpenFlag, Close, Await,
         WaitWriters, LowerBarrier, Read, Indicator, Arrive, Depart, WaitReaders, QueueSame,
         mutexVars, queueVars
<1>2. PICK l \in {"leave", "setFlag", "clearFlag", "global", "leaveGlobal", "own", "critical",
                  "openFlag", "close", "await", "barrier", "lower", "read", "arrive", "depart",
                  "readers"} : GoOn(t, l)
  BY DEF Leave, SetFlag, ClearFlag, TakeGlobal, LeaveGlobal, RunOwn, OpenFlag, Close, Await,
         WaitWriters, LowerBarrier, Read, Indicator, Arrive, Depart, WaitReaders
<1>3. l \notin {"open", "flush", "publish", "mark"}
  OBVIOUS
<1>4. QED
  BY <1>1, <1>2, <1>3, GoesOnOutside

LEMMA LockStepsKeep ==
    ASSUME IInv, IInv', WordsOK', ~Posts, QueueFacts, QInv, NEW t \in Threads, ~Lined,
           build \in Locks, Look(t) \/ TryWins(t) \/ TryFails(t) \/ LockTakes(t)
    PROVE  QInv'
<1>1. QueueSame
  BY DEF Look, TryWins, TryFails, LockTakes, Take, QueueSame, mutexVars, queueVars
<1>2. \A d \in build.calls.first \cup {build.calls.help} : FreshCode(d)
  BY CallsAreFresh DEF QueueCalls
<1>3. \A l \in Lookings \cup {"firstTry"} : FreshCode(<<l>>)
  BY LabelIsFresh DEF Lookings
<1>4. rounds.firstLost \cup rounds.lost \cup {rounds.busy} \subseteq Lookings
  BY MutexTables DEF MutexTable
<1>5. CASE GoOn(t, "lock")
  BY <1>1, <1>5, GoesOnOutside
<1>6. CASE \E l \in Branching \ {"publish"} : \E d : At(t, l) /\ FreshCode(d) /\ Go(t, d)
  BY <1>1, <1>6, ChoosesOutside
<1>7. /\ {"firstLook", "look", "while", "firstTry", "try", "force"} \subseteq Branching \ {"publish"}
      /\ {"try", "offer", "look"} \subseteq Lookings
  BY DEF Branching, Lookings
<1>8. CASE Look(t)
  BY <1>3, <1>4, <1>6, <1>7, <1>8 DEF Look
<1>9. CASE TryWins(t)
  BY <1>2, <1>6, <1>7, <1>9 DEF TryWins
<1>10. CASE TryFails(t)
  BY <1>3, <1>4, <1>6, <1>7, <1>10 DEF TryFails
<1>11. CASE LockTakes(t)
  BY <1>2, <1>5, <1>6, <1>7, <1>11 DEF LockTakes
<1>12. QED
  BY <1>8, <1>9, <1>10, <1>11

LEMMA OfferLooksKeeps ==
    ASSUME IInv, IInv', WordsOK', ~Posts, QueueFacts, QInv, NEW t \in Threads, OfferLooks(t)
    PROVE  QInv'
BY LabelIsFresh, RefusedIsFresh, ChoosesOutside DEF OfferLooks, QueueSame, mutexVars, queueVars,
   Branching

LEMMA ReadersCheckKeeps ==
    ASSUME IInv, IInv', WordsOK', ~Posts, QueueFacts, QInv, NEW t \in Threads, ~Lined,
           build \in Locks, CheckLocked(t) \/ WaitFree(t)
    PROVE  QInv'
<1>1. QueueSame
  BY DEF CheckLocked, WaitFree, QueueSame, mutexVars, queueVars
<1>2. "check" \in Branching \ {"publish"} /\ "waitFree" \in Branching \ {"publish"}
      /\ "check" \in ReaderWords
  BY DEF Branching, ReaderWords
<1>3. CASE CheckLocked(t)
  <2>1. At(t, "check") /\ MutexOK
    BY <1>3, MutexTables, LinedTables DEF CheckLocked, IInv, LinedTable
  <2>2. code[t] \in ReaderCodes /\ Head(code[t]) = "check"
    BY <1>2, <2>1, AtReader
  <2>3. Tail(Rest(t)) = <<"read", "depart">>
    BY <2>2, ReaderTails DEF Rest
  <2>4. CASE GoOn(t, "check")
    BY <1>1, <2>4, GoesOnOutside
  <2>5. CASE \E d : FreshCode(d) /\ Go(t, d)
    BY <1>1, <1>2, <2>1, <2>5, ChoosesOutside
  <2>6. QED
    BY <1>3, <2>1, <2>3, <2>4, <2>5, ReadersAreFresh DEF CheckLocked, GoOn
<1>4. CASE WaitFree(t)
  <2>1. CASE GoOn(t, "waitFree")
    BY <1>1, <2>1, GoesOnOutside
  <2>2. CASE At(t, "waitFree") /\ Go(t, code[t])
    BY <1>1, <1>2, <2>2, CodesAreWords, QueueTail, ChoosesOutside DEF At, QInv, QueueCodesOK,
       FreshCode, Serving
  <2>3. QED
    BY <1>4, <2>1, <2>2 DEF WaitFree, GoOn
<1>5. QED
  BY <1>3, <1>4

LEMMA CallKeepsQueue ==
    ASSUME IInv, IInv', WordsOK', ~Posts, QueueFacts, QInv, NEW t \in Threads, Call(t)
    PROVE  QInv'
<1>1. build \in Locks \cup NodeBuilds
  BY DEF IInv
<1>2. PICK d : d \in {rounds.start} \cup build.calls.others /\ code' = [code EXCEPT ![t] = d]
  BY DEF Call
<1>3. FreshCode(d)
  BY <1>1, <1>2, CallsAreFresh DEF QueueCalls
<1>4. PICK n : at' = [at EXCEPT ![t] = n] /\ (Lined => n = t)
  BY DEF Call
<1>5. PICK s \in offer.sizes : size' = [size EXCEPT ![t] = s]
  BY DEF Call
<1>6. code[t] = <<>> /\ UNCHANGED <<build, count, slot, index, local>>
  BY DEF Call, queueVars
<1>7. code = [u \in Threads |-> code[u]] /\ at = [u \in Threads |-> at[u]] /\ size \in [Threads -> Nat]
  BY DEF IInv, MutexOK, MutexTypeOK, LinedOK, LinedTypeOK, QInv, QueueTypeOK
<1>8. s \in Nat
  BY DEF QueueFacts
<1>9. /\ code'[t] = d /\ at'[t] = n /\ size'[t] = s /\ size' \in [Threads -> Nat]
      /\ \A u \in Threads \ {t} : at'[u] = at[u] /\ size'[u] = size[u]
  BY <1>2, <1>4, <1>5, <1>7, <1>8
<1>10. OneMoves(t, d)
  BY <1>2, <1>3, <1>4, <1>6, <1>9 DEF OneMoves, FreshCode
<1>11. d \in Seq(AllLabels)
  BY <1>9 DEF WordsOK, AllLabels
<1>12. Loose(code[t]) /\ ~Serving(code[t])
  BY <1>6, NothingLeft DEF Loose, Serving
<1>13. QED
  BY <1>3, <1>6, <1>10, <1>11, <1>12, QueueIsLeft DEF FreshCode

(****************************************************************************)
(* The steps of the builds with a queue of nodes.                           *)
(****************************************************************************)
LEMMA GoToMovesOne ==
    ASSUME IInv, WordsOK', QInv, NEW t \in Threads, code[t] # <<>>, NEW n, NEW d, GoTo(t, n, d),
           QueueCode(d), build' = build, InLine(d) => n = t
    PROVE  OneMoves(t, d) /\ d \in Seq(AllLabels) /\ at'[t] = n
BY DEF IInv, MutexOK, MutexTypeOK, LinedOK, LinedTypeOK, QInv, QueueTypeOK, GoTo, QueueCodesOK,
   WordsOK, AllLabels, OneMoves

(* t looks around at another node, or at its own.                           *)
LEMMA ChoosesNode ==
    ASSUME IInv, WordsOK', QueueFacts, QInv, NEW t \in Threads, QueueSame,
           NEW l \in Branching \ {"publish"}, At(t, l), NEW n, NEW d, GoTo(t, n, d), FreshCode(d),
           InLine(d) => n = t
    PROVE  QInv'
BY CodesAreWords, QueueTail, GoToMovesOne, QueueIsLeft DEF At, QInv, QueueCodesOK, Branching,
   Serving, QueueSame, FreshCode

LEMMA LinedPlainStepsKeep ==
    ASSUME IInv, IInv', WordsOK', ~Posts, QueueFacts, QInv, NEW t \in Threads,
           \/ Turn(t) \/ Spin(t) \/ DepartFrom(t) \/ Enable(t) \/ Disable(t) \/ WaitSpinners(t)
    PROVE  QInv'
BY GoesOnOutside DEF Turn, Spin, DepartFrom, Enable, Disable, WaitSpinners, QueueSame, mutexVars,
   queueVars

LEMMA SmallIsOutside ==
    ASSUME NEW l, l # "leaveLine"
    PROVE  ~InLine(<<l>>)
BY DEF InLine, Holds, Has

(* What follows when a reader has looked in vain.                           *)
LEMMA LookFailsIsFresh ==
    ASSUME build \in NodeBuilds, ~Posts, NEW d \in build.calls.lookFails \cup rounds.refused
    PROVE  /\ FreshCode(d) /\ ~InLine(d) /\ d \in Seq(AllLabels)
           /\ FreshCode(<<"depart">> \o d) /\ ~InLine(<<"depart">> \o d)
           /\ FreshCode(<<"departFrom">> \o d) /\ ~InLine(<<"departFrom">> \o d)
<1>1. Lined /\ Idle(d, LinedGate) /\ LinedGate \in LinedGates
  BY LinedTables DEF LinedTable
<1>2. d \in Seq(AllLabels) /\ ~InLine(d)
  BY <1>1 DEF Idle, LinedCode, LinedGates, AllLabels
<1>3. FreshCode(d)
  BY <1>1, CallsAreFresh DEF QueueCalls
<1>4. ASSUME NEW x \in {"depart", "departFrom"}
      PROVE  FreshCode(<<x>> \o d) /\ ~InLine(<<x>> \o d)
  <2>1. x \in AllLabels /\ x # "swap" /\ Gate.in # x /\ NodeGate.in # x
    BY DEF AllLabels, ReaderWords, LookWords, QueueLabels, Gate, NodeGate
  <2>2. QueueCode(<<x>> \o d) /\ Loose(<<x>> \o d) /\ (Serving(<<x>> \o d) <=> Serving(d))
    BY <1>2, <1>3, <2>1, QueuePrefix DEF FreshCode
  <2>3. PICK e : e = <<x>> \o d
    OBVIOUS
  <2>4. <<x>> \o d \in Seq(AllLabels) /\ <<x>> \o d # <<>> /\ Head(<<x>> \o d) = x
        /\ Tail(<<x>> \o d) = d
    BY <1>2, <2>1, Prepended
  <2>5. e \in Seq(AllLabels) /\ e # <<>> /\ Head(e) = x /\ Tail(e) = d
    BY <2>3, <2>4
  <2>6. \A l : Has(e, l) <=> x = l \/ Has(d, l)
    BY <2>5, HasTail
  <2>7. ~InLine(e)
    BY <1>2, <2>6 DEF InLine, Holds
  <2>8. QED
    BY <1>3, <2>2, <2>3, <2>7 DEF FreshCode
<1>5. QED
  BY <1>2, <1>3, <1>4

LEMMA LinedChoicesKeep ==
    ASSUME IInv, IInv', WordsOK', ~Posts, QueueFacts, QInv, NEW t \in Threads,
           build \in NodeBuilds,
           \/ LoadTail(t) \/ ReadTail(t) \/ LookAgain(t) \/ SeesEnabled(t) \/ ArriveAt(t)
           \/ CheckEnabled(t)
    PROVE  QInv'
<1>1. QueueSame
  BY DEF LoadTail, ReadTail, LookAgain, SeesEnabled, ArriveAt, CheckEnabled, QueueSame,
         mutexVars, queueVars
<1>2. CASE \E l \in Branching \ {"publish"} : \E n, d :
               At(t, l) /\ GoTo(t, n, d) /\ FreshCode(d) /\ (InLine(d) => n = t)
  BY <1>1, <1>2, ChoosesNode
<1>3. CASE \E l \in Branching \ {"publish"} : \E d : At(t, l) /\ FreshCode(d) /\ Go(t, d)
  BY <1>1, <1>3, ChoosesOutside
<1>4. {"tail", "readTail", "lookAgain", "seesEnabled", "arriveAt", "checkEnabled"}
         \subseteq Branching \ {"publish"}
  BY DEF Branching
<1>5. \A l \in {"claim", "seesEnabled", "arriveAt", "checkEnabled"} :
          FreshCode(<<l>>) /\ ~InLine(<<l>>)
  BY LabelIsFresh, SmallIsOutside
<1>6. \A d \in build.calls.lookFails \cup rounds.refused :
          /\ FreshCode(d) /\ FreshCode(<<"depart">> \o d) /\ FreshCode(<<"departFrom">> \o d)
  BY LookFailsIsFresh
<1>7. CASE LoadTail(t)
  BY <1>2, <1>4, <1>5, <1>6, <1>7 DEF LoadTail
<1>8. CASE ReadTail(t)
  BY <1>2, <1>4, <1>5, <1>6, <1>8, ReadersAreFresh DEF ReadTail, LookedInVain
<1>9. CASE LookAgain(t)
  BY <1>1, <1>2, <1>4, <1>6, <1>9, GoesOnOutside DEF LookAgain, GoOn
<1>10. CASE SeesEnabled(t)
  BY <1>2, <1>3, <1>4, <1>5, <1>6, <1>10 DEF SeesEnabled, LookedInVain
<1>11. CASE ArriveAt(t)
  BY <1>3, <1>4, <1>5, <1>11 DEF ArriveAt
<1>12. CASE CheckEnabled(t)
  BY <1>3, <1>4, <1>6, <1>12, ReadersAreFresh DEF CheckEnabled
<1>13. QED
  BY <1>7, <1>8, <1>9, <1>10, <1>11, <1>12

(* The one that finds nobody waits for the readers in place of its turn.    *)
LEMMA AloneIsQueueCode ==
    ASSUME NEW S, NEW c \in Seq(S), QueueCode(c), Loose(c), Gate.in \notin {"turn", "readers"},
           NodeGate.in \notin {"turn", "readers"}, Gate.out \notin {"turn", "readers"},
           NodeGate.out \notin {"turn", "readers"},
           NEW d, d = [i \in DOMAIN c |-> IF c[i] = "turn" THEN "readers" ELSE c[i]]
    PROVE  QueueCode(d) /\ Loose(d) /\ (Serving(d) <=> Serving(c))
<1>1. DOMAIN d = DOMAIN c /\ \A i \in DOMAIN c : \A l :
          l \notin {"turn", "readers"} => (d[i] = l <=> c[i] = l)
  OBVIOUS
<1>2. \A l : l \notin {"turn", "readers"} => (Has(d, l) <=> Has(c, l))
  BY <1>1 DEF Has
<1>3. ASSUME NEW A, "turn" \notin A, "readers" \notin A, NEW l, l \notin {"turn", "readers"}
      PROVE  (Then(d, A, l) <=> Then(c, A, l)) /\ (NotAfter(d, A, l) <=> NotAfter(c, A, l))
  BY <1>1, <1>3 DEF Then, NotAfter
<1>4. Loose(d) /\ (Serving(d) <=> Serving(c))
  BY <1>2 DEF Loose, Serving
<1>5. Framed(d, Gate.in, Gate.out) /\ Framed(d, NodeGate.in, NodeGate.out)
  BY <1>2, <1>3 DEF QueueCode, Framed
<1>6. "turn" \notin Branching /\ "readers" \notin Branching
  BY DEF Branching
<1>7. \A i \in DOMAIN d : d[i] \in {"publish", "mark"} => i = 1
  BY <1>4 DEF Loose, Has
<1>8. QED
  BY <1>3, <1>4, <1>5, <1>6, <1>7 DEF QueueCode

LEMMA LineStepsKeep ==
    ASSUME IInv, IInv', WordsOK', ~Posts, QueueFacts, QInv, NEW t \in Threads, Lined,
           Enqueue(t) \/ LeaveLine(t)
    PROVE  QInv'
<1>1. UNCHANGED <<build, count, slot, index, local>> /\ code[t] # <<>>
      /\ Head(code[t]) \in {"enqueue", "leaveLine"}
  BY DEF Enqueue, LeaveLine, GoOn, At, queueVars
<1>2. code[t] \in Seq(AllLabels) /\ QueueCode(code[t])
  BY CodesAreWords DEF QInv, QueueCodesOK
<1>3. PICK c : c = Tail(code[t])
  OBVIOUS
<1>4. c \in Seq(AllLabels) /\ \A l : Has(code[t], l) <=> Head(code[t]) = l \/ Has(c, l)
  BY <1>1, <1>2, <1>3, TailIs, HasTail
<1>5. QueueCode(c) /\ Loose(c) /\ (Serving(c) <=> Serving(code[t])) /\ Loose(code[t])
  BY <1>1, <1>2, <1>3, QueueTail
<1>6. NodeGate = [in |-> "enqueue", out |-> "leaveLine"] /\ Gate.in = "enqueue" /\ Gate.out = "leaveLine"
  BY DEF NodeGate, Gate
<1>7. CASE Enqueue(t)
  <2>1. Head(code[t]) = "enqueue"
    BY <1>7 DEF Enqueue, At
  <2>2. ~Serving(code[t])
    BY <1>2, <1>4, <1>6, <2>1 DEF QueueCode, Framed, Serving
  <2>3. PICK d : GoTo(t, t, d) /\ \/ d = c
                                  \/ d = [i \in DOMAIN c |-> IF c[i] = "turn" THEN "readers" ELSE c[i]]
    BY <1>3, <1>7 DEF Enqueue, Rest
  <2>6. QueueCode(d) /\ Loose(d) /\ ~Serving(d)
    BY <1>4, <1>5, <1>6, <2>2, <2>3, AloneIsQueueCode
  <2>7. OneMoves(t, d) /\ d \in Seq(AllLabels)
    BY <1>1, <2>3, <2>6, GoToMovesOne
  <2>8. QED
    BY <1>1, <1>5, <2>2, <2>6, <2>7, QueueIsLeft
<1>8. CASE LeaveLine(t)
  <2>1. Head(code[t]) = "leaveLine" /\ Go(t, c)
    BY <1>3, <1>8 DEF LeaveLine, GoOn, At, Rest
  <2>2. InLine(c) => InLine(code[t])
    BY <1>4, <2>1 DEF InLine, Holds
  <2>3. c # <<>> => at'[t] = at[t] /\ size'[t] = size[t]
    BY <2>1 DEF Go
  <2>4. InLine(c) => at'[t] = t
    BY <2>2, <2>3, NothingLeft DEF QInv, QueueCodesOK, InLine, Holds
  <2>5. code = [u \in Threads |-> code[u]] /\ at = [u \in Threads |-> at[u]] /\ size \in [Threads -> Nat]
    BY DEF IInv, MutexOK, MutexTypeOK, LinedOK, LinedTypeOK, QInv, QueueTypeOK
  <2>6. /\ code' = [code EXCEPT ![t] = c] /\ code'[t] = c /\ size' \in [Threads -> Nat]
        /\ \A u \in Threads \ {t} : at'[u] = at[u] /\ size'[u] = size[u]
    BY <2>1, <2>5 DEF Go
  <2>7. c # <<>> => size'[t] \in offer.sizes
    BY <1>1, <2>3 DEF QInv, QueueCodesOK
  <2>8. OneMoves(t, c)
    BY <1>1, <1>5, <2>4, <2>6, <2>7 DEF OneMoves
  <2>9. Serving(c) => at'[t] = at[t]
    BY <2>3, NothingLeft DEF Serving
  <2>10. QED
    BY <1>1, <1>4, <1>5, <2>8, <2>9, QueueIsLeft
<1>9. QED
  BY <1>7, <1>8

LEMMA QueueStutters ==
    ASSUME QInv, UNCHANGED <<build, code, at, size, count, slot, index, local>>
    PROVE  QInv'
<1>1. /\ MaxCount' = MaxCount /\ offer' = offer /\ flush' = flush /\ Slots' = Slots /\ Lined' = Lined
      /\ NotFlushing(build)' = NotFlushing(build)
      /\ \A i : TooFar(i)' <=> TooFar(i)
      /\ \A c : QueueCode(c)' <=> QueueCode(c)
  BY SameBuildSameQueue
<1>2. /\ \A u, l : At(u, l)' <=> At(u, l)
      /\ \A c : (Serving(c)' <=> Serving(c)) /\ (InLine(c)' <=> InLine(c))
  BY DEF At, Serving, InLine
<1>3. /\ \A u, n : Serves(u, n)' <=> Serves(u, n)
      /\ \A u, n : Writes(u, n)' <=> Writes(u, n)
      /\ \A u : Width(u)' = Width(u)
      /\ \A n, i : Entered(n, i)' <=> Entered(n, i)
  BY <1>1, <1>2 DEF Serves, Writes, Width, Entered, Empty, Serving
<1>4. /\ \A n, i, w : Reached(n, i, w)' <=> Reached(n, i, w)
      /\ \A n, i : Ahead(n, i)' <=> Ahead(n, i)
      /\ \A n : Refuses(n)' <=> Refuses(n)
  BY <1>1, <1>3 DEF Reached, Ahead, Refuses
<1>5. QueueTypeOK'
  BY <1>1 DEF QInv, QueueTypeOK
<1>6. QueueCodesOK'
  BY <1>1, <1>2 DEF QInv, QueueCodesOK, Serving, InLine
<1>7. EntriesOK'
  BY <1>1, <1>3, <1>4 DEF QInv, EntriesOK
<1>8. WritesOK'
  BY <1>1, <1>3, <1>4 DEF QInv, WritesOK
<1>9. (EntriesApart /\ EntriesWritesApart /\ WritesApart)'
  BY <1>1, <1>3 DEF QInv, EntriesApart, EntriesWritesApart, WritesApart, Apart
<1>10. MarksOK'
  BY <1>1, <1>2 DEF QInv, MarksOK, Empty
<1>11. ServingOK' /\ UnservedOK'
  BY <1>1, <1>3, <1>4 DEF QInv, ServingOK, UnservedOK
<1>12. QED
  BY <1>5, <1>6, <1>7, <1>8, <1>9, <1>10, <1>11 DEF QInv

LEMMA WordsHold == IInv => WordsOK
BY CodesAreWords DEF WordsOK

LEMMA QueueStep ==
    ASSUME IInv, IInv', WordsOK', ~Posts, QueueFacts, QInv, NEW t \in Threads, Step(t)
    PROVE  QInv'
<1>1. CASE \/ Leave(t) \/ SetFlag(t) \/ ClearFlag(t) \/ TakeGlobal(t) \/ LeaveGlobal(t)
           \/ RunOwn(t) \/ OpenFlag(t) \/ Close(t) \/ Await(t) \/ WaitWriters(t)
           \/ LowerBarrier(t) \/ Read(t) \/ Indicator(t)
  BY <1>1, PlainStepsKeep
<1>2. CASE \/ Look(t) \/ TryWins(t) \/ TryFails(t) \/ LockTakes(t) \/ CheckLocked(t) \/ WaitFree(t)
  <2>1. CASE build \in Locks
    BY <1>2, <2>1, MutexTables, LockStepsKeep, ReadersCheckKeeps DEF MutexTable
  <2>2. CASE build \in NodeBuilds /\ LinedOK
    <3>1. LinedTable
      BY <2>2, LinedTables
    <3>2. ~Look(t) /\ ~TryWins(t) /\ ~TryFails(t) /\ ~LockTakes(t)
      BY <2>2, <3>1, NoMutexSteps
    <3>3. ~At(t, "check") /\ ~At(t, "waitFree")
      BY <2>2, <3>1, AtReaderWord DEF LinedGate, PostLabels, QueueLabels
    <3>4. QED
      BY <1>2, <3>2, <3>3 DEF CheckLocked, WaitFree
  <2>3. QED
    BY <2>1, <2>2 DEF IInv
<1>3. CASE OfferLooks(t)
  BY <1>3, OfferLooksKeeps
<1>4. CASE \/ Open(t) \/ OfferClaims(t) \/ OfferPublishes(t) \/ OfferMarks(t) \/ FlushLoads(t)
           \/ FlushSwaps(t) \/ FlushSwapFails(t) \/ FlushRuns(t) \/ FlushReturns(t)
  <2>1. line' = line
    BY <1>4 DEF Open, OfferClaims, OfferPublishes, OfferMarks, Fill, FlushLoads, FlushSwaps,
                FlushSwapFails, FlushRuns, FlushReturns, mutexVars
  <2>2. CASE Open(t) \/ OfferClaims(t) \/ OfferPublishes(t) \/ OfferMarks(t)
    BY <2>1, <2>2, OpensQueue, OfferClaimsKeeps, OfferPublishesKeeps, OfferMarksKeeps
  <2>3. CASE FlushLoads(t) \/ FlushSwaps(t) \/ FlushSwapFails(t) \/ FlushRuns(t) \/ FlushReturns(t)
    BY <2>1, <2>3, FlushLoadsKeeps, FlushSwapsKeeps, FlushRunsKeeps, FlushReturnsKeeps
  <2>4. QED
    BY SMTT(30), <1>4, <2>2, <2>3
<1>5. CASE FlushIsStuck(t) \/ BarrierIsStuck(t)
  BY <1>5, QueueStutters DEF FlushIsStuck, BarrierIsStuck, vars, callVars, queueVars
<1>6. QED
  BY <1>1, <1>2, <1>3, <1>4, <1>5 DEF Step, StepBesides

LEMMA NoPostSteps ==
    ASSUME LinedOK, LinedTable, ~Posts, NEW t \in Threads
    PROVE  \A l \in {"post", "isActive", "activate", "tryBarrier", "tryLine", "answered",
                     "combine", "visit"} : ~At(t, l)
<1>1. code[t] # <<>> => Head(code[t]) \in QueueLabels \cup LookWords
  BY LinedHead DEF LinedOK, LinedTable, LinedGates, LinedGate
<1>2. QED
  BY <1>1 DEF At, QueueLabels, LookWords, ReaderWords

LEMMA QueueNodeStep ==
    ASSUME IInv, IInv', WordsOK', ~Posts, QueueFacts, QInv, NEW t \in Threads, NodeStep(t)
    PROVE  QInv'
<1>1. build \in NodeBuilds /\ LinedOK
  BY NoNodeSteps DEF IInv
<1>2. LinedTable /\ Lined
  BY <1>1, LinedTables DEF LinedTable
<1>3. CASE \/ Turn(t) \/ Spin(t) \/ DepartFrom(t) \/ Enable(t) \/ Disable(t) \/ WaitSpinners(t)
  BY <1>3, LinedPlainStepsKeep
<1>4. CASE \/ LoadTail(t) \/ ReadTail(t) \/ LookAgain(t) \/ SeesEnabled(t) \/ ArriveAt(t)
           \/ CheckEnabled(t)
  BY <1>1, <1>4, LinedChoicesKeep
<1>5. CASE Enqueue(t) \/ LeaveLine(t)
  BY <1>2, <1>5, LineStepsKeep
<1>6. ~(\/ Post(t) \/ IsActive(t) \/ Activate(t) \/ TryBarrier(t) \/ TryLine(t) \/ Answered(t)
        \/ Combine(t) \/ Visit(t) \/ Clean(t))
  BY <1>1, <1>2, NoPostSteps DEF Post, IsActive, Activate, TryBarrier, TryLine, Answered, Combine,
                                 Visit, Clean, GoOn
<1>7. QED
  BY <1>3, <1>4, <1>5, <1>6 DEF NodeStep

LEMMA QueueNext ==
    ASSUME IInv, IInv', WordsOK', ~Posts, QueueFacts, QInv, [NodeNext]_allVars
    PROVE  QInv'
BY QueueStutters, QueueStep, CallKeepsQueue, QueueNodeStep DEF allVars, vars, callVars, queueVars,
   NodeNext, Next

LEMMA InitQInv ==
    ASSUME NodeInit, QueueFacts
    PROVE  QInv
<1>1. /\ code = [t \in Threads |-> <<>>]
      /\ count = [n \in build.nodes |-> offer.capacity]
      /\ slot = [n \in build.nodes |-> [i \in Slots |-> Empty]]
      /\ index = [t \in Threads |-> 0] /\ size = [t \in Threads |-> 0]
      /\ local = [t \in Threads |-> NotFlushing(build)]
  BY DEF NodeInit, Start
<1>2. \A t \in Threads : \A l : ~At(t, l)
  BY <1>1 DEF At
<1>3. \A t \in Threads : \A n : ~Serves(t, n) /\ ~Writes(t, n)
  BY <1>1, <1>2, NothingLeft DEF Serves, Serving, Writes
<1>4. \A n \in build.nodes : \A i \in Slots : slot[n][i] = Empty /\ ~Entered(n, i)
  BY <1>1 DEF Entered
<1>5. EntriesOK /\ WritesOK /\ EntriesApart /\ EntriesWritesApart /\ WritesApart
  BY <1>3, <1>4 DEF EntriesOK, WritesOK, EntriesApart, EntriesWritesApart, WritesApart
<1>6. MarksOK /\ ServingOK
  BY <1>2, <1>3, <1>4 DEF MarksOK, ServingOK
<1>7. UnservedOK
  BY <1>1 DEF QueueFacts, TooFar, UnservedOK, Refuses
<1>8. QueueTypeOK
  BY <1>1 DEF QueueFacts, MaxCount, Empty, NotFlushing, offer, QueueTypeOK
<1>9. QueueCodesOK
  <2>1. QueueCode(<<>>) /\ ~Serving(<<>>) /\ QueueCode(<<"await">>)
    BY SmallQueueCode
  <2>2. ~InLine(<<>>)
    BY NothingLeft DEF InLine, Holds
  <2>3. QED
    BY <1>1, <1>2, <2>1, <2>2 DEF QueueCodesOK
<1>10. QED
  BY <1>5, <1>6, <1>7, <1>8, <1>9 DEF QInv

(****************************************************************************)
(* What follows from these invariants.                                      *)
(****************************************************************************)
LEMMA ServedByHolder ==
    ASSUME IInv, ~Posts, QInv, NEW u \in Threads, NEW n, Serves(u, n)
    PROVE  /\ ~Lined => owner[n] = u
           /\ Lined => u = n /\ \E j \in DOMAIN line : line[j] = n
BY ServerHolds, MutexTables DEF Serves, QInv, IInv, MutexTable, LinedOK, LineOK

LEMMA OwedIsReached ==
    ASSUME QInv, NEW n \in build.nodes, NEW i \in Slots, slot[n][i].by # NULL
    PROVE  \E u \in Threads : Serves(u, n)
BY DEF Entered, Empty, QInv, EntriesOK, Reached

LEMMA PublishedIsReached ==
    ASSUME IInv, QInv, NEW t \in Threads, At(t, "publish")
    PROVE  \E u \in Threads : Serves(u, at[t])
BY NodeOf DEF At, Writes, QInv, WritesOK, Reached

LEMMA QueueState ==
    ASSUME IInv, ~Posts, QInv
    PROVE  OneServes /\ OwedServed
BY OneServer, NullAssumption, OwedIsReached, ServedByHolder DEF OneServes, QInv, OwedServed

LEMMA FreeQueuesOweNothing ==
    ASSUME IInv, ~Posts, QInv
    PROVE  FreeLockOwesNothing
BY NullAssumption, ServedByHolder, OwedIsReached, PublishedIsReached DEF IsServed,
   FreeLockOwesNothing

LEMMA InsideHoldsGate ==
    ASSUME MutexOK, MutexTable, NEW t \in Threads, At(t, "own") \/ At(t, "critical")
    PROVE  Holds(code[t], Gate.in, Gate.out)
BY InFlush DEF Guarded, MutexLabels

LEMMA MutexInOrder ==
    ASSUME build \in Locks, MutexOK, IInv, ~Posts, QInv, MutexOwn, ~Hierarchical => build.nodes = {1}
    PROVE  OwnOperationsInOrder
<1>1. MutexTable
  BY MutexTables
<1>2. ASSUME NEW t \in Threads, NEW u \in Threads, Holds(code[t], Gate.in, Gate.out),
             Holds(code[u], Gate.in, Gate.out)
      PROVE  t = u
  <2>1. at[t] \in build.nodes /\ at[u] \in build.nodes
    BY <1>2, HoldersHaveNodes DEF Holds
  <2>2. CASE Hierarchical
    BY <1>1, <1>2, <2>2 DEF MutexOK, Gate, MutexTable
  <2>3. CASE ~Hierarchical
    BY <1>1, <1>2, <2>1, <2>3 DEF MutexOK, Gate, MutexTable
  <2>4. QED
    BY <2>2, <2>3
<1>3. ASSUME NEW u \in Threads, NEW n, Serves(u, n)
      PROVE  Holds(code[u], Gate.in, Gate.out)
  BY <1>3, ServerHolds DEF QInv, Serves
<1>4. ASSUME NEW t \in Threads, At(t, "own") \/ At(t, "critical"), NEW n \in Owed(t)
      PROVE  FALSE
  BY <1>1, <1>2, <1>3, <1>4, NullAssumption, OwedIsReached, InsideHoldsGate DEF Owed, MutexOwn,
     NotInOwn, Serves
<1>5. ASSUME NEW t \in Threads, At(t, "read")
      PROVE  Owed(t) = {}
  BY <1>5, AtReader, ReaderTails DEF ReaderWords, MutexOwn, NoneOwed, Owed
<1>6. ASSUME NEW t \in Threads, At(t, "publish"), NEW n \in Owed(t)
      PROVE  n = at[t]
  BY <1>2, <1>3, <1>6, NullAssumption, OwedIsReached, PublishedIsReached DEF Owed, Serves
<1>7. QED
  BY <1>4, <1>5, <1>6 DEF OwnOperationsInOrder, IsLater

(* Whom readers spin on has finished its flush, and is the first.           *)
LEMMA SpinnersOweNothing ==
    ASSUME build \in NodeBuilds, LinedOK, LinedTable, IInv, ~Posts, QInv, LinedOwn,
           NEW t \in Threads, code[t] = <<"read", "departFrom">>
    PROVE  Owed(t) = {}
<1>1. code[t] \in SpinningCodes /\ code[t] # <<"checkEnabled">>
  BY DEF SpinningCodes
<1>2. LinedGate.spins /\ LinedGate \in LinedGates
  BY <1>1, LinedCodesDoNotRead DEF LinedTable, LookingCodes, ReaderCodes, ArrivedCodes,
     ReadingCodes, LinedOK, LinedCodeOK
<1>3. PICK u \in Threads : u = at[t] /\ SpunOn(code[u]) /\ ~Has(code[u], "disable")
  BY <1>1 DEF LinedOK, SpinnersOK
<1>4. LinedCode(code[u], LinedGate)
  BY <1>2, <1>3, HoldersHaveLinedCode
<1>5. InLine(code[u]) /\ ~Has(code[u], "turn") /\ ~Has(code[u], "flush")
  BY <1>2, <1>3, <1>4 DEF LinedCode, Then, Has, SpunOn, InLine, Holds, Guarded
<1>6. PICK j \in DOMAIN line : line[j] = u
  BY <1>3, <1>5 DEF LinedOK, LineOK
<1>7. j = 1
  <2>1. ~(j > 1)
    BY <1>5, <1>6 DEF LinedOK, LineOK
  <2>2. QED
    BY <1>6, <2>1 DEF LinedOK, LinedTypeOK
<1>8. ASSUME NEW n \in Owed(t)
      PROVE  FALSE
  <2>1. IsLater(n, u)
    BY <1>1, <1>3, <1>8 DEF LinedOwn, Follows, Trails, OwedInLine
  <2>2. n = u
    <3>1. ASSUME NEW i \in DOMAIN line, NEW k \in DOMAIN line, line[k] = u, i < k
          PROVE  FALSE
      BY <1>6, <1>7, <3>1 DEF LinedOK, LineOK, LinedTypeOK
    <3>2. QED
      BY <2>1, <3>1 DEF IsLater
  <2>3. PICK i \in Slots : n \in build.nodes /\ slot[n][i].by = t
    BY <1>8 DEF Owed
  <2>4. PICK v \in Threads : Serves(v, n)
    BY <2>3, NullAssumption, OwedIsReached
  <2>5. v = n
    BY <2>4, ServedByHolder DEF LinedTable
  <2>6. QED
    BY <1>5, <2>2, <2>4, <2>5 DEF Serves, Serving
<1>9. QED
  BY <1>8

LEMMA LinedInOrder ==
    ASSUME build \in NodeBuilds, LinedOK, LinedTable, IInv, ~Posts, QInv, LinedOwn
    PROVE  OwnOperationsInOrder
<1>1. ASSUME NEW t \in Threads, At(t, "own") \/ At(t, "critical"), NEW n \in Owed(t)
      PROVE  FALSE
  <2>1. InLine(code[t]) /\ ~Has(code[t], "turn")
    BY <1>1, LinedInside
  <2>2. PICK j \in DOMAIN line : line[j] = t
    BY <2>1 DEF LinedOK, LineOK
  <2>3. j = 1
    <3>1. ~(j > 1)
      BY <2>1, <2>2 DEF LinedOK, LineOK
    <3>2. QED
      BY <2>2, <3>1 DEF LinedOK, LinedTypeOK
  <2>4. at[t] = t
    BY <2>1 DEF QInv, QueueCodesOK, LinedTable
  <2>5. IsLater(n, t)
    BY <1>1, <2>1, <2>4 DEF LinedOwn, Follows, OwedInLine
  <2>6. n = t
    <3>1. ASSUME NEW i \in DOMAIN line, NEW k \in DOMAIN line, line[k] = t, i < k
          PROVE  FALSE
      BY <2>2, <2>3, <3>1 DEF LinedOK, LineOK, LinedTypeOK
    <3>2. QED
      BY <2>5, <3>1 DEF IsLater
  <2>7. PICK i \in Slots : n \in build.nodes /\ slot[n][i].by = t
    BY <1>1 DEF Owed
  <2>8. PICK v \in Threads : Serves(v, n)
    BY <2>7, NullAssumption, OwedIsReached
  <2>9. v = t
    BY <2>6, <2>8, ServedByHolder DEF LinedTable
  <2>10. QED
    BY <2>4, <2>6, <2>7, <2>8, <2>9 DEF LinedOwn, NotInOwn, Serves
<1>2. ASSUME NEW t \in Threads, At(t, "read")
      PROVE  Owed(t) = {}
  <2>1. "read" \in LookWords /\ "read" \notin QueueLabels /\ "read" \notin PostLabels
    BY DEF LookWords, ReaderWords, QueueLabels, PostLabels
  <2>2. code[t] # <<>> /\ Head(code[t]) = "read"
        /\ \/ code[t] \in LookingCodes
           \/ code[t] \in SpinningCodes
           \/ LinedGate.labels = PostLabels
    BY <1>2, <2>1, AtLookWord DEF LinedTable, LinedGates
  <2>3. CASE code[t] \in LookingCodes
    BY <2>3 DEF LinedOwn, NoneOwed, Owed
  <2>4. CASE code[t] \in SpinningCodes
    BY <2>2, <2>4, LookingTails, SpinnersOweNothing
  <2>5. LinedGate.labels # PostLabels
    BY DEF QueueLabels, PostLabels, LinedGate
  <2>6. QED
    BY <2>2, <2>3, <2>4, <2>5
<1>3. ASSUME NEW t \in Threads, At(t, "publish"), NEW n \in Owed(t)
      PROVE  IsLater(n, at[t])
  BY <1>3, LooseHead DEF LinedOwn, Follows, Trails, OwedInLine
<1>4. QED
  BY <1>1, <1>2, <1>3 DEF OwnOperationsInOrder

(****************************************************************************)
(* The order of a thread's own operations is kept by every step.            *)
(****************************************************************************)
OthersStay(t) == \A u \in Threads \ {t} : code'[u] = code[u] /\ at'[u] = at[u]
StoresNothing == \A n \in build.nodes : \A i \in Slots : slot'[n][i].by \in {slot[n][i].by, NULL}

LEMMA FlushEmpties ==
    ASSUME IInv, ~Posts, QInv, NEW t \in Threads, FlushRuns(t) \/ FlushReturns(t)
    PROVE  StoresNothing
<1>1. /\ slot \in [build.nodes -> [Slots -> [by : Threads \cup {NULL}, size : Nat]]]
      /\ Empty.by = NULL
  BY DEF QInv, QueueTypeOK, Empty
<1>2. At(t, "flush")
  BY DEF FlushRuns, FlushReturns
<1>3. PICK m \in build.nodes : m = at[t]
  BY <1>2, NodeOf DEF At
<1>4. CASE FlushRuns(t)
  <2>1. PICK p \in Slots : p = local[t].pos
    BY <1>4 DEF FlushRuns
  <2>7. PICK f \in [by : Threads \cup {NULL}, size : Nat] : f = slot[m][p]
    BY SMTT(30), <1>1, <2>1
  <2>8. PICK e : /\ e = f \/ e = [f EXCEPT !.by = NULL] \/ e = Empty
                 /\ slot' = [slot EXCEPT ![m][p] = e]
    BY Zenon, <1>3, <1>4, <2>1, <2>7 DEF FlushRuns
  <2>2. e.by \in {slot[m][p].by, NULL}
    BY <1>1, <2>7, <2>8
  <2>3. slot'[m] = [slot[m] EXCEPT ![p] = e] /\ \A n \in build.nodes \ {m} : slot'[n] = slot[n]
    BY <1>1, <2>8
  <2>4. slot[m] \in [Slots -> [by : Threads \cup {NULL}, size : Nat]]
    BY <1>1
  <2>5. slot'[m][p] = e /\ \A i \in Slots \ {p} : slot'[m][i] = slot[m][i]
    BY <2>3, <2>4
  <2>6. QED
    BY <2>2, <2>3, <2>5 DEF StoresNothing
<1>5. CASE FlushReturns(t)
  <2>1. CASE flush.clearsAtEnd
    BY <1>1, <1>3, <1>5, <2>1 DEF FlushReturns, StoresNothing
  <2>2. CASE ~flush.clearsAtEnd
    BY <1>5, <2>2 DEF FlushReturns, StoresNothing
  <2>3. QED
    BY <2>1, <2>2
<1>6. QED
  BY <1>4, <1>5

LEMMA OfferWrites ==
    ASSUME IInv, ~Posts, QueueFacts, QInv, NEW t \in Threads, OfferPublishes(t) \/ OfferMarks(t)
    PROVE  /\ OfferMarks(t) => StoresNothing
           /\ \A n \in build.nodes : \A i \in Slots :
                  slot'[n][i].by \in {slot[n][i].by, NULL} \/ (n = at[t] /\ slot'[n][i].by = t)
<1>1. slot \in [build.nodes -> [Slots -> [by : Threads \cup {NULL}, size : Nat]]]
  BY DEF QInv, QueueTypeOK
<1>2. At(t, "publish") \/ At(t, "mark")
  BY DEF OfferPublishes, OfferMarks, GoOn
<1>3. PICK m \in build.nodes : m = at[t]
  BY <1>2, NodeOf DEF At
<1>4. PICK e : /\ slot' = [slot EXCEPT ![m][index[t]] = e]
               /\ e.by = t \/ e.by = NULL
               /\ OfferMarks(t) => e.by = NULL
  <2>1. CASE OfferPublishes(t) /\ ~OfferMarks(t)
    <3>1. [by |-> t, size |-> size[t]].by = t
      OBVIOUS
    <3>2. QED
      BY <1>3, <2>1, <3>1 DEF OfferPublishes, Fill
  <2>2. CASE OfferMarks(t)
    <3>1. [by |-> NULL, size |-> offer.capacity - index[t]].by = NULL
      OBVIOUS
    <3>2. QED
      BY <1>3, <2>2, <3>1 DEF OfferMarks, Fill
  <2>3. QED
    BY <2>1, <2>2
<1>5. slot'[m] = [slot[m] EXCEPT ![index[t]] = e] /\ \A n \in build.nodes \ {m} : slot'[n] = slot[n]
  BY <1>1, <1>4
<1>6. slot[m] \in [Slots -> [by : Threads \cup {NULL}, size : Nat]]
  BY <1>1
<1>7. \A i \in Slots : slot'[m][i] = slot[m][i] \/ slot'[m][i] = e
  BY <1>5, <1>6
<1>8. QED
  BY <1>3, <1>4, <1>5, <1>7 DEF StoresNothing

LEMMA OthersStayPut ==
    ASSUME IInv, NEW t \in Threads, Call(t) \/ Step(t) \/ NodeStep(t)
    PROVE  OthersStay(t)
<1>1. code = [u \in Threads |-> code[u]] /\ at = [u \in Threads |-> at[u]]
  BY DEF IInv, MutexOK, MutexTypeOK, LinedOK, LinedTypeOK
<1>2. CASE UNCHANGED <<code, at>>
  BY <1>2 DEF OthersStay
<1>3. ASSUME NEW d, code' = [code EXCEPT ![t] = d],
             NEW n, at' = [at EXCEPT ![t] = n] \/ at' = at
      PROVE  OthersStay(t)
  BY <1>1, <1>3 DEF OthersStay
<1>4. CASE \E d : Go(t, d)
  BY <1>3, <1>4 DEF Go
<1>5. CASE \E n, d : GoTo(t, n, d)
  BY <1>3, <1>5 DEF GoTo
<1>6. CASE Call(t)
  BY <1>3, <1>6 DEF Call
<1>7. CASE Indicator(t)
  BY <1>4, <1>7 DEF Indicator, Arrive, Depart, WaitReaders, GoOn
<1>8. CASE \/ Look(t) \/ TryWins(t) \/ TryFails(t) \/ LockTakes(t) \/ Leave(t)
           \/ SetFlag(t) \/ ClearFlag(t) \/ TakeGlobal(t) \/ LeaveGlobal(t) \/ RunOwn(t)
           \/ Open(t) \/ OpenFlag(t) \/ OfferLooks(t) \/ OfferClaims(t)
  <2>1. \E d : Go(t, d)
    BY <1>8 DEF Look, TryWins, TryFails, LockTakes, Leave, SetFlag, ClearFlag, TakeGlobal,
                LeaveGlobal, RunOwn, Open, OpenFlag, OfferLooks, OfferClaims, GoOn
  <2>2. QED
    BY <1>4, <2>1
<1>9. CASE \/ OfferPublishes(t) \/ OfferMarks(t) \/ Close(t) \/ Await(t)
           \/ FlushLoads(t) \/ FlushSwaps(t) \/ FlushSwapFails(t) \/ FlushRuns(t) \/ FlushReturns(t)
           \/ WaitWriters(t) \/ CheckLocked(t) \/ WaitFree(t) \/ LowerBarrier(t) \/ Read(t)
  <2>1. \E d : Go(t, d)
    BY <1>9 DEF OfferPublishes, OfferMarks, Close, Await, FlushLoads, FlushSwaps, FlushSwapFails,
                FlushFollows, FlushRuns, FlushReturns, WaitWriters, CheckLocked, WaitFree,
                LowerBarrier, Read, GoOn
  <2>2. QED
    BY <1>4, <2>1
<1>10. CASE FlushIsStuck(t) \/ BarrierIsStuck(t) \/ Visit(t)
  BY <1>2, <1>10 DEF FlushIsStuck, BarrierIsStuck, Visit, vars, callVars
<1>11. CASE \/ LoadTail(t) \/ Enqueue(t) \/ Turn(t) \/ LeaveLine(t)
            \/ ReadTail(t) \/ LookAgain(t) \/ SeesEnabled(t) \/ ArriveAt(t) \/ CheckEnabled(t)
            \/ Spin(t) \/ DepartFrom(t) \/ Enable(t) \/ Disable(t) \/ WaitSpinners(t)
  <2>1. (\E d : Go(t, d)) \/ \E n, d : GoTo(t, n, d)
    BY <1>11 DEF LoadTail, Enqueue, Turn, LeaveLine, ReadTail, LookAgain, SeesEnabled, ArriveAt,
                 CheckEnabled, Spin, DepartFrom, Enable, Disable, WaitSpinners, LookedInVain, GoOn
  <2>2. QED
    BY <1>4, <1>5, <2>1
<1>12. CASE \/ Post(t) \/ IsActive(t) \/ Activate(t) \/ TryBarrier(t) \/ TryLine(t) \/ Answered(t)
            \/ Combine(t) \/ Clean(t)
  <2>1. \E d : Go(t, d)
    BY <1>12 DEF Post, IsActive, Activate, TryBarrier, TryLine, Answered, Combine, Clean, GoOn
  <2>2. QED
    BY <1>4, <2>1
<1>13. QED
  BY <1>6, <1>7, <1>8, <1>9, <1>10, <1>11, <1>12 DEF Step, StepBesides, NodeStep

LEMMA SomebodySteps ==
    ASSUME [NodeNext]_allVars
    PROVE  UNCHANGED allVars \/ \E t \in Threads : Call(t) \/ Step(t) \/ NodeStep(t)
BY DEF NodeNext, Next

LEMMA WhoStores ==
    ASSUME IInv, ~Posts, QueueFacts, QInv, NEW t \in Threads, Call(t) \/ Step(t) \/ NodeStep(t)
    PROVE  StoresNothing \/ OfferPublishes(t)
<1>1. CASE slot' = slot
  BY <1>1 DEF StoresNothing
<1>2. CASE OfferMarks(t) \/ FlushRuns(t) \/ FlushReturns(t)
  BY <1>2, FlushEmpties, OfferWrites
<1>3. ASSUME NodeStep(t)
      PROVE  slot' = slot
  <2>1. build \in NodeBuilds /\ LinedOK
    BY <1>3, NoNodeSteps DEF IInv
  <2>2. ~Post(t) /\ ~Visit(t)
    BY <2>1, NoPostSteps, LinedTables DEF Post, Visit, GoOn
  <2>3. QED
    BY <1>3, <2>2 DEF NodeStep, LoadTail, Enqueue, Turn, LeaveLine, ReadTail, LookAgain,
       SeesEnabled, ArriveAt, CheckEnabled, Spin, DepartFrom, Enable, Disable, WaitSpinners,
       IsActive, Activate, TryBarrier, TryLine, Answered, Combine, Clean, queueVars
<1>4. ASSUME Call(t) \/ Indicator(t)
      PROVE  slot' = slot
  BY <1>4 DEF Call, Indicator, Arrive, Depart, WaitReaders, queueVars
<1>5. ASSUME \/ Look(t) \/ TryWins(t) \/ TryFails(t) \/ LockTakes(t) \/ Leave(t)
             \/ SetFlag(t) \/ ClearFlag(t) \/ TakeGlobal(t) \/ LeaveGlobal(t) \/ RunOwn(t)
             \/ Open(t) \/ OpenFlag(t) \/ OfferLooks(t) \/ OfferClaims(t) \/ Close(t) \/ Await(t)
             \/ FlushLoads(t) \/ FlushSwaps(t) \/ FlushSwapFails(t) \/ FlushIsStuck(t)
             \/ WaitWriters(t) \/ BarrierIsStuck(t) \/ CheckLocked(t) \/ WaitFree(t)
             \/ LowerBarrier(t) \/ Read(t)
      PROVE  slot' = slot
  BY <1>5 DEF Look, TryWins, TryFails, LockTakes, Take, Leave, SetFlag, ClearFlag, TakeGlobal,
       LeaveGlobal, RunOwn, Open, OpenFlag, OfferLooks, OfferClaims, Close, Await, FlushLoads,
       FlushSwaps, FlushSwapFails, FlushIsStuck, WaitWriters, BarrierIsStuck, CheckLocked, WaitFree,
       LowerBarrier, Read, queueVars, vars
<1>6. QED
  BY <1>1, <1>2, <1>3, <1>4, <1>5 DEF Step, StepBesides

AtNodes == \A t \in Threads : code[t] # <<>> => at[t] \in build.nodes

(* Whoever serves a queue has nothing in it.                                *)
LEMMA NobodyRunsOwn ==
    ASSUME IInv, ~Posts, QueueFacts, QInv, AtNodes', OneServes, OneServes', OwedServed,
           \A t \in Threads : NotInOwn(t),
           NEW s \in Threads, OthersStay(s), StoresNothing \/ OfferPublishes(s), build' = build
    PROVE  \A t \in Threads : NotInOwn(t)'
<1>1. SUFFICES ASSUME NEW t \in Threads, Serving(code'[t]), NEW i \in Slots, slot'[at'[t]][i].by = t
               PROVE  FALSE
  BY SameBuildSameGate DEF NotInOwn, Serving
<1>2. PICK m \in build.nodes : m = at'[t]
  BY <1>1, NothingLeft DEF AtNodes, Serving
<1>3. \A u \in Threads : Serves(u, m)' => u = t
  BY <1>1, <1>2 DEF OneServes, Serves, Serving
<1>4. \A u \in Threads \ {s} : Serves(u, m)' <=> Serves(u, m)
  BY DEF OthersStay, Serves, Serving
<1>5. ASSUME NEW u \in Threads, Serves(u, m), u # t \/ s # t
      PROVE  u = t
  <2>1. CASE u # s
    BY <1>3, <1>4, <1>5, <2>1
  <2>2. CASE u = s
    BY <1>1, <1>2, <1>4, <1>5, <2>2 DEF Serves, Serving, OneServes
  <2>3. QED
    BY <2>1, <2>2
<1>6. CASE slot[m][i].by = t
  BY <1>5, <1>6 DEF OwedServed, NotInOwn, Serves
<1>7. CASE slot[m][i].by # t
  <2>1. slot'[m][i].by \notin {slot[m][i].by, NULL}
    BY <1>1, <1>2, <1>7, NullAssumption
  <2>2. OfferPublishes(s) /\ m = at[s] /\ t = s
    BY <1>1, <1>2, <2>1, OfferWrites DEF StoresNothing
  <2>3. At(s, "publish")
    BY <2>2 DEF OfferPublishes
  <2>4. PICK u \in Threads : Serves(u, m)
    BY <2>2, <2>3, PublishedIsReached
  <2>5. ~Serving(code[s])
    BY <2>3, CodesAreWords, QueueTail DEF QInv, QueueCodesOK, At, Branching, Serving
  <2>6. u # s
    BY <2>4, <2>5 DEF Serves
  <2>7. QED
    BY <1>3, <1>4, <2>2, <2>4, <2>6
<1>8. QED
  BY <1>6, <1>7

(* Over mutexes only a look at the lock that finds it free lets a reader    *)
(* in.                                                                      *)
LEMMA EntersReading ==
    ASSUME build \in Locks, MutexOK, NEW t \in Threads, Call(t) \/ Step(t),
           code'[t] \in ReadingCodes
    PROVE  code[t] \in ReadingCodes \/ (CheckLocked(t) /\ ~ReadersSeeLocked)
<1>1. MutexTable /\ Gate \in MutexGates
  BY MutexTables DEF MutexTable
<1>2. \A d : (\E u \in {t} : Go(u, d) \/ code' = [code EXCEPT ![t] = d]) => code'[t] = d
  BY DEF MutexOK, MutexTypeOK, Go
<1>3. ASSUME Quiet(t)
      PROVE  code[t] \in ReadingCodes
  BY <1>2, <1>3 DEF Quiet, NoMore
<1>4. \A d : MutexCode(d, Gate) => d \notin ReadingCodes
  BY MutexCodesDoNotRead DEF ReaderCodes, ArrivedCodes
<1>5. ASSUME Call(t)
      PROVE  FALSE
  <2>1. PICK d \in {rounds.start} \cup build.calls.others : code' = [code EXCEPT ![t] = d]
    BY <1>5 DEF Call
  <2>2. d \notin ReadingCodes
    BY <1>1, <2>1 DEF MutexTable, Fresh, ArrivedCodes
  <2>3. QED
    BY <1>2, <2>1, <2>2
<1>6. ASSUME NEW l \in MutexLabels, GoOn(t, l)
      PROVE  FALSE
  BY <1>1, <1>2, <1>6, TailHolds DEF GoOn
<1>7. ASSUME NEW d \in build.calls.first \cup {build.calls.help}, Go(t, d)
      PROVE  FALSE
  BY <1>1, <1>2, <1>4, <1>7 DEF MutexTable, Won
<1>8. CASE \/ Look(t) \/ TryFails(t) \/ RunOwn(t) \/ Open(t) \/ OpenFlag(t) \/ OfferLooks(t)
           \/ OfferClaims(t) \/ OfferPublishes(t) \/ OfferMarks(t) \/ Close(t) \/ Await(t)
           \/ FlushLoads(t) \/ FlushSwaps(t) \/ FlushSwapFails(t) \/ FlushRuns(t)
           \/ FlushReturns(t) \/ WaitWriters(t) \/ WaitFree(t) \/ LowerBarrier(t) \/ Read(t)
  BY <1>1, <1>3, <1>8, LookIsQuiet, TryFailsIsQuiet, PlainIsQuiet, OpenIsQuiet, OfferLooksIsQuiet,
     OfferClaimsIsQuiet, OfferPublishesIsQuiet, FlushLoadsIsQuiet, FlushIsQuiet, ReaderIsQuiet
<1>9. CASE \/ TryWins(t) \/ LockTakes(t) \/ Leave(t) \/ SetFlag(t) \/ ClearFlag(t)
           \/ TakeGlobal(t) \/ LeaveGlobal(t) \/ WaitReaders(t)
  BY <1>6, <1>7, <1>9 DEF MutexLabels, TryWins, LockTakes, Leave, SetFlag, ClearFlag, TakeGlobal,
     LeaveGlobal, WaitReaders
<1>10. ASSUME Arrive(t) \/ Depart(t)
       PROVE  FALSE
  <2>1. PICK l \in {"arrive", "depart"} : GoOn(t, l)
    BY <1>10 DEF Arrive, Depart
  <2>2. code[t] \in ReaderCodes /\ Head(code[t]) = l
    BY <2>1, AtReader DEF GoOn, ReaderWords
  <2>3. Tail(code[t]) \notin ReadingCodes
    <3>1. Tail(code[t]) \in {<<"check", "lower", "read", "depart">>, <<>>,
                            <<"waitFree", "arrive", "check", "lower", "read", "depart">>}
      BY <2>2, ReaderTails
    <3>2. <<"check", "lower", "read", "depart">> \notin ReadingCodes /\ <<>> \notin ReadingCodes
          /\ <<"waitFree", "arrive", "check", "lower", "read", "depart">> \notin ReadingCodes
      BY DEF ReadingCodes
    <3>3. QED
      BY <3>1, <3>2
  <2>4. QED
    BY <1>2, <2>1, <2>3 DEF GoOn, Rest
<1>11. CASE CheckLocked(t) /\ ReadersSeeLocked
  BY <1>2, <1>11, ReadersLook DEF CheckLocked, ReadingCodes
<1>12. CASE FlushIsStuck(t) \/ BarrierIsStuck(t)
  BY <1>12 DEF FlushIsStuck, BarrierIsStuck, vars, callVars
<1>13. QED
  BY <1>5, <1>8, <1>9, <1>10, <1>11, <1>12 DEF Step, StepBesides, Indicator

LEMMA MutexOwnKept ==
    ASSUME IInv, build \in Locks, MutexOK, ~Posts, QueueFacts, QInv, AtNodes', OneServes,
           OneServes', OwedServed, MutexOwn, ~Hierarchical => build.nodes = {1},
           [NodeNext]_allVars
    PROVE  MutexOwn'
<1>1. build' = build /\ Slots' = Slots
  BY BuildIsFixed, SameBuildSameGate
<1>2. CASE UNCHANGED allVars
  BY <1>1, <1>2 DEF allVars, vars, callVars, queueVars, MutexOwn, NotInOwn, NoneOwed, Serving
<1>3. ASSUME NEW s \in Threads, Call(s) \/ Step(s)
      PROVE  MutexOwn'
  <2>1. OthersStay(s) /\ (StoresNothing \/ OfferPublishes(s))
    BY <1>3, OthersStayPut, WhoStores
  <2>2. \A t \in Threads : NotInOwn(t)'
    BY <1>1, <2>1, NobodyRunsOwn DEF MutexOwn
  <2>3. ASSUME NEW t \in Threads, code'[t] \in ReadingCodes
        PROVE  NoneOwed(t)'
    <3>1. ASSUME NoneOwed(t), ~OfferPublishes(s) \/ s # t
          PROVE  NoneOwed(t)'
      BY <1>1, <2>1, <3>1, NullAssumption, OfferWrites DEF NoneOwed, StoresNothing
    <3>2. CASE code[t] \in ReadingCodes
      BY <3>1, <3>2 DEF At, ReadingCodes, MutexOwn, OfferPublishes
    <3>3. CASE code[t] \notin ReadingCodes
      <4>1. s = t
        BY <2>1, <2>3, <3>3 DEF OthersStay
      <4>2. CheckLocked(t) /\ ~ReadersSeeLocked
        BY <1>3, <2>3, <3>3, <4>1, EntersReading
      <4>3. ASSUME NEW n \in build.nodes, NEW i \in Slots, slot[n][i].by = t
            PROVE  FALSE
        BY <4>2, <4>3, ServerHolds, HoldersAreSeen, MutexTables DEF OwedServed, QInv, Serves
      <4>4. ~OfferPublishes(t)
        BY <4>2 DEF OfferPublishes, CheckLocked, At
      <4>5. QED
        BY <3>1, <4>1, <4>3, <4>4 DEF NoneOwed
    <3>4. QED
      BY <3>2, <3>3
  <2>4. QED
    BY <2>2, <2>3 DEF MutexOwn
<1>4. QED
  BY <1>2, <1>3, SomebodySteps, NoNodeSteps

(* In the builds with a queue of nodes: what a code has that follows        *)
(* another thread, or reads.                                                *)
HeedingWords == {"claim", "publish", "seesEnabled", "arriveAt", "read", "checkEnabled"}
Heedless(c) == \A l \in HeedingWords : ~Has(c, l)

LEMMA HeedlessCode ==
    ASSUME NEW c, Heedless(c)
    PROVE  c \notin LookingCodes /\ ~Trails(c)
BY DEF LookingCodes, SpinningCodes, Heedless, HeedingWords, Has, Trails

LEMMA SmallIsHeedless ==
    ASSUME NEW l, l \notin HeedingWords
    PROVE  Heedless(<<l>>) /\ Heedless(<<>>)
BY DEF Heedless, Has

LEMMA HeedlessPrefix ==
    ASSUME NEW S, NEW c \in Seq(S), Heedless(c), NEW x \in S \ HeedingWords
    PROVE  Heedless(<<x>> \o c) /\ <<x>> \o c \in Seq(S)
<1>1. PICK d : d = <<x>> \o c
  OBVIOUS
<1>2. /\ <<x>> \o c \in Seq(S) /\ <<x>> \o c # <<>> /\ Head(<<x>> \o c) = x
      /\ Tail(<<x>> \o c) = c
  BY Prepended
<1>3. d \in Seq(S) /\ d # <<>> /\ Head(d) = x /\ Tail(d) = c
  BY <1>1, <1>2
<1>4. \A l : Has(d, l) <=> x = l \/ Has(c, l)
  BY <1>3, HasTail
<1>5. QED
  BY <1>1, <1>2, <1>4 DEF Heedless

LEMMA CallsAreHeedless ==
    ASSUME build \in NodeBuilds, ~Posts,
           NEW d \in build.calls.others \cup {rounds.start} \cup rounds.refused
                     \cup build.calls.lookFails
    PROVE  Heedless(d) /\ d \in Seq(AllLabels)
<1>1. build.calls = sdwlock_calls \/ build.calls = aerlock_calls
  BY DEF NodeBuilds, Lock, fcrdxlock_calls, afdxlock_calls, Posts, Helping
<1>2. CASE build.calls = sdwlock_calls
  <2>1. /\ <<"enqueue", "open", "turn", "own", "flush", "leaveLine">>
           = (<<"enqueue", "open", "turn">> \o <<"own">>) \o <<"flush", "leaveLine">>
        /\ <<"enqueue", "open", "turn", "critical", "flush", "leaveLine">>
           = (<<"enqueue", "open", "turn">> \o <<"critical">>) \o <<"flush", "leaveLine">>
    BY SdwWords
  <2>2. d \in {<<"enqueue", "open", "turn", "own", "flush", "leaveLine">>,
               <<"enqueue", "open", "turn", "critical", "flush", "leaveLine">>,
               <<"tail">>, <<"readTail">>}
    BY <1>2, <2>1 DEF rounds, sdwlock_calls
  <2>3. {"enqueue", "open", "turn", "own", "critical", "flush", "leaveLine", "tail", "readTail"}
            \subseteq AllLabels
    BY DEF AllLabels, QueueLabels
  <2>4. CASE d = <<"enqueue", "open", "turn", "own", "flush", "leaveLine">>
    BY <2>3, <2>4 DEF Heedless, HeedingWords, Has
  <2>5. CASE d = <<"enqueue", "open", "turn", "critical", "flush", "leaveLine">>
    BY <2>3, <2>5 DEF Heedless, HeedingWords, Has
  <2>6. CASE d = <<"tail">> \/ d = <<"readTail">>
    <3>1. Heedless(<<"tail">>) /\ Heedless(<<"readTail">>)
      BY SmallIsHeedless DEF HeedingWords
    <3>2. <<"tail">> \in Seq(AllLabels) /\ <<"readTail">> \in Seq(AllLabels)
      BY <2>3
    <3>3. QED
      BY <2>6, <3>1, <3>2
  <2>7. QED
    BY <2>2, <2>4, <2>5, <2>6
<1>3. CASE build.calls = aerlock_calls
  <2>1. /\ <<"enqueue", "enable", "open", "turn", "own", "flush", "disable", "spinners", "leaveLine">>
           = (<<"enqueue", "enable", "open", "turn">> \o <<"own">>)
                \o <<"flush", "disable", "spinners", "leaveLine">>
        /\ <<"enqueue", "enable", "open", "turn", "critical", "flush", "disable", "spinners", "leaveLine">>
           = (<<"enqueue", "enable", "open", "turn">> \o <<"critical">>)
                \o <<"flush", "disable", "spinners", "leaveLine">>
    BY AerWords
  <2>2. d \in {<<"enqueue", "enable", "open", "turn", "own", "flush", "disable", "spinners", "leaveLine">>,
               <<"enqueue", "enable", "open", "turn", "critical", "flush", "disable", "spinners", "leaveLine">>,
               <<"tail">>, <<"readTail">>}
    BY <1>3, <2>1 DEF rounds, aerlock_calls
  <2>3. {"enqueue", "enable", "open", "turn", "own", "critical", "flush", "disable", "spinners",
         "leaveLine", "tail", "readTail"} \subseteq AllLabels
    BY DEF AllLabels, QueueLabels
  <2>4. CASE d = <<"enqueue", "enable", "open", "turn", "own", "flush", "disable", "spinners", "leaveLine">>
    BY <2>3, <2>4 DEF Heedless, HeedingWords, Has
  <2>5. CASE d = <<"enqueue", "enable", "open", "turn", "critical", "flush", "disable", "spinners", "leaveLine">>
    BY <2>3, <2>5 DEF Heedless, HeedingWords, Has
  <2>6. CASE d = <<"tail">> \/ d = <<"readTail">>
    <3>1. Heedless(<<"tail">>) /\ Heedless(<<"readTail">>)
      BY SmallIsHeedless DEF HeedingWords
    <3>2. <<"tail">> \in Seq(AllLabels) /\ <<"readTail">> \in Seq(AllLabels)
      BY <2>3
    <3>3. QED
      BY <2>6, <3>1, <3>2
  <2>7. QED
    BY <2>2, <2>4, <2>5, <2>6
<1>4. QED
  BY <1>1, <1>2, <1>3

(* One that has a label more, or goes on with what is left, heeds no more   *)
(* than before.                                                             *)
HeedsNoMore(c, d) ==
    /\ d \in LookingCodes => c \in LookingCodes
    /\ Trails(d) => Trails(c)

LEMMA FewerWordsHeedNoMore ==
    ASSUME LinedGate \in LinedGates, NEW c, LinedCode(c, LinedGate), NEW d,
           \A l \in HeedingWords : Has(d, l) => Has(c, l)
    PROVE  HeedsNoMore(c, d)
<1>1. ~Has(c, "read") /\ ~Has(c, "checkEnabled")
  BY DEF LinedCode, LinedGates, QueueLabels, PostLabels, Has
<1>2. ~Has(d, "read") /\ ~Has(d, "checkEnabled")
  BY <1>1 DEF HeedingWords
<1>3. \A e \in LookingCodes \cup SpinningCodes : Has(e, "read") \/ Has(e, "checkEnabled")
  BY DEF LookingCodes, SpinningCodes, Has
<1>4. d \notin LookingCodes /\ d \notin SpinningCodes
  BY <1>2, <1>3
<1>5. QED
  BY <1>4 DEF HeedsNoMore, Trails, HeedingWords

LEMMA TailHeedsNoMore ==
    ASSUME IInv, build \in NodeBuilds, ~Posts, LinedOK, NEW t \in Threads, code[t] # <<>>
    PROVE  HeedsNoMore(code[t], Tail(code[t]))
<1>1. LinedGate \in LinedGates /\ LinedCodeOK(code[t], LinedGate) /\ LinedGate.labels = QueueLabels
  BY LinedTables DEF LinedOK, LinedTable, LinedGate
<1>2. code[t] \in Seq(AllLabels)
  BY CodesAreWords
<1>3. CASE LinedCode(code[t], LinedGate)
  BY <1>1, <1>2, <1>3, HasTail, FewerWordsHeedNoMore
<1>4. CASE code[t] \in LookingCodes \cup SpinningCodes
  <2>1. \A l \in HeedingWords : Heedless(<<"depart">>) /\ Heedless(<<"departFrom">>)
    BY SmallIsHeedless DEF HeedingWords
  <2>2. Heedless(<<"depart">>) /\ Heedless(<<"departFrom">>) /\ Heedless(<<>>)
    BY SmallIsHeedless DEF HeedingWords
  <2>3. \A d : Heedless(d) => HeedsNoMore(code[t], d)
    BY HeedlessCode DEF HeedsNoMore
  <2>4. ASSUME NEW d \in LookingCodes, code[t] \in LookingCodes
        PROVE  HeedsNoMore(code[t], d)
    BY <2>4 DEF LookingCodes, Trails, SpinningCodes, Has, HeedsNoMore
  <2>5. CASE code[t] = <<"arrive", "lookAgain", "read", "depart">>
    BY <2>4, <2>5 DEF LookingCodes
  <2>6. CASE code[t] = <<"lookAgain", "read", "depart">>
    BY <2>4, <2>6 DEF LookingCodes
  <2>7. CASE code[t] = <<"read", "depart">>
    BY <2>2, <2>3, <2>7
  <2>8. CASE code[t] = <<"checkEnabled">>
    BY <2>2, <2>3, <2>8
  <2>9. CASE code[t] = <<"spin", "read", "departFrom">>
    BY <2>9 DEF LookingCodes, SpinningCodes, Trails, HeedsNoMore
  <2>10. CASE code[t] = <<"read", "departFrom">>
    BY <2>2, <2>3, <2>10
  <2>11. QED
    BY <1>4, <2>5, <2>6, <2>7, <2>8, <2>9, <2>10 DEF LookingCodes, SpinningCodes
<1>5. QED
  BY <1>1, <1>3, <1>4 DEF LinedCodeOK, QueueLabels, PostLabels

(****************************************************************************)
(* Whom a thread follows after a step of its own: whom it followed before,  *)
(* or the last in line, or nobody as the line is empty.                     *)
(****************************************************************************)
HeedsAsBefore(t) ==
    /\ code'[t] \in LookingCodes => code[t] \in LookingCodes
    /\ Trails(code'[t]) => Trails(code[t]) /\ at'[t] = at[t]
HeedsTheLast(t) == line # <<>> /\ line' = line /\ at'[t] = Last(line) /\ code'[t] \notin LookingCodes
FindsNobody(t) == line = <<>> /\ ~Trails(code'[t])

LEMMA GoingHeeds ==
    ASSUME LinedOK, NEW t \in Threads, code[t] # <<>>, NEW d, HeedsNoMore(code[t], d), Go(t, d)
    PROVE  HeedsAsBefore(t)
<1>1. code'[t] = d /\ (d # <<>> => at'[t] = at[t])
  BY DEF Go, LinedOK, LinedTypeOK
<1>2. ~Trails(<<>>)
  BY NothingLeft DEF Trails, SpinningCodes
<1>3. QED
  BY <1>1, <1>2 DEF HeedsAsBefore, HeedsNoMore

LEMMA HeedlessHeeds ==
    ASSUME LinedOK, NEW t \in Threads, NEW d, Heedless(d),
           Go(t, d) \/ (\E n : GoTo(t, n, d)) \/ code' = [code EXCEPT ![t] = d]
    PROVE  HeedsAsBefore(t)
BY HeedlessCode DEF Go, GoTo, LinedOK, LinedTypeOK, HeedsAsBefore

LEMMA GoOnHeeds ==
    ASSUME IInv, build \in NodeBuilds, ~Posts, LinedOK, NEW t \in Threads, NEW l, GoOn(t, l)
    PROVE  HeedsAsBefore(t)
BY TailHeedsNoMore, GoingHeeds DEF GoOn, At, Rest

(* The flush, and the opening of a queue.                                   *)
LEMMA PrefixHeeds ==
    ASSUME LinedOK, LinedTable, NEW t \in Threads, LinedCode(code[t], LinedGate),
           code[t] # <<>>, code[t] \in Seq(AllLabels), NEW x \in AllLabels \ HeedingWords,
           NEW d \in {code[t], Rest(t)}, Go(t, d) \/ Go(t, <<x>> \o d)
    PROVE  HeedsAsBefore(t)
<1>1. /\ d \in Seq(AllLabels)
      /\ \A l : Has(d, l) => Has(code[t], l)
  <2>1. \A l : Has(Tail(code[t]), l) => Has(code[t], l)
    BY HasTail
  <2>2. Tail(code[t]) \in Seq(AllLabels)
    OBVIOUS
  <2>3. CASE d = code[t]
    BY <2>3
  <2>4. CASE d = Tail(code[t])
    BY <2>1, <2>2, <2>4
  <2>5. QED
    BY <2>3, <2>4 DEF Rest
<1>2. PICK e : e = <<x>> \o d
  OBVIOUS
<1>whole. <<x>> \o d \in Seq(AllLabels) /\ <<x>> \o d # <<>> /\ Head(<<x>> \o d) = x /\ Tail(<<x>> \o d) = d
  BY <1>1, Prepended
<1>3. e \in Seq(AllLabels) /\ e # <<>> /\ Head(e) = x /\ Tail(e) = d
  BY <1>2, <1>whole
<1>4. \A l : Has(e, l) <=> x = l \/ Has(d, l)
  BY <1>3, HasTail
<1>5. HeedsNoMore(code[t], d) /\ HeedsNoMore(code[t], e)
  BY <1>1, <1>4, FewerWordsHeedNoMore DEF LinedTable
<1>6. QED
  BY <1>2, <1>5, GoingHeeds

LEMMA FlushHeeds ==
    ASSUME IInv, build \in NodeBuilds, ~Posts, LinedOK, NEW t \in Threads,
           \/ Open(t) \/ FlushLoads(t) \/ FlushSwaps(t) \/ FlushSwapFails(t) \/ FlushRuns(t)
           \/ FlushReturns(t)
    PROVE  HeedsAsBefore(t)
<1>1. LinedTable /\ code[t] \in Seq(AllLabels)
  BY LinedTables, CodesAreWords
<1>2. LinedCode(code[t], LinedGate) /\ code[t] # <<>>
  <2>1. PICK l \in {"open", "flush", "swap"} : At(t, l)
    BY DEF Open, FlushLoads, FlushSwaps, FlushSwapFails, FlushRuns, FlushReturns
  <2>2. l \in QueueLabels /\ l \notin LookWords
    BY DEF QueueLabels, LookWords, ReaderWords
  <2>3. QED
    BY <1>1, <2>1, <2>2, AtLabel
<1>3. {"openFlag", "swap", "close"} \subseteq AllLabels \ HeedingWords
  BY DEF AllLabels, QueueLabels, HeedingWords
<1>4. \A d \in {code[t], Rest(t)} : Go(t, Closing \o d) => Go(t, d) \/ Go(t, <<"close">> \o d)
  <2>1. code[t] \in Seq(AllLabels) /\ Rest(t) \in Seq(AllLabels)
    BY <1>1, <1>2 DEF Rest
  <2>2. <<>> \o code[t] = code[t] /\ <<>> \o Rest(t) = Rest(t)
    BY <2>1, ConcatEmptySeq
  <2>3. Closing = <<>> \/ Closing = <<"close">>
    BY DEF Closing
  <2>4. QED
    BY <2>2, <2>3
<1>5. \E d \in {code[t], Rest(t)} : \E x \in {"openFlag", "swap", "close"} :
          Go(t, d) \/ Go(t, <<x>> \o d)
  BY <1>4 DEF FlushLoads, FlushFollows, Open, FlushReturns, FlushRuns, FlushSwaps, FlushSwapFails
<1>6. QED
  BY <1>1, <1>2, <1>3, <1>5, PrefixHeeds

LEMMA ClaimsHeed ==
    ASSUME build \in NodeBuilds, ~Posts, LinedOK, NEW t \in Threads, OfferClaims(t)
    PROVE  HeedsAsBefore(t)
<1>1. At(t, "claim")
  BY DEF OfferClaims
<1>2. PICK rest \in rounds.refused : \E a, b \in BOOLEAN :
          Go(t, IF Fits(t) THEN <<"publish">>
                ELSE (IF a THEN <<"mark">> ELSE <<>>)
                     \o (IF b THEN <<"close">> ELSE <<>>) \o rest)
  <2>1. PICK rest \in rounds.refused :
            Go(t, IF Fits(t) THEN <<"publish">>
                  ELSE (IF ~Fits(t) /\ count[at[t]] < offer.marksBelow THEN <<"mark">> ELSE <<>>)
                       \o (IF offer.offerCloses THEN <<"close">> ELSE <<>>) \o rest)
    BY DEF OfferClaims
  <2>2. PICK a \in BOOLEAN : a <=> (~Fits(t) /\ count[at[t]] < offer.marksBelow)
    OBVIOUS
  <2>3. PICK b \in BOOLEAN : b <=> offer.offerCloses
    OBVIOUS
  <2>4. QED
    BY <2>1, <2>2, <2>3
<1>3. Heedless(rest) /\ rest \in Seq(AllLabels)
  BY CallsAreHeedless
<1>4. "mark" \in AllLabels \ HeedingWords /\ "close" \in AllLabels \ HeedingWords
  BY DEF AllLabels, QueueLabels, HeedingWords
<1>5. \/ Go(t, <<"publish">>) \/ Go(t, rest) \/ Go(t, <<"close">> \o rest)
      \/ Go(t, <<"mark">> \o rest) \/ Go(t, <<"mark">> \o (<<"close">> \o rest))
  <2>1. <<"mark">> \in Seq(AllLabels) /\ <<"close">> \in Seq(AllLabels) /\ <<>> \in Seq(AllLabels)
    BY <1>4
  <2>2. /\ (<<>> \o <<>>) \o rest = rest
        /\ (<<>> \o <<"close">>) \o rest = <<"close">> \o rest
        /\ (<<"mark">> \o <<>>) \o rest = <<"mark">> \o rest
        /\ (<<"mark">> \o <<"close">>) \o rest = <<"mark">> \o (<<"close">> \o rest)
    BY <1>3, <2>1, ConcatAssociative, ConcatEmptySeq
  <2>3. QED
    BY <1>2, <2>2
<1>6. CASE Go(t, <<"publish">>)
  <2>1. Trails(code[t])
    BY <1>1, TailIs DEF Trails, At, Has
  <2>2. code'[t] = <<"publish">> /\ at'[t] = at[t]
    BY <1>6 DEF Go, LinedOK, LinedTypeOK
  <2>3. <<"publish">> \notin LookingCodes
    BY DEF LookingCodes
  <2>4. QED
    BY <2>1, <2>2, <2>3 DEF HeedsAsBefore
<1>7. CASE \E d : Heedless(d) /\ Go(t, d)
  BY <1>7, HeedlessHeeds
<1>8. /\ Heedless(<<"close">> \o rest) /\ Heedless(<<"mark">> \o rest)
      /\ <<"close">> \o rest \in Seq(AllLabels)
  BY <1>3, <1>4, HeedlessPrefix
<1>9. Heedless(<<"mark">> \o (<<"close">> \o rest))
  BY <1>4, <1>8, HeedlessPrefix
<1>10. QED
  BY <1>3, <1>5, <1>6, <1>7, <1>8, <1>9

LEMMA PublishHeeds ==
    ASSUME LinedOK, NEW t \in Threads, OfferPublishes(t)
    PROVE  HeedsAsBefore(t) /\ code'[t] \notin LookingCodes /\ ~Trails(code'[t])
<1>1. PICK d \in {<<>>, <<"await">>} : Go(t, d)
  BY DEF OfferPublishes
<1>2. Heedless(d)
  <2>1. Heedless(<<>>) /\ Heedless(<<"await">>)
    BY SmallIsHeedless DEF HeedingWords
  <2>2. QED
    BY <2>1
<1>3. code'[t] = d
  BY <1>1 DEF Go, LinedOK, LinedTypeOK
<1>4. QED
  BY <1>2, <1>3, HeedlessCode DEF HeedsAsBefore

LEMMA LookFailsHeed ==
    ASSUME build \in NodeBuilds, ~Posts, LinedOK, NEW t \in Threads,
           NEW d \in build.calls.lookFails, NEW x \in {"depart", "departFrom"},
           \/ Go(t, <<x>> \o d) \/ \E n : GoTo(t, n, d) \/ GoTo(t, n, <<x>> \o d)
    PROVE  HeedsAsBefore(t)
BY CallsAreHeedless, HeedlessPrefix, HeedlessHeeds DEF AllLabels, QueueLabels, HeedingWords

LEMMA LooksHeed ==
    ASSUME IInv, build \in NodeBuilds, ~Posts, LinedOK, NEW t \in Threads,
           \/ LoadTail(t) \/ ReadTail(t) \/ LookAgain(t) \/ SeesEnabled(t) \/ ArriveAt(t)
           \/ CheckEnabled(t)
    PROVE  HeedsAsBefore(t) \/ HeedsTheLast(t) \/ FindsNobody(t)
<1>1. \A d : \A n \in Threads : GoTo(t, n, d) => code'[t] = d /\ at'[t] = n
  BY DEF GoTo, LinedOK, LinedTypeOK
<1>2. \A d : Go(t, d) => code'[t] = d /\ (d # <<>> => at'[t] = at[t])
  BY DEF Go, LinedOK, LinedTypeOK
<1>3. \A l \in {"seesEnabled", "arriveAt"} : At(t, l) => Trails(code[t])
  BY CodesAreWords, HasTail DEF At, Trails
<1>4. \A l : At(t, l) => code[t] # <<>>
  BY DEF At
<1>5. CASE LookedInVain(t)
  BY <1>5, LookFailsHeed DEF LookedInVain
<1>6. CASE LoadTail(t)
  <2>1. CASE line = <<>>
    BY <1>6, <2>1, CallsAreHeedless, HeedlessHeeds DEF LoadTail
  <2>2. CASE line # <<>>
    BY <1>1, <1>6, <2>2, LineIs DEF LoadTail, mutexVars, LookingCodes, HeedsTheLast
  <2>3. QED
    BY <2>1, <2>2
<1>7. CASE ReadTail(t)
  <2>1. CASE line = <<>>
    BY <1>1, <1>7, <2>1 DEF ReadTail, Trails, SpinningCodes, Has, FindsNobody
  <2>2. CASE line # <<>> /\ ~LookedInVain(t)
    BY <1>1, <1>7, <2>2, LineIs DEF ReadTail, mutexVars, LookingCodes, HeedsTheLast
  <2>3. QED
    BY <1>5, <2>1, <2>2
<1>8. CASE LookAgain(t)
  BY <1>8, GoOnHeeds, LookFailsHeed DEF LookAgain, GoOn
<1>9. CASE SeesEnabled(t) \/ ArriveAt(t)
  <2>1. CASE Go(t, <<"arriveAt">>) \/ Go(t, <<"checkEnabled">>)
    <3>1. Trails(code[t])
      BY <1>3, <1>9 DEF SeesEnabled, ArriveAt
    <3>2. <<"arriveAt">> \notin LookingCodes /\ <<"checkEnabled">> \notin LookingCodes
      BY DEF LookingCodes
    <3>3. at'[t] = at[t] /\ code'[t] \in {<<"arriveAt">>, <<"checkEnabled">>}
      BY <1>2, <2>1
    <3>4. QED
      BY <3>1, <3>2, <3>3 DEF HeedsAsBefore
  <2>2. QED
    BY <1>5, <1>9, <2>1 DEF SeesEnabled, ArriveAt
<1>10. CASE CheckEnabled(t)
  <2>1. CASE Go(t, <<"spin", "read", "departFrom">>)
    <3>1. Trails(code[t])
      BY <1>10, LinedTables, AtSpinning DEF CheckEnabled, Trails
    <3>2. <<"spin", "read", "departFrom">> \notin LookingCodes
      BY DEF LookingCodes
    <3>3. at'[t] = at[t] /\ code'[t] = <<"spin", "read", "departFrom">>
      BY <1>2, <2>1
    <3>4. QED
      BY <3>1, <3>2, <3>3 DEF HeedsAsBefore
  <2>2. QED
    BY <1>10, <2>1, LookFailsHeed DEF CheckEnabled
<1>11. QED
  BY <1>6, <1>7, <1>8, <1>9, <1>10

LEMMA WhoHeeds ==
    ASSUME IInv, build \in NodeBuilds, ~Posts, LinedOK, NEW t \in Threads,
           Call(t) \/ Step(t) \/ NodeStep(t), ~Enqueue(t)
    PROVE  HeedsAsBefore(t) \/ HeedsTheLast(t) \/ FindsNobody(t)
<1>1. LinedTable
  BY LinedTables
<1>2. CASE Call(t)
  BY <1>2, CallsAreHeedless, HeedlessHeeds DEF Call
<1>3. CASE \E l : GoOn(t, l)
  BY <1>3, GoOnHeeds
<1>4. CASE FlushIsStuck(t) \/ BarrierIsStuck(t)
  BY <1>4 DEF FlushIsStuck, BarrierIsStuck, vars, callVars, HeedsAsBefore
<1>5. ~CheckLocked(t) /\ ~WaitFree(t)
  <2>1. \A l \in {"check", "waitFree"} : ~At(t, l)
    BY <1>1, AtReaderWord DEF LinedGate, QueueLabels, PostLabels
  <2>2. QED
    BY <2>1 DEF CheckLocked, WaitFree
<1>6. \/ FlushIsStuck(t) \/ BarrierIsStuck(t) \/ (\E l : GoOn(t, l)) \/ Call(t)
      \/ OfferClaims(t) \/ OfferPublishes(t)
      \/ Open(t) \/ FlushLoads(t) \/ FlushSwaps(t) \/ FlushSwapFails(t) \/ FlushRuns(t)
      \/ FlushReturns(t)
      \/ LoadTail(t) \/ ReadTail(t) \/ LookAgain(t) \/ SeesEnabled(t) \/ ArriveAt(t)
      \/ CheckEnabled(t)
  <2>1. CASE Step(t)
    BY <1>1, <1>5, <2>1, NoMutexSteps
       DEF Step, StepBesides, Indicator, RunOwn, OpenFlag, OfferMarks, Close, Await, WaitWriters,
           Arrive, Depart, WaitReaders, LowerBarrier, Read
  <2>2. CASE NodeStep(t)
    <3>1. \/ LoadTail(t) \/ Turn(t) \/ LeaveLine(t) \/ ReadTail(t) \/ LookAgain(t)
          \/ SeesEnabled(t) \/ ArriveAt(t) \/ CheckEnabled(t) \/ Spin(t) \/ DepartFrom(t)
          \/ Enable(t) \/ Disable(t) \/ WaitSpinners(t)
      <4>1. \A l \in {"post", "isActive", "activate", "tryBarrier", "tryLine", "answered",
                      "combine", "visit"} : ~At(t, l)
        BY <1>1, NoPostSteps
      <4>2. QED
        BY <2>2, <4>1 DEF NodeStep, Post, IsActive, Activate, TryBarrier, TryLine, Answered,
                          Combine, Visit, Clean, GoOn
    <3>2. QED
      BY <3>1 DEF Turn, LeaveLine, Spin, DepartFrom, Enable, Disable, WaitSpinners
  <2>3. QED
    BY <2>1, <2>2
<1>7. QED
  BY <1>2, <1>3, <1>4, <1>6, ClaimsHeed, PublishHeeds, FlushHeeds, LooksHeed

(* Who is in line changes only when somebody joins or leaves it.            *)
LEMMA LineMoves ==
    ASSUME IInv, build \in NodeBuilds, ~Posts, LinedOK, NEW t \in Threads,
           Call(t) \/ Step(t) \/ NodeStep(t)
    PROVE  \/ line' = line
           \/ Enqueue(t) /\ line' = Append(line, t) /\ at'[t] = t
           \/ line # <<>> /\ line' = Tail(line)
<1>1. LinedTable
  BY LinedTables
<1>2. CASE Call(t)
  BY <1>2 DEF Call, mutexVars
<1>3. CASE Indicator(t)
  BY SMTT(30), <1>3 DEF Indicator, Arrive, Depart, WaitReaders, mutexVars
<1>4. CASE StepBesides(t)
  BY <1>1, <1>4, NoMutexSteps
     DEF StepBesides, RunOwn, Open, OpenFlag, OfferClaims, OfferPublishes, OfferMarks, Fill, Close,
         Await, FlushLoads, FlushSwaps, FlushSwapFails, FlushRuns, FlushIsStuck, FlushReturns,
         WaitWriters, BarrierIsStuck, CheckLocked, WaitFree, LowerBarrier, Read, vars, mutexVars
<1>5. CASE Enqueue(t)
  BY <1>5 DEF Enqueue, GoTo, LinedOK, LinedTypeOK
<1>6. CASE LeaveLine(t)
  <2>1. "leaveLine" \in QueueLabels /\ "leaveLine" \notin LookWords
        /\ "leaveLine" \notin Deciding
    BY DEF QueueLabels, LookWords, ReaderWords, Deciding
  <2>2. At(t, "leaveLine") /\ LinedCode(code[t], LinedGate)
    BY <1>1, <1>6, <2>1, AtLabel DEF LeaveLine, GoOn
  <2>3. Has(code[t], "leaveLine") /\ ~Has(code[t], "enqueue")
    BY <2>2, HasTail, NotAfterTail DEF LinedCode, At, Pair
  <2>4. line # <<>>
    BY SMTT(30), <2>3 DEF LinedOK, LineOK, InLine, Holds
  <2>5. QED
    BY <1>6, <2>4 DEF LeaveLine
<1>7. CASE NodeStep(t) /\ ~Enqueue(t) /\ ~LeaveLine(t)
  <2>1. ~TryLine(t)
    BY <1>1, NoPostSteps DEF TryLine
  <2>2. QED
    BY <1>7, <2>1
       DEF NodeStep, LoadTail, Turn, ReadTail, LookAgain, SeesEnabled, ArriveAt, CheckEnabled,
           Spin, DepartFrom, Enable, Disable, WaitSpinners, Post, IsActive, Activate, TryBarrier,
           Answered, Combine, Visit, Clean, mutexVars
<1>8. QED
  BY <1>2, <1>3, <1>4, <1>5, <1>6, <1>7 DEF Step

(* Everything that is owed lies in line, so the last place is behind it.    *)
LEMMA LastIsLater ==
    ASSUME Lined, build' = build, NEW u \in Threads, OwedServed', line' \in Seq(Threads),
           line' # <<>>, at'[u] = Last(line')
    PROVE  OwedInLine(u)'
<1>1. ASSUME NEW n \in build.nodes, NEW i \in Slots', slot'[n][i].by = u
      PROVE  n = at'[u] \/ \E k, j \in DOMAIN line' : line'[k] = n /\ line'[j] = at'[u] /\ k < j
  <2>1. PICK k \in DOMAIN line' : line'[k] = n
    BY <1>1 DEF Lined, Helping, OwedServed
  <2>2. /\ Len(line') \in Nat /\ Len(line') >= 1 /\ DOMAIN line' = 1 .. Len(line')
        /\ Last(line') = line'[Len(line')]
    BY DEF Last
  <2>3. QED
    BY <2>1, <2>2
<1>2. QED
  BY <1>1 DEF OwedInLine, Owed, IsLater, Lined, Helping

LEMMA OrderKept ==
    ASSUME Lined, build' = build, NEW u \in Threads, NEW s \in Threads, OwedServed',
           line \in Seq(Threads), \A i, j \in DOMAIN line : line[i] = line[j] => i = j,
           line' = line \/ line' = Append(line, s) \/ (line # <<>> /\ line' = Tail(line)),
           OwedInLine(u), at'[u] = at[u],
           \A n \in build.nodes : \A i \in Slots : slot'[n][i].by = u => slot[n][i].by = u
    PROVE  OwedInLine(u)'
<1>1. Slots' = Slots /\ Lined'
  BY DEF Slots, offer, Lined, Helping
<1>2. ASSUME NEW n \in build.nodes, NEW m \in Slots, slot'[n][m].by = u
      PROVE  n = at'[u] \/ \E i, j \in DOMAIN line' : line'[i] = n /\ line'[j] = at'[u] /\ i < j
  <2>1. CASE n = at[u]
    BY <2>1
  <2>2. CASE n # at[u]
    <3>1. PICK i, j \in DOMAIN line : line[i] = n /\ line[j] = at[u] /\ i < j
      BY <1>2, <2>2 DEF OwedInLine, Owed, IsLater
    <3>2. CASE line' = line
      BY <3>1, <3>2
    <3>3. CASE line' = Append(line, s)
      BY <3>1, <3>3
    <3>4. CASE line # <<>> /\ line' = Tail(line)
      <4>0. PICK z \in Nat : z = Len(line)
        OBVIOUS
      <4>1. /\ DOMAIN line = 1 .. z /\ DOMAIN line' = 1 .. z - 1
            /\ \A k \in 1 .. z - 1 : line'[k] = line[k + 1]
        BY <3>4, <4>0, TailIs
      <4>2. PICK k \in DOMAIN line' : line'[k] = n
        BY <1>1, <1>2 DEF OwedServed
      <4>3. k \in 1 .. z - 1 /\ i \in 1 .. z /\ j \in 1 .. z
        BY <3>1, <4>1, <4>2
      <4>4. k + 1 \in 1 .. z /\ line[k + 1] = n
        BY <4>1, <4>2, <4>3
      <4>5. k + 1 = i
        BY <3>1, <4>1, <4>4
      <4>past. j - 1 \in 1 .. z - 1 /\ (j - 1) + 1 = j /\ k < j - 1
        BY <3>1, <4>3, <4>5
      <4>then. j - 1 \in DOMAIN line' /\ line'[j - 1] = line[j] /\ k < j - 1
        BY <4>1, <4>past
      <4>6. QED
        BY <3>1, <4>2, <4>then
    <3>5. QED
      BY <3>2, <3>3, <3>4
  <2>3. QED
    BY <2>1, <2>2
<1>3. QED
  BY <1>1, <1>2 DEF OwedInLine, Owed, IsLater

LEMMA LinedOwnKept ==
    ASSUME IInv, IInv', build \in NodeBuilds, LinedOK, ~Posts, QueueFacts, QInv, QInv', AtNodes',
           OneServes, OneServes', OwedServed, OwedServed', LinedOwn, [NodeNext]_allVars
    PROVE  LinedOwn'
<1>1. build' = build /\ Slots' = Slots
  BY BuildIsFixed, SameBuildSameGate
<1>2. /\ LinedTable /\ Lined /\ build.nodes = Threads
      /\ line \in Seq(Threads) /\ \A i, j \in DOMAIN line : line[i] = line[j] => i = j
      /\ \A t \in Threads : InLine(code[t]) <=> \E i \in DOMAIN line : line[i] = t
  BY LinedTables DEF LinedTable, LinedOK, LinedTypeOK, LineOK
<1>3. /\ line' \in Seq(Threads)
      /\ \A t \in Threads : InLine(code'[t]) <=> \E i \in DOMAIN line' : line'[i] = t
      /\ \A t \in Threads : InLine(code'[t]) => at'[t] = t
  BY <1>1, <1>2, MutexTables DEF MutexTable, IInv, Lined, Helping, InLine, LinedOK, LinedTypeOK,
     LineOK, QInv, QueueCodesOK
<1>4. \A t \in Threads : InLine(code[t]) => at[t] = t
  BY <1>2 DEF QInv, QueueCodesOK
<1>5. CASE UNCHANGED allVars
  BY <1>1, <1>5
     DEF allVars, nodeVars, vars, callVars, mutexVars, queueVars, LinedOwn, NotInOwn, NoneOwed,
         OwedInLine, Owed, IsLater, Lined, Helping, Follows
<1>6. ASSUME NEW s \in Threads, Call(s) \/ Step(s) \/ NodeStep(s)
      PROVE  LinedOwn'
  <2>1. OthersStay(s) /\ (StoresNothing \/ OfferPublishes(s))
    BY <1>6, OthersStayPut, WhoStores
  <2>2. \A t \in Threads : NotInOwn(t)'
    BY <1>1, <2>1, NobodyRunsOwn DEF LinedOwn
  <2>3. \/ line' = line
        \/ Enqueue(s) /\ line' = Append(line, s) /\ at'[s] = s
        \/ line # <<>> /\ line' = Tail(line)
    BY <1>6, LineMoves
  <2>4. ASSUME NEW t \in Threads, t # s \/ ~OfferPublishes(s)
        PROVE  \A n \in build.nodes : \A i \in Slots : slot'[n][i].by = t => slot[n][i].by = t
    BY <2>1, <2>4, NullAssumption, OfferWrites DEF StoresNothing
  <2>5. ASSUME NEW t \in Threads, t # s \/ ~OfferPublishes(s), NoneOwed(t)
        PROVE  NoneOwed(t)'
    BY <1>1, <2>4, <2>5 DEF NoneOwed
  <2>6. ASSUME NEW t \in Threads, t # s \/ ~OfferPublishes(s), OwedInLine(t), at'[t] = at[t]
        PROVE  OwedInLine(t)'
    BY <1>1, <1>2, <2>3, <2>4, <2>6, OrderKept
  <2>7. OfferPublishes(s) => ~InLine(code[s]) /\ ~Enqueue(s)
    BY <1>2, AtDeciding DEF Deciding, OfferPublishes, Enqueue, At
  <2>8. CASE Enqueue(s)
    <3>1. ~OfferPublishes(s)
      BY <2>7, <2>8
    <3>2. line' = Append(line, s) /\ at'[s] = s
      BY <2>8 DEF Enqueue, GoTo, LinedOK, LinedTypeOK
    <3>3. line' # <<>> /\ Last(line') = s /\ \E i \in DOMAIN line' : line'[i] = s
      BY <1>2, <3>2 DEF Last
    <3>4. OwedInLine(s)'
      BY <1>1, <1>2, <1>3, <3>2, <3>3, LastIsLater
    <3>5. code'[s] \notin LookingCodes
      BY <1>3, <3>3, LinedReadersHold DEF EveryReaderCode
    <3>6. ASSUME NEW t \in Threads \ {s}
          PROVE  /\ code'[t] \in LookingCodes => NoneOwed(t)'
                 /\ Follows(code'[t]) => OwedInLine(t)'
      BY <2>1, <2>5, <2>6 DEF OthersStay, LinedOwn
    <3>7. \A t \in Threads : Follows(code[t])' <=> Follows(code'[t])
      BY DEF Follows, InLine, Trails
    <3>8. QED
      BY <2>2, <3>4, <3>5, <3>6, <3>7 DEF LinedOwn
  <2>9. CASE ~Enqueue(s)
    <3>1. HeedsAsBefore(s) \/ HeedsTheLast(s) \/ FindsNobody(s)
      BY <1>6, <2>9, WhoHeeds
    <3>2. OfferPublishes(s) => code'[s] \notin LookingCodes /\ ~Trails(code'[s])
      BY PublishHeeds
    <3>3. ASSUME InLine(code'[s])
          PROVE  OwedInLine(s)'
      <4>1. PICK i \in DOMAIN line' : line'[i] = s
        BY <1>3, <3>3
      <4>2. \E j \in DOMAIN line : line[j] = s
        <5>1. CASE line' = line
          BY <4>1, <5>1
        <5>2. CASE line # <<>> /\ line' = Tail(line)
          BY <1>2, <4>1, <5>2, TailIs
        <5>3. QED
          BY <2>3, <2>9, <5>1, <5>2
      <4>3. InLine(code[s]) /\ at'[s] = at[s]
        BY <1>2, <1>3, <1>4, <3>3, <4>2
      <4>4. OwedInLine(s)
        BY <4>3 DEF LinedOwn, Follows
      <4>5. QED
        BY <2>6, <2>7, <4>3, <4>4
    <3>4. ASSUME Trails(code'[s])
          PROVE  OwedInLine(s)'
      <4>1. CASE HeedsAsBefore(s)
        BY <2>6, <3>2, <3>4, <4>1 DEF HeedsAsBefore, LinedOwn, Follows
      <4>2. CASE HeedsTheLast(s)
        BY <1>1, <1>2, <1>3, <4>2, LastIsLater DEF HeedsTheLast
      <4>3. QED
        BY <3>1, <3>4, <4>1, <4>2 DEF FindsNobody
    <3>5. ASSUME code'[s] \in LookingCodes
          PROVE  NoneOwed(s)'
      <4>1. NoneOwed(s)
        BY <1>2, <3>1, <3>5 DEF HeedsAsBefore, LinedOwn, FindsNobody, OwedServed, NoneOwed,
           HeedsTheLast
      <4>2. QED
        BY <2>5, <3>2, <3>5, <4>1
    <3>6. ASSUME NEW t \in Threads \ {s}
          PROVE  /\ code'[t] \in LookingCodes => NoneOwed(t)'
                 /\ Follows(code'[t]) => OwedInLine(t)'
      BY <2>1, <2>5, <2>6 DEF OthersStay, LinedOwn
    <3>7. \A t \in Threads : Follows(code[t])' <=> Follows(code'[t])
      BY DEF Follows, InLine, Trails
    <3>8. QED
      BY <2>2, <3>3, <3>4, <3>5, <3>6, <3>7 DEF LinedOwn, Follows
  <2>10. QED
    BY <2>8, <2>9
<1>7. QED
  BY <1>5, <1>6, SomebodySteps

(****************************************************************************)
(* Requests that are posted: the thread that has posted one does not return *)
(* and does nothing else before it has been answered.                       *)
(****************************************************************************)
Answers == {"isActive", "tryBarrier", "tryLine", "answered"}
PostingLabels == Answers \cup {"activate", "readers", "combine", "visit", "leaveLine"}
PostedCode(c) == c \in Seq(PostingLabels) /\ c # <<>> /\ c[Len(c)] \in Answers

(* To post is the first thing a call does.                                  *)
PostsFirst(c) == Has(c, "post") => c = <<"post", "isActive">>

PostedOK ==
    /\ slot \in [build.nodes -> [Slots -> [by : Threads \cup {NULL}, size : Nat]]]
    /\ \A n \in build.nodes : \A i \in Slots :
           slot[n][i].by # NULL => slot[n][i].by = n /\ PostedCode(code[n])
    /\ \A t \in Threads : PostsFirst(code[t])

PostTable ==
    /\ build.nodes = Threads /\ Slots = {0}
    /\ rounds.start = <<"post", "isActive">>
    /\ \A c \in build.calls.others : ~Has(c, "post")
    /\ \A c \in rounds.again \cup {build.calls.help} : PostedCode(c)

LEMMA PostedCodes ==
    /\ \A l \in Answers : PostedCode(<<l>>)
    /\ PostedCode(<<"readers", "combine", "leaveLine", "answered">>)
    /\ PostedCode(<<"combine", "leaveLine", "answered">>)
BY DEF PostingLabels, Answers, PostedCode

LEMMA PostedPrefix ==
    ASSUME NEW c, PostedCode(c), NEW x \in PostingLabels
    PROVE  PostedCode(<<x>> \o c)
BY Prepended, TailIs DEF PostedCode

LEMMA PostTables ==
    ASSUME build \in NodeBuilds, Posts
    PROVE  PostTable
<1>1. build.calls = fcrdxlock_calls \/ build.calls = afdxlock_calls
  BY DEF sdwlock_calls, aerlock_calls, Posts, Helping, NodeBuilds, Lock
<1>2. build.nodes = Threads /\ offer.capacity = 1
  <2>1. build.nodes = Threads /\ (offer = mwqueue_offer \/ offer = OneRequest)
    BY DEF NodeBuilds, Lock, offer
  <2>2. offer = OneRequest
    <3>1. build.calls # sdwlock_calls /\ build.calls # aerlock_calls
      BY DEF sdwlock_calls, aerlock_calls, Posts, Helping
    <3>2. QED
      BY <3>1 DEF NodeBuilds, Lock, offer
  <2>3. QED
    BY <2>1, <2>2 DEF OneRequest, CopiedOffer
<1>3. Slots = {0}
  BY <1>2 DEF Slots
<1>4. ~Has(Reading, "post")
  BY DEF Reading, Has
<1>5. CASE build.calls = fcrdxlock_calls
  BY <1>2, <1>3, <1>4, <1>5, PostedCodes DEF Has, fcrdxlock_calls, rounds, PostTable, Answers
<1>6. CASE build.calls = afdxlock_calls
  BY <1>2, <1>3, <1>6, PostedCodes DEF Has, afdxlock_calls, rounds, PostTable, Answers
<1>7. QED
  BY <1>1, <1>5, <1>6

LEMMA PostedTail ==
    ASSUME NEW c, PostedCode(c), Head(c) \notin Answers
    PROVE  PostedCode(Tail(c))
<1>1. PICK z \in Nat : z = Len(c)
  BY DEF PostedCode
<1>2. /\ Tail(c) \in Seq(PostingLabels) /\ Head(c) = c[1] /\ z >= 1 /\ Len(Tail(c)) = z - 1
      /\ \A i \in 1 .. z - 1 : Tail(c)[i] = c[i + 1]
  BY <1>1, TailIs DEF PostedCode
<1>3. z # 1
  BY <1>1, <1>2 DEF PostedCode
<1>4. z - 1 \in 1 .. z - 1 /\ (z - 1) + 1 = z
  BY <1>2, <1>3
<1>5. Tail(c)[z - 1] = c[z]
  BY <1>2, <1>4
<1>more. Tail(c) # <<>>
  <2>1. Len(<<>>) = 0 /\ z - 1 # 0
    BY <1>4
  <2>2. QED
    BY <1>2, <2>1
<1>6. QED
  BY <1>1, <1>2, <1>5, <1>more DEF PostedCode

LEMMA PostedSmall ==
    ASSUME NEW c, PostedCode(c), NEW l
    PROVE  /\ l \notin PostingLabels => ~Has(c, l) /\ Head(c) # l
           /\ PostsFirst(c)
BY TailIs DEF PostedCode, PostingLabels, Answers, Has, PostsFirst

(* Where the threads of these builds are.                                   *)
LEMMA PostHeads ==
    ASSUME LinedOK, LinedTable, Posts, NEW t \in Threads, NEW l, At(t, l)
    PROVE  l \in PostLabels \cup ReaderWords
<1>1. LinedGate.labels = PostLabels /\ LinedGate \in LinedGates /\ PostLabels # QueueLabels
  BY DEF LinedGate, LinedTable, PostLabels, QueueLabels
<1>2. ~LinedGate.spins
  BY <1>1 DEF LinedGates
<1>3. LinedCode(code[t], LinedGate) \/ code[t] \in ReaderCodes
  BY <1>1, <1>2 DEF LinedOK, LinedCodeOK
<1>4. CASE LinedCode(code[t], LinedGate)
  BY <1>1, <1>4, TailIs DEF LinedCode, At
<1>5. CASE code[t] \in ReaderCodes
  BY <1>5 DEF ReaderCodes, ArrivedCodes, ReadingCodes, ReaderWords, At
<1>6. QED
  BY <1>3, <1>4, <1>5

(* The mover goes on as its request wants it to, or it has none.            *)
LEMMA PostedMove ==
    ASSUME PostTable, PostedOK, build' = build, NEW t \in Threads,
           \A u \in Threads \ {t} : code'[u] = code[u],
           slot' = slot, PostsFirst(code'[t]),
           PostedCode(code[t]) => PostedCode(code'[t]) \/ slot[t][0].by = NULL
    PROVE  PostedOK'
<1>1. build'.nodes = Threads /\ Slots' = {0} /\ build.nodes = Threads /\ Slots = {0}
  BY DEF PostTable, Slots, offer
<1>2. \A n \in Threads : slot[n][0].by # NULL => slot[n][0].by = n /\ PostedCode(code'[n])
  BY <1>1 DEF PostedOK
<1>3. \A u \in Threads : PostsFirst(code'[u])
  BY DEF PostedOK
<1>4. \A u \in Threads : (PostedCode(code[u])' <=> PostedCode(code'[u]))
                         /\ (PostsFirst(code[u])' <=> PostsFirst(code'[u]))
  BY DEF PostedCode, PostsFirst, Has
<1>5. QED
  BY <1>1, <1>2, <1>3, <1>4 DEF PostedOK

LEMMA PostedGo ==
    ASSUME LinedOK, PostTable, PostedOK, build' = build, NEW t \in Threads, code[t] # <<>>,
           NEW d, Go(t, d) \/ (\E n : GoTo(t, n, d)), slot' = slot, PostsFirst(d),
           PostedCode(code[t]) => PostedCode(d) \/ slot[t][0].by = NULL
    PROVE  PostedOK'
BY PostedMove DEF Go, GoTo, LinedOK, LinedTypeOK

LEMMA NothingPosts ==
    ASSUME NEW c, ~Has(c, "post")
    PROVE  PostsFirst(c)
BY DEF PostsFirst

LEMMA PostedGoOn ==
    ASSUME IInv, LinedOK, PostTable, PostedOK, build' = build, NEW t \in Threads,
           NEW l, GoOn(t, l), l \notin Answers, slot' = slot
    PROVE  PostedOK'
<1>1. code[t] # <<>> /\ Head(code[t]) = l /\ Go(t, Tail(code[t])) /\ code[t] \in Seq(AllLabels)
  BY CodesAreWords DEF GoOn, At, Rest
<1>2. PostedCode(code[t]) => PostedCode(Tail(code[t]))
  BY <1>1, PostedTail
<1>3. ~Has(Tail(code[t]), "post")
  <2>1. CASE Has(code[t], "post")
    <3>1. code[t] = <<"post", "isActive">>
      BY <2>1 DEF PostedOK, PostsFirst
    <3>2. Tail(code[t]) = <<"isActive">>
      BY <3>1
    <3>3. ~Has(<<"isActive">>, "post")
      BY DEF Has
    <3>4. QED
      BY <3>2, <3>3
  <2>2. CASE ~Has(code[t], "post")
    BY <1>1, <2>2, HasTail
  <2>3. QED
    BY <2>1, <2>2
<1>4. QED
  BY <1>1, <1>2, <1>3, NothingPosts, PostedGo

(* A reader has posted nothing.                                             *)
LEMMA PostedOther ==
    ASSUME LinedOK, PostTable, PostedOK, build' = build, NEW t \in Threads, NEW l, At(t, l),
           l \notin PostingLabels, slot' = slot,
           NEW d, Go(t, d) \/ (\E n : GoTo(t, n, d)), ~Has(d, "post")
    PROVE  PostedOK'
BY PostedSmall, NothingPosts, PostedGo DEF At

LEMMA PostedCalls ==
    ASSUME IInv, LinedOK, PostTable, PostedOK, build' = build, NEW t \in Threads, Call(t)
    PROVE  PostedOK'
BY PostedMove DEF Call, queueVars, PostTable, PostsFirst, LinedOK, LinedTypeOK, PostedCode

LEMMA PostedPosts ==
    ASSUME IInv, LinedOK, PostTable, PostedOK, build' = build, NEW t \in Threads, Post(t)
    PROVE  PostedOK'
<1>1. code[t] = <<"post", "isActive">>
  BY CodesAreWords, HasTail DEF Post, GoOn, At, PostedOK, PostsFirst
<1>2. Go(t, <<"isActive">>)
  BY <1>1 DEF Post, GoOn, Rest
<1>3. code'[t] = <<"isActive">> /\ \A u \in Threads \ {t} : code'[u] = code[u]
  BY <1>2 DEF Go, LinedOK, LinedTypeOK
<1>4. PostedCode(<<"isActive">>) /\ PostsFirst(<<"isActive">>)
  BY PostedCodes, PostedSmall DEF Answers
<1>5. /\ build'.nodes = Threads /\ Slots' = {0} /\ build.nodes = Threads /\ Slots = {0}
  BY DEF PostTable, Slots, offer
<1>6. slot \in [Threads -> [{0} -> [by : Threads \cup {NULL}, size : Nat]]]
  BY <1>5 DEF PostedOK
<1>7. PICK e \in [by : Threads \cup {NULL}, size : Nat] : e = [by |-> t, size |-> 1]
  OBVIOUS
<1>8. slot' = [slot EXCEPT ![t][0] = e]
  BY <1>7 DEF Post
<1>9. /\ slot' \in [Threads -> [{0} -> [by : Threads \cup {NULL}, size : Nat]]]
      /\ slot'[t][0] = e /\ \A n \in Threads \ {t} : slot'[n] = slot[n]
  BY <1>6, <1>8
<1>10. e.by = t
  BY <1>7
<1>11. \A n \in Threads : slot'[n][0].by # NULL => slot'[n][0].by = n /\ PostedCode(code'[n])
  BY <1>3, <1>4, <1>5, <1>9, <1>10 DEF PostedOK
<1>12. \A u \in Threads : PostsFirst(code'[u])
  BY <1>3, <1>4 DEF PostedOK
<1>13. \A u \in Threads : (PostedCode(code[u])' <=> PostedCode(code'[u]))
                         /\ (PostsFirst(code[u])' <=> PostsFirst(code'[u]))
  BY DEF PostedCode, PostsFirst, Has
<1>14. QED
  BY <1>5, <1>9, <1>11, <1>12, <1>13 DEF PostedOK

LEMMA PostedVisits ==
    ASSUME IInv, LinedOK, PostTable, PostedOK, build' = build, NEW t \in Threads, Visit(t)
    PROVE  PostedOK'
<1>1. PICK node : slot' = [slot EXCEPT ![node][0] = Empty]
  BY DEF Visit
<1>2. code' = code
  BY DEF Visit, callVars
<1>3. /\ build'.nodes = Threads /\ Slots' = {0} /\ build.nodes = Threads /\ Slots = {0}
  BY DEF PostTable, Slots, offer
<1>4. slot \in [Threads -> [{0} -> [by : Threads \cup {NULL}, size : Nat]]]
  BY <1>3 DEF PostedOK
<1>5. PICK e \in [by : Threads \cup {NULL}, size : Nat] : e = Empty
  BY DEF Empty
<1>6. e.by = NULL
  BY <1>5 DEF Empty
<1>7. /\ slot' \in [Threads -> [{0} -> [by : Threads \cup {NULL}, size : Nat]]]
      /\ \A n \in Threads : slot'[n][0] = e \/ slot'[n][0] = slot[n][0]
  <2>1. slot' = [slot EXCEPT ![node][0] = e]
    BY <1>1, <1>5
  <2>2. QED
    BY <1>4, <2>1
<1>8. \A n \in Threads : slot'[n][0].by # NULL => slot'[n][0].by = n /\ PostedCode(code[n])
  BY <1>3, <1>6, <1>7 DEF PostedOK
<1>9. \A u \in Threads : (PostedCode(code[u])' <=> PostedCode(code[u]))
                         /\ (PostsFirst(code[u])' <=> PostsFirst(code[u]))
  BY <1>2 DEF PostedCode, PostsFirst, Has
<1>10. QED
  BY <1>3, <1>7, <1>8, <1>9 DEF PostedOK

(* The decisions of a thread that waits for its answer.                     *)
LEMMA PostedDecides ==
    ASSUME IInv, LinedOK, LinedTable, Posts, PostTable, PostedOK, build' = build,
           NEW t \in Threads, IsActive(t) \/ TryBarrier(t) \/ TryLine(t) \/ Answered(t)
    PROVE  PostedOK'
<1>1. slot' = slot /\ code[t] # <<>>
  BY DEF IsActive, TryBarrier, TryLine, Answered, queueVars, At
<1>2. ASSUME NEW d, Go(t, d), PostedCode(d)
      PROVE  PostedOK'
  BY <1>1, <1>2, PostedSmall, PostedGo
<1>3. \A c \in rounds.again : PostedCode(c) /\ c # <<>>
  BY DEF PostTable, PostedCode
<1>4. CASE IsActive(t)
  BY <1>2, <1>3, <1>4, PostedPrefix DEF IsActive, rounds, PostingLabels
<1>5. CASE TryBarrier(t)
  BY <1>2, <1>5, PostedCodes DEF TryBarrier, Answers
<1>6. CASE TryLine(t)
  BY <1>2, <1>6, PostedCodes DEF PostTable, Answers, TryLine
<1>7. CASE Answered(t)
  <2>1. CASE slot[t][0] = Empty
    BY <1>1, <1>7, <2>1, NothingPosts, NothingLeft, PostedGo DEF Answered, Empty
  <2>2. CASE slot[t][0] # Empty
    BY <1>2, <1>3, <1>7, <2>2 DEF Answered, rounds
  <2>3. QED
    BY <2>1, <2>2
<1>8. QED
  BY <1>4, <1>5, <1>6, <1>7

LEMMA PostedCombines ==
    ASSUME IInv, LinedOK, LinedTable, Posts, PostTable, PostedOK, build' = build,
           NEW t \in Threads, Combine(t)
    PROVE  PostedOK'
<1>1. /\ slot' = slot /\ code[t] # <<>> /\ Head(code[t]) = "combine" /\ code[t] \in Seq(AllLabels)
      /\ Go(t, <<"visit">> \o Tail(code[t]))
  BY CodesAreWords DEF Combine, queueVars, At, Rest
<1>2. PostedCode(code[t]) => PostedCode(<<"visit">> \o Tail(code[t]))
  BY <1>1, PostedTail, PostedPrefix DEF Answers, PostingLabels
<1>3. ~Has(<<"visit">> \o Tail(code[t]), "post")
  <2>1. ~Has(code[t], "post")
    BY <1>1 DEF PostedOK, PostsFirst
  <2>2. ~Has(Tail(code[t]), "post")
    BY <1>1, <2>1, HasTail
  <2>3. PICK d : d = <<"visit">> \o Tail(code[t])
    OBVIOUS
  <2>4. Tail(code[t]) \in Seq(AllLabels) /\ "visit" \in AllLabels
    BY <1>1 DEF AllLabels, PostLabels
  <2>5. d \in Seq(AllLabels) /\ d # <<>> /\ Head(d) = "visit" /\ Tail(d) = Tail(code[t])
    BY <2>3, <2>4, Prepended
  <2>6. ~Has(d, "post")
    BY <2>2, <2>5, HasTail
  <2>7. QED
    BY <2>3, <2>6
<1>4. QED
  BY <1>1, <1>2, <1>3, NothingPosts, PostedGo

LEMMA PostedEnqueues ==
    ASSUME IInv, LinedOK, LinedTable, Posts, PostTable, PostedOK, build' = build,
           NEW t \in Threads, Enqueue(t)
    PROVE  PostedOK'
<1> DEFINE alone == [i \in DOMAIN Rest(t) |-> IF Rest(t)[i] = "turn" THEN "readers" ELSE Rest(t)[i]]
<1>1. /\ slot' = slot /\ code[t] # <<>> /\ Head(code[t]) = "enqueue" /\ code[t] \in Seq(AllLabels)
      /\ At(t, "enqueue") /\ \E n : GoTo(t, n, alone) \/ GoTo(t, n, Rest(t))
  BY CodesAreWords DEF Enqueue, queueVars, At
<1>2. ~Has(code[t], "post")
  BY <1>1 DEF PostedOK, PostsFirst
<1>3. ~Has(Rest(t), "post")
  BY <1>1, <1>2, HasTail DEF Rest
<1>4. ~Has(alone, "post")
  BY <1>3 DEF Has
<1>5. "enqueue" \notin PostingLabels
  BY DEF PostingLabels, Answers
<1> HIDE DEF alone
<1>6. QED
  BY <1>1, <1>3, <1>4, <1>5, PostedOther

LEMMA PostedReads ==
    ASSUME IInv, LinedOK, LinedTable, Posts, PostTable, PostedOK, build' = build,
           NEW t \in Threads, CheckLocked(t) \/ WaitFree(t)
    PROVE  PostedOK'
<1>1. slot' = slot
  BY DEF CheckLocked, WaitFree, queueVars
<1>2. PICK l \in {"check", "waitFree"} : At(t, l)
  BY DEF CheckLocked, WaitFree
<1>3. code[t] \in ReaderCodes /\ code[t] # <<>> /\ Head(code[t]) = l
  BY <1>2, AtReaderWord
<1>4. l \notin PostingLabels
  BY DEF PostingLabels, Answers
<1>5. \A c \in ReaderCodes : ~Has(c, "post")
  BY DEF ReaderCodes, ArrivedCodes, ReadingCodes, Has
<1>6. Rest(t) \in ReaderCodes \cup {<<>>} /\ Tail(Rest(t)) \in ReaderCodes \cup {<<>>}
  <2>1. code[t] = <<"check", "lower", "read", "depart">>
        \/ code[t] = <<"waitFree", "arrive", "check", "lower", "read", "depart">>
    BY <1>3 DEF ReaderCodes, ArrivedCodes, ReadingCodes
  <2>2. CASE code[t] = <<"check", "lower", "read", "depart">>
    BY <2>2 DEF Rest, ReaderCodes, ArrivedCodes, ReadingCodes
  <2>3. CASE code[t] = <<"waitFree", "arrive", "check", "lower", "read", "depart">>
    BY <2>3 DEF Rest, ReaderCodes, ArrivedCodes, ReadingCodes
  <2>4. QED
    BY <2>1, <2>2, <2>3
<1>7. ~Has(<<>>, "post") /\ ~Has(<<"depart", "waitFree">> \o Reading, "post")
  <2>1. ~Has(<<"depart", "waitFree", "arrive", "check", "lower", "read", "depart">>, "post")
    BY DEF Has
  <2>2. ~Has(<<>>, "post")
    BY NothingLeft
  <2>3. QED
    BY <2>1, <2>2, ReadersLook
<1>8. PICK d : Go(t, d) /\ d \in {<<"depart", "waitFree">> \o Reading, Rest(t), Tail(Rest(t)), code[t]}
  BY DEF CheckLocked, WaitFree
<1>9. ~Has(d, "post")
  BY <1>3, <1>5, <1>6, <1>7, <1>8
<1>10. QED
  BY <1>1, <1>2, <1>4, <1>8, <1>9, PostedOther

LEMMA PostedStep ==
    ASSUME IInv, LinedOK, LinedTable, Posts, PostTable, PostedOK, build' = build,
           NEW t \in Threads, Step(t) \/ NodeStep(t)
    PROVE  PostedOK'
<1>1. ASSUME NEW l, At(t, l)
      PROVE  l \in PostLabels \cup ReaderWords
  BY <1>1, PostHeads
<1>2. \A l \in {"own", "open", "openFlag", "claim", "publish", "mark", "close", "await", "flush",
                "swap", "tail", "readTail", "lookAgain", "seesEnabled", "arriveAt",
                "checkEnabled", "spin", "departFrom", "enable", "disable", "spinners"} : ~At(t, l)
  BY SMTT(30), <1>1 DEF PostLabels, ReaderWords
<1>3. CASE Step(t)
  <2>1. CASE FlushIsStuck(t) \/ BarrierIsStuck(t)
    BY <2>1, PostedMove DEF FlushIsStuck, BarrierIsStuck, vars, callVars, queueVars, PostedOK
  <2>2. CASE CheckLocked(t) \/ WaitFree(t)
    BY <2>2, PostedReads
  <2>3. CASE \E l \in {"critical", "barrier", "readers", "arrive", "depart", "lower", "read"} :
                GoOn(t, l) /\ slot' = slot
    BY <2>3, PostedGoOn DEF Answers
  <2>4. QED
    BY Zenon, <1>2, <1>3, <2>1, <2>2, <2>3, NoMutexSteps
       DEF Step, StepBesides, Indicator, RunOwn, Open, OpenFlag, OfferClaims, OfferPublishes,
           OfferMarks, Close, Await, FlushLoads, FlushSwaps, FlushSwapFails, FlushRuns,
           FlushReturns, WaitWriters, Arrive, Depart, WaitReaders, LowerBarrier, Read, GoOn,
           queueVars
<1>4. CASE NodeStep(t)
  <2>1. CASE \E l \in {"turn", "leaveLine", "activate", "visit"} : GoOn(t, l) /\ slot' = slot
    BY <2>1, PostedGoOn DEF Answers
  <2>2. CASE Clean(t)
    BY <2>1, <2>2 DEF Clean, GoOn, queueVars
  <2>3. CASE Turn(t) \/ LeaveLine(t) \/ Activate(t)
    BY <2>1, <2>3 DEF Turn, LeaveLine, Activate, queueVars
  <2>4. \/ Enqueue(t) \/ Turn(t) \/ LeaveLine(t) \/ Post(t) \/ IsActive(t) \/ Activate(t)
        \/ TryBarrier(t) \/ TryLine(t) \/ Answered(t) \/ Combine(t) \/ Visit(t) \/ Clean(t)
    BY <1>2, <1>4
       DEF NodeStep, LoadTail, ReadTail, LookAgain, SeesEnabled, ArriveAt, CheckEnabled, Spin,
           DepartFrom, Enable, Disable, WaitSpinners, GoOn
  <2>5. QED
    BY <2>2, <2>3, <2>4, PostedEnqueues, PostedPosts, PostedDecides, PostedCombines, PostedVisits
<1>5. QED
  BY <1>3, <1>4

LEMMA PostedNext ==
    ASSUME IInv, build \in NodeBuilds, LinedOK, Posts, PostedOK, [NodeNext]_allVars
    PROVE  PostedOK'
<1>1. build' = build /\ LinedTable /\ PostTable
  BY BuildIsFixed, LinedTables, PostTables
<1>2. CASE UNCHANGED allVars
  BY <1>1, <1>2 DEF allVars, vars, callVars, queueVars, PostedOK, PostedCode, PostsFirst, Has,
     Slots, offer
<1>3. QED
  BY <1>1, <1>2, SomebodySteps, PostedCalls, PostedStep

LEMMA PostedStart ==
    ASSUME NodeInit, build \in NodeBuilds, Posts
    PROVE  PostedOK
<1>1. /\ code = [t \in Threads |-> <<>>]
      /\ slot = [n \in build.nodes |-> [i \in Slots |-> Empty]]
  BY DEF NodeInit, Start
<1>2. Empty \in [by : Threads \cup {NULL}, size : Nat] /\ Empty.by = NULL
  BY DEF Empty
<1>3. \A t \in Threads : PostsFirst(code[t])
  BY <1>1, NothingLeft, NothingPosts
<1>4. QED
  BY <1>1, <1>2, <1>3 DEF PostedOK

(* What this is for.                                                        *)
LEMMA PostsInOrder ==
    ASSUME build \in NodeBuilds, LinedOK, Posts, PostedOK
    PROVE  FreeLockOwesNothing /\ OwnOperationsInOrder
<1>1. LinedTable /\ Lined
  BY LinedTables DEF LinedTable
<1>2. \A t \in Threads : ~At(t, "publish")
  BY <1>1, PostHeads DEF PostLabels, ReaderWords
<1>3. \A n \in build.nodes : \A i \in Slots : slot[n][i].by # NULL => code[n] # <<>>
  BY DEF PostedOK, PostedCode
<1>4. FreeLockOwesNothing
  BY <1>1, <1>2, <1>3 DEF FreeLockOwesNothing, IsServed
<1>5. ASSUME NEW t \in Threads, NEW l \in {"own", "critical", "read"}, At(t, l)
      PROVE  Owed(t) = {}
  <2>1. l \notin PostingLabels
    BY DEF PostingLabels, Answers
  <2>2. ~PostedCode(code[t])
    BY <1>5, <2>1, PostedSmall DEF At
  <2>3. \A n \in build.nodes : \A i \in Slots : slot[n][i].by # t
    BY <2>2, NullAssumption DEF PostedOK
  <2>4. QED
    BY <2>3 DEF Owed
<1>6. QED
  BY <1>2, <1>4, <1>5 DEF OwnOperationsInOrder

(****************************************************************************)
(* The family, but for newrep_variable: the queues of the builds without    *)
(* posts, then the order of a thread's own operations.                      *)
(****************************************************************************)
Fit == IInv /\ WordsOK /\ AtNodes /\ (Posts \/ QueueFacts)

LEMMA FitHolds ==
    ASSUME "newrep_variable" \notin Builds
    PROVE  NodeSpec => []Fit
<1>1. NodeInit => build.name \in Builds
  BY DEF NodeInit, Start
<1>2. build.name \in Builds /\ [NodeNext]_allVars => (build.name \in Builds)'
  BY BuildIsFixed
<1>3. IInv /\ build.name \in Builds => Fit
  <2>1. SUFFICES ASSUME IInv, build.name \in Builds
                 PROVE  Fit
    OBVIOUS
  <2>2. build \in Locks \cup NodeBuilds
    BY <2>1 DEF IInv
  <2>3. QED
    BY <2>1, <2>2, QueueFactsHold, WordsHold, NodeOf DEF Fit, AtNodes
<1>4. QED
  BY <1>1, <1>2, <1>3, Invariant, PTL DEF NodeSpec

LEMMA PostsStay == build' = build => Posts' = Posts
BY DEF Posts, Helping

Queued == Posts \/ QInv

LEMMA QueuedHolds ==
    ASSUME "newrep_variable" \notin Builds
    PROVE  NodeSpec => []Queued
<1>1. NodeInit /\ Fit => Queued
  BY InitQInv DEF Fit, Queued
<1>2. Fit /\ Fit' /\ Queued /\ [NodeNext]_allVars => Queued'
  BY BuildIsFixed, PostsStay, QueueNext DEF Fit, Queued
<1>3. QED
  BY <1>1, <1>2, FitHolds, PTL DEF NodeSpec

Sound == Fit /\ Queued /\ (Posts \/ (OneServes /\ OwedServed))

LEMMA SoundHolds ==
    ASSUME "newrep_variable" \notin Builds
    PROVE  NodeSpec => []Sound
<1>1. Fit /\ Queued => Sound
  BY QueueState DEF Fit, Queued, Sound
<1>2. QED
  BY <1>1, FitHolds, QueuedHolds, PTL

InOrder ==
    \/ build \in Locks /\ ~Posts /\ MutexOwn
    \/ build \in NodeBuilds /\ ~Posts /\ LinedOwn
    \/ build \in NodeBuilds /\ Posts /\ PostedOK

LEMMA WhichBuild ==
    ASSUME IInv
    PROVE  /\ build \in Locks =>
                  MutexOK /\ ~Lined /\ ~Posts /\ (~Hierarchical => build.nodes = {1})
           /\ build \in NodeBuilds => LinedOK /\ LinedTable /\ Lined
BY MutexTables, LinedTables DEF MutexTable, LinedTable, IInv

LEMMA StartsInOrder ==
    ASSUME NodeInit
    PROVE  InOrder
<1>1. build \in Locks \cup NodeBuilds /\ code = [t \in Threads |-> <<>>]
  BY DEF NodeInit, Start
<1>2. \A t \in Threads : code[t] = <<>>
  BY <1>1
<1>3. <<>> \notin ReadingCodes /\ <<>> \notin LookingCodes /\ <<>> \notin SpinningCodes
  BY DEF ReadingCodes, LookingCodes, SpinningCodes
<1>4. ~Serving(<<>>) /\ ~Follows(<<>>)
  BY <1>3, NothingLeft DEF Serving, Follows, Trails, InLine, Holds
<1>5. MutexOwn /\ LinedOwn
  BY <1>2, <1>3, <1>4 DEF MutexOwn, LinedOwn, NotInOwn
<1>6. build \in Locks => ~Posts
  BY MutexTables DEF MutexTable
<1>7. QED
  BY <1>1, <1>5, <1>6, PostedStart DEF InOrder

LEMMA StaysInOrder ==
    ASSUME Sound, Sound', InOrder, [NodeNext]_allVars
    PROVE  InOrder'
BY BuildIsFixed, PostsStay, WhichBuild, MutexOwnKept, LinedOwnKept, PostedNext DEF Sound, Fit,
   Queued, InOrder

LEMMA OrderHolds ==
    ASSUME "newrep_variable" \notin Builds
    PROVE  NodeSpec => [](Sound /\ InOrder)
<1>1. NodeInit => InOrder
  BY StartsInOrder
<1>2. Sound /\ Sound' /\ InOrder /\ [NodeNext]_allVars => InOrder'
  BY StaysInOrder
<1>3. QED
  BY <1>1, <1>2, SoundHolds, PTL DEF NodeSpec

(* A queue that nobody serves has nothing in it: every operation that was   *)
(* accepted is run before the lock is free, also while others are about to  *)
(* fill the slots they have claimed. newrep_variable is left out: the cells *)
(* of its queue are told apart by their sizes only, and it may lose one.    *)
THEOREM NothingIsOwed ==
    ASSUME "newrep_variable" \notin Builds
    PROVE  NodeSpec => []FreeLockOwesNothing
<1>1. Sound /\ InOrder => FreeLockOwesNothing
  BY WhichBuild, FreeQueuesOweNothing, PostsInOrder DEF Sound, Fit, Queued, InOrder
<1>2. QED
  BY <1>1, OrderHolds, PTL

(* A thread that reads, or runs an operation or a section itself, has none  *)
(* of its earlier operations left; one that delegates has them left only in *)
(* the queue it delegates to or in one that is served before that.          *)
THEOREM OwnOrder ==
    ASSUME "newrep_variable" \notin Builds
    PROVE  NodeSpec => []OwnOperationsInOrder
<1>1. Sound /\ InOrder => OwnOperationsInOrder
  BY WhichBuild, MutexInOrder, LinedInOrder, PostsInOrder DEF Sound, Fit, Queued, InOrder
<1>2. QED
  BY <1>1, OrderHolds, PTL
=============================================================================
