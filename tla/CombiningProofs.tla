--------------------------- MODULE CombiningProofs ---------------------------
(****************************************************************************)
(* Proofs about Combining, for any set of threads and of NUMA nodes, any    *)
(* values and any bounds on what one thread runs for the others: in each of *)
(* the six builds one thread at a time works on the heap, no operation is   *)
(* left behind, and the build implements the shared heap.                   *)
(****************************************************************************)
EXTENDS Combining, FiniteSetTheorems, TLAPS

Labels ==
    HolderLabels \cup
    {"idle", "clhSwap", "clhSpin", "post", "spin",
     "make", "insert", "insertSwap", "await",
     "getSlot", "addSlot", "request", "tryLock", "look", "isLocked"}

Args == Values \cup {DEQUEUE}

(* What the operation of a dequeue can find.                                *)
Answers_ == Values \cup {-1, 0}

LEMMA ArgsAreNumbers ==
    /\ \A v \in Values : v \in Nat /\ v > 0 /\ v # DEQUEUE /\ -(v + 2) # DEQUEUE
    /\ \A arg \in Args : arg \in Int /\ arg # 0
    /\ \A a \in Answers_ : a \in Int /\ a >= -1 /\ -(a + 2) # DEQUEUE
    /\ DEQUEUE \in Int /\ DEQUEUE < -1
BY ValuesAssumption, DequeueAssumption DEF Args, Answers_, DEQUEUE

(****************************************************************************)
(* The heap.                                                                *)
(****************************************************************************)
HeapOK == heap \in [Values -> Nat]

LEMMA LeastElement ==
    ASSUME NEW S \in SUBSET Nat, S # {}
    PROVE  \E n \in S : \A m \in S : n <= m
<1>1. PICK x \in S : \A y \in S : ~ (<<y, x>> \in OpToRel(<, Nat))
  BY NatLessThanWellFounded, WFMin, Zenon
<1>2. \A y \in S : ~ (y < x)
  BY <1>1, Zenon DEF OpToRel
<1>3. \A y \in S : x <= y
  BY <1>2
<1>4. QED
  BY <1>3

(* dequeue finds a value that is in the heap, or that the heap is empty.    *)
LEMMA TopIsHeld ==
    ASSUME HeapOK
    PROVE  /\ Promise!Held(heap) \subseteq Values
           /\ Promise!Held(heap) = {} => Promise!Top(heap) = -1
           /\ Promise!Held(heap) # {} => Promise!Top(heap) \in Promise!Held(heap)
<1>1. Promise!Held(heap) \subseteq Values
  BY DEF Promise!Held
<1>2. CASE Promise!Held(heap) = {}
  BY <1>1, <1>2 DEF Promise!Top
<1>3. CASE Promise!Held(heap) # {}
  <2>1. Promise!Held(heap) \in SUBSET Nat
    BY <1>1, ValuesAssumption
  <2>2. PICK v \in Promise!Held(heap) : \A w \in Promise!Held(heap) : v <= w
    BY <1>3, <2>1, LeastElement
  <2>3. (CHOOSE x \in Promise!Held(heap) : \A w \in Promise!Held(heap) : x <= w)
            \in Promise!Held(heap)
    BY <2>2
  <2>4. QED
    BY <1>1, <1>3, <2>3 DEF Promise!Top
<1>4. QED
  BY <1>2, <1>3

LEMMA TopType ==
    ASSUME HeapOK
    PROVE  /\ Promise!Top(heap) \in Values \cup {-1}
           /\ Promise!Top(heap) \in Answers_ \ {0}
           /\ Promise!Top(heap) \in Int
<1>1. Promise!Top(heap) \in Values \cup {-1}
  BY TopIsHeld
<1>2. QED
  BY <1>1, ArgsAreNumbers DEF Answers_

LEMMA AfterType ==
    ASSUME HeapOK, NEW arg \in Args
    PROVE  Promise!After(heap, arg) \in [Values -> Nat]
<1>1. CASE arg # DEQUEUE
  BY <1>1 DEF Promise!After, HeapOK, Args
<1>2. CASE arg = DEQUEUE /\ Promise!Held(heap) = {}
  BY <1>2 DEF Promise!After, HeapOK
<1>3. CASE arg = DEQUEUE /\ Promise!Held(heap) # {}
  <2>1. Promise!Top(heap) \in Values /\ heap[Promise!Top(heap)] > 0
    BY <1>3, TopIsHeld DEF Promise!Held
  <2>2. heap[Promise!Top(heap)] - 1 \in Nat
    BY <2>1 DEF HeapOK
  <2>3. QED
    BY <1>3, <2>1, <2>2 DEF Promise!After, HeapOK
<1>4. QED
  BY <1>1, <1>2, <1>3

(****************************************************************************)
(* The clients. A dequeue is the last operation of its thread, which waits  *)
(* for it; enqueues may be many where they detach.                          *)
(****************************************************************************)
ClientsTypeOK ==
    /\ build \in AllBuilds
    /\ pc \in [Threads -> Labels]
    /\ HeapOK
    /\ request \in [Threads -> Args \cup {0}]
    /\ pending \in [Threads -> Seq(Args)]
    /\ answer \in [Threads -> Answers_]
    /\ returned \in [Threads -> Int]

ClientOK(t) ==
    /\ request[t] = 0 <=> pc[t] = "idle"
    /\ request[t] # DEQUEUE => answer[t] = 0
    /\ \A i \in 1 .. Len(pending[t]) :
           pending[t][i] = DEQUEUE => i = Len(pending[t]) /\ request[t] = DEQUEUE

ClientsOK == ClientsTypeOK /\ \A t \in Threads : ClientOK(t)

(* What the callers of the build add to an answer.                          *)
Added == IF build \in {ccsynch, hsynch} THEN 2 ELSE 0

MayReturn(t) == pending[t] = <<>> \/ (build.detaches /\ request[t] # DEQUEUE)

(* The step of a thread as the heap and the clients see it: a call, the run *)
(* of the next operation of a thread, a return, or nothing.                 *)
Calls(t) == pc'[t] # "idle" /\ \E arg \in Args : Begin(t, arg)

RunsNext(t) ==
    /\ pc[t] # "idle" /\ pc'[t] # "idle"
    /\ \E u \in Threads : pending[u] # <<>> /\ Runs(u, Head(pending[u]))

Returns(t) ==
    /\ pc[t] # "idle" /\ pc'[t] = "idle"
    /\ MayReturn(t)
    /\ \E result \in Int :
           /\ Return(t, result)
           /\ request[t] = DEQUEUE => result = answer[t] + Added

GoesOn(t) ==
    /\ pc[t] # "idle" /\ pc'[t] # "idle"
    /\ UNCHANGED clientVars

Moves(t) ==
    /\ pc' \in [Threads -> Labels]
    /\ \A u \in Threads \ {t} : pc'[u] = pc[u]

ClientStep(t) ==
    /\ build' = build
    /\ Moves(t)
    /\ Calls(t) \/ RunsNext(t) \/ Returns(t) \/ GoesOn(t)

LEMMA MoveIs ==
    ASSUME ClientsTypeOK, NEW t \in Threads, NEW from, NEW to \in Labels, Move(t, from, to)
    PROVE  pc[t] = from /\ pc'[t] = to /\ Moves(t)
BY DEF ClientsTypeOK, Move, Moves

LEMMA BeginIs ==
    ASSUME ClientsTypeOK, NEW t \in Threads, NEW arg \in Args, Begin(t, arg)
    PROVE  /\ pending'[t] = Append(pending[t], arg) /\ request'[t] = arg
           /\ answer' = answer
           /\ \A u \in Threads \ {t} : pending'[u] = pending[u] /\ request'[u] = request[u]
           /\ pending[t] = <<>> => pending'[t] = <<arg>>
<1>1. Append(<<>>, arg) = <<arg>>
  OBVIOUS
<1>2. QED
  BY <1>1 DEF ClientsTypeOK, Begin

LEMMA RunsIs ==
    ASSUME ClientsTypeOK, NEW u \in Threads, NEW arg, Runs(u, arg), pending[u] = <<arg>>
    PROVE  /\ pending[u] # <<>> /\ Runs(u, Head(pending[u]))
           /\ pending'[u] = <<>> /\ request' = request
           /\ arg = DEQUEUE => answer'[u] = Promise!Top(heap)
           /\ arg # DEQUEUE => answer'[u] = answer[u]
           /\ \A w \in Threads \ {u} : pending'[w] = pending[w] /\ answer'[w] = answer[w]
<1>1. pending[u] # <<>> /\ Head(pending[u]) = arg /\ Tail(pending[u]) = <<>>
  OBVIOUS
<1>2. QED
  BY <1>1 DEF ClientsTypeOK, Runs

LEMMA ReturnIs ==
    ASSUME ClientsTypeOK, NEW t \in Threads, NEW result, Return(t, result)
    PROVE  /\ request'[t] = 0 /\ pending' = pending
           /\ \A u \in Threads \ {t} : request'[u] = request[u] /\ answer'[u] = answer[u]
BY DEF ClientsTypeOK, Return

LEMMA CallKeepsClients ==
    ASSUME ClientsOK, NEW t \in Threads, ClientStep(t), Calls(t)
    PROVE  /\ ClientsOK'
           /\ \E arg \in Args : PromisedHeap!Call(t, arg)
<1>1. PICK arg \in Args : Begin(t, arg)
  BY DEF Calls
<1> USE ArgsAreNumbers
<1>2. ClientsTypeOK'
  BY <1>1 DEF ClientsOK, ClientsTypeOK, ClientStep, Moves, Begin, HeapOK
<1>3. ASSUME NEW u \in Threads
      PROVE  ClientOK(u)'
  <2>1. pending[u] \in Seq(Args) /\ ClientOK(u) /\ ClientOK(t)
    BY DEF ClientsOK, ClientsTypeOK
  <2>2. CASE u # t
    BY <1>1, <2>1, <2>2 DEF ClientsOK, ClientsTypeOK, ClientOK, ClientStep, Moves, Begin
  <2>3. CASE u = t
    <3>1. request'[t] = arg /\ pending'[t] = Append(pending[t], arg) /\ answer' = answer
      BY <1>1 DEF ClientsOK, ClientsTypeOK, Begin
    <3>2. pc[t] = "idle" /\ pc'[t] # "idle"
      BY <1>1 DEF Begin, Calls
    <3>3. answer[t] = 0 /\ \A i \in 1 .. Len(pending[t]) : pending[t][i] # DEQUEUE
      BY <2>1, <2>3, <3>2 DEF ClientOK
    <3>4. QED
      BY <2>1, <2>3, <3>1, <3>2, <3>3 DEF ClientOK
  <2>4. QED
    BY <2>2, <2>3
<1>4. PromisedHeap!Call(t, arg)
  <2>1. request[t] = 0
    BY <1>1 DEF ClientsOK, ClientOK, Begin
  <2>2. build.detaches' = build.detaches
    BY DEF ClientStep, Moves
  <2>3. [u \in Threads |->
             IF build' \in {ccsynch, hsynch} /\ returned'[u] # 0 THEN returned'[u] - 2
             ELSE returned'[u]]
        = [[u \in Threads |->
             IF build \in {ccsynch, hsynch} /\ returned[u] # 0 THEN returned[u] - 2
             ELSE returned[u]] EXCEPT ![t] = 0]
    BY <1>1 DEF ClientStep, Moves, Begin, ClientsOK, ClientsTypeOK
  <2>4. QED
    BY <1>1, <2>1, <2>2, <2>3 DEF PromisedHeap!Call, Begin
<1>5. QED
  BY <1>2, <1>3, <1>4 DEF ClientsOK

LEMMA RunKeepsClients ==
    ASSUME ClientsOK, NEW t \in Threads, ClientStep(t), RunsNext(t)
    PROVE  /\ ClientsOK'
           /\ \E u \in Threads : PromisedHeap!Run(u)
<1>1. PICK u \in Threads : pending[u] # <<>> /\ Runs(u, Head(pending[u]))
  BY DEF RunsNext
<1> DEFINE arg == Head(pending[u])
<1> USE ArgsAreNumbers
<1>2. pending[u] \in Seq(Args) /\ arg \in Args /\ arg = pending[u][1] /\ Len(pending[u]) > 0
  BY <1>1 DEF ClientsOK, ClientsTypeOK
<1>3. /\ heap' = Promise!After(heap, arg)
      /\ pending' = [pending EXCEPT ![u] = Tail(@)]
      /\ answer' = [answer EXCEPT ![u] = IF arg = DEQUEUE THEN Promise!Top(heap) ELSE @]
      /\ UNCHANGED <<request, returned>>
  <2> HIDE DEF arg
  <2> USE DEF arg
  <2>1. QED
    BY <1>1 DEF Runs, ClientsOK, ClientsTypeOK
<1> HIDE DEF arg
<1>4. ClientsTypeOK'
  <2>1. HeapOK'
    BY <1>2, <1>3, AfterType DEF ClientsOK, ClientsTypeOK, HeapOK
  <2>2. Promise!Top(heap) \in Answers_
    BY TopType DEF ClientsOK, ClientsTypeOK, Answers_
  <2>3. Tail(pending[u]) \in Seq(Args)
    BY <1>1, <1>2
  <2>4. QED
    BY <1>3, <2>1, <2>2, <2>3 DEF ClientsOK, ClientsTypeOK, ClientStep, Moves
<1>5. ASSUME NEW w \in Threads
      PROVE  ClientOK(w)'
  <2>1. pending[w] \in Seq(Args) /\ ClientOK(w) /\ (pc'[w] = "idle" <=> pc[w] = "idle")
    BY DEF ClientsOK, ClientsTypeOK, ClientStep, Moves, RunsNext
  <2>2. CASE w # u
    BY <1>3, <2>1, <2>2 DEF ClientsOK, ClientsTypeOK, ClientOK
  <2>3. CASE w = u
    <3>1. pending'[u] = Tail(pending[u])
      BY <1>3 DEF ClientsOK, ClientsTypeOK
    <3>2. request'[u] # DEQUEUE => answer'[u] = 0
      <4>1. arg = DEQUEUE => request[u] = DEQUEUE
        <5>1. 1 \in 1 .. Len(pending[u])
          BY <1>2
        <5>2. QED
          BY <1>2, <2>1, <2>3, <5>1 DEF ClientOK
      <4>2. answer'[u] = IF arg = DEQUEUE THEN Promise!Top(heap) ELSE answer[u]
        BY <1>3 DEF ClientsOK, ClientsTypeOK
      <4>3. QED
        BY <1>3, <2>1, <2>3, <4>1, <4>2 DEF ClientOK
    <3>3. QED
      BY <1>2, <1>3, <2>1, <2>3, <3>1, <3>2 DEF ClientOK
  <2>4. QED
    BY <2>2, <2>3
<1>6. PromisedHeap!Run(u)
  <2>1. build' = build
    BY DEF ClientStep, Moves
  <2>2. PromisedHeap!After(heap, arg) = Promise!After(heap, arg)
        /\ PromisedHeap!Top(heap) = Promise!Top(heap)
    BY DEF PromisedHeap!After, Promise!After, PromisedHeap!Top, Promise!Top,
           PromisedHeap!Held, Promise!Held
  <2>3. QED
    BY <1>1, <1>3, <2>1, <2>2 DEF PromisedHeap!Run, arg
<1>7. QED
  BY <1>4, <1>5, <1>6 DEF ClientsOK

LEMMA ReturnKeepsClients ==
    ASSUME ClientsOK, NEW t \in Threads, ClientStep(t), Returns(t)
    PROVE  /\ ClientsOK'
           /\ PromisedHeap!Return(t)
<1>1. PICK result \in Int :
          Return(t, result) /\ (request[t] = DEQUEUE => result = answer[t] + Added)
  BY DEF Returns
<1> USE ArgsAreNumbers
<1>2. ClientsTypeOK'
  BY <1>1 DEF ClientsOK, ClientsTypeOK, ClientStep, Moves, Return, HeapOK, Answers_
<1>3. ASSUME NEW u \in Threads
      PROVE  ClientOK(u)'
  <2>1. pending[u] \in Seq(Args) /\ ClientOK(u) /\ MayReturn(t)
    BY DEF ClientsOK, ClientsTypeOK, Returns
  <2>2. QED
    BY <1>1, <2>1 DEF ClientsOK, ClientsTypeOK, ClientOK, ClientStep, Moves, Return, Returns, MayReturn
<1>4. PromisedHeap!Return(t)
  <2>1. request[t] # 0 /\ build' = build /\ ClientOK(t)
    BY DEF ClientsOK, ClientOK, Returns, ClientStep, Moves
  <2>2. (IF build \in {ccsynch, hsynch} /\ returned'[t] # 0 THEN returned'[t] - 2
         ELSE returned'[t]) = answer[t]
    <3>1. returned'[t] = IF request[t] = DEQUEUE THEN answer[t] + Added ELSE 0
      BY <1>1 DEF Return, ClientsOK, ClientsTypeOK
    <3>2. answer[t] \in Answers_
      BY DEF ClientsOK, ClientsTypeOK
    <3>3. QED
      BY <2>1, <3>1, <3>2 DEF Added, ClientOK
  <2>3. [u \in Threads |->
             IF build' \in {ccsynch, hsynch} /\ returned'[u] # 0 THEN returned'[u] - 2
             ELSE returned'[u]]
        = [[u \in Threads |->
             IF build \in {ccsynch, hsynch} /\ returned[u] # 0 THEN returned[u] - 2
             ELSE returned[u]] EXCEPT ![t] = answer[t]]
    BY <1>1, <2>1, <2>2 DEF Return, ClientsOK, ClientsTypeOK
  <2>4. QED
    BY <1>1, <2>1, <2>3 DEF PromisedHeap!Return, Return, Returns, MayReturn
<1>5. QED
  BY <1>2, <1>3, <1>4 DEF ClientsOK

LEMMA ClientStepKeepsClients ==
    ASSUME ClientsOK, NEW t \in Threads, ClientStep(t)
    PROVE  ClientsOK' /\ [PromisedHeap!Next]_(PromisedHeap!vars)
<1>1. CASE Calls(t)
  BY <1>1, CallKeepsClients DEF PromisedHeap!Next, Args
<1>2. CASE RunsNext(t)
  BY <1>2, RunKeepsClients DEF PromisedHeap!Next
<1>3. CASE Returns(t)
  BY <1>3, ReturnKeepsClients DEF PromisedHeap!Next
<1>4. CASE GoesOn(t)
  <2>1. ClientsTypeOK'
    BY <1>4 DEF ClientsOK, ClientsTypeOK, ClientStep, Moves, GoesOn, clientVars, HeapOK
  <2>2. \A u \in Threads : ClientOK(u)'
    BY <1>4 DEF ClientsOK, ClientOK, ClientStep, Moves, GoesOn, clientVars
  <2>3. UNCHANGED PromisedHeap!vars
    BY <1>4 DEF PromisedHeap!vars, ClientStep, Moves, GoesOn, clientVars
  <2>4. QED
    BY <2>1, <2>2, <2>3 DEF ClientsOK
<1>5. QED
  BY <1>1, <1>2, <1>3, <1>4 DEF ClientStep, Moves

(****************************************************************************)
(* The CLH lock. Whoever is in the queue has a node of its own, which is    *)
(* locked, and the node of its predecessor; of these and the tail one at    *)
(* most is unlocked, and the thread that finds it so has the lock.          *)
(****************************************************************************)
CLHHoldLabels == {"own", "leave", "combine", "complete", "release", "clhUnlock"}

CLHLabels == {"clhSpin"} \cup CLHHoldLabels

CLHNodes == Threads \cup {Central}

CLHTypeOK ==
    /\ clhTail \in CLHNodes
    /\ clhLocked \in [CLHNodes -> BOOLEAN]
    /\ MyNode \in [Threads -> CLHNodes]
    /\ MyPred \in [Threads -> CLHNodes \cup {NULL}]
    /\ found \in [Threads -> Int]

CLHQueueOK ==
    /\ CLHTypeOK
    /\ \A t \in Threads : pc[t] \in CLHLabels =>
           clhLocked[MyNode[t]] /\ MyPred[t] \in CLHNodes \ {clhTail}
    /\ \A t \in Threads : pc[t] \in CLHHoldLabels => ~clhLocked[MyPred[t]]
    /\ \A t \in Threads : pc[t] \in CLHLabels /\ ~clhLocked[MyPred[t]] => clhLocked[clhTail]
    /\ \A t, u \in Threads : t # u => MyNode[t] # MyNode[u]
    /\ \A t, u \in Threads : t # u /\ pc[t] \in CLHLabels /\ pc[u] \in CLHLabels =>
           MyPred[t] # MyPred[u] /\ (clhLocked[MyPred[t]] \/ clhLocked[MyPred[u]])
    /\ \A t \in Threads : pc[t] \notin CLHLabels =>
           MyNode[t] # clhTail
           /\ \A u \in Threads : pc[u] \in CLHLabels => MyPred[u] # MyNode[t]

LEMMA CLHSwapKeepsQueue ==
    ASSUME CLHQueueOK, pc \in [Threads -> Labels], NEW t \in Threads, NEW from,
           from \notin CLHLabels, CLHSwap(t, from)
    PROVE  CLHQueueOK'
BY DEF CLHQueueOK, CLHTypeOK, CLHSwap, Move, CLHLabels, CLHHoldLabels

LEMMA CLHSpinKeepsQueue ==
    ASSUME CLHQueueOK, pc \in [Threads -> Labels], NEW t \in Threads, NEW to,
           to \in CLHHoldLabels, CLHSpin(t, to)
    PROVE  CLHQueueOK'
BY DEF CLHQueueOK, CLHTypeOK, CLHSpin, Move, CLHLabels, CLHHoldLabels, clhVars

LEMMA CLHUnlockKeepsQueue ==
    ASSUME CLHQueueOK, pc \in [Threads -> Labels], NEW t \in Threads, NEW from,
           from \in CLHHoldLabels, CLHUnlock(t, from)
    PROVE  CLHQueueOK'
BY DEF CLHQueueOK, CLHTypeOK, CLHUnlock, Move, CLHLabels, CLHHoldLabels

LEMMA OtherStepKeepsQueue ==
    ASSUME CLHQueueOK, pc \in [Threads -> Labels], pc' \in [Threads -> Labels],
           UNCHANGED <<clhTail, clhLocked, MyNode, MyPred>>, found' \in [Threads -> Int],
           \A u \in Threads : /\ pc'[u] \in CLHHoldLabels <=> pc[u] \in CLHHoldLabels
                              /\ pc'[u] = "clhSpin" <=> pc[u] = "clhSpin"
    PROVE  CLHQueueOK'
BY DEF CLHQueueOK, CLHTypeOK, CLHLabels

LEMMA CLHExcludes ==
    ASSUME CLHQueueOK, NEW t \in Threads, NEW u \in Threads,
           pc[t] \in CLHHoldLabels, pc[u] \in CLHHoldLabels
    PROVE  t = u
BY DEF CLHQueueOK, CLHLabels

(* The "clh" build: an operation runs between the lock and the unlock.      *)
CLHThreadOK(t) ==
    /\ pc[t] \in {"idle", "clhSpin", "own", "leave"}
    /\ pc[t] \in {"idle", "leave"} => pending[t] = <<>>
    /\ pc[t] \in {"clhSpin", "own"} => pending[t] = <<request[t]>>
    /\ pc[t] = "leave" /\ request[t] = DEQUEUE => found[t] = answer[t]

CLHOK == CLHQueueOK /\ \A t \in Threads : CLHThreadOK(t)

LEMMA CLHCallKeeps ==
    ASSUME ClientsOK, CLHOK, build = clh, NEW t \in Threads, NEW arg \in Args,
           CLHCall(t, arg), UNCHANGED build
    PROVE  CLHOK' /\ ClientStep(t)
<1>0. ClientsTypeOK /\ pc \in [Threads -> Labels]
  BY DEF ClientsOK, ClientsTypeOK
<1>1. pc[t] = "idle" /\ pc'[t] = "clhSpin" /\ Moves(t)
  <2>1. Move(t, "idle", "clhSpin")
    BY DEF CLHCall, CLHSwap
  <2>2. QED
    BY <1>0, <2>1, MoveIs DEF Labels
<1>2. CLHQueueOK'
  BY <1>0, CLHSwapKeepsQueue DEF CLHOK, CLHCall, CLHLabels, CLHHoldLabels
<1>3. \A u \in Threads : CLHThreadOK(u)'
  <2>1. /\ request' = [request EXCEPT ![t] = arg]
        /\ pending' = [pending EXCEPT ![t] = Append(@, arg)]
        /\ answer' = answer /\ found' = found
    BY DEF CLHCall, Begin, CLHSwap
  <2>2. pending[t] = <<>> /\ Append(<<>>, arg) = <<arg>>
    BY <1>1 DEF CLHOK, CLHThreadOK
  <2>3. pending'[t] = <<arg>> /\ request'[t] = arg
    BY <2>1, <2>2 DEF ClientsOK, ClientsTypeOK
  <2>4. \A u \in Threads \ {t} : pending'[u] = pending[u] /\ request'[u] = request[u]
    BY <2>1 DEF ClientsOK, ClientsTypeOK
  <2>5. QED
    BY <1>1, <2>1, <2>3, <2>4 DEF CLHOK, CLHThreadOK, Moves
<1>4. ClientStep(t)
  BY <1>1 DEF CLHCall, ClientStep, Calls
<1>5. QED
  BY <1>2, <1>3, <1>4 DEF CLHOK

LEMMA CLHStepKeeps ==
    ASSUME ClientsOK, CLHOK, build = clh, NEW t \in Threads, CLHStep(t), UNCHANGED build
    PROVE  CLHOK' /\ ClientStep(t)
<1>0. ClientsTypeOK /\ pc \in [Threads -> Labels]
  BY DEF ClientsOK, ClientsTypeOK
<1>1. CASE CLHSpin(t, "own") /\ UNCHANGED clientVars
  <2>1. CLHQueueOK'
    BY <1>0, <1>1, CLHSpinKeepsQueue DEF CLHOK, CLHHoldLabels
  <2>2. Move(t, "clhSpin", "own") /\ found' = found /\ UNCHANGED clientVars
    BY <1>1 DEF CLHSpin, clhVars
  <2>3. pc[t] = "clhSpin" /\ pc'[t] = "own" /\ Moves(t)
    BY <1>0, <2>2, MoveIs DEF Labels, HolderLabels
  <2>4. ClientStep(t)
    BY <2>2, <2>3 DEF ClientStep, GoesOn
  <2>5. \A u \in Threads : CLHThreadOK(u)'
    BY <2>2, <2>3 DEF CLHOK, CLHThreadOK, clientVars, Moves
  <2>6. QED
    BY <2>1, <2>4, <2>5 DEF CLHOK
<1>2. CASE CLHRuns(t)
  <2>1. pc[t] = "own" /\ pc'[t] = "leave" /\ Moves(t)
    BY <1>0, <1>2, MoveIs DEF Labels, HolderLabels, CLHRuns
  <2>2. pending[t] = <<request[t]>>
    BY <2>1 DEF CLHOK, CLHThreadOK
  <2>3. dequeue_cs = Promise!Top(heap) /\ Promise!Top(heap) \in Int
    <3>1. build.shift = 0
      BY DEF clh
    <3>2. Promise!Top(heap) \in Int
      BY <1>0, TopType DEF ClientsTypeOK
    <3>3. QED
      BY <3>1, <3>2 DEF dequeue_cs
  <2>4. found' = [found EXCEPT ![t] = Promise!Top(heap)]
    BY <1>2, <2>3 DEF CLHRuns
  <2>5. CLHQueueOK'
    <3>1. found' \in [Threads -> Int]
      BY <2>3, <2>4 DEF CLHOK, CLHQueueOK, CLHTypeOK
    <3>2. pc' \in [Threads -> Labels]
          /\ \A u \in Threads : /\ pc'[u] \in CLHHoldLabels <=> pc[u] \in CLHHoldLabels
                                /\ pc'[u] = "clhSpin" <=> pc[u] = "clhSpin"
      BY <2>1 DEF Moves, CLHHoldLabels
    <3>3. UNCHANGED <<clhTail, clhLocked, MyNode, MyPred>>
      BY <1>2 DEF CLHRuns
    <3>4. QED
      BY <1>0, <3>1, <3>2, <3>3, OtherStepKeepsQueue DEF CLHOK
  <2>6. Runs(t, Head(pending[t])) /\ pending[t] # <<>>
    BY <1>2, <2>2 DEF CLHRuns
  <2>7. \A u \in Threads : CLHThreadOK(u)'
    <3>1. /\ pending' = [pending EXCEPT ![t] = <<>>] /\ request' = request
          /\ answer' = [answer EXCEPT ![t] =
                 IF request[t] = DEQUEUE THEN Promise!Top(heap) ELSE @]
      BY <1>2, <2>2 DEF CLHRuns, Runs
    <3>2. /\ pending'[t] = <<>> /\ found'[t] = Promise!Top(heap)
          /\ request[t] = DEQUEUE => answer'[t] = Promise!Top(heap)
      BY <2>4, <3>1 DEF ClientsOK, ClientsTypeOK, CLHOK, CLHQueueOK, CLHTypeOK
    <3>3. \A u \in Threads \ {t} :
              pending'[u] = pending[u] /\ answer'[u] = answer[u] /\ found'[u] = found[u]
      BY <2>4, <3>1 DEF ClientsOK, ClientsTypeOK, CLHOK, CLHQueueOK, CLHTypeOK
    <3>4. CLHThreadOK(t)'
      BY <2>1, <3>1, <3>2 DEF CLHThreadOK
    <3>5. ASSUME NEW u \in Threads \ {t}
          PROVE  CLHThreadOK(u)'
      BY <2>1, <3>1, <3>3 DEF CLHOK, CLHThreadOK, Moves
    <3>6. QED
      BY <3>4, <3>5
  <2>8. ClientStep(t)
    BY <2>1, <2>2, <2>6 DEF ClientStep, RunsNext
  <2>9. QED
    BY <2>5, <2>7, <2>8 DEF CLHOK
<1>3. CASE CLHUnlock(t, "leave") /\ Return(t, found[t])
  <2>1. CLHQueueOK'
    BY <1>0, <1>3, CLHUnlockKeepsQueue DEF CLHOK, CLHHoldLabels
  <2>2. pc[t] = "leave" /\ pc'[t] = "idle" /\ Moves(t)
    BY <1>0, <1>3, MoveIs DEF Labels, CLHUnlock
  <2>3. \A u \in Threads : CLHThreadOK(u)'
    BY <1>3, <2>2 DEF CLHOK, CLHThreadOK, CLHUnlock, Moves, Return, CLHQueueOK, CLHTypeOK,
                      ClientsOK, ClientsTypeOK
  <2>4. MayReturn(t) /\ found[t] \in Int /\ (request[t] = DEQUEUE => found[t] = answer[t])
    BY <2>2 DEF CLHOK, CLHThreadOK, MayReturn, CLHQueueOK, CLHTypeOK
  <2>5. Added = 0
    BY DEF Added, clh, ccsynch, hsynch
  <2>6. answer[t] \in Int
    BY ArgsAreNumbers DEF ClientsOK, ClientsTypeOK
  <2>7. ClientStep(t)
    BY <1>3, <2>2, <2>4, <2>5, <2>6 DEF ClientStep, Returns
  <2>8. QED
    BY <2>1, <2>3, <2>7 DEF CLHOK
<1>4. QED
  BY <1>1, <1>2, <1>3 DEF CLHStep

(****************************************************************************)
(* Flat combining. From the moment a thread has posted its request its slot *)
(* holds the request, and the operation has yet to run or is being          *)
(* answered, or the slot holds the answer.                                  *)
(****************************************************************************)
FlatHoldLabels == {"round", "visit", "answer", "unlock"}

FlatPostLabels == {"tryLock", "look", "isLocked"} \cup FlatHoldLabels

FlatLabels == {"idle", "getSlot", "addSlot", "request"} \cup FlatPostLabels

IsIn(t, s) == \E i \in DOMAIN s : s[i] = t

FlatTypeOK ==
    /\ fcLock \in BOOLEAN
    /\ slots \in Seq(Threads)
    /\ req_ans \in [Threads -> Int]
    /\ tail_slot \in [Threads -> Seq(Threads)]
    /\ scan \in [Threads -> Seq(Threads)]
    /\ writeOut \in [Threads -> Int]

(* The answer of an operation as it is written to the slot.                 *)
Encoded(t) == IF request[t] = DEQUEUE THEN -(answer[t] + 2) ELSE 0

Asked(t) == req_ans[t] = request[t] /\ pending[t] = <<request[t]>>

IsAnswering(h, t) == pc[h] = "answer" /\ Head(scan[h]) = t

Answered(t) == req_ans[t] = Encoded(t) /\ pending[t] = <<>>

FlatThreadOK(t) ==
    /\ pc[t] \in FlatLabels
    /\ pc[t] \in FlatHoldLabels => fcLock
    /\ pc[t] \in FlatPostLabels \cup {"request"} => IsIn(t, slots)
    /\ pc[t] \notin FlatPostLabels => ~IsRequest(req_ans[t])
    /\ pc[t] = "idle" => pending[t] = <<>>
    /\ pc[t] \in {"getSlot", "addSlot", "request"} => pending[t] = <<request[t]>>
    /\ pc[t] \in FlatPostLabels =>
           Asked(t) \/ Answered(t) \/ \E h \in Threads : IsAnswering(h, t)
    /\ pc[t] \in {"visit", "answer"} /\ IsRequest(req_ans[t]) => IsIn(t, scan[t])
    /\ pc[t] = "unlock" => ~IsRequest(req_ans[t])

AnsweringOK(h, t) ==
    /\ pc[h] = "answer" => scan[h] # <<>>
    /\ IsAnswering(h, t) =>
           /\ pc[t] \in FlatPostLabels
           /\ req_ans[t] = request[t]
           /\ pending[t] = <<>>
           /\ writeOut[h] = Encoded(t)

FlatOK ==
    /\ FlatTypeOK
    /\ \A t \in Threads : FlatThreadOK(t)
    /\ \A h, t \in Threads : AnsweringOK(h, t)
    /\ \A h, t \in Threads : pc[h] \in FlatHoldLabels /\ pc[t] \in FlatHoldLabels => h = t

LEMMA AddedIsIn ==
    ASSUME NEW s \in Seq(Threads), NEW t \in Threads
    PROVE  /\ <<t>> \o s \in Seq(Threads)
           /\ IsIn(t, <<t>> \o s)
           /\ \A u \in Threads : IsIn(u, s) => IsIn(u, <<t>> \o s)
<1> DEFINE r == <<t>> \o s
<1>1. r \in Seq(Threads) /\ Len(r) = Len(s) + 1 /\ r[1] = t
  OBVIOUS
<1>2. \A i \in 1 .. Len(s) : r[i + 1] = s[i] /\ i + 1 \in 1 .. Len(r)
  BY <1>1
<1>3. 1 \in DOMAIN r
  BY <1>1
<1>4. ASSUME NEW u \in Threads, IsIn(u, s)
      PROVE  IsIn(u, r)
  <2>1. PICK i \in 1 .. Len(s) : s[i] = u
    BY <1>4 DEF IsIn
  <2>2. i + 1 \in DOMAIN r /\ r[i + 1] = u
    BY <1>1, <1>2, <2>1
  <2>3. QED
    BY <2>2 DEF IsIn
<1>5. QED
  BY <1>1, <1>3, <1>4 DEF IsIn

LEMMA StaysInTail ==
    ASSUME NEW s \in Seq(Threads), s # <<>>, NEW t \in Threads, IsIn(t, s), Head(s) # t
    PROVE  IsIn(t, Tail(s))
<1>1. PICK i \in 1 .. Len(s) : s[i] = t
  BY DEF IsIn
<1>2. i # 1
  BY <1>1
<1>3. i - 1 \in DOMAIN Tail(s) /\ Tail(s)[i - 1] = t
  BY <1>1, <1>2
<1>4. QED
  BY <1>3 DEF IsIn

LEMMA EncodedIsNoRequest ==
    ASSUME ClientsOK, NEW t \in Threads
    PROVE  /\ Encoded(t) \in Int
           /\ ~IsRequest(Encoded(t))
           /\ pc[t] # "idle" => IsRequest(request[t]) /\ request[t] \in Args
           /\ request[t] = DEQUEUE => Decoded(Encoded(t)) = answer[t]
<1>1. /\ request[t] \in Args \cup {0} /\ answer[t] \in Answers_
      /\ pc[t] # "idle" => request[t] # 0
  BY DEF ClientsOK, ClientsTypeOK, ClientOK
<1>2. answer[t] \in Int /\ answer[t] >= -1 /\ -(answer[t] + 2) # DEQUEUE
  BY <1>1, ArgsAreNumbers
<1>3. DEQUEUE # 0
  BY ArgsAreNumbers
<1>4. pc[t] # "idle" => IsRequest(request[t]) /\ request[t] \in Args
  BY <1>1, ArgsAreNumbers DEF Args, IsRequest
<1>5. QED
  BY <1>2, <1>3, <1>4 DEF Encoded, IsRequest, Decoded

(* A step of thread t that leaves the slots and the clients alone.          *)
LEMMA FlatQuiet ==
    ASSUME ClientsOK, FlatOK, NEW t \in Threads, Moves(t), FlatTypeOK',
           UNCHANGED <<clientVars, req_ans, writeOut>>,
           pc[t] # "answer", pc'[t] # "answer",
           \A u \in Threads \ {t} : scan'[u] = scan[u],
           \A u \in Threads : IsIn(u, slots) => IsIn(u, slots)',
           fcLock => fcLock',
           pc'[t] \in FlatPostLabels <=> pc[t] \in FlatPostLabels,
           pc'[t] \in FlatHoldLabels /\ pc[t] \notin FlatHoldLabels => ~fcLock /\ fcLock',
           FlatThreadOK(t)'
    PROVE  FlatOK'
<1>1. /\ request' = request /\ pending' = pending /\ answer' = answer
      /\ req_ans' = req_ans /\ writeOut' = writeOut
      /\ \A u \in Threads \ {t} : pc'[u] = pc[u]
  BY DEF clientVars, Moves
<1>2. \A h, u \in Threads : IsAnswering(h, u) <=> IsAnswering(h, u)'
  BY <1>1 DEF IsAnswering
<1>3. ASSUME NEW u \in Threads \ {t}
      PROVE  FlatThreadOK(u)'
  <2>1. FlatThreadOK(u) /\ pc'[u] = pc[u] /\ scan'[u] = scan[u] /\ (IsIn(u, slots) => IsIn(u, slots)')
    BY <1>1 DEF FlatOK
  <2>2. Asked(u)' = Asked(u) /\ Answered(u)' = Answered(u) /\ IsRequest(req_ans[u])' = IsRequest(req_ans[u])
    BY <1>1 DEF Asked, Answered, Encoded, IsRequest
  <2>3. QED
    BY <1>1, <1>2, <2>1, <2>2 DEF FlatThreadOK
<1>4. ASSUME NEW h \in Threads, NEW u \in Threads
      PROVE  AnsweringOK(h, u)'
  <2>1. AnsweringOK(h, u) /\ (pc'[u] \in FlatPostLabels <=> pc[u] \in FlatPostLabels)
        /\ (pc'[h] = "answer" => h # t /\ pc[h] = "answer" /\ scan'[h] = scan[h])
    BY <1>1 DEF FlatOK
  <2>2. Encoded(u)' = Encoded(u)
    BY <1>1 DEF Encoded
  <2>3. QED
    BY <1>1, <1>2, <2>1, <2>2 DEF AnsweringOK
<1>5. \A h, u \in Threads : pc'[h] \in FlatHoldLabels /\ pc'[u] \in FlatHoldLabels => h = u
  <2>1. \A h \in Threads : pc[h] \in FlatHoldLabels => fcLock
    BY DEF FlatOK, FlatThreadOK
  <2>2. QED
    BY <1>1, <2>1 DEF FlatOK
<1>6. QED
  BY <1>3, <1>4, <1>5 DEF FlatOK

LEMMA FlatCallKeeps ==
    ASSUME ClientsOK, FlatOK, build = flatcomb, NEW t \in Threads, NEW arg \in Args,
           FlatCall(t, arg), UNCHANGED build
    PROVE  FlatOK' /\ ClientStep(t)
<1>0. ClientsTypeOK /\ FlatTypeOK
  BY DEF ClientsOK, FlatOK
<1>1. /\ pc[t] = "idle" /\ Moves(t)
      /\ pc'[t] = IF HasSlot(t) THEN "request" ELSE "getSlot"
  BY <1>0, MoveIs DEF Labels, FlatCall
<1>2. pending[t] = <<>> /\ ~IsRequest(req_ans[t])
  BY <1>1 DEF FlatOK, FlatThreadOK, FlatPostLabels, FlatHoldLabels
<1>3. /\ pending'[t] = <<arg>> /\ request'[t] = arg /\ answer' = answer
      /\ \A u \in Threads \ {t} : pending'[u] = pending[u] /\ request'[u] = request[u]
  BY <1>0, <1>2, BeginIs DEF FlatCall
<1>4. UNCHANGED <<fcLock, slots, req_ans, tail_slot, scan, writeOut>>
  BY DEF FlatCall, flatVars
<1>5. \A u \in Threads \ {t} : /\ pc'[u] = pc[u]
                               /\ Encoded(u)' = Encoded(u) /\ Asked(u)' = Asked(u)
                               /\ Answered(u)' = Answered(u)
  BY <1>1, <1>3, <1>4 DEF Moves, Encoded, Asked, Answered
<1>6. \A h, u \in Threads : IsAnswering(h, u)' <=> IsAnswering(h, u)
  BY <1>1, <1>4, <1>5 DEF IsAnswering
<1>7. FlatThreadOK(t)'
  BY <1>1, <1>2, <1>3, <1>4 DEF FlatThreadOK, FlatLabels, FlatPostLabels, FlatHoldLabels,
     IsRequest, HasSlot, IsIn
<1>8. ASSUME NEW u \in Threads \ {t}
      PROVE  FlatThreadOK(u)'
  <2>1. FlatThreadOK(u)
    BY DEF FlatOK
  <2>2. QED
    BY <1>3, <1>4, <1>5, <1>6, <2>1 DEF FlatThreadOK, IsRequest, IsIn
<1>9. ASSUME NEW h \in Threads, NEW u \in Threads
      PROVE  AnsweringOK(h, u)'
  <2>1. AnsweringOK(h, u) /\ (IsAnswering(h, u) => u # t)
        /\ (pc'[h] = "answer" => h # t /\ pc[h] = "answer")
    BY <1>1, <1>5 DEF FlatOK, AnsweringOK, FlatPostLabels, FlatHoldLabels
  <2>2. QED
    BY <1>3, <1>4, <1>5, <1>6, <2>1 DEF AnsweringOK
<1>10. FlatOK'
  <2>1. FlatTypeOK'
    BY <1>0, <1>4 DEF FlatTypeOK
  <2>2. pc'[t] \notin FlatHoldLabels
    BY <1>1 DEF FlatHoldLabels
  <2>3. QED
    BY <1>5, <1>7, <1>8, <1>9, <2>1, <2>2 DEF FlatOK
<1>11. ClientStep(t)
  BY <1>1 DEF FlatCall, ClientStep, Calls
<1>12. QED
  BY <1>10, <1>11

LEMMA FlatQuietSteps ==
    ASSUME ClientsOK, FlatOK, build = flatcomb, NEW t \in Threads, UNCHANGED build,
           \/ GetSlot(t) \/ AddSlot(t) \/ TriesLock(t) \/ LooksForLock(t) \/ StartsRound(t)
           \/ VisitSkips(t) \/ EndsRound(t)
           \/ LooksForAnswer(t) /\ req_ans[t] = request[t]
    PROVE  FlatOK' /\ ClientStep(t)
<1> USE DEF flatVars, FlatPostLabels, FlatHoldLabels, FlatLabels
<1>0. ClientsTypeOK /\ FlatTypeOK /\ FlatThreadOK(t)
      /\ \A h \in Threads : AnsweringOK(h, t)
  BY DEF ClientsOK, FlatOK
<1>q. ASSUME Moves(t), FlatTypeOK', UNCHANGED <<clientVars, req_ans, writeOut>>,
             pc[t] # "idle", pc'[t] # "idle", pc[t] # "answer", pc'[t] # "answer",
             \A u \in Threads \ {t} : scan'[u] = scan[u],
             \A u \in Threads : IsIn(u, slots) => IsIn(u, slots)',
             fcLock => fcLock',
             pc'[t] \in FlatPostLabels <=> pc[t] \in FlatPostLabels,
             pc'[t] \in FlatHoldLabels /\ pc[t] \notin FlatHoldLabels => ~fcLock /\ fcLock',
             pc'[t] \in FlatLabels,
             pc'[t] \in FlatHoldLabels => fcLock',
             pc'[t] = "request" => IsIn(t, slots)',
             pc'[t] \in {"getSlot", "addSlot", "request"}
                 <=> pc[t] \in {"getSlot", "addSlot", "request"},
             pc'[t] = "visit" /\ IsRequest(req_ans[t]) => IsIn(t, scan'[t]),
             pc'[t] = "unlock" => ~IsRequest(req_ans[t])
      PROVE  FlatOK' /\ ClientStep(t)
  <2>1. ClientStep(t)
    BY <1>q DEF ClientStep, GoesOn
  <2>2. /\ request' = request /\ pending' = pending /\ answer' = answer /\ req_ans' = req_ans
        /\ \A u \in Threads \ {t} : pc'[u] = pc[u]
    BY <1>q DEF clientVars, Moves
  <2>3. \A h \in Threads : IsAnswering(h, t) => IsAnswering(h, t)'
    BY <1>q, <2>2 DEF IsAnswering
  <2>4. Asked(t)' = Asked(t) /\ Answered(t)' = Answered(t)
    BY <2>2 DEF Asked, Answered, Encoded
  <2>5. FlatThreadOK(t)'
    BY <1>0, <1>q, <2>2, <2>3, <2>4 DEF FlatThreadOK, IsRequest
  <2>6. QED
    BY <1>q, <2>1, <2>5, FlatQuiet
<1>1. CASE GetSlot(t)
  <2>1. pc[t] = "getSlot" /\ pc'[t] = "addSlot" /\ Moves(t)
    BY <1>0, <1>1, MoveIs DEF GetSlot, Labels
  <2>2. FlatTypeOK'
    BY <1>0, <1>1 DEF FlatTypeOK, GetSlot
  <2>3. UNCHANGED <<fcLock, slots, req_ans, scan, writeOut, clientVars>>
    BY <1>1 DEF GetSlot
  <2>4. QED
    BY <1>0, <1>q, <2>1, <2>2, <2>3 DEF IsIn
<1>2. CASE AddSlot(t)
  <2>1. /\ pc[t] = "addSlot" /\ Moves(t)
        /\ \/ pc'[t] = "request" /\ slots = tail_slot[t] /\ slots' = <<t>> \o tail_slot[t]
           \/ pc'[t] = "getSlot" /\ slots' = slots
    BY <1>0, <1>2, MoveIs DEF AddSlot, Labels
  <2>2. UNCHANGED <<fcLock, req_ans, scan, writeOut, clientVars>>
    BY <1>2 DEF AddSlot
  <2>3. slots' \in Seq(Threads) /\ (\A u \in Threads : IsIn(u, slots) => IsIn(u, slots'))
        /\ (pc'[t] = "request" => IsIn(t, slots'))
    BY <1>0, <2>1, AddedIsIn DEF FlatTypeOK
  <2>4. FlatTypeOK'
    BY <1>0, <1>2, <2>3 DEF FlatTypeOK, AddSlot
  <2>5. \A u \in Threads : IsIn(u, slots)' <=> IsIn(u, slots')
    BY DEF IsIn
  <2>6. QED
    BY <1>0, <1>q, <2>1, <2>2, <2>3, <2>4, <2>5
<1>3. CASE TriesLock(t)
  <2>1. /\ pc[t] = "tryLock" /\ Moves(t)
        /\ pc'[t] = IF fcLock THEN "look" ELSE "round"
    BY <1>0, <1>3, MoveIs DEF TriesLock, Labels, HolderLabels
  <2>2. FlatTypeOK' /\ fcLock'
    BY <1>0, <1>3 DEF FlatTypeOK, TriesLock
  <2>3. UNCHANGED <<slots, req_ans, scan, writeOut, clientVars>>
    BY <1>3 DEF TriesLock
  <2>4. QED
    BY <1>0, <1>q, <2>1, <2>2, <2>3 DEF IsIn, FlatTypeOK
<1>4. CASE LooksForLock(t)
  <2>1. pc[t] = "isLocked" /\ pc'[t] \in {"look", "tryLock"} /\ Moves(t)
    BY <1>0, <1>4, MoveIs DEF LooksForLock, Labels
  <2>2. FlatTypeOK'
    BY <1>0, <1>4 DEF FlatTypeOK, LooksForLock
  <2>3. UNCHANGED <<fcLock, slots, req_ans, scan, writeOut, clientVars>>
    BY <1>4 DEF LooksForLock
  <2>4. QED
    BY <1>0, <1>q, <2>1, <2>2, <2>3 DEF IsIn
<1>5. CASE StartsRound(t)
  <2>1. pc[t] = "round" /\ pc'[t] = "visit" /\ Moves(t)
    BY <1>0, <1>5, MoveIs DEF StartsRound, Labels, HolderLabels
  <2>2. FlatTypeOK' /\ scan'[t] = slots /\ \A u \in Threads \ {t} : scan'[u] = scan[u]
    BY <1>0, <1>5 DEF FlatTypeOK, StartsRound
  <2>3. UNCHANGED <<fcLock, slots, req_ans, writeOut, clientVars>>
    BY <1>5 DEF StartsRound
  <2>4. IsIn(t, slots) /\ fcLock
    BY <1>0, <2>1 DEF FlatThreadOK
  <2>5. QED
    BY <1>q, <2>1, <2>2, <2>3, <2>4 DEF IsIn
<1>6. CASE VisitSkips(t)
  <2>1. /\ pc[t] = "visit" /\ pc' = pc /\ scan[t] # <<>>
        /\ ~IsRequest(req_ans[Head(scan[t])])
        /\ scan' = [scan EXCEPT ![t] = Tail(@)]
    BY <1>6 DEF VisitSkips
  <2>2. Moves(t)
    BY <1>0, <2>1 DEF Moves, ClientsTypeOK
  <2>3. UNCHANGED <<fcLock, slots, req_ans, tail_slot, writeOut, clientVars>>
    BY <1>6 DEF VisitSkips
  <2>4. /\ FlatTypeOK' /\ scan'[t] = Tail(scan[t])
        /\ \A u \in Threads \ {t} : scan'[u] = scan[u]
    BY SMTT(30), <1>0, <2>1, <2>3 DEF FlatTypeOK
  <2>5. IsRequest(req_ans[t]) => IsIn(t, scan'[t])
    BY <1>0, <2>1, <2>4, StaysInTail DEF FlatTypeOK, FlatThreadOK
  <2>6. fcLock
    BY <1>0, <2>1 DEF FlatThreadOK
  <2>7. QED
    BY <1>q, <2>1, <2>2, <2>3, <2>4, <2>5, <2>6 DEF IsIn
<1>7. CASE EndsRound(t)
  <2>1. pc[t] = "visit" /\ pc'[t] \in {"round", "unlock"} /\ Moves(t) /\ scan[t] = <<>>
    BY <1>0, <1>7, MoveIs DEF EndsRound, Labels, HolderLabels
  <2>2. FlatTypeOK'
    BY <1>0, <1>7 DEF FlatTypeOK, EndsRound
  <2>3. UNCHANGED <<fcLock, slots, req_ans, scan, writeOut, clientVars>>
    BY <1>7 DEF EndsRound
  <2>4. ~IsRequest(req_ans[t]) /\ fcLock
    BY <1>0, <2>1 DEF FlatThreadOK, IsIn
  <2>5. QED
    BY <1>q, <2>1, <2>2, <2>3, <2>4 DEF IsIn
<1>8. CASE LooksForAnswer(t) /\ req_ans[t] = request[t]
  <2>1. pc[t] = "look" /\ pc'[t] = "isLocked" /\ Moves(t)
    BY <1>0, <1>8, MoveIs DEF LooksForAnswer, Labels
  <2>2. FlatTypeOK'
    BY <1>0, <1>8 DEF FlatTypeOK, LooksForAnswer
  <2>3. UNCHANGED <<fcLock, slots, req_ans, scan, writeOut, clientVars>>
    BY <1>8 DEF LooksForAnswer
  <2>4. QED
    BY <1>0, <1>q, <2>1, <2>2, <2>3 DEF IsIn
<1>9. QED
  BY <1>1, <1>2, <1>3, <1>4, <1>5, <1>6, <1>7, <1>8

LEMMA RequestsKeeps ==
    ASSUME ClientsOK, FlatOK, NEW t \in Threads, UNCHANGED build, Requests(t)
    PROVE  FlatOK' /\ ClientStep(t)
<1> USE DEF FlatPostLabels, FlatHoldLabels
<1>0. ClientsTypeOK /\ FlatTypeOK /\ FlatThreadOK(t)
  BY DEF ClientsOK, FlatOK
<1>1. pc[t] = "request" /\ pc'[t] = "tryLock" /\ Moves(t)
  BY <1>0, MoveIs DEF Requests, Labels
<1>2. UNCHANGED <<fcLock, slots, tail_slot, scan, writeOut, clientVars>>
  BY DEF Requests
<1>3. /\ request' = request /\ pending' = pending /\ answer' = answer
      /\ \A u \in Threads \ {t} : pc'[u] = pc[u]
  BY <1>1, <1>2 DEF clientVars, Moves
<1>4. req_ans'[t] = request[t] /\ (\A u \in Threads \ {t} : req_ans'[u] = req_ans[u])
      /\ req_ans' \in [Threads -> Int]
  <2>1. request[t] \in Int
    BY <1>0, ArgsAreNumbers DEF ClientsTypeOK
  <2>2. QED
    BY <1>0, <2>1 DEF Requests, FlatTypeOK
<1>5. FlatTypeOK'
  BY <1>0, <1>2, <1>4 DEF FlatTypeOK
<1>6. \A h, u \in Threads : IsAnswering(h, u)' <=> IsAnswering(h, u)
  BY <1>1, <1>2, <1>3 DEF IsAnswering
<1>7. FlatThreadOK(t)'
  <2>1. pending[t] = <<request[t]>> /\ IsIn(t, slots)
    BY <1>0, <1>1 DEF FlatThreadOK
  <2>2. Asked(t)'
    BY <1>3, <1>4, <2>1 DEF Asked
  <2>3. IsIn(t, slots)'
    BY <1>2, <2>1 DEF IsIn
  <2>4. QED
    BY <1>1, <2>2, <2>3 DEF FlatThreadOK, FlatLabels
<1>8. ASSUME NEW u \in Threads \ {t}
      PROVE  FlatThreadOK(u)'
  <2>1. FlatThreadOK(u)
    BY DEF FlatOK
  <2>2. Asked(u)' = Asked(u) /\ Answered(u)' = Answered(u) /\ IsRequest(req_ans[u])' = IsRequest(req_ans[u])
    BY <1>3, <1>4 DEF Asked, Answered, Encoded, IsRequest
  <2>3. QED
    BY <1>2, <1>3, <1>6, <2>1, <2>2 DEF FlatThreadOK, IsIn
<1>9. ASSUME NEW h \in Threads, NEW u \in Threads
      PROVE  AnsweringOK(h, u)'
  <2>1. AnsweringOK(h, u) /\ (IsAnswering(h, u) => u # t)
        /\ (pc'[h] = "answer" => h # t /\ pc[h] = "answer")
    BY <1>1, <1>3 DEF FlatOK, AnsweringOK
  <2>2. Encoded(u)' = Encoded(u)
    BY <1>3 DEF Encoded
  <2>3. QED
    BY <1>2, <1>3, <1>4, <1>6, <2>1, <2>2 DEF AnsweringOK
<1>10. FlatOK'
  BY <1>1, <1>3, <1>5, <1>7, <1>8, <1>9 DEF FlatOK
<1>11. ClientStep(t)
  BY <1>1, <1>2 DEF ClientStep, GoesOn
<1>12. QED
  BY <1>10, <1>11

LEMMA VisitRunsKeeps ==
    ASSUME ClientsOK, FlatOK, build = flatcomb, NEW t \in Threads, UNCHANGED build,
           VisitRuns(t)
    PROVE  FlatOK' /\ ClientStep(t)
<1> USE DEF FlatPostLabels, FlatHoldLabels
<1>2. PICK u \in Threads : u = Head(scan[t])
  BY DEF FlatOK, FlatTypeOK, VisitRuns
<1>0. ClientsTypeOK /\ FlatTypeOK /\ (\A w \in Threads : FlatThreadOK(w))
      /\ scan[t] \in Seq(Threads) /\ scan[t] # <<>> /\ IsRequest(req_ans[u])
      /\ Runs(u, req_ans[u])
  BY <1>2 DEF ClientsOK, FlatOK, FlatTypeOK, VisitRuns
<1>1. pc[t] = "visit" /\ pc'[t] = "answer" /\ Moves(t)
  BY <1>0, MoveIs DEF VisitRuns, Labels, HolderLabels
<1>3. UNCHANGED <<fcLock, slots, req_ans, tail_slot, scan>>
  BY DEF VisitRuns
<1>4. \A h, w \in Threads : ~IsAnswering(h, w)
  BY <1>1 DEF FlatOK, IsAnswering
<1>5. Asked(u) /\ pc[u] \in FlatPostLabels
  BY <1>0, <1>2, <1>4, EncodedIsNoRequest DEF FlatThreadOK, Answered
<1>6. request[u] \in Args /\ request[u] = req_ans[u]
  BY <1>2, <1>5, EncodedIsNoRequest DEF Asked
<1>7. Runs(u, request[u]) /\ pending[u] = <<request[u]>>
  BY <1>0, <1>5, <1>6 DEF Asked
<1>8. /\ pending[u] # <<>> /\ Runs(u, Head(pending[u]))
      /\ pending'[u] = <<>> /\ request' = request
      /\ request[u] = DEQUEUE => answer'[u] = Promise!Top(heap)
      /\ request[u] # DEQUEUE => answer'[u] = answer[u]
      /\ \A w \in Threads \ {u} : pending'[w] = pending[w] /\ answer'[w] = answer[w]
  BY <1>0, <1>2, <1>7, RunsIs
<1>9. /\ \A w \in Threads \ {t} : pc'[w] = pc[w]
      /\ \A h, w \in Threads : IsAnswering(h, w)' <=> h = t /\ w = u
  BY <1>1, <1>2, <1>3, <1>4 DEF Moves, IsAnswering
<1>10. dequeue_cs = Promise!Top(heap) + 2 /\ Promise!Top(heap) \in Int
  <2>1. build.shift = 2
    BY DEF flatcomb
  <2>2. QED
    BY <1>0, <2>1, TopType DEF dequeue_cs, ClientsTypeOK
<1>11. writeOut'[t] = (IF request[u] = DEQUEUE THEN -(Promise!Top(heap) + 2) ELSE 0)
       /\ writeOut' \in [Threads -> Int]
  BY <1>0, <1>2, <1>6, <1>10 DEF VisitRuns, FlatTypeOK
<1>12. FlatTypeOK'
  BY <1>0, <1>3, <1>11 DEF FlatTypeOK
<1>13. ASSUME NEW w \in Threads
       PROVE  FlatThreadOK(w)'
  <2>1. FlatThreadOK(w) /\ IsIn(w, slots)' = IsIn(w, slots)
        /\ IsIn(w, scan[w])' = IsIn(w, scan[w])
        /\ IsRequest(req_ans[w])' = IsRequest(req_ans[w])
    BY <1>0, <1>3 DEF IsIn, IsRequest
  <2>2. w # u => Asked(w)' = Asked(w) /\ Answered(w)' = Answered(w)
    BY <1>3, <1>8 DEF Asked, Answered, Encoded
  <2>3. w = u => IsAnswering(t, w)'
    BY <1>9
  <2>4. w # u => pending'[w] = pending[w] /\ request'[w] = request[w]
    BY <1>8
  <2>5. CASE w # t
    BY <1>2, <1>3, <1>4, <1>5, <1>9, <2>1, <2>2, <2>3, <2>4, <2>5 DEF FlatThreadOK
  <2>6. CASE w = t
    <3>1. Asked(t)' \/ Answered(t)' \/ \E h \in Threads : IsAnswering(h, t)'
      BY <1>1, <1>4, <2>1, <2>2, <2>3, <2>6 DEF FlatThreadOK
    <3>2. QED
      BY <1>1, <1>3, <2>1, <2>6, <3>1 DEF FlatThreadOK, FlatLabels
  <2>7. QED
    BY <2>5, <2>6
<1>14. ASSUME NEW h \in Threads, NEW w \in Threads
       PROVE  AnsweringOK(h, w)'
  <2>1. pc'[h] = "answer" => h = t
    BY <1>1, <1>9 DEF FlatOK
  <2>2. scan'[t] # <<>>
    BY <1>0, <1>3
  <2>3. Encoded(u)' = writeOut'[t]
    BY <1>0, <1>6, <1>8, <1>11 DEF Encoded, ClientsOK, ClientOK
  <2>4. pc'[u] \in FlatPostLabels
    BY <1>1, <1>2, <1>5, <1>9
  <2>5. req_ans'[u] = request'[u] /\ pending'[u] = <<>>
    BY <1>3, <1>6, <1>8
  <2>6. QED
    BY <1>9, <2>1, <2>2, <2>3, <2>4, <2>5 DEF AnsweringOK
<1>15. FlatOK'
  BY <1>1, <1>9, <1>12, <1>13, <1>14 DEF FlatOK
<1>16. ClientStep(t)
  BY <1>1, <1>2, <1>8 DEF ClientStep, RunsNext
<1>17. QED
  BY <1>15, <1>16

LEMMA VisitAnswersKeeps ==
    ASSUME ClientsOK, FlatOK, NEW t \in Threads, UNCHANGED build, VisitAnswers(t)
    PROVE  FlatOK' /\ ClientStep(t)
<1> USE DEF FlatPostLabels, FlatHoldLabels
<1>0. ClientsTypeOK /\ FlatTypeOK /\ (\A w \in Threads : FlatThreadOK(w))
  BY DEF ClientsOK, FlatOK
<1>1. pc[t] = "answer" /\ pc'[t] = "visit" /\ Moves(t)
  BY <1>0, MoveIs DEF VisitAnswers, Labels, HolderLabels
<1>2. PICK u \in Threads :
          scan[t] \in Seq(Threads) /\ scan[t] # <<>> /\ u = Head(scan[t])
  <2>1. scan[t] # <<>>
    BY <1>1 DEF FlatOK, AnsweringOK
  <2>2. QED
    BY <1>0, <2>1 DEF FlatTypeOK
<1>3. /\ pc[u] \in FlatPostLabels /\ pending[u] = <<>> /\ writeOut[t] = Encoded(u)
      /\ \A h, w \in Threads : IsAnswering(h, w) => h = t /\ w = u
  BY <1>1, <1>2 DEF FlatOK, AnsweringOK, IsAnswering
<1>4. UNCHANGED <<fcLock, slots, tail_slot, clientVars>>
  BY DEF VisitAnswers
<1>5. /\ req_ans' = [req_ans EXCEPT ![u] = writeOut[t]]
      /\ writeOut' = [writeOut EXCEPT ![t] = 0]
      /\ scan' = [scan EXCEPT ![t] = Tail(@)]
  BY <1>2 DEF VisitAnswers
<1>6. /\ request' = request /\ pending' = pending /\ answer' = answer
      /\ \A w \in Threads \ {t} : pc'[w] = pc[w]
  BY <1>1, <1>4 DEF clientVars, Moves
<1>7. /\ req_ans'[u] = Encoded(u) /\ (\A w \in Threads \ {u} : req_ans'[w] = req_ans[w])
      /\ scan'[t] = Tail(scan[t]) /\ (\A w \in Threads \ {t} : scan'[w] = scan[w])
      /\ FlatTypeOK'
  BY SMTT(30), <1>0, <1>2, <1>3, <1>4, <1>5 DEF FlatTypeOK
<1>8. \A h, w \in Threads : ~IsAnswering(h, w)'
  BY <1>1, <1>6 DEF FlatOK, IsAnswering
<1>9. Answered(u)' /\ ~IsRequest(req_ans[u])'
  <2>1. Encoded(u)' = Encoded(u)
    BY <1>6 DEF Encoded
  <2>2. QED
    BY <1>2, <1>3, <1>6, <1>7, <2>1, EncodedIsNoRequest DEF Answered, IsRequest
<1>10. ASSUME NEW w \in Threads
       PROVE  FlatThreadOK(w)'
  <2>1. FlatThreadOK(w) /\ IsIn(w, slots)' = IsIn(w, slots)
    BY <1>0, <1>4 DEF IsIn
  <2>2. w # u => Asked(w)' = Asked(w) /\ Answered(w)' = Answered(w)
                 /\ IsRequest(req_ans[w])' = IsRequest(req_ans[w])
    BY <1>6, <1>7 DEF Asked, Answered, Encoded, IsRequest
  <2>3. pc'[w] \in FlatPostLabels => Asked(w)' \/ Answered(w)'
    BY <1>1, <1>3, <1>6, <1>9, <2>1, <2>2 DEF FlatThreadOK
  <2>4. w = t /\ IsRequest(req_ans[w])' => IsIn(w, scan[w])'
    <3>1. SUFFICES ASSUME w = t, IsRequest(req_ans[t])'
                   PROVE  IsIn(t, scan'[t])
      BY DEF IsIn
    <3>2. t # u
      BY <1>9, <3>1
    <3>3. IsIn(t, scan[t])
      BY <1>1, <2>1, <2>2, <3>1, <3>2 DEF FlatThreadOK
    <3>4. QED
      BY <1>2, <1>7, <3>2, <3>3, StaysInTail
  <2>5. CASE w # t
    <3>1. pc'[w] # "visit" /\ pc'[w] # "answer" /\ pc'[w] \notin FlatHoldLabels
      BY <1>1, <1>6, <2>5 DEF FlatOK
    <3>2. ~IsRequest(req_ans[w]) => ~IsRequest(req_ans[w])'
      BY <1>9, <2>2
    <3>3. QED
      BY <1>4, <1>6, <2>1, <2>3, <2>5, <3>1, <3>2 DEF FlatThreadOK
  <2>6. CASE w = t
    BY <1>1, <1>4, <2>1, <2>3, <2>4, <2>6 DEF FlatThreadOK, FlatLabels
  <2>7. QED
    BY <2>5, <2>6
<1>11. ASSUME NEW h \in Threads, NEW w \in Threads
       PROVE  AnsweringOK(h, w)'
  BY <1>1, <1>6, <1>8 DEF AnsweringOK, FlatOK
<1>12. FlatOK'
  BY <1>1, <1>6, <1>7, <1>10, <1>11 DEF FlatOK
<1>13. ClientStep(t)
  BY <1>1, <1>4 DEF ClientStep, GoesOn
<1>14. QED
  BY <1>12, <1>13

(* A return: the thread has the answer in its slot.                         *)
LEMMA FlatReturnKeeps ==
    ASSUME ClientsOK, FlatOK, build = flatcomb, NEW t \in Threads, UNCHANGED build,
           Return(t, Decoded(req_ans[t])), Answered(t), Moves(t), FlatTypeOK',
           pc[t] \in {"look", "unlock"}, pc'[t] = "idle",
           UNCHANGED <<slots, req_ans, scan, writeOut>>,
           IF pc[t] = "unlock" THEN TRUE ELSE fcLock' = fcLock
    PROVE  FlatOK' /\ ClientStep(t)
<1> USE DEF FlatPostLabels, FlatHoldLabels
<1>0. ClientsTypeOK /\ FlatTypeOK /\ (\A w \in Threads : FlatThreadOK(w))
  BY DEF ClientsOK, FlatOK
<1>1. req_ans[t] = Encoded(t) /\ pending[t] = <<>> /\ ~IsRequest(req_ans[t])
  BY EncodedIsNoRequest DEF Answered
<1>2. /\ request'[t] = 0 /\ pending' = pending
      /\ \A u \in Threads \ {t} : request'[u] = request[u] /\ answer'[u] = answer[u]
  BY <1>0, ReturnIs
<1>3. \A u \in Threads \ {t} : pc'[u] = pc[u]
  BY DEF Moves
<1>4. \A h \in Threads : ~IsAnswering(h, t)
  <2>1. IsRequest(request[t])
    BY EncodedIsNoRequest
  <2>2. QED
    BY <1>1, <2>1 DEF FlatOK, AnsweringOK
<1>5. \A h \in Threads : h # t => (IsAnswering(h, t)' <=> IsAnswering(h, t))
                                  /\ \A u \in Threads : IsAnswering(h, u)' <=> IsAnswering(h, u)
  BY <1>3 DEF IsAnswering
<1>6. \A u \in Threads : ~IsAnswering(t, u) /\ ~IsAnswering(t, u)'
  BY DEF IsAnswering
<1>7. FlatThreadOK(t)'
  BY <1>1, <1>2 DEF FlatThreadOK, FlatLabels, IsRequest
<1>8. ASSUME NEW u \in Threads \ {t}
      PROVE  FlatThreadOK(u)'
  <2>1. FlatThreadOK(u) /\ IsIn(u, slots)' = IsIn(u, slots)
        /\ IsIn(u, scan[u])' = IsIn(u, scan[u])
        /\ IsRequest(req_ans[u])' = IsRequest(req_ans[u])
    BY <1>0 DEF IsIn, IsRequest
  <2>2. Asked(u)' = Asked(u) /\ Answered(u)' = Answered(u)
    BY <1>2 DEF Asked, Answered, Encoded
  <2>3. pc[u] \in FlatHoldLabels => fcLock'
    BY <2>1 DEF FlatOK, FlatThreadOK
  <2>4. (\E h \in Threads : IsAnswering(h, u)) => \E h \in Threads : IsAnswering(h, u)'
    BY <1>5, <1>6
  <2>5. QED
    BY <1>2, <1>3, <2>1, <2>2, <2>3, <2>4 DEF FlatThreadOK
<1>9. ASSUME NEW h \in Threads, NEW u \in Threads
      PROVE  AnsweringOK(h, u)'
  <2>1. CASE h = t
    BY <2>1, <1>6 DEF AnsweringOK
  <2>2. CASE h # t
    <3>1. AnsweringOK(h, u) /\ pc'[h] = pc[h] /\ (IsAnswering(h, u)' <=> IsAnswering(h, u))
          /\ (IsAnswering(h, u) => u # t)
      BY <1>3, <1>4, <1>5, <2>2 DEF FlatOK
    <3>2. u # t => Encoded(u)' = Encoded(u) /\ pc'[u] = pc[u] /\ request'[u] = request[u]
      BY <1>2, <1>3 DEF Encoded
    <3>3. QED
      BY <1>2, <3>1, <3>2 DEF AnsweringOK
  <2>3. QED
    BY <2>1, <2>2
<1>10. FlatOK'
  BY <1>3, <1>7, <1>8, <1>9 DEF FlatOK
<1>11. ClientStep(t)
  <2>1. Decoded(req_ans[t]) \in Int
    BY <1>0 DEF Decoded, FlatTypeOK
  <2>2. Added = 0
    BY DEF Added, flatcomb, ccsynch, hsynch
  <2>3. request[t] = DEQUEUE => Decoded(req_ans[t]) = answer[t] + Added
    <3>1. answer[t] \in Int
      BY <1>0, ArgsAreNumbers DEF ClientsTypeOK
    <3>2. QED
      BY <1>1, <2>2, <3>1, EncodedIsNoRequest
  <2>4. MayReturn(t)
    BY <1>1 DEF MayReturn
  <2>5. QED
    BY <2>1, <2>3, <2>4 DEF ClientStep, Returns
<1>12. QED
  BY <1>10, <1>11

LEMMA FlatStepKeeps ==
    ASSUME ClientsOK, FlatOK, build = flatcomb, NEW t \in Threads, FlatStep(t),
           UNCHANGED build
    PROVE  FlatOK' /\ ClientStep(t)
<1>0. ClientsTypeOK /\ FlatTypeOK /\ FlatThreadOK(t)
  BY DEF ClientsOK, FlatOK
<1>1. CASE LooksForAnswer(t) /\ req_ans[t] # request[t]
  <2>1. pc[t] = "look" /\ pc'[t] = "idle" /\ Moves(t)
    BY <1>0, <1>1, MoveIs DEF LooksForAnswer, Labels
  <2>2. Return(t, Decoded(req_ans[t])) /\ UNCHANGED <<fcLock, slots, req_ans, scan, writeOut>>
        /\ FlatTypeOK'
    BY <1>0, <1>1 DEF LooksForAnswer, flatVars, FlatTypeOK
  <2>3. Answered(t)
    BY <1>0, <1>1, <2>1 DEF FlatThreadOK, Asked, FlatPostLabels, FlatOK, AnsweringOK
  <2>4. QED
    BY <2>1, <2>2, <2>3, FlatReturnKeeps
<1>2. CASE Unlocks(t)
  <2>1. pc[t] = "unlock" /\ pc'[t] = "idle" /\ Moves(t)
    BY <1>0, <1>2, MoveIs DEF Unlocks, Labels
  <2>2. Return(t, Decoded(req_ans[t])) /\ UNCHANGED <<slots, req_ans, scan, writeOut>>
        /\ FlatTypeOK'
    BY <1>0, <1>2 DEF Unlocks, FlatTypeOK
  <2>3. Answered(t)
    <3>1. ~IsRequest(req_ans[t]) /\ IsRequest(request[t])
      BY <1>0, <2>1, EncodedIsNoRequest DEF FlatThreadOK
    <3>2. QED
      BY <1>0, <2>1, <3>1 DEF FlatThreadOK, Asked, FlatPostLabels, FlatHoldLabels, FlatOK,
                              AnsweringOK
  <2>4. QED
    BY <2>1, <2>2, <2>3, FlatReturnKeeps
<1>3. QED
  BY <1>1, <1>2, FlatQuietSteps, RequestsKeeps, VisitRunsKeeps, VisitAnswersKeeps
     DEF FlatStep

(****************************************************************************)
(* CC-Synch and H-Synch. The nodes of a cluster whose operation is not      *)
(* released yet are a list that ends with the tail: a thread is listed, and *)
(* the node after its own, its successor, too. The heads of the lists are   *)
(* the nodes that are unlocked, and those at which somebody combines; they  *)
(* are nobody's successors.                                                 *)
(****************************************************************************)
CombineLabels == {"clhSwap", "clhSpin", "combine", "complete", "release"}

SynchLabels == {"idle", "post", "spin", "clhUnlock"} \cup CombineLabels

SynchTypeOK ==
    /\ Tail_ \in [Clusters -> Nodes]
    /\ next \in [Nodes -> Nodes \cup {NULL}]
    /\ arg_ret \in [Nodes -> Int]
    /\ locked \in [Nodes -> BOOLEAN]
    /\ completed \in [Nodes -> BOOLEAN]
    /\ postedBy \in [Nodes -> Threads \cup {NULL}]
    /\ next_node \in [Threads -> Nodes]
    /\ cur \in [Threads -> Nodes \cup {NULL}]
    /\ p \in [Threads -> Nodes \cup {NULL}]
    /\ counter \in [Threads -> Nat]

(* The node that is a thread's own: the one it has posted in or is to post  *)
(* in, or its spare one.                                                    *)
NodeOf(t) == IF pc[t] = "post" THEN cur[t] ELSE next_node[t]

IsListed(t) ==
    \/ pc[t] = "post"
    \/ pc[t] = "spin" /\ (locked[cur[t]] \/ ~completed[cur[t]])
    \/ pc[t] \in CombineLabels
       /\ (~completed[cur[t]] \/ (pc[t] = "release" /\ p[t] = cur[t]))

Succ(t) == IF pc[t] = "post" THEN next_node[t] ELSE next[cur[t]]

InList(n) ==
    /\ \A t \in Threads : ~IsListed(t) => NodeOf(t) # n
    /\ \A c \in Clusters \ build.clusters : Tail_[c] # n

IsHead(n) ==
    /\ InList(n)
    /\ ~locked[n] \/ \E h \in Threads : pc[h] \in CombineLabels /\ p[h] = n

(* Every node is a tail or a thread's own, and only one of these.           *)
NodesOK ==
    /\ \A t \in Threads : NodeOf(t) \in Nodes /\ (pc[t] # "idle" => cur[t] = NodeOf(t))
    /\ \A t, u \in Threads : t # u => NodeOf(t) # NodeOf(u)
    /\ \A t \in Threads, c \in Clusters : NodeOf(t) # Tail_[c]
    /\ \A c, d \in Clusters : c # d => Tail_[c] # Tail_[d]
    /\ \A n \in Nodes : (\E c \in Clusters : n = Tail_[c]) \/ \E t \in Threads : n = NodeOf(t)

ListOK ==
    /\ \A c \in Clusters : next[Tail_[c]] = NULL /\ ~completed[Tail_[c]]
    /\ \A t \in Threads : pc[t] = "post" => next[cur[t]] = NULL /\ ~completed[cur[t]]
    /\ \A t \in Threads : IsListed(t) =>
           /\ Succ(t) \in Nodes
           /\ locked[Succ(t)]
           /\ InList(Succ(t))
    /\ \A t, h \in Threads : IsListed(t) /\ pc[h] \in CombineLabels => p[h] # Succ(t)
    /\ \A t, u \in Threads : t # u /\ IsListed(t) /\ IsListed(u) => Succ(t) # Succ(u)

CombinerOK(h) ==
    /\ pc[h] \in CombineLabels =>
           /\ p[h] \in Nodes /\ InList(p[h])
           /\ locked[p[h]] \/ p[h] = cur[h]
           /\ IsListed(h) => p[h] = cur[h]
           /\ completed[p[h]] <=> pc[h] = "release"
    /\ pc[h] \in {"complete", "release"} => next[p[h]] # NULL /\ counter[h] > 0
    /\ pc[h] \notin {"combine", "complete", "release"} => counter[h] = 0
    /\ pc[h] \in {"clhSwap", "clhSpin", "combine"} => (IsListed(h) <=> counter[h] = 0)

CombinersOK ==
    /\ \A h \in Threads : CombinerOK(h)
    /\ \A h, t \in Threads :
           pc[h] \in CombineLabels /\ pc[t] \in CombineLabels /\ p[h] = p[t] => h = t
    /\ \A t \in Threads : IsListed(t) /\ completed[cur[t]] =>
           \E h \in Threads : pc[h] = "release" /\ p[h] = cur[t]
    /\ build = ccsynch => \A n, m \in Nodes : IsHead(n) /\ IsHead(m) => n = m

(* The operation has run, or has yet to.                                    *)
IsServed(t) ==
    ~IsListed(t) \/ \E h \in Threads : pc[h] \in {"complete", "release"} /\ p[h] = cur[t]

OperationOK(t) ==
    /\ pc[t] \in SynchLabels
    /\ build = ccsynch => pc[t] \notin {"clhSwap", "clhSpin", "clhUnlock"}
    /\ IsServed(t) =>
           /\ pending[t] = <<>>
           /\ pc[t] # "idle" /\ request[t] = DEQUEUE => arg_ret[cur[t]] = answer[t] + 2
    /\ ~IsServed(t) =>
           /\ pending[t] = <<request[t]>>
           /\ pc[t] # "post" => arg_ret[cur[t]] = request[t] /\ postedBy[cur[t]] = t

SynchOK ==
    /\ SynchTypeOK
    /\ NodesOK
    /\ ListOK
    /\ CombinersOK
    /\ \A t \in Threads : OperationOK(t)


(* A step that leaves the nodes where they are.                             *)
LEMMA SameNodes ==
    ASSUME NodesOK, build' = build, Tail_' = Tail_,
           \A u \in Threads : NodeOf(u)' = NodeOf(u),
           \A u \in Threads : pc'[u] # "idle" => pc[u] # "idle" /\ cur'[u] = cur[u]
    PROVE  /\ NodesOK'
           /\ (\A u \in Threads : IsListed(u)' <=> IsListed(u)) =>
                  \A n \in Nodes : InList(n)' <=> InList(n)
<1>1. NodesOK'
  BY DEF NodesOK
<1>2. QED
  BY <1>1 DEF InList

LEMMA PostsKeeps ==
    ASSUME ClientsOK, SynchOK, build \in {ccsynch, hsynch}, NEW t \in Threads, Posts(t),
           UNCHANGED build
    PROVE  SynchOK' /\ ClientStep(t)
<1>0. /\ ClientsTypeOK /\ SynchTypeOK /\ NodesOK /\ ListOK /\ CombinersOK
      /\ \A u \in Threads : OperationOK(u)
  BY DEF ClientsOK, SynchOK
<1>1. pc[t] = "post" /\ pc'[t] = "spin" /\ Moves(t)
  BY <1>0, MoveIs DEF Posts, Labels
<1>2. /\ cur[t] = NodeOf(t) /\ cur[t] \in Nodes /\ next_node[t] \in Nodes
      /\ next[cur[t]] = NULL /\ ~completed[cur[t]]
  BY <1>0, <1>1 DEF NodesOK, ListOK, SynchTypeOK
<1>3. /\ arg_ret' = [arg_ret EXCEPT ![cur[t]] = request[t]]
      /\ postedBy' = [postedBy EXCEPT ![cur[t]] = t]
      /\ next' = [next EXCEPT ![cur[t]] = next_node[t]]
      /\ next_node' = [next_node EXCEPT ![t] = cur[t]]
      /\ UNCHANGED <<Tail_, locked, completed, cur, p, counter, clientVars>>
  BY DEF Posts
<1>4. /\ pending' = pending /\ request' = request /\ answer' = answer
      /\ \A u \in Threads \ {t} : pc'[u] = pc[u]
  BY <1>1, <1>3 DEF clientVars, Moves
<1>5. \A u \in Threads \ {t} : pc[u] # "idle" => cur[u] \in Nodes /\ cur[u] # cur[t]
  BY <1>0, <1>2 DEF NodesOK
<1>6. /\ next'[cur[t]] = next_node[t] /\ next_node'[t] = cur[t]
      /\ arg_ret'[cur[t]] = request[t] /\ postedBy'[cur[t]] = t
      /\ \A u \in Threads \ {t} : /\ next_node'[u] = next_node[u]
      /\ \A n \in Nodes : n # cur[t] => next'[n] = next[n] /\ arg_ret'[n] = arg_ret[n]
                                      /\ postedBy'[n] = postedBy[n]
  BY <1>0, <1>2, <1>3 DEF SynchTypeOK
<1>7. SynchTypeOK'
  <2>1. request[t] \in Int
    BY <1>0, ArgsAreNumbers DEF ClientsTypeOK
  <2>2. QED
    BY <1>0, <1>2, <1>3, <2>1 DEF SynchTypeOK
<1>8. /\ \A u \in Threads : NodeOf(u)' = NodeOf(u)
      /\ \A u \in Threads : IsListed(u)' <=> IsListed(u)
      /\ IsListed(t)
  BY <1>1, <1>2, <1>3, <1>4, <1>6 DEF NodeOf, IsListed, CombineLabels
<1>9. \A u \in Threads : IsListed(u) => Succ(u)' = Succ(u)
  <2>1. Succ(t)' = Succ(t)
    BY <1>1, <1>3, <1>6 DEF Succ
  <2>2. ASSUME NEW u \in Threads \ {t}, IsListed(u)
        PROVE  Succ(u)' = Succ(u)
    <3>1. pc[u] # "idle" /\ pc'[u] = pc[u]
      BY <1>4, <2>2 DEF IsListed, CombineLabels
    <3>2. QED
      BY <1>3, <1>5, <1>6, <3>1 DEF Succ
  <2>3. QED
    BY <2>1, <2>2
<1>10. NodesOK' /\ \A n \in Nodes : InList(n)' <=> InList(n)
  BY <1>0, <1>1, <1>3, <1>4, <1>8, SameNodes
<1>11. ListOK'
  <2>1. \A c \in Clusters : next'[Tail_'[c]] = NULL /\ ~completed'[Tail_'[c]]
    BY <1>0, <1>2, <1>3, <1>6 DEF ListOK, NodesOK, SynchTypeOK
  <2>2. \A u \in Threads : pc'[u] = "post" => next'[cur'[u]] = NULL /\ ~completed'[cur'[u]]
    BY <1>0, <1>1, <1>3, <1>4, <1>5, <1>6 DEF ListOK
  <2>3. \A h \in Threads : pc'[h] \in CombineLabels => pc[h] \in CombineLabels
    BY <1>1, <1>4 DEF CombineLabels
  <2>4. QED
    BY <1>0, <1>3, <1>8, <1>9, <1>10, <2>1, <2>2, <2>3 DEF ListOK
<1>12. \A h \in Threads : pc'[h] \in CombineLabels \cup {"complete", "release"} => h # t /\ pc'[h] = pc[h]
  BY <1>1, <1>4 DEF CombineLabels
<1>13. CombinersOK'
  <2>1. ASSUME NEW h \in Threads
        PROVE  CombinerOK(h)'
    <3>1. CombinerOK(h) /\ (h # t => pc'[h] = pc[h]) /\ (IsListed(h)' <=> IsListed(h))
      BY <1>0, <1>4, <1>8 DEF CombinersOK
    <3>2. CASE h = t
      BY <1>1, <1>3, <3>1, <3>2 DEF CombinerOK, CombineLabels
    <3>3. CASE h # t
      <4>1. pc[h] \in {"complete", "release"} => p[h] # cur[t] /\ p[h] \in Nodes
        BY <1>2, <3>1 DEF CombinerOK, CombineLabels
      <4>2. \A n \in Nodes : InList(n)' <=> InList(n)
        BY <1>10
      <4>3. QED
        BY <1>3, <1>6, <3>1, <3>3, <4>1, <4>2 DEF CombinerOK
    <3>4. QED
      BY <3>2, <3>3
  <2>2. \A n \in Nodes : IsHead(n)' => IsHead(n)
    BY <1>3, <1>10, <1>12 DEF IsHead
  <2>3. \A u \in Threads : IsListed(u)' /\ completed'[cur'[u]] =>
            \E h \in Threads : pc'[h] = "release" /\ p'[h] = cur'[u]
    BY <1>0, <1>1, <1>3, <1>4, <1>8 DEF CombinersOK
  <2>4. QED
    BY <1>0, <1>3, <1>12, <2>1, <2>2, <2>3 DEF CombinersOK
<1>14. ASSUME NEW u \in Threads
       PROVE  OperationOK(u)'
  <2>1. OperationOK(u)
    BY <1>0
  <2>2. CASE u = t
    <3>1. ~IsServed(t) /\ ~IsServed(t)'
      <4>1. \A h \in Threads : pc[h] \in {"complete", "release"} => p[h] # cur[t]
        BY <1>0, <1>2 DEF CombinersOK, CombinerOK
      <4>2. QED
        BY <1>1, <1>3, <1>4, <1>8, <4>1 DEF IsServed
    <3>2. QED
      BY <1>1, <1>3, <1>4, <1>6, <2>1, <2>2, <3>1 DEF OperationOK, SynchLabels
  <2>3. CASE u # t
    <3>1. IsServed(u)' <=> IsServed(u)
      BY <1>1, <1>3, <1>4, <1>8 DEF IsServed
    <3>2. QED
      BY <1>3, <1>4, <1>5, <1>6, <2>1, <2>3, <3>1 DEF OperationOK, IsServed, IsListed, CombineLabels
  <2>4. QED
    BY <2>2, <2>3
<1>15. SynchOK'
  BY <1>7, <1>10, <1>11, <1>13, <1>14 DEF SynchOK
<1>16. ClientStep(t)
  BY <1>1, <1>3 DEF ClientStep, GoesOn
<1>17. QED
  BY <1>15, <1>16

LEMMA SynchCallKeeps ==
    ASSUME ClientsOK, SynchOK, build \in {ccsynch, hsynch}, NEW t \in Threads,
           NEW arg \in Args, Announces(t, arg), UNCHANGED build
    PROVE  SynchOK' /\ ClientStep(t)
<1>0. /\ ClientsTypeOK /\ SynchTypeOK /\ NodesOK /\ ListOK /\ CombinersOK
      /\ \A u \in Threads : OperationOK(u)
      /\ build.clusters \subseteq Clusters
  <2>1. build.clusters \subseteq Clusters
    BY ClustersAssumption DEF ccsynch, hsynch
  <2>2. QED
    BY <2>1 DEF ClientsOK, SynchOK
<1>1. pc[t] = "idle" /\ pc'[t] = "post" /\ Moves(t)
  BY <1>0, MoveIs DEF Announces, Labels
<1>2. PICK c \in build.clusters : /\ cur' = [cur EXCEPT ![t] = Tail_[c]]
                                  /\ Tail_' = [Tail_ EXCEPT ![c] = next_node[t]]
  BY DEF Announces
<1>3. PICK m \in Nodes : m = next_node[t]
  BY <1>0 DEF SynchTypeOK
<1>4. PICK o \in Nodes : o = Tail_[c]
  BY <1>0 DEF SynchTypeOK
<1>5. /\ NodeOf(t) = m /\ m # o /\ ~IsListed(t) /\ ~InList(m)
      /\ next[o] = NULL /\ ~completed[o]
  BY <1>0, <1>1, <1>3, <1>4 DEF NodeOf, NodesOK, IsListed, CombineLabels, InList, ListOK
<1>6. /\ cur'[t] = o /\ Tail_'[c] = m /\ next_node' = next_node
      /\ next'[m] = NULL /\ locked'[m] /\ ~completed'[m]
      /\ \A u \in Threads \ {t} : cur'[u] = cur[u] /\ pc'[u] = pc[u]
      /\ \A d \in Clusters \ {c} : Tail_'[d] = Tail_[d]
      /\ \A n \in Nodes \ {m} : next'[n] = next[n] /\ locked'[n] = locked[n]
                                /\ completed'[n] = completed[n]
      /\ UNCHANGED <<arg_ret, postedBy, p, counter>>
  BY <1>0, <1>1, <1>2, <1>3, <1>4 DEF Announces, SynchTypeOK, Moves
<1>7. SynchTypeOK'
  BY <1>0, <1>2, <1>3, <1>4 DEF SynchTypeOK, Announces
<1>8. pending[t] = <<>>
  BY <1>0, <1>5 DEF OperationOK, IsServed
<1>9. /\ pending'[t] = <<arg>> /\ request'[t] = arg /\ answer' = answer
      /\ \A u \in Threads \ {t} : pending'[u] = pending[u] /\ request'[u] = request[u]
  BY <1>0, <1>8, BeginIs DEF Announces
<1>10. \A u \in Threads \ {t} : pc[u] # "idle" => cur[u] \in Nodes \ {m}
  BY <1>0, <1>5 DEF NodesOK
<1>11. /\ NodeOf(t)' = o
       /\ \A u \in Threads \ {t} : NodeOf(u)' = NodeOf(u)
  BY <1>1, <1>6 DEF NodeOf
<1>12. /\ IsListed(t)' /\ Succ(t)' = m
       /\ \A u \in Threads \ {t} : IsListed(u)' <=> IsListed(u)
  BY <1>1, <1>3, <1>6, <1>10 DEF IsListed, CombineLabels, Succ
<1>13. \A u \in Threads \ {t} : IsListed(u) => Succ(u)' = Succ(u)
  BY <1>6, <1>10 DEF Succ, IsListed, CombineLabels
<1>14. NodesOK'
  <2>1. \A n \in Nodes : (\E d \in Clusters : n = Tail_'[d]) \/ \E u \in Threads : n = NodeOf(u)'
    <3>1. SUFFICES ASSUME NEW n \in Nodes
                   PROVE  (\E d \in Clusters : n = Tail_'[d]) \/ \E u \in Threads : n = NodeOf(u)'
      OBVIOUS
    <3>2. CASE n = m \/ n = o
      BY <1>0, <1>6, <1>11, <3>2
    <3>3. CASE n # m /\ n # o
      BY <1>0, <1>4, <1>5, <1>6, <1>11, <3>3 DEF NodesOK
    <3>4. QED
      BY <3>2, <3>3
  <2>2. QED
    BY <1>0, <1>4, <1>5, <1>6, <1>11, <2>1 DEF NodesOK
<1>15. \A n \in Nodes : InList(n)' <=> InList(n) \/ n = m
  BY <1>0, <1>5, <1>6, <1>11, <1>12 DEF InList, NodesOK
<1>16. /\ \A h \in Threads : pc'[h] \in CombineLabels \cup {"complete", "release"} =>
              h # t /\ pc'[h] = pc[h] /\ p[h] \in Nodes \ {m} /\ InList(p[h])
       /\ \A h \in Threads \ {t} : pc[h] \in CombineLabels \cup {"complete", "release"} =>
              pc'[h] = pc[h]
  <2>1. \A h \in Threads : pc[h] \in CombineLabels => p[h] \in Nodes \ {m} /\ InList(p[h])
    BY <1>0, <1>5 DEF CombinersOK, CombinerOK
  <2>2. QED
    BY <1>1, <1>6, <2>1 DEF CombineLabels
<1>17. ListOK'
  <2>1. \A d \in Clusters : next'[Tail_'[d]] = NULL /\ ~completed'[Tail_'[d]]
    BY <1>0, <1>5, <1>6 DEF ListOK, NodesOK, SynchTypeOK
  <2>2. \A u \in Threads : pc'[u] = "post" => next'[cur'[u]] = NULL /\ ~completed'[cur'[u]]
    BY <1>0, <1>5, <1>6, <1>10 DEF ListOK
  <2>3. ASSUME NEW u \in Threads \ {t}, IsListed(u)
        PROVE  Succ(u)' \in Nodes /\ locked'[Succ(u)'] /\ InList(Succ(u))' /\ Succ(u)' # m
    <3>1. Succ(u) \in Nodes /\ locked[Succ(u)] /\ InList(Succ(u)) /\ Succ(u)' = Succ(u)
      BY <1>0, <1>13, <2>3 DEF ListOK
    <3>2. Succ(u) # m
      BY <1>5, <3>1
    <3>3. InList(Succ(u))'
      <4>1. \A n \in Nodes : InList(n) => InList(n)'
        BY <1>15
      <4>2. QED
        BY <3>1, <4>1 DEF InList
    <3>4. QED
      BY <1>6, <3>1, <3>2, <3>3
  <2>4. InList(Succ(t))'
    <3>1. InList(m)'
      BY <1>15
    <3>2. QED
      BY <1>12, <3>1 DEF InList
  <2>5. \A u, h \in Threads : IsListed(u)' /\ pc'[h] \in CombineLabels => p'[h] # Succ(u)'
    BY <1>0, <1>6, <1>12, <1>13, <1>16 DEF ListOK
  <2>6. \A u, w \in Threads : u # w /\ IsListed(u)' /\ IsListed(w)' => Succ(u)' # Succ(w)'
    BY <1>0, <1>12, <1>13, <2>3 DEF ListOK
  <2>7. \A u \in Threads : IsListed(u)' =>
            Succ(u)' \in Nodes /\ locked'[Succ(u)'] /\ InList(Succ(u))'
    BY <1>6, <1>12, <2>3, <2>4
  <2>8. QED
    BY <2>1, <2>2, <2>5, <2>6, <2>7 DEF ListOK
<1>18. CombinersOK'
  <2>1. ASSUME NEW h \in Threads
        PROVE  CombinerOK(h)'
    <3>1. CombinerOK(h)
      BY <1>0 DEF CombinersOK
    <3>2. CASE h = t
      BY <1>1, <1>6, <3>1, <3>2 DEF CombinerOK, CombineLabels
    <3>3. CASE h # t
      <4>1. pc[h] \in CombineLabels => InList(p[h])' /\ p[h] \in Nodes \ {m}
        <5>1. pc[h] \in CombineLabels => InList(p[h]) /\ p[h] \in Nodes \ {m}
          BY <1>16, <3>3
        <5>2. \A n \in Nodes : InList(n) => InList(n)'
          BY <1>15
        <5>3. QED
          BY <1>6, <5>1, <5>2 DEF InList
      <4>2. p' = p
        BY <1>6
      <4>3. pc[h] \in {"complete", "release"} => pc[h] \in CombineLabels
        BY DEF CombineLabels
      <4>4. pc'[h] = pc[h] /\ (IsListed(h)' <=> IsListed(h)) /\ cur'[h] = cur[h] /\ counter' = counter
        BY <1>6, <1>12, <3>3
      <4>5. pc[h] \in CombineLabels => locked'[p[h]] = locked[p[h]] /\ completed'[p[h]] = completed[p[h]]
                                       /\ next'[p[h]] = next[p[h]]
        BY <1>6, <4>1
      <4>6. QED
        BY <3>1, <4>1, <4>2, <4>3, <4>4, <4>5 DEF CombinerOK
    <3>4. QED
      BY <3>2, <3>3
  <2>2. \A n \in Nodes : IsHead(n)' => IsHead(n)
    BY <1>6, <1>15, <1>16 DEF IsHead
  <2>3. \A u \in Threads : IsListed(u)' /\ completed'[cur'[u]] =>
            \E h \in Threads : pc'[h] = "release" /\ p'[h] = cur'[u]
    <3>1. ~completed'[cur'[t]]
      BY <1>5, <1>6
    <3>2. ASSUME NEW u \in Threads \ {t}, IsListed(u)', completed'[cur'[u]]
          PROVE  \E h \in Threads : pc'[h] = "release" /\ p'[h] = cur'[u]
      <4>1. IsListed(u) /\ completed[cur[u]]
        BY <1>6, <1>10, <1>12, <3>2 DEF IsListed, CombineLabels
      <4>2. PICK h \in Threads : pc[h] = "release" /\ p[h] = cur[u]
        BY <1>0, <4>1 DEF CombinersOK
      <4>3. QED
        BY <1>1, <1>6, <4>2
    <3>3. QED
      BY <3>1, <3>2
  <2>4. QED
    BY <1>0, <1>6, <1>16, <2>1, <2>2, <2>3 DEF CombinersOK
<1>19. ASSUME NEW u \in Threads
       PROVE  OperationOK(u)'
  <2>1. OperationOK(u)
    BY <1>0
  <2>2. CASE u = t
    <3>1. ~IsServed(t)'
      <4>1. \A h \in Threads : pc[h] \in {"complete", "release"} => p[h] # o
        BY <1>0, <1>5 DEF CombinersOK, CombinerOK
      <4>2. QED
        BY <1>6, <1>12, <1>16, <4>1 DEF IsServed
    <3>2. QED
      BY <1>1, <1>9, <2>2, <3>1 DEF OperationOK, SynchLabels
  <2>3. CASE u # t
    <3>1. IsServed(u)' <=> IsServed(u)
      BY <1>1, <1>6, <1>12, <1>16, <2>3 DEF IsServed
    <3>2. QED
      BY <1>6, <1>9, <1>10, <2>1, <2>3, <3>1 DEF OperationOK, IsServed, IsListed, CombineLabels
  <2>4. QED
    BY <2>2, <2>3
<1>20. SynchOK'
  BY <1>7, <1>14, <1>17, <1>18, <1>19 DEF SynchOK
<1>21. ClientStep(t)
  BY <1>1 DEF Announces, ClientStep, Calls
<1>22. QED
  BY <1>20, <1>21

(* A return: the operation has run, and its answer is in the node.          *)
LEMMA AnswerReturns ==
    ASSUME ClientsOK, SynchOK, build \in {ccsynch, hsynch}, NEW t \in Threads,
           Moves(t), ReturnAnswer(t), pc[t] # "idle", pc'[t] = "idle", IsServed(t),
           UNCHANGED build
    PROVE  /\ ClientStep(t)
           /\ cur[t] \in Nodes /\ cur[t] = NodeOf(t)
           /\ \A u \in Threads \ {t} : pc[u] # "idle" => cur[u] \in Nodes \ {cur[t]}
           /\ pending' = pending /\ request'[t] = 0
           /\ \A u \in Threads \ {t} : /\ request'[u] = request[u] /\ answer'[u] = answer[u]
                                       /\ cur'[u] = cur[u]
           /\ \A n \in Nodes \ {cur[t]} : arg_ret'[n] = arg_ret[n] /\ postedBy'[n] = postedBy[n]
           /\ arg_ret' \in [Nodes -> Int] /\ postedBy' \in [Nodes -> Threads \cup {NULL}]
           /\ cur' \in [Threads -> Nodes \cup {NULL}]
<1>0. ClientsTypeOK /\ SynchTypeOK /\ NodesOK /\ OperationOK(t)
  BY DEF ClientsOK, SynchOK
<1>1. /\ cur[t] \in Nodes /\ cur[t] = NodeOf(t)
      /\ \A u \in Threads \ {t} : pc[u] # "idle" => cur[u] \in Nodes \ {cur[t]}
  BY <1>0 DEF NodesOK
<1>2. ClientStep(t)
  <2>1. pending[t] = <<>> /\ (request[t] = DEQUEUE => arg_ret[cur[t]] = answer[t] + 2)
    BY <1>0 DEF OperationOK
  <2>2. arg_ret[cur[t]] \in Int
    BY <1>0, <1>1 DEF SynchTypeOK
  <2>3. MayReturn(t) /\ Added = 2
    BY <2>1 DEF MayReturn, Added
  <2>4. Return(t, arg_ret[cur[t]])
    BY DEF ReturnAnswer
  <2>5. QED
    BY <2>1, <2>2, <2>3, <2>4 DEF ClientStep, Returns
<1>3. /\ pending' = pending /\ request'[t] = 0
      /\ \A u \in Threads \ {t} : request'[u] = request[u] /\ answer'[u] = answer[u]
  BY <1>0, ReturnIs DEF ReturnAnswer
<1>4. /\ arg_ret' = [arg_ret EXCEPT ![cur[t]] = 0]
      /\ postedBy' = [postedBy EXCEPT ![cur[t]] = NULL]
      /\ cur' = [cur EXCEPT ![t] = NULL]
  BY DEF ReturnAnswer
<1>5. QED
  BY <1>0, <1>1, <1>2, <1>3, <1>4 DEF SynchTypeOK

LEMMA ReturnKeepsSynch ==
    ASSUME ClientsOK, SynchOK, build \in {ccsynch, hsynch}, NEW t \in Threads,
           Moves(t), ReturnAnswer(t), pc[t] \in {"spin", "clhUnlock"}, pc'[t] = "idle",
           ~IsListed(t), UNCHANGED <<Tail_, next, locked, completed, next_node, p, counter>>,
           UNCHANGED build
    PROVE  SynchOK' /\ ClientStep(t)
<1>0. /\ SynchTypeOK /\ NodesOK /\ ListOK /\ CombinersOK
      /\ \A u \in Threads : OperationOK(u)
  BY DEF SynchOK
<1>1. /\ ClientStep(t)
      /\ cur[t] \in Nodes /\ cur[t] = NodeOf(t)
      /\ \A u \in Threads \ {t} : pc[u] # "idle" => cur[u] \in Nodes \ {cur[t]}
      /\ pending' = pending /\ request'[t] = 0
      /\ \A u \in Threads \ {t} : /\ request'[u] = request[u] /\ answer'[u] = answer[u]
                                  /\ cur'[u] = cur[u]
      /\ \A n \in Nodes \ {cur[t]} : arg_ret'[n] = arg_ret[n] /\ postedBy'[n] = postedBy[n]
      /\ SynchTypeOK'
  <2>1. IsServed(t) /\ pc[t] # "idle"
    BY DEF IsServed
  <2>2. QED
    BY <1>0, <2>1, AnswerReturns DEF SynchTypeOK
<1>2. \A u \in Threads \ {t} : pc'[u] = pc[u]
  BY DEF Moves
<1>3. /\ \A u \in Threads : NodeOf(u)' = NodeOf(u)
      /\ \A u \in Threads : IsListed(u)' <=> IsListed(u)
  BY <1>1, <1>2 DEF NodeOf, IsListed, CombineLabels
<1>4. \A u \in Threads : IsListed(u) => Succ(u)' = Succ(u)
  BY <1>1, <1>2 DEF Succ
<1>5. NodesOK' /\ \A n \in Nodes : InList(n)' <=> InList(n)
  BY <1>0, <1>1, <1>2, <1>3, SameNodes
<1>6. \A h \in Threads : /\ pc'[h] \in CombineLabels => pc[h] \in CombineLabels
                         /\ h # t => pc'[h] = pc[h]
  BY <1>2 DEF CombineLabels
<1>7. ListOK'
  <2>1. \A u \in Threads : pc'[u] = "post" => next'[cur'[u]] = NULL /\ ~completed'[cur'[u]]
    BY <1>0, <1>1, <1>2 DEF ListOK
  <2>2. QED
    BY <1>0, <1>3, <1>4, <1>5, <1>6, <2>1 DEF ListOK
<1>8. \A h \in Threads : pc[h] \in CombineLabels \cup {"complete", "release"} => h # t
  BY DEF CombineLabels
<1>9. CombinersOK'
  <2>1. ASSUME NEW h \in Threads
        PROVE  CombinerOK(h)'
    <3>1. CombinerOK(h) /\ (IsListed(h)' <=> IsListed(h)) /\ \A n \in Nodes : InList(n)' <=> InList(n)
      BY <1>0, <1>3, <1>5 DEF CombinersOK
    <3>2. CASE h = t
      BY <3>1, <3>2 DEF CombinerOK, CombineLabels
    <3>3. CASE h # t
      BY <1>1, <1>2, <3>1, <3>3 DEF CombinerOK
    <3>4. QED
      BY <3>2, <3>3
  <2>2. \A n \in Nodes : IsHead(n)' => IsHead(n)
    BY <1>5, <1>6, <1>8 DEF IsHead
  <2>3. \A u \in Threads : IsListed(u)' /\ completed'[cur'[u]] =>
            \E h \in Threads : pc'[h] = "release" /\ p'[h] = cur'[u]
    BY <1>0, <1>1, <1>2, <1>3, <1>8 DEF CombinersOK
  <2>4. QED
    BY <1>0, <1>6, <1>8, <2>1, <2>2, <2>3 DEF CombinersOK
<1>10. ASSUME NEW u \in Threads
       PROVE  OperationOK(u)'
  <2>1. OperationOK(u)
    BY <1>0
  <2>2. CASE u = t
    <3>1. IsServed(t)' /\ IsServed(t)
      BY <1>3 DEF IsServed
    <3>2. QED
      BY <1>1, <2>1, <2>2, <3>1 DEF OperationOK, SynchLabels
  <2>3. CASE u # t
    <3>1. IsServed(u)' <=> IsServed(u)
      BY <1>1, <1>2, <1>3, <1>8, <2>3 DEF IsServed
    <3>2. QED
      BY <1>1, <1>2, <2>1, <2>3, <3>1 DEF OperationOK, IsServed, IsListed, CombineLabels
  <2>4. QED
    BY <2>2, <2>3
<1>11. QED
  BY <1>1, <1>5, <1>7, <1>9, <1>10 DEF SynchOK

LEMMA HelpedKeeps ==
    ASSUME ClientsOK, SynchOK, build \in {ccsynch, hsynch}, NEW t \in Threads, Helped(t),
           UNCHANGED build
    PROVE  SynchOK' /\ ClientStep(t)
<1>1. pc[t] = "spin" /\ pc'[t] = "idle" /\ Moves(t)
  BY MoveIs DEF ClientsOK, Helped, Labels
<1>2. ~IsListed(t)
  BY <1>1 DEF Helped, IsListed, CombineLabels
<1>3. ReturnAnswer(t) /\ UNCHANGED <<Tail_, next, locked, completed, next_node, p, counter>>
  BY DEF Helped
<1>4. QED
  BY <1>1, <1>2, <1>3, ReturnKeepsSynch

LEMMA EndsCombiningKeeps ==
    ASSUME ClientsOK, SynchOK, CLHQueueOK, build \in {ccsynch, hsynch}, NEW t \in Threads,
           EndsCombining(t), UNCHANGED build
    PROVE  SynchOK' /\ CLHQueueOK' /\ ClientStep(t)
<1>1. pc[t] = "clhUnlock" /\ pc'[t] = "idle" /\ Moves(t)
  BY MoveIs DEF ClientsOK, EndsCombining, CLHUnlock, Labels
<1>2. ~IsListed(t)
  BY <1>1 DEF IsListed, CombineLabels
<1>3. ReturnAnswer(t) /\ UNCHANGED <<Tail_, next, locked, completed, next_node, p, counter>>
  BY DEF EndsCombining
<1>4. CLHQueueOK'
  BY CLHUnlockKeepsQueue DEF EndsCombining, ClientsOK, ClientsTypeOK, CLHHoldLabels
<1>5. QED
  BY <1>1, <1>2, <1>3, <1>4, ReturnKeepsSynch

(* The combiner is at an operation that is posted, and whose thread waits   *)
(* for it unless it is the combiner.                                        *)
LEMMA HeadIsPosted ==
    ASSUME SynchOK, NEW t \in Threads, pc[t] \in CombineLabels, next[p[t]] # NULL
    PROVE  /\ p[t] \in Nodes
           /\ \E u \in Threads :
                  /\ IsListed(u) /\ pc[u] # "post" /\ pc[u] # "idle"
                  /\ cur[u] = p[t] /\ NodeOf(u) = p[t] /\ Succ(u) = next[p[t]]
                  /\ u # t => pc[u] = "spin" /\ locked[p[t]]
                  /\ \A w \in Threads \ {u} :
                         NodeOf(w) # p[t] /\ (pc[w] # "idle" => cur[w] # p[t])
<1>0. SynchTypeOK /\ NodesOK /\ ListOK /\ CombinersOK /\ CombinerOK(t)
  BY DEF SynchOK, CombinersOK
<1>1. /\ p[t] \in Nodes /\ InList(p[t]) /\ (locked[p[t]] \/ p[t] = cur[t])
  BY <1>0 DEF CombinerOK
<1>2. \A c \in Clusters : p[t] # Tail_[c]
  BY <1>0 DEF ListOK
<1>3. PICK u \in Threads : NodeOf(u) = p[t]
  BY <1>0, <1>1, <1>2 DEF NodesOK
<1>4. IsListed(u) /\ pc[u] # "idle"
  BY <1>1, <1>3 DEF InList, IsListed, CombineLabels
<1>5. cur[u] = p[t] /\ pc[u] # "post" /\ Succ(u) = next[p[t]]
  BY <1>0, <1>3, <1>4 DEF NodesOK, ListOK, Succ
<1>6. \A w \in Threads \ {u} : NodeOf(w) # p[t] /\ (pc[w] # "idle" => cur[w] # p[t])
  BY <1>0, <1>3 DEF NodesOK
<1>7. u # t => pc[u] = "spin" /\ locked[p[t]]
  <2>1. SUFFICES ASSUME u # t
                 PROVE  pc[u] = "spin" /\ locked[p[t]]
    OBVIOUS
  <2>2. pc[u] \notin CombineLabels
    BY <1>0, <1>4, <1>5, <2>1 DEF CombinersOK, CombinerOK
  <2>3. pc[t] # "idle"
    BY DEF CombineLabels
  <2>4. QED
    BY <1>1, <1>4, <1>5, <1>6, <2>1, <2>2, <2>3 DEF IsListed
<1>8. QED
  BY <1>1, <1>3, <1>4, <1>5, <1>6, <1>7

(* A step that changes where a thread is in its combining, and no more.     *)
LEMMA CombiningGoesOn ==
    ASSUME ClientsOK, SynchOK, build \in {ccsynch, hsynch}, NEW t \in Threads, Moves(t),
           pc[t] = "spin" \/ pc[t] \in {"clhSwap", "clhSpin"},
           pc'[t] \in {"clhSwap", "clhSpin", "combine"},
           build = ccsynch => pc'[t] = "combine",
           pc[t] = "spin" => ~locked[cur[t]] /\ ~completed[cur[t]] /\ p'[t] = cur[t],
           pc[t] # "spin" => p'[t] = p[t],
           \A u \in Threads \ {t} : p'[u] = p[u],
           p' \in [Threads -> Nodes \cup {NULL}],
           UNCHANGED <<Tail_, next, arg_ret, locked, completed, postedBy, next_node, cur,
                       counter, clientVars>>,
           UNCHANGED build
    PROVE  SynchOK' /\ ClientStep(t)
<1>0. /\ SynchTypeOK /\ NodesOK /\ ListOK /\ CombinersOK
      /\ \A u \in Threads : OperationOK(u)
      /\ CombinerOK(t)
  BY DEF SynchOK, CombinersOK
<1>1. \A u \in Threads \ {t} : pc'[u] = pc[u]
  BY DEF Moves
<1>2. ClientStep(t)
  BY DEF ClientStep, GoesOn
<1>3. /\ pending' = pending /\ request' = request /\ answer' = answer
  BY DEF clientVars
<1>4. /\ \A u \in Threads : NodeOf(u)' = NodeOf(u)
      /\ \A u \in Threads : IsListed(u)' <=> IsListed(u)
      /\ pc[t] = "spin" => IsListed(t)
  BY <1>1 DEF NodeOf, IsListed, CombineLabels
<1>5. \A u \in Threads : IsListed(u) => Succ(u)' = Succ(u)
  BY <1>1 DEF Succ
<1>6. NodesOK' /\ \A n \in Nodes : InList(n)' <=> InList(n)
  BY <1>0, <1>1, <1>4, SameNodes
<1>7. /\ cur[t] = NodeOf(t) /\ cur[t] \in Nodes
      /\ \A u \in Threads \ {t} : pc[u] # "idle" => cur[u] # cur[t]
  BY <1>0 DEF NodesOK
<1>8. pc[t] = "spin" => InList(cur[t])
  BY <1>0, <1>4, <1>7 DEF InList, NodesOK
<1>9. pc[t] = "spin" => \A h \in Threads : pc[h] \in CombineLabels => p[h] # cur[t]
  <2>1. ASSUME pc[t] = "spin", NEW h \in Threads, pc[h] \in CombineLabels, p[h] = cur[t]
        PROVE  FALSE
    <3>1. p[h] = cur[h] /\ h # t /\ pc[h] # "idle"
      BY <1>0, <2>1 DEF CombinersOK, CombinerOK, CombineLabels
    <3>2. QED
      BY <1>7, <2>1, <3>1
  <2>2. QED
    BY <2>1
<1>10. ListOK'
  <2>1. \A u \in Threads : pc'[u] = "post" => next'[cur'[u]] = NULL /\ ~completed'[cur'[u]]
    BY <1>0, <1>1 DEF ListOK
  <2>2. ASSUME NEW u \in Threads, NEW h \in Threads, IsListed(u), pc'[h] \in CombineLabels
        PROVE  p'[h] # Succ(u)
    <3>1. CASE h # t \/ pc[t] # "spin"
      <4>1. pc[h] \in CombineLabels /\ p'[h] = p[h]
        BY <1>1, <2>2, <3>1 DEF CombineLabels
      <4>2. QED
        BY <1>0, <2>2, <4>1 DEF ListOK
    <3>2. CASE h = t /\ pc[t] = "spin"
      BY <1>0, <2>2, <3>2 DEF ListOK
    <3>3. QED
      BY <3>1, <3>2
  <2>3. QED
    BY <1>0, <1>4, <1>5, <1>6, <2>1, <2>2 DEF ListOK
<1>11. /\ \A h \in Threads : pc'[h] \in {"complete", "release"} => h # t /\ pc'[h] = pc[h]
       /\ \A h \in Threads : pc[h] \in {"complete", "release"} => h # t
  BY <1>1
<1>12. CombinersOK'
  <2>1. ASSUME NEW h \in Threads
        PROVE  CombinerOK(h)'
    <3>1. CombinerOK(h) /\ (IsListed(h)' <=> IsListed(h)) /\ \A n \in Nodes : InList(n)' <=> InList(n)
      BY <1>0, <1>4, <1>6 DEF CombinersOK
    <3>2. CASE h # t
      BY <1>1, <3>1, <3>2 DEF CombinerOK
    <3>3. CASE h = t /\ pc[t] = "spin"
      BY <1>4, <1>7, <1>8, <3>1, <3>3 DEF CombinerOK, CombineLabels
    <3>4. CASE h = t /\ pc[t] # "spin"
      BY <3>1, <3>4 DEF CombinerOK, CombineLabels
    <3>5. QED
      BY <3>2, <3>3, <3>4
  <2>2. \A n \in Nodes : IsHead(n)' => IsHead(n)
    <3>1. ASSUME NEW n \in Nodes, IsHead(n)', locked[n]
          PROVE  IsHead(n)
      <4>1. PICK h \in Threads : pc'[h] \in CombineLabels /\ p'[h] = n
        BY <3>1 DEF IsHead
      <4>2. pc[h] \in CombineLabels /\ p[h] = n
        BY <1>1, <3>1, <4>1 DEF CombineLabels
      <4>3. QED
        BY <1>6, <3>1, <4>2 DEF IsHead
    <3>2. QED
      BY <1>6, <3>1 DEF IsHead
  <2>3. \A u \in Threads : IsListed(u)' /\ completed'[cur'[u]] =>
            \E h \in Threads : pc'[h] = "release" /\ p'[h] = cur'[u]
    BY <1>0, <1>1, <1>4, <1>11 DEF CombinersOK
  <2>4. ASSUME NEW h \in Threads, NEW g \in Threads, pc'[h] \in CombineLabels,
               pc'[g] \in CombineLabels, p'[h] = p'[g]
        PROVE  h = g
    <3>1. \A w \in Threads : w # t \/ pc[t] # "spin" =>
              (pc'[w] \in CombineLabels => pc[w] \in CombineLabels) /\ p'[w] = p[w]
      BY <1>1 DEF CombineLabels
    <3>2. QED
      BY <1>0, <1>9, <2>4, <3>1 DEF CombinersOK
  <2>5. QED
    BY <1>0, <2>1, <2>2, <2>3, <2>4 DEF CombinersOK
<1>13. ASSUME NEW u \in Threads
       PROVE  OperationOK(u)'
  <2>1. OperationOK(u)
    BY <1>0
  <2>2. IsServed(u)' <=> IsServed(u)
    BY <1>1, <1>4, <1>11 DEF IsServed
  <2>3. pc'[u] # "idle" => pc[u] # "idle"
    BY <1>1
  <2>4. (u # t => pc'[u] = pc[u]) /\ (pc'[u] = "post" => u # t) /\ (pc[u] = "post" => u # t)
    BY <1>1
  <2>5. QED
    BY <1>3, <2>1, <2>2, <2>3, <2>4 DEF OperationOK, SynchLabels, CombineLabels
<1>14. SynchOK'
  <2>1. SynchTypeOK'
    BY <1>0 DEF SynchTypeOK
  <2>2. QED
    BY <1>6, <1>10, <1>12, <1>13, <2>1 DEF SynchOK
<1>15. QED
  BY <1>2, <1>14

LEMMA HelpsKeeps ==
    ASSUME ClientsOK, SynchOK, build \in {ccsynch, hsynch}, NEW t \in Threads, Helps(t),
           UNCHANGED build
    PROVE  SynchOK' /\ ClientStep(t)
<1>0. /\ ClientsTypeOK /\ SynchTypeOK /\ NodesOK /\ ListOK /\ CombinersOK
      /\ \A u \in Threads : OperationOK(u)
  BY DEF ClientsOK, SynchOK
<1>1. pc[t] = "combine" /\ pc'[t] = "complete" /\ Moves(t)
  BY <1>0, MoveIs DEF Helps, Labels, HolderLabels
<1>2. PICK n \in Nodes : n = p[t]
  BY <1>0, <1>1 DEF CombinersOK, CombinerOK, CombineLabels
<1>3. next[n] # NULL
  BY <1>2 DEF Helps, MayHelp
<1>4. PICK u \in Threads :
          /\ IsListed(u) /\ pc[u] # "post" /\ pc[u] # "idle"
          /\ cur[u] = n /\ NodeOf(u) = n
          /\ \A w \in Threads \ {u} : NodeOf(w) # n /\ (pc[w] # "idle" => cur[w] # n)
  BY <1>1, <1>2, <1>3, HeadIsPosted DEF CombineLabels
<1>5. ~IsServed(u)
  <2>1. \A h \in Threads : pc[h] \in {"complete", "release"} => p[h] # n
    BY <1>0, <1>1, <1>2 DEF CombinersOK, CombineLabels
  <2>2. QED
    BY <1>4, <2>1 DEF IsServed
<1>6. pending[u] = <<request[u]>> /\ arg_ret[n] = request[u] /\ postedBy[n] = u
  BY <1>0, <1>4, <1>5 DEF OperationOK
<1>7. Runs(u, request[u])
  BY <1>2, <1>6 DEF Helps
<1>8. /\ pending[u] # <<>> /\ Runs(u, Head(pending[u]))
      /\ pending'[u] = <<>> /\ request' = request
      /\ request[u] = DEQUEUE => answer'[u] = Promise!Top(heap)
      /\ \A w \in Threads \ {u} : pending'[w] = pending[w] /\ answer'[w] = answer[w]
  BY <1>0, <1>6, <1>7, RunsIs
<1>9. dequeue_cs = Promise!Top(heap) + 2 /\ Promise!Top(heap) \in Int
  <2>1. build.shift = 2
    BY DEF ccsynch, hsynch
  <2>2. QED
    BY <1>0, <2>1, TopType DEF dequeue_cs, ClientsTypeOK
<1>10. /\ arg_ret' = [arg_ret EXCEPT ![n] = IF @ = DEQUEUE THEN dequeue_cs ELSE @]
       /\ counter' = [counter EXCEPT ![t] = @ + 1]
       /\ UNCHANGED <<Tail_, next, locked, completed, postedBy, next_node, cur, p>>
  BY <1>2 DEF Helps
<1>11. /\ request[u] = DEQUEUE => arg_ret'[n] = Promise!Top(heap) + 2
       /\ \A m \in Nodes \ {n} : arg_ret'[m] = arg_ret[m]
       /\ counter'[t] = counter[t] + 1 /\ counter[t] \in Nat
       /\ \A w \in Threads \ {t} : counter'[w] = counter[w] /\ pc'[w] = pc[w]
       /\ SynchTypeOK'
  BY <1>0, <1>1, <1>6, <1>9, <1>10 DEF SynchTypeOK, Moves
<1>12. ClientStep(t)
  BY <1>1, <1>8 DEF ClientStep, RunsNext
<1>13. /\ \A w \in Threads : NodeOf(w)' = NodeOf(w)
       /\ \A w \in Threads : IsListed(w)' <=> IsListed(w)
  BY <1>1, <1>10, <1>11 DEF NodeOf, IsListed, CombineLabels
<1>14. \A w \in Threads : Succ(w)' = Succ(w)
  BY <1>1, <1>10, <1>11 DEF Succ
<1>15. NodesOK' /\ \A m \in Nodes : InList(m)' <=> InList(m)
  BY <1>0, <1>1, <1>10, <1>11, <1>13, SameNodes
<1>16. \A h \in Threads : /\ pc'[h] \in CombineLabels <=> pc[h] \in CombineLabels
                          /\ pc'[h] = "release" <=> pc[h] = "release"
                          /\ pc'[h] = "idle" <=> pc[h] = "idle"
                          /\ pc'[h] = "post" <=> pc[h] = "post"
                          /\ pc'[h] \in {"complete", "release"} <=>
                                 h = t \/ pc[h] \in {"complete", "release"}
  BY <1>1, <1>11 DEF CombineLabels
<1>17. ListOK'
  <2>1. \A w \in Threads : pc'[w] = "post" => next'[cur'[w]] = NULL /\ ~completed'[cur'[w]]
    BY <1>0, <1>10, <1>16 DEF ListOK
  <2>2. QED
    BY <1>0, <1>10, <1>13, <1>14, <1>15, <1>16, <2>1 DEF ListOK
<1>18. CombinersOK'
  <2>1. ASSUME NEW h \in Threads
        PROVE  CombinerOK(h)'
    <3>1. CombinerOK(h) /\ (IsListed(h)' <=> IsListed(h)) /\ \A m \in Nodes : InList(m)' <=> InList(m)
      BY <1>0, <1>13, <1>15 DEF CombinersOK
    <3>2. CASE h # t
      BY <1>10, <1>11, <3>1, <3>2 DEF CombinerOK
    <3>3. CASE h = t
      BY <1>1, <1>2, <1>3, <1>10, <1>11, <3>1, <3>3 DEF CombinerOK, CombineLabels
    <3>4. QED
      BY <3>2, <3>3
  <2>2. \A m \in Nodes : IsHead(m)' => IsHead(m)
    BY <1>10, <1>15, <1>16 DEF IsHead
  <2>3. \A w \in Threads : IsListed(w)' /\ completed'[cur'[w]] =>
            \E h \in Threads : pc'[h] = "release" /\ p'[h] = cur'[w]
    BY <1>0, <1>10, <1>13, <1>16 DEF CombinersOK
  <2>4. QED
    BY <1>0, <1>10, <1>16, <2>1, <2>2, <2>3 DEF CombinersOK
<1>19. ASSUME NEW w \in Threads
       PROVE  OperationOK(w)'
  <2>1. OperationOK(w)
    BY <1>0
  <2>2. pc'[w] \in SynchLabels
        /\ (build' = ccsynch => pc'[w] \notin {"clhSwap", "clhSpin", "clhUnlock"})
    BY <1>1, <1>11, <2>1 DEF OperationOK, SynchLabels, CombineLabels
  <2>3. CASE w = u
    <3>1. IsServed(u)'
      BY <1>1, <1>2, <1>4, <1>10 DEF IsServed
    <3>2. QED
      BY <1>4, <1>8, <1>10, <1>11, <2>2, <2>3, <3>1 DEF OperationOK
  <2>4. CASE w # u
    <3>1. IsServed(w)' <=> IsServed(w)
      <4>1. IsListed(w) => cur[w] # n
        BY <1>4, <2>4 DEF IsListed, CombineLabels
      <4>2. QED
        BY <1>2, <1>10, <1>13, <1>16, <4>1 DEF IsServed
    <3>2. pc[w] # "idle" => cur[w] \in Nodes \ {n}
      BY <1>0, <1>4, <2>4 DEF NodesOK
    <3>3. ~IsServed(w) => pc[w] # "idle"
      BY DEF IsServed, IsListed, CombineLabels
    <3>4. QED
      BY <1>8, <1>10, <1>11, <1>16, <2>1, <2>2, <2>4, <3>1, <3>2, <3>3 DEF OperationOK
  <2>5. QED
    BY <2>3, <2>4
<1>20. SynchOK'
  BY <1>11, <1>15, <1>17, <1>18, <1>19 DEF SynchOK
<1>21. QED
  BY <1>12, <1>20

LEMMA CompletesKeeps ==
    ASSUME ClientsOK, SynchOK, build \in {ccsynch, hsynch}, NEW t \in Threads, Completes(t),
           UNCHANGED build
    PROVE  SynchOK' /\ ClientStep(t)
<1>0. /\ ClientsTypeOK /\ SynchTypeOK /\ NodesOK /\ ListOK /\ CombinersOK
      /\ \A u \in Threads : OperationOK(u)
  BY DEF ClientsOK, SynchOK
<1>1. pc[t] = "complete" /\ pc'[t] = "release" /\ Moves(t)
  BY <1>0, MoveIs DEF Completes, Labels, HolderLabels
<1>2. PICK n \in Nodes : n = p[t]
  BY <1>0, <1>1 DEF CombinersOK, CombinerOK, CombineLabels
<1>3. next[n] # NULL /\ ~completed[n]
  BY <1>0, <1>1, <1>2 DEF CombinersOK, CombinerOK, CombineLabels
<1>4. PICK u \in Threads :
          /\ IsListed(u) /\ pc[u] # "post" /\ pc[u] # "idle"
          /\ cur[u] = n /\ NodeOf(u) = n
          /\ u # t => pc[u] = "spin" /\ locked[n]
          /\ \A w \in Threads \ {u} : NodeOf(w) # n /\ (pc[w] # "idle" => cur[w] # n)
  BY <1>1, <1>2, <1>3, HeadIsPosted DEF CombineLabels
<1>5. /\ completed' = [completed EXCEPT ![n] = TRUE]
      /\ UNCHANGED <<Tail_, next, arg_ret, locked, postedBy, next_node, cur, p, counter, clientVars>>
  BY <1>2 DEF Completes
<1>6. /\ completed'[n] /\ (\A m \in Nodes \ {n} : completed'[m] = completed[m])
      /\ \A w \in Threads \ {t} : pc'[w] = pc[w]
      /\ pending' = pending /\ request' = request /\ answer' = answer
      /\ SynchTypeOK'
  BY <1>0, <1>1, <1>5 DEF SynchTypeOK, Moves, clientVars
<1>7. ClientStep(t)
  BY <1>1, <1>5 DEF ClientStep, GoesOn
<1>8. \A w \in Threads : NodeOf(w)' = NodeOf(w)
  BY <1>1, <1>5, <1>6 DEF NodeOf
<1>9. ASSUME NEW w \in Threads
      PROVE  IsListed(w)' <=> IsListed(w)
  <2>1. CASE w = u
    BY <1>1, <1>2, <1>4, <1>5, <1>6, <2>1 DEF IsListed, CombineLabels
  <2>2. CASE w # u
    <3>1. pc[w] # "idle" => completed'[cur[w]] = completed[cur[w]] /\ cur[w] # p[t]
      BY <1>0, <1>2, <1>4, <1>6, <2>2 DEF NodesOK
    <3>2. CASE w = t
      BY <1>1, <1>5, <3>1, <3>2 DEF IsListed, CombineLabels
    <3>3. CASE w # t
      BY <1>5, <1>6, <3>1, <3>3 DEF IsListed, CombineLabels
    <3>4. QED
      BY <3>2, <3>3
  <2>3. QED
    BY <2>1, <2>2
<1>10. \A w \in Threads : Succ(w)' = Succ(w)
  BY <1>1, <1>5, <1>6 DEF Succ
<1>11. NodesOK' /\ \A m \in Nodes : InList(m)' <=> InList(m)
  BY <1>0, <1>1, <1>5, <1>6, <1>8, <1>9, SameNodes
<1>12. \A h \in Threads : /\ pc'[h] \in CombineLabels <=> pc[h] \in CombineLabels
                          /\ pc'[h] = "release" <=> h = t \/ pc[h] = "release"
                          /\ pc'[h] = "idle" <=> pc[h] = "idle"
                          /\ pc'[h] = "post" <=> pc[h] = "post"
                          /\ pc'[h] \in {"complete", "release"} <=> pc[h] \in {"complete", "release"}
  BY <1>1, <1>6 DEF CombineLabels
<1>13. ListOK'
  <2>1. \A w \in Threads : pc'[w] = "post" => next'[cur'[w]] = NULL /\ ~completed'[cur'[w]]
    BY <1>0, <1>3, <1>5, <1>6, <1>12 DEF ListOK, NodesOK
  <2>2. \A c \in Clusters : next'[Tail_'[c]] = NULL /\ ~completed'[Tail_'[c]]
    BY <1>0, <1>3, <1>5, <1>6 DEF ListOK, SynchTypeOK
  <2>3. QED
    BY <1>0, <1>5, <1>9, <1>10, <1>11, <1>12, <2>1, <2>2 DEF ListOK
<1>14. CombinersOK'
  <2>1. ASSUME NEW h \in Threads
        PROVE  CombinerOK(h)'
    <3>1. CombinerOK(h) /\ (IsListed(h)' <=> IsListed(h)) /\ \A m \in Nodes : InList(m)' <=> InList(m)
      BY <1>0, <1>9, <1>11 DEF CombinersOK
    <3>2. CASE h # t
      <4>1. pc[h] \in CombineLabels => p[h] \in Nodes \ {n}
        BY <1>0, <1>1, <1>2, <3>1, <3>2 DEF CombinersOK, CombinerOK, CombineLabels
      <4>2. QED
        BY <1>5, <1>6, <3>1, <3>2, <4>1 DEF CombinerOK
    <3>3. CASE h = t
      BY <1>1, <1>2, <1>3, <1>5, <1>6, <3>1, <3>3 DEF CombinerOK, CombineLabels
    <3>4. QED
      BY <3>2, <3>3
  <2>2. \A m \in Nodes : IsHead(m)' => IsHead(m)
    BY <1>5, <1>11, <1>12 DEF IsHead
  <2>3. ASSUME NEW w \in Threads, IsListed(w), completed'[cur[w]]
        PROVE  \E h \in Threads : pc'[h] = "release" /\ p[h] = cur[w]
    <3>1. CASE cur[w] = n
      BY <1>1, <1>2, <3>1
    <3>2. CASE cur[w] # n
      <4>1. cur[w] \in Nodes
        BY <1>0, <2>3 DEF NodesOK, IsListed, CombineLabels
      <4>2. completed[cur[w]]
        BY <1>6, <2>3, <3>2, <4>1
      <4>3. QED
        BY <1>0, <1>12, <2>3, <4>2 DEF CombinersOK
    <3>3. QED
      BY <3>1, <3>2
  <2>4. QED
    BY <1>0, <1>5, <1>9, <1>12, <2>1, <2>2, <2>3 DEF CombinersOK
<1>15. ASSUME NEW w \in Threads
       PROVE  OperationOK(w)'
  <2>1. OperationOK(w)
    BY <1>0
  <2>2. pc'[w] \in SynchLabels
        /\ (build' = ccsynch => pc'[w] \notin {"clhSwap", "clhSpin", "clhUnlock"})
    BY <1>1, <1>6, <2>1 DEF OperationOK, SynchLabels, CombineLabels
  <2>3. IsServed(w)' <=> IsServed(w)
    BY <1>5, <1>9, <1>12 DEF IsServed
  <2>4. QED
    BY <1>5, <1>6, <1>12, <2>1, <2>2, <2>3 DEF OperationOK
<1>16. SynchOK'
  BY <1>6, <1>11, <1>13, <1>14, <1>15 DEF SynchOK
<1>17. QED
  BY <1>7, <1>16

(* The thread whose operation has run leaves the list, and the combiner     *)
(* goes on to the node after it.                                            *)
LEMMA ReleasesKeeps ==
    ASSUME ClientsOK, SynchOK, build \in {ccsynch, hsynch}, NEW t \in Threads, Releases(t),
           UNCHANGED build
    PROVE  SynchOK' /\ ClientStep(t)
<1>0. /\ ClientsTypeOK /\ SynchTypeOK /\ NodesOK /\ ListOK /\ CombinersOK
      /\ \A u \in Threads : OperationOK(u)
  BY DEF ClientsOK, SynchOK
<1>1. pc[t] = "release" /\ pc'[t] = "combine" /\ Moves(t)
  BY <1>0, MoveIs DEF Releases, Labels, HolderLabels
<1>2. PICK n \in Nodes : n = p[t]
  BY <1>0, <1>1 DEF CombinersOK, CombinerOK, CombineLabels
<1>3. next[n] # NULL /\ completed[n]
  BY <1>0, <1>1, <1>2 DEF CombinersOK, CombinerOK, CombineLabels
<1>4. PICK u \in Threads :
          /\ IsListed(u) /\ pc[u] # "post" /\ pc[u] # "idle"
          /\ cur[u] = n /\ NodeOf(u) = n /\ Succ(u) = next[n]
          /\ u # t => pc[u] = "spin" /\ locked[n]
          /\ \A w \in Threads \ {u} : NodeOf(w) # n /\ (pc[w] # "idle" => cur[w] # n)
  BY <1>1, <1>2, <1>3, HeadIsPosted DEF CombineLabels
<1>5. PICK m \in Nodes : m = next[n]
  BY <1>0, <1>4 DEF ListOK
<1>6. /\ locked[m] /\ InList(m) /\ m # n
      /\ \A h \in Threads : pc[h] \in CombineLabels => p[h] # m
      /\ \A w \in Threads \ {u} : IsListed(w) => Succ(w) # m
      /\ \A w \in Threads : IsListed(w) => Succ(w) # n
  BY <1>0, <1>1, <1>2, <1>4, <1>5 DEF ListOK, CombineLabels
<1>7. ~completed[m]
  <2>1. CASE \E c \in Clusters : m = Tail_[c]
    BY <1>0, <2>1 DEF ListOK
  <2>2. CASE \E w \in Threads : m = NodeOf(w)
    <3>1. PICK w \in Threads : m = NodeOf(w)
      BY <2>2
    <3>2. IsListed(w) /\ pc[w] # "idle"
      BY <1>6, <3>1 DEF InList, IsListed, CombineLabels
    <3>3. cur[w] = m
      BY <1>0, <3>1, <3>2 DEF NodesOK
    <3>4. \A h \in Threads : pc[h] = "release" => p[h] # m
      BY <1>6 DEF CombineLabels
    <3>5. QED
      BY <1>0, <3>2, <3>3, <3>4 DEF CombinersOK
  <2>3. QED
    BY <1>0, <2>1, <2>2 DEF NodesOK
<1>8. /\ locked' = [locked EXCEPT ![n] = FALSE]
      /\ p' = [p EXCEPT ![t] = m]
      /\ UNCHANGED <<Tail_, next, arg_ret, completed, postedBy, next_node, cur, counter, clientVars>>
  BY <1>2, <1>5 DEF Releases
<1>9. /\ ~locked'[n] /\ (\A x \in Nodes \ {n} : locked'[x] = locked[x])
      /\ p'[t] = m
      /\ \A w \in Threads \ {t} : p'[w] = p[w] /\ pc'[w] = pc[w]
      /\ pending' = pending /\ request' = request /\ answer' = answer
      /\ SynchTypeOK'
  BY <1>0, <1>1, <1>8 DEF SynchTypeOK, Moves, clientVars
<1>10. ClientStep(t)
  BY <1>1, <1>8 DEF ClientStep, GoesOn
<1>11. \A w \in Threads : NodeOf(w)' = NodeOf(w)
  BY <1>1, <1>8, <1>9 DEF NodeOf
<1>12. \A w \in Threads \ {u} : pc[w] # "idle" => cur[w] \in Nodes \ {n}
  BY <1>0, <1>4 DEF NodesOK
<1>13. ASSUME NEW w \in Threads
       PROVE  IsListed(w)' <=> IsListed(w) /\ w # u
  <2>1. CASE w = u
    <3>1. completed'[cur'[u]] /\ ~locked'[cur'[u]] /\ p'[t] # cur'[u]
      BY <1>3, <1>4, <1>6, <1>8, <1>9
    <3>2. CASE u = t
      BY <1>1, <2>1, <3>1, <3>2 DEF IsListed, CombineLabels
    <3>3. CASE u # t
      BY <1>4, <1>9, <2>1, <3>1, <3>3 DEF IsListed, CombineLabels
    <3>4. QED
      BY <3>2, <3>3
  <2>2. CASE w # u /\ w = t
    <3>1. cur[t] # p[t] /\ ~IsListed(t)
      BY <1>0, <1>1, <1>2, <1>12, <2>2 DEF CombinersOK, CombinerOK, CombineLabels
    <3>2. completed[cur[t]]
      BY <1>1, <3>1 DEF IsListed, CombineLabels
    <3>3. QED
      BY <1>1, <1>8, <2>2, <3>1, <3>2 DEF IsListed, CombineLabels
  <2>3. CASE w # u /\ w # t
    BY <1>8, <1>9, <1>12, <2>3 DEF IsListed, CombineLabels
  <2>4. QED
    BY <2>1, <2>2, <2>3
<1>14. \A w \in Threads : Succ(w)' = Succ(w)
  BY <1>1, <1>8, <1>9 DEF Succ
<1>15. NodesOK'
  BY <1>0, <1>1, <1>8, <1>9, <1>11, SameNodes
<1>16. \A x \in Nodes : InList(x)' <=> InList(x) /\ x # n
  BY <1>4, <1>8, <1>11, <1>13 DEF InList
<1>17. \A h \in Threads : /\ pc'[h] \in CombineLabels <=> pc[h] \in CombineLabels
                          /\ pc'[h] \in CombineLabels \cup {"complete", "release"} /\ h # t
                                 => p'[h] # n /\ p'[h] # m
                          /\ pc'[h] = "release" <=> h # t /\ pc[h] = "release"
                          /\ pc'[h] = "idle" <=> pc[h] = "idle"
                          /\ pc'[h] = "post" <=> pc[h] = "post"
                          /\ pc'[h] \in {"complete", "release"} <=>
                                 h # t /\ pc[h] \in {"complete", "release"}
  BY <1>0, <1>1, <1>2, <1>6, <1>9 DEF CombineLabels, CombinersOK
<1>18. ListOK'
  <2>1. \A w \in Threads : pc'[w] = "post" => next'[cur'[w]] = NULL /\ ~completed'[cur'[w]]
    BY <1>0, <1>8, <1>17 DEF ListOK
  <2>2. ASSUME NEW w \in Threads, IsListed(w)'
        PROVE  /\ Succ(w)' \in Nodes /\ locked'[Succ(w)'] /\ InList(Succ(w))'
               /\ \A h \in Threads : pc'[h] \in CombineLabels => p'[h] # Succ(w)'
    <3>1. /\ Succ(w) \in Nodes /\ locked[Succ(w)] /\ InList(Succ(w)) /\ Succ(w) # n
          /\ Succ(w) # m
          /\ \A h \in Threads : pc[h] \in CombineLabels => p[h] # Succ(w)
          /\ Succ(w)' = Succ(w)
      BY <1>0, <1>6, <1>13, <1>14, <2>2 DEF ListOK
    <3>2. InList(Succ(w))'
      <4>1. PICK x \in Nodes : x = Succ(w)
        BY <3>1
      <4>2. InList(x)'
        BY <1>16, <3>1, <4>1
      <4>3. QED
        BY <3>1, <4>1, <4>2 DEF InList
    <3>3. \A h \in Threads : pc'[h] \in CombineLabels => p'[h] # Succ(w)
      BY <1>9, <1>17, <3>1
    <3>4. QED
      BY <1>9, <3>1, <3>2, <3>3
  <2>3. QED
    BY <1>0, <1>8, <1>13, <1>14, <2>1, <2>2 DEF ListOK
<1>19. CombinersOK'
  <2>1. ASSUME NEW h \in Threads
        PROVE  CombinerOK(h)'
    <3>1. CombinerOK(h) /\ (IsListed(h)' <=> IsListed(h) /\ h # u)
      BY <1>0, <1>13 DEF CombinersOK
    <3>2. CASE h # t
      <4>1. pc[h] \in CombineLabels => p[h] \in Nodes \ {n} /\ h # u
        BY <1>4, <1>9, <1>17, <3>1, <3>2 DEF CombinerOK, CombineLabels
      <4>2. pc[h] \in CombineLabels => InList(p[h])'
        <5>1. SUFFICES ASSUME pc[h] \in CombineLabels
                       PROVE  InList(p[h])'
          OBVIOUS
        <5>2. PICK x \in Nodes : x = p[h] /\ x # n /\ InList(x)
          BY <3>1, <4>1, <5>1 DEF CombinerOK
        <5>3. InList(x)' /\ p'[h] = x
          BY <1>9, <1>16, <3>2, <5>2
        <5>4. QED
          BY <5>3 DEF InList
      <4>3. pc[h] \in {"complete", "release"} => pc[h] \in CombineLabels
        BY DEF CombineLabels
      <4>4. pc[h] \in {"clhSwap", "clhSpin", "combine"} => pc[h] \in CombineLabels
        BY DEF CombineLabels
      <4>5. QED
        BY <1>8, <1>9, <3>1, <3>2, <4>1, <4>2, <4>3, <4>4 DEF CombinerOK
    <3>3. CASE h = t
      <4>1. ~IsListed(t)' /\ counter[t] > 0
        BY <1>0, <1>1, <1>2, <1>4, <1>12, <1>13 DEF CombinersOK, CombinerOK, CombineLabels
      <4>2. InList(p[t])'
        <5>1. InList(m)'
          BY <1>6, <1>16
        <5>2. QED
          BY <1>9, <5>1 DEF InList
      <4>3. counter[t] \in Nat
        BY <1>0 DEF SynchTypeOK
      <4>4. QED
        BY <1>1, <1>6, <1>7, <1>8, <1>9, <3>3, <4>1, <4>2, <4>3 DEF CombinerOK, CombineLabels
    <3>4. QED
      BY <3>2, <3>3
  <2>2. build = ccsynch => \A x \in Nodes : IsHead(x)' => x = m
    <3>1. IsHead(n)
      BY <1>0, <1>1, <1>2 DEF IsHead, CombinersOK, CombinerOK, CombineLabels
    <3>2. ASSUME build = ccsynch, NEW x \in Nodes, IsHead(x)', x # m
          PROVE  FALSE
      <4>1. x # n /\ InList(x)
        BY <1>16, <3>2 DEF IsHead
      <4>2. ~locked[x] \/ \E h \in Threads : pc[h] \in CombineLabels /\ p[h] = x
        <5>1. \A h \in Threads : pc'[h] \in CombineLabels /\ p'[h] = x =>
                  pc[h] \in CombineLabels /\ p[h] = x
          BY <1>9, <1>17, <3>2
        <5>2. QED
          BY <1>9, <3>2, <4>1, <5>1 DEF IsHead
      <4>3. QED
        BY <1>0, <3>1, <3>2, <4>1, <4>2 DEF IsHead, CombinersOK
    <3>3. QED
      BY <3>2
  <2>3. ASSUME NEW w \in Threads, IsListed(w)', completed[cur[w]]
        PROVE  \E h \in Threads : pc'[h] = "release" /\ p'[h] = cur[w]
    <3>1. IsListed(w) /\ cur[w] # n
      BY <1>12, <1>13, <2>3 DEF IsListed, CombineLabels
    <3>2. PICK h \in Threads : pc[h] = "release" /\ p[h] = cur[w]
      BY <1>0, <2>3, <3>1 DEF CombinersOK
    <3>3. h # t
      BY <1>2, <3>1, <3>2
    <3>4. QED
      BY <1>9, <3>2, <3>3
  <2>4. \A h, g \in Threads :
            pc'[h] \in CombineLabels /\ pc'[g] \in CombineLabels /\ p'[h] = p'[g] => h = g
    BY <1>0, <1>9, <1>17 DEF CombinersOK
  <2>5. QED
    BY <1>8, <2>1, <2>2, <2>3, <2>4 DEF CombinersOK
<1>20. ASSUME NEW w \in Threads
       PROVE  OperationOK(w)'
  <2>1. OperationOK(w)
    BY <1>0
  <2>2. pc'[w] \in SynchLabels
        /\ (build' = ccsynch => pc'[w] \notin {"clhSwap", "clhSpin", "clhUnlock"})
    BY <1>1, <1>9, <2>1 DEF OperationOK, SynchLabels, CombineLabels
  <2>3. IsServed(w)' <=> IsServed(w)
    <3>1. CASE w = u
      BY <1>1, <1>2, <1>4, <1>13, <3>1 DEF IsServed
    <3>2. CASE w # u
      <4>1. IsListed(w) => cur[w] # n
        BY <1>12, <3>2 DEF IsListed, CombineLabels
      <4>2. QED
        BY <1>2, <1>8, <1>9, <1>13, <1>17, <3>2, <4>1 DEF IsServed
    <3>3. QED
      BY <3>1, <3>2
  <2>4. QED
    BY <1>8, <1>9, <1>17, <2>1, <2>2, <2>3 DEF OperationOK
<1>21. SynchOK'
  BY <1>9, <1>15, <1>18, <1>19, <1>20 DEF SynchOK
<1>22. QED
  BY <1>10, <1>21

(* At the end of the loop the combiner's own operation has run.             *)
LEMMA PassesOnKeeps ==
    ASSUME ClientsOK, SynchOK, build \in {ccsynch, hsynch}, NEW t \in Threads, PassesOn(t),
           UNCHANGED build
    PROVE  SynchOK' /\ ClientStep(t)
<1>0. /\ ClientsTypeOK /\ SynchTypeOK /\ NodesOK /\ ListOK /\ CombinersOK
      /\ \A u \in Threads : OperationOK(u)
  BY DEF ClientsOK, SynchOK
<1>1. /\ pc[t] = "combine" /\ Moves(t)
      /\ pc'[t] = IF build = hsynch THEN "clhUnlock" ELSE "idle"
  BY <1>0, MoveIs DEF PassesOn, Labels, HolderLabels
<1>2. PICK n \in Nodes : n = p[t]
  BY <1>0, <1>1 DEF CombinersOK, CombinerOK, CombineLabels
<1>3. ~completed[n] /\ InList(n) /\ cur[t] = NodeOf(t) /\ cur[t] \in Nodes
  BY <1>0, <1>1, <1>2 DEF CombinersOK, CombinerOK, CombineLabels, NodesOK
<1>4. ~IsListed(t)
  <2>1. ASSUME IsListed(t)
        PROVE  FALSE
    <3>1. counter[t] = 0 /\ p[t] = cur[t]
      BY <1>0, <1>1, <2>1 DEF CombinersOK, CombinerOK, CombineLabels
    <3>2. next[cur[t]] \in Nodes
      BY <1>0, <1>1, <2>1 DEF ListOK, Succ
    <3>3. next[p[t]] # NULL
      BY <3>1, <3>2, NodesAssumption, ClustersAssumption DEF Nodes
    <3>4. 0 < HelpBound
      BY HelpAssumption
    <3>5. QED
      BY <3>1, <3>3, <3>4 DEF PassesOn, MayHelp
  <2>2. QED
    BY <2>1
<1>5. cur[t] # n /\ completed[cur[t]]
  BY <1>1, <1>2, <1>3, <1>4 DEF IsListed, CombineLabels
<1>6. /\ locked' = [locked EXCEPT ![n] = FALSE]
      /\ counter' = [counter EXCEPT ![t] = 0]
      /\ p' = [p EXCEPT ![t] = NULL]
      /\ UNCHANGED <<Tail_, next, completed, next_node>>
  BY <1>2 DEF PassesOn
<1>7. /\ ~locked'[n] /\ (\A x \in Nodes \ {n} : locked'[x] = locked[x])
      /\ counter'[t] = 0
      /\ \A w \in Threads \ {t} : p'[w] = p[w] /\ pc'[w] = pc[w] /\ counter'[w] = counter[w]
  BY <1>0, <1>1, <1>6 DEF SynchTypeOK, Moves
<1>8. /\ ClientStep(t)
      /\ pending' = pending
      /\ \A w \in Threads \ {t} : /\ request'[w] = request[w] /\ answer'[w] = answer[w]
                                  /\ cur'[w] = cur[w]
      /\ \A x \in Nodes \ {cur[t]} : arg_ret'[x] = arg_ret[x] /\ postedBy'[x] = postedBy[x]
      /\ arg_ret' \in [Nodes -> Int] /\ postedBy' \in [Nodes -> Threads \cup {NULL}]
      /\ cur' \in [Threads -> Nodes \cup {NULL}]
      /\ build = hsynch => request' = request /\ answer' = answer /\ cur' = cur
                           /\ arg_ret' = arg_ret
  <2>1. CASE build = hsynch
    <3>1. UNCHANGED <<arg_ret, postedBy, cur, clientVars>>
      BY <2>1 DEF PassesOn
    <3>2. ClientStep(t)
      BY <1>1, <2>1, <3>1 DEF ClientStep, GoesOn
    <3>3. QED
      BY <1>0, <3>1, <3>2 DEF clientVars, SynchTypeOK
  <2>2. CASE build # hsynch
    <3>1. ReturnAnswer(t) /\ pc'[t] = "idle" /\ pc[t] # "idle" /\ IsServed(t)
      BY <1>1, <1>4, <2>2 DEF PassesOn, IsServed
    <3>2. QED
      BY <1>1, <2>2, <3>1, AnswerReturns
  <2>3. QED
    BY <2>1, <2>2
<1>9. SynchTypeOK'
  BY <1>0, <1>6, <1>8 DEF SynchTypeOK
<1>10. \A w \in Threads \ {t} : pc[w] # "idle" => cur[w] \in Nodes \ {cur[t]}
  BY <1>0, <1>3 DEF NodesOK
<1>11. \A w \in Threads : NodeOf(w)' = NodeOf(w)
  BY <1>1, <1>6, <1>7, <1>8 DEF NodeOf
<1>12. ASSUME NEW w \in Threads
       PROVE  IsListed(w)' <=> IsListed(w)
  <2>1. CASE w = t
    BY <1>1, <1>4, <2>1 DEF IsListed, CombineLabels
  <2>2. CASE w # t
    <3>1. pc[w] # "idle" => (locked'[cur[w]] \/ ~completed[cur[w]] <=> locked[cur[w]] \/ ~completed[cur[w]])
      BY <1>3, <1>7, <1>10, <2>2
    <3>2. pc'[w] = pc[w] /\ cur'[w] = cur[w] /\ p'[w] = p[w] /\ completed' = completed
      BY <1>6, <1>7, <1>8, <2>2
    <3>3. QED
      BY <3>1, <3>2 DEF IsListed, CombineLabels
  <2>3. QED
    BY <2>1, <2>2
<1>13. \A w \in Threads : IsListed(w) => Succ(w)' = Succ(w)
  BY <1>4, <1>6, <1>7, <1>8 DEF Succ
<1>14. \A w \in Threads : pc'[w] # "idle" => pc[w] # "idle" /\ cur'[w] = cur[w]
  BY <1>1, <1>7, <1>8
<1>15. NodesOK' /\ \A x \in Nodes : InList(x)' <=> InList(x)
  BY <1>0, <1>6, <1>11, <1>12, <1>14, SameNodes
<1>16. \A h \in Threads : /\ pc'[h] \in CombineLabels <=> h # t /\ pc[h] \in CombineLabels
                          /\ pc'[h] \in CombineLabels => p'[h] = p[h] /\ p[h] # n
                          /\ pc'[h] = "release" <=> pc[h] = "release"
                          /\ pc'[h] = "post" <=> pc[h] = "post"
                          /\ pc'[h] \in {"complete", "release"} <=> pc[h] \in {"complete", "release"}
  BY <1>0, <1>1, <1>2, <1>7 DEF CombineLabels, CombinersOK
<1>17. ListOK'
  <2>1. \A w \in Threads : pc'[w] = "post" => next'[cur'[w]] = NULL /\ ~completed'[cur'[w]]
    BY <1>0, <1>6, <1>14, <1>16 DEF ListOK
  <2>2. ASSUME NEW w \in Threads, IsListed(w)
        PROVE  locked'[Succ(w)]
    <3>1. Succ(w) \in Nodes /\ locked[Succ(w)] /\ Succ(w) # n
      BY <1>0, <1>1, <1>2, <2>2 DEF ListOK, CombineLabels
    <3>2. QED
      BY <1>7, <3>1
  <2>3. QED
    BY <1>0, <1>6, <1>12, <1>13, <1>15, <1>16, <2>1, <2>2 DEF ListOK
<1>18. CombinersOK'
  <2>1. ASSUME NEW h \in Threads
        PROVE  CombinerOK(h)'
    <3>1. CombinerOK(h) /\ (IsListed(h)' <=> IsListed(h)) /\ \A x \in Nodes : InList(x)' <=> InList(x)
      BY <1>0, <1>12, <1>15 DEF CombinersOK
    <3>2. CASE h # t
      <4>1. pc[h] \in CombineLabels => p[h] \in Nodes \ {n}
        BY <1>16, <3>1, <3>2 DEF CombinerOK
      <4>2. QED
        BY <1>6, <1>7, <1>8, <3>1, <3>2, <4>1 DEF CombinerOK
    <3>3. CASE h = t
      BY <1>1, <1>7, <3>3 DEF CombinerOK, CombineLabels
    <3>4. QED
      BY <3>2, <3>3
  <2>2. \A x \in Nodes : IsHead(x)' => IsHead(x)
    <3>1. IsHead(n)
      BY <1>1, <1>2, <1>3 DEF IsHead, CombineLabels
    <3>2. QED
      BY <1>7, <1>15, <1>16, <3>1 DEF IsHead
  <2>3. \A w \in Threads : IsListed(w)' /\ completed'[cur'[w]] =>
            \E h \in Threads : pc'[h] = "release" /\ p'[h] = cur'[w]
    <3>1. \A w \in Threads : IsListed(w) => w # t /\ cur'[w] = cur[w]
      BY <1>4, <1>8
    <3>2. QED
      BY <1>0, <1>1, <1>6, <1>7, <1>12, <3>1 DEF CombinersOK
  <2>4. QED
    BY <1>0, <1>16, <2>1, <2>2, <2>3 DEF CombinersOK
<1>19. ASSUME NEW w \in Threads
       PROVE  OperationOK(w)'
  <2>1. OperationOK(w)
    BY <1>0
  <2>2. pc'[w] \in SynchLabels
        /\ (build' = ccsynch => pc'[w] \notin {"clhSwap", "clhSpin", "clhUnlock"})
    <3>1. build = ccsynch => build # hsynch
      BY DEF ccsynch, hsynch
    <3>2. pc'[w] = "idle" \/ (pc'[w] = "clhUnlock" /\ build = hsynch) \/ pc'[w] = pc[w]
      BY <1>1, <1>7
    <3>3. QED
      BY <2>1, <3>1, <3>2 DEF OperationOK, SynchLabels
  <2>3. CASE w = t
    <3>1. IsServed(t) /\ IsServed(t)'
      BY <1>4, <1>12 DEF IsServed
    <3>2. pc'[t] # "idle" => build = hsynch
      BY <1>1
    <3>3. QED
      BY <1>1, <1>8, <2>1, <2>2, <2>3, <3>1, <3>2 DEF OperationOK
  <2>4. CASE w # t
    <3>1. IsServed(w)' <=> IsServed(w)
      BY <1>1, <1>7, <1>8, <1>12, <1>16, <2>4 DEF IsServed
    <3>2. ~IsServed(w) => pc[w] # "idle"
      BY DEF IsServed, IsListed, CombineLabels
    <3>3. pc'[w] = pc[w]
      BY <1>7, <2>4
    <3>4. QED
      BY <1>8, <1>10, <2>1, <2>2, <2>4, <3>1, <3>2, <3>3 DEF OperationOK
  <2>5. QED
    BY <2>3, <2>4
<1>20. SynchOK'
  BY <1>9, <1>15, <1>17, <1>18, <1>19 DEF SynchOK
<1>21. QED
  BY <1>8, <1>20

LEMMA SynchStepKeeps ==
    ASSUME ClientsOK, SynchOK, build \in {ccsynch, hsynch}, build = hsynch => CLHQueueOK,
           NEW t \in Threads, SynchStep(t), UNCHANGED build
    PROVE  SynchOK' /\ (build = hsynch => CLHQueueOK') /\ ClientStep(t)
<1>0. ClientsTypeOK /\ pc \in [Threads -> Labels] /\ SynchTypeOK /\ OperationOK(t)
      /\ (build = ccsynch => build # hsynch)
  BY DEF ClientsOK, ClientsTypeOK, SynchOK, ccsynch, hsynch
<1> DEFINE KeepsHolder ==
        \A u \in Threads : /\ pc'[u] \in CLHHoldLabels <=> pc[u] \in CLHHoldLabels
                           /\ pc'[u] = "clhSpin" <=> pc[u] = "clhSpin"
<1>1. ASSUME Moves(t), KeepsHolder, UNCHANGED clhVars
      PROVE  build = hsynch => CLHQueueOK'
  <2>1. UNCHANGED <<clhTail, clhLocked, MyNode, MyPred>> /\ found' = found
        /\ pc' \in [Threads -> Labels]
    BY <1>1 DEF clhVars, Moves
  <2>2. QED
    BY <1>0, <1>1, <2>1, OtherStepKeepsQueue DEF CLHQueueOK, CLHTypeOK
<1>2. CASE Posts(t) /\ UNCHANGED clhVars
  <2>1. pc[t] = "post" /\ pc'[t] = "spin" /\ Moves(t)
    BY <1>0, <1>2, MoveIs DEF Posts, Labels
  <2>2. KeepsHolder
    BY <2>1 DEF Moves, CLHHoldLabels
  <2>3. QED
    BY <1>1, <1>2, <2>1, <2>2, PostsKeeps
<1>3. CASE Helped(t) /\ UNCHANGED clhVars
  <2>1. pc[t] = "spin" /\ pc'[t] = "idle" /\ Moves(t)
    BY <1>0, <1>3, MoveIs DEF Helped, Labels
  <2>2. KeepsHolder
    BY <2>1 DEF Moves, CLHHoldLabels
  <2>3. QED
    BY <1>1, <1>3, <2>1, <2>2, HelpedKeeps
<1>4. CASE Combines(t) /\ UNCHANGED clhVars
  <2>1. pc[t] = "spin" /\ Moves(t)
        /\ pc'[t] = IF build = hsynch THEN "clhSwap" ELSE "combine"
    BY <1>0, <1>4, MoveIs DEF Combines, Labels, HolderLabels
  <2>2. build = hsynch => KeepsHolder
    BY <2>1 DEF Moves, CLHHoldLabels
  <2>3. cur[t] \in Nodes
    BY <2>1 DEF SynchOK, NodesOK
  <2>4. p' = [p EXCEPT ![t] = cur[t]]
    BY <1>4 DEF Combines
  <2>5. /\ p'[t] = cur[t] /\ (\A u \in Threads \ {t} : p'[u] = p[u])
        /\ p' \in [Threads -> Nodes \cup {NULL}]
    BY <1>0, <2>3, <2>4 DEF SynchTypeOK
  <2>6. SynchOK' /\ ClientStep(t)
    BY <1>0, <1>4, <2>1, <2>5, CombiningGoesOn DEF Combines
  <2>7. QED
    BY <1>1, <1>4, <2>1, <2>2, <2>6
<1>5. CASE Helps(t) /\ UNCHANGED clhVars
  <2>1. pc[t] = "combine" /\ pc'[t] = "complete" /\ Moves(t)
    BY <1>0, <1>5, MoveIs DEF Helps, Labels, HolderLabels
  <2>2. KeepsHolder
    BY <2>1 DEF Moves, CLHHoldLabels
  <2>3. QED
    BY <1>1, <1>5, <2>1, <2>2, HelpsKeeps
<1>6. CASE Completes(t) /\ UNCHANGED clhVars
  <2>1. pc[t] = "complete" /\ pc'[t] = "release" /\ Moves(t)
    BY <1>0, <1>6, MoveIs DEF Completes, Labels, HolderLabels
  <2>2. KeepsHolder
    BY <2>1 DEF Moves, CLHHoldLabels
  <2>3. QED
    BY <1>1, <1>6, <2>1, <2>2, CompletesKeeps
<1>7. CASE Releases(t) /\ UNCHANGED clhVars
  <2>1. pc[t] = "release" /\ pc'[t] = "combine" /\ Moves(t)
    BY <1>0, <1>7, MoveIs DEF Releases, Labels, HolderLabels
  <2>2. KeepsHolder
    BY <2>1 DEF Moves, CLHHoldLabels
  <2>3. QED
    BY <1>1, <1>7, <2>1, <2>2, ReleasesKeeps
<1>8. CASE PassesOn(t) /\ UNCHANGED clhVars
  <2>1. pc[t] = "combine" /\ Moves(t)
        /\ pc'[t] = IF build = hsynch THEN "clhUnlock" ELSE "idle"
    BY <1>0, <1>8, MoveIs DEF PassesOn, Labels, HolderLabels
  <2>2. build = hsynch => KeepsHolder
    BY <2>1 DEF Moves, CLHHoldLabels
  <2>3. QED
    BY <1>1, <1>8, <2>1, <2>2, PassesOnKeeps
<1>9. CASE CLHSwap(t, "clhSwap") /\ UNCHANGED <<synchVars, clientVars>>
  <2>1. pc[t] = "clhSwap" /\ pc'[t] = "clhSpin" /\ Moves(t)
    BY <1>0, <1>9, MoveIs DEF CLHSwap, Labels
  <2>2. build = hsynch
    BY <1>0, <2>1 DEF OperationOK
  <2>3. CLHQueueOK'
    BY <1>0, <1>9, <2>2, CLHSwapKeepsQueue DEF CLHLabels, CLHHoldLabels
  <2>4. SynchOK' /\ ClientStep(t)
    BY <1>0, <1>9, <2>1, <2>2, CombiningGoesOn DEF synchVars, SynchTypeOK
  <2>5. QED
    BY <2>3, <2>4
<1>10. CASE CLHSpin(t, "combine") /\ UNCHANGED <<synchVars, clientVars>>
  <2>1. pc[t] = "clhSpin" /\ pc'[t] = "combine" /\ Moves(t)
    BY <1>0, <1>10, MoveIs DEF CLHSpin, Labels, HolderLabels
  <2>2. build = hsynch
    BY <1>0, <2>1 DEF OperationOK
  <2>3. CLHQueueOK'
    BY <1>0, <1>10, <2>2, CLHSpinKeepsQueue DEF CLHHoldLabels
  <2>4. SynchOK' /\ ClientStep(t)
    BY <1>0, <1>10, <2>1, <2>2, CombiningGoesOn DEF synchVars, SynchTypeOK
  <2>5. QED
    BY <2>3, <2>4
<1>11. CASE EndsCombining(t)
  <2>1. pc[t] = "clhUnlock"
    BY <1>11 DEF EndsCombining, CLHUnlock, Move
  <2>2. build = hsynch
    BY <1>0, <2>1 DEF OperationOK
  <2>3. QED
    BY <1>11, <2>2, EndsCombiningKeeps
<1>12. QED
  BY <1>2, <1>3, <1>4, <1>5, <1>6, <1>7, <1>8, <1>9, <1>10, <1>11 DEF SynchStep

(****************************************************************************)
(* Oyama's lock. Every context that was ever inserted has a position, in    *)
(* the order of the insertions: L is the context and N its operation's      *)
(* number among those of its thread, of which D have run. The positions     *)
(*     lo .. a-1   are on the list that the holder turns round,             *)
(*      a .. b-1   are in its batch, and                                    *)
(*      b .. hi-1  are on the list that starts at the lock word;            *)
(* the operations from position s on have yet to run.                       *)
(****************************************************************************)
OyamaHoldLabels == {"own", "ownContext", "release", "grab", "reverse", "serve", "giveBack"}

ContextLabels == {"insert", "insertSwap", "ownContext"}

UnlistedLabels == {"own", "make"} \cup ContextLabels

RanLabels == {"release", "grab", "reverse", "serve", "giveBack"}

OyamaLabels == {"idle", "await", "make", "insert", "insertSwap"} \cup OyamaHoldLabels

OyamaTypeOK ==
    /\ lockWord \in Contexts \cup {FREE, LOCKED}
    /\ free \in [Contexts -> BOOLEAN]
    /\ rest \in [Contexts -> Contexts \cup {LOCKED}]
    /\ data \in [Contexts -> Int]
    /\ context \in [Threads -> Contexts]
    /\ lockWordValue \in [Threads -> Contexts \cup {FREE, LOCKED}]
    /\ reversing \in [Threads -> Contexts \cup {LOCKED}]
    /\ batch \in [Threads -> Seq(Contexts)]
    /\ response \in [Threads -> Int]

(* The number of operations of a thread that are on a list or in a batch.   *)
Listed(t) == IF pc[t] \in UnlistedLabels THEN Len(pending[t]) - 1 ELSE Len(pending[t])

OyamaThreadOK(t) ==
    /\ pc[t] \in OyamaLabels
    /\ pc[t] \in ContextLabels =>
           context[t][1] = t /\ ~free[context[t]] /\ data[context[t]] = request[t]
    /\ pc[t] = "insertSwap" /\ lockWordValue[t] # FREE => rest[context[t]] = lockWordValue[t]
    /\ pc[t] \in UnlistedLabels =>
           pending[t] # <<>> /\ pending[t][Len(pending[t])] = request[t]
    /\ pc[t] \in {"own", "ownContext"} => Len(pending[t]) = 1
    /\ pc[t] \in RanLabels => pending[t] = <<>>
    /\ pc[t] \in RanLabels /\ request[t] = DEQUEUE => response[t] = answer[t]
    /\ pc[t] = "await" => request[t] = DEQUEUE
    /\ response[t] # 0 =>
           request[t] = DEQUEUE /\ pending[t] = <<>> /\ response[t] = answer[t]

IsChain(L, from, to) ==
    /\ from < to => rest[L[from]] = LOCKED
    /\ \A i \in from + 1 .. to - 1 : rest[L[i]] = L[i - 1]

LinkedOK(L, lo, a, b, hi) ==
    /\ lo <= a /\ a <= b /\ b <= hi
    /\ \A i \in lo .. hi - 1 : ~free[L[i]]
    /\ \A i, j \in lo .. hi - 1 : i # j => L[i] # L[j]
    /\ IsChain(L, lo, a)
    /\ IsChain(L, b, hi)
    /\ \A t \in Threads : pc[t] \in ContextLabels =>
           \A i \in lo .. hi - 1 : context[t] # L[i]

HolderOK(L, lo, a, b, hi, h) ==
    /\ pc[h] = "grab" => b < hi
    /\ pc[h] \notin {"reverse", "serve", "giveBack"} => lo = b
    /\ pc[h] = "reverse" <=> lo < a
    /\ pc[h] = "reverse" => reversing[h] = L[a - 1]
    /\ pc[h] \in {"serve", "giveBack"} => lo < b
    /\ Len(batch[h]) = b - a
    /\ \A i \in 1 .. b - a : batch[h][i] = L[a + i - 1]

Start(lo) == IF \E h \in Threads : pc[h] = "giveBack" THEN lo + 1 ELSE lo

Word(L, b, hi) == IF b = hi THEN LOCKED ELSE L[hi - 1]

HeldOK(L, lo, a, b, s, hi) ==
    /\ lockWord = FREE => lo = hi /\ \A h \in Threads : pc[h] \notin OyamaHoldLabels
    /\ lockWord # FREE =>
           lockWord = Word(L, b, hi) /\ \E h \in Threads : pc[h] \in OyamaHoldLabels
    /\ \A h, g \in Threads : pc[h] \in OyamaHoldLabels /\ pc[g] \in OyamaHoldLabels => h = g
    /\ s = Start(lo)
    /\ \A h \in Threads : pc[h] \in OyamaHoldLabels => HolderOK(L, lo, a, b, hi, h)
    /\ \A h \in Threads : pc[h] \notin OyamaHoldLabels => batch[h] = <<>>

OwedOK(L, N, D, s, hi) ==
    /\ \A i \in s .. hi - 1 :
           /\ N[i] \in D[L[i][1]] + 1 .. D[L[i][1]] + Listed(L[i][1])
           /\ data[L[i]] = pending[L[i][1]][N[i] - D[L[i][1]]]
    /\ \A i, j \in s .. hi - 1 : i < j /\ L[i][1] = L[j][1] => N[i] < N[j]
    /\ \A t \in Threads : \A k \in D[t] + 1 .. D[t] + Listed(t) :
           \E i \in s .. hi - 1 : L[i][1] = t /\ N[i] = k

ListsOK(L, N, D, lo, a, b, s, hi) ==
    LinkedOK(L, lo, a, b, hi) /\ HeldOK(L, lo, a, b, s, hi) /\ OwedOK(L, N, D, s, hi)

OyamaOK ==
    /\ OyamaTypeOK
    /\ \A t \in Threads : OyamaThreadOK(t)
    /\ \E L \in [Nat -> Contexts], N \in [Nat -> Nat], D \in [Threads -> Nat],
          lo, a, b, s, hi \in Nat : ListsOK(L, N, D, lo, a, b, s, hi)

LEMMA SameLinks ==
    ASSUME NEW L \in [Nat -> Contexts], NEW lo \in Nat, NEW a \in Nat, NEW b \in Nat,
           NEW hi \in Nat, LinkedOK(L, lo, a, b, hi),
           \A i \in lo .. hi - 1 : free'[L[i]] = free[L[i]] /\ rest'[L[i]] = rest[L[i]],
           \A t \in Threads : pc'[t] \in ContextLabels =>
               \A i \in lo .. hi - 1 : context'[t] # L[i]
    PROVE  LinkedOK(L, lo, a, b, hi)'
BY DEF LinkedOK, IsChain

LEMMA OwnerIsThread ==
    ASSUME NEW c \in Contexts
    PROVE  c[1] \in Threads
BY DEF Contexts

LEMMA ListedIs ==
    ASSUME ClientsTypeOK, NEW t \in Threads
    PROVE  /\ pending[t] \in Seq(Args) /\ Len(pending[t]) \in Nat
           /\ Listed(t) \in Int /\ Listed(t) <= Len(pending[t])
           /\ pc[t] \in UnlistedLabels => Listed(t) = Len(pending[t]) - 1
           /\ pc[t] \notin UnlistedLabels => Listed(t) = Len(pending[t])
BY DEF ClientsTypeOK, Listed

LEMMA SameOwed ==
    ASSUME ClientsTypeOK,
           NEW L \in [Nat -> Contexts], NEW N \in [Nat -> Nat], NEW D \in [Threads -> Nat],
           NEW s \in Nat, NEW hi \in Nat, OwedOK(L, N, D, s, hi),
           \A i \in s .. hi - 1 : data'[L[i]] = data[L[i]],
           \A t \in Threads : /\ Listed(t)' = Listed(t)
                              /\ \A k \in 1 .. Listed(t) : pending'[t][k] = pending[t][k]
    PROVE  OwedOK(L, N, D, s, hi)'
<1>1. ASSUME NEW i \in s .. hi - 1
      PROVE  /\ N[i] \in D[L[i][1]] + 1 .. D[L[i][1]] + Listed(L[i][1])'
             /\ data'[L[i]] = pending'[L[i][1]][N[i] - D[L[i][1]]]
  <2>1. PICK u \in Threads : u = L[i][1]
    BY OwnerIsThread
  <2>2. N[i] \in D[u] + 1 .. D[u] + Listed(u) /\ data[L[i]] = pending[u][N[i] - D[u]]
    BY <2>1 DEF OwedOK
  <2>3. N[i] \in Nat /\ D[u] \in Nat
    OBVIOUS
  <2>4. Listed(u) \in Int
    BY ListedIs
  <2>5. QED
    BY <2>1, <2>2, <2>3, <2>4
<1>2. QED
  BY <1>1 DEF OwedOK

(* While the lock is free no operation is on its way.                       *)
LEMMA FreeLockOwesNone ==
    ASSUME ClientsOK, OyamaOK, lockWord = FREE, NEW t \in Threads
    PROVE  Listed(t) <= 0
<1>1. PICK L \in [Nat -> Contexts], N \in [Nat -> Nat], D \in [Threads -> Nat],
           lo \in Nat, a \in Nat, b \in Nat, s \in Nat, hi \in Nat :
           ListsOK(L, N, D, lo, a, b, s, hi)
  BY DEF OyamaOK
<1>2. s = lo /\ lo = hi
  BY <1>1 DEF ListsOK, HeldOK, HolderOK, Start, Word, OyamaHoldLabels
<1>3. D[t] + 1 \notin D[t] + 1 .. D[t] + Listed(t)
  BY <1>1, <1>2 DEF ListsOK, OwedOK
<1>4. Listed(t) \in Int /\ D[t] \in Nat
  BY ListedIs DEF ClientsOK
<1>5. QED
  BY <1>3, <1>4

LEMMA OyamaCallKeeps ==
    ASSUME ClientsOK, OyamaOK, build \in {oyama, oyamaopt}, NEW t \in Threads,
           NEW arg \in Args, OyamaCall(t, arg), UNCHANGED build
    PROVE  OyamaOK' /\ ClientStep(t)
<1>0. ClientsTypeOK /\ OyamaTypeOK /\ \A u \in Threads : OyamaThreadOK(u)
  BY DEF ClientsOK, OyamaOK
<1>1. /\ pc[t] = "idle" /\ Moves(t)
      /\ pc'[t] = IF lockWord = FREE THEN "own" ELSE "make"
  BY <1>0, MoveIs DEF Labels, HolderLabels, OyamaCall
<1>2. /\ pending'[t] = Append(pending[t], arg) /\ request'[t] = arg
      /\ answer' = answer
      /\ \A u \in Threads \ {t} : pending'[u] = pending[u] /\ request'[u] = request[u]
  BY <1>0, BeginIs DEF OyamaCall
<1>3. /\ lockWord' = IF lockWord = FREE THEN LOCKED ELSE lockWord
      /\ UNCHANGED <<free, rest, data, currentContext, context, lockWordValue, reversing,
                     batch, response>>
      /\ \A u \in Threads \ {t} : pc'[u] = pc[u]
  BY <1>1 DEF OyamaCall, Moves
<1>4. /\ pending[t] \in Seq(Args) /\ Listed(t) = Len(pending[t])
      /\ request[t] = 0 /\ response[t] = 0
  BY <1>0, <1>1, ListedIs, ArgsAreNumbers
     DEF UnlistedLabels, ContextLabels, ClientsOK, ClientOK, OyamaThreadOK
<1>5. /\ Len(pending'[t]) = Len(pending[t]) + 1 /\ pending'[t][Len(pending[t]) + 1] = arg
      /\ pending'[t] # <<>>
      /\ \A k \in 1 .. Len(pending[t]) : pending'[t][k] = pending[t][k]
  BY <1>2, <1>4
<1>6. lockWord = FREE => Len(pending[t]) = 0
  BY <1>4, FreeLockOwesNone
<1>7. ASSUME NEW u \in Threads
      PROVE  /\ Listed(u)' = Listed(u)
             /\ \A k \in 1 .. Listed(u) : pending'[u][k] = pending[u][k]
  <2>1. CASE u = t
    BY <1>1, <1>4, <1>5, <2>1 DEF Listed, UnlistedLabels
  <2>2. CASE u # t
    BY <1>2, <1>3, <2>2 DEF Listed
  <2>3. QED
    BY <2>1, <2>2
<1>8. ASSUME NEW u \in Threads
      PROVE  OyamaThreadOK(u)'
  <2>1. OyamaThreadOK(u)
    BY <1>0
  <2>2. CASE u = t
    <3>1. pending'[t][Len(pending'[t])] = request'[t] /\ response'[t] = 0
      BY <1>2, <1>3, <1>4, <1>5
    <3>2. (pc'[t] = "own" /\ Len(pending'[t]) = 1) \/ pc'[t] = "make"
      BY <1>1, <1>5, <1>6
    <3>3. QED
      BY <1>5, <2>2, <3>1, <3>2
         DEF OyamaThreadOK, OyamaLabels, OyamaHoldLabels, ContextLabels, RanLabels
  <2>3. CASE u # t
    BY <1>2, <1>3, <2>1, <2>3 DEF OyamaThreadOK
  <2>4. QED
    BY <2>2, <2>3
<1>9. PICK L \in [Nat -> Contexts], N \in [Nat -> Nat], D \in [Threads -> Nat],
           lo \in Nat, a \in Nat, b \in Nat, s \in Nat, hi \in Nat :
           ListsOK(L, N, D, lo, a, b, s, hi)
  BY DEF OyamaOK
<1>10. LinkedOK(L, lo, a, b, hi)'
  <2>1. LinkedOK(L, lo, a, b, hi)
    BY <1>9 DEF ListsOK
  <2>2. \A u \in Threads : pc'[u] \in ContextLabels =>
            \A i \in lo .. hi - 1 : context'[u] # L[i]
    BY <1>1, <1>3, <2>1 DEF ContextLabels, LinkedOK
  <2>3. QED
    BY <1>3, <2>1, <2>2, SameLinks
<1>11. HeldOK(L, lo, a, b, s, hi)'
  <2>1. HeldOK(L, lo, a, b, s, hi) /\ lo <= a /\ a <= b /\ b <= hi
    BY <1>9 DEF ListsOK, LinkedOK
  <2>2. \A u \in Threads : pc'[u] = "giveBack" <=> pc[u] = "giveBack"
    BY SMTT(30), <1>1, <1>3
  <2>3. CASE lockWord = FREE
    <3>1. lo = hi /\ lo = a /\ a = b
      <4>1. lo = hi
        BY <2>1, <2>3 DEF HeldOK
      <4>2. lo <= a /\ a <= b /\ b <= hi
        BY <2>1
      <4>3. QED
        BY <4>1, <4>2
    <3>2. \A h \in Threads : pc[h] \notin OyamaHoldLabels /\ batch[h] = <<>>
      BY <2>1, <2>3 DEF HeldOK
    <3>3. ~\E h \in Threads : pc[h] = "giveBack"
      BY <3>2 DEF OyamaHoldLabels
    <3>4. s = lo
      BY <2>1, <3>3 DEF HeldOK, Start
    <3>5. /\ lo = hi /\ lo = a /\ a = b /\ s = lo /\ lockWord' = LOCKED
          /\ \A h \in Threads : pc[h] \notin OyamaHoldLabels /\ batch[h] = <<>>
          /\ \A h \in Threads : pc'[h] \in OyamaHoldLabels <=> h = t
          /\ pc'[t] = "own" /\ LOCKED # FREE
      BY <1>1, <1>3, <2>3, <3>1, <3>2, <3>4, FlagsAssumption DEF OyamaHoldLabels
    <3>6. /\ \A h \in Threads : pc'[h] # "giveBack" /\ batch'[h] = <<>> /\ Len(batch'[h]) = 0
          /\ b - a = 0 /\ ~(lo < a) /\ ~(b < hi)
          /\ pc'[t] # "reverse" /\ pc'[t] \notin {"serve", "giveBack"} /\ pc'[t] # "grab"
      BY SMTT(30), <1>3, <2>1, <2>2, <3>5 DEF OyamaHoldLabels
    <3>7. /\ HolderOK(L, lo, a, b, hi, t)'
          /\ s = Start(lo)'
          /\ lockWord' = Word(L, b, hi)'
      <4>1. HolderOK(L, lo, a, b, hi, t)'
        <5>1. \A i \in 1 .. b - a : batch'[t][i] = L[a + i - 1]
          BY <3>6
        <5>2. QED
          BY <3>5, <3>6, <5>1 DEF HolderOK
      <4>2. s = Start(lo)'
        BY <3>5, <3>6 DEF Start
      <4>3. lockWord' = Word(L, b, hi)'
        BY <3>5 DEF Word
      <4>4. QED
        BY <4>1, <4>2, <4>3
    <3>8. QED
      BY <3>5, <3>6, <3>7 DEF HeldOK
  <2>4. CASE lockWord # FREE
    <3>1. pc[t] \notin OyamaHoldLabels /\ pc'[t] \notin OyamaHoldLabels
      BY <1>1, <2>4 DEF OyamaHoldLabels
    <3>2. QED
      BY <1>3, <2>1, <2>2, <2>4, <3>1 DEF HeldOK, HolderOK, Start, Word
  <2>5. QED
    BY <2>3, <2>4
<1>12. OwedOK(L, N, D, s, hi)'
  BY <1>0, <1>3, <1>7, <1>9, SameOwed DEF ListsOK
<1>13. OyamaOK'
  <2>1. OyamaTypeOK'
    BY <1>0, <1>3 DEF OyamaTypeOK
  <2>2. ListsOK(L, N, D, lo, a, b, s, hi)'
    BY <1>10, <1>11, <1>12 DEF ListsOK
  <2>3. QED
    BY <1>8, <2>1, <2>2 DEF OyamaOK
<1>14. ClientStep(t)
  BY <1>1 DEF OyamaCall, ClientStep, Calls
<1>15. QED
  BY <1>13, <1>14

(* A context that is nobody's but the thread's: a spare one, or the one it  *)
(* is to insert.                                                            *)
IsOwn(t, c) ==
    /\ c[1] = t
    /\ free[c] \/ (pc[t] \in ContextLabels /\ context[t] = c)

LEMMA SameHeld ==
    ASSUME NEW L \in [Nat -> Contexts], NEW lo \in Nat, NEW a \in Nat, NEW b \in Nat,
           NEW s \in Nat, NEW hi \in Nat, HeldOK(L, lo, a, b, s, hi),
           UNCHANGED <<lockWord, reversing, batch>>,
           \A u \in Threads : /\ pc'[u] = "giveBack" <=> pc[u] = "giveBack"
                              /\ pc'[u] \in OyamaHoldLabels <=> pc[u] \in OyamaHoldLabels
                              /\ pc[u] \in OyamaHoldLabels => pc'[u] = pc[u]
    PROVE  HeldOK(L, lo, a, b, s, hi)'
<1>1. /\ lockWord' = FREE => lo = hi /\ \A h \in Threads : pc'[h] \notin OyamaHoldLabels
      /\ lockWord' # FREE =>
           lockWord' = Word(L, b, hi)' /\ \E h \in Threads : pc'[h] \in OyamaHoldLabels
      /\ \A h, g \in Threads : pc'[h] \in OyamaHoldLabels /\ pc'[g] \in OyamaHoldLabels => h = g
      /\ s = Start(lo)'
  BY DEF HeldOK, Start, Word
<1>2. ASSUME NEW h \in Threads, pc'[h] \in OyamaHoldLabels
      PROVE  HolderOK(L, lo, a, b, hi, h)'
  <2>1. pc'[h] = pc[h] /\ pc[h] \in OyamaHoldLabels /\ reversing' = reversing /\ batch' = batch
    BY <1>2
  <2>2. QED
    BY <2>1 DEF HeldOK, HolderOK, Start, Word
<1>3. \A h \in Threads : pc'[h] \notin OyamaHoldLabels => batch'[h] = <<>>
  BY DEF HeldOK, HolderOK, Start, Word
<1>4. QED
  BY <1>1, <1>2, <1>3 DEF HeldOK

(* A step of a thread that does not have the lock, neither before nor after *)
(* it, and does not insert.                                                 *)
LEMMA OyamaOutsideKeeps ==
    ASSUME ClientsOK, OyamaOK, NEW t \in Threads, Moves(t),
           pc[t] \notin OyamaHoldLabels, pc'[t] \notin OyamaHoldLabels,
           UNCHANGED <<lockWord, reversing, batch>>,
           \A c \in Contexts :
               (free'[c] = free[c] /\ rest'[c] = rest[c] /\ data'[c] = data[c]) \/ IsOwn(t, c),
           pc'[t] \in ContextLabels => IsOwn(t, context'[t]),
           pending' = pending, Listed(t)' = Listed(t),
           \A u \in Threads \ {t} : /\ context'[u] = context[u] /\ response'[u] = response[u]
                                    /\ lockWordValue'[u] = lockWordValue[u]
                                    /\ request'[u] = request[u] /\ answer'[u] = answer[u],
           OyamaTypeOK', OyamaThreadOK(t)'
    PROVE  OyamaOK'
<1>0. ClientsTypeOK /\ OyamaTypeOK /\ \A u \in Threads : OyamaThreadOK(u)
  BY DEF ClientsOK, OyamaOK
<1>1. \A u \in Threads \ {t} : pc'[u] = pc[u]
  BY DEF Moves
<1>2. ASSUME NEW u \in Threads \ {t}
      PROVE  OyamaThreadOK(u)'
  <2>1. OyamaThreadOK(u) /\ context[u] \in Contexts
    BY <1>0 DEF OyamaTypeOK
  <2>2. pc[u] \in ContextLabels =>
            /\ free'[context[u]] = free[context[u]]
            /\ rest'[context[u]] = rest[context[u]]
            /\ data'[context[u]] = data[context[u]]
    BY <2>1 DEF IsOwn, OyamaThreadOK
  <2>3. pc[u] = "insertSwap" => pc[u] \in ContextLabels
    BY DEF ContextLabels
  <2>4. QED
    BY <1>1, <2>1, <2>2, <2>3 DEF OyamaThreadOK
<1>3. PICK L \in [Nat -> Contexts], N \in [Nat -> Nat], D \in [Threads -> Nat],
           lo \in Nat, a \in Nat, b \in Nat, s \in Nat, hi \in Nat :
           ListsOK(L, N, D, lo, a, b, s, hi)
  BY DEF OyamaOK
<1>4. ASSUME NEW i \in lo .. hi - 1
      PROVE  ~IsOwn(t, L[i])
  BY <1>3 DEF ListsOK, LinkedOK, IsOwn
<1>5. \A i \in lo .. hi - 1 :
          free'[L[i]] = free[L[i]] /\ rest'[L[i]] = rest[L[i]] /\ data'[L[i]] = data[L[i]]
  BY <1>4
<1>6. LinkedOK(L, lo, a, b, hi)'
  <2>1. LinkedOK(L, lo, a, b, hi)
    BY <1>3 DEF ListsOK
  <2>2. \A u \in Threads : pc'[u] \in ContextLabels =>
            \A i \in lo .. hi - 1 : context'[u] # L[i]
    BY <1>1, <1>4, <2>1 DEF LinkedOK
  <2>3. QED
    BY <1>5, <2>1, <2>2, SameLinks
<1>7. HeldOK(L, lo, a, b, s, hi)'
  <2>1. HeldOK(L, lo, a, b, s, hi)
    BY <1>3 DEF ListsOK
  <2>2. \A u \in Threads : pc'[u] = pc[u] \/ (pc[u] \notin OyamaHoldLabels /\ pc'[u] \notin OyamaHoldLabels)
    BY <1>1
  <2>3. \A u \in Threads : /\ pc'[u] = "giveBack" <=> pc[u] = "giveBack"
                           /\ pc'[u] \in OyamaHoldLabels <=> pc[u] \in OyamaHoldLabels
                           /\ pc[u] \in OyamaHoldLabels => pc'[u] = pc[u]
    BY <2>2 DEF OyamaHoldLabels
  <2>4. QED
    BY <2>1, <2>3, SameHeld
<1>8. OwedOK(L, N, D, s, hi)'
  <2>1. \A i \in s .. hi - 1 : data'[L[i]] = data[L[i]]
    <3>1. lo <= s
      BY <1>3 DEF ListsOK, HeldOK, HolderOK, Start, Word
    <3>2. QED
      BY <1>5, <3>1
  <2>2. \A u \in Threads : Listed(u)' = Listed(u)
    BY <1>1 DEF Listed
  <2>3. QED
    BY <1>0, <1>3, <2>1, <2>2, SameOwed DEF ListsOK
<1>9. QED
  <2>1. ListsOK(L, N, D, lo, a, b, s, hi)'
    BY <1>6, <1>7, <1>8 DEF ListsOK
  <2>2. QED
    BY <1>2, <2>1 DEF OyamaOK

LEMMA MakesKeeps ==
    ASSUME ClientsOK, OyamaOK, build \in {oyama, oyamaopt}, NEW t \in Threads, Makes(t),
           UNCHANGED build
    PROVE  OyamaOK' /\ ClientStep(t)
<1>0. ClientsTypeOK /\ OyamaTypeOK /\ OyamaThreadOK(t)
  BY DEF ClientsOK, OyamaOK
<1>1. pc[t] = "make" /\ pc'[t] = "insert" /\ Moves(t)
  BY <1>0, MoveIs DEF Labels, Makes
<1>2. PICK c \in {t} \X (0 .. RingSize - 1) :
           /\ free[c]
           /\ context' = [context EXCEPT ![t] = c]
           /\ free' = [free EXCEPT ![c] = FALSE]
           /\ data' = [data EXCEPT ![c] = request[t]]
  BY DEF Makes
<1>3. c \in Contexts /\ c[1] = t
  BY <1>2 DEF Contexts
<1>4. UNCHANGED <<lockWord, rest, lockWordValue, reversing, batch, response, clientVars>>
      /\ pending' = pending /\ request' = request /\ answer' = answer
  BY DEF Makes, clientVars
<1>5. request[t] \in Int
  BY <1>0, ArgsAreNumbers DEF ClientsTypeOK
<1>6. /\ context'[t] = c /\ (\A u \in Threads \ {t} : context'[u] = context[u])
      /\ ~free'[c] /\ data'[c] = request[t]
      /\ \A x \in Contexts \ {c} : free'[x] = free[x] /\ data'[x] = data[x]
      /\ OyamaTypeOK'
  BY <1>0, <1>2, <1>3, <1>4, <1>5 DEF OyamaTypeOK
<1>7. IsOwn(t, c) /\ Listed(t)' = Listed(t)
  BY <1>1, <1>2, <1>3, <1>4 DEF IsOwn, Listed, UnlistedLabels, ContextLabels
<1>8. OyamaThreadOK(t)'
  BY <1>0, <1>1, <1>3, <1>4, <1>6
     DEF OyamaThreadOK, OyamaLabels, UnlistedLabels, ContextLabels, RanLabels
<1>9. pc[t] \notin OyamaHoldLabels /\ pc'[t] \notin OyamaHoldLabels
  BY <1>1 DEF OyamaHoldLabels
<1>10. OyamaOK'
  BY <1>1, <1>4, <1>6, <1>7, <1>8, <1>9, OyamaOutsideKeeps
<1>11. ClientStep(t)
  BY <1>1, <1>4 DEF ClientStep, GoesOn
<1>12. QED
  BY <1>10, <1>11

LEMMA InsertLoadsKeeps ==
    ASSUME ClientsOK, OyamaOK, build \in {oyama, oyamaopt}, NEW t \in Threads,
           InsertLoads(t), UNCHANGED build
    PROVE  OyamaOK' /\ ClientStep(t)
<1>0. ClientsTypeOK /\ OyamaTypeOK /\ OyamaThreadOK(t)
  BY DEF ClientsOK, OyamaOK
<1>1. pc[t] = "insert" /\ pc'[t] = "insertSwap" /\ Moves(t)
  BY <1>0, MoveIs DEF Labels, InsertLoads
<1>2. PICK c \in Contexts : c = context[t]
  BY <1>0 DEF OyamaTypeOK
<1>3. /\ lockWordValue' = [lockWordValue EXCEPT ![t] = lockWord]
      /\ rest' = [rest EXCEPT ![c] = IF lockWord = FREE THEN @ ELSE lockWord]
      /\ UNCHANGED <<lockWord, free, data, context, reversing, batch, response, clientVars>>
      /\ pending' = pending /\ request' = request /\ answer' = answer
  BY <1>2 DEF InsertLoads, clientVars
<1>4. /\ lockWordValue'[t] = lockWord
      /\ \A u \in Threads \ {t} : lockWordValue'[u] = lockWordValue[u]
      /\ lockWord # FREE => rest'[c] = lockWord
      /\ \A x \in Contexts \ {c} : rest'[x] = rest[x]
      /\ OyamaTypeOK'
  BY <1>0, <1>3 DEF OyamaTypeOK
<1>5. IsOwn(t, c) /\ Listed(t)' = Listed(t)
  BY <1>0, <1>1, <1>2, <1>3 DEF IsOwn, Listed, UnlistedLabels, ContextLabels, OyamaThreadOK
<1>6. OyamaThreadOK(t)'
  BY <1>0, <1>1, <1>2, <1>3, <1>4
     DEF OyamaThreadOK, OyamaLabels, UnlistedLabels, ContextLabels, RanLabels
<1>7. pc[t] \notin OyamaHoldLabels /\ pc'[t] \notin OyamaHoldLabels
  BY <1>1 DEF OyamaHoldLabels
<1>8. OyamaOK'
  BY <1>1, <1>2, <1>3, <1>4, <1>5, <1>6, <1>7, OyamaOutsideKeeps
<1>9. ClientStep(t)
  BY <1>1, <1>3 DEF ClientStep, GoesOn
<1>10. QED
  BY <1>8, <1>9

(* The return of a dequeue, with what its operation found.                  *)
LEMMA ResponseReturns ==
    ASSUME ClientsOK, OyamaOK, build \in {oyama, oyamaopt}, NEW t \in Threads, Moves(t),
           pc[t] # "idle", pc'[t] = "idle", Return(t, response[t]), pending[t] = <<>>,
           request[t] = DEQUEUE => response[t] = answer[t], UNCHANGED build
    PROVE  ClientStep(t)
<1>1. Added = 0
  BY DEF Added, oyama, oyamaopt, ccsynch, hsynch
<1>2. response[t] \in Int /\ answer[t] \in Int
  BY ArgsAreNumbers DEF OyamaOK, OyamaTypeOK, ClientsOK, ClientsTypeOK
<1>3. MayReturn(t)
  BY DEF MayReturn
<1>4. QED
  BY <1>1, <1>2, <1>3 DEF ClientStep, Returns

LEMMA AwaitsKeeps ==
    ASSUME ClientsOK, OyamaOK, build \in {oyama, oyamaopt}, NEW t \in Threads, Awaits(t),
           UNCHANGED build
    PROVE  OyamaOK' /\ ClientStep(t)
<1>0. ClientsTypeOK /\ OyamaTypeOK /\ OyamaThreadOK(t)
  BY DEF ClientsOK, OyamaOK
<1>1. pc[t] = "await" /\ pc'[t] = "idle" /\ Moves(t)
  BY <1>0, MoveIs DEF Labels, Awaits
<1>2. pending[t] = <<>> /\ response[t] = answer[t]
  BY <1>0 DEF Awaits, OyamaThreadOK
<1>3. Return(t, response[t])
      /\ UNCHANGED <<lockWord, free, rest, data, context, lockWordValue, reversing, batch>>
  BY DEF Awaits
<1>4. /\ request'[t] = 0 /\ pending' = pending
      /\ \A u \in Threads \ {t} : request'[u] = request[u] /\ answer'[u] = answer[u]
  BY <1>0, <1>3, ReturnIs
<1>5. /\ response'[t] = 0 /\ (\A u \in Threads \ {t} : response'[u] = response[u])
      /\ OyamaTypeOK'
  BY <1>0, <1>3 DEF OyamaTypeOK, Awaits
<1>6. Listed(t)' = Listed(t)
  BY <1>1, <1>4 DEF Listed, UnlistedLabels, ContextLabels
<1>7. OyamaThreadOK(t)'
  BY <1>1, <1>5 DEF OyamaThreadOK, OyamaLabels, UnlistedLabels, ContextLabels, RanLabels
<1>8. pc[t] \notin OyamaHoldLabels /\ pc'[t] \notin OyamaHoldLabels /\ pc'[t] \notin ContextLabels
  BY <1>1 DEF OyamaHoldLabels, ContextLabels
<1>9. OyamaOK'
  BY <1>1, <1>3, <1>4, <1>5, <1>6, <1>7, <1>8, OyamaOutsideKeeps
<1>10. ClientStep(t)
  BY <1>1, <1>2, <1>3, ResponseReturns
<1>11. QED
  BY <1>9, <1>10

LEMMA InsertSwapIs ==
    ASSUME ClientsTypeOK, OyamaTypeOK, NEW t \in Threads, InsertSwaps(t)
    PROVE  /\ pc[t] = "insertSwap" /\ Moves(t)
           /\ context' \in [Threads -> Contexts]
           /\ \A u \in Threads \ {t} : context'[u] = context[u]
           /\ \A u \in Threads \ {t} : lockWordValue'[u] = lockWordValue[u]
           /\ lockWordValue' \in [Threads -> Contexts \cup {FREE, LOCKED}]
           /\ UNCHANGED <<free, rest, data, reversing, batch, response>>
           /\ lockWord # lockWordValue[t] =>
                  /\ pc'[t] = "insert" /\ lockWord' = lockWord
                  /\ context'[t] = context[t] /\ UNCHANGED clientVars
           /\ lockWord = lockWordValue[t] /\ lockWord = FREE =>
                  /\ pc'[t] = "ownContext" /\ lockWord' = LOCKED
                  /\ context'[t] = context[t] /\ UNCHANGED clientVars
           /\ lockWord = lockWordValue[t] /\ lockWord # FREE =>
                  /\ pc'[t] = IF request[t] = DEQUEUE THEN "await" ELSE "idle"
                  /\ lockWord' = context[t]
                  /\ IF request[t] = DEQUEUE THEN UNCHANGED clientVars ELSE Return(t, 0)
<1>1. pc[t] = "insertSwap"
  BY DEF InsertSwaps, Move
<1>2. Moves(t) /\ pc'[t] = CASE lockWord # lockWordValue[t] -> "insert"
      [] lockWord = lockWordValue[t] /\ lockWord = FREE -> "ownContext"
      [] lockWord = lockWordValue[t] /\ lockWord # FREE ->
             IF request[t] = DEQUEUE THEN "await" ELSE "idle"
  <2>1. CASE lockWord # lockWordValue[t]
    BY <2>1, MoveIs DEF InsertSwaps, Labels
  <2>2. CASE lockWord = lockWordValue[t] /\ lockWord = FREE
    BY <2>2, MoveIs DEF InsertSwaps, Labels, HolderLabels
  <2>3. CASE lockWord = lockWordValue[t] /\ lockWord # FREE
    BY <2>3, MoveIs DEF InsertSwaps, Labels
  <2>4. QED
    BY <2>1, <2>2, <2>3
<1>3. <<t, 0>> \in Contexts
  BY RingAssumption DEF Contexts
<1>4. context' = [context EXCEPT ![t] = IF pc'[t] \in {"await", "idle"} THEN <<t, 0>> ELSE @]
      /\ lockWordValue' = [lockWordValue EXCEPT ![t] = FREE]
      /\ UNCHANGED <<free, rest, data, reversing, batch, response>>
      /\ (IF pc'[t] = "idle" THEN Return(t, 0) ELSE UNCHANGED clientVars)
      /\ lockWord' =
           CASE lockWord # lockWordValue[t] -> lockWord
             [] lockWord = lockWordValue[t] /\ lockWord = FREE -> LOCKED
             [] lockWord = lockWordValue[t] /\ lockWord # FREE -> context[t]
  BY DEF InsertSwaps
<1>5. /\ context' \in [Threads -> Contexts]
      /\ \A u \in Threads \ {t} : context'[u] = context[u]
      /\ pc'[t] \notin {"await", "idle"} => context'[t] = context[t]
      /\ \A u \in Threads \ {t} : lockWordValue'[u] = lockWordValue[u]
      /\ lockWordValue' \in [Threads -> Contexts \cup {FREE, LOCKED}]
  BY <1>3, <1>4 DEF OyamaTypeOK
<1>6. QED
  BY <1>1, <1>2, <1>4, <1>5

LEMMA InsertFailsKeeps ==
    ASSUME ClientsOK, OyamaOK, NEW t \in Threads, InsertSwaps(t),
           lockWord # lockWordValue[t], UNCHANGED build
    PROVE  OyamaOK' /\ ClientStep(t)
<1>0. ClientsTypeOK /\ OyamaTypeOK /\ OyamaThreadOK(t)
  BY DEF ClientsOK, OyamaOK
<1>1. /\ pc[t] = "insertSwap" /\ pc'[t] = "insert" /\ Moves(t)
      /\ UNCHANGED <<lockWord, free, rest, data, reversing, batch, response, clientVars>>
      /\ context'[t] = context[t]
      /\ \A u \in Threads \ {t} : context'[u] = context[u] /\ lockWordValue'[u] = lockWordValue[u]
      /\ pending' = pending /\ request' = request /\ answer' = answer
      /\ OyamaTypeOK'
  BY <1>0, InsertSwapIs DEF OyamaTypeOK, clientVars
<1>2. IsOwn(t, context'[t]) /\ Listed(t)' = Listed(t)
  BY <1>0, <1>1 DEF IsOwn, Listed, UnlistedLabels, ContextLabels, OyamaThreadOK
<1>3. OyamaThreadOK(t)'
  BY <1>0, <1>1
     DEF OyamaThreadOK, OyamaLabels, UnlistedLabels, ContextLabels, RanLabels
<1>4. pc[t] \notin OyamaHoldLabels /\ pc'[t] \notin OyamaHoldLabels
  BY <1>1 DEF OyamaHoldLabels
<1>5. OyamaOK'
  BY <1>1, <1>2, <1>3, <1>4, OyamaOutsideKeeps
<1>6. ClientStep(t)
  BY <1>1 DEF ClientStep, GoesOn
<1>7. QED
  BY <1>5, <1>6

(* The insertion finds the lock free, and takes it.                         *)
LEMMA InsertTakesKeeps ==
    ASSUME ClientsOK, OyamaOK, NEW t \in Threads, InsertSwaps(t),
           lockWord = lockWordValue[t], lockWord = FREE, UNCHANGED build
    PROVE  OyamaOK' /\ ClientStep(t)
<1>0. ClientsTypeOK /\ OyamaTypeOK /\ \A u \in Threads : OyamaThreadOK(u)
  BY DEF ClientsOK, OyamaOK
<1>1. /\ pc[t] = "insertSwap" /\ pc'[t] = "ownContext" /\ Moves(t)
      /\ lockWord' = LOCKED
      /\ UNCHANGED <<free, rest, data, reversing, batch, response, clientVars>>
      /\ \A u \in Threads : context'[u] = context[u]
      /\ \A u \in Threads \ {t} : lockWordValue'[u] = lockWordValue[u] /\ pc'[u] = pc[u]
      /\ pending' = pending /\ request' = request /\ answer' = answer
      /\ OyamaTypeOK'
  BY <1>0, InsertSwapIs DEF OyamaTypeOK, clientVars, Moves
<1>2. Len(pending[t]) = 1
  <2>1. pending[t] # <<>>
    BY <1>0, <1>1 DEF OyamaThreadOK, UnlistedLabels, ContextLabels
  <2>2. Listed(t) = Len(pending[t]) - 1 /\ pending[t] \in Seq(Args)
    BY <1>0, <1>1, ListedIs DEF UnlistedLabels, ContextLabels
  <2>3. PICK n \in Nat : n = Len(pending[t])
    BY <2>2
  <2>4. n # 0
    BY <2>1, <2>2, <2>3
  <2>5. n - 1 <= 0
    BY <2>2, <2>3, FreeLockOwesNone
  <2>6. n = 1
    BY <2>4, <2>5
  <2>7. QED
    BY <2>3, <2>6
<1>3. \A u \in Threads : Listed(u)' = Listed(u)
  BY <1>1 DEF Listed, UnlistedLabels, ContextLabels
<1>4. ASSUME NEW u \in Threads
      PROVE  OyamaThreadOK(u)'
  <2>1. OyamaThreadOK(u)
    BY <1>0
  <2>2. CASE u = t
    BY <1>1, <1>2, <2>1, <2>2
       DEF OyamaThreadOK, OyamaLabels, OyamaHoldLabels, UnlistedLabels, ContextLabels, RanLabels
  <2>3. CASE u # t
    BY <1>1, <2>1, <2>3 DEF OyamaThreadOK
  <2>4. QED
    BY <2>2, <2>3
<1>5. PICK L \in [Nat -> Contexts], N \in [Nat -> Nat], D \in [Threads -> Nat],
           lo \in Nat, a \in Nat, b \in Nat, s \in Nat, hi \in Nat :
           ListsOK(L, N, D, lo, a, b, s, hi)
  BY DEF OyamaOK
<1>6. LinkedOK(L, lo, a, b, hi)'
  <2>1. LinkedOK(L, lo, a, b, hi)
    BY <1>5 DEF ListsOK
  <2>2. \A u \in Threads : pc'[u] \in ContextLabels =>
            \A i \in lo .. hi - 1 : context'[u] # L[i]
    BY SMTT(30), <1>1, <2>1 DEF LinkedOK, ContextLabels
  <2>3. QED
    BY <1>1, <2>1, <2>2, SameLinks
<1>7. HeldOK(L, lo, a, b, s, hi)'
  <2>1. HeldOK(L, lo, a, b, s, hi) /\ lo <= a /\ a <= b /\ b <= hi
    BY <1>5 DEF ListsOK, LinkedOK
  <2>2. /\ lo = hi /\ lo = a /\ a = b /\ s = lo
        /\ \A h \in Threads : pc[h] \notin OyamaHoldLabels /\ batch[h] = <<>>
        /\ \A h \in Threads : pc'[h] \in OyamaHoldLabels <=> h = t
        /\ LOCKED # FREE
    <3>1. lo = hi /\ \A h \in Threads : pc[h] \notin OyamaHoldLabels
      BY <2>1 DEF HeldOK, HolderOK, Start, Word
    <3>2. s = lo /\ \A h \in Threads : batch[h] = <<>>
      BY <2>1, <3>1 DEF HeldOK, HolderOK, Start, Word, OyamaHoldLabels
    <3>3. \A h \in Threads : pc'[h] \in OyamaHoldLabels <=> h = t
      BY <1>1, <3>1 DEF OyamaHoldLabels
    <3>4. lo = a /\ a = b
      BY <2>1, <3>1
    <3>5. QED
      BY <3>1, <3>2, <3>3, <3>4, FlagsAssumption
  <2>3. /\ \A h \in Threads : pc'[h] # "giveBack" /\ batch'[h] = <<>> /\ Len(batch'[h]) = 0
        /\ b - a = 0 /\ ~(lo < a) /\ ~(b < hi)
        /\ pc'[t] # "reverse" /\ pc'[t] \notin {"serve", "giveBack"} /\ pc'[t] # "grab"
    <3>1. pc'[t] \notin {"reverse", "serve", "giveBack", "grab"}
      BY <1>1
    <3>2. \A h \in Threads : pc'[h] # "giveBack"
      BY <2>2, <3>1 DEF OyamaHoldLabels
    <3>3. \A h \in Threads : batch'[h] = <<>> /\ Len(batch'[h]) = 0
      BY <1>1, <2>2
    <3>4. b - a = 0 /\ ~(lo < a) /\ ~(b < hi)
      BY <2>2
    <3>5. QED
      BY <3>1, <3>2, <3>3, <3>4
  <2>4. /\ HolderOK(L, lo, a, b, hi, t)'
        /\ s = Start(lo)'
        /\ lockWord' = Word(L, b, hi)'
    BY <1>1, <2>2, <2>3 DEF HolderOK, Start, Word
  <2>5. QED
    BY <1>1, <2>2, <2>3, <2>4 DEF HeldOK
<1>8. OwedOK(L, N, D, s, hi)'
  BY <1>0, <1>1, <1>3, <1>5, SameOwed DEF ListsOK
<1>9. OyamaOK'
  <2>1. ListsOK(L, N, D, lo, a, b, s, hi)'
    BY <1>6, <1>7, <1>8 DEF ListsOK
  <2>2. QED
    BY <1>1, <1>4, <2>1 DEF OyamaOK
<1>10. ClientStep(t)
  BY <1>1 DEF ClientStep, GoesOn
<1>11. QED
  BY <1>9, <1>10

(* The insertion succeeds: the context is the newest of the list.           *)
LEMMA InsertPutsKeeps ==
    ASSUME ClientsOK, OyamaOK, build \in {oyama, oyamaopt}, NEW t \in Threads, InsertSwaps(t),
           lockWord = lockWordValue[t], lockWord # FREE, UNCHANGED build
    PROVE  OyamaOK' /\ ClientStep(t)
<1>0. ClientsTypeOK /\ OyamaTypeOK /\ \A u \in Threads : OyamaThreadOK(u)
  BY DEF ClientsOK, OyamaOK
<1>1. PICK c \in Contexts : c = context[t]
  BY <1>0 DEF OyamaTypeOK
<1>2. /\ pc[t] = "insertSwap" /\ Moves(t)
      /\ pc'[t] = IF request[t] = DEQUEUE THEN "await" ELSE "idle"
      /\ lockWord' = c
      /\ UNCHANGED <<free, rest, data, reversing, batch, response>>
      /\ \A u \in Threads \ {t} : /\ context'[u] = context[u] /\ pc'[u] = pc[u]
                                  /\ lockWordValue'[u] = lockWordValue[u]
      /\ OyamaTypeOK'
  BY <1>0, <1>1, InsertSwapIs DEF OyamaTypeOK, Moves
<1>3. IF request[t] = DEQUEUE THEN UNCHANGED clientVars ELSE Return(t, 0)
  BY <1>0, InsertSwapIs
<1>4. /\ pending' = pending
      /\ request[t] = DEQUEUE => request' = request /\ answer' = answer
      /\ request[t] # DEQUEUE => request'[t] = 0
      /\ \A u \in Threads \ {t} : request'[u] = request[u] /\ answer'[u] = answer[u]
  BY <1>0, <1>3, ReturnIs DEF clientVars
<1>5. ClientStep(t)
  <2>1. CASE request[t] = DEQUEUE
    BY <1>2, <1>3, <2>1 DEF ClientStep, GoesOn
  <2>2. CASE request[t] # DEQUEUE
    <3>1. build.detaches
      BY DEF oyama, oyamaopt
    <3>2. QED
      BY <1>2, <1>3, <2>2, <3>1 DEF ClientStep, Returns, MayReturn
  <2>3. QED
    BY <2>1, <2>2
<1>6. /\ c[1] = t /\ ~free[c] /\ data[c] = request[t] /\ rest[c] = lockWord
      /\ pending[t] # <<>> /\ pending[t][Len(pending[t])] = request[t]
      /\ response[t] = 0
  BY <1>0, <1>1, <1>2 DEF OyamaThreadOK, ContextLabels, UnlistedLabels
<1>7. PICK n \in Nat : n = Len(pending[t])
  BY <1>0, ListedIs
<1>8. n > 0 /\ Listed(t) = n - 1 /\ Listed(t)' = n
  <2>1. n # 0
    BY <1>0, <1>6, <1>7, ListedIs
  <2>2. Listed(t) = n - 1 /\ Listed(t)' = n
    BY <1>2, <1>4, <1>7 DEF Listed, UnlistedLabels, ContextLabels
  <2>3. QED
    BY <2>1, <2>2
<1>9. \A u \in Threads \ {t} : Listed(u)' = Listed(u)
  BY <1>2, <1>4 DEF Listed
<1>10. ASSUME NEW u \in Threads
       PROVE  OyamaThreadOK(u)'
  <2>1. OyamaThreadOK(u)
    BY <1>0
  <2>2. CASE u = t
    BY <1>2, <1>4, <1>6, <2>2
       DEF OyamaThreadOK, OyamaLabels, UnlistedLabels, ContextLabels, RanLabels
  <2>3. CASE u # t
    BY <1>2, <1>4, <2>1, <2>3 DEF OyamaThreadOK
  <2>4. QED
    BY <2>2, <2>3
<1>11. PICK L \in [Nat -> Contexts], N \in [Nat -> Nat], D \in [Threads -> Nat],
           lo \in Nat, a \in Nat, b \in Nat, s \in Nat, hi \in Nat :
           ListsOK(L, N, D, lo, a, b, s, hi)
  BY DEF OyamaOK
<1>12. LinkedOK(L, lo, a, b, hi) /\ HeldOK(L, lo, a, b, s, hi) /\ OwedOK(L, N, D, s, hi)
       /\ lo <= a /\ a <= b /\ b <= hi
  BY <1>11 DEF ListsOK, LinkedOK
<1>13. PICK L1 \in [Nat -> Contexts] :
           L1[hi] = c /\ \A i \in Nat \ {hi} : L1[i] = L[i]
  <2>1. [L EXCEPT ![hi] = c] \in [Nat -> Contexts]
    OBVIOUS
  <2>2. QED
    BY <2>1
<1>14. PICK N1 \in [Nat -> Nat] :
           N1[hi] = D[t] + n /\ \A i \in Nat \ {hi} : N1[i] = N[i]
  <2>1. [N EXCEPT ![hi] = D[t] + n] \in [Nat -> Nat]
    OBVIOUS
  <2>2. QED
    BY <2>1
<1>15. \A i \in lo .. hi - 1 : L[i] # c /\ L1[i] = L[i]
  BY <1>1, <1>2, <1>12, <1>13 DEF LinkedOK, ContextLabels
<1>16. lo <= s /\ s <= hi /\ s \in Nat
  <2>1. CASE \E h \in Threads : pc[h] = "giveBack"
    <3>1. PICK h \in Threads : pc[h] = "giveBack"
      BY <2>1
    <3>2. s = lo + 1 /\ lo < b
      BY <1>12, <3>1 DEF HeldOK, HolderOK, Start, Word, OyamaHoldLabels
    <3>3. QED
      BY <1>12, <3>2
  <2>2. CASE ~\E h \in Threads : pc[h] = "giveBack"
    <3>1. s = lo
      BY <1>12, <2>2 DEF HeldOK, HolderOK, Start, Word
    <3>2. QED
      BY <1>12, <3>1
  <2>3. QED
    BY <2>1, <2>2
<1>17. LinkedOK(L1, lo, a, b, hi + 1)'
  <2>1. \A i \in lo .. hi : ~free[L1[i]]
    <3>1. \A i \in lo .. hi - 1 : ~free[L1[i]]
      BY <1>12, <1>15 DEF LinkedOK
    <3>2. ~free[L1[hi]]
      BY <1>6, <1>13
    <3>3. \A i \in lo .. hi : i = hi \/ i \in lo .. hi - 1
      OBVIOUS
    <3>4. QED
      BY <3>1, <3>2, <3>3
  <2>2. \A i, j \in lo .. hi : i # j => L1[i] # L1[j]
    <3>1. \A i, j \in lo .. hi - 1 : i # j => L1[i] # L1[j]
      BY <1>12, <1>15 DEF LinkedOK
    <3>2. \A i \in lo .. hi - 1 : L1[i] # L1[hi]
      BY <1>13, <1>15
    <3>3. \A i \in lo .. hi : i = hi \/ i \in lo .. hi - 1
      OBVIOUS
    <3>4. QED
      BY <3>1, <3>2, <3>3
  <2>3. IsChain(L1, lo, a)
    BY SMTT(30), <1>12, <1>15 DEF LinkedOK, IsChain
  <2>4. IsChain(L1, b, hi + 1)
    <3>1. lockWord = IF b = hi THEN LOCKED ELSE L[hi - 1]
      BY <1>12 DEF HeldOK, HolderOK, Start, Word
    <3>2. CASE b = hi
      BY <1>6, <1>13, <3>1, <3>2 DEF IsChain
    <3>3. CASE b < hi
      <4>1. rest[L1[b]] = LOCKED
        BY <1>12, <1>15, <3>3 DEF LinkedOK, IsChain
      <4>2. \A i \in b + 1 .. hi - 1 : rest[L1[i]] = L1[i - 1]
        BY <1>12, <1>15 DEF LinkedOK, IsChain
      <4>3. rest[L1[hi]] = L1[hi - 1]
        <5>1. hi - 1 \in lo .. hi - 1 /\ b # hi
          BY <1>12, <3>3
        <5>2. rest[c] = L[hi - 1] /\ L1[hi - 1] = L[hi - 1]
          BY <1>6, <1>15, <3>1, <5>1
        <5>3. QED
          BY <1>13, <5>2
      <4>4. \A i \in b + 1 .. hi + 1 - 1 : i = hi \/ i \in b + 1 .. hi - 1
        OBVIOUS
      <4>5. QED
        BY <4>1, <4>2, <4>3, <4>4 DEF IsChain
    <3>4. QED
      BY <1>12, <3>2, <3>3
  <2>5. \A u \in Threads : pc'[u] \in ContextLabels =>
            \A i \in lo .. hi : context'[u] # L1[i]
    <3>1. ASSUME NEW u \in Threads, pc'[u] \in ContextLabels, NEW i \in lo .. hi
          PROVE  context'[u] # L1[i]
      <4>1. u # t /\ pc[u] \in ContextLabels /\ context'[u] = context[u]
        BY <1>2, <3>1 DEF ContextLabels
      <4>2. context[u][1] = u
        BY <1>0, <4>1 DEF OyamaThreadOK
      <4>3. CASE i = hi
        BY <1>6, <1>13, <4>1, <4>2, <4>3
      <4>4. CASE i < hi
        BY <1>12, <1>15, <4>1, <4>4 DEF LinkedOK
      <4>5. QED
        BY <4>3, <4>4
    <3>2. QED
      BY <3>1
  <2>6. hi + 1 - 1 = hi /\ free' = free /\ rest' = rest
    BY <1>2
  <2>7. IsChain(L1, lo, a)' /\ IsChain(L1, b, hi + 1)'
    BY <2>3, <2>4, <2>6 DEF IsChain
  <2>8. QED
    BY <1>12, <2>1, <2>2, <2>5, <2>6, <2>7 DEF LinkedOK
<1>18. HeldOK(L1, lo, a, b, s, hi + 1)'
  <2>1. \A h \in Threads : /\ pc'[h] \in OyamaHoldLabels <=> pc[h] \in OyamaHoldLabels
                           /\ pc[h] \in OyamaHoldLabels => pc'[h] = pc[h]
                           /\ pc'[h] = "giveBack" <=> pc[h] = "giveBack"
    BY <1>2 DEF OyamaHoldLabels
  <2>2. c # FREE /\ b # hi + 1 /\ L1[hi + 1 - 1] = c
    BY <1>12, <1>13, FlagsAssumption
  <2>3. ASSUME NEW h \in Threads, pc'[h] \in OyamaHoldLabels
        PROVE  HolderOK(L1, lo, a, b, hi + 1, h)'
    <3>1. /\ pc'[h] = pc[h] /\ pc[h] \in OyamaHoldLabels
          /\ reversing' = reversing /\ batch' = batch
      BY <1>2, <2>1, <2>3
    <3>2. \A i \in 1 .. b - a : a + i - 1 \in lo .. hi - 1
      BY <1>12
    <3>3. lo < a => a - 1 \in lo .. hi - 1
      BY <1>12
    <3>4. \A i \in 1 .. b - a : batch[h][i] = L[a + i - 1]
      BY <1>12, <3>1 DEF HeldOK, HolderOK, Start, Word
    <3>5. \A i \in 1 .. b - a : batch[h][i] = L1[a + i - 1]
      BY <1>15, <3>2, <3>4
    <3>6. pc[h] = "reverse" => reversing[h] = L1[a - 1]
      BY <1>12, <1>15, <3>1, <3>3 DEF HeldOK, HolderOK, Start, Word
    <3>7. /\ pc[h] = "grab" => b < hi
          /\ pc[h] \notin {"reverse", "serve", "giveBack"} => lo = b
          /\ pc[h] = "reverse" <=> lo < a
          /\ pc[h] \in {"serve", "giveBack"} => lo < b
          /\ Len(batch[h]) = b - a
      BY <1>12, <3>1 DEF HeldOK, HolderOK, Start, Word
    <3>8. b < hi => b < hi + 1
      OBVIOUS
    <3>9. QED
      BY <3>1, <3>5, <3>6, <3>7, <3>8 DEF HolderOK
  <2>4. \A h \in Threads : pc'[h] \notin OyamaHoldLabels => batch'[h] = <<>>
    BY <1>2, <1>12, <2>1 DEF HeldOK, HolderOK, Start, Word
  <2>5. /\ \E h \in Threads : pc'[h] \in OyamaHoldLabels
        /\ \A h, g \in Threads : pc'[h] \in OyamaHoldLabels /\ pc'[g] \in OyamaHoldLabels => h = g
        /\ s = Start(lo)'
    BY <1>12, <2>1 DEF HeldOK, Start
  <2>6. lockWord' # FREE /\ lockWord' = Word(L1, b, hi + 1)'
    BY <1>2, <2>2 DEF Word
  <2>7. QED
    BY <2>3, <2>4, <2>5, <2>6 DEF HeldOK
<1>19. OwedOK(L1, N1, D, s, hi + 1)'
  <2>0. D[t] \in Nat /\ Listed(t)' = n /\ data' = data /\ pending' = pending
    BY <1>2, <1>4, <1>8
  <2>1. ASSUME NEW i \in s .. hi
        PROVE  /\ N1[i] \in D[L1[i][1]] + 1 .. D[L1[i][1]] + Listed(L1[i][1])'
               /\ data[L1[i]] = pending[L1[i][1]][N1[i] - D[L1[i][1]]]
    <3>1. CASE i = hi
      <4>1. L1[i] = c /\ c[1] = t /\ N1[i] = D[t] + n
        BY <1>6, <1>13, <1>14, <3>1
      <4>2. D[t] + n - D[t] = n /\ D[t] + n \in D[t] + 1 .. D[t] + n
        BY <1>8, <2>0
      <4>3. data[c] = pending[t][n]
        BY <1>6, <1>7
      <4>4. QED
        BY <2>0, <4>1, <4>2, <4>3
    <3>2. CASE i < hi
      <4>1. i \in s .. hi - 1 /\ L1[i] = L[i] /\ N1[i] = N[i] /\ N[i] \in Nat
        BY <1>13, <1>14, <1>16, <3>2
      <4>2. PICK u \in Threads : u = L[i][1]
        BY <4>1, OwnerIsThread
      <4>3. /\ N[i] \in D[u] + 1 .. D[u] + Listed(u)
            /\ data[L[i]] = pending[u][N[i] - D[u]]
        BY <1>12, <4>1, <4>2 DEF OwedOK
      <4>4. N[i] \in D[u] + 1 .. D[u] + Listed(u)'
        <5>1. CASE u = t
          BY <1>8, <4>1, <4>3, <5>1
        <5>2. CASE u # t
          BY <1>9, <4>3, <5>2
        <5>3. QED
          BY <5>1, <5>2
      <4>5. QED
        BY <4>1, <4>2, <4>3, <4>4
    <3>3. QED
      BY <1>16, <3>1, <3>2
  <2>2. ASSUME NEW i \in s .. hi, NEW j \in s .. hi, i < j, L1[i][1] = L1[j][1]
        PROVE  N1[i] < N1[j]
    <3>1. i \in s .. hi - 1 /\ L1[i] = L[i] /\ N1[i] = N[i] /\ N[i] \in Nat
      BY <1>13, <1>14, <1>16, <2>2
    <3>2. CASE j = hi
      <4>1. L[i][1] = t /\ N1[j] = D[t] + n
        BY <1>6, <1>13, <1>14, <2>2, <3>1, <3>2
      <4>2. N[i] \in D[t] + 1 .. D[t] + Listed(t)
        BY <1>12, <3>1, <4>1 DEF OwedOK
      <4>3. N[i] < D[t] + n
        BY <1>8, <2>0, <3>1, <4>2
      <4>4. QED
        BY <3>1, <4>1, <4>3
    <3>3. CASE j < hi
      <4>1. j \in s .. hi - 1 /\ L1[j] = L[j] /\ N1[j] = N[j]
        BY <1>13, <1>14, <1>16, <3>3
      <4>2. QED
        BY <1>12, <2>2, <3>1, <4>1 DEF OwedOK
    <3>4. QED
      BY <3>2, <3>3
  <2>3. ASSUME NEW u \in Threads, NEW k \in D[u] + 1 .. D[u] + Listed(u)'
        PROVE  \E i \in s .. hi : L1[i][1] = u /\ N1[i] = k
    <3>1. CASE k \in D[u] + 1 .. D[u] + Listed(u)
      <4>1. PICK i \in s .. hi - 1 : L[i][1] = u /\ N[i] = k
        BY <1>12, <3>1 DEF OwedOK
      <4>2. i \in s .. hi /\ L1[i] = L[i] /\ N1[i] = N[i]
        BY <1>13, <1>14, <1>16
      <4>3. QED
        BY <4>1, <4>2
    <3>2. CASE k \notin D[u] + 1 .. D[u] + Listed(u)
      <4>1. u = t
        BY <1>9, <2>3, <3>2
      <4>2. k = D[t] + n
        BY <1>8, <2>0, <2>3, <3>2, <4>1
      <4>3. hi \in s .. hi
        BY <1>16
      <4>4. QED
        BY <1>6, <1>13, <1>14, <4>1, <4>2, <4>3
    <3>3. QED
      BY <3>1, <3>2
  <2>4. hi + 1 - 1 = hi
    OBVIOUS
  <2>5. QED
    BY <2>0, <2>1, <2>2, <2>3, <2>4 DEF OwedOK
<1>20. OyamaOK'
  <2>1. ListsOK(L1, N1, D, lo, a, b, s, hi + 1)'
    BY <1>17, <1>18, <1>19 DEF ListsOK
  <2>2. hi + 1 \in Nat
    OBVIOUS
  <2>3. QED
    BY <1>2, <1>10, <2>1, <2>2 DEF OyamaOK
<1>21. QED
  BY <1>5, <1>20

LEMMA AnswersIs ==
    ASSUME ClientsTypeOK, OyamaTypeOK, build \in {oyama, oyamaopt}, NEW u \in Threads,
           NEW arg \in Args, Answers(u, arg), pending[u] # <<>>, Head(pending[u]) = arg
    PROVE  /\ Runs(u, Head(pending[u]))
           /\ pending'[u] = Tail(pending[u]) /\ request' = request
           /\ arg = DEQUEUE => response'[u] = answer'[u]
           /\ arg # DEQUEUE => response'[u] = response[u] /\ answer'[u] = answer[u]
           /\ \A w \in Threads \ {u} : /\ pending'[w] = pending[w] /\ answer'[w] = answer[w]
                                       /\ response'[w] = response[w]
           /\ response' \in [Threads -> Int]
<1>1. dequeue_cs = Promise!Top(heap) /\ Promise!Top(heap) \in Int
  <2>1. build.shift = 0
    BY DEF oyama, oyamaopt
  <2>2. QED
    BY <2>1, TopType DEF dequeue_cs, ClientsTypeOK
<1>2. /\ Runs(u, arg)
      /\ response' = [response EXCEPT ![u] = IF arg = DEQUEUE THEN dequeue_cs ELSE @]
  BY DEF Answers
<1>3. /\ pending' = [pending EXCEPT ![u] = Tail(@)]
      /\ answer' = [answer EXCEPT ![u] = IF arg = DEQUEUE THEN Promise!Top(heap) ELSE @]
      /\ request' = request
  BY <1>2 DEF Runs
<1>4. QED
  BY <1>1, <1>2, <1>3 DEF ClientsTypeOK, OyamaTypeOK

LEMMA OneHolder ==
    ASSUME OyamaOK, NEW h \in Threads, NEW g \in Threads,
           pc[h] \in OyamaHoldLabels, pc[g] \in OyamaHoldLabels
    PROVE  h = g
<1>1. PICK L \in [Nat -> Contexts], N \in [Nat -> Nat], D \in [Threads -> Nat],
           lo \in Nat, a \in Nat, b \in Nat, s \in Nat, hi \in Nat :
           ListsOK(L, N, D, lo, a, b, s, hi)
  BY DEF OyamaOK
<1>2. HeldOK(L, lo, a, b, s, hi)
  BY <1>1 DEF ListsOK
<1>3. QED
  BY <1>2 DEF HeldOK

LEMMA OfOne ==
    ASSUME NEW S, NEW q \in Seq(S), Len(q) = 1
    PROVE  q # <<>> /\ Head(q) = q[1] /\ Tail(q) = <<>>
<1>1. q # <<>>
  OBVIOUS
<1>2. Head(q) = q[1]
  OBVIOUS
<1>3. Tail(q) \in Seq(S) /\ Len(Tail(q)) = 0
  BY <1>1
<1>4. \A r \in Seq(S) : Len(r) = 0 => r = <<>>
  OBVIOUS
<1>5. QED
  BY <1>1, <1>2, <1>3, <1>4

(* The holder's own operation.                                              *)
LEMMA OwnRunKeeps ==
    ASSUME ClientsOK, OyamaOK, build \in {oyama, oyamaopt}, NEW t \in Threads, Moves(t),
           pc[t] \in {"own", "ownContext"}, pc'[t] = "release", Answers(t, request[t]),
           UNCHANGED <<lockWord, lockWordValue, reversing, batch>>, OyamaTypeOK',
           \A c \in Contexts :
               \/ free'[c] = free[c] /\ rest'[c] = rest[c] /\ data'[c] = data[c]
               \/ pc[t] = "ownContext" /\ c = context[t],
           \A u \in Threads \ {t} : context'[u] = context[u],
           UNCHANGED build
    PROVE  OyamaOK' /\ ClientStep(t)
<1>0. ClientsTypeOK /\ OyamaTypeOK /\ \A u \in Threads : OyamaThreadOK(u)
  BY DEF ClientsOK, OyamaOK
<1>1. \A u \in Threads \ {t} : pc'[u] = pc[u]
  BY DEF Moves
<1>2. /\ pending[t] \in Seq(Args) /\ Len(pending[t]) = 1
      /\ pending[t][1] = request[t] /\ request[t] \in Args
      /\ pc[t] = "ownContext" => context[t][1] = t
      /\ response[t] = 0
  <2>1. pending[t] \in Seq(Args) /\ Len(pending[t]) = 1 /\ pending[t] # <<>>
    BY <1>0, ListedIs DEF OyamaThreadOK, UnlistedLabels, ContextLabels
  <2>2. pending[t][Len(pending[t])] = request[t] /\ (pc[t] = "ownContext" => context[t][1] = t)
    BY <1>0 DEF OyamaThreadOK, UnlistedLabels, ContextLabels
  <2>3. response[t] = 0
    BY <1>0, <2>1 DEF OyamaThreadOK
  <2>4. QED
    BY <2>1, <2>2, <2>3
<1>3. pending[t] # <<>> /\ Head(pending[t]) = request[t] /\ Tail(pending[t]) = <<>>
  BY <1>2, OfOne
<1>4. /\ Runs(t, Head(pending[t]))
      /\ pending'[t] = <<>> /\ request' = request
      /\ request[t] = DEQUEUE => response'[t] = answer'[t]
      /\ request[t] # DEQUEUE => response'[t] = 0
      /\ \A w \in Threads \ {t} : /\ pending'[w] = pending[w] /\ answer'[w] = answer[w]
                                  /\ response'[w] = response[w]
  BY <1>0, <1>2, <1>3, AnswersIs
<1>5. ClientStep(t)
  BY <1>3, <1>4 DEF ClientStep, RunsNext
<1>6. ASSUME NEW u \in Threads
      PROVE  OyamaThreadOK(u)'
  <2>1. CASE u = t
    BY <1>4, <2>1
       DEF OyamaThreadOK, OyamaLabels, OyamaHoldLabels, UnlistedLabels, ContextLabels
  <2>2. CASE u # t
    <3>1. OyamaThreadOK(u) /\ context[u] \in Contexts
      BY <1>0 DEF OyamaTypeOK
    <3>2. pc[u] \in ContextLabels =>
              /\ free'[context[u]] = free[context[u]]
              /\ rest'[context[u]] = rest[context[u]]
              /\ data'[context[u]] = data[context[u]]
      BY <1>2, <2>2, <3>1 DEF OyamaThreadOK
    <3>3. pc[u] = "insertSwap" => pc[u] \in ContextLabels
      BY DEF ContextLabels
    <3>4. QED
      BY <1>1, <1>4, <2>2, <3>1, <3>2, <3>3 DEF OyamaThreadOK
  <2>3. QED
    BY <2>1, <2>2
<1>7. PICK L \in [Nat -> Contexts], N \in [Nat -> Nat], D \in [Threads -> Nat],
           lo \in Nat, a \in Nat, b \in Nat, s \in Nat, hi \in Nat :
           ListsOK(L, N, D, lo, a, b, s, hi)
  BY DEF OyamaOK
<1>8. LinkedOK(L, lo, a, b, hi) /\ HeldOK(L, lo, a, b, s, hi) /\ OwedOK(L, N, D, s, hi)
  BY <1>7 DEF ListsOK
<1>9. \A i \in lo .. hi - 1 :
          free'[L[i]] = free[L[i]] /\ rest'[L[i]] = rest[L[i]] /\ data'[L[i]] = data[L[i]]
  BY <1>8 DEF LinkedOK, ContextLabels
<1>10. LinkedOK(L, lo, a, b, hi)'
  <2>1. \A u \in Threads : pc'[u] \in ContextLabels =>
            \A i \in lo .. hi - 1 : context'[u] # L[i]
    BY <1>1, <1>8 DEF LinkedOK, ContextLabels
  <2>2. QED
    BY <1>8, <1>9, <2>1, SameLinks
<1>11. \A u \in Threads : /\ pc'[u] \in OyamaHoldLabels <=> pc[u] \in OyamaHoldLabels
                          /\ pc'[u] = "giveBack" <=> pc[u] = "giveBack"
                          /\ pc[u] \in OyamaHoldLabels => u = t
  <2>1. \A u \in Threads : pc[u] \in OyamaHoldLabels => u = t
    BY OneHolder DEF OyamaHoldLabels
  <2>2. QED
    BY <1>1, <2>1 DEF OyamaHoldLabels
<1>12. HeldOK(L, lo, a, b, s, hi)'
  <2>1. HolderOK(L, lo, a, b, hi, t) /\ reversing' = reversing /\ batch' = batch
    BY <1>8 DEF HeldOK, OyamaHoldLabels
  <2>2. HolderOK(L, lo, a, b, hi, t)'
    BY <2>1 DEF HolderOK
  <2>3. s = Start(lo)' /\ Word(L, b, hi)' = Word(L, b, hi)
    BY <1>8, <1>11 DEF HeldOK, Start, Word
  <2>4. QED
    BY <1>8, <1>11, <2>1, <2>2, <2>3 DEF HeldOK
<1>13. OwedOK(L, N, D, s, hi)'
  <2>1. lo <= s
    BY <1>8 DEF HeldOK, Start
  <2>2. \A i \in s .. hi - 1 : data'[L[i]] = data[L[i]]
    BY <1>9, <2>1
  <2>3. Listed(t) = 0 /\ Listed(t)' = 0
    BY <1>2, <1>4 DEF Listed, UnlistedLabels, ContextLabels
  <2>4. ASSUME NEW u \in Threads
        PROVE  /\ Listed(u)' = Listed(u)
               /\ \A k \in 1 .. Listed(u) : pending'[u][k] = pending[u][k]
    <3>1. CASE u = t
      BY <2>3, <3>1
    <3>2. CASE u # t
      BY <1>1, <1>4, <3>2 DEF Listed
    <3>3. QED
      BY <3>1, <3>2
  <2>5. QED
    BY <1>0, <1>8, <2>2, <2>4, SameOwed
<1>14. OyamaOK'
  <2>1. ListsOK(L, N, D, lo, a, b, s, hi)'
    BY <1>10, <1>12, <1>13 DEF ListsOK
  <2>2. QED
    BY <1>6, <2>1 DEF OyamaOK
<1>15. QED
  BY <1>5, <1>14

LEMMA RunsOwnKeeps ==
    ASSUME ClientsOK, OyamaOK, build \in {oyama, oyamaopt}, NEW t \in Threads,
           RunsOwn(t) \/ RunsOwnContext(t), UNCHANGED build
    PROVE  OyamaOK' /\ ClientStep(t)
<1>0. ClientsTypeOK /\ OyamaTypeOK /\ OyamaThreadOK(t)
  BY DEF ClientsOK, OyamaOK
<1>1. CASE RunsOwn(t)
  <2>1. pc[t] = "own" /\ pc'[t] = "release" /\ Moves(t)
    BY <1>0, <1>1, MoveIs DEF Labels, HolderLabels, RunsOwn
  <2>2. /\ UNCHANGED <<lockWord, free, rest, data, context, lockWordValue, reversing, batch>>
        /\ Answers(t, request[t])
    BY <1>1 DEF RunsOwn
  <2>3. response' \in [Threads -> Int]
    <3>1. pending[t] \in Seq(Args) /\ pending[t] # <<>> /\ Len(pending[t]) = 1
          /\ pending[t][Len(pending[t])] = request[t]
      BY <1>0, <2>1, ListedIs DEF OyamaThreadOK, UnlistedLabels
    <3>2. Head(pending[t]) = request[t] /\ request[t] \in Args
      BY <3>1
    <3>3. QED
      BY <1>0, <2>2, <3>1, <3>2, AnswersIs
  <2>4. OyamaTypeOK'
    BY <1>0, <2>2, <2>3 DEF OyamaTypeOK
  <2>5. QED
    BY <2>1, <2>2, <2>4, OwnRunKeeps
<1>2. CASE RunsOwnContext(t)
  <2>1. pc[t] = "ownContext" /\ pc'[t] = "release" /\ Moves(t)
    BY <1>0, <1>2, MoveIs DEF Labels, HolderLabels, RunsOwnContext
  <2>2. /\ UNCHANGED <<lockWord, lockWordValue, reversing, batch>>
        /\ Answers(t, request[t])
        /\ context' = [context EXCEPT ![t] = <<t, 0>>]
    BY <1>2 DEF RunsOwnContext
  <2>3. PICK c \in Contexts : c = context[t]
    BY <1>0 DEF OyamaTypeOK
  <2>4. /\ free' = [free EXCEPT ![c] = TRUE]
        /\ rest' = [rest EXCEPT ![c] = LOCKED]
        /\ data' = [data EXCEPT ![c] = 0]
    BY <1>2, <2>3 DEF RunsOwnContext, GivesBack
  <2>5. response' \in [Threads -> Int]
    <3>1. pending[t] \in Seq(Args) /\ pending[t] # <<>> /\ Len(pending[t]) = 1
          /\ pending[t][Len(pending[t])] = request[t]
      BY <1>0, <2>1, ListedIs DEF OyamaThreadOK, UnlistedLabels, ContextLabels
    <3>2. Head(pending[t]) = request[t] /\ request[t] \in Args
      BY <3>1
    <3>3. QED
      BY <1>0, <2>2, <3>1, <3>2, AnswersIs
  <2>6. <<t, 0>> \in Contexts
    BY RingAssumption DEF Contexts
  <2>7. /\ context \in [Threads -> Contexts] /\ free \in [Contexts -> BOOLEAN]
        /\ rest \in [Contexts -> Contexts \cup {LOCKED}] /\ data \in [Contexts -> Int]
    BY <1>0 DEF OyamaTypeOK
  <2>8. /\ context' \in [Threads -> Contexts] /\ free' \in [Contexts -> BOOLEAN]
        /\ rest' \in [Contexts -> Contexts \cup {LOCKED}] /\ data' \in [Contexts -> Int]
    BY <2>2, <2>4, <2>6, <2>7
  <2>9. OyamaTypeOK'
    BY <1>0, <2>2, <2>5, <2>8 DEF OyamaTypeOK
  <2>10. \A u \in Threads \ {t} : context'[u] = context[u]
    BY <2>2, <2>7
  <2>11. \A x \in Contexts \ {c} :
             free'[x] = free[x] /\ rest'[x] = rest[x] /\ data'[x] = data[x]
    BY <2>4, <2>7
  <2>12. QED
    BY <2>1, <2>2, <2>3, <2>9, <2>10, <2>11, OwnRunKeeps
<1>3. QED
  BY <1>1, <1>2

(* What is known of the thread that has the lock.                           *)
HolderSees(L, lo, a, b, s, hi, t) ==
    /\ lockWord # FREE /\ lockWord = Word(L, b, hi)
    /\ HolderOK(L, lo, a, b, hi, t)
    /\ \A u \in Threads \ {t} : pc[u] \notin OyamaHoldLabels /\ batch[u] = <<>>
    /\ pc[t] = "giveBack" => s = lo + 1
    /\ pc[t] # "giveBack" => s = lo

LEMMA HolderIs ==
    ASSUME NEW L \in [Nat -> Contexts], NEW lo \in Nat, NEW a \in Nat, NEW b \in Nat,
           NEW s \in Nat, NEW hi \in Nat, HeldOK(L, lo, a, b, s, hi),
           NEW t \in Threads, pc[t] \in OyamaHoldLabels
    PROVE  HolderSees(L, lo, a, b, s, hi, t)
<1>1. \A u \in Threads \ {t} : pc[u] \notin OyamaHoldLabels /\ batch[u] = <<>>
  BY DEF HeldOK
<1>2. (\E h \in Threads : pc[h] = "giveBack") <=> pc[t] = "giveBack"
  BY <1>1 DEF OyamaHoldLabels
<1>3. s = Start(lo)
  BY DEF HeldOK
<1>4. QED
  BY <1>1, <1>2, <1>3 DEF HeldOK, Start, HolderSees

(* A step after which the thread still has the lock.                        *)
LEMMA StillHeld ==
    ASSUME NEW L \in [Nat -> Contexts], NEW lo \in Nat, NEW a \in Nat, NEW b \in Nat,
           NEW s \in Nat, NEW hi \in Nat, NEW t \in Threads,
           Moves(t), pc'[t] \in OyamaHoldLabels,
           \A u \in Threads \ {t} : pc[u] \notin OyamaHoldLabels /\ batch'[u] = <<>>,
           lockWord' # FREE, lockWord' = Word(L, b, hi), HolderOK(L, lo, a, b, hi, t)',
           pc'[t] = "giveBack" => s = lo + 1, pc'[t] # "giveBack" => s = lo
    PROVE  HeldOK(L, lo, a, b, s, hi)'
<1>1. \A u \in Threads \ {t} : pc'[u] \notin OyamaHoldLabels
  BY DEF Moves
<1>2. (\E h \in Threads : pc'[h] = "giveBack") <=> pc'[t] = "giveBack"
  BY <1>1 DEF OyamaHoldLabels
<1>3. s = Start(lo)'
  BY <1>2 DEF Start
<1>4. Word(L, b, hi)' = Word(L, b, hi)
  BY DEF Word
<1>5. \A h \in Threads : pc'[h] \in OyamaHoldLabels => HolderOK(L, lo, a, b, hi, h)'
  BY <1>1
<1>6. QED
  BY <1>1, <1>3, <1>4, <1>5 DEF HeldOK

LEMMA HolderStepKeeps ==
    ASSUME NEW L \in [Nat -> Contexts], NEW N \in [Nat -> Nat], NEW D \in [Threads -> Nat],
           NEW lo \in Nat, NEW a \in Nat, NEW b \in Nat, NEW s \in Nat, NEW hi \in Nat,
           NEW t \in Threads, ClientsOK, OyamaOK, Moves(t),
           pc[t] \in RanLabels, pc'[t] \in RanLabels,
           UNCHANGED <<build, context, lockWordValue, response, clientVars>>, OyamaTypeOK',
           OwedOK(L, N, D, s, hi), LinkedOK(L, lo, a, b, hi)', HeldOK(L, lo, a, b, s, hi)',
           \A u \in Threads : pc[u] \in ContextLabels =>
               /\ free'[context[u]] = free[context[u]]
               /\ rest'[context[u]] = rest[context[u]]
               /\ data'[context[u]] = data[context[u]],
           \A i \in s .. hi - 1 : data'[L[i]] = data[L[i]]
    PROVE  OyamaOK' /\ ClientStep(t)
<1>0. ClientsTypeOK /\ \A u \in Threads : OyamaThreadOK(u)
  BY DEF ClientsOK, OyamaOK
<1>1. /\ \A u \in Threads \ {t} : pc'[u] = pc[u]
      /\ pending' = pending /\ request' = request /\ answer' = answer
  BY DEF Moves, clientVars
<1>2. ASSUME NEW u \in Threads
      PROVE  OyamaThreadOK(u)'
  <2>1. OyamaThreadOK(u)
    BY <1>0
  <2>2. CASE u = t
    BY <1>1, <2>1, <2>2
       DEF OyamaThreadOK, RanLabels, UnlistedLabels, ContextLabels, OyamaLabels, OyamaHoldLabels
  <2>3. CASE u # t
    <3>1. pc[u] = "insertSwap" => pc[u] \in ContextLabels
      BY DEF ContextLabels
    <3>2. QED
      BY <1>1, <2>1, <2>3, <3>1 DEF OyamaThreadOK
  <2>4. QED
    BY <2>2, <2>3
<1>3. \A u \in Threads : Listed(u)' = Listed(u)
  BY <1>1 DEF Listed, RanLabels, UnlistedLabels, ContextLabels
<1>4. OwedOK(L, N, D, s, hi)'
  BY <1>0, <1>1, <1>3, SameOwed
<1>5. OyamaOK'
  <2>1. ListsOK(L, N, D, lo, a, b, s, hi)'
    BY <1>4 DEF ListsOK
  <2>2. QED
    BY <1>2, <2>1 DEF OyamaOK
<1>6. ClientStep(t)
  BY DEF ClientStep, GoesOn, RanLabels
<1>7. QED
  BY <1>5, <1>6

LEMMA ReleaseFailsKeeps ==
    ASSUME ClientsOK, OyamaOK, NEW t \in Threads, ReleaseFails(t), UNCHANGED build
    PROVE  OyamaOK' /\ ClientStep(t)
<1>0. ClientsTypeOK /\ OyamaTypeOK
  BY DEF ClientsOK, OyamaOK
<1>1. /\ pc[t] = "release" /\ pc'[t] = "grab" /\ Moves(t)
      /\ UNCHANGED <<lockWord, free, rest, data, context, lockWordValue, reversing, batch,
                     response, clientVars>>
  BY <1>0, MoveIs DEF ReleaseFails, Labels, HolderLabels, oyamaVars
<1>2. pc[t] \in RanLabels /\ pc'[t] \in RanLabels
      /\ pc[t] \in OyamaHoldLabels /\ pc'[t] \in OyamaHoldLabels
  BY <1>1 DEF RanLabels, OyamaHoldLabels
<1>3. PICK L \in [Nat -> Contexts], N \in [Nat -> Nat], D \in [Threads -> Nat],
           lo \in Nat, a \in Nat, b \in Nat, s \in Nat, hi \in Nat :
           ListsOK(L, N, D, lo, a, b, s, hi)
  BY DEF OyamaOK
<1>4. LinkedOK(L, lo, a, b, hi) /\ HeldOK(L, lo, a, b, s, hi) /\ OwedOK(L, N, D, s, hi)
  BY <1>3 DEF ListsOK
<1>5. /\ lockWord # FREE /\ lockWord = Word(L, b, hi) /\ HolderOK(L, lo, a, b, hi, t)
      /\ \A u \in Threads \ {t} : pc[u] \notin OyamaHoldLabels /\ batch[u] = <<>>
      /\ pc[t] # "giveBack" => s = lo
  <2>1. HolderSees(L, lo, a, b, s, hi, t)
    BY <1>2, <1>3, <1>4, HolderIs
  <2>2. QED
    BY <2>1 DEF HolderSees
<1>6. b < hi
  <2>1. b # hi
    BY <1>5 DEF ReleaseFails, Word
  <2>2. QED
    BY <1>4, <2>1 DEF LinkedOK
<1>7. HolderOK(L, lo, a, b, hi, t)'
  BY <1>1, <1>5, <1>6 DEF HolderOK
<1>8. HeldOK(L, lo, a, b, s, hi)'
  BY <1>1, <1>2, <1>5, <1>7, StillHeld
<1>9. LinkedOK(L, lo, a, b, hi)'
  <2>1. \A u \in Threads : pc'[u] \in ContextLabels => pc[u] \in ContextLabels
    BY <1>1 DEF Moves, ContextLabels
  <2>2. QED
    BY <1>1, <1>4, <2>1 DEF LinkedOK, IsChain
<1>10. OyamaTypeOK'
  BY <1>0, <1>1 DEF OyamaTypeOK
<1>11. QED
  BY <1>1, <1>2, <1>4, <1>8, <1>9, <1>10, HolderStepKeeps

LEMMA ReleaseSwapsKeeps ==
    ASSUME ClientsOK, OyamaOK, build \in {oyama, oyamaopt}, NEW t \in Threads,
           ReleaseSwaps(t), UNCHANGED build
    PROVE  OyamaOK' /\ ClientStep(t)
<1>0. ClientsTypeOK /\ OyamaTypeOK /\ \A u \in Threads : OyamaThreadOK(u)
  BY DEF ClientsOK, OyamaOK
<1>1. /\ pc[t] = "release" /\ pc'[t] = "idle" /\ Moves(t)
      /\ lockWord = LOCKED /\ lockWord' = FREE /\ Return(t, response[t])
      /\ response' = [response EXCEPT ![t] = 0]
      /\ UNCHANGED <<free, rest, data, context, lockWordValue, reversing, batch>>
  BY <1>0, MoveIs DEF ReleaseSwaps, Labels, HolderLabels
<1>2. /\ pending[t] = <<>> /\ request[t] = DEQUEUE => response[t] = answer[t]
  BY <1>0, <1>1 DEF OyamaThreadOK, RanLabels
<1>3. ClientStep(t)
  BY <1>0, <1>1, <1>2, ResponseReturns DEF OyamaThreadOK, RanLabels
<1>4. /\ request'[t] = 0 /\ pending' = pending
      /\ \A u \in Threads \ {t} : /\ request'[u] = request[u] /\ answer'[u] = answer[u]
                                  /\ pc'[u] = pc[u]
  BY <1>0, <1>1, ReturnIs DEF Moves
<1>5. /\ response'[t] = 0 /\ (\A u \in Threads \ {t} : response'[u] = response[u])
      /\ OyamaTypeOK'
  BY <1>0, <1>1 DEF OyamaTypeOK
<1>6. ASSUME NEW u \in Threads
      PROVE  OyamaThreadOK(u)'
  <2>1. CASE u = t
    BY <1>1, <1>5, <2>1
       DEF OyamaThreadOK, RanLabels, UnlistedLabels, ContextLabels, OyamaLabels
  <2>2. CASE u # t
    BY <1>0, <1>1, <1>4, <1>5, <2>2 DEF OyamaThreadOK
  <2>3. QED
    BY <2>1, <2>2
<1>7. PICK L \in [Nat -> Contexts], N \in [Nat -> Nat], D \in [Threads -> Nat],
           lo \in Nat, a \in Nat, b \in Nat, s \in Nat, hi \in Nat :
           ListsOK(L, N, D, lo, a, b, s, hi)
  BY DEF OyamaOK
<1>8. LinkedOK(L, lo, a, b, hi) /\ HeldOK(L, lo, a, b, s, hi) /\ OwedOK(L, N, D, s, hi)
  BY <1>7 DEF ListsOK
<1>9. /\ lockWord = Word(L, b, hi) /\ HolderOK(L, lo, a, b, hi, t)
      /\ \A u \in Threads \ {t} : pc[u] \notin OyamaHoldLabels /\ batch[u] = <<>>
      /\ s = lo
  <2>1. HolderSees(L, lo, a, b, s, hi, t)
    BY <1>1, <1>7, <1>8, HolderIs DEF OyamaHoldLabels
  <2>2. QED
    BY <1>1, <2>1 DEF HolderSees
<1>10. lo <= a /\ a <= b /\ b <= hi /\ lo = b
  BY <1>1, <1>8, <1>9 DEF LinkedOK, HolderOK
<1>11. b = hi
  <2>1. ASSUME b # hi
        PROVE  FALSE
    <3>1. hi - 1 \in Nat
      BY <1>10, <2>1
    <3>2. L[hi - 1] \in Contexts
      BY <3>1
    <3>3. QED
      BY <1>1, <1>9, <2>1, <3>2, FlagsAssumption DEF Word
  <2>2. QED
    BY <2>1
<1>12. batch[t] = <<>>
  <2>1. Len(batch[t]) = b - a /\ b - a = 0
    BY <1>9, <1>10 DEF HolderOK
  <2>2. Len(batch[t]) = 0
    BY <2>1
  <2>3. \A q \in Seq(Contexts) : Len(q) = 0 => q = <<>>
    OBVIOUS
  <2>4. QED
    BY <1>0, <2>2, <2>3 DEF OyamaTypeOK
<1>13. HeldOK(L, lo, a, b, s, hi)'
  <2>1. \A h \in Threads : /\ pc'[h] \notin OyamaHoldLabels /\ pc'[h] # "giveBack"
                           /\ batch'[h] = <<>>
    BY <1>1, <1>4, <1>9, <1>12 DEF OyamaHoldLabels
  <2>2. s = Start(lo)' /\ lo = hi
    BY <1>9, <1>10, <1>11, <2>1 DEF Start
  <2>3. QED
    BY <1>1, <2>1, <2>2 DEF HeldOK
<1>14. LinkedOK(L, lo, a, b, hi)'
  <2>1. \A u \in Threads : pc'[u] \in ContextLabels => pc[u] \in ContextLabels
    BY <1>1, <1>4 DEF ContextLabels
  <2>2. QED
    BY <1>1, <1>8, <2>1 DEF LinkedOK, IsChain
<1>15. OwedOK(L, N, D, s, hi)'
  <2>1. \A u \in Threads : Listed(u)' = Listed(u)
    BY <1>1, <1>4 DEF Listed, UnlistedLabels, ContextLabels
  <2>2. QED
    BY <1>0, <1>1, <1>4, <1>8, <2>1, SameOwed
<1>16. OyamaOK'
  <2>1. ListsOK(L, N, D, lo, a, b, s, hi)'
    BY <1>13, <1>14, <1>15 DEF ListsOK
  <2>2. QED
    BY <1>5, <1>6, <2>1 DEF OyamaOK
<1>17. QED
  BY <1>3, <1>16

(* The holder takes the list: it becomes the one that it turns round.       *)
LEMMA ReleaseGrabsKeeps ==
    ASSUME ClientsOK, OyamaOK, NEW t \in Threads, ReleaseGrabs(t), UNCHANGED build
    PROVE  OyamaOK' /\ ClientStep(t)
<1>0. ClientsTypeOK /\ OyamaTypeOK
  BY DEF ClientsOK, OyamaOK
<1>1. /\ pc[t] = "grab" /\ pc'[t] = "reverse" /\ Moves(t)
      /\ reversing' = [reversing EXCEPT ![t] = lockWord] /\ lockWord' = LOCKED
      /\ UNCHANGED <<free, rest, data, context, lockWordValue, batch, response, clientVars>>
  BY <1>0, MoveIs DEF ReleaseGrabs, Labels, HolderLabels
<1>2. pc[t] \in RanLabels /\ pc'[t] \in RanLabels
      /\ pc[t] \in OyamaHoldLabels /\ pc'[t] \in OyamaHoldLabels
  BY <1>1 DEF RanLabels, OyamaHoldLabels
<1>3. PICK L \in [Nat -> Contexts], N \in [Nat -> Nat], D \in [Threads -> Nat],
           lo \in Nat, a \in Nat, b \in Nat, s \in Nat, hi \in Nat :
           ListsOK(L, N, D, lo, a, b, s, hi)
  BY DEF OyamaOK
<1>4. LinkedOK(L, lo, a, b, hi) /\ HeldOK(L, lo, a, b, s, hi) /\ OwedOK(L, N, D, s, hi)
  BY <1>3 DEF ListsOK
<1>5. /\ lockWord = Word(L, b, hi) /\ HolderOK(L, lo, a, b, hi, t)
      /\ \A u \in Threads \ {t} : pc[u] \notin OyamaHoldLabels /\ batch[u] = <<>>
      /\ s = lo
  <2>1. HolderSees(L, lo, a, b, s, hi, t)
    BY <1>2, <1>3, <1>4, HolderIs
  <2>2. QED
    BY <1>1, <2>1 DEF HolderSees
<1>6. lo <= a /\ a <= b /\ b < hi /\ lo = b /\ Len(batch[t]) = b - a
  BY <1>1, <1>4, <1>5 DEF LinkedOK, HolderOK
<1>7. a = b /\ b - a = 0 /\ hi - hi = 0 /\ lo < hi /\ hi <= hi /\ ~(hi < hi) /\ b # hi
  BY <1>6
<1>8. lockWord = L[hi - 1] /\ L[hi - 1] \in Contexts
  <2>1. hi - 1 \in Nat
    BY <1>6
  <2>2. QED
    BY <1>5, <1>7, <2>1 DEF Word
<1>9. /\ reversing'[t] = L[hi - 1]
      /\ OyamaTypeOK'
  BY <1>0, <1>1, <1>8 DEF OyamaTypeOK
<1>10. HolderOK(L, lo, hi, hi, hi, t)'
  <2>1. Len(batch'[t]) = hi - hi
    BY <1>1, <1>6, <1>7
  <2>2. \A i \in 1 .. hi - hi : batch'[t][i] = L[hi + i - 1]
    BY <1>7
  <2>3. QED
    BY <1>1, <1>7, <1>9, <2>1, <2>2 DEF HolderOK
<1>11. HeldOK(L, lo, hi, hi, s, hi)'
  <2>1. lockWord' # FREE /\ lockWord' = Word(L, hi, hi)
    BY <1>1, FlagsAssumption DEF Word
  <2>2. QED
    BY <1>1, <1>2, <1>5, <1>10, <2>1, StillHeld
<1>12. LinkedOK(L, lo, hi, hi, hi)'
  <2>1. \A u \in Threads : pc'[u] \in ContextLabels => pc[u] \in ContextLabels
    BY <1>1 DEF Moves, ContextLabels
  <2>2. IsChain(L, lo, hi)'
    <3>1. IsChain(L, b, hi)
      BY <1>4 DEF LinkedOK
    <3>2. QED
      BY <1>1, <1>6, <3>1 DEF IsChain
  <2>3. IsChain(L, hi, hi)'
    BY DEF IsChain
  <2>4. QED
    BY <1>1, <1>4, <1>7, <2>1, <2>2, <2>3 DEF LinkedOK
<1>13. QED
  BY <1>1, <1>2, <1>3, <1>4, <1>9, <1>11, <1>12, HolderStepKeeps

(* It turns the newest context round that it has not turned yet.            *)
LEMMA ReversesKeeps ==
    ASSUME ClientsOK, OyamaOK, NEW t \in Threads, Reverses(t), UNCHANGED build
    PROVE  OyamaOK' /\ ClientStep(t)
<1>0. ClientsTypeOK /\ OyamaTypeOK
  BY DEF ClientsOK, OyamaOK
<1>1. /\ pc[t] = "reverse" /\ Moves(t)
      /\ pc'[t] = IF rest[reversing[t]] = LOCKED THEN "serve" ELSE "reverse"
      /\ batch' = [batch EXCEPT ![t] = <<reversing[t]>> \o @]
      /\ reversing' = [reversing EXCEPT ![t] = rest[@]]
      /\ UNCHANGED <<lockWord, free, rest, data, context, lockWordValue, response, clientVars>>
  BY <1>0, MoveIs DEF Reverses, Labels, HolderLabels
<1>2. pc[t] \in RanLabels /\ pc'[t] \in RanLabels
      /\ pc[t] \in OyamaHoldLabels /\ pc'[t] \in OyamaHoldLabels
  BY <1>1 DEF RanLabels, OyamaHoldLabels
<1>3. PICK L \in [Nat -> Contexts], N \in [Nat -> Nat], D \in [Threads -> Nat],
           lo \in Nat, a \in Nat, b \in Nat, s \in Nat, hi \in Nat :
           ListsOK(L, N, D, lo, a, b, s, hi)
  BY DEF OyamaOK
<1>4. LinkedOK(L, lo, a, b, hi) /\ HeldOK(L, lo, a, b, s, hi) /\ OwedOK(L, N, D, s, hi)
  BY <1>3 DEF ListsOK
<1>5. /\ lockWord # FREE /\ lockWord = Word(L, b, hi) /\ HolderOK(L, lo, a, b, hi, t)
      /\ \A u \in Threads \ {t} : pc[u] \notin OyamaHoldLabels /\ batch[u] = <<>>
      /\ s = lo
  <2>1. HolderSees(L, lo, a, b, s, hi, t)
    BY <1>2, <1>3, <1>4, HolderIs
  <2>2. QED
    BY <1>1, <2>1 DEF HolderSees
<1>6. lo < a /\ a <= b /\ b <= hi
  BY <1>1, <1>4, <1>5 DEF LinkedOK, HolderOK
<1>7. /\ reversing[t] = L[a - 1]
      /\ Len(batch[t]) = b - a /\ \A i \in 1 .. b - a : batch[t][i] = L[a + i - 1]
  BY <1>1, <1>5 DEF HolderOK
<1>8. PICK c \in Contexts : c = L[a - 1]
  <2>1. a - 1 \in Nat
    BY <1>6
  <2>2. QED
    BY <2>1
<1>9. /\ a - 1 = lo => rest[c] = LOCKED
      /\ a - 1 # lo => rest[c] = L[a - 2] /\ rest[c] # LOCKED
  <2>1. IsChain(L, lo, a)
    BY <1>4 DEF LinkedOK
  <2>2. a - 1 = lo => rest[c] = LOCKED
    BY <1>6, <1>8, <2>1 DEF IsChain
  <2>3. ASSUME a - 1 # lo
        PROVE  rest[c] = L[a - 2] /\ rest[c] # LOCKED
    <3>1. a - 1 \in lo + 1 .. a - 1 /\ (a - 1) - 1 = a - 2 /\ a - 2 \in Nat
      BY <1>6, <2>3
    <3>2. rest[L[a - 1]] = L[a - 2]
      BY <2>1, <3>1 DEF IsChain
    <3>3. L[a - 2] \in Contexts
      BY <3>1
    <3>4. QED
      BY <1>8, <3>2, <3>3, FlagsAssumption
  <2>4. QED
    BY <2>2, <2>3
<1>10. PICK q \in Seq(Contexts) : q = batch[t]
  BY <1>0 DEF OyamaTypeOK
<1>11. /\ batch'[t] = <<c>> \o q /\ reversing'[t] = rest[c]
       /\ \A u \in Threads \ {t} : batch'[u] = batch[u]
       /\ OyamaTypeOK'
  <2>1. <<c>> \o q \in Seq(Contexts) /\ rest[c] \in Contexts \cup {LOCKED}
    BY <1>0 DEF OyamaTypeOK
  <2>2. /\ batch' = [batch EXCEPT ![t] = <<c>> \o q]
        /\ reversing' = [reversing EXCEPT ![t] = rest[c]]
    BY <1>1, <1>7, <1>8, <1>10
  <2>3. batch' \in [Threads -> Seq(Contexts)]
        /\ batch'[t] = <<c>> \o q /\ \A u \in Threads \ {t} : batch'[u] = batch[u]
    BY <1>0, <2>1, <2>2 DEF OyamaTypeOK
  <2>4. reversing' \in [Threads -> Contexts \cup {LOCKED}] /\ reversing'[t] = rest[c]
    BY <1>0, <2>1, <2>2 DEF OyamaTypeOK
  <2>5. QED
    BY <1>0, <1>1, <2>3, <2>4 DEF OyamaTypeOK
<1>12. a - 1 \in Nat /\ lo <= a - 1 /\ a - 1 <= b
  BY <1>6
<1>13. HolderOK(L, lo, a - 1, b, hi, t)'
  <2>1. Len(q) = b - a /\ \A i \in 1 .. b - a : q[i] = L[a + i - 1]
    BY <1>7, <1>10
  <2>2. Len(<<c>> \o q) = b - (a - 1)
    <3>1. Len(<<c>> \o q) = 1 + Len(q) /\ 1 + (b - a) = b - (a - 1)
      OBVIOUS
    <3>2. QED
      BY <2>1, <3>1
  <2>3. ASSUME NEW i \in 1 .. b - (a - 1)
        PROVE  (<<c>> \o q)[i] = L[(a - 1) + i - 1]
    <3>1. CASE i = 1
      <4>1. (<<c>> \o q)[1] = c
        OBVIOUS
      <4>2. (a - 1) + 1 - 1 = a - 1
        BY <1>6
      <4>3. QED
        BY <1>8, <3>1, <4>1, <4>2
    <3>2. CASE i # 1
      <4>1. i - 1 \in 1 .. b - a /\ a + (i - 1) - 1 = (a - 1) + i - 1
        BY <1>6, <3>2
      <4>2. (<<c>> \o q)[i] = q[i - 1]
        BY <2>1, <2>2, <3>2, <4>1
      <4>3. QED
        BY <2>1, <4>1, <4>2
    <3>3. QED
      BY <3>1, <3>2
  <2>4. rest[reversing[t]] = rest[c]
    BY <1>7, <1>8
  <2>5. /\ pc'[t] = "reverse" <=> a - 1 # lo
        /\ pc'[t] \in {"reverse", "serve"}
    BY <1>1, <1>9, <2>4
  <2>6. /\ a - 1 # lo <=> lo < a - 1
        /\ (a - 1) - 1 = a - 2 /\ lo < b
    BY <1>6
  <2>7. /\ Len(batch'[t]) = b - (a - 1)
        /\ \A i \in 1 .. b - (a - 1) : batch'[t][i] = L[(a - 1) + i - 1]
    BY <1>11, <2>2, <2>3
  <2>8. pc'[t] = "reverse" => reversing'[t] = L[(a - 1) - 1]
    BY <1>9, <1>11, <2>5, <2>6
  <2>9. QED
    BY <2>5, <2>6, <2>7, <2>8 DEF HolderOK
<1>14. HeldOK(L, lo, a - 1, b, s, hi)'
  <2>1. lockWord' # FREE /\ lockWord' = Word(L, b, hi) /\ pc'[t] # "giveBack"
        /\ \A u \in Threads \ {t} : pc[u] \notin OyamaHoldLabels /\ batch'[u] = <<>>
    BY <1>1, <1>5, <1>11
  <2>2. s = lo
    BY <1>5
  <2>3. QED
    BY <1>1, <1>2, <1>12, <1>13, <2>1, <2>2, StillHeld
<1>15. LinkedOK(L, lo, a - 1, b, hi)'
  <2>1. \A u \in Threads : pc'[u] \in ContextLabels => pc[u] \in ContextLabels
    BY <1>1 DEF Moves, ContextLabels
  <2>2. IsChain(L, lo, a - 1)' /\ IsChain(L, b, hi)'
    BY <1>1, <1>4, <1>6 DEF IsChain, LinkedOK
  <2>3. QED
    BY <1>1, <1>4, <1>12, <2>1, <2>2 DEF LinkedOK
<1>16. QED
  BY <1>1, <1>2, <1>3, <1>4, <1>11, <1>12, <1>14, <1>15, HolderStepKeeps

LEMMA EmptyChain ==
    ASSUME NEW L, NEW n \in Nat
    PROVE  IsChain(L, n, n)'
BY DEF IsChain

LEMMA TailOf ==
    ASSUME NEW S, NEW q \in Seq(S), q # <<>>
    PROVE  /\ Head(q) = q[1] /\ Head(q) \in S /\ Len(q) \in Nat /\ Len(q) > 0
           /\ Tail(q) \in Seq(S) /\ Len(Tail(q)) = Len(q) - 1
           /\ \A i \in 1 .. Len(q) - 1 : Tail(q)[i] = q[i + 1]
OBVIOUS

(* It gives the context back whose operation it has run.                    *)
LEMMA EndsServiceKeeps ==
    ASSUME ClientsOK, OyamaOK, NEW t \in Threads, EndsService(t), UNCHANGED build
    PROVE  OyamaOK' /\ ClientStep(t)
<1>0. ClientsTypeOK /\ OyamaTypeOK
  BY DEF ClientsOK, OyamaOK
<1>1. /\ pc[t] = "giveBack" /\ Moves(t)
      /\ pc'[t] = IF Len(batch[t]) = 1 THEN "release" ELSE "serve"
      /\ batch' = [batch EXCEPT ![t] = Tail(@)]
      /\ GivesBack(Head(batch[t]))
      /\ UNCHANGED <<lockWord, context, lockWordValue, reversing, response, clientVars>>
  BY <1>0, MoveIs DEF EndsService, Labels, HolderLabels
<1>2. pc[t] \in RanLabels /\ pc'[t] \in RanLabels
      /\ pc[t] \in OyamaHoldLabels /\ pc'[t] \in OyamaHoldLabels
  BY <1>1 DEF RanLabels, OyamaHoldLabels
<1>3. PICK L \in [Nat -> Contexts], N \in [Nat -> Nat], D \in [Threads -> Nat],
           lo \in Nat, a \in Nat, b \in Nat, s \in Nat, hi \in Nat :
           ListsOK(L, N, D, lo, a, b, s, hi)
  BY DEF OyamaOK
<1>4. LinkedOK(L, lo, a, b, hi) /\ HeldOK(L, lo, a, b, s, hi) /\ OwedOK(L, N, D, s, hi)
  BY <1>3 DEF ListsOK
<1>5. /\ lockWord # FREE /\ lockWord = Word(L, b, hi) /\ HolderOK(L, lo, a, b, hi, t)
      /\ \A u \in Threads \ {t} : pc[u] \notin OyamaHoldLabels /\ batch[u] = <<>>
  <2>1. HolderSees(L, lo, a, b, s, hi, t)
    BY <1>2, <1>3, <1>4, HolderIs
  <2>2. QED
    BY <2>1 DEF HolderSees
<1>6. s = lo + 1
  <2>1. HolderSees(L, lo, a, b, s, hi, t)
    BY <1>2, <1>3, <1>4, HolderIs
  <2>2. QED
    BY <1>1, <2>1 DEF HolderSees
<1>7. lo <= a /\ a <= b /\ b <= hi /\ lo < b /\ ~(lo < a)
  BY <1>1, <1>4, <1>5 DEF LinkedOK, HolderOK
<1>8. Len(batch[t]) = b - a /\ \A i \in 1 .. b - a : batch[t][i] = L[a + i - 1]
  BY <1>5 DEF HolderOK
<1>9. a = lo
  BY <1>7
<1>10. PICK q \in Seq(Contexts) : q = batch[t]
  BY <1>0 DEF OyamaTypeOK
<1>11. Len(q) = b - lo /\ \A i \in 1 .. b - lo : q[i] = L[lo + i - 1]
  BY <1>8, <1>9, <1>10
<1>12. q # <<>>
  <2>1. b - lo > 0
    BY <1>7
  <2>2. QED
    BY <1>11, <2>1
<1>13. PICK c \in Contexts : c = L[lo]
  OBVIOUS
<1>14. Head(q) = c
  <2>1. 1 \in 1 .. b - lo /\ lo + 1 - 1 = lo
    BY <1>7
  <2>2. q[1] = L[lo]
    BY <1>11, <2>1
  <2>3. QED
    BY <1>12, <1>13, <2>2, TailOf
<1>15. /\ free' = [free EXCEPT ![c] = TRUE]
       /\ rest' = [rest EXCEPT ![c] = LOCKED]
       /\ data' = [data EXCEPT ![c] = 0]
       /\ batch' = [batch EXCEPT ![t] = Tail(q)]
  BY <1>1, <1>10, <1>14 DEF GivesBack
<1>16. \A x \in Contexts \ {c} :
           free'[x] = free[x] /\ rest'[x] = rest[x] /\ data'[x] = data[x]
  BY <1>0, <1>15 DEF OyamaTypeOK
<1>17. Tail(q) \in Seq(Contexts)
  BY <1>12, TailOf
<1>18. /\ OyamaTypeOK' /\ batch'[t] = Tail(q)
       /\ \A u \in Threads \ {t} : batch'[u] = batch[u]
  <2>1. /\ free' \in [Contexts -> BOOLEAN] /\ rest' \in [Contexts -> Contexts \cup {LOCKED}]
        /\ data' \in [Contexts -> Int]
    <3>1. /\ free \in [Contexts -> BOOLEAN] /\ rest \in [Contexts -> Contexts \cup {LOCKED}]
          /\ data \in [Contexts -> Int]
      BY <1>0 DEF OyamaTypeOK
    <3>2. free' \in [Contexts -> BOOLEAN] /\ rest' \in [Contexts -> Contexts \cup {LOCKED}]
      BY <1>15, <3>1
    <3>3. data' \in [Contexts -> Int]
      BY <1>15, <3>1
    <3>4. QED
      BY <3>2, <3>3
  <2>2. /\ batch' \in [Threads -> Seq(Contexts)] /\ batch'[t] = Tail(q)
        /\ \A u \in Threads \ {t} : batch'[u] = batch[u]
    BY <1>0, <1>15, <1>17 DEF OyamaTypeOK
  <2>3. QED
    BY <1>0, <1>1, <2>1, <2>2 DEF OyamaTypeOK
<1>19. lo + 1 \in Nat /\ lo + 1 <= b
  BY <1>7
<1>20. /\ \A i \in lo + 1 .. hi - 1 : L[i] # c
       /\ \A u \in Threads : pc[u] \in ContextLabels => context[u] # c
  <2>1. lo \in lo .. hi - 1
    BY <1>7
  <2>2. \A u \in Threads : pc[u] \in ContextLabels => context[u] # L[lo]
    BY <1>4, <2>1 DEF LinkedOK
  <2>3. \A i \in lo + 1 .. hi - 1 : i \in lo .. hi - 1 /\ i # lo
    OBVIOUS
  <2>4. \A i \in lo + 1 .. hi - 1 : L[i] # L[lo]
    BY <1>4, <2>1, <2>3 DEF LinkedOK
  <2>5. QED
    BY <1>13, <2>2, <2>4
<1>21. HolderOK(L, lo + 1, lo + 1, b, hi, t)'
  <2>1. /\ Len(Tail(q)) = Len(q) - 1
        /\ \A i \in 1 .. Len(q) - 1 : Tail(q)[i] = q[i + 1]
    BY <1>12, TailOf
  <2>2. Len(Tail(q)) = b - (lo + 1)
    <3>1. (b - lo) - 1 = b - (lo + 1)
      OBVIOUS
    <3>2. QED
      BY <1>11, <2>1, <3>1
  <2>3. ASSUME NEW i \in 1 .. b - (lo + 1)
        PROVE  Tail(q)[i] = L[(lo + 1) + i - 1]
    <3>1. i \in 1 .. (b - lo) - 1 /\ i + 1 \in 1 .. b - lo
          /\ lo + (i + 1) - 1 = (lo + 1) + i - 1
      OBVIOUS
    <3>2. i \in 1 .. Len(q) - 1
      BY <1>11, <3>1
    <3>3. Tail(q)[i] = q[i + 1]
      BY <2>1, <3>2
    <3>4. q[i + 1] = L[lo + (i + 1) - 1]
      BY <1>11, <3>1
    <3>5. QED
      BY <3>1, <3>3, <3>4
  <2>4. /\ pc'[t] \in {"release", "serve"}
        /\ pc'[t] = "release" <=> b - lo = 1
    <3>1. Len(batch[t]) = b - lo
      BY <1>10, <1>11
    <3>2. QED
      BY <1>1, <3>1
  <2>5. (b - lo = 1 <=> lo + 1 = b) /\ (b - lo # 1 => lo + 1 < b) /\ ~(lo + 1 < lo + 1)
    BY <1>7
  <2>6. /\ Len(batch'[t]) = b - (lo + 1)
        /\ \A i \in 1 .. b - (lo + 1) : batch'[t][i] = L[(lo + 1) + i - 1]
    BY <1>18, <2>2, <2>3
  <2>7. /\ pc'[t] \notin {"grab", "reverse", "giveBack"}
        /\ pc'[t] \notin {"reverse", "serve", "giveBack"} => lo + 1 = b
        /\ pc'[t] \in {"serve", "giveBack"} => lo + 1 < b
    BY <2>4, <2>5
  <2>8. QED
    BY <2>5, <2>6, <2>7 DEF HolderOK
<1>22. HeldOK(L, lo + 1, lo + 1, b, s, hi)'
  <2>1. lockWord' # FREE /\ lockWord' = Word(L, b, hi) /\ pc'[t] # "giveBack"
        /\ \A u \in Threads \ {t} : pc[u] \notin OyamaHoldLabels /\ batch'[u] = <<>>
    BY <1>1, <1>5, <1>18
  <2>2. QED
    BY <1>1, <1>2, <1>6, <1>19, <1>21, <2>1, StillHeld
<1>23. LinkedOK(L, lo + 1, lo + 1, b, hi)'
  <2>1. \A u \in Threads : pc'[u] \in ContextLabels =>
            pc[u] \in ContextLabels /\ context'[u] = context[u]
    BY <1>1 DEF Moves, ContextLabels
  <2>2. \A i \in lo + 1 .. hi - 1 :
            i \in lo .. hi - 1 /\ free'[L[i]] = free[L[i]] /\ rest'[L[i]] = rest[L[i]]
    <3>1. ASSUME NEW i \in lo + 1 .. hi - 1
          PROVE  i \in lo .. hi - 1 /\ L[i] \in Contexts \ {c}
      <4>1. i \in lo .. hi - 1 /\ i \in Nat
        OBVIOUS
      <4>2. L[i] # c
        BY <1>20
      <4>3. L[i] \in Contexts
        BY <4>1
      <4>4. QED
        BY <4>1, <4>2, <4>3
    <3>2. QED
      BY <1>16, <3>1
  <2>3. IsChain(L, lo + 1, lo + 1)'
    BY <1>19, EmptyChain
  <2>4. IsChain(L, b, hi)'
    <3>1. IsChain(L, b, hi)
      BY <1>4 DEF LinkedOK
    <3>2. \A i \in b .. hi - 1 : rest'[L[i]] = rest[L[i]]
      BY <1>19, <2>2
    <3>3. b < hi => b \in b .. hi - 1 /\ rest'[L[b]] = rest[L[b]]
      <4>1. b < hi => b \in b .. hi - 1
        OBVIOUS
      <4>2. QED
        BY <3>2, <4>1
    <3>4. \A i \in b + 1 .. hi - 1 : rest'[L[i]] = rest[L[i]]
      BY <3>2
    <3>5. QED
      BY <3>1, <3>3, <3>4 DEF IsChain
  <2>5. \A i, j \in lo + 1 .. hi - 1 : i # j => L[i] # L[j]
    BY <1>4, <2>2 DEF LinkedOK
  <2>6. \A i \in lo + 1 .. hi - 1 : ~free'[L[i]]
    BY <1>4, <2>2 DEF LinkedOK
  <2>7. \A u \in Threads : pc'[u] \in ContextLabels =>
            \A i \in lo + 1 .. hi - 1 : context'[u] # L[i]
    <3>1. \A u \in Threads : pc[u] \in ContextLabels =>
              \A i \in lo .. hi - 1 : context[u] # L[i]
      BY <1>4 DEF LinkedOK
    <3>2. \A i \in lo + 1 .. hi - 1 : i \in lo .. hi - 1
      OBVIOUS
    <3>3. QED
      BY <2>1, <3>1, <3>2
  <2>8. lo + 1 <= lo + 1 /\ b <= hi
    BY <1>7
  <2>9. QED
    BY <1>19, <2>3, <2>4, <2>5, <2>6, <2>7, <2>8 DEF LinkedOK
<1>24. \A u \in Threads : pc[u] \in ContextLabels =>
           /\ free'[context[u]] = free[context[u]]
           /\ rest'[context[u]] = rest[context[u]]
           /\ data'[context[u]] = data[context[u]]
  BY <1>0, <1>16, <1>20 DEF OyamaTypeOK
<1>25. \A i \in s .. hi - 1 : data'[L[i]] = data[L[i]]
  BY SMTT(30), <1>6, <1>16, <1>20
<1>26. QED
  BY <1>1, <1>2, <1>3, <1>4, <1>18, <1>19, <1>22, <1>23, <1>24, <1>25, HolderStepKeeps

(* The oldest operation in the batch is the oldest of its thread that has   *)
(* not run.                                                                 *)
IsOldest(L, N, D, s, u) ==
    /\ N[s] = D[u] + 1 /\ Listed(u) \in Nat /\ Listed(u) > 0
    /\ pending[u] # <<>> /\ data[L[s]] = Head(pending[u])

LEMMA FirstIsOldest ==
    ASSUME NEW L \in [Nat -> Contexts], NEW N \in [Nat -> Nat], NEW D \in [Threads -> Nat],
           NEW s \in Nat, NEW hi \in Nat, NEW u \in Threads,
           ClientsTypeOK, OwedOK(L, N, D, s, hi), s < hi, L[s] \in {u} \X (0 .. RingSize - 1)
    PROVE  IsOldest(L, N, D, s, u)
<1>1. s \in s .. hi - 1 /\ L[s][1] = u
  OBVIOUS
<1>2. N[s] \in D[u] + 1 .. D[u] + Listed(u) /\ data[L[s]] = pending[u][N[s] - D[u]]
  BY <1>1 DEF OwedOK
<1>3. PICK n \in Int : n = Listed(u)
  BY ListedIs
<1>4. N[s] \in Nat /\ D[u] \in Nat
  OBVIOUS
<1>5. D[u] + 1 \in D[u] + 1 .. D[u] + n /\ N[s] >= D[u] + 1
  BY <1>2, <1>3, <1>4
<1>6. PICK j \in s .. hi - 1 : L[j][1] = u /\ N[j] = D[u] + 1
  BY <1>3, <1>5 DEF OwedOK
<1>7. j = s
  <2>1. ASSUME j # s
        PROVE  FALSE
    <3>1. s < j
      BY <2>1
    <3>2. N[s] < N[j]
      BY <1>1, <1>6, <3>1 DEF OwedOK
    <3>3. QED
      BY <1>4, <1>5, <1>6, <3>2
  <2>2. QED
    BY <2>1
<1>8. N[s] = D[u] + 1
  BY <1>6, <1>7
<1>9. /\ pending[u] \in Seq(Args) /\ Len(pending[u]) \in Nat /\ n <= Len(pending[u])
  BY <1>3, ListedIs
<1>10. pending[u] # <<>>
  <2>1. PICK len \in Nat : len = Len(pending[u])
    BY <1>9
  <2>2. n <= len
    BY <1>9, <2>1
  <2>3. n > 0
    BY <1>4, <1>5
  <2>4. len # 0
    BY <2>2, <2>3
  <2>5. Len(<<>>) = 0
    OBVIOUS
  <2>6. QED
    BY <2>1, <2>4, <2>5
<1>11. data[L[s]] = pending[u][1]
  <2>1. (D[u] + 1) - D[u] = 1
    BY <1>4
  <2>2. QED
    BY <1>2, <1>8, <2>1
<1>12. Head(pending[u]) = pending[u][1]
  BY <1>9, <1>10
<1>13. Listed(u) \in Nat /\ Listed(u) > 0
  <2>1. n \in Nat /\ n > 0
    BY <1>4, <1>5
  <2>2. QED
    BY <1>3, <2>1
<1>14. QED
  BY <1>8, <1>10, <1>11, <1>12, <1>13 DEF IsOldest

LEMMA WithoutFirst ==
    ASSUME NEW d \in Nat, NEW n \in Nat, n > 0
    PROVE  /\ \A k \in (d + 1) + 1 .. (d + 1) + (n - 1) : k \in d + 1 .. d + n /\ k # d + 1
           /\ \A k \in d + 1 .. d + n : k > d + 1 =>
                  k \in (d + 1) + 1 .. (d + 1) + (n - 1)
           /\ \A k \in d + 1 .. d + n, m \in Nat : k > d + 1 /\ n <= m =>
                  k - (d + 1) \in 1 .. m - 1 /\ (k - (d + 1)) + 1 = k - d
OBVIOUS

(* What is owed when it has run.                                            *)
RunsFirst(D, D1, u) ==
    /\ \A v \in Threads : D1[v] = IF v = u THEN D[v] + 1 ELSE D[v]
    /\ pending'[u] = Tail(pending[u]) /\ Listed(u)' = Listed(u) - 1
    /\ \A v \in Threads \ {u} : pending'[v] = pending[v] /\ Listed(v)' = Listed(v)

LEMMA OneLessOwed ==
    ASSUME NEW L \in [Nat -> Contexts], NEW N \in [Nat -> Nat], NEW D \in [Threads -> Nat],
           NEW s \in Nat, NEW hi \in Nat, NEW u \in Threads, NEW D1 \in [Threads -> Nat],
           ClientsTypeOK, OwedOK(L, N, D, s, hi), s < hi,
           L[s] \in {u} \X (0 .. RingSize - 1), UNCHANGED data, RunsFirst(D, D1, u)
    PROVE  OwedOK(L, N, D1, s + 1, hi)'
<1>1. /\ D1[u] = D[u] + 1 /\ \A v \in Threads \ {u} : D1[v] = D[v]
      /\ L[s][1] = u
      /\ \A v \in Threads \ {u} : pending'[v] = pending[v] /\ Listed(v)' = Listed(v)
  BY DEF RunsFirst
<1>2. IsOldest(L, N, D, s, u)
  BY FirstIsOldest
<1>3. PICK n \in Nat : n = Listed(u)
  BY <1>2 DEF IsOldest
<1>4. PICK q \in Seq(Args) : q = pending[u]
  BY DEF ClientsTypeOK
<1>5. n > 0 /\ n <= Len(q)
  BY <1>2, <1>3, <1>4, ListedIs DEF IsOldest
<1>6. \A k \in 1 .. Len(q) - 1 : Tail(q)[k] = q[k + 1]
  <2>1. q # <<>>
    BY <1>2, <1>4 DEF IsOldest
  <2>2. QED
    BY <2>1, TailOf
<1>7. pending'[u] = Tail(q) /\ Listed(u)' = n - 1
  BY <1>3, <1>4 DEF RunsFirst
<1>8. PICK d \in Nat : d = D[u]
  OBVIOUS
<1>9. \A i \in s + 1 .. hi - 1 : i \in s .. hi - 1 /\ s < i
  OBVIOUS
<1>10. s \in s .. hi - 1
  OBVIOUS
<1>11. ASSUME NEW i \in s + 1 .. hi - 1
       PROVE  /\ N[i] \in D1[L[i][1]] + 1 .. D1[L[i][1]] + Listed(L[i][1])'
              /\ data'[L[i]] = pending'[L[i][1]][N[i] - D1[L[i][1]]]
  <2>0. L[i] \in Contexts /\ N[i] \in Nat
    <3>1. i \in Nat
      OBVIOUS
    <3>2. QED
      BY <3>1
  <2>1. PICK v \in Threads : v = L[i][1]
    BY <2>0, OwnerIsThread
  <2>2. /\ N[i] \in D[v] + 1 .. D[v] + Listed(v)
        /\ data[L[i]] = pending[v][N[i] - D[v]]
    BY <1>9, <2>1 DEF OwedOK
  <2>3. CASE v # u
    BY <1>1, <2>1, <2>2, <2>3
  <2>4. CASE v = u
    <3>1. N[s] < N[i]
      BY <1>9, <1>10, <2>1, <2>4 DEF OwedOK
    <3>2. PICK m \in Nat : m = N[i]
      BY <2>0
    <3>3. m \in d + 1 .. d + n /\ m > d + 1
      BY <1>2, <1>3, <1>8, <2>2, <2>4, <3>1, <3>2 DEF IsOldest
    <3>4. data[L[i]] = q[m - d]
      BY <1>4, <1>8, <2>2, <2>4, <3>2
    <3>5. m \in (d + 1) + 1 .. (d + 1) + (n - 1)
      BY <1>5, <3>3, WithoutFirst
    <3>6. PICK len \in Nat : len = Len(q)
      OBVIOUS
    <3>7. m - (d + 1) \in 1 .. len - 1 /\ (m - (d + 1)) + 1 = m - d
      BY <1>5, <3>3, <3>6, WithoutFirst
    <3>8. Tail(q)[m - (d + 1)] = q[m - d]
      BY <1>6, <3>6, <3>7
    <3>9. D1[u] = d + 1
      BY <1>1, <1>8
    <3>10. N[i] \in D1[u] + 1 .. D1[u] + Listed(u)'
      BY <1>7, <3>2, <3>5, <3>9
    <3>11. data'[L[i]] = pending'[u][N[i] - D1[u]]
      BY <1>7, <3>2, <3>4, <3>8, <3>9
    <3>12. QED
      BY <2>1, <2>4, <3>10, <3>11
  <2>5. QED
    BY <2>3, <2>4
<1>12. ASSUME NEW v \in Threads, NEW k \in D1[v] + 1 .. D1[v] + Listed(v)'
       PROVE  \E i \in s + 1 .. hi - 1 : L[i][1] = v /\ N[i] = k
  <2>1. \A i \in s .. hi - 1 : i # s => i \in s + 1 .. hi - 1
    OBVIOUS
  <2>2. CASE v # u
    <3>1. k \in D[v] + 1 .. D[v] + Listed(v)
      BY <1>1, <2>2
    <3>2. PICK i \in s .. hi - 1 : L[i][1] = v /\ N[i] = k
      BY <3>1 DEF OwedOK
    <3>3. i # s
      BY <2>2, <3>2
    <3>4. QED
      BY <2>1, <3>2, <3>3
  <2>3. CASE v = u
    <3>1. k \in (d + 1) + 1 .. (d + 1) + (n - 1)
      BY <1>1, <1>7, <1>8, <2>3
    <3>2. k \in d + 1 .. d + n /\ k # d + 1
      BY <1>5, <3>1, WithoutFirst
    <3>3. PICK i \in s .. hi - 1 : L[i][1] = u /\ N[i] = k
      BY <1>3, <1>8, <3>2 DEF OwedOK
    <3>4. i # s
      BY <1>2, <1>8, <3>2, <3>3 DEF IsOldest
    <3>5. QED
      BY <2>1, <2>3, <3>3, <3>4
  <2>4. QED
    BY <2>2, <2>3
<1>13. \A i, j \in s + 1 .. hi - 1 : i < j /\ L[i][1] = L[j][1] => N[i] < N[j]
  BY <1>9 DEF OwedOK
<1>14. QED
  BY <1>11, <1>12, <1>13 DEF OwedOK

(* The holder runs the oldest operation of the batch.                       *)
LEMMA ServesKeeps ==
    ASSUME ClientsOK, OyamaOK, build \in {oyama, oyamaopt}, NEW t \in Threads, Serves(t),
           UNCHANGED build
    PROVE  OyamaOK' /\ ClientStep(t)
<1>0. ClientsTypeOK /\ OyamaTypeOK /\ \A v \in Threads : OyamaThreadOK(v) /\ ClientOK(v)
  BY DEF ClientsOK, OyamaOK
<1>1. /\ pc[t] = "serve" /\ pc'[t] = "giveBack" /\ Moves(t) /\ batch[t] # <<>>
      /\ Answers(Head(batch[t])[1], data[Head(batch[t])])
      /\ UNCHANGED <<lockWord, free, rest, data, context, lockWordValue, reversing, batch>>
  BY <1>0, MoveIs DEF Serves, Labels, HolderLabels
<1>2. pc[t] \in RanLabels /\ pc'[t] \in RanLabels
      /\ pc[t] \in OyamaHoldLabels /\ pc'[t] \in OyamaHoldLabels
  BY <1>1 DEF RanLabels, OyamaHoldLabels
<1>3. PICK L \in [Nat -> Contexts], N \in [Nat -> Nat], D \in [Threads -> Nat],
           lo \in Nat, a \in Nat, b \in Nat, s \in Nat, hi \in Nat :
           ListsOK(L, N, D, lo, a, b, s, hi)
  BY DEF OyamaOK
<1>4. LinkedOK(L, lo, a, b, hi) /\ HeldOK(L, lo, a, b, s, hi) /\ OwedOK(L, N, D, s, hi)
  BY <1>3 DEF ListsOK
<1>5. /\ lockWord # FREE /\ lockWord = Word(L, b, hi) /\ HolderOK(L, lo, a, b, hi, t)
      /\ \A v \in Threads \ {t} : pc[v] \notin OyamaHoldLabels /\ batch[v] = <<>>
  <2>1. HolderSees(L, lo, a, b, s, hi, t)
    BY <1>2, <1>3, <1>4, HolderIs
  <2>2. QED
    BY <2>1 DEF HolderSees
<1>6. s = lo
  <2>1. HolderSees(L, lo, a, b, s, hi, t)
    BY <1>2, <1>3, <1>4, HolderIs
  <2>2. QED
    BY <1>1, <2>1 DEF HolderSees
<1>7. lo <= a /\ a <= b /\ b <= hi /\ lo < b /\ ~(lo < a)
  BY <1>1, <1>4, <1>5 DEF LinkedOK, HolderOK
<1>8. lo < hi /\ 1 \in 1 .. b - a /\ a + 1 - 1 = lo
  BY <1>7
<1>9. PICK c \in Contexts : c = L[lo]
  OBVIOUS
<1>10. PICK u \in Threads : u = c[1]
  BY OwnerIsThread
<1>11. Head(batch[t]) = c
  <2>1. batch[t][1] = L[a + 1 - 1]
    BY <1>5, <1>8 DEF HolderOK
  <2>2. Head(batch[t]) = batch[t][1]
    BY <1>0, <1>1, TailOf DEF OyamaTypeOK
  <2>3. QED
    BY <1>8, <1>9, <2>1, <2>2
<1>12. OwedOK(L, N, D, lo, hi)
  BY <1>4, <1>6
<1>13. L[lo] \in {u} \X (0 .. RingSize - 1)
  BY <1>9, <1>10 DEF Contexts
<1>14. IsOldest(L, N, D, lo, u)
  BY <1>0, <1>3, <1>8, <1>12, <1>13, FirstIsOldest
<1>15. PICK arg \in Args : arg = Head(pending[u])
  BY <1>0, <1>14, TailOf DEF IsOldest, ClientsTypeOK
<1>16. Answers(u, arg) /\ pending[u] # <<>> /\ Head(pending[u]) = arg
  BY <1>1, <1>9, <1>10, <1>11, <1>14, <1>15 DEF IsOldest
<1>17. /\ Runs(u, Head(pending[u]))
       /\ pending'[u] = Tail(pending[u]) /\ request' = request
       /\ arg = DEQUEUE => response'[u] = answer'[u]
       /\ arg # DEQUEUE => response'[u] = response[u] /\ answer'[u] = answer[u]
       /\ \A w \in Threads \ {u} : /\ pending'[w] = pending[w] /\ answer'[w] = answer[w]
                                   /\ response'[w] = response[w]
       /\ response' \in [Threads -> Int]
  BY <1>0, <1>16, AnswersIs
<1>18. ClientStep(t)
  BY <1>1, <1>16, <1>17 DEF ClientStep, RunsNext
<1>19. OyamaTypeOK'
  BY <1>0, <1>1, <1>17 DEF OyamaTypeOK
<1>20. /\ pending[t] = <<>> /\ u # t
       /\ \A v \in Threads \ {t} : pc'[v] = pc[v]
       /\ pc[u] \notin OyamaHoldLabels
  <2>1. pending[t] = <<>>
    BY <1>0, <1>2 DEF OyamaThreadOK
  <2>2. u # t
    BY <1>16, <2>1
  <2>3. QED
    BY <1>1, <1>5, <2>1, <2>2 DEF Moves
<1>21. PICK q \in Seq(Args) : q = pending[u]
  BY <1>0 DEF ClientsTypeOK
<1>22. /\ q # <<>> /\ Head(q) = arg /\ pending'[u] = Tail(q) /\ q[1] = arg
       /\ Tail(q) \in Seq(Args) /\ Len(Tail(q)) = Len(q) - 1
       /\ \A i \in 1 .. Len(q) - 1 : Tail(q)[i] = q[i + 1]
  BY <1>16, <1>17, <1>21, TailOf
<1>23. pc[u] \in UnlistedLabels => Len(q) > 1
  <2>1. Listed(u) > 0 /\ Listed(u) \in Nat
    BY <1>14 DEF IsOldest
  <2>2. pc[u] \in UnlistedLabels => Listed(u) = Len(q) - 1
    BY <1>21 DEF Listed
  <2>3. QED
    BY <2>1, <2>2
<1>24. Listed(u)' = Listed(u) - 1 /\ \A v \in Threads \ {u} : Listed(v)' = Listed(v)
  <2>1. \A v \in Threads : pc'[v] \in UnlistedLabels <=> pc[v] \in UnlistedLabels
    BY <1>1, <1>20 DEF UnlistedLabels, ContextLabels
  <2>2. Len(pending'[u]) = Len(pending[u]) - 1 /\ Len(pending[u]) \in Nat
    BY <1>21, <1>22
  <2>3. Listed(u)' = Listed(u) - 1
    BY <2>1, <2>2 DEF Listed
  <2>4. \A v \in Threads \ {u} : Listed(v)' = Listed(v)
    BY <1>17, <2>1 DEF Listed
  <2>5. QED
    BY <2>3, <2>4
<1>25. PICK D1 \in [Threads -> Nat] :
           \A v \in Threads : D1[v] = IF v = u THEN D[v] + 1 ELSE D[v]
  <2>1. [v \in Threads |-> IF v = u THEN D[v] + 1 ELSE D[v]] \in [Threads -> Nat]
    BY SMTT(30)
  <2>2. QED
    BY <2>1
<1>26. OwedOK(L, N, D1, lo + 1, hi)'
  <2>1. RunsFirst(D, D1, u)
    BY <1>17, <1>24, <1>25 DEF RunsFirst
  <2>2. QED
    BY <1>0, <1>1, <1>3, <1>8, <1>12, <1>13, <2>1, OneLessOwed
<1>27. LinkedOK(L, lo, a, b, hi)'
  <2>1. \A v \in Threads : pc'[v] \in ContextLabels => pc[v] \in ContextLabels
    BY <1>1, <1>20 DEF ContextLabels
  <2>2. \A v \in Threads : pc'[v] \in ContextLabels =>
            \A i \in lo .. hi - 1 : context'[v] # L[i]
    BY <1>1, <1>4, <2>1 DEF LinkedOK
  <2>3. QED
    BY <1>1, <1>3, <1>4, <2>2, SameLinks
<1>28. HeldOK(L, lo, a, b, lo + 1, hi)'
  <2>1. HolderOK(L, lo, a, b, hi, t)'
    BY <1>1, <1>5, <1>7 DEF HolderOK
  <2>2. lockWord' # FREE /\ lockWord' = Word(L, b, hi) /\ lo + 1 \in Nat
        /\ \A v \in Threads \ {t} : pc[v] \notin OyamaHoldLabels /\ batch'[v] = <<>>
    BY <1>1, <1>5
  <2>3. QED
    BY <1>1, <1>2, <1>3, <2>1, <2>2, StillHeld
<1>29. OyamaThreadOK(u)'
  <2>1. OyamaThreadOK(u) /\ pc'[u] = pc[u]
    BY <1>0, <1>20
  <2>2. pc[u] \notin {"own", "ownContext"} /\ pc[u] \notin RanLabels
    BY <1>20 DEF OyamaHoldLabels, RanLabels
  <2>3. pc'[u] \in UnlistedLabels =>
            pending'[u] # <<>> /\ pending'[u][Len(pending'[u])] = request'[u]
    <3>1. ASSUME pc[u] \in UnlistedLabels
          PROVE  Tail(q) # <<>> /\ Tail(q)[Len(Tail(q))] = request[u]
      <4>1. q[Len(q)] = request[u]
        BY <1>21, <2>1, <3>1 DEF OyamaThreadOK
      <4>2. Len(q) \in Nat /\ Len(q) > 1
        BY <1>23, <3>1
      <4>3. Len(q) - 1 \in 1 .. Len(q) - 1 /\ (Len(q) - 1) + 1 = Len(q) /\ Len(q) - 1 # 0
        <5>1. PICK len \in Nat : len = Len(q)
          BY <4>2
        <5>2. len > 1
          BY <4>2, <5>1
        <5>3. len - 1 \in 1 .. len - 1 /\ (len - 1) + 1 = len /\ len - 1 # 0
          BY <5>2
        <5>4. QED
          BY <5>1, <5>3
      <4>4. Tail(q)[Len(q) - 1] = q[Len(q)]
        BY <1>22, <4>3
      <4>5. Len(Tail(q)) # Len(<<>>)
        <5>1. Len(<<>>) = 0
          OBVIOUS
        <5>2. QED
          BY <1>22, <4>3, <5>1
      <4>6. Tail(q) # <<>>
        BY <4>5
      <4>7. QED
        BY <1>22, <4>1, <4>4, <4>6
    <3>2. QED
      BY <1>17, <1>22, <2>1, <3>1
  <2>4. response'[u] # 0 =>
            request'[u] = DEQUEUE /\ pending'[u] = <<>> /\ response'[u] = answer'[u]
    <3>1. CASE arg = DEQUEUE
      <4>1. PICK len \in Nat : len = Len(q)
        OBVIOUS
      <4>2. len # 0
        BY <1>22, <4>1
      <4>3. 1 \in 1 .. len
        BY <4>2
      <4>4. 1 = len /\ request[u] = DEQUEUE
        BY <1>0, <1>21, <1>22, <3>1, <4>1, <4>3 DEF ClientOK
      <4>5. Len(q) = 1
        BY <4>1, <4>4
      <4>6. Tail(q) = <<>>
        BY <4>5, OfOne
      <4>7. QED
        BY <1>17, <1>22, <3>1, <4>4, <4>6
    <3>2. CASE arg # DEQUEUE
      <4>1. response[u] = 0
        BY <1>16, <2>1 DEF OyamaThreadOK
      <4>2. QED
        BY <1>17, <3>2, <4>1
    <3>3. QED
      BY <3>1, <3>2
  <2>5. QED
    BY <1>1, <1>17, <2>1, <2>2, <2>3, <2>4 DEF OyamaThreadOK
<1>30. ASSUME NEW v \in Threads \ {u}
       PROVE  OyamaThreadOK(v)'
  <2>1. OyamaThreadOK(v)
    BY <1>0
  <2>2. CASE v = t
    BY <1>1, <1>2, <1>17, <2>1, <2>2
       DEF OyamaThreadOK, RanLabels, UnlistedLabels, ContextLabels, OyamaLabels, OyamaHoldLabels
  <2>3. CASE v # t
    BY <1>1, <1>17, <1>20, <2>1, <2>3 DEF OyamaThreadOK
  <2>4. QED
    BY <2>2, <2>3
<1>31. OyamaOK'
  <2>1. ListsOK(L, N, D1, lo, a, b, lo + 1, hi)'
    BY <1>26, <1>27, <1>28 DEF ListsOK
  <2>2. lo + 1 \in Nat
    OBVIOUS
  <2>3. \A v \in Threads : OyamaThreadOK(v)'
    BY <1>29, <1>30
  <2>4. QED
    BY <1>19, <2>1, <2>2, <2>3 DEF OyamaOK
<1>32. QED
  BY <1>18, <1>31

LEMMA OyamaStepKeeps ==
    ASSUME ClientsOK, OyamaOK, build \in {oyama, oyamaopt}, NEW t \in Threads, OyamaStep(t),
           UNCHANGED build
    PROVE  OyamaOK' /\ ClientStep(t)
<1>1. CASE Makes(t)
  BY <1>1, MakesKeeps
<1>2. CASE InsertLoads(t)
  BY <1>2, InsertLoadsKeeps
<1>3. CASE InsertSwaps(t)
  <2>1. CASE lockWord # lockWordValue[t]
    BY <1>3, <2>1, InsertFailsKeeps
  <2>2. CASE lockWord = lockWordValue[t] /\ lockWord = FREE
    BY <1>3, <2>2, InsertTakesKeeps
  <2>3. CASE lockWord = lockWordValue[t] /\ lockWord # FREE
    BY <1>3, <2>3, InsertPutsKeeps
  <2>4. QED
    BY <2>1, <2>2, <2>3
<1>4. CASE RunsOwn(t) \/ RunsOwnContext(t)
  BY <1>4, RunsOwnKeeps
<1>5. CASE ReleaseSwaps(t)
  BY <1>5, ReleaseSwapsKeeps
<1>6. CASE ReleaseFails(t)
  BY <1>6, ReleaseFailsKeeps
<1>7. CASE ReleaseGrabs(t)
  BY <1>7, ReleaseGrabsKeeps
<1>8. CASE Reverses(t)
  BY <1>8, ReversesKeeps
<1>9. CASE Serves(t)
  BY <1>9, ServesKeeps
<1>10. CASE EndsService(t)
  BY <1>10, EndsServiceKeeps
<1>11. CASE Awaits(t)
  BY <1>11, AwaitsKeeps
<1>12. QED
  BY <1>1, <1>2, <1>3, <1>4, <1>5, <1>6, <1>7, <1>8, <1>9, <1>10, <1>11 DEF OyamaStep

(****************************************************************************)
(* All builds.                                                              *)
(****************************************************************************)
IInv ==
    /\ ClientsOK
    /\ build = clh => CLHOK
    /\ build \in {ccsynch, hsynch} => SynchOK
    /\ build = hsynch => CLHQueueOK
    /\ build \in {oyama, oyamaopt} /\ Threads # {} => OyamaOK
    /\ build = flatcomb => FlatOK

LEMMA BuildsDiffer ==
    /\ clh \notin {ccsynch, hsynch, oyama, oyamaopt, flatcomb}
    /\ flatcomb \notin {ccsynch, hsynch, oyama, oyamaopt}
    /\ ccsynch \notin {hsynch, oyama, oyamaopt}
    /\ hsynch \notin {oyama, oyamaopt}
<1>1. /\ clh.name = "clh" /\ ccsynch.name = "ccsynch" /\ hsynch.name = "hsynch"
      /\ oyama.name = "oyama" /\ oyamaopt.name = "oyamaopt" /\ flatcomb.name = "flatcomb"
  BY DEF clh, ccsynch, hsynch, oyama, oyamaopt, flatcomb
<1>2. QED
  BY <1>1

LEMMA ClientsInitially ==
    ASSUME Init
    PROVE  ClientsOK
<1>1. ClientsTypeOK
  BY ArgsAreNumbers
     DEF Init, ClientsInit, ClientsTypeOK, HeapOK, Labels, Args, Answers_
<1>2. \A t \in Threads : /\ pc[t] = "idle" /\ request[t] = 0 /\ answer[t] = 0
                         /\ pending[t] = <<>>
  BY DEF Init, ClientsInit
<1>3. \A i : i \notin 1 .. Len(<<>>)
  <2>1. Len(<<>>) = 0
    OBVIOUS
  <2>2. QED
    BY <2>1
<1>4. \A t \in Threads : ClientOK(t)
  BY <1>2, <1>3, ArgsAreNumbers DEF ClientOK
<1>5. QED
  BY <1>1, <1>4 DEF ClientsOK

LEMMA QueueInitially ==
    ASSUME Init
    PROVE  CLHQueueOK
<1>1. /\ \A t \in Threads : pc[t] = "idle" /\ MyNode[t] = t
      /\ clhTail = Central
  BY DEF Init, CLHInit
<1>2. CLHTypeOK
  BY DEF Init, CLHInit, CLHTypeOK, CLHNodes
<1>3. \A t \in Threads : pc[t] \notin CLHLabels /\ pc[t] \notin CLHHoldLabels
  BY <1>1 DEF CLHLabels, CLHHoldLabels
<1>4. \A t \in Threads : MyNode[t] # clhTail
  BY <1>1, NodesAssumption
<1>5. \A t, u \in Threads : t # u => MyNode[t] # MyNode[u]
  BY <1>1
<1>6. QED
  BY <1>2, <1>3, <1>4, <1>5 DEF CLHQueueOK

LEMMA CLHInitially ==
    ASSUME Init
    PROVE  CLHOK
<1>1. \A t \in Threads : CLHThreadOK(t)
  BY DEF Init, ClientsInit, CLHThreadOK
<1>2. QED
  BY <1>1, QueueInitially DEF CLHOK

LEMMA SynchInitially ==
    ASSUME Init, build \in {ccsynch, hsynch}
    PROVE  SynchOK
<1>1. /\ \A t \in Threads : /\ pc[t] = "idle" /\ pending[t] = <<>> /\ next_node[t] = t
                            /\ counter[t] = 0
      /\ \A c \in Clusters : Tail_[c] = c
      /\ \A n \in Nodes : next[n] = NULL /\ ~locked[n] /\ ~completed[n]
  BY DEF Init, ClientsInit, SynchInit
<1>2. SynchTypeOK
  BY DEF Init, SynchInit, SynchTypeOK, Nodes
<1>3. \A t \in Threads : NodeOf(t) = t /\ ~IsListed(t) /\ pc[t] \notin CombineLabels
  BY <1>1 DEF NodeOf, IsListed, CombineLabels
<1>4. NodesOK
  BY <1>1, <1>3, ClustersAssumption DEF NodesOK, Nodes
<1>5. ListOK
  BY <1>1, <1>3 DEF ListOK, Nodes
<1>6. CombinersOK
  <2>1. \A h \in Threads : CombinerOK(h)
    BY <1>1, <1>3 DEF CombinerOK
  <2>2. ASSUME build = ccsynch, NEW n \in Nodes, NEW m \in Nodes, IsHead(n), IsHead(m)
        PROVE  n = m
    <3>1. PICK c \in Clusters : build.clusters = {c}
      BY <2>2, ClustersAssumption DEF ccsynch
    <3>2. \A k \in Nodes : InList(k) => k = c
      BY <1>1, <1>3, <3>1 DEF InList, Nodes
    <3>3. QED
      BY <2>2, <3>2 DEF IsHead
  <2>3. QED
    BY <1>3, <2>1, <2>2 DEF CombinersOK
<1>7. \A t \in Threads : OperationOK(t)
  BY <1>1, <1>3 DEF OperationOK, IsServed, SynchLabels
<1>8. QED
  BY <1>2, <1>4, <1>5, <1>6, <1>7 DEF SynchOK

LEMMA OyamaInitially ==
    ASSUME Init, Threads # {}
    PROVE  OyamaOK
<1>1. \A t \in Threads : <<t, 0>> \in Contexts
  BY RingAssumption DEF Contexts
<1>2. OyamaTypeOK
  BY <1>1 DEF Init, OyamaInit, OyamaTypeOK
<1>3. /\ \A t \in Threads : /\ pc[t] = "idle" /\ pending[t] = <<>> /\ batch[t] = <<>>
                            /\ response[t] = 0 /\ request[t] = 0
      /\ lockWord = FREE
  BY DEF Init, ClientsInit, OyamaInit
<1>4. \A t \in Threads : OyamaThreadOK(t)
  BY <1>3 DEF OyamaThreadOK, OyamaLabels, ContextLabels, UnlistedLabels, RanLabels
<1>5. PICK L \in [Nat -> Contexts], N \in [Nat -> Nat], D \in [Threads -> Nat] : TRUE
  <2>1. PICK c \in Contexts : TRUE
    BY <1>1
  <2>2. /\ [n \in Nat |-> c] \in [Nat -> Contexts] /\ [n \in Nat |-> 0] \in [Nat -> Nat]
        /\ [t \in Threads |-> 0] \in [Threads -> Nat]
    OBVIOUS
  <2>3. QED
    BY <2>2
<1>6. \A i : i \notin 0 .. 0 - 1
  OBVIOUS
<1>7. LinkedOK(L, 0, 0, 0, 0)
  BY <1>6 DEF LinkedOK, IsChain
<1>8. HeldOK(L, 0, 0, 0, 0, 0)
  <2>1. Start(0) = 0 /\ \A t \in Threads : pc[t] \notin OyamaHoldLabels
    BY <1>3 DEF Start, OyamaHoldLabels
  <2>2. QED
    BY <1>3, <2>1 DEF HeldOK
<1>9. OwedOK(L, N, D, 0, 0)
  <2>1. \A t \in Threads : Listed(t) = 0
    <3>1. Len(<<>>) = 0
      OBVIOUS
    <3>2. QED
      BY <1>3, <3>1 DEF Listed, UnlistedLabels, ContextLabels
  <2>2. \A t \in Threads : \A k : k \notin D[t] + 1 .. D[t] + Listed(t)
    BY <2>1
  <2>3. QED
    BY <1>6, <2>2 DEF OwedOK
<1>10. ListsOK(L, N, D, 0, 0, 0, 0, 0)
  BY <1>7, <1>8, <1>9 DEF ListsOK
<1>11. QED
  BY <1>2, <1>4, <1>10 DEF OyamaOK

LEMMA FlatInitially ==
    ASSUME Init
    PROVE  FlatOK
<1>1. ~IsRequest(0)
  BY ArgsAreNumbers DEF IsRequest
<1>2. FlatTypeOK
  <2>1. <<>> \in Seq(Threads)
    OBVIOUS
  <2>2. /\ slots \in Seq(Threads) /\ tail_slot \in [Threads -> Seq(Threads)]
        /\ scan \in [Threads -> Seq(Threads)]
    BY <2>1 DEF Init, FlatInit
  <2>3. req_ans \in [Threads -> Int] /\ writeOut \in [Threads -> Int]
    BY DEF Init, FlatInit
  <2>4. fcLock \in BOOLEAN
    BY Zenon DEF Init, FlatInit
  <2>5. QED
    BY <2>2, <2>3, <2>4 DEF FlatTypeOK
<1>3. \A t \in Threads : pc[t] = "idle" /\ pending[t] = <<>> /\ req_ans[t] = 0
  BY DEF Init, ClientsInit, FlatInit
<1>4. \A t \in Threads : FlatThreadOK(t)
  BY <1>1, <1>3 DEF FlatThreadOK, FlatLabels, FlatPostLabels, FlatHoldLabels
<1>5. \A h, t \in Threads : AnsweringOK(h, t)
  BY <1>3 DEF AnsweringOK, IsAnswering
<1>6. QED
  BY <1>2, <1>3, <1>4, <1>5 DEF FlatOK, FlatHoldLabels

LEMMA InvInitially == Init => IInv
BY ClientsInitially, QueueInitially, CLHInitially, SynchInitially, OyamaInitially,
   FlatInitially DEF IInv

(* Every step of a build is a step of its heap, and keeps the invariant.    *)
LEMMA StepKeeps ==
    ASSUME IInv, NEW t \in Threads, Call(t) \/ Step(t)
    PROVE  IInv' /\ ClientStep(t)
<1>0. ClientsOK /\ build' = build /\ Threads # {}
      /\ build \in {clh, ccsynch, hsynch, oyama, oyamaopt, flatcomb}
  BY DEF IInv, ClientsOK, ClientsTypeOK, AllBuilds, Call, Step
<1>1. CASE build = clh
  <2>1. CLHOK' /\ ClientStep(t)
    <3>1. CLHOK
      BY <1>1 DEF IInv
    <3>2. CASE Call(t)
      <4>1. PICK arg \in Args : CLHCall(t, arg)
        BY <1>1, <3>2, BuildsDiffer DEF Call, Args
      <4>2. QED
        BY <1>0, <1>1, <3>1, <4>1, CLHCallKeeps
    <3>3. CASE Step(t)
      <4>1. CLHStep(t)
        BY <1>1, <3>3, BuildsDiffer DEF Step
      <4>2. QED
        BY <1>0, <1>1, <3>1, <4>1, CLHStepKeeps
    <3>4. QED
      BY <3>2, <3>3
  <2>2. ClientsOK'
    BY <1>0, <2>1, ClientStepKeepsClients
  <2>3. QED
    BY <1>0, <1>1, <2>1, <2>2, BuildsDiffer DEF IInv
<1>2. CASE build \in {ccsynch, hsynch}
  <2>1. SynchOK' /\ ClientStep(t) /\ (build = hsynch => CLHQueueOK')
    <3>1. SynchOK /\ (build = hsynch => CLHQueueOK)
      BY <1>2 DEF IInv
    <3>2. CASE Call(t)
      <4>1. PICK arg \in Args : SynchCall(t, arg)
        BY <1>2, <3>2, BuildsDiffer DEF Call, Args
      <4>2. Announces(t, arg) /\ UNCHANGED clhVars
        BY <4>1 DEF SynchCall
      <4>3. SynchOK' /\ ClientStep(t)
        BY <1>0, <1>2, <3>1, <4>2, SynchCallKeeps
      <4>4. pc[t] = "idle" /\ pc'[t] = "post" /\ Moves(t)
        BY <1>0, <4>2, MoveIs DEF Announces, ClientsOK, Labels
      <4>5. /\ pc \in [Threads -> Labels] /\ pc' \in [Threads -> Labels]
            /\ \A u \in Threads : /\ pc'[u] \in CLHHoldLabels <=> pc[u] \in CLHHoldLabels
                                  /\ pc'[u] = "clhSpin" <=> pc[u] = "clhSpin"
        BY <1>0, <4>4 DEF Moves, CLHHoldLabels, ClientsOK, ClientsTypeOK
      <4>6. UNCHANGED <<clhTail, clhLocked, MyNode, MyPred>> /\ found' = found
        BY <4>2 DEF clhVars
      <4>7. build = hsynch => CLHQueueOK'
        BY <3>1, <4>5, <4>6, OtherStepKeepsQueue DEF CLHQueueOK, CLHTypeOK
      <4>8. QED
        BY <4>3, <4>7
    <3>3. CASE Step(t)
      <4>1. SynchStep(t)
        BY <1>2, <3>3, BuildsDiffer DEF Step
      <4>2. QED
        BY <1>0, <1>2, <3>1, <4>1, SynchStepKeeps
    <3>4. QED
      BY <3>2, <3>3
  <2>2. ClientsOK'
    BY <1>0, <2>1, ClientStepKeepsClients
  <2>3. QED
    BY <1>0, <1>2, <2>1, <2>2, BuildsDiffer DEF IInv
<1>3. CASE build \in {oyama, oyamaopt}
  <2>1. OyamaOK' /\ ClientStep(t)
    <3>1. OyamaOK
      BY <1>0, <1>3 DEF IInv
    <3>2. CASE Call(t)
      <4>1. PICK arg \in Args : OyamaCall(t, arg)
        BY <1>3, <3>2, BuildsDiffer DEF Call, Args
      <4>2. QED
        BY <1>0, <1>3, <3>1, <4>1, OyamaCallKeeps
    <3>3. CASE Step(t)
      <4>1. OyamaStep(t)
        BY <1>3, <3>3, BuildsDiffer DEF Step
      <4>2. QED
        BY <1>0, <1>3, <3>1, <4>1, OyamaStepKeeps
    <3>4. QED
      BY <3>2, <3>3
  <2>2. ClientsOK'
    BY <1>0, <2>1, ClientStepKeepsClients
  <2>3. QED
    BY <1>0, <1>3, <2>1, <2>2, BuildsDiffer DEF IInv
<1>4. CASE build = flatcomb
  <2>1. FlatOK' /\ ClientStep(t)
    <3>1. FlatOK
      BY <1>4 DEF IInv
    <3>2. CASE Call(t)
      <4>1. PICK arg \in Args : FlatCall(t, arg)
        BY <1>4, <3>2, BuildsDiffer DEF Call, Args
      <4>2. QED
        BY <1>0, <1>4, <3>1, <4>1, FlatCallKeeps
    <3>3. CASE Step(t)
      <4>1. FlatStep(t)
        BY <1>4, <3>3, BuildsDiffer DEF Step
      <4>2. QED
        BY <1>0, <1>4, <3>1, <4>1, FlatStepKeeps
    <3>4. QED
      BY <3>2, <3>3
  <2>2. ClientsOK'
    BY <1>0, <2>1, ClientStepKeepsClients
  <2>3. QED
    BY <1>0, <1>4, <2>1, <2>2, BuildsDiffer DEF IInv
<1>5. QED
  BY <1>0, <1>1, <1>2, <1>3, <1>4

LEMMA StutterKeeps ==
    ASSUME IInv, UNCHANGED vars
    PROVE  IInv'
<1> USE DEF vars, clientVars, clhVars, synchVars, oyamaVars, flatVars
<1>1. ClientsOK' <=> ClientsOK
  BY DEF ClientsOK, ClientsTypeOK, HeapOK, ClientOK
<1>2. CLHQueueOK' <=> CLHQueueOK
  BY DEF CLHQueueOK, CLHTypeOK
<1>3. CLHOK' <=> CLHOK
  BY <1>2 DEF CLHOK, CLHThreadOK
<1>4. SynchOK' <=> SynchOK
  <2>1. \A u \in Threads : /\ IsListed(u)' <=> IsListed(u)
                           /\ NodeOf(u)' = NodeOf(u) /\ Succ(u)' = Succ(u)
    BY DEF IsListed, NodeOf, Succ
  <2>2. \A n : InList(n)' <=> InList(n)
    BY <2>1 DEF InList
  <2>3. \A n : IsHead(n)' <=> IsHead(n)
    BY <2>2 DEF IsHead
  <2>4. \A u \in Threads : IsServed(u)' <=> IsServed(u)
    BY <2>1 DEF IsServed
  <2>5. SynchTypeOK' <=> SynchTypeOK
    BY DEF SynchTypeOK
  <2>6. NodesOK' <=> NodesOK
    BY <2>1 DEF NodesOK
  <2>7. ListOK' <=> ListOK
    BY <2>1, <2>2 DEF ListOK
  <2>8. \A h \in Threads : CombinerOK(h)' <=> CombinerOK(h)
    BY <2>1, <2>2 DEF CombinerOK
  <2>9. CombinersOK' <=> CombinersOK
    BY <2>1, <2>3, <2>8 DEF CombinersOK
  <2>10. \A u \in Threads : OperationOK(u)' <=> OperationOK(u)
    BY <2>4 DEF OperationOK
  <2>11. QED
    BY <2>5, <2>6, <2>7, <2>9, <2>10 DEF SynchOK
<1>5. OyamaOK => OyamaOK'
  <2>1. \A u \in Threads : OyamaThreadOK(u)' <=> OyamaThreadOK(u)
    BY DEF OyamaThreadOK
  <2>2. \A u \in Threads : Listed(u)' = Listed(u)
    BY DEF Listed
  <2>3. ASSUME NEW L \in [Nat -> Contexts], NEW N \in [Nat -> Nat], NEW D \in [Threads -> Nat],
               NEW lo \in Nat, NEW a \in Nat, NEW b \in Nat, NEW s \in Nat, NEW hi \in Nat,
               ListsOK(L, N, D, lo, a, b, s, hi)
        PROVE  ListsOK(L, N, D, lo, a, b, s, hi)'
    <3>1. LinkedOK(L, lo, a, b, hi)'
      BY <2>3 DEF ListsOK, LinkedOK, IsChain
    <3>2. HeldOK(L, lo, a, b, s, hi)'
      BY <2>3 DEF ListsOK, HeldOK, HolderOK, Start, Word
    <3>3. OwedOK(L, N, D, s, hi)'
      BY <2>3 DEF ListsOK, OwedOK, Listed
    <3>4. QED
      BY <3>1, <3>2, <3>3 DEF ListsOK
  <2>4. OyamaTypeOK' <=> OyamaTypeOK
    BY DEF OyamaTypeOK
  <2>5. ASSUME OyamaOK
        PROVE  OyamaOK'
    <3>1. PICK L \in [Nat -> Contexts], N \in [Nat -> Nat], D \in [Threads -> Nat],
               lo \in Nat, a \in Nat, b \in Nat, s \in Nat, hi \in Nat :
               ListsOK(L, N, D, lo, a, b, s, hi)
      BY <2>5 DEF OyamaOK
    <3>2. ListsOK(L, N, D, lo, a, b, s, hi)'
      BY <2>3, <3>1
    <3>3. OyamaTypeOK' /\ \A u \in Threads : OyamaThreadOK(u)'
      BY <2>1, <2>4, <2>5 DEF OyamaOK
    <3>4. QED
      BY <3>2, <3>3 DEF OyamaOK
  <2>6. QED
    BY <2>5
<1>6. FlatOK' <=> FlatOK
  BY DEF FlatOK, FlatTypeOK, FlatThreadOK, AnsweringOK, IsAnswering, Asked, Answered, Encoded
<1>7. QED
  BY <1>1, <1>2, <1>3, <1>4, <1>5, <1>6 DEF IInv

LEMMA NextKeeps ==
    ASSUME IInv, [Next]_vars
    PROVE  IInv' /\ [PromisedHeap!Next]_(PromisedHeap!vars)
<1>1. CASE Next
  <2>1. PICK t \in Threads : Call(t) \/ Step(t)
    BY <1>1 DEF Next
  <2>2. IInv' /\ ClientStep(t)
    BY <2>1, StepKeeps
  <2>3. QED
    BY <2>2, ClientStepKeepsClients DEF IInv
<1>2. CASE UNCHANGED vars
  <2>1. UNCHANGED PromisedHeap!vars
    BY <1>2 DEF vars, clientVars, PromisedHeap!vars
  <2>2. QED
    BY <1>2, <2>1, StutterKeeps
<1>3. QED
  BY <1>1, <1>2

(* The invariant: the types, and for each build where an operation is       *)
(* between the call that issues it and the return of its answer.            *)
THEOREM Invariant == Spec => []IInv
<1>1. Init => IInv
  BY InvInitially
<1>2. IInv /\ [Next]_vars => IInv'
  BY NextKeeps
<1>3. QED
  BY <1>1, <1>2, PTL DEF Spec

LEMMA InvExcludes == IInv => OneCombiner
<1>1. SUFFICES ASSUME IInv, NEW t \in Threads, NEW u \in Threads,
                      pc[t] \in HolderLabels, pc[u] \in HolderLabels
               PROVE  t = u
  BY DEF OneCombiner
<1>2. build \in {clh, ccsynch, hsynch, oyama, oyamaopt, flatcomb}
  BY <1>1 DEF IInv, ClientsOK, ClientsTypeOK, AllBuilds
<1>3. CASE build = clh
  <2>1. CLHQueueOK /\ CLHThreadOK(t) /\ CLHThreadOK(u)
    BY <1>1, <1>3 DEF IInv, CLHOK
  <2>2. pc[t] \in CLHHoldLabels /\ pc[u] \in CLHHoldLabels
    BY <1>1, <2>1 DEF CLHThreadOK, CLHHoldLabels, HolderLabels
  <2>3. QED
    BY <2>1, <2>2, CLHExcludes
<1>4. CASE build = hsynch
  <2>1. CLHQueueOK /\ OperationOK(t) /\ OperationOK(u)
    BY <1>1, <1>4 DEF IInv, SynchOK
  <2>2. pc[t] \in CLHHoldLabels /\ pc[u] \in CLHHoldLabels
    BY <1>1, <2>1 DEF OperationOK, SynchLabels, CombineLabels, CLHHoldLabels, HolderLabels
  <2>3. QED
    BY <2>1, <2>2, CLHExcludes
<1>5. CASE build = ccsynch
  <2>1. CombinersOK /\ OperationOK(t) /\ OperationOK(u) /\ CombinerOK(t) /\ CombinerOK(u)
    BY <1>1, <1>5 DEF IInv, SynchOK, CombinersOK
  <2>2. pc[t] \in CombineLabels /\ pc[u] \in CombineLabels
    BY <1>1, <1>5, <2>1 DEF OperationOK, SynchLabels, CombineLabels, HolderLabels
  <2>3. p[t] \in Nodes /\ IsHead(p[t]) /\ p[u] \in Nodes /\ IsHead(p[u])
    BY <2>1, <2>2 DEF CombinerOK, IsHead
  <2>4. p[t] = p[u]
    BY <1>5, <2>1, <2>3 DEF CombinersOK
  <2>5. QED
    BY <2>1, <2>2, <2>4 DEF CombinersOK
<1>6. CASE build \in {oyama, oyamaopt}
  <2>1. OyamaOK /\ OyamaThreadOK(t) /\ OyamaThreadOK(u)
    BY <1>1, <1>6 DEF IInv, OyamaOK
  <2>2. pc[t] \in OyamaHoldLabels /\ pc[u] \in OyamaHoldLabels
    BY <1>1, <2>1 DEF OyamaThreadOK, OyamaLabels, OyamaHoldLabels, HolderLabels
  <2>3. QED
    BY <2>1, <2>2, OneHolder
<1>7. CASE build = flatcomb
  <2>1. FlatOK /\ FlatThreadOK(t) /\ FlatThreadOK(u)
    BY <1>1, <1>7 DEF IInv, FlatOK
  <2>2. pc[t] \in FlatHoldLabels /\ pc[u] \in FlatHoldLabels
    BY <1>1, <2>1 DEF FlatThreadOK, FlatLabels, FlatPostLabels, FlatHoldLabels, HolderLabels
  <2>3. QED
    BY <2>1, <2>2 DEF FlatOK
<1>8. QED
  BY <1>2, <1>3, <1>4, <1>5, <1>6, <1>7

(* One thread at a time runs operations on the heap, in each of the builds, *)
(* also while the role of the combiner passes from one thread to the next.  *)
THEOREM Exclusion == Spec => []OneCombiner
<1>1. QED
  BY Invariant, InvExcludes, PTL

LEMMA InvRan == IInv => IssuedHaveRun
<1>1. SUFFICES ASSUME IInv, \A u \in Threads : pc[u] = "idle", NEW t \in Threads
               PROVE  pending[t] = <<>>
  BY DEF IssuedHaveRun
<1>2. build \in {clh, ccsynch, hsynch, oyama, oyamaopt, flatcomb} /\ ClientsOK
  BY <1>1 DEF IInv, ClientsOK, ClientsTypeOK, AllBuilds
<1>3. CASE build = clh
  BY <1>1, <1>3 DEF IInv, CLHOK, CLHThreadOK
<1>4. CASE build \in {ccsynch, hsynch}
  <2>1. OperationOK(t)
    BY <1>1, <1>4 DEF IInv, SynchOK
  <2>2. IsServed(t)
    BY <1>1 DEF IsServed, IsListed, CombineLabels
  <2>3. QED
    BY <2>1, <2>2 DEF OperationOK
<1>5. CASE build \in {oyama, oyamaopt}
  <2>1. OyamaOK
    BY <1>1, <1>5 DEF IInv
  <2>2. lockWord = FREE
    <3>1. \A h \in Threads : pc[h] \notin OyamaHoldLabels
      BY <1>1 DEF OyamaHoldLabels
    <3>2. PICK L \in [Nat -> Contexts], N \in [Nat -> Nat], D \in [Threads -> Nat],
               lo \in Nat, a \in Nat, b \in Nat, s \in Nat, hi \in Nat :
               ListsOK(L, N, D, lo, a, b, s, hi)
      BY <2>1 DEF OyamaOK
    <3>3. HeldOK(L, lo, a, b, s, hi)
      BY <3>2 DEF ListsOK
    <3>4. QED
      BY <3>1, <3>3 DEF HeldOK
  <2>3. Listed(t) <= 0
    BY <1>2, <2>1, <2>2, FreeLockOwesNone
  <2>4. pc[t] \notin UnlistedLabels
    BY <1>1 DEF UnlistedLabels, ContextLabels
  <2>5. PICK q \in Seq(Args) : q = pending[t]
    BY <1>2 DEF ClientsOK, ClientsTypeOK
  <2>6. Len(q) <= 0 /\ Len(q) \in Nat
    BY <2>3, <2>4, <2>5 DEF Listed
  <2>7. Len(q) = 0
    BY <2>6
  <2>8. \A r \in Seq(Args) : Len(r) = 0 => r = <<>>
    OBVIOUS
  <2>9. QED
    BY <2>5, <2>7, <2>8
<1>6. CASE build = flatcomb
  BY <1>1, <1>6 DEF IInv, FlatOK, FlatThreadOK
<1>7. QED
  BY <1>2, <1>3, <1>4, <1>5, <1>6

(* The SANITY_CHECK of the benchmark: when no thread is in a call, every    *)
(* operation that was issued has run, those of enqueues that did not wait   *)
(* included.                                                                *)
THEOREM NothingLeftBehind == Spec => []IssuedHaveRun
<1>1. QED
  BY Invariant, InvRan, PTL

LEMMA HeapInitially ==
    ASSUME Init
    PROVE  PromisedHeap!Init
<1>1. build.detaches \in BOOLEAN
  <2>1. \A b \in AllBuilds : b.detaches \in BOOLEAN
    <3>1. /\ clh.detaches \in BOOLEAN /\ ccsynch.detaches \in BOOLEAN
          /\ hsynch.detaches \in BOOLEAN
      BY Zenon DEF clh, ccsynch, hsynch
    <3>2. /\ oyama.detaches \in BOOLEAN /\ oyamaopt.detaches \in BOOLEAN
          /\ flatcomb.detaches \in BOOLEAN
      BY Zenon DEF oyama, oyamaopt, flatcomb
    <3>3. QED
      BY <3>1, <3>2, Zenon DEF AllBuilds
  <2>2. build \in AllBuilds
    BY Zenon DEF Init
  <2>3. QED
    BY <2>1, <2>2, Zenon
<1>2. returned = [t \in Threads |-> 0]
  BY DEF Init, ClientsInit
<1>3. [t \in Threads |->
           IF build \in {ccsynch, hsynch} /\ returned[t] # 0 THEN returned[t] - 2
           ELSE returned[t]]
      = [t \in Threads |-> 0]
  BY <1>2
<1>4. QED
  BY <1>1, <1>3 DEF Init, ClientsInit, PromisedHeap!Init

(* Each build implements the shared heap: its operations one at a time and  *)
(* each once, those of a thread in the order of its calls, and to each      *)
(* dequeue the answer of its own operation.                                 *)
THEOREM Implements == Spec => ImplementsSharedHeap
<1>1. Init => PromisedHeap!Init
  BY HeapInitially
<1>2. IInv /\ [Next]_vars => [PromisedHeap!Next]_(PromisedHeap!vars)
  BY NextKeeps
<1>3. QED
  BY <1>1, <1>2, Invariant, PTL DEF Spec, ImplementsSharedHeap, PromisedHeap!Spec
=============================================================================
