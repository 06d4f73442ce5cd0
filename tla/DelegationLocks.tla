--------------------------- MODULE DelegationLocks ---------------------------
(****************************************************************************)
(* The family of queue-delegation locks: the QD and HQD locks of the        *)
(* benchmark (synch_algorithms/qdlock.h, qdlockp.h, qdlock_futex.h,         *)
(* qdlock_nostarve.h, hqdlock.h, hqdlock_nostarve.h), those of the C++      *)
(* library (qdlock_impl, hqdlock_impl, mrqdlock_impl and mrhqdlock_impl     *)
(* over its three queues), and of the C locks rhqd_lock, tts_rdx_lock and   *)
(* new_rep/locks/qd_lock.h. They share a skeleton and differ in how a queue *)
(* fills up, how a flush closes it and what a call does in which order; a   *)
(* build is a record of these choices, the calls as sequences of labels.    *)
(* Each copy of the code has its record; the actions are what the copies    *)
(* have in common.                                                          *)
(*                                                                          *)
(* The mutexes are atomic here: Mutexes checks them. Nothing is remembered  *)
(* of the past: an operation that is owed is one that lies in a slot.       *)
(****************************************************************************)
EXTENDS Naturals, Sequences, FiniteSets

CONSTANTS
    Threads,
    Nodes,     \* NUMA nodes, numbered from 1; a lock that is not hierarchical uses node 1
    NULL,
    Builds     \* names of the builds to check

ASSUME NodesAssumption == 1 \in Nodes /\ Nodes \subseteq Nat
ASSUME NullAssumption == NULL \notin Threads

VARIABLES
    build,        \* the lock the program is built with; it never changes
    code,         \* what is left of each thread's call; its head is the next access
    at, size,     \* the node the call is for, and the entries its operation takes
    owner,        \* who holds the mutex of each node
    locked,       \* mutex_lock: its flag, apart from the mutex
    globalOwner,  \* who holds the lock over the nodes
    line,         \* the threads in a queue of nodes, first to last: see NodeLocks
    count, closed, slot,   \* the queue of each node
    index,        \* the slot an offer has claimed
    local,        \* the locals of flush()
    readers,      \* the read indicator: who has arrived
    raised        \* writeBarrier: who has incremented it, and NULL for what malloc left in it

callVars == <<code, at, size>>
mutexVars == <<owner, locked, globalOwner, line>>
queueVars == <<count, closed, slot>>
readerVars == <<readers, raised>>
vars == <<build, callVars, mutexVars, queueVars, index, local, readerVars>>

Empty == [by |-> NULL, size |-> 0]
Lesser(i, j) == IF i < j THEN i ELSE j

(****************************************************************************)
(* The queues: how an offer is refused, and how a flush closes the queue.   *)
(*   flag         there is a closed flag beside the count                   *)
(*   precheck     an offer loads the count before it adds to it             *)
(*   marksBelow   an offer that does not fit marks its index if below this  *)
(*   endMark      the mark ends the flush (otherwise it is a no-op entry)   *)
(*   offerCloses  an offer that does not fit sets the flag                  *)
(*   keepsMark    ... and it stays where it is                              *)
(*   zeroCloses   a flush that finds the count 0 at once closes at once     *)
(*   limit        a flush that loads this much reads up to here and closes  *)
(*   clamps       so does one that gets more from its exchange              *)
(*   swapTo       the count the flush exchanges in                          *)
(*   compares     it does so by compare-and-swap, of the count it found     *)
(*   setsFlag     having closed the queue it sets the flag                  *)
(*   clearsAtEnd  slots are cleared together, after the last has run        *)
(****************************************************************************)
CopiedOffer == [capacity |-> 2, sizes |-> {1}, flag |-> TRUE, precheck |-> FALSE,
                marksBelow |-> 0, endMark |-> FALSE, keepsMark |-> FALSE, offerCloses |-> FALSE]
CopiedFlush == [zeroCloses |-> FALSE, limit |-> 2, clamps |-> TRUE, swapTo |-> 3,
                compares |-> FALSE, setsFlag |-> TRUE, clearsAtEnd |-> FALSE]

(* drmvqueue_* of the four headers that hold a copy of the same queue; the  *)
(* offer of these copies (NEWOFFER) leaves a full queue open.               *)
qdlock_offer == CopiedOffer
qdlock_flush == CopiedFlush
nostarve_offer == CopiedOffer
nostarve_flush == CopiedFlush
futex_offer == CopiedOffer
futex_flush == CopiedFlush
hqdlock_offer == CopiedOffer
hqdlock_flush == CopiedFlush
hnostarve_offer == CopiedOffer
hnostarve_flush == CopiedFlush

(* qdlockp.h: no flag, and CAS_FLUSH does not clamp what the exchange       *)
(* returns.                                                                 *)
qdlockp_offer == [CopiedOffer EXCEPT !.flag = FALSE, !.precheck = TRUE]
qdlockp_flush == [zeroCloses |-> TRUE, limit |-> 2, clamps |-> FALSE, swapTo |-> 2,
                  compares |-> FALSE, setsFlag |-> FALSE, clearsAtEnd |-> FALSE]

entry_queue_enqueue == CopiedOffer
entry_queue_flush == [qdlockp_flush EXCEPT !.clamps = TRUE, !.setsFlag = TRUE]

dual_buffer_queue_enqueue ==
    [CopiedOffer EXCEPT !.sizes = {1, 2}, !.flag = FALSE, !.precheck = TRUE, !.marksBelow = 2]
dual_buffer_queue_flush == [qdlockp_flush EXCEPT !.clamps = TRUE, !.clearsAtEnd = TRUE]

(* In units of the index field, an int. Operations with parameters take at  *)
(* least two; one without parameters that is not given as an object takes   *)
(* one and is not delegated here. The last unit is never looked at.         *)
buffer_queue_enqueue ==
    [CopiedOffer EXCEPT !.capacity = 4, !.sizes = {2, 3}, !.marksBelow = 3,
                        !.endMark = TRUE, !.offerCloses = TRUE]
buffer_queue_flush == [entry_queue_flush EXCEPT !.limit = 3, !.swapTo = 4]

(* dr_multi_writers_queue.h: only an offer that does not fit sets the flag. *)
drmvqueue_offer == [CopiedOffer EXCEPT !.offerCloses = TRUE]
drmvqueue_flush == [CopiedFlush EXCEPT !.setsFlag = FALSE]

(* opti_multi_writers_queue.h *)
omwqueue_offer == drmvqueue_offer
omwqueue_flush == drmvqueue_flush

(* new_rep: messages of one size, which does not divide that of the buffer. *)
(* The mark of the one that does not fit ends the flush and is not cleared. *)
qdq_enqueue ==
    [CopiedOffer EXCEPT !.capacity = 5, !.sizes = {2}, !.marksBelow = 5,
                        !.endMark = TRUE, !.keepsMark = TRUE]
qdq_flush ==
    [zeroCloses |-> TRUE, limit |-> 5, clamps |-> TRUE, swapTo |-> 5,
     compares |-> TRUE, setsFlag |-> TRUE, clearsAtEnd |-> FALSE]

(* Messages of variable size.                                               *)
VariableSizes == [qdq_enqueue EXCEPT !.sizes = {2, 3}]

(****************************************************************************)
(* The calls, as the accesses they make. help: what the winner of a mutex   *)
(* does that opens the queue for others; execute: one that does not.        *)
(****************************************************************************)
Reading == <<"arrive", "check", "lower", "read", "depart">>

(* The forms of adxlock_write_with_response. firstTry is the try of the     *)
(* first round: under ACTIVATE_NO_CONTENTION_OPT its winner only executes;  *)
(* both ways to build it are here at once.                                  *)
CopiedRounds ==
    [start |-> <<"firstLook">>, firstLost |-> {"look"}, lost |-> {"look"}, busy |-> "while",
     refused |-> {<<"while">>}]
Helps == <<"open", "own", "flush", "leave">>
Executes == <<"own", "leave">>
CopiedCalls ==
    [rounds |-> CopiedRounds, help |-> Helps, first |-> {Helps, Executes},
     others |-> {<<"lock", "open", "critical", "flush", "leave">>}]

qdlock_calls == CopiedCalls
nostarve_calls == CopiedCalls

qdlockp_calls ==
    [CopiedCalls EXCEPT !.rounds =
        [@ EXCEPT !.start = <<"try">>, !.lost = {"offer"}, !.refused = {<<"try">>}]]

(* Up to MAGIC_NUMBER_ENQUEUE_TRIES offers between two tries.               *)
futex_calls ==
    [CopiedCalls EXCEPT !.rounds =
        [@ EXCEPT !.start = <<"try">>, !.lost = {"offer"}, !.refused = {<<"offer">>, <<"try">>}]]

(* Mutant: the queue is opened before the lock over the nodes is taken.     *)
hqdlock_opensFirst ==
    LET helps == <<"open", "global", "own", "flush", "leaveGlobal", "leave">>
    IN  [rounds |-> CopiedRounds, help |-> helps,
         first |-> {helps, <<"global", "own", "leaveGlobal", "leave">>},
         others |-> {<<"global", "critical", "leaveGlobal">>}]

(* Mutant: without contention the lock over the nodes is not taken.         *)
hqdlock_skipsGlobal ==
    [rounds |-> CopiedRounds,
     help |-> <<"global", "open", "own", "flush", "leaveGlobal", "leave">>,
     first |-> {<<"own", "leave">>},
     others |-> {<<"global", "critical", "leaveGlobal">>}]

hqdlock_calls ==
    LET helps == <<"global", "open", "own", "flush", "leaveGlobal", "leave">>
    IN  [rounds |-> CopiedRounds, help |-> helps,
         first |-> {helps, <<"global", "own", "leaveGlobal", "leave">>},
         others |-> {<<"global", "critical", "leaveGlobal">>}]
hnostarve_calls == hqdlock_calls

(* qdlock_base::delegate: after a first try that only executes, offers and  *)
(* tries alternate; the starvation-free policy locks after 512 rounds.      *)
delegate == [start |-> <<"firstTry">>, firstLost |-> {"offer"}, lost |-> {"offer", "force"},
             busy |-> "while", refused |-> {<<"try">>}]

qdlock_impl ==
    [rounds |-> delegate, help |-> Helps, first |-> {Executes},
     others |-> {<<"lock", "critical", "leave">>}]

hqdlock_impl ==
    [rounds |-> delegate,
     help |-> <<"global", "open", "own", "flush", "leaveGlobal", "leave">>,
     first |-> {<<"global", "own", "leaveGlobal", "leave">>},
     others |-> {<<"lock", "global", "critical", "leaveGlobal", "leave">>}]

(* Over mutex_lock, that sets a flag after it has taken its mutex.          *)
mrqdlock_impl ==
    [rounds |-> [delegate EXCEPT !.start = <<"barrier", "firstTry">>],
     help |-> <<"setFlag", "open", "readers", "own", "flush", "clearFlag", "leave">>,
     first |-> {<<"setFlag", "readers", "own", "clearFlag", "leave">>},
     others |-> {<<"barrier", "lock", "setFlag", "readers", "critical", "clearFlag", "leave">>,
                 Reading}]

mrhqdlock_impl ==
    [rounds |-> [delegate EXCEPT !.start = <<"barrier", "firstTry">>],
     help |-> <<"global", "open", "readers", "own", "flush", "leaveGlobal", "leave">>,
     first |-> {<<"global", "readers", "own", "leaveGlobal", "leave">>},
     others |-> {<<"barrier", "lock", "global", "readers", "critical", "leaveGlobal", "leave">>,
                 Reading}]

rhqdlock_calls ==
    [rounds |-> [CopiedRounds EXCEPT !.start = <<"look">>],
     help |-> <<"barrier", "global", "open", "readers", "own", "flush", "leaveGlobal", "leave">>,
     first |-> {},
     others |-> {<<"barrier", "global", "readers", "critical", "leaveGlobal">>, Reading}]

(* ttsalock_write offers before it looks at the lock.                       *)
ttsalock_calls ==
    [rounds |-> [CopiedRounds EXCEPT !.start = <<"barrier", "offer">>, !.lost = {"offer"},
                                     !.busy = "offer", !.refused = {<<"look">>}],
     help |-> <<"open", "readers", "own", "flush", "leave">>,
     first |-> {},
     others |-> {<<"barrier", "lock", "open", "readers", "critical", "flush", "leave">>, Reading}]

qd_delegate == [qdlockp_calls EXCEPT !.first = {}, !.others = {}]

Lock(name, nodes, offer, flush, calls) ==
    [name |-> name, nodes |-> nodes, offer |-> offer, flush |-> flush, calls |-> calls]

Locks ==
    {Lock("qdlock", {1}, qdlock_offer, qdlock_flush, qdlock_calls),
     Lock("qdlock_nostarve", {1}, nostarve_offer, nostarve_flush, nostarve_calls),
     Lock("qdlockp", {1}, qdlockp_offer, qdlockp_flush, qdlockp_calls),
     Lock("qdlock_futex", {1}, futex_offer, futex_flush, futex_calls),
     Lock("hqdlock", Nodes, hqdlock_offer, hqdlock_flush, hqdlock_calls),
     Lock("hqdlock_nostarve", Nodes, hnostarve_offer, hnostarve_flush, hnostarve_calls),
     Lock("entry", {1}, entry_queue_enqueue, entry_queue_flush, qdlock_impl),
     Lock("dual", {1}, dual_buffer_queue_enqueue, dual_buffer_queue_flush, qdlock_impl),
     Lock("buffer", {1}, buffer_queue_enqueue, buffer_queue_flush, qdlock_impl),
     Lock("hqd", Nodes, entry_queue_enqueue, entry_queue_flush, hqdlock_impl),
     Lock("mrqd", {1}, entry_queue_enqueue, entry_queue_flush, mrqdlock_impl),
     Lock("mrhqd", Nodes, entry_queue_enqueue, entry_queue_flush, mrhqdlock_impl),
     Lock("rhqd", Nodes, drmvqueue_offer, drmvqueue_flush, rhqdlock_calls),
     Lock("ttsrdx", {1}, omwqueue_offer, omwqueue_flush, ttsalock_calls),
     Lock("newrep", {1}, qdq_enqueue, qdq_flush, qd_delegate),
     Lock("newrep_variable", {1}, VariableSizes, qdq_flush, qd_delegate)}

offer == build.offer
flush == build.flush
rounds == build.calls.rounds
Slots == 0 .. offer.capacity - 1
Helping(label) == \E i \in DOMAIN build.calls.help : build.calls.help[i] = label
Hierarchical == Helping("leaveGlobal")
Flagged == Helping("setFlag")
Lined == Helping("leaveLine")
Posts == Helping("combine")

(* The locals of a flush that is not running; for the copies of the first   *)
(* queue the first load is compared with nothing.                           *)
NotFlushing(b) ==
    [last |-> IF b.flush.zeroCloses THEN 0 ELSE b.offer.capacity + 9,
     todo |-> 0, pos |-> 0, stop |-> FALSE]

(* All but ttsalock_initialize set the barrier to 0.                        *)
Start(locks) ==
    /\ build \in {l \in locks : l.name \in Builds}
    /\ code = [t \in Threads |-> <<>>]
    /\ at = [t \in Threads |-> NULL]
    /\ size = [t \in Threads |-> 0]
    /\ owner = [n \in build.nodes |-> NULL]
    /\ locked = [n \in build.nodes |-> FALSE]
    /\ globalOwner = NULL
    /\ line = <<>>
    /\ count = [n \in build.nodes |-> offer.capacity]
    /\ closed = [n \in build.nodes |-> TRUE]
    /\ slot = [n \in build.nodes |-> [i \in Slots |-> Empty]]
    /\ index = [t \in Threads |-> 0]
    /\ local = [t \in Threads |-> NotFlushing(build)]
    /\ readers = {}
    /\ raised \in IF build.name = "ttsrdx" THEN {{}, {NULL}} ELSE {{}}

Init == Start(Locks)

(****************************************************************************)
(* Control.                                                                 *)
(****************************************************************************)
At(t, label) == code[t] # <<>> /\ Head(code[t]) = label

Rest(t) == Tail(code[t])

(* t goes on with rest, or returns.                                         *)
Go(t, rest) ==
    /\ code' = [code EXCEPT ![t] = rest]
    /\ at' = IF rest = <<>> THEN [at EXCEPT ![t] = NULL] ELSE at
    /\ size' = IF rest = <<>> THEN [size EXCEPT ![t] = 0] ELSE size

GoOn(t, label) == At(t, label) /\ Go(t, Rest(t))

(* A call, on the node the thread runs on right now, or on its own.         *)
Call(t) ==
    /\ code[t] = <<>>
    /\ \E rest \in {rounds.start} \cup build.calls.others : code' = [code EXCEPT ![t] = rest]
    /\ \E n \in IF Lined THEN {t} ELSE build.nodes : at' = [at EXCEPT ![t] = n]
    /\ \E s \in offer.sizes : size' = [size EXCEPT ![t] = s]
    /\ UNCHANGED <<build, mutexVars, queueVars, index, local, readerVars>>

(****************************************************************************)
(* The mutexes.                                                             *)
(****************************************************************************)
(* is_locked(). mutex_lock answers with its flag: "This is safe" although   *)
(* the flag is set after the mutex is taken and cleared before it is let go *)
(* (ReadersExcludeWriters).                                                 *)
IsLocked(n) == IF Flagged THEN locked[n] ELSE owner[n] # NULL

Look(t) ==
    /\ \/ At(t, "firstLook") /\ Go(t, <<IF IsLocked(at[t]) THEN rounds.busy ELSE "firstTry">>)
       \/ At(t, "look") /\ Go(t, <<IF IsLocked(at[t]) THEN rounds.busy ELSE "try">>)
       \/ At(t, "while") /\ Go(t, <<IF IsLocked(at[t]) THEN "offer" ELSE "look">>)
    /\ UNCHANGED <<build, mutexVars, queueVars, index, local, readerVars>>

Take(t) ==
    /\ owner[at[t]] = NULL
    /\ owner' = [owner EXCEPT ![at[t]] = t]
    /\ UNCHANGED <<build, locked, globalOwner, line, queueVars, index, local, readerVars>>

TryWins(t) ==
    /\ \/ At(t, "firstTry") /\ \E path \in build.calls.first : Go(t, path)
       \/ At(t, "try") /\ Go(t, build.calls.help)
    /\ Take(t)

TryFails(t) ==
    /\ \/ At(t, "firstTry") /\ \E l \in rounds.firstLost : Go(t, <<l>>)
       \/ At(t, "try") /\ \E l \in rounds.lost : Go(t, <<l>>)
    /\ owner[at[t]] # NULL
    /\ UNCHANGED <<build, mutexVars, queueVars, index, local, readerVars>>

(* lock(), of a caller or after so many rounds.                             *)
LockTakes(t) ==
    /\ \/ GoOn(t, "lock")
       \/ At(t, "force") /\ \E path \in build.calls.first : Go(t, path)
    /\ Take(t)

Leave(t) ==
    /\ GoOn(t, "leave")
    /\ owner' = [owner EXCEPT ![at[t]] = NULL]
    /\ UNCHANGED <<build, locked, globalOwner, line, queueVars, index, local, readerVars>>

SetFlag(t) ==
    /\ GoOn(t, "setFlag")
    /\ locked' = [locked EXCEPT ![at[t]] = TRUE]
    /\ UNCHANGED <<build, owner, globalOwner, line, queueVars, index, local, readerVars>>

ClearFlag(t) ==
    /\ GoOn(t, "clearFlag")
    /\ locked' = [locked EXCEPT ![at[t]] = FALSE]
    /\ UNCHANGED <<build, owner, globalOwner, line, queueVars, index, local, readerVars>>

(* The lock over the nodes: clhLock, hierarchy_sync::lock.                  *)
TakeGlobal(t) ==
    /\ GoOn(t, "global")
    /\ globalOwner = NULL
    /\ globalOwner' = t
    /\ UNCHANGED <<build, owner, locked, line, queueVars, index, local, readerVars>>

LeaveGlobal(t) ==
    /\ GoOn(t, "leaveGlobal")
    /\ globalOwner' = NULL
    /\ UNCHANGED <<build, owner, locked, line, queueVars, index, local, readerVars>>

(* The caller's own operation, run by itself; its critical section.         *)
RunOwn(t) ==
    /\ GoOn(t, "own") \/ GoOn(t, "critical")
    /\ UNCHANGED <<build, mutexVars, queueVars, index, local, readerVars>>

(****************************************************************************)
(* The queue. The count is not followed past MaxCount: what lies behind the *)
(* capacity is all the same to offers and flushes.                          *)
(****************************************************************************)
MaxCount == offer.capacity + 1

Open(t) ==
    /\ At(t, "open")
    /\ Go(t, IF offer.flag THEN <<"openFlag">> \o Rest(t) ELSE Rest(t))
    /\ count' = [count EXCEPT ![at[t]] = 0]
    /\ UNCHANGED <<build, mutexVars, closed, slot, index, local, readerVars>>

OpenFlag(t) ==
    /\ GoOn(t, "openFlag")
    /\ closed' = [closed EXCEPT ![at[t]] = FALSE]
    /\ UNCHANGED <<build, mutexVars, count, slot, index, local, readerVars>>

Fits(t) == count[at[t]] + size[t] <= offer.capacity

OfferLooks(t) ==
    /\ At(t, "offer")
    /\ IF (offer.flag /\ closed[at[t]]) \/ (offer.precheck /\ ~Fits(t))
       THEN \E rest \in rounds.refused : Go(t, rest)
       ELSE Go(t, <<"claim">>)
    /\ UNCHANGED <<build, mutexVars, queueVars, index, local, readerVars>>

(* The fetch-and-add. An offer that does not fit marks its index, if a      *)
(* flush can get there, and may set the flag.                               *)
OfferClaims(t) ==
    /\ At(t, "claim")
    /\ LET marks == ~Fits(t) /\ count[at[t]] < offer.marksBelow
       IN  /\ \E rest \in rounds.refused :
                 Go(t, IF Fits(t) THEN <<"publish">>
                       ELSE (IF marks THEN <<"mark">> ELSE <<>>)
                            \o (IF offer.offerCloses THEN <<"close">> ELSE <<>>) \o rest)
           /\ index' = IF Fits(t) \/ marks THEN [index EXCEPT ![t] = count[at[t]]] ELSE index
    /\ count' = [count EXCEPT ![at[t]] = Lesser(@ + size[t], MaxCount)]
    /\ UNCHANGED <<build, mutexVars, closed, slot, local, readerVars>>

Fill(t, entry) ==
    /\ slot' = [slot EXCEPT ![at[t]][index[t]] = entry]
    /\ index' = [index EXCEPT ![t] = 0]
    /\ UNCHANGED <<build, mutexVars, count, closed, local, readerVars>>

(* The operation, then the word the flush waits for. A blocking call, or    *)
(* the user of a future, then waits for the response.                       *)
OfferPublishes(t) ==
    /\ At(t, "publish")
    /\ \E rest \in {<<>>, <<"await">>} : Go(t, rest)
    /\ Fill(t, [by |-> t, size |-> size[t]])

OfferMarks(t) ==
    /\ GoOn(t, "mark")
    /\ Fill(t, [by |-> NULL, size |-> offer.capacity - index[t]])

(* The store to the flag, of a flush or of an offer that does not fit.      *)
Close(t) ==
    /\ GoOn(t, "close")
    /\ closed' = [closed EXCEPT ![at[t]] = TRUE]
    /\ UNCHANGED <<build, mutexVars, count, slot, index, local, readerVars>>

Owed(t) == {n \in build.nodes : \E i \in Slots : slot[n][i].by = t}

Await(t) ==
    /\ GoOn(t, "await")
    /\ Owed(t) = {}
    /\ UNCHANGED <<build, mutexVars, queueVars, index, local, readerVars>>

Closing == IF flush.setsFlag THEN <<"close">> ELSE <<>>

(* The count has changed: there is more to do before rest.                  *)
FlushFollows(t, rest) ==
    LET found == count[at[t]]
    IN  \/ /\ found >= flush.limit
           /\ Go(t, Closing \o rest)
           /\ local' = [local EXCEPT ![t].todo = flush.limit, ![t].stop = TRUE]
        \/ /\ found < flush.limit
           /\ Go(t, rest)
           /\ local' = [local EXCEPT ![t].todo = found, ![t].last = found]

(* Nothing is left to run: load the count and compare it with the last one. *)
FlushLoads(t) ==
    LET f == local[t]
    IN  /\ At(t, "flush")
        /\ f.pos >= f.todo
        /\ ~f.stop
        /\ \/ /\ count[at[t]] = f.last
              /\ Go(t, <<"swap">> \o code[t])
              /\ UNCHANGED local
           \/ /\ count[at[t]] # f.last
              /\ FlushFollows(t, code[t])
        /\ UNCHANGED <<build, mutexVars, queueVars, index, readerVars>>

(* Mutant: what the exchange returns is never more than the array holds.    *)
FlushTrustsExchange(t) ==
    /\ At(t, "swap")
    /\ Go(t, Closing \o Rest(t))
    /\ local' = [local EXCEPT ![t].todo = count[at[t]], ![t].stop = TRUE]
    /\ count' = [count EXCEPT ![at[t]] = flush.swapTo]
    /\ UNCHANGED <<build, mutexVars, closed, slot, index, readerVars>>

(* Mutant: the operations that came in before the exchange are left.        *)
FlushIgnoresExchange(t) ==
    /\ At(t, "swap")
    /\ Go(t, Closing \o Rest(t))
    /\ local' = [local EXCEPT ![t].stop = TRUE]
    /\ count' = [count EXCEPT ![at[t]] = flush.swapTo]
    /\ UNCHANGED <<build, mutexVars, closed, slot, index, readerVars>>

FlushSwaps(t) ==
    /\ At(t, "swap")
    /\ flush.compares => count[at[t]] = local[t].last
    /\ Go(t, Closing \o Rest(t))
    /\ local' = [local EXCEPT ![t].stop = TRUE,
                    ![t].todo = IF flush.clamps THEN Lesser(count[at[t]], flush.limit)
                                ELSE count[at[t]]]
    /\ count' = [count EXCEPT ![at[t]] = flush.swapTo]
    /\ UNCHANGED <<build, mutexVars, closed, slot, index, readerVars>>

FlushSwapFails(t) ==
    /\ At(t, "swap")
    /\ flush.compares /\ count[at[t]] # local[t].last
    /\ FlushFollows(t, Rest(t))
    /\ UNCHANGED <<build, mutexVars, queueVars, index, readerVars>>

(* An entry is waited for and run. Its operation is owed no longer; what    *)
(* the entry leaves behind is cleared now or at the end.                    *)
FlushRuns(t) ==
    LET n == at[t]
        f == local[t]
        entry == slot[n][f.pos]
        ends == offer.endMark /\ entry.by = NULL
    IN  /\ At(t, "flush")
        /\ f.pos < f.todo
        /\ f.pos \in Slots
        /\ entry # Empty
        /\ slot' = [slot EXCEPT ![n][f.pos] =
                        IF ends /\ offer.keepsMark THEN entry
                        ELSE IF flush.clearsAtEnd THEN [entry EXCEPT !.by = NULL] ELSE Empty]
        /\ IF ends
           THEN Go(t, Rest(t)) /\ local' = [local EXCEPT ![t] = NotFlushing(build)]
           ELSE Go(t, code[t]) /\ local' = [local EXCEPT ![t].pos = @ + entry.size]
        /\ UNCHANGED <<build, mutexVars, count, closed, index, readerVars>>

(* The flush of qdlockp.h has been told of more entries than there are: it  *)
(* waits for a request in the bytes behind the array, that are 0 for ever.  *)
FlushIsStuck(t) ==
    /\ At(t, "flush")
    /\ local[t].pos < local[t].todo
    /\ local[t].pos \notin Slots
    /\ UNCHANGED vars

FlushReturns(t) ==
    LET n == at[t]
        f == local[t]
    IN  /\ At(t, "flush")
        /\ f.pos >= f.todo
        /\ f.stop
        /\ Go(t, Rest(t))
        /\ local' = [local EXCEPT ![t] = NotFlushing(build)]
        /\ slot' = IF flush.clearsAtEnd
                   THEN [slot EXCEPT ![n] = [i \in Slots |-> IF i < f.todo THEN Empty ELSE @[i]]]
                   ELSE slot
        /\ UNCHANGED <<build, mutexVars, count, closed, index, readerVars>>

(****************************************************************************)
(* Readers. The indicator is read at once; MRQDLock reads it counter by     *)
(* counter.                                                                 *)
(****************************************************************************)
ReadersSeeLocked ==
    IF Hierarchical THEN globalOwner # NULL ELSE IF Lined THEN line # <<>> ELSE IsLocked(1)

(* wait_writers(), wait_readers().                                          *)
WaitWriters(t) ==
    /\ raised = {}
    /\ GoOn(t, "barrier")
    /\ UNCHANGED <<build, mutexVars, queueVars, index, local, readerVars>>

(* A barrier that starts with another value than 0 stays up for ever.       *)
BarrierIsStuck(t) ==
    /\ At(t, "barrier")
    /\ NULL \in raised
    /\ UNCHANGED vars

(* Mutant: the winner does not wait for the readers.                        *)
WaitForNobody(t) ==
    /\ GoOn(t, "readers")
    /\ UNCHANGED <<build, mutexVars, queueVars, index, local, readerVars>>

WaitReaders(t) ==
    /\ readers = {}
    /\ GoOn(t, "readers")
    /\ UNCHANGED <<build, mutexVars, queueVars, index, local, readerVars>>

Arrive(t) ==
    /\ GoOn(t, "arrive")
    /\ readers' = readers \cup {t}
    /\ UNCHANGED <<build, mutexVars, queueVars, index, local, raised>>

CheckLocked(t) ==
    /\ At(t, "check")
    /\ Go(t, IF ReadersSeeLocked THEN <<"depart", "waitFree">> \o Reading
             ELSE IF t \in raised THEN Rest(t) ELSE Tail(Rest(t)))
    /\ UNCHANGED <<build, mutexVars, queueVars, index, local, readerVars>>

(* The barrier is raised once for each rlock() whose patience ends.         *)
WaitFree(t) ==
    /\ At(t, "waitFree")
    /\ \/ ~ReadersSeeLocked /\ Go(t, Rest(t)) /\ UNCHANGED raised
       \/ /\ ReadersSeeLocked
          /\ t \notin raised
          /\ Go(t, code[t])
          /\ raised' = raised \cup {t}
    /\ UNCHANGED <<build, mutexVars, queueVars, index, local, readers>>

LowerBarrier(t) ==
    /\ GoOn(t, "lower")
    /\ raised' = raised \ {t}
    /\ UNCHANGED <<build, mutexVars, queueVars, index, local, readers>>

Read(t) ==
    /\ GoOn(t, "read")
    /\ UNCHANGED <<build, mutexVars, queueVars, index, local, readerVars>>

Depart(t) ==
    /\ GoOn(t, "depart")
    /\ readers' = readers \ {t}
    /\ UNCHANGED <<build, mutexVars, queueVars, index, local, raised>>

(****************************************************************************)
(* The program.                                                             *)
(****************************************************************************)
Indicator(t) == Arrive(t) \/ Depart(t) \/ WaitReaders(t)

StepBesides(t) ==
    \/ Look(t) \/ TryWins(t) \/ TryFails(t) \/ LockTakes(t) \/ Leave(t)
    \/ SetFlag(t) \/ ClearFlag(t) \/ TakeGlobal(t) \/ LeaveGlobal(t) \/ RunOwn(t)
    \/ Open(t) \/ OpenFlag(t) \/ OfferLooks(t) \/ OfferClaims(t) \/ OfferPublishes(t)
    \/ OfferMarks(t) \/ Close(t) \/ Await(t)
    \/ FlushLoads(t) \/ FlushSwaps(t) \/ FlushSwapFails(t) \/ FlushRuns(t)
    \/ FlushIsStuck(t) \/ FlushReturns(t)
    \/ WaitWriters(t) \/ BarrierIsStuck(t) \/ CheckLocked(t) \/ WaitFree(t)
    \/ LowerBarrier(t) \/ Read(t)

Step(t) == Indicator(t) \/ StepBesides(t)

Next == \E t \in Threads : Call(t) \/ Step(t)

Spec == Init /\ [][Next]_vars

(****************************************************************************)
(* Properties.                                                              *)
(****************************************************************************)
Inside(t) == \E l \in {"own", "critical", "flush", "swap", "visit"} : At(t, l)

(* Delegated operations, own operations and critical sections never run at  *)
(* the same time, on whatever node.                                         *)
MutualExclusion == \A t, u \in Threads : Inside(t) /\ Inside(u) => t = u

(* Somebody is bound to run what the queue of node n holds: its holder; the *)
(* owner of the node that is in line; where requests are posted, the thread *)
(* itself, that does not return before.                                     *)
IsServed(n) ==
    IF ~Lined THEN owner[n] # NULL
    ELSE IF Posts THEN code[n] # <<>>
    ELSE \E i \in DOMAIN line : line[i] = n

(* When nobody serves a queue it owes nothing: an operation that has been   *)
(* accepted, or is being written into its slot, is run by the holder that   *)
(* was there, whatever way the queue is closed.                             *)
FreeLockOwesNothing ==
    \A n \in build.nodes : ~IsServed(n) =>
        /\ \A i \in Slots : slot[n][i].by = NULL
        /\ \A t \in Threads : at[t] = n => ~At(t, "publish")

(* Node m is n, or queues behind it.                                        *)
IsLater(n, m) == n = m \/ (Lined /\ \E i, j \in DOMAIN line : line[i] = n /\ line[j] = m /\ i < j)

(* A thread's operations take effect in the order of its calls: nothing it  *)
(* delegated is left when it runs an operation or a critical section itself *)
(* or reads, and an operation is accepted in no queue that is run before    *)
(* one where it has another left, although a thread that migrates delegates *)
(* to one node after the other.                                             *)
OwnOperationsInOrder ==
    \A t \in Threads :
        /\ At(t, "own") \/ At(t, "critical") \/ At(t, "read") => Owed(t) = {}
        /\ At(t, "publish") => \A n \in Owed(t) : IsLater(n, at[t])

(* No flush goes past the end of its array, except that of qdlockp.h.       *)
FlushStaysInside ==
    \A t \in Threads : build.name # "qdlockp" => local[t].todo <= offer.capacity

(* No thread reads while another writes, itself or for others.              *)
ReadersExcludeWriters ==
    \A t, u \in Threads : Inside(t) => ~At(u, "read")
=============================================================================
