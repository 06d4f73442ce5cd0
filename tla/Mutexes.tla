------------------------------ MODULE Mutexes --------------------------------
(****************************************************************************)
(* Clients, that never stop calling, of one of the mutexes the other locks  *)
(* are built on: mcs_lock.c ("mcslock"), the mutexes of the C++ library and *)
(* the futex lock of qdlock_futex.h. A call is lock(), try_lock() or        *)
(* try_lock_or_wait(); then come a critical section and unlock().           *)
(*                                                                          *)
(* The history variable arrivals lists the threads that have a place in the *)
(* queue of a queue lock, the one in its critical section first.            *)
(****************************************************************************)
EXTENDS FutexLock, MCSFutexLock, TicketFutexLock, Sequences

CONSTANT Builds   \* the names of the locks to check

mcslock == [name |-> "mcslock", family |-> "mcslock"]

Locks == {mcslock, futex_lock, flock, mcs_lock, mcs_futex_lock, ticket_futex_lock}

ASSUME BuildsAssumption == Builds \subseteq {b.name : b \in Locks}

VARIABLE arrivals

lockVars == <<word, mcsFutexVars, ticketFutexVars>>
vars == <<build, pc, call, lockVars, arrivals>>

Init ==
    /\ build \in {b \in Locks : b.name \in Builds}
    /\ pc = [t \in Threads |-> "idle"]
    /\ call = [t \in Threads |-> "lock"]
    /\ FutexInit
    /\ MCSInit
    /\ MCSFutexInit
    /\ TicketFutexInit
    /\ arrivals = <<>>

(****************************************************************************)
(* mcs_lock.c. mcslock_read_lock and mcslock_write are the same calls.      *)
(****************************************************************************)

(* mcslock_write_read_lock, up to its exchange of endOfQueue;               *)
(* mcslock_try_write_read_lock: a load that gives up, or goes on to the     *)
(* compare-and-swap against NULL.                                           *)
MCSCall(t) ==
    \/ SwapFindsFree(t, "idle", "critical")
    \/ SwapFindsTail(t, "idle")
    \/ ~MCSIsLocked /\ Move(t, "idle", "mcsTry") /\ UNCHANGED mcsVars

TryFails(t) ==
    /\ MCSIsLocked
    /\ Move(t, "mcsTry", "idle")
    /\ nodeNext' = [nodeNext EXCEPT ![t] = NULL]
    /\ UNCHANGED <<endOfQueue, nodeLocked, predecessor>>

MCSStep(t) ==
    \/ SwapFindsFree(t, "mcsTry", "critical")
    \/ TryFails(t)
    \/ Link(t)
    \/ HandedOver(t, "critical")
    \/ UnlockLooks(t, "critical")
    \/ SwapOut(t, "idle")
    \/ SuccessorLinked(t)
    \/ Pass(t, "idle")

(****************************************************************************)
(* The program.                                                             *)
(****************************************************************************)
QueueLabels == {"take", "link", "spin", "serve"} \cup MCSQueueLabels
SleepLabels == {"sleep", "asleep"}

(* t has a place in the queue of a queue lock.                              *)
HasPlace(t) ==
    /\ build.family # "futex"
    /\ \/ pc[t] \in QueueLabels \cup {"critical"}
       \/ pc[t] \in SleepLabels /\ call[t] = "lock"

Record(t) ==
    arrivals' = CASE HasPlace(t)' /\ ~HasPlace(t) -> Append(arrivals, t)
                  [] HasPlace(t) /\ ~HasPlace(t)' -> Tail(arrivals)
                  [] OTHER -> arrivals

Call(t) ==
    /\ \/ build.family = "mcslock" /\ MCSCall(t)
             /\ UNCHANGED <<call, word, flag, nodeContended, swapsFlag, ticketFutexVars>>
       \/ build.family = "futex" /\ FutexCall(t) /\ UNCHANGED <<mcsFutexVars, ticketFutexVars>>
       \/ build.family = "mcs" /\ MCSFutexCall(t) /\ UNCHANGED <<word, ticketFutexVars>>
       \/ build.family = "ticket" /\ TicketCall(t) /\ UNCHANGED <<word, mcsFutexVars>>
    /\ UNCHANGED build
    /\ Record(t)

Step(t) ==
    /\ \/ build.family = "mcslock" /\ MCSStep(t)
             /\ UNCHANGED <<call, word, flag, nodeContended, swapsFlag, ticketFutexVars>>
       \/ build.family = "futex" /\ FutexStep(t) /\ UNCHANGED <<mcsFutexVars, ticketFutexVars>>
       \/ build.family = "mcs" /\ MCSFutexStep(t) /\ UNCHANGED <<word, ticketFutexVars>>
       \/ build.family = "ticket" /\ TicketStep(t) /\ UNCHANGED <<word, mcsFutexVars>>
    /\ UNCHANGED build
    /\ Record(t)

Next == \E t \in Threads : Call(t) \/ Step(t)

Spec == Init /\ [][Next]_vars

(* A thread between its call and its return is scheduled, critical sections *)
(* end; nobody has to call, and a sleeper takes no step until it is woken.  *)
FairSpec == Spec /\ \A t \in Threads : WF_vars(Step(t))

(****************************************************************************)
(* Properties.                                                              *)
(****************************************************************************)
HolderLabels ==
    {"critical", "lookFlag", "swapOut", "again", "linked", "pass"} \cup MCSUnlockLabels

IsLocked ==
    CASE build.family = "futex" -> word # "free"
      [] build.family \in {"mcs", "mcslock"} -> MCSIsLocked
      [] build.family = "ticket" -> ticket # serving

(* At most one thread is between the access that takes the lock and the     *)
(* access of unlock() that lets the next one in, and as long as one is, the *)
(* lock looks taken to is_locked() and to a try, also during a hand-over.   *)
MutualExclusion ==
    \A t \in Threads : pc[t] \in HolderLabels =>
        IsLocked /\ \A u \in Threads : pc[u] \in HolderLabels => t = u

(* An MCS lock is handed over only to a thread that waits: a store to a     *)
(* node that has been given up would release a later call of its thread.    *)
PassReachesWaiter ==
    \A t \in Threads : pc[t] \in {"mcsPass", "pass"} =>
        /\ nodeNext[t] # NULL
        /\ nodeLocked[nodeNext[t]]
        /\ HasPlace(nodeNext[t])

(* No wake-up is lost: if everybody has returned or sleeps, nobody sleeps.  *)
(* The one exception is try_lock_or_wait() of the ticket lock: it raises    *)
(* its flag and sleeps on the state it has loaded, although the lock may    *)
(* have been released in between.                                           *)
NobodySleepsForEver ==
    (\A t \in Threads : pc[t] \in {"idle", "asleep"}) =>
        \A t \in Threads : pc[t] = "asleep" =>
            build.family = "ticket" /\ call[t] = "tryWait"

StatusOf(t) ==
    IF ~HasPlace(t) THEN "outside"
    ELSE IF pc[t] = "critical" THEN "inside" ELSE "waiting"

Promise == INSTANCE FIFOLock
    WITH status <- [t \in Threads |-> StatusOf(t)],
         queue <- arrivals

(* The queue locks let threads in one at a time in the order in which they  *)
(* drew their places, also those that sleep and also while others try for   *)
(* ever; each that has a place gets in.                                     *)
ImplementsFIFOLock == Promise!FairSpec

(****************************************************************************)
(* Why: the inductive invariant, a part for each family.                    *)
(****************************************************************************)
Labels ==
    [mcslock |-> {"idle", "mcsTry", "critical"} \cup MCSQueueLabels \cup MCSUnlockLabels,
     futex |-> {"idle", "try", "contendFirst", "contend", "look", "critical", "notify"}
               \cup SleepLabels,
     mcs |-> {"idle", "try", "raise", "take", "link", "spin", "critical", "lookFlag",
              "swapOut", "again", "linked", "pass", "notify"} \cup SleepLabels,
     ticket |-> {"idle", "loaded", "try", "raise", "serve", "critical", "notify"}
                \cup SleepLabels]

LockTypeOK ==
    /\ build \in Locks
    /\ pc \in [Threads -> Labels[build.family]]
    /\ call \in [Threads -> Calls]
    /\ word \in {"free", "taken", "contended"}
    /\ MCSTypeOK
    /\ flag \in BOOLEAN
    /\ nodeContended \in [Threads -> BOOLEAN]
    /\ swapsFlag \in [Threads -> BOOLEAN]
    /\ ticket \in 0 .. TicketLimit /\ serving \in 0 .. TicketLimit
    /\ servingFlag \in BOOLEAN
    /\ num \in [Threads -> 0 .. TicketLimit]
    /\ seen \in [Threads -> (0 .. TicketLimit) \X BOOLEAN]

TypeOK == LockTypeOK /\ arrivals \in Seq(Threads)

(* The calls a thread can be in at its label.                               *)
CallFits(t) ==
    /\ build.family = "mcslock" => call[t] = "lock"
    /\ pc[t] \in QueueLabels \cup {"critical"} => call[t] = "lock"
    /\ pc[t] \in {"loaded", "try"} => call[t] \in {"try", "tryWait"}
    /\ pc[t] = "raise" => call[t] = "tryWait"
    /\ pc[t] \in {"contendFirst", "contend", "look"} \cup SleepLabels =>
          call[t] \in {"lock", "tryWait"}

CallsOK == \A t \in Threads : CallFits(t)

(* The futex locks: the word is not free exactly while somebody is inside,  *)
(* and a sleeper will be woken: the word says contended, or somebody wakes. *)
FutexOK ==
    /\ \A t, u \in Threads : pc[t] = "critical" /\ pc[u] = "critical" => t = u
    /\ word # "free" <=> \E t \in Threads : pc[t] = "critical"
    /\ \A t \in Threads : pc[t] = "asleep" =>
          word = "contended" \/ \E u \in Threads : pc[u] = "notify"

(* How far a thread is on its way through an MCS lock of either family.     *)
Stage(t) ==
    CASE pc[t] \in {"mcsLocked", "take"} -> "take"
      [] pc[t] \in {"mcsLink", "link"} -> "link"
      [] pc[t] \in {"mcsWait", "spin"} \/ (pc[t] \in SleepLabels /\ call[t] = "lock") -> "wait"
      [] pc[t] = "critical" -> "inside"
      [] pc[t] \in {"mcsSwapOut", "again", "lookFlag", "swapOut"} -> "leaving"
      [] pc[t] \in {"mcsLinked", "linked"} -> "linked"
      [] pc[t] \in {"mcsPass", "pass"} -> "pass"
      [] OTHER -> "out"

UnlockStages == {"leaving", "linked", "pass"}
OwnerStages == {"inside"} \cup UnlockStages

(* The head of the queue has the lock, or has been handed it.               *)
Heads(h) ==
    /\ Stage(h) \in OwnerStages \/ (Stage(h) = "wait" /\ ~nodeLocked[h])
    /\ Stage(h) = "pass" => nodeNext[h] # NULL

(* t is behind p: it knows p, or p knows it.                                *)
Follows(p, t) ==
    \/ Stage(t) = "take" /\ predecessor[t] = p /\ nodeNext[p] = NULL
    \/ Stage(t) = "link" /\ predecessor[t] = p /\ nodeNext[p] = NULL /\ nodeLocked[t]
    \/ Stage(t) = "wait" /\ nodeNext[p] = t /\ nodeLocked[t]

(* q is the queue of nodes, from the owner's to the one endOfQueue names.   *)
NodeQueueIs(q) ==
    /\ \A i, j \in 1 .. Len(q) : q[i] = q[j] => i = j
    /\ \A t \in Threads : Stage(t) # "out" <=> \E i \in 1 .. Len(q) : q[i] = t
    /\ endOfQueue = IF Len(q) = 0 THEN NULL ELSE q[Len(q)]
    /\ Len(q) > 0 =>
          /\ Heads(q[1])
          /\ Stage(q[1]) = "linked" => Len(q) > 1
          /\ nodeNext[q[Len(q)]] = NULL
    /\ \A i \in 2 .. Len(q) : Follows(q[i - 1], q[i])

(* The node of a thread in unlock() is still in the queue, its place is not *)
(* among the arrivals any more.                                             *)
ArrivalsAre(q) ==
    arrivals = IF Len(q) > 0 /\ Stage(q[1]) \in UnlockStages THEN Tail(q) ELSE q

NodesOK == \E q \in Seq(Threads) : NodeQueueIs(q) /\ ArrivalsAre(q)

(* mcs_futex_lock: the node of a thread outside is clean but for the        *)
(* successor that is still to be woken, the flag is there only while the    *)
(* lock is taken, and whoever sleeps will be woken: by the thread that      *)
(* passes it the lock, by the thread that finds the flag, or by one that is *)
(* about to wake it.                                                        *)
NodeSleepersOK ==
    /\ \A t \in Threads :
          Stage(t) = "out" /\ pc[t] # "notify" => nodeNext[t] = NULL
    /\ flag => endOfQueue # NULL
    /\ \A t \in Threads : pc[t] = "raise" => predecessor[t] # NULL
    /\ \A t \in Threads : pc[t] \in SleepLabels /\ call[t] = "lock" /\ nodeLocked[t] =>
          nodeContended[t]
    /\ \A t \in Threads : pc[t] = "asleep" /\ call[t] = "lock" /\ ~nodeLocked[t] =>
          \E u \in Threads : pc[u] = "notify" /\ nodeNext[u] = t
    /\ \A t \in Threads : pc[t] = "asleep" /\ call[t] = "tryWait" =>
          flag \/ \E u \in Threads : pc[u] = "notify" /\ nodeNext[u] = NULL

(* The ticket lock: those with a place hold the tickets from serving on, in *)
(* the order of their arrival, and only the first may be inside. A thread   *)
(* about to take a ticket with try has seen it served.                      *)
TicketPlacesOK ==
    /\ ticket = serving + Len(arrivals)
    /\ \A i, j \in 1 .. Len(arrivals) : arrivals[i] = arrivals[j] => i = j
    /\ \A t \in Threads : HasPlace(t) <=> \E i \in 1 .. Len(arrivals) : arrivals[i] = t
    /\ \A i \in 1 .. Len(arrivals) :
          IF pc[arrivals[i]] = "critical" THEN i = 1
                                          ELSE num[arrivals[i]] = serving + i - 1
    /\ \A t \in Threads : pc[t] \in {"loaded", "try"} => num[t] < TicketLimit
    /\ \A t \in Threads : pc[t] = "try" => num[t] <= serving

(* A sleeper of lock() sleeps on a flag that is still there, or somebody    *)
(* is about to wake it.                                                     *)
TicketSleepersOK ==
    /\ \A t \in Threads : pc[t] = "sleep" /\ call[t] = "lock" =>
          seen[t][1] # num[t] /\ seen[t][2]
    /\ \A t \in Threads : pc[t] = "asleep" /\ call[t] = "lock" =>
          \/ servingFlag /\ num[t] # serving
          \/ \E u \in Threads : pc[u] = "notify"

IInv ==
    /\ TypeOK
    /\ CallsOK
    /\ build.family = "futex" => FutexOK /\ arrivals = <<>>
    /\ build.family \in {"mcs", "mcslock"} => NodesOK
    /\ build.family = "mcs" => NodeSleepersOK
    /\ build.family = "ticket" => TicketPlacesOK /\ TicketSleepersOK
=============================================================================
