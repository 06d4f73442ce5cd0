------------------------------ MODULE NodeLocks ------------------------------
(****************************************************************************)
(* The RDX locks in which every thread has a node of its own, added to the  *)
(* family of DelegationLocks:                                               *)
(*   sdw    simple_delayed_writers_lock.c: the nodes form an MCS queue and  *)
(*          carry a queue of writes each; a writer delegates to the last    *)
(*   aer    all_equal_rdx_lock.c: and readers wait at the last node         *)
(*   fcrdx  flat_comb_rdx_lock.c: a node carries one request and the holder *)
(*          of an MCS lock runs those of a list of nodes                    *)
(*   afdx   agnostic_fdx_lock.c: the same without readers                   *)
(* A node is its thread. The hand-over of the MCS queue is atomic here:     *)
(* MCSLock has its steps.                                                   *)
(****************************************************************************)
EXTENDS DelegationLocks, SequencesExt

VARIABLES
    enabled,    \* the nodes whose readSpinningEnabled is set
    arrivedAt,  \* the node at whose indicator a reader has arrived, or NULL
    list        \* the combine list, first to last; active is to be in it

nodeVars == <<enabled, arrivedAt, list>>
allVars == <<vars, nodeVars>>

(****************************************************************************)
(* The builds.                                                              *)
(****************************************************************************)
mwqueue_offer == [CopiedOffer EXCEPT !.flag = FALSE]
mwqueue_flush == [CopiedFlush EXCEPT !.setsFlag = FALSE]

(* lookFails: what a reader does when the lock was taken after it arrived.  *)
sdwlock_calls ==
    LET locks == <<"enqueue", "open", "turn">>
        unlocks == <<"flush", "leaveLine">>
        converts == locks \o <<"critical">> \o unlocks
    IN  [rounds |-> [start |-> <<"tail">>, refused |-> {locks \o <<"own">> \o unlocks}],
         help |-> unlocks, spins |-> FALSE, lookFails |-> {converts},
         others |-> {converts, <<"readTail">>}]

(* NUMBER_OF_READ_SPIN_ATTEMPTS is any number here.                         *)
aerlock_calls ==
    LET locks == <<"enqueue", "enable", "open", "turn">>
        unlocks == <<"flush", "disable", "spinners", "leaveLine">>
        converts == locks \o <<"critical">> \o unlocks
    IN  [rounds |-> [start |-> <<"tail">>, refused |-> {locks \o <<"own">> \o unlocks}],
         help |-> unlocks, spins |-> TRUE, lookFails |-> {<<"readTail">>, converts},
         others |-> {converts, <<"readTail">>}]

OneRequest == [CopiedOffer EXCEPT !.capacity = 1]
fcrdxlock_calls ==
    [rounds |-> [start |-> <<"post", "isActive">>, again |-> {<<"tryBarrier">>, <<"isActive">>}],
     help |-> <<"readers", "combine", "leaveLine", "answered">>,
     others |-> {<<"barrier", "enqueue", "turn", "combine", "critical", "leaveLine">>, Reading}]

afdxlock_calls ==
    [rounds |-> [start |-> <<"post", "isActive">>, again |-> {<<"tryLine">>, <<"isActive">>}],
     help |-> <<"combine", "leaveLine", "answered">>,
     others |-> {<<"enqueue", "turn", "critical", "leaveLine">>}]

NodeBuilds ==
    {Lock("sdw", Threads, mwqueue_offer, mwqueue_flush, sdwlock_calls),
     Lock("aer", Threads, mwqueue_offer, mwqueue_flush, aerlock_calls),
     Lock("fcrdx", Threads, OneRequest, CopiedFlush, fcrdxlock_calls),
     Lock("afdx", Threads, OneRequest, CopiedFlush, afdxlock_calls)}

NodeInit ==
    /\ Start(Locks \cup NodeBuilds)
    /\ enabled = {}
    /\ arrivedAt = [t \in Threads |-> NULL]
    /\ list = <<>>

(****************************************************************************)
(* The queue of nodes.                                                      *)
(****************************************************************************)
GoTo(t, node, rest) ==
    /\ code' = [code EXCEPT ![t] = rest]
    /\ at' = [at EXCEPT ![t] = node]
    /\ UNCHANGED size

(* A writer that finds a node at the end offers to it.                      *)
LoadTail(t) ==
    /\ At(t, "tail")
    /\ IF line = <<>> THEN \E rest \in rounds.refused : GoTo(t, t, rest)
                      ELSE GoTo(t, Last(line), <<"claim">>)
    /\ UNCHANGED <<build, mutexVars, queueVars, index, local, readerVars, nodeVars>>

(* The swap. Only a thread that finds nobody waits for the readers.         *)
Enqueue(t) ==
    LET alone == [i \in DOMAIN Rest(t) |-> IF Rest(t)[i] = "turn" THEN "readers" ELSE Rest(t)[i]]
    IN  /\ At(t, "enqueue")
        /\ GoTo(t, t, IF line = <<>> THEN alone ELSE Rest(t))
        /\ line' = Append(line, t)
        /\ UNCHANGED <<build, owner, locked, globalOwner, queueVars, index, local, readerVars,
                       nodeVars>>

Turn(t) ==
    /\ GoOn(t, "turn")
    /\ Head(line) = t
    /\ UNCHANGED <<build, mutexVars, queueVars, index, local, readerVars, nodeVars>>

LeaveLine(t) ==
    /\ GoOn(t, "leaveLine")
    /\ line' = Tail(line)
    /\ UNCHANGED <<build, owner, locked, globalOwner, queueVars, index, local, readerVars, nodeVars>>

(****************************************************************************)
(* Readers of sdw and aer.                                                  *)
(****************************************************************************)
LookedInVain(t) == \E rest \in build.calls.lookFails : GoTo(t, t, rest)

ReadTail(t) ==
    /\ At(t, "readTail")
    /\ IF line = <<>> THEN GoTo(t, t, <<"arrive", "lookAgain", "read", "depart">>)
       ELSE IF build.calls.spins THEN GoTo(t, Last(line), <<"seesEnabled">>)
       ELSE LookedInVain(t)
    /\ UNCHANGED <<build, mutexVars, queueVars, index, local, readerVars, nodeVars>>

LookAgain(t) ==
    /\ At(t, "lookAgain")
    /\ IF line = <<>> THEN Go(t, Rest(t))
       ELSE \E rest \in build.calls.lookFails : GoTo(t, t, <<"depart">> \o rest)
    /\ UNCHANGED <<build, mutexVars, queueVars, index, local, readerVars, nodeVars>>

SeesEnabled(t) ==
    /\ At(t, "seesEnabled")
    /\ IF at[t] \in enabled THEN Go(t, <<"arriveAt">>) ELSE LookedInVain(t)
    /\ UNCHANGED <<build, mutexVars, queueVars, index, local, readerVars, nodeVars>>

ArriveAt(t) ==
    /\ At(t, "arriveAt")
    /\ Go(t, <<"checkEnabled">>)
    /\ arrivedAt' = [arrivedAt EXCEPT ![t] = at[t]]
    /\ UNCHANGED <<build, mutexVars, queueVars, index, local, readerVars, enabled, list>>

CheckEnabled(t) ==
    /\ At(t, "checkEnabled")
    /\ IF at[t] \in enabled THEN Go(t, <<"spin", "read", "departFrom">>)
       ELSE \E rest \in build.calls.lookFails : Go(t, <<"departFrom">> \o rest)
    /\ UNCHANGED <<build, mutexVars, queueVars, index, local, readerVars, nodeVars>>

Spin(t) ==
    /\ GoOn(t, "spin")
    /\ at[t] \notin enabled
    /\ UNCHANGED <<build, mutexVars, queueVars, index, local, readerVars, nodeVars>>

DepartFrom(t) ==
    /\ GoOn(t, "departFrom")
    /\ arrivedAt' = [arrivedAt EXCEPT ![t] = NULL]
    /\ UNCHANGED <<build, mutexVars, queueVars, index, local, readerVars, enabled, list>>

Enable(t) ==
    /\ GoOn(t, "enable")
    /\ enabled' = enabled \cup {t}
    /\ UNCHANGED <<build, mutexVars, queueVars, index, local, readerVars, arrivedAt, list>>

(* disableReadSpinning() *)
Disable(t) ==
    /\ GoOn(t, "disable")
    /\ enabled' = enabled \ {t}
    /\ UNCHANGED <<build, mutexVars, queueVars, index, local, readerVars, arrivedAt, list>>

WaitSpinners(t) ==
    /\ GoOn(t, "spinners")
    /\ \A u \in Threads : arrivedAt[u] # t
    /\ UNCHANGED <<build, mutexVars, queueVars, index, local, readerVars, nodeVars>>

(****************************************************************************)
(* Requests, of fcrdx and afdx.                                             *)
(****************************************************************************)
Post(t) ==
    /\ GoOn(t, "post")
    /\ slot' = [slot EXCEPT ![t][0] = [by |-> t, size |-> 1]]
    /\ UNCHANGED <<build, mutexVars, count, closed, index, local, readerVars, nodeVars>>

IsActive(t) ==
    /\ At(t, "isActive")
    /\ \E tries \in build.calls.rounds.again \ {<<"isActive">>} :
          Go(t, IF Contains(list, t) THEN tries ELSE <<"activate">> \o tries)
    /\ UNCHANGED <<build, mutexVars, queueVars, index, local, readerVars, nodeVars>>

(* activateFCNode() *)
Activate(t) ==
    /\ GoOn(t, "activate")
    /\ list' = <<t>> \o list
    /\ UNCHANGED <<build, mutexVars, queueVars, index, local, readerVars, enabled, arrivedAt>>

(* try_write_read_lock(), over the barrier and then the queue.              *)
TryBarrier(t) ==
    /\ At(t, "tryBarrier")
    /\ Go(t, <<IF raised = {} THEN "tryLine" ELSE "answered">>)
    /\ UNCHANGED <<build, mutexVars, queueVars, index, local, readerVars, nodeVars>>

TryLine(t) ==
    /\ At(t, "tryLine")
    /\ IF line = <<>> THEN Go(t, build.calls.help) /\ line' = <<t>>
                      ELSE Go(t, <<"answered">>) /\ UNCHANGED line
    /\ UNCHANGED <<build, owner, locked, globalOwner, queueVars, index, local, readerVars, nodeVars>>

Answered(t) ==
    /\ At(t, "answered")
    /\ IF slot[t][0] = Empty THEN Go(t, <<>>)
                             ELSE \E rest \in build.calls.rounds.again : Go(t, rest)
    /\ UNCHANGED <<build, mutexVars, queueVars, index, local, readerVars, nodeVars>>

(* combine_requests() loads the first node; those that are added in front   *)
(* of it are left to the next round. pos: how many are still to be visited. *)
Combine(t) ==
    /\ At(t, "combine")
    /\ Go(t, <<"visit">> \o Rest(t))
    /\ local' = [local EXCEPT ![t].pos = Len(list)]
    /\ UNCHANGED <<build, mutexVars, queueVars, index, readerVars, nodeVars>>

(* Taking a request and running it is one step: nobody but the holder can   *)
(* tell in which order this is done.                                        *)
Visit(t) ==
    LET node == list[Len(list) - local[t].pos + 1]
    IN  /\ At(t, "visit")
        /\ local[t].pos > 0
        /\ slot' = [slot EXCEPT ![node][0] = Empty]
        /\ local' = [local EXCEPT ![t].pos = @ - 1]
        /\ UNCHANGED <<build, callVars, mutexVars, count, closed, index, readerVars, nodeVars>>

(* clean_combine_list(), of any nodes but the first: which have not been    *)
(* used for long is left open, and a node may hold a request by now.        *)
Clean(t) ==
    /\ At(t, "visit")
    /\ local[t].pos = 0
    /\ Go(t, Rest(t))
    /\ \E gone \in SUBSET ToSet(SubSeq(list, 2, Len(list))) :
          list' = SelectSeq(list, LAMBDA n : n \notin gone)
    /\ UNCHANGED <<build, mutexVars, queueVars, index, local, readerVars, enabled, arrivedAt>>

(****************************************************************************)
(* The program.                                                             *)
(****************************************************************************)
NodeStep(t) ==
    \/ LoadTail(t) \/ Enqueue(t) \/ Turn(t) \/ LeaveLine(t)
    \/ ReadTail(t) \/ LookAgain(t) \/ SeesEnabled(t) \/ ArriveAt(t) \/ CheckEnabled(t)
    \/ Spin(t) \/ DepartFrom(t) \/ Enable(t) \/ Disable(t) \/ WaitSpinners(t)
    \/ Post(t) \/ IsActive(t) \/ Activate(t) \/ TryBarrier(t) \/ TryLine(t) \/ Answered(t)
    \/ Combine(t) \/ Visit(t) \/ Clean(t)

NodeNext == (Next /\ UNCHANGED nodeVars) \/ \E t \in Threads : NodeStep(t)

NodeSpec == NodeInit /\ [][NodeNext]_allVars
=============================================================================
