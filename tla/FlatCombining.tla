----------------------------- MODULE FlatCombining ---------------------------
(****************************************************************************)
(* Flat combining (synch_algorithms/flat_comb.h). A thread has a slot in a  *)
(* list that only grows. It posts its request in the slot, and the answer   *)
(* comes back in the same word. Whoever gets the lock goes through the      *)
(* list, again and again while it finds something to do.                    *)
(****************************************************************************)
EXTENDS HeapClients

CONSTANT ScanBound   \* MAX_NUM_OF_HELPED_OPS, also _NUM_REP

VARIABLES
    fcLock,     \* lock.lockWord
    slots,      \* the list: the owners, newest first, as _tail_slot and _next link it
    req_ans,    \* _req_ans of each thread's slot
    tail_slot,  \* the locals: the list that get_new_slot has loaded,
    scan,       \* the slots still to visit,
    rounds,     \* iTry,
    changes,    \* num_changes
    total,      \* total_changes
    writeOut    \* and the answer that is about to be written

flatVars == <<fcLock, slots, req_ans, tail_slot, scan, rounds, changes, total, writeOut>>

flatcomb == [name |-> "flatcomb", shift |-> 2, detaches |-> FALSE]

FlatInit ==
    /\ fcLock = FALSE
    /\ slots = <<>>
    /\ req_ans = [t \in Threads |-> 0]
    /\ tail_slot = [t \in Threads |-> <<>>]
    /\ scan = [t \in Threads |-> <<>>]
    /\ rounds = [t \in Threads |-> 0]
    /\ changes = [t \in Threads |-> 0]
    /\ total = [t \in Threads |-> 0]
    /\ writeOut = [t \in Threads |-> 0]

HasSlot(t) == \E i \in DOMAIN slots : slots[i] = t

(* do_op: the slot is made in the first call.                               *)
FlatCall(t, arg) ==
    /\ Begin(t, arg)
    /\ Move(t, "idle", IF HasSlot(t) THEN "request" ELSE "getSlot")
    /\ UNCHANGED flatVars

(* get_new_slot: load the tail, compare-and-swap it to the new slot.        *)
GetSlot(t) ==
    /\ Move(t, "getSlot", "addSlot")
    /\ tail_slot' = [tail_slot EXCEPT ![t] = slots]
    /\ UNCHANGED <<fcLock, slots, req_ans, scan, rounds, changes, total, writeOut,
                   clientVars>>

AddSlot(t) ==
    /\ IF slots = tail_slot[t]
       THEN Move(t, "addSlot", "request") /\ slots' = <<t>> \o tail_slot[t]
       ELSE Move(t, "addSlot", "getSlot") /\ UNCHANGED slots
    /\ tail_slot' = [tail_slot EXCEPT ![t] = <<>>]
    /\ UNCHANGED <<fcLock, req_ans, scan, rounds, changes, total, writeOut,
                   clientVars>>

Requests(t) ==
    /\ Move(t, "request", "tryLock")
    /\ req_ans' = [req_ans EXCEPT ![t] = request[t]]
    /\ UNCHANGED <<fcLock, slots, tail_slot, scan, rounds, changes, total, writeOut,
                   clientVars>>

(* tataslock_try_write_read_lock.                                           *)
TriesLock(t) ==
    /\ Move(t, "tryLock", IF fcLock THEN "look" ELSE "round")
    /\ fcLock' = TRUE
    /\ UNCHANGED <<slots, req_ans, tail_slot, scan, rounds, changes, total, writeOut,
                   clientVars>>

(* -value - 2 undoes the sign and the shift of an answer.                   *)
Decoded(value) == -value - 2

(* The wait: the answer, or the lock is seen free and tried again.          *)
LooksForAnswer(t) ==
    /\ IF req_ans[t] # request[t]
       THEN Move(t, "look", "idle") /\ Return(t, Decoded(req_ans[t]))
       ELSE Move(t, "look", "isLocked") /\ UNCHANGED clientVars
    /\ UNCHANGED flatVars

(* Mutant: a thread that waits never tries the lock again.                  *)
LooksOn(t) ==
    /\ Move(t, "isLocked", "look")
    /\ UNCHANGED <<flatVars, clientVars>>

LooksForLock(t) ==
    /\ Move(t, "isLocked", IF fcLock THEN "look" ELSE "tryLock")
    /\ UNCHANGED <<flatVars, clientVars>>

(* flat_combining: a round starts with the newest slot.                     *)
StartsRound(t) ==
    /\ Move(t, "round", "visit")
    /\ scan' = [scan EXCEPT ![t] = slots]
    /\ rounds' = [rounds EXCEPT ![t] = @ + 1]
    /\ changes' = [changes EXCEPT ![t] = 0]
    /\ UNCHANGED <<fcLock, slots, req_ans, tail_slot, total, writeOut,
                   clientVars>>

IsRequest(value) == value = DEQUEUE \/ value > 0

(* A request is run,                                                        *)
VisitRuns(t) ==
    /\ scan[t] # <<>>
    /\ IsRequest(req_ans[Head(scan[t])])
    /\ Move(t, "visit", "answer")
    /\ Runs(Head(scan[t]), req_ans[Head(scan[t])])
    /\ changes' = [changes EXCEPT ![t] = @ + 1]
    /\ writeOut' = [writeOut EXCEPT ![t] =
           IF req_ans[Head(scan[t])] = DEQUEUE THEN -dequeue_cs ELSE 0]
    /\ UNCHANGED <<fcLock, slots, req_ans, tail_slot, scan, rounds, total>>

(* and its answer takes its place.                                          *)
VisitAnswers(t) ==
    /\ Move(t, "answer", "visit")
    /\ req_ans' = [req_ans EXCEPT ![Head(scan[t])] = writeOut[t]]
    /\ writeOut' = [writeOut EXCEPT ![t] = 0]
    /\ scan' = [scan EXCEPT ![t] = Tail(@)]
    /\ UNCHANGED <<fcLock, slots, tail_slot, rounds, changes, total, clientVars>>

VisitSkips(t) ==
    /\ scan[t] # <<>>
    /\ ~IsRequest(req_ans[Head(scan[t])])
    /\ pc[t] = "visit"
    /\ scan' = [scan EXCEPT ![t] = Tail(@)]
    /\ UNCHANGED <<pc, fcLock, slots, req_ans, tail_slot, rounds, changes, total, writeOut,
                   clientVars>>

(* The end of a round: another one, unless it was idle or the bounds are    *)
(* reached.                                                                 *)
EndsRound(t) ==
    /\ pc[t] = "visit" /\ scan[t] = <<>>
    /\ total' = [total EXCEPT ![t] = @ + changes[t]]
    /\ Move(t, "visit",
            IF changes[t] = 0 \/ total'[t] >= ScanBound \/ rounds[t] = ScanBound
            THEN "unlock" ELSE "round")
    /\ UNCHANGED <<fcLock, slots, req_ans, tail_slot, scan, rounds, changes, writeOut,
                   clientVars>>

(* The combiner reads its own answer, unlocks and returns.                  *)
Unlocks(t) ==
    /\ Move(t, "unlock", "idle")
    /\ Return(t, Decoded(req_ans[t]))
    /\ fcLock' = FALSE
    /\ rounds' = [rounds EXCEPT ![t] = 0]
    /\ changes' = [changes EXCEPT ![t] = 0]
    /\ total' = [total EXCEPT ![t] = 0]
    /\ UNCHANGED <<slots, req_ans, tail_slot, scan, writeOut>>

FlatStep(t) ==
    \/ GetSlot(t) \/ AddSlot(t) \/ Requests(t) \/ TriesLock(t) \/ LooksForAnswer(t)
    \/ LooksForLock(t) \/ StartsRound(t) \/ VisitRuns(t) \/ VisitAnswers(t) \/ VisitSkips(t)
    \/ EndsRound(t) \/ Unlocks(t)
=============================================================================
