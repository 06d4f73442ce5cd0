---------------------------- MODULE DXLockHistory ----------------------------
(****************************************************************************)
(* The history of a queue-delegation lock, and how it relates to the queue: *)
(* accepted, the operations in the order the lock took responsibility for   *)
(* them (a helper won the lock word, an offer claimed a slot), and log, the *)
(* operations in the order they ran. QDLockHistory and MRQDLockHistory      *)
(* record them.                                                             *)
(****************************************************************************)
EXTENDS DXLock, Sequences, SequencesExt

VARIABLES accepted, log

historyVars == <<accepted, log>>

HistoryTypeOK == accepted \in Seq(Ops) /\ log \in Seq(Ops)

(* Every operation runs at most once and in the order in which it was       *)
(* accepted, also when its slot is reused in a later opening of the queue.  *)
RunInOrder == IsPrefix(log, accepted)

(* When the lock is free every accepted operation has run: a successful     *)
(* offer is never left in a queue that nobody will flush.                   *)
AllAcceptedHaveRun == ~lockWord => log = accepted

(****************************************************************************)
(* Why: the operations that are accepted and have not run are, in the order *)
(* of acceptance, the holder's own and those in the slots still to be read. *)
(****************************************************************************)

(* The holder h came in to help and its own operation has not run.          *)
OwnFirst(h) ==
    pc[h] \in {"reset", "resetClosed", "readers", "own"} /\ kind[h] # "exclusive"

Own(h) == IF OwnFirst(h) THEN 1 ELSE 0

(* The slots of this opening whose operations have run.                     *)
Ran(h) == IF pc[h] = "flushClear" THEN current[h] + 1 ELSE current[h]

(* What was accepted before slot 0 of this opening was claimed.             *)
Start(h) == Len(log) + Own(h) - Ran(h)

HolderOwes(h) ==
    /\ Len(accepted) = IF pc[h] \in OpenLabels THEN Start(h) + Limit(h)
                                               ELSE Len(log) + Own(h)
    /\ OwnFirst(h) => accepted[Len(log) + 1] = OpOf(h)

SlotsHold(h) ==
    /\ Start(h) >= 0
    /\ \A i \in Slots :
          request[i] /\ Ran(h) <= i => data[i] = accepted[Start(h) + i + 1]
    /\ \A t \in Threads : pc[t] \in ClaimLabels =>
          /\ accepted[Start(h) + index[t] + 1] = OpOf(t)
          /\ pc[t] = "offerRequest" => data[index[t]] = OpOf(t)

LogFollows ==
    /\ Len(log) <= Len(accepted)
    /\ \A i \in 1 .. Len(log) : log[i] = accepted[i]

Owed ==
    /\ LogFollows
    /\ (\A h \in Threads : pc[h] \notin HolderLabels) => Len(log) = Len(accepted)
    /\ \A h \in Threads : pc[h] \in HolderLabels => HolderOwes(h)
    /\ \A h \in Threads : pc[h] \in OpenLabels => SlotsHold(h)

(* A thread in its critical section, or one that reads, has had everything  *)
(* run that it delegated before.                                            *)
OwnHaveRun ==
    \A t \in Threads :
        \/ pc[t] \in HolderLabels /\ kind[t] = "exclusive"
        \/ pc[t] \in {"lower", "reading"}
        => \A i \in 1 .. Len(accepted) : accepted[i].thread = t => i <= Len(log)

(* A call is accepted once, no operation twice, and those of a thread in    *)
(* the order of its calls.                                                  *)
NotAccepted == {"barrier", "look", "try", "while", "offer", "offerAdd", "offerClose"}

AcceptedOnce ==
    /\ \A i \in 1 .. Len(accepted) :
          LET t == accepted[i].thread IN
          /\ accepted[i].call <= calls[t]
          /\ accepted[i].call = calls[t] => pc[t] \notin NotAccepted
    /\ \A i, j \in 1 .. Len(accepted) : accepted[i] = accepted[j] => i = j
    /\ \A i, j \in 1 .. Len(accepted) :
          i < j /\ accepted[i].thread = accepted[j].thread =>
              accepted[i].call < accepted[j].call

HistoryInv == Owed /\ OwnHaveRun /\ AcceptedOnce
=============================================================================
