--------------------------- MODULE MRQDLockHistory ---------------------------
(****************************************************************************)
(* The multi-reader queue-delegation lock with the history of what it was   *)
(* given and of what it ran; each thread makes at most MaxCalls calls.      *)
(****************************************************************************)
EXTENDS MRQDLock, DXLockHistory

allVars == <<vars, historyVars>>

HInit ==
    /\ Init
    /\ accepted = <<>>
    /\ log = <<>>

HCall(t) ==
    /\ calls[t] < MaxCalls
    /\ Call(t)
    /\ UNCHANGED historyVars

HAccept(t) ==
    /\ AcceptStep(t)
    /\ accepted' = Append(accepted, OpOf(t))
    /\ UNCHANGED log

HRun(t) ==
    /\ \/ RunOwn(t) /\ log' = Append(log, OpOf(t))
       \/ FlushRuns(t) /\ log' = Append(log, data[current[t]])
    /\ UNCHANGED accepted

HQuiet(t) ==
    /\ QuietStep(t)
    /\ UNCHANGED historyVars

HStep(t) == HAccept(t) \/ HRun(t) \/ HQuiet(t)

(* Every client has made its calls and none is in progress.                 *)
Finished ==
    /\ \A t \in Threads : pc[t] = "idle" /\ calls[t] = MaxCalls
    /\ UNCHANGED allVars

HNext == Finished \/ \E t \in Threads : HCall(t) \/ HStep(t)

HSpec == HInit /\ [][HNext]_allVars

(* As Fairness of MRQDLock.                                                 *)
HFairSpec == HSpec /\ \A t \in Threads : WF_allVars(HStep(t))

(****************************************************************************)
(* Properties.                                                              *)
(****************************************************************************)

(* A reader sees the effect of every operation it has delegated before, and *)
(* so does a thread in its critical section: the assertions of              *)
(* tests/test_rdx_lock.c:184.                                               *)
OwnDelegationsPrecede ==
    \A t \in Threads : pc[t] \in {"critical", "reading"} =>
        \A i \in 1 .. Len(accepted) :
            accepted[i].thread = t => i <= Len(log)

(* What each thread does, seen from outside. A read has begun when the lock *)
(* was seen free; it is over when its departure returns.                    *)
StatusOf(t) ==
    IF pc[t] = "idle" THEN "idle"
    ELSE IF pc[t] \in {"barrier", "look", "try", "while", "spin", "set",
                       "offer", "offerAdd", "offerClose"} \cup ReadWaitLabels
    THEN "called"
    ELSE IF pc[t] \in ReaderLabels THEN "reading"
    ELSE IF kind[t] = "delegate" THEN "accepted"
    ELSE IF pc[t] \in {"reset", "resetClosed", "readers"} THEN "holding"
    ELSE IF pc[t] = "critical" THEN "inside"
    ELSE "released"

Promise == INSTANCE Delegation WITH status <- [t \in Threads |-> StatusOf(t)]

(* The lock implements the abstract delegation service with readers.        *)
ImplementsDelegation == Promise!Spec

(* Every call, write or read, returns when the other clients stop calling.  *)
CallsReturn == \A t \in Threads : pc[t] # "idle" ~> pc[t] = "idle"
=============================================================================
