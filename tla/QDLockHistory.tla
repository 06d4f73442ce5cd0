---------------------------- MODULE QDLockHistory ----------------------------
(****************************************************************************)
(* The queue-delegation lock with the history of what it accepted and of    *)
(* what it ran. Each thread makes at most MaxCalls calls, so that every     *)
(* operation is told apart from every other.                                *)
(****************************************************************************)
EXTENDS QDLock, DXLockHistory

allVars == <<vars, historyVars>>

HInit ==
    /\ Init
    /\ accepted = <<>>
    /\ log = <<>>

HCall(t) ==
    /\ calls[t] < MaxCalls
    /\ Call(t)
    /\ UNCHANGED historyVars

HAccept(t) ==
    /\ AcceptStep(t)
    /\ accepted' = Append(accepted, OpOf(t))
    /\ UNCHANGED log

HRun(t) ==
    /\ \/ RunOwn(t) /\ log' = Append(log, OpOf(t))
       \/ FlushRuns(t) /\ log' = Append(log, data[current[t]])
    /\ UNCHANGED accepted

HQuiet(t) ==
    /\ QuietStep(t)
    /\ UNCHANGED historyVars

HStep(t) == HAccept(t) \/ HRun(t) \/ HQuiet(t)

(* Every client has made its calls and none is in progress.                 *)
Finished ==
    /\ \A t \in Threads : pc[t] = "idle" /\ calls[t] = MaxCalls
    /\ UNCHANGED allVars

HNext == Finished \/ \E t \in Threads : HCall(t) \/ HStep(t)

HSpec == HInit /\ [][HNext]_allVars

(****************************************************************************)
(* Properties.                                                              *)
(****************************************************************************)
(* In its critical section, and with the answer to a blocking call, a       *)
(* thread sees the effect of everything it has delegated: the first is the  *)
(* assertion of tests/test_rdx_lock.c:185, the second says that no answer   *)
(* overtakes what the same thread delegated before, whoever ran it.         *)
OwnDelegationsPrecede ==
    \A t \in Threads :
        pc[t] = "critical" \/ (pc[t] # "idle" /\ returnValue[t]) =>
            \A i \in 1 .. Len(accepted) :
                accepted[i].thread = t => i <= Len(log)

(* A blocking call that has its answer has had its operation run; one whose *)
(* operation has not run has not returned.                                  *)
ResponsesOK ==
    /\ \A t \in Threads, i \in Len(log) + 1 .. Len(accepted) :
          accepted[i].thread = t /\ accepted[i].respond =>
              accepted[i] = OpOf(t) /\ pc[t] # "idle"
    /\ \A t \in Threads : pc[t] # "idle" /\ returnValue[t] =>
          \E i \in 1 .. Len(log) : log[i] = OpOf(t)

(* What each thread does, seen from outside.                                *)
StatusOf(t) ==
    IF pc[t] = "idle" THEN "idle"
    ELSE IF pc[t] \in {"look", "try", "spin", "set", "offer", "offerAdd", "offerClose"}
    THEN "called"
    ELSE IF kind[t] # "exclusive" THEN "accepted"
    ELSE IF pc[t] \in {"reset", "resetClosed"} THEN "holding"
    ELSE IF pc[t] = "critical" THEN "inside"
    ELSE "released"

Promise == INSTANCE Delegation WITH status <- [t \in Threads |-> StatusOf(t)]

(* The lock implements the abstract delegation service: acceptance within   *)
(* the call, execution once and in order, none inside a critical section,   *)
(* a blocking call returns after its operation ran.                         *)
ImplementsDelegation == Promise!Spec

=============================================================================
