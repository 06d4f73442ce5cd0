----------------------------- MODULE Delegation ------------------------------
(****************************************************************************)
(* What a queue-delegation lock promises to its clients.                    *)
(*                                                                          *)
(* A thread calls one of four things. "delegate" hands  an operation over   *)
(* and may return before it runs (adxlock_delegate); "await" hands it over  *)
(* and returns once it has run (adxlock_write_with_response_block);         *)
(* "exclusive" is a critical section of its own (adxlock_write_read_lock    *)
(* ... adxlock_write_read_unlock); "read" is a critical section shared with *)
(* other readers (ardxlock_read_lock ... ardxlock_read_unlock).             *)
(*                                                                          *)
(* Every delegated operation is accepted at one moment between its call and *)
(* its return; accepted operations are executed once each, one at a time,   *)
(* in the order of their acceptance; none is executed while a thread holds  *)
(* the lock or reads, and a thread takes the lock, or starts to read, only  *)
(* at a moment when every accepted operation has been executed.             *)
(****************************************************************************)
EXTENDS Naturals, Sequences, SequencesExt

CONSTANTS
    Threads,    \* the client threads
    Kinds,      \* the kinds of calls they make
    MaxCalls    \* bound: calls per thread

VARIABLES
    status,     \* what each thread is doing
    calls,      \* number of calls each thread has made
    kind,       \* kind of its current (or last) call
    accepted,   \* delegated operations, in order of acceptance
    log         \* executed operations, in order of execution

vars == <<status, calls, kind, accepted, log>>

(* The operation handed over by the current call of thread t; respond says  *)
(* whether it carries the address of the caller's return value.             *)
OpOf(t) == [thread |-> t, call |-> calls[t], respond |-> kind[t] = "await"]

Init ==
    /\ status = [t \in Threads |-> "idle"]
    /\ calls = [t \in Threads |-> 0]
    /\ kind = [t \in Threads |-> "none"]
    /\ accepted = <<>>
    /\ log = <<>>

Become(t, from, to) ==
    /\ status[t] = from
    /\ status' = [status EXCEPT ![t] = to]

Held == \E t \in Threads : status[t] \in {"holding", "inside"}
Read == \E t \in Threads : status[t] = "reading"

Call(t) ==
    /\ calls[t] < MaxCalls
    /\ Become(t, "idle", "called")
    /\ calls' = [calls EXCEPT ![t] = @ + 1]
    /\ \E k \in Kinds : kind' = [kind EXCEPT ![t] = k]
    /\ UNCHANGED <<accepted, log>>

Accept(t) ==
    /\ kind[t] \in {"delegate", "await"}
    /\ Become(t, "called", "accepted")
    /\ accepted' = Append(accepted, OpOf(t))
    /\ UNCHANGED <<calls, kind, log>>

Execute ==
    /\ Len(log) < Len(accepted)
    /\ ~Held /\ ~Read
    /\ log' = Append(log, accepted[Len(log) + 1])
    /\ UNCHANGED <<status, calls, kind, accepted>>

(* The lock is taken; from now on no delegated operation runs.              *)
Acquire(t) ==
    /\ kind[t] = "exclusive"
    /\ log = accepted
    /\ ~Held
    /\ Become(t, "called", "holding")
    /\ UNCHANGED <<calls, kind, accepted, log>>

(* The critical section begins when the last reader has left.               *)
Enter(t) ==
    /\ ~Read
    /\ Become(t, "holding", "inside")
    /\ UNCHANGED <<calls, kind, accepted, log>>

Release(t) ==
    /\ Become(t, "inside", "released")
    /\ UNCHANGED <<calls, kind, accepted, log>>

StartRead(t) ==
    /\ kind[t] = "read"
    /\ log = accepted
    /\ ~Held
    /\ Become(t, "called", "reading")
    /\ UNCHANGED <<calls, kind, accepted, log>>

Return(t) ==
    /\ \/ Become(t, "accepted", "idle")
       \/ Become(t, "released", "idle")
       \/ Become(t, "reading", "idle")
    /\ kind[t] = "await" => Contains(log, OpOf(t))
    /\ UNCHANGED <<calls, kind, accepted, log>>

Next ==
    \/ Execute
    \/ \E t \in Threads :
          \/ Call(t) \/ Accept(t) \/ Acquire(t) \/ Enter(t) \/ Release(t)
          \/ StartRead(t) \/ Return(t)

Spec == Init /\ [][Next]_vars
=============================================================================
