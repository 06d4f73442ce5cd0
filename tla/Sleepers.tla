------------------------------ MODULE Sleepers -------------------------------
(****************************************************************************)
(* What the locks that sleep in the kernel share: the call a thread is in,  *)
(* and the futex system call. FUTEX_WAIT compares the word and goes to      *)
(* sleep in one atomic step; FUTEX_WAKE lets sleepers go on. A sleeper is   *)
(* not woken by anything else (the code handles no signals).                *)
(****************************************************************************)
EXTENDS Control, Naturals

VARIABLES
    build,   \* the lock the program is built with; it never changes
    call     \* lock, try or tryWait: the call each thread is in, or lock

Calls == {"lock", "try", "tryWait"}

(* A call of kind c by t whose first access leads to label to.              *)
Begin(t, c, to) ==
    /\ Move(t, "idle", to)
    /\ call' = [call EXCEPT ![t] = c]

Continue(t, from, to) ==
    /\ Move(t, from, to)
    /\ call' = IF to \in {"idle", "critical"} THEN [call EXCEPT ![t] = "lock"] ELSE call

(* sys_futex(FUTEX_WAIT): sleep if the word still has the expected value.   *)
FutexWait(t, expected, back) ==
    Continue(t, "sleep", IF expected THEN "asleep" ELSE back)

(* sys_futex(FUTEX_WAKE) on the word the threads of S sleep on; each goes   *)
(* on at back[u].                                                           *)
FutexWake(t, from, to, S, back) ==
    /\ pc[t] = from
    /\ pc' = [u \in Threads |-> IF u = t THEN to
                                ELSE IF u \in S /\ pc[u] = "asleep" THEN back[u]
                                ELSE pc[u]]
    /\ UNCHANGED call
=============================================================================
