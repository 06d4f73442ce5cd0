------------------------------ MODULE FutexLock ------------------------------
(****************************************************************************)
(* The futex mutex, in C++ (qd_library/locks/futex_lock.hpp, "futex_lock")  *)
(* and in C (synch_algorithms/qdlock_futex.h, "flock").                     *)
(****************************************************************************)
EXTENDS Sleepers

VARIABLE word   \* locked / lockWord.value: free, taken or contended

(* The two copies of the protocol. The C code looks at the word once more   *)
(* before it waits.                                                         *)
futex_lock == [name |-> "futex_lock", family |-> "futex", looksAgain |-> FALSE]
flock == [name |-> "flock", family |-> "futex", looksAgain |-> TRUE]

FutexInit == word = "free"

(* Where a thread is after an exchange or a load that found the lock taken. *)
(* lock() of the C code calls flock_wait, which looks once more.            *)
FoundContended(t, c) ==
    IF build.looksAgain /\ c = "lock" THEN "look" ELSE "sleep"

(* lock(): compare-and-swap of free to taken.                               *)
FutexLocks(t) ==
    /\ Begin(t, "lock",
             CASE word = "free" -> "critical"
               [] word = "taken" -> "contendFirst"
               [] word = "contended" -> FoundContended(t, "lock"))
    /\ word' = IF word = "free" THEN "taken" ELSE word

(* try_lock(): a load that gives up or goes on to the compare-and-swap.     *)
FutexTries(t) ==
    /\ Begin(t, "try", IF word = "free" THEN "try" ELSE "idle")
    /\ UNCHANGED word

(* try_lock_or_wait(); flock_try_lock_wait whose number of tries says wait. *)
FutexTriesOrWaits(t) ==
    /\ Begin(t, "tryWait",
             CASE word = "free" -> "try"
               [] build.looksAgain /\ word # "free" -> "look"
               [] ~build.looksAgain /\ word = "taken" -> "contend"
               [] ~build.looksAgain /\ word = "contended" -> "sleep")
    /\ UNCHANGED word

FutexTrySwaps(t) ==
    /\ Continue(t, "try",
                CASE word = "free" -> "critical"
                  [] word # "free" /\ (call[t] = "try" \/ build.looksAgain) -> "idle"
                  [] word = "taken" /\ call[t] # "try" /\ ~build.looksAgain -> "contend"
                  [] word = "contended" /\ call[t] # "try" /\ ~build.looksAgain -> "sleep")
    /\ word' = IF word = "free" THEN "taken" ELSE word

(* The exchange of contended, which may take the lock.                      *)
FutexContends(t, from) ==
    /\ Continue(t, from, IF word = "free" THEN "critical"
                         ELSE IF from = "contendFirst" THEN FoundContended(t, "lock")
                         ELSE "sleep")
    /\ word' = "contended"

(* The load at the start of flock_wait.                                     *)
FlockLooks(t) ==
    /\ Continue(t, "look", IF word = "contended" THEN "sleep" ELSE "contend")
    /\ UNCHANGED word

FutexBack(t) ==
    CASE call[t] = "tryWait" -> "idle"
      [] call[t] = "lock" /\ build.looksAgain -> "look"
      [] call[t] = "lock" /\ ~build.looksAgain -> "contend"

FutexSleeps(t) ==
    /\ FutexWait(t, word = "contended", FutexBack(t))
    /\ UNCHANGED word

(* unlock(): the exchange of free, and notify_all if it found contended.    *)
FutexUnlocks(t) ==
    /\ Continue(t, "critical", IF word = "contended" THEN "notify" ELSE "idle")
    /\ word' = "free"

FutexNotifies(t) ==
    /\ FutexWake(t, "notify", "idle", Threads, [u \in Threads |-> FutexBack(u)])
    /\ UNCHANGED word

FutexStep(t) ==
    \/ FutexTrySwaps(t)
    \/ FutexContends(t, "contendFirst")
    \/ FutexContends(t, "contend")
    \/ FlockLooks(t)
    \/ FutexSleeps(t)
    \/ FutexUnlocks(t)
    \/ FutexNotifies(t)

FutexCall(t) == FutexLocks(t) \/ FutexTries(t) \/ FutexTriesOrWaits(t)
=============================================================================
