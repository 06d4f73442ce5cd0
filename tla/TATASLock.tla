------------------------------ MODULE TATASLock ------------------------------
(****************************************************************************)
(* The test-and-test-and-set lock, src/lock/tatas_lock.c and tatas_lock.h,  *)
(* as steps that a lock built on it composes with its own: each step names  *)
(* the labels control moves between, because the C functions are inlined or *)
(* called from several places.                                              *)
(****************************************************************************)
EXTENDS Control

VARIABLE lockWord   \* lock->lockWord.value

TATASInit == lockWord = FALSE

(* tataslock_is_locked, and the load of the waiting loop of                 *)
(* tataslock_write_read_lock.                                               *)
SeesFree(t, from, to) ==
    /\ ~lockWord
    /\ Move(t, from, to)
    /\ UNCHANGED lockWord

SeesLocked(t, from, to) ==
    /\ lockWord
    /\ Move(t, from, to)
    /\ UNCHANGED lockWord

(* Mutant: test and set are not one step.                                   *)
SetWithoutTest(t, from, to) ==
    /\ Move(t, from, to)
    /\ lockWord' = TRUE

(* The atomic exchange of tataslock_try_write_read_lock and of              *)
(* tataslock_write_read_lock: it always writes true, and wins if it read    *)
(* false.                                                                   *)
TestAndSetWins(t, from, to) ==
    /\ ~lockWord
    /\ Move(t, from, to)
    /\ lockWord' = TRUE

TestAndSetLoses(t, from, to) ==
    /\ lockWord
    /\ Move(t, from, to)
    /\ lockWord' = TRUE

(* tataslock_write_read_unlock; control is moved by the caller.             *)
ReleaseLockWord == lockWord' = FALSE
=============================================================================
