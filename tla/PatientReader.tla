---------------------------- MODULE PatientReader ----------------------------
(****************************************************************************)
(* The reader's side of the multi-reader locks, and the write barrier:      *)
(* ardxlock_read_lock, wprwlock_read_lock and rhqdlock_read_lock are the    *)
(* same code over different tests of "is the lock taken". A reader          *)
(* announces itself in the read indicator and then looks at the lock; if    *)
(* the lock is taken it departs and waits, and one that has waited too long *)
(* raises the barrier, which keeps new writers out until it has got in.     *)
(*                                                                          *)
(* A library of steps: locked is the lock's test, a single load.            *)
(****************************************************************************)
EXTENDS ReaderGroupsNZI, FiniteSets

CONSTANT READ_PATIENCE_LIMIT  \* looks before the barrier is raised, 130000 in the code

ASSUME PatienceAssumption == READ_PATIENCE_LIMIT \in Nat

VARIABLES
    writeBarrier,  \* lock->writeBarrier.value
    bRaised,       \* read_lock: this reader has raised the barrier
    readPatience   \* read_lock: looks in the waiting loop, up to past the limit

patienceVars == <<writeBarrier, bRaised, readPatience>>
readVars == <<nziVars, patienceVars>>

ReaderInit ==
    /\ NZIInit
    /\ writeBarrier = 0
    /\ bRaised = [t \in Threads |-> FALSE]
    /\ readPatience = [t \in Threads |-> 0]

(****************************************************************************)
(* The writer's side.                                                       *)
(****************************************************************************)

(* Mutant: writers do not wait for the barrier.                             *)
BarrierIsIgnored(t, from, to) ==
    /\ Move(t, from, to)
    /\ UNCHANGED readVars

(* waitUntilWriteBarrierOff: the load that ends the loop.                   *)
BarrierIsOff(t, from, to) ==
    /\ writeBarrier = 0
    /\ Move(t, from, to)
    /\ UNCHANGED readVars

(* NZI_WAIT_UNIL_EMPTY: one iteration of the loop over the groups.          *)
ReadersAreOut(t, from, to) ==
    /\ GroupIsEmpty(t, from, to)
    /\ UNCHANGED patienceVars

(****************************************************************************)
(* read_lock and read_unlock.                                               *)
(****************************************************************************)
ReadArrives(t) ==
    /\ Arrive(t, "arrive", "check")
    /\ UNCHANGED patienceVars

(* Mutant: a reader that got in leaves the barrier up.                      *)
ReadForgetsBarrier(t, locked) ==
    /\ ~locked
    /\ Move(t, "check", "reading")
    /\ readPatience' = [readPatience EXCEPT ![t] = 0]
    /\ UNCHANGED <<nziVars, writeBarrier, bRaised>>

(* Mutant: a reader does not look at the lock.                              *)
ReadDoesNotLook(t, locked) ==
    /\ Move(t, "check", IF bRaised[t] THEN "lower" ELSE "reading")
    /\ readPatience' = [readPatience EXCEPT ![t] = 0]
    /\ UNCHANGED <<nziVars, writeBarrier, bRaised>>

(* The look after arriving.                                                 *)
ReadSeesFree(t, locked) ==
    /\ ~locked
    /\ Move(t, "check", IF bRaised[t] THEN "lower" ELSE "reading")
    /\ readPatience' = [readPatience EXCEPT ![t] = 0]
    /\ UNCHANGED <<nziVars, writeBarrier, bRaised>>

(* Mutant: a reader waits for the lock without departing.                   *)
ReadStaysArrived(t, locked) ==
    /\ locked
    /\ Move(t, "check", "wait")
    /\ UNCHANGED readVars

ReadSeesLocked(t, locked) ==
    /\ locked
    /\ Move(t, "check", "depart")
    /\ UNCHANGED readVars

ReadDeparts(t) ==
    /\ Depart(t, "depart", "wait")
    /\ UNCHANGED patienceVars

MorePatience(t) ==
    readPatience' = [readPatience EXCEPT
        ![t] = IF @ <= READ_PATIENCE_LIMIT THEN @ + 1 ELSE @]

(* Mutant: the barrier is raised at every look past the limit.              *)
ReadRaisesAgain(t, locked) ==
    /\ locked
    /\ Move(t, "wait", IF readPatience[t] >= READ_PATIENCE_LIMIT THEN "raise" ELSE "wait")
    /\ MorePatience(t)
    /\ UNCHANGED <<nziVars, writeBarrier, bRaised>>

(* The waiting loop: readPatience grows with every look at a taken lock,    *)
(* and the barrier is raised at most once, when it reaches the limit.       *)
ReadWaits(t, locked) ==
    /\ locked
    /\ Move(t, "wait", IF readPatience[t] = READ_PATIENCE_LIMIT /\ ~bRaised[t]
                       THEN "raise" ELSE "wait")
    /\ MorePatience(t)
    /\ UNCHANGED <<nziVars, writeBarrier, bRaised>>

ReadRaises(t) ==
    /\ Move(t, "raise", "wait")
    /\ writeBarrier' = writeBarrier + 1
    /\ bRaised' = [bRaised EXCEPT ![t] = TRUE]
    /\ UNCHANGED <<nziVars, readPatience>>

(* Mutant: a reader that sees the lock free goes in without arriving.       *)
ReadGoesIn(t, locked) ==
    /\ ~locked
    /\ Move(t, "wait", "reading")
    /\ UNCHANGED readVars

ReadRetries(t, locked) ==
    /\ ~locked
    /\ Move(t, "wait", "arrive")
    /\ UNCHANGED readVars

ReadLowers(t) ==
    /\ Move(t, "lower", "reading")
    /\ writeBarrier' = writeBarrier - 1
    /\ bRaised' = [bRaised EXCEPT ![t] = FALSE]
    /\ UNCHANGED <<nziVars, readPatience>>

ReadUnlock(t) ==
    /\ Depart(t, "reading", "idle")
    /\ UNCHANGED patienceVars

ReadStep(t, locked) ==
    \/ ReadArrives(t) \/ ReadSeesFree(t, locked) \/ ReadSeesLocked(t, locked)
    \/ ReadDeparts(t) \/ ReadWaits(t, locked) \/ ReadRaises(t)
    \/ ReadRetries(t, locked) \/ ReadLowers(t) \/ ReadUnlock(t)

(****************************************************************************)
(* The types, and the reader's part of the properties of the locks.         *)
(****************************************************************************)
ReadWaitLabels == {"arrive", "check", "depart", "wait", "raise"}

(* A reader that has seen the lock free, until it departs.                  *)
ReaderLabels == {"lower", "reading"}

ReaderTypeOK ==
    /\ NZITypeOK
    /\ writeBarrier \in Int
    /\ bRaised \in [Threads -> BOOLEAN]
    /\ readPatience \in [Threads -> 0 .. READ_PATIENCE_LIMIT + 1]

(****************************************************************************)
(* What the counters mean: the inductive invariant of the reader's side.    *)
(****************************************************************************)
ArrivedLabels == {"check", "depart"} \cup ReaderLabels

Arrived(g) == {t \in Threads : pc[t] \in ArrivedLabels /\ GroupOf(t) = g}

Impatient == {t \in Threads : bRaised[t]}

(* Each counter counts the readers of its group that have arrived and not   *)
(* departed, and the barrier those that have raised it and not lowered it.  *)
CountsOK ==
    /\ \A g \in Groups :
          IsFiniteSet(Arrived(g)) /\ readerGroups[g] = Cardinality(Arrived(g))
    /\ IsFiniteSet(Impatient) /\ writeBarrier = Cardinality(Impatient)

(* A reader raises the barrier at most once, and lowers what it has raised  *)
(* before it reads.                                                         *)
RaisedOK ==
    \A t \in Threads :
        /\ bRaised[t] => pc[t] \in {"arrive", "check", "depart", "wait", "lower"}
        /\ pc[t] = "lower" => bRaised[t]

(* A writer that waits has seen the groups below its own empty, and no      *)
(* reader has got into one of them since.                                   *)
WaitIsProgress ==
    \A t \in Threads :
        /\ pc[t] # "readers" => group[t] = 0
        /\ pc[t] = "readers" =>
              \A u \in Threads : pc[u] \in ReaderLabels => group[t] <= GroupOf(u)
=============================================================================
