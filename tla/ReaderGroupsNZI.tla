--------------------------- MODULE ReaderGroupsNZI ---------------------------
(****************************************************************************)
(* The read indicator, src/datastructures/reader_groups_nzi.h: a counter per group of *)
(* threads. Arriving and departing are atomic; a writer that waits for the  *)
(* readers waits for one group after the other, so that it never sees all   *)
(* the counters at one moment.                                              *)
(****************************************************************************)
EXTENDS Naturals, Integers, Control

CONSTANT NUMBER_OF_READER_GROUPS

ASSUME GroupsAssumption == NUMBER_OF_READER_GROUPS \in Nat \ {0}

(* Threads are the numbers that assign_id_to_thread hands out.              *)
ASSUME ThreadsAssumption == Threads \subseteq Nat

VARIABLES
    readerGroups,  \* nzi->readerGroups[i].value
    group          \* rgnzi_wait_unil_empty: the loop variable i

nziVars == <<readerGroups, group>>

Groups == 0 .. NUMBER_OF_READER_GROUPS - 1

GroupOf(t) == t % NUMBER_OF_READER_GROUPS

NZIInit ==
    /\ readerGroups = [g \in Groups |-> 0]
    /\ group = [t \in Threads |-> 0]

Arrive(t, from, to) ==
    /\ Move(t, from, to)
    /\ readerGroups' = [readerGroups EXCEPT ![GroupOf(t)] = @ + 1]
    /\ UNCHANGED group

(* Mutant: a reader departs from the next group.                            *)
DepartElsewhere(t, from, to) ==
    /\ Move(t, from, to)
    /\ readerGroups' = [readerGroups EXCEPT ![GroupOf(t + 1)] = @ - 1]
    /\ UNCHANGED group

Depart(t, from, to) ==
    /\ Move(t, from, to)
    /\ readerGroups' = [readerGroups EXCEPT ![GroupOf(t)] = @ - 1]
    /\ UNCHANGED group

(* Mutant: one empty group is enough.                                       *)
FirstGroupIsEmpty(t, from, next) ==
    /\ readerGroups[group[t]] <= 0
    /\ Move(t, from, next)
    /\ UNCHANGED nziVars

(* One group is seen empty: on to the next, or out of the loop.             *)
GroupIsEmpty(t, from, next) ==
    /\ readerGroups[group[t]] <= 0
    /\ Move(t, from, IF group[t] + 1 < NUMBER_OF_READER_GROUPS THEN from ELSE next)
    /\ group' = [group EXCEPT ![t] = IF @ + 1 < NUMBER_OF_READER_GROUPS THEN @ + 1 ELSE 0]
    /\ UNCHANGED readerGroups

NZITypeOK ==
    /\ readerGroups \in [Groups -> Int]
    /\ group \in [Threads -> Groups]
=============================================================================
