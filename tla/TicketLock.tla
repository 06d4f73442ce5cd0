------------------------------ MODULE TicketLock -----------------------------
(****************************************************************************)
(* The ticket lock, src/lock/ticket_lock.c, as steps of a thread t on the   *)
(* lock l of the set TicketLocks. The counters are ints advanced by         *)
(* fetch-and-add, which wraps; tickets are only tested for equality, so     *)
(* that they are numbers modulo TicketRange (2^32 in the code).             *)
(****************************************************************************)
EXTENDS Naturals, Control

CONSTANTS
    TicketLocks,   \* the ticket locks of the system
    TicketRange    \* bound: tickets are told apart modulo TicketRange

ASSUME TicketRangeAssumption == TicketRange \in Nat \ {0}

VARIABLES
    inCounter,    \* lock->inCounter.value
    outCounter,   \* lock->outCounter.value
    myTicket      \* ticketlock_write_read_lock: the local myTicket, 0 when dead

ticketVars == <<inCounter, outCounter, myTicket>>

Tickets == 0 .. TicketRange - 1

NextTicket(n) == (n + 1) % TicketRange

TicketInit ==
    /\ inCounter = [l \in TicketLocks |-> 0]
    /\ outCounter = [l \in TicketLocks |-> 0]
    /\ myTicket = [t \in Threads |-> 0]

TakeTicket(t, l, from, to) ==
    /\ Move(t, from, to)
    /\ myTicket' = [myTicket EXCEPT ![t] = inCounter[l]]
    /\ inCounter' = [inCounter EXCEPT ![l] = NextTicket(@)]
    /\ UNCHANGED outCounter

(* The load that ends the waiting loop.                                     *)
TicketIsUp(t, l, from, to) ==
    /\ outCounter[l] = myTicket[t]
    /\ Move(t, from, to)
    /\ myTicket' = [myTicket EXCEPT ![t] = 0]
    /\ UNCHANGED <<inCounter, outCounter>>

TicketUnlock(t, l, from, to) ==
    /\ Move(t, from, to)
    /\ outCounter' = [outCounter EXCEPT ![l] = NextTicket(@)]
    /\ UNCHANGED <<inCounter, myTicket>>

TicketTypeOK ==
    /\ inCounter \in [TicketLocks -> Tickets]
    /\ outCounter \in [TicketLocks -> Tickets]
    /\ myTicket \in [Threads -> Tickets]
=============================================================================
