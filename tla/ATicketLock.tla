----------------------------- MODULE ATicketLock -----------------------------
(****************************************************************************)
(* The array ticket lock, src/lock/aticket_lock.c: a thread waits at the    *)
(* element of spinAreas that its ticket selects. Several threads may wait   *)
(* at one element, for different tickets.                                   *)
(*                                                                          *)
(* The code's tickets are ints that must not reach 2^31 (the element's      *)
(* index would be negative). Here they are told apart modulo ATicketRange,  *)
(* a multiple of ARRAY_SIZE, which changes no comparison as long as it      *)
(* exceeds ARRAY_SIZE by the number of threads.                             *)
(****************************************************************************)
EXTENDS Naturals, Control, FiniteSets

CONSTANTS
    ARRAY_SIZE,     \* elements of spinAreas
    ATicketRange    \* bound: tickets are told apart modulo ATicketRange

ASSUME ArraySizeAssumption ==
    /\ IsFiniteSet(Threads)
    /\ ARRAY_SIZE \in Nat \ {0}
    /\ ATicketRange \in Nat
    /\ ATicketRange % ARRAY_SIZE = 0
    /\ ATicketRange >= ARRAY_SIZE + Cardinality(Threads)

VARIABLES
    aInCounter,    \* lock->inCounter.value
    aOutCounter,   \* lock->outCounter.value
    spinAreas,     \* lock->spinAreas[i].value
    aTicket        \* aticketlock_write_read_lock: the local myTicket, 0 when dead

aTicketVars == <<aInCounter, aOutCounter, spinAreas, aTicket>>

ATickets == 0 .. ATicketRange - 1
Elements == 0 .. ARRAY_SIZE - 1

ANextTicket(n) == (n + 1) % ATicketRange

ATicketInit ==
    /\ aInCounter = 0
    /\ aOutCounter = 0
    /\ spinAreas = [i \in Elements |-> 0]
    /\ aTicket = [t \in Threads |-> 0]

ATakeTicket(t, from, to) ==
    /\ Move(t, from, to)
    /\ aTicket' = [aTicket EXCEPT ![t] = aInCounter]
    /\ aInCounter' = ANextTicket(aInCounter)
    /\ UNCHANGED <<aOutCounter, spinAreas>>

(* The load that ends the waiting loop.                                     *)
ATicketIsUp(t, from, to) ==
    /\ spinAreas[aTicket[t] % ARRAY_SIZE] = aTicket[t]
    /\ Move(t, from, to)
    /\ aTicket' = [aTicket EXCEPT ![t] = 0]
    /\ UNCHANGED <<aInCounter, aOutCounter, spinAreas>>

(* aticketlock_write_read_unlock: the count, which only the holder writes,  *)
(* and then the element of the next ticket.                                 *)
ACount(t, from) ==
    /\ Move(t, from, "aPass")
    /\ aOutCounter' = ANextTicket(aOutCounter)
    /\ UNCHANGED <<aInCounter, spinAreas, aTicket>>

APass(t, to) ==
    /\ Move(t, "aPass", to)
    /\ spinAreas' = [spinAreas EXCEPT ![aOutCounter % ARRAY_SIZE] = aOutCounter]
    /\ UNCHANGED <<aInCounter, aOutCounter, aTicket>>

ATicketTypeOK ==
    /\ aInCounter \in ATickets
    /\ aOutCounter \in ATickets
    /\ spinAreas \in [Elements -> ATickets]
    /\ aTicket \in [Threads -> ATickets]
=============================================================================
