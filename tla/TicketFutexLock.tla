--------------------------- MODULE TicketFutexLock ---------------------------
(****************************************************************************)
(* qd_library/locks/ticket_futex_lock.hpp. Both words count in steps of     *)
(* two; the lowest bit of serving, the flag, says that somebody sleeps.     *)
(* Here they count in steps of one and the flag is a variable of its own.   *)
(* No call begins when TicketLimit tickets have been handed out, until      *)
(* nobody holds one and the counting starts again from 0: only differences  *)
(* of tickets matter to the code.                                           *)
(****************************************************************************)
EXTENDS Sleepers

CONSTANT TicketLimit

ASSUME TicketLimitAssumption == TicketLimit \in Nat \ {0}

VARIABLES
    ticket,       \* ticket
    serving,      \* serving without its flag
    servingFlag,  \* the flag of serving
    num,          \* the ticket each thread has drawn or loaded
    seen          \* the serving, and its flag, each thread loaded last

ticketFutexVars == <<ticket, serving, servingFlag, num, seen>>

ticket_futex_lock == [name |-> "ticket_futex_lock", family |-> "ticket"]

TicketFutexInit ==
    /\ ticket = 0
    /\ serving = 0
    /\ servingFlag = FALSE
    /\ num = [t \in Threads |-> 0]
    /\ seen = [t \in Threads |-> <<0, FALSE>>]

(* A thread that returns, or is let in, forgets its locals.                 *)
Forgets(t) ==
    /\ num' = [num EXCEPT ![t] = 0]
    /\ seen' = [seen EXCEPT ![t] = <<0, FALSE>>]

Remembers(t, n, s) ==
    /\ num' = [num EXCEPT ![t] = n]
    /\ seen' = [seen EXCEPT ![t] = s]

(* lock(): the fetch_add.                                                   *)
TicketDraws(t) ==
    /\ ticket < TicketLimit
    /\ Begin(t, "lock", "serve")
    /\ num' = [num EXCEPT ![t] = ticket]
    /\ ticket' = ticket + 1
    /\ UNCHANGED <<serving, servingFlag, seen>>

(* The loop of lock(): the ticket is up, or the flag is added (if it is not *)
(* there) and the thread sleeps on what it saw. A compare-and-swap that     *)
(* fails has loaded serving, like the start of the loop.                    *)
TicketServes(t) ==
    \/ /\ serving = num[t]
       /\ Continue(t, "serve", "critical")
       /\ Forgets(t)
       /\ UNCHANGED <<ticket, serving, servingFlag>>
    \/ /\ serving # num[t]
       /\ Continue(t, "serve", "sleep")
       /\ servingFlag' = TRUE
       /\ seen' = [seen EXCEPT ![t] = <<serving, TRUE>>]
       /\ UNCHANGED <<ticket, serving, num>>

(* try_lock() and try_lock_or_wait(): the load of ticket.                   *)
TicketTries(t, c) ==
    /\ ticket < TicketLimit
    /\ Begin(t, c, "loaded")
    /\ num' = [num EXCEPT ![t] = ticket]
    /\ UNCHANGED <<ticket, serving, servingFlag, seen>>

(* The bound of the model, not code.                                        *)
TicketsStartAgain ==
    /\ ticket >= TicketLimit /\ serving = ticket
    /\ \A t \in Threads : pc[t] \in {"idle", "asleep"}
    /\ ticket' = 0 /\ serving' = 0
    /\ UNCHANGED <<pc, call, servingFlag, num, seen>>

(* The wait of try_lock_or_wait(), by the flag it has seen.                 *)
TicketWaits(saw) == IF saw THEN "sleep" ELSE "raise"

(* The load of serving. try_lock() compares it with its flag.               *)
TicketCompares(t) ==
    /\ \/ /\ num[t] = serving
          /\ call[t] = "tryWait" \/ ~servingFlag
          /\ Continue(t, "loaded", "try")
          /\ Remembers(t, num[t], <<serving, servingFlag>>)
       \/ /\ call[t] = "try"
          /\ num[t] # serving \/ servingFlag
          /\ Continue(t, "loaded", "idle")
          /\ Forgets(t)
       \/ /\ call[t] = "tryWait"
          /\ num[t] # serving
          /\ Continue(t, "loaded", TicketWaits(servingFlag))
          /\ Remembers(t, 0, <<serving, servingFlag>>)
    /\ UNCHANGED <<ticket, serving, servingFlag>>

(* Mutant: the ticket is taken without comparing it with the one loaded.    *)
TicketTakesNext(t) ==
    /\ Continue(t, "try", "critical")
    /\ ticket' = ticket + 1
    /\ Forgets(t)
    /\ UNCHANGED <<serving, servingFlag>>

(* The compare-and-swap of ticket.                                          *)
TicketTrySwaps(t) ==
    /\ \/ /\ ticket = num[t]
          /\ Continue(t, "try", "critical")
          /\ ticket' = ticket + 1
          /\ Forgets(t)
       \/ /\ ticket # num[t]
          /\ call[t] = "try"
          /\ Continue(t, "try", "idle")
          /\ Forgets(t)
          /\ UNCHANGED ticket
       \/ /\ ticket # num[t]
          /\ call[t] = "tryWait"
          /\ Continue(t, "try", TicketWaits(seen[t][2]))
          /\ Remembers(t, 0, seen[t])
          /\ UNCHANGED ticket
    /\ UNCHANGED <<serving, servingFlag>>

(* The compare-and-swap that adds the flag; "someone called unlock, no need *)
(* to wait" if it fails.                                                    *)
TicketRaises(t) ==
    /\ \/ /\ <<serving, servingFlag>> = seen[t]
          /\ Continue(t, "raise", "sleep")
          /\ servingFlag' = TRUE
          /\ Remembers(t, 0, <<serving, TRUE>>)
       \/ /\ <<serving, servingFlag>> # seen[t]
          /\ Continue(t, "raise", "idle")
          /\ Forgets(t)
          /\ UNCHANGED servingFlag
    /\ UNCHANGED <<ticket, serving>>

TicketBack(t) == IF call[t] = "tryWait" THEN "idle" ELSE "serve"

TicketSleeps(t) ==
    /\ FutexWait(t, <<serving, servingFlag>> = seen[t], TicketBack(t))
    /\ Remembers(t, num[t], <<0, FALSE>>)
    /\ UNCHANGED <<ticket, serving, servingFlag>>

(* unlock(): the exchange, and notify_all if it found the flag.             *)
TicketUnlocks(t) ==
    /\ Continue(t, "critical", IF servingFlag THEN "notify" ELSE "idle")
    /\ serving' = serving + 1
    /\ servingFlag' = FALSE
    /\ UNCHANGED <<ticket, num, seen>>

TicketNotifies(t) ==
    /\ FutexWake(t, "notify", "idle", Threads, [u \in Threads |-> TicketBack(u)])
    /\ UNCHANGED ticketFutexVars

TicketStep(t) ==
    \/ TicketServes(t)
    \/ TicketCompares(t)
    \/ TicketTrySwaps(t)
    \/ TicketRaises(t)
    \/ TicketSleeps(t)
    \/ TicketUnlocks(t)
    \/ TicketNotifies(t)

TicketCall(t) ==
    TicketDraws(t) \/ TicketTries(t, "try") \/ TicketTries(t, "tryWait") \/ TicketsStartAgain
=============================================================================
