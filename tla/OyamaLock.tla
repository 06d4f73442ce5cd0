------------------------------ MODULE OyamaLock ------------------------------
(****************************************************************************)
(* The lock of Oyama et al. (synch_algorithms/oyama.h). The lock word is    *)
(* free, locked, or the newest of a list of contexts, one per operation for *)
(* the holder to run. The contexts come from malloc ("oyama") or, with      *)
(* PRE_ALLOC_OPT ("oyamaopt"), from a ring that belongs to the thread. An   *)
(* enqueue returns when its context is in the list.                         *)
(****************************************************************************)
EXTENDS HeapClients

CONSTANTS
    RingSize,  \* MAX_NUM_OF_HELPED_OPS; bounds also what one thread mallocs
    FREE,      \* LOCK_IS_FREE_FLAG
    LOCKED     \* LOCK_IS_LOCKED_FLAG

Contexts == Threads \X (0 .. RingSize - 1)

(* A thread has a context at least, and no context is a flag.               *)
ASSUME RingAssumption == RingSize \in Nat \ {0}
ASSUME FlagsAssumption == FREE # LOCKED /\ FREE \notin Contexts /\ LOCKED \notin Contexts

VARIABLES
    lockWord,
    free,             \* the fields of the contexts: free,
    rest,             \* next: the context that was inserted before, or LOCKED for none
    data,             \* delgateFun and data
    currentContext,   \* currentOyamaContext of each thread
    context,          \* the locals: the context to insert,
    lockWordValue,    \* the word an insertion has loaded,
    reversing,        \* the context that a holder turns round next,
    batch,            \* those it has turned round and is to run, oldest first,
    response          \* and returnValue, the response location of a dequeue

oyamaVars == <<lockWord, free, rest, data, currentContext, context, lockWordValue,
      reversing, batch, response>>

oyama == [name |-> "oyama", shift |-> 0, detaches |-> TRUE]
oyamaopt == [name |-> "oyamaopt", shift |-> 0, detaches |-> TRUE]

(* oyamalock_initialize and oyamalock_register_this_thread.                 *)
OyamaInit ==
    /\ lockWord = FREE
    /\ free = [c \in Contexts |-> TRUE]
    /\ rest = [c \in Contexts |-> LOCKED]
    /\ data = [c \in Contexts |-> 0]
    /\ currentContext = [t \in Threads |-> 0]
    /\ context = [t \in Threads |-> <<t, 0>>]
    /\ lockWordValue = [t \in Threads |-> FREE]
    /\ reversing = [t \in Threads |-> LOCKED]
    /\ batch = [t \in Threads |-> <<>>]
    /\ response = [t \in Threads |-> 0]

(* oyamalock_write_with_response: compare-and-swap of free to locked.       *)
OyamaCall(t, arg) ==
    /\ Begin(t, arg)
    /\ Move(t, "idle", IF lockWord = FREE THEN "own" ELSE "make")
    /\ lockWord' = IF lockWord = FREE THEN LOCKED ELSE lockWord
    /\ UNCHANGED <<free, rest, data, currentContext, context, lockWordValue, reversing,
                   batch, response>>

(* oyama_make_context: malloc of any free block, or the next of the ring,   *)
(* for which the thread waits.                                              *)
Makes(t) ==
    /\ \E c \in {t} \X (0 .. RingSize - 1) :
           /\ free[c]
           /\ build = oyamaopt => c[2] = currentContext[t]
           /\ context' = [context EXCEPT ![t] = c]
           /\ free' = [free EXCEPT ![c] = FALSE]
           /\ data' = [data EXCEPT ![c] = request[t]]
    /\ currentContext' = [currentContext EXCEPT ![t] =
           IF build = oyamaopt THEN (@ + 1) % RingSize ELSE @]
    /\ Move(t, "make", "insert")
    /\ UNCHANGED <<lockWord, rest, lockWordValue, reversing, batch, response, clientVars>>

(* oyama_insert: load the word and link the context to what was there,      *)
InsertLoads(t) ==
    /\ Move(t, "insert", "insertSwap")
    /\ lockWordValue' = [lockWordValue EXCEPT ![t] = lockWord]
    /\ rest' = [rest EXCEPT ![context[t]] = IF lockWord = FREE THEN @ ELSE lockWord]
    /\ UNCHANGED <<lockWord, free, data, currentContext, context, reversing, batch, response,
                   clientVars>>

(* and compare-and-swap: again, or the thread has the lock, or its context  *)
(* is in the list. After an enqueue that is the end of the call.            *)
InsertSwaps(t) ==
    /\ Move(t, "insertSwap",
            CASE lockWord # lockWordValue[t] -> "insert"
              [] lockWord = lockWordValue[t] /\ lockWord = FREE -> "ownContext"
              [] lockWord = lockWordValue[t] /\ lockWord # FREE ->
                     IF request[t] = DEQUEUE THEN "await" ELSE "idle")
    /\ lockWord' =
           CASE lockWord # lockWordValue[t] -> lockWord
             [] lockWord = lockWordValue[t] /\ lockWord = FREE -> LOCKED
             [] lockWord = lockWordValue[t] /\ lockWord # FREE -> context[t]
    /\ IF pc'[t] = "idle" THEN Return(t, 0) ELSE UNCHANGED clientVars
    /\ lockWordValue' = [lockWordValue EXCEPT ![t] = FREE]
    /\ context' = [context EXCEPT ![t] = IF pc'[t] \in {"await", "idle"} THEN <<t, 0>> ELSE @]
    /\ UNCHANGED <<free, rest, data, currentContext, reversing, batch, response>>

(* An operation of thread u writes its answer to u's response location.     *)
Answers(u, arg) ==
    /\ Runs(u, arg)
    /\ response' = [response EXCEPT ![u] = IF arg = DEQUEUE THEN dequeue_cs ELSE @]

(* oyama_free_context.                                                      *)
GivesBack(c) ==
    /\ free' = [free EXCEPT ![c] = TRUE]
    /\ rest' = [rest EXCEPT ![c] = LOCKED]
    /\ data' = [data EXCEPT ![c] = 0]

(* The holder runs its own operation,                                       *)
RunsOwn(t) ==
    /\ Move(t, "own", "release")
    /\ Answers(t, request[t])
    /\ UNCHANGED <<lockWord, free, rest, data, currentContext, context, lockWordValue,
                   reversing, batch>>

(* that may have a context already.                                         *)
RunsOwnContext(t) ==
    /\ Move(t, "ownContext", "release")
    /\ Answers(t, request[t])
    /\ GivesBack(context[t])
    /\ context' = [context EXCEPT ![t] = <<t, 0>>]
    /\ UNCHANGED <<lockWord, currentContext, lockWordValue, reversing, batch>>

(* Mutant: a store of free.                                                 *)
ReleaseStores(t) ==
    /\ Move(t, "release", "idle")
    /\ Return(t, response[t])
    /\ lockWord' = FREE
    /\ response' = [response EXCEPT ![t] = 0]
    /\ UNCHANGED <<free, rest, data, currentContext, context, lockWordValue,
                   reversing, batch>>

(* oyama_release_lock: compare-and-swap of locked to free,                  *)
ReleaseSwaps(t) ==
    /\ lockWord = LOCKED
    /\ Move(t, "release", "idle")
    /\ Return(t, response[t])
    /\ lockWord' = FREE
    /\ response' = [response EXCEPT ![t] = 0]
    /\ UNCHANGED <<free, rest, data, currentContext, context, lockWordValue,
                   reversing, batch>>

ReleaseFails(t) ==
    /\ lockWord # LOCKED
    /\ Move(t, "release", "grab")
    /\ UNCHANGED <<oyamaVars, clientVars>>

(* or take the whole list; nobody else reaches it now,                     *)
ReleaseGrabs(t) ==
    /\ Move(t, "grab", "reverse")
    /\ reversing' = [reversing EXCEPT ![t] = lockWord]
    /\ lockWord' = LOCKED
    /\ UNCHANGED <<free, rest, data, currentContext, context, lockWordValue, batch,
                   response, clientVars>>

(* turn it round, one context after the other, and then                     *)
Reverses(t) ==
    /\ Move(t, "reverse", IF rest[reversing[t]] = LOCKED THEN "serve" ELSE "reverse")
    /\ batch' = [batch EXCEPT ![t] = <<reversing[t]>> \o @]
    /\ reversing' = [reversing EXCEPT ![t] = rest[@]]
    /\ UNCHANGED <<lockWord, free, rest, data, currentContext, context, lockWordValue,
                   response, clientVars>>

(* run the operations of the list, each with the answer it writes, and give *)
(* each context back.                                                       *)
Serves(t) ==
    /\ batch[t] # <<>>
    /\ Move(t, "serve", "giveBack")
    /\ Answers(Head(batch[t])[1], data[Head(batch[t])])
    /\ UNCHANGED <<lockWord, free, rest, data, currentContext, context, lockWordValue,
                   reversing, batch>>

EndsService(t) ==
    /\ Move(t, "giveBack", IF Len(batch[t]) = 1 THEN "release" ELSE "serve")
    /\ GivesBack(Head(batch[t]))
    /\ batch' = [batch EXCEPT ![t] = Tail(@)]
    /\ UNCHANGED <<lockWord, currentContext, context, lockWordValue, reversing, response,
                   clientVars>>

(* oyamalock_write_with_response_block: the wait for the answer.            *)
Awaits(t) ==
    /\ response[t] # 0
    /\ Move(t, "await", "idle")
    /\ Return(t, response[t])
    /\ response' = [response EXCEPT ![t] = 0]
    /\ UNCHANGED <<lockWord, free, rest, data, currentContext, context, lockWordValue,
                   reversing, batch>>

OyamaStep(t) ==
    \/ Makes(t) \/ InsertLoads(t) \/ InsertSwaps(t) \/ RunsOwn(t) \/ RunsOwnContext(t)
    \/ ReleaseSwaps(t) \/ ReleaseFails(t) \/ ReleaseGrabs(t) \/ Reverses(t) \/ Serves(t)
    \/ EndsService(t) \/ Awaits(t)
=============================================================================
