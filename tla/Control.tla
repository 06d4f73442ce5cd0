------------------------------- MODULE Control -------------------------------
(****************************************************************************)
(* Threads and their control state. The C code is sequential per thread;    *)
(* an action of a lock is one access to shared memory by one thread, and    *)
(* pc[t] names the access thread t makes next. The modules of the locks and *)
(* of the queues extend this one, so that a lock can be composed of the     *)
(* steps of the parts it calls.                                             *)
(****************************************************************************)
CONSTANT Threads    \* the pthreads of a benchmark, each with its own stack

VARIABLE pc         \* for each of them the label of its next access

\* A thread that is about to make the access "here" has made it, and runs on to
\* the access "next"; the others stand where they stood, whatever they are doing.
Move(t, here, next) ==
    pc[t] = here /\ pc' = [u \in Threads |-> IF u = t THEN next ELSE pc[u]]
=============================================================================
