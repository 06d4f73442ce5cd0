------------------------------ MODULE CCSynch --------------------------------
(****************************************************************************)
(* CC-Synch and H-Synch (synch_algorithms/ccsynch.h and hsynch.h). A thread *)
(* exchanges the tail for a fresh node, posts its operation in the node     *)
(* that was there and waits at it: until the operation has run, or until    *)
(* the thread is to run the operations of the list itself. H-Synch has one  *)
(* tail for each NUMA node, and a CLH lock around the combining.            *)
(****************************************************************************)
EXTENDS CLHLock

CONSTANTS
    Clusters,   \* the NUMA nodes; CC-Synch uses one of them
    HelpBound   \* MAX_NUM_OF_HELPED_OPS

ASSUME HelpAssumption == HelpBound \in Nat \ {0}
ASSUME ClustersAssumption ==
    Clusters # {} /\ Clusters \cap Threads = {} /\ NULL \notin Clusters

VARIABLES
    Tail_,       \* Tail of each cluster
    next,        \* the fields of the nodes
    arg_ret,
    locked,
    completed,
    postedBy,    \* history variable: the thread that posted in a node
    next_node,   \* the node each thread posts next
    cur,         \* the locals of applyOp
    p,
    counter

synchVars ==
    <<Tail_, next, arg_ret, locked, completed, postedBy, next_node, cur, p, counter>>

ccsynch ==
    [name |-> "ccsynch", shift |-> 2, detaches |-> FALSE,
     clusters |-> {CHOOSE c \in Clusters : TRUE}]

hsynch == [name |-> "hsynch", shift |-> 2, detaches |-> FALSE, clusters |-> Clusters]

(* ccsynch_lock_init, HSynchStructInit and threadStateInit: each tail has a *)
(* node of its own and so has each thread.                                  *)
Nodes == Clusters \cup Threads

SynchInit ==
    /\ Tail_ = [c \in Clusters |-> c]
    /\ next = [n \in Nodes |-> NULL]
    /\ arg_ret = [n \in Nodes |-> 0]
    /\ locked = [n \in Nodes |-> FALSE]
    /\ completed = [n \in Nodes |-> FALSE]
    /\ postedBy = [n \in Nodes |-> NULL]
    /\ next_node = [t \in Threads |-> t]
    /\ cur = [t \in Threads |-> NULL]
    /\ p = [t \in Threads |-> NULL]
    /\ counter = [t \in Threads |-> 0]

(* Mutant: completed is not reset.                                          *)
AnnouncesUnreset(t, arg) ==
    /\ Begin(t, arg)
    /\ Move(t, "idle", "post")
    /\ \E c \in build.clusters :
           /\ cur' = [cur EXCEPT ![t] = Tail_[c]]
           /\ Tail_' = [Tail_ EXCEPT ![c] = next_node[t]]
    /\ next' = [next EXCEPT ![next_node[t]] = NULL]
    /\ locked' = [locked EXCEPT ![next_node[t]] = TRUE]
    /\ UNCHANGED <<arg_ret, completed, postedBy, next_node, p, counter>>

(* applyOp up to the exchange. A thread may have migrated to any cluster.   *)
Announces(t, arg) ==
    /\ Begin(t, arg)
    /\ Move(t, "idle", "post")
    /\ \E c \in build.clusters :
           /\ cur' = [cur EXCEPT ![t] = Tail_[c]]
           /\ Tail_' = [Tail_ EXCEPT ![c] = next_node[t]]
    /\ next' = [next EXCEPT ![next_node[t]] = NULL]
    /\ locked' = [locked EXCEPT ![next_node[t]] = TRUE]
    /\ completed' = [completed EXCEPT ![next_node[t]] = FALSE]
    /\ UNCHANGED <<arg_ret, postedBy, next_node, p, counter>>

(* The operation is written before the link that publishes it.              *)
Posts(t) ==
    /\ Move(t, "post", "spin")
    /\ arg_ret' = [arg_ret EXCEPT ![cur[t]] = request[t]]
    /\ postedBy' = [postedBy EXCEPT ![cur[t]] = t]
    /\ next' = [next EXCEPT ![cur[t]] = next_node[t]]
    /\ next_node' = [next_node EXCEPT ![t] = cur[t]]
    /\ UNCHANGED <<Tail_, locked, completed, cur, p, counter, clientVars>>

(* The return, with the answer from the node.                               *)
ReturnAnswer(t) ==
    /\ Return(t, arg_ret[cur[t]])
    /\ arg_ret' = [arg_ret EXCEPT ![cur[t]] = 0]
    /\ postedBy' = [postedBy EXCEPT ![cur[t]] = NULL]
    /\ cur' = [cur EXCEPT ![t] = NULL]

(* The end of the wait: the operation has run,                              *)
Helped(t) ==
    /\ Move(t, "spin", "idle")
    /\ ~locked[cur[t]] /\ completed[cur[t]]
    /\ ReturnAnswer(t)
    /\ UNCHANGED <<Tail_, next, locked, completed, next_node, p, counter>>

(* Mutant: H-Synch combines without the central lock.                       *)
CombinesAtOnce(t) ==
    /\ Move(t, "spin", "combine")
    /\ ~locked[cur[t]] /\ ~completed[cur[t]]
    /\ p' = [p EXCEPT ![t] = cur[t]]
    /\ UNCHANGED <<Tail_, next, arg_ret, locked, completed, postedBy, next_node, cur, counter,
                   clientVars>>

(* or the thread is the next to combine; in H-Synch with the lock.          *)
Combines(t) ==
    /\ Move(t, "spin", IF build = hsynch THEN "clhSwap" ELSE "combine")
    /\ ~locked[cur[t]] /\ ~completed[cur[t]]
    /\ p' = [p EXCEPT ![t] = cur[t]]
    /\ UNCHANGED <<Tail_, next, arg_ret, locked, completed, postedBy, next_node, cur, counter,
                   clientVars>>

MayHelp(t) == next[p[t]] # NULL /\ counter[t] < HelpBound

(* The combining loop: run an operation,                                    *)
Helps(t) ==
    /\ Move(t, "combine", "complete")
    /\ MayHelp(t)
    /\ Runs(postedBy[p[t]], arg_ret[p[t]])
    /\ arg_ret' = [arg_ret EXCEPT ![p[t]] = IF @ = DEQUEUE THEN dequeue_cs ELSE @]
    /\ counter' = [counter EXCEPT ![t] = @ + 1]
    /\ UNCHANGED <<Tail_, next, locked, completed, postedBy, next_node, cur, p>>

(* say so,                                                                  *)
Completes(t) ==
    /\ Move(t, "complete", "release")
    /\ completed' = [completed EXCEPT ![p[t]] = TRUE]
    /\ UNCHANGED <<Tail_, next, arg_ret, locked, postedBy, next_node, cur, p, counter,
                   clientVars>>

(* and let its thread go on; tmp_next was read before that.                 *)
Releases(t) ==
    /\ Move(t, "release", "combine")
    /\ locked' = [locked EXCEPT ![p[t]] = FALSE]
    /\ p' = [p EXCEPT ![t] = next[p[t]]]
    /\ UNCHANGED <<Tail_, next, arg_ret, completed, postedBy, next_node, cur, counter,
                   clientVars>>

(* The end of the loop makes the next thread combine.                       *)
PassesOn(t) ==
    /\ pc[t] = "combine"
    /\ ~MayHelp(t)
    /\ locked' = [locked EXCEPT ![p[t]] = FALSE]
    /\ counter' = [counter EXCEPT ![t] = 0]
    /\ p' = [p EXCEPT ![t] = NULL]
    /\ IF build = hsynch
       THEN /\ Move(t, "combine", "clhUnlock")
            /\ UNCHANGED <<arg_ret, postedBy, cur, clientVars>>
       ELSE Move(t, "combine", "idle") /\ ReturnAnswer(t)
    /\ UNCHANGED <<Tail_, next, completed, next_node>>

(* clhUnlock, and the return of the combiner's own answer.                  *)
EndsCombining(t) ==
    /\ CLHUnlock(t, "clhUnlock")
    /\ ReturnAnswer(t)
    /\ UNCHANGED <<Tail_, next, locked, completed, next_node, p, counter>>

SynchCall(t, arg) == Announces(t, arg) /\ UNCHANGED clhVars

SynchStep(t) ==
    \/ /\ Posts(t) \/ Helped(t) \/ Combines(t) \/ Helps(t) \/ Completes(t) \/ Releases(t)
          \/ PassesOn(t)
       /\ UNCHANGED clhVars
    \/ (CLHSwap(t, "clhSwap") \/ CLHSpin(t, "combine")) /\ UNCHANGED <<synchVars, clientVars>>
    \/ EndsCombining(t)
=============================================================================
