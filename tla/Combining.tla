------------------------------ MODULE Combining ------------------------------
(****************************************************************************)
(* The data structure benchmark over the combining algorithms and the CLH   *)
(* lock: each build is one of them around the heap.                         *)
(****************************************************************************)
EXTENDS CCSynch, OyamaLock, FlatCombining

CONSTANT Builds   \* the names of the builds to check

AllBuilds == {clh, ccsynch, hsynch, oyama, oyamaopt, flatcomb}

ASSUME BuildsAssumption == Builds \subseteq {b.name : b \in AllBuilds}

vars == <<build, pc, clientVars, clhVars, synchVars, oyamaVars, flatVars>>

Init ==
    /\ build \in {b \in AllBuilds : b.name \in Builds}
    /\ pc = [t \in Threads |-> "idle"]
    /\ ClientsInit
    /\ CLHInit
    /\ SynchInit
    /\ OyamaInit
    /\ FlatInit

Call(t) ==
    /\ \E arg \in Values \cup {DEQUEUE} :
        \/ build = clh /\ CLHCall(t, arg) /\ UNCHANGED <<synchVars, oyamaVars, flatVars>>
        \/ build \in {ccsynch, hsynch} /\ SynchCall(t, arg) /\ UNCHANGED <<oyamaVars, flatVars>>
        \/ build \in {oyama, oyamaopt} /\ OyamaCall(t, arg)
              /\ UNCHANGED <<clhVars, synchVars, flatVars>>
        \/ build = flatcomb /\ FlatCall(t, arg) /\ UNCHANGED <<clhVars, synchVars, oyamaVars>>
    /\ UNCHANGED build

Step(t) ==
    /\ \/ build = clh /\ CLHStep(t) /\ UNCHANGED <<synchVars, oyamaVars, flatVars>>
       \/ build \in {ccsynch, hsynch} /\ SynchStep(t) /\ UNCHANGED <<oyamaVars, flatVars>>
       \/ build \in {oyama, oyamaopt} /\ OyamaStep(t)
             /\ UNCHANGED <<clhVars, synchVars, flatVars>>
       \/ build = flatcomb /\ FlatStep(t) /\ UNCHANGED <<clhVars, synchVars, oyamaVars>>
    /\ UNCHANGED build

Next == \E t \in Threads : Call(t) \/ Step(t)

Spec == Init /\ [][Next]_vars

(* A thread between its call and its return is scheduled; nobody has to     *)
(* call.                                                                    *)
FairSpec == Spec /\ \A t \in Threads : WF_vars(Step(t))

(****************************************************************************)
(* Properties.                                                              *)
(****************************************************************************)

HolderLabels ==
    {"own", "ownContext", "leave",                          \* CLH, Oyama
     "release", "grab", "reverse", "serve", "giveBack",     \* Oyama
     "combine", "complete", "clhUnlock",                    \* CC-Synch, H-Synch; also release
     "round", "visit", "answer", "unlock"}                  \* flat combining

(* The heap has no lock of its own: at most one thread runs operations, its *)
(* own or those of others, also while the role passes from one to the next. *)
OneCombiner ==
    \A t, u \in Threads : pc[t] \in HolderLabels /\ pc[u] \in HolderLabels => t = u

(* The SANITY_CHECK of the benchmark: when all threads have returned, every *)
(* operation that was issued has been executed.                             *)
IssuedHaveRun ==
    (\A t \in Threads : pc[t] = "idle") => \A t \in Threads : pending[t] = <<>>

(* The heap of each build is the shared heap that the benchmark is about:   *)
(* operations one at a time, each once, a thread's own in order, and to     *)
(* each dequeue the answer of its own operation. Dequeues of CC-Synch and   *)
(* H-Synch return the shifted value.                                        *)
PromisedHeap == INSTANCE SharedHeap
    WITH detaches <- build.detaches,
         returned <- [t \in Threads |->
             IF build \in {ccsynch, hsynch} /\ returned[t] # 0 THEN returned[t] - 2
             ELSE returned[t]]

ImplementsSharedHeap == PromisedHeap!Spec

(* Whoever waits for an operation that somebody else is to run is served,   *)
(* however often others call. With Oyama's lock this is said only of those  *)
(* whose context is in the list: an insertion can fail for ever, and the    *)
(* holder can be kept busy for ever.                                        *)
WaitersAreServed ==
    \A t \in Threads :
        (pc[t] # "idle" /\ (build \in {oyama, oyamaopt} => pc[t] = "await"))
            ~> pc[t] = "idle"
=============================================================================
