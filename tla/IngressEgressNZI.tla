-------------------------- MODULE IngressEgressNZI ---------------------------
(****************************************************************************)
(* A multi-reader lock of DelegationLocks over the other read indicator,    *)
(* datastructures/numa_ingress_egress_nzi.h: for each NUMA node one counter *)
(* of the readers that came and one of those that left. A writer waits      *)
(* until it has read the same value from both, one after the other.         *)
(****************************************************************************)
EXTENDS DelegationLocks

CONSTANT MaxArrivals  \* bound: arrivals per node

VARIABLES
    ingress, egress,   \* readerCounters
    cameOn,            \* myIngressEgressArriveNumaNode of each thread
    waitsOn,           \* nienzi_wait_unil_empty: i
    ingressCount       \* ... and its local, NULL before the load

nziVars == <<ingress, egress, cameOn, waitsOn, ingressCount>>

nienzi_initialize ==
    /\ ingress = [n \in Nodes |-> 0]
    /\ egress = [n \in Nodes |-> 0]
    /\ cameOn = [t \in Threads |-> 1]
    /\ waitsOn = [t \in Threads |-> 1]
    /\ ingressCount = [t \in Threads |-> NULL]

nienzi_arrive(t) ==
    /\ Arrive(t)
    /\ \E n \in Nodes :
          /\ ingress[n] < MaxArrivals
          /\ cameOn' = [cameOn EXCEPT ![t] = n]
          /\ ingress' = [ingress EXCEPT ![n] = @ + 1]
    /\ UNCHANGED <<egress, waitsOn, ingressCount>>

nienzi_depart(t) ==
    /\ Depart(t)
    /\ egress' = [egress EXCEPT ![cameOn[t]] = @ + 1]
    /\ UNCHANGED <<ingress, cameOn, waitsOn, ingressCount>>

LoadIngress(t) ==
    /\ At(t, "readers")
    /\ waitsOn[t] \in Nodes
    /\ ingressCount[t] = NULL
    /\ ingressCount' = [ingressCount EXCEPT ![t] = ingress[waitsOn[t]]]
    /\ UNCHANGED <<vars, ingress, egress, cameOn, waitsOn>>

LoadEgress(t) ==
    /\ At(t, "readers")
    /\ ingressCount[t] # NULL
    /\ ingressCount' = [ingressCount EXCEPT ![t] = NULL]
    /\ waitsOn' = IF ingressCount[t] = egress[waitsOn[t]]
                  THEN [waitsOn EXCEPT ![t] = @ + 1] ELSE waitsOn
    /\ UNCHANGED <<vars, ingress, egress, cameOn>>

AllWereEmpty(t) ==
    /\ GoOn(t, "readers")
    /\ waitsOn[t] \notin Nodes
    /\ waitsOn' = [waitsOn EXCEPT ![t] = 1]
    /\ UNCHANGED <<build, mutexVars, queueVars, index, local, readerVars,
                   ingress, egress, cameOn, ingressCount>>

IEInit == Init /\ nienzi_initialize

IENext ==
    \E t \in Threads :
        \/ (Call(t) \/ StepBesides(t)) /\ UNCHANGED nziVars
        \/ nienzi_arrive(t) \/ nienzi_depart(t)
        \/ LoadIngress(t) \/ LoadEgress(t) \/ AllWereEmpty(t)

IESpec == IEInit /\ [][IENext]_<<vars, nziVars>>
=============================================================================
