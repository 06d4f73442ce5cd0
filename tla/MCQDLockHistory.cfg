SPECIFICATION HSpec
CONSTANTS
    Threads = {t1, t2, t3}
    NoOp = NoOp
    CAPACITY = 1
    Kinds = {"delegate", "await", "exclusive"}
    MaxCalls = 2
    OFFER_TRIES = 1
CONSTRAINT OneBlocks
SYMMETRY Symmetry
INVARIANTS
    TypeOK
    MutualExclusion
    UnlockedQueueIsSealed
    QueueInv
    RunInOrder
    AllAcceptedHaveRun
    OwnDelegationsPrecede
PROPERTIES
    ImplementsDelegation
