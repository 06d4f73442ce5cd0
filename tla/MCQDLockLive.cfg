SPECIFICATION FairSpec
CONSTANTS
    Threads = {t1, t2}
    NoOp = NoOp
    CAPACITY = 2
    Kinds = {"delegate", "await", "exclusive"}
    MaxCalls = 1
    OFFER_TRIES = 2
PROPERTIES
    HolderGetsOut
    AcceptedReturns
