SPECIFICATION HFairSpec
CONSTANTS
    Threads = {0, 1}
    NoOp = NoOp
    CAPACITY = 1
    Kinds = {"delegate", "exclusive", "read"}
    KindsOf <- AllKinds
    MaxCalls = 3
    NUMBER_OF_READER_GROUPS = 2
    READ_PATIENCE_LIMIT = 0
INVARIANTS
    OwnDelegationsPrecede
PROPERTIES
    ImplementsDelegation
    CallsReturn
