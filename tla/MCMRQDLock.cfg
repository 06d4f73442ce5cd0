SPECIFICATION FairSpec
CONSTANTS
    Threads = {0, 1, 2}
    NoOp = NoOp
    CAPACITY = 1
    Kinds = {"delegate", "exclusive", "read"}
    KindsOf <- MixedKinds
    MaxCalls = 1
    NUMBER_OF_READER_GROUPS = 2
    READ_PATIENCE_LIMIT = 0
INVARIANTS
    MutualExclusion
    ReadersExcludeWriters
    BarrierCountsImpatient
    QuiescentIsClean
PROPERTIES
    ImpatientReaderGetsIn
    BarrierFalls
