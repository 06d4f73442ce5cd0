SPECIFICATION NodeSpec
CONSTANTS
    Threads = {t1, t2, t3}
    NULL = NULL
    Nodes = {1, 2}
    Builds = {"qdlock", "qdlock_nostarve", "qdlockp", "qdlock_futex", "hqdlock", "entry", "dual", "buffer", "hqd", "mrqd", "mrhqd", "rhqd", "ttsrdx", "newrep", "sdw", "aer", "fcrdx", "afdx"}
SYMMETRY Symmetry
INVARIANTS
    MutualExclusion
    FreeLockOwesNothing
    OwnOperationsInOrder
    FlushStaysInside
    ReadersExcludeWriters
