SPECIFICATION FairSpec
CONSTANTS
    Threads = {t1, t2, t3}
    NULL = NULL
    TicketLimit = 4
    Builds = {"mcslock", "futex_lock", "flock", "mcs_lock", "mcs_futex_lock", "ticket_futex_lock"}
INVARIANTS
    MutualExclusion
    PassReachesWaiter
    NobodySleepsForEver
PROPERTIES
    ImplementsFIFOLock
