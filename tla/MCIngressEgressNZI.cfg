SPECIFICATION IESpec
CONSTANTS
    Threads = {t1, t2, t3}
    NULL = NULL
    Nodes = {1}
    Builds = {"ttsrdx"}
    MaxArrivals = 4
INVARIANT ReadersExcludeWriters
CHECK_DEADLOCK FALSE
