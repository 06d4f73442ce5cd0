SPECIFICATION FairSpec
CONSTANTS
    t1 = t1
    t2 = t2
    t3 = t3
    c1 = c1
    c2 = c2
    Threads = {t1, t2}
    Clusters = {c1, c2}
    Central = Central
    NULL = NULL
    FREE = FREE
    LOCKED = LOCKED
    Values = {1}
    MaxItems = 1
    HelpBound = 2
    ScanBound = 2
    RingSize = 2
    Builds = {"clh", "ccsynch", "hsynch", "oyama", "oyamaopt", "flatcomb"}
INVARIANTS
    OneCombiner
PROPERTIES
    WaitersAreServed
