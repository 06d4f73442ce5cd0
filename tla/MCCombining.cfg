SPECIFICATION Spec
SYMMETRY Symmetry
CONSTANTS
    t1 = t1
    t2 = t2
    t3 = t3
    c1 = c1
    c2 = c2
    Threads = {t1, t2, t3}
    Clusters = {c1, c2}
    Central = Central
    NULL = NULL
    FREE = FREE
    LOCKED = LOCKED
    Values = {1}
    MaxItems = 2
    HelpBound = 2
    ScanBound = 2
    RingSize = 2
    Builds = {"clh", "ccsynch", "oyama", "oyamaopt", "flatcomb"}
INVARIANTS
    OneCombiner
    IssuedHaveRun
PROPERTIES
    ImplementsSharedHeap
