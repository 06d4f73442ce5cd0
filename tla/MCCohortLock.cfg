SPECIFICATION Spec
CONSTANTS
    Threads = {t1, t2, t3}
    TicketLocks = {n1, n2}
    TicketRange = 4
    ARRAY_SIZE = 1
    ATicketRange = 4
    Kinds = {"lock", "try"}
    MAXIMUM_NUMBER_OF_HAND_OVERS = 1
SYMMETRY Symmetry
INVARIANTS
    TypeOK
    MutualExclusion
    HandOverHasTaker
