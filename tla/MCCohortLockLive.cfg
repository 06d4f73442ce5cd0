SPECIFICATION FairSpec
CONSTANTS
    Threads = {t1, t2, t3}
    TicketLocks = {n1, n2}
    TicketRange = 4
    ARRAY_SIZE = 2
    ATicketRange = 6
    Kinds = {"lock"}
    MAXIMUM_NUMBER_OF_HAND_OVERS = 1
PROPERTIES
    EveryoneGetsIn
