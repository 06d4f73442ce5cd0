SPECIFICATION FairSpec
CONSTANTS
    Threads = {0, 1, 2}
    NULL = NULL
    Kinds = {"write", "read"}
    NUMBER_OF_READER_GROUPS = 2
    READ_PATIENCE_LIMIT = 1
INVARIANTS
    WritersExcludeAll
PROPERTIES
    QueuedWriterGetsIn
    ImpatientReaderGetsIn
