SPECIFICATION FairSpec
CONSTANTS
    BUFFER_SIZE = 20
    MAX_COLUMNS = 4
    Row <- MCRow
    Inputs <- MCInputs
INVARIANTS
    TypeOK
    ReaderNeverDies
    InOrder
    NothingWrittenIsLost
    FilePacked
PROPERTIES
    ImplementsChannel
    ReaderStops
