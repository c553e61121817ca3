SPECIFICATION FairSpec
CONSTANTS
    BUFFER_SIZE = 12
    MAX_COLUMNS = 4
    MaxRows = 4
    Row <- MCRow
    Streams <- MCWritten
    PerFile = {1, 2}
    Garbage = {0, 7}
INVARIANTS
    ChunkFitsBuffer
    NeverDies
    DropsUntil
    TakesUntil
    StaysPacked
    Splits
PROPERTY
    Terminates
