SPECIFICATION OutSpec
CONSTANTS
    BUFFER_SIZE = 4
    MAX_COLUMNS = 3
    Files <- MCFiles
INVARIANTS
    RoundTrip
    LinesInOrder
    GivesUpRightly
PROPERTIES
    ReadsToTheEnd
