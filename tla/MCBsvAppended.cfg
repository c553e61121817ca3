SPECIFICATION Spec
CONSTANTS
    BUFFER_SIZE = 12
    MAX_COLUMNS = 4
    MaxRows = 3
    Row <- MCRow
    Streams <- MCAppended
    PerFile = {1, 2}
    Garbage = {0, 7}
INVARIANT
    ChunkFitsBuffer
