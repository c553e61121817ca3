SPECIFICATION FairSpec
CONSTANTS
    N = 3
    CHUNK_ROWS = 2
    PIPE_SIZE = 2
    MaxRows = 4
    Limits = {1, 3, 5}
INVARIANTS
    OutputIsPrefix
    StatusSound
    ShortOnlyAfterDeath
    OutputIsWhole
PROPERTY
    AllExit
