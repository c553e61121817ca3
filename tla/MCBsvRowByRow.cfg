SPECIFICATION OneProgram
CONSTANTS
    Inputs <- TopNInputs
    TopN = {0, 1, 2, 3}
    FACTOR = 2
    MAP_SIZE = 2
    MAP_KEY_BUF_SIZE = 4
    BYTE = 4
    LONG_SIZE = 2
INVARIANTS
    DropsOnlyTheWorst
    WritesTheBest
    MapFindsKeys
    HashedGroups
    StreamedGroups
    SchemaConvertsAlone
    ConvertsBack
