SPECIFICATION Spec
CONSTANTS
    Inputs <- MCInputs
    MAP_SIZE = 2
    MAP_KEY_BUF_SIZE = 4
    BYTE = 4
    LONG_SIZE = 2
INVARIANT CombinesColumns
