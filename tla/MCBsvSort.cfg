SPECIFICATION Spec
CONSTANTS
    BUFFER_SIZE = 12
    MAX_COLUMNS = 4
    Row <- MCRow
    Inputs <- MCInputs
INVARIANTS
    ArrayStaysValid
PROPERTIES
    SortsEverything
