SPECIFICATION Spec
CONSTANTS
    Inputs <- MCInputs
    BUFFER_SIZE = 12
    MAX_COLUMNS = 10
    Row <- MCRow
INVARIANTS
    ZipsWholeRows
    ZipInvertsUnzip
    CatsHeads
    PartitionKeepsRows
