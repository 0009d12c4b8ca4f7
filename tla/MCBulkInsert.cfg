SPECIFICATION BulkSpec
CONSTANTS
    MaxParams = 47
    MaxLen = 30
    Shapes <- CallSites
INVARIANTS
    BatchFits
    AllOrNothing
CHECK_DEADLOCK FALSE
