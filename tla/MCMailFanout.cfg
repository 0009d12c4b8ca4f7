SPECIFICATION Spec
CONSTANT Workers = {w1, w2, w3}
INVARIANTS
    CleanBatchComplete
    AllReportedOnlyIfClean
PROPERTY AnsweredOrDead
CHECK_DEADLOCK FALSE
