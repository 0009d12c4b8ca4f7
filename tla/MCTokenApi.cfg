SPECIFICATION FairSpec
CONSTANTS
    k1 = k1  k2 = k2
    Entities = {e1}
    Reqs = {r1, r2}
    Keys = {k1, k2}
    ShortKeys = {k2}
    AuthWindowSeconds = 1
    Half = 4
    Start = 2
    End = 4
    MaxVersion = 1
    Delays = {0, 2}
    KeyLists <- Lists
    Kinds <- AllKinds
    Faults = TRUE
    NoKey = NoKey
CHECK_DEADLOCK FALSE
INVARIANTS
    StaleRefused
    ImportedOnce
    NoHalfImport
PROPERTY EveryRequestAnswered
