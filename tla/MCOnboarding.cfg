SPECIFICATION FairSpec
CONSTANTS
    a = a  b = b
    Entities = {e1}
    Mails = {a, b}
    NoMail = NoMail
    Reqs = {r1, r2, r3}
    Lists <- SomeLists
    MaxConns = 3
    Faults = TRUE
CHECK_DEADLOCK FALSE
INVARIANTS
    SignUpCompletes
    PaidAreSignedUp
    StrandedBounded
    ImportedWholeOnce
PROPERTY EveryRequestAnswered
