SPECIFICATION FairSpec
CONSTANTS
    Entities = {e1, e2}
    Keys = {k1, k2}
    Members = {m1, m2}
    Reqs = {r1, r2}
    Kinds <- AllKinds
    NoEntity = NoEntity
    NoKey = NoKey
    NoMember = NoMember
    NoTag = NoTag
    Faults = TRUE
CHECK_DEADLOCK FALSE
INVARIANTS
    UserBeforeMember
    OneKeyPerEntity
    NoOrphanUsers
    OkIsDurable
    NoReuseAfterAnswer
    
PROPERTIES ImplementsEnrolment EveryRequestAnswered
