CONSTANTS
    e1 = e1  e2 = e2  m1 = m1  m2 = m2  m3 = m3  r1 = r1  r2 = r2  r3 = r3
    Entities = {e1, e2}
    Members = {m1, m3}
    EntityOf <- TwoEntities
    Names = {"n"}
    MaxTag = 2
    Reqs = {r1, r2}
    Kinds = {"createTag", "addTag", "removeTag", "deleteTag", "updateMember"}
    Faults = TRUE
SPECIFICATION FairSpec
INVARIANTS DeletedUnlessReadded OwnTagsUnlessSent
PROPERTIES DeleteIsAtomic EveryRequestAnswered
CHECK_DEADLOCK FALSE
