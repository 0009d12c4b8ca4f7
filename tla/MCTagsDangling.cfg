CONSTANTS
    e1 = e1  e2 = e2  m1 = m1  m2 = m2  m3 = m3  r1 = r1  r2 = r2  r3 = r3
    Entities = {e1}
    Members = {m1, m2}
    EntityOf <- OneEntity
    Names = {"n"}
    MaxTag = 1
    Reqs = {r1, r2}
    Kinds = {"addTag", "deleteTag"}
    Faults = TRUE
SPECIFICATION Spec
SYMMETRY Symmetry
INVARIANTS NoDanglingTags
CHECK_DEADLOCK FALSE
