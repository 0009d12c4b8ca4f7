SPECIFICATION Spec
CONSTANTS
    Entities = {e1}
    Keys = {k1, k2}
    Members = {m1, m2}
    Reqs = {r1, r2}
    Kinds <- LinkKinds
    NoEntity = NoEntity
    NoKey = NoKey
    NoMember = NoMember
    NoTag = NoTag
    Faults = FALSE
SYMMETRY Symmetry
CHECK_DEADLOCK FALSE
INVARIANT TokenValidatedOnce
