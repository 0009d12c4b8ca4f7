SPECIFICATION FairSpec
CONSTANTS
    Procs = {p1, p2}
    Releases = {2, 3}
    Retries = 2
    Actions = {"serve", "up", "down"}
    MaxStarts = 3
    MaxFaults = 1
CHECK_DEADLOCK FALSE
INVARIANTS
    SchemaIsRecorded
    ServesFullSchema
PROPERTIES
    RefusedForCause
    StartEnds
