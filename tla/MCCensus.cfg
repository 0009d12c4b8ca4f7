CONSTANTS
    Members = {m1, m2}
    Censuses = {c1}
    Reqs = {r1, r2}
    Senders = {v1}
    Deletes = TRUE
    Faults = TRUE
SPECIFICATION FairSpec
INVARIANTS OneClaimPerMember ClaimsAreBacked RootCoversClaims LinksAreClaims
PROPERTY EveryDumpAnswered
