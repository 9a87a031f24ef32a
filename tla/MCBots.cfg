CONSTANTS
    Runs = {r1, r2}
    Proposals = {p1}
    Votes = {v1}
    MaxAuction = 2
    MaxBids = 1
    MaxFaults = 1
    None = None
SPECIFICATION Spec
INVARIANTS
    PostedAtMostOnce
    CacheNeverAhead
PROPERTY AtRiskWarned
