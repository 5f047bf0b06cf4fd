SPECIFICATION FairSpec
CONSTANTS
    Requests = {r1, r2}
    Keys = {k1, k2}
    Hashes = {h1, h2}
    TTL = 2
    MaxTime = 4
    RowLocks = FALSE
    None = None
    NoRow = NoRow
INVARIANTS
    FirstWindowExclusive
PROPERTIES
    ClaimsAreReclaimed
