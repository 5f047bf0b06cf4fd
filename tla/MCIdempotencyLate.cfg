SPECIFICATION Spec
CONSTANTS
    Requests = {r1, r2, r3}
    Keys = {k1}
    Hashes = {h1, h2}
    TTL = 2
    MaxTime = 4
    RowLocks = TRUE
    None = None
    NoRow = NoRow
SYMMETRY Symmetry
INVARIANT EveryReplayIsOfSameRequest
