SPECIFICATION AuthSpec
CONSTANTS
    Logins = {l1}
    Refreshes = {r1, r2, r3}
    Logouts = {o1}
    Bumps = {b1, b2}
    MaxRequests = 5
    None = None
    Uses = {u1}
    NoKey = NoKey
    People = {Me, p1}
    Calls = {c1, c2, c3}
    Founder = p1
    Me = Me
    NoRow = NoRow
    NoCall = NoCall
SYMMETRY Symmetry
CHECK_DEADLOCK FALSE
INVARIANTS AuthorityHeld RevocationIsFinal BumpRejects
PROPERTIES ImplementsFamilies  RevocationSticks Sealed
