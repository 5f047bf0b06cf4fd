SPECIFICATION Spec
CONSTANTS
    Checkouts = {c1, c2}
    Deliveries = {d1, d2}
    Says <- MCSays
    MaxEvents = 2
    MaxDeaths = 1
    None = None
    Skip = Skip
CHECK_DEADLOCK FALSE
INVARIANTS NothingLost MirrorsProvider
PROPERTIES ImplementsInbox EventuallyApplied
