SPECIFICATION Spec
CONSTANTS
    Requests = {q1, q2}
    Limit <- MCLimit
    Window = 3
    PlanTTL = 3
    Clients = {c1, c2, c3}
    Threshold = 3
    LockWindow = 3
    MaxCount = 7
    None = None
INVARIANTS PlanStaleAtMostTTL AttemptsBounded
PROPERTIES ImplementsMeter LockoutEnds
