SPECIFICATION Spec
CONSTANTS
    Requests = {r1, r2}
    Users = {u1}
    Endpoints = {p1}
    Relays = {w1, w2}
    Limit = 1
    MaxAttempts = 2
    MaxAborts = 1
    NoEvent = NoEvent
    NoRow = NoRow
SYMMETRY Symmetry
INVARIANTS
    
    OncePerRound
    NoEndpointSkipped
PROPERTIES
    SettledIsFinal
