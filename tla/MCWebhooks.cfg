SPECIFICATION WebhooksSpec
CONSTANTS
    Requests = {r1}
    Users = {u1}
    Endpoints = {p1}
    Relays = {w1}
    Limit = 1
    MaxAttempts = 2
    MaxAborts = 0
    MaxTries = 2
    Urls <- TheUrls
    Answers <- TheAnswers
    NoEvent = NoEvent
    NoRow = NoRow
INVARIANTS
    DialsPublicOnly
PROPERTIES
    EventuallySettled
    
    QueueDrains
    
