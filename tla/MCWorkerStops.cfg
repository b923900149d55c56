\* The worker leaves its loop after its first success.
CONSTANTS
    u1 = u1
    u2 = u2
    NoUpdate = NoUpdate
    Updates = {u1, u2}
    DequeMax = 1
    Limit = 2
    Keep = 1
    QueueCap = 2
    MaxDeliveries = 1
    MaxRestarts = 0
    DbFaults = FALSE
SPECIFICATION FairSpec
CHECK_DEADLOCK FALSE
PROPERTY QueuedIsStarted
