\* Two updates, a queue of one place, repeated deliveries, two restarts, failing
\* statements, and the worker under fair scheduling; for the cache, the code's
\* 5000/6000/5000 scaled down with the same order of sizes.
CONSTANTS
    u1 = u1
    u2 = u2
    NoUpdate = NoUpdate
    Updates = {u1, u2}
    DequeMax = 5
    Limit = 7
    Keep = 5
    QueueCap = 1
    MaxDeliveries = 3
    MaxRestarts = 2
    DbFaults = TRUE
    MaxAdds = 15
SPECIFICATION WebhookSpec
CHECK_DEADLOCK FALSE
INVARIANTS
    AtMostOnce
    AnsweredIsAccounted
    DoneMeansQueued
    RecentRemembered
    CacheBounded
PROPERTIES
    DeliverySpec
    QueueMovesWhileFailing
