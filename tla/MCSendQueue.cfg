\* Three messages, a queue with one place, two attempts and a throttled one.
CONSTANTS
    m1 = m1
    m2 = m2
    m3 = m3
    a = a
    b = b
    NoMessage = NoMessage
    Messages = {m1, m2, m3}
    Chats = {a, b}
    ChatOf <- Destination
    QueueSize = 1
    ChatGap = 3
    GlobalGap = 2
    MaxAttempts = 2
    BackoffBase = 1
    BackoffMax = 2
    Backoffs <- FullBackoffs
    ThrottleSleeps <- TwoTicks
    MaxThrottles = 1
SPECIFICATION FairSpec
PROPERTIES
    SentSpaced
    LineSpec
    EachLeaves
