\* Two threads, two warnings to a ban, one message per flood window, days of one tick.
CONSTANTS
    t1 = t1
    t2 = t2
    Threads = {t1, t2}
    WarnsLimit = 2
    FloodN = 1
    Day = 1
    MaxWarns = 2
    MaxTimers = 2
SPECIFICATION FairSpec
INVARIANT
    WarnsAreStreak
PROPERTIES
    Earned
    SolvedIsSpared
    UnsolvedIsMuted
