\* As MCModeration.cfg, for what the comment at the captcha timer says, whichever way updates
\* are processed.
CONSTANTS
    t1 = t1
    t2 = t2
    Threads = {t1, t2}
    WarnsLimit = 2
    FloodN = 1
    Day = 1
    MaxWarns = 2
    MaxTimers = 1
SPECIFICATION FairSpec
PROPERTY
    JoinerIsMuted
