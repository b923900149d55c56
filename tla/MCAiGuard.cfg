\* Two concurrent messages; one tick is window_sec, two are open_duration.
CONSTANTS
    c1 = c1
    c2 = c2
    Callers = {c1, c2}
    Threshold = 3
    Window = 1
    OpenFor = 2
    Probes = 2
    MaxRetries = 1
    Quota = 2
    CallTime = 1
    MaxFaults = 2
    MaxTime = 6
SPECIFICATION GuardSpec
SYMMETRY CallerSymmetry
INVARIANTS
    ProbeBudget
    HalfOpenQuiet
    QuotaOvershoot
PROPERTY OpenNeedsBurst
