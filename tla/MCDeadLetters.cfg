\* Three rows of two types, two replays at once, days of two ticks, a cleanup of what is
\* a day old.
CONSTANTS
    early = early
    late = late
    job = job
    r1 = r1
    r2 = r2
    Items = {early, late, job}
    TypeOf <- TypeOfItem
    Replays = {r1, r2}
    None = None
    PerDay = 2
    DaysOld = 1
    MaxTime = 5
SPECIFICATION Spec
SYMMETRY Symmetry
INVARIANTS
    ReplayedOnce
    GaugeCovers
PROPERTIES
    CleanedInTime
