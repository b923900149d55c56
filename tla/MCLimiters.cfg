\* Two processes that overlap, one default scope and one custom scope; and one user's
\* button presses with the numbers of main.py in ticks of 5/3 seconds: a token per tick,
\* bursts of 6, a cooldown of 9 ticks, deletion after 30.
CONSTANTS
    usual = usual
    strict = strict
    Processes = {p1, p2}
    p1 = p1
    p2 = p2
    Scopes = {"admin", "custom"}
    Defaults = {"admin"}
    Settings = {usual, strict}
    DefaultOf <- UsualByDefault
    Absent = Absent
    Undecided = Undecided
    TTL = 2
    k1 = k1
    Keys = {k1}
    Rate = 1
    Capacity = 6
    CoolDown = 9
    MaxAge = 30
    Handlers = 3
    MaxPresses = 3
SPECIFICATION LimitersSpec
SYMMETRY Alike
INVARIANTS
    BucketIsRow
    DecisionStands
    RateBound
PROPERTIES
    BuiltFromRecent
    MuteHolds
    OnlyExcessRefused
