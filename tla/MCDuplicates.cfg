\* As MCPayments.cfg, with one failure.
CONSTANTS
    u1 = u1
    c1 = c1
    c2 = c2
    NoCharge = NoCharge
    Users = {u1}
    Charges = {c1, c2}
    OwnerOf <- SameOwner
    Period = 3
    KeepReminders = 1
    MaxTime = 5
    MaxDeliveries = 3
    MaxMishaps = 1
SPECIFICATION Spec
SYMMETRY ChargeSymmetry
INVARIANTS
    DuplicatesPrevented
