\* A purchase and a renewal, three deliveries in all; two failures or crashes anywhere.
CONSTANTS
    u1 = u1
    c1 = c1
    c2 = c2
    NoCharge = NoCharge
    Users = {u1}
    Charges = {c1, c2}
    OwnerOf <- SameOwner
    Period = 3
    KeepReminders = 1
    MaxTime = 5
    MaxDeliveries = 3
    MaxMishaps = 2
SPECIFICATION Spec
SYMMETRY ChargeSymmetry
INVARIANTS
    CreditedOnce
    RecordedIsCredited
    PaidTimeCovered
    RepeatsNeedCleanup
PROPERTY PaidPeriodHonoured
