\* Three overlapping runs against one target and one against another.
CONSTANTS
    r1 = r1  r2 = r2  r3 = r3  r4 = r4  t1 = t1  t2 = t2
    Call = {r1, r2, r3, r4}
    Target = {t1, t2}
    TargetOf <- MCTargetOf
    Threshold = 2
    Cooldown = 2
    MaxFailures = 3
SPECIFICATION BreakerSpec
INVARIANTS BreakerInv ClosedBelowThreshold WindowHolds
PROPERTY Recovers
CHECK_DEADLOCK FALSE
