\* Two calls with one key at the same time.
CONSTANTS
    c1 = c1  c2 = c2  c3 = c3  k1 = k1  k2 = k2  t1 = t1
    Call = {c1, c2}
    Key = {k1, k2}
    KeyOf <- MCKeyOf
    NoKey = NoKeyUsed
    Target = {t1}
    TargetOf <- MCTargetOf
    Threshold = 2
    Cooldown = 2
    MaxFailures = 2
    ServicesFail = FALSE
    MaxCrashes = 0
SPECIFICATION SafeSpec
INVARIANT RepeatedKeyAnswered
CHECK_DEADLOCK FALSE
