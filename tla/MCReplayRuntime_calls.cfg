\* Concurrent calls, repeated keys, failing services and a crash.
CONSTANTS
    c1 = c1  c2 = c2  c3 = c3  k1 = k1  k2 = k2  t1 = t1
    Call = {c1, c2, c3}
    Key = {k1, k2}
    KeyOf <- MCKeyOf
    NoKey = k2
    Target = {t1}
    TargetOf <- MCTargetOf
    Threshold = 1
    Cooldown = 2
    MaxFailures = 2
    ServicesFail = TRUE
    MaxCrashes = 1
SPECIFICATION Spec
INVARIANTS AtMostOneExecution AnswersAgree SagaBacked OutcomeEvidenced KeptForOperator WindowHolds
PROPERTY ImplementsOnce ResolvesOrRaises
CHECK_DEADLOCK FALSE
