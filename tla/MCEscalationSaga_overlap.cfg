\* Overlapping requests, two releases, failing RPCs and crashes.
CONSTANTS
    s1 = s1  open1 = open1  claim1 = claim1  claim2 = claim2
    act1 = act1  act2 = act2  rel1 = rel1  rel2 = rel2
    Saga = {s1}
    Request = {open1, claim1, act1, act2, rel1, rel2}
    KindOf <- MCKindOf
    SagaOf <- MCSagaOf
    Workers = 4
    Faults = TRUE
SPECIFICATION Spec
INVARIANTS Inv AuditedActions ClosedWhenReturned
PROPERTY PoppedCloses
CHECK_DEADLOCK FALSE
