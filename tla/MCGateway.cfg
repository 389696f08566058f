\* A failing and two successful invocations, an operator, a stream, a compile.
CONSTANTS
    i1 = i1
    i2 = i2
    i3 = i3
    o1 = o1
    w1 = w1
    b1 = b1
    k1 = k1
    Request = {i1, i2, i3, o1, w1, b1}
    KindOf <- MCKindOf
    Size <- MCSize
    Key = {k1}
    KeyOf <- MCKeyOf
    Window = 2
    MaxRequests = 2
    MaxDelay = 1
    MaxTime = 3
SPECIFICATION Spec
INVARIANTS RateHonoured StuckExplained
CHECK_DEADLOCK FALSE
SYMMETRY Alike
