\* Racing compiles of two capabilities, the projector on its own connection, a crash.
CONSTANTS
    k1 = k1
    k2 = k2
    c1 = c1
    c2 = c2
    c3 = c3
    c4 = c4
    c5 = c5
    q1 = q1
    q2 = q2
    q3 = q3
    a = a
    b = b
    Capability = {k1, k2}
    Compile = {c1, c2, c3, c4, c5}
    CapOf <- MCCapOf
    InterfaceOf <- MCInterfaceOf
    Replay = {q1, q2, q3}
    TargetOf <- MCTargetOf
    Wanted <- MCWanted
    Item = {a, b}
    NoRow = NoRow
    MaxVersion = 4
    MaxWrites = 1
    MaxCrashes = 1
SPECIFICATION Spec
INVARIANTS VersionChain LabelsTell CompiledKept LosersExplained
CHECK_DEADLOCK FALSE
