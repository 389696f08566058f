\* One run of up to two actions on a page that moves by itself, a failing append, a
\* crowded batch, a filled topic, any compile.
CONSTANTS
    l1 = l1
    l2 = l2
    t1 = t1
    t2 = t2
    Locator = {l1, l2}
    Text = {t1, t2}
    Param = {"url", "value", "output_name"}
    Input = {"entry_url", "member"}
    Secret = {l2, t2}
    Redacted = Redacted
    None = None
    NoLocator = NoLocator
    Action <- MCAction
    Overlay <- MCOverlay
    MaxSteps = 3
    BatchLimit = 10
    Crowd = {3}
    MaxFailures = 1
    Room = {6, 17}
SPECIFICATION Spec
INVARIANTS TypeOK CompiledSound CompiledComplete EventsTell
CHECK_DEADLOCK FALSE
