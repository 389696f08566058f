\* Two replays of one version, two faults, commits that are acted on late.
CONSTANTS
    v1 = v1
    DiscoveryRun = {d1}
    ReplayRun = {r1, r2}
    Version = {v1}
    VersionOf <- MCVersionOf
    NoRun = NoRun
    NoVersion = NoVersion
    MaxBatch = 2
    Threshold = 2
    MaxEvents = 3
    MaxFaults = 2
    MaxCount = 4
SPECIFICATION Spec
INVARIANTS NothingSkipped ConfidenceSound
PROPERTY CatchesUp
CHECK_DEADLOCK FALSE
