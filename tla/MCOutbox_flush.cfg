\* loop.py says that after its last dispatch_once every event is in the log.
CONSTANTS
    NumRows = 2
    Corr <- MCCorrOne
    Dispatchers = {bg, fg}
    Poller = bg
    BatchLimit = 2
    Poison = {}
    MaxCrashes = 0
SPECIFICATION SafeSpec
INVARIANT FlushComplete
CHECK_DEADLOCK FALSE
