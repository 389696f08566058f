\* Everything committed is published in the end, past a row the log refuses and
\* a poller whose thread ends before a restart.
CONSTANTS
    NumRows = 3
    Corr <- MCCorrOne
    Dispatchers = {bg}
    Poller = bg
    BatchLimit = 2
    Poison = {1}
    MaxCrashes = 2
SPECIFICATION Spec
PROPERTY EventuallyPublished
CHECK_DEADLOCK FALSE
