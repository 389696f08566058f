\* Rows committed out of order, one of them refused; failed and lost appends,
\* requests acted on late, aborted dispatchers, a crash.
CONSTANTS
    NumRows = 3
    Corr <- MCCorrOne
    Dispatchers = {bg, fg}
    Poller = bg
    BatchLimit = 2
    Poison = {2}
    MaxCrashes = 1
SPECIFICATION SafeSpec
INVARIANTS Inv NoDuplicates PublishedIsLogged InOrder FlushCovers
PROPERTY ImplementsDelivery
CHECK_DEADLOCK FALSE
