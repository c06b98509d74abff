\* Both servers, two callers of Stop besides the deferred one.
CONSTANTS
    TLSEnabled = TRUE
    Stoppers = {p1, p2}
    MaxRequests = 2
SPECIFICATION FairSpec
CHECK_DEADLOCK FALSE
INVARIANTS ReturnMeansStopped 
PROPERTIES StartReturns NothingIsLeft
